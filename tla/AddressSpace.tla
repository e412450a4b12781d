---------------------------- MODULE AddressSpace ----------------------------
(***************************************************************************)
(* What a program sees of its memory, with no frames, clusters or faults:  *)
(* pages that are mapped with rights and a content, change by the          *)
(* program's own stores only, and go when their segment does.              *)
(*                                                                         *)
(* The promise has one exception.  A page that holds a store is unsaved,   *)
(* and an unsaved page may lose its content once for that store, because   *)
(* the kernel swaps it out from the wrong memory (kernelsystem.cpp:213).   *)
(* A page no store was made to since it was last brought in never does.    *)
(***************************************************************************)
CONSTANTS
  Places,    \* every page of every process
  Contents,  \* what a page can hold
  Data,      \* what a program can store
  Unmapped   \* the content of a page that is not mapped

VARIABLES
  content,   \* what each page holds, or Unmapped
  writable,  \* the mapped pages a program may store to
  unsaved    \* the pages with a store that a swap-out would lose

vars == <<content, writable, unsaved>>

Mapped == {e \in Places : content[e] # Unmapped}

Init ==
  /\ content = [e \in Places |-> Unmapped]
  /\ writable = {}
  /\ unsaved = {}

\* A segment appears on pages that were not mapped, all with the same rights.
MapSegment(S) ==
  /\ S \intersect Mapped = {}
  /\ \A e \in Places : IF e \in S THEN content'[e] \in Contents
                                  ELSE content'[e] = content[e]
  /\ writable' \in {writable, writable \union S}
  /\ UNCHANGED unsaved

Unmap(S) ==
  /\ content' = [e \in Places |-> IF e \in S THEN Unmapped ELSE content[e]]
  /\ writable' = writable \ S
  /\ unsaved' = unsaved \ S

Store(e, d) ==
  /\ e \in writable
  /\ content' = [content EXCEPT ![e] = d]
  /\ unsaved' = unsaved \union {e}
  /\ UNCHANGED writable

Lose(e) ==
  /\ e \in unsaved
  /\ \E x \in Contents : content' = [content EXCEPT ![e] = x]
  /\ unsaved' = unsaved \ {e}
  /\ UNCHANGED writable

Next ==
  \/ \E S \in SUBSET Places : MapSegment(S) \/ Unmap(S)
  \/ \E e \in Places : Lose(e) \/ \E d \in Data : Store(e, d)

Spec == Init /\ [][Next]_vars
=============================================================================
