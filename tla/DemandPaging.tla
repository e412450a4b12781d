---------------------------- MODULE DemandPaging ----------------------------
(***************************************************************************)
(* What the locks of the driver are for.  Seen from outside, an instruction*)
(* of a process is one step: it finds its page in a frame, or moves it to  *)
(* one that is empty or, when none is, to one that another page leaves.    *)
(***************************************************************************)
CONSTANTS
  Pages,   \* pages of all processes
  Frames,  \* frames of physical memory
  Nowhere  \* where a page is that is in no frame

VARIABLES
  place,  \* the frame each page is in
  dirty   \* pages that were stored to since they were moved to their frame

vars == <<place, dirty>>

Init == place = [e \in Pages |-> Nowhere] /\ dirty = {}

Empty(f) == \A e \in Pages : place[e] # f

\* A store to a page that is in a frame.
Store(e) ==
  /\ place[e] # Nowhere
  /\ dirty' = dirty \union {e}
  /\ UNCHANGED place

\* The pages a frame is taken from are in none afterwards.
Move(e, store) ==
  /\ place[e] = Nowhere
  /\ \E f \in Frames :
       LET leaving == {v \in Pages : place[v] = f}
       IN  /\ Empty(f) \/ \A g \in Frames : ~Empty(g)
           /\ place' = [v \in Pages |-> IF v = e THEN f
                                        ELSE IF v \in leaving THEN Nowhere
                                        ELSE place[v]]
           /\ dirty' = (dirty \ leaving) \union (IF store THEN {e} ELSE {})

Next == \E e \in Pages : Store(e) \/ \E store \in BOOLEAN : Move(e, store)

Spec == Init /\ [][Next]_vars
=============================================================================
