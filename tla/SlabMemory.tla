----------------------------- MODULE SlabMemory -----------------------------
(***************************************************************************)
(* The memory page tables come from: the kernel's list of free slabs       *)
(* (kernelsystem.cpp) and the slab and cache on top of it (slab.h,         *)
(* cache.h).  One table fills a slab, which the kernel relies on           *)
(* (kernel_process.cpp:87), so every slab of a cache is full and each      *)
(* table takes a new one.                                                  *)
(*                                                                         *)
(* A slab matters by its first word: a link while the slab is free, the    *)
(* start of the table while it is in use.  The list ends in the slabs that *)
(* were never handed out: a link of zero means the slab right after.       *)
(***************************************************************************)
EXTENDS Integers, Functions

CONSTANTS
  TotalSlabs,  \* slabs of the kernel's memory; TotalSlabs itself is just past it
  Zero,        \* the null link
  Table        \* the first word of a table once an entry was written there

Slabs == 0 .. TotalSlabs - 1
Places == 0 .. TotalSlabs

ASSUME SlabAssumption ==
  /\ TotalSlabs \in Nat \ {0}
  /\ Zero # Table
  /\ {Zero, Table} \cap Places = {}

VARIABLES
  firstFree,   \* firstFreeSlot
  word,        \* the first word of every slab and of what lies past them
  freeCount,   \* freeSlabsCount
  holders,     \* tables that live in a slab
  overwritten  \* history: a write past the end of a slab destroyed a word

vars == <<firstFree, word, freeCount, holders, overwritten>>

TypeOK ==
  /\ firstFree \in Places
  /\ word \in [Places -> Places \union {Zero, Table}]
  /\ freeCount \in 0 .. TotalSlabs
  /\ holders \in [Slabs -> Nat]
  /\ overwritten \in BOOLEAN

Init ==
  /\ firstFree = 0
  /\ word = [s \in Places |-> Zero]
  /\ freeCount = TotalSlabs
  /\ holders = [s \in Slabs |-> 0]
  /\ overwritten = FALSE

\* Mutated: memory never runs out.
NeverEmpty == TRUE

SlabsLeft == freeCount > 0

\* getSlabMemory: where the list goes on after s.
LinkOf(s) == IF word[s] = Zero THEN s + 1 ELSE word[s]

\* The slab is zeroed, and Slab::getObject writes a null link after its one
\* object: the first word of the next slab.
FirstObject(s) == [word EXCEPT ![s] = Zero, ![s + 1] = Zero]

\* A table from the cache.  Once links were destroyed the list can name a slab
\* that is in use; when its table was written there is no link to go on with,
\* and what follows is left out.
GetTable ==
  /\ SlabsLeft
  /\ firstFree \in Slabs
  /\ word[firstFree] # Table
  /\ firstFree' = LinkOf(firstFree)
  /\ word' = FirstObject(firstFree)
  /\ freeCount' = freeCount - 1
  /\ holders' = [holders EXCEPT ![firstFree] = @ + 1]
  /\ overwritten' = (overwritten \/ word[firstFree + 1] # Zero)

\* The first entry of a table is written.
WriteTable(s) ==
  /\ holders[s] > 0
  /\ word' = [word EXCEPT ![s] = Table]
  /\ UNCHANGED <<firstFree, freeCount, holders, overwritten>>

\* Mutated: a returned slab gets a null link.
LinkReturned == Zero

\* The link a returned slab gets.
ReturnedLink == firstFree

ReturnTable(s) ==
  /\ holders[s] > 0
  /\ word' = [word EXCEPT ![s] = ReturnedLink]
  /\ firstFree' = s
  /\ freeCount' = freeCount + 1
  /\ holders' = [holders EXCEPT ![s] = @ - 1]
  /\ UNCHANGED overwritten

Next == GetTable \/ \E s \in Slabs : WriteTable(s) \/ ReturnTable(s)

Spec == Init /\ [][Next]_vars

-----------------------------------------------------------------------------
(* Properties *)

\* The slabs nobody has.
Unheld == {s \in Slabs : holders[s] = 0}

\* The list from firstFree on goes through these slabs in this order.
IsList(list) ==
  /\ freeCount > 0 => list[1] = firstFree
  /\ \A i \in 1 .. freeCount - 1 : list[i + 1] = LinkOf(list[i])

\* A table has its slab to itself.
OneHolder == \A s \in Slabs : holders[s] <= 1

\* The list of free slabs, followed through the links that live in the free
\* memory itself, is as long as the counter says and comes to every slab nobody has,
\* and to each once, through every order of returns and reuses, until a write past
\* the end of a slab destroys a link or an entry (slab.h:29, kernelsystem.cpp:47-77).
FreeListExact ==
  ~overwritten => /\ OneHolder
                  /\ \E list \in Bijection(1 .. freeCount, Unheld) : IsList(list)

\* No slab is handed out while another table lives in it.  The code breaks this
\* once slabs are reused (slab.h:30).
SlabHasOneTable == OneHolder
=============================================================================
