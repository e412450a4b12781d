----------------------------- MODULE FrameTable -----------------------------
(***************************************************************************)
(* The table of physical frames (frametableentry.h, frametableentry.cpp)   *)
(* and the two searches pageFault makes in it.  An entry packs a free bit  *)
(* and a reference counter in one word and points to the page table entry  *)
(* of the page the frame holds; here it is a record.                       *)
(*                                                                         *)
(*   free    bit 0 of frameFree                                            *)
(*   ref     frameFree >> 8: the reference bit and the ageing bits below it*)
(*   owner   pmt1entry, NoPage for the null pointer                        *)
(***************************************************************************)
EXTENDS Integers

CONSTANTS
  FrameCount,    \* pages of physical memory; processVMSpaceSize
  ReferencedBit, \* weight of bit 16 in the counter: 256 in the code
  NoPage         \* the null page table entry

ASSUME FrameTableAssumption ==
  /\ FrameCount \in Nat \ {0}
  /\ ReferencedBit \in Nat \ {0}

Frames == 0 .. FrameCount - 1
Counters == 0 .. 2 * ReferencedBit - 1

FrameEntries(pages) ==
  [free : BOOLEAN, ref : Counters, owner : pages \union {NoPage}]

NewFrame == [free |-> TRUE, ref |-> 0, owner |-> NoPage]

\* Mutated: the bit is added, not set.
AddReferenced(ref) == ref + ReferencedBit

\* The counter with the reference bit set.
SetReferenced(ref) == IF ref < ReferencedBit THEN ref + ReferencedBit ELSE ref

\* The counter moved down one place: the last ageing bit is dropped.
ShiftReferencedBits(ref) == ref \div 2

\* f is the frame the first loop of pageFault stops at.
IsFirstFree(table, f) ==
  /\ table[f].free
  /\ \A g \in Frames : table[g].free => f <= g

NoneFree(table) == \A f \in Frames : ~table[f].free

\* f is the frame the second loop picks: the lowest of those whose counter
\* is least.
IsVictim(table, f) ==
  \A g \in Frames : \/ table[f].ref < table[g].ref
                    \/ table[f].ref = table[g].ref /\ f <= g
=============================================================================
