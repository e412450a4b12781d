-------------------------- MODULE SlabMemoryProofs --------------------------
(***************************************************************************)
(* The list of free slabs, for every number of slabs.                      *)
(***************************************************************************)
EXTENDS SlabMemory, FiniteSetTheorems, TLAPS

-----------------------------------------------------------------------------
(* How many tables there are *)

\* A pair for each table: its slab, and how many more the slab has.
Held == {x \in Slabs \X Nat : x[2] < holders[x[1]]}

\* Each slab taken from the list is one more table.
Counted ==
  /\ IsFiniteSet(Held)
  /\ freeCount + Cardinality(Held) = TotalSlabs

SlabInv == TypeOK /\ Counted

LEMMA SlabFacts ==
  /\ TotalSlabs \in Nat /\ TotalSlabs > 0
  /\ \A s \in Slabs : s \in Places /\ s + 1 \in Places
  /\ Slabs \subseteq Nat /\ Places \subseteq Nat
  /\ \A s \in Places : s # Zero /\ s # Table
  /\ Zero # Table
BY SlabAssumption DEF Slabs, Places

LEMMA LinkType ==
  ASSUME TypeOK, NEW s \in Slabs, word[s] # Table
  PROVE  LinkOf(s) \in Places
BY SlabFacts DEF TypeOK, LinkOf

LEMMA InitSlabs == Init => SlabInv
<1> SUFFICES ASSUME Init PROVE SlabInv
  OBVIOUS
<1>1. TypeOK
  <2>1. firstFree \in Places /\ freeCount \in 0 .. TotalSlabs
    BY SlabFacts DEF Init, Places
  <2>2. word \in [Places -> Places \union {Zero, Table}] /\ holders \in [Slabs -> Nat]
    BY DEF Init
  <2> QED BY <2>1, <2>2 DEF Init, TypeOK
<1>2. Held = {}
  BY DEF Init, Held
<1>3. Counted
  BY <1>2, FS_EmptySet, SlabFacts DEF Counted, Init
<1> QED BY <1>1, <1>3 DEF SlabInv

LEMMA GetTableCounted ==
  ASSUME SlabInv, GetTable
  PROVE  SlabInv'
<1> DEFINE s == firstFree
           x == <<s, holders[s]>>
<1>1. s \in Slabs /\ holders[s] \in Nat /\ freeCount \in Nat /\ freeCount > 0
  BY DEF SlabInv, TypeOK, GetTable, SlabsLeft
<1>2. holders' = [holders EXCEPT ![s] = holders[s] + 1] /\ freeCount' = freeCount - 1
  BY DEF GetTable
<1>3. holders \in [Slabs -> Nat]
  BY DEF SlabInv, TypeOK
<1>4. holders' \in [Slabs -> Nat]
  BY <1>1, <1>2, <1>3
<1>5. Held' = Held \union {x} /\ x \notin Held
  BY <1>1, <1>2, <1>3 DEF Held
<1>6. /\ IsFiniteSet(Held')
      /\ Cardinality(Held') = Cardinality(Held) + 1
  BY <1>5, FS_AddElement DEF SlabInv, Counted
<1>7. Cardinality(Held) \in Nat /\ freeCount + Cardinality(Held) = TotalSlabs
  BY FS_CardinalityType DEF SlabInv, Counted
<1>8. Counted'
  BY <1>1, <1>2, <1>6, <1>7 DEF Counted
<1>9. firstFree' \in Places
  BY <1>1, LinkType DEF GetTable, SlabInv
<1>10. word' \in [Places -> Places \union {Zero, Table}]
  BY <1>1, SlabFacts DEF GetTable, FirstObject, SlabInv, TypeOK
<1>11. freeCount' \in 0 .. TotalSlabs
  BY <1>1, <1>2, SlabFacts DEF SlabInv, TypeOK
<1>12. overwritten' \in BOOLEAN
  BY DEF GetTable, SlabInv, TypeOK
<1> QED BY <1>4, <1>8, <1>9, <1>10, <1>11, <1>12 DEF SlabInv, TypeOK

LEMMA ReturnTableCounted ==
  ASSUME SlabInv, NEW s \in Slabs, ReturnTable(s)
  PROVE  SlabInv'
<1> DEFINE x == <<s, holders[s] - 1>>
<1>1. holders[s] \in Nat /\ holders[s] > 0 /\ freeCount \in Nat
  BY DEF SlabInv, TypeOK, ReturnTable
<1>2. holders' = [holders EXCEPT ![s] = holders[s] - 1] /\ freeCount' = freeCount + 1
  BY DEF ReturnTable
<1>3. holders \in [Slabs -> Nat]
  BY DEF SlabInv, TypeOK
<1>4. holders' \in [Slabs -> Nat]
  BY <1>1, <1>2, <1>3
<1>5. Held' = Held \ {x} /\ x \in Held
  BY <1>1, <1>2, <1>3 DEF Held
<1>6. /\ IsFiniteSet(Held')
      /\ Cardinality(Held') = Cardinality(Held) - 1
  BY <1>5, FS_RemoveElement DEF SlabInv, Counted
<1>7. Cardinality(Held) \in Nat /\ freeCount + Cardinality(Held) = TotalSlabs
      /\ Cardinality(Held') \in Nat
  BY <1>6, FS_CardinalityType DEF SlabInv, Counted
<1>8. Counted'
  BY <1>1, <1>2, <1>6, <1>7 DEF Counted
<1>9. freeCount' \in 0 .. TotalSlabs
  BY <1>1, <1>2, <1>6, <1>7, SlabFacts
<1>10. firstFree' \in Places /\ word' \in [Places -> Places \union {Zero, Table}]
  BY SlabFacts DEF ReturnTable, ReturnedLink, SlabInv, TypeOK
<1>11. overwritten' \in BOOLEAN
  BY DEF ReturnTable, SlabInv, TypeOK
<1> QED BY <1>4, <1>8, <1>9, <1>10, <1>11 DEF SlabInv, TypeOK

LEMMA WriteTableCounted ==
  ASSUME SlabInv, NEW s \in Slabs, WriteTable(s)
  PROVE  SlabInv'
<1>1. TypeOK'
  BY SlabFacts DEF WriteTable, SlabInv, TypeOK
<1>2. Held' = Held /\ freeCount' = freeCount
  BY DEF WriteTable, Held
<1>3. Counted'
  BY <1>2 DEF SlabInv, Counted
<1> QED BY <1>1, <1>3 DEF SlabInv

LEMMA NextCounted == SlabInv /\ [Next]_vars => SlabInv'
<1> SUFFICES ASSUME SlabInv, [Next]_vars PROVE SlabInv'
  OBVIOUS
<1>1. CASE GetTable
  BY <1>1, GetTableCounted
<1>2. ASSUME NEW s \in Slabs, WriteTable(s) PROVE SlabInv'
  BY <1>2, WriteTableCounted
<1>3. ASSUME NEW s \in Slabs, ReturnTable(s) PROVE SlabInv'
  BY <1>3, ReturnTableCounted
<1>4. CASE UNCHANGED vars
  BY <1>4 DEF vars, SlabInv, TypeOK, Counted, Held
<1> QED BY <1>1, <1>2, <1>3, <1>4 DEF Next

\* The counter of free slabs stays between none and all, whatever is overwritten,
\* and the list never leads out of the kernel's memory.
THEOREM TypeCorrect == Spec => []TypeOK
<1>1. SlabInv => TypeOK
  BY DEF SlabInv
<1> QED BY <1>1, InitSlabs, NextCounted, PTL DEF Spec

-----------------------------------------------------------------------------
(* The list *)

LEMMA BijectionFacts ==
  ASSUME NEW n \in Nat, NEW T, NEW f
  PROVE  f \in Bijection(1 .. n, T)
           <=> /\ f \in [1 .. n -> T]
               /\ \A i, j \in 1 .. n : f[i] = f[j] => i = j
               /\ \A t \in T : \E i \in 1 .. n : f[i] = t
BY DEF Bijection, Injection, Surjection, IsInjective

LEMMA InitList == Init => FreeListExact
<1> SUFFICES ASSUME Init PROVE FreeListExact
  OBVIOUS
<1> DEFINE list == [i \in 1 .. TotalSlabs |-> i - 1]
<1>1. /\ freeCount = TotalSlabs /\ freeCount \in Nat
      /\ firstFree = 0 /\ OneHolder
      /\ Unheld = 0 .. TotalSlabs - 1
  BY SlabFacts DEF Init, OneHolder, Unheld, Slabs
<1>2. list \in Bijection(1 .. freeCount, Unheld)
  <2>1. list \in [1 .. freeCount -> Unheld]
    BY <1>1
  <2>2. ASSUME NEW t \in Unheld PROVE \E i \in 1 .. freeCount : list[i] = t
    <3>1. t + 1 \in 1 .. freeCount /\ list[t + 1] = t
      BY <1>1
    <3> QED BY <3>1
  <2>3. \A i, j \in 1 .. freeCount : list[i] = list[j] => i = j
    BY <1>1
  <2> HIDE DEF list
  <2> QED BY <1>1, <2>1, <2>2, <2>3, BijectionFacts
<1>3. \A s \in Slabs : LinkOf(s) = s + 1
  BY SlabFacts DEF Init, LinkOf
<1>4. IsList(list)
  BY <1>1, <1>3, SlabFacts DEF IsList, Slabs
<1> QED BY <1>1, <1>2, <1>4 DEF FreeListExact

\* The first slab of the list leaves it.
LEMMA GetTableList ==
  ASSUME SlabInv, FreeListExact, GetTable, ~overwritten'
  PROVE  FreeListExact'
<1> DEFINE s == firstFree
<1>1. /\ s \in Slabs /\ s \in Places /\ s + 1 \in Places
      /\ freeCount \in Nat /\ freeCount > 0
      /\ word \in [Places -> Places \union {Zero, Table}]
      /\ holders \in [Slabs -> Nat]
  BY SlabFacts DEF SlabInv, TypeOK, GetTable, SlabsLeft
<1>2. ~overwritten /\ word[s + 1] = Zero
  BY DEF GetTable, SlabInv, TypeOK
<1>3. OneHolder
  BY <1>2 DEF FreeListExact
<1>4. PICK list \in Bijection(1 .. freeCount, Unheld) : IsList(list)
  BY <1>2 DEF FreeListExact
<1>5. /\ list \in [1 .. freeCount -> Unheld]
      /\ \A i, j \in 1 .. freeCount : list[i] = list[j] => i = j
      /\ \A t \in Unheld : \E i \in 1 .. freeCount : list[i] = t
  BY <1>1, <1>4, BijectionFacts
<1>6. list[1] = s /\ s \in Unheld /\ holders[s] = 0
  BY <1>1, <1>4, <1>5 DEF IsList, Unheld
<1>7. /\ firstFree' = LinkOf(s) /\ freeCount' = freeCount - 1
      /\ holders' = [holders EXCEPT ![s] = holders[s] + 1]
      /\ word' = [word EXCEPT ![s] = Zero, ![s + 1] = Zero]
  BY DEF GetTable, FirstObject
<1>8. Unheld' = Unheld \ {s} /\ OneHolder'
  BY <1>1, <1>3, <1>6, <1>7 DEF Unheld, OneHolder
<1>9. \A t \in Slabs : t # s => LinkOf(t)' = LinkOf(t)
  BY <1>1, <1>2, <1>7, SlabFacts DEF LinkOf
<1>rest. PICK rest : rest = [i \in 1 .. freeCount - 1 |-> list[i + 1]]
  OBVIOUS
<1>10. \A i \in 1 .. freeCount - 1 : i + 1 \in 1 .. freeCount /\ rest[i] = list[i + 1]
  BY <1>1, <1>rest
<1>11. /\ freeCount' \in Nat
       /\ rest \in [1 .. freeCount' -> Unheld']
  <2>1. ASSUME NEW i \in 1 .. freeCount - 1 PROVE list[i + 1] \in Unheld \ {s}
    BY <1>1, <1>5, <1>6, <1>10
  <2> QED BY <1>1, <1>7, <1>8, <1>rest, <2>1
<1>12. \A i, j \in 1 .. freeCount' : rest[i] = rest[j] => i = j
  <2>1. SUFFICES ASSUME NEW i \in 1 .. freeCount - 1, NEW j \in 1 .. freeCount - 1,
                        rest[i] = rest[j]
                 PROVE  i = j
    BY <1>7
  <2>2. i + 1 = j + 1
    BY <1>5, <1>10, <2>1
  <2> QED BY <2>2
<1>13. ASSUME NEW t \in Unheld' PROVE \E i \in 1 .. freeCount' : rest[i] = t
  <2>1. PICK k \in 1 .. freeCount : list[k] = t
    BY <1>5, <1>8
  <2>2. k # 1
    BY <1>6, <1>8, <2>1
  <2>3. k - 1 \in 1 .. freeCount - 1 /\ (k - 1) + 1 = k
    BY <1>1, <2>2
  <2>4. rest[k - 1] = t
    BY <1>10, <2>1, <2>3
  <2> QED BY <1>7, <2>3, <2>4
<1>14. rest \in Bijection(1 .. freeCount', Unheld')
  <2>1. PICK n \in Nat : n = freeCount'
    BY <1>11
  <2>2. PICK T : T = Unheld'
    OBVIOUS
  <2>3. rest \in Bijection(1 .. n, T)
    BY <1>11, <1>12, <1>13, <2>1, <2>2, BijectionFacts
  <2> QED BY <2>1, <2>2, <2>3
<1>15. IsList(rest)'
  <2>1. freeCount' > 0 => rest[1] = firstFree'
    <3>1. ASSUME freeCount' > 0 PROVE rest[1] = LinkOf(s)
      <4>1. 1 \in 1 .. freeCount - 1
        BY <1>1, <1>7, <3>1
      <4> QED BY <1>4, <1>6, <1>10, <4>1 DEF IsList
    <3> QED BY <1>7, <3>1
  <2>2. ASSUME NEW i \in 1 .. freeCount' - 1 PROVE rest[i + 1] = LinkOf(rest[i])'
    <3>1. /\ i \in 1 .. freeCount - 1 /\ i + 1 \in 1 .. freeCount - 1
          /\ rest[i] = list[i + 1] /\ rest[i + 1] = list[(i + 1) + 1]
      BY <1>1, <1>7, <1>10
    <3>2. rest[i] \in Slabs /\ rest[i] # s
      BY <1>8, <1>11, <1>7, <3>1 DEF Unheld
    <3>3. list[(i + 1) + 1] = LinkOf(list[i + 1])
      BY <1>4, <3>1 DEF IsList
    <3>4. PICK t : t = rest[i]
      OBVIOUS
    <3>5. LinkOf(t)' = LinkOf(t) /\ rest[i + 1] = LinkOf(t)
      BY <1>9, <3>1, <3>2, <3>3, <3>4
    <3> QED BY <3>4, <3>5 DEF LinkOf
  <2> QED BY <2>1, <2>2 DEF IsList
<1> QED BY <1>8, <1>14, <1>15 DEF FreeListExact

\* A table's slab is the first of the list again.
LEMMA ReturnTableList ==
  ASSUME SlabInv, FreeListExact, NEW s \in Slabs, ReturnTable(s), ~overwritten'
  PROVE  FreeListExact'
<1>1. /\ s \in Places /\ freeCount \in Nat /\ firstFree \in Places
      /\ word \in [Places -> Places \union {Zero, Table}]
      /\ holders \in [Slabs -> Nat]
  BY SlabFacts DEF SlabInv, TypeOK
<1>2. ~overwritten
  BY DEF ReturnTable
<1>3. OneHolder
  BY <1>2 DEF FreeListExact
<1>4. PICK list \in Bijection(1 .. freeCount, Unheld) : IsList(list)
  BY <1>2 DEF FreeListExact
<1>5. /\ list \in [1 .. freeCount -> Unheld]
      /\ \A i, j \in 1 .. freeCount : list[i] = list[j] => i = j
      /\ \A t \in Unheld : \E i \in 1 .. freeCount : list[i] = t
  BY <1>1, <1>4, BijectionFacts
<1>6. holders[s] = 1 /\ s \notin Unheld
  BY <1>1, <1>3 DEF ReturnTable, OneHolder, Unheld
<1>7. /\ firstFree' = s /\ freeCount' = freeCount + 1
      /\ holders' = [holders EXCEPT ![s] = holders[s] - 1]
      /\ word' = [word EXCEPT ![s] = firstFree]
  BY DEF ReturnTable, ReturnedLink
<1>8. Unheld' = Unheld \union {s} /\ OneHolder'
  BY <1>1, <1>3, <1>6, <1>7 DEF Unheld, OneHolder
<1>9. /\ \A t \in Slabs : t # s => LinkOf(t)' = LinkOf(t)
      /\ LinkOf(s)' = firstFree
  BY <1>1, <1>7, SlabFacts DEF LinkOf
<1>longer. PICK longer :
         longer = [i \in 1 .. freeCount + 1 |-> IF i = 1 THEN s ELSE list[i - 1]]
  OBVIOUS
<1>10. /\ longer[1] = s
       /\ \A i \in 2 .. freeCount + 1 : i - 1 \in 1 .. freeCount /\ longer[i] = list[i - 1]
  BY <1>1, <1>longer
<1>11. /\ freeCount' \in Nat
       /\ longer \in [1 .. freeCount' -> Unheld']
  BY <1>1, <1>5, <1>7, <1>8, <1>longer
<1>12. \A i, j \in 1 .. freeCount' : longer[i] = longer[j] => i = j
  <2>1. SUFFICES ASSUME NEW i \in 1 .. freeCount + 1, NEW j \in 1 .. freeCount + 1,
                        longer[i] = longer[j]
                 PROVE  i = j
    BY <1>7
  <2>2. \A k \in 2 .. freeCount + 1 : longer[k] \in Unheld /\ longer[k] # s
    BY <1>5, <1>6, <1>10
  <2>3. CASE i = 1 \/ j = 1
    BY <1>1, <1>10, <2>1, <2>2, <2>3
  <2>4. CASE i # 1 /\ j # 1
    <3>1. i \in 2 .. freeCount + 1 /\ j \in 2 .. freeCount + 1
      BY <1>1, <2>4
    <3>2. i - 1 = j - 1
      BY <1>5, <1>10, <2>1, <3>1
    <3> QED BY <3>2
  <2> QED BY <2>3, <2>4
<1>13. ASSUME NEW t \in Unheld' PROVE \E i \in 1 .. freeCount' : longer[i] = t
  <2>1. CASE t = s
    <3>1. 1 \in 1 .. freeCount' /\ longer[1] = t
      BY <1>1, <1>7, <1>10, <2>1
    <3> QED BY <3>1
  <2>2. CASE t # s
    <3>1. PICK k \in 1 .. freeCount : list[k] = t
      BY <1>5, <1>8, <2>2
    <3>2. k + 1 \in 2 .. freeCount + 1 /\ longer[k + 1] = list[(k + 1) - 1]
      BY <1>1, <1>10
    <3>3. k + 1 \in 1 .. freeCount' /\ longer[k + 1] = t
      BY <1>1, <1>7, <3>1, <3>2
    <3> QED BY <3>3
  <2> QED BY <2>1, <2>2
<1>14. longer \in Bijection(1 .. freeCount', Unheld')
  <2>1. PICK n \in Nat : n = freeCount'
    BY <1>11
  <2>2. PICK T : T = Unheld'
    OBVIOUS
  <2>3. longer \in Bijection(1 .. n, T)
    BY <1>11, <1>12, <1>13, <2>1, <2>2, BijectionFacts
  <2> QED BY <2>1, <2>2, <2>3
<1>15. IsList(longer)'
  <2>1. longer[1] = firstFree'
    BY <1>7, <1>10
  <2>2. ASSUME NEW i \in 1 .. freeCount' - 1 PROVE longer[i + 1] = LinkOf(longer[i])'
    <3>1. i \in 1 .. freeCount /\ longer[i + 1] = list[(i + 1) - 1]
      BY <1>1, <1>7, <1>10
    <3>2. longer[i + 1] = list[i]
      BY <3>1
    <3>3. CASE i = 1
      <4>1. list[1] = firstFree
        BY <1>1, <1>4, <3>1, <3>3 DEF IsList
      <4> QED BY <1>9, <1>10, <3>2, <3>3, <4>1 DEF LinkOf
    <3>4. CASE i # 1
      <4>1. /\ i \in 2 .. freeCount + 1 /\ i - 1 \in 1 .. freeCount - 1
            /\ longer[i] = list[i - 1] /\ (i - 1) + 1 = i
        BY <1>1, <1>10, <3>1, <3>4
      <4>2. list[i] = LinkOf(list[i - 1])
        BY <1>4, <4>1 DEF IsList
      <4>3. list[i - 1] \in Slabs /\ list[i - 1] # s
        BY <1>5, <1>6, <4>1, <1>10 DEF Unheld
      <4>4. PICK t : t = longer[i]
        OBVIOUS
      <4>5. LinkOf(t)' = LinkOf(t) /\ longer[i + 1] = LinkOf(t)
        BY <1>9, <3>2, <4>1, <4>2, <4>3, <4>4
      <4> QED BY <4>4, <4>5 DEF LinkOf
    <3> QED BY <3>3, <3>4
  <2> QED BY <2>1, <2>2 DEF IsList
<1> QED BY <1>8, <1>14, <1>15 DEF FreeListExact

\* What is written into tables is no part of the list.
LEMMA WriteTableList ==
  ASSUME SlabInv, FreeListExact, NEW s \in Slabs, WriteTable(s), ~overwritten'
  PROVE  FreeListExact'
<1>1. /\ s \in Places /\ freeCount \in Nat
      /\ word \in [Places -> Places \union {Zero, Table}]
  BY SlabFacts DEF SlabInv, TypeOK
<1>2. ~overwritten /\ s \notin Unheld
  BY DEF WriteTable, Unheld
<1>3. PICK list \in Bijection(1 .. freeCount, Unheld) : IsList(list)
  BY <1>2 DEF FreeListExact
<1>4. list \in [1 .. freeCount -> Unheld]
  BY <1>1, <1>3, BijectionFacts
<1>5. /\ firstFree' = firstFree /\ freeCount' = freeCount /\ holders' = holders
      /\ word' = [word EXCEPT ![s] = Table]
  BY DEF WriteTable
<1>6. Unheld' = Unheld /\ (OneHolder => OneHolder')
  BY <1>5 DEF Unheld, OneHolder
<1>7. \A t \in Slabs : t # s => LinkOf(t)' = LinkOf(t)
  BY <1>1, <1>5, SlabFacts DEF LinkOf
<1>8. IsList(list)'
  <2>1. freeCount' > 0 => list[1] = firstFree'
    BY <1>3, <1>5 DEF IsList
  <2>2. ASSUME NEW i \in 1 .. freeCount' - 1 PROVE list[i + 1] = LinkOf(list[i])'
    <3>1. i \in 1 .. freeCount - 1 /\ i \in 1 .. freeCount
      BY <1>1, <1>5
    <3>2. PICK t : t = list[i]
      OBVIOUS
    <3>3. t \in Slabs /\ t # s
      BY <1>2, <1>4, <3>1, <3>2 DEF Unheld
    <3>4. list[i + 1] = LinkOf(t) /\ LinkOf(t)' = LinkOf(t)
      BY <1>3, <1>7, <3>1, <3>2, <3>3 DEF IsList
    <3> QED BY <3>2, <3>4 DEF LinkOf
  <2> QED BY <2>1, <2>2 DEF IsList
<1>9. list \in Bijection(1 .. freeCount', Unheld')
  BY <1>3, <1>5, <1>6
<1> QED BY <1>2, <1>6, <1>8, <1>9 DEF FreeListExact

LEMMA NextList == SlabInv /\ FreeListExact /\ [Next]_vars => FreeListExact'
<1> SUFFICES ASSUME SlabInv, FreeListExact, [Next]_vars, ~overwritten' PROVE FreeListExact'
  BY DEF FreeListExact
<1>1. CASE GetTable
  BY <1>1, GetTableList
<1>2. ASSUME NEW s \in Slabs, WriteTable(s) PROVE FreeListExact'
  BY <1>2, WriteTableList
<1>3. ASSUME NEW s \in Slabs, ReturnTable(s) PROVE FreeListExact'
  BY <1>3, ReturnTableList
<1>4. CASE UNCHANGED vars
  BY <1>4 DEF vars, FreeListExact, OneHolder, Unheld, IsList, LinkOf
<1> QED BY <1>1, <1>2, <1>3, <1>4 DEF Next

\* Until a write past the end of a slab destroys a word, the list of free slabs has
\* every slab nobody has, each once, and no two tables share a slab.
THEOREM FreeListExactAlways == Spec => []FreeListExact
<1>1. Init => SlabInv /\ FreeListExact
  BY InitSlabs, InitList
<1>2. SlabInv /\ FreeListExact /\ [Next]_vars => (SlabInv /\ FreeListExact)'
  BY NextCounted, NextList
<1> QED BY <1>1, <1>2, PTL DEF Spec
=============================================================================
