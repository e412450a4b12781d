------------------------ MODULE VirtualMemoryProofs ------------------------
(***************************************************************************)
(* Demand paging for every number of processes, pages, frames, clusters    *)
(* and slabs: its invariants with every mishap allowed, the slabs that are *)
(* never lost, and that it implements AddressSpace as long as no mishap    *)
(* happens.                                                                *)
(***************************************************************************)
EXTENDS VirtualMemory, FiniteSetTheorems, FunctionTheorems, TLAPS

-----------------------------------------------------------------------------
(* Pages, tables and entries *)

LEMMA EntryParts ==
  ASSUME NEW e \in Entries
  PROVE  e = <<e[1], e[2]>> /\ e[1] \in Procs /\ e[2] \in Pages
BY DEF Entries

LEMMA EntryOf ==
  ASSUME NEW p \in Procs, NEW q \in Pages
  PROVE  <<p, q>> \in Entries
BY DEF Entries

LEMMA PageBounds == NumPages \in Nat /\ Pages \subseteq Nat
BY VirtualMemoryAssumption DEF NumPages, Pages

LEMMA TableOfPage ==
  ASSUME NEW q \in Pages
  PROVE  TableOf(q) \in Tables
BY VirtualMemoryAssumption DEF TableOf, Tables, Pages, NumPages

LEMMA NoPageIsNone == NoPage \notin Entries
BY VirtualMemoryAssumption DEF Entries, Pages, NumPages

LEMMA MissingIsFinite ==
  ASSUME NEW p \in Procs, NEW S \in SUBSET Pages
  PROVE  /\ MissingTables(p, S) \subseteq Tables
         /\ IsFiniteSet(MissingTables(p, S))
         /\ Cardinality(MissingTables(p, S)) \in Nat
<1>1. MissingTables(p, S) \subseteq Tables
  BY TableOfPage DEF MissingTables
<1>2. IsFiniteSet(Tables)
  BY VirtualMemoryAssumption, FS_Interval DEF Tables
<1> QED BY <1>1, <1>2, FS_Subset, FS_CardinalityType

LEMMA ZeroEntryType == ZeroEntry \in PageTableEntries
BY VirtualMemoryAssumption, FrameTableAssumption
   DEF ZeroEntry, PageTableEntries, AccessTypes, Frames

LEMMA NewEntryType ==
  ASSUME NEW rights \in AccessTypes, NEW size \in Nat, NEW c \in 0 .. NumClusters
  PROVE  NewEntry(rights, size, c) \in PageTableEntries
BY ZeroEntryType DEF NewEntry, PageTableEntries

LEMMA NewEntryFields ==
  ASSUME NEW rights, NEW size, NEW c
  PROVE  /\ NewEntry(rights, size, c).used
         /\ ~NewEntry(rights, size, c).loaded
         /\ ~NewEntry(rights, size, c).dirty
         /\ NewEntry(rights, size, c).size = size
         /\ NewEntry(rights, size, c).cluster = c
         /\ NewEntry(rights, size, c).rights = rights
BY DEF NewEntry, ZeroEntry

LEMMA SetUnusedType ==
  ASSUME NEW x \in PageTableEntries
  PROVE  /\ SetUnused(x) \in PageTableEntries
         /\ ~SetUnused(x).used
         /\ SetUnused(x).size = 0
BY ZeroEntryType DEF SetUnused, PageTableEntries, ZeroEntry

-----------------------------------------------------------------------------
(* Types *)

SegmentArgs(p, s, n, k, rights, cs) ==
  /\ p \in Procs /\ s \in Pages
  /\ n \in Nat \ {0} /\ k \in 1 .. n
  /\ rights \in AccessTypes
  /\ cs \in [0 .. k - 1 -> 0 .. NumClusters]

LEMMA SegmentInSpace ==
  ASSUME NEW p, NEW s \in Pages, NEW n \in Nat \ {0}, Allocatable(p, s, n)
  PROVE  s .. s + n - 1 \subseteq Pages
BY PageBounds DEF Allocatable, Pages

LEMMA SetUpTypes ==
  ASSUME TypeOK, NEW p, NEW s, NEW n, NEW k, NEW rights, NEW cs,
         SegmentArgs(p, s, n, k, rights, cs),
         Allocatable(p, s, n),
         SetUp(p, s, n, k, rights, cs)
  PROVE  /\ pte' \in [Entries -> PageTableEntries]
         /\ tables' \in [Procs -> SUBSET Tables]
         /\ freeSlabs' \in Nat
         /\ bitmap' \subseteq Clusters
<1> USE DEF SegmentArgs
<1>1. s .. s + k - 1 \subseteq s .. s + n - 1 /\ s .. s + n - 1 \subseteq Pages
  BY SegmentInSpace, PageBounds
<1>2. pte' \in [Entries -> PageTableEntries]
  <2>1. ASSUME NEW e \in Entries, e[1] = p, e[2] \in s .. s + k - 1
        PROVE  NewEntry(rights, SegmentSizeField(e[2], s, n), cs[e[2] - s])
                 \in PageTableEntries
    <3>1. e[2] - s \in 0 .. k - 1
      BY <2>1, PageBounds
    <3>2. cs[e[2] - s] \in 0 .. NumClusters
      BY <3>1
    <3>3. SegmentSizeField(e[2], s, n) \in Nat
      BY DEF SegmentSizeField
    <3> QED BY <3>2, <3>3, NewEntryType
  <2>2. pte \in [Entries -> PageTableEntries]
    BY DEF TypeOK
  <2> QED BY <2>1, <2>2 DEF SetUp
<1>3. tables' \in [Procs -> SUBSET Tables]
  BY <1>1, MissingIsFinite DEF SetUp, TypeOK
<1>4. freeSlabs' \in Nat
  <2> DEFINE M == MissingTables(p, s .. s + k - 1)
             N == MissingTables(p, s .. s + n - 1)
  <2>1. M \subseteq N
    BY <1>1 DEF MissingTables
  <2>2. IsFiniteSet(N) /\ Cardinality(N) \in Nat /\ Cardinality(M) \in Nat
    BY <1>1, MissingIsFinite
  <2>3. Cardinality(M) <= Cardinality(N)
    BY <2>1, <2>2, FS_Subset
  <2>4. Cardinality(N) <= freeSlabs /\ freeSlabs \in Nat
    BY DEF Allocatable, TypeOK
  <2>5. freeSlabs' = freeSlabs - Cardinality(M)
    BY DEF SetUp
  <2> HIDE DEF M, N
  <2> QED BY <2>2, <2>3, <2>4, <2>5
<1>5. bitmap' \subseteq Clusters
  BY DEF SetUp
<1> QED BY <1>2, <1>3, <1>4, <1>5

LEMMA WrittenType ==
  ASSUME TypeOK, NEW n \in Nat \ {0}, NEW k \in Nat, k <= n,
         NEW cs, NEW content \in [0 .. n - 1 -> Data]
  PROVE  Written(cs, content, k) \in [Clusters -> Contents]
<1> DEFINE last(c) == {i \in 0 .. k - 1 : cs[i] = c /\ \A j \in i + 1 .. k - 1 : cs[j] # c}
           held(c) == IF last(c) = {} THEN disk[c]
                                      ELSE content[CHOOSE i \in last(c) : TRUE]
<1>1. ASSUME NEW c \in Clusters PROVE held(c) \in Contents
  <2>1. CASE last(c) = {}
    BY <2>1 DEF TypeOK
  <2>2. CASE last(c) # {}
    <3>1. (CHOOSE i \in last(c) : TRUE) \in last(c)
      BY <2>2
    <3>2. last(c) \subseteq 0 .. n - 1
      OBVIOUS
    <3>3. content[CHOOSE i \in last(c) : TRUE] \in Data
      BY <3>1, <3>2
    <3> QED BY <2>2, <3>3 DEF Contents
  <2> QED BY <2>1, <2>2
<1>2. Written(cs, content, k) = [c \in Clusters |-> held(c)]
  BY DEF Written
<1> HIDE DEF held
<1> QED BY <1>1, <1>2
LEMMA InitTypes == Init => TypeOK
BY ZeroEntryType, VirtualMemoryAssumption, FrameTableAssumption
   DEF Init, TypeOK, FrameEntries, NewFrame, Counters, Contents, Frames

LEMMA GiveBackTypes ==
  ASSUME TypeOK, NEW es, GiveBack(es)
  PROVE  /\ frameTable' \in [Frames -> FrameEntries(Entries)]
         /\ bitmap' \subseteq Clusters
BY DEF GiveBack, TypeOK, FrameEntries

LEMMA CounterTypes ==
  ASSUME NEW ref \in Counters
  PROVE  /\ SetReferenced(ref) \in Counters
         /\ ShiftReferencedBits(ref) \in Counters
<1>1. ReferencedBit \in Nat \ {0} /\ ref \in 0 .. 2 * ReferencedBit - 1
  BY FrameTableAssumption DEF Counters
<1>2. SetReferenced(ref) \in 0 .. 2 * ReferencedBit - 1
  BY <1>1 DEF SetReferenced
<1>3. ref \div 2 \in 0 .. 2 * ReferencedBit - 1
  <2>1. ref \in Nat /\ ref \div 2 \in Nat /\ ref \div 2 <= ref
    BY <1>1
  <2> QED BY <1>1, <2>1
<1> QED BY <1>2, <1>3 DEF Counters, ShiftReferencedBits

LEMMA UnloadedType ==
  ASSUME TypeOK, NEW v
  PROVE  Unloaded(v) \in [Entries -> PageTableEntries]
<1>1. pte \in [Entries -> PageTableEntries]
  BY DEF TypeOK
<1>2. \A r \in PageTableEntries : [r EXCEPT !.loaded = FALSE] \in PageTableEntries
  BY DEF PageTableEntries
<1> QED BY <1>1, <1>2 DEF Unloaded

LEMMA InstallTypes ==
  ASSUME TypeOK, NEW e \in Entries, NEW f \in Frames,
         NEW entries \in [Entries -> PageTableEntries],
         NEW clusters \in [Clusters -> Contents],
         Install(e, f, entries, clusters)
  PROVE  TypeOK'
<1>1. pte' \in [Entries -> PageTableEntries]
  <2> DEFINE one   == [entries EXCEPT ![e].loaded = TRUE]
             two   == [one EXCEPT ![e].dirty = FALSE]
             three == [two EXCEPT ![e].frame = f]
  <2>1. one \in [Entries -> PageTableEntries]
    BY DEF PageTableEntries
  <2>2. two \in [Entries -> PageTableEntries]
    <3> HIDE DEF one
    <3> QED BY <2>1 DEF PageTableEntries
  <2>3. three \in [Entries -> PageTableEntries]
    <3> HIDE DEF two
    <3> QED BY <2>2 DEF PageTableEntries
  <2> QED BY <2>3 DEF Install
<1>2. frameTable' \in [Frames -> FrameEntries(Entries)]
  <2>1. frameTable \in [Frames -> FrameEntries(Entries)]
    BY DEF TypeOK
  <2> QED BY <2>1 DEF Install, FrameEntries
<1>3. memory' \in [Frames -> Contents]
  BY DEF Install, TypeOK
<1>4. happened' \subseteq PossibleMishaps \union {"exhaustion"}
  BY DEF Install, TypeOK, Refault, PossibleMishaps
<1> QED BY <1>1, <1>2, <1>3, <1>4 DEF Install, TypeOK

LEMMA NextTypes == TypeOK /\ [Next]_vars => TypeOK'
<1> SUFFICES ASSUME TypeOK, [Next]_vars PROVE TypeOK'
  OBVIOUS
<1>1. CASE PeriodicJob
  <2>1. frameTable' \in [Frames -> FrameEntries(Entries)]
    BY <1>1, CounterTypes DEF PeriodicJob, TypeOK, FrameEntries
  <2> QED BY <1>1, <2>1 DEF PeriodicJob, TypeOK
<1>2. ASSUME NEW p \in Procs, CreateProcess(p) PROVE TypeOK'
  BY <1>2 DEF CreateProcess, TypeOK
<1>3. ASSUME NEW p \in Procs, DestroyProcess(p) PROVE TypeOK'
  <2>1. freeSlabs' \in Nat
    <3>1. IsFiniteSet(Tables) /\ tables[p] \in SUBSET Tables
      BY VirtualMemoryAssumption, FS_Interval DEF Tables, TypeOK
    <3>2. Cardinality(tables[p]) \in Nat
      BY <3>1, FS_Subset, FS_CardinalityType
    <3> QED BY <1>3, <3>2 DEF DestroyProcess, TypeOK
  <2>2. pte' \in [Entries -> PageTableEntries]
    BY <1>3, ZeroEntryType DEF DestroyProcess, TypeOK
  <2>3. frameTable' \in [Frames -> FrameEntries(Entries)] /\ bitmap' \subseteq Clusters
    BY <1>3, GiveBackTypes DEF DestroyProcess
  <2> QED BY <1>3, <2>1, <2>2, <2>3 DEF DestroyProcess, TypeOK
<1>4. ASSUME NEW p \in Procs, NEW s \in Pages, NEW n \in SegmentSizes,
             NEW rights \in SegmentRights, CreateSegment(p, s, n, rights)
      PROVE  TypeOK'
  <2>1. PICK cs \in [0 .. n - 1 -> 0 .. NumClusters] :
          SetUp(p, s, n, n, rights, cs) /\ happened' = happened \union RanOut(cs, n)
    BY <1>4 DEF CreateSegment
  <2>2. SegmentArgs(p, s, n, n, rights, cs)
    BY <2>1, VirtualMemoryAssumption DEF SegmentArgs
  <2>3. Allocatable(p, s, n)
    BY <1>4 DEF CreateSegment
  <2> QED BY <1>4, <2>1, <2>2, <2>3, SetUpTypes DEF CreateSegment, TypeOK, RanOut
<1>5. ASSUME NEW p \in Procs, NEW s \in Pages, NEW n \in SegmentSizes,
             NEW rights \in SegmentRights, NEW content \in [0 .. n - 1 -> Data],
             LoadSegment(p, s, n, rights, content)
      PROVE  TypeOK'
  <2>1. PICK cs \in [0 .. n - 1 -> Clusters] :
          /\ SetUp(p, s, n, n, rights, cs)
          /\ disk' = Written(cs, content, n)
          /\ happened' = happened \union RanOut(cs, n)
    BY <1>5 DEF LoadSegment
  <2>2. n \in Nat \ {0} /\ rights \in AccessTypes
    BY VirtualMemoryAssumption
  <2>3. cs \in [0 .. n - 1 -> 0 .. NumClusters]
    BY <2>1, VirtualMemoryAssumption DEF Clusters
  <2>4. SegmentArgs(p, s, n, n, rights, cs)
    BY <2>2, <2>3 DEF SegmentArgs
  <2>5. Allocatable(p, s, n)
    BY <1>5 DEF LoadSegment
  <2>6. disk' \in [Clusters -> Contents]
    BY <2>1, <2>2, WrittenType
  <2> QED BY <1>5, <2>1, <2>4, <2>5, <2>6, SetUpTypes DEF LoadSegment, TypeOK, RanOut
<1>6. ASSUME NEW p \in Procs, NEW s \in Pages, NEW n \in SegmentSizes,
             NEW rights \in SegmentRights, NEW content \in [0 .. n - 1 -> Data],
             NEW k \in 1 .. n, LoadSegmentFails(p, s, n, rights, content, k)
      PROVE  TypeOK'
  <2>1. PICK cs \in [0 .. k - 1 -> 0 .. NumClusters] :
          /\ SetUp(p, s, n, k, rights, cs)
          /\ disk' = Written(cs, content, k - 1)
          /\ happened' = happened \union RanOut(cs, k) \union {"writeContent"}
    BY <1>6 DEF LoadSegmentFails
  <2>2. n \in Nat \ {0} /\ rights \in AccessTypes /\ k - 1 \in Nat /\ k - 1 <= n
    BY VirtualMemoryAssumption
  <2>3. SegmentArgs(p, s, n, k, rights, cs)
    BY <2>1, <2>2 DEF SegmentArgs
  <2>4. Allocatable(p, s, n)
    BY <1>6 DEF LoadSegmentFails
  <2>5. disk' \in [Clusters -> Contents]
    BY <2>1, <2>2, WrittenType
  <2>6. happened' \subseteq PossibleMishaps \union {"exhaustion"}
    BY <2>1 DEF TypeOK, RanOut, PossibleMishaps
  <2> QED BY <1>6, <2>1, <2>3, <2>4, <2>5, <2>6, SetUpTypes DEF LoadSegmentFails, TypeOK
<1>7. ASSUME NEW p \in Procs, NEW s \in Pages, DeleteSegment(p, s) PROVE TypeOK'
  <2>1. pte' \in [Entries -> PageTableEntries]
    BY <1>7, SetUnusedType DEF DeleteSegment, TypeOK
  <2>2. frameTable' \in [Frames -> FrameEntries(Entries)] /\ bitmap' \subseteq Clusters
    BY <1>7, GiveBackTypes DEF DeleteSegment
  <2> QED BY <1>7, <2>1, <2>2 DEF DeleteSegment, TypeOK
<1>8. ASSUME NEW p \in Procs, NEW s \in Pages, DeleteSegmentCrashes(p, s) PROVE TypeOK'
  BY <1>8 DEF DeleteSegmentCrashes, TypeOK
<1>9. ASSUME NEW p \in Procs, NEW q \in Pages, NEW type \in AccessTypes,
             Access(p, q, type)
      PROVE  TypeOK'
  <2>1. <<p, q>> \in Entries
    BY EntryOf
  <2>2. pte[<<p, q>>].frame \in Frames
    BY <2>1 DEF TypeOK, PageTableEntries
  <2>3. frameTable' \in [Frames -> FrameEntries(Entries)]
    BY <1>9, <2>2, CounterTypes DEF Access, TypeOK, FrameEntries
  <2>4. pte' \in [Entries -> PageTableEntries]
    <3>1. pte \in [Entries -> PageTableEntries]
      BY DEF TypeOK
    <3> QED BY <1>9, <2>1, <3>1 DEF Access, PageTableEntries
  <2>5. memory' \in [Frames -> Contents]
    <3>1. memory \in [Frames -> Contents]
      BY DEF TypeOK
    <3> QED BY <1>9, <2>2, <3>1 DEF Access, Contents
  <2> QED BY <1>9, <2>3, <2>4, <2>5 DEF Access, TypeOK
<1>10. ASSUME NEW p \in Procs, NEW q \in Pages, FaultIntoFreeFrame(p, q) PROVE TypeOK'
  BY <1>10, EntryOf, InstallTypes DEF FaultIntoFreeFrame, TypeOK
<1>11. ASSUME NEW p \in Procs, NEW q \in Pages, FaultEvictingClean(p, q) PROVE TypeOK'
  <2>1. PICK f \in Frames : Install(<<p, q>>, f, Unloaded(frameTable[f].owner), disk)
    BY <1>11 DEF FaultEvictingClean
  <2> QED BY <2>1, EntryOf, UnloadedType, InstallTypes DEF TypeOK
<1>12. ASSUME NEW p \in Procs, NEW q \in Pages, FaultEvictingDirty(p, q) PROVE TypeOK'
  <2> DEFINE v(f) == frameTable[f].owner
             swapped(f) == [disk EXCEPT ![pte[v(f)].cluster] = EvictedBytes(pte[v(f)].frame)]
  <2>1. PICK f \in Frames : Install(<<p, q>>, f, Unloaded(v(f)), swapped(f))
    BY <1>12 DEF FaultEvictingDirty
  <2>2. swapped(f) \in [Clusters -> Contents]
    BY DEF TypeOK, Contents, EvictedBytes
  <2> HIDE DEF swapped
  <2> QED BY <2>1, <2>2, EntryOf, UnloadedType, InstallTypes
<1>13. ASSUME NEW p \in Procs, NEW q \in Pages, FaultWhenEvictionFails(p, q)
       PROVE  TypeOK'
  <2>1. pte' \in [Entries -> PageTableEntries]
    BY <1>13, UnloadedType DEF FaultWhenEvictionFails
  <2> QED BY <1>13, <2>1 DEF FaultWhenEvictionFails, TypeOK, PossibleMishaps
<1>14. ASSUME NEW p \in Procs, NEW q \in Pages, FaultOnDanglingOwner(p, q) PROVE TypeOK'
  BY <1>14 DEF FaultOnDanglingOwner, TypeOK
<1>15. CASE UNCHANGED vars
  BY <1>15 DEF vars, TypeOK
<1> QED
  BY <1>1, <1>2, <1>3, <1>4, <1>5, <1>6, <1>7, <1>8, <1>9, <1>10, <1>11, <1>12, <1>13,
     <1>14, <1>15
     DEF Next, SegmentCall, PageFault
\* The types every state of an execution has.
THEOREM TypeCorrect == Spec => []TypeOK
BY InitTypes, NextTypes, PTL DEF Spec

-----------------------------------------------------------------------------
(* Segments *)

LEMMA UsedAreEntries ==
  ASSUME NEW e \in UsedPages
  PROVE  e \in Entries /\ pte[e].used /\ e = <<e[1], e[2]>>
         /\ e[1] \in Procs /\ e[2] \in Pages /\ e[2] \in Nat
BY EntryParts, PageBounds DEF UsedPages

LEMMA ClaimsOf ==
  ASSUME NEW e \in Entries, NEW x \in Entries
  PROVE  x \in Claims(e) <=>
           x[1] = e[1] /\ x[2] \in e[2] .. e[2] + pte[e].size - 1
BY EntryParts DEF Claims

\* The pages a segment is set up on were in use by nobody.
LEMMA SetUpOnFresh ==
  ASSUME TypeOK, Tiled, NEW p \in Procs, NEW s \in Pages, NEW n \in Nat \ {0},
         Allocatable(p, s, n), NEW e \in Entries, e[1] = p, e[2] \in s .. s + n - 1
  PROVE  ~pte[e].used /\ pte[e].size = 0
<1>1. e = <<p, e[2]>>
  BY EntryParts
<1>2. CASE TableOf(e[2]) \in tables[p]
  BY <1>1, <1>2 DEF Allocatable, HaveFreeFromAddress, Tiled
<1>3. CASE TableOf(e[2]) \notin tables[p]
  BY <1>3 DEF Tiled, UsedPages
<1> QED BY <1>2, <1>3

LEMMA SetUpEntries ==
  ASSUME TypeOK, NEW p, NEW s, NEW n, NEW k, NEW rights, NEW cs,
         SegmentArgs(p, s, n, k, rights, cs),
         SetUp(p, s, n, k, rights, cs), NEW e \in Entries
  PROVE  IF e[1] = p /\ e[2] \in s .. s + k - 1
           THEN /\ pte'[e].used /\ ~pte'[e].loaded /\ ~pte'[e].dirty
                /\ pte'[e].size = (IF e[2] = s THEN n ELSE 0)
                /\ pte'[e].cluster = cs[e[2] - s]
                /\ pte'[e].rights = rights
           ELSE pte'[e] = pte[e]
BY NewEntryFields DEF SetUp, SegmentSizeField, SegmentArgs

LEMMA SetUpTiles ==
  ASSUME TypeOK, Tiled, NEW p, NEW s, NEW n, NEW rights, NEW cs,
         SegmentArgs(p, s, n, n, rights, cs), Allocatable(p, s, n),
         SetUp(p, s, n, n, rights, cs), proc[p] = "live", proc' = proc
  PROVE  Tiled'
<1> DEFINE New(e) == e[1] = p /\ e[2] \in s .. s + n - 1
<1>1. p \in Procs /\ s \in Pages /\ n \in Nat \ {0} /\ s \in Nat
  BY PageBounds DEF SegmentArgs
<1>2. ASSUME NEW e \in Entries
      PROVE  IF New(e) THEN /\ pte'[e].used
                            /\ pte'[e].size = (IF e[2] = s THEN n ELSE 0)
                       ELSE pte'[e] = pte[e]
  BY SetUpEntries
<1>3. ASSUME NEW e \in Entries, New(e) PROVE ~pte[e].used
  BY <1>1, <1>3, SetUpOnFresh
<1> HIDE DEF New
<1>4. UsedPages \subseteq UsedPages'
  BY <1>2, <1>3 DEF UsedPages
<1>5. ASSUME NEW e \in UsedPages', ~New(e)
      PROVE  e \in UsedPages /\ pte'[e] = pte[e] /\ Claims(e)' = Claims(e)
  BY <1>2, <1>5 DEF UsedPages, Claims
<1>6. ASSUME NEW e \in Entries, ~pte'[e].used PROVE pte'[e].size = 0
  BY <1>2, <1>6 DEF Tiled
<1>7. ASSUME NEW e \in UsedPages', ~New(e)
      PROVE  /\ proc'[e[1]] = "live"
             /\ TableOf(e[2]) \in tables'[e[1]]
             /\ \E h \in UsedPages' : e \in Claims(h)'
             /\ Claims(e)' \subseteq UsedPages'
             /\ \A x \in Claims(e)' : x # e => pte'[x].size = 0
  <2>1. e \in UsedPages /\ pte'[e] = pte[e] /\ Claims(e)' = Claims(e)
    BY <1>5, <1>7
  <2>2. e[1] \in Procs
    BY <2>1, UsedAreEntries
  <2>3. proc'[e[1]] = "live" /\ TableOf(e[2]) \in tables'[e[1]]
    BY <2>1, <2>2, <1>1 DEF Tiled, SetUp, TypeOK
  <2>4. PICK h \in UsedPages : e \in Claims(h)
    BY <2>1 DEF Tiled
  <2>5. ~New(h) /\ h \in UsedPages'
    BY <1>3, <1>4, <2>4 DEF UsedPages
  <2>6. e \in Claims(h)'
    BY <1>5, <2>4, <2>5
  <2>7. Claims(e)' \subseteq UsedPages'
    BY <1>4, <2>1 DEF Tiled
  <2>8. ASSUME NEW x \in Claims(e)', x # e PROVE pte'[x].size = 0
    <3>1. x \in UsedPages /\ pte[x].size = 0
      BY <2>1, <2>8 DEF Tiled
    <3>2. ~New(x) /\ x \in UsedPages'
      BY <1>3, <1>4, <3>1 DEF UsedPages
    <3> QED BY <1>5, <3>1, <3>2
  <2> QED BY <2>3, <2>5, <2>6, <2>7, <2>8
<1>8. ASSUME NEW e \in UsedPages', New(e)
      PROVE  /\ proc'[e[1]] = "live"
             /\ TableOf(e[2]) \in tables'[e[1]]
             /\ \E h \in UsedPages' : e \in Claims(h)'
             /\ Claims(e)' \subseteq UsedPages'
             /\ \A x \in Claims(e)' : x # e => pte'[x].size = 0
  <2>1. e \in Entries /\ e = <<p, e[2]>> /\ e[2] \in Nat /\ e[2] \in s .. s + n - 1
    BY <1>8, EntryParts, PageBounds DEF UsedPages, New
  <2>2. TableOf(e[2]) \in tables'[p]
    BY <1>1, <2>1 DEF SetUp, MissingTables, TypeOK
  <2> DEFINE h == <<p, s>>
  <2>3. h \in UsedPages' /\ pte'[h].size = n /\ New(h)
    <3>1. h \in Entries /\ New(h) /\ h[2] = s
      BY <1>1, EntryOf DEF New
    <3> QED BY <1>2, <3>1 DEF UsedPages
  <2>4. e \in Claims(h)'
    BY <2>1, <2>3 DEF Claims
  <2>5. CASE e[2] = s
    <3>1. pte'[e].size = n
      BY <2>1, <2>3, <2>5
    <3>2. ASSUME NEW x \in Claims(e)' PROVE x \in Entries /\ New(x) /\ x = <<p, x[2]>>
      <4>1. PICK q \in s .. s + n - 1 : x = <<p, q>>
        BY <2>1, <2>5, <3>1 DEF Claims
      <4>2. q \in Pages
        BY <1>1, SegmentInSpace
      <4> QED BY <1>1, <4>1, <4>2, EntryOf DEF New
    <3>3. ASSUME NEW x \in Claims(e)', x # e PROVE pte'[x].size = 0
      BY <1>2, <2>1, <2>5, <3>2, <3>3
    <3>4. Claims(e)' \subseteq UsedPages'
      BY <1>2, <3>2 DEF UsedPages
    <3> QED BY <1>1, <2>1, <2>2, <2>3, <2>4, <3>3, <3>4
  <2>6. CASE e[2] # s
    <3>1. pte'[e].size = 0
      BY <1>2, <1>8, <2>1, <2>6
    <3>2. Claims(e)' = {}
      BY <2>1, <3>1 DEF Claims
    <3> QED BY <1>1, <2>1, <2>2, <2>3, <2>4, <3>2
  <2> QED BY <2>5, <2>6
<1> QED BY <1>6, <1>7, <1>8 DEF Tiled
\* A segment that is deleted is a set of pages in use, disjoint from what every
\* other page claims.
LEMMA SegmentIsUsed ==
  ASSUME TypeOK, Tiled, NEW p \in Procs, NEW s \in Pages
  PROVE  /\ SegmentAt(p, s) \subseteq UsedPages
         /\ SegmentAt(p, s) # {} => <<p, s>> \in SegmentAt(p, s)
<1> DEFINE h == <<p, s>>
<1>1. h \in Entries /\ s \in Nat /\ pte[h].size \in Nat
  BY EntryOf, PageBounds DEF TypeOK, PageTableEntries
<1>2. SegmentAt(p, s) = Claims(h)
  BY DEF SegmentAt, Claims
<1>3. CASE pte[h].used
  <2>1. SegmentAt(p, s) \subseteq UsedPages
    BY <1>1, <1>2, <1>3 DEF Tiled, UsedPages
  <2>2. pte[h].size > 0 => h \in SegmentAt(p, s)
    BY <1>1 DEF SegmentAt
  <2>3. pte[h].size = 0 => SegmentAt(p, s) = {}
    BY <1>1 DEF SegmentAt
  <2> QED BY <1>1, <2>1, <2>2, <2>3
<1>4. CASE ~pte[h].used
  BY <1>1, <1>4 DEF Tiled, SegmentAt
<1> QED BY <1>3, <1>4

LEMMA SegmentIsWhole ==
  ASSUME TypeOK, Tiled, NEW p \in Procs, NEW s \in Pages,
         NEW h \in UsedPages, NEW e \in Claims(h), e \in SegmentAt(p, s)
  PROVE  h \in SegmentAt(p, s)
<1> DEFINE g == <<p, s>>
<1>1. /\ h \in Entries /\ h = <<h[1], h[2]>> /\ h[2] \in Nat
      /\ pte[h].used /\ pte[h].size \in Nat
  BY UsedAreEntries DEF TypeOK, PageTableEntries
<1>2. /\ g \in SegmentAt(p, s) /\ g \in UsedPages
      /\ s \in Nat /\ pte[g].size \in Nat
      /\ SegmentAt(p, s) = Claims(g)
  BY SegmentIsUsed, EntryOf, PageBounds DEF TypeOK, PageTableEntries, SegmentAt, Claims
<1>3. PICK q \in h[2] .. h[2] + pte[h].size - 1 : e = <<h[1], q>>
  BY DEF Claims
<1>4. PICK r \in s .. s + pte[g].size - 1 : e = <<p, r>>
  BY DEF SegmentAt
<1>5. q = r /\ h[1] = p /\ q \in Nat
  BY <1>1, <1>3, <1>4
<1>6. CASE h[2] < s
  <2>1. g \in Claims(h)
    BY <1>1, <1>2, <1>3, <1>4, <1>5, <1>6 DEF Claims
  <2>2. g # h
    BY <1>1, <1>6, <1>2
  <2>3. pte[g].size = 0
    BY <2>1, <2>2 DEF Tiled
  <2> QED BY <1>2, <1>4, <2>3
<1>7. CASE h[2] >= s
  <2>1. h[2] \in s .. s + pte[g].size - 1
    BY <1>1, <1>2, <1>3, <1>4, <1>5, <1>7
  <2> QED BY <1>1, <1>5, <2>1 DEF SegmentAt
<1> QED BY <1>1, <1>2, <1>6, <1>7

LEMMA DeleteTiles ==
  ASSUME TypeOK, Tiled, NEW p \in Procs, NEW s \in Pages, DeleteSegment(p, s)
  PROVE  Tiled'
<1> DEFINE es == SegmentAt(p, s)
<1>1. ASSUME NEW e \in Entries
      PROVE  IF e \in es THEN ~pte'[e].used /\ pte'[e].size = 0
                         ELSE pte'[e] = pte[e]
  BY SetUnusedType DEF DeleteSegment, TypeOK
<1>2. UsedPages' = UsedPages \ es
  BY <1>1 DEF UsedPages
<1>3. ASSUME NEW e \in UsedPages' PROVE Claims(e)' = Claims(e)
  BY <1>1, <1>2, <1>3, UsedAreEntries DEF Claims
<1>4. ASSUME NEW e \in Entries, ~pte'[e].used PROVE pte'[e].size = 0
  BY <1>1, <1>4 DEF Tiled
<1>5. ASSUME NEW e \in UsedPages'
      PROVE  /\ proc'[e[1]] = "live"
             /\ TableOf(e[2]) \in tables'[e[1]]
             /\ \E h \in UsedPages' : e \in Claims(h)'
             /\ Claims(e)' \subseteq UsedPages'
             /\ \A x \in Claims(e)' : x # e => pte'[x].size = 0
  <2>1. e \in UsedPages /\ e \notin es
    BY <1>2
  <2>2. PICK h \in UsedPages : e \in Claims(h)
    BY <2>1 DEF Tiled
  <2>3. h \notin es
    <3> SUFFICES ASSUME h \in es PROVE FALSE
      OBVIOUS
    <3> DEFINE g == <<p, s>>
    <3>1. g \in UsedPages /\ es = Claims(g)
      BY SegmentIsUsed DEF SegmentAt, Claims
    <3>2. h = g
      <4>1. h # g => pte[h].size = 0
        BY <3>1 DEF Tiled
      <4>2. pte[h].size # 0
        BY <2>2, UsedAreEntries DEF Claims
      <4> QED BY <4>1, <4>2
    <3> QED BY <2>1, <2>2, <3>1, <3>2
  <2>4. h \in UsedPages' /\ e \in Claims(h)'
    BY <1>2, <1>3, <2>2, <2>3
  <2>5. Claims(e) \intersect es = {}
    BY <2>1, SegmentIsWhole
  <2>6. Claims(e)' \subseteq UsedPages'
    BY <1>2, <1>3, <2>1, <2>5 DEF Tiled
  <2>7. ASSUME NEW x \in Claims(e)', x # e PROVE pte'[x].size = 0
    BY <1>1, <1>2, <1>3, <2>1, <2>6, <2>7, UsedAreEntries DEF Tiled
  <2> QED BY <2>1, <2>4, <2>6, <2>7 DEF DeleteSegment, Tiled
<1> QED BY <1>4, <1>5 DEF Tiled

LEMMA DestroyTiles ==
  ASSUME TypeOK, Tiled, NEW p \in Procs, DestroyProcess(p)
  PROVE  Tiled'
<1>1. ASSUME NEW e \in Entries
      PROVE  IF e[1] = p THEN ~pte'[e].used /\ pte'[e].size = 0
                         ELSE pte'[e] = pte[e]
  BY DEF DestroyProcess, ZeroEntry
<1>2. UsedPages' = {e \in UsedPages : e[1] # p}
  BY <1>1 DEF UsedPages
<1>3. ASSUME NEW e \in UsedPages' PROVE Claims(e)' = Claims(e)
  BY <1>1, <1>2, <1>3, UsedAreEntries DEF Claims
<1>4. ASSUME NEW e \in Entries, ~pte'[e].used PROVE pte'[e].size = 0
  BY <1>1, <1>4 DEF Tiled
<1>5. ASSUME NEW e \in UsedPages, NEW x \in Claims(e) PROVE x[1] = e[1]
  BY <1>5 DEF Claims
<1>6. ASSUME NEW e \in UsedPages'
      PROVE  /\ proc'[e[1]] = "live"
             /\ TableOf(e[2]) \in tables'[e[1]]
             /\ \E h \in UsedPages' : e \in Claims(h)'
             /\ Claims(e)' \subseteq UsedPages'
             /\ \A x \in Claims(e)' : x # e => pte'[x].size = 0
  <2>1. e \in UsedPages /\ e[1] # p /\ e[1] \in Procs
    BY <1>2, UsedAreEntries
  <2>2. PICK h \in UsedPages : e \in Claims(h)
    BY <2>1 DEF Tiled
  <2>3. h \in UsedPages' /\ e \in Claims(h)'
    BY <1>2, <1>3, <1>5, <2>1, <2>2
  <2>4. Claims(e)' \subseteq UsedPages'
    BY <1>2, <1>3, <1>5, <2>1 DEF Tiled
  <2>5. ASSUME NEW x \in Claims(e)', x # e PROVE pte'[x].size = 0
    BY <1>1, <1>2, <1>3, <2>1, <2>4, <2>5, UsedAreEntries DEF Tiled
  <2>6. proc'[e[1]] = "live" /\ TableOf(e[2]) \in tables'[e[1]]
    BY <2>1 DEF DestroyProcess, Tiled, TypeOK
  <2> QED BY <2>3, <2>4, <2>5, <2>6
<1> QED BY <1>4, <1>6 DEF Tiled

\* Steps that leave the use and the size of every entry alone.
SameShape ==
  /\ \A e \in Entries : pte'[e].used = pte[e].used /\ pte'[e].size = pte[e].size
  /\ UNCHANGED tables
  /\ \A e \in UsedPages : proc'[e[1]] = proc[e[1]]

LEMMA SameShapeTiles == ASSUME Tiled, SameShape PROVE Tiled'
<1>1. UsedPages' = UsedPages
  BY DEF SameShape, UsedPages
<1>2. ASSUME NEW e \in UsedPages PROVE Claims(e)' = Claims(e)
  BY <1>2 DEF SameShape, UsedPages, Claims
<1>3. ASSUME NEW e \in Entries, ~pte'[e].used PROVE pte'[e].size = 0
  BY <1>3 DEF SameShape, Tiled
<1>4. ASSUME NEW e \in UsedPages, NEW x \in Claims(e), x # e PROVE pte'[x].size = 0
  BY <1>4 DEF SameShape, Tiled, UsedPages
<1> QED BY <1>1, <1>2, <1>3, <1>4 DEF Tiled, SameShape

\* The history of mishaps only grows.
LEMMA MishapsStay == ASSUME TypeOK, [Next]_vars PROVE happened \subseteq happened'
<1>1. ASSUME NEW p \in Procs, SegmentCall(p) PROVE happened \subseteq happened'
  BY <1>1 DEF SegmentCall, CreateSegment, LoadSegment, LoadSegmentFails
<1>2. ASSUME NEW p \in Procs, PageFault(p) PROVE happened \subseteq happened'
  <2>1. ASSUME NEW q \in Pages, FaultIntoFreeFrame(p, q)
        PROVE  happened \subseteq happened'
    BY <2>1 DEF FaultIntoFreeFrame, Install
  <2>2. ASSUME NEW q \in Pages, FaultEvictingClean(p, q)
        PROVE  happened \subseteq happened'
    BY <2>2 DEF FaultEvictingClean, Install
  <2>3. ASSUME NEW q \in Pages, FaultEvictingDirty(p, q)
        PROVE  happened \subseteq happened'
    BY <2>3 DEF FaultEvictingDirty, Install
  <2>4. ASSUME NEW q \in Pages, FaultWhenEvictionFails(p, q)
        PROVE  happened \subseteq happened'
    BY <2>4 DEF FaultWhenEvictionFails
  <2>5. ASSUME NEW q \in Pages, FaultOnDanglingOwner(p, q)
        PROVE  happened \subseteq happened'
    BY <2>5 DEF FaultOnDanglingOwner
  <2> QED BY <1>2, <2>1, <2>2, <2>3, <2>4, <2>5 DEF PageFault
<1>3. ASSUME PeriodicJob PROVE happened' = happened
  BY <1>3 DEF PeriodicJob
<1>4. ASSUME NEW p \in Procs, CreateProcess(p) \/ DestroyProcess(p)
      PROVE  happened' = happened
  BY <1>4 DEF CreateProcess, DestroyProcess
<1>5. ASSUME NEW p \in Procs, NEW s \in Pages,
             DeleteSegment(p, s) \/ DeleteSegmentCrashes(p, s)
      PROVE  happened' = happened
  BY <1>5 DEF DeleteSegment, DeleteSegmentCrashes
<1>6. ASSUME NEW p \in Procs, NEW q \in Pages, NEW type, Access(p, q, type)
      PROVE  happened' = happened
  BY <1>6 DEF Access
<1>7. CASE UNCHANGED vars
  BY <1>7 DEF vars
<1> QED BY <1>1, <1>2, <1>3, <1>4, <1>5, <1>6, <1>7 DEF Next

-----------------------------------------------------------------------------
(* Faults *)

\* What a fault that gives page e the frame f does to the two tables.
Takes(e, f) ==
  /\ e \in UsedPages /\ f \in Frames
  /\ frameTable[f].free \/ frameTable[f].owner \in Entries
  /\ \A x \in Entries :
       /\ pte'[x].used = pte[x].used /\ pte'[x].size = pte[x].size
       /\ pte'[x].cluster = pte[x].cluster
       /\ pte'[x].rights = pte[x].rights
       /\ x # e => /\ pte'[x].frame = pte[x].frame
                   /\ pte'[x].dirty = pte[x].dirty
                   /\ pte'[x].loaded =>
                        pte[x].loaded /\ (frameTable[f].free \/ x # frameTable[f].owner)
                   /\ pte[x].loaded /\ (frameTable[f].free \/ x # frameTable[f].owner) =>
                        pte'[x].loaded
  /\ pte'[e].loaded /\ ~pte'[e].dirty /\ pte'[e].frame = f
  /\ ~frameTable'[f].free /\ frameTable'[f].owner = e
  /\ \A g \in Frames : g # f => frameTable'[g] = frameTable[g] /\ memory'[g] = memory[g]
  /\ happened' = {} => /\ memory' = [memory EXCEPT ![f] = disk'[pte[e].cluster]]
                       /\ pte[e].cluster \in Clusters
  /\ pte[e].loaded => "refault" \in happened'
  /\ UNCHANGED <<proc, tables, bitmap, freeSlabs, crash>>

LEMMA InstallEntries ==
  ASSUME NEW e \in Entries, NEW f \in Frames,
         NEW entries \in [Entries -> PageTableEntries], NEW clusters,
         Install(e, f, entries, clusters), NEW x \in Entries
  PROVE  /\ pte'[x].used = entries[x].used
         /\ pte'[x].size = entries[x].size
         /\ pte'[x].cluster = entries[x].cluster
         /\ pte'[x].rights = entries[x].rights
         /\ x = e => /\ pte'[x].loaded /\ ~pte'[x].dirty
                     /\ pte'[x].frame = f
         /\ x # e => pte'[x] = entries[x]
<1> DEFINE one   == [entries EXCEPT ![e].loaded = TRUE]
           two   == [one EXCEPT ![e].dirty = FALSE]
           three == [two EXCEPT ![e].frame = f]
<1>1. /\ one \in [Entries -> PageTableEntries]
      /\ one[e].loaded /\ one[e].used = entries[e].used
      /\ one[e].size = entries[e].size /\ one[e].cluster = entries[e].cluster
      /\ one[e].rights = entries[e].rights
      /\ x # e => one[x] = entries[x]
  BY DEF PageTableEntries
<1>2. /\ two \in [Entries -> PageTableEntries]
      /\ two[e].loaded /\ ~two[e].dirty /\ two[e].used = one[e].used
      /\ two[e].size = one[e].size /\ two[e].cluster = one[e].cluster
      /\ two[e].rights = one[e].rights
      /\ x # e => two[x] = one[x]
  <2> HIDE DEF one
  <2> QED BY <1>1 DEF PageTableEntries
<1>3. /\ three[e].loaded /\ ~three[e].dirty /\ three[e].used = two[e].used
      /\ three[e].size = two[e].size /\ three[e].cluster = two[e].cluster
      /\ three[e].rights = two[e].rights
      /\ three[e].frame = f
      /\ x # e => three[x] = two[x]
  <2> HIDE DEF two
  <2> QED BY <1>2 DEF PageTableEntries
<1>4. pte' = three
  BY DEF Install
<1> HIDE DEF one, two, three
<1> QED BY <1>1, <1>2, <1>3, <1>4

LEMMA InstallFrames ==
  ASSUME TypeOK, NEW e \in Entries, NEW f \in Frames, NEW entries, NEW clusters,
         Install(e, f, entries, clusters), NEW g \in Frames
  PROVE  /\ ~frameTable'[f].free /\ frameTable'[f].owner = e
         /\ g # f => frameTable'[g] = frameTable[g]
<1> DEFINE one == [frameTable EXCEPT ![f].free = FALSE]
<1>1. /\ one \in [Frames -> FrameEntries(Entries)]
      /\ ~one[f].free /\ (g # f => one[g] = frameTable[g])
  BY DEF TypeOK, FrameEntries
<1>2. frameTable' = [one EXCEPT ![f].owner = e]
  BY DEF Install
<1> HIDE DEF one
<1> QED BY <1>1, <1>2 DEF FrameEntries

LEMMA UnloadedEntries ==
  ASSUME TypeOK, NEW v \in Entries, NEW x \in Entries
  PROVE  /\ Unloaded(v)[x].used = pte[x].used
         /\ Unloaded(v)[x].size = pte[x].size
         /\ Unloaded(v)[x].cluster = pte[x].cluster
         /\ Unloaded(v)[x].rights = pte[x].rights
         /\ Unloaded(v)[x].frame = pte[x].frame
         /\ Unloaded(v)[x].dirty = pte[x].dirty
         /\ x = v => ~Unloaded(v)[x].loaded
         /\ x # v => Unloaded(v)[x] = pte[x]
BY DEF Unloaded, TypeOK, PageTableEntries

LEMMA InstallTakes ==
  ASSUME TypeOK, NEW e \in UsedPages, NEW f \in Frames, NEW entries, NEW clusters,
         Install(e, f, entries, clusters),
         \/ frameTable[f].free /\ entries = pte
         \/ /\ ~frameTable[f].free /\ frameTable[f].owner \in Entries
            /\ entries = Unloaded(frameTable[f].owner)
  PROVE  Takes(e, f) /\ disk' = clusters
<1> DEFINE v == frameTable[f].owner
<1>1. e \in Entries
  BY UsedAreEntries
<1>2. entries \in [Entries -> PageTableEntries]
  BY UnloadedType DEF TypeOK
<1>3. ASSUME NEW x \in Entries
      PROVE  /\ entries[x].used = pte[x].used
             /\ entries[x].size = pte[x].size
             /\ entries[x].cluster = pte[x].cluster
             /\ entries[x].rights = pte[x].rights
             /\ entries[x].frame = pte[x].frame
             /\ entries[x].dirty = pte[x].dirty
             /\ entries[x].loaded =>
                  pte[x].loaded /\ (frameTable[f].free \/ x # v)
             /\ pte[x].loaded /\ (frameTable[f].free \/ x # v) => entries[x].loaded
  BY UnloadedEntries
<1>4. ASSUME NEW x \in Entries
      PROVE  /\ pte'[x].used = pte[x].used /\ pte'[x].size = pte[x].size
             /\ pte'[x].cluster = pte[x].cluster
             /\ pte'[x].rights = pte[x].rights
             /\ x = e => pte'[x].loaded /\ ~pte'[x].dirty /\ pte'[x].frame = f
             /\ x # e => /\ pte'[x].frame = pte[x].frame
                         /\ pte'[x].dirty = pte[x].dirty
                         /\ pte'[x].loaded =>
                              pte[x].loaded /\ (frameTable[f].free \/ x # v)
                         /\ pte[x].loaded /\ (frameTable[f].free \/ x # v) =>
                              pte'[x].loaded
  BY <1>1, <1>2, <1>3, InstallEntries
<1>5. ASSUME happened' = {}
      PROVE  /\ memory' = [memory EXCEPT ![f] = disk'[pte[e].cluster]]
             /\ pte[e].cluster \in Clusters
  BY <1>1, <1>3, <1>5 DEF Install
<1>6. pte[e].loaded => "refault" \in happened'
  BY DEF Install, Refault
<1>7. disk' = clusters /\ UNCHANGED <<proc, tables, bitmap, freeSlabs, crash>>
  BY DEF Install
<1>8. /\ ~frameTable'[f].free /\ frameTable'[f].owner = e
      /\ \A g \in Frames : g # f => frameTable'[g] = frameTable[g]
  BY <1>1, InstallFrames
<1>9. \A g \in Frames : g # f => memory'[g] = memory[g]
  BY DEF Install, TypeOK
<1> QED BY <1>1, <1>4, <1>5, <1>6, <1>7, <1>8, <1>9 DEF Takes

\* Every fault that succeeds gives a page in use a frame.
LEMMA FaultTakes ==
  ASSUME TypeOK, NEW p \in Procs, NEW q \in Pages,
         \/ FaultIntoFreeFrame(p, q)
         \/ FaultEvictingClean(p, q)
         \/ FaultEvictingDirty(p, q)
  PROVE  \E f \in Frames :
           /\ Takes(<<p, q>>, f)
           /\ \/ disk' = disk
              \/ LET v == frameTable[f].owner
                 IN  ~frameTable[f].free /\ pte[v].dirty /\
                     \E d : disk' = [disk EXCEPT ![pte[v].cluster] = d]
<1>1. ASSUME Faults(p, q) PROVE <<p, q>> \in UsedPages
  BY <1>1, EntryOf DEF Faults, IsValid, UsedPages
<1>2. ASSUME NEW f \in Frames, OwnerExists(f) PROVE frameTable[f].owner \in Entries
  BY <1>2 DEF OwnerExists, TypeOK, FrameEntries
<1>3. CASE FaultIntoFreeFrame(p, q)
  BY <1>1, <1>3, InstallTakes DEF FaultIntoFreeFrame, IsFirstFree
<1>4. CASE FaultEvictingClean(p, q)
  <2>1. PICK f \in Frames : /\ Evicts(p, q, f) /\ OwnerExists(f)
                            /\ Install(<<p, q>>, f, Unloaded(frameTable[f].owner), disk)
    BY <1>4 DEF FaultEvictingClean
  <2>2. <<p, q>> \in UsedPages /\ ~frameTable[f].free
    BY <1>1, <2>1 DEF Evicts, NoneFree
  <2> QED BY <1>2, <2>1, <2>2, InstallTakes
<1>5. CASE FaultEvictingDirty(p, q)
  <2> DEFINE v(f) == frameTable[f].owner
             swapped(f) == [disk EXCEPT ![pte[v(f)].cluster] = EvictedBytes(pte[v(f)].frame)]
  <2>1. PICK f \in Frames : /\ Evicts(p, q, f) /\ OwnerExists(f) /\ pte[v(f)].dirty
                            /\ Install(<<p, q>>, f, Unloaded(v(f)), swapped(f))
    BY <1>5 DEF FaultEvictingDirty
  <2>2. <<p, q>> \in UsedPages /\ ~frameTable[f].free
    BY <1>1, <2>1 DEF Evicts, NoneFree
  <2>3. Takes(<<p, q>>, f) /\ disk' = swapped(f)
    BY <1>2, <2>1, <2>2, InstallTakes
  <2> QED BY <2>1, <2>2, <2>3
<1> QED BY <1>3, <1>4, <1>5

\* A failed eviction only marks the victim unloaded.
LEMMA FailedEviction ==
  ASSUME TypeOK, NEW p \in Procs, NEW q \in Pages, FaultWhenEvictionFails(p, q),
         NEW x \in Entries
  PROVE  /\ pte'[x].used = pte[x].used /\ pte'[x].size = pte[x].size
         /\ pte'[x].cluster = pte[x].cluster /\ pte'[x].frame = pte[x].frame
         /\ pte'[x].rights = pte[x].rights
         /\ pte'[x].loaded => pte[x].loaded
         /\ "writeEvicted" \in happened'
         /\ UNCHANGED <<proc, tables, frameTable, bitmap, memory, disk, crash>>
<1>1. PICK f \in Frames : OwnerExists(f) /\ pte' = Unloaded(frameTable[f].owner)
  BY DEF FaultWhenEvictionFails
<1>2. frameTable[f].owner \in Entries
  BY <1>1 DEF OwnerExists, TypeOK, FrameEntries
<1> QED BY <1>1, <1>2, UnloadedEntries DEF FaultWhenEvictionFails

LEMMA AccessEntries ==
  ASSUME TypeOK, NEW p \in Procs, NEW q \in Pages, NEW type, Access(p, q, type),
         NEW x \in Entries
  PROVE  /\ pte'[x].used = pte[x].used /\ pte'[x].size = pte[x].size
         /\ pte'[x].cluster = pte[x].cluster /\ pte'[x].frame = pte[x].frame
         /\ pte'[x].loaded = pte[x].loaded /\ pte'[x].rights = pte[x].rights
         /\ pte[x].dirty => pte'[x].dirty
         /\ \A g \in Frames : /\ frameTable'[g].free = frameTable[g].free
                              /\ frameTable'[g].owner = frameTable[g].owner
<1>1. <<p, q>> \in Entries
  BY EntryOf
<1>2. pte \in [Entries -> PageTableEntries] /\ frameTable \in [Frames -> FrameEntries(Entries)]
  BY DEF TypeOK
<1>3. /\ pte'[x].used = pte[x].used /\ pte'[x].size = pte[x].size
      /\ pte'[x].cluster = pte[x].cluster /\ pte'[x].frame = pte[x].frame
      /\ pte'[x].loaded = pte[x].loaded /\ pte'[x].rights = pte[x].rights
      /\ pte[x].dirty => pte'[x].dirty
  BY <1>1, <1>2 DEF Access, PageTableEntries
<1>4. \A g \in Frames : /\ frameTable'[g].free = frameTable[g].free
                        /\ frameTable'[g].owner = frameTable[g].owner
  BY <1>2 DEF Access, FrameEntries
<1> QED BY <1>3, <1>4

-----------------------------------------------------------------------------
(* The kinds of step *)

SetsUpSegment(p, s, n, rights, cs) ==
  /\ SegmentArgs(p, s, n, n, rights, cs)
  /\ Allocatable(p, s, n)
  /\ proc[p] = "live"
  /\ HandedOut(cs, n)
  /\ SetUp(p, s, n, n, rights, cs)
  /\ RanOut(cs, n) \subseteq happened'
  /\ disk' = disk \/ \E content : disk' = Written(cs, content, n)
  /\ UNCHANGED <<proc, frameTable, memory, crash>>

\* A step that touches neither pages nor clusters, nor who owns which frame.
Idle ==
  /\ \A f \in Frames : /\ frameTable'[f].free = frameTable[f].free
                       /\ frameTable'[f].owner = frameTable[f].owner
  /\ \A p \in Procs : proc[p] = "live" => proc'[p] = "live"
  /\ UNCHANGED <<tables, pte, bitmap, memory, disk>>

LEMMA SegmentCallKinds ==
  ASSUME NEW p \in Procs, SegmentCall(p)
  PROVE  \/ "writeContent" \in happened'
         \/ \E s \in Pages, n \in Nat \ {0}, rights \in AccessTypes :
              \E cs \in [0 .. n - 1 -> 0 .. NumClusters] :
                SetsUpSegment(p, s, n, rights, cs)
<1>1. PICK s \in Pages, n \in SegmentSizes, rights \in SegmentRights :
        \/ CreateSegment(p, s, n, rights)
        \/ \E content \in [0 .. n - 1 -> Data] :
             \/ LoadSegment(p, s, n, rights, content)
             \/ \E k \in 1 .. n : LoadSegmentFails(p, s, n, rights, content, k)
  BY DEF SegmentCall
<1>2. n \in Nat \ {0} /\ rights \in AccessTypes
  BY VirtualMemoryAssumption
<1>3. CASE CreateSegment(p, s, n, rights)
  <2>1. PICK cs \in [0 .. n - 1 -> 0 .. NumClusters] :
          /\ HandedOut(cs, n)
          /\ SetUp(p, s, n, n, rights, cs)
          /\ happened' = happened \union RanOut(cs, n)
    BY <1>3 DEF CreateSegment
  <2>2. SegmentArgs(p, s, n, n, rights, cs)
    BY <1>2, <2>1 DEF SegmentArgs
  <2>3. SetsUpSegment(p, s, n, rights, cs)
    BY <1>3, <2>1, <2>2 DEF CreateSegment, SetsUpSegment, Running
  <2> QED BY <1>2, <2>3
<1>4. ASSUME NEW content \in [0 .. n - 1 -> Data], LoadSegment(p, s, n, rights, content)
      PROVE  \E cs \in [0 .. n - 1 -> 0 .. NumClusters] :
               SetsUpSegment(p, s, n, rights, cs)
  <2>1. PICK cs \in [0 .. n - 1 -> Clusters] :
          /\ HandedOut(cs, n)
          /\ SetUp(p, s, n, n, rights, cs)
          /\ disk' = Written(cs, content, n)
          /\ happened' = happened \union RanOut(cs, n)
    BY <1>4 DEF LoadSegment
  <2>2. cs \in [0 .. n - 1 -> 0 .. NumClusters]
    BY <2>1, VirtualMemoryAssumption DEF Clusters
  <2>3. SegmentArgs(p, s, n, n, rights, cs)
    BY <1>2, <2>2 DEF SegmentArgs
  <2>4. SetsUpSegment(p, s, n, rights, cs)
    BY <1>4, <2>1, <2>3 DEF LoadSegment, SetsUpSegment, Running
  <2> QED BY <2>2, <2>4
<1>5. ASSUME NEW content, NEW k, LoadSegmentFails(p, s, n, rights, content, k)
      PROVE  "writeContent" \in happened'
  BY <1>5 DEF LoadSegmentFails
<1> QED BY <1>1, <1>2, <1>3, <1>4, <1>5

LEMMA StepKinds ==
  ASSUME TypeOK, [Next]_vars
  PROVE  \/ "writeContent" \in happened'
         \/ \E p \in Procs, s \in Pages, n \in Nat \ {0}, rights \in AccessTypes :
              \E cs \in [0 .. n - 1 -> 0 .. NumClusters] :
                SetsUpSegment(p, s, n, rights, cs)
         \/ \E p \in Procs, s \in Pages : DeleteSegment(p, s)
         \/ \E p \in Procs : DestroyProcess(p)
         \/ \E p \in Procs, q \in Pages : \/ FaultIntoFreeFrame(p, q)
                                          \/ FaultEvictingClean(p, q)
                                          \/ FaultEvictingDirty(p, q)
         \/ \E p \in Procs, q \in Pages : FaultWhenEvictionFails(p, q)
         \/ \E p \in Procs, q \in Pages, type \in AccessTypes : Access(p, q, type)
         \/ Idle
<1>1. CASE PeriodicJob
  <2>1. ASSUME NEW f \in Frames
        PROVE  /\ frameTable'[f].free = frameTable[f].free
               /\ frameTable'[f].owner = frameTable[f].owner
    BY <1>1 DEF PeriodicJob, TypeOK, FrameEntries
  <2> QED BY <1>1, <2>1 DEF PeriodicJob, Idle
<1>2. ASSUME NEW p \in Procs, CreateProcess(p) PROVE Idle
  BY <1>2 DEF CreateProcess, Idle, TypeOK
<1>3. ASSUME NEW p \in Procs, NEW s \in Pages, DeleteSegmentCrashes(p, s) PROVE Idle
  BY <1>3 DEF DeleteSegmentCrashes, Idle
<1>4. ASSUME NEW p \in Procs, NEW q \in Pages, FaultOnDanglingOwner(p, q) PROVE Idle
  BY <1>4 DEF FaultOnDanglingOwner, Idle
<1>5. CASE UNCHANGED vars
  BY <1>5 DEF vars, Idle
<1> QED BY <1>1, <1>2, <1>3, <1>4, <1>5, SegmentCallKinds DEF Next, PageFault

-----------------------------------------------------------------------------
(* Segments tile what is mapped *)

LEMMA FaultShape ==
  ASSUME NEW e, NEW f, Takes(e, f)
  PROVE  SameShape
BY DEF Takes, SameShape

LEMMA StepTiles ==
  ASSUME TypeOK, Tiled, [Next]_vars, "writeContent" \notin happened'
  PROVE  Tiled'
<1>1. ASSUME NEW p \in Procs, NEW s \in Pages, NEW n \in Nat \ {0}, NEW rights, NEW cs,
             SetsUpSegment(p, s, n, rights, cs)
      PROVE  Tiled'
  BY <1>1, SetUpTiles DEF SetsUpSegment
<1>2. ASSUME NEW p \in Procs, NEW q \in Pages,
             \/ FaultIntoFreeFrame(p, q)
             \/ FaultEvictingClean(p, q)
             \/ FaultEvictingDirty(p, q)
      PROVE  Tiled'
  BY <1>2, FaultTakes, FaultShape, SameShapeTiles
<1>3. ASSUME NEW p \in Procs, NEW q \in Pages, FaultWhenEvictionFails(p, q)
      PROVE  Tiled'
  <2>1. \A x \in Entries : pte'[x].used = pte[x].used /\ pte'[x].size = pte[x].size
    BY <1>3, FailedEviction
  <2>2. UNCHANGED <<proc, tables>>
    BY <1>3 DEF FaultWhenEvictionFails
  <2> QED BY <2>1, <2>2, SameShapeTiles DEF SameShape
<1>4. ASSUME NEW p \in Procs, NEW q \in Pages, NEW type, Access(p, q, type)
      PROVE  Tiled'
  <2>1. \A x \in Entries : pte'[x].used = pte[x].used /\ pte'[x].size = pte[x].size
    BY <1>4, AccessEntries
  <2>2. UNCHANGED <<proc, tables>>
    BY <1>4 DEF Access
  <2> QED BY <2>1, <2>2, SameShapeTiles DEF SameShape
<1>5. ASSUME Idle PROVE Tiled'
  <2>1. \A e \in UsedPages : e[1] \in Procs /\ proc[e[1]] = "live"
    BY UsedAreEntries DEF Tiled
  <2> QED BY <1>5, <2>1, SameShapeTiles DEF Idle, SameShape
<1> QED BY <1>1, <1>2, <1>3, <1>4, <1>5, StepKinds, DeleteTiles, DestroyTiles

LEMMA InitTiles == Init => Tiled
BY DEF Init, Tiled, UsedPages, ZeroEntry

\* Until a load of a segment fails, segments tile what every process has mapped.
THEOREM SegmentsTileAlways == Spec => []SegmentsTile
<1>1. Init => SegmentsTile
  BY InitTiles DEF SegmentsTile
<1>2. TypeOK /\ SegmentsTile /\ [Next]_vars => SegmentsTile'
  BY MishapsStay, StepTiles DEF SegmentsTile, Spared
<1> QED BY <1>1, <1>2, TypeCorrect, PTL DEF Spec

-----------------------------------------------------------------------------
(* Frames *)

\* What deleteSegment and the destructor have in common: the pages es, all of
\* them in use, are given back and nothing else changes for the others.
Releases(es) ==
  /\ es \subseteq UsedPages
  /\ UsedPages' = UsedPages \ es
  /\ \A e \in UsedPages' : pte'[e] = pte[e]
  /\ GiveBack(es)
  /\ UNCHANGED <<memory, disk>>

LEMMA DeleteReleases ==
  ASSUME TypeOK, Tiled, NEW p \in Procs, NEW s \in Pages, DeleteSegment(p, s)
  PROVE  Releases(SegmentAt(p, s))
<1>1. SegmentAt(p, s) \subseteq UsedPages
  BY SegmentIsUsed
<1>2. \A e \in Entries : IF e \in SegmentAt(p, s) THEN ~pte'[e].used
                                                 ELSE pte'[e] = pte[e]
  BY SetUnusedType DEF DeleteSegment, TypeOK
<1> QED BY <1>1, <1>2 DEF DeleteSegment, Releases, UsedPages

LEMMA DestroyReleases ==
  ASSUME TypeOK, NEW p \in Procs, DestroyProcess(p)
  PROVE  Releases(UsedEntries(p))
<1>1. \A e \in Entries : IF e[1] = p THEN ~pte'[e].used ELSE pte'[e] = pte[e]
  BY DEF DestroyProcess, ZeroEntry
<1> QED BY <1>1 DEF DestroyProcess, Releases, UsedPages, UsedEntries

\* Setting up a segment leaves every page in use as it is.
LEMMA SetUpKeeps ==
  ASSUME TypeOK, Tiled, NEW p, NEW s, NEW n, NEW rights, NEW cs,
         SetsUpSegment(p, s, n, rights, cs)
  PROVE  /\ \A e \in UsedPages : e \in UsedPages' /\ pte'[e] = pte[e]
         /\ \A e \in UsedPages' : \/ e \in UsedPages
                                  \/ /\ ~pte'[e].loaded
                                     /\ e = <<p, e[2]>> /\ e[2] \in s .. s + n - 1
                                     /\ pte'[e].cluster = cs[e[2] - s]
                                     /\ pte'[e].rights = rights
<1>1. SegmentArgs(p, s, n, n, rights, cs) /\ p \in Procs /\ s \in Pages /\ n \in Nat \ {0}
  BY DEF SetsUpSegment, SegmentArgs
<1>2. ASSUME NEW e \in UsedPages PROVE ~(e[1] = p /\ e[2] \in s .. s + n - 1)
  BY <1>1, SetUpOnFresh DEF SetsUpSegment, UsedPages
<1>3. ASSUME NEW e \in Entries
      PROVE  IF e[1] = p /\ e[2] \in s .. s + n - 1
               THEN /\ pte'[e].used /\ ~pte'[e].loaded
                    /\ pte'[e].cluster = cs[e[2] - s] /\ pte'[e].rights = rights
               ELSE pte'[e] = pte[e]
  BY <1>1, SetUpEntries DEF SetsUpSegment
<1>4. ASSUME NEW e \in UsedPages PROVE e \in UsedPages' /\ pte'[e] = pte[e]
  BY <1>2, <1>3 DEF UsedPages
<1>5. ASSUME NEW e \in UsedPages', e \notin UsedPages
      PROVE  /\ ~pte'[e].loaded
             /\ e = <<p, e[2]>> /\ e[2] \in s .. s + n - 1
             /\ pte'[e].cluster = cs[e[2] - s] /\ pte'[e].rights = rights
  BY <1>3, <1>5, EntryParts DEF UsedPages
<1> QED BY <1>4, <1>5

LEMMA FrameOfPage ==
  ASSUME TypeOK, NEW e \in UsedPages
  PROVE  pte[e].frame \in Frames
BY DEF TypeOK, UsedPages, PageTableEntries

LEMMA ReleaseIsolates ==
  ASSUME TypeOK, Isolated, NEW es, Releases(es)
  PROVE  Isolated'
<1> SUFFICES ASSUME NEW e \in UsedPages', pte'[e].loaded
             PROVE  /\ ~frameTable'[pte'[e].frame].free
                    /\ frameTable'[pte'[e].frame].owner = e
  BY DEF Isolated
<1> DEFINE f == pte[e].frame
<1>1. e \in UsedPages /\ e \notin es /\ pte'[e] = pte[e] /\ f \in Frames
  BY FrameOfPage DEF Releases
<1>2. ~frameTable[f].free /\ frameTable[f].owner = e
  BY <1>1 DEF Isolated
<1>3. f \notin FramesOf(es)
  <2> SUFFICES ASSUME NEW x \in es, pte[x].loaded, pte[x].frame = f PROVE FALSE
    BY DEF FramesOf
  <2>1. frameTable[f].owner = x
    BY DEF Releases, Isolated
  <2> QED BY <1>1, <1>2, <2>1
<1>4. frameTable'[f] = frameTable[f]
  BY <1>1, <1>3 DEF Releases, GiveBack
<1> QED BY <1>1, <1>2, <1>4

\* Of two pages in one frame the frame table could name only one: whoever had
\* the frame before lost it.
LEMMA TakesIsolates ==
  ASSUME TypeOK, Isolated, NEW e, NEW f, Takes(e, f)
  PROVE  /\ Isolated'
         /\ \A x \in UsedPages : pte'[x].loaded /\ x # e => pte'[x].frame # f
<1>1. UsedPages' = UsedPages
  BY DEF Takes, UsedPages
<1>2. ASSUME NEW x \in UsedPages, pte'[x].loaded, x # e
      PROVE  /\ pte'[x].frame = pte[x].frame /\ pte[x].frame \in Frames \ {f}
             /\ frameTable'[pte[x].frame] = frameTable[pte[x].frame]
             /\ pte[x].loaded
  <2>1. /\ pte'[x].frame = pte[x].frame
        /\ pte[x].loaded /\ (frameTable[f].free \/ x # frameTable[f].owner)
    BY <1>2, UsedAreEntries DEF Takes
  <2>2. ~frameTable[pte[x].frame].free /\ frameTable[pte[x].frame].owner = x
    BY <2>1 DEF Isolated
  <2> QED BY <2>1, <2>2, FrameOfPage DEF Takes
<1>3. ASSUME NEW x \in UsedPages, pte'[x].loaded
      PROVE  /\ ~frameTable'[pte'[x].frame].free
             /\ frameTable'[pte'[x].frame].owner = x
  <2>1. CASE x = e
    BY <2>1 DEF Takes
  <2>2. CASE x # e
    BY <1>2, <1>3, <2>2 DEF Isolated
  <2> QED BY <2>1, <2>2
<1> QED BY <1>1, <1>2, <1>3 DEF Isolated

LEMMA StepIsolates ==
  ASSUME TypeOK, Tiled, Isolated, [Next]_vars, "writeContent" \notin happened'
  PROVE  Isolated'
<1>1. ASSUME NEW p \in Procs, NEW s, NEW n, NEW rights, NEW cs,
             SetsUpSegment(p, s, n, rights, cs)
      PROVE  Isolated'
  <2>1. \A e \in UsedPages' : pte'[e].loaded => e \in UsedPages /\ pte'[e] = pte[e]
    BY <1>1, SetUpKeeps
  <2>2. frameTable' = frameTable
    BY <1>1 DEF SetsUpSegment
  <2> QED BY <2>1, <2>2 DEF Isolated
<1>2. ASSUME NEW p \in Procs, NEW q \in Pages,
             \/ FaultIntoFreeFrame(p, q)
             \/ FaultEvictingClean(p, q)
             \/ FaultEvictingDirty(p, q)
      PROVE  Isolated'
  BY <1>2, FaultTakes, TakesIsolates
<1>3. ASSUME NEW p \in Procs, NEW q \in Pages, FaultWhenEvictionFails(p, q)
      PROVE  Isolated'
  <2>1. \A x \in Entries : /\ pte'[x].used = pte[x].used
                           /\ pte'[x].frame = pte[x].frame
                           /\ pte'[x].loaded => pte[x].loaded
    BY <1>3, FailedEviction
  <2>2. UNCHANGED frameTable
    BY <1>3 DEF FaultWhenEvictionFails
  <2> QED BY <2>1, <2>2 DEF Isolated, UsedPages
<1>4. ASSUME NEW p \in Procs, NEW q \in Pages, NEW type, Access(p, q, type)
      PROVE  Isolated'
  <2>1. \A x \in Entries : /\ pte'[x].used = pte[x].used
                           /\ pte'[x].frame = pte[x].frame
                           /\ pte'[x].loaded = pte[x].loaded
    BY <1>4, AccessEntries
  <2>2. \A g \in Frames : /\ frameTable'[g].free = frameTable[g].free
                          /\ frameTable'[g].owner = frameTable[g].owner
    BY <1>4, AccessEntries, UsedAreEntries, EntryOf
  <2> QED BY <2>1, <2>2, FrameOfPage DEF Isolated, UsedPages
<1>5. ASSUME Idle PROVE Isolated'
  BY <1>5, FrameOfPage DEF Idle, Isolated, UsedPages
<1> QED BY <1>1, <1>2, <1>3, <1>4, <1>5, StepKinds, DeleteReleases, DestroyReleases,
           ReleaseIsolates

LEMMA InitIsolates == Init => Isolated
BY DEF Init, Isolated, UsedPages, ZeroEntry

\* Until a load of a segment fails, every loaded page has its frame to itself.
THEOREM PageIsolationAlways == Spec => []PageIsolation
<1>1. Init => PageIsolation
  BY InitIsolates DEF PageIsolation
<1>2. TypeOK /\ SegmentsTile /\ PageIsolation /\ [Next]_vars => PageIsolation'
  BY MishapsStay, StepIsolates DEF PageIsolation, SegmentsTile, Spared
<1> QED BY <1>1, <1>2, TypeCorrect, SegmentsTileAlways, PTL DEF Spec

-----------------------------------------------------------------------------
(* No frame leaks *)

FrameMishaps == {"writeContent", "writeEvicted", "refault"}

LEMMA ReleaseAccounts ==
  ASSUME TypeOK, Accounted, NEW es, Releases(es)
  PROVE  Accounted'
<1> SUFFICES ASSUME NEW f \in Frames, ~frameTable'[f].free
             PROVE  LET e == frameTable'[f].owner
                    IN  e \in UsedPages' /\ pte'[e].loaded /\ pte'[e].frame = f
  BY DEF Accounted
<1> DEFINE e == frameTable[f].owner
<1>1. /\ ~frameTable[f].free /\ f \notin FramesOf(es)
      /\ frameTable'[f] = frameTable[f]
  BY DEF Releases, GiveBack, TypeOK, FrameEntries
<1>2. e \in UsedPages /\ pte[e].loaded /\ pte[e].frame = f
  BY <1>1 DEF Accounted
<1>3. e \notin es
  BY <1>1, <1>2 DEF FramesOf
<1> QED BY <1>1, <1>2, <1>3 DEF Releases

LEMMA TakesAccounts ==
  ASSUME TypeOK, Accounted, NEW e, NEW f, Takes(e, f), "refault" \notin happened'
  PROVE  Accounted'
<1> SUFFICES ASSUME NEW g \in Frames, ~frameTable'[g].free
             PROVE  LET x == frameTable'[g].owner
                    IN  x \in UsedPages' /\ pte'[x].loaded /\ pte'[x].frame = g
  BY DEF Accounted
<1>1. UsedPages' = UsedPages
  BY DEF Takes, UsedPages
<1>2. CASE g = f
  BY <1>1, <1>2 DEF Takes
<1>3. CASE g # f
  <2> DEFINE x == frameTable[g].owner
  <2>1. frameTable'[g] = frameTable[g]
    BY <1>3 DEF Takes
  <2>2. x \in UsedPages /\ pte[x].loaded /\ pte[x].frame = g
    BY <2>1 DEF Accounted
  <2>3. x # e
    BY <2>2 DEF Takes
  <2>4. frameTable[f].free \/ x # frameTable[f].owner
    BY <1>3, <2>2 DEF Takes, Accounted
  <2>5. pte'[x].loaded /\ pte'[x].frame = g
    BY <2>2, <2>3, <2>4, UsedAreEntries DEF Takes
  <2> QED BY <1>1, <2>1, <2>2, <2>5
<1> QED BY <1>2, <1>3

LEMMA StepAccounts ==
  ASSUME TypeOK, Tiled, Accounted, [Next]_vars,
         happened' \intersect FrameMishaps = {}
  PROVE  Accounted'
<1>1. ASSUME NEW p \in Procs, NEW s, NEW n, NEW rights, NEW cs,
             SetsUpSegment(p, s, n, rights, cs)
      PROVE  Accounted'
  <2>1. \A e \in UsedPages : e \in UsedPages' /\ pte'[e] = pte[e]
    BY <1>1, SetUpKeeps
  <2>2. frameTable' = frameTable
    BY <1>1 DEF SetsUpSegment
  <2> QED BY <2>1, <2>2 DEF Accounted
<1>2. ASSUME NEW p \in Procs, NEW q \in Pages,
             \/ FaultIntoFreeFrame(p, q)
             \/ FaultEvictingClean(p, q)
             \/ FaultEvictingDirty(p, q)
      PROVE  Accounted'
  BY <1>2, FaultTakes, TakesAccounts DEF FrameMishaps
<1>3. ASSUME NEW p \in Procs, NEW q \in Pages, FaultWhenEvictionFails(p, q)
      PROVE  FALSE
  BY <1>3 DEF FaultWhenEvictionFails, FrameMishaps
<1>4. ASSUME NEW p \in Procs, NEW q \in Pages, NEW type, Access(p, q, type)
      PROVE  Accounted'
  <2>1. \A x \in Entries : /\ pte'[x].used = pte[x].used
                           /\ pte'[x].frame = pte[x].frame
                           /\ pte'[x].loaded = pte[x].loaded
    BY <1>4, AccessEntries
  <2>2. \A g \in Frames : /\ frameTable'[g].free = frameTable[g].free
                          /\ frameTable'[g].owner = frameTable[g].owner
    BY <1>4, AccessEntries, EntryOf
  <2> QED BY <2>1, <2>2 DEF Accounted, UsedPages
<1>5. ASSUME Idle PROVE Accounted'
  BY <1>5 DEF Idle, Accounted, UsedPages
<1>6. "writeContent" \notin happened'
  BY DEF FrameMishaps
<1> QED BY <1>1, <1>2, <1>3, <1>4, <1>5, <1>6, StepKinds, DeleteReleases,
           DestroyReleases, ReleaseAccounts

\* Until a load or an eviction fails or a loaded page is faulted in again, every
\* frame that is taken holds a page in use.
THEOREM FramesAccountedForAlways == Spec => []FramesAccountedFor
<1>1. Init => FramesAccountedFor
  BY DEF Init, FramesAccountedFor, Accounted, NewFrame
<1>2. TypeOK /\ SegmentsTile /\ FramesAccountedFor /\ [Next]_vars => FramesAccountedFor'
  BY MishapsStay, StepAccounts DEF FramesAccountedFor, SegmentsTile, Spared, FrameMishaps
<1> QED BY <1>1, <1>2, TypeCorrect, SegmentsTileAlways, PTL DEF Spec

LEMMA OwnersExist ==
  ASSUME TypeOK, Tiled, Accounted, NEW f \in Frames, ~frameTable[f].free
  PROVE  OwnerExists(f)
<1>1. frameTable[f].owner \in UsedPages
  BY DEF Accounted
<1> QED BY <1>1, UsedAreEntries, NoPageIsNone DEF OwnerExists, Tiled

\* No step but a fault on a dangling owner ends in a use after free.
LEMMA UseAfterFreeStep ==
  ASSUME [Next]_vars, crash # "useAfterFree", crash' = "useAfterFree"
  PROVE  \E p \in Procs, q \in Pages : FaultOnDanglingOwner(p, q)
<1>1. ASSUME NEW p \in Procs, SegmentCall(p) PROVE crash' = crash
  BY <1>1 DEF SegmentCall, CreateSegment, LoadSegment, LoadSegmentFails
<1>2. ASSUME PeriodicJob PROVE crash' = crash
  BY <1>2 DEF PeriodicJob
<1>3. ASSUME NEW p \in Procs, CreateProcess(p) \/ DestroyProcess(p) PROVE crash' = crash
  BY <1>3 DEF CreateProcess, DestroyProcess
<1>4. ASSUME NEW p \in Procs, NEW s \in Pages, DeleteSegment(p, s)
      PROVE  crash' = crash
  BY <1>4 DEF DeleteSegment
<1>5. ASSUME NEW p \in Procs, NEW s \in Pages, DeleteSegmentCrashes(p, s)
      PROVE  crash' # "useAfterFree"
  BY <1>5 DEF DeleteSegmentCrashes
<1>6. ASSUME NEW p \in Procs, NEW q \in Pages, NEW type, Access(p, q, type)
      PROVE  crash' = crash
  BY <1>6 DEF Access
<1>7. ASSUME NEW p \in Procs, NEW q \in Pages, FaultIntoFreeFrame(p, q)
      PROVE  crash' = crash
  BY <1>7 DEF FaultIntoFreeFrame, Install
<1>8. ASSUME NEW p \in Procs, NEW q \in Pages, FaultEvictingClean(p, q)
      PROVE  crash' = crash
  BY <1>8 DEF FaultEvictingClean, Install
<1>9. ASSUME NEW p \in Procs, NEW q \in Pages, FaultEvictingDirty(p, q)
      PROVE  crash' = crash
  BY <1>9 DEF FaultEvictingDirty, Install
<1>10. ASSUME NEW p \in Procs, NEW q \in Pages, FaultWhenEvictionFails(p, q)
       PROVE  crash' = crash
  BY <1>10 DEF FaultWhenEvictionFails
<1>11. CASE UNCHANGED vars
  BY <1>11 DEF vars
<1> QED BY <1>1, <1>2, <1>3, <1>4, <1>5, <1>6, <1>7, <1>8, <1>9, <1>10, <1>11
           DEF Next, PageFault

\* An eviction finds the table of the page it evicts in place.
THEOREM EvictionNeverDanglesAlways == Spec => []EvictionNeverDangles
<1>1. Init => EvictionNeverDangles
  BY DEF Init, EvictionNeverDangles
<1>2. ASSUME TypeOK, SegmentsTile, FramesAccountedFor, EvictionNeverDangles, [Next]_vars
      PROVE  EvictionNeverDangles'
  <2> SUFFICES ASSUME Spared(FrameMishaps)', crash' = "useAfterFree" PROVE FALSE
    BY DEF EvictionNeverDangles, FrameMishaps
  <2>1. Spared(FrameMishaps) /\ Tiled /\ Accounted /\ crash # "useAfterFree"
    BY <1>2, MishapsStay
       DEF SegmentsTile, FramesAccountedFor, EvictionNeverDangles, Spared, FrameMishaps
  <2>2. PICK p \in Procs, q \in Pages : FaultOnDanglingOwner(p, q)
    BY <1>2, <2>1, UseAfterFreeStep
  <2>3. PICK f \in Frames : Evicts(p, q, f) /\ ~OwnerExists(f)
    BY <2>2 DEF FaultOnDanglingOwner
  <2> QED BY <1>2, <2>1, <2>3, OwnersExist DEF Evicts, NoneFree
<1> QED BY <1>1, <1>2, TypeCorrect, SegmentsTileAlways, FramesAccountedForAlways, PTL
       DEF Spec

-----------------------------------------------------------------------------
(* Clusters *)

\* While clusters last, the pages of a segment get clusters of their own.
LEMMA FreshClusters ==
  ASSUME TypeOK, NEW n \in Nat \ {0}, NEW cs, HandedOut(cs, n), RanOut(cs, n) = {},
         NEW i \in 0 .. n - 1
  PROVE  /\ cs[i] \in Clusters /\ cs[i] \notin bitmap
         /\ \A j \in 0 .. n - 1 : cs[i] = cs[j] => i = j
<1>1. ASSUME NEW k \in 0 .. n - 1
      PROVE  cs[k] \in Clusters /\ cs[k] \notin HandedBefore(cs, k)
  <2>1. Allocator!FirstFit(HandedBefore(cs, k), cs[k])
    BY DEF HandedOut
  <2>2. ~(Allocator!Usable \subseteq HandedBefore(cs, k))
    BY DEF RanOut
  <2>3. Allocator!Usable \subseteq Clusters
    BY DEF Allocator!Usable, Allocator!Clusters, Clusters
  <2> QED BY <2>1, <2>2, <2>3 DEF Allocator!FirstFit
<1>2. ASSUME NEW j \in 0 .. n - 1, NEW k \in 0 .. n - 1, j < k PROVE cs[j] # cs[k]
  <2>1. cs[j] \in HandedBefore(cs, k)
    BY <1>2 DEF HandedBefore
  <2> QED BY <1>1, <2>1
<1>3. cs[i] \notin bitmap
  BY <1>1 DEF HandedBefore
<1>4. ASSUME NEW j \in 0 .. n - 1, cs[i] = cs[j] PROVE i = j
  BY <1>2, <1>4
<1> QED BY <1>1, <1>3, <1>4

LEMMA SetUpPartitions ==
  ASSUME TypeOK, Tiled, Partitioned, NEW p, NEW s, NEW n, NEW rights, NEW cs,
         SetsUpSegment(p, s, n, rights, cs), "exhaustion" \notin happened'
  PROVE  /\ Partitioned'
         /\ \A e \in UsedPages, i \in 0 .. n - 1 : pte[e].cluster # cs[i]
<1> DEFINE New(e) == e = <<p, e[2]>> /\ e[2] \in s .. s + n - 1
<1>1. p \in Procs /\ s \in Pages /\ s \in Nat /\ n \in Nat \ {0}
  BY PageBounds DEF SetsUpSegment, SegmentArgs
<1>2. RanOut(cs, n) = {} /\ HandedOut(cs, n)
  BY DEF SetsUpSegment, RanOut
<1>3. ASSUME NEW i \in 0 .. n - 1
      PROVE  /\ cs[i] \in Clusters /\ cs[i] \notin bitmap
             /\ \A j \in 0 .. n - 1 : cs[i] = cs[j] => i = j
  BY <1>1, <1>2, FreshClusters
<1>4. ASSUME NEW e \in UsedPages
      PROVE  e \in UsedPages' /\ pte'[e] = pte[e] /\ pte[e].cluster \in bitmap
  BY SetUpKeeps DEF Partitioned
<1>5. ASSUME NEW e \in UsedPages', e \notin UsedPages
      PROVE  /\ New(e) /\ e[2] - s \in 0 .. n - 1
             /\ pte'[e].cluster = cs[e[2] - s]
             /\ pte'[e].cluster \in Clusters \ bitmap
  <2>1. New(e) /\ pte'[e].cluster = cs[e[2] - s]
    BY <1>5, SetUpKeeps
  <2>2. e[2] - s \in 0 .. n - 1
    BY <1>1, <2>1
  <2> QED BY <1>3, <2>1, <2>2
<1>6. ASSUME NEW d \in UsedPages', NEW e \in UsedPages',
             pte'[d].cluster = pte'[e].cluster
      PROVE  d = e
  <2>1. CASE d \in UsedPages /\ e \in UsedPages
    BY <1>4, <1>6, <2>1 DEF Partitioned
  <2>2. CASE d \in UsedPages /\ e \notin UsedPages
    BY <1>4, <1>5, <1>6, <2>2
  <2>3. CASE d \notin UsedPages /\ e \in UsedPages
    BY <1>4, <1>5, <1>6, <2>3
  <2>4. CASE d \notin UsedPages /\ e \notin UsedPages
    <3>1. d[2] - s = e[2] - s
      BY <1>3, <1>5, <1>6, <2>4
    <3>2. New(d) /\ New(e)
      BY <1>5, <2>4
    <3>3. d[2] = e[2]
      BY <1>1, <3>1, <3>2
    <3> QED BY <3>2, <3>3
  <2> QED BY <2>1, <2>2, <2>3, <2>4
<1>7. ASSUME NEW i \in 0 .. n - 1
      PROVE  \E e \in UsedPages' : pte'[e].cluster = cs[i]
  <2> DEFINE e == <<p, s + i>>
  <2>1. s + i \in s .. s + n - 1 /\ s .. s + n - 1 \subseteq Pages
    BY <1>1, SegmentInSpace DEF SetsUpSegment
  <2>2. e \in Entries /\ (s + i) - s = i
    BY <1>1, <2>1, EntryOf
  <2>3. pte'[e].used /\ pte'[e].cluster = cs[i]
    BY <2>1, <2>2, SetUpEntries DEF SetsUpSegment
  <2> QED BY <2>2, <2>3 DEF UsedPages
<1>8. bitmap' = {pte'[e].cluster : e \in UsedPages'}
  <2>1. bitmap' = bitmap \union {cs[i] : i \in 0 .. n - 1}
    BY <1>3 DEF SetsUpSegment, SetUp, HandedBefore, TypeOK
  <2>2. {pte'[e].cluster : e \in UsedPages'} \subseteq bitmap'
    BY <1>4, <1>5, <2>1
  <2>3. bitmap' \subseteq {pte'[e].cluster : e \in UsedPages'}
    BY <1>4, <1>7, <2>1 DEF Partitioned
  <2> QED BY <2>2, <2>3
<1>9. \A e \in UsedPages, i \in 0 .. n - 1 : pte[e].cluster # cs[i]
  BY <1>3, <1>4
<1> QED BY <1>6, <1>8, <1>9 DEF Partitioned

LEMMA ReleasePartitions ==
  ASSUME Partitioned, NEW es, Releases(es)
  PROVE  Partitioned'
<1>1. \A e \in UsedPages' : e \in UsedPages /\ e \notin es /\ pte'[e] = pte[e]
  BY DEF Releases
<1>2. \A d, e \in UsedPages' : pte'[d].cluster = pte'[e].cluster => d = e
  BY <1>1 DEF Partitioned
<1>3. bitmap' = {pte'[e].cluster : e \in UsedPages'}
  <2>1. bitmap' = bitmap \ {pte[e].cluster : e \in es}
    BY DEF Releases, GiveBack, ClustersOf
  <2>2. {pte'[e].cluster : e \in UsedPages'} \subseteq bitmap'
    BY <1>1, <2>1 DEF Partitioned, Releases
  <2>3. bitmap' \subseteq {pte'[e].cluster : e \in UsedPages'}
    BY <1>1, <2>1 DEF Partitioned, Releases
  <2> QED BY <2>2, <2>3
<1> QED BY <1>2, <1>3 DEF Partitioned

\* Steps after which the same pages are in use in the same clusters.
LEMMA SameClusters ==
  ASSUME Partitioned, UNCHANGED bitmap,
         \A e \in Entries : /\ pte'[e].used = pte[e].used
                            /\ pte'[e].cluster = pte[e].cluster
  PROVE  Partitioned'
BY DEF Partitioned, UsedPages

LEMMA StepPartitions ==
  ASSUME TypeOK, Tiled, Partitioned, [Next]_vars,
         happened' \intersect {"exhaustion", "writeContent"} = {}
  PROVE  Partitioned'
<1>1. ASSUME NEW p \in Procs, NEW s, NEW n, NEW rights, NEW cs,
             SetsUpSegment(p, s, n, rights, cs)
      PROVE  Partitioned'
  BY <1>1, SetUpPartitions
<1>2. ASSUME NEW p \in Procs, NEW q \in Pages,
             \/ FaultIntoFreeFrame(p, q)
             \/ FaultEvictingClean(p, q)
             \/ FaultEvictingDirty(p, q)
      PROVE  Partitioned'
  BY <1>2, FaultTakes, SameClusters DEF Takes
<1>3. ASSUME NEW p \in Procs, NEW q \in Pages, FaultWhenEvictionFails(p, q)
      PROVE  Partitioned'
  <2>1. UNCHANGED bitmap
    BY <1>3 DEF FaultWhenEvictionFails
  <2> QED BY <1>3, <2>1, FailedEviction, SameClusters
<1>4. ASSUME NEW p \in Procs, NEW q \in Pages, NEW type, Access(p, q, type)
      PROVE  Partitioned'
  <2>1. UNCHANGED bitmap
    BY <1>4 DEF Access
  <2> QED BY <1>4, <2>1, AccessEntries, SameClusters
<1>5. ASSUME Idle PROVE Partitioned'
  BY <1>5, SameClusters DEF Idle
<1> QED BY <1>1, <1>2, <1>3, <1>4, <1>5, StepKinds, DeleteReleases, DestroyReleases,
           ReleasePartitions

\* Until the swap space runs out or a load fails, every page in use has a cluster
\* of its own and the bitmap marks exactly these.
THEOREM ClusterOwnershipAlways == Spec => []ClusterOwnership
<1>1. Init => ClusterOwnership
  BY DEF Init, ClusterOwnership, Partitioned, UsedPages, ZeroEntry
<1>2. TypeOK /\ SegmentsTile /\ ClusterOwnership /\ [Next]_vars => ClusterOwnership'
  BY MishapsStay, StepPartitions DEF ClusterOwnership, SegmentsTile, Spared
<1> QED BY <1>1, <1>2, TypeCorrect, SegmentsTileAlways, PTL DEF Spec

-----------------------------------------------------------------------------
(* Clean pages can be dropped *)

CleanMatches ==
  \A e \in UsedPages : pte[e].loaded /\ ~pte[e].dirty =>
    memory[pte[e].frame] = disk[pte[e].cluster]

\* A load writes no cluster but those of the segment.
LEMMA WrittenKeeps ==
  ASSUME NEW cs, NEW content, NEW k, NEW c \in Clusters,
         \A i \in 0 .. k - 1 : cs[i] # c
  PROVE  Written(cs, content, k)[c] = disk[c]
BY DEF Written

LEMMA SetUpMatches ==
  ASSUME TypeOK, Tiled, Partitioned, CleanMatches,
         NEW p, NEW s, NEW n, NEW rights, NEW cs,
         SetsUpSegment(p, s, n, rights, cs), "exhaustion" \notin happened'
  PROVE  CleanMatches'
<1> SUFFICES ASSUME NEW e \in UsedPages', pte'[e].loaded, ~pte'[e].dirty
             PROVE  memory'[pte'[e].frame] = disk'[pte'[e].cluster]
  BY DEF CleanMatches
<1>1. e \in UsedPages /\ pte'[e] = pte[e]
  BY SetUpKeeps
<1>2. memory' = memory /\ memory[pte[e].frame] = disk[pte[e].cluster]
  BY <1>1 DEF SetsUpSegment, CleanMatches
<1>3. pte[e].cluster \in Clusters
  BY <1>1 DEF Partitioned, TypeOK
<1>4. \A i \in 0 .. n - 1 : cs[i] # pte[e].cluster
  BY <1>1, SetUpPartitions
<1>5. disk'[pte[e].cluster] = disk[pte[e].cluster]
  BY <1>3, <1>4, WrittenKeeps DEF SetsUpSegment
<1> QED BY <1>1, <1>2, <1>5

\* Neither the frame a fault fills nor the cluster it saves the old page in is
\* that of another clean page.
LEMMA FaultMatches ==
  ASSUME TypeOK, Isolated, Accounted, Partitioned, CleanMatches,
         NEW p \in Procs, NEW q \in Pages, happened' = {},
         \/ FaultIntoFreeFrame(p, q)
         \/ FaultEvictingClean(p, q)
         \/ FaultEvictingDirty(p, q)
  PROVE  CleanMatches'
<1> DEFINE e == <<p, q>>
<1>1. PICK f \in Frames :
        /\ Takes(e, f)
        /\ \/ disk' = disk
           \/ LET v == frameTable[f].owner
              IN  ~frameTable[f].free /\ pte[v].dirty /\
                  \E d : disk' = [disk EXCEPT ![pte[v].cluster] = d]
  BY FaultTakes
<1> SUFFICES ASSUME NEW x \in UsedPages', pte'[x].loaded, ~pte'[x].dirty
             PROVE  memory'[pte'[x].frame] = disk'[pte'[x].cluster]
  BY DEF CleanMatches
<1>2. /\ x \in UsedPages /\ x \in Entries /\ e \in UsedPages
      /\ pte'[x].cluster = pte[x].cluster
      /\ memory' = [memory EXCEPT ![f] = disk'[pte[e].cluster]]
  BY <1>1, UsedAreEntries DEF Takes, UsedPages
<1>3. CASE x = e
  BY <1>1, <1>2, <1>3 DEF Takes, TypeOK
<1>4. CASE x # e
  <2>1. /\ pte'[x].frame = pte[x].frame /\ pte[x].frame # f
        /\ pte[x].loaded /\ ~pte[x].dirty
        /\ frameTable[f].free \/ x # frameTable[f].owner
    <3>1. pte'[x].frame # f
      BY <1>1, <1>2, <1>4, TakesIsolates
    <3>2. /\ pte'[x].frame = pte[x].frame /\ pte'[x].dirty = pte[x].dirty
          /\ pte[x].loaded /\ (frameTable[f].free \/ x # frameTable[f].owner)
      BY <1>1, <1>2, <1>4 DEF Takes
    <3> QED BY <3>1, <3>2
  <2>2. memory'[pte[x].frame] = memory[pte[x].frame]
    BY <1>2, <2>1, FrameOfPage DEF TypeOK
  <2>3. disk'[pte[x].cluster] = disk[pte[x].cluster]
    <3>1. pte[x].cluster \in Clusters
      BY <1>2 DEF Partitioned, TypeOK
    <3>2. ASSUME ~frameTable[f].free
          PROVE  pte[frameTable[f].owner].cluster # pte[x].cluster
      BY <1>2, <2>1, <3>2 DEF Accounted, Partitioned
    <3> QED BY <1>1, <3>1, <3>2 DEF TypeOK
  <2> QED BY <1>2, <2>1, <2>2, <2>3 DEF CleanMatches
<1> QED BY <1>3, <1>4

\* A store changes one frame, whose page it makes dirty.
LEMMA AccessMatches ==
  ASSUME TypeOK, Isolated, CleanMatches, NEW p \in Procs, NEW q \in Pages,
         NEW type \in AccessTypes, Access(p, q, type)
  PROVE  CleanMatches'
<1> DEFINE e == <<p, q>>
           f == pte[e].frame
<1> SUFFICES ASSUME NEW x \in UsedPages', pte'[x].loaded, ~pte'[x].dirty
             PROVE  memory'[pte'[x].frame] = disk'[pte'[x].cluster]
  BY DEF CleanMatches
<1>1. /\ x \in UsedPages /\ pte[x].loaded /\ ~pte[x].dirty
      /\ pte'[x].frame = pte[x].frame /\ pte'[x].cluster = pte[x].cluster
  BY AccessEntries DEF UsedPages
<1>2. disk' = disk /\ e \in UsedPages /\ pte[e].loaded
  BY EntryOf DEF Access, IsValid, UsedPages
<1>3. CASE SetsDirty(type)
  <2>1. x # e
    BY <1>1, <1>2, <1>3, UsedAreEntries DEF Access, TypeOK, PageTableEntries
  <2>2. pte[x].frame # f
    BY <1>1, <1>2, <2>1 DEF Isolated
  <2>3. memory'[pte[x].frame] = memory[pte[x].frame]
    BY <1>1, <1>2, <2>2, FrameOfPage DEF Access, TypeOK
  <2> QED BY <1>1, <1>2, <2>3 DEF CleanMatches
<1>4. CASE ~SetsDirty(type)
  BY <1>1, <1>2, <1>4 DEF Access, Stores, SetsDirty, CleanMatches
<1> QED BY <1>3, <1>4

LEMMA ReleaseMatches ==
  ASSUME CleanMatches, NEW es, Releases(es)
  PROVE  CleanMatches'
BY DEF CleanMatches, Releases

LEMMA StepMatches ==
  ASSUME TypeOK, Tiled, Isolated, Accounted, Partitioned, CleanMatches,
         [Next]_vars, happened' = {}
  PROVE  CleanMatches'
<1>1. ASSUME NEW p \in Procs, NEW s, NEW n, NEW rights, NEW cs,
             SetsUpSegment(p, s, n, rights, cs)
      PROVE  CleanMatches'
  BY <1>1, SetUpMatches
<1>2. ASSUME NEW p \in Procs, NEW q \in Pages, FaultWhenEvictionFails(p, q)
      PROVE  FALSE
  BY <1>2 DEF FaultWhenEvictionFails
<1>3. ASSUME Idle PROVE CleanMatches'
  BY <1>3 DEF Idle, CleanMatches, UsedPages
<1> QED BY <1>1, <1>2, <1>3, StepKinds, DeleteReleases, DestroyReleases,
           ReleaseMatches, FaultMatches, AccessMatches

\* With nothing failing, a page that is loaded and clean is on disk as it is in
\* its frame: dropping it loses nothing.
THEOREM CleanPageMatchesDiskAlways == Spec => []CleanPageMatchesDisk
<1>1. Init => CleanPageMatchesDisk
  BY DEF Init, CleanPageMatchesDisk, UsedPages, ZeroEntry
<1>2. ASSUME TypeOK, SegmentsTile, PageIsolation, FramesAccountedFor,
             ClusterOwnership, CleanPageMatchesDisk, [Next]_vars
      PROVE  CleanPageMatchesDisk'
  <2> SUFFICES ASSUME happened' = {} PROVE CleanMatches'
    BY DEF CleanPageMatchesDisk, CleanMatches
  <2>1. happened = {}
    BY <1>2, MishapsStay
  <2>2. Tiled /\ Isolated /\ Accounted /\ Partitioned /\ CleanMatches
    BY <1>2, <2>1 DEF SegmentsTile, PageIsolation, FramesAccountedFor,
       ClusterOwnership, CleanPageMatchesDisk, CleanMatches, Spared
  <2> QED BY <1>2, <2>2, StepMatches
<1> QED BY <1>1, <1>2, TypeCorrect, SegmentsTileAlways, PageIsolationAlways,
           FramesAccountedForAlways, ClusterOwnershipAlways, PTL DEF Spec
-----------------------------------------------------------------------------
(* What a step does to the pages it is not about *)

ClusterMishaps == {"exhaustion", "writeEvicted", "refault"}

\* A page that stays as it is keeps what it has when its frame and cluster do.
LEMMA SameKeeps ==
  ASSUME NEW e, pte'[e].used, pte'[e] = pte[e], memory' = memory,
         Spared(ClusterMishaps)' => disk'[pte[e].cluster] = disk[pte[e].cluster]
  PROVE  Keeps(e)
BY DEF Keeps, ClusterMishaps

LEMMA SetUpSpares ==
  ASSUME TypeOK, Tiled, "exhaustion" \notin happened' => Partitioned,
         NEW p, NEW s, NEW n, NEW rights, NEW cs,
         SetsUpSegment(p, s, n, rights, cs), NEW e \in UsedPages
  PROVE  Keeps(e)
<1>1. pte'[e].used /\ pte'[e] = pte[e] /\ memory' = memory
  BY SetUpKeeps DEF SetsUpSegment, UsedPages
<1>2. ASSUME Spared(ClusterMishaps)'
      PROVE  disk'[pte[e].cluster] = disk[pte[e].cluster]
  <2>1. Partitioned /\ "exhaustion" \notin happened'
    BY <1>2 DEF Spared, ClusterMishaps
  <2>2. pte[e].cluster \in Clusters /\ \A i \in 0 .. n - 1 : cs[i] # pte[e].cluster
    BY <2>1, SetUpPartitions DEF Partitioned, TypeOK
  <2> QED BY <2>2, WrittenKeeps DEF SetsUpSegment
<1> QED BY <1>1, <1>2, SameKeeps

LEMMA ReleaseSpares ==
  ASSUME NEW es, Releases(es), NEW e \in UsedPages \ es
  PROVE  Keeps(e)
<1>1. e \in UsedPages' /\ pte'[e] = pte[e] /\ memory' = memory /\ disk' = disk
  BY DEF Releases
<1>2. pte'[e].used
  BY <1>1 DEF UsedPages
<1> QED BY <1>1, <1>2, SameKeeps

\* The frame a fault fills is no longer that of another page, and the cluster it
\* writes, if any, is that of the page that had the frame.
LEMMA FaultSpares ==
  ASSUME TypeOK, Isolated, Spared(ClusterMishaps)' => Accounted /\ Partitioned,
         NEW p \in Procs, NEW q \in Pages,
         \/ FaultIntoFreeFrame(p, q)
         \/ FaultEvictingClean(p, q)
         \/ FaultEvictingDirty(p, q),
         NEW x \in UsedPages, x # <<p, q>>
  PROVE  Keeps(x)
<1>1. PICK f \in Frames :
        /\ Takes(<<p, q>>, f)
        /\ \/ disk' = disk
           \/ LET v == frameTable[f].owner
              IN  ~frameTable[f].free /\ pte[v].dirty /\
                  \E d : disk' = [disk EXCEPT ![pte[v].cluster] = d]
  BY FaultTakes
<1>2. /\ pte'[x].used /\ pte'[x].rights = pte[x].rights
      /\ pte'[x].size = pte[x].size /\ pte'[x].cluster = pte[x].cluster
  BY <1>1, UsedAreEntries DEF Takes
<1>3. ASSUME pte'[x].loaded
      PROVE  /\ pte[x].loaded
             /\ pte'[x].frame = pte[x].frame
             /\ memory'[pte[x].frame] = memory[pte[x].frame]
  <2>1. pte[x].loaded /\ pte'[x].frame = pte[x].frame
    BY <1>1, <1>3, UsedAreEntries DEF Takes
  <2>2. pte[x].frame \in Frames /\ pte[x].frame # f
    BY <1>1, <1>3, <2>1, FrameOfPage, TakesIsolates
  <2> QED BY <1>1, <2>1, <2>2 DEF Takes
<1>4. ASSUME Spared(ClusterMishaps)'
      PROVE  \/ disk'[pte[x].cluster] = disk[pte[x].cluster]
             \/ pte[x].loaded /\ pte[x].dirty /\ ~pte'[x].loaded
  <2>1. Accounted /\ Partitioned
    BY <1>4
  <2>2. CASE disk' = disk
    BY <2>2
  <2>3. CASE disk' # disk
    <3> DEFINE v == frameTable[f].owner
    <3>1. PICK d : /\ ~frameTable[f].free /\ pte[v].dirty
                   /\ disk' = [disk EXCEPT ![pte[v].cluster] = d]
      BY <1>1, <2>3
    <3>2. v \in UsedPages /\ pte[v].loaded
      BY <2>1, <3>1 DEF Accounted
    <3>3. CASE x = v
      BY <1>1, <3>1, <3>2, <3>3, UsedAreEntries DEF Takes
    <3>4. CASE x # v
      <4>1. pte[x].cluster # pte[v].cluster /\ pte[x].cluster \in Clusters
        BY <2>1, <3>2, <3>4 DEF Partitioned, TypeOK
      <4> QED BY <3>1, <4>1 DEF TypeOK
    <3> QED BY <3>3, <3>4
  <2> QED BY <2>2, <2>3
<1> QED BY <1>2, <1>3, <1>4 DEF Keeps, ClusterMishaps

LEMMA FailedEvictionSpares ==
  ASSUME TypeOK, NEW p \in Procs, NEW q \in Pages, FaultWhenEvictionFails(p, q),
         NEW x \in UsedPages
  PROVE  Keeps(x)
<1>1. x \in Entries /\ pte[x].used
  BY UsedAreEntries
<1> QED BY <1>1, FailedEviction DEF Keeps

LEMMA AccessSpares ==
  ASSUME TypeOK, Isolated, NEW p \in Procs, NEW q \in Pages, NEW type,
         Access(p, q, type), NEW x \in UsedPages, x # <<p, q>>
  PROVE  Keeps(x)
<1> DEFINE e == <<p, q>>
           f == pte[e].frame
<1>1. /\ pte'[x].used /\ pte'[x].rights = pte[x].rights
      /\ pte'[x].size = pte[x].size /\ pte'[x].cluster = pte[x].cluster
      /\ pte'[x].loaded = pte[x].loaded /\ pte'[x].frame = pte[x].frame
  BY AccessEntries, UsedAreEntries
<1>2. disk' = disk /\ e \in UsedPages /\ pte[e].loaded
  BY EntryOf DEF Access, IsValid, UsedPages
<1>3. ASSUME pte[x].loaded PROVE memory'[pte[x].frame] = memory[pte[x].frame]
  <2>1. pte[x].frame # f
    BY <1>2, <1>3 DEF Isolated
  <2>2. memory' = memory \/ \E d \in Data : memory' = [memory EXCEPT ![f] = d]
    BY DEF Access
  <2> QED BY <2>1, <2>2, FrameOfPage DEF TypeOK
<1> QED BY <1>1, <1>2, <1>3 DEF Keeps

LEMMA StepSpares ==
  ASSUME TypeOK, Tiled, Isolated, "exhaustion" \notin happened' => Partitioned,
         Spared(ClusterMishaps)' => Accounted /\ Partitioned,
         [Next]_vars, "writeContent" \notin happened',
         NEW d \in UsedPages, NEW e \in UsedPages, d[1] # e[1]
  PROVE  Keeps(d) \/ Keeps(e)
<1>1. ASSUME NEW p \in Procs, NEW s, NEW n, NEW rights, NEW cs,
             SetsUpSegment(p, s, n, rights, cs)
      PROVE  Keeps(d)
  BY <1>1, SetUpSpares
<1>2. ASSUME NEW p \in Procs, NEW es, Releases(es), \A x \in es : x[1] = p
      PROVE  Keeps(d) \/ Keeps(e)
  <2>1. d \notin es \/ e \notin es
    BY <1>2
  <2> QED BY <1>2, <2>1, ReleaseSpares
<1>3. ASSUME NEW p \in Procs, NEW s \in Pages, DeleteSegment(p, s)
      PROVE  Keeps(d) \/ Keeps(e)
  <2>1. \A x \in SegmentAt(p, s) : x[1] = p
    BY DEF SegmentAt
  <2> QED BY <1>2, <1>3, <2>1, DeleteReleases
<1>4. ASSUME NEW p \in Procs, DestroyProcess(p)
      PROVE  Keeps(d) \/ Keeps(e)
  <2>1. \A x \in UsedEntries(p) : x[1] = p
    BY DEF UsedEntries
  <2> QED BY <1>2, <1>4, <2>1, DestroyReleases
<1>5. ASSUME NEW p \in Procs, NEW q \in Pages,
             \/ FaultIntoFreeFrame(p, q)
             \/ FaultEvictingClean(p, q)
             \/ FaultEvictingDirty(p, q)
      PROVE  Keeps(d) \/ Keeps(e)
  <2>1. d # <<p, q>> \/ e # <<p, q>>
    OBVIOUS
  <2> QED BY <1>5, <2>1, FaultSpares
<1>6. ASSUME NEW p \in Procs, NEW q \in Pages, FaultWhenEvictionFails(p, q)
      PROVE  Keeps(d)
  BY <1>6, FailedEvictionSpares
<1>7. ASSUME NEW p \in Procs, NEW q \in Pages, NEW type, Access(p, q, type)
      PROVE  Keeps(d) \/ Keeps(e)
  <2>1. d # <<p, q>> \/ e # <<p, q>>
    OBVIOUS
  <2> QED BY <1>7, <2>1, AccessSpares
<1>8. ASSUME Idle PROVE Keeps(d)
  <2>1. pte'[d].used /\ pte' = pte /\ memory' = memory /\ disk' = disk
    BY <1>8, UsedAreEntries DEF Idle
  <2> QED BY <2>1, SameKeeps
<1> QED BY <1>1, <1>3, <1>4, <1>5, <1>6, <1>7, <1>8, StepKinds

\* Until a load of a segment fails, no step touches pages of two processes but by
\* taking a frame from one of them, whatever else goes wrong; and until the swap space
\* runs out, an eviction fails or a loaded page is faulted in again, the clusters of
\* the pages it is not about stay as they are too.
THEOREM OthersKeepTheirPagesAlways == Spec => OthersKeepTheirPages
<1>1. ASSUME TypeOK, SegmentsTile, PageIsolation, FramesAccountedFor, ClusterOwnership,
             [Next]_vars
      PROVE  Spared({"writeContent"})' =>
               \A d, e \in UsedPages : d[1] # e[1] => Keeps(d) \/ Keeps(e)
  <2> SUFFICES ASSUME Spared({"writeContent"})', NEW d \in UsedPages, NEW e \in UsedPages,
                      d[1] # e[1]
               PROVE  Keeps(d) \/ Keeps(e)
    OBVIOUS
  <2>1. "writeContent" \notin happened' /\ happened \subseteq happened'
    BY <1>1, MishapsStay DEF Spared
  <2>2. Tiled /\ Isolated
    BY <1>1, <2>1 DEF SegmentsTile, PageIsolation, Spared
  <2>3. "exhaustion" \notin happened' => Partitioned
    BY <1>1, <2>1 DEF ClusterOwnership, Spared
  <2>4. Spared(ClusterMishaps)' => Accounted /\ Partitioned
    BY <1>1, <2>1, <2>3 DEF FramesAccountedFor, Spared, ClusterMishaps
  <2> QED BY <1>1, <2>1, <2>2, <2>3, <2>4, StepSpares
<1> QED BY <1>1, TypeCorrect, SegmentsTileAlways, PageIsolationAlways,
           FramesAccountedForAlways, ClusterOwnershipAlways, PTL
       DEF Spec, OthersKeepTheirPages

-----------------------------------------------------------------------------
(* Slabs: a count over all processes and tables *)

Alive == {p \in Procs : proc[p] = "live"}
Taken == {x \in Procs \X Tables : x[2] \in tables[x[1]]}

\* What SlabsConserved counts is finite, however many processes there may be.
Conserved ==
  /\ IsFiniteSet(Alive)
  /\ IsFiniteSet(Taken)
  /\ freeSlabs + Cardinality(Alive) + Cardinality(Taken) = TotalSlabs

\* The tables of one process, as pairs and as numbers, are equally many.
LEMMA TablesAsPairs ==
  ASSUME NEW p, NEW M, IsFiniteSet(M)
  PROVE  IsFiniteSet({p} \X M) /\ Cardinality({p} \X M) = Cardinality(M)
<1> DEFINE pair == [t \in M |-> <<p, t>>]
<1>1. pair \in [M -> {p} \X M]
  OBVIOUS
<1>2. \A a, b \in M : pair[a] = pair[b] => a = b
  OBVIOUS
<1>3. \A x \in {p} \X M : \E t \in M : pair[t] = x
  OBVIOUS
<1>4. pair \in Bijection(M, {p} \X M)
  BY <1>1, <1>2, <1>3, Fun_IsBij
<1> QED BY <1>4, FS_Bijection, Fun_ExistsBij

\* Both sets count on their own: a step that changes neither conserves slabs.
LEMMA SameSlabs ==
  ASSUME Conserved, UNCHANGED <<proc, tables, freeSlabs>>
  PROVE  Conserved'
<1>1. Alive' = Alive /\ Taken' = Taken
  BY DEF Alive, Taken
<1> QED BY <1>1 DEF Conserved

LEMMA CreateConserves ==
  ASSUME TypeOK, Conserved, NEW p \in Procs, CreateProcess(p)
  PROVE  Conserved'
<1>1. Alive' = Alive \union {p} /\ p \notin Alive
  BY DEF CreateProcess, Alive, TypeOK
<1>2. Taken' = Taken /\ freeSlabs' = freeSlabs - 1 /\ freeSlabs \in Nat
  BY DEF CreateProcess, Taken, TypeOK
<1>3. Cardinality(Alive) \in Nat /\ Cardinality(Taken) \in Nat
  BY FS_CardinalityType DEF Conserved
<1>4. IsFiniteSet(Alive') /\ Cardinality(Alive') = Cardinality(Alive) + 1
  BY <1>1, FS_AddElement DEF Conserved
<1>5. Cardinality(Taken') = Cardinality(Taken) /\ IsFiniteSet(Taken')
  BY <1>2 DEF Conserved
<1> QED BY <1>2, <1>3, <1>4, <1>5, VirtualMemoryAssumption DEF Conserved

LEMMA SetUpConserves ==
  ASSUME TypeOK, Conserved, NEW p \in Procs, NEW s \in Pages, NEW n \in Nat \ {0},
         NEW k \in 1 .. n, NEW rights, NEW cs, Allocatable(p, s, n),
         SetUp(p, s, n, k, rights, cs), proc' = proc
  PROVE  Conserved'
<1> DEFINE M == MissingTables(p, s .. s + k - 1)
<1>1. s .. s + k - 1 \subseteq Pages
  BY SegmentInSpace, PageBounds
<1>2. M \subseteq Tables /\ IsFiniteSet(M) /\ Cardinality(M) \in Nat
  BY <1>1, MissingIsFinite
<1>3. M \intersect tables[p] = {}
  BY DEF MissingTables
<1>4. tables' = [tables EXCEPT ![p] = @ \union M] /\ freeSlabs' = freeSlabs - Cardinality(M)
  BY DEF SetUp
<1> HIDE DEF M
<1>5. Taken' = Taken \union ({p} \X M) /\ Taken \intersect ({p} \X M) = {}
  BY <1>2, <1>3, <1>4 DEF Taken, TypeOK
<1>6. IsFiniteSet({p} \X M) /\ Cardinality({p} \X M) = Cardinality(M)
  BY <1>2, TablesAsPairs
<1>7. Cardinality(Alive) \in Nat /\ Cardinality(Taken) \in Nat /\ freeSlabs \in Nat
  BY FS_CardinalityType DEF Conserved, TypeOK
<1>8. /\ IsFiniteSet(Taken')
      /\ Cardinality(Taken') = Cardinality(Taken) + Cardinality(M)
  <2>1. IsFiniteSet(Taken) /\ IsFiniteSet({p} \X M)
    BY <1>6 DEF Conserved
  <2>2. /\ IsFiniteSet(Taken \union ({p} \X M))
        /\ Cardinality(Taken \union ({p} \X M)) =
             Cardinality(Taken) + Cardinality({p} \X M)
               - Cardinality(Taken \intersect ({p} \X M))
    BY <2>1, FS_Union
  <2>3. Cardinality(Taken \intersect ({p} \X M)) = 0
    BY <1>5, FS_EmptySet
  <2> QED BY <1>2, <1>5, <1>6, <1>7, <2>2, <2>3
<1>9. Alive' = Alive
  BY DEF Alive
<1>10. IsFiniteSet(Alive') /\ Cardinality(Alive') = Cardinality(Alive)
  BY <1>9 DEF Conserved
<1> QED BY <1>2, <1>4, <1>7, <1>8, <1>10, VirtualMemoryAssumption DEF Conserved

LEMMA DestroyConserves ==
  ASSUME TypeOK, Conserved, NEW p \in Procs, DestroyProcess(p)
  PROVE  Conserved'
<1> DEFINE M == tables[p]
<1>1. M \subseteq Tables /\ IsFiniteSet(M) /\ Cardinality(M) \in Nat
  <2>1. IsFiniteSet(Tables) /\ M \in SUBSET Tables
    BY VirtualMemoryAssumption, FS_Interval DEF Tables, TypeOK
  <2> QED BY <2>1, FS_Subset, FS_CardinalityType
<1>2. /\ tables' = [tables EXCEPT ![p] = {}] /\ proc' = [proc EXCEPT ![p] = "dead"]
      /\ freeSlabs' = freeSlabs + Cardinality(M) + 1 /\ proc[p] = "live"
  BY DEF DestroyProcess, Running
<1>3. Taken' = Taken \ ({p} \X M) /\ Taken \intersect ({p} \X M) = {p} \X M
  BY <1>1, <1>2 DEF Taken, TypeOK
<1>4. Alive' = Alive \ {p} /\ p \in Alive
  BY <1>2 DEF Alive, TypeOK
<1> HIDE DEF M
<1>5. Cardinality({p} \X M) = Cardinality(M)
  BY <1>1, TablesAsPairs
<1>6. Cardinality(Alive) \in Nat /\ Cardinality(Taken) \in Nat /\ freeSlabs \in Nat
  BY FS_CardinalityType DEF Conserved, TypeOK
<1>7. IsFiniteSet(Taken') /\ Cardinality(Taken') = Cardinality(Taken) - Cardinality(M)
  <2>1. IsFiniteSet(Taken)
    BY DEF Conserved
  <2>2. /\ IsFiniteSet(Taken \ ({p} \X M))
        /\ Cardinality(Taken \ ({p} \X M)) =
             Cardinality(Taken) - Cardinality(Taken \intersect ({p} \X M))
    BY <2>1, FS_Difference
  <2> QED BY <1>3, <1>5, <2>2
<1>8. IsFiniteSet(Alive') /\ Cardinality(Alive') = Cardinality(Alive) - 1
  BY <1>4, FS_RemoveElement DEF Conserved
<1> QED BY <1>1, <1>2, <1>6, <1>7, <1>8, VirtualMemoryAssumption DEF Conserved

LEMMA SegmentConserves ==
  ASSUME TypeOK, Conserved, NEW p \in Procs, SegmentCall(p)
  PROVE  Conserved'
<1>1. PICK s \in Pages, n \in SegmentSizes, rights \in SegmentRights :
        \/ CreateSegment(p, s, n, rights)
        \/ \E content \in [0 .. n - 1 -> Data] :
             \/ LoadSegment(p, s, n, rights, content)
             \/ \E k \in 1 .. n : LoadSegmentFails(p, s, n, rights, content, k)
  BY DEF SegmentCall
<1>2. n \in Nat \ {0} /\ n \in 1 .. n
  BY VirtualMemoryAssumption
<1>3. CASE CreateSegment(p, s, n, rights)
  <2>1. PICK cs : SetUp(p, s, n, n, rights, cs) /\ Allocatable(p, s, n) /\ proc' = proc
    BY <1>3 DEF CreateSegment
  <2> QED BY <1>2, <2>1, SetUpConserves
<1>4. ASSUME NEW content, LoadSegment(p, s, n, rights, content) PROVE Conserved'
  <2>1. PICK cs : SetUp(p, s, n, n, rights, cs) /\ Allocatable(p, s, n) /\ proc' = proc
    BY <1>4 DEF LoadSegment
  <2> QED BY <1>2, <2>1, SetUpConserves
<1>5. ASSUME NEW content, NEW k \in 1 .. n, LoadSegmentFails(p, s, n, rights, content, k)
      PROVE  Conserved'
  <2>1. PICK cs : SetUp(p, s, n, k, rights, cs) /\ Allocatable(p, s, n) /\ proc' = proc
    BY <1>5 DEF LoadSegmentFails
  <2> QED BY <1>2, <2>1, SetUpConserves
<1> QED BY <1>1, <1>3, <1>4, <1>5

\* Only the three calls above move slabs.
LEMMA OthersKeepSlabs ==
  ASSUME [Next]_vars,
         \A p \in Procs : ~CreateProcess(p) /\ ~DestroyProcess(p) /\ ~SegmentCall(p)
  PROVE  UNCHANGED <<proc, tables, freeSlabs>>
<1>1. ASSUME NEW p \in Procs, PageFault(p) PROVE UNCHANGED <<proc, tables, freeSlabs>>
  <2>1. ASSUME NEW q \in Pages, FaultIntoFreeFrame(p, q)
        PROVE  UNCHANGED <<proc, tables, freeSlabs>>
    BY <2>1 DEF FaultIntoFreeFrame, Install
  <2>2. ASSUME NEW q \in Pages, FaultEvictingClean(p, q)
        PROVE  UNCHANGED <<proc, tables, freeSlabs>>
    BY <2>2 DEF FaultEvictingClean, Install
  <2>3. ASSUME NEW q \in Pages, FaultEvictingDirty(p, q)
        PROVE  UNCHANGED <<proc, tables, freeSlabs>>
    BY <2>3 DEF FaultEvictingDirty, Install
  <2>4. ASSUME NEW q \in Pages, FaultWhenEvictionFails(p, q) \/ FaultOnDanglingOwner(p, q)
        PROVE  UNCHANGED <<proc, tables, freeSlabs>>
    BY <2>4 DEF FaultWhenEvictionFails, FaultOnDanglingOwner
  <2> QED BY <1>1, <2>1, <2>2, <2>3, <2>4 DEF PageFault
<1>2. ASSUME NEW p \in Procs, NEW s \in Pages,
             DeleteSegment(p, s) \/ DeleteSegmentCrashes(p, s)
      PROVE  UNCHANGED <<proc, tables, freeSlabs>>
  BY <1>2 DEF DeleteSegment, DeleteSegmentCrashes
<1>3. ASSUME NEW p \in Procs, NEW q \in Pages, NEW type, Access(p, q, type)
      PROVE  UNCHANGED <<proc, tables, freeSlabs>>
  BY <1>3 DEF Access
<1>4. CASE PeriodicJob \/ UNCHANGED vars
  BY <1>4 DEF PeriodicJob, vars
<1> QED BY <1>1, <1>2, <1>3, <1>4 DEF Next

LEMMA InitConserves == Init => Conserved
<1> SUFFICES ASSUME Init PROVE Conserved
  OBVIOUS
<1>1. Alive = {} /\ Taken = {} /\ freeSlabs = TotalSlabs
  BY DEF Init, Alive, Taken
<1> QED BY <1>1, FS_EmptySet, VirtualMemoryAssumption DEF Conserved

\* Slabs are neither lost nor invented: a slab is free or holds the first-level
\* table of a live process or one of its second-level tables.
THEOREM SlabsConservedAlways == Spec => []SlabsConserved
<1>1. TypeOK /\ Conserved /\ [Next]_vars => Conserved'
  BY CreateConserves, DestroyConserves, SegmentConserves, OthersKeepSlabs, SameSlabs
<1>2. Conserved => SlabsConserved
  BY DEF Conserved, SlabsConserved, Alive, Taken
<1> QED BY <1>1, <1>2, InitConserves, TypeCorrect, PTL DEF Spec
-----------------------------------------------------------------------------
(* DemandPaging implements AddressSpace *)

Writable == {e \in UsedPages : pte[e].rights \in {"WRITE", "READ_WRITE"}}
Unsaved == {e \in UsedPages : pte[e].loaded /\ pte[e].dirty}

LEMMA ViewOf ==
  ASSUME NEW e \in Entries
  PROVE  View[e] = IF e \notin UsedPages THEN Unmapped
                   ELSE IF pte[e].loaded THEN memory[pte[e].frame]
                   ELSE disk[pte[e].cluster]
BY DEF View, UsedPages

LEMMA ViewOfAfter ==
  ASSUME NEW e \in Entries
  PROVE  View'[e] = IF e \notin UsedPages' THEN Unmapped
                    ELSE IF pte'[e].loaded THEN memory'[pte'[e].frame]
                    ELSE disk'[pte'[e].cluster]
BY DEF View, UsedPages

LEMMA ViewIsFunction ==
  View = [e \in Entries |-> View[e]] /\ View' = [e \in Entries |-> View'[e]]
BY DEF View

\* The abstract state of two program states that look the same.
LEMMA SameView ==
  ASSUME \A e \in Entries : View'[e] = View[e], Writable' = Writable, Unsaved' = Unsaved
  PROVE  UNCHANGED A!vars
<1>1. View' = View
  BY ViewIsFunction
<1> QED BY <1>1 DEF A!vars, Writable, Unsaved

LEMMA ContentsOfPages ==
  ASSUME TypeOK, TypeOK', Partitioned', NEW e \in UsedPages'
  PROVE  View'[e] \in Contents
<1>1. e \in Entries /\ pte'[e].frame \in Frames
  BY DEF UsedPages, TypeOK, PageTableEntries
<1>2. pte'[e].cluster \in Clusters
  BY DEF Partitioned, TypeOK
<1> QED BY <1>1, <1>2, ViewOfAfter DEF TypeOK
-----------------------------------------------------------------------------
(* Segments appear and go *)

LEMMA SetUpMaps ==
  ASSUME TypeOK, TypeOK', Tiled, Partitioned, NEW p, NEW s, NEW n, NEW rights, NEW cs,
         SetsUpSegment(p, s, n, rights, cs), "exhaustion" \notin happened'
  PROVE  A!Next
<1>0. PICK S : S = UsedPages' \ UsedPages
  OBVIOUS
<1>1. \A e \in UsedPages : e \in UsedPages' /\ pte'[e] = pte[e]
  BY SetUpKeeps
<1>2. \A e \in S : ~pte'[e].loaded /\ pte'[e].rights = rights
  BY <1>0, SetUpKeeps
<1>3. /\ Partitioned'
      /\ \A e \in UsedPages, i \in 0 .. n - 1 : pte[e].cluster # cs[i]
  BY SetUpPartitions
<1>4. S \subseteq Entries
  BY <1>0 DEF UsedPages
<1>5. ASSUME NEW e \in Entries \ S PROVE View'[e] = View[e]
  <2>1. CASE e \in UsedPages
    <3>1. pte[e].cluster \in Clusters
      BY <2>1 DEF Partitioned, TypeOK
    <3>2. disk'[pte[e].cluster] = disk[pte[e].cluster]
      BY <1>3, <2>1, <3>1, WrittenKeeps DEF SetsUpSegment
    <3>3. memory' = memory
      BY DEF SetsUpSegment
    <3> QED BY <1>1, <2>1, <3>2, <3>3, ViewOf, ViewOfAfter
  <2>2. CASE e \notin UsedPages
    BY <1>0, <1>5, <2>2, ViewOf, ViewOfAfter
  <2> QED BY <2>1, <2>2
<1>6. ASSUME NEW e \in S PROVE View'[e] \in Contents
  BY <1>0, <1>3, <1>6, ContentsOfPages
<1>7. \A e \in S : View[e] = Unmapped
  BY <1>0, <1>4, ViewOf
<1>8. Writable' \in {Writable, Writable \union S}
  <2>1. CASE rights \in {"WRITE", "READ_WRITE"}
    BY <1>0, <1>1, <1>2, <2>1 DEF Writable
  <2>2. CASE rights \notin {"WRITE", "READ_WRITE"}
    BY <1>0, <1>1, <1>2, <2>2 DEF Writable
  <2> QED BY <2>1, <2>2
<1>9. Unsaved' = Unsaved
  BY <1>0, <1>1, <1>2 DEF Unsaved
<1>10. A!MapSegment(S)
  BY <1>4, <1>5, <1>6, <1>7, <1>8, <1>9 DEF A!MapSegment, A!Mapped, Writable, Unsaved
<1>11. \E T \in SUBSET Entries : A!MapSegment(T)
  BY <1>4, <1>10
<1> QED BY <1>11 DEF A!Next

LEMMA ReleaseUnmaps ==
  ASSUME NEW es, Releases(es)
  PROVE  A!Next
<1>1. es \subseteq UsedPages /\ es \subseteq Entries /\ UsedPages' = UsedPages \ es
  BY DEF Releases, UsedPages
<1>2. \A e \in UsedPages' : pte'[e] = pte[e]
  BY DEF Releases
<1>3. memory' = memory /\ disk' = disk
  BY DEF Releases
<1>4. ASSUME NEW e \in Entries
      PROVE  View'[e] = IF e \in es THEN Unmapped ELSE View[e]
  BY <1>1, <1>2, <1>3, ViewOf, ViewOfAfter
<1>5. View' = [e \in Entries |-> IF e \in es THEN Unmapped ELSE View[e]]
  BY <1>4, ViewIsFunction
<1>6. Writable' = Writable \ es /\ Unsaved' = Unsaved \ es
  BY <1>1, <1>2 DEF Writable, Unsaved
<1>7. A!Unmap(es)
  BY <1>5, <1>6 DEF A!Unmap, Writable, Unsaved
<1> QED BY <1>1, <1>7 DEF A!Next
-----------------------------------------------------------------------------
(* Access, with its store *)

LEMMA AccessStores ==
  ASSUME TypeOK, Isolated, NEW p \in Procs, NEW q \in Pages,
         NEW type \in AccessTypes, Access(p, q, type)
  PROVE  A!Next \/ UNCHANGED A!vars
<1>0. PICK e : e = <<p, q>>
  OBVIOUS
<1> DEFINE f == pte[e].frame
<1>1. /\ e \in UsedPages /\ e \in Entries /\ pte[e].loaded /\ disk' = disk
      /\ Grants(pte[e].rights, type) /\ f \in Frames
  BY <1>0, EntryOf, FrameOfPage DEF Access, IsValid, UsedPages
<1>2. ASSUME NEW x \in Entries
      PROVE  /\ pte'[x].used = pte[x].used /\ pte'[x].loaded = pte[x].loaded
             /\ pte'[x].frame = pte[x].frame /\ pte'[x].cluster = pte[x].cluster
             /\ pte'[x].rights = pte[x].rights
  BY AccessEntries
<1>3. UsedPages' = UsedPages /\ Writable' = Writable
  BY <1>2 DEF UsedPages, Writable
<1>4. CASE SetsDirty(type)
  <2>1. PICK d \in Data : memory' = [memory EXCEPT ![f] = d]
    BY <1>0, <1>4 DEF Access, SetsDirty, Stores
  <2>2. pte' = [pte EXCEPT ![e].dirty = TRUE]
    BY <1>0, <1>4 DEF Access
  <2>3. View'[e] = d
    BY <1>1, <1>2, <1>3, <2>1, ViewOfAfter DEF TypeOK
  <2>4. ASSUME NEW x \in Entries, x # e PROVE View'[x] = View[x]
    <3>1. CASE x \in UsedPages /\ pte[x].loaded
      <4>1. pte[x].frame \in Frames \ {f}
        BY <1>1, <2>4, <3>1, FrameOfPage DEF Isolated
      <4> QED BY <1>2, <1>3, <2>1, <3>1, <4>1, ViewOf, ViewOfAfter DEF TypeOK
    <3>2. CASE ~(x \in UsedPages /\ pte[x].loaded)
      BY <1>1, <1>2, <1>3, <3>2, ViewOf, ViewOfAfter
    <3> QED BY <3>1, <3>2
  <2>5. View' = [View EXCEPT ![e] = d]
    BY <1>1, <2>3, <2>4, ViewIsFunction
  <2>6. Unsaved' = Unsaved \union {e}
    <3>1. ASSUME NEW x \in Entries
          PROVE  pte'[x].dirty = (x = e \/ pte[x].dirty)
      BY <1>1, <2>2 DEF TypeOK, PageTableEntries
    <3> QED BY <1>1, <1>2, <1>3, <3>1 DEF Unsaved, UsedPages
  <2>7. e \in Writable
    BY <1>1, <1>4 DEF Grants, SetsDirty, Writable
  <2>8. A!Store(e, d)
    BY <1>3, <2>5, <2>6, <2>7 DEF A!Store, Writable, Unsaved
  <2> QED BY <1>1, <2>1, <2>8 DEF A!Next
<1>5. CASE ~SetsDirty(type)
  <2>1. memory' = memory /\ pte' = pte
    BY <1>0, <1>5 DEF Access, SetsDirty, Stores
  <2>2. Unsaved' = Unsaved
    BY <1>3, <2>1 DEF Unsaved
  <2>3. \A x \in Entries : View'[x] = View[x]
    BY <1>1, <1>3, <2>1, ViewOf, ViewOfAfter
  <2> QED BY <1>3, <2>2, <2>3, SameView
<1> QED BY <1>4, <1>5
-----------------------------------------------------------------------------
(* A page fault *)

\* What programs see of the page that is brought in, and of every other page but
\* the one that loses its frame, stays.
LEMMA FaultKeepsView ==
  ASSUME TypeOK, Isolated, Accounted, Partitioned, happened' = {},
         NEW e, NEW f \in Frames, Takes(e, f),
         \/ disk' = disk
         \/ LET v == frameTable[f].owner
            IN  ~frameTable[f].free /\ pte[v].dirty /\
                \E d : disk' = [disk EXCEPT ![pte[v].cluster] = d],
         NEW x \in Entries, frameTable[f].free \/ x # frameTable[f].owner
  PROVE  View'[x] = View[x] /\ (x \in Unsaved' <=> x \in Unsaved)
<1> DEFINE v == frameTable[f].owner
<1>1. /\ UsedPages' = UsedPages /\ e \in UsedPages /\ ~pte[e].loaded
      /\ memory' = [memory EXCEPT ![f] = disk'[pte[e].cluster]]
      /\ pte'[e].loaded /\ ~pte'[e].dirty /\ pte'[e].frame = f
  BY DEF Takes, UsedPages
<1>2. CASE x \notin UsedPages
  BY <1>1, <1>2, ViewOf, ViewOfAfter DEF Unsaved
<1>3. ASSUME x \in UsedPages PROVE disk'[pte[x].cluster] = disk[pte[x].cluster]
  <2>1. pte[x].cluster \in Clusters
    BY <1>3 DEF Partitioned, TypeOK
  <2>2. ASSUME ~frameTable[f].free PROVE pte[v].cluster # pte[x].cluster
    BY <1>3, <2>2 DEF Accounted, Partitioned
  <2> QED BY <2>1, <2>2 DEF TypeOK
<1>4. CASE x = e
  <2>1. View'[e] = disk'[pte[e].cluster]
    BY <1>1, <1>4, ViewOfAfter DEF TypeOK
  <2> QED BY <1>1, <1>3, <1>4, <2>1, ViewOf DEF Unsaved
<1>5. CASE x \in UsedPages /\ x # e
  <2>1. /\ pte'[x].frame = pte[x].frame /\ pte'[x].dirty = pte[x].dirty
        /\ pte'[x].cluster = pte[x].cluster /\ (pte'[x].loaded <=> pte[x].loaded)
    BY <1>5 DEF Takes
  <2>2. ASSUME pte[x].loaded PROVE memory'[pte[x].frame] = memory[pte[x].frame]
    <3>1. pte[x].frame \in Frames \ {f}
      BY <1>5, <2>1, <2>2, TakesIsolates, FrameOfPage
    <3> QED BY <1>1, <3>1 DEF TypeOK
  <2>3. View'[x] = View[x]
    BY <1>1, <1>3, <1>5, <2>1, <2>2, ViewOf, ViewOfAfter
  <2> QED BY <1>1, <2>1, <2>3 DEF Unsaved
<1> QED BY <1>2, <1>4, <1>5

LEMMA FaultLoses ==
  ASSUME TypeOK, TypeOK', Isolated, Accounted, Partitioned, CleanMatches,
         NEW p \in Procs, NEW q \in Pages, happened' = {},
         \/ FaultIntoFreeFrame(p, q)
         \/ FaultEvictingClean(p, q)
         \/ FaultEvictingDirty(p, q)
  PROVE  A!Next \/ UNCHANGED A!vars
<1>1. PICK f \in Frames :
        /\ Takes(<<p, q>>, f)
        /\ \/ disk' = disk
           \/ LET w == frameTable[f].owner
              IN  ~frameTable[f].free /\ pte[w].dirty /\
                  \E d : disk' = [disk EXCEPT ![pte[w].cluster] = d]
  BY FaultTakes
<1>2. PICK v : v = frameTable[f].owner
  OBVIOUS
<1>3. /\ UsedPages' = UsedPages /\ Partitioned' /\ Writable' = Writable
      /\ Unsaved \subseteq Entries /\ Unsaved' \subseteq Entries
  <2>1. /\ UNCHANGED bitmap
        /\ \A x \in Entries : /\ pte'[x].used = pte[x].used
                             /\ pte'[x].cluster = pte[x].cluster
                             /\ pte'[x].rights = pte[x].rights
    BY <1>1 DEF Takes
  <2> QED BY <2>1, SameClusters DEF UsedPages, Writable, Unsaved
<1>4. ASSUME NEW x \in Entries, frameTable[f].free \/ x # v
      PROVE  View'[x] = View[x] /\ (x \in Unsaved' <=> x \in Unsaved)
  BY <1>1, <1>2, <1>4, FaultKeepsView
<1>5. CASE frameTable[f].free
  BY <1>3, <1>4, <1>5, SameView
<1>6. CASE ~frameTable[f].free
  <2>1. v \in UsedPages /\ v \in Entries /\ pte[v].loaded /\ pte[v].frame = f
    BY <1>2, <1>6 DEF Accounted, UsedPages
  <2>2. ~pte'[v].loaded /\ pte'[v].cluster = pte[v].cluster
    <3>1. v # <<p, q>>
      BY <1>1, <2>1 DEF Takes
    <3> QED BY <1>1, <1>2, <1>6, <2>1, <3>1 DEF Takes
  <2>3. Unsaved' = Unsaved \ {v}
    <3>1. v \notin Unsaved'
      BY <2>2 DEF Unsaved
    <3> QED BY <1>3, <1>4, <3>1
  <2>4. CASE pte[v].dirty
    <3>1. PICK x : x = View'[v]
      OBVIOUS
    <3>2. x \in Contents
      BY <1>3, <2>1, <3>1, ContentsOfPages
    <3>3. View' = [View EXCEPT ![v] = x]
      BY <1>4, <2>1, <3>1, ViewIsFunction
    <3>4. v \in Unsaved
      BY <2>1, <2>4 DEF Unsaved
    <3>5. A!Lose(v)
      BY <1>3, <2>3, <3>2, <3>3, <3>4 DEF A!Lose, Writable, Unsaved
    <3> QED BY <2>1, <3>5 DEF A!Next
  <2>5. CASE ~pte[v].dirty
    <3>1. disk' = disk
      BY <1>1, <1>2, <2>5
    <3>2. View'[v] = View[v]
      BY <1>3, <2>1, <2>2, <2>5, <3>1, ViewOf, ViewOfAfter DEF CleanMatches
    <3>3. v \notin Unsaved
      BY <2>5 DEF Unsaved
    <3> QED BY <1>3, <1>4, <2>3, <3>2, <3>3, SameView
  <2> QED BY <2>4, <2>5
<1> QED BY <1>5, <1>6
-----------------------------------------------------------------------------
(* Every step *)

LEMMA StepImplements ==
  ASSUME TypeOK, TypeOK', Tiled, Isolated, Accounted, Partitioned, CleanMatches,
         [Next]_vars, happened' = {}
  PROVE  A!Next \/ UNCHANGED A!vars
<1>1. ASSUME NEW p \in Procs, NEW s, NEW n, NEW rights, NEW cs,
             SetsUpSegment(p, s, n, rights, cs)
      PROVE  A!Next
  BY <1>1, SetUpMaps
<1>2. ASSUME NEW p \in Procs, NEW s \in Pages, DeleteSegment(p, s)
      PROVE  A!Next
  <2>1. PICK es : es = SegmentAt(p, s)
    OBVIOUS
  <2> QED BY <1>2, <2>1, DeleteReleases, ReleaseUnmaps
<1>3. ASSUME NEW p \in Procs, DestroyProcess(p)
      PROVE  A!Next
  <2>1. PICK es : es = UsedEntries(p)
    OBVIOUS
  <2> QED BY <1>3, <2>1, DestroyReleases, ReleaseUnmaps
<1>4. ASSUME NEW p \in Procs, NEW q \in Pages, FaultWhenEvictionFails(p, q)
      PROVE  FALSE
  BY <1>4 DEF FaultWhenEvictionFails
<1>5. ASSUME Idle PROVE UNCHANGED A!vars
  BY <1>5, SameView, ViewOf, ViewOfAfter DEF Idle, UsedPages, Writable, Unsaved
<1> QED BY <1>1, <1>2, <1>3, <1>4, <1>5, StepKinds, FaultLoses, AccessStores

LEMMA InitImplements == Init => A!Init
BY DEF Init, A!Init, View, UsedPages, ZeroEntry

NothingFailed == happened = {}

\* As long as nothing fails and the swap space lasts, what programs see of their
\* memory changes as AddressSpace says: a fault, a sweep or a call for another
\* process shows in nobody's pages, but for stores that an eviction loses.
THEOREM ImplementsAddressSpace == Spec /\ []NothingFailed => AddressSpaceSpec
<1> DEFINE Sound == /\ TypeOK /\ SegmentsTile /\ PageIsolation
                    /\ FramesAccountedFor /\ ClusterOwnership
                    /\ CleanPageMatchesDisk
<1>1. ASSUME Sound, TypeOK', [Next]_vars, NothingFailed, NothingFailed'
      PROVE  [A!Next]_(A!vars)
  <2>1. Tiled /\ Isolated /\ Accounted /\ Partitioned /\ CleanMatches
    BY <1>1 DEF SegmentsTile, PageIsolation, FramesAccountedFor, ClusterOwnership,
       CleanPageMatchesDisk, CleanMatches, Spared, NothingFailed
  <2> QED BY <1>1, <2>1, StepImplements DEF NothingFailed
<1>2. Spec => []Sound
  BY TypeCorrect, SegmentsTileAlways, PageIsolationAlways, FramesAccountedForAlways,
     ClusterOwnershipAlways, CleanPageMatchesDiskAlways, PTL
<1>3. Spec => []TypeOK
  BY TypeCorrect
<1> QED BY <1>1, <1>2, <1>3, InitImplements, PTL DEF Spec, AddressSpaceSpec, A!Spec
=============================================================================
