----------------------- MODULE SharedOwnershipProofs -----------------------
(***************************************************************************)
(* For every instance of SharedSegments: what a page in use holds is its   *)
(* own.  Frames and pages agree, clusters and pages agree, and no call     *)
(* finds an entry, a process or a page gone, but for the misuses the       *)
(* properties name.                                                        *)
(***************************************************************************)
EXTENDS SharedProofs

\* A used entry, a link or not, is in a table its owner has.
OwnTables == \A o \in Owners, q \in Pages : pte[<<o, q>>].used => TableOf(q) \in tables[o]

\* Links are entries of processes.
MastersOwn == \A m \in Masters, q \in Pages : ~pte[<<m, q>>].shared

\* A private page disconnected is an entry disconnected.
History == "disconnectedPrivate" \in happened => "disconnected" \in happened

HInv == OwnTables /\ MastersOwn /\ History

(* Fields *)

LEMMA OwnEntryFields ==
  ASSUME NEW size, NEW c
  PROVE  /\ OwnEntry(size, c).used /\ ~OwnEntry(size, c).shared /\ ~OwnEntry(size, c).loaded
         /\ OwnEntry(size, c).size = size /\ OwnEntry(size, c).cluster = c
BY ZeroTyped DEF OwnEntry, ZeroEntry

LEMMA LinkFields ==
  ASSUME NEW t
  PROVE  Link(t).used /\ Link(t).shared /\ Link(t).target = t /\ Link(t).size = 0
BY ZeroTyped DEF Link, ZeroEntry

LEMMA SetUnusedFields ==
  ASSUME NEW x
  PROVE  ~SetUnused(x).used /\ SetUnused(x).shared = x.shared /\ SetUnused(x).size = 0
BY ZeroTyped DEF SetUnused, ZeroEntry

LEMMA ZeroFields == ~ZeroEntry.used /\ ~ZeroEntry.shared /\ ZeroEntry.size = 0
BY DEF ZeroEntry

LEMMA PlaceIsPair ==
  ASSUME NEW e \in Places
  PROVE  e = <<e[1], e[2]>> /\ e[1] \in Owners /\ e[2] \in Pages /\ e[2] \in Nat
BY PageBounds DEF Places

LEMMA ProcPlace ==
  ASSUME NEW p \in Procs, NEW q \in Pages
  PROVE  \E e \in Places : e = <<p, q>> /\ e[1] = p /\ e[2] = q
<1>1. <<p, q>> \in Places
  BY PlaceOf DEF Owners
<1> QED BY <1>1

LEMMA MasterPlaces ==
  ASSUME NEW m \in Masters
  PROVE  /\ 0 \in Pages /\ <<m, 0>> \in Places
         /\ \A q \in Pages : <<m, q>> \in Places
<1>1. 0 \in Pages
  BY SpaceIsFinite DEF Pages
<1> QED BY <1>1, PlaceOf DEF Owners

LEMMA SetUpUses ==
  ASSUME NEW o, NEW s \in Nat, NEW n, NEW k \in Nat, NEW cs, NEW e \in Places,
         e[1] = o, s <= e[2], e[2] < s + k,
         NEW entries, entries = SetUp(o, s, n, k, cs)
  PROVE  /\ entries[e].used /\ ~entries[e].shared /\ ~entries[e].loaded
         /\ e[2] = s => entries[e].size = n
         /\ e[2] # s => entries[e].size = 0
         /\ entries[e].cluster = cs[e[2] - s]
<1>0. e[2] \in s .. s + k - 1
  BY PageBounds
<1>1. CASE e[2] = s
  <2>1. entries[e] = OwnEntry(n, cs[e[2] - s])
    BY <1>0, <1>1 DEF SetUp
  <2> QED BY <1>1, <2>1, OwnEntryFields
<1>2. CASE e[2] # s
  <2>1. entries[e] = OwnEntry(0, cs[e[2] - s])
    BY <1>0, <1>2 DEF SetUp
  <2> QED BY <1>2, <2>1, OwnEntryFields
<1> QED BY <1>1, <1>2

LEMMA SetUpOutside ==
  ASSUME NEW o, NEW s, NEW n, NEW k, NEW cs, NEW e \in Places,
         ~(e[1] = o /\ e[2] \in s .. s + k - 1)
  PROVE  SetUp(o, s, n, k, cs)[e] = pte[e]
BY DEF SetUp

\* Installing a page changes whether it is loaded and where, and nothing else.
LEMMA InstallFields ==
  ASSUME NEW e \in Places, NEW f \in Frames,
         NEW entries \in [Places -> PageTableEntries],
         Install(e, f, entries)
  PROVE  /\ pte' \in [Places -> PageTableEntries]
         /\ pte'[e].loaded /\ pte'[e].frame = f
         /\ \A x \in Places : x # e => pte'[x] = entries[x]
         /\ \A x \in Places : /\ pte'[x].used = entries[x].used
                              /\ pte'[x].shared = entries[x].shared
                              /\ pte'[x].target = entries[x].target
                              /\ pte'[x].size = entries[x].size
                              /\ pte'[x].cluster = entries[x].cluster
<1> DEFINE mid == [entries EXCEPT ![e].loaded = TRUE]
<1>1. /\ mid \in [Places -> PageTableEntries]
      /\ mid[e].loaded
      /\ \A x \in Places : x # e => mid[x] = entries[x]
      /\ \A x \in Places : /\ mid[x].used = entries[x].used
                           /\ mid[x].shared = entries[x].shared
                           /\ mid[x].target = entries[x].target
                           /\ mid[x].size = entries[x].size
                           /\ mid[x].cluster = entries[x].cluster
  BY DEF PageTableEntries
<1>2. pte' = [mid EXCEPT ![e].frame = f]
  BY DEF Install
<1> HIDE DEF mid
<1>3. \A x \in Places : x # e => pte'[x] = mid[x]
  BY <1>1, <1>2
<1>4. pte'[e] = [mid[e] EXCEPT !.frame = f] /\ mid[e] \in PageTableEntries
  BY <1>1, <1>2
<1>5. /\ pte'[e] \in PageTableEntries
      /\ pte'[e].loaded = mid[e].loaded /\ pte'[e].frame = f
      /\ pte'[e].used = mid[e].used /\ pte'[e].shared = mid[e].shared
      /\ pte'[e].target = mid[e].target /\ pte'[e].size = mid[e].size
      /\ pte'[e].cluster = mid[e].cluster
  BY <1>4 DEF PageTableEntries
<1>6. pte' \in [Places -> PageTableEntries]
  BY <1>1, <1>2, <1>3, <1>5
<1> QED BY <1>1, <1>3, <1>5, <1>6

\* The page an eviction unloads.
LEMMA UnloadedFields ==
  ASSUME Typed, NEW v \in Places
  PROVE  /\ Unloaded(v) \in [Places -> PageTableEntries]
         /\ ~Unloaded(v)[v].loaded
         /\ \A x \in Places : x # v => Unloaded(v)[x] = pte[x]
         /\ \A x \in Places : /\ Unloaded(v)[x].used = pte[x].used
                              /\ Unloaded(v)[x].shared = pte[x].shared
                              /\ Unloaded(v)[x].target = pte[x].target
                              /\ Unloaded(v)[x].size = pte[x].size
                              /\ Unloaded(v)[x].cluster = pte[x].cluster
BY DEF Unloaded, Typed, PageTableEntries

-----------------------------------------------------------------------------
(* Used entries have tables, masters have no links *)

\* The steps that use no entry anew and take no table from who has used entries.
LEMMA HistoryStays ==
  ASSUME History, \E es : happened' = happened \union Strays(es)
  PROVE  History'
BY DEF History, Strays

LEMMA UsedStays ==
  ASSUME HInv, History',
         \A o \in Owners, q \in Pages : pte'[<<o, q>>].used =>
           \/ pte[<<o, q>>].used /\ tables[o] \subseteq tables'[o]
           \/ TableOf(q) \in tables'[o],
         \A m \in Masters, q \in Pages : pte'[<<m, q>>].shared => pte[<<m, q>>].shared
  PROVE  HInv'
BY DEF HInv, OwnTables, MastersOwn

LEMMA CrashPlaces ==
  ASSUME HInv, NEW how, Crashes(how)
  PROVE  HInv'
BY DEF Crashes, HInv, OwnTables, MastersOwn, History

LEMMA InitPlaces == Init => HInv
<1> SUFFICES ASSUME Init PROVE HInv
  OBVIOUS
<1>1. \A o \in Owners, q \in Pages : pte[<<o, q>>] = ZeroEntry
  BY PlaceOf DEF Init
<1>2. Masters \subseteq Owners
  BY DEF Owners
<1> QED BY <1>1, <1>2, ZeroFields DEF HInv, OwnTables, MastersOwn, History, Init

LEMMA CreateProcessPlaces ==
  ASSUME HInv, NEW p \in Procs, CreateProcess(p)
  PROVE  HInv'
BY UsedStays DEF CreateProcess, HInv, History

LEMMA DestroyProcessPlaces ==
  ASSUME GInv, HInv, NEW p \in Procs, DestroyProcess(p)
  PROVE  HInv'
<1>1. ASSUME NEW o \in Owners, NEW q \in Pages
      PROVE  IF o = p THEN pte'[<<o, q>>] = ZeroEntry ELSE pte'[<<o, q>>] = pte[<<o, q>>]
  BY PlaceOf DEF DestroyProcess
<1>2. \A o \in Owners : o # p => tables'[o] = tables[o]
  BY DEF DestroyProcess, GInv, LInv, Typed
<1>3. History'
  BY DEF DestroyProcess, HInv, History
<1>4. Masters \subseteq Owners
  BY DEF Owners
<1> QED BY <1>1, <1>2, <1>3, <1>4, ZeroFields, UsedStays

LEMMA RanOutHistory ==
  ASSUME HInv, NEW cs, NEW k, happened' = happened \union RanOut(cs, k)
  PROVE  History'
BY DEF RanOut, HInv, History

LEMMA CreateSegmentPlaces ==
  ASSUME GInv, HInv, NEW p \in Procs, NEW s \in Pages, NEW n \in SegmentSizes,
         CreateSegment(p, s, n)
  PROVE  HInv'
<1>1. PICK cs : pte' = SetUp(p, s, n, n, cs) /\ happened' = happened \union RanOut(cs, n)
  BY DEF CreateSegment
<1>2. /\ tables'[p] = tables[p] \union MissingTables(p, s .. s + n - 1)
      /\ \A o \in Owners : tables[o] \subseteq tables'[o]
  BY DEF CreateSegment, GInv, LInv, Typed, Owners
<1>3. ASSUME NEW o \in Owners, NEW q \in Pages, pte'[<<o, q>>].used
      PROVE  pte[<<o, q>>].used \/ TableOf(q) \in tables'[o]
  <2>1. CASE o = p /\ q \in s .. s + n - 1
    BY <1>2, <2>1 DEF MissingTables
  <2>2. CASE ~(o = p /\ q \in s .. s + n - 1)
    BY <1>1, <1>3, <2>2, PlaceOf, SetUpOutside
  <2> QED BY <2>1, <2>2
<1>4. ASSUME NEW m \in Masters, NEW q \in Pages PROVE pte'[<<m, q>>] = pte[<<m, q>>]
  BY <1>1, Apart, SetUpOutside
<1>5. History'
  BY <1>1, RanOutHistory
<1> QED BY <1>2, <1>3, <1>4, <1>5, UsedStays

\* The entries that link pages to a master, with the tables they take.
LEMMA ConnectPlaces ==
  ASSUME GInv, HInv, History',
         NEW p \in Procs, NEW s \in Pages, NEW n \in Nat, NEW name, NEW m \in Masters,
         NEW ts, NEW entries, NEW left,
         ConnectTo(p, s, n, name, m, ts, entries, left),
         \A e \in Places : e[1] # m => entries[e] = pte[e],
         \A q \in Pages : ~entries[<<m, q>>].shared,
         \A q \in Pages : entries[<<m, q>>].used => TableOf(q) \in ts
  PROVE  HInv'
<1> DEFINE linked == Linked(p, s, n, ts, left)
           taken  == TablesTaken(p, s, n, ts, left)
<1>1. /\ pte' = LinkPages(entries, p, s, m, linked)
      /\ tables' = [tables EXCEPT ![p] = @ \union taken, ![m] = ts]
  BY DEF ConnectTo
<1>2. p # m
  BY SharedSegmentsAssumption
<1>3. /\ tables'[p] = tables[p] \union taken
      /\ tables'[m] = ts
      /\ \A o \in Owners : o # m => tables[o] \subseteq tables'[o]
  BY <1>1, <1>2 DEF GInv, LInv, Typed, Owners
<1>4. ASSUME NEW o \in Owners, NEW q \in Pages, pte'[<<o, q>>].used
      PROVE  \/ pte[<<o, q>>].used /\ tables[o] \subseteq tables'[o]
             \/ TableOf(q) \in tables'[o]
  <2>1. CASE o = p /\ q - s \in linked
    <3>1. s + (q - s) = q
      BY DEF Pages
    <3>2. q - s \in 0 .. n - 1 /\ GetsTable(p, s, q - s, ts, left)
      BY <2>1 DEF Linked
    <3>3. q \in {s + i : i \in {j \in 0 .. n - 1 : GetsTable(p, s, j, ts, left)}}
      BY <3>1, <3>2
    <3>4. TableOf(q) \in tables[p] \/ TableOf(q) \in taken
      BY <3>3 DEF TablesTaken, MissingTables
    <3> QED BY <1>3, <2>1, <3>4
  <2>2. CASE ~(o = p /\ q - s \in linked)
    <3>1. pte'[<<o, q>>] = entries[<<o, q>>]
      BY <1>1, <2>2, PlaceOf DEF LinkPages
    <3>2. CASE o = m
      BY <1>3, <1>4, <3>1, <3>2
    <3>3. CASE o # m
      BY <1>3, <1>4, <3>1, <3>3, PlaceOf
    <3> QED BY <3>2, <3>3
  <2> QED BY <2>1, <2>2
<1>5. ASSUME NEW x \in Masters, NEW q \in Pages PROVE ~pte'[<<x, q>>].shared
  <2>1. pte'[<<x, q>>] = entries[<<x, q>>] /\ <<x, q>> \in Places
    BY <1>1, Apart DEF LinkPages
  <2> QED BY <2>1 DEF HInv, MastersOwn
<1> QED BY <1>4, <1>5, UsedStays

LEMMA ConnectSharedPlaces ==
  ASSUME GInv, HInv, NEW p \in Procs, NEW s \in Pages, NEW n \in SegmentSizes,
         NEW name \in Names, ConnectShared(p, s, n, name)
  PROVE  HInv'
<1> DEFINE m == registry[name]
<1>1. m \in Masters
  BY DEF ConnectShared, GInv, LInv, Typed
<1>2. PICK ts, entries, left :
        /\ ts = tables[m] /\ entries = pte
        /\ ConnectTo(p, s, n, name, m, ts, entries, left)
  BY DEF ConnectShared
<1>3. History'
  BY DEF ConnectShared, HInv, History
<1> HIDE DEF m
<1>4. \A q \in Pages : /\ ~entries[<<m, q>>].shared
                       /\ entries[<<m, q>>].used => TableOf(q) \in ts
  BY <1>1, <1>2 DEF HInv, OwnTables, MastersOwn, Owners
<1>5. n \in Nat
  BY SharedSegmentsAssumption
<1> QED BY <1>1, <1>2, <1>3, <1>4, <1>5, ConnectPlaces

LEMMA FreshMaster ==
  ASSUME GInv, SInv, HInv, NEW m \in Masters, life[m] = "none", NEW q \in Pages
  PROVE  ~pte[<<m, q>>].used
<1>1. tables[m] = {}
  BY DEF SInv, Registered
<1> QED BY <1>1 DEF HInv, OwnTables, Owners

LEMMA CreateSharedPlaces ==
  ASSUME GInv, SInv, HInv, NEW p \in Procs, NEW s \in Pages, NEW n \in SegmentSizes,
         NEW name \in Names, NEW m \in Masters, CreateShared(p, s, n, name, m)
  PROVE  HInv'
<1>1. PICK cs, entries, left :
        /\ entries = SetUp(m, 0, n, n, cs)
        /\ ConnectTo(p, s, n, name, m, TablesFor(n), entries, left)
        /\ happened' = happened \union RanOut(cs, n)
  BY DEF CreateShared
<1>2. History'
  BY <1>1, RanOutHistory
<1>3. n \in Nat
  BY SharedSegmentsAssumption
<1>4. life[m] = "none"
  BY DEF CreateShared
<1>5. ASSUME NEW q \in Pages
      PROVE  ~entries[<<m, q>>].shared /\ (entries[<<m, q>>].used => TableOf(q) \in TablesFor(n))
  <2>1. CASE q \in 0 .. 0 + n - 1
    <3>1. PICK e \in Places : e = <<m, q>> /\ e[1] = m /\ e[2] = q
      BY Apart
    <3>2. entries = SetUp(m, 0, n, n, cs) /\ 0 <= e[2] /\ e[2] < 0 + n
      BY <1>1, <1>3, <2>1, <3>1
    <3>4. entries[e].used /\ ~entries[e].shared
      BY <1>3, <3>1, <3>2, SetUpUses
    <3>3. TableOf(q) \in TablesFor(n)
      BY <1>3, <2>1 DEF TablesFor
    <3> QED BY <3>1, <3>4, <3>3
  <2>2. CASE q \notin 0 .. 0 + n - 1
    <3>1. entries[<<m, q>>] = pte[<<m, q>>]
      BY <1>1, <2>2, Apart, SetUpOutside
    <3> QED BY <1>4, <3>1, FreshMaster DEF HInv, MastersOwn
  <2> QED BY <2>1, <2>2
<1>6. \A e \in Places : e[1] # m => entries[e] = pte[e]
  BY <1>1, SetUpOutside
<1> QED BY <1>1, <1>2, <1>3, <1>5, <1>6, ConnectPlaces

\* As many pages as are in the first tables are the first ones.
LEMMA FirstPages ==
  ASSUME NEW n \in Nat, NEW limit \in Int,
         NEW held,
         held = {q \in 0 .. n - 1 : TableOf(q) \in {t \in Tables : t < limit}},
         n <= NumPages
  PROVE  Cardinality(held) \in 0 .. n /\ held = 0 .. Cardinality(held) - 1
<1>1. held \subseteq 0 .. n - 1 /\ IsFiniteSet(0 .. n - 1) /\ Cardinality(0 .. n - 1) = n
  BY FS_Interval
<1>2. IsFiniteSet(held) /\ Cardinality(held) <= n
  BY <1>1, FS_Subset
<1> DEFINE k == Cardinality(held)
<1>3. k \in Nat
  BY <1>2, FS_CardinalityType
<1>4. ASSUME NEW q \in held, NEW r \in 0 .. q PROVE r \in held
  <2>1. q \in 0 .. n - 1 /\ r \in 0 .. n - 1 /\ r <= q /\ q \in Pages /\ r \in Pages
    BY <1>1, <1>4, SpaceIsFinite DEF Pages
  <2>2. TableOf(r) <= TableOf(q) /\ TableOf(r) \in Tables
    BY <2>1, Quotients, SharedSegmentsAssumption DEF TableOf, Pages
  <2>3. TableOf(q) < limit /\ TableOf(q) \in Int /\ TableOf(r) \in Int
    BY <1>4, <2>2, SharedSegmentsAssumption DEF Tables
  <2> QED BY <2>1, <2>2, <2>3
<1>5. ASSUME NEW q \in 0 .. n - 1, q < k PROVE q \in held
  <2> SUFFICES ASSUME q \notin held PROVE FALSE
    OBVIOUS
  <2>1. held \subseteq 0 .. q - 1
    <3>1. ASSUME NEW r \in held PROVE r \in 0 .. q - 1
      <4>1. r \in 0 .. n - 1
        BY <1>1
      <4>2. r < q
        BY <1>4, <4>1
      <4> QED BY <4>1, <4>2
    <3> QED BY <3>1
  <2>2. IsFiniteSet(0 .. q - 1) /\ Cardinality(0 .. q - 1) = q
    <3>1. 0 \in Int /\ q - 1 \in Int /\ q \in Nat
      OBVIOUS
    <3>2. Cardinality(0 .. q - 1) = IF 0 > q - 1 THEN 0 ELSE (q - 1) - 0 + 1
      BY <3>1, FS_Interval
    <3> QED BY <3>1, <3>2, FS_Interval
  <2>3. k <= q
    BY <2>1, <2>2, FS_Subset
  <2> HIDE DEF k
  <2> QED BY <1>3, <1>5, <2>3
<1>6. ASSUME NEW q \in held PROVE q < k
  <2>1. 0 .. q \subseteq held /\ q \in Nat
    BY <1>1, <1>4
  <2>2. Cardinality(0 .. q) = q + 1
    BY <2>1, FS_Interval
  <2>3. q + 1 <= k
    BY <1>2, <2>1, <2>2, FS_Subset
  <2> HIDE DEF k
  <2> QED BY <1>3, <2>1, <2>3
<1>7. held = 0 .. k - 1
  <2> HIDE DEF k
  <2>1. held \subseteq 0 .. k - 1
    BY <1>1, <1>3, <1>6
  <2>2. k <= n
    BY <1>2 DEF k
  <2>3. 0 .. k - 1 \subseteq held
    BY <1>3, <1>5, <2>2
  <2> QED BY <2>1, <2>3
<1> QED BY <1>2, <1>3, <1>7

LEMMA CreateSharedFailsPlaces ==
  ASSUME GInv, SInv, HInv, NEW p \in Procs, NEW s \in Pages, NEW n \in SegmentSizes,
         NEW name \in Names, NEW m \in Masters, CreateSharedFails(p, s, n, name, m)
  PROVE  HInv'
<1>1. CASE HasEntry(p, s)
  BY <1>1, CrashPlaces DEF CreateSharedFails
<1>2. CASE ~HasEntry(p, s)
  <2> DEFINE got  == {t \in Tables : t < freeSlabs - 1}
             held == {q \in 0 .. n - 1 : TableOf(q) \in got}
             k    == Cardinality(held)
  <2>1. PICK cs : pte' = SetUp(m, 0, n, k, cs) /\ happened' = happened \union RanOut(cs, k)
    BY <1>2 DEF CreateSharedFails
  <2>2. History'
    BY <2>1, RanOutHistory
  <2>3. n \in Nat /\ n <= NumPages
    BY SharedSegmentsAssumption, SpaceIsFinite
       DEF CreateSharedFails, HaveFreeFromAddress, Pages
  <2>4. held = 0 .. k - 1 /\ k \in Nat
    <3>1. freeSlabs - 1 \in Int
      BY DEF GInv, TInv, RestTyped
    <3>2. PICK limit : limit = freeSlabs - 1
      OBVIOUS
    <3>3. held = {q \in 0 .. n - 1 : TableOf(q) \in {t \in Tables : t < limit}}
      BY <3>2
    <3> HIDE DEF got, held
    <3>4. Cardinality(held) \in 0 .. n /\ held = 0 .. Cardinality(held) - 1
      BY <2>3, <3>1, <3>2, <3>3, FirstPages
    <3> QED BY <2>3, <3>4
  <2>5. /\ life[m] = "none"
        /\ tables'[m] = got
        /\ \A o \in Owners : o # m => tables'[o] = tables[o]
    BY <1>2 DEF CreateSharedFails, GInv, LInv, Typed, Owners
  <2>6. \A q \in held : TableOf(q) \in got
    OBVIOUS
  <2> HIDE DEF k, held, got
  <2>7. ASSUME NEW o \in Owners, NEW q \in Pages
        PROVE  \/ pte'[<<o, q>>] = pte[<<o, q>>] /\ o # m
               \/ pte'[<<o, q>>] = pte[<<o, q>>] /\ ~pte[<<o, q>>].used
               \/ ~pte'[<<o, q>>].shared /\ TableOf(q) \in tables'[o]
    <3>1. PICK e \in Places : e = <<o, q>> /\ e[1] = o /\ e[2] = q
      BY PlaceOf
    <3>2. CASE o = m /\ q \in 0 .. 0 + k - 1
      <4>1. 0 <= e[2] /\ e[2] < 0 + k
        BY <2>4, <3>1, <3>2
      <4>2. ~pte'[e].shared
        BY <2>1, <2>4, <3>1, <3>2, <4>1, SetUpUses
      <4> QED BY <2>4, <2>5, <2>6, <3>1, <3>2, <4>2
    <3>3. CASE ~(o = m /\ q \in 0 .. 0 + k - 1)
      <4>1. pte'[e] = pte[e]
        BY <2>1, <3>1, <3>3, SetUpOutside
      <4> QED BY <2>5, <3>1, <4>1, FreshMaster
    <3> QED BY <3>2, <3>3
  <2>8. Masters \subseteq Owners
    BY DEF Owners
  <2> QED BY <2>2, <2>5, <2>7, <2>8, UsedStays
<1> QED BY <1>1, <1>2

\* The steps that set entries unused.
LEMMA UnusedPlaces ==
  ASSUME HInv, NEW es,
         pte' = [e \in Places |-> IF e \in es THEN SetUnused(pte[e]) ELSE pte[e]],
         tables' = tables, History'
  PROVE  HInv'
<1>1. ASSUME NEW e \in Places
      PROVE  (pte'[e].used => pte[e].used) /\ pte'[e].shared = pte[e].shared
  BY SetUnusedFields
<1>2. \A o \in Owners, q \in Pages : <<o, q>> \in Places
  BY PlaceOf
<1>3. Masters \subseteq Owners
  BY DEF Owners
<1> QED BY <1>1, <1>2, <1>3, UsedStays

LEMMA DeleteSegmentPlaces ==
  ASSUME HInv, NEW p \in Procs, NEW s \in Pages, DeleteSegment(p, s)
  PROVE  HInv'
<1>1. PICK es : pte' = [e \in Places |-> IF e \in es THEN SetUnused(pte[e]) ELSE pte[e]]
  BY DEF DeleteSegment
<1>2. tables' = tables /\ History'
  BY DEF DeleteSegment, HInv, History
<1> QED BY <1>1, <1>2, UnusedPlaces

LEMMA DisconnectSharedPlaces ==
  ASSUME HInv, NEW p \in Procs, NEW name \in Names, DisconnectShared(p, name)
  PROVE  HInv'
<1>1. PICK c \in connected[name] :
        IF CanUnlink(p, c[2])
          THEN /\ pte' = [e \in Places |-> IF e \in Unlinked(p, c[2])
                                             THEN SetUnused(pte[e]) ELSE pte[e]]
               /\ happened' = happened \union Strays(Unlinked(p, c[2]))
               /\ tables' = tables
          ELSE Crashes(HowUnlinkFails(p))
  BY DEF DisconnectShared
<1>2. CASE CanUnlink(p, c[2])
  BY <1>1, <1>2, UnusedPlaces, HistoryStays DEF HInv
<1>3. CASE ~CanUnlink(p, c[2])
  BY <1>1, <1>3, CrashPlaces
<1> QED BY <1>2, <1>3

LEMMA DeleteSharedPlaces ==
  ASSUME GInv, HInv, NEW p \in Procs, NEW name \in Names, DeleteShared(p, name)
  PROVE  HInv'
<1>1. PICK es : pte' = [e \in Places |-> IF e \in es THEN SetUnused(pte[e]) ELSE pte[e]]
  BY DEF DeleteShared
<1>2. tables' = tables
  BY DEF DeleteShared, ReturnedTables, GInv, LInv, Typed
<1>3. History'
  BY HistoryStays DEF DeleteShared, HInv
<1> QED BY <1>1, <1>2, <1>3, UnusedPlaces

\* A fault on a page that is there: the entry it installs and what it evicts.
LEMMA FaultCases ==
  ASSUME GInv, NEW p \in Procs, NEW q \in Pages, PageFault(p, q),
         ~\E how : Crashes(how)
  PROVE  \E e, f, entries :
           /\ e \in Places /\ f \in Frames
           /\ e = Resolve(<<p, q>>) /\ pte[e].used /\ ~pte[e].loaded
           /\ Install(e, f, entries)
           /\ \/ f \in freeFrames /\ entries = pte
              \/ /\ freeFrames = {} /\ entries = Unloaded(holder[f])
                 /\ HasEntry(holder[f][1], holder[f][2])
<1> DEFINE e == Resolve(<<p, q>>)
<1>1. e # NoPage /\ pte[e].used /\ ~pte[e].loaded
  BY DEF PageFault
<1>2. e \in Places
  BY <1>1, ResolvesToPlace DEF GInv, LInv
<1> HIDE DEF e
<1>3. \/ \E f \in Frames : f \in freeFrames /\ Install(e, f, pte)
      \/ freeFrames = {} /\ \E f \in Frames : /\ HasEntry(holder[f][1], holder[f][2])
                                              /\ Install(e, f, Unloaded(holder[f]))
  BY DEF PageFault, e
<1> QED BY <1>1, <1>2, <1>3 DEF e

LEMMA UnloadedSame ==
  ASSUME Typed, NEW v
  PROVE  /\ Unloaded(v) \in [Places -> PageTableEntries]
         /\ \A x \in Places : /\ Unloaded(v)[x].used = pte[x].used
                              /\ Unloaded(v)[x].shared = pte[x].shared
                              /\ Unloaded(v)[x].target = pte[x].target
                              /\ Unloaded(v)[x].size = pte[x].size
                              /\ Unloaded(v)[x].cluster = pte[x].cluster
<1>1. CASE v \in Places
  BY <1>1, UnloadedFields
<1>2. CASE v \notin Places
  <2>1. Unloaded(v) = pte
    BY <1>2 DEF Unloaded, Typed
  <2> QED BY <2>1 DEF Typed
<1> QED BY <1>1, <1>2

\* However it ends, a fault changes only which pages are loaded and where.
LEMMA FaultFields ==
  ASSUME GInv, NEW p \in Procs, NEW q \in Pages, PageFault(p, q)
  PROVE  /\ \A x \in Places : /\ pte'[x].used = pte[x].used
                              /\ pte'[x].shared = pte[x].shared
                              /\ pte'[x].target = pte[x].target
                              /\ pte'[x].size = pte[x].size
                              /\ pte'[x].cluster = pte[x].cluster
         /\ UNCHANGED <<life, registry, connected, tables, bitmap, freeSlabs, happened>>
<1>1. CASE \E how : Crashes(how)
  BY <1>1 DEF Crashes
<1>2. CASE ~\E how : Crashes(how)
  <2>1. PICK e, f, entries :
          /\ e \in Places /\ f \in Frames
          /\ Install(e, f, entries)
          /\ entries = pte \/ entries = Unloaded(holder[f])
    BY <1>2, FaultCases
  <2>2. /\ entries \in [Places -> PageTableEntries]
        /\ \A x \in Places : /\ entries[x].used = pte[x].used
                             /\ entries[x].shared = pte[x].shared
                             /\ entries[x].target = pte[x].target
                             /\ entries[x].size = pte[x].size
                             /\ entries[x].cluster = pte[x].cluster
    BY <2>1, UnloadedSame DEF GInv, LInv, Typed
  <2>3. UNCHANGED <<life, registry, connected, tables, bitmap, freeSlabs, happened>>
    BY <2>1 DEF Install
  <2> QED BY <2>1, <2>2, <2>3, InstallFields
<1> QED BY <1>1, <1>2

LEMMA PageFaultPlaces ==
  ASSUME GInv, HInv, NEW p \in Procs, NEW q \in Pages, PageFault(p, q)
  PROVE  HInv'
<1>1. Masters \subseteq Owners
  BY DEF Owners
<1>2. tables' = tables /\ happened' = happened
  BY FaultFields
<1>3. ASSUME NEW o \in Owners, NEW r \in Pages
      PROVE  pte'[<<o, r>>].used = pte[<<o, r>>].used /\ pte'[<<o, r>>].shared = pte[<<o, r>>].shared
  BY FaultFields, PlaceOf
<1>4. History'
  BY <1>2 DEF HInv, History
<1> QED BY <1>1, <1>2, <1>3, <1>4, UsedStays

LEMMA NextKeepsPlaces == GInv /\ SInv /\ HInv /\ [Next]_vars => HInv'
<1> SUFFICES ASSUME GInv, SInv, HInv, [Next]_vars PROVE HInv'
  OBVIOUS
<1>0. ASSUME NEW how, Crashes(how) PROVE HInv'
  BY <1>0, CrashPlaces
<1>1. CASE UNCHANGED vars
  BY <1>1 DEF vars, HInv, OwnTables, MastersOwn, History
<1>2. ASSUME NEW p \in Procs, CreateProcess(p) \/ DestroyProcess(p) PROVE HInv'
  BY <1>2, CreateProcessPlaces, DestroyProcessPlaces
<1>3. ASSUME NEW p \in Procs, NEW s \in Pages,
             PageFault(p, s) \/ DeleteSegment(p, s) \/ DeleteSegmentCrashes(p, s)
      PROVE  HInv'
  BY <1>0, <1>3, PageFaultPlaces, DeleteSegmentPlaces DEF DeleteSegmentCrashes
<1>4. ASSUME NEW p \in Procs, NEW s \in Pages, NEW n \in SegmentSizes,
             CreateSegment(p, s, n) \/ CreateCrashes(p, s, n)
      PROVE  HInv'
  BY <1>0, <1>4, CreateSegmentPlaces DEF CreateCrashes
<1>5. ASSUME NEW p \in Procs, NEW s \in Pages, NEW n \in SegmentSizes, NEW name \in Names,
             \/ ConnectShared(p, s, n, name)
             \/ \E m \in Masters : \/ CreateShared(p, s, n, name, m)
                                   \/ CreateSharedFails(p, s, n, name, m)
      PROVE  HInv'
  BY <1>5, ConnectSharedPlaces, CreateSharedPlaces, CreateSharedFailsPlaces
<1>6. ASSUME NEW p \in Procs, NEW name \in Names,
             \/ DisconnectShared(p, name)
             \/ DeleteShared(p, name)
             \/ DeleteSharedCrashes(p, name)
      PROVE  HInv'
  BY <1>0, <1>6, DisconnectSharedPlaces, DeleteSharedPlaces DEF DeleteSharedCrashes
<1> QED
  BY <1>1, <1>2, <1>3, <1>4, <1>5, <1>6 DEF Next

-----------------------------------------------------------------------------
(* Segments are whole *)

\* The segment that starts at page q of p, if one does, has its pages, and no
\* other starts within it.
TileAt(p, q) ==
  pte[<<p, q>>].size > 0 =>
    \A r \in q .. q + pte[<<p, q>>].size - 1 :
      <<p, r>> \in UsedPages /\ (r # q => pte[<<p, r>>].size = 0)

\* A master has the pages it was created with.
Whole(m) ==
  /\ pte[<<m, 0>>].size > 0
  /\ \A q \in 0 .. pte[<<m, 0>>].size - 1 : <<m, q>> \in UsedPages

Tiled ==
  /\ \A p \in Procs, q \in Pages : TileAt(p, q)
  /\ \A m \in Masters : life[m] = "live" => Whole(m)

\* Nobody disconnected a private segment or deleted a shared one as if it were
\* private.
Quiet == Spared({"disconnectedPrivate", "deletedAsPrivate"})

TilesInv == Quiet => Tiled

\* A step that changes the entries D: those start no segment but whole ones, and
\* no segment is changed in part.
LEMMA TilesStay ==
  ASSUME Tiled, NEW D,
         \A e \in Places : e \notin D => pte'[e] = pte[e],
         \A p \in Procs, q \in Pages : <<p, q>> \in D => TileAt(p, q)',
         \A p \in Procs, q \in Pages : <<p, q>> \notin D /\ pte[<<p, q>>].size > 0 =>
           \A r \in q .. q + pte[<<p, q>>].size - 1 : <<p, r>> \notin D,
         \A m \in Masters : life'[m] = "live" =>
           Whole(m)' \/ (life[m] = "live" /\ \A q \in Pages : <<m, q>> \notin D)
  PROVE  Tiled'
<1>1. \A e \in UsedPages : e \notin D => e \in UsedPages'
  BY DEF UsedPages
<1>2. ASSUME NEW p \in Procs, NEW q \in Pages PROVE TileAt(p, q)'
  <2>1. CASE <<p, q>> \in D
    BY <2>1
  <2>2. CASE <<p, q>> \notin D
    <3>1. pte'[<<p, q>>] = pte[<<p, q>>]
      BY <2>2, PlaceOf DEF Owners
    <3> SUFFICES ASSUME pte[<<p, q>>].size > 0,
                        NEW r \in q .. q + pte[<<p, q>>].size - 1
                 PROVE  <<p, r>> \in UsedPages' /\ (r # q => pte'[<<p, r>>].size = 0)
      BY <3>1 DEF TileAt
    <3>2. <<p, r>> \in UsedPages /\ (r # q => pte[<<p, r>>].size = 0)
      BY DEF Tiled, TileAt
    <3>3. <<p, r>> \notin D
      BY <2>2
    <3> QED BY <1>1, <3>2, <3>3 DEF UsedPages
  <2> QED BY <2>1, <2>2
<1>3. ASSUME NEW m \in Masters, life'[m] = "live" PROVE Whole(m)'
  <2>1. CASE life[m] = "live" /\ \A q \in Pages : <<m, q>> \notin D
    <3>1. Whole(m) /\ <<m, 0>> \in Places /\ <<m, 0>> \notin D
      BY <2>1, MasterPlaces DEF Tiled
    <3>2. pte'[<<m, 0>>] = pte[<<m, 0>>]
      BY <3>1
    <3>3. \A q : <<m, q>> \in UsedPages => <<m, q>> \in UsedPages'
      BY <1>1, <2>1 DEF UsedPages, Places
    <3> QED BY <3>1, <3>2, <3>3 DEF Whole
  <2> QED BY <1>3, <2>1
<1> QED BY <1>2, <1>3 DEF Tiled

\* The step changes no size and uses no entry anew.
LEMMA TilesSame ==
  ASSUME Tiled,
         \A e \in Places : /\ pte'[e].used = pte[e].used
                           /\ pte'[e].shared = pte[e].shared
                           /\ pte'[e].size = pte[e].size,
         \A m \in Masters : life'[m] = "live" => life[m] = "live"
  PROVE  Tiled'
<1>1. UsedPages' = UsedPages
  BY DEF UsedPages
<1>2. ASSUME NEW p \in Procs, NEW q \in Pages PROVE TileAt(p, q)'
  <2>1. pte'[<<p, q>>].size = pte[<<p, q>>].size /\ TileAt(p, q)
    BY PlaceOf DEF Owners, Tiled
  <2>2. \A e \in UsedPages : pte'[e].size = pte[e].size
    BY DEF UsedPages
  <2> QED BY <1>1, <2>1, <2>2 DEF TileAt
<1>3. ASSUME NEW m \in Masters, life'[m] = "live" PROVE Whole(m)'
  <2>1. pte'[<<m, 0>>].size = pte[<<m, 0>>].size
    BY MasterPlaces
  <2> QED BY <1>1, <1>3, <2>1 DEF Tiled, Whole
<1> QED BY <1>2, <1>3 DEF Tiled

(* What a step adds to the pages in use and what it takes from them *)

Gains(new) ==
  /\ UsedPages' = UsedPages \union new
  /\ new \intersect UsedPages = {}
  /\ \A e \in UsedPages : pte'[e] = pte[e]
  /\ \A e \in new : ~pte'[e].loaded
  /\ UNCHANGED <<freeFrames, holder>>

Loses(es) ==
  /\ es \subseteq UsedPages
  /\ UsedPages' = UsedPages \ es
  /\ \A e \in UsedPages' : pte'[e] = pte[e]
  /\ freeFrames' = freeFrames \union FramesOf(es)
  /\ UNCHANGED holder

FramesMatch ==
  /\ \A f \in Frames \ freeFrames :
       holder[f] \in UsedPages /\ pte[holder[f]].loaded /\ pte[holder[f]].frame = f
  /\ \A e \in UsedPages : pte[e].loaded =>
       pte[e].frame \notin freeFrames /\ holder[pte[e].frame] = e

LEMMA GainKeepsFrames ==
  ASSUME FramesMatch, NEW new, Gains(new)
  PROVE  FramesMatch'
<1>1. ASSUME NEW f \in Frames \ freeFrames'
      PROVE  holder'[f] \in UsedPages' /\ pte'[holder'[f]].loaded /\ pte'[holder'[f]].frame = f
  BY DEF Gains, FramesMatch
<1>2. ASSUME NEW e \in UsedPages', pte'[e].loaded
      PROVE  pte'[e].frame \notin freeFrames' /\ holder'[pte'[e].frame] = e
  <2>1. e \in UsedPages /\ pte'[e] = pte[e]
    BY <1>2 DEF Gains
  <2> QED BY <1>2, <2>1 DEF Gains, FramesMatch
<1> QED BY <1>1, <1>2 DEF FramesMatch

LEMMA LossKeepsFrames ==
  ASSUME Typed, FramesMatch, NEW es, Loses(es)
  PROVE  FramesMatch'
<1>1. ASSUME NEW f \in Frames \ freeFrames'
      PROVE  holder'[f] \in UsedPages' /\ pte'[holder'[f]].loaded /\ pte'[holder'[f]].frame = f
  <2>1. /\ holder[f] \in UsedPages /\ pte[holder[f]].loaded /\ pte[holder[f]].frame = f
        /\ f \notin FramesOf(es)
    BY DEF Loses, FramesMatch
  <2>2. holder[f] \notin es
    BY <2>1 DEF FramesOf
  <2> QED BY <2>1, <2>2 DEF Loses
<1>2. ASSUME NEW e \in UsedPages', pte'[e].loaded
      PROVE  pte'[e].frame \notin freeFrames' /\ holder'[pte'[e].frame] = e
  <2>1. e \in UsedPages /\ e \notin es /\ pte'[e] = pte[e]
    BY DEF Loses
  <2>2. pte[e].frame \notin freeFrames /\ holder[pte[e].frame] = e
    BY <1>2, <2>1 DEF FramesMatch
  <2>3. ASSUME pte[e].frame \in FramesOf(es) PROVE FALSE
    <3>1. PICK x \in es : pte[x].loaded /\ pte[x].frame = pte[e].frame
      BY <2>3 DEF FramesOf
    <3>2. holder[pte[x].frame] = x
      BY <3>1 DEF Loses, FramesMatch
    <3> QED BY <2>1, <2>2, <3>1, <3>2
  <2> QED BY <2>1, <2>2, <2>3 DEF Loses
<1> QED BY <1>1, <1>2 DEF FramesMatch

\* A fault gives a page the frame of another or a free one.
LEMMA FaultKeepsFrames ==
  ASSUME GInv, HInv, FramesMatch, NEW p \in Procs, NEW q \in Pages, PageFault(p, q)
  PROVE  FramesMatch'
<1>1. CASE \E how : Crashes(how)
  BY <1>1 DEF Crashes, FramesMatch, UsedPages
<1>2. CASE ~\E how : Crashes(how)
  <2>1. PICK e, f, entries :
          /\ e \in Places /\ f \in Frames
          /\ e = Resolve(<<p, q>>) /\ pte[e].used /\ ~pte[e].loaded
          /\ Install(e, f, entries)
          /\ \/ f \in freeFrames /\ entries = pte
             \/ /\ freeFrames = {} /\ entries = Unloaded(holder[f])
                /\ HasEntry(holder[f][1], holder[f][2])
    BY <1>2, FaultCases
  <2>2. ~pte[e].shared
    <3>1. CASE ~pte[<<p, q>>].shared
      BY <2>1, <3>1 DEF Resolve
    <3>2. CASE pte[<<p, q>>].shared
      <4>1. <<p, q>> \in Places /\ e = pte[<<p, q>>].target
        BY <2>1, <3>2, PlaceOf DEF Resolve, Owners
      <4>2. CASE e = NoPage
        <5>1. e[1] \in Owners /\ e[2] \in Nat /\ e = <<e[1], e[2]>>
          BY <2>1, PlaceIsPair
        <5> QED BY <4>2, <5>1, SharedSegmentsAssumption DEF Owners
      <4>3. CASE e # NoPage
        <5>1. PICK m \in Masters, r \in Pages : e = <<m, r>>
          BY <3>2, <4>1, <4>3 DEF GInv, LInv, Linking
        <5> QED BY <5>1 DEF HInv, MastersOwn
      <4> QED BY <4>2, <4>3
    <3> QED BY <3>1, <3>2
  <2>3. e \in UsedPages
    BY <2>1, <2>2 DEF UsedPages
  <2>4. UsedPages' = UsedPages
    BY FaultFields DEF UsedPages
  <2>5. /\ holder' = [holder EXCEPT ![f] = e]
        /\ freeFrames' = freeFrames \ {f}
        /\ holder \in [Frames -> Places \union {NoPage}]
    BY <2>1 DEF Install, GInv, TInv, RestTyped
  <2>6. \A x \in UsedPages : pte[x].frame \in Frames
    BY DEF UsedPages, GInv, LInv, Typed, PageTableEntries
  <2>7. CASE f \in freeFrames /\ entries = pte
    <3>1. /\ pte'[e].loaded /\ pte'[e].frame = f
          /\ \A x \in Places : x # e => pte'[x] = pte[x]
      BY <2>1, <2>7, InstallFields DEF GInv, LInv, Typed
    <3>2. ASSUME NEW g \in Frames \ freeFrames'
          PROVE  holder'[g] \in UsedPages' /\ pte'[holder'[g]].loaded
                   /\ pte'[holder'[g]].frame = g
      <4>1. CASE g = f
        BY <2>3, <2>4, <2>5, <3>1, <4>1
      <4>2. CASE g # f
        <5>1. holder[g] \in UsedPages /\ pte[holder[g]].loaded /\ pte[holder[g]].frame = g
          BY <2>5, <4>2 DEF FramesMatch
        <5>2. holder[g] # e /\ holder'[g] = holder[g] /\ holder[g] \in Places
          BY <2>1, <2>5, <4>2, <5>1 DEF UsedPages
        <5> QED BY <2>4, <3>1, <5>1, <5>2
      <4> QED BY <4>1, <4>2
    <3>3. ASSUME NEW x \in UsedPages', pte'[x].loaded
          PROVE  pte'[x].frame \notin freeFrames' /\ holder'[pte'[x].frame] = x
      <4>1. CASE x = e
        BY <2>1, <2>5, <3>1, <4>1
      <4>2. CASE x # e
        <5>1. pte'[x] = pte[x] /\ x \in UsedPages
          BY <2>4, <3>1, <4>2 DEF UsedPages
        <5>2. pte[x].frame \notin freeFrames /\ holder[pte[x].frame] = x
          BY <3>3, <5>1 DEF FramesMatch
        <5> QED BY <2>5, <2>6, <2>7, <5>1, <5>2
      <4> QED BY <4>1, <4>2
    <3> QED BY <3>2, <3>3 DEF FramesMatch
  <2>8. CASE freeFrames = {} /\ entries = Unloaded(holder[f])
    <3> DEFINE v == holder[f]
    <3>1. v \in UsedPages /\ pte[v].loaded /\ pte[v].frame = f /\ v \in Places /\ v # e
      BY <2>1, <2>8 DEF FramesMatch, UsedPages
    <3> HIDE DEF v
    <3>2. /\ entries \in [Places -> PageTableEntries]
          /\ ~entries[v].loaded
          /\ \A x \in Places : x # v => entries[x] = pte[x]
      BY <2>8, <3>1, UnloadedFields DEF GInv, LInv, v
    <3>3. /\ pte'[e].loaded /\ pte'[e].frame = f
          /\ ~pte'[v].loaded
          /\ \A x \in Places : x # e /\ x # v => pte'[x] = pte[x]
      BY <2>1, <3>1, <3>2, InstallFields
    <3>4. ASSUME NEW g \in Frames \ freeFrames'
          PROVE  holder'[g] \in UsedPages' /\ pte'[holder'[g]].loaded
                   /\ pte'[holder'[g]].frame = g
      <4>1. CASE g = f
        BY <2>3, <2>4, <2>5, <3>3, <4>1
      <4>2. CASE g # f
        <5>1. holder[g] \in UsedPages /\ pte[holder[g]].loaded /\ pte[holder[g]].frame = g
          BY <2>8 DEF FramesMatch
        <5>2. /\ holder[g] # e /\ holder[g] # v
              /\ holder'[g] = holder[g] /\ holder[g] \in Places
          BY <2>1, <2>5, <3>1, <4>2, <5>1 DEF UsedPages
        <5> QED BY <2>4, <3>3, <5>1, <5>2
      <4> QED BY <4>1, <4>2
    <3>5. ASSUME NEW x \in UsedPages', pte'[x].loaded
          PROVE  pte'[x].frame \notin freeFrames' /\ holder'[pte'[x].frame] = x
      <4>1. CASE x = e
        BY <2>1, <2>5, <3>3, <4>1
      <4>2. CASE x # e
        <5>1. x # v
          BY <3>3, <3>5
        <5>2. pte'[x] = pte[x] /\ x \in UsedPages
          BY <2>4, <3>3, <4>2, <5>1 DEF UsedPages
        <5>3. pte[x].frame \notin freeFrames /\ holder[pte[x].frame] = x
          BY <3>5, <5>2 DEF FramesMatch
        <5>4. pte[x].frame # f
          BY <5>1, <5>3 DEF v
        <5> QED BY <2>5, <2>6, <5>2, <5>3, <5>4
      <4> QED BY <4>1, <4>2
    <3> QED BY <3>4, <3>5 DEF FramesMatch
  <2> QED BY <2>1, <2>7, <2>8
<1> QED BY <1>1, <1>2

-----------------------------------------------------------------------------
(* Clusters *)

ClustersMatch ==
  /\ \A d, e \in UsedPages : pte[d].cluster = pte[e].cluster => d = e
  /\ bitmap = {pte[e].cluster : e \in UsedPages}

LEMMA LossKeepsClusters ==
  ASSUME ClustersMatch, NEW es, Loses(es), bitmap' = bitmap \ ClustersOf(es)
  PROVE  ClustersMatch'
<1>1. \A e \in UsedPages' : e \in UsedPages /\ e \notin es /\ pte'[e] = pte[e]
  BY DEF Loses
<1>2. \A d, e \in UsedPages' : pte'[d].cluster = pte'[e].cluster => d = e
  BY <1>1 DEF ClustersMatch
<1>3. \A e \in UsedPages' : pte'[e].cluster \in bitmap'
  <2> SUFFICES ASSUME NEW e \in UsedPages', pte[e].cluster \in ClustersOf(es) PROVE FALSE
    BY <1>1 DEF ClustersMatch
  <2>1. PICK x \in es : pte[x].cluster = pte[e].cluster
    BY DEF ClustersOf
  <2> QED BY <1>1, <2>1 DEF ClustersMatch, Loses
<1>4. \A c \in bitmap' : \E e \in UsedPages' : pte'[e].cluster = c
  <2> SUFFICES ASSUME NEW c \in bitmap, c \notin ClustersOf(es)
               PROVE  \E e \in UsedPages' : pte'[e].cluster = c
    OBVIOUS
  <2>1. PICK e \in UsedPages : pte[e].cluster = c
    BY DEF ClustersMatch
  <2>2. e \notin es
    BY <2>1 DEF ClustersOf
  <2> QED BY <2>1, <2>2 DEF Loses
<1> QED BY <1>2, <1>3, <1>4 DEF ClustersMatch

\* While clusters last, each page gets one nobody has.
LEMMA FreshClusters ==
  ASSUME NEW k \in Nat, NEW cs, HandedOut(cs, k), RanOut(cs, k) = {},
         NEW i \in 0 .. k - 1
  PROVE  /\ cs[i] \in Clusters /\ cs[i] \notin bitmap
         /\ \A j \in 0 .. k - 1 : cs[i] = cs[j] => i = j
<1>1. ASSUME NEW h \in 0 .. k - 1
      PROVE  cs[h] \in Clusters /\ cs[h] \notin HandedBefore(cs, h)
  <2>1. Allocator!FirstFit(HandedBefore(cs, h), cs[h])
    BY DEF HandedOut
  <2>2. ~(Allocator!Usable \subseteq HandedBefore(cs, h))
    BY DEF RanOut
  <2>3. Allocator!Usable \subseteq Clusters
    BY DEF Allocator!Usable, Allocator!Clusters, Clusters
  <2> QED BY <2>1, <2>2, <2>3 DEF Allocator!FirstFit
<1>2. ASSUME NEW j \in 0 .. k - 1, NEW h \in 0 .. k - 1, j < h PROVE cs[j] # cs[h]
  <2>1. cs[j] \in HandedBefore(cs, h)
    BY <1>2 DEF HandedBefore
  <2> QED BY <1>1, <2>1
<1>3. cs[i] \notin bitmap
  BY <1>1 DEF HandedBefore
<1>4. ASSUME NEW j \in 0 .. k - 1, cs[i] = cs[j] PROVE i = j
  BY <1>2, <1>4
<1> QED BY <1>1, <1>3, <1>4

-----------------------------------------------------------------------------
(* Steps that set pages up *)

NewPages(o, s, k) == {e \in Places : e[1] = o /\ s <= e[2] /\ e[2] < s + k}

\* What the creation of a segment does to entries: k pages of o are new, and links
\* may take the place of entries nobody uses.
SetsUp(o, s, n, k, cs) ==
  /\ o \in Owners /\ s \in Nat /\ n \in Nat \ {0} /\ k \in 0 .. n /\ s + n <= NumPages
  /\ o \in Procs => k \in {0, n}
  /\ \A e \in NewPages(o, s, k) :
       /\ e \notin UsedPages
       /\ pte'[e].used /\ ~pte'[e].shared /\ ~pte'[e].loaded
       /\ e[2] = s => pte'[e].size = n
       /\ e[2] # s => pte'[e].size = 0
       /\ pte'[e].cluster = cs[e[2] - s]
  /\ \A e \in Places : e \notin NewPages(o, s, k) =>
       \/ pte'[e] = pte[e]
       \/ e[1] \in Procs /\ e \notin UsedPages /\ pte'[e].shared /\ pte'[e].size = 0
  /\ \A m \in Masters : life'[m] = "live" =>
       (life[m] = "live" /\ m # o) \/ (m = o /\ s = 0 /\ k = n)
  /\ HandedOut(cs, k)
  /\ bitmap' = HandedBefore(cs, k) \intersect Clusters
  /\ happened' = happened \union RanOut(cs, k)
  /\ UNCHANGED <<freeFrames, holder>>

LEMMA SetsUpGains ==
  ASSUME NEW o, NEW s, NEW n, NEW k, NEW cs, SetsUp(o, s, n, k, cs)
  PROVE  Gains(NewPages(o, s, k))
<1> DEFINE new == NewPages(o, s, k)
<1>1. \A e \in new : e \in Places /\ e \in UsedPages' /\ e \notin UsedPages /\ ~pte'[e].loaded
  BY DEF SetsUp, NewPages, UsedPages
<1>2. \A e \in Places : e \notin new =>
        pte'[e] = pte[e] \/ (e \notin UsedPages /\ e \notin UsedPages')
  BY DEF SetsUp, UsedPages
<1> HIDE DEF new
<1>3. UsedPages' = UsedPages \union new
  <2>1. ASSUME NEW e \in UsedPages' PROVE e \in UsedPages \union new
    BY <1>2 DEF UsedPages
  <2>2. ASSUME NEW e \in UsedPages PROVE e \in UsedPages'
    BY <1>1, <1>2 DEF UsedPages
  <2> QED BY <1>1, <2>1, <2>2
<1>4. \A e \in UsedPages : pte'[e] = pte[e]
  BY <1>1, <1>2 DEF UsedPages
<1>5. UNCHANGED <<freeFrames, holder>>
  BY DEF SetsUp
<1> QED BY <1>1, <1>3, <1>4, <1>5 DEF Gains, new

LEMMA SetsUpTiles ==
  ASSUME Tiled, NEW o, NEW s, NEW n, NEW k, NEW cs, SetsUp(o, s, n, k, cs)
  PROVE  Tiled'
<1> DEFINE new == NewPages(o, s, k)
           D   == {e \in Places : pte'[e] # pte[e] \/ e \in new}
<1>1. /\ o \in Owners /\ s \in Nat /\ n \in Nat \ {0} /\ k \in 0 .. n /\ s + n <= NumPages
      /\ o \in Procs => k \in {0, n}
  BY DEF SetsUp
<1>2. \A e \in D : e \notin UsedPages
  BY DEF SetsUp
<1>3. ASSUME NEW q, q \in s .. s + k - 1 PROVE <<o, q>> \in new
  <2>1. q \in Pages
    BY <1>1, <1>3, SpaceIsFinite DEF Pages
  <2>2. PICK e \in Places : e = <<o, q>> /\ e[1] = o /\ e[2] = q
    BY <1>1, <2>1, PlaceOf
  <2> QED BY <1>1, <1>3, <2>2 DEF NewPages
<1>4. \A e \in new : /\ e \in UsedPages'
                     /\ e[2] = s => pte'[e].size = n
                     /\ e[2] # s => pte'[e].size = 0
  BY DEF SetsUp, NewPages, UsedPages
<1>5. ASSUME NEW p \in Procs, NEW q \in Pages, <<p, q>> \in D PROVE TileAt(p, q)'
  <2>1. CASE <<p, q>> \in new /\ q = s
    <3>1. o = p /\ k = n
      BY <1>1, <2>1 DEF NewPages
    <3>2. pte'[<<p, q>>].size = n
      BY <1>4, <2>1
    <3>3. ASSUME NEW r \in s .. s + n - 1
          PROVE  <<p, r>> \in UsedPages' /\ (r # q => pte'[<<p, r>>].size = 0)
      <4>1. <<p, r>> \in new
        BY <1>3, <3>1, <3>3
      <4> QED BY <1>4, <2>1, <4>1
    <3> QED BY <2>1, <3>2, <3>3 DEF TileAt
  <2>2. CASE ~(<<p, q>> \in new /\ q = s)
    <3>1. pte'[<<p, q>>].size = 0
      BY <1>4, <1>5, <2>2 DEF SetsUp
    <3> QED BY <3>1 DEF TileAt
  <2> QED BY <2>1, <2>2
<1>6. ASSUME NEW p \in Procs, NEW q \in Pages, pte[<<p, q>>].size > 0,
             NEW r \in q .. q + pte[<<p, q>>].size - 1
      PROVE  <<p, r>> \notin D
  BY <1>2, <1>6 DEF Tiled, TileAt
<1>7. ASSUME NEW m \in Masters, life'[m] = "live"
      PROVE  Whole(m)' \/ (life[m] = "live" /\ \A q \in Pages : <<m, q>> \notin D)
  <2>1. CASE life[m] = "live" /\ m # o
    <3>1. ASSUME NEW q \in Pages PROVE <<m, q>> \notin D
      <4>1. <<m, q>> \notin new /\ <<m, q>>[1] \notin Procs /\ <<m, q>> \in Places
        BY <2>1, MasterPlaces, SharedSegmentsAssumption DEF NewPages
      <4> QED BY <4>1 DEF SetsUp
    <3> QED BY <2>1, <3>1
  <2>2. CASE m = o /\ s = 0 /\ k = n
    <3>1. \A q \in 0 .. n - 1 : <<m, q>> \in new
      BY <1>1, <1>3, <2>2
    <3>2. pte'[<<m, 0>>].size = n
      BY <1>1, <1>4, <2>2, <3>1
    <3> QED BY <1>1, <1>4, <3>1, <3>2 DEF Whole
  <2> QED BY <1>7, <2>1, <2>2 DEF SetsUp
<1>8. \A e \in Places : e \notin D => pte'[e] = pte[e]
  OBVIOUS
<1> HIDE DEF D
<1> QED BY <1>5, <1>6, <1>7, <1>8, TilesStay

LEMMA SetsUpClusters ==
  ASSUME ClustersMatch, bitmap \subseteq Clusters,
         NEW o, NEW s, NEW n, NEW k, NEW cs, SetsUp(o, s, n, k, cs), RanOut(cs, k) = {}
  PROVE  ClustersMatch'
<1> DEFINE new == NewPages(o, s, k)
<1>1. o \in Owners /\ s \in Nat /\ n \in Nat /\ k \in Nat /\ k <= n /\ s + n <= NumPages
  BY DEF SetsUp
<1>2. ASSUME NEW i \in 0 .. k - 1
      PROVE  /\ cs[i] \in Clusters /\ cs[i] \notin bitmap
             /\ \A j \in 0 .. k - 1 : cs[i] = cs[j] => i = j
  <2>1. HandedOut(cs, k)
    BY DEF SetsUp
  <2> QED BY <1>1, <2>1, FreshClusters
<1>3. /\ UsedPages' = UsedPages \union new
      /\ new \intersect UsedPages = {}
      /\ \A e \in UsedPages : pte'[e] = pte[e]
  BY SetsUpGains DEF Gains
<1>4. ASSUME NEW e \in new
      PROVE  /\ e = <<o, e[2]>> /\ e[2] \in Nat
             /\ e[2] - s \in 0 .. k - 1
             /\ pte'[e].cluster = cs[e[2] - s]
  <2>1. e \in Places /\ e[1] = o /\ s <= e[2] /\ e[2] < s + k
    BY DEF NewPages
  <2>2. e[2] \in Nat /\ e = <<e[1], e[2]>>
    BY <2>1, PlaceIsPair
  <2>3. e[2] - s \in 0 .. k - 1
    BY <1>1, <2>1, <2>2
  <2>4. pte'[e].cluster = cs[e[2] - s]
    BY DEF SetsUp
  <2> QED BY <2>1, <2>2, <2>3, <2>4
<1> HIDE DEF new
<1>5. \A e \in new : pte'[e].cluster \in Clusters /\ pte'[e].cluster \notin bitmap
  BY <1>2, <1>4
<1>6. \A e \in UsedPages : pte'[e].cluster \in bitmap
  BY <1>3 DEF ClustersMatch
<1>7. ASSUME NEW d \in UsedPages', NEW e \in UsedPages', pte'[d].cluster = pte'[e].cluster
      PROVE  d = e
  <2>1. CASE d \in UsedPages /\ e \in UsedPages
    BY <1>3, <1>7, <2>1 DEF ClustersMatch
  <2>2. CASE d \in new /\ e \in new
    <3>1. d[2] - s = e[2] - s
      BY <1>2, <1>4, <1>7, <2>2
    <3>2. d[2] = e[2]
      BY <1>1, <1>4, <2>2, <3>1
    <3> QED BY <1>4, <2>2, <3>2
  <2>3. CASE (d \in new /\ e \in UsedPages) \/ (d \in UsedPages /\ e \in new)
    BY <1>5, <1>6, <1>7, <2>3
  <2> QED BY <1>3, <2>1, <2>2, <2>3
<1>8. bitmap' = bitmap \union {cs[i] : i \in 0 .. k - 1}
  <2>1. bitmap' = HandedBefore(cs, k) \intersect Clusters
    BY DEF SetsUp
  <2> QED BY <1>2, <2>1 DEF HandedBefore
<1>9. ASSUME NEW i \in 0 .. k - 1 PROVE \E e \in UsedPages' : pte'[e].cluster = cs[i]
  <2>1. s + i \in Pages
    BY <1>1, SpaceIsFinite DEF Pages
  <2>2. PICK e \in Places : e = <<o, s + i>> /\ e[1] = o /\ e[2] = s + i
    BY <1>1, <2>1, PlaceOf
  <2>3. e \in new
    BY <1>1, <2>2 DEF new, NewPages
  <2>4. e[2] - s = i
    BY <1>1, <2>2
  <2> QED BY <1>3, <1>4, <2>3, <2>4
<1>10. {pte'[e].cluster : e \in UsedPages'} \subseteq bitmap'
  BY <1>3, <1>4, <1>6, <1>8
<1>11. bitmap' \subseteq {pte'[e].cluster : e \in UsedPages'}
  BY <1>3, <1>8, <1>9 DEF ClustersMatch
<1> QED BY <1>7, <1>10, <1>11 DEF ClustersMatch

-----------------------------------------------------------------------------
(* Steps that set entries unused *)

Unsets(D) ==
  /\ \A e \in Places : e \in D => ~pte'[e].used /\ pte'[e].size = 0
  /\ \A e \in Places : e \notin D => pte'[e] = pte[e]
  /\ \A p \in Procs, q \in Pages : <<p, q>> \notin D /\ pte[<<p, q>>].size > 0 =>
       \A r \in q .. q + pte[<<p, q>>].size - 1 : <<p, r>> \notin D
  /\ \A m \in Masters : life'[m] = "live" =>
       life[m] = "live" /\ \A q \in Pages : <<m, q>> \notin D
  /\ freeFrames' = freeFrames \union FramesOf(D \intersect UsedPages)
  /\ UNCHANGED holder

LEMMA UnsetsLoses ==
  ASSUME NEW D, Unsets(D)
  PROVE  Loses(D \intersect UsedPages)
BY DEF Unsets, Loses, UsedPages

LEMMA UnsetsTiles ==
  ASSUME Tiled, NEW D, Unsets(D)
  PROVE  Tiled'
<1>1. ASSUME NEW p \in Procs, NEW q \in Pages, <<p, q>> \in D PROVE TileAt(p, q)'
  <2>1. pte'[<<p, q>>].size = 0
    BY <1>1, PlaceOf DEF Unsets, Owners
  <2> QED BY <2>1 DEF TileAt
<1> QED BY <1>1, TilesStay DEF Unsets

-----------------------------------------------------------------------------
(* What each call does to pages, as long as it is quiet *)

SomeSetUp == \E o, s, n, k, cs : SetsUp(o, s, n, k, cs)

SomeUnset ==
  \E D : /\ Unsets(D)
         /\ bitmap' = bitmap \ ClustersOf(D \intersect UsedPages)
              \/ "destroyedConnected" \in happened'

\* The steps that leave all pages alone.
LEMMA NothingUnset ==
  ASSUME pte' = pte, freeFrames' = freeFrames, holder' = holder, bitmap' = bitmap,
         \A m \in Masters : life'[m] = "live" => life[m] = "live"
  PROVE  SomeUnset
<1>1. Unsets({})
  BY DEF Unsets, FramesOf
<1>2. bitmap' = bitmap \ ClustersOf({} \intersect UsedPages)
  BY DEF ClustersOf
<1> QED BY <1>1, <1>2 DEF SomeUnset

LEMMA CrashIsQuiet ==
  ASSUME NEW how, Crashes(how)
  PROVE  SomeUnset
BY NothingUnset DEF Crashes

LEMMA CreateProcessQuiet ==
  ASSUME GInv, NEW p \in Procs, CreateProcess(p)
  PROVE  SomeUnset
<1>1. \A m \in Masters : life'[m] = life[m]
  BY SharedSegmentsAssumption DEF CreateProcess, GInv, LInv, Typed, Owners
<1> QED BY <1>1, NothingUnset DEF CreateProcess

\* The room a segment is set up in has no page in use.
LEMMA FreeRoom ==
  ASSUME GInv, HInv, NEW p \in Procs, NEW s \in Pages, NEW n \in Nat,
         HaveFreeFromAddress(p, s, n), NEW q \in s .. s + n - 1
  PROVE  q \in Pages /\ <<p, q>> \notin UsedPages
<1>1. q \in Pages
  BY SpaceIsFinite DEF HaveFreeFromAddress, Pages
<1>2. ASSUME <<p, q>> \in UsedPages PROVE FALSE
  <2>1. pte[<<p, q>>].used /\ ~pte[<<p, q>>].shared
    BY <1>2 DEF UsedPages
  <2>2. HasEntry(p, q)
    BY <1>1, <2>1 DEF HInv, OwnTables, HasEntry, Owners
  <2>3. Resolve(<<p, q>>) = <<p, q>>
    BY <2>1 DEF Resolve
  <2> QED BY <2>1, <2>2, <2>3 DEF HaveFreeFromAddress, IsTaken
<1> QED BY <1>1, <1>2

LEMMA CreateSegmentQuiet ==
  ASSUME GInv, HInv, NEW p \in Procs, NEW s \in Pages, NEW n \in SegmentSizes,
         CreateSegment(p, s, n)
  PROVE  SomeSetUp
<1>1. PICK cs :
        /\ HandedOut(cs, n)
        /\ pte' = SetUp(p, s, n, n, cs)
        /\ bitmap' = HandedBefore(cs, n) \intersect Clusters
        /\ happened' = happened \union RanOut(cs, n)
  BY DEF CreateSegment
<1>2. n \in Nat \ {0} /\ s \in Nat /\ s + n <= NumPages
  BY SharedSegmentsAssumption DEF CreateSegment, HaveFreeFromAddress, Pages
<1>3. ASSUME NEW e \in NewPages(p, s, n)
      PROVE  /\ e \notin UsedPages
             /\ pte'[e].used /\ ~pte'[e].shared /\ ~pte'[e].loaded
             /\ e[2] = s => pte'[e].size = n
             /\ e[2] # s => pte'[e].size = 0
             /\ pte'[e].cluster = cs[e[2] - s]
  <2>1. e \in Places /\ e[1] = p /\ s <= e[2] /\ e[2] < s + n /\ e = <<p, e[2]>> /\ e[2] \in Nat
    BY PlaceIsPair DEF NewPages
  <2>2. e[2] \in s .. s + n - 1
    BY <1>2, <2>1
  <2>3. e \notin UsedPages
    BY <1>2, <2>1, <2>2, FreeRoom DEF CreateSegment
  <2> QED BY <1>1, <1>2, <2>1, <2>3, SetUpUses
<1>4. ASSUME NEW e \in Places, e \notin NewPages(p, s, n) PROVE pte'[e] = pte[e]
  <2>1. ~(e[1] = p /\ e[2] \in s .. s + n - 1)
    BY <1>2, <1>4, PageBounds DEF NewPages
  <2> QED BY <1>1, <2>1, SetUpOutside
<1>5. /\ \A m \in Masters : m # p /\ life'[m] = life[m]
      /\ UNCHANGED <<freeFrames, holder>>
  BY SharedSegmentsAssumption DEF CreateSegment
<1>6. SetsUp(p, s, n, n, cs)
  BY <1>1, <1>2, <1>3, <1>4, <1>5 DEF SetsUp, Owners
<1> QED BY <1>6 DEF SomeSetUp

\* Linking changes entries of the process that nobody used, and no others.
LEMMA LinkedRoom ==
  ASSUME GInv, HInv, NEW p \in Procs, NEW s \in Pages, NEW n \in Nat,
         HaveFreeFromAddress(p, s, n), NEW m, NEW ts, NEW left,
         NEW entries, NEW new, new = LinkPages(entries, p, s, m, Linked(p, s, n, ts, left)),
         NEW e \in Places
  PROVE  \/ new[e] = entries[e]
         \/ /\ e[1] = p /\ e \notin UsedPages
            /\ new[e].used /\ new[e].shared /\ new[e].size = 0
            /\ new[e].target = <<m, e[2] - s>>
<1> DEFINE linked == Linked(p, s, n, ts, left)
<1>1. CASE e[1] = p /\ e[2] - s \in linked
  <2>1. e[2] \in s .. s + n - 1 /\ e = <<p, e[2]>>
    BY <1>1, PlaceIsPair DEF Linked, Pages
  <2>2. e \notin UsedPages
    BY <2>1, FreeRoom
  <2>3. new[e] = Link(<<m, e[2] - s>>)
    BY <1>1 DEF LinkPages
  <2> QED BY <1>1, <2>2, <2>3, LinkFields
<1>2. CASE ~(e[1] = p /\ e[2] - s \in linked)
  BY <1>2 DEF LinkPages
<1> QED BY <1>1, <1>2

LEMMA ConnectSharedQuiet ==
  ASSUME GInv, HInv, NEW p \in Procs, NEW s \in Pages, NEW n \in SegmentSizes,
         NEW name \in Names, ConnectShared(p, s, n, name)
  PROVE  SomeSetUp
<1>1. PICK x, ts, left : pte' = LinkPages(pte, p, s, x, Linked(p, s, n, ts, left))
  BY DEF ConnectShared, ConnectTo
<1>2. n \in Nat \ {0} /\ s \in Nat /\ s + n <= NumPages /\ HaveFreeFromAddress(p, s, n)
  BY SharedSegmentsAssumption DEF ConnectShared, HaveFreeFromAddress, Pages
<1>3. \A e \in Places : \/ pte'[e] = pte[e]
                        \/ /\ e[1] \in Procs /\ e \notin UsedPages
                           /\ pte'[e].shared /\ pte'[e].size = 0
  BY <1>1, <1>2, LinkedRoom
<1>4. NewPages(p, s, 0) = {}
  BY <1>2, PageBounds DEF NewPages
<1>5. PICK cs : cs = 0
  OBVIOUS
<1>6. HandedOut(cs, 0) /\ HandedBefore(cs, 0) = bitmap /\ RanOut(cs, 0) = {}
  BY DEF HandedOut, HandedBefore, RanOut
<1>7. /\ bitmap' = bitmap /\ bitmap \subseteq Clusters /\ happened' = happened
      /\ \A m \in Masters : life'[m] = life[m] /\ m # p
      /\ UNCHANGED <<freeFrames, holder>>
  BY SharedSegmentsAssumption DEF ConnectShared, GInv, TInv, RestTyped
<1>8. SetsUp(p, s, n, 0, cs)
  BY <1>2, <1>3, <1>4, <1>6, <1>7 DEF SetsUp, Owners
<1> QED BY <1>8 DEF SomeSetUp

\* The pages of a master that is set up, in entries whose master nobody had.
LEMMA MasterSetUp ==
  ASSUME GInv, SInv, HInv, NEW m \in Masters, life[m] = "none",
         NEW n \in Nat, NEW k \in 0 .. n, NEW cs,
         NEW entries, entries = SetUp(m, 0, n, k, cs)
  PROVE  /\ \A e \in NewPages(m, 0, k) :
              /\ e \notin UsedPages
              /\ entries[e].used /\ ~entries[e].shared /\ ~entries[e].loaded
              /\ e[2] = 0 => entries[e].size = n
              /\ e[2] # 0 => entries[e].size = 0
              /\ entries[e].cluster = cs[e[2] - 0]
         /\ \A e \in Places : e \notin NewPages(m, 0, k) => entries[e] = pte[e]
<1>1. ASSUME NEW e \in NewPages(m, 0, k)
      PROVE  /\ e \notin UsedPages
             /\ entries[e].used /\ ~entries[e].shared /\ ~entries[e].loaded
             /\ e[2] = 0 => entries[e].size = n
             /\ e[2] # 0 => entries[e].size = 0
             /\ entries[e].cluster = cs[e[2] - 0]
  <2>1. e \in Places /\ e[1] = m /\ 0 <= e[2] /\ e[2] < 0 + k /\ e = <<m, e[2]>> /\ e[2] \in Pages
    BY PlaceIsPair DEF NewPages
  <2>2. ~pte[e].used
    BY <2>1, FreshMaster
  <2> QED BY <2>1, <2>2, SetUpUses DEF UsedPages
<1>2. ASSUME NEW e \in Places, e \notin NewPages(m, 0, k) PROVE entries[e] = pte[e]
  <2>1. ~(e[1] = m /\ e[2] \in 0 .. 0 + k - 1)
    BY <1>2, PageBounds DEF NewPages
  <2> QED BY <2>1, SetUpOutside
<1> QED BY <1>1, <1>2

LEMMA CreateSharedQuiet ==
  ASSUME GInv, SInv, HInv, NEW p \in Procs, NEW s \in Pages, NEW n \in SegmentSizes,
         NEW name \in Names, NEW m \in Masters, CreateShared(p, s, n, name, m)
  PROVE  SomeSetUp
<1>1. PICK cs, entries, left :
        /\ entries = SetUp(m, 0, n, n, cs)
        /\ pte' = LinkPages(entries, p, s, m, Linked(p, s, n, TablesFor(n), left))
        /\ HandedOut(cs, n)
        /\ bitmap' = HandedBefore(cs, n) \intersect Clusters
        /\ happened' = happened \union RanOut(cs, n)
  BY DEF CreateShared, ConnectTo
<1>2. /\ n \in Nat \ {0} /\ n \in Nat /\ n \in 0 .. n /\ 0 + n <= NumPages
      /\ HaveFreeFromAddress(p, s, n) /\ life[m] = "none"
  BY SharedSegmentsAssumption, SpaceIsFinite DEF CreateShared, HaveFreeFromAddress, Pages
<1>3. ASSUME NEW e \in Places
      PROVE  \/ pte'[e] = entries[e]
             \/ e[1] = p /\ e \notin UsedPages /\ pte'[e].shared /\ pte'[e].size = 0
  BY <1>1, <1>2, LinkedRoom
<1>4. p # m
  BY SharedSegmentsAssumption
<1>5. ASSUME NEW e \in NewPages(m, 0, n)
      PROVE  /\ e \notin UsedPages
             /\ pte'[e].used /\ ~pte'[e].shared /\ ~pte'[e].loaded
             /\ e[2] = 0 => pte'[e].size = n
             /\ e[2] # 0 => pte'[e].size = 0
             /\ pte'[e].cluster = cs[e[2] - 0]
  <2>1. e \in Places /\ e[1] # p
    BY <1>4 DEF NewPages
  <2>2. pte'[e] = entries[e]
    BY <1>3, <2>1
  <2> QED BY <1>1, <1>2, <2>2, MasterSetUp
<1>6. ASSUME NEW e \in Places, e \notin NewPages(m, 0, n)
      PROVE  \/ pte'[e] = pte[e]
             \/ e[1] \in Procs /\ e \notin UsedPages /\ pte'[e].shared /\ pte'[e].size = 0
  <2>1. entries[e] = pte[e]
    BY <1>1, <1>2, <1>6, MasterSetUp
  <2> QED BY <1>3, <2>1
<1>7. \A x \in Masters : x # m => life'[x] = life[x]
  BY DEF CreateShared, GInv, LInv, Typed, Owners
<1>8. UNCHANGED <<freeFrames, holder>> /\ m \in Owners /\ m \notin Procs
  BY SharedSegmentsAssumption DEF CreateShared, Owners
<1>9. SetsUp(m, 0, n, n, cs)
  BY <1>1, <1>2, <1>5, <1>6, <1>7, <1>8 DEF SetsUp
<1> QED BY <1>9 DEF SomeSetUp

LEMMA CreateSharedFailsQuiet ==
  ASSUME GInv, SInv, HInv, NEW p \in Procs, NEW s \in Pages, NEW n \in SegmentSizes,
         NEW name \in Names, NEW m \in Masters, CreateSharedFails(p, s, n, name, m)
  PROVE  SomeSetUp \/ SomeUnset
<1>1. CASE HasEntry(p, s)
  BY <1>1, CrashIsQuiet DEF CreateSharedFails
<1>2. CASE ~HasEntry(p, s)
  <2> DEFINE held == {q \in 0 .. n - 1 : TableOf(q) \in {t \in Tables : t < freeSlabs - 1}}
             k    == Cardinality(held)
  <2>1. PICK cs : /\ HandedOut(cs, k)
                  /\ pte' = SetUp(m, 0, n, k, cs)
                  /\ bitmap' = HandedBefore(cs, k) \intersect Clusters
                  /\ happened' = happened \union RanOut(cs, k)
    BY <1>2 DEF CreateSharedFails
  <2>2. n \in Nat \ {0} /\ n <= NumPages /\ 0 + n <= NumPages
    BY SharedSegmentsAssumption, SpaceIsFinite
       DEF CreateSharedFails, HaveFreeFromAddress, Pages
  <2>3. k \in 0 .. n
    <3>1. freeSlabs - 1 \in Int
      BY DEF GInv, TInv, RestTyped
    <3>2. PICK limit : limit = freeSlabs - 1
      OBVIOUS
    <3>3. held = {q \in 0 .. n - 1 : TableOf(q) \in {t \in Tables : t < limit}}
      BY <3>2
    <3> HIDE DEF held
    <3>4. Cardinality(held) \in 0 .. n
      BY <2>2, <3>1, <3>2, <3>3, FirstPages
    <3> QED BY <3>4
  <2> HIDE DEF k
  <2>4. /\ life[m] = "none" /\ life'[m] = "lost"
        /\ \A x \in Masters : x # m => life'[x] = life[x]
        /\ UNCHANGED <<freeFrames, holder>>
        /\ m \in Owners /\ m \notin Procs
    BY <1>2, SharedSegmentsAssumption DEF CreateSharedFails, GInv, LInv, Typed, Owners
  <2>5. PICK entries : entries = pte'
    OBVIOUS
  <2>6. /\ \A e \in NewPages(m, 0, k) :
              /\ e \notin UsedPages
              /\ entries[e].used /\ ~entries[e].shared /\ ~entries[e].loaded
              /\ e[2] = 0 => entries[e].size = n
              /\ e[2] # 0 => entries[e].size = 0
              /\ entries[e].cluster = cs[e[2] - 0]
        /\ \A e \in Places : e \notin NewPages(m, 0, k) => entries[e] = pte[e]
    BY <2>1, <2>2, <2>3, <2>4, <2>5, MasterSetUp
  <2>7. SetsUp(m, 0, n, k, cs)
    BY <2>1, <2>2, <2>3, <2>4, <2>5, <2>6 DEF SetsUp
  <2> QED BY <2>7 DEF SomeSetUp
<1> QED BY <1>1, <1>2

LEMMA DestroyProcessQuiet ==
  ASSUME GInv, NEW p \in Procs, DestroyProcess(p)
  PROVE  SomeUnset
<1> DEFINE D == {e \in Places : e[1] = p}
<1>1. D \intersect UsedPages = OwnUsed(p)
  BY DEF UsedPages, OwnUsed
<1>2. \A e \in Places : IF e \in D THEN pte'[e] = ZeroEntry ELSE pte'[e] = pte[e]
  BY DEF DestroyProcess
<1>3. \A e \in D : e[1] = p
  OBVIOUS
<1>4. \A o \in Owners, q \in Pages : o = p => <<o, q>> \in D
  BY PlaceOf
<1> HIDE DEF D
<1>5. ASSUME NEW o \in Procs, NEW q \in Pages, <<o, q>> \notin D, NEW r PROVE <<o, r>> \notin D
  BY <1>3, <1>4, <1>5 DEF Owners
<1>6. ASSUME NEW m \in Masters PROVE life'[m] = life[m] /\ \A q \in Pages : <<m, q>> \notin D
  BY <1>3, SharedSegmentsAssumption DEF DestroyProcess, GInv, LInv, Typed, Owners
<1>7. freeFrames' = freeFrames \union FramesOf(D \intersect UsedPages) /\ holder' = holder
  BY <1>1 DEF DestroyProcess
<1>8. Unsets(D)
  BY <1>2, <1>5, <1>6, <1>7, ZeroFields DEF Unsets
<1>9. ASSUME "destroyedConnected" \notin happened'
      PROVE  bitmap' = bitmap \ ClustersOf(D \intersect UsedPages)
  <2>1. UsedLinks(p) = {}
    BY <1>9 DEF DestroyProcess
  <2>2. PICK garbage \in Garbage(p) : bitmap' = (bitmap \ ClustersOf(OwnUsed(p))) \ garbage
    BY DEF DestroyProcess
  <2>3. garbage \subseteq Clusters /\ Cardinality(garbage) <= Cardinality(UsedLinks(p))
    BY DEF Garbage
  <2>4. Cardinality(garbage) <= 0
    BY <2>1, <2>3, FS_EmptySet
  <2>5. IsFiniteSet(Clusters)
    BY SharedSegmentsAssumption, FS_Interval DEF Clusters
  <2>6. IsFiniteSet(garbage) /\ Cardinality(garbage) \in Nat
    BY <2>3, <2>5, FS_Subset, FS_CardinalityType
  <2>7. garbage = {}
    BY <2>4, <2>6, FS_EmptySet
  <2> QED BY <1>1, <2>2, <2>7
<1> QED BY <1>8, <1>9 DEF SomeUnset

\* A segment deleted quietly is a private one, and its pages are the ones walked.
LEMMA WalkIsOwn ==
  ASSUME GInv, HInv, Tiled, NEW p \in Procs, NEW s \in Pages, DeleteSegment(p, s), Quiet'
  PROVE  /\ Walked(p, s) = {<<p, q>> : q \in Walk(p, s)}
         /\ WalkedTwice(p, s) = {}
         /\ Walk(p, s) = s .. s + pte[<<p, s>>].size - 1 /\ pte[<<p, s>>].size > 0
         /\ \A q \in Walk(p, s) : <<p, q>> \in UsedPages /\ q \in Pages
<1>1. \A e \in Walked(p, s) : e[1] = p
  <2>1. "deletedAsPrivate" \notin happened'
    BY DEF Quiet, Spared
  <2> QED BY <2>1 DEF DeleteSegment
<1>2. ASSUME NEW q \in Walk(p, s) PROVE Resolve(<<p, q>>) = <<p, q>> /\ q \in Pages
  <2>1. q \in Pages /\ Resolve(<<p, q>>) # NoPage
    BY DEF DeleteSegment, CanWalk, HasEntry, IsNull
  <2>2. CASE pte[<<p, q>>].shared
    <3>1. <<p, q>> \in Places /\ Resolve(<<p, q>>) = pte[<<p, q>>].target
      BY <2>1, <2>2, PlaceOf DEF Resolve, Owners
    <3>2. PICK m \in Masters, r \in Pages : Resolve(<<p, q>>) = <<m, r>>
      BY <2>1, <2>2, <3>1 DEF GInv, LInv, Linking
    <3>3. Resolve(<<p, q>>) \in Walked(p, s)
      BY DEF Walked
    <3> QED BY <1>1, <3>2, <3>3, SharedSegmentsAssumption
  <2> QED BY <2>1, <2>2 DEF Resolve
<1>3. s \in Walk(p, s) /\ SizeAt(p, s) > 0
  <2>1. Resolve(<<p, s>>) \in Places
    BY ResolvesToPlace DEF DeleteSegment, IsNull, HasEntry, GInv, LInv
  <2>2. SizeAt(p, s) \in Nat
    BY <2>1 DEF SizeAt, GInv, LInv, Typed, PageTableEntries
  <2> QED BY <2>2 DEF Walk, DeleteSegment, Pages
<1>4. SizeAt(p, s) = pte[<<p, s>>].size
  BY <1>2, <1>3 DEF SizeAt
<1>5. Walked(p, s) = {<<p, q>> : q \in Walk(p, s)}
  BY <1>2 DEF Walked
<1>6. \A q \in Walk(p, s) : <<p, q>> \in UsedPages
  BY <1>3, <1>4 DEF Walk, Tiled, TileAt
<1>7. ASSUME NEW e \in WalkedTwice(p, s) PROVE FALSE
  <2> DEFINE Q == {q \in Walk(p, s) : Resolve(<<p, q>>) = e}
  <2>1. Cardinality(Q) > 1
    BY DEF WalkedTwice
  <2>2. PICK q \in Walk(p, s) : e = <<p, q>>
    BY <1>5 DEF WalkedTwice
  <2>3. Q = {q}
    BY <1>2, <2>2
  <2> HIDE DEF Q
  <2>4. Cardinality(Q) = 1
    BY <2>3, FS_Singleton
  <2> QED BY <2>1, <2>4
<1> QED BY <1>2, <1>3, <1>4, <1>5, <1>6, <1>7 DEF Walk

LEMMA DeleteSegmentQuiet ==
  ASSUME GInv, HInv, Tiled, NEW p \in Procs, NEW s \in Pages, DeleteSegment(p, s), Quiet'
  PROVE  SomeUnset
<1> DEFINE D == Walked(p, s)
           n == pte[<<p, s>>].size
<1>1. /\ D = {<<p, q>> : q \in s .. s + n - 1} /\ n > 0
      /\ WalkedTwice(p, s) = {}
      /\ \A q \in s .. s + n - 1 : <<p, q>> \in UsedPages /\ q \in Pages
  BY WalkIsOwn
<1>2. D \intersect UsedPages = D
  BY <1>1
<1>3. \A e \in Places : IF e \in D THEN pte'[e] = SetUnused(pte[e]) ELSE pte'[e] = pte[e]
  BY DEF DeleteSegment
<1>4. /\ freeFrames' = freeFrames \union FramesOf(D)
      /\ bitmap' = bitmap \ ClustersOf(D)
      /\ UNCHANGED <<life, holder>>
  BY <1>1 DEF DeleteSegment
<1> HIDE DEF D, n
<1>5. ASSUME NEW o \in Procs, NEW q \in Pages, <<o, q>> \notin D, pte[<<o, q>>].size > 0,
             NEW r \in q .. q + pte[<<o, q>>].size - 1
      PROVE  <<o, r>> \notin D
  <2> SUFFICES ASSUME o = p, r \in s .. s + n - 1 PROVE FALSE
    BY <1>1
  <2>1. <<p, q>> \in Places /\ <<p, s>> \in Places
    BY PlaceOf DEF Owners
  <2>2. /\ pte[<<p, q>>].size \in Nat /\ n \in Nat
        /\ q \in Nat /\ s \in Nat /\ r \in Int /\ s <= r /\ q <= r
        /\ r < s + n /\ r < q + pte[<<p, q>>].size
    BY <2>1, SpaceIsFinite DEF GInv, LInv, Typed, PageTableEntries, n, Pages
  <2>3. TileAt(p, q) /\ TileAt(p, s)
    BY DEF Tiled
  <2>4. CASE s <= q
    <3>1. q \in s .. s + n - 1
      BY <2>2, <2>4
    <3> QED BY <1>1, <1>5, <3>1
  <2>5. CASE q < s
    <3>1. s \in q .. q + pte[<<p, q>>].size - 1 /\ s # q
      BY <2>2, <2>5
    <3>2. n = 0
      BY <1>5, <2>3, <3>1 DEF TileAt, n
    <3> QED BY <1>1, <3>2
  <2> QED BY <2>2, <2>4, <2>5
<1>6. ASSUME NEW m \in Masters, NEW q \in Pages PROVE <<m, q>> \notin D
  BY <1>1, SharedSegmentsAssumption
<1>7. Unsets(D)
  BY <1>2, <1>3, <1>4, <1>5, <1>6, SetUnusedFields DEF Unsets
<1> QED BY <1>2, <1>4, <1>7 DEF SomeUnset

\* What a quiet call unlinks are links.
LEMMA UnlinkedAreLinks ==
  ASSUME NEW es, happened' = happened \union Strays(es), Quiet'
  PROVE  \A e \in es : e \notin UsedPages
<1>1. "disconnectedPrivate" \notin happened'
  BY DEF Quiet, Spared
<1> QED BY <1>1 DEF Strays, UsedPages

LEMMA LinksUnset ==
  ASSUME Tiled, NEW D, \A e \in D : e \notin UsedPages,
         \A m \in Masters, q \in Pages : <<m, q>> \notin D,
         \A e \in Places : IF e \in D THEN pte'[e] = SetUnused(pte[e]) ELSE pte'[e] = pte[e],
         UNCHANGED <<life, freeFrames, holder, bitmap>>
  PROVE  SomeUnset
<1>1. D \intersect UsedPages = {}
  OBVIOUS
<1>2. FramesOf({}) = {} /\ ClustersOf({}) = {}
  BY DEF FramesOf, ClustersOf
<1>3. ASSUME NEW o \in Procs, NEW q \in Pages, pte[<<o, q>>].size > 0,
             NEW r \in q .. q + pte[<<o, q>>].size - 1
      PROVE  <<o, r>> \notin D
  BY <1>3 DEF Tiled, TileAt
<1>4. Unsets(D)
  BY <1>1, <1>2, <1>3, SetUnusedFields DEF Unsets
<1> QED BY <1>1, <1>2, <1>4 DEF SomeUnset

LEMMA DisconnectSharedQuiet ==
  ASSUME GInv, Tiled, NEW p \in Procs, NEW name \in Names, DisconnectShared(p, name), Quiet'
  PROVE  SomeUnset
<1>1. PICK c \in connected[name] :
        IF CanUnlink(p, c[2])
          THEN /\ pte' = [e \in Places |-> IF e \in Unlinked(p, c[2])
                                             THEN SetUnused(pte[e]) ELSE pte[e]]
               /\ happened' = happened \union Strays(Unlinked(p, c[2]))
               /\ UNCHANGED <<life, freeFrames, holder, bitmap>>
          ELSE Crashes(HowUnlinkFails(p))
  BY DEF DisconnectShared
<1>2. CASE CanUnlink(p, c[2])
  <2>1. \A m \in Masters, q \in Pages : <<m, q>> \notin Unlinked(p, c[2])
    BY UnlinkedApart
  <2>2. \A e \in Unlinked(p, c[2]) : e \notin UsedPages
    BY <1>1, <1>2, UnlinkedAreLinks
  <2> QED BY <1>1, <1>2, <2>1, <2>2, LinksUnset
<1>3. CASE ~CanUnlink(p, c[2])
  BY <1>1, <1>3, CrashIsQuiet
<1> QED BY <1>2, <1>3

LEMMA DeleteSharedQuiet ==
  ASSUME GInv, SInv, HInv, Tiled, NEW p \in Procs, NEW name \in Names,
         DeleteShared(p, name), Quiet'
  PROVE  SomeUnset
<1> DEFINE m        == registry[name]
           unlinked == UNION {Unlinked(c[1], c[2]) : c \in connected[name]}
           D        == unlinked \union MasterPages(m)
<1>1. m \in Masters /\ life[m] = "live" /\ Whole(m)
  <2>1. m # NoMaster /\ m \in Masters
    BY DEF DeleteShared, GInv, TInv, Named, LInv, Typed
  <2> QED BY <2>1 DEF SInv, Registered, Tiled
<1>2. \A e \in unlinked : e \notin UsedPages
  <2>1. happened' = happened \union Strays(unlinked)
    BY DEF DeleteShared
  <2> QED BY <2>1, UnlinkedAreLinks
<1>3. MasterPages(m) \subseteq UsedPages
  BY <1>1 DEF Whole, MasterPages
<1>4. D \intersect UsedPages = MasterPages(m)
  BY <1>2, <1>3
<1>5. \A e \in Places : IF e \in D THEN pte'[e] = SetUnused(pte[e]) ELSE pte'[e] = pte[e]
  BY DEF DeleteShared
<1>6. /\ freeFrames' = freeFrames \union FramesOf(MasterPages(m))
      /\ bitmap' = bitmap \ ClustersOf(MasterPages(m))
      /\ life' = [life EXCEPT ![m] = "deleted"]
      /\ holder' = holder
  BY DEF DeleteShared
<1>7. ASSUME NEW x \in Masters, NEW q \in Pages PROVE <<x, q>> \notin unlinked
  <2>1. \A c \in connected[name] : c[1] \in Procs
    BY DEF GInv, TInv, RestTyped
  <2> QED BY <2>1, UnlinkedApart
<1>8. ASSUME NEW x \in Masters, life'[x] = "live"
      PROVE  life[x] = "live" /\ \A q \in Pages : <<x, q>> \notin D
  <2>1. x # m /\ life'[x] = life[x]
    BY <1>1, <1>6, <1>8 DEF GInv, LInv, Typed, Owners
  <2>2. \A q \in Pages : <<x, q>> \notin MasterPages(m)
    BY <2>1 DEF MasterPages
  <2> QED BY <1>7, <1>8, <2>1, <2>2
<1>9. ASSUME NEW o \in Procs, NEW q \in Pages, pte[<<o, q>>].size > 0,
             NEW r \in q .. q + pte[<<o, q>>].size - 1
      PROVE  <<o, r>> \notin D
  <2>1. <<o, r>> \in UsedPages
    BY <1>9 DEF Tiled, TileAt
  <2>2. o # m
    BY <1>1, SharedSegmentsAssumption
  <2> HIDE DEF m
  <2> QED BY <1>2, <2>1, <2>2 DEF MasterPages
<1> HIDE DEF D, m, unlinked
<1>10. Unsets(D)
  BY <1>4, <1>5, <1>6, <1>8, <1>9, SetUnusedFields DEF Unsets
<1> QED BY <1>4, <1>6, <1>10 DEF SomeUnset

\* Each step of the system, as long as it is quiet, sets pages up, sets entries
\* unused or brings a page in.
LEMMA QuietSteps ==
  ASSUME GInv, SInv, HInv, Tiled, [Next]_vars, Quiet'
  PROVE  SomeSetUp \/ SomeUnset \/ \E p \in Procs, q \in Pages : PageFault(p, q)
<1> DEFINE Kinds == SomeSetUp \/ SomeUnset \/ \E p \in Procs, q \in Pages : PageFault(p, q)
<1>0. ASSUME NEW how, Crashes(how) PROVE Kinds
  BY <1>0, CrashIsQuiet
<1>1. ASSUME UNCHANGED vars PROVE Kinds
  BY <1>1, NothingUnset DEF vars
<1>2. ASSUME NEW p \in Procs, CreateProcess(p) \/ DestroyProcess(p) PROVE Kinds
  BY <1>2, CreateProcessQuiet, DestroyProcessQuiet
<1>3. ASSUME NEW p \in Procs, NEW s \in Pages,
             PageFault(p, s) \/ DeleteSegment(p, s) \/ DeleteSegmentCrashes(p, s)
      PROVE  Kinds
  BY <1>0, <1>3, DeleteSegmentQuiet DEF DeleteSegmentCrashes
<1>4. ASSUME NEW p \in Procs, NEW s \in Pages, NEW n \in SegmentSizes,
             CreateSegment(p, s, n) \/ CreateCrashes(p, s, n)
      PROVE  Kinds
  BY <1>0, <1>4, CreateSegmentQuiet DEF CreateCrashes
<1>5. ASSUME NEW p \in Procs, NEW s \in Pages, NEW n \in SegmentSizes, NEW name \in Names,
             \/ ConnectShared(p, s, n, name)
             \/ \E m \in Masters : \/ CreateShared(p, s, n, name, m)
                                   \/ CreateSharedFails(p, s, n, name, m)
      PROVE  Kinds
  BY <1>5, ConnectSharedQuiet, CreateSharedQuiet, CreateSharedFailsQuiet
<1>6. ASSUME NEW p \in Procs, NEW name \in Names,
             \/ DisconnectShared(p, name)
             \/ DeleteShared(p, name)
             \/ DeleteSharedCrashes(p, name)
      PROVE  Kinds
  BY <1>0, <1>6, DisconnectSharedQuiet, DeleteSharedQuiet DEF DeleteSharedCrashes
<1> HIDE DEF Kinds
<1>7. Kinds
  BY <1>1, <1>2, <1>3, <1>4, <1>5, <1>6 DEF Next
<1> QED BY <1>7 DEF Kinds

\* What happened stays part of the history.
LEMMA HistoryGrows == [Next]_vars => happened \subseteq happened'
<1> SUFFICES ASSUME [Next]_vars PROVE happened \subseteq happened'
  OBVIOUS
<1>0. ASSUME NEW how, Crashes(how) PROVE happened' = happened
  BY <1>0 DEF Crashes
<1>1. CASE UNCHANGED vars
  BY <1>1 DEF vars
<1>2. ASSUME NEW p \in Procs, CreateProcess(p) \/ DestroyProcess(p)
      PROVE happened \subseteq happened'
  BY <1>2 DEF CreateProcess, DestroyProcess
<1>3. ASSUME NEW p \in Procs, NEW s \in Pages,
             PageFault(p, s) \/ DeleteSegment(p, s) \/ DeleteSegmentCrashes(p, s)
      PROVE  happened \subseteq happened'
  BY <1>0, <1>3 DEF DeleteSegmentCrashes, DeleteSegment, PageFault, Install
<1>4. ASSUME NEW p \in Procs, NEW s \in Pages, NEW n \in SegmentSizes,
             CreateSegment(p, s, n) \/ CreateCrashes(p, s, n)
      PROVE  happened \subseteq happened'
  BY <1>0, <1>4 DEF CreateCrashes, CreateSegment
<1>5. ASSUME NEW p \in Procs, NEW s \in Pages, NEW n \in SegmentSizes, NEW name \in Names,
             \/ ConnectShared(p, s, n, name)
             \/ \E m \in Masters : \/ CreateShared(p, s, n, name, m)
                                   \/ CreateSharedFails(p, s, n, name, m)
      PROVE  happened \subseteq happened'
  BY <1>0, <1>5 DEF ConnectShared, CreateShared, CreateSharedFails
<1>6. ASSUME NEW p \in Procs, NEW name \in Names,
             \/ DisconnectShared(p, name)
             \/ DeleteShared(p, name)
             \/ DeleteSharedCrashes(p, name)
      PROVE  happened \subseteq happened'
  BY <1>0, <1>6 DEF DisconnectShared, DeleteShared, DeleteSharedCrashes
<1> QED BY <1>1, <1>2, <1>3, <1>4, <1>5, <1>6 DEF Next

-----------------------------------------------------------------------------
(* Frames and clusters *)

BaseInv == GInv /\ SInv /\ HInv

LEMMA InitBase == Init => BaseInv
BY InitLinks, InitRest, InitReached, InitConserves, InitPlaces DEF GInv, BaseInv

LEMMA NextKeepsBase == BaseInv /\ [Next]_vars => BaseInv'
BY NextKeepsLinks, NextKeepsTypes, NextKeepsReached, NextConserves, NextKeepsPlaces
   DEF GInv, BaseInv

FrameInv == Quiet => Tiled /\ FramesMatch

LEMMA InitTiles == Init => Tiled
<1> SUFFICES ASSUME Init PROVE Tiled
  OBVIOUS
<1>1. \A p \in Procs, q \in Pages : pte[<<p, q>>] = ZeroEntry
  BY PlaceOf DEF Init, Owners
<1>2. \A m \in Masters : life[m] # "live"
  BY DEF Init, Owners
<1> QED BY <1>1, <1>2, ZeroFields DEF Tiled, TileAt

LEMMA InitEmpty == Init => UsedPages = {}
BY ZeroFields DEF Init, UsedPages

LEMMA InitFrames == Init => FrameInv
<1> SUFFICES ASSUME Init PROVE Tiled /\ FramesMatch
  BY DEF FrameInv
<1>1. Frames \ freeFrames = {}
  BY DEF Init
<1> QED BY <1>1, InitTiles, InitEmpty DEF FramesMatch

LEMMA NextKeepsFrames == BaseInv /\ FrameInv /\ [Next]_vars => FrameInv'
<1> SUFFICES ASSUME BaseInv, FrameInv, [Next]_vars, Quiet' PROVE Tiled' /\ FramesMatch'
  BY DEF FrameInv
<1>1. Quiet
  BY HistoryGrows DEF Quiet, Spared
<1>2. GInv /\ SInv /\ HInv /\ Typed /\ Tiled /\ FramesMatch
  BY <1>1 DEF BaseInv, FrameInv, GInv, LInv
<1>3. CASE SomeSetUp
  <2>1. PICK o, s, n, k, cs : SetsUp(o, s, n, k, cs)
    BY <1>3 DEF SomeSetUp
  <2>2. Tiled'
    BY <1>2, <2>1, SetsUpTiles
  <2>3. FramesMatch'
    BY <1>2, <2>1, SetsUpGains, GainKeepsFrames
  <2> QED BY <2>2, <2>3
<1>4. CASE SomeUnset
  <2>1. PICK D : Unsets(D)
    BY <1>4 DEF SomeUnset
  <2>2. Tiled'
    BY <1>2, <2>1, UnsetsTiles
  <2>3. FramesMatch'
    BY <1>2, <2>1, UnsetsLoses, LossKeepsFrames
  <2> QED BY <2>2, <2>3
<1>5. ASSUME NEW p \in Procs, NEW q \in Pages, PageFault(p, q) PROVE Tiled' /\ FramesMatch'
  <2>1. FramesMatch'
    BY <1>2, <1>5, FaultKeepsFrames
  <2>2. /\ \A e \in Places : /\ pte'[e].used = pte[e].used
                             /\ pte'[e].shared = pte[e].shared
                             /\ pte'[e].size = pte[e].size
        /\ life' = life
    BY <1>2, <1>5, FaultFields
  <2>3. Tiled'
    BY <1>2, <2>2, TilesSame
  <2> QED BY <2>1, <2>3
<1> QED BY <1>2, <1>3, <1>4, <1>5, QuietSteps

\* A frame that is taken holds the page the frame table names for it, and a page
\* that is loaded has its frame, whoever faulted it in through whichever link, and
\* whichever segments came and went, for every number of processes, masters and
\* frames (kernel_process.cpp:231-233, kernelsystem.cpp:335-359).
THEOREM FramesAgreeAlways == Spec => []FramesAgree
<1>1. Init => BaseInv /\ FrameInv
  BY InitBase, InitFrames
<1>2. BaseInv /\ FrameInv /\ [Next]_vars => (BaseInv /\ FrameInv)'
  BY NextKeepsBase, NextKeepsFrames
<1>3. FrameInv => FramesAgree
  BY DEF FrameInv, FramesMatch, FramesAgree, Quiet
<1> QED
  BY <1>1, <1>2, <1>3, PTL DEF Spec

\* Every page in use has a cluster of its own, and the bitmap marks just these, for
\* every number of processes, masters and clusters, as long as the swap space lasts
\* and nobody ends while connected (kernel_process.cpp:30, kernelsystem.cpp:348).
THEOREM ClusterOwnershipAlways == Spec => []ClusterOwnership
<1> DEFINE Calm == Spared({"exhaustion", "destroyedConnected", "disconnectedPrivate",
                           "deletedAsPrivate"})
           ClusterInv == Calm => ClustersMatch
<1>1. Init => BaseInv /\ FrameInv /\ ClusterInv
  <2>1. Init => ClustersMatch
    BY InitEmpty DEF ClustersMatch, Init
  <2> QED BY <2>1, InitBase, InitFrames
<1>2. BaseInv /\ FrameInv /\ ClusterInv /\ [Next]_vars => ClusterInv'
  <2> SUFFICES ASSUME BaseInv, FrameInv, ClusterInv, [Next]_vars, Calm' PROVE ClustersMatch'
    OBVIOUS
  <2>1. Calm /\ Quiet /\ Quiet'
    BY HistoryGrows DEF Quiet, Spared
  <2>2. GInv /\ SInv /\ HInv /\ Typed /\ Tiled /\ ClustersMatch /\ bitmap \subseteq Clusters
    BY <2>1 DEF BaseInv, FrameInv, GInv, LInv, TInv, RestTyped
  <2>3. CASE SomeSetUp
    <3>1. PICK o, s, n, k, cs : SetsUp(o, s, n, k, cs)
      BY <2>3 DEF SomeSetUp
    <3>2. RanOut(cs, k) = {}
      <4>1. happened' = happened \union RanOut(cs, k)
        BY <3>1 DEF SetsUp
      <4> QED BY <4>1 DEF RanOut, Spared
    <3> QED BY <2>2, <3>1, <3>2, SetsUpClusters
  <2>4. CASE SomeUnset
    <3>1. PICK D : /\ Unsets(D)
                   /\ bitmap' = bitmap \ ClustersOf(D \intersect UsedPages)
      BY <2>4 DEF SomeUnset, Spared
    <3> QED BY <2>2, <3>1, UnsetsLoses, LossKeepsClusters
  <2>5. ASSUME NEW p \in Procs, NEW q \in Pages, PageFault(p, q) PROVE ClustersMatch'
    <3>1. /\ UsedPages' = UsedPages /\ bitmap' = bitmap
          /\ \A e \in UsedPages : pte'[e].cluster = pte[e].cluster
      BY <2>2, <2>5, FaultFields DEF UsedPages
    <3> QED BY <2>2, <3>1 DEF ClustersMatch
  <2> QED BY <2>1, <2>2, <2>3, <2>4, <2>5, QuietSteps
<1>3. ClusterInv => ClusterOwnership
  BY DEF ClustersMatch, ClusterOwnership
<1> HIDE DEF ClusterInv
<1> QED
  BY <1>1, <1>2, <1>3, NextKeepsBase, NextKeepsFrames, PTL DEF Spec

-----------------------------------------------------------------------------
(* Calls that find nothing *)

\* Nobody disconnected at table 0, deleted a connected segment as if it were its own,
\* or ended while connected.
Peaceful == Spared({"deletedAsPrivate", "destroyedConnected", "disconnected"})

NoNulls == \A e \in Places : pte[e].shared => pte[e].target # NoPage

LinksTo(p, q, m) ==
  pte[<<p, q>>].used /\ pte[<<p, q>>].shared /\ pte[<<p, q>>].target = <<m, 0>>

\* Whoever is recorded as connected is alive, and has a link to the first page of
\* the segment, which no new segment can take the place of.
JoinedAt(name, c) ==
  life[c[1]] = "live" /\ \E q \in Pages : LinksTo(c[1], q, registry[name])

Joined == \A name \in Names : \A c \in connected[name] : JoinedAt(name, c)

Expected == crash \in {"none", "noTable", "nullMaster", "pastConnection"}

PeaceInv == Peaceful => NoNulls /\ Joined /\ Expected

LEMMA NullIsNoPlace == NoPage \notin Places
BY SharedSegmentsAssumption, SpaceIsFinite DEF Places, Pages, Owners

LEMMA LinkIsNoNull ==
  ASSUME NEW m \in Masters, NEW i \in Nat
  PROVE  <<m, i>> # NoPage
BY SharedSegmentsAssumption

LEMMA NeverNull ==
  ASSUME NoNulls, NEW p \in Procs, NEW q, HasEntry(p, q)
  PROVE  Resolve(<<p, q>>) # NoPage /\ ~IsNull(p, q)
<1>1. <<p, q>> \in Places /\ <<p, q>> # NoPage
  BY NullIsNoPlace, PlaceOf DEF HasEntry, Owners
<1> QED BY <1>1 DEF NoNulls, Resolve, IsNull

\* A link to the first page of a master takes up its place.
LEMMA LinkIsTaken ==
  ASSUME GInv, HInv, NoNulls, NEW p \in Procs, NEW s \in Pages, NEW n \in Nat,
         HaveFreeFromAddress(p, s, n),
         NEW m \in Masters, Whole(m), NEW q \in Pages, LinksTo(p, q, m)
  PROVE  q \notin s .. s + n - 1
<1>1. HasEntry(p, q)
  BY DEF HInv, OwnTables, HasEntry, Owners, LinksTo
<1>2. Resolve(<<p, q>>) = <<m, 0>> /\ ~IsNull(p, q)
  BY <1>1, NeverNull DEF LinksTo, Resolve
<1>3. pte[<<m, 0>>].used
  <2>1. pte[<<m, 0>>].size \in Nat
    BY MasterPlaces DEF GInv, LInv, Typed, PageTableEntries
  <2>2. <<m, 0>> \in UsedPages
    BY <2>1 DEF Whole
  <2> QED BY <2>2 DEF UsedPages
<1> QED BY <1>1, <1>2, <1>3 DEF HaveFreeFromAddress, IsTaken


\* Who was connected by a name still is, if its links are left.
LEMMA JoinedStays ==
  ASSUME NEW name \in Names, NEW c, JoinedAt(name, c),
         registry'[name] = registry[name], life'[c[1]] = "live",
         \A q \in Pages : LinksTo(c[1], q, registry[name]) => pte'[<<c[1], q>>] = pte[<<c[1], q>>]
  PROVE  JoinedAt(name, c)'
BY DEF JoinedAt, LinksTo

\* The masters people are connected to, and the connected.
LEMMA Connections ==
  ASSUME BaseInv, Tiled, NEW name \in Names, NEW c \in connected[name]
  PROVE  /\ c[1] \in Procs /\ c[2] \in Tables
         /\ registry[name] \in Masters /\ life[registry[name]] = "live" /\ Whole(registry[name])
<1>1. c[1] \in Procs /\ c[2] \in Tables
  BY DEF BaseInv, GInv, TInv, RestTyped
<1>2. registry[name] # NoMaster /\ registry[name] \in Masters
  BY DEF BaseInv, GInv, TInv, Named, LInv, Typed
<1> QED BY <1>1, <1>2 DEF BaseInv, SInv, Registered, Tiled

Good == BaseInv /\ Tiled /\ NoNulls /\ Joined /\ Expected

PeaceAfter == NoNulls' /\ Joined' /\ Expected'

LEMMA ExpectedCrash ==
  ASSUME Good, NEW how \in {"noTable", "nullMaster", "pastConnection"}, Crashes(how)
  PROVE  PeaceAfter
<1>1. NoNulls' /\ Expected'
  BY DEF Good, NoNulls, Expected, Crashes, PeaceAfter
<1>2. Joined'
  BY DEF Good, Joined, JoinedAt, LinksTo, Crashes
<1> QED BY <1>1, <1>2 DEF PeaceAfter

\* Steps that leave the links of processes, and who is connected, alone.
LEMMA LinksLeft ==
  ASSUME Good, crash' = crash, registry' = registry, connected' = connected,
         \A e \in Places : pte'[e].shared => pte[e].shared /\ pte'[e].target = pte[e].target,
         \A p \in Procs : life[p] = "live" => life'[p] = "live",
         \A p \in Procs, q \in Pages, m \in Masters :
           LinksTo(p, q, m) /\ Whole(m) => LinksTo(p, q, m)'
  PROVE  PeaceAfter
<1>1. NoNulls'
  BY DEF Good, NoNulls
<1>2. Expected'
  BY DEF Good, Expected
<1>3. ASSUME NEW name \in Names, NEW c \in connected[name] PROVE JoinedAt(name, c)'
  <2>1. c[1] \in Procs /\ registry[name] \in Masters /\ Whole(registry[name])
    BY Connections DEF Good
  <2>2. JoinedAt(name, c)
    BY DEF Good, Joined
  <2>3. PICK q \in Pages : LinksTo(c[1], q, registry[name])
    BY <2>2 DEF JoinedAt
  <2>4. LinksTo(c[1], q, registry[name])' /\ life'[c[1]] = "live"
    BY <2>1, <2>2, <2>3 DEF JoinedAt
  <2> QED BY <2>4 DEF JoinedAt
<1>4. Joined'
  BY <1>3 DEF Joined
<1> QED BY <1>1, <1>2, <1>4 DEF PeaceAfter

LEMMA CreateProcessPeaceful ==
  ASSUME Good, NEW p \in Procs, CreateProcess(p)
  PROVE  PeaceAfter
<1>1. /\ crash' = crash /\ registry' = registry /\ connected' = connected /\ pte' = pte
      /\ \A o \in Procs : life[o] = "live" => life'[o] = "live"
  BY DEF CreateProcess, Good, BaseInv, GInv, LInv, Typed, Owners
<1> QED BY <1>1, LinksLeft DEF LinksTo

\* Nobody connected ends.
LEMMA DestroyProcessPeaceful ==
  ASSUME Good, NEW p \in Procs, DestroyProcess(p), Peaceful'
  PROVE  PeaceAfter
<1>1. UsedLinks(p) = {}
  BY DEF DestroyProcess, Peaceful, Spared
<1>2. ASSUME NEW o \in Owners, NEW q \in Pages
      PROVE  IF o = p THEN pte'[<<o, q>>] = ZeroEntry ELSE pte'[<<o, q>>] = pte[<<o, q>>]
  BY PlaceOf DEF DestroyProcess
<1>3. /\ crash' = crash /\ registry' = registry /\ connected' = connected
      /\ \A o \in Procs : o # p => life'[o] = life[o]
  BY DEF DestroyProcess, Good, BaseInv, GInv, LInv, Typed, Owners
<1>4. NoNulls'
  BY ZeroFields DEF DestroyProcess, Good, NoNulls
<1>5. ASSUME NEW name \in Names, NEW c \in connected[name] PROVE JoinedAt(name, c)'
  <2>1. c[1] \in Procs /\ c[1] \in Owners
    BY Connections DEF Good, Owners
  <2>2. JoinedAt(name, c)
    BY DEF Good, Joined
  <2>3. PICK q \in Pages : LinksTo(c[1], q, registry[name])
    BY <2>2 DEF JoinedAt
  <2>4. c[1] # p
    <3>1. ASSUME c[1] = p PROVE <<p, q>> \in UsedLinks(p)
      BY <2>1, <2>3, <3>1, PlaceOf DEF LinksTo, UsedLinks
    <3> QED BY <1>1, <3>1
  <2>5. pte'[<<c[1], q>>] = pte[<<c[1], q>>]
    BY <1>2, <2>1, <2>4
  <2>6. life'[c[1]] = "live" /\ registry'[name] = registry[name]
    BY <1>3, <2>1, <2>2, <2>4 DEF JoinedAt
  <2> QED BY <2>3, <2>5, <2>6 DEF JoinedAt, LinksTo
<1>6. Joined'
  BY <1>3, <1>5 DEF Joined
<1>7. Expected'
  BY <1>3 DEF Good, Expected
<1> QED BY <1>4, <1>6, <1>7 DEF PeaceAfter

LEMMA CreateSegmentPeaceful ==
  ASSUME Good, NEW p \in Procs, NEW s \in Pages, NEW n \in SegmentSizes,
         CreateSegment(p, s, n)
  PROVE  PeaceAfter
<1>1. PICK cs \in [0 .. n - 1 -> 0 .. NumClusters] : pte' = SetUp(p, s, n, n, cs)
  BY DEF CreateSegment
<1>2. n \in Nat /\ s \in Nat /\ HaveFreeFromAddress(p, s, n)
  BY SharedSegmentsAssumption DEF CreateSegment, Pages
<1>3. \A e \in Places : pte'[e] = pte[e] \/ ~pte'[e].shared
  BY <1>1, <1>2, SetUpTyped DEF Good, BaseInv, GInv, LInv
<1>4. ASSUME NEW o \in Procs, NEW q \in Pages, NEW m \in Masters, LinksTo(o, q, m), Whole(m)
      PROVE  LinksTo(o, q, m)'
  <2>1. PICK e \in Places : e = <<o, q>> /\ e[1] = o /\ e[2] = q
    BY ProcPlace
  <2>2. ~(e[1] = p /\ e[2] \in s .. s + n - 1)
    BY <1>2, <1>4, <2>1, LinkIsTaken DEF Good, BaseInv
  <2>3. pte'[e] = pte[e]
    BY <1>1, <2>2, SetUpOutside
  <2> QED BY <1>4, <2>1, <2>3 DEF LinksTo
<1>5. UNCHANGED <<crash, registry, connected, life>>
  BY DEF CreateSegment
<1> QED BY <1>3, <1>4, <1>5, LinksLeft

\* What ConnectTo does to links: the new ones lead to the master, and no link that
\* leads to the first page of a master goes.
LEMMA LinkPagesPeaceful ==
  ASSUME Good, NEW p \in Procs, NEW s \in Pages, NEW n \in Nat,
         HaveFreeFromAddress(p, s, n), NEW x \in Masters, NEW ts, NEW left, NEW entries,
         \A e \in Places : entries[e] = pte[e] \/ (~entries[e].shared /\ e[1] \in Masters),
         pte' = LinkPages(entries, p, s, x, Linked(p, s, n, ts, left))
  PROVE  /\ NoNulls'
         /\ \A o \in Procs, q \in Pages, m \in Masters :
              LinksTo(o, q, m) /\ Whole(m) => LinksTo(o, q, m)'
         /\ Linked(p, s, n, ts, left) = 0 .. n - 1 /\ n > 0 => LinksTo(p, s, x)'
<1> DEFINE linked == Linked(p, s, n, ts, left)
<1>1. linked \subseteq 0 .. n - 1 /\ s \in Nat
  BY DEF Linked, Pages
<1>2. ASSUME NEW e \in Places, e[1] = p, e[2] - s \in linked
      PROVE  /\ pte'[e].used /\ pte'[e].shared /\ pte'[e].target = <<x, e[2] - s>>
             /\ e[2] - s \in Nat
  <2>1. pte'[e] = Link(<<x, e[2] - s>>)
    BY <1>2 DEF LinkPages
  <2> QED BY <1>1, <1>2, <2>1, LinkFields
<1>3. ASSUME NEW e \in Places, ~(e[1] = p /\ e[2] - s \in linked)
      PROVE  pte'[e] = entries[e]
  BY <1>3 DEF LinkPages
<1> HIDE DEF linked
<1>4. NoNulls'
  <2> SUFFICES ASSUME NEW e \in Places, pte'[e].shared PROVE pte'[e].target # NoPage
    BY DEF NoNulls
  <2>1. CASE e[1] = p /\ e[2] - s \in linked
    BY <1>2, <2>1, LinkIsNoNull
  <2>2. CASE ~(e[1] = p /\ e[2] - s \in linked)
    BY <1>3, <2>2 DEF Good, NoNulls
  <2> QED BY <2>1, <2>2
<1>5. ASSUME NEW o \in Procs, NEW q \in Pages, NEW m \in Masters, LinksTo(o, q, m), Whole(m)
      PROVE  LinksTo(o, q, m)'
  <2>1. PICK e \in Places : e = <<o, q>> /\ e[1] = o /\ e[2] = q
    BY ProcPlace
  <2>2. ~(e[1] = p /\ e[2] - s \in linked)
    <3>1. ASSUME e[1] = p, e[2] - s \in linked PROVE FALSE
      <4>1. q \in s .. s + n - 1
        BY <1>1, <2>1, <3>1 DEF Pages
      <4> QED BY <1>5, <2>1, <3>1, <4>1, LinkIsTaken DEF Good, BaseInv
    <3> QED BY <3>1
  <2>3. pte'[e] = pte[e]
    BY <1>3, <2>1, <2>2, SharedSegmentsAssumption
  <2> QED BY <1>5, <2>1, <2>3 DEF LinksTo
<1>6. ASSUME linked = 0 .. n - 1, n > 0 PROVE LinksTo(p, s, x)'
  <2>1. PICK e \in Places : e = <<p, s>> /\ e[1] = p /\ e[2] = s
    BY ProcPlace
  <2>2. e[2] - s = 0 /\ 0 \in linked
    BY <1>1, <1>6, <2>1
  <2>3. pte'[e].used /\ pte'[e].shared /\ pte'[e].target = <<x, 0>>
    BY <1>2, <2>1, <2>2
  <2> QED BY <2>1, <2>3 DEF LinksTo
<1> QED BY <1>4, <1>5, <1>6 DEF linked

LEMMA ConnectPeaceful ==
  ASSUME Good, NEW p \in Procs, NEW s \in Pages, NEW n \in Nat, n > 0,
         HaveFreeFromAddress(p, s, n), life[p] = "live",
         NEW name \in Names, NEW x \in Masters, NEW ts, NEW left, NEW entries,
         ConnectTo(p, s, n, name, x, ts, entries, left),
         \A e \in Places : entries[e] = pte[e] \/ (~entries[e].shared /\ e[1] \in Masters),
         registry'[name] = x,
         \A a \in Names : connected[a] # {} => registry'[a] = registry[a],
         \A o \in Procs : life'[o] = life[o],
         crash' = crash
  PROVE  PeaceAfter
<1> DEFINE linked == Linked(p, s, n, ts, left)
<1>1. /\ pte' = LinkPages(entries, p, s, x, linked)
      /\ connected' = IF linked = 0 .. n - 1
                        THEN [connected EXCEPT ![name] = Recorded(name, p, s)]
                        ELSE connected
  BY DEF ConnectTo
<1>2. /\ NoNulls'
      /\ \A o \in Procs, q \in Pages, m \in Masters :
           LinksTo(o, q, m) /\ Whole(m) => LinksTo(o, q, m)'
      /\ linked = 0 .. n - 1 => LinksTo(p, s, x)'
  BY <1>1, LinkPagesPeaceful
<1> HIDE DEF linked
<1>3. ASSUME NEW a \in Names, NEW c \in connected[a] PROVE JoinedAt(a, c)'
  <2>1. c[1] \in Procs /\ registry[a] \in Masters /\ Whole(registry[a])
    BY Connections DEF Good
  <2>2. JoinedAt(a, c)
    BY DEF Good, Joined
  <2>3. PICK q, o, m : /\ q \in Pages /\ o = c[1] /\ m = registry[a]
                       /\ LinksTo(o, q, m)
    BY <2>2 DEF JoinedAt
  <2>4. LinksTo(o, q, m)'
    BY <1>2, <2>1, <2>3
  <2>5. life'[o] = "live" /\ registry'[a] = m
    BY <2>1, <2>2, <2>3 DEF JoinedAt
  <2> QED BY <2>3, <2>4, <2>5 DEF JoinedAt, LinksTo
<1>4. ASSUME NEW a \in Names, NEW c \in connected'[a], c \notin connected[a]
      PROVE  JoinedAt(a, c)'
  <2>1. connected \in [Names -> SUBSET (Procs \X Tables)]
    BY DEF Good, BaseInv, GInv, TInv, RestTyped
  <2>2. linked = 0 .. n - 1 /\ a = name /\ c = <<p, TableOf(s)>>
    BY <1>1, <1>4, <2>1 DEF Recorded
  <2>3. c[1] = p /\ LinksTo(p, s, x)' /\ life'[p] = "live"
    BY <1>2, <2>2
  <2> QED BY <2>2, <2>3 DEF JoinedAt, LinksTo
<1>5. Joined'
  BY <1>3, <1>4 DEF Joined
<1>6. Expected'
  BY DEF Good, Expected
<1> QED BY <1>2, <1>5, <1>6 DEF PeaceAfter

LEMMA ConnectSharedPeaceful ==
  ASSUME Good, NEW p \in Procs, NEW s \in Pages, NEW n \in SegmentSizes,
         NEW name \in Names, ConnectShared(p, s, n, name)
  PROVE  PeaceAfter
<1>1. PICK x, ts, left, entries :
        /\ x = registry[name] /\ entries = pte
        /\ ConnectTo(p, s, n, name, x, ts, entries, left)
  BY DEF ConnectShared
<1>2. /\ n \in Nat /\ n > 0 /\ HaveFreeFromAddress(p, s, n) /\ life[p] = "live"
      /\ x \in Masters
  BY <1>1, SharedSegmentsAssumption
     DEF ConnectShared, Running, Good, BaseInv, GInv, LInv, Typed
<1>3. UNCHANGED <<registry, life, crash>>
  BY DEF ConnectShared
<1>4. \A e \in Places : entries[e] = pte[e]
  BY <1>1
<1> QED BY <1>1, <1>2, <1>3, <1>4, ConnectPeaceful

LEMMA CreateSharedPeaceful ==
  ASSUME Good, NEW p \in Procs, NEW s \in Pages, NEW n \in SegmentSizes,
         NEW name \in Names, NEW m \in Masters, CreateShared(p, s, n, name, m)
  PROVE  PeaceAfter
<1>1. PICK cs, ts, left, entries :
        /\ cs \in [0 .. n - 1 -> 0 .. NumClusters]
        /\ entries = SetUp(m, 0, n, n, cs)
        /\ ConnectTo(p, s, n, name, m, ts, entries, left)
  BY DEF CreateShared
<1>2. /\ n \in Nat /\ n > 0 /\ HaveFreeFromAddress(p, s, n) /\ life[p] = "live"
  BY SharedSegmentsAssumption DEF CreateShared, Running
<1>3. /\ registry'[name] = m
      /\ \A a \in Names : connected[a] # {} => registry'[a] = registry[a]
      /\ \A o \in Procs : life'[o] = life[o]
      /\ crash' = crash
  BY SharedSegmentsAssumption
     DEF CreateShared, Good, BaseInv, GInv, TInv, Named, LInv, Typed, Owners
<1>4. \A e \in Places : entries[e] = pte[e] \/ (~entries[e].shared /\ e[1] \in Masters)
  <2>1. \A e \in Places : entries[e] = pte[e] \/ ~entries[e].shared
    BY <1>1, <1>2, SetUpTyped DEF Good, BaseInv, GInv, LInv
  <2>2. \A e \in Places : e[1] # m => entries[e] = pte[e]
    BY <1>1, SetUpOutside
  <2> QED BY <2>1, <2>2
<1> QED BY <1>1, <1>2, <1>3, <1>4, ConnectPeaceful

LEMMA CreateSharedFailsPeaceful ==
  ASSUME Good, NEW p \in Procs, NEW s \in Pages, NEW n \in SegmentSizes,
         NEW name \in Names, NEW m \in Masters, CreateSharedFails(p, s, n, name, m)
  PROVE  PeaceAfter
<1>1. CASE HasEntry(p, s)
  BY <1>1, ExpectedCrash DEF CreateSharedFails
<1>2. CASE ~HasEntry(p, s)
  <2>1. PICK k, cs : pte' = SetUp(m, 0, n, k, cs)
    BY <1>2 DEF CreateSharedFails
  <2>2. /\ \A o \in Procs : life'[o] = life[o]
        /\ UNCHANGED <<crash, registry, connected>>
    BY <1>2, SharedSegmentsAssumption
       DEF CreateSharedFails, Good, BaseInv, GInv, LInv, Typed, Owners
  <2>3. \A e \in Places : e[1] # m => pte'[e] = pte[e]
    BY <2>1, SetUpOutside
  <2>4. \A e \in Places : e[1] = m => ~pte'[e].shared
    <3>1. HInv'
      BY CreateSharedFailsPlaces DEF Good, BaseInv
    <3> QED BY <3>1, PlaceIsPair DEF HInv, MastersOwn
  <2>5. ASSUME NEW o \in Procs, NEW q \in Pages, NEW x \in Masters, LinksTo(o, q, x)
        PROVE  LinksTo(o, q, x)'
    <3>1. <<o, q>> \in Places /\ o # m
      BY PlaceOf, SharedSegmentsAssumption DEF Owners
    <3> QED BY <2>3, <2>5, <3>1 DEF LinksTo
  <2> QED BY <2>2, <2>3, <2>4, <2>5, LinksLeft
<1> QED BY <1>1, <1>2

\* A step that sets entries unused which are no links.
LEMMA UnusedPeaceful ==
  ASSUME Good, NEW D, \A e \in D : ~pte[e].shared,
         \A e \in Places : IF e \in D THEN pte'[e] = SetUnused(pte[e]) ELSE pte'[e] = pte[e]
  PROVE  /\ \A e \in Places : pte'[e].shared => pte[e].shared /\ pte'[e].target = pte[e].target
         /\ \A o \in Procs, q \in Pages, m \in Masters :
              LinksTo(o, q, m) => LinksTo(o, q, m)'
<1>1. \A e \in Places : pte'[e].shared => pte'[e] = pte[e]
  BY SetUnusedFields
<1>2. ASSUME NEW o \in Procs, NEW q \in Pages, NEW m \in Masters, LinksTo(o, q, m)
      PROVE  LinksTo(o, q, m)'
  <2>1. PICK e \in Places : e = <<o, q>> /\ e[1] = o /\ e[2] = q
    BY ProcPlace
  <2>2. pte'[e] = pte[e]
    BY <1>2, <2>1 DEF LinksTo
  <2> QED BY <1>2, <2>1, <2>2 DEF LinksTo
<1> QED BY <1>1, <1>2

LEMMA DeleteSegmentPeaceful ==
  ASSUME Good, NEW p \in Procs, NEW s \in Pages, DeleteSegment(p, s), Quiet'
  PROVE  PeaceAfter
<1>1. PICK D : D = Walked(p, s)
  OBVIOUS
<1>2. \A e \in D : ~pte[e].shared
  <2>1. GInv /\ HInv /\ Tiled
    BY DEF Good, BaseInv
  <2>2. /\ Walked(p, s) = {<<p, q>> : q \in Walk(p, s)}
        /\ \A q \in Walk(p, s) : <<p, q>> \in UsedPages
    BY <2>1, WalkIsOwn
  <2> QED BY <1>1, <2>2 DEF UsedPages
<1>3. \A e \in Places : IF e \in D THEN pte'[e] = SetUnused(pte[e]) ELSE pte'[e] = pte[e]
  BY <1>1 DEF DeleteSegment
<1>4. crash' = crash /\ registry' = registry /\ connected' = connected /\ life' = life
  BY DEF DeleteSegment
<1>5. /\ \A e \in Places : pte'[e].shared => pte[e].shared /\ pte'[e].target = pte[e].target
      /\ \A o \in Procs, q \in Pages, m \in Masters :
           LinksTo(o, q, m) => LinksTo(o, q, m)'
  BY <1>2, <1>3, UnusedPeaceful
<1> QED BY <1>4, <1>5, LinksLeft

LEMMA DeleteSegmentCrashesPeaceful ==
  ASSUME Good, NEW p \in Procs, NEW s \in Pages, DeleteSegmentCrashes(p, s)
  PROVE  PeaceAfter
<1>1. ~IsNull(p, s)
  BY NeverNull DEF Good, IsNull
<1>2. Crashes("noTable") \/ Crashes("pastConnection")
  BY <1>1 DEF DeleteSegmentCrashes
<1> QED BY <1>2, ExpectedCrash

LEMMA CreateCrashesPeaceful ==
  ASSUME Good, NEW p \in Procs, NEW s \in Pages, NEW n \in SegmentSizes, CreateCrashes(p, s, n)
  PROVE  PeaceAfter
<1>1. PICK q : IsNull(p, q)
  BY DEF CreateCrashes, MeetsNull
<1> QED BY <1>1, NeverNull DEF Good, IsNull

\* A call that cannot unlink walks past the connection.
LEMMA UnlinkFails ==
  ASSUME Good, NEW p \in Procs
  PROVE  HowUnlinkFails(p) = "pastConnection"
<1>1. ~IsNull(p, 0)
  BY NeverNull DEF Good, IsNull
<1> QED BY <1>1 DEF HowUnlinkFails

LEMMA NothingUnlinked ==
  ASSUME NEW es, happened' = happened \union Strays(es), Peaceful'
  PROVE  es = {}
BY DEF Strays, Peaceful, Spared

LEMMA DisconnectSharedPeaceful ==
  ASSUME Good, NEW p \in Procs, NEW name \in Names, DisconnectShared(p, name), Peaceful'
  PROVE  PeaceAfter
<1>1. PICK c \in connected[name] :
        IF CanUnlink(p, c[2])
          THEN /\ pte' = [e \in Places |-> IF e \in Unlinked(p, c[2])
                                             THEN SetUnused(pte[e]) ELSE pte[e]]
               /\ happened' = happened \union Strays(Unlinked(p, c[2]))
               /\ UNCHANGED <<life, registry, connected, crash>>
          ELSE Crashes(HowUnlinkFails(p))
  BY DEF DisconnectShared
<1>2. CASE CanUnlink(p, c[2])
  <2>1. Unlinked(p, c[2]) = {}
    BY <1>1, <1>2, NothingUnlinked
  <2>2. \A e \in Places : pte'[e] = pte[e]
    BY <1>1, <1>2, <2>1
  <2>3. ASSUME NEW o \in Procs, NEW q \in Pages, NEW m \in Masters, LinksTo(o, q, m)
        PROVE  LinksTo(o, q, m)'
    <3>1. PICK e \in Places : e = <<o, q>> /\ e[1] = o /\ e[2] = q
      BY ProcPlace
    <3> QED BY <2>2, <2>3, <3>1 DEF LinksTo
  <2> QED BY <1>1, <1>2, <2>2, <2>3, LinksLeft
<1>3. CASE ~CanUnlink(p, c[2])
  BY <1>1, <1>3, UnlinkFails, ExpectedCrash
<1> QED BY <1>2, <1>3

LEMMA DeleteSharedPeaceful ==
  ASSUME Good, NEW p \in Procs, NEW name \in Names, DeleteShared(p, name), Peaceful'
  PROVE  PeaceAfter
<1> DEFINE m        == registry[name]
           unlinked == UNION {Unlinked(c[1], c[2]) : c \in connected[name]}
<1>1. m \in Masters
  BY Connections DEF DeleteShared, Good
<1>2. happened' = happened \union Strays(unlinked)
  BY DEF DeleteShared
<1>3. \A e \in Places : IF e \in unlinked \union MasterPages(m)
                          THEN pte'[e] = SetUnused(pte[e]) ELSE pte'[e] = pte[e]
  BY DEF DeleteShared
<1>4. \A e \in MasterPages(m) : e[1] \in Masters
  BY <1>1 DEF MasterPages
<1>5. /\ life' = [life EXCEPT ![m] = "deleted"]
      /\ registry' = [registry EXCEPT ![name] = NoMaster]
      /\ connected' = [connected EXCEPT ![name] = {}]
      /\ crash' = crash
  BY DEF DeleteShared
<1> HIDE DEF m, unlinked
<1>6. unlinked = {}
  BY <1>2, NothingUnlinked
<1>7. ASSUME NEW e \in Places, e[1] \in Procs PROVE pte'[e] = pte[e]
  <2>1. e \notin MasterPages(m)
    BY <1>4, <1>7, SharedSegmentsAssumption
  <2> QED BY <1>3, <1>6, <2>1
<1>8. NoNulls'
  <2>1. \A e \in Places : e[1] \in Masters => ~pte[e].shared
    BY PlaceIsPair DEF Good, BaseInv, HInv, MastersOwn
  <2>2. \A e \in Places : pte'[e].shared => pte'[e] = pte[e]
    BY <1>3, <1>4, <1>6, <2>1, SetUnusedFields
  <2> QED BY <2>2 DEF Good, NoNulls
<1>9. ASSUME NEW a \in Names, NEW c \in connected'[a] PROVE JoinedAt(a, c)'
  <2>1. a # name /\ c \in connected[a]
    BY <1>5, <1>9 DEF Good, BaseInv, GInv, TInv, RestTyped
  <2>2. c[1] \in Procs /\ JoinedAt(a, c)
    BY <2>1, Connections DEF Good, Joined
  <2>3. registry'[a] = registry[a] /\ life'[c[1]] = "live"
    BY <1>1, <1>5, <2>1, <2>2, SharedSegmentsAssumption
       DEF Good, BaseInv, GInv, LInv, Typed, Owners, JoinedAt
  <2>4. PICK q \in Pages : LinksTo(c[1], q, registry[a])
    BY <2>2 DEF JoinedAt
  <2>5. pte'[<<c[1], q>>] = pte[<<c[1], q>>]
    BY <1>7, <2>2, ProcPlace
  <2> QED BY <2>3, <2>4, <2>5 DEF JoinedAt, LinksTo
<1>10. Joined'
  BY <1>9 DEF Joined
<1>11. Expected'
  BY <1>5 DEF Good, Expected
<1> QED BY <1>8, <1>10, <1>11 DEF PeaceAfter

\* Everybody who is recorded is alive, so no deletion comes to a dead process.
LEMMA DeleteSharedCrashesPeaceful ==
  ASSUME Good, NEW p \in Procs, NEW name \in Names, DeleteSharedCrashes(p, name)
  PROVE  PeaceAfter
<1>1. \A c \in connected[name] : c[1] \in Procs /\ life[c[1]] = "live"
  BY Connections DEF Good, Joined, JoinedAt
<1>2. PICK c \in connected[name] : Crashes(HowUnlinkFails(c[1]))
  BY <1>1 DEF DeleteSharedCrashes, CanReach
<1> QED BY <1>1, <1>2, UnlinkFails, ExpectedCrash

\* The page a fault takes a frame from is there, and so is its entry.
LEMMA PageFaultPeaceful ==
  ASSUME Good, FramesMatch, NEW p \in Procs, NEW q \in Pages, PageFault(p, q)
  PROVE  PeaceAfter
<1>1. Resolve(<<p, q>>) # NoPage
  BY NeverNull DEF PageFault, Good
<1>2. ASSUME freeFrames = {}, NEW f \in Frames PROVE HasEntry(holder[f][1], holder[f][2])
  <2>1. holder[f] \in UsedPages
    BY <1>2 DEF FramesMatch
  <2>2. /\ holder[f] = <<holder[f][1], holder[f][2]>> /\ holder[f] \in Places
        /\ holder[f][1] \in Owners /\ holder[f][2] \in Pages /\ pte[holder[f]].used
    BY <2>1, PlaceIsPair DEF UsedPages
  <2> QED BY <2>2 DEF Good, BaseInv, HInv, OwnTables, HasEntry
<1>3. \E f, e, entries : f \in Frames /\ Install(e, f, entries)
  BY <1>1, <1>2 DEF PageFault
<1>4. crash' = crash
  BY <1>3 DEF Install
<1>5. /\ \A x \in Places : /\ pte'[x].used = pte[x].used
                           /\ pte'[x].shared = pte[x].shared
                           /\ pte'[x].target = pte[x].target
      /\ UNCHANGED <<life, registry, connected>>
  BY FaultFields DEF Good, BaseInv
<1>6. ASSUME NEW o \in Procs, NEW r \in Pages, NEW m \in Masters, LinksTo(o, r, m)
      PROVE  LinksTo(o, r, m)'
  <2>1. PICK e \in Places : e = <<o, r>> /\ e[1] = o /\ e[2] = r
    BY ProcPlace
  <2> QED BY <1>5, <1>6, <2>1 DEF LinksTo
<1> QED BY <1>4, <1>5, <1>6, LinksLeft

LEMMA NextKeepsPeace == BaseInv /\ FrameInv /\ PeaceInv /\ [Next]_vars => PeaceInv'
<1> SUFFICES ASSUME BaseInv, FrameInv, PeaceInv, [Next]_vars, Peaceful' PROVE PeaceAfter
  BY DEF PeaceInv, PeaceAfter
<1>1. BaseInv'
  BY NextKeepsBase
<1>2. Peaceful /\ Quiet /\ Quiet'
  BY <1>1, HistoryGrows DEF Peaceful, Quiet, Spared, BaseInv, HInv, History
<1>3. Good /\ FramesMatch
  BY <1>2 DEF FrameInv, PeaceInv, Good
<1>4. CASE UNCHANGED vars
  <2>1. \A p \in Procs, q \in Pages, m \in Masters : LinksTo(p, q, m) => LinksTo(p, q, m)'
    BY <1>4 DEF vars, LinksTo
  <2> QED BY <1>3, <1>4, <2>1, LinksLeft DEF vars
<1>5. ASSUME NEW p \in Procs, CreateProcess(p) \/ DestroyProcess(p) PROVE PeaceAfter
  BY <1>3, <1>5, CreateProcessPeaceful, DestroyProcessPeaceful
<1>6. ASSUME NEW p \in Procs, NEW s \in Pages,
             PageFault(p, s) \/ DeleteSegment(p, s) \/ DeleteSegmentCrashes(p, s)
      PROVE  PeaceAfter
  BY <1>2, <1>3, <1>6, PageFaultPeaceful, DeleteSegmentPeaceful, DeleteSegmentCrashesPeaceful
<1>7. ASSUME NEW p \in Procs, NEW s \in Pages, NEW n \in SegmentSizes,
             CreateSegment(p, s, n) \/ CreateCrashes(p, s, n)
      PROVE  PeaceAfter
  BY <1>3, <1>7, CreateSegmentPeaceful, CreateCrashesPeaceful
<1>8. ASSUME NEW p \in Procs, NEW s \in Pages, NEW n \in SegmentSizes, NEW name \in Names,
             \/ ConnectShared(p, s, n, name)
             \/ \E m \in Masters : \/ CreateShared(p, s, n, name, m)
                                   \/ CreateSharedFails(p, s, n, name, m)
      PROVE  PeaceAfter
  BY <1>3, <1>8, ConnectSharedPeaceful, CreateSharedPeaceful, CreateSharedFailsPeaceful
<1>9. ASSUME NEW p \in Procs, NEW name \in Names,
             \/ DisconnectShared(p, name)
             \/ DeleteShared(p, name)
             \/ DeleteSharedCrashes(p, name)
      PROVE  PeaceAfter
  BY <1>3, <1>9, DisconnectSharedPeaceful, DeleteSharedPeaceful, DeleteSharedCrashesPeaceful
<1> QED BY <1>4, <1>5, <1>6, <1>7, <1>8, <1>9 DEF Next

LEMMA InitPeace == Init => PeaceInv
<1> SUFFICES ASSUME Init PROVE NoNulls /\ Joined /\ Expected
  BY DEF PeaceInv
<1>1. NoNulls
  BY ZeroFields DEF Init, NoNulls
<1>2. Joined /\ Expected
  BY DEF Init, Joined, Expected
<1> QED BY <1>1, <1>2

\* As long as nobody disconnects at table 0, deletes a connected segment as its own
\* or ends while connected, no call meets a null link, a process that is gone or a
\* frame whose page is gone.  Three ways to fail are left, for every number of
\* processes, masters and names: a new master finds no slab, a call walks past a
\* connection shorter than the segment, and a deletion at an address without a table
\* (kernelsystem.cpp:336, kernel_process.cpp:113, 220 and 361-362).
THEOREM CrashNeedsMisuseAlways == Spec => []CrashNeedsMisuse
<1>1. Init => BaseInv /\ FrameInv /\ PeaceInv
  BY InitBase, InitFrames, InitPeace
<1>2. BaseInv /\ FrameInv /\ PeaceInv /\ [Next]_vars => (BaseInv /\ FrameInv /\ PeaceInv)'
  BY NextKeepsBase, NextKeepsFrames, NextKeepsPeace
<1>3. PeaceInv => CrashNeedsMisuse
  BY DEF PeaceInv, Peaceful, Expected, CrashNeedsMisuse
<1> QED
  BY <1>1, <1>2, <1>3, PTL DEF Spec
=============================================================================
