--------------------------- MODULE CloningProofs ---------------------------
(***************************************************************************)
(* What a clone has and what can go wrong while it is made, for every      *)
(* process, every number of slabs, frames and shared segments, and however *)
(* the calls of other processes come in between.                           *)
(***************************************************************************)
EXTENDS Cloning, FiniteSetTheorems, TLAPS

-----------------------------------------------------------------------------
(* The inductive invariant *)

Reading == {"fromFrame", "fromCluster"}
Copying == {"copy"} \union Reading
Labels  == {"start", "walk", "setUp", "connect", "done", "crashed"} \union Copying

\* The process that is cloned.
ParentOK ==
  /\ parent.segments \subseteq Segments
  /\ parent.tables \subseteq PageTables
  /\ \A s \in parent.segments : /\ s.start + s.pages <= NumPages
                                /\ \A q \in PagesOf(s) : TableOf(q) \in parent.tables
  /\ \A s, t \in parent.segments : s # t => PagesOf(s) \intersect PagesOf(t) = {}

Begins(q) == IsUsed(q) /\ SegmentAt(q).start = q

\* What the walk knows of the segment it is at.
Controlled ==
  /\ at \in Labels
  /\ page \in Nat
  /\ crash = "none" <=> at # "crashed"
  /\ at = "setUp" => /\ Begins(page)
                     /\ SegmentAt(page).master = "private"
                     /\ todo = SegmentAt(page).pages
  /\ at = "connect" => /\ Begins(page)
                       /\ SegmentAt(page).master \in Names
                       /\ todo = size[SegmentAt(page).master] /\ todo > 0
                       /\ page + todo <= NumPages
  /\ at \in Copying => page + todo <= NumPages
  /\ at \in Reading => todo > 0

BaseInv == ParentOK /\ TypeOK /\ Controlled

\* Set up so far; the pages from here on are not.
SetUpTo == IF at \in Copying THEN page + todo ELSE page

EndsWithSpace == \E s \in parent.segments : s.start + s.pages = NumPages

\* The clone's pages, its tables, and the clusters that are copied to.
Allocated ==
  /\ at # "crashed" => \A q \in Pages : q >= SetUpTo => entries[q] = Unused
  /\ \A q \in Pages : entries[q] = Own => TableOf(q) \in tables
  /\ at \in Copying => \/ "noSlabs" \in happened
                       \/ EndsWithSpace
                       \/ \A q \in page .. page + todo - 1 : entries[q] = Own
  /\ WritesOwnClusters

\* Where a page that is being copied is, if nothing came in between.
Copied ==
  /\ \A q \in Pages : disk[q] # Blank /\ (q \notin parent.dirty => disk[q] = OnDisk(q))
  /\ at = "fromFrame" => paging[page] # "absent" \/ "overtaken" \in happened
  /\ at = "fromCluster" => paging[page] \in {"saved", "absent"} \/ "overtaken" \in happened
  /\ CopiesAreParents

\* A clone is like its parent up to a page.
ClonedTo(n) ==
  /\ \A q \in Pages : q < n =>
       entries[q] = EntryAt(q) /\ (entries[q] = Own => copies[q] # Blank)
  /\ connected = {<<s.recorded, s.start>> : s \in {t \in parent.segments :
                                                    t.master # "private" /\ t.start < n}}

\* The walk of an ordinary process is never inside a segment, and copies one segment.
Walks ==
  /\ at = "walk" => /\ page <= NumPages
                    /\ AtTable \/ HasTable
                    /\ page = 0 \/ ~IsUsed(page - 1)
  /\ at \in Copying => \E s \in parent.segments :
                         /\ s.master = "private"
                         /\ s.start <= page
                         /\ page + todo = s.start + s.pages
  /\ crash # "none" => happened \intersect {"noSlabs", "failed"} # {}
  /\ at # "crashed" /\ "noSlabs" \notin happened => ClonedTo(page)
  /\ at = "start" => page = 0
  /\ at = "done" => page >= NumPages

WalkInv == Ordinary => Walks

-----------------------------------------------------------------------------
(* Page tables *)

LEMMA Sizes ==
  /\ Pmt0Entries \in Nat /\ Pmt0Entries > 0
  /\ Pmt1Entries \in Nat /\ Pmt1Entries > 1
  /\ NumPages \in Nat
  /\ TotalSlabs \in Nat
BY CloningAssumption DEF NumPages

LEMMA DivMod ==
  ASSUME NEW q \in Nat
  PROVE  /\ TableOf(q) \in Nat
         /\ q % Pmt1Entries \in 0 .. Pmt1Entries - 1
         /\ q = TableOf(q) * Pmt1Entries + (q % Pmt1Entries)
BY Sizes DEF TableOf

LEMMA DivModUnique ==
  ASSUME NEW q \in Nat, NEW t \in Nat, NEW r \in 0 .. Pmt1Entries - 1,
         q = t * Pmt1Entries + r
  PROVE  TableOf(q) = t /\ q % Pmt1Entries = r
BY Sizes DEF TableOf

LEMMA TableOfPage ==
  ASSUME NEW q \in Pages
  PROVE  TableOf(q) \in PageTables
<1>1. q \in Nat /\ q < Pmt0Entries * Pmt1Entries
  BY Sizes DEF Pages, NumPages
<1>2. TableOf(q) \in Nat /\ q >= TableOf(q) * Pmt1Entries
  <2>1. /\ TableOf(q) \in Nat /\ q % Pmt1Entries \in 0 .. Pmt1Entries - 1
        /\ q = TableOf(q) * Pmt1Entries + (q % Pmt1Entries)
    BY <1>1, DivMod
  <2>2. PICK a : a = TableOf(q) * Pmt1Entries
    OBVIOUS
  <2>3. a \in Int
    BY <2>1, <2>2, Sizes
  <2> QED BY <1>1, <2>1, <2>2, <2>3, Sizes
<1>3. TableOf(q) < Pmt0Entries
  <2> SUFFICES ASSUME TableOf(q) >= Pmt0Entries PROVE FALSE
    BY <1>2, Sizes
  <2>1. TableOf(q) * Pmt1Entries >= Pmt0Entries * Pmt1Entries
    BY <1>2, Sizes
  <2> QED BY <1>1, <1>2, <2>1, Sizes
<1> QED BY <1>2, <1>3, Sizes DEF PageTables

\* A page has the table of the one before it, or starts one.
LEMMA NextTable ==
  ASSUME NEW q \in Nat
  PROVE  (q + 1) % Pmt1Entries = 0 \/ TableOf(q + 1) = TableOf(q)
<1> DEFINE r == q % Pmt1Entries
<1>1. r \in 0 .. Pmt1Entries - 1 /\ TableOf(q) \in Nat /\ q = TableOf(q) * Pmt1Entries + r
  BY DivMod
<1>2. CASE r < Pmt1Entries - 1
  <2>1. r + 1 \in 0 .. Pmt1Entries - 1 /\ q + 1 = TableOf(q) * Pmt1Entries + (r + 1)
    BY <1>1, <1>2, Sizes
  <2> QED BY <1>1, <2>1, DivModUnique
<1>3. CASE r = Pmt1Entries - 1
  <2>1. q + 1 = (TableOf(q) + 1) * Pmt1Entries + 0 /\ 0 \in 0 .. Pmt1Entries - 1
    BY <1>1, <1>3, Sizes
  <2>2. TableOf(q) + 1 \in Nat /\ q + 1 \in Nat
    BY <1>1
  <2>3. (q + 1) % Pmt1Entries = 0
    BY <2>1, <2>2, DivModUnique
  <2> QED BY <2>3
<1> QED BY <1>1, <1>2, <1>3, Sizes

\* The pages of a table.
LEMMA WholeTable ==
  ASSUME NEW q \in Nat, q % Pmt1Entries = 0
  PROVE  /\ \A r \in q .. q + Pmt1Entries - 1 : TableOf(r) = TableOf(q)
         /\ (q + Pmt1Entries) % Pmt1Entries = 0
         /\ q < NumPages => q + Pmt1Entries <= NumPages
<1>1. TableOf(q) \in Nat /\ q = TableOf(q) * Pmt1Entries
  <2>1. TableOf(q) \in Nat /\ q = TableOf(q) * Pmt1Entries + 0
    BY DivMod
  <2> QED BY <2>1, Sizes
<1>2. ASSUME NEW r \in q .. q + Pmt1Entries - 1 PROVE TableOf(r) = TableOf(q)
  <2>1. r \in Nat /\ r - q \in 0 .. Pmt1Entries - 1 /\ r = TableOf(q) * Pmt1Entries + (r - q)
    BY <1>1, Sizes
  <2> QED BY <1>1, <2>1, DivModUnique
<1>3. (q + Pmt1Entries) % Pmt1Entries = 0
  <2>1. /\ q + Pmt1Entries \in Nat /\ TableOf(q) + 1 \in Nat
        /\ q + Pmt1Entries = (TableOf(q) + 1) * Pmt1Entries + 0
        /\ 0 \in 0 .. Pmt1Entries - 1
    BY <1>1, Sizes
  <2> QED BY <2>1, DivModUnique
<1>4. ASSUME q < NumPages PROVE q + Pmt1Entries <= NumPages
  <2>1. TableOf(q) + 1 <= Pmt0Entries
    <3>1. q \in Pages
      BY <1>4, Sizes DEF Pages
    <3> QED BY <3>1, TableOfPage, Sizes DEF PageTables
  <2>2. (TableOf(q) + 1) * Pmt1Entries <= Pmt0Entries * Pmt1Entries
    BY <1>1, <2>1, Sizes
  <2>3. q + Pmt1Entries = (TableOf(q) + 1) * Pmt1Entries
    BY <1>1, Sizes
  <2> QED BY <2>2, <2>3 DEF NumPages
<1> QED BY <1>2, <1>3, <1>4

\* Tables for a segment hold its pages.
LEMMA TablesForEnough ==
  ASSUME NEW n \in Nat
  PROVE  TablesFor(n) \in Nat /\ n <= TablesFor(n) * Pmt1Entries
<1> DEFINE m == n + Pmt1Entries - 1
<1>1. m \in Nat /\ TablesFor(n) = TableOf(m)
  BY Sizes DEF TablesFor, TableOf
<1>2. /\ TableOf(m) \in Nat /\ m % Pmt1Entries \in 0 .. Pmt1Entries - 1
      /\ m = TableOf(m) * Pmt1Entries + (m % Pmt1Entries)
  BY <1>1, DivMod
<1>3. PICK a : a = TableOf(m) * Pmt1Entries
  OBVIOUS
<1>4. a \in Nat
  BY <1>2, <1>3, Sizes
<1>5. n <= a
  BY <1>2, <1>3, <1>4, Sizes
<1> QED BY <1>1, <1>2, <1>3, <1>5

-----------------------------------------------------------------------------
(* Tables that are missing, and how many are got *)

LEMMA MissingFinite ==
  ASSUME NEW q \in Nat, NEW n \in Nat, q + n <= NumPages
  PROVE  /\ MissingTables(q, n) \subseteq PageTables
         /\ IsFiniteSet(MissingTables(q, n))
         /\ Cardinality(MissingTables(q, n)) \in Nat
<1>1. q .. q + n - 1 \subseteq Pages
  BY Sizes DEF Pages
<1>2. MissingTables(q, n) \subseteq PageTables
  BY <1>1, TableOfPage DEF MissingTables, TablesOf
<1>3. IsFiniteSet(PageTables)
  BY Sizes, FS_Interval DEF PageTables
<1> QED BY <1>2, <1>3, FS_Subset, FS_CardinalityType

\* Tables are got while there are slabs.
LEMMA GotSuffice ==
  ASSUME NEW q \in Nat, NEW n \in Nat, q + n <= NumPages, slabs \in Nat
  PROVE  /\ IsFiniteSet(TablesGot(q, n))
         /\ Cardinality(TablesGot(q, n)) \in 0 .. slabs
         /\ TablesGot(q, n) \subseteq MissingTables(q, n)
<1> DEFINE missing == MissingTables(q, n)
           got     == TablesGot(q, n)
           upTo(x) == {u \in missing : u <= x}
           D       == {x \in PageTables : Cardinality(upTo(x)) <= slabs}
<1>1. missing \subseteq PageTables /\ IsFiniteSet(missing)
  BY MissingFinite
<1>2. got = {t \in missing : Cardinality(upTo(t)) <= slabs}
  BY DEF TablesGot
<1>3. got \subseteq D
  BY <1>1, <1>2
<1>4. PageTables = 0 .. Pmt0Entries - 1 /\ IsFiniteSet(PageTables)
  BY Sizes, FS_Interval DEF PageTables
<1>5. IsFiniteSet(D) /\ Cardinality(D) \in Nat
  BY <1>4, FS_Subset, FS_CardinalityType
<1>6. \A x : IsFiniteSet(upTo(x)) /\ Cardinality(upTo(x)) \in Nat
  BY <1>1, FS_Subset, FS_CardinalityType
<1>7. ASSUME NEW i \in D, NEW j \in Nat, j <= i PROVE j \in D
  <2>1. i \in PageTables /\ Cardinality(upTo(i)) <= slabs
    OBVIOUS
  <2>2. j \in PageTables
    BY <1>4, <1>7, <2>1, Sizes
  <2>3. upTo(j) \subseteq upTo(i)
    BY <1>1, <1>4, <1>7, <2>1, <2>2
  <2>4. Cardinality(upTo(j)) <= Cardinality(upTo(i))
    BY <1>6, <2>3, FS_Subset
  <2> HIDE DEF upTo
  <2>5. Cardinality(upTo(j)) <= slabs
    BY <1>6, <2>1, <2>4
  <2> QED BY <2>5, <2>2
<1>8. \A j \in D : j \in Nat
  BY <1>4
<1> HIDE DEF D, upTo
<1>9. CASE D = {}
  <2>1. got = {}
    BY <1>3, <1>9
  <2> QED BY <2>1, FS_EmptySet, <1>2
<1>10. CASE D # {}
  <2> DEFINE c == Cardinality(D)
  <2>1. ASSUME NEW j \in D PROVE j <= c - 1
    <3>1. 0 .. j \subseteq D
      BY <1>7, <1>8
    <3>2. Cardinality(0 .. j) = j + 1
      BY <1>8, FS_Interval
    <3>3. Cardinality(0 .. j) <= c
      BY <1>5, <3>1, FS_Subset
    <3> QED BY <1>5, <1>8, <3>2, <3>3
  <2>2. c > 0
    BY <1>5, <1>8, <1>10, <2>1
  <2>3. c - 1 \in D
    <3> SUFFICES ASSUME c - 1 \notin D PROVE FALSE
      OBVIOUS
    <3>1. D \subseteq 0 .. c - 2
      BY <1>5, <1>8, <2>1
    <3>2. IsFiniteSet(0 .. c - 2) /\ Cardinality(0 .. c - 2) = c - 1
      <4> HIDE DEF c
      <4>1. c \in Nat
        BY <1>5 DEF c
      <4> QED BY <2>2, <4>1, FS_Interval
    <3>3. Cardinality(D) <= c - 1
      BY <3>1, <3>2, FS_Subset
    <3> QED BY <1>5, <3>3
  <2>4. got \subseteq upTo(c - 1)
    BY <1>2, <1>3, <2>1 DEF upTo
  <2>5. IsFiniteSet(got) /\ Cardinality(got) <= Cardinality(upTo(c - 1))
    BY <1>6, <2>4, FS_Subset
  <2>6. Cardinality(upTo(c - 1)) <= slabs
    BY <2>3 DEF D
  <2>7. Cardinality(got) \in Nat /\ Cardinality(upTo(c - 1)) \in Nat
    BY <1>6, <2>5, FS_CardinalityType
  <2>8. Cardinality(got) \in 0 .. slabs
    <3> HIDE DEF c, got
    <3> QED BY <2>5, <2>6, <2>7
  <2> QED BY <1>2, <2>5, <2>8
<1> QED BY <1>9, <1>10

-----------------------------------------------------------------------------
(* Segments of the parent *)

LEMMA SameParent ==
  ASSUME parent' = parent, NEW q
  PROVE  /\ IsUsed(q)' <=> IsUsed(q)
         /\ SegmentAt(q)' = SegmentAt(q)
         /\ EntryAt(q)' = EntryAt(q)
BY DEF IsUsed, SegmentAt, SegmentsAt, EntryAt, IsShared

LEMMA SegmentFacts ==
  ASSUME ParentOK, NEW s \in parent.segments
  PROVE  /\ s.start \in Nat /\ s.start \in Pages
         /\ s.pages \in Nat /\ s.pages > 0
         /\ s.start + s.pages <= NumPages
         /\ s.start \in PagesOf(s)
         /\ s.master \in Names \union {"private", "gone"}
         /\ s.recorded \in Names
         /\ \A q \in PagesOf(s) : /\ q \in Nat /\ q \in Pages
                                  /\ s.start <= q /\ q < s.start + s.pages
                                  /\ TableOf(q) \in parent.tables
<1>1. /\ s.start \in 0 .. NumPages - 1 /\ s.pages \in 1 .. NumPages
      /\ s.master \in Names \union {"private", "gone"} /\ s.recorded \in Names
      /\ s.start + s.pages <= NumPages
      /\ \A q \in PagesOf(s) : TableOf(q) \in parent.tables
  BY DEF ParentOK, Segments, Pages
<1> QED BY <1>1, Sizes DEF PagesOf, Pages

LEMMA SegmentAtFacts ==
  ASSUME ParentOK, NEW q, IsUsed(q)
  PROVE  /\ SegmentAt(q) \in parent.segments
         /\ q \in PagesOf(SegmentAt(q))
         /\ q \in Nat /\ q \in Pages
         /\ TableOf(q) \in parent.tables
<1>1. SegmentAt(q) \in parent.segments /\ q \in PagesOf(SegmentAt(q))
  BY DEF IsUsed, SegmentAt, SegmentsAt
<1> QED BY <1>1, SegmentFacts

LEMMA TheSegment ==
  ASSUME ParentOK, NEW s \in parent.segments, NEW q \in PagesOf(s)
  PROVE  IsUsed(q) /\ SegmentAt(q) = s
<1>1. s \in SegmentsAt(q)
  BY DEF SegmentsAt
<1>2. IsUsed(q)
  BY <1>1 DEF IsUsed
<1>3. SegmentAt(q) \in parent.segments /\ q \in PagesOf(SegmentAt(q))
  BY <1>2, SegmentAtFacts
<1> QED BY <1>2, <1>3 DEF ParentOK

LEMMA SegmentSizeFacts ==
  ASSUME ParentOK, size \in [Names -> 0 .. NumPages], NEW q, IsUsed(q)
  PROVE  /\ SegmentSize(q) \in Nat /\ SegmentSize(q) \in 0 .. NumPages
         /\ SegmentAt(q).start # q => SegmentSize(q) = 0
         /\ SegmentAt(q).start = q /\ SegmentAt(q).master = "private" =>
              SegmentSize(q) = SegmentAt(q).pages
         /\ SegmentAt(q).master = "gone" => SegmentSize(q) = 0
         /\ SegmentAt(q).start = q /\ SegmentAt(q).master \in Names =>
              SegmentSize(q) = size[SegmentAt(q).master]
<1>1. PICK s \in parent.segments : s = SegmentAt(q)
  BY SegmentAtFacts
<1>2. /\ s.pages \in 0 .. NumPages
      /\ s.master \in Names \union {"private", "gone"}
      /\ s.master \in Names => size[s.master] \in 0 .. NumPages
      /\ "private" \notin Names /\ "gone" \notin Names
  <2>1. s.pages \in Nat /\ s.start \in Nat /\ s.start + s.pages <= NumPages
        /\ s.master \in Names \union {"private", "gone"}
    BY SegmentFacts
  <2> QED BY <2>1, Sizes, CloningAssumption
<1>3. SegmentSize(q) = IF q # s.start THEN 0
                       ELSE IF s.master = "private" THEN s.pages
                       ELSE IF s.master = "gone" THEN 0
                       ELSE size[s.master]
  BY <1>1 DEF SegmentSize
<1> QED BY <1>1, <1>2, <1>3, Sizes

\* A private segment is inside the address space.
LEMMA PrivateFits ==
  ASSUME ParentOK, size \in [Names -> 0 .. NumPages], NEW q, IsUsed(q),
         SegmentAt(q).master = "private"
  PROVE  q + SegmentSize(q) <= NumPages
<1>1. PICK s \in parent.segments : s = SegmentAt(q)
  BY SegmentAtFacts
<1>2. q \in Nat /\ q < NumPages
  BY SegmentAtFacts, Sizes DEF Pages
<1>3. CASE s.start = q
  BY <1>1, <1>3, SegmentFacts, SegmentSizeFacts
<1>4. CASE s.start # q
  <2>1. SegmentSize(q) = 0
    BY <1>1, <1>4, SegmentSizeFacts
  <2> QED BY <1>2, <2>1, Sizes
<1> QED BY <1>3, <1>4

-----------------------------------------------------------------------------
(* Kinds of steps *)

Causes == {"nullEntry", "outOfBounds", "noName", "doubleDelete"}

\* The kernel fails.
Failing ==
  /\ at # "crashed" /\ at' = "crashed"
  /\ crash' \in Causes
  /\ parent' = parent /\ paging' = paging /\ disk' = disk /\ size' = size
  /\ slabs' = slabs /\ page' = page /\ todo' = todo /\ tables' = tables
  /\ entries' = entries /\ copies' = copies /\ stray' = stray /\ connected' = connected
  /\ happened \subseteq happened' /\ happened' \subseteq happened \union {"noSlabs", "failed"}

\* The walk goes on and leaves the clone as it is.
Moving ==
  /\ at = "walk" /\ at' = "walk" /\ crash = "none" /\ crash' = crash
  /\ page' \in Nat /\ page' >= page
  /\ parent' = parent /\ paging' = paging /\ disk' = disk /\ size' = size
  /\ slabs' = slabs /\ todo' = todo /\ tables' = tables
  /\ entries' = entries /\ copies' = copies /\ stray' = stray /\ connected' = connected
  /\ happened' = happened

\* Another process's step.
Passing ==
  /\ parent' = parent /\ size' = size /\ at' = at /\ page' = page /\ todo' = todo
  /\ tables' = tables /\ entries' = entries /\ copies' = copies /\ stray' = stray
  /\ connected' = connected /\ crash' = crash
  /\ happened \subseteq happened' /\ happened' \subseteq happened \union {"overtaken"}

LEMMA FailingSteps ==
  \/ StartFails \/ WalkOffTable \/ CopyIntoNothing \/ CopyFails \/ NoName
  \/ ConnectReadsPast \/ ConnectCrashes
  => Failing
<1>1. ASSUME NEW from, NEW how, Crash(from, how), from # "crashed", how \in Causes,
             (\E what : NoteIf(TRUE, what) /\ what \in {"noSlabs", "failed"})
             \/ happened' = happened
      PROVE  Failing
  <2>1. happened \subseteq happened' /\ happened' \subseteq happened \union {"noSlabs", "failed"}
    BY <1>1 DEF NoteIf
  <2> QED BY <1>1, <2>1 DEF Crash, Go, Failing, paged, clone
<1>2. CASE StartFails
  BY <1>2, <1>1 DEF StartFails, Causes
<1>3. CASE WalkOffTable
  BY <1>3, <1>1 DEF WalkOffTable, Causes
<1>4. CASE CopyIntoNothing
  BY <1>4, <1>1 DEF CopyIntoNothing, Causes
<1>5. CASE CopyFails
  BY <1>5, <1>1 DEF CopyFails, Causes
<1>6. CASE NoName
  BY <1>6, <1>1 DEF NoName, Causes
<1>7. CASE ConnectReadsPast
  BY <1>7, <1>1 DEF ConnectReadsPast, Causes
<1>8. CASE ConnectCrashes
  BY <1>8, <1>1 DEF ConnectCrashes, Causes
<1> QED BY <1>2, <1>3, <1>4, <1>5, <1>6, <1>7, <1>8

LEMMA MovingSteps ==
  ASSUME BaseInv, SkipTable \/ SkipPage \/ ConnectRefused
  PROVE  Moving
<1>1. ASSUME NEW next, WalkOn(next), next \in Nat, next >= page PROVE Moving
  BY <1>1 DEF WalkOn, Go, Moving, paged, clone
<1>2. page \in Nat
  BY DEF BaseInv, Controlled
<1>3. CASE SkipTable
  BY <1>1, <1>2, <1>3, Sizes DEF SkipTable
<1>4. CASE SkipPage
  BY <1>1, <1>2, <1>4, Sizes DEF SkipPage
<1>5. CASE ConnectRefused
  <2>1. SegmentSize(page) \in Nat
    BY <1>5, SegmentSizeFacts DEF ConnectRefused, Meets, BaseInv, TypeOK
  <2> QED BY <1>1, <1>2, <1>5, <2>1 DEF ConnectRefused, AfterSegment
<1> QED BY <1>3, <1>4, <1>5

LEMMA PassingSteps ==
  Others => Passing
<1>1. ASSUME TakeSlab PROVE Passing
  BY <1>1 DEF TakeSlab, Passing, clone
<1>2. ASSUME NEW q \in Pages, Unload(q) \/ Save(q) \/ Fill(q) PROVE Passing
  <2>1. \E from, to : EvictStep(q, from, to)
    BY <1>2 DEF Unload, Save, Fill
  <2>2. happened \subseteq happened' /\ happened' \subseteq happened \union {"overtaken"}
    BY <1>2 DEF Unload, Save, Fill
  <2> QED BY <2>1, <2>2 DEF EvictStep, Passing, clone
<1> QED BY <1>1, <1>2 DEF Others

-----------------------------------------------------------------------------
(* Types and what the walk knows *)

\* What TypeOK says of one step, part by part.
LEMMA TypedStep ==
  ASSUME TypeOK,
         paging' \in [Pages -> {"loaded", "unloaded", "saved", "absent"}],
         disk' \in [Pages -> Contents],
         size' \in [Names -> 0 .. NumPages],
         slabs' \in 0 .. TotalSlabs,
         todo' \in 0 .. NumPages,
         tables' \subseteq PageTables,
         \A q \in Pages : \/ entries'[q] \in {Unused, Own}
                          \/ \E name \in Names, k \in Pages : entries'[q] = Link(name, k),
         copies' \in [Pages -> Contents],
         stray' \subseteq Contents,
         connected' \subseteq Names \X Pages,
         crash' \in {"none"} \union Causes,
         happened' \subseteq {"noSlabs", "failed", "overtaken"}
  PROVE  TypeOK'
BY DEF TypeOK, Causes

LEMMA ParentStays ==
  ASSUME ParentOK, parent' = parent
  PROVE  ParentOK'
BY DEF ParentOK

LEMMA BoundedNats ==
  /\ \A x \in 0 .. TotalSlabs : x \in Nat /\ x <= TotalSlabs
  /\ \A x \in 0 .. NumPages : x \in Nat /\ x <= NumPages
BY Sizes

LEMMA InitBase == Init => BaseInv
<1> SUFFICES ASSUME Init PROVE BaseInv
  OBVIOUS
<1>1. PICK p \in Parents, loaded \in SUBSET Pages, dirty \in SUBSET Pages :
        /\ parent = [segments |-> p.segments, tables |-> p.tables, dirty |-> dirty]
        /\ paging = [q \in Pages |-> IF q \in loaded THEN "loaded" ELSE "absent"]
        /\ size = p.size
  BY DEF Init
<1>2. ParentOK
  <2>1. parent.segments = p.segments /\ parent.tables = p.tables
    BY <1>1
  <2>2. /\ p.segments \subseteq Segments /\ p.tables \subseteq PageTables
        /\ \A s \in p.segments : /\ s.start + s.pages <= NumPages
                                 /\ {TableOf(q) : q \in PagesOf(s)} \subseteq p.tables
        /\ \A s, t \in p.segments : s # t => PagesOf(s) \intersect PagesOf(t) = {}
    BY CloningAssumption
  <2> QED BY <2>1, <2>2 DEF ParentOK
<1>3. size \in [Names -> 0 .. NumPages]
  BY <1>1, CloningAssumption
<1>4. \A q \in Pages : OnDisk(q) \in Contents
  BY DEF Contents
<1>5. TypeOK
  <2>1. paging \in [Pages -> {"loaded", "unloaded", "saved", "absent"}]
    BY <1>1
  <2>2. disk \in [Pages -> Contents] /\ copies \in [Pages -> Contents]
    BY <1>4 DEF Init, Contents
  <2>3. \A q \in Pages : entries[q] = Unused
    BY DEF Init
  <2>4. todo \in 0 .. NumPages
    BY Sizes DEF Init
  <2> QED BY <1>3, <2>1, <2>2, <2>3, <2>4 DEF Init, TypeOK
<1>6. Controlled
  BY DEF Init, Controlled, Labels, Copying, Reading
<1> QED BY <1>2, <1>5, <1>6 DEF BaseInv

LEMMA FailingBase == BaseInv /\ Failing => BaseInv'
<1> SUFFICES ASSUME BaseInv, Failing PROVE BaseInv'
  OBVIOUS
<1>1. ParentOK'
  BY ParentStays DEF BaseInv, Failing
<1>2. TypeOK'
  BY DEF BaseInv, Failing, TypeOK, Causes
<1>3. Controlled'
  BY DEF BaseInv, Failing, Controlled, Labels, Copying, Reading, Causes
<1> QED BY <1>1, <1>2, <1>3 DEF BaseInv

LEMMA MovingBase == BaseInv /\ Moving => BaseInv'
<1> SUFFICES ASSUME BaseInv, Moving PROVE BaseInv'
  OBVIOUS
<1>1. ParentOK'
  BY ParentStays DEF BaseInv, Moving
<1>2. TypeOK'
  BY DEF BaseInv, Moving, TypeOK
<1>3. Controlled'
  BY DEF BaseInv, Moving, Controlled, Labels, Copying, Reading
<1> QED BY <1>1, <1>2, <1>3 DEF BaseInv

LEMMA OthersBase == BaseInv /\ Others => BaseInv'
<1> SUFFICES ASSUME BaseInv, Others PROVE BaseInv'
  OBVIOUS
<1>1. Passing
  BY PassingSteps
<1>2. ParentOK'
  BY <1>1, ParentStays DEF BaseInv, Passing
<1>3. /\ paging' \in [Pages -> {"loaded", "unloaded", "saved", "absent"}]
      /\ disk' \in [Pages -> Contents]
      /\ slabs' \in 0 .. TotalSlabs
  <2>1. CASE TakeSlab
    <3>1. slabs \in Nat /\ slabs <= TotalSlabs /\ slabs > 0 /\ slabs' = slabs - 1
      BY <2>1, BoundedNats DEF TakeSlab, BaseInv, TypeOK
    <3>2. slabs' \in 0 .. TotalSlabs
      BY <3>1, Sizes
    <3> QED BY <2>1, <3>2 DEF TakeSlab, BaseInv, TypeOK, paged
  <2>2. ASSUME NEW q \in Pages, Unload(q) \/ Save(q) \/ Fill(q)
        PROVE  /\ paging' \in [Pages -> {"loaded", "unloaded", "saved", "absent"}]
               /\ disk' \in [Pages -> Contents]
               /\ slabs' \in 0 .. TotalSlabs
    <3>1. slabs' = slabs /\ \E to \in {"unloaded", "saved", "absent"} :
                              paging' = [paging EXCEPT ![q] = to]
      BY <2>2 DEF Unload, Save, Fill, EvictStep
    <3>2. disk' = disk \/ disk' = [disk EXCEPT ![q] = PmtBytes]
      BY <2>2 DEF Unload, Save, Fill
    <3>3. PmtBytes \in Contents
      BY DEF Contents
    <3> QED BY <3>1, <3>2, <3>3 DEF BaseInv, TypeOK
  <2> QED BY <2>1, <2>2 DEF Others
<1>4. TypeOK'
  BY <1>1, <1>3 DEF BaseInv, Passing, TypeOK
<1>5. Controlled'
  <2>1. Begins(page)' <=> Begins(page)
    BY <1>1, SameParent DEF Passing, Begins
  <2>2. SegmentAt(page)' = SegmentAt(page)
    BY <1>1, SameParent DEF Passing
  <2> QED BY <1>1, <2>1, <2>2 DEF BaseInv, Passing, Controlled
<1> QED BY <1>2, <1>4, <1>5 DEF BaseInv

LEMMA MeetsFacts ==
  /\ Meets("private") => /\ IsUsed(page) /\ HasTable
                         /\ SegmentAt(page).master = "private"
  /\ Meets("shared") => /\ IsUsed(page) /\ HasTable
                        /\ SegmentAt(page).master # "private"
<1>1. "shared" # "private"
  OBVIOUS
<1> QED BY <1>1 DEF Meets, IsShared

LEMMA StartBase == BaseInv /\ (Start \/ Finish) => BaseInv'
<1> SUFFICES ASSUME BaseInv, Start \/ Finish PROVE BaseInv'
  OBVIOUS
<1>1. ParentOK'
  BY ParentStays DEF BaseInv, Start, Finish
<1>2. slabs' \in 0 .. TotalSlabs
  BY BoundedNats, Sizes DEF BaseInv, TypeOK, Start, Finish
<1>3. TypeOK'
  BY <1>2 DEF BaseInv, TypeOK, Start, Finish, paged, clone
<1>4. Controlled'
  BY DEF BaseInv, Controlled, Start, Finish, Go, Labels, Copying, Reading
<1> QED BY <1>1, <1>3, <1>4 DEF BaseInv

LEMMA MeetPrivateBase == BaseInv /\ MeetPrivate => BaseInv'
<1> SUFFICES ASSUME BaseInv, MeetPrivate PROVE BaseInv'
  OBVIOUS
<1>1. ParentOK' /\ parent' = parent
  BY ParentStays DEF BaseInv, MeetPrivate
<1>2. PICK n : n = SegmentSize(page)
  OBVIOUS
<1>3. IsUsed(page) /\ SegmentAt(page).master = "private"
  BY MeetsFacts DEF MeetPrivate
<1>4. /\ n \in 0 .. NumPages /\ n \in Nat
      /\ page + n <= NumPages
      /\ n > 0 => SegmentAt(page).start = page /\ n = SegmentAt(page).pages
  BY <1>2, <1>3, SegmentSizeFacts, PrivateFits DEF BaseInv, TypeOK
<1>5. /\ at' \in {"setUp", "copy"} /\ crash = "none" /\ crash' = crash
      /\ at' = "setUp" => n > 0
      /\ page' = page /\ todo' = n
      /\ happened' \subseteq happened \union {"noSlabs"}
  BY <1>2 DEF MeetPrivate, Go, NoteIf
<1>6. TypeOK'
  BY <1>4, <1>5 DEF BaseInv, TypeOK, MeetPrivate, paged, clone
<1>7. Controlled'
  <2>1. Begins(page)' <=> Begins(page)
    BY <1>1, <1>5, SameParent DEF Begins
  <2>2. SegmentAt(page)' = SegmentAt(page)
    BY <1>1, <1>5, SameParent
  <2>3. at' = "setUp" => Begins(page)
    BY <1>3, <1>4, <1>5 DEF Begins
  <2> QED BY <1>3, <1>4, <1>5, <2>1, <2>2, <2>3
          DEF BaseInv, Controlled, Labels, Copying, Reading
<1> QED BY <1>1, <1>6, <1>7 DEF BaseInv

\* What an allocation changes besides entries.
LEMMA TablesTyped ==
  ASSUME BaseInv, NEW n \in Nat, page + n <= NumPages
  PROVE  /\ tables \union TablesGot(page, n) \subseteq PageTables
         /\ slabs - Cardinality(TablesGot(page, n)) \in 0 .. TotalSlabs
         /\ slabs - Cardinality(TablesGot(page, n)) <= slabs
<1>1. page \in Nat /\ slabs \in Nat /\ slabs <= TotalSlabs
  BY BoundedNats DEF BaseInv, Controlled, TypeOK
<1>2. PICK c : c = Cardinality(TablesGot(page, n))
  OBVIOUS
<1>3. c \in 0 .. slabs
  BY <1>1, <1>2, GotSuffice
<1>4. TablesGot(page, n) \subseteq PageTables
  BY <1>1, GotSuffice, MissingFinite
<1>5. slabs - c \in 0 .. TotalSlabs /\ slabs - c <= slabs
  BY <1>1, <1>3, Sizes
<1> QED BY <1>2, <1>4, <1>5 DEF BaseInv, TypeOK

LEMMA SetUpBase == BaseInv /\ SetUp => BaseInv'
<1> SUFFICES ASSUME BaseInv, SetUp PROVE BaseInv'
  OBVIOUS
<1>1. ParentOK' /\ parent' = parent
  BY ParentStays DEF BaseInv, SetUp
<1>2. PICK n : n = todo
  OBVIOUS
<1>3. n \in Nat /\ page \in Nat /\ page + n <= NumPages
  <2>1. PICK s \in parent.segments : s = SegmentAt(page) /\ s.start = page /\ n = s.pages
    BY <1>2, SegmentAtFacts DEF SetUp, Go, BaseInv, Controlled, Begins
  <2> QED BY <2>1, SegmentFacts DEF BaseInv
<1>4. /\ at' = "copy" /\ crash = "none" /\ crash' = crash /\ page' = page /\ todo' = n
      /\ happened' \subseteq happened \union {"noSlabs"}
      /\ tables' = tables \union TablesGot(page, n)
      /\ slabs' = slabs - Cardinality(TablesGot(page, n))
      /\ \A q \in Pages : entries'[q] \in {Own, entries[q]}
  BY <1>2 DEF SetUp, Go, NoteIf
<1>5. tables' \subseteq PageTables /\ slabs' \in 0 .. TotalSlabs
  BY <1>3, <1>4, TablesTyped
<1>6. TypeOK'
  <2>1. \A q \in Pages : \/ entries'[q] \in {Unused, Own}
                         \/ \E name \in Names, k \in Pages : entries'[q] = Link(name, k)
    BY <1>4 DEF BaseInv, TypeOK
  <2>2. UNCHANGED <<paging, disk, size, todo, copies, stray, connected, crash>>
    BY DEF SetUp, paged
  <2> QED BY <1>4, <1>5, <2>1, <2>2 DEF BaseInv, TypeOK
<1>7. Controlled'
  BY <1>3, <1>4 DEF BaseInv, Controlled, Labels, Copying, Reading
<1> QED BY <1>1, <1>6, <1>7 DEF BaseInv

LEMMA LookAtPageBase == BaseInv /\ LookAtPage => BaseInv'
<1> SUFFICES ASSUME BaseInv, LookAtPage PROVE BaseInv'
  OBVIOUS
<1>1. ParentOK' /\ parent' = parent
  BY ParentStays DEF BaseInv, LookAtPage
<1>2. /\ at' \in Reading /\ at = "copy" /\ crash = "none" /\ crash' = crash
      /\ page' = page /\ todo' = todo /\ todo > 0
      /\ happened' \subseteq happened \union {"overtaken"}
  BY DEF LookAtPage, Go, Source, NoteIf, Reading
<1>3. TypeOK'
  BY <1>2 DEF LookAtPage, BaseInv, TypeOK, paged, clone
<1>4. Controlled'
  BY <1>2 DEF BaseInv, Controlled, Labels, Copying, Reading
<1> QED BY <1>1, <1>3, <1>4 DEF BaseInv

\* What is copied.
Content == IF at = "fromFrame" THEN Memory(page) ELSE disk[page]

LEMMA CopySteps ==
  ASSUME BaseInv, CopyFrame \/ CopyCluster
  PROVE  /\ at \in Reading /\ Copy(at, Content)
         /\ page \in Nat /\ page \in Pages
         /\ todo \in Nat /\ todo > 0
         /\ page + todo <= NumPages
         /\ Content \in Contents
<1>1. at \in Reading /\ Copy(at, Content)
  BY DEF CopyFrame, CopyCluster, Copy, Go, Reading, Content
<1>2. page \in Nat /\ todo \in Nat /\ todo > 0 /\ page + todo <= NumPages
  BY <1>1, BoundedNats DEF BaseInv, TypeOK, Controlled, Copying
<1>3. page \in Pages
  BY <1>2, Sizes DEF Pages
<1>4. Memory(page) \in Contents /\ disk[page] \in Contents
  BY <1>3 DEF Memory, Contents, BaseInv, TypeOK
<1> QED BY <1>1, <1>2, <1>3, <1>4 DEF Content

LEMMA CopyBase == BaseInv /\ (CopyFrame \/ CopyCluster) => BaseInv'
<1> SUFFICES ASSUME BaseInv, CopyFrame \/ CopyCluster PROVE BaseInv'
  OBVIOUS
<1>1. /\ at \in Reading /\ Copy(at, Content)
      /\ page \in Nat /\ page \in Pages
      /\ todo \in Nat /\ todo > 0
      /\ page + todo <= NumPages
      /\ Content \in Contents
  BY CopySteps
<1>2. PICK content : content = Content
  OBVIOUS
<1>3. Copy(at, content) /\ content \in Contents
  BY <1>1, <1>2
<1>4. ParentOK' /\ parent' = parent
  BY <1>3, ParentStays DEF BaseInv, Copy
<1>5. /\ at' = "copy" /\ crash = "none" /\ crash' = crash
      /\ page' = page + 1 /\ todo' = todo - 1
      /\ copies' = copies \/ copies' = [copies EXCEPT ![page] = content]
      /\ stray' \subseteq stray \union {content}
  BY <1>3 DEF Copy, Go
<1>6. TypeOK'
  <2>1. UNCHANGED <<paging, disk, size, slabs, tables, entries, connected, crash, happened>>
    BY <1>3 DEF Copy, paged
  <2>2. todo' \in 0 .. NumPages
    BY <1>1, <1>5, Sizes
  <2>3. copies' \in [Pages -> Contents] /\ stray' \subseteq Contents
    BY <1>1, <1>3, <1>5 DEF BaseInv, TypeOK
  <2> QED BY <2>1, <2>2, <2>3 DEF BaseInv, TypeOK
<1>7. Controlled'
  BY <1>1, <1>5 DEF BaseInv, Controlled, Labels, Copying, Reading
<1> QED BY <1>4, <1>6, <1>7 DEF BaseInv

LEMMA EndSegmentBase == BaseInv /\ EndSegment => BaseInv'
<1> SUFFICES ASSUME BaseInv, EndSegment PROVE BaseInv'
  OBVIOUS
<1>1. ParentOK'
  BY ParentStays DEF BaseInv, EndSegment
<1>2. TypeOK'
  BY DEF EndSegment, BaseInv, TypeOK, paged, clone
<1>3. Controlled'
  BY DEF EndSegment, Go, AfterSegment, BaseInv, Controlled, Labels, Copying, Reading
<1> QED BY <1>1, <1>2, <1>3 DEF BaseInv

LEMMA MeetSharedFacts ==
  ASSUME BaseInv, MeetShared
  PROVE  /\ Begins(page) /\ SegmentAt(page).master \in Names
         /\ SegmentSize(page) = size[SegmentAt(page).master]
         /\ SegmentSize(page) \in 0 .. NumPages /\ SegmentSize(page) > 0
         /\ Name \in Names
         /\ page + SegmentSize(page) <= NumPages \/ Pmt0Entries - 1 \in tables
<1>1. /\ IsUsed(page) /\ SegmentAt(page).master # "private"
      /\ SegmentAt(page).start = page /\ Name = SegmentAt(page).recorded
      /\ SegmentSize(page) > 0
  BY MeetsFacts DEF MeetShared, IsNamed, Name, Grants
<1>2. PICK s \in parent.segments : s = SegmentAt(page)
  BY <1>1, SegmentAtFacts DEF BaseInv
<1>3. s.master \in Names \union {"private", "gone"} /\ s.recorded \in Names
  BY SegmentFacts DEF BaseInv
<1>4. s.master # "gone"
  BY <1>1, <1>2, SegmentSizeFacts DEF BaseInv, TypeOK
<1>5. SegmentSize(page) = size[s.master] /\ SegmentSize(page) \in 0 .. NumPages
  BY <1>1, <1>2, <1>3, <1>4, SegmentSizeFacts DEF BaseInv, TypeOK
<1>6. page + SegmentSize(page) <= NumPages \/ Pmt0Entries - 1 \in tables
  <2>1. PICK n \in Nat : n = SegmentSize(page)
    BY <1>5, BoundedNats
  <2>2. ~ReadsPast(page, n) /\ page \in Nat
    BY <2>1 DEF MeetShared, BaseInv, Controlled
  <2> QED BY <2>1, <2>2, Sizes DEF ReadsPast
<1> QED BY <1>1, <1>2, <1>3, <1>4, <1>5, <1>6 DEF Begins

\* And a segment that is granted is inside the address space.
LEMMA GrantedFits ==
  ASSUME BaseInv, MeetShared
  PROVE  page + SegmentSize(page) <= NumPages
<1>1. PICK n \in Nat : n = SegmentSize(page)
  BY MeetSharedFacts, BoundedNats
<1>2. page + n <= NumPages \/ Pmt0Entries - 1 \in tables
  BY <1>1, MeetSharedFacts
<1>3. Pmt0Entries - 1 \in tables => page + n < NumPages
  BY <1>1 DEF MeetShared, Grants, HaveFree
<1> QED BY <1>1, <1>2, <1>3, Sizes DEF BaseInv, Controlled

LEMMA MeetSharedBase == BaseInv /\ MeetShared => BaseInv'
<1> SUFFICES ASSUME BaseInv, MeetShared PROVE BaseInv'
  OBVIOUS
<1>1. ParentOK' /\ parent' = parent
  BY ParentStays DEF BaseInv, MeetShared
<1>n. PICK n : n = SegmentSize(page)
  OBVIOUS
<1>m. PICK m : m = SegmentAt(page).master
  OBVIOUS
<1>name. PICK name : name = Name
  OBVIOUS
<1>2. /\ n = SegmentSize(page) /\ m = SegmentAt(page).master /\ name = Name
      /\ n \in 0 .. NumPages /\ n > 0 /\ n \in Nat /\ m \in Names /\ n = size[m]
      /\ name \in Names
      /\ Begins(page) /\ page + n <= NumPages
  BY <1>n, <1>m, <1>name, MeetSharedFacts, GrantedFits, BoundedNats
<1>3. /\ at' = "connect" /\ crash = "none" /\ crash' = crash
      /\ page' = page /\ todo' = n
      /\ size' = size \/ (size' = [size EXCEPT ![name] = n] /\ size[name] = 0)
      /\ happened' \subseteq happened \union {"noSlabs"}
  BY <1>2 DEF MeetShared, Go, NoteIf
<1>4. size' \in [Names -> 0 .. NumPages] /\ size'[m] = n
  BY <1>2, <1>3 DEF BaseInv, TypeOK
<1>5. slabs' \in 0 .. TotalSlabs
  <2>1. PICK cost \in Nat : slabs' = IF slabs >= cost THEN slabs - cost ELSE 0
    <3>1. TablesFor(n) \in Nat
      BY <1>2, TablesForEnough
    <3>2. (IF size[name] = 0 THEN 1 + TablesFor(n) ELSE 0) \in Nat
      BY <3>1
    <3> QED BY <1>2, <3>2 DEF MeetShared
  <2>2. slabs \in Nat /\ slabs <= TotalSlabs
    BY BoundedNats DEF BaseInv, TypeOK
  <2> QED BY <2>1, <2>2, Sizes
<1>6. TypeOK'
  <2>1. UNCHANGED <<paging, disk, tables, entries, copies, stray, connected, crash>>
    BY DEF MeetShared, paged, clone
  <2> QED BY <1>2, <1>3, <1>4, <1>5, <2>1 DEF BaseInv, TypeOK
<1>7. Controlled'
  <2>1. Begins(page)' <=> Begins(page)
    BY <1>1, <1>3, SameParent DEF Begins
  <2>2. SegmentAt(page)' = SegmentAt(page)
    BY <1>1, <1>3, SameParent
  <2> QED BY <1>2, <1>3, <1>4, <2>1, <2>2 DEF BaseInv, Controlled, Labels, Copying, Reading
<1> QED BY <1>1, <1>6, <1>7 DEF BaseInv

\* What allocateFromShared looks at: never more than the pages there are.
Linkable == TablesFor(size[Name]) * Pmt1Entries
Asked == IF todo > Linkable THEN Linkable + 1 ELSE todo
Linked == {r \in PagesGot(page, Asked) : r - page < Linkable}

LEMMA AskedFits ==
  ASSUME BaseInv, at = "connect"
  PROVE  /\ Name \in Names /\ page \in Nat /\ todo \in Nat /\ todo > 0
         /\ page + todo <= NumPages
         /\ Linkable \in Nat /\ size[Name] <= Linkable
         /\ Asked \in Nat /\ Asked <= todo /\ page + Asked <= NumPages
         /\ \A q \in Linked : q \in Pages /\ page <= q /\ q < page + todo
<1>1. /\ page \in Nat /\ todo \in Nat /\ todo > 0
      /\ page + todo <= NumPages /\ IsUsed(page)
  BY BoundedNats DEF BaseInv, Controlled, TypeOK, Begins
<1>2. Name \in Names
  <2>1. PICK s \in parent.segments : s = SegmentAt(page)
    BY <1>1, SegmentAtFacts DEF BaseInv
  <2> QED BY <2>1, SegmentFacts DEF Name, BaseInv
<1>3. size[Name] \in Nat
  BY <1>2, BoundedNats DEF BaseInv, TypeOK
<1>4. /\ TablesFor(size[Name]) \in Nat
      /\ size[Name] <= TablesFor(size[Name]) * Pmt1Entries
  BY <1>3, TablesForEnough
<1>5. Linkable \in Nat /\ size[Name] <= Linkable
  BY <1>4, Sizes DEF Linkable
<1>6. Asked \in Nat /\ Asked <= todo
  BY <1>1, <1>5 DEF Asked
<1>7. page + Asked <= NumPages
  BY <1>1, <1>6, Sizes
<1>8. ASSUME NEW q \in Linked PROVE q \in Pages /\ page <= q /\ q < page + todo
  <2>1. q \in page .. page + Asked - 1
    BY DEF Linked, PagesGot
  <2> QED BY <1>1, <1>6, <2>1, Sizes DEF Pages
<1> QED BY <1>1, <1>2, <1>5, <1>6, <1>7, <1>8

LEMMA ConnectSteps ==
  ASSUME BaseInv, Connect
  PROVE  /\ size[Name] > 0
         /\ at = "connect" /\ at' = "walk" /\ crash = "none" /\ crash' = crash
         /\ page' = page + todo + 1 /\ todo' = 0
         /\ parent' = parent /\ paging' = paging /\ disk' = disk /\ size' = size
         /\ copies' = copies /\ stray' = stray
         /\ tables' = tables \union TablesGot(page, Asked)
         /\ slabs' = slabs - Cardinality(TablesGot(page, Asked))
         /\ entries' = [q \in Pages |-> IF q \in Linked THEN Link(Name, q - page)
                                        ELSE entries[q]]
         /\ connected' = IF Linked = page .. page + todo - 1
                         THEN connected \union {<<Name, page>>} ELSE connected
         /\ happened \subseteq happened' /\ happened' \subseteq happened \union {"noSlabs"}
         /\ "noSlabs" \notin happened' => ~RunsShort(page, Asked)
<1>1. /\ at = "connect" /\ at' = "walk" /\ crash = "none" /\ crash' = crash
      /\ page' = page + todo + 1 /\ todo' = 0
      /\ parent' = parent /\ paging' = paging /\ disk' = disk /\ size' = size
      /\ copies' = copies /\ stray' = stray
  BY DEF Connect, EndConnect, Go, AfterSegment, paged
<1>2. /\ size[Name] > 0
      /\ tables' = tables \union TablesGot(page, Asked)
      /\ slabs' = slabs - Cardinality(TablesGot(page, Asked))
      /\ entries' = [q \in Pages |-> IF q \in Linked THEN Link(Name, q - page)
                                     ELSE entries[q]]
      /\ connected' = IF Linked = page .. page + todo - 1
                      THEN connected \union {<<Name, page>>} ELSE connected
      /\ NoteIf(RunsShort(page, Asked), "noSlabs")
  BY DEF Connect, Linkable, Asked, Linked
<1>3. /\ happened \subseteq happened' /\ happened' \subseteq happened \union {"noSlabs"}
      /\ "noSlabs" \notin happened' => ~RunsShort(page, Asked)
  BY <1>2 DEF NoteIf
<1> QED BY <1>1, <1>2, <1>3

LEMMA ConnectBase == BaseInv /\ Connect => BaseInv'
<1> SUFFICES ASSUME BaseInv, Connect PROVE BaseInv'
  OBVIOUS
<1>1. /\ at = "connect" /\ at' = "walk" /\ crash = "none" /\ crash' = crash
      /\ page' = page + todo + 1 /\ todo' = 0
      /\ parent' = parent /\ paging' = paging /\ disk' = disk /\ size' = size
      /\ copies' = copies /\ stray' = stray
      /\ happened' \subseteq happened \union {"noSlabs"}
  BY ConnectSteps
<1>2. /\ Name \in Names /\ page \in Nat /\ todo \in Nat
      /\ Asked \in Nat /\ page + Asked <= NumPages
      /\ \A q \in Linked : q \in Pages /\ page <= q /\ q < page + todo
  BY <1>1, AskedFits
<1>3. page \in Pages
  BY <1>1, SegmentAtFacts DEF BaseInv, Controlled, Begins
<1>4. ParentOK'
  BY <1>1, ParentStays DEF BaseInv
<1>5. tables' \subseteq PageTables /\ slabs' \in 0 .. TotalSlabs
  <2>1. /\ tables' = tables \union TablesGot(page, Asked)
        /\ slabs' = slabs - Cardinality(TablesGot(page, Asked))
    BY ConnectSteps
  <2> QED BY <1>2, <2>1, TablesTyped
<1>6. \A q \in Pages : \/ entries'[q] \in {Unused, Own}
                       \/ \E name \in Names, k \in Pages : entries'[q] = Link(name, k)
  <2>1. \A q \in Linked : q - page \in Pages
    BY <1>2, Sizes DEF Pages
  <2>2. PICK name \in Names : name = Name
    BY <1>2
  <2>3. \A q \in Pages : \/ entries'[q] = entries[q]
                         \/ q \in Linked /\ entries'[q] = Link(name, q - page)
    BY <2>2, ConnectSteps
  <2> QED BY <2>1, <2>3 DEF BaseInv, TypeOK
<1>7. connected' \subseteq Names \X Pages
  <2>1. connected' = connected \/ connected' = connected \union {<<Name, page>>}
    BY ConnectSteps
  <2> QED BY <1>2, <1>3, <2>1 DEF BaseInv, TypeOK
<1>8. TypeOK'
  BY <1>1, <1>5, <1>6, <1>7, Sizes DEF BaseInv, TypeOK
<1>9. Controlled'
  BY <1>1, <1>2 DEF BaseInv, Controlled, Labels, Copying, Reading
<1> QED BY <1>4, <1>8, <1>9 DEF BaseInv

LEMMA ConnectToNothingBase == BaseInv /\ ConnectToNothing => BaseInv'
<1> SUFFICES ASSUME BaseInv, ConnectToNothing PROVE BaseInv'
  OBVIOUS
<1>1. /\ at = "connect" /\ at' = "walk" /\ crash = "none" /\ crash' = crash
      /\ page' = page + todo + 1 /\ todo' = 0 /\ parent' = parent
      /\ UNCHANGED <<paging, disk, size, slabs, tables, entries, copies, stray,
                     connected, crash, happened>>
  BY DEF ConnectToNothing, EndConnect, Go, AfterSegment, paged
<1>2. page \in Nat /\ todo \in Nat
  BY <1>1, BoundedNats DEF BaseInv, Controlled, TypeOK
<1>3. ParentOK'
  BY <1>1, ParentStays DEF BaseInv
<1>4. TypeOK'
  BY <1>1, Sizes DEF BaseInv, TypeOK
<1>5. Controlled'
  BY <1>1, <1>2 DEF BaseInv, Controlled, Labels, Copying, Reading
<1> QED BY <1>3, <1>4, <1>5 DEF BaseInv

LEMMA StutterBase == BaseInv /\ UNCHANGED vars => BaseInv'
<1> SUFFICES ASSUME BaseInv, UNCHANGED vars PROVE BaseInv'
  OBVIOUS
<1>1. /\ UNCHANGED <<parent, paging, disk, size, slabs, at, page, todo, tables, entries,
                     copies, stray, connected, crash, happened>>
  BY DEF vars, paged, clone
<1>2. ParentOK' /\ TypeOK'
  BY <1>1, ParentStays DEF BaseInv, TypeOK
<1>3. Controlled'
  <2>1. (Begins(page)' <=> Begins(page)) /\ SegmentAt(page)' = SegmentAt(page)
    BY <1>1, SameParent DEF Begins
  <2> QED BY <1>1, <2>1 DEF BaseInv, Controlled
<1> QED BY <1>2, <1>3 DEF BaseInv

\* The steps by kind, which every invariant goes through.
LEMMA StepKinds ==
  ASSUME BaseInv, [Next]_vars
  PROVE  \/ /\ Failing
            /\ \/ StartFails \/ WalkOffTable \/ CopyIntoNothing \/ CopyFails \/ NoName
               \/ ConnectReadsPast \/ ConnectCrashes
         \/ Moving /\ (SkipTable \/ SkipPage \/ ConnectRefused)
         \/ Others /\ Passing
         \/ Start \/ Finish
         \/ MeetPrivate \/ SetUp \/ LookAtPage \/ CopyFrame \/ CopyCluster \/ EndSegment
         \/ MeetShared \/ Connect \/ ConnectToNothing
         \/ UNCHANGED vars
<1>1. CASE Step
  BY <1>1, FailingSteps, MovingSteps DEF Step
<1>2. CASE Others
  BY <1>2, PassingSteps
<1>3. CASE Ended \/ UNCHANGED vars
  BY <1>3 DEF Ended
<1> QED BY <1>1, <1>2, <1>3 DEF Next

LEMMA NextBase == BaseInv /\ [Next]_vars => BaseInv'
BY StepKinds, FailingBase, MovingBase, OthersBase, StartBase, MeetPrivateBase, SetUpBase,
   LookAtPageBase, CopyBase, EndSegmentBase, MeetSharedBase, ConnectBase,
   ConnectToNothingBase, StutterBase

\* Whatever process is cloned, and whatever other calls do meanwhile: slabs never go
\* below zero, the clone's tables are tables, its entries in use its own or links, its
\* connections names and pages.
THEOREM TypeCorrect == Spec => []TypeOK
<1>1. BaseInv => TypeOK
  BY DEF BaseInv
<1> QED BY <1>1, InitBase, NextBase, PTL DEF Spec

-----------------------------------------------------------------------------
(* Where copies go *)

LEMMA EntryKinds ==
  /\ Own # Unused
  /\ \A name, k : Link(name, k) # Own /\ Link(name, k) # Unused
<1>1. Own # Unused
  BY DEF Own, Unused
<1>2. ASSUME NEW name, NEW k PROVE Link(name, k) # Own /\ Link(name, k) # Unused
  <2>1. Link(name, k)[1] = "link" /\ Own[1] = "own" /\ Unused[1] = "unused"
    BY DEF Link, Own, Unused
  <2> QED BY <2>1
<1> QED BY <1>1, <1>2

\* Every page up to one whose table is got is set up.
LEMMA AllGot ==
  ASSUME NEW q \in Nat, NEW n \in Nat
  PROVE  /\ \A r \in PagesGot(q, n) : /\ r \in q .. q + n - 1
                                      /\ TableOf(r) \in tables \union TablesGot(q, n)
         /\ ~RunsShort(q, n) => PagesGot(q, n) = q .. q + n - 1
<1>1. ASSUME NEW r \in PagesGot(q, n)
      PROVE  r \in q .. q + n - 1 /\ TableOf(r) \in tables \union TablesGot(q, n)
  <2>1. r \in q .. q + n - 1 /\ TablesOf(q, r - q + 1) \subseteq tables \union TablesGot(q, n)
    BY DEF PagesGot
  <2>2. r \in q .. q + (r - q + 1) - 1
    BY <2>1
  <2> QED BY <2>1, <2>2 DEF TablesOf
<1>2. ASSUME ~RunsShort(q, n), NEW r \in q .. q + n - 1 PROVE r \in PagesGot(q, n)
  <2>1. q .. q + (r - q + 1) - 1 \subseteq q .. q + n - 1
    OBVIOUS
  <2>2. TablesOf(q, r - q + 1) \subseteq TablesOf(q, n)
    BY <2>1 DEF TablesOf
  <2>3. TablesOf(q, n) \subseteq tables \union TablesGot(q, n)
    BY <1>2 DEF RunsShort, MissingTables
  <2> QED BY <2>2, <2>3 DEF PagesGot
<1> QED BY <1>1, <1>2

LEMMA InitAllocated == Init => Allocated
<1> SUFFICES ASSUME Init PROVE Allocated
  OBVIOUS
<1>1. \A q \in Pages : entries[q] = Unused
  BY DEF Init
<1> QED BY <1>1, EntryKinds DEF Init, Allocated, Copying, Reading, WritesOwnClusters

LEMMA SetUpToType == BaseInv => SetUpTo \in Nat /\ (at \notin Copying => SetUpTo = page)
BY BoundedNats DEF BaseInv, Controlled, TypeOK, SetUpTo

\* A step that leaves the clone as it is.
LEMMA StillAllocated ==
  ASSUME BaseInv, BaseInv', Allocated, parent' = parent, entries' = entries,
         tables' = tables, stray' = stray, happened \subseteq happened',
         at' # "crashed" => at # "crashed" /\ SetUpTo' >= SetUpTo,
         at' \in Copying => at \in Copying /\ page' = page /\ todo' = todo
  PROVE  Allocated'
<1>1. EndsWithSpace' <=> EndsWithSpace
  BY DEF EndsWithSpace
<1>2. WritesOwnClusters'
  BY DEF Allocated, WritesOwnClusters
<1>3. \A q \in Pages : entries'[q] = Own => TableOf(q) \in tables'
  BY DEF Allocated
<1>4. ASSUME at' # "crashed", NEW q \in Pages, q >= SetUpTo' PROVE entries'[q] = Unused
  <2>1. q \in Nat /\ SetUpTo \in Nat
    BY SetUpToType, Sizes DEF Pages
  <2>2. SetUpTo' \in Nat
    <3>1. page' \in Nat /\ todo' \in 0 .. NumPages
      BY DEF BaseInv, Controlled, TypeOK
    <3>2. todo' \in Nat
      BY <3>1, BoundedNats
    <3>3. SetUpTo' = page' + todo' \/ SetUpTo' = page'
      BY DEF SetUpTo
    <3> QED BY <3>1, <3>2, <3>3
  <2>3. q >= SetUpTo
    BY <1>4, <2>1, <2>2
  <2> QED BY <1>4, <2>3 DEF Allocated
<1>5. at' \in Copying => \/ "noSlabs" \in happened'
                         \/ EndsWithSpace'
                         \/ \A q \in page' .. page' + todo' - 1 : entries'[q] = Own
  BY <1>1 DEF Allocated
<1> QED BY <1>2, <1>3, <1>4, <1>5 DEF Allocated

LEMMA FailingAllocated == BaseInv /\ BaseInv' /\ Allocated /\ Failing => Allocated'
BY StillAllocated DEF Failing, Copying, Reading

LEMMA MovingAllocated == BaseInv /\ BaseInv' /\ Allocated /\ Moving => Allocated'
BY StillAllocated DEF Moving, Copying, Reading, SetUpTo

LEMMA PassingAllocated == BaseInv /\ BaseInv' /\ Allocated /\ Passing => Allocated'
<1> SUFFICES ASSUME BaseInv, BaseInv', Allocated, Passing PROVE Allocated'
  OBVIOUS
<1>1. SetUpTo' = SetUpTo /\ SetUpTo \in Nat
  BY SetUpToType DEF Passing, SetUpTo
<1> QED BY <1>1, StillAllocated DEF Passing

LEMMA StutterAllocated == BaseInv /\ BaseInv' /\ Allocated /\ UNCHANGED vars => Allocated'
<1> SUFFICES ASSUME BaseInv, BaseInv', Allocated, UNCHANGED vars PROVE Allocated'
  OBVIOUS
<1>1. Passing
  BY DEF vars, clone, Passing
<1> QED BY <1>1, PassingAllocated

LEMMA PlainAllocated ==
  ASSUME BaseInv, BaseInv', Allocated,
         Start \/ Finish \/ EndSegment \/ MeetShared \/ ConnectToNothing
  PROVE  Allocated'
<1>1. /\ parent' = parent /\ entries' = entries /\ tables' = tables /\ stray' = stray
      /\ happened \subseteq happened'
      /\ at' \notin Copying /\ at # "crashed"
  BY DEF Start, Finish, EndSegment, MeetShared, ConnectToNothing, EndConnect, Go, NoteIf,
         clone, Copying, Reading
<1>2. SetUpTo' = page' /\ SetUpTo \in Nat /\ page \in Nat /\ todo \in Nat
  BY <1>1, SetUpToType, BoundedNats DEF SetUpTo, BaseInv, Controlled, TypeOK
<1>3. SetUpTo' >= SetUpTo
  <2>1. CASE Start \/ Finish \/ MeetShared
    <3>1. page' = page /\ at \notin Copying
      BY <2>1 DEF Start, Finish, MeetShared, Go, Copying, Reading
    <3> QED BY <1>2, <3>1 DEF SetUpTo
  <2>2. CASE EndSegment
    <3>1. todo = 0 /\ page' = page + 1
      BY <2>2 DEF EndSegment, AfterSegment
    <3> QED BY <1>2, <3>1 DEF SetUpTo
  <2>3. CASE ConnectToNothing
    <3>1. page' = page + todo + 1 /\ at \notin Copying
      BY <2>3 DEF ConnectToNothing, EndConnect, Go, AfterSegment, Copying, Reading
    <3> QED BY <1>2, <3>1 DEF SetUpTo
  <2> QED BY <2>1, <2>2, <2>3
<1> QED BY <1>1, <1>3, StillAllocated

LEMMA LookAtPageAllocated ==
  ASSUME BaseInv, BaseInv', Allocated, LookAtPage
  PROVE  Allocated'
<1>1. /\ parent' = parent /\ entries' = entries /\ tables' = tables /\ stray' = stray
      /\ happened \subseteq happened' /\ page' = page /\ todo' = todo
      /\ at' \in Copying /\ at \in Copying /\ at # "crashed"
  BY DEF LookAtPage, Go, Source, NoteIf, clone, Copying, Reading
<1>2. SetUpTo' >= SetUpTo
  BY <1>1, SetUpToType DEF SetUpTo
<1> QED BY <1>1, <1>2, StillAllocated

\* An allocation is not granted when the segment ends with the address space.
LEMMA MeetPrivateAllocated ==
  ASSUME BaseInv, BaseInv', Allocated, MeetPrivate
  PROVE  Allocated'
<1>1. PICK n : n = SegmentSize(page)
  OBVIOUS
<1>2. IsUsed(page) /\ SegmentAt(page).master = "private"
  BY MeetsFacts DEF MeetPrivate
<1>3. /\ n \in Nat /\ page + n <= NumPages /\ page \in Nat
      /\ n > 0 => SegmentAt(page).start = page /\ n = SegmentAt(page).pages
  BY <1>1, <1>2, SegmentSizeFacts, PrivateFits DEF BaseInv, TypeOK, Controlled
<1>4. /\ parent' = parent /\ entries' = entries /\ tables' = tables /\ stray' = stray
      /\ happened \subseteq happened' /\ page' = page /\ todo' = n
      /\ at = "walk"
      /\ \/ at' = "setUp"
         \/ at' = "copy" /\ ("noSlabs" \in happened' \/ n = 0 \/ ~HaveFree(page, n))
  BY <1>1, <1>3 DEF MeetPrivate, Go, NoteIf, clone
<1>5. EndsWithSpace' <=> EndsWithSpace
  BY <1>4 DEF EndsWithSpace
<1>6. \A q \in Pages : q >= page => entries[q] = Unused
  BY <1>4, SetUpToType DEF Allocated, Copying, Reading
<1>7. WritesOwnClusters'
  BY <1>4 DEF Allocated, WritesOwnClusters
<1>8. \A q \in Pages : entries'[q] = Own => TableOf(q) \in tables'
  BY <1>4 DEF Allocated
<1>9. ASSUME NEW q \in Pages, q >= SetUpTo' PROVE entries'[q] = Unused
  <2>1. SetUpTo' = page \/ SetUpTo' = page + n
    BY <1>4 DEF SetUpTo
  <2>2. q >= page
    BY <1>3, <1>9, <2>1, Sizes DEF Pages
  <2> QED BY <1>4, <1>6, <2>2
<1>10. ASSUME at' = "copy" PROVE \/ "noSlabs" \in happened'
                               \/ EndsWithSpace'
                               \/ \A q \in page' .. page' + todo' - 1 : entries'[q] = Own
  <2>1. CASE "noSlabs" \in happened'
    BY <2>1
  <2>2. CASE n = 0
    BY <1>3, <1>4, <2>2
  <2>3. CASE ~HaveFree(page, n) /\ n # 0
    <3>1. \A r \in page .. page + n - 1 : r \in Pages => entries[r] = Unused
      BY <1>3, <1>6
    <3>2. ~(page + n < NumPages)
      BY <2>3, <3>1 DEF HaveFree
    <3>3. page + n = NumPages
      BY <1>3, <3>2, Sizes
    <3>4. PICK s \in parent.segments : s = SegmentAt(page)
      BY <1>2, SegmentAtFacts DEF BaseInv
    <3>5. s.start + s.pages = NumPages
      BY <1>3, <2>3, <3>3, <3>4
    <3> QED BY <1>5, <3>5 DEF EndsWithSpace
  <2> QED BY <1>4, <1>10, <2>1, <2>2, <2>3
<1> QED BY <1>4, <1>7, <1>8, <1>9, <1>10 DEF Allocated, Copying, Reading

LEMMA SetUpAllocated ==
  ASSUME BaseInv, BaseInv', Allocated, SetUp
  PROVE  Allocated'
<1>1. PICK n : n = todo
  OBVIOUS
<1>2. /\ parent' = parent /\ stray' = stray /\ page' = page /\ todo' = n
      /\ at = "setUp" /\ at' = "copy"
      /\ tables' = tables \union TablesGot(page, n)
      /\ \A q \in Pages : entries'[q] = IF q \in PagesGot(page, n) THEN Own ELSE entries[q]
      /\ happened \subseteq happened'
      /\ "noSlabs" \notin happened' => ~RunsShort(page, n)
  BY <1>1 DEF SetUp, Go, NoteIf, PagesSetUp
<1>3. n \in Nat /\ page \in Nat
  BY <1>1, BoundedNats DEF BaseInv, Controlled, TypeOK
<1>p. page + n <= NumPages
  BY <1>2 DEF BaseInv, Controlled, Copying
<1>4. PICK got : got = PagesGot(page, n)
  OBVIOUS
<1>5. /\ \A r \in got : r \in page .. page + n - 1 /\ TableOf(r) \in tables'
      /\ "noSlabs" \notin happened' => got = page .. page + n - 1
  BY <1>2, <1>3, <1>4, AllGot
<1>6. \A q \in Pages : q >= page => entries[q] = Unused
  BY <1>2, SetUpToType DEF Allocated, Copying, Reading
<1>7. WritesOwnClusters'
  BY <1>2 DEF Allocated, WritesOwnClusters
<1>8. ASSUME NEW q \in Pages, entries'[q] = Own PROVE TableOf(q) \in tables'
  <2>1. CASE q \in got
    BY <1>5, <2>1
  <2>2. CASE q \notin got
    BY <1>2, <1>4, <1>8, <2>2 DEF Allocated
  <2> QED BY <2>1, <2>2
<1>9. ASSUME NEW q \in Pages, q >= SetUpTo' PROVE entries'[q] = Unused
  <2>1. SetUpTo' = page + n
    BY <1>2 DEF SetUpTo, Copying
  <2>2. q >= page /\ q \notin page .. page + n - 1
    BY <1>3, <1>9, <2>1, Sizes DEF Pages
  <2> QED BY <1>2, <1>4, <1>5, <1>6, <2>2
<1>10. "noSlabs" \notin happened' => \A q \in page .. page + n - 1 : entries'[q] = Own
  <2>1. \A q \in page .. page + n - 1 : q \in Pages
    BY <1>3, <1>p, Sizes DEF Pages
  <2> QED BY <1>2, <1>4, <1>5, <2>1
<1> QED BY <1>2, <1>7, <1>8, <1>9, <1>10 DEF Allocated

LEMMA CopyAllocated ==
  ASSUME BaseInv, BaseInv', Allocated, CopyFrame \/ CopyCluster
  PROVE  Allocated'
<1>1. /\ at \in Reading /\ Copy(at, Content)
      /\ page \in Nat /\ page \in Pages
      /\ todo \in Nat /\ todo > 0
      /\ page + todo <= NumPages
  BY CopySteps
<1>2. /\ parent' = parent /\ entries' = entries /\ tables' = tables /\ happened' = happened
      /\ at' = "copy" /\ page' = page + 1 /\ todo' = todo - 1
      /\ entries[page] # Own \/ stray' = stray
  BY <1>1 DEF Copy, Go
<1>3. EndsWithSpace' <=> EndsWithSpace
  BY <1>2 DEF EndsWithSpace
<1>4. \/ "noSlabs" \in happened \/ EndsWithSpace
      \/ \A q \in page .. page + todo - 1 : entries[q] = Own
  BY <1>1 DEF Allocated, Copying
<1>5. WritesOwnClusters'
  <2>1. CASE "noSlabs" \in happened \/ EndsWithSpace
    BY <1>2, <1>3, <2>1 DEF WritesOwnClusters, EndsWithSpace
  <2>2. CASE \A q \in page .. page + todo - 1 : entries[q] = Own
    <3>1. stray' = stray
      BY <1>1, <1>2, <2>2
    <3> QED BY <1>2, <3>1 DEF Allocated, WritesOwnClusters
  <2> QED BY <1>4, <2>1, <2>2
<1>6. \A q \in Pages : entries'[q] = Own => TableOf(q) \in tables'
  BY <1>2 DEF Allocated
<1>7. SetUpTo' = SetUpTo
  BY <1>1, <1>2 DEF SetUpTo, Copying
<1>8. \A q \in Pages : q >= SetUpTo' => entries'[q] = Unused
  BY <1>1, <1>2, <1>7 DEF Allocated, Reading
<1>9. \/ "noSlabs" \in happened' \/ EndsWithSpace'
      \/ \A q \in page' .. page' + todo' - 1 : entries'[q] = Own
  <2>1. page' .. page' + todo' - 1 \subseteq page .. page + todo - 1
    BY <1>1, <1>2
  <2> QED BY <1>2, <1>3, <1>4, <2>1
<1> QED BY <1>5, <1>6, <1>8, <1>9 DEF Allocated

LEMMA ConnectAllocated ==
  ASSUME BaseInv, BaseInv', Allocated, Connect
  PROVE  Allocated'
<1>1. /\ at = "connect" /\ at' = "walk" /\ page' = page + todo + 1
      /\ parent' = parent /\ stray' = stray
      /\ tables' = tables \union TablesGot(page, Asked)
      /\ entries' = [q \in Pages |-> IF q \in Linked THEN Link(Name, q - page)
                                     ELSE entries[q]]
      /\ happened \subseteq happened'
  BY ConnectSteps
<1>2. /\ page \in Nat /\ todo \in Nat
      /\ \A q \in Linked : q \in Pages /\ page <= q /\ q < page + todo
  BY <1>1, AskedFits
<1>3. PICK linked, name : linked = Linked /\ name = Name
  OBVIOUS
<1>4. \A q \in Pages : entries'[q] = IF q \in linked THEN Link(name, q - page) ELSE entries[q]
  BY <1>1, <1>3
<1>5. WritesOwnClusters'
  BY <1>1 DEF Allocated, WritesOwnClusters
<1>6. ASSUME NEW q \in Pages, entries'[q] = Own PROVE TableOf(q) \in tables'
  <2>1. entries[q] = Own
    BY <1>4, <1>6, EntryKinds
  <2> QED BY <1>1, <2>1 DEF Allocated
<1>7. ASSUME NEW q \in Pages, q >= SetUpTo' PROVE entries'[q] = Unused
  <2>1. SetUpTo' = page + todo + 1 /\ SetUpTo = page
    BY <1>1 DEF SetUpTo, Copying, Reading
  <2>2. q >= page /\ q \notin linked
    BY <1>2, <1>3, <1>7, <2>1, Sizes DEF Pages
  <2> QED BY <1>1, <1>4, <2>1, <2>2 DEF Allocated
<1> QED BY <1>1, <1>5, <1>6, <1>7 DEF Allocated, Copying, Reading

LEMMA NextAllocated == BaseInv /\ Allocated /\ [Next]_vars => Allocated'
BY NextBase, StepKinds, FailingAllocated, MovingAllocated, PassingAllocated, StutterAllocated,
   PlainAllocated, LookAtPageAllocated, MeetPrivateAllocated, SetUpAllocated, CopyAllocated,
   ConnectAllocated

\* Nothing is written to clusters that are not the clone's, unless slabs ran short or a
\* segment ends with the address space, whose last page haveFreeFromAddress takes for
\* one too many.
THEOREM WritesOwnClustersAlways == Spec => []WritesOwnClusters
<1>1. Init => BaseInv /\ Allocated
  BY InitBase, InitAllocated
<1>2. BaseInv /\ Allocated /\ [Next]_vars => (BaseInv /\ Allocated)'
  BY NextBase, NextAllocated
<1>3. Allocated => WritesOwnClusters
  BY DEF Allocated
<1> QED BY <1>1, <1>2, <1>3, PTL DEF Spec

-----------------------------------------------------------------------------
(* What is copied *)

LEMMA ContentKinds ==
  /\ Blank # PmtBytes /\ Blank # Foreign
  /\ \A q : OnDisk(q) # Blank /\ Stored(q) # Blank
<1>1. ASSUME NEW q PROVE OnDisk(q) # Blank /\ Stored(q) # Blank
  <2>1. OnDisk(q)[1] = "disk" /\ Stored(q)[1] = "stored" /\ Blank[1] = "blank"
    BY DEF OnDisk, Stored, Blank
  <2> QED BY <2>1
<1>2. Blank[1] = "blank" /\ PmtBytes[1] = "tables" /\ Foreign[1] = "foreign"
  BY DEF Blank, PmtBytes, Foreign
<1> QED BY <1>1, <1>2

LEMMA InitCopied == Init => Copied
<1> SUFFICES ASSUME Init PROVE Copied
  OBVIOUS
<1>1. \A q \in Pages : disk[q] = OnDisk(q) /\ copies[q] = Blank
  BY DEF Init
<1>2. at = "start"
  BY DEF Init
<1> QED BY <1>1, <1>2, ContentKinds DEF Copied, CopiesAreParents

LEMMA SameHeld ==
  ASSUME parent' = parent, paging' = paging, disk' = disk
  PROVE  \A q \in Pages : Held(q)' = Held(q)
BY DEF Held, Memory

\* A step of the walk that copies nothing.
LEMMA StillCopied ==
  ASSUME Copied, parent' = parent, paging' = paging, disk' = disk, copies' = copies,
         happened \subseteq happened',
         at' \in Reading => at' = at /\ page' = page
  PROVE  Copied'
<1>1. \A q \in Pages : Held(q)' = Held(q)
  BY SameHeld
<1>2. CopiesAreParents'
  <2> SUFFICES ASSUME NEW q \in Pages, "overtaken" \notin happened'
               PROVE  copies'[q] \in {Blank} \union Held(q)'
    BY DEF CopiesAreParents
  <2>1. copies[q] \in {Blank} \union Held(q)
    BY DEF Copied, CopiesAreParents
  <2> QED BY <1>1, <2>1
<1>3. \A q \in Pages : disk'[q] # Blank /\ (q \notin parent'.dirty => disk'[q] = OnDisk(q))
  BY DEF Copied
<1>4. at' = "fromFrame" => paging'[page'] # "absent" \/ "overtaken" \in happened'
  BY DEF Copied, Reading
<1>5. at' = "fromCluster" => paging'[page'] \in {"saved", "absent"} \/ "overtaken" \in happened'
  BY DEF Copied, Reading
<1> QED BY <1>2, <1>3, <1>4, <1>5 DEF Copied

\* An eviction leaves what a page held among what it held.
LEMMA EvictCopied ==
  ASSUME BaseInv, Copied, NEW q \in Pages, Unload(q) \/ Save(q) \/ Fill(q)
  PROVE  Copied'
<1>1. /\ parent' = parent /\ at' = at /\ page' = page /\ copies' = copies
      /\ happened \subseteq happened'
      /\ paging \in [Pages -> {"loaded", "unloaded", "saved", "absent"}]
      /\ disk \in [Pages -> Contents]
  BY DEF Unload, Save, Fill, EvictStep, clone, BaseInv, TypeOK
<1>2. PICK old, new :
        /\ paging[q] = old /\ paging' = [paging EXCEPT ![q] = new]
        /\ \/ old = "loaded" /\ new = "unloaded" /\ disk' = disk
           \/ /\ old = "unloaded" /\ new = "saved"
              /\ disk' = IF q \in parent.dirty THEN [disk EXCEPT ![q] = PmtBytes] ELSE disk
           \/ /\ old = "saved" /\ new = "absent" /\ disk' = disk
              /\ at = "fromFrame" /\ page = q => "overtaken" \in happened'
  BY DEF Unload, Save, Fill, EvictStep
<1>3. /\ paging'[q] = new
      /\ \A r \in Pages : r # q => paging'[r] = paging[r] /\ disk'[r] = disk[r]
      /\ q \notin parent.dirty => disk' = disk
      /\ disk'[q] = disk[q] \/ (disk'[q] = PmtBytes /\ q \in parent.dirty)
  BY <1>1, <1>2
<1>4. ASSUME NEW r \in Pages
      PROVE  disk'[r] # Blank /\ (r \notin parent'.dirty => disk'[r] = OnDisk(r))
  BY <1>1, <1>3, ContentKinds DEF Copied
<1>5. ASSUME NEW r \in Pages PROVE Held(r) \subseteq Held(r)'
  <2>1. CASE r # q
    BY <1>1, <1>3, <2>1 DEF Held, Memory
  <2>2. CASE r = q /\ q \in parent.dirty
    BY <1>1, <1>2, <1>3, <2>2 DEF Held, Memory
  <2>3. CASE r = q /\ q \notin parent.dirty
    <3>1. disk[q] = OnDisk(q) /\ disk' = disk
      BY <1>3, <2>3 DEF Copied
    <3> QED BY <1>1, <1>2, <1>3, <2>3, <3>1 DEF Held, Memory
  <2> QED BY <2>1, <2>2, <2>3
<1>6. CopiesAreParents'
  <2> SUFFICES ASSUME NEW r \in Pages, "overtaken" \notin happened'
               PROVE  copies'[r] \in {Blank} \union Held(r)'
    BY DEF CopiesAreParents
  <2>1. copies[r] \in {Blank} \union Held(r)
    BY <1>1 DEF Copied, CopiesAreParents
  <2> QED BY <1>1, <1>5, <2>1
<1>7. at' = "fromFrame" => paging'[page'] # "absent" \/ "overtaken" \in happened'
  <2> SUFFICES ASSUME at = "fromFrame", "overtaken" \notin happened' PROVE paging'[page] # "absent"
    BY <1>1
  <2>1. paging[page] # "absent"
    BY <1>1 DEF Copied
  <2>2. page \in Pages
    <3>1. page \in Nat /\ todo \in Nat /\ page + todo <= NumPages /\ todo > 0
      BY BoundedNats DEF BaseInv, Controlled, TypeOK, Copying, Reading
    <3> QED BY <3>1, Sizes DEF Pages
  <2>3. CASE page # q
    BY <1>3, <2>1, <2>2, <2>3
  <2>4. CASE page = q
    <3>1. new # "absent"
      BY <1>2, <2>4
    <3> QED BY <1>3, <2>4, <3>1
  <2> QED BY <2>3, <2>4
<1>8. at' = "fromCluster" => paging'[page'] \in {"saved", "absent"} \/ "overtaken" \in happened'
  <2> SUFFICES ASSUME at = "fromCluster", "overtaken" \notin happened'
               PROVE  paging'[page] \in {"saved", "absent"}
    BY <1>1
  <2>1. paging[page] \in {"saved", "absent"}
    BY <1>1 DEF Copied
  <2>2. page \in Pages
    <3>1. page \in Nat /\ todo \in Nat /\ page + todo <= NumPages /\ todo > 0
      BY BoundedNats DEF BaseInv, Controlled, TypeOK, Copying, Reading
    <3> QED BY <3>1, Sizes DEF Pages
  <2>3. CASE page # q
    BY <1>3, <2>1, <2>2, <2>3
  <2>4. CASE page = q
    BY <1>2, <1>3, <2>1, <2>4
  <2> QED BY <2>3, <2>4
<1> QED BY <1>4, <1>6, <1>7, <1>8 DEF Copied

LEMMA LookAtPageCopied ==
  ASSUME BaseInv, Copied, LookAtPage
  PROVE  Copied'
<1>1. /\ parent' = parent /\ paging' = paging /\ disk' = disk /\ copies' = copies
      /\ page' = page /\ at = "copy" /\ todo > 0
      /\ at' = IF paging[page] = "loaded" THEN "fromFrame" ELSE "fromCluster"
      /\ happened \subseteq happened'
      /\ paging[page] = "unloaded" => "overtaken" \in happened'
  BY DEF LookAtPage, Go, Source, NoteIf, paged, clone
<1>2. page \in Pages
  <2>1. page \in Nat /\ todo \in Nat /\ page + todo <= NumPages
    BY <1>1, BoundedNats DEF BaseInv, Controlled, TypeOK, Copying
  <2> QED BY <1>1, <2>1, Sizes DEF Pages
<1>3. paging[page] \in {"loaded", "unloaded", "saved", "absent"}
  BY <1>2 DEF BaseInv, TypeOK
<1>4. CopiesAreParents'
  <2> SUFFICES ASSUME NEW q \in Pages, "overtaken" \notin happened'
               PROVE  copies'[q] \in {Blank} \union Held(q)'
    BY DEF CopiesAreParents
  <2>1. copies[q] \in {Blank} \union Held(q)
    BY <1>1 DEF Copied, CopiesAreParents
  <2> QED BY <1>1, <2>1, SameHeld
<1> QED BY <1>1, <1>3, <1>4 DEF Copied

LEMMA CopyCopied ==
  ASSUME BaseInv, Copied, CopyFrame \/ CopyCluster
  PROVE  Copied'
<1>1. /\ at \in Reading /\ Copy(at, Content) /\ page \in Pages
  BY CopySteps
<1>2. PICK content : content = Content
  OBVIOUS
<1>3. /\ parent' = parent /\ paging' = paging /\ disk' = disk /\ happened' = happened
      /\ at' = "copy"
      /\ copies' = copies \/ copies' = [copies EXCEPT ![page] = content]
  BY <1>1, <1>2 DEF Copy, Go, paged
<1>4. content \in Held(page) \/ "overtaken" \in happened
  <2>1. CASE at = "fromFrame"
    <3>1. content = Memory(page)
      BY <1>2, <2>1 DEF Content
    <3> QED BY <2>1, <3>1 DEF Copied, Held
  <2>2. CASE at = "fromCluster"
    <3>1. content = disk[page]
      BY <1>2, <2>2 DEF Content
    <3> QED BY <2>2, <3>1 DEF Copied, Held
  <2> QED BY <1>1, <2>1, <2>2 DEF Reading
<1>5. CopiesAreParents'
  <2> SUFFICES ASSUME NEW q \in Pages, "overtaken" \notin happened'
               PROVE  copies'[q] \in {Blank} \union Held(q)'
    BY DEF CopiesAreParents
  <2>1. copies[q] \in {Blank} \union Held(q)
    BY <1>3 DEF Copied, CopiesAreParents
  <2>2. copies'[q] = copies[q] \/ (q = page /\ copies'[q] = content)
    BY <1>3 DEF BaseInv, TypeOK
  <2> QED BY <1>3, <1>4, <2>1, <2>2, SameHeld
<1> QED BY <1>3, <1>5 DEF Copied

LEMMA NextCopied == BaseInv /\ Copied /\ [Next]_vars => Copied'
<1> SUFFICES ASSUME BaseInv, Copied, [Next]_vars PROVE Copied'
  OBVIOUS
<1>1. CASE Failing \/ Moving
  BY <1>1, StillCopied DEF Failing, Moving, Reading
<1>2. CASE TakeSlab \/ UNCHANGED vars
  BY <1>2, StillCopied DEF TakeSlab, vars, paged, clone
<1>3. CASE Others
  BY <1>2, <1>3, EvictCopied DEF Others
<1>4. CASE Start \/ Finish \/ MeetPrivate \/ SetUp \/ EndSegment \/ MeetShared
  <2>1. /\ parent' = parent /\ paging' = paging /\ disk' = disk /\ copies' = copies
        /\ happened \subseteq happened' /\ at' \notin Reading
    BY <1>4 DEF Start, Finish, MeetPrivate, SetUp, EndSegment, MeetShared, Go, NoteIf, paged,
                clone, Reading
  <2> QED BY <2>1, StillCopied
<1>5. CASE Connect
  <2>1. /\ parent' = parent /\ paging' = paging /\ disk' = disk /\ copies' = copies
        /\ happened \subseteq happened' /\ at' \notin Reading
    BY <1>5, ConnectSteps DEF Reading
  <2> QED BY <2>1, StillCopied
<1>6. CASE ConnectToNothing
  <2>1. /\ parent' = parent /\ paging' = paging /\ disk' = disk /\ copies' = copies
        /\ happened \subseteq happened' /\ at' \notin Reading
    BY <1>6 DEF ConnectToNothing, EndConnect, Go, paged, Reading
  <2> QED BY <2>1, StillCopied
<1> QED BY <1>1, <1>2, <1>3, <1>4, <1>5, <1>6, StepKinds, LookAtPageCopied, CopyCopied

\* A page of the clone holds what the parent's page held during the call, unless a fault
\* of another process took its frame under the copy or had unloaded it and not saved it.
THEOREM CopiesAreParentsAlways == Spec => []CopiesAreParents
<1>1. Init => BaseInv /\ Copied
  BY InitBase, InitCopied
<1>2. BaseInv /\ Copied /\ [Next]_vars => (BaseInv /\ Copied)'
  BY NextBase, NextCopied
<1>3. Copied => CopiesAreParents
  BY DEF Copied
<1> QED BY <1>1, <1>2, <1>3, PTL DEF Spec

-----------------------------------------------------------------------------
(* The walk over an ordinary process *)

LEMMA OrdinarySegment ==
  ASSUME BaseInv, Ordinary, NEW s \in parent.segments
  PROVE  /\ s.start \in Nat /\ s.pages \in Nat /\ s.pages > 0
         /\ ~IsUsed(s.start + s.pages)
         /\ s.start + s.pages < NumPages
         /\ \/ (s.start + s.pages + 1) % Pmt1Entries = 0
            \/ TableOf(s.start + s.pages + 1) \in parent.tables
         /\ s.master # "private" => /\ s.master \in Names /\ s.master = s.recorded
                                    /\ size[s.master] = s.pages
<1>1. PICK end : end = s.start + s.pages
  OBVIOUS
<1>2. /\ s.start \in Nat /\ s.pages \in Nat /\ s.pages > 0 /\ end <= NumPages
      /\ s.recorded \in Names
  BY <1>1, SegmentFacts DEF BaseInv
<1>3. end \in Nat
  BY <1>1, <1>2
<1>4. /\ ~IsUsed(end) /\ TableOf(end) \in parent.tables
      /\ s.master # "private" => s.master = s.recorded /\ size[s.master] = s.pages
  BY <1>1 DEF Ordinary
<1>5. end # NumPages
  <2> SUFFICES ASSUME end = NumPages PROVE FALSE
    OBVIOUS
  <2>1. /\ end = Pmt0Entries * Pmt1Entries + 0 /\ Pmt0Entries \in Nat
        /\ 0 \in 0 .. Pmt1Entries - 1
    BY Sizes DEF NumPages
  <2>2. TableOf(end) = Pmt0Entries
    BY <1>3, <2>1, DivModUnique
  <2> QED BY <1>4, <2>2, Sizes DEF BaseInv, ParentOK, PageTables
<1>6. (end + 1) % Pmt1Entries = 0 \/ TableOf(end + 1) \in parent.tables
  BY <1>3, <1>4, NextTable
<1> QED BY <1>1, <1>2, <1>3, <1>4, <1>5, <1>6, Sizes

LEMMA NoneEndsWithSpace ==
  ASSUME BaseInv, Ordinary
  PROVE  ~EndsWithSpace
<1>1. ASSUME NEW s \in parent.segments PROVE s.start + s.pages # NumPages
  BY OrdinarySegment, Sizes
<1> QED BY <1>1 DEF EndsWithSpace

\* A shared segment that is made anew belongs to no ordinary process.
LEMMA OrdinaryBefore ==
  ASSUME BaseInv, [Next]_vars, Ordinary'
  PROVE  Ordinary /\ size' = size /\ parent' = parent
<1>1. parent' = parent
  <2>1. CASE Failing \/ Moving \/ Passing \/ UNCHANGED vars
    BY <2>1 DEF Failing, Moving, Passing, vars
  <2>2. CASE Connect
    BY <2>2, ConnectSteps
  <2> QED BY <2>1, <2>2, StepKinds
          DEF Start, Finish, MeetPrivate, SetUp, LookAtPage, CopyFrame, CopyCluster, Copy,
              EndSegment, MeetShared, ConnectToNothing, EndConnect
<1>2. size' = size
  <2>1. CASE Failing \/ Moving \/ Passing \/ UNCHANGED vars
    BY <2>1 DEF Failing, Moving, Passing, vars
  <2>2. CASE Connect
    BY <2>2, ConnectSteps
  <2>3. CASE MeetShared
    <3>1. /\ IsUsed(page) /\ SegmentAt(page).master \in Names
          /\ SegmentSize(page) = size[SegmentAt(page).master] /\ SegmentSize(page) > 0
      BY <2>3, MeetSharedFacts DEF Begins
    <3>2. PICK s \in parent.segments : s = SegmentAt(page)
      BY <3>1, SegmentAtFacts DEF BaseInv
    <3>3. s.master # "private"
      BY <3>1, <3>2, CloningAssumption
    <3>4. s.master = s.recorded
      BY <1>1, <3>2, <3>3 DEF Ordinary
    <3>5. size[Name] # 0
      BY <3>1, <3>2, <3>4 DEF Name
    <3> QED BY <2>3, <3>5 DEF MeetShared
  <2> QED BY <2>1, <2>2, <2>3, StepKinds
          DEF Start, Finish, MeetPrivate, SetUp, LookAtPage, CopyFrame, CopyCluster, Copy,
              EndSegment, ConnectToNothing, EndConnect
<1>3. Ordinary
  <2> SUFFICES ASSUME NEW s \in parent.segments
               PROVE  /\ ~IsUsed(s.start + s.pages)
                      /\ TableOf(s.start + s.pages) \in parent.tables
                      /\ s.master # "private" => /\ s.master = s.recorded
                                                 /\ size[s.master] = s.pages
    BY DEF Ordinary
  <2>1. PICK end : end = s.start + s.pages
    OBVIOUS
  <2>2. /\ ~IsUsed(end)' /\ TableOf(end) \in parent.tables
        /\ s.master # "private" => s.master = s.recorded /\ size[s.master] = s.pages
    BY <1>1, <1>2, <2>1 DEF Ordinary, IsUsed, SegmentsAt
  <2> QED BY <1>1, <2>1, <2>2, SameParent
<1> QED BY <1>1, <1>2, <1>3

\* What all steps of the walk start from.
Calm == BaseInv /\ Allocated /\ Copied /\ Ordinary /\ Walks

\* The walk meets a segment at its first page.
LEMMA MeetsStart ==
  ASSUME Calm, at = "walk", IsUsed(page)
  PROVE  /\ SegmentAt(page) \in parent.segments
         /\ SegmentAt(page).start = page
<1>1. PICK s \in parent.segments : s = SegmentAt(page)
  BY SegmentAtFacts DEF Calm, BaseInv
<1>2. page \in PagesOf(s) /\ page \in Nat /\ s.start \in Nat /\ s.start <= page
      /\ page < s.start + s.pages /\ s.pages \in Nat
  BY <1>1, SegmentAtFacts, SegmentFacts DEF Calm, BaseInv
<1>3. page = 0 \/ ~IsUsed(page - 1)
  BY DEF Calm, Walks
<1>4. ASSUME s.start < page PROVE FALSE
  <2>1. page - 1 \in PagesOf(s) /\ page # 0
    BY <1>2, <1>4 DEF PagesOf
  <2>2. IsUsed(page - 1)
    BY <2>1, TheSegment DEF Calm, BaseInv
  <2> QED BY <1>3, <2>1, <2>2
<1> QED BY <1>1, <1>2, <1>4

LEMMA MeetsSegment ==
  ASSUME Calm, at = "walk", IsUsed(page)
  PROVE  /\ SegmentSize(page) = SegmentAt(page).pages
         /\ SegmentAt(page).pages \in Nat /\ SegmentAt(page).pages > 0
         /\ page + SegmentSize(page) < NumPages
         /\ HaveFree(page, SegmentSize(page))
<1>1. PICK s \in parent.segments : s = SegmentAt(page)
  BY MeetsStart
<1>2. s.start = page
  BY <1>1, MeetsStart
<1>3. /\ s.pages \in Nat /\ s.pages > 0 /\ s.start + s.pages < NumPages
      /\ s.master # "private" => s.master \in Names /\ size[s.master] = s.pages
  BY OrdinarySegment DEF Calm
<1>4. SegmentSize(page) = s.pages
  BY <1>1, <1>2, <1>3, SegmentSizeFacts DEF Calm, BaseInv, TypeOK
<1>5. \A r \in page .. page + s.pages - 1 : r \in Pages => entries[r] = Unused
  <2>1. SetUpTo = page /\ page \in Nat
    BY SetUpToType DEF Calm, BaseInv, Controlled, Copying, Reading
  <2> QED BY <1>3, <2>1 DEF Calm, Allocated
<1>6. HaveFree(page, s.pages)
  BY <1>2, <1>3, <1>5 DEF HaveFree
<1> QED BY <1>1, <1>2, <1>3, <1>4, <1>6

LEMMA AtConnect ==
  ASSUME Calm, at = "connect"
  PROVE  \E s \in parent.segments :
           /\ s = SegmentAt(page) /\ s.start = page /\ s.master \in Names
           /\ s.master # "private"
           /\ s.recorded = s.master /\ Name = s.master
           /\ todo = s.pages /\ size[Name] = todo /\ todo \in Nat /\ todo > 0
<1>1. IsUsed(page) /\ SegmentAt(page).start = page /\ SegmentAt(page).master \in Names
  BY DEF Calm, BaseInv, Controlled, Begins
<1>2. todo = size[SegmentAt(page).master]
  BY DEF Calm, BaseInv, Controlled
<1>3. PICK s \in parent.segments : s = SegmentAt(page)
  BY <1>1, SegmentAtFacts DEF Calm, BaseInv
<1>4. s.master # "private"
  BY <1>1, <1>3, CloningAssumption
<1>5. /\ s.master = s.recorded /\ size[s.master] = s.pages /\ s.pages \in Nat /\ s.pages > 0
  BY <1>4, OrdinarySegment DEF Calm
<1> QED BY <1>1, <1>2, <1>3, <1>4, <1>5 DEF Name

-----------------------------------------------------------------------------
(* How far the clone is like its parent *)

LEMMA ClonedGrows ==
  ASSUME NEW a \in Nat, NEW b \in Nat, a <= b, ClonedTo(a), parent' = parent,
         \A q \in Pages : q < a => /\ entries'[q] = entries[q]
                                   /\ copies[q] # Blank => copies'[q] # Blank,
         \A q \in Pages : a <= q /\ q < b => /\ entries'[q] = EntryAt(q)
                                             /\ entries'[q] = Own => copies'[q] # Blank,
         connected' = connected \union
           {<<s.recorded, s.start>> : s \in {t \in parent.segments :
              t.master # "private" /\ a <= t.start /\ t.start < b}},
         \A t \in parent.segments : t.start \in Nat
  PROVE  ClonedTo(b)'
<1>1. ASSUME NEW q \in Pages, q < b
      PROVE  entries'[q] = EntryAt(q)' /\ (entries'[q] = Own => copies'[q] # Blank)
  <2>1. EntryAt(q)' = EntryAt(q)
    BY SameParent
  <2>2. q \in Nat
    BY Sizes DEF Pages
  <2>3. CASE q < a
    BY <2>1, <2>3 DEF ClonedTo
  <2>4. CASE a <= q
    BY <1>1, <2>1, <2>4
  <2> QED BY <2>2, <2>3, <2>4
<1>2. {t \in parent.segments : t.master # "private" /\ t.start < b}
        = {t \in parent.segments : t.master # "private" /\ t.start < a} \union
          {t \in parent.segments : t.master # "private" /\ a <= t.start /\ t.start < b}
  OBVIOUS
<1>3. connected = {<<s.recorded, s.start>> : s \in {t \in parent.segments :
                      t.master # "private" /\ t.start < a}}
  BY DEF ClonedTo
<1>4. connected' = {<<s.recorded, s.start>> : s \in {t \in parent.segments :
                      t.master # "private" /\ t.start < b}}
  BY <1>2, <1>3
<1> QED BY <1>1, <1>4 DEF ClonedTo

\* Past pages that are not used there is nothing to clone.
LEMMA ClonedPast ==
  ASSUME BaseInv, NEW a \in Nat, NEW b \in Nat, a <= b, ClonedTo(a), parent' = parent,
         entries' = entries, copies' = copies, connected' = connected,
         \A q \in Pages : a <= q /\ q < b => ~IsUsed(q) /\ entries[q] = Unused
  PROVE  ClonedTo(b)'
<1>1. \A t \in parent.segments : t.start \in Nat /\ t.start \in Pages /\ IsUsed(t.start)
  BY SegmentFacts, TheSegment DEF BaseInv
<1>2. {t \in parent.segments : t.master # "private" /\ a <= t.start /\ t.start < b} = {}
  BY <1>1
<1>3. connected' = connected \union
           {<<s.recorded, s.start>> : s \in {t \in parent.segments :
              t.master # "private" /\ a <= t.start /\ t.start < b}}
  BY <1>2
<1>4. \A q \in Pages : a <= q /\ q < b => /\ entries'[q] = EntryAt(q)
                                          /\ entries'[q] = Own => copies'[q] # Blank
  BY EntryKinds DEF EntryAt
<1>5. \A q \in Pages : q < a => /\ entries'[q] = entries[q]
                                /\ copies[q] # Blank => copies'[q] # Blank
  OBVIOUS
<1> QED BY <1>1, <1>3, <1>4, <1>5, ClonedGrows

\* A step that leaves the clone as it is up to where the walk is.
LEMMA ClonedStays ==
  ASSUME BaseInv, ClonedTo(page), parent' = parent, page' = page, connected' = connected,
         \A q \in Pages : q < page => entries'[q] = entries[q] /\ copies'[q] = copies[q]
  PROVE  ClonedTo(page)'
<1>1. PICK a \in Nat : a = page
  BY DEF BaseInv, Controlled
<1>2. ClonedTo(a)
  BY <1>1
<1>3. \A q \in Pages : q < a => /\ entries'[q] = EntryAt(q)'
                                /\ entries'[q] = Own => copies'[q] # Blank
  BY <1>1, <1>2, SameParent DEF ClonedTo
<1>4. connected' = {<<s.recorded, s.start>> : s \in {t \in parent.segments :
                      t.master # "private" /\ t.start < a}}
  BY <1>2 DEF ClonedTo
<1> QED BY <1>1, <1>3, <1>4 DEF ClonedTo

-----------------------------------------------------------------------------
(* The steps of the walk *)

LEMMA InitWalks == Init => WalkInv
<1> SUFFICES ASSUME Init PROVE Walks
  BY DEF WalkInv
<1>1. /\ page = 0 /\ at = "start" /\ crash = "none" /\ connected = {}
      /\ \A q \in Pages : q \in Nat
  BY Sizes DEF Init, Pages
<1>2. BaseInv
  BY InitBase
<1>3. \A s \in parent.segments : s.start \in Nat
  BY <1>2, SegmentFacts DEF BaseInv
<1>4. ClonedTo(0)
  <2>1. {t \in parent.segments : t.master # "private" /\ t.start < 0} = {}
    BY <1>3
  <2>2. \A q \in Pages : ~(q < 0)
    BY <1>1
  <2> QED BY <1>1, <2>1, <2>2 DEF ClonedTo
<1> QED BY <1>1, <1>4 DEF Walks, Copying, Reading

\* No call fails without a cause.
LEMMA FailingWalks ==
  ASSUME Calm, Failing,
         \/ StartFails \/ WalkOffTable \/ CopyIntoNothing \/ CopyFails \/ NoName
         \/ ConnectReadsPast \/ ConnectCrashes
  PROVE  Walks'
<1>1. happened' \intersect {"noSlabs", "failed"} # {}
  <2>1. CASE StartFails \/ CopyFails
    BY <2>1 DEF StartFails, CopyFails, NoteIf
  <2>2. CASE WalkOffTable
    BY <2>2, Sizes DEF WalkOffTable, Crash, Go, Calm, Walks, BaseInv, Controlled
  <2>3. CASE CopyIntoNothing
    <3>1. at \in Reading /\ TableOf(page) \notin tables
      BY <2>3 DEF CopyIntoNothing, Crash, Go, Reading
    <3>2. page \in Nat /\ todo \in Nat /\ todo > 0 /\ page + todo <= NumPages
      BY <3>1, BoundedNats DEF Calm, BaseInv, Controlled, TypeOK, Copying
    <3>3. page \in Pages /\ page \in page .. page + todo - 1
      BY <3>2, Sizes DEF Pages
    <3>4. ~EndsWithSpace
      BY NoneEndsWithSpace DEF Calm
    <3>5. entries[page] # Own
      BY <3>1, <3>3 DEF Calm, Allocated
    <3>6. "noSlabs" \in happened
      BY <3>1, <3>3, <3>4, <3>5 DEF Calm, Allocated, Copying
    <3> QED BY <3>6 DEF Failing
  <2>4. CASE NoName
    <3>1. at = "walk" /\ IsUsed(page) /\ SegmentAt(page).start # page
      BY <2>4, MeetsFacts DEF NoName, Crash, Go, IsNamed
    <3> QED BY <3>1, MeetsStart
  <2>5. CASE ConnectReadsPast
    <3>1. /\ at = "walk" /\ IsUsed(page) /\ page + SegmentSize(page) > NumPages
      BY <2>5, MeetsFacts DEF ConnectReadsPast, Crash, Go, ReadsPast
    <3>2. SegmentSize(page) \in Nat /\ page + SegmentSize(page) < NumPages /\ page \in Nat
      BY <3>1, MeetsSegment DEF Calm, BaseInv, Controlled
    <3> QED BY <3>1, <3>2, Sizes
  <2>6. CASE ConnectCrashes
    <3>1. at = "connect" /\ size[Name] = 0
      BY <2>6 DEF ConnectCrashes, Crash, Go
    <3> QED BY <3>1, AtConnect
  <2> QED BY <2>1, <2>2, <2>3, <2>4, <2>5, <2>6
<1> QED BY <1>1 DEF Failing, Walks, Copying, Reading

LEMMA PassingWalks == Calm /\ (Passing \/ UNCHANGED vars) => Walks'
<1> SUFFICES ASSUME Calm, Passing PROVE Walks'
  BY DEF Passing, vars, clone
<1>1. /\ parent' = parent /\ at' = at /\ page' = page /\ todo' = todo
      /\ tables' = tables /\ entries' = entries /\ copies' = copies
      /\ connected' = connected /\ crash' = crash
      /\ happened \subseteq happened'
  BY DEF Passing
<1>2. at' # "crashed" /\ "noSlabs" \notin happened' => ClonedTo(page)'
  BY <1>1, ClonedStays DEF Calm, Walks
<1>3. IsUsed(page - 1)' <=> IsUsed(page - 1)
  BY <1>1, SameParent
<1>4. at' = "walk" => /\ page' <= NumPages
                      /\ AtTable' \/ HasTable'
                      /\ page' = 0 \/ ~IsUsed(page - 1)'
  BY <1>1, <1>3 DEF Calm, Walks, AtTable, HasTable
<1>5. at' \in Copying => \E s \in parent'.segments :
                           /\ s.master = "private"
                           /\ s.start <= page'
                           /\ page' + todo' = s.start + s.pages
  BY <1>1 DEF Calm, Walks
<1> QED BY <1>1, <1>2, <1>4, <1>5 DEF Calm, Walks

\* The walk at a page it may go on from.
Fits(n) ==
  /\ n \in Nat /\ n > 0 /\ n <= NumPages
  /\ n % Pmt1Entries = 0 \/ TableOf(n) \in parent.tables
  /\ ~IsUsed(n - 1)

LEMMA ArrivesWalking ==
  ASSUME Calm, at' = "walk", crash' = "none", parent' = parent, Fits(page'),
         "noSlabs" \notin happened' => ClonedTo(page)'
  PROVE  Walks'
<1>1. PICK n : n = page'
  OBVIOUS
<1>2. n \in Nat /\ n > 0 /\ n <= NumPages /\ ~IsUsed(n - 1)
      /\ (n % Pmt1Entries = 0 \/ TableOf(n) \in parent.tables)
  BY <1>1 DEF Fits
<1>3. ~IsUsed(n - 1)'
  BY <1>2, SameParent
<1>4. page' <= NumPages /\ (AtTable' \/ HasTable') /\ ~IsUsed(page - 1)'
  BY <1>1, <1>2, <1>3 DEF AtTable, HasTable, IsUsed, SegmentsAt
<1> QED BY <1>4 DEF Walks, Copying, Reading

LEMMA MovingWalks ==
  ASSUME Calm, Moving, SkipTable \/ SkipPage \/ ConnectRefused
  PROVE  Walks'
<1>1. /\ at = "walk" /\ at' = "walk" /\ crash' = "none" /\ page \in Nat
      /\ parent' = parent /\ entries' = entries /\ copies' = copies /\ connected' = connected
      /\ happened' = happened
  BY DEF Moving, Calm, BaseInv, Controlled
<1>2. \A q \in Pages : q >= page => entries[q] = Unused
  BY <1>1, SetUpToType DEF Calm, Allocated, Copying, Reading
<1>3. ASSUME NEW n \in Nat, page' = n, n > page, Fits(n),
             \A q \in Pages : page <= q /\ q < n => ~IsUsed(q)
      PROVE  Walks'
  <2>1. ASSUME "noSlabs" \notin happened' PROVE ClonedTo(page)'
    <3>1. ClonedTo(page)
      BY <1>1, <2>1 DEF Calm, Walks
    <3>2. PICK a \in Nat : a = page
      BY <1>1
    <3>3. ClonedTo(n)'
      BY <1>1, <1>2, <1>3, <3>1, <3>2, ClonedPast DEF Calm
    <3> QED BY <1>3, <3>3 DEF ClonedTo
  <2> QED BY <1>1, <1>3, <2>1, ArrivesWalking
<1>4. CASE SkipTable
  <2>1. /\ page < NumPages /\ page % Pmt1Entries = 0 /\ TableOf(page) \notin parent.tables
        /\ page' = page + Pmt1Entries
    BY <1>4 DEF SkipTable, WalkOn, AtTable, HasTable
  <2>2. /\ \A r \in page .. page + Pmt1Entries - 1 : TableOf(r) = TableOf(page)
        /\ (page + Pmt1Entries) % Pmt1Entries = 0
        /\ page + Pmt1Entries <= NumPages
    BY <1>1, <2>1, WholeTable
  <2>3. \A r \in page .. page + Pmt1Entries - 1 : ~IsUsed(r)
    BY <2>1, <2>2, SegmentAtFacts DEF Calm, BaseInv
  <2>4. PICK n : n = page + Pmt1Entries
    OBVIOUS
  <2>5. n \in Nat /\ n > page /\ n > 0 /\ n - 1 \in page .. page + Pmt1Entries - 1
    BY <1>1, <2>4, Sizes
  <2>6. Fits(n)
    BY <2>2, <2>3, <2>4, <2>5 DEF Fits
  <2>7. \A q \in Pages : page <= q /\ q < n => ~IsUsed(q)
    BY <1>1, <2>3, <2>4, Sizes DEF Pages
  <2> QED BY <1>3, <2>1, <2>4, <2>5, <2>6, <2>7
<1>5. CASE SkipPage
  <2>1. TableOf(page) \in parent.tables /\ ~IsUsed(page) /\ page' = page + 1
    BY <1>5 DEF SkipPage, WalkOn, HasTable
  <2>2. page + 1 <= NumPages
    <3>1. page <= NumPages /\ TableOf(page) < Pmt0Entries
      BY <1>1, <2>1, Sizes DEF Calm, Walks, BaseInv, ParentOK, PageTables
    <3>2. page # NumPages
      <4> SUFFICES ASSUME page = NumPages PROVE FALSE
        OBVIOUS
      <4>1. /\ page = Pmt0Entries * Pmt1Entries + 0 /\ Pmt0Entries \in Nat
            /\ 0 \in 0 .. Pmt1Entries - 1
        BY Sizes DEF NumPages
      <4>2. TableOf(page) = Pmt0Entries
        BY <1>1, <4>1, DivModUnique
      <4> QED BY <3>1, <4>2, Sizes
    <3> QED BY <1>1, <3>1, <3>2, Sizes
  <2>3. (page + 1) % Pmt1Entries = 0 \/ TableOf(page + 1) = TableOf(page)
    BY <1>1, NextTable
  <2>4. PICK n : n = page + 1
    OBVIOUS
  <2>5. n \in Nat /\ n > page /\ n > 0 /\ n - 1 = page
    BY <1>1, <2>4
  <2>6. Fits(n)
    BY <2>1, <2>2, <2>3, <2>4, <2>5 DEF Fits
  <2>7. \A q \in Pages : page <= q /\ q < n => q = page
    BY <1>1, <2>4, Sizes DEF Pages
  <2> QED BY <1>3, <2>1, <2>4, <2>5, <2>6, <2>7
<1>6. CASE ConnectRefused
  <2>1. IsUsed(page) /\ ~Grants
    BY <1>6, MeetsFacts DEF ConnectRefused
  <2>2. SegmentSize(page) > 0 /\ HaveFree(page, SegmentSize(page))
    BY <1>1, <2>1, MeetsSegment
  <2> QED BY <2>1, <2>2 DEF Grants
<1> QED BY <1>4, <1>5, <1>6

LEMMA StartWalks == Calm /\ (Start \/ Finish) => Walks'
<1> SUFFICES ASSUME Calm, Start \/ Finish PROVE Walks'
  OBVIOUS
<1>1. /\ parent' = parent /\ page' = page /\ entries' = entries /\ copies' = copies
      /\ connected' = connected /\ crash' = crash /\ crash = "none" /\ happened' = happened
      /\ \/ at = "start" /\ at' = "walk"
         \/ at = "walk" /\ at' = "done" /\ page >= NumPages
  BY DEF Start, Finish, Go, clone
<1>2. "noSlabs" \notin happened' => ClonedTo(page)'
  BY <1>1, ClonedStays DEF Calm, Walks
<1>3. at' = "walk" => page = 0
  BY <1>1 DEF Calm, Walks
<1>4. 0 % Pmt1Entries = 0 /\ 0 <= NumPages
  <2>1. 0 \in Nat /\ 0 \in 0 .. Pmt1Entries - 1 /\ 0 = 0 * Pmt1Entries + 0
    BY Sizes
  <2> QED BY <2>1, DivModUnique, Sizes
<1> QED BY <1>1, <1>2, <1>3, <1>4 DEF Walks, AtTable, Copying, Reading

LEMMA MeetPrivateWalks == Calm /\ MeetPrivate => Walks'
<1> SUFFICES ASSUME Calm, MeetPrivate PROVE Walks'
  OBVIOUS
<1>1. PICK n : n = SegmentSize(page)
  OBVIOUS
<1>2. /\ parent' = parent /\ page' = page /\ entries' = entries /\ copies' = copies
      /\ connected' = connected /\ crash' = crash /\ crash = "none"
      /\ happened \subseteq happened' /\ todo' = n
      /\ at = "walk" /\ at' \in {"setUp", "copy"}
  BY <1>1 DEF MeetPrivate, Go, NoteIf, clone
<1>3. IsUsed(page) /\ SegmentAt(page).master = "private"
  BY MeetsFacts DEF MeetPrivate
<1>4. PICK s \in parent.segments : s = SegmentAt(page) /\ s.start = page
  BY <1>2, <1>3, MeetsStart
<1>5. n = s.pages /\ page \in Nat
  BY <1>1, <1>2, <1>3, <1>4, MeetsSegment DEF Calm, BaseInv, Controlled
<1>6. "noSlabs" \notin happened' => ClonedTo(page)'
  BY <1>2, ClonedStays DEF Calm, Walks
<1>7. /\ s \in parent'.segments /\ s.master = "private" /\ s.start <= page'
      /\ page' + todo' = s.start + s.pages
  BY <1>2, <1>3, <1>4, <1>5
<1> QED BY <1>2, <1>6, <1>7 DEF Walks

LEMMA SetUpWalks == Calm /\ SetUp => Walks'
<1> SUFFICES ASSUME Calm, SetUp PROVE Walks'
  OBVIOUS
<1>1. /\ parent' = parent /\ page' = page /\ copies' = copies
      /\ connected' = connected /\ crash' = crash /\ crash = "none"
      /\ happened \subseteq happened' /\ todo' = todo
      /\ at = "setUp" /\ at' = "copy"
      /\ \A q \in Pages : entries'[q] = IF q \in PagesGot(page, todo) THEN Own ELSE entries[q]
  BY DEF SetUp, Go, NoteIf, PagesSetUp
<1>2. page \in Nat /\ todo \in Nat
  BY BoundedNats DEF Calm, BaseInv, Controlled, TypeOK
<1>3. \A q \in Pages : q < page => q \notin PagesGot(page, todo)
  <2>1. \A r \in PagesGot(page, todo) : r \in page .. page + todo - 1
    BY <1>2, AllGot
  <2> QED BY <1>2, <2>1, Sizes DEF Pages
<1>4. "noSlabs" \notin happened' => ClonedTo(page)'
  BY <1>1, <1>3, ClonedStays DEF Calm, Walks
<1>5. PICK s \in parent.segments : /\ s = SegmentAt(page) /\ s.start = page
                                   /\ s.master = "private" /\ todo = s.pages
  BY <1>1, SegmentAtFacts DEF Calm, BaseInv, Controlled, Begins
<1>6. /\ s \in parent'.segments /\ s.master = "private" /\ s.start <= page'
      /\ page' + todo' = s.start + s.pages
  BY <1>1, <1>2, <1>5
<1> QED BY <1>1, <1>4, <1>6 DEF Walks

LEMMA LookAtPageWalks == Calm /\ LookAtPage => Walks'
<1> SUFFICES ASSUME Calm, LookAtPage PROVE Walks'
  OBVIOUS
<1>1. /\ parent' = parent /\ page' = page /\ entries' = entries /\ copies' = copies
      /\ connected' = connected /\ crash' = crash /\ crash = "none"
      /\ happened \subseteq happened' /\ todo' = todo
      /\ at = "copy" /\ at' \in Reading
  BY DEF LookAtPage, Go, Source, NoteIf, clone, Reading
<1>2. "noSlabs" \notin happened' => ClonedTo(page)'
  BY <1>1, ClonedStays DEF Calm, Walks
<1>3. \E s \in parent'.segments : /\ s.master = "private"
                                  /\ s.start <= page'
                                  /\ page' + todo' = s.start + s.pages
  BY <1>1 DEF Calm, Walks, Copying
<1> QED BY <1>1, <1>2, <1>3 DEF Walks, Reading

LEMMA CopyWalks == Calm /\ (CopyFrame \/ CopyCluster) => Walks'
<1> SUFFICES ASSUME Calm, CopyFrame \/ CopyCluster PROVE Walks'
  OBVIOUS
<1>1. /\ at \in Reading /\ Copy(at, Content)
      /\ page \in Nat /\ page \in Pages
      /\ todo \in Nat /\ todo > 0
  BY CopySteps DEF Calm
<1>2. PICK content : content = Content
  OBVIOUS
<1>3. /\ parent' = parent /\ entries' = entries /\ connected' = connected
      /\ crash' = crash /\ crash = "none" /\ happened' = happened
      /\ at' = "copy" /\ page' = page + 1 /\ todo' = todo - 1
      /\ IF entries[page] = Own THEN copies' = [copies EXCEPT ![page] = content]
                                ELSE copies' = copies
  BY <1>1, <1>2 DEF Copy, Go
<1>4. PICK s \in parent.segments : /\ s.master = "private" /\ s.start <= page
                                   /\ page + todo = s.start + s.pages
  BY <1>1 DEF Calm, Walks, Copying
<1>5. s.start \in Nat /\ s.pages \in Nat
  BY OrdinarySegment DEF Calm
<1>6. IsUsed(page) /\ SegmentAt(page) = s
  <2>1. page \in PagesOf(s)
    BY <1>1, <1>4, <1>5 DEF PagesOf
  <2> QED BY <2>1, TheSegment DEF Calm, BaseInv
<1>7. content # Blank
  BY <1>1, <1>2, ContentKinds DEF Content, Memory, Calm, Copied
<1>8. ASSUME "noSlabs" \notin happened' PROVE ClonedTo(page)'
  <2>1. ClonedTo(page)
    BY <1>1, <1>3, <1>8 DEF Calm, Walks, Reading
  <2>2. entries[page] = Own
    <3>1. ~EndsWithSpace /\ page \in page .. page + todo - 1
      BY <1>1, NoneEndsWithSpace DEF Calm
    <3> QED BY <1>1, <1>3, <1>8, <3>1 DEF Calm, Allocated, Copying
  <2>3. EntryAt(page) = Own
    BY <1>4, <1>6 DEF EntryAt, IsShared
  <2>4. copies' = [copies EXCEPT ![page] = content] /\ copies \in [Pages -> Contents]
    BY <1>3, <2>2 DEF Calm, BaseInv, TypeOK
  <2>5. PICK a \in Nat, b \in Nat : a = page /\ b = page + 1
    BY <1>1
  <2>6. \A q \in Pages : q < a => /\ entries'[q] = entries[q]
                                  /\ copies[q] # Blank => copies'[q] # Blank
    BY <1>3, <1>7, <2>4
  <2>7. \A q \in Pages : a <= q /\ q < b => q = page
    BY <2>5, Sizes DEF Pages
  <2>8. \A q \in Pages : a <= q /\ q < b => /\ entries'[q] = EntryAt(q)
                                            /\ entries'[q] = Own => copies'[q] # Blank
    BY <1>1, <1>3, <1>7, <2>2, <2>3, <2>4, <2>7
  <2>9. \A t \in parent.segments : t.start \in Nat /\ t.start \in Pages /\ t.start \in PagesOf(t)
    BY SegmentFacts DEF Calm, BaseInv
  <2>10. {t \in parent.segments : t.master # "private" /\ a <= t.start /\ t.start < b} = {}
    <3> SUFFICES ASSUME NEW t \in parent.segments, t.master # "private", a <= t.start,
                        t.start < b
                 PROVE  FALSE
      OBVIOUS
    <3>1. t.start = page /\ t.start \in PagesOf(t)
      BY <2>7, <2>9
    <3>2. SegmentAt(page) = t
      BY <3>1, TheSegment DEF Calm, BaseInv
    <3> QED BY <1>4, <1>6, <3>2
  <2>11. connected' = connected \union
           {<<x.recorded, x.start>> : x \in {t \in parent.segments :
              t.master # "private" /\ a <= t.start /\ t.start < b}}
    BY <1>3, <2>10
  <2>12. ClonedTo(b)'
    BY <1>3, <2>1, <2>5, <2>6, <2>8, <2>9, <2>11, ClonedGrows
  <2> QED BY <1>3, <2>5, <2>12 DEF ClonedTo
<1>9. \E x \in parent'.segments : /\ x.master = "private"
                                  /\ x.start <= page'
                                  /\ page' + todo' = x.start + x.pages
  <2>1. s.start <= page + 1 /\ (page + 1) + (todo - 1) = s.start + s.pages
    BY <1>1, <1>4, <1>5
  <2> QED BY <1>3, <1>4, <2>1
<1> QED BY <1>3, <1>8, <1>9 DEF Walks

\* After a segment the walk is past the page that follows, which is not used.
LEMMA AfterSegmentFits ==
  ASSUME Calm, NEW s \in parent.segments
  PROVE  Fits(s.start + s.pages + 1) /\ ~IsUsed(s.start + s.pages)
<1>1. PICK end : end = s.start + s.pages
  OBVIOUS
<1>2. /\ end \in Nat /\ ~IsUsed(end) /\ end < NumPages
      /\ (end + 1) % Pmt1Entries = 0 \/ TableOf(end + 1) \in parent.tables
  BY <1>1, OrdinarySegment DEF Calm
<1>3. end + 1 \in Nat /\ end + 1 > 0 /\ end + 1 <= NumPages /\ (end + 1) - 1 = end
  BY <1>2, Sizes
<1> QED BY <1>1, <1>2, <1>3 DEF Fits

LEMMA EndSegmentWalks == Calm /\ EndSegment => Walks'
<1> SUFFICES ASSUME Calm, EndSegment PROVE Walks'
  OBVIOUS
<1>1. /\ parent' = parent /\ entries' = entries /\ copies' = copies
      /\ connected' = connected /\ crash' = crash /\ crash = "none" /\ happened' = happened
      /\ at = "copy" /\ at' = "walk" /\ page' = page + 1 /\ todo = 0 /\ page \in Nat
  BY DEF EndSegment, Go, AfterSegment, clone, Calm, BaseInv, Controlled
<1>2. PICK s \in parent.segments : page + todo = s.start + s.pages
  BY <1>1 DEF Calm, Walks, Copying
<1>3. Fits(page + 1) /\ ~IsUsed(page)
  <2>1. page = s.start + s.pages
    BY <1>1, <1>2
  <2> QED BY <2>1, AfterSegmentFits
<1>4. ASSUME "noSlabs" \notin happened' PROVE ClonedTo(page)'
  <2>1. ClonedTo(page)
    BY <1>1, <1>4 DEF Calm, Walks
  <2>2. \A q \in Pages : q >= page => entries[q] = Unused
    BY <1>1 DEF Calm, Allocated, SetUpTo
  <2>3. PICK a \in Nat, b \in Nat : a = page /\ b = page + 1
    BY <1>1
  <2>4. \A q \in Pages : a <= q /\ q < b => ~IsUsed(q) /\ entries[q] = Unused
    BY <1>3, <2>2, <2>3, Sizes DEF Pages
  <2>5. ClonedTo(b)'
    BY <1>1, <2>1, <2>3, <2>4, ClonedPast DEF Calm
  <2> QED BY <1>1, <2>3, <2>5 DEF ClonedTo
<1>5. Fits(page')
  BY <1>1, <1>3
<1> QED BY <1>1, <1>4, <1>5, ArrivesWalking

LEMMA MeetSharedWalks == Calm /\ MeetShared => Walks'
<1> SUFFICES ASSUME Calm, MeetShared PROVE Walks'
  OBVIOUS
<1>1. /\ parent' = parent /\ page' = page /\ entries' = entries /\ copies' = copies
      /\ connected' = connected /\ crash' = crash /\ crash = "none"
      /\ happened \subseteq happened' /\ at = "walk" /\ at' = "connect"
  BY DEF MeetShared, Go, NoteIf, clone
<1>2. "noSlabs" \notin happened' => ClonedTo(page)'
  BY <1>1, ClonedStays DEF Calm, Walks
<1> QED BY <1>1, <1>2 DEF Walks, Copying, Reading

LEMMA ConnectWalks == Calm /\ Connect => Walks'
<1> SUFFICES ASSUME Calm, Connect PROVE Walks'
  OBVIOUS
<1>1. /\ at = "connect" /\ at' = "walk" /\ crash = "none" /\ crash' = "none"
      /\ page' = page + todo + 1 /\ parent' = parent /\ copies' = copies
      /\ happened \subseteq happened'
      /\ "noSlabs" \notin happened' => ~RunsShort(page, Asked)
  BY ConnectSteps DEF Calm
<1>2. PICK s \in parent.segments :
        /\ s = SegmentAt(page) /\ s.start = page /\ s.master \in Names /\ s.master # "private"
        /\ s.recorded = s.master /\ Name = s.master
        /\ todo = s.pages /\ size[Name] = todo /\ todo \in Nat /\ todo > 0
  BY <1>1, AtConnect
<1>3. page \in Nat /\ IsUsed(page)
  BY <1>1 DEF Calm, BaseInv, Controlled, Begins
<1>4. Fits(page + todo + 1) /\ ~IsUsed(page + todo)
  BY <1>2, AfterSegmentFits
<1>5. Linkable \in Nat /\ todo <= Linkable /\ Asked = todo
  <2>1. Linkable \in Nat /\ size[Name] <= Linkable
    BY <1>1, AskedFits DEF Calm
  <2> QED BY <1>2, <2>1 DEF Asked
<1>6. PICK linked : linked = Linked
  OBVIOUS
<1>7. \A q \in Pages : entries'[q] = IF q \in linked THEN Link(s.master, q - page)
                                     ELSE entries[q]
  BY <1>2, <1>6, ConnectSteps DEF Calm
<1>8. \A q \in linked : page <= q /\ q < page + todo
  BY <1>1, <1>6, AskedFits DEF Calm
<1>9. ASSUME "noSlabs" \notin happened' PROVE ClonedTo(page)'
  <2>1. linked = page .. page + todo - 1
    <3>1. PagesGot(page, Asked) = page .. page + todo - 1
      BY <1>1, <1>2, <1>3, <1>5, <1>9, AllGot
    <3> QED BY <1>2, <1>3, <1>5, <1>6, <3>1 DEF Linked
  <2>2. connected' = connected \union {<<s.recorded, page>>}
    BY <1>2, <1>6, <2>1, ConnectSteps DEF Calm
  <2>3. ClonedTo(page)
    BY <1>1, <1>9 DEF Calm, Walks
  <2>4. PICK a \in Nat, b \in Nat : a = page /\ b = page + todo + 1
    BY <1>2, <1>3
  <2>5. \A q \in Pages : q < a => /\ entries'[q] = entries[q]
                                  /\ copies[q] # Blank => copies'[q] # Blank
    BY <1>1, <1>3, <1>7, <1>8, <2>4, Sizes DEF Pages
  <2>6. \A q \in Pages : a <= q /\ q < b => q \in page .. page + todo - 1 \/ q = page + todo
    BY <1>2, <1>3, <2>4, Sizes DEF Pages
  <2>7. \A q \in page .. page + todo - 1 : IsUsed(q) /\ SegmentAt(q) = s /\ q \in PagesOf(s)
    <3>1. page .. page + todo - 1 = PagesOf(s)
      BY <1>2 DEF PagesOf
    <3> QED BY <3>1, TheSegment DEF Calm, BaseInv
  <2>8. ASSUME NEW q \in Pages, a <= q, q < b
        PROVE  entries'[q] = EntryAt(q) /\ (entries'[q] = Own => copies'[q] # Blank)
    <3>1. CASE q \in page .. page + todo - 1
      <4>1. EntryAt(q) = Link(s.master, q - page)
        BY <1>2, <2>7, <3>1 DEF EntryAt, IsShared
      <4>2. entries'[q] = Link(s.master, q - page)
        BY <1>7, <2>1, <3>1
      <4> QED BY <4>1, <4>2, EntryKinds
    <3>2. CASE q = page + todo
      <4>1. EntryAt(q) = Unused
        BY <1>4, <3>2 DEF EntryAt
      <4>2. entries[q] = Unused
        <5>1. SetUpTo = page /\ q >= page
          BY <1>1, <1>2, <1>3, <3>2 DEF SetUpTo, Copying, Reading
        <5> QED BY <1>1, <5>1 DEF Calm, Allocated
      <4>3. q \notin linked
        BY <1>2, <1>3, <2>1, <3>2
      <4> QED BY <1>7, <4>1, <4>2, <4>3, EntryKinds
    <3> QED BY <2>6, <2>8, <3>1, <3>2
  <2>9. \A t \in parent.segments : t.start \in Nat /\ t.start \in Pages /\ t.start \in PagesOf(t)
    BY SegmentFacts DEF Calm, BaseInv
  <2>10. {t \in parent.segments : t.master # "private" /\ a <= t.start /\ t.start < b} = {s}
    <3>1. ASSUME NEW t \in parent.segments, a <= t.start, t.start < b PROVE t = s
      <4>1. t.start \in Pages /\ IsUsed(t.start) /\ SegmentAt(t.start) = t
        BY <2>9, TheSegment DEF Calm, BaseInv
      <4>2. t.start # page + todo
        BY <1>4, <4>1
      <4>3. t.start \in page .. page + todo - 1
        BY <2>6, <3>1, <4>1, <4>2
      <4> QED BY <2>7, <4>1, <4>3
    <3>2. a <= s.start /\ s.start < b
      BY <1>2, <1>3, <2>4
    <3> QED BY <1>2, <3>1, <3>2
  <2>11. connected' = connected \union
           {<<x.recorded, x.start>> : x \in {t \in parent.segments :
              t.master # "private" /\ a <= t.start /\ t.start < b}}
    <3>1. {<<x.recorded, x.start>> : x \in {s}} = {<<s.recorded, page>>}
      BY <1>2
    <3> QED BY <2>2, <2>10, <3>1
  <2>12. ClonedTo(b)'
    <3>1. a <= b /\ ClonedTo(a)
      BY <1>2, <1>3, <2>3, <2>4
    <3> QED BY <1>1, <2>5, <2>8, <2>9, <2>11, <3>1, ClonedGrows
  <2> QED BY <1>1, <2>4, <2>12 DEF ClonedTo
<1>10. Fits(page')
  BY <1>1, <1>4
<1> QED BY <1>1, <1>9, <1>10, ArrivesWalking

LEMMA NextWalks ==
  BaseInv /\ Allocated /\ Copied /\ WalkInv /\ [Next]_vars => WalkInv'
<1> SUFFICES ASSUME BaseInv, Allocated, Copied, WalkInv, [Next]_vars, Ordinary'
             PROVE  Walks'
  BY DEF WalkInv
<1>1. Calm
  BY OrdinaryBefore DEF Calm, WalkInv
<1>2. CASE ConnectToNothing
  <2>1. at = "connect" /\ size[Name] = 0
    BY <1>2 DEF ConnectToNothing, EndConnect, Go
  <2> QED BY <1>1, <2>1, AtConnect
<1> QED BY <1>1, <1>2, StepKinds, FailingWalks, MovingWalks, PassingWalks, StartWalks,
           MeetPrivateWalks, SetUpWalks, LookAtPageWalks, CopyWalks, EndSegmentWalks,
           MeetSharedWalks, ConnectWalks

InductiveInv == BaseInv /\ Allocated /\ Copied /\ WalkInv

LEMMA Inductive ==
  /\ Init => InductiveInv
  /\ InductiveInv /\ [Next]_vars => InductiveInv'
BY InitBase, InitAllocated, InitCopied, InitWalks, NextBase, NextAllocated, NextCopied, NextWalks
   DEF InductiveInv

\* No call of clone crashes on an ordinary process, however many segments and pages it
\* has, unless slabs run short or the partition fails.
THEOREM CrashNeedsCauseAlways == Spec => []CrashNeedsCause
<1>1. InductiveInv => CrashNeedsCause
  BY DEF InductiveInv, WalkInv, Walks, CrashNeedsCause
<1> QED BY <1>1, Inductive, PTL DEF Spec

\* The clone of an ordinary process has every segment and every connection of its
\* parent and nothing else, and all its own pages were copied, unless slabs ran short.
THEOREM CloneIsCompleteAlways == Spec => []CloneIsComplete
<1>1. ASSUME InductiveInv, at = "done", Ordinary, "noSlabs" \notin happened
      PROVE  /\ \A q \in Pages : entries[q] = EntryAt(q) /\ (entries[q] = Own => copies[q] # Blank)
             /\ connected = {<<s.recorded, s.start>> : s \in {t \in parent.segments :
                                                               t.master # "private"}}
  <2>1. page \in Nat /\ page >= NumPages /\ ClonedTo(page)
    BY <1>1 DEF InductiveInv, BaseInv, Controlled, WalkInv, Walks
  <2>2. \A q \in Pages : q < page
    BY <2>1, Sizes DEF Pages
  <2>3. \A t \in parent.segments : t.start < page
    BY <1>1, <2>2, SegmentFacts DEF InductiveInv, BaseInv
  <2>4. {t \in parent.segments : t.master # "private" /\ t.start < page}
          = {t \in parent.segments : t.master # "private"}
    BY <2>3
  <2> QED BY <2>1, <2>2, <2>4 DEF ClonedTo
<1>2. InductiveInv => CloneIsComplete
  BY <1>1 DEF CloneIsComplete
<1> QED BY <1>2, Inductive, PTL DEF Spec

=============================================================================
