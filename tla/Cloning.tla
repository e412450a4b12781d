------------------------------- MODULE Cloning -------------------------------
(***************************************************************************)
(* KernelProcess::clone: the walk over the page tables of a process, which *)
(* sets up its private segments in the clone and copies their pages,       *)
(* connects the clone to shared segments, and ends in the map of processes.*)
(* It holds the mutex of the process but the kernel's mutex only now and   *)
(* then: faults of other processes go on taking frames, the cloned         *)
(* process's among them, and other calls go on taking slabs.               *)
(*                                                                         *)
(* i and j are one number, a page; a page table has at least two entries.  *)
(* The swap space suffices, the id of the clone is new, and nobody changes *)
(* shared segments meanwhile.                                              *)
(***************************************************************************)
EXTENDS Integers, FiniteSets

CONSTANTS
  Pmt0Entries, \* Pmt0::entriesNumber
  Pmt1Entries, \* Pmt1::entriesNumber
  Names,       \* names of shared segments
  TotalSlabs,  \* bound: slabs that are free when clone is called
  FrameCount,  \* frames of physical memory
  Parents,     \* what may be cloned: segments, tables, sizes of shared segments
  IOFails      \* the partition may fail

NumPages == Pmt0Entries * Pmt1Entries
Pages == 0 .. NumPages - 1
PageTables == 0 .. Pmt0Entries - 1
TableOf(q) == q \div Pmt1Entries

\* A segment has "private" or "gone" for a master, or the name of the shared
\* segment its links lead to; "gone" when that was deleted while they stayed.
Segments == [start : Pages, pages : 1 .. NumPages,
             master : Names \union {"private", "gone"}, recorded : Names]

PagesOf(s) == s.start .. s.start + s.pages - 1

ASSUME CloningAssumption ==
  /\ Pmt0Entries \in Nat \ {0}
  /\ Pmt1Entries \in Nat \ {0, 1}
  /\ TotalSlabs \in Nat
  /\ FrameCount \in Nat
  /\ IOFails \in BOOLEAN
  /\ {"private", "gone"} \intersect Names = {}
  /\ \A p \in Parents : /\ p.segments \subseteq Segments
                        /\ p.tables \subseteq PageTables
                        /\ p.size \in [Names -> 0 .. NumPages]
                        /\ \A s \in p.segments :
                             /\ s.start + s.pages <= NumPages
                             /\ {TableOf(q) : q \in PagesOf(s)} \subseteq p.tables
                        /\ \A s, t \in p.segments :
                             s # t => PagesOf(s) \intersect PagesOf(t) = {}

VARIABLES
  parent,    \* segments and page tables of the cloned process, its dirty pages
  paging,    \* of its pages: whether loaded, and how far a fault has evicted them
  disk,      \* what the clusters of its pages hold
  size,      \* pages of each shared segment, 0 when there is none of the name
  slabs,     \* freeSlabsCount
  at,        \* the step clone is about to make
  page,      \* local: i and j
  todo,      \* local: pages of a segment that are not copied yet
  tables,    \* page tables of the clone
  entries,   \* page table entries of the clone
  copies,    \* what the clusters of the clone's pages hold
  stray,     \* what was written to a cluster that is not the clone's
  connected, \* the clone's connections: a name and where
  crash,     \* "none", or how the kernel failed
  happened   \* history: "noSlabs", "failed", "overtaken"

paged == <<paging, disk>>
clone == <<tables, entries, copies, stray, connected>>
vars == <<parent, paged, size, slabs, at, page, todo, clone, crash, happened>>

-----------------------------------------------------------------------------
(* The process that is cloned *)

SegmentsAt(q) == {s \in parent.segments : q \in PagesOf(s)}
IsUsed(q) == SegmentsAt(q) # {}
SegmentAt(q) == CHOOSE s \in SegmentsAt(q) : TRUE
IsShared(q) == IsUsed(q) /\ SegmentAt(q).master # "private"

\* Only the first entry has a size; behind a link it is the shared segment's own.
SegmentSize(q) ==
  LET s == SegmentAt(q)
  IN  IF q # s.start THEN 0
      ELSE IF s.master = "private" THEN s.pages
      ELSE IF s.master = "gone" THEN 0
      ELSE size[s.master]

Unused == <<"unused">>
Own == <<"own">>
Link(name, k) == <<"link", name, k>>

EntryAt(q) ==
  IF ~IsUsed(q) THEN Unused
  ELSE IF ~IsShared(q) THEN Own
  ELSE Link(SegmentAt(q).master, q - SegmentAt(q).start)

Blank == <<"blank">>     \* nobody has written to the cluster yet
PmtBytes == <<"tables">> \* what an eviction writes instead of the frame
Foreign == <<"foreign">> \* a page of another process
Stored(q) == <<"stored", q>>
OnDisk(q) == <<"disk", q>>
Contents == {Blank, PmtBytes, Foreign} \union {Stored(q) : q \in Pages}
              \union {OnDisk(q) : q \in Pages}

Memory(q) == IF paging[q] = "absent" THEN Foreign
             ELSE IF q \in parent.dirty THEN Stored(q)
             ELSE OnDisk(q)

Init ==
  /\ \E p \in Parents, loaded \in SUBSET Pages :
       /\ Cardinality(loaded) <= FrameCount
       /\ \E dirty \in SUBSET loaded :
            parent = [segments |-> p.segments, tables |-> p.tables, dirty |-> dirty]
       /\ \A q \in loaded : IsUsed(q) /\ ~IsShared(q)
       /\ paging = [q \in Pages |-> IF q \in loaded THEN "loaded" ELSE "absent"]
       /\ size = p.size
  /\ disk = [q \in Pages |-> OnDisk(q)]
  /\ slabs \in 0 .. TotalSlabs
  /\ at = "start"
  /\ page = 0
  /\ todo = 0
  /\ tables = {}
  /\ entries = [q \in Pages |-> Unused]
  /\ copies = [q \in Pages |-> Blank]
  /\ stray = {}
  /\ connected = {}
  /\ crash = "none"
  /\ happened = {}

-----------------------------------------------------------------------------
(* Other processes *)

\* A fault takes the frame of page q: it marks the page, writes it out if it is
\* dirty, and reads its own page into the frame.
EvictStep(q, from, to) ==
  /\ paging[q] = from
  /\ paging' = [paging EXCEPT ![q] = to]
  /\ UNCHANGED <<parent, size, slabs, at, page, todo, clone, crash>>

Unload(q) == EvictStep(q, "loaded", "unloaded") /\ UNCHANGED <<disk, happened>>

Save(q) ==
  /\ EvictStep(q, "unloaded", "saved")
  /\ disk' = IF q \in parent.dirty THEN [disk EXCEPT ![q] = PmtBytes] ELSE disk
  /\ UNCHANGED happened

Fill(q) ==
  /\ EvictStep(q, "saved", "absent")
  /\ happened' = happened \union
       (IF at = "fromFrame" /\ page = q THEN {"overtaken"} ELSE {})
  /\ UNCHANGED disk

TakeSlab ==
  /\ slabs > 0
  /\ slabs' = slabs - 1
  /\ UNCHANGED <<parent, paged, size, at, page, todo, clone, crash, happened>>

Others == TakeSlab \/ \E q \in Pages : Unload(q) \/ Save(q) \/ Fill(q)

-----------------------------------------------------------------------------
(* Setting up pages of the clone *)

TablesOf(q, n) == {TableOf(r) : r \in q .. q + n - 1}
MissingTables(q, n) == TablesOf(q, n) \ tables

\* Mutated: every table is got.
AllTables(q, n) == MissingTables(q, n)

\* getPMT1 hands tables out one by one until no slab is left.
TablesGot(q, n) ==
  {t \in MissingTables(q, n) :
     Cardinality({u \in MissingTables(q, n) : u <= t}) <= slabs}

RunsShort(q, n) == TablesGot(q, n) # MissingTables(q, n)

\* An allocation ends at the first table it does not get.
PagesGot(q, n) ==
  {r \in q .. q + n - 1 :
     TablesOf(q, r - q + 1) \subseteq tables \union TablesGot(q, n)}

\* haveFreeFromAddress: the walk gives up when it steps off the last page of a
\* last table that exists.
HaveFree(q, n) ==
  /\ \A r \in q .. q + n - 1 : r \in Pages => entries[r] = Unused
  /\ Pmt0Entries - 1 \in tables => q + n < NumPages

\* It looks for a table after the last one.
ReadsPast(q, n) == Pmt0Entries - 1 \notin tables /\ q + n > NumPages

NoteIf(condition, what) == happened' = happened \union (IF condition THEN {what} ELSE {})

-----------------------------------------------------------------------------
(* The walk *)

Go(from, to) == crash = "none" /\ at = from /\ at' = to

Crash(from, how) ==
  /\ Go(from, "crashed")
  /\ crash' = how
  /\ UNCHANGED <<parent, paged, size, slabs, page, todo, clone>>

Start ==
  /\ Go("start", "walk")
  /\ slabs > 0
  /\ slabs' = slabs - 1
  /\ UNCHANGED <<parent, paged, size, page, todo, clone, crash, happened>>

\* The failure paths delete the kernel process and the Process that does it again.
StartFails == Crash("start", "doubleDelete") /\ slabs = 0 /\ NoteIf(TRUE, "noSlabs")

WalkOn(next) ==
  /\ Go("walk", "walk")
  /\ page' = next
  /\ UNCHANGED <<parent, paged, size, slabs, todo, clone, crash, happened>>

\* Only the outer loop looks whether there is a table.
AtTable == page % Pmt1Entries = 0
HasTable == TableOf(page) \in parent.tables

SkipTable == page < NumPages /\ AtTable /\ ~HasTable /\ WalkOn(page + Pmt1Entries)
SkipPage == HasTable /\ ~IsUsed(page) /\ WalkOn(page + 1)

WalkOffTable ==
  /\ Crash("walk", IF page > NumPages THEN "outOfBounds" ELSE "nullEntry")
  /\ ~AtTable /\ ~HasTable
  /\ UNCHANGED happened

Meets(master) == HasTable /\ IsUsed(page) /\ IsShared(page) = (master # "private")

\* allocateSegment, as far as the count of free slabs; clone does not look at what
\* it returns.
MeetPrivate ==
  LET n == SegmentSize(page)
      room == n > 0 /\ HaveFree(page, n)
      short == room /\ slabs < Cardinality(MissingTables(page, n))
  IN  /\ Meets("private")
      /\ Go("walk", IF room /\ ~short THEN "setUp" ELSE "copy")
      /\ todo' = n
      /\ NoteIf(short, "noSlabs")
      /\ UNCHANGED <<parent, paged, size, slabs, page, clone, crash>>

\* Mutated: the last page is left out.
AllButLast(q, n) == {r \in PagesGot(q, n) : r # q + n - 1}

PagesSetUp(q, n) == PagesGot(q, n)

\* allocateFromAddress; slabs may have gone since they were counted.
SetUp ==
  LET got == TablesGot(page, todo)
  IN  /\ Go("setUp", "copy")
      /\ tables' = tables \union got
      /\ slabs' = slabs - Cardinality(got)
      /\ entries' = [q \in Pages |-> IF q \in PagesSetUp(page, todo) THEN Own
                                     ELSE entries[q]]
      /\ NoteIf(RunsShort(page, todo), "noSlabs")
      /\ UNCHANGED <<parent, paged, size, page, todo, copies, stray, connected, crash>>

-----------------------------------------------------------------------------
(* Copying a page *)

\* Mutated: pages are copied from the disk whether they are loaded or not.
FromDisk(q) == "fromCluster"

Source(q) == IF paging[q] = "loaded" THEN "fromFrame" ELSE "fromCluster"

LookAtPage ==
  /\ todo > 0
  /\ Go("copy", Source(page))
  /\ NoteIf(paging[page] = "unloaded", "overtaken")
  /\ UNCHANGED <<parent, paged, size, slabs, page, todo, clone, crash>>

\* An entry that is not in use names cluster 0.
Copy(from, content) ==
  /\ Go(from, "copy")
  /\ TableOf(page) \in tables
  /\ IF entries[page] = Own
     THEN /\ copies' = [copies EXCEPT ![page] = content]
          /\ UNCHANGED stray
     ELSE /\ stray' = stray \union {content}
          /\ UNCHANGED copies
  /\ page' = page + 1
  /\ todo' = todo - 1
  /\ UNCHANGED <<parent, paged, size, slabs, tables, entries, connected, crash, happened>>

CopyFrame == Copy("fromFrame", Memory(page))
CopyCluster == Copy("fromCluster", disk[page])

CopyIntoNothing ==
  /\ \E from \in {"fromFrame", "fromCluster"} : Crash(from, "nullEntry")
  /\ TableOf(page) \notin tables
  /\ UNCHANGED happened

CopyFails ==
  /\ IOFails
  /\ \E from \in {"fromFrame", "fromCluster"} : Crash(from, "doubleDelete")
  /\ at = "fromFrame" => TableOf(page) \in tables
  /\ NoteIf(TRUE, "failed")

\* Mutated: the loop goes two on.
SkipsOneMore(q) == q + 2

\* The loop goes one on from the page after the segment.
AfterSegment(q) == q + 1

EndSegment ==
  /\ todo = 0
  /\ Go("copy", "walk")
  /\ page' = AfterSegment(page)
  /\ UNCHANGED <<parent, paged, size, slabs, todo, clone, crash, happened>>

-----------------------------------------------------------------------------
(* createSharedSegmentUnlocked *)

\* Names are kept by the address of the first page, and outlive the segment.
IsNamed == page = SegmentAt(page).start
Name == SegmentAt(page).recorded

\* At any other page the walk finds none, or that of a segment that began there once.
NoName ==
  /\ Crash("walk", "noName")
  /\ Meets("shared") /\ ~IsNamed
  /\ UNCHANGED happened

Grants == SegmentSize(page) > 0 /\ HaveFree(page, SegmentSize(page))

ConnectReadsPast ==
  /\ Crash("walk", "outOfBounds")
  /\ Meets("shared") /\ IsNamed /\ ReadsPast(page, SegmentSize(page))
  /\ UNCHANGED happened

\* A page that is not the first is refused whatever name is found: its size is 0.
ConnectRefused ==
  /\ Meets("shared") /\ ~Grants
  /\ WalkOn(AfterSegment(page + SegmentSize(page)))

TablesFor(n) == (n + Pmt1Entries - 1) \div Pmt1Entries

\* A segment whose name is gone is made anew.  When slabs do not suffice what was
\* taken for it is lost.
MeetShared ==
  LET n == SegmentSize(page)
      cost == IF size[Name] = 0 THEN 1 + TablesFor(n) ELSE 0
      made == slabs >= cost
  IN  /\ Meets("shared") /\ IsNamed /\ Grants /\ ~ReadsPast(page, n)
      /\ Go("walk", "connect")
      /\ todo' = n
      /\ size' = IF size[Name] = 0 /\ made THEN [size EXCEPT ![Name] = n] ELSE size
      /\ slabs' = IF made THEN slabs - cost ELSE 0
      /\ NoteIf(~made, "noSlabs")
      /\ UNCHANGED <<parent, paged, page, clone, crash>>

EndConnect ==
  /\ Go("connect", "walk")
  /\ page' = AfterSegment(page + todo)
  /\ todo' = 0
  /\ UNCHANGED <<parent, paged, size, copies, stray, crash>>

\* allocateFromShared: a page gets its table first and then looks for what it is
\* linked to, which must be in a table of the segment.
Connect ==
  LET linkable == TablesFor(size[Name]) * Pmt1Entries
      asked == IF todo > linkable THEN linkable + 1 ELSE todo
      got == TablesGot(page, asked)
      linked == {r \in PagesGot(page, asked) : r - page < linkable}
  IN  /\ EndConnect
      /\ size[Name] > 0
      /\ tables' = tables \union got
      /\ slabs' = slabs - Cardinality(got)
      /\ entries' = [q \in Pages |-> IF q \in linked THEN Link(Name, q - page)
                                     ELSE entries[q]]
      /\ connected' = IF linked = page .. page + todo - 1
                      THEN connected \union {<<Name, page>>} ELSE connected
      /\ NoteIf(RunsShort(page, asked), "noSlabs")

\* The segment was not made: without a table of its own the clone finds no slab
\* for one, with one it looks into the missing segment.
ConnectToNothing ==
  /\ EndConnect
  /\ size[Name] = 0
  /\ TableOf(page) \notin tables
  /\ UNCHANGED <<slabs, tables, entries, connected, happened>>

ConnectCrashes ==
  /\ Crash("connect", "nullEntry")
  /\ size[Name] = 0
  /\ TableOf(page) \in tables
  /\ UNCHANGED happened

\* addClonnedProcess
Finish ==
  /\ page >= NumPages /\ AtTable
  /\ Go("walk", "done")
  /\ UNCHANGED <<parent, paged, size, slabs, page, todo, clone, crash, happened>>

-----------------------------------------------------------------------------
Step ==
  \/ Start \/ StartFails
  \/ SkipTable \/ SkipPage \/ WalkOffTable
  \/ MeetPrivate \/ SetUp
  \/ LookAtPage \/ CopyFrame \/ CopyCluster \/ CopyIntoNothing \/ CopyFails
  \/ EndSegment
  \/ NoName \/ ConnectReadsPast \/ ConnectRefused \/ MeetShared
  \/ Connect \/ ConnectToNothing \/ ConnectCrashes
  \/ Finish

Ended == at \in {"done", "crashed"} /\ UNCHANGED vars

Next == Step \/ Others \/ Ended

Spec == Init /\ [][Next]_vars

-----------------------------------------------------------------------------
(* Properties *)

TypeOK ==
  /\ paging \in [Pages -> {"loaded", "unloaded", "saved", "absent"}]
  /\ disk \in [Pages -> Contents]
  /\ size \in [Names -> 0 .. NumPages]
  /\ slabs \in 0 .. TotalSlabs
  /\ todo \in 0 .. NumPages
  /\ tables \subseteq PageTables
  /\ \A q \in Pages : \/ entries[q] \in {Unused, Own}
                      \/ \E name \in Names, k \in Pages : entries[q] = Link(name, k)
  /\ copies \in [Pages -> Contents]
  /\ stray \subseteq Contents
  /\ connected \subseteq Names \X Pages
  /\ crash \in {"none", "nullEntry", "outOfBounds", "noName", "doubleDelete"}
  /\ happened \subseteq {"noSlabs", "failed", "overtaken"}

\* Segments of the parent that the walk can cope with: none follows another one
\* directly, ends with the address space or at a page table that does not exist,
\* and every connection has the name and the size of the segment it leads to.
Ordinary ==
  \A s \in parent.segments :
    LET end == s.start + s.pages
    IN  /\ ~IsUsed(end)
        /\ TableOf(end) \in parent.tables
        /\ s.master # "private" =>
             /\ s.master = s.recorded
             /\ size[s.master] = s.pages

\* A clone of an ordinary process has its segments and connections, unless slabs
\* ran short: the walk skips no page and stops at no wrong one
\* (kernel_process.cpp:445-521).
CloneIsComplete ==
  at = "done" /\ Ordinary /\ "noSlabs" \notin happened =>
    /\ \A q \in Pages : entries[q] = EntryAt(q) /\ (entries[q] = Own => copies[q] # Blank)
    /\ connected = {<<s.recorded, s.start>> : s \in {t \in parent.segments :
                                                      t.master # "private"}}

\* What a page held during the call, counting what an eviction made of it.
Held(q) == (IF paging[q] = "absent" THEN {} ELSE {Memory(q)})
             \union (IF paging[q] \in {"saved", "absent"} THEN {disk[q]} ELSE {})
             \union (IF q \in parent.dirty THEN {Stored(q)} ELSE {})

\* A page of the clone holds what the parent's page held, unless a fault of another
\* process took the frame under the copy, or had unloaded the page and not saved it
\* (kernel_process.cpp:480-503).
CopiesAreParents ==
  \A q \in Pages : copies[q] \in {Blank} \union Held(q) \/ "overtaken" \in happened

\* No call of clone crashes on an ordinary process, unless slabs run short or the
\* partition fails (kernel_process.cpp:438-443, 448-450, 458 and 487-508).
CrashNeedsCause ==
  crash # "none" /\ Ordinary => happened \intersect {"noSlabs", "failed"} # {}

\* Nothing is written to clusters that are not the clone's, unless an allocation
\* was refused for lack of slabs or because the segment ends with the address space
\* (kernel_process.cpp:475 and 484).
WritesOwnClusters ==
  stray # {} => \/ "noSlabs" \in happened
                \/ \E s \in parent.segments : s.start + s.pages = NumPages
=============================================================================
