---------------------------- MODULE VirtualMemory ----------------------------
(***************************************************************************)
(* Demand paging of private segments: page tables, frame table, cluster    *)
(* bitmap and swap partition together (kernel_process.cpp, pmt0.cpp,       *)
(* pmt1entry.cpp and the parts of kernelsystem.cpp they call).             *)
(*                                                                         *)
(* One action is one call of the API.  The program's own driver holds one  *)
(* mutex over access, pageFault and the store that follows, so calls do    *)
(* not overlap here.  Address translation is a page number: page q of a    *)
(* process is entry q % Pmt1Entries of second-level table q \div           *)
(* Pmt1Entries.  What a page or cluster holds is one value.                *)
(***************************************************************************)
EXTENDS Integers, FiniteSets, FrameTable

CONSTANTS
  Procs,        \* process ids ever handed out; none is used twice
  Pmt0Entries,  \* second-level tables of a process: 256 in the code
  Pmt1Entries,  \* pages of a second-level table: 64 in the code
  BitsPerByte,  \* bits in one byte of the cluster bitmap
  NumClusters,  \* clusters of the swap partition
  TotalSlabs,   \* slabs (one table each) that the kernel's own memory has
  Data,         \* what a program can store in a page
  Blank,        \* what a frame or cluster holds before its first use
  PmtBytes,     \* what lies where the page tables are
  SegmentSizes, \* the sizes a program asks for
  SegmentRights,\* the rights a program asks for
  Mishaps       \* what may go wrong in this instance

AccessTypes == {"READ", "WRITE", "READ_WRITE", "EXECUTE"}
PossibleMishaps ==
  {"writeContent", "writeEvicted", "readCluster", "refault", "strayDelete"}

ASSUME VirtualMemoryAssumption ==
  /\ Pmt0Entries \in Nat \ {0}
  /\ Pmt1Entries \in Nat \ {0}
  /\ BitsPerByte \in Nat \ {0}
  /\ NumClusters \in Nat \ {0}
  /\ TotalSlabs \in Nat
  /\ SegmentSizes \subseteq Nat \ {0}
  /\ SegmentRights \subseteq AccessTypes
  /\ Mishaps \subseteq PossibleMishaps
  /\ NoPage \notin Procs \X (0 .. Pmt0Entries * Pmt1Entries - 1)

NumPages == Pmt0Entries * Pmt1Entries
Pages == 0 .. NumPages - 1
Tables == 0 .. Pmt0Entries - 1
TableOf(q) == q \div Pmt1Entries
Entries == Procs \X Pages
Clusters == 0 .. NumClusters - 1
Contents == Data \union {Blank, PmtBytes}

VARIABLES
  proc,       \* life of a process: "none", "live", "dead"
  tables,     \* second-level tables a process has
  pte,        \* page table entries
  frameTable,
  bitmap,     \* clusters whose bit is set
  freeSlabs,
  memory,     \* what each frame holds
  disk,       \* what each cluster holds
  crash,      \* "none", or how the kernel went wrong for good
  happened    \* history: which mishaps there have been

vars == <<proc, tables, pte, frameTable, bitmap, freeSlabs, memory, disk, crash,
          happened>>

Allocator == INSTANCE ClusterAllocator WITH inUse <- bitmap

PageTableEntries ==
  [used : BOOLEAN, loaded : BOOLEAN, dirty : BOOLEAN, rights : AccessTypes,
   frame : Frames, cluster : 0 .. NumClusters, size : Nat]

\* An entry of a table that was just allocated: a slab is handed out zeroed.
ZeroEntry ==
  [used |-> FALSE, loaded |-> FALSE, dirty |-> FALSE, rights |-> "READ",
   frame |-> 0, cluster |-> 0, size |-> 0]

NewEntry(rights, size, cluster) ==
  [ZeroEntry EXCEPT !.used = TRUE, !.rights = rights, !.size = size,
                    !.cluster = cluster]

\* Of the flags only the used bit is cleared: loaded and dirty stay.  So do the
\* rights, which nothing reads before the constructor sets them again; they
\* are put back to those of a zeroed entry here.
SetUnused(x) == [ZeroEntry EXCEPT !.loaded = x.loaded, !.dirty = x.dirty]

-----------------------------------------------------------------------------
Init ==
  /\ proc = [p \in Procs |-> "none"]
  /\ tables = [p \in Procs |-> {}]
  /\ pte = [e \in Entries |-> ZeroEntry]
  /\ frameTable = [f \in Frames |-> NewFrame]
  /\ bitmap = {}
  /\ freeSlabs = TotalSlabs
  /\ memory = [f \in Frames |-> Blank]
  /\ disk = [c \in Clusters |-> Blank]
  /\ crash = "none"
  /\ happened = {}

Running(p) == crash = "none" /\ proc[p] = "live"

\* The first-level table takes one slab.
CreateProcess(p) ==
  /\ crash = "none"
  /\ proc[p] = "none"
  /\ freeSlabs > 0
  /\ proc' = [proc EXCEPT ![p] = "live"]
  /\ freeSlabs' = freeSlabs - 1
  /\ UNCHANGED <<tables, pte, frameTable, bitmap, memory, disk, crash, happened>>

-----------------------------------------------------------------------------
(* allocateSegment *)

\* Mutated: a table is taken for every part of the segment, there or not.
TablesTouched(p, pages) == {TableOf(q) : q \in pages}

MissingTables(p, pages) == {TableOf(q) : q \in pages} \ tables[p]

\* haveFreeFromAddress, for a segment that ends inside the address space.  The
\* walk also fails when it steps past the very last page in a table that exists.
HaveFreeFromAddress(p, s, n) ==
  /\ \A q \in s .. s + n - 1 : TableOf(q) \in tables[p] => ~pte[<<p, q>>].used
  /\ s + n = NumPages => Pmt0Entries - 1 \notin tables[p]

Allocatable(p, s, n) ==
  /\ s + n <= NumPages
  /\ HaveFreeFromAddress(p, s, n)
  /\ Cardinality(MissingTables(p, s .. s + n - 1)) <= freeSlabs

\* cs[0], cs[1], ... are the clusters one page after another gets.
HandedBefore(cs, i) == bitmap \union {cs[j] : j \in 0 .. i - 1}
HandedOut(cs, k) ==
  \A i \in 0 .. k - 1 : Allocator!FirstFit(HandedBefore(cs, i), cs[i])
RanOut(cs, k) ==
  IF \E i \in 0 .. k - 1 : Allocator!Usable \subseteq HandedBefore(cs, i)
    THEN {"exhaustion"} ELSE {}

\* Mutated: every page of a segment records the segment's size.
SizeInEveryEntry(q, s, n) == n

\* The first entry of a segment records its size, the others 0.
SegmentSizeField(q, s, n) == IF q = s THEN n ELSE 0

\* Sets up the first k pages of a segment of n pages.
SetUp(p, s, n, k, rights, cs) ==
  LET missing == MissingTables(p, s .. s + k - 1)
      new(q)  == NewEntry(rights, SegmentSizeField(q, s, n), cs[q - s])
  IN  /\ pte' = [e \in Entries |->
                   IF e[1] = p /\ e[2] \in s .. s + k - 1 THEN new(e[2]) ELSE pte[e]]
      /\ tables' = [tables EXCEPT ![p] = @ \union missing]
      /\ freeSlabs' = freeSlabs - Cardinality(missing)
      /\ bitmap' = HandedBefore(cs, k) \intersect Clusters

\* Page after page is written: of two that share a cluster the later one stays.
Written(cs, content, k) ==
  LET last(c) == {i \in 0 .. k - 1 : cs[i] = c /\ \A j \in i + 1 .. k - 1 : cs[j] # c}
  IN  [c \in Clusters |-> IF last(c) = {} THEN disk[c]
                          ELSE content[CHOOSE i \in last(c) : TRUE]]

CreateSegment(p, s, n, rights) ==
  /\ Running(p)
  /\ Allocatable(p, s, n)
  /\ \E cs \in [0 .. n - 1 -> 0 .. NumClusters] :
       /\ HandedOut(cs, n)
       /\ SetUp(p, s, n, n, rights, cs)
       /\ happened' = happened \union RanOut(cs, n)
  /\ UNCHANGED <<proc, frameTable, memory, disk, crash>>

LoadSegment(p, s, n, rights, content) ==
  /\ Running(p)
  /\ Allocatable(p, s, n)
  /\ \E cs \in [0 .. n - 1 -> Clusters] :
       /\ HandedOut(cs, n)
       /\ SetUp(p, s, n, n, rights, cs)
       /\ disk' = Written(cs, content, n)
       /\ happened' = happened \union RanOut(cs, n)
  /\ UNCHANGED <<proc, frameTable, memory, crash>>

\* The write of the last page set up fails, because the partition says so or
\* the cluster number is none of its own, and the call returns at once.
LoadSegmentFails(p, s, n, rights, content, k) ==
  /\ Running(p)
  /\ Allocatable(p, s, n)
  /\ \E cs \in [0 .. k - 1 -> 0 .. NumClusters] :
       /\ HandedOut(cs, k)
       /\ \A i \in 0 .. k - 2 : cs[i] \in Clusters
       /\ "writeContent" \in Mishaps \/ cs[k - 1] \notin Clusters
       /\ SetUp(p, s, n, k, rights, cs)
       /\ disk' = Written(cs, content, k - 1)
       /\ happened' = happened \union RanOut(cs, k) \union {"writeContent"}
  /\ UNCHANGED <<proc, frameTable, memory, crash>>

-----------------------------------------------------------------------------
(* deleteSegment and the destructor of a process *)

\* Mutated: no frame is freed.
FreesNoFrame(es) == {}

\* Mutated: a page that is loaded keeps its cluster.
ClustersOfAbsent(es) == {pte[e].cluster : e \in {x \in es : ~pte[x].loaded}}

\* A page gives back its frame, if it says it is loaded, and its cluster.
FramesOf(es)   == {pte[e].frame : e \in {x \in es : pte[x].loaded}}
ClustersOf(es) == {pte[e].cluster : e \in es}

GiveBack(es) ==
  /\ frameTable' = [f \in Frames |-> IF f \in FramesOf(es)
                                       THEN [frameTable[f] EXCEPT !.free = TRUE]
                                       ELSE frameTable[f]]
  /\ bitmap' = bitmap \ ClustersOf(es)

SegmentAt(p, s) == {<<p, q>> : q \in s .. s + pte[<<p, s>>].size - 1}

HasEntry(p, q) == q \in Pages /\ TableOf(q) \in tables[p]

DeleteSegment(p, s) ==
  /\ Running(p)
  /\ HasEntry(p, s)
  /\ \A e \in SegmentAt(p, s) : HasEntry(p, e[2])
  /\ GiveBack(SegmentAt(p, s))
  /\ pte' = [e \in Entries |->
               IF e \in SegmentAt(p, s) THEN SetUnused(pte[e]) ELSE pte[e]]
  /\ UNCHANGED <<proc, tables, freeSlabs, memory, disk, crash, happened>>

\* getEntry returns null for a page whose second-level table does not exist
\* and the result is used.
DeleteSegmentCrashes(p, s) ==
  /\ Running(p)
  /\ \/ "strayDelete" \in Mishaps /\ ~HasEntry(p, s)
     \/ HasEntry(p, s) /\ \E e \in SegmentAt(p, s) : ~HasEntry(p, e[2])
  /\ crash' = "nullDereference"
  /\ UNCHANGED <<proc, tables, pte, frameTable, bitmap, freeSlabs, memory, disk,
                 happened>>

\* Mutated: the destructor stops at the first page of each segment.
SegmentHeads(p) == {e \in Entries : e[1] = p /\ pte[e].used /\ pte[e].size > 0}

UsedEntries(p) == {e \in Entries : e[1] = p /\ pte[e].used}

DestroyProcess(p) ==
  /\ Running(p)
  /\ GiveBack(UsedEntries(p))
  /\ freeSlabs' = freeSlabs + Cardinality(tables[p]) + 1
  /\ proc' = [proc EXCEPT ![p] = "dead"]
  /\ tables' = [tables EXCEPT ![p] = {}]
  /\ pte' = [e \in Entries |-> IF e[1] = p THEN ZeroEntry ELSE pte[e]]
  /\ UNCHANGED <<memory, disk, crash, happened>>

-----------------------------------------------------------------------------
(* access, with the store a program makes through the physical address *)

IsValid(p, q) == TableOf(q) \in tables[p] /\ pte[<<p, q>>].used

\* Mutated: the rights of the page are not looked at for a write.
GrantsAnyWrite(rights, type) == type \in {"WRITE", "READ_WRITE"} \/ rights = type

Grants(rights, type) ==
  CASE type = "READ"       -> rights \in {"READ", "READ_WRITE"}
    [] type = "WRITE"      -> rights \in {"WRITE", "READ_WRITE"}
    [] type = "READ_WRITE" -> rights = "READ_WRITE"
    [] type = "EXECUTE"    -> rights = "EXECUTE"

\* Mutated: an access that reads and writes does not count as a write.
DirtiesOnWrite(type) == type = "WRITE"

\* The access types that make the page dirty, and those after which a program
\* stores.
SetsDirty(type) == type \in {"WRITE", "READ_WRITE"}
Stores(type)    == type \in {"WRITE", "READ_WRITE"}

\* The call that returns OK; the others change nothing.
Access(p, q, type) ==
  LET e == <<p, q>>
      f == pte[e].frame
  IN  /\ Running(p)
      /\ IsValid(p, q)
      /\ Grants(pte[e].rights, type)
      /\ pte[e].loaded
      /\ frameTable' = [frameTable EXCEPT ![f].ref = SetReferenced(@)]
      /\ pte' = IF SetsDirty(type) THEN [pte EXCEPT ![e].dirty = TRUE] ELSE pte
      /\ IF Stores(type) THEN \E d \in Data : memory' = [memory EXCEPT ![f] = d]
                         ELSE UNCHANGED memory
      /\ UNCHANGED <<proc, tables, bitmap, freeSlabs, disk, crash, happened>>

-----------------------------------------------------------------------------
(* pageFault *)

\* A caller that faults only after access said PAGE_FAULT never faults on a
\* page that is loaded; the call itself does not look.
Refault(e) == IF pte[e].loaded THEN {"refault"} ELSE {}

Faults(p, q) ==
  /\ Running(p)
  /\ IsValid(p, q)
  /\ Refault(<<p, q>>) \subseteq Mishaps

\* The tail of the call: frame f gets page e, of the entries and clusters the
\* eviction left.  A failed read leaves the page loaded and clean.
Install(e, f, entries, clusters) ==
  LET c == entries[e].cluster
  IN  /\ frameTable' = [frameTable EXCEPT ![f].free = FALSE, ![f].owner = e]
      /\ pte' = [entries EXCEPT ![e].loaded = TRUE, ![e].dirty = FALSE,
                                ![e].frame = f]
      /\ disk' = clusters
      /\ \/ /\ c \in Clusters
            /\ memory' = [memory EXCEPT ![f] = clusters[c]]
            /\ happened' = happened \union Refault(e)
         \/ /\ "readCluster" \in Mishaps \/ c \notin Clusters
            /\ happened' = happened \union Refault(e) \union {"readCluster"}
            /\ UNCHANGED memory
      /\ UNCHANGED <<proc, tables, bitmap, freeSlabs, crash>>

FaultIntoFreeFrame(p, q) ==
  /\ Faults(p, q)
  /\ \E f \in Frames :
       /\ IsFirstFree(frameTable, f)
       /\ Install(<<p, q>>, f, pte, disk)

\* The frame pageFault takes from another page: its owner must still exist.
Evicts(p, q, f) ==
  /\ Faults(p, q)
  /\ NoneFree(frameTable)
  /\ IsVictim(frameTable, f)

OwnerExists(f) == frameTable[f].owner # NoPage
                    /\ proc[frameTable[f].owner[1]] = "live"

\* Mutated: the page that loses its frame still says it is loaded.
StillLoaded(v) == pte

Unloaded(v) == [pte EXCEPT ![v].loaded = FALSE]

FaultEvictingClean(p, q) ==
  \E f \in Frames :
    LET v == frameTable[f].owner
    IN  /\ Evicts(p, q, f)
        /\ OwnerExists(f)
        /\ ~pte[v].dirty
        /\ Install(<<p, q>>, f, Unloaded(v), disk)

\* The page is written to its cluster from the wrong place: the frame number
\* is an offset into the memory of the page tables, not of the frames.
EvictedBytes(f) == PmtBytes

FaultEvictingDirty(p, q) ==
  \E f \in Frames :
    LET v == frameTable[f].owner
    IN  /\ Evicts(p, q, f)
        /\ OwnerExists(f)
        /\ pte[v].dirty
        /\ pte[v].cluster \in Clusters
        /\ Install(<<p, q>>, f, Unloaded(v),
                   [disk EXCEPT ![pte[v].cluster] = EvictedBytes(pte[v].frame)])

\* The write fails: the victim is already marked unloaded, its frame stays.
FaultWhenEvictionFails(p, q) ==
  \E f \in Frames :
    LET v == frameTable[f].owner
    IN  /\ Evicts(p, q, f)
        /\ OwnerExists(f)
        /\ pte[v].dirty
        /\ "writeEvicted" \in Mishaps \/ pte[v].cluster \notin Clusters
        /\ pte' = Unloaded(v)
        /\ happened' = happened \union {"writeEvicted"}
        /\ UNCHANGED <<proc, tables, frameTable, bitmap, freeSlabs, memory, disk,
                       crash>>

\* The table that held the owner's entry was given back.
FaultOnDanglingOwner(p, q) ==
  /\ \E f \in Frames : Evicts(p, q, f) /\ ~OwnerExists(f)
  /\ crash' = "useAfterFree"
  /\ UNCHANGED <<proc, tables, pte, frameTable, bitmap, freeSlabs, memory, disk,
                 happened>>

-----------------------------------------------------------------------------
\* The counters of the frames in use age; a free frame keeps its own.
PeriodicJob ==
  /\ crash = "none"
  /\ frameTable' = [f \in Frames |->
                      IF frameTable[f].free THEN frameTable[f]
                      ELSE [frameTable[f] EXCEPT !.ref = ShiftReferencedBits(@)]]
  /\ UNCHANGED <<proc, tables, pte, bitmap, freeSlabs, memory, disk, crash,
                 happened>>

SegmentCall(p) ==
  \E s \in Pages, n \in SegmentSizes, rights \in SegmentRights :
    \/ CreateSegment(p, s, n, rights)
    \/ \E content \in [0 .. n - 1 -> Data] :
         \/ LoadSegment(p, s, n, rights, content)
         \/ \E k \in 1 .. n : LoadSegmentFails(p, s, n, rights, content, k)

PageFault(p) ==
  \E q \in Pages :
    \/ FaultIntoFreeFrame(p, q)
    \/ FaultEvictingClean(p, q)
    \/ FaultEvictingDirty(p, q)
    \/ FaultWhenEvictionFails(p, q)
    \/ FaultOnDanglingOwner(p, q)

Next ==
  \/ PeriodicJob
  \/ \E p \in Procs :
       \/ CreateProcess(p)
       \/ DestroyProcess(p)
       \/ SegmentCall(p)
       \/ \E s \in Pages : DeleteSegment(p, s) \/ DeleteSegmentCrashes(p, s)
       \/ \E q \in Pages, type \in AccessTypes : Access(p, q, type)
       \/ PageFault(p)

Spec == Init /\ [][Next]_vars

-----------------------------------------------------------------------------
(* Properties *)

\* Counters keep within their bits, clusters that are in use exist, slabs are
\* never overdrawn and an entry's frame is one of the frame table.
TypeOK ==
  /\ proc \in [Procs -> {"none", "live", "dead"}]
  /\ tables \in [Procs -> SUBSET Tables]
  /\ pte \in [Entries -> PageTableEntries]
  /\ frameTable \in [Frames -> FrameEntries(Entries)]
  /\ bitmap \subseteq Clusters
  /\ freeSlabs \in Nat
  /\ memory \in [Frames -> Contents]
  /\ disk \in [Clusters -> Contents]
  /\ crash \in {"none", "nullDereference", "useAfterFree"}
  /\ happened \subseteq PossibleMishaps \union {"exhaustion"}

UsedPages == {e \in Entries : pte[e].used}

Spared(mishaps) == happened \intersect mishaps = {}

Isolated ==
  \A e \in UsedPages : pte[e].loaded =>
    /\ ~frameTable[pte[e].frame].free
    /\ frameTable[pte[e].frame].owner = e

\* A loaded page has its frame to itself: the frame is taken and the frame
\* table names the page as its owner, so no two pages share a frame and no
\* fault hands it to another page behind the owner's back.  Failed reads, failed
\* evictions and repeated faults do not break this; a segment whose load failed
\* half way does (deleteSegment frees frame 0 for pages that were never set up).
\* kernel_process.cpp:122, 220 and 231-233.
PageIsolation == Spared({"writeContent"}) => Isolated

Accounted ==
  \A f \in Frames : ~frameTable[f].free =>
    LET e == frameTable[f].owner
    IN  e \in UsedPages /\ pte[e].loaded /\ pte[e].frame = f

\* No frame leaks: a frame that is taken holds the page the table names, in a
\* segment that exists.  It fails for good once an eviction's write failed or a
\* loaded page was faulted in again (kernel_process.cpp:225 and 231).
FramesAccountedFor ==
  Spared({"writeContent", "writeEvicted", "refault"}) => Accounted

Partitioned ==
  /\ \A d, e \in UsedPages : pte[d].cluster = pte[e].cluster => d = e
  /\ bitmap = {pte[e].cluster : e \in UsedPages}

\* The swap space is exactly partitioned: pages in use have a cluster each and
\* the bitmap marks these clusters and no others, through every create, load,
\* delete and destructor (kernel_process.cpp:30 and 126, pmt0.cpp:121 and 143).
ClusterOwnership == Spared({"exhaustion", "writeContent"}) => Partitioned

\* The pages a used entry of size n claims, itself and the n - 1 after it.
Claims(e) == {<<e[1], q>> : q \in e[2] .. e[2] + pte[e].size - 1}

Tiled ==
  /\ \A e \in Entries : ~pte[e].used => pte[e].size = 0
  /\ \A e \in UsedPages :
       /\ proc[e[1]] = "live"
       /\ TableOf(e[2]) \in tables[e[1]]
       /\ \E h \in UsedPages : e \in Claims(h)
       /\ Claims(e) \subseteq UsedPages
       /\ \A x \in Claims(e) : x # e => pte[x].size = 0

\* Segments tile what a process has mapped: every page in use belongs to a
\* segment, the first entry of a segment counts pages that are in use, in tables
\* that exist and in no other segment, so deleteSegment frees what was created
\* and nothing else (pmt1entry.h:33, kernel_process.cpp:118-137).
SegmentsTile == Spared({"writeContent"}) => Tiled

\* A page that is loaded and clean can be dropped without a write, which is what
\* an eviction does with it: its cluster holds the same (kernel_process.cpp:221).
CleanPageMatchesDisk ==
  happened = {} =>
    \A e \in UsedPages : pte[e].loaded /\ ~pte[e].dirty =>
      memory[pte[e].frame] = disk[pte[e].cluster]

\* Every table a process takes goes back with it: slabs are neither lost nor
\* invented, whatever fails (kernel_process.cpp:35-37, pmt0.cpp:115 and 139).
SlabsConserved ==
  freeSlabs + Cardinality({p \in Procs : proc[p] = "live"})
            + Cardinality({x \in Procs \X Tables : x[2] \in tables[x[1]]})
    = TotalSlabs

\* An eviction never follows a frame's pointer into a page table that was given
\* back, unless a failed write or a repeated fault leaked a frame before
\* (kernel_process.cpp:220).
EvictionNeverDangles ==
  Spared({"writeContent", "writeEvicted", "refault"}) => crash # "useAfterFree"

\* All a step may do to a page it is not about is to take its frame, and to write
\* over its cluster if a store had been made to it there.
Keeps(e) ==
  /\ pte'[e].used
  /\ pte'[e].rights = pte[e].rights
  /\ pte'[e].size = pte[e].size
  /\ pte'[e].cluster = pte[e].cluster
  /\ pte'[e].loaded => /\ pte[e].loaded
                       /\ pte'[e].frame = pte[e].frame
                       /\ memory'[pte[e].frame] = memory[pte[e].frame]
  /\ Spared({"exhaustion", "writeEvicted", "refault"})' =>
       \/ disk'[pte[e].cluster] = disk[pte[e].cluster]
       \/ pte[e].loaded /\ pte[e].dirty /\ ~pte'[e].loaded

\* No step touches pages of two processes but by taking a frame from one of them: what
\* a process has in frames and in clusters stays as it is whatever another one calls.
\* A failed eviction and a repeated fault void what it says of clusters: they leave a
\* frame that still names a page, and when that page is deleted before the frame is
\* evicted again, setUnused has left its dirty bit over the cluster number 0, which is
\* written and may be anybody's (kernel_process.cpp:118-137, 220-233,
\* pmt1entry.cpp:27-33).
OthersKeepTheirPages ==
  [][Spared({"writeContent"})' =>
       \A d, e \in UsedPages : d[1] # e[1] => Keeps(d) \/ Keeps(e)]_vars

-----------------------------------------------------------------------------
(* What a program sees *)

Unmapped == NoPage

View == [e \in Entries |->
          IF ~pte[e].used THEN Unmapped
          ELSE IF pte[e].loaded THEN memory[pte[e].frame]
          ELSE disk[pte[e].cluster]]

A == INSTANCE AddressSpace
       WITH Places <- Entries,
            content <- View,
            writable <- {e \in UsedPages : pte[e].rights \in {"WRITE", "READ_WRITE"}},
            unsaved <- {e \in UsedPages : pte[e].loaded /\ pte[e].dirty}

\* Paging is invisible but for the stores it loses: with nothing failing, each
\* call changes what programs see as AddressSpace says, and a fault that evicts
\* another page changes nothing unless that page holds a store.
AddressSpaceSpec == A!Spec

\* A page that was stored to is in its cluster as it was in its frame once it has
\* been evicted.  The code breaks this (kernelsystem.cpp:213).
DirtyPageSurvivesEviction ==
  [][\A e \in UsedPages :
       pte[e].loaded /\ pte[e].dirty /\ pte'[e].used /\ ~pte'[e].loaded =>
         disk'[pte[e].cluster] = memory[pte[e].frame]]_vars
=============================================================================
