--------------------------- MODULE SharedSegments ---------------------------
(***************************************************************************)
(* Shared segments (kernel_process.cpp, kernelsystem.cpp, pmt0.cpp and     *)
(* sharedsegmentmapentry.cpp) next to private ones.                        *)
(*                                                                         *)
(* A shared segment is a master: page tables of its own, from address 0,   *)
(* that no process runs on.  An entry of a process that is connected       *)
(* points to an entry of the master, and every call that looks up an entry *)
(* gets the master's.  The kernel finds masters by name and records for a  *)
(* name which processes connected, and where.                              *)
(*                                                                         *)
(* Calls do not overlap and the partition does not fail.  Contents, rights *)
(* and the dirty bit are in VirtualMemory; the page an eviction picks is   *)
(* any here.  sharedSegmentsNameMap, which only clone reads, is left out.  *)
(***************************************************************************)
EXTENDS Integers, FiniteSets

CONSTANTS
  Procs,        \* process ids ever handed out
  Masters,      \* masters ever created
  Names,        \* names of shared segments
  NoMaster,     \* a name nobody created
  NoPage,       \* the null page table entry
  Pmt0Entries,  \* second-level tables of a process or master
  Pmt1Entries,  \* pages of a second-level table
  BitsPerByte,  \* bits in one byte of the cluster bitmap
  NumClusters,  \* clusters of the swap partition
  TotalSlabs,   \* slabs, one table each
  FrameCount,   \* pages of physical memory
  SegmentSizes  \* the sizes a program asks for

ASSUME SharedSegmentsAssumption ==
  /\ {Pmt0Entries, Pmt1Entries, BitsPerByte, NumClusters, FrameCount} \subseteq Nat \ {0}
  /\ TotalSlabs \in Nat
  /\ SegmentSizes \subseteq Nat \ {0}
  /\ Procs \intersect Masters = {}
  /\ NoMaster \notin Masters
  /\ NoPage \notin (Procs \union Masters) \X Nat

NumPages == Pmt0Entries * Pmt1Entries
Pages == 0 .. NumPages - 1
Tables == 0 .. Pmt0Entries - 1
TableOf(q) == q \div Pmt1Entries
Owners == Procs \union Masters
Places == Owners \X Pages
Clusters == 0 .. NumClusters - 1
Frames == 0 .. FrameCount - 1

VARIABLES
  life,       \* of a process: "none", "live", "dead";
              \* of a master: "none", "live", "deleted", "lost"
  registry,   \* sharedSegmentsMap: the master of a name
  connected,  \* its entries' process maps: <<process, address>>
  tables,     \* second-level tables an owner has
  pte,        \* page table entries
  freeFrames,
  holder,     \* the frame table's pointers
  bitmap,     \* clusters whose bit is set
  freeSlabs,
  crash,      \* "none", or what the kernel used that was not there
  happened    \* history: steps the properties make exceptions for

vars == <<life, registry, connected, tables, pte, freeFrames, holder, bitmap,
          freeSlabs, crash, happened>>

Allocator == INSTANCE ClusterAllocator WITH inUse <- bitmap

\* frame and target are one word in the code: a shared entry has a target, any
\* other a frame.
PageTableEntries ==
  [used : BOOLEAN, loaded : BOOLEAN, shared : BOOLEAN,
   target : (Masters \X Pages) \union {NoPage},
   frame : Frames, cluster : 0 .. NumClusters, size : Nat]

ZeroEntry ==
  [used |-> FALSE, loaded |-> FALSE, shared |-> FALSE, target |-> NoPage,
   frame |-> 0, cluster |-> 0, size |-> 0]

OwnEntry(size, cluster) ==
  [ZeroEntry EXCEPT !.used = TRUE, !.size = size, !.cluster = cluster]

\* Cluster and size are not initialised: see Garbage.
Link(target) ==
  [ZeroEntry EXCEPT !.used = TRUE, !.shared = TRUE, !.target = target]

\* The loaded bit stays, and so does the shared bit, over a target that is null.
SetUnused(x) == [ZeroEntry EXCEPT !.loaded = x.loaded, !.shared = x.shared]

Init ==
  /\ life = [o \in Owners |-> "none"]
  /\ registry = [n \in Names |-> NoMaster]
  /\ connected = [n \in Names |-> {}]
  /\ tables = [o \in Owners |-> {}]
  /\ pte = [e \in Places |-> ZeroEntry]
  /\ freeFrames = Frames
  /\ holder = [f \in Frames |-> NoPage]
  /\ bitmap = {}
  /\ freeSlabs = TotalSlabs
  /\ crash = "none"
  /\ happened = {}

Running(p) == crash = "none" /\ life[p] = "live"

Crashes(how) ==
  /\ crash' = how
  /\ UNCHANGED <<life, registry, connected, tables, pte, freeFrames, holder, bitmap,
                 freeSlabs, happened>>

CreateProcess(p) ==
  /\ crash = "none"
  /\ life[p] = "none"
  /\ freeSlabs > 0
  /\ life' = [life EXCEPT ![p] = "live"]
  /\ freeSlabs' = freeSlabs - 1
  /\ UNCHANGED <<registry, connected, tables, pte, freeFrames, holder, bitmap,
                 crash, happened>>

-----------------------------------------------------------------------------
(* Looking up entries and room for a segment *)

HasEntry(o, q) == q \in Pages /\ TableOf(q) \in tables[o]

\* getEntry: the entry itself or the one it points to, which may be null.
Resolve(e) == IF pte[e].shared THEN pte[e].target ELSE e

IsNull(p, q) == HasEntry(p, q) /\ Resolve(<<p, q>>) = NoPage
IsTaken(p, q) ==
  HasEntry(p, q) /\ ~IsNull(p, q) /\ pte[Resolve(<<p, q>>)].used

\* haveFreeFromAddress, for a segment that ends inside the address space.
HaveFreeFromAddress(p, s, n) ==
  /\ s + n <= NumPages
  /\ \A q \in s .. s + n - 1 : ~IsNull(p, q) /\ ~IsTaken(p, q)
  /\ s + n = NumPages => Pmt0Entries - 1 \notin tables[p]

\* The same walk, when it comes to a null entry first.
MeetsNull(p, s, n) ==
  /\ s + n <= NumPages
  /\ \E q \in s .. s + n - 1 : IsNull(p, q) /\ \A r \in s .. q - 1 : ~IsTaken(p, r)

MissingTables(p, pages) == {TableOf(q) : q \in pages} \ tables[p]

\* cs[0], cs[1], ... are the clusters one page after another gets.
HandedBefore(cs, i) == bitmap \union {cs[j] : j \in 0 .. i - 1}
HandedOut(cs, k) ==
  \A i \in 0 .. k - 1 : Allocator!FirstFit(HandedBefore(cs, i), cs[i])
RanOut(cs, k) ==
  IF \E i \in 0 .. k - 1 : Allocator!Usable \subseteq HandedBefore(cs, i)
    THEN {"exhaustion"} ELSE {}

\* The entries once pages s .. s + k - 1 of o were set up as the start of a
\* segment of n pages of its own.
SetUp(o, s, n, k, cs) ==
  [e \in Places |->
     IF e[1] = o /\ e[2] \in s .. s + k - 1
       THEN OwnEntry(IF e[2] = s THEN n ELSE 0, cs[e[2] - s])
       ELSE pte[e]]

CreateSegment(p, s, n) ==
  LET missing == MissingTables(p, s .. s + n - 1)
  IN  /\ Running(p)
      /\ HaveFreeFromAddress(p, s, n)
      /\ Cardinality(missing) <= freeSlabs
      /\ tables' = [tables EXCEPT ![p] = @ \union missing]
      /\ freeSlabs' = freeSlabs - Cardinality(missing)
      /\ \E cs \in [0 .. n - 1 -> 0 .. NumClusters] :
           /\ HandedOut(cs, n)
           /\ pte' = SetUp(p, s, n, n, cs)
           /\ bitmap' = HandedBefore(cs, n) \intersect Clusters
           /\ happened' = happened \union RanOut(cs, n)
      /\ UNCHANGED <<life, registry, connected, freeFrames, holder, crash>>

-----------------------------------------------------------------------------
(* Connecting to a shared segment and creating it *)

\* Mutated: a page gets its table whether or not a slab is left.
AlwaysGetsTable(p, s, i, ts, left) == \A j \in 0 .. i - 1 : TableOf(j) \in ts

\* allocateFromShared links page after page of p to the master m, which has the
\* tables ts.  It takes tables as it goes, with left slabs to take them from, and
\* stops at a page it gets no table for or the master has no table for.
GetsTable(p, s, i, ts, left) ==
  /\ Cardinality(MissingTables(p, s .. s + i)) <= left
  /\ \A j \in 0 .. i - 1 : TableOf(j) \in ts

Linked(p, s, n, ts, left) ==
  {i \in 0 .. n - 1 : GetsTable(p, s, i, ts, left) /\ TableOf(i) \in ts}

\* Mutated: tables that are there already are taken again.
TablesTouched(p, s, n, ts, left) ==
  {TableOf(s + i) : i \in {j \in 0 .. n - 1 : GetsTable(p, s, j, ts, left)}}

TablesTaken(p, s, n, ts, left) ==
  MissingTables(p, {s + i : i \in {j \in 0 .. n - 1 : GetsTable(p, s, j, ts, left)}})

LinkPages(entries, p, s, m, is) ==
  [e \in Places |->
     IF e[1] = p /\ e[2] - s \in is THEN Link(<<m, e[2] - s>>) ELSE entries[e]]

\* insert keeps an entry that is there: a second connection is not recorded.
Recorded(name, p, s) ==
  IF \E c \in connected[name] : c[1] = p
    THEN connected[name]
    ELSE connected[name] \union {<<p, TableOf(s)>>}

\* What follows once the master m of the name exists; the address recorded for
\* the process has been shifted down to its table number.
ConnectTo(p, s, n, name, m, ts, entries, left) ==
  LET linked == Linked(p, s, n, ts, left)
      taken  == TablesTaken(p, s, n, ts, left)
  IN  /\ pte' = LinkPages(entries, p, s, m, linked)
      /\ freeSlabs' = left - Cardinality(taken)
      /\ tables' = [tables EXCEPT ![p] = @ \union taken, ![m] = ts]
      /\ connected' = IF linked = 0 .. n - 1
                        THEN [connected EXCEPT ![name] = Recorded(name, p, s)]
                        ELSE connected

ConnectShared(p, s, n, name) ==
  /\ Running(p)
  /\ HaveFreeFromAddress(p, s, n)
  /\ registry[name] # NoMaster
  /\ ConnectTo(p, s, n, name, registry[name], tables[registry[name]], pte, freeSlabs)
  /\ UNCHANGED <<life, registry, freeFrames, holder, bitmap, crash, happened>>

TablesFor(n) == {TableOf(q) : q \in 0 .. n - 1}
SlabsFor(n) == 1 + Cardinality(TablesFor(n))

CreateShared(p, s, n, name, m) ==
  /\ Running(p)
  /\ HaveFreeFromAddress(p, s, n)
  /\ registry[name] = NoMaster
  /\ life[m] = "none"
  /\ SlabsFor(n) <= freeSlabs
  /\ life' = [life EXCEPT ![m] = "live"]
  /\ registry' = [registry EXCEPT ![name] = m]
  /\ \E cs \in [0 .. n - 1 -> 0 .. NumClusters] :
       /\ HandedOut(cs, n)
       /\ ConnectTo(p, s, n, name, m, TablesFor(n), SetUp(m, 0, n, n, cs),
                    freeSlabs - SlabsFor(n))
       /\ bitmap' = HandedBefore(cs, n) \intersect Clusters
       /\ happened' = happened \union RanOut(cs, n)
  /\ UNCHANGED <<freeFrames, holder, crash>>

\* The kernel runs out of slabs.  What it took for the master stays taken, and
\* the caller, who does not look at the result, goes on with a null master.  It
\* returns only because it finds no table of its own, which it needs a slab for.
CreateSharedFails(p, s, n, name, m) ==
  /\ Running(p)
  /\ HaveFreeFromAddress(p, s, n)
  /\ registry[name] = NoMaster
  /\ life[m] = "none"
  /\ freeSlabs < SlabsFor(n)
  /\ IF HasEntry(p, s)
       THEN Crashes("nullMaster")
       ELSE LET got == {t \in Tables : t < freeSlabs - 1}
                k   == Cardinality({q \in 0 .. n - 1 : TableOf(q) \in got})
            IN  /\ freeSlabs > 0
                /\ life' = [life EXCEPT ![m] = "lost"]
                /\ tables' = [tables EXCEPT ![m] = got]
                /\ freeSlabs' = 0
                /\ \E cs \in [0 .. k - 1 -> 0 .. NumClusters] :
                     /\ HandedOut(cs, k)
                     /\ pte' = SetUp(m, 0, n, k, cs)
                     /\ bitmap' = HandedBefore(cs, k) \intersect Clusters
                     /\ happened' = happened \union RanOut(cs, k)
                /\ UNCHANGED <<registry, connected, freeFrames, holder, crash>>

\* createSegment and createSharedSegment look at an entry that was disconnected.
CreateCrashes(p, s, n) ==
  /\ Running(p)
  /\ MeetsNull(p, s, n)
  /\ Crashes("nullEntry")

-----------------------------------------------------------------------------
(* Giving pages back *)

\* Mutated: no frame is freed.
FreesNoFrame(es) == {}

\* Mutated: a page that is loaded keeps its cluster.
ClustersOfAbsent(es) == {pte[e].cluster : e \in {x \in es : ~pte[x].loaded}}

FramesOf(es)   == {pte[e].frame : e \in {x \in es : pte[x].loaded}}
ClustersOf(es) == {pte[e].cluster : e \in es}

\* deleteSegment: the pages from s on as the entries resolve.  That of a
\* connected segment counts its own pages, and its entries are the ones set
\* unused, whoever else is connected.
SizeAt(p, s) == pte[Resolve(<<p, s>>)].size
Walk(p, s) == s .. s + SizeAt(p, s) - 1
Walked(p, s) == {Resolve(<<p, q>>) : q \in Walk(p, s)}

\* Entries two pages of the walk resolve to: unused the second time, they give
\* back frame 0, if they still say they are loaded, and cluster 0.
WalkedTwice(p, s) ==
  {e \in Walked(p, s) : Cardinality({q \in Walk(p, s) : Resolve(<<p, q>>) = e}) > 1}

CanWalk(p, s) == \A q \in Walk(p, s) : HasEntry(p, q) /\ ~IsNull(p, q)

DeleteSegment(p, s) ==
  LET twice == WalkedTwice(p, s)
  IN  /\ Running(p)
      /\ HasEntry(p, s)
      /\ ~IsNull(p, s)
      /\ SizeAt(p, s) > 0
      /\ CanWalk(p, s)
      /\ freeFrames' = freeFrames \union FramesOf(Walked(p, s))
                         \union {0 : e \in {x \in twice : pte[x].loaded}}
      /\ bitmap' = (bitmap \ ClustersOf(Walked(p, s))) \ {0 : e \in twice}
      /\ pte' = [e \in Places |->
                   IF e \in Walked(p, s) THEN SetUnused(pte[e]) ELSE pte[e]]
      /\ happened' = happened \union
           (IF \E e \in Walked(p, s) : e[1] # p THEN {"deletedAsPrivate"} ELSE {})
      /\ UNCHANGED <<life, registry, connected, tables, holder, freeSlabs, crash>>

\* The address may be one that has no table.
DeleteSegmentCrashes(p, s) ==
  /\ Running(p)
  /\ \/ ~HasEntry(p, s) /\ Crashes("noTable")
     \/ IsNull(p, s) /\ Crashes("nullEntry")
     \/ HasEntry(p, s) /\ ~IsNull(p, s) /\ ~CanWalk(p, s) /\ Crashes("pastConnection")

OwnUsed(p) == {e \in Places : e[1] = p /\ pte[e].used /\ ~pte[e].shared}
UsedLinks(p) == {e \in Places : e[1] = p /\ pte[e].used /\ pte[e].shared}

\* The destructor clears the bit each used entry names, and a link names
\* whatever its memory held.
Garbage(p) == {cs \in SUBSET Clusters : Cardinality(cs) <= Cardinality(UsedLinks(p))}

DestroyProcess(p) ==
  /\ Running(p)
  /\ freeFrames' = freeFrames \union FramesOf(OwnUsed(p))
  /\ \E garbage \in Garbage(p) :
       bitmap' = (bitmap \ ClustersOf(OwnUsed(p))) \ garbage
  /\ freeSlabs' = freeSlabs + Cardinality(tables[p]) + 1
  /\ life' = [life EXCEPT ![p] = "dead"]
  /\ tables' = [tables EXCEPT ![p] = {}]
  /\ pte' = [e \in Places |-> IF e[1] = p THEN ZeroEntry ELSE pte[e]]
  /\ happened' = happened \union
       (IF UsedLinks(p) # {} THEN {"destroyedConnected"} ELSE {})
  /\ UNCHANGED <<registry, connected, holder, crash>>

-----------------------------------------------------------------------------
(* Disconnecting and deleting by name *)

\* deleteSegmentPrivate at the table number t taken for an address: an error but
\* for 0, where the entries from page 0 on are set unused, and nothing else.
Unlinked(p, t) == IF t = 0 THEN {<<p, q>> : q \in Walk(p, 0)} ELSE {}

CanUnlink(p, t) ==
  t = 0 => ~IsNull(p, 0) /\ \A q \in Walk(p, 0) : HasEntry(p, q)

\* Of a process that was destroyed nothing is left to look at, past that error.
CanReach(p, t) == t = 0 => life[p] = "live"

HowUnlinkFails(p) == IF IsNull(p, 0) THEN "nullEntry" ELSE "pastConnection"

\* A private page that is set unused like this keeps its frame and cluster.
Strays(es) ==
  (IF es # {} THEN {"disconnected"} ELSE {}) \union
  (IF \E e \in es : ~pte[e].shared THEN {"disconnectedPrivate"} ELSE {})

\* A process that is connected by this name, since nothing is found otherwise.
DisconnectShared(p, name) ==
  \E c \in connected[name] :
    /\ Running(p)
    /\ c[1] = p
    /\ c[2] = 0
    /\ IF CanUnlink(p, c[2])
         THEN /\ pte' = [e \in Places |-> IF e \in Unlinked(p, c[2])
                                            THEN SetUnused(pte[e]) ELSE pte[e]]
              /\ happened' = happened \union Strays(Unlinked(p, c[2]))
              /\ UNCHANGED <<life, registry, connected, tables, freeFrames, holder,
                             bitmap, freeSlabs, crash>>
         ELSE Crashes(HowUnlinkFails(p))

\* Mutated: the tables of the master are given back as well.
AllTables(m) == tables[m]

\* The second-level tables of a master that go back with it: none do.
ReturnedTables(m) == {}

\* Mutated: the last page of a master is left.
AllButLast(m) == {<<m, q>> : q \in 0 .. pte[<<m, 0>>].size - 2}

MasterPages(m) == {<<m, q>> : q \in 0 .. pte[<<m, 0>>].size - 1}

DeleteShared(p, name) ==
  LET m        == registry[name]
      unlinked == UNION {Unlinked(c[1], c[2]) : c \in connected[name]}
  IN  /\ Running(p)
      /\ \E c \in connected[name] : c[1] = p
      /\ \A c \in connected[name] : CanReach(c[1], c[2]) /\ CanUnlink(c[1], c[2])
      /\ pte' = [e \in Places |-> IF e \in unlinked \union MasterPages(m)
                                    THEN SetUnused(pte[e]) ELSE pte[e]]
      /\ freeFrames' = freeFrames \union FramesOf(MasterPages(m))
      /\ bitmap' = bitmap \ ClustersOf(MasterPages(m))
      /\ freeSlabs' = freeSlabs + 1 + Cardinality(ReturnedTables(m))
      /\ tables' = [tables EXCEPT ![m] = @ \ ReturnedTables(m)]
      /\ registry' = [registry EXCEPT ![name] = NoMaster]
      /\ connected' = [connected EXCEPT ![name] = {}]
      /\ life' = [life EXCEPT ![m] = "deleted"]
      /\ happened' = happened \union Strays(unlinked)
      /\ UNCHANGED <<holder, crash>>

\* A process that was connected and destroyed is still recorded.
DeleteSharedCrashes(p, name) ==
  /\ Running(p)
  /\ \E c \in connected[name] : c[1] = p
  /\ \/ /\ \E c \in connected[name] : ~CanReach(c[1], c[2])
        /\ Crashes("deadProcess")
     \/ /\ \A c \in connected[name] : CanReach(c[1], c[2])
        /\ \E c \in connected[name] :
             ~CanUnlink(c[1], c[2]) /\ Crashes(HowUnlinkFails(c[1]))

-----------------------------------------------------------------------------
(* Paging *)

Install(e, f, entries) ==
  /\ holder' = [holder EXCEPT ![f] = e]
  /\ freeFrames' = freeFrames \ {f}
  /\ pte' = [entries EXCEPT ![e].loaded = TRUE, ![e].frame = f]
  /\ UNCHANGED <<life, registry, connected, tables, bitmap, freeSlabs, crash, happened>>

\* Mutated: the page that loses its frame still says it is loaded.
StillLoaded(v) == pte

Unloaded(v) == [pte EXCEPT ![v].loaded = FALSE]

\* For a page that is not loaded, as the hardware asks for it.
PageFault(p, q) ==
  LET e == Resolve(<<p, q>>)
  IN  /\ Running(p)
      /\ HasEntry(p, q)
      /\ \/ e = NoPage /\ Crashes("nullEntry")
         \/ /\ e # NoPage
            /\ pte[e].used
            /\ ~pte[e].loaded
            /\ \/ \E f \in Frames :
                    /\ f \in freeFrames
                    /\ \A g \in freeFrames : f <= g
                    /\ Install(e, f, pte)
               \/ /\ freeFrames = {}
                  /\ \E f \in Frames :
                       IF HasEntry(holder[f][1], holder[f][2])
                         THEN Install(e, f, Unloaded(holder[f]))
                         ELSE Crashes("deadHolder")

Next ==
  \E p \in Procs :
    \/ CreateProcess(p)
    \/ DestroyProcess(p)
    \/ \E s \in Pages :
         \/ PageFault(p, s)
         \/ DeleteSegment(p, s)
         \/ DeleteSegmentCrashes(p, s)
         \/ \E n \in SegmentSizes :
              \/ CreateSegment(p, s, n)
              \/ CreateCrashes(p, s, n)
              \/ \E name \in Names :
                   \/ ConnectShared(p, s, n, name)
                   \/ \E m \in Masters :
                        \/ CreateShared(p, s, n, name, m)
                        \/ CreateSharedFails(p, s, n, name, m)
    \/ \E name \in Names :
         \/ DisconnectShared(p, name)
         \/ DeleteShared(p, name)
         \/ DeleteSharedCrashes(p, name)

Spec == Init /\ [][Next]_vars

-----------------------------------------------------------------------------
(* Properties *)

TypeOK ==
  /\ life \in [Owners -> {"none", "live", "dead", "deleted", "lost"}]
  /\ registry \in [Names -> Masters \union {NoMaster}]
  /\ connected \in [Names -> SUBSET (Procs \X Tables)]
  /\ tables \in [Owners -> SUBSET Tables]
  /\ pte \in [Places -> PageTableEntries]
  /\ freeFrames \subseteq Frames
  /\ holder \in [Frames -> Places \union {NoPage}]
  /\ bitmap \subseteq Clusters
  /\ freeSlabs \in Nat
  /\ crash \in {"none", "noTable", "nullEntry", "nullMaster", "pastConnection",
                "deadProcess", "deadHolder"}
  /\ happened \subseteq {"exhaustion", "deletedAsPrivate", "destroyedConnected",
                        "disconnected", "disconnectedPrivate"}

Spared(steps) == happened \intersect steps = {}

UsedPages == {e \in Places : pte[e].used /\ ~pte[e].shared}

\* No link of a live process dangles: the master's entry it points to is in a
\* table that was never given back, whichever process deleted the segment.  What
\* keeps it so is that deleteSharedSegment leaves the tables behind
\* (kernelsystem.cpp:335-359).
NoDanglingLink ==
  \A e \in Places : pte[e].shared /\ pte[e].target # NoPage =>
    HasEntry(pte[e].target[1], pte[e].target[2])

\* A segment that was deleted by name is gone for everybody: no page of it can be
\* faulted in through any link, at whatever address, and none keeps its frame or
\* cluster.  A deleteSegment at a connected address breaks this, since it takes
\* the size of the segment away (kernel_process.cpp:118, kernelsystem.cpp:341).
DeletedIsGone ==
  Spared({"deletedAsPrivate"}) =>
    \A e \in UsedPages : e[1] \in Masters => life[e[1]] # "deleted"

\* Pages in use, of processes and masters, have a cluster each, and the bitmap
\* marks these and no others, unless a process is destroyed while connected, a
\* private segment is disconnected or the swap space runs out
\* (kernel_process.cpp:30, kernelsystem.cpp:348).
ClusterOwnership ==
  Spared({"exhaustion", "destroyedConnected", "disconnectedPrivate",
          "deletedAsPrivate"}) =>
    /\ \A d, e \in UsedPages : pte[d].cluster = pte[e].cluster => d = e
    /\ bitmap = {pte[e].cluster : e \in UsedPages}

\* Frames and pages agree: a taken frame holds the page the frame table names,
\* through whichever process it was faulted in, and a loaded page has its frame
\* (kernel_process.cpp:231-233, kernelsystem.cpp:345).
FramesAgree ==
  Spared({"disconnectedPrivate", "deletedAsPrivate"}) =>
    /\ \A f \in Frames \ freeFrames :
         holder[f] \in UsedPages /\ pte[holder[f]].loaded /\ pte[holder[f]].frame = f
    /\ \A e \in UsedPages : pte[e].loaded =>
         pte[e].frame \notin freeFrames /\ holder[pte[e].frame] = e

\* Every slab is free, holds a table of a live process or a master, or is lost in
\* one of two ways: the second-level tables of a master that was deleted, and all
\* tables of one whose creation failed (kernelsystem.cpp:279-282 and 357).
SlabsConserved ==
  freeSlabs + Cardinality({p \in Procs : life[p] = "live"})
            + Cardinality({x \in Procs \X Tables : x[2] \in tables[x[1]]})
            + Cardinality({x \in Masters \X Tables : x[2] \in tables[x[1]]})
            + Cardinality({m \in Masters : life[m] \in {"live", "lost"}})
    = TotalSlabs

\* As long as nobody disconnects at table 0, deletes a connected segment as if it
\* were its own, or ends while connected, a call goes wrong in three ways only: the
\* creation of a segment runs out of slabs, a call walks past a connection that is
\* shorter than the segment, or a program deletes at an address it has no table for.
\* No call meets a null link, a process or the page of one that is gone
\* (kernelsystem.cpp:336, pmt1entry.cpp:30, kernel_process.cpp:113, 220, 361-362).
CrashNeedsMisuse ==
  Spared({"deletedAsPrivate", "destroyedConnected", "disconnected"}) =>
    crash \in {"none", "noTable", "nullMaster", "pastConnection"}

\* The tables of a segment that was deleted are given back.  The code breaks this
\* (kernelsystem.cpp:357).
DeletedGivesTablesBack ==
  \A m \in Masters : life[m] = "deleted" => tables[m] = {}

\* A process that disconnects from a segment gives up pages of that segment and no
\* others.  The code breaks this (kernel_process.cpp:365).
DisconnectTakesItsSegment ==
  [][\A p \in Procs, name \in Names : DisconnectShared(p, name) =>
       \A q \in Pages : pte'[<<p, q>>] # pte[<<p, q>>] =>
         pte[<<p, q>>].target \in {registry[name]} \X Pages]_vars
=============================================================================
