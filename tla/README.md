# Verification of the virtual memory module

The repository is a user-level model of the virtual memory part of a kernel:
processes with two-level page tables, demand paging into a small physical
memory, a swap partition, shared segments and process cloning. This directory
holds TLA+ modules translated from that code, TLC configurations that check
them on small instances, and TLAPS proofs that hold for every instance.

## The system

| Component | State | Operations | Used by |
|---|---|---|---|
| Cluster bitmap (`bitmap.cpp`) | one bit per cluster, byte index `lastFree` where a search starts | `getFreeCluster`, `setBit` | segment creation, deletion, destructor |
| Frame table (`frametableentry.cpp`) | per frame: free bit, ageing counter, pointer to the entry of the page it holds | set/clear free, set referenced, shift | `pageFault`, `access`, `periodicJob`, deletion |
| Page tables (`pmt0.cpp`, `pmt1entry.cpp`) | per process 256 pointers to tables of 64 entries; an entry has rights, used/loaded/dirty/shared flags, frame, cluster, segment size | find room, set up a segment, look up an entry | everything |
| Process (`kernel_process.cpp`, `process.cpp`) | its page tables, its mutex, names of the shared segments it uses | `createSegment`, `loadSegment`, `deleteSegment`, `pageFault`, `getPhysicalAddress`, shared segment calls, `clone`, destructor | the program |
| Kernel core (`kernelsystem.cpp`, `system.cpp`) | frame table, bitmap, map of processes, map of shared segments, the global mutex | `createProcess`, `access`, `periodicJob`, cluster transfers | the program, the hardware (`access`), a timer (`periodicJob`) |
| Slab memory (`slab.h`, `cache.h`, part of `kernelsystem.cpp`) | free slabs of one page each, free lists inside them | get and return a slab or an object | page tables |
| Shared segments (part of `kernel_process.cpp` and `kernelsystem.cpp`, `sharedsegmentmapentry.cpp`) | master page tables by name, who is connected where | create, connect, disconnect, delete | processes |
| Partition (`part.h`, a library) | clusters of 1024 bytes | read, write, either may fail | kernel core |
| Test driver (`main.cpp`, `SystemTest.cpp`, `ProcessTest.cpp`) | a thread per process, a test mutex | access, fault on refusal, access again, store | -- |

The components call one another directly. `access` is what the hardware does on
every instruction: it checks rights, sets the dirty bit and marks the frame
referenced, or says PAGE_FAULT. The program then calls `pageFault`, which takes
the first free frame or the one with the least ageing counter, marks that
frame's old page unloaded through the pointer in the frame table, writes it to
its cluster if it is dirty, and reads the new page in.

What is hard about this code:

- three structures describe one fact. Who has a frame is in the frame table
  and in a page table entry; who has a cluster is in the bitmap and in an entry;
  the extent of a segment is a number in its first entry. Every call updates
  these by itself and nothing checks them;
- failures half way: a cluster write or read may fail in the middle of a load or
  a fault, and nothing is undone;
- state that outlives its owner: `setUnused` leaves flags, the frame table keeps
  pointers into tables that are given back, free frames keep their counters;
- limits: clusters, slabs, frames, the last byte of the bitmap, the last page of
  the address space;
- two mutexes taken in both orders, and searches done between two critical
  sections.

## Modules

| Module | Models | Depends on |
|---|---|---|
| `ClusterAllocator` | abstract: a page gets the lowest usable cluster that is free | |
| `ClusterBitmap` | `bitmap.cpp`: map, hint, search, exhausted search | implements `ClusterAllocator` |
| `FrameTable` | `frametableentry.cpp` and the two searches of `pageFault` | |
| `VirtualMemory` | demand paging of private segments: all of create, load, delete, destructor, access, fault, eviction, periodic job | `FrameTable`, `ClusterAllocator` |
| `AddressSpace` | abstract: what a program sees of its memory | implemented by `VirtualMemory` |
| `SlabMemory` | the list of free slabs, kept in the free slabs themselves, and the slab and cache above it | |
| `SharedSegments` | shared segments next to private ones: connect, disconnect, delete by name, and what private calls do to connected pages | `ClusterAllocator` |
| `OverlappingCalls` | the same calls on private segments, between one shared read or write and the next, with every mutex, the periodic job and the driver's threads | implements `DemandPaging` under the driver's mutex |
| `DemandPaging` | abstract: an instruction finds its page in a frame or moves it to one | implemented by `OverlappingCalls` |
| `Cloning` | `clone`, step by step, with faults and allocations of other processes in between | |
| `MC_VirtualMemory`, `MC_SharedSegments` | symmetry for TLC | the module in the name |
| `MC_OverlappingCalls`, `MC_Cloning` | threads, pages and numbers of calls; the processes that are cloned | the module in the name |
| `ClusterBitmapProofs`, `VirtualMemoryProofs`, `SlabMemoryProofs`, `CloningProofs` | theorems | the modules they are about; `VirtualMemoryProofs` has the refinement of `AddressSpace` too |
| `SharedProofs`, `SharedOwnershipProofs` | theorems about `SharedSegments`: links and slabs, then frames and clusters | the second extends the first |
| `OverlapProofs`, `DriverProofs` | theorems about `OverlappingCalls`: without the driver's mutex, then with it, and the refinement of `DemandPaging` | the second extends the first |

### ClusterBitmap

`map` is the set of bits that are 1 and `lastFree` the hint. `Allocate` is
`getFreeCluster` and the `setBit` that follows under the global mutex, `StopsAt`
and `FreeBits` its two loops, `ClearBit` the release, which lowers the hint, and
`AllocateExhausted` the search that runs off the last byte: the function then
ends without a return value, so the number is any. The width of a byte is a
constant. `BitsScanned` keeps what the code does in the last byte: it reads
`sizeInBits % 8` bits of it, which is none when the partition has a multiple of
8 clusters, so these clusters are never handed out. `Usable` in
`ClusterAllocator` says which clusters that leaves.

### VirtualMemory

| Variable | Code |
|---|---|
| `proc` | whether a process was created, destroyed |
| `tables[p]` | the non-null pointers of the process's `Pmt0` |
| `pte[<<p, q>>]` | the `Pmt1Entry` of page `q`; entries of tables that do not exist are zero |
| `frameTable` | `FrameTableEntry[]`; an owner is the pair that names the entry |
| `bitmap` | bits set, allocated first fit as `ClusterBitmap` was shown to do |
| `freeSlabs` | `freeSlabsCount`; a table is one slab |
| `memory`, `disk` | what a frame and a cluster hold, as one value |
| `crash` | the kernel used a null or a stale pointer: nothing happens after |
| `happened` | history only: which mishaps there have been |

Virtual addresses are page numbers. Calls do not overlap: the repository's driver
holds one mutex over access, fault and the store, and `InstructionsAtomic` of
`OverlappingCalls` shows that this makes an instruction one step whatever the
periodic job does, as long as transfers succeed. An action is a whole call. A call that returns an error
without changing anything has no action; those that return an error after
changing something do: `LoadSegmentFails` (what was set up stays),
`FaultWhenEvictionFails` (the victim is unloaded, its frame stays taken), and the
failed read inside `Install` (the page stays loaded). `pageFault` has one action
for each way it finds a frame.

What goes wrong outside the code is a constant, `Mishaps`: a cluster write of a
load fails (`writeContent`), the write of an eviction fails (`writeEvicted`), a
read fails (`readCluster`), a program faults a page that is loaded (`refault`), a
program deletes an address that was never mapped (`strayDelete`). `happened`
records those that occurred, and `exhaustion`, the swap space running out, so
that an invariant can say under which of them it holds. No action reads
`happened`.

An eviction writes `pmtMemoryStartAddress + PAGE_SIZE * frame` to the cluster,
which is memory of the page tables, where `readFromCluster` uses
`pagesMemoryStartAddress`. The model keeps this: `EvictedBytes` is the value
`PmtBytes`, whatever the frame holds.

### SlabMemory

A page table fills a slab, on which the kernel relies (the comment at
`kernel_process.cpp:87`), so a cache never finds room in a slab it has and every
table takes a new one. What matters of a slab is its first word: the link to the
next free slab while it is free, the start of the table while it is in use.

| Variable | Code |
|---|---|
| `firstFree` | `firstFreeSlot` |
| `word` | the first word of every slab, and of the memory after the last |
| `freeCount` | `freeSlabsCount` |
| `holders` | how many tables live in a slab |
| `overwritten` | history: a write past the end of a slab destroyed a word that was not zero |

`GetTable` is `Cache::getObject` with `getSlabMemory` and `Slab::getObject`,
which writes a null link after its object (`FirstObject`); `WriteTable` the first
entry a table gets; `ReturnTable` is `returnSlabMemory`. A link of zero means the
slab right after (`LinkOf`). Where the list names a slab whose table was written,
the code would follow table data as a link; the model ends that behaviour.

`VirtualMemory` and `SharedSegments` take tables to be zeroed, distinct memory
and count slabs only. `SlabMemory` shows what that rests on: it is so until a
write past a slab destroys a word, which takes a slab that was returned and
used again.

### SharedSegments

A shared segment has page tables of its own, from address 0, that no process
runs on: a master. `Owners` are processes and masters.

| Variable | Code |
|---|---|
| `life` | of a process: created, destroyed; of a master: in `sharedSegmentsMap`, deleted, or lost when its creation failed |
| `registry` | `sharedSegmentsMap` |
| `connected` | the process map of its entries, with the address as the code records it: the number of a table |
| `tables`, `pte` | as in `VirtualMemory`, of processes and masters; `shared` is bit 64 of `rights`, `target` the pointer of such an entry |
| `freeFrames`, `holder` | free bits and pointers of the frame table |
| `bitmap`, `freeSlabs`, `crash` | as in `VirtualMemory` |
| `happened` | history only: steps that void some of what the properties say |

`Resolve` is `getEntry`: nearly every call follows a pointer before it looks, so
that a private call at a connected address works on the master. What the model
keeps of that:

- `setUnused` leaves the shared bit over a null pointer, and the next call that
  looks up the entry crashes (`CreateCrashes`, `DeleteSegmentCrashes`);
- `deleteSegment` follows what `getEntry` returns, which is null at an address that has
  no table (`kernel_process.cpp:113`, `pmt0.cpp:246`): a crash that takes no shared
  segment at all (`DeleteSegmentCrashes`);
- `deleteSegment` of a connected address takes pages of the master away, and may
  meet the same entry twice (`WalkedTwice`);
- a connection may ask for more pages than the segment has: it ends half way at
  the first table the master does not have (`Linked`, `TablesTaken`);
- `createSharedSegment` ignores that the kernel failed to create the master
  (`CreateSharedFails`): what was taken is lost, and a null master is used unless
  the process is out of slabs itself;
- the destructor of a process that is connected clears the bits of cluster numbers
  nobody initialised (`Garbage`: any, in the bitmap);
- a process that was destroyed stays recorded, and nothing ever removes a record
  but the deletion of the segment, which then uses freed memory when the recorded
  address is in table 0; any other is an error before it gets there (`CanReach`).

The victim of an eviction is any page here, and contents, rights and the dirty
bit are left out: `VirtualMemory` has them. The partition does not fail, calls do
not overlap, and `sharedSegmentsNameMap`, which only `clone` reads, is in `Cloning`.
Disconnecting from or deleting by a name one is not connected to looks up an
entry of a map that is not there; programs are taken not to do that.

### OverlappingCalls

| Variable | Code |
|---|---|
| `proc` | the process a thread makes its calls for |
| `at` | the step a thread, or the main program (`Timer`), is about to make |
| `mutex` | `globalMutex`, the mutex of each `KernelProcess`, and `mutex` of the driver |
| `call`, `frame`, `word`, `byte` | locals: the page, whether the instruction stores, whether it faulted; the frame an actor is at; the rights a setter read and will write back; the byte of the bitmap it read |
| `left` | bound: the calls a thread still makes |
| `free`, `holder` | free bit and pointer of each `FrameTableEntry` |
| `flags`, `frameNum`, `cluster` | of each `Pmt1Entry` |
| `bits` | the bitmap, one byte of it |
| `crash` | how the program ended: a null entry was followed, an assertion of the driver failed, or a thread of the driver threw, after a failed transfer or for another reason |
| `raced` | history: which tables overlapping calls, or an eviction that failed, may have spoiled |
| `settled` | history: `flags` and `frameNum` when the driver's mutex was taken |

An instruction is `SystemTest::doInstruction`: `access` (`EnterAccess` to
`WriteReferenced`), on refusal `pageFault` (`EnterFault` to `Read`) and `access`
again, then `getPhysicalAddress` (`EnterAddress`, `Translate`) and the load or store
(`Use`). `Guarded` says whether the driver's mutex is held over it, as the driver
does. `Delete` to `WriteUnused` is `deleteSegment`, `Create` to `CreatePage`
`createSegment`, `StartJob` to `Poll` the main program.

Any transfer of `pageFault` may fail. `WriteBackFails` leaves the victim unloaded and its
frame taken, and the call returns an error (`GiveUp`); `ReadFails` leaves the page loaded
with whatever the frame holds, and returns an error. With the driver such an error is the
end: `doInstruction` returns it (`SystemTest.cpp:26` and `46`) and `ProcessTest::run`
throws (`ProcessTest.cpp:159`), which nobody catches. The model ends the program in the
step that fails (`crash` is then `"transfer"`). What it leaves out is what other threads
may still do between the return of `doInstruction`, which lets go of the driver's mutex, and
the end the throw makes of everything; so `NeverRaces`, `DriverNeverFails` and
`InstructionsAtomic` speak of the driver up to the first transfer that fails.
Without the driver a thread goes on with its next call.

What takes the kernel's mutex only around one read or write (`getFrameTable`,
`getBitmap`, `loadPage`, ...) is one step that needs the mutex free (`Unlocked`).
What reads a word and writes it back is two steps where another call writes other
bits of that word: `setReferenced`, `setDirty`, `setUnloaded`,
`setInPhysicalMemory`, `setUnused`, `shiftReferencedBits` and `setBit`. A setter that
ends after another one undoes it.

Every segment is one page and the bitmap one byte, so that every two bits share one.
The ageing counter, the bitmap's hint and contents are left out: any frame may be the
victim and any clear bit the one handed out, which adds behaviours and takes none
away.

`Seen` is what can be told from outside the driver's mutex: the tables as they were
when it was taken while a thread holds it, and as they are otherwise. The refinement
mapping reads `place` and `dirty` of `DemandPaging` from it.

### Cloning

| Variable | Code |
|---|---|
| `parent` | the process that is cloned: its segments (where, how long, private or leading to which shared segment, under which name `sharedSegmentsNameMap` has it), tables, dirty pages |
| `paging`, `disk` | of its pages: whether loaded, how far a fault of another process has come with evicting them, and what their clusters hold |
| `size` | pages of each shared segment, 0 when `sharedSegmentsMap` has none of the name |
| `slabs` | `freeSlabsCount` |
| `at`, `page`, `todo` | the step; `i` and `j` as one number; pages of the segment still to copy |
| `tables`, `entries`, `copies`, `connected` | of the clone: page tables, entries, contents of clusters, connections |
| `stray` | what was written to cluster 0, which entries not in use name |
| `crash`, `happened` | how the kernel failed; history: slabs ran short, a transfer failed, a fault overtook the copy |

`SkipTable` to `WalkOffTable` are the two loops: only the outer one asks whether there
is a table. `MeetPrivate` and `SetUp` are `allocateSegment`, whose result `clone` does
not look at, split where the count of slabs is checked and used. `LookAtPage` takes
the address of a frame or the number of a cluster, `CopyFrame` and `CopyCluster` use it
after the kernel's mutex was let go. `MeetShared` and `Connect` are
`createSharedSegmentUnlocked`; `NoName` is an entry for which `sharedSegmentsNameMap` has no
name, `ConnectRefused` one it is refused for, such as a page that is not a segment's first
but has the name of one that began there once. `Others` is everybody else: a fault that
takes the frame of one of the pages, in three steps, and any call that takes a slab.

## Runs

| Run | Instance | Shows |
|---|---|---|
| `cluster_bitmap` | 8 clusters, 3 bits to a byte | types; `HintSound`: the hint never passes a free cluster; `FirstFitSpec`: refinement of `ClusterAllocator` |
| `vm_mishaps` | 2 processes, 2 tables of 1 page, 1 frame, 3 clusters, 5 slabs, all mishaps | `PageIsolation`, `FramesAccountedFor`, `ClusterOwnership`, `SegmentsTile`, `SlabsConserved`, `EvictionNeverDangles` |
| `vm_contents` | 2 processes, 1 table of 2 pages, 2 frames, 4 clusters, no mishaps, contents told apart | `CleanPageMatchesDisk`; `OthersKeepTheirPages`: a step is about the pages of one process; `AddressSpaceSpec`: refinement of `AddressSpace` |
| `vm_swap` | 1 process, 2 pages, 1 frame | expected violation of `DirtyPageSurvivesEviction` |
| `slab_memory` | 5 slabs | types; `FreeListExact` |
| `slab_reuse` | 4 slabs | expected violation of `SlabHasOneTable` |
| `shared_segments` | 2 processes, 2 masters, 1 name, 2 tables of 1 page, 1 frame, 3 clusters, 6 slabs, sizes 1 and 2 | types; `NoDanglingLink`, `DeletedIsGone`, `ClusterOwnership`, `FramesAgree`, `SlabsConserved`, `CrashNeedsMisuse` |
| `shared_delete` | 1 process, 1 master, 2 tables of 1 page | expected violation of `DeletedGivesTablesBack` |
| `shared_disconnect` | 1 process, 1 master, 1 table of 2 pages | expected violation of `DisconnectTakesItsSegment` |
| `driver` | 2 processes with a thread each, 3 pages, 2 frames, 2 instructions per thread, loads and stores, any transfer may fail, driver's mutex held | `NeverRaces`, `DriverNeverFails`, no deadlock; `InstructionsAtomic`: refinement of `DemandPaging`; `AllFinish` under fairness |
| `overlapping_calls` | 2 threads of 2 processes or of 1, 2 pages, 1 frame, 3 clusters, 4 calls of one thread against 1 of the other, any transfer may fail, no driver's mutex | types; `FramesAgreeOrRaced`, `ClustersAgreeOrRaced`, `StoreReachesItsPage`, `CrashNeedsRace`, `GlobalHolderRuns`, `OnlyDeadlock` |
| `cloning` | 2 tables of 3 pages, 1 frame, up to 4 slabs, 2 names; every process of one or two segments of one or two pages; the partition may fail | types; `CloneIsComplete`, `CopiesAreParents`, `CrashNeedsCause`, `WritesOwnClusters`, no deadlock |

Why these sizes. Three bits to a byte and eight clusters give a last byte that is
used in part, a full one before it, and a hint with three values. In `vm_mishaps`
one frame for four pages makes every second fault an eviction across processes;
two tables of one page each make segments cross tables and tables appear one by
one; the address space ends after them, so segments end at its end; three
clusters for four pages, all of them usable, exhaust the swap space; five slabs are enough for
one process with both tables and one with a single table, so that requests fail
for lack of slabs. `vm_contents` has two frames, so that a page can be in memory
while another is evicted, and segments of two pages, so that contents can be
swapped between pages by mistake. The ageing counter has two values there: the
victim is then any page that was not referenced lately, and ties go to the lowest
frame as in the code. Processes are symmetric. Five slabs let a list of returned slabs in an order of
its own run into the ones never handed out, with a table between two of them. In
`shared_segments` two masters let a name be deleted and created again while links
to the first remain; one page to a table makes a connection that is too long run
past the master's tables, and puts page 1 in a table other than 0, so that both
outcomes of a disconnect occur; six slabs are two processes, one master and three
second-level tables, so that creations fail for lack of slabs early and late; one
frame is contended by private and shared pages, and three clusters run out.
`shared_disconnect` has two pages in table 0, so that the segment can start where
the recorded address does not.

In `driver` three pages for two frames make one process's fault evict the other's page
and its own, and a thread's second instruction meet a page that was taken away. In
`overlapping_calls` two actors are all a harmful pair needs, and one frame makes every
second fault an eviction. Four calls against one let a page be faulted in, deleted,
created and accessed again around one call of the other thread, which is what it takes
to have `access` follow a null entry (`GotNull`); three clusters for two pages leave
one to choose. Instructions there are stores, which do all that loads do and set the
dirty bit besides; instances with loads as well (four calls against one, and three
against two: 1.3 and 2.3 million states) were checked too and give the same answers,
but take longer than a run should. Threads are not symmetric as they make different
numbers of calls. In `cloning` three pages to a table allow two segments with a gap
between them in one table, segments that cross the tables, and such that end with a
table or with the address space; four slabs are the clone's first-level table, its two
others and one for a shared segment made anew, and any smaller number is tried as well;
sizes of a shared segment up to one more than the pages connected give every way of
asking for too many or too few.

`cluster_bitmap`, `driver` and `cloning` check that nobody is stuck. The others do not: a
crash ends everything, in `SlabMemory` a list that runs into a written table does, and
in `overlapping_calls` threads do stop each other, which `OnlyDeadlock` describes.

All properties but one are safety properties. `AllFinish`, that every instruction ends
and the main program with them, needs that threads run. `FairSpec` has weak fairness
for the main program's step and strong fairness for each thread's. A mutex here is a
`std::mutex`, which somebody gets when it is free; what could keep a thread out for
ever is somebody who takes it again each time. The main program sleeps after each
periodic job with no mutex held (`main.cpp:97`), and only then takes the driver's,
and the other threads make finitely many calls, so nobody is kept out for ever.
`MaxCalls` stands for the number of instructions a process of the driver has left. A
transfer that fails ends the program, which is the one other way `AllFinish` allows.

### Findings

`vm_swap`: a page is stored to, another page is faulted into its frame, and the
cluster of the first one does not hold what the frame held
(`kernelsystem.cpp:213`). `AddressSpace` therefore lets a page that holds a store
lose its content once (`Lose`), and shows that nothing else is ever lost: the
pages whose content may change behind the program's back are exactly those with
a store since they were brought in.

`slab_reuse`: `Slab::getObject` writes a null link after the object it returns
(`slab.h:30`), which is the first word of the next slab. If that is a free slab
that was returned before, its link is lost; the kernel takes the list to go on in
the slab right after, which may be in use, and hands it out again. If it is a
table in use, its first entry is zeroed in part.

`shared_delete`: only the first-level table of a deleted segment is returned
(`kernelsystem.cpp:357`). That its second-level tables stay is also why no link
dangles (`NoDanglingLink`).

`shared_disconnect`: `createSharedSegment` records the address after it shifted it
down to a table number (`kernel_process.cpp:365`). `disconnectSharedSegment` later
uses that number as an address: an error in all tables but the first, page 0 in
the first, whatever is there.

What else the checks say about the code, in the words of the invariants that had to be
written so that they hold:

- Calls of two processes spoil tables in these pairs and in no other
  (`HarmfulToFrames`, `HarmfulToClusters`): a fault with another's fault, access or
  delete, a delete with the periodic job, and, for clusters, a delete with another's
  delete or create. A fault that reads the victim's rights before its owner deletes the
  page writes the used bit back, and a page without a cluster of its own is in use. A
  fault and a create do no harm to each other, unless the frames were spoiled before:
  then the fault may write the flags of the very page that is created.
- An eviction whose write fails spoils the frames as an overlap does, with nobody else
  there: the frame stays taken by a page that says it is in none. A read that fails does
  not: frame table and page tables agree all the same, though the frame holds something
  else than the page. `CrashNeedsRace` says that no call crashes for it.
- Two threads of one process stop each other for good: one in `access` holds the
  kernel's mutex and waits for the process's, the other the other way round. There is
  no other way to be stuck (`OnlyDeadlock`). With a thread for each process nobody is
  stuck (`GlobalHolderRuns`). A fault that locked the process whose page it
  evicts, which would cure the harm above, would break that: it is the mutant of
  `GlobalHolderRuns`.
- A call may change what a process has in frames and clusters without being about its
  pages after a failed load (frame 0 and cluster 0 go when its segment is deleted), and
  in one more way, which is why `OthersKeepTheirPages` spares it: an eviction's write
  fails, so the frame keeps naming a page that is not in it; the page's process deletes
  it, and `setUnused` leaves it dirty with cluster number 0 (`pmt1entry.cpp:27-33`); the
  next eviction of that frame writes cluster 0, whosever it is. A page faulted in twice
  leaves such a frame as well.
- The driver is safe from all of it (`NeverRaces`), since its threads delete and create
  nothing, its mutex is held over access, fault and use, and a failed transfer is its end.
  Nothing else ends it early (`DriverNeverFails`): no assertion, no page in no segment.
- `clone` gives a process its segments only when none directly follows another, none
  ends with the address space or with a table after which there is none, and every
  connection still has the segment and the name it was made with (`Ordinary`). Otherwise
  it skips pages, looks into tables that do not exist, connects to another segment, or
  writes pages to cluster 0, which belongs to somebody else. While it copies, a fault of
  another process may give it that process's page, or the cluster from before the
  eviction.
- `SystemTest::doInstruction` hands `expectedValue`, not the value it loaded, to
  `checkValue` (`SystemTest.cpp:35-36`), so the driver does not see the lost store of
  `vm_swap`.
- `README.md` of the repository promises copy-on-write, thrashing prevention and a buddy
  allocator; there is no code of these.

## Proofs

The proofs use the named assumptions of the modules on their constants (counts
are natural numbers, positive where the code divides by them; the null pointer is
no entry) and nothing else. Processes may be infinitely many. `CloningAssumption` also
says what a process that is cloned looks like: its segments lie in the address space and
apart, in tables it has. That is what `haveFreeFromAddress` and `allocateSegment` see to;
`SegmentsTileAlways` proves it of `VirtualMemory`.

`ClusterBitmapProofs`: `TypeCorrect`; `HintIsSound`, from the inductive invariant
of types and `HintSound`; `ImplementsFirstFit`, for which the search has to be
shown to stop at the least free usable number: the byte it stops in is the least
from the hint on by the loop, and none before the hint has a free bit by
`HintSound`.

`VirtualMemoryProofs` proves, with every mishap allowed:

- `TypeCorrect`. The one conjunct that takes an argument is that `freeSlabs` never
  underflows: a segment that is set up in part needs no more tables than the check
  counted.
- `SegmentsTileAlways`. `Tiled` is inductive together with the types: new segments
  are set up on unused pages, of size 0, hence outside all others; a page of a
  deleted segment belongs to no other (`SegmentIsWhole`).
- `PageIsolationAlways`. Inductive given `Tiled`: a fault gives a page the frame of
  one other page at most, which the step unloads; a delete frees frames of pages
  that are in use only because segments tile.
- `FramesAccountedForAlways` needs the absence of repeated faults and failed
  evictions; `EvictionNeverDanglesAlways` follows from it and `Tiled`: the owner of
  a taken frame is a page in use, of a process that lives.
- `ClusterOwnershipAlways`. First fit gives the pages of a segment different
  clusters outside the bitmap (`FreshClusters`), and a delete clears the bits of
  pages in use only.
- `CleanPageMatchesDiskAlways` rests on all of them: the frame a fault fills and
  the cluster it saves the victim in belong to no other page.
- `OthersKeepTheirPagesAlways`, an action property. What a call changes is in the pages it
  gives back, in the one whose frame it fills or stores to, or in new ones. Other pages
  are not in that frame (`Isolated`), and the one cluster a fault writes is that of the
  page that loses its frame, since a taken frame's owner is loaded there (`Accounted`)
  and no two pages share a cluster (`Partitioned`). The last two fail after some of the
  mishaps, and what the property says of clusters is void exactly then.

`StepKinds` sorts the disjuncts of `Next` by what they do to the tables, so that
each of these proofs has one step for each kind. `happened` only grows
(`MishapsStay`), so a hypothesis on it after a step holds before it as well.

`ImplementsAddressSpace`, in the same module, is the refinement, for every instance
and as long as nothing fails (`[]NothingFailed`: the history of mishaps stays
empty, which rules out running out of clusters too). It needs all invariants
above. A fault maps to `Lose` of the page that loses its frame when that page holds
a store, and to a stutter otherwise: a clean victim is on disk as it was in its
frame, and the page brought in shows in its frame what it showed on disk. A store
changes one page because no other is in its frame; a load of a new segment changes
no other page because its clusters are new. The periodic job and the calls that do
not change pages stutter.

So is `SlabsConservedAlways`. What the sum counts is finite at all times
(`Conserved`), so no bound on the number of processes is assumed.

`SharedProofs`: `NoDanglingLinkAlways`. The invariant (`LInv`) adds to it the types
of what links are read from and that a master that exists, in whatever state,
never loses a table; every call that changes an entry either writes a link to a
master's page whose table is there, or leaves link and target as they were, or
nulls the target (`UnlinkStep`, `SetUnusedStep`, `InstallStep`). Three theorems rest on
it, each with an invariant of its own:

- `TypeCorrect`. `freeSlabs` stays natural because `allocateFromShared`, which takes
  tables as it goes, takes no more than there are slabs (`TakenSuffice`: the pages that
  get a table are an initial part of the segment, so the count at the last of them covers
  all). The deletion of a master frees frames of pages that exist because no segment ends
  beyond its owner's last page (`Fits`), and whoever is recorded as connected finds a
  master under the name (`Named`).
- `DeletedAreGone` (`DeletedIsGone`). A used page of a master lies before the size its
  first page gives, and the master is neither deleted nor still to come (`Reached`);
  `deleteSharedSegment` walks that far, so nothing is left of it. Only a `deleteSegment`
  through a connection sets the size to 0 under pages in use.
- `SlabsConservedAlways`. Besides the finite sum (`Conserved`), a name's master is live
  and has that one name, and a master to come has no tables (`Registered`): a master is
  deleted once, and its slab goes back once. A creation that fails loses every slab that
  was left, which are fewer than a first-level table has entries.

`SharedOwnershipProofs` adds to these invariants that a used entry lies in a table its
owner has (`OwnTables`) and that masters hold no links (`MastersOwn`), and from there on
needs what the histories in the properties rule out.

- `FramesAgreeAlways`. Given `Tiled` (what a process has mapped is tiled by its segments,
  a live master is one segment from page 0), `FramesMatch` is inductive: every call either
  gains pages that are not loaded (`Gains`), loses pages together with their frames
  (`Loses`), or is a fault. A fault installs at the page a link leads to and evicts a page
  through whoever owns it; `deleteSharedSegment` walks the master only, which is enough
  since a link is no page of its own (`UsedPages`). `Tiled` breaks when a process
  disconnects at a private page of table 0 or deletes a connected segment as private,
  which is why the property spares these.
- `ClusterOwnershipAlways`, in the same way from `ClustersMatch`: pages gained have new
  clusters, different from each other, and those lost give theirs back.
- `CrashNeedsMisuseAlways`: the crashes left are a master that could not be made, a
  connection shorter than asked for, and a deletion at an address without a table. The
  invariant is that no link is null (`NoNulls`) and that
  whoever is recorded as connected lives and has a link to the first page of the segment
  (`Joined`). The latter is what makes the deletion of a segment find an entry at every
  record it walks, and it needs the tiles: a new segment never covers a link.

`SlabMemoryProofs`: `TypeCorrect` counts a pair for every table held (`Counted`): free
slabs and tables are all slabs there are, also after a slab was handed out twice.
`FreeListExactAlways`: the property says that there is a bijection from `1 .. freeCount`
to the slabs no table is in, along which each slab links to the next; taking drops its
first element, giving back puts one before it, and both are written down and shown to be
such lists again. The null link written after a new table is written over a null link, or
`overwritten` records it, and a table is written where no free slab is.

`CloningProofs` has four invariants, each proved step by step from the ones before.

- `BaseInv`: types, the parent's segments (`ParentOK`), and what a step of the walk may rely
  on about the segment it is at (`Controlled`). `TypeCorrect`.
- `Allocated`: pages the walk has not come to are unused, and those being copied are the
  clone's own unless their allocation was refused. `WritesOwnClustersAlways`.
- `Copied`: where the page that is being copied is, unless a fault came in between.
  `CopiesAreParentsAlways`.
- `WalkInv`, of ordinary processes: the walk is never inside a segment nor in a table that is
  not there, and up to where it is, the clone is like its parent (`ClonedTo`). It steps over
  the page after a segment, which is harmless exactly as no segment begins there.
  `CrashNeedsCauseAlways` and `CloneIsCompleteAlways`.

`OverlapProofs` is about any number of threads, of any processes, in any calls.

- `TypeCorrect`: every step is taken through, with the words and bytes setters carry.
- `NoCircle` (`GlobalHolderRuns`). The invariant `Holders` says which mutexes an actor
  holds at which step: the kernel's exactly in the steps of `GlobalSteps`, its process's
  in those of `ProcSteps`, and nobody else's. Whoever holds the kernel's mutex and wants
  a process's is in `access`; that mutex is held by a thread of the same process, hence,
  when every process has one thread, by nobody.
- `DeadlocksAreAccesses` (`OnlyDeadlock`), with any number of threads to a process. It takes
  `Holders` and `DriverHeld`: the driver's mutex is with a thread in an instruction or
  with nobody. When everybody waits, so does the main program, for the kernel's mutex or
  for the driver's. The thread that has the driver's waits for the kernel's, or for its
  process's, whose holder can only be waiting for the kernel's (`ProcHolderWaits`); so
  somebody has the kernel's. It is not the main program, which waits for nothing
  while it has it, but a thread in `access`, and the holder of the mutex it waits for
  waits for the kernel's in turn (`GlobalHolderWaits`). `SomebodyMoves` follows: with one
  thread for each process these two would be one.
- `FramesAgreeAlways`, `ClustersAgreeAlways`, `StoreReachesItsPageAlways` and
  `CrashNeedsRaceAlways` follow from `RaceInv`, which is about programs whose processes
  have one thread each, with the driver's mutex or without it. `raced` records every
  harmful overlap and failed eviction there was (`Recorded`), so as long as it lists none,
  calls keep apart as the table of harmful overlaps says (`FramesApart`, `ClustersApart`);
  what has to be shown is that all other overlaps, and reads that fail, do no harm, step by
  step.
  - Frames (`FrameInv`): frame table and page tables agree but for the page a fault brings
    in and the one a delete has taken the frame of (`Settled`), and threads may rely on
    what they found (`Sees`, `Finds`): the setter of a flag on the flags it read, a fault
    on its victim, an access on its page staying where it is. A create may overlap all
    of these, since its page is in no frame. A failed transfer ends the driver's program in
    the middle of a fault, where only `Failed` is left of this: one thread is gone, so the
    calls are not all over, and no other is in an access.
  - Clusters (`ClusterInv`): what setters write over the used bit is what it was, the page
    a create fills is none that a fault evicts, the bits read are the bits there are
    (`UsedKnown`), and the clusters of pages that hold one are different and are the bits
    (`Allotted`). A create finds a clear bit as there are clusters for all pages
    (`ClusterLeft`). That a fault evicts no page that is being created needs the frames
    to agree, which is why `raced` counts that overlap once the frames were spoiled.
  - Crashes (`CrashInv`): with the frames in order no entry is missing and every victim has
    an owner. `CrashNeedsRaceAlways` assumes `~Guarded`: the assertions of the driver end
    a program as well, and `NeverFailing` is about those.

  No overlap in the tables is there without need: `overlapping_calls` fails when any one of
  them is taken out. Two faults that overlap were in the table for clusters until the
  proof did without them.

`DriverProofs` assumes `Driver`: the driver's mutex is used and threads make instructions
only, and lets any transfer fail. `DriverInv` is inductive: `OneAtATime` (who is in an
instruction holds the mutex), hence no harmful calls overlap, and, as long as no transfer
has failed (`SoundTables`), `Tables`, which says what frame table and page tables
look like in the middle of an instruction: they agree but for the one frame a fault is
moving a page to (`Tidy`), and `Knows` what the thread has found out and may rely on, such
as that all frames before the one it looks at are taken, that the victim is loaded, and
that the flags it carries are still those of the entry. The periodic job does not take
the mutex; it keeps `Tables` since it writes back a free bit nobody else writes then
(`TimerKnows`). `NoRaces` follows, and `NeverFailing`, since with `Tables` every step but
the two that fail a transfer (`Breaking`) keeps `crash` at `"none"`. So does `NeverStuck`:
the two threads that `OnlyDeadlock` speaks of would both be in an instruction, however
many threads a process has.

`Atomicity`, in the same module, is the refinement of `DemandPaging`. `AtomicInv` compares the
tables with what they were when the mutex was taken: nothing has changed before the
fault writes (`Before`), then the page is moving to a frame that was empty, or one that
some page leaves when none was (`Moving`), and at the end a fault has moved exactly that
page, or an access has made exactly that page dirty (`Stored`). Every step but the last
leaves what is seen as it was (`HiddenStep`); the last is `Move`, `Store` or, for a load
of a page in a frame, nothing (`LastStep`).

Model-checked only: what the code breaks (the four findings), and `AllFinish`, a liveness
property. Nearly all of `OthersKeepTheirPages` that concerns mishaps is in the proof
alone, as its run has none: with every mishap of `vm_mishaps` and contents told apart
there are too many states. Instances with failing evictions, failing reads and repeated
faults, and segments of one page (735,119 states), were checked too.

## Not modelled

- Calls on shared segments that overlap with others: two processes that create one
  name, `deleteSharedSegment` against a fault of a connected process. `SharedSegments`
  has them as single steps.
- Process ids and the map of processes: `createProcess` hands out new ids, `clone` takes
  one from its caller and inserts it without the mutex, and nothing erases one.
- In `OverlappingCalls`: segments of several pages, `loadSegment`, the destructor, tables
  that come and go with a race for slabs (`Cloning` has it), and the bitmap's hint, which
  a release that overlaps an allocation may leave past a free cluster. With the driver,
  what other threads do between a failed transfer and the end it brings.
- In `Cloning`: the swap space running out, segments a failed load left half set up
  (both in `VirtualMemory`), and shared segments that change during the call.
- The partition behind `part.h` (no source), the random generators of the driver,
  printing, bytes within a page, the contents the driver backs up, alignment of the
  memory handed to the constructor, and, but for `clone`, segments that end beyond the
  address space (`pmt0.cpp:11`).

What could come next, in this order: overlapping calls on shared segments; the map of
processes; the race for slabs between calls that overlap.
