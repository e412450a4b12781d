-------------------------- MODULE OverlappingCalls --------------------------
(***************************************************************************)
(* Calls that overlap: threads in access, pageFault, getPhysicalAddress,   *)
(* createSegment and deleteSegment, and the main program in periodicJob,   *)
(* step by step between one shared read or write and the next              *)
(* (kernel_process.cpp, kernelsystem.cpp), with the driver's own mutex     *)
(* around an instruction (SystemTest.cpp) or without it.                   *)
(*                                                                         *)
(* Mutexes: one of the driver, one of the kernel ("global"), one of each   *)
(* process.  A call that takes one only around a single read or write is   *)
(* one step that needs the mutex free.  Setters of a flag read the word and*)
(* write it back, two steps where the other bits matter.  A fault may fail *)
(* to write the page it evicts or to read its own: with the driver that is *)
(* the end of the program, without it the call returns an error.           *)
(*                                                                         *)
(* Every segment is one page and the bitmap is one byte; ageing, the       *)
(* bitmap's hint and what pages hold are left out, so any frame may be the *)
(* victim and any cluster whose bit is clear the one handed out.           *)
(***************************************************************************)
EXTENDS Integers, FiniteSets

CONSTANTS
  Procs,       \* processes
  Threads,     \* threads of programs: the driver has one for each process
  Assignments, \* which thread may belong to which process
  Timer,       \* the main program
  Nobody,      \* holder of a mutex that is free
  Pages,       \* pairs: a process and a number, a segment of one page each
  FrameCount,  \* frames of physical memory
  NumClusters, \* clusters of the partition
  NoPage,      \* the null page table entry
  Calls,       \* what threads call: of "instruction", "create", "delete"
  Stores,      \* whether an instruction stores: both, or one way only
  Guarded,     \* the driver's mutex is held over an instruction
  MaxCalls     \* bound: calls each thread makes

Actors == Threads \union {Timer}
Frames == 0 .. FrameCount - 1
Clusters == 0 .. NumClusters - 1
Mutexes == {"driver", "global"} \union Procs

Distinct(c) == \A d, e \in Pages : c[d] = c[e] => d = e

ASSUME OverlappingCallsAssumption ==
  /\ FrameCount \in Nat \ {0}
  /\ NumClusters \in Nat \ {0}
  /\ MaxCalls \in [Threads -> Nat]
  /\ Guarded \in BOOLEAN
  /\ Stores \subseteq BOOLEAN
  /\ Calls \subseteq {"instruction", "create", "delete"}
  /\ Assignments \subseteq [Threads -> Procs]
  /\ \A e \in Pages : e[1] \in Procs
  /\ Timer \notin Threads
  /\ Nobody \notin Actors
  /\ NoPage \notin Pages
  /\ NoPage \notin Frames
  /\ Procs \intersect {"driver", "global"} = {}
  /\ \E c \in [Pages -> Clusters] : Distinct(c)

VARIABLES
  proc,     \* the process of each thread, which never changes
  at,       \* the step an actor is about to make
  mutex,    \* who holds each mutex
  call,     \* page of a thread's call, whether it stores, whether it faulted
  left,     \* calls a thread has left
  frame,    \* local: the frame an actor is at
  word,     \* local: the entry a setter is at and the flags it read there
  byte,     \* local: the bits a setter of the bitmap read
  free,     \* the free bit of each frame
  holder,   \* pmt1entry of each frame
  flags,    \* rights of each page table entry, but for the rights proper
  frameNum, \* frameNum of each page table entry
  cluster,  \* swapSpaceClusterNum of each page table entry
  bits,     \* clusters whose bit is set
  crash,    \* "none", or how the program ended
  raced,    \* history: what was done harm by calls that overlapped or failed
  settled   \* history: flags and frameNum when the driver's mutex was taken

locals == <<call, left, frame, word, byte>>
frameTable == <<free, holder>>
entries == <<flags, frameNum, cluster>>
tables == <<frameTable, entries, bits>>
vars == <<proc, at, mutex, locals, tables, crash, raced, settled>>

NoCall == [page |-> NoPage, store |-> FALSE, again |-> FALSE]
NewFlags == [used |-> TRUE, loaded |-> FALSE, dirty |-> FALSE]
NoWord == [of |-> NoPage, flags |-> NewFlags]

\* The driver creates its segments before it starts its threads.
Init ==
  /\ proc \in Assignments
  /\ at = [a \in Actors |-> IF a = Timer THEN "tick" ELSE "idle"]
  /\ mutex = [m \in Mutexes |-> Nobody]
  /\ call = [t \in Threads |-> NoCall]
  /\ left = MaxCalls
  /\ frame = [a \in Actors |-> 0]
  /\ word = [t \in Threads |-> NoWord]
  /\ byte = [t \in Threads |-> {}]
  /\ free = [f \in Frames |-> TRUE]
  /\ holder = [f \in Frames |-> NoPage]
  /\ flags = [e \in Pages |-> NewFlags]
  /\ frameNum = [e \in Pages |-> 0]
  /\ cluster = CHOOSE c \in [Pages -> Clusters] : Distinct(c)
  /\ bits = {cluster[e] : e \in Pages}
  /\ crash = "none"
  /\ raced = {}
  /\ settled = <<flags, frameNum>>

-----------------------------------------------------------------------------
(* Which calls overlap *)

Accessing == {"valid", "lookup", "dirty", "dirtied", "refer", "referred",
              "referredFree", "address", "translate", "use"}
Faulting  == {"fault", "scan", "evict", "unload", "writeBack", "unwritten", "claim",
              "own", "install", "load", "read"}
Deleting  == {"delete", "unframe", "free", "uncluster", "clear", "cleared", "unuse",
              "unused"}
Creating  == {"create", "seek", "mark", "fill"}
Ageing    == {"age", "aged"}
Between   == {"idle", "access", "refused", "crashed", "tick", "poll", "done"}
Steps == Accessing \union Faulting \union Deleting \union Creating \union Ageing
           \union Between

\* Pairs of calls that may not overlap, and what they may spoil.
HarmfulToFrames == {<<Faulting, Faulting>>, <<Faulting, Accessing>>,
                    <<Faulting, Deleting>>, <<Deleting, Ageing>>}
HarmfulToClusters == {<<Deleting, Deleting>>, <<Deleting, Creating>>,
                      <<Faulting, Deleting>>}

Overlap(pairs) == \E a, b \in Actors, h \in pairs :
                    a # b /\ at[a] \in h[1] /\ at[b] \in h[2]

\* A fault could not write the page it evicted: the frame has lost its page.
Unwritten == \E t \in Threads : at[t] = "unwritten"

Spoiled == (IF Overlap(HarmfulToFrames) \/ Unwritten THEN {"frames"} ELSE {})
             \union (IF Overlap(HarmfulToClusters) THEN {"clusters"} ELSE {})

\* A frame that was spoiled may name a page a fault of another process then writes
\* the flags of while it is created.
SpoiledAfterFrames == IF Overlap({<<Faulting, Creating>>}) THEN {"clusters"} ELSE {}

-----------------------------------------------------------------------------
(* Moving on, mutexes, the flags of an entry *)

Go(a, from, to) ==
  /\ crash = "none"
  /\ at[a] = from
  /\ at' = [at EXCEPT ![a] = to]
  /\ raced' = raced \union Spoiled'
               \union (IF "frames" \in raced THEN SpoiledAfterFrames' ELSE {})
  /\ UNCHANGED proc

Crash(t, from, how) ==
  /\ Go(t, from, "crashed")
  /\ crash' = how
  /\ UNCHANGED <<mutex, locals, tables, settled>>

Unlocked(m) == mutex[m] = Nobody
Lock(a, ms) ==
  /\ \A m \in ms : Unlocked(m)
  /\ mutex' = [m \in Mutexes |-> IF m \in ms THEN a ELSE mutex[m]]
Unlock(ms) == mutex' = [m \in Mutexes |-> IF m \in ms THEN Nobody ELSE mutex[m]]

\* Mutated: the driver does without its mutex.
NoMutex == {}

\* What an instruction of the driver is held over.
DriverMutex == IF Guarded THEN {"driver"} ELSE {}

Page(t) == call[t].page
Used(t) == flags[Page(t)].used
Loaded(t) == flags[Page(t)].loaded

\* A setter reads the flags of entry e ...
ReadFlags(t, e) == word' = [word EXCEPT ![t] = [of |-> e, flags |-> flags[e]]]

\* ... and writes them back.
WriteFlags(t, new) ==
  /\ flags' = [flags EXCEPT ![word[t].of] = new]
  /\ word' = [word EXCEPT ![t] = NoWord]

Begin(t, label, e, store) ==
  /\ left[t] > 0
  /\ e[1] = proc[t]
  /\ Go(t, "idle", label)
  /\ call' = [call EXCEPT ![t] = [page |-> e, store |-> store, again |-> FALSE]]
  /\ left' = [left EXCEPT ![t] = @ - 1]
  /\ UNCHANGED <<frame, word, byte, tables, crash>>

Return(t, from, ms) ==
  /\ Go(t, from, "idle")
  /\ Unlock(ms)
  /\ call' = [call EXCEPT ![t] = NoCall]
  /\ frame' = [frame EXCEPT ![t] = 0]
  /\ UNCHANGED <<left, byte, crash, settled>>

-----------------------------------------------------------------------------
(* An instruction: access, a fault and access again, address, load or store *)

Instruct(t, e, store) ==
  /\ "instruction" \in Calls
  /\ Begin(t, "access", e, store)
  /\ Lock(t, DriverMutex)
  /\ settled' = IF Guarded THEN <<flags, frameNum>> ELSE settled

EnterAccess(t) ==
  /\ Go(t, "access", "valid")
  /\ Lock(t, {"global"})
  /\ UNCHANGED <<locals, tables, crash, settled>>

\* isVirtualAddressValidPublic
CheckValid(t) ==
  /\ \/ Go(t, "valid", "lookup") /\ Used(t) /\ UNCHANGED mutex
     \/ Go(t, "valid", "refused") /\ ~Used(t) /\ Unlock({"global"})
  /\ Unlocked(proc[t])
  /\ UNCHANGED <<locals, tables, crash, settled>>

\* getPmt1Entry, which returns null for a page that is no longer in use.
GotEntry(t) == Unlocked(proc[t]) /\ Used(t)

GotNull(t) ==
  /\ \E label \in {"lookup", "dirty", "refer"} : Crash(t, label, "nullEntry")
  /\ Unlocked(proc[t])
  /\ ~Used(t)

LookUp(t) ==
  /\ \/ /\ Go(t, "lookup", IF call[t].store THEN "dirty" ELSE "refer")
        /\ Loaded(t)
        /\ UNCHANGED mutex
     \/ Go(t, "lookup", "refused") /\ ~Loaded(t) /\ Unlock({"global"})
  /\ GotEntry(t)
  /\ UNCHANGED <<locals, tables, crash, settled>>

SetDirty(t) ==
  /\ Go(t, "dirty", "dirtied")
  /\ GotEntry(t)
  /\ ReadFlags(t, Page(t))
  /\ UNCHANGED <<mutex, call, left, frame, byte, tables, crash, settled>>

WriteDirty(t) ==
  /\ Go(t, "dirtied", "refer")
  /\ WriteFlags(t, [word[t].flags EXCEPT !.dirty = TRUE])
  /\ UNCHANGED <<mutex, call, left, frame, byte, frameTable, frameNum, cluster, bits,
                 crash, settled>>

\* setReferenced writes back the free bit it read.
SetReferenced(t) ==
  /\ \E bit \in BOOLEAN :
       /\ Go(t, "refer", IF bit THEN "referredFree" ELSE "referred")
       /\ GotEntry(t)
       /\ bit = free[frameNum[Page(t)]]
  /\ frame' = [frame EXCEPT ![t] = frameNum[Page(t)]]
  /\ UNCHANGED <<mutex, call, left, word, byte, tables, crash, settled>>

WriteReferenced(t) ==
  /\ \E bit \in BOOLEAN :
       /\ Go(t, IF bit THEN "referredFree" ELSE "referred", "address")
       /\ free' = [free EXCEPT ![frame[t]] = bit]
  /\ Unlock({"global"})
  /\ UNCHANGED <<locals, holder, entries, bits, crash, settled>>

\* getPhysicalAddress
EnterAddress(t) ==
  /\ Go(t, "address", "translate")
  /\ Used(t) /\ Loaded(t)
  /\ Lock(t, {proc[t]})
  /\ frame' = [frame EXCEPT ![t] = frameNum[Page(t)]]
  /\ UNCHANGED <<call, left, word, byte, tables, crash, settled>>

\* It returns null.  The driver asserts that it does not; a program without
\* the driver starts the instruction again.
NoAddress(t) ==
  /\ \/ Guarded /\ Crash(t, "address", "assertion")
     \/ /\ ~Guarded
        /\ Go(t, "address", "access")
        /\ UNCHANGED <<mutex, locals, tables, crash, settled>>
  /\ Unlocked(proc[t])
  /\ ~(Used(t) /\ Loaded(t))

Translate(t) ==
  /\ Go(t, "translate", "use")
  /\ Unlocked("global")
  /\ Unlock({proc[t]})
  /\ UNCHANGED <<locals, tables, crash, settled>>

\* The load or store through the address; only its place matters.
Use(t) == Return(t, "use", DriverMutex) /\ UNCHANGED <<word, tables>>

-----------------------------------------------------------------------------
(* pageFault *)

\* access failed.  The driver asserts that it does not after a fault.
EnterFault(t) ==
  IF Guarded /\ call[t].again THEN Crash(t, "refused", "assertion")
  ELSE /\ Go(t, "refused", "fault")
       /\ Lock(t, {proc[t]})
       /\ UNCHANGED <<locals, tables, crash, settled>>

\* The page is in no segment: a thread of the driver ends with an exception.
FaultRefused(t) ==
  /\ \/ Guarded /\ Crash(t, "fault", "exception")
     \/ ~Guarded /\ Return(t, "fault", {proc[t]}) /\ UNCHANGED <<word, tables>>
  /\ ~Used(t)

StartScan(t) ==
  /\ Go(t, "fault", "scan")
  /\ Used(t)
  /\ Unlocked("global")
  /\ frame' = [frame EXCEPT ![t] = 0]
  /\ UNCHANGED <<mutex, call, left, word, byte, tables, crash, settled>>

\* Mutated: the search is for a frame in use.
InUse(f) == ~free[f]

IsFree(f) == free[f]

\* Mutated: the loop runs one frame too far.
Past(f) == f \notin Frames

IsLast(f) == f + 1 \notin Frames

Scan(t) ==
  LET f == frame[t]
  IN  /\ \/ Go(t, "scan", "claim") /\ IsFree(f) /\ UNCHANGED frame
         \/ /\ Go(t, "scan", "scan")
            /\ ~IsFree(f) /\ ~IsLast(f)
            /\ frame' = [frame EXCEPT ![t] = f + 1]
         \/ /\ Go(t, "scan", "evict")
            /\ ~IsFree(f) /\ IsLast(f)
            /\ \E victim \in Frames : frame' = [frame EXCEPT ![t] = victim]
      /\ UNCHANGED <<mutex, call, left, word, byte, tables, crash, settled>>

Victim(t) == holder[frame[t]]

\* The frame was claimed but does not name its page yet.
NoVictim(t) == Crash(t, "evict", "nullEntry") /\ Victim(t) = NoPage

\* Mutated: the mutex of the process that loses its page is taken first.
EvictUnderBothMutexes(t) ==
  /\ Go(t, "evict", "unload")
  /\ Victim(t) # NoPage
  /\ Lock(t, {Victim(t)[1]} \ {proc[t]})
  /\ ReadFlags(t, Victim(t))
  /\ UNCHANGED <<call, left, frame, byte, tables, crash, settled>>

\* setUnloaded
Evict(t) ==
  /\ Go(t, "evict", "unload")
  /\ Victim(t) # NoPage
  /\ ReadFlags(t, Victim(t))
  /\ UNCHANGED <<mutex, call, left, frame, byte, tables, crash, settled>>

\* Mutated: the page that loses its frame still says it is loaded.
StillLoaded(old) == old

Unloaded(old) == [old EXCEPT !.loaded = FALSE]

WriteUnloaded(t) ==
  /\ Go(t, "unload", "writeBack")
  /\ WriteFlags(t, Unloaded(word[t].flags))
  /\ UNCHANGED <<mutex, call, left, frame, byte, frameTable, frameNum, cluster, bits,
                 crash, settled>>

\* The frame may name another page by now than the one that was unloaded.
WriteBack(t) ==
  /\ Go(t, "writeBack", "claim")
  /\ flags[Victim(t)].dirty => Unlocked("global")
  /\ UNCHANGED <<mutex, locals, tables, crash, settled>>

\* The write fails; the page stays unloaded and the frame taken.  A thread of the
\* driver throws, which ends the program; that others go on until it does is left out.
WriteBackFails(t) ==
  /\ \/ Guarded /\ Crash(t, "writeBack", "transfer")
     \/ /\ ~Guarded
        /\ Go(t, "writeBack", "unwritten")
        /\ UNCHANGED <<mutex, locals, tables, crash, settled>>
  /\ flags[Victim(t)].dirty
  /\ Unlocked("global")

GiveUp(t) == Return(t, "unwritten", {proc[t]}) /\ UNCHANGED <<word, tables>>

Claim(t) ==
  /\ Go(t, "claim", "own")
  /\ free' = [free EXCEPT ![frame[t]] = FALSE]
  /\ UNCHANGED <<mutex, locals, holder, entries, bits, crash, settled>>

Own(t) ==
  /\ Go(t, "own", "install")
  /\ holder' = [holder EXCEPT ![frame[t]] = Page(t)]
  /\ UNCHANGED <<mutex, locals, free, entries, bits, crash, settled>>

\* setInPhysicalMemory
Install(t) ==
  /\ Go(t, "install", "load")
  /\ ReadFlags(t, Page(t))
  /\ UNCHANGED <<mutex, call, left, frame, byte, tables, crash, settled>>

\* Mutated: the page is not marked loaded.
NotLoaded(old) == [old EXCEPT !.dirty = FALSE]

LoadedClean(old) == [old EXCEPT !.loaded = TRUE, !.dirty = FALSE]

WriteLoaded(t) ==
  /\ Go(t, "load", "read")
  /\ WriteFlags(t, LoadedClean(word[t].flags))
  /\ frameNum' = [frameNum EXCEPT ![Page(t)] = frame[t]]
  /\ UNCHANGED <<mutex, call, left, frame, byte, frameTable, cluster, bits, crash,
                 settled>>

\* The page is read and the call is over; the instruction accesses again.
Read(t) ==
  /\ Go(t, "read", "access")
  /\ Unlocked("global")
  /\ Unlock({proc[t]})
  /\ call' = [call EXCEPT ![t] = [@ EXCEPT !.again = TRUE]]
  /\ frame' = [frame EXCEPT ![t] = 0]
  /\ UNCHANGED <<left, word, byte, tables, crash, settled>>

\* The read fails; the page stays loaded.
ReadFails(t) ==
  /\ \/ Guarded /\ Crash(t, "read", "transfer")
     \/ ~Guarded /\ Return(t, "read", {proc[t]}) /\ UNCHANGED <<word, tables>>
  /\ Unlocked("global")

-----------------------------------------------------------------------------
(* deleteSegment *)

Delete(t, e) ==
  /\ "delete" \in Calls
  /\ Begin(t, "delete", e, FALSE)
  /\ Lock(t, {proc[t]})
  /\ UNCHANGED settled

DeleteNothing(t) ==
  /\ Return(t, "delete", {proc[t]})
  /\ ~Used(t)
  /\ UNCHANGED <<word, tables>>

\* Mutated: a page that was stored to does not give its frame back.
LeavesCleanFrame(t) == Loaded(t) /\ ~flags[Page(t)].dirty

LeavesFrame(t) == Loaded(t)

DeletePage(t) ==
  /\ \/ Go(t, "delete", "unframe") /\ LeavesFrame(t)
     \/ Go(t, "delete", "uncluster") /\ ~LeavesFrame(t)
  /\ Used(t)
  /\ UNCHANGED <<mutex, locals, tables, crash, settled>>

\* getFrameTable and getBitmap have let go of the kernel's mutex before the frame
\* is freed and the bit is cleared.
GetTable(t) ==
  /\ Go(t, "unframe", "free") \/ Go(t, "uncluster", "clear")
  /\ Unlocked("global")
  /\ UNCHANGED <<mutex, locals, tables, crash, settled>>

FreeFrame(t) ==
  /\ Go(t, "free", "uncluster")
  /\ free' = [free EXCEPT ![frameNum[Page(t)]] = TRUE]
  /\ UNCHANGED <<mutex, locals, holder, entries, bits, crash, settled>>

ReadByte(t, from, to) ==
  /\ Go(t, from, to)
  /\ byte' = [byte EXCEPT ![t] = bits]
  /\ UNCHANGED <<mutex, call, left, frame, word, tables, crash, settled>>

WriteByte(t, new) ==
  /\ bits' = new
  /\ byte' = [byte EXCEPT ![t] = {}]

ReadBits(t) == ReadByte(t, "clear", "cleared") \/ ReadByte(t, "seek", "mark")

\* Mutated: the entry is zeroed first.
ZeroedCluster(t) == 0

ReleasedCluster(t) == cluster[Page(t)]

FreeCluster(t) ==
  /\ Go(t, "cleared", "unuse")
  /\ WriteByte(t, byte[t] \ {ReleasedCluster(t)})
  /\ UNCHANGED <<mutex, call, left, frame, word, frameTable, entries, crash, settled>>

SetUnused(t) ==
  /\ Go(t, "unuse", "unused")
  /\ ReadFlags(t, Page(t))
  /\ UNCHANGED <<mutex, call, left, frame, byte, tables, crash, settled>>

WriteUnused(t) ==
  /\ Return(t, "unused", {proc[t]})
  /\ WriteFlags(t, [word[t].flags EXCEPT !.used = FALSE])
  /\ frameNum' = [frameNum EXCEPT ![Page(t)] = 0]
  /\ cluster' = [cluster EXCEPT ![Page(t)] = 0]
  /\ UNCHANGED <<frameTable, bits>>

-----------------------------------------------------------------------------
(* createSegment *)

Create(t, e) ==
  /\ "create" \in Calls
  /\ Begin(t, "create", e, FALSE)
  /\ Lock(t, {proc[t]})
  /\ UNCHANGED settled

CreateNothing(t) ==
  /\ Return(t, "create", {proc[t]})
  /\ Used(t)
  /\ UNCHANGED <<word, tables>>

\* allocateClusterForPage, after the count of slabs
StartAllocating(t) ==
  /\ Go(t, "create", "seek")
  /\ ~Used(t)
  /\ Lock(t, {"global"})
  /\ UNCHANGED <<locals, tables, crash, settled>>

\* With no clear bit the number is any.
TakeCluster(t) ==
  /\ Go(t, "mark", "fill")
  /\ \E c \in Clusters :
       /\ c \notin byte[t] \/ Clusters \subseteq byte[t]
       /\ WriteByte(t, byte[t] \union {c})
       /\ cluster' = [cluster EXCEPT ![Page(t)] = c]
  /\ Unlock({"global"})
  /\ UNCHANGED <<call, left, frame, word, frameTable, flags, frameNum, crash, settled>>

\* The frame number is not set; nothing reads it before a fault does.
CreatePage(t) ==
  /\ Return(t, "fill", {proc[t]})
  /\ flags' = [flags EXCEPT ![Page(t)] = NewFlags]
  /\ UNCHANGED <<word, frameTable, frameNum, cluster, bits>>

-----------------------------------------------------------------------------
(* The main program: periodicJob, a pause, and a look whether all are done *)

Finished == \A t \in Threads : at[t] = "idle" /\ left[t] = 0

StartJob ==
  /\ Go(Timer, "tick", "age")
  /\ Lock(Timer, {"global"})
  /\ UNCHANGED <<locals, tables, crash, settled>>

\* Mutated: nobody looks whether the processes are finished.
NeverLook(f) == IF IsLast(f) THEN "tick" ELSE "age"

AfterAgeing(f) == IF IsLast(f) THEN "poll" ELSE "age"

\* Mutated: the kernel's mutex is kept.
AgedAndLocked(f) ==
  /\ frame' = [frame EXCEPT ![Timer] = IF IsLast(f) THEN 0 ELSE f + 1]
  /\ UNCHANGED mutex

Aged(f) ==
  /\ frame' = [frame EXCEPT ![Timer] = IF IsLast(f) THEN 0 ELSE f + 1]
  /\ IF IsLast(f) THEN Unlock({"global"}) ELSE UNCHANGED mutex

SkipFree ==
  /\ Go(Timer, "age", AfterAgeing(frame[Timer]))
  /\ free[frame[Timer]]
  /\ Aged(frame[Timer])
  /\ UNCHANGED <<call, left, word, byte, tables, crash, settled>>

\* shiftReferencedBits reads the word of a frame in use ...
Shift ==
  /\ Go(Timer, "age", "aged")
  /\ ~free[frame[Timer]]
  /\ UNCHANGED <<mutex, locals, tables, crash, settled>>

\* ... and writes it back, the free bit with it.
WriteShifted ==
  /\ Go(Timer, "aged", AfterAgeing(frame[Timer]))
  /\ free' = [free EXCEPT ![frame[Timer]] = FALSE]
  /\ Aged(frame[Timer])
  /\ UNCHANGED <<call, left, word, byte, holder, entries, bits, crash, settled>>

\* The driver's mutex is held for the look.
Poll ==
  /\ Go(Timer, "poll", IF Finished THEN "done" ELSE "tick")
  /\ Unlocked("driver")
  /\ UNCHANGED <<mutex, locals, tables, crash, settled>>

-----------------------------------------------------------------------------
Step(t) ==
  \/ \E e \in Pages : Delete(t, e) \/ Create(t, e)
                        \/ \E store \in Stores : Instruct(t, e, store)
  \/ EnterAccess(t) \/ CheckValid(t) \/ GotNull(t) \/ LookUp(t)
  \/ SetDirty(t) \/ WriteDirty(t) \/ SetReferenced(t) \/ WriteReferenced(t)
  \/ EnterAddress(t) \/ NoAddress(t) \/ Translate(t) \/ Use(t)
  \/ EnterFault(t) \/ FaultRefused(t) \/ StartScan(t) \/ Scan(t)
  \/ NoVictim(t) \/ Evict(t) \/ WriteUnloaded(t) \/ WriteBack(t)
  \/ WriteBackFails(t) \/ GiveUp(t) \/ Claim(t) \/ Own(t) \/ Install(t)
  \/ WriteLoaded(t) \/ Read(t) \/ ReadFails(t)
  \/ DeleteNothing(t) \/ DeletePage(t) \/ GetTable(t) \/ FreeFrame(t)
  \/ ReadBits(t) \/ FreeCluster(t) \/ SetUnused(t) \/ WriteUnused(t)
  \/ CreateNothing(t) \/ StartAllocating(t) \/ TakeCluster(t) \/ CreatePage(t)

Tick == StartJob \/ SkipFree \/ Shift \/ WriteShifted \/ Poll

\* The program has ended, one way or the other.
Ended == (crash # "none" \/ at[Timer] = "done") /\ UNCHANGED vars

Next == Tick \/ Ended \/ \E t \in Threads : Step(t)

Spec == Init /\ [][Next]_vars

\* A thread that can move again and again does: the main program sleeps with no
\* kernel mutex held, and no thread has more than its MaxCalls to make.
FairSpec ==
  /\ Spec
  /\ WF_vars(Tick)
  /\ \A t \in Threads : SF_vars(Step(t))

-----------------------------------------------------------------------------
(* Properties *)

AllFlags == [used : BOOLEAN, loaded : BOOLEAN, dirty : BOOLEAN]

\* What locals and entries call a frame or a cluster is one, and threads never
\* make more calls than they have.
TypeOK ==
  /\ proc \in [Threads -> Procs]
  /\ at \in [Actors -> Steps]
  /\ mutex \in [Mutexes -> Actors \union {Nobody}]
  /\ call \in [Threads -> [page : Pages \union {NoPage}, store : BOOLEAN,
                           again : BOOLEAN]]
  /\ left \in [Threads -> Nat] /\ \A t \in Threads : left[t] <= MaxCalls[t]
  /\ frame \in [Actors -> Frames]
  /\ word \in [Threads -> [of : Pages \union {NoPage}, flags : AllFlags]]
  /\ byte \in [Threads -> SUBSET Clusters]
  /\ free \in [Frames -> BOOLEAN]
  /\ holder \in [Frames -> Pages \union {NoPage}]
  /\ flags \in [Pages -> AllFlags]
  /\ frameNum \in [Pages -> Frames]
  /\ cluster \in [Pages -> Clusters]
  /\ bits \subseteq Clusters
  /\ crash \in {"none", "nullEntry", "assertion", "exception", "transfer"}
  /\ raced \subseteq {"frames", "clusters"}

\* Every process has one thread.
Separate == \A s, t \in Threads : proc[s] = proc[t] => s = t

\* No call is between two of its steps that change a table.
Quiet == \A t \in Threads : at[t] \in {"idle", "access", "refused"}

InFrame(e) == flags[e].used /\ flags[e].loaded

FramesAgree ==
  /\ \A e \in Pages : InFrame(e) => ~free[frameNum[e]] /\ holder[frameNum[e]] = e
  /\ \A f \in Frames : ~free[f] =>
       \E e \in Pages : holder[f] = e /\ InFrame(e) /\ frameNum[e] = f

UsedPages == {e \in Pages : flags[e].used}

ClustersAgree ==
  /\ \A d, e \in UsedPages : cluster[d] = cluster[e] => d = e
  /\ bits = {cluster[e] : e \in UsedPages}

\* Frame table and page tables agree whenever no call is under way, unless a
\* fault overlapped a fault, access or delete of another process, or a delete
\* the periodic job, or a fault could not write the page it evicted; no other
\* overlap does harm to them, and no read that fails.
\* kernel_process.cpp:123, 196-202, 220, 224, 231-233, frametableentry.cpp:21.
FramesAgreeOrRaced == Separate /\ Quiet => FramesAgree \/ "frames" \in raced

\* Used pages have a cluster each and no other bit is set, unless a delete
\* overlapped a delete or create of another process, which clears its bit with no
\* mutex held, or a fault overlapped a delete, which writes the used bit back that
\* it read, or a create after the frames were spoiled
\* (kernel_process.cpp:126 and 220, kernelsystem.cpp:189-201).
ClustersAgreeOrRaced == Separate /\ Quiet => ClustersAgree \/ "clusters" \in raced

\* A load or store goes to the frame its page is in: between the address and its
\* use no fault of another process takes the frame, unless a fault overlapped the
\* access or failed to evict before (SystemTest.cpp:33-35 and 52-54,
\* kernel_process.cpp:262).
StoreReachesItsPage ==
  \A t \in Threads : at[t] = "use" /\ Separate =>
    holder[frame[t]] = Page(t) \/ "frames" \in raced

\* No kernel call follows a null pointer unless harmful calls overlapped or an
\* eviction failed, whatever reads fail (kernelsystem.cpp:156-162,
\* kernel_process.cpp:220 and 235).
CrashNeedsRace == crash # "none" /\ Separate => "frames" \in raced

\* Under the driver's mutex no harmful calls overlap: the periodic job, which does
\* not take it, is none that does harm while nothing is deleted (main.cpp:96), and a
\* failed eviction ends the program (ProcessTest.cpp:159).
NeverRaces == raced = {}

\* The driver's assertions hold: the access after a fault succeeds and its address
\* is found (SystemTest.cpp:31, 50 and 65); and nothing ends the program early but a
\* transfer of a page that failed, which doInstruction passes on as the error that
\* ends the thread with an exception (SystemTest.cpp:26 and 46, ProcessTest.cpp:159).
DriverNeverFails == crash \in {"none", "transfer"}

\* The mutex an actor's next step needs.
Wants(a) ==
  IF a = Timer
    THEN CASE at[a] = "tick" -> {"global"}
           [] at[a] = "poll" -> {"driver"}
           [] OTHER -> {}
  ELSE CASE at[a] \in {"access", "translate", "read", "unframe", "uncluster"} ->
              {"global"}
         [] at[a] \in {"valid", "lookup", "dirty", "refer", "address", "refused"} ->
              {proc[a]}
         [] at[a] = "fault"  -> IF Used(a) THEN {"global"} ELSE {}
         [] at[a] = "create" -> IF Used(a) THEN {} ELSE {"global"}
         [] at[a] = "writeBack" -> IF flags[Victim(a)].dirty THEN {"global"} ELSE {}
         [] OTHER -> {}

\* With one thread for each process whoever holds the kernel's mutex never waits
\* for another mutex, although access takes a process's mutex under it and the
\* other calls the kernel's under the process's (kernelsystem.cpp:134 and 140,
\* kernel_process.cpp:177 and 192).
GlobalHolderRuns ==
  Separate =>
    \A a \in Actors : mutex["global"] = a => \A m \in Wants(a) : Unlocked(m)

Waits(a) == \E m \in Wants(a) : ~Unlocked(m)

\* Everybody who is in a call waits for a mutex, the main program too.
Stuck == \A a \in Actors : at[a] = "idle" \/ Waits(a)

\* Threads stop each other in one way only: two are of one process, one of them in
\* access, which holds the kernel's mutex and waits for the process's, and the other
\* in another call, which holds that and waits for the kernel's
\* (kernelsystem.cpp:140, 156 and 213).
OnlyDeadlock ==
  Stuck =>
    \E a, b \in Threads :
      /\ at[a] \in Accessing /\ mutex["global"] = a
      /\ Wants(a) = {proc[a]} /\ mutex[proc[a]] = b
      /\ proc[b] = proc[a] /\ Wants(b) = {"global"}

\* Every instruction of every process comes to its end and the main program ends,
\* unless a transfer failed and the program ended there (main.cpp:96-113).
AllFinish == <>(at[Timer] = "done" \/ crash = "transfer")

-----------------------------------------------------------------------------
(* What an instruction is, seen from outside the driver's mutex *)

Seen == IF mutex["driver"] \in Threads THEN settled ELSE <<flags, frameNum>>

Place == [e \in Pages |-> IF Seen[1][e].loaded THEN Seen[2][e] ELSE NoPage]
Dirty == {e \in Pages : Seen[1][e].loaded /\ Seen[1][e].dirty}

Abstract == INSTANCE DemandPaging
              WITH Nowhere <- NoPage, place <- Place, dirty <- Dirty

\* Under the driver's mutex instructions are atomic: each finds its page in a
\* frame or moves it into an empty one or, when none is, into one that a page
\* leaves, whatever the periodic job does meanwhile, up to the first transfer that
\* fails, if one does (SystemTest.cpp:20 and 40).
InstructionsAtomic == Abstract!Spec
=============================================================================
