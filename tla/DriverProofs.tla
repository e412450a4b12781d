---------------------------- MODULE DriverProofs ----------------------------
(***************************************************************************)
(* What the driver's mutex gives, for every number of processes, pages,    *)
(* frames and calls: no harmful calls overlap, nothing but a failed        *)
(* transfer ends the program, and instructions are atomic.                 *)
(***************************************************************************)
EXTENDS OverlapProofs

\* The driver makes instructions only, each with its mutex held.
Driver == Guarded /\ Calls \subseteq {"instruction"}

-----------------------------------------------------------------------------
(* One instruction at a time *)

\* A thread of the driver does not go on from a page it could not write.
DriverSteps == (Accessing \union Faulting \union {"idle", "access", "refused", "crashed"})
                 \ {"unwritten"}

OneAtATime ==
  \A t \in Threads :
    at[t] \in DriverSteps /\ (at[t] # "idle" => mutex["driver"] = t)

\* Steps of the driver's threads.
Instructs(t) == \E e \in Pages, store \in Stores : Instruct(t, e, store)
Goes(t) ==
  \/ EnterAccess(t) \/ CheckValid(t) \/ LookUp(t) \/ SetDirty(t) \/ WriteDirty(t)
  \/ SetReferenced(t) \/ WriteReferenced(t) \/ EnterAddress(t) \/ Translate(t)
Faults(t) ==
  \/ EnterFault(t) \/ StartScan(t) \/ Scan(t) \/ Evict(t) \/ WriteUnloaded(t)
  \/ WriteBack(t) \/ Claim(t) \/ Own(t) \/ Install(t) \/ WriteLoaded(t) \/ Read(t)
Fails(t) == GotNull(t) \/ NoAddress(t) \/ FaultRefused(t) \/ NoVictim(t)
Breaks(t) == WriteBackFails(t) \/ ReadFails(t)

LEMMA StepOfDriver ==
  ASSUME Driver, OneAtATime, NEW t \in Threads, Step(t)
  PROVE  Instructs(t) \/ Goes(t) \/ Faults(t) \/ Fails(t) \/ Breaks(t) \/ Use(t)
<1> t \in Actors
  BY DEF Actors
<1>1. at[t] \notin Deleting \union Creating
  BY DEF OneAtATime, DriverSteps, Accessing, Faulting, Deleting, Creating
<1>2. ~ \E e \in Pages : Delete(t, e) \/ Create(t, e)
  BY DEF Driver, Delete, Create
<1>3. ~ (DeleteNothing(t) \/ DeletePage(t) \/ GetTable(t) \/ FreeFrame(t))
  BY <1>1, GoFrom
     DEF DeleteNothing, DeletePage, GetTable, FreeFrame, Return, Deleting
<1>4. ~ (ReadBits(t) \/ FreeCluster(t) \/ SetUnused(t) \/ WriteUnused(t))
  BY <1>1, GoFrom
     DEF ReadBits, ReadByte, FreeCluster, SetUnused, WriteUnused, Return, Deleting,
         Creating
<1>5. ~ (CreateNothing(t) \/ StartAllocating(t) \/ TakeCluster(t) \/ CreatePage(t))
  BY <1>1, GoFrom
     DEF CreateNothing, StartAllocating, TakeCluster, CreatePage, Return, Creating
<1>6. ~GiveUp(t)
  BY GoFrom DEF GiveUp, Return, OneAtATime, DriverSteps
<1> QED
  BY <1>2, <1>3, <1>4, <1>5, <1>6 DEF Step, Instructs, Goes, Faults, Fails, Breaks

\* A transfer that fails is the last step of all.
LEMMA Breaking ==
  ASSUME Driver, NEW t \in Threads, Breaks(t)
  PROVE  \E from \in {"writeBack", "read"} : Crash(t, from, "transfer")
BY DEF Breaks, WriteBackFails, ReadFails, Driver

LEMMA OneAtATimeStep ==
  ASSUME Driver, Types, OneAtATime, NEW t \in Threads, NEW from, NEW to \in DriverSteps,
         Go(t, from, to), from # "idle", to # "idle",
         mutex'["driver"] = mutex["driver"]
  PROVE  OneAtATime'
<1>1. t \in Actors /\ DriverSteps \subseteq ThreadSteps /\ t # Timer
  BY MutexNames DEF Actors, DriverSteps, ThreadSteps
<1>2. /\ at[t] = from /\ at'[t] = to
      /\ \A b \in Actors : b # t => at'[b] = at[b]
  BY <1>1, GoType
<1> QED BY <1>2 DEF OneAtATime, Actors

\* Only an instruction's first and last step touch the driver's mutex.
LEMMA DriverMutexKept ==
  ASSUME Types, NEW t \in Threads, NEW ms \in SUBSET ({"global"} \union Procs)
  PROVE  Lock(t, ms) \/ Unlock(ms) => mutex'["driver"] = mutex["driver"]
BY MutexNames DEF Lock, Unlock

LEMMA OneInstruction ==
  ASSUME Driver, Types, OneAtATime, NEW t \in Threads, Step(t)
  PROVE  OneAtATime'
<1> USE GoFrom
<1> t \in Actors /\ proc[t] \in Procs /\ t # Timer
  BY MutexNames DEF Actors, Types
<1>m. /\ Lock(t, {"global"}) \/ Unlock({"global"}) => mutex'["driver"] = mutex["driver"]
      /\ Lock(t, {proc[t]}) \/ Unlock({proc[t]}) => mutex'["driver"] = mutex["driver"]
  BY DriverMutexKept
<1>c. ASSUME NEW from, NEW how, Crash(t, from, how), from # "idle"
      PROVE  OneAtATime'
  BY <1>c, OneAtATimeStep DEF Crash, DriverSteps
<1>1. CASE Instructs(t)
  <2>1. Go(t, "idle", "access") /\ Lock(t, {"driver"})
    BY <1>1 DEF Instructs, Instruct, Begin, Driver, DriverMutex
  <2>2. mutex["driver"] = Nobody /\ mutex'["driver"] = t
    BY <2>1, MutexNames DEF Lock, Unlocked
  <2>3. \A u \in Threads : at[u] = "idle"
    BY <2>2, MutexNames DEF OneAtATime
  <2>4. at'[t] = "access" /\ \A u \in Threads : u # t => at'[u] = at[u]
    BY <2>1, GoType DEF ThreadSteps, Actors
  <2> QED BY <2>2, <2>3, <2>4 DEF OneAtATime, DriverSteps
<1>2. CASE Goes(t)
  BY <1>2, <1>m, OneAtATimeStep
     DEF Goes, EnterAccess, CheckValid, LookUp, SetDirty, WriteDirty, SetReferenced,
         WriteReferenced, EnterAddress, Translate, DriverSteps, Accessing
<1>3. CASE Faults(t)
  BY <1>3, <1>m, <1>c, OneAtATimeStep
     DEF Faults, EnterFault, StartScan, Scan, Evict, WriteUnloaded, WriteBack, Claim, Own,
         Install, WriteLoaded, Read, DriverSteps, Faulting
<1>4. CASE Fails(t)
  BY <1>4, <1>c DEF Fails, GotNull, NoAddress, FaultRefused, NoVictim, Driver
<1>5. CASE Use(t)
  <2>1. Go(t, "use", "idle")
    BY <1>5 DEF Use, Return
  <2>2. \A u \in Threads : u # t => at[u] = "idle"
    BY <2>1 DEF OneAtATime
  <2>3. at'[t] = "idle" /\ \A u \in Threads : u # t => at'[u] = at[u]
    BY <2>1, GoType DEF ThreadSteps, Actors
  <2> QED BY <2>2, <2>3 DEF OneAtATime, DriverSteps
<1>6. CASE Breaks(t)
  BY <1>6, <1>c, Breaking
<1> QED BY <1>1, <1>2, <1>3, <1>4, <1>5, <1>6, StepOfDriver

LEMMA OneAtATimeTick ==
  ASSUME Driver, Types, OneAtATime, Tick
  PROVE  OneAtATime'
<1> Timer \in Actors /\ Timer \notin Threads
  BY MutexNames DEF Actors
<1>1. mutex'["driver"] = mutex["driver"]
  BY MutexNames
     DEF Tick, StartJob, SkipFree, Shift, WriteShifted, Poll, Aged, Lock, Unlock
<1>2. PICK from, to \in TimerSteps : Go(Timer, from, to)
  BY DEF Tick, StartJob, SkipFree, Shift, WriteShifted, Poll, AfterAgeing, TimerSteps
<1>3. \A t \in Threads : at'[t] = at[t]
  BY <1>2, GoType DEF Actors
<1> QED BY <1>1, <1>3 DEF OneAtATime

\* Two threads are never in calls at once, and the main program does no harm while
\* nothing is deleted.
LEMMA NothingSpoiled ==
  ASSUME Control', OneAtATime'
  PROVE  Spoiled' = {} /\ SpoiledAfterFrames' = {}
<1>1. at'[Timer] \notin Accessing \union Faulting \union Deleting \union Creating
  BY DEF Control, TimerSteps, Accessing, Faulting, Deleting, Creating
<1>2. \A a \in Actors : at'[a] \notin Deleting \union Creating
  BY <1>1 DEF OneAtATime, Actors, DriverSteps, Accessing, Faulting, Deleting, Creating
<1>3. \A a, b \in Actors :
          at'[a] \in Accessing \union Faulting /\ at'[b] \in Accessing \union Faulting
            => a = b
  BY <1>1 DEF OneAtATime, Actors, Accessing, Faulting
<1>4. ~Overlap(HarmfulToFrames)'
  BY <1>2, <1>3 DEF Overlap, HarmfulToFrames
<1>5. ~Overlap(HarmfulToClusters)' /\ ~Overlap({<<Faulting, Creating>>})'
  BY <1>2, <1>3 DEF Overlap, HarmfulToClusters
<1>6. ~Unwritten'
  BY DEF Unwritten, OneAtATime, DriverSteps
<1> QED BY <1>4, <1>5, <1>6 DEF Spoiled, SpoiledAfterFrames

LEMMA NextOneAtATime ==
  ASSUME Driver, Types, OneAtATime, NeverRaces, [Next]_vars
  PROVE  OneAtATime' /\ NeverRaces'
<1>1. OneAtATime'
  BY OneInstruction, OneAtATimeTick DEF Next, Ended, vars, OneAtATime
<1>2. Types'
  BY NextTypes
<1>3. Spoiled' = {} /\ SpoiledAfterFrames' = {}
  BY <1>1, <1>2, NothingSpoiled DEF Types
<1>4. raced' = raced \/ raced' \subseteq raced \union Spoiled' \union SpoiledAfterFrames'
  <2>1. CASE UNCHANGED vars
    BY <2>1 DEF vars
  <2>2. CASE Tick
    BY <2>2 DEF Tick, StartJob, SkipFree, Shift, WriteShifted, Poll, Go
  <2>3. CASE \E t \in Threads : Step(t)
    <3>1. PICK t \in Threads :
            Instructs(t) \/ Goes(t) \/ Faults(t) \/ Fails(t) \/ Breaks(t) \/ Use(t)
      BY <2>3, StepOfDriver
    <3>2. ASSUME NEW from, NEW to, Go(t, from, to)
          PROVE  raced' \subseteq raced \union Spoiled' \union SpoiledAfterFrames'
      BY <3>2 DEF Go
    <3>3. CASE Instructs(t) \/ Use(t)
      BY <3>2, <3>3 DEF Instructs, Instruct, Begin, Use, Return
    <3>4. CASE Goes(t)
      BY <3>2, <3>4
         DEF Goes, EnterAccess, CheckValid, LookUp, SetDirty, WriteDirty, SetReferenced,
             WriteReferenced, EnterAddress, Translate
    <3>5. CASE Faults(t)
      BY <3>2, <3>5
         DEF Faults, EnterFault, StartScan, Scan, Evict, WriteUnloaded, WriteBack, Claim,
             Own, Install, WriteLoaded, Read, Crash
    <3>6. CASE Fails(t)
      BY <3>2, <3>6
         DEF Fails, GotNull, NoAddress, FaultRefused, NoVictim, Crash, Return
    <3>7. CASE Breaks(t)
      BY <3>2, <3>7, Breaking DEF Crash
    <3> QED BY <3>1, <3>3, <3>4, <3>5, <3>6, <3>7
  <2> QED BY <2>1, <2>2, <2>3 DEF Next, Ended
<1> QED BY <1>1, <1>3, <1>4 DEF NeverRaces

-----------------------------------------------------------------------------
(* The tables, step by step through an instruction *)

\* After a frame was taken from its page, and before it has the new one.
Late == {"writeBack", "claim", "own", "install", "load"}

\* The page is in no frame; the page is in one.
Missing == Late \union {"refused", "fault", "scan", "evict", "unload"}
Found == {"dirty", "dirtied", "refer", "referred", "address", "translate", "use", "read"}

Holds(f) ==
  holder[f] \in Pages /\ flags[holder[f]].loaded /\ frameNum[holder[f]] = f

\* Frame table and page tables agree but for the frame a fault is moving a page to.
Tidy ==
  /\ \A e \in Pages : flags[e].used
  /\ \A e \in Pages : flags[e].loaded => ~free[frameNum[e]] /\ holder[frameNum[e]] = e
  /\ \A f \in Frames :
       ~free[f] => Holds(f) \/ \E t \in Threads : at[t] \in Late /\ frame[t] = f

\* What a thread between two steps knows.
Knows(t) ==
  /\ at[t] \in Missing => ~Loaded(t) /\ ~call[t].again
  /\ at[t] \in Found => Loaded(t)
  /\ at[t] \in {"access", "valid", "lookup"} /\ call[t].again => Loaded(t)
  /\ at[t] \in {"dirtied", "load"} => word[t] = [of |-> Page(t), flags |-> flags[Page(t)]]
  /\ at[t] = "scan" => \A f \in Frames : f < frame[t] => ~free[f]
  /\ at[t] \in {"evict", "unload"} => \A f \in Frames : ~free[f]
  /\ at[t] = "unload" =>
       word[t] = [of |-> Victim(t), flags |-> flags[Victim(t)]]
  /\ at[t] \in Late => \A e \in Pages : flags[e].loaded => frameNum[e] # frame[t]
  /\ at[t] = "writeBack" => Victim(t) \in Pages
  /\ at[t] \in {"own", "install", "load"} => ~free[frame[t]]
  /\ at[t] \in {"install", "load"} => Victim(t) = Page(t)
  /\ at[t] \in {"referred", "translate", "use"} => frame[t] = frameNum[Page(t)]
  /\ at[t] \notin {"referredFree", "crashed"}

\* The periodic job ages a frame in use.
TimerKnows == at[Timer] = "aged" => ~free[frame[Timer]]

Tables == Tidy /\ TimerKnows /\ \A t \in Threads : Knows(t)

LEMMA InitTables == Init => Tables
<1> SUFFICES ASSUME Init PROVE Tables
  OBVIOUS
<1>1. \A t \in Threads : at[t] = "idle"
  BY MutexNames DEF Init, Actors
<1>2. at[Timer] = "tick"
  BY DEF Init, Actors
<1>3. \A e \in Pages : flags[e].used /\ ~flags[e].loaded
  BY DEF Init, NewFlags
<1>4. Tidy
  BY <1>3 DEF Init, Tidy
<1>5. \A t \in Threads : Knows(t)
  BY <1>1 DEF Knows, Missing, Late, Found
<1> QED BY <1>2, <1>4, <1>5 DEF Tables, TimerKnows

\* The other threads are in no instruction and know nothing.
LEMMA TablesStep ==
  ASSUME Types, Tables, NEW t \in Threads, NEW from, NEW to \in ThreadSteps,
         Go(t, from, to), \A u \in Threads : u # t => at[u] = "idle",
         Tidy', Knows(t)', \A f \in Frames : ~free[f] => ~free'[f],
         frame'[Timer] = frame[Timer]
  PROVE  Tables'
<1> t \in Actors /\ t # Timer /\ Timer \in Actors
  BY MutexNames DEF Actors
<1>1. /\ at[t] = from
      /\ \A b \in Actors : b # t => at'[b] = at[b]
  BY GoType
<1>2. \A u \in Threads : u # t => at'[u] = "idle"
  BY <1>1 DEF Actors
<1>3. \A u \in Threads : u # t => Knows(u)'
  BY <1>2 DEF Knows, Missing, Late, Found
<1>4. frame[Timer] \in Frames
  BY DEF Types, Data, LocalTypes
<1>5. TimerKnows'
  BY <1>1, <1>4 DEF Tables, TimerKnows
<1> QED BY <1>3, <1>5 DEF Tables

\* A step that changes no table.
LEMMA TablesKept ==
  ASSUME Types, Tables, NEW t \in Threads, NEW from, NEW to \in ThreadSteps,
         Go(t, from, to), \A u \in Threads : u # t => at[u] = "idle",
         UNCHANGED tables, from \in Late => to \in Late /\ frame'[t] = frame[t],
         frame'[Timer] = frame[Timer], Knows(t)'
  PROVE  Tables'
<1> t \in Actors /\ t # Timer
  BY MutexNames DEF Actors
<1>1. at[t] = from /\ at'[t] = to
  BY GoType
<1>2. /\ UNCHANGED free /\ UNCHANGED holder /\ UNCHANGED flags /\ UNCHANGED frameNum
  BY DEF tables, frameTable, entries
<1>3. \A u \in Threads : at[u] \in Late => u = t
  BY DEF Late
<1>4. Tidy'
  BY <1>1, <1>2, <1>3 DEF Tables, Tidy, Holds
<1> QED BY <1>2, <1>4, TablesStep

\* In an instruction no other thread is in one, and its page is known and in use.
LEMMA InInstruction ==
  ASSUME Types, OneAtATime, Tables, NEW t \in Threads, at[t] # "idle"
  PROVE  /\ \A u \in Threads : u # t => at[u] = "idle"
         /\ at[t] # "crashed" => Page(t) \in Pages
         /\ at[t] # "crashed" => Used(t)
<1>1. \A u \in Threads : u # t => at[u] = "idle"
  BY DEF OneAtATime
<1>2. at[t] # "crashed" => Page(t) \in Pages
  BY HasPage
<1>3. at[t] # "crashed" => Used(t)
  BY <1>2 DEF Used, Tables, Tidy
<1> QED BY <1>1, <1>2, <1>3

\* Nothing the driver asserts fails and no null pointer is followed.
LEMMA NeverFails ==
  ASSUME Driver, Types, OneAtATime, Tables, NEW t \in Threads
  PROVE  ~Fails(t)
<1> t \in Actors
  BY DEF Actors
<1> USE GoFrom
<1>1. Knows(t)
  BY DEF Tables
<1>2. at[t] \notin {"idle", "crashed"} => Used(t)
  BY InInstruction
<1>3. ~GotNull(t)
  BY <1>2 DEF GotNull, Crash
<1>4. ~NoAddress(t)
  BY <1>1, <1>2 DEF NoAddress, Crash, Knows, Found
<1>5. ~FaultRefused(t)
  BY <1>2 DEF FaultRefused, Crash, Return
<1>6. ~NoVictim(t)
  <2> SUFFICES ASSUME NoVictim(t) PROVE FALSE
    OBVIOUS
  <2>1. at[t] = "evict" /\ Victim(t) = NoPage
    BY DEF NoVictim, Crash
  <2>2. frame[t] \in Frames /\ ~free[frame[t]]
    BY <1>1, <2>1 DEF Knows, Types, Data, LocalTypes
  <2>3. Holds(frame[t])
    BY <2>1, <2>2, InInstruction DEF Tables, Tidy, Late
  <2> QED BY <2>1, <2>3, OverlappingCallsAssumption DEF Holds, Victim
<1> QED BY <1>3, <1>4, <1>5, <1>6 DEF Fails

LEMMA InstructionTables ==
  ASSUME Driver, Types, OneAtATime, Tables, NEW t \in Threads, Step(t), ~Breaks(t)
  PROVE  Tables'
<1> t \in Actors /\ t # Timer /\ Timer \in Actors
  BY MutexNames DEF Actors
<1> USE GoFrom
<1>1. ASSUME at[t] # "idle"
      PROVE  /\ \A u \in Threads : u # t => at[u] = "idle"
             /\ at[t] # "crashed" => Page(t) \in Pages
             /\ at[t] # "crashed" => Used(t)
  BY <1>1, InInstruction
<1>2. Knows(t)
  BY DEF Tables
<1>3. CASE Instructs(t)
  <2>1. PICK e \in Pages, store \in Stores : Instruct(t, e, store)
    BY <1>3 DEF Instructs
  <2>2. Go(t, "idle", "access") /\ Lock(t, {"driver"})
    BY <2>1 DEF Instruct, Begin, Driver, DriverMutex
  <2>3. \A u \in Threads : at[u] = "idle"
    BY <2>2, MutexNames DEF OneAtATime, Lock, Unlocked
  <2>4. at'[t] = "access" /\ ~call'[t].again
    BY <2>1, <2>2, GoType DEF Instruct, Begin, ThreadSteps, Types, Data, LocalTypes
  <2>5. Knows(t)'
    BY <2>4 DEF Knows, Missing, Late, Found
  <2> QED
    BY <2>1, <2>2, <2>3, <2>5, TablesKept DEF Instruct, Begin, Late, ThreadSteps
<1>4. CASE EnterAccess(t)
  <2>1. Go(t, "access", "valid")
    BY <1>4 DEF EnterAccess
  <2>2. at'[t] = "valid"
    BY <2>1, GoType DEF ThreadSteps, Accessing, Faulting
  <2>3. Knows(t)'
    BY <1>1, <1>2, <1>4, <2>1, <2>2
       DEF EnterAccess, Knows, Missing, Late, Found, Loaded, Page, Victim, locals, tables,
           frameTable, entries
  <2> QED
    BY <1>1, <1>4, <2>1, <2>3, TablesKept
       DEF EnterAccess, locals, Late, ThreadSteps, Accessing, Faulting
<1>5. CASE CheckValid(t)
  <2>1. Go(t, "valid", "lookup")
    BY <1>1, <1>5 DEF CheckValid
  <2>2. at'[t] = "lookup"
    BY <2>1, GoType DEF ThreadSteps, Accessing
  <2>3. Knows(t)'
    BY <1>1, <1>2, <1>5, <2>1, <2>2
       DEF CheckValid, Knows, Missing, Late, Found, Loaded, Page, locals, tables, entries
  <2> QED
    BY <1>1, <1>5, <2>1, <2>3, TablesKept
       DEF CheckValid, locals, Late, ThreadSteps, Accessing
<1>6. CASE LookUp(t)
  <2>1. PICK to \in {"dirty", "refer", "refused"} :
          Go(t, "lookup", to) /\ (to = "refused" <=> ~Loaded(t))
    BY <1>6 DEF LookUp
  <2>2. at'[t] = to
    BY <2>1, GoType DEF ThreadSteps, Accessing
  <2>3. Knows(t)'
    BY <1>1, <1>2, <1>6, <2>1, <2>2
       DEF LookUp, Knows, Missing, Late, Found, Loaded, Page, locals, tables, entries
  <2> QED
    BY <1>1, <1>6, <2>1, <2>3, TablesKept
       DEF LookUp, locals, Late, ThreadSteps, Accessing
<1>7. CASE SetDirty(t)
  <2>1. Go(t, "dirty", "dirtied")
    BY <1>7 DEF SetDirty
  <2>2. at'[t] = "dirtied"
    BY <2>1, GoType DEF ThreadSteps, Accessing
  <2>3. word'[t] = [of |-> Page(t), flags |-> flags[Page(t)]]
    BY <1>7 DEF SetDirty, ReadFlags, Types, Data, LocalTypes
  <2>4. UNCHANGED <<call, flags>>
    BY <1>7 DEF SetDirty, tables, entries
  <2>5. Knows(t)'
    BY <1>1, <1>2, <2>1, <2>2, <2>3, <2>4 DEF Knows, Missing, Late, Found, Loaded, Page
  <2> QED
    BY <1>1, <1>7, <2>1, <2>5, TablesKept DEF SetDirty, Late, ThreadSteps, Accessing
<1>8. CASE WriteDirty(t)
  <2> DEFINE e == Page(t)
  <2>1. Go(t, "dirtied", "refer")
    BY <1>8 DEF WriteDirty
  <2>2. at'[t] = "refer" /\ at[t] \notin Late
    BY <2>1, GoType DEF ThreadSteps, Accessing, Late
  <2>3. word[t].of = e /\ word[t].flags = flags[e]
    BY <1>2, <2>1 DEF Knows
  <2>4. flags' = [flags EXCEPT ![e] = [flags[e] EXCEPT !.dirty = TRUE]]
    BY <1>8, <2>3 DEF WriteDirty, WriteFlags
  <2>5. e \in Pages
    BY <1>1, <2>1
  <2>6. /\ \A d \in Pages : d # e => flags'[d] = flags[d]
        /\ flags'[e].used = flags[e].used /\ flags'[e].loaded = flags[e].loaded
    BY <2>4, <2>5 DEF Types, Data, TableTypes, AllFlags
  <2>7. UNCHANGED <<call, frame, free, holder, frameNum>>
    BY <1>8 DEF WriteDirty, frameTable
  <2>8. \A f \in Frames : ~free[f] => Holds(f)
    BY <1>1, <2>1 DEF Tables, Tidy, Late
  <2> HIDE DEF e
  <2>9. \A d \in Pages : flags'[d].used = flags[d].used /\ flags'[d].loaded = flags[d].loaded
    BY <2>6
  <2>10. Tidy'
    BY <2>7, <2>8, <2>9 DEF Tables, Tidy, Holds
  <2>11. Knows(t)'
    BY <1>1, <1>2, <2>1, <2>2, <2>5, <2>7, <2>9
       DEF Knows, Missing, Late, Found, Loaded, Page, e
  <2> QED
    BY <1>1, <2>1, <2>7, <2>10, <2>11, TablesStep DEF ThreadSteps, Accessing
<1>9. CASE SetReferenced(t)
  <2>1. Go(t, "refer", "referred")
    BY <1>1, <1>2, <1>9 DEF SetReferenced, Knows, Found, Loaded, Tables, Tidy
  <2>2. at'[t] = "referred"
    BY <2>1, GoType DEF ThreadSteps, Accessing
  <2>3. frame'[t] = frameNum[Page(t)] /\ frame'[Timer] = frame[Timer]
    BY <1>9 DEF SetReferenced, Types, Data, LocalTypes
  <2>4. UNCHANGED <<call, flags, frameNum>>
    BY <1>9 DEF SetReferenced, tables, entries
  <2>5. Knows(t)'
    BY <1>1, <1>2, <2>1, <2>2, <2>3, <2>4 DEF Knows, Missing, Late, Found, Loaded, Page
  <2> QED
    BY <1>1, <1>9, <2>1, <2>3, <2>5, TablesKept
       DEF SetReferenced, Late, ThreadSteps, Accessing
<1>10. CASE WriteReferenced(t)
  <2>1. Go(t, "referred", "address") /\ free' = [free EXCEPT ![frame[t]] = FALSE]
    BY <1>2, <1>10 DEF WriteReferenced, Knows
  <2>2. at'[t] = "address"
    BY <2>1, GoType DEF ThreadSteps, Accessing
  <2>3. ~free[frame[t]]
    BY <1>1, <1>2, <2>1 DEF Knows, Found, Loaded, Tables, Tidy
  <2>4. free' = free
    BY <2>1, <2>3 DEF Types, Data, TableTypes
  <2>5. UNCHANGED tables /\ UNCHANGED locals
    BY <1>10, <2>4 DEF WriteReferenced, tables, frameTable
  <2>6. Knows(t)'
    BY <1>1, <1>2, <2>1, <2>2, <2>5
       DEF Knows, Missing, Late, Found, Loaded, Page, locals, tables, entries
  <2> QED
    BY <1>1, <2>1, <2>5, <2>6, TablesKept DEF locals, Late, ThreadSteps, Accessing
<1>11. CASE EnterAddress(t)
  <2>1. Go(t, "address", "translate")
    BY <1>11 DEF EnterAddress
  <2>2. at'[t] = "translate"
    BY <2>1, GoType DEF ThreadSteps, Accessing
  <2>3. UNCHANGED <<call, flags>> /\ frame'[Timer] = frame[Timer]
    BY <1>11 DEF EnterAddress, Types, Data, LocalTypes, tables, entries
  <2>c. frameNum' = frameNum /\ frame'[t] = frameNum[Page(t)]
    BY <1>11 DEF EnterAddress, Types, Data, LocalTypes, tables, entries
  <2>4. Knows(t)'
    BY <1>1, <1>2, <2>1, <2>2, <2>3, <2>c DEF Knows, Missing, Late, Found, Loaded, Page
  <2> QED
    BY <1>1, <1>11, <2>1, <2>3, <2>4, TablesKept
       DEF EnterAddress, Late, ThreadSteps, Accessing
<1>12. CASE Translate(t)
  <2>1. Go(t, "translate", "use")
    BY <1>12 DEF Translate
  <2>2. at'[t] = "use"
    BY <2>1, GoType DEF ThreadSteps, Accessing, Faulting
  <2>3. Knows(t)'
    BY <1>1, <1>2, <1>12, <2>1, <2>2
       DEF Translate, Knows, Missing, Late, Found, Loaded, Page, Victim, locals, tables,
           frameTable, entries
  <2> QED
    BY <1>1, <1>12, <2>1, <2>3, TablesKept
       DEF Translate, locals, Late, ThreadSteps, Accessing, Faulting
<1>13. CASE EnterFault(t)
  <2>1. Go(t, "refused", "fault")
    BY <1>2, <1>13 DEF EnterFault, Knows, Missing, Crash
  <2>2. at'[t] = "fault" /\ UNCHANGED <<locals, tables>>
    BY <1>2, <1>13, <2>1, GoType DEF EnterFault, Knows, Missing, ThreadSteps, Faulting
  <2>3. Knows(t)'
    BY <1>1, <1>2, <2>1, <2>2
       DEF Knows, Missing, Late, Found, Loaded, Page, locals, tables, entries
  <2> QED
    BY <1>1, <2>1, <2>2, <2>3, TablesKept DEF locals, Late, ThreadSteps, Faulting
<1>14. CASE StartScan(t)
  <2>1. Go(t, "fault", "scan")
    BY <1>14 DEF StartScan
  <2>2. at'[t] = "scan"
    BY <2>1, GoType DEF ThreadSteps, Faulting
  <2>3. UNCHANGED <<call, flags, free>> /\ frame'[t] = 0 /\ frame'[Timer] = frame[Timer]
    BY <1>14 DEF StartScan, Types, Data, LocalTypes, tables, frameTable, entries
  <2>4. \A f \in Frames : ~(f < 0)
    BY OverlappingCallsAssumption DEF Frames
  <2>5. Knows(t)'
    BY <1>1, <1>2, <2>1, <2>2, <2>3, <2>4 DEF Knows, Missing, Late, Found, Loaded, Page
  <2> QED
    BY <1>1, <1>14, <2>1, <2>3, <2>5, TablesKept
       DEF StartScan, Late, ThreadSteps, Faulting
<1>15. CASE Scan(t)
  <2>1. at[t] = "scan" /\ frame[t] \in Frames
    BY <1>15 DEF Scan, Types, Data, LocalTypes
  <2>2. UNCHANGED <<call, flags, free, holder, frameNum>> /\ UNCHANGED tables
    BY <1>15 DEF Scan, tables, frameTable, entries
  <2>3. \A f \in Frames : f < frame[t] => ~free[f]
    BY <1>2, <2>1 DEF Knows
  <2>4. CASE Go(t, "scan", "claim") /\ IsFree(frame[t]) /\ UNCHANGED frame
    <3>1. at'[t] = "claim"
      BY <2>4, GoType DEF ThreadSteps, Faulting
    <3>2. \A e \in Pages : flags[e].loaded => frameNum[e] # frame[t]
      BY <2>4 DEF IsFree, Tables, Tidy
    <3>3. Knows(t)'
      BY <1>1, <1>2, <2>1, <2>2, <2>4, <3>1, <3>2
         DEF Knows, Missing, Late, Found, Loaded, Page
    <3> QED
      BY <1>1, <2>2, <2>4, <3>3, TablesKept DEF Late, ThreadSteps, Faulting
  <2>5. CASE /\ Go(t, "scan", "scan") /\ ~IsFree(frame[t])
             /\ frame' = [frame EXCEPT ![t] = frame[t] + 1]
    <3>1. at'[t] = "scan" /\ frame'[t] = frame[t] + 1 /\ frame'[Timer] = frame[Timer]
      BY <2>5, GoType DEF ThreadSteps, Faulting, Types, Data, LocalTypes
    <3>2. \A f \in Frames : f < frame[t] + 1 => f < frame[t] \/ f = frame[t]
      BY <2>1, OverlappingCallsAssumption DEF Frames
    <3>3. \A f \in Frames : f < frame'[t] => ~free'[f]
      BY <2>2, <2>3, <2>5, <3>1, <3>2 DEF IsFree
    <3>4. Knows(t)'
      BY <1>1, <1>2, <2>1, <2>2, <3>1, <3>3 DEF Knows, Missing, Late, Found, Loaded, Page
    <3> QED
      BY <1>1, <2>2, <2>5, <3>1, <3>4, TablesKept DEF Late, ThreadSteps, Faulting
  <2>6. CASE /\ Go(t, "scan", "evict") /\ ~IsFree(frame[t]) /\ IsLast(frame[t])
             /\ \E victim \in Frames : frame' = [frame EXCEPT ![t] = victim]
    <3>1. at'[t] = "evict" /\ frame'[Timer] = frame[Timer]
      BY <2>6, GoType DEF ThreadSteps, Faulting, Types, Data, LocalTypes
    <3>2. \A f \in Frames : f < frame[t] \/ f = frame[t]
      BY <2>1, <2>6, OverlappingCallsAssumption DEF Frames, IsLast
    <3>3. \A f \in Frames : ~free'[f]
      BY <2>2, <2>3, <2>6, <3>2 DEF IsFree
    <3>4. Knows(t)'
      BY <1>1, <1>2, <2>1, <2>2, <3>1, <3>3 DEF Knows, Missing, Late, Found, Loaded, Page
    <3> QED
      BY <1>1, <2>2, <2>6, <3>1, <3>4, TablesKept DEF Late, ThreadSteps, Faulting
  <2> QED BY <1>15, <2>4, <2>5, <2>6 DEF Scan
<1>16. CASE Evict(t)
  <2>1. Go(t, "evict", "unload")
    BY <1>16 DEF Evict
  <2>2. at'[t] = "unload"
    BY <2>1, GoType DEF ThreadSteps, Faulting
  <2>3. word'[t] = [of |-> Victim(t), flags |-> flags[Victim(t)]]
    BY <1>16 DEF Evict, ReadFlags, Types, Data, LocalTypes
  <2>4. UNCHANGED <<call, frame, flags, free, holder>>
    BY <1>16 DEF Evict, tables, frameTable, entries
  <2>5. Knows(t)'
    BY <1>1, <1>2, <2>1, <2>2, <2>3, <2>4
       DEF Knows, Missing, Late, Found, Loaded, Page, Victim
  <2> QED
    BY <1>1, <1>16, <2>1, <2>4, <2>5, TablesKept DEF Evict, Late, ThreadSteps, Faulting
<1>17. CASE WriteUnloaded(t)
  <2> DEFINE v == Victim(t)
  <2>1. Go(t, "unload", "writeBack")
    BY <1>17 DEF WriteUnloaded
  <2>2. at'[t] = "writeBack"
    BY <2>1, GoType DEF ThreadSteps, Faulting
  <2>3. frame[t] \in Frames /\ ~free[frame[t]]
    BY <1>2, <2>1 DEF Knows, Types, Data, LocalTypes
  <2>4. Holds(frame[t])
    BY <1>1, <2>1, <2>3 DEF Tables, Tidy, Late
  <2>5. v \in Pages /\ flags[v].loaded /\ frameNum[v] = frame[t]
    BY <2>4 DEF Holds, Victim
  <2>6. flags' = [flags EXCEPT ![v] = Unloaded(flags[v])]
    <3>1. word[t].of = v /\ word[t].flags = flags[v]
      BY <1>2, <2>1 DEF Knows
    <3> QED BY <1>17, <3>1 DEF WriteUnloaded, WriteFlags
  <2>7. /\ \A e \in Pages : e # v => flags'[e] = flags[e]
        /\ flags'[v].used = flags[v].used /\ ~flags'[v].loaded
    BY <2>5, <2>6 DEF Unloaded, Types, Data, TableTypes, AllFlags
  <2>8. UNCHANGED <<call, frame, free, holder, frameNum>>
    BY <1>17 DEF WriteUnloaded, frameTable
  <2> HIDE DEF v
  <2>9. \A e \in Pages : flags'[e].loaded => frameNum[e] # frame[t]
    BY <2>4, <2>5, <2>7 DEF Tables, Tidy, v, Victim
  <2>10. Tidy'
    <3>1. \A e \in Pages : flags'[e].used
      BY <2>5, <2>7 DEF Tables, Tidy
    <3>2. \A e \in Pages : flags'[e].loaded => ~free'[frameNum'[e]] /\ holder'[frameNum'[e]] = e
      BY <2>5, <2>7, <2>8 DEF Tables, Tidy
    <3>3. \A f \in Frames : ~free[f] => Holds(f)
      BY <1>1, <2>1 DEF Tables, Tidy, Late
    <3>4. \A f \in Frames : ~free[f] /\ f # frame[t] => Holds(f)'
      BY <2>5, <2>7, <2>8, <3>3 DEF Holds
    <3> QED BY <2>2, <2>8, <3>1, <3>2, <3>4 DEF Tidy, Late
  <2>11. Knows(t)'
    BY <1>1, <1>2, <2>1, <2>2, <2>5, <2>7, <2>8, <2>9
       DEF Knows, Missing, Late, Found, Loaded, Page, Victim, v
  <2> QED
    BY <1>1, <2>1, <2>8, <2>10, <2>11, TablesStep DEF ThreadSteps, Faulting
<1>18. CASE WriteBack(t)
  <2>1. Go(t, "writeBack", "claim")
    BY <1>18 DEF WriteBack
  <2>2. at'[t] = "claim"
    BY <2>1, GoType DEF ThreadSteps, Accessing, Faulting
  <2>3. Knows(t)'
    BY <1>1, <1>2, <1>18, <2>1, <2>2
       DEF WriteBack, Knows, Missing, Late, Found, Loaded, Page, Victim, locals, tables,
           frameTable, entries
  <2> QED
    BY <1>1, <1>18, <2>1, <2>3, TablesKept
       DEF WriteBack, locals, Late, ThreadSteps, Accessing, Faulting
<1>19. CASE Claim(t)
  <2>1. Go(t, "claim", "own") /\ free' = [free EXCEPT ![frame[t]] = FALSE]
    BY <1>19 DEF Claim
  <2>2. at'[t] = "own"
    BY <2>1, GoType DEF ThreadSteps, Faulting
  <2>3. UNCHANGED <<call, frame, holder, flags, frameNum>>
    BY <1>19 DEF Claim, locals, entries
  <2>4. /\ frame[t] \in Frames /\ ~free'[frame[t]]
        /\ \A f \in Frames : f # frame[t] => free'[f] = free[f]
    BY <2>1 DEF Types, Data, LocalTypes, TableTypes
  <2>5. \A e \in Pages : flags[e].loaded => frameNum[e] \in Frames /\ frameNum[e] # frame[t]
    BY <1>2, <2>1 DEF Knows, Late, Types, Data, TableTypes
  <2>6. \A f \in Frames : ~free[f] => f = frame[t] \/ Holds(f)
    BY <1>1, <2>1 DEF Tables, Tidy, Late
  <2>7. Tidy'
    BY <2>2, <2>3, <2>4, <2>5, <2>6 DEF Tables, Tidy, Late, Holds
  <2>8. Knows(t)'
    BY <1>1, <1>2, <2>1, <2>2, <2>3, <2>4 DEF Knows, Missing, Late, Found, Loaded, Page
  <2> QED
    BY <1>1, <2>1, <2>3, <2>4, <2>7, <2>8, TablesStep DEF ThreadSteps, Faulting
<1>20. CASE Own(t)
  <2>1. Go(t, "own", "install") /\ holder' = [holder EXCEPT ![frame[t]] = Page(t)]
    BY <1>20 DEF Own
  <2>2. at'[t] = "install"
    BY <2>1, GoType DEF ThreadSteps, Faulting
  <2>3. UNCHANGED <<call, frame, free, flags, frameNum>>
    BY <1>20 DEF Own, locals, entries
  <2>4. /\ frame[t] \in Frames /\ holder'[frame[t]] = Page(t)
        /\ \A f \in Frames : f # frame[t] => holder'[f] = holder[f]
    BY <2>1 DEF Types, Data, LocalTypes, TableTypes
  <2>5. \A e \in Pages : flags[e].loaded => frameNum[e] \in Frames /\ frameNum[e] # frame[t]
    BY <1>2, <2>1 DEF Knows, Late, Types, Data, TableTypes
  <2>6. \A f \in Frames : ~free[f] => f = frame[t] \/ Holds(f)
    BY <1>1, <2>1 DEF Tables, Tidy, Late
  <2>7. Tidy'
    BY <2>2, <2>3, <2>4, <2>5, <2>6 DEF Tables, Tidy, Late, Holds
  <2>8. Knows(t)'
    BY <1>1, <1>2, <2>1, <2>2, <2>3, <2>4
       DEF Knows, Missing, Late, Found, Loaded, Page, Victim
  <2> QED
    BY <1>1, <2>1, <2>3, <2>7, <2>8, TablesStep DEF ThreadSteps, Faulting
<1>21. CASE Install(t)
  <2>1. Go(t, "install", "load")
    BY <1>21 DEF Install
  <2>2. at'[t] = "load"
    BY <2>1, GoType DEF ThreadSteps, Faulting
  <2>3. word'[t] = [of |-> Page(t), flags |-> flags[Page(t)]]
    BY <1>21 DEF Install, ReadFlags, Types, Data, LocalTypes
  <2>4. UNCHANGED <<call, frame, flags, frameNum, free, holder>>
    BY <1>21 DEF Install, tables, frameTable, entries
  <2>5. Knows(t)'
    BY <1>1, <1>2, <2>1, <2>2, <2>3, <2>4
       DEF Knows, Missing, Late, Found, Loaded, Page, Victim
  <2> QED
    BY <1>1, <1>21, <2>1, <2>4, <2>5, TablesKept DEF Install, Late, ThreadSteps, Faulting
<1>22. CASE WriteLoaded(t)
  <2> DEFINE e == Page(t)
  <2>1. Go(t, "load", "read")
    BY <1>22 DEF WriteLoaded
  <2>2. at'[t] = "read"
    BY <2>1, GoType DEF ThreadSteps, Faulting
  <2>3. flags' = [flags EXCEPT ![e] = LoadedClean(flags[e])]
    <3>1. word[t].of = e /\ word[t].flags = flags[e]
      BY <1>2, <2>1 DEF Knows
    <3> QED BY <1>22, <3>1 DEF WriteLoaded, WriteFlags
  <2>4. e \in Pages
    BY <1>1, <2>1
  <2>5. /\ \A d \in Pages : d # e => flags'[d] = flags[d]
        /\ flags'[e].used = flags[e].used /\ flags'[e].loaded
    BY <2>3, <2>4 DEF LoadedClean, Types, Data, TableTypes, AllFlags
  <2>6. /\ \A d \in Pages : d # e => frameNum'[d] = frameNum[d]
        /\ frameNum'[e] = frame[t] /\ frame[t] \in Frames
    BY <1>22, <2>4 DEF WriteLoaded, Types, Data, LocalTypes, TableTypes
  <2>7. UNCHANGED <<call, frame, free, holder>>
    BY <1>22 DEF WriteLoaded, frameTable
  <2>8. ~free[frame[t]] /\ holder[frame[t]] = e
    BY <1>2, <2>1 DEF Knows, Victim
  <2>9. \A f \in Frames : ~free[f] => f = frame[t] \/ Holds(f)
    BY <1>1, <2>1 DEF Tables, Tidy, Late
  <2>10. ~flags[e].loaded
    BY <1>2, <2>1 DEF Knows, Missing, Late, Loaded
  <2> HIDE DEF e
  <2>11. Tidy'
    <3>1. \A d \in Pages : flags'[d].used
      BY <2>4, <2>5 DEF Tables, Tidy
    <3>2. \A d \in Pages : flags'[d].loaded => ~free'[frameNum'[d]] /\ holder'[frameNum'[d]] = d
      BY <2>4, <2>5, <2>6, <2>7, <2>8 DEF Tables, Tidy
    <3>3. \A f \in Frames : ~free[f] => Holds(f)'
      BY <2>4, <2>5, <2>6, <2>7, <2>8, <2>9, <2>10 DEF Holds
    <3> QED BY <2>7, <3>1, <3>2, <3>3 DEF Tidy
  <2>12. Knows(t)'
    BY <1>1, <1>2, <2>1, <2>2, <2>5, <2>7 DEF Knows, Missing, Late, Found, Loaded, Page, e
  <2> QED
    BY <1>1, <2>1, <2>7, <2>11, <2>12, TablesStep DEF ThreadSteps, Faulting
<1>23. CASE Read(t)
  <2>1. Go(t, "read", "access")
    BY <1>23 DEF Read
  <2>2. at'[t] = "access"
    BY <2>1, GoType DEF ThreadSteps
  <2>3. call'[t].page = Page(t) /\ flags' = flags
    BY <1>23 DEF Read, Page, Types, Data, LocalTypes, tables, entries
  <2>4. frame'[Timer] = frame[Timer]
    BY <1>23 DEF Read, Types, Data, LocalTypes
  <2>5. Knows(t)'
    BY <1>1, <1>2, <2>1, <2>2, <2>3 DEF Knows, Missing, Late, Found, Loaded, Page
  <2> QED
    BY <1>1, <1>23, <2>1, <2>4, <2>5, TablesKept DEF Read, Late, ThreadSteps
<1>24. CASE Use(t)
  <2>1. Go(t, "use", "idle")
    BY <1>24 DEF Use, Return
  <2>2. at'[t] = "idle"
    BY <2>1, GoType DEF ThreadSteps
  <2>3. Knows(t)'
    BY <2>2 DEF Knows, Missing, Late, Found
  <2>4. frame'[Timer] = frame[Timer]
    BY <1>24 DEF Use, Return, Types, Data, LocalTypes
  <2> QED
    BY <1>1, <1>24, <2>1, <2>3, <2>4, TablesKept DEF Use, Late, ThreadSteps
<1>f. ~Fails(t)
  BY NeverFails
<1>g. CASE Goes(t)
  BY <1>g, <1>4, <1>5, <1>6, <1>7, <1>8, <1>9, <1>10, <1>11, <1>12 DEF Goes
<1>h. CASE Faults(t)
  BY <1>h, <1>13, <1>14, <1>15, <1>16, <1>17, <1>18, <1>19, <1>20, <1>21, <1>22, <1>23
     DEF Faults
<1> QED BY <1>3, <1>24, <1>f, <1>g, <1>h, StepOfDriver

LEMMA TickTables ==
  ASSUME Types, OneAtATime, Tables, Tick
  PROVE  Tables'
<1> Timer \in Actors /\ Timer \notin Threads
  BY MutexNames DEF Actors
<1>1. PICK from, to \in TimerSteps : Go(Timer, from, to)
  BY DEF Tick, StartJob, SkipFree, Shift, WriteShifted, Poll, AfterAgeing, TimerSteps
<1>2. /\ at[Timer] = from /\ at'[Timer] = to
      /\ \A t \in Threads : at'[t] = at[t]
  BY <1>1, GoType DEF Actors
<1>3. UNCHANGED <<call, word, holder, flags, frameNum>>
  BY DEF Tick, StartJob, SkipFree, Shift, WriteShifted, Poll, locals, tables, frameTable,
         entries
<1>4. \A t \in Threads : frame'[t] = frame[t]
  <2>1. CASE StartJob \/ Shift \/ Poll
    BY <2>1 DEF StartJob, Shift, Poll, locals
  <2>2. CASE SkipFree \/ WriteShifted
    <3>1. PICK f : frame' = [frame EXCEPT ![Timer] = f]
      BY <2>2 DEF SkipFree, WriteShifted, Aged
    <3>2. frame \in [Actors -> Frames] /\ Threads \subseteq Actors
      BY DEF Types, Data, LocalTypes, Actors
    <3> QED BY <3>1, <3>2
  <2> QED BY <2>1, <2>2 DEF Tick
<1>5. free' = free
  <2>1. CASE WriteShifted
    <3>1. at[Timer] = "aged"
      BY <2>1, GoFrom DEF WriteShifted
    <3>2. ~free[frame[Timer]]
      BY <3>1 DEF Tables, TimerKnows
    <3> QED BY <2>1, <3>2 DEF WriteShifted, Types, Data, TableTypes
  <2> QED BY <2>1 DEF Tick, StartJob, SkipFree, Shift, Poll, tables, frameTable
<1>6. TimerKnows'
  <2>1. CASE Shift
    BY <2>1, <1>5 DEF Shift, locals, TimerKnows
  <2>2. CASE ~Shift
    <3>1. to # "aged"
      BY <1>2, <2>2, GoType, GoFrom
         DEF Tick, StartJob, SkipFree, WriteShifted, Poll, AfterAgeing, TimerSteps
    <3> QED BY <1>2, <3>1 DEF TimerKnows
  <2> QED BY <2>1, <2>2
<1>7. Tidy'
  BY <1>2, <1>3, <1>4, <1>5 DEF Tables, Tidy, Holds
<1>8. \A t \in Threads : Knows(t)'
  BY <1>2, <1>3, <1>4, <1>5
     DEF Tables, Knows, Missing, Late, Found, Loaded, Page, Victim
<1> QED BY <1>6, <1>7, <1>8 DEF Tables

\* The tables hold as long as the program runs: a transfer that fails leaves them as
\* they are between two steps of a fault.
SoundTables == crash = "none" => Tables

LEMMA NextTables ==
  ASSUME Driver, Types, OneAtATime, NeverRaces, SoundTables, DriverNeverFails, [Next]_vars
  PROVE  SoundTables' /\ DriverNeverFails'
<1>1. CASE UNCHANGED vars
  <2>1. UNCHANGED <<at, call, frame, word, free, holder, flags, frameNum, crash>>
    BY <1>1 DEF vars, locals, tables, frameTable, entries
  <2> QED
    BY <2>1
       DEF SoundTables, Tables, Tidy, Holds, TimerKnows, Knows, Missing, Late, Found,
           Loaded, Page, Victim, DriverNeverFails
<1>2. CASE Tick
  <2>1. crash = "none" /\ crash' = crash
    BY <1>2 DEF Tick, StartJob, SkipFree, Shift, WriteShifted, Poll, Go
  <2> QED BY <1>2, <2>1, TickTables DEF SoundTables, DriverNeverFails
<1>3. CASE \E t \in Threads : Step(t)
  <2>1. PICK t \in Threads : Step(t)
    BY <1>3
  <2>2. Tables
    BY <2>1, StepGoes DEF SoundTables, Go
  <2>3. Instructs(t) \/ Goes(t) \/ Faults(t) \/ Breaks(t) \/ Use(t)
    BY <2>1, <2>2, NeverFails, StepOfDriver
  <2>4. EnterFault(t) => ~(Guarded /\ call[t].again)
    <3>1. EnterFault(t) => at[t] = "refused"
      BY GoFrom DEF EnterFault, Crash, Actors
    <3> QED BY <2>2, <3>1 DEF Tables, Knows, Missing
  <2>5. CASE Breaks(t)
    <3>1. crash' = "transfer"
      BY <2>5, Breaking DEF Crash
    <3> QED BY <3>1 DEF SoundTables, DriverNeverFails
  <2>6. CASE ~Breaks(t)
    <3>1. crash' = crash
      <4>1. CASE Instructs(t) \/ Use(t)
        BY <4>1 DEF Instructs, Instruct, Begin, Use, Return
      <4>2. CASE Goes(t)
        BY <4>2
           DEF Goes, EnterAccess, CheckValid, LookUp, SetDirty, WriteDirty, SetReferenced,
               WriteReferenced, EnterAddress, Translate
      <4>3. CASE Faults(t)
        BY <2>4, <4>3
           DEF Faults, EnterFault, StartScan, Scan, Evict, WriteUnloaded, WriteBack, Claim,
               Own, Install, WriteLoaded, Read
      <4> QED BY <2>3, <2>6, <4>1, <4>2, <4>3
    <3> QED BY <2>1, <2>2, <2>6, <3>1, InstructionTables DEF SoundTables, DriverNeverFails
  <2> QED BY <2>5, <2>6
<1> QED BY <1>1, <1>2, <1>3 DEF Next, Ended

DriverInv == Types /\ OneAtATime /\ NeverRaces /\ SoundTables /\ DriverNeverFails

LEMMA InitDriver == Init => DriverInv
<1>1. Init => OneAtATime /\ NeverRaces /\ DriverNeverFails
  BY MutexNames DEF Init, OneAtATime, NeverRaces, DriverNeverFails, DriverSteps, Actors
<1> QED BY <1>1, InitTypes, InitTables DEF DriverInv, SoundTables

LEMMA NextDriver ==
  ASSUME Driver, DriverInv, [Next]_vars
  PROVE  DriverInv'
<1>1. Types'
  BY NextTypes DEF DriverInv
<1>2. OneAtATime' /\ NeverRaces'
  BY NextOneAtATime DEF DriverInv
<1>3. SoundTables' /\ DriverNeverFails'
  BY NextTables DEF DriverInv
<1> QED BY <1>1, <1>2, <1>3 DEF DriverInv

THEOREM DriverInvariant ==
  ASSUME Driver
  PROVE  Spec => []DriverInv
<1>1. DriverInv /\ [Next]_vars => DriverInv'
  BY NextDriver
<1> QED BY <1>1, InitDriver, PTL DEF Spec

\* Under the driver's mutex no harmful calls overlap, however many processes there
\* are (SystemTest.cpp:20 and 40, main.cpp:96).
THEOREM NoRaces ==
  ASSUME Driver
  PROVE  Spec => []NeverRaces
BY DriverInvariant, PTL DEF DriverInv

\* The access after a fault succeeds and its address is found, with any number of
\* processes and fewer frames than pages: the fault and the access are one critical
\* section (SystemTest.cpp:31, 50 and 65).  No page is in no segment and no null pointer
\* is followed either, so that what ends a thread with an exception is a failed transfer
\* of a page and nothing else (SystemTest.cpp:26 and 46, ProcessTest.cpp:159).
THEOREM NeverFailing ==
  ASSUME Driver
  PROVE  Spec => []DriverNeverFails
BY DriverInvariant, PTL DEF DriverInv

\* Under the driver's mutex calls and main program never all wait, with any number of
\* threads for a process: the two that could stop each other would both be in an
\* instruction (SystemTest.cpp:20 and kernelsystem.cpp:140).
THEOREM NeverStuck ==
  ASSUME Driver
  PROVE  Spec => []~Stuck
<1>1. DriverInv /\ OnlyDeadlock => ~Stuck
  <2> SUFFICES ASSUME DriverInv, OnlyDeadlock, Stuck PROVE FALSE
    OBVIOUS
  <2>1. PICK a, b \in Threads : /\ at[a] \in Accessing
                               /\ Wants(a) = {proc[a]} /\ Wants(b) = {"global"}
    BY DEF OnlyDeadlock
  <2>2. at[a] # "idle" /\ at[b] # "idle"
    BY <2>1, MutexNames DEF Accessing, Wants
  <2>3. a = b
    BY <2>2 DEF DriverInv, OneAtATime
  <2> QED BY <2>1, <2>3, MutexNames DEF DriverInv, Types
<1> QED BY <1>1, DriverInvariant, DeadlocksAreAccesses, PTL

-----------------------------------------------------------------------------
(* What an instruction has changed since its thread took the driver's mutex *)

Was == settled[1]
WasIn == settled[2]

SettledType == Was \in [Pages -> AllFlags] /\ WasIn \in [Pages -> Frames]

\* Before the tables are changed, or after a fault and before the access that follows.
Before == {"access", "valid", "lookup", "dirty", "dirtied", "refused", "fault", "scan",
           "evict", "unload"}

\* After the access.
Accessed == {"refer", "referred", "address", "translate", "use"}

Leaving(f) == {e \in Pages : Was[e].loaded /\ WasIn[e] = f}

\* The frame was empty, or none was.
Chosen(f) == Leaving(f) = {} \/ \A g \in Frames : Leaving(g) # {}

\* Page e was in no frame, and nothing changed but that pages left frame f for it.
Moving(e, f) ==
  /\ ~Was[e].loaded
  /\ Chosen(f)
  /\ \A d \in Pages : d # e =>
       /\ flags[d] = IF d \in Leaving(f) THEN Unloaded(Was[d]) ELSE Was[d]
       /\ frameNum[d] = WasIn[d]

\* Page e was in a frame, and nothing changed but that it was stored to.
Stored(e, store) ==
  /\ Was[e].loaded
  /\ frameNum = WasIn
  /\ \A d \in Pages : d # e => flags[d] = Was[d]
  /\ flags[e].dirty <=> Was[e].dirty \/ store

Progress(t) ==
  /\ at[t] \in Before /\ ~call[t].again => flags = Was /\ frameNum = WasIn
  /\ at[t] \in Late => Moving(Page(t), frame[t])
  /\ at[t] = "read" \/ (at[t] \in Before /\ call[t].again) =>
       Moving(Page(t), frameNum[Page(t)]) /\ ~flags[Page(t)].dirty
  /\ at[t] \in {"dirty", "dirtied"} => call[t].store
  /\ at[t] \in Accessed /\ call[t].again =>
       Moving(Page(t), frameNum[Page(t)]) /\ (flags[Page(t)].dirty <=> call[t].store)
  /\ at[t] \in Accessed /\ ~call[t].again => Stored(Page(t), call[t].store)

AtomicInv == SettledType /\ \A t \in Threads : Progress(t)

LEMMA InitAtomic == Init => AtomicInv
<1> SUFFICES ASSUME Init PROVE AtomicInv
  OBVIOUS
<1>1. \A t \in Threads : at[t] = "idle"
  BY MutexNames DEF Init, Actors
<1>2. SettledType
  BY InitTypes DEF Init, SettledType, Was, WasIn, Types, Data, TableTypes
<1>3. \A t \in Threads : Progress(t)
  BY <1>1 DEF Progress, Before, Late, Accessed
<1> QED BY <1>2, <1>3 DEF AtomicInv

\* A step of a thread while the others are in no instruction.
LEMMA ProgressStep ==
  ASSUME DriverInv, AtomicInv, NEW t \in Threads, NEW from, NEW to \in ThreadSteps,
         Go(t, from, to), from # "idle", UNCHANGED settled, Progress(t)'
  PROVE  AtomicInv'
<1> t \in Actors /\ t # Timer
  BY MutexNames DEF Actors
<1>1. at[t] = from /\ \A b \in Actors : b # t => at'[b] = at[b]
  BY GoType DEF DriverInv
<1>2. \A u \in Threads : u # t => at'[u] = "idle"
  BY <1>1 DEF DriverInv, OneAtATime, Actors
<1>3. \A u \in Threads : u # t => Progress(u)'
  BY <1>2 DEF Progress, Before, Late, Accessed
<1> QED BY <1>3 DEF AtomicInv, SettledType, Was, WasIn

\* A step that changes no page table and stays on its side of those that do.
LEMMA ProgressKept ==
  ASSUME DriverInv, AtomicInv, NEW t \in Threads, NEW from, NEW to \in ThreadSteps,
         Go(t, from, to), from # "idle", UNCHANGED <<flags, frameNum, settled, call>>,
         to \in Before => from \in Before,
         to \in Late => from \in Late /\ frame'[t] = frame[t],
         to \in Accessed => from \in Accessed,
         to \in {"dirty", "dirtied"} => from = "dirty" \/ call[t].store,
         to # "read"
  PROVE  AtomicInv'
<1> t \in Actors /\ t # Timer
  BY MutexNames DEF Actors
<1>1. at[t] = from /\ at'[t] = to
  BY GoType DEF DriverInv
<1>2. Progress(t)
  BY DEF AtomicInv
<1>3. Progress(t)'
  BY <1>1, <1>2
     DEF Progress, Moving, Stored, Chosen, Leaving, Was, WasIn, Page
<1> QED BY <1>3, ProgressStep

LEMMA InstructionProgress ==
  ASSUME Driver, DriverInv, AtomicInv, NEW t \in Threads, Step(t)
  PROVE  AtomicInv'
<1> t \in Actors /\ t # Timer
  BY MutexNames DEF Actors
<1>t. Tables
  BY StepGoes DEF DriverInv, SoundTables, Go
<1> USE GoFrom
<1>1. ASSUME at[t] \notin {"idle", "crashed"}
      PROVE  Page(t) \in Pages
  BY <1>1, HasPage DEF DriverInv
<1>2. Knows(t) /\ Progress(t) /\ Tidy
  BY <1>t DEF AtomicInv, Tables
<1>3. CASE Instructs(t)
  <2>1. PICK e \in Pages, store \in Stores : Instruct(t, e, store)
    BY <1>3 DEF Instructs
  <2>2. Go(t, "idle", "access") /\ Lock(t, {"driver"})
    BY <2>1 DEF Instruct, Begin, Driver, DriverMutex
  <2>3. \A u \in Threads : at[u] = "idle"
    BY <2>2, MutexNames DEF DriverInv, OneAtATime, Lock, Unlocked
  <2>4. /\ at'[t] = "access"
        /\ \A b \in Actors : b # t => at'[b] = at[b]
    BY <2>2, GoType DEF DriverInv, ThreadSteps
  <2>5. call'[t].again = FALSE
    BY <2>1 DEF Instruct, Begin, DriverInv, Types, Data, LocalTypes
  <2>6. settled' = <<flags, frameNum>> /\ UNCHANGED <<flags, frameNum>>
    BY <2>1 DEF Instruct, Begin, Driver, tables, entries
  <2>7. Progress(t)'
    BY <2>4, <2>5, <2>6 DEF Progress, Before, Late, Accessed, Was, WasIn
  <2>8. \A u \in Threads : u # t => Progress(u)'
    BY <2>3, <2>4 DEF Progress, Before, Late, Accessed, Actors
  <2>9. SettledType'
    BY <2>6 DEF SettledType, Was, WasIn, DriverInv, Types, Data, TableTypes
  <2> QED BY <2>7, <2>8, <2>9 DEF AtomicInv
<1>4. CASE EnterAccess(t) \/ CheckValid(t) \/ SetDirty(t)
  <2>1. ~ \E to : Go(t, "valid", "refused") /\ ~Used(t)
    BY <1>1, <1>2 DEF Tidy, Used
  <2> QED
    BY <1>2, <1>4, <2>1, ProgressKept
       DEF Progress, EnterAccess, CheckValid, SetDirty, locals, tables, entries,
           ThreadSteps, Accessing, Before, Late, Accessed
<1>5. CASE LookUp(t)
  <2>1. UNCHANGED <<flags, frameNum, settled, call>>
    BY <1>5 DEF LookUp, locals, tables, entries
  <2>2. CASE Go(t, "lookup", "refused") \/ (Go(t, "lookup", "dirty") /\ call[t].store)
    BY <2>1, <2>2, ProgressKept DEF ThreadSteps, Accessing, Before, Late, Accessed
  <2>3. CASE Go(t, "lookup", "refer") /\ ~call[t].store /\ Loaded(t)
    <3>1. at'[t] = "refer"
      BY <2>3, GoType DEF DriverInv, ThreadSteps, Accessing
    <3>2. Page(t) \in Pages /\ flags[Page(t)] \in AllFlags
      BY <1>1, <2>3 DEF DriverInv, Types, Data, TableTypes
    <3>3. CASE call[t].again
      <4>1. Moving(Page(t), frameNum[Page(t)]) /\ ~flags[Page(t)].dirty
        BY <1>2, <2>3, <3>3 DEF Progress, Before
      <4>2. Progress(t)'
        BY <2>1, <2>3, <3>1, <3>3, <4>1
           DEF Progress, Before, Late, Accessed, Moving, Chosen, Leaving, Was, WasIn, Page
      <4> QED BY <2>1, <2>3, <4>2, ProgressStep DEF ThreadSteps, Accessing
    <3>4. CASE ~call[t].again
      <4>1. flags = Was /\ frameNum = WasIn
        BY <1>2, <2>3, <3>4 DEF Progress, Before
      <4>2. Stored(Page(t), call[t].store)
        BY <2>3, <4>1 DEF Stored, Loaded
      <4>3. Progress(t)'
        BY <2>1, <2>3, <3>1, <3>4, <4>2
           DEF Progress, Before, Late, Accessed, Stored, Was, WasIn, Page
      <4> QED BY <2>1, <2>3, <4>3, ProgressStep DEF ThreadSteps, Accessing
    <3> QED BY <3>3, <3>4
  <2> QED BY <1>5, <2>2, <2>3 DEF LookUp
<1>6. CASE WriteDirty(t)
  <2> DEFINE e == Page(t)
  <2>1. Go(t, "dirtied", "refer")
    BY <1>6 DEF WriteDirty
  <2>2. at'[t] = "refer"
    BY <2>1, GoType DEF DriverInv, ThreadSteps, Accessing
  <2>3. e \in Pages /\ Loaded(t) /\ call[t].store
    BY <1>1, <1>2, <2>1 DEF Knows, Found, Progress
  <2>4. word[t].of = e /\ word[t].flags = flags[e]
    BY <1>2, <2>1 DEF Knows
  <2>5. flags' = [flags EXCEPT ![e] = [flags[e] EXCEPT !.dirty = TRUE]]
    BY <1>6, <2>4 DEF WriteDirty, WriteFlags
  <2>6. /\ \A d \in Pages : d # e => flags'[d] = flags[d]
        /\ flags'[e].dirty
    BY <2>3, <2>5 DEF DriverInv, Types, Data, TableTypes, AllFlags
  <2>7. UNCHANGED <<frameNum, settled, call>>
    BY <1>6 DEF WriteDirty
  <2> HIDE DEF e
  <2>8. CASE call[t].again
    <3>1. Moving(e, frameNum[e])
      BY <1>2, <2>1, <2>8 DEF Progress, Before, e
    <3>2. Moving(e, frameNum[e])'
      BY <2>6, <2>7, <3>1 DEF Moving, Chosen, Leaving, Was, WasIn, e, Page
    <3>3. Progress(t)'
      BY <2>2, <2>3, <2>6, <2>7, <2>8, <3>2 DEF Progress, Before, Late, Accessed, e, Page
    <3> QED BY <2>1, <2>7, <3>3, ProgressStep DEF ThreadSteps, Accessing
  <2>9. CASE ~call[t].again
    <3>1. flags = Was /\ frameNum = WasIn
      BY <1>2, <2>1, <2>9 DEF Progress, Before
    <3>2. Stored(e, TRUE)'
      BY <2>3, <2>6, <2>7, <3>1 DEF Stored, Was, WasIn, Loaded, e, Page
    <3>3. Progress(t)'
      BY <2>2, <2>3, <2>7, <2>9, <3>2
         DEF Progress, Before, Late, Accessed, Stored, Was, WasIn, e, Page
    <3> QED BY <2>1, <2>7, <3>3, ProgressStep DEF ThreadSteps, Accessing
  <2> QED BY <2>8, <2>9
<1>7. CASE SetReferenced(t) \/ WriteReferenced(t) \/ EnterAddress(t) \/ Translate(t)
  <2>1. UNCHANGED <<flags, frameNum, settled, call>>
    BY <1>7
       DEF SetReferenced, WriteReferenced, EnterAddress, Translate, locals, tables, entries
  <2>2. CASE SetReferenced(t)
    <3>1. PICK bit \in BOOLEAN :
             /\ Go(t, "refer", IF bit THEN "referredFree" ELSE "referred")
             /\ bit = free[frameNum[Page(t)]]
      BY <2>2 DEF SetReferenced
    <3>2. Page(t) \in Pages /\ Loaded(t)
      BY <1>1, <1>2, <3>1 DEF Knows, Found
    <3>3. Go(t, "refer", "referred")
      BY <1>2, <3>1, <3>2 DEF Tidy, Loaded
    <3> QED
      BY <2>1, <3>3, ProgressKept DEF ThreadSteps, Accessing, Before, Late, Accessed
  <2>3. CASE WriteReferenced(t)
    <3>1. PICK from \in {"referred", "referredFree"} : Go(t, from, "address")
      BY <2>3 DEF WriteReferenced
    <3>2. from = "referred"
      BY <1>2, <3>1 DEF Knows
    <3>3. Go(t, "referred", "address")
      BY <3>1, <3>2
    <3> QED
      BY <2>1, <3>3, ProgressKept DEF ThreadSteps, Accessing, Before, Late, Accessed
  <2>4. CASE EnterAddress(t) \/ Translate(t)
    <3>1. Go(t, "address", "translate") \/ Go(t, "translate", "use")
      BY <2>4 DEF EnterAddress, Translate
    <3> QED
      BY <2>1, <3>1, ProgressKept DEF ThreadSteps, Accessing, Before, Late, Accessed
  <2> QED BY <1>7, <2>2, <2>3, <2>4
<1>8. CASE EnterFault(t)
  <2>1. Go(t, "refused", "fault") /\ UNCHANGED <<locals, tables, settled>>
    BY <1>2, <1>8 DEF EnterFault, Knows, Missing, Crash
  <2> QED
    BY <2>1, ProgressKept
       DEF locals, tables, entries, ThreadSteps, Faulting, Before, Late, Accessed
<1>9. CASE StartScan(t) \/ Evict(t)
  BY <1>9, ProgressKept
     DEF StartScan, Evict, tables, entries, ThreadSteps, Faulting, Before, Late, Accessed
<1>10. CASE Scan(t)
  <2>1. UNCHANGED <<flags, frameNum, settled, call>>
    BY <1>10 DEF Scan, tables, entries
  <2>2. CASE Go(t, "scan", "scan") \/ Go(t, "scan", "evict")
    BY <2>1, <2>2, ProgressKept DEF ThreadSteps, Faulting, Before, Late, Accessed
  <2>3. CASE Go(t, "scan", "claim") /\ IsFree(frame[t]) /\ UNCHANGED frame
    <3>1. at'[t] = "claim"
      BY <2>3, GoType DEF DriverInv, ThreadSteps, Faulting
    <3>2. flags = Was /\ frameNum = WasIn /\ ~Loaded(t)
      BY <1>2, <2>3 DEF Progress, Before, Knows, Missing
    <3>3. Leaving(frame[t]) = {}
      BY <1>2, <2>3, <3>2 DEF Leaving, Tidy, IsFree
    <3>4. Moving(Page(t), frame[t])
      BY <3>2, <3>3 DEF Moving, Chosen, Loaded
    <3>5. Progress(t)'
      BY <2>1, <2>3, <3>1, <3>4
         DEF Progress, Before, Late, Accessed, Moving, Chosen, Leaving, Was, WasIn, Page
    <3> QED BY <2>1, <2>3, <3>5, ProgressStep DEF ThreadSteps, Faulting
  <2> QED BY <1>10, <2>2, <2>3 DEF Scan
<1>11. CASE WriteUnloaded(t)
  <2> DEFINE v == Victim(t)
  <2>1. Go(t, "unload", "writeBack")
    BY <1>11 DEF WriteUnloaded
  <2>2. at'[t] = "writeBack"
    BY <2>1, GoType DEF DriverInv, ThreadSteps, Faulting
  <2>3. \A f \in Frames : ~free[f]
    BY <1>2, <2>1 DEF Knows
  <2>4. \A f \in Frames : Holds(f)
    <3>1. \A u \in Threads : at[u] \notin Late
      BY <2>1 DEF DriverInv, OneAtATime, Late
    <3> QED BY <1>2, <2>3, <3>1 DEF Tidy
  <2>5. frame[t] \in Frames
    BY DEF DriverInv, Types, Data, LocalTypes
  <2>6. word[t].of = v /\ word[t].flags = flags[v]
    BY <1>2, <2>1 DEF Knows
  <2>7. flags' = [flags EXCEPT ![v] = Unloaded(flags[v])]
    BY <1>11, <2>6 DEF WriteUnloaded, WriteFlags
  <2>8. flags = Was /\ frameNum = WasIn /\ ~Loaded(t)
    BY <1>2, <2>1 DEF Progress, Before, Knows, Missing
  <2>9. v \in Pages /\ Leaving(frame[t]) = {v}
    BY <1>2, <2>4, <2>5, <2>8 DEF Holds, Victim, Leaving, Tidy
  <2>10. \A g \in Frames : Leaving(g) # {}
    BY <2>4, <2>8 DEF Holds, Leaving
  <2>11. UNCHANGED <<call, frame, frameNum, settled>>
    BY <1>11 DEF WriteUnloaded
  <2>12. \A d \in Pages :
            flags'[d] = IF d \in Leaving(frame[t]) THEN Unloaded(Was[d]) ELSE Was[d]
    BY <2>7, <2>8, <2>9 DEF DriverInv, Types, Data, TableTypes
  <2> HIDE DEF v
  <2>13. Moving(Page(t), frame[t])'
    <3>1. ~Was[Page(t)].loaded
      BY <2>8 DEF Loaded
    <3> QED BY <2>8, <2>10, <2>11, <2>12, <3>1
        DEF Moving, Chosen, Leaving, Was, WasIn, Page
  <2>14. Progress(t)'
    BY <2>2, <2>13 DEF Progress, Before, Late, Accessed
  <2> QED BY <2>1, <2>11, <2>14, ProgressStep DEF ThreadSteps, Faulting
<1>12. CASE WriteBack(t) \/ Claim(t) \/ Own(t) \/ Install(t)
  BY <1>12, ProgressKept
     DEF WriteBack, Claim, Own, Install, locals, tables, entries, ThreadSteps, Faulting,
         Before, Late, Accessed
<1>13. CASE WriteLoaded(t)
  <2> DEFINE e == Page(t)
  <2>1. Go(t, "load", "read")
    BY <1>13 DEF WriteLoaded
  <2>2. at'[t] = "read"
    BY <2>1, GoType DEF DriverInv, ThreadSteps, Faulting
  <2>3. e \in Pages /\ Moving(e, frame[t])
    BY <1>1, <1>2, <2>1 DEF Progress, Late
  <2>4. word[t].of = e /\ word[t].flags = flags[e]
    BY <1>2, <2>1 DEF Knows
  <2>5. flags' = [flags EXCEPT ![e] = LoadedClean(flags[e])]
    BY <1>13, <2>4 DEF WriteLoaded, WriteFlags
  <2>6. /\ \A d \in Pages : d # e => flags'[d] = flags[d]
        /\ ~flags'[e].dirty
    BY <2>3, <2>5 DEF LoadedClean, DriverInv, Types, Data, TableTypes, AllFlags
  <2>7. /\ \A d \in Pages : d # e => frameNum'[d] = frameNum[d]
        /\ frameNum'[e] = frame[t]
    BY <1>13, <2>3 DEF WriteLoaded, DriverInv, Types, Data, TableTypes
  <2>8. UNCHANGED <<call, settled>>
    BY <1>13 DEF WriteLoaded
  <2> HIDE DEF e
  <2>9. Moving(e, frameNum[e])'
    BY <2>3, <2>6, <2>7, <2>8 DEF Moving, Chosen, Leaving, Was, WasIn, e, Page
  <2>10. Progress(t)'
    BY <2>2, <2>6, <2>8, <2>9 DEF Progress, Before, Late, Accessed, e, Page
  <2> QED BY <2>1, <2>8, <2>10, ProgressStep DEF ThreadSteps, Faulting
<1>14. CASE Read(t)
  <2>1. Go(t, "read", "access")
    BY <1>14 DEF Read
  <2>2. at'[t] = "access"
    BY <2>1, GoType DEF DriverInv, ThreadSteps
  <2>3. call'[t].page = Page(t) /\ call'[t].again
    BY <1>14 DEF Read, Page, DriverInv, Types, Data, LocalTypes
  <2>4. UNCHANGED <<flags, frameNum, settled>>
    BY <1>14 DEF Read, tables, entries
  <2>5. Moving(Page(t), frameNum[Page(t)]) /\ ~flags[Page(t)].dirty
    BY <1>2, <2>1 DEF Progress
  <2>6. Progress(t)'
    BY <2>2, <2>3, <2>4, <2>5
       DEF Progress, Before, Late, Accessed, Moving, Chosen, Leaving, Was, WasIn, Page
  <2> QED BY <2>1, <2>4, <2>6, ProgressStep DEF ThreadSteps
<1>15. CASE Use(t)
  <2>1. Go(t, "use", "idle") /\ UNCHANGED settled
    BY <1>15 DEF Use, Return
  <2>2. at'[t] = "idle"
    BY <2>1, GoType DEF DriverInv, ThreadSteps
  <2>3. Progress(t)'
    BY <2>2 DEF Progress, Before, Late, Accessed
  <2> QED BY <2>1, <2>3, ProgressStep DEF ThreadSteps
<1>16. CASE Goes(t)
  BY <1>4, <1>5, <1>6, <1>7, <1>16 DEF Goes
<1>17. CASE Faults(t)
  BY <1>8, <1>9, <1>10, <1>11, <1>12, <1>13, <1>14, <1>17 DEF Faults
<1>18. CASE Breaks(t)
  <2>1. PICK from \in {"writeBack", "read"} : Crash(t, from, "transfer")
    BY <1>18, Breaking
  <2>2. Go(t, from, "crashed") /\ UNCHANGED settled
    BY <2>1 DEF Crash
  <2>3. at'[t] = "crashed"
    BY <2>2, GoType DEF DriverInv, ThreadSteps
  <2>4. Progress(t)'
    BY <2>3 DEF Progress, Before, Late, Accessed
  <2> QED BY <2>2, <2>4, ProgressStep DEF ThreadSteps
<1> QED BY <1>t, <1>3, <1>15, <1>16, <1>17, <1>18, NeverFails, StepOfDriver DEF DriverInv

LEMMA TickProgress ==
  ASSUME DriverInv, AtomicInv, Tick
  PROVE  /\ AtomicInv'
         /\ UNCHANGED <<flags, frameNum, settled>>
         /\ mutex'["driver"] = mutex["driver"]
<1> Timer \in Actors /\ Timer \notin Threads
  BY MutexNames DEF Actors
<1>1. PICK from, to \in TimerSteps : Go(Timer, from, to)
  BY DEF Tick, StartJob, SkipFree, Shift, WriteShifted, Poll, AfterAgeing, TimerSteps
<1>2. \A t \in Threads : at'[t] = at[t]
  BY <1>1, GoType DEF DriverInv, Actors
<1>3. UNCHANGED <<call, flags, frameNum, settled>>
  BY DEF Tick, StartJob, SkipFree, Shift, WriteShifted, Poll, locals, tables, entries
<1>4. \A t \in Threads : frame'[t] = frame[t]
  <2>1. CASE StartJob \/ Shift \/ Poll
    BY <2>1 DEF StartJob, Shift, Poll, locals
  <2>2. CASE SkipFree \/ WriteShifted
    <3>1. PICK f : frame' = [frame EXCEPT ![Timer] = f]
      BY <2>2 DEF SkipFree, WriteShifted, Aged
    <3>2. frame \in [Actors -> Frames] /\ Threads \subseteq Actors
      BY DEF DriverInv, Types, Data, LocalTypes, Actors
    <3> QED BY <3>1, <3>2
  <2> QED BY <2>1, <2>2 DEF Tick
<1>5. mutex'["driver"] = mutex["driver"]
  BY MutexNames
     DEF DriverInv, Types, Tick, StartJob, SkipFree, Shift, WriteShifted, Poll, Aged, Lock,
         Unlock
<1>6. \A t \in Threads : Progress(t)'
  BY <1>2, <1>3, <1>4
     DEF AtomicInv, Progress, Moving, Stored, Chosen, Leaving, Was, WasIn, Page
<1> QED BY <1>3, <1>5, <1>6 DEF AtomicInv, SettledType, Was, WasIn

THEOREM AtomicInvariant ==
  ASSUME Driver
  PROVE  Spec => [](DriverInv /\ AtomicInv)
<1>1. DriverInv /\ AtomicInv /\ [Next]_vars => DriverInv' /\ AtomicInv'
  <2> SUFFICES ASSUME DriverInv, AtomicInv, [Next]_vars PROVE AtomicInv'
    BY NextDriver
  <2>1. CASE UNCHANGED vars
    <3>1. UNCHANGED <<at, call, frame, flags, frameNum, settled>>
      BY <2>1 DEF vars, locals, tables, entries
    <3> QED
      BY <3>1
         DEF AtomicInv, SettledType, Progress, Moving, Stored, Chosen, Leaving, Was, WasIn,
             Page
  <2>2. CASE Tick
    BY <2>2, TickProgress
  <2>3. CASE \E t \in Threads : Step(t)
    BY <2>3, InstructionProgress
  <2> QED BY <2>1, <2>2, <2>3 DEF Next, Ended
<1> QED BY <1>1, InitDriver, InitAtomic, PTL DEF Spec

-----------------------------------------------------------------------------
(* The refinement *)

\* A step that leaves what is seen from outside as it is.
LEMMA SeenKept ==
  ASSUME UNCHANGED Seen
  PROVE  UNCHANGED <<Place, Dirty>>
BY DEF Place, Dirty

\* Every step of an instruction but the last is hidden.
LEMMA HiddenStep ==
  ASSUME Driver, DriverInv, NEW t \in Threads, Step(t), ~Use(t)
  PROVE  UNCHANGED Seen
<1> t \in Actors /\ t # Timer /\ proc[t] \in Procs
  BY MutexNames DEF Actors, DriverInv, Types
<1> USE GoFrom
<1>1. CASE Instructs(t)
  <2>1. Lock(t, {"driver"}) /\ settled' = <<flags, frameNum>>
    BY <1>1 DEF Instructs, Instruct, Begin, Driver, DriverMutex
  <2>2. mutex["driver"] = Nobody /\ mutex'["driver"] = t
    BY <2>1, MutexNames DEF Lock, Unlocked
  <2> QED BY <2>1, <2>2, MutexNames DEF Seen
<1>m. /\ Lock(t, {"global"}) \/ Unlock({"global"}) => mutex'["driver"] = mutex["driver"]
      /\ Lock(t, {proc[t]}) \/ Unlock({proc[t]}) => mutex'["driver"] = mutex["driver"]
  BY DriverMutexKept DEF DriverInv
<1>2. CASE Goes(t) \/ Faults(t)
  <2>1. at[t] # "idle"
    BY <1>2
       DEF Goes, EnterAccess, CheckValid, LookUp, SetDirty, WriteDirty, SetReferenced,
           WriteReferenced, EnterAddress, Translate, Faults, EnterFault, StartScan, Scan,
           Evict, WriteUnloaded, WriteBack, Claim, Own, Install, WriteLoaded, Read, Crash
  <2>2. mutex["driver"] = t
    BY <2>1 DEF DriverInv, OneAtATime
  <2>3. CASE Goes(t)
    BY <1>m, <2>2, <2>3
       DEF Goes, EnterAccess, CheckValid, LookUp, SetDirty, WriteDirty, SetReferenced,
           WriteReferenced, EnterAddress, Translate, Seen
  <2>4. CASE Faults(t)
    BY <1>m, <2>2, <2>4
       DEF Faults, EnterFault, StartScan, Scan, Evict, WriteUnloaded, WriteBack, Claim, Own,
           Install, WriteLoaded, Read, Crash, Seen
  <2> QED BY <1>2, <2>3, <2>4
<1>3. CASE Breaks(t)
  <2>1. PICK from \in {"writeBack", "read"} : Crash(t, from, "transfer")
    BY <1>3, Breaking
  <2>2. UNCHANGED <<mutex, flags, frameNum, settled>>
    BY <2>1 DEF Crash, tables, entries
  <2> QED BY <2>2 DEF Seen
<1>4. Tables
  BY StepGoes DEF DriverInv, SoundTables, Go
<1> QED BY <1>1, <1>2, <1>3, <1>4, NeverFails, StepOfDriver DEF DriverInv

LEMMA LeavingFromOutside ==
  ASSUME Seen = settled, NEW f \in Frames
  PROVE  /\ Leaving(f) = {v \in Pages : Place[v] = f}
         /\ Leaving(f) = {} <=> Abstract!Empty(f)
<1>1. f # NoPage
  BY OverlappingCallsAssumption
<1>2. \A v \in Pages : Place[v] = IF Was[v].loaded THEN WasIn[v] ELSE NoPage
  BY DEF Place, Was, WasIn
<1>3. \A v \in Pages : Place[v] = f <=> v \in Leaving(f)
  BY <1>1, <1>2 DEF Leaving
<1> QED BY <1>3 DEF Abstract!Empty, Leaving

\* The last step of an instruction is the instruction.
LEMMA LastStep ==
  ASSUME Driver, DriverInv, AtomicInv, NEW t \in Threads, Use(t)
  PROVE  [Abstract!Next]_(Abstract!vars)
<1> t \in Actors
  BY DEF Actors
<1> DEFINE e == Page(t)
           f == frameNum[e]
           store == call[t].store
<1>1. at[t] = "use" /\ Tables
  BY GoFrom DEF Use, Return, DriverInv, SoundTables
<1>2. e \in Pages /\ f \in Frames /\ store \in BOOLEAN
  BY <1>1, HasPage DEF DriverInv, Types, Data, TableTypes, LocalTypes
<1>3. flags[e].loaded
  BY <1>1 DEF Tables, Knows, Found, Loaded
<1>4. mutex["driver"] = t /\ Seen = settled
  BY <1>1 DEF DriverInv, OneAtATime, Seen
<1>5. Seen' = <<flags, frameNum>>
  BY MutexNames DEF Use, Return, Driver, DriverMutex, Unlock, Seen, tables, entries
<1> DEFINE Now(v) == IF flags[v].loaded THEN frameNum[v] ELSE NoPage
<1>6. /\ Place' = [v \in Pages |-> Now(v)]
      /\ \A v \in Pages : Place'[v] = Now(v)
      /\ \A v \in Pages : v \in Dirty' <=> flags[v].loaded /\ flags[v].dirty
  BY <1>5 DEF Place, Dirty
<1>7. /\ Place = [v \in Pages |-> IF Was[v].loaded THEN WasIn[v] ELSE NoPage]
      /\ \A v \in Pages : Place[v] = IF Was[v].loaded THEN WasIn[v] ELSE NoPage
      /\ \A v \in Pages : v \in Dirty <=> Was[v].loaded /\ Was[v].dirty
  BY <1>4 DEF Place, Dirty, Was, WasIn
<1>8. Dirty \subseteq Pages /\ Dirty' \subseteq Pages
  BY DEF Dirty
<1>9. Progress(t)
  BY DEF AtomicInv
<1> HIDE DEF e, f, store
<1>10. CASE call[t].again
  <2>1. Moving(e, f) /\ (flags[e].dirty <=> store)
    BY <1>1, <1>9, <1>10 DEF Progress, Accessed, e, f, store
  <2>2. \A g \in Frames : Leaving(g) = {} <=> Abstract!Empty(g)
    BY <1>4, LeavingFromOutside
  <2>3. Abstract!Empty(f) \/ \A g \in Frames : ~Abstract!Empty(g)
    BY <1>2, <2>1, <2>2 DEF Moving, Chosen
  <2>4. Leaving(f) = {v \in Pages : Place[v] = f}
    BY <1>2, <1>4, LeavingFromOutside
  <2>5. Place[e] = NoPage /\ e \notin Leaving(f)
    BY <1>2, <1>7, <2>1 DEF Moving, Leaving
  <2>6. \A v \in Pages : ~Unloaded(Was[v]).loaded
    BY DEF AtomicInv, SettledType, AllFlags, Unloaded
  <2>7. \A v \in Pages : Now(v) = IF v = e THEN f
                                 ELSE IF v \in Leaving(f) THEN NoPage ELSE Place[v]
    BY <1>3, <1>7, <2>1, <2>6 DEF Moving, f
  <2>8. \A v \in Pages : flags[v].loaded /\ flags[v].dirty <=>
           v \in (Dirty \ Leaving(f)) \union (IF store THEN {e} ELSE {})
    BY <1>2, <1>3, <1>7, <2>1, <2>5, <2>6 DEF Moving
  <2>9. Place' = [v \in Pages |-> IF v = e THEN f
                                  ELSE IF v \in Leaving(f) THEN NoPage ELSE Place[v]]
    BY <1>6, <2>7
  <2>10. Dirty' = (Dirty \ Leaving(f)) \union (IF store THEN {e} ELSE {})
    BY <1>2, <1>6, <1>8, <2>8
  <2>11. Abstract!Move(e, store)
    BY <1>2, <2>3, <2>4, <2>5, <2>9, <2>10 DEF Abstract!Move
  <2> QED BY <1>2, <2>11 DEF Abstract!Next
<1>11. CASE ~call[t].again
  <2>1. Stored(e, store)
    BY <1>1, <1>9, <1>11 DEF Progress, Accessed, e, store
  <2>2. Place' = Place
    BY <1>3, <1>6, <1>7, <2>1 DEF Stored
  <2>3. CASE store
    <3>1. Place[e] # NoPage
      <4>1. WasIn[e] \in Frames /\ Was[e].loaded
        BY <1>2, <2>1 DEF Stored, AtomicInv, SettledType
      <4> QED BY <1>2, <1>7, <4>1, OverlappingCallsAssumption
    <3>2. Dirty' = Dirty \union {e}
      BY <1>2, <1>3, <1>6, <1>7, <1>8, <2>1, <2>3 DEF Stored
    <3> QED BY <1>2, <2>2, <3>1, <3>2 DEF Abstract!Next, Abstract!Store
  <2>4. CASE ~store
    <3>1. Dirty' = Dirty
      BY <1>2, <1>3, <1>6, <1>7, <1>8, <2>1, <2>4 DEF Stored
    <3> QED BY <2>2, <3>1 DEF Abstract!vars
  <2> QED BY <2>3, <2>4
<1> QED BY <1>10, <1>11

\* Under the driver's mutex instructions are atomic, for every number of processes,
\* pages and frames: each finds its page in a frame or moves it to an empty one or,
\* when none is, to one that a page leaves, up to the first transfer that fails, if one
\* does (SystemTest.cpp:20 and 40).
THEOREM Atomicity ==
  ASSUME Driver
  PROVE  Spec => InstructionsAtomic
<1>1. Init => Abstract!Init
  <2> SUFFICES ASSUME Init PROVE Abstract!Init
    OBVIOUS
  <2>1. Seen = <<flags, frameNum>>
    BY DEF Init, Seen
  <2>2. \A e \in Pages : ~flags[e].loaded
    BY DEF Init, NewFlags
  <2> QED BY <2>1, <2>2 DEF Abstract!Init, Place, Dirty
<1>2. DriverInv /\ AtomicInv /\ [Next]_vars => [Abstract!Next]_(Abstract!vars)
  <2> SUFFICES ASSUME DriverInv, AtomicInv, [Next]_vars
               PROVE  [Abstract!Next]_(Abstract!vars)
    OBVIOUS
  <2>1. UNCHANGED Seen => UNCHANGED (Abstract!vars)
    BY SeenKept DEF Abstract!vars
  <2>2. CASE UNCHANGED vars
    <3>1. UNCHANGED <<mutex, flags, frameNum, settled>>
      BY <2>2 DEF vars, tables, entries
    <3> QED BY <2>1, <3>1 DEF Seen
  <2>3. CASE Tick
    BY <2>1, <2>3, TickProgress DEF Seen
  <2>4. CASE \E t \in Threads : Step(t)
    BY <2>1, <2>4, HiddenStep, LastStep
  <2> QED BY <2>2, <2>3, <2>4 DEF Next, Ended
<1> QED BY <1>1, <1>2, AtomicInvariant, PTL DEF Spec, InstructionsAtomic, Abstract!Spec
=============================================================================
