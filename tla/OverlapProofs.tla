--------------------------- MODULE OverlapProofs ---------------------------
(***************************************************************************)
(* Invariants of calls that overlap, for every number of processes,        *)
(* threads, frames and clusters and every way threads belong to processes: *)
(* types, who holds which mutex, and that the tables agree unless calls    *)
(* overlapped that raced says do harm, or an eviction failed.              *)
(***************************************************************************)
EXTENDS OverlappingCalls, FiniteSetTheorems, TLAPS

TimerSteps == {"tick", "age", "aged", "poll", "done"}
ThreadSteps == Accessing \union Faulting \union Deleting \union Creating
                 \union {"idle", "access", "refused", "crashed"}

\* Actors are at a step of their kind.
Control ==
  /\ at \in [Actors -> Steps]
  /\ at[Timer] \in TimerSteps
  /\ \A t \in Threads : at[t] \in ThreadSteps

Words == [of : Pages \union {NoPage}, flags : AllFlags]

\* A thread in a call has a page.
Paged == \A t \in Threads : at[t] \notin {"idle", "crashed"} => Page(t) \in Pages

LocalTypes ==
  /\ call \in [Threads -> [page : Pages \union {NoPage}, store : BOOLEAN,
                           again : BOOLEAN]]
  /\ left \in [Threads -> Nat] /\ \A t \in Threads : left[t] <= MaxCalls[t]
  /\ frame \in [Actors -> Frames]
  /\ word \in [Threads -> Words]
  /\ byte \in [Threads -> SUBSET Clusters]

TableTypes ==
  /\ free \in [Frames -> BOOLEAN]
  /\ holder \in [Frames -> Pages \union {NoPage}]
  /\ flags \in [Pages -> AllFlags]
  /\ frameNum \in [Pages -> Frames]
  /\ cluster \in [Pages -> Clusters]
  /\ bits \subseteq Clusters

\* TypeOK but for proc, at and raced.
Data ==
  /\ mutex \in [Mutexes -> Actors \union {Nobody}]
  /\ crash \in {"none", "nullEntry", "assertion", "exception", "transfer"}
  /\ LocalTypes /\ TableTypes

Types ==
  /\ proc \in [Threads -> Procs]
  /\ raced \subseteq {"frames", "clusters"}
  /\ Control /\ Paged /\ Data

-----------------------------------------------------------------------------
(* Constants and the parts of a step *)

LEMMA StepsOfBoth == TimerSteps \subseteq Steps /\ ThreadSteps \subseteq Steps
BY DEF TimerSteps, ThreadSteps, Steps, Ageing, Between

LEMMA ZeroFrame == 0 \in Frames
BY OverlappingCallsAssumption DEF Frames

LEMMA InitTypes == Init => Types
<1> SUFFICES ASSUME Init PROVE Types
  OBVIOUS
<1>1. cluster \in [Pages -> Clusters]
  BY OverlappingCallsAssumption DEF Init
<1>2. proc \in [Threads -> Procs]
  BY OverlappingCallsAssumption DEF Init
<1>3. Control /\ Paged
  BY OverlappingCallsAssumption, StepsOfBoth
     DEF Init, Control, Paged, Actors, TimerSteps, ThreadSteps
<1>4. mutex \in [Mutexes -> Actors \union {Nobody}]
  BY DEF Init
<1>5. /\ call \in [Threads -> [page : Pages \union {NoPage}, store : BOOLEAN,
                               again : BOOLEAN]]
      /\ word \in [Threads -> [of : Pages \union {NoPage}, flags : AllFlags]]
      /\ flags \in [Pages -> AllFlags]
  BY DEF Init, NoCall, NoWord, NewFlags, AllFlags
<1>6. /\ left \in [Threads -> Nat] /\ \A t \in Threads : left[t] <= MaxCalls[t]
      /\ frame \in [Actors -> Frames]
      /\ frameNum \in [Pages -> Frames]
  BY OverlappingCallsAssumption, ZeroFrame DEF Init
<1>7. /\ byte \in [Threads -> SUBSET Clusters]
      /\ free \in [Frames -> BOOLEAN]
      /\ holder \in [Frames -> Pages \union {NoPage}]
      /\ crash \in {"none", "nullEntry", "assertion", "exception", "transfer"}
      /\ raced \subseteq {"frames", "clusters"}
  BY DEF Init
<1>8. bits \subseteq Clusters
  BY <1>1 DEF Init
<1> QED BY <1>1, <1>2, <1>3, <1>4, <1>5, <1>6, <1>7, <1>8
    DEF Types, Control, Data, LocalTypes, TableTypes, Words

\* Where an actor goes is a step of its kind.
LEMMA GoType ==
  ASSUME NEW a \in Actors, NEW from, NEW to, Types, Go(a, from, to),
         a \in Threads => to \in ThreadSteps,
         a = Timer => to \in TimerSteps
  PROVE  /\ Control'
         /\ at[a] = from /\ at'[a] = to
         /\ \A b \in Actors : b # a => at'[b] = at[b]
         /\ proc' \in [Threads -> Procs]
         /\ raced' \subseteq {"frames", "clusters"}
         /\ crash = "none"
<1>1. /\ Spoiled' \subseteq {"frames", "clusters"}
      /\ SpoiledAfterFrames' \subseteq {"frames", "clusters"}
  BY DEF Spoiled, SpoiledAfterFrames
<1>2. at' \in [Actors -> Steps] /\ at'[a] = to
      /\ \A b \in Actors : b # a => at'[b] = at[b]
  BY StepsOfBoth DEF Go, Types, Control, Actors
<1>3. Control'
  BY <1>2 DEF Types, Control, Actors
<1> QED BY <1>1, <1>2, <1>3 DEF Go, Types

\* What a step leaves to be shown: the page of the thread and the other types.
LEMMA StepTypes ==
  ASSUME NEW a \in Actors, NEW from, NEW to, Types, Go(a, from, to), Data',
         a \in Threads => to \in ThreadSteps,
         a = Timer => to \in TimerSteps,
         a \in Threads => to \in {"idle", "crashed"} \/ call'[a].page \in Pages,
         \A t \in Threads : t # a => call'[t] = call[t]
  PROVE  Types'
<1>1. /\ Control'
      /\ at[a] = from /\ at'[a] = to
      /\ \A b \in Actors : b # a => at'[b] = at[b]
      /\ proc' \in [Threads -> Procs]
      /\ raced' \subseteq {"frames", "clusters"}
  BY GoType
<1>2. Paged'
  BY <1>1, OverlappingCallsAssumption DEF Types, Paged, Page, Actors
<1> QED BY <1>1, <1>2 DEF Types

LEMMA TypesTypeOK == Types => TypeOK
BY DEF Types, TypeOK, Control, Data, LocalTypes, TableTypes, Words

\* In a call a thread has a page.
LEMMA HasPage ==
  ASSUME NEW t \in Threads, Types, at[t] \notin {"idle", "crashed"}
  PROVE  Page(t) \in Pages
BY DEF Types, Paged

\* Flags of an entry that are read, changed and written back are flags.
LEMMA FlagsType ==
  ASSUME NEW x \in AllFlags
  PROVE  /\ [x EXCEPT !.dirty = TRUE] \in AllFlags
         /\ [x EXCEPT !.used = FALSE] \in AllFlags
         /\ Unloaded(x) \in AllFlags
         /\ LoadedClean(x) \in AllFlags
         /\ NewFlags \in AllFlags
BY DEF AllFlags, Unloaded, LoadedClean, NewFlags

LEMMA WordType ==
  ASSUME NEW t \in Threads, Types
  PROVE  word[t].flags \in AllFlags
BY DEF Types, Data, LocalTypes, Words

LEMMA ReadFlagsType ==
  ASSUME NEW t \in Threads, NEW e \in Pages, Types, ReadFlags(t, e)
  PROVE  word' \in [Threads -> Words]
<1>1. [of |-> e, flags |-> flags[e]] \in Words
  BY DEF Types, Data, TableTypes, Words
<1> QED BY <1>1 DEF Types, Data, LocalTypes, ReadFlags, Words

LEMMA WriteFlagsType ==
  ASSUME NEW t \in Threads, NEW new \in AllFlags, Types, WriteFlags(t, new)
  PROVE  word' \in [Threads -> Words] /\ flags' \in [Pages -> AllFlags]
<1>1. NoWord \in Words
  BY FlagsType DEF NoWord, Words
<1> QED BY <1>1 DEF Types, Data, LocalTypes, TableTypes, WriteFlags, Words

\* A transfer that fails ends the program, or the call, or leaves it to end.
LEMMA Failing ==
  ASSUME NEW t \in Threads, WriteBackFails(t) \/ GiveUp(t) \/ ReadFails(t)
  PROVE  \/ \E from \in {"writeBack", "read"} : Crash(t, from, "transfer")
         \/ /\ Go(t, "writeBack", "unwritten")
            /\ UNCHANGED <<mutex, locals, tables, crash, settled>>
         \/ \E from \in {"unwritten", "read"} :
              Return(t, from, {proc[t]}) /\ UNCHANGED <<word, tables>>
BY DEF WriteBackFails, GiveUp, ReadFails

-----------------------------------------------------------------------------
(* Types, step by step *)

LEMMA CrashTypes ==
  ASSUME NEW t \in Threads, NEW from,
         NEW how \in {"nullEntry", "assertion", "exception", "transfer"},
         Types, Crash(t, from, how)
  PROVE  Types'
<1>1. Data'
  BY DEF Types, Crash, Data, LocalTypes, TableTypes, locals, tables, frameTable, entries
<1> QED BY <1>1, StepTypes, OverlappingCallsAssumption
    DEF Crash, locals, ThreadSteps, Actors

LEMMA BeginTypes ==
  ASSUME NEW t \in Threads, NEW label \in {"access", "delete", "create"},
         NEW e \in Pages, NEW store \in BOOLEAN, NEW ms, Types,
         Begin(t, label, e, store), Lock(t, ms)
  PROVE  Types'
<1>1. left' \in [Threads -> Nat] /\ \A u \in Threads : left'[u] <= MaxCalls[u]
  <2>1. /\ left \in [Threads -> Nat] /\ MaxCalls \in [Threads -> Nat]
        /\ \A u \in Threads : left[u] <= MaxCalls[u]
    BY OverlappingCallsAssumption DEF Types, Data, LocalTypes
  <2>2. left[t] > 0 /\ left' = [left EXCEPT ![t] = left[t] - 1]
    BY DEF Begin
  <2> QED BY <2>1, <2>2
<1>2. /\ call' \in [Threads -> [page : Pages \union {NoPage}, store : BOOLEAN,
                                again : BOOLEAN]]
      /\ call'[t].page = e
  BY DEF Types, Begin, Data, LocalTypes
<1>3. LocalTypes'
  BY <1>1, <1>2 DEF Types, Begin, Data, LocalTypes
<1>4. Data'
  BY <1>3 DEF Types, Begin, Lock, Data, TableTypes, tables, frameTable, entries, Actors
<1>5. /\ Go(t, "idle", label) /\ label \in ThreadSteps
      /\ \A u \in Threads : u # t => call'[u] = call[u]
  BY DEF Begin, Types, Data, LocalTypes, ThreadSteps, Deleting, Creating
<1>6. t \in Actors /\ t # Timer
  BY OverlappingCallsAssumption DEF Actors
<1> QED BY <1>2, <1>4, <1>5, <1>6, StepTypes

LEMMA ReturnTypes ==
  ASSUME NEW t \in Threads, NEW from, NEW ms, Types, Return(t, from, ms),
         TableTypes', word' \in [Threads -> Words]
  PROVE  Types'
<1>1. NoCall \in [page : Pages \union {NoPage}, store : BOOLEAN, again : BOOLEAN]
  BY DEF NoCall
<1>2. Data'
  BY <1>1, ZeroFrame DEF Types, Return, Unlock, Data, LocalTypes
<1>3. /\ Go(t, from, "idle") /\ "idle" \in ThreadSteps
      /\ \A u \in Threads : u # t => call'[u] = call[u]
  BY DEF Return, Types, Data, LocalTypes, ThreadSteps
<1>4. t \in Actors /\ t # Timer
  BY OverlappingCallsAssumption DEF Actors
<1> QED BY <1>2, <1>3, <1>4, StepTypes

LEMMA ThreadTypes ==
  ASSUME NEW t \in Threads, Types, Step(t)
  PROVE  Types'
<1> t \in Actors /\ t # Timer
  BY OverlappingCallsAssumption DEF Actors
<1>1. CASE EnterAccess(t)
  <2>1. Go(t, "access", "valid")
    BY <1>1 DEF EnterAccess
  <2>2. Page(t) \in Pages
    BY <2>1, HasPage DEF Go
  <2>3. Data'
    BY <1>1, <2>2 
       DEF Types, EnterAccess, Lock, Data, LocalTypes, TableTypes, locals, tables,
           frameTable, entries
  <2> QED
    BY <1>1, <2>1, <2>2, <2>3, StepTypes
       DEF EnterAccess, locals, Page, ThreadSteps, Accessing, Faulting, Deleting,
           Creating
<1>2. CASE CheckValid(t)
  <2>1. PICK to \in {"lookup", "refused"} : Go(t, "valid", to)
    BY <1>2 DEF CheckValid
  <2>2. Page(t) \in Pages
    BY <2>1, HasPage DEF Go
  <2>3. Data'
    BY <1>2, <2>2 
       DEF Types, CheckValid, Unlock, Data, LocalTypes, TableTypes, locals, tables,
           frameTable, entries
  <2> QED
    BY <1>2, <2>1, <2>2, <2>3, StepTypes
       DEF CheckValid, locals, Page, ThreadSteps, Accessing, Faulting, Deleting,
           Creating
<1>3. CASE LookUp(t)
  <2>1. PICK to \in {"dirty", "refer", "refused"} : Go(t, "lookup", to)
    BY <1>3 DEF LookUp
  <2>2. Page(t) \in Pages
    BY <2>1, HasPage DEF Go
  <2>3. Data'
    BY <1>3, <2>2 
       DEF Types, LookUp, Unlock, Data, LocalTypes, TableTypes, locals, tables,
           frameTable, entries
  <2> QED
    BY <1>3, <2>1, <2>2, <2>3, StepTypes
       DEF LookUp, locals, Page, ThreadSteps, Accessing, Faulting, Deleting, Creating
<1>4. CASE SetDirty(t)
  <2>1. Go(t, "dirty", "dirtied")
    BY <1>4 DEF SetDirty
  <2>2. Page(t) \in Pages
    BY <2>1, HasPage DEF Go
  <2>3. word' \in [Threads -> Words]
    BY <1>4, <2>2, ReadFlagsType DEF SetDirty
  <2>4. Data'
    BY <1>4, <2>2, <2>3 
       DEF Types, SetDirty, Data, LocalTypes, TableTypes, locals, tables, frameTable,
           entries
  <2> QED
    BY <1>4, <2>1, <2>2, <2>4, StepTypes
       DEF SetDirty, locals, Page, ThreadSteps, Accessing, Faulting, Deleting, Creating
<1>5. CASE WriteDirty(t)
  <2>1. Go(t, "dirtied", "refer")
    BY <1>5 DEF WriteDirty
  <2>2. Page(t) \in Pages
    BY <2>1, HasPage DEF Go
  <2>3. [word[t].flags EXCEPT !.dirty = TRUE] \in AllFlags
    BY FlagsType, WordType
  <2>4. word' \in [Threads -> Words] /\ flags' \in [Pages -> AllFlags]
    BY <1>5, <2>3, WriteFlagsType DEF WriteDirty
  <2>5. Data'
    BY <1>5, <2>2, <2>4 
       DEF Types, WriteDirty, Data, LocalTypes, TableTypes, locals, tables, frameTable,
           entries
  <2> QED
    BY <1>5, <2>1, <2>2, <2>5, StepTypes
       DEF WriteDirty, locals, Page, ThreadSteps, Accessing, Faulting, Deleting,
           Creating
<1>6. CASE SetReferenced(t)
  <2>1. PICK to \in {"referred", "referredFree"} : Go(t, "refer", to)
    BY <1>6 DEF SetReferenced
  <2>2. Page(t) \in Pages
    BY <2>1, HasPage DEF Go
  <2>3. Data'
    BY <1>6, <2>2 
       DEF Types, SetReferenced, Data, LocalTypes, TableTypes, locals, tables,
           frameTable, entries
  <2> QED
    BY <1>6, <2>1, <2>2, <2>3, StepTypes
       DEF SetReferenced, locals, Page, ThreadSteps, Accessing, Faulting, Deleting,
           Creating
<1>7. CASE EnterAddress(t)
  <2>1. Go(t, "address", "translate")
    BY <1>7 DEF EnterAddress
  <2>2. Page(t) \in Pages
    BY <2>1, HasPage DEF Go
  <2>3. Data'
    BY <1>7, <2>2 
       DEF Types, EnterAddress, Lock, Data, LocalTypes, TableTypes, locals, tables,
           frameTable, entries
  <2> QED
    BY <1>7, <2>1, <2>2, <2>3, StepTypes
       DEF EnterAddress, locals, Page, ThreadSteps, Accessing, Faulting, Deleting,
           Creating
<1>8. CASE Translate(t)
  <2>1. Go(t, "translate", "use")
    BY <1>8 DEF Translate
  <2>2. Page(t) \in Pages
    BY <2>1, HasPage DEF Go
  <2>3. Data'
    BY <1>8, <2>2 
       DEF Types, Translate, Unlock, Data, LocalTypes, TableTypes, locals, tables,
           frameTable, entries
  <2> QED
    BY <1>8, <2>1, <2>2, <2>3, StepTypes
       DEF Translate, locals, Page, ThreadSteps, Accessing, Faulting, Deleting, Creating
<1>9. CASE StartScan(t)
  <2>1. Go(t, "fault", "scan")
    BY <1>9 DEF StartScan
  <2>2. Page(t) \in Pages
    BY <2>1, HasPage DEF Go
  <2>3. Data'
    BY <1>9, <2>2, ZeroFrame 
       DEF Types, StartScan, Data, LocalTypes, TableTypes, locals, tables, frameTable,
           entries
  <2> QED
    BY <1>9, <2>1, <2>2, <2>3, StepTypes
       DEF StartScan, locals, Page, ThreadSteps, Accessing, Faulting, Deleting, Creating
<1>10. CASE Scan(t)
  <2>1. PICK to \in {"claim", "scan", "evict"} : Go(t, "scan", to)
    BY <1>10 DEF Scan
  <2>2. Page(t) \in Pages
    BY <2>1, HasPage DEF Go
  <2>3. Data'
    BY <1>10, <2>2 
       DEF Types, Scan, IsLast, Data, LocalTypes, TableTypes, locals, tables,
           frameTable, entries
  <2> QED
    BY <1>10, <2>1, <2>2, <2>3, StepTypes
       DEF Scan, locals, Page, ThreadSteps, Accessing, Faulting, Deleting, Creating
<1>11. CASE Evict(t)
  <2>1. Go(t, "evict", "unload")
    BY <1>11 DEF Evict
  <2>2. Page(t) \in Pages
    BY <2>1, HasPage DEF Go
  <2>3. Victim(t) \in Pages
    BY <1>11 DEF Evict, Types, TypeOK, Data, LocalTypes, TableTypes, Victim
  <2>4. word' \in [Threads -> Words]
    BY <1>11, <2>2, <2>3, ReadFlagsType DEF Evict
  <2>5. Data'
    BY <1>11, <2>2, <2>3, <2>4 
       DEF Types, Evict, Victim, Data, LocalTypes, TableTypes, locals, tables,
           frameTable, entries
  <2> QED
    BY <1>11, <2>1, <2>2, <2>5, StepTypes
       DEF Evict, locals, Page, ThreadSteps, Accessing, Faulting, Deleting, Creating
<1>12. CASE WriteUnloaded(t)
  <2>1. Go(t, "unload", "writeBack")
    BY <1>12 DEF WriteUnloaded
  <2>2. Page(t) \in Pages
    BY <2>1, HasPage DEF Go
  <2>3. Unloaded(word[t].flags) \in AllFlags
    BY FlagsType, WordType
  <2>4. word' \in [Threads -> Words] /\ flags' \in [Pages -> AllFlags]
    BY <1>12, <2>3, WriteFlagsType DEF WriteUnloaded
  <2>5. Data'
    BY <1>12, <2>2, <2>4 
       DEF Types, WriteUnloaded, Data, LocalTypes, TableTypes, locals, tables,
           frameTable, entries
  <2> QED
    BY <1>12, <2>1, <2>2, <2>5, StepTypes
       DEF WriteUnloaded, locals, Page, ThreadSteps, Accessing, Faulting, Deleting,
           Creating
<1>13. CASE WriteBack(t)
  <2>1. Go(t, "writeBack", "claim")
    BY <1>13 DEF WriteBack
  <2>2. Page(t) \in Pages
    BY <2>1, HasPage DEF Go
  <2>3. Data'
    BY <1>13, <2>2 
       DEF Types, WriteBack, Data, LocalTypes, TableTypes, locals, tables, frameTable,
           entries
  <2> QED
    BY <1>13, <2>1, <2>2, <2>3, StepTypes
       DEF WriteBack, locals, Page, ThreadSteps, Accessing, Faulting, Deleting, Creating
<1>14. CASE Claim(t)
  <2>1. Go(t, "claim", "own")
    BY <1>14 DEF Claim
  <2>2. Page(t) \in Pages
    BY <2>1, HasPage DEF Go
  <2>3. Data'
    BY <1>14, <2>2 
       DEF Types, Claim, Data, LocalTypes, TableTypes, locals, tables, frameTable,
           entries
  <2> QED
    BY <1>14, <2>1, <2>2, <2>3, StepTypes
       DEF Claim, locals, Page, ThreadSteps, Accessing, Faulting, Deleting, Creating
<1>15. CASE Own(t)
  <2>1. Go(t, "own", "install")
    BY <1>15 DEF Own
  <2>2. Page(t) \in Pages
    BY <2>1, HasPage DEF Go
  <2>3. Data'
    BY <1>15, <2>2 
       DEF Types, Own, Data, LocalTypes, TableTypes, locals, tables, frameTable, entries
  <2> QED
    BY <1>15, <2>1, <2>2, <2>3, StepTypes
       DEF Own, locals, Page, ThreadSteps, Accessing, Faulting, Deleting, Creating
<1>16. CASE Install(t)
  <2>1. Go(t, "install", "load")
    BY <1>16 DEF Install
  <2>2. Page(t) \in Pages
    BY <2>1, HasPage DEF Go
  <2>3. word' \in [Threads -> Words]
    BY <1>16, <2>2, ReadFlagsType DEF Install
  <2>4. Data'
    BY <1>16, <2>2, <2>3 
       DEF Types, Install, Data, LocalTypes, TableTypes, locals, tables, frameTable,
           entries
  <2> QED
    BY <1>16, <2>1, <2>2, <2>4, StepTypes
       DEF Install, locals, Page, ThreadSteps, Accessing, Faulting, Deleting, Creating
<1>17. CASE WriteLoaded(t)
  <2>1. Go(t, "load", "read")
    BY <1>17 DEF WriteLoaded
  <2>2. Page(t) \in Pages
    BY <2>1, HasPage DEF Go
  <2>3. LoadedClean(word[t].flags) \in AllFlags
    BY FlagsType, WordType
  <2>4. word' \in [Threads -> Words] /\ flags' \in [Pages -> AllFlags]
    BY <1>17, <2>3, WriteFlagsType DEF WriteLoaded
  <2>5. Data'
    BY <1>17, <2>2, <2>4 
       DEF Types, WriteLoaded, Data, LocalTypes, TableTypes, locals, tables, frameTable,
           entries
  <2> QED
    BY <1>17, <2>1, <2>2, <2>5, StepTypes
       DEF WriteLoaded, locals, Page, ThreadSteps, Accessing, Faulting, Deleting,
           Creating
<1>18. CASE Read(t)
  <2>1. Go(t, "read", "access")
    BY <1>18 DEF Read
  <2>2. Page(t) \in Pages
    BY <2>1, HasPage DEF Go
  <2>3. Data'
    BY <1>18, <2>2, ZeroFrame 
       DEF Types, Read, Unlock, Data, LocalTypes, TableTypes, locals, tables,
           frameTable, entries
  <2> QED
    BY <1>18, <2>1, <2>2, <2>3, StepTypes
       DEF Read, locals, Page, ThreadSteps, Accessing, Faulting, Deleting, Creating
<1>19. CASE DeletePage(t)
  <2>1. PICK to \in {"unframe", "uncluster"} : Go(t, "delete", to)
    BY <1>19 DEF DeletePage
  <2>2. Page(t) \in Pages
    BY <2>1, HasPage DEF Go
  <2>3. Data'
    BY <1>19, <2>2 
       DEF Types, DeletePage, Data, LocalTypes, TableTypes, locals, tables, frameTable,
           entries
  <2> QED
    BY <1>19, <2>1, <2>2, <2>3, StepTypes
       DEF DeletePage, locals, Page, ThreadSteps, Accessing, Faulting, Deleting,
           Creating
<1>20. CASE FreeFrame(t)
  <2>1. Go(t, "free", "uncluster")
    BY <1>20 DEF FreeFrame
  <2>2. Page(t) \in Pages
    BY <2>1, HasPage DEF Go
  <2>3. Data'
    BY <1>20, <2>2 
       DEF Types, FreeFrame, Data, LocalTypes, TableTypes, locals, tables, frameTable,
           entries
  <2> QED
    BY <1>20, <2>1, <2>2, <2>3, StepTypes
       DEF FreeFrame, locals, Page, ThreadSteps, Accessing, Faulting, Deleting, Creating
<1>21. CASE FreeCluster(t)
  <2>1. Go(t, "cleared", "unuse")
    BY <1>21 DEF FreeCluster
  <2>2. Page(t) \in Pages
    BY <2>1, HasPage DEF Go
  <2>3. Data'
    BY <1>21, <2>2 
       DEF Types, FreeCluster, WriteByte, Data, LocalTypes, TableTypes, locals, tables,
           frameTable, entries
  <2> QED
    BY <1>21, <2>1, <2>2, <2>3, StepTypes
       DEF FreeCluster, locals, Page, ThreadSteps, Accessing, Faulting, Deleting,
           Creating
<1>22. CASE SetUnused(t)
  <2>1. Go(t, "unuse", "unused")
    BY <1>22 DEF SetUnused
  <2>2. Page(t) \in Pages
    BY <2>1, HasPage DEF Go
  <2>3. word' \in [Threads -> Words]
    BY <1>22, <2>2, ReadFlagsType DEF SetUnused
  <2>4. Data'
    BY <1>22, <2>2, <2>3 
       DEF Types, SetUnused, Data, LocalTypes, TableTypes, locals, tables, frameTable,
           entries
  <2> QED
    BY <1>22, <2>1, <2>2, <2>4, StepTypes
       DEF SetUnused, locals, Page, ThreadSteps, Accessing, Faulting, Deleting, Creating
<1>23. CASE StartAllocating(t)
  <2>1. Go(t, "create", "seek")
    BY <1>23 DEF StartAllocating
  <2>2. Page(t) \in Pages
    BY <2>1, HasPage DEF Go
  <2>3. Data'
    BY <1>23, <2>2 
       DEF Types, StartAllocating, Lock, Data, LocalTypes, TableTypes, locals, tables,
           frameTable, entries
  <2> QED
    BY <1>23, <2>1, <2>2, <2>3, StepTypes
       DEF StartAllocating, locals, Page, ThreadSteps, Accessing, Faulting, Deleting,
           Creating
<1>24. CASE TakeCluster(t)
  <2>1. Go(t, "mark", "fill")
    BY <1>24 DEF TakeCluster
  <2>2. Page(t) \in Pages
    BY <2>1, HasPage DEF Go
  <2>3. Data'
    BY <1>24, <2>2 
       DEF Types, TakeCluster, WriteByte, Unlock, Data, LocalTypes, TableTypes, locals,
           tables, frameTable, entries
  <2> QED
    BY <1>24, <2>1, <2>2, <2>3, StepTypes
       DEF TakeCluster, locals, Page, ThreadSteps, Accessing, Faulting, Deleting,
           Creating
<1>25. CASE WriteReferenced(t)
  <2>1. PICK bit \in BOOLEAN :
          /\ Go(t, IF bit THEN "referredFree" ELSE "referred", "address")
          /\ free' = [free EXCEPT ![frame[t]] = bit]
    BY <1>25 DEF WriteReferenced
  <2>2. Page(t) \in Pages
    BY <2>1, HasPage DEF Go
  <2>3. Data'
    BY <1>25, <2>1
       DEF Types, WriteReferenced, Unlock, Data, LocalTypes, TableTypes, locals, entries
  <2> QED
    BY <1>25, <2>1, <2>2, <2>3, StepTypes
       DEF WriteReferenced, locals, Page, ThreadSteps, Accessing
<1>26. CASE \E e \in Pages, store \in Stores : Instruct(t, e, store)
  BY <1>26, BeginTypes, OverlappingCallsAssumption DEF Instruct
<1>27. CASE \E e \in Pages : Delete(t, e) \/ Create(t, e)
  BY <1>27, BeginTypes DEF Delete, Create
<1>28. CASE GotNull(t) \/ NoVictim(t)
  BY <1>28, CrashTypes DEF GotNull, NoVictim
<1>29. CASE NoAddress(t)
  <2>1. CASE Crash(t, "address", "assertion")
    BY <2>1, CrashTypes
  <2>2. CASE Go(t, "address", "access") /\ UNCHANGED <<mutex, locals, tables, crash, settled>>
    <3>1. Page(t) \in Pages
      BY <2>2, HasPage DEF Go
    <3>2. Data'
      BY <2>2 DEF Types, Data, LocalTypes, TableTypes, locals, tables, frameTable, entries
    <3> QED
      BY <2>2, <3>1, <3>2, StepTypes DEF locals, Page, ThreadSteps
  <2> QED BY <1>29, <2>1, <2>2 DEF NoAddress
<1>30. CASE EnterFault(t)
  <2>1. CASE Crash(t, "refused", "assertion")
    BY <2>1, CrashTypes
  <2>2. CASE /\ Go(t, "refused", "fault") /\ Lock(t, {proc[t]})
             /\ UNCHANGED <<locals, tables, crash, settled>>
    <3>1. Page(t) \in Pages
      BY <2>2, HasPage DEF Go
    <3>2. Data'
      BY <2>2
         DEF Types, Lock, Data, LocalTypes, TableTypes, locals, tables, frameTable,
             entries
    <3> QED
      BY <2>2, <3>1, <3>2, StepTypes DEF locals, Page, ThreadSteps, Faulting
  <2> QED BY <1>30, <2>1, <2>2 DEF EnterFault
<1>31. CASE FaultRefused(t)
  <2>1. CASE Crash(t, "fault", "exception")
    BY <2>1, CrashTypes
  <2>2. CASE Return(t, "fault", {proc[t]}) /\ UNCHANGED <<word, tables>>
    <3>1. TableTypes' /\ word' \in [Threads -> Words]
      BY <2>2 DEF Types, Data, LocalTypes, TableTypes, tables, frameTable, entries
    <3> QED
      BY <2>2, <3>1, ReturnTypes
  <2> QED BY <1>31, <2>1, <2>2 DEF FaultRefused
<1>32. CASE Use(t) \/ DeleteNothing(t) \/ CreateNothing(t)
  <2>1. TableTypes' /\ word' \in [Threads -> Words]
    BY <1>32
       DEF Use, DeleteNothing, CreateNothing, Types, Data, LocalTypes, TableTypes,
           tables, frameTable, entries
  <2> QED BY <1>32, <2>1, ReturnTypes DEF Use, DeleteNothing, CreateNothing
<1>33. CASE GetTable(t)
  <2>1. PICK from \in {"unframe", "uncluster"}, to \in {"free", "clear"} : Go(t, from, to)
    BY <1>33 DEF GetTable
  <2>2. Page(t) \in Pages
    BY <2>1, HasPage DEF Go
  <2>3. Data'
    BY <1>33
       DEF GetTable, Types, Data, LocalTypes, TableTypes, locals, tables, frameTable,
           entries
  <2> QED
    BY <1>33, <2>1, <2>2, <2>3, StepTypes
       DEF GetTable, locals, Page, ThreadSteps, Deleting
<1>34. CASE ReadBits(t)
  <2>1. PICK from \in {"clear", "seek"}, to \in {"cleared", "mark"} : ReadByte(t, from, to)
    BY <1>34 DEF ReadBits
  <2>2. Page(t) \in Pages
    BY <2>1, HasPage DEF ReadByte, Go
  <2>3. Data'
    BY <2>1 DEF ReadByte, Types, Data, LocalTypes, TableTypes, tables, frameTable, entries
  <2> QED
    BY <2>1, <2>2, <2>3, StepTypes DEF ReadByte, Page, ThreadSteps, Deleting, Creating
<1>35. CASE WriteUnused(t)
  <2>1. Page(t) \in Pages
    BY <1>35, HasPage DEF WriteUnused, Return, Go
  <2>2. [word[t].flags EXCEPT !.used = FALSE] \in AllFlags
    BY FlagsType, WordType
  <2>3. word' \in [Threads -> Words] /\ flags' \in [Pages -> AllFlags]
    BY <1>35, <2>2, WriteFlagsType DEF WriteUnused
  <2>4. 0 \in Clusters
    BY OverlappingCallsAssumption DEF Clusters
  <2>5. TableTypes'
    BY <1>35, <2>3, <2>4, ZeroFrame DEF WriteUnused, Types, Data, TableTypes, frameTable
  <2> QED BY <1>35, <2>3, <2>5, ReturnTypes DEF WriteUnused
<1>36. CASE CreatePage(t)
  <2>1. NewFlags \in AllFlags
    BY DEF NewFlags, AllFlags
  <2>2. TableTypes' /\ word' \in [Threads -> Words]
    BY <1>36, <2>1 DEF CreatePage, Types, Data, LocalTypes, TableTypes, frameTable
  <2> QED BY <1>36, <2>2, ReturnTypes DEF CreatePage
<1>37. CASE WriteBackFails(t) \/ GiveUp(t) \/ ReadFails(t)
  <2>1. CASE \E from : Crash(t, from, "transfer")
    BY <2>1, CrashTypes
  <2>2. CASE /\ Go(t, "writeBack", "unwritten")
             /\ UNCHANGED <<mutex, locals, tables, crash, settled>>
    <3>1. Page(t) \in Pages
      BY <2>2, HasPage DEF Go
    <3>2. Data'
      BY <2>2 DEF Types, Data, LocalTypes, TableTypes, locals, tables, frameTable, entries
    <3> QED
      BY <2>2, <3>1, <3>2, StepTypes DEF locals, Page, ThreadSteps, Faulting
  <2>3. CASE \E from : Return(t, from, {proc[t]}) /\ UNCHANGED <<word, tables>>
    <3>1. TableTypes' /\ word' \in [Threads -> Words]
      BY <2>3 DEF Types, Data, LocalTypes, TableTypes, tables, frameTable, entries
    <3> QED
      BY <2>3, <3>1, ReturnTypes
  <2> QED BY <1>37, <2>1, <2>2, <2>3, Failing
<1> QED
  BY <1>1, <1>2, <1>3, <1>4, <1>5, <1>6, <1>7, <1>8, <1>9, <1>10, <1>11, <1>12, <1>13, <1>14,
     <1>15, <1>16, <1>17, <1>18, <1>19, <1>20, <1>21, <1>22, <1>23, <1>24, <1>25, <1>26,
     <1>27, <1>28, <1>29, <1>30, <1>31, <1>32, <1>33, <1>34, <1>35, <1>36, <1>37
     DEF Step

LEMMA TimerTypes ==
  ASSUME Types, Tick
  PROVE  Types'
<1> Timer \in Actors /\ Timer \notin Threads
  BY OverlappingCallsAssumption DEF Actors
<1>1. CASE StartJob
  <2>1. Data'
    BY <1>1 DEF StartJob, Lock, Types, Data, LocalTypes, TableTypes, locals, tables,
                frameTable, entries
  <2> QED BY <1>1, <2>1, StepTypes DEF StartJob, locals, TimerSteps
<1>2. ASSUME Aged(frame[Timer])
      PROVE  /\ frame' \in [Actors -> Frames]
             /\ mutex' \in [Mutexes -> Actors \union {Nobody}]
  <2>1. ~IsLast(frame[Timer]) => frame[Timer] + 1 \in Frames
    BY DEF IsLast
  <2> QED BY <1>2, <2>1, ZeroFrame DEF Aged, Unlock, Types, Data, LocalTypes
<1>3. AfterAgeing(frame[Timer]) \in TimerSteps
  BY DEF AfterAgeing, TimerSteps
<1>4. CASE SkipFree
  <2>1. Data'
    BY <1>2, <1>4 DEF SkipFree, Types, Data, LocalTypes, TableTypes, tables, frameTable,
                      entries
  <2> QED BY <1>3, <1>4, <2>1, StepTypes DEF SkipFree
<1>5. CASE Shift
  <2>1. Data'
    BY <1>5 DEF Shift, Types, Data, LocalTypes, TableTypes, locals, tables, frameTable,
                entries
  <2> QED BY <1>5, <2>1, StepTypes DEF Shift, locals, TimerSteps
<1>6. CASE WriteShifted
  <2>1. Data'
    BY <1>2, <1>6 DEF WriteShifted, Types, Data, LocalTypes, TableTypes, entries
  <2> QED BY <1>3, <1>6, <2>1, StepTypes DEF WriteShifted
<1>7. CASE Poll
  <2>1. Data'
    BY <1>7 DEF Poll, Types, Data, LocalTypes, TableTypes, locals, tables, frameTable,
                entries
  <2> QED BY <1>7, <2>1, StepTypes DEF Poll, locals, TimerSteps
<1> QED BY <1>1, <1>4, <1>5, <1>6, <1>7 DEF Tick

LEMMA SameTypes ==
  ASSUME Types, UNCHANGED vars
  PROVE  Types'
<1>1. Control' /\ Paged'
  BY DEF Types, Control, Paged, Page, vars, locals
<1>2. Data'
  BY DEF Types, Data, LocalTypes, TableTypes, vars, locals, tables, frameTable, entries
<1> QED BY <1>1, <1>2 DEF Types, vars

\* A step of the program keeps the types.
LEMMA NextTypes == Types /\ [Next]_vars => Types'
BY ThreadTypes, TimerTypes, SameTypes DEF Next, Ended

THEOREM TypesInvariant == Spec => []Types
BY InitTypes, NextTypes, PTL DEF Spec

\* What locals and entries call a frame, page or cluster is one: every index into
\* the frame table and the page tables that a call computes from what it read
\* earlier is in range, however calls overlap (kernel_process.cpp:175-262).
THEOREM TypeCorrect == Spec => []TypeOK
BY TypesInvariant, TypesTypeOK, PTL
-----------------------------------------------------------------------------
(* Who holds which mutex *)

\* Where a thread is that holds the kernel's mutex, and its process's.
GlobalSteps == {"valid", "lookup", "dirty", "dirtied", "refer", "referred",
                "referredFree", "seek", "mark", "crashed"}
ProcSteps == Faulting \union Deleting \union Creating \union {"translate", "crashed"}

Holders ==
  /\ \A t \in Threads : mutex["global"] = t => at[t] \in GlobalSteps
  /\ mutex["global"] = Timer => at[Timer] \in Ageing
  /\ \A p \in Procs : mutex[p] # Timer
  /\ \A p \in Procs, t \in Threads :
       mutex[p] = t => p = proc[t] /\ at[t] \in ProcSteps

LEMMA MutexNames ==
  /\ Mutexes = {"driver", "global"} \union Procs
  /\ "driver" \notin Procs /\ "global" \notin Procs
  /\ Timer \notin Threads /\ Nobody \notin Threads /\ Nobody # Timer
BY OverlappingCallsAssumption DEF Mutexes, Actors

LEMMA GoFrom ==
  ASSUME NEW a \in Actors, NEW from, NEW to, Go(a, from, to)
  PROVE  at[a] = from /\ crash = "none" /\ UNCHANGED proc
BY DEF Go

\* A thread takes or gives back the mutex of its process.
LEMMA OwnMutex ==
  ASSUME NEW t \in Threads, Types
  PROVE  /\ Lock(t, {proc[t]}) => /\ mutex'["global"] = mutex["global"]
                                 /\ \A p \in Procs :
                                      mutex'[p] = IF p = proc[t] THEN t ELSE mutex[p]
         /\ Unlock({proc[t]}) => /\ mutex'["global"] = mutex["global"]
                                /\ \A p \in Procs :
                                     mutex'[p] = IF p = proc[t] THEN Nobody ELSE mutex[p]
<1>1. proc[t] \in Procs /\ proc[t] # "global"
  BY MutexNames DEF Types
<1> QED BY <1>1, MutexNames DEF Lock, Unlock

LEMMA HoldersStep ==
  ASSUME NEW t \in Threads, NEW from, NEW to \in ThreadSteps, Types, Holders,
         Go(t, from, to),
         mutex'["global"] = t => to \in GlobalSteps,
         mutex'["global"] \in {mutex["global"], t, Nobody},
         \A p \in Procs : mutex'[p] = t => p = proc[t] /\ to \in ProcSteps,
         \A p \in Procs : mutex'[p] \in {mutex[p], t, Nobody}
  PROVE  Holders'
<1>1. t \in Actors /\ t # Timer
  BY MutexNames DEF Actors
<1>2. /\ at'[t] = to
      /\ \A b \in Actors : b # t => at'[b] = at[b]
      /\ proc' = proc
  BY <1>1, GoType DEF Go
<1> QED BY <1>1, <1>2, MutexNames DEF Holders, Actors

\* A step that keeps what it holds.
LEMMA HoldersKept ==
  ASSUME NEW t \in Threads, NEW from, NEW to \in ThreadSteps, Types, Holders,
         Go(t, from, to), UNCHANGED mutex,
         from \in GlobalSteps => to \in GlobalSteps,
         from \in ProcSteps => to \in ProcSteps
  PROVE  Holders'
BY HoldersStep, GoFrom DEF Holders, Actors

LEMMA ThreadHolders ==
  ASSUME NEW t \in Threads, Types, Holders, Step(t)
  PROVE  Holders'
<1> USE MutexNames, GoFrom
<1> t \in Actors
  BY DEF Actors
<1>1. ASSUME NEW from, NEW how, Crash(t, from, how)
      PROVE  Holders'
  BY <1>1, HoldersKept DEF Crash, ThreadSteps, GlobalSteps, ProcSteps
<1>2. ASSUME NEW from \in ThreadSteps \ GlobalSteps,
             NEW to \in ProcSteps \intersect ThreadSteps,
             Go(t, from, to), Lock(t, {proc[t]})
      PROVE  Holders'
  BY <1>2, OwnMutex, HoldersStep DEF Holders
<1>3. ASSUME NEW from \in ThreadSteps \ GlobalSteps, NEW to \in ThreadSteps,
             Go(t, from, to), Unlock({proc[t]})
      PROVE  Holders'
  <2>0. at[t] = from
    BY <1>3
  <2>1. mutex["global"] # t /\ mutex'["global"] = mutex["global"]
    BY <1>3, <2>0, OwnMutex DEF Holders
  <2>2. \A p \in Procs : mutex'[p] # t /\ mutex'[p] \in {mutex[p], Nobody}
    BY <1>3, OwnMutex DEF Holders
  <2> QED BY <1>3, <2>1, <2>2, HoldersStep
<1>a. ASSUME NEW from, NEW to \in GlobalSteps \intersect ThreadSteps, Go(t, from, to),
             from \in ProcSteps => to \in ProcSteps, Lock(t, {"global"})
      PROVE  Holders'
  <2>1. /\ mutex'["global"] = t
        /\ \A p \in Procs : mutex'[p] = mutex[p]
    BY <1>a DEF Lock
  <2>2. \A p \in Procs : mutex'[p] = t => p = proc[t] /\ to \in ProcSteps
    BY <1>a, <2>1 DEF Holders
  <2> QED BY <1>a, <2>1, <2>2, HoldersStep
<1>b. ASSUME NEW from, NEW to \in ThreadSteps, Go(t, from, to),
             from \in ProcSteps => to \in ProcSteps, Unlock({"global"})
      PROVE  Holders'
  <2>1. /\ mutex'["global"] = Nobody /\ Nobody # t
        /\ \A p \in Procs : mutex'[p] = mutex[p]
    BY <1>b, OverlappingCallsAssumption DEF Unlock
  <2>2. \A p \in Procs : mutex'[p] = t => p = proc[t] /\ to \in ProcSteps
    BY <1>b, <2>1 DEF Holders
  <2> QED BY <1>b, <2>1, <2>2, HoldersStep
<1>4. CASE \E e \in Pages, store \in Stores : Instruct(t, e, store)
  BY <1>4, HoldersStep
     DEF Instruct, Begin, Lock, DriverMutex, Holders, ThreadSteps, GlobalSteps,
         ProcSteps, Faulting, Deleting, Creating
<1>5. CASE \E e \in Pages : Delete(t, e) \/ Create(t, e)
  BY <1>2, <1>5
     DEF Delete, Create, Begin, ThreadSteps, GlobalSteps, ProcSteps, Deleting, Creating
<1>6. CASE EnterAccess(t)
  BY <1>a, <1>6
     DEF EnterAccess, ThreadSteps, Accessing, GlobalSteps, ProcSteps, Faulting, Deleting,
         Creating
<1>7. CASE CheckValid(t) \/ LookUp(t)
  <2>1. PICK from \in {"valid", "lookup"}, to \in {"lookup", "dirty", "refer", "refused"} :
          /\ Go(t, from, to)
          /\ \/ to # "refused" /\ UNCHANGED mutex
             \/ Unlock({"global"})
    BY <1>7 DEF CheckValid, LookUp
  <2> QED BY <1>b, <2>1, HoldersKept
          DEF ThreadSteps, Accessing, GlobalSteps, ProcSteps, Faulting, Deleting, Creating
<1>8. CASE SetDirty(t) \/ WriteDirty(t) \/ SetReferenced(t)
  BY <1>8, HoldersKept
     DEF SetDirty, WriteDirty, SetReferenced, ThreadSteps, Accessing, GlobalSteps, ProcSteps,
         Faulting, Deleting, Creating
<1>9. CASE WriteReferenced(t)
  <2>1. PICK from \in {"referred", "referredFree"} : Go(t, from, "address")
    BY <1>9 DEF WriteReferenced
  <2> QED BY <1>b, <1>9, <2>1
          DEF WriteReferenced, ThreadSteps, Accessing, ProcSteps, Faulting, Deleting, Creating
<1>10. CASE GotNull(t) \/ NoVictim(t)
  BY <1>1, <1>10 DEF GotNull, NoVictim
<1>11. CASE EnterAddress(t) \/ Translate(t)
  BY <1>2, <1>3, <1>11
     DEF EnterAddress, Translate, ThreadSteps, Accessing, GlobalSteps, ProcSteps
<1>12. CASE NoAddress(t)
  BY <1>1, <1>12, HoldersKept
     DEF NoAddress, ThreadSteps, GlobalSteps, ProcSteps, Faulting, Deleting, Creating
<1>13. CASE Use(t)
  BY <1>13, HoldersStep
     DEF Use, Return, Unlock, DriverMutex, Holders, ThreadSteps, GlobalSteps,
         ProcSteps, Faulting, Deleting, Creating
<1>14. CASE EnterFault(t)
  BY <1>1, <1>2, <1>14 DEF EnterFault, ThreadSteps, GlobalSteps, ProcSteps, Faulting
<1>15. CASE FaultRefused(t)
  BY <1>1, <1>3, <1>15 DEF FaultRefused, Return, ThreadSteps, GlobalSteps, Faulting
<1>16. CASE StartScan(t) \/ Scan(t) \/ Evict(t) \/ WriteUnloaded(t) \/ WriteBack(t)
  BY <1>16, HoldersKept
     DEF StartScan, Scan, Evict, WriteUnloaded, WriteBack, ThreadSteps, GlobalSteps,
         ProcSteps, Faulting
<1>17. CASE Claim(t) \/ Own(t) \/ Install(t) \/ WriteLoaded(t)
  BY <1>17, HoldersKept
     DEF Claim, Own, Install, WriteLoaded, ThreadSteps, GlobalSteps, ProcSteps, Faulting
<1>18. CASE Read(t)
  BY <1>3, <1>18 DEF Read, ThreadSteps, GlobalSteps, Faulting
<1>19. CASE DeletePage(t) \/ GetTable(t) \/ FreeFrame(t) \/ FreeCluster(t) \/ SetUnused(t)
  BY <1>19, HoldersKept
     DEF DeletePage, GetTable, FreeFrame, FreeCluster, SetUnused, ThreadSteps,
         GlobalSteps, ProcSteps, Deleting
<1>20. CASE ReadBits(t)
  BY <1>20, HoldersKept
     DEF ReadBits, ReadByte, ThreadSteps, GlobalSteps, ProcSteps, Deleting, Creating
<1>21. CASE DeleteNothing(t) \/ CreateNothing(t) \/ WriteUnused(t) \/ CreatePage(t)
  BY <1>3, <1>21
     DEF DeleteNothing, CreateNothing, WriteUnused, CreatePage, Return, ThreadSteps,
         GlobalSteps, Deleting, Creating
<1>22. CASE StartAllocating(t) \/ TakeCluster(t)
  BY <1>a, <1>b, <1>22
     DEF StartAllocating, TakeCluster, ThreadSteps, GlobalSteps, ProcSteps, Creating
<1>23. CASE WriteBackFails(t) \/ GiveUp(t) \/ ReadFails(t)
  <2>1. CASE Go(t, "writeBack", "unwritten") /\ UNCHANGED mutex
    BY <2>1, HoldersKept DEF ThreadSteps, GlobalSteps, ProcSteps, Faulting
  <2>2. ASSUME NEW from \in {"unwritten", "read"}, Return(t, from, {proc[t]})
        PROVE  Holders'
    BY <1>3, <2>2 DEF Return, ThreadSteps, GlobalSteps, Faulting
  <2> QED BY <1>1, <1>23, <2>1, <2>2, Failing
<1> QED
  BY <1>4, <1>5, <1>6, <1>7, <1>8, <1>9, <1>10, <1>11, <1>12, <1>13, <1>14, <1>15,
     <1>16, <1>17, <1>18, <1>19, <1>20, <1>21, <1>22, <1>23
     DEF Step

LEMMA TimerHolders ==
  ASSUME Types, Holders, Tick
  PROVE  Holders'
<1> USE MutexNames
<1> Timer \in Actors /\ Threads \subseteq Actors
  BY DEF Actors
<1>1. ASSUME NEW from, NEW to \in TimerSteps, Go(Timer, from, to),
             mutex'["global"] = Timer => to \in Ageing,
             mutex'["global"] \in {mutex["global"], Timer, Nobody},
             \A p \in Procs : mutex'[p] = mutex[p]
      PROVE  Holders'
  <2>1. /\ at'[Timer] = to
        /\ \A t \in Threads : at'[t] = at[t]
        /\ proc' = proc
    BY <1>1, GoType DEF Go
  <2> QED BY <1>1, <2>1 DEF Holders
<1>2. CASE StartJob
  BY <1>1, <1>2 DEF StartJob, Lock, TimerSteps, Ageing
<1>3. ASSUME Aged(frame[Timer]),
             Go(Timer, "age", AfterAgeing(frame[Timer]))
               \/ Go(Timer, "aged", AfterAgeing(frame[Timer]))
      PROVE  Holders'
  BY <1>1, <1>3 DEF Aged, AfterAgeing, Unlock, TimerSteps, Ageing
<1>4. CASE SkipFree \/ WriteShifted
  BY <1>3, <1>4 DEF SkipFree, WriteShifted
<1>5. CASE Shift
  BY <1>1, <1>5 DEF Shift, TimerSteps, Ageing
<1>6. CASE Poll
  BY <1>1, <1>6 DEF Poll, Go, Holders, TimerSteps, Ageing
<1> QED BY <1>2, <1>4, <1>5, <1>6 DEF Tick

THEOREM HoldersInvariant == Spec => [](Types /\ Holders)
<1>1. Init => Holders
  BY MutexNames DEF Init, Holders
<1>2. Types /\ Holders /\ [Next]_vars => Holders'
  BY ThreadHolders, TimerHolders DEF Next, Ended, vars, Holders
<1> QED BY InitTypes, NextTypes, <1>1, <1>2, PTL DEF Spec

\* Whoever waits while it holds the kernel's mutex is a thread in access, and it
\* waits for its process's mutex alone.
LEMMA WaitingHolder ==
  ASSUME NEW a \in Actors, Types, Holders, mutex["global"] = a,
         NEW m \in Wants(a)
  PROVE  /\ a \in Threads
         /\ m = proc[a]
         /\ at[a] \in {"valid", "lookup", "dirty", "refer"}
<1>1. a # Timer
  BY DEF Wants, Holders, Ageing
<1>2. a \in Threads /\ at[a] \in GlobalSteps
  BY <1>1 DEF Holders, Actors
<1> QED BY <1>1, <1>2 DEF Wants, GlobalSteps

\* With one thread for each process no circle of mutexes forms, however many
\* processes there are: the holder of the kernel's mutex can always go on.
THEOREM NoCircle == Spec => []GlobalHolderRuns
<1>1. Types /\ Holders => GlobalHolderRuns
  <2> SUFFICES ASSUME Types, Holders, Separate, NEW a \in Actors, mutex["global"] = a,
                      NEW m \in Wants(a)
               PROVE  Unlocked(m)
    BY DEF GlobalHolderRuns
  <2>1. /\ a \in Threads /\ m = proc[a] /\ m \in Procs
        /\ at[a] \in {"valid", "lookup", "dirty", "refer"}
    BY WaitingHolder DEF Types
  <2>2. at[a] \notin ProcSteps
    BY <2>1 DEF ProcSteps, Faulting, Deleting, Creating
  <2>3. \A t \in Threads : mutex[m] # t
    BY <2>1, <2>2 DEF Holders, Separate
  <2> QED BY <2>1, <2>3, MutexNames DEF Unlocked, Holders, Types, Data, Actors
<1> QED BY <1>1, HoldersInvariant, PTL

-----------------------------------------------------------------------------
(* How threads stop each other *)

\* Steps of an instruction, over which the driver's mutex is held.
\* With the driver nobody goes on from a page that could not be written.
Instructing == (Accessing \union Faulting \union {"access", "refused", "crashed"})
                 \ {"unwritten"}

DriverHeld ==
  /\ mutex["driver"] # Timer
  /\ \A t \in Threads : mutex["driver"] = t => Guarded /\ at[t] \in Instructing

LEMMA DriverHeldStep ==
  ASSUME Types, DriverHeld, NEW t \in Threads, NEW from, NEW to \in ThreadSteps,
         Go(t, from, to), mutex'["driver"] = mutex["driver"],
         from \in Instructing /\ Guarded => to \in Instructing
  PROVE  DriverHeld'
<1>1. t \in Actors /\ t # Timer
  BY MutexNames DEF Actors
<1>2. /\ at[t] = from /\ at'[t] = to
      /\ \A u \in Threads : u # t => at'[u] = at[u]
  BY <1>1, GoType DEF Actors
<1> QED BY <1>2 DEF DriverHeld

LEMMA ThreadDriverHeld ==
  ASSUME Types, DriverHeld, NEW t \in Threads, Step(t)
  PROVE  DriverHeld'
<1> USE GoFrom
<1> t \in Actors /\ proc[t] \in Procs /\ t # Timer
  BY MutexNames DEF Actors, Types
<1>m. ASSUME NEW m \in Procs \union {"global"}
      PROVE  Lock(t, {m}) \/ Unlock({m}) => mutex'["driver"] = mutex["driver"]
  BY MutexNames DEF Lock, Unlock
<1>c. ASSUME NEW from, NEW how, Crash(t, from, how)
      PROVE  DriverHeld'
  BY <1>c, DriverHeldStep DEF Crash, ThreadSteps, Instructing
<1>1. CASE \E e \in Pages, store \in Stores : Instruct(t, e, store)
  <2>1. Go(t, "idle", "access") /\ Lock(t, DriverMutex)
    BY <1>1 DEF Instruct, Begin
  <2>2. at'[t] = "access" /\ \A u \in Threads : u # t => at'[u] = at[u]
    BY <2>1, GoType DEF ThreadSteps, Actors
  <2>3. mutex'["driver"] = IF Guarded THEN t ELSE mutex["driver"]
    BY <2>1, MutexNames, OverlappingCallsAssumption DEF Lock, DriverMutex
  <2>4. ~Guarded => \A u \in Threads : mutex["driver"] # u
    BY DEF DriverHeld
  <2> QED BY <2>2, <2>3, <2>4 DEF DriverHeld, Instructing
<1>2. CASE \E e \in Pages : Delete(t, e) \/ Create(t, e)
  BY <1>2, <1>m, DriverHeldStep
     DEF Delete, Create, Begin, ThreadSteps, Deleting, Creating, Instructing, Accessing,
         Faulting
<1>3. CASE EnterAccess(t) \/ CheckValid(t) \/ LookUp(t) \/ SetDirty(t) \/ WriteDirty(t)
             \/ SetReferenced(t) \/ WriteReferenced(t) \/ EnterAddress(t) \/ Translate(t)
  BY <1>3, <1>m, DriverHeldStep
     DEF EnterAccess, CheckValid, LookUp, SetDirty, WriteDirty, SetReferenced,
         WriteReferenced, EnterAddress, Translate, ThreadSteps, Instructing, Accessing
<1>4. CASE GotNull(t) \/ NoVictim(t)
  BY <1>4, <1>c DEF GotNull, NoVictim
<1>5. CASE NoAddress(t)
  BY <1>5, <1>c, DriverHeldStep DEF NoAddress, ThreadSteps, Instructing
<1>6. CASE Use(t)
  <2>1. Go(t, "use", "idle") /\ Unlock(DriverMutex)
    BY <1>6 DEF Use, Return
  <2>2. CASE Guarded
    <3>1. mutex'["driver"] = Nobody
      BY <2>1, <2>2, MutexNames DEF Unlock, DriverMutex
    <3> QED BY <3>1, MutexNames DEF DriverHeld
  <2>3. CASE ~Guarded
    <3>1. mutex'["driver"] = mutex["driver"]
      BY <2>1, <2>3, MutexNames DEF Unlock, DriverMutex
    <3> QED BY <2>1, <2>3, <3>1, DriverHeldStep DEF ThreadSteps
  <2> QED BY <2>2, <2>3
<1>7. CASE EnterFault(t) \/ FaultRefused(t)
  BY <1>7, <1>c, <1>m, DriverHeldStep
     DEF EnterFault, FaultRefused, Return, ThreadSteps, Instructing, Faulting
<1>8. CASE StartScan(t) \/ Scan(t) \/ Evict(t) \/ WriteUnloaded(t) \/ WriteBack(t)
             \/ Claim(t) \/ Own(t) \/ Install(t) \/ WriteLoaded(t) \/ Read(t)
  BY <1>8, <1>m, DriverHeldStep
     DEF StartScan, Scan, Evict, WriteUnloaded, WriteBack, Claim, Own, Install,
         WriteLoaded, Read, ThreadSteps, Instructing, Faulting
<1>9. CASE DeleteNothing(t) \/ DeletePage(t) \/ GetTable(t) \/ FreeFrame(t)
             \/ ReadBits(t) \/ FreeCluster(t) \/ SetUnused(t) \/ WriteUnused(t)
  BY <1>9, <1>m, DriverHeldStep
     DEF DeleteNothing, DeletePage, GetTable, FreeFrame, ReadBits, ReadByte, FreeCluster,
         SetUnused, WriteUnused, Return, ThreadSteps, Deleting, Creating, Instructing,
         Accessing, Faulting
<1>10. CASE CreateNothing(t) \/ StartAllocating(t) \/ TakeCluster(t) \/ CreatePage(t)
  BY <1>10, <1>m, DriverHeldStep
     DEF CreateNothing, StartAllocating, TakeCluster, CreatePage, Return, ThreadSteps,
         Creating, Instructing, Accessing, Faulting
<1>11. CASE WriteBackFails(t) \/ GiveUp(t) \/ ReadFails(t)
  <2>1. CASE ~Guarded /\ Go(t, "writeBack", "unwritten") /\ UNCHANGED mutex
    BY <2>1, DriverHeldStep DEF ThreadSteps, Faulting
  <2>2. ASSUME NEW from, Return(t, from, {proc[t]}), from = "unwritten" \/ ~Guarded
        PROVE  DriverHeld'
    BY <1>m, <2>2, DriverHeldStep DEF Return, ThreadSteps, Instructing
  <2> QED BY <1>c, <1>11, <2>1, <2>2 DEF WriteBackFails, GiveUp, ReadFails
<1> QED
  BY <1>1, <1>2, <1>3, <1>4, <1>5, <1>6, <1>7, <1>8, <1>9, <1>10, <1>11 DEF Step

LEMMA TimerDriverHeld ==
  ASSUME Types, DriverHeld, Tick
  PROVE  DriverHeld'
<1> Timer \in Actors /\ Timer \notin Threads
  BY MutexNames DEF Actors
<1>1. mutex'["driver"] = mutex["driver"]
  BY MutexNames
     DEF Tick, StartJob, SkipFree, Shift, WriteShifted, Poll, Aged, Lock, Unlock
<1>2. PICK from, to \in TimerSteps : Go(Timer, from, to)
  BY DEF Tick, StartJob, SkipFree, Shift, WriteShifted, Poll, AfterAgeing, TimerSteps
<1>3. \A t \in Threads : at'[t] = at[t]
  BY <1>2, GoType DEF Actors
<1> QED BY <1>1, <1>3 DEF DriverHeld

THEOREM DriverHeldInvariant == Spec => [](Types /\ DriverHeld)
<1>1. Init => DriverHeld
  BY MutexNames DEF Init, DriverHeld
<1>2. Types /\ DriverHeld /\ [Next]_vars => DriverHeld'
  BY ThreadDriverHeld, TimerDriverHeld DEF Next, Ended, vars, DriverHeld
<1> QED BY InitTypes, NextTypes, <1>1, <1>2, PTL DEF Spec

\* Who holds a mutex of a process and waits, waits for the kernel's.
LEMMA ProcHolderWaits ==
  ASSUME Types, Holders, NEW b \in Threads, NEW p \in Procs, mutex[p] = b, Waits(b)
  PROVE  Wants(b) = {"global"} /\ ~Unlocked("global")
<1>1. at[b] \in ProcSteps /\ b # Timer
  BY MutexNames DEF Holders
<1>2. Wants(b) \subseteq {"global"}
  BY <1>1 DEF Wants, ProcSteps, Faulting, Deleting, Creating
<1> QED BY <1>2 DEF Waits

\* Who holds the kernel's mutex and waits is in access and waits for a thread of its
\* own process.
LEMMA GlobalHolderWaits ==
  ASSUME Types, Holders, NEW a \in Actors, mutex["global"] = a, Waits(a)
  PROVE  /\ a \in Threads /\ at[a] \in Accessing
         /\ Wants(a) = {proc[a]}
         /\ \E b \in Threads : mutex[proc[a]] = b /\ proc[b] = proc[a] /\ at[b] # "idle"
<1>1. PICK m \in Wants(a) : ~Unlocked(m)
  BY DEF Waits
<1>2. /\ a \in Threads /\ m = proc[a] /\ proc[a] \in Procs
      /\ at[a] \in {"valid", "lookup", "dirty", "refer"}
  BY <1>1, WaitingHolder DEF Types
<1>3. Wants(a) = {proc[a]}
  BY <1>2, MutexNames DEF Wants
<1>4. mutex[proc[a]] \in Threads
  BY <1>1, <1>2, MutexNames DEF Unlocked, Holders, Types, Data, Actors
<1>5. proc[mutex[proc[a]]] = proc[a] /\ at[mutex[proc[a]]] \in ProcSteps
  BY <1>2, <1>4 DEF Holders
<1>6. at[mutex[proc[a]]] # "idle" /\ at[a] \in Accessing
  BY <1>2, <1>5 DEF ProcSteps, Faulting, Deleting, Creating, Accessing
<1> QED BY <1>2, <1>3, <1>4, <1>5, <1>6

\* Threads stop each other in one way only, however many there are of however many
\* processes: from the main program's wait, whether for the kernel's mutex or for the
\* driver's, one is led to the holder of the kernel's mutex, and from there to the
\* thread of the same process that waits for it.
THEOREM DeadlocksAreAccesses == Spec => []OnlyDeadlock
<1>1. Types /\ Holders /\ DriverHeld => OnlyDeadlock
  <2> SUFFICES ASSUME Types, Holders, DriverHeld, Stuck
               PROVE  \E a, b \in Threads :
                        /\ at[a] \in Accessing /\ mutex["global"] = a
                        /\ Wants(a) = {proc[a]} /\ mutex[proc[a]] = b
                        /\ proc[b] = proc[a] /\ Wants(b) = {"global"}
    BY DEF OnlyDeadlock
  <2>1. ~Unlocked("global")
    <3>1. at[Timer] # "idle" /\ Timer \in Actors
      BY DEF Types, Control, TimerSteps, Actors
    <3>2. CASE at[Timer] # "poll"
      BY <3>1, <3>2 DEF Stuck, Waits, Wants
    <3>3. CASE at[Timer] = "poll"
      <4>1. mutex["driver"] \in Threads
        <5>1. ~Unlocked("driver")
          BY <3>1, <3>3 DEF Stuck, Waits, Wants
        <5> QED BY <5>1, MutexNames DEF Unlocked, DriverHeld, Types, Data, Actors
      <4>2. PICK c \in Threads : mutex["driver"] = c
        BY <4>1
      <4>3. at[c] # "idle"
        BY <4>2 DEF DriverHeld, Instructing, Accessing, Faulting
      <4>4. Waits(c) /\ c # Timer
        BY <4>3, MutexNames DEF Stuck, Actors
      <4>5. CASE "global" \in Wants(c)
        BY <4>4, <4>5 DEF Waits, Wants
      <4>6. CASE "global" \notin Wants(c)
        <5>1. proc[c] \in Procs /\ ~Unlocked(proc[c])
          BY <4>4, <4>6 DEF Waits, Wants, Types
        <5>2. PICK b \in Threads : mutex[proc[c]] = b
          BY <5>1, MutexNames DEF Unlocked, Holders, Types, Data, Actors
        <5>3. at[b] # "idle"
          BY <5>1, <5>2 DEF Holders, ProcSteps, Faulting, Deleting, Creating
        <5>4. Waits(b)
          BY <5>3 DEF Stuck, Actors
        <5> QED BY <5>1, <5>2, <5>4, ProcHolderWaits
      <4> QED BY <4>5, <4>6
    <3> QED BY <3>2, <3>3
  <2>2. mutex["global"] \in Actors /\ at[mutex["global"]] # "idle"
    <3>1. mutex["global"] \in Actors
      BY <2>1, MutexNames DEF Unlocked, Types, Data
    <3> QED BY <3>1 DEF Holders, GlobalSteps, Ageing, Actors
  <2>3. Waits(mutex["global"])
    BY <2>2 DEF Stuck
  <2>4. PICK b \in Threads :
          /\ mutex[proc[mutex["global"]]] = b /\ proc[b] = proc[mutex["global"]]
          /\ at[b] # "idle"
    BY <2>2, <2>3, GlobalHolderWaits
  <2>5. Waits(b)
    BY <2>4 DEF Stuck, Actors
  <2>6. mutex["global"] \in Threads /\ proc[mutex["global"]] \in Procs
    BY <2>2, <2>3, GlobalHolderWaits DEF Types
  <2>7. Wants(b) = {"global"}
    BY <2>4, <2>5, <2>6, ProcHolderWaits
  <2> QED BY <2>2, <2>3, <2>4, <2>6, <2>7, GlobalHolderWaits
<1> QED BY <1>1, DriverHeldInvariant, HoldersInvariant, PTL

\* With one thread for each process there is always someone who can go on.
THEOREM SomebodyMoves == Spec => [](Separate => ~Stuck)
<1>1. Types /\ OnlyDeadlock /\ Separate => ~Stuck
  <2> SUFFICES ASSUME Types, OnlyDeadlock, Separate, Stuck
               PROVE  FALSE
    OBVIOUS
  <2>1. PICK a, b \in Threads : /\ at[a] \in Accessing /\ mutex["global"] = a
                               /\ Wants(a) = {proc[a]} /\ mutex[proc[a]] = b
                               /\ proc[b] = proc[a] /\ Wants(b) = {"global"}
    BY DEF OnlyDeadlock
  <2>2. a = b
    BY <2>1 DEF Separate
  <2> QED BY <2>1, <2>2, MutexNames DEF Types
<1> QED BY <1>1, TypesInvariant, DeadlocksAreAccesses, PTL

-----------------------------------------------------------------------------
(* What raced records, and whose pages threads are at *)

\* Harmful calls that overlap, and an eviction that failed, have been recorded.
Recorded ==
  /\ Overlap(HarmfulToFrames) \/ Unwritten => "frames" \in raced
  /\ Overlap(HarmfulToClusters) => "clusters" \in raced

\* A call is about a page of the thread's own process.
OwnPages ==
  \A t \in Threads : at[t] \notin {"idle", "crashed"} => Page(t)[1] = proc[t]

\* Who writes flags back, and to which entry.
Setters ==
  /\ \A t \in Threads :
       word[t].of # NoPage => at[t] \in {"dirtied", "unload", "load", "unused"}
  /\ \A t \in Threads :
       at[t] \in {"dirtied", "load", "unused"} => word[t].of = Page(t)

\* Who is between taking the kernel's mutex and giving it back has it.
KernelSteps == Ageing \union (GlobalSteps \ {"crashed"})
KernelHeld == \A a \in Actors : at[a] \in KernelSteps => mutex["global"] = a

-----------------------------------------------------------------------------
(* Frames *)

\* A fault brings its page to a frame.
Bringing == {"writeBack", "claim", "own", "install", "load"}
Searching == {"scan", "evict", "unload"}

\* The page is in no frame; it is in one.
Out == {"refused", "fault"} \union Searching \union Bringing
In  == {"dirty", "dirtied", "refer", "referred", "address", "translate", "use",
        "read", "unframe", "free"}

\* A page that is being deleted has given back its frame, if it had one.
Dropping == {"uncluster", "clear", "cleared", "unuse", "unused"}
GaveFrame(e) == \E t \in Threads : at[t] \in Dropping /\ Page(t) = e

Has(f, e) == holder[f] = e /\ InFrame(e) /\ frameNum[e] = f /\ ~GaveFrame(e)

\* Frame table and page tables agree but for the pages that are being brought in or
\* deleted.
Settled ==
  /\ \A e \in Pages :
       InFrame(e) /\ ~GaveFrame(e) => ~free[frameNum[e]] /\ holder[frameNum[e]] = e
  /\ \A f \in Frames :
       ~free[f] => \/ \E e \in Pages : Has(f, e)
                   \/ \E t \in Threads : at[t] \in Bringing /\ frame[t] = f

\* What a call knows of its page, and a setter of the flags it read.
Sees(t) ==
  /\ at[t] \in Out => ~InFrame(Page(t))
  /\ at[t] \in {"lookup"} \union Searching \union Bringing => Used(t)
  /\ at[t] \in In => InFrame(Page(t))
  /\ at[t] \in {"seek", "mark", "fill"} => ~Used(t)
  /\ at[t] \in {"dirtied", "load", "unused"} => word[t].flags = flags[Page(t)]
  /\ at[t] \in {"referred", "translate", "use"} => frame[t] = frameNum[Page(t)]
  /\ at[t] # "referredFree"

\* What a fault knows of the frames.
Finds(t) ==
  /\ at[t] = "scan" => \A f \in Frames : f < frame[t] => ~free[f]
  /\ at[t] \in {"evict", "unload"} => \A f \in Frames : ~free[f]
  /\ at[t] = "unload" => word[t] = [of |-> Victim(t), flags |-> flags[Victim(t)]]
  /\ at[t] \in Bringing => \A e \in Pages : InFrame(e) => frameNum[e] # frame[t]
  /\ at[t] \in {"own", "install", "load"} => ~free[frame[t]]
  /\ at[t] \in {"install", "load"} => Victim(t) = Page(t)

SweepSees == at[Timer] = "aged" => ~free[frame[Timer]]

FrameKnowledge == Settled /\ SweepSees /\ \A t \in Threads : Sees(t) /\ Finds(t)

\* A program that ended in the midst of a fault left the frame table as it was.
FrameInv == "frames" \notin raced /\ crash # "transfer" => FrameKnowledge

-----------------------------------------------------------------------------
(* Clusters *)

\* The used bit a setter read is the one it will write over, a page that is created
\* is not in use, one that is deleted is, and who writes the bitmap read what it says.
KnowsUse(t) ==
  /\ word[t].of # NoPage => word[t].flags.used = flags[word[t].of].used
  /\ at[t] \in {"seek", "mark", "fill"} => ~Used(t)
  /\ at[t] \in Deleting \ {"delete"} => Used(t)
  /\ at[t] \in {"mark", "cleared"} => byte[t] = bits

\* The page a thread creates is none another evicts.
EvictsOther(t, u) ==
  at[t] \in {"seek", "mark", "fill"} /\ at[u] = "unload" => word[u].of # Page(t)

UsedKnown == \A t \in Threads : KnowsUse(t) /\ \A u \in Threads : EvictsOther(t, u)

\* A page has a cluster from when its bit is set to when it is cleared.
HasCluster(e) ==
  \/ flags[e].used /\ ~ \E t \in Threads : at[t] \in {"unuse", "unused"} /\ Page(t) = e
  \/ \E t \in Threads : at[t] = "fill" /\ Page(t) = e

Holding == {e \in Pages : HasCluster(e)}

Allotted ==
  /\ \A d, e \in Holding : cluster[d] = cluster[e] => d = e
  /\ bits = {cluster[e] : e \in Holding}

ClusterInv == "clusters" \notin raced => UsedKnown /\ Allotted

\* No call follows a null entry; a program without the driver has no assertions.
CrashInv == "frames" \notin raced /\ ~Guarded => crash = "none"

\* A transfer that failed ended the program in a fault, which no access overlapped.
Failed ==
  crash = "transfer" =>
    /\ \E t \in Threads : at[t] = "crashed"
    /\ "frames" \notin raced => \A t \in Threads : at[t] \notin Accessing

\* What is recorded and known of the control.
Controlled == Types /\ Recorded /\ OwnPages /\ Setters /\ KernelHeld

RaceInv == Controlled /\ Failed /\ (Separate => FrameInv /\ ClusterInv /\ CrashInv)

-----------------------------------------------------------------------------
(* Steps *)

LEMMA ThreadsAct == /\ Threads \subseteq Actors /\ Timer \in Actors
                    /\ \A t \in Threads : t # Timer
BY MutexNames DEF Actors

\* What every step of an actor does, whatever else it does.
LEMMA Goes1 ==
  ASSUME Types, NEW a \in Actors, NEW from, NEW to, Go(a, from, to)
  PROVE  /\ at[a] = from /\ at'[a] = to
         /\ \A b \in Actors : b # a => at'[b] = at[b]
         /\ crash = "none" /\ proc' = proc
         /\ raced \subseteq raced'
         /\ Recorded'
         /\ "frames" \in raced /\ Overlap({<<Faulting, Creating>>})' => "clusters" \in raced'
<1>1. at \in [Actors -> Steps]
  BY DEF Types, Control
<1>2. raced' = raced \union Spoiled'
               \union (IF "frames" \in raced THEN SpoiledAfterFrames' ELSE {})
  BY DEF Go
<1>3. Recorded'
  BY <1>2 DEF Recorded, Spoiled
<1>4. "frames" \in raced /\ Overlap({<<Faulting, Creating>>})' => "clusters" \in raced'
  BY <1>2 DEF SpoiledAfterFrames
<1> QED BY <1>1, <1>2, <1>3, <1>4 DEF Go

\* Locals of others stay as they are.
KeepsOthers(t) ==
  /\ \A u \in Threads : u # t => /\ call'[u] = call[u] /\ word'[u] = word[u]
                                 /\ frame'[u] = frame[u] /\ byte'[u] = byte[u]
  /\ frame'[Timer] = frame[Timer]

LEMMA StepKeepsOthers ==
  ASSUME Types, NEW t \in Threads, Step(t)
  PROVE  KeepsOthers(t)
<1> t # Timer /\ Timer \in Actors /\ Threads \subseteq Actors
  BY ThreadsAct
<1>1. /\ \A x : call' = [call EXCEPT ![t] = x] =>
                \A u \in Threads : u # t => call'[u] = call[u]
      /\ \A x : word' = [word EXCEPT ![t] = x] =>
                \A u \in Threads : u # t => word'[u] = word[u]
      /\ \A x : byte' = [byte EXCEPT ![t] = x] =>
                \A u \in Threads : u # t => byte'[u] = byte[u]
      /\ \A x : frame' = [frame EXCEPT ![t] = x] =>
                \A u \in Actors : u # t => frame'[u] = frame[u]
  BY DEF Types, Data, LocalTypes
<1>2. CASE \E e \in Pages : Delete(t, e) \/ Create(t, e)
                              \/ \E store \in Stores : Instruct(t, e, store)
  BY <1>1, <1>2 DEF Delete, Create, Instruct, Begin, KeepsOthers
<1>3. CASE EnterAccess(t) \/ CheckValid(t) \/ GotNull(t) \/ LookUp(t)
  BY <1>3 DEF EnterAccess, CheckValid, GotNull, LookUp, Crash, KeepsOthers, locals
<1>4. CASE SetDirty(t) \/ WriteDirty(t) \/ SetReferenced(t) \/ WriteReferenced(t)
  BY <1>1, <1>4 DEF SetDirty, WriteDirty, SetReferenced, WriteReferenced, ReadFlags,
                    WriteFlags, KeepsOthers, locals
<1>5. CASE EnterAddress(t) \/ NoAddress(t) \/ Translate(t) \/ Use(t)
  BY <1>1, <1>5 DEF EnterAddress, NoAddress, Translate, Use, Return, Crash, KeepsOthers,
                    locals
<1>6. CASE EnterFault(t) \/ FaultRefused(t) \/ StartScan(t) \/ Scan(t)
  <2>1. CASE Scan(t)
    BY <1>1, <2>1 DEF Scan, KeepsOthers
  <2> QED BY <1>1, <1>6, <2>1 DEF EnterFault, FaultRefused, StartScan, Return, Crash,
                                  KeepsOthers, locals
<1>7. CASE NoVictim(t) \/ Evict(t) \/ WriteUnloaded(t) \/ WriteBack(t)
  BY <1>1, <1>7 DEF NoVictim, Evict, WriteUnloaded, WriteBack, Crash, ReadFlags,
                    WriteFlags, KeepsOthers, locals
<1>8. CASE Claim(t) \/ Own(t) \/ Install(t) \/ WriteLoaded(t) \/ Read(t)
  BY <1>1, <1>8 DEF Claim, Own, Install, WriteLoaded, Read, ReadFlags, WriteFlags,
                    KeepsOthers, locals
<1>9. CASE DeleteNothing(t) \/ DeletePage(t) \/ GetTable(t) \/ FreeFrame(t)
  BY <1>1, <1>9 DEF DeleteNothing, DeletePage, GetTable, FreeFrame, Return, KeepsOthers,
                    locals
<1>10. CASE ReadBits(t) \/ FreeCluster(t) \/ SetUnused(t) \/ WriteUnused(t)
  BY <1>1, <1>10 DEF ReadBits, ReadByte, FreeCluster, WriteByte, SetUnused, WriteUnused,
                     ReadFlags, WriteFlags, Return, KeepsOthers, locals
<1>11. CASE CreateNothing(t) \/ StartAllocating(t) \/ TakeCluster(t) \/ CreatePage(t)
  BY <1>1, <1>11 DEF CreateNothing, StartAllocating, TakeCluster, WriteByte, CreatePage,
                     Return, KeepsOthers, locals
<1>12. CASE WriteBackFails(t) \/ GiveUp(t) \/ ReadFails(t)
  BY <1>1, <1>12, Failing DEF Return, Crash, KeepsOthers, locals
<1> QED
  BY <1>2, <1>3, <1>4, <1>5, <1>6, <1>7, <1>8, <1>9, <1>10, <1>11, <1>12 DEF Step

-----------------------------------------------------------------------------
(* Which pages, and whose locals *)

\* Calls of different threads are about different pages.
LEMMA OtherPage ==
  ASSUME OwnPages, Separate, NEW t \in Threads, NEW u \in Threads, t # u,
         at[t] \notin {"idle", "crashed"}, at[u] \notin {"idle", "crashed"}
  PROVE  Page(t) # Page(u)
BY DEF OwnPages, Separate

LEMMA InitControl == Init => Recorded /\ OwnPages /\ Setters /\ KernelHeld
<1> SUFFICES ASSUME Init PROVE Recorded /\ OwnPages /\ Setters /\ KernelHeld
  OBVIOUS
<1>1. \A t \in Threads : at[t] = "idle" /\ word[t].of = NoPage
  BY ThreadsAct DEF Init, NoWord
<1>2. at[Timer] = "tick"
  BY ThreadsAct DEF Init
<1>3. ~Overlap(HarmfulToFrames) /\ ~Overlap(HarmfulToClusters)
  BY <1>1, <1>2
     DEF Overlap, HarmfulToFrames, HarmfulToClusters, Actors, Accessing, Faulting,
         Deleting, Creating, Ageing
<1>4. KernelHeld
  BY <1>1, <1>2 DEF KernelHeld, KernelSteps, GlobalSteps, Ageing, Actors
<1>5. ~Unwritten
  BY <1>1 DEF Unwritten
<1> QED BY <1>1, <1>3, <1>4, <1>5 DEF Recorded, OwnPages, Setters

\* Every step moves a thread.
LEMMA StepGoes ==
  ASSUME NEW t \in Threads, Step(t)
  PROVE  \E from, to : Go(t, from, to)
<1>1. CASE \E e \in Pages : Delete(t, e) \/ Create(t, e)
                              \/ \E store \in Stores : Instruct(t, e, store)
  BY <1>1 DEF Delete, Create, Instruct, Begin
<1>2. CASE EnterAccess(t) \/ CheckValid(t) \/ GotNull(t) \/ LookUp(t)
  BY <1>2 DEF EnterAccess, CheckValid, GotNull, LookUp, Crash
<1>3. CASE SetDirty(t) \/ WriteDirty(t) \/ SetReferenced(t) \/ WriteReferenced(t)
  BY <1>3 DEF SetDirty, WriteDirty, SetReferenced, WriteReferenced
<1>4. CASE EnterAddress(t) \/ NoAddress(t) \/ Translate(t) \/ Use(t)
  BY <1>4 DEF EnterAddress, NoAddress, Translate, Use, Return, Crash
<1>5. CASE EnterFault(t) \/ FaultRefused(t) \/ StartScan(t) \/ Scan(t)
  BY <1>5 DEF EnterFault, FaultRefused, StartScan, Scan, Return, Crash
<1>6. CASE NoVictim(t) \/ Evict(t) \/ WriteUnloaded(t) \/ WriteBack(t)
  BY <1>6 DEF NoVictim, Evict, WriteUnloaded, WriteBack, Crash
<1>7. CASE Claim(t) \/ Own(t) \/ Install(t) \/ WriteLoaded(t) \/ Read(t)
  BY <1>7 DEF Claim, Own, Install, WriteLoaded, Read
<1>8. CASE DeleteNothing(t) \/ DeletePage(t) \/ GetTable(t) \/ FreeFrame(t)
  BY <1>8 DEF DeleteNothing, DeletePage, GetTable, FreeFrame, Return
<1>9. CASE ReadBits(t) \/ FreeCluster(t) \/ SetUnused(t) \/ WriteUnused(t)
  BY <1>9 DEF ReadBits, ReadByte, FreeCluster, SetUnused, WriteUnused, Return
<1>10. CASE CreateNothing(t) \/ StartAllocating(t) \/ TakeCluster(t) \/ CreatePage(t)
  BY <1>10 DEF CreateNothing, StartAllocating, TakeCluster, CreatePage, Return
<1>11. CASE WriteBackFails(t) \/ GiveUp(t) \/ ReadFails(t)
  BY <1>11, Failing DEF Return, Crash
<1> QED
  BY <1>1, <1>2, <1>3, <1>4, <1>5, <1>6, <1>7, <1>8, <1>9, <1>10, <1>11 DEF Step

LEMMA SetterSteps ==
  ASSUME Types, OwnPages, Setters, NEW t \in Threads, Step(t)
  PROVE  /\ at'[t] \notin {"idle", "crashed"} => Page(t)'[1] = proc[t]
         /\ word'[t].of # NoPage => at'[t] \in {"dirtied", "unload", "load", "unused"}
         /\ at'[t] \in {"dirtied", "load", "unused"} => word'[t].of = Page(t)'
<1> DEFINE Mine(lab) == lab \notin {"idle", "crashed"} => Page(t)'[1] = proc[t]
           Set(lab) == /\ word'[t].of # NoPage =>
                            lab \in {"dirtied", "unload", "load", "unused"}
                       /\ lab \in {"dirtied", "load", "unused"} => word'[t].of = Page(t)'
<1> t \in Actors
  BY ThreadsAct
<1>0. /\ word \in [Threads -> Words] /\ call \in [Threads -> [page : Pages \union {NoPage},
                                                  store : BOOLEAN, again : BOOLEAN]]
  BY DEF Types, Data, LocalTypes
<1>1. ASSUME NEW from, NEW to, Go(t, from, to), from \notin {"idle", "crashed"},
             Page(t)' = Page(t),
             \/ word'[t] = word[t] /\ from \notin {"dirtied", "unload", "load", "unused"}
                                   /\ to \notin {"dirtied", "load", "unused"}
             \/ word'[t].of = NoPage /\ to \notin {"dirtied", "load", "unused"}
             \/ to = "unload"
             \/ word'[t].of = Page(t) /\ to \in {"dirtied", "load", "unused"}
      PROVE  Mine(at'[t]) /\ Set(at'[t])
  <2>1. at[t] = from /\ at'[t] = to
    BY <1>1, Goes1
  <2> QED BY <1>1, <2>1 DEF OwnPages, Setters
<1>2. ASSUME NEW from, NEW to, Go(t, from, to), to \in {"idle", "crashed"},
             word'[t] = word[t] \/ word'[t].of = NoPage,
             from \notin {"dirtied", "unload", "load", "unused"} \/ word'[t].of = NoPage
      PROVE  Mine(at'[t]) /\ Set(at'[t])
  <2>1. at[t] = from /\ at'[t] = to
    BY <1>2, Goes1
  <2> QED BY <1>2, <2>1 DEF OwnPages, Setters
<1>3. ASSUME NEW from, NEW how, Crash(t, from, how),
             from \notin {"dirtied", "unload", "load", "unused"}
      PROVE  Mine(at'[t]) /\ Set(at'[t])
  BY <1>2, <1>3 DEF Crash, locals
<1>4. ASSUME NEW e \in Pages, NEW label \in {"access", "delete", "create"}, NEW store,
             Begin(t, label, e, store)
      PROVE  Mine(at'[t]) /\ Set(at'[t])
  <2>1. at[t] = "idle" /\ at'[t] = label
    BY <1>4, Goes1 DEF Begin
  <2>2. call'[t].page = e /\ e[1] = proc[t] /\ word' = word
    BY <1>0, <1>4 DEF Begin
  <2> QED BY <2>1, <2>2 DEF Page, Setters
<1>5. NoWord.of = NoPage
  BY DEF NoWord
<1> HIDE DEF Mine, Set
<1>6. CASE \E e \in Pages : Delete(t, e) \/ Create(t, e)
                              \/ \E store \in Stores : Instruct(t, e, store)
  BY <1>4, <1>6 DEF Delete, Create, Instruct, Mine, Set
<1>7. CASE GotNull(t) \/ NoVictim(t)
  BY <1>3, <1>7 DEF GotNull, NoVictim, Mine, Set
<1>8. CASE EnterAccess(t) \/ CheckValid(t) \/ LookUp(t)
  BY <1>1, <1>8 DEF EnterAccess, CheckValid, LookUp, locals, Page, Mine, Set
<1>9. CASE SetDirty(t)
  BY <1>0, <1>1, <1>9 DEF SetDirty, ReadFlags, Page, Mine, Set
<1>10. CASE WriteDirty(t)
  BY <1>0, <1>1, <1>5, <1>10 DEF WriteDirty, WriteFlags, Page, Mine, Set
<1>11. CASE SetReferenced(t) \/ WriteReferenced(t)
  BY <1>1, <1>11 DEF SetReferenced, WriteReferenced, locals, Page, Mine, Set
<1>12. CASE EnterAddress(t) \/ Translate(t) \/ StartScan(t)
  BY <1>1, <1>12 DEF EnterAddress, Translate, StartScan, locals, Page, Mine, Set
<1>13. CASE NoAddress(t)
  BY <1>1, <1>3, <1>13 DEF NoAddress, locals, Page, Mine, Set
<1>14. CASE Use(t) \/ DeleteNothing(t) \/ CreateNothing(t) \/ CreatePage(t)
  BY <1>2, <1>14 DEF Use, DeleteNothing, CreateNothing, CreatePage, Return, Mine, Set
<1>15. CASE EnterFault(t)
  BY <1>1, <1>3, <1>15 DEF EnterFault, locals, Page, Mine, Set
<1>16. CASE FaultRefused(t)
  BY <1>2, <1>3, <1>16 DEF FaultRefused, Return, Mine, Set
<1>17. CASE Scan(t)
  BY <1>1, <1>17 DEF Scan, Page, Mine, Set
<1>18. CASE Evict(t)
  BY <1>1, <1>18 DEF Evict, Page, Mine, Set
<1>19. CASE WriteUnloaded(t) \/ WriteLoaded(t)
  BY <1>0, <1>1, <1>5, <1>19 DEF WriteUnloaded, WriteLoaded, WriteFlags, Page, Mine, Set
<1>20. CASE WriteBack(t) \/ Claim(t) \/ Own(t)
  BY <1>1, <1>20 DEF WriteBack, Claim, Own, locals, Page, Mine, Set
<1>21. CASE Install(t)
  BY <1>0, <1>1, <1>21 DEF Install, ReadFlags, Page, Mine, Set
<1>22. CASE Read(t)
  BY <1>0, <1>1, <1>22 DEF Read, Page, Mine, Set
<1>23. CASE DeletePage(t) \/ GetTable(t) \/ FreeFrame(t)
  BY <1>1, <1>23 DEF DeletePage, GetTable, FreeFrame, locals, Page, Mine, Set
<1>24. CASE ReadBits(t) \/ FreeCluster(t) \/ StartAllocating(t) \/ TakeCluster(t)
  BY <1>1, <1>24 DEF ReadBits, ReadByte, FreeCluster, StartAllocating, TakeCluster, locals,
                     Page, Mine, Set
<1>25. CASE SetUnused(t)
  BY <1>0, <1>1, <1>25 DEF SetUnused, ReadFlags, Page, Mine, Set
<1>26. CASE WriteUnused(t)
  BY <1>0, <1>2, <1>5, <1>26 DEF WriteUnused, WriteFlags, Return, Mine, Set
<1>27. CASE WriteBackFails(t) \/ GiveUp(t) \/ ReadFails(t)
  <2>1. CASE \E from \in {"writeBack", "read"} : Crash(t, from, "transfer")
    BY <1>3, <2>1 DEF Mine, Set
  <2>2. CASE Go(t, "writeBack", "unwritten") /\ UNCHANGED locals
    BY <1>1, <2>2 DEF locals, Page, Mine, Set
  <2>3. CASE \E from \in {"unwritten", "read"} :
               Return(t, from, {proc[t]}) /\ UNCHANGED word
    BY <1>2, <2>3 DEF Return, Mine, Set
  <2> QED BY <1>27, <2>1, <2>2, <2>3, Failing
<1> QED
  BY <1>6, <1>7, <1>8, <1>9, <1>10, <1>11, <1>12, <1>13, <1>14, <1>15, <1>16, <1>17, <1>18,
     <1>19, <1>20, <1>21, <1>22, <1>23, <1>24, <1>25, <1>26, <1>27
     DEF Step

LEMMA StepControl ==
  ASSUME Types, OwnPages, Setters, NEW t \in Threads, Step(t)
  PROVE  OwnPages' /\ Setters'
<1> t \in Actors /\ Threads \subseteq Actors
  BY ThreadsAct
<1>1. PICK from, to : Go(t, from, to)
  BY StepGoes
<1>2. /\ \A u \in Threads : u # t => at'[u] = at[u]
      /\ proc' = proc
  BY <1>1, Goes1
<1>3. KeepsOthers(t)
  BY StepKeepsOthers
<1> QED BY <1>2, <1>3, SetterSteps DEF OwnPages, Setters, KeepsOthers, Page

-----------------------------------------------------------------------------
(* The kernel's mutex *)

LEMMA KernelStep ==
  ASSUME Types, KernelHeld, NEW a \in Actors, NEW from, NEW to, Go(a, from, to),
         \/ /\ mutex'["global"] = mutex["global"]
            /\ to \in KernelSteps => from \in KernelSteps
         \/ mutex["global"] = Nobody /\ mutex'["global"] = a
         \/ /\ from \in KernelSteps /\ to \notin KernelSteps
  PROVE  KernelHeld'
<1>1. /\ at[a] = from /\ at'[a] = to
      /\ \A b \in Actors : b # a => at'[b] = at[b]
  BY Goes1
<1>2. Nobody \notin Actors
  BY OverlappingCallsAssumption
<1> QED BY <1>1, <1>2 DEF KernelHeld

LEMMA OtherMutexes ==
  ASSUME Types, NEW t \in Threads
  PROVE  /\ Unlock({proc[t]}) => mutex'["global"] = mutex["global"]
         /\ Lock(t, {proc[t]}) => mutex'["global"] = mutex["global"]
         /\ Unlock(DriverMutex) => mutex'["global"] = mutex["global"]
         /\ Lock(t, DriverMutex) => mutex'["global"] = mutex["global"]
         /\ Lock(t, {"global"}) => mutex["global"] = Nobody /\ mutex'["global"] = t
         /\ UNCHANGED mutex => mutex'["global"] = mutex["global"]
<1>1. proc[t] \in Procs /\ proc[t] # "global" /\ "global" \in Mutexes
  BY MutexNames DEF Types
<1>2. "global" \notin DriverMutex
  BY DEF DriverMutex
<1> QED BY <1>1, <1>2, OwnMutex DEF Lock, Unlock, Unlocked

LEMMA ThreadKernelHeld ==
  ASSUME Types, KernelHeld, NEW t \in Threads, Step(t)
  PROVE  KernelHeld'
<1> USE OtherMutexes, KernelStep
<1> DEFINE KS == {"valid", "lookup", "dirty", "dirtied", "refer", "referred",
                  "referredFree", "seek", "mark", "age", "aged"}
<1>0. KernelSteps = KS
  BY DEF KernelSteps, GlobalSteps, Ageing
<1> t \in Actors
  BY ThreadsAct
<1>1. ASSUME NEW from, NEW to, Go(t, from, to),
             \/ UNCHANGED mutex \/ Unlock({proc[t]}) \/ Lock(t, {proc[t]})
             \/ Unlock(DriverMutex) \/ Lock(t, DriverMutex),
             to \in KS => from \in KS
      PROVE  KernelHeld'
  BY <1>0, <1>1
<1>2. ASSUME NEW from, NEW to, Go(t, from, to), Lock(t, {"global"})
      PROVE  KernelHeld'
  BY <1>2
<1>3. ASSUME NEW from, NEW to, Go(t, from, to), from \in KS, to \notin KS
      PROVE  KernelHeld'
  BY <1>0, <1>3
<1>4. ASSUME NEW from, NEW how, Crash(t, from, how)
      PROVE  KernelHeld'
  BY <1>1, <1>4 DEF Crash
<1>5. CASE \E e \in Pages : Delete(t, e) \/ Create(t, e)
                              \/ \E store \in Stores : Instruct(t, e, store)
  BY <1>1, <1>5 DEF Delete, Create, Instruct, Begin
<1>6. CASE EnterAccess(t) \/ StartAllocating(t)
  BY <1>2, <1>6 DEF EnterAccess, StartAllocating
<1>7. CASE CheckValid(t)
  BY <1>1, <1>3, <1>7 DEF CheckValid
<1>8. CASE LookUp(t)
  BY <1>1, <1>3, <1>8 DEF LookUp
<1>9. CASE GotNull(t) \/ NoVictim(t)
  BY <1>4, <1>9 DEF GotNull, NoVictim
<1>10. CASE SetDirty(t) \/ WriteDirty(t)
  BY <1>1, <1>10 DEF SetDirty, WriteDirty
<1>11. CASE SetReferenced(t)
  BY <1>1, <1>11 DEF SetReferenced
<1>12. CASE WriteReferenced(t)
  BY <1>3, <1>12 DEF WriteReferenced
<1>13. CASE EnterAddress(t) \/ Translate(t)
  BY <1>1, <1>13 DEF EnterAddress, Translate
<1>14. CASE NoAddress(t)
  BY <1>1, <1>4, <1>14 DEF NoAddress
<1>15. CASE Use(t) \/ DeleteNothing(t) \/ CreateNothing(t) \/ CreatePage(t) \/ WriteUnused(t)
  BY <1>1, <1>15 DEF Use, DeleteNothing, CreateNothing, CreatePage, WriteUnused, Return
<1>16. CASE EnterFault(t) \/ FaultRefused(t)
  BY <1>1, <1>4, <1>16 DEF EnterFault, FaultRefused, Return
<1>17. CASE StartScan(t) \/ Scan(t)
  BY <1>1, <1>17 DEF StartScan, Scan
<1>18. CASE Evict(t) \/ WriteUnloaded(t) \/ WriteBack(t) \/ Claim(t) \/ Own(t)
  BY <1>1, <1>18 DEF Evict, WriteUnloaded, WriteBack, Claim, Own
<1>19. CASE Install(t) \/ WriteLoaded(t) \/ Read(t)
  BY <1>1, <1>19 DEF Install, WriteLoaded, Read
<1>20. CASE DeletePage(t) \/ GetTable(t) \/ FreeFrame(t)
  BY <1>1, <1>20 DEF DeletePage, GetTable, FreeFrame
<1>21. CASE ReadBits(t) \/ FreeCluster(t) \/ SetUnused(t)
  BY <1>1, <1>21 DEF ReadBits, ReadByte, FreeCluster, SetUnused
<1>22. CASE TakeCluster(t)
  BY <1>3, <1>22 DEF TakeCluster
<1>23. CASE WriteBackFails(t) \/ GiveUp(t) \/ ReadFails(t)
  BY <1>1, <1>4, <1>23, Failing DEF Return
<1> QED
  BY <1>5, <1>6, <1>7, <1>8, <1>9, <1>10, <1>11, <1>12, <1>13, <1>14, <1>15, <1>16,
     <1>17, <1>18, <1>19, <1>20, <1>21, <1>22, <1>23
     DEF Step

\* What the main program does to the control of threads: nothing.
LEMMA TimerControl ==
  ASSUME Types, OwnPages, Setters, KernelHeld, Tick
  PROVE  /\ OwnPages' /\ Setters' /\ KernelHeld' /\ Recorded'
         /\ \A t \in Threads : /\ at'[t] = at[t] /\ call'[t] = call[t] /\ word'[t] = word[t]
                               /\ frame'[t] = frame[t] /\ byte'[t] = byte[t]
         /\ UNCHANGED <<holder, entries, bits, proc, crash>>
         /\ raced \subseteq raced'
<1> Timer \in Actors /\ Threads \subseteq Actors /\ \A t \in Threads : t # Timer
  BY ThreadsAct
<1>1. PICK from, to : Go(Timer, from, to)
  BY DEF Tick, StartJob, SkipFree, Shift, WriteShifted, Poll
<1>2. /\ \A t \in Threads : at'[t] = at[t]
      /\ proc' = proc /\ raced \subseteq raced' /\ Recorded'
  BY <1>1, Goes1
<1>3. \A t \in Threads : frame'[t] = frame[t]
  BY DEF Tick, StartJob, SkipFree, Shift, WriteShifted, Poll, Aged, locals, Types, Data,
         LocalTypes
<1>4. /\ UNCHANGED <<call, word, byte, holder, entries, bits, crash>>
  BY DEF Tick, StartJob, SkipFree, Shift, WriteShifted, Poll, locals, tables, frameTable
<1>5. OwnPages' /\ Setters'
  BY <1>2, <1>4 DEF OwnPages, Setters, Page
<1>6. KernelHeld'
  <2> DEFINE KS == {"valid", "lookup", "dirty", "dirtied", "refer", "referred",
                    "referredFree", "seek", "mark", "age", "aged"}
  <2>1. KernelSteps = KS
    BY DEF KernelSteps, GlobalSteps, Ageing
  <2>2. CASE StartJob
    BY <2>2, MutexNames, KernelStep DEF StartJob, Lock, Unlocked
  <2>3. CASE SkipFree
    BY <2>1, <2>3, KernelStep DEF SkipFree, Aged, AfterAgeing
  <2>4. CASE Shift
    BY <2>1, <2>4, KernelStep DEF Shift
  <2>5. CASE WriteShifted
    BY <2>1, <2>5, KernelStep DEF WriteShifted, Aged, AfterAgeing
  <2>6. CASE Poll
    BY <2>1, <2>6, KernelStep DEF Poll
  <2> QED BY <2>2, <2>3, <2>4, <2>5, <2>6 DEF Tick
<1> QED BY <1>2, <1>3, <1>4, <1>5, <1>6

-----------------------------------------------------------------------------
(* Frames: calls that do not overlap *)

\* No call overlaps a fault, but for createSegment, and no deletion the periodic job.
Alone(t) == \A u \in Threads : u # t => at[u] \notin Accessing \union Faulting \union Deleting
FramesApart ==
  /\ \A t \in Threads : at[t] \in Faulting => Alone(t)
  /\ \A t \in Threads : at[t] \in Deleting => at[Timer] \notin Ageing

LEMMA ApartNow == Recorded /\ "frames" \notin raced => FramesApart
BY ThreadsAct DEF Recorded, Overlap, HarmfulToFrames, FramesApart, Alone

LEMMA ApartNext == Recorded' /\ "frames" \notin raced' => FramesApart'
BY ThreadsAct DEF Recorded, Overlap, HarmfulToFrames, FramesApart, Alone

\* What holds before a step that does no harm to frames, and of its actor.
FramesBefore ==
  /\ Types /\ Types' /\ OwnPages /\ Setters /\ Separate
  /\ FramesApart /\ FramesApart' /\ FrameKnowledge

LEMMA TypesOfTables ==
  ASSUME Types
  PROVE  /\ free \in [Frames -> BOOLEAN]
         /\ holder \in [Frames -> Pages \union {NoPage}]
         /\ flags \in [Pages -> AllFlags]
         /\ frameNum \in [Pages -> Frames]
         /\ cluster \in [Pages -> Clusters]
         /\ bits \subseteq Clusters
         /\ frame \in [Actors -> Frames]
         /\ word \in [Threads -> Words]
         /\ byte \in [Threads -> SUBSET Clusters]
         /\ call \in [Threads -> [page : Pages \union {NoPage}, store : BOOLEAN,
                                  again : BOOLEAN]]
BY DEF Types, Data, LocalTypes, TableTypes

SameFrames == UNCHANGED <<flags, frameNum, free, holder>>

\* Whose page gave back its frame stays the same.
LEMMA GaveFrameSame ==
  ASSUME Types, NEW t \in Threads, NEW from, NEW to, Go(t, from, to), KeepsOthers(t),
         from \in Dropping <=> to \in Dropping,
         to \in Dropping => Page(t)' = Page(t)
  PROVE  \A e : GaveFrame(e)' <=> GaveFrame(e)
<1>1. /\ at[t] = from /\ at'[t] = to
      /\ \A u \in Threads : u # t => at'[u] = at[u]
  BY Goes1, ThreadsAct
<1>2. \A u \in Threads : u # t => Page(u)' = Page(u)
  BY DEF KeepsOthers, Page
<1>3. \A u \in Threads : (at'[u] \in Dropping <=> at[u] \in Dropping)
                           /\ (at'[u] \in Dropping => Page(u)' = Page(u))
  BY <1>1, <1>2
<1> QED BY <1>3 DEF GaveFrame

\* Knowledge of others, of tables that stay as they are.
LEMMA OthersSame ==
  ASSUME Types, NEW t \in Threads, NEW from, NEW to, Go(t, from, to), KeepsOthers(t),
         SameFrames, NEW u \in Threads, u # t, Sees(u), Finds(u)
  PROVE  Sees(u)' /\ Finds(u)'
<1>1. at'[u] = at[u]
  BY Goes1, ThreadsAct
<1>2. call'[u] = call[u] /\ word'[u] = word[u] /\ frame'[u] = frame[u]
  BY DEF KeepsOthers
<1>3. flags' = flags /\ frameNum' = frameNum /\ free' = free /\ holder' = holder
  BY DEF SameFrames
<1>4. Sees(u)'
  BY <1>1, <1>2, <1>3 DEF Sees, Used, Page, InFrame
<1>5. Finds(u)'
  BY <1>1, <1>2, <1>3 DEF Finds, Victim, Page, InFrame
<1> QED BY <1>4, <1>5

\* A step that leaves the frame table and the page tables as they are.
LEMMA SilentStep ==
  ASSUME FramesBefore, NEW t \in Threads, NEW from, NEW to, Go(t, from, to),
         KeepsOthers(t), SameFrames,
         from \in Bringing => to \in Bringing /\ frame'[t] = frame[t],
         \A e \in Pages : InFrame(e) => (GaveFrame(e)' <=> GaveFrame(e)),
         Sees(t)', Finds(t)'
  PROVE  FrameKnowledge'
<1>1. /\ at[t] = from /\ at'[t] = to
      /\ \A u \in Actors : u # t => at'[u] = at[u]
  BY Goes1, ThreadsAct DEF FramesBefore
<1>2. flags' = flags /\ frameNum' = frameNum /\ free' = free /\ holder' = holder
  BY DEF SameFrames
<1>3. \A u \in Threads : u # t => frame'[u] = frame[u]
  BY DEF KeepsOthers
<1>4. \A e \in Pages : InFrame(e)' <=> InFrame(e)
  BY <1>2 DEF InFrame
<1>5. Settled'
  <2>1. \A e \in Pages :
          InFrame(e)' /\ ~GaveFrame(e)' => ~free'[frameNum'[e]] /\ holder'[frameNum'[e]] = e
    BY <1>2, <1>4 DEF FramesBefore, FrameKnowledge, Settled
  <2>2. ASSUME NEW f \in Frames, ~free'[f]
        PROVE  \/ \E e \in Pages : Has(f, e)'
               \/ \E u \in Threads : at'[u] \in Bringing /\ frame'[u] = f
    <3>1. CASE \E e \in Pages : Has(f, e)
      BY <1>2, <1>4, <3>1 DEF Has
    <3>2. CASE \E u \in Threads : at[u] \in Bringing /\ frame[u] = f
      BY <1>1, <1>3, <3>2, ThreadsAct
    <3> QED BY <1>2, <2>2, <3>1, <3>2 DEF FramesBefore, FrameKnowledge, Settled
  <2> QED BY <2>1, <2>2 DEF Settled
<1>6. SweepSees'
  BY <1>1, <1>2, ThreadsAct DEF FramesBefore, FrameKnowledge, SweepSees, KeepsOthers
<1>7. \A u \in Threads : Sees(u)' /\ Finds(u)'
  BY OthersSame DEF FramesBefore, FrameKnowledge
<1> QED BY <1>5, <1>6, <1>7 DEF FrameKnowledge

-----------------------------------------------------------------------------
(* Frames: steps that leave the tables alone *)

\* A thread's page is none that another call gave the frame of back.
LEMMA KeepsItsFrame ==
  ASSUME OwnPages, Separate, NEW t \in Threads,
         at[t] \notin Dropping \union {"idle", "crashed"}
  PROVE  ~GaveFrame(Page(t))
<1> SUFFICES ASSUME NEW u \in Threads, at[u] \in Dropping, Page(u) = Page(t) PROVE FALSE
  BY DEF GaveFrame
<1>1. u # t /\ at[u] \notin {"idle", "crashed"}
  BY DEF Dropping
<1> QED BY <1>1, OtherPage

\* During a fault nobody deletes, and nobody else brings a page in.
LEMMA FaultAlone ==
  ASSUME FramesApart, NEW t \in Threads, at[t] \in Faulting
  PROVE  /\ \A e : ~GaveFrame(e)
         /\ \A u \in Threads : u # t => at[u] \notin Bringing
<1>1. Dropping \subseteq Deleting /\ Bringing \subseteq Faulting
  BY DEF Dropping, Deleting, Bringing, Faulting
<1>2. at[t] \notin Dropping
  BY DEF Dropping, Faulting
<1> QED BY <1>1, <1>2 DEF FramesApart, Alone, GaveFrame

\* A page in a frame is in a frame that is not free, unless it gave it back.
LEMMA PageInFrame ==
  ASSUME FramesBefore, NEW t \in Threads, at[t] \in In
  PROVE  /\ InFrame(Page(t)) /\ Page(t) \in Pages /\ ~GaveFrame(Page(t))
         /\ ~free[frameNum[Page(t)]] /\ holder[frameNum[Page(t)]] = Page(t)
<1>1. at[t] \notin Dropping \union {"idle", "crashed"}
  BY DEF In, Dropping
<1>2. InFrame(Page(t)) /\ Page(t) \in Pages
  BY <1>1, HasPage DEF FramesBefore, FrameKnowledge, Sees
<1>3. ~GaveFrame(Page(t))
  BY <1>1, KeepsItsFrame DEF FramesBefore
<1> QED BY <1>2, <1>3 DEF FramesBefore, FrameKnowledge, Settled

\* A silent step between steps that neither bring a page in nor delete one.
LEMMA PlainStep ==
  ASSUME FramesBefore, NEW t \in Threads, NEW from, NEW to, Go(t, from, to),
         KeepsOthers(t), SameFrames, from \notin Bringing,
         from \notin Dropping, to \notin Dropping,
         Sees(t)', Finds(t)'
  PROVE  FrameKnowledge'
BY GaveFrameSame, SilentStep DEF FramesBefore

\* What is known where nothing is to be known.
LEMMA NothingKnown ==
  ASSUME NEW t \in Threads,
           at'[t] \in Between \union {"valid", "delete", "create", "uncluster", "clear",
                                      "cleared", "unuse"},
         at'[t] # "refused"
  PROVE  Sees(t)' /\ Finds(t)'
BY DEF Sees, Finds, Out, In, Searching, Bringing, Between

\* Finds is about faults.
LEMMA NothingFound ==
  ASSUME NEW t \in Threads, at'[t] \notin Searching \union Bringing
  PROVE  Finds(t)'
BY DEF Finds, Searching, Bringing

LEMMA BeginFrames ==
  ASSUME FramesBefore, NEW t \in Threads, KeepsOthers(t),
         \E e \in Pages : Delete(t, e) \/ Create(t, e)
                            \/ \E store \in Stores : Instruct(t, e, store)
  PROVE  FrameKnowledge'
<1>1. PICK to \in {"delete", "create", "access"} : Go(t, "idle", to) /\ SameFrames
  BY DEF Delete, Create, Instruct, Begin, tables, frameTable, entries, SameFrames
<1>2. at'[t] = to
  BY <1>1, Goes1, ThreadsAct DEF FramesBefore
<1>3. Sees(t)' /\ Finds(t)'
  BY <1>2, NothingKnown DEF Between
<1> QED BY <1>1, <1>3, PlainStep DEF Bringing, Dropping

LEMMA CrashFrames ==
  ASSUME FramesBefore, NEW t \in Threads, KeepsOthers(t), NEW from, NEW how,
         Crash(t, from, how), from \notin Bringing \union Dropping
  PROVE  FrameKnowledge'
<1>1. Go(t, from, "crashed") /\ SameFrames
  BY DEF Crash, tables, frameTable, entries, SameFrames
<1>2. at'[t] = "crashed"
  BY <1>1, Goes1, ThreadsAct DEF FramesBefore
<1>3. Sees(t)' /\ Finds(t)'
  BY <1>2, NothingKnown DEF Between
<1> QED BY <1>1, <1>3, PlainStep DEF Dropping

LEMMA ReturnFrames ==
  ASSUME FramesBefore, NEW t \in Threads, KeepsOthers(t), NEW from, NEW ms,
         Return(t, from, ms), SameFrames, from \notin Bringing \union Dropping
  PROVE  FrameKnowledge'
<1>1. Go(t, from, "idle")
  BY DEF Return
<1>2. at'[t] = "idle"
  BY <1>1, Goes1, ThreadsAct DEF FramesBefore
<1>3. Sees(t)' /\ Finds(t)'
  BY <1>2, NothingKnown DEF Between
<1> QED BY <1>1, <1>3, PlainStep DEF Dropping

LEMMA AccessFrames ==
  ASSUME FramesBefore, NEW t \in Threads, KeepsOthers(t),
         \/ EnterAccess(t) \/ CheckValid(t) \/ LookUp(t) \/ SetDirty(t)
         \/ SetReferenced(t) \/ WriteReferenced(t)
  PROVE  FrameKnowledge'
<1> Types /\ t \in Actors
  BY ThreadsAct DEF FramesBefore
<1> Sees(t)
  BY DEF FramesBefore, FrameKnowledge
<1>1. CASE EnterAccess(t)
  <2>1. Go(t, "access", "valid") /\ SameFrames
    BY <1>1 DEF EnterAccess, tables, frameTable, entries, SameFrames
  <2>2. Sees(t)' /\ Finds(t)'
    BY <2>1, Goes1, NothingKnown
  <2> QED BY <2>1, <2>2, PlainStep DEF Bringing, Dropping
<1>2. CASE CheckValid(t)
  <2>1. PICK to \in {"lookup", "refused"} :
          /\ Go(t, "valid", to) /\ (to = "lookup" <=> Used(t))
          /\ SameFrames /\ UNCHANGED locals
    BY <1>2 DEF CheckValid, tables, frameTable, entries, SameFrames
  <2>2. at'[t] = to /\ Page(t)' = Page(t) /\ flags' = flags
    BY <2>1, Goes1 DEF Page, locals, SameFrames
  <2>3. Sees(t)'
    BY <2>1, <2>2 DEF Sees, Used, InFrame, Out, In, Searching, Bringing
  <2>4. Finds(t)'
    BY <2>1, <2>2, NothingFound DEF Searching, Bringing
  <2> QED BY <2>1, <2>3, <2>4, PlainStep DEF Bringing, Dropping
<1>3. CASE LookUp(t)
  <2>1. PICK to \in {"dirty", "refer", "refused"} :
          /\ Go(t, "lookup", to) /\ (to # "refused" <=> Loaded(t)) /\ Used(t)
          /\ SameFrames /\ UNCHANGED locals
    BY <1>3 DEF LookUp, GotEntry, tables, frameTable, entries, SameFrames
  <2>2. at'[t] = to /\ Page(t)' = Page(t) /\ flags' = flags
    BY <2>1, Goes1 DEF Page, locals, SameFrames
  <2>3. Sees(t)'
    BY <2>1, <2>2 DEF Sees, Used, Loaded, InFrame, Out, In, Searching, Bringing
  <2>4. Finds(t)'
    BY <2>1, <2>2, NothingFound DEF Searching, Bringing
  <2> QED BY <2>1, <2>3, <2>4, PlainStep DEF Bringing, Dropping
<1>4. CASE SetDirty(t)
  <2>1. /\ Go(t, "dirty", "dirtied") /\ SameFrames /\ UNCHANGED call
        /\ word'[t].flags = flags[Page(t)]
    BY <1>4, TypesOfTables
       DEF SetDirty, ReadFlags, tables, frameTable, entries, SameFrames
  <2>2. at[t] = "dirty" /\ at'[t] = "dirtied" /\ Page(t)' = Page(t) /\ flags' = flags
    BY <2>1, Goes1 DEF Page, SameFrames
  <2>3. Sees(t)'
    BY <2>1, <2>2 DEF Sees, InFrame, Out, In, Searching, Bringing
  <2>4. Finds(t)'
    BY <2>2, NothingFound DEF Searching, Bringing
  <2> QED BY <2>1, <2>3, <2>4, PlainStep DEF Bringing, Dropping
<1>5. CASE SetReferenced(t)
  <2>1. at[t] = "refer"
    BY <1>5, Goes1 DEF SetReferenced
  <2>2. ~free[frameNum[Page(t)]] /\ InFrame(Page(t))
    BY <2>1, PageInFrame DEF In
  <2>3. /\ Go(t, "refer", "referred") /\ SameFrames /\ UNCHANGED call
        /\ frame'[t] = frameNum[Page(t)]
    BY <1>5, <2>2, TypesOfTables
       DEF SetReferenced, tables, frameTable, entries, SameFrames
  <2>4. at'[t] = "referred" /\ Page(t)' = Page(t) /\ flags' = flags /\ frameNum' = frameNum
    BY <2>3, Goes1 DEF Page, SameFrames
  <2>5. Sees(t)'
    BY <2>2, <2>3, <2>4 DEF Sees, InFrame, Out, In, Searching, Bringing
  <2>6. Finds(t)'
    BY <2>4, NothingFound DEF Searching, Bringing
  <2> QED BY <2>3, <2>5, <2>6, PlainStep DEF Bringing, Dropping
<1>6. CASE WriteReferenced(t)
  <2>1. at[t] = "referred"
    BY <1>6, Goes1 DEF WriteReferenced, Sees
  <2>2. ~free[frame[t]] /\ InFrame(Page(t))
    BY <2>1, PageInFrame DEF In, Sees
  <2>3. /\ Go(t, "referred", "address") /\ free' = [free EXCEPT ![frame[t]] = FALSE]
        /\ UNCHANGED <<locals, holder, entries>>
    BY <1>6, <2>1 DEF WriteReferenced, Go
  <2>4. free' = free /\ frame[t] \in Frames
    BY <2>2, <2>3, TypesOfTables
  <2>5. SameFrames
    BY <2>3, <2>4 DEF SameFrames, entries
  <2>6. at'[t] = "address" /\ Page(t)' = Page(t) /\ flags' = flags
    BY <2>3, Goes1 DEF Page, locals, entries
  <2>7. Sees(t)'
    BY <2>2, <2>6 DEF Sees, InFrame, Out, In, Searching, Bringing
  <2>8. Finds(t)'
    BY <2>6, NothingFound DEF Searching, Bringing
  <2> QED BY <2>3, <2>5, <2>7, <2>8, PlainStep DEF Bringing, Dropping
<1> QED BY <1>1, <1>2, <1>3, <1>4, <1>5, <1>6

LEMMA AddressFrames ==
  ASSUME FramesBefore, NEW t \in Threads, KeepsOthers(t),
         EnterAddress(t) \/ NoAddress(t) \/ Translate(t) \/ Use(t)
  PROVE  FrameKnowledge'
<1> Types /\ t \in Actors
  BY ThreadsAct DEF FramesBefore
<1> Sees(t)
  BY DEF FramesBefore, FrameKnowledge
<1>1. CASE EnterAddress(t)
  <2>1. /\ Go(t, "address", "translate") /\ SameFrames /\ UNCHANGED call
        /\ frame'[t] = frameNum[Page(t)] /\ Used(t) /\ Loaded(t)
    BY <1>1, TypesOfTables DEF EnterAddress, tables, frameTable, entries, SameFrames
  <2>2. at'[t] = "translate" /\ Page(t)' = Page(t) /\ flags' = flags /\ frameNum' = frameNum
    BY <2>1, Goes1 DEF Page, SameFrames
  <2>3. Sees(t)'
    BY <2>1, <2>2 DEF Sees, Used, Loaded, InFrame, Out, In, Searching, Bringing
  <2>4. Finds(t)'
    BY <2>2, NothingFound DEF Searching, Bringing
  <2> QED BY <2>1, <2>3, <2>4, PlainStep DEF Bringing, Dropping
<1>2. CASE NoAddress(t)
  <2>1. at[t] = "address"
    BY <1>2, Goes1 DEF NoAddress, Crash
  <2> QED BY <1>2, <2>1 DEF NoAddress, Sees, In, InFrame, Used, Loaded
<1>3. CASE Translate(t)
  <2>1. Go(t, "translate", "use") /\ SameFrames /\ UNCHANGED locals
    BY <1>3 DEF Translate, tables, frameTable, entries, SameFrames
  <2>2. /\ at[t] = "translate" /\ at'[t] = "use" /\ Page(t)' = Page(t) /\ frame' = frame
        /\ flags' = flags /\ frameNum' = frameNum
    BY <2>1, Goes1 DEF Page, locals, SameFrames
  <2>3. Sees(t)'
    BY <2>2 DEF Sees, InFrame, Out, In, Searching, Bringing
  <2>4. Finds(t)'
    BY <2>2, NothingFound DEF Searching, Bringing
  <2> QED BY <2>1, <2>3, <2>4, PlainStep DEF Bringing, Dropping
<1>4. CASE Use(t)
  BY <1>4, ReturnFrames
     DEF Use, tables, frameTable, entries, SameFrames, Bringing, Dropping
<1> QED BY <1>1, <1>2, <1>3, <1>4

\* What is in a frame during a fault.
LEMMA FramesInFault ==
  ASSUME FramesBefore, NEW t \in Threads, at[t] \in Faulting
  PROVE  /\ \A e \in Pages : InFrame(e) => ~free[frameNum[e]] /\ holder[frameNum[e]] = e
         /\ \A f \in Frames : ~free[f] => \/ \E e \in Pages : Has(f, e)
                                          \/ at[t] \in Bringing /\ frame[t] = f
BY FaultAlone DEF FramesBefore, FrameKnowledge, Settled

LEMMA SearchFrames ==
  ASSUME FramesBefore, NEW t \in Threads, KeepsOthers(t),
         \/ EnterFault(t) \/ FaultRefused(t) \/ StartScan(t) \/ Scan(t) \/ Evict(t)
         \/ NoVictim(t)
  PROVE  FrameKnowledge'
<1> Types /\ t \in Actors
  BY ThreadsAct DEF FramesBefore
<1> Sees(t) /\ Finds(t)
  BY DEF FramesBefore, FrameKnowledge
<1>1. CASE EnterFault(t)
  <2>1. CASE Crash(t, "refused", "assertion")
    BY <2>1, CrashFrames DEF Bringing, Dropping
  <2>2. CASE Go(t, "refused", "fault") /\ UNCHANGED <<locals, tables>>
    <3>1. /\ at[t] = "refused" /\ at'[t] = "fault" /\ Page(t)' = Page(t)
          /\ flags' = flags /\ SameFrames
      BY <2>2, Goes1 DEF Page, locals, tables, frameTable, entries, SameFrames
    <3>2. Sees(t)'
      BY <3>1 DEF Sees, InFrame, Out, In, Searching, Bringing
    <3>3. Finds(t)'
      BY <3>1, NothingFound DEF Searching, Bringing
    <3> QED BY <2>2, <3>1, <3>2, <3>3, PlainStep DEF Bringing, Dropping
  <2> QED BY <1>1, <2>1, <2>2 DEF EnterFault
<1>2. CASE FaultRefused(t)
  BY <1>2, CrashFrames, ReturnFrames
     DEF FaultRefused, tables, frameTable, entries, SameFrames, Bringing, Dropping
<1>3. CASE StartScan(t)
  <2>1. /\ Go(t, "fault", "scan") /\ SameFrames /\ UNCHANGED call
        /\ frame'[t] = 0 /\ Used(t)
    BY <1>3, TypesOfTables DEF StartScan, tables, frameTable, entries, SameFrames
  <2>2. at[t] = "fault" /\ at'[t] = "scan" /\ Page(t)' = Page(t) /\ flags' = flags
    BY <2>1, Goes1 DEF Page, SameFrames
  <2>3. Sees(t)'
    BY <2>1, <2>2 DEF Sees, Used, InFrame, Out, In, Searching, Bringing
  <2>4. \A f \in Frames : ~(f < 0)
    BY DEF Frames
  <2>5. Finds(t)'
    BY <2>1, <2>2, <2>4 DEF Finds, Bringing
  <2> QED BY <2>1, <2>3, <2>5, PlainStep DEF Bringing, Dropping
<1>4. CASE Scan(t)
  <2> DEFINE f == frame[t]
  <2>0. f \in Frames /\ at[t] = "scan"
    BY <1>4, TypesOfTables, Goes1 DEF Scan
  <2>1. PICK to \in {"claim", "scan", "evict"} :
          /\ Go(t, "scan", to) /\ SameFrames /\ UNCHANGED call
          /\ to = "claim" => free[f] /\ frame'[t] = f
          /\ to = "scan" => ~free[f] /\ frame'[t] = f + 1
          /\ to = "evict" => ~free[f] /\ f + 1 \notin Frames
    BY <1>4, TypesOfTables
       DEF Scan, IsFree, IsLast, tables, frameTable, entries, SameFrames
  <2>2. /\ at'[t] = to /\ Page(t)' = Page(t) /\ flags' = flags /\ frameNum' = frameNum
        /\ free' = free
    BY <2>1, Goes1 DEF Page, SameFrames
  <2>3. \A g \in Frames : g < f => ~free[g]
    BY <2>0 DEF Finds
  <2>4. \A g \in Frames : /\ g < f + 1 => g < f \/ g = f
                          /\ f + 1 \notin Frames => g < f \/ g = f
    BY <2>0, OverlappingCallsAssumption DEF Frames
  <2>5. free[f] => \A e \in Pages : InFrame(e) => frameNum[e] # f
    BY <2>0, FramesInFault DEF Faulting
  <2> HIDE DEF f
  <2>6. Sees(t)'
    BY <2>0, <2>2 DEF Sees, Used, InFrame, Out, In, Searching, Bringing
  <2>7. Finds(t)'
    <3>1. CASE to = "claim"
      BY <2>1, <2>2, <2>5, <3>1 DEF Finds, InFrame, Bringing
    <3>2. CASE to = "scan"
      BY <2>1, <2>2, <2>3, <2>4, <3>2 DEF Finds, Bringing
    <3>3. CASE to = "evict"
      BY <2>1, <2>2, <2>3, <2>4, <3>3 DEF Finds, Bringing
    <3> QED BY <3>1, <3>2, <3>3
  <2> QED BY <2>1, <2>6, <2>7, PlainStep DEF Bringing, Dropping
<1>5. CASE Evict(t)
  <2>1. /\ Go(t, "evict", "unload") /\ SameFrames /\ UNCHANGED <<call, frame>>
        /\ word'[t] = [of |-> Victim(t), flags |-> flags[Victim(t)]]
    BY <1>5, TypesOfTables DEF Evict, ReadFlags, tables, frameTable, entries, SameFrames
  <2>2. /\ at[t] = "evict" /\ at'[t] = "unload" /\ Page(t)' = Page(t) /\ flags' = flags
        /\ free' = free /\ Victim(t)' = Victim(t)
    BY <2>1, Goes1 DEF Page, Victim, SameFrames
  <2>3. Sees(t)'
    BY <2>2 DEF Sees, Used, InFrame, Out, In, Searching, Bringing
  <2>4. Finds(t)'
    BY <2>1, <2>2 DEF Finds, Bringing
  <2> QED BY <2>1, <2>3, <2>4, PlainStep DEF Bringing, Dropping
<1>6. CASE NoVictim(t)
  BY <1>6, CrashFrames DEF NoVictim, Bringing, Dropping
<1> QED BY <1>1, <1>2, <1>3, <1>4, <1>5, <1>6

LEMMA BringFrames ==
  ASSUME FramesBefore, NEW t \in Threads, KeepsOthers(t),
         WriteBack(t) \/ Install(t) \/ Read(t)
  PROVE  FrameKnowledge'
<1> Types /\ t \in Actors
  BY ThreadsAct DEF FramesBefore
<1> Sees(t) /\ Finds(t)
  BY DEF FramesBefore, FrameKnowledge
<1>1. CASE WriteBack(t)
  <2>1. Go(t, "writeBack", "claim") /\ SameFrames /\ UNCHANGED <<call, frame>>
    BY <1>1 DEF WriteBack, locals, tables, frameTable, entries, SameFrames
  <2>2. /\ at[t] = "writeBack" /\ at'[t] = "claim" /\ Page(t)' = Page(t) /\ flags' = flags
        /\ frameNum' = frameNum
    BY <2>1, Goes1 DEF Page, SameFrames
  <2>3. Sees(t)'
    BY <2>2 DEF Sees, Used, InFrame, Out, In, Searching, Bringing
  <2>4. Finds(t)'
    BY <2>1, <2>2 DEF Finds, InFrame, Bringing
  <2>5. \A e : GaveFrame(e)' <=> GaveFrame(e)
    BY <2>1, GaveFrameSame DEF Dropping
  <2> QED BY <2>1, <2>3, <2>4, <2>5, SilentStep DEF Bringing
<1>2. CASE Install(t)
  <2>1. /\ Go(t, "install", "load") /\ SameFrames /\ UNCHANGED <<call, frame>>
        /\ word'[t].flags = flags[Page(t)]
    BY <1>2, TypesOfTables DEF Install, ReadFlags, tables, frameTable, entries, SameFrames
  <2>2. /\ at[t] = "install" /\ at'[t] = "load" /\ Page(t)' = Page(t) /\ flags' = flags
        /\ frameNum' = frameNum /\ free' = free /\ Victim(t)' = Victim(t)
    BY <2>1, Goes1 DEF Page, Victim, SameFrames
  <2>3. Sees(t)'
    BY <2>1, <2>2 DEF Sees, Used, InFrame, Out, In, Searching, Bringing
  <2>4. Finds(t)'
    BY <2>1, <2>2 DEF Finds, InFrame, Bringing
  <2>5. \A e : GaveFrame(e)' <=> GaveFrame(e)
    BY <2>1, GaveFrameSame DEF Dropping
  <2> QED BY <2>1, <2>3, <2>4, <2>5, SilentStep DEF Bringing
<1>3. CASE Read(t)
  <2>1. Go(t, "read", "access") /\ SameFrames
    BY <1>3 DEF Read, tables, frameTable, entries, SameFrames
  <2>2. Sees(t)' /\ Finds(t)'
    BY <2>1, Goes1, NothingKnown DEF Between
  <2> QED BY <2>1, <2>2, PlainStep DEF Bringing, Dropping
<1> QED BY <1>1, <1>2, <1>3

LEMMA DeleteFrames ==
  ASSUME FramesBefore, NEW t \in Threads, KeepsOthers(t),
         \/ DeleteNothing(t) \/ DeletePage(t) \/ GetTable(t) \/ ReadBits(t)
         \/ FreeCluster(t) \/ SetUnused(t)
  PROVE  FrameKnowledge'
<1> Types /\ t \in Actors
  BY ThreadsAct DEF FramesBefore
<1> Sees(t) /\ Finds(t)
  BY DEF FramesBefore, FrameKnowledge
<1>0. ASSUME NEW from \in Dropping, NEW to \in Dropping \ {"unused"}, Go(t, from, to),
             SameFrames, UNCHANGED call
      PROVE  FrameKnowledge'
  <2>1. at'[t] = to
    BY <1>0, Goes1
  <2>2. Sees(t)' /\ Finds(t)'
    BY <1>0, <2>1, NothingKnown DEF Dropping
  <2>3. \A e : GaveFrame(e)' <=> GaveFrame(e)
    BY <1>0, GaveFrameSame DEF Page
  <2> QED BY <1>0, <2>2, <2>3, SilentStep DEF Dropping, Bringing
<1>1. CASE DeleteNothing(t)
  BY <1>1, ReturnFrames
     DEF DeleteNothing, tables, frameTable, entries, SameFrames, Bringing, Dropping
<1>2. CASE DeletePage(t)
  <2>1. PICK to \in {"unframe", "uncluster"} :
          /\ Go(t, "delete", to) /\ (to = "unframe" <=> Loaded(t)) /\ Used(t)
          /\ SameFrames /\ UNCHANGED locals
    BY <1>2 DEF DeletePage, LeavesFrame, tables, frameTable, entries, SameFrames
  <2>2. /\ at[t] = "delete" /\ at'[t] = to /\ Page(t)' = Page(t) /\ flags' = flags
        /\ \A u \in Threads : u # t => at'[u] = at[u]
    BY <2>1, Goes1, ThreadsAct DEF Page, locals, SameFrames
  <2>3. Sees(t)'
    BY <2>1, <2>2 DEF Sees, Used, Loaded, InFrame, Out, In, Searching, Bringing
  <2>4. Finds(t)'
    BY <2>1, <2>2, NothingFound DEF Searching, Bringing
  <2>5. \A e \in Pages : InFrame(e) => (GaveFrame(e)' <=> GaveFrame(e))
    <3>1. \A u \in Threads : Page(u)' = Page(u)
      BY <2>1 DEF Page, locals
    <3> QED BY <2>1, <2>2, <3>1 DEF GaveFrame, Dropping, InFrame, Loaded
  <2> QED BY <2>1, <2>3, <2>4, <2>5, SilentStep DEF Bringing
<1>3. CASE GetTable(t)
  <2>1. SameFrames /\ UNCHANGED locals
    BY <1>3 DEF GetTable, tables, frameTable, entries, SameFrames
  <2>2. CASE Go(t, "unframe", "free")
    <3>1. at[t] = "unframe" /\ at'[t] = "free" /\ Page(t)' = Page(t) /\ flags' = flags
      BY <2>1, <2>2, Goes1 DEF Page, locals, SameFrames
    <3>2. Sees(t)'
      BY <3>1 DEF Sees, InFrame, Out, In, Searching, Bringing
    <3>3. Finds(t)'
      BY <3>1, NothingFound DEF Searching, Bringing
    <3> QED BY <2>1, <2>2, <3>2, <3>3, PlainStep DEF Bringing, Dropping
  <2>3. CASE Go(t, "uncluster", "clear")
    BY <1>0, <2>1, <2>3 DEF Dropping, locals
  <2> QED BY <1>3, <2>2, <2>3 DEF GetTable
<1>4. CASE ReadBits(t)
  <2>1. SameFrames /\ UNCHANGED call
    BY <1>4 DEF ReadBits, ReadByte, tables, frameTable, entries, SameFrames
  <2>2. CASE Go(t, "clear", "cleared")
    BY <1>0, <2>1, <2>2 DEF Dropping
  <2>3. CASE Go(t, "seek", "mark")
    <3>1. at[t] = "seek" /\ at'[t] = "mark" /\ Page(t)' = Page(t) /\ flags' = flags
      BY <2>1, <2>3, Goes1 DEF Page, SameFrames
    <3>2. Sees(t)'
      BY <3>1 DEF Sees, Used, InFrame, Out, In, Searching, Bringing
    <3>3. Finds(t)'
      BY <3>1, NothingFound DEF Searching, Bringing
    <3> QED BY <2>1, <2>3, <3>2, <3>3, PlainStep DEF Bringing, Dropping
  <2> QED BY <1>4, <2>2, <2>3 DEF ReadBits, ReadByte
<1>5. CASE FreeCluster(t)
  BY <1>0, <1>5
     DEF FreeCluster, frameTable, entries, SameFrames, Dropping
<1>6. CASE SetUnused(t)
  <2>1. /\ Go(t, "unuse", "unused") /\ SameFrames /\ UNCHANGED call
        /\ word'[t].flags = flags[Page(t)]
    BY <1>6, TypesOfTables
       DEF SetUnused, ReadFlags, tables, frameTable, entries, SameFrames
  <2>2. at[t] = "unuse" /\ at'[t] = "unused" /\ Page(t)' = Page(t) /\ flags' = flags
    BY <2>1, Goes1 DEF Page, SameFrames
  <2>3. Sees(t)'
    BY <2>1, <2>2 DEF Sees, InFrame, Out, In, Searching, Bringing
  <2>4. Finds(t)'
    BY <2>2, NothingFound DEF Searching, Bringing
  <2>5. \A e : GaveFrame(e)' <=> GaveFrame(e)
    BY <2>1, <2>2, GaveFrameSame DEF Dropping
  <2> QED BY <2>1, <2>3, <2>4, <2>5, SilentStep DEF Bringing
<1> QED BY <1>1, <1>2, <1>3, <1>4, <1>5, <1>6

LEMMA CreateFrames ==
  ASSUME FramesBefore, NEW t \in Threads, KeepsOthers(t),
         CreateNothing(t) \/ StartAllocating(t) \/ TakeCluster(t)
  PROVE  FrameKnowledge'
<1> Types /\ t \in Actors
  BY ThreadsAct DEF FramesBefore
<1> Sees(t) /\ Finds(t)
  BY DEF FramesBefore, FrameKnowledge
<1>1. CASE CreateNothing(t)
  BY <1>1, ReturnFrames
     DEF CreateNothing, tables, frameTable, entries, SameFrames, Bringing, Dropping
<1>2. CASE StartAllocating(t)
  <2>1. Go(t, "create", "seek") /\ SameFrames /\ UNCHANGED call /\ ~Used(t)
    BY <1>2 DEF StartAllocating, locals, tables, frameTable, entries, SameFrames
  <2>2. at'[t] = "seek" /\ Page(t)' = Page(t) /\ flags' = flags
    BY <2>1, Goes1 DEF Page, SameFrames
  <2>3. Sees(t)'
    BY <2>1, <2>2 DEF Sees, Used, InFrame, Out, In, Searching, Bringing
  <2>4. Finds(t)'
    BY <2>2, NothingFound DEF Searching, Bringing
  <2> QED BY <2>1, <2>3, <2>4, PlainStep DEF Bringing, Dropping
<1>3. CASE TakeCluster(t)
  <2>1. Go(t, "mark", "fill") /\ SameFrames /\ UNCHANGED call
    BY <1>3 DEF TakeCluster, frameTable, SameFrames
  <2>2. at[t] = "mark" /\ at'[t] = "fill" /\ Page(t)' = Page(t) /\ flags' = flags
    BY <2>1, Goes1 DEF Page, SameFrames
  <2>3. Sees(t)'
    BY <2>1, <2>2 DEF Sees, Used, InFrame, Out, In, Searching, Bringing
  <2>4. Finds(t)'
    BY <2>2, NothingFound DEF Searching, Bringing
  <2> QED BY <2>1, <2>3, <2>4, PlainStep DEF Bringing, Dropping
<1> QED BY <1>1, <1>2, <1>3

-----------------------------------------------------------------------------
(* Frames: steps that write to the tables *)

LEMMA NobodyFaults ==
  ASSUME FramesApart, NEW t \in Threads, NEW u \in Threads, u # t,
         at[t] \in Accessing \union Faulting \union Deleting
  PROVE  at[u] \notin Faulting
BY DEF FramesApart, Alone

\* Knowledge of a page that is left alone.
LEMMA OthersElsewhere ==
  ASSUME FramesBefore, NEW t \in Threads, NEW from, NEW to, Go(t, from, to),
         KeepsOthers(t), NEW u \in Threads, u # t, at[u] \notin Faulting,
         at[u] \notin {"idle", "crashed"} =>
           flags'[Page(u)] = flags[Page(u)] /\ frameNum'[Page(u)] = frameNum[Page(u)]
  PROVE  Sees(u)' /\ Finds(u)'
<1>1. at'[u] = at[u]
  BY Goes1, ThreadsAct DEF FramesBefore
<1>2. call'[u] = call[u] /\ word'[u] = word[u] /\ frame'[u] = frame[u]
  BY DEF KeepsOthers
<1>3. Sees(u)
  BY DEF FramesBefore, FrameKnowledge
<1>4. CASE at[u] \in {"idle", "crashed"}
  BY <1>1, <1>4, NothingKnown DEF Between
<1>5. CASE at[u] \notin {"idle", "crashed"}
  <2>1. Sees(u)'
    BY <1>1, <1>2, <1>3, <1>5 DEF Sees, Used, Page, InFrame
  <2>2. Finds(u)'
    BY <1>1, NothingFound DEF Searching, Bringing, Faulting
  <2> QED BY <2>1, <2>2
<1> QED BY <1>4, <1>5

LEMMA WriteDirtyFrames ==
  ASSUME FramesBefore, NEW t \in Threads, KeepsOthers(t), WriteDirty(t)
  PROVE  FrameKnowledge'
<1> Types /\ t \in Actors
  BY ThreadsAct DEF FramesBefore
<1>1. /\ at[t] = "dirtied" /\ at'[t] = "refer" /\ Go(t, "dirtied", "refer")
      /\ \A u \in Actors : u # t => at'[u] = at[u]
  BY Goes1 DEF WriteDirty
<1>2. Page(t) \in Pages /\ Page(t)' = Page(t) /\ word[t].of = Page(t)
      /\ word[t].flags = flags[Page(t)] /\ InFrame(Page(t))
  BY <1>1, PageInFrame DEF WriteDirty, Page, FramesBefore, Setters, FrameKnowledge, Sees, In
<1> DEFINE d == Page(t)
<1>3. /\ flags'[d] = [flags[d] EXCEPT !.dirty = TRUE]
      /\ \A e \in Pages : e # d => flags'[e] = flags[e]
      /\ UNCHANGED <<frame, free, holder, frameNum>>
  BY <1>2, TypesOfTables DEF WriteDirty, WriteFlags, frameTable
<1>4. \A e \in Pages : InFrame(e)' <=> InFrame(e)
  <2>1. flags[d] \in AllFlags
    BY <1>2, TypesOfTables
  <2>2. flags'[d].used = flags[d].used /\ flags'[d].loaded = flags[d].loaded
    BY <1>3, <2>1 DEF AllFlags
  <2> QED BY <1>3, <2>2 DEF InFrame
<1>5. \A e : GaveFrame(e)' <=> GaveFrame(e)
  BY <1>1, GaveFrameSame DEF Dropping
<1>6. Settled'
  <2>1. \A u \in Threads : at'[u] \in Bringing <=> at[u] \in Bringing
    BY <1>1, ThreadsAct DEF Bringing
  <2>2. \A f, e : Has(f, e) /\ e \in Pages => Has(f, e)'
    BY <1>3, <1>4, <1>5 DEF Has
  <2> QED BY <1>3, <1>4, <1>5, <2>1, <2>2 DEF FramesBefore, FrameKnowledge, Settled
<1>7. SweepSees'
  BY <1>1, <1>3, ThreadsAct DEF FramesBefore, FrameKnowledge, SweepSees, KeepsOthers
<1>8. ASSUME NEW u \in Threads, u # t PROVE Sees(u)' /\ Finds(u)'
  <2>1. at[u] \notin Faulting
    BY <1>1, <1>8, NobodyFaults DEF FramesBefore, Accessing
  <2>2. at[u] \notin {"idle", "crashed"} => Page(u) # d /\ Page(u) \in Pages
    BY <1>1, <1>8, OtherPage, HasPage DEF FramesBefore
  <2> QED BY <1>1, <1>3, <1>8, <2>1, <2>2, OthersElsewhere
<1>9. Sees(t)' /\ Finds(t)'
  BY <1>1, <1>2, <1>4, NothingFound DEF Sees, Out, In, Searching, Bringing, Page
<1> QED BY <1>6, <1>7, <1>8, <1>9 DEF FrameKnowledge

LEMMA WriteUnloadedFrames ==
  ASSUME FramesBefore, NEW t \in Threads, KeepsOthers(t), WriteUnloaded(t)
  PROVE  FrameKnowledge'
<1> Types /\ t \in Actors
  BY ThreadsAct DEF FramesBefore
<1> Sees(t) /\ Finds(t)
  BY DEF FramesBefore, FrameKnowledge
<1>1. /\ at[t] = "unload" /\ at'[t] = "writeBack" /\ Go(t, "unload", "writeBack")
      /\ \A u \in Actors : u # t => at'[u] = at[u]
  BY Goes1 DEF WriteUnloaded
<1> DEFINE f == frame[t]
           v == Victim(t)
<1>2. f \in Frames /\ ~free[f] /\ word[t].of = v /\ word[t].flags = flags[v]
  BY <1>1, TypesOfTables DEF Finds
<1>3. /\ \A e \in Pages : InFrame(e) => ~free[frameNum[e]] /\ holder[frameNum[e]] = e
      /\ \A g \in Frames : \E e \in Pages : Has(g, e)
  BY <1>1, FramesInFault DEF Faulting, Bringing, Finds
<1>4. v \in Pages /\ InFrame(v) /\ frameNum[v] = f
  BY <1>2, <1>3 DEF Has, Victim
<1>5. Page(t) \in Pages /\ Page(t)' = Page(t) /\ ~InFrame(Page(t)) /\ Used(t)
  BY <1>1, HasPage DEF WriteUnloaded, Page, Sees, Out, Searching
<1> HIDE DEF f, v
<1>6. /\ flags'[v] = Unloaded(flags[v])
      /\ \A e \in Pages : e # v => flags'[e] = flags[e]
      /\ UNCHANGED <<frame, free, holder, frameNum>>
  BY <1>2, <1>4, TypesOfTables DEF WriteUnloaded, WriteFlags, frameTable
<1>7. flags'[v].used = flags[v].used /\ ~flags'[v].loaded
  <2>1. flags[v] \in AllFlags
    BY <1>4, TypesOfTables
  <2> QED BY <1>6, <2>1 DEF AllFlags, Unloaded
<1>8. \A e \in Pages : InFrame(e)' <=> InFrame(e) /\ e # v
  BY <1>6, <1>7 DEF InFrame
<1>9. \A e : ~GaveFrame(e) /\ ~GaveFrame(e)'
  <2>1. \A e : ~GaveFrame(e)
    BY <1>1, FaultAlone DEF FramesBefore, Faulting
  <2>2. \A e : GaveFrame(e)' <=> GaveFrame(e)
    BY <1>1, GaveFrameSame DEF Dropping
  <2> QED BY <2>1, <2>2
<1>10. frame'[t] = f
  BY <1>6 DEF f
<1>11. Settled'
  <2>1. ASSUME NEW g \in Frames, g # f PROVE \E e \in Pages : Has(g, e)'
    <3>1. PICK e \in Pages : Has(g, e)
      BY <1>3
    <3>2. e # v
      BY <1>4, <2>1, <3>1 DEF Has
    <3> QED BY <1>6, <1>8, <1>9, <3>1, <3>2 DEF Has
  <2>2. at'[t] \in Bringing
    BY <1>1 DEF Bringing
  <2>3. \A e \in Pages :
          InFrame(e)' => ~free'[frameNum'[e]] /\ holder'[frameNum'[e]] = e
    BY <1>3, <1>6, <1>8
  <2> QED BY <1>10, <2>1, <2>2, <2>3 DEF Settled
<1>12. SweepSees'
  BY <1>1, <1>6, ThreadsAct DEF FramesBefore, FrameKnowledge, SweepSees, KeepsOthers
<1>13. ASSUME NEW u \in Threads, u # t PROVE Sees(u)' /\ Finds(u)'
  <2>1. at[u] \notin Accessing \union Faulting \union Deleting /\ at'[u] = at[u]
    BY <1>1, <1>13, ThreadsAct DEF FramesBefore, FramesApart, Alone, Faulting
  <2>2. Sees(u) /\ call'[u] = call[u]
    BY <1>13 DEF FramesBefore, FrameKnowledge, KeepsOthers
  <2>3. CASE at[u] \in {"idle", "crashed"}
    BY <2>1, <2>3, NothingKnown DEF Between
  <2>4. CASE at[u] \notin {"idle", "crashed"}
    <3>1. Page(u) \in Pages /\ Page(u)' = Page(u)
      BY <2>2, <2>4, HasPage DEF Page
    <3>2. flags'[Page(u)].used = flags[Page(u)].used
      BY <1>6, <1>7, <3>1
    <3>3. at[u] \notin {"lookup", "dirtied", "load", "unused", "referred", "translate",
                         "use", "referredFree"}
            \union Searching \union Bringing \union In
      BY <2>1 DEF Searching, Bringing, In, Accessing, Faulting, Deleting
    <3>4. Sees(u)'
      BY <1>8, <2>1, <2>2, <3>1, <3>2, <3>3 DEF Sees, Used
    <3>5. Finds(u)'
      BY <2>1, <3>3, NothingFound
    <3> QED BY <3>4, <3>5
  <2> QED BY <2>3, <2>4
<1>14. Sees(t)'
  <2>1. flags'[Page(t)].used
    BY <1>5, <1>6, <1>7 DEF Used
  <2> QED BY <1>1, <1>5, <1>8, <2>1 DEF Sees, Used, In, Page
<1>15. Finds(t)'
  <2>1. \A e \in Pages : InFrame(e) /\ frameNum[e] = f => e = v
    BY <1>3, <1>4
  <2> QED BY <1>1, <1>6, <1>8, <1>10, <2>1 DEF Finds
<1> QED BY <1>11, <1>12, <1>13, <1>14, <1>15 DEF FrameKnowledge

\* Nobody else is in an access, a fault or a deletion, and the others keep what they
\* know of their pages.
LEMMA OthersAside ==
  ASSUME FramesBefore, NEW t \in Threads, at[t] \in Accessing \union Faulting \union Deleting,
         at[t] \notin {"idle", "crashed"},
         NEW from, NEW to, Go(t, from, to), KeepsOthers(t),
         \A e \in Pages : e # Page(t) => flags'[e] = flags[e] /\ frameNum'[e] = frameNum[e]
  PROVE  \A u \in Threads : u # t => Sees(u)' /\ Finds(u)'
<1> SUFFICES ASSUME NEW u \in Threads, u # t PROVE Sees(u)' /\ Finds(u)'
  OBVIOUS
<1>1. at[u] \notin Faulting
  BY NobodyFaults DEF FramesBefore
<1>2. at[u] \notin {"idle", "crashed"} => Page(u) # Page(t) /\ Page(u) \in Pages
  BY OtherPage, HasPage DEF FramesBefore
<1> QED BY <1>1, <1>2, OthersElsewhere

LEMMA ClaimFrames ==
  ASSUME FramesBefore, NEW t \in Threads, KeepsOthers(t), Claim(t)
  PROVE  FrameKnowledge'
<1> Types /\ t \in Actors
  BY ThreadsAct DEF FramesBefore
<1> Sees(t) /\ Finds(t)
  BY DEF FramesBefore, FrameKnowledge
<1>1. /\ at[t] = "claim" /\ at'[t] = "own" /\ Go(t, "claim", "own")
      /\ \A u \in Actors : u # t => at'[u] = at[u]
  BY Goes1 DEF Claim
<1> DEFINE f == frame[t]
<1>2. /\ f \in Frames /\ ~free'[f]
      /\ \A g \in Frames : g # f => free'[g] = free[g]
      /\ UNCHANGED <<frame, call, holder, flags, frameNum>>
  BY TypesOfTables DEF Claim, locals, entries
<1>3. Page(t) \in Pages /\ Page(t)' = Page(t)
  BY <1>1, <1>2, HasPage DEF Page
<1> HIDE DEF f
<1>4. \A e \in Pages : /\ InFrame(e)' <=> InFrame(e)
                       /\ GaveFrame(e)' <=> GaveFrame(e)
                       /\ frameNum[e] \in Frames
  BY <1>1, <1>2, <1>3, GaveFrameSame, TypesOfTables DEF InFrame, Dropping
<1>5. Settled'
  <2>1. at'[t] \in Bringing /\ frame'[t] = f
    BY <1>1, <1>2 DEF Bringing, f
  <2>2. ASSUME NEW g \in Frames, g # f, ~free'[g] PROVE \E e \in Pages : Has(g, e)'
    <3>1. PICK e \in Pages : Has(g, e)
      BY <1>1, <1>2, <2>2, FramesInFault DEF Faulting, f
    <3> QED BY <1>2, <1>4, <3>1 DEF Has
  <2>3. \A e \in Pages : InFrame(e)' => ~free'[frameNum'[e]] /\ holder'[frameNum'[e]] = e
    BY <1>1, <1>2, <1>4, FramesInFault DEF Faulting
  <2> QED BY <2>1, <2>2, <2>3 DEF Settled
<1>6. SweepSees'
  <2>1. frame[Timer] \in Frames /\ frame'[Timer] = frame[Timer] /\ at'[Timer] = at[Timer]
    BY <1>1, <1>2, ThreadsAct, TypesOfTables
  <2> QED BY <1>2, <2>1 DEF FramesBefore, FrameKnowledge, SweepSees
<1>7. \A u \in Threads : u # t => Sees(u)' /\ Finds(u)'
  BY <1>1, <1>2, OthersAside DEF Faulting
<1>8. Sees(t)'
  BY <1>1, <1>2, <1>3, <1>4 DEF Sees, Used, Out, In, Searching, Bringing
<1>9. Finds(t)'
  BY <1>1, <1>2, <1>4 DEF Finds, Bringing, f
<1> QED BY <1>5, <1>6, <1>7, <1>8, <1>9 DEF FrameKnowledge

LEMMA OwnFrames ==
  ASSUME FramesBefore, NEW t \in Threads, KeepsOthers(t), Own(t)
  PROVE  FrameKnowledge'
<1> Types /\ t \in Actors
  BY ThreadsAct DEF FramesBefore
<1> Sees(t) /\ Finds(t)
  BY DEF FramesBefore, FrameKnowledge
<1>1. /\ at[t] = "own" /\ at'[t] = "install" /\ Go(t, "own", "install")
      /\ \A u \in Actors : u # t => at'[u] = at[u]
  BY Goes1 DEF Own
<1> DEFINE f == frame[t]
<1>2. /\ f \in Frames /\ holder'[f] = Page(t) /\ ~free[f]
      /\ \A g \in Frames : g # f => holder'[g] = holder[g]
      /\ UNCHANGED <<frame, call, free, flags, frameNum>>
  BY <1>1, TypesOfTables DEF Own, locals, entries, Finds
<1>3. Page(t) \in Pages /\ Page(t)' = Page(t)
  BY <1>1, <1>2, HasPage DEF Page
<1>4. \A e \in Pages : InFrame(e) => frameNum[e] # f
  BY <1>1 DEF Finds, Bringing
<1>5. Victim(t)' = Page(t)'
  BY <1>2, <1>3 DEF Victim
<1> HIDE DEF f
<1>6. \A e \in Pages : /\ InFrame(e)' <=> InFrame(e)
                       /\ GaveFrame(e)' <=> GaveFrame(e)
                       /\ frameNum[e] \in Frames
  BY <1>1, <1>2, <1>3, GaveFrameSame, TypesOfTables DEF InFrame, Dropping
<1>7. Settled'
  <2>1. at'[t] \in Bringing /\ frame'[t] = f
    BY <1>1, <1>2 DEF Bringing, f
  <2>2. ASSUME NEW g \in Frames, g # f, ~free'[g] PROVE \E e \in Pages : Has(g, e)'
    <3>1. PICK e \in Pages : Has(g, e)
      BY <1>1, <1>2, <2>2, FramesInFault DEF Faulting, f
    <3> QED BY <1>2, <1>6, <2>2, <3>1 DEF Has
  <2>3. \A e \in Pages : InFrame(e)' => ~free'[frameNum'[e]] /\ holder'[frameNum'[e]] = e
    BY <1>1, <1>2, <1>4, <1>6, FramesInFault DEF Faulting
  <2> QED BY <2>1, <2>2, <2>3 DEF Settled
<1>8. SweepSees'
  BY <1>1, <1>2, ThreadsAct DEF FramesBefore, FrameKnowledge, SweepSees
<1>9. \A u \in Threads : u # t => Sees(u)' /\ Finds(u)'
  BY <1>1, <1>2, OthersAside DEF Faulting
<1>10. Sees(t)'
  BY <1>1, <1>2, <1>3, <1>6 DEF Sees, Used, Out, In, Searching, Bringing
<1>11. Finds(t)'
  BY <1>1, <1>2, <1>4, <1>5, <1>6 DEF Finds, Bringing, f
<1> QED BY <1>7, <1>8, <1>9, <1>10, <1>11 DEF FrameKnowledge

LEMMA WriteLoadedFrames ==
  ASSUME FramesBefore, NEW t \in Threads, KeepsOthers(t), WriteLoaded(t)
  PROVE  FrameKnowledge'
<1> Types /\ t \in Actors
  BY ThreadsAct DEF FramesBefore
<1> Sees(t) /\ Finds(t)
  BY DEF FramesBefore, FrameKnowledge
<1>1. /\ at[t] = "load" /\ at'[t] = "read" /\ Go(t, "load", "read")
      /\ \A u \in Actors : u # t => at'[u] = at[u]
  BY Goes1 DEF WriteLoaded
<1>0. PICK p, f : p = Page(t) /\ f = frame[t]
  OBVIOUS
<1>2. /\ p \in Pages /\ Page(t)' = p /\ word[t].of = p /\ word[t].flags = flags[p]
      /\ flags[p].used /\ f \in Frames /\ ~free[f] /\ holder[f] = p
  BY <1>0, <1>1, HasPage, TypesOfTables
     DEF WriteLoaded, Page, FramesBefore, Setters, Sees, Finds, Used, Bringing, Victim
<1>3. \A e \in Pages : InFrame(e) => frameNum[e] # f
  BY <1>0, <1>1 DEF Finds, Bringing
<1>4. /\ flags'[p] = LoadedClean(flags[p]) /\ frameNum'[p] = f
      /\ \A e \in Pages : e # p => flags'[e] = flags[e] /\ frameNum'[e] = frameNum[e]
      /\ UNCHANGED <<frame, free, holder>>
  BY <1>0, <1>2, TypesOfTables DEF WriteLoaded, WriteFlags, frameTable
<1>5. InFrame(p)' /\ \A e \in Pages : e # p => (InFrame(e)' <=> InFrame(e))
  <2>1. flags[p] \in AllFlags
    BY <1>2, TypesOfTables
  <2>2. flags'[p].used /\ flags'[p].loaded
    BY <1>2, <1>4, <2>1 DEF AllFlags, LoadedClean
  <2> QED BY <1>4, <2>2 DEF InFrame
<1>6. \A e : ~GaveFrame(e)'
  <2>1. \A e : ~GaveFrame(e)
    BY <1>1, FaultAlone DEF FramesBefore, Faulting
  <2>2. \A e : GaveFrame(e)' <=> GaveFrame(e)
    BY <1>1, GaveFrameSame DEF Dropping
  <2> QED BY <2>1, <2>2
<1>7. Settled'
  <2>1. Has(f, p)'
    BY <1>2, <1>4, <1>5, <1>6 DEF Has
  <2>2. ASSUME NEW g \in Frames, g # f, ~free'[g] PROVE \E e \in Pages : Has(g, e)'
    <3>1. PICK e \in Pages : Has(g, e)
      BY <1>0, <1>1, <1>4, <2>2, FramesInFault DEF Faulting
    <3>2. CASE e = p
      BY <1>0, <1>1, <3>1, <3>2 DEF Has, Sees, Out, Bringing
    <3>3. CASE e # p
      BY <1>4, <1>5, <1>6, <3>1, <3>3 DEF Has
    <3> QED BY <3>2, <3>3
  <2>3. \A e \in Pages : InFrame(e)' => ~free'[frameNum'[e]] /\ holder'[frameNum'[e]] = e
    BY <1>1, <1>2, <1>4, <1>5, FramesInFault DEF Faulting
  <2> QED BY <1>2, <2>1, <2>2, <2>3 DEF Settled
<1>8. SweepSees'
  BY <1>1, <1>4, ThreadsAct DEF FramesBefore, FrameKnowledge, SweepSees
<1>9. \A u \in Threads : u # t => Sees(u)' /\ Finds(u)'
  BY <1>0, <1>1, <1>4, OthersAside DEF Faulting
<1>10. Sees(t)'
  BY <1>1, <1>2, <1>5 DEF Sees, Out, In, Searching, Bringing
<1>11. Finds(t)'
  BY <1>1, NothingFound DEF Searching, Bringing
<1> QED BY <1>7, <1>8, <1>9, <1>10, <1>11 DEF FrameKnowledge

\* Who is in the midst of a deletion.
LEMMA DeletesAlone ==
  ASSUME FramesBefore, NEW t \in Threads, at[t] \in Deleting
  PROVE  /\ \A u \in Threads : at[u] \notin Bringing
         /\ at[Timer] \notin Ageing
<1>1. Bringing \subseteq Faulting /\ at[t] \notin Faulting
  BY DEF Bringing, Faulting, Deleting
<1> QED BY <1>1, NobodyFaults DEF FramesBefore, FramesApart

LEMMA FreeFrameFrames ==
  ASSUME FramesBefore, NEW t \in Threads, KeepsOthers(t), FreeFrame(t)
  PROVE  FrameKnowledge'
<1> Types /\ t \in Actors
  BY ThreadsAct DEF FramesBefore
<1>1. /\ at[t] = "free" /\ at'[t] = "uncluster" /\ Go(t, "free", "uncluster")
      /\ \A u \in Actors : u # t => at'[u] = at[u]
  BY Goes1 DEF FreeFrame
<1>0. PICK p, f : p = Page(t) /\ f = frameNum[p]
  OBVIOUS
<1>2. /\ p \in Pages /\ f \in Frames /\ holder[f] = p
  BY <1>0, <1>1, PageInFrame, TypesOfTables DEF In
<1>3. /\ free'[f] /\ \A g \in Frames : g # f => free'[g] = free[g]
      /\ UNCHANGED <<frame, call, holder, flags, frameNum>> /\ Page(t)' = p
  BY <1>0, <1>2, TypesOfTables DEF FreeFrame, locals, entries, Page
<1>4. \A e \in Pages : InFrame(e)' <=> InFrame(e)
  BY <1>3 DEF InFrame
<1>5. GaveFrame(p)' /\ \A e : e # p => (GaveFrame(e)' <=> GaveFrame(e))
  <2>1. \A u \in Threads : Page(u)' = Page(u)
    BY <1>3 DEF Page
  <2>2. at'[t] \in Dropping
    BY <1>1 DEF Dropping
  <2> QED BY <1>0, <1>1, <2>1, <2>2, ThreadsAct DEF GaveFrame
<1>6. Settled'
  <2>1. ASSUME NEW e \in Pages, InFrame(e)', ~GaveFrame(e)'
        PROVE  ~free'[frameNum'[e]] /\ holder'[frameNum'[e]] = e
    <3>1. e # p /\ InFrame(e) /\ ~GaveFrame(e) /\ frameNum[e] \in Frames
      BY <1>4, <1>5, <2>1, TypesOfTables
    <3>2. ~free[frameNum[e]] /\ holder[frameNum[e]] = e
      BY <3>1 DEF FramesBefore, FrameKnowledge, Settled
    <3> QED BY <1>2, <1>3, <3>1, <3>2
  <2>2. ASSUME NEW g \in Frames, ~free'[g] PROVE \E e \in Pages : Has(g, e)'
    <3>1. g # f /\ ~free[g]
      BY <1>3, <2>2
    <3>2. PICK e \in Pages : Has(g, e)
      BY <1>1, <3>1, DeletesAlone DEF FramesBefore, FrameKnowledge, Settled, Deleting
    <3>3. e # p
      BY <1>0, <3>1, <3>2 DEF Has
    <3> QED BY <1>3, <1>4, <1>5, <3>2, <3>3 DEF Has
  <2> QED BY <2>1, <2>2 DEF Settled
<1>7. SweepSees'
  <2>1. at'[Timer] = at[Timer] /\ at[Timer] \notin Ageing
    BY <1>1, ThreadsAct, DeletesAlone DEF Deleting
  <2> QED BY <2>1 DEF SweepSees, Ageing
<1>8. \A u \in Threads : u # t => Sees(u)' /\ Finds(u)'
  BY <1>1, <1>3, OthersAside DEF Deleting
<1>9. Sees(t)' /\ Finds(t)'
  BY <1>1, NothingKnown
<1> QED BY <1>6, <1>7, <1>8, <1>9 DEF FrameKnowledge

LEMMA WriteUnusedFrames ==
  ASSUME FramesBefore, NEW t \in Threads, KeepsOthers(t), WriteUnused(t)
  PROVE  FrameKnowledge'
<1> Types /\ t \in Actors
  BY ThreadsAct DEF FramesBefore
<1>1. /\ at[t] = "unused" /\ at'[t] = "idle" /\ Go(t, "unused", "idle")
      /\ \A u \in Actors : u # t => at'[u] = at[u]
  BY Goes1 DEF WriteUnused, Return
<1>0. PICK p : p = Page(t)
  OBVIOUS
<1>2. p \in Pages /\ word[t].of = p /\ word[t].flags = flags[p] /\ GaveFrame(p)
  BY <1>0, <1>1, HasPage DEF FramesBefore, Setters, FrameKnowledge, Sees, GaveFrame, Dropping
<1>3. /\ flags'[p] = [flags[p] EXCEPT !.used = FALSE]
      /\ \A e \in Pages : e # p => flags'[e] = flags[e] /\ frameNum'[e] = frameNum[e]
      /\ UNCHANGED <<free, holder>>
  BY <1>0, <1>2, TypesOfTables DEF WriteUnused, WriteFlags, frameTable
<1>4. ~InFrame(p)' /\ \A e \in Pages : e # p => (InFrame(e)' <=> InFrame(e))
  <2>1. flags[p] \in AllFlags
    BY <1>2, TypesOfTables
  <2>2. ~flags'[p].used
    BY <1>3, <2>1 DEF AllFlags
  <2> QED BY <1>3, <2>2 DEF InFrame
<1>5. \A e : e # p => (GaveFrame(e)' <=> GaveFrame(e))
  <2>1. \A u \in Threads : u # t => Page(u)' = Page(u) /\ at'[u] = at[u]
    BY <1>1, ThreadsAct DEF KeepsOthers, Page
  <2>2. at'[t] \notin Dropping
    BY <1>1 DEF Dropping
  <2> QED BY <1>0, <2>1, <2>2 DEF GaveFrame
<1>6. Settled'
  <2>1. \A e \in Pages : InFrame(e)' /\ ~GaveFrame(e)' =>
                           ~free'[frameNum'[e]] /\ holder'[frameNum'[e]] = e
    BY <1>3, <1>4, <1>5 DEF FramesBefore, FrameKnowledge, Settled
  <2>2. ASSUME NEW g \in Frames, ~free'[g] PROVE \E e \in Pages : Has(g, e)'
    <3>1. PICK e \in Pages : Has(g, e)
      BY <1>1, <1>3, <2>2, DeletesAlone DEF FramesBefore, FrameKnowledge, Settled, Deleting
    <3>2. e # p
      BY <1>2, <3>1 DEF Has
    <3> QED BY <1>3, <1>4, <1>5, <3>1, <3>2 DEF Has
  <2> QED BY <2>1, <2>2 DEF Settled
<1>7. SweepSees'
  <2>1. at'[Timer] = at[Timer] /\ at[Timer] \notin Ageing
    BY <1>1, ThreadsAct, DeletesAlone DEF Deleting
  <2> QED BY <2>1 DEF SweepSees, Ageing
<1>8. \A u \in Threads : u # t => Sees(u)' /\ Finds(u)'
  BY <1>1, <1>3, OthersAside, <1>0 DEF Deleting
<1>9. Sees(t)' /\ Finds(t)'
  BY <1>1, NothingKnown DEF Between
<1> QED BY <1>6, <1>7, <1>8, <1>9 DEF FrameKnowledge

LEMMA CreatePageFrames ==
  ASSUME FramesBefore, NEW t \in Threads, KeepsOthers(t), CreatePage(t)
  PROVE  FrameKnowledge'
<1> Types /\ t \in Actors
  BY ThreadsAct DEF FramesBefore
<1>1. /\ at[t] = "fill" /\ at'[t] = "idle" /\ Go(t, "fill", "idle")
      /\ \A u \in Actors : u # t => at'[u] = at[u]
  BY Goes1 DEF CreatePage, Return
<1>0. PICK p : p = Page(t)
  OBVIOUS
<1>2. p \in Pages /\ ~flags[p].used
  BY <1>0, <1>1, HasPage DEF FramesBefore, FrameKnowledge, Sees, Used
<1>3. /\ flags'[p] = NewFlags
      /\ \A e \in Pages : e # p => flags'[e] = flags[e]
      /\ UNCHANGED <<free, holder, frameNum>>
  BY <1>0, <1>2, TypesOfTables DEF CreatePage, frameTable
<1>4. \A e \in Pages : InFrame(e)' <=> InFrame(e)
  BY <1>2, <1>3 DEF InFrame, NewFlags
<1>5. \A e : GaveFrame(e)' <=> GaveFrame(e)
  BY <1>1, GaveFrameSame DEF Dropping
<1>6. \A u \in Threads : u # t => /\ at'[u] = at[u] /\ frame'[u] = frame[u]
                                  /\ call'[u] = call[u] /\ word'[u] = word[u]
  BY <1>1, ThreadsAct DEF KeepsOthers
<1>7. Settled'
  <2>1. \A u \in Threads : at'[u] \in Bringing <=> at[u] \in Bringing
    BY <1>1, <1>6 DEF Bringing
  <2>2. \A f, e : Has(f, e) /\ e \in Pages => Has(f, e)'
    BY <1>3, <1>4, <1>5 DEF Has
  <2>3. \A u \in Threads : at[u] \in Bringing => frame'[u] = frame[u]
    BY <1>1, <1>6 DEF Bringing
  <2> QED BY <1>3, <1>4, <1>5, <2>1, <2>2, <2>3 DEF FramesBefore, FrameKnowledge, Settled
<1>8. SweepSees'
  BY <1>1, <1>3, ThreadsAct DEF FramesBefore, FrameKnowledge, SweepSees, KeepsOthers
<1>9. ASSUME NEW u \in Threads, u # t PROVE Sees(u)' /\ Finds(u)'
  <2>1. Sees(u) /\ Finds(u)
    BY DEF FramesBefore, FrameKnowledge
  <2>2. CASE at[u] \in {"idle", "crashed"}
    BY <1>6, <1>9, <2>2, NothingKnown DEF Between
  <2>3. CASE at[u] \notin {"idle", "crashed"}
    <3>1. Page(u) \in Pages /\ Page(u)' = Page(u) /\ Page(u) # p
      BY <1>0, <1>1, <1>6, <1>9, <2>3, HasPage, OtherPage DEF Page, FramesBefore
    <3>2. flags'[Page(u)] = flags[Page(u)]
      BY <1>3, <3>1
    <3>3. Sees(u)'
      BY <1>3, <1>4, <1>6, <1>9, <2>1, <3>1, <3>2 DEF Sees, Used
    <3>4. Victim(u)' = Victim(u)
      BY <1>3, <1>6, <1>9 DEF Victim
    <3>5. at[u] = "unload" => flags'[Victim(u)] = flags[Victim(u)]
      <4>1. SUFFICES ASSUME at[u] = "unload" PROVE flags'[Victim(u)] = flags[Victim(u)]
        OBVIOUS
      <4>2. frame[u] \in Frames /\ ~free[frame[u]]
        BY <2>1, <4>1, TypesOfTables, ThreadsAct DEF Finds
      <4>3. PICK e \in Pages : Has(frame[u], e)
        BY <4>1, <4>2, FramesInFault DEF Faulting, Bringing
      <4>4. Victim(u) = e /\ flags[e].used
        BY <4>3 DEF Has, Victim, InFrame
      <4> QED BY <1>2, <1>3, <4>4
    <3>6. \A e \in Pages : InFrame(e)' => frameNum'[e] = frameNum[e]
      BY <1>3
    <3>7. Finds(u)'
      BY <1>3, <1>4, <1>6, <1>9, <2>1, <3>1, <3>4, <3>5 DEF Finds
    <3> QED BY <3>3, <3>7
  <2> QED BY <2>2, <2>3
<1>10. Sees(t)' /\ Finds(t)'
  BY <1>1, NothingKnown DEF Between
<1> QED BY <1>7, <1>8, <1>9, <1>10 DEF FrameKnowledge

-----------------------------------------------------------------------------
(* Frames: every step *)

LEMMA ThreadFrames ==
  ASSUME FramesBefore, NEW t \in Threads, Step(t), ~Unwritten, ~Unwritten',
         crash' # "transfer"
  PROVE  FrameKnowledge'
<1>0. KeepsOthers(t)
  BY StepKeepsOthers DEF FramesBefore
<1>1. CASE GotNull(t)
  <2>1. PICK label \in {"lookup", "dirty", "refer"} : Crash(t, label, "nullEntry")
    BY <1>1 DEF GotNull
  <2> QED BY <1>0, <2>1, CrashFrames DEF Bringing, Dropping
<1>2. CASE \E e \in Pages : Delete(t, e) \/ Create(t, e)
                              \/ \E store \in Stores : Instruct(t, e, store)
  BY <1>0, <1>2, BeginFrames
<1>3. CASE \/ EnterAccess(t) \/ CheckValid(t) \/ LookUp(t) \/ SetDirty(t)
           \/ SetReferenced(t) \/ WriteReferenced(t)
  BY <1>0, <1>3, AccessFrames
<1>4. CASE EnterAddress(t) \/ NoAddress(t) \/ Translate(t) \/ Use(t)
  BY <1>0, <1>4, AddressFrames
<1>5. CASE \/ EnterFault(t) \/ FaultRefused(t) \/ StartScan(t) \/ Scan(t) \/ Evict(t)
           \/ NoVictim(t)
  BY <1>0, <1>5, SearchFrames
<1>6. CASE WriteBack(t) \/ Install(t) \/ Read(t)
  BY <1>0, <1>6, BringFrames
<1>7. CASE \/ DeleteNothing(t) \/ DeletePage(t) \/ GetTable(t) \/ ReadBits(t)
           \/ FreeCluster(t) \/ SetUnused(t)
  BY <1>0, <1>7, DeleteFrames
<1>8. CASE CreateNothing(t) \/ StartAllocating(t) \/ TakeCluster(t)
  BY <1>0, <1>8, CreateFrames
<1>9. CASE \/ WriteDirty(t) \/ WriteUnloaded(t) \/ WriteLoaded(t) \/ WriteUnused(t)
           \/ Claim(t) \/ Own(t) \/ FreeFrame(t) \/ CreatePage(t)
  BY <1>0, <1>9, WriteDirtyFrames, WriteUnloadedFrames, WriteLoadedFrames,
     WriteUnusedFrames, ClaimFrames, OwnFrames, FreeFrameFrames, CreatePageFrames
<1>10. CASE WriteBackFails(t) \/ GiveUp(t) \/ ReadFails(t)
  <2>1. \A from, to : Go(t, from, to) => from # "unwritten" /\ to # "unwritten"
    BY Goes1, ThreadsAct DEF FramesBefore, Unwritten
  <2>2. Return(t, "read", {proc[t]}) /\ UNCHANGED tables
    BY <1>10, <2>1, Failing DEF Crash, Return
  <2> QED BY <1>0, <2>2, ReturnFrames
          DEF tables, frameTable, entries, SameFrames, Bringing, Dropping
<1> QED
  BY <1>1, <1>2, <1>3, <1>4, <1>5, <1>6, <1>7, <1>8, <1>9, <1>10 DEF Step

\* The periodic job writes back the free bit of a frame that is still in use.
LEMMA TimerFrames ==
  ASSUME FramesBefore, KernelHeld, Tick
  PROVE  FrameKnowledge'
<1> Types /\ OwnPages /\ Setters /\ Timer \in Actors
  BY ThreadsAct DEF FramesBefore
<1>1. /\ \A t \in Threads : /\ at'[t] = at[t] /\ call'[t] = call[t]
                            /\ word'[t] = word[t] /\ frame'[t] = frame[t]
      /\ UNCHANGED <<holder, flags, frameNum>>
  BY TimerControl DEF entries
<1>2. free' = free
  <2>1. CASE WriteShifted
    <3>1. at[Timer] = "aged" /\ free' = [free EXCEPT ![frame[Timer]] = FALSE]
      BY <2>1, Goes1 DEF WriteShifted
    <3>2. ~free[frame[Timer]] /\ frame[Timer] \in Frames
      BY <3>1, TypesOfTables DEF FramesBefore, FrameKnowledge, SweepSees
    <3> QED BY <3>1, <3>2, TypesOfTables
  <2> QED BY <2>1 DEF Tick, StartJob, SkipFree, Shift, Poll, tables, frameTable
<1>3. SweepSees'
  <2>1. CASE Shift
    BY <2>1, Goes1 DEF Shift, SweepSees, locals, tables, frameTable
  <2>2. CASE StartJob \/ SkipFree \/ WriteShifted \/ Poll
    <3>1. PICK to \in {"age", "poll", "done", "tick"} : \E from : Go(Timer, from, to)
      BY <2>2 DEF StartJob, SkipFree, WriteShifted, Poll, AfterAgeing
    <3>2. at'[Timer] = to
      BY <3>1, Goes1
    <3> QED BY <3>2 DEF SweepSees
  <2> QED BY <2>1, <2>2 DEF Tick
<1>4. /\ \A t \in Threads : Page(t)' = Page(t) /\ Victim(t)' = Victim(t)
      /\ \A e \in Pages : (InFrame(e)' <=> InFrame(e)) /\ (GaveFrame(e)' <=> GaveFrame(e))
  BY <1>1 DEF Page, Victim, InFrame, GaveFrame
<1>5. Settled'
  <2>1. \A f, e : Has(f, e) /\ e \in Pages => Has(f, e)'
    BY <1>1, <1>4 DEF Has
  <2>2. \A t \in Threads : at[t] \in Bringing => at'[t] \in Bringing /\ frame'[t] = frame[t]
    BY <1>1
  <2> QED BY <1>1, <1>2, <1>4, <2>1, <2>2 DEF FramesBefore, FrameKnowledge, Settled
<1>6. ASSUME NEW t \in Threads PROVE Sees(t)' /\ Finds(t)'
  <2>1. Sees(t) /\ Finds(t)
    BY DEF FramesBefore, FrameKnowledge
  <2>2. Sees(t)'
    BY <1>1, <2>1 DEF Sees, Used, Page, InFrame
  <2>3. Finds(t)'
    BY <1>1, <1>2, <2>1 DEF Finds, Victim, Page, InFrame
  <2> QED BY <2>2, <2>3
<1> QED BY <1>3, <1>5, <1>6 DEF FrameKnowledge

LEMMA SameFrameKnowledge ==
  ASSUME UNCHANGED vars, FrameKnowledge
  PROVE  FrameKnowledge'
<1>1. UNCHANGED <<at, call, word, frame, free, holder, flags, frameNum>>
  BY DEF vars, locals, tables, frameTable, entries
<1>2. Settled'
  BY <1>1 DEF FrameKnowledge, Settled, GaveFrame, Has, InFrame, Page
<1>3. SweepSees'
  BY <1>1 DEF FrameKnowledge, SweepSees
<1>4. \A t \in Threads : Sees(t)' /\ Finds(t)'
  BY <1>1 DEF FrameKnowledge, Sees, Finds, Used, Page, InFrame, Victim
<1> QED BY <1>2, <1>3, <1>4 DEF FrameKnowledge

LEMMA NextControlled ==
  ASSUME Controlled, [Next]_vars
  PROVE  Controlled' /\ raced \subseteq raced' /\ proc' = proc
<1> USE DEF Controlled
<1>1. Types'
  BY NextTypes
<1>2. CASE Tick
  BY <1>1, <1>2, TimerControl
<1>3. ASSUME NEW t \in Threads, Step(t)
      PROVE  Controlled' /\ raced \subseteq raced' /\ proc' = proc
  <2>1. PICK from, to : Go(t, from, to)
    BY <1>3, StepGoes
  <2>2. Recorded' /\ raced \subseteq raced' /\ proc' = proc
    BY <2>1, ThreadsAct, Goes1
  <2> QED BY <1>1, <1>3, <2>2, StepControl, ThreadKernelHeld
<1>4. CASE UNCHANGED vars
  <2>1. UNCHANGED <<at, call, word, raced, proc, mutex>>
    BY <1>4 DEF vars, locals
  <2>2. Recorded'
    BY <2>1 DEF Recorded, Overlap, Unwritten
  <2>3. OwnPages' /\ Setters' /\ KernelHeld'
    BY <2>1 DEF OwnPages, Setters, KernelHeld, Page
  <2> QED BY <1>1, <2>1, <2>2, <2>3
<1> QED BY <1>2, <1>3, <1>4 DEF Next, Ended

LEMMA NextFrames ==
  ASSUME Controlled, Separate, FrameInv, [Next]_vars
  PROVE  FrameInv'
<1> SUFFICES ASSUME "frames" \notin raced', crash' # "transfer" PROVE FrameKnowledge'
  BY DEF FrameInv
<1>1. Controlled' /\ raced \subseteq raced'
  BY NextControlled
<1>2. crash # "transfer" => FramesBefore
  BY <1>1, ApartNow, ApartNext DEF Controlled, FramesBefore, FrameInv
<1>3. CASE Tick
  <2>1. crash = "none"
    BY <1>3 DEF Tick, StartJob, SkipFree, Shift, WriteShifted, Poll, Go
  <2> QED BY <1>2, <1>3, <2>1, TimerFrames DEF Controlled
<1>4. ASSUME NEW t \in Threads, Step(t) PROVE FrameKnowledge'
  <2>1. crash = "none"
    BY <1>4, StepGoes DEF Go
  <2>2. ~Unwritten /\ ~Unwritten'
    BY <1>1 DEF Controlled, Recorded
  <2> QED BY <1>2, <1>4, <2>1, <2>2, ThreadFrames
<1>5. CASE UNCHANGED vars
  BY <1>2, <1>5, SameFrameKnowledge DEF FramesBefore, vars
<1> QED BY <1>3, <1>4, <1>5 DEF Next, Ended

LEMMA InitFrames == Init => FrameInv
<1> SUFFICES ASSUME Init PROVE FrameKnowledge
  BY DEF FrameInv
<1>1. /\ \A t \in Threads : at[t] = "idle"
      /\ at[Timer] = "tick"
      /\ \A f \in Frames : free[f]
      /\ \A e \in Pages : ~InFrame(e)
  BY ThreadsAct DEF Init, InFrame, NewFlags
<1>2. \A t \in Threads : Sees(t) /\ Finds(t)
  BY <1>1 DEF Sees, Finds, Out, In, Searching, Bringing
<1> QED BY <1>1, <1>2 DEF FrameKnowledge, Settled, SweepSees

-----------------------------------------------------------------------------
(* Crashes *)

LEMMA NextCrash ==
  ASSUME Controlled, Separate, FrameInv, CrashInv, [Next]_vars
  PROVE  CrashInv'
<1> SUFFICES ASSUME "frames" \notin raced', ~Guarded PROVE crash' = "none"
  BY DEF CrashInv
<1>1. Controlled' /\ raced \subseteq raced'
  BY NextControlled
<1>2. FramesBefore /\ crash = "none"
  BY <1>1, ApartNow, ApartNext DEF Controlled, FramesBefore, FrameInv, CrashInv
<1> Types
  BY DEF Controlled
<1>3. ASSUME NEW t \in Threads, Step(t) PROVE crash' = "none"
  <2> Sees(t) /\ Finds(t) /\ t \in Actors
    BY <1>2, ThreadsAct DEF FramesBefore, FrameKnowledge
  <2>1. CASE GotNull(t)
    <3>1. PICK label \in {"lookup", "dirty", "refer"} : Go(t, label, "crashed") /\ ~Used(t)
      BY <2>1 DEF GotNull, Crash
    <3>2. at[t] = label
      BY <3>1, Goes1
    <3> QED BY <3>1, <3>2 DEF Sees, In, InFrame, Used
  <2>2. CASE NoVictim(t)
    <3>1. at[t] = "evict" /\ Victim(t) = NoPage
      BY <2>2, Goes1 DEF NoVictim, Crash
    <3>2. frame[t] \in Frames /\ ~free[frame[t]]
      BY <3>1, TypesOfTables DEF Finds
    <3>3. PICK e \in Pages : Has(frame[t], e)
      BY <1>2, <3>1, <3>2, FramesInFault DEF Faulting, Bringing
    <3>4. NoPage \notin Pages
      BY OverlappingCallsAssumption
    <3> QED BY <3>1, <3>3, <3>4 DEF Has, Victim
  <2>3. CASE \E e \in Pages : Delete(t, e) \/ Create(t, e)
                                \/ \E store \in Stores : Instruct(t, e, store)
    BY <1>2, <2>3 DEF Delete, Create, Instruct, Begin
  <2>4. CASE EnterAccess(t) \/ CheckValid(t) \/ LookUp(t) \/ SetDirty(t) \/ WriteDirty(t)
    BY <1>2, <2>4 DEF EnterAccess, CheckValid, LookUp, SetDirty, WriteDirty
  <2>5. CASE SetReferenced(t) \/ WriteReferenced(t) \/ EnterAddress(t) \/ NoAddress(t)
    BY <1>2, <2>5 DEF SetReferenced, WriteReferenced, EnterAddress, NoAddress
  <2>6. CASE Translate(t) \/ Use(t) \/ EnterFault(t) \/ FaultRefused(t) \/ StartScan(t)
    BY <1>2, <2>6 DEF Translate, Use, EnterFault, FaultRefused, StartScan, Return
  <2>7. CASE Scan(t) \/ Evict(t) \/ WriteUnloaded(t) \/ WriteBack(t) \/ Claim(t) \/ Own(t)
    BY <1>2, <2>7 DEF Scan, Evict, WriteUnloaded, WriteBack, Claim, Own
  <2>8. CASE Install(t) \/ WriteLoaded(t) \/ Read(t) \/ DeleteNothing(t) \/ DeletePage(t)
    BY <1>2, <2>8 DEF Install, WriteLoaded, Read, DeleteNothing, DeletePage, Return
  <2>9. CASE GetTable(t) \/ FreeFrame(t) \/ ReadBits(t) \/ FreeCluster(t) \/ SetUnused(t)
    BY <1>2, <2>9 DEF GetTable, FreeFrame, ReadBits, ReadByte, FreeCluster, SetUnused
  <2>10. CASE \/ WriteUnused(t) \/ CreateNothing(t) \/ StartAllocating(t) \/ TakeCluster(t)
              \/ CreatePage(t)
    BY <1>2, <2>10
       DEF WriteUnused, CreateNothing, StartAllocating, TakeCluster, CreatePage, Return
  <2>11. CASE WriteBackFails(t) \/ GiveUp(t) \/ ReadFails(t)
    BY <1>2, <2>11 DEF WriteBackFails, GiveUp, ReadFails, Return
  <2> QED
    BY <1>3, <2>1, <2>2, <2>3, <2>4, <2>5, <2>6, <2>7, <2>8, <2>9, <2>10, <2>11 DEF Step
<1>4. CASE Tick
  BY <1>2, <1>4, TimerControl DEF Controlled
<1>5. CASE UNCHANGED vars
  BY <1>2, <1>5 DEF vars
<1> QED BY <1>3, <1>4, <1>5 DEF Next, Ended

\* A failed transfer is a step of a fault.
LEMMA TransferFails ==
  ASSUME Types, NEW t \in Threads, Step(t), crash' = "transfer"
  PROVE  at[t] \in Faulting /\ Go(t, at[t], "crashed")
<1> t \in Actors
  BY ThreadsAct
<1>0. crash = "none"
  BY StepGoes DEF Go
<1>1. crash' # crash
  BY <1>0
<1>2. ~(\E e \in Pages : \/ Delete(t, e) \/ Create(t, e)
                          \/ \E store \in Stores : Instruct(t, e, store))
  BY <1>1 DEF Delete, Create, Instruct, Begin
<1>3. ~(EnterAccess(t) \/ CheckValid(t) \/ GotNull(t) \/ LookUp(t) \/ SetDirty(t))
  BY <1>1 DEF EnterAccess, CheckValid, GotNull, LookUp, SetDirty, Crash
<1>4. ~(WriteDirty(t) \/ SetReferenced(t) \/ WriteReferenced(t) \/ EnterAddress(t))
  BY <1>1 DEF WriteDirty, SetReferenced, WriteReferenced, EnterAddress
<1>5. ~(NoAddress(t) \/ Translate(t) \/ Use(t) \/ EnterFault(t) \/ FaultRefused(t))
  BY <1>1 DEF NoAddress, Translate, Use, EnterFault, FaultRefused, Return, Crash
<1>6. ~(StartScan(t) \/ Scan(t) \/ NoVictim(t) \/ Evict(t) \/ WriteUnloaded(t))
  BY <1>1 DEF StartScan, Scan, NoVictim, Evict, WriteUnloaded, Crash
<1>7. ~(WriteBack(t) \/ Claim(t) \/ Own(t) \/ Install(t) \/ WriteLoaded(t) \/ Read(t))
  BY <1>1 DEF WriteBack, Claim, Own, Install, WriteLoaded, Read
<1>8. ~(DeleteNothing(t) \/ DeletePage(t) \/ GetTable(t) \/ FreeFrame(t) \/ ReadBits(t))
  BY <1>1 DEF DeleteNothing, DeletePage, GetTable, FreeFrame, ReadBits, ReadByte, Return
<1>9. ~(FreeCluster(t) \/ SetUnused(t) \/ WriteUnused(t) \/ CreateNothing(t))
  BY <1>1 DEF FreeCluster, SetUnused, WriteUnused, CreateNothing, Return
<1>10. ~(StartAllocating(t) \/ TakeCluster(t) \/ CreatePage(t))
  BY <1>1 DEF StartAllocating, TakeCluster, CreatePage, Return
<1>11. WriteBackFails(t) \/ GiveUp(t) \/ ReadFails(t)
  BY <1>2, <1>3, <1>4, <1>5, <1>6, <1>7, <1>8, <1>9, <1>10 DEF Step
<1>12. PICK from \in {"writeBack", "read"} : Go(t, from, "crashed")
  BY <1>1, <1>11, Failing DEF Crash, Return
<1> QED BY <1>12, Goes1 DEF Faulting

LEMMA NextFailed ==
  ASSUME Controlled, Failed, [Next]_vars
  PROVE  Failed'
<1> Types
  BY DEF Controlled
<1>1. raced \subseteq raced'
  BY NextControlled
<1>2. CASE Tick
  <2>1. crash = "none" /\ crash' = crash
    BY <1>2 DEF Tick, StartJob, SkipFree, Shift, WriteShifted, Poll, Go
  <2> QED BY <2>1 DEF Failed
<1>3. ASSUME NEW t \in Threads, Step(t), crash' = "transfer" PROVE Failed'
  <2>1. at[t] \in Faulting /\ Go(t, at[t], "crashed")
    BY <1>3, TransferFails
  <2>2. at'[t] = "crashed" /\ \A u \in Threads : u # t => at'[u] = at[u]
    BY <2>1, Goes1, ThreadsAct
  <2>3. "frames" \notin raced => \A u \in Threads : u # t => at[u] \notin Accessing
    BY <2>1, ApartNow DEF Controlled, FramesApart, Alone
  <2> QED BY <1>1, <2>2, <2>3 DEF Failed, Accessing
<1>4. CASE UNCHANGED vars
  BY <1>4 DEF Failed, vars
<1> QED BY <1>2, <1>3, <1>4 DEF Next, Ended, Failed

-----------------------------------------------------------------------------
(* Clusters: calls that do not overlap *)

ClustersApart ==
  \A t, u \in Threads :
    t # u /\ at[t] \in Deleting => at[u] \notin Deleting \union Creating \union Faulting

LEMMA ClustersApartNow == Recorded /\ "clusters" \notin raced => ClustersApart
BY ThreadsAct DEF Recorded, Overlap, HarmfulToClusters, ClustersApart

\* What holds before a step that does no harm to clusters.
ClustersBefore ==
  /\ Controlled /\ Separate /\ FrameInv
  /\ Types' /\ "clusters" \notin raced'
  /\ ClustersApart /\ UsedKnown /\ Allotted

\* A fault that evicts evicts a page in use, unless the frames were spoiled.
LEMMA VictimUsed ==
  ASSUME Types, FramesApart, FrameKnowledge, NEW t \in Threads,
         at[t] \in {"evict", "unload"}
  PROVE  Victim(t) \in Pages /\ flags[Victim(t)].used
<1>1. at[t] \in Faulting /\ at[t] \notin Bringing
  BY DEF Faulting, Bringing
<1>2. frame[t] \in Frames /\ ~free[frame[t]]
  BY TypesOfTables, ThreadsAct DEF FrameKnowledge, Finds
<1>3. PICK e \in Pages : Has(frame[t], e)
  BY <1>1, <1>2, FaultAlone DEF FrameKnowledge, Settled
<1> QED BY <1>3 DEF Has, Victim, InFrame

\* A fault and a createSegment of two threads overlap after a step only if the frames
\* were not spoiled before it.
LEMMA FramesKnown ==
  ASSUME ClustersBefore, NEW a \in Actors, NEW from, NEW to, Go(a, from, to),
         NEW t \in Threads, NEW u \in Threads, t # u,
         at'[t] \in Faulting, at'[u] \in Creating
  PROVE  FramesApart /\ FrameKnowledge
<1>1. Overlap({<<Faulting, Creating>>})'
  BY ThreadsAct DEF Overlap
<1>2. "frames" \notin raced /\ crash = "none"
  BY <1>1, Goes1 DEF ClustersBefore, Controlled
<1> QED BY <1>2, ApartNow DEF ClustersBefore, Controlled, FrameInv

\* What others know of the use of pages stays true.
LEMMA OthersUse ==
  ASSUME ClustersBefore, NEW t \in Threads, NEW from, NEW to, Go(t, from, to),
         KeepsOthers(t), NEW u \in Threads, u # t,
         word[u].of # NoPage => flags'[word[u].of].used = flags[word[u].of].used,
         at[u] \notin {"idle", "crashed"} => flags'[Page(u)].used = flags[Page(u)].used,
         at[u] \in {"mark", "cleared"} => bits' = bits
  PROVE  KnowsUse(u)'
<1>1. at'[u] = at[u]
  BY Goes1, ThreadsAct DEF ClustersBefore, Controlled
<1>2. call'[u] = call[u] /\ word'[u] = word[u] /\ byte'[u] = byte[u]
  BY DEF KeepsOthers
<1>3. KnowsUse(u)
  BY DEF ClustersBefore, UsedKnown
<1>4. at[u] \in {"seek", "mark", "fill"} \union Deleting => at[u] \notin {"idle", "crashed"}
  BY DEF Deleting
<1> QED BY <1>1, <1>2, <1>3, <1>4 DEF KnowsUse, Used, Page

\* A step evicts no page that others create, and begins to create none they evict.
LEMMA StillEvictOther ==
  ASSUME ClustersBefore, NEW t \in Threads, NEW from, NEW to, Go(t, from, to),
         KeepsOthers(t), to # "unload",
         to \in {"seek", "mark", "fill"} =>
           from \in {"seek", "mark", "fill"} /\ Page(t)' = Page(t)
  PROVE  \A u, s \in Threads : EvictsOther(u, s)'
<1> SUFFICES ASSUME NEW u \in Threads, NEW s \in Threads PROVE EvictsOther(u, s)'
  OBVIOUS
<1>1. /\ at[t] = from /\ at'[t] = to
      /\ \A x \in Threads : x # t => at'[x] = at[x]
  BY Goes1, ThreadsAct DEF ClustersBefore, Controlled
<1>2. \A x \in Threads : x # t => Page(x)' = Page(x) /\ word'[x] = word[x]
  BY DEF KeepsOthers, Page
<1>3. EvictsOther(u, s)
  BY DEF ClustersBefore, UsedKnown
<1>4. CASE s = t
  BY <1>1, <1>4 DEF EvictsOther
<1>5. CASE s # t
  BY <1>1, <1>2, <1>3, <1>5 DEF EvictsOther
<1> QED BY <1>4, <1>5

\* A step that neither takes nor gives back a cluster.
LEMMA SameClusters ==
  ASSUME ClustersBefore, NEW t \in Threads, NEW from, NEW to, Go(t, from, to),
         KeepsOthers(t), UNCHANGED <<cluster, bits>>,
         \A e \in Pages : flags'[e].used = flags[e].used,
         \/ {from, to} \intersect {"unuse", "unused", "fill"} = {}
         \/ from = "unuse" /\ to = "unused" /\ Page(t)' = Page(t)
  PROVE  Allotted'
<1>1. /\ at[t] = from /\ at'[t] = to
      /\ \A x \in Threads : x # t => at'[x] = at[x]
  BY Goes1, ThreadsAct DEF ClustersBefore, Controlled
<1>2. \A x \in Threads : x # t => Page(x)' = Page(x)
  BY DEF KeepsOthers, Page
<1>3. \A x \in Threads : /\ at'[x] \in {"unuse", "unused"} <=> at[x] \in {"unuse", "unused"}
                         /\ at'[x] = "fill" <=> at[x] = "fill"
                         /\ at[x] \in {"unuse", "unused", "fill"} => Page(x)' = Page(x)
  BY <1>1, <1>2
<1>4. \A e \in Pages : HasCluster(e)' <=> HasCluster(e)
  BY <1>3 DEF HasCluster
<1>5. Holding' = Holding
  BY <1>4 DEF Holding
<1> QED BY <1>5 DEF ClustersBefore, Allotted

\* A step that changes no used bit and no cluster, of a thread that knows what it should.
LEMMA SameUse ==
  ASSUME ClustersBefore, NEW t \in Threads, NEW from, NEW to, Go(t, from, to),
         KeepsOthers(t), UNCHANGED <<cluster, bits>>,
         \A e \in Pages : flags'[e].used = flags[e].used,
         \/ {from, to} \intersect {"unuse", "unused", "fill"} = {}
         \/ from = "unuse" /\ to = "unused" /\ Page(t)' = Page(t),
         \A u, s \in Threads : EvictsOther(u, s)',
         KnowsUse(t)'
  PROVE  UsedKnown' /\ Allotted'
<1>1. ASSUME NEW u \in Threads, u # t PROVE KnowsUse(u)'
  <2>1. word[u].of \in Pages \union {NoPage}
    BY TypesOfTables DEF ClustersBefore, Controlled, Words
  <2>2. at[u] \notin {"idle", "crashed"} => Page(u) \in Pages
    BY HasPage DEF ClustersBefore, Controlled
  <2> QED BY <1>1, <2>1, <2>2, OthersUse
<1> QED BY <1>1, SameClusters DEF UsedKnown

\* Steps that the clusters have nothing to do with.
LEMMA PlainUse ==
  ASSUME ClustersBefore, NEW t \in Threads, NEW from, NEW to, Go(t, from, to),
         KeepsOthers(t), UNCHANGED <<cluster, bits>>,
         \A e \in Pages : flags'[e].used = flags[e].used,
         from \notin {"unuse", "unused", "fill"},
         to \notin {"seek", "mark", "fill", "unload"} \union (Deleting \ {"delete"}),
         word'[t].of # NoPage => word'[t].flags.used = flags'[word'[t].of].used
  PROVE  UsedKnown' /\ Allotted'
<1>1. at'[t] = to
  BY Goes1, ThreadsAct DEF ClustersBefore, Controlled
<1>2. {"cleared", "unuse", "unused"} \subseteq Deleting \ {"delete"}
  BY DEF Deleting
<1>3. KnowsUse(t)'
  BY <1>1, <1>2 DEF KnowsUse
<1>4. \A u, s \in Threads : EvictsOther(u, s)'
  BY StillEvictOther
<1>5. {from, to} \intersect {"unuse", "unused", "fill"} = {}
  BY <1>2
<1> QED BY <1>3, <1>4, <1>5, SameUse

-----------------------------------------------------------------------------
(* Clusters: steps that the clusters have nothing to do with *)

\* A step that writes to no page table, and reads at most an entry's flags.
LEMMA QuietUse ==
  ASSUME ClustersBefore, NEW t \in Threads, NEW from, NEW to, Go(t, from, to),
         UNCHANGED <<flags, cluster, bits>>, KeepsOthers(t),
         word' = word \/ \E e : ReadFlags(t, e),
         from \notin {"unuse", "unused", "fill"},
         to \notin {"seek", "mark", "fill", "unload"} \union (Deleting \ {"delete"})
  PROVE  UsedKnown' /\ Allotted'
<1>1. word'[t] = word[t] \/ word'[t].flags = flags[word'[t].of]
  BY TypesOfTables DEF ReadFlags, ClustersBefore, Controlled
<1>2. KnowsUse(t)
  BY DEF ClustersBefore, UsedKnown
<1>3. word'[t].of # NoPage => word'[t].flags.used = flags'[word'[t].of].used
  BY <1>1, <1>2 DEF KnowsUse
<1> QED BY <1>3, PlainUse

\* Deletions that have begun have labels of their own.
LEMMA DeletingLabels ==
  Deleting \ {"delete"} = {"unframe", "free", "uncluster", "clear", "cleared", "unuse",
                           "unused"}
BY DEF Deleting

LEMMA QuietSteps ==
  ASSUME ClustersBefore, NEW t \in Threads, KeepsOthers(t),
         \/ \E e \in Pages : Delete(t, e) \/ Create(t, e)
                               \/ \E store \in Stores : Instruct(t, e, store)
         \/ EnterAccess(t) \/ CheckValid(t) \/ GotNull(t) \/ LookUp(t)
         \/ SetDirty(t) \/ SetReferenced(t) \/ WriteReferenced(t)
         \/ EnterAddress(t) \/ NoAddress(t) \/ Translate(t) \/ Use(t)
         \/ EnterFault(t) \/ FaultRefused(t) \/ StartScan(t) \/ Scan(t)
         \/ NoVictim(t) \/ WriteBack(t) \/ Claim(t) \/ Own(t) \/ Install(t) \/ Read(t)
         \/ WriteBackFails(t) \/ GiveUp(t) \/ ReadFails(t)
         \/ DeleteNothing(t) \/ CreateNothing(t)
  PROVE  UsedKnown' /\ Allotted'
<1> USE QuietUse, DeletingLabels DEF entries, tables, locals
<1>0. ASSUME NEW from, NEW how, Crash(t, from, how), from \notin {"unuse", "unused", "fill"}
      PROVE  UsedKnown' /\ Allotted'
  BY <1>0 DEF Crash
<1>a. ASSUME NEW from, NEW ms, Return(t, from, ms), UNCHANGED <<word, tables>>,
              from \notin {"unuse", "unused", "fill"}
      PROVE  UsedKnown' /\ Allotted'
  BY <1>a DEF Return
<1>1. CASE \E e \in Pages : Delete(t, e) \/ Create(t, e)
                              \/ \E store \in Stores : Instruct(t, e, store)
  BY <1>1 DEF Delete, Create, Instruct, Begin
<1>2. CASE GotNull(t) \/ NoVictim(t)
  BY <1>0, <1>2 DEF GotNull, NoVictim
<1>3. CASE EnterAccess(t)
  BY <1>3 DEF EnterAccess
<1>4. CASE CheckValid(t)
  BY <1>4 DEF CheckValid
<1>5. CASE LookUp(t)
  BY <1>5 DEF LookUp
<1>6. CASE SetDirty(t)
  BY <1>6 DEF SetDirty
<1>7. CASE SetReferenced(t)
  BY <1>7 DEF SetReferenced
<1>8. CASE WriteReferenced(t)
  BY <1>8 DEF WriteReferenced
<1>9. CASE EnterAddress(t)
  BY <1>9 DEF EnterAddress
<1>10. CASE NoAddress(t)
  BY <1>0, <1>10 DEF NoAddress
<1>11. CASE Translate(t)
  BY <1>11 DEF Translate
<1>12. CASE Use(t) \/ DeleteNothing(t) \/ CreateNothing(t)
  BY <1>a, <1>12 DEF Use, DeleteNothing, CreateNothing
<1>13. CASE EnterFault(t)
  BY <1>0, <1>13 DEF EnterFault
<1>14. CASE FaultRefused(t)
  BY <1>0, <1>a, <1>14 DEF FaultRefused
<1>15. CASE StartScan(t)
  BY <1>15 DEF StartScan
<1>16. CASE Scan(t)
  <2>1. /\ \E to \in {"scan", "claim", "evict"} : Go(t, "scan", to)
        /\ UNCHANGED <<word, flags, cluster, bits>>
    BY <1>16 DEF Scan
  <2> QED BY <2>1
<1>17. CASE WriteBack(t)
  BY <1>17 DEF WriteBack
<1>18. CASE Claim(t)
  BY <1>18 DEF Claim
<1>19. CASE Own(t)
  BY <1>19 DEF Own
<1>20. CASE Install(t)
  BY <1>20 DEF Install
<1>21. CASE Read(t)
  BY <1>21 DEF Read
<1>22. CASE WriteBackFails(t) \/ GiveUp(t) \/ ReadFails(t)
  <2>1. CASE \E from \in {"writeBack", "read"} : Crash(t, from, "transfer")
    BY <1>0, <2>1
  <2>2. CASE Go(t, "writeBack", "unwritten") /\ UNCHANGED <<locals, tables>>
    BY <2>2
  <2>3. CASE \E from \in {"unwritten", "read"} :
               Return(t, from, {proc[t]}) /\ UNCHANGED <<word, tables>>
    BY <1>a, <2>3
  <2> QED BY <1>22, <2>1, <2>2, <2>3, Failing
<1> QED
  BY <1>1, <1>2, <1>3, <1>4, <1>5, <1>6, <1>7, <1>8, <1>9, <1>10, <1>11, <1>12, <1>13,
     <1>14, <1>15, <1>16, <1>17, <1>18, <1>19, <1>20, <1>21, <1>22

\* Setters write the used bit as it is.
LEMMA WriteUse ==
  ASSUME ClustersBefore, NEW t \in Threads, KeepsOthers(t),
         WriteDirty(t) \/ WriteUnloaded(t) \/ WriteLoaded(t)
  PROVE  UsedKnown' /\ Allotted'
<1> Types /\ Setters /\ t \in Actors /\ KnowsUse(t)
  BY ThreadsAct DEF ClustersBefore, Controlled, UsedKnown
<1>1. PICK from \in {"dirtied", "unload", "load"}, to \in {"refer", "writeBack", "read"} :
        Go(t, from, to)
  BY DEF WriteDirty, WriteUnloaded, WriteLoaded
<1>2. PICK new : /\ WriteFlags(t, new) /\ new.used = word[t].flags.used
                 /\ UNCHANGED <<cluster, bits>>
  <2>1. word[t].flags \in AllFlags
    BY TypesOfTables DEF Words
  <2>2. /\ [word[t].flags EXCEPT !.dirty = TRUE].used = word[t].flags.used
        /\ Unloaded(word[t].flags).used = word[t].flags.used
        /\ LoadedClean(word[t].flags).used = word[t].flags.used
    BY <2>1 DEF AllFlags, Unloaded, LoadedClean
  <2> QED BY <2>2 DEF WriteDirty, WriteUnloaded, WriteLoaded
<1>3. ASSUME NEW e \in Pages PROVE flags'[e].used = flags[e].used
  <2>1. CASE e = word[t].of
    <3>1. NoPage \notin Pages
      BY OverlappingCallsAssumption
    <3> QED BY <1>2, <2>1, <3>1, TypesOfTables DEF WriteFlags, KnowsUse
  <2>2. CASE e # word[t].of
    BY <1>2, <2>2, TypesOfTables DEF WriteFlags
  <2> QED BY <2>1, <2>2
<1>4. word'[t].of = NoPage
  BY <1>2, TypesOfTables DEF WriteFlags, NoWord
<1> QED BY <1>1, <1>2, <1>3, <1>4, PlainUse, DeletingLabels

\* The page that is evicted is in use, and none that is being created.
LEMMA EvictUse ==
  ASSUME ClustersBefore, NEW t \in Threads, KeepsOthers(t), Evict(t)
  PROVE  UsedKnown' /\ Allotted'
<1> Types /\ t \in Actors
  BY ThreadsAct DEF ClustersBefore, Controlled
<1>1. /\ Go(t, "evict", "unload") /\ at[t] = "evict" /\ at'[t] = "unload"
      /\ \A u \in Threads : u # t => at'[u] = at[u]
  BY Goes1, ThreadsAct DEF Evict
<1>2. /\ word'[t] = [of |-> Victim(t), flags |-> flags[Victim(t)]]
      /\ UNCHANGED <<call, flags, cluster, bits>>
  BY TypesOfTables DEF Evict, ReadFlags, tables, entries
<1>3. KnowsUse(t)'
  BY <1>1, <1>2, DeletingLabels DEF KnowsUse
<1>4. ASSUME NEW u \in Threads, NEW s \in Threads PROVE EvictsOther(u, s)'
  <2>0. EvictsOther(u, s)
    BY DEF ClustersBefore, UsedKnown
  <2>1. CASE u = t
    BY <1>1, <2>1 DEF EvictsOther
  <2>2. CASE u # t /\ s # t
    BY <1>1, <1>2, <2>0, <2>2 DEF EvictsOther, KeepsOthers, Page
  <2>3. CASE u # t /\ s = t
    <3>1. SUFFICES ASSUME at'[u] \in {"seek", "mark", "fill"} PROVE Victim(t) # Page(u)
      BY <1>2, <2>3 DEF EvictsOther, Page
    <3>2. FramesApart /\ FrameKnowledge
      BY <1>1, <2>3, <3>1, FramesKnown DEF Faulting, Creating
    <3>3. flags[Victim(t)].used
      BY <1>1, <3>2, VictimUsed
    <3>4. ~Used(u)
      BY <1>1, <2>3, <3>1 DEF ClustersBefore, UsedKnown, KnowsUse
    <3> QED BY <3>3, <3>4 DEF Used
  <2> QED BY <2>1, <2>2, <2>3
<1> QED BY <1>1, <1>2, <1>3, <1>4, SameUse

-----------------------------------------------------------------------------
(* Clusters: deletions *)

LEMMA DeleteUse ==
  ASSUME ClustersBefore, NEW t \in Threads, KeepsOthers(t),
         \/ DeletePage(t) \/ GetTable(t) \/ FreeFrame(t) \/ ReadBits(t) \/ SetUnused(t)
  PROVE  UsedKnown' /\ Allotted'
<1> Types /\ Setters /\ t \in Actors /\ KnowsUse(t)
  BY ThreadsAct DEF ClustersBefore, Controlled, UsedKnown
<1>0. ASSUME NEW from \in Deleting \ {"unused"}, NEW to \in Deleting \ {"delete"},
             Go(t, from, to), UNCHANGED <<call, flags, cluster, bits>>,
             word' = word \/ ReadFlags(t, Page(t)),
             from = "delete" => Used(t),
             to = "cleared" => byte'[t] = bits,
             to = "unused" <=> from = "unuse",
             to = "unuse" => from = "unuse"
      PROVE  UsedKnown' /\ Allotted'
  <2>1. at[t] = from /\ at'[t] = to
    BY <1>0, Goes1
  <2>2. word'[t].of # NoPage => word'[t].flags.used = flags'[word'[t].of].used
    BY <1>0, TypesOfTables DEF ReadFlags, KnowsUse
  <2>3. Used(t)'
    BY <1>0, <2>1 DEF KnowsUse, Used, Page
  <2>4. KnowsUse(t)'
    BY <1>0, <2>1, <2>2, <2>3, DeletingLabels DEF KnowsUse
  <2>5. \A u, s \in Threads : EvictsOther(u, s)'
    BY <1>0, StillEvictOther, DeletingLabels
  <2>6. \/ {from, to} \intersect {"unuse", "unused", "fill"} = {}
        \/ from = "unuse" /\ to = "unused" /\ Page(t)' = Page(t)
    BY <1>0, DeletingLabels DEF Deleting, Page
  <2> QED BY <1>0, <2>4, <2>5, <2>6, SameUse
<1> USE DEF Deleting, entries, tables, locals
<1>1. CASE DeletePage(t)
  BY <1>0, <1>1 DEF DeletePage
<1>2. CASE GetTable(t)
  BY <1>0, <1>2 DEF GetTable
<1>3. CASE FreeFrame(t)
  BY <1>0, <1>3 DEF FreeFrame
<1>4. CASE ReadBits(t)
  <2>1. UNCHANGED <<call, flags, cluster, bits, word>> /\ byte'[t] = bits
    BY <1>4, TypesOfTables DEF ReadBits, ReadByte
  <2>2. CASE Go(t, "clear", "cleared")
    BY <1>0, <2>1, <2>2
  <2>3. CASE Go(t, "seek", "mark")
    <3>1. at[t] = "seek" /\ at'[t] = "mark" /\ Page(t)' = Page(t)
      BY <2>1, <2>3, Goes1 DEF Page
    <3>2. KnowsUse(t)'
      BY <2>1, <3>1, DeletingLabels DEF KnowsUse, Used
    <3>3. \A u, s \in Threads : EvictsOther(u, s)'
      BY <2>3, <3>1, StillEvictOther
    <3> QED BY <2>1, <2>3, <3>2, <3>3, SameUse
  <2> QED BY <1>4, <2>2, <2>3 DEF ReadBits, ReadByte
<1>5. CASE SetUnused(t)
  BY <1>0, <1>5 DEF SetUnused
<1> QED BY <1>1, <1>2, <1>3, <1>4, <1>5

\* Whose the clusters are after a step of t that changes what t holds.
LEMMA HoldingOthers ==
  ASSUME ClustersBefore, NEW t \in Threads, NEW from, NEW to, Go(t, from, to),
         KeepsOthers(t), from \notin {"idle", "crashed"},
         \A e \in Pages : e # Page(t) => flags'[e].used = flags[e].used,
         to = "idle" \/ Page(t)' = Page(t)
  PROVE  \A e \in Pages : e # Page(t) => (HasCluster(e)' <=> HasCluster(e))
<1>1. /\ at[t] = from /\ at'[t] = to
      /\ \A x \in Threads : x # t => at'[x] = at[x]
  BY Goes1, ThreadsAct DEF ClustersBefore, Controlled
<1>2. \A x \in Threads : x # t => Page(x)' = Page(x)
  BY DEF KeepsOthers, Page
<1> SUFFICES ASSUME NEW e \in Pages, e # Page(t) PROVE HasCluster(e)' <=> HasCluster(e)
  OBVIOUS
<1>3. \A x \in Threads : /\ at'[x] \in {"unuse", "unused"} /\ Page(x)' = e
                              <=> at[x] \in {"unuse", "unused"} /\ Page(x) = e
                         /\ at'[x] = "fill" /\ Page(x)' = e
                              <=> at[x] = "fill" /\ Page(x) = e
  BY <1>1, <1>2
<1> QED BY <1>3 DEF HasCluster

\* Nobody else is in a call about the page of a thread's call.
LEMMA OwnCluster ==
  ASSUME OwnPages, Separate, NEW t \in Threads, at[t] \notin {"idle", "crashed"}
  PROVE  /\ at[t] \notin {"unuse", "unused", "fill"} => (HasCluster(Page(t)) <=> Used(t))
         /\ at[t] \in {"unuse", "unused"} => ~HasCluster(Page(t))
         /\ at[t] = "fill" => HasCluster(Page(t))
<1>1. \A u \in Threads : u # t /\ at[u] \in {"unuse", "unused", "fill"} => Page(u) # Page(t)
  BY OtherPage
<1> QED BY <1>1 DEF HasCluster, Used

LEMMA FreeClusterUse ==
  ASSUME ClustersBefore, NEW t \in Threads, KeepsOthers(t), FreeCluster(t)
  PROVE  UsedKnown' /\ Allotted'
<1> Types /\ OwnPages /\ Separate /\ t \in Actors /\ KnowsUse(t)
  BY ThreadsAct DEF ClustersBefore, Controlled, UsedKnown
<1>1. /\ Go(t, "cleared", "unuse") /\ at[t] = "cleared" /\ at'[t] = "unuse"
      /\ \A u \in Threads : u # t => at'[u] = at[u]
  BY Goes1, ThreadsAct DEF FreeCluster
<1>2. PICK p : p = Page(t)
  OBVIOUS
<1>3. p \in Pages /\ Page(t)' = p /\ flags[p].used /\ HasCluster(p)
  BY <1>1, <1>2, HasPage, OwnCluster DEF FreeCluster, Page, KnowsUse, Used, Deleting
<1>4. bits' = bits \ {cluster[p]} /\ UNCHANGED <<call, word, flags, cluster>>
  BY <1>1, <1>2 DEF FreeCluster, WriteByte, ReleasedCluster, KnowsUse, entries
<1>5. ~HasCluster(p)'
  <2>1. at'[t] \in {"unuse", "unused"} /\ Page(t)' = p
    BY <1>1, <1>3
  <2>2. \A u \in Threads : at'[u] = "fill" => Page(u)' # p
    <3> SUFFICES ASSUME NEW u \in Threads, at'[u] = "fill" PROVE Page(u) # p
      BY <1>4 DEF Page
    <3>1. u # t /\ at[u] = "fill"
      BY <1>1
    <3> QED BY <1>1, <1>2, <3>1, OtherPage
  <2> QED BY <2>1, <2>2 DEF HasCluster
<1>6. \A e \in Pages : e # p => (HasCluster(e)' <=> HasCluster(e))
  BY <1>1, <1>2, <1>3, <1>4, HoldingOthers
<1>7. Holding' = Holding \ {p}
  BY <1>5, <1>6 DEF Holding
<1>8. Allotted'
  BY <1>3, <1>4, <1>7 DEF ClustersBefore, Allotted, Holding
<1>9. ASSUME NEW u \in Threads, u # t PROVE KnowsUse(u)'
  <2>1. at[u] \notin Deleting \union Creating
    BY <1>1, <1>9 DEF ClustersBefore, ClustersApart, Deleting
  <2> QED BY <1>1, <1>4, <1>9, <2>1, OthersUse DEF Deleting, Creating
<1>10. KnowsUse(t)'
  <2>1. KnowsUse(t)
    OBVIOUS
  <2> QED BY <1>1, <1>2, <1>3, <1>4, <2>1 DEF KnowsUse, Used
<1>11. \A u, s \in Threads : EvictsOther(u, s)'
  BY <1>1, StillEvictOther
<1> QED BY <1>8, <1>9, <1>10, <1>11 DEF UsedKnown

LEMMA WriteUnusedUse ==
  ASSUME ClustersBefore, NEW t \in Threads, KeepsOthers(t), WriteUnused(t)
  PROVE  UsedKnown' /\ Allotted'
<1> Types /\ OwnPages /\ Separate /\ Setters /\ t \in Actors /\ KnowsUse(t)
  BY ThreadsAct DEF ClustersBefore, Controlled, UsedKnown
<1>1. /\ Go(t, "unused", "idle") /\ at[t] = "unused" /\ at'[t] = "idle"
      /\ \A u \in Threads : u # t => at'[u] = at[u]
  BY Goes1, ThreadsAct DEF WriteUnused, Return
<1>2. PICK p : p = Page(t)
  OBVIOUS
<1>3. p \in Pages /\ word[t].of = p /\ ~HasCluster(p)
  BY <1>1, <1>2, HasPage, OwnCluster DEF Setters
<1>4. /\ ~flags'[p].used
      /\ \A e \in Pages : e # p => flags'[e] = flags[e] /\ cluster'[e] = cluster[e]
      /\ bits' = bits /\ word'[t].of = NoPage
  <2>1. word[t].flags \in AllFlags
    BY TypesOfTables DEF Words
  <2>2. [word[t].flags EXCEPT !.used = FALSE].used = FALSE
    BY <2>1 DEF AllFlags
  <2> QED BY <1>2, <1>3, <2>2, TypesOfTables DEF WriteUnused, WriteFlags, NoWord
<1>5. ~HasCluster(p)'
  <2>1. \A u \in Threads : at'[u] = "fill" => Page(u)' # p
    <3> SUFFICES ASSUME NEW u \in Threads, at'[u] = "fill" PROVE Page(u)' # p
      OBVIOUS
    <3>1. u # t /\ at[u] = "fill" /\ Page(u)' = Page(u)
      BY <1>1 DEF KeepsOthers, Page
    <3> QED BY <1>1, <1>2, <3>1, OtherPage
  <2> QED BY <1>4, <2>1 DEF HasCluster
<1>6. \A e \in Pages : e # p => (HasCluster(e)' <=> HasCluster(e))
  BY <1>1, <1>2, <1>4, HoldingOthers
<1>7. Holding' = Holding /\ p \notin Holding
  BY <1>3, <1>5, <1>6 DEF Holding
<1>8. Allotted'
  <2>1. \A e \in Holding : cluster'[e] = cluster[e]
    BY <1>4, <1>7 DEF Holding
  <2>2. {cluster'[e] : e \in Holding} = {cluster[e] : e \in Holding}
    BY <2>1
  <2> QED BY <1>4, <1>7, <2>1, <2>2 DEF ClustersBefore, Allotted
<1>9. ASSUME NEW u \in Threads, u # t PROVE KnowsUse(u)'
  <2>1. at[u] \notin Faulting \union Deleting
    BY <1>1, <1>9 DEF ClustersBefore, ClustersApart, Deleting
  <2>2. at[u] \notin {"idle", "crashed"} => Page(u) # p /\ Page(u) \in Pages
    BY <1>1, <1>2, <1>9, HasPage, OtherPage
  <2>3. word[u].of # NoPage => word[u].of = Page(u) /\ at[u] \notin {"idle", "crashed"}
    BY <2>1 DEF Setters, Faulting
  <2> QED BY <1>1, <1>4, <1>9, <2>2, <2>3, OthersUse
<1>10. KnowsUse(t)'
  BY <1>1, <1>4, DeletingLabels DEF KnowsUse
<1>11. \A u, s \in Threads : EvictsOther(u, s)'
  BY <1>1, StillEvictOther
<1> QED BY <1>8, <1>9, <1>10, <1>11 DEF UsedKnown

-----------------------------------------------------------------------------
(* Clusters: creations *)

LEMMA StartAllocatingUse ==
  ASSUME ClustersBefore, NEW t \in Threads, KeepsOthers(t), StartAllocating(t)
  PROVE  UsedKnown' /\ Allotted'
<1> Types /\ Setters /\ t \in Actors
  BY ThreadsAct DEF ClustersBefore, Controlled
<1>1. /\ Go(t, "create", "seek") /\ at[t] = "create" /\ at'[t] = "seek"
      /\ \A u \in Threads : u # t => at'[u] = at[u]
  BY Goes1, ThreadsAct DEF StartAllocating
<1>2. ~Used(t) /\ UNCHANGED <<call, word, flags, cluster, bits, holder, frame>>
  BY DEF StartAllocating, locals, tables, entries, frameTable
<1>3. KnowsUse(t)'
  <2>1. word[t].of = NoPage
    BY <1>1 DEF Setters
  <2> QED BY <1>1, <1>2, <2>1, DeletingLabels DEF KnowsUse, Used, Page
<1>4. ASSUME NEW u \in Threads, NEW s \in Threads PROVE EvictsOther(u, s)'
  <2>0. EvictsOther(u, s)
    BY DEF ClustersBefore, UsedKnown
  <2>1. CASE u # t
    BY <1>1, <1>2, <2>0, <2>1 DEF EvictsOther, Page
  <2>2. CASE u = t
    <3>1. SUFFICES ASSUME at'[s] = "unload" PROVE word[s].of # Page(t)
      BY <1>2, <2>2 DEF EvictsOther, Page
    <3>2. s # t /\ at[s] = "unload"
      BY <1>1, <3>1
    <3>3. FramesApart /\ FrameKnowledge
      BY <1>1, <3>1, <3>2, FramesKnown DEF Faulting, Creating
    <3>4. flags[Victim(s)].used
      BY <3>2, <3>3, VictimUsed
    <3>5. word[s] = [of |-> Victim(s), flags |-> flags[Victim(s)]]
      BY <3>2, <3>3 DEF FrameKnowledge, Finds
    <3> QED BY <1>2, <3>4, <3>5 DEF Used
  <2> QED BY <2>1, <2>2
<1> QED BY <1>1, <1>2, <1>3, <1>4, SameUse

\* There are clusters for all pages, so one is left for a page that has none.
LEMMA ClusterLeft ==
  ASSUME Types, Allotted, NEW p \in Pages \ Holding
  PROVE  ~(Clusters \subseteq bits)
<1> SUFFICES ASSUME Clusters \subseteq bits PROVE FALSE
  OBVIOUS
<1>1. PICK c \in [Pages -> Clusters] : Distinct(c)
  BY OverlappingCallsAssumption
<1>2. IsFiniteSet(Clusters)
  BY OverlappingCallsAssumption, FS_Interval DEF Clusters
<1>3. c \in Injection(Pages, Clusters)
  BY <1>1 DEF Injection, IsInjective, Distinct
<1>4. IsFiniteSet(Pages) /\ Cardinality(Pages) <= Cardinality(Clusters)
  BY <1>2, <1>3, FS_Injection
<1>5. Holding \in SUBSET Pages
  BY DEF Holding
<1>6. IsFiniteSet(Holding) /\ Cardinality(Holding) <= Cardinality(Pages)
  BY <1>4, <1>5, FS_Subset
<1> DEFINE g == [e \in Holding |-> cluster[e]]
<1>7. g \in Surjection(Holding, Clusters)
  <2>1. \A e \in Holding : cluster[e] \in Clusters
    BY <1>5, TypesOfTables
  <2>2. \A x \in Clusters : \E e \in Holding : cluster[e] = x
    BY DEF Allotted
  <2> QED BY <2>1, <2>2 DEF Surjection
<1> HIDE DEF g
<1>8. Cardinality(Clusters) <= Cardinality(Holding)
  BY <1>6, <1>7, FS_Surjection
<1>9. /\ Cardinality(Clusters) \in Nat /\ Cardinality(Holding) \in Nat
      /\ Cardinality(Pages) \in Nat
  BY <1>2, <1>4, <1>6, FS_CardinalityType
<1>10. Cardinality(Pages) = Cardinality(Holding)
  BY <1>4, <1>6, <1>8, <1>9
<1>11. Pages = Holding
  BY <1>4, <1>5, <1>10, FS_Subset
<1> QED BY <1>11

LEMMA TakeClusterUse ==
  ASSUME ClustersBefore, NEW t \in Threads, KeepsOthers(t), TakeCluster(t)
  PROVE  UsedKnown' /\ Allotted'
<1> /\ Types /\ OwnPages /\ Separate /\ Setters /\ KernelHeld /\ t \in Actors
    /\ KnowsUse(t) /\ Allotted
  BY ThreadsAct DEF ClustersBefore, Controlled, UsedKnown
<1>1. /\ Go(t, "mark", "fill") /\ at[t] = "mark" /\ at'[t] = "fill"
      /\ \A u \in Threads : u # t => at'[u] = at[u]
  BY Goes1, ThreadsAct DEF TakeCluster
<1>2. PICK p : p = Page(t)
  OBVIOUS
<1>3. p \in Pages /\ Page(t)' = p /\ ~flags[p].used /\ p \notin Holding
  BY <1>1, <1>2, HasPage, OwnCluster DEF TakeCluster, Page, KnowsUse, Used, Holding
<1>4. PICK c \in Clusters : /\ c \notin bits /\ bits' = bits \union {c}
                            /\ cluster'[p] = c
                            /\ \A e \in Pages : e # p => cluster'[e] = cluster[e]
  <2>1. byte[t] = bits
    BY <1>1 DEF KnowsUse
  <2>2. ~(Clusters \subseteq bits)
    BY <1>3, ClusterLeft
  <2> QED BY <1>2, <1>3, <2>1, <2>2, TypesOfTables DEF TakeCluster, WriteByte
<1>5. UNCHANGED <<call, word, flags>>
  BY DEF TakeCluster
<1>6. HasCluster(p)'
  BY <1>1, <1>3 DEF HasCluster
<1>7. \A e \in Pages : e # p => (HasCluster(e)' <=> HasCluster(e))
  BY <1>1, <1>2, <1>3, <1>5, HoldingOthers
<1>8. Holding' = Holding \union {p}
  BY <1>3, <1>6, <1>7 DEF Holding
<1>9. Allotted'
  <2>1. \A e \in Holding : cluster'[e] = cluster[e] /\ cluster[e] \in bits
    BY <1>3, <1>4 DEF Allotted, Holding
  <2>2. {cluster'[e] : e \in Holding \union {p}} = {cluster[e] : e \in Holding} \union {c}
    BY <1>4, <2>1
  <2> QED BY <1>3, <1>4, <1>8, <2>1, <2>2 DEF Allotted
<1>10. ASSUME NEW u \in Threads, u # t PROVE KnowsUse(u)'
  <2>1. at[u] # "cleared"
    <3>1. at[u] \notin Deleting
      BY <1>1, <1>10 DEF ClustersBefore, ClustersApart, Creating
    <3> QED BY <3>1 DEF Deleting
  <2>2. at[u] # "mark"
    BY <1>1, <1>10, ThreadsAct DEF KernelHeld, KernelSteps, GlobalSteps
  <2> QED BY <1>1, <1>5, <1>10, <2>1, <2>2, OthersUse
<1>11. KnowsUse(t)'
  BY <1>1, <1>2, <1>3, <1>5, DeletingLabels DEF KnowsUse, Setters, Used, Page
<1>12. \A u, s \in Threads : EvictsOther(u, s)'
  BY <1>1, <1>2, <1>3, StillEvictOther
<1> QED BY <1>9, <1>10, <1>11, <1>12 DEF UsedKnown

LEMMA CreatePageUse ==
  ASSUME ClustersBefore, NEW t \in Threads, KeepsOthers(t), CreatePage(t)
  PROVE  UsedKnown' /\ Allotted'
<1> /\ Types /\ OwnPages /\ Separate /\ Setters /\ t \in Actors /\ Allotted
  BY ThreadsAct DEF ClustersBefore, Controlled
<1>1. /\ Go(t, "fill", "idle") /\ at[t] = "fill" /\ at'[t] = "idle"
      /\ \A u \in Threads : u # t => at'[u] = at[u]
  BY Goes1, ThreadsAct DEF CreatePage, Return
<1>2. PICK p : p = Page(t)
  OBVIOUS
<1>3. p \in Pages /\ HasCluster(p) /\ word[t].of = NoPage
  BY <1>1, <1>2, HasPage, OwnCluster DEF Setters
<1>4. /\ flags'[p].used
      /\ \A e \in Pages : e # p => flags'[e] = flags[e]
      /\ UNCHANGED <<word, cluster, bits>>
  BY <1>2, <1>3, TypesOfTables DEF CreatePage, NewFlags
<1>5. HasCluster(p)'
  <2>1. \A u \in Threads : at'[u] \in {"unuse", "unused"} => Page(u)' # p
    <3> SUFFICES ASSUME NEW u \in Threads, at'[u] \in {"unuse", "unused"} PROVE Page(u)' # p
      OBVIOUS
    <3>1. u # t /\ at[u] \in {"unuse", "unused"} /\ Page(u)' = Page(u)
      BY <1>1 DEF KeepsOthers, Page
    <3> QED BY <1>1, <1>2, <3>1, OtherPage
  <2> QED BY <1>4, <2>1 DEF HasCluster
<1>6. \A e \in Pages : e # p => (HasCluster(e)' <=> HasCluster(e))
  BY <1>1, <1>2, <1>4, HoldingOthers
<1>7. Holding' = Holding
  BY <1>3, <1>5, <1>6 DEF Holding
<1>8. Allotted'
  BY <1>4, <1>7 DEF Allotted
<1>9. ASSUME NEW u \in Threads, u # t PROVE KnowsUse(u)'
  <2>1. at[u] \notin {"idle", "crashed"} => Page(u) # p /\ Page(u) \in Pages
    BY <1>1, <1>2, <1>9, HasPage, OtherPage
  <2>2. word[u].of # NoPage => word[u].of # p /\ word[u].of \in Pages
    <3>1. EvictsOther(t, u)
      BY DEF ClustersBefore, UsedKnown
    <3>2. word[u].of \in Pages \union {NoPage}
      BY TypesOfTables DEF Words
    <3> QED BY <1>1, <1>2, <2>1, <3>1, <3>2 DEF EvictsOther, Setters
  <2> QED BY <1>1, <1>4, <1>9, <2>1, <2>2, OthersUse
<1>10. KnowsUse(t)'
  BY <1>1, <1>3, <1>4, DeletingLabels DEF KnowsUse
<1>11. \A u, s \in Threads : EvictsOther(u, s)'
  BY <1>1, StillEvictOther
<1> QED BY <1>8, <1>9, <1>10, <1>11 DEF UsedKnown

-----------------------------------------------------------------------------
(* Clusters: every step *)

LEMMA ThreadClusters ==
  ASSUME ClustersBefore, NEW t \in Threads, Step(t)
  PROVE  UsedKnown' /\ Allotted'
<1>0. KeepsOthers(t)
  BY StepKeepsOthers DEF ClustersBefore, Controlled
<1>1. CASE WriteDirty(t) \/ WriteUnloaded(t) \/ WriteLoaded(t) \/ Evict(t)
  BY <1>0, <1>1, WriteUse, EvictUse
<1>2. CASE \/ DeletePage(t) \/ GetTable(t) \/ FreeFrame(t) \/ ReadBits(t) \/ SetUnused(t)
           \/ FreeCluster(t) \/ WriteUnused(t)
  BY <1>0, <1>2, DeleteUse, FreeClusterUse, WriteUnusedUse
<1>3. CASE StartAllocating(t) \/ TakeCluster(t) \/ CreatePage(t)
  BY <1>0, <1>3, StartAllocatingUse, TakeClusterUse, CreatePageUse
<1>4. CASE \/ \E e \in Pages : Delete(t, e) \/ Create(t, e)
                                \/ \E store \in Stores : Instruct(t, e, store)
           \/ EnterAccess(t) \/ CheckValid(t) \/ GotNull(t) \/ LookUp(t)
           \/ SetDirty(t) \/ SetReferenced(t) \/ WriteReferenced(t)
           \/ EnterAddress(t) \/ NoAddress(t) \/ Translate(t) \/ Use(t)
           \/ EnterFault(t) \/ FaultRefused(t) \/ StartScan(t) \/ Scan(t)
           \/ NoVictim(t) \/ WriteBack(t) \/ Claim(t) \/ Own(t) \/ Install(t) \/ Read(t)
           \/ WriteBackFails(t) \/ GiveUp(t) \/ ReadFails(t)
           \/ DeleteNothing(t) \/ CreateNothing(t)
  BY <1>0, <1>4, QuietSteps
<1> QED BY <1>1, <1>2, <1>3, <1>4 DEF Step

\* Steps that neither threads nor the clusters have to do with.
LEMMA SameUseKnown ==
  ASSUME UsedKnown, Allotted, UNCHANGED <<call, word, byte, flags, cluster, bits>>,
         \A t \in Threads : at'[t] = at[t]
  PROVE  UsedKnown' /\ Allotted'
<1>1. UsedKnown'
  BY DEF UsedKnown, KnowsUse, EvictsOther, Used, Page
<1>2. Holding' = Holding
  BY DEF Holding, HasCluster, Page
<1> QED BY <1>1, <1>2 DEF Allotted

LEMMA NextClusters ==
  ASSUME Controlled, Separate, FrameInv, ClusterInv, [Next]_vars
  PROVE  ClusterInv'
<1> SUFFICES ASSUME "clusters" \notin raced' PROVE UsedKnown' /\ Allotted'
  BY DEF ClusterInv
<1>1. Controlled' /\ raced \subseteq raced'
  BY NextControlled
<1>2. ClustersBefore
  BY <1>1, ClustersApartNow DEF Controlled, ClustersBefore, ClusterInv
<1>3. CASE Tick
  <2>1. UNCHANGED <<call, word, byte, flags, cluster, bits>>
    BY <1>3 DEF Tick, StartJob, SkipFree, Shift, WriteShifted, Poll, locals, tables, entries
  <2>2. \A t \in Threads : at'[t] = at[t]
    BY <1>3, TimerControl DEF Controlled
  <2> QED BY <1>2, <2>1, <2>2, SameUseKnown DEF ClustersBefore
<1>4. CASE \E t \in Threads : Step(t)
  BY <1>2, <1>4, ThreadClusters
<1>5. CASE UNCHANGED vars
  BY <1>2, <1>5, SameUseKnown DEF ClustersBefore, vars, locals, tables, entries
<1> QED BY <1>3, <1>4, <1>5 DEF Next, Ended

LEMMA InitClusters == Init => ClusterInv
<1> SUFFICES ASSUME Init PROVE UsedKnown /\ Allotted
  BY DEF ClusterInv
<1>1. /\ \A t \in Threads : at[t] = "idle" /\ word[t].of = NoPage
      /\ \A e \in Pages : flags[e].used
  BY ThreadsAct DEF Init, NewFlags, NoWord
<1>2. Distinct(cluster) /\ bits = {cluster[e] : e \in Pages}
  BY OverlappingCallsAssumption DEF Init
<1>3. Holding = Pages
  BY <1>1 DEF Holding, HasCluster
<1> QED BY <1>1, <1>2, <1>3, DeletingLabels
        DEF UsedKnown, KnowsUse, EvictsOther, Allotted, Distinct

-----------------------------------------------------------------------------
(* Races *)

\* What raced records is all that spoils the tables: with one thread for each process,
\* frame table, page tables and bitmap agree but for the pages and clusters that calls
\* are at, as long as no harmful calls overlapped and no eviction failed.
THEOREM RaceInvariant == Spec => []RaceInv
<1>1. Init => RaceInv
  BY InitTypes, InitControl, InitFrames, InitClusters
     DEF RaceInv, Controlled, Failed, CrashInv, Init
<1>2. RaceInv /\ [Next]_vars => RaceInv'
  <2> SUFFICES ASSUME RaceInv, [Next]_vars PROVE RaceInv'
    OBVIOUS
  <2>1. Controlled' /\ Failed' /\ proc' = proc
    BY NextControlled, NextFailed DEF RaceInv
  <2>2. Separate' => FrameInv' /\ ClusterInv' /\ CrashInv'
    <3> SUFFICES ASSUME Separate' PROVE FrameInv' /\ ClusterInv' /\ CrashInv'
      OBVIOUS
    <3>1. Separate
      BY <2>1 DEF Separate
    <3> QED BY <3>1, NextFrames, NextClusters, NextCrash DEF RaceInv
  <2> QED BY <2>1, <2>2 DEF RaceInv
<1> QED BY <1>1, <1>2, PTL DEF Spec

\* Whatever the number of threads, frames and pages, frame table and page tables agree
\* whenever no call is under way, unless a fault overlapped a fault, access or delete of
\* another process, or a delete the periodic job, or a fault could not write the page it
\* evicted (kernel_process.cpp:123, 196-202, 224 and 231-233, frametableentry.cpp:21).
THEOREM FramesAgreeAlways == Spec => []FramesAgreeOrRaced
<1>1. RaceInv => FramesAgreeOrRaced
  <2> SUFFICES ASSUME RaceInv, Separate, Quiet, "frames" \notin raced PROVE FramesAgree
    BY DEF FramesAgreeOrRaced
  <2>1. Settled
    BY DEF RaceInv, Failed, FrameInv, FrameKnowledge, Quiet
  <2>2. \A e : ~GaveFrame(e)
    BY DEF Quiet, GaveFrame, Dropping
  <2>3. \A t \in Threads : at[t] \notin Bringing
    BY DEF Quiet, Bringing
  <2> QED BY <2>1, <2>2, <2>3 DEF Settled, FramesAgree, Has
<1> QED BY <1>1, RaceInvariant, PTL

\* Used pages have a cluster each and no other bit is set whenever no call is under way,
\* unless calls overlapped that write the bitmap or the used bit without the kernel's
\* mutex (kernel_process.cpp:126 and 220, kernelsystem.cpp:189-201).
THEOREM ClustersAgreeAlways == Spec => []ClustersAgreeOrRaced
<1>1. RaceInv => ClustersAgreeOrRaced
  <2> SUFFICES ASSUME RaceInv, Separate, Quiet, "clusters" \notin raced PROVE ClustersAgree
    BY DEF ClustersAgreeOrRaced
  <2>1. Allotted
    BY DEF RaceInv, ClusterInv
  <2>2. Holding = UsedPages
    BY DEF Quiet, Holding, HasCluster, UsedPages
  <2> QED BY <2>1, <2>2 DEF Allotted, ClustersAgree
<1> QED BY <1>1, RaceInvariant, PTL

\* Also in a program without the driver's mutex a load or store goes to the frame its
\* page is in, unless a fault overlapped the access or failed to evict before
\* (kernel_process.cpp:224 and 262).
THEOREM StoreReachesItsPageAlways == Spec => []StoreReachesItsPage
<1>1. RaceInv => StoreReachesItsPage
  <2> SUFFICES ASSUME RaceInv, NEW t \in Threads, at[t] = "use", Separate,
                      "frames" \notin raced
               PROVE  holder[frame[t]] = Page(t)
    BY DEF StoreReachesItsPage
  <2>1. Types /\ OwnPages /\ FrameKnowledge
    BY DEF RaceInv, Controlled, Failed, FrameInv, Accessing
  <2>2. InFrame(Page(t)) /\ frame[t] = frameNum[Page(t)]
    BY <2>1 DEF FrameKnowledge, Sees, In
  <2>3. Page(t) \in Pages /\ ~GaveFrame(Page(t))
    BY <2>1, HasPage, KeepsItsFrame DEF Dropping
  <2> QED BY <2>1, <2>2, <2>3 DEF FrameKnowledge, Settled
<1> QED BY <1>1, RaceInvariant, PTL

\* Without the driver, whose assertions and exceptions end the program too, no call
\* follows a null pointer unless harmful calls overlapped or an eviction failed
\* (kernelsystem.cpp:156-162, kernel_process.cpp:220 and 224).
THEOREM CrashNeedsRaceAlways == ASSUME ~Guarded PROVE Spec => []CrashNeedsRace
<1>1. RaceInv => CrashNeedsRace
  BY DEF RaceInv, CrashInv, CrashNeedsRace
<1> QED BY <1>1, RaceInvariant, PTL

=============================================================================
