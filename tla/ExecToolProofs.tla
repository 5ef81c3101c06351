--------------------------- MODULE ExecToolProofs ---------------------------
(***************************************************************************)
(* That no process of a tool runs unseen, that a task which ended or was   *)
(* cancelled says so truthfully and for good, and that no wake-up of       *)
(* await_task is lost, for every set of calls, every limit of the table    *)
(* and any number of tasks that are awaited and cancelled; and that a      *)
(* client reaches what it started while it runs, and leaves nothing        *)
(* running when it goes.                                                   *)
(***************************************************************************)
EXTENDS MCProcesses, TLAPS

CallRecords == [pc : {"new", "spawn", "insert", "register", "collect", "end", "settle", "done",
                      "refused", "dropped", "left"}, code : BOOLEAN]
ToolRecords == [pc : {"idle", "await", "look", "sleep", "cancel", "set", "remove", "notify"},
                of : Starts \cup {None}, seen : Nat]

(* A process's way: it starts once, and what runs is held.                   *)
ProcessShape ==
  /\ entries \subseteq Starts
  /\ proc \in [Starts -> {"none", "running", "killed", "exited", "lost"}]
  /\ call \in [Starts -> CallRecords]

(* A task is there before anything is done with it, and who is about to set  *)
(* its end has seen the process's.                                           *)
TaskShape ==
  /\ task \in [Starts -> Ended \cup {"none", "running"}] /\ calls \in [Starts -> Nat]
  /\ watch \in [Starts -> {"off", "watch", "complete", "remove", "notify", "done"}]
  /\ tool \in ToolRecords
  /\ tool.pc # "idle" => tool.of \in Starts
Registered ==
  /\ \A t \in Starts : call[t].pc \in {"new", "spawn", "insert", "register"} => task[t] = "none"
  /\ \A t \in Starts : watch[t] # "off" => task[t] # "none"
  /\ tool.pc # "idle" => task[tool.of] # "none"
Seen ==
  /\ \A t \in Starts : watch[t] = "complete" => ~Runs(t)
  /\ tool.pc = "set" => ~Runs(tool.of)
Listed == tool.pc # "idle" => tool.seen <= calls[tool.of]

Held == ProcessShape /\ RunningIsHeld
Tasks == TaskShape /\ Registered
Truthful == Seen /\ EndedDoNotRun
Inv == Held /\ Tasks /\ Truthful /\ Listed /\ WakeIsComing

-----------------------------------------------------------------------------
(* What each operation of the table does to the processes.                   *)
LEMMA KillEnds ==
  ASSUME NEW S, proc \in [Starts -> {"none", "running", "killed", "exited", "lost"}]
  PROVE  /\ Killed(S) \in [Starts -> {"none", "running", "killed", "exited", "lost"}]
         /\ \A t \in Starts : Killed(S)[t] = "running" => Runs(t) /\ t \notin S
BY DEF Killed, Runs

LEMMA HeldStep == Held /\ [Next]_vars => Held'
<1> SUFFICES ASSUME Held, [Next]_vars PROVE Held'
  OBVIOUS
<1> USE DEF Held, ProcessShape, RunningIsHeld, CallRecords, At, Go, Runs
<1>1. ASSUME NEW t \in Starts, Call(t) PROVE Held'
  <2>1. ASSUME NEW victims, Exec(t, victims) PROVE Held'
    <3>1. entries' = entries \ victims /\ proc' = Killed(victims)
      BY <2>1 DEF Exec, Reserve
    <3>2. call' \in [Starts -> CallRecords] /\ \A u \in Starts : At(u, "insert") => At(u, "insert")'
      BY <2>1 DEF Exec
    <3> QED
      BY <3>1, <3>2, KillEnds
  <2>2. CASE SpawnProcess(t)
    BY <2>2 DEF SpawnProcess, Spawn
  <2>3. CASE SpawnFails(t)
    BY <2>3 DEF SpawnFails, Release
  <2>4. CASE InsertProcess(t)
    BY <2>4 DEF InsertProcess, Insert
  <2>5. CASE RegisterCommand(t)
    BY <2>5 DEF RegisterCommand, storeVars
  <2>6. CASE Collect(t)
    BY <2>6 DEF Collect, storeVars, HasCode
  <2>7. CASE Settle(t)
    BY <2>7, KillEnds DEF Settle, Remove, storeVars
  <2>8. CASE NoticeCancel(t)
    BY <2>8, KillEnds DEF NoticeCancel, Kill
  <2>9. CASE EndCanceled(t)
    BY <2>9, KillEnds DEF EndCanceled, Remove
  <2>10. CASE DropCall(t)
    BY <2>10, KillEnds DEF DropCall, Dropped, Kill, storeVars
  <2> QED
    BY <1>1, <2>1, <2>2, <2>3, <2>4, <2>5, <2>6, <2>7, <2>8, <2>9, <2>10 DEF Call
<1>2. ASSUME NEW t \in Starts, Guard(t) \/ Writes(t) \/ Watch(t) PROVE Held'
  <2>1. UNCHANGED storeVars \/ Kill({t}) \/ Remove(t)
    BY <1>2 DEF Guard, GuardKills, GuardRemoves, Writes, Write, CollectMore, SettleWrite, LeaveWrite, Watch,
                SeeEnd, Complete, AlreadyCanceled, RemoveCompleted, NotifyCompleted
  <2>2. UNCHANGED call
    BY <1>2 DEF Guard, GuardKills, GuardRemoves, Writes, Write, CollectMore, SettleWrite, LeaveWrite, Watch,
                SeeEnd, Complete, AlreadyCanceled, RemoveCompleted, NotifyCompleted, callVars
  <2> QED
    BY <2>1, <2>2, KillEnds DEF Kill, Remove, storeVars
<1>3. ASSUME NEW t \in Starts, CancelTurn(t) \/ ProcessEnds(t) PROVE Held'
  BY <1>3, KillEnds DEF CancelTurn, ProcessEnds, Exit, Kill, storeVars, callVars
<1>4. CASE Await \/ Cancel \/ LeaveTool
  <2>1. UNCHANGED storeVars \/ Kill({tool.of}) \/ Remove(tool.of)
    BY <1>4 DEF Await, Begin, Enlist, Look, Wake, Cancel, CancelKills, CancelSets, CancelRemoves,
                CancelNotifies, LeaveTool
  <2>2. UNCHANGED call
    BY <1>4 DEF Await, Begin, Enlist, Look, Wake, Cancel, CancelKills, CancelSets, CancelRemoves,
                CancelNotifies, LeaveTool, callVars
  <2> QED
    BY <2>1, <2>2, KillEnds DEF Kill, Remove, storeVars
<1>5. CASE Shutdown
  BY <1>5, KillEnds DEF Shutdown, TerminateAll, callVars
<1>6. CASE UNCHANGED vars
  BY <1>6 DEF vars, storeVars, callVars
<1> QED
  BY <1>1, <1>2, <1>3, <1>4, <1>5, <1>6 DEF Next

-----------------------------------------------------------------------------
LEMMA TasksStep == Held /\ Tasks /\ [Next]_vars => Tasks'
<1> SUFFICES ASSUME Held, Tasks, [Next]_vars PROVE Tasks'
  OBVIOUS
<1> USE DEF Tasks, TaskShape, Registered, Ended
<1>1. ASSUME NEW t \in Starts, Call(t) PROVE Tasks'
  <2>1. CASE RegisterCommand(t)
    BY <2>1 DEF RegisterCommand, At, Go, Held, ProcessShape, CallRecords
  <2>2. CASE ~RegisterCommand(t)
    <3>1. UNCHANGED taskVars
      BY <1>1, <2>2 DEF Call, Exec, SpawnProcess, SpawnFails, InsertProcess, Collect, Settle,
                        NoticeCancel, EndCanceled, DropCall
    <3>2. \A u \in Starts : call'[u].pc \in {"new", "spawn", "insert", "register"}
                              => call[u].pc \in {"new", "spawn", "insert", "register"}
      <4>1. ASSUME NEW victims, Exec(t, victims)
            PROVE  call[t].pc = "new" /\ \A u \in Starts : u # t => call'[u] = call[u]
        BY <4>1 DEF Exec, At, Go, Held, ProcessShape
      <4>2. CASE SpawnProcess(t) \/ SpawnFails(t) \/ InsertProcess(t)
        BY <4>2 DEF SpawnProcess, SpawnFails, InsertProcess, At, Go, Held, ProcessShape, CallRecords
      <4>3. CASE Collect(t) \/ Settle(t) \/ NoticeCancel(t) \/ EndCanceled(t) \/ DropCall(t)
        BY <4>3 DEF Collect, Settle, NoticeCancel, EndCanceled, DropCall, Dropped, At, Go, Held, ProcessShape,
                    CallRecords
      <4> QED
        BY <1>1, <2>2, <4>1, <4>2, <4>3 DEF Call
    <3> QED
      BY <3>1, <3>2 DEF taskVars
  <2> QED
    BY <2>1, <2>2
<1>2. ASSUME NEW t \in Starts, Guard(t) \/ Writes(t) \/ CancelTurn(t) \/ ProcessEnds(t) PROVE Tasks'
  BY <1>2 DEF Guard, GuardKills, GuardRemoves, Writes, Write, CollectMore, SettleWrite, LeaveWrite, CancelTurn,
              ProcessEnds, taskVars, callVars
<1>3. ASSUME NEW t \in Starts, Watch(t) PROVE Tasks'
  <2>1. CASE SeeEnd(t) \/ AlreadyCanceled(t) \/ RemoveCompleted(t) \/ NotifyCompleted(t)
    BY <2>1 DEF SeeEnd, AlreadyCanceled, RemoveCompleted, NotifyCompleted, callVars
  <2>2. CASE Complete(t)
    BY <2>2 DEF Complete, callVars
  <2> QED
    BY <1>3, <2>1, <2>2 DEF Watch
<1>4. ASSUME NEW t \in Background, NEW pc \in {"await", "cancel"}, Begin(t, pc) PROVE Tasks'
  <2>1. t \in Starts
    BY ExecAssumption
  <2>2. /\ tool' \in ToolRecords /\ tool'.of = t /\ task[t] # "none"
        /\ UNCHANGED <<call, task, calls, watch>>
    BY <1>4, <2>1 DEF Begin, ToolRecords, callVars
  <2> QED
    BY <2>1, <2>2
<1>5. CASE Await \/ Cancel \/ LeaveTool
  <2>1. CASE Enlist
    <3>1. tool' \in ToolRecords /\ tool'.of = tool.of /\ tool.pc # "idle" /\ UNCHANGED <<call, task, calls, watch>>
      BY <2>1 DEF Enlist, ToolRecords, callVars
    <3> QED
      BY <3>1
  <2>5. CASE Look
    <3>1. tool' \in ToolRecords /\ (tool'.pc = "idle" \/ (tool'.of = tool.of /\ tool.pc # "idle"))
      BY <2>5 DEF Look, Idle, ToolRecords
    <3> QED
      BY <2>5, <3>1 DEF Look, callVars
  <2>6. CASE Wake \/ LeaveTool
    BY <2>6 DEF Wake, LeaveTool, Idle, ToolRecords, callVars
  <2>2. CASE CancelKills \/ CancelRemoves
    BY <2>2 DEF CancelKills, CancelRemoves, ToolRecords, callVars
  <2>3. CASE CancelSets
    BY <2>3 DEF CancelSets, ToolRecords, callVars
  <2>4. CASE CancelNotifies
    BY <2>4 DEF CancelNotifies, Idle, ToolRecords, callVars
  <2> QED
    BY <1>4, <1>5, <2>1, <2>2, <2>3, <2>4, <2>5, <2>6 DEF Await, Cancel
<1>6. CASE Shutdown \/ UNCHANGED vars
  BY <1>6 DEF Shutdown, vars, taskVars, callVars
<1> QED
  BY <1>1, <1>2, <1>3, <1>4, <1>5, <1>6 DEF Next
-----------------------------------------------------------------------------
(* Only a call that has no task yet makes a process run.                     *)
LEMMA OnlySpawnRuns ==
  ASSUME Held, Tasks, [Next]_vars, NEW t \in Starts, Runs(t)', ~Runs(t)
  PROVE  task[t] = "none" /\ UNCHANGED taskVars
<1> USE DEF Held, ProcessShape, Runs
<1>1. ASSUME NEW u \in Starts, Call(u) PROVE SpawnProcess(u) /\ u = t
  <2>1. (\E S : proc' = Killed(S)) \/ UNCHANGED proc \/ SpawnProcess(u)
    BY <1>1 DEF Call, Exec, Reserve, SpawnFails, Release, InsertProcess, Insert, RegisterCommand, Collect,
                Settle, NoticeCancel, EndCanceled, DropCall, Remove, Kill, storeVars
  <2>2. SpawnProcess(u)
    BY <2>1, KillEnds
  <2> QED
    BY <2>2 DEF SpawnProcess, Spawn
<1>2. ASSUME NEW u \in Starts, Guard(u) \/ Writes(u) \/ Watch(u) \/ CancelTurn(u) \/ ProcessEnds(u) PROVE FALSE
  <2>1. (\E S : proc' = Killed(S)) \/ UNCHANGED proc \/ ProcessEnds(u)
    BY <1>2 DEF Guard, GuardKills, GuardRemoves, Writes, Write, CollectMore, SettleWrite, LeaveWrite, Watch,
                SeeEnd, Complete, AlreadyCanceled, RemoveCompleted, NotifyCompleted, CancelTurn, Remove, Kill, storeVars
  <2> QED
    BY <2>1, KillEnds DEF ProcessEnds, Exit, Kill
<1>3. ASSUME Await \/ Cancel \/ LeaveTool \/ Shutdown \/ UNCHANGED vars PROVE FALSE
  <2>1. (\E S : proc' = Killed(S)) \/ UNCHANGED proc
    BY <1>3 DEF Await, Begin, Enlist, Look, Wake, Cancel, CancelKills, CancelSets, CancelRemoves,
                CancelNotifies, LeaveTool, Shutdown, TerminateAll, Remove, Kill, storeVars, vars
  <2> QED
    BY <2>1, KillEnds
<1>4. SpawnProcess(t)
  BY <1>1, <1>2, <1>3 DEF Next
<1> QED
  BY <1>4 DEF SpawnProcess, At, Tasks, Registered

LEMMA TruthfulStep == Held /\ Tasks /\ Truthful /\ [Next]_vars => Truthful'
<1> SUFFICES ASSUME Held, Tasks, Truthful, [Next]_vars PROVE Truthful'
  OBVIOUS
<1> USE DEF Truthful, Seen, EndedDoNotRun
<1>1. \A t \in Starts : Runs(t)' => Runs(t) \/ (task[t] = "none" /\ UNCHANGED taskVars)
  BY OnlySpawnRuns
<1>2. \A t \in Starts : task'[t] \in Ended
        => task[t] \in Ended \/ watch[t] = "complete" \/ (tool.pc = "set" /\ t = tool.of)
  <2>1. ASSUME NEW t \in Starts, Call(t) PROVE UNCHANGED task \/ task' = [task EXCEPT ![t] = "running"]
    BY <2>1 DEF Call, Exec, SpawnProcess, SpawnFails, InsertProcess, RegisterCommand, Collect, Settle,
                NoticeCancel, EndCanceled, DropCall, taskVars
  <2>2. ASSUME NEW t \in Starts, Watch(t)
        PROVE  \/ UNCHANGED task
               \/ watch[t] = "complete" /\ \E end : task' = [task EXCEPT ![t] = end]
    BY <2>2 DEF Watch, SeeEnd, Complete, AlreadyCanceled, RemoveCompleted, NotifyCompleted
  <2>3. ASSUME NEW t \in Starts, Guard(t) \/ Writes(t) \/ CancelTurn(t) \/ ProcessEnds(t)
        PROVE  UNCHANGED task
    BY <2>3 DEF Guard, GuardKills, GuardRemoves, Writes, Write, CollectMore, SettleWrite, LeaveWrite, CancelTurn,
                ProcessEnds, taskVars
  <2>4. CASE Await \/ Cancel \/ LeaveTool \/ Shutdown \/ UNCHANGED vars
    <3>1. UNCHANGED task \/ CancelSets
      BY <2>4 DEF Await, Begin, Enlist, Look, Wake, Cancel, CancelKills, CancelRemoves, CancelNotifies,
                  LeaveTool, Shutdown, vars, taskVars
    <3> QED
      BY <3>1 DEF CancelSets, Tasks, TaskShape
  <2> QED
    BY <2>1, <2>2, <2>3, <2>4 DEF Next, Tasks, TaskShape, Ended
<1>3. EndedDoNotRun'
  BY <1>1, <1>2 DEF Ended, Tasks, Registered, Runs, taskVars
<1>4. ASSUME NEW t \in Starts, watch'[t] = "complete" PROVE ~Runs(t)'
  <2>1. watch[t] = "complete" \/ ~Runs(t)
    <3>1. ASSUME NEW u \in Starts, Call(u)
          PROVE  UNCHANGED watch \/ watch' = [watch EXCEPT ![u] = "watch"]
      BY <3>1 DEF Call, Exec, SpawnProcess, SpawnFails, InsertProcess, RegisterCommand, Collect, Settle,
                  NoticeCancel, EndCanceled, DropCall, taskVars
    <3>2. ASSUME NEW u \in Starts, Watch(u)
          PROVE  SeeEnd(u) \/ \E pc \in {"remove", "notify", "done"} : watch' = [watch EXCEPT ![u] = pc]
      BY <3>2 DEF Watch, Complete, AlreadyCanceled, RemoveCompleted, NotifyCompleted
    <3>3. ASSUME NEW u \in Starts, Guard(u) \/ Writes(u) \/ CancelTurn(u) \/ ProcessEnds(u)
          PROVE  UNCHANGED watch
      BY <3>3 DEF Guard, GuardKills, GuardRemoves, Writes, Write, CollectMore, SettleWrite, LeaveWrite, CancelTurn,
                  ProcessEnds, taskVars
    <3>4. CASE Await \/ Cancel \/ LeaveTool \/ Shutdown \/ UNCHANGED vars
      BY <1>4, <3>4 DEF Await, Begin, Enlist, Look, Wake, Cancel, CancelKills, CancelSets, CancelRemoves,
                  CancelNotifies, LeaveTool, Shutdown, vars, taskVars
    <3> QED
      BY <1>4, <3>1, <3>2, <3>3, <3>4 DEF Next, SeeEnd, Tasks, TaskShape
  <2>2. task'[t] # "none"
    BY <1>4, TasksStep DEF Tasks, Registered
  <2> QED
    BY <1>1, <2>1, <2>2 DEF taskVars
<1>5. ASSUME tool'.pc = "set" PROVE ~Runs(tool.of)'
  <2>1. (tool.pc = "set" /\ UNCHANGED <<tool>>) \/ CancelKills
    <3>1. ASSUME NEW t \in Starts, Call(t) \/ Guard(t) \/ Writes(t) \/ Watch(t) \/ CancelTurn(t) \/ ProcessEnds(t)
          PROVE  UNCHANGED tool
      BY <3>1 DEF Call, Exec, SpawnProcess, SpawnFails, InsertProcess, RegisterCommand, Collect, Settle,
                  NoticeCancel, EndCanceled, DropCall, Guard, GuardKills, GuardRemoves, Writes, Write,
                  CollectMore, SettleWrite, LeaveWrite, Watch, SeeEnd, Complete, AlreadyCanceled, RemoveCompleted,
                  NotifyCompleted, CancelTurn, ProcessEnds, taskVars
    <3>2. CASE Await \/ Cancel \/ LeaveTool \/ Shutdown \/ UNCHANGED vars
      <4>1. ASSUME Enlist \/ Look \/ Wake PROVE FALSE
        <5>1. ~Enlist
          BY <1>5 DEF Enlist, Tasks, TaskShape, ToolRecords
        <5>2. ~Look
          BY <1>5 DEF Look, Idle, Tasks, TaskShape, ToolRecords
        <5>3. ~Wake
          BY <1>5 DEF Wake, Tasks, TaskShape, ToolRecords
        <5> QED
          BY <4>1, <5>1, <5>2, <5>3
      <4>2. ASSUME NEW t, NEW pc \in {"await", "cancel"}, Begin(t, pc) PROVE FALSE
        BY <1>5, <4>2 DEF Begin
      <4>3. ASSUME CancelSets \/ CancelRemoves \/ CancelNotifies \/ LeaveTool PROVE FALSE
        BY <1>5, <4>3 DEF CancelSets, CancelRemoves, CancelNotifies, LeaveTool, Idle, Tasks, TaskShape, ToolRecords
      <4> QED
        BY <1>5, <3>2, <4>1, <4>2, <4>3 DEF Await, Cancel, Shutdown, vars, taskVars
    <3> QED
      BY <1>5, <3>1, <3>2 DEF Next
  <2>2. CASE CancelKills
    BY <2>2, KillEnds DEF CancelKills, Kill, Runs, Held, ProcessShape, Tasks, TaskShape, ToolRecords
  <2>3. CASE tool.pc = "set" /\ UNCHANGED <<tool>>
    BY <1>1, <2>3 DEF Tasks, TaskShape, Registered, Runs
  <2> QED
    BY <2>1, <2>2, <2>3
<1> QED
  BY <1>3, <1>4, <1>5

-----------------------------------------------------------------------------
(* A wake-up that counts from when await_task enlisted itself.               *)
LEMMA ListedStep == Tasks /\ Listed /\ WakeIsComing /\ [Next]_vars => Listed' /\ WakeIsComing'
<1> SUFFICES ASSUME Tasks, Listed, WakeIsComing, [Next]_vars PROVE Listed' /\ WakeIsComing'
  OBVIOUS
<1> USE DEF Tasks, TaskShape, Listed, WakeIsComing, Ended
<1>1. ASSUME NEW t \in Starts, Call(t) PROVE Listed' /\ WakeIsComing'
  <2>1. UNCHANGED <<calls, tool>> /\ (UNCHANGED <<task, watch>> \/ RegisterCommand(t))
    BY <1>1 DEF Call, Exec, SpawnProcess, SpawnFails, InsertProcess, RegisterCommand, Collect, Settle,
                NoticeCancel, EndCanceled, DropCall, taskVars
  <2>2. CASE RegisterCommand(t)
    BY <2>1, <2>2 DEF RegisterCommand, Registered, At
  <2> QED
    BY <2>1, <2>2
<1>2. ASSUME NEW t \in Starts, Guard(t) \/ Writes(t) \/ CancelTurn(t) \/ ProcessEnds(t)
      PROVE  Listed' /\ WakeIsComing'
  BY <1>2 DEF Guard, GuardKills, GuardRemoves, Writes, Write, CollectMore, SettleWrite, LeaveWrite, CancelTurn,
              ProcessEnds, taskVars
<1>3. ASSUME NEW t \in Starts, Watch(t) PROVE Listed' /\ WakeIsComing'
  <2>1. CASE SeeEnd(t) \/ AlreadyCanceled(t) \/ RemoveCompleted(t)
    BY <2>1 DEF SeeEnd, AlreadyCanceled, RemoveCompleted
  <2>2. CASE Complete(t)
    BY <2>2 DEF Complete
  <2>3. CASE NotifyCompleted(t)
    BY <2>3 DEF NotifyCompleted, ToolRecords
  <2> QED
    BY <1>3, <2>1, <2>2, <2>3 DEF Watch
<1>4. ASSUME NEW t, NEW pc \in {"await", "cancel"}, t \in Background, Begin(t, pc) PROVE Listed' /\ WakeIsComing'
  BY <1>4, ExecAssumption DEF Begin
<1>5. CASE Await \/ Cancel \/ LeaveTool
  <2>1. CASE Enlist
    BY <2>1 DEF Enlist, ToolRecords
  <2>2. CASE Look
    BY <2>2 DEF Look, Idle, ToolRecords
  <2>3. CASE Wake \/ LeaveTool \/ CancelKills \/ CancelRemoves
    BY <2>3 DEF Wake, LeaveTool, CancelKills, CancelRemoves, Idle, ToolRecords
  <2>4. CASE CancelSets
    BY <2>4 DEF CancelSets, ToolRecords
  <2>5. CASE CancelNotifies
    BY <2>5 DEF CancelNotifies, Idle, ToolRecords
  <2> QED
    BY <1>4, <1>5, <2>1, <2>2, <2>3, <2>4, <2>5 DEF Await, Cancel
<1>6. CASE Shutdown \/ UNCHANGED vars
  BY <1>6 DEF Shutdown, vars, taskVars
<1> QED
  BY <1>1, <1>2, <1>3, <1>4, <1>5, <1>6 DEF Next

LEMMA InitInv == Init => Inv
<1> SUFFICES ASSUME Init PROVE Inv
  OBVIOUS
<1> USE DEF Init, StoreInit, Idle
<1>1. Held
  BY DEF Held, ProcessShape, RunningIsHeld, CallRecords, Runs
<1>2. Tasks
  BY DEF Tasks, TaskShape, Registered, ToolRecords
<1>3. Truthful /\ Listed /\ WakeIsComing
  BY DEF Truthful, Seen, EndedDoNotRun, Runs, Listed, WakeIsComing, Ended
<1> QED
  BY <1>1, <1>2, <1>3 DEF Inv

LEMMA ToolInv == Spec => []Inv
<1>1. Inv /\ [Next]_vars => Inv'
  BY HeldStep, TasksStep, TruthfulStep, ListedStep DEF Inv
<1> QED
  BY InitInv, <1>1, PTL DEF Spec

(* Whatever a tool started and still runs is in the table or about to be put *)
(* there, although calls are dropped at every await (router.rs) and entries  *)
(* are pruned for others (store.rs).                                         *)
THEOREM ToolProcessesHeld == Spec => []RunningIsHeld
<1>1. Inv => RunningIsHeld
  BY DEF Inv, Held
<1> QED
  BY ToolInv, <1>1, PTL

(* A task that completed, failed or was cancelled has no process that runs,  *)
(* however complete_command and cancel of background_tasks.rs interleave.    *)
THEOREM EndedTasksDoNotRun == Spec => []EndedDoNotRun
<1>1. Inv => EndedDoNotRun
  BY DEF Inv, Truthful
<1> QED
  BY ToolInv, <1>1, PTL

(* await_task takes its Notified before it reads the state; no end of the    *)
(* task slips in between.                                                    *)
THEOREM NoWakeUpLost == Spec => []WakeIsComing
<1>1. Inv => WakeIsComing
  BY DEF Inv
<1> QED
  BY ToolInv, <1>1, PTL

(* complete_command leaves a task alone that cancel got to first.            *)
THEOREM CancellationStays == Spec => CanceledStays
<1>1. Inv /\ [Next]_vars => [\A t \in Starts : task[t] = "canceled" => task'[t] = "canceled"]_vars
  <2> SUFFICES ASSUME Inv, Next, NEW t \in Starts, task[t] = "canceled" PROVE task'[t] = "canceled"
    OBVIOUS
  <2> USE DEF Inv, Tasks, TaskShape
  <2>1. ASSUME NEW u \in Starts, Call(u) PROVE task'[t] = "canceled"
    BY <2>1 DEF Call, Exec, SpawnProcess, SpawnFails, InsertProcess, RegisterCommand, Collect, Settle,
                NoticeCancel, EndCanceled, DropCall, taskVars, Registered, At
  <2>2. ASSUME NEW u \in Starts, Guard(u) \/ Writes(u) \/ Watch(u) \/ CancelTurn(u) \/ ProcessEnds(u)
        PROVE  task'[t] = "canceled"
    BY <2>2 DEF Guard, GuardKills, GuardRemoves, Writes, Write, CollectMore, SettleWrite, LeaveWrite, Watch,
                SeeEnd, Complete, AlreadyCanceled, RemoveCompleted, NotifyCompleted, CancelTurn, ProcessEnds, taskVars
  <2>3. CASE Await \/ Cancel \/ LeaveTool \/ Shutdown
    <3>1. UNCHANGED task \/ CancelSets
      BY <2>3 DEF Await, Begin, Enlist, Look, Wake, Cancel, CancelKills, CancelRemoves, CancelNotifies,
                  LeaveTool, Shutdown, taskVars
    <3> QED
      BY <3>1 DEF CancelSets
  <2> QED
    BY <2>1, <2>2, <2>3 DEF Next
<1> QED
  BY ToolInv, <1>1, PTL DEF Spec, CanceledStays

-----------------------------------------------------------------------------
(* The clients' table.  A name is somebody's from when it was registered to  *)
(* when the output task frees it, unless the connection or the server ends,  *)
(* and who takes processes out of the table ends them.                       *)
Progress ==
  \A s \in Requests :
    /\ start[s].pc # "new" => start[s].key \in Clients!Keys
    /\ start[s].pc = "done" <=> out[s].pc # "off"
    /\ out[s].pc \notin {"off", "stream"} => ~Clients!Runs(s)
    /\ start[s].pc = "done" /\ Clients!Runs(s) => s \in execs
Naming(s) == start[s].pc \in {"spawn", "insert"} \/ out[s].pc \in {"stream", "exited"}
Named ==
  \A s \in Requests :
    Naming(s) /\ gone[start[s].key[1]].pc # "remove" /\ down = "no" => sessions[start[s].key] = s
Parted ==
  \A c \in Conns :
    /\ gone[c].pc # "off" => c \notin conns
    /\ \A s \in gone[c].had :
         /\ start[s].pc = "done"
         /\ down = "done" => ~Clients!Runs(s)
         /\ down = "no" /\ gone[c].pc = "remove" /\ Clients!Runs(s) => s \in gone[c].todo
         /\ start[s].key[1] = c
ClientInv == Clients!TypeOK /\ Progress /\ Named /\ Parted

LEMMA ClientKillEnds ==
  ASSUME NEW S, Clients!StoreTypeOK
  PROVE  /\ Clients!Killed(S) \in [Requests -> {"none", "running", "killed", "exited", "lost"}]
         /\ \A t \in Requests : Clients!Killed(S)[t] = "running" => Clients!Runs(t) /\ t \notin S
         /\ \A t \in Requests : t \notin S => Clients!Killed(S)[t] = execProc[t]
BY DEF Clients!Killed, Clients!Runs, Clients!StoreTypeOK

LEMMA ClientInit == Clients!Init => ClientInv
BY DEF Clients!Init, Clients!StoreInit, ClientInv, Clients!TypeOK, Clients!StoreTypeOK, Progress, Named, Naming,
       Parted, Clients!Keys, Clients!Runs

(* Any step leaves an ended process ended, but for the start that runs it.   *)
LEMMA ClientRuns ==
  ASSUME ClientInv, Clients!Next, NEW t \in Requests, execProc'[t] = "running"
  PROVE  (Clients!Runs(t) /\ (t \in execs => t \in execs')) \/ start[t].pc = "spawn"
<1> USE DEF ClientInv, Clients!TypeOK
<1>1. ASSUME NEW s \in Requests, Clients!Handler(s) PROVE (Clients!Runs(t) /\ (t \in execs => t \in execs')) \/ start[t].pc = "spawn"
  <2>1. CASE \E k \in Clients!Keys, victims \in Clients!Victims : Clients!Exec(s, k, victims)
    BY <2>1, ClientKillEnds DEF Clients!Exec, Clients!Reserve
  <2>2. CASE Clients!Register(s) \/ Clients!RefuseDuplicate(s) \/ Clients!SpawnFails(s) \/ Clients!InsertAndAnswer(s)
    BY <2>2 DEF Clients!Register, Clients!RefuseDuplicate, Clients!SpawnFails, Clients!InsertAndAnswer,
                Clients!Insert, Clients!Release, Clients!storeVars, Clients!Runs
  <2>3. CASE Clients!SpawnProcess(s)
    BY <2>3 DEF Clients!SpawnProcess, Clients!Spawn, Clients!At, Clients!Runs, Clients!StoreTypeOK
  <2> QED
    BY <1>1, <2>1, <2>2, <2>3 DEF Clients!Handler
<1>2. ASSUME NEW s \in Requests, Clients!Output(s) \/ Clients!ProcessEnds(s) \/ Clients!IdleTooLong(s)
      PROVE  Clients!Runs(t) /\ (t \in execs => t \in execs')
  <2>1. CASE Clients!Announce(s) \/ Clients!FreeKey(s)
    BY <2>1 DEF Clients!Announce, Clients!FreeKey, Clients!storeVars, Clients!Runs
  <2>2. CASE Clients!RemoveEntry(s)
    BY <2>2, ClientKillEnds DEF Clients!RemoveEntry, Clients!Remove
  <2>3. CASE Clients!ProcessEnds(s)
    BY <2>3 DEF Clients!ProcessEnds, Clients!Exit, Clients!Runs, Clients!StoreTypeOK
  <2>4. CASE Clients!IdleTooLong(s)
    BY <2>4, ClientKillEnds DEF Clients!IdleTooLong, Clients!Kill
  <2> QED
    BY <1>2, <2>1, <2>2, <2>3, <2>4 DEF Clients!Output
<1>3. ASSUME NEW k \in Clients!Keys, Clients!Terminate(k) PROVE Clients!Runs(t) /\ (t \in execs => t \in execs')
  BY <1>3, ClientKillEnds DEF Clients!Terminate, Clients!Kill
<1>4. ASSUME NEW c \in Conns, Clients!Closing(c) PROVE Clients!Runs(t) /\ (t \in execs => t \in execs')
  <2>1. ASSUME NEW s \in Requests, Clients!RemoveTaken(c, s) PROVE Clients!Runs(t) /\ (t \in execs => t \in execs')
    BY <2>1, ClientKillEnds DEF Clients!RemoveTaken, Clients!Remove
  <2> QED
    BY <1>4, <2>1 DEF Clients!Closing, Clients!Disconnect, Clients!TakeKeys, Clients!storeVars, Clients!Runs
<1>5. CASE Clients!ClearKeys
  BY <1>5 DEF Clients!ClearKeys, Clients!storeVars, Clients!Runs
<1>6. CASE Clients!TerminateTable
  BY <1>6, ClientKillEnds DEF Clients!TerminateTable, Clients!TerminateAll
<1> QED
  BY <1>1, <1>2, <1>3, <1>4, <1>5, <1>6 DEF Clients!Next

LEMMA ClientTyped == ClientInv /\ Clients!Next => Clients!TypeOK'
<1> SUFFICES ASSUME ClientInv, Clients!Next PROVE Clients!TypeOK'
  OBVIOUS
<1> USE DEF ClientInv, Clients!TypeOK, Clients!At, Clients!Go, Clients!Key
<1>1. ASSUME NEW s \in Requests, Clients!Handler(s) PROVE Clients!TypeOK'
  <2>1. ASSUME NEW k \in Clients!Keys, NEW victims \in Clients!Victims, Clients!Exec(s, k, victims)
        PROVE  Clients!TypeOK'
    <3>1. Clients!StoreTypeOK'
      BY <2>1, ClientKillEnds DEF Clients!Exec, Clients!Reserve, Clients!StoreTypeOK
    <3> QED
      BY <2>1, <3>1 DEF Clients!Exec
  <2>2. CASE Clients!Register(s)
    <3>1. sessions' \in [Clients!Keys -> Requests \cup {None}]
      BY <2>2 DEF Clients!Register
    <3> QED
      BY <2>2, <3>1 DEF Clients!Register, Clients!StoreTypeOK, Clients!storeVars
  <2>3. CASE Clients!RefuseDuplicate(s)
    BY <2>3 DEF Clients!RefuseDuplicate, Clients!Release, Clients!StoreTypeOK
  <2>4. CASE Clients!SpawnProcess(s)
    BY <2>4 DEF Clients!SpawnProcess, Clients!Spawn, Clients!StoreTypeOK
  <2>5. CASE Clients!SpawnFails(s)
    <3>1. sessions' \in [Clients!Keys -> Requests \cup {None}]
      BY <2>5 DEF Clients!SpawnFails
    <3> QED
      BY <2>5, <3>1 DEF Clients!SpawnFails, Clients!Release, Clients!StoreTypeOK
  <2>6. CASE Clients!InsertAndAnswer(s)
    BY <2>6 DEF Clients!InsertAndAnswer, Clients!Insert, Clients!StoreTypeOK
  <2> QED
    BY <1>1, <2>1, <2>2, <2>3, <2>4, <2>5, <2>6 DEF Clients!Handler
<1>2. ASSUME NEW s \in Requests, Clients!Output(s) \/ Clients!ProcessEnds(s) \/ Clients!IdleTooLong(s)
      PROVE  Clients!TypeOK'
  <2>1. CASE Clients!Announce(s)
    BY <2>1 DEF Clients!Announce, Clients!storeVars, Clients!StoreTypeOK
  <2>2. CASE Clients!FreeKey(s)
    <3>1. start[s].key \in Clients!Keys
      BY <2>2 DEF Clients!FreeKey, Progress
    <3> QED
      BY <2>2, <3>1 DEF Clients!FreeKey, Clients!storeVars, Clients!StoreTypeOK
  <2>3. CASE Clients!RemoveEntry(s)
    <3>1. Clients!StoreTypeOK'
      BY <2>3, ClientKillEnds DEF Clients!RemoveEntry, Clients!Remove, Clients!StoreTypeOK
    <3> QED
      BY <2>3, <3>1 DEF Clients!RemoveEntry
  <2>4. CASE Clients!ProcessEnds(s)
    BY <2>4 DEF Clients!ProcessEnds, Clients!Exit, Clients!StoreTypeOK, Clients!taskVars
  <2>5. CASE Clients!IdleTooLong(s)
    BY <2>5, ClientKillEnds DEF Clients!IdleTooLong, Clients!Kill, Clients!StoreTypeOK, Clients!taskVars
  <2> QED
    BY <1>2, <2>1, <2>2, <2>3, <2>4, <2>5 DEF Clients!Output
<1>3. ASSUME NEW k \in Clients!Keys, Clients!Terminate(k) PROVE Clients!TypeOK'
  BY <1>3, ClientKillEnds DEF Clients!Terminate, Clients!Kill, Clients!StoreTypeOK, Clients!taskVars
<1>4. ASSUME NEW c \in Conns, Clients!Closing(c) PROVE Clients!TypeOK'
  <2>1. CASE Clients!Disconnect(c)
    BY <2>1 DEF Clients!Disconnect, Clients!storeVars, Clients!StoreTypeOK
  <2>2. CASE Clients!TakeKeys(c)
    <3>1. {sessions[k] : k \in Clients!Of(c)} \ {None} \subseteq Requests
      BY DEF Clients!Of, Clients!Keys
    <3>2. sessions' \in [Clients!Keys -> Requests \cup {None}]
      BY <2>2 DEF Clients!TakeKeys
    <3>3. gone' \in [Conns -> [pc : {"off", "take", "remove"}, todo : SUBSET Requests, had : SUBSET Requests]]
      <4> DEFINE todo == {sessions[k] : k \in Clients!Of(c)} \ {None}
      <4>1. todo \subseteq Requests /\ gone' = [gone EXCEPT ![c].pc = "remove", ![c].todo = todo]
        BY <2>2, <3>1 DEF Clients!TakeKeys
      <4> HIDE DEF todo
      <4> QED
        BY <4>1
    <3> QED
      BY <2>2, <3>2, <3>3 DEF Clients!TakeKeys, Clients!storeVars, Clients!StoreTypeOK
  <2>3. ASSUME NEW s \in Requests, Clients!RemoveTaken(c, s) PROVE Clients!TypeOK'
    <3>1. Clients!StoreTypeOK'
      BY <2>3, ClientKillEnds DEF Clients!RemoveTaken, Clients!Remove, Clients!StoreTypeOK
    <3> QED
      BY <2>3, <3>1 DEF Clients!RemoveTaken
  <2> QED
    BY <1>4, <2>1, <2>2, <2>3 DEF Clients!Closing
<1>5. CASE Clients!ClearKeys
  BY <1>5 DEF Clients!ClearKeys, Clients!storeVars, Clients!StoreTypeOK
<1>6. CASE Clients!TerminateTable
  BY <1>6, ClientKillEnds DEF Clients!TerminateTable, Clients!TerminateAll, Clients!StoreTypeOK
<1> QED
  BY <1>1, <1>2, <1>3, <1>4, <1>5, <1>6 DEF Clients!Next

(* What the steps do to the requests and their output tasks.                 *)
LEMMA ClientTasks ==
  ASSUME ClientInv, Clients!Next, NEW t \in Requests
  PROVE  /\ start[t].pc # "new" => start'[t].key = start[t].key
         /\ start'[t].pc # "new" => start'[t].key \in Clients!Keys
         /\ start'[t].pc = start[t].pc
            \/ (start[t].pc = "new" /\ start'[t].pc \in {"register", "refused"})
            \/ (start[t].pc = "register" /\ start'[t].pc = "refused")
            \/ Clients!Register(t) \/ Clients!SpawnProcess(t) \/ Clients!SpawnFails(t) \/ Clients!InsertAndAnswer(t)
         /\ out'[t].pc = out[t].pc
            \/ Clients!InsertAndAnswer(t) \/ Clients!Announce(t) \/ Clients!FreeKey(t) \/ Clients!RemoveEntry(t)
<1> USE DEF ClientInv, Clients!TypeOK, Clients!At, Clients!Go, Clients!Key
<1>0. start[t].pc # "new" => start[t].key \in Clients!Keys
  BY DEF Progress
<1>1. ASSUME NEW s \in Requests, Clients!Handler(s), s = t
      PROVE  /\ start[t].pc # "new" => start'[t].key = start[t].key
             /\ start'[t].pc # "new" => start'[t].key \in Clients!Keys
             /\ start'[t].pc = start[t].pc
                \/ (start[t].pc = "new" /\ start'[t].pc \in {"register", "refused"})
                \/ (start[t].pc = "register" /\ start'[t].pc = "refused")
                \/ Clients!Register(t) \/ Clients!SpawnProcess(t) \/ Clients!SpawnFails(t) \/ Clients!InsertAndAnswer(t)
             /\ out'[t].pc = out[t].pc \/ Clients!InsertAndAnswer(t)
  <2>1. ASSUME NEW k \in Clients!Keys, NEW victims, Clients!Exec(s, k, victims)
        PROVE  /\ start[t].pc = "new" /\ start'[t].pc \in {"register", "refused"}
               /\ start'[t].key = k /\ UNCHANGED out
    BY <1>1, <2>1 DEF Clients!Exec
  <2>2. CASE Clients!Register(s)
    BY <1>0, <1>1, <2>2 DEF Clients!Register
  <2>3. CASE Clients!RefuseDuplicate(s)
    BY <1>0, <1>1, <2>3 DEF Clients!RefuseDuplicate
  <2>4. CASE Clients!SpawnProcess(s) \/ Clients!SpawnFails(s) \/ Clients!InsertAndAnswer(s)
    BY <1>0, <1>1, <2>4 DEF Clients!SpawnProcess, Clients!SpawnFails, Clients!InsertAndAnswer
  <2> QED
    BY <1>1, <2>1, <2>2, <2>3, <2>4 DEF Clients!Handler
<1>2. ASSUME NEW s \in Requests, Clients!Handler(s), s # t PROVE start'[t] = start[t] /\ out'[t] = out[t]
  BY <1>2 DEF Clients!Handler, Clients!Exec, Clients!Register, Clients!RefuseDuplicate, Clients!SpawnProcess,
              Clients!SpawnFails, Clients!InsertAndAnswer
<1>3. ASSUME NEW s \in Requests, Clients!Output(s)
      PROVE  /\ UNCHANGED start
             /\ out'[t] = out[t] \/ Clients!Announce(t) \/ Clients!FreeKey(t) \/ Clients!RemoveEntry(t)
  BY <1>3 DEF Clients!Output, Clients!Announce, Clients!FreeKey, Clients!RemoveEntry
<1>4. ASSUME NEW s \in Requests, Clients!ProcessEnds(s) \/ Clients!IdleTooLong(s) PROVE UNCHANGED <<start, out>>
  BY <1>4 DEF Clients!ProcessEnds, Clients!IdleTooLong, Clients!taskVars
<1>5. ASSUME (\E k \in Clients!Keys : Clients!Terminate(k)) \/ (\E c \in Conns : Clients!Closing(c))
             \/ Clients!ClearKeys \/ Clients!TerminateTable
      PROVE  UNCHANGED <<start, out>>
  BY <1>5 DEF Clients!Terminate, Clients!taskVars, Clients!Closing, Clients!Disconnect, Clients!TakeKeys,
              Clients!RemoveTaken, Clients!ClearKeys, Clients!TerminateTable
<1> QED
  BY <1>0, <1>1, <1>2, <1>3, <1>4, <1>5 DEF Clients!Next

LEMMA ProgressStep == ClientInv /\ Clients!Next => Progress'
<1> SUFFICES ASSUME ClientInv, Clients!Next, NEW t \in Requests
             PROVE  /\ start'[t].pc # "new" => start'[t].key \in Clients!Keys
                    /\ start'[t].pc = "done" <=> out'[t].pc # "off"
                    /\ out'[t].pc \notin {"off", "stream"} => execProc'[t] # "running"
                    /\ start'[t].pc = "done" /\ execProc'[t] = "running" => t \in execs'
  BY DEF Progress, Clients!Runs, Clients!Keys
<1> USE DEF ClientInv, Clients!TypeOK, Clients!At, Clients!Go, Clients!Key
<1>0. Progress
  OBVIOUS
<1>1. CASE Clients!InsertAndAnswer(t)
  BY <1>1, ClientTasks DEF Clients!InsertAndAnswer, Clients!Insert, Progress
<1>2. CASE Clients!Register(t) \/ Clients!SpawnProcess(t) \/ Clients!SpawnFails(t)
  <2>1. out[t].pc = "off" /\ out'[t].pc = "off" /\ start'[t].pc # "done"
    BY <1>2, <1>0 DEF Clients!Register, Clients!SpawnProcess, Clients!SpawnFails, Progress
  <2> QED
    BY <2>1, ClientTasks
<1>3. CASE Clients!Announce(t) \/ Clients!FreeKey(t) \/ Clients!RemoveEntry(t)
  <2>1. start[t].pc = "done" /\ UNCHANGED start /\ out'[t].pc # "off"
    BY <1>3, <1>0 DEF Clients!Announce, Clients!FreeKey, Clients!RemoveEntry, Progress
  <2>2. execProc'[t] # "running"
    BY <1>3, <1>0, <2>1, ClientRuns DEF Clients!Announce, Clients!FreeKey, Clients!RemoveEntry, Progress, Clients!HasCode, Clients!Runs
  <2> QED
    BY <2>1, <2>2, ClientTasks
<1>4. CASE out'[t].pc = out[t].pc /\ (start'[t].pc = "done" <=> start[t].pc = "done")
  BY <1>0, <1>4, ClientTasks, ClientRuns DEF Progress
<1> QED
  BY <1>0, <1>1, <1>2, <1>3, <1>4, ClientTasks

(* What a step does to the end of the server and to disconnections.          *)
LEMMA ClientEnds ==
  ASSUME ClientInv, Clients!Next, NEW c \in Conns
  PROVE  /\ down' = "no" => down = "no"
         /\ down' = "done" => down = "done" \/ Clients!TerminateTable
         /\ c \in conns' => c \in conns
         /\ \/ gone'[c] = gone[c] /\ (c \in conns => c \in conns' \/ gone[c].pc # "off" \/ Clients!Disconnect(c))
            \/ Clients!Disconnect(c) \/ Clients!TakeKeys(c)
            \/ \E s \in Requests : Clients!RemoveTaken(c, s)
<1> USE DEF ClientInv, Clients!TypeOK
<1>1. ASSUME NEW s \in Requests, Clients!Handler(s) \/ Clients!Output(s) PROVE UNCHANGED <<conns, gone, down>>
  BY <1>1 DEF Clients!Handler, Clients!Exec, Clients!Register, Clients!RefuseDuplicate, Clients!SpawnProcess,
              Clients!SpawnFails, Clients!InsertAndAnswer, Clients!Output, Clients!Announce, Clients!FreeKey,
              Clients!RemoveEntry
<1>2. ASSUME NEW s \in Requests, Clients!ProcessEnds(s) \/ Clients!IdleTooLong(s) PROVE UNCHANGED <<conns, gone, down>>
  BY <1>2 DEF Clients!ProcessEnds, Clients!IdleTooLong, Clients!taskVars
<1>3. ASSUME NEW k \in Clients!Keys, Clients!Terminate(k) PROVE UNCHANGED <<conns, gone, down>>
  BY <1>3 DEF Clients!Terminate, Clients!taskVars
<1>4. ASSUME NEW d \in Conns, Clients!Closing(d), d # c PROVE gone'[c] = gone[c]
  BY <1>4 DEF Clients!Closing, Clients!Disconnect, Clients!TakeKeys, Clients!RemoveTaken
<1>5. ASSUME NEW d \in Conns, Clients!Closing(d)
      PROVE  UNCHANGED down /\ (c \in conns' => c \in conns) /\ (d # c /\ c \in conns => c \in conns')
  BY <1>5 DEF Clients!Closing, Clients!Disconnect, Clients!TakeKeys, Clients!RemoveTaken
<1>6. CASE Clients!ClearKeys \/ Clients!TerminateTable
  BY <1>6 DEF Clients!ClearKeys, Clients!TerminateTable
<1>7. Clients!Closing(c) => Clients!Disconnect(c) \/ Clients!TakeKeys(c) \/ \E s \in Requests : Clients!RemoveTaken(c, s)
  BY DEF Clients!Closing
<1> QED
  BY <1>1, <1>2, <1>3, <1>4, <1>5, <1>6, <1>7 DEF Clients!Next

LEMMA GoneStep ==
  ASSUME ClientInv, Clients!Next, NEW c \in Conns
  PROVE  /\ gone[c].pc = "remove" => gone'[c].pc = "remove"
         /\ Clients!Disconnect(c) => gone[c].pc = "off" /\ gone'[c].pc = "take"
         /\ gone'[c].pc # "off" => c \notin conns'
<1> USE DEF ClientInv, Clients!TypeOK, Parted
<1>1. CASE gone'[c] = gone[c]
  BY <1>1, ClientEnds DEF Clients!Disconnect
<1>2. CASE Clients!Disconnect(c)
  BY <1>2 DEF Clients!Disconnect
<1>3. CASE Clients!TakeKeys(c)
  BY <1>3 DEF Clients!TakeKeys, Clients!Disconnect
<1>4. ASSUME NEW s \in Requests, Clients!RemoveTaken(c, s)
      PROVE  /\ gone[c].pc = "remove" => gone'[c].pc = "remove"
             /\ Clients!Disconnect(c) => gone[c].pc = "off" /\ gone'[c].pc = "take"
             /\ gone'[c].pc # "off" => c \notin conns'
  BY <1>4 DEF Clients!RemoveTaken, Clients!Disconnect
<1> QED
  BY <1>1, <1>2, <1>3, <1>4, ClientEnds

LEMMA NamedStep == ClientInv /\ Clients!Next => Named'
<1> SUFFICES ASSUME ClientInv, Clients!Next, NEW t \in Requests, Naming(t)',
                    gone'[start'[t].key[1]].pc # "remove", down' = "no"
             PROVE  sessions'[start'[t].key] = t
  BY DEF Named
<1> USE DEF ClientInv, Clients!TypeOK, Clients!At, Clients!Go, Clients!Key
<1> DEFINE k == start'[t].key
<1>1. start'[t].pc # "new"
  BY ProgressStep DEF Progress, Naming
<1>2. k \in Clients!Keys /\ k[1] \in Conns /\ (start[t].pc # "new" => start[t].key = k)
  BY <1>1, ClientTasks DEF Clients!Keys
<1>3. down = "no" /\ gone[k[1]].pc # "remove"
  BY <1>2, ClientEnds, GoneStep
<1> HIDE DEF k
<1>4. CASE Clients!Register(t)
  BY <1>2, <1>4 DEF Clients!Register, k
<1>5. CASE ~Clients!Register(t)
  <2>1. Naming(t) /\ ~Clients!SpawnFails(t) /\ ~Clients!FreeKey(t)
    <3>1. ~Clients!SpawnFails(t)
      BY DEF Clients!SpawnFails, Naming, Progress
    <3>2. ~Clients!FreeKey(t)
      BY DEF Clients!FreeKey, Naming, Progress
    <3>3. start'[t].pc \in {"spawn", "insert"} => Naming(t)
      BY <1>5, <3>1, ClientTasks DEF Naming, Clients!SpawnProcess, Clients!InsertAndAnswer
    <3>4. out'[t].pc \in {"stream", "exited"} => Naming(t)
      BY <3>2, ClientTasks DEF Naming, Clients!InsertAndAnswer, Clients!Announce, Clients!RemoveEntry
    <3> QED
      BY <3>1, <3>2, <3>3, <3>4 DEF Naming
  <2>2. start[t].key = k /\ sessions[k] = t
    BY <1>2, <1>3, <2>1 DEF Named, Naming, Progress
  <2>3. ASSUME NEW u \in Requests, u # t, Naming(u) PROVE start[u].key # k
    BY <1>3, <2>2, <2>3 DEF Named
  <2>4. ASSUME NEW u \in Requests, Clients!Handler(u) PROVE sessions'[k] = t
    <3>1. CASE Clients!Register(u)
      BY <1>2, <2>2, <3>1, ClientsAssumption DEF Clients!Register
    <3>2. CASE Clients!SpawnFails(u)
      BY <1>2, <2>1, <2>2, <2>3, <3>2 DEF Clients!SpawnFails, Naming
    <3> QED
      BY <2>2, <2>4, <3>1, <3>2 DEF Clients!Handler, Clients!Exec, Clients!RefuseDuplicate, Clients!SpawnProcess,
                                   Clients!InsertAndAnswer
  <2>5. ASSUME NEW u \in Requests, Clients!Output(u) PROVE sessions'[k] = t
    <3>1. CASE Clients!FreeKey(u)
      <4>1. u # t /\ Naming(u)
        BY <2>1, <3>1 DEF Clients!FreeKey, Naming
      <4> QED
        BY <1>2, <2>2, <2>3, <3>1, <4>1 DEF Clients!FreeKey
    <3> QED
      BY <2>2, <2>5, <3>1 DEF Clients!Output, Clients!Announce, Clients!RemoveEntry
  <2>6. ASSUME NEW c \in Conns, Clients!Closing(c) PROVE sessions'[k] = t
    <3>1. CASE Clients!TakeKeys(c)
      <4>1. c # k[1]
        BY <3>1 DEF Clients!TakeKeys, k
      <4> QED
        BY <1>2, <2>2, <3>1, <4>1 DEF Clients!TakeKeys
    <3> QED
      BY <2>2, <2>6, <3>1 DEF Clients!Closing, Clients!Disconnect, Clients!RemoveTaken
  <2>7. ASSUME NEW u \in Requests, Clients!ProcessEnds(u) \/ Clients!IdleTooLong(u) PROVE sessions'[k] = t
    BY <2>2, <2>7 DEF Clients!ProcessEnds, Clients!IdleTooLong
  <2>8. ASSUME (\E l \in Clients!Keys : Clients!Terminate(l)) \/ Clients!TerminateTable PROVE sessions'[k] = t
    BY <2>2, <2>8 DEF Clients!Terminate, Clients!TerminateTable
  <2>9. ~Clients!ClearKeys
    BY DEF Clients!ClearKeys
  <2> QED
    BY <2>4, <2>5, <2>6, <2>7, <2>8, <2>9 DEF Clients!Next, k
<1> QED
  BY <1>4, <1>5 DEF k

LEMMA PartedStep == ClientInv /\ Clients!Next => Parted'
<1> SUFFICES ASSUME ClientInv, Clients!Next, NEW c \in Conns
             PROVE  /\ gone'[c].pc # "off" => c \notin conns'
                    /\ \A s \in gone'[c].had :
                         /\ start'[s].pc = "done"
                         /\ down' = "done" => execProc'[s] # "running"
                         /\ down' = "no" /\ gone'[c].pc = "remove" /\ execProc'[s] = "running" => s \in gone'[c].todo
                         /\ start'[s].key[1] = c
  BY DEF Parted, Clients!Runs
<1> USE DEF ClientInv, Clients!TypeOK, Clients!At, Clients!Go, Clients!Key
<1>1. gone'[c].pc # "off" => c \notin conns'
  BY GoneStep
<1> SUFFICES ASSUME NEW s \in gone'[c].had
             PROVE  /\ start'[s].pc = "done"
                    /\ down' = "done" => execProc'[s] # "running"
                    /\ down' = "no" /\ gone'[c].pc = "remove" /\ execProc'[s] = "running" => s \in gone'[c].todo
                    /\ start'[s].key[1] = c
  BY <1>1
<1>2. s \in Requests
  BY ClientTyped
<1>3. CASE Clients!Disconnect(c)
  <2>1. gone'[c].pc = "take" /\ start' = start /\ down' = down /\ start[s].pc = "done" /\ start[s].key[1] = c /\ down = "no"
    BY <1>2, <1>3 DEF Clients!Disconnect
  <2> QED
    BY <2>1
<1>4. CASE ~Clients!Disconnect(c)
  <2>1. gone'[c].had = gone[c].had
    <3>1. ASSUME NEW u \in Requests, Clients!RemoveTaken(c, u) PROVE gone'[c].had = gone[c].had
      BY <3>1 DEF Clients!RemoveTaken
    <3>2. Clients!TakeKeys(c) => gone'[c].had = gone[c].had
      <4> DEFINE todo == {sessions[k] : k \in Clients!Of(c)} \ {None}
      <4>1. Clients!TakeKeys(c) => gone' = [gone EXCEPT ![c].pc = "remove", ![c].todo = todo]
        BY DEF Clients!TakeKeys
      <4> HIDE DEF todo
      <4> QED
        BY <4>1
    <3> QED
      BY <1>4, <3>1, <3>2, ClientEnds
  <2>2. start[s].pc = "done" /\ start[s].key[1] = c /\ start[s].key \in Clients!Keys
    BY <1>2, <2>1 DEF Parted, Progress
  <2>3. start'[s].pc = "done" /\ start'[s].key[1] = c
    BY <1>2, <2>2, ClientTasks DEF Clients!Register, Clients!SpawnProcess, Clients!SpawnFails, Clients!InsertAndAnswer
  <2>4. execProc'[s] = "running" => Clients!Runs(s) /\ s \in execs /\ s \in execs'
    BY <1>2, <2>2, ClientRuns DEF Progress
  <2>5. down' = "done" => execProc'[s] # "running"
    BY <2>1, <2>4, ClientEnds DEF Parted, Clients!TerminateTable, Clients!TerminateAll
  <2>6. ASSUME down' = "no", gone'[c].pc = "remove", execProc'[s] = "running" PROVE s \in gone'[c].todo
    <3>0. down = "no"
      BY <2>6, ClientEnds
    <3>1. CASE gone'[c] = gone[c]
      BY <2>1, <2>4, <2>6, <3>0, <3>1 DEF Parted
    <3>2. CASE Clients!TakeKeys(c)
      <4>1. sessions[start[s].key] = s
        <5>1. gone[c].pc # "remove" /\ Naming(s)
          BY <1>2, <2>2, <2>4, <2>6, <3>2 DEF Clients!TakeKeys, Progress, Naming
        <5> QED
          BY <1>2, <2>2, <3>0, <5>1 DEF Named
      <4>2. start[s].key \in Clients!Of(c)
        BY <2>2 DEF Clients!Of, Clients!Keys
      <4> DEFINE todo == {sessions[k] : k \in Clients!Of(c)} \ {None}
      <4>3. s \in todo
        BY <1>2, <4>1, <4>2, ClientsAssumption
      <4>4. gone' = [gone EXCEPT ![c].pc = "remove", ![c].todo = todo]
        BY <3>2 DEF Clients!TakeKeys
      <4> HIDE DEF todo
      <4> QED
        BY <4>3, <4>4
    <3>3. ASSUME NEW u \in Requests, Clients!RemoveTaken(c, u) PROVE s \in gone'[c].todo
      <4>1. u # s /\ gone[c].pc = "remove" /\ gone'[c].todo = gone[c].todo \ {u}
        BY <2>4, <2>6, <3>3 DEF Clients!RemoveTaken, Clients!Remove
      <4> QED
        BY <2>1, <2>4, <2>6, <3>0, <4>1 DEF Parted
    <3> QED
      BY <1>4, <3>1, <3>2, <3>3, ClientEnds
  <2> QED
    BY <2>3, <2>5, <2>6
<1> QED
  BY <1>3, <1>4

LEMMA ClientStep == ClientInv /\ [MCNext]_allVars => ClientInv'
<1> SUFFICES ASSUME ClientInv, [MCNext]_allVars PROVE ClientInv'
  OBVIOUS
<1>1. CASE Clients!Next
  BY <1>1, ClientTyped, ProgressStep, NamedStep, PartedStep DEF ClientInv
<1>2. CASE UNCHANGED clientVars
  BY <1>2 DEF clientVars, ClientInv, Clients!TypeOK, Clients!StoreTypeOK, Progress, Named, Naming, Parted, Clients!Runs
<1> QED
  BY <1>1, <1>2 DEF MCNext, allVars

LEMMA ClientsInv == MCSpec => []ClientInv
<1>1. MCInit => ClientInv
  BY ClientInit DEF MCInit
<1> QED
  BY <1>1, ClientStep, PTL DEF MCSpec

(* A connected client that was answered for a process can still name it      *)
(* while it runs: register, the output task and the pruning of the table     *)
(* (command_exec.rs, store.rs) take no running process's name away.          *)
THEOREM ClientProcessesReachable == MCSpec => []RunningIsReachable
<1>1. ClientInv => RunningIsReachable
  <2> SUFFICES ASSUME ClientInv, NEW s \in Requests, start[s].pc = "done", Clients!Runs(s),
                      start[s].key[1] \in conns, down = "no"
               PROVE  sessions[start[s].key] = s /\ s \in execs
    BY DEF RunningIsReachable, Clients!RunningIsReachable, Clients!At, Clients!Key
  <2>1. start[s].key[1] \in Conns /\ gone[start[s].key[1]].pc = "off"
    BY DEF ClientInv, Clients!TypeOK, Parted
  <2>2. Naming(s)
    BY DEF ClientInv, Clients!TypeOK, Progress, Naming
  <2> QED
    BY <2>1, <2>2 DEF ClientInv, Progress, Named
<1> QED
  BY ClientsInv, <1>1, PTL

(* terminate_connection and terminate_all leave nothing running of what a    *)
(* connection that is gone was answered for.                                 *)
THEOREM DisconnectedLeaveNothing == MCSpec => []DisconnectKills
<1>1. ClientInv => DisconnectKills
  BY DEF ClientInv, Clients!TypeOK, Parted, DisconnectKills, Clients!DisconnectKills, Clients!Cleaned, Clients!Runs
<1> QED
  BY ClientsInv, <1>1, PTL
=============================================================================
