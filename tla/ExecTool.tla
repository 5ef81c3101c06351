------------------------------ MODULE ExecTool ------------------------------
(***************************************************************************)
(* Processes that tools start: exec_command, which waits a while for its   *)
(* process and then leaves it to write_stdin, or in the background         *)
(* registers a task for it; await_task and cancel_task of that task.  A    *)
(* cancelled turn drops the futures of its calls wherever they wait; what  *)
(* was spawned goes on.                                                    *)
(*                                                                         *)
(* The calls are of several sessions, which share a table, and the tasks   *)
(* of one, which calls one tool at a time.  Output and standard input are  *)
(* left out.                                                               *)
(***************************************************************************)
EXTENDS ProcessStore

CONSTANTS
  Attached, Background,   \* exec_command calls, by execution_mode
  MaxOps,                 \* bound on the await_task and cancel_task calls
  None

ASSUME ExecAssumption ==
  /\ Starts = Attached \cup Background /\ Attached \cap Background = {}
  /\ None \notin Starts /\ MaxOps \in Nat

VARIABLES
  call,       \* exec_command: progress, has output an exit code?
  guard,      \* cancel_task, the task that outlives an attached call
  cancelled,  \* calls whose turn was cancelled
  poll,       \* write_stdin on a process: progress, has output an exit code?
  task,       \* CommandTaskState.info.state, by the call that registered it
  calls,      \* Notify: how often notify_waiters was called for the task
  watch,      \* the task that waits for a background process
  tool,       \* await_task or cancel_task: progress, its task, Notified
  ops         \* number of those so far

callVars == <<call, guard, cancelled, poll>>
taskVars == <<task, calls, watch, tool, ops>>
vars == <<storeVars, callVars, taskVars>>

At(t, pc) == call[t].pc = pc
Go(t, pc) == call' = [call EXCEPT ![t].pc = pc]
Ended == {"completed", "failed", "canceled"}

-----------------------------------------------------------------------------
Exec(t, victims) ==
  /\ At(t, "new")
  /\ Reserve(t, victims)
  /\ Go(t, IF Granted(victims) THEN "spawn" ELSE "refused")
  /\ UNCHANGED <<guard, cancelled, poll, taskVars>>

SpawnProcess(t) ==
  /\ At(t, "spawn")
  /\ Spawn(t)
  /\ Go(t, "insert")
  /\ UNCHANGED <<guard, cancelled, poll, taskVars>>

SpawnFails(t) ==
  /\ At(t, "spawn")
  /\ Release(t)
  /\ Go(t, "refused")
  /\ UNCHANGED <<guard, cancelled, poll, taskVars>>

InsertUnguarded(t) ==     \* mutant: the call itself sees to its cancellation
  /\ At(t, "insert")
  /\ Insert(t)
  /\ Go(t, IF t \in Attached THEN "collect" ELSE "register")
  /\ UNCHANGED <<guard, cancelled, poll, taskVars>>

InsertProcess(t) ==
  /\ At(t, "insert")
  /\ Insert(t)
  /\ Go(t, IF t \in Attached THEN "collect" ELSE "register")
  /\ guard' = IF t \in Attached THEN [guard EXCEPT ![t] = "armed"] ELSE guard
  /\ UNCHANGED <<cancelled, poll, taskVars>>

RegisterCommand(t) ==
  /\ At(t, "register")
  /\ task' = [task EXCEPT ![t] = "running"]
  /\ watch' = [watch EXCEPT ![t] = "watch"]
  /\ Go(t, "done")
  /\ UNCHANGED <<storeVars, guard, cancelled, poll, calls, tool, ops>>

(* The process is over or has run for the time it was given.  The guard is   *)
(* aborted, wherever it is.                                                  *)
Collect(t) ==
  /\ At(t, "collect")
  /\ call' = [call EXCEPT ![t] = [pc |-> "settle", code |-> HasCode(t)]]
  /\ guard' = [guard EXCEPT ![t] = "off"]
  /\ UNCHANGED <<storeVars, cancelled, poll, taskVars>>

Settle(t) ==
  /\ At(t, "settle")
  /\ IF call[t].code THEN Remove(t) ELSE UNCHANGED storeVars
  /\ Go(t, "done")
  /\ UNCHANGED <<guard, cancelled, poll, taskVars>>

(* Its own look at the cancellation, when that came since the select around  *)
(* it looked.                                                                *)
NoticeCancel(t) ==
  /\ At(t, "collect") /\ t \in cancelled
  /\ Kill({t})
  /\ Go(t, "end")
  /\ UNCHANGED <<guard, cancelled, poll, taskVars>>

EndCanceled(t) ==
  /\ At(t, "end")
  /\ Remove(t)
  /\ Go(t, "refused")
  /\ guard' = [guard EXCEPT ![t] = "off"]
  /\ UNCHANGED <<cancelled, poll, taskVars>>

(* turn/interrupt, and the biased select around a tool's handle.  With the   *)
(* last reference to it, a process that is not in the table is ended.        *)
Dropped(t) == IF call[t].pc \in {"collect", "end"} THEN "left" ELSE "dropped"

CancelTurn(t) ==
  /\ t \notin cancelled /\ ~At(t, "new")
  /\ cancelled' = cancelled \cup {t}
  /\ UNCHANGED <<storeVars, call, guard, poll, taskVars>>

DropCall(t) ==
  /\ t \in cancelled /\ call[t].pc \in {"spawn", "insert", "register", "collect", "end", "settle"}
  /\ IF At(t, "insert") THEN Kill({t}) ELSE UNCHANGED storeVars
  /\ Go(t, Dropped(t))
  /\ UNCHANGED <<guard, cancelled, poll, taskVars>>

GuardKills(t) ==
  /\ guard[t] = "armed" /\ t \in cancelled
  /\ Kill({t})
  /\ guard' = [guard EXCEPT ![t] = "remove"]
  /\ UNCHANGED <<call, cancelled, poll, taskVars>>

GuardRemoves(t) ==
  /\ guard[t] = "remove"
  /\ Remove(t)
  /\ guard' = [guard EXCEPT ![t] = "off"]
  /\ UNCHANGED <<call, cancelled, poll, taskVars>>

-----------------------------------------------------------------------------
(* write_stdin to a process the table has: its id is known from the answer.  *)
Write(t) ==
  /\ poll[t].pc = "off" /\ t \in entries /\ At(t, "done")
  /\ poll' = [poll EXCEPT ![t].pc = "collect"]
  /\ UNCHANGED <<storeVars, call, guard, cancelled, taskVars>>

CollectMore(t) ==
  /\ poll[t].pc = "collect"
  /\ poll' = [poll EXCEPT ![t] = [pc |-> "settle", code |-> HasCode(t)]]
  /\ UNCHANGED <<storeVars, call, guard, cancelled, taskVars>>

SettleWrite(t) ==
  /\ poll[t].pc = "settle"
  /\ IF poll[t].code THEN Remove(t) ELSE UNCHANGED storeVars
  /\ poll' = [poll EXCEPT ![t].pc = "off"]
  /\ UNCHANGED <<call, guard, cancelled, taskVars>>

(* The cancellation of its turn.                                             *)
LeaveWrite(t) ==
  /\ poll[t].pc # "off"
  /\ poll' = [poll EXCEPT ![t].pc = "off"]
  /\ UNCHANGED <<storeVars, call, guard, cancelled, taskVars>>

-----------------------------------------------------------------------------
(* The end of a background process: complete_command.                        *)
SeeEnd(t) ==
  /\ watch[t] = "watch" /\ ~Runs(t)
  /\ watch' = [watch EXCEPT ![t] = "complete"]
  /\ UNCHANGED <<storeVars, callVars, task, calls, tool, ops>>

Complete(t) ==
  /\ watch[t] = "complete" /\ task[t] # "canceled"
  /\ \E end \in IF HasCode(t) THEN {"completed", "failed"} ELSE {"failed"} :
       task' = [task EXCEPT ![t] = end]
  /\ watch' = [watch EXCEPT ![t] = "remove"]
  /\ UNCHANGED <<storeVars, callVars, calls, tool, ops>>

AlreadyCanceled(t) ==
  /\ watch[t] = "complete" /\ task[t] = "canceled"
  /\ watch' = [watch EXCEPT ![t] = "done"]
  /\ UNCHANGED <<storeVars, callVars, task, calls, tool, ops>>

RemoveCompleted(t) ==
  /\ watch[t] = "remove"
  /\ Remove(t)
  /\ watch' = [watch EXCEPT ![t] = "notify"]
  /\ UNCHANGED <<callVars, task, calls, tool, ops>>

NotifyCompleted(t) ==
  /\ watch[t] = "notify"
  /\ calls' = [calls EXCEPT ![t] = @ + 1]
  /\ watch' = [watch EXCEPT ![t] = "done"]
  /\ UNCHANGED <<storeVars, callVars, task, tool, ops>>

-----------------------------------------------------------------------------
(* await_task: notified() before the state is read, so that it is woken by   *)
(* every notify_waiters from then on.                                        *)
Idle == [pc |-> "idle", of |-> None, seen |-> 0]

Begin(t, pc) ==
  /\ tool.pc = "idle" /\ ops < MaxOps /\ task[t] # "none"
  /\ tool' = [pc |-> pc, of |-> t, seen |-> 0]
  /\ ops' = ops + 1
  /\ UNCHANGED <<storeVars, callVars, task, calls, watch>>

Enlist ==
  /\ tool.pc = "await"
  /\ tool' = [tool EXCEPT !.pc = "look", !.seen = calls[tool.of]]
  /\ UNCHANGED <<storeVars, callVars, task, calls, watch, ops>>

LookThenEnlist ==         \* mutant: notified() after the state was read
  \/ /\ tool.pc = "look"
     /\ tool' = IF task[tool.of] \in Ended THEN Idle ELSE [tool EXCEPT !.pc = "late"]
     /\ UNCHANGED <<storeVars, callVars, task, calls, watch, ops>>
  \/ /\ tool.pc = "late"
     /\ tool' = [tool EXCEPT !.pc = "sleep", !.seen = calls[tool.of]]
     /\ UNCHANGED <<storeVars, callVars, task, calls, watch, ops>>

Look ==
  /\ tool.pc = "look"
  /\ tool' = IF task[tool.of] \in Ended THEN Idle ELSE [tool EXCEPT !.pc = "sleep"]
  /\ UNCHANGED <<storeVars, callVars, task, calls, watch, ops>>

Wake ==
  /\ tool.pc = "sleep" /\ calls[tool.of] > tool.seen
  /\ tool' = [tool EXCEPT !.pc = "await"]
  /\ UNCHANGED <<storeVars, callVars, task, calls, watch, ops>>

(* The deadline, or the cancellation of the turn, which drops cancel_task as *)
(* well between two of its steps.                                            *)
LeaveTool ==
  /\ tool.pc # "idle"
  /\ tool' = Idle
  /\ UNCHANGED <<storeVars, callVars, task, calls, watch, ops>>

(* cancel_task, whatever the state.                                          *)
CancelKills ==
  /\ tool.pc = "cancel"
  /\ Kill({tool.of})
  /\ tool' = [tool EXCEPT !.pc = "set"]
  /\ UNCHANGED <<callVars, task, calls, watch, ops>>

CancelSets ==
  /\ tool.pc = "set"
  /\ task' = [task EXCEPT ![tool.of] = "canceled"]
  /\ tool' = [tool EXCEPT !.pc = "remove"]
  /\ UNCHANGED <<storeVars, callVars, calls, watch, ops>>

CancelRemoves ==
  /\ tool.pc = "remove"
  /\ Remove(tool.of)
  /\ tool' = [tool EXCEPT !.pc = "notify"]
  /\ UNCHANGED <<callVars, task, calls, watch, ops>>

CancelNotifies ==
  /\ tool.pc = "notify"
  /\ calls' = [calls EXCEPT ![tool.of] = @ + 1]
  /\ tool' = Idle
  /\ UNCHANGED <<storeVars, callVars, task, watch, ops>>

-----------------------------------------------------------------------------
(* Of its own accord; a terminal's, after half an hour without input.        *)
ProcessEnds(t) ==
  /\ \/ \E how \in {"exited", "lost"} : Exit(t, how)
     \/ Runs(t) /\ Kill({t})
  /\ UNCHANGED <<callVars, taskVars>>

(* terminate_unified_exec_processes, when the server stops.                  *)
Shutdown ==
  /\ TerminateAll
  /\ UNCHANGED <<callVars, taskVars>>

Init ==
  /\ StoreInit
  /\ call = [t \in Starts |-> [pc |-> "new", code |-> FALSE]]
  /\ guard = [t \in Starts |-> "off"] /\ cancelled = {}
  /\ poll = [t \in Starts |-> [pc |-> "off", code |-> FALSE]]
  /\ task = [t \in Starts |-> "none"] /\ calls = [t \in Starts |-> 0]
  /\ watch = [t \in Starts |-> "off"]
  /\ tool = Idle /\ ops = 0

Call(t) ==
  \/ \E victims \in Victims : Exec(t, victims)
  \/ SpawnProcess(t) \/ SpawnFails(t) \/ InsertProcess(t) \/ RegisterCommand(t)
  \/ Collect(t) \/ Settle(t) \/ NoticeCancel(t) \/ EndCanceled(t) \/ DropCall(t)
Guard(t) == GuardKills(t) \/ GuardRemoves(t)
Writes(t) == Write(t) \/ CollectMore(t) \/ SettleWrite(t) \/ LeaveWrite(t)
Watch(t) == SeeEnd(t) \/ Complete(t) \/ AlreadyCanceled(t) \/ RemoveCompleted(t) \/ NotifyCompleted(t)
Await == (\E t \in Background : Begin(t, "await")) \/ Enlist \/ Look \/ Wake
Cancel == (\E t \in Background : Begin(t, "cancel")) \/ CancelKills \/ CancelSets \/ CancelRemoves \/ CancelNotifies

Next ==
  \/ \E t \in Starts : Call(t) \/ CancelTurn(t) \/ Guard(t) \/ Writes(t) \/ Watch(t) \/ ProcessEnds(t)
  \/ Await \/ Cancel \/ LeaveTool \/ Shutdown

Spec == Init /\ [][Next]_vars

(* Tokio runs the tasks that were spawned, and what was killed ends.         *)
Fairness ==
  \A t \in Starts :
    /\ WF_vars(Guard(t)) /\ WF_vars(Watch(t))
    /\ WF_vars(proc[t] = "killed" /\ ProcessEnds(t))
FairSpec == Spec /\ Fairness

-----------------------------------------------------------------------------
(* Every variable holds what its Rust counterpart can hold.                  *)
TypeOK ==
  /\ StoreTypeOK
  /\ call \in [Starts -> [pc : {"new", "spawn", "insert", "register", "collect", "end", "settle", "done",
                                "refused", "dropped", "left"}, code : BOOLEAN]]
  /\ guard \in [Starts -> {"off", "armed", "remove"}] /\ cancelled \subseteq Starts
  /\ poll \in [Starts -> [pc : {"off", "collect", "settle"}, code : BOOLEAN]]
  /\ task \in [Starts -> Ended \cup {"none", "running"}] /\ calls \in [Starts -> Nat]
  /\ watch \in [Starts -> {"off", "watch", "complete", "remove", "notify", "done"}]
  /\ tool \in [pc : {"idle", "await", "look", "sleep", "cancel", "set", "remove", "notify"},
               of : Starts \cup {None}, seen : Nat]
  /\ tool.pc # "idle" => tool.of \in Starts
  /\ ops \in 0..MaxOps

(* No process runs unseen: whatever runs is in the table, where write_stdin, *)
(* the next prune and the server's end find it, or is about to be put there. *)
(* Whoever takes it out, and a call that is dropped before it put it there,  *)
(* ends it.                                                                  *)
RunningIsHeld == \A t \in Starts : Runs(t) => t \in entries \/ At(t, "insert")

(* What a task says of its process is so: an ended task's process does not   *)
(* run, although a cancellation may come in between all steps of the         *)
(* completion and be dropped between two of its own.                         *)
EndedDoNotRun == \A t \in Starts : task[t] \in Ended => ~Runs(t)

(* An await_task that sleeps on a task that ended has been called, or        *)
(* whoever ended it has yet to call: no call gets lost between its look at   *)
(* the state and its sleep.                                                  *)
WakeIsComing ==
  tool.pc = "sleep" /\ task[tool.of] \in Ended
    => calls[tool.of] > tool.seen \/ watch[tool.of] \in {"remove", "notify"}

(* A task that was cancelled stays so, whenever its process ends.            *)
CanceledStays == [][\A t \in Starts : task[t] = "canceled" => task'[t] = "canceled"]_vars

(* An attached call that is dropped while it waits for its process takes the *)
(* process with it, although nothing of the call is left.                    *)
DroppedCallsEnd == \A t \in Starts : At(t, "left") ~> ~Runs(t)

(* A process that is left running is one the model was told of.              *)
NoStrays == \A t \in Starts : At(t, "dropped") /\ Runs(t) => guard[t] = "armed"

(* A process that is over leaves the table when it is polled.                *)
EndedLeave ==
  \A t \in Starts : poll[t].pc = "settle" /\ ~Runs(t) => call[t].code \/ poll[t].code

(* A task that ended keeps how it ended.                                     *)
EndedStays == [][\A t \in Starts : task[t] \in Ended => task'[t] = task[t]]_vars
=============================================================================
