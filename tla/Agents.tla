------------------------------- MODULE Agents -------------------------------
(***************************************************************************)
(* A child agent: its startup, the messages its parent sends it, its turns *)
(* and what is done to end it, by a tool call of the parent, by a client   *)
(* or by the interrupt of the parent's turn.  Each is a task; the child's  *)
(* actor answers none of them while it executes a turn.  A turn bears the  *)
(* name of the message it was started for.                                 *)
(*                                                                         *)
(* The other children are left out.  What the actor is asked meanwhile is  *)
(* answered in any order; the start of a turn is in TurnLifecycle, and the *)
(* rows of queued inputs are in PendingInputs.  Turns are not counted: no  *)
(* max_turns is set.                                                       *)
(***************************************************************************)
EXTENDS AgentOutput

CONSTANTS
  Child,        \* the child session
  Task,         \* the message it is spawned with
  Messages,     \* messages sent to it
  Closers,      \* close_agent and cancel_task calls
  Interrupts,   \* interrupts of the parent's turn
  MayFail       \* may appends to the rollout fail?

Inputs == {Task} \cup Messages

ASSUME AgentAssumption ==
  /\ Child \in Children /\ Inputs \subseteq Turns /\ Task \notin Messages
  /\ IsFiniteSet(Messages) /\ IsFiniteSet(Closers) /\ IsFiniteSet(Interrupts)
  /\ Inputs \cap (Closers \cup Interrupts) = {} /\ Closers \cap Interrupts = {}
  /\ MayFail \in BOOLEAN

Symmetry == Permutations(Messages)

(* The task that follows a turn.                                             *)
After(t) == [after |-> t]
Posts == {After(t) : t \in Inputs}
ASSUME PostsAssumption == Posts \cap (Inputs \cup Closers \cup Interrupts) = {}
Drainers == Messages \cup Posts
Procs == {Task} \cup Drainers \cup Closers \cup Interrupts

VARIABLES
  status,      \* SubagentMetadata.status
  closing,     \* SubagentMetadata.close_requested
  mail,        \* SubagentMailbox.pending
  active,      \* the child's active_turn
  queue,       \* its pending_turn_queue
  exec,        \* what its actor executes
  entry,       \* its entry in the registry of active turns
  cancelled,   \* turns whose token was cancelled
  spawned,     \* turns whose task waits for the actor
  ran,         \* history: what its model was given, in order
  proc         \* the tasks

metaVars == <<status, closing>>
actorVars == <<active, queue, exec>>
runVars == <<entry, cancelled, spawned, ran>>
vars == <<metaVars, mail, actorVars, runVars, proc, outputVars>>

At(p, pc) == proc[p].pc = pc
Go(p, pc) == proc' = [proc EXCEPT ![p].pc = pc]
Asleep == [pc |-> "off", todo |-> <<>>, had |-> FALSE, claimed |-> None]
Done(p) == proc' = [proc EXCEPT ![p] = [Asleep EXCEPT !.pc = "done"]]
Free == exec.pc = "idle"
Idle == [pc |-> "idle", turn |-> None, end |-> "running"]

-----------------------------------------------------------------------------
(* start_runtime_turn, for the startup and for whoever drains the mailbox.   *)

Input(p) == IF p = Task THEN Task ELSE Head(proc[p].todo)

Reserve(p) ==
  /\ At(p, "reserve") /\ Free
  /\ Go(p, IF active = None THEN "begin" ELSE "enqueue")
  /\ UNCHANGED <<metaVars, mail, actorVars, runVars, outputVars>>

Enqueue(p) ==
  /\ At(p, "enqueue") /\ Free
  /\ queue' = Append(queue, Input(p))
  /\ Go(p, "ok")
  /\ UNCHANGED <<metaVars, mail, active, exec, runVars, outputVars>>

(* The turn is the child's active one before its append, which may fail.     *)
Begin(p) ==
  /\ At(p, "begin") /\ Free
  /\ active' = Input(p)
  /\ Go(p, "register") \/ (MayFail /\ Go(p, "rollback"))
  /\ UNCHANGED <<metaVars, mail, queue, exec, entry, cancelled, spawned, ran, outputVars>>

Rollback(p) ==
  /\ At(p, "rollback") /\ Free
  /\ active' = IF active = Input(p) THEN None ELSE active
  /\ Go(p, "error")
  /\ UNCHANGED <<metaVars, mail, queue, exec, runVars, outputVars>>

Register(p) ==
  /\ At(p, "register")
  /\ entry' = Input(p) /\ spawned' = spawned \cup {Input(p)}
  /\ Go(p, "ok")
  /\ UNCHANGED <<metaVars, mail, actorVars, cancelled, ran, outputVars>>

StartTurn(p) ==
  Reserve(p) \/ Enqueue(p) \/ Begin(p) \/ Rollback(p) \/ Register(p)

-----------------------------------------------------------------------------
(* spawn_agent and the task it spawns.                                       *)

SpawnAgent ==
  /\ status = "none"
  /\ status' = "spawning"
  /\ PushStatus(Child, Task, "spawning")
  /\ Go(Task, "new")
  /\ UNCHANGED <<closing, mail, actorVars, runVars>>

CheckStart ==
  /\ At(Task, "new")
  /\ IF closing THEN Done(Task) ELSE Go(Task, "reserve")
  /\ UNCHANGED <<metaVars, mail, actorVars, runVars, outputVars>>

StartedUnchecked ==       \* mutant: the second look is left out
  /\ At(Task, "ok")
  /\ Go(Task, "running")
  /\ UNCHANGED <<metaVars, mail, actorVars, runVars, outputVars>>

Started ==
  /\ At(Task, "ok")
  /\ Go(Task, IF closing THEN "mark" ELSE "running")
  /\ UNCHANGED <<metaVars, mail, actorVars, runVars, outputVars>>

SetRunning ==
  /\ At(Task, "running")
  /\ status' = "running"
  /\ Done(Task)
  /\ UNCHANGED <<closing, mail, actorVars, runVars, outputVars>>

FailStart ==
  /\ At(Task, "error")
  /\ IF closing THEN Done(Task) /\ UNCHANGED status
     ELSE Go(Task, "failed") /\ status' = "failed"
  /\ UNCHANGED <<closing, mail, actorVars, runVars, outputVars>>

TellFailed ==
  /\ At(Task, "failed")
  /\ PushStatus(Child, None, "failed")
  /\ Done(Task)
  /\ UNCHANGED <<metaVars, mail, actorVars, runVars>>

-----------------------------------------------------------------------------
(* send_message, and the mailbox drained by it or after a turn.              *)

SendMessage(m) ==
  /\ At(m, "off") /\ status # "none"
  /\ mail' = Append(mail, m)
  /\ Go(m, "look")
  /\ UNCHANGED <<metaVars, actorVars, runVars, outputVars>>

(* The registry, and if that knows of no turn, the actor.                    *)
LookForTurn(m) ==
  /\ At(m, "look")
  /\ Go(m, IF entry # None THEN "done" ELSE "ask")
  /\ UNCHANGED <<metaVars, mail, actorVars, runVars, outputVars>>

AskForTurn(m) ==
  /\ At(m, "ask") /\ Free
  /\ Go(m, IF active # None THEN "done" ELSE "drain")
  /\ UNCHANGED <<metaVars, mail, actorVars, runVars, outputVars>>

DrainCopies(d) ==         \* mutant: the mailbox keeps its messages
  /\ At(d, "drain")
  /\ IF mail = <<>> THEN Done(d) ELSE proc' = [proc EXCEPT ![d].pc = "reserve", ![d].todo = mail]
  /\ UNCHANGED <<metaVars, mail, actorVars, runVars, outputVars>>

Drain(d) ==
  /\ At(d, "drain")
  /\ mail' = <<>>
  /\ IF mail = <<>> THEN Done(d) ELSE proc' = [proc EXCEPT ![d].pc = "reserve", ![d].todo = mail]
  /\ UNCHANGED <<metaVars, actorVars, runVars, outputVars>>

Delivered(d) ==
  /\ At(d, "ok")
  /\ status' = "running"
  /\ IF Len(proc[d].todo) = 1 THEN Done(d)
     ELSE proc' = [proc EXCEPT ![d].todo = Tail(@), ![d].pc = "reserve"]
  /\ UNCHANGED <<closing, mail, actorVars, runVars, outputVars>>

(* The first error returns: the rest of what was drained is gone.            *)
Undelivered(d) ==
  /\ At(d, "error")
  /\ Done(d)
  /\ UNCHANGED <<metaVars, mail, actorVars, runVars, outputVars>>

(* The task that follows a turn tries the queue twice, then the mailbox.     *)
PopQueue(d, pc, next) ==
  /\ At(d, pc) /\ Free
  /\ IF queue = <<>> THEN Go(d, next) /\ UNCHANGED queue
     ELSE /\ queue' = Tail(queue)
          /\ proc' = [proc EXCEPT ![d].pc = "activate", ![d].todo = <<Head(queue)>>]
  /\ UNCHANGED <<metaVars, mail, active, exec, runVars, outputVars>>

Activate(d) ==
  /\ At(d, "activate") /\ Free
  /\ active' = Input(d)
  /\ spawned' = spawned \cup {Input(d)}
  /\ Done(d)
  /\ UNCHANGED <<metaVars, mail, queue, exec, entry, cancelled, ran, outputVars>>

(* child_can_accept_next_turn asks the actor unless the registry answers.    *)
Accept(d) ==
  /\ At(d, "accept") /\ (Free \/ entry # None)
  /\ Go(d, "drain")
  /\ UNCHANGED <<metaVars, mail, actorVars, runVars, outputVars>>

Deliver(d) ==
  \/ StartTurn(d) \/ Drain(d) \/ Delivered(d) \/ Undelivered(d)
  \/ PopQueue(d, "pop", "again") \/ PopQueue(d, "again", "accept") \/ Activate(d) \/ Accept(d)
Sender(m) == LookForTurn(m) \/ AskForTurn(m) \/ Deliver(m)

-----------------------------------------------------------------------------
(* close_child_agent, by a call or by the startup that finds itself closed;  *)
(* interrupt_child_runtime_work is the part that the interrupt of the        *)
(* parent's turn does too.                                                   *)

Mark(x) ==
  /\ At(x, "mark") \/ (x \in Closers /\ At(x, "off"))
  /\ status # "none"
  /\ closing' = TRUE
  /\ status' = IF status \in Ended THEN status ELSE "closed"
  /\ proc' = [proc EXCEPT ![x].pc = "had", ![x].had = status \in Ended]
  /\ UNCHANGED <<mail, actorVars, runVars, outputVars>>

HadTurn(x) ==
  /\ At(x, "had")
  /\ proc' = [proc EXCEPT ![x].pc = "cancel", ![x].had = @ \/ entry # None \/ ~Free]
  /\ UNCHANGED <<metaVars, mail, actorVars, runVars, outputVars>>

CancelChild(x) ==
  /\ At(x, "cancel") \/ (x \in Interrupts /\ At(x, "off") /\ status # "none")
  /\ cancelled' = IF entry = None THEN cancelled ELSE cancelled \cup {entry}
  /\ Go(x, "abort")
  /\ UNCHANGED <<metaVars, mail, actorVars, entry, spawned, ran, outputVars>>

(* Too late for a task that has sent its command, too early for one whose    *)
(* handle is not attached yet.                                               *)
AbortChild(x) ==
  /\ At(x, "abort")
  /\ spawned' \in {spawned, spawned \ {entry}}
  /\ Go(x, "claim")
  /\ UNCHANGED <<metaVars, mail, actorVars, entry, cancelled, ran, outputVars>>

ClaimTurn(x) ==
  /\ At(x, "claim") /\ Free
  /\ active' = None
  /\ proc' = [proc EXCEPT ![x].pc = "claimed", ![x].claimed = active]
  /\ UNCHANGED <<metaVars, mail, queue, exec, runVars, outputVars>>

SetInterrupted(i) ==
  /\ i \in Interrupts /\ At(i, "claimed")
  /\ status' = "interrupted"
  /\ Done(i)
  /\ UNCHANGED <<closing, mail, actorVars, runVars, outputVars>>

(* Nothing to claim: the end was told before, or the turn will tell it.      *)
SettleClose(x) ==
  /\ x \notin Interrupts /\ At(x, "claimed")
  /\ Go(x, IF proc[x].claimed # None THEN "set" ELSE IF proc[x].had THEN "closed" ELSE "tell")
  /\ UNCHANGED <<metaVars, mail, actorVars, runVars, outputVars>>

SetClosed(x) ==
  /\ At(x, "set")
  /\ status' = "closed"
  /\ Go(x, "tell")
  /\ UNCHANGED <<closing, mail, actorVars, runVars, outputVars>>

TellNothing(x) ==         \* mutant: leaves it to the actor
  /\ At(x, "tell")
  /\ Go(x, "closed")
  /\ UNCHANGED <<metaVars, mail, actorVars, runVars, outputVars>>

TellClosed(x) ==
  /\ At(x, "tell")
  /\ PushStatus(Child, proc[x].claimed, "closed")
  /\ Go(x, "closed")
  /\ UNCHANGED <<metaVars, mail, actorVars, runVars>>

(* cancel_task sets the status once more.                                    *)
FinishClose(x) ==
  /\ At(x, "closed")
  /\ UNCHANGED status \/ (x \in Closers /\ status' = "closed")
  /\ Done(x)
  /\ UNCHANGED <<closing, mail, actorVars, runVars, outputVars>>

Close(x) ==
  \/ Mark(x) \/ HadTurn(x) \/ CancelChild(x) \/ AbortChild(x) \/ ClaimTurn(x)
  \/ SettleClose(x) \/ SetClosed(x) \/ TellClosed(x) \/ FinishClose(x)
Interrupt(i) == CancelChild(i) \/ AbortChild(i) \/ ClaimTurn(i) \/ SetInterrupted(i)

-----------------------------------------------------------------------------
(* The actor executes a turn.  Its query takes what is queued.               *)

ExecuteTurn(t) ==
  /\ t \in spawned /\ Free
  /\ exec' = [pc |-> "querying", turn |-> t, end |-> "running"]
  /\ spawned' = spawned \ {t}
  /\ ran' = Append(ran, t) \o queue /\ queue' = <<>>
  /\ UNCHANGED <<metaVars, mail, active, entry, cancelled, proc, outputVars>>

QueryEnds(ends) ==
  /\ exec.pc = "querying"
  /\ \E e \in ends : exec' = [exec EXCEPT !.pc = "ending", !.end = e]
  /\ UNCHANGED <<metaVars, mail, active, queue, runVars, proc, outputVars>>
QueryReturns == QueryEnds({"completed", "failed"})
QueryCancelled == exec.turn \in cancelled /\ QueryEnds({"interrupted"})

EndTurn ==
  /\ exec.pc = "ending"
  /\ entry' = None /\ active' = None /\ cancelled' = cancelled \ {exec.turn}
  /\ exec' = [exec EXCEPT !.pc = "resolving"]
  /\ UNCHANGED <<metaVars, mail, queue, spawned, ran, proc, outputVars>>

(* handle_subagent_turn_completed_for_actor_state                            *)
ResolveStatus ==
  /\ exec.pc = "resolving"
  /\ exec' = [exec EXCEPT !.pc = "setting", !.end = IF closing THEN "closed" ELSE @]
  /\ UNCHANGED <<metaVars, mail, active, queue, runVars, proc, outputVars>>

SetEnded ==
  /\ exec.pc = "setting"
  /\ status' = exec.end
  /\ exec' = [exec EXCEPT !.pc = "telling"]
  /\ UNCHANGED <<closing, mail, active, queue, runVars, proc, outputVars>>

TellEnded ==
  /\ exec.pc = "telling"
  /\ PushStatus(Child, exec.turn, exec.end)
  /\ exec' = [exec EXCEPT !.pc = "closing"]
  /\ UNCHANGED <<metaVars, mail, active, queue, runVars, proc>>

CloseTurn ==
  /\ exec.pc = "closing"
  /\ exec' = Idle
  /\ Go(After(exec.turn), "pop")
  /\ UNCHANGED <<metaVars, mail, active, queue, runVars, outputVars>>

Actor ==
  \/ \E t \in Inputs : ExecuteTurn(t)
  \/ QueryCancelled \/ EndTurn \/ ResolveStatus \/ SetEnded \/ TellEnded \/ CloseTurn

-----------------------------------------------------------------------------
Init ==
  /\ status = "none" /\ closing = FALSE
  /\ mail = <<>>
  /\ active = None /\ queue = <<>> /\ exec = Idle
  /\ entry = None /\ cancelled = {} /\ spawned = {} /\ ran = <<>>
  /\ proc = [p \in Procs |-> Asleep]
  /\ OutputInit

Startup == CheckStart \/ StartTurn(Task) \/ Started \/ SetRunning \/ FailStart \/ TellFailed \/ Close(Task)

(* Whoever is not a child's model, a client or the parent's model.           *)
System ==
  \/ Startup \/ Actor
  \/ \E m \in Messages : Sender(m)
  \/ \E d \in Posts : Deliver(d)
  \/ \E x \in Closers : ~At(x, "off") /\ Close(x)
  \/ \E i \in Interrupts : ~At(i, "off") /\ Interrupt(i)

Next ==
  \/ SpawnAgent \/ System \/ QueryReturns
  \/ \E m \in Messages : SendMessage(m)
  \/ \E x \in Closers : Mark(x)
  \/ \E i \in Interrupts : CancelChild(i)
  \/ WaitNext /\ UNCHANGED <<metaVars, mail, actorVars, runVars, proc>>
  \/ (\A p \in Procs : proc[p].pc \in {"off", "done"}) /\ UNCHANGED vars

Spec == Init /\ [][Next]_vars

(* Tokio runs every task that can go on; a model may never answer.           *)
Fairness ==
  /\ WF_vars(Startup) /\ WF_vars(Actor)
  /\ \A m \in Messages : WF_vars(Sender(m))
  /\ \A d \in Posts : WF_vars(Deliver(d))
  /\ \A x \in Closers : WF_vars(~At(x, "off") /\ Close(x))
  /\ \A i \in Interrupts : WF_vars(~At(i, "off") /\ Interrupt(i))
FairSpec == Spec /\ Fairness

-----------------------------------------------------------------------------
TypeOK ==
  /\ OutputTypeOK
  /\ status \in Statuses \cup {"none"} /\ closing \in BOOLEAN
  /\ ToSet(mail) \subseteq Messages /\ ToSet(queue) \subseteq Inputs /\ ToSet(ran) \subseteq Inputs
  /\ {active, entry} \subseteq Inputs \cup {None}
  /\ exec.pc \in {"idle", "querying", "ending", "resolving", "setting", "telling", "closing"}
  /\ exec.turn \in Inputs \cup {None} /\ exec.end \in Ended \cup {"running"}
  /\ cancelled \subseteq Inputs /\ spawned \subseteq Inputs
  /\ \A p \in Procs : ToSet(proc[p].todo) \subseteq Inputs /\ proc[p].claimed \in Inputs \cup {None}

(* A message is in the mailbox, with one task that drained it, in the queue, *)
(* with the task of its turn or given to the model, never in two places: not *)
(* when several senders and the task after a turn drain the same mailbox.    *)
Undone(d) == IF At(d, "ok") THEN Tail(proc[d].todo) ELSE proc[d].todo
GivenOnce ==
  /\ IsInjective(mail \o queue \o ran)
  /\ \A d \in Drainers :
       /\ ToSet(Undone(d)) \cap (ToSet(mail \o queue \o ran) \cup spawned) = {}
       /\ \A e \in Drainers \ {d} : ToSet(Undone(d)) \cap ToSet(Undone(e)) = {}
  /\ spawned \cap ToSet(mail \o queue \o ran) = {}

(* Whatever fails and whenever it is closed, a spawned child comes to a      *)
(* status that wakes those who wait for it, unless its model does not answer,*)
(* the interrupt of the parent took its turn or a message came between.      *)
Heard == \E p \in DOMAIN buffer : buffer[p].from = Child /\ IsTerminal(p)
Meddled == \E p \in Messages \cup Interrupts : ~At(p, "off")
SpawnIsAnswered == (status # "none") ~> (Heard \/ Meddled \/ exec.pc = "querying")

(* A child that was closed has no turn for ever after, wherever its startup  *)
(* was and though its model never answers, unless a message is sent to it.   *)
Quiet == active = None /\ spawned = {} /\ Free
CloseStops == closing ~> [](Quiet \/ \E m \in Messages : ~At(m, "off"))

(* When all is done, a child that is listed as running runs.                 *)
RunningRuns ==
  (status = "running" /\ \A p \in Procs : proc[p].pc \in {"off", "done"}) => ~Quiet \/ queue # <<>>

(* The start of a child's life is the task it was spawned for.               *)
TaskComesFirst == ran # <<>> => Head(ran) = Task

(* A message that was answered as delivered is given to the child's model.   *)
DeliveredRuns == \A m \in Messages : At(m, "done") ~> m \in ToSet(ran)
=============================================================================
