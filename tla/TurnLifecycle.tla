--------------------------- MODULE TurnLifecycle ---------------------------
(***************************************************************************)
(* The life of a turn in one session of the server runtime: the request    *)
(* handlers turn/start, turn/shell_command and turn/interrupt, the session *)
(* actor that serves a FIFO mailbox and runs model turns inline (and so    *)
(* serves nothing else meanwhile), the ActiveTurnRegistry that handlers    *)
(* read without asking the actor, the tasks that run a turn, and the tasks *)
(* that chain the next queued input once a turn is over.                   *)
(*                                                                         *)
(* A handler is a process: one action per stretch of code between two      *)
(* points where another task can run.  A request is handled once, and the  *)
(* turn a start or shell request creates bears the request's name; an      *)
(* input that is queued instead becomes a follow-up turn with that name.   *)
(***************************************************************************)
EXTENDS Naturals, Sequences, FiniteSets

CONSTANTS
  StartReqs,        \* turn/start requests
  ShellReqs,        \* turn/shell_command requests
  InterruptReqs,    \* turn/interrupt requests
  NoTurn,           \* Option::None
  RejectReqs,       \* those of StartReqs sent under TurnStartQueuePolicy::RejectActive
  Patience,         \* what a client awaits before its next turn request: "none", "turn" for the
                    \* end of the turn before, "call" for the replies to its interrupts too
  PersistMayFail    \* can appending a turn line to the rollout file fail?

TurnReqs == StartReqs \cup ShellReqs
Chainers == TurnReqs \cup InterruptReqs     \* who may spawn a follow-up chain

ASSUME RequestAssumption ==
  /\ StartReqs \cap ShellReqs = {}
  /\ TurnReqs \cap InterruptReqs = {}
  /\ NoTurn \notin TurnReqs \cup InterruptReqs
  /\ RejectReqs \subseteq StartReqs
  /\ Patience \in {"none", "turn", "call"}
  /\ PersistMayFail \in BOOLEAN

VARIABLES
  mailbox,     \* SessionCommands not yet received by the actor, in order
  active,      \* SessionActorState.active_turn
  latest,      \* SessionActorState.latest_turn
  queue,       \* SessionActorState.pending_turn_queue
  seqOf,       \* TurnMetadata.sequence of every turn created so far
  exec,        \* what execute_turn_in_actor is doing
  registry,    \* this session's ActiveTurnExecution entry
  cancelled,   \* turns whose cancellation token was cancelled
  req,         \* turn/start and turn/shell_command handlers
  task,        \* the task running each turn
  chain,       \* chain_queued_followup_turn / spawn_next_turn_from_queue tasks
  intr,        \* turn/interrupt handlers
  announced,   \* turns whose TurnStarted was broadcast
  recorded,    \* terminal_turn_statuses
  ended,       \* per turn, the terminal events broadcast, in order
  merged       \* queued inputs the query of another turn took into its prompt

actorVars   == <<mailbox, active, latest, queue, exec>>
runtimeVars == <<registry, cancelled, recorded>>
taskVars    == <<req, task, chain, intr>>
historyVars == <<seqOf, announced, ended, merged>>
vars == <<actorVars, runtimeVars, taskVars, historyVars>>

Turns == TurnReqs \cup {NoTurn}
Terminal == {"Completed", "Failed", "Interrupted"}

-----------------------------------------------------------------------------
(* The mailbox: by is the task that waits for the reply, turn the argument. *)

Ops == {"snapshot", "begin", "persist", "rollback", "execute", "enqueue", "pop",
        "prepare", "activate", "interrupt", "context", "shellDone"}
Command ==
  [op : {"enqueue"}, by : StartReqs, turn : StartReqs]
  \cup [op : Ops \ {"enqueue"}, by : Chainers, turn : Turns]

Cmd(op, by, t) == [op |-> op, by |-> by, turn |-> t]
Send(c) == mailbox' = Append(mailbox, c)

(* The actor takes the next command only when it is not inside a turn. *)
Receive(op) ==
  /\ exec.pc = "idle"
  /\ mailbox # <<>>
  /\ Head(mailbox).op = op
  /\ mailbox' = Tail(mailbox)
Cur == Head(mailbox)

-----------------------------------------------------------------------------
(* The registry.  runs is the turn whose stream and spawn snapshot are      *)
(* registered, base the latest turn that spawn snapshot remembers.          *)

EmptyEntry == [turn |-> NoTurn, token |-> NoTurn, abort |-> NoTurn,
               runs |-> NoTurn, base |-> NoTurn]
EntryExists == registry # EmptyEntry

-----------------------------------------------------------------------------
(* turn/start and turn/shell_command.                                       *)

Settled(r) ==
  \/ req[r].pc = "new"
  \/ req[r].pc = "done" /\ (req[r].reply \in {"Started", "Queued"} => ended[r] # <<>>)

ClientMaySend(r) ==
  /\ Patience # "none" => \A q \in TurnReqs \ {r} : Settled(q)
  /\ Patience = "call" => \A i \in InterruptReqs : intr[i].pc \in {"new", "done"}

ReadReservation(r) ==
  /\ req[r].pc = "new"
  /\ ClientMaySend(r)
  /\ IF registry.turn # NoTurn /\ registry.runs # NoTurn
       THEN req' = [req EXCEPT ![r].pc = "cached"] /\ UNCHANGED mailbox
       ELSE req' = [req EXCEPT ![r].pc = "asked"] /\ Send(Cmd("snapshot", r, NoTurn))
  /\ UNCHANGED <<active, latest, queue, exec, runtimeVars, task, chain, intr, historyVars>>

(* The entry is looked up again: a turn may have been finalized in between. *)
ReadCachedReservation(r) ==
  /\ req[r].pc = "cached"
  /\ req' = [req EXCEPT ![r] =
       IF registry.runs = NoTurn \/ registry.turn = NoTurn
         THEN [@ EXCEPT !.pc = "done", !.reply = "SessionNotFound"]
         ELSE [@ EXCEPT !.pc = "admit", !.active = registry.turn, !.latest = registry.base]]
  /\ UNCHANGED <<actorVars, runtimeVars, task, chain, intr, historyVars>>

(* Mutants stand before the definition they could be mistaken for. *)
NextSeqSame(l) == IF l = NoTurn THEN 1 ELSE seqOf[l]

NextSeq(l) == IF l = NoTurn THEN 1 ELSE seqOf[l] + 1

QueueInput(r) ==
  /\ req[r].pc = "admit"
  /\ r \in StartReqs \ RejectReqs /\ req[r].active # NoTurn
  /\ Send(Cmd("enqueue", r, r))
  /\ req' = [req EXCEPT ![r].pc = "done", ![r].reply = "Queued"]
  /\ UNCHANGED <<active, latest, queue, exec, runtimeVars, task, chain, intr, historyVars>>

RefuseActive(r) ==
  /\ req[r].pc = "admit"
  /\ r \in ShellReqs \cup RejectReqs /\ req[r].active # NoTurn
  /\ req' = [req EXCEPT ![r].pc = "done", ![r].reply = "TurnAlreadyRunning"]
  /\ UNCHANGED <<actorVars, runtimeVars, task, chain, intr, historyVars>>

Begin(r) ==
  /\ req[r].pc = "admit"
  /\ req[r].active = NoTurn
  /\ Send(Cmd("begin", r, r))
  /\ seqOf' = [seqOf EXCEPT ![r] = NextSeq(req[r].latest)]
  /\ req' = [req EXCEPT ![r].pc = "begun"]
  /\ UNCHANGED <<active, latest, queue, exec, runtimeVars, task, chain, intr,
                 announced, ended, merged>>

SendPersist(r) ==
  /\ req[r].pc = "begun"
  /\ Send(Cmd("persist", r, r))
  /\ req' = [req EXCEPT ![r].pc = "persisting"]
  /\ UNCHANGED <<active, latest, queue, exec, runtimeVars, task, chain, intr, historyVars>>

AnnounceShell(r) ==
  /\ req[r].pc = "announce"
  /\ announced' = announced \cup {r}
  /\ req' = [req EXCEPT ![r].pc = "token"]
  /\ UNCHANGED <<actorVars, runtimeVars, task, chain, intr, seqOf, ended, merged>>

RegisterToken(r) ==
  /\ req[r].pc = "token"
  /\ registry' = [registry EXCEPT !.token = r]
  /\ req' = [req EXCEPT ![r].pc = "register"]
  /\ UNCHANGED <<actorVars, cancelled, recorded, task, chain, intr, historyVars>>

RegisterAndSpawn(r) ==
  /\ req[r].pc = "register"
  /\ registry' = [registry EXCEPT !.turn = r]
  /\ task' = [task EXCEPT ![r].pc = "spawned"]
  /\ req' = [req EXCEPT ![r].pc = "attach"]
  /\ UNCHANGED <<actorVars, cancelled, recorded, chain, intr, historyVars>>

AttachAndReply(r) ==
  /\ req[r].pc = "attach"
  /\ registry' = IF EntryExists THEN [registry EXCEPT !.abort = r] ELSE registry
  /\ announced' = announced \cup {r}
  /\ req' = [req EXCEPT ![r].pc = "done", ![r].reply = "Started"]
  /\ UNCHANGED <<actorVars, cancelled, recorded, task, chain, intr, seqOf, ended, merged>>

-----------------------------------------------------------------------------
(* The session actor: one action per SessionCommand.                        *)

ActorSnapshot ==
  /\ Receive("snapshot")
  /\ req' = [req EXCEPT ![Cur.by].pc = "admit", ![Cur.by].active = active,
                        ![Cur.by].latest = latest]
  /\ UNCHANGED <<active, latest, queue, exec, runtimeVars, task, chain, intr, historyVars>>

(* BeginActiveTurn and ActivateQueuedTurn do not look at active_turn. *)
ActorSetActive ==
  /\ Receive("begin") \/ Receive("activate")
  /\ active' = Cur.turn
  /\ UNCHANGED <<latest, queue, exec, runtimeVars, taskVars, historyVars>>

(* PersistTurnLine, for the handler that starts a turn or the one that       *)
(* claimed an interrupted turn.                                              *)
ActorPersist ==
  /\ Receive("persist")
  /\ \E ok \in IF PersistMayFail THEN BOOLEAN ELSE {TRUE} :
       IF Cur.by \in TurnReqs
         THEN /\ req' = [req EXCEPT ![Cur.by].pc =
                   CASE ~ok -> "undo"
                     [] ok /\ Cur.by \in ShellReqs -> "announce"
                     [] OTHER -> "token"]
              /\ UNCHANGED intr
         ELSE /\ intr' = [intr EXCEPT ![Cur.by].pc = IF ok THEN "finish" ELSE "done",
                                      ![Cur.by].reply = IF ok THEN @ ELSE "InternalError"]
              /\ UNCHANGED req
  /\ UNCHANGED <<active, latest, queue, exec, runtimeVars, task, chain, historyVars>>

SendRollback(r) ==
  /\ req[r].pc = "undo"
  /\ Send(Cmd("rollback", r, r))
  /\ req' = [req EXCEPT ![r].pc = "undoing"]
  /\ UNCHANGED <<active, latest, queue, exec, runtimeVars, task, chain, intr, historyVars>>

ActorRollbackForgets ==   \* mutant: the reservation stays
  /\ Receive("rollback")
  /\ req' = [req EXCEPT ![Cur.by].pc = "done", ![Cur.by].reply = "InternalError"]
  /\ UNCHANGED <<active, latest, queue, exec, runtimeVars, task, chain, intr, historyVars>>

ActorRollback ==       \* ClearActiveTurnIfMatches
  /\ Receive("rollback")
  /\ active' = IF active = Cur.turn THEN NoTurn ELSE active
  /\ req' = [req EXCEPT ![Cur.by].pc = "done", ![Cur.by].reply = "InternalError"]
  /\ UNCHANGED <<latest, queue, exec, runtimeVars, task, chain, intr, historyVars>>

ActorEnqueue ==
  /\ Receive("enqueue")
  /\ queue' = Append(queue, Cur.turn)
  /\ UNCHANGED <<active, latest, exec, runtimeVars, taskVars, historyVars>>

(* InterruptActiveTurn takes whatever turn is active. *)
ActorInterrupt ==
  /\ Receive("interrupt")
  /\ active' = NoTurn
  /\ latest' = IF active = NoTurn THEN latest ELSE active
  /\ intr' = [intr EXCEPT ![Cur.by] =
       CASE active = NoTurn -> [@ EXCEPT !.pc = "waiting"]
         [] active # NoTurn /\ active = @.turn -> [@ EXCEPT !.pc = "claimed"]
         [] OTHER -> [@ EXCEPT !.pc = "done", !.reply = "TurnNotFound"]]
  /\ UNCHANGED <<queue, exec, runtimeVars, req, task, chain, historyVars>>

ActorContext ==        \* GetShellExecContext
  /\ Receive("context")
  /\ task' = [task EXCEPT ![Cur.turn].pc = IF @ = "preparing" THEN "prepared" ELSE @]
  /\ UNCHANGED <<active, latest, queue, exec, runtimeVars, req, chain, intr, historyVars>>

(* CompleteShellTurn, too, does not look at active_turn. *)
ActorCompleteShell ==
  /\ Receive("shellDone")
  /\ latest' = Cur.turn
  /\ active' = NoTurn
  /\ task' = [task EXCEPT ![Cur.turn].pc = IF @ = "completing" THEN "completed" ELSE @]
  /\ UNCHANGED <<queue, exec, runtimeVars, req, chain, intr, historyVars>>

-----------------------------------------------------------------------------
(* ExecuteTurn: the turn runs inline on the actor.                          *)

ActorExecute ==
  /\ Receive("execute")
  /\ exec' = [pc |-> "starting", turn |-> Cur.turn, token |-> NoTurn, status |-> "Running"]
  /\ registry' = [registry EXCEPT !.runs = Cur.turn, !.base = latest]
  /\ UNCHANGED <<active, latest, queue, cancelled, recorded, taskVars, historyVars>>

(* run_turn_model_query uses the registered token or, failing that, a fresh  *)
(* one (NoTurn) nobody can cancel.  The query loop shares the actor's queue  *)
(* and makes whatever it finds there messages of the turn that now runs.     *)
StartQuery ==
  /\ exec.pc = "starting"
  /\ exec' = [exec EXCEPT !.pc = "querying", !.token = registry.token]
  /\ merged' = merged \cup {queue[n] : n \in DOMAIN queue}
  /\ queue' = <<>>
  /\ UNCHANGED <<mailbox, active, latest, runtimeVars, taskVars, seqOf, announced, ended>>

(* The model answers, a tool or a permission request is answered: the        *)
(* environment's move, which may never come.                                 *)
QueryReturns ==
  /\ exec.pc = "querying"
  /\ exec.token \notin cancelled
  /\ \E s \in {"Completed", "Failed"} :
       exec' = [exec EXCEPT !.pc = "finalizing", !.status = s]
  /\ UNCHANGED <<mailbox, active, latest, queue, runtimeVars, taskVars, historyVars>>

(* The cancelled branch of the select: after at most two seconds the query   *)
(* is dropped, and only an error other than Aborted still counts as such.    *)
QueryCancelled ==
  /\ exec.pc = "querying"
  /\ exec.token \in cancelled
  /\ \E s \in {"Interrupted", "Failed"} :
       exec' = [exec EXCEPT !.pc = "finalizing", !.status = s]
  /\ UNCHANGED <<mailbox, active, latest, queue, runtimeVars, taskVars, historyVars>>

ClearInterruptHandlesKeepsTurn ==   \* mutant: the turn metadata stays registered
  /\ exec.pc = "finalizing"
  /\ registry' = [registry EXCEPT !.token = NoTurn, !.abort = NoTurn]
  /\ exec' = [exec EXCEPT !.pc = "ending"]
  /\ UNCHANGED <<mailbox, active, latest, queue, cancelled, recorded, taskVars, historyVars>>

(* clear_interrupt_handles names the session, not the turn. *)
ClearInterruptHandles ==
  /\ exec.pc = "finalizing"
  /\ registry' = [registry EXCEPT !.turn = NoTurn, !.token = NoTurn, !.abort = NoTurn]
  /\ exec' = [exec EXCEPT !.pc = "ending"]
  /\ UNCHANGED <<mailbox, active, latest, queue, cancelled, recorded, taskVars, historyVars>>

PersistAndEmitTerminal ==
  /\ exec.pc = "ending"
  /\ latest' = exec.turn
  /\ active' = NoTurn
  /\ ended' = [ended EXCEPT ![exec.turn] = Append(@, exec.status)]
  /\ exec' = [exec EXCEPT !.pc = "closing"]
  /\ UNCHANGED <<mailbox, queue, runtimeVars, taskVars, seqOf, announced, merged>>

CloseTurnCompleted ==     \* mutant: whatever the result, records Completed
  /\ exec.pc = "closing"
  /\ recorded' = [recorded EXCEPT ![exec.turn] = "Completed"]
  /\ registry' = [registry EXCEPT !.runs = NoTurn, !.base = NoTurn]
  /\ exec' = [exec EXCEPT !.pc = "idle", !.turn = NoTurn, !.token = NoTurn]
  /\ chain' = [chain EXCEPT ![exec.turn] = [@ EXCEPT !.pc = "pop", !.tries = 2]]
  /\ UNCHANGED <<mailbox, active, latest, queue, cancelled, req, task, intr, historyVars>>

(* The terminal status is recorded after the events; the stream is           *)
(* unregistered, the caller answered, and the post-turn task spawned.        *)
CloseTurn ==
  /\ exec.pc = "closing"
  /\ recorded' = [recorded EXCEPT ![exec.turn] = exec.status]
  /\ registry' = [registry EXCEPT !.runs = NoTurn, !.base = NoTurn]
  /\ exec' = [exec EXCEPT !.pc = "idle", !.turn = NoTurn, !.token = NoTurn]
  /\ chain' = [chain EXCEPT ![exec.turn] = [@ EXCEPT !.pc = "pop", !.tries = 2]]
  /\ UNCHANGED <<mailbox, active, latest, queue, cancelled, req, task, intr, historyVars>>

-----------------------------------------------------------------------------
(* The task of a turn.  Aborting it stops it at its next await; a command it *)
(* already sent stays in the mailbox.                                        *)

SendExecute(t) ==
  /\ t \in StartReqs /\ task[t].pc = "spawned"
  /\ Send(Cmd("execute", t, t))
  /\ task' = [task EXCEPT ![t].pc = "sent"]
  /\ UNCHANGED <<active, latest, queue, exec, runtimeVars, req, chain, intr, historyVars>>

(* execute_shell_command_turn runs outside the actor. *)
ShellAskContext(t) ==
  /\ t \in ShellReqs /\ task[t].pc = "spawned"
  /\ Send(Cmd("context", t, t))
  /\ task' = [task EXCEPT ![t].pc = "preparing"]
  /\ UNCHANGED <<active, latest, queue, exec, runtimeVars, req, chain, intr, historyVars>>

ShellRun(t) ==
  /\ task[t].pc = "prepared"
  /\ task' = [task EXCEPT ![t].pc = "running", ![t].token = registry.token]
  /\ UNCHANGED <<actorVars, runtimeVars, req, chain, intr, historyVars>>

ShellReturns(t) ==
  /\ task[t].pc = "running"
  /\ \E s \in {"Completed", "Failed"} :
       task' = [task EXCEPT ![t].pc = "returned", ![t].status = s]
  /\ UNCHANGED <<actorVars, runtimeVars, req, chain, intr, historyVars>>

ShellClearHandles(t) ==
  /\ task[t].pc = "returned"
  /\ registry' = EmptyEntry
  /\ task' = [task EXCEPT ![t].pc = "cleared"]
  /\ UNCHANGED <<actorVars, cancelled, recorded, req, chain, intr, historyVars>>

ShellSendComplete(t) ==
  /\ task[t].pc = "cleared"
  /\ Send(Cmd("shellDone", t, t))
  /\ task' = [task EXCEPT ![t].pc = "completing"]
  /\ UNCHANGED <<active, latest, queue, exec, runtimeVars, req, chain, intr, historyVars>>

(* No terminal status is recorded and no queued input is started here. *)
ShellEmitTerminal(t) ==
  /\ task[t].pc = "completed"
  /\ ended' = [ended EXCEPT ![t] = Append(@, task[t].status)]
  /\ task' = [task EXCEPT ![t].pc = "done"]
  /\ UNCHANGED <<actorVars, runtimeVars, req, chain, intr, seqOf, announced, merged>>

-----------------------------------------------------------------------------
(* Follow-up turns: the task spawned when a turn is over tries              *)
(* chain_queued_followup_turn and then spawn_next_turn_from_queue, an       *)
(* interrupt handler that claimed a turn only the latter.  Neither asks for *)
(* an idle session, and neither registers the turn it starts.               *)

SendPop(c) ==
  /\ chain[c].pc = "pop"
  /\ Send(Cmd("pop", c, NoTurn))
  /\ chain' = [chain EXCEPT ![c].pc = "popping"]
  /\ UNCHANGED <<active, latest, queue, exec, runtimeVars, req, task, intr, historyVars>>

ActorPopPeeks ==          \* mutant: front() for pop_front()
  /\ Receive("pop")
  /\ IF queue = <<>>
       THEN chain' = [chain EXCEPT ![Cur.by].pc = "done"]
       ELSE chain' = [chain EXCEPT ![Cur.by].pc = "popped", ![Cur.by].turn = Head(queue)]
  /\ UNCHANGED <<active, latest, queue, exec, runtimeVars, req, task, intr, historyVars>>

ActorPop ==
  /\ Receive("pop")
  /\ IF queue = <<>>
       THEN /\ chain' = [chain EXCEPT ![Cur.by].pc = IF @ = "popping" /\ chain[Cur.by].tries > 1
                                                       THEN "pop" ELSE "done",
                                      ![Cur.by].tries = 1]
            /\ UNCHANGED queue
       ELSE /\ chain' = [chain EXCEPT ![Cur.by].pc = "popped", ![Cur.by].turn = Head(queue)]
            /\ queue' = Tail(queue)
  /\ UNCHANGED <<active, latest, exec, runtimeVars, req, task, intr, historyVars>>

SendPrepare(c) ==
  /\ chain[c].pc = "popped"
  /\ Send(Cmd("prepare", c, NoTurn))
  /\ chain' = [chain EXCEPT ![c].pc = "preparing"]
  /\ UNCHANGED <<active, latest, queue, exec, runtimeVars, req, task, intr, historyVars>>

ActorPrepare ==
  /\ Receive("prepare")
  /\ seqOf' = [seqOf EXCEPT ![chain[Cur.by].turn] = NextSeq(latest)]
  /\ chain' = [chain EXCEPT ![Cur.by].pc = "activate"]
  /\ UNCHANGED <<active, latest, queue, exec, runtimeVars, req, task, intr, announced, ended, merged>>

SendActivate(c) ==
  /\ chain[c].pc = "activate"
  /\ Send(Cmd("activate", c, chain[c].turn))
  /\ announced' = announced \cup {chain[c].turn}
  /\ chain' = [chain EXCEPT ![c].pc = "execute"]
  /\ UNCHANGED <<active, latest, queue, exec, runtimeVars, req, task, intr, seqOf, ended, merged>>

SendFollowup(c) ==
  /\ chain[c].pc = "execute"
  /\ Send(Cmd("execute", c, chain[c].turn))
  /\ chain' = [chain EXCEPT ![c].pc = "done"]
  /\ UNCHANGED <<active, latest, queue, exec, runtimeVars, req, task, intr, historyVars>>

-----------------------------------------------------------------------------
(* turn/interrupt.  A client only knows the turns announced to it.          *)

Answer(i, a) == intr' = [intr EXCEPT ![i].pc = "done", ![i].reply = a]

CheckTarget(i, t) ==
  /\ intr[i].pc = "new"
  /\ t \in announced
  /\ intr' = [intr EXCEPT ![i] =
       CASE registry.turn = t   -> [@ EXCEPT !.pc = "subscribed", !.turn = t]
         [] registry.turn # t /\ recorded[t] # "None"
                                -> [@ EXCEPT !.pc = "done", !.turn = t, !.reply = recorded[t]]
         [] OTHER               -> [@ EXCEPT !.pc = "done", !.turn = t, !.reply = "TurnNotFound"]]
  /\ UNCHANGED <<actorVars, runtimeVars, req, task, chain, historyVars>>

(* Subscribed to the terminal status, the handler looks once more. *)
RecheckRecent(i) ==
  /\ intr[i].pc = "subscribed"
  /\ IF recorded[intr[i].turn] # "None"
       THEN Answer(i, recorded[intr[i].turn])
       ELSE intr' = [intr EXCEPT ![i].pc = "cancel"]
  /\ UNCHANGED <<actorVars, runtimeVars, req, task, chain, historyVars>>

CancelTokenSkipped(i) ==  \* mutant: only the task is aborted
  /\ intr[i].pc = "cancel"
  /\ intr' = [intr EXCEPT ![i].pc = "abort"]
  /\ UNCHANGED <<actorVars, runtimeVars, req, task, chain, historyVars>>

(* signal_active_turn_interrupt cancels the token registered for the session *)
(* and, in a second access to the registry, aborts the task registered.      *)
CancelToken(i) ==
  /\ intr[i].pc = "cancel"
  /\ cancelled' = IF registry.token = NoTurn THEN cancelled ELSE cancelled \cup {registry.token}
  /\ intr' = [intr EXCEPT ![i].pc = "abort"]
  /\ UNCHANGED <<actorVars, registry, recorded, req, task, chain, historyVars>>

Aborted(t, pc) ==
  IF pc = "spawned" \/ (t \in ShellReqs /\ pc \notin {"none", "done"}) THEN "aborted" ELSE pc

AbortTask(i) ==
  /\ intr[i].pc = "abort"
  /\ LET t == registry.abort IN
       IF t = NoTurn THEN UNCHANGED <<task, registry>>
       ELSE /\ task' = [task EXCEPT ![t].pc = Aborted(t, @)]
            /\ registry' = [registry EXCEPT !.abort = NoTurn]
  /\ intr' = [intr EXCEPT ![i].pc = "claim"]
  /\ UNCHANGED <<actorVars, cancelled, recorded, req, chain, historyVars>>

SendInterrupt(i) ==
  /\ intr[i].pc = "claim"
  /\ Send(Cmd("interrupt", i, NoTurn))
  /\ intr' = [intr EXCEPT ![i].pc = "claiming"]
  /\ UNCHANGED <<active, latest, queue, exec, runtimeVars, req, task, chain, historyVars>>

(* finalize_claimed_interrupted_turn *)
ClearClaimed(i) ==
  /\ intr[i].pc = "claimed"
  /\ registry' = EmptyEntry
  /\ Send(Cmd("persist", i, intr[i].turn))
  /\ intr' = [intr EXCEPT ![i].pc = "persisting"]
  /\ UNCHANGED <<active, latest, queue, exec, cancelled, recorded, req, task, chain, historyVars>>

FinishClaimedSilently(i) ==   \* mutant: no terminal event
  /\ intr[i].pc = "finish"
  /\ recorded' = [recorded EXCEPT ![intr[i].turn] = "Interrupted"]
  /\ chain' = [chain EXCEPT ![i].pc = "pop", ![i].tries = 1]
  /\ Answer(i, "Interrupted")
  /\ UNCHANGED <<actorVars, registry, cancelled, req, task, historyVars>>

FinishClaimed(i) ==
  /\ intr[i].pc = "finish"
  /\ ended' = [ended EXCEPT ![intr[i].turn] = Append(@, "Interrupted")]
  /\ recorded' = [recorded EXCEPT ![intr[i].turn] = "Interrupted"]
  /\ chain' = [chain EXCEPT ![i].pc = "pop", ![i].tries = 1]
  /\ Answer(i, "Interrupted")
  /\ UNCHANGED <<actorVars, registry, cancelled, req, task, seqOf, announced, merged>>

HearTerminal(i) ==
  /\ intr[i].pc = "waiting"
  /\ recorded[intr[i].turn] # "None"
  /\ Answer(i, recorded[intr[i].turn])
  /\ UNCHANGED <<actorVars, runtimeVars, req, task, chain, historyVars>>

(* TURN_INTERRUPT_TERMINAL_TIMEOUT, five seconds. *)
WaitTimesOut(i) ==
  /\ intr[i].pc = "waiting"
  /\ recorded[intr[i].turn] = "None"
  /\ Answer(i, "TurnNotFound")
  /\ UNCHANGED <<actorVars, runtimeVars, req, task, chain, historyVars>>

-----------------------------------------------------------------------------
Init ==
  /\ mailbox = <<>> /\ active = NoTurn /\ latest = NoTurn /\ queue = <<>>
  /\ exec = [pc |-> "idle", turn |-> NoTurn, token |-> NoTurn, status |-> "Running"]
  /\ registry = EmptyEntry
  /\ cancelled = {} /\ announced = {} /\ merged = {}
  /\ recorded = [t \in TurnReqs |-> "None"]
  /\ ended = [t \in TurnReqs |-> <<>>]
  /\ seqOf = [t \in TurnReqs |-> 0]
  /\ req = [r \in TurnReqs |-> [pc |-> "new", active |-> NoTurn, latest |-> NoTurn,
                                reply |-> "None"]]
  /\ task = [t \in TurnReqs |-> [pc |-> "none", token |-> NoTurn, status |-> "Running"]]
  /\ chain = [c \in Chainers |-> [pc |-> "off", tries |-> 0, turn |-> NoTurn]]
  /\ intr = [i \in InterruptReqs |-> [pc |-> "new", turn |-> NoTurn, reply |-> "None"]]

Handler(r) ==
  \/ ReadReservation(r) \/ ReadCachedReservation(r)
  \/ QueueInput(r) \/ RefuseActive(r) \/ Begin(r) \/ SendPersist(r) \/ SendRollback(r)
  \/ AnnounceShell(r) \/ RegisterToken(r) \/ RegisterAndSpawn(r) \/ AttachAndReply(r)

TurnTask(t) ==
  \/ SendExecute(t)
  \/ ShellAskContext(t) \/ ShellRun(t) \/ ShellReturns(t) \/ ShellClearHandles(t)
  \/ ShellSendComplete(t) \/ ShellEmitTerminal(t)

Followup(c) ==
  \/ SendPop(c) \/ SendPrepare(c) \/ SendActivate(c) \/ SendFollowup(c)

Interrupter(i) ==
  \/ \E t \in TurnReqs : CheckTarget(i, t)
  \/ RecheckRecent(i) \/ CancelToken(i) \/ AbortTask(i) \/ SendInterrupt(i)
  \/ ClearClaimed(i) \/ FinishClaimed(i) \/ HearTerminal(i) \/ WaitTimesOut(i)

(* What the actor does by itself, the model's own answer left out. *)
Actor ==
  \/ ActorSnapshot \/ ActorSetActive \/ ActorPersist \/ ActorRollback \/ ActorEnqueue
  \/ ActorInterrupt \/ ActorContext \/ ActorCompleteShell \/ ActorPop \/ ActorPrepare
  \/ ActorExecute \/ StartQuery \/ QueryCancelled \/ ClearInterruptHandles
  \/ PersistAndEmitTerminal \/ CloseTurn

(* Nothing is left to do: every task is over and every request answered.     *)
Quiescent ==
  /\ mailbox = <<>> /\ exec.pc = "idle"
  /\ \A r \in TurnReqs : req[r].pc = "done" \/ (req[r].pc = "new" /\ ~ClientMaySend(r))
  /\ \A t \in TurnReqs : task[t].pc \in {"none", "sent", "aborted", "done"}
  /\ \A c \in Chainers : chain[c].pc \in {"off", "done"}
  /\ \A i \in InterruptReqs : intr[i].pc \in {"new", "done"}
  /\ UNCHANGED vars

Next ==
  \/ Actor
  \/ QueryReturns
  \/ \E r \in TurnReqs : Handler(r) \/ TurnTask(r)
  \/ \E c \in Chainers : Followup(c)
  \/ \E i \in InterruptReqs : Interrupter(i)
  \/ Quiescent

Spec == Init /\ [][Next]_vars

-----------------------------------------------------------------------------
(* Fairness.  Every task the runtime spawned is scheduled, the actor serves  *)
(* its mailbox, and a cancelled query or shell command is abandoned.  Nothing*)
(* is assumed of clients, nor that a model or a shell command ever answers.  *)
Fairness ==
  /\ WF_vars(Actor)
  /\ \A r \in TurnReqs :
       /\ WF_vars(req[r].pc # "new" /\ Handler(r))
       /\ WF_vars(task[r].pc # "running" /\ TurnTask(r))
       /\ WF_vars(task[r].token \in cancelled /\ ShellReturns(r))
  /\ \A c \in Chainers : WF_vars(Followup(c))
  /\ \A i \in InterruptReqs : WF_vars(intr[i].pc # "new" /\ Interrupter(i))

FairSpec == Spec /\ Fairness
AnsweringSpec ==
  FairSpec /\ WF_vars(QueryReturns) /\ \A t \in ShellReqs : WF_vars(ShellReturns(t))

-----------------------------------------------------------------------------
HandlerPcs == {"new", "cached", "asked", "admit", "begun", "persisting", "undo", "undoing",
               "announce", "token", "register", "attach", "done"}
HandlerReplies == {"None", "Started", "Queued", "TurnAlreadyRunning", "SessionNotFound",
                   "InternalError"}
TaskPcs == {"none", "spawned", "sent", "preparing", "prepared", "running", "returned",
            "cleared", "completing", "completed", "aborted", "done"}
ChainPcs == {"off", "pop", "popping", "popped", "preparing", "activate", "execute", "done"}
InterruptPcs == {"new", "subscribed", "cancel", "abort", "claim", "claiming", "claimed",
                 "persisting", "finish", "waiting", "done"}
InterruptReplies == Terminal \cup {"None", "TurnNotFound", "InternalError"}
ExecPcs == {"idle", "starting", "querying", "finalizing", "ending", "closing"}
Statuses == Terminal \cup {"Running"}

HandlerState == [pc : HandlerPcs, active : Turns, latest : Turns, reply : HandlerReplies]
TaskState == [pc : TaskPcs, token : Turns, status : Statuses]
ChainState == [pc : ChainPcs, tries : 0..2, turn : Turns]
InterruptState == [pc : InterruptPcs, turn : Turns, reply : InterruptReplies]
ExecState == [pc : ExecPcs, turn : Turns, token : Turns, status : Statuses]
Entry == [turn : Turns, token : Turns, abort : Turns, runs : Turns, base : Turns]

(* Every variable holds what its Rust counterpart can hold. *)
TypeOK ==
  /\ mailbox \in Seq(Command)
  /\ active \in Turns /\ latest \in Turns
  /\ queue \in Seq(StartReqs)
  /\ seqOf \in [TurnReqs -> Nat]
  /\ exec \in ExecState
  /\ registry \in Entry
  /\ cancelled \subseteq TurnReqs
  /\ req \in [TurnReqs -> HandlerState]
  /\ task \in [TurnReqs -> TaskState]
  /\ chain \in [Chainers -> ChainState]
  /\ intr \in [InterruptReqs -> InterruptState]
  /\ announced \subseteq Turns
  /\ merged \subseteq StartReqs
  /\ recorded \in [TurnReqs -> Terminal \cup {"None"}]
  /\ ended \in [TurnReqs -> Seq(Terminal)]

(* Whoever is about to announce the end of a turn knows how the turn ended. *)
ResultKnown ==
  /\ exec.pc \in {"finalizing", "ending", "closing"} => exec.status \in Terminal
  /\ \A t \in TurnReqs :
       task[t].pc \in {"returned", "cleared", "completing", "completed"}
         => task[t].status \in Terminal

(* An interrupt handler past its first step, or with a command in the         *)
(* mailbox, has a turn to interrupt; before that it has told nothing.        *)
TargetKnown ==
  /\ \A i \in InterruptReqs :
       IF intr[i].pc = "new" THEN intr[i].reply = "None" ELSE intr[i].turn \in TurnReqs
  /\ \A n \in DOMAIN mailbox :
       mailbox[n].by \in InterruptReqs /\ mailbox[n].op \in {"interrupt", "persist"} =>
         intr[mailbox[n].by].turn \in TurnReqs

Outcomes(t) == {ended[t][n] : n \in DOMAIN ended[t]}

(* A terminal status that was recorded, or is about to be, was broadcast.     *)
RecordedHappened ==
  /\ \A t \in TurnReqs : recorded[t] # "None" => recorded[t] \in Outcomes(t)
  /\ exec.pc = "closing" /\ exec.turn \in TurnReqs => exec.status \in Outcomes(exec.turn)

(* A turn/interrupt that succeeds answers with a terminal status that was    *)
(* broadcast for the turn it names: no claim without the event behind it.    *)
InterruptTruthful ==
  \A i \in InterruptReqs :
    intr[i].reply \in Terminal => intr[i].reply \in Outcomes(intr[i].turn)

(* A turn is terminal once: an actor that finalizes it, an interrupt handler *)
(* that claims it and a shell task that completes it never do so both.       *)
AtMostOneTerminal == \A t \in TurnReqs : Len(ended[t]) <= 1

(* Nothing runs on behalf of a turn that already reached a terminal state.   *)
NoRunAfterEnd ==
  \A t \in TurnReqs : ended[t] # <<>> =>
    /\ exec.turn = t => exec.pc = "closing"
    /\ task[t].pc \notin {"spawned", "preparing", "prepared", "running"}

(* No two turns announced to clients carry the same sequence number.         *)
SequencesDistinct ==
  \A t, u \in announced : t # u => seqOf[t] # seqOf[u]

(* A client that waits for the end of its turn before it sends the next gets *)
(* that next turn started: it is neither queued nor refused.                 *)
PatientClientStarts ==
  \A r \in TurnReqs : req[r].reply \in {"None", "Started", "InternalError"}

(* A request that was refused leaves nothing behind: the turn is never       *)
(* active again, announced, run or finalized.                                *)
RefusedLeavesNothing ==
  \A r \in TurnReqs :
    req[r].reply \in {"TurnAlreadyRunning", "SessionNotFound", "InternalError"} =>
      /\ active # r /\ exec.turn # r /\ r \notin announced /\ ended[r] = <<>>
      /\ registry.turn # r /\ task[r].pc = "none"

HeldBy(c, r) == chain[c].pc \in {"popped", "preparing", "activate", "execute"} /\ chain[c].turn = r

(* Where an input is: a command in the mailbox, an entry of the queue, a     *)
(* chain that popped it, the actor, its end, another turn's prompt.          *)
Places(r) ==
  {<<"mailbox", n>> : n \in {k \in DOMAIN mailbox :
      mailbox[k].op \in {"enqueue", "execute"} /\ mailbox[k].turn = r}}
  \cup {<<"queue", n>> : n \in {k \in DOMAIN queue : queue[k] = r}}
  \cup {<<"chain", c>> : c \in {d \in Chainers : HeldBy(d, r)}}
  \cup {<<"actor", t>> : t \in {r} \cap {exec.turn}}
  \cup {<<"over", t>> : t \in {u \in {r} : ended[u] # <<>> /\ exec.turn # u}}
  \cup {<<"prompt", t>> : t \in {r} \cap merged}

(* An input answered Queued is in exactly one place, from the mailbox to the *)
(* queue, the chain that popped it, the mailbox again, the actor and the end *)
(* of its turn, or the prompt of the turn that took it from the queue: it is *)
(* never lost and never run twice.                                           *)
QueuedInOnePlace ==
  \A r \in StartReqs : req[r].reply = "Queued" => \E p \in Places(r) : Places(r) = {p}

(* turn/interrupt only ever cancels a turn a client named.                   *)
CancelsOnlyItsTarget ==
  \A t \in cancelled : \E i \in InterruptReqs : intr[i].turn = t

(* At most one turn announced to clients is still to end.                    *)
OneActiveTurn == \A t, u \in announced : ended[t] = <<>> /\ ended[u] = <<>> => t = u

(* The latest turn only ever moves to a turn with a higher sequence number.  *)
LatestAdvances ==
  [][latest' # latest /\ latest # NoTurn => seqOf'[latest'] > seqOf[latest]]_vars

(* turn/interrupt does not call inactive a follow-up turn whose model query  *)
(* is running.                                                               *)
FollowupInterruptible ==
  [][\A i \in InterruptReqs, t \in StartReqs :
       intr[i].pc = "new" /\ intr'[i].turn = t /\ intr'[i].reply = "TurnNotFound"
         => ~ (exec.pc = "querying" /\ exec.turn = t /\ req[t].reply = "Queued")]_vars

(* Once turn/interrupt has signalled a turn, the turn reaches a terminal     *)
(* state, whether or not the model ever answers, or the append of that end   *)
(* failed and the one who interrupted it is told so.                         *)
CancelEndsTurn ==
  \A i \in InterruptReqs, t \in TurnReqs :
    (intr[i].turn = t /\ intr[i].pc = "abort")
      ~> \/ ended[t] # <<>>
         \/ \E j \in InterruptReqs : intr[j].turn = t /\ intr[j].reply = "InternalError"

(* An input answered Queued becomes a turn, or part of one, sooner or later. *)
QueuedEventuallyRuns ==
  \A r \in StartReqs : (req[r].reply = "Queued") ~> (ended[r] # <<>> \/ r \in merged)
=============================================================================
