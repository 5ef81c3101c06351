------------------------ MODULE TurnLifecycleProofs ------------------------
(***************************************************************************)
(* Theorems of TurnLifecycle for every set of requests, every client and   *)
(* every interleaving, concurrent starts and shell commands included; at   *)
(* the end, those about clients that wait, and the contract they are kept. *)
(***************************************************************************)
EXTENDS MCTurnLifecycle, TLAPS

(* What the actor receives is a command, and the rest is a mailbox.          *)
LEMMA ReceiveType ==
  ASSUME TypeOK, NEW op \in Ops, Receive(op)
  PROVE  /\ mailbox' \in Seq(Command)
         /\ Cur \in Command /\ Cur.op = op
         /\ Cur.by \in Chainers /\ Cur.turn \in Turns
         /\ op = "enqueue" => Cur.turn \in StartReqs
<1>1. mailbox \in Seq(Command) /\ mailbox # <<>> /\ mailbox' = Tail(mailbox) /\ Cur.op = op
  BY DEF TypeOK, Receive, Cur
<1>2. Cur \in Command /\ mailbox' \in Seq(Command)
  BY <1>1 DEF Cur
<1>3. Cur.by \in Chainers /\ Cur.turn \in Turns
  BY <1>2 DEF Command, Chainers, TurnReqs, Turns
<1>4. op = "enqueue" => Cur.turn \in StartReqs
  BY <1>1, <1>2 DEF Command
<1> QED  BY <1>1, <1>2, <1>3, <1>4

(* A command sent by a task leaves a mailbox behind.                         *)
LEMMA SendType ==
  ASSUME TypeOK, NEW op \in Ops, NEW by \in Chainers, NEW t \in Turns,
         op = "enqueue" => by \in StartReqs /\ t \in StartReqs,
         Send(Cmd(op, by, t))
  PROVE  mailbox' \in Seq(Command)
<1>1. Cmd(op, by, t) \in Command
  BY DEF Cmd, Command
<1>2. mailbox \in Seq(Command) /\ mailbox' = Append(mailbox, Cmd(op, by, t))
  BY DEF TypeOK, Send
<1> QED  BY <1>1, <1>2

(* The initial state is well typed.                                          *)
LEMMA InitType == Init => TypeOK
<1> SUFFICES ASSUME Init PROVE TypeOK  OBVIOUS
<1>1. mailbox \in Seq(Command) /\ queue \in Seq(StartReqs)
  BY DEF Init
<1>2. NoTurn \in Turns
  BY DEF Turns
<1>3. registry \in Entry /\ exec \in ExecState
  BY <1>2 DEF Init, EmptyEntry, Entry, ExecState, ExecPcs, Statuses
<1>4. req \in [TurnReqs -> HandlerState]
  BY <1>2 DEF Init, HandlerState, HandlerPcs, HandlerReplies
<1>5. task \in [TurnReqs -> TaskState]
  BY <1>2 DEF Init, TaskState, TaskPcs, Statuses
<1>6. chain \in [Chainers -> ChainState]
  BY <1>2 DEF Init, ChainState, ChainPcs
<1>7. intr \in [InterruptReqs -> InterruptState]
  BY <1>2 DEF Init, InterruptState, InterruptPcs, InterruptReplies
<1>8. /\ active \in Turns /\ latest \in Turns /\ seqOf \in [TurnReqs -> Nat]
      /\ cancelled \subseteq TurnReqs /\ announced \subseteq Turns
      /\ recorded \in [TurnReqs -> Terminal \cup {"None"}]
      /\ ended \in [TurnReqs -> Seq(Terminal)]
      /\ merged \subseteq StartReqs
  BY <1>2 DEF Init
<1> QED  BY <1>1, <1>3, <1>4, <1>5, <1>6, <1>7, <1>8 DEF TypeOK

(* A handler, task, chain or interrupt handler that moves to another point   *)
(* of its code keeps its type.                                               *)
LEMMA MoveType ==
  ASSUME TypeOK
  PROVE  /\ \A r, p : p \in HandlerPcs =>
              [req EXCEPT ![r].pc = p] \in [TurnReqs -> HandlerState]
         /\ \A r, p, a : p \in HandlerPcs /\ a \in HandlerReplies =>
              [req EXCEPT ![r].pc = p, ![r].reply = a] \in [TurnReqs -> HandlerState]
         /\ \A t, p : p \in TaskPcs =>
              [task EXCEPT ![t].pc = p] \in [TurnReqs -> TaskState]
         /\ \A c, p : p \in ChainPcs =>
              [chain EXCEPT ![c].pc = p] \in [Chainers -> ChainState]
         /\ \A i, p : p \in InterruptPcs =>
              [intr EXCEPT ![i].pc = p] \in [InterruptReqs -> InterruptState]
         /\ \A i, p, a : p \in InterruptPcs /\ a \in InterruptReplies =>
              [intr EXCEPT ![i].pc = p, ![i].reply = a] \in [InterruptReqs -> InterruptState]
<1>1. \A r, p : p \in HandlerPcs => [req EXCEPT ![r].pc = p] \in [TurnReqs -> HandlerState]
  BY DEF TypeOK, HandlerState
<1>2. \A r, p, a : p \in HandlerPcs /\ a \in HandlerReplies =>
        [req EXCEPT ![r].pc = p, ![r].reply = a] \in [TurnReqs -> HandlerState]
  BY DEF TypeOK, HandlerState
<1>3. \A t, p : p \in TaskPcs => [task EXCEPT ![t].pc = p] \in [TurnReqs -> TaskState]
  BY DEF TypeOK, TaskState
<1>4. \A c, p : p \in ChainPcs => [chain EXCEPT ![c].pc = p] \in [Chainers -> ChainState]
  BY DEF TypeOK, ChainState
<1>5. \A i, p : p \in InterruptPcs =>
        [intr EXCEPT ![i].pc = p] \in [InterruptReqs -> InterruptState]
  BY DEF TypeOK, InterruptState
<1>6. \A i, p, a : p \in InterruptPcs /\ a \in InterruptReplies =>
        [intr EXCEPT ![i].pc = p, ![i].reply = a] \in [InterruptReqs -> InterruptState]
  BY DEF TypeOK, InterruptState
<1> QED  BY <1>1, <1>2, <1>3, <1>4, <1>5, <1>6

(* The steps of a turn/start or turn/shell_command handler keep the types.   *)
LEMMA HandlerType ==
  ASSUME TypeOK, NEW r \in TurnReqs, Handler(r)
  PROVE  TypeOK'
<1> DEFINE ReqOK == req \in [TurnReqs -> HandlerState]
<1>a. r \in Chainers /\ r \in Turns /\ NoTurn \in Turns
  BY DEF Chainers, Turns
<1>b. {"snapshot", "begin", "persist", "rollback", "enqueue"} \subseteq Ops
  BY DEF Ops
<1>c. /\ {"cached", "asked", "admit", "begun", "persisting", "undoing", "token", "register",
           "attach", "done"} \subseteq HandlerPcs
      /\ {"SessionNotFound", "Queued", "TurnAlreadyRunning", "Started"} \subseteq HandlerReplies
  BY DEF HandlerPcs, HandlerReplies
<1>1. CASE ReadReservation(r)
  <2>1. \/ req' = [req EXCEPT ![r].pc = "cached"] /\ UNCHANGED mailbox
        \/ req' = [req EXCEPT ![r].pc = "asked"] /\ Send(Cmd("snapshot", r, NoTurn))
    BY <1>1 DEF ReadReservation
  <2>2. /\ [req EXCEPT ![r].pc = "cached"] \in [TurnReqs -> HandlerState]
        /\ [req EXCEPT ![r].pc = "asked"] \in [TurnReqs -> HandlerState]
    BY <1>c, MoveType
  <2>3. ASSUME UNCHANGED mailbox PROVE mailbox' \in Seq(Command)
    BY <2>3 DEF TypeOK
  <2>4. ASSUME Send(Cmd("snapshot", r, NoTurn)) PROVE mailbox' \in Seq(Command)
    BY <1>a, <1>b, <2>4, SendType
  <2>5. mailbox' \in Seq(Command)
    BY <2>1, <2>3, <2>4
  <2>6. ReqOK'
    BY <2>1, <2>2
  <2> QED  BY <1>1, <2>5, <2>6 DEF ReadReservation, TypeOK, runtimeVars, historyVars
<1>2. CASE ReadCachedReservation(r)
  <2>1. registry.turn \in Turns /\ registry.base \in Turns
    BY DEF TypeOK, Entry
  <2>2. ReqOK'
    BY <1>2, <1>c, <2>1 DEF ReadCachedReservation, TypeOK, HandlerState
  <2> QED  BY <1>2, <2>2 DEF ReadCachedReservation, TypeOK, actorVars, runtimeVars, historyVars
<1>3. CASE QueueInput(r)
  <2>1. mailbox' \in Seq(Command)
    BY <1>3, <1>a, <1>b, SendType DEF QueueInput
  <2>2. ReqOK'
    BY <1>3, <1>c, MoveType DEF QueueInput
  <2> QED  BY <1>3, <2>1, <2>2 DEF QueueInput, TypeOK, runtimeVars, historyVars
<1>4. CASE RefuseActive(r)
  <2>1. ReqOK'
    BY <1>4, <1>c, MoveType DEF RefuseActive
  <2> QED  BY <1>4, <2>1 DEF RefuseActive, TypeOK, actorVars, runtimeVars, historyVars
<1>5. CASE Begin(r)
  <2>1. mailbox' \in Seq(Command)
    BY <1>5, <1>a, <1>b, SendType DEF Begin
  <2>2. ReqOK'
    BY <1>5, <1>c, MoveType DEF Begin
  <2>3. req[r].latest \in Turns
    BY DEF TypeOK, HandlerState
  <2>4. NextSeq(req[r].latest) \in Nat
    BY <2>3 DEF NextSeq, TypeOK, Turns
  <2>5. seqOf' \in [TurnReqs -> Nat]
    BY <1>5, <2>4 DEF Begin, TypeOK
  <2> QED  BY <1>5, <2>1, <2>2, <2>5 DEF Begin, TypeOK, runtimeVars
<1>6. CASE SendPersist(r)
  <2>1. mailbox' \in Seq(Command)
    BY <1>6, <1>a, <1>b, SendType DEF SendPersist
  <2>2. ReqOK'
    BY <1>6, <1>c, MoveType DEF SendPersist
  <2> QED  BY <1>6, <2>1, <2>2 DEF SendPersist, TypeOK, runtimeVars, historyVars
<1>7. CASE SendRollback(r)
  <2>1. mailbox' \in Seq(Command)
    BY <1>7, <1>a, <1>b, SendType DEF SendRollback
  <2>2. ReqOK'
    BY <1>7, <1>c, MoveType DEF SendRollback
  <2> QED  BY <1>7, <2>1, <2>2 DEF SendRollback, TypeOK, runtimeVars, historyVars
<1>8. CASE AnnounceShell(r)
  <2>1. ReqOK'
    BY <1>8, <1>c, MoveType DEF AnnounceShell
  <2>2. announced' \subseteq Turns
    BY <1>8, <1>a DEF AnnounceShell, TypeOK
  <2> QED  BY <1>8, <2>1, <2>2 DEF AnnounceShell, TypeOK, actorVars, runtimeVars
<1>9. CASE RegisterToken(r)
  <2>1. ReqOK'
    BY <1>9, <1>c, MoveType DEF RegisterToken
  <2>2. registry' \in Entry
    BY <1>9, <1>a DEF RegisterToken, TypeOK, Entry
  <2> QED  BY <1>9, <2>1, <2>2 DEF RegisterToken, TypeOK, actorVars, historyVars
<1>10. CASE RegisterAndSpawn(r)
  <2>1. ReqOK'
    BY <1>10, <1>c, MoveType DEF RegisterAndSpawn
  <2>2. registry' \in Entry
    BY <1>10, <1>a DEF RegisterAndSpawn, TypeOK, Entry
  <2>3. task' \in [TurnReqs -> TaskState]
    BY <1>10, MoveType DEF RegisterAndSpawn, TaskPcs
  <2> QED  BY <1>10, <2>1, <2>2, <2>3 DEF RegisterAndSpawn, TypeOK, actorVars, historyVars
<1>11. CASE AttachAndReply(r)
  <2>1. ReqOK'
    BY <1>11, <1>c, MoveType DEF AttachAndReply
  <2>2. registry' \in Entry
    BY <1>11, <1>a DEF AttachAndReply, TypeOK, Entry
  <2>3. announced' \subseteq Turns
    BY <1>11, <1>a DEF AttachAndReply, TypeOK
  <2> QED  BY <1>11, <2>1, <2>2, <2>3 DEF AttachAndReply, TypeOK, actorVars
<1> QED  BY <1>1, <1>2, <1>3, <1>4, <1>5, <1>6, <1>7, <1>8, <1>9, <1>10, <1>11 DEF Handler

(* The steps of the task that runs a turn keep the types.                    *)
LEMMA TurnTaskType ==
  ASSUME TypeOK, ResultKnown, NEW t \in TurnReqs, TurnTask(t)
  PROVE  TypeOK'
<1> DEFINE TaskOK == task \in [TurnReqs -> TaskState]
<1>a. t \in Chainers /\ t \in Turns /\ NoTurn \in Turns
  BY DEF Chainers, Turns
<1>b. {"execute", "context", "shellDone"} \subseteq Ops
  BY DEF Ops
<1>c. {"sent", "preparing", "running", "returned", "cleared", "completing", "done"}
        \subseteq TaskPcs
  BY DEF TaskPcs
<1>1. CASE SendExecute(t)
  <2>1. mailbox' \in Seq(Command) /\ TaskOK'
    BY <1>1, <1>a, <1>b, <1>c, SendType, MoveType DEF SendExecute
  <2> QED  BY <1>1, <2>1 DEF SendExecute, TypeOK, runtimeVars, historyVars
<1>2. CASE ShellAskContext(t)
  <2>1. mailbox' \in Seq(Command) /\ TaskOK'
    BY <1>2, <1>a, <1>b, <1>c, SendType, MoveType DEF ShellAskContext
  <2> QED  BY <1>2, <2>1 DEF ShellAskContext, TypeOK, runtimeVars, historyVars
<1>3. CASE ShellRun(t)
  <2>1. registry.token \in Turns
    BY DEF TypeOK, Entry
  <2>2. TaskOK'
    BY <1>3, <1>c, <2>1 DEF ShellRun, TypeOK, TaskState
  <2> QED  BY <1>3, <2>2 DEF ShellRun, TypeOK, actorVars, runtimeVars, historyVars
<1>4. CASE ShellReturns(t)
  <2>1. PICK s \in {"Completed", "Failed"} :
          task' = [task EXCEPT ![t].pc = "returned", ![t].status = s]
    BY <1>4 DEF ShellReturns
  <2>2. s \in Statuses
    BY DEF Statuses, Terminal
  <2>3. TaskOK'
    BY <1>c, <2>1, <2>2 DEF TypeOK, TaskState
  <2> QED  BY <1>4, <2>3 DEF ShellReturns, TypeOK, actorVars, runtimeVars, historyVars
<1>5. CASE ShellClearHandles(t)
  <2>1. TaskOK' /\ registry' \in Entry
    BY <1>5, <1>a, <1>c, MoveType DEF ShellClearHandles, EmptyEntry, Entry
  <2> QED  BY <1>5, <2>1 DEF ShellClearHandles, TypeOK, actorVars, historyVars
<1>6. CASE ShellSendComplete(t)
  <2>1. mailbox' \in Seq(Command) /\ TaskOK'
    BY <1>6, <1>a, <1>b, <1>c, SendType, MoveType DEF ShellSendComplete
  <2> QED  BY <1>6, <2>1 DEF ShellSendComplete, TypeOK, runtimeVars, historyVars
<1>7. CASE ShellEmitTerminal(t)
  <2>1. TaskOK'
    BY <1>7, <1>c, MoveType DEF ShellEmitTerminal
  <2>2. task[t].status \in Terminal
    BY <1>7 DEF ShellEmitTerminal, ResultKnown
  <2>3. ended' \in [TurnReqs -> Seq(Terminal)]
    BY <1>7, <2>2 DEF ShellEmitTerminal, TypeOK
  <2> QED  BY <1>7, <2>1, <2>3 DEF ShellEmitTerminal, TypeOK, actorVars, runtimeVars
<1> QED  BY <1>1, <1>2, <1>3, <1>4, <1>5, <1>6, <1>7 DEF TurnTask

(* The steps of a task that chains the next queued input keep the types.     *)
LEMMA FollowupType ==
  ASSUME TypeOK, NEW c \in Chainers, Followup(c)
  PROVE  TypeOK'
<1> DEFINE ChainOK == chain \in [Chainers -> ChainState]
<1>a. NoTurn \in Turns /\ chain[c].turn \in Turns
  BY DEF Turns, TypeOK, ChainState
<1>b. {"pop", "prepare", "activate", "execute"} \subseteq Ops
  BY DEF Ops
<1>c. {"popping", "preparing", "execute", "done"} \subseteq ChainPcs
  BY DEF ChainPcs
<1>1. CASE SendPop(c)
  <2>1. mailbox' \in Seq(Command) /\ ChainOK'
    BY <1>1, <1>a, <1>b, <1>c, SendType, MoveType DEF SendPop
  <2> QED  BY <1>1, <2>1 DEF SendPop, TypeOK, runtimeVars, historyVars
<1>2. CASE SendPrepare(c)
  <2>1. mailbox' \in Seq(Command) /\ ChainOK'
    BY <1>2, <1>a, <1>b, <1>c, SendType, MoveType DEF SendPrepare
  <2> QED  BY <1>2, <2>1 DEF SendPrepare, TypeOK, runtimeVars, historyVars
<1>3. CASE SendActivate(c)
  <2>1. mailbox' \in Seq(Command) /\ ChainOK'
    BY <1>3, <1>a, <1>b, <1>c, SendType, MoveType DEF SendActivate
  <2>2. announced' \subseteq Turns
    BY <1>3, <1>a DEF SendActivate, TypeOK
  <2> QED  BY <1>3, <2>1, <2>2 DEF SendActivate, TypeOK, runtimeVars
<1>4. CASE SendFollowup(c)
  <2>1. mailbox' \in Seq(Command) /\ ChainOK'
    BY <1>4, <1>a, <1>b, <1>c, SendType, MoveType DEF SendFollowup
  <2> QED  BY <1>4, <2>1 DEF SendFollowup, TypeOK, runtimeVars, historyVars
<1> QED  BY <1>1, <1>2, <1>3, <1>4 DEF Followup

(* The steps of a turn/interrupt handler keep the types.                     *)
LEMMA InterrupterType ==
  ASSUME TypeOK, TargetKnown, NEW i \in InterruptReqs, Interrupter(i)
  PROVE  TypeOK'
<1> DEFINE IntrOK == intr \in [InterruptReqs -> InterruptState]
<1>a. /\ i \in Chainers /\ NoTurn \in Turns /\ intr[i].turn \in Turns
      /\ registry.token \in Turns /\ registry.abort \in Turns
  BY DEF Chainers, Turns, TypeOK, InterruptState, Entry
<1>b. {"interrupt", "persist"} \subseteq Ops
  BY DEF Ops
<1>c. /\ {"subscribed", "cancel", "abort", "claim", "claiming", "persisting", "done"}
           \subseteq InterruptPcs
      /\ {"None", "TurnNotFound", "Interrupted"} \subseteq InterruptReplies
  BY DEF InterruptPcs, InterruptReplies, Terminal
<1>d. ASSUME NEW t \in TurnReqs, recorded[t] # "None"
      PROVE  recorded[t] \in InterruptReplies
  BY <1>d DEF TypeOK, InterruptReplies
<1>e. ASSUME NEW a \in InterruptReplies, Answer(i, a) PROVE IntrOK'
  BY <1>c, <1>e, MoveType DEF Answer
<1>f. intr[i].pc # "new" => intr[i].turn \in TurnReqs
  BY DEF TargetKnown
<1>h. "Interrupted" \in Terminal /\ "pop" \in ChainPcs /\ 1 \in 0..2
  BY DEF Terminal, ChainPcs
<1>g. intr[i] \in InterruptState
  BY DEF TypeOK
<1>1. CASE \E t \in TurnReqs : CheckTarget(i, t)
  <2>1. PICK t \in TurnReqs : CheckTarget(i, t)
    BY <1>1
  <2>2. t \in Turns
    BY DEF Turns
  <2>3. ASSUME registry.turn = t PROVE IntrOK'
    <3>1. intr' = [intr EXCEPT ![i] = [@ EXCEPT !.pc = "subscribed", !.turn = t]]
      BY <2>1, <2>3 DEF CheckTarget
    <3> QED  BY <1>c, <1>g, <2>2, <3>1 DEF TypeOK, InterruptState
  <2>4. ASSUME registry.turn # t, recorded[t] # "None" PROVE IntrOK'
    <3>1. intr' = [intr EXCEPT ![i] =
                     [@ EXCEPT !.pc = "done", !.turn = t, !.reply = recorded[t]]]
      BY <2>1, <2>4 DEF CheckTarget
    <3> QED  BY <1>c, <1>d, <1>g, <2>2, <2>4, <3>1 DEF TypeOK, InterruptState
  <2>5. ASSUME registry.turn # t, recorded[t] = "None" PROVE IntrOK'
    <3>1. intr' = [intr EXCEPT ![i] =
                     [@ EXCEPT !.pc = "done", !.turn = t, !.reply = "TurnNotFound"]]
      BY <2>1, <2>5 DEF CheckTarget
    <3> QED  BY <1>c, <1>g, <2>2, <3>1 DEF TypeOK, InterruptState
  <2>6. IntrOK'
    BY <2>3, <2>4, <2>5
  <2> QED  BY <2>1, <2>6 DEF CheckTarget, TypeOK, actorVars, runtimeVars, historyVars
<1>2. CASE RecheckRecent(i)
  <2>1. ASSUME recorded[intr[i].turn] # "None" PROVE IntrOK'
    BY <1>2, <1>d, <1>e, <1>f, <2>1 DEF RecheckRecent
  <2>2. ASSUME recorded[intr[i].turn] = "None" PROVE IntrOK'
    <3>1. intr' = [intr EXCEPT ![i].pc = "cancel"]
      BY <1>2, <2>2 DEF RecheckRecent
    <3> QED  BY <1>c, <3>1, MoveType
  <2>3. IntrOK'
    BY <2>1, <2>2
  <2> QED  BY <1>2, <2>3 DEF RecheckRecent, TypeOK, actorVars, runtimeVars, historyVars
<1>3. CASE CancelToken(i)
  <2>1. IntrOK'
    BY <1>3, <1>c, MoveType DEF CancelToken
  <2>2. cancelled' \subseteq TurnReqs
    BY <1>3, <1>a DEF CancelToken, TypeOK, Turns
  <2> QED  BY <1>3, <2>1, <2>2 DEF CancelToken, TypeOK, actorVars, historyVars
<1>4. CASE AbortTask(i)
  <2>1. IntrOK'
    BY <1>4, <1>c, MoveType DEF AbortTask
  <2>2. CASE registry.abort = NoTurn
    BY <1>4, <2>1, <2>2 DEF AbortTask, TypeOK, actorVars, historyVars
  <2>3. CASE registry.abort # NoTurn
    <3>1. /\ task' = [task EXCEPT ![registry.abort].pc = Aborted(registry.abort, @)]
          /\ registry' = [registry EXCEPT !.abort = NoTurn]
      BY <1>4, <2>3 DEF AbortTask
    <3>2. registry.abort \in TurnReqs
      BY <1>a, <2>3 DEF Turns
    <3>3. Aborted(registry.abort, task[registry.abort].pc) \in TaskPcs
      BY <3>2 DEF Aborted, TypeOK, TaskState, TaskPcs
    <3>4. task' \in [TurnReqs -> TaskState]
      BY <3>1, <3>3, MoveType
    <3>5. registry' \in Entry
      BY <1>a, <3>1 DEF TypeOK, Entry
    <3> QED  BY <1>4, <2>1, <3>4, <3>5 DEF AbortTask, TypeOK, actorVars, historyVars
  <2> QED  BY <2>2, <2>3
<1>5. CASE SendInterrupt(i)
  <2>1. mailbox' \in Seq(Command) /\ IntrOK'
    BY <1>5, <1>a, <1>b, <1>c, SendType, MoveType DEF SendInterrupt
  <2> QED  BY <1>5, <2>1 DEF SendInterrupt, TypeOK, runtimeVars, historyVars
<1>6. CASE ClearClaimed(i)
  <2>1. mailbox' \in Seq(Command) /\ IntrOK'
    BY <1>6, <1>a, <1>b, <1>c, SendType, MoveType DEF ClearClaimed
  <2>2. registry' \in Entry
    BY <1>6, <1>a DEF ClearClaimed, EmptyEntry, Entry
  <2> QED  BY <1>6, <2>1, <2>2 DEF ClearClaimed, TypeOK, historyVars
<1>7. CASE FinishClaimed(i)
  <2>1. IntrOK'
    BY <1>7, <1>c, <1>e DEF FinishClaimed
  <2>2. ended' \in [TurnReqs -> Seq(Terminal)]
    <3>1. intr[i].turn \in TurnReqs
      BY <1>7, <1>f DEF FinishClaimed
    <3>2. Append(ended[intr[i].turn], "Interrupted") \in Seq(Terminal)
      BY <1>h, <3>1 DEF TypeOK
    <3> QED  BY <1>7, <3>1, <3>2 DEF FinishClaimed, TypeOK
  <2>3. recorded' \in [TurnReqs -> Terminal \cup {"None"}]
    BY <1>7, <1>h DEF FinishClaimed, TypeOK
  <2>4. chain' \in [Chainers -> ChainState]
    BY <1>7, <1>h DEF FinishClaimed, TypeOK, ChainState
  <2> QED  BY <1>7, <2>1, <2>2, <2>3, <2>4 DEF FinishClaimed, TypeOK, actorVars
<1>8. CASE HearTerminal(i)
  <2>1. IntrOK'
    BY <1>8, <1>d, <1>e, <1>f DEF HearTerminal
  <2> QED  BY <1>8, <2>1 DEF HearTerminal, TypeOK, actorVars, runtimeVars, historyVars
<1>9. CASE WaitTimesOut(i)
  <2>1. IntrOK'
    BY <1>9, <1>c, <1>e DEF WaitTimesOut
  <2> QED  BY <1>9, <2>1 DEF WaitTimesOut, TypeOK, actorVars, runtimeVars, historyVars
<1> QED  BY <1>1, <1>2, <1>3, <1>4, <1>5, <1>6, <1>7, <1>8, <1>9 DEF Interrupter

(* The actor keeps the types, whatever it receives or finalizes.             *)
LEMMA ActorType ==
  ASSUME TypeOK, ResultKnown, Actor \/ QueryReturns
  PROVE  TypeOK'
<1> DEFINE ReqOK == req \in [TurnReqs -> HandlerState]
           TaskOK == task \in [TurnReqs -> TaskState]
           ChainOK == chain \in [Chainers -> ChainState]
           IntrOK == intr \in [InterruptReqs -> InterruptState]
           MailOK == mailbox \in Seq(Command)
<1>a. NoTurn \in Turns /\ Turns = TurnReqs \cup {NoTurn}
  BY DEF Turns
<1>b. Ops = {"snapshot", "begin", "persist", "rollback", "execute", "enqueue", "pop",
             "prepare", "activate", "interrupt", "context", "shellDone"}
  BY DEF Ops
<1>c. /\ {"admit", "undo", "announce", "token", "done"} \subseteq HandlerPcs
      /\ "InternalError" \in HandlerReplies
      /\ {"prepared", "completed"} \subseteq TaskPcs
      /\ {"pop", "done", "popped", "activate"} \subseteq ChainPcs
      /\ {"waiting", "claimed", "finish", "done"} \subseteq InterruptPcs
      /\ {"TurnNotFound", "InternalError"} \subseteq InterruptReplies
  BY DEF HandlerPcs, HandlerReplies, TaskPcs, ChainPcs, InterruptPcs, InterruptReplies
<1>d. registry \in Entry /\ exec \in ExecState /\ latest \in Turns /\ active \in Turns
  BY DEF TypeOK
<1>1. CASE ActorSnapshot
  <2>1. MailOK'
    BY <1>1, <1>b, ReceiveType DEF ActorSnapshot
  <2>2. ReqOK'
    <3>1. Cur.by \in Chainers /\ req \in [TurnReqs -> HandlerState]
      BY <1>1, <1>b, ReceiveType DEF ActorSnapshot, TypeOK
    <3>2. "admit" \in HandlerPcs
      BY DEF HandlerPcs
    <3> QED  BY <1>1, <1>d, <3>1, <3>2 DEF ActorSnapshot, HandlerState
  <2> QED  BY <1>1, <2>1, <2>2 DEF ActorSnapshot, TypeOK, runtimeVars, historyVars
<1>2. CASE ActorSetActive
  <2>1. MailOK' /\ Cur.turn \in Turns
    BY <1>2, <1>b, ReceiveType DEF ActorSetActive
  <2> QED  BY <1>2, <2>1 DEF ActorSetActive, TypeOK, runtimeVars, taskVars, historyVars
<1>3. CASE ActorPersist
  <2>1. MailOK'
    BY <1>3, <1>b, ReceiveType DEF ActorPersist
  <2>2. PICK ok \in BOOLEAN :
          IF Cur.by \in TurnReqs
            THEN /\ req' = [req EXCEPT ![Cur.by].pc =
                      CASE ~ok -> "undo"
                        [] ok /\ Cur.by \in ShellReqs -> "announce"
                        [] OTHER -> "token"]
                 /\ UNCHANGED intr
            ELSE /\ intr' = [intr EXCEPT ![Cur.by].pc = IF ok THEN "finish" ELSE "done",
                                         ![Cur.by].reply = IF ok THEN @ ELSE "InternalError"]
                 /\ UNCHANGED req
    BY <1>3 DEF ActorPersist
  <2>3. CASE Cur.by \in TurnReqs
    <3>1. ReqOK'
      <4>1. PICK p \in {"undo", "announce", "token"} : req' = [req EXCEPT ![Cur.by].pc = p]
        BY <2>2, <2>3
      <4> QED  BY <1>c, <4>1, MoveType
    <3> QED  BY <1>3, <2>1, <2>2, <2>3, <3>1 DEF ActorPersist, TypeOK, runtimeVars, historyVars
  <2>4. CASE Cur.by \notin TurnReqs
    <3>1. IntrOK'
      <4>1. CASE ok
        <5>1. intr' = [intr EXCEPT ![Cur.by].pc = "finish", ![Cur.by].reply = @]
          BY <2>2, <2>4, <4>1
        <5> QED  BY <1>c, <5>1 DEF TypeOK, InterruptState
      <4>2. CASE ~ok
        <5>1. intr' = [intr EXCEPT ![Cur.by].pc = "done", ![Cur.by].reply = "InternalError"]
          BY <2>2, <2>4, <4>2
        <5> QED  BY <1>c, <5>1, MoveType
      <4> QED  BY <4>1, <4>2
    <3> QED  BY <1>3, <2>1, <2>2, <2>4, <3>1 DEF ActorPersist, TypeOK, runtimeVars, historyVars
  <2> QED  BY <2>3, <2>4
<1>4. CASE ActorRollback
  <2>1. MailOK'
    BY <1>4, <1>b, ReceiveType DEF ActorRollback
  <2>2. ReqOK' /\ active' \in Turns
    BY <1>4, <1>a, <1>c, <1>d, MoveType DEF ActorRollback
  <2> QED  BY <1>4, <2>1, <2>2 DEF ActorRollback, TypeOK, runtimeVars, historyVars
<1>5. CASE ActorEnqueue
  <2>1. MailOK' /\ Cur.turn \in StartReqs
    BY <1>5, <1>b, ReceiveType DEF ActorEnqueue
  <2>2. queue' \in Seq(StartReqs)
    BY <1>5, <2>1 DEF ActorEnqueue, TypeOK
  <2> QED  BY <1>5, <2>1, <2>2 DEF ActorEnqueue, TypeOK, runtimeVars, taskVars, historyVars
<1>6. CASE ActorInterrupt
  <2>1. MailOK'
    BY <1>6, <1>b, ReceiveType DEF ActorInterrupt
  <2>2. latest' \in Turns /\ active' \in Turns
    BY <1>6, <1>a, <1>d DEF ActorInterrupt
  <2>3. Cur.by \in InterruptReqs => intr[Cur.by] \in InterruptState
    BY DEF TypeOK
  <2>4. /\ Cur.by \in InterruptReqs => intr'[Cur.by] \in InterruptState
        /\ intr' = [intr EXCEPT ![Cur.by] = intr'[Cur.by]]
    <3>1. ASSUME active = NoTurn
          PROVE  intr' = [intr EXCEPT ![Cur.by] = [@ EXCEPT !.pc = "waiting"]]
      BY <1>6, <3>1 DEF ActorInterrupt
    <3>2. ASSUME active # NoTurn, active = intr[Cur.by].turn
          PROVE  intr' = [intr EXCEPT ![Cur.by] = [@ EXCEPT !.pc = "claimed"]]
      BY <1>6, <3>2 DEF ActorInterrupt
    <3>3. ASSUME active # NoTurn, active # intr[Cur.by].turn
          PROVE  intr' = [intr EXCEPT ![Cur.by] =
                            [@ EXCEPT !.pc = "done", !.reply = "TurnNotFound"]]
      BY <1>6, <3>3 DEF ActorInterrupt
    <3>4. ASSUME NEW s \in InterruptState
          PROVE  /\ [s EXCEPT !.pc = "waiting"] \in InterruptState
                 /\ [s EXCEPT !.pc = "claimed"] \in InterruptState
                 /\ [s EXCEPT !.pc = "done", !.reply = "TurnNotFound"] \in InterruptState
      BY <1>c DEF InterruptState
    <3>5. CASE active = NoTurn
      BY <2>3, <3>1, <3>4, <3>5 DEF TypeOK
    <3>6. CASE active # NoTurn /\ active = intr[Cur.by].turn
      BY <2>3, <3>2, <3>4, <3>6 DEF TypeOK
    <3>7. CASE active # NoTurn /\ active # intr[Cur.by].turn
      BY <2>3, <3>3, <3>4, <3>7 DEF TypeOK
    <3> QED  BY <3>5, <3>6, <3>7
  <2>5. IntrOK'
    BY <2>4 DEF TypeOK
  <2> QED  BY <1>6, <2>1, <2>2, <2>5 DEF ActorInterrupt, TypeOK, runtimeVars, historyVars
<1>7. CASE ActorContext
  <2>1. MailOK'
    BY <1>7, <1>b, ReceiveType DEF ActorContext
  <2>2. TaskOK'
    BY <1>7, <1>c DEF ActorContext, TypeOK, TaskState
  <2> QED  BY <1>7, <2>1, <2>2 DEF ActorContext, TypeOK, runtimeVars, historyVars
<1>8. CASE ActorCompleteShell
  <2>1. MailOK' /\ Cur.turn \in Turns
    BY <1>8, <1>b, ReceiveType DEF ActorCompleteShell
  <2>2. TaskOK'
    BY <1>8, <1>c DEF ActorCompleteShell, TypeOK, TaskState
  <2> QED  BY <1>8, <1>a, <2>1, <2>2 DEF ActorCompleteShell, TypeOK, runtimeVars, historyVars
<1>9. CASE ActorPop
  <2>1. MailOK'
    BY <1>9, <1>b, ReceiveType DEF ActorPop
  <2>2. CASE queue = <<>>
    <3>1. PICK p \in {"pop", "done"} :
            chain' = [chain EXCEPT ![Cur.by].pc = p, ![Cur.by].tries = 1]
      BY <1>9, <2>2 DEF ActorPop
    <3>2. ChainOK'
      <4>1. 1 \in 0..2
        OBVIOUS
      <4> QED  BY <1>c, <3>1, <4>1 DEF TypeOK, ChainState
    <3> QED  BY <1>9, <2>1, <2>2, <3>2 DEF ActorPop, TypeOK, runtimeVars, historyVars
  <2>3. CASE queue # <<>>
    <3>1. Head(queue) \in Turns /\ Tail(queue) \in Seq(StartReqs)
      BY <2>3 DEF TypeOK, Turns, TurnReqs
    <3>2. chain' = [chain EXCEPT ![Cur.by].pc = "popped", ![Cur.by].turn = Head(queue)]
      BY <1>9, <2>3 DEF ActorPop
    <3>3. ChainOK'
      BY <1>c, <3>1, <3>2 DEF TypeOK, ChainState
    <3> QED  BY <1>9, <2>1, <2>3, <3>1, <3>3 DEF ActorPop, TypeOK, runtimeVars, historyVars
  <2> QED  BY <2>2, <2>3
<1>10. CASE ActorPrepare
  <2>1. MailOK'
    BY <1>10, <1>b, ReceiveType DEF ActorPrepare
  <2>2. NextSeq(latest) \in Nat
    BY <1>a, <1>d DEF NextSeq, TypeOK
  <2>3. seqOf' \in [TurnReqs -> Nat]
    BY <1>10, <2>2 DEF ActorPrepare, TypeOK
  <2>4. ChainOK'
    BY <1>10, <1>c, MoveType DEF ActorPrepare
  <2> QED  BY <1>10, <2>1, <2>3, <2>4 DEF ActorPrepare, TypeOK, runtimeVars
<1>11. CASE ActorExecute
  <2>1. MailOK' /\ Cur.turn \in Turns
    BY <1>11, <1>b, ReceiveType DEF ActorExecute
  <2>2. registry' \in Entry
    BY <1>11, <1>d, <2>1 DEF ActorExecute, Entry
  <2>3. exec' \in ExecState
    BY <1>11, <1>a, <2>1 DEF ActorExecute, ExecState, ExecPcs, Statuses
  <2> QED  BY <1>11, <2>1, <2>2, <2>3 DEF ActorExecute, TypeOK, taskVars, historyVars
<1>12. CASE StartQuery
  <2>1. exec' \in ExecState
    BY <1>12, <1>d DEF StartQuery, ExecState, ExecPcs, Entry
  <2> QED  BY <1>12, <2>1 DEF StartQuery, TypeOK, runtimeVars, taskVars, historyVars
<1>13. CASE QueryCancelled \/ QueryReturns
  <2>1. exec' \in ExecState
    BY <1>13, <1>d DEF QueryCancelled, QueryReturns, ExecState, ExecPcs, Statuses, Terminal
  <2> QED  BY <1>13, <2>1 DEF QueryCancelled, QueryReturns, TypeOK, runtimeVars, taskVars,
                              historyVars
<1>14. CASE ClearInterruptHandles
  <2>1. exec' \in ExecState /\ registry' \in Entry
    BY <1>14, <1>a, <1>d DEF ClearInterruptHandles, ExecState, ExecPcs, Entry
  <2> QED  BY <1>14, <2>1 DEF ClearInterruptHandles, TypeOK, taskVars, historyVars
<1>15. CASE PersistAndEmitTerminal
  <2>1. exec' \in ExecState /\ exec.turn \in Turns
    BY <1>15, <1>d DEF PersistAndEmitTerminal, ExecState, ExecPcs
  <2>2. exec.status \in Terminal
    BY <1>15 DEF PersistAndEmitTerminal, ResultKnown
  <2>3. ended' \in [TurnReqs -> Seq(Terminal)]
    <3>1. exec.turn \in TurnReqs => Append(ended[exec.turn], exec.status) \in Seq(Terminal)
      BY <2>2 DEF TypeOK
    <3> QED  BY <1>15, <3>1 DEF PersistAndEmitTerminal, TypeOK
  <2> QED  BY <1>15, <1>a, <2>1, <2>3 DEF PersistAndEmitTerminal, TypeOK, runtimeVars, taskVars
<1>16. CASE CloseTurn
  <2>1. exec' \in ExecState /\ registry' \in Entry
    BY <1>16, <1>a, <1>d DEF CloseTurn, ExecState, ExecPcs, Entry
  <2>2. exec.status \in Terminal
    BY <1>16 DEF CloseTurn, ResultKnown
  <2>3. recorded' \in [TurnReqs -> Terminal \cup {"None"}]
    BY <1>16, <2>2 DEF CloseTurn, TypeOK
  <2>4. ChainOK'
    <3>1. 2 \in 0..2
      OBVIOUS
    <3>2. exec.turn \in Chainers =>
            [chain[exec.turn] EXCEPT !.pc = "pop", !.tries = 2] \in ChainState
      BY <1>c, <3>1 DEF TypeOK, ChainState
    <3> QED  BY <1>16, <3>2 DEF CloseTurn, TypeOK
  <2> QED  BY <1>16, <2>1, <2>3, <2>4 DEF CloseTurn, TypeOK, historyVars
<1> QED  BY <1>1, <1>2, <1>3, <1>4, <1>5, <1>6, <1>7, <1>8, <1>9, <1>10, <1>11, <1>12, <1>13,
            <1>14, <1>15, <1>16 DEF Actor

(* Any step of the specification keeps the types.                            *)
LEMMA StepType ==
  ASSUME TypeOK, ResultKnown, TargetKnown, [Next]_vars
  PROVE  TypeOK'
<1>1. CASE Actor \/ QueryReturns
  BY <1>1, ActorType
<1>2. CASE \E r \in TurnReqs : Handler(r) \/ TurnTask(r)
  BY <1>2, HandlerType, TurnTaskType
<1>3. CASE \E c \in Chainers : Followup(c)
  BY <1>3, FollowupType
<1>4. CASE \E i \in InterruptReqs : Interrupter(i)
  BY <1>4, InterrupterType
<1>5. CASE UNCHANGED vars
  BY <1>5 DEF TypeOK, vars, actorVars, runtimeVars, taskVars, historyVars
<1> QED  BY <1>1, <1>2, <1>3, <1>4, <1>5 DEF Next, Quiescent

(* What a turn ended with stays known until its end has been announced.      *)
LEMMA ResultStep ==
  ASSUME TypeOK, ResultKnown, [Next]_vars
  PROVE  ResultKnown'
<1> DEFINE After == {"returned", "cleared", "completing", "completed"}
           ExecOK == exec.pc \in {"finalizing", "ending", "closing"} => exec.status \in Terminal
           TaskOK == \A t \in TurnReqs : task[t].pc \in After => task[t].status \in Terminal
<1>a. ExecOK /\ TaskOK /\ exec \in ExecState /\ task \in [TurnReqs -> TaskState]
  BY DEF ResultKnown, TypeOK
<1>b. ASSUME UNCHANGED exec, UNCHANGED task PROVE ResultKnown'
  BY <1>a, <1>b DEF ResultKnown
<1>c. ASSUME ExecOK', TaskOK' PROVE ResultKnown'
  BY <1>c DEF ResultKnown
<1>d. ASSUME NEW t, NEW p, task' = [task EXCEPT ![t].pc = p],
             p \in After => (t \in TurnReqs => task[t].pc \in After)
      PROVE  TaskOK'
  BY <1>a, <1>d DEF TaskState
<1>e. ASSUME UNCHANGED exec, TaskOK' PROVE ResultKnown'
  BY <1>a, <1>e DEF ResultKnown
<1>1. CASE \E r \in TurnReqs : Handler(r)
  <2>1. PICK r \in TurnReqs : Handler(r)
    BY <1>1
  <2>2. CASE RegisterAndSpawn(r)
    BY <1>d, <1>e, <2>2 DEF RegisterAndSpawn, actorVars
  <2> QED  BY <1>b, <2>1, <2>2 DEF Handler, ReadReservation, ReadCachedReservation, QueueInput,
                RefuseActive, Begin, SendPersist, SendRollback, AnnounceShell, RegisterToken,
                AttachAndReply, actorVars
<1>2. CASE \E t \in TurnReqs : TurnTask(t)
  <2>1. PICK t \in TurnReqs : TurnTask(t)
    BY <1>2
  <2>2. UNCHANGED exec
    BY <2>1 DEF TurnTask, SendExecute, ShellAskContext, ShellRun, ShellReturns,
                ShellClearHandles, ShellSendComplete, ShellEmitTerminal, actorVars
  <2>3. CASE SendExecute(t) \/ ShellAskContext(t) \/ ShellEmitTerminal(t)
    BY <1>d, <1>e, <2>2, <2>3 DEF SendExecute, ShellAskContext, ShellEmitTerminal
  <2>4. CASE ShellRun(t)
    BY <1>a, <1>e, <2>2, <2>4 DEF ShellRun, TaskState
  <2>5. CASE ShellReturns(t)
    BY <1>a, <1>e, <2>2, <2>5 DEF ShellReturns, TaskState, Terminal
  <2>6. CASE ShellClearHandles(t) \/ ShellSendComplete(t)
    BY <1>d, <1>e, <2>2, <2>6 DEF ShellClearHandles, ShellSendComplete
  <2> QED  BY <2>1, <2>3, <2>4, <2>5, <2>6 DEF TurnTask
<1>3. CASE \E c \in Chainers : Followup(c)
  BY <1>b, <1>3 DEF Followup, SendPop, SendPrepare, SendActivate, SendFollowup
<1>4. CASE \E i \in InterruptReqs : Interrupter(i)
  <2>1. PICK i \in InterruptReqs : Interrupter(i)
    BY <1>4
  <2>2. CASE AbortTask(i)
    <3>1. UNCHANGED exec
      BY <2>2 DEF AbortTask, actorVars
    <3>2. CASE registry.abort = NoTurn
      BY <1>b, <2>2, <3>1, <3>2 DEF AbortTask
    <3>3. CASE registry.abort # NoTurn
      <4>1. task' = [task EXCEPT ![registry.abort].pc = Aborted(registry.abort, @)]
        BY <2>2, <3>3 DEF AbortTask
      <4>2. \A t \in TurnReqs :
              task'[t] = task[t] \/ task'[t] = [task[t] EXCEPT !.pc = Aborted(t, task[t].pc)]
        BY <1>a, <4>1
      <4>3. \A t \in TurnReqs : Aborted(t, task[t].pc) \in After => task[t].pc \in After
        BY DEF Aborted
      <4>4. ASSUME NEW t \in TurnReqs, task'[t].pc \in After PROVE task'[t].status \in Terminal
        <5>1. task[t] \in TaskState
          BY <1>a
        <5>2. task'[t].status = task[t].status
          BY <4>2, <5>1 DEF TaskState
        <5>3. task'[t].pc = task[t].pc \/ task'[t].pc = Aborted(t, task[t].pc)
          BY <4>2, <5>1 DEF TaskState
        <5> QED  BY <1>a, <4>3, <4>4, <5>2, <5>3
      <4>5. TaskOK'
        BY <4>4
      <4> QED  BY <1>e, <3>1, <4>5
    <3> QED  BY <3>2, <3>3
  <2> QED  BY <1>b, <2>1, <2>2 DEF Interrupter, CheckTarget, RecheckRecent, CancelToken,
                SendInterrupt, ClearClaimed, FinishClaimed, HearTerminal, WaitTimesOut, actorVars
<1>5. CASE Actor \/ QueryReturns
  <2>1. CASE ActorContext
    <3>1. UNCHANGED exec
      BY <2>1 DEF ActorContext
    <3>2. PICK p : /\ task' = [task EXCEPT ![Cur.turn].pc = p]
                   /\ p = IF task[Cur.turn].pc = "preparing" THEN "prepared"
                          ELSE task[Cur.turn].pc
      BY <2>1 DEF ActorContext
    <3> QED  BY <1>d, <1>e, <3>1, <3>2
  <2>2. CASE ActorCompleteShell
    <3>1. UNCHANGED exec
      BY <2>2 DEF ActorCompleteShell
    <3>2. PICK p : /\ task' = [task EXCEPT ![Cur.turn].pc = p]
                   /\ p = IF task[Cur.turn].pc = "completing" THEN "completed"
                          ELSE task[Cur.turn].pc
      BY <2>2 DEF ActorCompleteShell
    <3> QED  BY <1>d, <1>e, <3>1, <3>2
  <2>3. CASE ActorExecute \/ StartQuery \/ QueryCancelled \/ QueryReturns
             \/ ClearInterruptHandles \/ PersistAndEmitTerminal \/ CloseTurn
    <3>1. UNCHANGED task
      BY <2>3 DEF ActorExecute, StartQuery, QueryCancelled, QueryReturns,
                  ClearInterruptHandles, PersistAndEmitTerminal, CloseTurn, taskVars
    <3>2. ExecOK'
      <4>1. CASE ActorExecute \/ StartQuery \/ CloseTurn
        <5>1. ActorExecute => exec'.pc = "starting"
          BY DEF ActorExecute
        <5>2. StartQuery => exec'.pc = "querying"
          BY <1>a DEF StartQuery, ExecState
        <5>3. CloseTurn => exec'.pc = "idle"
          BY <1>a DEF CloseTurn, ExecState
        <5> QED  BY <4>1, <5>1, <5>2, <5>3
      <4>2. CASE QueryCancelled \/ QueryReturns
        <5>1. PICK s \in Terminal : exec' = [exec EXCEPT !.pc = "finalizing", !.status = s]
          BY <4>2 DEF QueryCancelled, QueryReturns, Terminal
        <5> QED  BY <1>a, <5>1 DEF ExecState
      <4>3. CASE ClearInterruptHandles \/ PersistAndEmitTerminal
        <5>1. exec.status \in Terminal /\ exec'.status = exec.status
          BY <1>a, <4>3 DEF ClearInterruptHandles, PersistAndEmitTerminal, ExecState
        <5> QED  BY <5>1
      <4> QED  BY <2>3, <4>1, <4>2, <4>3
    <3>3. TaskOK'
      BY <1>a, <3>1
    <3> QED  BY <1>c, <3>2, <3>3
  <2> QED  BY <1>b, <1>5, <2>1, <2>2, <2>3 DEF Actor, ActorSnapshot, ActorSetActive, ActorPersist,
                ActorRollback, ActorEnqueue, ActorInterrupt, ActorPop, ActorPrepare, taskVars
<1>6. CASE UNCHANGED vars
  BY <1>b, <1>6 DEF vars, actorVars, taskVars
<1> QED  BY <1>1, <1>2, <1>3, <1>4, <1>5, <1>6 DEF Next, Quiescent

(* A step keeps TargetKnown when no handler forgets its target or returns to *)
(* its first step, and a command it sends for an interrupt has a target.     *)
LEMMA TargetFrame ==
  ASSUME TypeOK, TargetKnown,
         \A i \in InterruptReqs : intr[i].turn \in TurnReqs => intr'[i].turn \in TurnReqs,
         \A i \in InterruptReqs :
           IF intr'[i].pc = "new" THEN intr'[i].reply = "None" ELSE intr'[i].turn \in TurnReqs,
         \/ mailbox' = mailbox
         \/ mailbox # <<>> /\ mailbox' = Tail(mailbox)
         \/ \E c \in Command :
              /\ mailbox' = Append(mailbox, c)
              /\ c.by \in InterruptReqs /\ c.op \in {"interrupt", "persist"}
                   => intr'[c.by].turn \in TurnReqs
  PROVE  TargetKnown'
<1> DEFINE Good(c) == c.by \in InterruptReqs /\ c.op \in {"interrupt", "persist"}
                        => intr'[c.by].turn \in TurnReqs
<1>1. mailbox \in Seq(Command)
  BY DEF TypeOK
<1>2. \A n \in DOMAIN mailbox : Good(mailbox[n])
  BY DEF TargetKnown
<1>3. \A n \in DOMAIN mailbox' : Good(mailbox'[n])
  <2>1. CASE mailbox' = mailbox
    BY <1>2, <2>1
  <2>2. CASE mailbox # <<>> /\ mailbox' = Tail(mailbox)
    <3>1. \A n \in DOMAIN mailbox' : n + 1 \in DOMAIN mailbox /\ mailbox'[n] = mailbox[n + 1]
      BY <1>1, <2>2
    <3> QED  BY <1>2, <3>1
  <2>3. CASE \E c \in Command : mailbox' = Append(mailbox, c) /\ Good(c)
    <3>1. PICK c \in Command : mailbox' = Append(mailbox, c) /\ Good(c)
      BY <2>3
    <3>2. \A n \in DOMAIN mailbox' :
            mailbox'[n] = c \/ (n \in DOMAIN mailbox /\ mailbox'[n] = mailbox[n])
      BY <1>1, <3>1
    <3> QED  BY <1>2, <3>1, <3>2
  <2> QED  BY <2>1, <2>2, <2>3
<1> QED  BY <1>3 DEF TargetKnown

(* A step that leaves the interrupt handlers alone keeps TargetKnown unless  *)
(* it sends a command on behalf of one.                                      *)
LEMMA TargetSame ==
  ASSUME TypeOK, TargetKnown, UNCHANGED intr,
         \/ UNCHANGED mailbox
         \/ \E op \in Ops : Receive(op)
         \/ \E op \in Ops \ {"interrupt", "persist"}, by \in Chainers, t \in Turns :
              /\ op = "enqueue" => by \in StartReqs /\ t \in StartReqs
              /\ Send(Cmd(op, by, t))
         \/ \E by \in TurnReqs : Send(Cmd("persist", by, by))
  PROVE  TargetKnown'
<1>1. \A i \in InterruptReqs : intr[i].turn \in TurnReqs => intr'[i].turn \in TurnReqs
  OBVIOUS
<1>2. \A i \in InterruptReqs :
        IF intr'[i].pc = "new" THEN intr'[i].reply = "None" ELSE intr'[i].turn \in TurnReqs
  BY DEF TargetKnown
<1>3. CASE UNCHANGED mailbox
  BY <1>1, <1>2, <1>3, TargetFrame
<1>4. CASE \E op \in Ops : Receive(op)
  BY <1>1, <1>2, <1>4, TargetFrame DEF Receive
<1>5. CASE \E op \in Ops \ {"interrupt", "persist"}, by \in Chainers, t \in Turns :
             /\ op = "enqueue" => by \in StartReqs /\ t \in StartReqs
             /\ Send(Cmd(op, by, t))
  <2>1. PICK op \in Ops \ {"interrupt", "persist"}, by \in Chainers, t \in Turns :
             /\ op = "enqueue" => by \in StartReqs /\ t \in StartReqs
             /\ Send(Cmd(op, by, t))
    BY <1>5
  <2>2. Cmd(op, by, t) \in Command /\ Cmd(op, by, t).op = op
    BY <2>1 DEF Cmd, Command
  <2> QED  BY <1>1, <1>2, <2>1, <2>2, TargetFrame DEF Send
<1>6. CASE \E by \in TurnReqs : Send(Cmd("persist", by, by))
  <2>1. PICK by \in TurnReqs : Send(Cmd("persist", by, by))
    BY <1>6
  <2>2. Cmd("persist", by, by) \in Command /\ Cmd("persist", by, by).by = by
    BY <2>1 DEF Cmd, Command, Ops, Chainers, Turns
  <2>3. by \notin InterruptReqs
    BY RequestAssumption
  <2> QED  BY <1>1, <1>2, <2>1, <2>2, <2>3, TargetFrame DEF Send
<1> QED  BY <1>3, <1>4, <1>5, <1>6

(* No step makes an interrupt handler forget its target.                     *)
LEMMA TargetStep ==
  ASSUME TypeOK, TargetKnown, [Next]_vars
  PROVE  TargetKnown'
<1>a. Ops = {"snapshot", "begin", "persist", "rollback", "execute", "enqueue", "pop",
             "prepare", "activate", "interrupt", "context", "shellDone"}
  BY DEF Ops
<1>b. TurnReqs \subseteq Chainers /\ TurnReqs \subseteq Turns /\ NoTurn \in Turns
  BY DEF Chainers, Turns
<1>c. intr \in [InterruptReqs -> InterruptState]
  BY DEF TypeOK
<1>d. \A i \in InterruptReqs :
        IF intr[i].pc = "new" THEN intr[i].reply = "None" ELSE intr[i].turn \in TurnReqs
  BY DEF TargetKnown
<1>1. CASE \E r \in TurnReqs : Handler(r)
  <2>1. PICK r \in TurnReqs : Handler(r)
    BY <1>1
  <2>2. UNCHANGED intr
    BY <2>1 DEF Handler, ReadReservation, ReadCachedReservation, QueueInput, RefuseActive, Begin,
                SendPersist, SendRollback, AnnounceShell, RegisterToken, RegisterAndSpawn,
                AttachAndReply
  <2>3. CASE ReadReservation(r)
    <3>1. UNCHANGED mailbox \/ Send(Cmd("snapshot", r, NoTurn))
      BY <2>3 DEF ReadReservation
    <3> QED  BY <1>a, <1>b, <2>2, <3>1, TargetSame
  <2>4. CASE QueueInput(r)
    <3>1. r \in StartReqs /\ Send(Cmd("enqueue", r, r))
      BY <2>4 DEF QueueInput
    <3> QED  BY <1>a, <1>b, <2>2, <3>1, TargetSame
  <2>5. CASE Begin(r)
    <3>1. Send(Cmd("begin", r, r))
      BY <2>5 DEF Begin
    <3> QED  BY <1>a, <1>b, <2>2, <3>1, TargetSame
  <2>6. CASE SendPersist(r)
    <3>1. Send(Cmd("persist", r, r))
      BY <2>6 DEF SendPersist
    <3> QED  BY <2>2, <3>1, TargetSame
  <2>7. CASE SendRollback(r)
    <3>1. Send(Cmd("rollback", r, r))
      BY <2>7 DEF SendRollback
    <3> QED  BY <1>a, <1>b, <2>2, <3>1, TargetSame
  <2>8. CASE \/ ReadCachedReservation(r) \/ RefuseActive(r) \/ AnnounceShell(r)
             \/ RegisterToken(r) \/ RegisterAndSpawn(r) \/ AttachAndReply(r)
    <3>1. UNCHANGED mailbox
      BY <2>8 DEF ReadCachedReservation, RefuseActive, AnnounceShell, RegisterToken,
                  RegisterAndSpawn, AttachAndReply, actorVars
    <3> QED  BY <2>2, <3>1, TargetSame
  <2> QED  BY <2>1, <2>3, <2>4, <2>5, <2>6, <2>7, <2>8 DEF Handler
<1>2. CASE \E t \in TurnReqs : TurnTask(t)
  <2>1. PICK t \in TurnReqs : TurnTask(t)
    BY <1>2
  <2>2. UNCHANGED intr
    BY <2>1 DEF TurnTask, SendExecute, ShellAskContext, ShellRun, ShellReturns,
                ShellClearHandles, ShellSendComplete, ShellEmitTerminal
  <2>3. \/ UNCHANGED mailbox
        \/ \E op \in {"execute", "context", "shellDone"} : Send(Cmd(op, t, t))
    BY <2>1 DEF TurnTask, SendExecute, ShellAskContext, ShellRun, ShellReturns,
                ShellClearHandles, ShellSendComplete, ShellEmitTerminal, actorVars
  <2>4. {"execute", "context", "shellDone"} \subseteq Ops \ {"interrupt", "persist", "enqueue"}
    BY <1>a
  <2> QED  BY <1>b, <2>2, <2>3, <2>4, TargetSame
<1>3. CASE \E c \in Chainers : Followup(c)
  <2>1. PICK c \in Chainers : Followup(c)
    BY <1>3
  <2>2. UNCHANGED intr /\ chain[c].turn \in Turns
    BY <2>1 DEF Followup, SendPop, SendPrepare, SendActivate, SendFollowup, TypeOK, ChainState
  <2>3. \E op \in {"pop", "prepare", "activate", "execute"}, t \in Turns : Send(Cmd(op, c, t))
    BY <1>b, <2>1, <2>2 DEF Followup, SendPop, SendPrepare, SendActivate, SendFollowup
  <2>4. {"pop", "prepare", "activate", "execute"}
          \subseteq Ops \ {"interrupt", "persist", "enqueue"}
    BY <1>a
  <2> QED  BY <2>2, <2>3, <2>4, TargetSame
<1>4. CASE \E i \in InterruptReqs : Interrupter(i)
  <2>1. PICK i \in InterruptReqs : Interrupter(i)
    BY <1>4
  <2>2. CASE \E t \in TurnReqs : CheckTarget(i, t)
    <3>1. PICK t \in TurnReqs : CheckTarget(i, t)
      BY <2>2
    <3>2. /\ UNCHANGED mailbox
          /\ intr' = [intr EXCEPT ![i] = intr'[i]]
          /\ intr'[i].pc # "new" /\ intr'[i].turn = t
      <4>1. intr[i] \in InterruptState
        BY <1>c
      <4> QED  BY <1>c, <3>1, <4>1 DEF CheckTarget, InterruptState, actorVars
    <3> QED  BY <1>c, <1>d, <3>2, TargetFrame
  <2>3. CASE SendInterrupt(i)
    <3>1. /\ intr' = [intr EXCEPT ![i].pc = "claiming"] /\ intr[i].turn \in TurnReqs
          /\ Send(Cmd("interrupt", i, NoTurn))
      BY <1>d, <2>3 DEF SendInterrupt
    <3>2. Cmd("interrupt", i, NoTurn) \in Command /\ Cmd("interrupt", i, NoTurn).by = i
      BY <1>a, <1>b DEF Cmd, Command, Chainers
    <3>3. \A j \in InterruptReqs :
            /\ intr[j].turn \in TurnReqs => intr'[j].turn \in TurnReqs
            /\ IF intr'[j].pc = "new" THEN intr'[j].reply = "None" ELSE intr'[j].turn \in TurnReqs
      BY <1>c, <1>d, <3>1 DEF InterruptState
    <3> QED  BY <3>1, <3>2, <3>3, TargetFrame DEF Send
  <2>4. CASE ClearClaimed(i)
    <3>1. /\ intr' = [intr EXCEPT ![i].pc = "persisting"] /\ intr[i].turn \in TurnReqs
          /\ Send(Cmd("persist", i, intr[i].turn))
      BY <1>d, <2>4 DEF ClearClaimed
    <3>2. /\ Cmd("persist", i, intr[i].turn) \in Command
          /\ Cmd("persist", i, intr[i].turn).by = i
      BY <1>a, <1>b, <3>1 DEF Cmd, Command, Chainers
    <3>3. \A j \in InterruptReqs :
            /\ intr[j].turn \in TurnReqs => intr'[j].turn \in TurnReqs
            /\ IF intr'[j].pc = "new" THEN intr'[j].reply = "None" ELSE intr'[j].turn \in TurnReqs
      BY <1>c, <1>d, <3>1 DEF InterruptState
    <3> QED  BY <3>1, <3>2, <3>3, TargetFrame DEF Send
  <2>5. CASE \/ RecheckRecent(i) \/ CancelToken(i) \/ AbortTask(i) \/ FinishClaimed(i)
             \/ HearTerminal(i) \/ WaitTimesOut(i)
    <3>1. UNCHANGED mailbox /\ intr[i].turn \in TurnReqs
      BY <1>d, <2>5 DEF RecheckRecent, CancelToken, AbortTask, FinishClaimed, HearTerminal,
                        WaitTimesOut, actorVars
    <3>2. \/ \E p \in {"cancel", "abort", "claim"} : intr' = [intr EXCEPT ![i].pc = p]
          \/ \E a : intr' = [intr EXCEPT ![i].pc = "done", ![i].reply = a]
      BY <2>5 DEF RecheckRecent, CancelToken, AbortTask, FinishClaimed, HearTerminal,
                  WaitTimesOut, Answer
    <3>3. \A j \in InterruptReqs :
            /\ intr[j].turn \in TurnReqs => intr'[j].turn \in TurnReqs
            /\ IF intr'[j].pc = "new" THEN intr'[j].reply = "None" ELSE intr'[j].turn \in TurnReqs
      BY <1>c, <1>d, <3>1, <3>2 DEF InterruptState
    <3> QED  BY <3>1, <3>3, TargetFrame
  <2> QED  BY <2>1, <2>2, <2>3, <2>4, <2>5 DEF Interrupter
<1>5. CASE Actor \/ QueryReturns
  <2>1. CASE ActorPersist
    <3>1. /\ \E op \in Ops : Receive(op)
          /\ Cur \in Command /\ Cur.op = "persist" /\ Cur = mailbox[1] /\ 1 \in DOMAIN mailbox
      BY <1>a, <2>1, ReceiveType DEF ActorPersist, Receive, Cur, TypeOK
    <3>2. CASE UNCHANGED intr
      BY <3>1, <3>2, TargetSame
    <3>3. CASE \E p \in {"finish", "done"} : \E a :
                 intr' = [intr EXCEPT ![Cur.by].pc = p, ![Cur.by].reply = a]
      <4>1. Cur.by \in InterruptReqs => intr[Cur.by].turn \in TurnReqs
        BY <3>1 DEF TargetKnown
      <4>2. \A j \in InterruptReqs :
              /\ intr[j].turn \in TurnReqs => intr'[j].turn \in TurnReqs
              /\ IF intr'[j].pc = "new" THEN intr'[j].reply = "None"
                                        ELSE intr'[j].turn \in TurnReqs
        BY <1>c, <1>d, <3>3, <4>1 DEF InterruptState
      <4> QED  BY <3>1, <4>2, TargetFrame DEF Receive
    <3>4. \/ UNCHANGED intr
          \/ \E p \in {"finish", "done"} : \E a :
               intr' = [intr EXCEPT ![Cur.by].pc = p, ![Cur.by].reply = a]
      BY <2>1 DEF ActorPersist
    <3> QED  BY <3>2, <3>3, <3>4
  <2>2. CASE ActorInterrupt
    <3>1. /\ \E op \in Ops : Receive(op)
          /\ Cur \in Command /\ Cur.op = "interrupt" /\ Cur = mailbox[1] /\ 1 \in DOMAIN mailbox
      BY <1>a, <2>2, ReceiveType DEF ActorInterrupt, Receive, Cur, TypeOK
    <3>2. Cur.by \in InterruptReqs => intr[Cur.by].turn \in TurnReqs
      BY <3>1 DEF TargetKnown
    <3>3. Cur.by \in InterruptReqs =>
            intr'[Cur.by].turn = intr[Cur.by].turn /\ intr'[Cur.by].pc # "new"
      <4>1. Cur.by \in InterruptReqs => intr[Cur.by] \in InterruptState
        BY <1>c
      <4> QED  BY <1>c, <2>2, <4>1 DEF ActorInterrupt, InterruptState
    <3>4. \A j \in InterruptReqs \ {Cur.by} : intr'[j] = intr[j]
      BY <1>c, <2>2 DEF ActorInterrupt
    <3>5. \A j \in InterruptReqs :
            /\ intr[j].turn \in TurnReqs => intr'[j].turn \in TurnReqs
            /\ IF intr'[j].pc = "new" THEN intr'[j].reply = "None" ELSE intr'[j].turn \in TurnReqs
      BY <1>d, <3>2, <3>3, <3>4
    <3> QED  BY <3>1, <3>5, TargetFrame DEF Receive
  <2>3. CASE \/ StartQuery \/ QueryCancelled \/ QueryReturns \/ ClearInterruptHandles
             \/ PersistAndEmitTerminal \/ CloseTurn
    BY <2>3, TargetSame DEF StartQuery, QueryCancelled, QueryReturns, ClearInterruptHandles,
                            PersistAndEmitTerminal, CloseTurn, taskVars
  <2>4. CASE \/ ActorSnapshot \/ ActorSetActive \/ ActorRollback \/ ActorEnqueue \/ ActorContext
             \/ ActorCompleteShell \/ ActorPop \/ ActorPrepare \/ ActorExecute
    <3>1. UNCHANGED intr /\ \E op \in Ops : Receive(op)
      BY <1>a, <2>4 DEF ActorSnapshot, ActorSetActive, ActorRollback, ActorEnqueue, ActorContext,
                        ActorCompleteShell, ActorPop, ActorPrepare, ActorExecute, taskVars
    <3> QED  BY <3>1, TargetSame
  <2> QED  BY <1>5, <2>1, <2>2, <2>3, <2>4 DEF Actor
<1>6. CASE UNCHANGED vars
  BY <1>6, TargetSame DEF vars, actorVars, taskVars
<1> QED  BY <1>1, <1>2, <1>3, <1>4, <1>5, <1>6 DEF Next, Quiescent

(* Whatever the requests and however the tasks interleave, every variable    *)
(* keeps its type: no turn is finalized with the status of a running one,    *)
(* no command is sent for a handler that is not there to hear the reply.     *)
THEOREM TypeCorrect == Spec => []TypeOK
<1> DEFINE IInv == TypeOK /\ ResultKnown /\ TargetKnown
<1>1. Init => IInv
  BY InitType DEF Init, ResultKnown, TargetKnown
<1>2. IInv /\ [Next]_vars => IInv'
  BY StepType, ResultStep, TargetStep
<1> QED  BY <1>1, <1>2, PTL DEF Spec

-----------------------------------------------------------------------------
(* What was broadcast about a turn is never taken back.                      *)
LEMMA OutcomesGrow ==
  ASSUME TypeOK, [Next]_vars
  PROVE  \A t \in TurnReqs : Outcomes(t) \subseteq Outcomes(t)'
<1>a. ended \in [TurnReqs -> Seq(Terminal)]
  BY DEF TypeOK
<1>1. CASE UNCHANGED ended
  BY <1>1 DEF Outcomes
<1>2. CASE \E u, s : ended' = [ended EXCEPT ![u] = Append(@, s)]
  <2>1. PICK u, s : ended' = [ended EXCEPT ![u] = Append(@, s)]
    BY <1>2
  <2> SUFFICES ASSUME NEW t \in TurnReqs PROVE Outcomes(t) \subseteq Outcomes(t)'
    OBVIOUS
  <2>2. CASE t # u
    BY <1>a, <2>1, <2>2 DEF Outcomes
  <2>3. CASE t = u
    <3>1. ended'[t] = Append(ended[t], s) /\ ended[t] \in Seq(Terminal)
      BY <1>a, <2>1, <2>3
    <3>2. \A n \in DOMAIN ended[t] : n \in DOMAIN ended'[t] /\ ended'[t][n] = ended[t][n]
      BY <3>1
    <3> QED  BY <3>2 DEF Outcomes
  <2> QED  BY <2>2, <2>3
<1>3. UNCHANGED ended \/ \E u, s : ended' = [ended EXCEPT ![u] = Append(@, s)]
  <2>1. CASE Actor \/ QueryReturns
    BY <2>1 DEF Actor, ActorSnapshot, ActorSetActive, ActorPersist, ActorRollback, ActorEnqueue,
         ActorInterrupt, ActorContext, ActorCompleteShell, ActorPop, ActorPrepare, ActorExecute,
         StartQuery, QueryReturns, QueryCancelled, ClearInterruptHandles, PersistAndEmitTerminal,
         CloseTurn, historyVars
  <2>2. CASE \E r \in TurnReqs : Handler(r)
    BY <2>2 DEF Handler, ReadReservation, ReadCachedReservation, QueueInput, RefuseActive, Begin,
         SendPersist, SendRollback, AnnounceShell, RegisterToken, RegisterAndSpawn,
         AttachAndReply, historyVars
  <2>3. CASE \E t \in TurnReqs : TurnTask(t)
    BY <2>3 DEF TurnTask, SendExecute, ShellAskContext, ShellRun, ShellReturns,
         ShellClearHandles, ShellSendComplete, ShellEmitTerminal, historyVars
  <2>4. CASE \E c \in Chainers : Followup(c)
    BY <2>4 DEF Followup, SendPop, SendPrepare, SendActivate, SendFollowup, historyVars
  <2>5. CASE \E i \in InterruptReqs : Interrupter(i)
    BY <2>5 DEF Interrupter, CheckTarget, RecheckRecent, CancelToken, AbortTask, SendInterrupt,
         ClearClaimed, FinishClaimed, HearTerminal, WaitTimesOut, historyVars
  <2>6. CASE UNCHANGED vars
    BY <2>6 DEF vars, historyVars
  <2> QED  BY <2>1, <2>2, <2>3, <2>4, <2>5, <2>6 DEF Next, Quiescent
<1> QED  BY <1>1, <1>2, <1>3

(* The status appended last is an outcome.                                   *)
LEMMA AppendOutcome ==
  ASSUME TypeOK, NEW u \in TurnReqs, NEW s, ended' = [ended EXCEPT ![u] = Append(@, s)]
  PROVE  s \in Outcomes(u)'
<1>1. ended[u] \in Seq(Terminal) /\ ended'[u] = Append(ended[u], s)
  BY DEF TypeOK
<1>2. Len(ended[u]) + 1 \in DOMAIN ended'[u] /\ ended'[u][Len(ended[u]) + 1] = s
  BY <1>1
<1> QED  BY <1>2 DEF Outcomes

(* No step records a status that was not broadcast.                          *)
LEMMA RecordedStep ==
  ASSUME TypeOK, TargetKnown, RecordedHappened, [Next]_vars
  PROVE  RecordedHappened'
<1> DEFINE Recorded == \A t \in TurnReqs : recorded[t] # "None" => recorded[t] \in Outcomes(t)
           Closing == exec.pc = "closing" /\ exec.turn \in TurnReqs =>
                        exec.status \in Outcomes(exec.turn)
<1>a. \A t \in TurnReqs : Outcomes(t) \subseteq Outcomes(t)'
  BY OutcomesGrow
<1>b. Recorded /\ Closing /\ exec \in ExecState
      /\ recorded \in [TurnReqs -> Terminal \cup {"None"}]
  BY DEF RecordedHappened, TypeOK
<1>c. ASSUME UNCHANGED recorded PROVE Recorded'
  BY <1>a, <1>b, <1>c
<1>d. ASSUME UNCHANGED exec \/ exec'.pc # "closing" PROVE Closing'
  BY <1>a, <1>b, <1>d
<1>1. CASE CloseTurn
  <2>1. exec'.pc # "closing"
    BY <1>1, <1>b DEF CloseTurn, ExecState
  <2>2. recorded' = [recorded EXCEPT ![exec.turn] = exec.status] /\ exec.pc = "closing"
    BY <1>1 DEF CloseTurn
  <2>3. Recorded'
    BY <1>a, <1>b, <2>2
  <2> QED  BY <1>d, <2>1, <2>3 DEF RecordedHappened
<1>2. CASE PersistAndEmitTerminal
  <2>1. /\ UNCHANGED recorded
        /\ exec'.turn = exec.turn /\ exec'.status = exec.status
        /\ ended' = [ended EXCEPT ![exec.turn] = Append(@, exec.status)]
    BY <1>2, <1>b DEF PersistAndEmitTerminal, runtimeVars, ExecState
  <2>2. Closing'
    BY <2>1, AppendOutcome
  <2> QED  BY <1>c, <2>1, <2>2 DEF RecordedHappened
<1>3. CASE \E i \in InterruptReqs : FinishClaimed(i)
  <2>1. PICK i \in InterruptReqs : FinishClaimed(i)
    BY <1>3
  <2>2. PICK u \in TurnReqs :
          /\ UNCHANGED exec
          /\ recorded' = [recorded EXCEPT ![u] = "Interrupted"]
          /\ ended' = [ended EXCEPT ![u] = Append(@, "Interrupted")]
    BY <2>1 DEF FinishClaimed, TargetKnown, actorVars
  <2>3. "Interrupted" \in Outcomes(u)'
    BY <2>2, AppendOutcome
  <2>4. Recorded'
    BY <1>a, <1>b, <2>2, <2>3
  <2> QED  BY <1>d, <2>2, <2>4 DEF RecordedHappened
<1>4. ASSUME UNCHANGED recorded, UNCHANGED exec \/ exec'.pc # "closing"
      PROVE  RecordedHappened'
  BY <1>c, <1>d, <1>4 DEF RecordedHappened
<1>5. CASE (Actor \/ QueryReturns) /\ ~CloseTurn /\ ~PersistAndEmitTerminal
  <2>1. CASE StartQuery \/ QueryReturns \/ QueryCancelled \/ ClearInterruptHandles
    BY <1>4, <1>b, <2>1 DEF StartQuery, QueryReturns, QueryCancelled, ClearInterruptHandles,
         ExecState, runtimeVars
  <2>2. CASE ActorExecute
    BY <1>4, <2>2 DEF ActorExecute
  <2> QED  BY <1>4, <1>5, <2>1, <2>2 DEF Actor, ActorSnapshot, ActorSetActive, ActorPersist,
         ActorRollback, ActorEnqueue, ActorInterrupt, ActorContext, ActorCompleteShell, ActorPop,
         ActorPrepare, runtimeVars
<1>6. CASE \E r \in TurnReqs : Handler(r)
  BY <1>4, <1>6 DEF Handler, ReadReservation, ReadCachedReservation, QueueInput, RefuseActive,
       Begin, SendPersist, SendRollback, AnnounceShell, RegisterToken, RegisterAndSpawn,
       AttachAndReply, runtimeVars, actorVars
<1>7. CASE \E t \in TurnReqs : TurnTask(t)
  BY <1>4, <1>7 DEF TurnTask, SendExecute, ShellAskContext, ShellRun, ShellReturns,
       ShellClearHandles, ShellSendComplete, ShellEmitTerminal, runtimeVars, actorVars
<1>8. CASE \E c \in Chainers : Followup(c)
  BY <1>4, <1>8 DEF Followup, SendPop, SendPrepare, SendActivate, SendFollowup, runtimeVars
<1>9. CASE (\E i \in InterruptReqs : Interrupter(i)) /\ ~(\E i \in InterruptReqs : FinishClaimed(i))
  BY <1>4, <1>9 DEF Interrupter, CheckTarget, RecheckRecent, CancelToken, AbortTask, SendInterrupt,
       ClearClaimed, HearTerminal, WaitTimesOut, runtimeVars, actorVars
<1>10. CASE UNCHANGED vars
  BY <1>4, <1>10 DEF vars, runtimeVars, actorVars
<1> QED  BY <1>1, <1>2, <1>3, <1>5, <1>6, <1>7, <1>8, <1>9, <1>10 DEF Next, Quiescent

(* No step makes an interrupt handler answer with a status that was not      *)
(* broadcast for the turn it was asked to interrupt.                         *)
LEMMA TruthStep ==
  ASSUME TypeOK, TargetKnown, RecordedHappened, InterruptTruthful, [Next]_vars
  PROVE  InterruptTruthful'
<1> DEFINE Truth(i) == intr[i].reply \in Terminal => intr[i].reply \in Outcomes(intr[i].turn)
<1>a. \A t \in TurnReqs : Outcomes(t) \subseteq Outcomes(t)'
  BY OutcomesGrow
<1>b. intr \in [InterruptReqs -> InterruptState]
  BY DEF TypeOK
<1>c. \A i \in InterruptReqs :
        /\ Truth(i)
        /\ IF intr[i].pc = "new" THEN intr[i].reply = "None" ELSE intr[i].turn \in TurnReqs
  BY DEF InterruptTruthful, TargetKnown
<1>d. "None" \notin Terminal /\ "TurnNotFound" \notin Terminal /\ "InternalError" \notin Terminal
  BY DEF Terminal
<1>e. ASSUME NEW i \in InterruptReqs,
             \/ intr'[i].reply \notin Terminal
             \/ intr'[i].reply = intr[i].reply /\ intr'[i].turn = intr[i].turn
      PROVE  Truth(i)'
  BY <1>a, <1>c, <1>d, <1>e
<1>f. ASSUME NEW i \in InterruptReqs, \A j \in InterruptReqs \ {i} : intr'[j] = intr[j], Truth(i)'
      PROVE  InterruptTruthful'
  BY <1>e, <1>f DEF InterruptTruthful
<1>g. ASSUME UNCHANGED intr PROVE InterruptTruthful'
  BY <1>e, <1>g DEF InterruptTruthful
<1>1. CASE \E i \in InterruptReqs : Interrupter(i)
  <2>1. PICK i \in InterruptReqs : Interrupter(i)
    BY <1>1
  <2>2. \A j \in InterruptReqs \ {i} : intr'[j] = intr[j]
    BY <1>b, <2>1 DEF Interrupter, CheckTarget, RecheckRecent, CancelToken, AbortTask,
         SendInterrupt, ClearClaimed, FinishClaimed, HearTerminal, WaitTimesOut, Answer
  <2>3. intr[i] \in InterruptState
    BY <1>b
  <2>4. ASSUME NEW t \in TurnReqs, intr'[i].turn = t, intr'[i].reply = recorded[t],
               UNCHANGED recorded
        PROVE  Truth(i)'
    <3>1. recorded[t] # "None" => recorded[t] \in Outcomes(t)'
      BY <1>a DEF RecordedHappened
    <3> QED  BY <1>d, <2>4, <3>1
  <2>5. CASE \E t \in TurnReqs : CheckTarget(i, t)
    <3>1. PICK t \in TurnReqs : CheckTarget(i, t)
      BY <2>5
    <3>2. intr[i].reply = "None" /\ UNCHANGED recorded
      BY <1>c, <3>1 DEF CheckTarget, runtimeVars
    <3>3. intr'[i].turn = t /\ intr'[i].reply \in {intr[i].reply, recorded[t], "TurnNotFound"}
      BY <1>b, <2>3, <3>1 DEF CheckTarget, InterruptState
    <3>4. Truth(i)'
      BY <1>d, <1>e, <2>4, <3>2, <3>3
    <3> QED  BY <1>f, <2>2, <3>4
  <2>6. CASE RecheckRecent(i) \/ HearTerminal(i)
    <3>1. intr[i].turn \in TurnReqs /\ UNCHANGED recorded
      BY <1>c, <2>6 DEF RecheckRecent, HearTerminal, runtimeVars
    <3>2. /\ intr'[i].turn = intr[i].turn
          /\ intr'[i].reply \in {intr[i].reply, recorded[intr[i].turn]}
      BY <1>b, <2>3, <2>6 DEF RecheckRecent, HearTerminal, Answer, InterruptState
    <3>3. Truth(i)'
      BY <1>e, <2>4, <3>1, <3>2
    <3> QED  BY <1>f, <2>2, <3>3
  <2>7. CASE CancelToken(i) \/ AbortTask(i) \/ SendInterrupt(i) \/ ClearClaimed(i)
    <3>1. \E p : intr' = [intr EXCEPT ![i].pc = p]
      BY <2>7 DEF CancelToken, AbortTask, SendInterrupt, ClearClaimed
    <3>2. intr'[i].reply = intr[i].reply /\ intr'[i].turn = intr[i].turn
      BY <1>b, <2>3, <3>1 DEF InterruptState
    <3> QED  BY <1>e, <1>f, <2>2, <3>2
  <2>8. CASE FinishClaimed(i)
    <3>1. intr[i].turn \in TurnReqs
      BY <1>c, <2>8 DEF FinishClaimed
    <3>2. intr'[i].turn = intr[i].turn /\ intr'[i].reply = "Interrupted"
      BY <1>b, <2>3, <2>8 DEF FinishClaimed, Answer, InterruptState
    <3>3. PICK u \in TurnReqs : /\ u = intr[i].turn
                               /\ ended' = [ended EXCEPT ![u] = Append(@, "Interrupted")]
      BY <2>8, <3>1 DEF FinishClaimed
    <3>4. "Interrupted" \in Outcomes(u)'
      BY <3>3, AppendOutcome
    <3>5. Truth(i)'
      BY <3>2, <3>3, <3>4
    <3> QED  BY <1>f, <2>2, <3>5
  <2>9. CASE WaitTimesOut(i)
    <3>1. intr'[i].reply = "TurnNotFound"
      BY <1>b, <2>3, <2>9 DEF WaitTimesOut, Answer, InterruptState
    <3> QED  BY <1>d, <1>e, <1>f, <2>2, <3>1
  <2> QED  BY <2>1, <2>5, <2>6, <2>7, <2>8, <2>9 DEF Interrupter
<1>2. CASE ActorPersist
  <2>1. \/ UNCHANGED intr
        \/ \E p : intr' = [intr EXCEPT ![Cur.by].pc = p, ![Cur.by].reply = intr[Cur.by].reply]
        \/ \E p : intr' = [intr EXCEPT ![Cur.by].pc = p, ![Cur.by].reply = "InternalError"]
    <3>1. PICK ok \in BOOLEAN :
            \/ UNCHANGED intr
            \/ intr' = [intr EXCEPT ![Cur.by].pc = IF ok THEN "finish" ELSE "done",
                                    ![Cur.by].reply = IF ok THEN @ ELSE "InternalError"]
      BY <1>2 DEF ActorPersist
    <3>2. CASE ok
      BY <3>1, <3>2
    <3>3. CASE ~ok
      BY <3>1, <3>3
    <3> QED  BY <3>2, <3>3
  <2>2. \A i \in InterruptReqs :
          \/ intr'[i].reply = "InternalError"
          \/ intr'[i].reply = intr[i].reply /\ intr'[i].turn = intr[i].turn
    <3> SUFFICES ASSUME NEW i \in InterruptReqs
                 PROVE  \/ intr'[i].reply = "InternalError"
                        \/ intr'[i].reply = intr[i].reply /\ intr'[i].turn = intr[i].turn
      OBVIOUS
    <3>1. intr[i] \in InterruptState
      BY <1>b
    <3>2. CASE i # Cur.by
      BY <1>b, <2>1, <3>2
    <3>3. CASE i = Cur.by
      <4>1. \/ intr'[i] = intr[i]
            \/ \E p, a : /\ intr'[i] = [[intr[i] EXCEPT !.pc = p] EXCEPT !.reply = a]
                         /\ a \in {intr[i].reply, "InternalError"}
        BY <1>b, <2>1, <3>3
      <4> QED  BY <3>1, <4>1 DEF InterruptState
    <3> QED  BY <3>2, <3>3
  <2> QED  BY <1>d, <1>e, <2>2 DEF InterruptTruthful
<1>3. CASE ActorInterrupt
  <2>1. \A i \in InterruptReqs \ {Cur.by} : intr'[i] = intr[i]
    BY <1>b, <1>3 DEF ActorInterrupt
  <2>2. Cur.by \in InterruptReqs =>
          \/ intr'[Cur.by].reply = "TurnNotFound"
          \/ intr'[Cur.by].reply = intr[Cur.by].reply /\ intr'[Cur.by].turn = intr[Cur.by].turn
    <3>1. Cur.by \in InterruptReqs => intr[Cur.by] \in InterruptState
      BY <1>b
    <3> QED  BY <1>b, <1>3, <3>1 DEF ActorInterrupt, InterruptState
  <2> QED  BY <1>d, <1>e, <2>1, <2>2 DEF InterruptTruthful
<1>4. CASE (Actor \/ QueryReturns) /\ ~ActorPersist /\ ~ActorInterrupt
  BY <1>g, <1>4 DEF Actor, ActorSnapshot, ActorSetActive, ActorRollback, ActorEnqueue, ActorContext,
       ActorCompleteShell, ActorPop, ActorPrepare, ActorExecute, StartQuery, QueryReturns,
       QueryCancelled, ClearInterruptHandles, PersistAndEmitTerminal, CloseTurn, taskVars
<1>5. CASE \E r \in TurnReqs : Handler(r) \/ TurnTask(r)
  BY <1>g, <1>5 DEF Handler, ReadReservation, ReadCachedReservation, QueueInput, RefuseActive,
       Begin, SendPersist, SendRollback, AnnounceShell, RegisterToken, RegisterAndSpawn,
       AttachAndReply, TurnTask, SendExecute, ShellAskContext, ShellRun, ShellReturns,
       ShellClearHandles, ShellSendComplete, ShellEmitTerminal
<1>6. CASE \E c \in Chainers : Followup(c)
  BY <1>g, <1>6 DEF Followup, SendPop, SendPrepare, SendActivate, SendFollowup
<1>7. CASE UNCHANGED vars
  BY <1>g, <1>7 DEF vars, taskVars
<1> QED  BY <1>1, <1>2, <1>3, <1>4, <1>5, <1>6, <1>7 DEF Next, Quiescent

(* turn/interrupt tells the truth, concurrent starts, shell commands and     *)
(* failing rollout appends included: an interrupt that succeeds answers with *)
(* a terminal status that was broadcast for the very turn it names.          *)
THEOREM InterruptAnswersTruthfully == Spec => []InterruptTruthful
<1> DEFINE IInv == /\ TypeOK /\ ResultKnown /\ TargetKnown
                   /\ RecordedHappened /\ InterruptTruthful
<1>1. Init => IInv
  <2> SUFFICES ASSUME Init PROVE IInv  OBVIOUS
  <2>1. ResultKnown /\ TargetKnown /\ RecordedHappened
    BY DEF Init, ResultKnown, TargetKnown, RecordedHappened
  <2>2. InterruptTruthful
    BY DEF Init, InterruptTruthful, Terminal
  <2> QED  BY <2>1, <2>2, InitType
<1>2. IInv /\ [Next]_vars => IInv'
  BY StepType, ResultStep, TargetStep, RecordedStep, TruthStep
<1> QED  BY <1>1, <1>2, PTL DEF Spec

-----------------------------------------------------------------------------
(* Refused requests.                                                         *)

(* The errors a turn/start or turn/shell_command handler answers with.       *)
Refusals == {"TurnAlreadyRunning", "SessionNotFound", "InternalError"}

(* A handler's call for whose reply it waits.                                *)
HandlerCalls == {"snapshot", "persist", "rollback"}
AwaitedAt(op) == CASE op = "snapshot" -> "asked" [] op = "persist" -> "persisting" [] OTHER -> "undoing"
Awaiting == {"asked", "persisting", "undoing"}
Beginning == {"begun", "persisting"}
IsCall(m) == m.op \in HandlerCalls /\ m.by \in TurnReqs

(* A handler waits for the one call it has in the mailbox, and a begin is    *)
(* served before the calls its handler makes after it.                       *)
CallsAwaited ==
  /\ \A n \in DOMAIN mailbox : IsCall(mailbox[n]) => req[mailbox[n].by].pc = AwaitedAt(mailbox[n].op)
  /\ \A n, k \in DOMAIN mailbox :
       IsCall(mailbox[n]) /\ IsCall(mailbox[k]) /\ mailbox[n].by = mailbox[k].by => n = k
  /\ \A n \in DOMAIN mailbox : mailbox[n].op = "begin" =>
       /\ mailbox[n].turn \in TurnReqs /\ req[mailbox[n].turn].pc \in Beginning
       /\ \A k \in DOMAIN mailbox : IsCall(mailbox[k]) /\ mailbox[k].by = mailbox[n].turn => n < k
  /\ \A n \in DOMAIN mailbox : mailbox[n].op \in {"snapshot", "rollback"} => mailbox[n].by \in TurnReqs
  /\ \A n \in DOMAIN mailbox : mailbox[n].op = "rollback" => mailbox[n].turn = mailbox[n].by

(* The mailbox loses its first k commands, or gets one more.                 *)
Kept(k) == Len(mailbox') = Len(mailbox) - k /\ \A n \in 1..Len(mailbox') : mailbox'[n] = mailbox[n + k]
Sent(c) ==
  /\ Len(mailbox') = Len(mailbox) + 1
  /\ mailbox'[Len(mailbox')] = c /\ \A n \in 1..Len(mailbox) : mailbox'[n] = mailbox[n]

(* The mailbox as a list of commands: what each kind of step does to it.    *)
LEMMA MailboxSteps ==
  ASSUME TypeOK, TypeOK'
  PROVE  /\ Len(mailbox) \in Nat /\ DOMAIN mailbox = 1..Len(mailbox)
         /\ Len(mailbox') \in Nat /\ DOMAIN mailbox' = 1..Len(mailbox')
         /\ UNCHANGED mailbox => Kept(0)
         /\ \A op : Receive(op) => Kept(1) /\ 1 \in DOMAIN mailbox /\ Cur = mailbox[1] /\ Cur.op = op
         /\ \A c : Send(c) => Sent(c)
<1>1. mailbox \in Seq(Command) /\ mailbox' \in Seq(Command)
  BY DEF TypeOK
<1>2. ASSUME NEW op, Receive(op) PROVE Kept(1) /\ 1 \in DOMAIN mailbox /\ Cur = mailbox[1] /\ Cur.op = op
  BY <1>1, <1>2 DEF Receive, Cur, Kept
<1>3. ASSUME NEW c, Send(c) PROVE Sent(c)
  <2>1. mailbox' = Append(mailbox, c)
    BY <1>3 DEF Send
  <2> QED
    BY <1>1, <2>1 DEF Sent
<1>4. UNCHANGED mailbox => Kept(0)
  BY <1>1 DEF Kept
<1> QED
  BY <1>1, <1>2, <1>3, <1>4

(* Where a command that stays in the mailbox was.                            *)
LEMMA KeptCommands ==
  ASSUME TypeOK, TypeOK', NEW k \in {0, 1}, Kept(k)
  PROVE  \A n \in DOMAIN mailbox' :
           n + k \in DOMAIN mailbox /\ n + k > k /\ mailbox'[n] = mailbox[n + k]
<1>1. /\ Len(mailbox) \in Nat /\ DOMAIN mailbox = 1..Len(mailbox)
      /\ Len(mailbox') \in Nat /\ DOMAIN mailbox' = 1..Len(mailbox')
  BY MailboxSteps
<1>2. Len(mailbox') = Len(mailbox) - k /\ \A n \in 1..Len(mailbox') : mailbox'[n] = mailbox[n + k]
  BY DEF Kept
<1>3. PICK a \in Nat, b \in Nat : a = Len(mailbox) /\ b = Len(mailbox')
  BY <1>1
<1>4. \A n \in 1..b : n + k \in 1..a /\ n + k > k
  <2>1. b = a - k
    BY <1>2, <1>3
  <2>2. CASE k = 0
    BY <2>1, <2>2
  <2>3. CASE k = 1
    BY <2>1, <2>3
  <2> QED
    BY <2>2, <2>3
<1> QED
  BY <1>1, <1>2, <1>3, <1>4

(* A command of the mailbox after one was sent was there or is that one.     *)
LEMMA SentCommands ==
  ASSUME TypeOK, TypeOK', NEW c, Sent(c)
  PROVE  \A n \in DOMAIN mailbox' :
           (n \in DOMAIN mailbox /\ mailbox'[n] = mailbox[n]) \/ (n = Len(mailbox') /\ mailbox'[n] = c)
<1> QED
  BY MailboxSteps DEF Sent

(* Commands that stay keep their callers waiting.                            *)
LEMMA CallsKept ==
  ASSUME TypeOK, TypeOK', CallsAwaited, NEW k \in {0, 1}, Kept(k),
         \A n \in DOMAIN mailbox : n > k =>
           /\ IsCall(mailbox[n]) => req'[mailbox[n].by].pc = req[mailbox[n].by].pc
           /\ mailbox[n].op = "begin" => req'[mailbox[n].turn].pc \in Beginning
  PROVE  CallsAwaited'
<1>1. \A n \in DOMAIN mailbox' : n + k \in DOMAIN mailbox /\ n + k > k /\ mailbox'[n] = mailbox[n + k]
  BY KeptCommands
<1>2. \A n \in DOMAIN mailbox' :
        IsCall(mailbox'[n]) => req'[mailbox'[n].by].pc = AwaitedAt(mailbox'[n].op)
  BY <1>1 DEF CallsAwaited
<1>3. ASSUME NEW n \in DOMAIN mailbox', NEW j \in DOMAIN mailbox',
             IsCall(mailbox'[n]) /\ IsCall(mailbox'[j]) /\ mailbox'[n].by = mailbox'[j].by
      PROVE  n = j
  <2>1. n + k = j + k
    BY <1>1, <1>3 DEF CallsAwaited
  <2> QED
    BY <2>1, MailboxSteps
<1>4. ASSUME NEW n \in DOMAIN mailbox', mailbox'[n].op = "begin"
      PROVE  /\ mailbox'[n].turn \in TurnReqs /\ req'[mailbox'[n].turn].pc \in Beginning
             /\ \A j \in DOMAIN mailbox' : IsCall(mailbox'[j]) /\ mailbox'[j].by = mailbox'[n].turn => n < j
  <2>1. ASSUME NEW j \in DOMAIN mailbox', IsCall(mailbox'[j]), mailbox'[j].by = mailbox'[n].turn PROVE n < j
    <3>1. n + k < j + k
      BY <1>1, <1>4, <2>1 DEF CallsAwaited
    <3> QED
      BY <3>1, MailboxSteps
  <2> QED
    BY <1>1, <1>4, <2>1 DEF CallsAwaited
<1>5. \A n \in DOMAIN mailbox' :
        /\ mailbox'[n].op \in {"snapshot", "rollback"} => mailbox'[n].by \in TurnReqs
        /\ mailbox'[n].op = "rollback" => mailbox'[n].turn = mailbox'[n].by
  BY <1>1 DEF CallsAwaited
<1> QED
  BY <1>2, <1>3, <1>4, <1>5 DEF CallsAwaited, IsCall

(* A command that is sent finds its caller without another call.            *)
LEMMA CallsSent ==
  ASSUME TypeOK, TypeOK', CallsAwaited, NEW c, Sent(c),
         \A n \in DOMAIN mailbox :
           /\ IsCall(mailbox[n]) => req'[mailbox[n].by].pc = req[mailbox[n].by].pc
           /\ mailbox[n].op = "begin" => req'[mailbox[n].turn].pc \in Beginning,
         IsCall(c) => req'[c.by].pc = AwaitedAt(c.op) /\ req[c.by].pc \notin Awaiting,
         c.op = "begin" => /\ c.turn \in TurnReqs /\ req'[c.turn].pc \in Beginning
                           /\ req[c.turn].pc \notin Awaiting,
         c.op \in {"snapshot", "rollback"} => c.by \in TurnReqs,
         c.op = "rollback" => c.turn = c.by
  PROVE  CallsAwaited'
<1> DEFINE e == Len(mailbox')
<1>1. \A n \in DOMAIN mailbox' :
        (n \in DOMAIN mailbox /\ mailbox'[n] = mailbox[n]) \/ (n = e /\ mailbox'[n] = c)
  BY SentCommands
<1>2. \A n \in DOMAIN mailbox : IsCall(mailbox[n]) => req[mailbox[n].by].pc \in Awaiting
  BY DEF CallsAwaited, AwaitedAt, Awaiting
<1>3. \A n \in DOMAIN mailbox' :
        IsCall(mailbox'[n]) => req'[mailbox'[n].by].pc = AwaitedAt(mailbox'[n].op)
  BY <1>1 DEF CallsAwaited
<1>4. ASSUME NEW n \in DOMAIN mailbox', NEW j \in DOMAIN mailbox',
             IsCall(mailbox'[n]) /\ IsCall(mailbox'[j]) /\ mailbox'[n].by = mailbox'[j].by
      PROVE  n = j
  <2>1. CASE mailbox'[n] = mailbox[n] /\ n \in DOMAIN mailbox /\ mailbox'[j] = mailbox[j] /\ j \in DOMAIN mailbox
    BY <1>4, <2>1 DEF CallsAwaited
  <2>2. CASE n = e /\ mailbox'[n] = c /\ mailbox'[j] = mailbox[j] /\ j \in DOMAIN mailbox
    BY <1>2, <1>4, <2>2
  <2>3. CASE j = e /\ mailbox'[j] = c /\ mailbox'[n] = mailbox[n] /\ n \in DOMAIN mailbox
    BY <1>2, <1>4, <2>3
  <2> QED
    BY <1>1, <2>1, <2>2, <2>3
<1>5. ASSUME NEW n \in DOMAIN mailbox', mailbox'[n].op = "begin"
      PROVE  /\ mailbox'[n].turn \in TurnReqs /\ req'[mailbox'[n].turn].pc \in Beginning
             /\ \A j \in DOMAIN mailbox' : IsCall(mailbox'[j]) /\ mailbox'[j].by = mailbox'[n].turn => n < j
  <2>1. mailbox'[n].turn \in TurnReqs /\ req'[mailbox'[n].turn].pc \in Beginning
    BY <1>1, <1>5 DEF CallsAwaited
  <2>2. ASSUME NEW j \in DOMAIN mailbox', IsCall(mailbox'[j]), mailbox'[j].by = mailbox'[n].turn PROVE n < j
    <3>1. CASE n \in DOMAIN mailbox /\ mailbox'[n] = mailbox[n] /\ j \in DOMAIN mailbox /\ mailbox'[j] = mailbox[j]
      BY <1>5, <2>2, <3>1 DEF CallsAwaited
    <3>2. CASE n = e /\ mailbox'[n] = c /\ mailbox'[j] = mailbox[j] /\ j \in DOMAIN mailbox
      BY <1>2, <1>5, <2>2, <3>2
    <3>3. CASE n \in DOMAIN mailbox /\ j = e
      BY <3>3, MailboxSteps DEF Sent
    <3>4. CASE n = e /\ j = e /\ mailbox'[n] = c
      BY <1>5, <2>2, <3>4 DEF IsCall, HandlerCalls
    <3> QED
      BY <1>1, <3>1, <3>2, <3>3, <3>4
  <2> QED
    BY <2>1, <2>2
<1>6. \A n \in DOMAIN mailbox' :
        /\ mailbox'[n].op \in {"snapshot", "rollback"} => mailbox'[n].by \in TurnReqs
        /\ mailbox'[n].op = "rollback" => mailbox'[n].turn = mailbox'[n].by
  BY <1>1 DEF CallsAwaited
<1> QED
  BY <1>3, <1>4, <1>5, <1>6 DEF CallsAwaited, IsCall

(* A request told nothing before its handler is done.                        *)
Untold == \A r \in TurnReqs : req[r].pc # "done" <=> req[r].reply = "None"

(* What a handler has come to: its input was queued; its turn has a task;    *)
(* its turn may be active; its turn may be announced.                        *)
IsQueued(t) == t \in StartReqs /\ req[t].reply = "Queued"
Spawned(t) == req[t].pc = "attach" \/ req[t].reply = "Started"
Begun(t) == Spawned(t) \/ req[t].pc \in
  {"begun", "persisting", "undo", "undoing", "announce", "token", "register"}
Shown(t) == Spawned(t) \/ req[t].pc \in {"token", "register"}

(* A handler goes on, and gives up a turn it began only when it is inactive. *)
Advances(r) ==
  \/ req'[r] = req[r]
  \/ /\ req[r].pc # "done"
     /\ req'[r].pc # "done" <=> req'[r].reply = "None"
     /\ Spawned(r) => req'[r].reply = "Started"
     /\ Shown(r) => req'[r].pc \in {"register", "attach"} \/ req'[r].reply = "Started"
     /\ \/ ~Begun(r) \/ active' # r \/ req'[r].reply = "Started"
        \/ req'[r].pc \in {"persisting", "undo", "undoing", "announce", "token", "register", "attach"}

(* All handlers advance when one does and the others stay.                  *)
LEMMA OneAdvances ==
  ASSUME NEW r, \A q \in TurnReqs \ {r} : req'[q] = req[q],
         r \in TurnReqs =>
           /\ req[r].pc # "done"
           /\ req'[r].pc # "done" <=> req'[r].reply = "None"
           /\ Spawned(r) => req'[r].reply = "Started"
           /\ Shown(r) => req'[r].pc \in {"register", "attach"} \/ req'[r].reply = "Started"
           /\ \/ ~Begun(r) \/ active' # r \/ req'[r].reply = "Started"
              \/ req'[r].pc \in {"persisting", "undo", "undoing", "announce", "token", "register", "attach"}
  PROVE  \A q \in TurnReqs : Advances(q)
<1> QED
  BY DEF Advances

(* A handler that moves by itself advances.                                 *)
LEMMA HandlerAdvances ==
  ASSUME TypeOK, Untold, NEW r \in TurnReqs, Handler(r)
  PROVE  \A q \in TurnReqs : Advances(q)
<1>1. /\ req \in [TurnReqs -> HandlerState] /\ req[r] \in HandlerState
      /\ req[r].pc # "done" <=> req[r].reply = "None"
  BY DEF TypeOK, Untold
<1>2. CASE ReadReservation(r)
  <2>1. /\ \A q \in TurnReqs \ {r} : req'[q] = req[q]
        /\ req'[r].pc \in {"cached", "asked"} /\ req'[r].reply = req[r].reply
    BY <1>1, <1>2 DEF ReadReservation, HandlerState
  <2> QED
    BY <1>1, <1>2, <2>1, OneAdvances DEF ReadReservation, Spawned, Begun, Shown
<1>3. CASE ReadCachedReservation(r)
  <2>1. /\ \A q \in TurnReqs \ {r} : req'[q] = req[q]
        /\ (req'[r].pc = "done" /\ req'[r].reply = "SessionNotFound") \/ (req'[r].pc = "admit" /\ req'[r].reply = req[r].reply)
    BY <1>1, <1>3 DEF ReadCachedReservation, HandlerState
  <2> QED
    BY <1>1, <1>3, <2>1, OneAdvances DEF ReadCachedReservation, Spawned, Begun, Shown
<1>4. CASE QueueInput(r) \/ RefuseActive(r)
  <2>1. /\ \A q \in TurnReqs \ {r} : req'[q] = req[q]
        /\ req'[r].pc = "done" /\ req'[r].reply \in {"Queued", "TurnAlreadyRunning"}
    BY <1>1, <1>4 DEF QueueInput, RefuseActive, HandlerState
  <2> QED
    BY <1>1, <1>4, <2>1, OneAdvances DEF QueueInput, RefuseActive, Spawned, Begun, Shown
<1>5. CASE Begin(r) \/ SendPersist(r) \/ SendRollback(r) \/ AnnounceShell(r)
  <2>1. /\ \A q \in TurnReqs \ {r} : req'[q] = req[q]
        /\ req'[r].reply = req[r].reply
        /\ req'[r].pc \in {"begun", "persisting", "undoing", "token"}
        /\ req'[r].pc = "begun" => req[r].pc = "admit"
    BY <1>1, <1>5 DEF Begin, SendPersist, SendRollback, AnnounceShell, HandlerState
  <2> QED
    BY <1>1, <1>5, <2>1, OneAdvances DEF Begin, SendPersist, SendRollback, AnnounceShell, Spawned, Begun, Shown
<1>6. CASE RegisterToken(r) \/ RegisterAndSpawn(r)
  <2>1. /\ \A q \in TurnReqs \ {r} : req'[q] = req[q]
        /\ req'[r].reply = req[r].reply
        /\ req'[r].pc \in {"register", "attach"}
    BY <1>1, <1>6 DEF RegisterToken, RegisterAndSpawn, HandlerState
  <2> QED
    BY <1>1, <1>6, <2>1, OneAdvances DEF RegisterToken, RegisterAndSpawn, Spawned, Begun, Shown
<1>7. CASE AttachAndReply(r)
  <2>1. /\ \A q \in TurnReqs \ {r} : req'[q] = req[q]
        /\ req'[r].reply = "Started" /\ req'[r].pc = "done"
    BY <1>1, <1>7 DEF AttachAndReply, HandlerState
  <2> QED
    BY <1>1, <1>7, <2>1, OneAdvances DEF AttachAndReply
<1> QED
  BY <1>2, <1>3, <1>4, <1>5, <1>6, <1>7 DEF Handler

(* A handler the actor answers advances.                                    *)
LEMMA ActorAdvances ==
  ASSUME TypeOK, TypeOK', CallsAwaited, Untold, Actor \/ QueryReturns
  PROVE  \A q \in TurnReqs : Advances(q)
<1>1. /\ req \in [TurnReqs -> HandlerState]
      /\ \A r \in TurnReqs : req[r] \in HandlerState /\ (req[r].pc # "done" <=> req[r].reply = "None")
  BY DEF TypeOK, Untold
<1>2. ASSUME NEW op \in {"snapshot", "persist", "rollback"}, Receive(op), Cur.by \in TurnReqs
      PROVE  req[Cur.by].pc = AwaitedAt(op)
  BY <1>2, MailboxSteps DEF CallsAwaited, IsCall, HandlerCalls
<1>3. CASE ActorSnapshot
  <2>1. PICK r : r = Cur.by
    OBVIOUS
  <2>2. /\ \A q \in TurnReqs \ {r} : req'[q] = req[q]
        /\ r \in TurnReqs => req'[r].reply = req[r].reply /\ req'[r].pc = "admit"
    BY <1>1, <1>3, <2>1 DEF ActorSnapshot, HandlerState
  <2>3. r \in TurnReqs => req[r].pc = "asked"
    BY <1>2, <1>3, <2>1 DEF ActorSnapshot, AwaitedAt
  <2> QED
    BY <1>1, <2>2, <2>3, OneAdvances DEF Spawned, Begun, Shown
<1>4. CASE ActorPersist
  <2>1. PICK r : r = Cur.by
    OBVIOUS
  <2>2. CASE r \notin TurnReqs
    BY <1>4, <2>1, <2>2 DEF ActorPersist, Advances
  <2>3. CASE r \in TurnReqs
    <3>1. \E p \in {"undo", "announce", "token"} : req' = [req EXCEPT ![r].pc = p]
      BY <1>4, <2>1, <2>3 DEF ActorPersist
    <3>2. (\A q \in TurnReqs \ {r} : req'[q] = req[q]) /\ req'[r].reply = req[r].reply /\ req'[r].pc \in {"undo", "announce", "token"}
      BY <1>1, <2>3, <3>1 DEF HandlerState
    <3>3. req[r].pc = "persisting"
      BY <1>2, <1>4, <2>1, <2>3 DEF ActorPersist, AwaitedAt
    <3> QED
      BY <1>1, <3>2, <3>3, OneAdvances DEF Spawned, Begun, Shown
  <2> QED
    BY <2>2, <2>3
<1>5. CASE ActorRollback
  <2>1. PICK r : r = Cur.by
    OBVIOUS
  <2>2. /\ \A q \in TurnReqs \ {r} : req'[q] = req[q]
        /\ r \in TurnReqs => req'[r].reply = "InternalError" /\ req'[r].pc = "done"
    BY <1>1, <1>5, <2>1 DEF ActorRollback, HandlerState
  <2>3. r \in TurnReqs => req[r].pc = "undoing"
    BY <1>2, <1>5, <2>1 DEF ActorRollback, AwaitedAt
  <2>4. Cur.turn = r
    BY <1>5, <2>1, MailboxSteps DEF ActorRollback, CallsAwaited
  <2>5. r \in TurnReqs => active' # r
    BY <1>5, <2>4, RequestAssumption DEF ActorRollback, TurnReqs
  <2> QED
    BY <1>1, <2>2, <2>3, <2>5, OneAdvances DEF Spawned, Begun, Shown
<1>6. CASE UNCHANGED req
  BY <1>6 DEF Advances
<1> QED
  BY <1>3, <1>4, <1>5, <1>6 DEF Actor, QueryReturns, ActorSetActive, ActorEnqueue, ActorInterrupt,
     ActorContext, ActorCompleteShell, ActorPop, ActorPrepare, ActorExecute, StartQuery, QueryCancelled,
     ClearInterruptHandles, PersistAndEmitTerminal, CloseTurn, taskVars

(* Every step lets the handlers advance: what a request has come to lasts.  *)
LEMMA StepsAdvance ==
  ASSUME TypeOK, TypeOK', CallsAwaited, Untold, [Next]_vars
  PROVE  /\ \A q \in TurnReqs : Advances(q)
         /\ Untold'
         /\ \A t \in TurnReqs : /\ IsQueued(t) => IsQueued(t)'
                                /\ Spawned(t) => Spawned(t)'
                                /\ Shown(t) => Shown(t)'
                                /\ Begun(t) => Begun(t)' \/ active' # t
<1>1. \A q \in TurnReqs : Advances(q)
  <2>1. CASE \E r \in TurnReqs : TurnTask(r)
    BY <2>1 DEF Advances, TurnTask, SendExecute, ShellAskContext, ShellRun, ShellReturns,
         ShellClearHandles, ShellSendComplete, ShellEmitTerminal
  <2>2. CASE \E c \in Chainers : Followup(c)
    BY <2>2 DEF Advances, Followup, SendPop, SendPrepare, SendActivate, SendFollowup
  <2>3. CASE \E i \in InterruptReqs : Interrupter(i)
    BY <2>3 DEF Advances, Interrupter, CheckTarget, RecheckRecent, CancelToken, AbortTask,
         SendInterrupt, ClearClaimed, FinishClaimed, HearTerminal, WaitTimesOut
  <2>4. CASE UNCHANGED vars
    BY <2>4 DEF Advances, vars, taskVars
  <2> QED
    BY <2>1, <2>2, <2>3, <2>4, HandlerAdvances, ActorAdvances DEF Next, Quiescent
<1>2. Untold'
  BY <1>1 DEF Untold, Advances
<1>3. ASSUME NEW t \in TurnReqs
      PROVE  /\ IsQueued(t) => IsQueued(t)'
             /\ Spawned(t) => Spawned(t)'
             /\ Shown(t) => Shown(t)'
             /\ Begun(t) => Begun(t)' \/ active' # t
  BY <1>1 DEF Untold, Advances, IsQueued, Spawned, Shown, Begun
<1> QED
  BY <1>1, <1>2, <1>3

(* Steps that leave the handlers alone and send no call of theirs.           *)
LEMMA CallsAside ==
  ASSUME TypeOK, TypeOK', CallsAwaited, UNCHANGED req,
         \/ UNCHANGED mailbox
         \/ \E op \in Ops : Receive(op)
         \/ \E c : Send(c) /\ ~IsCall(c) /\ c.op \notin {"begin", "snapshot", "rollback"}
  PROVE  CallsAwaited'
<1>1. \A n \in DOMAIN mailbox :
        /\ IsCall(mailbox[n]) => req'[mailbox[n].by].pc = req[mailbox[n].by].pc
        /\ mailbox[n].op = "begin" => req'[mailbox[n].turn].pc \in Beginning
  BY DEF CallsAwaited
<1>2. CASE UNCHANGED mailbox
  <2>1. Kept(0)
    BY <1>2, MailboxSteps
  <2> QED
    BY <1>1, <2>1, CallsKept
<1>3. CASE \E op \in Ops : Receive(op)
  <2>1. Kept(1)
    BY <1>3, MailboxSteps
  <2> QED
    BY <1>1, <2>1, CallsKept
<1>4. CASE \E c : Send(c) /\ ~IsCall(c) /\ c.op \notin {"begin", "snapshot", "rollback"}
  <2>1. PICK c : Sent(c) /\ ~IsCall(c) /\ c.op \notin {"begin", "snapshot", "rollback"}
    BY <1>4, MailboxSteps
  <2> QED
    BY <1>1, <2>1, CallsSent
<1> QED
  BY <1>2, <1>3, <1>4

(* A handler makes its calls one after the other.                           *)
LEMMA HandlerCallsStep ==
  ASSUME TypeOK, TypeOK', CallsAwaited, NEW r \in TurnReqs, Handler(r)
  PROVE  CallsAwaited'
<1>1. req \in [TurnReqs -> HandlerState]
  BY DEF TypeOK
<1>2. ASSUME \A q \in TurnReqs \ {r} : req'[q] = req[q], req[r].pc \notin Awaiting,
             req[r].pc \notin Beginning \/ req'[r].pc \in Beginning
      PROVE  \A n \in DOMAIN mailbox :
               /\ IsCall(mailbox[n]) => req'[mailbox[n].by].pc = req[mailbox[n].by].pc
               /\ mailbox[n].op = "begin" => req'[mailbox[n].turn].pc \in Beginning
  <2>1. \A n \in DOMAIN mailbox : IsCall(mailbox[n]) => mailbox[n].by \in TurnReqs /\ mailbox[n].by # r
    BY <1>2 DEF CallsAwaited, IsCall, AwaitedAt, Awaiting
  <2>2. \A n \in DOMAIN mailbox : mailbox[n].op = "begin" =>
          mailbox[n].turn \in TurnReqs /\ req[mailbox[n].turn].pc \in Beginning
    BY DEF CallsAwaited
  <2> QED
    BY <1>2, <2>1, <2>2
<1>3. CASE ReadReservation(r)
  <2>1. /\ \A q \in TurnReqs \ {r} : req'[q] = req[q]
        /\ req[r].pc \notin Awaiting /\ req[r].pc \notin Beginning
    BY <1>1, <1>3 DEF ReadReservation, Awaiting, Beginning
  <2>2. CASE UNCHANGED mailbox
    BY <1>2, <2>1, <2>2, CallsKept, MailboxSteps
  <2>3. CASE Send(Cmd("snapshot", r, NoTurn)) /\ req' = [req EXCEPT ![r].pc = "asked"]
    <3> DEFINE c == Cmd("snapshot", r, NoTurn)
    <3>1. Sent(c) /\ c.op = "snapshot" /\ c.by = r
      BY <2>3, MailboxSteps DEF Cmd
    <3>2. req'[r].pc = AwaitedAt("snapshot")
      BY <1>1, <2>3 DEF AwaitedAt, HandlerState
    <3> HIDE DEF c
    <3> QED
      BY <1>2, <2>1, <3>1, <3>2, CallsSent
  <2> QED
    BY <1>3, <2>2, <2>3 DEF ReadReservation
<1>4. CASE ReadCachedReservation(r) \/ RefuseActive(r) \/ AnnounceShell(r) \/ RegisterToken(r)
           \/ RegisterAndSpawn(r) \/ AttachAndReply(r)
  <2>1. /\ \A q \in TurnReqs \ {r} : req'[q] = req[q]
        /\ req[r].pc \notin Awaiting /\ req[r].pc \notin Beginning
        /\ UNCHANGED mailbox
    BY <1>1, <1>4 DEF ReadCachedReservation, RefuseActive, AnnounceShell, RegisterToken, RegisterAndSpawn,
         AttachAndReply, Awaiting, Beginning, actorVars
  <2> QED
    BY <1>2, <2>1, CallsKept, MailboxSteps
<1>5. CASE QueueInput(r)
  <2> DEFINE c == Cmd("enqueue", r, r)
  <2>1. /\ \A q \in TurnReqs \ {r} : req'[q] = req[q]
        /\ req[r].pc \notin Awaiting /\ req[r].pc \notin Beginning
    BY <1>1, <1>5 DEF QueueInput, Awaiting, Beginning
  <2>2. Sent(c) /\ c.op = "enqueue"
    BY <1>5, MailboxSteps DEF Cmd, QueueInput
  <2> HIDE DEF c
  <2> QED
    BY <1>2, <2>1, <2>2, CallsSent DEF IsCall, HandlerCalls
<1>6. CASE Begin(r)
  <2> DEFINE c == Cmd("begin", r, r)
  <2>1. /\ \A q \in TurnReqs \ {r} : req'[q] = req[q]
        /\ req[r].pc \notin Awaiting /\ req[r].pc \notin Beginning /\ req'[r].pc \in Beginning
    BY <1>1, <1>6 DEF Begin, Awaiting, Beginning, HandlerState
  <2>2. Sent(c) /\ c.op = "begin" /\ c.turn = r
    BY <1>6, MailboxSteps DEF Cmd, Begin
  <2> HIDE DEF c
  <2> QED
    BY <1>2, <2>1, <2>2, CallsSent DEF IsCall, HandlerCalls
<1>7. CASE SendPersist(r)
  <2> DEFINE c == Cmd("persist", r, r)
  <2>1. /\ \A q \in TurnReqs \ {r} : req'[q] = req[q]
        /\ req[r].pc \notin Awaiting /\ req'[r].pc \in Beginning
        /\ req'[r].pc = AwaitedAt("persist")
    BY <1>1, <1>7 DEF SendPersist, Awaiting, Beginning, HandlerState, AwaitedAt
  <2>2. Sent(c) /\ c.op = "persist" /\ c.by = r
    BY <1>7, MailboxSteps DEF Cmd, SendPersist
  <2> HIDE DEF c
  <2> QED
    BY <1>2, <2>1, <2>2, CallsSent
<1>8. CASE SendRollback(r)
  <2> DEFINE c == Cmd("rollback", r, r)
  <2>1. /\ \A q \in TurnReqs \ {r} : req'[q] = req[q]
        /\ req[r].pc \notin Awaiting /\ req[r].pc \notin Beginning
        /\ req'[r].pc = AwaitedAt("rollback")
    BY <1>1, <1>8 DEF SendRollback, Awaiting, Beginning, HandlerState, AwaitedAt
  <2>2. Sent(c) /\ c.op = "rollback" /\ c.by = r /\ c.turn = r
    BY <1>8, MailboxSteps DEF Cmd, SendRollback
  <2> HIDE DEF c
  <2> QED
    BY <1>2, <2>1, <2>2, CallsSent
<1> QED
  BY <1>3, <1>4, <1>5, <1>6, <1>7, <1>8 DEF Handler

(* The actor answers a call that is no longer in the mailbox.               *)
LEMMA AnswerCallsStep ==
  ASSUME TypeOK, TypeOK', CallsAwaited, ActorSnapshot \/ ActorPersist \/ ActorRollback
  PROVE  CallsAwaited'
<1>1. req \in [TurnReqs -> HandlerState]
  BY DEF TypeOK
<1>2. \/ Receive("snapshot") \/ Receive("persist") \/ Receive("rollback")
  BY DEF ActorSnapshot, ActorPersist, ActorRollback
<1>3. Kept(1) /\ 1 \in DOMAIN mailbox /\ Cur = mailbox[1] /\ Cur.op \in HandlerCalls
  BY <1>2, MailboxSteps DEF HandlerCalls
<1>4. \A q \in TurnReqs \ {Cur.by} : req'[q] = req[q]
  <2>1. CASE ActorPersist
    <3>1. UNCHANGED req \/ \E p : req' = [req EXCEPT ![Cur.by].pc = p]
      BY <2>1 DEF ActorPersist
    <3> QED
      BY <1>1, <3>1
  <2> QED
    BY <1>1, <2>1 DEF ActorSnapshot, ActorRollback
<1>5. CASE Cur.by \in TurnReqs
  <2>1. IsCall(mailbox[1])
    BY <1>3, <1>5 DEF IsCall
  <2>2. \A n \in DOMAIN mailbox : n > 1 =>
          /\ IsCall(mailbox[n]) => mailbox[n].by \in TurnReqs \ {Cur.by}
          /\ mailbox[n].op = "begin" => mailbox[n].turn \in TurnReqs \ {Cur.by}
    BY <1>3, <2>1, MailboxSteps DEF CallsAwaited, IsCall
  <2>3. \A n \in DOMAIN mailbox : mailbox[n].op = "begin" => req[mailbox[n].turn].pc \in Beginning
    BY DEF CallsAwaited
  <2> QED
    BY <1>3, <1>4, <2>2, <2>3, CallsKept
<1>6. CASE Cur.by \notin TurnReqs
  <2>1. \A n \in DOMAIN mailbox : IsCall(mailbox[n]) => mailbox[n].by \in TurnReqs \ {Cur.by}
    BY <1>6 DEF IsCall
  <2>2. \A n \in DOMAIN mailbox : mailbox[n].op = "begin" => mailbox[n].turn \in TurnReqs \ {Cur.by}
    BY <1>6 DEF CallsAwaited
  <2>3. \A n \in DOMAIN mailbox : mailbox[n].op = "begin" => req[mailbox[n].turn].pc \in Beginning
    BY DEF CallsAwaited
  <2> QED
    BY <1>3, <1>4, <2>1, <2>2, <2>3, CallsKept
<1> QED
  BY <1>5, <1>6

(* Every step keeps callers and calls together.                             *)
LEMMA CallsStep ==
  ASSUME TypeOK, TypeOK', CallsAwaited, [Next]_vars
  PROVE  CallsAwaited'
<1>1. CASE UNCHANGED <<mailbox, req>>
  BY <1>1, CallsAside
<1>2. ASSUME NEW op \in Ops, NEW by, NEW t, Send(Cmd(op, by, t)), UNCHANGED req,
             op \notin {"begin", "snapshot", "rollback"}, op = "persist" => by \notin TurnReqs
      PROVE  CallsAwaited'
  <2>1. Cmd(op, by, t).op = op /\ Cmd(op, by, t).by = by
    BY DEF Cmd
  <2>2. ~IsCall(Cmd(op, by, t))
    BY <1>2, <2>1 DEF IsCall, HandlerCalls
  <2> QED
    BY <1>2, <2>1, <2>2, CallsAside
<1>3. CASE Actor /\ UNCHANGED req
  <2>1. UNCHANGED mailbox \/ \E op \in Ops : Receive(op)
    <3>1. CASE StartQuery \/ QueryCancelled \/ ClearInterruptHandles \/ PersistAndEmitTerminal \/ CloseTurn
      BY <3>1 DEF StartQuery, QueryCancelled, ClearInterruptHandles, PersistAndEmitTerminal, CloseTurn
    <3>2. CASE ~(StartQuery \/ QueryCancelled \/ ClearInterruptHandles \/ PersistAndEmitTerminal \/ CloseTurn)
      BY <1>3, <3>2 DEF Actor, ActorSnapshot, ActorSetActive, ActorPersist, ActorRollback, ActorEnqueue,
           ActorInterrupt, ActorContext, ActorCompleteShell, ActorPop, ActorPrepare, ActorExecute, Ops
    <3> QED
      BY <3>1, <3>2
  <2> QED
    BY <1>3, <2>1, CallsAside
<1>4. CASE Actor /\ ~UNCHANGED req
  <2>1. ActorSnapshot \/ ActorPersist \/ ActorRollback
    BY <1>4 DEF Actor, ActorSetActive, ActorEnqueue, ActorInterrupt, ActorContext, ActorCompleteShell,
         ActorPop, ActorPrepare, ActorExecute, StartQuery, QueryCancelled, ClearInterruptHandles,
         PersistAndEmitTerminal, CloseTurn, taskVars
  <2> QED
    BY <2>1, AnswerCallsStep
<1>5. CASE QueryReturns \/ UNCHANGED vars
  BY <1>1, <1>5 DEF QueryReturns, vars, actorVars, taskVars
<1>6. CASE \E t \in TurnReqs : TurnTask(t)
  <2>1. PICK t \in TurnReqs : TurnTask(t)
    BY <1>6
  <2>2. /\ UNCHANGED req
        /\ UNCHANGED mailbox \/ \E op \in {"execute", "context", "shellDone"} : Send(Cmd(op, t, t))
    BY <2>1 DEF TurnTask, SendExecute, ShellAskContext, ShellRun, ShellReturns, ShellClearHandles,
         ShellSendComplete, ShellEmitTerminal, actorVars
  <2> QED
    BY <1>1, <1>2, <2>2 DEF Ops
<1>7. CASE \E c \in Chainers : Followup(c)
  <2>1. /\ UNCHANGED req
        /\ \E by, t : \E op \in {"pop", "prepare", "activate", "execute"} : Send(Cmd(op, by, t))
    BY <1>7 DEF Followup, SendPop, SendPrepare, SendActivate, SendFollowup
  <2> QED
    BY <1>2, <2>1 DEF Ops
<1>8. CASE \E i \in InterruptReqs : Interrupter(i)
  <2>1. PICK i \in InterruptReqs : Interrupter(i)
    BY <1>8
  <2>2. /\ UNCHANGED req
        /\ UNCHANGED mailbox \/ \E t : \E op \in {"interrupt", "persist"} : Send(Cmd(op, i, t))
    BY <2>1 DEF Interrupter, CheckTarget, RecheckRecent, CancelToken, AbortTask, SendInterrupt,
         ClearClaimed, FinishClaimed, HearTerminal, WaitTimesOut, actorVars
  <2>3. i \notin TurnReqs
    BY RequestAssumption
  <2> QED
    BY <1>1, <1>2, <2>2, <2>3 DEF Ops
<1> QED
  BY <1>3, <1>4, <1>5, <1>6, <1>7, <1>8, HandlerCallsStep DEF Next, Quiescent

(* Every input in the queue, or on its way through it, was answered Queued.  *)
QueuedOnes ==
  /\ \A n \in DOMAIN mailbox : mailbox[n].op \in {"enqueue", "activate"} => IsQueued(mailbox[n].turn)
  /\ \A n \in DOMAIN mailbox : mailbox[n].op = "prepare" => chain[mailbox[n].by].turn # NoTurn
  /\ \A n \in DOMAIN queue : IsQueued(queue[n])
  /\ \A c \in Chainers :
       IF chain[c].turn = NoTurn THEN chain[c].pc \in {"off", "pop", "popping", "done"}
                                 ELSE IsQueued(chain[c].turn)

(* Whatever has a task, is registered, is executed or is active was queued   *)
(* or begun.                                                                 *)
RunningOnes ==
  /\ \A t \in TurnReqs : task[t].pc # "none" => Spawned(t)
  /\ registry.turn # NoTurn => Spawned(registry.turn)
  /\ \A n \in DOMAIN mailbox : mailbox[n].op = "execute" =>
       mailbox[n].turn \in TurnReqs /\ (IsQueued(mailbox[n].turn) \/ Spawned(mailbox[n].turn))
  /\ exec.pc # "idle" => exec.turn \in TurnReqs
  /\ exec.turn # NoTurn => IsQueued(exec.turn) \/ Spawned(exec.turn)
  /\ active # NoTurn => IsQueued(active) \/ Begun(active)

(* Whatever was announced, interrupted or ended was queued or shown.         *)
SeenOnes ==
  /\ \A t \in announced : t \in TurnReqs /\ (IsQueued(t) \/ Shown(t))
  /\ \A i \in InterruptReqs : intr[i].pc # "new" => intr[i].turn \in announced
  /\ \A n \in DOMAIN mailbox : mailbox[n].by \in InterruptReqs /\ mailbox[n].op \in {"interrupt", "persist"}
       => intr[mailbox[n].by].turn \in announced
  /\ \A t \in TurnReqs : ended[t] # <<>> => IsQueued(t) \/ Shown(t)

(* Where a command in the mailbox after a step comes from.                   *)
From(m) ==
  \/ \E k \in DOMAIN mailbox : m = mailbox[k]
  \/ m.op \notin {"enqueue", "activate", "prepare", "execute", "interrupt", "persist"}
  \/ m.op = "enqueue" /\ \E r \in TurnReqs : QueueInput(r) /\ m.turn = r
  \/ m.op = "execute" /\ \E t \in TurnReqs : SendExecute(t) /\ m.turn = t
  \/ m.op \in {"activate", "prepare", "execute"} /\ \E c \in Chainers :
       Followup(c) /\ chain[c].pc \notin {"off", "pop", "popping", "done"} /\ m.by = c /\ m.turn \in {NoTurn, chain[c].turn}
       /\ (m.turn = NoTurn => m.op = "prepare" \/ chain[c].turn = NoTurn)
  \/ m.op = "persist" /\ m.by \in TurnReqs
  \/ m.op \in {"interrupt", "persist"} /\ m.by \in InterruptReqs /\ intr[m.by].pc # "new"

(* Every command after a step was there before or is sent by a known task.  *)
LEMMA CommandsFrom ==
  ASSUME TypeOK, TypeOK', [Next]_vars
  PROVE  \A n \in DOMAIN mailbox' : From(mailbox'[n])
<1>1. ASSUME UNCHANGED mailbox PROVE \A n \in DOMAIN mailbox' : From(mailbox'[n])
  BY <1>1 DEF From
<1>2. ASSUME NEW op, Receive(op) PROVE \A n \in DOMAIN mailbox' : From(mailbox'[n])
  <2>1. Kept(1)
    BY <1>2, MailboxSteps
  <2> QED
    BY <2>1, KeptCommands DEF From
<1>3. ASSUME NEW op, NEW by, NEW t, Send(Cmd(op, by, t)),
             ASSUME NEW m, m.op = op, m.by = by, m.turn = t PROVE From(m)
      PROVE \A n \in DOMAIN mailbox' : From(mailbox'[n])
  <2>1. PICK c : c = Cmd(op, by, t)
    OBVIOUS
  <2>2. c.op = op /\ c.by = by /\ c.turn = t /\ Sent(c)
    BY <1>3, <2>1, MailboxSteps DEF Cmd
  <2>3. From(c)
    BY <1>3, <2>2
  <2> QED
    BY <2>2, <2>3, SentCommands DEF From
<1>4. CASE Actor
  <2>1. CASE StartQuery \/ QueryCancelled \/ ClearInterruptHandles \/ PersistAndEmitTerminal \/ CloseTurn
    BY <1>1, <2>1 DEF StartQuery, QueryCancelled, ClearInterruptHandles, PersistAndEmitTerminal, CloseTurn
  <2>2. CASE ~(StartQuery \/ QueryCancelled \/ ClearInterruptHandles \/ PersistAndEmitTerminal \/ CloseTurn)
    BY <1>2, <1>4, <2>2 DEF Actor, ActorSnapshot, ActorSetActive, ActorPersist, ActorRollback, ActorEnqueue,
         ActorInterrupt, ActorContext, ActorCompleteShell, ActorPop, ActorPrepare, ActorExecute
  <2> QED
    BY <2>1, <2>2
<1>5. CASE QueryReturns \/ UNCHANGED vars
  BY <1>1, <1>5 DEF QueryReturns, vars, actorVars
<1>6. CASE \E r \in TurnReqs : Handler(r)
  <2>1. PICK r \in TurnReqs : Handler(r)
    BY <1>6
  <2>2. CASE QueueInput(r)
    <3>1. Send(Cmd("enqueue", r, r))
      BY <2>2 DEF QueueInput
    <3>2. ASSUME NEW m, m.op = "enqueue", m.by = r, m.turn = r PROVE From(m)
      BY <2>2, <3>2 DEF From
    <3> QED
      BY <1>3, <3>1, <3>2
  <2>3. CASE SendPersist(r)
    <3>1. Send(Cmd("persist", r, r))
      BY <2>3 DEF SendPersist
    <3>2. ASSUME NEW m, m.op = "persist", m.by = r, m.turn = r PROVE From(m)
      BY <2>3, <3>2 DEF From
    <3> QED
      BY <1>3, <3>1, <3>2
  <2>4. CASE ~QueueInput(r) /\ ~SendPersist(r)
    <3>1. UNCHANGED mailbox \/ \E t : \E op \in {"snapshot", "begin", "rollback"} : Send(Cmd(op, r, t))
      BY <2>1, <2>4 DEF Handler, ReadReservation, ReadCachedReservation, RefuseActive, Begin, SendRollback,
           AnnounceShell, RegisterToken, RegisterAndSpawn, AttachAndReply, actorVars
    <3>2. ASSUME NEW m, m.op \in {"snapshot", "begin", "rollback"} PROVE From(m)
      BY <3>2 DEF From
    <3>3. ASSUME NEW t, NEW op \in {"snapshot", "begin", "rollback"}, Send(Cmd(op, r, t))
          PROVE  \A n \in DOMAIN mailbox' : From(mailbox'[n])
      <4>1. ASSUME NEW m, m.op = op, m.by = r, m.turn = t PROVE From(m)
        BY <3>2, <4>1
      <4> QED
        BY <1>3, <3>3, <4>1
    <3> QED
      BY <1>1, <3>1, <3>3
  <2> QED
    BY <2>2, <2>3, <2>4
<1>7. CASE \E t \in TurnReqs : TurnTask(t)
  <2>1. PICK t \in TurnReqs : TurnTask(t)
    BY <1>7
  <2>2. CASE SendExecute(t)
    <3>1. Send(Cmd("execute", t, t))
      BY <2>2 DEF SendExecute
    <3>2. ASSUME NEW m, m.op = "execute", m.by = t, m.turn = t PROVE From(m)
      BY <2>2, <3>2 DEF From
    <3> QED
      BY <1>3, <3>1, <3>2
  <2>3. CASE ~SendExecute(t)
    <3>1. UNCHANGED mailbox \/ \E op \in {"context", "shellDone"} : Send(Cmd(op, t, t))
      BY <2>1, <2>3 DEF TurnTask, ShellAskContext, ShellRun, ShellReturns, ShellClearHandles,
           ShellSendComplete, ShellEmitTerminal, actorVars
    <3>2. ASSUME NEW m, m.op \in {"context", "shellDone"} PROVE From(m)
      BY <3>2 DEF From
    <3>3. ASSUME NEW op \in {"context", "shellDone"}, Send(Cmd(op, t, t))
          PROVE  \A n \in DOMAIN mailbox' : From(mailbox'[n])
      <4>1. ASSUME NEW m, m.op = op, m.by = t, m.turn = t PROVE From(m)
        BY <3>2, <4>1
      <4> QED
        BY <1>3, <3>3, <4>1
    <3> QED
      BY <1>1, <3>1, <3>3
  <2> QED
    BY <2>2, <2>3
<1>8. CASE \E c \in Chainers : Followup(c)
  <2>1. PICK c \in Chainers : Followup(c)
    BY <1>8
  <2>2. CASE SendPop(c)
    <3>1. Send(Cmd("pop", c, NoTurn))
      BY <2>2 DEF SendPop
    <3>2. ASSUME NEW m, m.op = "pop" PROVE From(m)
      BY <3>2 DEF From
    <3> QED
      BY <1>3, <3>1, <3>2
  <2>3. CASE SendPrepare(c)
    <3>1. Send(Cmd("prepare", c, NoTurn)) /\ chain[c].pc = "popped"
      BY <2>3 DEF SendPrepare
    <3>2. ASSUME NEW m, m.op = "prepare", m.by = c, m.turn = NoTurn PROVE From(m)
      BY <2>1, <3>1, <3>2 DEF From
    <3> QED
      BY <1>3, <3>1, <3>2
  <2>4. CASE SendActivate(c) \/ SendFollowup(c)
    <3>1. /\ chain[c].pc \in {"activate", "execute"}
          /\ \E op \in {"activate", "execute"} : Send(Cmd(op, c, chain[c].turn))
      BY <2>4 DEF SendActivate, SendFollowup
    <3>2. ASSUME NEW m, m.op \in {"activate", "execute"}, m.by = c, m.turn = chain[c].turn PROVE From(m)
      BY <2>1, <3>1, <3>2 DEF From
    <3>3. ASSUME NEW op \in {"activate", "execute"}, Send(Cmd(op, c, chain[c].turn))
          PROVE  \A n \in DOMAIN mailbox' : From(mailbox'[n])
      <4>1. ASSUME NEW m, m.op = op, m.by = c, m.turn = chain[c].turn PROVE From(m)
        BY <3>2, <4>1
      <4> QED
        BY <1>3, <3>3, <4>1
    <3> QED
      BY <3>1, <3>3
  <2> QED
    BY <2>1, <2>2, <2>3, <2>4 DEF Followup
<1>9. CASE \E i \in InterruptReqs : Interrupter(i)
  <2>1. PICK i \in InterruptReqs : Interrupter(i)
    BY <1>9
  <2>2. UNCHANGED mailbox \/
        (intr[i].pc # "new" /\ \E t : \E op \in {"interrupt", "persist"} : Send(Cmd(op, i, t)))
    BY <2>1 DEF Interrupter, CheckTarget, RecheckRecent, CancelToken, AbortTask, SendInterrupt,
         ClearClaimed, FinishClaimed, HearTerminal, WaitTimesOut, actorVars
  <2>3. ASSUME NEW m, m.op \in {"interrupt", "persist"}, m.by = i, intr[i].pc # "new" PROVE From(m)
    BY <2>3 DEF From
  <2>4. ASSUME NEW t, NEW op \in {"interrupt", "persist"}, Send(Cmd(op, i, t)), intr[i].pc # "new"
        PROVE  \A n \in DOMAIN mailbox' : From(mailbox'[n])
    <3>1. ASSUME NEW m, m.op = op, m.by = i, m.turn = t PROVE From(m)
      BY <2>3, <2>4, <3>1
    <3> QED
      BY <1>3, <2>4, <3>1
  <2> QED
    BY <1>1, <2>2, <2>4
<1> QED
  BY <1>4, <1>5, <1>6, <1>7, <1>8, <1>9 DEF Next, Quiescent

(* What a request has come to lasts, but for a turn given up by a rollback.  *)
Grow == \A t \in TurnReqs :
  /\ IsQueued(t) => IsQueued(t)'
  /\ Spawned(t) => Spawned(t)'
  /\ Shown(t) => Shown(t)'
  /\ Begun(t) => Begun(t)' \/ active' # t

(* Requests of different kinds differ, and what is queued is a request.      *)
LEMMA SetsMeet ==
  /\ StartReqs \subseteq TurnReqs /\ NoTurn \notin TurnReqs
  /\ \A t : IsQueued(t) => t \in TurnReqs
  /\ \A i \in InterruptReqs : i \notin TurnReqs
BY RequestAssumption DEF TurnReqs, IsQueued

(* The turn of a chain is the one it had or the head of the queue.           *)
LEMMA ChainsMove ==
  ASSUME TypeOK, TypeOK', QueuedOnes, [Next]_vars
  PROVE  \A c \in Chainers :
           \/ /\ chain'[c].turn = chain[c].turn
              /\ chain[c].turn = NoTurn => chain'[c].pc \in {"off", "pop", "popping", "done"}
           \/ \E k \in DOMAIN queue : chain'[c].turn = queue[k]
<1>1. chain \in [Chainers -> ChainState] /\ queue \in Seq(StartReqs)
  BY DEF TypeOK
<1>2. \A c \in Chainers : chain[c].turn = NoTurn => chain[c].pc \in {"off", "pop", "popping", "done"}
  BY DEF QueuedOnes
<1>3. ASSUME NEW c, NEW p, \A d \in Chainers \ {c} : chain'[d] = chain[d],
             c \in Chainers => /\ chain'[c].turn = chain[c].turn /\ chain'[c].pc = p
                               /\ chain[c].turn = NoTurn => p \in {"off", "pop", "popping", "done"}
      PROVE  \A d \in Chainers :
               /\ chain'[d].turn = chain[d].turn
               /\ chain[d].turn = NoTurn => chain'[d].pc \in {"off", "pop", "popping", "done"}
  BY <1>2, <1>3
<1>4. CASE UNCHANGED chain
  BY <1>2, <1>4
<1>5. CASE CloseTurn
  <2>1. PICK c : c = exec.turn
    OBVIOUS
  <2>2. chain' = [chain EXCEPT ![c] = [@ EXCEPT !.pc = "pop", !.tries = 2]]
    BY <1>5, <2>1 DEF CloseTurn
  <2>3. c \in Chainers => chain'[c].turn = chain[c].turn /\ chain'[c].pc = "pop"
    BY <1>1, <2>2 DEF ChainState
  <2> QED
    BY <1>1, <1>3, <2>2, <2>3
<1>6. CASE ActorPop
  <2>1. PICK c : c = Cur.by
    OBVIOUS
  <2>2. CASE queue = <<>>
    <3>1. PICK p \in {"pop", "done"} : chain' = [chain EXCEPT ![c].pc = p, ![c].tries = 1]
      BY <1>6, <2>1, <2>2 DEF ActorPop
    <3>2. c \in Chainers => chain'[c].turn = chain[c].turn /\ chain'[c].pc = p
      BY <1>1, <3>1 DEF ChainState
    <3> QED
      BY <1>1, <1>3, <3>1, <3>2
  <2>3. CASE queue # <<>>
    <3>1. chain' = [chain EXCEPT ![c].pc = "popped", ![c].turn = Head(queue)]
      BY <1>6, <2>1, <2>3 DEF ActorPop
    <3>2. 1 \in DOMAIN queue /\ Head(queue) = queue[1]
      BY <1>1, <2>3
    <3>3. c \in Chainers => chain'[c].turn = queue[1]
      BY <1>1, <3>1, <3>2 DEF ChainState
    <3> QED
      BY <1>1, <1>2, <3>1, <3>2, <3>3
  <2> QED
    BY <2>2, <2>3
<1>7. CASE ActorPrepare
  <2>1. PICK c : c = Cur.by
    OBVIOUS
  <2>2. 1 \in DOMAIN mailbox /\ Cur = mailbox[1] /\ Cur.op = "prepare"
    BY <1>7, MailboxSteps DEF ActorPrepare
  <2>3. chain[c].turn # NoTurn
    BY <2>1, <2>2 DEF QueuedOnes
  <2>4. chain' = [chain EXCEPT ![c].pc = "activate"]
    BY <1>7, <2>1 DEF ActorPrepare
  <2>5. c \in Chainers => chain'[c].turn = chain[c].turn /\ chain'[c].pc = "activate"
    BY <1>1, <2>4 DEF ChainState
  <2> QED
    BY <1>1, <1>3, <2>3, <2>4, <2>5
<1>8. CASE \E c \in Chainers : Followup(c)
  <2>1. PICK c \in Chainers : Followup(c)
    BY <1>8
  <2>2. PICK p : /\ chain' = [chain EXCEPT ![c].pc = p]
                 /\ p \in {"popping", "done"} \/ chain[c].pc \in {"popped", "activate", "execute"}
    BY <2>1 DEF Followup, SendPop, SendPrepare, SendActivate, SendFollowup
  <2>3. chain'[c].turn = chain[c].turn /\ chain'[c].pc = p
    BY <1>1, <2>2 DEF ChainState
  <2> QED
    BY <1>1, <1>2, <1>3, <2>2, <2>3
<1>9. CASE \E i \in InterruptReqs : FinishClaimed(i)
  <2>1. PICK i \in InterruptReqs : FinishClaimed(i)
    BY <1>9
  <2>2. chain' = [chain EXCEPT ![i].pc = "pop", ![i].tries = 1]
    BY <2>1 DEF FinishClaimed
  <2>3. i \in Chainers => chain'[i].turn = chain[i].turn /\ chain'[i].pc = "pop"
    BY <1>1, <2>2 DEF ChainState
  <2> QED
    BY <1>1, <1>3, <2>2, <2>3
<1>10. CASE Actor /\ ~CloseTurn /\ ~ActorPop /\ ~ActorPrepare
  BY <1>4, <1>10 DEF Actor, ActorSnapshot, ActorSetActive, ActorPersist, ActorRollback, ActorEnqueue,
     ActorInterrupt, ActorContext, ActorCompleteShell, ActorExecute, StartQuery, QueryCancelled,
     ClearInterruptHandles, PersistAndEmitTerminal, taskVars
<1>11. CASE \E r \in TurnReqs : Handler(r) \/ TurnTask(r)
  BY <1>4, <1>11 DEF Handler, ReadReservation, ReadCachedReservation, QueueInput, RefuseActive, Begin,
     SendPersist, SendRollback, AnnounceShell, RegisterToken, RegisterAndSpawn, AttachAndReply,
     TurnTask, SendExecute, ShellAskContext, ShellRun, ShellReturns, ShellClearHandles,
     ShellSendComplete, ShellEmitTerminal
<1>12. CASE (\E i \in InterruptReqs : Interrupter(i)) /\ ~(\E i \in InterruptReqs : FinishClaimed(i))
  BY <1>4, <1>12 DEF Interrupter, CheckTarget, RecheckRecent, CancelToken, AbortTask, SendInterrupt,
     ClearClaimed, HearTerminal, WaitTimesOut
<1>13. CASE QueryReturns \/ UNCHANGED vars
  BY <1>4, <1>13 DEF QueryReturns, vars, taskVars
<1> QED
  BY <1>5, <1>6, <1>7, <1>8, <1>9, <1>10, <1>11, <1>12, <1>13 DEF Next, Quiescent

(* The queue after a step holds inputs that were answered Queued.           *)
LEMMA QueueMoves ==
  ASSUME TypeOK, TypeOK', QueuedOnes, [Next]_vars
  PROVE  \A n \in DOMAIN queue' : IsQueued(queue'[n])
<1>1. queue \in Seq(StartReqs) /\ queue' \in Seq(StartReqs) /\ \A n \in DOMAIN queue : IsQueued(queue[n])
  BY DEF TypeOK, QueuedOnes
<1>2. CASE UNCHANGED queue
  BY <1>1, <1>2
<1>3. CASE ActorEnqueue
  <2>1. 1 \in DOMAIN mailbox /\ Cur = mailbox[1] /\ Cur.op = "enqueue"
    BY <1>3, MailboxSteps DEF ActorEnqueue
  <2>2. PICK t : t = Cur.turn
    OBVIOUS
  <2>3. IsQueued(t) /\ queue' = Append(queue, t)
    BY <1>3, <2>1, <2>2 DEF QueuedOnes, ActorEnqueue
  <2> QED
    BY <1>1, <2>3
<1>4. CASE ActorPop
  <2>1. UNCHANGED queue \/ (queue # <<>> /\ queue' = Tail(queue))
    BY <1>4 DEF ActorPop
  <2>2. CASE queue # <<>> /\ queue' = Tail(queue)
    <3>1. PICK a \in Nat : a = Len(queue) /\ DOMAIN queue = 1..a
      BY <1>1
    <3>2. \A n \in DOMAIN queue' : n + 1 \in DOMAIN queue /\ queue'[n] = queue[n + 1]
      BY <1>1, <2>2, <3>1
    <3> QED
      BY <1>1, <3>2
  <2> QED
    BY <1>2, <2>1, <2>2
<1>5. CASE StartQuery
  BY <1>5 DEF StartQuery
<1>6. CASE Actor /\ ~ActorEnqueue /\ ~ActorPop /\ ~StartQuery
  BY <1>2, <1>6 DEF Actor, ActorSnapshot, ActorSetActive, ActorPersist, ActorRollback,
     ActorInterrupt, ActorContext, ActorCompleteShell, ActorPrepare, ActorExecute, QueryCancelled,
     ClearInterruptHandles, PersistAndEmitTerminal, CloseTurn, taskVars
<1>7. CASE \E r \in TurnReqs : Handler(r) \/ TurnTask(r)
  BY <1>2, <1>7 DEF Handler, ReadReservation, ReadCachedReservation, QueueInput, RefuseActive, Begin,
     SendPersist, SendRollback, AnnounceShell, RegisterToken, RegisterAndSpawn, AttachAndReply,
     TurnTask, SendExecute, ShellAskContext, ShellRun, ShellReturns, ShellClearHandles,
     ShellSendComplete, ShellEmitTerminal, actorVars
<1>8. CASE (\E c \in Chainers : Followup(c)) \/ (\E i \in InterruptReqs : Interrupter(i))
  BY <1>2, <1>8 DEF Followup, SendPop, SendPrepare, SendActivate, SendFollowup,
     Interrupter, CheckTarget, RecheckRecent, CancelToken, AbortTask, SendInterrupt,
     ClearClaimed, FinishClaimed, HearTerminal, WaitTimesOut, actorVars
<1>9. CASE QueryReturns \/ UNCHANGED vars
  BY <1>2, <1>9 DEF QueryReturns, vars, actorVars
<1> QED
  BY <1>3, <1>4, <1>5, <1>6, <1>7, <1>8, <1>9 DEF Next, Quiescent

(* Only inputs answered Queued enter the queue and leave it.                *)
LEMMA QueuedStep ==
  ASSUME TypeOK, TypeOK', QueuedOnes, Grow, [Next]_vars
  PROVE  QueuedOnes'
<1> DEFINE Q(t) == t \in StartReqs /\ req'[t].reply = "Queued"
<1>a. \A t : IsQueued(t) => Q(t)
  BY SetsMeet DEF Grow, IsQueued
<1>b. \A n \in DOMAIN mailbox' : mailbox'[n].by \in Chainers
  BY DEF TypeOK, Command, Chainers, TurnReqs
<1>c. \A c \in Chainers :
        IF chain[c].turn = NoTurn THEN chain[c].pc \in {"off", "pop", "popping", "done"}
                                  ELSE IsQueued(chain[c].turn)
  BY DEF QueuedOnes
<1>1. \A n \in DOMAIN queue' : Q(queue'[n])
  BY <1>a, QueueMoves
<1>2. \A c \in Chainers :
        IF chain'[c].turn = NoTurn THEN chain'[c].pc \in {"off", "pop", "popping", "done"}
                                   ELSE Q(chain'[c].turn)
  BY <1>a, <1>c, ChainsMove, SetsMeet DEF QueuedOnes
<1>3. \A c \in Chainers : chain[c].turn # NoTurn => chain'[c].turn # NoTurn
  BY ChainsMove, SetsMeet DEF QueuedOnes
<1>4. ASSUME NEW n \in DOMAIN mailbox', mailbox'[n].op = "prepare" PROVE chain'[mailbox'[n].by].turn # NoTurn
  BY <1>b, <1>c, <1>3, <1>4, CommandsFrom DEF From, QueuedOnes
<1>5. ASSUME NEW n \in DOMAIN mailbox', mailbox'[n].op \in {"enqueue", "activate"}
      PROVE  Q(mailbox'[n].turn)
  <2>1. CASE \E k \in DOMAIN mailbox : mailbox'[n] = mailbox[k]
    BY <1>5, <1>a, <2>1 DEF QueuedOnes
  <2>2. CASE \E r \in TurnReqs : QueueInput(r) /\ mailbox'[n].turn = r
    <3>1. PICK r \in TurnReqs : QueueInput(r) /\ mailbox'[n].turn = r
      BY <2>2
    <3>2. r \in StartReqs /\ req'[r].reply = "Queued"
      BY <3>1 DEF QueueInput, TypeOK, HandlerState
    <3> QED
      BY <3>1, <3>2
  <2>3. CASE mailbox'[n].op = "activate" /\ \E c \in Chainers :
               /\ chain[c].pc \notin {"off", "pop", "popping", "done"}
               /\ mailbox'[n].turn = chain[c].turn
    BY <1>a, <1>c, <2>3
  <2> QED
    BY <1>5, <1>c, <2>1, <2>2, <2>3, CommandsFrom DEF From
<1> QED
  BY <1>1, <1>2, <1>4, <1>5 DEF QueuedOnes, IsQueued

(* A task is spawned by the handler that then attaches it.                  *)
LEMMA TasksMove ==
  ASSUME TypeOK, [Next]_vars
  PROVE  \A t \in TurnReqs : task'[t].pc # "none" => task[t].pc # "none" \/ req'[t].pc = "attach"
<1>1. task \in [TurnReqs -> TaskState] /\ req \in [TurnReqs -> HandlerState]
  BY DEF TypeOK
<1>2. ASSUME NEW r, \A t \in TurnReqs \ {r} : task'[t] = task[t],
             r \in TurnReqs => \/ task[r].pc # "none" \/ task'[r].pc = "none" \/ req'[r].pc = "attach"
      PROVE  \A t \in TurnReqs : task'[t].pc # "none" => task[t].pc # "none" \/ req'[t].pc = "attach"
  BY <1>2
<1>3. CASE UNCHANGED task
  BY <1>3
<1>4. CASE ActorContext \/ ActorCompleteShell
  <2>1. PICK r : r = Cur.turn
    OBVIOUS
  <2>2. PICK p, q : task' = [task EXCEPT ![r].pc = IF @ = p THEN q ELSE @] /\ p # "none"
    BY <1>4, <2>1 DEF ActorContext, ActorCompleteShell
  <2>3. r \in TurnReqs => task[r].pc # "none" \/ task'[r].pc = "none"
    BY <1>1, <2>2 DEF TaskState
  <2> QED
    BY <1>1, <1>2, <2>2, <2>3
<1>5. CASE \E r \in TurnReqs : RegisterAndSpawn(r)
  <2>1. PICK r \in TurnReqs : RegisterAndSpawn(r)
    BY <1>5
  <2>2. req'[r].pc = "attach" /\ \A t \in TurnReqs \ {r} : task'[t] = task[t]
    BY <1>1, <2>1 DEF RegisterAndSpawn, HandlerState
  <2> QED
    BY <1>2, <2>2
<1>6. CASE \E r \in TurnReqs : TurnTask(r)
  <2>1. PICK r \in TurnReqs : TurnTask(r)
    BY <1>6
  <2>2. task[r].pc # "none" /\ \A t \in TurnReqs \ {r} : task'[t] = task[t]
    BY <1>1, <2>1 DEF TurnTask, SendExecute, ShellAskContext, ShellRun, ShellReturns, ShellClearHandles,
     ShellSendComplete, ShellEmitTerminal
  <2> QED
    BY <1>2, <2>2
<1>7. CASE \E i \in InterruptReqs : AbortTask(i)
  <2>1. PICK i \in InterruptReqs : AbortTask(i)
    BY <1>7
  <2>2. PICK r : r = registry.abort
    OBVIOUS
  <2>3. UNCHANGED task \/ task' = [task EXCEPT ![r].pc = Aborted(r, @)]
    BY <2>1, <2>2 DEF AbortTask
  <2>4. ASSUME task' = [task EXCEPT ![r].pc = Aborted(r, @)], r \in TurnReqs, task[r].pc = "none"
        PROVE  task'[r].pc = "none"
    <3>1. task'[r].pc = Aborted(r, "none")
      BY <1>1, <2>4 DEF TaskState
    <3> QED
      BY <3>1 DEF Aborted
  <2> QED
    BY <1>1, <1>2, <1>3, <2>3, <2>4
<1>8. CASE Actor /\ ~ActorContext /\ ~ActorCompleteShell
  BY <1>3, <1>8 DEF Actor, ActorSnapshot, ActorSetActive, ActorPersist, ActorRollback, ActorEnqueue,
     ActorInterrupt, ActorPop, ActorPrepare, ActorExecute, StartQuery, QueryCancelled,
     ClearInterruptHandles, PersistAndEmitTerminal, CloseTurn, taskVars
<1>9. CASE \E r \in TurnReqs : Handler(r) /\ ~RegisterAndSpawn(r)
  BY <1>3, <1>9 DEF Handler, ReadReservation, ReadCachedReservation, QueueInput, RefuseActive, Begin,
     SendPersist, SendRollback, AnnounceShell, RegisterToken, AttachAndReply
<1>10. CASE (\E c \in Chainers : Followup(c)) \/ (\E i \in InterruptReqs : Interrupter(i) /\ ~AbortTask(i))
  BY <1>3, <1>10 DEF Followup, SendPop, SendPrepare, SendActivate, SendFollowup,
     Interrupter, CheckTarget, RecheckRecent, CancelToken, SendInterrupt,
     ClearClaimed, FinishClaimed, HearTerminal, WaitTimesOut
<1>11. CASE QueryReturns \/ UNCHANGED vars
  BY <1>3, <1>11 DEF QueryReturns, vars, taskVars
<1> QED
  BY <1>4, <1>5, <1>6, <1>7, <1>8, <1>9, <1>10, <1>11 DEF Next, Quiescent

(* The registry names the turn it named, none, or one just spawned.         *)
LEMMA RegistryMoves ==
  ASSUME TypeOK, [Next]_vars
  PROVE  \/ registry'.turn \in {NoTurn, registry.turn}
         \/ \E r \in TurnReqs : registry'.turn = r /\ req'[r].pc = "attach"
<1>1. registry \in Entry /\ req \in [TurnReqs -> HandlerState]
  BY DEF TypeOK
<1>2. CASE UNCHANGED registry
  BY <1>2
<1>3. CASE Actor
  BY <1>1, <1>3 DEF Actor, ActorSnapshot, ActorSetActive, ActorPersist, ActorRollback, ActorEnqueue,
     ActorInterrupt, ActorContext, ActorCompleteShell, ActorPop, ActorPrepare, ActorExecute, StartQuery,
     QueryCancelled, ClearInterruptHandles, PersistAndEmitTerminal, CloseTurn, runtimeVars, Entry
<1>4. CASE \E r \in TurnReqs : RegisterAndSpawn(r)
  BY <1>1, <1>4 DEF RegisterAndSpawn, Entry, HandlerState
<1>5. CASE \E r \in TurnReqs : Handler(r) /\ ~RegisterAndSpawn(r)
  BY <1>1, <1>5 DEF Handler, ReadReservation, ReadCachedReservation, QueueInput, RefuseActive, Begin,
     SendPersist, SendRollback, AnnounceShell, RegisterToken, AttachAndReply, runtimeVars, Entry
<1>6. CASE \E r \in TurnReqs : TurnTask(r)
  BY <1>1, <1>6 DEF TurnTask, SendExecute, ShellAskContext, ShellRun, ShellReturns, ShellClearHandles,
     ShellSendComplete, ShellEmitTerminal, runtimeVars, EmptyEntry
<1>7. CASE \E c \in Chainers : Followup(c)
  BY <1>7 DEF Followup, SendPop, SendPrepare, SendActivate, SendFollowup, runtimeVars
<1>8. CASE \E i \in InterruptReqs : Interrupter(i)
  <2>1. PICK i \in InterruptReqs : Interrupter(i)
    BY <1>8
  <2>2. CASE AbortTask(i)
    <3>1. UNCHANGED registry \/ registry' = [registry EXCEPT !.abort = NoTurn]
      BY <2>2 DEF AbortTask
    <3> QED
      BY <1>1, <1>2, <3>1 DEF Entry
  <2>3. CASE ClearClaimed(i)
    BY <2>3 DEF ClearClaimed, EmptyEntry
  <2>4. CASE ~AbortTask(i) /\ ~ClearClaimed(i)
    BY <1>2, <2>1, <2>4 DEF Interrupter, CheckTarget, RecheckRecent, CancelToken, SendInterrupt,
       FinishClaimed, HearTerminal, WaitTimesOut, runtimeVars
  <2> QED
    BY <2>2, <2>3, <2>4
<1>9. CASE QueryReturns \/ UNCHANGED vars
  BY <1>9 DEF QueryReturns, vars, runtimeVars
<1> QED
  BY <1>3, <1>4, <1>5, <1>6, <1>7, <1>8, <1>9 DEF Next, Quiescent

(* The turn the actor executes, and the turn it holds active.                *)
LEMMA ActorMoves ==
  ASSUME TypeOK, TypeOK', [Next]_vars
  PROVE  /\ \/ exec' .turn = exec.turn /\ (exec'.pc # "idle" => exec.pc # "idle")
            \/ exec'.turn = NoTurn /\ exec'.pc = "idle"
            \/ \E n \in DOMAIN mailbox : mailbox[n].op = "execute" /\ exec'.turn = mailbox[n].turn
         /\ \/ active' \in {active, NoTurn}
            \/ UNCHANGED req /\ \E n \in DOMAIN mailbox :
                 mailbox[n].op \in {"begin", "activate"} /\ active' = mailbox[n].turn
<1>1. exec \in ExecState
  BY DEF TypeOK
<1>2. CASE UNCHANGED <<exec, active>>
  BY <1>2
<1>3. ASSUME NEW op, Receive(op) PROVE 1 \in DOMAIN mailbox /\ Cur = mailbox[1] /\ Cur.op = op
  BY <1>3, MailboxSteps
<1>4. CASE ActorSetActive
  <2>1. UNCHANGED <<exec, req>> /\ active' = Cur.turn
    BY <1>4 DEF ActorSetActive, taskVars
  <2>2. 1 \in DOMAIN mailbox /\ Cur = mailbox[1] /\ Cur.op \in {"begin", "activate"}
    BY <1>3, <1>4 DEF ActorSetActive
  <2> QED
    BY <2>1, <2>2
<1>5. CASE ActorExecute
  <2>1. UNCHANGED active /\ exec'.turn = Cur.turn
    BY <1>5 DEF ActorExecute
  <2>2. 1 \in DOMAIN mailbox /\ Cur = mailbox[1] /\ Cur.op = "execute"
    BY <1>3, <1>5 DEF ActorExecute
  <2> QED
    BY <2>1, <2>2
<1>6. CASE ActorRollback \/ ActorInterrupt \/ ActorCompleteShell \/ PersistAndEmitTerminal
  BY <1>1, <1>6 DEF ActorRollback, ActorInterrupt, ActorCompleteShell, PersistAndEmitTerminal, ExecState
<1>7. CASE StartQuery \/ QueryReturns \/ QueryCancelled \/ ClearInterruptHandles \/ CloseTurn
  BY <1>1, <1>7 DEF StartQuery, QueryReturns, QueryCancelled, ClearInterruptHandles, CloseTurn, ExecState
<1>8. CASE ActorSnapshot \/ ActorPersist \/ ActorEnqueue \/ ActorContext \/ ActorPop \/ ActorPrepare
  BY <1>2, <1>8 DEF ActorSnapshot, ActorPersist, ActorEnqueue, ActorContext, ActorPop, ActorPrepare
<1>9. CASE \E r \in TurnReqs : Handler(r) \/ TurnTask(r)
  BY <1>2, <1>9 DEF Handler, ReadReservation, ReadCachedReservation, QueueInput, RefuseActive, Begin,
     SendPersist, SendRollback, AnnounceShell, RegisterToken, RegisterAndSpawn, AttachAndReply,
     TurnTask, SendExecute, ShellAskContext, ShellRun, ShellReturns, ShellClearHandles,
     ShellSendComplete, ShellEmitTerminal, actorVars
<1>10. CASE (\E c \in Chainers : Followup(c)) \/ (\E i \in InterruptReqs : Interrupter(i))
  BY <1>2, <1>10 DEF Followup, SendPop, SendPrepare, SendActivate, SendFollowup,
     Interrupter, CheckTarget, RecheckRecent, CancelToken, AbortTask, SendInterrupt,
     ClearClaimed, FinishClaimed, HearTerminal, WaitTimesOut, actorVars
<1>11. CASE UNCHANGED vars
  BY <1>2, <1>11 DEF vars, actorVars
<1> QED
  BY <1>4, <1>5, <1>6, <1>7, <1>8, <1>9, <1>10, <1>11 DEF Next, Actor, Quiescent

(* Only turns queued or begun run.                                          *)
LEMMA RunningStep ==
  ASSUME TypeOK, TypeOK', CallsAwaited, QueuedOnes, RunningOnes, Grow, [Next]_vars
  PROVE  RunningOnes'
<1> DEFINE Q(t) == t \in StartReqs /\ req'[t].reply = "Queued"
           S(t) == req'[t].pc = "attach" \/ req'[t].reply = "Started"
           B(t) == S(t) \/ req'[t].pc \in
             {"begun", "persisting", "undo", "undoing", "announce", "token", "register"}
<1>a. \A t \in TurnReqs : /\ IsQueued(t) => Q(t)
                          /\ Spawned(t) => S(t)
                          /\ Begun(t) => B(t) \/ active' # t
  BY DEF Grow, IsQueued, Spawned, Begun
<1>b. /\ active \in Turns /\ active' \in Turns /\ registry.turn \in Turns /\ exec.turn \in Turns
      /\ exec \in ExecState /\ exec' \in ExecState
  BY DEF TypeOK, Entry, ExecState
<1>c. \A c \in Chainers :
        IF chain[c].turn = NoTurn THEN chain[c].pc \in {"off", "pop", "popping", "done"}
                                  ELSE IsQueued(chain[c].turn)
  BY DEF QueuedOnes
<1>1. \A t \in TurnReqs : task'[t].pc # "none" => S(t)
  BY <1>a, TasksMove DEF RunningOnes
<1>2. registry'.turn # NoTurn => S(registry'.turn)
  BY <1>a, <1>b, RegistryMoves DEF RunningOnes, Turns
<1>3. ASSUME NEW n \in DOMAIN mailbox', mailbox'[n].op = "execute"
      PROVE  mailbox'[n].turn \in TurnReqs /\ (Q(mailbox'[n].turn) \/ S(mailbox'[n].turn))
  <2>1. CASE \E k \in DOMAIN mailbox : mailbox'[n] = mailbox[k]
    BY <1>3, <1>a, <2>1 DEF RunningOnes
  <2>2. CASE \E t \in TurnReqs : SendExecute(t) /\ mailbox'[n].turn = t
    BY <1>a, <2>2 DEF RunningOnes, SendExecute
  <2>3. CASE \E c \in Chainers :
               /\ chain[c].pc \notin {"off", "pop", "popping", "done"}
               /\ mailbox'[n].turn \in {NoTurn, chain[c].turn}
               /\ mailbox'[n].turn = NoTurn => chain[c].turn = NoTurn
    BY <1>a, <1>c, <2>3, SetsMeet
  <2> QED
    BY <1>3, <2>1, <2>2, <2>3, CommandsFrom DEF From
<1>4. /\ exec'.pc # "idle" => exec'.turn \in TurnReqs
      /\ exec'.turn # NoTurn => Q(exec'.turn) \/ S(exec'.turn)
  BY <1>a, <1>b, ActorMoves DEF RunningOnes, Turns
<1>5. active' # NoTurn => Q(active') \/ B(active')
  <2>1. CASE active' \in {active, NoTurn}
    BY <1>a, <1>b, <2>1 DEF RunningOnes, Turns
  <2>2. CASE UNCHANGED req /\ \E n \in DOMAIN mailbox :
               mailbox[n].op \in {"begin", "activate"} /\ active' = mailbox[n].turn
    BY <2>2 DEF CallsAwaited, QueuedOnes, IsQueued, Beginning
  <2> QED
    BY <2>1, <2>2, ActorMoves
<1> QED
  BY <1>1, <1>2, <1>3, <1>4, <1>5 DEF RunningOnes, IsQueued, Spawned, Begun

(* Whom an interrupt handler is after does not change once it is known.      *)
LEMMA TargetsMove ==
  ASSUME TypeOK, TypeOK', [Next]_vars
  PROVE  \A i \in InterruptReqs :
           \/ intr'[i].turn \in announced
           \/ /\ intr'[i].turn = intr[i].turn
              /\ intr'[i].pc # "new" => \/ intr[i].pc # "new"
                                        \/ \E n \in DOMAIN mailbox : mailbox[n].by = i /\ mailbox[n].op \in {"interrupt", "persist"}
<1>1. intr \in [InterruptReqs -> InterruptState]
  BY DEF TypeOK
<1>2. ASSUME NEW i, \A j \in InterruptReqs \ {i} : intr'[j] = intr[j],
             i \in InterruptReqs =>
               /\ intr'[i].turn = intr[i].turn
               /\ intr'[i].pc # "new" => \/ intr[i].pc # "new"
                                         \/ \E n \in DOMAIN mailbox : mailbox[n].by = i /\ mailbox[n].op \in {"interrupt", "persist"}
      PROVE  \A j \in InterruptReqs :
               /\ intr'[j].turn = intr[j].turn
               /\ intr'[j].pc # "new" => \/ intr[j].pc # "new"
                                         \/ \E n \in DOMAIN mailbox : mailbox[n].by = j /\ mailbox[n].op \in {"interrupt", "persist"}
  BY <1>2
<1>3. CASE UNCHANGED intr
  BY <1>3
<1>4. CASE ActorPersist \/ ActorInterrupt
  <2>1. PICK i : i = Cur.by
    OBVIOUS
  <2>2. 1 \in DOMAIN mailbox /\ Cur = mailbox[1] /\ Cur.op \in {"persist", "interrupt"}
    BY <1>4, MailboxSteps DEF ActorPersist, ActorInterrupt
  <2>3. CASE ActorPersist
    <3>1. CASE UNCHANGED intr
      BY <1>3, <3>1
    <3>2. CASE i \notin TurnReqs
      <4>1. PICK ok \in BOOLEAN :
               intr' = [intr EXCEPT ![i].pc = IF ok THEN "finish" ELSE "done",
                                    ![i].reply = IF ok THEN @ ELSE "InternalError"]
        BY <2>1, <2>3, <3>2 DEF ActorPersist
      <4>2. \A j \in InterruptReqs \ {i} : intr'[j] = intr[j]
        BY <1>1, <4>1
      <4>3. i \in InterruptReqs => intr'[i].turn = intr[i].turn
        BY <1>1, <4>1 DEF InterruptState
      <4> QED
        BY <1>2, <2>1, <2>2, <4>2, <4>3
    <3> QED
      BY <2>1, <2>3, <3>1, <3>2 DEF ActorPersist
  <2>4. CASE ActorInterrupt
    <3>1. \A j \in InterruptReqs \ {i} : intr'[j] = intr[j]
      BY <1>1, <2>1, <2>4 DEF ActorInterrupt
    <3>2. i \in InterruptReqs => intr'[i].turn = intr[i].turn
      BY <1>1, <2>1, <2>4 DEF ActorInterrupt, InterruptState
    <3> QED
      BY <1>2, <2>1, <2>2, <3>1, <3>2
  <2> QED
    BY <1>4, <2>3, <2>4
<1>5. CASE \E i \in InterruptReqs : Interrupter(i)
  <2>1. PICK i \in InterruptReqs : Interrupter(i)
    BY <1>5
  <2>2. CASE \E t \in TurnReqs : CheckTarget(i, t)
    <3>1. PICK t \in TurnReqs : CheckTarget(i, t)
      BY <2>2
    <3>2. t \in announced /\ \A j \in InterruptReqs \ {i} : intr'[j] = intr[j]
      BY <1>1, <3>1 DEF CheckTarget
    <3>3. intr'[i].turn = t
      BY <1>1, <3>1 DEF CheckTarget, InterruptState
    <3> QED
      BY <3>2, <3>3
  <2>3. CASE ~\E t \in TurnReqs : CheckTarget(i, t)
    <3>1. \A j \in InterruptReqs \ {i} : intr'[j] = intr[j]
      BY <1>1, <2>1, <2>3 DEF Interrupter, RecheckRecent, CancelToken, AbortTask, SendInterrupt,
         ClearClaimed, FinishClaimed, HearTerminal, WaitTimesOut, Answer
    <3>2. intr[i].pc # "new" /\ intr'[i].turn = intr[i].turn
      BY <1>1, <2>1, <2>3 DEF Interrupter, RecheckRecent, CancelToken, AbortTask, SendInterrupt,
         ClearClaimed, FinishClaimed, HearTerminal, WaitTimesOut, Answer, InterruptState
    <3> QED
      BY <1>2, <3>1, <3>2
  <2> QED
    BY <2>2, <2>3
<1>6. CASE Actor /\ ~ActorPersist /\ ~ActorInterrupt
  BY <1>3, <1>6 DEF Actor, ActorSnapshot, ActorSetActive, ActorRollback, ActorEnqueue, ActorContext,
     ActorCompleteShell, ActorPop, ActorPrepare, ActorExecute, StartQuery, QueryCancelled,
     ClearInterruptHandles, PersistAndEmitTerminal, CloseTurn, taskVars
<1>7. CASE \E r \in TurnReqs : Handler(r) \/ TurnTask(r)
  BY <1>3, <1>7 DEF Handler, ReadReservation, ReadCachedReservation, QueueInput, RefuseActive, Begin,
     SendPersist, SendRollback, AnnounceShell, RegisterToken, RegisterAndSpawn, AttachAndReply,
     TurnTask, SendExecute, ShellAskContext, ShellRun, ShellReturns, ShellClearHandles,
     ShellSendComplete, ShellEmitTerminal
<1>8. CASE \E c \in Chainers : Followup(c)
  BY <1>3, <1>8 DEF Followup, SendPop, SendPrepare, SendActivate, SendFollowup
<1>9. CASE QueryReturns \/ UNCHANGED vars
  BY <1>3, <1>9 DEF QueryReturns, vars, taskVars
<1> QED
  BY <1>4, <1>5, <1>6, <1>7, <1>8, <1>9 DEF Next, Quiescent

(* Whom a step announces, and whose end it broadcasts.                       *)
LEMMA HistoryMoves ==
  ASSUME TypeOK, [Next]_vars
  PROVE  /\ announced \subseteq announced'
         /\ \A t \in announced' \ announced :
              \/ t \in TurnReqs /\ (req'[t].pc = "token" \/ req'[t].reply = "Started")
              \/ \E c \in Chainers : chain[c].pc = "activate" /\ t = chain[c].turn
         /\ \A t \in TurnReqs : ended'[t] # <<>> =>
              \/ ended[t] # <<>>
              \/ exec.pc # "idle" /\ t = exec.turn
              \/ task[t].pc # "none"
              \/ \E i \in InterruptReqs : intr[i].pc # "new" /\ t = intr[i].turn
<1>1. /\ req \in [TurnReqs -> HandlerState] /\ ended \in [TurnReqs -> Seq(Terminal)]
  BY DEF TypeOK
<1>2. CASE UNCHANGED <<announced, ended>>
  BY <1>2
<1>3. CASE \E r \in TurnReqs : AnnounceShell(r) \/ AttachAndReply(r)
  BY <1>1, <1>3 DEF AnnounceShell, AttachAndReply, HandlerState
<1>4. CASE \E c \in Chainers : SendActivate(c)
  BY <1>4 DEF SendActivate
<1>5. CASE PersistAndEmitTerminal
  <2>1. UNCHANGED announced /\ exec.pc # "idle" /\ \A t \in TurnReqs \ {exec.turn} : ended'[t] = ended[t]
    BY <1>1, <1>5 DEF PersistAndEmitTerminal
  <2> QED
    BY <2>1
<1>6. CASE \E t \in TurnReqs : ShellEmitTerminal(t)
  <2>1. PICK t \in TurnReqs : ShellEmitTerminal(t)
    BY <1>6
  <2>2. UNCHANGED announced /\ task[t].pc # "none" /\ \A u \in TurnReqs \ {t} : ended'[u] = ended[u]
    BY <1>1, <2>1 DEF ShellEmitTerminal
  <2> QED
    BY <2>2
<1>7. CASE \E i \in InterruptReqs : FinishClaimed(i)
  <2>1. PICK i \in InterruptReqs : FinishClaimed(i)
    BY <1>7
  <2>2. /\ UNCHANGED announced /\ intr[i].pc # "new"
        /\ \A u \in TurnReqs \ {intr[i].turn} : ended'[u] = ended[u]
    BY <1>1, <2>1 DEF FinishClaimed
  <2> QED
    BY <2>2
<1>8. CASE Actor /\ ~PersistAndEmitTerminal
  BY <1>2, <1>8 DEF Actor, ActorSnapshot, ActorSetActive, ActorPersist, ActorRollback, ActorEnqueue,
     ActorInterrupt, ActorContext, ActorCompleteShell, ActorPop, ActorPrepare, ActorExecute, StartQuery,
     QueryCancelled, ClearInterruptHandles, CloseTurn, historyVars
<1>9. CASE \E r \in TurnReqs : Handler(r) /\ ~AnnounceShell(r) /\ ~AttachAndReply(r)
  BY <1>2, <1>9 DEF Handler, ReadReservation, ReadCachedReservation, QueueInput, RefuseActive, Begin,
     SendPersist, SendRollback, RegisterToken, RegisterAndSpawn, historyVars
<1>10. CASE \E t \in TurnReqs : TurnTask(t) /\ ~ShellEmitTerminal(t)
  BY <1>2, <1>10 DEF TurnTask, SendExecute, ShellAskContext, ShellRun, ShellReturns, ShellClearHandles,
     ShellSendComplete, historyVars
<1>11. CASE \E c \in Chainers : Followup(c) /\ ~SendActivate(c)
  BY <1>2, <1>11 DEF Followup, SendPop, SendPrepare, SendFollowup, historyVars
<1>12. CASE \E i \in InterruptReqs : Interrupter(i) /\ ~FinishClaimed(i)
  BY <1>2, <1>12 DEF Interrupter, CheckTarget, RecheckRecent, CancelToken, AbortTask, SendInterrupt,
     ClearClaimed, HearTerminal, WaitTimesOut, historyVars
<1>13. CASE QueryReturns \/ UNCHANGED vars
  BY <1>2, <1>13 DEF QueryReturns, vars, historyVars
<1> QED
  BY <1>3, <1>4, <1>5, <1>6, <1>7, <1>8, <1>9, <1>10, <1>11, <1>12, <1>13 DEF Next, Quiescent

(* Only turns queued or shown are announced, interrupted or ended.          *)
LEMMA SeenStep ==
  ASSUME TypeOK, TypeOK', QueuedOnes, RunningOnes, SeenOnes, Grow, [Next]_vars
  PROVE  SeenOnes'
<1> DEFINE Q(t) == t \in StartReqs /\ req'[t].reply = "Queued"
           V(t) == req'[t].pc \in {"attach", "token", "register"} \/ req'[t].reply = "Started"
<1>a. \A t \in TurnReqs : /\ IsQueued(t) => Q(t)
                          /\ Spawned(t) => V(t)
                          /\ Shown(t) => V(t)
  BY DEF Grow, IsQueued, Spawned, Shown
<1>1. \A t \in announced' : t \in TurnReqs /\ (Q(t) \/ V(t))
  <2>1. ASSUME NEW c \in Chainers, chain[c].pc = "activate" PROVE IsQueued(chain[c].turn)
    BY <2>1 DEF QueuedOnes
  <2> QED
    BY <1>a, <2>1, HistoryMoves, SetsMeet DEF SeenOnes
<1>2. \A i \in InterruptReqs : intr'[i].pc # "new" => intr'[i].turn \in announced'
  BY HistoryMoves, TargetsMove DEF SeenOnes
<1>3. ASSUME NEW n \in DOMAIN mailbox', mailbox'[n].by \in InterruptReqs, mailbox'[n].op \in {"interrupt", "persist"}
      PROVE  intr'[mailbox'[n].by].turn \in announced'
  <2>1. intr[mailbox'[n].by].turn \in announced
    BY <1>3, CommandsFrom, SetsMeet DEF From, SeenOnes
  <2> QED
    BY <1>3, <2>1, HistoryMoves, TargetsMove
<1>4. \A t \in TurnReqs : ended'[t] # <<>> => Q(t) \/ V(t)
  BY <1>a, HistoryMoves, SetsMeet DEF SeenOnes, RunningOnes
<1> QED
  BY <1>1, <1>2, <1>3, <1>4 DEF SeenOnes, IsQueued, Shown, Spawned

(* The inductive invariant: what a request has come to explains every trace. *)
RefusalInv == CallsAwaited /\ Untold /\ QueuedOnes /\ RunningOnes /\ SeenOnes

(* Initially nothing was asked, told, queued or run.                        *)
LEMMA RefusalInit == Init => RefusalInv
<1> SUFFICES ASSUME Init PROVE RefusalInv
  OBVIOUS
<1>1. mailbox = <<>> /\ queue = <<>> /\ DOMAIN mailbox = {} /\ DOMAIN queue = {}
  BY DEF Init
<1>2. CallsAwaited
  BY <1>1 DEF CallsAwaited
<1>3. Untold
  BY DEF Init, Untold
<1>4. QueuedOnes
  BY <1>1 DEF Init, QueuedOnes
<1>5. RunningOnes
  BY <1>1 DEF Init, RunningOnes, EmptyEntry
<1>6. SeenOnes
  BY <1>1 DEF Init, SeenOnes
<1> QED
  BY <1>2, <1>3, <1>4, <1>5, <1>6 DEF RefusalInv

(* The invariant behind RefusedLeavesNothing is inductive.                  *)
LEMMA RefusalStep ==
  ASSUME TypeOK, TypeOK', RefusalInv, [Next]_vars
  PROVE  RefusalInv'
<1>1. Untold' /\ Grow
  BY StepsAdvance DEF RefusalInv, Grow
<1>2. CallsAwaited'
  BY CallsStep DEF RefusalInv
<1>3. QueuedOnes' /\ RunningOnes' /\ SeenOnes'
  BY <1>1, QueuedStep, RunningStep, SeenStep DEF RefusalInv
<1> QED
  BY <1>1, <1>2, <1>3 DEF RefusalInv

(* A request the client is told was refused - the session is busy, was not   *)
(* found, or its turn line could not be written - leaves nothing behind:     *)
(* its turn is not active, announced, registered, run or ended, whatever the *)
(* other requests, interrupts, chains and the actor do in between.           *)
THEOREM RefusalsLeaveNothing == Spec => []RefusedLeavesNothing
<1>1. Spec => []TypeOK
  BY TypeCorrect
<1>2. Init => RefusalInv
  BY RefusalInit
<1>3. TypeOK /\ TypeOK' /\ RefusalInv /\ [Next]_vars => RefusalInv'
  BY RefusalStep
<1>4. RefusalInv => RefusedLeavesNothing
  <2> SUFFICES ASSUME RefusalInv, NEW r \in TurnReqs, req[r].reply \in Refusals
               PROVE  /\ active # r /\ exec.turn # r /\ r \notin announced /\ ended[r] = <<>>
                      /\ registry.turn # r /\ task[r].pc = "none"
    BY DEF RefusedLeavesNothing, Refusals
  <2>1. ~IsQueued(r) /\ ~Spawned(r) /\ ~Begun(r) /\ ~Shown(r)
    BY DEF RefusalInv, Untold, Refusals, IsQueued, Spawned, Begun, Shown
  <2>2. active # r /\ exec.turn # r /\ registry.turn # r /\ task[r].pc = "none"
    BY <2>1, SetsMeet DEF RefusalInv, RunningOnes
  <2>3. r \notin announced /\ ended[r] = <<>>
    BY <2>1 DEF RefusalInv, SeenOnes
  <2> QED
    BY <2>2, <2>3
<1> QED
  BY <1>1, <1>2, <1>3, <1>4, PTL DEF Spec

-----------------------------------------------------------------------------
(* The place of a queued input.                                              *)

(* A chain's call, or an interrupt handler's, for whose reply it waits.      *)
OfChain(m) == m.op \in {"pop", "prepare"}
OfIntr(m) == m.op \in {"interrupt", "persist"} /\ m.by \in InterruptReqs
ChainAt(op) == IF op = "pop" THEN "popping" ELSE "preparing"
IntrAt(op) == IF op = "interrupt" THEN "claiming" ELSE "persisting"
AsideAwaited ==
  /\ \A n \in DOMAIN mailbox : OfChain(mailbox[n]) => chain[mailbox[n].by].pc = ChainAt(mailbox[n].op)
  /\ \A n \in DOMAIN mailbox : OfIntr(mailbox[n]) => intr[mailbox[n].by].pc = IntrAt(mailbox[n].op)
  /\ \A n, k \in DOMAIN mailbox :
       /\ OfChain(mailbox[n]) /\ OfChain(mailbox[k]) /\ mailbox[n].by = mailbox[k].by => n = k
       /\ OfIntr(mailbox[n]) /\ OfIntr(mailbox[k]) /\ mailbox[n].by = mailbox[k].by => n = k

(* Who runs follow-up chains, whom an interrupt handler is after.            *)
ActorBusy ==
  /\ exec.pc = "idle" <=> exec.turn = NoTurn
  /\ exec.turn \in StartReqs \cup {NoTurn}
  /\ \A n \in DOMAIN mailbox : mailbox[n].op = "execute" => mailbox[n].turn \in StartReqs
ClaimersChain == \A i \in InterruptReqs : chain[i].pc # "off" => intr[i].pc = "done"
ClaimsStarted ==
  \A i \in InterruptReqs :
    intr[i].pc \notin {"new", "done"} => intr[i].turn \in TurnReqs /\ Spawned(intr[i].turn)

(* The kinds of places an input can be in.                                   *)
Carries(m) == m.op \in {"enqueue", "execute"}
Holds(c) == chain[c].pc \in {"popped", "preparing", "activate", "execute"}
InMailbox(r) == \E n \in DOMAIN mailbox : Carries(mailbox[n]) /\ mailbox[n].turn = r
InQueue(r) == \E n \in DOMAIN queue : queue[n] = r
InChain(r) == \E c \in Chainers : Holds(c) /\ chain[c].turn = r
ToSend(r) == task[r].pc = "spawned"
Over(r) == chain[r].pc # "off"

(* A place of each kind is the only one of its kind.                         *)
OneMail == \A n, k \in DOMAIN mailbox :
  Carries(mailbox[n]) /\ Carries(mailbox[k]) /\ mailbox[n].turn = mailbox[k].turn => n = k
OneEntry == \A n, k \in DOMAIN queue : queue[n] = queue[k] => n = k
OneChain == \A c, d \in Chainers : Holds(c) /\ Holds(d) /\ chain[c].turn = chain[d].turn => c = d

(* The kinds of places exclude each other.                                   *)
OneKindAt(r) ==
  /\ InMailbox(r) => ~InQueue(r) /\ ~InChain(r) /\ exec.turn # r /\ ~Over(r) /\ r \notin merged /\ ~ToSend(r)
  /\ InQueue(r) => ~InChain(r) /\ exec.turn # r /\ ~Over(r) /\ r \notin merged /\ ~ToSend(r)
  /\ InChain(r) => exec.turn # r /\ ~Over(r) /\ r \notin merged /\ ~ToSend(r)
  /\ exec.turn = r => ~Over(r) /\ r \notin merged /\ ~ToSend(r)
  /\ Over(r) => r \notin merged /\ ~ToSend(r)
  /\ r \in merged => ~ToSend(r)
OneKind == \A r \in StartReqs : OneKindAt(r)

(* A queued input has a place, and what has a place there was queued.        *)
SomePlace(r) == InMailbox(r) \/ InQueue(r) \/ InChain(r) \/ exec.turn = r \/ Over(r) \/ r \in merged
SomeKind ==
  /\ \A r \in StartReqs : IsQueued(r) => SomePlace(r)
  /\ \A r \in merged : IsQueued(r)
  /\ \A r \in StartReqs : Over(r) => IsQueued(r) \/ Spawned(r)
(* A queued input is over once its end is broadcast: the actor is closing its *)
(* turn, or has spawned its post-turn task.                                  *)
EndedWhenOver ==
  \A r \in StartReqs : IsQueued(r) =>
    (ended[r] # <<>> <=> Over(r) \/ (exec.turn = r /\ exec.pc = "closing"))

(* The inductive invariant, beside RefusalInv.                               *)
OneInv == /\ AsideAwaited /\ ActorBusy /\ ClaimersChain /\ ClaimsStarted
          /\ OneMail /\ OneEntry /\ OneChain /\ OneKind /\ SomeKind /\ EndedWhenOver

(* What a step does to one chain, and to one interrupt handler.              *)
ChainMove(c) ==
  \/ chain'[c] = chain[c]
  \/ /\ chain'[c].turn = chain[c].turn
     /\ \/ SendPop(c) /\ chain'[c].pc = "popping"
        \/ SendPrepare(c) /\ chain'[c].pc = "preparing"
        \/ SendActivate(c) /\ chain'[c].pc = "execute"
        \/ SendFollowup(c) /\ chain'[c].pc = "done"
        \/ ActorPop /\ queue = <<>> /\ Cur.by = c /\ chain'[c].pc \in {"pop", "done"}
        \/ ActorPrepare /\ Cur.by = c /\ chain'[c].pc = "activate"
        \/ CloseTurn /\ exec.turn = c /\ chain'[c].pc = "pop"
        \/ c \in InterruptReqs /\ FinishClaimed(c) /\ chain'[c].pc = "pop"
  \/ ActorPop /\ queue # <<>> /\ Cur.by = c /\ chain'[c].pc = "popped" /\ chain'[c].turn = Head(queue)

IntrMove(i) ==
  \/ intr'[i] = intr[i]
  \/ /\ intr[i].pc = "new" /\ intr'[i].turn \in TurnReqs
     /\ \/ intr'[i].pc = "done"
        \/ intr'[i].pc = "subscribed" /\ intr'[i].turn = registry.turn
  \/ /\ intr'[i].turn = intr[i].turn
     /\ \/ SendInterrupt(i) /\ intr'[i].pc = "claiming"
        \/ ClearClaimed(i) /\ intr'[i].pc = "persisting"
        \/ FinishClaimed(i) /\ intr'[i].pc = "done"
        \/ (ActorPersist \/ ActorInterrupt) /\ Cur.by = i /\ intr'[i].pc \notin {"new", "claiming", "persisting"}
        \/ /\ intr[i].pc \notin {"new", "claiming", "persisting", "done"}
           /\ intr'[i].pc \notin {"new", "claiming", "persisting"}

(* Every step does one of these to each chain.                               *)
LEMMA ChainMoves ==
  ASSUME TypeOK, TypeOK', [Next]_vars
  PROVE  \A c \in Chainers : ChainMove(c)
<1>1. chain \in [Chainers -> ChainState]
  BY DEF TypeOK
<1>2. ASSUME NEW c, \A d \in Chainers \ {c} : chain'[d] = chain[d], c \in Chainers => ChainMove(c)
      PROVE  \A d \in Chainers : ChainMove(d)
  BY <1>2 DEF ChainMove
<1>3. CASE UNCHANGED chain
  BY <1>3 DEF ChainMove
<1>4. CASE CloseTurn
  <2>1. PICK c : c = exec.turn
    OBVIOUS
  <2>2. chain' = [chain EXCEPT ![c] = [@ EXCEPT !.pc = "pop", !.tries = 2]]
    BY <1>4, <2>1 DEF CloseTurn
  <2>3. c \in Chainers => chain'[c].turn = chain[c].turn /\ chain'[c].pc = "pop"
    BY <1>1, <2>2 DEF ChainState
  <2>4. c \in Chainers => ChainMove(c)
    BY <1>4, <2>1, <2>3 DEF ChainMove
  <2> QED
    BY <1>1, <1>2, <2>2, <2>4
<1>5. CASE ActorPop
  <2>1. PICK c : c = Cur.by
    OBVIOUS
  <2>2. CASE queue = <<>>
    <3>1. PICK p \in {"pop", "done"} : chain' = [chain EXCEPT ![c].pc = p, ![c].tries = 1]
      BY <1>5, <2>1, <2>2 DEF ActorPop
    <3>2. c \in Chainers => chain'[c].turn = chain[c].turn /\ chain'[c].pc = p
      BY <1>1, <3>1 DEF ChainState
    <3>3. c \in Chainers => ChainMove(c)
      BY <1>5, <2>1, <2>2, <3>2 DEF ChainMove
    <3> QED
      BY <1>1, <1>2, <3>1, <3>3
  <2>3. CASE queue # <<>>
    <3>1. chain' = [chain EXCEPT ![c].pc = "popped", ![c].turn = Head(queue)]
      BY <1>5, <2>1, <2>3 DEF ActorPop
    <3>2. c \in Chainers => chain'[c].turn = Head(queue) /\ chain'[c].pc = "popped"
      BY <1>1, <3>1 DEF ChainState
    <3>3. c \in Chainers => ChainMove(c)
      BY <1>5, <2>1, <2>3, <3>2 DEF ChainMove
    <3> QED
      BY <1>1, <1>2, <3>1, <3>3
  <2> QED
    BY <2>2, <2>3
<1>6. CASE ActorPrepare
  <2>1. PICK c : c = Cur.by
    OBVIOUS
  <2>2. chain' = [chain EXCEPT ![c].pc = "activate"]
    BY <1>6, <2>1 DEF ActorPrepare
  <2>3. c \in Chainers => chain'[c].turn = chain[c].turn /\ chain'[c].pc = "activate"
    BY <1>1, <2>2 DEF ChainState
  <2>4. c \in Chainers => ChainMove(c)
    BY <1>6, <2>1, <2>3 DEF ChainMove
  <2> QED
    BY <1>1, <1>2, <2>2, <2>4
<1>7. CASE \E c \in Chainers : Followup(c)
  <2>1. PICK c \in Chainers : Followup(c)
    BY <1>7
  <2>2. \E p : chain' = [chain EXCEPT ![c].pc = p]
    BY <2>1 DEF Followup, SendPop, SendPrepare, SendActivate, SendFollowup
  <2>3. chain'[c].turn = chain[c].turn /\ \A d \in Chainers \ {c} : chain'[d] = chain[d]
    BY <1>1, <2>2 DEF ChainState
  <2>4. /\ SendPop(c) => chain'[c].pc = "popping"
        /\ SendPrepare(c) => chain'[c].pc = "preparing"
        /\ SendActivate(c) => chain'[c].pc = "execute"
        /\ SendFollowup(c) => chain'[c].pc = "done"
    BY <1>1 DEF SendPop, SendPrepare, SendActivate, SendFollowup, ChainState
  <2>5. ChainMove(c)
    BY <2>1, <2>3, <2>4 DEF ChainMove, Followup
  <2> QED
    BY <1>2, <2>3, <2>5
<1>8. CASE \E i \in InterruptReqs : FinishClaimed(i)
  <2>1. PICK i \in InterruptReqs : FinishClaimed(i)
    BY <1>8
  <2>2. chain' = [chain EXCEPT ![i].pc = "pop", ![i].tries = 1]
    BY <2>1 DEF FinishClaimed
  <2>3. i \in Chainers => chain'[i].turn = chain[i].turn /\ chain'[i].pc = "pop"
    BY <1>1, <2>2 DEF ChainState
  <2>4. i \in Chainers => ChainMove(i)
    BY <2>1, <2>3 DEF ChainMove
  <2> QED
    BY <1>1, <1>2, <2>2, <2>4
<1>9. CASE Actor /\ ~CloseTurn /\ ~ActorPop /\ ~ActorPrepare
  BY <1>3, <1>9 DEF Actor, ActorSnapshot, ActorSetActive, ActorPersist, ActorRollback, ActorEnqueue,
     ActorInterrupt, ActorContext, ActorCompleteShell, ActorExecute, StartQuery, QueryCancelled,
     ClearInterruptHandles, PersistAndEmitTerminal, taskVars
<1>10. CASE \E r \in TurnReqs : Handler(r) \/ TurnTask(r)
  BY <1>3, <1>10 DEF Handler, ReadReservation, ReadCachedReservation, QueueInput, RefuseActive, Begin,
     SendPersist, SendRollback, AnnounceShell, RegisterToken, RegisterAndSpawn, AttachAndReply,
     TurnTask, SendExecute, ShellAskContext, ShellRun, ShellReturns, ShellClearHandles,
     ShellSendComplete, ShellEmitTerminal
<1>11. CASE \E i \in InterruptReqs : Interrupter(i) /\ ~FinishClaimed(i)
  BY <1>3, <1>11 DEF Interrupter, CheckTarget, RecheckRecent, CancelToken, AbortTask, SendInterrupt,
     ClearClaimed, HearTerminal, WaitTimesOut
<1>12. CASE QueryReturns \/ UNCHANGED vars
  BY <1>3, <1>12 DEF QueryReturns, vars, taskVars
<1> QED
  BY <1>4, <1>5, <1>6, <1>7, <1>8, <1>9, <1>10, <1>11, <1>12 DEF Next, Quiescent

(* Every step does one of these to each interrupt handler.                   *)
LEMMA IntrMoves ==
  ASSUME TypeOK, TypeOK', [Next]_vars
  PROVE  \A i \in InterruptReqs : IntrMove(i)
<1>1. intr \in [InterruptReqs -> InterruptState]
  BY DEF TypeOK
<1>2. ASSUME NEW i, \A j \in InterruptReqs \ {i} : intr'[j] = intr[j], i \in InterruptReqs => IntrMove(i)
      PROVE  \A j \in InterruptReqs : IntrMove(j)
  BY <1>2 DEF IntrMove
<1>3. CASE UNCHANGED intr
  BY <1>3 DEF IntrMove
<1>4. CASE ActorPersist
  <2>1. PICK i : i = Cur.by
    OBVIOUS
  <2>2. CASE UNCHANGED intr
    BY <1>3, <2>2
  <2>3. CASE i \notin TurnReqs
    <3>1. PICK ok \in BOOLEAN :
             intr' = [intr EXCEPT ![i].pc = IF ok THEN "finish" ELSE "done",
                                  ![i].reply = IF ok THEN @ ELSE "InternalError"]
      BY <1>4, <2>1, <2>3 DEF ActorPersist
    <3>2. i \in InterruptReqs => intr'[i].turn = intr[i].turn /\ intr'[i].pc \in {"finish", "done"}
      BY <1>1, <3>1 DEF InterruptState
    <3>3. i \in InterruptReqs => IntrMove(i)
      BY <1>4, <2>1, <3>2 DEF IntrMove
    <3> QED
      BY <1>1, <1>2, <3>1, <3>3
  <2> QED
    BY <1>4, <2>1, <2>2, <2>3 DEF ActorPersist
<1>5. CASE ActorInterrupt
  <2>1. PICK i : i = Cur.by
    OBVIOUS
  <2>2. \A j \in InterruptReqs \ {i} : intr'[j] = intr[j]
    BY <1>1, <1>5, <2>1 DEF ActorInterrupt
  <2>3. i \in InterruptReqs => intr'[i].turn = intr[i].turn /\ intr'[i].pc \in {"waiting", "claimed", "done"}
    BY <1>1, <1>5, <2>1 DEF ActorInterrupt, InterruptState
  <2>4. i \in InterruptReqs => IntrMove(i)
    BY <1>5, <2>1, <2>3 DEF IntrMove
  <2> QED
    BY <1>2, <2>2, <2>4
<1>6. CASE \E i \in InterruptReqs : Interrupter(i)
  <2>1. PICK i \in InterruptReqs : Interrupter(i)
    BY <1>6
  <2>2. CASE \E t \in TurnReqs : CheckTarget(i, t)
    <3>1. PICK t \in TurnReqs : CheckTarget(i, t)
      BY <2>2
    <3>2. intr[i].pc = "new" /\ \A j \in InterruptReqs \ {i} : intr'[j] = intr[j]
      BY <1>1, <3>1 DEF CheckTarget
    <3>3. intr'[i].turn = t /\ intr'[i].pc = IF registry.turn = t THEN "subscribed" ELSE "done"
      BY <1>1, <3>1 DEF CheckTarget, InterruptState
    <3>4. IntrMove(i)
      BY <3>2, <3>3 DEF IntrMove
    <3> QED
      BY <1>2, <3>2, <3>4
  <2>3. CASE ~\E t \in TurnReqs : CheckTarget(i, t)
    <3>1. \A j \in InterruptReqs \ {i} : intr'[j] = intr[j]
      BY <1>1, <2>1, <2>3 DEF Interrupter, RecheckRecent, CancelToken, AbortTask, SendInterrupt,
         ClearClaimed, FinishClaimed, HearTerminal, WaitTimesOut, Answer
    <3>2. intr'[i].turn = intr[i].turn
      BY <1>1, <2>1, <2>3 DEF Interrupter, RecheckRecent, CancelToken, AbortTask, SendInterrupt,
         ClearClaimed, FinishClaimed, HearTerminal, WaitTimesOut, Answer, InterruptState
    <3>3. \/ SendInterrupt(i) /\ intr'[i].pc = "claiming"
          \/ ClearClaimed(i) /\ intr'[i].pc = "persisting"
          \/ FinishClaimed(i) /\ intr'[i].pc = "done"
          \/ /\ intr[i].pc \in {"subscribed", "cancel", "abort", "waiting"}
             /\ intr'[i].pc \in {"done", "cancel", "abort", "claim"}
      BY <1>1, <2>1, <2>3 DEF Interrupter, RecheckRecent, CancelToken, AbortTask, SendInterrupt,
         ClearClaimed, FinishClaimed, HearTerminal, WaitTimesOut, Answer, InterruptState
    <3>4. IntrMove(i)
      BY <3>2, <3>3 DEF IntrMove
    <3> QED
      BY <1>2, <3>1, <3>4
  <2> QED
    BY <2>2, <2>3
<1>7. CASE Actor /\ ~ActorPersist /\ ~ActorInterrupt
  BY <1>3, <1>7 DEF Actor, ActorSnapshot, ActorSetActive, ActorRollback, ActorEnqueue, ActorContext,
     ActorCompleteShell, ActorPop, ActorPrepare, ActorExecute, StartQuery, QueryCancelled,
     ClearInterruptHandles, PersistAndEmitTerminal, CloseTurn, taskVars
<1>8. CASE \E r \in TurnReqs : Handler(r) \/ TurnTask(r)
  BY <1>3, <1>8 DEF Handler, ReadReservation, ReadCachedReservation, QueueInput, RefuseActive, Begin,
     SendPersist, SendRollback, AnnounceShell, RegisterToken, RegisterAndSpawn, AttachAndReply,
     TurnTask, SendExecute, ShellAskContext, ShellRun, ShellReturns, ShellClearHandles,
     ShellSendComplete, ShellEmitTerminal
<1>9. CASE \E c \in Chainers : Followup(c)
  BY <1>3, <1>9 DEF Followup, SendPop, SendPrepare, SendActivate, SendFollowup
<1>10. CASE QueryReturns \/ UNCHANGED vars
  BY <1>3, <1>10 DEF QueryReturns, vars, taskVars
<1> QED
  BY <1>4, <1>5, <1>6, <1>7, <1>8, <1>9, <1>10 DEF Next, Quiescent

(* Who sends a command that matters to the places of an input.               *)
SentBy(c) ==
  \/ c.op \notin {"pop", "prepare", "interrupt", "persist", "enqueue", "execute"}
  \/ c.op = "pop" /\ SendPop(c.by)
  \/ c.op = "prepare" /\ SendPrepare(c.by)
  \/ c.op = "interrupt" /\ SendInterrupt(c.by)
  \/ c.op = "persist" /\ (ClearClaimed(c.by) \/ c.by \in TurnReqs)
  \/ c.op = "enqueue" /\ QueueInput(c.turn)
  \/ c.op = "execute" /\ c.turn \in StartReqs /\ SendExecute(c.turn)
  \/ c.op = "execute" /\ c.by \in Chainers /\ c.turn = chain[c.by].turn /\ SendFollowup(c.by)

(* What a step does to the mailbox.                                          *)
MailboxMove ==
  \/ Kept(0)
  \/ Kept(1) /\ 1 \in DOMAIN mailbox /\ (Carries(mailbox[1]) => ActorEnqueue \/ ActorExecute)
  \/ \E c : Sent(c) /\ SentBy(c)

(* Every step keeps the mailbox, takes its first command or sends one.       *)
LEMMA MailboxMoves ==
  ASSUME TypeOK, TypeOK', [Next]_vars
  PROVE  MailboxMove
<1>1. ASSUME UNCHANGED mailbox PROVE MailboxMove
  BY <1>1, MailboxSteps DEF MailboxMove
<1>2. ASSUME NEW op, Receive(op), op \notin {"enqueue", "execute"} \/ ActorEnqueue \/ ActorExecute
      PROVE  MailboxMove
  BY <1>2, MailboxSteps DEF MailboxMove, Carries
<1>3. ASSUME NEW op, NEW by, NEW t, Send(Cmd(op, by, t)),
             ASSUME NEW c, c.op = op, c.by = by, c.turn = t PROVE SentBy(c)
      PROVE  MailboxMove
  <2>1. PICK c : c = Cmd(op, by, t)
    OBVIOUS
  <2>2. c.op = op /\ c.by = by /\ c.turn = t /\ Sent(c)
    BY <1>3, <2>1, MailboxSteps DEF Cmd
  <2>3. SentBy(c)
    BY <1>3, <2>2
  <2> QED
    BY <2>2, <2>3 DEF MailboxMove
<1>4. ASSUME NEW op \in {"snapshot", "begin", "rollback", "context", "shellDone", "activate"},
             NEW by, NEW t, Send(Cmd(op, by, t))
      PROVE  MailboxMove
  <2>1. ASSUME NEW c, c.op = op PROVE SentBy(c)
    BY <2>1 DEF SentBy
  <2> QED
    BY <1>3, <1>4, <2>1
<1>5. CASE Actor
  <2>1. CASE StartQuery \/ QueryCancelled \/ ClearInterruptHandles \/ PersistAndEmitTerminal \/ CloseTurn
    BY <1>1, <2>1 DEF StartQuery, QueryCancelled, ClearInterruptHandles, PersistAndEmitTerminal, CloseTurn
  <2>2. CASE ~(StartQuery \/ QueryCancelled \/ ClearInterruptHandles \/ PersistAndEmitTerminal \/ CloseTurn)
    <3>1. ActorEnqueue => Receive("enqueue")
      BY DEF ActorEnqueue
    <3>2. ActorExecute => Receive("execute")
      BY DEF ActorExecute
    <3>3. ASSUME ~ActorEnqueue, ~ActorExecute
          PROVE  \E op \in Ops \ {"enqueue", "execute"} : Receive(op)
      BY <1>5, <2>2, <3>3 DEF Actor, ActorSnapshot, ActorSetActive, ActorPersist, ActorRollback, ActorInterrupt,
         ActorContext, ActorCompleteShell, ActorPop, ActorPrepare, Ops
    <3> QED
      BY <1>2, <3>1, <3>2, <3>3
  <2> QED
    BY <2>1, <2>2
<1>6. CASE QueryReturns \/ UNCHANGED vars
  BY <1>1, <1>6 DEF QueryReturns, vars, actorVars
<1>7. CASE \E r \in TurnReqs : Handler(r)
  <2>1. PICK r \in TurnReqs : Handler(r)
    BY <1>7
  <2>2. CASE QueueInput(r)
    <3>1. Send(Cmd("enqueue", r, r))
      BY <2>2 DEF QueueInput
    <3>2. ASSUME NEW c, c.op = "enqueue", c.turn = r PROVE SentBy(c)
      BY <2>2, <3>2 DEF SentBy
    <3> QED
      BY <1>3, <3>1, <3>2
  <2>3. CASE SendPersist(r)
    <3>1. Send(Cmd("persist", r, r))
      BY <2>3 DEF SendPersist
    <3>2. ASSUME NEW c, c.op = "persist", c.by = r PROVE SentBy(c)
      BY <3>2 DEF SentBy
    <3> QED
      BY <1>3, <3>1, <3>2
  <2>4. CASE ~QueueInput(r) /\ ~SendPersist(r)
    <3>1. UNCHANGED mailbox \/ \E t : \E op \in {"snapshot", "begin", "rollback"} : Send(Cmd(op, r, t))
      BY <2>1, <2>4 DEF Handler, ReadReservation, ReadCachedReservation, RefuseActive, Begin, SendRollback,
           AnnounceShell, RegisterToken, RegisterAndSpawn, AttachAndReply, actorVars
    <3> QED
      BY <1>1, <1>4, <3>1
  <2> QED
    BY <2>2, <2>3, <2>4
<1>8. CASE \E t \in TurnReqs : TurnTask(t)
  <2>1. PICK t \in TurnReqs : TurnTask(t)
    BY <1>8
  <2>2. CASE SendExecute(t)
    <3>1. Send(Cmd("execute", t, t)) /\ t \in StartReqs
      BY <2>2 DEF SendExecute
    <3>2. ASSUME NEW c, c.op = "execute", c.turn = t PROVE SentBy(c)
      BY <2>2, <3>1, <3>2 DEF SentBy
    <3> QED
      BY <1>3, <3>1, <3>2
  <2>3. CASE ~SendExecute(t)
    <3>1. UNCHANGED mailbox \/ \E op \in {"context", "shellDone"} : Send(Cmd(op, t, t))
      BY <2>1, <2>3 DEF TurnTask, ShellAskContext, ShellRun, ShellReturns, ShellClearHandles,
           ShellSendComplete, ShellEmitTerminal, actorVars
    <3> QED
      BY <1>1, <1>4, <3>1
  <2> QED
    BY <2>2, <2>3
<1>9. CASE \E c \in Chainers : Followup(c)
  <2>1. PICK c \in Chainers : Followup(c)
    BY <1>9
  <2>2. CASE SendPop(c)
    <3>1. Send(Cmd("pop", c, NoTurn))
      BY <2>2 DEF SendPop
    <3>2. ASSUME NEW m, m.op = "pop", m.by = c PROVE SentBy(m)
      BY <2>2, <3>2 DEF SentBy
    <3> QED
      BY <1>3, <3>1, <3>2
  <2>3. CASE SendPrepare(c)
    <3>1. Send(Cmd("prepare", c, NoTurn))
      BY <2>3 DEF SendPrepare
    <3>2. ASSUME NEW m, m.op = "prepare", m.by = c PROVE SentBy(m)
      BY <2>3, <3>2 DEF SentBy
    <3> QED
      BY <1>3, <3>1, <3>2
  <2>4. CASE SendActivate(c)
    BY <1>4, <2>4 DEF SendActivate
  <2>5. CASE SendFollowup(c)
    <3>1. Send(Cmd("execute", c, chain[c].turn))
      BY <2>5 DEF SendFollowup
    <3>2. ASSUME NEW m, m.op = "execute", m.by = c, m.turn = chain[c].turn PROVE SentBy(m)
      BY <2>1, <2>5, <3>2 DEF SentBy
    <3> QED
      BY <1>3, <3>1, <3>2
  <2> QED
    BY <2>1, <2>2, <2>3, <2>4, <2>5 DEF Followup
<1>10. CASE \E i \in InterruptReqs : Interrupter(i)
  <2>1. PICK i \in InterruptReqs : Interrupter(i)
    BY <1>10
  <2>2. CASE SendInterrupt(i)
    <3>1. Send(Cmd("interrupt", i, NoTurn))
      BY <2>2 DEF SendInterrupt
    <3>2. ASSUME NEW m, m.op = "interrupt", m.by = i PROVE SentBy(m)
      BY <2>2, <3>2 DEF SentBy
    <3> QED
      BY <1>3, <3>1, <3>2
  <2>3. CASE ClearClaimed(i)
    <3>1. Send(Cmd("persist", i, intr[i].turn))
      BY <2>3 DEF ClearClaimed
    <3>2. ASSUME NEW m, m.op = "persist", m.by = i PROVE SentBy(m)
      BY <2>3, <3>2 DEF SentBy
    <3> QED
      BY <1>3, <3>1, <3>2
  <2>4. CASE ~SendInterrupt(i) /\ ~ClearClaimed(i)
    BY <1>1, <2>1, <2>4 DEF Interrupter, CheckTarget, RecheckRecent, CancelToken, AbortTask,
         FinishClaimed, HearTerminal, WaitTimesOut, actorVars
  <2> QED
    BY <2>2, <2>3, <2>4
<1> QED
  BY <1>5, <1>6, <1>7, <1>8, <1>9, <1>10 DEF Next, Quiescent

(* A call that stays in the mailbox finds its caller where it was.           *)
LEMMA CallersStay ==
  ASSUME TypeOK, TypeOK', AsideAwaited, ActorBusy, ClaimersChain, OneKind, [Next]_vars, NEW n \in DOMAIN mailbox
  PROVE  /\ OfChain(mailbox[n]) => \/ chain'[mailbox[n].by].pc = chain[mailbox[n].by].pc
                                   \/ n = 1 /\ Kept(1)
         /\ OfIntr(mailbox[n]) => \/ intr'[mailbox[n].by].pc = intr[mailbox[n].by].pc
                                  \/ n = 1 /\ Kept(1)
<1>1. PICK m : m = mailbox[n]
  OBVIOUS
<1>2. m.by \in Chainers
  <2>1. m \in Command
    BY <1>1 DEF TypeOK
  <2> QED
    BY <2>1 DEF Command, Chainers, TurnReqs
<1>3. ASSUME NEW op, Receive(op) PROVE Kept(1) /\ 1 \in DOMAIN mailbox /\ Cur = mailbox[1] /\ Cur.op = op
  BY <1>3, MailboxSteps
<1>4. ASSUME OfChain(m)
      PROVE  chain'[m.by].pc = chain[m.by].pc \/ (n = 1 /\ Kept(1))
  <2>1. chain[m.by].pc \in {"popping", "preparing"}
    BY <1>1, <1>4 DEF AsideAwaited, ChainAt
  <2>2. CASE (ActorPop \/ ActorPrepare) /\ Cur.by = m.by
    <3>1. Kept(1) /\ 1 \in DOMAIN mailbox /\ Cur = mailbox[1] /\ Cur.op \in {"pop", "prepare"}
      BY <1>3, <2>2 DEF ActorPop, ActorPrepare
    <3>2. n = 1
      BY <1>1, <1>4, <2>2, <3>1 DEF AsideAwaited, OfChain
    <3> QED
      BY <3>1, <3>2
  <2>3. CASE CloseTurn /\ exec.turn = m.by
    <3>1. exec.turn \in StartReqs
      BY <2>3 DEF ActorBusy, CloseTurn
    <3>2. chain[m.by].pc = "off"
      BY <2>3, <3>1 DEF OneKind, OneKindAt, Over
    <3> QED
      BY <2>1, <3>2
  <2>4. CASE m.by \in InterruptReqs /\ FinishClaimed(m.by)
    <3>1. chain[m.by].pc = "off"
      BY <2>4 DEF ClaimersChain, FinishClaimed
    <3> QED
      BY <2>1, <3>1
  <2>5. CASE SendPop(m.by) \/ SendPrepare(m.by) \/ SendActivate(m.by) \/ SendFollowup(m.by)
    BY <2>1, <2>5 DEF SendPop, SendPrepare, SendActivate, SendFollowup
  <2> QED
    BY <1>2, <2>2, <2>3, <2>4, <2>5, ChainMoves DEF ChainMove
<1>5. ASSUME OfIntr(m)
      PROVE  intr'[m.by].pc = intr[m.by].pc \/ (n = 1 /\ Kept(1))
  <2>1. intr[m.by].pc \in {"claiming", "persisting"} /\ m.by \in InterruptReqs
    BY <1>1, <1>5 DEF AsideAwaited, IntrAt, OfIntr
  <2>2. CASE (ActorPersist \/ ActorInterrupt) /\ Cur.by = m.by
    <3>1. Kept(1) /\ 1 \in DOMAIN mailbox /\ Cur = mailbox[1] /\ Cur.op \in {"persist", "interrupt"}
      BY <1>3, <2>2 DEF ActorPersist, ActorInterrupt
    <3>2. n = 1
      BY <1>1, <1>5, <2>1, <2>2, <3>1 DEF AsideAwaited, OfIntr
    <3> QED
      BY <3>1, <3>2
  <2>3. CASE SendInterrupt(m.by) \/ ClearClaimed(m.by) \/ FinishClaimed(m.by)
    BY <2>1, <2>3 DEF SendInterrupt, ClearClaimed, FinishClaimed
  <2> QED
    BY <2>1, <2>2, <2>3, IntrMoves DEF IntrMove
<1> QED
  BY <1>1, <1>4, <1>5

(* A chain or an interrupt handler waits for the one call it has sent.       *)
LEMMA AsideStep ==
  ASSUME TypeOK, TypeOK', AsideAwaited, ActorBusy, ClaimersChain, OneKind, [Next]_vars
  PROVE  AsideAwaited'
<1>1. ASSUME NEW k \in {0, 1}, Kept(k) PROVE AsideAwaited'
  <2>1. \A n \in DOMAIN mailbox' : n + k \in DOMAIN mailbox /\ n + k > k /\ mailbox'[n] = mailbox[n + k]
    BY <1>1, KeptCommands
  <2>2. \A n \in DOMAIN mailbox' : /\ OfChain(mailbox'[n]) => chain'[mailbox'[n].by].pc = chain[mailbox'[n].by].pc
                                   /\ OfIntr(mailbox'[n]) => intr'[mailbox'[n].by].pc = intr[mailbox'[n].by].pc
    <3> SUFFICES ASSUME NEW n \in DOMAIN mailbox'
                 PROVE  /\ OfChain(mailbox'[n]) => chain'[mailbox'[n].by].pc = chain[mailbox'[n].by].pc
                        /\ OfIntr(mailbox'[n]) => intr'[mailbox'[n].by].pc = intr[mailbox'[n].by].pc
      OBVIOUS
    <3>1. ~ (n + k = 1 /\ Kept(1))
      <4>1. CASE k = 0
        <5>1. Len(mailbox) \in Nat /\ Len(mailbox') \in Nat /\ Len(mailbox') = Len(mailbox) - 0
          BY <1>1, <4>1, MailboxSteps DEF Kept
        <5>2. Len(mailbox') # Len(mailbox) - 1
          BY <5>1
        <5> QED
          BY <5>2 DEF Kept
      <4>2. CASE k = 1
        BY <2>1, <4>2
      <4> QED
        BY <4>1, <4>2
    <3> QED
      BY <2>1, <3>1, CallersStay
  <2>3. \A n, j \in DOMAIN mailbox' : n + k = j + k => n = j
    BY MailboxSteps
  <2>4. \A n \in DOMAIN mailbox' : /\ OfChain(mailbox'[n]) => chain'[mailbox'[n].by].pc = ChainAt(mailbox'[n].op)
                                   /\ OfIntr(mailbox'[n]) => intr'[mailbox'[n].by].pc = IntrAt(mailbox'[n].op)
    BY <2>1, <2>2 DEF AsideAwaited
  <2>5. \A n, j \in DOMAIN mailbox' :
       /\ OfChain(mailbox'[n]) /\ OfChain(mailbox'[j]) /\ mailbox'[n].by = mailbox'[j].by => n = j
       /\ OfIntr(mailbox'[n]) /\ OfIntr(mailbox'[j]) /\ mailbox'[n].by = mailbox'[j].by => n = j
    BY <2>1, <2>3 DEF AsideAwaited
  <2> QED
    BY <2>4, <2>5 DEF AsideAwaited, OfChain, OfIntr
<1>2. ASSUME NEW c, Sent(c), SentBy(c) PROVE AsideAwaited'
  <2> DEFINE e == Len(mailbox')
  <2>1. \A n \in DOMAIN mailbox' :
          (n \in DOMAIN mailbox /\ mailbox'[n] = mailbox[n]) \/ (n = e /\ mailbox'[n] = c)
    BY <1>2, SentCommands
  <2>2. ~ Kept(1) /\ e \in DOMAIN mailbox' /\ mailbox'[e] = c
    <3>1. Len(mailbox) \in Nat /\ Len(mailbox') = Len(mailbox) + 1 /\ mailbox'[e] = c /\ DOMAIN mailbox' = 1..e
      BY <1>2, MailboxSteps DEF Sent
    <3>2. Len(mailbox') # Len(mailbox) - 1 /\ e \in 1..e
      BY <3>1
    <3> QED
      BY <3>1, <3>2 DEF Kept
  <2>3. c.by \in Chainers
    BY <2>2 DEF TypeOK, Command, Chainers, TurnReqs
  <2>4. \A n \in DOMAIN mailbox : /\ OfChain(mailbox[n]) => chain'[mailbox[n].by].pc = chain[mailbox[n].by].pc
                                  /\ OfIntr(mailbox[n]) => intr'[mailbox[n].by].pc = intr[mailbox[n].by].pc
    BY <2>2, CallersStay
  <2>5. OfChain(c) => /\ chain[c.by].pc \notin {"popping", "preparing"}
                      /\ chain'[c.by].pc = ChainAt(c.op)
    <3>1. OfChain(c) => (c.op = "pop" /\ SendPop(c.by)) \/ (c.op = "prepare" /\ SendPrepare(c.by))
      BY <1>2 DEF SentBy, OfChain
    <3> QED
      BY <2>3, <3>1 DEF TypeOK, ChainState, SendPop, SendPrepare, ChainAt
  <2>6. OfIntr(c) => /\ intr[c.by].pc \notin {"claiming", "persisting"}
                     /\ intr'[c.by].pc = IntrAt(c.op)
    <3>1. OfIntr(c) => /\ c.by \in InterruptReqs
                       /\ (c.op = "interrupt" /\ SendInterrupt(c.by)) \/ (c.op = "persist" /\ ClearClaimed(c.by))
      BY <1>2, SetsMeet DEF SentBy, OfIntr
    <3> QED
      BY <3>1 DEF TypeOK, InterruptState, SendInterrupt, ClearClaimed, IntrAt
  <2> HIDE DEF e
  <2>7. \A n \in DOMAIN mailbox : /\ OfChain(mailbox[n]) => chain[mailbox[n].by].pc \in {"popping", "preparing"}
                                  /\ OfIntr(mailbox[n]) => intr[mailbox[n].by].pc \in {"claiming", "persisting"}
    BY DEF AsideAwaited, ChainAt, IntrAt
  <2>8. \A n \in DOMAIN mailbox' : /\ OfChain(mailbox'[n]) => chain'[mailbox'[n].by].pc = ChainAt(mailbox'[n].op)
                                   /\ OfIntr(mailbox'[n]) => intr'[mailbox'[n].by].pc = IntrAt(mailbox'[n].op)
    BY <2>1, <2>4, <2>5, <2>6 DEF AsideAwaited
  <2>9. ASSUME NEW n \in DOMAIN mailbox', NEW j \in DOMAIN mailbox', mailbox'[n].by = mailbox'[j].by,
               \/ OfChain(mailbox'[n]) /\ OfChain(mailbox'[j])
               \/ OfIntr(mailbox'[n]) /\ OfIntr(mailbox'[j])
        PROVE  n = j
    <3>1. CASE n \in DOMAIN mailbox /\ mailbox'[n] = mailbox[n] /\ j \in DOMAIN mailbox /\ mailbox'[j] = mailbox[j]
      BY <2>9, <3>1 DEF AsideAwaited
    <3>2. CASE n \in DOMAIN mailbox /\ mailbox'[n] = mailbox[n] /\ j = e /\ mailbox'[j] = c
      BY <2>5, <2>6, <2>7, <2>9, <3>2
    <3>3. CASE j \in DOMAIN mailbox /\ mailbox'[j] = mailbox[j] /\ n = e /\ mailbox'[n] = c
      BY <2>5, <2>6, <2>7, <2>9, <3>3
    <3> QED
      BY <2>1, <3>1, <3>2, <3>3
  <2> QED
    BY <2>8, <2>9 DEF AsideAwaited, OfChain, OfIntr
<1> QED
  BY <1>1, <1>2, MailboxMoves DEF MailboxMove

(* What a step does to the turn the actor executes.                          *)
ExecMove ==
  \/ exec' = exec
  \/ ActorExecute /\ exec.pc = "idle" /\ exec'.pc = "starting" /\ exec'.turn = Cur.turn
  \/ CloseTurn /\ exec.pc = "closing" /\ exec'.pc = "idle" /\ exec'.turn = NoTurn
  \/ /\ exec'.turn = exec.turn /\ exec.pc \notin {"idle", "closing"}
     /\ \/ exec'.pc \notin {"idle", "closing"} /\ ~PersistAndEmitTerminal
        \/ exec'.pc = "closing" /\ PersistAndEmitTerminal

(* Every step does one of these to what the actor executes.                  *)
LEMMA ExecMoves ==
  ASSUME TypeOK, [Next]_vars
  PROVE  ExecMove
<1>1. exec \in ExecState
  BY DEF TypeOK
<1>2. CASE UNCHANGED exec
  BY <1>2 DEF ExecMove
<1>3. CASE ActorExecute
  BY <1>3 DEF ActorExecute, Receive, ExecMove
<1>4. CASE CloseTurn
  BY <1>1, <1>4 DEF CloseTurn, ExecState, ExecMove
<1>5. CASE PersistAndEmitTerminal
  <2>1. exec.pc = "ending" /\ exec'.pc = "closing" /\ exec'.turn = exec.turn
    BY <1>1, <1>5 DEF PersistAndEmitTerminal, ExecState
  <2> QED
    BY <1>5, <2>1 DEF ExecMove
<1>6. CASE StartQuery \/ QueryReturns \/ QueryCancelled \/ ClearInterruptHandles
  <2>1. /\ exec'.turn = exec.turn /\ exec.pc \in {"starting", "querying", "finalizing"}
        /\ exec'.pc \in {"querying", "finalizing", "ending"}
    BY <1>1, <1>6 DEF StartQuery, QueryReturns, QueryCancelled, ClearInterruptHandles, ExecState
  <2>2. ~PersistAndEmitTerminal
    BY <2>1 DEF PersistAndEmitTerminal
  <2> QED
    BY <2>1, <2>2 DEF ExecMove
<1>7. CASE ActorSnapshot \/ ActorSetActive \/ ActorPersist \/ ActorRollback \/ ActorEnqueue \/ ActorInterrupt
           \/ ActorContext \/ ActorCompleteShell \/ ActorPop \/ ActorPrepare
  BY <1>2, <1>7 DEF ActorSnapshot, ActorSetActive, ActorPersist, ActorRollback, ActorEnqueue, ActorInterrupt,
     ActorContext, ActorCompleteShell, ActorPop, ActorPrepare
<1>8. CASE \E r \in TurnReqs : Handler(r) \/ TurnTask(r)
  BY <1>2, <1>8 DEF Handler, ReadReservation, ReadCachedReservation, QueueInput, RefuseActive, Begin,
     SendPersist, SendRollback, AnnounceShell, RegisterToken, RegisterAndSpawn, AttachAndReply,
     TurnTask, SendExecute, ShellAskContext, ShellRun, ShellReturns, ShellClearHandles,
     ShellSendComplete, ShellEmitTerminal, actorVars
<1>9. CASE (\E c \in Chainers : Followup(c)) \/ (\E i \in InterruptReqs : Interrupter(i))
  BY <1>2, <1>9 DEF Followup, SendPop, SendPrepare, SendActivate, SendFollowup,
     Interrupter, CheckTarget, RecheckRecent, CancelToken, AbortTask, SendInterrupt,
     ClearClaimed, FinishClaimed, HearTerminal, WaitTimesOut, actorVars
<1>10. CASE UNCHANGED vars
  BY <1>2, <1>10 DEF vars, actorVars
<1> QED
  BY <1>3, <1>4, <1>5, <1>6, <1>7, <1>8, <1>9, <1>10 DEF Next, Actor, Quiescent

(* The actor executes start requests only, and none when it is idle.         *)
LEMMA BusyStep ==
  ASSUME TypeOK, TypeOK', QueuedOnes, ActorBusy, [Next]_vars
  PROVE  ActorBusy'
<1>1. \A n \in DOMAIN mailbox : mailbox[n].op = "execute" => mailbox[n].turn \in StartReqs
  BY DEF ActorBusy
<1>2. ActorExecute => Cur.turn \in StartReqs
  <2>1. ActorExecute => 1 \in DOMAIN mailbox /\ Cur = mailbox[1] /\ Cur.op = "execute"
    BY MailboxSteps DEF ActorExecute
  <2> QED
    BY <1>1, <2>1
<1>3. (exec'.pc = "idle" <=> exec'.turn = NoTurn) /\ exec'.turn \in StartReqs \cup {NoTurn}
  BY <1>2, ExecMoves, SetsMeet DEF ExecMove, ActorBusy
<1>4. ASSUME NEW k \in {0, 1}, Kept(k)
      PROVE  \A n \in DOMAIN mailbox' : mailbox'[n].op = "execute" => mailbox'[n].turn \in StartReqs
  BY <1>1, <1>4, KeptCommands
<1>5. ASSUME NEW c, Sent(c), SentBy(c)
      PROVE  \A n \in DOMAIN mailbox' : mailbox'[n].op = "execute" => mailbox'[n].turn \in StartReqs
  <2>1. \A d \in Chainers : SendFollowup(d) => chain[d].turn \in StartReqs
    BY DEF QueuedOnes, IsQueued, SendFollowup
  <2>2. c.op = "execute" => c.turn \in StartReqs
    BY <1>5, <2>1 DEF SentBy
  <2> QED
    BY <1>1, <1>5, <2>2, SentCommands
<1> QED
  BY <1>3, <1>4, <1>5, MailboxMoves DEF MailboxMove, ActorBusy

(* An interrupt handler is done when its chain runs.                         *)
LEMMA ClaimersStep ==
  ASSUME TypeOK, TypeOK', AsideAwaited, ActorBusy, ClaimersChain, [Next]_vars
  PROVE  ClaimersChain'
<1> SUFFICES ASSUME NEW i \in InterruptReqs, chain'[i].pc # "off" PROVE intr'[i].pc = "done"
  BY DEF ClaimersChain
<1>1. i \in Chainers /\ i \notin TurnReqs
  BY SetsMeet DEF Chainers
<1>2. ASSUME NEW op, Receive(op) PROVE 1 \in DOMAIN mailbox /\ Cur = mailbox[1] /\ Cur.op = op
  BY <1>2, MailboxSteps
<1>3. CASE chain[i].pc # "off"
  <2>1. intr[i].pc = "done"
    BY <1>3 DEF ClaimersChain
  <2>2. ~ ((ActorPersist \/ ActorInterrupt) /\ Cur.by = i)
    <3> SUFFICES ASSUME ActorPersist \/ ActorInterrupt, Cur.by = i PROVE FALSE
      OBVIOUS
    <3>1. 1 \in DOMAIN mailbox /\ Cur = mailbox[1] /\ Cur.op \in {"persist", "interrupt"}
      BY <1>2 DEF ActorPersist, ActorInterrupt
    <3>2. intr[i].pc = IntrAt(Cur.op)
      BY <3>1 DEF AsideAwaited, OfIntr
    <3> QED
      BY <2>1, <3>2 DEF IntrAt
  <2> QED
    BY <2>1, <2>2, IntrMoves DEF IntrMove, SendInterrupt, ClearClaimed
<1>4. CASE chain[i].pc = "off"
  <2>1. ~ ((ActorPop \/ ActorPrepare) /\ Cur.by = i)
    <3> SUFFICES ASSUME ActorPop \/ ActorPrepare, Cur.by = i PROVE FALSE
      OBVIOUS
    <3>1. 1 \in DOMAIN mailbox /\ Cur = mailbox[1] /\ Cur.op \in {"pop", "prepare"}
      BY <1>2 DEF ActorPop, ActorPrepare
    <3>2. chain[i].pc = ChainAt(Cur.op)
      BY <3>1 DEF AsideAwaited, OfChain
    <3> QED
      BY <1>4, <3>2 DEF ChainAt
  <2>2. ~ (CloseTurn /\ exec.turn = i)
    BY <1>1, SetsMeet DEF ActorBusy, CloseTurn
  <2>3. FinishClaimed(i)
    BY <1>1, <1>4, <2>1, <2>2, ChainMoves DEF ChainMove, SendPop, SendPrepare, SendActivate, SendFollowup
  <2>4. intr[i].pc = "finish" /\ intr'[i].pc = "done"
    BY <2>3 DEF FinishClaimed, Answer, TypeOK, InterruptState
  <2> QED
    BY <2>4
<1> QED
  BY <1>3, <1>4

(* An interrupt handler is after a turn that a handler started, never after   *)
(* a queued input: those are not registered.                                *)
LEMMA ClaimsStep ==
  ASSUME TypeOK, TypeOK', AsideAwaited, RunningOnes, ClaimsStarted, Grow, [Next]_vars
  PROVE  ClaimsStarted'
<1> DEFINE S(t) == req'[t].pc = "attach" \/ req'[t].reply = "Started"
<1>a. \A t \in TurnReqs : Spawned(t) => S(t)
  BY DEF Grow, Spawned
<1> SUFFICES ASSUME NEW i \in InterruptReqs, intr'[i].pc \notin {"new", "done"}
             PROVE  intr'[i].turn \in TurnReqs /\ S(intr'[i].turn)
  BY DEF ClaimsStarted, Spawned
<1>1. CASE intr[i].pc \notin {"new", "done"}
  <2>1. intr'[i].turn = intr[i].turn
    BY <1>1, IntrMoves DEF IntrMove
  <2> QED
    BY <1>1, <1>a, <2>1 DEF ClaimsStarted
<1>2. CASE intr[i].pc \in {"new", "done"}
  <2>1. ~ ((ActorPersist \/ ActorInterrupt) /\ Cur.by = i)
    <3> SUFFICES ASSUME ActorPersist \/ ActorInterrupt, Cur.by = i PROVE FALSE
      OBVIOUS
    <3>1. 1 \in DOMAIN mailbox /\ Cur = mailbox[1] /\ Cur.op \in {"persist", "interrupt"}
      BY MailboxSteps DEF ActorPersist, ActorInterrupt
    <3>2. intr[i].pc = IntrAt(Cur.op)
      BY <3>1 DEF AsideAwaited, OfIntr
    <3> QED
      BY <1>2, <3>2 DEF IntrAt
  <2>2. intr'[i].turn \in TurnReqs /\ intr'[i].turn = registry.turn
    BY <1>2, <2>1, IntrMoves DEF IntrMove, SendInterrupt, ClearClaimed, FinishClaimed
  <2> QED
    BY <1>a, <2>2, SetsMeet DEF RunningOnes
<1> QED
  BY <1>1, <1>2

(* Only its own handler answers a request Queued.                            *)
LEMMA QueuedBefore ==
  ASSUME TypeOK, [Next]_vars, NEW r \in StartReqs, req'[r].reply = "Queued"
  PROVE  req[r].reply = "Queued" \/ QueueInput(r)
<1>1. req \in [TurnReqs -> HandlerState] /\ r \in TurnReqs /\ req[r] \in HandlerState
  BY SetsMeet DEF TypeOK
<1>2. CASE UNCHANGED req
  BY <1>2
<1>3. CASE ActorSnapshot \/ ActorRollback
  BY <1>1, <1>3 DEF ActorSnapshot, ActorRollback, HandlerState
<1>4. CASE ActorPersist
  <2>1. UNCHANGED req \/ \E p : req' = [req EXCEPT ![Cur.by].pc = p]
    BY <1>4 DEF ActorPersist
  <2>2. PICK b, p : UNCHANGED req \/ req' = [req EXCEPT ![b].pc = p]
    BY <2>1
  <2> QED
    BY <1>1, <2>2 DEF HandlerState
<1>5. CASE \E q \in TurnReqs : Handler(q)
  <2>1. PICK q \in TurnReqs : Handler(q)
    BY <1>5
  <2>2. CASE q # r
    <3>1. req'[r] = req[r]
      BY <1>1, <2>1, <2>2 DEF Handler, ReadReservation, ReadCachedReservation, QueueInput, RefuseActive, Begin,
         SendPersist, SendRollback, AnnounceShell, RegisterToken, RegisterAndSpawn, AttachAndReply
    <3> QED
      BY <3>1
  <2>3. CASE q = r /\ ~QueueInput(r)
    <3>1. CASE ReadCachedReservation(r)
      BY <1>1, <3>1 DEF ReadCachedReservation, HandlerState
    <3>2. CASE RefuseActive(r) \/ AttachAndReply(r)
      BY <1>1, <3>2 DEF RefuseActive, AttachAndReply, HandlerState
    <3>3. CASE ~ReadCachedReservation(r) /\ ~RefuseActive(r) /\ ~AttachAndReply(r)
      <4>1. \E p : req' = [req EXCEPT ![r].pc = p]
        BY <2>1, <2>3, <3>3 DEF Handler, ReadReservation, Begin, SendPersist, SendRollback, AnnounceShell,
           RegisterToken, RegisterAndSpawn
      <4> QED
        BY <1>1, <4>1 DEF HandlerState
    <3> QED
      BY <3>1, <3>2, <3>3
  <2> QED
    BY <2>2, <2>3
<1>6. CASE Actor /\ ~ActorSnapshot /\ ~ActorRollback /\ ~ActorPersist
  BY <1>2, <1>6 DEF Actor, ActorSetActive, ActorEnqueue, ActorInterrupt, ActorContext,
     ActorCompleteShell, ActorPop, ActorPrepare, ActorExecute, StartQuery, QueryCancelled,
     ClearInterruptHandles, PersistAndEmitTerminal, CloseTurn, taskVars
<1>7. CASE \E t \in TurnReqs : TurnTask(t)
  BY <1>2, <1>7 DEF TurnTask, SendExecute, ShellAskContext, ShellRun, ShellReturns, ShellClearHandles,
     ShellSendComplete, ShellEmitTerminal
<1>8. CASE (\E c \in Chainers : Followup(c)) \/ (\E i \in InterruptReqs : Interrupter(i))
  BY <1>2, <1>8 DEF Followup, SendPop, SendPrepare, SendActivate, SendFollowup,
     Interrupter, CheckTarget, RecheckRecent, CancelToken, AbortTask, SendInterrupt,
     ClearClaimed, FinishClaimed, HearTerminal, WaitTimesOut
<1>9. CASE QueryReturns \/ UNCHANGED vars
  BY <1>2, <1>9 DEF QueryReturns, vars, taskVars
<1> QED
  BY <1>3, <1>4, <1>5, <1>6, <1>7, <1>8, <1>9 DEF Next, Quiescent

(* What a step that takes commands, or sends one, does to those that carry   *)
(* an input.                                                                 *)
LEMMA MailKept ==
  ASSUME TypeOK, TypeOK', OneMail, NEW k \in {0, 1}, Kept(k), k = 1 => 1 \in DOMAIN mailbox
  PROVE  /\ OneMail'
         /\ \A r : InMailbox(r)' <=>
              InMailbox(r) /\ ~(k = 1 /\ Carries(mailbox[1]) /\ mailbox[1].turn = r)
<1>1. \A n \in DOMAIN mailbox' : n + k \in DOMAIN mailbox /\ n + k > k /\ mailbox'[n] = mailbox[n + k]
  BY KeptCommands
<1>2. \A n, j \in DOMAIN mailbox' : n + k = j + k => n = j
  BY MailboxSteps
<1>3. \A n \in DOMAIN mailbox : (n = 1 /\ k = 1) \/ (n - k \in DOMAIN mailbox' /\ mailbox'[n - k] = mailbox[n])
  <2>1. PICK a \in Nat, b \in Nat : /\ DOMAIN mailbox = 1..a /\ DOMAIN mailbox' = 1..b /\ b = a - k
                                    /\ a = Len(mailbox) /\ b = Len(mailbox')
    BY MailboxSteps DEF Kept
  <2>2. \A n \in 1..a : (n = 1 /\ k = 1) \/ (n - k \in 1..b /\ (n - k) + k = n)
    <3>1. CASE k = 0
      BY <2>1, <3>1
    <3>2. CASE k = 1
      BY <2>1, <3>2
    <3> QED
      BY <3>1, <3>2
  <2> QED
    BY <1>1, <2>1, <2>2
<1>4. OneMail'
  BY <1>1, <1>2 DEF OneMail, Carries
<1>5. ASSUME NEW r, InMailbox(r)'
      PROVE  InMailbox(r) /\ ~(k = 1 /\ Carries(mailbox[1]) /\ mailbox[1].turn = r)
  <2>1. PICK n \in DOMAIN mailbox' : Carries(mailbox'[n]) /\ mailbox'[n].turn = r
    BY <1>5 DEF InMailbox, Carries
  <2>2. InMailbox(r)
    BY <1>1, <2>1 DEF InMailbox
  <2>3. ASSUME k = 1, Carries(mailbox[1]), mailbox[1].turn = r PROVE FALSE
    <3>1. n + k # 1
      BY <1>1, <2>3
    <3> QED
      BY <1>1, <2>1, <2>3, <3>1 DEF OneMail
  <2> QED
    BY <2>2, <2>3
<1>6. ASSUME NEW r, InMailbox(r), ~(k = 1 /\ Carries(mailbox[1]) /\ mailbox[1].turn = r)
      PROVE  InMailbox(r)'
  <2>1. PICK n \in DOMAIN mailbox : Carries(mailbox[n]) /\ mailbox[n].turn = r
    BY <1>6 DEF InMailbox
  <2>2. n - k \in DOMAIN mailbox' /\ mailbox'[n - k] = mailbox[n]
    BY <1>3, <1>6, <2>1
  <2> QED
    BY <2>1, <2>2 DEF InMailbox, Carries
<1> QED
  BY <1>4, <1>5, <1>6

(* What sending a command does to those that carry an input.                 *)
LEMMA MailSent ==
  ASSUME TypeOK, TypeOK', OneMail, NEW c, Sent(c), Carries(c) => ~InMailbox(c.turn)
  PROVE  /\ OneMail'
         /\ \A r : InMailbox(r)' <=> InMailbox(r) \/ (Carries(c) /\ c.turn = r)
<1>1. \A n \in DOMAIN mailbox' :
        (n \in DOMAIN mailbox /\ mailbox'[n] = mailbox[n]) \/ (n = Len(mailbox') /\ mailbox'[n] = c)
  BY SentCommands
<1>2. /\ \A n \in DOMAIN mailbox : n \in DOMAIN mailbox' /\ mailbox'[n] = mailbox[n]
      /\ Len(mailbox') \in DOMAIN mailbox' /\ mailbox'[Len(mailbox')] = c
  BY MailboxSteps DEF Sent
<1>3. OneMail'
  BY <1>1 DEF OneMail, Carries, InMailbox
<1>4. \A r : InMailbox(r)' => InMailbox(r) \/ (Carries(c) /\ c.turn = r)
  BY <1>1 DEF InMailbox, Carries
<1>5. \A r : InMailbox(r) \/ (Carries(c) /\ c.turn = r) => InMailbox(r)'
  BY <1>2 DEF InMailbox, Carries
<1> QED
  BY <1>3, <1>4, <1>5

(* Chains that keep what they hold.                                          *)
LEMMA ChainsKeep ==
  ASSUME OneChain, NEW D \in SUBSET Chainers,
         \A d \in Chainers \ D : (Holds(d)' <=> Holds(d)) /\ (Holds(d) => chain'[d].turn = chain[d].turn),
         \A d \in D : ~Holds(d)'
  PROVE  /\ OneChain'
         /\ \A r : InChain(r)' <=> \E d \in Chainers \ D : Holds(d) /\ chain[d].turn = r
BY DEF OneChain, InChain

(* What was not queued and has no task is nowhere.                           *)
LEMMA Nowhere ==
  ASSUME QueuedOnes, RunningOnes, SomeKind, NEW r \in StartReqs, ~IsQueued(r), ~Spawned(r)
  PROVE  ~SomePlace(r) /\ ~ToSend(r)
<1>1. r \in TurnReqs /\ r # NoTurn
  BY SetsMeet
<1>2. ~InMailbox(r)
  BY DEF QueuedOnes, RunningOnes, InMailbox, Carries
<1>3. ~InQueue(r)
  BY DEF QueuedOnes, InQueue
<1>4. ~InChain(r)
  BY <1>1 DEF QueuedOnes, InChain
<1>5. exec.turn # r /\ ~Over(r) /\ r \notin merged /\ ~ToSend(r)
  BY <1>1 DEF RunningOnes, SomeKind, ToSend
<1> QED
  BY <1>2, <1>3, <1>4, <1>5 DEF SomePlace

(* The steps that change the queue.                                          *)
LEMMA QueueChanges ==
  ASSUME [Next]_vars, ~StartQuery, ~ActorEnqueue, ~(ActorPop /\ queue # <<>>)
  PROVE  UNCHANGED <<queue, merged>>
<1>1. CASE Actor
  BY <1>1 DEF Actor, ActorSnapshot, ActorSetActive, ActorPersist, ActorRollback, ActorInterrupt, ActorContext,
     ActorCompleteShell, ActorPop, ActorPrepare, ActorExecute, QueryCancelled, ClearInterruptHandles,
     PersistAndEmitTerminal, CloseTurn, historyVars
<1>2. CASE \E r \in TurnReqs : Handler(r)
  BY <1>2 DEF Handler, ReadReservation, ReadCachedReservation, QueueInput, RefuseActive, Begin,
     SendPersist, SendRollback, AnnounceShell, RegisterToken, RegisterAndSpawn, AttachAndReply, actorVars, historyVars
<1>3. CASE \E t \in TurnReqs : TurnTask(t)
  BY <1>3 DEF TurnTask, SendExecute, ShellAskContext, ShellRun, ShellReturns, ShellClearHandles,
     ShellSendComplete, ShellEmitTerminal, actorVars, historyVars
<1>4. CASE \E c \in Chainers : Followup(c)
  BY <1>4 DEF Followup, SendPop, SendPrepare, SendActivate, SendFollowup, historyVars
<1>5. CASE \E i \in InterruptReqs : Interrupter(i)
  BY <1>5 DEF Interrupter, CheckTarget, RecheckRecent, CancelToken, AbortTask, SendInterrupt,
     ClearClaimed, FinishClaimed, HearTerminal, WaitTimesOut, actorVars, historyVars
<1>6. CASE QueryReturns \/ UNCHANGED vars
  BY <1>6 DEF QueryReturns, vars, actorVars, historyVars
<1> QED
  BY <1>1, <1>2, <1>3, <1>4, <1>5, <1>6 DEF Next, Quiescent

(* A task that is still to send its turn to the actor was just spawned, or   *)
(* had not sent it.                                                          *)
LEMMA TasksSpawned ==
  ASSUME TypeOK, [Next]_vars, NEW t \in TurnReqs, ToSend(t)'
  PROVE  (ToSend(t) /\ ~SendExecute(t)) \/ RegisterAndSpawn(t)
<1>1. task \in [TurnReqs -> TaskState] /\ task[t] \in TaskState /\ task'[t].pc = "spawned"
  BY DEF TypeOK, ToSend
<1>2. CASE UNCHANGED task
  <2>1. ~SendExecute(t)
    BY <1>1, <1>2 DEF SendExecute, TaskState
  <2> QED
    BY <1>1, <1>2, <2>1 DEF ToSend
<1>3. ASSUME NEW r, \A u \in TurnReqs \ {r} : task'[u] = task[u], r = t => ToSend(t) /\ ~SendExecute(t)
      PROVE  ToSend(t) /\ ~SendExecute(t)
  <2>1. CASE r # t
    <3>1. task'[t] = task[t]
      BY <1>3, <2>1
    <3>2. ~SendExecute(t)
      BY <1>1, <3>1 DEF SendExecute, TaskState
    <3> QED
      BY <1>1, <3>1, <3>2 DEF ToSend
  <2> QED
    BY <1>3, <2>1
<1>4. CASE ActorContext
  <2>1. PICK r : r = Cur.turn
    OBVIOUS
  <2>2. task' = [task EXCEPT ![r].pc = IF @ = "preparing" THEN "prepared" ELSE @]
    BY <1>4, <2>1 DEF ActorContext
  <2>3. r = t => task[t].pc = "spawned" /\ ~SendExecute(t)
    BY <1>1, <2>2 DEF TaskState, SendExecute
  <2> QED
    BY <1>1, <1>3, <2>2, <2>3 DEF ToSend
<1>5. CASE ActorCompleteShell
  <2>1. PICK r : r = Cur.turn
    OBVIOUS
  <2>2. task' = [task EXCEPT ![r].pc = IF @ = "completing" THEN "completed" ELSE @]
    BY <1>5, <2>1 DEF ActorCompleteShell
  <2>3. r = t => task[t].pc = "spawned" /\ ~SendExecute(t)
    BY <1>1, <2>2 DEF TaskState, SendExecute
  <2> QED
    BY <1>1, <1>3, <2>2, <2>3 DEF ToSend
<1>6. CASE \E r \in TurnReqs : RegisterAndSpawn(r)
  <2>1. PICK r \in TurnReqs : RegisterAndSpawn(r)
    BY <1>6
  <2>2. \A u \in TurnReqs \ {r} : task'[u] = task[u]
    BY <1>1, <2>1 DEF RegisterAndSpawn
  <2> QED
    BY <1>3, <2>1, <2>2
<1>7. CASE \E r \in TurnReqs : TurnTask(r)
  <2>1. PICK r \in TurnReqs : TurnTask(r)
    BY <1>7
  <2>2. \A u \in TurnReqs \ {r} : task'[u] = task[u]
    BY <1>1, <2>1 DEF TurnTask, SendExecute, ShellAskContext, ShellRun, ShellReturns, ShellClearHandles,
     ShellSendComplete, ShellEmitTerminal
  <2>3. task'[r].pc # "spawned"
    BY <1>1, <2>1 DEF TurnTask, SendExecute, ShellAskContext, ShellRun, ShellReturns, ShellClearHandles,
     ShellSendComplete, ShellEmitTerminal, TaskState
  <2> QED
    BY <1>1, <1>3, <2>2, <2>3
<1>8. CASE \E i \in InterruptReqs : AbortTask(i)
  <2>1. PICK i \in InterruptReqs : AbortTask(i)
    BY <1>8
  <2>2. PICK r : r = registry.abort
    OBVIOUS
  <2>3. UNCHANGED task \/ task' = [task EXCEPT ![r].pc = Aborted(r, @)]
    BY <2>1, <2>2 DEF AbortTask
  <2>4. ASSUME task' = [task EXCEPT ![r].pc = Aborted(r, @)] PROVE r # t
    <3>1. r = t => task'[t].pc = Aborted(t, task[t].pc)
      BY <1>1, <2>4 DEF TaskState
    <3>2. Aborted(t, task[t].pc) # "spawned"
      BY DEF Aborted
    <3> QED
      BY <1>1, <3>1, <3>2
  <2> QED
    BY <1>1, <1>2, <1>3, <2>3, <2>4
<1>9. CASE Actor /\ ~ActorContext /\ ~ActorCompleteShell
  BY <1>2, <1>9 DEF Actor, ActorSnapshot, ActorSetActive, ActorPersist, ActorRollback, ActorEnqueue,
     ActorInterrupt, ActorPop, ActorPrepare, ActorExecute, StartQuery, QueryCancelled,
     ClearInterruptHandles, PersistAndEmitTerminal, CloseTurn, taskVars
<1>10. CASE \E r \in TurnReqs : Handler(r) /\ ~RegisterAndSpawn(r)
  BY <1>2, <1>10 DEF Handler, ReadReservation, ReadCachedReservation, QueueInput, RefuseActive, Begin,
     SendPersist, SendRollback, AnnounceShell, RegisterToken, AttachAndReply
<1>11. CASE (\E c \in Chainers : Followup(c)) \/ (\E i \in InterruptReqs : Interrupter(i) /\ ~AbortTask(i))
  BY <1>2, <1>11 DEF Followup, SendPop, SendPrepare, SendActivate, SendFollowup,
     Interrupter, CheckTarget, RecheckRecent, CancelToken, SendInterrupt,
     ClearClaimed, FinishClaimed, HearTerminal, WaitTimesOut
<1>12. CASE QueryReturns \/ UNCHANGED vars
  BY <1>2, <1>12 DEF QueryReturns, vars, taskVars
<1> QED
  BY <1>4, <1>5, <1>6, <1>7, <1>8, <1>9, <1>10, <1>11, <1>12 DEF Next, Quiescent

(* A chain leaves "off" only when its own turn is over.                      *)
LEMMA OverMoves ==
  ASSUME TypeOK, TypeOK', AsideAwaited, [Next]_vars, NEW r \in StartReqs
  PROVE  Over(r)' <=> Over(r) \/ (CloseTurn /\ exec.turn = r)
<1>1. r \in Chainers /\ r \notin InterruptReqs
  BY SetsMeet DEF Chainers
<1>2. ~ ((ActorPop \/ ActorPrepare) /\ Cur.by = r /\ chain[r].pc = "off")
  <2> SUFFICES ASSUME ActorPop \/ ActorPrepare, Cur.by = r, chain[r].pc = "off" PROVE FALSE
    OBVIOUS
  <2>1. 1 \in DOMAIN mailbox /\ Cur = mailbox[1] /\ Cur.op \in {"pop", "prepare"}
    BY MailboxSteps DEF ActorPop, ActorPrepare
  <2>2. chain[r].pc = ChainAt(Cur.op)
    BY <2>1 DEF AsideAwaited, OfChain
  <2> QED
    BY <2>2 DEF ChainAt
<1>3. ASSUME CloseTurn, exec.turn = r PROVE chain'[r].pc = "pop"
  BY <1>1, <1>3 DEF CloseTurn, TypeOK, ChainState
<1> QED
  BY <1>1, <1>2, <1>3, ChainMoves DEF ChainMove, Over, SendPop, SendPrepare, SendActivate, SendFollowup

(* An input leaves the mailbox, and enters it.                               *)
Taken(r) == (ActorEnqueue \/ ActorExecute) /\ Cur.turn = r
Passed(r) == \E c \in Chainers : SendFollowup(c) /\ chain[c].turn = r
Put(r) == QueueInput(r) \/ SendExecute(r) \/ Passed(r)
Popped(r) == ActorPop /\ queue # <<>> /\ Head(queue) = r

(* A step moves an input from the place it was in.                           *)
LEMMA Sources ==
  ASSUME TypeOK, TypeOK', Untold, QueuedOnes, RunningOnes, SomeKind, NEW r \in StartReqs
  PROVE  /\ Taken(r) => InMailbox(r)
         /\ Popped(r) => InQueue(r)
         /\ Passed(r) => InChain(r)
         /\ SendExecute(r) => ToSend(r)
         /\ QueueInput(r) \/ RegisterAndSpawn(r) => ~SomePlace(r) /\ ~ToSend(r)
<1>1. r \in TurnReqs /\ req[r] \in HandlerState
  BY SetsMeet DEF TypeOK
<1>2. ASSUME Taken(r) PROVE InMailbox(r)
  <2>1. 1 \in DOMAIN mailbox /\ Cur = mailbox[1] /\ Cur.op \in {"enqueue", "execute"} /\ Cur.turn = r
    BY <1>2, MailboxSteps DEF Taken, ActorEnqueue, ActorExecute
  <2> QED
    BY <2>1 DEF InMailbox, Carries
<1>3. ASSUME Popped(r) PROVE InQueue(r)
  <2>1. queue \in Seq(StartReqs) /\ queue # <<>> /\ Head(queue) = r
    BY <1>3 DEF Popped, TypeOK
  <2>2. 1 \in DOMAIN queue /\ queue[1] = r
    BY <2>1
  <2> QED
    BY <2>2 DEF InQueue
<1>4. Passed(r) => InChain(r)
  BY DEF Passed, InChain, Holds, SendFollowup
<1>5. SendExecute(r) => ToSend(r)
  BY DEF SendExecute, ToSend
<1>6. ASSUME QueueInput(r) \/ RegisterAndSpawn(r) PROVE ~SomePlace(r) /\ ~ToSend(r)
  <2>1. req[r].pc \in {"admit", "register"} /\ req[r].reply = "None"
    BY <1>1, <1>6 DEF QueueInput, RegisterAndSpawn, Untold
  <2>2. ~IsQueued(r) /\ ~Spawned(r)
    BY <2>1 DEF IsQueued, Spawned
  <2> QED
    BY <2>2, Nowhere
<1> QED
  BY <1>2, <1>3, <1>4, <1>5, <1>6

(* Taking a command and sending one are different steps, and one step sends  *)
(* one command.                                                              *)
LEMMA OneMailboxMove ==
  ASSUME TypeOK, TypeOK'
  PROVE  /\ ~(Kept(0) /\ Kept(1))
         /\ \A c : Sent(c) => ~Kept(0) /\ ~Kept(1)
         /\ \A c, d : Sent(c) /\ Sent(d) => c = d
         /\ \A r : Taken(r) => Kept(1)
         /\ \A r : Put(r) => \E c : Sent(c) /\ Carries(c) /\ c.turn = r
<1>1. PICK a \in Nat, b \in Nat : a = Len(mailbox) /\ b = Len(mailbox')
  BY MailboxSteps
<1>2. /\ ~(Kept(0) /\ Kept(1))
      /\ \A c : Sent(c) => ~Kept(0) /\ ~Kept(1)
      /\ \A c, d : Sent(c) /\ Sent(d) => c = d
  BY <1>1 DEF Kept, Sent
<1>3. \A r : Taken(r) => Kept(1)
  BY MailboxSteps DEF Taken, ActorEnqueue, ActorExecute
<1>4. ASSUME NEW r, Put(r) PROVE \E c : Sent(c) /\ Carries(c) /\ c.turn = r
  <2>1. ASSUME NEW op \in {"enqueue", "execute"}, NEW by, Send(Cmd(op, by, r))
        PROVE  \E c : Sent(c) /\ Carries(c) /\ c.turn = r
    <3>1. PICK c : c = Cmd(op, by, r)
      OBVIOUS
    <3>2. Sent(c) /\ c.op = op /\ c.turn = r
      BY <2>1, <3>1, MailboxSteps DEF Cmd
    <3> QED
      BY <3>2 DEF Carries
  <2>2. \E op \in {"enqueue", "execute"} : \E by : Send(Cmd(op, by, r))
    BY <1>4 DEF Put, Passed, QueueInput, SendExecute, SendFollowup
  <2> QED
    BY <2>1, <2>2
<1> QED
  BY <1>2, <1>3, <1>4

(* The inputs the mailbox carries after a step.                              *)
LEMMA MailPlaces ==
  ASSUME TypeOK, TypeOK', Untold, QueuedOnes, RunningOnes, SomeKind, OneMail, OneKind, [Next]_vars
  PROVE  /\ OneMail'
         /\ \A r \in StartReqs : InMailbox(r)' <=> (InMailbox(r) /\ ~Taken(r)) \/ Put(r)
<1>1. CASE Kept(0)
  <2>1. OneMail' /\ \A r : InMailbox(r)' <=> InMailbox(r)
    BY <1>1, MailKept
  <2>2. \A r : ~Taken(r) /\ ~Put(r)
    BY <1>1, OneMailboxMove
  <2> QED
    BY <2>1, <2>2
<1>2. CASE Kept(1) /\ 1 \in DOMAIN mailbox /\ (Carries(mailbox[1]) => ActorEnqueue \/ ActorExecute)
  <2>1. OneMail' /\ \A r : InMailbox(r)' <=> InMailbox(r) /\ ~(Carries(mailbox[1]) /\ mailbox[1].turn = r)
    BY <1>2, MailKept
  <2>2. \A r : ~Put(r)
    BY <1>2, OneMailboxMove
  <2>3. ActorEnqueue \/ ActorExecute => Cur = mailbox[1] /\ Carries(mailbox[1])
    BY MailboxSteps DEF ActorEnqueue, ActorExecute, Carries
  <2>4. \A r : Taken(r) <=> Carries(mailbox[1]) /\ mailbox[1].turn = r
    BY <1>2, <2>3 DEF Taken
  <2> QED
    BY <2>1, <2>2, <2>4
<1>3. ASSUME NEW c, Sent(c), SentBy(c)
      PROVE  OneMail' /\ \A r \in StartReqs : InMailbox(r)' <=> (InMailbox(r) /\ ~Taken(r)) \/ Put(r)
  <2>1. \A r : Taken(r) => FALSE
    BY <1>3, OneMailboxMove
  <2>2. \A r : Put(r) => Carries(c) /\ c.turn = r
    BY <1>3, OneMailboxMove
  <2>3. ASSUME Carries(c) PROVE c.turn \in StartReqs /\ Put(c.turn)
    <3>1. CASE c.op = "enqueue" /\ QueueInput(c.turn)
      BY <3>1 DEF QueueInput, Put
    <3>2. CASE c.turn \in StartReqs /\ SendExecute(c.turn)
      BY <3>2 DEF Put
    <3>3. CASE c.by \in Chainers /\ c.turn = chain[c.by].turn /\ SendFollowup(c.by)
      <4>1. c.turn \in StartReqs
        BY <3>3 DEF QueuedOnes, IsQueued, SendFollowup
      <4> QED
        BY <3>3, <4>1 DEF Put, Passed
    <3> QED
      BY <1>3, <2>3, <3>1, <3>2, <3>3 DEF SentBy, Carries
  <2>4. Carries(c) => ~InMailbox(c.turn)
    <3> SUFFICES ASSUME Carries(c) PROVE ~InMailbox(c.turn)
      OBVIOUS
    <3>1. PICK t \in StartReqs : t = c.turn /\ Put(t)
      BY <2>3
    <3>2. ToSend(t) \/ InChain(t) \/ ~SomePlace(t)
      BY <3>1, Sources DEF Put
    <3> QED
      BY <3>1, <3>2 DEF OneKind, OneKindAt, SomePlace
  <2>5. OneMail' /\ \A r : InMailbox(r)' <=> InMailbox(r) \/ (Carries(c) /\ c.turn = r)
    BY <1>3, <2>4, MailSent
  <2> QED
    BY <2>1, <2>2, <2>3, <2>5
<1> QED
  BY <1>1, <1>2, <1>3, MailboxMoves DEF MailboxMove

(* The inputs in the queue and in prompts after a step.                      *)
LEMMA QueuePlaces ==
  ASSUME TypeOK, TypeOK', Untold, QueuedOnes, RunningOnes, SomeKind, OneEntry, OneKind, [Next]_vars
  PROVE  /\ OneEntry'
         /\ \A r \in StartReqs : /\ InQueue(r)' <=> \/ InQueue(r) /\ ~StartQuery /\ ~Popped(r)
                                                    \/ ActorEnqueue /\ Taken(r)
                                 /\ r \in merged' <=> r \in merged \/ (StartQuery /\ InQueue(r))
<1>1. queue \in Seq(StartReqs) /\ queue' \in Seq(StartReqs)
  BY DEF TypeOK
<1>a. ActorEnqueue => ~ActorPop /\ ~StartQuery
  BY DEF ActorEnqueue, ActorPop, StartQuery, Receive
<1>b. ActorPop => ~StartQuery
  BY DEF ActorPop, StartQuery, Receive
<1>2. CASE StartQuery
  <2>1. queue' = <<>> /\ merged' = merged \cup {queue[n] : n \in DOMAIN queue}
    BY <1>2 DEF StartQuery
  <2>2. \A r : InQueue(r)' <=> FALSE
    BY <2>1 DEF InQueue
  <2> QED
    BY <1>2, <1>a, <2>1, <2>2 DEF OneEntry, InQueue
<1>3. CASE ActorEnqueue
  <2>1. PICK t : t = Cur.turn
    OBVIOUS
  <2>2. queue' = Append(queue, t) /\ UNCHANGED merged
    BY <1>3, <2>1 DEF ActorEnqueue, historyVars
  <2>3. t \in StartReqs /\ ~InQueue(t)
    <3>1. 1 \in DOMAIN mailbox /\ Cur = mailbox[1] /\ Cur.op = "enqueue"
      BY <1>3, MailboxSteps DEF ActorEnqueue
    <3>2. IsQueued(t)
      BY <2>1, <3>1 DEF QueuedOnes
    <3>3. Taken(t)
      BY <1>3, <2>1 DEF Taken
    <3> QED
      BY <3>2, <3>3, Sources DEF IsQueued, OneKind, OneKindAt
  <2>4. PICK k \in Nat : /\ DOMAIN queue = 1..k /\ DOMAIN queue' = 1..(k + 1) /\ queue'[k + 1] = t
                         /\ \A n \in 1..k : queue'[n] = queue[n]
    BY <1>1, <2>2, <2>3
  <2>5. OneEntry'
    BY <2>3, <2>4 DEF OneEntry, InQueue
  <2>6. \A r : InQueue(r)' <=> InQueue(r) \/ t = r
    BY <2>4 DEF InQueue
  <2>7. \A r : (Taken(r) <=> t = r) /\ ~Popped(r)
    BY <1>3, <1>a, <2>1 DEF Taken, Popped
  <2> QED
    BY <1>3, <1>a, <2>2, <2>5, <2>6, <2>7
<1>4. CASE ActorPop /\ queue # <<>>
  <2>1. queue' = Tail(queue) /\ UNCHANGED merged
    BY <1>4 DEF ActorPop, historyVars
  <2>2. PICK k \in Nat : /\ DOMAIN queue = 1..k /\ k > 0 /\ DOMAIN queue' = 1..(k - 1) /\ Head(queue) = queue[1]
                         /\ \A n \in 1..(k - 1) : queue'[n] = queue[n + 1]
    <3>1. PICK k \in Nat : k = Len(queue) /\ DOMAIN queue = 1..k
      BY <1>1
    <3>2. k > 0
      BY <1>1, <1>4, <3>1
    <3>3. Len(queue') = k - 1 /\ DOMAIN queue' = 1..(k - 1) /\ Head(queue) = queue[1]
      BY <1>1, <1>4, <2>1, <3>1, <3>2
    <3>4. \A n \in 1..(k - 1) : queue'[n] = queue[n + 1]
      BY <1>1, <1>4, <2>1, <3>1, <3>3
    <3> QED
      BY <3>1, <3>2, <3>3, <3>4
  <2>3. OneEntry'
    <3> SUFFICES ASSUME NEW n \in 1..(k - 1), NEW j \in 1..(k - 1), queue'[n] = queue'[j] PROVE n = j
      BY <2>2 DEF OneEntry
    <3>1. n + 1 \in 1..k /\ j + 1 \in 1..k /\ queue[n + 1] = queue[j + 1]
      BY <2>2
    <3>2. n + 1 = j + 1
      BY <2>2, <3>1 DEF OneEntry
    <3> QED
      BY <3>2
  <2>4. \A r : InQueue(r)' => InQueue(r) /\ queue[1] # r
    BY <2>2 DEF InQueue, OneEntry
  <2>5. \A r : InQueue(r) /\ queue[1] # r => InQueue(r)'
    <3> SUFFICES ASSUME NEW r, InQueue(r), queue[1] # r PROVE \E n \in DOMAIN queue' : queue'[n] = r
      BY DEF InQueue
    <3>1. PICK n \in 1..k : queue[n] = r
      BY <2>2 DEF InQueue
    <3>2. n - 1 \in 1..(k - 1) /\ (n - 1) + 1 = n
      BY <3>1
    <3> QED
      BY <2>2, <3>1, <3>2
  <2>6. \A r : Popped(r) <=> queue[1] = r
    BY <1>4, <2>2 DEF Popped
  <2> QED
    BY <1>4, <1>a, <1>b, <2>1, <2>3, <2>4, <2>5, <2>6
<1>5. CASE ~StartQuery /\ ~ActorEnqueue /\ ~(ActorPop /\ queue # <<>>)
  <2>1. UNCHANGED <<queue, merged>>
    BY <1>5, QueueChanges
  <2> QED
    BY <1>5, <2>1 DEF OneEntry, InQueue, Popped
<1> QED
  BY <1>2, <1>3, <1>4, <1>5

(* The chain the head of the queue goes to.                                  *)
PoppedBy(c) == ActorPop /\ queue # <<>> /\ Cur.by = c

(* What a chain holds: it takes the head of the queue when it held nothing,  *)
(* and passes it on.                                                         *)
LEMMA ChainHolds ==
  ASSUME TypeOK, TypeOK', AsideAwaited, ActorBusy, ClaimersChain, OneKind, [Next]_vars, NEW c \in Chainers
  PROVE  /\ Holds(c)' <=> (Holds(c) /\ ~SendFollowup(c)) \/ PoppedBy(c)
         /\ Holds(c) /\ Holds(c)' => chain'[c].turn = chain[c].turn
         /\ PoppedBy(c) => ~Holds(c) /\ chain'[c].turn = Head(queue)
<1>1. chain \in [Chainers -> ChainState]
  BY DEF TypeOK
<1>2. ASSUME ActorPop \/ ActorPrepare, Cur.by = c
      PROVE  /\ ActorPop => chain[c].pc = "popping" /\ ~ActorPrepare
             /\ ActorPrepare => chain[c].pc = "preparing"
  <2>1. /\ 1 \in DOMAIN mailbox /\ Cur = mailbox[1]
        /\ ActorPop => Cur.op = "pop"
        /\ ActorPrepare => Cur.op = "prepare"
    BY <1>2, MailboxSteps DEF ActorPop, ActorPrepare
  <2>2. OfChain(Cur) /\ chain[c].pc = ChainAt(Cur.op)
    BY <1>2, <2>1 DEF AsideAwaited, OfChain
  <2> QED
    BY <2>1, <2>2 DEF ChainAt
<1>3. ASSUME PoppedBy(c) PROVE chain'[c].pc = "popped" /\ chain'[c].turn = Head(queue) /\ chain[c].pc = "popping"
  <2>1. chain' = [chain EXCEPT ![c].pc = "popped", ![c].turn = Head(queue)]
    BY <1>3 DEF PoppedBy, ActorPop
  <2> QED
    BY <1>1, <1>2, <1>3, <2>1 DEF PoppedBy, ChainState
<1>4. CloseTurn /\ exec.turn = c => chain[c].pc = "off"
  <2> SUFFICES ASSUME CloseTurn, exec.turn = c PROVE chain[c].pc = "off"
    OBVIOUS
  <2>1. c \in StartReqs
    BY DEF CloseTurn, ActorBusy
  <2> QED
    BY <2>1 DEF OneKind, OneKindAt, Over
<1>5. c \in InterruptReqs /\ FinishClaimed(c) => chain[c].pc = "off"
  BY DEF FinishClaimed, ClaimersChain
<1>6. SendFollowup(c) => chain[c].pc = "execute" /\ chain'[c].pc = "done"
  BY <1>1 DEF SendFollowup, ChainState
<1>7. ChainMove(c)
  BY ChainMoves
<1>8. CASE PoppedBy(c)
  BY <1>3, <1>8 DEF Holds
<1>9. CASE ~PoppedBy(c) /\ SendFollowup(c)
  BY <1>6, <1>9 DEF Holds
<1>10. CASE ~PoppedBy(c) /\ ~SendFollowup(c)
  <2>1. \/ chain'[c] = chain[c]
        \/ /\ chain'[c].turn = chain[c].turn
           /\ \/ chain[c].pc = "pop" /\ chain'[c].pc = "popping"
              \/ chain[c].pc = "popped" /\ chain'[c].pc = "preparing"
              \/ chain[c].pc = "activate" /\ chain'[c].pc = "execute"
              \/ chain[c].pc = "popping" /\ chain'[c].pc \in {"pop", "done"}
              \/ chain[c].pc = "preparing" /\ chain'[c].pc = "activate"
              \/ chain[c].pc = "off" /\ chain'[c].pc = "pop"
    BY <1>2, <1>4, <1>5, <1>7, <1>10 DEF ChainMove, PoppedBy, SendPop, SendPrepare, SendActivate
  <2> QED
    BY <1>10, <2>1 DEF Holds
<1> QED
  BY <1>8, <1>9, <1>10

(* The inputs that chains hold after a step.                                 *)
LEMMA ChainPlaces ==
  ASSUME TypeOK, TypeOK', Untold, QueuedOnes, RunningOnes, SomeKind, AsideAwaited, ActorBusy, ClaimersChain,
         OneChain, OneKind, [Next]_vars
  PROVE  /\ OneChain'
         /\ \A r \in StartReqs : InChain(r)' <=> (InChain(r) /\ ~Passed(r)) \/ Popped(r)
<1>1. \A c \in Chainers :
         /\ Holds(c)' <=> (Holds(c) /\ ~SendFollowup(c)) \/ PoppedBy(c)
         /\ Holds(c) /\ Holds(c)' => chain'[c].turn = chain[c].turn
         /\ PoppedBy(c) => ~Holds(c) /\ chain'[c].turn = Head(queue)
  BY ChainHolds
<1>2. \A c : PoppedBy(c) => Popped(Head(queue)) /\ c = Cur.by /\ ActorPop
  BY DEF PoppedBy, Popped
<1>3. \A c \in Chainers : PoppedBy(c) => Head(queue) \in StartReqs /\ ~InChain(Head(queue))
  <2> SUFFICES ASSUME NEW c \in Chainers, PoppedBy(c) PROVE Head(queue) \in StartReqs /\ ~InChain(Head(queue))
    OBVIOUS
  <2>1. Head(queue) \in StartReqs
    BY DEF PoppedBy, TypeOK
  <2>2. InQueue(Head(queue))
    BY <1>2, <2>1, Sources
  <2> QED
    BY <2>1, <2>2 DEF OneKind, OneKindAt
<1>4. ASSUME NEW c \in Chainers, NEW d \in Chainers, Holds(c)', Holds(d)', chain'[c].turn = chain'[d].turn
      PROVE  c = d
  <2>1. CASE PoppedBy(c) /\ PoppedBy(d)
    BY <1>2, <2>1
  <2>2. CASE PoppedBy(c) /\ ~PoppedBy(d)
    BY <1>1, <1>3, <1>4, <2>2 DEF InChain
  <2>3. CASE ~PoppedBy(c) /\ PoppedBy(d)
    BY <1>1, <1>3, <1>4, <2>3 DEF InChain
  <2>4. CASE ~PoppedBy(c) /\ ~PoppedBy(d)
    BY <1>1, <1>4, <2>4 DEF OneChain
  <2> QED
    BY <2>1, <2>2, <2>3, <2>4
<1>5. ASSUME NEW r \in StartReqs, InChain(r)' PROVE (InChain(r) /\ ~Passed(r)) \/ Popped(r)
  <2>1. PICK d \in Chainers : Holds(d)' /\ chain'[d].turn = r
    BY <1>5 DEF InChain, Holds
  <2>2. CASE PoppedBy(d)
    BY <1>1, <1>2, <2>1, <2>2
  <2>3. CASE ~PoppedBy(d)
    <3>1. Holds(d) /\ chain[d].turn = r /\ ~SendFollowup(d)
      BY <1>1, <2>1, <2>3
    <3>2. ASSUME Passed(r) PROVE FALSE
      <4>1. PICK c \in Chainers : SendFollowup(c) /\ chain[c].turn = r
        BY <3>2 DEF Passed
      <4>2. Holds(c)
        BY <4>1 DEF Holds, SendFollowup
      <4> QED
        BY <3>1, <4>1, <4>2 DEF OneChain
    <3> QED
      BY <3>1, <3>2 DEF InChain
  <2> QED
    BY <2>2, <2>3
<1>6. ASSUME NEW r \in StartReqs, InChain(r), ~Passed(r) PROVE InChain(r)'
  <2>1. PICK d \in Chainers : Holds(d) /\ chain[d].turn = r
    BY <1>6 DEF InChain
  <2>2. ~SendFollowup(d)
    BY <1>6, <2>1 DEF Passed
  <2>3. Holds(d)' /\ chain'[d].turn = r
    BY <1>1, <2>1, <2>2
  <2> QED
    BY <2>3 DEF InChain, Holds
<1>7. ASSUME NEW r \in StartReqs, Popped(r) PROVE InChain(r)'
  <2>1. PICK d : d = Cur.by
    OBVIOUS
  <2>2. d \in Chainers
    <3>1. 1 \in DOMAIN mailbox /\ Cur = mailbox[1]
      BY <1>7, MailboxSteps DEF Popped, ActorPop
    <3>2. Cur \in Command
      BY <3>1 DEF TypeOK
    <3> QED
      BY <2>1, <3>2, SetsMeet DEF Command, Chainers
  <2>3. PoppedBy(d) /\ Head(queue) = r
    BY <1>7, <2>1 DEF Popped, PoppedBy
  <2>4. Holds(d)' /\ chain'[d].turn = r
    BY <1>1, <2>2, <2>3
  <2> QED
    BY <2>2, <2>4 DEF InChain, Holds
<1>8. OneChain'
  BY <1>4 DEF OneChain, Holds
<1> QED
  BY <1>5, <1>6, <1>7, <1>8

(* The input the actor executes after a step.                                *)
LEMMA ExecPlaces ==
  ASSUME TypeOK, TypeOK', ActorBusy, [Next]_vars, NEW r \in StartReqs
  PROVE  exec'.turn = r <=> \/ exec.turn = r /\ ~CloseTurn
                            \/ ActorExecute /\ Taken(r)
<1>1. r # NoTurn
  BY SetsMeet
<1>2. exec \in ExecState
  BY DEF TypeOK
<1>3. CASE ActorExecute
  <2>1. exec.pc = "idle" /\ exec'.turn = Cur.turn /\ ~CloseTurn
    BY <1>3 DEF ActorExecute, Receive, CloseTurn
  <2> QED
    BY <1>1, <1>3, <2>1 DEF Taken, ActorBusy
<1>4. CASE CloseTurn
  <2>1. exec'.turn = NoTurn /\ ~ActorExecute
    BY <1>2, <1>4 DEF ActorExecute, Receive, CloseTurn, ExecState
  <2> QED
    BY <1>1, <1>4, <2>1
<1>5. CASE ~ActorExecute /\ ~CloseTurn
  BY <1>5, ExecMoves DEF ExecMove
<1> QED
  BY <1>3, <1>4, <1>5

(* Every step moves an input from one place to the next, and no other.       *)
LEMMA KindsStep ==
  ASSUME TypeOK, TypeOK', Untold, QueuedOnes, RunningOnes, SomeKind, AsideAwaited, ActorBusy, ClaimersChain,
         OneMail, OneEntry, OneChain, OneKind, [Next]_vars
  PROVE  /\ OneMail' /\ OneEntry' /\ OneChain' /\ OneKind'
         /\ \A r \in StartReqs : /\ SomePlace(r) => SomePlace(r)'
                                 /\ QueueInput(r) => SomePlace(r)'
<1>1. OneMail' /\ OneEntry' /\ OneChain'
  BY MailPlaces, QueuePlaces, ChainPlaces
<1>2. /\ ActorEnqueue => ~ActorPop /\ ~StartQuery /\ ~ActorExecute
      /\ ActorPop => ~StartQuery /\ ~ActorExecute
  BY DEF ActorEnqueue, ActorPop, ActorExecute, StartQuery, Receive
<1>3. ASSUME NEW r \in StartReqs
      PROVE  /\ OneKindAt(r)'
             /\ SomePlace(r) => SomePlace(r)'
             /\ QueueInput(r) => SomePlace(r)'
  <2> DEFINE mail == InMailbox(r)'
             held == InChain(r)'
             inq  == InQueue(r)'
             sent == ToSend(r)'
             over == Over(r)'
  <2>1. /\ Taken(r) => InMailbox(r)
        /\ Popped(r) => InQueue(r)
        /\ Passed(r) => InChain(r)
        /\ SendExecute(r) => ToSend(r)
        /\ QueueInput(r) \/ RegisterAndSpawn(r) => ~SomePlace(r) /\ ~ToSend(r)
        /\ ~(QueueInput(r) /\ RegisterAndSpawn(r))
    BY Sources DEF QueueInput, RegisterAndSpawn
  <2>2. mail <=> (InMailbox(r) /\ ~Taken(r)) \/ Put(r)
    BY MailPlaces
  <2>3. /\ inq <=> (InQueue(r) /\ ~StartQuery /\ ~Popped(r)) \/ (ActorEnqueue /\ Taken(r))
        /\ r \in merged' <=> r \in merged \/ (StartQuery /\ InQueue(r))
    BY QueuePlaces
  <2>4. held <=> (InChain(r) /\ ~Passed(r)) \/ Popped(r)
    BY ChainPlaces
  <2>5. exec'.turn = r <=> (exec.turn = r /\ ~CloseTurn) \/ (ActorExecute /\ Taken(r))
    BY ExecPlaces
  <2>6. over <=> Over(r) \/ (CloseTurn /\ exec.turn = r)
    BY OverMoves
  <2>7. sent => (ToSend(r) /\ ~SendExecute(r)) \/ RegisterAndSpawn(r)
    BY TasksSpawned, SetsMeet
  <2>8. Taken(r) => ActorEnqueue \/ ActorExecute
    BY DEF Taken
  <2>9. Popped(r) => ActorPop
    BY DEF Popped
  <2>10. OneKindAt(r)
    BY DEF OneKind
  <2>11. Put(r) <=> QueueInput(r) \/ SendExecute(r) \/ Passed(r)
    BY DEF Put
  <2>12. OneKindAt(r)' <=>
           /\ mail => ~inq /\ ~held /\ exec'.turn # r /\ ~over /\ r \notin merged' /\ ~sent
           /\ inq => ~held /\ exec'.turn # r /\ ~over /\ r \notin merged' /\ ~sent
           /\ held => exec'.turn # r /\ ~over /\ r \notin merged' /\ ~sent
           /\ exec'.turn = r => ~over /\ r \notin merged' /\ ~sent
           /\ over => r \notin merged' /\ ~sent
           /\ r \in merged' => ~sent
    BY DEF OneKindAt
  <2>13. SomePlace(r)' <=> mail \/ inq \/ held \/ exec'.turn = r \/ over \/ r \in merged'
    BY DEF SomePlace
  <2>14. SomePlace(r) <=> InMailbox(r) \/ InQueue(r) \/ InChain(r) \/ exec.turn = r \/ Over(r) \/ r \in merged
    BY DEF SomePlace
  <2> HIDE DEF mail, held, inq, sent, over
  <2>15. SomePlace(r) => SomePlace(r)'
    BY <1>2, <2>2, <2>3, <2>4, <2>5, <2>6, <2>8, <2>11, <2>13, <2>14
  <2>16. QueueInput(r) => SomePlace(r)'
    BY <2>2, <2>11, <2>13
  <2>17. OneKindAt(r)'
    BY <1>2, <2>1, <2>2, <2>3, <2>4, <2>5, <2>6, <2>7, <2>8, <2>9, <2>10, <2>11, <2>12, <2>14 DEF OneKindAt
  <2> QED
    BY <2>15, <2>16, <2>17
<1> QED
  BY <1>1, <1>3 DEF OneKind

(* The end of a queued input's turn is broadcast by the actor alone.         *)
LEMMA EndedMoves ==
  ASSUME TypeOK, TypeOK', Untold, RunningOnes, ClaimsStarted, [Next]_vars, NEW r \in StartReqs, IsQueued(r)
  PROVE  ended'[r] # <<>> <=> ended[r] # <<>> \/ (PersistAndEmitTerminal /\ exec.turn = r)
<1>1. r \in TurnReqs /\ ~Spawned(r)
  BY SetsMeet DEF IsQueued, Spawned, Untold
<1>2. ended \in [TurnReqs -> Seq(Terminal)]
  BY DEF TypeOK
<1>3. CASE PersistAndEmitTerminal
  <2>1. PICK t : t = exec.turn
    OBVIOUS
  <2>2. ended' = [ended EXCEPT ![t] = Append(@, exec.status)]
    BY <1>3, <2>1 DEF PersistAndEmitTerminal
  <2>3. CASE t = r
    <3>1. ended'[r] = Append(ended[r], exec.status) /\ ended[r] \in Seq(Terminal)
      BY <1>1, <1>2, <2>2, <2>3
    <3>2. ended'[r] \in Seq(Terminal)
      BY <1>1 DEF TypeOK
    <3>3. Len(ended'[r]) = Len(ended[r]) + 1 /\ Len(ended[r]) \in Nat
      BY <3>1
    <3> QED
      BY <1>3, <2>1, <2>3, <3>2, <3>3
  <2>4. CASE t # r
    BY <1>1, <1>2, <2>1, <2>2, <2>4
  <2> QED
    BY <2>3, <2>4
<1>4. ASSUME ended'[r] = ended[r], ~PersistAndEmitTerminal
      PROVE  ended'[r] # <<>> <=> ended[r] # <<>> \/ (PersistAndEmitTerminal /\ exec.turn = r)
  BY <1>4
<1>5. CASE \E t \in TurnReqs : ShellEmitTerminal(t)
  <2>1. PICK t \in TurnReqs : ShellEmitTerminal(t)
    BY <1>5
  <2>2. t # r
    BY <1>1, <2>1 DEF ShellEmitTerminal, RunningOnes
  <2>3. ended'[r] = ended[r] /\ UNCHANGED active /\ UNCHANGED exec
    BY <1>1, <1>2, <2>1, <2>2 DEF ShellEmitTerminal, actorVars
  <2>4. ~PersistAndEmitTerminal
    BY <2>3 DEF PersistAndEmitTerminal, TypeOK, ExecState
  <2> QED
    BY <1>4, <2>3, <2>4
<1>6. CASE \E i \in InterruptReqs : FinishClaimed(i)
  <2>1. PICK i \in InterruptReqs : FinishClaimed(i)
    BY <1>6
  <2>2. PICK t : t = intr[i].turn
    OBVIOUS
  <2>3. t # r
    BY <1>1, <2>1, <2>2 DEF FinishClaimed, ClaimsStarted
  <2>4. ended'[r] = ended[r] /\ UNCHANGED exec
    BY <1>1, <1>2, <2>1, <2>2, <2>3 DEF FinishClaimed, actorVars
  <2>5. ~PersistAndEmitTerminal
    BY <2>4 DEF PersistAndEmitTerminal, TypeOK, ExecState
  <2> QED
    BY <1>4, <2>4, <2>5
<1>7. CASE UNCHANGED ended /\ ~PersistAndEmitTerminal
  BY <1>4, <1>7
<1>8. CASE UNCHANGED ended /\ PersistAndEmitTerminal
  BY <1>3, <1>8
<1>9. CASE Actor /\ ~PersistAndEmitTerminal
  BY <1>7, <1>9 DEF Actor, ActorSnapshot, ActorSetActive, ActorPersist, ActorRollback, ActorEnqueue,
     ActorInterrupt, ActorContext, ActorCompleteShell, ActorPop, ActorPrepare, ActorExecute, StartQuery,
     QueryCancelled, ClearInterruptHandles, CloseTurn, historyVars
<1>10. CASE \E q \in TurnReqs : Handler(q)
  <2>1. UNCHANGED ended
    BY <1>10 DEF Handler, ReadReservation, ReadCachedReservation, QueueInput, RefuseActive, Begin,
       SendPersist, SendRollback, AnnounceShell, RegisterToken, RegisterAndSpawn, AttachAndReply, historyVars
  <2> QED
    BY <1>7, <1>8, <2>1
<1>11. CASE \E t \in TurnReqs : TurnTask(t) /\ ~ShellEmitTerminal(t)
  <2>1. UNCHANGED ended
    BY <1>11 DEF TurnTask, SendExecute, ShellAskContext, ShellRun, ShellReturns, ShellClearHandles,
       ShellSendComplete, historyVars
  <2> QED
    BY <1>7, <1>8, <2>1
<1>12. CASE (\E c \in Chainers : Followup(c)) \/ (\E i \in InterruptReqs : Interrupter(i) /\ ~FinishClaimed(i))
  <2>1. UNCHANGED ended
    BY <1>12 DEF Followup, SendPop, SendPrepare, SendActivate, SendFollowup,
       Interrupter, CheckTarget, RecheckRecent, CancelToken, AbortTask, SendInterrupt,
       ClearClaimed, HearTerminal, WaitTimesOut, historyVars
  <2> QED
    BY <1>7, <1>8, <2>1
<1>13. CASE QueryReturns \/ UNCHANGED vars
  BY <1>7, <1>8, <1>13 DEF QueryReturns, vars, historyVars
<1> QED
  BY <1>3, <1>5, <1>6, <1>9, <1>10, <1>11, <1>12, <1>13 DEF Next, Quiescent

(* A queued input has ended when its own chain runs, or the actor is closing *)
(* its turn.                                                                 *)
LEMMA EndedStep ==
  ASSUME TypeOK, TypeOK', RefusalInv, OneInv, [Next]_vars
  PROVE  EndedWhenOver'
<1> DEFINE Q(r) == req'[r].reply = "Queued"
<1> SUFFICES ASSUME NEW r \in StartReqs, Q(r)
             PROVE  ended'[r] # <<>> <=> Over(r)' \/ (exec'.turn = r /\ exec'.pc = "closing")
  BY DEF EndedWhenOver, IsQueued
<1>1. Over(r)' <=> Over(r) \/ (CloseTurn /\ exec.turn = r)
  BY OverMoves DEF OneInv
<1>2. exec'.turn = r <=> (exec.turn = r /\ ~CloseTurn) \/ (ActorExecute /\ Taken(r))
  BY ExecPlaces DEF OneInv
<1>3. r # NoTurn
  BY SetsMeet
<1>4. CASE IsQueued(r)
  <2>1. ended'[r] # <<>> <=> ended[r] # <<>> \/ (PersistAndEmitTerminal /\ exec.turn = r)
    BY <1>4, EndedMoves DEF RefusalInv, OneInv
  <2>2. ended[r] # <<>> <=> Over(r) \/ (exec.turn = r /\ exec.pc = "closing")
    BY <1>4 DEF OneInv, EndedWhenOver
  <2>3. CloseTurn => exec.pc = "closing" /\ exec'.pc = "idle"
    BY DEF CloseTurn, TypeOK, ExecState
  <2>4. PersistAndEmitTerminal => exec.pc = "ending" /\ exec'.pc = "closing"
    BY DEF PersistAndEmitTerminal, TypeOK, ExecState
  <2>5. ExecMove
    BY ExecMoves
  <2>6. (exec'.turn = r /\ exec'.pc = "closing") <=>
          (exec.turn = r /\ exec.pc = "closing" /\ ~CloseTurn) \/ (PersistAndEmitTerminal /\ exec.turn = r)
    BY <1>3, <2>3, <2>4, <2>5 DEF ExecMove
  <2> QED
    BY <1>1, <2>1, <2>2, <2>3, <2>6
<1>5. CASE ~IsQueued(r)
  <2>1. QueueInput(r)
    BY <1>5, QueuedBefore DEF IsQueued
  <2>2. ~SomePlace(r) /\ ~Taken(r)
    <3>1. SomeKind /\ Untold /\ QueuedOnes /\ RunningOnes
      BY DEF OneInv, RefusalInv
    <3>2. /\ Taken(r) => InMailbox(r)
          /\ ~SomePlace(r)
      BY <2>1, <3>1, Sources
    <3> QED
      BY <3>2 DEF SomePlace
  <2>3. ended' = ended
    BY <2>1 DEF QueueInput, historyVars
  <2>4. ended[r] = <<>>
    BY <1>5, <2>1, SetsMeet DEF RefusalInv, SeenOnes, QueueInput, Shown, Spawned, Untold
  <2> QED
    BY <1>1, <1>2, <2>2, <2>3, <2>4 DEF SomePlace
<1> QED
  BY <1>4, <1>5

(* The invariant behind QueuedInOnePlace is inductive.                       *)
LEMMA OneStep ==
  ASSUME TypeOK, TypeOK', RefusalInv, OneInv, [Next]_vars
  PROVE  OneInv'
<1>1. AsideAwaited' /\ ActorBusy' /\ ClaimersChain'
  BY AsideStep, BusyStep, ClaimersStep DEF OneInv, RefusalInv
<1>2. Grow
  BY StepsAdvance DEF RefusalInv, Grow
<1>3. ClaimsStarted'
  BY <1>2, ClaimsStep DEF OneInv, RefusalInv
<1>4. /\ OneMail' /\ OneEntry' /\ OneChain' /\ OneKind'
      /\ \A r \in StartReqs : /\ SomePlace(r) => SomePlace(r)'
                              /\ QueueInput(r) => SomePlace(r)'
  BY KindsStep DEF OneInv, RefusalInv
<1>5. SomeKind'
  <2> DEFINE Q(r) == r \in StartReqs /\ req'[r].reply = "Queued"
             S(r) == req'[r].pc = "attach" \/ req'[r].reply = "Started"
  <2>1. \A r \in StartReqs : (IsQueued(r) => Q(r)) /\ (Spawned(r) => S(r))
    BY <1>2, SetsMeet DEF Grow, IsQueued, Spawned
  <2>2. ASSUME NEW r \in StartReqs, Q(r) PROVE SomePlace(r)'
    <3>1. IsQueued(r) \/ QueueInput(r)
      BY <2>2, QueuedBefore DEF IsQueued
    <3> QED
      BY <1>4, <3>1 DEF OneInv, SomeKind
  <2>3. ASSUME NEW r \in merged' PROVE Q(r)
    <3>1. r \in StartReqs
      BY DEF TypeOK
    <3>2. r \in merged \/ InQueue(r)
      BY <3>1, <2>3, QueuePlaces DEF OneInv, RefusalInv
    <3>3. IsQueued(r)
      BY <3>2 DEF OneInv, RefusalInv, SomeKind, QueuedOnes, InQueue
    <3> QED
      BY <2>1, <3>1, <3>3
  <2>4. ASSUME NEW r \in StartReqs, Over(r)' PROVE Q(r) \/ S(r)
    <3>1. Over(r) \/ exec.turn = r
      BY <2>4, OverMoves DEF OneInv
    <3>2. IsQueued(r) \/ Spawned(r)
      BY <3>1, SetsMeet DEF OneInv, RefusalInv, SomeKind, RunningOnes
    <3> QED
      BY <2>1, <3>2
  <2> QED
    BY <2>2, <2>3, <2>4 DEF SomeKind, IsQueued, Spawned
<1>6. EndedWhenOver'
  BY EndedStep
<1> QED
  BY <1>1, <1>3, <1>4, <1>5, <1>6 DEF OneInv

(* Initially nothing is queued and nothing runs.                             *)
LEMMA OneInit == Init => OneInv
<1> SUFFICES ASSUME Init PROVE OneInv
  OBVIOUS
<1>1. DOMAIN mailbox = {} /\ DOMAIN queue = {}
  BY DEF Init
<1>2. /\ exec.pc = "idle" /\ exec.turn = NoTurn /\ merged = {}
      /\ \A r \in TurnReqs : req[r].reply = "None" /\ task[r].pc = "none"
      /\ \A c \in Chainers : chain[c].pc = "off"
      /\ \A i \in InterruptReqs : intr[i].pc = "new"
  BY DEF Init
<1>3. \A r \in StartReqs : r \in TurnReqs /\ r \in Chainers /\ r # NoTurn
  BY SetsMeet DEF Chainers
<1>4. \A i \in InterruptReqs : i \in Chainers
  BY DEF Chainers
<1>5. AsideAwaited /\ OneMail /\ OneEntry
  BY <1>1 DEF AsideAwaited, OneMail, OneEntry
<1>6. ActorBusy /\ ClaimersChain /\ ClaimsStarted
  BY <1>1, <1>2, <1>4 DEF ActorBusy, ClaimersChain, ClaimsStarted
<1>7. \A r \in StartReqs : /\ ~InMailbox(r) /\ ~InQueue(r) /\ ~InChain(r) /\ exec.turn # r /\ ~Over(r)
                           /\ r \notin merged /\ ~ToSend(r) /\ ~IsQueued(r)
  BY <1>1, <1>2, <1>3 DEF InMailbox, InQueue, InChain, Holds, Over, ToSend, IsQueued
<1>8. OneKind /\ SomeKind /\ EndedWhenOver
  BY <1>2, <1>7 DEF OneKind, OneKindAt, SomeKind, EndedWhenOver
<1>9. OneChain
  BY <1>2 DEF OneChain, Holds
<1> QED
  BY <1>5, <1>6, <1>8, <1>9 DEF OneInv

(* The places of an input, by their kind.                                    *)
LEMMA PlacesByKind ==
  ASSUME OneInv, NEW r \in StartReqs, IsQueued(r), NEW p
  PROVE  p \in Places(r) <=>
           \/ \E n \in DOMAIN mailbox : p = <<"mailbox", n>> /\ Carries(mailbox[n]) /\ mailbox[n].turn = r
           \/ \E n \in DOMAIN queue : p = <<"queue", n>> /\ queue[n] = r
           \/ \E c \in Chainers : p = <<"chain", c>> /\ Holds(c) /\ chain[c].turn = r
           \/ p = <<"actor", r>> /\ exec.turn = r
           \/ p = <<"over", r>> /\ Over(r)
           \/ p = <<"prompt", r>> /\ r \in merged
<1>1. ended[r] # <<>> /\ exec.turn # r <=> Over(r)
  BY DEF OneInv, EndedWhenOver, OneKind, OneKindAt
<1>2. p \in {<<"over", t>> : t \in {u \in {r} : ended[u] # <<>> /\ exec.turn # u}} <=> p = <<"over", r>> /\ Over(r)
  BY <1>1
<1>3. p \in {<<"actor", t>> : t \in {r} \cap {exec.turn}} <=> p = <<"actor", r>> /\ exec.turn = r
  OBVIOUS
<1>4. p \in {<<"prompt", t>> : t \in {r} \cap merged} <=> p = <<"prompt", r>> /\ r \in merged
  OBVIOUS
<1>5. p \in {<<"mailbox", n>> : n \in {k \in DOMAIN mailbox :
                mailbox[k].op \in {"enqueue", "execute"} /\ mailbox[k].turn = r}}
        <=> \E n \in DOMAIN mailbox : p = <<"mailbox", n>> /\ Carries(mailbox[n]) /\ mailbox[n].turn = r
  BY DEF Carries
<1>6. p \in {<<"queue", n>> : n \in {k \in DOMAIN queue : queue[k] = r}}
        <=> \E n \in DOMAIN queue : p = <<"queue", n>> /\ queue[n] = r
  OBVIOUS
<1>7. p \in {<<"chain", c>> : c \in {d \in Chainers : HeldBy(d, r)}}
        <=> \E c \in Chainers : p = <<"chain", c>> /\ Holds(c) /\ chain[c].turn = r
  BY DEF HeldBy, Holds
<1> QED
  BY <1>2, <1>3, <1>4, <1>5, <1>6, <1>7 DEF Places

(* A queued input has a place, and no two.                                   *)
LEMMA OnePlace ==
  ASSUME OneInv
  PROVE  QueuedInOnePlace
<1> SUFFICES ASSUME NEW r \in StartReqs, IsQueued(r) PROVE \E p \in Places(r) : Places(r) = {p}
  BY DEF QueuedInOnePlace, IsQueued
<1>1. /\ OneMail /\ OneEntry /\ OneChain /\ SomePlace(r) /\ OneKindAt(r)
  BY DEF OneInv, SomeKind, OneKind
<1>2. ASSUME NEW p, p \in Places(r), \A q : q \in Places(r) => q = p
      PROVE  \E q \in Places(r) : Places(r) = {q}
  BY <1>2
<1>3. CASE InMailbox(r)
  <2>1. PICK n \in DOMAIN mailbox : Carries(mailbox[n]) /\ mailbox[n].turn = r
    BY <1>3 DEF InMailbox
  <2>2. <<"mailbox", n>> \in Places(r)
    BY <2>1, PlacesByKind
  <2>3. \A q : q \in Places(r) => q = <<"mailbox", n>>
    BY <1>1, <1>3, <2>1, PlacesByKind DEF OneMail, OneKindAt, InQueue, InChain
  <2> QED
    BY <1>2, <2>2, <2>3
<1>4. CASE InQueue(r)
  <2>1. PICK n \in DOMAIN queue : queue[n] = r
    BY <1>4 DEF InQueue
  <2>2. <<"queue", n>> \in Places(r)
    BY <2>1, PlacesByKind
  <2>3. \A q : q \in Places(r) => q = <<"queue", n>>
    BY <1>1, <1>4, <2>1, PlacesByKind DEF OneEntry, OneKindAt, InMailbox, InChain
  <2> QED
    BY <1>2, <2>2, <2>3
<1>5. CASE InChain(r)
  <2>1. PICK c \in Chainers : Holds(c) /\ chain[c].turn = r
    BY <1>5 DEF InChain
  <2>2. <<"chain", c>> \in Places(r)
    BY <2>1, PlacesByKind
  <2>3. \A q : q \in Places(r) => q = <<"chain", c>>
    BY <1>1, <1>5, <2>1, PlacesByKind DEF OneChain, OneKindAt, InMailbox, InQueue
  <2> QED
    BY <1>2, <2>2, <2>3
<1>6. CASE exec.turn = r
  <2>1. <<"actor", r>> \in Places(r)
    BY <1>6, PlacesByKind
  <2>2. \A q : q \in Places(r) => q = <<"actor", r>>
    BY <1>1, <1>6, PlacesByKind DEF OneKindAt, InMailbox, InQueue, InChain
  <2> QED
    BY <1>2, <2>1, <2>2
<1>7. CASE Over(r)
  <2>1. <<"over", r>> \in Places(r)
    BY <1>7, PlacesByKind
  <2>2. \A q : q \in Places(r) => q = <<"over", r>>
    BY <1>1, <1>7, PlacesByKind DEF OneKindAt, InMailbox, InQueue, InChain
  <2> QED
    BY <1>2, <2>1, <2>2
<1>8. CASE r \in merged
  <2>1. <<"prompt", r>> \in Places(r)
    BY <1>8, PlacesByKind
  <2>2. \A q : q \in Places(r) => q = <<"prompt", r>>
    BY <1>1, <1>8, PlacesByKind DEF OneKindAt, InMailbox, InQueue, InChain
  <2> QED
    BY <1>2, <2>1, <2>2
<1> QED
  BY <1>1, <1>3, <1>4, <1>5, <1>6, <1>7, <1>8 DEF SomePlace

(* An input answered Queued is in exactly one place from then on: neither    *)
(* the actor, which serves enqueue and pop from one queue, nor the chains    *)
(* and the query that empty it ever lose it or run it twice.                 *)
THEOREM InputsKeepOnePlace == Spec => []QueuedInOnePlace
<1>1. Spec => []TypeOK
  BY TypeCorrect
<1>2. Init => RefusalInv /\ OneInv
  BY RefusalInit, OneInit
<1>3. TypeOK /\ TypeOK' /\ RefusalInv /\ OneInv /\ [Next]_vars => RefusalInv' /\ OneInv'
  BY RefusalStep, OneStep
<1>4. RefusalInv /\ OneInv => QueuedInOnePlace
  BY OnePlace
<1> QED
  BY <1>1, <1>2, <1>3, <1>4, PTL DEF Spec

-----------------------------------------------------------------------------
(* Clients that wait.                                                        *)

(* What a step does to one turn request.                                     *)
RequestMove(r) ==
  \/ req'[r] = req[r]
  \/ req[r].pc = "cached"
  \/ /\ ReadReservation(r) /\ req'[r].pc \in {"cached", "asked"} /\ req'[r].reply = req[r].reply
     /\ req'[r].pc = "cached" => registry.turn # NoTurn
  \/ ActorSnapshot /\ req[r].pc = "asked" /\ req'[r].pc = "admit" /\ req'[r].active = active
     /\ req'[r].reply = req[r].reply
  \/ req[r].pc = "admit" /\ req[r].active # NoTurn
  \/ /\ req[r].pc \notin {"new", "asked", "cached", "done"} /\ req'[r].pc \notin {"new", "asked", "cached", "admit"}
     /\ req'[r].reply \in {req[r].reply, "Started", "InternalError"}
     /\ req'[r].pc = "announce" => r \in ShellReqs
     /\ req'[r].pc = "attach" => RegisterAndSpawn(r)
     /\ req'[r].reply = "Started" => req[r].reply = "Started" \/ AttachAndReply(r)

(* Every step does one of these to each turn request.                        *)
LEMMA RequestMoves ==
  ASSUME TypeOK, TypeOK', CallsAwaited, [Next]_vars
  PROVE  \A r \in TurnReqs : RequestMove(r)
<1>1. req \in [TurnReqs -> HandlerState] /\ \A r \in TurnReqs : req[r] \in HandlerState
  BY DEF TypeOK
<1>2. ASSUME NEW q, \A r \in TurnReqs \ {q} : req'[r] = req[r], q \in TurnReqs => RequestMove(q)
      PROVE  \A r \in TurnReqs : RequestMove(r)
  BY <1>2 DEF RequestMove
<1>3. CASE UNCHANGED req
  BY <1>3 DEF RequestMove
<1>4. ASSUME NEW op \in HandlerCalls, Receive(op), Cur.by \in TurnReqs
      PROVE  req[Cur.by].pc = AwaitedAt(op)
  <2>1. 1 \in DOMAIN mailbox /\ Cur = mailbox[1] /\ Cur.op = op
    BY <1>4, MailboxSteps
  <2> QED
    BY <1>4, <2>1 DEF CallsAwaited, IsCall
<1>5. CASE ActorSnapshot
  <2>1. PICK q : q = Cur.by
    OBVIOUS
  <2>2. req' = [req EXCEPT ![q].pc = "admit", ![q].active = active, ![q].latest = latest]
    BY <1>5, <2>1 DEF ActorSnapshot
  <2>3. q \in TurnReqs => /\ req'[q].pc = "admit" /\ req'[q].active = active /\ req'[q].reply = req[q].reply
                          /\ req[q].pc = "asked"
    BY <1>1, <1>4, <1>5, <2>1, <2>2 DEF ActorSnapshot, HandlerState, HandlerCalls, AwaitedAt
  <2> QED
    BY <1>1, <1>2, <1>5, <2>2, <2>3 DEF RequestMove
<1>6. CASE ActorPersist
  <2>1. PICK q : q = Cur.by
    OBVIOUS
  <2>2. CASE q \in TurnReqs
    <3>1. PICK p : /\ p \in {"undo", "announce", "token"} /\ req' = [req EXCEPT ![q].pc = p]
                   /\ p = "announce" => q \in ShellReqs
      BY <1>6, <2>1, <2>2 DEF ActorPersist
    <3>2. req'[q].pc = p /\ req'[q].reply = req[q].reply
      BY <1>1, <2>2, <3>1 DEF HandlerState
    <3>3. req[q].pc = "persisting"
      BY <1>4, <1>6, <2>1, <2>2 DEF ActorPersist, HandlerCalls, AwaitedAt
    <3>4. RequestMove(q)
      BY <3>1, <3>2, <3>3 DEF RequestMove
    <3> QED
      BY <1>1, <1>2, <3>1, <3>4
  <2>3. CASE q \notin TurnReqs
    BY <1>3, <1>6, <2>1, <2>3 DEF ActorPersist
  <2> QED
    BY <2>2, <2>3
<1>7. CASE ActorRollback
  <2>1. PICK q : q = Cur.by
    OBVIOUS
  <2>2. req' = [req EXCEPT ![q].pc = "done", ![q].reply = "InternalError"]
    BY <1>7, <2>1 DEF ActorRollback
  <2>3. q \in TurnReqs => req'[q].pc = "done" /\ req'[q].reply = "InternalError" /\ req[q].pc = "undoing"
    BY <1>1, <1>4, <1>7, <2>1, <2>2 DEF ActorRollback, HandlerState, HandlerCalls, AwaitedAt
  <2> QED
    BY <1>1, <1>2, <2>2, <2>3 DEF RequestMove
<1>8. CASE \E q \in TurnReqs : Handler(q)
  <2>1. PICK q \in TurnReqs : Handler(q)
    BY <1>8
  <2>2. \A r \in TurnReqs \ {q} : req'[r] = req[r]
    BY <1>1, <2>1 DEF Handler, ReadReservation, ReadCachedReservation, QueueInput, RefuseActive, Begin,
       SendPersist, SendRollback, AnnounceShell, RegisterToken, RegisterAndSpawn, AttachAndReply
  <2>3. CASE ReadReservation(q)
    <3>1. req'[q].pc \in {"cached", "asked"} /\ req'[q].reply = req[q].reply
      BY <1>1, <2>3 DEF ReadReservation, HandlerState
    <3>2. req'[q].pc = "cached" => registry.turn # NoTurn
      BY <1>1, <2>3 DEF ReadReservation, HandlerState
    <3> QED
      BY <1>2, <2>2, <2>3, <3>1, <3>2 DEF RequestMove
  <2>4. CASE ReadCachedReservation(q) \/ QueueInput(q) \/ RefuseActive(q)
    <3>1. RequestMove(q)
      BY <2>4 DEF RequestMove, ReadCachedReservation, QueueInput, RefuseActive
    <3> QED
      BY <1>2, <2>2, <3>1
  <2>5. CASE Begin(q) \/ SendPersist(q) \/ SendRollback(q) \/ AnnounceShell(q) \/ RegisterToken(q) \/ RegisterAndSpawn(q)
    <3>1. PICK p : /\ p \in {"begun", "persisting", "undoing", "token", "register", "attach"} /\ req' = [req EXCEPT ![q].pc = p]
                   /\ p = "attach" => RegisterAndSpawn(q)
      BY <2>5 DEF Begin, SendPersist, SendRollback, AnnounceShell, RegisterToken, RegisterAndSpawn
    <3>2. req'[q].pc = p /\ req'[q].reply = req[q].reply
      BY <1>1, <3>1 DEF HandlerState
    <3>3. req[q].pc \notin {"new", "asked", "cached", "done"}
      BY <2>5 DEF Begin, SendPersist, SendRollback, AnnounceShell, RegisterToken, RegisterAndSpawn
    <3>4. RequestMove(q)
      BY <3>1, <3>2, <3>3 DEF RequestMove
    <3> QED
      BY <1>2, <2>2, <3>4
  <2>6. CASE AttachAndReply(q)
    <3>1. req[q].pc = "attach" /\ req'[q].pc = "done" /\ req'[q].reply = "Started"
      BY <1>1, <2>6 DEF AttachAndReply, HandlerState
    <3>2. RequestMove(q)
      BY <2>6, <3>1 DEF RequestMove
    <3> QED
      BY <1>2, <2>2, <3>2
  <2> QED
    BY <2>1, <2>3, <2>4, <2>5, <2>6 DEF Handler
<1>9. CASE Actor /\ ~ActorSnapshot /\ ~ActorRollback /\ ~ActorPersist
  BY <1>3, <1>9 DEF Actor, ActorSetActive, ActorEnqueue, ActorInterrupt, ActorContext,
     ActorCompleteShell, ActorPop, ActorPrepare, ActorExecute, StartQuery, QueryCancelled,
     ClearInterruptHandles, PersistAndEmitTerminal, CloseTurn, taskVars
<1>10. CASE \E t \in TurnReqs : TurnTask(t)
  BY <1>3, <1>10 DEF TurnTask, SendExecute, ShellAskContext, ShellRun, ShellReturns, ShellClearHandles,
     ShellSendComplete, ShellEmitTerminal
<1>11. CASE (\E c \in Chainers : Followup(c)) \/ (\E i \in InterruptReqs : Interrupter(i))
  BY <1>3, <1>11 DEF Followup, SendPop, SendPrepare, SendActivate, SendFollowup,
     Interrupter, CheckTarget, RecheckRecent, CancelToken, AbortTask, SendInterrupt,
     ClearClaimed, FinishClaimed, HearTerminal, WaitTimesOut
<1>12. CASE QueryReturns \/ UNCHANGED vars
  BY <1>3, <1>12 DEF QueryReturns, vars, taskVars
<1> QED
  BY <1>5, <1>6, <1>7, <1>8, <1>9, <1>10, <1>11, <1>12 DEF Next, Quiescent

(* Who broadcasts the end of a turn; it stays broadcast.                     *)
LEMMA EndsFrom ==
  ASSUME TypeOK, TypeOK', [Next]_vars, NEW t \in TurnReqs
  PROVE  /\ ended[t] # <<>> => ended'[t] # <<>>
         /\ \/ ended'[t] = ended[t]
            \/ PersistAndEmitTerminal /\ exec.turn = t
            \/ ShellEmitTerminal(t)
            \/ \E i \in InterruptReqs : FinishClaimed(i) /\ intr[i].turn = t
<1>1. ended \in [TurnReqs -> Seq(Terminal)]
  BY DEF TypeOK
<1>2. ASSUME UNCHANGED ended PROVE ended'[t] = ended[t]
  BY <1>2
<1>3. ASSUME NEW u, NEW s, ended' = [ended EXCEPT ![u] = Append(@, s)]
      PROVE  /\ ended[t] # <<>> => ended'[t] # <<>>
             /\ ended'[t] = ended[t] \/ u = t
  <2>1. CASE u # t
    BY <1>1, <1>3, <2>1
  <2>2. CASE u = t
    <3>1. ended'[t] = Append(ended[t], s) /\ ended[t] \in Seq(Terminal)
      BY <1>1, <1>3, <2>2
    <3>2. ended'[t] \in Seq(Terminal)
      BY DEF TypeOK
    <3>3. Len(ended'[t]) = Len(ended[t]) + 1 /\ Len(ended[t]) \in Nat
      BY <3>1
    <3> QED
      BY <2>2, <3>2, <3>3
  <2> QED
    BY <2>1, <2>2
<1>4. CASE PersistAndEmitTerminal
  <2>1. PICK u : u = exec.turn
    OBVIOUS
  <2>2. ended' = [ended EXCEPT ![u] = Append(@, exec.status)]
    BY <1>4, <2>1 DEF PersistAndEmitTerminal
  <2> QED
    BY <1>3, <1>4, <2>1, <2>2
<1>5. CASE \E u \in TurnReqs : ShellEmitTerminal(u)
  <2>1. PICK u \in TurnReqs : ShellEmitTerminal(u)
    BY <1>5
  <2>2. ended' = [ended EXCEPT ![u] = Append(@, task[u].status)]
    BY <2>1 DEF ShellEmitTerminal
  <2> QED
    BY <1>3, <2>1, <2>2
<1>6. CASE \E i \in InterruptReqs : FinishClaimed(i)
  <2>1. PICK i \in InterruptReqs : FinishClaimed(i)
    BY <1>6
  <2>2. PICK u : u = intr[i].turn
    OBVIOUS
  <2>3. ended' = [ended EXCEPT ![u] = Append(@, "Interrupted")]
    BY <2>1, <2>2 DEF FinishClaimed
  <2> QED
    BY <1>3, <2>1, <2>2, <2>3
<1>7. CASE UNCHANGED ended
  BY <1>7
<1>8. CASE Actor /\ ~PersistAndEmitTerminal
  BY <1>7, <1>8 DEF Actor, ActorSnapshot, ActorSetActive, ActorPersist, ActorRollback, ActorEnqueue,
     ActorInterrupt, ActorContext, ActorCompleteShell, ActorPop, ActorPrepare, ActorExecute, StartQuery,
     QueryCancelled, ClearInterruptHandles, CloseTurn, historyVars
<1>9. CASE \E q \in TurnReqs : Handler(q)
  BY <1>7, <1>9 DEF Handler, ReadReservation, ReadCachedReservation, QueueInput, RefuseActive, Begin,
     SendPersist, SendRollback, AnnounceShell, RegisterToken, RegisterAndSpawn, AttachAndReply, historyVars
<1>10. CASE \E u \in TurnReqs : TurnTask(u) /\ ~ShellEmitTerminal(u)
  BY <1>7, <1>10 DEF TurnTask, SendExecute, ShellAskContext, ShellRun, ShellReturns, ShellClearHandles,
     ShellSendComplete, historyVars
<1>11. CASE (\E c \in Chainers : Followup(c)) \/ (\E i \in InterruptReqs : Interrupter(i) /\ ~FinishClaimed(i))
  BY <1>7, <1>11 DEF Followup, SendPop, SendPrepare, SendActivate, SendFollowup,
     Interrupter, CheckTarget, RecheckRecent, CancelToken, AbortTask, SendInterrupt,
     ClearClaimed, HearTerminal, WaitTimesOut, historyVars
<1>12. CASE QueryReturns \/ UNCHANGED vars
  BY <1>7, <1>12 DEF QueryReturns, vars, historyVars
<1> QED
  BY <1>4, <1>5, <1>6, <1>8, <1>9, <1>10, <1>11, <1>12 DEF Next, Quiescent

(* What a step does to one turn's task.                                      *)
TaskMove(t) ==
  \/ task'[t] = task[t]
  \/ RegisterAndSpawn(t) /\ task'[t].pc = "spawned"
  \/ SendExecute(t) /\ task'[t].pc = "sent"
  \/ ShellAskContext(t) /\ task'[t].pc = "preparing"
  \/ ActorContext /\ task[t].pc = "preparing" /\ task'[t].pc = "prepared"
  \/ ShellRun(t) /\ task'[t].pc = "running"
  \/ ShellReturns(t) /\ task'[t].pc = "returned"
  \/ ShellClearHandles(t) /\ task'[t].pc = "cleared"
  \/ ShellSendComplete(t) /\ task'[t].pc = "completing"
  \/ ActorCompleteShell /\ task[t].pc = "completing" /\ task'[t].pc = "completed"
  \/ ShellEmitTerminal(t) /\ task'[t].pc = "done"
  \/ task[t].pc \notin {"none", "done"} /\ task'[t].pc = "aborted"

(* Every step does one of these to each task.                                *)
LEMMA TaskMoves ==
  ASSUME TypeOK, TypeOK', [Next]_vars
  PROVE  \A t \in TurnReqs : TaskMove(t)
<1>1. task \in [TurnReqs -> TaskState] /\ \A t \in TurnReqs : task[t] \in TaskState
  BY DEF TypeOK
<1>2. ASSUME NEW u, \A t \in TurnReqs \ {u} : task'[t] = task[t], u \in TurnReqs => TaskMove(u)
      PROVE  \A t \in TurnReqs : TaskMove(t)
  BY <1>2 DEF TaskMove
<1>3. CASE UNCHANGED task
  BY <1>3 DEF TaskMove
<1>4. CASE ActorContext
  <2>1. PICK u : u = Cur.turn
    OBVIOUS
  <2>2. task' = [task EXCEPT ![u].pc = IF @ = "preparing" THEN "prepared" ELSE @]
    BY <1>4, <2>1 DEF ActorContext
  <2>3. u \in TurnReqs => \/ task[u].pc = "preparing" /\ task'[u].pc = "prepared"
                          \/ task'[u] = task[u]
    BY <1>1, <2>2 DEF TaskState
  <2>4. u \in TurnReqs => TaskMove(u)
    BY <1>4, <2>3 DEF TaskMove
  <2> QED
    BY <1>1, <1>2, <2>2, <2>4
<1>5. CASE ActorCompleteShell
  <2>1. PICK u : u = Cur.turn
    OBVIOUS
  <2>2. task' = [task EXCEPT ![u].pc = IF @ = "completing" THEN "completed" ELSE @]
    BY <1>5, <2>1 DEF ActorCompleteShell
  <2>3. u \in TurnReqs => \/ task[u].pc = "completing" /\ task'[u].pc = "completed"
                          \/ task'[u] = task[u]
    BY <1>1, <2>2 DEF TaskState
  <2>4. u \in TurnReqs => TaskMove(u)
    BY <1>5, <2>3 DEF TaskMove
  <2> QED
    BY <1>1, <1>2, <2>2, <2>4
<1>6. CASE \E r \in TurnReqs : RegisterAndSpawn(r)
  <2>1. PICK r \in TurnReqs : RegisterAndSpawn(r)
    BY <1>6
  <2>2. \A t \in TurnReqs \ {r} : task'[t] = task[t]
    BY <1>1, <2>1 DEF RegisterAndSpawn
  <2>3. task'[r].pc = "spawned"
    BY <1>1, <2>1 DEF RegisterAndSpawn, TaskState
  <2>4. TaskMove(r)
    BY <2>1, <2>3 DEF TaskMove
  <2> QED
    BY <1>2, <2>2, <2>4
<1>7. CASE \E u \in TurnReqs : TurnTask(u)
  <2>1. PICK u \in TurnReqs : TurnTask(u)
    BY <1>7
  <2>2. \A t \in TurnReqs \ {u} : task'[t] = task[t]
    BY <1>1, <2>1 DEF TurnTask, SendExecute, ShellAskContext, ShellRun, ShellReturns, ShellClearHandles,
     ShellSendComplete, ShellEmitTerminal
  <2>3. /\ SendExecute(u) => task'[u].pc = "sent"
        /\ ShellAskContext(u) => task'[u].pc = "preparing"
        /\ ShellRun(u) => task'[u].pc = "running"
        /\ ShellClearHandles(u) => task'[u].pc = "cleared"
        /\ ShellSendComplete(u) => task'[u].pc = "completing"
        /\ ShellEmitTerminal(u) => task'[u].pc = "done"
    BY <1>1, <2>1 DEF SendExecute, ShellAskContext, ShellRun, ShellClearHandles,
     ShellSendComplete, ShellEmitTerminal, TaskState
  <2>4. ShellReturns(u) => task'[u].pc = "returned"
    BY <1>1, <2>1 DEF ShellReturns, TaskState
  <2>5. TaskMove(u)
    BY <2>1, <2>3, <2>4 DEF TaskMove, TurnTask
  <2> QED
    BY <1>2, <2>2, <2>5
<1>8. CASE \E i \in InterruptReqs : AbortTask(i)
  <2>1. PICK i \in InterruptReqs : AbortTask(i)
    BY <1>8
  <2>2. PICK u : u = registry.abort
    OBVIOUS
  <2>3. UNCHANGED task \/ task' = [task EXCEPT ![u].pc = Aborted(u, @)]
    BY <2>1, <2>2 DEF AbortTask
  <2>4. CASE task' = [task EXCEPT ![u].pc = Aborted(u, @)]
    <3>1. u \in TurnReqs => task'[u].pc = Aborted(u, task[u].pc) /\ task'[u] = [task[u] EXCEPT !.pc = Aborted(u, task[u].pc)]
      BY <1>1, <2>4 DEF TaskState
    <3>2. Aborted(u, task[u].pc) = task[u].pc \/ (task[u].pc \notin {"none", "done"} /\ Aborted(u, task[u].pc) = "aborted")
      BY DEF Aborted
    <3>3. u \in TurnReqs => TaskMove(u)
      BY <1>1, <3>1, <3>2 DEF TaskMove, TaskState
    <3> QED
      BY <1>1, <1>2, <2>4, <3>3
  <2> QED
    BY <1>3, <2>3, <2>4
<1>9. CASE Actor /\ ~ActorContext /\ ~ActorCompleteShell
  BY <1>3, <1>9 DEF Actor, ActorSnapshot, ActorSetActive, ActorPersist, ActorRollback, ActorEnqueue,
     ActorInterrupt, ActorPop, ActorPrepare, ActorExecute, StartQuery, QueryCancelled,
     ClearInterruptHandles, PersistAndEmitTerminal, CloseTurn, taskVars
<1>10. CASE \E r \in TurnReqs : Handler(r) /\ ~RegisterAndSpawn(r)
  BY <1>3, <1>10 DEF Handler, ReadReservation, ReadCachedReservation, QueueInput, RefuseActive, Begin,
     SendPersist, SendRollback, AnnounceShell, RegisterToken, AttachAndReply
<1>11. CASE (\E c \in Chainers : Followup(c)) \/ (\E i \in InterruptReqs : Interrupter(i) /\ ~AbortTask(i))
  BY <1>3, <1>11 DEF Followup, SendPop, SendPrepare, SendActivate, SendFollowup,
     Interrupter, CheckTarget, RecheckRecent, CancelToken, SendInterrupt,
     ClearClaimed, FinishClaimed, HearTerminal, WaitTimesOut
<1>12. CASE QueryReturns \/ UNCHANGED vars
  BY <1>3, <1>12 DEF QueryReturns, vars, taskVars
<1> QED
  BY <1>4, <1>5, <1>6, <1>7, <1>8, <1>9, <1>10, <1>11, <1>12 DEF Next, Quiescent

(* What a step does to one interrupt handler.                                *)
IntrStep(i) ==
  \/ intr'[i] = intr[i]
  \/ /\ intr[i].pc = "new" /\ intr'[i].turn \in announced
     /\ \/ intr'[i].pc = "subscribed" /\ intr'[i].reply = intr[i].reply /\ intr'[i].turn = registry.turn
        \/ intr'[i].pc = "done" /\ intr'[i].reply = "TurnNotFound"
        \/ /\ intr'[i].pc = "done" /\ intr'[i].reply = recorded[intr'[i].turn] /\ recorded[intr'[i].turn] # "None"
           /\ UNCHANGED <<recorded, ended, task>>
  \/ /\ intr'[i].turn = intr[i].turn /\ intr'[i].reply = intr[i].reply
     /\ \/ intr[i].pc = "subscribed" /\ intr'[i].pc = "cancel"
        \/ intr[i].pc = "cancel" /\ intr'[i].pc = "abort"
        \/ AbortTask(i) /\ intr[i].pc = "abort" /\ intr'[i].pc = "claim"
        \/ SendInterrupt(i) /\ intr[i].pc = "claim" /\ intr'[i].pc = "claiming"
        \/ ActorInterrupt /\ Cur.by = i /\ intr[i].pc = "claiming" /\ active = intr[i].turn /\ intr'[i].pc = "claimed"
        \/ ActorInterrupt /\ Cur.by = i /\ intr[i].pc = "claiming" /\ intr'[i].pc = "waiting"
        \/ ClearClaimed(i) /\ intr[i].pc = "claimed" /\ intr'[i].pc = "persisting"
        \/ ActorPersist /\ intr[i].pc = "persisting" /\ intr'[i].pc = "finish"
  \/ /\ intr'[i].turn = intr[i].turn /\ intr'[i].pc = "done"
     /\ \/ /\ intr[i].pc \in {"subscribed", "waiting"} /\ intr'[i].reply = recorded[intr[i].turn]
           /\ recorded[intr[i].turn] # "None" /\ UNCHANGED <<recorded, ended, task>>
        \/ intr[i].pc = "waiting" /\ intr'[i].reply = "TurnNotFound"
        \/ ActorInterrupt /\ intr[i].pc = "claiming" /\ intr'[i].reply = "TurnNotFound"
        \/ ActorPersist /\ intr[i].pc = "persisting" /\ intr'[i].reply = "InternalError"
        \/ FinishClaimed(i) /\ intr[i].pc = "finish" /\ intr'[i].reply = "Interrupted"

(* Every step does one of these to each interrupt handler.                   *)
LEMMA IntrSteps ==
  ASSUME TypeOK, TypeOK', AsideAwaited, [Next]_vars, NEW i \in InterruptReqs
  PROVE  IntrStep(i)
<1>1. intr \in [InterruptReqs -> InterruptState] /\ intr[i] \in InterruptState /\ i \notin TurnReqs
  BY SetsMeet DEF TypeOK
<1>2. ASSUME intr'[i] = intr[i] PROVE IntrStep(i)
  BY <1>2 DEF IntrStep
<1>3. CASE ActorPersist
  <2>1. PICK j : j = Cur.by
    OBVIOUS
  <2>2. CASE j # i
    <3>1. intr'[i] = intr[i]
      BY <1>1, <1>3, <2>1, <2>2 DEF ActorPersist
    <3> QED
      BY <1>2, <3>1
  <2>3. CASE j = i
    <3>1. 1 \in DOMAIN mailbox /\ Cur = mailbox[1] /\ Cur.op = "persist"
      BY <1>3, MailboxSteps DEF ActorPersist
    <3>2. intr[i].pc = "persisting"
      BY <2>1, <2>3, <3>1 DEF AsideAwaited, OfIntr, IntrAt
    <3>3. PICK ok \in BOOLEAN :
            intr' = [intr EXCEPT ![i].pc = IF ok THEN "finish" ELSE "done",
                                 ![i].reply = IF ok THEN @ ELSE "InternalError"]
      BY <1>1, <1>3, <2>1, <2>3 DEF ActorPersist
    <3>4. CASE ok
      <4>1. intr' = [intr EXCEPT ![i].pc = "finish", ![i].reply = @]
        BY <3>3, <3>4
      <4>2. intr'[i].turn = intr[i].turn /\ intr'[i].pc = "finish" /\ intr'[i].reply = intr[i].reply
        BY <1>1, <4>1 DEF InterruptState
      <4> QED
        BY <1>3, <3>2, <4>2 DEF IntrStep
    <3>5. CASE ~ok
      <4>1. intr' = [intr EXCEPT ![i].pc = "done", ![i].reply = "InternalError"]
        BY <3>3, <3>5
      <4>2. intr'[i].turn = intr[i].turn /\ intr'[i].pc = "done" /\ intr'[i].reply = "InternalError"
        BY <1>1, <4>1 DEF InterruptState
      <4> QED
        BY <1>3, <3>2, <4>2 DEF IntrStep
    <3> QED
      BY <3>4, <3>5
  <2> QED
    BY <2>2, <2>3
<1>4. CASE ActorInterrupt
  <2>1. PICK j : j = Cur.by
    OBVIOUS
  <2>2. CASE j # i
    <3>1. intr'[i] = intr[i]
      BY <1>1, <1>4, <2>1, <2>2 DEF ActorInterrupt
    <3> QED
      BY <1>2, <3>1
  <2>3. CASE j = i
    <3>1. 1 \in DOMAIN mailbox /\ Cur = mailbox[1] /\ Cur.op = "interrupt"
      BY <1>4, MailboxSteps DEF ActorInterrupt
    <3>2. intr[i].pc = "claiming"
      BY <2>1, <2>3, <3>1 DEF AsideAwaited, OfIntr, IntrAt
    <3>3. intr'[i] = CASE active = NoTurn -> [intr[i] EXCEPT !.pc = "waiting"]
                       [] active # NoTurn /\ active = intr[i].turn -> [intr[i] EXCEPT !.pc = "claimed"]
                       [] OTHER -> [intr[i] EXCEPT !.pc = "done", !.reply = "TurnNotFound"]
      BY <1>1, <1>4, <2>1, <2>3 DEF ActorInterrupt
    <3>4. CASE active = NoTurn
      <4>1. intr'[i] = [intr[i] EXCEPT !.pc = "waiting"]
        BY <3>3, <3>4
      <4> QED
        BY <1>1, <1>4, <2>1, <2>3, <3>2, <4>1 DEF IntrStep, InterruptState
    <3>5. CASE active # NoTurn /\ active = intr[i].turn
      <4>1. intr'[i] = [intr[i] EXCEPT !.pc = "claimed"]
        BY <3>3, <3>5
      <4> QED
        BY <1>1, <1>4, <2>1, <2>3, <3>2, <3>5, <4>1 DEF IntrStep, InterruptState
    <3>6. CASE active # NoTurn /\ active # intr[i].turn
      <4>1. intr'[i] = [intr[i] EXCEPT !.pc = "done", !.reply = "TurnNotFound"]
        BY <3>3, <3>6
      <4> QED
        BY <1>1, <1>4, <3>2, <4>1 DEF IntrStep, InterruptState
    <3> QED
      BY <3>4, <3>5, <3>6
  <2> QED
    BY <2>2, <2>3
<1>5. CASE \E j \in InterruptReqs : Interrupter(j)
  <2>1. PICK j \in InterruptReqs : Interrupter(j)
    BY <1>5
  <2>2. CASE j # i
    <3>1. intr'[i] = intr[i]
      BY <1>1, <2>1, <2>2 DEF Interrupter, CheckTarget, RecheckRecent, CancelToken, AbortTask, SendInterrupt,
         ClearClaimed, FinishClaimed, HearTerminal, WaitTimesOut, Answer
    <3> QED
      BY <1>2, <3>1
  <2>3. CASE j = i
    <3>1. CASE \E t \in TurnReqs : CheckTarget(i, t)
      <4>1. PICK t \in TurnReqs : CheckTarget(i, t)
        BY <3>1
      <4>2. intr[i].pc = "new" /\ t \in announced /\ UNCHANGED <<recorded, ended, task>>
        BY <4>1 DEF CheckTarget, runtimeVars, historyVars
      <4>3. intr'[i] = CASE registry.turn = t   -> [intr[i] EXCEPT !.pc = "subscribed", !.turn = t]
                         [] registry.turn # t /\ recorded[t] # "None"
                                                -> [intr[i] EXCEPT !.pc = "done", !.turn = t, !.reply = recorded[t]]
                         [] OTHER               -> [intr[i] EXCEPT !.pc = "done", !.turn = t, !.reply = "TurnNotFound"]
        BY <1>1, <4>1 DEF CheckTarget
      <4>4. CASE registry.turn = t
        <5>1. intr'[i] = [intr[i] EXCEPT !.pc = "subscribed", !.turn = t]
          BY <4>3, <4>4
        <5> QED
          BY <1>1, <4>2, <4>4, <5>1 DEF IntrStep, InterruptState
      <4>5. CASE registry.turn # t /\ recorded[t] # "None"
        <5>1. intr'[i] = [intr[i] EXCEPT !.pc = "done", !.turn = t, !.reply = recorded[t]]
          BY <4>3, <4>5
        <5>2. intr'[i].pc = "done" /\ intr'[i].turn = t /\ intr'[i].reply = recorded[t]
          BY <1>1, <5>1 DEF InterruptState
        <5> QED
          BY <4>2, <4>5, <5>2 DEF IntrStep
      <4>6. CASE registry.turn # t /\ recorded[t] = "None"
        <5>1. intr'[i] = [intr[i] EXCEPT !.pc = "done", !.turn = t, !.reply = "TurnNotFound"]
          BY <4>3, <4>6
        <5> QED
          BY <1>1, <4>2, <5>1 DEF IntrStep, InterruptState
      <4> QED
        BY <4>4, <4>5, <4>6
    <3>2. CASE RecheckRecent(i) \/ HearTerminal(i)
      <4>1. /\ intr[i].pc \in {"subscribed", "waiting"} /\ UNCHANGED <<recorded, ended, task>>
            /\ \/ recorded[intr[i].turn] # "None" /\ Answer(i, recorded[intr[i].turn])
               \/ intr[i].pc = "subscribed" /\ intr' = [intr EXCEPT ![i].pc = "cancel"]
        BY <3>2 DEF RecheckRecent, HearTerminal, runtimeVars, historyVars
      <4>2. CASE recorded[intr[i].turn] # "None" /\ Answer(i, recorded[intr[i].turn])
        <5>1. intr'[i].pc = "done" /\ intr'[i].turn = intr[i].turn /\ intr'[i].reply = recorded[intr[i].turn]
          BY <1>1, <4>2 DEF Answer, InterruptState
        <5> QED
          BY <4>1, <4>2, <5>1 DEF IntrStep
      <4>3. CASE intr[i].pc = "subscribed" /\ intr' = [intr EXCEPT ![i].pc = "cancel"]
        BY <1>1, <4>3 DEF IntrStep, InterruptState
      <4> QED
        BY <4>1, <4>2, <4>3
    <3>3. CASE CancelToken(i) \/ AbortTask(i) \/ SendInterrupt(i) \/ ClearClaimed(i)
      <4>1. /\ CancelToken(i) => intr[i].pc = "cancel" /\ intr' = [intr EXCEPT ![i].pc = "abort"]
            /\ AbortTask(i) => intr[i].pc = "abort" /\ intr' = [intr EXCEPT ![i].pc = "claim"]
            /\ SendInterrupt(i) => intr[i].pc = "claim" /\ intr' = [intr EXCEPT ![i].pc = "claiming"]
            /\ ClearClaimed(i) => intr[i].pc = "claimed" /\ intr' = [intr EXCEPT ![i].pc = "persisting"]
        BY DEF CancelToken, AbortTask, SendInterrupt, ClearClaimed
      <4>2. PICK p : p = intr'[i].pc /\ intr' = [intr EXCEPT ![i].pc = p]
        BY <1>1, <3>3, <4>1 DEF InterruptState
      <4>3. intr'[i].turn = intr[i].turn /\ intr'[i].reply = intr[i].reply
        BY <1>1, <4>2 DEF InterruptState
      <4>4. \/ CancelToken(i) /\ intr[i].pc = "cancel" /\ intr'[i].pc = "abort"
            \/ AbortTask(i) /\ intr[i].pc = "abort" /\ intr'[i].pc = "claim"
            \/ SendInterrupt(i) /\ intr[i].pc = "claim" /\ intr'[i].pc = "claiming"
            \/ ClearClaimed(i) /\ intr[i].pc = "claimed" /\ intr'[i].pc = "persisting"
        BY <1>1, <3>3, <4>1 DEF InterruptState
      <4> QED
        BY <4>3, <4>4 DEF IntrStep
    <3>4. CASE FinishClaimed(i) \/ WaitTimesOut(i)
      <4>1. \/ FinishClaimed(i) /\ intr[i].pc = "finish" /\ Answer(i, "Interrupted")
            \/ intr[i].pc = "waiting" /\ Answer(i, "TurnNotFound")
        BY <3>4 DEF FinishClaimed, WaitTimesOut
      <4>2. CASE FinishClaimed(i) /\ intr[i].pc = "finish" /\ Answer(i, "Interrupted")
        <5>1. intr'[i].pc = "done" /\ intr'[i].turn = intr[i].turn /\ intr'[i].reply = "Interrupted"
          BY <1>1, <4>2 DEF Answer, InterruptState
        <5> QED
          BY <4>2, <5>1 DEF IntrStep
      <4>3. CASE intr[i].pc = "waiting" /\ Answer(i, "TurnNotFound")
        <5>1. intr'[i].pc = "done" /\ intr'[i].turn = intr[i].turn /\ intr'[i].reply = "TurnNotFound"
          BY <1>1, <4>3 DEF Answer, InterruptState
        <5> QED
          BY <4>3, <5>1 DEF IntrStep
      <4> QED
        BY <4>1, <4>2, <4>3
    <3> QED
      BY <2>1, <2>3, <3>1, <3>2, <3>3, <3>4 DEF Interrupter
  <2> QED
    BY <2>2, <2>3
<1>6. CASE UNCHANGED intr
  BY <1>2, <1>6
<1>7. CASE Actor /\ ~ActorPersist /\ ~ActorInterrupt
  BY <1>6, <1>7 DEF Actor, ActorSnapshot, ActorSetActive, ActorRollback, ActorEnqueue, ActorContext,
     ActorCompleteShell, ActorPop, ActorPrepare, ActorExecute, StartQuery, QueryCancelled,
     ClearInterruptHandles, PersistAndEmitTerminal, CloseTurn, taskVars
<1>8. CASE \E r \in TurnReqs : Handler(r) \/ TurnTask(r)
  BY <1>6, <1>8 DEF Handler, ReadReservation, ReadCachedReservation, QueueInput, RefuseActive, Begin,
     SendPersist, SendRollback, AnnounceShell, RegisterToken, RegisterAndSpawn, AttachAndReply,
     TurnTask, SendExecute, ShellAskContext, ShellRun, ShellReturns, ShellClearHandles,
     ShellSendComplete, ShellEmitTerminal
<1>9. CASE \E c \in Chainers : Followup(c)
  BY <1>6, <1>9 DEF Followup, SendPop, SendPrepare, SendActivate, SendFollowup
<1>10. CASE QueryReturns \/ UNCHANGED vars
  BY <1>6, <1>10 DEF QueryReturns, vars, taskVars
<1> QED
  BY <1>3, <1>4, <1>5, <1>7, <1>8, <1>9, <1>10 DEF Next, Quiescent

(* An interrupt handler that claims a turn found it active, and unregisters  *)
(* the session before it persists the turn.                                  *)
LEMMA ClaimMoves ==
  ASSUME TypeOK, TypeOK', AsideAwaited, [Next]_vars, NEW i \in InterruptReqs
  PROVE  /\ intr'[i].pc \in {"claimed", "persisting", "finish"} =>
              /\ intr'[i].turn = intr[i].turn
              /\ \/ intr[i].pc \in {"claimed", "persisting", "finish"}
                 \/ ActorInterrupt /\ Cur.by = i /\ intr[i].pc = "claiming" /\ active = intr[i].turn
         /\ intr'[i].pc \in {"persisting", "finish"} =>
              intr[i].pc \in {"persisting", "finish"} \/ ClearClaimed(i)
BY IntrSteps DEF IntrStep

(* What a step does to the registered turn and the registered task.          *)
RegistryMove ==
  \/ registry'.turn = registry.turn /\ registry'.abort = registry.abort
  \/ \E r \in TurnReqs : RegisterAndSpawn(r) /\ registry'.turn = r /\ registry'.abort = registry.abort
  \/ \E r \in TurnReqs : AttachAndReply(r) /\ registry'.turn = registry.turn /\ (EntryExists => registry'.abort = r)
  \/ ClearInterruptHandles /\ registry'.turn = NoTurn
  \/ \E t \in TurnReqs : ShellClearHandles(t) /\ registry'.turn = NoTurn
  \/ \E i \in InterruptReqs : ClearClaimed(i) /\ registry'.turn = NoTurn
  \/ \E i \in InterruptReqs : AbortTask(i) /\ registry'.turn = registry.turn

(* Every step does one of these to the registry.                             *)
LEMMA RegistrySteps ==
  ASSUME TypeOK, [Next]_vars
  PROVE  RegistryMove
<1>1. registry \in Entry
  BY DEF TypeOK
<1>2. CASE UNCHANGED registry
  BY <1>2 DEF RegistryMove
<1>3. CASE ActorExecute \/ ClearInterruptHandles \/ CloseTurn
  BY <1>1, <1>3 DEF ActorExecute, ClearInterruptHandles, CloseTurn, Entry, RegistryMove
<1>4. CASE \E r \in TurnReqs : RegisterAndSpawn(r)
  <2>1. PICK r \in TurnReqs : RegisterAndSpawn(r)
    BY <1>4
  <2>2. registry'.turn = r /\ registry'.abort = registry.abort
    BY <1>1, <2>1 DEF RegisterAndSpawn, Entry
  <2> QED
    BY <2>1, <2>2 DEF RegistryMove
<1>5. CASE \E r \in TurnReqs : RegisterToken(r)
  BY <1>1, <1>5 DEF RegisterToken, Entry, RegistryMove
<1>a. CASE \E r \in TurnReqs : AttachAndReply(r)
  <2>1. PICK r \in TurnReqs : AttachAndReply(r)
    BY <1>a
  <2>2. registry'.turn = registry.turn /\ (EntryExists => registry'.abort = r)
    BY <1>1, <2>1 DEF AttachAndReply, Entry
  <2> QED
    BY <2>1, <2>2 DEF RegistryMove
<1>6. CASE \E t \in TurnReqs : ShellClearHandles(t)
  <2>1. PICK t \in TurnReqs : ShellClearHandles(t)
    BY <1>6
  <2>2. registry'.turn = NoTurn
    BY <2>1 DEF ShellClearHandles, EmptyEntry
  <2> QED
    BY <2>1, <2>2 DEF RegistryMove
<1>7. CASE \E i \in InterruptReqs : ClearClaimed(i)
  <2>1. PICK i \in InterruptReqs : ClearClaimed(i)
    BY <1>7
  <2>2. registry'.turn = NoTurn \/ (registry'.turn = registry.turn /\ registry'.abort = registry.abort)
    BY <1>1, <2>1 DEF ClearClaimed, EmptyEntry
  <2> QED
    BY <2>1, <2>2 DEF RegistryMove
<1>8. CASE \E i \in InterruptReqs : AbortTask(i)
  <2>1. PICK i \in InterruptReqs : AbortTask(i)
    BY <1>8
  <2>2. registry'.turn = registry.turn
    BY <1>1, <2>1 DEF AbortTask, Entry
  <2> QED
    BY <2>1, <2>2 DEF RegistryMove
<1>9. CASE Actor /\ ~ActorExecute /\ ~ClearInterruptHandles /\ ~CloseTurn
  BY <1>2, <1>9 DEF Actor, ActorSnapshot, ActorSetActive, ActorPersist, ActorRollback, ActorEnqueue,
     ActorInterrupt, ActorContext, ActorCompleteShell, ActorPop, ActorPrepare, StartQuery, QueryCancelled,
     PersistAndEmitTerminal, runtimeVars
<1>10. CASE \E r \in TurnReqs : Handler(r) /\ ~RegisterAndSpawn(r) /\ ~RegisterToken(r) /\ ~AttachAndReply(r)
  BY <1>2, <1>10 DEF Handler, ReadReservation, ReadCachedReservation, QueueInput, RefuseActive, Begin,
     SendPersist, SendRollback, AnnounceShell, runtimeVars
<1>11. CASE \E t \in TurnReqs : TurnTask(t) /\ ~ShellClearHandles(t)
  BY <1>2, <1>11 DEF TurnTask, SendExecute, ShellAskContext, ShellRun, ShellReturns,
     ShellSendComplete, ShellEmitTerminal, runtimeVars
<1>12. CASE (\E c \in Chainers : Followup(c))
            \/ (\E i \in InterruptReqs : Interrupter(i) /\ ~AbortTask(i) /\ ~ClearClaimed(i))
  BY <1>2, <1>12 DEF Followup, SendPop, SendPrepare, SendActivate, SendFollowup,
     Interrupter, CheckTarget, RecheckRecent, CancelToken, SendInterrupt,
     FinishClaimed, HearTerminal, WaitTimesOut, runtimeVars
<1>13. CASE QueryReturns \/ UNCHANGED vars
  BY <1>2, <1>13 DEF QueryReturns, vars, runtimeVars
<1> QED
  BY <1>3, <1>4, <1>5, <1>a, <1>6, <1>7, <1>8, <1>9, <1>10, <1>11, <1>12, <1>13 DEF Next, Quiescent

(* The registry comes to name a turn only when that turn's task is spawned.  *)
LEMMA RegistryNames ==
  ASSUME TypeOK, [Next]_vars
  PROVE  \/ registry'.turn \in {NoTurn, registry.turn}
         \/ \E r \in TurnReqs : RegisterAndSpawn(r) /\ registry'.turn = r
BY RegistrySteps DEF RegistryMove

(* A request that is not settled; a turn that must not be active any more,   *)
(* and one that must not be registered any more.                             *)
Open(r) == ~Settled(r)
(* A turn that must not be active any more: it has ended, its shell task has *)
(* left the session, or an interrupt handler has claimed it.                 *)
Left(t) ==
  \/ ended[t] # <<>>
  \/ task[t].pc \in {"completed", "done"}
  \/ \E i \in InterruptReqs : intr[i].turn = t /\ intr[i].pc \in {"claimed", "persisting", "finish"}
(* A turn whose handles must not be registered any more.                     *)
Unregistered(t) ==
  \/ ended[t] # <<>>
  \/ exec.turn = t /\ exec.pc \in {"ending", "closing"}
  \/ task[t].pc \in {"cleared", "completing", "completed", "done"}
  \/ \E i \in InterruptReqs : intr[i].turn = t /\ intr[i].pc \in {"persisting", "finish"}

(* Of a client that waits, one request is open; no handler of its finds the  *)
(* session busy; and a turn is neither active nor registered once it is over.*)
OneOpen == \A r, q \in TurnReqs : Open(r) /\ Open(q) => r = q
NoneBusy == \A r \in TurnReqs : req[r].pc # "cached" /\ (req[r].pc = "admit" => req[r].active = NoTurn)
LeftInactive == \A t \in TurnReqs : Left(t) => Spawned(t) /\ active # t
GoneUnregistered == \A t \in TurnReqs : Unregistered(t) => Spawned(t) /\ registry.turn # t
(* The inductive invariant, beside RefusalInv and OneInv.                    *)
PatientInv == PatientClientStarts /\ OneOpen /\ NoneBusy /\ LeftInactive /\ GoneUnregistered

(* A turn that is active, or registered, is open.                            *)
LEMMA BusyIsOpen ==
  ASSUME TypeOK, RefusalInv, PatientInv
  PROVE  /\ active # NoTurn => active \in TurnReqs /\ Begun(active) /\ Open(active)
         /\ registry.turn # NoTurn => registry.turn \in TurnReqs /\ Spawned(registry.turn) /\ Open(registry.turn)
<1>1. \A t : ~IsQueued(t)
  BY SetsMeet DEF PatientInv, PatientClientStarts, IsQueued
<1>2. ASSUME NEW t \in TurnReqs, Begun(t), ended[t] = <<>> PROVE Open(t)
  BY <1>2 DEF Open, Settled, Begun, Spawned, RefusalInv, Untold
<1>3. ASSUME active # NoTurn PROVE active \in TurnReqs /\ Begun(active) /\ Open(active)
  <2>1. active \in TurnReqs /\ Begun(active)
    BY <1>1, <1>3 DEF TypeOK, Turns, RefusalInv, RunningOnes
  <2>2. ended[active] = <<>>
    BY <2>1 DEF PatientInv, LeftInactive, Left
  <2> QED
    BY <1>2, <2>1, <2>2
<1>4. ASSUME registry.turn # NoTurn
      PROVE  registry.turn \in TurnReqs /\ Spawned(registry.turn) /\ Open(registry.turn)
  <2>1. registry.turn \in TurnReqs /\ Spawned(registry.turn)
    BY <1>4 DEF TypeOK, Turns, Entry, RefusalInv, RunningOnes
  <2>2. ended[registry.turn] = <<>>
    BY <2>1 DEF PatientInv, GoneUnregistered, Unregistered
  <2> QED
    BY <1>2, <2>1, <2>2 DEF Begun
<1> QED
  BY <1>3, <1>4

(* Only a handler that comes to read the reservation opens a request.        *)
LEMMA OpenMoves ==
  ASSUME TypeOK, TypeOK', RefusalInv, [Next]_vars, NEW r \in TurnReqs, Settled(r)
  PROVE  \/ Settled(r)'
         \/ ReadReservation(r) /\ req'[r].pc # "new"
<1>1. RequestMove(r)
  BY RequestMoves DEF RefusalInv
<1>2. ended[r] # <<>> => ended'[r] # <<>>
  BY EndsFrom
<1>3. CASE req'[r] = req[r]
  BY <1>2, <1>3 DEF Settled
<1>4. CASE req'[r] # req[r]
  <2>1. req[r].pc # "done"
    BY <1>4, StepsAdvance DEF Advances, RefusalInv
  <2>2. req[r].pc = "new"
    BY <2>1 DEF Settled
  <2> QED
    BY <1>1, <1>4, <2>2 DEF RequestMove
<1> QED
  BY <1>3, <1>4

(* A client that waits opens no second request.                              *)
LEMMA OneOpenStep ==
  ASSUME Patience # "none", TypeOK, TypeOK', RefusalInv, OneOpen, [Next]_vars
  PROVE  OneOpen'
<1> DEFINE O(r) == Open(r)'
<1> SUFFICES ASSUME NEW r \in TurnReqs, NEW q \in TurnReqs, O(r), O(q), r # q PROVE FALSE
  BY DEF OneOpen
<1>1. \A t \in TurnReqs : O(t) => Open(t) \/ (ReadReservation(t) /\ req'[t].pc # "new")
  BY OpenMoves DEF Open
<1> HIDE DEF O
<1>2. \A t \in TurnReqs : ReadReservation(t) => \A u \in TurnReqs \ {t} : Settled(u) /\ req'[u] = req[u]
  BY DEF ReadReservation, ClientMaySend, TypeOK
<1>3. \A t \in TurnReqs : ReadReservation(t) => req[t].pc = "new"
  BY DEF ReadReservation
<1>4. ~(Open(r) /\ Open(q))
  BY DEF OneOpen
<1> QED
  BY <1>1, <1>2, <1>3, <1>4 DEF Open

(* A reservation is read while nothing is active or registered.              *)
LEMMA NoneBusyStep ==
  ASSUME Patience # "none", TypeOK, TypeOK', RefusalInv, PatientInv, [Next]_vars
  PROVE  NoneBusy' /\ PatientClientStarts'
<1> SUFFICES ASSUME NEW r \in TurnReqs
             PROVE  /\ req'[r].pc # "cached" /\ (req'[r].pc = "admit" => req'[r].active = NoTurn)
                    /\ req'[r].reply \in {"None", "Started", "InternalError"}
  BY DEF NoneBusy, PatientClientStarts
<1>1. /\ req[r].pc # "cached" /\ (req[r].pc = "admit" => req[r].active = NoTurn)
      /\ req[r].reply \in {"None", "Started", "InternalError"}
  BY DEF PatientInv, NoneBusy, PatientClientStarts
<1>2. ReadReservation(r) => registry.turn = NoTurn
  <2> SUFFICES ASSUME ReadReservation(r), registry.turn # NoTurn PROVE FALSE
    OBVIOUS
  <2>1. PICK t \in TurnReqs : t = registry.turn /\ Spawned(t) /\ Open(t)
    BY BusyIsOpen
  <2>2. t = r
    BY <2>1 DEF ReadReservation, ClientMaySend, Open
  <2> QED
    BY <2>1, <2>2 DEF ReadReservation, Spawned, RefusalInv, Untold
<1>3. req[r].pc = "asked" => active = NoTurn
  <2> SUFFICES ASSUME req[r].pc = "asked", active # NoTurn PROVE FALSE
    OBVIOUS
  <2>1. PICK t \in TurnReqs : t = active /\ Begun(t) /\ Open(t)
    BY BusyIsOpen
  <2>2. Open(r)
    BY DEF Open, Settled
  <2>3. t = r
    BY <2>1, <2>2 DEF PatientInv, OneOpen
  <2> QED
    BY <2>1, <2>3 DEF Begun, Spawned, RefusalInv, Untold
<1>4. RequestMove(r)
  BY RequestMoves DEF RefusalInv
<1> QED
  BY <1>1, <1>2, <1>3, <1>4 DEF RequestMove

(* A turn leaves the session as it is claimed, completed or ended.           *)
LEMMA LeftStep ==
  ASSUME TypeOK, TypeOK', RefusalInv, OneInv, PatientInv, [Next]_vars
  PROVE  LeftInactive'
<1> DEFINE S(t) == req'[t].pc = "attach" \/ req'[t].reply = "Started"
           L(t) == Left(t)'
<1> SUFFICES ASSUME NEW t \in TurnReqs, L(t) PROVE S(t) /\ active' # t
  BY DEF LeftInactive, Spawned
<1>1. Spawned(t) => S(t)
  BY StepsAdvance DEF RefusalInv, Spawned
<1>2. \A u : ~IsQueued(u)
  BY SetsMeet DEF PatientInv, PatientClientStarts, IsQueued
<1>3. Spawned(t) /\ active # t => active' # t
  <2> SUFFICES ASSUME Spawned(t), active # t, active' = t PROVE FALSE
    OBVIOUS
  <2>1. PICK n \in DOMAIN mailbox : mailbox[n].op \in {"begin", "activate"} /\ mailbox[n].turn = t
    BY ActorMoves, SetsMeet
  <2>2. mailbox[n].op = "begin"
    BY <1>2, <2>1 DEF RefusalInv, QueuedOnes
  <2>3. req[t].pc \in Beginning
    BY <2>1, <2>2 DEF RefusalInv, CallsAwaited
  <2> QED
    BY <2>3 DEF Spawned, Beginning, RefusalInv, Untold
<1>4. CASE Left(t)
  <2>1. Spawned(t) /\ active # t
    BY <1>4 DEF PatientInv, LeftInactive
  <2> QED
    BY <1>1, <1>3, <2>1
<1>5. CASE ~Left(t)
  <2>1. CASE ended'[t] # <<>>
    <3>1. PersistAndEmitTerminal /\ exec.turn = t
      <4>1. ~ShellEmitTerminal(t)
        BY <1>5 DEF ShellEmitTerminal, Left
      <4>2. ~\E i \in InterruptReqs : FinishClaimed(i) /\ intr[i].turn = t
        BY <1>5 DEF FinishClaimed, Left
      <4> QED
        BY <1>5, <2>1, <4>1, <4>2, EndsFrom DEF Left
    <3>2. active' = NoTurn
      BY <3>1 DEF PersistAndEmitTerminal
    <3>3. Spawned(t)
      BY <1>2, <3>1, SetsMeet DEF RefusalInv, RunningOnes
    <3> QED
      BY <1>1, <3>2, <3>3, SetsMeet
  <2>2. CASE task'[t].pc \in {"completed", "done"}
    <3>1. ActorCompleteShell /\ task[t].pc = "completing"
      BY <1>5, <2>2, TaskMoves DEF TaskMove, Left, ShellEmitTerminal
    <3>2. active' = NoTurn
      BY <3>1 DEF ActorCompleteShell
    <3>3. Spawned(t)
      BY <3>1 DEF RefusalInv, RunningOnes
    <3> QED
      BY <1>1, <3>2, <3>3, SetsMeet
  <2>3. CASE \E i \in InterruptReqs : intr'[i].turn = t /\ intr'[i].pc \in {"claimed", "persisting", "finish"}
    <3>1. PICK i \in InterruptReqs : intr'[i].turn = t /\ intr'[i].pc \in {"claimed", "persisting", "finish"}
      BY <2>3
    <3>2. AsideAwaited
      BY DEF OneInv
    <3>3. ActorInterrupt /\ intr'[i].turn = intr[i].turn
      BY <1>5, <3>1, <3>2, ClaimMoves DEF Left
    <3>4. active' = NoTurn
      BY <3>3 DEF ActorInterrupt
    <3>5. S(t)
      <4>1. ClaimsStarted'
        BY OneStep DEF OneInv
      <4>2. \A j \in InterruptReqs : intr'[j].pc \notin {"new", "done"} => S(intr'[j].turn)
        BY <4>1 DEF ClaimsStarted, Spawned
      <4> QED
        BY <3>1, <4>2
    <3> QED
      BY <3>4, <3>5, SetsMeet
  <2> QED
    BY <2>1, <2>2, <2>3 DEF Left
<1> QED
  BY <1>4, <1>5

(* What the actor executes changes in these steps only.                      *)
LEMMA ExecChanges ==
  ASSUME [Next]_vars, exec' # exec
  PROVE  \/ ActorExecute \/ StartQuery \/ QueryReturns \/ QueryCancelled \/ ClearInterruptHandles
         \/ PersistAndEmitTerminal \/ CloseTurn
<1>1. CASE ActorSnapshot \/ ActorSetActive \/ ActorPersist \/ ActorRollback \/ ActorEnqueue \/ ActorInterrupt
           \/ ActorContext \/ ActorCompleteShell \/ ActorPop \/ ActorPrepare
  BY <1>1 DEF ActorSnapshot, ActorSetActive, ActorPersist, ActorRollback, ActorEnqueue, ActorInterrupt,
     ActorContext, ActorCompleteShell, ActorPop, ActorPrepare
<1>2. CASE \E r \in TurnReqs : Handler(r) \/ TurnTask(r)
  BY <1>2 DEF Handler, ReadReservation, ReadCachedReservation, QueueInput, RefuseActive, Begin,
     SendPersist, SendRollback, AnnounceShell, RegisterToken, RegisterAndSpawn, AttachAndReply,
     TurnTask, SendExecute, ShellAskContext, ShellRun, ShellReturns, ShellClearHandles,
     ShellSendComplete, ShellEmitTerminal, actorVars
<1>3. CASE (\E c \in Chainers : Followup(c)) \/ (\E i \in InterruptReqs : Interrupter(i))
  BY <1>3 DEF Followup, SendPop, SendPrepare, SendActivate, SendFollowup,
     Interrupter, CheckTarget, RecheckRecent, CancelToken, AbortTask, SendInterrupt,
     ClearClaimed, FinishClaimed, HearTerminal, WaitTimesOut, actorVars
<1>4. CASE UNCHANGED vars
  BY <1>4 DEF vars, actorVars
<1> QED
  BY <1>1, <1>2, <1>3, <1>4 DEF Next, Actor, Quiescent

(* A turn is unregistered before it is closed, and no later turn names it.   *)
LEMMA GoneStep ==
  ASSUME TypeOK, TypeOK', RefusalInv, OneInv, PatientInv, [Next]_vars
  PROVE  GoneUnregistered'
<1> DEFINE S(t) == req'[t].pc = "attach" \/ req'[t].reply = "Started"
           U(t) == Unregistered(t)'
<1> SUFFICES ASSUME NEW t \in TurnReqs, U(t) PROVE S(t) /\ registry'.turn # t
  BY DEF GoneUnregistered, Spawned
<1>1. Spawned(t) => S(t)
  BY StepsAdvance DEF RefusalInv, Spawned
<1>2. \A u : ~IsQueued(u)
  BY SetsMeet DEF PatientInv, PatientClientStarts, IsQueued
<1>3. Spawned(t) /\ registry.turn # t => registry'.turn # t
  BY RegistryNames, SetsMeet DEF RegisterAndSpawn, Spawned, RefusalInv, Untold
<1>4. CASE Unregistered(t)
  <2>1. Spawned(t) /\ registry.turn # t
    BY <1>4 DEF PatientInv, GoneUnregistered
  <2> QED
    BY <1>1, <1>3, <2>1
<1>5. CASE ~Unregistered(t)
  <2>1. CASE ended'[t] # <<>>
    <3>1. ~(PersistAndEmitTerminal /\ exec.turn = t)
      BY <1>5 DEF PersistAndEmitTerminal, Unregistered
    <3>2. ~ShellEmitTerminal(t)
      BY <1>5 DEF ShellEmitTerminal, Unregistered
    <3>3. ~\E i \in InterruptReqs : FinishClaimed(i) /\ intr[i].turn = t
      BY <1>5 DEF FinishClaimed, Unregistered
    <3> QED
      BY <1>5, <2>1, <3>1, <3>2, <3>3, EndsFrom DEF Unregistered
  <2>2. CASE exec'.turn = t /\ exec'.pc \in {"ending", "closing"}
    <3>1. exec'.turn = exec.turn /\ exec.turn = t /\ exec.pc \notin {"idle", "ending", "closing"}
      BY <1>5, <2>2, ExecMoves, SetsMeet DEF ExecMove, Unregistered
    <3>2. ClearInterruptHandles
      <4>1. exec \in ExecState /\ exec' # exec
        BY <2>2, <3>1 DEF TypeOK
      <4>2. ~ActorExecute /\ ~CloseTurn /\ ~PersistAndEmitTerminal
        BY <3>1 DEF ActorExecute, Receive, CloseTurn, PersistAndEmitTerminal
      <4>3. ~(StartQuery \/ QueryReturns \/ QueryCancelled)
        BY <2>2, <4>1 DEF StartQuery, QueryReturns, QueryCancelled, ExecState
      <4> QED
        BY <4>1, <4>2, <4>3, ExecChanges
    <3>3. registry'.turn = NoTurn
      BY <3>2 DEF ClearInterruptHandles, TypeOK, Entry
    <3>4. Spawned(t)
      BY <1>2, <3>1, SetsMeet DEF RefusalInv, RunningOnes
    <3> QED
      BY <1>1, <3>3, <3>4, SetsMeet
  <2>3. CASE task'[t].pc \in {"cleared", "completing", "completed", "done"}
    <3>1. ShellClearHandles(t)
      BY <1>5, <2>3, TaskMoves DEF TaskMove, Unregistered, ShellEmitTerminal, ShellSendComplete
    <3>2. registry'.turn = NoTurn
      BY <3>1 DEF ShellClearHandles, EmptyEntry
    <3>3. Spawned(t)
      BY <3>1 DEF RefusalInv, RunningOnes, ShellClearHandles
    <3> QED
      BY <1>1, <3>2, <3>3, SetsMeet
  <2>4. CASE \E i \in InterruptReqs : intr'[i].turn = t /\ intr'[i].pc \in {"persisting", "finish"}
    <3>1. PICK i \in InterruptReqs : intr'[i].turn = t /\ intr'[i].pc \in {"persisting", "finish"}
      BY <2>4
    <3>2. AsideAwaited
      BY DEF OneInv
    <3>3. ClearClaimed(i) /\ intr[i].turn = t
      BY <1>5, <3>1, <3>2, ClaimMoves DEF Unregistered
    <3>4. registry'.turn = NoTurn
      BY <3>3 DEF ClearClaimed, EmptyEntry
    <3>5. Spawned(t)
      BY <3>3 DEF OneInv, ClaimsStarted, ClearClaimed
    <3> QED
      BY <1>1, <3>4, <3>5, SetsMeet
  <2> QED
    BY <2>1, <2>2, <2>3, <2>4 DEF Unregistered
<1> QED
  BY <1>4, <1>5

(* The invariant behind PatientClientStarts is inductive.                    *)
LEMMA PatientStep ==
  ASSUME Patience # "none", TypeOK, TypeOK', RefusalInv, OneInv, PatientInv, [Next]_vars
  PROVE  PatientInv'
BY OneOpenStep, NoneBusyStep, LeftStep, GoneStep DEF PatientInv

(* Initially no request is open.                                             *)
LEMMA PatientInit == Init => PatientInv
<1> SUFFICES ASSUME Init PROVE PatientInv
  OBVIOUS
<1>1. \A r \in TurnReqs : req[r].pc = "new" /\ req[r].reply = "None" /\ ended[r] = <<>> /\ task[r].pc = "none"
  BY DEF Init
<1>2. exec.pc = "idle" /\ \A i \in InterruptReqs : intr[i].pc = "new"
  BY DEF Init
<1>3. PatientClientStarts /\ NoneBusy /\ OneOpen
  BY <1>1 DEF PatientClientStarts, NoneBusy, OneOpen, Open, Settled
<1>4. \A t \in TurnReqs : ~Left(t) /\ ~Unregistered(t)
  BY <1>1, <1>2 DEF Left, Unregistered
<1> QED
  BY <1>3, <1>4 DEF PatientInv, LeftInactive, GoneUnregistered

(* A client that awaits the end of its turn before it sends the next - with  *)
(* any number of requests, shell commands and interrupts that come at any    *)
(* time, and rollout appends that fail - is never told that the session is   *)
(* busy: its next turn is started, neither queued nor refused.               *)
THEOREM PatientClientsStart == Patience # "none" /\ Spec => []PatientClientStarts
<1> SUFFICES ASSUME Patience # "none" PROVE Spec => []PatientClientStarts
  OBVIOUS
<1>1. Spec => []TypeOK
  BY TypeCorrect
<1>2. Init => RefusalInv /\ OneInv /\ PatientInv
  BY RefusalInit, OneInit, PatientInit
<1>3. TypeOK /\ TypeOK' /\ RefusalInv /\ OneInv /\ PatientInv /\ [Next]_vars => RefusalInv' /\ OneInv' /\ PatientInv'
  BY RefusalStep, OneStep, PatientStep
<1>4. PatientInv => PatientClientStarts
  BY DEF PatientInv
<1> QED
  BY <1>1, <1>2, <1>3, <1>4, PTL DEF Spec

-----------------------------------------------------------------------------
(* The contract.                                                             *)

(* A turn is claimed by an interrupt handler; the actor is still to run it,  *)
(* or runs it and has not ended it.                                          *)
ClaimedBy(i, t) == intr[i].turn = t /\ intr[i].pc \in {"claimed", "persisting", "finish"}
Claimed(t) == \E i \in InterruptReqs : ClaimedBy(i, t)
RunAhead(t) == InMailbox(t) \/ ToSend(t) \/ (exec.turn = t /\ exec.pc # "closing")
Busy(i) == intr[i].pc \notin {"new", "done"}

(* A task of a start request sends its turn or is aborted; a turn that was   *)
(* spawned has one.                                                          *)
TasksKnown == \A t \in TurnReqs : /\ task[t].pc \in {"none", "spawned", "sent", "aborted"}
                                  /\ Spawned(t) => task[t].pc # "none"
                                  /\ req[t].pc # "announce"
(* A turn that runs, or is claimed, has not ended; it is not both, and not   *)
(* claimed twice.                                                            *)
EndsOnce ==
  /\ \A t \in TurnReqs : Len(ended[t]) <= 1
  /\ \A t \in TurnReqs : RunAhead(t) \/ Claimed(t) => ended[t] = <<>>
  /\ \A t \in TurnReqs : ~(RunAhead(t) /\ Claimed(t))
  /\ \A i, j \in InterruptReqs, t \in TurnReqs : ClaimedBy(i, t) /\ ClaimedBy(j, t) => i = j
(* While a handler interrupts a turn, no other turn is open.                 *)
AloneWithInterrupts == \A i \in InterruptReqs : Busy(i) => \A u \in TurnReqs : Open(u) => u = intr[i].turn
(* A turn is announced as its request is answered.                           *)
AnnouncedStarted == \A t \in announced : req[t].reply = "Started"
(* While a task is still to send its turn, the registry names the turn, and, *)
(* once clients know it, holds the handle that aborts the task.              *)
Abortable ==
  \A t \in TurnReqs : ToSend(t) =>
    /\ req[t].pc = "attach" => registry.turn = t
    /\ req[t].reply = "Started" => registry.abort = t
(* So a handler that asks the actor for its turn has aborted the task, or the*)
(* turn is ahead of the handler in the mailbox.                              *)
AbortedFirst ==
  /\ \A i \in InterruptReqs :
       intr[i].pc \notin {"new", "done", "subscribed", "cancel", "abort"} => ~ToSend(intr[i].turn)
  /\ \A n, k \in DOMAIN mailbox :
       /\ mailbox[n].op = "interrupt" /\ mailbox[n].by \in InterruptReqs
       /\ mailbox[k].op = "execute" /\ mailbox[k].turn = intr[mailbox[n].by].turn
       => k < n
(* A handler answers as it is done.                                          *)
ToldLast == \A i \in InterruptReqs : intr[i].pc # "done" => intr[i].reply = "None"
(* What the implementation of the contract needs beside the invariants above.*)
ContractInv == /\ TasksKnown /\ EndsOnce /\ AloneWithInterrupts /\ AnnouncedStarted
               /\ Abortable /\ AbortedFirst /\ ToldLast

(* The client of the contract: no shell commands, and the next turn is sent  *)
(* once the turn before and the interrupts of it are over.                   *)
Caller == ShellReqs = {} /\ Patience = "call"
(* What holds for clients that wait.                                         *)
Held == TypeOK /\ RefusalInv /\ OneInv /\ PatientInv

(* Nothing is queued, so chains have nothing to start.                       *)
LEMMA NothingQueued ==
  ASSUME Held
  PROVE  /\ \A t : ~IsQueued(t)
         /\ \A c \in Chainers : chain[c].turn = NoTurn /\ chain[c].pc \in {"off", "pop", "popping", "done"}
         /\ \A n \in DOMAIN mailbox : mailbox[n].op # "enqueue"
         /\ exec.turn # NoTurn => Spawned(exec.turn)
         /\ \A r \in TurnReqs : ~QueueInput(r) /\ ~Passed(r)
<1>1. \A t : ~IsQueued(t)
  BY SetsMeet DEF Held, PatientInv, PatientClientStarts, IsQueued
<1>2. \A c \in Chainers : chain[c].turn = NoTurn /\ chain[c].pc \in {"off", "pop", "popping", "done"}
  BY <1>1 DEF Held, RefusalInv, QueuedOnes
<1>3. \A n \in DOMAIN mailbox : mailbox[n].op # "enqueue"
  BY <1>1 DEF Held, RefusalInv, QueuedOnes
<1>4. exec.turn # NoTurn => Spawned(exec.turn)
  BY <1>1 DEF Held, RefusalInv, RunningOnes
<1>5. \A r \in TurnReqs : ~QueueInput(r)
  BY DEF Held, PatientInv, NoneBusy, QueueInput
<1>6. \A r \in TurnReqs : ~Passed(r)
  BY <1>2 DEF Passed, SendFollowup
<1> QED
  BY <1>1, <1>2, <1>3, <1>4, <1>5, <1>6

(* Without shell commands, tasks keep to these states.                       *)
LEMMA TasksKnownStep ==
  ASSUME ShellReqs = {}, Held, TypeOK', TasksKnown, [Next]_vars
  PROVE  TasksKnown'
<1> DEFINE S(t) == req'[t].pc = "attach" \/ req'[t].reply = "Started"
<1> SUFFICES ASSUME NEW t \in TurnReqs
             PROVE  /\ task'[t].pc \in {"none", "spawned", "sent", "aborted"}
                    /\ S(t) => task'[t].pc # "none"
                    /\ req'[t].pc # "announce"
  BY DEF TasksKnown, Spawned
<1>1. TaskMove(t) /\ RequestMove(t)
  BY TaskMoves, RequestMoves DEF Held, RefusalInv
<1>7. req[t].pc # "cached" /\ ~(req[t].pc = "admit" /\ req[t].active # NoTurn)
  BY DEF Held, PatientInv, NoneBusy
<1>2. task[t].pc \in {"none", "spawned", "sent", "aborted"} /\ (Spawned(t) => task[t].pc # "none") /\ req[t].pc # "announce"
  BY DEF TasksKnown
<1>3. task'[t].pc \in {"none", "spawned", "sent", "aborted"}
  BY <1>1, <1>2 DEF TaskMove, ShellAskContext, ShellRun, ShellReturns, ShellClearHandles, ShellSendComplete, ShellEmitTerminal
<1>4. task[t].pc # "none" \/ RegisterAndSpawn(t) => task'[t].pc # "none"
  <2>1. RegisterAndSpawn(t) => task'[t].pc = "spawned"
    BY DEF RegisterAndSpawn, Held, TypeOK, TaskState
  <2> QED
    BY <1>1, <2>1 DEF TaskMove
<1>5. S(t) => Spawned(t) \/ RegisterAndSpawn(t)
  BY <1>1, <1>7 DEF RequestMove, Spawned, AttachAndReply
<1>6. req'[t].pc # "announce"
  BY <1>1, <1>2, <1>7 DEF RequestMove
<1> QED
  BY <1>2, <1>3, <1>4, <1>5, <1>6

(* A turn comes to be run only when its task is spawned.                     *)
LEMMA RunAheadMoves ==
  ASSUME ShellReqs = {}, Held, Held', [Next]_vars, NEW t \in TurnReqs, RunAhead(t)'
  PROVE  /\ RunAhead(t) \/ RegisterAndSpawn(t)
         /\ ~(PersistAndEmitTerminal /\ exec.turn = t)
<1>1. t \in StartReqs
  BY DEF TurnReqs
<1>2. /\ InMailbox(t)' <=> (InMailbox(t) /\ ~Taken(t)) \/ Put(t)
      /\ exec'.turn = t <=> (exec.turn = t /\ ~CloseTurn) \/ (ActorExecute /\ Taken(t))
  <2>1. TypeOK /\ TypeOK' /\ RefusalInv /\ OneInv
    BY DEF Held
  <2> QED
    BY <1>1, <2>1, MailPlaces, ExecPlaces DEF RefusalInv, OneInv
<1>3. Taken(t) => InMailbox(t)
  BY <1>1, Sources DEF Held, RefusalInv, OneInv
<1>4. Put(t) => ToSend(t)
  BY NothingQueued DEF Put, SendExecute, ToSend
<1>5. ToSend(t)' => ToSend(t) \/ RegisterAndSpawn(t)
  BY TasksSpawned DEF Held
<1>6. exec.turn = t /\ exec'.turn = t /\ exec.pc = "closing" => exec'.pc = "closing"
  BY ExecMoves, SetsMeet DEF Held, ExecMove, OneInv, ActorBusy
<1>7. RunAhead(t) \/ RegisterAndSpawn(t)
  <2>1. CASE InMailbox(t)'
    BY <1>2, <1>4, <2>1 DEF RunAhead
  <2>2. CASE ToSend(t)'
    BY <1>5, <2>2 DEF RunAhead
  <2>3. CASE exec'.turn = t /\ exec'.pc # "closing"
    BY <1>2, <1>3, <1>6, <2>3 DEF RunAhead
  <2> QED
    BY <2>1, <2>2, <2>3 DEF RunAhead
<1>8. ~(PersistAndEmitTerminal /\ exec.turn = t)
  <2> SUFFICES ASSUME PersistAndEmitTerminal, exec.turn = t PROVE FALSE
    OBVIOUS
  <2>1. exec'.turn = t /\ exec'.pc = "closing"
    BY DEF PersistAndEmitTerminal, Held, TypeOK, ExecState
  <2>2. OneKindAt(t)'
    BY <1>1 DEF Held, OneInv, OneKind
  <2> QED
    BY <2>1, <2>2 DEF OneKindAt, RunAhead
<1> QED
  BY <1>7, <1>8

(* A turn comes to be claimed only while it is active, by the handler the    *)
(* actor answers.                                                            *)
LEMMA ClaimedMoves ==
  ASSUME Held, TypeOK', [Next]_vars, NEW i \in InterruptReqs, NEW t \in TurnReqs, ClaimedBy(i, t)'
  PROVE  /\ intr[i].turn = t
         /\ \/ ClaimedBy(i, t)
            \/ ActorInterrupt /\ Cur.by = i /\ intr[i].pc = "claiming" /\ active = t
BY ClaimMoves DEF ClaimedBy, Held, OneInv

(* The turn about to be claimed is not going to run.                         *)
LEMMA ClaimedRunsNot ==
  ASSUME Held, AbortedFirst, NEW i \in InterruptReqs, NEW t \in TurnReqs,
         ActorInterrupt, Cur.by = i, intr[i].pc = "claiming", intr[i].turn = t
  PROVE  ~RunAhead(t)
<1>1. 1 \in DOMAIN mailbox /\ mailbox[1].op = "interrupt" /\ mailbox[1].by = i /\ exec.pc = "idle"
  <2>1. mailbox # <<>> /\ Head(mailbox).op = "interrupt" /\ Head(mailbox).by = i /\ exec.pc = "idle"
    BY DEF ActorInterrupt, Receive, Cur
  <2>2. mailbox \in Seq(Command)
    BY DEF Held, TypeOK
  <2> QED
    BY <2>1, <2>2
<1>2. DOMAIN mailbox = 1..Len(mailbox)
  BY DEF Held, TypeOK
<1>3. ASSUME NEW k \in DOMAIN mailbox, mailbox[k].op = "execute", mailbox[k].turn = t PROVE FALSE
  <2>1. k < 1
    BY <1>1, <1>3 DEF AbortedFirst
  <2>2. k \in Nat /\ k >= 1
    BY <1>2, <1>3
  <2> QED
    BY <2>1, <2>2
<1>4. ~InMailbox(t)
  BY <1>3, NothingQueued DEF InMailbox, Carries
<1>5. ~ToSend(t)
  BY DEF AbortedFirst
<1>6. exec.turn # t
  BY <1>1, SetsMeet DEF Held, OneInv, ActorBusy
<1> QED
  BY <1>4, <1>5, <1>6 DEF RunAhead

(* A turn is ended by the actor that runs it or the handler that claimed it, *)
(* never by both.                                                            *)
LEMMA EndsOnceStep ==
  ASSUME ShellReqs = {}, Held, Held', ContractInv, [Next]_vars
  PROVE  EndsOnce'
<1> DEFINE R(t) == RunAhead(t)'
           C(i, t) == ClaimedBy(i, t)'
<1>1. EndsOnce /\ AbortedFirst /\ TasksKnown
  BY DEF ContractInv
<1>a. \A t \in TurnReqs : ended[t] \in Seq(Terminal)
  BY DEF Held, TypeOK
<1>2. \A t \in TurnReqs : R(t) => (RunAhead(t) \/ RegisterAndSpawn(t)) /\ ~(PersistAndEmitTerminal /\ exec.turn = t)
  BY RunAheadMoves
<1>3. \A i \in InterruptReqs, t \in TurnReqs : C(i, t) =>
        /\ intr[i].turn = t
        /\ \/ ClaimedBy(i, t)
           \/ ActorInterrupt /\ Cur.by = i /\ intr[i].pc = "claiming" /\ active = t
  BY ClaimedMoves DEF Held
<1> HIDE DEF R, C
<1>4. \A i \in InterruptReqs, t \in TurnReqs : ClaimedBy(i, t) => active # t /\ Spawned(t)
  BY DEF ClaimedBy, Held, PatientInv, LeftInactive, Left
<1>5. \A t \in TurnReqs : RegisterAndSpawn(t) => ~Spawned(t)
  BY DEF RegisterAndSpawn, Spawned, Held, RefusalInv, Untold
<1>6. \A i \in InterruptReqs, t \in TurnReqs : intr[i].pc = "claiming" /\ intr[i].turn = t => Spawned(t)
  BY DEF Held, OneInv, ClaimsStarted
<1>7. \A i, j \in InterruptReqs, t \in TurnReqs : C(i, t) /\ C(j, t) => i = j
  BY <1>1, <1>3, <1>4 DEF EndsOnce
<1>8. \A i \in InterruptReqs, t \in TurnReqs : ~(R(t) /\ C(i, t))
  <2> SUFFICES ASSUME NEW i \in InterruptReqs, NEW t \in TurnReqs, R(t), C(i, t) PROVE FALSE
    OBVIOUS
  <2>1. Spawned(t)
    BY <1>3, <1>4, <1>6
  <2>2. RunAhead(t)
    BY <1>2, <1>5, <2>1
  <2>3. ~ClaimedBy(i, t)
    BY <1>1, <2>2 DEF EndsOnce, Claimed
  <2> QED
    BY <1>1, <1>3, <2>2, <2>3, ClaimedRunsNot
<1>9. \A t \in TurnReqs, i \in InterruptReqs : R(t) \/ C(i, t) => ended[t] = <<>>
  <2> SUFFICES ASSUME NEW t \in TurnReqs, NEW i \in InterruptReqs, R(t) \/ C(i, t), ended[t] # <<>> PROVE FALSE
    OBVIOUS
  <2>1. Spawned(t) /\ active # t
    BY DEF Held, PatientInv, LeftInactive, Left
  <2> QED
    BY <1>1, <1>2, <1>3, <1>5, <2>1 DEF EndsOnce, Claimed
<1>10. \A t \in TurnReqs : R(t) => ended[t] = <<>>
  <2> SUFFICES ASSUME NEW t \in TurnReqs, R(t), ended[t] # <<>> PROVE FALSE
    OBVIOUS
  <2>1. Spawned(t)
    BY DEF Held, PatientInv, LeftInactive, Left
  <2> QED
    BY <1>1, <1>2, <1>5, <2>1 DEF EndsOnce
<1>11. ASSUME NEW t \in TurnReqs, ended'[t] # ended[t]
       PROVE  /\ ended[t] = <<>> /\ ~R(t) /\ \A i \in InterruptReqs : ~C(i, t)
              /\ \E s : ended'[t] = Append(ended[t], s)
  <2>1. CASE PersistAndEmitTerminal /\ exec.turn = t
    <3>1. RunAhead(t) /\ ~R(t)
      BY <1>2, <2>1 DEF RunAhead, PersistAndEmitTerminal
    <3>2. ended[t] = <<>> /\ ~Claimed(t)
      BY <1>1, <3>1 DEF EndsOnce
    <3>3. ~ActorInterrupt
      BY <2>1 DEF PersistAndEmitTerminal, ActorInterrupt, Receive
    <3>4. \A i \in InterruptReqs : ~C(i, t)
      BY <1>3, <3>2, <3>3 DEF Claimed
    <3>5. ended' = [ended EXCEPT ![t] = Append(@, exec.status)]
      BY <2>1 DEF PersistAndEmitTerminal
    <3> QED
      BY <3>1, <3>2, <3>4, <3>5 DEF Held, TypeOK
  <2>2. CASE \E i \in InterruptReqs : FinishClaimed(i) /\ intr[i].turn = t
    <3>1. PICK i \in InterruptReqs : FinishClaimed(i) /\ intr[i].turn = t
      BY <2>2
    <3>2. ClaimedBy(i, t)
      BY <3>1 DEF FinishClaimed, ClaimedBy
    <3>3. ended[t] = <<>> /\ ~RunAhead(t) /\ Spawned(t) /\ active # t
      BY <1>1, <1>4, <3>2 DEF EndsOnce, Claimed
    <3>4. ~R(t)
      BY <1>2, <1>5, <3>3
    <3>5. ~C(i, t)
      BY <3>1 DEF C, ClaimedBy, FinishClaimed, Answer, Held, TypeOK, InterruptState
    <3>6. \A j \in InterruptReqs : ~C(j, t)
      BY <1>1, <1>3, <3>2, <3>3, <3>5 DEF EndsOnce
    <3>7. ended' = [ended EXCEPT ![t] = Append(@, "Interrupted")]
      BY <3>1 DEF FinishClaimed
    <3> QED
      BY <3>3, <3>4, <3>6, <3>7 DEF Held, TypeOK
  <2>3. ~ShellEmitTerminal(t)
    BY <1>1 DEF TasksKnown, ShellEmitTerminal
  <2> QED
    BY <1>11, <2>1, <2>2, <2>3, EndsFrom DEF Held
<1>12. \A t \in TurnReqs : Len(ended'[t]) <= 1
  <2> SUFFICES ASSUME NEW t \in TurnReqs PROVE Len(ended'[t]) <= 1
    OBVIOUS
  <2>1. CASE ended'[t] = ended[t]
    BY <1>1, <2>1 DEF EndsOnce
  <2>2. CASE ended'[t] # ended[t]
    <3>1. PICK s : ended'[t] = Append(<<>>, s)
      BY <1>11, <2>2
    <3> QED
      BY <3>1
  <2> QED
    BY <2>1, <2>2
<1>13. \A t \in TurnReqs : R(t) \/ (\E i \in InterruptReqs : C(i, t)) => ended'[t] = <<>>
  BY <1>9, <1>10, <1>11
<1> QED
  BY <1>7, <1>8, <1>12, <1>13 DEF EndsOnce, Claimed, R, C

(* Only its answer ends a handler.                                           *)
LEMMA ToldLastStep ==
  ASSUME Held, TypeOK', ToldLast, [Next]_vars
  PROVE  ToldLast'
BY IntrSteps DEF Held, OneInv, ToldLast, IntrStep

(* A handler comes to interrupt a turn only while that turn is registered.   *)
LEMMA AloneStep ==
  ASSUME Caller, Held, TypeOK', AloneWithInterrupts, [Next]_vars
  PROVE  AloneWithInterrupts'
<1> DEFINE O(t) == Open(t)'
<1> SUFFICES ASSUME NEW i \in InterruptReqs, NEW u \in TurnReqs, intr'[i].pc \notin {"new", "done"}, O(u)
             PROVE  u = intr'[i].turn
  BY DEF AloneWithInterrupts, Busy
<1>1. Open(u) \/ ReadReservation(u)
  BY OpenMoves DEF Open, Held
<1>2. IntrStep(i)
  BY IntrSteps DEF Held, OneInv
<1>3. CASE Busy(i)
  <2>1. intr'[i].turn = intr[i].turn
    BY <1>2, <1>3 DEF IntrStep, Busy
  <2>2. ~ReadReservation(u)
    BY <1>3 DEF ReadReservation, ClientMaySend, Caller, Busy
  <2> QED
    BY <1>1, <1>3, <2>1, <2>2 DEF AloneWithInterrupts
<1>4. CASE ~Busy(i)
  <2>1. intr[i].pc = "new" /\ intr'[i].pc = "subscribed" /\ intr'[i].turn = registry.turn /\ registry.turn \in announced
    BY <1>2, <1>4 DEF IntrStep, Busy
  <2>2. ~ReadReservation(u)
    BY <2>1 DEF ReadReservation
  <2>3. registry.turn # NoTurn
    BY <2>1, SetsMeet DEF Held, RefusalInv, SeenOnes
  <2>4. registry.turn \in TurnReqs /\ Open(registry.turn)
    BY <2>3, BusyIsOpen DEF Held
  <2> QED
    BY <1>1, <2>1, <2>2, <2>4 DEF Held, PatientInv, OneOpen
<1> QED
  BY <1>3, <1>4

(* Who announces a turn.                                                     *)
LEMMA AnnouncedFrom ==
  ASSUME [Next]_vars, NEW t \in announced' \ announced
  PROVE  \/ t \in TurnReqs /\ (AnnounceShell(t) \/ AttachAndReply(t))
         \/ \E c \in Chainers : SendActivate(c)
<1>1. CASE UNCHANGED announced
  BY <1>1
<1>2. CASE Actor \/ QueryReturns \/ UNCHANGED vars
  BY <1>1, <1>2 DEF Actor, ActorSnapshot, ActorSetActive, ActorPersist, ActorRollback, ActorEnqueue,
     ActorInterrupt, ActorContext, ActorCompleteShell, ActorPop, ActorPrepare, ActorExecute, StartQuery,
     QueryCancelled, ClearInterruptHandles, PersistAndEmitTerminal, CloseTurn, QueryReturns, vars, historyVars
<1>3. CASE \E r \in TurnReqs : Handler(r)
  <2>1. PICK r \in TurnReqs : Handler(r)
    BY <1>3
  <2>2. CASE AnnounceShell(r) \/ AttachAndReply(r)
    BY <2>2 DEF AnnounceShell, AttachAndReply
  <2>3. CASE ~(AnnounceShell(r) \/ AttachAndReply(r))
    BY <1>1, <2>1, <2>3 DEF Handler, ReadReservation, ReadCachedReservation, QueueInput, RefuseActive, Begin,
       SendPersist, SendRollback, RegisterToken, RegisterAndSpawn, historyVars
  <2> QED
    BY <2>2, <2>3
<1>4. CASE \E r \in TurnReqs : TurnTask(r)
  BY <1>1, <1>4 DEF TurnTask, SendExecute, ShellAskContext, ShellRun, ShellReturns, ShellClearHandles,
     ShellSendComplete, ShellEmitTerminal, historyVars
<1>5. CASE (\E c \in Chainers : Followup(c)) \/ (\E i \in InterruptReqs : Interrupter(i))
  BY <1>1, <1>5 DEF Followup, SendPop, SendPrepare, SendFollowup,
     Interrupter, CheckTarget, RecheckRecent, CancelToken, AbortTask, SendInterrupt,
     ClearClaimed, FinishClaimed, HearTerminal, WaitTimesOut, historyVars
<1> QED
  BY <1>2, <1>3, <1>4, <1>5 DEF Next, Quiescent

(* Without shell commands, only the answer announces a turn.                 *)
LEMMA AnnouncedStep ==
  ASSUME Held, TypeOK', TasksKnown, AnnouncedStarted, [Next]_vars
  PROVE  AnnouncedStarted'
<1> SUFFICES ASSUME NEW t \in announced' PROVE req'[t].reply = "Started"
  BY DEF AnnouncedStarted
<1>1. CASE t \in announced
  <2>1. t \in TurnReqs /\ req[t].reply = "Started"
    BY <1>1 DEF AnnouncedStarted, Held, RefusalInv, SeenOnes
  <2>2. Advances(t)
    BY <2>1, StepsAdvance DEF Held, RefusalInv
  <2> QED
    BY <2>1, <2>2 DEF Advances, Spawned
<1>2. CASE t \notin announced
  <2>1. ~\E c \in Chainers : SendActivate(c)
    BY NothingQueued DEF SendActivate
  <2>2. t \in TurnReqs /\ AttachAndReply(t)
    BY <1>2, <2>1, AnnouncedFrom DEF TasksKnown, AnnounceShell
  <2> QED
    BY <2>2 DEF AttachAndReply, Held, TypeOK, HandlerState
<1> QED
  BY <1>1, <1>2

(* As long as a task is to send its turn, nothing else is open, and its      *)
(* handles stay registered.                                                  *)
LEMMA HandlesKept ==
  ASSUME Held, TasksKnown, EndsOnce, NEW t \in TurnReqs, ToSend(t)
  PROVE  /\ Spawned(t) /\ Open(t)
         /\ \A u \in TurnReqs : Open(u) => u = t
         /\ ~ClearInterruptHandles
         /\ \A i \in InterruptReqs : ~ClearClaimed(i)
         /\ \A u \in TurnReqs : ~ShellClearHandles(u)
<1>1. Spawned(t)
  BY DEF Held, RefusalInv, RunningOnes, ToSend
<1>2. ended[t] = <<>>
  BY DEF EndsOnce, RunAhead
<1>a. \A u \in TurnReqs : Spawned(u) /\ ended[u] = <<>> => Open(u)
  BY DEF Open, Settled, Spawned, Held, RefusalInv, Untold
<1>3. \A u \in TurnReqs : Open(u) => u = t
  BY <1>1, <1>2, <1>a DEF Held, PatientInv, OneOpen
<1>4. ~ClearInterruptHandles
  <2> SUFFICES ASSUME ClearInterruptHandles PROVE FALSE
    OBVIOUS
  <2>1. PICK u : u = exec.turn
    OBVIOUS
  <2>2. exec.pc = "finalizing" /\ u \in TurnReqs /\ u \in StartReqs
    BY <2>1, SetsMeet DEF ClearInterruptHandles, Held, RefusalInv, RunningOnes, OneInv, ActorBusy
  <2>3. Spawned(u) /\ ended[u] = <<>>
    BY <2>1, <2>2, NothingQueued, SetsMeet DEF EndsOnce, RunAhead
  <2>4. u = t
    BY <1>3, <1>a, <2>2, <2>3
  <2> QED
    BY <2>1, <2>2, <2>4 DEF Held, OneInv, OneKind, OneKindAt
<1>5. ASSUME NEW i \in InterruptReqs, ClearClaimed(i) PROVE FALSE
  <2>1. PICK u : u = intr[i].turn
    OBVIOUS
  <2>2. ClaimedBy(i, u) /\ u \in TurnReqs /\ Spawned(u)
    BY <1>5, <2>1 DEF ClearClaimed, ClaimedBy, Held, OneInv, ClaimsStarted
  <2>3. ended[u] = <<>> /\ ~RunAhead(u)
    BY <2>2 DEF EndsOnce, Claimed
  <2>4. u = t
    BY <1>3, <1>a, <2>2, <2>3
  <2> QED
    BY <2>3, <2>4 DEF RunAhead
<1>6. \A u \in TurnReqs : ~ShellClearHandles(u)
  BY DEF TasksKnown, ShellClearHandles
<1> QED
  BY <1>1, <1>2, <1>3, <1>a, <1>4, <1>5, <1>6

(* The handles of a turn that is still to be sent stay registered.           *)
LEMMA AbortableStep ==
  ASSUME Held, TypeOK', Untold', TasksKnown, EndsOnce, Abortable, [Next]_vars
  PROVE  Abortable'
<1> DEFINE T(t) == ToSend(t)'
<1> SUFFICES ASSUME NEW t \in TurnReqs, T(t)
             PROVE  /\ req'[t].pc = "attach" => registry'.turn = t
                    /\ req'[t].reply = "Started" => registry'.abort = t
  BY DEF Abortable
<1>1. registry \in Entry /\ RegistryMove /\ RequestMove(t)
  BY RegistrySteps, RequestMoves DEF Held, TypeOK, RefusalInv
<1>2. (ToSend(t) /\ ~SendExecute(t)) \/ RegisterAndSpawn(t)
  BY TasksSpawned DEF Held
<1>3. CASE RegisterAndSpawn(t)
  <2>1. registry'.turn = t /\ req'[t].pc = "attach"
    BY <1>1, <1>3 DEF RegisterAndSpawn, Entry, Held, TypeOK, HandlerState
  <2> QED
    BY <2>1 DEF Untold
<1>4. CASE ToSend(t) /\ ~RegisterAndSpawn(t)
  <2>1. /\ Spawned(t) /\ Open(t) /\ ~ClearInterruptHandles
        /\ \A u \in TurnReqs : (Open(u) => u = t) /\ ~ShellClearHandles(u)
        /\ \A i \in InterruptReqs : ~ClearClaimed(i)
    BY <1>4, HandlesKept
  <2>2. \A r \in TurnReqs : RegisterAndSpawn(r) \/ AttachAndReply(r) => Open(r)
    BY DEF RegisterAndSpawn, AttachAndReply, Open, Settled
  <2>3. \A r \in TurnReqs : ~RegisterAndSpawn(r) /\ (AttachAndReply(r) => r = t)
    BY <1>4, <2>1, <2>2
  <2>4. /\ registry'.turn = registry.turn
        /\ registry'.abort # registry.abort => \/ AttachAndReply(t) /\ (EntryExists => registry'.abort = t)
                                               \/ \E i \in InterruptReqs : AbortTask(i)
    BY <1>1, <2>1, <2>3 DEF RegistryMove
  <2>5. req'[t].pc = "attach" => req[t].pc = "attach"
    BY <1>1, <1>4, <2>1 DEF RequestMove, Spawned, Held, RefusalInv, Untold
  <2>6. CASE req[t].reply = "Started"
    <3>1. registry.abort = t /\ req[t].pc = "done"
      BY <1>4, <2>6 DEF Abortable, Held, RefusalInv, Untold
    <3>2. ~AttachAndReply(t)
      BY <3>1 DEF AttachAndReply
    <3>3. ~\E i \in InterruptReqs : AbortTask(i)
      <4> SUFFICES ASSUME NEW i \in InterruptReqs, AbortTask(i) PROVE FALSE
        OBVIOUS
      <4>1. task' = [task EXCEPT ![t].pc = Aborted(t, @)]
        BY <3>1, SetsMeet DEF AbortTask
      <4>2. task'[t].pc = "aborted"
        BY <1>4, <4>1 DEF Aborted, ToSend, Held, TypeOK, TaskState
      <4> QED
        BY <4>2 DEF ToSend
    <3> QED
      BY <2>4, <2>5, <3>1, <3>2, <3>3
  <2>7. CASE req[t].reply # "Started"
    <3>1. req[t].pc = "attach" /\ registry.turn = t
      BY <1>4, <2>1, <2>7 DEF Abortable, Spawned
    <3>2. req'[t].reply = "Started" => AttachAndReply(t)
      BY <1>1, <2>7, <3>1 DEF RequestMove
    <3>3. AttachAndReply(t) => registry'.abort = t
      BY <1>1, <3>1, SetsMeet DEF AttachAndReply, EntryExists, EmptyEntry, Entry
    <3> QED
      BY <2>4, <3>1, <3>2, <3>3
  <2> QED
    BY <2>6, <2>7
<1> QED
  BY <1>2, <1>3, <1>4

(* Once a handler asks the actor for its turn, the turn's task has sent it   *)
(* to the actor or is aborted: the handler found the task registered.        *)
LEMMA AbortedFirstStep ==
  ASSUME Held, TypeOK', TasksKnown, EndsOnce, AnnouncedStarted, Abortable, AbortedFirst, [Next]_vars
  PROVE  AbortedFirst'
<1> DEFINE T(t) == task'[t].pc = "spawned"
           Late(pc) == pc \notin {"new", "done", "subscribed", "cancel", "abort"}
           Ordered(n, k) ==
             mailbox'[n].op = "interrupt" /\ mailbox'[n].by \in InterruptReqs
               /\ mailbox'[k].op = "execute" /\ mailbox'[k].turn = intr'[mailbox'[n].by].turn => k < n
<1>1. \A i \in InterruptReqs : IntrStep(i)
  BY IntrSteps DEF Held, OneInv
<1>2. \A t \in TurnReqs : T(t) => (ToSend(t) /\ ~SendExecute(t)) \/ RegisterAndSpawn(t)
  BY TasksSpawned DEF Held, ToSend
<1>3. ASSUME NEW i \in InterruptReqs, Late(intr'[i].pc), T(intr'[i].turn) PROVE FALSE
  <2>1. PICK t : t = intr[i].turn
    OBVIOUS
  <2>2. intr'[i].turn = t /\ (Late(intr[i].pc) \/ (AbortTask(i) /\ intr[i].pc = "abort"))
    BY <1>1, <1>3, <2>1 DEF IntrStep
  <2>3. t \in TurnReqs /\ Spawned(t)
    BY <2>1, <2>2 DEF Held, OneInv, ClaimsStarted
  <2>4. ~RegisterAndSpawn(t)
    BY <2>3 DEF RegisterAndSpawn, Spawned, Held, RefusalInv, Untold
  <2>5. ToSend(t)
    BY <1>2, <1>3, <2>2, <2>3, <2>4
  <2>6. AbortTask(i) /\ intr[i].pc = "abort"
    BY <2>1, <2>2, <2>5 DEF AbortedFirst
  <2>7. t \in announced
    BY <2>1, <2>6 DEF Held, RefusalInv, SeenOnes
  <2>8. registry.abort = t
    BY <2>3, <2>5, <2>7 DEF AnnouncedStarted, Abortable
  <2>9. task' = [task EXCEPT ![t].pc = Aborted(t, @)]
    BY <2>3, <2>6, <2>8, SetsMeet DEF AbortTask
  <2>10. task'[t].pc = "aborted"
    BY <2>3, <2>5, <2>9 DEF Aborted, ToSend, Held, TypeOK, TaskState
  <2> QED
    BY <1>3, <2>2, <2>10
<1>4. ASSUME NEW n \in DOMAIN mailbox, mailbox[n].op = "interrupt", mailbox[n].by \in InterruptReqs
      PROVE  /\ intr[mailbox[n].by].pc = "claiming" /\ intr'[mailbox[n].by].turn = intr[mailbox[n].by].turn
             /\ intr[mailbox[n].by].turn \in TurnReqs /\ ~ToSend(intr[mailbox[n].by].turn)
  <2>1. PICK i \in InterruptReqs : i = mailbox[n].by
    BY <1>4
  <2>2. intr[i].pc = "claiming"
    BY <1>4, <2>1 DEF Held, OneInv, AsideAwaited, OfIntr, IntrAt
  <2>3. intr'[i].turn = intr[i].turn
    BY <1>1, <2>2 DEF IntrStep
  <2>4. intr[i].turn \in TurnReqs /\ ~ToSend(intr[i].turn)
    BY <2>2 DEF Held, OneInv, ClaimsStarted, AbortedFirst
  <2> QED
    BY <2>1, <2>2, <2>3, <2>4
<1>5. /\ Len(mailbox) \in Nat /\ DOMAIN mailbox = 1..Len(mailbox)
      /\ Len(mailbox') \in Nat /\ DOMAIN mailbox' = 1..Len(mailbox')
  BY MailboxSteps DEF Held
<1>6. ASSUME NEW n \in DOMAIN mailbox, NEW k \in DOMAIN mailbox, mailbox[n].op = "interrupt",
             mailbox[n].by \in InterruptReqs, mailbox[k].op = "execute",
             mailbox[k].turn = intr'[mailbox[n].by].turn
      PROVE  k < n
  BY <1>4, <1>6 DEF AbortedFirst
<1>7. ASSUME NEW d \in {0, 1}, Kept(d), NEW n \in DOMAIN mailbox', NEW k \in DOMAIN mailbox' PROVE Ordered(n, k)
  <2>1. /\ n + d \in DOMAIN mailbox /\ mailbox'[n] = mailbox[n + d]
        /\ k + d \in DOMAIN mailbox /\ mailbox'[k] = mailbox[k + d]
    BY <1>7, KeptCommands DEF Held
  <2>2. PICK a, b \in DOMAIN mailbox : a = n + d /\ b = k + d
    BY <2>1
  <2>3. Ordered(n, k) \/ b < a
    BY <1>6, <2>1, <2>2
  <2>4. b < a => k < n
    <3>1. n \in Nat /\ k \in Nat /\ d \in Nat
      BY <1>5, <1>7
    <3> QED
      BY <2>2, <3>1
  <2> QED
    BY <2>3, <2>4
<1>8. ASSUME NEW c, Sent(c), SentBy(c), NEW n \in DOMAIN mailbox', NEW k \in DOMAIN mailbox' PROVE Ordered(n, k)
  <2> SUFFICES ASSUME mailbox'[n].op = "interrupt", mailbox'[n].by \in InterruptReqs, mailbox'[k].op = "execute",
                      mailbox'[k].turn = intr'[mailbox'[n].by].turn
               PROVE  k < n
    OBVIOUS
  <2>1. /\ (n \in DOMAIN mailbox /\ mailbox'[n] = mailbox[n]) \/ (n = Len(mailbox') /\ mailbox'[n] = c)
        /\ (k \in DOMAIN mailbox /\ mailbox'[k] = mailbox[k]) \/ (k = Len(mailbox') /\ mailbox'[k] = c)
    BY <1>8, SentCommands DEF Held
  <2>2. CASE n = Len(mailbox')
    BY <1>5, <2>2
  <2>3. CASE n # Len(mailbox') /\ k # Len(mailbox')
    BY <1>6, <2>1, <2>3
  <2>4. CASE n # Len(mailbox') /\ k = Len(mailbox') /\ mailbox'[k] = c
    <3>1. n \in DOMAIN mailbox /\ mailbox'[n] = mailbox[n] /\ c.op = "execute"
      BY <2>1, <2>4
    <3>2. PICK t : t = c.turn
      OBVIOUS
    <3>3. t = intr[mailbox[n].by].turn /\ t \in TurnReqs /\ ~ToSend(t)
      BY <1>4, <2>4, <3>1, <3>2
    <3>4. ~\E b \in Chainers : SendFollowup(b)
      BY NothingQueued DEF SendFollowup
    <3>5. SendExecute(t)
      BY <1>8, <3>1, <3>2, <3>4 DEF SentBy
    <3> QED
      BY <3>3, <3>5 DEF SendExecute, ToSend
  <2>5. Len(mailbox') \notin DOMAIN mailbox
    BY <1>5, <1>8 DEF Sent
  <2> QED
    BY <2>1, <2>2, <2>3, <2>4, <2>5
<1>9. \A n, k \in DOMAIN mailbox' : Ordered(n, k)
  BY <1>7, <1>8, MailboxMoves DEF Held, MailboxMove
<1> QED
  BY <1>3, <1>9 DEF AbortedFirst, ToSend

(* The invariant behind the contract is inductive.                           *)
LEMMA ContractStep ==
  ASSUME Caller, Held, Held', ContractInv, [Next]_vars
  PROVE  ContractInv'
<1>1. TypeOK' /\ Untold'
  BY DEF Held, RefusalInv
<1>2. TasksKnown' /\ EndsOnce'
  BY <1>1, TasksKnownStep, EndsOnceStep DEF Caller, ContractInv
<1>3. AloneWithInterrupts' /\ AnnouncedStarted' /\ Abortable'
  BY <1>1, AloneStep, AnnouncedStep, AbortableStep DEF ContractInv
<1>4. AbortedFirst' /\ ToldLast'
  BY <1>1, AbortedFirstStep, ToldLastStep DEF ContractInv
<1> QED
  BY <1>2, <1>3, <1>4 DEF ContractInv

(* Initially nothing is open and nothing is told.                            *)
LEMMA ContractInit == Init => ContractInv
<1> SUFFICES ASSUME Init PROVE ContractInv
  OBVIOUS
<1>1. \A r \in TurnReqs : req[r].pc = "new" /\ req[r].reply = "None" /\ ended[r] = <<>> /\ task[r].pc = "none"
  BY DEF Init
<1>2. mailbox = <<>> /\ exec.pc = "idle" /\ exec.turn = NoTurn /\ announced = {}
  BY DEF Init
<1>3. \A i \in InterruptReqs : intr[i].pc = "new" /\ intr[i].reply = "None"
  BY DEF Init
<1>4. TasksKnown /\ Abortable
  BY <1>1 DEF TasksKnown, Abortable, Spawned, ToSend
<1>5. EndsOnce
  BY <1>1, <1>3 DEF EndsOnce, Claimed, ClaimedBy
<1>6. AloneWithInterrupts /\ AnnouncedStarted /\ ToldLast
  BY <1>2, <1>3 DEF AloneWithInterrupts, AnnouncedStarted, ToldLast, Busy
<1>7. AbortedFirst
  BY <1>2, <1>3 DEF AbortedFirst
<1> QED
  BY <1>4, <1>5, <1>6, <1>7 DEF ContractInv

(* One interrupt handler moves at a time.                                    *)
LEMMA OneHandler ==
  ASSUME TypeOK, [Next]_vars
  PROVE  \E i : \A j \in InterruptReqs \ {i} : intr'[j] = intr[j]
<1>1. intr \in [InterruptReqs -> InterruptState]
  BY DEF TypeOK
<1>2. CASE UNCHANGED intr
  BY <1>2
<1>3. CASE ActorInterrupt \/ ActorPersist
  <2>1. PICK i : i = Cur.by
    OBVIOUS
  <2>2. \A j \in InterruptReqs \ {i} : intr'[j] = intr[j]
    BY <1>1, <1>3, <2>1 DEF ActorInterrupt, ActorPersist
  <2> QED
    BY <2>2
<1>4. CASE Actor /\ ~ActorInterrupt /\ ~ActorPersist
  BY <1>2, <1>4 DEF Actor, ActorSnapshot, ActorSetActive, ActorRollback, ActorEnqueue, ActorContext,
     ActorCompleteShell, ActorPop, ActorPrepare, ActorExecute, StartQuery, QueryCancelled,
     ClearInterruptHandles, PersistAndEmitTerminal, CloseTurn, taskVars
<1>5. CASE \E i \in InterruptReqs : Interrupter(i)
  <2>1. PICK i \in InterruptReqs : Interrupter(i)
    BY <1>5
  <2>2. \A j \in InterruptReqs \ {i} : intr'[j] = intr[j]
    BY <1>1, <2>1 DEF Interrupter, CheckTarget, RecheckRecent, CancelToken, AbortTask, SendInterrupt,
       ClearClaimed, FinishClaimed, HearTerminal, WaitTimesOut, Answer
  <2> QED
    BY <2>2
<1>6. CASE \E r \in TurnReqs : Handler(r) \/ TurnTask(r)
  BY <1>2, <1>6 DEF Handler, ReadReservation, ReadCachedReservation, QueueInput, RefuseActive, Begin,
     SendPersist, SendRollback, AnnounceShell, RegisterToken, RegisterAndSpawn, AttachAndReply,
     TurnTask, SendExecute, ShellAskContext, ShellRun, ShellReturns, ShellClearHandles,
     ShellSendComplete, ShellEmitTerminal
<1>7. CASE \E c \in Chainers : Followup(c)
  BY <1>2, <1>7 DEF Followup, SendPop, SendPrepare, SendActivate, SendFollowup
<1>8. CASE QueryReturns \/ UNCHANGED vars
  BY <1>2, <1>8 DEF QueryReturns, vars, taskVars
<1> QED
  BY <1>3, <1>4, <1>5, <1>6, <1>7, <1>8 DEF Next, Quiescent

(* What the contract sees of one turn and of one interrupt.                  *)
Status(t) == CASE Len(ended[t]) > 1 -> "twice"
               [] Len(ended[t]) = 1 -> ended[t][1]
               [] ended[t] = <<>> /\ task[t].pc = "none" -> "none"
               [] OTHER -> "running"
Answered(i) == CASE intr[i].reply \in Terminal -> [turn |-> intr[i].turn, answer |-> intr[i].reply]
                 [] intr[i].reply = "None"     -> [turn |-> NoTurn, answer |-> "None"]
                 [] OTHER                      -> [turn |-> NoTurn, answer |-> "Error"]

(* A turn that ended, and not twice, ended once.                             *)
LEMMA OneEnd ==
  ASSUME NEW s \in Seq(Terminal), s # <<>>, Len(s) <= 1
  PROVE  Len(s) = 1 /\ DOMAIN s = {1}
<1>1. PICK n \in Nat : n = Len(s) /\ DOMAIN s = 1..n
  OBVIOUS
<1>2. n # 0
  BY <1>1
<1>3. n = 1
  BY <1>1, <1>2
<1> QED
  BY <1>1, <1>3

(* A turn has the status the contract gives it.                              *)
LEMMA StatusOf ==
  ASSUME TypeOK, EndsOnce, NEW t \in TurnReqs
  PROVE  /\ ended[t] = <<>> => Status(t) = IF task[t].pc = "none" THEN "none" ELSE "running"
         /\ ended[t] # <<>> => /\ Status(t) = ended[t][1] /\ Status(t) \in Terminal
                               /\ Outcomes(t) = {Status(t)}
<1>1. ended[t] \in Seq(Terminal) /\ Len(ended[t]) <= 1 /\ Len(ended[t]) \in Nat
  BY DEF TypeOK, EndsOnce
<1>2. CASE ended[t] = <<>>
  BY <1>2 DEF Status
<1>3. CASE ended[t] # <<>>
  <2>1. Len(ended[t]) = 1 /\ DOMAIN ended[t] = {1}
    BY <1>1, <1>3, OneEnd
  <2>2. Status(t) = ended[t][1] /\ ended[t][1] \in Terminal
    BY <1>1, <2>1 DEF Status
  <2>3. Outcomes(t) = {ended[t][1]}
    BY <2>1 DEF Outcomes
  <2> QED
    BY <1>3, <2>2, <2>3
<1> QED
  BY <1>2, <1>3

(* Which turns a step changes for the contract.                              *)
LEMMA StatusMoves ==
  ASSUME TypeOK, TypeOK', TasksKnown, [Next]_vars, NEW t \in TurnReqs
  PROVE  \/ Status(t)' = Status(t)
         \/ RegisterAndSpawn(t)
         \/ PersistAndEmitTerminal /\ exec.turn = t
         \/ \E i \in InterruptReqs : FinishClaimed(i) /\ intr[i].turn = t
<1>1. \/ ended'[t] = ended[t]
      \/ PersistAndEmitTerminal /\ exec.turn = t
      \/ \E i \in InterruptReqs : FinishClaimed(i) /\ intr[i].turn = t
  BY EndsFrom DEF TasksKnown, ShellEmitTerminal
<1>2. (task'[t].pc = "none" <=> task[t].pc = "none") \/ RegisterAndSpawn(t)
  <2>1. TaskMove(t)
    BY TaskMoves
  <2> QED
    BY <2>1 DEF TaskMove, SendExecute, ShellAskContext, ShellRun, ShellReturns, ShellClearHandles,
       ShellSendComplete, ShellEmitTerminal
<1>3. ended'[t] = ended[t] /\ (task'[t].pc = "none" <=> task[t].pc = "none") => Status(t)' = Status(t)
  BY DEF Status
<1> QED
  BY <1>1, <1>2, <1>3

(* What a step tells the client that interrupts.                             *)
LEMMA AnsweredMoves ==
  ASSUME Held, TypeOK', ToldLast, [Next]_vars, NEW i \in InterruptReqs, Answered(i)' # Answered(i)
  PROVE  /\ intr[i].reply = "None" /\ Answered(i) = [turn |-> NoTurn, answer |-> "None"]
         /\ \/ Answered(i)' = [turn |-> NoTurn, answer |-> "Error"] /\ ~FinishClaimed(i)
            \/ \E t \in TurnReqs : /\ Answered(i)' = [turn |-> t, answer |-> recorded[t]] /\ recorded[t] # "None"
                                  /\ UNCHANGED <<recorded, ended, task>>
            \/ /\ FinishClaimed(i)
               /\ Answered(i)' = [turn |-> intr[i].turn, answer |-> "Interrupted"]
<1>1. IntrStep(i)
  BY IntrSteps DEF Held, OneInv
<1>2. intr'[i] # intr[i]
  BY DEF Answered
<1>3. intr[i].pc # "done"
  BY <1>1, <1>2 DEF IntrStep
<1>4. intr[i].reply = "None"
  BY <1>3 DEF ToldLast
<1>5. Answered(i) = [turn |-> NoTurn, answer |-> "None"]
  BY <1>4 DEF Answered, Terminal
<1>6. intr'[i].reply # "None"
  BY <1>5 DEF Answered, Terminal
<1>7. CASE intr'[i].reply \in {"TurnNotFound", "InternalError"}
  <2>1. Answered(i)' = [turn |-> NoTurn, answer |-> "Error"]
    BY <1>7 DEF Answered, Terminal
  <2>2. ~FinishClaimed(i)
    BY <1>7 DEF FinishClaimed, Answer, Held, TypeOK, InterruptState
  <2> QED
    BY <1>4, <1>5, <2>1, <2>2
<1>8. CASE FinishClaimed(i)
  <2>1. intr'[i].reply = "Interrupted" /\ intr'[i].turn = intr[i].turn
    BY <1>8 DEF FinishClaimed, Answer, Held, TypeOK, InterruptState
  <2>2. Answered(i)' = [turn |-> intr[i].turn, answer |-> "Interrupted"]
    BY <2>1 DEF Answered, Terminal
  <2> QED
    BY <1>4, <1>5, <1>8, <2>2
<1>9. CASE ~FinishClaimed(i) /\ intr'[i].reply \notin {"TurnNotFound", "InternalError"}
  <2>1. PICK t : t = intr'[i].turn
    OBVIOUS
  <2>2. /\ intr'[i].reply = recorded[t] /\ recorded[t] # "None" /\ UNCHANGED <<recorded, ended, task>>
        /\ t \in announced \/ (intr[i].pc \in {"subscribed", "waiting"} /\ t = intr[i].turn)
    BY <1>1, <1>2, <1>4, <1>6, <1>9, <2>1 DEF IntrStep
  <2>3. t \in TurnReqs
    BY <2>2 DEF Held, RefusalInv, SeenOnes, OneInv, ClaimsStarted
  <2>4. recorded[t] \in Terminal
    BY <2>2, <2>3 DEF Held, TypeOK
  <2>5. Answered(i)' = [turn |-> t, answer |-> recorded[t]]
    BY <2>1, <2>2, <2>4 DEF Answered
  <2> QED
    BY <1>4, <1>5, <2>2, <2>3, <2>5
<1> QED
  BY <1>7, <1>8, <1>9

(* One turn and one interrupt change at a time.                              *)
LEMMA ContractFrame ==
  ASSUME NEW t \in TurnReqs, \A u \in TurnReqs \ {t} : Status(u)' = Status(u)
  PROVE  Outcome' = [Outcome EXCEPT ![t] = Status(t)']
<1> DEFINE S(u) == Status(u)
           P(u) == Status(u)'
<1>1. Outcome = [u \in TurnReqs |-> S(u)] /\ Outcome' = [u \in TurnReqs |-> P(u)]
  BY DEF Outcome, Status
<1>2. \A u \in TurnReqs \ {t} : P(u) = S(u)
  OBVIOUS
<1> HIDE DEF S, P
<1>3. Outcome' = [Outcome EXCEPT ![t] = P(t)]
  BY <1>1, <1>2
<1> QED
  BY <1>3 DEF P

(* What one interrupt is told leaves the others alone.                       *)
LEMMA ToldFrame ==
  ASSUME NEW i \in InterruptReqs, \A j \in InterruptReqs \ {i} : intr'[j] = intr[j]
  PROVE  Told' = [Told EXCEPT ![i] = Answered(i)']
<1> DEFINE S(u) == Answered(u)
           P(u) == Answered(u)'
<1>1. Told = [u \in InterruptReqs |-> S(u)] /\ Told' = [u \in InterruptReqs |-> P(u)]
  BY DEF Told, Answered
<1>2. \A u \in InterruptReqs \ {i} : P(u) = S(u)
  BY DEF Answered
<1> HIDE DEF S, P
<1>3. Told' = [Told EXCEPT ![i] = P(i)]
  BY <1>1, <1>2
<1> QED
  BY <1>3 DEF P

(* Results are known where they are announced, and recorded ones happened.   *)
Known == ResultKnown /\ TargetKnown /\ RecordedHappened

(* A step starts a turn, ends one, tells or refuses an interrupt, ends a turn*)
(* and tells it, or is invisible to the client.                              *)
LEMMA RefinesNext ==
  ASSUME Caller, Held, Held', Known, ContractInv, ContractInv', [Next]_vars
  PROVE  [Contract!Next]_<<Outcome, Told>>
<1>1. /\ TypeOK /\ TypeOK' /\ TasksKnown /\ EndsOnce /\ EndsOnce' /\ ToldLast /\ TasksKnown'
      /\ ResultKnown /\ RecordedHappened
  BY DEF Held, Known, ContractInv
<1> DEFINE P(u) == Status(u)'
           A(j) == Answered(j)'
<1>2. \A t \in TurnReqs : \/ P(t) = Status(t)
                          \/ RegisterAndSpawn(t)
                          \/ PersistAndEmitTerminal /\ exec.turn = t
                          \/ \E i \in InterruptReqs : FinishClaimed(i) /\ intr[i].turn = t
  BY <1>1, StatusMoves
<1>3. \A i \in InterruptReqs : A(i) # Answered(i) =>
        /\ intr[i].reply = "None" /\ Answered(i) = [turn |-> NoTurn, answer |-> "None"]
        /\ \/ A(i) = [turn |-> NoTurn, answer |-> "Error"] /\ ~FinishClaimed(i)
           \/ \E t \in TurnReqs : /\ A(i) = [turn |-> t, answer |-> recorded[t]] /\ recorded[t] # "None"
                                 /\ UNCHANGED <<recorded, ended, task>>
           \/ FinishClaimed(i) /\ A(i) = [turn |-> intr[i].turn, answer |-> "Interrupted"]
  BY <1>1, AnsweredMoves
<1>4. \A t \in TurnReqs : /\ ended[t] = <<>> => Status(t) = IF task[t].pc = "none" THEN "none" ELSE "running"
                          /\ ended[t] # <<>> => /\ Status(t) = ended[t][1] /\ Status(t) \in Terminal
                                                /\ Outcomes(t) = {Status(t)}
  BY <1>1, StatusOf
<1>5. \A t \in TurnReqs : /\ ended'[t] = <<>> => P(t) = IF task'[t].pc = "none" THEN "none" ELSE "running"
                          /\ ended'[t] # <<>> => P(t) = ended'[t][1]
  <2> SUFFICES ASSUME NEW t \in TurnReqs
               PROVE  /\ ended'[t] = <<>> => P(t) = IF task'[t].pc = "none" THEN "none" ELSE "running"
                      /\ ended'[t] # <<>> => P(t) = ended'[t][1]
    OBVIOUS
  <2>1. ended'[t] \in Seq(Terminal) /\ Len(ended'[t]) <= 1 /\ Len(ended'[t]) \in Nat
    BY <1>1 DEF TypeOK, EndsOnce
  <2>2. CASE ended'[t] = <<>>
    BY <2>2 DEF Status
  <2>3. CASE ended'[t] # <<>>
    <3>4. Len(ended'[t]) = 1
      BY <2>1, <2>3, OneEnd
    <3> QED
      BY <2>3, <3>4 DEF Status
  <2> QED
    BY <2>2, <2>3
<1>6. /\ Outcome = [t \in TurnReqs |-> Status(t)]
      /\ Told = [i \in InterruptReqs |-> Answered(i)]
  BY DEF Outcome, Status, Told, Answered
<1>7. /\ (\A t \in TurnReqs : P(t) = Status(t)) => Outcome' = Outcome
      /\ (\A i \in InterruptReqs : A(i) = Answered(i)) => Told' = Told
  <2> DEFINE S(u) == Status(u)
             B(i) == Answered(i)
  <2>1. Outcome' = [t \in TurnReqs |-> P(t)] /\ Told' = [i \in InterruptReqs |-> A(i)]
    BY DEF Outcome, Status, Told, Answered
  <2>2. Outcome = [t \in TurnReqs |-> S(t)] /\ Told = [i \in InterruptReqs |-> B(i)]
    BY <1>6
  <2>3. (\A t \in TurnReqs : P(t) = S(t)) => Outcome' = Outcome
    <3> HIDE DEF S, P
    <3> QED
      BY <2>1, <2>2
  <2>4. (\A i \in InterruptReqs : A(i) = B(i)) => Told' = Told
    <3> HIDE DEF A, B
    <3> QED
      BY <2>1, <2>2
  <2> QED
    BY <2>3, <2>4
<1>8. /\ \A t \in TurnReqs : (\A u \in TurnReqs \ {t} : P(u) = Status(u)) => Outcome' = [Outcome EXCEPT ![t] = P(t)]
      /\ \A i \in InterruptReqs : (\A j \in InterruptReqs \ {i} : intr'[j] = intr[j]) => Told' = [Told EXCEPT ![i] = A(i)]
  BY ContractFrame, ToldFrame
<1>9. \A i \in InterruptReqs : intr'[i] = intr[i] => A(i) = Answered(i)
  BY DEF Answered
<1> HIDE DEF P, A
<1>10. CASE \E t \in TurnReqs : RegisterAndSpawn(t)
  <2>1. PICK t \in TurnReqs : RegisterAndSpawn(t)
    BY <1>10
  <2>2. UNCHANGED <<intr, ended>> /\ req[t].pc = "register"
    BY <2>1 DEF RegisterAndSpawn, historyVars
  <2>3. ~Spawned(t) /\ Open(t)
    BY <2>2 DEF Spawned, Open, Settled, Held, RefusalInv, Untold
  <2>4. task[t].pc = "none" /\ ended[t] = <<>>
    BY <2>3 DEF Held, RefusalInv, RunningOnes, PatientInv, LeftInactive, Left
  <2>5. \A u \in TurnReqs \ {t} : task'[u] = task[u]
    BY <1>1, <2>1 DEF RegisterAndSpawn, TypeOK
  <2>6. task'[t].pc = "spawned"
    BY <1>1, <2>1 DEF RegisterAndSpawn, TypeOK, TaskState
  <2>7. Status(t) = "none" /\ P(t) = "running" /\ \A u \in TurnReqs \ {t} : P(u) = Status(u)
    BY <1>4, <1>5, <2>2, <2>4, <2>5, <2>6
  <2>8. ASSUME NEW u \in TurnReqs, Status(u) = "running" PROVE FALSE
    <3>1. ended[u] = <<>> /\ task[u].pc # "none"
      BY <1>4, <2>8 DEF Terminal
    <3>2. Spawned(u) /\ Open(u)
      BY <3>1 DEF Held, RefusalInv, RunningOnes, Spawned, Open, Settled, Untold
    <3>3. u = t
      BY <2>3, <3>2 DEF Held, PatientInv, OneOpen
    <3> QED
      BY <2>4, <3>1, <3>3
  <2>9. Outcome' = [Outcome EXCEPT ![t] = "running"] /\ Told' = Told
    BY <1>7, <1>8, <1>9, <2>2, <2>7
  <2>10. Contract!Start(t)
    BY <1>6, <2>7, <2>8, <2>9 DEF Contract!Start
  <2> QED
    BY <2>10 DEF Contract!Next
<1>11. CASE PersistAndEmitTerminal
  <2>1. PICK t : t = exec.turn
    OBVIOUS
  <2>2. t \in TurnReqs /\ exec.pc = "ending" /\ UNCHANGED <<intr, task>> /\ exec.status \in Terminal
    BY <1>1, <1>11, <2>1 DEF PersistAndEmitTerminal, taskVars, Held, RefusalInv, RunningOnes, ResultKnown
  <2>3. ended' = [ended EXCEPT ![t] = Append(@, exec.status)]
    BY <1>11, <2>1 DEF PersistAndEmitTerminal
  <2>4. ended[t] = <<>> /\ task[t].pc # "none"
    BY <1>1, <2>1, <2>2, NothingQueued, SetsMeet DEF EndsOnce, RunAhead, TasksKnown
  <2>5. ended'[t] = <<exec.status>> /\ \A u \in TurnReqs \ {t} : ended'[u] = ended[u]
    BY <1>1, <2>2, <2>3, <2>4 DEF TypeOK
  <2>6. /\ Status(t) = "running" /\ P(t) = exec.status
        /\ \A u \in TurnReqs \ {t} : P(u) = Status(u)
    <3>1. Status(t) = "running" /\ P(t) = exec.status
      BY <1>4, <1>5, <2>2, <2>4, <2>5
    <3>2. ASSUME NEW u \in TurnReqs \ {t} PROVE P(u) = Status(u)
      BY <2>2, <2>5 DEF P, Status
    <3> QED
      BY <3>1, <3>2
  <2>7. Outcome' = [Outcome EXCEPT ![t] = exec.status] /\ Told' = Told
    BY <1>7, <1>8, <1>9, <2>2, <2>6
  <2>8. Contract!End(t)
    BY <1>6, <2>2, <2>6, <2>7 DEF Contract!End, Contract!Statuses, Terminal
  <2> QED
    BY <2>2, <2>8 DEF Contract!Next
<1>12. CASE \E i \in InterruptReqs : FinishClaimed(i)
  <2>1. PICK i \in InterruptReqs : FinishClaimed(i)
    BY <1>12
  <2>2. PICK t : t = intr[i].turn
    OBVIOUS
  <2>3. t \in TurnReqs /\ Spawned(t) /\ ClaimedBy(i, t) /\ intr[i].pc # "done" /\ UNCHANGED task
    BY <2>1, <2>2 DEF FinishClaimed, ClaimedBy, Held, OneInv, ClaimsStarted
  <2>4. ended[t] = <<>> /\ task[t].pc # "none"
    BY <1>1, <2>3 DEF EndsOnce, Claimed, TasksKnown
  <2>5. ended' = [ended EXCEPT ![t] = Append(@, "Interrupted")]
    BY <2>1, <2>2 DEF FinishClaimed
  <2>6. ended'[t] = <<"Interrupted">> /\ \A u \in TurnReqs \ {t} : ended'[u] = ended[u]
    BY <1>1, <2>3, <2>4, <2>5 DEF TypeOK
  <2>7. Status(t) = "running" /\ P(t) = "Interrupted" /\ \A u \in TurnReqs \ {t} : P(u) = Status(u)
    BY <1>4, <1>5, <2>3, <2>4, <2>6
  <2>8. \A j \in InterruptReqs \ {i} : intr'[j] = intr[j]
    BY <1>1, <2>1 DEF FinishClaimed, Answer, TypeOK
  <2>9. intr'[i].turn = t /\ intr'[i].reply = "Interrupted" /\ intr[i].reply = "None"
    BY <1>1, <2>1, <2>2, <2>3 DEF FinishClaimed, Answer, TypeOK, InterruptState, ToldLast
  <2>10. A(i) = [turn |-> t, answer |-> "Interrupted"] /\ Answered(i) = [turn |-> NoTurn, answer |-> "None"]
    BY <2>9 DEF A, Answered, Terminal
  <2>11. /\ Outcome' = [Outcome EXCEPT ![t] = "Interrupted"]
         /\ Told' = [Told EXCEPT ![i] = [turn |-> t, answer |-> "Interrupted"]]
    BY <1>8, <2>3, <2>7, <2>8, <2>10
  <2>12. Contract!EndAndTell(t, i)
    BY <1>6, <2>3, <2>7, <2>10, <2>11 DEF Contract!EndAndTell, Contract!Nothing, Contract!Answer
  <2> QED
    BY <2>3, <2>12 DEF Contract!Next
<1>13. CASE /\ ~\E t \in TurnReqs : RegisterAndSpawn(t)
            /\ ~PersistAndEmitTerminal
            /\ ~\E i \in InterruptReqs : FinishClaimed(i)
  <2>1. Outcome' = Outcome
    BY <1>2, <1>7, <1>13
  <2>2. CASE \A i \in InterruptReqs : A(i) = Answered(i)
    BY <1>7, <2>1, <2>2
  <2>3. CASE \E i \in InterruptReqs : A(i) # Answered(i)
    <3>1. PICK i \in InterruptReqs : A(i) # Answered(i)
      BY <2>3
    <3>2. Told[i] = Contract!Nothing
      BY <1>3, <1>6, <3>1 DEF Contract!Nothing, Contract!Answer
    <3>3. PICK k : \A j \in InterruptReqs \ {k} : intr'[j] = intr[j]
      BY <1>1, OneHandler
    <3>4. k = i
      BY <1>9, <3>1, <3>3
    <3>5. Told' = [Told EXCEPT ![i] = A(i)]
      BY <1>8, <3>3, <3>4
    <3>6. CASE A(i) = [turn |-> NoTurn, answer |-> "Error"]
      <4>1. Contract!Refuse(i)
        BY <2>1, <3>2, <3>5, <3>6 DEF Contract!Refuse, Contract!Answer
      <4> QED
        BY <4>1 DEF Contract!Next
    <3>7. CASE A(i) # [turn |-> NoTurn, answer |-> "Error"]
      <4>1. PICK t \in TurnReqs : A(i) = [turn |-> t, answer |-> recorded[t]] /\ recorded[t] # "None"
        BY <1>3, <1>13, <3>1, <3>7
      <4>2. recorded[t] \in Outcomes(t)
        BY <1>1, <4>1 DEF RecordedHappened
      <4>3. ended[t] # <<>>
        BY <4>2 DEF Outcomes
      <4>4. recorded[t] = Status(t) /\ Status(t) \in Terminal
        BY <1>4, <4>2, <4>3
      <4>5. Contract!Tell(i)
        BY <1>6, <2>1, <3>2, <3>5, <4>1, <4>4 DEF Contract!Tell, Contract!Statuses, Contract!Answer, Terminal
      <4> QED
        BY <4>5 DEF Contract!Next
    <3> QED
      BY <3>6, <3>7
  <2> QED
    BY <2>2, <2>3
<1> QED
  BY <1>10, <1>11, <1>12, <1>13

(* Initially no turn is accepted and nothing is told.                        *)
LEMMA RefinesInit == Init => Contract!Init
<1> SUFFICES ASSUME Init PROVE Contract!Init
  OBVIOUS
<1>1. \A t \in TurnReqs : ended[t] = <<>> /\ task[t].pc = "none"
  BY DEF Init
<1>2. \A i \in InterruptReqs : intr[i].reply = "None"
  BY DEF Init
<1>3. \A t \in TurnReqs : Status(t) = "none"
  BY <1>1 DEF Status
<1>4. \A i \in InterruptReqs : Answered(i) = [turn |-> NoTurn, answer |-> "None"]
  BY <1>2 DEF Answered, Terminal
<1>5. Outcome = [t \in TurnReqs |-> Status(t)] /\ Told = [i \in InterruptReqs |-> Answered(i)]
  BY DEF Outcome, Status, Told, Answered
<1> QED
  BY <1>3, <1>4, <1>5 DEF Contract!Init, Contract!Nothing, Contract!Answer

(* Whatever the number of requests and interrupts, and however the model     *)
(* turn, the handlers and the actor interleave: for a client that sends no   *)
(* shell commands and one turn at a time, each turn runs alone, ends once    *)
(* and keeps its status, and an interrupt is told that status or an error.   *)
THEOREM ServerKeepsContract == ShellReqs = {} /\ Patience = "call" /\ Spec => ImplementsContract
<1> SUFFICES ASSUME Caller PROVE Spec => ImplementsContract
  BY DEF Caller
<1> DEFINE IInv == Held /\ Known /\ ContractInv
<1>1. Init => IInv
  BY InitType, RefusalInit, OneInit, PatientInit, ContractInit
     DEF Held, Known, Init, ResultKnown, TargetKnown, RecordedHappened
<1>2. IInv /\ [Next]_vars => IInv' /\ [Contract!Next]_<<Outcome, Told>>
  <2> SUFFICES ASSUME IInv, [Next]_vars PROVE IInv' /\ [Contract!Next]_<<Outcome, Told>>
    OBVIOUS
  <2>1. TypeOK' /\ Known'
    BY StepType, ResultStep, TargetStep, RecordedStep DEF Held, Known
  <2>2. Held'
    <3>1. Patience # "none"
      BY DEF Caller
    <3> QED
      BY <2>1, <3>1, RefusalStep, OneStep, PatientStep DEF Held
  <2>3. ContractInv'
    BY <2>2, ContractStep
  <2> QED
    BY <2>1, <2>2, <2>3, RefinesNext
<1>3. Init => Contract!Init
  BY RefinesInit
<1> QED
  BY <1>1, <1>2, <1>3, PTL DEF Spec, ImplementsContract, Contract!Spec

=============================================================================
