--------------------------- MODULE PendingInputs ---------------------------
(***************************************************************************)
(* Inputs a client sends while a turn runs: queued behind it (turn/start), *)
(* steered into it (turn/steer), taken out of the queue again              *)
(* (turn/queue/remove) or moved from the queue into the running turn       *)
(* (turn/queue/steer).  An input lives in the in-memory queues, which the  *)
(* handlers, the session actor and the query loop share under mutexes, and *)
(* in database rows meant to survive a restart.                            *)
(*                                                                         *)
(* One persistent session.  Its turns start one after another: what        *)
(* concurrent turn/start requests do is the subject of TurnLifecycle.      *)
(* Rows of steered inputs are written and cleared but never read: left out.*)
(***************************************************************************)
EXTENDS Naturals, Sequences, SequencesExt, FiniteSets, Filter

CONSTANTS
  QueueInputs,    \* sent with turn/start while a turn is active
  SteerInputs,    \* sent with turn/steer
  Note,           \* the BudgetLimitSteering item auto compaction leaves
  MaxTurns,       \* bound on the turns of all lives
  MaxLives        \* bound on the times the server is started

Inputs == QueueInputs \cup SteerInputs

InputAssumption ==      \* assumed by MCQueries
  /\ QueueInputs \cap SteerInputs = {}
  /\ Note \notin Inputs
  /\ MaxTurns \in Nat /\ MaxLives \in Nat \ {0}

VARIABLES
  mailbox,   \* commands of the session actor about inputs
  queue,     \* SessionState.pending_turn_queue
  btw,       \* SessionState.btw_input_queue
  begun,     \* is turn_state Some?
  pending,   \* TurnState.pending_input
  rows,      \* pending_messages rows with queue_type turn, in order of id
  turn,      \* the session's turn: number, how it was started, progress
  chain,     \* the post-turn task
  h,         \* turn/start and turn/steer handlers, one per input
  q,         \* turn/queue/remove and turn/queue/steer handlers, one per queued input
  life,      \* which start of the server this is
  up,        \* is the session loaded?
  given,     \* inputs made messages of a prompt, in order, with turn and life
  arrived    \* inputs that entered the queue at its back in this life, in order

turnState == <<begun, pending>>
memory == <<mailbox, queue, btw, turnState>>
tasks == <<turn, chain, h, q>>
history == <<given, arrived>>
vars == <<memory, rows, tasks, life, up, history>>

NoInput == Note     \* no input is the note
Symmetry == Permutations(QueueInputs)
Give(s) == given' = given \o [n \in DOMAIN s |-> [input |-> s[n], turn |-> turn.id, life |-> life]]
In(s, x) == \E n \in DOMAIN s : s[n] = x
Without(s, x) == Only(s, ToSet(s) \ {x})

(* The actor serves nothing while a turn executes on it. *)
Deaf == turn.pc \notin {"idle", "launched"}
Send(c) == mailbox' = Append(mailbox, c)
Receive(op) ==
  /\ up /\ ~Deaf
  /\ mailbox # <<>> /\ Head(mailbox).op = op
  /\ mailbox' = Tail(mailbox)
Cur == Head(mailbox).input

(* session_turn_reservation_snapshot: the registry knows a turn a client     *)
(* started until its finalization begins; about any other the actor is asked.*)
SnapshotShowsTurn ==
  /\ up
  /\ \/ turn.pc = "launched"
     \/ turn.pc \in {"steers", "queued", "model", "ended"} /\ turn.own = NoInput

-----------------------------------------------------------------------------
(* turn/start while a turn is active.                                       *)

QueueInput(i) ==
  /\ h[i].pc = "new"
  /\ SnapshotShowsTurn
  /\ Send([op |-> "enqueue", input |-> i])
  /\ h' = [h EXCEPT ![i].pc = "row", ![i].life = life]
  /\ UNCHANGED <<queue, btw, turnState, rows, turn, chain, q, life, up, history>>

AnswerBeforeRow(i) ==     \* mutant: the reply does not wait for the row
  /\ h[i].pc = "row"
  /\ h' = [h EXCEPT ![i].pc = "done", ![i].reply = "Queued"]
  /\ UNCHANGED <<memory, rows, turn, chain, q, life, up, history>>

WriteRow(i) ==
  /\ h[i].pc = "row"
  /\ rows' = Append(rows, i)
  /\ h' = [h EXCEPT ![i].pc = "done", ![i].reply = "Queued"]
  /\ UNCHANGED <<memory, turn, chain, q, life, up, history>>

ActorEnqueue ==
  /\ Receive("enqueue")
  /\ queue' = Append(queue, Cur)
  /\ arrived' = Append(arrived, Cur)
  /\ UNCHANGED <<btw, turnState, rows, tasks, life, up, given>>

(* turn/steer: the turn it names was active when the reservation was read.   *)
Steer(i) ==
  /\ h[i].pc = "new"
  /\ SnapshotShowsTurn
  /\ h' = [h EXCEPT ![i].pc = "push", ![i].turn = turn.id, ![i].life = life]
  /\ UNCHANGED <<memory, rows, turn, chain, q, life, up, history>>

PushSteer(i) ==
  /\ h[i].pc = "push"
  /\ btw' = Append(btw, i)
  /\ h' = [h EXCEPT ![i].pc = "answer"]
  /\ UNCHANGED <<mailbox, queue, turnState, rows, turn, chain, q, life, up, history>>

AnswerSteer(i) ==
  /\ h[i].pc = "answer"
  /\ h' = [h EXCEPT ![i].pc = "done", ![i].reply = "Steered",
                    ![i].intime = turn.id = h[i].turn /\ turn.pc \in {"launched", "steers", "queued",
                                                                   "model", "ended", "handles"}]
  /\ UNCHANGED <<memory, rows, turn, chain, q, life, up, history>>

-----------------------------------------------------------------------------
(* turn/queue/remove and turn/queue/steer name an input that was queued.    *)

SendRemove(i) ==
  /\ q[i].pc = "new" /\ h[i].reply = "Queued" /\ up
  /\ Send([op |-> "remove", input |-> i])
  /\ q' = [q EXCEPT ![i].pc = "removing"]
  /\ UNCHANGED <<queue, btw, turnState, rows, turn, chain, h, life, up, history>>

ActorRemove ==
  /\ Receive("remove")
  /\ queue' = Without(queue, Cur)
  /\ q' = [q EXCEPT ![Cur] = IF In(queue, Cur) THEN [@ EXCEPT !.pc = "erase"]
                                                ELSE [@ EXCEPT !.pc = "done", !.reply = "NotRemoved"]]
  /\ UNCHANGED <<btw, turnState, rows, turn, chain, h, life, up, history>>

EraseRemoved(i) ==
  /\ q[i].pc = "erase"
  /\ rows' = Without(rows, i)
  /\ q' = [q EXCEPT ![i].pc = "done", ![i].reply = "Removed"]
  /\ UNCHANGED <<memory, turn, chain, h, life, up, history>>

QueueSteer(i) ==
  /\ q[i].pc = "new" /\ h[i].reply = "Queued"
  /\ SnapshotShowsTurn
  /\ q' = [q EXCEPT ![i].pc = "move"]
  /\ UNCHANGED <<memory, rows, turn, chain, h, life, up, history>>

MoveCopies(i) ==          \* mutant: the item is cloned, not removed
  /\ q[i].pc = "move" /\ In(queue, i)
  /\ btw' = Append(btw, i)
  /\ q' = [q EXCEPT ![i].pc = "unrow"]
  /\ UNCHANGED <<mailbox, queue, turnState, rows, turn, chain, h, life, up, history>>

MoveToSteers(i) ==
  /\ q[i].pc = "move" /\ In(queue, i)
  /\ queue' = Without(queue, i)
  /\ btw' = Append(btw, i)
  /\ q' = [q EXCEPT ![i].pc = "unrow"]
  /\ UNCHANGED <<mailbox, turnState, rows, turn, chain, h, life, up, history>>

MoveNothing(i) ==
  /\ q[i].pc = "move" /\ ~In(queue, i)
  /\ q' = [q EXCEPT ![i].pc = "done", ![i].reply = "NotQueued"]
  /\ UNCHANGED <<memory, rows, turn, chain, h, life, up, history>>

EraseSteered(i) ==
  /\ q[i].pc = "unrow"
  /\ rows' = Without(rows, i)
  /\ q' = [q EXCEPT ![i].pc = "done", ![i].reply = "Steered"]
  /\ UNCHANGED <<memory, turn, chain, h, life, up, history>>

-----------------------------------------------------------------------------
(* A turn.  own is the queued input it was started for, NoInput when a       *)
(* client's turn/start created it.                                           *)

StartTurn ==
  /\ up /\ turn.pc = "idle" /\ chain.pc = "off"
  /\ turn.id < MaxTurns
  /\ turn' = [id |-> turn.id + 1, own |-> NoInput, pc |-> "launched"]
  /\ Send([op |-> "execute", input |-> NoInput])
  /\ UNCHANGED <<queue, btw, turnState, rows, chain, h, q, life, up, history>>

(* The input of a follow-up turn is pushed before the query begins.  A query  *)
(* that failed left its turn_state behind: only else start_turn drains.      *)
Execute ==
  /\ Receive("execute")
  /\ turn' = [turn EXCEPT !.pc = "steers"]
  /\ IF Cur = NoInput THEN UNCHANGED given ELSE Give(<<Cur>>)
  /\ begun' = TRUE
  /\ IF begun THEN UNCHANGED <<pending, queue>> ELSE pending' = queue /\ queue' = <<>>
  /\ UNCHANGED <<btw, rows, chain, h, q, life, up, arrived>>

(* take_turn_pending_input drains three places, each under its own lock ...  *)
TakeSteers ==
  /\ turn.pc = "steers"
  /\ Give(btw \o Without(pending, Note))
  /\ btw' = <<>> /\ pending' = <<>>
  /\ turn' = [turn EXCEPT !.pc = "queued"]
  /\ UNCHANGED <<mailbox, queue, begun, rows, chain, h, q, life, up, arrived>>

(* ... and auto compaction may leave its note for the next round.            *)
TakeQueue ==
  /\ turn.pc = "queued"
  /\ Give(Without(queue, Note))
  /\ queue' = <<>>
  /\ pending' \in {<<>>, <<Note>>}
  /\ turn' = [turn EXCEPT !.pc = "model"]
  /\ UNCHANGED <<mailbox, btw, begun, rows, chain, h, q, life, up, arrived>>

ModelGoesOn ==
  /\ turn.pc = "model"
  /\ turn' = [turn EXCEPT !.pc = "steers"]
  /\ UNCHANGED <<memory, rows, chain, h, q, life, up, history>>

(* SessionState::end_turn, which only a query that succeeds, or is cancelled *)
(* behind its tools, goes through.                                           *)
QueryEnds ==
  /\ turn.pc = "model"
  /\ queue' = pending \o queue
  /\ begun' = FALSE /\ pending' = <<>>
  /\ btw' = <<>>
  /\ turn' = [turn EXCEPT !.pc = "ended"]
  /\ UNCHANGED <<mailbox, rows, chain, h, q, life, up, history>>

QueryFails ==
  /\ turn.pc = "model"
  /\ turn' = [turn EXCEPT !.pc = "ended"]
  /\ UNCHANGED <<memory, rows, chain, h, q, life, up, history>>

(* finalize_executed_turn *)
ClearHandles ==
  /\ turn.pc = "ended"
  /\ turn' = [turn EXCEPT !.pc = "handles"]
  /\ UNCHANGED <<memory, rows, chain, h, q, life, up, history>>

KeepSteers ==             \* mutant: the buffer outlives its turn
  /\ turn.pc = "handles"
  /\ turn' = [turn EXCEPT !.pc = "cleared"]
  /\ UNCHANGED <<memory, rows, chain, h, q, life, up, history>>

ClearSteers ==
  /\ turn.pc = "handles"
  /\ btw' = <<>>
  /\ turn' = [turn EXCEPT !.pc = "cleared"]
  /\ UNCHANGED <<mailbox, queue, turnState, rows, chain, h, q, life, up, history>>

CloseTurn ==
  /\ turn.pc = "cleared"
  /\ turn' = [turn EXCEPT !.pc = "idle"]
  /\ chain' = [pc |-> "pop", tries |-> 2, input |-> NoInput]
  /\ UNCHANGED <<memory, rows, h, q, life, up, history>>

-----------------------------------------------------------------------------
(* chain_queued_followup_turn, then spawn_next_turn_from_queue.             *)

SendPop ==
  /\ chain.pc = "pop" /\ up
  /\ Send([op |-> "pop", input |-> NoInput])
  /\ chain' = [chain EXCEPT !.pc = "popping"]
  /\ UNCHANGED <<queue, btw, turnState, rows, turn, h, q, life, up, history>>

(* The note is popped and thrown away, and counts as an empty queue.         *)
ActorPop ==
  /\ Receive("pop")
  /\ queue' = IF queue = <<>> THEN queue ELSE Tail(queue)
  /\ chain' = CASE queue # <<>> /\ Head(queue) # Note ->
                     [chain EXCEPT !.pc = "popped", !.input = Head(queue)]
                [] chain.tries = 2 -> [chain EXCEPT !.pc = "pop", !.tries = 1]
                [] OTHER -> [chain EXCEPT !.pc = "off"]
  /\ UNCHANGED <<btw, turnState, rows, turn, h, q, life, up, history>>

ErasePopped ==
  /\ chain.pc = "popped"
  /\ rows' = Without(rows, chain.input)
  /\ chain' = [chain EXCEPT !.pc = "activate"]
  /\ UNCHANGED <<memory, turn, h, q, life, up, history>>

(* prepare_queued_turn_start and activate_queued_turn ask the actor.         *)
Activate ==
  /\ chain.pc = "activate" /\ up /\ turn.pc = "idle"
  /\ turn.id < MaxTurns
  /\ turn' = [id |-> turn.id + 1, own |-> chain.input, pc |-> "launched"]
  /\ Send([op |-> "execute", input |-> chain.input])
  /\ chain' = [chain EXCEPT !.pc = "off", !.input = NoInput]
  /\ UNCHANGED <<queue, btw, turnState, rows, h, q, life, up, history>>

-----------------------------------------------------------------------------
(* The process dies, or the session is evicted while no turn, handler or     *)
(* task holds it: what is in memory is gone, the rows stay.                  *)

NewTurn(id) == [id |-> id, own |-> NoInput, pc |-> "idle"]
NoChain == [pc |-> "off", tries |-> 0, input |-> NoInput]

Unload ==
  /\ up
  /\ life < MaxLives
  /\ up' = FALSE
  /\ mailbox' = <<>> /\ queue' = <<>> /\ btw' = <<>> /\ arrived' = <<>>
  /\ begun' = FALSE /\ pending' = <<>>
  /\ turn' = NewTurn(turn.id)
  /\ chain' = NoChain
  /\ h' = [i \in Inputs |-> [h[i] EXCEPT !.pc = IF @ = "new" THEN @ ELSE "done"]]
  /\ q' = [i \in QueueInputs |-> [q[i] EXCEPT !.pc = IF @ = "new" THEN @ ELSE "done"]]
  /\ UNCHANGED <<rows, life, given>>

(* hydrate_runtime_session: drain_pending deletes the rows it returns.       *)
Load ==
  /\ ~up
  /\ up' = TRUE
  /\ life' = life + 1
  /\ queue' = rows
  /\ arrived' = rows
  /\ rows' = <<>>
  /\ UNCHANGED <<mailbox, btw, turnState, tasks, given>>

-----------------------------------------------------------------------------
Init ==
  /\ mailbox = <<>> /\ queue = <<>> /\ btw = <<>> /\ rows = <<>>
  /\ begun = FALSE /\ pending = <<>>
  /\ turn = NewTurn(0)
  /\ chain = NoChain
  /\ h = [i \in Inputs |-> [pc |-> "new", turn |-> 0, life |-> 0, reply |-> "None",
                            intime |-> FALSE]]
  /\ q = [i \in QueueInputs |-> [pc |-> "new", reply |-> "None"]]
  /\ life = 1 /\ up = TRUE
  /\ given = <<>> /\ arrived = <<>>

Turn ==
  \/ Execute \/ TakeSteers \/ TakeQueue \/ ModelGoesOn \/ QueryEnds \/ QueryFails
  \/ ClearHandles \/ ClearSteers \/ CloseTurn

Next ==
  \/ \E i \in QueueInputs :
       \/ QueueInput(i) \/ WriteRow(i)
       \/ SendRemove(i) \/ EraseRemoved(i)
       \/ QueueSteer(i) \/ MoveToSteers(i) \/ MoveNothing(i) \/ EraseSteered(i)
  \/ \E i \in SteerInputs : Steer(i) \/ PushSteer(i) \/ AnswerSteer(i)
  \/ StartTurn \/ Turn \/ ActorEnqueue \/ ActorRemove
  \/ SendPop \/ ActorPop \/ ErasePopped \/ Activate
  \/ Unload \/ Load

Spec == Init /\ [][Next]_vars

-----------------------------------------------------------------------------
TurnPcs == {"idle", "launched", "steers", "queued", "model", "ended", "handles", "cleared"}

(* Every variable holds what its Rust counterpart can hold.                  *)
TypeOK ==
  /\ mailbox \in Seq([op : {"enqueue"}, input : QueueInputs] \cup
                     [op : {"remove"}, input : QueueInputs] \cup
                     [op : {"pop", "execute"}, input : QueueInputs \cup {NoInput}])
  /\ queue \in Seq(QueueInputs \cup {Note})
  /\ btw \in Seq(Inputs)
  /\ pending \in Seq(QueueInputs \cup {Note})
  /\ begun \in BOOLEAN /\ up \in BOOLEAN
  /\ rows \in Seq(QueueInputs) /\ arrived \in Seq(QueueInputs)
  /\ turn \in [id : 0..MaxTurns, own : QueueInputs \cup {NoInput}, pc : TurnPcs]
  /\ chain \in [pc : {"off", "pop", "popping", "popped", "activate"}, tries : 0..2,
                input : QueueInputs \cup {NoInput}]
  /\ chain.input \in QueueInputs <=> chain.pc \in {"popped", "activate"}
  /\ h \in [Inputs -> [pc : {"new", "row", "push", "answer", "done"}, turn : 0..MaxTurns,
                       life : 0..MaxLives, reply : {"None", "Queued", "Steered"},
                       intime : BOOLEAN]]
  /\ q \in [QueueInputs -> [pc : {"new", "removing", "erase", "move", "unrow", "done"},
                            reply : {"None", "Removed", "NotRemoved", "Steered", "NotQueued"}]]
  /\ life \in 1..MaxLives
  /\ given \in Seq([input : Inputs, turn : 1..MaxTurns, life : 1..MaxLives])

Gifts(i) == {n \in DOMAIN given : given[n].input = i}
GivenIn(i, l) == \E n \in Gifts(i) : given[n].life = l

(* Within one life of the server no input becomes a message twice, whichever *)
(* of the loop, the chain and the two queue requests get hold of it.         *)
GivenOncePerLife ==
  \A i \in Inputs : \A m, n \in Gifts(i) : given[m].life = given[n].life => m = n

Before(s, x, y) == \E k, l \in DOMAIN s : k < l /\ s[k] = x /\ s[l] = y

(* Inputs nobody steered become messages in the order in which they were     *)
(* queued, be it as turns of their own or inside another turn.               *)
QueuedInOrder ==
  \A m, n \in DOMAIN given :
    LET i == given[m].input  j == given[n].input IN
      /\ m < n
      /\ given[m].life = life /\ given[n].life = life
      /\ In(arrived, i) /\ In(arrived, j)
      /\ q[i].pc \in {"new", "removing"} /\ q[j].pc \in {"new", "removing"}
      => Before(arrived, i, j) \/ i = j

(* turn/queue/remove confirmed: no prompt ever gets the input afterwards, a  *)
(* restart that reads the rows again included.                               *)
RemovedNeverRuns ==
  [][\A i \in QueueInputs : q[i].reply = "Removed" => Gifts(i)' = Gifts(i)]_vars

One(b) == IF b THEN 1 ELSE 0
Times(s, i) == Len(SelectSeq(s, LAMBDA x : x = i))

(* In the life that accepted it, an input answered Queued that nobody        *)
(* removed or steered is in one place: on its way to the queue, in it, with  *)
(* the chain, launched, or in a prompt.                                      *)
QueuedInOnePlace ==
  \A i \in QueueInputs :
    h[i].reply = "Queued" /\ h[i].life = life /\ up
      /\ q[i].pc \notin {"erase", "unrow"} /\ q[i].reply \notin {"Removed", "Steered"} =>
      Times(SelectSeq(mailbox, LAMBDA c : c.op = "enqueue"), [op |-> "enqueue", input |-> i])
      + Times(queue, i) + Times(pending, i) + One(chain.input = i)
      + One(turn.own = i /\ turn.pc = "launched") + One(GivenIn(i, life)) = 1

(* An input answered Queued is on disk for as long as it waits, so that a    *)
(* restart finds it, until the session is restored for the first time.       *)
WaitingIsDurable ==
  \A i \in QueueInputs :
    h[i].reply = "Queued" /\ h[i].life = life /\ In(queue, i) => In(rows, i)

(* A steer that was answered before its turn cleared the buffer becomes a    *)
(* message of that turn or of none.                                          *)
TimelySteerStaysInTurn ==
  \A i \in SteerInputs : h[i].intime => \A n \in Gifts(i) : given[n].turn = h[i].turn

(* A steer becomes a message of the turn the client named or of none.        *)
SteerStaysInTurn ==
  \A i \in SteerInputs : \A n \in Gifts(i) : given[n].turn = h[i].turn
=============================================================================
