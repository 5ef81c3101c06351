------------------------------- MODULE Goals -------------------------------
(***************************************************************************)
(* A session's goal and the turns the server starts by itself to pursue    *)
(* it.  Clients create, pause, resume, complete and clear the goal at any  *)
(* time; a task that found the goal active reserves a turn, looks again    *)
(* and again whether it is still wanted, and launches it.  A user's turns  *)
(* come in between.                                                        *)
(*                                                                         *)
(* One session, never in Plan mode, whose tools wait for nobody.  The      *)
(* durable records of the goal, which nothing reads before the next start, *)
(* are left out.  What the actor is asked is answered in any order, once   *)
(* it is free; how a turn's query obeys its token is TurnLifecycle's.      *)
(***************************************************************************)
EXTENDS Naturals, Sequences, FiniteSets, TLC

CONSTANTS
  Requests,   \* goal/... requests
  Conts,      \* runs of maybe_start_goal_continuation_turn, and their turns
  Users,      \* turn/start requests, and their turns
  MaxGoals,   \* bound on the goals created
  Budgeted,   \* have the goals a token budget?
  None

Turns == Conts \cup Users
GoalIds == 1..MaxGoals

ASSUME GoalAssumption ==
  /\ IsFiniteSet(Conts)
  /\ Conts \cap Users = {} /\ None \notin Turns \cup GoalIds
  /\ MaxGoals \in Nat /\ Budgeted \in BOOLEAN

(* Requests are alike, and so are the runs of the continuation.              *)
Symmetry == Permutations(Requests) \cup Permutations(Conts)

VARIABLES
  goal,      \* the goal of the session's GoalStore: id, status, budget spent?
  created,   \* number of goals created so far
  since,     \* turns completed after the goal's updated_at
  tracked,   \* active_goal_continuation_turns
  lock,      \* ... and the task that holds its mutex across an await
  turnGoal,  \* goal_continuation_turn_goals
  active,    \* the actor's active_turn
  latest,    \* its latest_turn, and how it ended
  queue,     \* its pending_turn_queue
  exec,      \* the turn it executes
  entry,     \* ActiveTurnExecution: turn, token, is there an abort handle?
  cancelled, \* tokens that were cancelled, by the turn they were made for
  task,      \* the tasks turns were spawned on
  posts,     \* tasks the actor spawned after turns
  recorded,  \* terminal_turn_statuses
  cont,      \* runs of maybe_start_goal_continuation_turn
  req,       \* handlers of goal requests
  user,      \* handlers of turn/start
  stopped,   \* history: goals a client stopped and was told so
  taken,     \* history: continuation turns a goal request interrupted
  charged,   \* history: which goal a continuation turn's usage went to
  wraps      \* history: turns reserved for the goal after its budget was spent

goalVars == <<goal, created, since>>
trackVars == <<tracked, lock, turnGoal>>
actorVars == <<active, latest, queue, exec>>
runVars == <<entry, cancelled, task, posts, recorded>>
history == <<stopped, taken, charged, wraps>>
vars == <<goalVars, trackVars, actorVars, runVars, cont, req, user, history>>

Idle == [turn |-> None, pc |-> "idle", token |-> None, end |-> "none"]
NoEntry == [turn |-> None, token |-> None, handle |-> FALSE]
Entry(t) == [turn |-> t, token |-> t, handle |-> TRUE]
Free == exec.pc = "idle"
Unlocked == lock = None
GoalId == IF goal = None THEN None ELSE goal.id
GoalIs(statuses) == goal # None /\ goal.status \in statuses
SetStatus(s) == goal' = [goal EXCEPT !.status = s] /\ since' = {}

Go(c, pc) == cont' = [cont EXCEPT ![c].pc = pc]
GiveUp(c) == cont' = [cont EXCEPT ![c] = [pc |-> "off", goal |-> None, failed |-> None, told |-> FALSE]]
At(c, pc) == cont[c].pc = pc
(* A run that has reserved no turn yet makes room for another.               *)
Begin == \E c \in Conts : At(c, "off") /\ Go(c, "failure")

-----------------------------------------------------------------------------
(* maybe_start_goal_continuation_turn                                       *)

ReadFailure(c) ==
  /\ At(c, "failure") /\ Free
  /\ cont' = [cont EXCEPT ![c].pc = "pause",
                          ![c].failed = IF latest.end = "failed" THEN latest.turn ELSE None]
  /\ UNCHANGED <<goalVars, trackVars, actorVars, runVars, req, user, history>>

PauseAfterFailure(c) ==
  /\ At(c, "pause")
  /\ IF GoalIs({"active"}) /\ cont[c].failed \in since
     THEN SetStatus("paused") /\ GiveUp(c)
     ELSE Go(c, "allow") /\ UNCHANGED <<goal, since>>
  /\ UNCHANGED <<created, trackVars, actorVars, runVars, req, user, history>>

(* session_allows_goal_continuation.  The second look is part of TryBegin,   *)
(* which asks for the same once more.                                        *)
Allow(c) ==
  /\ At(c, "allow") /\ Free
  /\ IF active = None /\ queue = <<>> THEN Go(c, "candidate") ELSE GiveUp(c)
  /\ UNCHANGED <<goalVars, trackVars, actorVars, runVars, req, user, history>>

Candidate(c) ==
  /\ At(c, "candidate")
  /\ IF GoalIs({"active"})
     THEN cont' = [cont EXCEPT ![c].pc = "begin", ![c].goal = goal.id]
     ELSE GiveUp(c)
  /\ UNCHANGED <<goalVars, trackVars, actorVars, runVars, req, user, history>>

TryBegin(c) ==
  /\ At(c, "begin") /\ Free
  /\ IF active = None /\ queue = <<>>
     THEN active' = c /\ Go(c, "track")
     ELSE GiveUp(c) /\ UNCHANGED active
  /\ UNCHANGED <<goalVars, trackVars, latest, queue, exec, runVars, req, user, history>>

Track(c) ==
  /\ At(c, "track") /\ Unlocked
  /\ tracked' = c
  /\ turnGoal' = [turnGoal EXCEPT ![c] = cont[c].goal]
  /\ Go(c, "mark")
  /\ UNCHANGED <<goalVars, lock, actorVars, runVars, req, user, history>>

MarkOnly(c) ==            \* mutant: the last turn does not limit the goal
  /\ At(c, "mark")
  /\ IF GoalIs({"active"}) /\ goal.id = cont[c].goal
     THEN SetStatus("active") /\ Go(c, "check")
     ELSE Go(c, "clear") /\ UNCHANGED <<goal, since>>
  /\ wraps' = IF goal # None /\ goal.spent /\ cont'[c].pc = "check" THEN wraps \cup {c} ELSE wraps
  /\ UNCHANGED <<created, trackVars, actorVars, runVars, req, user, stopped, taken, charged>>

(* mark_goal_continuation_turn_started                                       *)
Mark(c) ==
  /\ At(c, "mark")
  /\ IF GoalIs({"active"}) /\ goal.id = cont[c].goal
     THEN SetStatus(IF goal.spent THEN "limited" ELSE "active") /\ Go(c, "check")
     ELSE Go(c, "clear") /\ UNCHANGED <<goal, since>>
  /\ wraps' = IF goal # None /\ goal.spent /\ cont'[c].pc = "check" THEN wraps \cup {c} ELSE wraps
  /\ UNCHANGED <<created, trackVars, actorVars, runVars, req, user, stopped, taken, charged>>

(* append_goal_continuation_turn_start, which may fail, and the three calls  *)
(* of goal_continuation_turn_still_current around the two broadcasts.        *)
Check(c) ==
  /\ At(c, "check") /\ Free /\ Unlocked
  /\ \/ /\ tracked = c /\ active = c
        /\ goal # None /\ goal.id = cont[c].goal /\ goal.status \in {"active", "limited"}
        /\ cont' = [cont EXCEPT ![c].pc = "hold", ![c].told = TRUE]
     \/ Go(c, "clear")
  /\ UNCHANGED <<goalVars, trackVars, actorVars, runVars, req, user, history>>

HoldUnchecked(c) ==       \* mutant: it is taken for granted that the turn is still reserved
  /\ At(c, "hold") /\ Unlocked
  /\ lock' = c /\ Go(c, "ask")
  /\ UNCHANGED <<goalVars, tracked, turnGoal, actorVars, runVars, req, user, history>>

(* From here to the launch the mutex of the tracked turns is held.           *)
Hold(c) ==
  /\ At(c, "hold") /\ Unlocked
  /\ IF tracked = c THEN lock' = c /\ Go(c, "ask") ELSE Go(c, "clear") /\ UNCHANGED lock
  /\ UNCHANGED <<goalVars, tracked, turnGoal, actorVars, runVars, req, user, history>>

Launch(c) ==
  /\ At(c, "ask") /\ Free
  /\ lock' = None
  /\ IF active = c
     THEN /\ entry' = Entry(c)
          /\ task' = [task EXCEPT ![c] = "spawned"]
          /\ Go(c, "launched")
     ELSE Go(c, "clear") /\ UNCHANGED <<entry, task>>
  /\ UNCHANGED <<goalVars, tracked, turnGoal, actorVars, cancelled, posts, recorded, req, user,
                 history>>

(* clear_goal_continuation_turn_reservation                                  *)
ClearTracked(c) ==
  /\ At(c, "clear") /\ Unlocked
  /\ IF tracked = c THEN tracked' = None /\ Go(c, "token") ELSE Go(c, "idle") /\ UNCHANGED tracked
  /\ UNCHANGED <<goalVars, lock, turnGoal, actorVars, runVars, req, user, history>>

ClearToken(c) ==          \* whosesoever token it is
  /\ At(c, "token")
  /\ entry' = [entry EXCEPT !.token = None, !.handle = FALSE]
  /\ Go(c, "idle")
  /\ UNCHANGED <<goalVars, trackVars, actorVars, cancelled, task, posts, recorded, req, user, history>>

ClearActive(c) ==
  /\ At(c, "idle") /\ Free
  /\ turnGoal' = [turnGoal EXCEPT ![c] = None]
  /\ active' = IF active = c THEN None ELSE active
  /\ Go(c, "cleared")
  /\ UNCHANGED <<goalVars, tracked, lock, latest, queue, exec, runVars, req, user, history>>

Continuation(c) ==
  \/ ReadFailure(c) \/ PauseAfterFailure(c) \/ Allow(c) \/ Candidate(c) \/ TryBegin(c)
  \/ Track(c) \/ Mark(c) \/ Check(c) \/ Hold(c) \/ Launch(c)
  \/ ClearTracked(c) \/ ClearToken(c) \/ ClearActive(c)

-----------------------------------------------------------------------------
(* Turns.  What else is known of them is in TurnLifecycle.                   *)

Execute(t) ==
  /\ task[t] = "spawned" /\ Free
  /\ exec' = [turn |-> t, pc |-> "query", token |-> entry.token, end |-> "none"]
  /\ task' = [task EXCEPT ![t] = "sent"]
  /\ UNCHANGED <<goalVars, trackVars, active, latest, queue, entry, cancelled, posts, recorded,
                 cont, req, user, history>>

(* The model's update_goal tool.                                             *)
UpdateGoal ==
  /\ exec.pc = "query" /\ goal # None
  /\ SetStatus("complete")
  /\ UNCHANGED <<created, trackVars, actorVars, runVars, cont, req, user, history>>

QueryEnds ==
  /\ exec.pc = "query"
  /\ \E end \in {"completed", "failed", "interrupted"} :
       /\ end = "interrupted" => exec.token \in cancelled
       /\ exec' = [exec EXCEPT !.pc = "finalize", !.end = end]
  /\ UNCHANGED <<goalVars, trackVars, active, latest, queue, runVars, cont, req, user, history>>

(* clear_active_turn_interrupt_handles and persist_terminal_turn_state.      *)
Finalize ==
  /\ exec.pc = "finalize"
  /\ entry' = NoEntry
  /\ active' = None
  /\ latest' = [turn |-> exec.turn, end |-> exec.end]
  /\ since' = since \cup {exec.turn}
  /\ exec' = [exec EXCEPT !.pc = "account"]
  /\ UNCHANGED <<goal, created, trackVars, queue, cancelled, task, posts, recorded, cont, req,
                 user, history>>

Charge ==
  /\ goal' \in {goal, [goal EXCEPT !.spent = Budgeted]}
  /\ since' = {}
  /\ charged' = IF exec.turn \in Conts THEN charged \cup {<<exec.turn, goal.id>>} ELSE charged

AccountToCurrent ==       \* mutant: does not compare the goals
  /\ exec.pc = "account"
  /\ exec' = [exec EXCEPT !.pc = "close"]
  /\ turnGoal' = [turnGoal EXCEPT ![exec.turn] = None]
  /\ \/ UNCHANGED <<goal, since, charged>>
     \/ goal # None /\ Charge
  /\ UNCHANGED <<created, tracked, lock, active, latest, queue, runVars, cont, req, user,
                 stopped, taken, wraps>>

(* account_goal_turn_completed: a turn may have used nothing, a turn of no   *)
(* known goal is charged to the one there is.                                *)
Account ==
  /\ exec.pc = "account"
  /\ exec' = [exec EXCEPT !.pc = "close"]
  /\ turnGoal' = [turnGoal EXCEPT ![exec.turn] = None]
  /\ \/ UNCHANGED <<goal, since, charged>>
     \/ /\ goal # None
        /\ \/ turnGoal[exec.turn] = None
           \/ turnGoal[exec.turn] = goal.id /\ goal.status \in {"active", "limited"}
        /\ Charge
  /\ UNCHANGED <<created, tracked, lock, active, latest, queue, runVars, cont, req, user,
                 stopped, taken, wraps>>

CloseTurn ==
  /\ exec.pc = "close"
  /\ recorded' = recorded \cup {exec.turn}
  /\ posts' = posts \cup {[after |-> exec.turn, go |-> latest.end \in {"completed", "failed"}]}
  /\ exec' = Idle
  /\ UNCHANGED <<goalVars, trackVars, active, latest, queue, entry, cancelled, task, cont, req,
                 user, history>>

(* The task that follows a turn: an input that waits comes first.            *)
AfterTurn(p) ==
  /\ Free
  /\ posts' = posts \ {p}
  /\ IF queue # <<>>
     THEN /\ user' = [user EXCEPT ![Head(queue)] = "activate"]
          /\ queue' = Tail(queue)
          /\ UNCHANGED cont
     ELSE /\ IF p.go THEN Begin ELSE UNCHANGED cont
          /\ UNCHANGED <<queue, user>>
  /\ UNCHANGED <<goalVars, trackVars, active, latest, exec, entry, cancelled, task, recorded, req,
                 history>>

-----------------------------------------------------------------------------
(* turn/start                                                               *)

ReadReservation(u) ==
  /\ user[u] = "new"
  /\ \/ entry.turn # None /\ user' = [user EXCEPT ![u] = "enqueue"]
     \/ /\ entry.turn = None /\ Free
        /\ user' = [user EXCEPT ![u] = IF active = None THEN "begin" ELSE "enqueue"]
  /\ UNCHANGED <<goalVars, trackVars, actorVars, runVars, cont, req, history>>

Enqueue(u) ==
  /\ user[u] = "enqueue" /\ Free
  /\ queue' = Append(queue, u)
  /\ user' = [user EXCEPT ![u] = "queued"]
  /\ UNCHANGED <<goalVars, trackVars, active, latest, exec, runVars, cont, req, history>>

(* The session is taken to be as idle as it was when it was looked at.       *)
SetActive(u) ==
  /\ user[u] = "begin" /\ Free
  /\ active' = u
  /\ user' = [user EXCEPT ![u] = "register"]
  /\ UNCHANGED <<goalVars, trackVars, latest, queue, exec, runVars, cont, req, history>>

RegisterAndSpawn(u) ==
  /\ user[u] = "register"
  /\ entry' = Entry(u)
  /\ task' = [task EXCEPT ![u] = "spawned"]
  /\ user' = [user EXCEPT ![u] = "done"]
  /\ UNCHANGED <<goalVars, trackVars, actorVars, cancelled, posts, recorded, cont, req, history>>

(* An input from the queue: its turn has no entry in the registry.           *)
ActivateQueued(u) ==
  /\ user[u] = "activate" /\ Free
  /\ active' = u
  /\ task' = [task EXCEPT ![u] = "spawned"]
  /\ user' = [user EXCEPT ![u] = "done"]
  /\ UNCHANGED <<goalVars, trackVars, latest, queue, exec, entry, cancelled, posts, recorded, cont,
                 req, history>>

User(u) ==
  ReadReservation(u) \/ Enqueue(u) \/ SetActive(u) \/ RegisterAndSpawn(u) \/ ActivateQueued(u)

-----------------------------------------------------------------------------
(* goal/create, set, pause, resume, complete, cancel and clear.  Each has    *)
(* changed the goal before it interrupts or starts anything.                 *)

Call(pc, g, start) == [pc |-> pc, goal |-> g, turn |-> None, start |-> start, stops |-> TRUE]
Handle(r, pc, g, start) == req' = [req EXCEPT ![r] = Call(pc, g, start)]
(* What had been stopped before is not stopped any more.                     *)
Restart(r) ==
  req' = [x \in Requests |->
            IF x = r THEN Call("start", goal.id, TRUE)
            ELSE IF req[x].goal = goal.id THEN [req[x] EXCEPT !.stops = FALSE] ELSE req[x]]
Advance(r, pc) == req' = [req EXCEPT ![r].pc = pc]
Doing(r, pc) == req[r].pc = pc

Create(r) ==              \* replace_existing whenever there is one
  /\ Doing(r, "new") /\ created < MaxGoals
  /\ created' = created + 1
  /\ goal' = [id |-> created + 1, status |-> "active", spent |-> FALSE]
  /\ since' = {} /\ wraps' = {}
  /\ Handle(r, IF goal = None THEN "start" ELSE "interrupt", GoalId, TRUE)
  /\ UNCHANGED <<trackVars, actorVars, runVars, cont, user, stopped, taken, charged>>

(* goal/resume asks for no budget, goal/set does.                            *)
Resume(r) ==
  /\ Doing(r, "new") /\ goal # None
  /\ \E s \in {"active", IF goal.spent THEN "limited" ELSE "active"} :
       /\ SetStatus(s)
       /\ IF s = "active" THEN Restart(r)
          ELSE Handle(r, IF goal.status \in {"active", "limited"} THEN "interrupt" ELSE "done", goal.id, FALSE)
       /\ IF s = "active" THEN stopped' = stopped \ {goal.id} /\ wraps' = {}
          ELSE UNCHANGED <<stopped, wraps>>
  /\ UNCHANGED <<created, trackVars, actorVars, runVars, cont, user, taken, charged>>

(* A goal whose budget is spent stays so, and its last turn is interrupted.  *)
Pause(r) ==
  /\ Doing(r, "new") /\ goal # None
  /\ IF goal.status = "limited" THEN UNCHANGED <<goal, since>> ELSE SetStatus("paused")
  /\ Handle(r, IF goal.status \in {"active", "limited"} THEN "interrupt" ELSE "done", goal.id, FALSE)
  /\ UNCHANGED <<created, trackVars, actorVars, runVars, cont, user, history>>

Complete(r) ==
  /\ Doing(r, "new") /\ goal # None
  /\ SetStatus("complete")
  /\ Handle(r, "interrupt", goal.id, FALSE)
  /\ UNCHANGED <<created, trackVars, actorVars, runVars, cont, user, history>>

Clear(r) ==
  /\ Doing(r, "new") /\ goal # None
  /\ goal' = None /\ since' = {}
  /\ Handle(r, "interrupt", goal.id, FALSE)
  /\ UNCHANGED <<created, trackVars, actorVars, runVars, cont, user, history>>

(* interrupt_active_goal_continuation_turn                                   *)
Stopped(r) == IF req[r].stops THEN stopped \cup {req[r].goal} ELSE stopped
Interrupted(r) ==
  /\ Advance(r, IF req[r].start THEN "start" ELSE "done")
  /\ stopped' = Stopped(r)

Take(r) ==
  /\ Doing(r, "interrupt") /\ Unlocked
  /\ IF tracked = None
     THEN Interrupted(r) /\ UNCHANGED <<tracked, turnGoal, taken>>
     ELSE /\ tracked' = None
          /\ turnGoal' = [turnGoal EXCEPT ![tracked] = None]
          /\ taken' = taken \cup {tracked}
          /\ req' = [req EXCEPT ![r].pc = "look", ![r].turn = tracked]
          /\ UNCHANGED stopped
  /\ UNCHANGED <<goalVars, lock, actorVars, runVars, cont, user, charged, wraps>>

Look(r) ==
  /\ Doing(r, "look")
  /\ IF entry.turn = req[r].turn
     THEN Advance(r, "recent") /\ UNCHANGED stopped
     ELSE Interrupted(r)
  /\ UNCHANGED <<goalVars, trackVars, actorVars, runVars, cont, user, taken, charged, wraps>>

LookRecent(r) ==
  /\ Doing(r, "recent")
  /\ IF req[r].turn \in recorded THEN Interrupted(r) ELSE Advance(r, "cancel") /\ UNCHANGED stopped
  /\ UNCHANGED <<goalVars, trackVars, actorVars, runVars, cont, user, taken, charged, wraps>>

Cancel(r) ==              \* whosesoever token it is by now
  /\ Doing(r, "cancel")
  /\ cancelled' = IF entry.token = None THEN cancelled ELSE cancelled \cup {entry.token}
  /\ Advance(r, "abort")
  /\ UNCHANGED <<goalVars, trackVars, actorVars, entry, task, posts, recorded, cont, user, history>>

(* A task that has sent its command to the actor is not missed.              *)
Abort(r) ==
  /\ Doing(r, "abort")
  /\ entry' = [entry EXCEPT !.handle = FALSE]
  /\ task' = IF entry.handle /\ entry.turn # None /\ task[entry.turn] = "spawned"
             THEN [task EXCEPT ![entry.turn] = "aborted"] ELSE task
  /\ Advance(r, "wait")
  /\ UNCHANGED <<goalVars, trackVars, actorVars, cancelled, posts, recorded, cont, user, history>>

Wait(r) ==                \* for the end of the turn, or five seconds
  /\ Doing(r, "wait")
  /\ Interrupted(r)
  /\ UNCHANGED <<goalVars, trackVars, actorVars, runVars, cont, user, taken, charged, wraps>>

(* schedule_goal_followup_work leaves a running turn to its end.             *)
Start(r) ==
  /\ Doing(r, "start")
  /\ IF entry.turn = None THEN Begin ELSE UNCHANGED cont
  /\ Advance(r, "done")
  /\ UNCHANGED <<goalVars, trackVars, actorVars, runVars, user, history>>

Change(r) == Create(r) \/ Resume(r) \/ Pause(r) \/ Complete(r) \/ Clear(r)
Interrupt(r) == Take(r) \/ Look(r) \/ LookRecent(r) \/ Cancel(r) \/ Abort(r) \/ Wait(r)

-----------------------------------------------------------------------------
Init ==
  /\ goal = None /\ created = 0 /\ since = {}
  /\ tracked = None /\ lock = None /\ turnGoal = [t \in Turns |-> None]
  /\ active = None /\ latest = [turn |-> None, end |-> "none"] /\ queue = <<>> /\ exec = Idle
  /\ entry = NoEntry /\ cancelled = {} /\ task = [t \in Turns |-> "off"]
  /\ posts = {} /\ recorded = {}
  /\ cont = [c \in Conts |-> [pc |-> "off", goal |-> None, failed |-> None, told |-> FALSE]]
  /\ req = [r \in Requests |-> [pc |-> "new", goal |-> None, turn |-> None, start |-> FALSE,
                           stops |-> FALSE]]
  /\ user = [u \in Users |-> "new"]
  /\ stopped = {} /\ taken = {} /\ charged = {} /\ wraps = {}

Next ==
  \/ \E c \in Conts : Continuation(c)
  \/ \E t \in Turns : Execute(t)
  \/ UpdateGoal \/ QueryEnds \/ Finalize \/ Account \/ CloseTurn
  \/ \E p \in posts : AfterTurn(p)
  \/ \E u \in Users : User(u)
  \/ \E r \in Requests : Change(r) \/ Interrupt(r) \/ Start(r)

Spec == Init /\ [][Next]_vars

-----------------------------------------------------------------------------
(* Type invariant.                                                           *)
ContPcs == {"off", "failure", "pause", "allow", "candidate", "begin", "track", "mark", "check",
            "hold", "ask", "launched", "clear", "token", "idle", "cleared"}
ReqPcs == {"new", "interrupt", "look", "recent", "cancel", "abort", "wait", "start", "done"}
Ends == {"none", "completed", "failed", "interrupted"}
TypeOK ==
  /\ goal = None \/ goal \in [id : GoalIds, status : {"active", "paused", "limited", "complete"},
                             spent : BOOLEAN]
  /\ created \in 0..MaxGoals /\ since \subseteq Turns
  /\ tracked \in Conts \cup {None} /\ lock \in Conts \cup {None}
  /\ turnGoal \in [Turns -> GoalIds \cup {None}]
  /\ active \in Turns \cup {None}
  /\ latest \in [turn : Turns \cup {None}, end : Ends]
  /\ queue \in Seq(Users)
  /\ exec \in [turn : Turns \cup {None}, pc : {"idle", "query", "finalize", "account", "close"},
               token : Turns \cup {None}, end : Ends]
  /\ entry \in [turn : Turns \cup {None}, token : Turns \cup {None}, handle : BOOLEAN]
  /\ cancelled \subseteq Turns /\ recorded \subseteq Turns
  /\ task \in [Turns -> {"off", "spawned", "sent", "aborted"}]
  /\ posts \subseteq [after : Turns, go : BOOLEAN]
  /\ cont \in [Conts -> [pc : ContPcs, goal : GoalIds \cup {None}, failed : Turns \cup {None},
                         told : BOOLEAN]]
  /\ req \in [Requests -> [pc : ReqPcs, goal : GoalIds \cup {None}, turn : Conts \cup {None},
                           start : BOOLEAN, stops : BOOLEAN]]
  /\ user \in [Users -> {"new", "enqueue", "queued", "begin", "register", "activate", "done"}]
  /\ stopped \subseteq GoalIds /\ taken \subseteq Conts /\ wraps \subseteq Conts
  /\ charged \subseteq Conts \X GoalIds

Launched(c) == task[c] # "off"

(* Once a client was told that its goal is paused, complete, cleared or      *)
(* replaced, no turn is launched for it any more, whatever had been reserved *)
(* or announced by then, until a client resumes it.                          *)
StopHolds ==
  [][\A c \in Conts : ~Launched(c) /\ Launched(c)' => cont[c].goal \notin stopped]_vars

(* What a continuation turn used is charged to the goal it was launched for, *)
(* or to none, although the goal may be replaced while the turn ends; unless *)
(* a goal request interrupted it, which forgets whose turn it was.           *)
ChargedToItsGoal ==
  \A x \in charged : x[1] \notin taken => x[2] = cont[x[1]].goal

(* When the accounts say that the budget is spent, one more turn is launched *)
(* to wrap up, and no other until a client sets the goal going again.        *)
OneWrapUp == Cardinality({c \in wraps : Launched(c)}) <= 1

(* What follows does not hold.  A turn that was announced runs.              *)
AnnouncedRuns == \A c \in Conts : At(c, "cleared") => ~cont[c].told

(* Whatever interrupted it, a turn is charged to its own goal.               *)
AlwaysChargedToItsGoal == \A x \in charged : x[2] = cont[x[1]].goal

(* A turn aborted before it ran leaves the session to others.                *)
AbortedLetsGo == \A c \in Conts : task[c] = "aborted" => active # c

(* After a turn that failed, the server waits for a client; to be checked    *)
(* with one request, which creates the goal.                                 *)
FailureSuspends ==
  [][\A c \in Conts : ~Launched(c) /\ Launched(c)' => latest.end # "failed"]_vars

(* A goal request that cancels a turn cancels a continuation.                *)
CancelsContinuations == cancelled \subseteq Conts

(* A user's turn can be interrupted while it runs, if it was not queued.     *)
UsersTurnsHaveTokens == [][\A u \in Users : entry.turn = u /\ entry.token = u
                             => (entry.turn' = u => entry.token' = u)]_vars
=============================================================================
