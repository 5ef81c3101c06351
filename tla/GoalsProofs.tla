---------------------------- MODULE GoalsProofs ----------------------------
(***************************************************************************)
(* That no turn is launched for a goal a client stopped, and that what a   *)
(* turn used is charged to the goal it was launched for, for any number of *)
(* requests, users' turns and runs of the continuation.                    *)
(***************************************************************************)
EXTENDS Goals, FiniteSetTheorems, TLAPS

GoalRecords == [id : GoalIds, status : {"active", "paused", "limited", "complete"}, spent : BOOLEAN]
ExecRecords == [turn : Turns \cup {None}, pc : {"idle", "query", "finalize", "account", "close"},
                token : Turns \cup {None}, end : Ends]
EntryRecords == [turn : Turns \cup {None}, token : Turns \cup {None}, handle : BOOLEAN]
Runs == [pc : ContPcs, goal : GoalIds \cup {None}, failed : Turns \cup {None}, told : BOOLEAN]
Handlers == [pc : ReqPcs, goal : GoalIds \cup {None}, turn : Conts \cup {None},
             start : BOOLEAN, stops : BOOLEAN]

GoalShape ==
  /\ goal \in GoalRecords \cup {None} /\ created \in 0..MaxGoals
  /\ tracked \in Conts \cup {None} /\ lock \in Conts \cup {None}
  /\ turnGoal \in [Turns -> GoalIds \cup {None}]
TurnShape ==
  /\ exec \in ExecRecords /\ entry \in EntryRecords
  /\ task \in [Turns -> {"off", "spawned", "sent", "aborted"}]
  /\ latest \in [turn : Turns \cup {None}, end : Ends]
RunShape == cont \in [Conts -> Runs]
HandlerShape == req \in [Requests -> Handlers]
Shape == GoalShape /\ TurnShape /\ RunShape /\ HandlerShape

(* The constants are told apart.                                             *)
LEMMA Apart == Conts \cap Users = {} /\ None \notin Turns /\ None \notin GoalIds /\ MaxGoals \in Nat
  BY GoalAssumption

(* What a step of one run does to the runs.                                  *)
LEMMA Goes ==
  ASSUME RunShape, NEW c \in Conts, NEW p \in ContPcs, Go(c, p)
  PROVE  /\ RunShape'
         /\ cont'[c].pc = p /\ cont'[c].goal = cont[c].goal
         /\ \A d \in Conts \ {c} : cont'[d] = cont[d]
  BY DEF RunShape, Runs, Go

LEMMA GivesUp ==
  ASSUME RunShape, NEW c \in Conts, GiveUp(c)
  PROVE  /\ RunShape'
         /\ cont'[c].pc = "off" /\ cont'[c].goal = None
         /\ \A d \in Conts \ {c} : cont'[d] = cont[d]
<1>1. [pc |-> "off", goal |-> None, failed |-> None, told |-> FALSE] \in Runs
  BY DEF Runs, ContPcs
<1> QED
  BY <1>1 DEF RunShape, GiveUp

LEMMA Begins ==
  ASSUME RunShape, Begin
  PROVE  \E c \in Conts : /\ RunShape'
                          /\ cont[c].pc = "off" /\ cont'[c].pc = "failure" /\ cont'[c].goal = cont[c].goal
                          /\ \A d \in Conts \ {c} : cont'[d] = cont[d]
<1>1. PICK c \in Conts : At(c, "off") /\ Go(c, "failure")
  BY DEF Begin
<1> QED
  BY <1>1, Goes DEF At, ContPcs

(* ... and a step of one handler to the handlers.                            *)
LEMMA Advances ==
  ASSUME HandlerShape, NEW r \in Requests, NEW p \in ReqPcs, Advance(r, p)
  PROVE  /\ HandlerShape'
         /\ req'[r].pc = p /\ req'[r].goal = req[r].goal /\ req'[r].stops = req[r].stops
         /\ \A x \in Requests \ {r} : req'[x] = req[x]
  BY DEF HandlerShape, Handlers, Advance

LEMMA Handles ==
  ASSUME HandlerShape, NEW r \in Requests, NEW p \in ReqPcs, NEW g \in GoalIds \cup {None},
         NEW s \in BOOLEAN, Handle(r, p, g, s)
  PROVE  /\ HandlerShape'
         /\ req'[r].pc = p /\ req'[r].goal = g /\ req'[r].stops
         /\ \A x \in Requests \ {r} : req'[x] = req[x]
<1>1. Call(p, g, s) \in Handlers /\ Call(p, g, s).pc = p /\ Call(p, g, s).goal = g /\ Call(p, g, s).stops
  BY DEF Call, Handlers
<1> QED
  BY <1>1 DEF HandlerShape, Handle

LEMMA Restarts ==
  ASSUME HandlerShape, NEW r \in Requests, goal \in GoalRecords, Restart(r)
  PROVE  /\ HandlerShape'
         /\ req'[r].pc = "start" /\ req'[r].goal = goal.id
         /\ \A x \in Requests \ {r} :
              /\ req'[x].pc = req[x].pc /\ req'[x].goal = req[x].goal
              /\ req'[x].stops => req[x].stops /\ req[x].goal # goal.id
<1>1. Call("start", goal.id, TRUE) \in Handlers
  BY DEF Call, Handlers, ReqPcs, GoalRecords
<1>2. Call("start", goal.id, TRUE).pc = "start" /\ Call("start", goal.id, TRUE).goal = goal.id
  BY DEF Call
<1>3. \A x \in Requests : [req[x] EXCEPT !.stops = FALSE] \in Handlers
  BY DEF HandlerShape, Handlers
<1>4. \A x \in Requests : LET y == [req[x] EXCEPT !.stops = FALSE]
                          IN  y.pc = req[x].pc /\ y.goal = req[x].goal /\ ~y.stops
  BY DEF HandlerShape, Handlers
<1> QED
  BY <1>1, <1>2, <1>3, <1>4 DEF HandlerShape, Restart

(* SetStatus keeps the goal's id.                                            *)
LEMMA Sets ==
  ASSUME goal \in GoalRecords, NEW s \in {"active", "paused", "limited", "complete"}, SetStatus(s)
  PROVE  goal' \in GoalRecords /\ goal'.id = goal.id /\ goal'.status = s
  BY DEF GoalRecords, SetStatus

LEMMA Charges ==
  ASSUME goal \in GoalRecords, Charge
  PROVE  goal' \in GoalRecords /\ goal'.id = goal.id /\ goal'.status = goal.status
  BY GoalAssumption DEF GoalRecords, Charge

(* The runs keep their shape, and so does the rest.                          *)
LEMMA StepRuns == Shape /\ [Next]_vars => RunShape'
<1> SUFFICES ASSUME Shape, [Next]_vars PROVE RunShape'
  OBVIOUS
<1>1. ASSUME NEW c \in Conts, ReadFailure(c) PROVE RunShape'
  <2>1. latest.turn \in Turns \cup {None}
    BY DEF Shape, TurnShape
  <2> QED
    BY <1>1, <2>1 DEF ReadFailure, At, ContPcs, Shape, RunShape, Runs
<1>2. ASSUME NEW c \in Conts, PauseAfterFailure(c) PROVE RunShape'
  BY <1>2, Goes, GivesUp, Begins
     DEF PauseAfterFailure, At, ContPcs, Shape
<1>3. ASSUME NEW c \in Conts, Allow(c) PROVE RunShape'
  BY <1>3, Goes, GivesUp, Begins
     DEF Allow, At, ContPcs, Shape
<1>4. ASSUME NEW c \in Conts, Candidate(c) PROVE RunShape'
  <2>1. CASE GoalIs({"active"})
    <3>1. goal.id \in GoalIds
      BY <2>1 DEF GoalIs, Shape, GoalShape, GoalRecords
    <3> QED
      BY <1>4, <2>1, <3>1 DEF Candidate, At, ContPcs, Shape, RunShape, Runs
  <2>2. CASE ~GoalIs({"active"})
    BY <1>4, <2>2, GivesUp DEF Candidate, Shape
  <2> QED
    BY <2>1, <2>2
<1>5. ASSUME NEW c \in Conts, TryBegin(c) PROVE RunShape'
  BY <1>5, Goes, GivesUp, Begins
     DEF TryBegin, At, ContPcs, Shape
<1>6. ASSUME NEW c \in Conts, Track(c) PROVE RunShape'
  BY <1>6, Goes, GivesUp, Begins
     DEF Track, At, ContPcs, Shape
<1>7. ASSUME NEW c \in Conts, Mark(c) PROVE RunShape'
  BY <1>7, Goes, GivesUp, Begins
     DEF Mark, At, ContPcs, Shape
<1>8. ASSUME NEW c \in Conts, Check(c) PROVE RunShape'
  BY <1>8, Goes, GivesUp, Begins
     DEF Check, At, ContPcs, Shape, RunShape, Runs
<1>9. ASSUME NEW c \in Conts, Hold(c) PROVE RunShape'
  BY <1>9, Goes, GivesUp, Begins
     DEF Hold, At, ContPcs, Shape
<1>10. ASSUME NEW c \in Conts, Launch(c) PROVE RunShape'
  BY <1>10, Goes, GivesUp, Begins
     DEF Launch, At, Entry, ContPcs, Shape
<1>11. ASSUME NEW c \in Conts, ClearTracked(c) PROVE RunShape'
  BY <1>11, Goes, GivesUp, Begins
     DEF ClearTracked, At, ContPcs, Shape
<1>12. ASSUME NEW c \in Conts, ClearToken(c) PROVE RunShape'
  BY <1>12, Goes, GivesUp, Begins
     DEF ClearToken, At, ContPcs, Shape
<1>13. ASSUME NEW c \in Conts, ClearActive(c) PROVE RunShape'
  BY <1>13, Goes, GivesUp, Begins
     DEF ClearActive, At, ContPcs, Shape
<1>14. ASSUME NEW p \in posts, AfterTurn(p) PROVE RunShape'
  BY <1>14, Goes, GivesUp, Begins
     DEF AfterTurn, At, ContPcs, Shape, RunShape
<1>15. ASSUME NEW r \in Requests, Start(r) PROVE RunShape'
  BY <1>15, Goes, GivesUp, Begins
     DEF Start, Doing, At, ContPcs, Shape, RunShape
<1>16. CASE (\E t \in Turns : Execute(t)) \/ UpdateGoal \/ QueryEnds \/ Finalize \/ Account \/ CloseTurn \/
           (\E u \in Users : ReadReservation(u)) \/ (\E u \in Users : Enqueue(u)) \/
           (\E u \in Users : SetActive(u)) \/ (\E u \in Users : RegisterAndSpawn(u)) \/
           (\E u \in Users : ActivateQueued(u)) \/ UNCHANGED vars
  BY <1>16
     DEF Execute, UpdateGoal, QueryEnds, Finalize, Account, CloseTurn, ReadReservation, Enqueue,
         SetActive, RegisterAndSpawn, ActivateQueued, Shape, RunShape, vars, goalVars,
         trackVars, actorVars, runVars, history
<1>17. CASE (\E r \in Requests : Create(r)) \/ (\E r \in Requests : Resume(r)) \/
           (\E r \in Requests : Pause(r)) \/ (\E r \in Requests : Complete(r)) \/
           (\E r \in Requests : Clear(r)) \/ (\E r \in Requests : Take(r)) \/
           (\E r \in Requests : Look(r)) \/ (\E r \in Requests : LookRecent(r)) \/
           (\E r \in Requests : Cancel(r)) \/ (\E r \in Requests : Abort(r)) \/
           (\E r \in Requests : Wait(r))
  BY <1>17
     DEF Create, Resume, Pause, Complete, Clear, Take, Look, LookRecent, Cancel, Abort, Wait,
         Shape, RunShape, vars, goalVars, trackVars, actorVars, runVars, history
<1> QED
  BY <1>1, <1>2, <1>3, <1>4, <1>5, <1>6, <1>7, <1>8, <1>9, <1>10, <1>11, <1>12, <1>13, <1>14,
     <1>15, <1>16, <1>17
     DEF Next, Continuation, User, Change, Interrupt

LEMMA StepHandlers == Shape /\ [Next]_vars => HandlerShape'
<1> SUFFICES ASSUME Shape, [Next]_vars PROVE HandlerShape'
  OBVIOUS
<1>1. ASSUME NEW r \in Requests, Create(r) PROVE HandlerShape'
  BY <1>1, GoalAssumption, Advances, Handles, Restarts
     DEF Create, Doing, GoalId, ReqPcs, Shape, GoalShape, GoalRecords, GoalIds
<1>2. ASSUME NEW r \in Requests, Resume(r) PROVE HandlerShape'
  BY <1>2, GoalAssumption, Advances, Handles, Restarts
     DEF Resume, Doing, ReqPcs, Shape, GoalShape, GoalRecords, GoalIds
<1>3. ASSUME NEW r \in Requests, Pause(r) PROVE HandlerShape'
  BY <1>3, GoalAssumption, Advances, Handles, Restarts
     DEF Pause, Doing, ReqPcs, Shape, GoalShape, GoalRecords, GoalIds
<1>4. ASSUME NEW r \in Requests, Complete(r) PROVE HandlerShape'
  BY <1>4, GoalAssumption, Advances, Handles, Restarts
     DEF Complete, Doing, ReqPcs, Shape, GoalShape, GoalRecords, GoalIds
<1>5. ASSUME NEW r \in Requests, Clear(r) PROVE HandlerShape'
  BY <1>5, GoalAssumption, Advances, Handles, Restarts
     DEF Clear, Doing, ReqPcs, Shape, GoalShape, GoalRecords, GoalIds
<1>6. ASSUME NEW r \in Requests, Take(r) PROVE HandlerShape'
  BY <1>6, GoalAssumption, Advances, Handles, Restarts
     DEF Take, Doing, Interrupted, Stopped, ReqPcs, Shape, GoalShape, GoalRecords, GoalIds,
         HandlerShape, Handlers
<1>7. ASSUME NEW r \in Requests, Look(r) PROVE HandlerShape'
  BY <1>7, GoalAssumption, Advances, Handles, Restarts
     DEF Look, Doing, Interrupted, Stopped, ReqPcs, Shape, GoalShape, GoalRecords, GoalIds
<1>8. ASSUME NEW r \in Requests, LookRecent(r) PROVE HandlerShape'
  BY <1>8, GoalAssumption, Advances, Handles, Restarts
     DEF LookRecent, Doing, Interrupted, Stopped, ReqPcs, Shape, GoalShape, GoalRecords, GoalIds
<1>9. ASSUME NEW r \in Requests, Cancel(r) PROVE HandlerShape'
  BY <1>9, GoalAssumption, Advances, Handles, Restarts
     DEF Cancel, Doing, ReqPcs, Shape, GoalShape, GoalRecords, GoalIds
<1>10. ASSUME NEW r \in Requests, Abort(r) PROVE HandlerShape'
  BY <1>10, GoalAssumption, Advances, Handles, Restarts
     DEF Abort, Doing, ReqPcs, Shape, GoalShape, GoalRecords, GoalIds
<1>11. ASSUME NEW r \in Requests, Wait(r) PROVE HandlerShape'
  BY <1>11, GoalAssumption, Advances, Handles, Restarts
     DEF Wait, Doing, Interrupted, Stopped, ReqPcs, Shape, GoalShape, GoalRecords, GoalIds
<1>12. ASSUME NEW r \in Requests, Start(r) PROVE HandlerShape'
  BY <1>12, GoalAssumption, Advances, Handles, Restarts
     DEF Start, Doing, At, ReqPcs, Shape, GoalShape, GoalRecords, GoalIds
<1>13. CASE (\E c \in Conts : ReadFailure(c)) \/ (\E c \in Conts : PauseAfterFailure(c)) \/
           (\E c \in Conts : Allow(c)) \/ (\E c \in Conts : Candidate(c)) \/
           (\E c \in Conts : TryBegin(c)) \/ (\E c \in Conts : Track(c)) \/
           (\E c \in Conts : Mark(c)) \/ (\E c \in Conts : Check(c)) \/ (\E c \in Conts : Hold(c)) \/
           (\E c \in Conts : Launch(c)) \/ (\E c \in Conts : ClearTracked(c)) \/
           (\E c \in Conts : ClearToken(c)) \/ (\E c \in Conts : ClearActive(c))
  BY <1>13
     DEF ReadFailure, PauseAfterFailure, Allow, Candidate, TryBegin, Track, Mark, Check, Hold,
         Launch, ClearTracked, ClearToken, ClearActive, Shape, HandlerShape, vars, goalVars,
         trackVars, actorVars, runVars, history
<1>14. CASE (\E t \in Turns : Execute(t)) \/ UpdateGoal \/ QueryEnds \/ Finalize \/ Account \/ CloseTurn \/
           (\E p \in posts : AfterTurn(p)) \/ (\E u \in Users : ReadReservation(u)) \/
           (\E u \in Users : Enqueue(u)) \/ (\E u \in Users : SetActive(u)) \/
           (\E u \in Users : RegisterAndSpawn(u)) \/ (\E u \in Users : ActivateQueued(u)) \/
           UNCHANGED vars
  BY <1>14
     DEF Execute, UpdateGoal, QueryEnds, Finalize, Account, CloseTurn, AfterTurn,
         ReadReservation, Enqueue, SetActive, RegisterAndSpawn, ActivateQueued, Shape,
         HandlerShape, vars, goalVars, trackVars, actorVars, runVars, history
<1> QED
  BY <1>1, <1>2, <1>3, <1>4, <1>5, <1>6, <1>7, <1>8, <1>9, <1>10, <1>11, <1>12, <1>13, <1>14
     DEF Next, Continuation, User, Change, Interrupt

LEMMA StepGoal == Shape /\ [Next]_vars => GoalShape'
<1> SUFFICES ASSUME Shape, [Next]_vars PROVE GoalShape'
  OBVIOUS
<1>1. ASSUME NEW c \in Conts, PauseAfterFailure(c) PROVE GoalShape'
  BY <1>1, GoalAssumption, Sets, Charges
     DEF PauseAfterFailure, At, Shape, GoalShape, vars, goalVars, trackVars, actorVars, runVars,
         history, GoalIs
<1>2. ASSUME NEW c \in Conts, Track(c) PROVE GoalShape'
  BY <1>2, GoalAssumption, Sets, Charges
     DEF Track, At, Shape, GoalShape, vars, goalVars, trackVars, actorVars, runVars, history,
         RunShape, Runs, Turns
<1>3. ASSUME NEW c \in Conts, Mark(c) PROVE GoalShape'
  BY <1>3, GoalAssumption, Sets, Charges
     DEF Mark, At, Shape, GoalShape, vars, goalVars, trackVars, actorVars, runVars, history,
         GoalIs
<1>4. ASSUME NEW c \in Conts, Hold(c) PROVE GoalShape'
  BY <1>4, GoalAssumption, Sets, Charges
     DEF Hold, At, Shape, GoalShape, vars, goalVars, trackVars, actorVars, runVars, history
<1>5. ASSUME NEW c \in Conts, Launch(c) PROVE GoalShape'
  BY <1>5, GoalAssumption, Sets, Charges
     DEF Launch, At, Entry, Shape, GoalShape, vars, goalVars, trackVars, actorVars, runVars,
         history
<1>6. ASSUME NEW c \in Conts, ClearTracked(c) PROVE GoalShape'
  BY <1>6, GoalAssumption, Sets, Charges
     DEF ClearTracked, At, Shape, GoalShape, vars, goalVars, trackVars, actorVars, runVars,
         history
<1>7. ASSUME NEW c \in Conts, ClearActive(c) PROVE GoalShape'
  BY <1>7, GoalAssumption, Sets, Charges
     DEF ClearActive, At, Shape, GoalShape, vars, goalVars, trackVars, actorVars, runVars,
         history
<1>8. CASE UpdateGoal
  BY <1>8, GoalAssumption, Sets, Charges
     DEF UpdateGoal, Shape, GoalShape, vars, goalVars, trackVars, actorVars, runVars, history
<1>9. CASE Account
  BY <1>9, GoalAssumption, Sets, Charges
     DEF Account, Shape, GoalShape, vars, goalVars, trackVars, actorVars, runVars, history
<1>10. ASSUME NEW r \in Requests, Create(r) PROVE GoalShape'
  BY <1>10, GoalAssumption, Sets, Charges
     DEF Create, Doing, GoalId, Shape, GoalShape, vars, goalVars, trackVars, actorVars, runVars,
         history, GoalRecords, GoalIds
<1>11. ASSUME NEW r \in Requests, Resume(r) PROVE GoalShape'
  BY <1>11, GoalAssumption, Sets, Charges
     DEF Resume, Doing, Shape, GoalShape, vars, goalVars, trackVars, actorVars, runVars, history
<1>12. ASSUME NEW r \in Requests, Pause(r) PROVE GoalShape'
  BY <1>12, GoalAssumption, Sets, Charges
     DEF Pause, Doing, Shape, GoalShape, vars, goalVars, trackVars, actorVars, runVars, history
<1>13. ASSUME NEW r \in Requests, Complete(r) PROVE GoalShape'
  BY <1>13, GoalAssumption, Sets, Charges
     DEF Complete, Doing, Shape, GoalShape, vars, goalVars, trackVars, actorVars, runVars,
         history
<1>14. ASSUME NEW r \in Requests, Clear(r) PROVE GoalShape'
  BY <1>14, GoalAssumption, Sets, Charges
     DEF Clear, Doing, Shape, GoalShape, vars, goalVars, trackVars, actorVars, runVars, history
<1>15. ASSUME NEW r \in Requests, Take(r) PROVE GoalShape'
  BY <1>15, GoalAssumption, Sets, Charges
     DEF Take, Doing, Interrupted, Stopped, Shape, GoalShape, vars, goalVars, trackVars,
         actorVars, runVars, history
<1>16. CASE (\E c \in Conts : ReadFailure(c)) \/ (\E c \in Conts : Allow(c)) \/
           (\E c \in Conts : Candidate(c)) \/ (\E c \in Conts : TryBegin(c)) \/
           (\E c \in Conts : Check(c)) \/ (\E c \in Conts : ClearToken(c))
  BY <1>16
     DEF ReadFailure, Allow, Candidate, TryBegin, Check, ClearToken, Shape, GoalShape, vars,
         goalVars, trackVars, actorVars, runVars, history
<1>17. CASE (\E t \in Turns : Execute(t)) \/ QueryEnds \/ Finalize \/ CloseTurn \/
           (\E p \in posts : AfterTurn(p)) \/ (\E u \in Users : ReadReservation(u)) \/
           (\E u \in Users : Enqueue(u)) \/ (\E u \in Users : SetActive(u)) \/
           (\E u \in Users : RegisterAndSpawn(u)) \/ (\E u \in Users : ActivateQueued(u)) \/
           UNCHANGED vars
  BY <1>17
     DEF Execute, QueryEnds, Finalize, CloseTurn, AfterTurn, ReadReservation, Enqueue,
         SetActive, RegisterAndSpawn, ActivateQueued, Shape, GoalShape, vars, goalVars,
         trackVars, actorVars, runVars, history
<1>18. CASE (\E r \in Requests : Look(r)) \/ (\E r \in Requests : LookRecent(r)) \/
           (\E r \in Requests : Cancel(r)) \/ (\E r \in Requests : Abort(r)) \/
           (\E r \in Requests : Wait(r)) \/ (\E r \in Requests : Start(r))
  BY <1>18
     DEF Look, LookRecent, Cancel, Abort, Wait, Start, Shape, GoalShape, vars, goalVars,
         trackVars, actorVars, runVars, history
<1> QED
  BY <1>1, <1>2, <1>3, <1>4, <1>5, <1>6, <1>7, <1>8, <1>9, <1>10, <1>11, <1>12, <1>13, <1>14,
     <1>15, <1>16, <1>17, <1>18
     DEF Next, Continuation, User, Change, Interrupt

LEMMA StepTurns == Shape /\ [Next]_vars => TurnShape'
<1> SUFFICES ASSUME Shape, [Next]_vars PROVE TurnShape'
  OBVIOUS
<1>1. ASSUME NEW c \in Conts, Launch(c) PROVE TurnShape'
  <2>1. Entry(c) \in EntryRecords
    BY DEF Entry, EntryRecords, Turns
  <2> QED
    BY <1>1, <2>1 DEF Launch, Shape, TurnShape, Turns, actorVars
<1>2. ASSUME NEW c \in Conts, ClearToken(c) PROVE TurnShape'
  BY <1>2, GoalAssumption
     DEF ClearToken, At, Shape, TurnShape, ExecRecords, EntryRecords, Turns, vars, goalVars,
         trackVars, actorVars, runVars, history
<1>3. ASSUME NEW t \in Turns, Execute(t) PROVE TurnShape'
  <2>1. entry.token \in Turns \cup {None}
    BY DEF Shape, TurnShape, EntryRecords
  <2>2. exec' \in ExecRecords
    BY <1>3, <2>1 DEF Execute, ExecRecords, Ends
  <2> QED
    BY <1>3, <2>2 DEF Execute, Shape, TurnShape
<1>4. CASE QueryEnds
  <2>1. PICK end \in {"completed", "failed", "interrupted"} : exec' = [exec EXCEPT !.pc = "finalize", !.end = end]
    BY <1>4 DEF QueryEnds
  <2>2. exec' \in ExecRecords
    BY <2>1 DEF Shape, TurnShape, ExecRecords, Ends
  <2> QED
    BY <1>4, <2>2 DEF QueryEnds, Shape, TurnShape, runVars
<1>5. CASE Finalize
  BY <1>5, GoalAssumption
     DEF Finalize, NoEntry, Shape, TurnShape, ExecRecords, EntryRecords, Turns, vars, goalVars,
         trackVars, actorVars, runVars, history, Ends
<1>6. CASE Account
  BY <1>6, GoalAssumption
     DEF Account, Shape, TurnShape, ExecRecords, EntryRecords, Turns, vars, goalVars, trackVars,
         actorVars, runVars, history
<1>7. CASE CloseTurn
  BY <1>7, GoalAssumption
     DEF CloseTurn, Idle, Shape, TurnShape, ExecRecords, EntryRecords, Turns, vars, goalVars,
         trackVars, actorVars, runVars, history, Ends
<1>8. ASSUME NEW u \in Users, RegisterAndSpawn(u) PROVE TurnShape'
  BY <1>8, GoalAssumption
     DEF RegisterAndSpawn, Entry, Shape, TurnShape, ExecRecords, EntryRecords, Turns, vars,
         goalVars, trackVars, actorVars, runVars, history
<1>9. ASSUME NEW u \in Users, ActivateQueued(u) PROVE TurnShape'
  BY <1>9, GoalAssumption
     DEF ActivateQueued, Shape, TurnShape, ExecRecords, EntryRecords, Turns, vars, goalVars,
         trackVars, actorVars, runVars, history
<1>10. ASSUME NEW r \in Requests, Abort(r) PROVE TurnShape'
  BY <1>10, GoalAssumption
     DEF Abort, Doing, Shape, TurnShape, ExecRecords, EntryRecords, Turns, vars, goalVars,
         trackVars, actorVars, runVars, history
<1>11. CASE (\E c \in Conts : ReadFailure(c)) \/ (\E c \in Conts : PauseAfterFailure(c)) \/
           (\E c \in Conts : Allow(c)) \/ (\E c \in Conts : Candidate(c)) \/
           (\E c \in Conts : TryBegin(c)) \/ (\E c \in Conts : Track(c)) \/
           (\E c \in Conts : Mark(c)) \/ (\E c \in Conts : Check(c)) \/ (\E c \in Conts : Hold(c)) \/
           (\E c \in Conts : ClearTracked(c)) \/ (\E c \in Conts : ClearActive(c))
  BY <1>11
     DEF ReadFailure, PauseAfterFailure, Allow, Candidate, TryBegin, Track, Mark, Check, Hold,
         ClearTracked, ClearActive, Shape, TurnShape, vars, goalVars, trackVars, actorVars,
         runVars, history
<1>12. CASE UpdateGoal \/ (\E p \in posts : AfterTurn(p)) \/ (\E u \in Users : ReadReservation(u)) \/
           (\E u \in Users : Enqueue(u)) \/ (\E u \in Users : SetActive(u)) \/ UNCHANGED vars
  BY <1>12
     DEF UpdateGoal, AfterTurn, ReadReservation, Enqueue, SetActive, Shape, TurnShape, vars,
         goalVars, trackVars, actorVars, runVars, history
<1>13. CASE (\E r \in Requests : Create(r)) \/ (\E r \in Requests : Resume(r)) \/
           (\E r \in Requests : Pause(r)) \/ (\E r \in Requests : Complete(r)) \/
           (\E r \in Requests : Clear(r)) \/ (\E r \in Requests : Take(r)) \/
           (\E r \in Requests : Look(r)) \/ (\E r \in Requests : LookRecent(r)) \/
           (\E r \in Requests : Cancel(r)) \/ (\E r \in Requests : Wait(r)) \/
           (\E r \in Requests : Start(r))
  BY <1>13
     DEF Create, Resume, Pause, Complete, Clear, Take, Look, LookRecent, Cancel, Wait, Start,
         Shape, TurnShape, vars, goalVars, trackVars, actorVars, runVars, history
<1> QED
  BY <1>1, <1>2, <1>3, <1>4, <1>5, <1>6, <1>7, <1>8, <1>9, <1>10, <1>11, <1>12, <1>13
     DEF Next, Continuation, User, Change, Interrupt

(***************************************************************************)
(* What holds back a launch.                                               *)
(***************************************************************************)
(* The mutex is held across the last look at the reservation.                *)
Mutex ==
  /\ lock # None => At(lock, "ask") /\ tracked = lock
  /\ \A c \in Conts : At(c, "ask") => lock = c

(* Nothing can start for a goal: it is not active, and of the turns reserved *)
(* for it none is the one that is tracked.                                   *)
NotActive(g) == goal # None /\ goal.id = g => goal.status # "active"
Dead(g) ==
  /\ NotActive(g)
  /\ \A c \in Conts : cont[c].goal = g /\ cont[c].pc \in {"check", "hold", "ask"} => tracked # c

Known(g) == g \in 1..created
Stops ==
  /\ goal # None => Known(goal.id)
  /\ \A g \in stopped : Known(g) /\ Dead(g)
  /\ \A r \in Requests : req[r].pc \in {"interrupt", "look", "recent", "cancel", "abort", "wait"}
       => /\ Known(req[r].goal)
          /\ req[r].stops => IF Doing(r, "interrupt") THEN NotActive(req[r].goal) ELSE Dead(req[r].goal)

LEMMA StepMutex == Shape /\ Mutex /\ [Next]_vars => Mutex'
<1> SUFFICES ASSUME Shape /\ Mutex, [Next]_vars PROVE Mutex'
  OBVIOUS
<1>1. ASSUME NEW c \in Conts, ReadFailure(c) PROVE Mutex'
  BY <1>1, Apart, Goes, GivesUp, Begins
     DEF ReadFailure, At, Shape, RunShape, GoalShape, ContPcs, Mutex, vars, goalVars, trackVars,
         actorVars, runVars, history, Runs
<1>2. ASSUME NEW c \in Conts, PauseAfterFailure(c) PROVE Mutex'
  BY <1>2, Apart, Goes, GivesUp, Begins
     DEF PauseAfterFailure, At, Shape, RunShape, GoalShape, ContPcs, Mutex, vars, goalVars,
         trackVars, actorVars, runVars, history
<1>3. ASSUME NEW c \in Conts, Allow(c) PROVE Mutex'
  BY <1>3, Apart, Goes, GivesUp, Begins
     DEF Allow, At, Shape, RunShape, GoalShape, ContPcs, Mutex, vars, goalVars, trackVars,
         actorVars, runVars, history
<1>4. ASSUME NEW c \in Conts, Candidate(c) PROVE Mutex'
  BY <1>4, Apart, Goes, GivesUp, Begins
     DEF Candidate, At, Shape, RunShape, GoalShape, ContPcs, Mutex, vars, goalVars, trackVars,
         actorVars, runVars, history, Runs
<1>5. ASSUME NEW c \in Conts, TryBegin(c) PROVE Mutex'
  BY <1>5, Apart, Goes, GivesUp, Begins
     DEF TryBegin, At, Shape, RunShape, GoalShape, ContPcs, Mutex, vars, goalVars, trackVars,
         actorVars, runVars, history
<1>6. ASSUME NEW c \in Conts, Track(c) PROVE Mutex'
  BY <1>6, Apart, Goes, GivesUp, Begins
     DEF Track, At, Shape, RunShape, GoalShape, ContPcs, Mutex, vars, goalVars, trackVars,
         actorVars, runVars, history, Unlocked
<1>7. ASSUME NEW c \in Conts, Mark(c) PROVE Mutex'
  BY <1>7, Apart, Goes, GivesUp, Begins
     DEF Mark, At, Shape, RunShape, GoalShape, ContPcs, Mutex, vars, goalVars, trackVars,
         actorVars, runVars, history
<1>8. ASSUME NEW c \in Conts, Check(c) PROVE Mutex'
  BY <1>8, Apart, Goes, GivesUp, Begins
     DEF Check, At, Shape, RunShape, GoalShape, ContPcs, Mutex, vars, goalVars, trackVars,
         actorVars, runVars, history, Runs
<1>9. ASSUME NEW c \in Conts, Hold(c) PROVE Mutex'
  BY <1>9, Apart, Goes, GivesUp, Begins
     DEF Hold, At, Shape, RunShape, GoalShape, ContPcs, Mutex, vars, goalVars, trackVars,
         actorVars, runVars, history, Unlocked, Turns
<1>10. ASSUME NEW c \in Conts, Launch(c) PROVE Mutex'
  BY <1>10, Apart, Goes, GivesUp, Begins
     DEF Launch, At, Entry, Shape, RunShape, GoalShape, ContPcs, Mutex, vars, goalVars,
         trackVars, actorVars, runVars, history
<1>11. ASSUME NEW c \in Conts, ClearTracked(c) PROVE Mutex'
  BY <1>11, Apart, Goes, GivesUp, Begins
     DEF ClearTracked, At, Shape, RunShape, GoalShape, ContPcs, Mutex, vars, goalVars,
         trackVars, actorVars, runVars, history, Unlocked
<1>12. ASSUME NEW c \in Conts, ClearToken(c) PROVE Mutex'
  BY <1>12, Apart, Goes, GivesUp, Begins
     DEF ClearToken, At, Shape, RunShape, GoalShape, ContPcs, Mutex, vars, goalVars, trackVars,
         actorVars, runVars, history
<1>13. ASSUME NEW c \in Conts, ClearActive(c) PROVE Mutex'
  BY <1>13, Apart, Goes, GivesUp, Begins
     DEF ClearActive, At, Shape, RunShape, GoalShape, ContPcs, Mutex, vars, goalVars, trackVars,
         actorVars, runVars, history
<1>14. ASSUME NEW p \in posts, AfterTurn(p) PROVE Mutex'
  BY <1>14, Apart, Goes, GivesUp, Begins
     DEF AfterTurn, At, Shape, RunShape, GoalShape, ContPcs, Mutex, vars, goalVars, trackVars,
         actorVars, runVars, history
<1>15. ASSUME NEW r \in Requests, Take(r) PROVE Mutex'
  BY <1>15, Apart, Goes, GivesUp, Begins
     DEF Take, Doing, Interrupted, Stopped, Shape, RunShape, GoalShape, ContPcs, Mutex, vars,
         goalVars, trackVars, actorVars, runVars, history, Unlocked, At, Turns
<1>16. ASSUME NEW r \in Requests, Start(r) PROVE Mutex'
  BY <1>16, Apart, Goes, GivesUp, Begins
     DEF Start, Doing, At, Shape, RunShape, GoalShape, ContPcs, Mutex, vars, goalVars,
         trackVars, actorVars, runVars, history
<1>17. CASE (\E t \in Turns : Execute(t)) \/ UpdateGoal \/ QueryEnds \/ Finalize \/ Account \/ CloseTurn \/
           (\E u \in Users : ReadReservation(u)) \/ (\E u \in Users : Enqueue(u)) \/
           (\E u \in Users : SetActive(u)) \/ (\E u \in Users : RegisterAndSpawn(u)) \/
           (\E u \in Users : ActivateQueued(u)) \/ UNCHANGED vars
  BY <1>17
     DEF Execute, UpdateGoal, QueryEnds, Finalize, Account, CloseTurn, ReadReservation, Enqueue,
         SetActive, RegisterAndSpawn, ActivateQueued, Mutex, At, vars, goalVars, trackVars,
         actorVars, runVars, history
<1>18. CASE (\E r \in Requests : Create(r)) \/ (\E r \in Requests : Resume(r)) \/
           (\E r \in Requests : Pause(r)) \/ (\E r \in Requests : Complete(r)) \/
           (\E r \in Requests : Clear(r)) \/ (\E r \in Requests : Look(r)) \/
           (\E r \in Requests : LookRecent(r)) \/ (\E r \in Requests : Cancel(r)) \/
           (\E r \in Requests : Abort(r)) \/ (\E r \in Requests : Wait(r))
  BY <1>18
     DEF Create, Resume, Pause, Complete, Clear, Look, LookRecent, Cancel, Abort, Wait, Mutex,
         At, vars, goalVars, trackVars, actorVars, runVars, history
<1> QED
  BY <1>1, <1>2, <1>3, <1>4, <1>5, <1>6, <1>7, <1>8, <1>9, <1>10, <1>11, <1>12, <1>13, <1>14,
     <1>15, <1>16, <1>17, <1>18
     DEF Next, Continuation, User, Change, Interrupt

(* With nothing tracked, a goal that is not active is dead; and a dead one   *)
(* stays so while the runs and what is tracked stay as they are.             *)
LEMMA Untracked == ASSUME NEW g, NotActive(g), tracked = None PROVE Dead(g)
  BY Apart DEF Dead, Turns

LEMMA StaysDead ==
  ASSUME NEW g, Dead(g), NotActive(g)', UNCHANGED <<cont, tracked>> PROVE Dead(g)'
  BY DEF Dead

(* A request that halts the goal and goes on to interrupt its turn.          *)
LEMMA Halts ==
  ASSUME Shape, Stops, NEW r \in Requests, NEW p \in {"interrupt", "done"},
         goal # None, Handle(r, p, goal.id, FALSE),
         goal' = None \/ (goal'.id = goal.id /\ goal'.status # "active"),
         UNCHANGED <<created, stopped, cont, tracked>>
  PROVE  Stops'
<1> DEFINE Bound(x) == req[x].pc \in {"interrupt", "look", "recent", "cancel", "abort", "wait"}
<1>1. goal.id \in GoalIds /\ Known(goal.id) /\ p \in ReqPcs
  BY DEF Shape, GoalShape, GoalRecords, Stops, ReqPcs
<1>2. /\ req'[r].pc = p /\ req'[r].goal = goal.id
      /\ \A x \in Requests \ {r} : req'[x] = req[x]
  BY <1>1, Handles DEF Shape
<1>3. \A g : NotActive(g) => NotActive(g)'
  BY DEF NotActive
<1>4. \A g : (Dead(g) => Dead(g)') /\ (Known(g) => Known(g)')
  BY <1>3, StaysDead DEF Dead, Known
<1>5. \A g : g = goal.id => NotActive(g)'
  BY DEF NotActive
<1>6. goal' # None => goal'.id \in 1..created'
  BY <1>1 DEF Known
<1>7. \A g \in stopped' : Known(g)' /\ Dead(g)'
  BY <1>4 DEF Stops
<1>8. ASSUME NEW x \in Requests, Bound(x)'
      PROVE  /\ Known(req[x].goal)'
             /\ req'[x].stops => IF Doing(x, "interrupt")' THEN NotActive(req[x].goal)' ELSE Dead(req[x].goal)'
  <2>1. CASE x = r
    BY <1>1, <1>2, <1>4, <1>5, <1>8, <2>1 DEF Doing
  <2>2. CASE x # r
    BY <1>2, <1>3, <1>4, <1>8, <2>2 DEF Doing, Stops
  <2> QED
    BY <2>1, <2>2
<1> QED
  BY <1>6, <1>7, <1>8 DEF Stops, Known

LEMMA StepStops == Shape /\ Mutex /\ Stops /\ [Next]_vars => Stops'
<1> SUFFICES ASSUME Shape /\ Mutex /\ Stops, [Next]_vars PROVE Stops'
  OBVIOUS
<1>1. ASSUME NEW c \in Conts, ReadFailure(c) PROVE Stops'
  BY <1>1, Apart, Goes, GivesUp, Begins
     DEF ReadFailure, At, Shape, RunShape, GoalShape, ContPcs, Stops, Dead, NotActive, Known,
         Doing, vars, goalVars, trackVars, actorVars, runVars, history, Runs
<1>2. ASSUME NEW c \in Conts, PauseAfterFailure(c) PROVE Stops'
  BY <1>2, Apart, Goes, GivesUp, Begins, Sets
     DEF PauseAfterFailure, At, Shape, RunShape, GoalShape, ContPcs, Stops, Dead, NotActive,
         Known, Doing, vars, goalVars, trackVars, actorVars, runVars, history, GoalIs
<1>3. ASSUME NEW c \in Conts, Allow(c) PROVE Stops'
  BY <1>3, Apart, Goes, GivesUp, Begins
     DEF Allow, At, Shape, RunShape, GoalShape, ContPcs, Stops, Dead, NotActive, Known, Doing,
         vars, goalVars, trackVars, actorVars, runVars, history
<1>4. ASSUME NEW c \in Conts, Candidate(c) PROVE Stops'
  BY <1>4, Apart, Goes, GivesUp, Begins
     DEF Candidate, At, Shape, RunShape, GoalShape, ContPcs, Stops, Dead, NotActive, Known,
         Doing, vars, goalVars, trackVars, actorVars, runVars, history, Runs, GoalIs,
         GoalRecords
<1>5. ASSUME NEW c \in Conts, TryBegin(c) PROVE Stops'
  BY <1>5, Apart, Goes, GivesUp, Begins
     DEF TryBegin, At, Shape, RunShape, GoalShape, ContPcs, Stops, Dead, NotActive, Known,
         Doing, vars, goalVars, trackVars, actorVars, runVars, history
<1>6. ASSUME NEW c \in Conts, Track(c) PROVE Stops'
  BY <1>6, Apart, Goes, GivesUp, Begins
     DEF Track, At, Shape, RunShape, GoalShape, ContPcs, Stops, Dead, NotActive, Known, Doing,
         vars, goalVars, trackVars, actorVars, runVars, history, Turns
<1>7. ASSUME NEW c \in Conts, Mark(c) PROVE Stops'
  BY <1>7, Apart, Goes, GivesUp, Begins, Sets
     DEF Mark, At, Shape, RunShape, GoalShape, ContPcs, Stops, Dead, NotActive, Known, Doing,
         vars, goalVars, trackVars, actorVars, runVars, history, GoalIs
<1>8. ASSUME NEW c \in Conts, Check(c) PROVE Stops'
  BY <1>8, Apart, Goes, GivesUp, Begins
     DEF Check, At, Shape, RunShape, GoalShape, ContPcs, Stops, Dead, NotActive, Known, Doing,
         vars, goalVars, trackVars, actorVars, runVars, history, Runs
<1>9. ASSUME NEW c \in Conts, Hold(c) PROVE Stops'
  BY <1>9, Apart, Goes, GivesUp, Begins
     DEF Hold, At, Shape, RunShape, GoalShape, ContPcs, Stops, Dead, NotActive, Known, Doing,
         vars, goalVars, trackVars, actorVars, runVars, history
<1>10. ASSUME NEW c \in Conts, Launch(c) PROVE Stops'
  BY <1>10, Apart, Goes, GivesUp, Begins
     DEF Launch, At, Entry, Shape, RunShape, GoalShape, ContPcs, Stops, Dead, NotActive, Known,
         Doing, vars, goalVars, trackVars, actorVars, runVars, history
<1>11. ASSUME NEW c \in Conts, ClearTracked(c) PROVE Stops'
  <2>1. CASE tracked = c
    <3>1. tracked' = None /\ Go(c, "token") /\ UNCHANGED <<goal, created, stopped, req>>
      BY <1>11, <2>1 DEF ClearTracked, goalVars, history
    <3>2. \A g : (NotActive(g) <=> NotActive(g)') /\ (Known(g) <=> Known(g)')
      BY <3>1 DEF NotActive, Known
    <3>3. \A g : Dead(g) => Dead(g)'
      BY <3>1, <3>2, Apart DEF Dead, Turns
    <3> QED
      BY <3>1, <3>2, <3>3 DEF Stops, Doing
  <2>2. CASE tracked # c
    <3>1. Go(c, "idle") /\ UNCHANGED <<goal, created, stopped, req, tracked>>
      BY <1>11, <2>2 DEF ClearTracked, goalVars, history
    <3>2. \A g : (NotActive(g) <=> NotActive(g)') /\ (Known(g) <=> Known(g)')
      BY <3>1 DEF NotActive, Known
    <3>3. \A d \in Conts : cont'[d].goal = cont[d].goal /\ (cont'[d].pc = cont[d].pc \/ cont'[d].pc = "idle")
      BY <3>1, Goes DEF Shape, ContPcs
    <3>4. \A g : Dead(g) => Dead(g)'
      BY <3>1, <3>2, <3>3 DEF Dead
    <3> QED
      BY <3>1, <3>2, <3>4 DEF Stops, Doing
  <2> QED
    BY <2>1, <2>2
<1>12. ASSUME NEW c \in Conts, ClearToken(c) PROVE Stops'
  BY <1>12, Apart, Goes, GivesUp, Begins
     DEF ClearToken, At, Shape, RunShape, GoalShape, ContPcs, Stops, Dead, NotActive, Known,
         Doing, vars, goalVars, trackVars, actorVars, runVars, history
<1>13. ASSUME NEW c \in Conts, ClearActive(c) PROVE Stops'
  BY <1>13, Apart, Goes, GivesUp, Begins
     DEF ClearActive, At, Shape, RunShape, GoalShape, ContPcs, Stops, Dead, NotActive, Known,
         Doing, vars, goalVars, trackVars, actorVars, runVars, history
<1>14. CASE UpdateGoal
  BY <1>14, Apart, Goes, GivesUp, Begins, Sets
     DEF UpdateGoal, Shape, RunShape, GoalShape, ContPcs, Stops, Dead, NotActive, Known, Doing,
         vars, goalVars, trackVars, actorVars, runVars, history
<1>15. CASE Account
  BY <1>15, Apart, Goes, GivesUp, Begins, Charges
     DEF Account, Shape, RunShape, GoalShape, ContPcs, Stops, Dead, NotActive, Known, Doing,
         vars, goalVars, trackVars, actorVars, runVars, history
<1>16. ASSUME NEW p \in posts, AfterTurn(p) PROVE Stops'
  BY <1>16, Apart, Goes, GivesUp, Begins
     DEF AfterTurn, At, Shape, RunShape, GoalShape, ContPcs, Stops, Dead, NotActive, Known,
         Doing, vars, goalVars, trackVars, actorVars, runVars, history
<1>17. ASSUME NEW r \in Requests, Create(r) PROVE Stops'
  <2> DEFINE p == IF goal = None THEN "start" ELSE "interrupt"
  <2>1. /\ goal'.id = created + 1 /\ created' = created + 1
        /\ Handle(r, p, GoalId, TRUE)
        /\ UNCHANGED <<stopped, cont, tracked>>
    BY <1>17 DEF Create, trackVars
  <2>2. /\ req'[r].pc = p /\ req'[r].goal = GoalId
        /\ \A x \in Requests \ {r} : req'[x] = req[x]
    <3>1. GoalId \in GoalIds \cup {None} /\ p \in ReqPcs
      BY DEF Shape, GoalShape, GoalRecords, GoalId, ReqPcs
    <3> QED
      BY <2>1, <3>1, Handles DEF Shape
  <2>3. \A g : Known(g) => Known(g)' /\ NotActive(g)'
    BY <2>1, GoalAssumption DEF Known, NotActive, Shape, GoalShape
  <2>4. \A g : Known(g) /\ Dead(g) => Dead(g)'
    BY <2>1, <2>3, StaysDead
  <2>5. goal'.id \in 1..created'
    BY <2>1, GoalAssumption DEF Known, Shape, GoalShape
  <2>6. goal # None => Known(GoalId)
    BY DEF Stops, GoalId
  <2> HIDE DEF p
  <2>7. goal' # None => Known(goal.id)'
    BY <2>5 DEF Known
  <2>8. \A g \in stopped' : Known(g)' /\ Dead(g)'
    BY <2>1, <2>3, <2>4 DEF Stops
  <2>9. ASSUME NEW x \in Requests,
               req'[x].pc \in {"interrupt", "look", "recent", "cancel", "abort", "wait"}
        PROVE  /\ Known(req[x].goal)'
               /\ req'[x].stops => IF Doing(x, "interrupt")' THEN NotActive(req[x].goal)' ELSE Dead(req[x].goal)'
    <3>1. CASE x = r
      BY <2>2, <2>3, <2>6, <2>9, <3>1 DEF Doing, p
    <3>2. CASE x # r
      BY <2>2, <2>3, <2>4, <2>9, <3>2 DEF Doing, Stops
    <3> QED
      BY <3>1, <3>2
  <2> QED
    BY <2>7, <2>8, <2>9 DEF Stops
<1>18. ASSUME NEW r \in Requests, Resume(r) PROVE Stops'
  <2>1. PICK s \in {"active", IF goal.spent THEN "limited" ELSE "active"} :
          /\ SetStatus(s)
          /\ IF s = "active" THEN Restart(r)
             ELSE Handle(r, IF goal.status \in {"active", "limited"} THEN "interrupt" ELSE "done", goal.id, FALSE)
          /\ stopped' = IF s = "active" THEN stopped \ {goal.id} ELSE stopped
          /\ UNCHANGED <<created, cont, tracked>>
    BY <1>18 DEF Resume, trackVars
  <2>2. goal \in GoalRecords /\ goal # None
    BY <1>18 DEF Resume, Shape, GoalShape
  <2>3. goal'.id = goal.id /\ goal'.status = s
    BY <2>1, <2>2, Sets
  <2>4. CASE s # "active"
    BY <2>1, <2>2, <2>3, <2>4, Halts
  <2>5. CASE s = "active"
    <3>1. /\ req'[r].pc = "start"
          /\ \A x \in Requests \ {r} :
               /\ req'[x].pc = req[x].pc /\ req'[x].goal = req[x].goal
               /\ req'[x].stops => req[x].stops /\ req[x].goal # goal.id
      BY <2>1, <2>2, <2>5, Restarts DEF Shape
    <3>2. \A g : (Known(g) => Known(g)') /\ (g # goal.id => NotActive(g)')
      BY <2>1, <2>3 DEF Known, NotActive
    <3>3. \A g : g # goal.id /\ Dead(g) => Dead(g)'
      BY <2>1, <3>2, StaysDead
    <3> QED
      BY <2>1, <2>2, <2>3, <2>5, <3>1, <3>2, <3>3 DEF Stops, Doing
  <2> QED
    BY <2>4, <2>5
<1>19. ASSUME NEW r \in Requests, Pause(r) PROVE Stops'
  <2>1. goal \in GoalRecords /\ goal # None
    BY <1>19 DEF Pause, Shape, GoalShape
  <2>2. goal' = None \/ (goal'.id = goal.id /\ goal'.status # "active")
    BY <1>19, <2>1, Sets DEF Pause
  <2>3. PICK p \in {"interrupt", "done"} : Handle(r, p, goal.id, FALSE)
    BY <1>19 DEF Pause
  <2> QED
    BY <1>19, <2>1, <2>2, <2>3, Halts DEF Pause, trackVars, history
<1>20. ASSUME NEW r \in Requests, Complete(r) PROVE Stops'
  <2>1. goal \in GoalRecords /\ goal # None
    BY <1>20 DEF Complete, Shape, GoalShape
  <2>2. goal' = None \/ (goal'.id = goal.id /\ goal'.status # "active")
    BY <1>20, <2>1, Sets DEF Complete
  <2>3. PICK p \in {"interrupt", "done"} : Handle(r, p, goal.id, FALSE)
    BY <1>20 DEF Complete
  <2> QED
    BY <1>20, <2>1, <2>2, <2>3, Halts DEF Complete, trackVars, history
<1>21. ASSUME NEW r \in Requests, Clear(r) PROVE Stops'
  <2>1. goal \in GoalRecords /\ goal # None
    BY <1>21 DEF Clear, Shape, GoalShape
  <2>2. goal' = None \/ (goal'.id = goal.id /\ goal'.status # "active")
    BY <1>21, <2>1, Sets DEF Clear
  <2>3. PICK p \in {"interrupt", "done"} : Handle(r, p, goal.id, FALSE)
    BY <1>21 DEF Clear
  <2> QED
    BY <1>21, <2>1, <2>2, <2>3, Halts DEF Clear, trackVars, history
<1>22. ASSUME NEW r \in Requests, Take(r) PROVE Stops'
  <2>1. Doing(r, "interrupt") /\ UNCHANGED <<goal, created, cont>>
    BY <1>22 DEF Take, goalVars
  <2>2. \A g : (NotActive(g) <=> NotActive(g)') /\ (Known(g) <=> Known(g)')
    BY <2>1 DEF NotActive, Known
  <2>3. tracked' = None
    BY <1>22 DEF Take
  <2>4. \A g : NotActive(g) => Dead(g)'
    BY <2>2, <2>3, Apart DEF Dead, Turns
  <2>5. Known(req[r].goal) /\ (req[r].stops => NotActive(req[r].goal))
    BY <2>1 DEF Stops, Doing
  <2>6. /\ stopped' = stopped \/ (req[r].stops /\ stopped' = stopped \cup {req[r].goal})
        /\ req'[r].goal = req[r].goal /\ req'[r].stops = req[r].stops
        /\ req'[r].pc \in {"start", "done", "look"}
        /\ \A x \in Requests \ {r} : req'[x] = req[x]
    <3>1. CASE tracked = None
      BY <1>22, <3>1, Advances DEF Take, Interrupted, Stopped, Shape, ReqPcs
    <3>2. CASE tracked # None
      <4>1. req' = [req EXCEPT ![r].pc = "look", ![r].turn = tracked] /\ stopped' = stopped
        BY <1>22, <3>2 DEF Take
      <4> QED
        BY <4>1 DEF Shape, HandlerShape, Handlers
    <3> QED
      BY <3>1, <3>2
  <2> QED
    BY <2>1, <2>2, <2>4, <2>5, <2>6 DEF Stops, Doing, Dead
<1>23. ASSUME NEW r \in Requests, Look(r) PROVE Stops'
  BY <1>23, Apart, Goes, GivesUp, Begins, Advances, Handles, Restarts, Sets
     DEF Look, Doing, Interrupted, Stopped, Shape, RunShape, GoalShape, ContPcs, Stops, Dead,
         NotActive, Known, vars, goalVars, trackVars, actorVars, runVars, history, HandlerShape,
         ReqPcs
<1>24. ASSUME NEW r \in Requests, LookRecent(r) PROVE Stops'
  BY <1>24, Apart, Goes, GivesUp, Begins, Advances, Handles, Restarts, Sets
     DEF LookRecent, Doing, Interrupted, Stopped, Shape, RunShape, GoalShape, ContPcs, Stops,
         Dead, NotActive, Known, vars, goalVars, trackVars, actorVars, runVars, history,
         HandlerShape, ReqPcs
<1>25. ASSUME NEW r \in Requests, Cancel(r) PROVE Stops'
  BY <1>25, Apart, Goes, GivesUp, Begins, Advances, Handles, Restarts, Sets
     DEF Cancel, Doing, Shape, RunShape, GoalShape, ContPcs, Stops, Dead, NotActive, Known,
         vars, goalVars, trackVars, actorVars, runVars, history, HandlerShape, ReqPcs
<1>26. ASSUME NEW r \in Requests, Abort(r) PROVE Stops'
  BY <1>26, Apart, Goes, GivesUp, Begins, Advances, Handles, Restarts, Sets
     DEF Abort, Doing, Shape, RunShape, GoalShape, ContPcs, Stops, Dead, NotActive, Known, vars,
         goalVars, trackVars, actorVars, runVars, history, HandlerShape, ReqPcs
<1>27. ASSUME NEW r \in Requests, Wait(r) PROVE Stops'
  BY <1>27, Apart, Goes, GivesUp, Begins, Advances, Handles, Restarts, Sets
     DEF Wait, Doing, Interrupted, Stopped, Shape, RunShape, GoalShape, ContPcs, Stops, Dead,
         NotActive, Known, vars, goalVars, trackVars, actorVars, runVars, history, HandlerShape,
         ReqPcs
<1>28. ASSUME NEW r \in Requests, Start(r) PROVE Stops'
  BY <1>28, Apart, Goes, GivesUp, Begins, Advances, Handles, Restarts, Sets
     DEF Start, Doing, At, Shape, RunShape, GoalShape, ContPcs, Stops, Dead, NotActive, Known,
         vars, goalVars, trackVars, actorVars, runVars, history, HandlerShape, ReqPcs
<1>29. CASE (\E t \in Turns : Execute(t)) \/ QueryEnds \/ Finalize \/ CloseTurn \/
           (\E u \in Users : ReadReservation(u)) \/ (\E u \in Users : Enqueue(u)) \/
           (\E u \in Users : SetActive(u)) \/ (\E u \in Users : RegisterAndSpawn(u)) \/
           (\E u \in Users : ActivateQueued(u)) \/ UNCHANGED vars
  BY <1>29
     DEF Execute, QueryEnds, Finalize, CloseTurn, ReadReservation, Enqueue, SetActive,
         RegisterAndSpawn, ActivateQueued, Shape, RunShape, GoalShape, ContPcs, Stops, Dead,
         NotActive, Known, Doing, vars, goalVars, trackVars, actorVars, runVars, history
<1> QED
  BY <1>1, <1>2, <1>3, <1>4, <1>5, <1>6, <1>7, <1>8, <1>9, <1>10, <1>11, <1>12, <1>13, <1>14,
     <1>15, <1>16, <1>17, <1>18, <1>19, <1>20, <1>21, <1>22, <1>23, <1>24, <1>25, <1>26, <1>27,
     <1>28, <1>29
     DEF Next, Continuation, User, Change, Interrupt

(***************************************************************************)
(* Whose a turn's usage is.                                                *)
(***************************************************************************)
(* From its reservation to its accounts a turn is known by its goal, unless  *)
(* it was interrupted.                                                       *)
Unpaid(c) ==
  \/ cont[c].pc \in {"mark", "check", "hold", "ask"}
  \/ task[c] = "spawned"
  \/ exec.turn = c /\ exec.pc \in {"query", "finalize", "account"}
Pursued ==
  /\ \A c \in Conts : task[c] # "off" => At(c, "launched")
  /\ exec.pc # "idle" => exec.turn # None
  /\ exec.turn \in Conts => task[exec.turn] = "sent"
  /\ \A c \in Conts : cont[c].pc \in {"begin", "track", "mark", "check", "hold", "ask", "launched"}
       => cont[c].goal \in GoalIds
  /\ \A c \in Conts : Unpaid(c) => c \in taken \/ turnGoal[c] = cont[c].goal
Paid ==
  \A x \in charged : /\ x[1] \in Conts /\ At(x[1], "launched")
                     /\ x[1] \in taken \/ x[2] = cont[x[1]].goal

LEMMA StepPursued == Shape /\ Pursued /\ [Next]_vars => Pursued'
<1> SUFFICES ASSUME Shape /\ Pursued, [Next]_vars PROVE Pursued'
  OBVIOUS
<1>1. ASSUME NEW c \in Conts, ReadFailure(c) PROVE Pursued'
  BY <1>1, Apart, Goes, GivesUp, Begins
     DEF ReadFailure, At, Shape, GoalShape, TurnShape, RunShape, Pursued, Unpaid, Turns,
         ContPcs, vars, goalVars, trackVars, actorVars, runVars, history, Runs
<1>2. ASSUME NEW c \in Conts, PauseAfterFailure(c) PROVE Pursued'
  BY <1>2, Apart, Goes, GivesUp, Begins
     DEF PauseAfterFailure, At, Shape, GoalShape, TurnShape, RunShape, Pursued, Unpaid, Turns,
         ContPcs, vars, goalVars, trackVars, actorVars, runVars, history
<1>3. ASSUME NEW c \in Conts, Allow(c) PROVE Pursued'
  BY <1>3, Apart, Goes, GivesUp, Begins
     DEF Allow, At, Shape, GoalShape, TurnShape, RunShape, Pursued, Unpaid, Turns, ContPcs,
         vars, goalVars, trackVars, actorVars, runVars, history
<1>4. ASSUME NEW c \in Conts, Candidate(c) PROVE Pursued'
  BY <1>4, Apart, Goes, GivesUp, Begins
     DEF Candidate, At, Shape, GoalShape, TurnShape, RunShape, Pursued, Unpaid, Turns, ContPcs,
         vars, goalVars, trackVars, actorVars, runVars, history, Runs, GoalIs, GoalRecords
<1>5. ASSUME NEW c \in Conts, TryBegin(c) PROVE Pursued'
  BY <1>5, Apart, Goes, GivesUp, Begins
     DEF TryBegin, At, Shape, GoalShape, TurnShape, RunShape, Pursued, Unpaid, Turns, ContPcs,
         vars, goalVars, trackVars, actorVars, runVars, history
<1>6. ASSUME NEW c \in Conts, Track(c) PROVE Pursued'
  BY <1>6, Apart, Goes, GivesUp, Begins
     DEF Track, At, Shape, GoalShape, TurnShape, RunShape, Pursued, Unpaid, Turns, ContPcs,
         vars, goalVars, trackVars, actorVars, runVars, history
<1>7. ASSUME NEW c \in Conts, Mark(c) PROVE Pursued'
  BY <1>7, Apart, Goes, GivesUp, Begins
     DEF Mark, At, Shape, GoalShape, TurnShape, RunShape, Pursued, Unpaid, Turns, ContPcs, vars,
         goalVars, trackVars, actorVars, runVars, history
<1>8. ASSUME NEW c \in Conts, Check(c) PROVE Pursued'
  BY <1>8, Apart, Goes, GivesUp, Begins
     DEF Check, At, Shape, GoalShape, TurnShape, RunShape, Pursued, Unpaid, Turns, ContPcs,
         vars, goalVars, trackVars, actorVars, runVars, history, Runs
<1>9. ASSUME NEW c \in Conts, Hold(c) PROVE Pursued'
  BY <1>9, Apart, Goes, GivesUp, Begins
     DEF Hold, At, Shape, GoalShape, TurnShape, RunShape, Pursued, Unpaid, Turns, ContPcs, vars,
         goalVars, trackVars, actorVars, runVars, history
<1>10. ASSUME NEW c \in Conts, Launch(c) PROVE Pursued'
  BY <1>10, Apart, Goes, GivesUp, Begins
     DEF Launch, At, Entry, Shape, GoalShape, TurnShape, RunShape, Pursued, Unpaid, Turns,
         ContPcs, vars, goalVars, trackVars, actorVars, runVars, history
<1>11. ASSUME NEW c \in Conts, ClearTracked(c) PROVE Pursued'
  BY <1>11, Apart, Goes, GivesUp, Begins
     DEF ClearTracked, At, Shape, GoalShape, TurnShape, RunShape, Pursued, Unpaid, Turns,
         ContPcs, vars, goalVars, trackVars, actorVars, runVars, history
<1>12. ASSUME NEW c \in Conts, ClearToken(c) PROVE Pursued'
  BY <1>12, Apart, Goes, GivesUp, Begins
     DEF ClearToken, At, Shape, GoalShape, TurnShape, RunShape, Pursued, Unpaid, Turns, ContPcs,
         vars, goalVars, trackVars, actorVars, runVars, history
<1>13. ASSUME NEW c \in Conts, ClearActive(c) PROVE Pursued'
  BY <1>13, Apart, Goes, GivesUp, Begins
     DEF ClearActive, At, Shape, GoalShape, TurnShape, RunShape, Pursued, Unpaid, Turns,
         ContPcs, vars, goalVars, trackVars, actorVars, runVars, history
<1>14. ASSUME NEW t \in Turns, Execute(t) PROVE Pursued'
  BY <1>14, Apart, Goes, GivesUp, Begins
     DEF Execute, Shape, GoalShape, TurnShape, RunShape, Pursued, Unpaid, At, Turns, ContPcs,
         vars, goalVars, trackVars, actorVars, runVars, history, ExecRecords
<1>15. CASE QueryEnds
  BY <1>15, Apart, Goes, GivesUp, Begins
     DEF QueryEnds, Shape, GoalShape, TurnShape, RunShape, Pursued, Unpaid, At, Turns, ContPcs,
         vars, goalVars, trackVars, actorVars, runVars, history, ExecRecords
<1>16. CASE Finalize
  BY <1>16, Apart, Goes, GivesUp, Begins
     DEF Finalize, NoEntry, Shape, GoalShape, TurnShape, RunShape, Pursued, Unpaid, At, Turns,
         ContPcs, vars, goalVars, trackVars, actorVars, runVars, history, ExecRecords
<1>17. CASE Account
  BY <1>17, Apart, Goes, GivesUp, Begins
     DEF Account, Shape, GoalShape, TurnShape, RunShape, Pursued, Unpaid, At, Turns, ContPcs,
         vars, goalVars, trackVars, actorVars, runVars, history, ExecRecords
<1>18. CASE CloseTurn
  BY <1>18, Apart, Goes, GivesUp, Begins
     DEF CloseTurn, Idle, Shape, GoalShape, TurnShape, RunShape, Pursued, Unpaid, At, Turns,
         ContPcs, vars, goalVars, trackVars, actorVars, runVars, history, ExecRecords
<1>19. ASSUME NEW p \in posts, AfterTurn(p) PROVE Pursued'
  BY <1>19, Apart, Goes, GivesUp, Begins
     DEF AfterTurn, At, Shape, GoalShape, TurnShape, RunShape, Pursued, Unpaid, Turns, ContPcs,
         vars, goalVars, trackVars, actorVars, runVars, history
<1>20. ASSUME NEW u \in Users, RegisterAndSpawn(u) PROVE Pursued'
  BY <1>20, Apart, Goes, GivesUp, Begins
     DEF RegisterAndSpawn, Entry, Shape, GoalShape, TurnShape, RunShape, Pursued, Unpaid, At,
         Turns, ContPcs, vars, goalVars, trackVars, actorVars, runVars, history, ExecRecords
<1>21. ASSUME NEW u \in Users, ActivateQueued(u) PROVE Pursued'
  BY <1>21, Apart, Goes, GivesUp, Begins
     DEF ActivateQueued, Shape, GoalShape, TurnShape, RunShape, Pursued, Unpaid, At, Turns,
         ContPcs, vars, goalVars, trackVars, actorVars, runVars, history, ExecRecords
<1>22. ASSUME NEW r \in Requests, Take(r) PROVE Pursued'
  BY <1>22, Apart, Goes, GivesUp, Begins
     DEF Take, Doing, Interrupted, Stopped, Shape, GoalShape, TurnShape, RunShape, Pursued,
         Unpaid, At, Turns, ContPcs, vars, goalVars, trackVars, actorVars, runVars, history
<1>23. ASSUME NEW r \in Requests, Abort(r) PROVE Pursued'
  BY <1>23, Apart, Goes, GivesUp, Begins
     DEF Abort, Doing, Shape, GoalShape, TurnShape, RunShape, Pursued, Unpaid, At, Turns,
         ContPcs, vars, goalVars, trackVars, actorVars, runVars, history, ExecRecords
<1>24. ASSUME NEW r \in Requests, Start(r) PROVE Pursued'
  BY <1>24, Apart, Goes, GivesUp, Begins
     DEF Start, Doing, At, Shape, GoalShape, TurnShape, RunShape, Pursued, Unpaid, Turns,
         ContPcs, vars, goalVars, trackVars, actorVars, runVars, history
<1>25. CASE UpdateGoal \/ (\E u \in Users : ReadReservation(u)) \/ (\E u \in Users : Enqueue(u)) \/
           (\E u \in Users : SetActive(u)) \/ UNCHANGED vars
  BY <1>25
     DEF UpdateGoal, ReadReservation, Enqueue, SetActive, Shape, GoalShape, TurnShape, RunShape,
         Pursued, Unpaid, At, Turns, ContPcs, vars, goalVars, trackVars, actorVars, runVars,
         history
<1>26. CASE (\E r \in Requests : Create(r)) \/ (\E r \in Requests : Resume(r)) \/
           (\E r \in Requests : Pause(r)) \/ (\E r \in Requests : Complete(r)) \/
           (\E r \in Requests : Clear(r)) \/ (\E r \in Requests : Look(r)) \/
           (\E r \in Requests : LookRecent(r)) \/ (\E r \in Requests : Cancel(r)) \/
           (\E r \in Requests : Wait(r))
  BY <1>26
     DEF Create, Resume, Pause, Complete, Clear, Look, LookRecent, Cancel, Wait, Shape,
         GoalShape, TurnShape, RunShape, Pursued, Unpaid, At, Turns, ContPcs, vars, goalVars,
         trackVars, actorVars, runVars, history
<1> QED
  BY <1>1, <1>2, <1>3, <1>4, <1>5, <1>6, <1>7, <1>8, <1>9, <1>10, <1>11, <1>12, <1>13, <1>14,
     <1>15, <1>16, <1>17, <1>18, <1>19, <1>20, <1>21, <1>22, <1>23, <1>24, <1>25, <1>26
     DEF Next, Continuation, User, Change, Interrupt

LEMMA StepPaid == Shape /\ Pursued /\ Paid /\ [Next]_vars => Paid'
<1> SUFFICES ASSUME Shape /\ Pursued /\ Paid, [Next]_vars PROVE Paid'
  OBVIOUS
<1>1. ASSUME NEW c \in Conts, ReadFailure(c) PROVE Paid'
  BY <1>1, Apart, Goes, GivesUp, Begins
     DEF ReadFailure, At, Shape, GoalShape, TurnShape, RunShape, Pursued, Unpaid, Turns,
         ContPcs, Paid, vars, goalVars, trackVars, actorVars, runVars, history, Runs
<1>2. ASSUME NEW c \in Conts, PauseAfterFailure(c) PROVE Paid'
  BY <1>2, Apart, Goes, GivesUp, Begins
     DEF PauseAfterFailure, At, Shape, GoalShape, TurnShape, RunShape, Pursued, Unpaid, Turns,
         ContPcs, Paid, vars, goalVars, trackVars, actorVars, runVars, history
<1>3. ASSUME NEW c \in Conts, Allow(c) PROVE Paid'
  BY <1>3, Apart, Goes, GivesUp, Begins
     DEF Allow, At, Shape, GoalShape, TurnShape, RunShape, Pursued, Unpaid, Turns, ContPcs,
         Paid, vars, goalVars, trackVars, actorVars, runVars, history
<1>4. ASSUME NEW c \in Conts, Candidate(c) PROVE Paid'
  BY <1>4, Apart, Goes, GivesUp, Begins
     DEF Candidate, At, Shape, GoalShape, TurnShape, RunShape, Pursued, Unpaid, Turns, ContPcs,
         Paid, vars, goalVars, trackVars, actorVars, runVars, history, Runs, GoalIs, GoalRecords
<1>5. ASSUME NEW c \in Conts, TryBegin(c) PROVE Paid'
  BY <1>5, Apart, Goes, GivesUp, Begins
     DEF TryBegin, At, Shape, GoalShape, TurnShape, RunShape, Pursued, Unpaid, Turns, ContPcs,
         Paid, vars, goalVars, trackVars, actorVars, runVars, history
<1>6. ASSUME NEW c \in Conts, Track(c) PROVE Paid'
  BY <1>6, Apart, Goes, GivesUp, Begins
     DEF Track, At, Shape, GoalShape, TurnShape, RunShape, Pursued, Unpaid, Turns, ContPcs,
         Paid, vars, goalVars, trackVars, actorVars, runVars, history
<1>7. ASSUME NEW c \in Conts, Mark(c) PROVE Paid'
  BY <1>7, Apart, Goes, GivesUp, Begins
     DEF Mark, At, Shape, GoalShape, TurnShape, RunShape, Pursued, Unpaid, Turns, ContPcs, Paid,
         vars, goalVars, trackVars, actorVars, runVars, history
<1>8. ASSUME NEW c \in Conts, Check(c) PROVE Paid'
  BY <1>8, Apart, Goes, GivesUp, Begins
     DEF Check, At, Shape, GoalShape, TurnShape, RunShape, Pursued, Unpaid, Turns, ContPcs,
         Paid, vars, goalVars, trackVars, actorVars, runVars, history, Runs
<1>9. ASSUME NEW c \in Conts, Hold(c) PROVE Paid'
  BY <1>9, Apart, Goes, GivesUp, Begins
     DEF Hold, At, Shape, GoalShape, TurnShape, RunShape, Pursued, Unpaid, Turns, ContPcs, Paid,
         vars, goalVars, trackVars, actorVars, runVars, history
<1>10. ASSUME NEW c \in Conts, Launch(c) PROVE Paid'
  BY <1>10, Apart, Goes, GivesUp, Begins
     DEF Launch, At, Entry, Shape, GoalShape, TurnShape, RunShape, Pursued, Unpaid, Turns,
         ContPcs, Paid, vars, goalVars, trackVars, actorVars, runVars, history
<1>11. ASSUME NEW c \in Conts, ClearTracked(c) PROVE Paid'
  BY <1>11, Apart, Goes, GivesUp, Begins
     DEF ClearTracked, At, Shape, GoalShape, TurnShape, RunShape, Pursued, Unpaid, Turns,
         ContPcs, Paid, vars, goalVars, trackVars, actorVars, runVars, history
<1>12. ASSUME NEW c \in Conts, ClearToken(c) PROVE Paid'
  BY <1>12, Apart, Goes, GivesUp, Begins
     DEF ClearToken, At, Shape, GoalShape, TurnShape, RunShape, Pursued, Unpaid, Turns, ContPcs,
         Paid, vars, goalVars, trackVars, actorVars, runVars, history
<1>13. ASSUME NEW c \in Conts, ClearActive(c) PROVE Paid'
  BY <1>13, Apart, Goes, GivesUp, Begins
     DEF ClearActive, At, Shape, GoalShape, TurnShape, RunShape, Pursued, Unpaid, Turns,
         ContPcs, Paid, vars, goalVars, trackVars, actorVars, runVars, history
<1>14. CASE Account
  BY <1>14, Apart, Goes, GivesUp, Begins
     DEF Account, Shape, GoalShape, TurnShape, RunShape, Pursued, Unpaid, At, Turns, ContPcs,
         Paid, vars, goalVars, trackVars, actorVars, runVars, history, Charge
<1>15. ASSUME NEW p \in posts, AfterTurn(p) PROVE Paid'
  BY <1>15, Apart, Goes, GivesUp, Begins
     DEF AfterTurn, At, Shape, GoalShape, TurnShape, RunShape, Pursued, Unpaid, Turns, ContPcs,
         Paid, vars, goalVars, trackVars, actorVars, runVars, history
<1>16. ASSUME NEW r \in Requests, Take(r) PROVE Paid'
  BY <1>16, Apart, Goes, GivesUp, Begins
     DEF Take, Doing, Interrupted, Stopped, Shape, GoalShape, TurnShape, RunShape, Pursued,
         Unpaid, At, Turns, ContPcs, Paid, vars, goalVars, trackVars, actorVars, runVars,
         history
<1>17. ASSUME NEW r \in Requests, Start(r) PROVE Paid'
  BY <1>17, Apart, Goes, GivesUp, Begins
     DEF Start, Doing, At, Shape, GoalShape, TurnShape, RunShape, Pursued, Unpaid, Turns,
         ContPcs, Paid, vars, goalVars, trackVars, actorVars, runVars, history
<1>18. CASE (\E t \in Turns : Execute(t)) \/ UpdateGoal \/ QueryEnds \/ Finalize \/ CloseTurn \/
           (\E u \in Users : ReadReservation(u)) \/ (\E u \in Users : Enqueue(u)) \/
           (\E u \in Users : SetActive(u)) \/ (\E u \in Users : RegisterAndSpawn(u)) \/
           (\E u \in Users : ActivateQueued(u)) \/ UNCHANGED vars
  BY <1>18
     DEF Execute, UpdateGoal, QueryEnds, Finalize, CloseTurn, ReadReservation, Enqueue,
         SetActive, RegisterAndSpawn, ActivateQueued, Paid, At, vars, goalVars, trackVars,
         actorVars, runVars, history
<1>19. CASE (\E r \in Requests : Create(r)) \/ (\E r \in Requests : Resume(r)) \/
           (\E r \in Requests : Pause(r)) \/ (\E r \in Requests : Complete(r)) \/
           (\E r \in Requests : Clear(r)) \/ (\E r \in Requests : Look(r)) \/
           (\E r \in Requests : LookRecent(r)) \/ (\E r \in Requests : Cancel(r)) \/
           (\E r \in Requests : Abort(r)) \/ (\E r \in Requests : Wait(r))
  BY <1>19
     DEF Create, Resume, Pause, Complete, Clear, Look, LookRecent, Cancel, Abort, Wait, Paid,
         At, vars, goalVars, trackVars, actorVars, runVars, history
<1> QED
  BY <1>1, <1>2, <1>3, <1>4, <1>5, <1>6, <1>7, <1>8, <1>9, <1>10, <1>11, <1>12, <1>13, <1>14,
     <1>15, <1>16, <1>17, <1>18, <1>19
     DEF Next, Continuation, User, Change, Interrupt

(***************************************************************************)
(* The invariant and what follows from it.                                 *)
(***************************************************************************)
GoalInv == Shape /\ Mutex /\ Stops /\ Pursued /\ Paid

LEMMA InitGoals == Init => GoalInv
<1> SUFFICES ASSUME Init PROVE GoalInv
  OBVIOUS
<1> USE Apart DEF Init, Idle, NoEntry
<1>1. GoalShape /\ TurnShape
  BY DEF GoalShape, TurnShape, ExecRecords, EntryRecords, Ends
<1>2. RunShape /\ HandlerShape
  BY DEF RunShape, Runs, ContPcs, HandlerShape, Handlers, ReqPcs
<1>3. Mutex /\ Stops
  BY DEF Mutex, Stops, Dead, NotActive, Known, At, Doing
<1>4. Pursued /\ Paid
  BY DEF Pursued, Paid, Unpaid, At, Turns
<1> QED
  BY <1>1, <1>2, <1>3, <1>4 DEF GoalInv, Shape

LEMMA StepGoals == GoalInv /\ [Next]_vars => GoalInv'
  BY StepGoal, StepTurns, StepRuns, StepHandlers, StepMutex, StepStops, StepPursued, StepPaid
     DEF GoalInv, Shape

(* A turn is launched by the task that reserved it, which found it tracked   *)
(* under the mutex.                                                          *)
LEMMA StepHolds ==
  GoalInv /\ [Next]_vars =>
    \A c \in Conts : ~Launched(c) /\ Launched(c)' => cont[c].goal \notin stopped
<1> SUFFICES ASSUME GoalInv, [Next]_vars, NEW c \in Conts, ~Launched(c), Launched(c)'
             PROVE  cont[c].goal \notin stopped
  OBVIOUS
<1>1. Launch(c)
  BY Apart DEF GoalInv, Shape, TurnShape, Launched, Turns, Next, vars, runVars, actorVars, Continuation,
       User, Change, Interrupt, ReadFailure, PauseAfterFailure, Allow, Candidate, TryBegin, Track,
       Mark, Check, Hold, Launch, ClearTracked, ClearToken, ClearActive, Execute, UpdateGoal,
       QueryEnds, Finalize, Account, CloseTurn, AfterTurn, ReadReservation, Enqueue, SetActive,
       RegisterAndSpawn, ActivateQueued, Create, Resume, Pause, Complete, Clear, Take, Look,
       LookRecent, Cancel, Abort, Wait, Start
<1>2. At(c, "ask") /\ tracked = c
  BY <1>1, Apart DEF Launch, GoalInv, Mutex, Turns
<1>3. ~Dead(cont[c].goal)
  BY <1>2 DEF Dead, At
<1> QED
  BY <1>3 DEF GoalInv, Stops

(* Once a client was told that its goal is paused, complete, cleared or      *)
(* replaced, goal_continuation.rs launches no turn for it, however its       *)
(* reservation and its looks interleave with the requests.                   *)
THEOREM StoppedStaysStopped == Spec => StopHolds
<1>1. GoalInv /\ [Next]_vars
        => [\A c \in Conts : ~Launched(c) /\ Launched(c)' => cont[c].goal \notin stopped]_vars
  BY StepHolds
<1> QED
  BY InitGoals, StepGoals, <1>1, PTL DEF Spec, StopHolds

(* goal_accounting.rs charges a continuation turn to the goal it was         *)
(* launched for or to none, unless a goal request interrupted it.            *)
THEOREM ChargesItsGoal == Spec => []ChargedToItsGoal
<1>1. GoalInv => ChargedToItsGoal
  BY DEF GoalInv, Paid, ChargedToItsGoal
<1> QED
  BY InitGoals, StepGoals, <1>1, PTL DEF Spec

(***************************************************************************)
(* The turn that wraps up.                                                 *)
(***************************************************************************)
(* Whoever found the budget spent took the goal out of its active state, in  *)
(* which alone the next one could find it; what makes it active again starts *)
(* the count anew.                                                           *)
Wrapped ==
  /\ wraps # {} => ~GoalIs({"active"})
  /\ \A c, d \in wraps : c = d

LEMMA StepWrapped == GoalShape /\ RunShape /\ Wrapped /\ [Next]_vars => Wrapped'
<1> SUFFICES ASSUME GoalShape, RunShape, Wrapped, [Next]_vars PROVE Wrapped'
  OBVIOUS
<1> USE DEF Wrapped, GoalIs
<1>1. CASE UNCHANGED <<goal, wraps>>
  BY <1>1
<1>2. ASSUME NEW c \in Conts, Mark(c) PROVE Wrapped'
  <2>1. CASE GoalIs({"active"}) /\ goal.id = cont[c].goal
    <3>1. wraps = {} /\ wraps' = IF goal.spent THEN {c} ELSE {}
      BY <1>2, <2>1, Goes DEF Mark, ContPcs
    <3>2. goal.spent => goal'.status = "limited"
      BY <1>2, <2>1, Apart, Sets DEF Mark, GoalShape
    <3> QED
      BY <3>1, <3>2
  <2>2. CASE ~(GoalIs({"active"}) /\ goal.id = cont[c].goal)
    <3>1. wraps' = wraps /\ goal' = goal
      BY <1>2, <2>2, Goes DEF Mark, ContPcs
    <3> QED
      BY <3>1
  <2> QED
    BY <2>1, <2>2
<1>3. ASSUME NEW c \in Conts, PauseAfterFailure(c) PROVE Wrapped'
  BY <1>3, Sets DEF PauseAfterFailure, GoalShape, history
<1>4. CASE UpdateGoal
  BY <1>4, Sets DEF UpdateGoal, GoalShape, history
<1>5. CASE Account
  BY <1>5, Charges DEF Account, GoalShape
<1>6. ASSUME NEW r \in Requests, Create(r) PROVE Wrapped'
  BY <1>6 DEF Create
<1>7. ASSUME NEW r \in Requests, Resume(r) PROVE Wrapped'
  BY <1>7, Sets DEF Resume, GoalShape
<1>8. ASSUME NEW r \in Requests, Pause(r) \/ Complete(r) \/ Clear(r) PROVE Wrapped'
  BY <1>8, Sets DEF Pause, Complete, Clear, GoalShape, history
<1> QED
  BY <1>1, <1>2, <1>3, <1>4, <1>5, <1>6, <1>7, <1>8
     DEF Next, vars, goalVars, history, Continuation, User, Change, Interrupt, ReadFailure, Allow,
         Candidate, TryBegin, Track, Check, Hold, Launch, ClearTracked, ClearToken, ClearActive,
         Execute, QueryEnds, Finalize, CloseTurn, AfterTurn, ReadReservation, Enqueue, SetActive,
         RegisterAndSpawn, ActivateQueued, Take, Look, LookRecent, Cancel, Abort, Wait, Start

(* mark_goal_continuation_turn_started lets one turn through when the budget *)
(* is spent, whichever runs of goal_continuation.rs look at the goal at once.*)
THEOREM WrapsUpOnce == Spec => []OneWrapUp
<1>1. Init => Wrapped
  BY DEF Init, Wrapped
<1>2. GoalInv => GoalShape /\ RunShape
  BY DEF GoalInv, Shape
<1>3. Wrapped => OneWrapUp
  <2> SUFFICES ASSUME Wrapped PROVE OneWrapUp
    OBVIOUS
  <2> DEFINE W == {c \in wraps : Launched(c)}
  <2>1. W = {} \/ \E c : W = {c}
    BY DEF Wrapped
  <2>2. Cardinality(W) \in {0, 1}
    BY <2>1, FS_EmptySet, FS_Singleton
  <2> QED
    BY <2>2 DEF OneWrapUp
<1> QED
  BY InitGoals, StepGoals, StepWrapped, <1>1, <1>2, <1>3, PTL DEF Spec
=============================================================================
