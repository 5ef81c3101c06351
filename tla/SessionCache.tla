---------------------------- MODULE SessionCache ----------------------------
(***************************************************************************)
(* Which sessions are in memory.  A session that is resumed is read back   *)
(* from its rollout under a lock of its own, which the load gate makes and *)
(* throws away; beyond a capacity, the session used longest ago is evicted *)
(* unless it is pinned by a turn or a subscription; and the server's       *)
(* shutdown asks every loaded session to end its turn.                     *)
(*                                                                         *)
(* A connection handles one request at a time here, session/resume, and    *)
(* between requests it may start a turn in its session or go away.         *)
(***************************************************************************)
EXTENDS Naturals, Sequences, SequencesExt, FiniteSets

CONSTANTS
  Sessions,       \* root sessions that have a rollout
  Conns,          \* client connections
  Capacity,       \* PARENT_SESSION_LRU_CAPACITY
  MaxResumes,     \* bound on the session/resume requests
  MaxTurns,       \* bound on the turns
  None

ASSUME CacheAssumption ==
  /\ IsFiniteSet(Sessions) /\ IsFiniteSet(Conns)
  /\ None \notin Sessions \cup Conns
  /\ Capacity \in Nat /\ MaxResumes \in Nat /\ MaxTurns \in Nat

Actors == 1..MaxResumes
Locks == 1..(Cardinality(Conns) + MaxResumes)

VARIABLES
  sessions,   \* the map of loaded sessions: which actor is a session's
  actor,      \* the actors' tasks: not spawned, serving, ended; with a turn?
  lru,        \* ParentSessionLru.order, latest first
  goals,      \* the sessions that have a goal store in memory
  active,     \* the sessions with an entry in the registry of active turns
  gate,       \* SessionLoadGate.locks: the lock of a session, if it has one
  holder,     \* by lock, the connection that holds it
  cleaners,   \* tasks spawned by permits that were dropped
  conn,       \* the connections' handlers: progress, session, permit
  local,      \* ... the actor found, the victims to consider, the victim
  subs,       \* the session a connection subscribes to
  down,       \* ServerRuntime::shutdown
  requests,   \* number of resume requests so far
  turns       \* number of turns so far

cacheVars == <<sessions, actor, lru, goals, active>>
gateVars == <<gate, holder, cleaners>>
counts == <<requests, turns>>
vars == <<cacheVars, gateVars, conn, local, subs, down, counts>>

Idle == [pc |-> "idle", session |-> None, lock |-> 0]
NoLocal == [actor |-> 0, victims |-> <<>>, victim |-> None]
Goto(c, pc) == conn' = [conn EXCEPT ![c].pc = pc]
At(c, pc) == conn[c].pc = pc
Mine(c) == conn[c].session
Deaf(a) == actor[a].turn       \* a turn executes inline
Pinned(s) == s \in active \/ \E c \in Conns : subs[c] = s

(* Arc::strong_count: the map, the permits and waiters, the spawned tasks.   *)
StrongCount(l) ==
    Cardinality({s \in Sessions : gate[s] = l})
  + Cardinality({c \in Conns : conn[c].lock = l})
  + Cardinality({k \in cleaners : k.lock = l})
Unused == {l \in Locks : StrongCount(l) = 0}

-----------------------------------------------------------------------------
(* get_or_load_parent_session                                               *)

(* The fast path needs no gate.  Requests that arrive during the shutdown    *)
(* are left out, those under way are not.                                    *)
Resume(c, s) ==
  /\ At(c, "idle") /\ requests < MaxResumes /\ down.pc = "off"
  /\ requests' = requests + 1
  /\ conn' = [conn EXCEPT ![c].session = s, ![c].pc = IF sessions[s] # 0 THEN "touch" ELSE "join"]
  /\ local' = [local EXCEPT ![c].actor = sessions[s]]
  /\ UNCHANGED <<cacheVars, gateVars, subs, down, turns>>

JoinGate(c) ==
  /\ At(c, "join")
  /\ \E l \in IF gate[Mine(c)] # 0 THEN {gate[Mine(c)]}
              ELSE {k \in Unused : \A n \in Unused : k <= n} :
       /\ gate' = [gate EXCEPT ![Mine(c)] = l]
       /\ conn' = [conn EXCEPT ![c].pc = "wait", ![c].lock = l]
  /\ UNCHANGED <<cacheVars, holder, cleaners, local, subs, down, counts>>

Enter(c) ==
  /\ At(c, "wait")
  /\ holder[conn[c].lock] = None
  /\ holder' = [holder EXCEPT ![conn[c].lock] = c]
  /\ Goto(c, "recheck")
  /\ UNCHANGED <<cacheVars, gate, cleaners, local, subs, down, counts>>

Recheck(c) ==
  /\ At(c, "recheck")
  /\ local' = [local EXCEPT ![c].actor = sessions[Mine(c)]]
  /\ Goto(c, IF sessions[Mine(c)] # 0 THEN "touch" ELSE "hydrate")
  /\ UNCHANGED <<cacheVars, gateVars, subs, down, counts>>

(* Replays the rollout and the goals, and drains the queued inputs' rows.    *)
Hydrate(c) ==
  /\ At(c, "hydrate")
  /\ goals' = goals \cup {Mine(c)}
  /\ Goto(c, "insert")
  /\ UNCHANGED <<sessions, actor, lru, active, gateVars, local, subs, down, counts>>

(* ... which fails when the rollout is missing or does not parse.            *)
HydrateFails(c) ==
  /\ At(c, "hydrate")
  /\ Goto(c, "drop")
  /\ UNCHANGED <<cacheVars, gateVars, local, subs, down, counts>>

(* insert_session_actor returns the actor that is there, if one is.          *)
Insert(c) ==
  /\ At(c, "insert")
  /\ IF sessions[Mine(c)] # 0
     THEN /\ local' = [local EXCEPT ![c].actor = sessions[Mine(c)]]
          /\ UNCHANGED <<sessions, actor>>
     ELSE LET a == CHOOSE n \in Actors : actor[n].pc = "none" IN
          /\ sessions' = [sessions EXCEPT ![Mine(c)] = a]
          /\ actor' = [actor EXCEPT ![a] = [pc |-> "serving", session |-> Mine(c), turn |-> FALSE]]
          /\ local' = [local EXCEPT ![c].actor = a]
  /\ Goto(c, "touchnew")
  /\ UNCHANGED <<lru, goals, active, gateVars, subs, down, counts>>

Touch(c) ==
  /\ conn[c].pc \in {"touch", "touchnew"}
  /\ lru' = <<Mine(c)>> \o SelectSeq(lru, LAMBDA s : s # Mine(c))
  /\ Goto(c, CASE At(c, "touchnew")   -> "candidates"
               [] conn[c].lock = 0    -> "snapshot"
               [] OTHER               -> "drop")
  /\ UNCHANGED <<sessions, actor, goals, active, gateVars, local, subs, down, counts>>

-----------------------------------------------------------------------------
(* evict_parent_sessions_if_needed, evict_parent_session_cascade            *)

ListCandidates(c) ==
  /\ At(c, "candidates")
  /\ IF Len(lru) <= Capacity THEN Goto(c, "drop") /\ UNCHANGED local
     ELSE Goto(c, "pick") /\ local' = [local EXCEPT ![c].victims = Reverse(lru)]
  /\ UNCHANGED <<cacheVars, gateVars, subs, down, counts>>

Spared(c, s) == s = Mine(c) \/ Pinned(s)

Pick(c) ==
  LET victims == local[c].victims IN
  /\ At(c, "pick")
  /\ \/ /\ victims = <<>>
        /\ Goto(c, "drop") /\ UNCHANGED local
     \/ /\ victims # <<>> /\ Spared(c, Head(victims))
        /\ local' = [local EXCEPT ![c].victims = Tail(@)] /\ UNCHANGED conn
     \/ /\ victims # <<>> /\ ~Spared(c, Head(victims))
        /\ local' = [local EXCEPT ![c].victims = <<>>, ![c].victim = Head(victims)]
        /\ Goto(c, "remove")
  /\ UNCHANGED <<cacheVars, gateVars, subs, down, counts>>

RemoveActor(c) ==
  LET s == local[c].victim IN
  /\ At(c, "remove")
  /\ sessions' = [sessions EXCEPT ![s] = 0]
  /\ active' = IF sessions[s] # 0 THEN active \ {s} ELSE active
  /\ Goto(c, IF sessions[s] # 0 THEN "await" ELSE "forget")
  /\ local' = [local EXCEPT ![c].victims = <<sessions[s]>>]
  /\ UNCHANGED <<actor, lru, goals, gateVars, subs, down, counts>>

(* SessionHandle::shutdown is a command like any other: a deaf actor takes   *)
(* it when its turn is over.                                                 *)
AwaitShutdown(c) ==
  LET a == Head(local[c].victims) IN
  /\ At(c, "await") /\ ~Deaf(a)
  /\ actor' = [actor EXCEPT ![a].pc = "ended"]
  /\ Goto(c, "forget")
  /\ UNCHANGED <<sessions, lru, goals, active, gateVars, local, subs, down, counts>>

ForgetGoals(c) ==
  /\ At(c, "forget")
  /\ goals' = goals \ {local[c].victim}
  /\ Goto(c, "unlist")
  /\ UNCHANGED <<sessions, actor, lru, active, gateVars, local, subs, down, counts>>

Unlist(c) ==
  /\ At(c, "unlist")
  /\ lru' = SelectSeq(lru, LAMBDA s : s # local[c].victim)
  /\ local' = [local EXCEPT ![c].victims = <<>>, ![c].victim = None]
  /\ Goto(c, "drop")
  /\ UNCHANGED <<sessions, actor, goals, active, gateVars, subs, down, counts>>

-----------------------------------------------------------------------------
(* SessionLoadPermit::drop: the guard first, then a look at the count.       *)

DropGuard(c) ==
  /\ At(c, "drop")
  /\ holder' = [holder EXCEPT ![conn[c].lock] = None]
  /\ Goto(c, "count")
  /\ UNCHANGED <<cacheVars, gate, cleaners, local, subs, down, counts>>

DropPermit(c) ==
  LET l == conn[c].lock IN
  /\ At(c, "count")
  /\ cleaners' = IF StrongCount(l) = 2 THEN cleaners \cup {[by |-> c, session |-> Mine(c), lock |-> l]}
                 ELSE cleaners
  /\ conn' = [conn EXCEPT ![c].pc = "snapshot", ![c].lock = 0]
  /\ UNCHANGED <<cacheVars, gate, holder, local, subs, down, counts>>

CleanUnchecked(k) ==      \* mutant: the count is not looked at again
  /\ gate' = IF gate[k.session] = k.lock THEN [gate EXCEPT ![k.session] = 0] ELSE gate
  /\ cleaners' = cleaners \ {k}
  /\ UNCHANGED <<cacheVars, holder, conn, local, subs, down, counts>>

Clean(k) ==
  /\ gate' = IF gate[k.session] = k.lock /\ StrongCount(k.lock) = 2
             THEN [gate EXCEPT ![k.session] = 0] ELSE gate
  /\ cleaners' = cleaners \ {k}
  /\ UNCHANGED <<cacheVars, holder, conn, local, subs, down, counts>>

-----------------------------------------------------------------------------
(* The rest of session/resume: the actor is asked for a snapshot, then the   *)
(* connection subscribes.  Without an actor the session "does not exist".    *)

Snapshot(c) ==
  LET a == local[c].actor IN
  /\ At(c, "snapshot")
  /\ a # 0 => actor[a].pc = "ended" \/ ~Deaf(a)
  /\ conn' = [conn EXCEPT ![c] = IF a # 0 /\ actor[a].pc = "serving" THEN [@ EXCEPT !.pc = "subscribe"] ELSE Idle]
  /\ local' = [local EXCEPT ![c] = NoLocal]
  /\ UNCHANGED <<cacheVars, gateVars, subs, down, counts>>

Subscribe(c) ==
  /\ At(c, "subscribe")
  /\ subs' = [subs EXCEPT ![c] = Mine(c)]
  /\ conn' = [conn EXCEPT ![c] = [Idle EXCEPT !.pc = "attached", !.session = Mine(c)]]
  /\ UNCHANGED <<cacheVars, gateVars, local, down, counts>>

Disconnect(c) ==
  /\ At(c, "attached")
  /\ subs' = [subs EXCEPT ![c] = None]
  /\ conn' = [conn EXCEPT ![c] = Idle]
  /\ UNCHANGED <<cacheVars, gateVars, local, down, counts>>

StartTurn(c) ==
  LET a == sessions[Mine(c)] IN
  /\ At(c, "attached") /\ a # 0 /\ ~Deaf(a)
  /\ turns < MaxTurns /\ down.pc = "off"
  /\ turns' = turns + 1
  /\ actor' = [actor EXCEPT ![a].turn = TRUE]
  /\ active' = active \cup {Mine(c)}
  /\ UNCHANGED <<sessions, lru, goals, gateVars, conn, local, subs, down, requests>>

EndTurn(a) ==
  /\ Deaf(a)
  /\ actor' = [actor EXCEPT ![a].turn = FALSE]
  /\ active' = active \ {actor[a].session}
  /\ UNCHANGED <<sessions, lru, goals, gateVars, conn, local, subs, down, counts>>

-----------------------------------------------------------------------------
(* ServerRuntime::shutdown goes through the loaded sessions one by one, and  *)
(* through those that are still loaded a second time to end their actors.    *)

Loaded == {sessions[s] : s \in Sessions} \ {0}

BeginShutdown ==
  /\ down.pc = "off"
  /\ down' = [pc |-> "ask", todo |-> Loaded]
  /\ UNCHANGED <<cacheVars, gateVars, conn, local, subs, counts>>

(* The snapshot comes when no turn executes on the actor: a model's turn     *)
(* has ended by then and there is nothing left to interrupt.                 *)
AskSnapshot(a) ==
  /\ down.pc = "ask" /\ a \in down.todo
  /\ actor[a].pc = "ended" \/ ~Deaf(a)
  /\ down' = [down EXCEPT !.todo = @ \ {a}]
  /\ UNCHANGED <<cacheVars, gateVars, conn, local, subs, counts>>

ListAgain ==
  /\ down.pc = "ask" /\ down.todo = {}
  /\ down' = [pc |-> "end", todo |-> Loaded]
  /\ UNCHANGED <<cacheVars, gateVars, conn, local, subs, counts>>

EndActor(a) ==
  LET s == actor[a].session IN
  /\ down.pc = "end" /\ a \in down.todo
  /\ actor[a].pc = "ended" \/ ~Deaf(a)
  /\ actor' = [actor EXCEPT ![a].pc = "ended"]
  /\ sessions' = [sessions EXCEPT ![s] = 0]
  /\ active' = active \ {s}
  /\ down' = [down EXCEPT !.todo = @ \ {a}]
  /\ UNCHANGED <<lru, goals, gateVars, conn, local, subs, counts>>

FinishShutdown ==
  /\ down.pc = "end" /\ down.todo = {}
  /\ down' = [down EXCEPT !.pc = "done"]
  /\ UNCHANGED <<cacheVars, gateVars, conn, local, subs, counts>>

-----------------------------------------------------------------------------
Init ==
  /\ sessions = [s \in Sessions |-> 0]
  /\ actor = [a \in Actors |-> [pc |-> "none", session |-> None, turn |-> FALSE]]
  /\ lru = <<>> /\ goals = {} /\ active = {}
  /\ gate = [s \in Sessions |-> 0] /\ holder = [l \in Locks |-> None] /\ cleaners = {}
  /\ conn = [c \in Conns |-> Idle] /\ local = [c \in Conns |-> NoLocal]
  /\ subs = [c \in Conns |-> None]
  /\ down = [pc |-> "off", todo |-> {}]
  /\ requests = 0 /\ turns = 0

Handler(c) ==
  \/ JoinGate(c) \/ Enter(c) \/ Recheck(c) \/ Hydrate(c) \/ HydrateFails(c)
  \/ Insert(c) \/ Touch(c)
  \/ ListCandidates(c) \/ Pick(c) \/ RemoveActor(c) \/ AwaitShutdown(c)
  \/ ForgetGoals(c) \/ Unlist(c)
  \/ DropGuard(c) \/ DropPermit(c) \/ Snapshot(c) \/ Subscribe(c)

Shutdown ==
  \/ \E a \in Actors : AskSnapshot(a) \/ EndActor(a)
  \/ ListAgain \/ FinishShutdown

(* Nothing is under way.  In any other state something must be able to       *)
(* happen: as no behaviour is endless, every request is answered then.       *)
Quiescent ==
  /\ \A c \in Conns : conn[c].pc \in {"idle", "attached"}
  /\ cleaners = {} /\ down.pc \in {"off", "done"}
  /\ UNCHANGED vars

Next ==
  \/ \E c \in Conns : Handler(c) \/ Disconnect(c) \/ StartTurn(c) \/ \E s \in Sessions : Resume(c, s)
  \/ \E k \in cleaners : Clean(k)
  \/ \E a \in Actors : EndTurn(a)
  \/ BeginShutdown \/ Shutdown
  \/ Quiescent

Spec == Init /\ [][Next]_vars

(* tokio runs every task; nobody promises that a turn ends.                  *)
Scheduled ==
  /\ \A c \in Conns : WF_vars(Handler(c))
  /\ WF_vars(Shutdown)
  /\ WF_vars(\E k \in cleaners : Clean(k))
FairSpec == Spec /\ Scheduled

-----------------------------------------------------------------------------
(* Every variable holds what its Rust counterpart can hold.                  *)
TypeOK ==
  /\ sessions \in [Sessions -> Actors \cup {0}]
  /\ actor \in [Actors -> [pc : {"none", "serving", "ended"}, session : Sessions \cup {None},
                           turn : BOOLEAN]]
  /\ lru \in Seq(Sessions) /\ IsInjective(lru)
  /\ goals \subseteq Sessions /\ active \subseteq Sessions
  /\ gate \in [Sessions -> Locks \cup {0}]
  /\ holder \in [Locks -> Conns \cup {None}]
  /\ cleaners \subseteq [by : Conns, session : Sessions, lock : Locks]
  /\ \A c \in Conns :
       /\ conn[c].session \in Sessions \cup {None} /\ conn[c].lock \in Locks \cup {0}
       /\ local[c].actor \in Actors \cup {0} /\ local[c].victim \in Sessions \cup {None}
  /\ subs \in [Conns -> Sessions \cup {None}]
  /\ down.pc \in {"off", "ask", "end", "done"} /\ down.todo \subseteq Actors
  /\ requests \in 0..MaxResumes /\ turns \in 0..MaxTurns

(* The gate works although its locks come and go with their users: no two    *)
(* requests replay one rollout, or drain one session's rows, at a time.      *)
OneHydration ==
  \A c, d \in Conns :
    c # d /\ {conn[c].pc, conn[d].pc} \subseteq {"recheck", "hydrate", "insert"}
      => Mine(c) # Mine(d)

(* No session is replayed from disk while an actor serves it from memory:    *)
(* the actor's queue would lose its rows and its goals their progress.       *)
HydratesOnlyUnloaded ==
  \A c \in Conns : conn[c].pc \in {"hydrate", "insert"} => sessions[Mine(c)] = 0

(* lifecycle.rs says of the shutdown that it completes the deferred items of *)
(* all active turns and persists them as interrupted: it gets that far.      *)
ShutdownCompletes == down.pc = "ask" ~> down.pc = "done"
=============================================================================
