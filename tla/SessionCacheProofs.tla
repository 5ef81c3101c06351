------------------------ MODULE SessionCacheProofs -------------------------
(***************************************************************************)
(* That the load gate excludes, although it throws a session's lock away   *)
(* when the count of its users says that nobody needs it, for every number *)
(* of sessions, connections and requests.                                  *)
(* That the restoration of a turn's files keeps what the user wrote and    *)
(* undoes what nothing else got in the way of, for every set of files and  *)
(* texts and every number of changes, writes and errors.                   *)
(* That a restart brings back what the server had, nothing that an edit or *)
(* a rollback removed, in the order it had, and that the model is told all *)
(* of it, for every number of turns, requests, crashes and failing appends.*)
(***************************************************************************)
EXTENDS RolloutInvariants, FiniteSetTheorems, SequenceTheorems, WellFoundedInduction, TLAPS

Evicting == {"touchnew", "candidates", "pick", "remove", "await", "forget", "unlist"}
Inside == {"recheck", "hydrate", "insert", "drop"} \cup Evicting
ConnRecords ==
  [pc : {"idle", "join", "wait", "touch", "count", "snapshot", "subscribe", "attached"} \cup Inside,
   session : Sessions \cup {None}, lock : Locks \cup {0}]

GateTyped ==
  /\ conn \in [Conns -> ConnRecords]
  /\ gate \in [Sessions -> Locks \cup {0}]
  /\ holder \in [Locks -> Conns \cup {None}]
  /\ cleaners \subseteq [by : Conns, session : Sessions, lock : Locks]
  /\ IsFiniteSet(cleaners)
  /\ \A c \in Conns : conn[c].pc # "idle" => conn[c].session \in Sessions

(* Who has a permit, or waits for it, has the lock the gate has for its      *)
(* session; who is inside holds it.                                          *)
Permits ==
  /\ \A c \in Conns : conn[c].pc \in {"idle", "join"} => conn[c].lock = 0
  /\ \A c \in Conns : conn[c].pc \in {"wait", "count"} \cup Inside => conn[c].lock # 0
  /\ \A c \in Conns : conn[c].lock # 0 => conn[c].pc # "idle" /\ gate[conn[c].session] = conn[c].lock
Holds(c) == conn[c].pc \in Inside \/ (conn[c].pc = "touch" /\ conn[c].lock # 0)
Exclusion == \A c \in Conns : Holds(c) => holder[conn[c].lock] = c
GateInv == GateTyped /\ Permits /\ Exclusion

LEMMA NoLockZero == 0 \notin Locks /\ Unused \subseteq Locks
<1>1. \A n : \A i \in 1..n : i # 0
  OBVIOUS
<1> QED
  BY <1>1 DEF Locks, Unused

LEMMA InitGate == Init => GateInv
<1> SUFFICES ASSUME Init PROVE GateInv
  OBVIOUS
<1>1. IsFiniteSet(cleaners)
  BY FS_EmptySet DEF Init
<1>2. GateTyped
  BY <1>1 DEF Init, Idle, GateTyped, ConnRecords
<1>3. Permits /\ Exclusion
  BY DEF Init, Idle, Permits, Exclusion, Holds, Inside, Evicting
<1> QED
  BY <1>2, <1>3 DEF GateInv

(* A count of two, the gate's own and the task's, means that no connection   *)
(* has or awaits the lock.                                                   *)
LEMMA LastUser ==
  ASSUME GateTyped, NEW k \in cleaners, gate[k.session] = k.lock, StrongCount(k.lock) = 2
  PROVE  \A c \in Conns : conn[c].lock # k.lock
<1> DEFINE l == k.lock
           InGate == {s \in Sessions : gate[s] = l}
           InConn == {c \in Conns : conn[c].lock = l}
           InTasks == {j \in cleaners : j.lock = l}
<1>1. /\ IsFiniteSet(InGate) /\ IsFiniteSet(InConn) /\ IsFiniteSet(InTasks)
  <2>1. InGate \in SUBSET Sessions /\ InConn \in SUBSET Conns /\ InTasks \in SUBSET cleaners
    OBVIOUS
  <2>2. IsFiniteSet(Sessions) /\ IsFiniteSet(Conns) /\ IsFiniteSet(cleaners)
    BY CacheAssumption DEF GateTyped
  <2> HIDE DEF InGate, InConn, InTasks
  <2> QED
    BY <2>1, <2>2, FS_Subset
<1>2. k.session \in InGate /\ k \in InTasks
  BY DEF GateTyped
<1>3. Cardinality(InGate) + Cardinality(InConn) + Cardinality(InTasks) = 2
  BY DEF StrongCount
<1> HIDE DEF InGate, InConn, InTasks
<1>4. Cardinality(InGate) \in Nat /\ Cardinality(InConn) \in Nat /\ Cardinality(InTasks) \in Nat
  BY <1>1, FS_CardinalityType
<1>5. Cardinality(InGate) # 0 /\ Cardinality(InTasks) # 0
  BY <1>1, <1>2, FS_EmptySet
<1>6. Cardinality(InConn) = 0
  BY <1>3, <1>4, <1>5
<1>7. InConn = {}
  BY <1>1, <1>6, FS_EmptySet
<1> QED
  BY <1>7 DEF InConn

LEMMA CleanKeepsGate == ASSUME GateInv, NEW k \in cleaners, Clean(k) PROVE GateInv'
<1> USE DEF GateInv
<1>1. UNCHANGED <<conn, holder>> /\ cleaners' = cleaners \ {k}
  BY DEF Clean
<1>2. IsFiniteSet(cleaners') /\ cleaners' \subseteq cleaners
  BY <1>1, FS_RemoveElement DEF GateTyped
<1>3. k.session \in Sessions /\ k.lock \in Locks
  BY DEF GateTyped
<1>4. CASE gate[k.session] = k.lock /\ StrongCount(k.lock) = 2
  <2>1. gate' = [gate EXCEPT ![k.session] = 0]
    BY <1>4 DEF Clean
  <2>2. \A c \in Conns : conn[c].lock # k.lock
    BY <1>4, LastUser
  <2>3. GateTyped'
    BY <1>1, <1>2, <2>1 DEF GateTyped
  <2>4. Permits'
    BY <1>1, <1>3, <1>4, <2>1, <2>2 DEF Permits, GateTyped
  <2>5. Exclusion'
    BY <1>1 DEF Exclusion, Holds
  <2> QED
    BY <2>3, <2>4, <2>5
<1>5. CASE ~(gate[k.session] = k.lock /\ StrongCount(k.lock) = 2)
  <2>1. gate' = gate
    BY <1>5 DEF Clean
  <2> QED
    BY <1>1, <1>2, <2>1 DEF GateTyped, Permits, Exclusion, Holds
<1> QED
  BY <1>4, <1>5

LEMMA JoinKeepsGate == ASSUME GateInv, NEW c \in Conns, JoinGate(c) PROVE GateInv'
<1> USE DEF GateInv
<1>1. PICK l \in Locks : /\ gate' = [gate EXCEPT ![conn[c].session] = l]
                         /\ conn' = [conn EXCEPT ![c].pc = "wait", ![c].lock = l]
                         /\ gate[conn[c].session] # 0 => l = gate[conn[c].session]
  <2>1. gate[conn[c].session] \in Locks \cup {0}
    BY DEF JoinGate, At, GateTyped
  <2> QED
    BY <2>1, NoLockZero DEF JoinGate, Mine
<1>2. conn[c].pc = "join" /\ conn[c].session \in Sessions /\ conn[c].lock = 0
  BY DEF JoinGate, At, GateTyped, Permits
<1>3. UNCHANGED <<holder, cleaners>>
  BY DEF JoinGate
<1>4. l # 0
  BY NoLockZero
<1>5. GateTyped'
  <2>1. conn' \in [Conns -> ConnRecords] /\ \A d \in Conns : conn'[d].session = conn[d].session
    BY <1>1 DEF GateTyped, ConnRecords
  <2>2. \A d \in Conns : conn'[d].pc # "idle" => conn'[d].session \in Sessions
    BY <1>1, <1>2, <2>1 DEF GateTyped
  <2>3. gate' \in [Sessions -> Locks \cup {0}]
    BY <1>1 DEF GateTyped
  <2> QED
    BY <1>3, <2>1, <2>2, <2>3 DEF GateTyped
<1>6. \A d \in Conns : d # c => conn'[d] = conn[d]
  BY <1>1 DEF GateTyped
<1>7. conn'[c].pc = "wait" /\ conn'[c].lock = l /\ conn'[c].session = conn[c].session
  BY <1>1 DEF GateTyped, ConnRecords
<1>8. gate'[conn[c].session] = l /\ \A s \in Sessions : s # conn[c].session => gate'[s] = gate[s]
  BY <1>1, <1>2 DEF GateTyped
<1>9. Permits'
  <2> SUFFICES ASSUME NEW d \in Conns
               PROVE  /\ conn'[d].pc \in {"idle", "join"} => conn'[d].lock = 0
                      /\ conn'[d].pc \in {"wait", "count"} \cup Inside => conn'[d].lock # 0
                      /\ conn'[d].lock # 0 => conn'[d].pc # "idle" /\ gate'[conn'[d].session] = conn'[d].lock
    BY DEF Permits
  <2>1. CASE d = c
    BY <2>1, <1>4, <1>7, <1>8
  <2>2. CASE d # c /\ conn[d].lock # 0
    <3>1. conn[d].session \in Sessions /\ gate[conn[d].session] = conn[d].lock
      BY <2>2 DEF Permits, GateTyped
    <3>2. gate'[conn[d].session] = gate[conn[d].session]
      BY <1>1, <1>8, <2>2, <3>1
    <3> QED
      BY <1>6, <2>2, <3>1, <3>2 DEF Permits
  <2>3. CASE d # c /\ conn[d].lock = 0
    BY <1>6, <2>3 DEF Permits
  <2> QED
    BY <2>1, <2>2, <2>3
<1>10. Exclusion'
  BY <1>3, <1>6, <1>7 DEF Exclusion, Holds, Inside, Evicting
<1> QED
  BY <1>5, <1>9, <1>10

LEMMA EnterKeepsGate == ASSUME GateInv, NEW c \in Conns, Enter(c) PROVE GateInv'
<1> USE DEF GateInv
<1>1. /\ conn[c].pc = "wait" /\ holder[conn[c].lock] = None
      /\ holder' = [holder EXCEPT ![conn[c].lock] = c]
      /\ conn' = [conn EXCEPT ![c].pc = "recheck"]
      /\ UNCHANGED <<gate, cleaners>>
  BY DEF Enter, At, Goto
<1>2. conn[c].lock \in Locks /\ conn[c].session \in Sessions
  BY <1>1 DEF Permits, GateTyped, ConnRecords
<1>3. /\ \A d \in Conns : d # c => conn'[d] = conn[d]
      /\ conn'[c].pc = "recheck" /\ conn'[c].lock = conn[c].lock /\ conn'[c].session = conn[c].session
  BY <1>1 DEF GateTyped, ConnRecords
<1>4. GateTyped'
  BY <1>1, <1>2 DEF GateTyped, ConnRecords, Inside
<1>5. Permits'
  BY <1>1, <1>2, <1>3 DEF Permits
<1>6. Exclusion'
  BY <1>1, <1>2, <1>3, CacheAssumption DEF Exclusion, Holds, GateTyped
<1> QED
  BY <1>4, <1>5, <1>6

LEMMA DropGuardKeepsGate == ASSUME GateInv, NEW c \in Conns, DropGuard(c) PROVE GateInv'
<1> USE DEF GateInv
<1>1. /\ conn[c].pc = "drop"
      /\ holder' = [holder EXCEPT ![conn[c].lock] = None]
      /\ conn' = [conn EXCEPT ![c].pc = "count"]
      /\ UNCHANGED <<gate, cleaners>>
  BY DEF DropGuard, At, Goto
<1>2. /\ conn[c].lock \in Locks /\ conn[c].session \in Sessions /\ holder[conn[c].lock] = c
      /\ gate[conn[c].session] = conn[c].lock /\ conn[c].lock # 0
  BY <1>1 DEF Permits, GateTyped, ConnRecords, Exclusion, Holds, Inside
<1>3. /\ \A d \in Conns : d # c => conn'[d] = conn[d]
      /\ conn'[c].pc = "count" /\ conn'[c].lock = conn[c].lock /\ conn'[c].session = conn[c].session
  BY <1>1 DEF GateTyped, ConnRecords
<1>4. GateTyped'
  BY <1>1, <1>2 DEF GateTyped, ConnRecords
<1>5. Permits'
  BY <1>1, <1>2, <1>3 DEF Permits
<1>6. Exclusion'
  BY <1>1, <1>2, <1>3 DEF Exclusion, Holds, GateTyped, Inside, Evicting
<1> QED
  BY <1>4, <1>5, <1>6

LEMMA DropPermitKeepsGate == ASSUME GateInv, NEW c \in Conns, DropPermit(c) PROVE GateInv'
<1> USE DEF GateInv
<1>1. /\ conn[c].pc = "count"
      /\ conn' = [conn EXCEPT ![c].pc = "snapshot", ![c].lock = 0]
      /\ UNCHANGED <<gate, holder>>
      /\ \/ cleaners' = cleaners
         \/ cleaners' = cleaners \cup {[by |-> c, session |-> conn[c].session, lock |-> conn[c].lock]}
  BY DEF DropPermit, At, Mine
<1>2. conn[c].lock \in Locks /\ conn[c].session \in Sessions
  BY <1>1 DEF Permits, GateTyped, ConnRecords
<1>3. /\ \A d \in Conns : d # c => conn'[d] = conn[d]
      /\ conn'[c].pc = "snapshot" /\ conn'[c].lock = 0 /\ conn'[c].session = conn[c].session
  BY <1>1 DEF GateTyped, ConnRecords
<1>4. cleaners' \subseteq [by : Conns, session : Sessions, lock : Locks] /\ IsFiniteSet(cleaners')
  <2> DEFINE k == [by |-> c, session |-> conn[c].session, lock |-> conn[c].lock]
  <2>1. k \in [by : Conns, session : Sessions, lock : Locks]
    BY <1>2
  <2>2. cleaners \subseteq [by : Conns, session : Sessions, lock : Locks] /\ IsFiniteSet(cleaners)
    BY DEF GateTyped
  <2>3. cleaners' = cleaners \/ cleaners' = cleaners \cup {k}
    BY <1>1
  <2> HIDE DEF k
  <2>4. IsFiniteSet(cleaners \cup {k})
    BY <2>2, FS_AddElement
  <2> QED
    BY <2>1, <2>2, <2>3, <2>4
<1>5. GateTyped'
  BY ZenonT(40), <1>1, <1>2, <1>4 DEF GateTyped, ConnRecords
<1>6. Permits'
  BY <1>1, <1>3 DEF Permits, Inside, Evicting
<1>7. Exclusion'
  BY <1>1, <1>3 DEF Exclusion, Holds, Inside, Evicting
<1> QED
  BY <1>5, <1>6, <1>7

(* The rest of a handler moves on and leaves the gate alone.                 *)
MovesFrom(c, to) == conn' = [conn EXCEPT ![c].pc = to] /\ UNCHANGED gateVars
LEMMA MoveKeepsGate ==
  ASSUME GateInv, NEW c \in Conns, NEW to, MovesFrom(c, to), conn[c].pc # "idle",
         \/ (Holds(c) /\ to \in Inside)
         \/ (conn[c].pc = "recheck" /\ to = "touch")
         \/ conn[c].pc = "touch" /\ conn[c].lock = 0 /\ to = "snapshot"
  PROVE  GateInv'
<1> USE DEF GateInv
<1>1. conn' = [conn EXCEPT ![c].pc = to] /\ UNCHANGED <<gate, holder, cleaners>>
  BY DEF MovesFrom, gateVars
<1>2. to \in {"touch", "snapshot"} \cup Inside
  OBVIOUS
<1>3. /\ \A d \in Conns : d # c => conn'[d] = conn[d]
      /\ conn'[c].pc = to /\ conn'[c].lock = conn[c].lock /\ conn'[c].session = conn[c].session
  BY <1>1 DEF GateTyped, ConnRecords
<1>4. GateTyped'
  BY <1>1, <1>2 DEF GateTyped, ConnRecords
<1>5. "recheck" \in Inside /\ "idle" \notin Inside /\ "join" \notin Inside /\ "snapshot" \notin Inside
      /\ "touch" \notin Inside /\ "wait" \notin Inside /\ "count" \notin Inside
  BY DEF Inside, Evicting
<1>6. Permits'
  BY <1>1, <1>2, <1>3, <1>5 DEF Permits, Holds
<1>7. Exclusion'
  BY <1>1, <1>2, <1>3, <1>5 DEF Exclusion, Holds
<1> QED
  BY <1>4, <1>6, <1>7

LEMMA RestKeepsGate ==
  ASSUME GateInv, NEW c \in Conns,
         Snapshot(c) \/ Subscribe(c) \/ Disconnect(c) \/ \E s \in Sessions : Resume(c, s)
  PROVE  GateInv'
<1> USE DEF GateInv
<1>1. UNCHANGED <<gate, holder, cleaners>>
  BY DEF Snapshot, Subscribe, Disconnect, Resume, gateVars
<1>2. /\ \A d \in Conns : d # c => conn'[d] = conn[d]
      /\ conn' \in [Conns -> ConnRecords]
      /\ conn'[c].pc # "idle" => conn'[c].session \in Sessions
      /\ \/ conn'[c].lock = 0 /\ conn'[c].pc \in {"idle", "attached", "touch", "join"}
         \/ conn'[c].lock = conn[c].lock /\ conn'[c].session = conn[c].session /\ conn'[c].pc = "subscribe"
  <2>1. CASE Snapshot(c)
    BY <2>1 DEF Snapshot, GateTyped, ConnRecords, Idle, At
  <2>2. CASE Subscribe(c)
    BY <2>2 DEF Subscribe, GateTyped, ConnRecords, Idle, At, Mine
  <2>3. CASE Disconnect(c)
    BY <2>3 DEF Disconnect, GateTyped, ConnRecords, Idle
  <2>4. ASSUME NEW s \in Sessions, Resume(c, s)
        PROVE  /\ \A d \in Conns : d # c => conn'[d] = conn[d]
               /\ conn' \in [Conns -> ConnRecords]
               /\ conn'[c].session \in Sessions
               /\ conn'[c].lock = 0 /\ conn'[c].pc \in {"touch", "join"}
    <3>1. PICK pc \in {"touch", "join"} : conn' = [conn EXCEPT ![c].session = s, ![c].pc = pc]
      BY <2>4 DEF Resume
    <3>2. conn[c].lock = 0
      BY <2>4 DEF Resume, At, Permits
    <3> QED
      BY <3>1, <3>2 DEF GateTyped, ConnRecords
  <2> QED
    BY <2>1, <2>2, <2>3, <2>4
<1>3. conn[c].lock # 0 => gate[conn[c].session] = conn[c].lock
  BY DEF Permits
<1>4. GateTyped'
  BY <1>1, <1>2 DEF GateTyped
<1>5. Permits'
  BY <1>1, <1>2, <1>3 DEF Permits, Inside, Evicting
<1>6. Exclusion'
  BY <1>1, <1>2 DEF Exclusion, Holds, Inside, Evicting
<1> QED
  BY <1>4, <1>5, <1>6

LEMMA HandlerKeepsGate == ASSUME GateInv, NEW c \in Conns, Handler(c) PROVE GateInv'
<1> USE DEF At, Goto, MovesFrom
<1>1. conn[c].pc # "idle" => Holds(c) \/ conn[c].pc \notin Inside
  BY DEF Holds
<1>2. /\ {"touch", "snapshot", "subscribe", "idle"} \cap Inside = {} /\ Evicting \subseteq Inside
      /\ {"recheck", "hydrate", "insert", "drop"} \subseteq Inside /\ "idle" \notin Inside
  BY DEF Inside, Evicting
<1>3. CASE Recheck(c)
  <2>1. PICK to \in {"touch", "hydrate"} : MovesFrom(c, to)
    BY <1>3 DEF Recheck
  <2> QED
    BY <1>1, <1>2, <1>3, <2>1, MoveKeepsGate DEF Recheck
<1>4. CASE Hydrate(c) \/ HydrateFails(c)
  <2>1. PICK to \in {"insert", "drop"} : MovesFrom(c, to)
    BY <1>4 DEF Hydrate, HydrateFails, gateVars
  <2>2. conn[c].pc = "hydrate"
    BY <1>4 DEF Hydrate, HydrateFails
  <2> QED
    BY <1>1, <1>2, <2>1, <2>2, MoveKeepsGate
<1>5. CASE Insert(c)
  <2>1. MovesFrom(c, "touchnew") /\ conn[c].pc = "insert" /\ "touchnew" \in Inside
    BY <1>5 DEF Insert, Inside, Evicting
  <2> QED
    BY <1>1, <1>2, <2>1, MoveKeepsGate
<1>6. CASE Touch(c)
  <2>1. CASE conn[c].pc = "touchnew"
    <3>1. MovesFrom(c, "candidates")
      <4>1. conn[c].lock # 0
        BY <2>1 DEF GateInv, Permits, Inside, Evicting
      <4> QED
        BY <1>6, <2>1, <4>1 DEF Touch
    <3>2. "candidates" \in Inside /\ "touchnew" \in Inside
      BY DEF Inside, Evicting
    <3> QED
      BY <1>1, <2>1, <3>1, <3>2, MoveKeepsGate
  <2>2. CASE conn[c].pc = "touch" /\ conn[c].lock = 0
    <3>1. MovesFrom(c, "snapshot")
      BY <1>6, <2>2 DEF Touch
    <3> QED
      BY <2>2, <3>1, MoveKeepsGate
  <2>3. CASE conn[c].pc = "touch" /\ conn[c].lock # 0
    <3>1. MovesFrom(c, "drop") /\ Holds(c)
      BY <1>6, <2>3 DEF Touch, Holds
    <3> QED
      BY <1>2, <2>3, <3>1, MoveKeepsGate
  <2> QED
    BY <1>6, <2>1, <2>2, <2>3 DEF Touch
<1>7. CASE ListCandidates(c) \/ Pick(c) \/ RemoveActor(c) \/ AwaitShutdown(c) \/ ForgetGoals(c) \/ Unlist(c)
  <2>1. conn[c].pc \in Evicting
    BY <1>7 DEF ListCandidates, Pick, RemoveActor, AwaitShutdown, ForgetGoals, Unlist, Evicting
  <2>2. \/ UNCHANGED <<conn, gateVars>>
        \/ \E to \in {"drop", "pick", "remove", "await", "forget", "unlist"} : MovesFrom(c, to)
    BY <1>7 DEF ListCandidates, Pick, RemoveActor, AwaitShutdown, ForgetGoals, Unlist
  <2>3. CASE UNCHANGED <<conn, gateVars>>
    BY <2>3 DEF GateInv, GateTyped, Permits, Exclusion, Holds, gateVars
  <2>4. ASSUME NEW to \in {"drop", "pick", "remove", "await", "forget", "unlist"}, MovesFrom(c, to)
        PROVE  GateInv'
    <3>1. to \in Inside /\ Holds(c) /\ conn[c].pc # "idle"
      BY <1>1, <1>2, <2>1 DEF Holds, Inside, Evicting
    <3> QED
      BY <2>4, <3>1, MoveKeepsGate
  <2> QED
    BY <2>2, <2>3, <2>4
<1>8. CASE JoinGate(c) \/ Enter(c) \/ DropGuard(c) \/ DropPermit(c)
  BY <1>8, JoinKeepsGate, EnterKeepsGate, DropGuardKeepsGate, DropPermitKeepsGate
<1>9. CASE Snapshot(c) \/ Subscribe(c)
  BY <1>9, RestKeepsGate
<1> QED
  BY <1>3, <1>4, <1>5, <1>6, <1>7, <1>8, <1>9 DEF Handler

LEMMA StepGate == GateInv /\ [Next]_vars => GateInv'
<1> SUFFICES ASSUME GateInv, [Next]_vars PROVE GateInv'
  OBVIOUS
<1>1. ASSUME NEW c \in Conns, Handler(c) PROVE GateInv'
  BY <1>1, HandlerKeepsGate
<1>2. ASSUME NEW c \in Conns, Disconnect(c) \/ \E s \in Sessions : Resume(c, s) PROVE GateInv'
  BY <1>2, RestKeepsGate
<1>3. ASSUME NEW k \in cleaners, Clean(k) PROVE GateInv'
  BY <1>3, CleanKeepsGate
<1>4. CASE UNCHANGED <<conn, gateVars>>
  BY <1>4 DEF GateInv, GateTyped, Permits, Exclusion, Holds, gateVars
<1>5. ASSUME NEW c \in Conns, StartTurn(c) PROVE UNCHANGED <<conn, gateVars>>
  BY <1>5 DEF StartTurn
<1>6. ASSUME NEW a \in Actors, EndTurn(a) \/ AskSnapshot(a) \/ EndActor(a) PROVE UNCHANGED <<conn, gateVars>>
  BY <1>6 DEF EndTurn, AskSnapshot, EndActor
<1>7. BeginShutdown \/ ListAgain \/ FinishShutdown \/ UNCHANGED vars => UNCHANGED <<conn, gateVars>>
  BY DEF BeginShutdown, ListAgain, FinishShutdown, vars
<1> QED
  BY <1>1, <1>2, <1>3, <1>4, <1>5, <1>6, <1>7 DEF Next, Shutdown, Quiescent

(* Two requests for one session wait for one lock, and it has one holder:    *)
(* whatever the gate forgot in between, it gave nobody a second lock for a   *)
(* session while somebody used the first.                                    *)
THEOREM GateExcludes == Spec => []OneHydration
<1>1. GateInv => OneHydration
  <2> SUFFICES ASSUME GateInv, NEW c \in Conns, NEW d \in Conns, c # d,
                      {conn[c].pc, conn[d].pc} \subseteq {"recheck", "hydrate", "insert"}
               PROVE  Mine(c) # Mine(d)
    BY DEF OneHydration
  <2>1. /\ holder[conn[c].lock] = c /\ holder[conn[d].lock] = d
        /\ gate[conn[c].session] = conn[c].lock /\ gate[conn[d].session] = conn[d].lock
    BY DEF GateInv, Exclusion, Permits, Holds, Inside
  <2> QED
    BY <2>1 DEF Mine
<1> QED
  BY InitGate, StepGate, <1>1, PTL DEF Spec

-----------------------------------------------------------------------------
(* Only who is inside makes a session loaded.                                *)
Unloaded == sessions = [s \in Sessions |-> sessions[s]] /\ HydratesOnlyUnloaded

LEMMA StepUnloaded == GateInv /\ OneHydration /\ Unloaded /\ [Next]_vars => Unloaded'
<1> SUFFICES ASSUME GateInv, OneHydration, Unloaded, [Next]_vars PROVE Unloaded'
  OBVIOUS
<1>1. conn \in [Conns -> ConnRecords] /\ \A c \in Conns : conn[c].pc # "idle" => conn[c].session \in Sessions
  BY DEF GateInv, GateTyped
<1>2. ASSUME \A s \in Sessions : sessions'[s] \in {sessions[s], 0},
             sessions' = [s \in Sessions |-> sessions'[s]],
             \A c \in Conns : conn'[c].pc \in {"hydrate", "insert"} =>
               /\ conn[c].pc \in {"hydrate", "insert"} \/ (conn[c].pc = "recheck" /\ sessions[conn[c].session] = 0)
               /\ conn'[c].session = conn[c].session
      PROVE  Unloaded'
  BY <1>1, <1>2 DEF Unloaded, HydratesOnlyUnloaded, Mine
<1>3. CASE \E c \in Conns : Insert(c)
  <2>1. PICK c \in Conns : Insert(c)
    BY <1>3
  <2>2. /\ \A d \in Conns : d # c => conn'[d] = conn[d]
        /\ conn[c].pc = "insert" /\ conn'[c].pc = "touchnew" /\ conn[c].session \in Sessions
    BY <1>1, <2>1 DEF Insert, Goto, At, ConnRecords
  <2>3. /\ sessions' = [s \in Sessions |-> sessions'[s]]
        /\ \A s \in Sessions : s # conn[c].session => sessions'[s] = sessions[s]
    BY <2>1, <2>2 DEF Insert, Mine, Unloaded
  <2>4. ASSUME NEW d \in Conns, conn'[d].pc \in {"hydrate", "insert"} PROVE sessions'[conn'[d].session] = 0
    <3>1. d # c /\ conn'[d] = conn[d]
      BY <2>2, <2>4
    <3>2. conn[d].session \in Sessions /\ sessions[conn[d].session] = 0
      BY <1>1, <2>4, <3>1 DEF Unloaded, HydratesOnlyUnloaded, Mine
    <3>3. conn[d].session # conn[c].session
      BY <2>2, <2>4, <3>1 DEF OneHydration, Mine
    <3> QED
      BY <2>3, <3>1, <3>2, <3>3
  <2> QED
    BY <2>3, <2>4 DEF Unloaded, HydratesOnlyUnloaded, Mine
<1> DEFINE Follows(c) ==
      conn'[c].pc \in {"hydrate", "insert"} =>
        /\ conn[c].pc \in {"hydrate", "insert"} \/ (conn[c].pc = "recheck" /\ sessions[conn[c].session] = 0)
        /\ conn'[c].session = conn[c].session
<1>4. ASSUME NEW c \in Conns, conn'[c] = conn[c] PROVE Follows(c)
  BY <1>4
<1>5. ASSUME NEW c \in Conns, Handler(c), ~Insert(c) PROVE \A d \in Conns : Follows(d)
  <2>1. ASSUME NEW d \in Conns, d # c PROVE conn'[d] = conn[d]
    BY <1>1, <1>5, <2>1 DEF Handler, JoinGate, Enter, Recheck, Hydrate, HydrateFails, Touch, ListCandidates, Pick,
       RemoveActor, AwaitShutdown, ForgetGoals, Unlist, DropGuard, DropPermit, Snapshot, Subscribe, Goto
  <2>2. Follows(c)
    <3>1. CASE Recheck(c)
      BY <1>1, <3>1 DEF Recheck, Goto, At, Mine, ConnRecords
    <3>2. CASE Hydrate(c)
      <4>1. conn[c].pc = "hydrate" /\ conn' = [conn EXCEPT ![c].pc = "insert"]
        BY <3>2 DEF Hydrate, Goto, At
      <4>2. conn'[c].session = conn[c].session
        BY <1>1, <4>1 DEF ConnRecords
      <4> QED
        BY <4>1, <4>2
    <3>3. ASSUME ~Recheck(c), ~Hydrate(c)
          PROVE  UNCHANGED conn \/ conn'[c].pc \notin {"hydrate", "insert"}
      <4>1. CASE JoinGate(c) \/ Enter(c) \/ HydrateFails(c) \/ Touch(c)
        <5>1. CASE JoinGate(c)
          BY <1>1, <5>1 DEF JoinGate, ConnRecords
        <5>2. CASE Enter(c) \/ HydrateFails(c)
          BY <1>1, <5>2 DEF Enter, HydrateFails, Goto, ConnRecords
        <5>3. CASE Touch(c)
          <6>1. PICK to : conn' = [conn EXCEPT ![c].pc = to] /\ to = CASE At(c, "touchnew") -> "candidates"
                                                                     [] conn[c].lock = 0    -> "snapshot"
                                                                     [] OTHER               -> "drop"
            BY <5>3 DEF Touch, Goto
          <6>2. to \in {"candidates", "snapshot", "drop"}
            BY <6>1
          <6> QED
            BY <1>1, <6>1, <6>2 DEF ConnRecords
        <5> QED
          BY <4>1, <5>1, <5>2, <5>3
      <4>2. CASE ListCandidates(c) \/ Pick(c) \/ RemoveActor(c) \/ AwaitShutdown(c) \/ ForgetGoals(c) \/ Unlist(c)
        BY <1>1, <4>2 DEF ListCandidates, Pick, RemoveActor, AwaitShutdown, ForgetGoals, Unlist, Goto, ConnRecords
      <4>3. CASE DropGuard(c) \/ DropPermit(c)
        BY <1>1, <4>3 DEF DropGuard, DropPermit, Goto, ConnRecords
      <4>4. CASE Snapshot(c) \/ Subscribe(c)
        <5>1. conn'[c].pc \in {"subscribe", "idle", "attached"}
          <6>1. CASE Snapshot(c)
            BY <1>1, <6>1 DEF Snapshot, Idle, ConnRecords
          <6>2. CASE Subscribe(c)
            BY <1>1, <6>2 DEF Subscribe, Idle
          <6> QED
            BY <4>4, <6>1, <6>2
        <5> QED
          BY <5>1
      <4> QED
        BY <1>5, <3>3, <4>1, <4>2, <4>3, <4>4 DEF Handler
    <3> QED
      BY <1>4, <3>1, <3>2, <3>3
  <2> QED
    BY <1>4, <2>1, <2>2
<1>6. ASSUME NEW c \in Conns, Handler(c), ~Insert(c)
      PROVE  UNCHANGED sessions \/ \E s : sessions' = [sessions EXCEPT ![s] = 0]
  BY <1>6 DEF Handler, JoinGate, Enter, Recheck, Hydrate, HydrateFails, Touch, ListCandidates, Pick,
     RemoveActor, AwaitShutdown, ForgetGoals, Unlist, DropGuard, DropPermit, Snapshot, Subscribe, cacheVars
<1>7. ASSUME UNCHANGED sessions \/ \E s : sessions' = [sessions EXCEPT ![s] = 0],
             \A c \in Conns : Follows(c)
      PROVE  Unloaded'
  <2>1. /\ \A s \in Sessions : sessions'[s] \in {sessions[s], 0}
        /\ sessions' = [s \in Sessions |-> sessions'[s]]
    BY <1>7 DEF Unloaded
  <2> QED
    BY <1>2, <1>7, <2>1
<1>8. ASSUME NEW c \in Conns, Disconnect(c) \/ StartTurn(c) \/ \E s \in Sessions : Resume(c, s) PROVE Unloaded'
  <2>1. UNCHANGED sessions
    BY <1>8 DEF Disconnect, StartTurn, Resume, cacheVars
  <2>2. ASSUME NEW d \in Conns PROVE conn'[d] = conn[d] \/ conn'[d].pc \notin {"hydrate", "insert"}
    <3>1. CASE Disconnect(c)
      BY <1>1, <3>1 DEF Disconnect, Idle
    <3>2. CASE StartTurn(c)
      BY <3>2 DEF StartTurn
    <3>3. ASSUME NEW s \in Sessions, Resume(c, s)
          PROVE  conn'[d] = conn[d] \/ conn'[d].pc \notin {"hydrate", "insert"}
      <4>1. PICK pc \in {"touch", "join"} : conn' = [conn EXCEPT ![c].session = s, ![c].pc = pc]
        BY <3>3 DEF Resume
      <4> QED
        BY <1>1, <4>1 DEF ConnRecords
    <3> QED
      BY <1>8, <3>1, <3>2, <3>3
  <2> QED
    BY <1>4, <1>7, <2>1, <2>2
<1>9. ASSUME NEW a \in Actors, EndTurn(a) \/ AskSnapshot(a) \/ EndActor(a) PROVE Unloaded'
  <2>1. UNCHANGED conn /\ (UNCHANGED sessions \/ \E s : sessions' = [sessions EXCEPT ![s] = 0])
    BY <1>9 DEF EndTurn, AskSnapshot, EndActor, cacheVars
  <2> QED
    BY <1>4, <1>7, <2>1
<1>10. ASSUME BeginShutdown \/ ListAgain \/ FinishShutdown \/ UNCHANGED vars \/ \E k \in cleaners : Clean(k)
       PROVE  Unloaded'
  <2>1. UNCHANGED <<conn, sessions>>
    BY <1>10 DEF BeginShutdown, ListAgain, FinishShutdown, Clean, vars, cacheVars
  <2> QED
    BY <1>4, <1>7, <2>1
<1>11. ASSUME NEW c \in Conns, Handler(c) PROVE Unloaded'
  BY <1>3, <1>5, <1>6, <1>7, <1>11
<1> QED
  BY <1>8, <1>9, <1>10, <1>11 DEF Next, Shutdown, Quiescent

(* The look under the lock is enough: until the request that found the       *)
(* session unloaded has inserted its actor, nobody else does.                *)
THEOREM HydratesFromRest == Spec => []HydratesOnlyUnloaded
<1>1. Init => Unloaded
  BY DEF Init, Idle, Unloaded, HydratesOnlyUnloaded
<1>2. Unloaded => HydratesOnlyUnloaded
  BY DEF Unloaded
<1> QED
  BY InitGate, StepGate, <1>1, <1>2, StepUnloaded, GateExcludes, PTL DEF Spec

-----------------------------------------------------------------------------
(* The files of an edited message's turn.                                    *)

Recorded ==
  {c \in [kind : {"added", "modified", "deleted", "moved"}, path : Paths, source : Paths,
          pre : Workspace!Contents, post : Workspace!Contents] :
     c.kind # "moved" => c.source = c.path}
Statuses == {"restored", "skipped", "failed"}

FilesTyped ==
  /\ files \in [Paths -> Workspace!Contents]
  /\ theirs \in [Paths -> Workspace!Contents \cup {None}]
  /\ records \in Seq(Recorded) /\ report \in Seq(Statuses)
  /\ Len(report) <= Len(records)

(* What was looked at is still so unless the user has written since.         *)
Found(p, content) == p \notin since => files[p] = content
Seen ==
  LET c == Workspace!Current IN
  phase = "restoring" /\ Len(report) < Len(records) =>
    /\ step \in {"source", "remove"} => Found(c.path, c.post)
    /\ step = "source" => Workspace!Moved
    /\ step = "write" => Found(c.source, IF Workspace!Moved THEN Absent ELSE c.post)
    /\ step = "write" /\ Workspace!Moved => Found(c.path, c.post)

Kept ==
  \A p \in Paths :
    theirs[p] \notin Workspace!Left(p) \cup {None} /\ p \notin overrun => files[p] = theirs[p]
Unwritten == phase = "turn" => \A p \in Paths : theirs[p] = None
FilesInv == FilesTyped /\ Seen /\ Kept /\ Unwritten

workspaceOwn == <<files, records, phase, step, report, before, theirs, since, overrun, partial>>

LEMMA Current0 ==
  ASSUME FilesTyped, Len(report) < Len(records)
  PROVE  /\ Workspace!Current \in Recorded
         /\ Workspace!Current.post \in Workspace!Left(Workspace!Current.path)
         /\ Workspace!Moved => Absent \in Workspace!Left(Workspace!Current.source)
<1> DEFINE n == Len(report) + 1
<1>1. n \in DOMAIN records /\ records[n] \in Recorded
  BY DEF FilesTyped
<1>2. records[n] \in Workspace!ToSet(records)
  BY <1>1 DEF Workspace!ToSet
<1> QED
  BY <1>1, <1>2 DEF Workspace!Current, Workspace!Moved, Workspace!Left

LEMMA InitFiles == Workspace!Init \/ Workspace!Unused => FilesInv
<1> SUFFICES ASSUME NEW fs \in [Paths -> Workspace!Contents], Workspace!Fresh(fs) PROVE FilesInv
  BY DEF Workspace!Init, Workspace!Unused, Workspace!Contents
<1>1. FilesTyped
  BY DEF Workspace!Fresh, FilesTyped
<1> QED
  BY <1>1 DEF Workspace!Fresh, FilesInv, Seen, Kept, Unwritten

(* The turn writes files and appends to the records.                         *)
LEMMA TurnFiles ==
  ASSUME FilesInv, phase = "turn", UNCHANGED <<phase, theirs, report>>,
         files' \in [Paths -> Workspace!Contents],
         NEW more \in Seq(Recorded), records' = records \o more
  PROVE  FilesInv'
<1>1. FilesTyped'
  BY DEF FilesInv, FilesTyped
<1> QED
  BY <1>1 DEF FilesInv, Seen, Kept, Unwritten

LEMMA CandidateRecorded ==
  ASSUME FilesTyped, NEW c \in Workspace!PatchChanges PROVE Workspace!Candidate(c) \in Recorded
<1> USE DEF Workspace!Contents
<1>1. CASE \E p \in Paths, text \in Texts : c = Workspace!PatchChange("add", p, p, text)
  BY <1>1 DEF Workspace!Candidate, Workspace!PatchChange, Recorded, Workspace!Added
<1>2. CASE \E p \in Workspace!Readable, text \in Texts : c = Workspace!PatchChange("update", p, p, text)
  BY <1>2 DEF Workspace!Candidate, Workspace!PatchChange, Recorded, Workspace!Modified, Workspace!Readable
<1>3. CASE \E p \in Workspace!Readable : c = Workspace!PatchChange("delete", p, p, None)
  BY <1>3 DEF Workspace!Candidate, Workspace!PatchChange, Recorded, Workspace!Readable
<1>4. CASE \E p \in Workspace!Readable, to \in Paths, text \in Texts :
             c = Workspace!PatchChange("move", p, to, text)
  BY <1>4 DEF Workspace!Candidate, Workspace!PatchChange, Recorded, Workspace!Readable
<1> QED
  BY <1>1, <1>2, <1>3, <1>4 DEF Workspace!PatchChanges

LEMMA AppliedTyped ==
  ASSUME NEW fs \in [Paths -> Workspace!Contents], NEW c \in Workspace!PatchChanges,
         NEW r \in Workspace!Applied(fs, c)
  PROVE  r.files \in [Paths -> Workspace!Contents]
<1> USE DEF Workspace!Contents
<1>1. c.text \in Texts \/ c.kind = "delete"
  BY DEF Workspace!PatchChanges, Workspace!PatchChange
<1>2. c.kind \in {"add", "update", "delete", "move"}
  BY DEF Workspace!PatchChanges, Workspace!PatchChange
<1>3. \/ r.files = fs
      \/ \E text \in Texts : r.files = [fs EXCEPT ![c.path] = text]
      \/ r.files = [fs EXCEPT ![c.path] = Absent]
      \/ \E text \in Texts : r.files = [fs EXCEPT ![c.to] = text, ![c.path] = Absent]
  <2>1. CASE c.kind = "add"
    BY <1>1, <2>1 DEF Workspace!Applied
  <2>2. CASE c.kind = "delete"
    BY <2>2 DEF Workspace!Applied
  <2>3. CASE c.kind = "update"
    BY <1>1, <2>3 DEF Workspace!Applied
  <2>4. CASE c.kind = "move"
    BY <1>1, <2>4 DEF Workspace!Applied
  <2> QED
    BY <1>2, <2>1, <2>2, <2>3, <2>4
<1> QED
  BY <1>3

LEMMA PatchFiles ==
  ASSUME FilesInv, NEW changes, Workspace!Patch(changes),
         \/ changes \in Workspace!PatchChanges \X Workspace!PatchChanges
         \/ \E c \in Workspace!PatchChanges : changes = <<c>>
  PROVE  FilesInv'
<1> DEFINE AllTyped(results) == \A r \in results : r.files \in [Paths -> Workspace!Contents]
           some == [n \in DOMAIN changes |-> Workspace!Candidate(changes[n])]
<1>1. changes \in Seq(Workspace!PatchChanges) /\ Len(changes) \in {1, 2}
  <2>1. CASE changes \in Workspace!PatchChanges \X Workspace!PatchChanges
    <3>1. PICK c \in Workspace!PatchChanges, d \in Workspace!PatchChanges : changes = <<c, d>>
      BY <2>1
    <3> QED
      BY <3>1
  <2>2. CASE \E c \in Workspace!PatchChanges : changes = <<c>>
    BY <2>2
  <2> QED
    BY <2>1, <2>2
<1>2. ASSUME NEW results, AllTyped(results), NEW c \in Workspace!PatchChanges
      PROVE  AllTyped(Workspace!After(results, c))
  BY <1>2, AppliedTyped DEF Workspace!After
<1>3. AllTyped({[files |-> files, ok |-> TRUE]})
  BY DEF FilesInv, FilesTyped
<1>4. changes[1] \in Workspace!PatchChanges /\ (Len(changes) = 2 => changes[2] \in Workspace!PatchChanges)
  BY <1>1
<1>5. AllTyped(Workspace!Outcomes(changes))
  BY <1>1, <1>2, <1>3, <1>4 DEF Workspace!Outcomes
<1>6. some \in Seq(Recorded)
  BY <1>1, CandidateRecorded DEF FilesInv
<1>7. files' \in [Paths -> Workspace!Contents]
  BY <1>5 DEF Workspace!Patch
<1>8. records' = records \o some \/ records' = records \o <<>>
  BY DEF Workspace!Patch, FilesInv, FilesTyped
<1>9. phase = "turn" /\ UNCHANGED <<phase, theirs, report>>
  BY DEF Workspace!Patch, Workspace!InTurn, Workspace!userVars
<1>10. <<>> \in Seq(Recorded)
  OBVIOUS
<1> QED
  BY <1>6, <1>7, <1>8, <1>9, <1>10, TurnFiles

LEMMA ToolFiles ==
  ASSUME FilesInv, NEW p \in Paths, NEW text \in Texts, Workspace!Write(p, text) \/ Workspace!Edit(p, text)
  PROVE  FilesInv'
<1> USE DEF Workspace!Contents
<1>1. PICK c \in Recorded : Workspace!Put(p, text, c)
  BY DEF Workspace!Write, Workspace!Edit, Workspace!Added, Workspace!Modified, Recorded, FilesInv, FilesTyped
<1>2. records' = records \o <<c>> /\ <<c>> \in Seq(Recorded)
  BY <1>1 DEF Workspace!Put, FilesInv, FilesTyped
<1>3. files' \in [Paths -> Workspace!Contents]
  BY <1>1 DEF Workspace!Put, FilesInv, FilesTyped
<1>4. phase = "turn" /\ UNCHANGED <<phase, theirs, report>>
  BY <1>1 DEF Workspace!Write, Workspace!Edit, Workspace!Put, Workspace!InTurn, Workspace!userVars
<1> QED
  BY <1>2, <1>3, <1>4, TurnFiles

LEMMA UserFiles ==
  ASSUME FilesInv, NEW p \in Paths, NEW content \in Texts \cup {Absent}, Workspace!UserWrites(p, content)
  PROVE  FilesInv'
<1>1. /\ files' = [files EXCEPT ![p] = content] /\ theirs' = [theirs EXCEPT ![p] = content]
      /\ since' = since \cup {p}
      /\ UNCHANGED <<phase, step, report, records, overrun>> /\ phase # "turn"
  BY DEF Workspace!UserWrites, Workspace!filesVars
<1>2. FilesTyped'
  BY <1>1 DEF FilesInv, FilesTyped, Workspace!Contents
<1>3. Kept'
  BY <1>1 DEF FilesInv, FilesTyped, Kept, Workspace!Left
<1>4. \A q \in Paths : \A x : Found(q, x) => Found(q, x)'
  BY <1>1 DEF Found, FilesInv, FilesTyped
<1>5. Seen'
  <2> SUFFICES ASSUME phase = "restoring", Len(report) < Len(records) PROVE Seen'
    BY <1>1 DEF Seen
  <2>1. Workspace!Current \in Recorded
    BY Current0 DEF FilesInv
  <2>2. UNCHANGED <<Workspace!Current, Workspace!Moved>>
    BY <1>1 DEF Workspace!Current, Workspace!Moved
  <2> QED
    BY <1>1, <1>4, <2>1, <2>2 DEF Seen, FilesInv, Recorded
<1> QED
  BY <1>1, <1>2, <1>3, <1>5 DEF FilesInv, Unwritten

(* The restoration reads and writes the files of one record.                 *)
LEMMA LookFiles ==
  ASSUME FilesInv, Workspace!Look \/ Workspace!LookAtSource PROVE FilesInv'
<1> DEFINE c == Workspace!Current
<1>1. /\ phase = "restoring" /\ Len(report) < Len(records) /\ step \in {"look", "source"}
      /\ UNCHANGED <<files, phase, overrun, records, theirs>>
  BY DEF Workspace!Look, Workspace!LookAtSource, Workspace!Doing, Workspace!filesVars, Workspace!userVars
<1>2. /\ c \in Recorded
  BY <1>1, Current0 DEF FilesInv
<1>3. ASSUME NEW s \in Statuses, Workspace!Outcome(s) PROVE FilesTyped' /\ Seen'
  BY <1>1, <1>3 DEF Workspace!Outcome, FilesInv, FilesTyped, Seen
<1>4. ASSUME NEW s, Workspace!GoOn(s)
      PROVE  FilesTyped' /\ UNCHANGED <<Workspace!Current, Workspace!Moved, report>> /\ step' = s
  BY <1>1, <1>4 DEF Workspace!GoOn, FilesInv, FilesTyped, Workspace!Current, Workspace!Moved
<1>5. ASSUME Workspace!Look PROVE FilesTyped' /\ Seen'
  <2>1. since' = since \ {c.path}
    BY <1>5 DEF Workspace!Look
  <2>2. CASE files[c.path] = c.post
    <3>1. \/ c.kind = "added" /\ Workspace!GoOn("remove")
          \/ Workspace!Moved /\ Workspace!GoOn("source")
          \/ ~Workspace!Moved /\ Workspace!GoOn("write")
      BY <1>5, <2>2 DEF Workspace!Look
    <3>2. Found(c.path, c.post)'
      BY <1>1, <1>4, <2>2, <3>1 DEF Found
    <3>3. ~Workspace!Moved => c.source = c.path
      BY <1>2 DEF Workspace!Moved, Recorded
    <3>4. CASE Workspace!GoOn("remove")
      BY <1>4, <3>2, <3>4 DEF Seen
    <3>5. CASE Workspace!Moved /\ Workspace!GoOn("source")
      <4>1. step' = "source" /\ Workspace!Moved'
        BY <1>4, <3>5
      <4> QED
        BY <1>4, <3>2, <3>5, <4>1 DEF Seen
    <3>6. CASE ~Workspace!Moved /\ Workspace!GoOn("write")
      <4>1. Found(c.source, c.post)' /\ ~Workspace!Moved' /\ step' = "write"
        BY <1>4, <3>2, <3>3, <3>6 DEF Found
      <4> QED
        BY <1>4, <3>6, <4>1 DEF Seen
    <3> QED
      BY <3>1, <3>4, <3>5, <3>6
  <2>3. CASE files[c.path] # c.post
    <3>1. Workspace!Outcome("restored") \/ Workspace!Outcome("skipped")
      BY <1>5, <2>3 DEF Workspace!Look
    <3> QED
      BY <1>3, <3>1 DEF Statuses
  <2> QED
    BY <2>2, <2>3
<1>6. ASSUME Workspace!LookAtSource PROVE FilesTyped' /\ Seen'
  <2>1. since' = since \ {c.source} /\ step = "source"
    BY <1>6 DEF Workspace!LookAtSource, Workspace!Doing
  <2>2. Workspace!Moved /\ c.source # c.path /\ Found(c.path, c.post)
    BY <1>1, <2>1 DEF FilesInv, Seen, Workspace!Moved
  <2>3. CASE files[c.source] \in {c.pre, Absent}
    <3>1. Workspace!GoOn("remove") \/ (files[c.source] = Absent /\ Workspace!GoOn("write"))
      BY <1>6, <2>3 DEF Workspace!LookAtSource
    <3>2. Found(c.path, c.post)'
      BY <1>1, <1>4, <2>1, <2>2, <3>1 DEF Found
    <3>3. CASE Workspace!GoOn("remove")
      BY <1>4, <3>2, <3>3 DEF Seen
    <3>4. CASE files[c.source] = Absent /\ Workspace!GoOn("write")
      <4>1. Found(c.source, Absent)' /\ Workspace!Moved' /\ step' = "write"
        BY <1>1, <1>4, <2>2, <3>4 DEF Found
      <4> QED
        BY <1>4, <3>2, <3>4, <4>1 DEF Seen
    <3> QED
      BY <3>1, <3>3, <3>4
  <2>4. CASE files[c.source] \notin {c.pre, Absent}
    <3>1. Workspace!Outcome("skipped")
      BY <1>6, <2>4 DEF Workspace!LookAtSource
    <3> QED
      BY <1>3, <3>1 DEF Statuses
  <2> QED
    BY <2>3, <2>4
<1>7. FilesTyped' /\ Seen'
  BY <1>5, <1>6
<1>8. Kept'
  BY <1>1 DEF FilesInv, Kept, Workspace!Left
<1> QED
  BY <1>1, <1>7, <1>8 DEF FilesInv, Unwritten

(* A file is written over with what was there known, or is overrun.          *)
LEMMA ChangeFiles ==
  ASSUME FilesInv, NEW p \in Paths, NEW content, Workspace!Change(p, content),
         NEW was \in Workspace!Left(p), Found(p, was), FilesTyped'
  PROVE  Kept'
<1>1. /\ files' = [files EXCEPT ![p] = content] /\ UNCHANGED <<records, theirs>>
      /\ overrun' = IF p \in since THEN overrun \cup {p} ELSE overrun
  BY DEF Workspace!Change, Workspace!filesVars, Workspace!userVars
<1> QED
  BY <1>1 DEF FilesInv, FilesTyped, Kept, Found, Workspace!Left

LEMMA UndoFiles ==
  ASSUME FilesInv, Workspace!WriteBack \/ Workspace!RemoveFile PROVE FilesInv'
<1> DEFINE c == Workspace!Current
<1>1. /\ phase = "restoring" /\ Len(report) < Len(records)
      /\ UNCHANGED <<phase, since, records, theirs>>
  BY DEF Workspace!WriteBack, Workspace!RemoveFile, Workspace!Change, Workspace!Doing, Workspace!filesVars,
     Workspace!userVars
<1>2. /\ c \in Recorded /\ c.post \in Workspace!Left(c.path)
      /\ Workspace!Moved => Absent \in Workspace!Left(c.source)
  BY <1>1, Current0 DEF FilesInv
<1>3. c.path \in Paths /\ c.source \in Paths /\ (~Workspace!Moved => c.source = c.path)
  BY <1>2 DEF Workspace!Moved, Recorded
<1>4. /\ \E p \in Paths, content \in Workspace!Contents : files' = [files EXCEPT ![p] = content]
      /\ Workspace!GoOn("remove") \/ Workspace!Outcome("restored")
  BY <1>2, <1>3 DEF Workspace!WriteBack, Workspace!RemoveFile, Workspace!Change, Recorded, Workspace!Contents
<1>5. FilesTyped'
  BY <1>1, <1>4 DEF FilesInv, FilesTyped, Workspace!GoOn, Workspace!Outcome, Statuses
<1>6. CASE Workspace!RemoveFile
  <2>1. Workspace!Change(c.path, Absent) /\ Found(c.path, c.post) /\ step' = "look"
    BY <1>1, <1>6 DEF Workspace!RemoveFile, Workspace!Outcome, Workspace!Doing, FilesInv, Seen
  <2>2. Kept'
    BY <1>2, <1>3, <1>5, <2>1, ChangeFiles
  <2> QED
    BY <1>1, <1>5, <2>1, <2>2 DEF FilesInv, Seen, Unwritten
<1>7. CASE Workspace!WriteBack
  <2>1. Workspace!Change(c.source, c.pre) /\ step = "write"
    BY <1>7 DEF Workspace!WriteBack, Workspace!Doing
  <2>2. Found(c.source, IF Workspace!Moved THEN Absent ELSE c.post)
    BY <1>1, <2>1 DEF FilesInv, Seen
  <2>3. Kept'
    BY <1>2, <1>3, <1>5, <2>1, <2>2, ChangeFiles
  <2>4. CASE Workspace!Moved
    <3>1. step' = "remove" /\ UNCHANGED <<Workspace!Current, Workspace!Moved, report>>
      BY <1>1, <1>7, <2>4 DEF Workspace!WriteBack, Workspace!GoOn, Workspace!Current, Workspace!Moved
    <3>2. Found(c.path, c.post) /\ c.path # c.source
      BY <1>1, <2>1, <2>4 DEF FilesInv, Seen, Workspace!Moved
    <3>3. Found(c.path, c.post)'
      BY <1>1, <1>3, <2>1, <3>1, <3>2 DEF Found, FilesInv, FilesTyped, Workspace!Change
    <3> QED
      BY <1>1, <1>5, <2>3, <3>1, <3>3 DEF FilesInv, Seen, Unwritten
  <2>5. CASE ~Workspace!Moved
    BY <1>1, <1>5, <1>7, <2>3, <2>5 DEF FilesInv, Seen, Unwritten, Workspace!WriteBack, Workspace!Outcome
  <2> QED
    BY <2>4, <2>5
<1> QED
  BY <1>6, <1>7

LEMMA StepFiles == FilesInv /\ [Workspace!Next]_workspaceOwn => FilesInv'
<1> SUFFICES ASSUME FilesInv, [Workspace!Next]_workspaceOwn PROVE FilesInv'
  OBVIOUS
<1>1. CASE UNCHANGED workspaceOwn
  BY <1>1 DEF workspaceOwn, FilesInv, FilesTyped, Seen, Kept, Unwritten, Found, Workspace!Current,
     Workspace!Moved, Workspace!Left
<1>2. CASE Workspace!EndTurn \/ Workspace!StartRestore \/ Workspace!EndRestore \/ Workspace!Fails
  <2>1. /\ UNCHANGED <<files, records, theirs, overrun>> /\ phase' # "turn"
        /\ phase' # "restoring" \/ step' = "look"
        /\ UNCHANGED report \/ (Len(report) < Len(records) /\ Workspace!Outcome("failed"))
    BY <1>2 DEF Workspace!EndTurn, Workspace!StartRestore, Workspace!EndRestore, Workspace!Fails,
       Workspace!Doing, Workspace!filesVars, Workspace!userVars, Workspace!Outcome
  <2>2. FilesTyped'
    <3>1. CASE Len(report) < Len(records) /\ Workspace!Outcome("failed")
      <4>1. report' = Append(report, "failed") /\ "failed" \in Statuses
        BY <3>1 DEF Workspace!Outcome, Statuses
      <4> QED
        BY <2>1, <3>1, <4>1 DEF FilesInv, FilesTyped
    <3>2. CASE UNCHANGED report
      BY <2>1, <3>2 DEF FilesInv, FilesTyped
    <3> QED
      BY <2>1, <3>1, <3>2
  <2> QED
    BY <2>1, <2>2 DEF FilesInv, Seen, Kept, Unwritten, Workspace!Left
<1> QED
  BY <1>1, <1>2, ToolFiles, PatchFiles, UserFiles, LookFiles, UndoFiles DEF Workspace!Next

(* What the user did to a file after the turn is still there when the        *)
(* replacement turn begins, unless it is what the turn had left there or was *)
(* done between the restoration's look at the file and its write.            *)
THEOREM UsersFilesKept == MCSpec => []UserContentKept
<1>1. MCInit => FilesInv
  BY InitFiles DEF MCInit
<1>2. FilesInv /\ [MCNext]_allVars => FilesInv'
  <2>1. UNCHANGED workspaceVars => UNCHANGED workspaceOwn
    BY DEF workspaceVars, workspaceOwn
  <2> QED
    BY <2>1, StepFiles DEF MCNext, Rest, allVars
<1>3. FilesInv => UserContentKept
  BY DEF FilesInv, Kept, UserContentKept, Workspace!UserContentKept
<1> QED
  BY <1>1, <1>2, <1>3, PTL DEF MCSpec
-----------------------------------------------------------------------------
(* What becomes of a change that nothing else got in the way of.             *)

Good(n) == Workspace!Alone(n) /\ Workspace!Untouched(n) /\ ~Workspace!Replaces(records[n])
AsLeft(n) ==
  LET c == records[n] IN
  /\ files[c.path] = c.post
  /\ c.kind # "added" => c.pre = before[c.source]
  /\ c.kind = "moved" => c.source # c.path /\ files[c.source] = Absent

InOrder ==
  /\ phase \in {"turn", "idle"} => report = <<>> /\ step = "look"
  /\ phase = "over" => Len(report) = Len(records)
Accounted ==
  phase = "turn" =>
    \A p \in Paths \ partial :
      files[p] = before[p] \/ \E n \in DOMAIN records : p \in Workspace!On(records[n])
Waiting ==
  \A n \in DOMAIN records :
    Good(n) /\ n > Len(report) /\ (n = Len(report) + 1 => step \in {"look", "source"}) => AsLeft(n)
UnderWay ==
  LET n == Len(report) + 1
      c == records[n] IN
  n <= Len(records) /\ Good(n) =>
    /\ step = "write" =>
         /\ c.kind # "added" /\ c.pre = before[c.source]
         /\ c.kind = "moved" => c.source # c.path
    /\ step = "remove" =>
         /\ c.kind \in {"added", "moved"}
         /\ c.kind = "moved" => c.source # c.path /\ files[c.source] = before[c.source]
Finished ==
  \A n \in DOMAIN report :
    Good(n) /\ report[n] # "failed" =>
      report[n] = "restored" /\ \A p \in Workspace!On(records[n]) : files[p] = before[p]
UndoInv == InOrder /\ Accounted /\ Waiting /\ UnderWay /\ Finished

LEMMA InitUndo == Workspace!Init \/ Workspace!Unused => UndoInv
<1> SUFFICES ASSUME NEW fs, Workspace!Fresh(fs) PROVE UndoInv
  BY DEF Workspace!Init, Workspace!Unused
<1> QED
  BY DEF Workspace!Fresh, UndoInv, InOrder, Accounted, Waiting, UnderWay, Finished

(* What a tool call must do for its changes to be undone.                    *)
Leaves(c) ==
  /\ c.kind # "added" => c.pre = files[c.source]
  /\ c.kind = "moved" => c.pre # Absent
  /\ ~(c.kind = "moved" /\ c.source = c.path) =>
       files'[c.path] = c.post /\ (c.kind = "moved" => files'[c.source] = Absent)

LEMMA TurnUndo ==
  ASSUME FilesTyped, UndoInv, phase = "turn", UNCHANGED <<phase, theirs, before, report, step>>,
         NEW more \in Seq(Recorded), records' = records \o more,
         partial \subseteq partial',
         \A p \in Paths \ partial' :
           files'[p] = files[p] \/ \E i \in DOMAIN more : p \in Workspace!On(more[i]),
         \A i \in DOMAIN more :
           (\A j \in DOMAIN more \ {i} : Workspace!On(more[j]) \cap Workspace!On(more[i]) = {})
             => Leaves(more[i])
  PROVE  UndoInv'
<1> PICK L \in Nat : L = Len(records)
  BY DEF FilesTyped
<1>1. report = <<>> /\ step = "look" /\ records \in Seq(Recorded) /\ L \in Nat
  BY DEF UndoInv, InOrder, FilesTyped
<1>2. /\ DOMAIN records' = 1..(L + Len(more)) /\ DOMAIN records = 1..L
      /\ \A n \in 1..L : records'[n] = records[n]
      /\ \A i \in 1..Len(more) : records'[L + i] = more[i]
      /\ DOMAIN more = 1..Len(more) /\ Len(more) \in Nat
  BY <1>1
<1>3. ASSUME NEW n \in DOMAIN records, Good(n)'
      PROVE  /\ Good(n) /\ records'[n] = records[n]
             /\ \A p \in Workspace!On(records[n]) \cap Paths : files'[p] = files[p]
  <2>1. \A m \in DOMAIN records : m \in DOMAIN records' /\ records'[m] = records[m]
    BY <1>2
  <2>2. Good(n)
    BY <1>3, <2>1 DEF Good, Workspace!Alone, Workspace!Untouched, Workspace!Replaces, Workspace!On
  <2>3. ASSUME NEW i \in DOMAIN more PROVE Workspace!On(more[i]) \cap Workspace!On(records[n]) = {}
    <3>1. L + i \in DOMAIN records' \ {n} /\ records'[L + i] = more[i]
      BY <1>1, <1>2
    <3> QED
      BY <1>3, <2>1, <3>1 DEF Good, Workspace!Alone, Workspace!On
  <2>4. Workspace!On(records[n]) \cap partial' = {}
    BY <1>3, <2>1 DEF Good, Workspace!Alone, Workspace!On
  <2> QED
    BY <2>1, <2>2, <2>3, <2>4
<1>4. ASSUME NEW i \in DOMAIN more, Good(L + i)'
      PROVE  AsLeft(L + i)'
  <2> DEFINE c == more[i]
  <2>1. /\ L + i \in DOMAIN records' /\ records'[L + i] = c
        /\ c \in Recorded /\ c.path \in Paths /\ c.source \in Paths
    BY <1>1, <1>2 DEF Recorded
  <2>2. ASSUME NEW j \in DOMAIN more \ {i} PROVE Workspace!On(more[j]) \cap Workspace!On(c) = {}
    <3>1. L + j \in DOMAIN records' \ {L + i} /\ records'[L + j] = more[j]
      BY <1>1, <1>2
    <3> QED
      BY <1>4, <2>1, <3>1 DEF Good, Workspace!Alone, Workspace!On
  <2>3. ASSUME NEW m \in DOMAIN records PROVE Workspace!On(records[m]) \cap Workspace!On(c) = {}
    <3>1. m \in DOMAIN records' \ {L + i} /\ records'[m] = records[m]
      BY <1>1, <1>2
    <3> QED
      BY <1>4, <2>1, <3>1 DEF Good, Workspace!Alone, Workspace!On
  <2>4. Workspace!On(c) \cap partial' = {}
    BY <1>4, <2>1 DEF Good, Workspace!Alone, Workspace!On
  <2>5. \A p \in Workspace!On(c) : files[p] = before[p]
    BY <2>1, <2>3, <2>4 DEF UndoInv, Accounted, Workspace!On
  <2>6. Leaves(c)
    BY <2>2
  <2>7. c.kind \in {"added", "moved"} => before[c.path] = Absent
    BY <1>4, <2>1 DEF Good, Workspace!Replaces
  <2>8. c.kind # "added" => c.pre = before[c.source]
    BY <2>5, <2>6 DEF Leaves, Workspace!On
  <2>9. c.kind = "moved" => c.source # c.path
    BY <2>6, <2>7, <2>8 DEF Leaves
  <2> QED
    BY <2>1, <2>6, <2>8, <2>9 DEF AsLeft, Leaves
<1>5. ASSUME NEW n \in DOMAIN records', Good(n)' PROVE AsLeft(n)'
  <2>1. CASE n \in DOMAIN records
    <3>1. AsLeft(n) /\ records[n] \in Recorded
      BY <1>1, <1>3, <1>5, <2>1 DEF UndoInv, Waiting
    <3> QED
      BY <1>3, <1>5, <2>1, <3>1 DEF AsLeft, Recorded, Workspace!On
  <2>2. CASE n \notin DOMAIN records
    <3>1. PICK i \in DOMAIN more : n = L + i
      <4>1. n - L \in 1..Len(more) /\ n = L + (n - L)
        BY <1>1, <1>2, <2>2
      <4> QED
        BY <1>2, <4>1
    <3> QED
      BY <1>4, <1>5, <3>1
  <2> QED
    BY <2>1, <2>2
<1>6. Accounted'
  <2> SUFFICES ASSUME NEW p \in Paths \ partial'
               PROVE  files'[p] = before'[p] \/ \E n \in DOMAIN records' : p \in Workspace!On(records'[n])
    BY DEF Accounted, Workspace!On
  <2>1. CASE \E i \in DOMAIN more : p \in Workspace!On(more[i])
    <3>1. PICK i \in DOMAIN more : p \in Workspace!On(more[i])
      BY <2>1
    <3>2. L + i \in DOMAIN records' /\ records'[L + i] = more[i]
      BY <1>1, <1>2
    <3> QED
      BY <3>1, <3>2
  <2>2. CASE files'[p] = files[p]
    <3>1. files[p] = before[p] \/ \E n \in DOMAIN records : p \in Workspace!On(records[n])
      BY DEF UndoInv, Accounted
    <3>2. \A n \in DOMAIN records : n \in DOMAIN records' /\ records'[n] = records[n]
      BY <1>1, <1>2
    <3> QED
      BY <2>2, <3>1, <3>2
  <2> QED
    BY <2>1, <2>2
<1> QED
  BY <1>1, <1>5, <1>6 DEF UndoInv, InOrder, Waiting, UnderWay, Finished

LEMMA ToolUndo ==
  ASSUME FilesTyped, UndoInv, NEW p \in Paths, NEW text \in Texts,
         Workspace!Write(p, text) \/ Workspace!Edit(p, text)
  PROVE  UndoInv'
<1> USE DEF Workspace!Contents
<1>1. PICK c \in Recorded : /\ Workspace!Put(p, text, c)
                            /\ c.kind \in {"added", "modified"} /\ c.path = p /\ c.source = p /\ c.post = text
                            /\ c.kind # "added" => c.pre = files[p]
  BY DEF Workspace!Write, Workspace!Edit, Workspace!Added, Workspace!Modified, Recorded, FilesTyped
<1>2. records' = records \o <<c>> /\ <<c>> \in Seq(Recorded)
  BY <1>1 DEF Workspace!Put, FilesTyped
<1>3. phase = "turn" /\ UNCHANGED <<phase, theirs, before, report, step, partial>>
  BY <1>1 DEF Workspace!Write, Workspace!Edit, Workspace!Put, Workspace!InTurn, Workspace!userVars
<1>4. files' = [files EXCEPT ![p] = text]
  BY <1>1 DEF Workspace!Put
<1>5. Leaves(c)
  BY <1>1, <1>4 DEF Leaves, FilesTyped
<1>6. \A q \in Paths : files'[q] = files[q] \/ \E i \in DOMAIN <<c>> : q \in Workspace!On(<<c>>[i])
  BY <1>1, <1>4 DEF FilesTyped, Workspace!On
<1>7. \A i \in DOMAIN <<c>> : <<c>>[i] = c
  OBVIOUS
<1> HIDE DEF Workspace!Contents
<1> QED
  BY <1>2, <1>3, <1>5, <1>6, <1>7, TurnUndo

(* A change that is made to the lines it was worked out for leaves what its  *)
(* record says it left.                                                      *)
Made(c, fs) ==
  LET r == Workspace!Candidate(c) IN
  ~(r.kind = "moved" /\ r.source = r.path) =>
    fs[r.path] = r.post /\ (r.kind = "moved" => fs[r.source] = Absent)

LEMMA CandidateOf ==
  ASSUME FilesTyped, NEW c \in Workspace!PatchChanges
  PROVE  LET r == Workspace!Candidate(c) IN
         /\ c.kind \in {"add", "update", "delete", "move"} /\ c.path \in Paths /\ c.to \in Paths
         /\ c.kind # "add" => c.old = files[c.path] /\ c.old \in Texts
         /\ c.kind # "delete" => c.text \in Texts
         /\ r.source = c.path /\ r.path = IF c.kind = "move" THEN c.to ELSE c.path
         /\ c.kind = "add" <=> r.kind = "added"
         /\ c.kind = "move" <=> r.kind = "moved"
         /\ r.kind # "added" => r.pre = c.old
         /\ r.post = IF c.kind = "delete" THEN Absent ELSE c.text
<1>1. CASE \E p \in Paths, text \in Texts : c = Workspace!PatchChange("add", p, p, text)
  BY <1>1 DEF Workspace!Candidate, Workspace!PatchChange, Workspace!Added
<1>2. CASE \E p \in Workspace!Readable, text \in Texts : c = Workspace!PatchChange("update", p, p, text)
  BY <1>2 DEF Workspace!Candidate, Workspace!PatchChange, Workspace!Modified, Workspace!Readable
<1>3. CASE \E p \in Workspace!Readable : c = Workspace!PatchChange("delete", p, p, None)
  BY <1>3 DEF Workspace!Candidate, Workspace!PatchChange, Workspace!Readable
<1>4. CASE \E p \in Workspace!Readable, to \in Paths, text \in Texts :
             c = Workspace!PatchChange("move", p, to, text)
  BY <1>4 DEF Workspace!Candidate, Workspace!PatchChange, Workspace!Readable
<1> QED
  BY <1>1, <1>2, <1>3, <1>4 DEF Workspace!PatchChanges

LEMMA AppliedMakes ==
  ASSUME FilesTyped, NEW fs \in [Paths -> Workspace!Contents], NEW c \in Workspace!PatchChanges,
         NEW r \in Workspace!Applied(fs, c)
  PROVE  /\ ~r.ok => r.files = fs
         /\ \A p \in Paths \ Workspace!On(Workspace!Candidate(c)) : r.files[p] = fs[p]
         /\ r.ok /\ fs[c.path] = files[c.path] => Made(c, r.files)
<1> DEFINE d == Workspace!Candidate(c)
<1>1. /\ c.kind \in {"add", "update", "delete", "move"} /\ c.path \in Paths /\ c.to \in Paths
      /\ c.kind # "add" => c.old = files[c.path] /\ c.old \in Texts
      /\ d.source = c.path /\ d.path = IF c.kind = "move" THEN c.to ELSE c.path
      /\ c.kind = "move" <=> d.kind = "moved"
      /\ d.post = IF c.kind = "delete" THEN Absent ELSE c.text
  BY CandidateOf
<1>2. Workspace!On(d) = {d.path, d.source}
  BY DEF Workspace!On
<1> HIDE DEF d
<1>3. CASE c.kind = "add"
  BY <1>1, <1>2, <1>3 DEF Workspace!Applied, Made, d
<1>4. CASE c.kind = "delete"
  BY <1>1, <1>2, <1>4 DEF Workspace!Applied, Made, d
<1>5. CASE c.kind = "update"
  BY <1>1, <1>2, <1>5 DEF Workspace!Applied, Made, d
<1>6. CASE c.kind = "move"
  BY <1>1, <1>2, <1>6 DEF Workspace!Applied, Made, d
<1> QED
  BY <1>1, <1>3, <1>4, <1>5, <1>6

LEMMA MadeIsLeft ==
  ASSUME FilesTyped, NEW c \in Workspace!PatchChanges, NEW fs, files' = fs, Made(c, fs)
  PROVE  Leaves(Workspace!Candidate(c))
<1>1. Absent \notin Texts
  BY MCAssumption DEF Workspace!WorkspaceAssumption
<1> QED
  BY <1>1, CandidateOf DEF Made, Leaves

LEMMA OneChange ==
  ASSUME FilesTyped, NEW c \in Workspace!PatchChanges, NEW r \in Workspace!Outcomes(<<c>>)
  PROVE  /\ \A p \in Paths \ Workspace!On(Workspace!Candidate(c)) : r.files[p] = files[p]
         /\ r.ok => Made(c, r.files)
<1>1. <<c>>[1] = c /\ Len(<<c>>) = 1
  OBVIOUS
<1>2. r \in Workspace!After({[files |-> files, ok |-> TRUE]}, c)
  BY <1>1 DEF Workspace!Outcomes
<1>3. r \in Workspace!Applied(files, c)
  BY <1>2 DEF Workspace!After
<1> QED
  BY <1>3, AppliedMakes DEF FilesTyped

LEMMA TwoChanges ==
  ASSUME FilesTyped, NEW c \in Workspace!PatchChanges, NEW d \in Workspace!PatchChanges,
         NEW r \in Workspace!Outcomes(<<c, d>>)
  PROVE  LET onc == Workspace!On(Workspace!Candidate(c))
             ond == Workspace!On(Workspace!Candidate(d)) IN
         /\ \A p \in Paths \ (onc \cup ond) : r.files[p] = files[p]
         /\ r.ok /\ onc \cap ond = {} => Made(c, r.files) /\ Made(d, r.files)
<1> DEFINE onc == Workspace!On(Workspace!Candidate(c))
           ond == Workspace!On(Workspace!Candidate(d))
           first == Workspace!After({[files |-> files, ok |-> TRUE]}, c)
<1>1. <<c, d>>[1] = c /\ <<c, d>>[2] = d /\ Len(<<c, d>>) = 2
  OBVIOUS
<1>2. r \in Workspace!After(first, d)
  BY <1>1 DEF Workspace!Outcomes
<1>3. PICK s \in first : r \in IF s.ok THEN Workspace!Applied(s.files, d) ELSE {s}
  BY <1>2 DEF Workspace!After
<1>4. s \in Workspace!Applied(files, c)
  BY DEF Workspace!After
<1>5. /\ \A p \in Paths \ onc : s.files[p] = files[p]
      /\ s.ok => Made(c, s.files)
      /\ s.files \in [Paths -> Workspace!Contents]
  BY <1>4, AppliedMakes, AppliedTyped DEF FilesTyped
<1>6. CASE ~s.ok
  BY <1>3, <1>5, <1>6
<1>7. CASE s.ok /\ r \in Workspace!Applied(s.files, d)
  <2>1. /\ \A p \in Paths \ ond : r.files[p] = s.files[p]
        /\ r.ok /\ s.files[d.path] = files[d.path] => Made(d, r.files)
    BY <1>5, <1>7, AppliedMakes
  <2>2. d.path \in ond \cap Paths /\ onc = {Workspace!Candidate(c).path, Workspace!Candidate(c).source}
        /\ onc \subseteq Paths
    BY CandidateOf, CandidateRecorded DEF Workspace!On, Recorded
  <2>3. ASSUME onc \cap ond = {}, r.ok PROVE Made(c, r.files) /\ Made(d, r.files)
    <3>1. \A p \in onc : r.files[p] = s.files[p]
      BY <2>1, <2>2, <2>3
    <3>2. Made(c, r.files)
      BY <1>5, <1>7, <2>2, <3>1 DEF Made
    <3> QED
      BY <1>5, <2>1, <2>2, <2>3, <3>2
  <2> QED
    BY <1>5, <2>1, <2>3
<1> QED
  BY <1>3, <1>6, <1>7

LEMMA PatchUndo ==
  ASSUME FilesInv, UndoInv, NEW changes, Workspace!Patch(changes),
         \/ changes \in Workspace!PatchChanges \X Workspace!PatchChanges
         \/ \E c \in Workspace!PatchChanges : changes = <<c>>
  PROVE  UndoInv'
<1>1. PICK r \in Workspace!Outcomes(changes) :
        /\ files' = r.files
        /\ records' = IF r.ok THEN records \o [n \in DOMAIN changes |-> Workspace!Candidate(changes[n])]
                      ELSE records
        /\ partial' = IF r.ok THEN partial ELSE partial \cup {p \in Paths : r.files[p] # files[p]}
  BY DEF Workspace!Patch
<1>2. phase = "turn" /\ UNCHANGED <<phase, theirs, before, report, step>> /\ FilesTyped
  BY DEF Workspace!Patch, Workspace!InTurn, Workspace!userVars, FilesInv
<1>3. CASE ~r.ok
  <2>1. records' = records \o <<>> /\ <<>> \in Seq(Recorded)
    BY <1>1, <1>2, <1>3 DEF FilesTyped
  <2>2. \A p \in Paths \ partial' : files'[p] = files[p]
    BY <1>1, <1>3
  <2>3. partial \subseteq partial' /\ DOMAIN <<>> = {}
    BY <1>1, <1>3
  <2> QED
    BY <1>2, <2>1, <2>2, <2>3, TurnUndo
<1>4. ASSUME r.ok, NEW c \in Workspace!PatchChanges, changes = <<c>> PROVE UndoInv'
  <2> DEFINE e == Workspace!Candidate(c)
  <2>1. records' = records \o <<e>>
    BY <1>1, <1>4
  <2>2. Leaves(e) /\ \A p \in Paths \ Workspace!On(e) : files'[p] = files[p]
    BY <1>1, <1>2, <1>4, OneChange, MadeIsLeft
  <2>3. e \in Recorded /\ partial' = partial
    BY <1>1, <1>2, <1>4, CandidateRecorded
  <2> HIDE DEF e
  <2>4. <<e>> \in Seq(Recorded) /\ DOMAIN <<e>> = {1} /\ <<e>>[1] = e
    BY <2>3
  <2> QED
    BY <1>2, <2>1, <2>2, <2>3, <2>4, TurnUndo
<1>5. ASSUME r.ok, NEW c \in Workspace!PatchChanges, NEW d \in Workspace!PatchChanges, changes = <<c, d>>
      PROVE  UndoInv'
  <2> DEFINE e == Workspace!Candidate(c)
             f == Workspace!Candidate(d)
  <2>1. records' = records \o <<e, f>>
    <3>1. [n \in DOMAIN changes |-> Workspace!Candidate(changes[n])] = <<e, f>>
      BY <1>5
    <3> QED
      BY <1>1, <1>5, <3>1
  <2>2. \A p \in Paths \ (Workspace!On(e) \cup Workspace!On(f)) : files'[p] = files[p]
    BY <1>1, <1>2, <1>5, TwoChanges
  <2>3. Workspace!On(e) \cap Workspace!On(f) = {} => Leaves(e) /\ Leaves(f)
    BY <1>1, <1>2, <1>5, TwoChanges, MadeIsLeft
  <2>4. e \in Recorded /\ f \in Recorded /\ partial' = partial
    BY <1>1, <1>2, <1>5, CandidateRecorded
  <2> HIDE DEF e, f
  <2>5. <<e, f>> \in Seq(Recorded) /\ DOMAIN <<e, f>> = {1, 2} /\ <<e, f>>[1] = e /\ <<e, f>>[2] = f
    BY <2>4
  <2>6. ASSUME NEW i \in DOMAIN <<e, f>>,
               \A j \in DOMAIN <<e, f>> \ {i} : Workspace!On(<<e, f>>[j]) \cap Workspace!On(<<e, f>>[i]) = {}
        PROVE  Leaves(<<e, f>>[i])
    <3>1. CASE i = 1
      BY <2>3, <2>5, <2>6, <3>1
    <3>2. CASE i = 2
      BY <2>3, <2>5, <2>6, <3>2
    <3> QED
      BY <2>5, <3>1, <3>2
  <2>7. \A p \in Paths \ partial' :
          files'[p] = files[p] \/ \E i \in DOMAIN <<e, f>> : p \in Workspace!On(<<e, f>>[i])
    BY <2>2, <2>5
  <2> QED
    BY <1>2, <2>1, <2>4, <2>5, <2>6, <2>7, TurnUndo
<1>6. ASSUME r.ok PROVE UndoInv'
  <2>1. CASE changes \in Workspace!PatchChanges \X Workspace!PatchChanges
    <3>1. PICK c \in Workspace!PatchChanges, d \in Workspace!PatchChanges : changes = <<c, d>>
      BY <2>1
    <3> QED
      BY <1>5, <1>6, <3>1
  <2> QED
    BY <1>4, <1>6, <2>1
<1> QED
  BY <1>3, <1>6

(* The restoration changes nothing but the files of its record.              *)
LEMMA RestoreUndo ==
  ASSUME FilesTyped, FilesTyped', UndoInv, phase = "restoring", Len(report) < Len(records),
         UNCHANGED <<records, theirs, before, partial, phase>>,
         \A p \in Paths \ Workspace!On(Workspace!Current) : files'[p] = files[p],
         \/ /\ UNCHANGED report
            /\ \/ UnderWay' /\ step' \in {"write", "remove"}
               \/ step' \in {"look", "source"} /\ step \in {"look", "source"} /\ UNCHANGED files
         \/ /\ step' = "look"
            /\ \E s \in Statuses :
                 /\ report' = Append(report, s)
                 /\ Good(Len(report) + 1) /\ s # "failed" =>
                      /\ s = "restored"
                      /\ \A p \in Workspace!On(Workspace!Current) : files'[p] = before[p]
  PROVE  UndoInv'
<1> PICK L \in Nat : L = Len(report)
  BY DEF FilesTyped
<1>1. /\ L + 1 \in DOMAIN records /\ Workspace!Current = records[L + 1]
      /\ records \in Seq(Recorded) /\ report \in Seq(Statuses) /\ report' \in Seq(Statuses)
      /\ DOMAIN report = 1..L
  BY DEF FilesTyped, Workspace!Current
<1>2. \A n \in DOMAIN records : records[n].path \in Paths /\ records[n].source \in Paths
  BY <1>1 DEF Recorded
<1>3. ASSUME NEW n \in DOMAIN records
      PROVE  Good(n)' <=> Good(n)
  BY DEF Good, Workspace!Alone, Workspace!Untouched, Workspace!Replaces, Workspace!On
<1>4. ASSUME NEW n \in DOMAIN records \ {L + 1}, Good(n)
      PROVE  \A p \in Workspace!On(records[n]) : files'[p] = files[p]
  <2>1. Workspace!On(records[L + 1]) \cap Workspace!On(records[n]) = {}
    BY <1>1, <1>4 DEF Good, Workspace!Alone
  <2> QED
    BY <1>1, <1>2, <2>1 DEF Workspace!On
<1>5. ASSUME NEW n \in DOMAIN records, Good(n)', n > L + 1 PROVE AsLeft(n)'
  <2>1. n \in DOMAIN records \ {L + 1} /\ n > L /\ n # L + 1
    BY <1>1, <1>5
  <2>2. AsLeft(n)
    BY <1>3, <1>5, <2>1 DEF UndoInv, Waiting
  <2> QED
    BY <1>3, <1>4, <1>5, <2>1, <2>2 DEF AsLeft, Workspace!On
<1>6. ASSUME NEW n \in 1..L, Good(n)', report[n] # "failed"
      PROVE  report[n] = "restored" /\ \A p \in Workspace!On(records[n]) : files'[p] = before[p]
  <2>1. n \in DOMAIN records \ {L + 1} /\ n \in DOMAIN report
    BY <1>1
  <2> QED
    BY <1>3, <1>4, <1>6, <2>1 DEF UndoInv, Finished
<1>7. InOrder' /\ Accounted'
  BY DEF InOrder, Accounted
<1>8. CASE UNCHANGED report
  <2>1. Finished'
    BY <1>1, <1>6, <1>8 DEF Finished, Workspace!On
  <2>2. CASE UnderWay' /\ step' \in {"write", "remove"}
    <3>1. Waiting'
      <4> SUFFICES ASSUME NEW n \in DOMAIN records', Good(n)', n > Len(report'), n # Len(report') + 1
                   PROVE  AsLeft(n)'
        BY <2>2 DEF Waiting
      <4>1. n \in DOMAIN records /\ n > L + 1
        BY <1>1, <1>8
      <4> QED
        BY <1>5, <4>1
    <3> QED
      BY <1>7, <2>1, <2>2, <3>1 DEF UndoInv
  <2>3. CASE step' \in {"look", "source"} /\ step \in {"look", "source"} /\ UNCHANGED files
    <3>1. Waiting'
      <4> SUFFICES ASSUME NEW n \in DOMAIN records', Good(n)', n > Len(report')
                   PROVE  AsLeft(n)'
        BY DEF Waiting
      <4>1. n \in DOMAIN records /\ n > L
        BY <1>1, <1>8
      <4>2. AsLeft(n)
        BY <1>3, <2>3, <4>1 DEF UndoInv, Waiting
      <4> QED
        BY <2>3, <4>2 DEF AsLeft
    <3>2. UnderWay'
      BY <2>3 DEF UnderWay
    <3> QED
      BY <1>7, <2>1, <3>1, <3>2 DEF UndoInv
  <2> QED
    BY <1>8, <2>2, <2>3
<1>9. ASSUME step' = "look", NEW s \in Statuses, report' = Append(report, s),
             Good(L + 1) /\ s # "failed" =>
               s = "restored" /\ \A p \in Workspace!On(Workspace!Current) : files'[p] = before[p]
      PROVE  UndoInv'
  <2>1. /\ Len(report') = L + 1 /\ DOMAIN report' = 1..(L + 1) /\ report'[L + 1] = s
        /\ \A n \in 1..L : report'[n] = report[n]
    BY <1>1, <1>9
  <2>2. Finished'
    <3> SUFFICES ASSUME NEW n \in DOMAIN report', Good(n)', report'[n] # "failed"
                 PROVE  report'[n] = "restored" /\ \A p \in Workspace!On(records[n]) : files'[p] = before[p]
      BY DEF Finished, Workspace!On
    <3>1. CASE n = L + 1
      BY <1>1, <1>3, <1>9, <2>1, <3>1
    <3>2. CASE n \in 1..L
      BY <1>6, <2>1, <3>2
    <3> QED
      BY <2>1, <3>1, <3>2
  <2>3. Waiting'
    <3> SUFFICES ASSUME NEW n \in DOMAIN records', Good(n)', n > Len(report')
                 PROVE  AsLeft(n)'
      BY DEF Waiting
    <3> QED
      BY <1>5, <2>1
  <2>4. UnderWay'
    BY <1>9 DEF UnderWay
  <2> QED
    BY <1>7, <2>2, <2>3, <2>4 DEF UndoInv
<1> QED
  BY <1>8, <1>9

(* What is known of the current record when its change was left as it was.   *)
LEMMA CurrentUndo ==
  ASSUME FilesInv, UndoInv, phase = "restoring", Len(report) < Len(records), Good(Len(report) + 1)
  PROVE  LET c == Workspace!Current IN
         /\ c \in Recorded /\ c.path \in Paths /\ c.source \in Paths
         /\ Workspace!On(c) = {c.path, c.source}
         /\ c.kind \in {"added", "moved"} => before[c.path] = Absent
         /\ step \in {"look", "source"} =>
              /\ files[c.path] = c.post
              /\ c.kind # "added" => c.pre = before[c.source]
              /\ c.kind = "moved" => c.source # c.path /\ files[c.source] = Absent
         /\ step = "write" =>
              /\ c.kind # "added" /\ c.pre = before[c.source]
              /\ c.kind = "moved" => c.source # c.path
         /\ step = "remove" =>
              /\ c.kind \in {"added", "moved"}
              /\ c.kind = "moved" => c.source # c.path /\ files[c.source] = before[c.source]
<1> PICK L \in Nat : L = Len(report)
  BY DEF FilesInv, FilesTyped
<1>1. L + 1 \in DOMAIN records /\ Workspace!Current = records[L + 1] /\ records[L + 1] \in Recorded
  BY DEF FilesInv, FilesTyped, Workspace!Current
<1>2. step \in {"look", "source"} => AsLeft(L + 1)
  BY <1>1 DEF UndoInv, Waiting
<1> QED
  BY <1>1, <1>2 DEF UndoInv, UnderWay, AsLeft, Good, Workspace!Replaces, Workspace!On, Recorded

LEMMA LookUndo ==
  ASSUME FilesInv, UndoInv, FilesInv', Workspace!Look \/ Workspace!LookAtSource PROVE UndoInv'
<1> DEFINE c == Workspace!Current
<1>1. /\ phase = "restoring" /\ Len(report) < Len(records) /\ step \in {"look", "source"}
      /\ UNCHANGED <<files, phase, records, theirs, before, partial>>
      /\ FilesTyped /\ FilesTyped'
  BY DEF Workspace!Look, Workspace!LookAtSource, Workspace!Doing, Workspace!filesVars, Workspace!userVars, FilesInv
<1>2. ASSUME UNCHANGED report, Good(Len(report) + 1)' PROVE Good(Len(report) + 1)
  BY <1>1, <1>2 DEF Good, Workspace!Alone, Workspace!Untouched, Workspace!Replaces, Workspace!On
<1>3. ASSUME NEW s, Workspace!GoOn(s)
      PROVE  step' = s /\ UNCHANGED <<report, Workspace!Current>> /\ Workspace!Current = records[Len(report) + 1]
  BY <1>1, <1>3 DEF Workspace!GoOn, Workspace!Current
<1>4. ASSUME Workspace!Outcome("skipped"), ~Good(Len(report) + 1) PROVE UndoInv'
  BY <1>1, <1>4, RestoreUndo DEF Workspace!Outcome, Statuses
<1>5. ASSUME Workspace!GoOn("source") PROVE UndoInv'
  BY <1>1, <1>3, <1>5, RestoreUndo
<1>6. ASSUME Workspace!Outcome("restored"), ~Good(Len(report) + 1) PROVE UndoInv'
  BY <1>1, <1>6, RestoreUndo DEF Workspace!Outcome, Statuses
<1>7. ASSUME NEW s \in {"write", "remove"}, Workspace!GoOn(s),
             Good(Len(report) + 1) =>
               /\ s = "write" =>
                    /\ c.kind # "added" /\ c.pre = before[c.source]
                    /\ c.kind = "moved" => c.source # c.path
               /\ s = "remove" =>
                    /\ c.kind \in {"added", "moved"}
                    /\ c.kind = "moved" => c.source # c.path /\ files[c.source] = before[c.source]
      PROVE  UndoInv'
  <2>1. UnderWay'
    BY <1>1, <1>2, <1>3, <1>7 DEF UnderWay
  <2> QED
    BY <1>1, <1>3, <1>7, <2>1, RestoreUndo
<1>8. CASE Workspace!Look
  <2>1. step = "look"
    BY <1>8 DEF Workspace!Look, Workspace!Doing
  <2>2. CASE files[c.path] = c.post
    <3>1. \/ c.kind = "added" /\ Workspace!GoOn("remove")
          \/ Workspace!Moved /\ Workspace!GoOn("source")
          \/ ~Workspace!Moved /\ c.kind # "added" /\ Workspace!GoOn("write")
      BY <1>8, <2>2 DEF Workspace!Look
    <3>2. CASE c.kind = "added" /\ Workspace!GoOn("remove")
      BY <1>1, <1>7, <3>2
    <3>3. CASE ~Workspace!Moved /\ c.kind # "added" /\ Workspace!GoOn("write")
      BY <1>1, <1>7, <2>1, <3>3, CurrentUndo
    <3> QED
      BY <1>5, <3>1, <3>2, <3>3
  <2>3. CASE files[c.path] # c.post
    <3>1. Workspace!Outcome("restored") \/ Workspace!Outcome("skipped")
      BY <1>8, <2>3 DEF Workspace!Look
    <3>2. ~Good(Len(report) + 1)
      BY <1>1, <2>3, CurrentUndo
    <3> QED
      BY <1>4, <1>6, <3>1, <3>2
  <2> QED
    BY <2>2, <2>3
<1>9. CASE Workspace!LookAtSource
  <2>1. step = "source" /\ c.kind = "moved" /\ c.source # c.path
    BY <1>1, <1>9 DEF Workspace!LookAtSource, Workspace!Doing, FilesInv, Seen, Workspace!Moved
  <2>2. CASE Workspace!GoOn("remove") /\ files[c.source] = c.pre
    <3>1. Good(Len(report) + 1) => files[c.source] = before[c.source]
      BY <1>1, <2>1, <2>2, CurrentUndo
    <3> QED
      BY <1>7, <2>1, <2>2, <3>1
  <2>3. CASE Workspace!GoOn("write")
    BY <1>1, <1>7, <2>1, <2>3, CurrentUndo
  <2>4. CASE files[c.source] # c.pre /\ files[c.source] # Absent
    <3>1. Workspace!Outcome("skipped")
      BY <1>9, <2>4 DEF Workspace!LookAtSource
    <3>2. ~Good(Len(report) + 1)
      BY <1>1, <2>1, <2>4, CurrentUndo
    <3> QED
      BY <1>4, <3>1, <3>2
  <2> QED
    BY <1>9, <2>2, <2>3, <2>4 DEF Workspace!LookAtSource
<1> QED
  BY <1>8, <1>9

LEMMA BackUndo ==
  ASSUME FilesInv, UndoInv, FilesInv', Workspace!WriteBack \/ Workspace!RemoveFile PROVE UndoInv'
<1> DEFINE c == Workspace!Current
<1>1. /\ phase = "restoring" /\ Len(report) < Len(records) /\ step \in {"write", "remove"}
      /\ UNCHANGED <<phase, records, theirs, before, partial>>
      /\ FilesTyped /\ FilesTyped' /\ c \in Recorded /\ c.path \in Paths /\ c.source \in Paths
      /\ Workspace!On(c) = {c.path, c.source}
  BY Current0 DEF Workspace!WriteBack, Workspace!RemoveFile, Workspace!Change, Workspace!Doing,
     Workspace!filesVars, Workspace!userVars, FilesInv, Workspace!On, Recorded
<1>2. CASE Workspace!RemoveFile
  <2>1. files' = [files EXCEPT ![c.path] = Absent] /\ step = "remove" /\ Workspace!Outcome("restored")
    BY <1>2 DEF Workspace!RemoveFile, Workspace!Change, Workspace!Doing
  <2>2. \A p \in Paths \ Workspace!On(c) : files'[p] = files[p]
    BY <1>1, <2>1 DEF FilesTyped
  <2>3. Good(Len(report) + 1) => \A p \in Workspace!On(c) : files'[p] = before[p]
    BY <1>1, <2>1, CurrentUndo DEF FilesTyped, Recorded
  <2> QED
    BY <1>1, <2>1, <2>2, <2>3, RestoreUndo DEF Workspace!Outcome, Statuses
<1>3. CASE Workspace!WriteBack
  <2>1. /\ files' = [files EXCEPT ![c.source] = c.pre] /\ step = "write"
        /\ IF Workspace!Moved THEN Workspace!GoOn("remove") ELSE Workspace!Outcome("restored")
    BY <1>3 DEF Workspace!WriteBack, Workspace!Change, Workspace!Doing
  <2>2. \A p \in Paths \ Workspace!On(c) : files'[p] = files[p]
    BY <1>1, <2>1 DEF FilesTyped
  <2>3. CASE Workspace!Moved
    <3>1. step' = "remove" /\ UNCHANGED <<report, Workspace!Current>> /\ c = records[Len(report) + 1]
      BY <1>1, <2>1, <2>3 DEF Workspace!GoOn, Workspace!Current
    <3>2. c.kind = "moved" /\ c.source # c.path
      BY <2>3 DEF Workspace!Moved
    <3>3. Good(Len(report) + 1)' => Good(Len(report) + 1)
      BY <1>1, <3>1 DEF Good, Workspace!Alone, Workspace!Untouched, Workspace!Replaces, Workspace!On
    <3>4. Good(Len(report) + 1) => files'[c.source] = before[c.source]
      BY <1>1, <2>1, CurrentUndo DEF FilesTyped
    <3>5. UnderWay'
      BY <1>1, <3>1, <3>2, <3>3, <3>4 DEF UnderWay
    <3> QED
      BY <1>1, <2>2, <3>1, <3>5, RestoreUndo
  <2>4. CASE ~Workspace!Moved
    <3>1. Good(Len(report) + 1) => \A p \in Workspace!On(c) : files'[p] = before[p]
      BY <1>1, <2>1, <2>4, CurrentUndo DEF FilesTyped, Recorded, Workspace!Moved
    <3> QED
      BY <1>1, <2>1, <2>2, <2>4, <3>1, RestoreUndo DEF Workspace!Outcome, Statuses
  <2> QED
    BY <2>3, <2>4
<1> QED
  BY <1>2, <1>3

LEMMA UserUndo ==
  ASSUME FilesInv, UndoInv, NEW p \in Paths, NEW content \in Texts \cup {Absent}, Workspace!UserWrites(p, content)
  PROVE  UndoInv'
<1>1. /\ files' = [files EXCEPT ![p] = content] /\ theirs' = [theirs EXCEPT ![p] = content]
      /\ UNCHANGED <<phase, step, report, records, before, partial>> /\ phase # "turn"
  BY DEF Workspace!UserWrites, Workspace!filesVars
<1>2. content # None
  BY MCAssumption DEF Workspace!WorkspaceAssumption
<1>3. FilesTyped /\ \A n \in DOMAIN records : records[n].path \in Paths /\ records[n].source \in Paths
  BY DEF FilesInv, FilesTyped, Recorded
<1>4. ASSUME NEW n \in DOMAIN records, Good(n)'
      PROVE  Good(n) /\ \A q \in Workspace!On(records[n]) : files'[q] = files[q]
  <2>1. p \notin Workspace!On(records[n])
    BY <1>1, <1>2, <1>3, <1>4 DEF FilesTyped, Good, Workspace!Untouched, Workspace!On
  <2>2. \A q \in Workspace!On(records[n]) : q \in Paths \ {p}
    BY <1>3, <2>1 DEF Workspace!On
  <2>3. \A q \in Paths \ {p} : files'[q] = files[q] /\ theirs'[q] = theirs[q]
    BY <1>1, <1>3 DEF FilesTyped
  <2> QED
    BY <1>1, <1>4, <2>2, <2>3 DEF Good, Workspace!Alone, Workspace!Untouched, Workspace!Replaces, Workspace!On
<1>5. Waiting'
  BY <1>1, <1>4 DEF UndoInv, Waiting, AsLeft, Workspace!On
<1>6. UnderWay'
  <2> PICK L \in Nat : L = Len(report)
    BY <1>3 DEF FilesTyped
  <2>1. L + 1 <= Len(records) => L + 1 \in DOMAIN records
    BY <1>3 DEF FilesTyped
  <2> QED
    BY <1>1, <1>4, <2>1 DEF UndoInv, UnderWay, Workspace!On
<1>7. Finished'
  <2>1. DOMAIN report \subseteq DOMAIN records
    BY <1>3 DEF FilesTyped
  <2> QED
    BY <1>1, <1>4, <2>1 DEF UndoInv, Finished, Workspace!On
<1>8. InOrder' /\ Accounted'
  BY <1>1 DEF UndoInv, InOrder, Accounted
<1> QED
  BY <1>5, <1>6, <1>7, <1>8 DEF UndoInv

LEMMA StepUndo == FilesInv /\ UndoInv /\ FilesInv' /\ [Workspace!Next]_workspaceOwn => UndoInv'
<1> SUFFICES ASSUME FilesInv, UndoInv, FilesInv', [Workspace!Next]_workspaceOwn PROVE UndoInv'
  OBVIOUS
<1> USE DEF UndoInv, InOrder, Accounted, Waiting, UnderWay, Finished, AsLeft, Good, Workspace!Alone,
       Workspace!Untouched, Workspace!Replaces, Workspace!On
<1>1. CASE UNCHANGED workspaceOwn
  BY <1>1 DEF workspaceOwn
<1>2. CASE Workspace!EndTurn \/ Workspace!StartRestore \/ Workspace!EndRestore
  <2>1. /\ UNCHANGED <<files, records, theirs, before, partial, report>> /\ phase' # "turn"
        /\ phase' \in {"turn", "idle"} => phase = "turn" /\ UNCHANGED step
        /\ phase' = "over" => Len(report) = Len(records)
        /\ UNCHANGED step \/ (phase = "idle" /\ step' = "look")
    BY <1>2 DEF Workspace!EndTurn, Workspace!StartRestore, Workspace!EndRestore, Workspace!filesVars,
       Workspace!userVars
  <2>2. UNCHANGED step
    BY <2>1
  <2> QED
    BY <2>1, <2>2
<1>3. CASE Workspace!Fails
  <2> USE DEF FilesInv
  <2>1. /\ phase = "restoring" /\ Len(report) < Len(records) /\ Workspace!Outcome("failed")
        /\ UNCHANGED <<files, records, theirs, before, partial, phase>>
    BY <1>3 DEF Workspace!Fails, Workspace!Doing, Workspace!filesVars, Workspace!userVars
  <2> HIDE DEF UndoInv, UnderWay, Good
  <2> QED
    BY <2>1, RestoreUndo DEF Workspace!Outcome, Statuses
<1> HIDE DEF UndoInv, InOrder, Accounted, Waiting, UnderWay, Finished, AsLeft, Good, Workspace!Alone,
       Workspace!Untouched, Workspace!Replaces, Workspace!On
<1>4. FilesTyped
  BY DEF FilesInv
<1> QED
  BY <1>1, <1>2, <1>3, <1>4, ToolUndo, PatchUndo, UserUndo, LookUndo, BackUndo DEF Workspace!Next

(* A change that shares its files with no other, that put nothing in the     *)
(* place of something else and whose files the user let be is undone, and    *)
(* reported as undone, unless a file operation of its restoration failed.    *)
THEOREM LoneChangesUndone == MCSpec => []LoneChangeUndone
<1>1. MCInit => FilesInv /\ UndoInv
  BY InitFiles, InitUndo DEF MCInit
<1>2. FilesInv /\ UndoInv /\ [MCNext]_allVars => FilesInv' /\ UndoInv'
  <2>1. UNCHANGED workspaceVars => UNCHANGED workspaceOwn
    BY DEF workspaceVars, workspaceOwn
  <2> QED
    BY <2>1, StepFiles, StepUndo DEF MCNext, Rest, allVars
<1>3. FilesInv /\ UndoInv => LoneChangeUndone
  <2> SUFFICES ASSUME FilesInv, UndoInv, phase = "over", NEW n \in DOMAIN records, Good(n), report[n] # "failed"
               PROVE  report[n] = "restored" /\ \A p \in Workspace!On(records[n]) : files[p] = before[p]
    BY DEF LoneChangeUndone, Workspace!LoneChangeUndone, Good
  <2>1. n \in DOMAIN report
    BY DEF FilesInv, FilesTyped, UndoInv, InOrder
  <2> QED
    BY <2>1 DEF UndoInv, Finished
<1> QED
  BY <1>1, <1>2, <1>3, PTL DEF MCSpec

-----------------------------------------------------------------------------
(* The rollout: what a replay makes of what the handlers wrote.              *)

LEMMA SameCount == \A S : Log!IsFiniteSet(S) = IsFiniteSet(S) /\ Log!Cardinality(S) = Cardinality(S)
<1>1. \A S : Log!IsFiniteSet(S) = IsFiniteSet(S)
  BY DEF Log!IsFiniteSet, IsFiniteSet
<1>2. \A S : Log!Cardinality(S) = Cardinality(S)
  BY <1>1 DEF Log!Cardinality, Cardinality
<1> QED
  BY <1>1, <1>2

(* The least number of a set, and induction with a set for the property.     *)
LEMMA Least == ASSUME NEW S, S \subseteq Nat, S # {} PROVE \E x \in S : \A y \in S : x <= y
<1>1. \E x \in S : \A y \in S : ~ (<<y, x>> \in OpToRel(<, Nat))
  BY NatLessThanWellFounded, WFMin
<1>2. PICK x \in S : \A y \in S : ~ (<<y, x>> \in OpToRel(<, Nat))
  BY <1>1
<1>3. \A y \in S : ~ (y < x)
  BY <1>2 DEF OpToRel
<1>4. x \in S
  BY <1>2
<1> QED
  BY <1>3, <1>4

LEMMA UpTo ==
  ASSUME NEW N \in Nat, NEW S, 0 \in S, \A n \in 0..(N - 1) : n \in S => n + 1 \in S
  PROVE  \A n \in 0..N : n \in S
<1> SUFFICES ASSUME (0..N) \ S # {} PROVE FALSE
  OBVIOUS
<1>0. (0..N) \ S \subseteq Nat
  OBVIOUS
<1>1. PICK x \in (0..N) \ S : \A y \in (0..N) \ S : x <= y
  BY <1>0, Least
<1>2. x # 0 /\ x - 1 \in 0..(N - 1)
  BY <1>1
<1>3. x - 1 \in S
  BY <1>1, <1>2
<1> QED
  BY <1>1, <1>2, <1>3

(* The function that Only's recursion defines.                               *)
LEMMA OnlySteps ==
  ASSUME NEW T, NEW s \in Seq(T), NEW S
  PROVE  \E f \in [0..Len(s) -> Seq(T)] :
           /\ \A n \in 0..Len(s) : f[n] = OnlyStep(s, S, f, n)
           /\ Log!Only(s, S) = f[Len(s)]
<1> DEFINE N == Len(s)
           Fits(f, m) == \A n \in 0..m : f[n] = OnlyStep(s, S, f, n)
           D == {m \in 0..N : \E f \in [0..m -> Seq(T)] : Fits(f, m)}
<1>1. N \in Nat /\ s \in [1..N -> T]
  OBVIOUS
<1>2. 0 \in D
  <2> DEFINE f == [k \in 0..0 |-> <<>>]
  <2>1. f \in [0..0 -> Seq(T)]
    OBVIOUS
  <2>2. \A n \in 0..0 : f[n] = OnlyStep(s, S, f, n)
    BY DEF OnlyStep
  <2>3. 0 \in 0..N
    BY <1>1
  <2> HIDE DEF f
  <2> QED
    BY <2>1, <2>2, <2>3
<1>3. ASSUME NEW m \in 0..(N - 1), m \in D PROVE m + 1 \in D
  <2>1. PICK f \in [0..m -> Seq(T)] : Fits(f, m)
    BY <1>3
  <2> DEFINE g == [n \in 0..(m + 1) |-> IF n <= m THEN f[n] ELSE OnlyStep(s, S, f, n)]
  <2>2. m + 1 \in 1..N /\ s[m + 1] \in T
    BY <1>1
  <2>3. f[m] \in Seq(T)
    BY <1>1
  <2>4. OnlyStep(s, S, f, m + 1) \in Seq(T)
    <3>1. m + 1 # 0 /\ (m + 1) - 1 = m
      BY <1>1
    <3> QED
      BY <2>2, <2>3, <3>1 DEF OnlyStep
  <2>5. g \in [0..(m + 1) -> Seq(T)]
    <3>1. ASSUME NEW n \in 0..(m + 1) PROVE g[n] \in Seq(T)
      <4>1. n <= m => n \in 0..m
        BY <1>1
      <4>2. ~(n <= m) => n = m + 1
        BY <1>1
      <4> QED
        BY <2>4, <4>1, <4>2
    <3> QED
      BY <3>1
  <2>6. ASSUME NEW n \in 0..(m + 1) PROVE g[n] = OnlyStep(s, S, g, n)
    <3>1. n # 0 => n - 1 \in 0..m /\ n - 1 \in 0..(m + 1) /\ g[n - 1] = f[n - 1]
      BY <1>1
    <3>2. OnlyStep(s, S, g, n) = OnlyStep(s, S, f, n)
      BY <3>1 DEF OnlyStep
    <3>3. n <= m => n \in 0..m
      BY <1>1
    <3> QED
      BY <2>1, <3>2, <3>3
  <2>7. m + 1 \in 0..N
    BY <1>1
  <2> HIDE DEF g
  <2> QED
    BY <2>5, <2>6, <2>7
<1>4. N \in D
  <2>1. \A n \in 0..N : n \in D
    <3> HIDE DEF D
    <3> QED
      BY <1>1, <1>2, <1>3, UpTo
  <2>2. N \in 0..N
    BY <1>1
  <2> HIDE DEF D
  <2> QED
    BY <2>1, <2>2
<1>5. PICK f \in [0..N -> Seq(T)] : Fits(f, N)
  BY SMTT(30), <1>4
<1> DEFINE R(g) == g = [n \in 0..N |-> IF n = 0 THEN <<>> ELSE IF s[n] \in S THEN Append(g[n - 1], s[n]) ELSE g[n - 1]]
           F == CHOOSE g : R(g)
<1>6. R(f)
  BY <1>5 DEF OnlyStep
<1>7. R(F)
  BY <1>6
<1>8. Log!Only(s, S) = F[N]
  BY DEF Log!Only
<1> HIDE DEF F
<1>9. \A n \in 0..N : F[n] = OnlyStep(s, S, F, n)
  BY <1>7 DEF OnlyStep
<1>10. \A n \in 0..N : F[n] = f[n]
  <2> DEFINE E == {n \in 0..N : F[n] = f[n]}
  <2>1. 0 \in E
    BY <1>1, <1>5, <1>9 DEF OnlyStep
  <2>2. ASSUME NEW n \in 0..(N - 1), n \in E PROVE n + 1 \in E
    <3>1. n + 1 \in 0..N /\ n + 1 # 0 /\ (n + 1) - 1 = n /\ n \in 0..N
      BY <1>1
    <3> QED
      BY <1>5, <1>9, <2>2, <3>1 DEF OnlyStep
  <2>3. \A n \in 0..N : n \in E
    <3> HIDE DEF E
    <3> QED
      BY <1>1, <2>1, <2>2, UpTo
  <2> QED
    BY <2>3
<1> QED
  BY <1>1, <1>5, <1>8, <1>10

(* What Only keeps stands in its order, and is all there is of it.           *)
LEMMA OnlyKeeps ==
  ASSUME NEW T, NEW s \in Seq(T), NEW S
  PROVE  /\ Log!Only(s, S) \in Seq(T)
         /\ \E g \in [1..Len(Log!Only(s, S)) -> 1..Len(s)] :
              /\ \A k \in 1..Len(Log!Only(s, S)) : Log!Only(s, S)[k] = s[g[k]] /\ s[g[k]] \in S
              /\ \A j, k \in 1..Len(Log!Only(s, S)) : j < k => g[j] < g[k]
              /\ \A n \in 1..Len(s) : s[n] \in S => \E k \in 1..Len(Log!Only(s, S)) : g[k] = n
<1> DEFINE N == Len(s)
           Fits(u, n, g) ==
             /\ \A k \in 1..Len(u) : u[k] = s[g[k]] /\ s[g[k]] \in S
             /\ \A j, k \in 1..Len(u) : j < k => g[j] < g[k]
             /\ \A m \in 1..n : s[m] \in S => \E k \in 1..Len(u) : g[k] = m
<1>1. N \in Nat /\ s \in [1..N -> T]
  OBVIOUS
<1>2. PICK f \in [0..N -> Seq(T)] :
        (\A n \in 0..N : f[n] = OnlyStep(s, S, f, n)) /\ Log!Only(s, S) = f[N]
  BY ZenonT(40), OnlySteps
<1> DEFINE E == {n \in 0..N : \E g \in [1..Len(f[n]) -> 1..n] : Fits(f[n], n, g)}
<1>3. 0 \in E
  <2>1. f[0] = <<>> /\ Len(f[0]) = 0
    BY <1>1, <1>2 DEF OnlyStep
  <2> DEFINE g == [k \in 1..0 |-> k]
  <2>2. g \in [1..Len(f[0]) -> 1..0]
    BY <2>1
  <2>3. Fits(f[0], 0, g)
    BY <2>1
  <2> HIDE DEF g
  <2> QED
    BY <1>1, <2>2, <2>3
<1>4. ASSUME NEW n \in 0..(N - 1), n \in E PROVE n + 1 \in E
  <2>1. /\ n + 1 \in 1..N /\ n + 1 # 0 /\ (n + 1) - 1 = n /\ n \in 0..N /\ n + 1 \in 0..N
        /\ n \in Nat /\ s[n + 1] \in T /\ f[n] \in Seq(T) /\ f[n + 1] \in Seq(T)
    <3>1. n + 1 \in 1..N /\ n + 1 # 0 /\ (n + 1) - 1 = n /\ n \in 0..N /\ n + 1 \in 0..N /\ n \in Nat
      BY <1>1
    <3> QED
      BY <1>1, <1>2, <3>1
  <2>2. f[n + 1] = IF s[n + 1] \in S THEN Append(f[n], s[n + 1]) ELSE f[n]
    BY <1>2, <2>1 DEF OnlyStep
  <2>3. PICK g \in [1..Len(f[n]) -> 1..n] : Fits(f[n], n, g)
    BY <1>4
  <2>4. CASE s[n + 1] \notin S
    <3>1. f[n + 1] = f[n] /\ g \in [1..Len(f[n]) -> 1..(n + 1)]
      BY <2>1, <2>2, <2>4
    <3>2. \A m \in 1..(n + 1) : m \in 1..n \/ m = n + 1
      BY <2>1
    <3>3. Fits(f[n], n + 1, g)
      BY <2>3, <2>4, <3>2
    <3> HIDE DEF Fits
    <3> QED
      BY <2>1, <3>1, <3>3
  <2>5. CASE s[n + 1] \in S
    <3> DEFINE L == Len(f[n])
               u == f[n + 1]
               h == [k \in 1..(L + 1) |-> IF k <= L THEN g[k] ELSE n + 1]
    <3>1. u = Append(f[n], s[n + 1]) /\ L \in Nat /\ Len(u) = L + 1
      BY <2>1, <2>2, <2>5
    <3>2. (\A k \in 1..L : u[k] = f[n][k]) /\ u[L + 1] = s[n + 1]
      BY <2>1, <3>1
    <3>3. \A k \in 1..(L + 1) : k \in 1..L \/ k = L + 1
      BY <3>1
    <3>4. \A k \in 1..L : k \in 1..(L + 1) /\ g[k] \in 1..n /\ h[k] = g[k] /\ k < L + 1
      <4>1. \A k \in 1..L : k \in 1..(L + 1) /\ k <= L /\ k < L + 1
        BY <3>1
      <4> QED
        BY <2>3, <4>1
    <3>5. h[L + 1] = n + 1 /\ L + 1 \in 1..(L + 1) /\ ~(L + 1 < L + 1) /\ \A k \in 1..L : ~(L + 1 < k)
      BY <3>1
    <3>6. h \in [1..Len(u) -> 1..(n + 1)]
      <4>1. \A k \in 1..(L + 1) : h[k] \in 1..(n + 1)
        <5>1. \A m \in 1..n : m \in 1..(n + 1)
          BY <2>1
        <5> HIDE DEF h
        <5> QED
          BY SMTT(30), <2>1, <3>3, <3>4, <3>5, <5>1
      <4> QED
        BY <3>1, <4>1
    <3> HIDE DEF h
    <3>7. \A k \in 1..Len(u) : u[k] = s[h[k]] /\ s[h[k]] \in S
      BY <2>3, <2>5, <3>1, <3>2, <3>3, <3>4, <3>5
    <3>8. \A j, k \in 1..Len(u) : j < k => h[j] < h[k]
      <4>1. \A k \in 1..L : h[k] < n + 1
        BY <2>1, <3>4
      <4> QED
        BY SMTT(30), <2>3, <3>1, <3>3, <3>4, <3>5, <4>1
    <3>9. \A m \in 1..(n + 1) : s[m] \in S => \E k \in 1..Len(u) : h[k] = m
      <4>1. \A m \in 1..(n + 1) : m \in 1..n \/ m = n + 1
        BY <2>1
      <4> QED
        BY <2>3, <3>1, <3>4, <3>5, <4>1
    <3>10. Fits(f[n + 1], n + 1, h)
      BY <3>7, <3>8, <3>9
    <3> HIDE DEF Fits
    <3> QED
      BY <2>1, <3>6, <3>10
  <2> QED
    BY <2>4, <2>5
<1>5. N \in E
  <2>1. \A n \in 0..N : n \in E
    <3> HIDE DEF E
    <3> QED
      BY <1>1, <1>3, <1>4, UpTo
  <2> HIDE DEF E
  <2> QED
    BY <1>1, <2>1
<1>6. PICK g \in [1..Len(f[N]) -> 1..N] : Fits(f[N], N, g)
  BY <1>5
<1>7. f[N] \in Seq(T)
  BY <1>1, <1>2
<1>8. Log!Only(s, S) = f[N]
  BY <1>2
<1> DEFINE u == Log!Only(s, S)
<1>9. u \in Seq(T)
  BY <1>7, <1>8
<1>10. g \in [1..Len(u) -> 1..N] /\ Fits(u, N, g)
  BY <1>6, <1>8
<1> HIDE DEF u
<1>11. \E h \in [1..Len(u) -> 1..N] : Fits(u, N, h)
  BY <1>10
<1> QED
  BY <1>9, <1>11 DEF u

(* As sets.                                                                  *)
LEMMA OnlyThose ==
  ASSUME NEW T, NEW s \in Seq(T), NEW S
  PROVE  Log!Only(s, S) \in Seq(T) /\ Log!ToSet(Log!Only(s, S)) = Log!ToSet(s) \cap S
<1>1. PICK g \in [1..Len(Log!Only(s, S)) -> 1..Len(s)] :
        /\ \A k \in 1..Len(Log!Only(s, S)) : Log!Only(s, S)[k] = s[g[k]] /\ s[g[k]] \in S
        /\ \A n \in 1..Len(s) : s[n] \in S => \E k \in 1..Len(Log!Only(s, S)) : g[k] = n
  BY OnlyKeeps
<1>2. Log!Only(s, S) \in Seq(T)
  BY OnlyKeeps
<1>3. DOMAIN s = 1..Len(s) /\ DOMAIN Log!Only(s, S) = 1..Len(Log!Only(s, S))
  BY <1>2
<1> DEFINE u == Log!Only(s, S)
<1> HIDE DEF u
<1>4. Log!ToSet(u) \subseteq Log!ToSet(s) \cap S
  BY <1>1, <1>3 DEF Log!ToSet, u
<1>5. ASSUME NEW x \in Log!ToSet(s) \cap S PROVE x \in Log!ToSet(u)
  <2>1. PICK n \in 1..Len(s) : s[n] = x
    BY <1>3 DEF Log!ToSet
  <2>2. PICK k \in 1..Len(u) : g[k] = n
    BY <1>1, <2>1 DEF u
  <2>3. u[k] = x
    BY <1>1, <2>1, <2>2 DEF u
  <2> QED
    BY <1>3, <2>3 DEF Log!ToSet, u
<1> QED
  BY <1>2, <1>4, <1>5 DEF u

(* What Sorted makes of a sequence: the same, in the order of its numbers.   *)
LEMMA SortedKeeps ==
  ASSUME NEW T, NEW s \in Seq(T), \A x \in T : x.seq \in Nat
  PROVE  \E g \in [1..Len(s) -> 1..Len(s)] :
           /\ Log!Sorted(s) = [p \in 1..Len(s) |-> s[g[p]]]
           /\ \A p, q \in 1..Len(s) : p < q => s[g[p]].seq <= s[g[q]].seq /\ g[p] # g[q]
           /\ \A n \in 1..Len(s) : \E p \in 1..Len(s) : g[p] = n
<1> DEFINE N == Len(s)
           I == DOMAIN s
           Before(m, n) == \/ s[m].seq < s[n].seq
                           \/ s[m].seq = s[n].seq /\ m < n
           Ahead(n) == {m \in I : Before(m, n)}
           Place(n) == 1 + Log!Cardinality(Ahead(n))
<1>0. I = 1..N
  OBVIOUS
<1>1. N \in Nat /\ s \in [I -> T] /\ \A n \in I : s[n].seq \in Nat /\ n \in Nat
  BY <1>0
<1>2. IsFiniteSet(I) /\ Cardinality(I) = N
  <2>1. IsFiniteSet(1..N) /\ Cardinality(1..N) = IF 1 > N THEN 0 ELSE N - 1 + 1
    BY <1>1, FS_Interval
  <2> QED
    BY <1>0, <1>1, <2>1
<1>3. \A n \in I : IsFiniteSet(Ahead(n)) /\ Log!Cardinality(Ahead(n)) = Cardinality(Ahead(n)) /\ Cardinality(Ahead(n)) \in Nat
  <2> SUFFICES ASSUME NEW n \in I PROVE IsFiniteSet(Ahead(n)) /\ Log!Cardinality(Ahead(n)) = Cardinality(Ahead(n)) /\ Cardinality(Ahead(n)) \in Nat
    OBVIOUS
  <2>1. Ahead(n) \in SUBSET I
    OBVIOUS
  <2> HIDE DEF Ahead
  <2>2. IsFiniteSet(Ahead(n))
    BY <1>2, <2>1, FS_Subset
  <2> QED
    BY <2>2, FS_CardinalityType, SameCount
<1>4. \A n \in I : Place(n) \in I
  <2> SUFFICES ASSUME NEW n \in I PROVE Place(n) \in I
    OBVIOUS
  <2>1. Ahead(n) \in SUBSET (I \ {n})
    BY <1>1
  <2>2. IsFiniteSet(I \ {n}) /\ Cardinality(I \ {n}) = N - 1
    BY <1>2, FS_RemoveElement
  <2> HIDE DEF Ahead
  <2>3. Cardinality(Ahead(n)) <= N - 1
    BY <2>1, <2>2, FS_Subset
  <2> QED
    BY <1>0, <1>1, <1>3, <2>3
<1>5. \A m, n \in I : Before(m, n) => Place(m) < Place(n)
  <2> SUFFICES ASSUME NEW m \in I, NEW n \in I, Before(m, n) PROVE Place(m) < Place(n)
    OBVIOUS
  <2>1. Ahead(m) \in SUBSET (Ahead(n) \ {m})
    BY <1>1
  <2>2. m \in Ahead(n)
    OBVIOUS
  <2> HIDE DEF Ahead
  <2>3. IsFiniteSet(Ahead(n) \ {m}) /\ Cardinality(Ahead(n) \ {m}) = Cardinality(Ahead(n)) - 1
    BY <1>3, <2>2, FS_RemoveElement
  <2>4. Cardinality(Ahead(m)) <= Cardinality(Ahead(n)) - 1
    BY <2>1, <2>3, FS_Subset
  <2> QED
    BY <1>3, <2>4
<1>6. \A m, n \in I : m = n \/ Before(m, n) \/ Before(n, m)
  BY <1>1
<1> DEFINE f == [n \in I |-> Place(n)]
<1>7. \A n \in I : f[n] = Place(n)
  OBVIOUS
<1> HIDE DEF Before, Place, f
<1>8. f \in [I -> I] /\ \A m, n \in I : f[m] = f[n] => m = n
  <2>1. f \in [I -> I]
    BY <1>4 DEF f
  <2>2. ASSUME NEW m \in I, NEW n \in I, f[m] = f[n] PROVE m = n
    <3>1. Place(m) = Place(n) /\ Place(m) \in Nat
      BY <1>1, <1>4, <1>7, <2>2
    <3> QED
      BY <1>5, <1>6, <3>1
  <2> QED
    BY <2>1, <2>2
<1>9. \A p \in I : \E n \in I : f[n] = p
  <2> SUFFICES ASSUME NEW p \in I, \A n \in I : f[n] # p PROVE FALSE
    OBVIOUS
  <2>1. f \in [I -> I \ {p}]
    BY <1>8
  <2>2. IsFiniteSet(I \ {p}) /\ Cardinality(I \ {p}) = N - 1
    BY <1>2, FS_RemoveElement
  <2>3. Cardinality(I \ {p}) < Cardinality(I)
    BY <1>1, <1>2, <2>2
  <2>4. \E m, n \in I : m # n /\ f[m] = f[n]
    BY <1>2, <2>1, <2>2, <2>3, FS_PigeonHole
  <2> QED
    BY <1>8, <2>4
<1> DEFINE g == [p \in I |-> CHOOSE n \in I : Place(n) = p]
<1>10. \A p \in I : g[p] \in I /\ Place(g[p]) = p
  <2> SUFFICES ASSUME NEW p \in I PROVE g[p] \in I /\ Place(g[p]) = p
    OBVIOUS
  <2>1. \E n \in I : Place(n) = p
    BY <1>7, <1>9
  <2> QED
    BY <2>1
<1>11. Log!Sorted(s) = [p \in I |-> s[CHOOSE n \in I : Place(n) = p]]
  BY DEF Log!Sorted, Place, Before, Ahead
<1>12. \A p \in I : g[p] = CHOOSE n \in I : Place(n) = p
  OBVIOUS
<1>13. g \in [I -> I]
  BY <1>10
<1> HIDE DEF g
<1>14. Log!Sorted(s) = [p \in I |-> s[g[p]]]
  BY <1>11, <1>12
<1>15. ASSUME NEW p \in I, NEW q \in I, p < q PROVE s[g[p]].seq <= s[g[q]].seq /\ g[p] # g[q]
  <2>1. g[p] # g[q] /\ ~Before(g[q], g[p])
    <3>1. Place(g[p]) = p /\ Place(g[q]) = q /\ ~(q < p) /\ p # q
      BY <1>1, <1>10, <1>15
    <3> QED
      BY <1>5, <1>13, <3>1
  <2>2. Before(g[p], g[q])
    BY <1>6, <1>13, <2>1
  <2>3. g[p] \in I /\ g[q] \in I /\ s[g[p]].seq \in Nat /\ s[g[q]].seq \in Nat
    BY <1>1, <1>13
  <2> QED
    BY <2>1, <2>2, <2>3 DEF Before
<1>16. ASSUME NEW n \in I PROVE \E p \in I : g[p] = n
  <2>1. f[n] \in I /\ Place(g[f[n]]) = f[n] /\ g[f[n]] \in I
    BY <1>8, <1>10
  <2>2. f[g[f[n]]] = f[n]
    BY <1>7, <2>1
  <2> QED
    BY <1>8, <2>1, <2>2
<1> QED
  BY <1>0, <1>13, <1>14, <1>15, <1>16

(* Sequences as sets.                                                        *)
LEMMA Grown ==
  ASSUME NEW T, NEW s \in Seq(T), NEW e \in T
  PROVE  Append(s, e) \in Seq(T) /\ Log!ToSet(Append(s, e)) = Log!ToSet(s) \cup {e}
<1>1. /\ Append(s, e) \in Seq(T) /\ Len(s) \in Nat
      /\ DOMAIN s = 1..Len(s) /\ DOMAIN Append(s, e) = 1..(Len(s) + 1)
      /\ Append(s, e)[Len(s) + 1] = e
      /\ \A n \in 1..Len(s) : Append(s, e)[n] = s[n]
  OBVIOUS
<1>2. \A n : n \in 1..(Len(s) + 1) <=> n \in 1..Len(s) \/ n = Len(s) + 1
  BY <1>1
<1> DEFINE a == Append(s, e)
<1> HIDE DEF a
<1> QED
  BY <1>1, <1>2 DEF Log!ToSet, a

LEMMA Joined ==
  ASSUME NEW T, NEW a \in Seq(T), NEW b \in Seq(T)
  PROVE  a \o b \in Seq(T) /\ Log!ToSet(a \o b) = Log!ToSet(a) \cup Log!ToSet(b)
<1>1. /\ a \o b \in Seq(T) /\ Len(a) \in Nat /\ Len(b) \in Nat
      /\ DOMAIN a = 1..Len(a) /\ DOMAIN b = 1..Len(b) /\ DOMAIN (a \o b) = 1..(Len(a) + Len(b))
      /\ \A n \in 1..Len(a) : (a \o b)[n] = a[n]
      /\ \A n \in 1..Len(b) : (a \o b)[Len(a) + n] = b[n]
  OBVIOUS
<1>2. ASSUME NEW i \in Nat, NEW j \in Nat
      PROVE  \A n : n \in 1..(i + j) <=> n \in 1..i \/ \E m \in 1..j : n = i + m
  <2>1. ASSUME NEW n \in 1..(i + j), n \notin 1..i PROVE \E m \in 1..j : n = i + m
    <3>1. n - i \in 1..j /\ n = i + (n - i)
      BY <2>1
    <3> QED
      BY <3>1
  <2>2. (\A n \in 1..i : n \in 1..(i + j)) /\ \A m \in 1..j : i + m \in 1..(i + j)
    OBVIOUS
  <2> QED
    BY <2>1, <2>2
<1> DEFINE c == a \o b
           N == Len(a) + Len(b)
<1>3. \A n : n \in 1..N <=> n \in 1..Len(a) \/ \E m \in 1..Len(b) : n = Len(a) + m
  BY <1>1, <1>2
<1>4. DOMAIN c = 1..N
  BY <1>1
<1> HIDE DEF N
<1>5. Log!ToSet(c) = {c[n] : n \in 1..N}
  BY <1>4 DEF Log!ToSet
<1>6. \A n \in 1..Len(a) : n \in 1..N /\ c[n] = a[n]
  BY <1>1, <1>3
<1>7. \A n \in 1..Len(b) : Len(a) + n \in 1..N /\ c[Len(a) + n] = b[n]
  BY <1>1, <1>3
<1> HIDE DEF c
<1>8. Log!ToSet(a) = {a[n] : n \in 1..Len(a)} /\ Log!ToSet(b) = {b[n] : n \in 1..Len(b)}
  BY <1>1 DEF Log!ToSet
<1>9. Log!ToSet(c) \subseteq Log!ToSet(a) \cup Log!ToSet(b)
  BY <1>3, <1>5, <1>6, <1>7, <1>8
<1>10. Log!ToSet(a) \cup Log!ToSet(b) \subseteq Log!ToSet(c)
  BY <1>5, <1>6, <1>7, <1>8
<1> QED
  BY <1>1, <1>9, <1>10 DEF c

LEMMA Begun ==
  ASSUME NEW T, NEW s \in Seq(T), NEW n \in 0..Len(s)
  PROVE  /\ SubSeq(s, 1, n) \in Seq(T) /\ Len(SubSeq(s, 1, n)) = n
         /\ \A k \in 1..n : SubSeq(s, 1, n)[k] = s[k]
         /\ Log!ToSet(SubSeq(s, 1, n)) \subseteq Log!ToSet(s)
<1>1. /\ Len(s) \in Nat /\ DOMAIN s = 1..Len(s)
      /\ SubSeq(s, 1, n) \in Seq(T) /\ Len(SubSeq(s, 1, n)) = n
      /\ DOMAIN SubSeq(s, 1, n) = 1..n
      /\ \A k \in 1..n : SubSeq(s, 1, n)[k] = s[k] /\ k \in 1..Len(s)
  OBVIOUS
<1> DEFINE c == SubSeq(s, 1, n)
<1> HIDE DEF c
<1> QED
  BY <1>1 DEF Log!ToSet, c

LEMMA Members ==
  ASSUME NEW T, NEW s \in Seq(T)
  PROVE  /\ Log!ToSet(s) \subseteq T /\ (Log!ToSet(s) = {} <=> s = <<>>)
         /\ s # <<>> => Log!Last(s) \in Log!ToSet(s)
<1>1. /\ Len(s) \in Nat /\ DOMAIN s = 1..Len(s) /\ (Len(s) = 0 <=> s = <<>>)
      /\ \A n \in 1..Len(s) : s[n] \in T
  OBVIOUS
<1>2. s # <<>> => Len(s) \in 1..Len(s)
  BY <1>1
<1>3. s = <<>> => 1..Len(s) = {}
  BY <1>1
<1> QED
  BY <1>1, <1>2, <1>3 DEF Log!ToSet, Log!Last

LEMMA IdsOf ==
  /\ \A s : Log!Ids(s) = {x.id : x \in Log!ToSet(s)}
  /\ \A s, t : Log!OfTurn(s, t) = {x.id : x \in {y \in Log!ToSet(s) : y.turn = t}}
<1>1. ASSUME NEW s PROVE Log!Ids(s) = {x.id : x \in Log!ToSet(s)}
  BY DEF Log!Ids, Log!ToSet
<1>2. ASSUME NEW s, NEW t PROVE Log!OfTurn(s, t) = {x.id : x \in {y \in Log!ToSet(s) : y.turn = t}}
  BY DEF Log!OfTurn, Log!ToSet
<1> QED
  BY <1>1, <1>2

(* The number that a replay which cuts goes on from.                         *)
LEMMA NextOf ==
  ASSUME NEW T, NEW s \in Seq(T), \A x \in T : x.seq \in Nat
  PROVE  LET S == {1} \cup {s[n].seq + 1 : n \in DOMAIN s}
         IN  Log!Max(S) \in Nat \ {0} /\ \A x \in Log!ToSet(s) : x.seq < Log!Max(S)
<1> DEFINE N == Len(s)
           Upto(n) == {1} \cup {s[k].seq + 1 : k \in 1..n}
           Tops(n) == \E m \in Upto(n) : \A k \in Upto(n) : m >= k
           E == {n \in 0..N : Tops(n)}
           S == {1} \cup {s[n].seq + 1 : n \in DOMAIN s}
<1>1. N \in Nat /\ DOMAIN s = 1..N /\ \A n \in 1..N : s[n].seq \in Nat /\ s[n].seq + 1 \in Nat \ {0}
  OBVIOUS
<1>2. 0 \in E
  <2>1. Upto(0) = {1} /\ 0 \in 0..N
    BY <1>1
  <2> QED
    BY <2>1
<1>3. ASSUME NEW n \in 0..(N - 1), n \in E PROVE n + 1 \in E
  <2>1. n + 1 \in 1..N /\ n + 1 \in 0..N /\ \A k : k \in 1..(n + 1) <=> k \in 1..n \/ k = n + 1
    BY <1>1
  <2>2. \A k \in 1..n : k \in 1..N
    BY <1>1
  <2>3. Upto(n + 1) = Upto(n) \cup {s[n + 1].seq + 1}
    BY <2>1
  <2>4. Upto(n) \subseteq Nat
    BY <1>1, <2>2
  <2>5. PICK m \in Upto(n) : \A k \in Upto(n) : m >= k
    BY <1>3
  <2> DEFINE t == s[n + 1].seq + 1
  <2>6. t \in Nat /\ m \in Nat
    BY <1>1, <2>1, <2>4
  <2> HIDE DEF t, Upto
  <2>7. CASE m >= t
    BY <2>1, <2>3, <2>5, <2>7 DEF t
  <2>8. CASE ~(m >= t)
    <3>1. \A k \in Upto(n) : t >= k
      BY <2>4, <2>5, <2>6, <2>8
    <3>2. t \in Upto(n + 1) /\ \A k \in Upto(n + 1) : k \in Upto(n) \/ k = t
      BY <2>3 DEF t
    <3>3. \A k \in Upto(n + 1) : t >= k
      BY <2>6, <3>1, <3>2
    <3> QED
      BY <2>1, <3>2, <3>3
  <2> QED
    BY <2>7, <2>8
<1>4. N \in E
  <2>1. \A n \in 0..N : n \in E
    <3> HIDE DEF E
    <3> QED
      BY <1>1, <1>2, <1>3, UpTo
  <2> HIDE DEF E
  <2> QED
    BY <1>1, <2>1
<1>5. Upto(N) = S
  BY <1>1
<1>6. \E m \in S : \A k \in S : m >= k
  BY <1>4, <1>5
<1>7. Log!Max(S) \in S /\ \A k \in S : Log!Max(S) >= k
  BY <1>6 DEF Log!Max
<1>8. S \subseteq Nat \ {0}
  BY <1>1
<1> DEFINE M == Log!Max(S)
<1>9. \A x \in Log!ToSet(s) : x.seq \in Nat /\ x.seq + 1 \in S
  BY <1>1 DEF Log!ToSet
<1> HIDE DEF S, M
<1>10. M \in Nat \ {0} /\ \A k \in S : M >= k
  BY <1>7, <1>8 DEF M
<1>11. \A x \in Log!ToSet(s) : x.seq < M
  BY <1>8, <1>9, <1>10
<1> QED
  BY <1>10, <1>11 DEF M, S

-----------------------------------------------------------------------------
(* The lines of the replay, one kind at a time.                              *)
LEMMA ReplayTurn ==
  ASSUME NEW d \in Disks, NEW t \in Turns, NEW e, e = Log!Replayed(d, Log!TurnLine(t))
  PROVE  /\ e \in Disks /\ e.items = d.items /\ e.gone = d.gone /\ e.snap = d.snap /\ e.next = d.next
         /\ t \in d.gone => e = d
         /\ t \notin d.gone => e.latest = t /\ Log!ToSet(e.order) = Log!ToSet(d.order) \cup {t}
<1>1. e = Log!WithTurn(d, t)
  BY DEF Log!Replayed, Log!TurnLine
<1>2. CASE t \in d.gone
  BY <1>1, <1>2 DEF Log!WithTurn
<1>3. CASE t \notin d.gone
  <2>1. d.order \in Seq(Turns)
    BY DEF Disks
  <2>2. Append(d.order, t) \in Seq(Turns) /\ Log!ToSet(Append(d.order, t)) = Log!ToSet(d.order) \cup {t}
    BY <2>1, Grown
  <2> DEFINE o == IF t \in Log!ToSet(d.order) THEN d.order ELSE Append(d.order, t)
  <2>3. o \in Seq(Turns) /\ Log!ToSet(o) = Log!ToSet(d.order) \cup {t}
    BY <2>1, <2>2
  <2>4. e = [d EXCEPT !.latest = t, !.order = o]
    BY <1>1, <1>3 DEF Log!WithTurn
  <2> HIDE DEF o
  <2> QED
    BY <1>3, <2>3, <2>4 DEF Disks
<1> QED
  BY <1>2, <1>3

LEMMA ReplayItem ==
  ASSUME NEW d \in Disks, NEW i \in DiskItems, NEW e, e = Log!Replayed(d, Log!ItemLine(i))
  PROVE  /\ e \in Disks /\ e.order = d.order /\ e.latest = d.latest /\ e.gone = d.gone /\ e.snap = d.snap
         /\ i.turn \in d.gone => e = d
         /\ i.turn \notin d.gone => /\ Log!ToSet(e.items) = Log!ToSet(d.items) \cup {i}
                                    /\ e.next = IF d.next > i.seq + 1 THEN d.next ELSE i.seq + 1
<1>1. e = Log!WithItem(d, i)
  BY DEF Log!Replayed, Log!ItemLine
<1>2. CASE i.turn \in d.gone
  BY <1>1, <1>2 DEF Log!WithItem
<1>3. CASE i.turn \notin d.gone
  <2>1. d.items \in Seq(DiskItems)
    BY DEF Disks
  <2> DEFINE s == Append(d.items, i)
             n == IF d.next > i.seq + 1 THEN d.next ELSE i.seq + 1
  <2>2. s \in Seq(DiskItems) /\ Log!ToSet(s) = Log!ToSet(d.items) \cup {i}
    BY <2>1, Grown
  <2>3. n \in Nat
    BY DEF Disks, DiskItems
  <2>4. e = [d EXCEPT !.items = s, !.next = n]
    BY <1>1, <1>3 DEF Log!WithItem, Log!Larger
  <2> HIDE DEF s, n
  <2>5. e.items = s /\ e.next = n /\ e \in Disks /\ e.order = d.order /\ e.latest = d.latest
        /\ e.gone = d.gone /\ e.snap = d.snap
    BY <2>2, <2>3, <2>4 DEF Disks
  <2> QED
    BY <1>3, <2>2, <2>5 DEF n
<1> QED
  BY <1>2, <1>3

LEMMA ReplaySuperseded ==
  ASSUME NEW d \in Disks, NEW t \in Turns, NEW e,
         e = Log!Replayed(d, [kind |-> "superseded", turn |-> t])
  PROVE  /\ e \in Disks /\ e.next = d.next /\ e.gone = d.gone \cup {t} /\ e.snap \in {d.snap, None}
         /\ Log!ToSet(e.items) = {x \in Log!ToSet(d.items) : x.turn # t}
         /\ Log!ToSet(e.order) = Log!ToSet(d.order) \ {t}
         /\ d.latest # t => e.latest = d.latest
         /\ d.latest = t => e.latest \in Log!ToSet(e.order) \cup {None}
<1> DEFINE kept == Log!Others(d.items, t)
           left == Log!Only(d.order, Log!ToSet(d.order) \ {t})
           last == Log!LastOr(left, None)
<1>1. e = Log!WithoutTurn(d, t)
  BY DEF Log!Replayed
<1>2. d.items \in Seq(DiskItems) /\ d.order \in Seq(Turns)
  BY DEF Disks
<1>3. kept \in Seq(DiskItems) /\ Log!ToSet(kept) = {x \in Log!ToSet(d.items) : x.turn # t}
  BY <1>2, OnlyThose DEF Log!Others
<1>4. left \in Seq(Turns) /\ Log!ToSet(left) = Log!ToSet(d.order) \ {t}
  BY <1>2, OnlyThose
<1>5. last \in Log!ToSet(left) \cup {None} /\ Log!ToSet(left) \subseteq Turns
  <2>1. left \in Seq(Turns)
    BY <1>4
  <2> HIDE DEF left
  <2>2. Log!ToSet(left) \subseteq Turns /\ (left # <<>> => Log!Last(left) \in Log!ToSet(left))
    BY <2>1, Members
  <2> QED
    BY <2>2 DEF Log!LastOr
<1> DEFINE newest == IF d.latest = t THEN last ELSE d.latest
           snap == IF Log!Refers(d.snap, Log!OfTurn(d.items, t)) THEN None ELSE d.snap
           gone == d.gone \cup {t}
<1>6. e = [d EXCEPT !.gone = gone, !.items = kept, !.order = left, !.latest = newest, !.snap = snap]
  BY <1>1 DEF Log!WithoutTurn
<1>7. newest \in Turns \cup {None} /\ snap \in {d.snap, None} /\ gone \in SUBSET Turns
      /\ snap \in Snaps \cup {None}
  BY <1>5 DEF Disks
<1>8. (d.latest # t => newest = d.latest) /\ (d.latest = t => newest = last)
  OBVIOUS
<1> HIDE DEF newest, snap, kept, left, last
<1>9. /\ e \in Disks /\ e.next = d.next /\ e.gone = gone /\ e.snap = snap /\ e.items = kept
      /\ e.order = left /\ e.latest = newest
  BY <1>3, <1>4, <1>6, <1>7 DEF Disks
<1> QED
  BY <1>3, <1>4, <1>5, <1>7, <1>8, <1>9

LEMMA ReplayRollback ==
  ASSUME NEW d \in Disks, NEW l \in CutLines, NEW e, e = Log!Replayed(d, l)
  PROVE  /\ e \in Disks /\ e.gone = d.gone \cap l.turns /\ e.snap \in {d.snap, None}
         /\ Log!ToSet(e.items) = {x \in Log!ToSet(d.items) : x.turn \in l.turns /\ x.id \in l.ids}
         /\ Log!ToSet(e.order) = Log!ToSet(d.order) \cap l.turns
         /\ e.latest = IF l.latest \in Log!ToSet(e.order) THEN l.latest ELSE None
         /\ \A x \in Log!ToSet(e.items) : x.seq < e.next
         /\ e.snap # None => e.snap.summary \in l.ids
<1> DEFINE kept == Log!Only(d.items, Log!Within(d.items, l))
           left == Log!Only(d.order, l.turns)
           next == Log!Max({1} \cup {kept[n].seq + 1 : n \in DOMAIN kept})
           latest == IF l.latest \in Log!ToSet(left) THEN l.latest ELSE None
           snap == IF d.snap # None /\ {d.snap.summary} \cup Log!ToSet(d.snap.kept) \subseteq l.ids
                   THEN d.snap ELSE None
<1>1. l.kind = "rollback" /\ l.turns \subseteq Turns /\ l.latest \in Turns \cup {None}
  BY DEF CutLines
<1>2. e = Log!CutTo(d, l)
  BY <1>1 DEF Log!Replayed
<1>3. e = [items |-> kept, order |-> left, latest |-> latest, gone |-> d.gone \cap l.turns,
           snap |-> snap, next |-> next]
  BY <1>2 DEF Log!CutTo
<1>4. d.items \in Seq(DiskItems) /\ d.order \in Seq(Turns)
  BY DEF Disks
<1>5. Log!Within(d.items, l) = {x \in Log!ToSet(d.items) : x.turn \in l.turns /\ x.id \in l.ids}
  BY DEF Log!Within
<1>6. kept \in Seq(DiskItems) /\ Log!ToSet(kept) = {x \in Log!ToSet(d.items) : x.turn \in l.turns /\ x.id \in l.ids}
  BY <1>4, <1>5, OnlyThose
<1>7. left \in Seq(Turns) /\ Log!ToSet(left) = Log!ToSet(d.order) \cap l.turns
  BY <1>4, OnlyThose
<1>8. next \in Nat \ {0} /\ \A x \in Log!ToSet(kept) : x.seq < next
  <2>1. \A x \in DiskItems : x.seq \in Nat
    BY DEF DiskItems
  <2> HIDE DEF kept
  <2> QED
    BY <1>6, <2>1, NextOf
<1>9. latest \in Turns \cup {None} /\ snap \in {d.snap, None} /\ snap \in Snaps \cup {None}
      /\ (snap # None => snap.summary \in l.ids)
  BY <1>1 DEF Disks
<1> HIDE DEF kept, left, next, snap
<1>10. e \in Disks
  BY <1>3, <1>6, <1>7, <1>8, <1>9 DEF Disks
<1> QED
  BY <1>3, <1>6, <1>7, <1>8, <1>9, <1>10

LEMMA ReplaySnapshot ==
  ASSUME NEW d \in Disks, NEW s \in Snaps, NEW e, e = Log!Replayed(d, [kind |-> "snapshot", snap |-> s])
  PROVE  /\ e \in Disks /\ e.items = d.items /\ e.order = d.order /\ e.latest = d.latest
         /\ e.gone = d.gone /\ e.next = d.next /\ e.snap = s
<1>1. e = [d EXCEPT !.snap = s]
  BY DEF Log!Replayed
<1> QED
  BY <1>1 DEF Disks

LEMMA ReplayNote == \A d : Log!Replayed(d, Log!NoteLine) = d
  BY DEF Log!Replayed, Log!NoteLine

LEMMA LineKinds ==
  ASSUME NEW l \in Lines
  PROVE  \/ l.turn \in Turns /\ l = Log!TurnLine(l.turn)
         \/ l.turn \in Turns /\ l = [kind |-> "superseded", turn |-> l.turn]
         \/ l.item \in DiskItems /\ l = Log!ItemLine(l.item)
         \/ l \in CutLines
         \/ l.snap \in Snaps /\ l = [kind |-> "snapshot", snap |-> l.snap]
         \/ l = Log!NoteLine
<1>1. l \in TurnLines => l = [kind |-> l.kind, turn |-> l.turn] /\ l.kind \in {"turn", "superseded"} /\ l.turn \in Turns
  BY DEF TurnLines
<1>2. l \in ItemLines => l = [kind |-> "item", item |-> l.item] /\ l.item \in DiskItems
  BY DEF ItemLines
<1>3. l \in SnapLines => l = [kind |-> "snapshot", snap |-> l.snap] /\ l.snap \in Snaps
  BY DEF SnapLines
<1>4. l \in NoteLines => l = [kind |-> "note"]
  BY DEF NoteLines
<1> QED
  BY <1>1, <1>2, <1>3, <1>4 DEF Lines, Log!TurnLine, Log!ItemLine, Log!NoteLine

LEMMA ReplayAny ==
  ASSUME NEW d \in Disks, NEW l \in Lines
  PROVE  /\ Log!Replayed(d, l) \in Disks
         /\ Log!ToSet(Log!Replayed(d, l).items) \subseteq Log!ToSet(d.items) \cup LineItems(l)
<1>1. CASE l.turn \in Turns /\ l = Log!TurnLine(l.turn)
  BY <1>1, ReplayTurn
<1>2. CASE l.turn \in Turns /\ l = [kind |-> "superseded", turn |-> l.turn]
  BY <1>2, ReplaySuperseded
<1>3. CASE l.item \in DiskItems /\ l = Log!ItemLine(l.item)
  <2>1. l.kind = "item"
    BY <1>3 DEF Log!ItemLine
  <2> QED
    BY <1>3, <2>1, ReplayItem DEF LineItems
<1>4. CASE l \in CutLines
  BY SMTT(30), <1>4, ReplayRollback
<1>5. CASE l.snap \in Snaps /\ l = [kind |-> "snapshot", snap |-> l.snap]
  BY <1>5, ReplaySnapshot
<1>6. CASE l = Log!NoteLine
  BY <1>6, ReplayNote
<1> QED
  BY <1>1, <1>2, <1>3, <1>4, <1>5, <1>6, LineKinds

(* What an append does to the file, whether it succeeds or not.              *)
LEMMA Appends ==
  ASSUME FileTyped, NEW l \in Lines, Log!AppendTried(l)
  PROVE  /\ FileTyped' /\ marks \subseteq marks'
         /\ (Items \cup TailItems)' \subseteq Items \cup TailItems \cup LineItems(l)
         /\ tail' # None => "failed" \in marks'
         /\ marks' \cap {"failed", "swallowed"} = {} /\ tail = None =>
              disk' = Log!Replayed(disk, l) /\ tail' = None /\ marks = marks'
<1>1. CASE Log!AppendOk(l)
  <2>1. tail' = None /\ TailItems' = {}
    BY <1>1 DEF Log!AppendOk, TailItems
  <2>2. CASE tail = None
    BY <1>1, <2>1, <2>2, ReplayAny DEF Log!AppendOk, FileTyped, Items
  <2>3. CASE tail # None
    BY <1>1, <2>1, <2>3 DEF Log!AppendOk, FileTyped, Items
  <2> QED
    BY <2>2, <2>3
<1>2. CASE Log!AppendFails(l)
  <2>1. /\ disk' = disk /\ marks' = marks \cup {"failed"} /\ tail' \in {None, Junk, l, tail}
    BY <1>2 DEF Log!AppendFails
  <2>2. TailItems' \subseteq TailItems \cup LineItems(l)
    BY <2>1 DEF TailItems
  <2> QED
    BY <2>1, <2>2 DEF FileTyped, Items
<1> QED
  BY <1>1, <1>2 DEF Log!AppendTried

LEMMA WholeFileIs ==
  ASSUME FileTyped
  PROVE  /\ Log!WholeFile \in Disks
         /\ Log!ToSet(Log!WholeFile.items) \subseteq Items \cup TailItems
         /\ tail = None => Log!WholeFile = disk
<1>1. CASE tail \in {None, Junk}
  BY <1>1 DEF FileTyped, Log!WholeFile, Items
<1>2. CASE tail \notin {None, Junk}
  BY <1>2, ReplayAny DEF FileTyped, Log!WholeFile, Items, TailItems
<1> QED
  BY <1>1, <1>2

(* What a restart makes of the file.                                         *)
LEMMA LoadedIs ==
  ASSUME NEW d \in Disks
  PROVE  /\ Log!Loaded(d) \in Mems
         /\ Log!Loaded(d).latest = d.latest /\ Log!Loaded(d).active = None
         /\ d.next <= Log!Loaded(d).next
         /\ Log!ToSet(Log!Loaded(d).items) = {Log!Remembered(x) : x \in Log!ToSet(d.items)}
         /\ \A m, n \in DOMAIN Log!Loaded(d).items : m < n =>
              \E u, v \in Log!ToSet(d.items) :
                 /\ Log!Loaded(d).items[m] = Log!Remembered(u)
                 /\ Log!Loaded(d).items[n] = Log!Remembered(v)
                 /\ u.seq <= v.seq
<1> DEFINE s == d.items
           N == Len(s)
           r == [p \in 1..N |-> Log!Remembered(Log!Sorted(s)[p])]
           next == IF d.next > 1 THEN d.next ELSE 1
<1>1. s \in Seq(DiskItems) /\ N \in Nat /\ DOMAIN s = 1..N /\ s \in [1..N -> DiskItems]
  BY DEF Disks
<1>2. \A x \in DiskItems : x.seq \in Nat
  BY DEF DiskItems
<1>3. PICK g \in [1..N -> 1..N] :
         /\ Log!Sorted(s) = [p \in 1..N |-> s[g[p]]]
         /\ \A p, q \in 1..N : p < q => s[g[p]].seq <= s[g[q]].seq /\ g[p] # g[q]
         /\ \A n \in 1..N : \E p \in 1..N : g[p] = n
  <2> HIDE DEF s
  <2> QED
    BY <1>1, <1>2, SortedKeeps
<1>4. next \in Nat \ {0} /\ d.next <= next
  BY DEF Disks
<1>5. Log!Loaded(d) = [items |-> r, latest |-> d.latest, next |-> next, active |-> None]
  BY <1>1 DEF Log!Loaded, Log!Larger
<1>6. r = [p \in 1..N |-> Log!Remembered(s[g[p]])]
  BY <1>3
<1>7. \A x \in DiskItems : Log!Remembered(x) \in MemItems
  BY DEF DiskItems, MemItems, Log!Remembered
<1>8. \A p \in 1..N : s[g[p]] \in DiskItems /\ s[g[p]] \in Log!ToSet(s) /\ r[p] = Log!Remembered(s[g[p]])
  BY <1>1, <1>3, <1>6 DEF Log!ToSet
<1>9. r \in Seq(MemItems) /\ DOMAIN r = 1..N
  <2>1. \A p \in 1..N : r[p] \in MemItems
    BY <1>7, <1>8
  <2>2. DOMAIN r = 1..N
    OBVIOUS
  <2>3. r \in [1..N -> MemItems]
    BY <2>1, <2>2
  <2> HIDE DEF r
  <2> QED
    BY <1>1, <2>2, <2>3, SeqDef
<1> HIDE DEF r, next, s, N
<1>10. Log!ToSet(r) = {Log!Remembered(x) : x \in Log!ToSet(s)}
  <2>1. Log!ToSet(r) \subseteq {Log!Remembered(x) : x \in Log!ToSet(s)}
    BY <1>8, <1>9 DEF Log!ToSet
  <2>2. ASSUME NEW x \in Log!ToSet(s) PROVE Log!Remembered(x) \in Log!ToSet(r)
    <3>1. PICK n \in 1..N : s[n] = x
      BY <1>1 DEF Log!ToSet
    <3>2. PICK p \in 1..N : g[p] = n
      BY <1>3
    <3> QED
      BY <1>8, <1>9, <3>1, <3>2 DEF Log!ToSet
  <2> QED
    BY <2>1, <2>2
<1>11. ASSUME NEW m \in 1..N, NEW n \in 1..N, m < n
       PROVE  \E u, v \in Log!ToSet(s) : r[m] = Log!Remembered(u) /\ r[n] = Log!Remembered(v) /\ u.seq <= v.seq
  BY <1>3, <1>8, <1>11
<1>12. d.latest \in Turns \cup {None}
  BY DEF Disks
<1> QED
  BY <1>4, <1>5, <1>9, <1>10, <1>11, <1>12 DEF Mems, s

(* What the handlers make of a session's items.                              *)
LEMMA MessagesAre ==
  ASSUME NEW s \in Seq(MemItems)
  PROVE  /\ Log!MessagesIn(s) \in Seq(MemItems)
         /\ Log!ToSet(Log!MessagesIn(s)) = {x \in Log!ToSet(s) : Log!IsMessage(x)}
  BY OnlyThose DEF Log!MessagesIn

LEMMA CutsAre ==
  ASSUME NEW s \in Seq(MemItems), NEW kept \in Log!Cuts(s)
  PROVE  \E k \in 0..Len(s) : kept = SubSeq(s, 1, k)
<1> DEFINE N == Len(s)
           From(t) == CHOOSE n \in DOMAIN s : s[n].turn = t /\ \A m \in 1..(n - 1) : s[m].turn # t
           To(t) == CHOOSE n \in From(t)..N :
                      /\ \A m \in From(t)..n : s[m].turn = t
                      /\ n = N \/ s[n + 1].turn # t
           ms == Log!MessagesIn(s)
           bearers == {ms[n].turn : n \in DOMAIN ms}
<1>1. N \in Nat /\ DOMAIN s = 1..N
  OBVIOUS
<1>2. \A t \in bearers : \E n \in 1..N : s[n].turn = t
  <2>1. Log!ToSet(ms) \subseteq Log!ToSet(s)
    BY MessagesAre
  <2> HIDE DEF ms
  <2> QED
    BY <1>1, <2>1 DEF Log!ToSet
<1>3. ASSUME NEW t \in bearers PROVE From(t) \in 1..N /\ s[From(t)].turn = t
  <2> DEFINE S == {n \in 1..N : s[n].turn = t}
  <2>1. S \subseteq Nat /\ S # {}
    <3>1. 1..N \subseteq Nat
      BY <1>1
    <3> HIDE DEF bearers
    <3> QED
      BY <1>2, <1>3, <3>1
  <2>2. PICK n \in S : \A y \in S : n <= y
    BY <2>1, Least
  <2>3. n \in DOMAIN s /\ s[n].turn = t /\ \A m \in 1..(n - 1) : s[m].turn # t
    <3>1. \A m \in 1..(n - 1) : m \in 1..N /\ ~(n <= m)
      BY <1>1, <2>2
    <3> QED
      BY <1>1, <2>2, <3>1
  <2> QED
    BY <1>1, <2>3
<1> HIDE DEF From
<1>4. ASSUME NEW t \in bearers PROVE To(t) \in 1..N
  <2>1. From(t) \in 1..N /\ s[From(t)].turn = t
    BY <1>3
  <2> DEFINE F == From(t)
             S == {n \in F..N : n = N \/ s[n + 1].turn # t}
  <2>6. F \in 1..N
    BY <2>1
  <2> HIDE DEF F
  <2>2. S \subseteq Nat /\ N \in S
    BY <1>1, <2>1 DEF F
  <2>3. PICK n \in S : \A y \in S : n <= y
    BY <2>2, Least
  <2>4. ASSUME NEW m \in F..n PROVE s[m].turn = t
    <3>1. F \in Nat /\ n \in F..N /\ N \in Nat
      <4>1. \A f \in 1..N : f \in Nat
        OBVIOUS
      <4> QED
        BY <1>1, <2>3, <2>6, <4>1
    <3>2. m = F \/ (m - 1 \in F..N /\ ~(n <= m - 1) /\ m - 1 # N /\ (m - 1) + 1 = m)
      BY <3>1
    <3> QED
      BY <2>1, <2>3, <3>2 DEF F
  <2>5. To(t) \in F..N
    <3>1. n \in F..N /\ (\A m \in F..n : s[m].turn = t) /\ (n = N \/ s[n + 1].turn # t)
      BY <2>3, <2>4
    <3> QED
      BY <3>1 DEF F
  <2> HIDE DEF To, S
  <2>7. \A f \in 1..N : f..N \subseteq 1..N
    BY <1>1
  <2> QED
    BY <2>5, <2>6, <2>7
<1> HIDE DEF To
<1>5. Log!Cuts(s) = {SubSeq(s, 1, From(t) - 1) : t \in bearers} \cup {SubSeq(s, 1, To(t)) : t \in bearers}
  BY DEF Log!Cuts, From, To
<1>6. \A t \in bearers : From(t) - 1 \in 0..N /\ To(t) \in 0..N
  BY <1>1, <1>3, <1>4
<1> HIDE DEF bearers
<1> QED
  BY <1>5, <1>6

LEMMA Ended ==
  ASSUME NEW T, NEW s \in Seq(T), NEW k \in Nat, k \in 1..(Len(s) + 1)
  PROVE  /\ SubSeq(s, k, Len(s)) \in Seq(T)
         /\ Log!ToSet(SubSeq(s, k, Len(s))) \subseteq Log!ToSet(s)
<1> DEFINE N == Len(s)
           c == SubSeq(s, k, N)
           M == N - k + 1
<1>1. N \in Nat /\ DOMAIN s = 1..N /\ M \in Nat /\ \A n \in 1..N : s[n] \in T
  OBVIOUS
<1>2. c = [n \in 1..M |-> s[k + n - 1]]
  BY <1>1
<1>3. \A n \in 1..M : k + n - 1 \in 1..N
  BY <1>1
<1>4. c \in [1..M -> T] /\ \A n \in 1..M : c[n] = s[k + n - 1]
  BY <1>1, <1>2, <1>3
<1> HIDE DEF c, M
<1>5. c \in Seq(T) /\ DOMAIN c = 1..M
  BY <1>1, <1>4, SeqDef
<1>6. Log!ToSet(c) \subseteq Log!ToSet(s)
  BY <1>1, <1>3, <1>4, <1>5 DEF Log!ToSet
<1> QED
  BY <1>5, <1>6 DEF c

LEMMA SuffixIs ==
  ASSUME NEW s \in Seq(MemItems)
  PROVE  Log!Suffix(s) \in Seq(MemItems)
<1> DEFINE N == Len(s)
           messages == {n \in DOMAIN s : Log!IsMessage(s[n])}
           S == {N - n : n \in messages}
<1>1. N \in Nat /\ DOMAIN s = 1..N
  OBVIOUS
<1>2. CASE messages = {}
  BY <1>2 DEF Log!Suffix
<1>3. CASE messages # {}
  <2>1. S \subseteq Nat /\ S # {} /\ \A n \in messages : n \in 1..N /\ N - n \in S
    BY <1>1, <1>3
  <2>2. PICK x \in S : \A y \in S : x <= y
    BY <2>1, Least
  <2>3. PICK top \in messages : x = N - top
    BY <2>2
  <2> HIDE DEF messages
  <2>4. \A n \in messages : top >= n
    <3> TAKE n \in messages
    <3>1. top \in 1..N /\ n \in 1..N /\ N - top <= N - n
      BY <2>1, <2>2, <2>3
    <3> QED
      BY <1>1, <3>1
  <2>5. Log!Max(messages) \in messages
    <3>1. \E m \in messages : \A n \in messages : m >= n
      BY <2>3, <2>4
    <3> QED
      BY <3>1 DEF Log!Max
  <2>6. Log!Suffix(s) = SubSeq(s, Log!Max(messages), N)
    BY <1>3 DEF Log!Suffix, messages
  <2>7. Log!Max(messages) \in Nat /\ Log!Max(messages) \in 1..(N + 1)
    <3>1. \A n \in 1..N : n \in Nat /\ n \in 1..(N + 1)
      BY <1>1
    <3> HIDE DEF S
    <3> QED
      BY <2>1, <2>5, <3>1
  <2> QED
    BY <2>6, <2>7, Ended
<1> QED
  BY <1>2, <1>3

LEMMA IdSeqIs ==
  ASSUME NEW s \in Seq(MemItems)
  PROVE  Log!IdSeq(s) \in Seq(ItemIds)
<1>1. DOMAIN s = 1..Len(s) /\ Len(s) \in Nat /\ \A n \in 1..Len(s) : s[n].id \in ItemIds
  <2>1. DOMAIN s = 1..Len(s) /\ Len(s) \in Nat /\ \A n \in 1..Len(s) : s[n] \in MemItems
    OBVIOUS
  <2> QED
    BY <2>1 DEF MemItems
<1>2. Log!IdSeq(s) = [n \in 1..Len(s) |-> s[n].id]
  BY <1>1 DEF Log!IdSeq
<1> DEFINE N == Len(s)
<1>3. Log!IdSeq(s) \in [1..N -> ItemIds]
  BY <1>1, <1>2
<1>4. N \in Nat
  BY <1>1
<1> HIDE DEF N
<1> QED
  BY <1>3, <1>4, SeqDef

LEMMA MemIds == \A s \in Seq(MemItems) : Log!Ids(s) \subseteq ItemIds /\ Log!ToSet(s) \subseteq MemItems
<1> TAKE s \in Seq(MemItems)
<1>1. Log!ToSet(s) \subseteq MemItems
  BY Members
<1> QED
  BY <1>1, IdsOf DEF MemItems

-----------------------------------------------------------------------------
LEMMA Constants ==
  /\ Turns = Starts \cup Edits /\ Ops = Edits \cup Rollbacks \cup Compacts
  /\ IsFiniteSet(Turns) /\ IsFiniteSet(Ops)
  /\ Starts \cap Ops = {} /\ Edits \cap (Rollbacks \cup Compacts) = {} /\ Rollbacks \cap Compacts = {}
  /\ None \notin Turns \cup Ops /\ Junk # None
  /\ MaxWork \in Nat /\ MaxUnread \in Nat /\ MaxCrashes \in Nat /\ MaxFails \in Nat
BY MCAssumption, SameCount DEF Log!RolloutAssumption, Turns, Ops, Log!Turns, Log!Ops

LEMMA OpKinds ==
  ASSUME OpsTyped
  PROVE  /\ \A e \in Edits : op[e].pc \in {"off", "done", "replace"} \cup EditPcs
         /\ \A e \in Edits : op[e].pc \in EditPcs => op[e] \in EditAtWork /\ op[e].target \in Turns
         /\ \A r \in Rollbacks : op[r].pc \in {"off", "done", "append", "replace"}
         /\ \A o \in Edits \cup Rollbacks : op[o].pc \in {"append", "replace"} =>
              op[o] \in Replacing({"append", "replace"}) /\ op[o].cut \subseteq ItemIds /\ op[o].next \in Mems
         /\ \A c \in Compacts :
              op[c].pc \in {"off", "done", "summarize", "export", "item", "snapshot", "replace"}
         /\ \A c \in Compacts : op[c].pc = "summarize" => op[c].items \in Seq(MemItems)
         /\ \A c \in Compacts : op[c].pc = "export" => op[c].kept \in Seq(ItemIds)
         /\ \A c \in Compacts : op[c].pc \in {"item", "snapshot"} => op[c] \in Summarized
         /\ \A c \in Compacts : op[c].pc = "replace" => op[c].cut = {} /\ op[c].next \in Mems
<1>1. \A e \in Edits : op[e] \in EditOps
  BY DEF OpsTyped
<1>2. \A r \in Rollbacks : op[r] \in RollbackOps
  BY DEF OpsTyped
<1>3. \A c \in Compacts : op[c] \in CompactOps
  BY DEF OpsTyped
<1>4. ASSUME NEW v \in EditOps
      PROVE  /\ v.pc \in {"off", "done", "replace"} \cup EditPcs
             /\ v.pc \in EditPcs => v \in EditAtWork /\ v.target \in Turns
             /\ v.pc \in {"append", "replace"} =>
                  v \in Replacing({"append", "replace"}) /\ v.cut \subseteq ItemIds /\ v.next \in Mems
  BY DEF EditOps, OffOrDone, EditAtWork, Replacing, EditPcs
<1>5. ASSUME NEW v \in RollbackOps
      PROVE  /\ v.pc \in {"off", "done", "append", "replace"}
             /\ v.pc \in {"append", "replace"} =>
                  v \in Replacing({"append", "replace"}) /\ v.cut \subseteq ItemIds /\ v.next \in Mems
  BY DEF RollbackOps, OffOrDone, Replacing
<1>6. ASSUME NEW v \in CompactOps
      PROVE  /\ v.pc \in {"off", "done", "summarize", "export", "item", "snapshot", "replace"}
             /\ v.pc = "summarize" => v.items \in Seq(MemItems)
             /\ v.pc = "export" => v.kept \in Seq(ItemIds)
             /\ v.pc \in {"item", "snapshot"} => v \in Summarized
             /\ v.pc = "replace" => v.cut = {} /\ v.next \in Mems
  BY DEF CompactOps, OffOrDone, Summarizing, Exporting, Uncompacted, Summarized
<1> QED
  BY <1>1, <1>2, <1>3, <1>4, <1>5, <1>6

LEMMA OpChanged ==
  ASSUME OpsTyped, NEW o \in Ops, NEW v, op' = [op EXCEPT ![o] = v],
         o \in Edits => v \in EditOps, o \in Rollbacks => v \in RollbackOps, o \in Compacts => v \in CompactOps
  PROVE  OpsTyped' /\ op'[o] = v /\ OnlyOf(o)
<1>1. Edits \subseteq Ops /\ Rollbacks \subseteq Ops /\ Compacts \subseteq Ops
  BY Constants
<1>2. DOMAIN op = Ops
  BY DEF OpsTyped
<1>3. DOMAIN op' = Ops /\ op'[o] = v /\ \A p \in Ops : p # o => op'[p] = op[p]
  BY <1>2
<1>4. \A e \in Edits : op'[e] \in EditOps
  BY <1>1, <1>3 DEF OpsTyped
<1>5. \A r \in Rollbacks : op'[r] \in RollbackOps
  BY <1>1, <1>3 DEF OpsTyped
<1>6. \A c \in Compacts : op'[c] \in CompactOps
  BY <1>1, <1>3 DEF OpsTyped
<1> QED
  BY <1>3, <1>4, <1>5, <1>6 DEF OpsTyped, OnlyOf

LEMMA DoneIs ==
  ASSUME OpsTyped, NEW o \in Ops, Log!Done(o)
  PROVE  OpsTyped' /\ op'[o].pc = "done" /\ OnlyOf(o)
<1>1. op' = [op EXCEPT ![o] = [pc |-> "done"]]
  BY DEF Log!Done
<1>2. [pc |-> "done"] \in OffOrDone
  BY DEF OffOrDone
<1> HIDE DEF OffOrDone
<1>3. OpsTyped' /\ op'[o] = [pc |-> "done"] /\ OnlyOf(o)
  BY <1>1, <1>2, OpChanged DEF EditOps, RollbackOps, CompactOps
<1> QED
  BY <1>3

LEMMA GoIs ==
  ASSUME OpsTyped, NEW o \in Ops, NEW pc, Log!Go(o, pc),
         \/ o \in Edits /\ op[o].pc \in EditPcs /\ pc \in EditPcs
         \/ o \in Rollbacks /\ op[o].pc = "append" /\ pc = "replace"
         \/ o \in Compacts /\ op[o].pc \in {"item", "snapshot"} /\ pc \in {"snapshot", "replace"}
  PROVE  /\ OpsTyped' /\ op'[o] = [op[o] EXCEPT !.pc = pc] /\ op'[o].pc = pc /\ OnlyOf(o)
         /\ o \in Edits => op'[o].target = op[o].target
         /\ o \in Rollbacks => op'[o].next = op[o].next /\ op'[o].cut = op[o].cut
         /\ o \in Compacts => /\ op'[o].next = op[o].next /\ op'[o].cut = op[o].cut
                              /\ op'[o].line = op[o].line /\ op'[o].snap = op[o].snap
<1> DEFINE v == [op[o] EXCEPT !.pc = pc]
<1>1. op' = [op EXCEPT ![o] = v]
  BY DEF Log!Go
<1>2. CASE o \in Edits /\ op[o].pc \in EditPcs /\ pc \in EditPcs
  <2>1. op[o] \in EditAtWork /\ o \notin Rollbacks /\ o \notin Compacts
    BY <1>2, OpKinds, Constants
  <2>2. v \in EditAtWork /\ v.pc = pc /\ v.target = op[o].target
    BY <1>2, <2>1 DEF EditAtWork
  <2> HIDE DEF v
  <2>3. v \in EditOps
    BY <2>2 DEF EditOps
  <2>4. OpsTyped' /\ op'[o] = v /\ OnlyOf(o)
    BY <1>1, <2>1, <2>3, OpChanged
  <2> QED
    BY <2>1, <2>2, <2>4 DEF v
<1>3. CASE o \in Rollbacks /\ op[o].pc = "append" /\ pc = "replace"
  <2>1. op[o] \in Replacing({"append", "replace"}) /\ o \notin Edits /\ o \notin Compacts
    BY <1>3, OpKinds, Constants
  <2>2. v \in Replacing({"append", "replace"}) /\ v.pc = pc /\ v.next = op[o].next /\ v.cut = op[o].cut
    BY <1>3, <2>1 DEF Replacing
  <2> HIDE DEF v
  <2>3. v \in RollbackOps
    BY <2>2 DEF RollbackOps
  <2>4. OpsTyped' /\ op'[o] = v /\ OnlyOf(o)
    BY <1>1, <2>1, <2>3, OpChanged
  <2> QED
    BY <2>1, <2>2, <2>4 DEF v
<1>4. CASE o \in Compacts /\ op[o].pc \in {"item", "snapshot"} /\ pc \in {"snapshot", "replace"}
  <2>1. op[o] \in Summarized /\ o \notin Edits /\ o \notin Rollbacks
    BY <1>4, OpKinds, Constants
  <2>2. /\ v \in Summarized /\ v.pc = pc /\ v.next = op[o].next /\ v.cut = op[o].cut
        /\ v.line = op[o].line /\ v.snap = op[o].snap
    BY <1>4, <2>1 DEF Summarized
  <2> HIDE DEF v
  <2>3. v \in CompactOps
    BY <2>2 DEF CompactOps
  <2>4. OpsTyped' /\ op'[o] = v /\ OnlyOf(o)
    BY <1>1, <2>1, <2>3, OpChanged
  <2> QED
    BY <2>1, <2>2, <2>4 DEF v
<1> QED
  BY <1>2, <1>3, <1>4

(* The turns.                                                                *)
LEMMA EndTurnDoes ==
  ASSUME Typed, Log!EndTurn
  PROVE  /\ mem' \in Mems /\ mem'.latest = exec.turn /\ mem'.next = exec.next /\ mem'.active = None
         /\ Log!ToSet(mem'.items) = Log!ToSet(mem.items) \cup Log!ToSet(exec.items)
         /\ exec.turn \in Turns /\ exec.turn # None
<1>1. exec.turn # None
  BY DEF Log!EndTurn, Log!Free
<1>2. /\ mem.items \in Seq(MemItems) /\ exec.items \in Seq(MemItems) /\ exec.turn \in Turns /\ exec.next \in Nat
  BY <1>1 DEF Typed, SessionTyped, Mems, Execs
<1>3. mem.items \o exec.items \in Seq(MemItems)
      /\ Log!ToSet(mem.items \o exec.items) = Log!ToSet(mem.items) \cup Log!ToSet(exec.items)
  BY <1>2, Joined
<1>4. mem' = [items |-> mem.items \o exec.items, latest |-> exec.turn, next |-> exec.next, active |-> None]
  BY DEF Log!EndTurn
<1> DEFINE s == mem.items \o exec.items
<1> HIDE DEF s
<1>5. mem' = [items |-> s, latest |-> exec.turn, next |-> exec.next, active |-> None]
  BY <1>4 DEF s
<1>6. s \in Seq(MemItems) /\ Log!ToSet(s) = Log!ToSet(mem.items) \cup Log!ToSet(exec.items)
  BY <1>3 DEF s
<1> QED
  BY <1>1, <1>2, <1>5, <1>6 DEF Mems

LEMMA ExecuteDoes ==
  ASSUME Typed, NEW t \in Turns, Log!Execute(t)
  PROVE  /\ SessionTyped' /\ Message(t) \in DiskItems
         /\ stage[t] = "spawned" /\ exec.turn = None /\ exec'.turn = t /\ exec'.open = {} /\ exec'.begun = 0
         /\ stage' = [stage EXCEPT ![t] = "running"] /\ UNCHANGED mem
         /\ t \in Log!Silent => Log!ToSet(exec'.items) = {} /\ exec'.next = mem.next /\ UNCHANGED <<disk, tail, marks>>
         /\ t \notin Log!Silent => /\ Log!ToSet(exec'.items) = {Log!Remembered(Message(t))} /\ exec'.next = mem.next + 1
                                /\ Log!AppendTried(Log!ItemLine(Message(t)))
<1>1. mem.next \in Nat
  BY DEF Typed, SessionTyped, Mems
<1>2. Message(t) \in DiskItems
  BY <1>1 DEF Message, DiskItems, ItemIds
<1>3. Log!Remembered(Message(t)) \in MemItems
  BY <1>1 DEF Message, MemItems, ItemIds, Log!Remembered
<1>4. <<Log!Remembered(Message(t))>> \in Seq(MemItems)
      /\ Log!ToSet(<<Log!Remembered(Message(t))>>) = {Log!Remembered(Message(t))}
  <2> DEFINE x == Log!Remembered(Message(t))
  <2> HIDE DEF x
  <2>1. x \in MemItems
    BY <1>3 DEF x
  <2>2. <<x>> \in Seq(MemItems) /\ DOMAIN <<x>> = {1} /\ <<x>>[1] = x
    BY <2>1
  <2>3. Log!ToSet(<<x>>) = {x}
    BY <2>2 DEF Log!ToSet
  <2> QED
    BY <2>2, <2>3 DEF x
<1>5. <<>> \in Seq(MemItems) /\ Log!ToSet(<<>>) = {}
  BY DEF Log!ToSet
<1>6. /\ stage[t] = "spawned" /\ exec.turn = None /\ stage' = [stage EXCEPT ![t] = "running"] /\ mem' = mem
  BY DEF Log!Execute, Log!Free
<1>7. stage' \in [Turns -> {"new", "begun", "spawned", "running", "over"}]
  BY <1>6 DEF Typed, SessionTyped
<1>8. CASE t \in Log!Silent
  <2>1. exec' = [Log!NoTurn EXCEPT !.turn = t, !.next = mem.next] /\ UNCHANGED Log!fileVars
    BY <1>8 DEF Log!Execute
  <2>2. exec' = [turn |-> t, items |-> <<>>, open |-> {}, next |-> mem.next, begun |-> 0]
    BY <2>1 DEF Log!NoTurn
  <2>3. exec' \in Execs /\ exec'.turn = t /\ exec'.open = {} /\ exec'.begun = 0 /\ exec'.next = mem.next
        /\ exec'.items = <<>>
    BY <1>1, <1>5, <2>2 DEF Execs
  <2>4. SessionTyped'
    BY <1>6, <1>7, <2>3 DEF Typed, SessionTyped
  <2>5. UNCHANGED <<disk, tail, marks>>
    BY <2>1 DEF Log!fileVars
  <2> QED
    BY <1>2, <1>5, <1>6, <1>8, <2>3, <2>4, <2>5
<1>9. CASE t \notin Log!Silent
  <2>1. /\ Log!AppendTried(Log!ItemLine(Message(t)))
        /\ exec' = [Log!NoTurn EXCEPT !.turn = t, !.next = mem.next + 1, !.items = <<Log!Remembered(Message(t))>>]
    BY <1>9 DEF Log!Execute, Message
  <2> DEFINE s == <<Log!Remembered(Message(t))>>
  <2> HIDE DEF s
  <2>2. exec' = [Log!NoTurn EXCEPT !.turn = t, !.next = mem.next + 1, !.items = s]
    BY <2>1 DEF s
  <2>3. exec' = [turn |-> t, items |-> s, open |-> {}, next |-> mem.next + 1, begun |-> 0]
    BY <2>2 DEF Log!NoTurn
  <2>4. s \in Seq(MemItems) /\ Log!ToSet(s) = {Log!Remembered(Message(t))}
    BY <1>4 DEF s
  <2>5. exec' \in Execs /\ exec'.turn = t /\ exec'.open = {} /\ exec'.begun = 0
        /\ exec'.next = mem.next + 1 /\ exec'.items = s
    BY <1>1, <2>3, <2>4 DEF Execs
  <2>6. SessionTyped'
    BY <1>6, <1>7, <2>5 DEF Typed, SessionTyped
  <2> QED
    BY <1>2, <1>6, <1>9, <2>1, <2>4, <2>5, <2>6
<1> QED
  BY <1>8, <1>9

LEMMA StartItemDoes ==
  ASSUME Typed, Log!StartItem
  PROVE  /\ SessionTyped' /\ Opened \in DiskItems /\ exec.turn \in Turns
         /\ exec' = [exec EXCEPT !.begun = @ + 1, !.next = @ + 1, !.open = @ \cup {Opened}]
         /\ exec'.turn = exec.turn /\ exec'.items = exec.items /\ exec'.begun = exec.begun + 1
         /\ exec'.next = exec.next + 1 /\ exec'.open = exec.open \cup {Opened}
<1>1. /\ exec.turn \in Turns /\ exec.begun \in Nat /\ exec.next \in Nat
  BY DEF Typed, SessionTyped, Execs, Log!StartItem, Log!Free
<1>2. Opened \in DiskItems
  BY <1>1 DEF Opened, DiskItems, ItemIds
<1>3. exec' = [exec EXCEPT !.begun = @ + 1, !.next = @ + 1, !.open = @ \cup {Opened}]
  BY DEF Log!StartItem, Opened
<1>4. mem' = mem /\ stage' = stage
  BY DEF Log!StartItem
<1> DEFINE s == exec.open \cup {Opened}
           b == exec.begun + 1
           n == exec.next + 1
<1>5. exec \in Execs /\ s \in SUBSET DiskItems /\ b \in Nat /\ n \in Nat
  BY <1>1, <1>2 DEF Typed, SessionTyped, Execs
<1>6. exec' = [exec EXCEPT !.begun = b, !.next = n, !.open = s]
  BY <1>3
<1> HIDE DEF s, b, n
<1>7. exec' \in Execs /\ exec'.turn = exec.turn /\ exec'.items = exec.items
      /\ exec'.begun = b /\ exec'.next = n /\ exec'.open = s
  BY <1>5, <1>6 DEF Execs
<1>8. SessionTyped'
  BY <1>4, <1>7 DEF Typed, SessionTyped
<1> QED
  BY <1>1, <1>2, <1>3, <1>7, <1>8 DEF s, b, n

LEMMA CompleteItemDoes ==
  ASSUME Typed, Log!CompleteItem
  PROVE  \E i \in exec.open :
           /\ SessionTyped' /\ i \in DiskItems
           /\ exec'.turn = exec.turn /\ exec'.open = exec.open \ {i} /\ exec'.begun = exec.begun
           /\ exec'.next = exec.next
           /\ Log!ToSet(exec'.items) = Log!ToSet(exec.items) \cup {Log!Remembered(i)}
           /\ Log!AppendTried(Log!ItemLine(i))
<1>1. PICK i \in exec.open :
        /\ exec' = [exec EXCEPT !.open = @ \ {i}, !.items = Append(@, Log!Remembered(i))]
        /\ Log!AppendTried(Log!ItemLine(i)) /\ UNCHANGED <<mem, stage>>
  BY DEF Log!CompleteItem
<1>2. exec \in Execs /\ i \in DiskItems /\ exec.items \in Seq(MemItems)
  BY DEF Typed, SessionTyped, Execs
<1>3. Log!Remembered(i) \in MemItems
  BY <1>2 DEF DiskItems, MemItems, Log!Remembered
<1> DEFINE x == Log!Remembered(i)
           s == Append(exec.items, x)
<1>4. s \in Seq(MemItems) /\ Log!ToSet(s) = Log!ToSet(exec.items) \cup {x}
  BY <1>2, <1>3, Grown
<1>5. exec' = [exec EXCEPT !.open = @ \ {i}, !.items = s]
  BY <1>1
<1> HIDE DEF s, x
<1>6. /\ exec'.turn = exec.turn /\ exec'.open = exec.open \ {i} /\ exec'.begun = exec.begun
      /\ exec'.next = exec.next /\ exec'.items = s
      /\ exec' \in Execs
  BY <1>2, <1>4, <1>5 DEF Execs
<1>7. SessionTyped'
  BY <1>1, <1>6 DEF Typed, SessionTyped
<1> QED
  BY <1>1, <1>2, <1>4, <1>6, <1>7 DEF x

(* The edits.                                                                *)
LEMMA StepDoes ==
  ASSUME Typed, NEW o \in Ops, NEW from, NEW to, NEW line \in Lines, Log!Step(o, from, line, to),
         \/ o \in Edits /\ from \in EditPcs /\ to \in EditPcs
         \/ o \in Rollbacks /\ from = "append" /\ to = "replace"
  PROVE  /\ OpsTyped' /\ OnlyOf(o) /\ op[o].pc = from /\ Log!AppendTried(line)
         /\ UNCHANGED <<mem, exec, stage, covers, dropped, crashes>>
         /\ \/ op'[o].pc = "done"
            \/ /\ op'[o].pc = to /\ Log!AppendOk(line)
               /\ o \in Edits => op'[o].target = op[o].target
               /\ o \in Rollbacks => op'[o].next = op[o].next /\ op'[o].cut = op[o].cut
<1>1. /\ op[o].pc = from
      /\ (Log!AppendOk(line) /\ Log!Go(o, to)) \/ (Log!AppendFails(line) /\ Log!Done(o))
      /\ UNCHANGED <<mem, exec, stage, covers, dropped, crashes>>
  BY DEF Log!Step, Log!At
<1>2. OpsTyped
  BY DEF Typed
<1>3. CASE Log!AppendOk(line) /\ Log!Go(o, to)
  <2>1. OpsTyped' /\ op'[o].pc = to /\ OnlyOf(o)
        /\ (o \in Edits => op'[o].target = op[o].target)
        /\ (o \in Rollbacks => op'[o].next = op[o].next /\ op'[o].cut = op[o].cut)
    BY <1>1, <1>2, <1>3, GoIs
  <2> QED
    BY <1>1, <1>3, <2>1 DEF Log!AppendTried
<1>4. CASE Log!AppendFails(line) /\ Log!Done(o)
  BY <1>1, <1>2, <1>4, DoneIs DEF Log!AppendTried
<1> QED
  BY <1>1, <1>3, <1>4

LEMMA ReplaceDoes ==
  ASSUME Typed, NEW o \in Ops, Log!Replace(o)
  PROVE  /\ OpsTyped' /\ OnlyOf(o) /\ op[o].pc = "replace" /\ op'[o].pc = "done" /\ exec.turn = None
         /\ mem' = op[o].next /\ mem' \in Mems /\ dropped' = dropped \cup op[o].cut
         /\ dropped' \subseteq ItemIds
         /\ UNCHANGED <<disk, tail, marks, fails, exec, covers, crashes>>
<1>1. /\ op[o].pc = "replace" /\ exec.turn = None /\ mem' = op[o].next
      /\ dropped' = dropped \cup op[o].cut /\ Log!Done(o)
      /\ UNCHANGED <<disk, tail, marks, fails, exec, covers, crashes>>
  BY DEF Log!Replace, Log!At, Log!Free, Log!fileVars
<1>2. OpsTyped /\ dropped \subseteq ItemIds
  BY DEF Typed, HistoryTyped
<1>3. op[o].next \in Mems /\ op[o].cut \subseteq ItemIds
  BY <1>1, <1>2, OpKinds, Constants
<1> QED
  BY <1>1, <1>2, <1>3, DoneIs

LEMMA EditExportDoes ==
  ASSUME Typed, NEW e \in Edits, Log!EditExport(e)
  PROVE  /\ OpsTyped' /\ OnlyOf(e) /\ op[e].pc = "off" /\ op'[e].pc = "note"
         /\ exec.turn = None /\ mem.active = None
         /\ \E x \in Log!ToSet(mem.items) : Log!IsMessage(x) /\ x.turn = op'[e].target
         /\ UNCHANGED <<disk, tail, marks, fails, mem, exec, stage, covers, dropped, crashes>>
<1> DEFINE ms == Log!MessagesIn(mem.items)
           last == Log!Last(ms)
<1>1. /\ op[e].pc = "off" /\ exec.turn = None /\ mem.active = None /\ ms # <<>>
      /\ op' = [op EXCEPT ![e] = [pc |-> "note", target |-> last.turn]]
      /\ UNCHANGED <<disk, tail, marks, fails, mem, exec, stage, covers, dropped, crashes>>
  BY DEF Log!EditExport, Log!At, Log!Free, Log!fileVars
<1>2. mem.items \in Seq(MemItems)
  BY DEF Typed, SessionTyped, Mems
<1>3. ms \in Seq(MemItems) /\ Log!ToSet(ms) = {x \in Log!ToSet(mem.items) : Log!IsMessage(x)}
  BY <1>2, MessagesAre
<1> HIDE DEF ms
<1>4. last \in Log!ToSet(ms) /\ last \in MemItems
  BY <1>1, <1>3, Members
<1> DEFINE v == [pc |-> "note", target |-> last.turn]
<1> HIDE DEF last
<1>5. v \in EditOps /\ v.pc = "note" /\ v.target = last.turn
  BY <1>4 DEF MemItems, EditOps, EditAtWork, EditPcs
<1>6. op' = [op EXCEPT ![e] = v]
  BY <1>1
<1> HIDE DEF v
<1>7. OpsTyped' /\ op'[e] = v /\ OnlyOf(e)
  BY <1>5, <1>6, OpChanged, Constants DEF Typed
<1> QED
  BY <1>1, <1>3, <1>4, <1>5, <1>7

LEMMA EditItemDoes ==
  ASSUME Typed, NEW e \in Edits, Log!EditItem(e)
  PROVE  LET seq == IF exec.turn = None THEN mem.next ELSE exec.next IN
         /\ OpsTyped' /\ SessionTyped' /\ OnlyOf(e) /\ op[e].pc = "item"
         /\ Replacement(e, seq) \in DiskItems /\ Log!AppendTried(Log!ItemLine(Replacement(e, seq)))
         /\ mem'.items = mem.items /\ mem'.latest = mem.latest /\ mem'.active = mem.active
         /\ exec'.turn = exec.turn /\ exec'.items = exec.items /\ exec'.open = exec.open
         /\ exec'.begun = exec.begun
         /\ exec.turn = None => mem'.next = mem.next + 1 /\ exec' = exec
         /\ exec.turn # None => mem' = mem
         /\ UNCHANGED <<stage, covers, dropped, crashes>>
         /\ \/ op'[e].pc = "done"
            \/ op'[e].pc = "rewrite" /\ op'[e].target = op[e].target
<1> DEFINE seq == IF exec.turn = None THEN mem.next ELSE exec.next
           line == Log!ItemLine(Replacement(e, seq))
<1>1. /\ op[e].pc = "item" /\ UNCHANGED <<stage, covers, dropped, crashes>>
      /\ IF exec.turn = None THEN mem' = [mem EXCEPT !.next = @ + 1] /\ exec' = exec
                             ELSE exec' = [exec EXCEPT !.next = @ + 1] /\ mem' = mem
      /\ (Log!AppendOk(line) /\ Log!Go(e, "rewrite")) \/ (Log!AppendFails(line) /\ Log!Done(e))
  BY DEF Log!EditItem, Log!At, Log!Free, Replacement
<1>2. mem \in Mems /\ exec \in Execs /\ seq \in Nat /\ OpsTyped
  BY DEF Typed, SessionTyped, Mems, Execs
<1>3. Replacement(e, seq) \in DiskItems
  <2>1. e \in Turns
    BY Constants
  <2> HIDE DEF seq
  <2> QED
    BY <1>2, <2>1 DEF Replacement, DiskItems, ItemIds
<1>4. Log!AppendTried(line)
  BY <1>1 DEF Log!AppendTried
<1>5. /\ mem' \in Mems /\ exec' \in Execs
      /\ mem'.items = mem.items /\ mem'.latest = mem.latest /\ mem'.active = mem.active
      /\ exec'.turn = exec.turn /\ exec'.items = exec.items /\ exec'.open = exec.open
      /\ exec'.begun = exec.begun
      /\ exec.turn = None => mem'.next = mem.next + 1 /\ exec' = exec
      /\ exec.turn # None => mem' = mem
  BY <1>1, <1>2 DEF Mems, Execs
<1>6. SessionTyped'
  BY <1>1, <1>5 DEF Typed, SessionTyped
<1> HIDE DEF line
<1>7. OpsTyped' /\ OnlyOf(e) /\ (op'[e].pc = "done" \/ (op'[e].pc = "rewrite" /\ op'[e].target = op[e].target))
  <2>1. CASE Log!Go(e, "rewrite")
    BY <1>1, <1>2, <2>1, GoIs, Constants DEF EditPcs
  <2>2. CASE Log!Done(e)
    BY <1>2, <2>2, DoneIs, Constants
  <2> QED
    BY <1>1, <2>1, <2>2
<1> QED
  BY <1>1, <1>3, <1>4, <1>5, <1>6, <1>7 DEF line

LEMMA EditRewriteDoes ==
  ASSUME Typed, NEW e \in Edits, Log!EditRewrite(e)
  PROVE  /\ OpsTyped' /\ OnlyOf(e) /\ op[e].pc = "rewrite" /\ op'[e].pc = "replace" /\ exec.turn = None
         /\ op'[e].cut = {x.id : x \in {y \in Log!ToSet(mem.items) : y.turn = op[e].target}}
         /\ Log!ToSet(op'[e].next.items) =
              {x \in Log!ToSet(mem.items) : x.turn # op[e].target} \cup {[id |-> <<e, 0>>, turn |-> e]}
         /\ op'[e].next.items = Append(Log!Others(mem.items, op[e].target), [id |-> <<e, 0>>, turn |-> e])
         /\ op'[e].next.latest = mem.latest /\ op'[e].next.next = mem.next /\ op'[e].next.active = e
         /\ UNCHANGED <<disk, tail, marks, fails, mem, exec, stage, covers, dropped, crashes>>
<1> DEFINE t == op[e].target
           kept == Log!Others(mem.items, t)
           x == [id |-> <<e, 0>>, turn |-> e]
           s == Append(kept, x)
           n == [mem EXCEPT !.items = s, !.active = e]
           v == [pc |-> "replace", cut |-> Log!OfTurn(mem.items, t), next |-> n]
<1>1. /\ op[e].pc = "rewrite" /\ exec.turn = None /\ op' = [op EXCEPT ![e] = v]
      /\ UNCHANGED <<disk, tail, marks, fails, mem, exec, stage, covers, dropped, crashes>>
  BY DEF Log!EditRewrite, Log!At, Log!Free, Log!fileVars
<1>2. mem \in Mems /\ mem.items \in Seq(MemItems) /\ OpsTyped /\ e \in Turns /\ e \in Ops
      /\ e \notin Rollbacks /\ e \notin Compacts
  BY Constants DEF Typed, SessionTyped, Mems
<1>3. kept \in Seq(MemItems) /\ Log!ToSet(kept) = {y \in Log!ToSet(mem.items) : y.turn # t}
  <2>1. {y \in Log!ToSet(mem.items) : y.turn # t} = Log!ToSet(mem.items) \cap {y \in Log!ToSet(mem.items) : y.turn # t}
    OBVIOUS
  <2> HIDE DEF t
  <2> QED
    BY <1>2, <2>1, OnlyThose DEF Log!Others
<1>4. x \in MemItems
  BY <1>2 DEF MemItems, ItemIds
<1>5. s \in Seq(MemItems) /\ Log!ToSet(s) = {y \in Log!ToSet(mem.items) : y.turn # t} \cup {x}
  <2> HIDE DEF kept, x, t
  <2>1. Append(kept, x) \in Seq(MemItems) /\ Log!ToSet(Append(kept, x)) = Log!ToSet(kept) \cup {x}
    BY <1>3, <1>4, Grown
  <2> QED
    BY <1>3, <2>1
<1>6. n \in Mems /\ n.items = s /\ n.latest = mem.latest /\ n.next = mem.next /\ n.active = e
  <2> HIDE DEF s
  <2> QED
    BY <1>2, <1>5 DEF Mems
<1>7. Log!OfTurn(mem.items, t) = {y.id : y \in {z \in Log!ToSet(mem.items) : z.turn = t}}
      /\ Log!OfTurn(mem.items, t) \subseteq ItemIds
  <2>1. Log!OfTurn(mem.items, t) = {y.id : y \in {z \in Log!ToSet(mem.items) : z.turn = t}}
    BY IdsOf
  <2>2. Log!ToSet(mem.items) \subseteq MemItems
    BY <1>2, MemIds
  <2> HIDE DEF t
  <2> QED
    BY <2>1, <2>2 DEF MemItems
<1> HIDE DEF n
<1>8. v \in EditOps
  BY <1>6, <1>7 DEF EditOps, Replacing
<1> DEFINE w == v
<1>9. w.pc = "replace" /\ w.cut = Log!OfTurn(mem.items, t) /\ w.next = n
  OBVIOUS
<1>10. op' = [op EXCEPT ![e] = w] /\ w \in EditOps
  BY <1>1, <1>8
<1> HIDE DEF w
<1>11. OpsTyped' /\ op'[e] = w /\ OnlyOf(e)
  BY <1>2, <1>10, OpChanged
<1> QED
  BY <1>1, <1>5, <1>6, <1>7, <1>9, <1>11

(* The rollbacks.                                                            *)
LEMMA RollbackExportDoes ==
  ASSUME Typed, NEW r \in Rollbacks, Log!RollbackExport(r)
  PROVE  /\ OpsTyped' /\ OnlyOf(r) /\ op[r].pc = "off" /\ op'[r].pc = "append" /\ exec.turn = None
         /\ \E k \in 0..Len(mem.items) : op'[r].next.items = SubSeq(mem.items, 1, k)
         /\ Log!ToSet(op'[r].next.items) \subseteq Log!ToSet(mem.items)
         /\ op'[r].next.items = <<>> => op'[r].next.latest = None
         /\ op'[r].next.items # <<>> =>
              \E x \in Log!ToSet(op'[r].next.items) : op'[r].next.latest = x.turn
         /\ op'[r].next.active = None
         /\ op'[r].cut = {x.id : x \in Log!ToSet(mem.items)} \ {x.id : x \in Log!ToSet(op'[r].next.items)}
         /\ UNCHANGED <<disk, tail, marks, fails, mem, exec, stage, covers, dropped, crashes>>
<1> DEFINE N(kept) == [items |-> kept, latest |-> IF kept = <<>> THEN None ELSE Log!Last(kept).turn,
                       next |-> Len(mem.items) + 1, active |-> None]
           V(kept) == [pc |-> "append", cut |-> Log!Ids(mem.items) \ Log!Ids(kept), next |-> N(kept)]
<1>1. /\ op[r].pc = "off" /\ exec.turn = None
      /\ UNCHANGED <<disk, tail, marks, fails, mem, exec, stage, covers, dropped, crashes>>
  BY DEF Log!RollbackExport, Log!At, Log!Free, Log!fileVars
<1>2. PICK kept \in Log!Cuts(mem.items) : op' = [op EXCEPT ![r] = V(kept)]
  BY DEF Log!RollbackExport
<1>3. mem.items \in Seq(MemItems) /\ OpsTyped /\ r \in Ops /\ r \notin Edits /\ r \notin Compacts
  BY Constants DEF Typed, SessionTyped, Mems
<1>4. PICK k \in 0..Len(mem.items) : kept = SubSeq(mem.items, 1, k)
  BY <1>3, CutsAre
<1>5. kept \in Seq(MemItems) /\ Log!ToSet(kept) \subseteq Log!ToSet(mem.items) /\ Len(mem.items) + 1 \in Nat
  BY <1>3, <1>4, Begun
<1> DEFINE latest == IF kept = <<>> THEN None ELSE Log!Last(kept).turn
           n == N(kept)
           v == V(kept)
<1>6. /\ latest \in Turns \cup {None}
      /\ kept = <<>> => latest = None
      /\ kept # <<>> => \E x \in Log!ToSet(kept) : latest = x.turn
  <2>1. kept # <<>> => Log!Last(kept) \in Log!ToSet(kept) /\ Log!Last(kept) \in MemItems
    BY <1>5, Members
  <2>2. \A x \in MemItems : x.turn \in Turns
    BY DEF MemItems
  <2> QED
    BY <2>1, <2>2
<1>7. n \in Mems /\ n.items = kept /\ n.latest = latest /\ n.active = None
  <2> HIDE DEF latest
  <2>1. n = [items |-> kept, latest |-> latest, next |-> Len(mem.items) + 1, active |-> None]
    BY DEF latest
  <2> HIDE DEF n
  <2> QED
    BY <1>5, <1>6, <2>1 DEF Mems
<1> DEFINE cut == Log!Ids(mem.items) \ Log!Ids(kept)
<1>8. cut = {x.id : x \in Log!ToSet(mem.items)} \ {x.id : x \in Log!ToSet(kept)} /\ cut \in SUBSET ItemIds
  BY <1>3, IdsOf, MemIds
<1>9. v = [pc |-> "append", cut |-> cut, next |-> n]
  OBVIOUS
<1> HIDE DEF n, cut, latest, v
<1>10. v \in RollbackOps /\ v.pc = "append" /\ v.cut = cut /\ v.next = n
  BY <1>7, <1>8, <1>9 DEF RollbackOps, Replacing
<1>11. op' = [op EXCEPT ![r] = v]
  BY <1>2 DEF v
<1>12. OpsTyped' /\ op'[r] = v /\ OnlyOf(r)
  BY <1>3, <1>10, <1>11, OpChanged
<1> QED
  BY <1>1, <1>4, <1>5, <1>6, <1>7, <1>8, <1>10, <1>12

LEMMA CutLineIs ==
  ASSUME NEW kept \in Seq(MemItems), NEW latest \in Turns \cup {None}
  PROVE  /\ CutLine(kept, latest) \in CutLines /\ CutLine(kept, latest).latest = latest
         /\ CutLine(kept, latest).turns = {x.turn : x \in Log!ToSet(kept)}
         /\ CutLine(kept, latest).ids = {x.id : x \in Log!ToSet(kept)}
<1> DEFINE ts == {kept[n].turn : n \in DOMAIN kept}
<1>1. ts = {x.turn : x \in Log!ToSet(kept)}
  BY DEF Log!ToSet
<1>2. Log!Ids(kept) = {x.id : x \in Log!ToSet(kept)} /\ Log!Ids(kept) \in SUBSET ItemIds
  BY IdsOf, MemIds
<1>3. ts \in SUBSET Turns
  <2>1. Log!ToSet(kept) \subseteq MemItems
    BY MemIds
  <2> QED
    BY <1>1, <2>1 DEF MemItems
<1>4. CutLine(kept, latest) = [kind |-> "rollback", turns |-> ts, ids |-> Log!Ids(kept), latest |-> latest]
  BY DEF CutLine
<1> HIDE DEF ts
<1>5. CutLine(kept, latest) \in CutLines
  BY <1>2, <1>3, <1>4 DEF CutLines
<1> QED
  BY <1>1, <1>2, <1>4, <1>5

LEMMA RollbackAppendDoes ==
  ASSUME Typed, NEW r \in Rollbacks, Log!RollbackAppend(r)
  PROVE  LET line == CutLine(op[r].next.items, op[r].next.latest) IN
         /\ op[r].next \in Mems /\ line \in CutLines /\ Log!AppendTried(line)
         /\ OpsTyped' /\ OnlyOf(r) /\ op[r].pc = "append"
         /\ UNCHANGED <<mem, exec, stage, covers, dropped, crashes>>
         /\ \/ op'[r].pc = "done"
            \/ /\ op'[r].pc = "replace" /\ Log!AppendOk(line)
               /\ op'[r].next = op[r].next /\ op'[r].cut = op[r].cut
<1> DEFINE line == CutLine(op[r].next.items, op[r].next.latest)
<1>1. Log!Step(r, "append", line, "replace")
  BY DEF Log!RollbackAppend, CutLine
<1>2. op[r].pc = "append" /\ OpsTyped /\ r \in Ops
  BY <1>1, Constants DEF Log!Step, Log!At, Typed
<1>3. op[r].next \in Mems
  BY <1>2, OpKinds
<1>4. op[r].next.items \in Seq(MemItems) /\ op[r].next.latest \in Turns \cup {None}
  BY <1>3 DEF Mems
<1>5. line \in CutLines
  BY <1>4, CutLineIs
<1>6. line \in Lines
  BY <1>5 DEF Lines
<1> HIDE DEF line
<1>7. /\ OpsTyped' /\ OnlyOf(r) /\ Log!AppendTried(line)
      /\ UNCHANGED <<mem, exec, stage, covers, dropped, crashes>>
      /\ \/ op'[r].pc = "done"
         \/ op'[r].pc = "replace" /\ Log!AppendOk(line) /\ op'[r].next = op[r].next /\ op'[r].cut = op[r].cut
  BY <1>1, <1>2, <1>6, StepDoes
<1> QED
  BY <1>2, <1>3, <1>5, <1>7 DEF line

(* The compactions.                                                          *)
LEMMA CompactExportDoes ==
  ASSUME Typed, NEW c \in Compacts, Log!CompactExport(c)
  PROVE  /\ OpsTyped' /\ OnlyOf(c) /\ op[c].pc = "off" /\ op'[c].pc = "summarize"
         /\ exec.turn = None /\ op'[c].items = mem.items /\ mem.items # <<>>
         /\ UNCHANGED <<disk, tail, marks, fails, mem, exec, stage, covers, dropped, crashes>>
<1> DEFINE v == [pc |-> "summarize", items |-> mem.items]
<1>1. /\ op[c].pc = "off" /\ exec.turn = None /\ mem.items # <<>> /\ op' = [op EXCEPT ![c] = v]
      /\ UNCHANGED <<disk, tail, marks, fails, mem, exec, stage, covers, dropped, crashes>>
  BY DEF Log!CompactExport, Log!At, Log!Free, Log!fileVars
<1>2. mem.items \in Seq(MemItems) /\ OpsTyped /\ c \in Ops /\ c \notin Edits /\ c \notin Rollbacks
  BY Constants DEF Typed, SessionTyped, Mems
<1>3. v \in CompactOps /\ v.pc = "summarize" /\ v.items = mem.items
  BY <1>2 DEF CompactOps, Summarizing
<1> HIDE DEF v
<1>4. OpsTyped' /\ op'[c] = v /\ OnlyOf(c)
  BY <1>1, <1>2, <1>3, OpChanged
<1> QED
  BY <1>1, <1>3, <1>4

LEMMA SummarizeDoes ==
  ASSUME Typed, NEW c \in Compacts, Log!Summarize(c)
  PROVE  /\ OpsTyped' /\ OnlyOf(c) /\ op[c].pc = "summarize"
         /\ covers' \in [Compacts -> [read : SUBSET ItemIds, unread : SUBSET ItemIds]]
         /\ \A k \in Compacts : k # c => covers'[k] = covers[k]
         /\ UNCHANGED <<disk, tail, marks, fails, mem, exec, stage, dropped, crashes>>
         /\ \/ op'[c].pc = "done" /\ UNCHANGED covers
            \/ /\ op'[c].pc = "export"
               /\ covers'[c].read = {x.id : x \in Log!ToSet(op[c].items)}
<1>1. /\ op[c].pc = "summarize"
      /\ UNCHANGED <<disk, tail, marks, fails, mem, exec, stage, dropped, crashes>>
  BY DEF Log!Summarize, Log!At, Log!fileVars
<1>2. OpsTyped /\ c \in Ops /\ c \notin Edits /\ c \notin Rollbacks
      /\ covers \in [Compacts -> [read : SUBSET ItemIds, unread : SUBSET ItemIds]]
  BY Constants DEF Typed, HistoryTyped
<1> DEFINE s == op[c].items
<1>3. s \in Seq(MemItems)
  BY <1>1, <1>2, OpKinds
<1>4. CASE Log!Done(c) /\ UNCHANGED covers
  BY <1>1, <1>2, <1>4, DoneIs
<1>5. ASSUME NEW n \in 0..MaxUnread, n < Len(s),
             NEW kept \in {<<>>, IF n = 0 THEN Log!Suffix(s)
                                 ELSE IF Log!Suffix(s) = <<>> THEN SubSeq(s, Len(s) - n + 1, Len(s)) ELSE <<>>},
             op' = [op EXCEPT ![c] = [pc |-> "export", kept |-> Log!IdSeq(kept)]],
             covers' = [covers EXCEPT ![c] =
               [read |-> Log!Ids(s), unread |-> Log!Ids(SubSeq(s, Len(s) - n + 1, Len(s)))]]
      PROVE  /\ OpsTyped' /\ OnlyOf(c) /\ op'[c].pc = "export"
             /\ covers' \in [Compacts -> [read : SUBSET ItemIds, unread : SUBSET ItemIds]]
             /\ \A k \in Compacts : k # c => covers'[k] = covers[k]
             /\ covers'[c].read = {x.id : x \in Log!ToSet(s)}
  <2> DEFINE u == SubSeq(s, Len(s) - n + 1, Len(s))
             from == Len(s) - n + 1
  <2>1. from \in Nat /\ from \in 1..(Len(s) + 1)
    BY <1>3, <1>5, Constants
  <2>2. u \in Seq(MemItems)
    <3> HIDE DEF from, s
    <3>1. SubSeq(s, from, Len(s)) \in Seq(MemItems)
      BY <1>3, <2>1, Ended
    <3> QED
      BY <3>1 DEF from
  <2>3. <<>> \in Seq(MemItems) /\ Log!Suffix(s) \in Seq(MemItems)
    BY <1>3, SuffixIs
  <2> HIDE DEF u
  <2>4. kept \in Seq(MemItems)
    BY <1>5, <2>2, <2>3 DEF u
  <2> DEFINE v == [pc |-> "export", kept |-> Log!IdSeq(kept)]
             w == [read |-> Log!Ids(s), unread |-> Log!Ids(u)]
  <2>5. v \in CompactOps /\ v.pc = "export"
    BY <2>4, IdSeqIs DEF CompactOps, Exporting
  <2>6. w \in [read : SUBSET ItemIds, unread : SUBSET ItemIds] /\ w.read = Log!Ids(s)
    BY <1>3, <2>2, MemIds
  <2>7. op' = [op EXCEPT ![c] = v] /\ covers' = [covers EXCEPT ![c] = w]
    BY <1>5 DEF u
  <2> HIDE DEF v, w
  <2>8. OpsTyped' /\ op'[c] = v /\ OnlyOf(c)
    BY <1>2, <2>5, <2>7, OpChanged
  <2>9. Log!Ids(s) = {x.id : x \in Log!ToSet(s)}
    BY IdsOf
  <2>10. /\ covers' \in [Compacts -> [read : SUBSET ItemIds, unread : SUBSET ItemIds]]
         /\ covers'[c] = w /\ \A k \in Compacts : k # c => covers'[k] = covers[k]
    BY <1>2, <2>6, <2>7
  <2> QED
    BY <2>5, <2>6, <2>8, <2>9, <2>10
<1>6. CASE \E n \in 0..MaxUnread :
        /\ n < Len(s)
        /\ \E kept \in {<<>>, IF n = 0 THEN Log!Suffix(s)
                              ELSE IF Log!Suffix(s) = <<>> THEN SubSeq(s, Len(s) - n + 1, Len(s)) ELSE <<>>} :
             op' = [op EXCEPT ![c] = [pc |-> "export", kept |-> Log!IdSeq(kept)]]
        /\ covers' = [covers EXCEPT ![c] =
               [read |-> Log!Ids(s), unread |-> Log!Ids(SubSeq(s, Len(s) - n + 1, Len(s)))]]
  BY <1>1, <1>5, <1>6
<1> QED
  BY <1>4, <1>6 DEF Log!Summarize

LEMMA CompactRewriteDoes ==
  ASSUME Typed, NEW c \in Compacts, Log!CompactRewrite(c)
  PROVE  /\ OpsTyped' /\ OnlyOf(c) /\ op[c].pc = "export" /\ exec.turn = None
         /\ \/ op'[c].pc = "replace" /\ op'[c].next = mem /\ mem.latest = None /\ mem.active = None
            \/ /\ op'[c].pc = "item" /\ Summary(c) \in DiskItems /\ op'[c].line = Log!ItemLine(Summary(c))
               /\ op'[c].snap.summary = <<c, 0>>
               /\ op'[c].next.items = Append(mem.items, Log!Remembered(Summary(c)))
               /\ Log!ToSet(op'[c].next.items) = Log!ToSet(mem.items) \cup {Log!Remembered(Summary(c))}
               /\ op'[c].next.latest = mem.latest /\ op'[c].next.active = mem.active
               /\ op'[c].next.next = mem.next + 1
         /\ UNCHANGED <<disk, tail, marks, fails, mem, exec, stage, covers, dropped, crashes>>
<1> DEFINE t == IF mem.latest # None THEN mem.latest ELSE mem.active
           found == IF Log!IsSuffix(op[c].kept, Log!IdSeq(mem.items)) THEN op[c].kept ELSE <<>>
           x == Log!Remembered(Summary(c))
           n == [mem EXCEPT !.items = Append(@, x), !.next = @ + 1]
           snap == [summary |-> <<c, 0>>, kept |-> found]
           v == [pc |-> "item", line |-> Log!ItemLine(Summary(c)), cut |-> {}, snap |-> snap, next |-> n]
           w == [pc |-> "replace", next |-> mem, cut |-> {}]
<1>1. /\ op[c].pc = "export" /\ exec.turn = None
      /\ UNCHANGED <<disk, tail, marks, fails, mem, exec, stage, covers, dropped, crashes>>
  BY DEF Log!CompactRewrite, Log!At, Log!Free, Log!fileVars
<1>2. op' = [op EXCEPT ![c] = IF t = None THEN w ELSE v]
  <2>1. Summary(c).id = <<c, 0>> /\ Summary(c) = [id |-> <<c, 0>>, turn |-> t, seq |-> mem.next]
    BY DEF Summary
  <2> QED
    BY <2>1 DEF Log!CompactRewrite
<1>3. /\ mem \in Mems /\ mem.items \in Seq(MemItems) /\ mem.next \in Nat /\ t \in Turns \cup {None}
      /\ OpsTyped /\ c \in Ops /\ c \notin Edits /\ c \notin Rollbacks
  BY Constants DEF Typed, SessionTyped, Mems
<1>4. CASE t = None
  <2>1. op' = [op EXCEPT ![c] = w]
    BY <1>2, <1>4
  <2>2. w \in CompactOps /\ w.pc = "replace" /\ w.next = mem
    BY <1>3 DEF CompactOps, Uncompacted
  <2> HIDE DEF w
  <2>3. OpsTyped' /\ op'[c] = w /\ OnlyOf(c)
    BY <1>3, <2>1, <2>2, OpChanged
  <2>4. mem.latest = None /\ mem.active = None
    BY <1>4
  <2> QED
    BY <1>1, <2>2, <2>3, <2>4
<1>5. CASE t # None
  <2>1. op' = [op EXCEPT ![c] = v]
    BY <1>2, <1>5
  <2>2. Summary(c) \in DiskItems
    <3>1. Summary(c) = [id |-> <<c, 0>>, turn |-> t, seq |-> mem.next] /\ t \in Turns
      BY <1>3, <1>5 DEF Summary
    <3> HIDE DEF t
    <3> QED
      BY <1>3, <3>1 DEF DiskItems, ItemIds
  <2>3. x \in MemItems
    BY <2>2 DEF DiskItems, MemItems, Log!Remembered
  <2> HIDE DEF x
  <2> DEFINE s == Append(mem.items, x)
  <2>4. s \in Seq(MemItems) /\ Log!ToSet(s) = Log!ToSet(mem.items) \cup {x}
    BY <1>3, <2>3, Grown
  <2> DEFINE m == mem.next + 1
  <2>5. n = [mem EXCEPT !.items = s, !.next = m] /\ m \in Nat
    BY <1>3
  <2> HIDE DEF s, n, m
  <2>6. n \in Mems /\ n.items = s /\ n.latest = mem.latest /\ n.active = mem.active /\ n.next = m
    BY <1>3, <2>4, <2>5 DEF Mems
  <2>7. found \in Seq(ItemIds)
    <3>1. op[c].kept \in Seq(ItemIds)
      BY <1>1, <1>3, OpKinds
    <3> QED
      BY <3>1
  <2> HIDE DEF found
  <2>8. snap \in Snaps /\ snap.summary = <<c, 0>>
    BY <2>7 DEF Snaps
  <2>9. Log!ItemLine(Summary(c)) \in ItemLines
    BY <2>2 DEF ItemLines, Log!ItemLine
  <2> DEFINE l == Log!ItemLine(Summary(c))
  <2> HIDE DEF snap, l
  <2>10. v = [pc |-> "item", line |-> l, cut |-> {}, snap |-> snap, next |-> n]
    BY DEF l
  <2> HIDE DEF v
  <2>11. l \in ItemLines
    BY <2>9 DEF l
  <2>12. v \in CompactOps /\ v.pc = "item" /\ v.line = l /\ v.snap = snap /\ v.next = n
    BY <2>6, <2>8, <2>10, <2>11 DEF CompactOps, Summarized
  <2>13. OpsTyped' /\ op'[c] = v /\ OnlyOf(c)
    BY <1>3, <2>1, <2>12, OpChanged
  <2> QED
    BY <1>1, <2>2, <2>4, <2>6, <2>8, <2>12, <2>13 DEF s, l, x, m
<1> QED
  BY <1>4, <1>5

LEMMA CompactItemDoes ==
  ASSUME Typed, NEW c \in Compacts, Log!CompactItem(c)
  PROVE  /\ op[c].line \in Lines /\ op[c].line.item \in DiskItems /\ op[c].line = Log!ItemLine(op[c].line.item)
         /\ Log!AppendTried(op[c].line)
         /\ OpsTyped' /\ OnlyOf(c) /\ op[c].pc = "item" /\ op'[c].pc = "snapshot"
         /\ op'[c].next = op[c].next /\ op'[c].snap = op[c].snap /\ op'[c].line = op[c].line
         /\ UNCHANGED <<mem, exec, stage, covers, dropped, crashes>>
<1>1. /\ op[c].pc = "item" /\ Log!AppendTried(op[c].line) /\ Log!Go(c, "snapshot")
      /\ UNCHANGED <<mem, exec, stage, covers, dropped, crashes>>
  BY DEF Log!CompactItem, Log!At
<1>2. OpsTyped /\ c \in Ops /\ c \notin Edits /\ c \notin Rollbacks
  BY Constants DEF Typed
<1>3. op[c] \in Summarized
  BY <1>1, <1>2, OpKinds
<1>4. op[c].line \in ItemLines
  BY <1>3 DEF Summarized
<1>5. op[c].line \in Lines /\ op[c].line.item \in DiskItems /\ op[c].line = Log!ItemLine(op[c].line.item)
  BY <1>4 DEF Lines, ItemLines, Log!ItemLine
<1>6. OpsTyped' /\ OnlyOf(c) /\ op'[c].pc = "snapshot" /\ op'[c].next = op[c].next
      /\ op'[c].snap = op[c].snap /\ op'[c].line = op[c].line
  BY <1>1, <1>2, GoIs
<1> QED
  BY <1>1, <1>5, <1>6

LEMMA CompactSnapshotDoes ==
  ASSUME Typed, NEW c \in Compacts, Log!CompactSnapshot(c)
  PROVE  LET line == [kind |-> "snapshot", snap |-> op[c].snap] IN
         /\ op[c].snap \in Snaps /\ line \in Lines /\ Log!AppendTried(line)
         /\ OpsTyped' /\ OnlyOf(c) /\ op[c].pc = "snapshot" /\ op'[c].pc = "replace"
         /\ op'[c].next = op[c].next
         /\ UNCHANGED <<mem, exec, stage, covers, dropped, crashes>>
<1> DEFINE line == [kind |-> "snapshot", snap |-> op[c].snap]
<1>1. /\ op[c].pc = "snapshot" /\ Log!AppendTried(line) /\ Log!Go(c, "replace")
      /\ UNCHANGED <<mem, exec, stage, covers, dropped, crashes>>
  BY DEF Log!CompactSnapshot, Log!At
<1>2. OpsTyped /\ c \in Ops /\ c \notin Edits /\ c \notin Rollbacks
  BY Constants DEF Typed
<1>3. op[c] \in Summarized
  BY <1>1, <1>2, OpKinds
<1>4. op[c].snap \in Snaps
  BY <1>3 DEF Summarized
<1>5. line \in Lines
  BY <1>4 DEF Lines, SnapLines
<1>6. OpsTyped' /\ OnlyOf(c) /\ op'[c].pc = "replace" /\ op'[c].next = op[c].next
  BY <1>1, <1>2, GoIs
<1> QED
  BY <1>1, <1>4, <1>5, <1>6

LEMMA CrashDoes ==
  ASSUME Typed, Log!Crash
  PROVE  /\ SessionTyped' /\ OpsTyped' /\ mem' = Log!Loaded(Log!WholeFile) /\ exec' = Log!NoTurn
         /\ \A t \in Turns : stage'[t] = IF stage[t] = "new" THEN "new" ELSE "over"
         /\ \A o \in Ops : IF op[o].pc = "off" THEN op'[o] = op[o] ELSE op'[o].pc = "done"
         /\ UNCHANGED <<disk, tail, marks, fails, covers, dropped>>
<1>1. /\ mem' = Log!Loaded(Log!WholeFile) /\ exec' = Log!NoTurn
      /\ stage' = [t \in Turns |-> IF stage[t] = "new" THEN "new" ELSE "over"]
      /\ op' = [o \in Ops |-> IF op[o].pc = "off" THEN op[o] ELSE [pc |-> "done"]]
      /\ UNCHANGED <<disk, tail, marks, fails, covers, dropped>>
  BY DEF Log!Crash, Log!At, Log!fileVars, Turns, Ops
<1>2. mem' \in Mems
  BY <1>1, WholeFileIs, LoadedIs DEF Typed
<1>3. exec' \in Execs
  BY <1>1 DEF Log!NoTurn, Execs
<1>4. SessionTyped'
  BY <1>1, <1>2, <1>3 DEF SessionTyped
<1>5. \A o \in Ops : IF op[o].pc = "off" THEN op'[o] = op[o] ELSE op'[o] = [pc |-> "done"]
  BY <1>1
<1>6. [pc |-> "done"] \in OffOrDone /\ Edits \subseteq Ops /\ Rollbacks \subseteq Ops /\ Compacts \subseteq Ops
      /\ DOMAIN op' = Ops
  BY <1>1, Constants DEF OffOrDone
<1>7. OpsTyped'
  <2>1. \A e \in Edits : op'[e] \in EditOps
    BY <1>5, <1>6 DEF Typed, OpsTyped, EditOps
  <2>2. \A r \in Rollbacks : op'[r] \in RollbackOps
    BY <1>5, <1>6 DEF Typed, OpsTyped, RollbackOps
  <2>3. \A c \in Compacts : op'[c] \in CompactOps
    BY <1>5, <1>6 DEF Typed, OpsTyped, CompactOps
  <2> QED
    BY <1>6, <2>1, <2>2, <2>3 DEF OpsTyped
<1>8. \A o \in Ops : IF op[o].pc = "off" THEN op'[o] = op[o] ELSE op'[o].pc = "done"
  BY <1>5
<1>9. \A t \in Turns : stage'[t] = IF stage[t] = "new" THEN "new" ELSE "over"
  BY <1>1
<1> QED
  BY <1>1, <1>4, <1>7, <1>8, <1>9

(* The actions of Rollout by name: what Next does besides them.              *)
LEMMA LogCases ==
  ASSUME Log!Next
  PROVE  /\ raced' = (raced \/ Log!Overlap') /\ reused' = (reused \/ Log!Behind')
         /\ \/ \E t \in Turns : Log!BeginTurn(t) \/ Log!WriteStart(t) \/ Log!Execute(t)
            \/ Log!StartItem \/ Log!CompleteItem \/ Log!EndTurn
            \/ \E e \in Edits :
                 \/ Log!EditExport(e) \/ Log!EditNote(e) \/ Log!Supersede(e) \/ Log!EditRestore(e)
                 \/ Log!EditTurnLine(e) \/ Log!EditItem(e) \/ Log!EditRewrite(e) \/ Log!EditReplace(e)
            \/ \E r \in Rollbacks : Log!RollbackExport(r) \/ Log!RollbackAppend(r) \/ Log!RollbackReplace(r)
            \/ \E c \in Compacts :
                 \/ Log!CompactExport(c) \/ Log!Summarize(c) \/ Log!CompactRewrite(c) \/ Log!CompactItem(c)
                 \/ Log!CompactSnapshot(c) \/ Log!CompactReplace(c)
            \/ Log!Crash
BY DEF Log!Next, Log!TurnStep, Log!Edit, Log!Rollback, Log!Compact, Turns

LEMMA Stepping ==
  ASSUME Typed, NEW e \in Edits
  PROVE  /\ Log!EditNote(e) => Log!Step(e, "note", Log!NoteLine, "supersede")
         /\ Log!Supersede(e) =>
              Log!Step(e, "supersede", [kind |-> "superseded", turn |-> op[e].target], "restore")
         /\ Log!EditRestore(e) => Log!Step(e, "restore", Log!NoteLine, "turn")
         /\ Log!EditTurnLine(e) => Log!Step(e, "turn", Log!TurnLine(e), "item") /\ exec.turn = None
         /\ Log!NoteLine \in Lines /\ Log!TurnLine(e) \in Lines
         /\ op[e].pc = "supersede" =>
              op[e].target \in Turns /\ [kind |-> "superseded", turn |-> op[e].target] \in Lines
<1>1. op[e].pc = "supersede" => op[e].target \in Turns
  BY OpKinds DEF Typed, EditPcs
<1>2. e \in Turns
  BY Constants
<1>3. Log!NoteLine \in NoteLines /\ \A t \in Turns : Log!TurnLine(t) \in TurnLines
        /\ [kind |-> "superseded", turn |-> t] \in TurnLines
  BY DEF NoteLines, TurnLines, Log!NoteLine, Log!TurnLine
<1>4. Log!NoteLine \in Lines /\ \A t \in Turns : Log!TurnLine(t) \in Lines
        /\ [kind |-> "superseded", turn |-> t] \in Lines
  BY <1>3 DEF Lines
<1> QED
  BY <1>1, <1>2, <1>4 DEF Log!EditNote, Log!Supersede, Log!EditRestore, Log!EditTurnLine, Log!Free

LEMMA ItemLineIs ==
  \A i \in DiskItems : Log!ItemLine(i) \in Lines /\ LineItems(Log!ItemLine(i)) = {i}
BY DEF Lines, ItemLines, Log!ItemLine, LineItems

LEMMA TypedFile ==
  ASSUME Typed, NEW l \in Lines, Log!AppendTried(l)
  PROVE  FileTyped'
BY Appends DEF Typed

(* Rollout's variables have the types of Typed in every state.               *)
LEMMA TypedStep ==
  ASSUME Typed, Log!Next
  PROVE  Typed'
<1>1. raced' \in BOOLEAN /\ reused' \in BOOLEAN
  <2>1. raced' = (raced \/ Log!Overlap') /\ reused' = (reused \/ Log!Behind')
    BY LogCases
  <2> QED
    BY <2>1
<1>2. /\ HistoryTyped /\ SessionTyped /\ FileTyped /\ OpsTyped
      /\ covers \in [Compacts -> [read : SUBSET ItemIds, unread : SUBSET ItemIds]]
      /\ dropped \subseteq ItemIds
  BY DEF Typed, HistoryTyped
<1> DEFINE Past == covers' \in [Compacts -> [read : SUBSET ItemIds, unread : SUBSET ItemIds]]
                   /\ dropped' \subseteq ItemIds
<1>3. SUFFICES FileTyped' /\ SessionTyped' /\ OpsTyped' /\ Past
  BY <1>1 DEF Typed, HistoryTyped
<1>4. UNCHANGED <<disk, tail, marks>> => FileTyped'
  BY <1>2 DEF FileTyped
<1>5. UNCHANGED <<mem, exec, stage>> => SessionTyped'
  BY <1>2 DEF SessionTyped
<1>6. UNCHANGED op => OpsTyped'
  BY <1>2 DEF OpsTyped
<1>7. UNCHANGED <<covers, dropped>> => Past
  BY <1>2
<1>8. \A t \in Turns : Log!TurnLine(t) \in Lines
  BY DEF Lines, TurnLines, Log!TurnLine
<1> HIDE DEF Past
<1>10. ASSUME NEW t \in Turns, Log!BeginTurn(t) PROVE FileTyped' /\ SessionTyped' /\ OpsTyped' /\ Past
  <2>1. /\ mem' = [mem EXCEPT !.active = t] /\ stage' = [stage EXCEPT ![t] = "begun"]
        /\ UNCHANGED <<disk, tail, marks, exec, op, covers, dropped>>
    BY <1>10 DEF Log!BeginTurn, Log!fileVars, Log!opVars
  <2>2. mem' \in Mems
    BY <1>2, <2>1 DEF SessionTyped, Mems
  <2>3. SessionTyped'
    BY <1>2, <2>1, <2>2 DEF SessionTyped
  <2> QED
    BY <1>4, <1>6, <1>7, <2>1, <2>3
<1>11. ASSUME NEW t \in Turns, Log!WriteStart(t) PROVE FileTyped' /\ SessionTyped' /\ OpsTyped' /\ Past
  <2>1. /\ Log!AppendTried(Log!TurnLine(t)) /\ UNCHANGED <<exec, op, covers, dropped>>
        /\ stage' = [stage EXCEPT ![t] = "spawned"] \/ stage' = [stage EXCEPT ![t] = "over"]
        /\ mem' = [mem EXCEPT !.active = None] \/ mem' = mem
    BY <1>11 DEF Log!WriteStart, Log!AppendTried, Log!opVars
  <2>2. mem' \in Mems
    BY <1>2, <2>1 DEF SessionTyped, Mems
  <2>3. SessionTyped'
    BY <1>2, <2>1, <2>2 DEF SessionTyped
  <2> QED
    BY <1>6, <1>7, <1>8, <2>1, <2>3, TypedFile
<1>12. ASSUME NEW t \in Turns, Log!Execute(t) PROVE FileTyped' /\ SessionTyped' /\ OpsTyped' /\ Past
  <2>1. UNCHANGED <<op, covers, dropped>>
    BY <1>12 DEF Log!Execute, Log!opVars
  <2>2. FileTyped'
    BY <1>4, <1>12, ExecuteDoes, ItemLineIs, TypedFile
  <2> QED
    BY <1>6, <1>7, <1>12, <2>1, <2>2, ExecuteDoes
<1>13. ASSUME Log!StartItem PROVE FileTyped' /\ SessionTyped' /\ OpsTyped' /\ Past
  <2>1. UNCHANGED <<disk, tail, marks, op, covers, dropped>>
    BY <1>13 DEF Log!StartItem, Log!opVars, Log!fileVars
  <2> QED
    BY <1>4, <1>6, <1>7, <1>13, <2>1, StartItemDoes
<1>14. ASSUME Log!CompleteItem PROVE FileTyped' /\ SessionTyped' /\ OpsTyped' /\ Past
  <2>1. UNCHANGED <<op, covers, dropped>>
    BY <1>14 DEF Log!CompleteItem, Log!opVars
  <2> QED
    BY <1>6, <1>7, <1>14, <2>1, CompleteItemDoes, ItemLineIs, TypedFile
<1>15. ASSUME Log!EndTurn PROVE FileTyped' /\ SessionTyped' /\ OpsTyped' /\ Past
  <2>1. /\ UNCHANGED <<op, covers, dropped>> /\ Log!AppendTried(Log!TurnLine(exec.turn)) /\ exec' = Log!NoTurn
        /\ stage' = [stage EXCEPT ![exec.turn] = "over"]
    BY <1>15 DEF Log!EndTurn, Log!opVars
  <2>2. exec' \in Execs
    BY <2>1 DEF Log!NoTurn, Execs
  <2>3. mem' \in Mems /\ exec.turn \in Turns
    BY <1>15, EndTurnDoes
  <2>4. SessionTyped'
    BY <1>2, <2>1, <2>2, <2>3 DEF SessionTyped
  <2> QED
    BY <1>6, <1>7, <1>8, <2>1, <2>3, <2>4, TypedFile
<1>20. ASSUME NEW e \in Edits,
              Log!EditExport(e) \/ Log!EditRewrite(e)
       PROVE  FileTyped' /\ SessionTyped' /\ OpsTyped' /\ Past
  BY <1>4, <1>5, <1>7, <1>20, EditExportDoes, EditRewriteDoes
<1>21. ASSUME NEW e \in Edits, Log!EditNote(e) \/ Log!Supersede(e) \/ Log!EditRestore(e) \/ Log!EditTurnLine(e)
       PROVE  FileTyped' /\ SessionTyped' /\ OpsTyped' /\ Past
  <2>1. e \in Ops /\ {"note", "supersede", "restore", "turn", "item"} \subseteq EditPcs
    BY Constants DEF EditPcs
  <2>2. ASSUME NEW from \in EditPcs, NEW to \in EditPcs, NEW line \in Lines, Log!Step(e, from, line, to)
        PROVE  FileTyped' /\ SessionTyped' /\ OpsTyped' /\ Past
    <3>1. OpsTyped' /\ Log!AppendTried(line) /\ UNCHANGED <<mem, exec, stage, covers, dropped>>
      BY <2>1, <2>2, StepDoes
    <3> QED
      BY <1>5, <1>7, <3>1, TypedFile
  <2>3. Log!Supersede(e) => op[e].pc = "supersede"
    BY Stepping DEF Log!Step, Log!At
  <2> QED
    BY <1>21, <2>1, <2>2, <2>3, Stepping
<1>22. ASSUME NEW e \in Edits, Log!EditItem(e) PROVE FileTyped' /\ SessionTyped' /\ OpsTyped' /\ Past
  BY <1>7, <1>22, EditItemDoes, ItemLineIs, TypedFile
<1>23. ASSUME NEW o \in Ops, Log!Replace(o),
              UNCHANGED stage \/ (o \in Edits /\ stage' = [stage EXCEPT ![o] = "spawned"])
       PROVE  FileTyped' /\ SessionTyped' /\ OpsTyped' /\ Past
  <2>1. OpsTyped' /\ mem' \in Mems /\ dropped' \subseteq ItemIds /\ UNCHANGED <<disk, tail, marks, exec, covers>>
    BY <1>23, ReplaceDoes
  <2>2. SessionTyped'
    BY <1>2, <1>23, <2>1 DEF SessionTyped
  <2> QED
    BY <1>2, <1>4, <2>1, <2>2 DEF Past
<1>24. ASSUME NEW e \in Edits, Log!EditReplace(e) PROVE FileTyped' /\ SessionTyped' /\ OpsTyped' /\ Past
  BY <1>23, <1>24, Constants DEF Log!EditReplace
<1>30. ASSUME NEW r \in Rollbacks, Log!RollbackExport(r) PROVE FileTyped' /\ SessionTyped' /\ OpsTyped' /\ Past
  BY <1>4, <1>5, <1>7, <1>30, RollbackExportDoes
<1>31. ASSUME NEW r \in Rollbacks, Log!RollbackAppend(r) PROVE FileTyped' /\ SessionTyped' /\ OpsTyped' /\ Past
  <2>1. CutLines \subseteq Lines
    BY DEF Lines
  <2> QED
    BY <1>5, <1>7, <1>31, <2>1, RollbackAppendDoes, TypedFile
<1>32. ASSUME NEW r \in Rollbacks, Log!RollbackReplace(r) PROVE FileTyped' /\ SessionTyped' /\ OpsTyped' /\ Past
  BY <1>23, <1>32, Constants DEF Log!RollbackReplace
<1>40. ASSUME NEW c \in Compacts, Log!CompactExport(c) \/ Log!CompactRewrite(c)
       PROVE  FileTyped' /\ SessionTyped' /\ OpsTyped' /\ Past
  BY <1>4, <1>5, <1>7, <1>40, CompactExportDoes, CompactRewriteDoes
<1>41. ASSUME NEW c \in Compacts, Log!Summarize(c) PROVE FileTyped' /\ SessionTyped' /\ OpsTyped' /\ Past
  BY <1>2, <1>4, <1>5, <1>41, SummarizeDoes DEF Past
<1>42. ASSUME NEW c \in Compacts, Log!CompactItem(c) PROVE FileTyped' /\ SessionTyped' /\ OpsTyped' /\ Past
  BY <1>5, <1>7, <1>42, CompactItemDoes, TypedFile
<1>43. ASSUME NEW c \in Compacts, Log!CompactSnapshot(c) PROVE FileTyped' /\ SessionTyped' /\ OpsTyped' /\ Past
  BY <1>5, <1>7, <1>43, CompactSnapshotDoes, TypedFile
<1>44. ASSUME NEW c \in Compacts, Log!CompactReplace(c) PROVE FileTyped' /\ SessionTyped' /\ OpsTyped' /\ Past
  BY <1>23, <1>44, Constants DEF Log!CompactReplace
<1>50. ASSUME Log!Crash PROVE FileTyped' /\ SessionTyped' /\ OpsTyped' /\ Past
  BY <1>4, <1>7, <1>50, CrashDoes
<1> QED
  BY LogCases, <1>10, <1>11, <1>12, <1>13, <1>14, <1>15, <1>20, <1>21, <1>22, <1>24, <1>30, <1>31,
     <1>32, <1>40, <1>41, <1>42, <1>43, <1>44, <1>50

-----------------------------------------------------------------------------
LEMMA NoTurnIs == exec' = Log!NoTurn => exec'.turn = None /\ Log!ToSet(exec'.items) = {} /\ exec'.open = {}
  BY DEF Log!NoTurn, Log!ToSet

LEMMA OtherStages ==
  ASSUME Typed, NEW t \in Turns, NEW s, stage' = [stage EXCEPT ![t] = s]
  PROVE  stage'[t] = s /\ \A u \in Turns : u # t => stage'[u] = stage[u]
BY DEF Typed, SessionTyped

LEMMA StagesStep ==
  ASSUME Typed, Stages, Log!Next
  PROVE  Stages'
<1> USE DEF Stages
<1>0. Edits \subseteq Turns /\ Starts \subseteq Turns /\ Edits \subseteq Ops /\ Starts \cap Edits = {}
      /\ None \notin Turns /\ (\A t \in Turns : t \notin Log!Silent => t \in Starts)
      /\ Rollbacks \subseteq Ops /\ Compacts \subseteq Ops
      /\ \A e \in Edits : e \notin Rollbacks \cup Compacts
  BY Constants DEF Log!Silent, Turns, Log!Turns
<1>1. UNCHANGED <<stage, exec>> /\ (\A e \in Edits : op[e].pc = "done" => op'[e].pc = "done") => Stages'
  OBVIOUS
<1>2. UNCHANGED <<stage, exec, op>> => Stages'
  OBVIOUS
<1>10. ASSUME NEW t \in Turns, Log!BeginTurn(t) PROVE Stages'
  <2>1. /\ stage' = [stage EXCEPT ![t] = "begun"] /\ stage[t] = "new" /\ t \in Starts
        /\ UNCHANGED <<exec, op>>
    BY <1>10 DEF Log!BeginTurn, Log!opVars
  <2> QED
    BY <1>0, <2>1, OtherStages
<1>11. ASSUME NEW t \in Turns, Log!WriteStart(t) PROVE Stages'
  <2>1. /\ stage[t] = "begun" /\ UNCHANGED <<exec, op>>
        /\ stage' = [stage EXCEPT ![t] = "spawned"] \/ stage' = [stage EXCEPT ![t] = "over"]
    BY <1>11 DEF Log!WriteStart, Log!opVars
  <2>2. /\ stage'[t] \in {"spawned", "over"}
        /\ \A u \in Turns : u # t => stage'[u] = stage[u]
    <3>1. CASE stage' = [stage EXCEPT ![t] = "spawned"]
      BY <3>1, OtherStages
    <3>2. CASE stage' = [stage EXCEPT ![t] = "over"]
      BY <3>2, OtherStages
    <3> QED
      BY <2>1, <3>1, <3>2
  <2> QED
    BY <1>0, <2>1, <2>2
<1>12. ASSUME NEW t \in Turns, Log!Execute(t) PROVE Stages'
  <2>1. /\ stage[t] = "spawned" /\ exec.turn = None /\ exec'.turn = t /\ exec'.open = {} /\ exec'.begun = 0
        /\ stage' = [stage EXCEPT ![t] = "running"]
        /\ Log!ToSet(exec'.items) = {} \/ (t \notin Log!Silent /\ Log!ToSet(exec'.items) = {Log!Remembered(Message(t))})
    BY <1>12, ExecuteDoes
  <2>2. UNCHANGED op
    BY <1>12 DEF Log!Execute, Log!opVars
  <2>3. Log!Remembered(Message(t)) = [id |-> <<t, 0>>, turn |-> t]
    BY DEF Message, Log!Remembered
  <2>4. stage'[t] = "running" /\ \A u \in Turns : u # t => stage'[u] = stage[u]
    BY <2>1, OtherStages
  <2> QED
    BY <1>0, <2>1, <2>2, <2>3, <2>4
<1>13. ASSUME Log!StartItem PROVE Stages'
  <2>1. UNCHANGED <<stage, op>>
    BY <1>13 DEF Log!StartItem, Log!opVars
  <2>2. /\ exec'.turn = exec.turn /\ exec'.items = exec.items /\ exec'.begun = exec.begun + 1
        /\ exec'.open = exec.open \cup {Opened} /\ exec.turn \in Turns
    BY <1>13, StartItemDoes
  <2>3. Opened.turn = exec.turn /\ Opened.id[1] = exec.turn /\ Opened.id[2] = exec.begun + 1
    BY DEF Opened
  <2>4. exec \in Execs /\ exec.begun \in Nat
    BY DEF Typed, SessionTyped, Execs
  <2>5. \A i \in exec.open \cup Log!ToSet(exec.items) : i.id[2] \in Nat
    <3>1. \A id \in ItemIds : id[2] \in Nat
      BY DEF ItemIds
    <3>2. exec.open \subseteq DiskItems /\ Log!ToSet(exec.items) \subseteq MemItems
      BY <2>4, MemIds DEF Execs
    <3> QED
      BY <3>1, <3>2 DEF MemItems, DiskItems
  <2> QED
    BY <1>0, <2>1, <2>2, <2>3, <2>4, <2>5
<1>14. ASSUME Log!CompleteItem PROVE Stages'
  <2>1. UNCHANGED <<stage, op>>
    BY <1>14 DEF Log!CompleteItem, Log!opVars
  <2>2. PICK i \in exec.open :
          /\ exec'.turn = exec.turn /\ exec'.open = exec.open \ {i} /\ exec'.begun = exec.begun
          /\ Log!ToSet(exec'.items) = Log!ToSet(exec.items) \cup {Log!Remembered(i)} /\ i \in DiskItems
    BY <1>14, CompleteItemDoes
  <2>3. Log!Remembered(i).id = i.id /\ Log!Remembered(i).turn = i.turn /\ i.id[2] > 0 /\ i.id[2] \in Nat
    <3>1. \A id \in ItemIds : id[2] \in Nat
      BY DEF ItemIds
    <3> QED
      BY <2>2, <3>1 DEF Log!Remembered, DiskItems
  <2> QED
    BY <1>0, <2>1, <2>2, <2>3
<1>15. ASSUME Log!EndTurn PROVE Stages'
  <2>1. exec' = Log!NoTurn /\ stage' = [stage EXCEPT ![exec.turn] = "over"] /\ UNCHANGED op
    BY <1>15 DEF Log!EndTurn, Log!opVars
  <2>2. exec.turn \in Turns
    BY <1>15, EndTurnDoes
  <2>3. exec'.turn = None /\ Log!ToSet(exec'.items) = {} /\ exec'.open = {}
    BY <2>1, NoTurnIs
  <2>4. stage'[exec.turn] = "over" /\ \A u \in Turns : u # exec.turn => stage'[u] = stage[u]
    BY <2>1, <2>2, OtherStages
  <2> QED
    BY <1>0, <2>1, <2>2, <2>3, <2>4
<1>20. ASSUME NEW e \in Edits, Log!EditExport(e) \/ Log!EditRewrite(e) PROVE Stages'
  <2>1. UNCHANGED <<exec, stage>> /\ op[e].pc # "done" /\ OnlyOf(e)
    <3>1. CASE Log!EditExport(e)
      BY <3>1, EditExportDoes
    <3>2. CASE Log!EditRewrite(e)
      BY <3>2, EditRewriteDoes
    <3> QED
      BY <1>20, <3>1, <3>2
  <2>2. \A u \in Edits : op'[u].pc # "done" => op[u].pc # "done"
    BY <1>0, <2>1 DEF OnlyOf
  <2> QED
    BY <1>1, <2>1, <2>2
<1>21. ASSUME NEW e \in Edits, Log!EditNote(e) \/ Log!Supersede(e) \/ Log!EditRestore(e) \/ Log!EditTurnLine(e)
       PROVE  Stages'
  <2>1. e \in Ops /\ {"note", "supersede", "restore", "turn", "item"} \subseteq EditPcs
        /\ \A pc \in EditPcs : pc # "done"
    BY Constants DEF EditPcs
  <2>2. ASSUME NEW from \in EditPcs, NEW to \in EditPcs, NEW line \in Lines, Log!Step(e, from, line, to)
        PROVE  Stages'
    <3>1. OnlyOf(e) /\ op[e].pc = from /\ UNCHANGED <<exec, stage>>
      BY <2>1, <2>2, StepDoes
    <3> QED
      BY <1>0, <1>1, <2>1, <3>1 DEF OnlyOf
  <2>3. Log!Supersede(e) => op[e].pc = "supersede"
    BY Stepping DEF Log!Step, Log!At
  <2> QED
    BY <1>21, <2>1, <2>2, <2>3, Stepping
<1>22. ASSUME NEW e \in Edits, Log!EditItem(e) PROVE Stages'
  <2>1. /\ exec'.turn = exec.turn /\ exec'.items = exec.items /\ exec'.open = exec.open
        /\ exec'.begun = exec.begun /\ UNCHANGED stage /\ OnlyOf(e) /\ op[e].pc = "item"
    BY <1>22, EditItemDoes
  <2> QED
    BY <1>0, <2>1 DEF OnlyOf
<1>23. ASSUME NEW e \in Edits, Log!EditReplace(e) PROVE Stages'
  <2>1. /\ OnlyOf(e) /\ op[e].pc = "replace" /\ op'[e].pc = "done" /\ exec.turn = None /\ UNCHANGED exec
        /\ stage' = [stage EXCEPT ![e] = "spawned"]
    BY <1>0, <1>23, ReplaceDoes DEF Log!EditReplace
  <2>2. stage'[e] = "spawned" /\ \A u \in Turns : u # e => stage'[u] = stage[u]
    BY ZenonT(40), <1>0, <2>1, OtherStages
  <2> QED
    BY <1>0, <2>1, <2>2 DEF OnlyOf
<1>30. ASSUME NEW r \in Rollbacks, Log!RollbackExport(r) \/ Log!RollbackAppend(r) \/ Log!RollbackReplace(r)
       PROVE  Stages'
  <2>1. OnlyOf(r) /\ UNCHANGED <<exec, stage>>
    BY <1>0, <1>30, RollbackExportDoes, RollbackAppendDoes, ReplaceDoes DEF Log!RollbackReplace
  <2> QED
    BY <1>0, <1>1, <2>1 DEF OnlyOf
<1>40. ASSUME NEW c \in Compacts,
              \/ Log!CompactExport(c) \/ Log!Summarize(c) \/ Log!CompactRewrite(c) \/ Log!CompactItem(c)
              \/ Log!CompactSnapshot(c) \/ Log!CompactReplace(c)
       PROVE  Stages'
  <2>1. OnlyOf(c) /\ UNCHANGED <<exec, stage>>
    BY <1>0, <1>40, CompactExportDoes, SummarizeDoes, CompactRewriteDoes, CompactItemDoes,
       CompactSnapshotDoes, ReplaceDoes DEF Log!CompactReplace
  <2> QED
    BY <1>0, <1>1, <2>1 DEF OnlyOf
<1>50. ASSUME Log!Crash PROVE Stages'
  <2>1. /\ exec' = Log!NoTurn /\ \A t \in Turns : stage'[t] = IF stage[t] = "new" THEN "new" ELSE "over"
        /\ \A o \in Ops : IF op[o].pc = "off" THEN op'[o] = op[o] ELSE op'[o].pc = "done"
    BY <1>50, CrashDoes
  <2>2. exec'.turn = None /\ Log!ToSet(exec'.items) = {} /\ exec'.open = {}
    BY <2>1, NoTurnIs
  <2>3. \A t \in Turns : stage'[t] # "running" /\ t # None
    BY <1>0, <2>1
  <2>4. \A e \in Edits : op'[e].pc # "done" => stage'[e] = "new"
    BY <1>0, <2>1
  <2> QED
    BY <2>2, <2>3, <2>4
<1> HIDE DEF Stages
<1> QED
  BY LogCases, <1>10, <1>11, <1>12, <1>13, <1>14, <1>15, <1>20, <1>21, <1>22, <1>23, <1>30, <1>40, <1>50

(* Nothing that is through comes back to work.                               *)
LEMMA Progress ==
  ASSUME Typed, Stages, Log!Next
  PROVE  /\ \A t \in Turns : stage[t] = "over" => stage'[t] = "over"
         /\ \A o \in Ops : op[o].pc = "done" => op'[o].pc = "done"
         /\ exec.turn \in Turns =>
              \/ exec'.turn = exec.turn /\ exec'.begun >= exec.begun
              \/ stage'[exec.turn] = "over"
         /\ \A e \in Edits : op[e].pc \in {"rewrite", "replace"} => op'[e].pc \in {"rewrite", "replace", "done"}
         /\ \A c \in Compacts : op[c].pc \in {"snapshot", "replace"} => op'[c].pc \in {"snapshot", "replace", "done"}
<1> DEFINE Over == \A t \in Turns : stage[t] = "over" => stage'[t] = "over"
           Works == \/ exec'.turn = exec.turn /\ exec'.begun >= exec.begun
                    \/ stage'[exec.turn] = "over"
           Runs == exec.turn \in Turns => Works
           Ends == /\ \A o \in Ops : op[o].pc = "done" => op'[o].pc = "done"
                   /\ \A e \in Edits : op[e].pc \in {"rewrite", "replace"} => op'[e].pc \in {"rewrite", "replace", "done"}
                   /\ \A c \in Compacts :
                        op[c].pc \in {"snapshot", "replace"} => op'[c].pc \in {"snapshot", "replace", "done"}
           Goal == Over /\ Runs /\ Ends
<1>0. /\ Edits \subseteq Ops /\ Rollbacks \subseteq Ops /\ Compacts \subseteq Ops /\ None \notin Turns
      /\ Edits \cap (Rollbacks \cup Compacts) = {} /\ Rollbacks \cap Compacts = {} /\ Edits \subseteq Turns
      /\ exec.begun \in Nat
  BY Constants DEF Typed, SessionTyped, Execs
<1>1. UNCHANGED stage => Over
  OBVIOUS
<1>2. exec'.turn = exec.turn /\ (exec'.begun = exec.begun \/ exec'.begun = exec.begun + 1) => Runs
  BY <1>0
<1>3. UNCHANGED op => Ends
  OBVIOUS
<1>4. UNCHANGED exec => Runs
  BY <1>2
<1>5. \A o \in Ops : OnlyOf(o) /\ op[o].pc # "done" /\ (op'[o].pc = "done"
           \/ (o \in Edits /\ (op[o].pc \notin {"rewrite", "replace"} \/ op'[o].pc \in {"rewrite", "replace"}))
           \/ o \in Rollbacks
           \/ (o \in Compacts /\ (op[o].pc \notin {"snapshot", "replace"} \/ op'[o].pc \in {"snapshot", "replace"})))
         => Ends
  BY <1>0 DEF OnlyOf
<1>6. exec.turn = None => Runs
  BY <1>0
<1> HIDE DEF Over, Runs, Ends
<1>10. ASSUME NEW t \in Turns, Log!BeginTurn(t) PROVE Goal
  <2>1. stage' = [stage EXCEPT ![t] = "begun"] /\ stage[t] = "new" /\ UNCHANGED <<exec, op>>
    BY <1>10 DEF Log!BeginTurn, Log!opVars
  <2> QED
    BY <1>3, <1>4, <2>1, OtherStages DEF Over
<1>11. ASSUME NEW t \in Turns, Log!WriteStart(t) PROVE Goal
  <2>1. /\ stage[t] = "begun" /\ UNCHANGED <<exec, op>>
        /\ stage' = [stage EXCEPT ![t] = "spawned"] \/ stage' = [stage EXCEPT ![t] = "over"]
    BY <1>11 DEF Log!WriteStart, Log!opVars
  <2>2. Over
    BY <2>1, OtherStages DEF Over
  <2> QED
    BY <1>3, <1>4, <2>1, <2>2
<1>12. ASSUME NEW t \in Turns, Log!Execute(t) PROVE Goal
  <2>1. stage[t] = "spawned" /\ exec.turn = None /\ stage' = [stage EXCEPT ![t] = "running"]
    BY <1>12, ExecuteDoes
  <2>2. UNCHANGED op
    BY <1>12 DEF Log!Execute, Log!opVars
  <2>3. Over
    BY <2>1, OtherStages DEF Over
  <2> QED
    BY <1>3, <1>6, <2>1, <2>2, <2>3
<1>13. ASSUME Log!StartItem PROVE Goal
  <2>1. UNCHANGED <<stage, op>>
    BY <1>13 DEF Log!StartItem, Log!opVars
  <2> QED
    BY <1>1, <1>2, <1>3, <1>13, <2>1, StartItemDoes
<1>14. ASSUME Log!CompleteItem PROVE Goal
  <2>1. UNCHANGED <<stage, op>>
    BY <1>14 DEF Log!CompleteItem, Log!opVars
  <2> QED
    BY <1>1, <1>2, <1>3, <1>14, <2>1, CompleteItemDoes
<1>15. ASSUME Log!EndTurn PROVE Goal
  <2>1. stage' = [stage EXCEPT ![exec.turn] = "over"] /\ UNCHANGED op
    BY <1>15 DEF Log!EndTurn, Log!opVars
  <2>2. exec.turn \in Turns
    BY <1>15, EndTurnDoes
  <2>3. stage'[exec.turn] = "over" /\ \A u \in Turns : u # exec.turn => stage'[u] = stage[u]
    BY <2>1, <2>2, OtherStages
  <2> QED
    BY <1>3, <2>1, <2>3 DEF Over, Runs
<1>20. ASSUME NEW e \in Edits, Log!EditExport(e) \/ Log!EditRewrite(e) PROVE Goal
  <2>1. OnlyOf(e) /\ op[e].pc \in {"off", "rewrite"} /\ op'[e].pc \in {"note", "replace"}
        /\ (op[e].pc = "off" \/ op'[e].pc = "replace") /\ UNCHANGED <<stage, exec>>
    BY <1>20, EditExportDoes, EditRewriteDoes
  <2> QED
    BY <1>0, <1>1, <1>4, <1>5, <2>1
<1>21. ASSUME NEW e \in Edits, Log!EditNote(e) \/ Log!Supersede(e) \/ Log!EditRestore(e) \/ Log!EditTurnLine(e)
       PROVE  Goal
  <2>1. e \in Ops /\ {"note", "supersede", "restore", "turn", "item"} \subseteq EditPcs
    BY Constants DEF EditPcs
  <2>2. ASSUME NEW from \in {"note", "supersede", "restore", "turn"}, NEW to \in EditPcs, NEW line \in Lines,
               Log!Step(e, from, line, to)
        PROVE  Goal
    <3>1. OnlyOf(e) /\ op[e].pc = from /\ UNCHANGED <<exec, stage>>
      BY <2>1, <2>2, StepDoes
    <3> QED
      BY <1>0, <1>1, <1>4, <1>5, <3>1
  <2>3. Log!Supersede(e) => op[e].pc = "supersede"
    BY Stepping DEF Log!Step, Log!At
  <2> QED
    BY <1>21, <2>1, <2>2, <2>3, Stepping
<1>22. ASSUME NEW e \in Edits, Log!EditItem(e) PROVE Goal
  <2>1. /\ exec'.turn = exec.turn /\ exec'.begun = exec.begun /\ UNCHANGED stage
        /\ OnlyOf(e) /\ op[e].pc = "item"
    BY <1>22, EditItemDoes
  <2> QED
    BY <1>0, <1>1, <1>2, <1>5, <2>1
<1>23. ASSUME NEW e \in Edits, Log!EditReplace(e) PROVE Goal
  <2>1. /\ OnlyOf(e) /\ op[e].pc = "replace" /\ op'[e].pc = "done" /\ UNCHANGED exec
        /\ stage' = [stage EXCEPT ![e] = "spawned"]
    BY <1>0, <1>23, ReplaceDoes DEF Log!EditReplace
  <2>2. stage[e] = "new" /\ \A u \in Turns : u # e => stage'[u] = stage[u]
    BY <1>0, <2>1, OtherStages DEF Stages
  <2>3. Over
    BY <2>2 DEF Over
  <2> QED
    BY <1>0, <1>4, <1>5, <2>1, <2>3
<1>30. ASSUME NEW r \in Rollbacks, Log!RollbackExport(r) \/ Log!RollbackAppend(r) \/ Log!RollbackReplace(r)
       PROVE  Goal
  <2>1. OnlyOf(r) /\ op[r].pc # "done" /\ UNCHANGED <<exec, stage>>
    BY <1>0, <1>30, RollbackExportDoes, RollbackAppendDoes, ReplaceDoes DEF Log!RollbackReplace
  <2> QED
    BY <1>0, <1>1, <1>4, <1>5, <2>1
<1>40. ASSUME NEW c \in Compacts,
              \/ Log!CompactExport(c) \/ Log!Summarize(c) \/ Log!CompactRewrite(c) \/ Log!CompactItem(c)
              \/ Log!CompactSnapshot(c) \/ Log!CompactReplace(c)
       PROVE  Goal
  <2>1. OnlyOf(c) /\ op[c].pc # "done" /\ UNCHANGED <<exec, stage>>
        /\ (op[c].pc \in {"snapshot", "replace"} => op'[c].pc \in {"replace", "done"})
    BY <1>0, <1>40, CompactExportDoes, SummarizeDoes, CompactRewriteDoes, CompactItemDoes,
       CompactSnapshotDoes, ReplaceDoes DEF Log!CompactReplace
  <2> QED
    BY <1>0, <1>1, <1>4, <1>5, <2>1
<1>50. ASSUME Log!Crash PROVE Goal
  <2>1. /\ \A t \in Turns : stage'[t] = IF stage[t] = "new" THEN "new" ELSE "over"
        /\ \A o \in Ops : IF op[o].pc = "off" THEN op'[o] = op[o] ELSE op'[o].pc = "done"
    BY <1>50, CrashDoes
  <2>2. exec.turn \in Turns => stage[exec.turn] = "running"
    BY DEF Stages
  <2> QED
    BY <1>0, <2>1, <2>2 DEF Over, Runs, Ends
<1> HIDE DEF Goal
<1>60. Goal
  BY LogCases, <1>10, <1>11, <1>12, <1>13, <1>14, <1>15, <1>20, <1>21, <1>22, <1>23, <1>30, <1>40, <1>50
<1> QED
  BY <1>60 DEF Goal, Over, Runs, Ends

LEMMA StaySettled ==
  ASSUME Typed, Stages, Log!Next
  PROVE  /\ \A id \in ItemIds : Settled(id) => Settled(id)'
         /\ \A id \in ItemIds : Written(id) => Written(id)'
<1>1. \A id \in ItemIds : id[2] \in Nat /\ (id[1] \in Turns \/ (id[1] \in Compacts /\ id[2] = 0))
  BY DEF ItemIds
<1>2. exec.begun \in Nat /\ None \notin Turns /\ Edits \subseteq Ops /\ Compacts \subseteq Ops
      /\ exec.turn \in Turns \cup {None} /\ Compacts \cap Turns = {} /\ None \notin Compacts
      /\ exec'.begun \in Nat
  <2>1. exec \in Execs /\ exec' \in Execs
    BY TypedStep DEF Typed, SessionTyped
  <2> QED
    BY <2>1, Constants DEF Execs
<1>3. ASSUME NEW id \in ItemIds, Settled(id) PROVE Settled(id)'
  BY <1>2, <1>3, Progress DEF Settled
<1>4. ASSUME NEW id \in ItemIds, Written(id) PROVE Written(id)'
  <2>1. CASE Settled(id)
    BY <1>3, <2>1 DEF Written
  <2>2. CASE id[1] = exec.turn /\ id[2] <= exec.begun /\ (id[2] = 0 => exec.turn \in Starts)
    <3>1. exec.turn \in Turns
      BY <1>1, <1>2, <2>2
    <3>2. CASE exec'.turn = exec.turn /\ exec'.begun >= exec.begun
      BY <1>1, <1>2, <2>2, <3>2 DEF Written
    <3>3. CASE stage'[exec.turn] = "over"
      BY <2>2, <3>1, <3>3 DEF Written, Settled
    <3> QED
      BY <3>1, <3>2, <3>3, Progress
  <2>3. CASE id[1] \in Edits /\ id[2] = 0 /\ op[id[1]].pc \in {"rewrite", "replace"}
    BY <2>3, Progress DEF Written, Settled
  <2>4. CASE id[1] \in Compacts /\ op[id[1]].pc \in {"snapshot", "replace"}
    BY <1>1, <1>2, <2>4, Progress DEF Written, Settled
  <2> QED
    BY <1>4, <2>1, <2>2, <2>3, <2>4 DEF Written
<1> QED
  BY <1>3, <1>4

LEMMA TypedParts ==
  ASSUME Typed
  PROVE  /\ Items \cup TailItems \subseteq DiskItems
         /\ Log!ToSet(mem.items) \subseteq MemItems /\ Log!ToSet(exec.items) \subseteq MemItems
         /\ exec.open \subseteq DiskItems
         /\ \A o \in Ops : HasNext(o) => op[o].next \in Mems /\ Log!ToSet(op[o].next.items) \subseteq MemItems
         /\ \A o \in Ops : op[o].pc \in {"append", "replace"} => op[o].cut \subseteq ItemIds
         /\ (\A i \in DiskItems : i.id \in ItemIds) /\ (\A x \in MemItems : x.id \in ItemIds)
<1>1. Items \subseteq DiskItems
  <2>1. disk.items \in Seq(DiskItems)
    BY DEF Typed, FileTyped, Disks
  <2> QED
    BY <2>1, Members DEF Items
<1>2. TailItems \subseteq DiskItems
  <2>1. ASSUME NEW l \in Lines PROVE LineItems(l) \subseteq DiskItems
    BY DEF LineItems, Lines, TurnLines, ItemLines, CutLines, SnapLines, NoteLines
  <2> QED
    BY <2>1 DEF Typed, FileTyped, TailItems
<1>3. Log!ToSet(mem.items) \subseteq MemItems /\ Log!ToSet(exec.items) \subseteq MemItems /\ exec.open \subseteq DiskItems
  BY MemIds DEF Typed, SessionTyped, Mems, Execs
<1>4. ASSUME NEW o \in Ops, HasNext(o) PROVE op[o].next \in Mems
  <2>1. OpsTyped /\ Ops = Edits \cup Rollbacks \cup Compacts
    BY Constants DEF Typed
  <2>2. CASE o \in Edits \cup Rollbacks
    <3>1. o \notin Compacts /\ (o \in Edits => op[o].pc \in {"off", "done", "replace"} \cup EditPcs)
          /\ (o \in Rollbacks => op[o].pc \in {"off", "done", "append", "replace"})
      BY <2>1, <2>2, OpKinds, Constants
    <3>2. op[o].pc \in {"append", "replace"}
      BY <1>4, <2>2, <3>1 DEF HasNext, EditPcs
    <3> QED
      BY <2>1, <2>2, <3>2, OpKinds
  <2>3. CASE o \in Compacts
    <3>1. op[o].pc \in {"item", "snapshot", "replace"}
      BY <1>4, <2>1, <2>3, OpKinds DEF HasNext
    <3>2. op[o].pc \in {"item", "snapshot"} => op[o].next \in Mems
      BY <2>1, <2>3, OpKinds DEF Summarized
    <3> QED
      BY <2>1, <2>3, <3>1, <3>2, OpKinds
  <2> QED
    BY <2>1, <2>2, <2>3
<1>5. \A m \in Mems : Log!ToSet(m.items) \subseteq MemItems
  BY MemIds DEF Mems
<1>6. ASSUME NEW o \in Ops, op[o].pc \in {"append", "replace"} PROVE op[o].cut \subseteq ItemIds
  <2>1. OpsTyped /\ Ops = Edits \cup Rollbacks \cup Compacts
    BY Constants DEF Typed
  <2> QED
    BY <1>6, <2>1, OpKinds
<1>7. (\A i \in DiskItems : i.id \in ItemIds) /\ (\A x \in MemItems : x.id \in ItemIds)
  BY DEF DiskItems, MemItems
<1> QED
  BY <1>1, <1>2, <1>3, <1>4, <1>5, <1>6, <1>7

LEMMA PlacesStep ==
  ASSUME Typed, Stages, Places, Log!Next
  PROVE  Places'
<1>0. /\ Edits \subseteq Ops /\ Rollbacks \subseteq Ops /\ Compacts \subseteq Ops /\ None \notin Turns
      /\ Edits \cap (Rollbacks \cup Compacts) = {} /\ Rollbacks \cap Compacts = {} /\ Edits \subseteq Turns
      /\ Compacts \cap Turns = {} /\ Ops = Edits \cup Rollbacks \cup Compacts
      /\ \A t \in Turns : t \notin Log!Silent => t \in Starts
  BY Constants DEF Log!Silent, Turns, Log!Turns
<1> DEFINE D == Items \cup TailItems
<1>1. UNCHANGED <<disk, tail>> => Filed'
  <2>1. UNCHANGED <<disk, tail>> => UNCHANGED D
    BY DEF Items, TailItems
  <2> QED
    BY <2>1, StaySettled, TypedParts DEF Places, Filed
<1>2. ASSUME NEW l \in Lines, Log!AppendTried(l), \A i \in LineItems(l) : Written(i.id)' PROVE Filed'
  <2>1. D' \subseteq D \cup LineItems(l)
    BY <1>2, Appends DEF Typed
  <2> QED
    BY <1>2, <2>1, StaySettled, TypedParts DEF Places, Filed
<1>3. mem'.items = mem.items /\ UNCHANGED dropped => Held'
  <2>1. \A id \in dropped : id \in ItemIds
    BY DEF Typed, HistoryTyped
  <2> QED
    BY <2>1, StaySettled, TypedParts DEF Places, Held
<1>4. ASSUME NEW o \in Ops, op'[o] = op[o] PROVE Copied(o)'
  BY <1>4, StaySettled, TypedParts DEF Places, Copied, HasNext
<1>5. UNCHANGED op => \A o \in Ops : Copied(o)'
  BY <1>4
<1>6. ASSUME NEW o \in Ops, OnlyOf(o), Copied(o)' PROVE \A p \in Ops : Copied(p)'
  BY <1>4, <1>6 DEF OnlyOf
<1>7. ASSUME NEW o \in Ops, ~HasNext(o)' PROVE Copied(o)'
  BY <1>7 DEF Copied, HasNext
<1>8. \A l : l.kind # "item" => LineItems(l) = {}
  BY DEF LineItems
<1>9. \A t : Log!TurnLine(t).kind # "item"
  BY DEF Log!TurnLine
<1>90. \A t \in Turns : Log!TurnLine(t) \in Lines
  BY DEF Lines, TurnLines, Log!TurnLine
<1>10. ASSUME NEW t \in Turns, Log!BeginTurn(t) PROVE Places'
  <2>1. mem'.items = mem.items /\ UNCHANGED <<disk, tail, dropped, op>>
    BY <1>10 DEF Log!BeginTurn, Log!fileVars, Log!opVars, Typed, SessionTyped, Mems
  <2> QED
    BY <1>1, <1>3, <1>5, <2>1 DEF Places
<1>11. ASSUME NEW t \in Turns, Log!WriteStart(t) PROVE Places'
  <2>1. /\ Log!AppendTried(Log!TurnLine(t)) /\ UNCHANGED <<op, dropped>>
        /\ mem' = [mem EXCEPT !.active = None] \/ mem' = mem
    BY <1>11 DEF Log!WriteStart, Log!AppendTried, Log!opVars
  <2>2. mem'.items = mem.items
    BY <2>1 DEF Typed, SessionTyped, Mems
  <2> QED
    BY <1>2, <1>3, <1>5, <1>8, <1>9, <1>90, <2>1, <2>2 DEF Places
<1>12. ASSUME NEW t \in Turns, Log!Execute(t) PROVE Places'
  <2>1. /\ UNCHANGED <<mem, op, dropped>>
    BY <1>12 DEF Log!Execute, Log!opVars
  <2>2. Filed'
    <3>1. CASE t \in Log!Silent
      BY <1>1, <1>12, <3>1, ExecuteDoes
    <3>2. CASE t \notin Log!Silent
      <4>1. /\ exec'.turn = t /\ exec'.begun = 0 /\ Log!AppendTried(Log!ItemLine(Message(t)))
            /\ Message(t) \in DiskItems
        BY <1>12, <3>2, ExecuteDoes
      <4>2. PICK i \in DiskItems : i = Message(t)
        BY <4>1
      <4>3. i.id = <<t, 0>>
        BY <4>2 DEF Message
      <4>4. Written(i.id)'
        BY <1>0, <3>2, <4>1, <4>3 DEF Written
      <4> QED
        BY <1>2, <4>1, <4>2, <4>4, ItemLineIs
    <3> QED
      BY <3>1, <3>2
  <2> QED
    BY <1>3, <1>5, <2>1, <2>2 DEF Places
<1>13. ASSUME Log!StartItem PROVE Places'
  <2>1. UNCHANGED <<disk, tail, mem, dropped, op>>
    BY <1>13 DEF Log!StartItem, Log!fileVars, Log!opVars
  <2> QED
    BY <1>1, <1>3, <1>5, <2>1 DEF Places
<1>14. ASSUME Log!CompleteItem PROVE Places'
  <2>1. UNCHANGED <<mem, op, dropped>>
    BY <1>14 DEF Log!CompleteItem, Log!opVars
  <2>2. PICK i \in exec.open :
          exec'.turn = exec.turn /\ exec'.begun = exec.begun /\ i \in DiskItems /\ Log!AppendTried(Log!ItemLine(i))
    BY <1>14, CompleteItemDoes
  <2>3. Written(i.id)'
    <3>1. i.id[1] = exec.turn /\ i.id[2] <= exec.begun /\ i.id[2] # 0
      BY <2>2 DEF Stages
    <3> QED
      BY <2>2, <3>1 DEF Written
  <2>4. Filed'
    BY <1>2, <2>2, <2>3, ItemLineIs
  <2> QED
    BY <1>3, <1>5, <2>1, <2>4 DEF Places
<1>15. ASSUME Log!EndTurn PROVE Places'
  <2>1. /\ UNCHANGED <<op, dropped>> /\ Log!AppendTried(Log!TurnLine(exec.turn))
        /\ stage' = [stage EXCEPT ![exec.turn] = "over"]
    BY <1>15 DEF Log!EndTurn, Log!opVars
  <2>2. Log!ToSet(mem'.items) = Log!ToSet(mem.items) \cup Log!ToSet(exec.items) /\ exec.turn \in Turns
    BY <1>15, EndTurnDoes
  <2>3. stage'[exec.turn] = "over"
    BY <2>1, <2>2, OtherStages
  <2>4. \A x \in Log!ToSet(exec.items) : Settled(x.id)'
    BY <2>2, <2>3 DEF Stages, Settled
  <2>5. \A id \in dropped : id \in ItemIds
    BY DEF Typed, HistoryTyped
  <2>6. Held'
    BY <2>1, <2>2, <2>4, <2>5, StaySettled, TypedParts DEF Places, Held
  <2>7. Filed'
    BY <1>2, <1>8, <1>9, <1>90, <2>1, <2>2
  <2> QED
    BY <1>5, <2>1, <2>6, <2>7 DEF Places
<1>20. ASSUME NEW e \in Edits, Log!EditExport(e) PROVE Places'
  <2>1. OnlyOf(e) /\ op'[e].pc = "note" /\ UNCHANGED <<disk, tail, mem, dropped>>
    BY <1>20, EditExportDoes
  <2>2. Copied(e)'
    BY <1>0, <1>7, <2>1 DEF HasNext
  <2> QED
    BY <1>0, <1>1, <1>3, <1>6, <2>1, <2>2 DEF Places
<1>21. ASSUME NEW e \in Edits, Log!EditNote(e) \/ Log!Supersede(e) \/ Log!EditRestore(e) \/ Log!EditTurnLine(e)
       PROVE  Places'
  <2>1. e \in Ops /\ {"note", "supersede", "restore", "turn", "item"} \subseteq EditPcs
        /\ {"supersede", "restore", "turn", "item"} \cap {"append", "snapshot", "replace"} = {}
    BY Constants DEF EditPcs
  <2>2. ASSUME NEW from \in EditPcs, NEW to \in {"supersede", "restore", "turn", "item"}, NEW line \in Lines,
               Log!Step(e, from, line, to), LineItems(line) = {}
        PROVE  Places'
    <3>1. OnlyOf(e) /\ op'[e].pc \in {"done", to} /\ UNCHANGED <<mem, dropped>> /\ Log!AppendTried(line)
      BY <2>1, <2>2, StepDoes
    <3>2. Copied(e)'
      BY <1>0, <1>7, <2>1, <3>1 DEF HasNext
    <3>3. Filed'
      BY <1>2, <2>2, <3>1
    <3> QED
      BY <1>0, <1>3, <1>6, <3>1, <3>2, <3>3 DEF Places
  <2>3. Log!Supersede(e) => op[e].pc = "supersede"
    BY Stepping DEF Log!Step, Log!At
  <2>4. LineItems(Log!NoteLine) = {} /\ \A t : LineItems(Log!TurnLine(t)) = {} /\ LineItems([kind |-> "superseded", turn |-> t]) = {}
    BY <1>8, <1>9 DEF Log!NoteLine
  <2> QED
    BY <1>21, <2>1, <2>2, <2>3, <2>4, Stepping
<1>22. ASSUME NEW e \in Edits, Log!EditItem(e) PROVE Places'
  <2>1. OnlyOf(e) /\ op'[e].pc \in {"done", "rewrite"} /\ mem'.items = mem.items /\ UNCHANGED dropped
        /\ \E i \in DiskItems : i.id = <<e, 0>> /\ Log!AppendTried(Log!ItemLine(i))
    BY <1>22, EditItemDoes DEF Replacement
  <2>2. PICK i \in DiskItems : i.id = <<e, 0>> /\ Log!AppendTried(Log!ItemLine(i))
    BY <2>1
  <2>3. Written(i.id)'
    BY <2>1, <2>2 DEF Written, Settled
  <2>4. Filed'
    BY <1>2, <2>2, <2>3, ItemLineIs
  <2>5. Copied(e)'
    BY <1>0, <1>7, <2>1 DEF HasNext
  <2> QED
    BY <1>0, <1>3, <1>6, <2>1, <2>4, <2>5 DEF Places
<1>23. ASSUME NEW e \in Edits, Log!EditRewrite(e) PROVE Places'
  <2>1. /\ OnlyOf(e) /\ op'[e].pc = "replace" /\ UNCHANGED <<disk, tail, mem, dropped>>
        /\ op'[e].cut = {x.id : x \in {y \in Log!ToSet(mem.items) : y.turn = op[e].target}}
        /\ Log!ToSet(op'[e].next.items) =
              {x \in Log!ToSet(mem.items) : x.turn # op[e].target} \cup {[id |-> <<e, 0>>, turn |-> e]}
    BY <1>23, EditRewriteDoes
  <2>2. Copied(e)'
    <3>1. \A x \in Log!ToSet(mem.items) : Settled(x.id)'
      BY StaySettled, TypedParts DEF Places, Held
    <3> QED
      BY <1>0, <2>1, <3>1 DEF Copied, HasNext
  <2> QED
    BY <1>0, <1>1, <1>3, <1>6, <2>1, <2>2 DEF Places
<1>24. ASSUME NEW o \in Ops, Log!Replace(o) PROVE Places'
  <2>1. /\ OnlyOf(o) /\ op[o].pc = "replace" /\ op'[o].pc = "done" /\ mem' = op[o].next
        /\ dropped' = dropped \cup op[o].cut /\ UNCHANGED <<disk, tail>>
    BY <1>24, ReplaceDoes
  <2>2. Copied(o)'
    BY <1>7, <2>1 DEF HasNext
  <2>3. Copied(o) /\ HasNext(o)
    BY <2>1 DEF Places, HasNext
  <2>4. \A x \in Log!ToSet(mem'.items) : Settled(x.id)'
    <3>1. ASSUME NEW x \in Log!ToSet(op[o].next.items) PROVE Settled(x.id)'
      <4>1. CASE Settled(x.id)
        BY <2>3, <4>1, StaySettled, TypedParts
      <4>2. CASE x.id = <<o, 0>> /\ o \in Edits \cup Compacts
        BY <2>1, <4>2 DEF Settled
      <4> QED
        BY <2>3, <4>1, <4>2 DEF Copied
    <3> QED
      BY <2>1, <3>1
  <2>5. \A id \in dropped' : Settled(id)'
    <3>1. \A id \in dropped \cup op[o].cut : id \in ItemIds /\ Settled(id)
      BY <2>1, <2>3, TypedParts DEF Typed, HistoryTyped, Places, Held, Copied
    <3> QED
      BY <2>1, <3>1, StaySettled
  <2>6. Held'
    BY <2>4, <2>5 DEF Held
  <2> QED
    BY <1>1, <1>6, <2>1, <2>2, <2>6 DEF Places
<1>25. ASSUME NEW e \in Edits, Log!EditReplace(e) PROVE Places'
  BY <1>0, <1>24, <1>25 DEF Log!EditReplace
<1>30. ASSUME NEW r \in Rollbacks, Log!RollbackExport(r) PROVE Places'
  <2>1. /\ OnlyOf(r) /\ op'[r].pc = "append" /\ UNCHANGED <<disk, tail, mem, dropped>>
        /\ Log!ToSet(op'[r].next.items) \subseteq Log!ToSet(mem.items)
        /\ op'[r].cut = {x.id : x \in Log!ToSet(mem.items)} \ {x.id : x \in Log!ToSet(op'[r].next.items)}
    BY <1>30, RollbackExportDoes
  <2>2. Copied(r)'
    <3>1. \A x \in Log!ToSet(mem.items) : Settled(x.id)'
      BY StaySettled, TypedParts DEF Places, Held
    <3> QED
      BY <1>0, <2>1, <3>1 DEF Copied, HasNext
  <2> QED
    BY <1>0, <1>1, <1>3, <1>6, <2>1, <2>2 DEF Places
<1>31. ASSUME NEW r \in Rollbacks, Log!RollbackAppend(r) PROVE Places'
  <2> DEFINE line == CutLine(op[r].next.items, op[r].next.latest)
  <2>1. /\ OnlyOf(r) /\ op[r].pc = "append" /\ UNCHANGED <<mem, dropped>> /\ line \in CutLines
        /\ Log!AppendTried(line)
        /\ op'[r].pc = "done" \/ (op'[r].pc = "replace" /\ op'[r].next = op[r].next /\ op'[r].cut = op[r].cut)
    BY <1>31, RollbackAppendDoes
  <2>2. line.kind = "rollback" /\ line \in Lines
    BY <2>1 DEF CutLine, Lines
  <2> HIDE DEF line
  <2>3. Filed'
    BY <1>2, <1>8, <2>1, <2>2
  <2>4. Copied(r)'
    <3>1. Copied(r) /\ HasNext(r)
      BY <1>0, <2>1 DEF Places, HasNext
    <3> QED
      BY <1>0, <2>1, <3>1, StaySettled, TypedParts DEF Copied, HasNext
  <2> QED
    BY <1>0, <1>3, <1>6, <2>1, <2>3, <2>4 DEF Places
<1>32. ASSUME NEW r \in Rollbacks, Log!RollbackReplace(r) PROVE Places'
  BY <1>0, <1>24, <1>32 DEF Log!RollbackReplace
<1>40. ASSUME NEW c \in Compacts, Log!CompactExport(c) \/ Log!Summarize(c) PROVE Places'
  <2>1. OnlyOf(c) /\ op'[c].pc \in {"summarize", "export", "done"} /\ UNCHANGED <<disk, tail, mem, dropped>>
    BY <1>40, CompactExportDoes, SummarizeDoes
  <2>2. Copied(c)'
    BY <1>0, <1>7, <2>1 DEF HasNext
  <2> QED
    BY <1>0, <1>1, <1>3, <1>6, <2>1, <2>2 DEF Places
<1>41. ASSUME NEW c \in Compacts, Log!CompactRewrite(c) PROVE Places'
  <2>1. OnlyOf(c) /\ UNCHANGED <<disk, tail, mem, dropped>>
    BY <1>41, CompactRewriteDoes
  <2>2. \A x \in Log!ToSet(mem.items) : Settled(x.id)'
    BY StaySettled, TypedParts DEF Places, Held
  <2>3. CASE op'[c].pc = "replace" /\ op'[c].next = mem
    <3>1. OpsTyped'
      BY TypedStep DEF Typed
    <3>2. op'[c].cut = {}
      <4>1. op'[c] \in CompactOps
        BY <3>1 DEF OpsTyped
      <4> QED
        BY <2>3, <4>1 DEF CompactOps, OffOrDone, Summarizing, Exporting, Uncompacted, Summarized
    <3>3. Copied(c)'
      BY <1>0, <2>2, <2>3, <3>2 DEF Copied, HasNext
    <3> QED
      BY <1>0, <1>1, <1>3, <1>6, <2>1, <3>3 DEF Places
  <2>4. CASE /\ op'[c].pc = "item" /\ op'[c].line = Log!ItemLine(Summary(c))
             /\ Log!ToSet(op'[c].next.items) = Log!ToSet(mem.items) \cup {Log!Remembered(Summary(c))}
    <3>1. Log!Remembered(Summary(c)).id = <<c, 0>> /\ Log!ItemLine(Summary(c)).item.id = <<c, 0>>
      BY DEF Summary, Log!Remembered, Log!ItemLine
    <3>2. Copied(c)'
      BY <1>0, <2>2, <2>4, <3>1 DEF Copied, HasNext
    <3> QED
      BY <1>0, <1>1, <1>3, <1>6, <2>1, <3>2 DEF Places
  <2> QED
    BY <1>41, <2>3, <2>4, CompactRewriteDoes
<1>42. ASSUME NEW c \in Compacts, Log!CompactItem(c) PROVE Places'
  <2>1. /\ OnlyOf(c) /\ op[c].pc = "item" /\ op'[c].pc = "snapshot" /\ op'[c].next = op[c].next
        /\ UNCHANGED <<mem, dropped>> /\ op[c].line \in Lines /\ op[c].line.item \in DiskItems
        /\ op[c].line = Log!ItemLine(op[c].line.item) /\ Log!AppendTried(op[c].line)
    BY <1>42, CompactItemDoes
  <2>2. Copied(c) /\ HasNext(c)
    BY <1>0, <2>1 DEF Places, HasNext
  <2>3. PICK i \in DiskItems : i = op[c].line.item
    BY <2>1
  <2>4. Written(i.id)'
    <3>1. i.id = <<c, 0>>
      BY <2>1, <2>2, <2>3 DEF Copied
    <3> QED
      BY <2>1, <3>1 DEF Written
  <2>5. Filed'
    BY <1>2, <2>1, <2>3, <2>4, ItemLineIs
  <2>6. Copied(c)'
    BY <1>0, <2>1, <2>2, StaySettled, TypedParts DEF Copied, HasNext
  <2> QED
    BY <1>0, <1>3, <1>6, <2>1, <2>5, <2>6 DEF Places
<1>43. ASSUME NEW c \in Compacts, Log!CompactSnapshot(c) PROVE Places'
  <2> DEFINE line == [kind |-> "snapshot", snap |-> op[c].snap]
  <2>1. /\ OnlyOf(c) /\ op[c].pc = "snapshot" /\ op'[c].pc = "replace" /\ op'[c].next = op[c].next
        /\ UNCHANGED <<mem, dropped>> /\ line \in Lines /\ Log!AppendTried(line) /\ line.kind = "snapshot"
    BY <1>43, CompactSnapshotDoes
  <2> HIDE DEF line
  <2>2. Filed'
    BY <1>2, <1>8, <2>1
  <2>3. Copied(c) /\ HasNext(c)
    BY <1>0, <2>1 DEF Places, HasNext
  <2>4. op'[c].cut = {}
    <3>1. op'[c] \in CompactOps
      BY TypedStep DEF Typed, OpsTyped
    <3> QED
      BY <2>1, <3>1 DEF CompactOps, OffOrDone, Summarizing, Exporting, Uncompacted, Summarized
  <2>5. Copied(c)'
    BY <1>0, <2>1, <2>3, <2>4, StaySettled, TypedParts DEF Copied, HasNext
  <2> QED
    BY <1>0, <1>3, <1>6, <2>1, <2>2, <2>5 DEF Places
<1>44. ASSUME NEW c \in Compacts, Log!CompactReplace(c) PROVE Places'
  BY <1>0, <1>24, <1>44 DEF Log!CompactReplace
<1>50. ASSUME Log!Crash PROVE Places'
  <2>1. /\ mem' = Log!Loaded(Log!WholeFile) /\ UNCHANGED <<disk, tail, dropped>>
        /\ \A t \in Turns : stage'[t] = IF stage[t] = "new" THEN "new" ELSE "over"
        /\ \A o \in Ops : IF op[o].pc = "off" THEN op'[o] = op[o] ELSE op'[o].pc = "done"
    BY <1>50, CrashDoes
  <2>2. \A o \in Ops : Copied(o)'
    <3> SUFFICES ASSUME NEW o \in Ops PROVE Copied(o)'
      OBVIOUS
    <3> QED
      BY <1>4, <1>7, <2>1 DEF HasNext
  <2>3. Log!ToSet(mem'.items) \subseteq {Log!Remembered(x) : x \in D}
    <3>1. Log!WholeFile \in Disks /\ Log!ToSet(Log!WholeFile.items) \subseteq D
      BY WholeFileIs DEF Typed
    <3>2. Log!ToSet(mem'.items) = {Log!Remembered(x) : x \in Log!ToSet(Log!WholeFile.items)}
      BY <2>1, <3>1, LoadedIs
    <3> HIDE DEF D
    <3> QED
      BY <3>1, <3>2
  <2>4. \A i \in D : Settled(i.id)'
    <3> SUFFICES ASSUME NEW i \in D PROVE Settled(i.id)'
      OBVIOUS
    <3>1. Written(i.id) /\ i.id \in ItemIds
      BY TypedParts DEF Places, Filed
    <3>2. CASE Settled(i.id)
      BY <3>1, <3>2, StaySettled
    <3>3. CASE i.id[1] = exec.turn
      <4>1. i.id[1] \in Turns \cup Compacts
        BY <3>1 DEF ItemIds
      <4>2. exec.turn \in Turns
        <5>1. exec.turn \in Turns \cup {None} /\ None \notin Compacts
          BY Constants DEF Typed, SessionTyped, Execs
        <5> QED
          BY <1>0, <3>3, <4>1, <5>1
      <4>3. stage[exec.turn] = "running"
        BY <4>2 DEF Stages
      <4> QED
        BY <2>1, <3>3, <4>2, <4>3 DEF Settled
    <3>4. CASE i.id[1] \in Edits /\ i.id[2] = 0 /\ op[i.id[1]].pc \in {"rewrite", "replace"}
      BY <1>0, <2>1, <3>4 DEF Settled
    <3>5. CASE i.id[1] \in Compacts /\ op[i.id[1]].pc \in {"snapshot", "replace"}
      <4>1. i.id[2] = 0
        BY <1>0, <3>1, <3>5 DEF ItemIds
      <4> QED
        BY <1>0, <2>1, <3>5, <4>1 DEF Settled
    <3> QED
      BY <3>1, <3>2, <3>3, <3>4, <3>5 DEF Written
  <2>5. \A x \in Log!ToSet(mem'.items) : Settled(x.id)'
    BY <2>3, <2>4 DEF Log!Remembered
  <2>6. \A id \in dropped : id \in ItemIds /\ Settled(id)
    BY DEF Typed, HistoryTyped, Places, Held
  <2>7. Held'
    BY <2>1, <2>5, <2>6, StaySettled DEF Held
  <2> QED
    BY <1>1, <2>1, <2>2, <2>7 DEF Places
<1> QED
  BY LogCases, <1>10, <1>11, <1>12, <1>13, <1>14, <1>15, <1>20, <1>21, <1>22, <1>23, <1>25, <1>30,
     <1>31, <1>32, <1>40, <1>41, <1>42, <1>43, <1>44, <1>50

(* What a step adds to them.                                                 *)
LEMMA SeenGrows ==
  ASSUME Typed, Stages, Log!Next
  PROVE  \A x \in About' : \/ x \in About \/ Own(x)
                          \/ \E c \in Compacts : op[c].pc = "export" /\ x = Log!Remembered(Summary(c))
<1>0. /\ Edits \subseteq Ops /\ Rollbacks \subseteq Ops /\ Compacts \subseteq Ops /\ None \notin Turns
      /\ Edits \cap (Rollbacks \cup Compacts) = {} /\ Rollbacks \cap Compacts = {} /\ Edits \subseteq Turns
  BY Constants
<1> DEFINE D == Items \cup TailItems
           M == Log!ToSet(mem.items)
           New(x) == x \in About \/ Own(x) \/ \E c \in Compacts : op[c].pc = "export" /\ x = Log!Remembered(Summary(c))
           Ms == \A x \in M' : New(x)
           Ds == \A i \in D' : New(Log!Remembered(i))
           Os(o) == \A x \in OpItems(o)' : New(x)
           Goal == Ms /\ Ds /\ \A o \in Ops : Os(o)
<1>1. SUFFICES Goal
  <2>1. \A x \in About' : x \in M' \/ (\E i \in D' : x = Log!Remembered(i)) \/ \E o \in Ops : x \in OpItems(o)'
    BY DEF About
  <2> HIDE DEF New, M, D
  <2>2. \A x \in About' : New(x)
    BY <1>1, <2>1
  <2> QED
    BY <2>2 DEF New
<1>2. (\A x \in M : New(x)) /\ (\A i \in D : New(Log!Remembered(i))) /\ \A o \in Ops : \A x \in OpItems(o) : New(x)
  BY DEF About
<1>3. mem'.items = mem.items => Ms
  BY <1>2
<1>4. UNCHANGED <<disk, tail>> => Ds
  <2>1. UNCHANGED <<disk, tail>> => D' = D
    BY DEF Items, TailItems
  <2> HIDE DEF D, New
  <2> QED
    BY <1>2, <2>1
<1>5. ASSUME NEW l \in Lines, Log!AppendTried(l), \A i \in LineItems(l) : New(Log!Remembered(i)) PROVE Ds
  <2>1. D' \subseteq D \cup LineItems(l)
    BY <1>5, Appends DEF Typed
  <2> HIDE DEF D, New
  <2> QED
    BY <1>2, <1>5, <2>1
<1>6. ASSUME NEW o \in Ops, op'[o] = op[o] PROVE Os(o)
  <2>1. OpItems(o)' = OpItems(o)
    BY <1>6 DEF OpItems, HasNext
  <2> HIDE DEF New
  <2> QED
    BY <1>2, <2>1
<1> HIDE DEF M, D, New, Ms, Ds
<1>7. ASSUME NEW o \in Ops, OnlyOf(o), Os(o) PROVE \A p \in Ops : Os(p)
  <2> SUFFICES ASSUME NEW p \in Ops, p # o PROVE Os(p)
    BY <1>7
  <2> HIDE DEF Os
  <2> QED
    BY <1>6, <1>7 DEF OnlyOf
<1>8. UNCHANGED op => \A o \in Ops : Os(o)
  <2> HIDE DEF Os
  <2> QED
    BY <1>6
<1>9. ASSUME NEW o \in Ops, ~HasNext(o)' PROVE Os(o)
  <2>1. OpItems(o)' = {}
    BY <1>9 DEF OpItems, HasNext
  <2> QED
    BY <2>1
<1>90. /\ \A l : l.kind # "item" => LineItems(l) = {}
       /\ \A t : Log!TurnLine(t).kind # "item"
       /\ \A t \in Turns : Log!TurnLine(t) \in Lines
  BY DEF LineItems, Log!TurnLine, Lines, TurnLines
<1>91. \A x : Own(x) => New(x)
  BY DEF New
<1>92. \A i : Own(i) => Own(Log!Remembered(i))
  BY DEF Own, Log!Remembered
<1> HIDE DEF Os
<1>10. ASSUME NEW t \in Turns, Log!BeginTurn(t) PROVE Goal
  <2>1. mem'.items = mem.items /\ UNCHANGED <<disk, tail, op>>
    BY <1>10 DEF Log!BeginTurn, Log!fileVars, Log!opVars, Typed, SessionTyped, Mems
  <2> QED
    BY <1>3, <1>4, <1>8, <2>1
<1>11. ASSUME NEW t \in Turns, Log!WriteStart(t) PROVE Goal
  <2>1. /\ Log!AppendTried(Log!TurnLine(t)) /\ UNCHANGED op
        /\ mem' = [mem EXCEPT !.active = None] \/ mem' = mem
    BY <1>11 DEF Log!WriteStart, Log!AppendTried, Log!opVars
  <2>2. mem'.items = mem.items
    BY <2>1 DEF Typed, SessionTyped, Mems
  <2> QED
    BY <1>3, <1>5, <1>8, <1>90, <2>1, <2>2
<1>12. ASSUME NEW t \in Turns, Log!Execute(t) PROVE Goal
  <2>1. UNCHANGED <<mem, op>>
    BY <1>12 DEF Log!Execute, Log!opVars
  <2>2. Ds
    <3>1. CASE t \in Log!Silent
      BY <1>4, <1>12, <3>1, ExecuteDoes
    <3>2. CASE t \notin Log!Silent
      <4>1. Log!AppendTried(Log!ItemLine(Message(t))) /\ Message(t) \in DiskItems
        BY <1>12, <3>2, ExecuteDoes
      <4>2. Own(Message(t))
        BY DEF Own, Message
      <4> QED
        BY <1>5, <1>91, <1>92, <4>1, <4>2, ItemLineIs
    <3> QED
      BY <3>1, <3>2
  <2> QED
    BY <1>3, <1>8, <2>1, <2>2
<1>13. ASSUME Log!StartItem PROVE Goal
  <2>1. UNCHANGED <<disk, tail, mem, op>>
    BY <1>13 DEF Log!StartItem, Log!fileVars, Log!opVars
  <2> QED
    BY <1>3, <1>4, <1>8, <2>1
<1>14. ASSUME Log!CompleteItem PROVE Goal
  <2>1. UNCHANGED <<mem, op>>
    BY <1>14 DEF Log!CompleteItem, Log!opVars
  <2>2. PICK i \in exec.open : i \in DiskItems /\ Log!AppendTried(Log!ItemLine(i))
    BY <1>14, CompleteItemDoes
  <2>3. Own(i)
    BY <2>2, TypedParts DEF Own, Stages, DiskItems, Typed, SessionTyped, Execs
  <2>4. Ds
    BY <1>5, <1>91, <1>92, <2>2, <2>3, ItemLineIs
  <2> QED
    BY <1>3, <1>8, <2>1, <2>4
<1>15. ASSUME Log!EndTurn PROVE Goal
  <2>1. UNCHANGED op /\ Log!AppendTried(Log!TurnLine(exec.turn))
    BY <1>15 DEF Log!EndTurn, Log!opVars
  <2>2. M' = M \cup Log!ToSet(exec.items) /\ exec.turn \in Turns
    BY <1>15, EndTurnDoes DEF M
  <2>3. \A x \in Log!ToSet(exec.items) : Own(x)
    BY <2>2 DEF Stages, Own
  <2>4. Ms
    BY <1>2, <1>91, <2>2, <2>3 DEF Ms
  <2>5. Ds
    BY <1>5, <1>90, <2>1, <2>2
  <2> QED
    BY <1>8, <2>1, <2>4, <2>5
<1>20. ASSUME NEW e \in Edits, Log!EditExport(e) PROVE Goal
  <2>1. OnlyOf(e) /\ op'[e].pc = "note" /\ UNCHANGED <<disk, tail, mem>>
    BY <1>20, EditExportDoes
  <2>2. ~HasNext(e)'
    BY <1>0, <2>1 DEF HasNext
  <2> QED
    BY <1>0, <1>3, <1>4, <1>7, <1>9, <2>1, <2>2
<1>21. ASSUME NEW e \in Edits, Log!EditNote(e) \/ Log!Supersede(e) \/ Log!EditRestore(e) \/ Log!EditTurnLine(e)
       PROVE  Goal
  <2>1. e \in Ops /\ {"note", "supersede", "restore", "turn", "item"} \subseteq EditPcs
        /\ {"supersede", "restore", "turn", "item"} \cap {"append", "snapshot", "replace"} = {}
    BY Constants DEF EditPcs
  <2>2. ASSUME NEW from \in EditPcs, NEW to \in {"supersede", "restore", "turn", "item"}, NEW line \in Lines,
               Log!Step(e, from, line, to), LineItems(line) = {}
        PROVE  Goal
    <3>1. OnlyOf(e) /\ op'[e].pc \in {"done", to} /\ UNCHANGED mem /\ Log!AppendTried(line)
      BY <2>1, <2>2, StepDoes
    <3>2. ~HasNext(e)'
      BY <1>0, <2>1, <3>1 DEF HasNext
    <3> QED
      BY <1>0, <1>3, <1>5, <1>7, <1>9, <2>2, <3>1, <3>2
  <2>3. Log!Supersede(e) => op[e].pc = "supersede"
    BY Stepping DEF Log!Step, Log!At
  <2>4. LineItems(Log!NoteLine) = {} /\ \A t : LineItems(Log!TurnLine(t)) = {} /\ LineItems([kind |-> "superseded", turn |-> t]) = {}
    BY <1>90 DEF Log!NoteLine
  <2> QED
    BY <1>21, <2>1, <2>2, <2>3, <2>4, Stepping
<1>22. ASSUME NEW e \in Edits, Log!EditItem(e) PROVE Goal
  <2>1. OnlyOf(e) /\ op'[e].pc \in {"done", "rewrite"} /\ mem'.items = mem.items
        /\ \E i \in DiskItems : Own(i) /\ Log!AppendTried(Log!ItemLine(i))
    <3>1. \A n : Own(Replacement(e, n))
      BY <1>0 DEF Own, Replacement
    <3> QED
      BY <1>22, <3>1, EditItemDoes
  <2>2. PICK i \in DiskItems : Own(i) /\ Log!AppendTried(Log!ItemLine(i))
    BY <2>1
  <2>3. Ds
    BY <1>5, <1>91, <1>92, <2>2, ItemLineIs
  <2>4. ~HasNext(e)'
    BY <1>0, <2>1 DEF HasNext
  <2> QED
    BY <1>0, <1>3, <1>7, <1>9, <2>1, <2>3, <2>4
<1>23. ASSUME NEW e \in Edits, Log!EditRewrite(e) PROVE Goal
  <2>0. /\ OnlyOf(e) /\ op'[e].pc = "replace" /\ UNCHANGED <<disk, tail, mem>>
        /\ Log!ToSet(op'[e].next.items) =
             {x \in Log!ToSet(mem.items) : x.turn # op[e].target} \cup {[id |-> <<e, 0>>, turn |-> e]}
    BY <1>23, EditRewriteDoes
  <2>1. Log!ToSet(op'[e].next.items) \subseteq M \cup {[id |-> <<e, 0>>, turn |-> e]}
    BY <2>0 DEF M
  <2>2. Own([id |-> <<e, 0>>, turn |-> e])
    BY <1>0 DEF Own
  <2>3. OpItems(e)' \subseteq M \cup {[id |-> <<e, 0>>, turn |-> e]}
    BY <1>0, <2>0, <2>1 DEF OpItems, HasNext
  <2>4. Os(e)
    BY <1>2, <1>91, <2>2, <2>3 DEF Os
  <2> QED
    BY <1>0, <1>3, <1>4, <1>7, <2>0, <2>4
<1>24. ASSUME NEW o \in Ops, Log!Replace(o) PROVE Goal
  <2>1. /\ OnlyOf(o) /\ op[o].pc = "replace" /\ op'[o].pc = "done" /\ mem' = op[o].next
        /\ UNCHANGED <<disk, tail>>
    BY <1>24, ReplaceDoes
  <2>2. ~HasNext(o)'
    BY <2>1 DEF HasNext
  <2>3. M' \subseteq OpItems(o)
    BY <2>1 DEF M, OpItems, HasNext
  <2>4. Ms
    BY <1>2, <2>3 DEF Ms
  <2> QED
    BY <1>4, <1>7, <1>9, <2>1, <2>2, <2>4
<1>25. ASSUME NEW e \in Edits, Log!EditReplace(e) PROVE Goal
  BY <1>0, <1>24, <1>25 DEF Log!EditReplace
<1>30. ASSUME NEW r \in Rollbacks, Log!RollbackExport(r) PROVE Goal
  <2>1. /\ OnlyOf(r) /\ op'[r].pc = "append" /\ UNCHANGED <<disk, tail, mem>>
        /\ Log!ToSet(op'[r].next.items) \subseteq M
    BY <1>30, RollbackExportDoes DEF M
  <2>2. OpItems(r)' \subseteq M
    BY <1>0, <2>1 DEF OpItems, HasNext
  <2>3. Os(r)
    BY <1>2, <2>2 DEF Os
  <2> QED
    BY <1>0, <1>3, <1>4, <1>7, <2>1, <2>3
<1>31. ASSUME NEW r \in Rollbacks, Log!RollbackAppend(r) PROVE Goal
  <2> DEFINE line == CutLine(op[r].next.items, op[r].next.latest)
  <2>1. /\ OnlyOf(r) /\ op[r].pc = "append" /\ UNCHANGED mem /\ line \in CutLines
        /\ Log!AppendTried(line)
        /\ op'[r].pc = "done" \/ (op'[r].pc = "replace" /\ op'[r].next = op[r].next)
    BY <1>31, RollbackAppendDoes
  <2>2. line.kind = "rollback" /\ line \in Lines
    BY <2>1 DEF CutLine, Lines
  <2> HIDE DEF line
  <2>3. Ds
    BY <1>5, <1>90, <2>1, <2>2
  <2>4. OpItems(r)' \subseteq OpItems(r)
    BY <1>0, <2>1 DEF OpItems, HasNext
  <2>5. Os(r)
    BY <1>0, <1>2, <2>4 DEF Os
  <2> QED
    BY <1>0, <1>3, <1>7, <2>1, <2>3, <2>5
<1>32. ASSUME NEW r \in Rollbacks, Log!RollbackReplace(r) PROVE Goal
  BY <1>0, <1>24, <1>32 DEF Log!RollbackReplace
<1>40. ASSUME NEW c \in Compacts, Log!CompactExport(c) \/ Log!Summarize(c) PROVE Goal
  <2>1. OnlyOf(c) /\ op'[c].pc \in {"summarize", "export", "done"} /\ UNCHANGED <<disk, tail, mem>>
    BY <1>40, CompactExportDoes, SummarizeDoes
  <2>2. ~HasNext(c)'
    BY <1>0, <2>1 DEF HasNext
  <2> QED
    BY <1>0, <1>3, <1>4, <1>7, <1>9, <2>1, <2>2
<1>41. ASSUME NEW c \in Compacts, Log!CompactRewrite(c) PROVE Goal
  <2>1. OnlyOf(c) /\ op[c].pc = "export" /\ UNCHANGED <<disk, tail, mem>>
    BY <1>41, CompactRewriteDoes
  <2>2. OpItems(c)' \subseteq M \cup {Log!Remembered(Summary(c))}
    <3>1. CASE op'[c].pc = "replace" /\ op'[c].next = mem
      BY <3>1 DEF OpItems, HasNext, M
    <3>2. CASE /\ op'[c].pc = "item" /\ op'[c].line = Log!ItemLine(Summary(c))
               /\ Log!ToSet(op'[c].next.items) = Log!ToSet(mem.items) \cup {Log!Remembered(Summary(c))}
      <4>1. Log!ItemLine(Summary(c)).item = Summary(c)
        BY DEF Log!ItemLine
      <4> QED
        BY <3>2, <4>1 DEF OpItems, HasNext, M
    <3> QED
      BY <1>41, <3>1, <3>2, CompactRewriteDoes
  <2>3. New(Log!Remembered(Summary(c)))
    BY <2>1 DEF New
  <2>4. Os(c)
    BY <1>2, <2>2, <2>3 DEF Os
  <2> QED
    BY <1>0, <1>3, <1>4, <1>7, <2>1, <2>4
<1>42. ASSUME NEW c \in Compacts, Log!CompactItem(c) PROVE Goal
  <2>1. /\ OnlyOf(c) /\ op[c].pc = "item" /\ op'[c].pc = "snapshot" /\ op'[c].next = op[c].next
        /\ UNCHANGED mem /\ op[c].line \in Lines /\ op[c].line.item \in DiskItems
        /\ op[c].line = Log!ItemLine(op[c].line.item) /\ Log!AppendTried(op[c].line)
    BY <1>42, CompactItemDoes
  <2>2. Log!Remembered(op[c].line.item) \in OpItems(c)
    BY <2>1 DEF OpItems
  <2>3. LineItems(op[c].line) = {op[c].line.item}
    BY <2>1, ItemLineIs
  <2>4. Ds
    BY <1>0, <1>2, <1>5, <2>1, <2>2, <2>3
  <2>5. OpItems(c)' \subseteq OpItems(c)
    BY <2>1 DEF OpItems, HasNext
  <2>6. Os(c)
    BY <1>0, <1>2, <2>5 DEF Os
  <2> QED
    BY <1>0, <1>3, <1>7, <2>1, <2>4, <2>6
<1>43. ASSUME NEW c \in Compacts, Log!CompactSnapshot(c) PROVE Goal
  <2> DEFINE line == [kind |-> "snapshot", snap |-> op[c].snap]
  <2>1. /\ OnlyOf(c) /\ op[c].pc = "snapshot" /\ op'[c].pc = "replace" /\ op'[c].next = op[c].next
        /\ UNCHANGED mem /\ line \in Lines /\ Log!AppendTried(line) /\ line.kind = "snapshot"
    BY <1>43, CompactSnapshotDoes
  <2> HIDE DEF line
  <2>2. Ds
    BY <1>5, <1>90, <2>1
  <2>3. OpItems(c)' \subseteq OpItems(c)
    BY <2>1 DEF OpItems, HasNext
  <2>4. Os(c)
    BY <1>0, <1>2, <2>3 DEF Os
  <2> QED
    BY <1>0, <1>3, <1>7, <2>1, <2>2, <2>4
<1>44. ASSUME NEW c \in Compacts, Log!CompactReplace(c) PROVE Goal
  BY <1>0, <1>24, <1>44 DEF Log!CompactReplace
<1>50. ASSUME Log!Crash PROVE Goal
  <2>1. /\ mem' = Log!Loaded(Log!WholeFile) /\ UNCHANGED <<disk, tail>>
        /\ \A o \in Ops : IF op[o].pc = "off" THEN op'[o] = op[o] ELSE op'[o].pc = "done"
    BY <1>50, CrashDoes
  <2>2. \A o \in Ops : Os(o)
    <3> SUFFICES ASSUME NEW o \in Ops PROVE Os(o)
      OBVIOUS
    <3> QED
      BY <1>6, <1>9, <2>1 DEF HasNext
  <2>3. M' \subseteq {Log!Remembered(x) : x \in D}
    <3>1. Log!WholeFile \in Disks /\ Log!ToSet(Log!WholeFile.items) \subseteq D
      BY WholeFileIs DEF Typed, D
    <3>2. M' = {Log!Remembered(x) : x \in Log!ToSet(Log!WholeFile.items)}
      BY <2>1, <3>1, LoadedIs DEF M
    <3> QED
      BY <3>1, <3>2
  <2>4. Ms
    BY <1>2, <2>3 DEF Ms
  <2> QED
    BY <1>4, <2>1, <2>2, <2>4
<1> HIDE DEF Goal
<1> QED
  BY LogCases, <1>10, <1>11, <1>12, <1>13, <1>14, <1>15, <1>20, <1>21, <1>22, <1>23, <1>25, <1>30,
     <1>31, <1>32, <1>40, <1>41, <1>42, <1>43, <1>44, <1>50

LEMMA SameTurnStep ==
  ASSUME Typed, Stages, Places, SameTurn, Log!Next
  PROVE  SameTurn'
<1>1. ASSUME NEW c \in Compacts, op[c].pc = "export", NEW x \in About PROVE x.id # <<c, 0>>
  <2> SUFFICES ASSUME x.id = <<c, 0>> PROVE FALSE
    OBVIOUS
  <2>1. c \notin Turns /\ c # None /\ c \notin Edits /\ exec.turn \in Turns \cup {None} /\ c \in Ops
    BY Constants DEF Typed, SessionTyped, Execs
  <2>2. ~Settled(x.id)
    BY <1>1, <2>1 DEF Settled
  <2>3. ~Written(x.id)
    BY <1>1, <2>1, <2>2 DEF Written
  <2>4. x \notin Log!ToSet(mem.items)
    BY <2>2 DEF Places, Held
  <2>5. ASSUME NEW i \in Items \cup TailItems, x = Log!Remembered(i) PROVE FALSE
    BY <2>3, <2>5 DEF Places, Filed, Log!Remembered
  <2>6. ASSUME NEW o \in Ops, x \in OpItems(o) PROVE FALSE
    <3>1. Copied(o)
      BY DEF Places
    <3>2. CASE HasNext(o) /\ x \in Log!ToSet(op[o].next.items)
      <4>1. <<c, 0>> = <<o, 0>>
        BY <2>2, <3>1, <3>2 DEF Copied
      <4> QED
        BY <1>1, <3>2, <4>1 DEF HasNext
    <3>3. CASE o \in Compacts /\ op[o].pc = "item" /\ x = Log!Remembered(op[o].line.item)
      <4>1. x.id = <<o, 0>>
        BY <3>1, <3>3 DEF Copied, Log!Remembered
      <4> QED
        BY <1>1, <3>3, <4>1
    <3> QED
      BY <2>6, <3>2, <3>3 DEF OpItems
  <2> QED
    BY <2>4, <2>5, <2>6 DEF About
<1>2. \A c \in Compacts : Log!Remembered(Summary(c)).id = <<c, 0>> /\ c \notin Turns
  BY Constants DEF Log!Remembered, Summary
<1>3. \A x : Own(x) <=> x.id[1] \in Turns /\ x.turn = x.id[1]
  BY DEF Own
<1> DEFINE Fresh(x) == \E c \in Compacts : op[c].pc = "export" /\ x = Log!Remembered(Summary(c))
<1>4. \A x \in About' : x \in About \/ Own(x) \/ Fresh(x)
  BY SeenGrows
<1>5. \A x : Fresh(x) => x.id[1] \notin Turns
  BY <1>2
<1>6. \A x \in About' : x.id[1] \in Turns => Own(x)
  BY <1>4, <1>5 DEF SameTurn
<1>7. ASSUME NEW x \in About', NEW y \in About', x.id = y.id PROVE x.turn = y.turn
  <2>1. CASE x.id[1] \in Turns
    BY <1>3, <1>6, <1>7, <2>1
  <2>2. CASE x.id[1] \notin Turns
    <3>1. (x \in About \/ Fresh(x)) /\ (y \in About \/ Fresh(y))
      BY <1>3, <1>4, <1>7, <2>2
    <3>2. ~(x \in About /\ Fresh(y)) /\ ~(y \in About /\ Fresh(x))
      BY <1>1, <1>2, <1>7
    <3>3. CASE x \in About /\ y \in About
      BY <1>7, <3>3 DEF SameTurn
    <3>4. CASE Fresh(x) /\ Fresh(y)
      <4>1. PICK c \in Compacts : x = Log!Remembered(Summary(c))
        BY <3>4
      <4>2. PICK d \in Compacts : y = Log!Remembered(Summary(d))
        BY <3>4
      <4>3. <<c, 0>> = <<d, 0>>
        BY <1>2, <1>7, <4>1, <4>2
      <4> QED
        BY <4>1, <4>2, <4>3
    <3> QED
      BY <3>1, <3>2, <3>3, <3>4
  <2> QED
    BY <2>1, <2>2
<1> QED
  BY <1>6, <1>7 DEF SameTurn

-----------------------------------------------------------------------------
LEMMA LoneStep ==
  ASSUME Typed, Stages, Log!Next
  PROVE  Lone'
<1> SUFFICES ASSUME ~raced', NEW o \in Ops, AtWork(o)'
             PROVE  (\A p \in Ops : AtWork(p)' => p = o) /\ \A t \in Turns : ~Busy(t)'
  BY DEF Lone
<1>1. Stages' /\ Typed'
  BY StagesStep, TypedStep
<1> DEFINE W == {p \in Ops : AtWork(p)'}
           I == {t \in Turns : Busy(t)'}
<1>2. Log!Working' = W /\ Log!InTurn' = I
  BY DEF Log!Working, Log!InTurn, AtWork, Busy, Ops, Turns
<1>3. ~(W # {} /\ Cardinality(W \cup I) > 1)
  <2>1. ~Log!Overlap'
    BY LogCases
  <2> QED
    BY <1>2, <2>1, SameCount DEF Log!Overlap
<1>4. o \in W
  OBVIOUS
<1>5. IsFiniteSet(W \cup I)
  <2>1. W \cup I \subseteq Ops \cup Turns /\ IsFiniteSet(Ops \cup Turns)
    BY Constants, FS_Union
  <2> HIDE DEF W, I
  <2> QED
    BY <2>1, FS_Subset
<1> HIDE DEF W, I
<1>6. \A x \in W \cup I : x = o
  <2> SUFFICES ASSUME NEW x \in W \cup I, x # o PROVE FALSE
    OBVIOUS
  <2>1. {x, o} \subseteq W \cup I
    BY <1>4
  <2>2. Cardinality({x, o}) = 2
    <3>1. IsFiniteSet({o}) /\ Cardinality({o}) = 1
      BY FS_Singleton
    <3>2. Cardinality({o} \cup {x}) = Cardinality({o}) + 1
      BY <3>1, FS_AddElement
    <3>3. {o} \cup {x} = {x, o}
      OBVIOUS
    <3> QED
      BY <3>1, <3>2, <3>3
  <2>3. Cardinality({x, o}) <= Cardinality(W \cup I) /\ Cardinality(W \cup I) \in Nat
    BY <1>5, <2>1, FS_Subset, FS_CardinalityType
  <2> QED
    BY <1>3, <1>4, <2>2, <2>3
<1>7. ASSUME NEW t \in Turns, Busy(t)' PROVE FALSE
  <2>1. t = o
    BY <1>6, <1>7 DEF I
  <2>2. t \in Edits
    BY <2>1, Constants
  <2> QED
    BY <1>1, <1>7, <2>1, <2>2 DEF Stages, Busy, AtWork
<1> QED
  BY <1>6, <1>7 DEF W

(* An action of a request changes nothing of the others.                     *)
LEMMA ActsAlone ==
  ASSUME Typed, NEW o \in Ops, Acts(o)
  PROVE  OnlyOf(o) /\ op[o].pc # "done" /\ op'[o].pc # "off" /\ (op[o].pc = "off" => op'[o].pc \notin {"off", "done"})
         /\ (op[o].pc = "off" => exec.turn = None /\ UNCHANGED <<disk, tail, marks, mem, exec, stage, covers, dropped>>)
<1>0. Edits \subseteq Ops /\ Rollbacks \subseteq Ops /\ Compacts \subseteq Ops
  BY Constants
<1>1. CASE o \in Edits /\ EditActs(o)
  <2>1. {"note", "supersede", "restore", "turn", "item"} \subseteq EditPcs
    BY DEF EditPcs
  <2>2. ASSUME NEW from \in EditPcs, NEW to \in EditPcs, NEW line \in Lines, Log!Step(o, from, line, to)
        PROVE  OnlyOf(o) /\ op[o].pc \notin {"off", "done"} /\ op'[o].pc # "off"
    <3>1. OnlyOf(o) /\ op[o].pc = from /\ op'[o].pc \in {to, "done"}
      BY <1>1, <2>2, StepDoes
    <3> QED
      BY <3>1 DEF EditPcs
  <2>3. Log!Supersede(o) => op[o].pc = "supersede"
    BY <1>1, Stepping DEF Log!Step, Log!At
  <2>4. CASE Log!EditNote(o) \/ Log!Supersede(o) \/ Log!EditRestore(o) \/ Log!EditTurnLine(o)
    BY <1>1, <2>1, <2>2, <2>3, <2>4, Stepping
  <2>5. CASE Log!EditExport(o) \/ Log!EditRewrite(o)
    BY <1>1, <2>5, EditExportDoes, EditRewriteDoes
  <2>6. CASE Log!EditItem(o) \/ Log!EditReplace(o)
    BY <1>1, <2>6, EditItemDoes, ReplaceDoes DEF Log!EditReplace
  <2> QED
    BY <1>1, <2>4, <2>5, <2>6 DEF EditActs
<1>2. CASE o \in Rollbacks /\ RollbackActs(o)
  BY <1>2, RollbackExportDoes, RollbackAppendDoes, ReplaceDoes DEF RollbackActs, Log!RollbackReplace
<1>3. CASE o \in Compacts /\ CompactActs(o)
  BY <1>3, CompactExportDoes, SummarizeDoes, CompactRewriteDoes, CompactItemDoes, CompactSnapshotDoes,
     ReplaceDoes DEF CompactActs, Log!CompactReplace
<1> QED
  BY <1>1, <1>2, <1>3 DEF Acts

LEMMA StepCases ==
  ASSUME Log!Next
  PROVE  TurnActs \/ (\E o \in Ops : Acts(o)) \/ Log!Crash
<1>1. Edits \subseteq Ops /\ Rollbacks \subseteq Ops /\ Compacts \subseteq Ops
  BY Constants
<1> QED
  BY <1>1, LogCases DEF TurnActs, Acts, EditActs, RollbackActs, CompactActs

(* A turn's step happens in a turn, and leaves the requests alone.           *)
LEMMA TurnActsIn ==
  ASSUME Typed, Stages, TurnActs
  PROVE  UNCHANGED <<op, covers, dropped>>
         /\ (\E t \in Turns : Busy(t) \/ Log!BeginTurn(t))
         /\ \A t \in Turns : Log!BeginTurn(t) => Busy(t)'
<1>1. ASSUME NEW t \in Turns, Log!BeginTurn(t) PROVE UNCHANGED <<op, covers, dropped>> /\ Busy(t)'
  <2>1. stage' = [stage EXCEPT ![t] = "begun"] /\ UNCHANGED <<op, covers, dropped>>
    BY <1>1 DEF Log!BeginTurn, Log!opVars
  <2> QED
    BY <2>1, OtherStages DEF Busy
<1>2. ASSUME NEW t \in Turns, Log!WriteStart(t) \/ Log!Execute(t) PROVE UNCHANGED <<op, covers, dropped>> /\ Busy(t)
  BY <1>2 DEF Log!WriteStart, Log!Execute, Log!opVars, Busy
<1>3. ASSUME Log!StartItem \/ Log!CompleteItem \/ Log!EndTurn PROVE UNCHANGED <<op, covers, dropped>> /\ Busy(exec.turn) /\ exec.turn \in Turns
  <2>1. UNCHANGED <<op, covers, dropped>>
    BY <1>3 DEF Log!StartItem, Log!CompleteItem, Log!EndTurn, Log!opVars
  <2>2. exec.turn # None
    BY <1>3 DEF Log!StartItem, Log!CompleteItem, Log!EndTurn, Log!Free, Stages
  <2>3. exec.turn \in Turns
    BY <2>2 DEF Typed, SessionTyped, Execs
  <2> QED
    BY <2>1, <2>3 DEF Stages, Busy
<1> QED
  BY <1>1, <1>2, <1>3 DEF TurnActs

(* Who is at work after a step and alone has taken it.                       *)
LEMMA Alone ==
  ASSUME Typed, Stages, Lone, Log!Next, ~raced', NEW o \in Ops, AtWork(o)'
  PROVE  Acts(o) /\ ~raced
         /\ (\A p \in Ops : p # o => ~AtWork(p) /\ ~AtWork(p)')
         /\ (\A t \in Turns : ~Busy(t)')
         /\ (op[o].pc # "off" => (\A t \in Turns : ~Busy(t)) /\ exec.turn = None /\ exec.open = {}
                                 /\ Log!ToSet(exec.items) = {})
<1>1. Lone' /\ ~raced
  BY LoneStep, LogCases
<1>2. (\A p \in Ops : AtWork(p)' => p = o) /\ \A t \in Turns : ~Busy(t)'
  BY <1>1 DEF Lone
<1>3. ~Log!Crash
  BY CrashDoes DEF AtWork
<1>4. ASSUME TurnActs PROVE FALSE
  <2>1. AtWork(o)
    BY <1>4, TurnActsIn DEF AtWork
  <2>2. \A t \in Turns : ~Busy(t)
    BY <1>1, <2>1 DEF Lone
  <2> QED
    BY <1>2, <1>4, <2>2, TurnActsIn
<1>5. ASSUME NEW p \in Ops, Acts(p) PROVE p = o
  <2> SUFFICES ASSUME p # o PROVE FALSE
    OBVIOUS
  <2>1. OnlyOf(p) /\ op[p].pc # "done" /\ (op[p].pc = "off" => op'[p].pc \notin {"off", "done"})
    BY <1>5, ActsAlone
  <2>2. AtWork(o)
    BY <2>1 DEF OnlyOf, AtWork
  <2>3. ~AtWork(p)
    BY <1>1, <2>2 DEF Lone
  <2>4. op[p].pc = "off"
    BY <2>1, <2>3 DEF AtWork
  <2> QED
    BY <1>2, <2>1, <2>4 DEF AtWork
<1>6. Acts(o)
  BY <1>3, <1>4, <1>5, StepCases
<1>7. \A p \in Ops : p # o => ~AtWork(p)
  BY <1>2, <1>6, ActsAlone DEF OnlyOf, AtWork
<1>8. op[o].pc # "off" => (\A t \in Turns : ~Busy(t)) /\ exec.turn = None
  <2> SUFFICES ASSUME op[o].pc # "off" PROVE (\A t \in Turns : ~Busy(t)) /\ exec.turn = None
    OBVIOUS
  <2>1. AtWork(o)
    BY <1>6, ActsAlone DEF AtWork
  <2>2. \A t \in Turns : ~Busy(t)
    BY <1>1, <2>1 DEF Lone
  <2>3. exec.turn \in Turns \cup {None}
    BY DEF Typed, SessionTyped, Execs
  <2> QED
    BY <2>2, <2>3 DEF Stages, Busy
<1> QED
  BY <1>1, <1>2, <1>6, <1>7, <1>8 DEF Stages

-----------------------------------------------------------------------------
(* What an edit or a rollback removed stays away.                            *)

(* What a step writes to the file, if it writes: nothing that was settled.   *)
LEMMA FileStep ==
  ASSUME Typed, Stages, Places, Log!Next
  PROVE  \/ UNCHANGED <<disk, tail, marks>>
         \/ \E l \in Lines : Log!AppendTried(l) /\ \A i \in LineItems(l) : ~Settled(i.id)
<1> DEFINE Same == UNCHANGED <<disk, tail, marks>>
           Fresh == \E l \in Lines : Log!AppendTried(l) /\ \A i \in LineItems(l) : ~Settled(i.id)
<1>0. /\ Edits \subseteq Ops /\ Rollbacks \subseteq Ops /\ Compacts \subseteq Ops /\ None \notin Turns
      /\ Edits \cap (Rollbacks \cup Compacts) = {} /\ Rollbacks \cap Compacts = {} /\ Edits \subseteq Turns
      /\ Compacts \cap Turns = {} /\ Starts \cap Ops = {}
      /\ \A t \in Turns : t \notin Log!Silent => t \in Starts
  BY Constants DEF Log!Silent, Turns, Log!Turns
<1>1. ASSUME NEW l \in Lines, Log!AppendTried(l), LineItems(l) = {} PROVE Fresh
  BY <1>1
<1>2. ASSUME NEW i \in DiskItems, Log!AppendTried(Log!ItemLine(i)), ~Settled(i.id) PROVE Fresh
  BY <1>2, ItemLineIs
<1>3. /\ \A l : l.kind # "item" => LineItems(l) = {}
      /\ \A t : Log!TurnLine(t).kind # "item"
      /\ \A t \in Turns : Log!TurnLine(t) \in Lines
      /\ Log!NoteLine.kind # "item"
  BY DEF LineItems, Log!TurnLine, Lines, TurnLines, Log!NoteLine
<1> HIDE DEF Same, Fresh
<1>10. ASSUME NEW t \in Turns, Log!BeginTurn(t) PROVE Same
  BY <1>10 DEF Log!BeginTurn, Log!fileVars, Same
<1>11. ASSUME NEW t \in Turns, Log!WriteStart(t) PROVE Fresh
  <2>1. Log!AppendTried(Log!TurnLine(t))
    BY <1>11 DEF Log!WriteStart, Log!AppendTried
  <2> QED
    BY <1>1, <1>3, <2>1
<1>12. ASSUME NEW t \in Turns, Log!Execute(t) PROVE Same \/ Fresh
  <2>1. CASE t \in Log!Silent
    BY <1>12, <2>1, ExecuteDoes DEF Same
  <2>2. CASE t \notin Log!Silent
    <3>1. Log!AppendTried(Log!ItemLine(Message(t))) /\ Message(t) \in DiskItems /\ stage[t] = "spawned" /\ t \in Starts
      BY <1>0, <1>12, <2>2, ExecuteDoes
    <3>2. Message(t).id = <<t, 0>>
      BY DEF Message
    <3>3. ~Settled(Message(t).id)
      BY <1>0, <3>1, <3>2 DEF Settled
    <3> QED
      BY <1>2, <3>1, <3>3
  <2> QED
    BY <2>1, <2>2
<1>13. ASSUME Log!StartItem PROVE Same
  BY <1>13 DEF Log!StartItem, Log!fileVars, Same
<1>14. ASSUME Log!CompleteItem PROVE Fresh
  <2>1. PICK i \in exec.open : i \in DiskItems /\ Log!AppendTried(Log!ItemLine(i))
    BY <1>14, CompleteItemDoes
  <2>2. i.id[1] = exec.turn /\ i.id[2] > 0 /\ exec.turn # None
    BY <2>1 DEF Stages
  <2>3. exec.turn \in Turns
    BY <2>2 DEF Typed, SessionTyped, Execs
  <2>4. stage[exec.turn] = "running"
    BY <2>3 DEF Stages
  <2>5. ~Settled(i.id)
    BY <2>2, <2>3, <2>4 DEF Settled
  <2> QED
    BY <1>2, <2>1, <2>5
<1>15. ASSUME Log!EndTurn PROVE Fresh
  <2>1. Log!AppendTried(Log!TurnLine(exec.turn))
    BY <1>15 DEF Log!EndTurn
  <2>2. exec.turn \in Turns
    BY <1>15, EndTurnDoes
  <2> QED
    BY <1>1, <1>3, <2>1, <2>2
<1>20. ASSUME NEW e \in Edits, Log!EditExport(e) \/ Log!EditRewrite(e) PROVE Same
  BY <1>20, EditExportDoes, EditRewriteDoes DEF Same
<1>21. ASSUME NEW e \in Edits, Log!EditNote(e) \/ Log!Supersede(e) \/ Log!EditRestore(e) \/ Log!EditTurnLine(e)
       PROVE  Fresh
  <2>1. e \in Ops /\ {"note", "supersede", "restore", "turn", "item"} \subseteq EditPcs
    BY Constants DEF EditPcs
  <2>2. ASSUME NEW from \in EditPcs, NEW to \in EditPcs, NEW line \in Lines,
               Log!Step(e, from, line, to), line.kind # "item"
        PROVE  Fresh
    <3>1. Log!AppendTried(line)
      BY <2>1, <2>2, StepDoes
    <3> QED
      BY <1>1, <1>3, <2>2, <3>1
  <2>3. Log!Supersede(e) => op[e].pc = "supersede"
    BY Stepping DEF Log!Step, Log!At
  <2> QED
    BY <1>3, <1>21, <2>1, <2>2, <2>3, Stepping
<1>22. ASSUME NEW e \in Edits, Log!EditItem(e) PROVE Fresh
  <2>1. /\ op[e].pc = "item"
        /\ \E n : Replacement(e, n) \in DiskItems /\ Log!AppendTried(Log!ItemLine(Replacement(e, n)))
    BY <1>22, EditItemDoes
  <2>2. PICK n : Replacement(e, n) \in DiskItems /\ Log!AppendTried(Log!ItemLine(Replacement(e, n)))
    BY <2>1
  <2>3. Replacement(e, n).id = <<e, 0>>
    BY DEF Replacement
  <2>4. stage[e] = "new"
    BY <2>1 DEF Stages
  <2>5. ~Settled(Replacement(e, n).id)
    BY <1>0, <2>1, <2>3, <2>4 DEF Settled
  <2> QED
    BY <1>2, <2>2, <2>5
<1>23. ASSUME NEW o \in Ops, Log!Replace(o) PROVE Same
  BY <1>23, ReplaceDoes DEF Same
<1>24. ASSUME NEW r \in Rollbacks, Log!RollbackExport(r) PROVE Same
  BY <1>24, RollbackExportDoes DEF Same
<1>25. ASSUME NEW r \in Rollbacks, Log!RollbackAppend(r) PROVE Fresh
  <2> DEFINE line == CutLine(op[r].next.items, op[r].next.latest)
  <2>1. line \in CutLines /\ Log!AppendTried(line)
    BY <1>25, RollbackAppendDoes
  <2> HIDE DEF line
  <2>2. line \in Lines /\ line.kind # "item"
    BY <2>1 DEF CutLines, Lines
  <2> QED
    BY <1>1, <1>3, <2>1, <2>2
<1>26. ASSUME NEW c \in Compacts, Log!CompactExport(c) \/ Log!Summarize(c) \/ Log!CompactRewrite(c) PROVE Same
  BY <1>26, CompactExportDoes, SummarizeDoes, CompactRewriteDoes DEF Same
<1>27. ASSUME NEW c \in Compacts, Log!CompactItem(c) PROVE Fresh
  <2>1. /\ op[c].line.item \in DiskItems /\ op[c].line = Log!ItemLine(op[c].line.item)
        /\ Log!AppendTried(op[c].line) /\ op[c].pc = "item"
    BY <1>27, CompactItemDoes
  <2>2. op[c].line.item.id = <<c, 0>>
    BY <1>0, <2>1 DEF Places, Copied
  <2>3. ~Settled(op[c].line.item.id)
    BY <1>0, <2>1, <2>2 DEF Settled
  <2>4. Log!AppendTried(Log!ItemLine(op[c].line.item))
    BY <2>1
  <2> QED
    BY <1>2, <2>1, <2>3, <2>4
<1>28. ASSUME NEW c \in Compacts, Log!CompactSnapshot(c) PROVE Fresh
  <2> DEFINE line == [kind |-> "snapshot", snap |-> op[c].snap]
  <2>1. line \in Lines /\ Log!AppendTried(line) /\ line.kind # "item"
    BY <1>28, CompactSnapshotDoes
  <2> HIDE DEF line
  <2> QED
    BY <1>1, <1>3, <2>1
<1>30. ASSUME Log!Crash PROVE Same
  BY <1>30, CrashDoes DEF Same
<1> QED
  BY <1>0, LogCases, <1>10, <1>11, <1>12, <1>13, <1>14, <1>15, <1>20, <1>21, <1>22, <1>23, <1>24, <1>25, <1>26,
     <1>27, <1>28, <1>30 DEF Log!EditReplace, Log!RollbackReplace, Log!CompactReplace, Same, Fresh

LEMMA DroppedStep ==
  ASSUME Typed, Stages, Log!Next
  PROVE  dropped' = dropped \/ \E o \in Ops : Log!Replace(o) /\ Acts(o)
<1>0. Edits \subseteq Ops /\ Rollbacks \subseteq Ops /\ Compacts \subseteq Ops
  BY Constants
<1>1. ASSUME NEW o \in Ops, Acts(o) PROVE dropped' = dropped \/ Log!Replace(o)
  <2>1. CASE o \in Edits /\ EditActs(o)
    <3>1. {"note", "supersede", "restore", "turn", "item"} \subseteq EditPcs
      BY DEF EditPcs
    <3>2. CASE Log!EditNote(o) \/ Log!Supersede(o) \/ Log!EditRestore(o) \/ Log!EditTurnLine(o)
      BY <3>2 DEF Log!EditNote, Log!Supersede, Log!EditRestore, Log!EditTurnLine, Log!Step
    <3>3. CASE Log!EditExport(o) \/ Log!EditRewrite(o) \/ Log!EditItem(o)
      BY <2>1, <3>3, EditExportDoes, EditRewriteDoes, EditItemDoes
    <3> QED
      BY <2>1, <3>2, <3>3 DEF EditActs, Log!EditReplace
  <2>2. CASE o \in Rollbacks /\ RollbackActs(o)
    BY <2>2, RollbackExportDoes, RollbackAppendDoes DEF RollbackActs, Log!RollbackReplace
  <2>3. CASE o \in Compacts /\ CompactActs(o)
    BY <2>3, CompactExportDoes, SummarizeDoes, CompactRewriteDoes, CompactItemDoes, CompactSnapshotDoes
       DEF CompactActs, Log!CompactReplace
  <2> QED
    BY <1>1, <2>1, <2>2, <2>3 DEF Acts
<1> QED
  BY <1>1, StepCases, TurnActsIn, CrashDoes

LEMMA UnswallowedBefore ==
  ASSUME Typed, Stages, Places, Log!Next, Unswallowed'
  PROVE  Unswallowed
<1>1. marks \subseteq marks'
  BY FileStep, Appends DEF Typed
<1> QED
  BY <1>1, LogCases DEF Unswallowed

(* An append that succeeds and swallows nothing is what a replay adds.       *)
LEMMA AppendedClean ==
  ASSUME NEW l, Log!AppendOk(l), "swallowed" \notin marks'
  PROVE  tail = None /\ tail' = None /\ disk' = Log!Replayed(disk, l) /\ TailItems' = {}
BY DEF Log!AppendOk, TailItems

LEMMA OpCases ==
  ASSUME Typed, Log!Next, NEW o \in Ops, op'[o].pc \notin {"off", "done"}
  PROVE  op'[o] = op[o] \/ Acts(o)
<1>1. ~Log!Crash
  BY CrashDoes
<1>2. TurnActs => op' = op
  BY DEF TurnActs, Log!BeginTurn, Log!WriteStart, Log!Execute, Log!StartItem, Log!CompleteItem, Log!EndTurn, Log!opVars
<1>3. \A p \in Ops : Acts(p) => OnlyOf(p)
  BY ActsAlone
<1> QED
  BY <1>1, <1>2, <1>3, StepCases DEF OnlyOf

(* The steps of an edit, one after the other: each but the last two goes on  *)
(* when its append succeeded.                                                *)
LEMMA EditSteps ==
  ASSUME Typed, NEW e \in Edits, EditActs(e), op'[e].pc \notin {"off", "done"}
  PROVE  LET seq == IF exec.turn = None THEN mem.next ELSE exec.next IN
         \/ Log!EditExport(e)
         \/ /\ op[e].pc = "note" /\ op'[e].pc = "supersede" /\ Log!AppendOk(Log!NoteLine)
            /\ op'[e].target = op[e].target /\ UNCHANGED <<mem, exec, stage, covers, dropped>>
         \/ /\ op[e].pc = "supersede" /\ op'[e].pc = "restore" /\ op[e].target \in Turns
            /\ Log!AppendOk([kind |-> "superseded", turn |-> op[e].target])
            /\ op'[e].target = op[e].target /\ UNCHANGED <<mem, exec, stage, covers, dropped>>
         \/ /\ op[e].pc = "restore" /\ op'[e].pc = "turn" /\ Log!AppendOk(Log!NoteLine)
            /\ op'[e].target = op[e].target /\ UNCHANGED <<mem, exec, stage, covers, dropped>>
         \/ /\ op[e].pc = "turn" /\ op'[e].pc = "item" /\ Log!AppendOk(Log!TurnLine(e))
            /\ op'[e].target = op[e].target /\ UNCHANGED <<mem, exec, stage, covers, dropped>>
         \/ /\ Log!EditItem(e) /\ op[e].pc = "item" /\ op'[e].pc = "rewrite"
            /\ Log!AppendOk(Log!ItemLine(Replacement(e, seq))) /\ op'[e].target = op[e].target
         \/ Log!EditRewrite(e)
<1>1. e \in Ops /\ {"note", "supersede", "restore", "turn", "item"} \subseteq EditPcs
  BY Constants DEF EditPcs
<1>2. ASSUME NEW from \in EditPcs, NEW to \in EditPcs, NEW line \in Lines, Log!Step(e, from, line, to)
      PROVE  /\ op[e].pc = from /\ op'[e].pc = to /\ Log!AppendOk(line) /\ op'[e].target = op[e].target
             /\ UNCHANGED <<mem, exec, stage, covers, dropped>>
  BY <1>1, <1>2, StepDoes
<1>3. Log!Supersede(e) => op[e].pc = "supersede"
  BY Stepping DEF Log!Step, Log!At
<1>4. ASSUME Log!EditNote(e)
      PROVE  /\ op[e].pc = "note" /\ op'[e].pc = "supersede" /\ Log!AppendOk(Log!NoteLine)
             /\ op'[e].target = op[e].target /\ UNCHANGED <<mem, exec, stage, covers, dropped>>
  BY <1>1, <1>2, <1>4, Stepping
<1>5. ASSUME Log!Supersede(e)
      PROVE  /\ op[e].pc = "supersede" /\ op'[e].pc = "restore" /\ op[e].target \in Turns
             /\ Log!AppendOk([kind |-> "superseded", turn |-> op[e].target])
             /\ op'[e].target = op[e].target /\ UNCHANGED <<mem, exec, stage, covers, dropped>>
  BY <1>1, <1>2, <1>3, <1>5, Stepping DEF EditPcs
<1>6. ASSUME Log!EditRestore(e)
      PROVE  /\ op[e].pc = "restore" /\ op'[e].pc = "turn" /\ Log!AppendOk(Log!NoteLine)
             /\ op'[e].target = op[e].target /\ UNCHANGED <<mem, exec, stage, covers, dropped>>
  BY <1>1, <1>2, <1>6, Stepping
<1>7. ASSUME Log!EditTurnLine(e)
      PROVE  /\ op[e].pc = "turn" /\ op'[e].pc = "item" /\ Log!AppendOk(Log!TurnLine(e))
             /\ op'[e].target = op[e].target /\ UNCHANGED <<mem, exec, stage, covers, dropped>>
  BY <1>1, <1>2, <1>7, Stepping
<1>8. ASSUME Log!EditItem(e)
      PROVE  LET seq == IF exec.turn = None THEN mem.next ELSE exec.next IN
             /\ op[e].pc = "item" /\ op'[e].pc = "rewrite" /\ op'[e].target = op[e].target
             /\ Log!AppendOk(Log!ItemLine(Replacement(e, seq)))
  <2> DEFINE seq == IF exec.turn = None THEN mem.next ELSE exec.next
             line == Log!ItemLine(Replacement(e, seq))
  <2>1. (Log!AppendOk(line) /\ Log!Go(e, "rewrite")) \/ Log!Done(e)
    BY <1>8 DEF Log!EditItem, Log!Free, Replacement
  <2>2. OpsTyped
    BY DEF Typed
  <2>3. ~Log!Done(e)
    BY <1>1, <2>2, DoneIs
  <2>4. op[e].pc = "item" /\ op'[e].pc = "rewrite" /\ op'[e].target = op[e].target
    BY <1>8, EditItemDoes
  <2> QED
    BY <2>1, <2>3, <2>4
<1>9. ~Log!EditReplace(e)
  BY <1>1, ReplaceDoes DEF Log!EditReplace
<1> QED
  BY <1>4, <1>5, <1>6, <1>7, <1>8, <1>9 DEF EditActs

LEMMA ClearedStep ==
  ASSUME Typed, Stages, Places, SameTurn, Lone, Cleared, Log!Next
  PROVE  Cleared'
<1>0. /\ Edits \subseteq Ops /\ Rollbacks \subseteq Ops /\ Edits \subseteq Turns
      /\ Edits \cap (Rollbacks \cup Compacts) = {} /\ Rollbacks \cap Compacts = {}
      /\ (\A pc \in EditPcs : pc \notin {"off", "done", "replace", "append"})
      /\ {"note", "supersede", "restore", "turn", "item", "rewrite"} = EditPcs
  BY Constants DEF EditPcs
<1>1. TargetDiffers'
  <2> SUFFICES ASSUME NEW e \in Edits, op'[e].pc \in EditPcs PROVE op'[e].target # e
    BY DEF TargetDiffers
  <2>1. op'[e] = op[e] \/ EditActs(e)
    BY <1>0, OpCases DEF Acts
  <2>2. CASE op'[e] = op[e]
    BY <2>2 DEF Cleared, TargetDiffers
  <2>3. CASE Log!EditExport(e)
    <3>1. PICK x \in Log!ToSet(mem.items) : Log!IsMessage(x) /\ x.turn = op'[e].target
      BY <2>3, EditExportDoes
    <3>2. op[e].pc = "off"
      BY <2>3, EditExportDoes
    <3>3. x.id[1] \in Turns /\ x.turn = x.id[1]
      BY <3>1 DEF SameTurn, About, Own, Log!IsMessage, Turns
    <3>4. Settled(x.id)
      BY <3>1 DEF Places, Held
    <3>5. stage[e] = "new"
      BY <3>2 DEF Stages
    <3> QED
      BY <1>0, <3>1, <3>2, <3>3, <3>4, <3>5 DEF Settled
  <2>4. CASE EditActs(e) /\ ~Log!EditExport(e)
    <3>1. (op'[e].target = op[e].target /\ op[e].pc \in EditPcs) \/ Log!EditRewrite(e)
      BY <1>0, <2>4, EditSteps
    <3>2. ~Log!EditRewrite(e)
      BY <1>0, EditRewriteDoes
    <3> QED
      BY <3>1, <3>2 DEF Cleared, TargetDiffers
  <2> QED
    BY <2>1, <2>2, <2>3, <2>4
<1>2. ASSUME NEW r \in Rollbacks PROVE CutOf(r)'
  <2> SUFFICES ASSUME op'[r].pc = "append"
               PROVE  op'[r].cut \cap {x.id : x \in Log!ToSet(op'[r].next.items)} = {}
    BY DEF CutOf
  <2>1. op'[r] = op[r] \/ RollbackActs(r)
    BY <1>0, OpCases DEF Acts
  <2>2. CASE op'[r] = op[r]
    BY <2>2 DEF Cleared, CutOf
  <2>3. CASE RollbackActs(r)
    <3>1. Log!RollbackExport(r)
      BY <1>0, <2>3, RollbackAppendDoes, ReplaceDoes DEF RollbackActs, Log!RollbackReplace
    <3> QED
      BY <3>1, RollbackExportDoes
  <2> QED
    BY <2>1, <2>2, <2>3
<1>3. ASSUME Unswallowed', NEW e \in Edits PROVE ClearedEdit(e)' /\ ClearedCut(e)'
  <2>0. CASE ~AtWork(e)'
    BY <2>0 DEF ClearedEdit, ClearedCut, AtWork
  <2> SUFFICES ASSUME AtWork(e)' PROVE ClearedEdit(e)' /\ ClearedCut(e)'
    BY <2>0
  <2>1. Unswallowed /\ "swallowed" \notin marks' /\ ~raced'
    BY <1>3, UnswallowedBefore DEF Unswallowed
  <2>2. EditActs(e)
    BY <1>0, <2>1, Alone DEF Acts
  <2>3. ClearedEdit(e) /\ TargetDiffers
    BY <2>1 DEF Cleared
  <2>4. disk \in Disks
    BY DEF Typed, FileTyped
  <2>5. CASE Log!EditExport(e)
    <3>1. op'[e].pc = "note"
      BY <2>5, EditExportDoes
    <3> QED
      BY <3>1 DEF ClearedEdit, ClearedCut
  <2>6. CASE op[e].pc = "note" /\ op'[e].pc = "supersede" /\ Log!AppendOk(Log!NoteLine)
    BY <2>1, <2>6, AppendedClean DEF ClearedEdit, ClearedCut
  <2>7. CASE /\ op[e].pc = "supersede" /\ op'[e].pc = "restore" /\ op[e].target \in Turns
             /\ Log!AppendOk([kind |-> "superseded", turn |-> op[e].target])
             /\ op'[e].target = op[e].target
    <3>1. tail' = None /\ disk' = Log!Replayed(disk, [kind |-> "superseded", turn |-> op[e].target])
      BY <2>1, <2>7, AppendedClean
    <3>2. Items' = {x \in Items : x.turn # op[e].target}
      <4> DEFINE t == op[e].target
                 d == disk'
      <4>1. t \in Turns /\ d = Log!Replayed(disk, [kind |-> "superseded", turn |-> t])
        BY <2>7, <3>1
      <4> HIDE DEF t, d
      <4>2. Log!ToSet(d.items) = {x \in Log!ToSet(disk.items) : x.turn # t}
        BY <2>4, <4>1, ReplaySuperseded
      <4> QED
        BY <4>2 DEF Items, t, d
    <3> QED
      BY <2>7, <3>1, <3>2 DEF ClearedEdit, ClearedCut
  <2>8. CASE /\ op[e].pc = "restore" /\ op'[e].pc = "turn" /\ Log!AppendOk(Log!NoteLine)
             /\ op'[e].target = op[e].target
    <3>1. tail' = None /\ disk' = disk
      BY <2>1, <2>8, AppendedClean, ReplayNote
    <3> QED
      BY <2>3, <2>8, <3>1 DEF ClearedEdit, ClearedCut, Items
  <2>9. CASE /\ op[e].pc = "turn" /\ op'[e].pc = "item" /\ Log!AppendOk(Log!TurnLine(e))
             /\ op'[e].target = op[e].target
    <3>1. tail' = None /\ disk' = Log!Replayed(disk, Log!TurnLine(e))
      BY <2>1, <2>9, AppendedClean
    <3>2. Items' = Items
      BY <1>0, <2>4, <3>1, ReplayTurn DEF Items
    <3> QED
      BY <2>3, <2>9, <3>1, <3>2 DEF ClearedEdit, ClearedCut
  <2>10. ASSUME NEW n, Replacement(e, n) \in DiskItems, op[e].pc = "item", op'[e].pc = "rewrite",
                Log!AppendOk(Log!ItemLine(Replacement(e, n))), op'[e].target = op[e].target
         PROVE  ClearedEdit(e)' /\ ClearedCut(e)'
    <3>1. tail' = None /\ disk' = Log!Replayed(disk, Log!ItemLine(Replacement(e, n)))
      BY <2>1, <2>10, AppendedClean
    <3>2. Items' = Items \/ Items' = Items \cup {Replacement(e, n)}
      BY <2>4, <2>10, <3>1, ReplayItem DEF Items
    <3>3. Replacement(e, n).turn # op[e].target
      BY <1>0, <2>3, <2>10 DEF TargetDiffers, Replacement
    <3> QED
      BY <2>3, <2>10, <3>1, <3>2, <3>3 DEF ClearedEdit, ClearedCut
  <2>11. CASE Log!EditRewrite(e)
    <3>1. /\ op[e].pc = "rewrite" /\ op'[e].pc = "replace" /\ UNCHANGED <<disk, tail>>
          /\ op'[e].cut = {x.id : x \in {y \in Log!ToSet(mem.items) : y.turn = op[e].target}}
      BY <2>11, EditRewriteDoes
    <3>2. ASSUME NEW y \in Log!ToSet(mem.items), y.turn = op[e].target, NEW i \in Items, i.id = y.id PROVE FALSE
      <4>1. y \in About /\ Log!Remembered(i) \in About
        BY DEF About
      <4>2. Log!Remembered(i).id = y.id /\ Log!Remembered(i).turn = i.turn
        BY <3>2 DEF Log!Remembered
      <4>3. i.turn = y.turn
        BY <4>1, <4>2 DEF SameTurn
      <4> QED
        BY <2>3, <3>1, <3>2, <4>3 DEF ClearedEdit
    <3> QED
      BY <2>3, <3>1, <3>2 DEF ClearedEdit, ClearedCut, Items
  <2> DEFINE seq == IF exec.turn = None THEN mem.next ELSE exec.next
  <2>12. CASE Log!EditItem(e) /\ op[e].pc = "item" /\ op'[e].pc = "rewrite"
              /\ Log!AppendOk(Log!ItemLine(Replacement(e, seq))) /\ op'[e].target = op[e].target
    <3>1. Replacement(e, seq) \in DiskItems
      BY <2>12, EditItemDoes
    <3> HIDE DEF seq
    <3> QED
      BY <2>10, <2>12, <3>1
  <2>13. op'[e].pc \notin {"off", "done"}
    BY DEF AtWork
  <2> QED
    BY <2>2, <2>5, <2>6, <2>7, <2>8, <2>9, <2>11, <2>12, <2>13, EditSteps
<1>4. ASSUME Unswallowed', NEW r \in Rollbacks PROVE ClearedCut(r)'
  <2> SUFFICES ASSUME op'[r].pc = "replace" PROVE tail' = None /\ op'[r].cut \cap {i.id : i \in Items'} = {}
    BY DEF ClearedCut
  <2>1. Unswallowed /\ "swallowed" \notin marks' /\ ~raced'
    BY <1>4, UnswallowedBefore DEF Unswallowed
  <2>2. Log!RollbackAppend(r)
    BY <1>0, <2>1, Alone, ReplaceDoes, RollbackExportDoes DEF Acts, AtWork, RollbackActs, Log!RollbackReplace
  <2> DEFINE kept == op[r].next.items
             line == CutLine(kept, op[r].next.latest)
  <2>3. /\ line \in CutLines /\ Log!AppendOk(line) /\ op[r].pc = "append" /\ op'[r].cut = op[r].cut
        /\ op[r].next \in Mems
    BY <2>2, RollbackAppendDoes
  <2>4. line.ids = {x.id : x \in Log!ToSet(kept)}
    BY <2>3, CutLineIs DEF Mems
  <2>5. disk \in Disks
    BY DEF Typed, FileTyped
  <2> HIDE DEF line
  <2>6. tail' = None /\ disk' = Log!Replayed(disk, line)
    BY <2>1, <2>3, AppendedClean
  <2>7. \A i \in Items' : i.id \in line.ids
    BY <2>3, <2>5, <2>6, ReplayRollback DEF Items
  <2>8. op[r].cut \cap line.ids = {}
    BY <2>3, <2>4 DEF Cleared, CutOf
  <2> QED
    BY <2>3, <2>6, <2>7, <2>8
<1> QED
  BY <1>1, <1>2, <1>3, <1>4 DEF Cleared

LEMMA GoneStep ==
  ASSUME Typed, Stages, Places, SameTurn, Lone, Cleared, Gone, Log!Next
  PROVE  Gone'
<1> SUFFICES ASSUME Unswallowed' PROVE dropped' \cap {i.id : i \in (Items \cup TailItems)'} = {}
  BY DEF Gone
<1>1. Unswallowed /\ dropped \cap {i.id : i \in Items \cup TailItems} = {}
  BY UnswallowedBefore DEF Gone
<1>2. CASE dropped' = dropped
  <2>1. CASE UNCHANGED <<disk, tail, marks>>
    <3>1. (Items \cup TailItems)' = Items \cup TailItems
      BY <2>1 DEF Items, TailItems
    <3> QED
      BY <1>1, <1>2, <3>1
  <2>2. CASE \E l \in Lines : Log!AppendTried(l) /\ \A i \in LineItems(l) : ~Settled(i.id)
    <3>1. PICK l \in Lines : Log!AppendTried(l) /\ \A i \in LineItems(l) : ~Settled(i.id)
      BY <2>2
    <3>2. (Items \cup TailItems)' \subseteq Items \cup TailItems \cup LineItems(l)
      BY <3>1, Appends DEF Typed
    <3>3. \A id \in dropped : Settled(id)
      BY DEF Places, Held
    <3> QED
      BY <1>1, <1>2, <3>1, <3>2, <3>3
  <2> QED
    BY <2>1, <2>2, FileStep
<1>3. CASE \E o \in Ops : Log!Replace(o)
  <2>1. PICK o \in Ops : Log!Replace(o)
    BY <1>3
  <2>2. /\ op[o].pc = "replace" /\ dropped' = dropped \cup op[o].cut /\ UNCHANGED <<disk, tail>>
    BY <2>1, ReplaceDoes
  <2>3. (Items \cup TailItems)' = Items \cup TailItems
    BY <2>2 DEF Items, TailItems
  <2>4. CASE o \in Edits \cup Rollbacks
    <3>1. tail = None /\ op[o].cut \cap {i.id : i \in Items} = {}
      BY <1>1, <2>2, <2>4 DEF Cleared, ClearedCut
    <3>2. TailItems = {}
      BY <3>1 DEF TailItems
    <3> QED
      BY <1>1, <2>2, <2>3, <3>1, <3>2
  <2>5. CASE o \in Compacts
    <3>1. op[o].cut = {}
      BY <2>2, <2>5, OpKinds DEF Typed
    <3> QED
      BY <1>1, <2>2, <2>3, <3>1
  <2> QED
    BY <2>4, <2>5, Constants
<1> QED
  BY <1>2, <1>3, DroppedStep

LEMMA BlankTyped == Log!Blank \in Disks /\ Log!ToSet(Log!Blank.items) = {} /\ Log!ToSet(Log!Blank.order) = {}
  BY DEF Log!Blank, Disks, Log!ToSet

LEMMA LogInit ==
  ASSUME Log!Init
  PROVE  /\ Typed /\ Items = {} /\ TailItems = {} /\ Log!ToSet(mem.items) = {} /\ mem = Log!Loaded(Log!Blank)
         /\ disk = Log!Blank /\ tail = None /\ marks = {} /\ dropped = {} /\ raced = FALSE
         /\ exec.turn = None /\ Log!ToSet(exec.items) = {} /\ exec.open = {}
         /\ (\A t \in Turns : stage[t] = "new") /\ (\A o \in Ops : op[o].pc = "off")
<1>1. /\ disk = Log!Blank /\ tail = None /\ mem = Log!Loaded(Log!Blank) /\ exec = Log!NoTurn
      /\ stage = [t \in Turns |-> "new"] /\ op = [o \in Ops |-> [pc |-> "off"]]
      /\ covers = [c \in Compacts |-> [read |-> {}, unread |-> {}]]
      /\ dropped = {} /\ marks = {} /\ raced = FALSE /\ reused = FALSE
  BY DEF Log!Init, Turns, Ops
<1>2. mem \in Mems /\ Log!ToSet(mem.items) = {}
  BY <1>1, BlankTyped, LoadedIs
<1>3. exec \in Execs /\ exec.turn = None /\ Log!ToSet(exec.items) = {} /\ exec.open = {}
  BY <1>1 DEF Log!NoTurn, Execs, Log!ToSet
<1>4. OpsTyped
  <2>1. [pc |-> "off"] \in OffOrDone
    BY DEF OffOrDone
  <2>2. Edits \subseteq Ops /\ Rollbacks \subseteq Ops /\ Compacts \subseteq Ops
    BY Constants
  <2> QED
    BY <1>1, <2>1, <2>2 DEF OpsTyped, EditOps, RollbackOps, CompactOps
<1>5. HistoryTyped
  BY <1>1 DEF HistoryTyped
<1>6. SessionTyped
  BY <1>1, <1>2, <1>3 DEF SessionTyped
<1>7. FileTyped
  BY <1>1, BlankTyped DEF FileTyped
<1>8. Items = {} /\ TailItems = {}
  BY <1>1, BlankTyped DEF Items, TailItems
<1> QED
  BY <1>1, <1>2, <1>3, <1>4, <1>5, <1>6, <1>7, <1>8 DEF Typed

LEMMA GoneInit ==
  ASSUME Log!Init
  PROVE  GoneInv
<1>0. Typed /\ Edits \subseteq Ops /\ Rollbacks \subseteq Ops /\ Edits \subseteq Turns /\ None \notin Turns
  BY LogInit, Constants
<1>1. Stages
  BY <1>0, LogInit DEF Stages
<1>2. \A o \in Ops : ~HasNext(o) /\ OpItems(o) = {}
  BY LogInit DEF HasNext, OpItems
<1>3. Places
  BY <1>0, <1>2, LogInit DEF Places, Filed, Held, Copied
<1>4. SameTurn
  BY <1>2, LogInit DEF SameTurn, About
<1>5. Lone
  BY LogInit DEF Lone, AtWork
<1>6. Cleared
  <2>1. \A e \in Edits : ClearedEdit(e)
    BY <1>0, LogInit DEF ClearedEdit
  <2>2. \A o \in Edits \cup Rollbacks : ClearedCut(o)
    BY <1>0, LogInit DEF ClearedCut
  <2>3. TargetDiffers /\ \A r \in Rollbacks : CutOf(r)
    BY <1>0, LogInit DEF TargetDiffers, CutOf, EditPcs
  <2> QED
    BY <2>1, <2>2, <2>3 DEF Cleared
<1>7. Gone
  BY LogInit DEF Gone
<1> QED
  BY <1>0, <1>1, <1>3, <1>4, <1>5, <1>6, <1>7 DEF GoneInv

LEMMA GoneStays ==
  ASSUME GoneInv, UNCHANGED logVars
  PROVE  GoneInv'
<1> USE DEF GoneInv, logVars
<1>1. Typed'
  BY DEF Typed, FileTyped, SessionTyped, OpsTyped, HistoryTyped
<1>2. Stages'
  BY DEF Stages
<1>3. Items' = Items /\ TailItems' = TailItems
  BY DEF Items, TailItems
<1>4. Places'
  <2>1. \A id : Settled(id)' <=> Settled(id)
    BY DEF Settled
  <2>2. \A id : Written(id)' <=> Written(id)
    BY <2>1 DEF Written
  <2>3. \A o : HasNext(o)' <=> HasNext(o)
    BY DEF HasNext
  <2>4. Filed' /\ Held'
    BY <1>3, <2>1, <2>2 DEF Places, Filed, Held
  <2>5. \A o \in Ops : Copied(o)'
    BY <2>1, <2>3 DEF Places, Copied
  <2> QED
    BY <2>4, <2>5 DEF Places
<1>5. SameTurn'
  <2>1. About' = About
    BY <1>3 DEF About, OpItems, HasNext
  <2> QED
    BY <2>1 DEF SameTurn
<1>6. Lone'
  BY DEF Lone, AtWork, Busy
<1>7. Cleared'
  <2>1. Unswallowed' <=> Unswallowed
    BY DEF Unswallowed
  <2>2. TargetDiffers' /\ \A r \in Rollbacks : CutOf(r)'
    BY DEF Cleared, TargetDiffers, CutOf
  <2>3. Unswallowed => (\A e \in Edits : ClearedEdit(e)') /\ \A o \in Edits \cup Rollbacks : ClearedCut(o)'
    BY <1>3 DEF Cleared, ClearedEdit, ClearedCut
  <2> QED
    BY <2>1, <2>2, <2>3 DEF Cleared
<1>8. Gone'
  BY <1>3 DEF Gone, Unswallowed
<1> QED
  BY <1>1, <1>2, <1>4, <1>5, <1>6, <1>7, <1>8

LEMMA GoneNext ==
  ASSUME GoneInv, [MCNext]_allVars
  PROVE  GoneInv'
<1>1. CASE Log!Next
  BY <1>1, TypedStep, StagesStep, PlacesStep, SameTurnStep, LoneStep, ClearedStep, GoneStep DEF GoneInv
<1>2. CASE UNCHANGED logVars
  BY <1>2, GoneStays
<1> QED
  BY <1>1, <1>2 DEF MCNext, Rest, allVars

LEMMA ReplayIds ==
  ASSUME Typed
  PROVE  Log!Ids(Log!Replay) = {i.id : i \in Log!ToSet(Log!WholeFile.items)}
<1>1. Log!WholeFile \in Disks
  BY WholeFileIs DEF Typed
<1>2. Log!ToSet(Log!Replay) = {Log!Remembered(x) : x \in Log!ToSet(Log!WholeFile.items)}
  BY <1>1, LoadedIs DEF Log!Replay
<1>3. \A x : Log!Remembered(x).id = x.id
  BY DEF Log!Remembered
<1> QED
  BY <1>2, <1>3, IdsOf

(* No restart brings back what an edit or a rollback that answered removed,  *)
(* for any number of requests, turns, crashes and failing appends.           *)
THEOREM GoneForGood == MCSpec => []GoneStaysGone
<1>1. MCInit => GoneInv
  BY GoneInit DEF MCInit
<1>2. GoneInv /\ [MCNext]_allVars => GoneInv'
  BY GoneNext
<1>3. GoneInv => GoneStaysGone
  <2> SUFFICES ASSUME GoneInv, Unswallowed PROVE dropped \cap Log!Ids(Log!Replay) = {}
    BY DEF GoneStaysGone, Log!GoneStaysGone, Unswallowed
  <2>1. Log!ToSet(Log!WholeFile.items) \subseteq Items \cup TailItems
    BY WholeFileIs DEF GoneInv, Typed
  <2> QED
    BY <2>1, ReplayIds DEF GoneInv, Gone
<1> QED
  BY <1>1, <1>2, <1>3, PTL DEF MCSpec

-----------------------------------------------------------------------------
LEMMA WholeIs == Typed => (Log!Intact <=> Whole)
  BY DEF Log!Intact, Whole, Typed, FileTyped

LEMMA TailFailedStep ==
  ASSUME Typed, Stages, Places, TailFailed, Log!Next
  PROVE  TailFailed'
<1>1. CASE UNCHANGED <<disk, tail, marks>>
  BY <1>1 DEF TailFailed
<1>2. CASE \E l \in Lines : Log!AppendTried(l)
  BY <1>2, Appends DEF Typed, TailFailed
<1> QED
  BY <1>1, <1>2, FileStep

LEMMA WholeBefore ==
  ASSUME Typed, Stages, Places, TailFailed, Log!Next, Whole'
  PROVE  Whole /\ tail = None /\ ~raced' /\ marks' = {} /\ tail' = None
<1>1. marks \subseteq marks'
  BY FileStep, Appends DEF Typed
<1> QED
  BY <1>1, LogCases, TailFailedStep DEF Whole, TailFailed

(* In such a step every append succeeds, and a replay adds the line.         *)
LEMMA WholeAppend ==
  ASSUME NEW l, Log!AppendTried(l), tail = None, marks' = {}
  PROVE  disk' = Log!Replayed(disk, l) /\ Log!AppendOk(l)
BY DEF Log!AppendTried, Log!AppendOk, Log!AppendFails

LEMMA WholeFails ==
  ASSUME NEW l, Log!AppendFails(l), marks' = {}
  PROVE  FALSE
BY DEF Log!AppendFails

LEMMA ReplaceActs ==
  ASSUME Typed, NEW o \in Ops, Acts(o), op[o].pc = "replace"
  PROVE  /\ Log!Replace(o)
         /\ o \in Edits => stage' = [stage EXCEPT ![o] = "spawned"]
         /\ o \in Rollbacks \cup Compacts => UNCHANGED stage
<1>1. CASE o \in Edits /\ EditActs(o)
  <2>1. ~(Log!EditNote(o) \/ Log!Supersede(o) \/ Log!EditRestore(o) \/ Log!EditTurnLine(o))
    BY DEF Log!EditNote, Log!Supersede, Log!EditRestore, Log!EditTurnLine, Log!Step, Log!At
  <2>2. ~(Log!EditExport(o) \/ Log!EditRewrite(o) \/ Log!EditItem(o))
    BY DEF Log!EditExport, Log!EditRewrite, Log!EditItem, Log!At
  <2>3. o \notin Rollbacks \cup Compacts
    BY <1>1, Constants
  <2> QED
    BY <1>1, <2>1, <2>2, <2>3 DEF EditActs, Log!EditReplace
<1>2. CASE o \in Rollbacks /\ RollbackActs(o)
  <2>1. ~(Log!RollbackExport(o) \/ Log!RollbackAppend(o))
    BY DEF Log!RollbackExport, Log!RollbackAppend, Log!Step, Log!At
  <2>2. o \notin Edits
    BY <1>2, Constants
  <2> QED
    BY <1>2, <2>1, <2>2 DEF RollbackActs, Log!RollbackReplace
<1>3. CASE o \in Compacts /\ CompactActs(o)
  <2>1. ~(\/ Log!CompactExport(o) \/ Log!Summarize(o) \/ Log!CompactRewrite(o) \/ Log!CompactItem(o)
          \/ Log!CompactSnapshot(o))
    BY DEF Log!CompactExport, Log!Summarize, Log!CompactRewrite, Log!CompactItem, Log!CompactSnapshot, Log!At
  <2>2. o \notin Edits
    BY <1>3, Constants
  <2> QED
    BY <1>3, <2>1, <2>2 DEF CompactActs, Log!CompactReplace
<1> QED
  BY <1>1, <1>2, <1>3 DEF Acts

LEMMA OneTurnStep ==
  ASSUME Typed, Stages, Lone, NextActive, OneTurn, Log!Next
  PROVE  OneTurn'
<1> DEFINE Goal == /\ \A t \in Turns : Busy(t)' => mem'.active = t
                   /\ mem'.active # None => \E t \in Turns : t = mem'.active /\ Busy(t)'
<1> SUFFICES ASSUME ~raced' PROVE Goal
  BY DEF OneTurn
<1>0. /\ ~raced /\ (\A t \in Turns : Busy(t) => mem.active = t)
      /\ (mem.active # None => \E t \in Turns : t = mem.active /\ Busy(t))
  BY LogCases DEF OneTurn
<1>00. /\ None \notin Turns /\ Edits \subseteq Turns
       /\ Edits \subseteq Ops /\ Rollbacks \subseteq Ops /\ Compacts \subseteq Ops
  BY Constants
<1>2. (\A t \in Turns : Busy(t)' <=> Busy(t)) /\ mem'.active = mem.active => Goal
  BY <1>0, <1>00
<1>3. UNCHANGED stage /\ mem'.active = mem.active => Goal
  BY <1>2 DEF Busy
<1>10. ASSUME NEW t \in Turns, Log!BeginTurn(t) PROVE Goal
  <2>1. mem' = [mem EXCEPT !.active = t] /\ mem.active = None /\ stage' = [stage EXCEPT ![t] = "begun"]
    BY <1>10 DEF Log!BeginTurn
  <2>2. mem'.active = t
    BY <2>1 DEF Typed, SessionTyped, Mems
  <2>3. stage'[t] = "begun" /\ \A u \in Turns : u # t => stage'[u] = stage[u]
    BY <2>1, OtherStages
  <2> QED
    BY <1>0, <1>00, <2>1, <2>2, <2>3 DEF Busy
<1>11. ASSUME NEW t \in Turns, Log!WriteStart(t) PROVE Goal
  <2>0. stage[t] = "begun"
    BY <1>11 DEF Log!WriteStart
  <2>1. CASE stage' = [stage EXCEPT ![t] = "spawned"] /\ mem' = mem
    <3>1. stage'[t] = "spawned" /\ \A u \in Turns : u # t => stage'[u] = stage[u]
      BY <2>1, OtherStages
    <3> QED
      BY <1>2, <2>0, <2>1, <3>1 DEF Busy
  <2>2. CASE stage' = [stage EXCEPT ![t] = "over"]
             /\ mem' = IF mem.active = t THEN [mem EXCEPT !.active = None] ELSE mem
    <3>1. stage'[t] = "over" /\ \A u \in Turns : u # t => stage'[u] = stage[u]
      BY <2>2, OtherStages
    <3>2. mem.active = t
      BY <1>0, <2>0 DEF Busy
    <3>3. mem'.active = None
      BY <2>2, <3>2 DEF Typed, SessionTyped, Mems
    <3> QED
      BY <1>0, <3>1, <3>2, <3>3 DEF Busy
  <2> QED
    BY <1>11, <2>1, <2>2 DEF Log!WriteStart
<1>12. ASSUME NEW t \in Turns, Log!Execute(t) PROVE Goal
  <2>1. stage[t] = "spawned" /\ stage' = [stage EXCEPT ![t] = "running"] /\ mem' = mem
    BY <1>12, ExecuteDoes
  <2>2. stage'[t] = "running" /\ \A u \in Turns : u # t => stage'[u] = stage[u]
    BY <2>1, OtherStages
  <2> QED
    BY <1>2, <2>1, <2>2 DEF Busy
<1>13. ASSUME Log!StartItem \/ Log!CompleteItem PROVE Goal
  BY <1>3, <1>13 DEF Log!StartItem, Log!CompleteItem
<1>15. ASSUME Log!EndTurn PROVE Goal
  <2>1. mem'.active = None /\ exec.turn \in Turns
    BY <1>15, EndTurnDoes
  <2>2. stage' = [stage EXCEPT ![exec.turn] = "over"]
    BY <1>15 DEF Log!EndTurn
  <2>3. stage'[exec.turn] = "over" /\ \A u \in Turns : u # exec.turn => stage'[u] = stage[u]
    BY <2>1, <2>2, OtherStages
  <2>4. stage[exec.turn] = "running"
    BY <2>1 DEF Stages
  <2> QED
    BY <1>0, <2>1, <2>3, <2>4 DEF Busy
<1>20. ASSUME NEW o \in Ops, Acts(o), ~Log!Replace(o) PROVE UNCHANGED stage /\ mem'.active = mem.active
  <2>1. CASE o \in Edits /\ EditActs(o)
    <3>2. CASE Log!EditNote(o) \/ Log!Supersede(o) \/ Log!EditRestore(o) \/ Log!EditTurnLine(o)
      BY <3>2 DEF Log!EditNote, Log!Supersede, Log!EditRestore, Log!EditTurnLine, Log!Step
    <3>3. CASE Log!EditExport(o) \/ Log!EditRewrite(o) \/ Log!EditItem(o)
      BY <2>1, <3>3, EditExportDoes, EditRewriteDoes, EditItemDoes
    <3> QED
      BY <1>20, <2>1, <3>2, <3>3 DEF EditActs, Log!EditReplace
  <2>2. CASE o \in Rollbacks /\ RollbackActs(o)
    BY <1>20, <2>2, RollbackExportDoes, RollbackAppendDoes DEF RollbackActs, Log!RollbackReplace
  <2>3. CASE o \in Compacts /\ CompactActs(o)
    BY <1>20, <2>3, CompactExportDoes, SummarizeDoes, CompactRewriteDoes, CompactItemDoes, CompactSnapshotDoes
       DEF CompactActs, Log!CompactReplace
  <2> QED
    BY <1>20, <2>1, <2>2, <2>3 DEF Acts
<1>21. ASSUME NEW o \in Ops, Acts(o), Log!Replace(o) PROVE Goal
  <2>1. op[o].pc = "replace" /\ op'[o].pc = "done" /\ mem' = op[o].next
    BY <1>21, ReplaceDoes
  <2>2. \A t \in Turns : ~Busy(t)
    BY <1>0, <2>1 DEF Lone, AtWork
  <2>3. CASE o \in Edits
    <3>2. stage' = [stage EXCEPT ![o] = "spawned"]
      BY <1>21, <2>1, <2>3, ReplaceActs
    <3>3. stage'[o] = "spawned" /\ \A u \in Turns : u # o => stage'[u] = stage[u]
      BY <1>00, <2>3, <3>2, OtherStages
    <3>4. mem'.active = o
      BY <2>1, <2>3 DEF NextActive
    <3> QED
      BY <1>00, <2>2, <2>3, <3>3, <3>4 DEF Busy
  <2>4. CASE o \in Rollbacks \cup Compacts
    <3>1. mem'.active = None
      BY <1>0, <2>1, <2>4 DEF NextActive, HasNext
    <3>2. UNCHANGED stage
      BY <1>21, <2>1, <2>4, ReplaceActs
    <3> QED
      BY <2>2, <3>1, <3>2 DEF Busy
  <2> QED
    BY <2>3, <2>4, Constants
<1>22. ASSUME Log!Crash PROVE Goal
  <2>1. /\ mem' = Log!Loaded(Log!WholeFile) /\ \A t \in Turns : stage'[t] = IF stage[t] = "new" THEN "new" ELSE "over"
    BY <1>22, CrashDoes
  <2>2. mem'.active = None
    BY <2>1, WholeFileIs, LoadedIs DEF Typed
  <2> QED
    BY <2>1, <2>2 DEF Busy
<1> HIDE DEF Goal
<1> QED
  BY StepCases, <1>3, <1>10, <1>11, <1>12, <1>13, <1>15, <1>20, <1>21, <1>22 DEF TurnActs

LEMMA NextActiveStep ==
  ASSUME Typed, Stages, Lone, NextActive, OneTurn, Log!Next
  PROVE  NextActive'
<1>0. /\ Edits \subseteq Ops /\ Rollbacks \subseteq Ops /\ Compacts \subseteq Ops
      /\ Edits \cap (Rollbacks \cup Compacts) = {} /\ Rollbacks \cap Compacts = {}
  BY Constants
<1>1. ASSUME NEW e \in Edits, op'[e].pc = "replace" PROVE op'[e].next.active = e
  <2>1. op'[e] = op[e] \/ EditActs(e)
    BY <1>0, <1>1, OpCases DEF Acts
  <2>2. CASE op'[e] = op[e]
    BY <1>1, <2>2 DEF NextActive
  <2>3. CASE EditActs(e)
    <3>1. Log!EditRewrite(e)
      BY <1>1, <2>3, EditSteps, EditExportDoes
    <3> QED
      BY <3>1, EditRewriteDoes
  <2> QED
    BY <2>1, <2>2, <2>3
<1>2. ASSUME NEW r \in Rollbacks, HasNext(r)' PROVE op'[r].next.active = None
  <2>0. op'[r].pc \notin {"off", "done"}
    BY <1>0, <1>2 DEF HasNext
  <2>1. op'[r] = op[r] \/ RollbackActs(r)
    BY <1>0, <2>0, OpCases DEF Acts
  <2>2. CASE op'[r] = op[r]
    BY <1>2, <2>2 DEF NextActive, HasNext
  <2>3. CASE Log!RollbackExport(r)
    BY <2>3, RollbackExportDoes
  <2>4. CASE Log!RollbackAppend(r)
    BY <1>0, <2>0, <2>4, RollbackAppendDoes DEF NextActive, HasNext
  <2>5. ~Log!RollbackReplace(r)
    BY <1>0, <2>0, ReplaceDoes DEF Log!RollbackReplace
  <2> QED
    BY <2>1, <2>2, <2>3, <2>4, <2>5 DEF RollbackActs
<1>3. ASSUME ~raced', NEW c \in Compacts, HasNext(c)' PROVE op'[c].next.active = None
  <2>0. op'[c].pc \notin {"off", "done"} /\ ~raced
    BY <1>0, <1>3, LogCases DEF HasNext
  <2>1. CompactActs(c) /\ \A t \in Turns : ~Busy(t)'
    BY <1>0, <1>3, <2>0, Alone DEF Acts, AtWork
  <2>2. ~(Log!CompactExport(c) \/ Log!Summarize(c) \/ Log!CompactReplace(c))
    BY <1>0, <1>3, CompactExportDoes, SummarizeDoes, ReplaceDoes DEF Log!CompactReplace, HasNext
  <2>3. CASE Log!CompactRewrite(c)
    <3>1. UNCHANGED stage /\ op[c].pc = "export"
      BY <2>3, CompactRewriteDoes
    <3>2. mem.active = None
      <4>1. mem.active \in Turns \cup {None}
        BY DEF Typed, SessionTyped, Mems
      <4> QED
        BY <2>0, <2>1, <3>1, <4>1 DEF OneTurn, Busy
    <3> QED
      BY <2>3, <3>2, CompactRewriteDoes
  <2>4. CASE Log!CompactItem(c) \/ Log!CompactSnapshot(c)
    BY <1>0, <2>0, <2>4, CompactItemDoes, CompactSnapshotDoes DEF NextActive, HasNext
  <2> QED
    BY <2>1, <2>2, <2>3, <2>4 DEF CompactActs
<1> QED
  BY <1>1, <1>2, <1>3 DEF NextActive

(* No stage changes but by a turn, a crash or the end of an edit.            *)
LEMMA ActsStage ==
  ASSUME Typed, NEW o \in Ops, Acts(o), ~Log!Replace(o)
  PROVE  UNCHANGED stage /\ mem'.items = mem.items /\ mem'.latest = mem.latest /\ mem'.active = mem.active
         /\ exec'.turn = exec.turn /\ exec'.items = exec.items /\ exec'.open = exec.open
<1>1. CASE o \in Edits /\ EditActs(o)
  <2>2. CASE Log!EditNote(o) \/ Log!Supersede(o) \/ Log!EditRestore(o) \/ Log!EditTurnLine(o)
    BY <2>2 DEF Log!EditNote, Log!Supersede, Log!EditRestore, Log!EditTurnLine, Log!Step
  <2>3. CASE Log!EditExport(o) \/ Log!EditRewrite(o) \/ Log!EditItem(o)
    BY <1>1, <2>3, EditExportDoes, EditRewriteDoes, EditItemDoes
  <2> QED
    BY <1>1, <2>2, <2>3 DEF EditActs, Log!EditReplace
<1>2. CASE o \in Rollbacks /\ RollbackActs(o)
  BY <1>2, RollbackExportDoes, RollbackAppendDoes DEF RollbackActs, Log!RollbackReplace
<1>3. CASE o \in Compacts /\ CompactActs(o)
  BY <1>3, CompactExportDoes, SummarizeDoes, CompactRewriteDoes, CompactItemDoes, CompactSnapshotDoes
     DEF CompactActs, Log!CompactReplace
<1> QED
  BY <1>1, <1>2, <1>3 DEF Acts

LEMMA StageOn ==
  ASSUME Typed, Stages, Log!Next, NEW t \in Turns, stage[t] \in {"spawned", "running"}
  PROVE  stage'[t] \in {"spawned", "running", "over"}
<1>1. ASSUME NEW u \in Turns, NEW s \in {"spawned", "running", "over"}, stage' = [stage EXCEPT ![u] = s]
      PROVE  stage'[t] \in {"spawned", "running", "over"}
  BY <1>1, OtherStages
<1>2. ASSUME NEW u \in Turns, Log!BeginTurn(u) PROVE stage'[t] \in {"spawned", "running", "over"}
  <2>1. stage' = [stage EXCEPT ![u] = "begun"] /\ stage[u] = "new"
    BY <1>2 DEF Log!BeginTurn
  <2> QED
    BY <2>1, OtherStages
<1>3. ASSUME NEW u \in Turns, Log!WriteStart(u) \/ Log!Execute(u) PROVE stage'[t] \in {"spawned", "running", "over"}
  BY <1>1, <1>3 DEF Log!WriteStart, Log!Execute
<1>4. Log!EndTurn => stage'[t] \in {"spawned", "running", "over"}
  BY <1>1, EndTurnDoes DEF Log!EndTurn
<1>5. Log!StartItem \/ Log!CompleteItem => stage' = stage
  BY DEF Log!StartItem, Log!CompleteItem
<1>6. ASSUME NEW o \in Ops, Acts(o) PROVE stage'[t] \in {"spawned", "running", "over"}
  <2>1. CASE Log!Replace(o)
    <3>1. op[o].pc = "replace" /\ (o \in Edits => o \in Turns) /\ (o \in Edits \/ o \in Rollbacks \cup Compacts)
      BY <2>1, ReplaceDoes, Constants
    <3> QED
      BY <1>1, <1>6, <3>1, ReplaceActs
  <2>2. CASE ~Log!Replace(o)
    BY <1>6, <2>2, ActsStage
  <2> QED
    BY <2>1, <2>2
<1>7. Log!Crash => stage'[t] = "over"
  BY CrashDoes
<1> QED
  BY <1>2, <1>3, <1>4, <1>5, <1>6, <1>7, StepCases DEF TurnActs

LEMMA ItemOn ==
  ASSUME Typed, Log!Next, NEW e \in Edits, op[e].pc \in {"item", "rewrite", "replace"}
  PROVE  op'[e].pc \in {"item", "rewrite", "replace", "done"}
<1>0. e \in Ops /\ e \notin Rollbacks \cup Compacts
  BY Constants
<1>1. CASE op'[e].pc \in {"off", "done"}
  <2>1. CASE Log!Crash
    BY <1>0, <2>1, CrashDoes
  <2>2. CASE TurnActs
    BY <2>2 DEF TurnActs, Log!BeginTurn, Log!WriteStart, Log!Execute, Log!StartItem, Log!CompleteItem, Log!EndTurn, Log!opVars
  <2>3. CASE \E o \in Ops : Acts(o)
    <3>1. PICK o \in Ops : Acts(o)
      BY <2>3
    <3>2. CASE o # e
      BY <1>0, <3>1, <3>2, ActsAlone DEF OnlyOf
    <3>3. CASE o = e
      BY <1>0, <1>1, <3>1, <3>3, ActsAlone
    <3> QED
      BY <3>2, <3>3
  <2> QED
    BY <2>1, <2>2, <2>3, StepCases
<1>2. CASE op'[e].pc \notin {"off", "done"}
  <2>1. op'[e] = op[e] \/ EditActs(e)
    BY <1>0, <1>2, OpCases DEF Acts
  <2>2. CASE EditActs(e)
    BY <1>2, <2>2, EditSteps, EditExportDoes, EditRewriteDoes
  <2> QED
    BY <2>1, <2>2
<1> QED
  BY <1>1, <1>2

LEMMA SettledStays ==
  ASSUME Typed, Stages, Log!Next, NEW t \in Turns
  PROVE  /\ TurnSettled(t) => TurnSettled(t)'
         /\ Started(t) => Started(t)'
<1>0. Edits \subseteq Ops /\ Edits \subseteq Turns /\ Starts \cap Edits = {} /\ None \notin Turns
      /\ \A e \in Edits : e \notin Rollbacks \cup Compacts
  BY Constants
<1>1. ASSUME t \in Edits, stage[t] = "new", stage'[t] # "new" PROVE op[t].pc = "replace" /\ stage'[t] = "spawned"
  <2>1. ASSUME NEW u \in Turns, NEW s, stage' = [stage EXCEPT ![u] = s] PROVE u = t /\ stage'[t] = s
    BY <1>1, <2>1, OtherStages
  <2>2. ~(\E u \in Turns : Log!BeginTurn(u) \/ Log!WriteStart(u) \/ Log!Execute(u))
    BY <1>0, <1>1, <2>1 DEF Log!BeginTurn, Log!WriteStart, Log!Execute
  <2>3. ~(Log!StartItem \/ Log!CompleteItem)
    BY <1>1 DEF Log!StartItem, Log!CompleteItem
  <2>4. ~Log!EndTurn
    <3> SUFFICES ASSUME Log!EndTurn PROVE FALSE
      OBVIOUS
    <3>1. exec.turn \in Turns /\ stage' = [stage EXCEPT ![exec.turn] = "over"]
      BY EndTurnDoes DEF Log!EndTurn
    <3> QED
      BY <1>1, <2>1, <3>1 DEF Stages
  <2>5. ~Log!Crash
    BY <1>1, CrashDoes
  <2>6. PICK o \in Ops : Acts(o)
    BY <2>2, <2>3, <2>4, <2>5, StepCases DEF TurnActs
  <2>7. op[o].pc = "replace"
    BY <1>1, <2>6, ActsStage, ReplaceDoes
  <2>8. stage' = [stage EXCEPT ![o] = "spawned"] /\ o \in Edits
    BY <1>1, <2>6, <2>7, ReplaceActs, Constants
  <2>9. o \in Turns
    BY <1>0, <2>8
  <2>10. stage'[o] = "spawned" /\ \A u \in Turns : u # o => stage'[u] = stage[u]
    BY <2>8, <2>9, OtherStages
  <2> QED
    BY <1>1, <2>7, <2>10
<1>2. TurnSettled(t) => TurnSettled(t)'
  BY <1>0, <1>1, Progress DEF TurnSettled
<1>3. stage[t] \in {"spawned", "running"} => stage'[t] \in {"spawned", "running", "over"}
  BY StageOn
<1>4. ASSUME t \in Edits, op[t].pc \in {"item", "rewrite", "replace"} PROVE Started(t)'
  <2>1. stage[t] = "new"
    BY <1>4 DEF Stages
  <2>2. CASE stage'[t] # "new"
    BY <1>1, <1>4, <2>1, <2>2 DEF Started
  <2>3. CASE stage'[t] = "new"
    <3>1. op'[t].pc \in {"item", "rewrite", "replace", "done"}
      BY <1>4, ItemOn
    <3> QED
      BY <1>4, <2>3, <3>1 DEF Started, TurnSettled
  <2> QED
    BY <2>2, <2>3
<1>5. stage'[t] = "over" => TurnSettled(t)'
  BY DEF TurnSettled
<1>6. Started(t) => Started(t)'
  BY <1>2, <1>3, <1>4, <1>5 DEF Started
<1> QED
  BY <1>2, <1>6

(* A request that is through has replaced the state, or could not summarize. *)
LEMMA DoneCases ==
  ASSUME Typed, NEW o \in Ops, Acts(o), op'[o].pc = "done", marks' = {}
  PROVE  \/ Log!Replace(o) /\ op[o].pc = "replace"
         \/ /\ o \in Compacts /\ op[o].pc = "summarize"
            /\ UNCHANGED <<disk, tail, marks, mem, exec, stage, covers, dropped>>
<1>0. {"note", "supersede", "restore", "turn", "item"} \subseteq EditPcs /\ "done" \notin EditPcs /\ OpsTyped
  BY DEF EditPcs, Typed
<1>1. CASE o \in Edits /\ EditActs(o)
  <2>1. ASSUME NEW from \in EditPcs, NEW to \in EditPcs, NEW line, Log!Step(o, from, line, to) PROVE FALSE
    <3>1. op[o].pc = from /\ ((Log!AppendOk(line) /\ Log!Go(o, to)) \/ Log!AppendFails(line))
      BY <2>1 DEF Log!Step, Log!At
    <3>2. op[o].pc = from /\ Log!Go(o, to)
      BY <3>1, WholeFails
    <3>3. op'[o].pc = to
      BY <1>0, <1>1, <3>2, GoIs
    <3> QED
      BY <1>0, <3>3
  <2>2. ~(Log!EditNote(o) \/ Log!Supersede(o) \/ Log!EditRestore(o) \/ Log!EditTurnLine(o))
    BY <1>0, <2>1 DEF Log!EditNote, Log!Supersede, Log!EditRestore, Log!EditTurnLine
  <2>3. ~Log!EditItem(o)
    <3> DEFINE line == Log!ItemLine(Replacement(o, IF exec.turn = None THEN mem.next ELSE exec.next))
    <3> SUFFICES ASSUME Log!EditItem(o) PROVE FALSE
      OBVIOUS
    <3>1. op[o].pc = "item" /\ ((Log!AppendOk(line) /\ Log!Go(o, "rewrite")) \/ Log!AppendFails(line))
      BY DEF Log!EditItem, Log!At, Log!Free, Replacement
    <3>2. Log!Go(o, "rewrite")
      BY <3>1, WholeFails
    <3>3. op'[o].pc = "rewrite"
      BY <1>0, <1>1, <3>1, <3>2, GoIs DEF EditPcs
    <3> QED
      BY <3>3
  <2>4. ~(Log!EditExport(o) \/ Log!EditRewrite(o))
    BY <1>1, EditExportDoes, EditRewriteDoes
  <2>5. Log!EditReplace(o)
    BY <1>1, <2>2, <2>3, <2>4 DEF EditActs
  <2> QED
    BY <2>5 DEF Log!EditReplace, Log!Replace, Log!At
<1>2. CASE o \in Rollbacks /\ RollbackActs(o)
  <2>1. ~Log!RollbackExport(o)
    BY <1>2, RollbackExportDoes
  <2>2. ~Log!RollbackAppend(o)
    <3> DEFINE line == CutLine(op[o].next.items, op[o].next.latest)
    <3> SUFFICES ASSUME Log!RollbackAppend(o) PROVE FALSE
      OBVIOUS
    <3>1. op[o].pc = "append" /\ ((Log!AppendOk(line) /\ Log!Go(o, "replace")) \/ Log!AppendFails(line))
      BY DEF Log!RollbackAppend, Log!Step, Log!At, CutLine
    <3>2. Log!Go(o, "replace")
      BY <3>1, WholeFails
    <3>3. op'[o].pc = "replace"
      BY <1>0, <1>2, <3>1, <3>2, GoIs
    <3> QED
      BY <3>3
  <2>3. Log!RollbackReplace(o)
    BY <1>2, <2>1, <2>2 DEF RollbackActs
  <2> QED
    BY <2>3 DEF Log!RollbackReplace, Log!Replace, Log!At
<1>3. CASE o \in Compacts /\ CompactActs(o)
  <2>1. ~(Log!CompactExport(o) \/ Log!CompactRewrite(o) \/ Log!CompactItem(o) \/ Log!CompactSnapshot(o))
    BY <1>3, CompactExportDoes, CompactRewriteDoes, CompactItemDoes, CompactSnapshotDoes
  <2>2. CASE Log!CompactReplace(o)
    BY <2>2 DEF Log!CompactReplace, Log!Replace, Log!At
  <2>3. CASE Log!Summarize(o)
    BY <1>3, <2>3, SummarizeDoes
  <2> QED
    BY <1>3, <2>1, <2>2, <2>3 DEF CompactActs
<1> QED
  BY <1>1, <1>2, <1>3 DEF Acts

LEMMA WholeStep ==
  ASSUME RestartInv, Log!Next, Whole'
  PROVE  \/ UNCHANGED disk
         \/ \E l \in Lines : /\ disk' = Log!Replayed(disk, l) /\ Lawful(l)
                             /\ l.kind = "turn" => \E t \in Turns : t = l.turn /\ Started(t)'
<1> DEFINE Stays == UNCHANGED disk
           Added == \E l \in Lines : /\ disk' = Log!Replayed(disk, l) /\ Lawful(l)
                                     /\ l.kind = "turn" => \E t \in Turns : t = l.turn /\ Started(t)'
<1>0. /\ Edits \subseteq Ops /\ Rollbacks \subseteq Ops /\ Compacts \subseteq Ops /\ None \notin Turns
      /\ Edits \cap (Rollbacks \cup Compacts) = {} /\ Rollbacks \cap Compacts = {} /\ Edits \subseteq Turns
      /\ Compacts \cap Turns = {}
  BY Constants
<1>1. Typed /\ Stages /\ Places /\ SameTurn /\ Lone /\ Cleared /\ TailFailed /\ OneTurn /\ NextActive
  BY DEF RestartInv, GoneInv
<1>2. Whole /\ tail = None /\ ~raced' /\ marks' = {} /\ tail' = None
  BY <1>1, WholeBefore
<1>3. /\ Orderly /\ LatestOver /\ TargetsOver
      /\ (\A e \in Edits : EditFacts(e)) /\ (\A r \in Rollbacks : RollbackFacts(r))
      /\ (\A c \in Compacts : CompactFacts(c)) /\ (Nobody => TurnFacts)
  BY <1>2 DEF RestartInv, FileInOrder, Agrees
<1>4. ASSUME NEW i \in DiskItems, Log!AppendTried(Log!ItemLine(i)), i.turn \in Log!ToSet(disk.order),
             i.id[1] \in Compacts => TurnSettled(i.turn)
      PROVE  Added
  <2>1. disk' = Log!Replayed(disk, Log!ItemLine(i)) /\ Log!ItemLine(i) \in Lines
    BY <1>2, <1>4, WholeAppend, ItemLineIs
  <2>2. Lawful(Log!ItemLine(i)) /\ Log!ItemLine(i).kind # "turn"
    BY <1>4 DEF Lawful, Log!ItemLine
  <2> QED
    BY <2>1, <2>2
<1>5. ASSUME NEW t \in Turns, Log!AppendTried(Log!TurnLine(t)), Started(t)' PROVE Added
  <2>1. disk' = Log!Replayed(disk, Log!TurnLine(t))
    BY <1>2, <1>5, WholeAppend
  <2>2. Log!TurnLine(t) \in Lines /\ Lawful(Log!TurnLine(t)) /\ Log!TurnLine(t).turn = t
    BY DEF Lines, TurnLines, Log!TurnLine, Lawful
  <2> QED
    BY <1>5, <2>1, <2>2
<1>6. Log!AppendTried(Log!NoteLine) => Stays
  BY <1>2, WholeAppend, ReplayNote
<1>7. ASSUME NEW t \in Turns, Busy(t) PROVE Nobody /\ TurnFacts
  BY <1>1, <1>2, <1>3, <1>7 DEF Lone, Nobody, Whole
<1>8. ASSUME NEW t \in Turns, stage[t] \in {"spawned", "running"} PROVE t \in Log!ToSet(disk.order)
  <2>1. disk.latest = t
    BY <1>7, <1>8 DEF TurnFacts, Busy
  <2> QED
    BY <1>0, <1>3, <2>1 DEF Orderly
<1>9. \A o : Log!AppendOk(o) => Log!AppendTried(o)
  BY DEF Log!AppendTried
<1> HIDE DEF Stays, Added
<1>10. ASSUME NEW t \in Turns, Log!BeginTurn(t) PROVE Stays
  BY <1>10 DEF Log!BeginTurn, Log!fileVars, Stays
<1>11. ASSUME NEW t \in Turns, Log!WriteStart(t) PROVE Added
  <2>1. ~Log!AppendFails(Log!TurnLine(t))
    BY <1>2, WholeFails
  <2>2. Log!AppendTried(Log!TurnLine(t)) /\ stage' = [stage EXCEPT ![t] = "spawned"]
    BY <1>9, <1>11, <2>1 DEF Log!WriteStart
  <2>3. stage'[t] = "spawned"
    BY <1>1, <2>2, OtherStages
  <2> QED
    BY <1>5, <2>2, <2>3 DEF Started
<1>12. ASSUME NEW t \in Turns, Log!Execute(t) PROVE Stays \/ Added
  <2>1. CASE t \in Log!Silent
    BY <1>1, <1>12, <2>1, ExecuteDoes DEF Stays
  <2>2. CASE t \notin Log!Silent
    <3>1. Log!AppendTried(Log!ItemLine(Message(t))) /\ Message(t) \in DiskItems /\ stage[t] = "spawned"
      BY <1>1, <1>12, <2>2, ExecuteDoes
    <3>2. Message(t).turn = t /\ Message(t).id[1] = t
      BY DEF Message
    <3> QED
      BY <1>0, <1>4, <1>8, <3>1, <3>2
  <2> QED
    BY <2>1, <2>2
<1>13. ASSUME Log!StartItem PROVE Stays
  BY <1>13 DEF Log!StartItem, Log!fileVars, Stays
<1>14. ASSUME Log!CompleteItem PROVE Added
  <2>1. PICK i \in exec.open : i \in DiskItems /\ Log!AppendTried(Log!ItemLine(i))
    BY <1>1, <1>14, CompleteItemDoes
  <2>2. i.turn = exec.turn /\ i.id[1] = exec.turn /\ exec.turn \in Turns /\ stage[exec.turn] = "running"
    <3>1. exec.turn \in Turns \cup {None}
      BY <1>1 DEF Typed, SessionTyped, Execs
    <3> QED
      BY <1>1, <2>1, <3>1 DEF Stages
  <2> QED
    BY <1>0, <1>4, <1>8, <2>1, <2>2
<1>15. ASSUME Log!EndTurn PROVE Added
  <2>1. Log!AppendTried(Log!TurnLine(exec.turn)) /\ stage' = [stage EXCEPT ![exec.turn] = "over"]
    BY <1>15 DEF Log!EndTurn
  <2>2. PICK t \in Turns : t = exec.turn
    BY <1>1, <1>15, EndTurnDoes
  <2>3. stage'[t] = "over"
    BY <1>1, <2>1, <2>2, OtherStages
  <2>4. Started(t)'
    BY <2>3 DEF Started, TurnSettled
  <2> QED
    BY <1>5, <2>1, <2>2, <2>4
<1>20. ASSUME NEW e \in Edits, EditActs(e), op'[e].pc \notin {"off", "done"} PROVE Stays \/ Added
  <2>1. CASE Log!EditExport(e) \/ Log!EditRewrite(e)
    BY <1>1, <2>1, EditExportDoes, EditRewriteDoes DEF Stays
  <2>2. CASE Log!AppendOk(Log!NoteLine)
    BY <1>6, <1>9, <2>2
  <2>3. CASE /\ op[e].pc = "supersede" /\ op[e].target \in Turns
             /\ Log!AppendOk([kind |-> "superseded", turn |-> op[e].target])
    <3> DEFINE l == [kind |-> "superseded", turn |-> op[e].target]
    <3>1. disk' = Log!Replayed(disk, l)
      BY <1>2, <1>9, <2>3, WholeAppend
    <3>2. l \in Lines /\ l.kind # "turn" /\ Lawful(l)
      BY <1>3, <2>3 DEF Lines, TurnLines, Lawful, TargetsOver, EditPcs
    <3> QED
      BY <3>1, <3>2 DEF Added
  <2>4. CASE op'[e].pc = "item" /\ Log!AppendOk(Log!TurnLine(e))
    <3>1. Started(e)'
      BY <2>4 DEF Started
    <3> QED
      BY <1>0, <1>5, <1>9, <2>4, <3>1
  <2> DEFINE seq == IF exec.turn = None THEN mem.next ELSE exec.next
  <2>5. CASE /\ Log!EditItem(e) /\ op[e].pc = "item" /\ Log!AppendOk(Log!ItemLine(Replacement(e, seq)))
    <3>1. Replacement(e, seq) \in DiskItems
      BY <1>1, <2>5, EditItemDoes
    <3> HIDE DEF seq
    <3>2. Replacement(e, seq).turn = e /\ Replacement(e, seq).id[1] = e
      BY DEF Replacement
    <3>3. disk.latest = e
      BY <1>3, <2>5 DEF EditFacts
    <3>4. e \in Log!ToSet(disk.order)
      BY <1>0, <1>3, <3>3 DEF Orderly
    <3> QED
      BY <1>0, <1>4, <1>9, <2>5, <3>1, <3>2, <3>4
  <2> QED
    BY <1>1, <1>20, <2>1, <2>2, <2>3, <2>4, <2>5, EditSteps
<1>21. ASSUME NEW r \in Rollbacks, Log!RollbackAppend(r) PROVE Added
  <2> DEFINE line == CutLine(op[r].next.items, op[r].next.latest)
  <2>1. line \in CutLines /\ Log!AppendTried(line)
    BY <1>1, <1>21, RollbackAppendDoes
  <2> HIDE DEF line
  <2>2. disk' = Log!Replayed(disk, line)
    BY <1>2, <2>1, WholeAppend
  <2>3. line \in Lines /\ line.kind \notin {"item", "superseded", "turn"}
    BY <2>1 DEF Lines, CutLines
  <2> QED
    BY <2>2, <2>3 DEF Added, Lawful
<1>22. ASSUME NEW c \in Compacts, Log!CompactItem(c) PROVE Added
  <2>1. /\ op[c].line.item \in DiskItems /\ op[c].line = Log!ItemLine(op[c].line.item)
        /\ Log!AppendTried(op[c].line) /\ op[c].pc = "item"
    BY <1>1, <1>22, CompactItemDoes
  <2>2. op[c].line.item.turn \in Log!ToSet(disk.order) /\ TurnSettled(op[c].line.item.turn)
    BY <1>3, <2>1 DEF CompactFacts
  <2>3. Log!AppendTried(Log!ItemLine(op[c].line.item))
    BY <2>1
  <2> QED
    BY <1>4, <2>1, <2>2, <2>3
<1>23. ASSUME NEW c \in Compacts, Log!CompactSnapshot(c) PROVE Added
  <2> DEFINE line == [kind |-> "snapshot", snap |-> op[c].snap]
  <2>1. line \in Lines /\ Log!AppendTried(line) /\ line.kind \notin {"item", "superseded", "turn"}
    BY <1>1, <1>23, CompactSnapshotDoes
  <2> HIDE DEF line
  <2>2. disk' = Log!Replayed(disk, line)
    BY <1>2, <2>1, WholeAppend
  <2> QED
    BY <2>1, <2>2 DEF Added, Lawful
<1>24. ASSUME NEW c \in Compacts, Log!CompactExport(c) \/ Log!Summarize(c) \/ Log!CompactRewrite(c) PROVE Stays
  BY <1>1, <1>24, CompactExportDoes, SummarizeDoes, CompactRewriteDoes DEF Stays
<1>25. ASSUME NEW r \in Rollbacks, Log!RollbackExport(r) PROVE Stays
  BY <1>1, <1>25, RollbackExportDoes DEF Stays
<1>26. ASSUME NEW o \in Ops, Log!Replace(o) PROVE Stays
  BY <1>1, <1>26, ReplaceDoes DEF Stays
<1>30. ASSUME NEW o \in Ops, Acts(o) PROVE Stays \/ Added
  <2>1. CASE op'[o].pc = "done"
    BY <1>1, <1>2, <1>26, <1>30, <2>1, DoneCases DEF Stays
  <2>2. CASE op'[o].pc # "done"
    <3>1. op'[o].pc # "off"
      BY <1>1, <1>30, ActsAlone
    <3> QED
      BY <1>0, <1>20, <1>21, <1>22, <1>23, <1>24, <1>25, <1>26, <1>30, <2>2, <3>1
      DEF Acts, RollbackActs, CompactActs, Log!RollbackReplace, Log!CompactReplace
  <2> QED
    BY <2>1, <2>2
<1>40. Log!Crash => Stays
  BY <1>1, CrashDoes DEF Stays
<1>50. Stays \/ Added
  BY StepCases, <1>10, <1>11, <1>12, <1>13, <1>14, <1>15, <1>30, <1>40 DEF TurnActs
<1> QED
  BY <1>50 DEF Stays, Added

LEMMA OrderlyStep ==
  ASSUME RestartInv, Log!Next, Whole'
  PROVE  Orderly'
<1>1. Typed /\ Stages /\ Places /\ Typed'
  BY TypedStep DEF RestartInv, GoneInv
<1>2. Orderly
  BY <1>1, WholeBefore DEF RestartInv, GoneInv, FileInOrder
<1>3. \A t \in Turns : (TurnSettled(t) => TurnSettled(t)') /\ (Started(t) => Started(t)')
  BY <1>1, SettledStays
<1> DEFINE d == disk
           e == disk'
           ord == Log!ToSet(disk.order)
           ord2 == Log!ToSet(disk'.order)
           its == Log!ToSet(disk.items)
           its2 == Log!ToSet(disk'.items)
<1>4. d \in Disks /\ e \in Disks
  BY <1>1 DEF Typed, FileTyped
<1>5. ord \subseteq Turns /\ ord2 \subseteq Turns /\ d.gone \subseteq Turns /\ e.gone \subseteq Turns
      /\ its \subseteq DiskItems /\ its2 \subseteq DiskItems
  <2>1. d.order \in Seq(Turns) /\ e.order \in Seq(Turns) /\ d.items \in Seq(DiskItems) /\ e.items \in Seq(DiskItems)
        /\ d.gone \subseteq Turns /\ e.gone \subseteq Turns
    BY <1>4 DEF Disks
  <2> QED
    BY <2>1, Members
<1>6. \A i \in DiskItems : i.turn \in Turns
  BY DEF DiskItems
<1>7. /\ d.latest \in ord \cup {None} /\ (\A i \in its : i.turn \in ord) /\ d.gone \cap ord = {}
      /\ (\A t \in ord : Started(t)) /\ (\A t \in d.gone : TurnSettled(t))
      /\ \A i \in its : i.id[1] \in Compacts => TurnSettled(i.turn)
  BY <1>2 DEF Orderly, Items
<1> DEFINE Goal == /\ e.latest \in ord2 \cup {None} /\ (\A i \in its2 : i.turn \in ord2) /\ e.gone \cap ord2 = {}
                   /\ (\A t \in ord2 : Started(t)') /\ (\A t \in e.gone : TurnSettled(t)')
                   /\ \A i \in its2 : i.id[1] \in Compacts => \E t \in Turns : t = i.turn /\ TurnSettled(t)'
<1>8. Goal => Orderly'
  <2>1. Items' = its2
    BY DEF Items
  <2>2. ASSUME Goal, NEW i \in its2, i.id[1] \in Compacts PROVE TurnSettled(i.turn)'
    BY <2>2
  <2> QED
    BY <2>1, <2>2 DEF Orderly
<1>9. (\A t \in ord : Started(t)') /\ (\A t \in d.gone : TurnSettled(t)')
      /\ \A i \in its : i.id[1] \in Compacts => \E t \in Turns : t = i.turn /\ TurnSettled(t)'
  BY <1>3, <1>5, <1>6, <1>7
<1>10. e.latest = d.latest /\ ord2 = ord /\ e.gone = d.gone /\ its2 = its => Goal
  BY <1>7, <1>9
<1>11. disk' = disk => Goal
  BY <1>10
<1>12. ASSUME NEW l \in Lines, e = Log!Replayed(d, l), Lawful(l),
              l.kind = "turn" => \E t \in Turns : t = l.turn /\ Started(t)'
       PROVE  Goal
  <2> HIDE DEF d, e, ord, ord2, its, its2
  <2> USE DEF ord, ord2, its, its2
  <2>1. CASE l.turn \in Turns /\ l = Log!TurnLine(l.turn)
    <3>1. /\ e.items = d.items /\ e.gone = d.gone
          /\ l.turn \in d.gone => e = d
          /\ l.turn \notin d.gone => e.latest = l.turn /\ Log!ToSet(e.order) = Log!ToSet(d.order) \cup {l.turn}
      BY SMTT(30), <1>4, <1>12, <2>1, ReplayTurn
    <3>2. \E t \in Turns : t = l.turn /\ Started(t)'
      BY <1>12, <2>1 DEF Log!TurnLine
    <3>3. l.turn \in d.gone => Goal
      BY <1>10, <3>1 DEF d, e
    <3>4. l.turn \notin d.gone => Goal
      BY <1>7, <1>9, <3>1, <3>2 DEF d, e
    <3> QED
      BY <3>3, <3>4
  <2>2. CASE l.turn \in Turns /\ l = [kind |-> "superseded", turn |-> l.turn]
    <3>1. /\ e.gone = d.gone \cup {l.turn}
          /\ Log!ToSet(e.items) = {x \in Log!ToSet(d.items) : x.turn # l.turn}
          /\ Log!ToSet(e.order) = Log!ToSet(d.order) \ {l.turn}
          /\ d.latest # l.turn => e.latest = d.latest
          /\ d.latest = l.turn => e.latest \in Log!ToSet(e.order) \cup {None}
      BY SMTT(30), <1>4, <1>12, <2>2, ReplaySuperseded
    <3>2. TurnSettled(l.turn)
      BY <1>12, <2>2 DEF Lawful
    <3>3. \E t \in Turns : t = l.turn /\ TurnSettled(t)'
      BY <1>3, <2>2, <3>2
    <3> QED
      BY <1>7, <1>9, <3>1, <3>3 DEF d, e
  <2>3. CASE l.item \in DiskItems /\ l = Log!ItemLine(l.item)
    <3>1. /\ e.order = d.order /\ e.latest = d.latest /\ e.gone = d.gone
          /\ l.item.turn \in d.gone => e = d
          /\ l.item.turn \notin d.gone => Log!ToSet(e.items) = Log!ToSet(d.items) \cup {l.item}
      BY <1>4, <1>12, <2>3, ReplayItem
    <3>2. l.item.turn \in ord /\ (l.item.id[1] \in Compacts => TurnSettled(l.item.turn))
      BY <1>12, <2>3 DEF Lawful, Log!ItemLine
    <3>3. l.item.id[1] \in Compacts => \E t \in Turns : t = l.item.turn /\ TurnSettled(t)'
      BY <1>3, <1>6, <2>3, <3>2
    <3>4. l.item.turn \notin d.gone
      BY <1>7, <3>2
    <3> QED
      BY <1>7, <1>9, <3>1, <3>2, <3>3, <3>4 DEF d, e
  <2>4. CASE l \in CutLines
    <3>1. /\ e.gone = d.gone \cap l.turns
          /\ Log!ToSet(e.items) = {x \in Log!ToSet(d.items) : x.turn \in l.turns /\ x.id \in l.ids}
          /\ Log!ToSet(e.order) = Log!ToSet(d.order) \cap l.turns
          /\ e.latest = IF l.latest \in Log!ToSet(e.order) THEN l.latest ELSE None
      BY <1>4, <1>12, <2>4, ReplayRollback
    <3> QED
      BY <1>7, <1>9, <3>1 DEF d, e
  <2>5. CASE l.snap \in Snaps /\ l = [kind |-> "snapshot", snap |-> l.snap]
    <3>1. e.items = d.items /\ e.order = d.order /\ e.latest = d.latest /\ e.gone = d.gone
      BY <1>4, <1>12, <2>5, ReplaySnapshot
    <3> QED
      BY <1>10, <3>1 DEF d, e
  <2>6. CASE l = Log!NoteLine
    <3>1. e = d
      BY <1>12, <2>6, ReplayNote
    <3> QED
      BY <1>11, <3>1 DEF d, e
  <2> QED
    BY <2>1, <2>2, <2>3, <2>4, <2>5, <2>6, LineKinds
<1> HIDE DEF Goal
<1>13. Goal
  BY <1>11, <1>12, WholeStep
<1> QED
  BY <1>8, <1>13

(* Between the requests that replace the state, the last turn is over.       *)
LEMMA QuietLatest ==
  ASSUME RestartInv, Whole, NEW o \in Ops, AtWork(o), o \notin Edits, disk.latest # None
  PROVE  disk.latest \in Turns /\ TurnSettled(disk.latest)
<1>1. Orderly /\ Typed /\ Lone /\ ~raced
  BY DEF RestartInv, FileInOrder, GoneInv, Whole
<1>2. disk.latest \in Turns /\ Started(disk.latest)
  BY <1>1 DEF Orderly, Typed, FileTyped, Disks
<1>3. ~Busy(disk.latest) /\ \A e \in Edits : ~AtWork(e)
  BY <1>1, <1>2, Constants DEF Lone
<1> QED
  BY <1>2, <1>3 DEF Started, Busy, AtWork

LEMMA LatestOverStep ==
  ASSUME RestartInv, Log!Next, Whole'
  PROVE  LatestOver'
<1>1. Typed /\ Stages /\ Places /\ NextActive
  BY DEF RestartInv, GoneInv
<1>2. Whole /\ tail = None
  BY <1>1, WholeBefore DEF RestartInv, GoneInv
<1>3. LatestOver /\ Orderly /\ (\A e \in Edits : EditFacts(e)) /\ (\A r \in Rollbacks : RollbackFacts(r))
      /\ (\A c \in Compacts : CompactFacts(c))
  BY <1>2 DEF RestartInv, FileInOrder, Agrees
<1>4. \A t \in Turns : TurnSettled(t) => TurnSettled(t)'
  BY <1>1, SettledStays
<1>5. mem.latest \in Turns \cup {None}
  BY <1>1 DEF Typed, SessionTyped, Mems
<1> DEFINE Goal == mem'.latest # None => \E t \in Turns : t = mem'.latest /\ TurnSettled(t)'
<1>6. ASSUME Goal PROVE LatestOver'
  BY <1>6 DEF LatestOver
<1>7. mem'.latest = mem.latest => Goal
  BY <1>3, <1>4, <1>5 DEF LatestOver
<1>10. ASSUME NEW t \in Turns, Log!BeginTurn(t) \/ Log!WriteStart(t) \/ Log!Execute(t) PROVE Goal
  <2>1. mem'.latest = mem.latest
    BY <1>1, <1>10 DEF Log!BeginTurn, Log!WriteStart, Log!Execute, Typed, SessionTyped, Mems
  <2> QED
    BY <1>7, <2>1
<1>11. Log!StartItem \/ Log!CompleteItem => Goal
  BY <1>7 DEF Log!StartItem, Log!CompleteItem
<1>12. ASSUME Log!EndTurn PROVE Goal
  <2>1. mem'.latest = exec.turn /\ exec.turn \in Turns /\ stage' = [stage EXCEPT ![exec.turn] = "over"]
    BY <1>1, <1>12, EndTurnDoes DEF Log!EndTurn
  <2>2. PICK t \in Turns : t = exec.turn
    BY <2>1
  <2>3. stage'[t] = "over"
    BY <1>1, <2>1, <2>2, OtherStages
  <2> QED
    BY <2>1, <2>2, <2>3 DEF TurnSettled
<1>13. ASSUME NEW o \in Ops, Acts(o) PROVE Goal
  <2>1. CASE ~Log!Replace(o)
    BY <1>1, <1>7, <1>13, <2>1, ActsStage
  <2>2. CASE Log!Replace(o)
    <3>1. op[o].pc = "replace" /\ mem' = op[o].next
      BY <1>1, <2>2, ReplaceDoes
    <3>2. o \in Edits => mem'.latest = mem.latest
      BY <1>3, <3>1 DEF EditFacts
    <3>3. o \notin Edits => mem'.latest = disk.latest
      BY <1>3, <3>1, Constants DEF RollbackFacts, CompactFacts, HasNext
    <3>4. o \notin Edits /\ disk.latest # None => disk.latest \in Turns /\ TurnSettled(disk.latest)
      BY <1>2, <3>1, QuietLatest DEF AtWork
    <3> QED
      BY <1>4, <1>7, <3>2, <3>3, <3>4
  <2> QED
    BY <2>1, <2>2
<1>14. ASSUME Log!Crash PROVE Goal
  <2>1. mem' = Log!Loaded(Log!WholeFile) /\ Log!WholeFile = disk /\ disk \in Disks
    BY <1>1, <1>2, <1>14, CrashDoes, WholeFileIs DEF Typed, FileTyped
  <2>2. mem'.latest = disk.latest
    BY <2>1, LoadedIs
  <2>3. ASSUME NEW t \in Turns, Started(t) PROVE TurnSettled(t)'
    <3>1. stage'[t] = IF stage[t] = "new" THEN "new" ELSE "over"
      BY <1>1, <1>14, CrashDoes
    <3>2. t \in Edits /\ op[t].pc # "off" => op'[t].pc = "done"
      BY <1>1, <1>14, CrashDoes, Constants
    <3> QED
      BY <1>1, <1>4, <2>3, <3>1, <3>2 DEF Started, TurnSettled, Stages
  <2>4. disk.latest # None => disk.latest \in Turns /\ Started(disk.latest)
    BY <1>3, <2>1 DEF Orderly, Disks
  <2> QED
    BY <2>2, <2>3, <2>4
<1> HIDE DEF Goal
<1>15. Goal
  BY <1>10, <1>11, <1>12, <1>13, <1>14, StepCases DEF TurnActs
<1> QED
  BY <1>6, <1>15

LEMMA TargetsOverStep ==
  ASSUME RestartInv, Log!Next, Whole'
  PROVE  TargetsOver'
<1>1. Typed /\ Stages /\ Places /\ SameTurn /\ Lone
  BY DEF RestartInv, GoneInv
<1>2. Whole /\ ~raced'
  BY <1>1, WholeBefore DEF RestartInv, GoneInv
<1>3. TargetsOver
  BY <1>2 DEF RestartInv, FileInOrder
<1>4. \A t \in Turns : TurnSettled(t) => TurnSettled(t)'
  BY <1>1, SettledStays
<1> SUFFICES ASSUME NEW e \in Edits, op'[e].pc \in EditPcs
             PROVE  \E t \in Turns : t = op'[e].target /\ TurnSettled(t)'
  BY DEF TargetsOver
<1>5. e \in Ops /\ op'[e].pc \notin {"off", "done"} /\ e \notin Rollbacks \cup Compacts
  BY Constants DEF EditPcs
<1>6. Acts(e) /\ \A t \in Turns : ~Busy(t)'
  BY <1>1, <1>2, <1>5, Alone DEF AtWork
<1>7. EditActs(e)
  BY <1>5, <1>6 DEF Acts
<1>8. CASE Log!EditExport(e)
  <2>1. PICK x \in Log!ToSet(mem.items) : Log!IsMessage(x) /\ x.turn = op'[e].target
    BY <1>1, <1>8, EditExportDoes
  <2>2. x.id[1] \in Turns /\ x.turn = x.id[1] /\ Settled(x.id) /\ x.turn \in Turns
    BY <1>1, <2>1 DEF SameTurn, About, Own, Places, Held, Log!IsMessage, Turns
  <2>3. stage[x.turn] \notin {"begun", "spawned", "running"}
    BY <1>1, <1>6, <1>8, <2>2, EditExportDoes DEF Busy
  <2>4. stage[x.turn] \in {"new", "over"}
    BY <1>1, <2>2, <2>3 DEF Typed, SessionTyped
  <2>5. TurnSettled(x.turn)
    BY <2>2, <2>4, Constants DEF Settled, TurnSettled
  <2> QED
    BY <1>4, <2>1, <2>2, <2>5
<1>9. CASE ~Log!EditExport(e)
  <2>1. op[e].pc \in EditPcs /\ op'[e].target = op[e].target
    BY <1>1, <1>5, <1>7, <1>9, EditSteps, EditRewriteDoes DEF EditPcs
  <2>2. TurnSettled(op[e].target) /\ op[e].target \in Turns
    BY <1>1, <1>3, <2>1, OpKinds DEF TargetsOver, Typed
  <2> QED
    BY <1>4, <2>1, <2>2
<1> QED
  BY <1>8, <1>9

LEMMA InOrderStep ==
  ASSUME RestartInv, Log!Next
  PROVE  FileInOrder'
BY OrderlyStep, LatestOverStep, TargetsOverStep DEF FileInOrder

LEMMA NotGone ==
  ASSUME Stages, Orderly, NEW t \in Turns, Busy(t) \/ (t \in Edits /\ op[t].pc \in {"turn", "item"})
  PROVE  t \notin disk.gone
BY DEF Orderly, TurnSettled, Busy, Stages

(* What a request at work finds when it starts.                              *)
LEMMA StartsAlone ==
  ASSUME RestartInv, Log!Next, Whole', NEW o \in Ops, AtWork(o)', op[o].pc = "off"
  PROVE  DiskIds = MemIdSet /\ disk.latest = mem.latest /\ UNCHANGED <<disk, mem, exec, stage>>
<1>1. Typed /\ Stages /\ Lone /\ Whole /\ ~raced'
  BY WholeBefore DEF RestartInv, GoneInv
<1>2. /\ Acts(o) /\ (\A p \in Ops : p # o => ~AtWork(p)) /\ \A t \in Turns : ~Busy(t)'
  BY <1>1, Alone
<1>3. exec.turn = None /\ UNCHANGED <<disk, mem, exec, stage>>
  BY <1>1, <1>2, ActsAlone
<1>4. Nobody
  BY <1>2 DEF Nobody, AtWork
<1>5. TurnFacts
  BY <1>1, <1>4 DEF RestartInv, Agrees
<1>6. Log!ToSet(exec.items) = {}
  BY <1>1, <1>3 DEF Stages
<1>7. \A t \in Turns : ~Busy(t)
  BY <1>2, <1>3 DEF Busy
<1> QED
  BY <1>3, <1>5, <1>6, <1>7 DEF TurnFacts, IdsIn

(* A request goes on from what it has made of the file.                      *)
LEMMA GoesOn ==
  ASSUME RestartInv, Log!Next, Whole', NEW o \in Ops, AtWork(o)'
  PROVE  /\ Typed /\ Stages /\ Places /\ SameTurn /\ Lone /\ Whole /\ tail = None /\ Orderly
         /\ ~raced' /\ marks' = {} /\ Acts(o)
         /\ (\A e \in Edits : EditFacts(e)) /\ (\A r \in Rollbacks : RollbackFacts(r))
         /\ \A c \in Compacts : CompactFacts(c)
<1>1. Typed /\ Stages /\ Places /\ SameTurn /\ Lone /\ TailFailed
  BY DEF RestartInv, GoneInv
<1>2. Whole /\ tail = None /\ ~raced' /\ marks' = {}
  BY <1>1, WholeBefore
<1>3. Acts(o)
  BY <1>1, <1>2, Alone
<1> QED
  BY <1>1, <1>2, <1>3 DEF RestartInv, FileInOrder, Agrees

LEMMA EditFactsStep ==
  ASSUME RestartInv, Log!Next, Whole', NEW e \in Edits
  PROVE  EditFacts(e)'
<1> SUFFICES ASSUME op'[e].pc \notin {"off", "done"} PROVE EditFacts(e)'
  BY DEF EditFacts
<1>0. e \in Ops /\ e \in Turns /\ e \notin Rollbacks \cup Compacts /\ AtWork(e)'
  BY Constants DEF AtWork
<1>1. /\ Typed /\ Stages /\ SameTurn /\ Lone /\ tail = None /\ Orderly
      /\ ~raced' /\ marks' = {} /\ Acts(e) /\ EditFacts(e)
  BY <1>0, GoesOn
<1>2. EditActs(e)
  BY <1>0, <1>1 DEF Acts
<1> DEFINE seq == IF exec.turn = None THEN mem.next ELSE exec.next
           target == op[e].target
<1>3. \A l : Log!AppendOk(l) => disk' = Log!Replayed(disk, l)
  BY <1>1, WholeAppend DEF Log!AppendTried
<1>4. \A x, y : x \in Items /\ y \in Log!ToSet(mem.items) /\ x.id = y.id => x.turn = y.turn
  <2> SUFFICES ASSUME NEW x \in Items, NEW y \in Log!ToSet(mem.items), x.id = y.id PROVE x.turn = y.turn
    OBVIOUS
  <2>1. Log!Remembered(x) \in About /\ y \in About
    BY DEF About
  <2>2. Log!Remembered(x).id = y.id
    BY DEF Log!Remembered
  <2>3. Log!Remembered(x).turn = y.turn
    BY <1>1, <2>1, <2>2 DEF SameTurn
  <2> QED
    BY <2>3 DEF Log!Remembered
<1>5. disk \in Disks
  BY <1>1 DEF Typed, FileTyped
<1>10. CASE Log!EditExport(e)
  <2>1. op[e].pc = "off" /\ op'[e].pc = "note"
    BY <1>1, <1>10, EditExportDoes
  <2>2. DiskIds = MemIdSet /\ UNCHANGED <<disk, mem>>
    BY <1>0, <2>1, StartsAlone
  <2> QED
    BY <2>1, <2>2 DEF EditFacts, DiskIds, MemIdSet, Items
<1>11. CASE /\ op[e].pc = "note" /\ op'[e].pc = "supersede" /\ Log!AppendOk(Log!NoteLine)
            /\ UNCHANGED mem
  <2>1. disk' = disk
    BY <1>3, <1>11, ReplayNote
  <2> QED
    BY <1>1, <1>11, <2>1 DEF EditFacts, DiskIds, MemIdSet, Items
<1>12. CASE /\ op[e].pc = "supersede" /\ op'[e].pc = "restore" /\ op[e].target \in Turns
            /\ Log!AppendOk([kind |-> "superseded", turn |-> op[e].target])
            /\ op'[e].target = op[e].target /\ UNCHANGED mem
  <2> DEFINE f == disk'
  <2>1. f = Log!Replayed(disk, [kind |-> "superseded", turn |-> op[e].target])
    BY <1>3, <1>12
  <2> HIDE DEF f
  <2>2. Log!ToSet(f.items) = {x \in Log!ToSet(disk.items) : x.turn # target}
    BY <1>5, <1>12, <2>1, ReplaySuperseded
  <2>3. DiskIds' = IdsIn({x \in Items : x.turn # target})
    BY <2>2 DEF f, DiskIds, Items, IdsIn
  <2>4. DiskIds = MemIdSet
    BY <1>1, <1>12 DEF EditFacts
  <2>5. IdsIn({x \in Items : x.turn # target}) = Left(target)
    BY <1>4, <2>4 DEF DiskIds, MemIdSet, IdsIn, Left
  <2>6. Left(op[e].target)' = Left(target)
    BY <1>12 DEF Left
  <2> QED
    BY <1>12, <2>3, <2>5, <2>6 DEF EditFacts
<1>13. CASE /\ op[e].pc = "restore" /\ op'[e].pc = "turn" /\ Log!AppendOk(Log!NoteLine)
            /\ op'[e].target = op[e].target /\ UNCHANGED mem
  <2>1. disk' = disk
    BY <1>3, <1>13, ReplayNote
  <2>2. DiskIds' = DiskIds /\ Left(op[e].target)' = Left(target)
    BY <1>1, <1>13, <2>1 DEF DiskIds, Items, Left
  <2> QED
    BY <1>1, <1>13, <2>2 DEF EditFacts, Left
<1>14. CASE /\ op[e].pc = "turn" /\ op'[e].pc = "item" /\ Log!AppendOk(Log!TurnLine(e))
            /\ op'[e].target = op[e].target /\ UNCHANGED mem
  <2> DEFINE f == disk'
  <2>1. f = Log!Replayed(disk, Log!TurnLine(e))
    BY <1>3, <1>14
  <2> HIDE DEF f
  <2>2. e \notin disk.gone
    BY <1>0, <1>1, <1>14, NotGone
  <2>3. f.items = disk.items /\ f.latest = e
    BY <1>0, <1>5, <2>1, <2>2, ReplayTurn
  <2>4. DiskIds' = DiskIds /\ disk'.latest = e /\ Left(op[e].target)' = Left(target)
    BY <1>14, <2>3 DEF f, DiskIds, Items, Left
  <2>5. DiskIds' = Left(op[e].target)'
    BY <1>1, <1>14, <2>4 DEF EditFacts
  <2> QED
    BY <1>14, <2>4, <2>5 DEF EditFacts
<1>15. CASE /\ Log!EditItem(e) /\ op[e].pc = "item" /\ op'[e].pc = "rewrite"
            /\ Log!AppendOk(Log!ItemLine(Replacement(e, seq))) /\ op'[e].target = op[e].target
  <2> DEFINE f == disk'
             i == Replacement(e, seq)
  <2>1. f = Log!Replayed(disk, Log!ItemLine(i))
    BY <1>3, <1>15
  <2>2. mem'.items = mem.items /\ i \in DiskItems
    BY <1>1, <1>15, EditItemDoes
  <2>3. i.turn = e /\ i.id = <<e, 0>>
    BY DEF Replacement
  <2>4. e \notin disk.gone
    BY <1>0, <1>1, <1>15, NotGone
  <2> HIDE DEF f, i
  <2>5. f.latest = disk.latest /\ Log!ToSet(f.items) = Log!ToSet(disk.items) \cup {i}
    BY <1>5, <2>1, <2>2, <2>3, <2>4, ReplayItem
  <2>6. DiskIds' = DiskIds \cup {<<e, 0>>} /\ disk'.latest = disk.latest
    BY <2>3, <2>5 DEF f, DiskIds, Items, IdsIn
  <2>7. Left(op[e].target)' = Left(target)
    BY <1>15, <2>2 DEF Left
  <2>8. DiskIds = Left(op[e].target) /\ disk.latest = e
    BY <1>1, <1>15 DEF EditFacts
  <2> QED
    BY <1>15, <2>6, <2>7, <2>8 DEF EditFacts
<1>16. CASE Log!EditRewrite(e)
  <2>1. /\ op[e].pc = "rewrite" /\ op'[e].pc = "replace" /\ UNCHANGED <<disk, mem>>
        /\ Log!ToSet(op'[e].next.items) = {x \in Log!ToSet(mem.items) : x.turn # target} \cup {[id |-> <<e, 0>>, turn |-> e]}
        /\ op'[e].next.latest = mem.latest
    BY <1>1, <1>16, EditRewriteDoes
  <2> DEFINE new == [id |-> <<e, 0>>, turn |-> e]
  <2>4. new.id = <<e, 0>>
    OBVIOUS
  <2>5. Log!ToSet(op'[e].next.items) = {x \in Log!ToSet(mem.items) : x.turn # target} \cup {new}
    BY <2>1
  <2> DEFINE others == {x \in Log!ToSet(mem.items) : x.turn # target}
             items == Log!ToSet(op'[e].next.items)
  <2>6. items = others \cup {new} /\ Left(target) = IdsIn(others)
    BY <2>5 DEF Left
  <2> HIDE DEF new, target, others, items
  <2>7. IdsIn(items) = IdsIn(others) \cup {<<e, 0>>}
    BY <2>4, <2>6 DEF IdsIn
  <2>2. IdsIn(Log!ToSet(op'[e].next.items)) = Left(target) \cup {<<e, 0>>}
    BY <2>6, <2>7 DEF items
  <2>3. DiskIds = Left(target) \cup {<<e, 0>>} /\ disk.latest = e /\ DiskIds' = DiskIds
    BY <1>1, <2>1 DEF EditFacts, DiskIds, Items, target
  <2> QED
    BY <2>1, <2>2, <2>3 DEF EditFacts
<1> QED
  BY <1>1, <1>2, <1>10, <1>11, <1>12, <1>13, <1>14, <1>15, <1>16, EditSteps

LEMMA RollbackFactsStep ==
  ASSUME RestartInv, Log!Next, Whole', NEW r \in Rollbacks
  PROVE  RollbackFacts(r)'
<1> SUFFICES ASSUME op'[r].pc \notin {"off", "done"} PROVE RollbackFacts(r)'
  BY DEF RollbackFacts
<1>0. r \in Ops /\ r \notin Edits \cup Compacts /\ AtWork(r)' /\ None \notin Turns
  BY Constants DEF AtWork
<1>1. /\ Typed /\ Stages /\ SameTurn /\ tail = None /\ Orderly
      /\ marks' = {} /\ Acts(r) /\ RollbackFacts(r)
  BY <1>0, GoesOn
<1>2. RollbackActs(r)
  BY <1>0, <1>1 DEF Acts
<1>3. ~Log!RollbackReplace(r)
  BY <1>0, <1>1, ReplaceDoes DEF Log!RollbackReplace
<1>10. CASE Log!RollbackExport(r)
  <2>1. /\ op[r].pc = "off" /\ op'[r].pc = "append"
        /\ Log!ToSet(op'[r].next.items) \subseteq Log!ToSet(mem.items)
        /\ op'[r].next.items = <<>> => op'[r].next.latest = None
        /\ op'[r].next.items # <<>> => \E x \in Log!ToSet(op'[r].next.items) : op'[r].next.latest = x.turn
    BY <1>1, <1>10, RollbackExportDoes
  <2>2. DiskIds = MemIdSet /\ UNCHANGED <<disk, mem>>
    BY <1>0, <2>1, StartsAlone
  <2>3. DiskIds' = DiskIds /\ MemIdSet' = MemIdSet /\ IdsIn(Log!ToSet(op'[r].next.items)) \subseteq MemIdSet
    BY <2>1, <2>2 DEF DiskIds, MemIdSet, Items, IdsIn
  <2> QED
    BY <2>1, <2>2, <2>3 DEF RollbackFacts
<1>11. CASE Log!RollbackAppend(r)
  <2> DEFINE kept == op[r].next.items
             latest == op[r].next.latest
             l == CutLine(kept, latest)
             d == disk
             f == disk'
  <2>1. /\ op[r].next \in Mems /\ l \in CutLines /\ Log!AppendTried(l) /\ op[r].pc = "append"
        /\ op'[r].pc = "replace" /\ op'[r].next = op[r].next
    BY <1>1, <1>11, RollbackAppendDoes
  <2>2. kept \in Seq(MemItems) /\ latest \in Turns \cup {None}
    BY <2>1 DEF Mems
  <2> HIDE DEF kept, latest, l
  <2>3. l.latest = latest /\ l.turns = {x.turn : x \in Log!ToSet(kept)} /\ l.ids = {x.id : x \in Log!ToSet(kept)}
    BY <2>2, CutLineIs DEF l
  <2>4. f = Log!Replayed(d, l) /\ d \in Disks
    BY <1>1, <2>1, WholeAppend DEF Typed, FileTyped
  <2> HIDE DEF d, f
  <2>5. /\ Log!ToSet(f.items) = {x \in Log!ToSet(d.items) : x.turn \in l.turns /\ x.id \in l.ids}
        /\ Log!ToSet(f.order) = Log!ToSet(d.order) \cap l.turns
        /\ f.latest = IF l.latest \in Log!ToSet(f.order) THEN l.latest ELSE None
    BY <2>1, <2>4, ReplayRollback
  <2>6. \A x, y : x \in Items /\ y \in Log!ToSet(kept) /\ x.id = y.id => x.turn = y.turn
    <3> SUFFICES ASSUME NEW x \in Items, NEW y \in Log!ToSet(kept), x.id = y.id PROVE x.turn = y.turn
      OBVIOUS
    <3>1. y \in OpItems(r)
      BY <2>1 DEF OpItems, HasNext, kept
    <3>2. Log!Remembered(x) \in About /\ y \in About
      BY <1>0, <3>1 DEF About
    <3>3. Log!Remembered(x).id = y.id
      BY DEF Log!Remembered
    <3>4. Log!Remembered(x).turn = y.turn
      BY <1>1, <3>2, <3>3 DEF SameTurn
    <3> QED
      BY <3>4 DEF Log!Remembered
  <2>7. /\ IdsIn(Log!ToSet(kept)) \subseteq DiskIds
        /\ latest = None \/ \E x \in Log!ToSet(kept) : latest = x.turn
    BY <1>1, <2>1 DEF RollbackFacts, kept, latest
  <2>8. IdsIn(Log!ToSet(f.items)) = IdsIn(Log!ToSet(kept))
    <3>1. ASSUME NEW y \in Log!ToSet(kept) PROVE \E x \in Log!ToSet(f.items) : x.id = y.id
      <4>1. PICK x \in Items : x.id = y.id
        BY <2>7 DEF DiskIds, IdsIn
      <4>2. x.turn = y.turn
        BY <2>6, <4>1
      <4> QED
        BY <2>3, <2>5, <4>1, <4>2 DEF Items, d
    <3>2. \A x \in Log!ToSet(f.items) : \E y \in Log!ToSet(kept) : x.id = y.id
      BY <2>3, <2>5
    <3> QED
      BY <3>1, <3>2 DEF IdsIn
  <2>9. f.latest = latest
    <3>1. CASE latest = None
      BY <2>3, <2>5, <3>1
    <3>2. ASSUME NEW x \in Log!ToSet(kept), latest = x.turn PROVE f.latest = latest
      <4>1. PICK y \in Items : y.id = x.id
        BY <2>7 DEF DiskIds, IdsIn
      <4>2. y.turn = x.turn /\ y.turn \in Log!ToSet(d.order)
        BY <1>1, <2>6, <4>1 DEF Orderly, d
      <4> QED
        BY <2>3, <2>5, <3>2, <4>2
    <3> QED
      BY <2>7, <3>1, <3>2
  <2>10. DiskIds' = IdsIn(Log!ToSet(op'[r].next.items)) /\ disk'.latest = op'[r].next.latest
    BY <2>1, <2>8, <2>9 DEF f, kept, latest, DiskIds, Items
  <2> QED
    BY <2>1, <2>10 DEF RollbackFacts
<1> QED
  BY <1>2, <1>3, <1>10, <1>11 DEF RollbackActs

LEMMA CompactFactsStep ==
  ASSUME RestartInv, Log!Next, Whole', NEW c \in Compacts
  PROVE  CompactFacts(c)'
<1> SUFFICES ASSUME op'[c].pc \notin {"off", "done"} PROVE CompactFacts(c)'
  BY DEF CompactFacts, HasNext, AtWork
<1>0. c \in Ops /\ c \notin Edits \cup Rollbacks /\ AtWork(c)' /\ None \notin Turns
  BY Constants DEF AtWork
<1>1. /\ Typed /\ Stages /\ SameTurn /\ Places /\ Lone /\ Whole /\ tail = None /\ Orderly
      /\ ~raced' /\ marks' = {} /\ Acts(c) /\ CompactFacts(c)
  BY <1>0, GoesOn
<1>2. CompactActs(c)
  BY <1>0, <1>1 DEF Acts
<1>3. ~Log!CompactReplace(c)
  BY <1>0, <1>1, ReplaceDoes DEF Log!CompactReplace
<1>4. \A t \in Turns : TurnSettled(t) => TurnSettled(t)'
  BY <1>1, SettledStays
<1>5. disk \in Disks
  BY <1>1 DEF Typed, FileTyped
<1>10. CASE Log!CompactExport(c)
  <2>1. op[c].pc = "off" /\ op'[c].pc = "summarize"
    BY <1>1, <1>10, CompactExportDoes
  <2>2. DiskIds = MemIdSet /\ disk.latest = mem.latest /\ UNCHANGED <<disk, mem>>
    BY <1>0, <2>1, StartsAlone
  <2>3. DiskIds' = MemIdSet' /\ disk'.latest = mem'.latest /\ ~HasNext(c)'
    BY <1>0, <2>1, <2>2 DEF DiskIds, MemIdSet, Items, HasNext
  <2> QED
    BY <2>1, <2>3 DEF CompactFacts
<1>11. CASE Log!Summarize(c)
  <2>1. op[c].pc = "summarize" /\ op'[c].pc = "export" /\ UNCHANGED <<disk, mem>>
    BY <1>0, <1>1, <1>11, SummarizeDoes DEF AtWork
  <2>2. DiskIds' = MemIdSet' /\ disk'.latest = mem'.latest /\ ~HasNext(c)'
    BY <1>1, <2>1 DEF CompactFacts, AtWork, DiskIds, MemIdSet, Items, HasNext
  <2> QED
    BY <2>1, <2>2 DEF CompactFacts
<1>12. CASE Log!CompactRewrite(c)
  <2>1. op[c].pc = "export" /\ UNCHANGED <<disk, mem, exec, stage>>
    BY <1>1, <1>12, CompactRewriteDoes
  <2>2. DiskIds = MemIdSet /\ disk.latest = mem.latest /\ AtWork(c)
    BY <1>1, <2>1 DEF CompactFacts, AtWork
  <2>3. DiskIds' = DiskIds /\ MemIdSet' = MemIdSet /\ disk'.latest = mem'.latest
    BY <2>1, <2>2 DEF DiskIds, MemIdSet, Items
  <2>4. CASE op'[c].pc = "replace" /\ op'[c].next = mem
    BY <2>1, <2>2, <2>3, <2>4 DEF CompactFacts, MemIdSet
  <2>5. CASE /\ op'[c].pc = "item" /\ Summary(c) \in DiskItems /\ op'[c].line = Log!ItemLine(Summary(c))
             /\ Log!ToSet(op'[c].next.items) = Log!ToSet(mem.items) \cup {Log!Remembered(Summary(c))}
             /\ op'[c].next.latest = mem.latest
    <3>1. Log!Remembered(Summary(c)).id = <<c, 0>> /\ op'[c].line.item = Summary(c)
      BY <2>5 DEF Log!Remembered, Summary, Log!ItemLine
    <3>2. IdsIn(Log!ToSet(op'[c].next.items)) = DiskIds \cup {<<c, 0>>}
      <4> DEFINE new == Log!Remembered(Summary(c))
                 items == Log!ToSet(op'[c].next.items)
      <4>1. new.id = <<c, 0>> /\ items = Log!ToSet(mem.items) \cup {new}
        BY <2>5, <3>1
      <4> HIDE DEF new, items
      <4>2. IdsIn(items) = IdsIn(Log!ToSet(mem.items)) \cup {<<c, 0>>}
        BY <4>1 DEF IdsIn
      <4> QED
        BY <2>2, <4>2 DEF items, MemIdSet
    <3>3. \A t \in Turns : ~Busy(t)
      BY <1>0, <1>1, <2>2 DEF Lone, Whole
    <3>4. Summary(c).turn \in Turns /\ Summary(c).turn = IF mem.latest # None THEN mem.latest ELSE mem.active
      BY <2>5 DEF DiskItems, Summary
    <3>5. mem.latest # None
      <4>1. OneTurn /\ ~raced
        BY <1>1 DEF RestartInv, Whole
      <4> QED
        BY <1>0, <3>3, <3>4, <4>1 DEF OneTurn
    <3>6. Summary(c).turn \in Log!ToSet(disk.order)
      BY <1>1, <2>2, <3>4, <3>5 DEF Orderly
    <3>7. TurnSettled(Summary(c).turn)
      BY <1>0, <1>1, <2>2, <3>4, <3>5, QuietLatest
    <3>8. \E t \in Turns : t = op'[c].line.item.turn /\ TurnSettled(t)'
      BY <1>4, <3>1, <3>4, <3>7
    <3>9. TurnSettled(op[c].line.item.turn)'
      BY <3>8
    <3>10. op'[c].line.item.turn \in Log!ToSet(disk'.order)
      BY <2>1, <3>1, <3>6
    <3> QED
      BY <2>1, <2>2, <2>3, <2>5, <3>2, <3>9, <3>10 DEF CompactFacts
  <2> QED
    BY <1>1, <1>12, <2>4, <2>5, CompactRewriteDoes
<1>13. CASE Log!CompactItem(c)
  <2> DEFINE i == op[c].line.item
             d == disk
             f == disk'
  <2>1. /\ op[c].line = Log!ItemLine(i) /\ i \in DiskItems /\ Log!AppendTried(op[c].line)
        /\ op[c].pc = "item" /\ op'[c].pc = "snapshot" /\ op'[c].next = op[c].next /\ UNCHANGED mem
    BY <1>1, <1>13, CompactItemDoes
  <2>2. f = Log!Replayed(d, op[c].line)
    BY <1>1, <2>1, WholeAppend
  <2>3. i.id = <<c, 0>>
    BY <1>0, <1>1, <2>1 DEF Places, Copied
  <2>4. /\ DiskIds = MemIdSet /\ disk.latest = mem.latest /\ i.turn \in Log!ToSet(disk.order)
        /\ IdsIn(Log!ToSet(op[c].next.items)) = DiskIds \cup {<<c, 0>>} /\ op[c].next.latest = disk.latest
    BY <1>1, <2>1 DEF CompactFacts, AtWork, HasNext
  <2>5. i.turn \notin d.gone
    BY <1>1, <2>4 DEF Orderly
  <2>6. f = Log!Replayed(d, Log!ItemLine(i)) /\ d \in Disks
    BY <1>5, <2>1, <2>2
  <2> HIDE DEF i, d, f
  <2>7. f.latest = d.latest /\ Log!ToSet(f.items) = Log!ToSet(d.items) \cup {i}
    BY <2>1, <2>5, <2>6, ReplayItem
  <2>8. IdsIn(Log!ToSet(f.items)) = IdsIn(Log!ToSet(d.items)) \cup {<<c, 0>>}
    BY <2>3, <2>7 DEF IdsIn
  <2>9. DiskIds' = DiskIds \cup {<<c, 0>>} /\ disk'.latest = disk.latest
    BY <2>7, <2>8 DEF d, f, DiskIds, Items
  <2> QED
    BY <2>1, <2>4, <2>9 DEF CompactFacts
<1>14. CASE Log!CompactSnapshot(c)
  <2> DEFINE l == [kind |-> "snapshot", snap |-> op[c].snap]
             f == disk'
  <2>1. /\ op[c].snap \in Snaps /\ Log!AppendTried(l) /\ op[c].pc = "snapshot" /\ op'[c].pc = "replace"
        /\ op'[c].next = op[c].next /\ UNCHANGED mem
    BY <1>1, <1>14, CompactSnapshotDoes
  <2>2. f = Log!Replayed(disk, l)
    BY <1>1, <2>1, WholeAppend
  <2> HIDE DEF f
  <2>3. f.items = disk.items /\ f.latest = disk.latest
    BY <1>5, <2>1, <2>2, ReplaySnapshot
  <2>4. DiskIds' = DiskIds /\ disk'.latest = disk.latest
    BY <2>3 DEF f, DiskIds, Items
  <2> QED
    BY <1>1, <2>1, <2>4 DEF CompactFacts, AtWork, HasNext
<1> QED
  BY <1>2, <1>3, <1>10, <1>11, <1>12, <1>13, <1>14 DEF CompactActs

LEMMA TurnFactsStep ==
  ASSUME RestartInv, Log!Next, Whole', Nobody'
  PROVE  TurnFacts'
<1>0. /\ None \notin Turns /\ Edits \subseteq Turns
      /\ Edits \subseteq Ops /\ Rollbacks \subseteq Ops /\ Compacts \subseteq Ops
      /\ Ops = Edits \cup Rollbacks \cup Compacts
  BY Constants
<1>1. /\ Typed /\ Stages /\ Places /\ SameTurn /\ Lone /\ TailFailed /\ Typed'
  BY TypedStep DEF RestartInv, GoneInv
<1>2. Whole /\ tail = None /\ ~raced' /\ ~raced /\ marks' = {} /\ tail' = None
  BY <1>1, WholeBefore DEF Whole
<1>3. /\ Orderly /\ (\A e \in Edits : EditFacts(e)) /\ (\A r \in Rollbacks : RollbackFacts(r))
      /\ (\A c \in Compacts : CompactFacts(c)) /\ (Nobody => TurnFacts)
      /\ (\A t \in Turns : Busy(t) => mem.active = t)
      /\ (mem.active # None => \E t \in Turns : t = mem.active /\ Busy(t))
  BY <1>2 DEF RestartInv, FileInOrder, Agrees, OneTurn
<1>4. disk \in Disks
  BY <1>1 DEF Typed, FileTyped
<1>5. \A l : Log!AppendTried(l) => disk' = Log!Replayed(disk, l)
  BY <1>2, WholeAppend
<1>6. \A l : ~Log!AppendFails(l)
  BY <1>2, WholeFails
<1> DEFINE d == disk
           f == disk'
           exIds == IdsIn(Log!ToSet(exec.items))
           exIds2 == IdsIn(Log!ToSet(exec'.items))
           ids == IdsIn(Log!ToSet(d.items))
           ids2 == IdsIn(Log!ToSet(f.items))
           mem2 == IdsIn(Log!ToSet(mem'.items))
           In(t) == Busy(t)'
           Goal == /\ ids2 = mem2 \cup exIds2
                   /\ (\A t \in Turns : In(t) => stage'[t] = "begun") => f.latest = mem'.latest
                   /\ \A t \in Turns : stage'[t] \in {"spawned", "running"} => f.latest = t
<1>7. Goal => TurnFacts'
  BY DEF TurnFacts, DiskIds, MemIdSet, Items
<1>8. ASSUME Nobody
      PROVE  /\ ids = MemIdSet \cup exIds
             /\ (\A t \in Turns : Busy(t) => stage[t] = "begun") => d.latest = mem.latest
             /\ \A t \in Turns : stage[t] \in {"spawned", "running"} => d.latest = t
  BY <1>3, <1>8 DEF TurnFacts, DiskIds, Items
<1>9. TurnActs => Nobody
  <2>1. TurnActs => op' = op
    BY <1>1, TurnActsIn
  <2> QED
    BY <2>1 DEF Nobody, AtWork
<1>10. exec.turn = None => exIds = {}
  BY <1>1 DEF Stages, IdsIn
<1>11. \A t \in Turns, u \in Turns : Busy(t) /\ Busy(u) => t = u
  BY <1>3
<1>20. ASSUME NEW t \in Turns, Log!BeginTurn(t) PROVE Goal
  <2>1. /\ mem' = [mem EXCEPT !.active = t] /\ mem.active = None /\ stage' = [stage EXCEPT ![t] = "begun"]
        /\ UNCHANGED <<disk, exec>>
    BY <1>20 DEF Log!BeginTurn, Log!fileVars
  <2>2. mem'.items = mem.items /\ mem'.latest = mem.latest
    BY <1>1, <2>1 DEF Typed, SessionTyped, Mems
  <2>3. stage'[t] = "begun" /\ \A u \in Turns : u # t => stage'[u] = stage[u]
    BY <1>1, <2>1, OtherStages
  <2>4. \A u \in Turns : ~Busy(u)
    BY <1>0, <1>3, <2>1
  <2>5. Nobody
    BY <1>9, <1>20 DEF TurnActs
  <2>6. d.latest = mem.latest /\ ids = MemIdSet \cup exIds
    BY <1>8, <2>4, <2>5
  <2>7. ids2 = mem2 \cup exIds2 /\ f.latest = mem'.latest
    BY <2>1, <2>2, <2>6 DEF MemIdSet
  <2> QED
    BY <2>3, <2>4, <2>7 DEF Busy
<1>21. ASSUME NEW t \in Turns, Log!WriteStart(t) PROVE Goal
  <2>1. /\ stage[t] = "begun" /\ Log!AppendOk(Log!TurnLine(t)) /\ stage' = [stage EXCEPT ![t] = "spawned"]
        /\ UNCHANGED <<mem, exec>>
    BY <1>6, <1>21 DEF Log!WriteStart
  <2>2. stage'[t] = "spawned" /\ \A u \in Turns : u # t => stage'[u] = stage[u]
    BY <1>1, <2>1, OtherStages
  <2>3. t \notin d.gone
    BY <1>1, <1>3, <2>1, NotGone DEF Busy
  <2>4. f = Log!Replayed(d, Log!TurnLine(t))
    BY <1>5, <2>1 DEF Log!AppendTried
  <2>5. Nobody
    BY <1>9, <1>21 DEF TurnActs
  <2> HIDE DEF d, f
  <2>6. f.items = d.items /\ f.latest = t
    BY <1>4, <2>3, <2>4, ReplayTurn DEF d
  <2>7. ids2 = mem2 \cup exIds2
    BY <1>8, <2>1, <2>5, <2>6 DEF MemIdSet
  <2>8. \A u \in Turns : u # t => ~In(u)
    BY <1>11, <2>1, <2>2 DEF Busy
  <2>9. In(t) /\ stage'[t] # "begun"
    BY <2>2 DEF Busy
  <2> QED
    BY <2>6, <2>7, <2>8, <2>9 DEF Busy
<1>22. ASSUME NEW t \in Turns, Log!Execute(t) PROVE Goal
  <2>1. /\ stage[t] = "spawned" /\ exec.turn = None /\ stage' = [stage EXCEPT ![t] = "running"]
        /\ UNCHANGED mem /\ Message(t) \in DiskItems
        /\ t \in Log!Silent => Log!ToSet(exec'.items) = {} /\ UNCHANGED disk
        /\ t \notin Log!Silent => /\ Log!ToSet(exec'.items) = {Log!Remembered(Message(t))}
                               /\ Log!AppendTried(Log!ItemLine(Message(t)))
    BY <1>1, <1>22, ExecuteDoes
  <2>2. stage'[t] = "running" /\ \A u \in Turns : u # t => stage'[u] = stage[u]
    BY <1>1, <2>1, OtherStages
  <2>3. Nobody
    BY <1>9, <1>22 DEF TurnActs
  <2>4. ids = MemIdSet /\ d.latest = t /\ mem2 = MemIdSet
    BY <1>8, <1>10, <2>1, <2>3 DEF MemIdSet
  <2>5. \A u \in Turns : u # t => ~In(u)
    BY <1>11, <2>1, <2>2 DEF Busy
  <2>6. In(t) /\ stage'[t] # "begun"
    BY <2>2 DEF Busy
  <2>7. ids2 = mem2 \cup exIds2 /\ f.latest = t
    <3>1. CASE t \in Log!Silent
      <4>1. exIds2 = {} /\ f = d
        BY <2>1, <3>1 DEF IdsIn
      <4> QED
        BY <2>4, <4>1
    <3>2. CASE t \notin Log!Silent
      <4> DEFINE i == Message(t)
                 x == Log!Remembered(i)
      <4>1. i.turn = t /\ x.id = i.id
        BY DEF Message, Log!Remembered
      <4>2. f = Log!Replayed(d, Log!ItemLine(i)) /\ i \in DiskItems /\ Log!ToSet(exec'.items) = {x}
        BY <1>5, <2>1, <3>2
      <4>3. i.turn \notin d.gone
        BY <1>1, <1>3, <2>1, <4>1, NotGone DEF Busy
      <4> HIDE DEF i, x, d, f
      <4>4. f.latest = d.latest /\ Log!ToSet(f.items) = Log!ToSet(d.items) \cup {i}
        BY <1>4, <4>2, <4>3, ReplayItem DEF d
      <4>5. ids2 = ids \cup {i.id}
        BY <4>4 DEF IdsIn
      <4>6. exIds2 = {i.id}
        BY <4>1, <4>2 DEF IdsIn
      <4> QED
        BY <2>4, <4>4, <4>5, <4>6
    <3> QED
      BY <3>1, <3>2
  <2> QED
    BY <2>5, <2>6, <2>7 DEF Busy
<1>23. ASSUME Log!StartItem PROVE Goal
  <2>1. UNCHANGED <<disk, mem, stage>> /\ exec'.items = exec.items
    BY <1>1, <1>23, StartItemDoes DEF Log!StartItem, Log!fileVars
  <2>2. Nobody
    BY <1>9, <1>23 DEF TurnActs
  <2> QED
    BY <1>8, <2>1, <2>2 DEF MemIdSet, Busy
<1>24. ASSUME Log!CompleteItem PROVE Goal
  <2>1. PICK i \in exec.open :
          /\ i \in DiskItems /\ Log!ToSet(exec'.items) = Log!ToSet(exec.items) \cup {Log!Remembered(i)}
          /\ Log!AppendTried(Log!ItemLine(i))
    BY <1>1, <1>24, CompleteItemDoes
  <2>2. UNCHANGED <<mem, stage>>
    BY <1>24 DEF Log!CompleteItem
  <2>3. Nobody
    BY <1>9, <1>24 DEF TurnActs
  <2>4. i.turn = exec.turn /\ i.turn \in Turns /\ stage[i.turn] = "running"
    <3>1. exec.turn \in Turns \cup {None} /\ i.turn \in Turns
      BY <1>1, <2>1 DEF Typed, SessionTyped, Execs, DiskItems
    <3> QED
      BY <1>1, <2>1, <3>1 DEF Stages
  <2>5. i.turn \notin d.gone
    BY <1>1, <1>3, <2>4, NotGone DEF Busy
  <2>6. f = Log!Replayed(d, Log!ItemLine(i))
    BY <1>5, <2>1
  <2> DEFINE x == Log!Remembered(i)
  <2>7. x.id = i.id /\ Log!ToSet(exec'.items) = Log!ToSet(exec.items) \cup {x}
    BY <2>1 DEF Log!Remembered
  <2> HIDE DEF x, d, f
  <2>8. f.latest = d.latest /\ Log!ToSet(f.items) = Log!ToSet(d.items) \cup {i}
    BY SMTT(30), <1>4, <2>1, <2>5, <2>6, ReplayItem DEF d
  <2>9. ids2 = ids \cup {i.id}
    BY <2>8 DEF IdsIn
  <2>10. exIds2 = exIds \cup {i.id}
    BY <2>7 DEF IdsIn
  <2>11. ids2 = mem2 \cup exIds2
    BY <1>8, <2>2, <2>3, <2>9, <2>10 DEF MemIdSet
  <2> QED
    BY <1>8, <2>2, <2>3, <2>8, <2>11 DEF Busy
<1>25. ASSUME Log!EndTurn PROVE Goal
  <2>1. /\ mem'.latest = exec.turn /\ exec.turn \in Turns
        /\ Log!ToSet(mem'.items) = Log!ToSet(mem.items) \cup Log!ToSet(exec.items)
        /\ Log!AppendTried(Log!TurnLine(exec.turn)) /\ stage' = [stage EXCEPT ![exec.turn] = "over"]
        /\ exec' = Log!NoTurn
    BY <1>1, <1>25, EndTurnDoes DEF Log!EndTurn
  <2>2. PICK t \in Turns : t = exec.turn
    BY <2>1
  <2>3. stage[t] = "running"
    BY <1>1, <2>2 DEF Stages
  <2>4. stage'[t] = "over" /\ \A u \in Turns : u # t => stage'[u] = stage[u]
    BY <1>1, <2>1, <2>2, OtherStages
  <2>5. \A u \in Turns : u # t => ~Busy(u)
    BY <1>11, <2>3 DEF Busy
  <2>6. \A u \in Turns : ~In(u)
    BY <2>4, <2>5 DEF Busy
  <2>7. Nobody
    BY <1>9, <1>25 DEF TurnActs
  <2>8. t \notin d.gone
    BY <1>1, <1>3, <2>3, NotGone DEF Busy
  <2>9. f = Log!Replayed(d, Log!TurnLine(t))
    BY <1>5, <2>1, <2>2
  <2> HIDE DEF d, f
  <2>10. f.items = d.items /\ f.latest = t
    BY <1>4, <2>8, <2>9, ReplayTurn DEF d
  <2>11. exIds2 = {}
    BY <2>1, NoTurnIs DEF IdsIn
  <2>12. mem2 = MemIdSet \cup exIds
    BY <2>1 DEF MemIdSet, IdsIn
  <2>13. ids2 = mem2 \cup exIds2
    BY <1>8, <2>7, <2>10, <2>11, <2>12
  <2> QED
    BY <2>1, <2>2, <2>6, <2>10, <2>13 DEF Busy
<1>30. ASSUME NEW o \in Ops, Acts(o) PROVE Goal
  <2>1. op[o].pc \notin {"done"} /\ op'[o].pc = "done" /\ op[o].pc # "off"
    BY <1>1, <1>30, ActsAlone DEF Nobody, AtWork
  <2>2. AtWork(o)
    BY <2>1 DEF AtWork
  <2>3. \A t \in Turns : ~Busy(t)
    BY <1>2, <2>2 DEF RestartInv, GoneInv, Lone
  <2>4. exec.turn = None
    BY <1>1, <2>3 DEF Busy, Stages, Typed, SessionTyped, Execs
  <2>5. CASE Log!Replace(o) /\ op[o].pc = "replace"
    <3>1. mem' = op[o].next /\ UNCHANGED <<disk, exec>>
      BY <1>1, <2>5, ReplaceDoes
    <3>2. exIds2 = {}
      BY <1>10, <2>4, <3>1
    <3>3. ids = IdsIn(Log!ToSet(op[o].next.items))
      BY <1>0, <1>3, <2>5 DEF EditFacts, RollbackFacts, CompactFacts, DiskIds, Items
    <3>4. ids2 = mem2 \cup exIds2
      BY <3>1, <3>2, <3>3
    <3>5. CASE o \in Edits
      <4>1. stage' = [stage EXCEPT ![o] = "spawned"] /\ d.latest = o /\ o \in Turns
        BY <1>0, <1>1, <1>3, <1>30, <2>5, <3>5, ReplaceActs DEF EditFacts
      <4>2. stage'[o] = "spawned" /\ \A u \in Turns : u # o => stage'[u] = stage[u]
        BY <1>1, <4>1, OtherStages
      <4> QED
        BY <2>3, <3>1, <3>4, <4>1, <4>2 DEF Busy
    <3>6. CASE o \in Rollbacks \cup Compacts
      <4>1. stage' = stage
        BY <1>1, <1>30, <2>5, <3>6, ReplaceActs
      <4>2. d.latest = op[o].next.latest
        BY <1>3, <2>5, <3>6 DEF RollbackFacts, CompactFacts, HasNext
      <4> QED
        BY <2>3, <3>1, <3>4, <4>1, <4>2 DEF Busy
    <3> QED
      BY <1>0, <3>5, <3>6
  <2>6. CASE o \in Compacts /\ op[o].pc = "summarize" /\ UNCHANGED <<disk, mem, exec, stage>>
    <3>1. ids = MemIdSet /\ d.latest = mem.latest
      BY <1>3, <2>6, <2>2 DEF CompactFacts, DiskIds, Items
    <3>2. ids2 = mem2 \cup exIds2
      BY <1>10, <2>4, <2>6, <3>1 DEF MemIdSet
    <3> QED
      BY <2>3, <2>6, <3>1, <3>2 DEF Busy
  <2> QED
    BY <1>1, <1>2, <1>30, <2>1, <2>5, <2>6, DoneCases
<1>31. ASSUME Log!Crash PROVE Goal
  <2>1. /\ mem' = Log!Loaded(Log!WholeFile) /\ Log!WholeFile = disk /\ exec' = Log!NoTurn /\ disk' = disk
        /\ \A t \in Turns : stage'[t] = IF stage[t] = "new" THEN "new" ELSE "over"
    BY <1>1, <1>2, <1>31, CrashDoes, WholeFileIs DEF Typed
  <2> DEFINE m == mem'
  <2>2. m = Log!Loaded(d)
    BY <2>1
  <2> HIDE DEF m, d
  <2>3. m.latest = d.latest /\ Log!ToSet(m.items) = {Log!Remembered(x) : x \in Log!ToSet(d.items)}
    BY <1>4, <2>2, LoadedIs DEF d
  <2>4. IdsIn(Log!ToSet(m.items)) = ids
    <3>1. \A x : Log!Remembered(x).id = x.id
      BY DEF Log!Remembered
    <3> QED
      BY <2>3, <3>1 DEF IdsIn
  <2>5. exIds2 = {}
    BY <2>1, NoTurnIs DEF IdsIn
  <2>6. ids2 = mem2 \cup exIds2 /\ f.latest = mem'.latest
    BY <2>1, <2>3, <2>4, <2>5 DEF d, m
  <2>7. \A t \in Turns : stage'[t] \in {"new", "over"}
    BY <2>1
  <2> QED
    BY <2>6, <2>7 DEF Busy
<1> HIDE DEF Goal
<1>40. Goal
  BY <1>20, <1>21, <1>22, <1>23, <1>24, <1>25, <1>30, <1>31, StepCases DEF TurnActs
<1> QED
  BY <1>7, <1>40

LEMMA RestartStep ==
  ASSUME RestartInv, Log!Next
  PROVE  RestartInv'
<1>1. Agrees'
  BY EditFactsStep, RollbackFactsStep, CompactFactsStep, TurnFactsStep DEF Agrees
<1>2. GoneInv'
  BY TypedStep, StagesStep, PlacesStep, SameTurnStep, LoneStep, ClearedStep, GoneStep DEF RestartInv, GoneInv
<1> QED
  BY <1>1, <1>2, TailFailedStep, NextActiveStep, OneTurnStep, InOrderStep DEF RestartInv, GoneInv

LEMMA RestartInit ==
  ASSUME Log!Init
  PROVE  RestartInv
<1>0. /\ Typed /\ Edits \subseteq Ops /\ Rollbacks \subseteq Ops /\ Compacts \subseteq Ops
      /\ Edits \subseteq Turns /\ None \notin Turns
  BY LogInit, Constants
<1>1. TailFailed
  BY LogInit DEF TailFailed
<1>2. \A o \in Ops : ~HasNext(o) /\ ~AtWork(o)
  BY LogInit DEF HasNext, AtWork
<1>3. mem.latest = None /\ mem.active = None /\ disk.latest = None
  <2>1. mem.latest = Log!Blank.latest /\ mem.active = None /\ disk = Log!Blank
    BY LogInit, LoadedIs, BlankTyped
  <2> QED
    BY <2>1 DEF Log!Blank
<1>4. NextActive
  BY <1>0, <1>2, LogInit DEF NextActive
<1>5. OneTurn
  BY <1>3, LogInit DEF OneTurn, Busy
<1>6. FileInOrder
  <2>1. disk.gone = {} /\ Log!ToSet(disk.order) = {}
    BY LogInit, BlankTyped DEF Log!Blank
  <2>2. Orderly
    BY <1>3, <2>1, LogInit DEF Orderly
  <2>3. LatestOver /\ TargetsOver
    BY <1>0, <1>3, LogInit DEF LatestOver, TargetsOver, EditPcs
  <2> QED
    BY <2>2, <2>3 DEF FileInOrder
<1>7. Agrees
  <2>1. TurnFacts
    BY <1>3, LogInit DEF TurnFacts, DiskIds, MemIdSet, IdsIn
  <2>2. \A e \in Edits : EditFacts(e)
    BY <1>0, LogInit DEF EditFacts
  <2>3. \A r \in Rollbacks : RollbackFacts(r)
    BY <1>0, LogInit DEF RollbackFacts
  <2>4. \A c \in Compacts : CompactFacts(c)
    BY <1>0, <1>2, LogInit DEF CompactFacts
  <2> QED
    BY <2>1, <2>2, <2>3, <2>4 DEF Agrees
<1> QED
  BY <1>1, <1>4, <1>5, <1>6, <1>7, GoneInit DEF RestartInv

LEMMA RestartStays ==
  ASSUME RestartInv, UNCHANGED logVars
  PROVE  RestartInv'
<1>0. UNCHANGED <<disk, tail, marks, mem, exec, stage, op, covers, dropped, raced>>
  BY DEF logVars
<1>1. GoneInv'
  BY GoneStays DEF RestartInv
<1>2. (\A o : HasNext(o)' <=> HasNext(o)) /\ (\A o : AtWork(o)' <=> AtWork(o)) /\ (\A t : Busy(t)' <=> Busy(t))
  BY <1>0 DEF HasNext, AtWork, Busy
<1>3. (\A t : TurnSettled(t)' <=> TurnSettled(t)) /\ (Whole' <=> Whole)
  BY <1>0 DEF TurnSettled, Whole
<1>4. \A t : Started(t)' <=> Started(t)
  BY <1>0, <1>3 DEF Started
<1>5. TailFailed' /\ NextActive' /\ OneTurn'
  BY <1>0, <1>2 DEF RestartInv, TailFailed, NextActive, OneTurn
<1>6. FileInOrder'
  BY <1>0, <1>3, <1>4 DEF RestartInv, FileInOrder, Orderly, LatestOver, TargetsOver, Items
<1>7. Agrees'
  <2>1. DiskIds' = DiskIds /\ MemIdSet' = MemIdSet
    BY <1>0 DEF DiskIds, MemIdSet, Items
  <2>2. \A e \in Edits : EditFacts(e)' <=> EditFacts(e)
    BY <1>0, <2>1 DEF EditFacts, Left
  <2>3. \A r \in Rollbacks : RollbackFacts(r)' <=> RollbackFacts(r)
    BY <1>0, <2>1 DEF RollbackFacts
  <2>4. \A c \in Compacts : CompactFacts(c)' <=> CompactFacts(c)
    <3> SUFFICES ASSUME NEW c \in Compacts PROVE CompactFacts(c)' <=> CompactFacts(c)
      OBVIOUS
    <3>1. (HasNext(c)' <=> HasNext(c)) /\ (AtWork(c)' <=> AtWork(c))
      BY <1>2
    <3>2. \A t : TurnSettled(t)' <=> TurnSettled(t)
      BY <1>3
    <3>3. TurnSettled(op[c].line.item.turn)' <=> TurnSettled(op[c].line.item.turn)
      BY <1>0 DEF TurnSettled
    <3> QED
      BY <1>0, <2>1, <3>1, <3>3 DEF CompactFacts
  <2>5. TurnFacts' <=> TurnFacts
    BY <1>0, <1>2, <2>1 DEF TurnFacts
  <2>6. Nobody' <=> Nobody
    BY <1>2 DEF Nobody
  <2> QED
    BY <1>3, <2>2, <2>3, <2>4, <2>5, <2>6 DEF RestartInv, Agrees
<1> QED
  BY <1>1, <1>5, <1>6, <1>7 DEF RestartInv

LEMMA RestartNext ==
  ASSUME RestartInv, [MCNext]_allVars
  PROVE  RestartInv'
<1>1. CASE Log!Next
  BY <1>1, RestartStep
<1>2. CASE UNCHANGED logVars
  BY <1>2, RestartStays
<1> QED
  BY <1>1, <1>2 DEF MCNext, Rest, allVars

LEMMA NothingChanges == RestartInv => Log!RestartChangesNothing
<1> SUFFICES ASSUME RestartInv, Log!AtRest, Log!Intact
             PROVE  Log!Ids(Log!Replay) = Log!Ids(mem.items) /\ Log!Loaded(Log!WholeFile).latest = mem.latest
  BY DEF Log!RestartChangesNothing
<1>1. Typed /\ Stages /\ Whole
  BY WholeIs DEF RestartInv, GoneInv
<1>2. tail = None /\ disk \in Disks /\ Log!WholeFile = disk
  BY <1>1, WholeFileIs DEF RestartInv, TailFailed, Whole, Typed, FileTyped
<1>3. Nobody /\ \A t \in Turns : ~Busy(t)
  BY DEF Log!AtRest, Log!Working, Log!InTurn, Nobody, AtWork, Busy, Turns, Ops
<1>4. TurnFacts
  BY <1>1, <1>3 DEF RestartInv, Agrees
<1>5. exec.turn = None
  BY <1>1, <1>3 DEF Busy, Stages, Typed, SessionTyped, Execs
<1>6. IdsIn(Log!ToSet(exec.items)) = {}
  BY <1>1, <1>5 DEF Stages, IdsIn
<1>7. DiskIds = MemIdSet /\ disk.latest = mem.latest
  BY <1>3, <1>4, <1>6 DEF TurnFacts
<1>8. Log!Ids(Log!Replay) = DiskIds
  BY <1>1, <1>2, ReplayIds DEF DiskIds, Items, IdsIn
<1>9. Log!Ids(mem.items) = MemIdSet
  BY IdsOf DEF MemIdSet, IdsIn
<1>10. Log!Loaded(Log!WholeFile).latest = disk.latest
  BY <1>2, LoadedIs
<1> QED
  BY <1>7, <1>8, <1>9, <1>10
(* A restart brings back the items and the latest turn that the server has   *)
(* in memory when nothing is going on, after any number of turns, edits,     *)
(* rollbacks, compactions and crashes, if no request that replaces the state *)
(* overlapped with another and every append succeeded.                       *)
THEOREM RestartsChangeNothing == MCSpec => []RestartChangesNothing
<1>1. MCInit => RestartInv
  BY RestartInit DEF MCInit
<1>2. RestartInv /\ [MCNext]_allVars => RestartInv'
  BY RestartNext
<1>3. RestartInv => RestartChangesNothing
  BY NothingChanges DEF RestartChangesNothing
<1> QED
  BY <1>1, <1>2, <1>3, PTL DEF MCSpec

-----------------------------------------------------------------------------
LEMMA FewerIn ==
  ASSUME NEW S, NEW T, T \subseteq S
  PROVE  /\ \A n : Above(S, n) => Above(T, n)
         /\ Distinct(S) => Distinct(T)
         /\ \A s : OrderedIn(S, s) => OrderedIn(T, s)
         /\ \A snap, seen : KnownIn(S, snap, seen) => KnownIn(T, snap, seen)
<1>1. \A n : Above(S, n) => Above(T, n)
  BY DEF Above
<1>2. Distinct(S) => Distinct(T)
  BY DEF Distinct
<1>3. \A s : OrderedIn(S, s) => OrderedIn(T, s)
  BY Zenon DEF OrderedIn
<1>4. \A snap, seen : KnownIn(S, snap, seen) => KnownIn(T, snap, seen)
  BY Zenon DEF KnownIn
<1> QED
  BY <1>1, <1>2, <1>3, <1>4

(* An item with an identifier and a number of its own.                       *)
LEMMA OneMore ==
  ASSUME NEW S, NEW i, \A x \in S : x.id # i.id /\ x.seq # i.seq
  PROVE  /\ Distinct(S) => Distinct(S \cup {i})
         /\ \A s : OrderedIn(S, s) /\ (\A n \in DOMAIN s : s[n].id # i.id) => OrderedIn(S \cup {i}, s)
         /\ \A snap, seen :
              /\ KnownIn(S, snap, seen)
              /\ snap # None => i.id # snap.summary
              /\ snap # None => \A x \in S : x.id = snap.summary => x.seq < i.seq
              => KnownIn(S \cup {i}, snap, seen)
<1>1. Distinct(S) => Distinct(S \cup {i})
  BY DEF Distinct
<1>2. ASSUME NEW s, OrderedIn(S, s), \A n \in DOMAIN s : s[n].id # i.id
      PROVE  OrderedIn(S \cup {i}, s)
  <2> SUFFICES ASSUME NEW m \in DOMAIN s, NEW n \in DOMAIN s, m < n, s[m].turn # s[n].turn,
                      NEW x \in S \cup {i}, NEW y \in S \cup {i}, x.id = s[m].id, y.id = s[n].id
               PROVE  x.seq < y.seq
    BY DEF OrderedIn
  <2>1. x \in S /\ y \in S
    BY <1>2
  <2> QED
    BY <1>2, <2>1 DEF OrderedIn
<1>3. ASSUME NEW snap, NEW seen, KnownIn(S, snap, seen), snap # None => i.id # snap.summary,
             snap # None => \A x \in S : x.id = snap.summary => x.seq < i.seq
      PROVE  KnownIn(S \cup {i}, snap, seen)
  <2> SUFFICES ASSUME snap # None, NEW s \in S \cup {i}, s.id = snap.summary, NEW x \in S \cup {i}
               PROVE  x = s \/ x.id \in seen[s.id[1]].read \/ s.seq < x.seq
    BY DEF KnownIn
  <2>1. s \in S
    BY <1>3
  <2>2. CASE x = i
    BY <1>3, <2>1, <2>2
  <2>3. CASE x # i
    BY <1>3, <2>1, <2>3 DEF KnownIn
  <2> QED
    BY <2>2, <2>3
<1> QED
  BY <1>1, <1>2, <1>3

LEMMA NumberedStep ==
  ASSUME Typed, Stages, Places, Numbered, Log!Next
  PROVE  Numbered'
<1>1. disk \in Disks /\ disk' \in Disks
  BY TypedStep DEF Typed, FileTyped
<1>2. CASE disk' = disk
  BY <1>2 DEF Numbered, Items
<1>3. ASSUME NEW l \in Lines, disk' = Log!Replayed(disk, l) PROVE Numbered'
  <2> DEFINE d == disk
             e == disk'
  <2>1. e = Log!Replayed(d, l) /\ d \in Disks /\ e \in Disks /\ \A x \in Log!ToSet(d.items) : x.seq < d.next
    BY <1>1, <1>3 DEF Numbered, Items, Above
  <2> SUFFICES \A x \in Log!ToSet(e.items) : x.seq < e.next
    BY DEF Numbered, Items, Above
  <2> HIDE DEF d, e
  <2>2. CASE l.turn \in Turns /\ l = Log!TurnLine(l.turn)
    BY <2>1, <2>2, ReplayTurn
  <2>3. CASE l.turn \in Turns /\ l = [kind |-> "superseded", turn |-> l.turn]
    <3>1. e.next = d.next /\ Log!ToSet(e.items) = {x \in Log!ToSet(d.items) : x.turn # l.turn}
      BY <2>1, <2>3, ReplaySuperseded
    <3> QED
      BY <2>1, <3>1
  <2>4. CASE l.item \in DiskItems /\ l = Log!ItemLine(l.item)
    <3>1. /\ l.item.turn \in d.gone => e = d
          /\ l.item.turn \notin d.gone =>
               /\ Log!ToSet(e.items) = Log!ToSet(d.items) \cup {l.item}
               /\ e.next = IF d.next > l.item.seq + 1 THEN d.next ELSE l.item.seq + 1
      BY <2>1, <2>4, ReplayItem
    <3>2. d.next \in Nat /\ l.item.seq \in Nat
      BY <2>1, <2>4 DEF Disks, DiskItems
    <3>3. \A x \in Log!ToSet(d.items) : x.seq \in Nat
      <4>1. d.items \in Seq(DiskItems)
        BY <2>1 DEF Disks
      <4>2. \A x \in Log!ToSet(d.items) : x \in DiskItems
        BY <4>1, Members
      <4> QED
        BY <4>2 DEF DiskItems
    <3> QED
      BY <2>1, <3>1, <3>2, <3>3
  <2>5. CASE l \in CutLines
    BY <2>1, <2>5, ReplayRollback
  <2>6. CASE l.snap \in Snaps /\ l = [kind |-> "snapshot", snap |-> l.snap]
    BY <2>1, <2>6, ReplaySnapshot
  <2>7. CASE l = Log!NoteLine
    BY <2>1, <2>7, ReplayNote
  <2> QED
    BY <2>2, <2>3, <2>4, <2>5, <2>6, <2>7, LineKinds
<1>4. ASSUME NEW l \in Lines, Log!AppendTried(l) PROVE disk' = disk \/ disk' = Log!Replayed(disk, l)
  BY <1>4 DEF Log!AppendTried, Log!AppendOk, Log!AppendFails
<1> QED
  BY <1>2, <1>3, <1>4, FileStep

LEMMA StraightBefore ==
  ASSUME RestartInv, Log!Next, Straight'
  PROVE  Straight /\ Whole /\ tail = None /\ ~raced /\ ~raced' /\ ~reused' /\ marks' = {} /\ Whole'
BY WholeBefore, LogCases DEF RestartInv, GoneInv, Straight, Whole

LEMMA TurnAlone ==
  ASSUME RestartInv, Log!Next, ~raced', ~raced, TurnActs
  PROVE  Nobody /\ Nobody' /\ UNCHANGED <<op, covers, dropped>>
<1>1. Typed /\ Stages /\ Lone /\ Lone'
  BY LoneStep DEF RestartInv, GoneInv
<1>2. UNCHANGED <<op, covers, dropped>> /\ (\E t \in Turns : Busy(t) \/ Log!BeginTurn(t))
      /\ \A t \in Turns : Log!BeginTurn(t) => Busy(t)'
  BY <1>1, TurnActsIn
<1>3. \A o : AtWork(o)' <=> AtWork(o)
  BY <1>2 DEF AtWork
<1>4. Nobody
  BY <1>1, <1>2, <1>3 DEF Lone, Nobody
<1> QED
  BY <1>2, <1>3, <1>4 DEF Nobody

LEMMA ActsFree ==
  ASSUME RestartInv, Log!Next, ~raced', ~raced, NEW o \in Ops, Acts(o)
  PROVE  /\ exec.turn = None /\ exec'.turn = None
         /\ \A p \in Ops : p # o => ~AtWork(p) /\ ~AtWork(p)' /\ op'[p] = op[p]
<1>1. Typed /\ Stages /\ Lone
  BY DEF RestartInv, GoneInv
<1>2. /\ OnlyOf(o) /\ op[o].pc # "done" /\ (op[o].pc = "off" => AtWork(o)' /\ exec.turn = None)
  BY <1>1, ActsAlone DEF AtWork
<1>3. op[o].pc # "off" => AtWork(o)
  BY <1>2 DEF AtWork
<1>4. exec.turn = None
  BY <1>1, <1>2, <1>3 DEF Lone, Busy, Stages, Typed, SessionTyped, Execs
<1>5. exec'.turn = None
  BY <1>1, <1>4, ActsStage, ReplaceDoes
<1>6. \A p \in Ops : p # o => ~AtWork(p)
  BY <1>1, <1>2, <1>3, Alone DEF Lone
<1> QED
  BY <1>2, <1>4, <1>5, <1>6 DEF OnlyOf, AtWork

LEMMA BegunStartsStep ==
  ASSUME Typed, Stages, BegunStarts, Log!Next
  PROVE  BegunStarts'
<1> SUFFICES ASSUME NEW t \in Turns, stage'[t] = "begun" PROVE t \in Starts
  BY DEF BegunStarts
<1>0. stage[t] = "begun" => t \in Starts
  BY DEF BegunStarts
<1>1. ASSUME NEW u \in Turns, NEW s \in {"spawned", "running", "over"}, stage' = [stage EXCEPT ![u] = s]
      PROVE  stage[t] = "begun"
  BY <1>1, OtherStages
<1>2. ASSUME NEW u \in Turns, Log!BeginTurn(u) PROVE t \in Starts
  <2>1. stage' = [stage EXCEPT ![u] = "begun"] /\ u \in Starts
    BY <1>2 DEF Log!BeginTurn
  <2> QED
    BY <1>0, <2>1, OtherStages
<1>3. ASSUME NEW u \in Turns, Log!WriteStart(u) \/ Log!Execute(u) PROVE stage[t] = "begun"
  BY <1>1, <1>3 DEF Log!WriteStart, Log!Execute
<1>4. Log!EndTurn => stage[t] = "begun"
  BY <1>1, EndTurnDoes DEF Log!EndTurn
<1>5. Log!StartItem \/ Log!CompleteItem => stage' = stage
  BY DEF Log!StartItem, Log!CompleteItem
<1>6. ASSUME NEW o \in Ops, Acts(o) PROVE stage[t] = "begun"
  <2>1. CASE Log!Replace(o)
    <3>1. op[o].pc = "replace" /\ (o \in Edits => o \in Turns) /\ (o \in Edits \/ o \in Rollbacks \cup Compacts)
      BY <2>1, ReplaceDoes, Constants
    <3> QED
      BY <1>1, <1>6, <3>1, ReplaceActs
  <2>2. CASE ~Log!Replace(o)
    BY <1>6, <2>2, ActsStage
  <2> QED
    BY <2>1, <2>2
<1>7. ~Log!Crash
  BY CrashDoes
<1> QED
  BY <1>0, <1>2, <1>3, <1>4, <1>5, <1>6, <1>7, StepCases DEF TurnActs

(* The items of the file: typed, filed, numbered.                            *)
LEMMA ItemFacts ==
  ASSUME RestartInv
  PROVE  /\ \A x \in Items : x \in DiskItems /\ x.seq \in Nat /\ x.turn \in Turns /\ x.id \in ItemIds /\ Written(x.id)
         /\ \A x \in Items : x.id[1] \in Turns => x.turn = x.id[1]
         /\ \A x \in Log!ToSet(mem.items) : x \in MemItems /\ Settled(x.id)
         /\ \A n \in DOMAIN mem.items : mem.items[n] \in Log!ToSet(mem.items)
         /\ disk.snap # None => disk.snap.summary \in Compacts \X {0}
         /\ disk.next \in Nat /\ mem.next \in Nat /\ exec.next \in Nat
         /\ disk \in Disks /\ mem.items \in Seq(MemItems) /\ exec.items \in Seq(MemItems)
<1>1. Typed /\ Places /\ SameTurn
  BY DEF RestartInv, GoneInv
<1>2. Items \subseteq DiskItems /\ Log!ToSet(mem.items) \subseteq MemItems
  BY <1>1, TypedParts
<1>3. \A x \in DiskItems : x.seq \in Nat /\ x.turn \in Turns /\ x.id \in ItemIds
  BY DEF DiskItems
<1>4. ASSUME NEW x \in Items, x.id[1] \in Turns PROVE x.turn = x.id[1]
  <2>1. Log!Remembered(x) \in About /\ Log!Remembered(x).id = x.id /\ Log!Remembered(x).turn = x.turn
    BY DEF About, Log!Remembered
  <2> QED
    BY <1>1, <1>4, <2>1 DEF SameTurn, Own
<1>5. disk.snap # None => disk.snap.summary \in Compacts \X {0}
  BY <1>1 DEF Typed, FileTyped, Disks, Snaps
<1>6. disk.next \in Nat /\ mem.next \in Nat /\ exec.next \in Nat /\ disk \in Disks
      /\ mem.items \in Seq(MemItems) /\ exec.items \in Seq(MemItems)
  BY <1>1 DEF Typed, FileTyped, SessionTyped, Disks, Mems, Execs
<1> QED
  BY <1>1, <1>2, <1>3, <1>4, <1>5, <1>6 DEF Places, Filed, Held, Log!ToSet

(* While nobody but turns works.                                             *)
LEMMA NumbersOfTurns ==
  ASSUME Nobody', Distinct(Items'), exec'.turn = None => Above(Items', mem'.next),
         exec'.turn # None => TurnNumbers', OrderedIn(Items', mem'.items),
         \A e \in Edits : stage'[e] = "spawned" => EditNumbers(e)',
         SnapOver', KnownIn(Items', disk'.snap, covers')
  PROVE  Numbers'
<1>1. \A o \in Ops : op'[o].pc \in {"off", "done"}
  BY DEF Nobody, AtWork
<1>2. Edits \subseteq Ops /\ Compacts \subseteq Ops
  BY Constants
<1>3. \A e \in Edits : EditNumbers(e)'
  BY <1>1, <1>2 DEF EditNumbers
<1>4. \A c \in Compacts : CompactNumbers(c)'
  BY <1>1, <1>2 DEF CompactNumbers
<1>5. \A o \in Ops : NextNumbers(o)'
  BY <1>1 DEF NextNumbers, HasNext
<1> QED
  BY <1>3, <1>4, <1>5 DEF Numbers, Resting

(* A turn's step that adds no item.                                          *)
LEMMA TurnKeeps ==
  ASSUME Numbers, Nobody, Nobody', UNCHANGED <<op, covers>>, Items' = Items, disk'.snap = disk.snap,
         mem'.items = mem.items, mem'.next = mem.next, UNCHANGED exec,
         \A e \in Edits : stage'[e] = "spawned" => stage[e] = "spawned"
  PROVE  Numbers'
<1>1. exec.turn = None => Above(Items, mem.next)
  BY DEF Numbers, Resting, Nobody, AtWork
<1>2. exec'.turn # None => TurnNumbers'
  BY DEF Numbers, TurnNumbers
<1>3. \A e \in Edits : stage'[e] = "spawned" => EditNumbers(e)'
  BY DEF Numbers, EditNumbers
<1>4. SnapOver'
  BY DEF Numbers, SnapOver
<1>5. Distinct(Items') /\ OrderedIn(Items', mem'.items) /\ KnownIn(Items', disk'.snap, covers')
  BY DEF Numbers
<1> QED
  BY <1>1, <1>2, <1>3, <1>4, <1>5, NumbersOfTurns

LEMMA BeginNumbers ==
  ASSUME NumberInv, Log!Next, Straight', NEW t \in Turns, Log!BeginTurn(t) \/ Log!WriteStart(t)
  PROVE  Numbers'
<1>1. RestartInv /\ Numbers /\ ~raced /\ ~raced' /\ tail = None /\ marks' = {}
  BY StraightBefore DEF NumberInv
<1>2. Nobody /\ Nobody' /\ UNCHANGED <<op, covers, dropped>>
  BY <1>1, TurnAlone DEF TurnActs
<1>3. Typed /\ Stages /\ disk \in Disks /\ Starts \cap Edits = {} /\ Edits \subseteq Turns
  BY <1>1, Constants DEF RestartInv, GoneInv, Typed, FileTyped
<1>4. mem'.items = mem.items /\ mem'.next = mem.next /\ UNCHANGED exec
  BY <1>3 DEF Log!BeginTurn, Log!WriteStart, Typed, SessionTyped, Mems
<1>5. t \in Starts /\ \E s \in {"begun", "spawned", "over"} : stage' = [stage EXCEPT ![t] = s]
  BY DEF Log!BeginTurn, Log!WriteStart, NumberInv, BegunStarts
<1>6. \A e \in Edits : stage'[e] = stage[e]
  BY <1>3, <1>5, OtherStages
<1>7. Items' = Items /\ disk'.snap = disk.snap
  <2>1. CASE Log!BeginTurn(t)
    BY <2>1 DEF Log!BeginTurn, Log!fileVars, Items
  <2>2. CASE Log!WriteStart(t)
    <3> DEFINE f == disk'
    <3>1. Log!AppendOk(Log!TurnLine(t))
      BY <1>1, <2>2, WholeFails DEF Log!WriteStart
    <3>2. f = Log!Replayed(disk, Log!TurnLine(t))
      BY <1>1, <3>1, WholeAppend DEF Log!AppendTried
    <3> HIDE DEF f
    <3>3. f.items = disk.items /\ f.snap = disk.snap
      BY <1>3, <3>2, ReplayTurn
    <3> QED
      BY <3>3 DEF f, Items
  <2> QED
    BY <2>1, <2>2
<1> QED
  BY <1>1, <1>2, <1>4, <1>6, <1>7, TurnKeeps

LEMMA ItemAppended ==
  ASSUME RestartInv, Log!Next, Straight', NEW i \in DiskItems, Log!AppendTried(Log!ItemLine(i)), i.turn \notin disk.gone
  PROVE  Items' = Items \cup {i} /\ disk'.snap = disk.snap
<1> DEFINE f == disk'
<1>1. f = Log!Replayed(disk, Log!ItemLine(i))
  BY StraightBefore, WholeAppend
<1> HIDE DEF f
<1>2. Log!ToSet(f.items) = Log!ToSet(disk.items) \cup {i} /\ f.snap = disk.snap
  BY ZenonT(40), <1>1, ItemFacts, ReplayItem
<1> QED
  BY <1>2 DEF f, Items

(* A turn that was not over before has no item in the file but its message.  *)
LEMMA FirstItems ==
  ASSUME NumberInv, Straight, NEW t \in Turns, stage[t] = "spawned", exec.turn = None
  PROVE  \A y \in Items : y.turn = t => t \in Edits /\ y.id = <<t, 0>>
<1> SUFFICES ASSUME NEW y \in Items, y.turn = t PROVE t \in Edits /\ y.id = <<t, 0>>
  OBVIOUS
<1>0. Compacts \cap Turns = {} /\ None \notin Turns /\ Edits \cap Compacts = {}
  BY Constants
<1>1. Orderly /\ Typed /\ RestartInv /\ Stages
  BY DEF NumberInv, RestartInv, GoneInv, FileInOrder, Straight
<1>2. y.id \in ItemIds /\ Written(y.id) /\ (y.id[1] \in Turns => y.turn = y.id[1])
  BY <1>1, ItemFacts
<1>3. y.id[1] \notin Compacts
  <2>1. y.id[1] \in Compacts => TurnSettled(t)
    BY <1>1 DEF Orderly
  <2> QED
    BY <2>1 DEF TurnSettled
<1>4. y.id \in Turns \X Nat
  BY <1>2, <1>3 DEF ItemIds
<1>5. y.id[1] = t /\ y.id = <<t, y.id[2]>>
  BY <1>2, <1>4
<1>6. t \in Edits /\ y.id[2] = 0
  BY <1>0, <1>2, <1>3, <1>5 DEF Written, Settled
<1> QED
  BY <1>5, <1>6

LEMMA ExecuteNumbers ==
  ASSUME NumberInv, Log!Next, Straight', NEW t \in Turns, Log!Execute(t)
  PROVE  Numbers'
<1>0. Compacts \cap Turns = {} /\ None \notin Turns /\ Edits \subseteq Turns
  BY Constants
<1>1. RestartInv /\ Numbers /\ ~raced /\ ~raced' /\ tail = None /\ Straight /\ Whole
  BY StraightBefore DEF NumberInv
<1>2. Nobody /\ Nobody' /\ UNCHANGED <<op, covers, dropped>>
  BY <1>1, TurnAlone DEF TurnActs
<1>3. Typed /\ Stages /\ Orderly
  BY <1>1 DEF RestartInv, GoneInv, FileInOrder
<1>4. /\ stage[t] = "spawned" /\ exec.turn = None /\ exec'.turn = t /\ exec'.open = {}
      /\ stage' = [stage EXCEPT ![t] = "running"] /\ UNCHANGED mem /\ Message(t) \in DiskItems
      /\ t \in Log!Silent => exec'.next = mem.next /\ UNCHANGED disk
      /\ t \notin Log!Silent => exec'.next = mem.next + 1 /\ Log!AppendTried(Log!ItemLine(Message(t)))
  BY <1>3, ExecuteDoes
<1>5. Above(Items, mem.next) /\ Distinct(Items) /\ OrderedIn(Items, mem.items) /\ SnapOver
      /\ KnownIn(Items, disk.snap, covers) /\ \A e \in Edits : EditNumbers(e)
  BY <1>1, <1>2, <1>4 DEF Numbers, Resting, Nobody, AtWork
<1>6. \A y \in Items : y.turn = t => t \in Edits /\ y.id = <<t, 0>>
  BY <1>1, <1>4, FirstItems
<1>7. \A x \in Items : /\ x.seq \in Nat /\ Written(x.id)
                       /\ x.id[1] \in Turns => x.turn = x.id[1]
  BY <1>1, ItemFacts
<1>8. \A e \in Edits : stage'[e] = "spawned" => stage[e] = "spawned" /\ e # t
  BY ZenonT(40), <1>0, <1>3, <1>4, OtherStages
<1>9. \A e \in Edits : stage'[e] # "spawned"
  <2>1. \A u \in Turns : Busy(u) => u = t
    <3>1. \A u \in Turns : Busy(u) => mem.active = u
      BY <1>1 DEF RestartInv, OneTurn
    <3> QED
      BY <1>4, <3>1 DEF Busy
  <2> QED
    BY <1>0, <1>8, <2>1 DEF Busy
<1>10. \A x, y \in Items : x.turn # t /\ y.turn = t => x.seq < y.seq
  <2> SUFFICES ASSUME NEW x \in Items, NEW y \in Items, x.turn # t, y.turn = t PROVE x.seq < y.seq
    OBVIOUS
  <2>1. t \in Edits /\ y.id = <<t, 0>>
    BY <1>6
  <2>2. x.id # <<t, 0>>
    BY <1>7
  <2> QED
    BY <1>4, <1>5, <2>1, <2>2 DEF EditNumbers
<1>11. CASE t \in Log!Silent
  <2>1. Items' = Items /\ disk' = disk
    BY <1>4, <1>11 DEF Items
  <2>2. TurnNumbers'
    BY <1>4, <1>5, <1>10, <1>11, <2>1 DEF TurnNumbers, Above, Distinct
  <2>3. SnapOver' /\ KnownIn(Items', disk'.snap, covers') /\ OrderedIn(Items', mem'.items) /\ Distinct(Items')
    BY <1>2, <1>4, <1>5, <2>1 DEF SnapOver
  <2> QED
    BY <1>0, <1>2, <1>4, <1>9, <2>2, <2>3, NumbersOfTurns
<1>12. CASE t \notin Log!Silent
  <2> DEFINE i == Message(t)
  <2>1. i.turn = t /\ i.id = <<t, 0>> /\ i.seq = mem.next /\ i \in DiskItems /\ Log!AppendTried(Log!ItemLine(i))
    BY <1>4, <1>12 DEF Message
  <2> HIDE DEF i
  <2>2. t \notin disk.gone /\ t \notin Edits
    BY <1>3, <1>4, <1>12, NotGone DEF Busy, Log!Silent
  <2>3. Items' = Items \cup {i} /\ disk'.snap = disk.snap
    BY <1>1, <2>1, <2>2, ItemAppended
  <2>4. \A x \in Items : x.seq < i.seq /\ i.seq \in Nat
    BY <1>1, <1>5, <2>1, ItemFacts DEF Above
  <2>5. \A x \in Items : x.id # i.id
    <3>1. ~Written(<<t, 0>>)
      BY <1>0, <1>4, <2>2 DEF Written, Settled
    <3> QED
      BY <1>7, <2>1, <3>1
  <2>6. \A x \in Items : x.id # i.id /\ x.seq # i.seq
    BY <1>7, <2>4, <2>5
  <2>7. ~Settled(i.id)
    BY <1>0, <1>4, <2>1, <2>2 DEF Settled
  <2>8. \A n \in DOMAIN mem.items : mem.items[n].id # i.id
    BY <1>1, <2>7, ItemFacts
  <2>9. disk.snap # None => i.id # disk.snap.summary
    <3>1. disk.snap # None => disk.snap.summary[1] \in Compacts
      BY <1>1, ItemFacts
    <3>2. i.id[1] = t
      BY <2>1
    <3> QED
      BY <1>0, <3>1, <3>2
  <2>10. Distinct(Items') /\ OrderedIn(Items', mem'.items) /\ KnownIn(Items', disk'.snap, covers')
    BY <1>2, <1>4, <1>5, <2>3, <2>4, <2>6, <2>8, <2>9, OneMore
  <2>11. SnapOver'
    BY <1>2, <1>5, <2>3 DEF SnapOver
  <2>12. Above(Items', mem.next + 1)
    <3>1. ASSUME NEW x \in Items' PROVE x.seq < mem.next + 1
      BY <1>1, <1>7, <2>1, <2>3, <2>4, ItemFacts
    <3> QED
      BY <3>1 DEF Above
  <2>13. \A x, y \in Items' : x.turn # t /\ y.turn = t => x.seq < y.seq
    BY <1>6, <2>1, <2>2, <2>3, <2>4
  <2>14. TurnNumbers'
    BY <1>4, <1>12, <2>12, <2>13 DEF TurnNumbers, Above, Distinct
  <2> QED
    BY <1>0, <1>2, <1>4, <1>9, <2>10, <2>11, <2>14, NumbersOfTurns
<1> QED
  BY <1>11, <1>12

LEMMA StartItemNumbers ==
  ASSUME NumberInv, Log!Next, Straight', Log!StartItem
  PROVE  Numbers'
<1>0. Compacts \cap Turns = {} /\ None \notin Turns /\ Edits \subseteq Turns
  BY Constants
<1>1. RestartInv /\ Numbers /\ ~raced /\ ~raced' /\ Straight
  BY StraightBefore DEF NumberInv
<1>2. Nobody /\ Nobody' /\ UNCHANGED <<op, covers, dropped>>
  BY <1>1, TurnAlone DEF TurnActs
<1>3. Typed /\ Stages
  BY <1>1 DEF RestartInv, GoneInv
<1>4. /\ exec'.turn = exec.turn /\ exec'.next = exec.next + 1 /\ exec'.open = exec.open \cup {Opened}
      /\ exec.turn \in Turns /\ UNCHANGED <<disk, mem, stage>> /\ Opened \in DiskItems
  BY <1>3, StartItemDoes DEF Log!StartItem, Log!fileVars
<1>5. TurnNumbers /\ Distinct(Items) /\ OrderedIn(Items, mem.items) /\ SnapOver
      /\ KnownIn(Items, disk.snap, covers) /\ \A e \in Edits : EditNumbers(e)
  BY <1>0, <1>1, <1>4 DEF Numbers
<1> DEFINE i == Opened
           n == exec.begun + 1
<1>6. i.id = <<exec.turn, n>> /\ i.turn = exec.turn /\ i.seq = exec.next /\ exec.begun \in Nat /\ exec.next \in Nat
      /\ exec.open \subseteq DiskItems
  BY <1>3 DEF Opened, Typed, SessionTyped, Execs
<1>7. n > exec.begun /\ n # 0 /\ i.id[1] = exec.turn /\ i.id[2] = n
  BY <1>6
<1> HIDE DEF i
<1>8. \A x \in Items : x.seq \in Nat /\ Written(x.id)
  BY <1>1, ItemFacts
<1>9. ~Written(i.id)
  <2>1. stage[exec.turn] = "running"
    BY <1>3, <1>4 DEF Stages
  <2>2. ~(n <= exec.begun)
    BY <1>6
  <2> QED
    BY <1>0, <1>4, <1>7, <2>1, <2>2 DEF Written, Settled
<1>10. \A j \in exec.open : j.id # i.id /\ j.seq # i.seq
  <2> SUFFICES ASSUME NEW j \in exec.open PROVE j.id # i.id /\ j.seq # i.seq
    OBVIOUS
  <2>1. j.id[2] <= exec.begun /\ j.seq < exec.next /\ j.seq \in Nat
    BY <1>3, <1>5, <1>6 DEF Stages, TurnNumbers, Above, DiskItems
  <2>2. ~(n <= exec.begun)
    BY <1>6
  <2> QED
    BY <1>6, <1>7, <2>1, <2>2
<1>11. Distinct(exec'.open)
  <2>1. exec'.open = exec.open \cup {i} /\ Distinct(exec.open)
    BY <1>4, <1>5 DEF TurnNumbers, i
  <2> QED
    BY <1>10, <2>1 DEF Distinct
<1>12. Above(exec'.open, exec'.next) /\ Above(Items', exec'.next)
  <2>1. \A j \in exec.open : j.seq < exec.next /\ j.seq \in Nat
    BY <1>5, <1>6 DEF TurnNumbers, Above, DiskItems
  <2>2. \A x \in Items : x.seq < exec.next /\ x.seq \in Nat
    BY <1>5, <1>8 DEF TurnNumbers, Above
  <2>3. ASSUME NEW j \in exec'.open PROVE j.seq < exec.next + 1
    <3>1. j \in exec.open \/ j = i
      BY <1>4, <2>3 DEF i
    <3> QED
      BY <1>6, <2>1, <3>1
  <2>4. \A x \in Items : x.seq < exec.next + 1
    BY <1>6, <2>2
  <2> QED
    BY <1>4, <2>3, <2>4 DEF Above, Items
<1>13. \A j \in exec'.open : \A x \in Items :
         j.id # x.id /\ j.seq # x.seq /\ (x.turn # exec.turn => x.seq < j.seq)
  <2>1. \A x \in Items : i.id # x.id /\ i.seq # x.seq /\ x.seq < i.seq
    BY <1>5, <1>6, <1>8, <1>9 DEF TurnNumbers, Above
  <2> QED
    BY <1>4, <1>5, <2>1 DEF TurnNumbers, i
<1>14. Items' = Items
  BY <1>4 DEF Items
<1>15. TurnNumbers'
  BY <1>4, <1>5, <1>11, <1>12, <1>13, <1>14 DEF TurnNumbers
<1>16. SnapOver' /\ \A e \in Edits : stage'[e] = "spawned" => EditNumbers(e)'
  BY <1>2, <1>4, <1>5, <1>14 DEF SnapOver, EditNumbers
<1> QED
  BY <1>0, <1>2, <1>4, <1>5, <1>14, <1>15, <1>16, NumbersOfTurns

LEMMA CompleteItemNumbers ==
  ASSUME NumberInv, Log!Next, Straight', Log!CompleteItem
  PROVE  Numbers'
<1>0. Compacts \cap Turns = {} /\ None \notin Turns /\ Edits \subseteq Turns
  BY Constants
<1>1. RestartInv /\ Numbers /\ ~raced /\ ~raced' /\ Straight /\ Whole
  BY StraightBefore DEF NumberInv
<1>2. Nobody /\ Nobody' /\ UNCHANGED <<op, covers, dropped>>
  BY <1>1, TurnAlone DEF TurnActs
<1>3. Typed /\ Stages /\ Orderly
  BY <1>1 DEF RestartInv, GoneInv, FileInOrder
<1>4. PICK i \in exec.open :
        /\ i \in DiskItems /\ exec'.turn = exec.turn /\ exec'.open = exec.open \ {i}
        /\ exec'.next = exec.next /\ Log!AppendTried(Log!ItemLine(i))
  BY <1>3, CompleteItemDoes
<1>5. UNCHANGED <<mem, stage>>
  BY DEF Log!CompleteItem
<1>6. /\ i.turn = exec.turn /\ i.id[1] = exec.turn /\ i.id[2] > 0 /\ exec.turn \in Turns
      /\ stage[exec.turn] = "running" /\ i.seq \in Nat /\ exec.next \in Nat
  <2>1. exec.turn \in Turns \cup {None} /\ i.turn \in Turns /\ i.seq \in Nat /\ exec.next \in Nat
    BY <1>3, <1>4 DEF Typed, SessionTyped, Execs, DiskItems
  <2> QED
    BY <1>3, <1>4, <2>1 DEF Stages
<1>7. TurnNumbers /\ Distinct(Items) /\ OrderedIn(Items, mem.items) /\ SnapOver
      /\ KnownIn(Items, disk.snap, covers) /\ \A e \in Edits : EditNumbers(e)
  BY <1>0, <1>1, <1>6 DEF Numbers
<1>8. i.turn \notin disk.gone
  BY <1>3, <1>6, NotGone DEF Busy
<1>9. Items' = Items \cup {i} /\ disk'.snap = disk.snap
  BY <1>1, <1>4, <1>8, ItemAppended
<1>10. \A x \in Items : i.id # x.id /\ i.seq # x.seq /\ (x.turn # exec.turn => x.seq < i.seq)
  BY <1>7 DEF TurnNumbers
<1>11. \A n \in DOMAIN mem.items : mem.items[n].id # i.id
  <2>1. ~Settled(i.id)
    BY <1>0, <1>6 DEF Settled
  <2> QED
    BY <1>1, <2>1, ItemFacts
<1>12. disk.snap # None => i.id # disk.snap.summary /\ \A x \in Items : x.id = disk.snap.summary => x.seq < i.seq
  <2> SUFFICES ASSUME disk.snap # None
               PROVE  i.id # disk.snap.summary /\ \A x \in Items : x.id = disk.snap.summary => x.seq < i.seq
    OBVIOUS
  <2>1. disk.snap.summary[1] \in Compacts
    BY <1>1, ItemFacts
  <2>2. ASSUME NEW x \in Items, x.id = disk.snap.summary PROVE x.seq < i.seq
    <3>1. TurnSettled(x.turn)
      BY <1>3, <2>1, <2>2 DEF Orderly
    <3>2. x.turn # exec.turn
      BY <1>6, <3>1 DEF TurnSettled
    <3> QED
      BY <1>10, <3>2
  <2> QED
    BY <1>0, <1>6, <2>1, <2>2
<1>13. Distinct(Items') /\ OrderedIn(Items', mem'.items) /\ KnownIn(Items', disk'.snap, covers')
  BY <1>2, <1>5, <1>7, <1>9, <1>10, <1>11, <1>12, OneMore
<1>14. TurnNumbers'
  <2>1. Above(Items', exec.next) /\ Above(exec'.open, exec.next)
    BY <1>4, <1>7, <1>9 DEF TurnNumbers, Above
  <2>2. Distinct(exec'.open)
    BY <1>4, <1>7 DEF TurnNumbers, Distinct
  <2>3. \A j \in exec'.open : \A x \in Items' :
          j.id # x.id /\ j.seq # x.seq /\ (x.turn # exec.turn => x.seq < j.seq)
    <3> SUFFICES ASSUME NEW j \in exec'.open, NEW x \in Items'
                 PROVE  j.id # x.id /\ j.seq # x.seq /\ (x.turn # exec.turn => x.seq < j.seq)
      OBVIOUS
    <3>1. j \in exec.open /\ j # i
      BY <1>4
    <3>2. CASE x = i
      BY <1>4, <1>6, <1>7, <3>1, <3>2 DEF TurnNumbers, Distinct
    <3>3. CASE x \in Items
      BY <1>7, <3>1, <3>3 DEF TurnNumbers
    <3> QED
      BY <1>9, <3>2, <3>3
  <2>4. \A x, y \in Items' : x.turn # exec.turn /\ y.turn = exec.turn => x.seq < y.seq
    BY <1>6, <1>7, <1>9, <1>10 DEF TurnNumbers
  <2> QED
    BY <1>4, <2>1, <2>2, <2>3, <2>4 DEF TurnNumbers
<1>15. SnapOver'
  BY <1>2, <1>7, <1>9 DEF SnapOver
<1>16. \A e \in Edits : stage'[e] # "spawned"
  <2>1. \A u \in Turns : Busy(u) => mem.active = u
    BY <1>1 DEF RestartInv, OneTurn
  <2> QED
    BY <1>0, <1>5, <1>6, <2>1 DEF Busy
<1> QED
  BY <1>0, <1>2, <1>4, <1>6, <1>13, <1>14, <1>15, <1>16, NumbersOfTurns

(* A sequence in order, and another behind it whose items are of one turn.   *)
LEMMA OrderedJoin ==
  ASSUME NEW S, NEW T, NEW a \in Seq(T), NEW b \in Seq(T), NEW t,
         OrderedIn(S, a), \A k \in DOMAIN b : b[k].turn = t,
         \A m \in DOMAIN a, k \in DOMAIN b : a[m].turn # t =>
           \A x, y \in S : x.id = a[m].id /\ y.id = b[k].id => x.seq < y.seq
  PROVE  OrderedIn(S, a \o b)
<1> DEFINE s == a \o b
<1>1. s \in Seq(T) /\ DOMAIN s = 1..(Len(a) + Len(b)) /\ DOMAIN a = 1..Len(a) /\ DOMAIN b = 1..Len(b)
      /\ Len(a) \in Nat /\ Len(b) \in Nat
  OBVIOUS
<1>2. \A m \in DOMAIN s : IF m \in DOMAIN a THEN s[m] = a[m] ELSE m - Len(a) \in DOMAIN b /\ s[m] = b[m - Len(a)]
  OBVIOUS
<1> SUFFICES ASSUME NEW m \in DOMAIN s, NEW n \in DOMAIN s, m < n, s[m].turn # s[n].turn,
                    NEW x \in S, NEW y \in S, x.id = s[m].id, y.id = s[n].id
             PROVE  x.seq < y.seq
  BY DEF OrderedIn
<1> HIDE DEF s
<1>3. CASE n \in DOMAIN a
  <2>1. m \in DOMAIN a
    BY <1>1, <1>3
  <2> QED
    BY <1>2, <1>3, <2>1 DEF OrderedIn
<1>4. CASE n \notin DOMAIN a
  <2>1. n - Len(a) \in DOMAIN b /\ s[n] = b[n - Len(a)] /\ s[n].turn = t
    BY <1>2, <1>4
  <2>2. m \in DOMAIN a
    BY <1>2, <2>1
  <2> QED
    BY <1>2, <2>1, <2>2
<1> QED
  BY <1>3, <1>4

LEMMA OrderedAppend ==
  ASSUME NEW S, NEW T, NEW a \in Seq(T), NEW e \in T, OrderedIn(S, a),
         \A m \in DOMAIN a : a[m].turn # e.turn =>
           \A x, y \in S : x.id = a[m].id /\ y.id = e.id => x.seq < y.seq
  PROVE  OrderedIn(S, Append(a, e))
<1>1. Append(a, e) = a \o <<e>> /\ <<e>> \in Seq(T) /\ DOMAIN <<e>> = {1} /\ <<e>>[1] = e
  OBVIOUS
<1>2. \A k \in DOMAIN <<e>> : <<e>>[k] = e
  BY <1>1
<1> DEFINE b == <<e>>
<1>3. b \in Seq(T) /\ \A k \in DOMAIN b : b[k] = e
  BY <1>1, <1>2
<1>4. \A k \in DOMAIN b : b[k].turn = e.turn
  BY <1>3
<1>5. \A m \in DOMAIN a, k \in DOMAIN b : a[m].turn # e.turn =>
        \A x, y \in S : x.id = a[m].id /\ y.id = b[k].id => x.seq < y.seq
  BY <1>3
<1> HIDE DEF b
<1>6. OrderedIn(S, a \o b)
  BY <1>3, <1>4, <1>5, OrderedJoin
<1> QED
  BY <1>1, <1>6 DEF b

LEMMA EndTurnNumbers ==
  ASSUME NumberInv, Log!Next, Straight', Log!EndTurn
  PROVE  Numbers'
<1>0. Compacts \cap Turns = {} /\ None \notin Turns /\ Edits \subseteq Turns
  BY Constants
<1>1. RestartInv /\ Numbers /\ ~raced /\ ~raced' /\ Straight /\ Whole /\ tail = None /\ marks' = {}
  BY StraightBefore DEF NumberInv
<1>2. Nobody /\ Nobody' /\ UNCHANGED <<op, covers, dropped>>
  BY <1>1, TurnAlone DEF TurnActs
<1>3. Typed /\ Stages /\ SameTurn
  BY <1>1 DEF RestartInv, GoneInv
<1>4. /\ mem'.next = exec.next /\ exec.turn \in Turns /\ Log!AppendTried(Log!TurnLine(exec.turn))
      /\ mem'.items = mem.items \o exec.items /\ exec' = Log!NoTurn /\ stage' = [stage EXCEPT ![exec.turn] = "over"]
  BY <1>3, EndTurnDoes DEF Log!EndTurn
<1>5. TurnNumbers /\ Distinct(Items) /\ OrderedIn(Items, mem.items) /\ SnapOver
      /\ KnownIn(Items, disk.snap, covers) /\ \A e \in Edits : EditNumbers(e)
  BY <1>0, <1>1, <1>4 DEF Numbers
<1>6. Items' = Items /\ disk'.snap = disk.snap
  <2> DEFINE f == disk'
  <2>1. f = Log!Replayed(disk, Log!TurnLine(exec.turn))
    BY <1>1, <1>4, WholeAppend
  <2> HIDE DEF f
  <2>2. f.items = disk.items /\ f.snap = disk.snap
    BY <1>1, <1>4, <2>1, ItemFacts, ReplayTurn
  <2> QED
    BY <2>2 DEF f, Items
<1>7. exec'.turn = None
  BY <1>4, NoTurnIs
<1>8. OrderedIn(Items, mem.items \o exec.items)
  <2> DEFINE a == mem.items
             b == exec.items
             t == exec.turn
  <2>1. a \in Seq(MemItems) /\ b \in Seq(MemItems)
    BY <1>1, ItemFacts
  <2>2. \A k \in DOMAIN b : b[k].turn = t /\ b[k].id[1] = t
    <3>1. \A k \in DOMAIN b : b[k] \in Log!ToSet(b)
      BY DEF Log!ToSet
    <3> QED
      BY <1>3, <3>1 DEF Stages
  <2>3. ASSUME NEW m \in DOMAIN a, NEW k \in DOMAIN b, a[m].turn # t, NEW x \in Items, NEW y \in Items,
               x.id = a[m].id, y.id = b[k].id
        PROVE  x.seq < y.seq
    <3>1. a[m] \in Log!ToSet(a)
      BY DEF Log!ToSet
    <3>2. a[m] \in About /\ Log!Remembered(x) \in About /\ Log!Remembered(x).id = x.id /\ Log!Remembered(x).turn = x.turn
      BY <3>1 DEF About, Log!Remembered
    <3>3. x.turn = a[m].turn
      BY <1>3, <2>3, <3>2 DEF SameTurn
    <3>4. y.turn = t
      BY <1>1, <1>4, <2>2, <2>3, ItemFacts
    <3> QED
      BY <1>5, <2>3, <3>3, <3>4 DEF TurnNumbers
  <2> HIDE DEF a, b, t
  <2> QED
    BY ZenonT(40), <1>5, <2>1, <2>2, <2>3, OrderedJoin DEF a, b
<1>9. Above(Items', mem'.next) /\ Distinct(Items') /\ OrderedIn(Items', mem'.items)
      /\ KnownIn(Items', disk'.snap, covers') /\ SnapOver'
  BY <1>2, <1>4, <1>5, <1>6, <1>8 DEF TurnNumbers, SnapOver
<1>10. \A e \in Edits : stage'[e] # "spawned"
  <2>1. \A u \in Turns : Busy(u) => mem.active = u
    BY <1>1 DEF RestartInv, OneTurn
  <2>2. \A u \in Turns : Busy(u) => u = exec.turn
    BY <1>3, <1>4, <2>1 DEF Busy, Stages
  <2>3. PICK t \in Turns : t = exec.turn
    BY <1>4
  <2>4. stage'[t] = "over" /\ \A u \in Turns : u # t => stage'[u] = stage[u]
    BY <1>3, <1>4, <2>3, OtherStages
  <2> QED
    BY <1>0, <2>2, <2>3, <2>4 DEF Busy
<1> QED
  BY <1>2, <1>7, <1>9, <1>10, NumbersOfTurns

LEMMA CrashNumbers ==
  ASSUME NumberInv, Log!Next, Straight', Log!Crash
  PROVE  Numbers'
<1>1. RestartInv /\ Numbers /\ Numbered /\ Straight /\ Whole /\ tail = None
  BY StraightBefore DEF NumberInv
<1>2. Typed /\ disk \in Disks
  BY <1>1, ItemFacts DEF RestartInv, GoneInv
<1>3. /\ mem' = Log!Loaded(Log!WholeFile) /\ Log!WholeFile = disk /\ exec' = Log!NoTurn /\ UNCHANGED <<disk, covers>>
      /\ (\A t \in Turns : stage'[t] = IF stage[t] = "new" THEN "new" ELSE "over")
      /\ \A o \in Ops : IF op[o].pc = "off" THEN op'[o] = op[o] ELSE op'[o].pc = "done"
  BY <1>1, <1>2, CrashDoes, WholeFileIs DEF Typed
<1>4. Nobody' /\ exec'.turn = None /\ Items' = Items
  BY <1>3, NoTurnIs DEF Nobody, AtWork, Items
<1>5. \A e \in Edits : stage'[e] # "spawned"
  BY <1>3, Constants
<1> DEFINE m == mem'
<1>6. m = Log!Loaded(disk)
  BY <1>3
<1> HIDE DEF m
<1>7. /\ m \in Mems /\ disk.next <= m.next
      /\ \A k, n \in DOMAIN m.items : k < n =>
           \E u, v \in Items : m.items[k] = Log!Remembered(u) /\ m.items[n] = Log!Remembered(v) /\ u.seq <= v.seq
  BY <1>2, <1>6, LoadedIs DEF Items
<1>8. \A x \in Items : x.seq \in Nat /\ disk.next \in Nat /\ m.next \in Nat
  BY <1>1, <1>7, ItemFacts DEF Mems
<1>9. Above(Items, m.next)
  BY <1>1, <1>7, <1>8 DEF Above, Numbered
<1>10. Distinct(Items) /\ KnownIn(Items, disk.snap, covers) /\ SnapOver
  BY <1>1 DEF Numbers
<1>11. OrderedIn(Items, m.items)
  <2> SUFFICES ASSUME NEW k \in DOMAIN m.items, NEW n \in DOMAIN m.items, k < n, m.items[k].turn # m.items[n].turn,
                      NEW x \in Items, NEW y \in Items, x.id = m.items[k].id, y.id = m.items[n].id
               PROVE  x.seq < y.seq
    BY DEF OrderedIn
  <2>1. PICK u \in Items, v \in Items :
          m.items[k] = Log!Remembered(u) /\ m.items[n] = Log!Remembered(v) /\ u.seq <= v.seq
    BY <1>7
  <2>2. x.id = u.id /\ y.id = v.id /\ u.turn # v.turn
    BY <2>1 DEF Log!Remembered
  <2>3. x = u /\ y = v /\ u # v
    BY <1>10, <2>2 DEF Distinct
  <2>4. u.seq # v.seq
    BY <1>10, <2>3 DEF Distinct
  <2> QED
    BY <1>8, <2>1, <2>3, <2>4
<1>12. SnapOver'
  <2>1. disk.snap # None => disk.snap.summary[1] \in Ops
    BY <1>1, ItemFacts, Constants
  <2> QED
    BY <1>3, <1>10, <2>1 DEF SnapOver
<1>13. Above(Items', mem'.next) /\ OrderedIn(Items', mem'.items)
  BY <1>4, <1>9, <1>11 DEF m
<1> QED
  BY <1>3, <1>4, <1>5, <1>10, <1>12, <1>13, NumbersOfTurns

(* While a request is at work: what is left to show of its own.              *)
LEMMA NumbersOfOp ==
  ASSUME NEW o \in Ops, \A p \in Ops : p # o => ~AtWork(p)', exec'.turn = None,
         \A e \in Edits : e # o => stage'[e] # "spawned",
         Distinct(Items'), Resting' => Above(Items', mem'.next), OrderedIn(Items', mem'.items),
         SnapOver', KnownIn(Items', disk'.snap, covers'),
         o \in Edits => EditNumbers(o)', o \in Compacts => CompactNumbers(o)', NextNumbers(o)'
  PROVE  Numbers'
<1>1. \A p \in Ops : p # o => op'[p].pc \in {"off", "done"}
  BY DEF AtWork
<1>2. Edits \subseteq Ops /\ Compacts \subseteq Ops
  BY Constants
<1>3. \A e \in Edits : EditNumbers(e)'
  <2> TAKE e \in Edits
  <2>1. CASE e = o
    BY <2>1
  <2>2. CASE e # o
    BY <1>1, <1>2, <2>2 DEF EditNumbers
  <2> QED
    BY <2>1, <2>2
<1>4. \A c \in Compacts : CompactNumbers(c)'
  <2> TAKE c \in Compacts
  <2>1. CASE c = o
    BY <2>1
  <2>2. CASE c # o
    BY <1>1, <1>2, <2>2 DEF CompactNumbers
  <2> QED
    BY <2>1, <2>2
<1>5. \A p \in Ops : NextNumbers(p)'
  <2> TAKE p \in Ops
  <2>1. CASE p = o
    BY <2>1
  <2>2. CASE p # o
    BY <1>1, <2>2 DEF NextNumbers, HasNext
  <2> QED
    BY <2>1, <2>2
<1> QED
  BY <1>3, <1>4, <1>5 DEF Numbers

LEMMA OtherCovers ==
  ASSUME Typed, NEW o \in Ops, Acts(o), ~(o \in Compacts /\ Log!Summarize(o))
  PROVE  UNCHANGED covers
<1>1. CASE o \in Edits /\ EditActs(o)
  <2>2. CASE Log!EditNote(o) \/ Log!Supersede(o) \/ Log!EditRestore(o) \/ Log!EditTurnLine(o)
    BY <2>2 DEF Log!EditNote, Log!Supersede, Log!EditRestore, Log!EditTurnLine, Log!Step
  <2>3. CASE Log!EditExport(o) \/ Log!EditRewrite(o) \/ Log!EditItem(o) \/ Log!EditReplace(o)
    BY <2>3 DEF Log!EditExport, Log!EditRewrite, Log!EditItem, Log!EditReplace, Log!Replace
  <2> QED
    BY <1>1, <2>2, <2>3 DEF EditActs
<1>2. CASE o \in Rollbacks /\ RollbackActs(o)
  BY <1>2 DEF RollbackActs, Log!RollbackExport, Log!RollbackAppend, Log!Step, Log!RollbackReplace, Log!Replace
<1>3. CASE o \in Compacts /\ CompactActs(o)
  BY <1>3 DEF CompactActs, Log!CompactExport, Log!CompactRewrite, Log!CompactItem, Log!CompactSnapshot, Log!CompactReplace,
     Log!Replace
<1> QED
  BY <1>1, <1>2, <1>3 DEF Acts

(* Around a step of a request that is at work after it.                      *)
LEMMA ActsNumbersAre ==
  ASSUME NumberInv, Log!Next, Straight', NEW o \in Ops, AtWork(o)'
  PROVE  /\ RestartInv /\ Numbers /\ Typed /\ Stages /\ Places /\ Orderly /\ tail = None /\ marks' = {}
         /\ Acts(o) /\ (\A p \in Ops : p # o => ~AtWork(p)') /\ exec.turn = None /\ exec'.turn = None
         /\ (\A e \in Edits : stage'[e] # "spawned")
         /\ (op[o].pc \notin {"snapshot", "replace"} => Above(Items, mem.next))
         /\ op[o].pc \notin {"replace", "done"}
         /\ (disk.snap # None => disk.snap.summary \in Compacts \X {0} /\ disk.snap.summary[1] # o)
         /\ (disk'.snap \in {disk.snap, None} => SnapOver')
         /\ KnownIn(Items, disk.snap, covers')
         /\ \A e \in Edits : op[e].pc = op'[e].pc \/ e = o
<1>1. RestartInv /\ Numbers /\ Straight /\ Whole' /\ ~raced /\ ~raced'
  BY StraightBefore DEF NumberInv
<1>2. /\ Typed /\ Stages /\ Places /\ Orderly /\ tail = None /\ marks' = {} /\ Acts(o)
  BY <1>1, GoesOn
<1>3. exec.turn = None /\ exec'.turn = None /\ \A p \in Ops : p # o => ~AtWork(p) /\ ~AtWork(p)' /\ op'[p] = op[p]
  BY <1>1, <1>2, ActsFree
<1>4. Lone /\ \A e \in Edits : stage'[e] # "spawned"
  <2>1. Lone
    BY <1>1 DEF RestartInv, GoneInv
  <2>2. \A t \in Turns : ~Busy(t)'
    BY <1>1, <1>2, <2>1, Alone
  <2> QED
    BY <2>1, <2>2, Constants DEF Busy
<1>5. op[o].pc \notin {"snapshot", "replace"} => Above(Items, mem.next)
  BY <1>1, <1>3 DEF Numbers, Resting, AtWork
<1>6. op[o].pc \notin {"replace", "done"}
  <2>1. op[o].pc # "done"
    BY <1>2, ActsAlone
  <2>2. op[o].pc # "replace"
    BY <1>2, ReplaceActs, ReplaceDoes DEF AtWork
  <2> QED
    BY <2>1, <2>2
<1>7. disk.snap # None => disk.snap.summary \in Compacts \X {0} /\ disk.snap.summary[1] # o
  BY <1>1, <1>6, ItemFacts DEF Numbers, SnapOver
<1>8. disk'.snap \in {disk.snap, None} => SnapOver'
  <2>1. disk.snap # None => disk.snap.summary[1] \in Ops
    BY <1>7, Constants
  <2> QED
    BY <1>1, <1>3, <1>7, <2>1 DEF Numbers, SnapOver
<1>9. KnownIn(Items, disk.snap, covers')
  <2>1. \A c \in Compacts : c # o => covers'[c] = covers[c]
    <3>1. CASE o \in Compacts /\ Log!Summarize(o)
      BY <1>2, <3>1, SummarizeDoes
    <3>2. CASE ~(o \in Compacts /\ Log!Summarize(o))
      BY <1>2, <3>2, OtherCovers
    <3> QED
      BY <3>1, <3>2
  <2> SUFFICES ASSUME disk.snap # None, NEW s \in Items, s.id = disk.snap.summary, NEW x \in Items
               PROVE  x = s \/ x.id \in covers'[s.id[1]].read \/ s.seq < x.seq
    BY DEF KnownIn
  <2>2. x = s \/ x.id \in covers[s.id[1]].read \/ s.seq < x.seq
    BY <1>1 DEF Numbers, KnownIn
  <2>3. s.id[1] \in Compacts /\ s.id[1] # o
    BY <1>7
  <2> QED
    BY <2>1, <2>2, <2>3
<1>10. \A e \in Edits : op[e].pc = op'[e].pc \/ e = o
  BY <1>3, Constants
<1> QED
  BY <1>1, <1>2, <1>3, <1>4, <1>5, <1>6, <1>7, <1>8, <1>9, <1>10

(* A step that adds no item and no snapshot.                                 *)
LEMMA NoneNewer ==
  ASSUME NumberInv, Log!Next, Straight', NEW o \in Ops, AtWork(o)',
         Items' \subseteq Items, disk'.snap \in {disk.snap, None},
         mem'.items = mem.items, mem'.next = mem.next, op[o].pc # "snapshot",
         o \in Edits => EditNumbers(o)', o \in Compacts => CompactNumbers(o)', NextNumbers(o)'
  PROVE  Numbers'
<1>1. /\ (\A p \in Ops : p # o => ~AtWork(p)') /\ exec'.turn = None /\ \A e \in Edits : stage'[e] # "spawned"
      /\ Above(Items, mem.next) /\ SnapOver' /\ KnownIn(Items, disk.snap, covers') /\ Numbers
  BY ActsNumbersAre
<1>2. Above(Items', mem'.next) /\ Distinct(Items') /\ OrderedIn(Items', mem'.items)
  BY <1>1, FewerIn DEF Numbers
<1>3. KnownIn(Items', disk'.snap, covers')
  <2>1. CASE disk'.snap = None
    BY <2>1 DEF KnownIn
  <2>2. CASE disk'.snap = disk.snap
    BY <1>1, <2>2, FewerIn
  <2> QED
    BY <2>1, <2>2
<1> QED
  BY <1>1, <1>2, <1>3, NumbersOfOp

(* A step that adds an item of its own with the next number.                 *)
LEMMA OneNewer ==
  ASSUME NumberInv, Log!Next, Straight', NEW o \in Ops, AtWork(o)', NEW i \in DiskItems, i.id = <<o, 0>>,
         Log!AppendTried(Log!ItemLine(i)), i.turn \notin disk.gone, ~Written(i.id), Above(Items, i.seq),
         mem'.items = mem.items
  PROVE  /\ Items' = Items \cup {i} /\ Distinct(Items') /\ OrderedIn(Items', mem'.items)
         /\ SnapOver' /\ KnownIn(Items', disk'.snap, covers')
         /\ \A x \in Items : x.id # i.id /\ x.seq < i.seq
         /\ \A n \in DOMAIN mem.items : mem.items[n].id # i.id
<1>1. /\ RestartInv /\ Numbers /\ (disk'.snap \in {disk.snap, None} => SnapOver')
      /\ (disk.snap # None => disk.snap.summary \in Compacts \X {0} /\ disk.snap.summary[1] # o)
      /\ KnownIn(Items, disk.snap, covers')
  BY ActsNumbersAre
<1>2. Items' = Items \cup {i} /\ disk'.snap = disk.snap
  BY <1>1, ItemAppended
<1>3. \A x \in Items : x.id # i.id /\ x.seq < i.seq /\ x.seq \in Nat
  BY <1>1, ItemFacts DEF Above
<1>4. i.seq \in Nat
  BY DEF DiskItems
<1>5. \A n \in DOMAIN mem.items : mem.items[n].id # i.id
  BY <1>1, ItemFacts DEF Written
<1>6. \A x \in Items : x.id # i.id /\ x.seq # i.seq
  BY <1>3, <1>4
<1>7. disk.snap # None => i.id # disk.snap.summary /\ \A x \in Items : x.id = disk.snap.summary => x.seq < i.seq
  BY <1>1, <1>3
<1>8. Distinct(Items \cup {i}) /\ OrderedIn(Items \cup {i}, mem.items) /\ KnownIn(Items \cup {i}, disk.snap, covers')
  BY <1>1, <1>5, <1>6, <1>7, OneMore DEF Numbers
<1> QED
  BY <1>1, <1>2, <1>3, <1>5, <1>8

LEMMA KeptOrder ==
  ASSUME NEW S, NEW s \in Seq(MemItems), OrderedIn(S, s), NEW t
  PROVE  Log!Others(s, t) \in Seq(MemItems) /\ OrderedIn(S, Log!Others(s, t))
         /\ \A m \in DOMAIN Log!Others(s, t) : Log!Others(s, t)[m] \in Log!ToSet(s)
<1> DEFINE those == {i \in Log!ToSet(s) : i.turn # t}
<1>0. Log!Others(s, t) = Log!Only(s, those)
  BY DEF Log!Others
<1> HIDE DEF those
<1> DEFINE o == Log!Only(s, those)
<1>1. Log!Others(s, t) = o
  BY <1>0
<1>2. /\ o \in Seq(MemItems)
      /\ \E g \in [1..Len(o) -> 1..Len(s)] :
           /\ \A k \in 1..Len(o) : o[k] = s[g[k]]
           /\ \A j, k \in 1..Len(o) : j < k => g[j] < g[k]
  BY OnlyKeeps
<1> HIDE DEF o
<1>3. PICK g \in [1..Len(o) -> 1..Len(s)] :
        /\ \A k \in 1..Len(o) : o[k] = s[g[k]]
        /\ \A j, k \in 1..Len(o) : j < k => g[j] < g[k]
  BY <1>2
<1>4. DOMAIN o = 1..Len(o) /\ DOMAIN s = 1..Len(s)
  BY <1>2
<1>5. OrderedIn(S, o)
  <2> SUFFICES ASSUME NEW m \in DOMAIN o, NEW n \in DOMAIN o, m < n, o[m].turn # o[n].turn,
                      NEW x \in S, NEW y \in S, x.id = o[m].id, y.id = o[n].id
               PROVE  x.seq < y.seq
    BY DEF OrderedIn
  <2>1. g[m] \in DOMAIN s /\ g[n] \in DOMAIN s /\ g[m] < g[n] /\ o[m] = s[g[m]] /\ o[n] = s[g[n]]
    BY <1>3, <1>4
  <2> QED
    BY <2>1 DEF OrderedIn
<1>6. \A m \in DOMAIN o : o[m] \in Log!ToSet(s)
  <2> TAKE m \in DOMAIN o
  <2>1. g[m] \in DOMAIN s /\ o[m] = s[g[m]]
    BY <1>3, <1>4
  <2> QED
    BY <2>1 DEF Log!ToSet
<1> QED
  BY <1>1, <1>2, <1>5, <1>6

LEMMA EditNumbersStep ==
  ASSUME NumberInv, Log!Next, Straight', NEW e \in Edits, AtWork(e)'
  PROVE  Numbers'
<1>0. e \in Ops /\ e \in Turns /\ e \notin Rollbacks \cup Compacts
  BY Constants
<1>1. /\ RestartInv /\ Numbers /\ Typed /\ Stages /\ Places /\ Orderly /\ tail = None /\ marks' = {}
      /\ Acts(e) /\ exec.turn = None /\ exec'.turn = None
      /\ (\A p \in Ops : p # e => ~AtWork(p)') /\ (\A u \in Edits : stage'[u] # "spawned")
      /\ (op[e].pc \notin {"snapshot", "replace"} => Above(Items, mem.next))
      /\ op[e].pc \notin {"replace", "done"}
  BY <1>0, ActsNumbersAre
<1>2. EditActs(e) /\ op'[e].pc \notin {"off", "done"} /\ op[e].pc # "snapshot"
  BY <1>0, <1>1, OpKinds DEF Acts, AtWork, Typed, EditPcs
<1>3. \A l : Log!AppendOk(l) => disk' = Log!Replayed(disk, l)
  BY <1>1, WholeAppend DEF Log!AppendTried
<1>4. disk \in Disks /\ mem.items \in Seq(MemItems)
  BY <1>1, ItemFacts
<1>5. ASSUME Items' \subseteq Items, disk'.snap \in {disk.snap, None}, mem' = mem, ~HasNext(e)',
             op'[e].pc # "rewrite"
      PROVE  Numbers'
  <2>1. EditNumbers(e)' /\ NextNumbers(e)'
    BY <1>1, <1>5 DEF EditNumbers, NextNumbers, HasNext
  <2> QED
    BY <1>0, <1>2, <1>5, <2>1, NoneNewer
<1>10. CASE Log!EditExport(e)
  <2>1. op'[e].pc = "note" /\ UNCHANGED <<disk, mem>>
    BY <1>1, <1>10, EditExportDoes
  <2> QED
    BY <1>0, <1>5, <2>1 DEF Items, HasNext
<1>11. CASE op'[e].pc \in {"supersede", "turn"} /\ Log!AppendOk(Log!NoteLine) /\ UNCHANGED mem
  <2>1. disk' = disk
    BY <1>3, <1>11, ReplayNote
  <2> QED
    BY <1>0, <1>5, <1>11, <2>1 DEF Items, HasNext
<1>12. CASE /\ op'[e].pc = "restore" /\ op[e].target \in Turns
            /\ Log!AppendOk([kind |-> "superseded", turn |-> op[e].target]) /\ UNCHANGED mem
  <2> DEFINE f == disk'
  <2>1. f = Log!Replayed(disk, [kind |-> "superseded", turn |-> op[e].target])
    BY <1>3, <1>12
  <2> HIDE DEF f
  <2>2. Log!ToSet(f.items) \subseteq Log!ToSet(disk.items) /\ f.snap \in {disk.snap, None}
    BY <1>4, <1>12, <2>1, ReplaySuperseded
  <2>3. Items' \subseteq Items /\ disk'.snap \in {disk.snap, None}
    BY <2>2 DEF f, Items
  <2> QED
    BY <1>0, <1>5, <1>12, <2>3 DEF HasNext
<1>13. CASE op'[e].pc = "item" /\ op[e].pc = "turn" /\ Log!AppendOk(Log!TurnLine(e)) /\ UNCHANGED mem
  <2> DEFINE f == disk'
  <2>1. f = Log!Replayed(disk, Log!TurnLine(e))
    BY <1>3, <1>13
  <2> HIDE DEF f
  <2>2. f.items = disk.items /\ f.snap = disk.snap
    BY <1>0, <1>4, <2>1, ReplayTurn
  <2>3. Items' = Items /\ disk'.snap = disk.snap
    BY <2>2 DEF f, Items
  <2> QED
    BY <1>0, <1>5, <1>13, <2>3 DEF HasNext
<1>14. CASE Log!EditItem(e) /\ op[e].pc = "item" /\ op'[e].pc = "rewrite"
  <2> DEFINE i == Replacement(e, mem.next)
  <2>1. i \in DiskItems /\ Log!AppendTried(Log!ItemLine(i)) /\ mem'.items = mem.items /\ mem'.next = mem.next + 1
    BY <1>1, <1>14, EditItemDoes
  <2>2. i.id = <<e, 0>> /\ i.turn = e /\ i.seq = mem.next /\ mem.next \in Nat
    BY <1>1, ItemFacts DEF Replacement
  <2> HIDE DEF i
  <2>3. e \notin disk.gone
    BY <1>0, <1>1, <1>14, NotGone
  <2>4. ~Written(i.id)
    <3>1. stage[e] = "new" /\ exec.turn # e
      BY <1>0, <1>1, <1>14 DEF Stages
    <3>2. i.id[1] = e
      BY <2>2
    <3> QED
      BY <1>0, <1>14, <3>1, <3>2 DEF Written, Settled
  <2>5. /\ Items' = Items \cup {i} /\ Distinct(Items') /\ OrderedIn(Items', mem'.items)
        /\ SnapOver' /\ KnownIn(Items', disk'.snap, covers')
        /\ \A x \in Items : x.id # i.id /\ x.seq < i.seq
    BY <1>0, <1>1, <1>14, <2>1, <2>2, <2>3, <2>4, OneNewer
  <2>6. Above(Items', mem'.next)
    <3>1. \A x \in Items : x.seq \in Nat
      BY <1>1, ItemFacts
    <3>2. \A x \in Items' : x.seq < mem.next + 1
      BY <2>2, <2>5, <3>1
    <3> QED
      BY <2>1, <3>2 DEF Above
  <2>7. EditNumbers(e)'
    <3>1. \A x, y \in Items' : x.id # <<e, 0>> /\ y.id = <<e, 0>> => x.seq < y.seq
      BY <2>2, <2>5
    <3> QED
      BY <3>1 DEF EditNumbers
  <2>8. NextNumbers(e)'
    BY <1>0, <1>14 DEF NextNumbers, HasNext
  <2> QED
    BY <1>0, <1>1, <2>5, <2>6, <2>7, <2>8, NumbersOfOp
<1>15. CASE Log!EditRewrite(e)
  <2> DEFINE new == [id |-> <<e, 0>>, turn |-> e]
             kept == Log!Others(mem.items, op[e].target)
  <2>1. /\ op[e].pc = "rewrite" /\ op'[e].pc = "replace" /\ UNCHANGED <<disk, mem>>
        /\ op'[e].next.items = Append(kept, new) /\ op'[e].next.next = mem.next
    BY <1>1, <1>15, EditRewriteDoes
  <2>2. new.id = <<e, 0>> /\ new.turn = e /\ new \in MemItems
    BY <1>0 DEF MemItems, ItemIds
  <2>3. kept \in Seq(MemItems) /\ OrderedIn(Items, kept) /\ \A m \in DOMAIN kept : kept[m] \in Log!ToSet(mem.items)
    BY <1>1, <1>4, KeptOrder DEF Numbers
  <2> HIDE DEF new, kept
  <2>4. \A x \in Items : x.id # <<e, 0>> => \A y \in Items : y.id = <<e, 0>> => x.seq < y.seq
    BY <1>1, <2>1 DEF Numbers, EditNumbers
  <2>5. \A m \in DOMAIN kept : kept[m].id # <<e, 0>>
    <3>1. ~Settled(<<e, 0>>)
      BY <1>0, <1>1, <2>1 DEF Stages, Settled
    <3> QED
      BY <1>1, <2>3, <3>1, ItemFacts
  <2>6. \A m \in DOMAIN kept : kept[m].turn # new.turn =>
          \A x, y \in Items : x.id = kept[m].id /\ y.id = new.id => x.seq < y.seq
    BY <2>2, <2>4, <2>5
  <2>7. OrderedIn(Items, Append(kept, new))
    BY <2>2, <2>3, <2>6, OrderedAppend
  <2>8. Items' = Items
    BY <2>1 DEF Items
  <2>9. NextNumbers(e)'
    <3>1. Above(Items', op'[e].next.next) /\ OrderedIn(Items', op'[e].next.items)
      BY <1>1, <2>1, <2>7, <2>8
    <3> QED
      BY <3>1 DEF NextNumbers
  <2>10. EditNumbers(e)'
    BY <2>4, <2>8 DEF EditNumbers
  <2> QED
    BY <1>0, <1>2, <2>1, <2>8, <2>9, <2>10, NoneNewer
<1> QED
  BY <1>1, <1>2, <1>10, <1>11, <1>12, <1>13, <1>14, <1>15, EditSteps

LEMMA RollbackNumbersStep ==
  ASSUME NumberInv, Log!Next, Straight', NEW r \in Rollbacks, AtWork(r)'
  PROVE  Numbers'
<1>0. r \in Ops /\ r \notin Edits \cup Compacts
  BY Constants
<1>1. /\ RestartInv /\ Numbers /\ Typed /\ tail = None /\ marks' = {} /\ Acts(r)
      /\ op[r].pc \notin {"replace", "done"}
  BY <1>0, ActsNumbersAre
<1>2. RollbackActs(r) /\ op'[r].pc \notin {"off", "done"} /\ op[r].pc # "snapshot"
  BY <1>0, <1>1, OpKinds DEF Acts, AtWork, Typed
<1>3. disk \in Disks /\ mem.items \in Seq(MemItems)
  BY <1>1, ItemFacts
<1>4. ~Log!RollbackReplace(r)
  BY <1>0, <1>1, ReplaceDoes DEF Log!RollbackReplace
<1>5. CASE Log!RollbackExport(r)
  <2>1. op'[r].pc = "append" /\ UNCHANGED <<disk, mem>>
    BY <1>1, <1>5, RollbackExportDoes
  <2>2. PICK k \in 0..Len(mem.items) : op'[r].next.items = SubSeq(mem.items, 1, k)
    BY <1>1, <1>5, RollbackExportDoes
  <2> DEFINE s == mem.items
             u == SubSeq(s, 1, k)
  <2>3. u \in Seq(MemItems) /\ Len(u) = k /\ \A n \in 1..k : u[n] = s[n]
    BY <1>3, <2>2, Begun
  <2>4. k \in 0..Len(s) /\ OrderedIn(Items, s) /\ s \in Seq(MemItems)
    BY <1>1, <1>3, <2>2 DEF Numbers
  <2> HIDE DEF s, u
  <2>5. OrderedIn(Items, u)
    <3>1. DOMAIN u = 1..k /\ 1..k \subseteq DOMAIN s
      BY <2>3, <2>4
    <3> QED
      BY <2>3, <2>4, <3>1 DEF OrderedIn
  <2>6. NextNumbers(r)' /\ Items' = Items
    BY <2>1, <2>2, <2>5 DEF u, s, NextNumbers, Items
  <2> QED
    BY <1>0, <1>2, <2>1, <2>6, NoneNewer
<1>6. CASE Log!RollbackAppend(r)
  <2> DEFINE l == CutLine(op[r].next.items, op[r].next.latest)
             f == disk'
  <2>1. /\ l \in CutLines /\ Log!AppendTried(l) /\ op[r].pc = "append" /\ mem' = mem
        /\ op'[r].pc = "replace" /\ op'[r].next = op[r].next
    BY <1>1, <1>2, <1>6, RollbackAppendDoes
  <2>2. f = Log!Replayed(disk, l)
    BY <1>1, <2>1, WholeAppend
  <2> HIDE DEF f, l
  <2>3. Log!ToSet(f.items) \subseteq Log!ToSet(disk.items) /\ f.snap \in {disk.snap, None}
    BY SMTT(30), <1>3, <2>1, <2>2, ReplayRollback
  <2>4. Items' \subseteq Items /\ disk'.snap \in {disk.snap, None}
    BY <2>3 DEF f, Items
  <2>5. OrderedIn(Items', op'[r].next.items)
    <3>1. OrderedIn(Items, op[r].next.items)
      BY <1>0, <1>1, <2>1 DEF Numbers, NextNumbers, HasNext
    <3> QED
      BY <2>1, <2>4, <3>1, FewerIn
  <2>6. Above(Items', op'[r].next.next)
    <3>1. ~Log!Behind'
      BY LogCases DEF Straight
    <3>2. ~(op'[r].next.next < disk'.next)
      BY <2>1, <3>1 DEF Log!Behind, Log!At
    <3>3. Typed' /\ Above(Items', disk'.next)
      BY <1>1, TypedStep, NumberedStep DEF NumberInv, RestartInv, GoneInv, Numbered
    <3>4. disk'.next \in Nat /\ op'[r].next.next \in Nat /\ \A x \in Items' : x.seq \in Nat
      <4>1. disk' \in Disks
        BY <3>3 DEF Typed, FileTyped
      <4>2. op'[r].next \in Mems
        BY <1>0, <1>1, <2>1, OpKinds DEF Typed
      <4>3. Items' \subseteq DiskItems
        BY <1>1, <2>4, TypedParts
      <4> QED
        BY <4>1, <4>2, <4>3 DEF Disks, Mems, DiskItems
    <3> QED
      BY <3>2, <3>3, <3>4 DEF Above
  <2>7. NextNumbers(r)'
    BY <2>5, <2>6 DEF NextNumbers
  <2> QED
    BY <1>0, <1>2, <2>1, <2>4, <2>7, NoneNewer
<1> QED
  BY <1>2, <1>4, <1>5, <1>6 DEF RollbackActs

LEMMA CompactNumbersStep ==
  ASSUME NumberInv, Log!Next, Straight', NEW c \in Compacts, AtWork(c)'
  PROVE  Numbers'
<1>0. c \in Ops /\ c \notin Edits \cup Rollbacks /\ c \notin Turns
  BY Constants
<1>1. /\ RestartInv /\ Numbers /\ Typed /\ Stages /\ Places /\ Orderly /\ tail = None /\ marks' = {}
      /\ Acts(c) /\ exec.turn = None /\ exec'.turn = None
      /\ (\A p \in Ops : p # c => ~AtWork(p)') /\ (\A u \in Edits : stage'[u] # "spawned")
      /\ (op[c].pc \notin {"snapshot", "replace"} => Above(Items, mem.next))
      /\ op[c].pc \notin {"replace", "done"}
  BY <1>0, ActsNumbersAre
<1>2. CompactActs(c) /\ op'[c].pc \notin {"off", "done"}
  BY <1>0, <1>1 DEF Acts, AtWork
<1>3. disk \in Disks /\ mem.items \in Seq(MemItems) /\ mem.next \in Nat
  BY <1>1, ItemFacts
<1>4. ~Log!CompactReplace(c)
  BY <1>0, <1>1, ReplaceDoes DEF Log!CompactReplace
<1>5. CompactNumbers(c) /\ NextNumbers(c) /\ Distinct(Items) /\ OrderedIn(Items, mem.items)
  BY <1>0, <1>1 DEF Numbers
<1>10. CASE Log!CompactExport(c)
  <2>1. op[c].pc = "off" /\ op'[c].pc = "summarize" /\ op'[c].items = mem.items /\ UNCHANGED <<disk, mem>>
    BY <1>1, <1>10, CompactExportDoes
  <2>2. DiskIds = MemIdSet
    BY <1>0, <1>1, <2>1, StartsAlone, StraightBefore DEF NumberInv
  <2>3. Items' = Items /\ DiskIds' = DiskIds
    BY <2>1 DEF DiskIds, Items
  <2>4. CompactNumbers(c)' /\ NextNumbers(c)'
    BY <1>0, <2>1, <2>2, <2>3 DEF CompactNumbers, NextNumbers, HasNext, MemIdSet
  <2> QED
    BY <1>0, <2>1, <2>3, <2>4, NoneNewer
<1>11. CASE Log!Summarize(c)
  <2>1. /\ op[c].pc = "summarize" /\ op'[c].pc = "export" /\ UNCHANGED <<disk, mem>>
        /\ covers'[c].read = IdsIn(Log!ToSet(op[c].items))
    BY <1>1, <1>2, <1>11, SummarizeDoes DEF IdsIn
  <2>2. Items' = Items /\ DiskIds' = DiskIds
    BY <2>1 DEF DiskIds, Items
  <2>3. DiskIds' \subseteq covers'[c].read
    BY <1>5, <2>1, <2>2 DEF CompactNumbers
  <2>4. CompactNumbers(c)' /\ NextNumbers(c)'
    BY <1>0, <2>1, <2>3 DEF CompactNumbers, NextNumbers, HasNext
  <2> QED
    BY <1>0, <2>1, <2>2, <2>4, NoneNewer
<1>12. CASE Log!CompactRewrite(c)
  <2>1. op[c].pc = "export" /\ UNCHANGED <<disk, mem, covers>>
    BY <1>1, <1>12, CompactRewriteDoes
  <2>2. Items' = Items /\ DiskIds' = DiskIds /\ DiskIds \subseteq covers[c].read
    BY <1>5, <2>1 DEF DiskIds, Items, CompactNumbers
  <2>3. CASE op'[c].pc = "replace" /\ op'[c].next = mem
    <3>1. Above(Items, mem.next)
      BY <1>1, <2>1
    <3>2. CompactNumbers(c)' /\ NextNumbers(c)'
      BY <1>0, <1>5, <2>1, <2>2, <2>3, <3>1 DEF CompactNumbers, NextNumbers, HasNext
    <3> QED
      BY <1>0, <2>1, <2>2, <3>2, NoneNewer
  <2>4. CASE /\ op'[c].pc = "item" /\ Summary(c) \in DiskItems /\ op'[c].line = Log!ItemLine(Summary(c))
             /\ op'[c].snap.summary = <<c, 0>>
             /\ op'[c].next.items = Append(mem.items, Log!Remembered(Summary(c)))
             /\ op'[c].next.next = mem.next + 1
    <3> DEFINE i == Summary(c)
               new == Log!Remembered(i)
    <3>1. i.id = <<c, 0>> /\ i.seq = mem.next /\ op'[c].line.item = i
      BY <2>4 DEF Summary, Log!ItemLine
    <3>2. new.id = <<c, 0>> /\ new \in MemItems
      BY <2>4, <3>1 DEF Log!Remembered, MemItems, DiskItems
    <3>3. Above(Items, mem.next)
      BY <1>1, <2>1
    <3>4. op'[c].next.items = Append(mem.items, new)
      BY <2>4
    <3>5. \A y \in Items : y.id # <<c, 0>>
      <4>1. ~Written(<<c, 0>>)
        BY <1>0, <1>1, <2>1, Constants DEF Written, Settled
      <4> QED
        BY <1>1, <4>1, ItemFacts
    <3> HIDE DEF i, new
    <3>6. OrderedIn(Items, Append(mem.items, new))
      <4>1. \A m \in DOMAIN mem.items : mem.items[m].turn # new.turn =>
              \A x, y \in Items : x.id = mem.items[m].id /\ y.id = new.id => x.seq < y.seq
        BY <3>2, <3>5
      <4> QED
        BY <1>3, <1>5, <3>2, <4>1, OrderedAppend
    <3>7. CompactNumbers(c)'
      <4>1. op'[c].next.items = Append(mem'.items, Log!Remembered(op'[c].line.item))
        BY <2>1, <3>1, <3>4 DEF new
      <4> QED
        BY <2>1, <2>2, <2>4, <3>1, <3>3, <4>1 DEF CompactNumbers
    <3>8. NextNumbers(c)'
      BY <2>2, <2>4, <3>4, <3>6 DEF NextNumbers
    <3> QED
      BY <1>0, <2>1, <2>2, <3>7, <3>8, NoneNewer
  <2> QED
    BY <1>1, <1>12, <2>3, <2>4, CompactRewriteDoes
<1>13. CASE Log!CompactItem(c)
  <2> DEFINE i == op[c].line.item
             new == Log!Remembered(i)
  <2>1. /\ op[c].line = Log!ItemLine(i) /\ i \in DiskItems /\ Log!AppendTried(Log!ItemLine(i))
        /\ op[c].pc = "item" /\ op'[c].pc = "snapshot" /\ op'[c].next = op[c].next /\ op'[c].snap = op[c].snap
        /\ UNCHANGED <<mem, covers>>
    BY <1>1, <1>13, CompactItemDoes
  <2>2. i.id = <<c, 0>> /\ i.seq \in Nat
    BY <1>0, <1>1, <2>1 DEF Places, Copied, DiskItems
  <2>3. i.turn \notin disk.gone
    <3>1. CompactFacts(c)
      BY <1>0, <1>1, GoesOn, StraightBefore DEF NumberInv
    <3> QED
      BY <1>1, <2>1, <3>1 DEF CompactFacts, Orderly
  <2>4. /\ Above(Items, i.seq) /\ op[c].next.next = i.seq + 1 /\ op[c].next.items = Append(mem.items, new)
        /\ op[c].snap.summary = <<c, 0>> /\ DiskIds \subseteq covers[c].read
    BY <1>5, <2>1 DEF CompactNumbers
  <2>5. new.id = <<c, 0>> /\ new.turn = i.turn /\ new \in MemItems
    BY <2>1, <2>2 DEF Log!Remembered, MemItems, DiskItems
  <2> HIDE DEF i, new
  <2>6. ~Written(i.id)
    <3>1. ~Written(<<c, 0>>)
      BY <1>0, <1>1, <2>1, Constants DEF Written, Settled
    <3> QED
      BY <2>2, <3>1
  <2>7. /\ Items' = Items \cup {i} /\ Distinct(Items') /\ OrderedIn(Items', mem'.items)
        /\ SnapOver' /\ KnownIn(Items', disk'.snap, covers')
        /\ (\A x \in Items : x.id # i.id /\ x.seq < i.seq)
        /\ \A n \in DOMAIN mem.items : mem.items[n].id # i.id
    BY <1>0, <2>1, <2>2, <2>3, <2>4, <2>6, OneNewer
  <2>8. OrderedIn(Items', Append(mem.items, new))
    <3>1. \A m \in DOMAIN mem.items : mem.items[m].turn # new.turn =>
            \A x, y \in Items' : x.id = mem.items[m].id /\ y.id = new.id => x.seq < y.seq
      BY <2>2, <2>5, <2>7
    <3> QED
      BY <1>3, <2>1, <2>5, <2>7, <3>1, OrderedAppend
  <2>9. Above(Items', i.seq + 1)
    <3>1. \A x \in Items : x.seq \in Nat
      BY <1>1, ItemFacts
    <3> QED
      BY <2>2, <2>7, <3>1 DEF Above
  <2>10. DiskIds' \subseteq covers[c].read \cup {<<c, 0>>}
    BY <2>2, <2>4, <2>7 DEF DiskIds, IdsIn
  <2>11. CompactNumbers(c)'
    BY <2>1, <2>4, <2>10 DEF CompactNumbers
  <2>12. NextNumbers(c)'
    BY <2>1, <2>4, <2>8, <2>9 DEF NextNumbers
  <2>13. ~Resting'
    BY <1>0, <2>1 DEF Resting
  <2> QED
    BY <1>0, <1>1, <2>7, <2>11, <2>12, <2>13, NumbersOfOp
<1>14. CASE Log!CompactSnapshot(c)
  <2> DEFINE s == op[c].snap
             f == disk'
  <2>1. /\ s \in Snaps /\ Log!AppendTried([kind |-> "snapshot", snap |-> s]) /\ op[c].pc = "snapshot"
        /\ op'[c].pc = "replace" /\ op'[c].next = op[c].next /\ UNCHANGED <<mem, covers>>
    BY <1>1, <1>14, CompactSnapshotDoes
  <2>2. f = Log!Replayed(disk, [kind |-> "snapshot", snap |-> s])
    BY <1>1, <2>1, WholeAppend
  <2> HIDE DEF f
  <2>3. f.items = disk.items /\ f.snap = s
    BY <1>3, <2>1, <2>2, ReplaySnapshot
  <2>4. Items' = Items /\ disk'.snap = s
    BY <2>3 DEF f, Items
  <2>5. s.summary = <<c, 0>> /\ DiskIds \subseteq covers[c].read \cup {<<c, 0>>}
    BY <1>5, <2>1 DEF CompactNumbers
  <2> HIDE DEF s
  <2>6. KnownIn(Items', disk'.snap, covers')
    <3> SUFFICES ASSUME NEW y \in Items, y.id = <<c, 0>>, NEW x \in Items
                 PROVE  x = y \/ x.id \in covers[y.id[1]].read
      BY <2>1, <2>4, <2>5 DEF KnownIn
    <3>1. y.id[1] = c /\ x.id \in DiskIds
      BY DEF DiskIds, IdsIn
    <3>2. x.id = <<c, 0>> => x = y
      BY <1>5 DEF Distinct
    <3> QED
      BY <2>5, <3>1, <3>2
  <2>7. SnapOver'
    BY <2>1, <2>4, <2>5 DEF SnapOver
  <2>8. NextNumbers(c)'
    BY <1>5, <2>1, <2>4 DEF NextNumbers, HasNext
  <2>9. CompactNumbers(c)' /\ ~Resting'
    BY <1>0, <2>1 DEF CompactNumbers, Resting
  <2> QED
    BY <1>0, <1>1, <1>5, <2>1, <2>4, <2>6, <2>7, <2>8, <2>9, NumbersOfOp
<1> QED
  BY <1>2, <1>4, <1>10, <1>11, <1>12, <1>13, <1>14 DEF CompactActs

LEMMA ActsNumbers ==
  ASSUME NumberInv, Log!Next, Straight', NEW o \in Ops, Acts(o)
  PROVE  Numbers'
<1>1. /\ RestartInv /\ Numbers /\ ~raced /\ ~raced' /\ marks' = {} /\ Typed /\ Stages
  BY StraightBefore DEF NumberInv, RestartInv, GoneInv
<1>2. CASE AtWork(o)'
  BY <1>2, EditNumbersStep, RollbackNumbersStep, CompactNumbersStep, Constants
<1>3. CASE ~AtWork(o)'
  <2>0. Edits \subseteq Turns /\ Edits \subseteq Ops /\ Compacts \subseteq Ops /\ Edits \cap Compacts = {}
    BY Constants
  <2>1. op[o].pc \notin {"off", "done"} /\ op'[o].pc = "done"
    BY <1>1, <1>3, ActsAlone DEF AtWork
  <2>2. /\ exec.turn = None /\ exec'.turn = None
        /\ \A p \in Ops : p # o => ~AtWork(p) /\ ~AtWork(p)' /\ op'[p] = op[p]
    BY <1>1, ActsFree
  <2>3. \A t \in Turns : ~Busy(t)
    BY <1>1, <2>1 DEF RestartInv, GoneInv, Lone, AtWork
  <2>4. SnapOver /\ Distinct(Items) /\ OrderedIn(Items, mem.items) /\ KnownIn(Items, disk.snap, covers)
        /\ NextNumbers(o) /\ (o \in Edits => EditNumbers(o))
    BY <1>1 DEF Numbers
  <2>5. (o \in Compacts => CompactNumbers(o)') /\ NextNumbers(o)'
    BY <2>1 DEF CompactNumbers, NextNumbers, HasNext
  <2>6. SnapOver' \/ disk'.snap # disk.snap
    <3>1. disk.snap # None => disk.snap.summary[1] \in Ops
      BY <1>1, <2>0, ItemFacts
    <3> QED
      BY <2>1, <2>2, <2>4, <3>1 DEF SnapOver
  <2>7. CASE Log!Replace(o) /\ op[o].pc = "replace"
    <3>1. UNCHANGED <<disk, covers>> /\ mem' = op[o].next
      BY <1>1, <2>7, ReplaceDoes
    <3>2. Items' = Items
      BY <3>1 DEF Items
    <3>3. Above(Items, op[o].next.next) /\ OrderedIn(Items, op[o].next.items)
      BY <2>4, <2>7 DEF NextNumbers, HasNext
    <3>4. o \in Edits => EditNumbers(o)'
      BY <2>4, <2>7, <3>2 DEF EditNumbers
    <3>5. \A e \in Edits : e # o => stage'[e] # "spawned"
      <4>1. o \in Edits => stage' = [stage EXCEPT ![o] = "spawned"]
        BY <1>1, <2>7, ReplaceActs
      <4>2. o \notin Edits => UNCHANGED stage
        BY <1>1, <2>7, ReplaceActs, Constants
      <4>3. \A e \in Edits : e # o => stage'[e] = stage[e]
        BY <1>1, <2>0, <4>1, <4>2, OtherStages
      <4> QED
        BY <2>0, <2>3, <4>3 DEF Busy
    <3> QED
      BY <2>2, <2>4, <2>5, <2>6, <3>1, <3>2, <3>3, <3>4, <3>5, NumbersOfOp
  <2>8. CASE op[o].pc = "summarize" /\ o \in Compacts /\ UNCHANGED <<disk, mem, stage, covers>>
    <3>1. Items' = Items
      BY <2>8 DEF Items
    <3>2. Above(Items, mem.next)
      <4>1. Resting
        BY <2>2, <2>8 DEF Resting, AtWork
      <4> QED
        BY <1>1, <4>1 DEF Numbers
    <3>3. \A e \in Edits : stage'[e] # "spawned"
      BY <2>0, <2>3, <2>8 DEF Busy
    <3> QED
      BY <2>0, <2>2, <2>4, <2>5, <2>6, <2>8, <3>1, <3>2, <3>3, NumbersOfOp
  <2> QED
    BY <1>1, <2>1, <2>7, <2>8, DoneCases
<1> QED
  BY <1>2, <1>3

LEMMA NumberStep ==
  ASSUME NumberInv, Log!Next
  PROVE  NumberInv'
<1>1. RestartInv' /\ Numbered' /\ BegunStarts'
  BY RestartStep, NumberedStep, BegunStartsStep DEF NumberInv, RestartInv, GoneInv
<1>2. ASSUME Straight' PROVE Numbers'
  <2>1. CASE TurnActs
    BY <1>2, <2>1, BeginNumbers, ExecuteNumbers, StartItemNumbers, CompleteItemNumbers, EndTurnNumbers DEF TurnActs
  <2>2. CASE \E o \in Ops : Acts(o)
    BY <1>2, <2>2, ActsNumbers
  <2>3. CASE Log!Crash
    BY <1>2, <2>3, CrashNumbers
  <2> QED
    BY <2>1, <2>2, <2>3, StepCases
<1> QED
  BY <1>1, <1>2 DEF NumberInv

LEMMA NumberInit ==
  ASSUME Log!Init
  PROVE  NumberInv
<1>0. /\ Items = {} /\ Log!ToSet(mem.items) = {} /\ disk = Log!Blank /\ exec.turn = None
      /\ (\A t \in Turns : stage[t] = "new") /\ (\A o \in Ops : op[o].pc = "off")
      /\ Edits \subseteq Turns /\ Edits \subseteq Ops /\ Compacts \subseteq Ops
  BY LogInit, Constants
<1>1. disk.snap = None
  BY <1>0 DEF Log!Blank
<1>2. \A n : Above(Items, n)
  BY <1>0 DEF Above
<1>3. \A s : OrderedIn(Items, s)
  BY <1>0 DEF OrderedIn
<1>4. Distinct(Items)
  BY <1>0 DEF Distinct
<1>5. (\A e \in Edits : EditNumbers(e)) /\ \A o \in Ops : NextNumbers(o)
  BY <1>0, <1>2, <1>3 DEF EditNumbers, NextNumbers
<1>6. \A c \in Compacts : CompactNumbers(c)
  BY <1>0 DEF CompactNumbers
<1>7. SnapOver /\ KnownIn(Items, disk.snap, covers)
  BY <1>1 DEF SnapOver, KnownIn
<1>8. Numbers
  BY <1>0, <1>2, <1>3, <1>4, <1>5, <1>6, <1>7 DEF Numbers
<1> QED
  BY <1>0, <1>2, <1>8, RestartInit DEF NumberInv, Numbered, BegunStarts

LEMMA NumberStays ==
  ASSUME NumberInv, UNCHANGED logVars
  PROVE  NumberInv'
<1>0. UNCHANGED <<disk, tail, marks, mem, exec, stage, op, covers, dropped, raced, reused>>
  BY DEF logVars
<1>1. RestartInv'
  BY RestartStays DEF NumberInv
<1>2. Items' = Items /\ DiskIds' = DiskIds
  BY <1>0 DEF DiskIds, Items
<1>3. Numbered' /\ BegunStarts'
  BY <1>0, <1>2 DEF NumberInv, Numbered, BegunStarts
<1>4. Straight' <=> Straight
  BY <1>0 DEF Straight, Whole
<1>5. ASSUME Numbers PROVE Numbers'
  <2>1. \A o : HasNext(o)' <=> HasNext(o)
    BY <1>0 DEF HasNext
  <2>2. \A e \in Edits : EditNumbers(e)'
    BY <1>0, <1>2, <1>5 DEF Numbers, EditNumbers
  <2>3. \A c \in Compacts : CompactNumbers(c)'
    BY <1>0, <1>2, <1>5 DEF Numbers, CompactNumbers
  <2>4. \A o \in Ops : NextNumbers(o)'
    BY <1>0, <1>2, <1>5, <2>1 DEF Numbers, NextNumbers
  <2>5. exec.turn # None => TurnNumbers'
    BY <1>0, <1>2, <1>5 DEF Numbers, TurnNumbers
  <2>6. SnapOver' /\ (Resting' => Above(Items', mem'.next))
    BY <1>0, <1>2, <1>5 DEF Numbers, SnapOver, Resting
  <2> QED
    BY <1>0, <1>2, <1>5, <2>2, <2>3, <2>4, <2>5, <2>6 DEF Numbers
<1> QED
  BY <1>1, <1>3, <1>4, <1>5 DEF NumberInv

LEMMA NumberNext ==
  ASSUME NumberInv, [MCNext]_allVars
  PROVE  NumberInv'
<1>1. CASE Log!Next
  BY <1>1, NumberStep
<1>2. CASE UNCHANGED logVars
  BY <1>2, NumberStays
<1> QED
  BY <1>1, <1>2 DEF MCNext, Rest, allVars

(* The sorted items are the items, the lower number first.                   *)
LEMMA SortedIs ==
  ASSUME NEW T, NEW s \in Seq(T), \A x \in T : x.seq \in Nat
  PROVE  /\ Log!Ids(Log!Sorted(s)) = IdsIn(Log!ToSet(s))
         /\ \A x, y \in Log!ToSet(s) : x.seq < y.seq =>
              \E n \in DOMAIN Log!Sorted(s) : Log!Sorted(s)[n] = y /\ \E m \in 1..(n - 1) : Log!Sorted(s)[m] = x
<1> DEFINE o == Log!Sorted(s)
<1>1. PICK g \in [1..Len(s) -> 1..Len(s)] :
        /\ o = [p \in 1..Len(s) |-> s[g[p]]]
        /\ \A p, q \in 1..Len(s) : p < q => s[g[p]].seq <= s[g[q]].seq /\ g[p] # g[q]
        /\ \A n \in 1..Len(s) : \E p \in 1..Len(s) : g[p] = n
  BY SortedKeeps
<1> HIDE DEF o
<1>2. DOMAIN o = 1..Len(s) /\ DOMAIN s = 1..Len(s) /\ \A p \in 1..Len(s) : o[p] = s[g[p]] /\ s[p] \in T
  BY <1>1
<1>3. \A x \in Log!ToSet(s) : \E p \in DOMAIN o : o[p] = x
  <2> SUFFICES ASSUME NEW n \in 1..Len(s) PROVE \E p \in DOMAIN o : o[p] = s[n]
    BY <1>2 DEF Log!ToSet
  <2>1. PICK p \in 1..Len(s) : g[p] = n
    BY <1>1
  <2> QED
    BY <1>2, <2>1
<1>4. \A p \in DOMAIN o : o[p] \in Log!ToSet(s)
  <2> TAKE p \in DOMAIN o
  <2>1. g[p] \in 1..Len(s)
    BY <1>1, <1>2
  <2> QED
    BY <1>2, <2>1 DEF Log!ToSet
<1>5. Log!Ids(o) = IdsIn(Log!ToSet(s))
  BY <1>3, <1>4 DEF Log!Ids, IdsIn
<1>6. ASSUME NEW x \in Log!ToSet(s), NEW y \in Log!ToSet(s), x.seq < y.seq
      PROVE  \E n \in DOMAIN o : o[n] = y /\ \E m \in 1..(n - 1) : o[m] = x
  <2>1. PICK m \in DOMAIN o, n \in DOMAIN o : o[m] = x /\ o[n] = y
    BY <1>3
  <2>2. m \in Nat /\ n \in Nat /\ m >= 1 /\ m \in 1..Len(s) /\ n \in 1..Len(s) /\ x.seq \in Nat /\ y.seq \in Nat
    <3>1. x \in T /\ y \in T
      BY <1>2 DEF Log!ToSet
    <3> QED
      BY <1>2, <3>1
  <2>3. m < n
    <3>1. m # n
      BY <1>6, <2>1, <2>2
    <3>2. ~(n < m)
      <4>1. s[g[n]] = y /\ s[g[m]] = x
        BY <1>2, <2>1, <2>2
      <4>2. n < m => y.seq <= x.seq
        BY <1>1, <2>2, <4>1
      <4> QED
        BY <1>6, <2>2, <4>2
    <3> QED
      BY <2>2, <3>1, <3>2
  <2>4. m \in 1..(n - 1)
    BY <2>2, <2>3
  <2> QED
    BY <2>1, <2>4
<1> QED
  BY <1>5, <1>6 DEF o

LEMMA FileAtRest ==
  ASSUME NumberInv, Log!Intact, ~reused
  PROVE  Numbers /\ RestartInv /\ Log!WholeFile = disk /\ disk \in Disks /\ Log!Ids(Log!Replay) = DiskIds
<1>1. Typed /\ Whole /\ RestartInv
  BY WholeIs DEF NumberInv, RestartInv, GoneInv
<1>2. Numbers
  BY <1>1 DEF NumberInv, Straight
<1>3. Log!WholeFile = disk /\ disk \in Disks
  BY <1>1, WholeFileIs DEF RestartInv, TailFailed, Whole, Typed, FileTyped
<1>4. Log!Ids(Log!Replay) = DiskIds
  BY <1>1, <1>3, ReplayIds DEF DiskIds, Items, IdsIn
<1> QED
  BY <1>1, <1>2, <1>3, <1>4

LEMMA NothingIsUnread == NumberInv => Log!NothingUnread
<1> SUFFICES ASSUME NumberInv, Log!Intact, ~reused PROVE Log!Ids(Log!Replay) \subseteq Log!Told(Log!WholeFile)
  BY DEF Log!NothingUnread
<1>1. Numbers /\ RestartInv /\ Log!WholeFile = disk /\ disk \in Disks /\ Log!Ids(Log!Replay) = DiskIds
  BY FileAtRest
<1> DEFINE d == disk
           items == Log!Sorted(d.items)
<1>2. /\ Log!Ids(items) = DiskIds
      /\ \A x, y \in Items : x.seq < y.seq =>
           \E n \in DOMAIN items : items[n] = y /\ \E m \in 1..(n - 1) : items[m] = x
  <2>1. d.items \in Seq(DiskItems) /\ \A x \in DiskItems : x.seq \in Nat
    BY <1>1 DEF Disks, DiskItems
  <2> QED
    BY <2>1, SortedIs DEF DiskIds, Items
<1>3. d.snap # None => d.snap.summary \in Compacts \X {0}
  BY <1>1, ItemFacts
<1>4. CASE d.snap = None \/ d.snap.summary \notin DiskIds
  <2>1. Log!Prompt(d) = DiskIds
    BY <1>2, <1>4 DEF Log!Prompt
  <2> QED
    BY <1>1, <2>1 DEF Log!Told
<1>5. CASE d.snap # None /\ d.snap.summary \in DiskIds
  <2> DEFINE sum == d.snap.summary
             after == {n \in DOMAIN items : \E m \in 1..(n - 1) : items[m].id = sum}
  <2>1. sum \in Log!Prompt(d) /\ {items[n].id : n \in after} \subseteq Log!Prompt(d)
    BY <1>2, <1>5 DEF Log!Prompt
  <2>2. PICK s \in Items : s.id = sum
    BY <1>5 DEF DiskIds, IdsIn
  <2> SUFFICES ASSUME NEW x \in Items PROVE x.id \in Log!Told(d)
    BY <1>1 DEF DiskIds, IdsIn
  <2>3. x = s \/ x.id \in covers[sum[1]].read \/ s.seq < x.seq
    BY <1>1, <1>5, <2>2 DEF Numbers, KnownIn
  <2>4. CASE x = s
    BY <2>1, <2>2, <2>4 DEF Log!Told
  <2>5. CASE x.id \in covers[sum[1]].read
    <3>1. PICK k \in Compacts : sum = <<k, 0>>
      BY <1>3, <1>5
    <3>2. x.id \in covers[k].read /\ <<k, 0>> \in Log!Prompt(d)
      BY <2>1, <2>5, <3>1
    <3> HIDE DEF sum, after, items, d
    <3> QED
      BY <3>2 DEF Log!Told
  <2>6. CASE s.seq < x.seq
    <3>1. PICK n \in DOMAIN items : items[n] = x /\ \E m \in 1..(n - 1) : items[m] = s
      BY <1>2, <2>6
    <3>2. n \in after
      BY <2>2, <3>1
    <3>3. x.id \in Log!Prompt(d)
      BY <2>1, <3>1, <3>2
    <3> HIDE DEF sum, after, items, d
    <3> QED
      BY <3>3 DEF Log!Told
  <2> QED
    BY <2>3, <2>4, <2>5, <2>6
<1> QED
  BY <1>4, <1>5

LEMMA OrderIsKept == NumberInv => Log!OrderKept
<1> SUFFICES ASSUME NumberInv, Log!Intact, ~reused PROVE Log!SameOrder
  BY DEF Log!OrderKept
<1>1. Numbers /\ Log!WholeFile = disk /\ disk \in Disks
  BY FileAtRest
<1> DEFINE r == Log!Replay
<1>2. \A m, n \in DOMAIN r : m < n =>
        \E u, v \in Items : r[m] = Log!Remembered(u) /\ r[n] = Log!Remembered(v) /\ u.seq <= v.seq
  BY <1>1, LoadedIs DEF Log!Replay, Items
<1> HIDE DEF r
<1> SUFFICES ASSUME NEW a, NEW b, a.turn # b.turn, Log!Precedes(mem.items, a, b), Log!Precedes(r, b, a)
             PROVE  FALSE
  BY DEF Log!SameOrder, r
<1>3. PICK i \in DOMAIN mem.items, j \in DOMAIN mem.items : i < j /\ mem.items[i] = a /\ mem.items[j] = b
  BY DEF Log!Precedes
<1>4. PICK m \in DOMAIN r, n \in DOMAIN r : m < n /\ r[m] = b /\ r[n] = a
  BY DEF Log!Precedes
<1>5. PICK u \in Items, v \in Items : b = Log!Remembered(u) /\ a = Log!Remembered(v) /\ u.seq <= v.seq
  BY <1>2, <1>4
<1>6. u.id = b.id /\ v.id = a.id
  BY <1>5 DEF Log!Remembered
<1>7. v.seq < u.seq
  BY <1>1, <1>3, <1>6 DEF Numbers, OrderedIn
<1>8. u.seq \in Nat /\ v.seq \in Nat
  BY ItemFacts DEF NumberInv
<1> QED
  BY <1>5, <1>7, <1>8

(* When every append succeeded and no rollback made the session reuse        *)
(* numbers, what the prompt of a replay leaves out is in its summary.        *)
THEOREM NothingLeftUnread == MCSpec => []NothingUnread
<1>1. MCInit => NumberInv
  BY NumberInit DEF MCInit
<1>2. NumberInv /\ [MCNext]_allVars => NumberInv'
  BY NumberNext
<1>3. NumberInv => NothingUnread
  BY NothingIsUnread DEF NothingUnread
<1> QED
  BY <1>1, <1>2, <1>3, PTL DEF MCSpec

(* And the items of different turns stand as the server had them.            *)
THEOREM OrderStaysKept == MCSpec => []OrderKept
<1>1. MCInit => NumberInv
  BY NumberInit DEF MCInit
<1>2. NumberInv /\ [MCNext]_allVars => NumberInv'
  BY NumberNext
<1>3. NumberInv => OrderKept
  BY OrderIsKept DEF OrderKept
<1> QED
  BY <1>1, <1>2, <1>3, PTL DEF MCSpec
=============================================================================
