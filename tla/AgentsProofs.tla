---------------------------- MODULE AgentsProofs ----------------------------
(***************************************************************************)
(* That the cursors of overlapping waits pass no change of status that no  *)
(* wait returned, and that no message sent to a child is given to its      *)
(* model twice, for any number of waits, messages, closers and interrupts. *)
(***************************************************************************)
EXTENDS Agents, TLAPS

(* Every change of status up to the n-th was returned to a wait for k.       *)
Passed(n, k) ==
  \A p \in 1..n : buffer[p].from \in Targets(k) =>
    \E w \in Waits : wait[w].key = k /\ p \in wait[w].got

Shape ==
  /\ \E S : buffer \in Seq(S)
  /\ cursor \in [Keys -> 0..Len(buffer)]
  /\ wait \in [Waits -> [pc : {"new", "waiting", "update", "done"}, key : Keys \cup {None},
                         after : 0..Len(buffer), got : SUBSET (1..Len(buffer))]]

CursorsPassed == \A k \in Keys : Passed(cursor[k], k)

(* A wait that is not over began at a cursor, and what it got has no gap     *)
(* from there on.                                                            *)
WaitSound(w) ==
  /\ wait[w].pc \in {"new", "waiting"} => wait[w].got = {}
  /\ wait[w].pc \in {"waiting", "update"} =>
       wait[w].key \in Keys /\ Passed(wait[w].after, wait[w].key)
  /\ wait[w].pc = "update" =>
       \A q \in wait[w].got : \A p \in (wait[w].after + 1)..q :
         buffer[p].from \in Targets(wait[w].key) => p \in wait[w].got

OutputInv == Shape /\ CursorsPassed /\ \A w \in Waits : WaitSound(w)

-----------------------------------------------------------------------------
(* What the steps of a child do to what its parent hears.                    *)
Push == \E c, t, s : PushStatus(c, t, s)

LEMMA StepsOfOutput == [Next]_vars => Push \/ WaitNext \/ UNCHANGED outputVars
<1> SUFFICES ASSUME [Next]_vars PROVE Push \/ WaitNext \/ UNCHANGED outputVars
  OBVIOUS
<1>1. CASE SpawnAgent
  BY <1>1 DEF SpawnAgent, Push
<1>2. ASSUME NEW p, StartTurn(p) PROVE UNCHANGED outputVars
  BY <1>2 DEF StartTurn, Reserve, Enqueue, Begin, Rollback, Register
<1>3. ASSUME NEW x, Close(x) PROVE Push \/ UNCHANGED outputVars
  BY <1>3 DEF Close, Mark, HadTurn, CancelChild, AbortChild, ClaimTurn, SettleClose, SetClosed,
              TellClosed, FinishClose, Push
<1>4. ASSUME NEW d, Deliver(d) PROVE UNCHANGED outputVars
  BY <1>2, <1>4 DEF Deliver, Drain, Delivered, Undelivered, PopQueue, Activate, Accept
<1>5. CASE Startup
  BY <1>2, <1>3, <1>5 DEF Startup, CheckStart, Started, SetRunning, FailStart, TellFailed, Push
<1>6. CASE Actor \/ QueryReturns
  BY <1>6 DEF Actor, QueryReturns, QueryCancelled, QueryEnds, ExecuteTurn, EndTurn, ResolveStatus,
              SetEnded, TellEnded, CloseTurn, Push
<1>7. ASSUME NEW m, SendMessage(m) \/ Sender(m) PROVE UNCHANGED outputVars
  BY <1>4, <1>7 DEF SendMessage, Sender, LookForTurn, AskForTurn
<1>8. ASSUME NEW i, Interrupt(i) \/ CancelChild(i) PROVE UNCHANGED outputVars
  BY <1>8 DEF Interrupt, CancelChild, AbortChild, ClaimTurn, SetInterrupted
<1>9. ASSUME NEW x, Mark(x) PROVE UNCHANGED outputVars
  BY <1>9 DEF Mark
<1>10. CASE System
  BY <1>3, <1>4, <1>5, <1>6, <1>7, <1>8, <1>10 DEF System
<1>11. CASE UNCHANGED vars
  BY <1>11 DEF vars
<1> QED
  BY <1>1, <1>6, <1>7, <1>8, <1>9, <1>10, <1>11 DEF Next

-----------------------------------------------------------------------------
LEMMA InitOutputInv == Init => OutputInv
<1> SUFFICES ASSUME Init PROVE OutputInv
  OBVIOUS
<1>1. buffer = <<>> /\ Len(buffer) = 0
  BY DEF Init, OutputInit
<1>2. buffer \in Seq({})
  BY <1>1
<1>3. Shape
  BY <1>1, <1>2 DEF Init, OutputInit, Shape
<1>4. CursorsPassed /\ \A w \in Waits : WaitSound(w)
  BY DEF Init, OutputInit, CursorsPassed, Passed, WaitSound
<1> QED
  BY <1>3, <1>4 DEF OutputInv

(* An event added at the end changes nothing up to where it was.             *)
LEMMA PushKeeps == OutputInv /\ Push => OutputInv'
<1> SUFFICES ASSUME OutputInv, Push PROVE OutputInv'
  OBVIOUS
<1>1. PICK c, t, s : PushStatus(c, t, s)
  BY DEF Push
<1> DEFINE e == [from |-> c, turn |-> t, status |-> s]
<1>2. PICK S : buffer \in Seq(S)
  BY DEF OutputInv, Shape
<1>3. buffer \in Seq(S \cup {e})
  BY <1>2
<1>4. buffer' = Append(buffer, e) /\ UNCHANGED <<cursor, wait>>
  BY <1>1 DEF PushStatus
<1> HIDE DEF e
<1>5. /\ buffer' \in Seq(S \cup {e})
      /\ Len(buffer) \in Nat /\ Len(buffer') = Len(buffer) + 1
      /\ \A p \in 1..Len(buffer) : buffer'[p] = buffer[p]
  BY <1>3, <1>4
<1>6. Shape'
  <2>1. cursor' \in [Keys -> 0..Len(buffer')]
    BY <1>4, <1>5 DEF OutputInv, Shape
  <2>2. wait' \in [Waits -> [pc : {"new", "waiting", "update", "done"}, key : Keys \cup {None},
                             after : 0..Len(buffer'), got : SUBSET (1..Len(buffer'))]]
    BY <1>4, <1>5 DEF OutputInv, Shape
  <2> QED
    BY <1>5, <2>1, <2>2 DEF Shape
<1>7. ASSUME NEW n \in 0..Len(buffer), NEW k, Passed(n, k) PROVE Passed(n, k)'
  BY <1>4, <1>5, <1>7 DEF Passed, Targets
<1>8. CursorsPassed'
  BY <1>4, <1>7 DEF OutputInv, Shape, CursorsPassed
<1>9. ASSUME NEW w \in Waits PROVE WaitSound(w)'
  <2>1. wait[w].after \in 0..Len(buffer) /\ wait[w].got \subseteq 1..Len(buffer) /\ WaitSound(w)
    BY DEF OutputInv, Shape
  <2>2. wait[w].pc \in {"waiting", "update"} => Passed(wait[w].after, wait[w].key)'
    BY <1>4, <1>7, <2>1 DEF WaitSound
  <2>3. \A q \in wait[w].got : \A p \in (wait[w].after + 1)..q : buffer'[p] = buffer[p]
    BY <1>5, <2>1
  <2> QED
    BY <1>4, <2>1, <2>2, <2>3 DEF WaitSound, Targets, Keys
<1> QED
  BY <1>6, <1>8, <1>9 DEF OutputInv

-----------------------------------------------------------------------------
(* Whatever a wait returned stays returned.                                  *)
LEMMA PassedStays ==
  ASSUME UNCHANGED buffer,
         \A v \in Waits : wait[v].got # {} => wait'[v].key = wait[v].key /\ wait[v].got \subseteq wait'[v].got,
         NEW n, NEW k, Passed(n, k)
  PROVE  Passed(n, k)'
BY DEF Passed, Targets

LEMMA WaitKeeps ==
  ASSUME OutputInv, NEW w \in Waits, (\E k \in Keys : BeginWait(w, k)) \/ Waiting(w)
  PROVE  OutputInv'
<1> DEFINE W == [pc : {"new", "waiting", "update", "done"}, key : Keys \cup {None},
                 after : 0..Len(buffer), got : SUBSET (1..Len(buffer))]
<1>0. /\ cursor \in [Keys -> 0..Len(buffer)] /\ wait \in [Waits -> W]
      /\ Len(buffer) \in Nat
      /\ CursorsPassed /\ \A v \in Waits : WaitSound(v)
  BY DEF OutputInv, Shape
<1>1. UNCHANGED buffer
  BY DEF BeginWait, Waiting, Look, UpdateCursor, GiveUp
<1>2. ASSUME NEW k \in Keys, BeginWait(w, k) PROVE OutputInv'
  <2>1. /\ wait' = [wait EXCEPT ![w] = [@ EXCEPT !.pc = "waiting", !.key = k, !.after = cursor[k]]]
        /\ UNCHANGED cursor
        /\ wait[w].pc = "new" /\ wait[w].got = {}
    BY <1>0, <1>2 DEF BeginWait, WaitSound
  <2>2. wait' \in [Waits -> W]
    BY <1>0, <2>1
  <2>3. \A n, j : Passed(n, j) => Passed(n, j)'
    BY <1>0, <1>1, <2>1, PassedStays
  <2>4. Shape' /\ CursorsPassed'
    BY <1>0, <1>1, <2>1, <2>2, <2>3 DEF OutputInv, Shape, CursorsPassed
  <2>5. ASSUME NEW v \in Waits PROVE WaitSound(v)'
    <3>1. CASE v = w
      BY <1>0, <2>1, <2>3, <3>1 DEF WaitSound, CursorsPassed
    <3>2. CASE v # w
      BY <1>0, <1>1, <2>1, <2>3, <3>2 DEF WaitSound, Targets, Keys
    <3> QED
      BY <3>1, <3>2
  <2> QED
    BY <2>4, <2>5 DEF OutputInv
<1>3. ASSUME Look(w) PROVE OutputInv'
  <2> DEFINE found == EventsAfter(wait[w].after, wait[w].key)
  <2>1. /\ wait' = [wait EXCEPT ![w].pc = "update", ![w].got = found]
        /\ UNCHANGED cursor
        /\ wait[w].pc = "waiting" /\ wait[w].got = {} /\ wait[w].key \in Keys
        /\ Passed(wait[w].after, wait[w].key)
    BY <1>0, <1>3 DEF Look, WaitSound
  <2>2. found \subseteq 1..Len(buffer)
    BY <1>0 DEF EventsAfter
  <2>3. wait' \in [Waits -> W]
    BY <1>0, <2>1, <2>2
  <2>4. \A n, j : Passed(n, j) => Passed(n, j)'
    BY <1>0, <1>1, <2>1, PassedStays
  <2>5. Shape' /\ CursorsPassed'
    BY <1>0, <1>1, <2>1, <2>3, <2>4 DEF OutputInv, Shape, CursorsPassed
  <2>6. \A q \in found : \A p \in (wait[w].after + 1)..q :
          buffer[p].from \in Targets(wait[w].key) => p \in found
    BY <1>0 DEF EventsAfter
  <2>7. ASSUME NEW v \in Waits PROVE WaitSound(v)'
    <3> HIDE DEF found
    <3>1. CASE v = w
      BY <1>0, <1>1, <2>1, <2>4, <2>6, <3>1 DEF WaitSound, Targets, Keys
    <3>2. CASE v # w
      BY <1>0, <1>1, <2>1, <2>4, <3>2 DEF WaitSound, Targets, Keys
    <3> QED
      BY <3>1, <3>2
  <2> QED
    BY <2>5, <2>7 DEF OutputInv
<1>4. ASSUME UpdateCursor(w) PROVE OutputInv'
  <2>1. PICK consumed \in wait[w].got :
          /\ \A p \in wait[w].got : p <= consumed
          /\ cursor' = [cursor EXCEPT ![wait[w].key] = consumed]
    BY <1>4 DEF UpdateCursor
  <2>2. /\ wait' = [wait EXCEPT ![w].pc = "done"]
        /\ wait[w].pc = "update" /\ wait[w].key \in Keys
        /\ Passed(wait[w].after, wait[w].key)
        /\ \A p \in (wait[w].after + 1)..consumed :
             buffer[p].from \in Targets(wait[w].key) => p \in wait[w].got
        /\ wait[w].after \in Nat /\ consumed \in 1..Len(buffer)
    BY <1>0, <1>4, <2>1 DEF UpdateCursor, WaitSound
  <2>3. wait' \in [Waits -> W] /\ cursor' \in [Keys -> 0..Len(buffer)]
    <3>1. wait' \in [Waits -> W]
      BY <1>0, <2>2
    <3>2. consumed \in 0..Len(buffer)
      BY <1>0, <2>2
    <3>3. cursor' \in [Keys -> 0..Len(buffer)]
      BY <1>0, <2>1, <3>2
    <3> QED
      BY <3>1, <3>3
  <2>4. \A n, j : Passed(n, j) => Passed(n, j)'
    BY <1>0, <1>1, <2>2, PassedStays
  <2>5. Passed(consumed, wait[w].key)
    BY <2>1, <2>2 DEF Passed
  <2>6. Shape' /\ CursorsPassed'
    <3>1. ASSUME NEW k \in Keys PROVE Passed(cursor'[k], k)
      BY <1>0, <2>1, <2>2, <2>5 DEF CursorsPassed
    <3> QED
      BY <1>0, <1>1, <2>3, <2>4, <3>1 DEF OutputInv, Shape, CursorsPassed
  <2>7. ASSUME NEW v \in Waits PROVE WaitSound(v)'
    <3>1. CASE v = w
      <4>1. wait'[v].pc = "done"
        BY <1>0, <2>2, <3>1
      <4> QED
        BY <4>1 DEF WaitSound
    <3>2. CASE v # w
      <4>1. wait'[v] = wait[v]
        BY <1>0, <2>2, <3>2
      <4> QED
        BY <1>0, <1>1, <2>4, <4>1 DEF WaitSound, Targets, Keys
    <3> QED
      BY <3>1, <3>2
  <2> QED
    BY <2>6, <2>7 DEF OutputInv
<1>5. ASSUME GiveUp(w) PROVE OutputInv'
  <2>1. /\ wait' = [wait EXCEPT ![w].pc = "done"] /\ UNCHANGED cursor
        /\ wait[w].pc = "waiting"
    BY <1>5 DEF GiveUp
  <2>2. wait' \in [Waits -> W]
    BY <1>0, <2>1
  <2>3. \A n, j : Passed(n, j) => Passed(n, j)'
    BY <1>0, <1>1, <2>1, PassedStays
  <2>4. Shape' /\ CursorsPassed'
    BY <1>0, <1>1, <2>1, <2>2, <2>3 DEF OutputInv, Shape, CursorsPassed
  <2>5. ASSUME NEW v \in Waits PROVE WaitSound(v)'
    BY <1>0, <1>1, <2>1, <2>3 DEF WaitSound, Targets, Keys
  <2> QED
    BY <2>4, <2>5 DEF OutputInv
<1> QED
  BY <1>2, <1>3, <1>4, <1>5 DEF Waiting

-----------------------------------------------------------------------------
(* A wait returns, or an earlier one returned, all that its cursor passes:   *)
(* no end of a child's turn is lost between two waits.                       *)
THEOREM NoEndIsLost == Spec => []NothingSkipped
<1>1. OutputInv /\ [Next]_vars => OutputInv'
  <2> SUFFICES ASSUME OutputInv, [Next]_vars PROVE OutputInv'
    OBVIOUS
  <2>1. CASE Push
    BY <2>1, PushKeeps
  <2>2. CASE WaitNext
    BY <2>2, WaitKeeps DEF WaitNext
  <2>3. CASE UNCHANGED outputVars
    <3>1. UNCHANGED <<buffer, cursor, wait>>
      BY <2>3 DEF outputVars
    <3>2. \A n, k : Passed(n, k)' <=> Passed(n, k)
      BY <3>1 DEF Passed, Targets
    <3>3. Shape' /\ CursorsPassed'
      BY <3>1, <3>2 DEF OutputInv, Shape, CursorsPassed
    <3>4. \A w \in Waits : WaitSound(w)'
      BY <3>1, <3>2 DEF OutputInv, WaitSound, Targets
    <3> QED
      BY <3>3, <3>4 DEF OutputInv
  <2> QED
    BY <2>1, <2>2, <2>3, StepsOfOutput
<1>2. OutputInv => NothingSkipped
  BY DEF OutputInv, CursorsPassed, Passed, NothingSkipped
<1> QED
  BY InitOutputInv, <1>1, <1>2, PTL DEF Spec

-----------------------------------------------------------------------------
(* Sequences without repetition.                                             *)
Distinct(s) == \A i, j \in DOMAIN s : s[i] = s[j] => i = j

LEMMA AppendOne ==
  ASSUME NEW S, NEW s \in Seq(S), NEW x \in S
  PROVE  /\ Append(s, x) \in Seq(S) /\ ToSet(Append(s, x)) = ToSet(s) \cup {x}
         /\ Distinct(s) /\ x \notin ToSet(s) => Distinct(Append(s, x))
<1> DEFINE u == Append(s, x)
<1>1. /\ u \in Seq(S) /\ DOMAIN s = 1..Len(s) /\ DOMAIN u = 1..(Len(s) + 1) /\ Len(s) \in Nat
      /\ u[Len(s) + 1] = x /\ \A i \in 1..Len(s) : u[i] = s[i]
  OBVIOUS
<1> HIDE DEF u
<1>2. ToSet(u) = ToSet(s) \cup {x}
  BY <1>1 DEF ToSet
<1>3. Distinct(s) /\ x \notin ToSet(s) => Distinct(u)
  BY <1>1 DEF ToSet, Distinct
<1> QED
  BY <1>1, <1>2, <1>3 DEF u

LEMMA TakeFirst ==
  ASSUME NEW S, NEW s \in Seq(S), s # <<>>
  PROVE  /\ Head(s) \in S /\ Tail(s) \in Seq(S) /\ ToSet(s) = ToSet(Tail(s)) \cup {Head(s)}
         /\ Distinct(s) => Distinct(Tail(s)) /\ Head(s) \notin ToSet(Tail(s))
         /\ Len(s) # 1 => Tail(s) # <<>>
         /\ Len(s) = 1 => Tail(s) = <<>>
<1> DEFINE u == Tail(s)
<1>1. /\ Head(s) = s[1] /\ DOMAIN s = 1..Len(s) /\ DOMAIN u = 1..(Len(s) - 1) /\ Len(s) \in Nat /\ Len(s) > 0
      /\ u \in Seq(S) /\ Len(u) = Len(s) - 1 /\ \A i \in 1..(Len(s) - 1) : u[i] = s[i + 1]
  OBVIOUS
<1> HIDE DEF u
<1>2. ToSet(s) = ToSet(u) \cup {s[1]}
  <2>1. \A i \in 1..Len(s) : i = 1 \/ (i - 1 \in 1..(Len(s) - 1) /\ u[i - 1] = s[i])
    BY <1>1
  <2>2. ToSet(s) \subseteq ToSet(u) \cup {s[1]}
    BY <1>1, <2>1 DEF ToSet
  <2>3. \A i \in 1..(Len(s) - 1) : i + 1 \in 1..Len(s)
    BY <1>1
  <2>4. ToSet(u) \cup {s[1]} \subseteq ToSet(s)
    BY <1>1, <2>3 DEF ToSet
  <2> QED
    BY <2>2, <2>4
<1>3. ASSUME Distinct(s) PROVE Distinct(u) /\ s[1] \notin ToSet(u)
  <2>1. ASSUME NEW i \in 1..(Len(s) - 1), NEW j \in 1..(Len(s) - 1), u[i] = u[j] PROVE i = j
    <3>1. i + 1 \in 1..Len(s) /\ j + 1 \in 1..Len(s) /\ s[i + 1] = s[j + 1]
      BY <1>1, <2>1
    <3>2. i + 1 = j + 1
      BY <1>1, <1>3, <3>1 DEF Distinct
    <3> QED
      BY <3>2
  <2>2. ASSUME NEW i \in 1..(Len(s) - 1) PROVE u[i] # s[1]
    <3>1. i + 1 \in 1..Len(s) /\ 1 \in 1..Len(s) /\ i + 1 # 1 /\ u[i] = s[i + 1]
      BY <1>1
    <3> QED
      BY <1>1, <1>3, <3>1 DEF Distinct
  <2> QED
    BY <1>1, <2>1, <2>2 DEF ToSet, Distinct
<1>4. (Len(s) # 1 => u # <<>>) /\ (Len(s) = 1 => u = <<>>)
  BY <1>1
<1>5. s[1] \in S
  BY <1>1
<1> QED
  BY <1>1, <1>2, <1>3, <1>4, <1>5 DEF u

LEMMA JoinTwo ==
  ASSUME NEW S, NEW s \in Seq(S), NEW u \in Seq(S)
  PROVE  /\ s \o u \in Seq(S) /\ ToSet(s \o u) = ToSet(s) \cup ToSet(u)
         /\ Distinct(s) /\ Distinct(u) /\ ToSet(s) \cap ToSet(u) = {} => Distinct(s \o u)
<1> DEFINE v == s \o u
           m == Len(s)
           n == Len(u)
<1>1. /\ v \in Seq(S) /\ DOMAIN s = 1..m /\ DOMAIN u = 1..n /\ DOMAIN v = 1..(m + n)
      /\ m \in Nat /\ n \in Nat
      /\ \A i \in 1..(m + n) : v[i] = IF i <= m THEN s[i] ELSE u[i - m]
  OBVIOUS
<1> HIDE DEF v, m, n
<1>2. \A i \in 1..m : i \in 1..(m + n) /\ v[i] = s[i]
  BY <1>1
<1>3. ASSUME NEW i \in 1..n PROVE m + i \in 1..(m + n) /\ v[m + i] = u[i]
  <2>1. m + i \in 1..(m + n) /\ ~(m + i <= m) /\ (m + i) - m = i
    BY <1>1
  <2> QED
    BY <1>1, <2>1
<1>4. ASSUME NEW k \in 1..(m + n) PROVE k \in 1..m \/ \E i \in 1..n : k = m + i
  <2>1. k <= m => k \in 1..m
    BY <1>1
  <2>2. ~(k <= m) => k - m \in 1..n /\ k = m + (k - m)
    BY <1>1
  <2> QED
    BY <2>1, <2>2
<1>5. ToSet(v) = ToSet(s) \cup ToSet(u)
  <2>1. ASSUME NEW k \in 1..(m + n) PROVE v[k] \in ToSet(s) \cup ToSet(u)
    <3>1. k \in 1..m => v[k] \in ToSet(s)
      BY <1>1, <1>2 DEF ToSet
    <3>2. ASSUME NEW i \in 1..n, k = m + i PROVE v[k] \in ToSet(u)
      <4>1. v[k] = u[i] /\ i \in DOMAIN u
        BY <1>1, <1>3, <3>2
      <4> QED
        BY <4>1 DEF ToSet
    <3> QED
      BY <1>4, <3>1, <3>2
  <2>2. ToSet(s) \subseteq ToSet(v)
    BY <1>1, <1>2 DEF ToSet
  <2>3. ToSet(u) \subseteq ToSet(v)
    BY <1>1, <1>3 DEF ToSet
  <2> QED
    BY <1>1, <2>1, <2>2, <2>3 DEF ToSet
<1>6. ASSUME Distinct(s), Distinct(u), ToSet(s) \cap ToSet(u) = {} PROVE Distinct(v)
  <2>1. \A i \in 1..m, j \in 1..n : s[i] # u[j]
    BY <1>1, <1>6 DEF ToSet
  <2> SUFFICES ASSUME NEW k \in 1..(m + n), NEW l \in 1..(m + n), v[k] = v[l] PROVE k = l
    BY <1>1 DEF Distinct
  <2>2. CASE k \in 1..m /\ l \in 1..m
    BY <1>1, <1>2, <1>6, <2>2 DEF Distinct
  <2>3. ASSUME NEW i \in 1..n, NEW j \in 1..n, k = m + i, l = m + j PROVE k = l
    BY <1>1, <1>3, <1>6, <2>3 DEF Distinct
  <2> QED
    BY <1>2, <1>3, <1>4, <2>1, <2>2, <2>3
<1> QED
  BY <1>1, <1>5, <1>6 DEF v

LEMMA NoneAndOne ==
  /\ ToSet(<<>>) = {} /\ Distinct(<<>>) /\ \A S : <<>> \in Seq(S)
  /\ \A x : ToSet(<<x>>) = {x} /\ Distinct(<<x>>) /\ <<x>> # <<>> /\ \A S : x \in S => <<x>> \in Seq(S)
BY DEF ToSet, Distinct

-----------------------------------------------------------------------------
(* Where a message to the child is.                                          *)
Pcs == {"off", "new", "reserve", "begin", "rollback", "enqueue", "register", "ok", "error",
        "running", "failed", "look", "ask", "drain", "pop", "again", "accept", "activate",
        "mark", "had", "cancel", "abort", "claim", "claimed", "set", "tell", "closed", "done"}
Early == {"off", "new", "reserve", "begin", "rollback", "enqueue", "register"}
Laden == {"reserve", "begin", "rollback", "enqueue", "register", "ok", "error", "activate"}
Tasks == [pc : Pcs, todo : Seq(Inputs), had : BOOLEAN, claimed : Inputs \cup {None}]
Turning == {"querying", "ending", "resolving", "setting", "telling", "closing"}

Typed ==
  /\ mail \in Seq(Messages) /\ queue \in Seq(Inputs) /\ ran \in Seq(Inputs)
  /\ spawned \subseteq Inputs /\ active \in Inputs \cup {None}
  /\ exec \in [pc : Turning \cup {"idle"}, turn : Inputs \cup {None}, end : Ended \cup {"running"}]
  /\ proc \in [Procs -> Tasks]

(* What a task that drains still has to deliver.                             *)
Rest(r) == IF r.pc = "ok" THEN Tail(r.todo) ELSE r.todo
Hands(d) == ToSet(Rest(proc[d]))

Nowhere(t) ==
  /\ t \notin ToSet(mail) \cup ToSet(queue) \cup ToSet(ran) \cup spawned
  /\ \A d \in Drainers : t \notin Hands(d)
OnePlace(t) ==
  /\ t \in ToSet(mail) => t \notin ToSet(queue) \cup ToSet(ran) \cup spawned
  /\ t \in ToSet(queue) => t \notin ToSet(ran) \cup spawned
  /\ t \in ToSet(ran) => t \notin spawned
  /\ \A d \in Drainers : t \in Hands(d) =>
       /\ t \notin ToSet(mail) \cup ToSet(queue) \cup ToSet(ran) \cup spawned
       /\ \A e \in Drainers : t \in Hands(e) => d = e

Fits(r) == Distinct(r.todo) /\ (r.pc \in Laden => r.todo # <<>>)
Places ==
  /\ Distinct(mail) /\ Distinct(queue) /\ Distinct(ran)
  /\ \A d \in Drainers : Fits(proc[d])
  /\ \A t \in Inputs : OnePlace(t)

(* A message is nowhere before it is sent, the child's task not before its   *)
(* startup queued it or made a turn of it.                                   *)
Unsent ==
  /\ \A m \in Messages : proc[m].pc = "off" => Nowhere(m)
  /\ proc[Task].pc \in Early => Nowhere(Task)
  /\ status = "none" => proc[Task].pc = "off"

(* The task that follows a turn starts once, when the turn is over.          *)
Followed ==
  /\ exec.pc # "idle" => exec.turn \in ToSet(ran)
  /\ \A t \in Inputs : proc[After(t)].pc # "off" =>
       t \in ToSet(ran) /\ (exec.pc # "idle" => exec.turn # t)

PlaceInv == Typed /\ Places /\ Unsent /\ Followed

LEMMA Apart ==
  /\ Task \in Inputs /\ Messages \subseteq Inputs /\ Inputs \subseteq Procs /\ Drainers \subseteq Procs
  /\ Closers \subseteq Procs /\ Interrupts \subseteq Procs /\ Posts \subseteq Drainers /\ Messages \subseteq Drainers
  /\ Task \notin Messages \cup Drainers \cup Closers \cup Interrupts
  /\ Closers \cap Drainers = {} /\ Interrupts \cap Drainers = {} /\ Closers \cap Interrupts = {}
  /\ Messages \cap Posts = {}
  /\ \A t \in Inputs : After(t) \in Posts
  /\ \A t, u \in Inputs : After(t) = After(u) => t = u
  /\ None \notin Inputs
<1>1. \A t, u : After(t) = After(u) => t = u
  <2> SUFFICES ASSUME NEW t, NEW u, After(t) = After(u) PROVE t = u
    OBVIOUS
  <2>1. After(t).after = t /\ After(u).after = u
    BY DEF After
  <2> QED
    BY <2>1
<1> QED
  BY <1>1, AgentAssumption, PostsAssumption, OutputAssumption DEF Inputs, Drainers, Procs, Posts

LEMMA InitPlaces == Init => PlaceInv
<1> SUFFICES ASSUME Init PROVE PlaceInv
  OBVIOUS
<1>1. \A p \in Procs : proc[p] = Asleep
  BY DEF Init
<1>2. Asleep \in Tasks /\ Rest(Asleep) = <<>> /\ Asleep.pc = "off" /\ Fits(Asleep)
  BY NoneAndOne DEF Asleep, Tasks, Pcs, Rest, Fits, Laden
<1>3. Typed
  BY <1>2, NoneAndOne DEF Init, Typed, Idle
<1>4. \A d \in Drainers : Hands(d) = {} /\ Fits(proc[d])
  BY <1>1, <1>2, NoneAndOne, Apart DEF Hands
<1>5. \A t \in Inputs : Nowhere(t) /\ OnePlace(t)
  BY <1>4, NoneAndOne DEF Init, Nowhere, OnePlace
<1> QED
  BY <1>1, <1>2, <1>3, <1>4, <1>5, NoneAndOne, Apart DEF Init, PlaceInv, Places, Unsent, Followed, Idle

(* A step of one task: messages leave the places they were in, but for those *)
(* of T, which are brought to another.                                       *)
LEMMA OneStep ==
  ASSUME PlaceInv, NEW p \in Procs, NEW r \in Tasks, proc' = [proc EXCEPT ![p] = r],
         NEW T, exec' = exec, ran' = ran,
         mail' \in Seq(Messages), queue' \in Seq(Inputs), Distinct(mail'), Distinct(queue'),
         spawned' \subseteq Inputs, active' \in Inputs \cup {None},
         r.pc # "off", p \in Drainers => Fits(r), p \in Posts => proc[p].pc # "off",
         p = Task => (r.pc \in Early => proc[p].pc \in Early),
         status' = "none" => status = "none" /\ p # Task,
         \A t \in Inputs \ T :
           /\ t \in ToSet(mail') => t \in ToSet(mail)
           /\ t \in ToSet(queue') => t \in ToSet(queue)
           /\ t \in spawned' => t \in spawned
           /\ p \in Drainers /\ t \in ToSet(Rest(r)) => t \in Hands(p),
         \A t \in T : OnePlace(t)' /\ (Nowhere(t) => p = t /\ r.pc \notin Early)
  PROVE  PlaceInv'
<1>1. /\ \A q \in Procs : q # p => proc'[q] = proc[q]
      /\ proc'[p] = r /\ proc' \in [Procs -> Tasks]
  BY DEF PlaceInv, Typed
<1>2. Typed'
  BY <1>1 DEF PlaceInv, Typed
<1>3. \A t \in Inputs \ T, d \in Drainers : t \in Hands(d)' => t \in Hands(d)
  BY <1>1, Apart DEF Hands
<1>4. ASSUME NEW t \in Inputs \ T PROVE OnePlace(t)' /\ (Nowhere(t) => Nowhere(t)')
  <2>1. OnePlace(t)
    BY DEF PlaceInv, Places
  <2> QED
    BY <1>3, <2>1 DEF OnePlace, Nowhere
<1>5. Places'
  BY <1>1, <1>4, Apart DEF PlaceInv, Places
<1>6. Unsent'
  <2>1. ASSUME NEW m \in Messages, proc'[m].pc = "off" PROVE Nowhere(m)'
    <3>1. m # p /\ proc[m].pc = "off" /\ Nowhere(m) /\ m \in Inputs
      BY <1>1, <2>1, Apart DEF PlaceInv, Unsent
    <3> QED
      BY <1>4, <3>1
  <2>2. ASSUME proc'[Task].pc \in Early PROVE Nowhere(Task)'
    <3>1. Task \in Inputs /\ Nowhere(Task)
      BY <1>1, <2>2, Apart DEF PlaceInv, Unsent
    <3>2. Task \notin T
      BY <1>1, <2>2, <3>1
    <3> QED
      BY <1>4, <3>1, <3>2
  <2>3. status' = "none" => proc'[Task].pc = "off"
    BY <1>1, Apart DEF PlaceInv, Unsent
  <2> QED
    BY <2>1, <2>2, <2>3 DEF Unsent
<1>7. Followed'
  <2>1. \A t \in Inputs : proc'[After(t)].pc # "off" => proc[After(t)].pc # "off"
    BY <1>1, Apart
  <2> QED
    BY <2>1 DEF PlaceInv, Followed, After
<1> QED
  BY <1>2, <1>5, <1>6, <1>7 DEF PlaceInv

-----------------------------------------------------------------------------
(* The steps of one task, by what they do with what it has in its hands.     *)
(* A task that goes on, or ends, and brings no message to another place.     *)
LEMMA GoesOn ==
  ASSUME PlaceInv, NEW p \in Procs, NEW r \in Tasks, proc' = [proc EXCEPT ![p] = r],
         UNCHANGED <<mail, queue, ran, exec>>, spawned' \subseteq spawned,
         active' \in Inputs \cup {None}, r.pc # "off", proc[p].pc # "off" \/ p \notin Drainers,
         \/ p \notin Drainers
         \/ (r.todo = <<>> /\ r.pc \notin Laden)
         \/ /\ r.todo = proc[p].todo /\ proc[p].pc # "ok" /\ r.pc # "ok"
            /\ r.pc \in Laden => proc[p].pc \in Laden,
         p = Task => (r.pc \in Early => proc[p].pc \in Early),
         status' = "none" => status = "none" /\ p # Task
  PROVE  PlaceInv'
<1> DEFINE T == {}
<1>1. p \in Drainers => Fits(r) /\ ToSet(Rest(r)) \subseteq Hands(p)
  BY NoneAndOne DEF PlaceInv, Places, Fits, Rest, Hands, Laden
<1>2. /\ mail' \in Seq(Messages) /\ queue' \in Seq(Inputs) /\ Distinct(mail') /\ Distinct(queue')
      /\ spawned' \subseteq Inputs
  BY DEF PlaceInv, Typed, Places
<1>3. p \in Posts => proc[p].pc # "off"
  BY Apart
<1>4. \A t \in Inputs \ T :
        /\ t \in ToSet(mail') => t \in ToSet(mail)
        /\ t \in ToSet(queue') => t \in ToSet(queue)
        /\ t \in spawned' => t \in spawned
        /\ p \in Drainers /\ t \in ToSet(Rest(r)) => t \in Hands(p)
  BY <1>1
<1>5. \A t \in T : OnePlace(t)' /\ (Nowhere(t) => p = t /\ r.pc \notin Early)
  OBVIOUS
<1> HIDE DEF T
<1> QED
  BY <1>1, <1>2, <1>3, <1>4, <1>5, OneStep

LEMMA GoIsAStep ==
  ASSUME Typed, NEW p \in Procs, NEW pc \in Pcs, Go(p, pc)
  PROVE  \E r \in Tasks : /\ proc' = [proc EXCEPT ![p] = r]
                          /\ r.pc = pc /\ r.todo = proc[p].todo
<1> DEFINE r == [proc[p] EXCEPT !.pc = pc]
<1>1. r \in Tasks /\ r.pc = pc /\ r.todo = proc[p].todo
  BY DEF Typed, Tasks
<1>2. proc' = [proc EXCEPT ![p] = r]
  BY DEF Go
<1> QED
  BY <1>1, <1>2

LEMMA DoneIsAStep ==
  ASSUME NEW p \in Procs, Done(p)
  PROVE  \E r \in Tasks : /\ proc' = [proc EXCEPT ![p] = r]
                          /\ r.pc = "done" /\ r.todo = <<>>
<1> DEFINE r == [Asleep EXCEPT !.pc = "done"]
<1>1. r \in Tasks /\ r.pc = "done" /\ r.todo = <<>>
  BY NoneAndOne DEF Asleep, Tasks, Pcs
<1>2. proc' = [proc EXCEPT ![p] = r]
  BY DEF Done
<1> QED
  BY <1>1, <1>2

(* What an Input is: the head of what a task has in its hands.               *)
LEMMA InputIs ==
  ASSUME PlaceInv, NEW p \in Drainers \cup {Task}, proc[p].pc \in Laden \ {"ok"}
  PROVE  /\ Input(p) \in Inputs
         /\ p = Task => Input(p) = Task
         /\ p \in Drainers =>
              /\ Input(p) \in Hands(p)
              /\ Tail(proc[p].todo) \in Seq(Inputs) /\ Distinct(Tail(proc[p].todo))
              /\ ToSet(Tail(proc[p].todo)) \subseteq Hands(p) \ {Input(p)}
<1>1. CASE p = Task
  BY <1>1, Apart DEF Input
<1>2. CASE p \in Drainers
  <2>1. /\ proc[p].todo \in Seq(Inputs) /\ proc[p].todo # <<>> /\ Distinct(proc[p].todo)
        /\ Hands(p) = ToSet(proc[p].todo) /\ p # Task
    BY <1>2, Apart DEF PlaceInv, Typed, Tasks, Places, Fits, Hands, Rest
  <2> QED
    BY <2>1, TakeFirst DEF Input
<1> QED
  BY <1>1, <1>2

(* A message goes from a task's hands to the queue or to a turn's task; the  *)
(* child's task, which was nowhere, too.                                     *)
LEMMA HandsOver ==
  ASSUME PlaceInv, NEW p \in Drainers \cup {Task}, proc[p].pc \in Laden \ {"ok"},
         NEW r \in Tasks, proc' = [proc EXCEPT ![p] = r], UNCHANGED <<mail, ran, exec, status>>,
         \/ queue' = Append(queue, Input(p)) /\ UNCHANGED spawned
         \/ spawned' = spawned \cup {Input(p)} /\ UNCHANGED queue,
         active' \in Inputs \cup {None},
         proc[p].pc \notin Early => p # Task,
         (r.todo = <<>> /\ r.pc = "done") \/ (r.todo = proc[p].todo /\ r.pc = "ok")
  PROVE  PlaceInv'
<1>0. PICK t : t = Input(p)
  OBVIOUS
<1>1. /\ t \in Inputs /\ p \in Procs /\ (p = Task => t = Task)
      /\ p \in Drainers => t \in Hands(p) /\ ToSet(Rest(r)) \subseteq Hands(p) \ {t} /\ Fits(r)
  BY <1>0, InputIs, Apart, NoneAndOne DEF Rest, PlaceInv, Places, Fits, Laden
<1>2. /\ t \notin ToSet(mail) \cup ToSet(queue) \cup ToSet(ran) \cup spawned
      /\ \A e \in Drainers : e # p => t \notin Hands(e)
  <2>1. CASE p = Task
    BY <1>1, <2>1 DEF PlaceInv, Unsent, Nowhere
  <2>2. CASE p \in Drainers
    BY <1>1, <2>2 DEF PlaceInv, Places, OnePlace
  <2> QED
    BY <2>1, <2>2
<1>3. Typed /\ Distinct(queue) /\ Distinct(mail)
  BY DEF PlaceInv, Places
<1>4. /\ queue' \in Seq(Inputs) /\ Distinct(queue')
      /\ ToSet(queue') \subseteq ToSet(queue) \cup {t} /\ spawned' \subseteq spawned \cup {t}
      /\ t \in ToSet(queue') => t \notin spawned'
  <2>1. CASE queue' = Append(queue, t) /\ UNCHANGED spawned
    BY <1>1, <1>2, <1>3, <2>1, AppendOne DEF Typed
  <2>2. CASE spawned' = spawned \cup {t} /\ UNCHANGED queue
    BY <1>2, <1>3, <2>2 DEF Typed
  <2> QED
    BY <1>0, <2>1, <2>2
<1>5. \A d \in Drainers : t \notin Hands(d)'
  <2> SUFFICES ASSUME NEW d \in Drainers PROVE t \notin Hands(d)'
    OBVIOUS
  <2>1. proc'[d] = IF d = p THEN r ELSE proc[d]
    BY <1>3, Apart DEF Typed
  <2> QED
    BY <1>1, <1>2, <2>1 DEF Hands
<1>6. OnePlace(t)'
  BY <1>2, <1>4, <1>5 DEF OnePlace
<1>7. Nowhere(t) => p = t /\ r.pc \notin Early
  <2>1. r.pc \notin Early
    BY DEF Early
  <2> QED
    BY <1>1, <2>1 DEF Nowhere
<1>8. p = Task => (r.pc \in Early => proc[p].pc \in Early)
  BY DEF Early
<1>9. /\ p \in Posts => proc[p].pc # "off"
      /\ r.pc # "off" /\ (p = Task => status # "none")
  BY DEF Laden, PlaceInv, Unsent
<1> DEFINE T == {t}
<1>10. \A u \in Inputs \ T :
         /\ u \in ToSet(mail') => u \in ToSet(mail)
         /\ u \in ToSet(queue') => u \in ToSet(queue)
         /\ u \in spawned' => u \in spawned
         /\ p \in Drainers /\ u \in ToSet(Rest(r)) => u \in Hands(p)
  BY <1>1, <1>4
<1>11. \A u \in T : OnePlace(u)' /\ (Nowhere(u) => p = u /\ r.pc \notin Early)
  BY <1>6, <1>7
<1> HIDE DEF T
<1>12. mail' \in Seq(Messages) /\ Distinct(mail') /\ spawned' \subseteq Inputs
  BY <1>1, <1>3, <1>4 DEF Typed
<1> QED
  BY <1>1, <1>4, <1>8, <1>9, <1>10, <1>11, <1>12, OneStep

-----------------------------------------------------------------------------
(* The startup, and whoever ends the child: they move nothing but the task.  *)
LEMMA StartTurnKeepsPlaces ==
  ASSUME PlaceInv, NEW p \in Drainers \cup {Task}, StartTurn(p)
  PROVE  PlaceInv'
<1>1. /\ Typed /\ p \in Procs /\ (p = Task /\ proc[p].pc # "off" => status # "none")
      /\ active \in Inputs \cup {None}
  BY Apart DEF PlaceInv, Typed, Unsent
<1>2. ASSUME NEW pc \in {"reserve", "begin", "rollback"}, proc[p].pc = pc,
             NEW next \in {"enqueue", "begin", "register", "rollback", "error"}, Go(p, next),
             pc = "rollback" <=> next = "error",
             UNCHANGED <<mail, queue, ran, exec, spawned, status>>, active' \in Inputs \cup {None}
      PROVE  PlaceInv'
  <2>1. PICK r \in Tasks : proc' = [proc EXCEPT ![p] = r] /\ r.pc = next /\ r.todo = proc[p].todo
    BY <1>1, <1>2, GoIsAStep DEF Pcs
  <2>2. /\ proc[p].pc \notin {"off", "ok"} /\ r.pc \notin {"off", "ok"} /\ proc[p].pc \in Laden
        /\ r.pc \in Early => proc[p].pc \in Early
    BY <1>2, <2>1 DEF Laden, Early
  <2> QED
    BY <1>1, <1>2, <2>1, <2>2, GoesOn
<1>3. ASSUME Reserve(p) PROVE PlaceInv'
  BY <1>1, <1>2, <1>3 DEF Reserve, At, metaVars, actorVars, runVars
<1>4. ASSUME Begin(p) PROVE PlaceInv'
  <2>1. proc[p].pc \in Laden \ {"ok"}
    BY <1>4 DEF Begin, At, Laden
  <2>2. active' \in Inputs \cup {None}
    BY <1>4, <2>1, InputIs DEF Begin
  <2> QED
    BY <1>1, <1>2, <1>4, <2>2 DEF Begin, At, metaVars
<1>5. ASSUME Rollback(p) PROVE PlaceInv'
  BY <1>1, <1>2, <1>5 DEF Rollback, At, metaVars, runVars
<1>6. ASSUME Enqueue(p) \/ Register(p) PROVE PlaceInv'
  <2>1. proc[p].pc \in Laden \ {"ok"} /\ proc[p].pc \in Early /\ Go(p, "ok")
    BY <1>6 DEF Enqueue, Register, At, Laden, Early
  <2>2. PICK r \in Tasks : proc' = [proc EXCEPT ![p] = r] /\ r.pc = "ok" /\ r.todo = proc[p].todo
    BY <1>1, <2>1, GoIsAStep DEF Pcs
  <2>3. /\ UNCHANGED <<mail, ran, exec, status, active>>
        /\ \/ queue' = Append(queue, Input(p)) /\ UNCHANGED spawned
           \/ spawned' = spawned \cup {Input(p)} /\ UNCHANGED queue
    BY <1>6 DEF Enqueue, Register, metaVars, actorVars, runVars
  <2> QED
    BY <1>1, <2>1, <2>2, <2>3, HandsOver
<1> QED
  BY <1>3, <1>4, <1>5, <1>6 DEF StartTurn

(* A task that is no drainer and not the startup before its turn is made has *)
(* nothing in its hands.                                                     *)
LEMMA CloseKeepsPlaces ==
  ASSUME PlaceInv, NEW x \in Closers \cup Interrupts \cup {Task}, Close(x) \/ Interrupt(x),
         x = Task => proc[Task].pc # "off"
  PROVE  PlaceInv'
<1>1. /\ Typed /\ x \in Procs \ Drainers /\ active \in Inputs \cup {None}
      /\ x = Task => status # "none"
      /\ x = Task => x \notin Closers \cup Interrupts
  BY Apart DEF PlaceInv, Typed, Unsent
<1>2. ASSUME NEW r \in Tasks, proc' = [proc EXCEPT ![x] = r],
             r.pc \notin Early,
             UNCHANGED <<mail, queue, ran, exec>>, spawned' \subseteq spawned,
             active' \in Inputs \cup {None}, status' # "none" \/ UNCHANGED status
      PROVE  PlaceInv'
  <2>1. r.pc # "off" /\ (status' = "none" => status = "none" /\ x # Task)
    BY <1>1, <1>2 DEF Early
  <2> QED
    BY <1>1, <1>2, <2>1, GoesOn
<1>3. ASSUME NEW pc \in Pcs \ Early, Go(x, pc),
             UNCHANGED <<mail, queue, ran, exec>>, spawned' \subseteq spawned,
             active' \in Inputs \cup {None}, status' # "none" \/ UNCHANGED status
      PROVE  PlaceInv'
  <2>1. PICK r \in Tasks : proc' = [proc EXCEPT ![x] = r] /\ r.pc = pc
    BY <1>1, <1>3, GoIsAStep
  <2> QED
    BY <1>2, <1>3, <2>1
<1>4. ASSUME Done(x),
             UNCHANGED <<mail, queue, ran, exec>>, spawned' \subseteq spawned,
             active' \in Inputs \cup {None}, status' # "none" \/ UNCHANGED status
      PROVE  PlaceInv'
  <2>1. PICK r \in Tasks : proc' = [proc EXCEPT ![x] = r] /\ r.pc = "done"
    BY <1>1, <1>4, DoneIsAStep
  <2> QED
    BY <1>2, <1>4, <2>1 DEF Early
<1>5. proc[x] \in Tasks
  BY <1>1 DEF Typed
<1>6. ASSUME Mark(x) PROVE PlaceInv'
  <2> DEFINE r == [proc[x] EXCEPT !.pc = "had", !.had = status \in Ended]
  <2>1. r \in Tasks /\ r.pc = "had"
    <3>1. (status \in Ended) \in BOOLEAN
      OBVIOUS
    <3> QED
      BY <1>5, <3>1 DEF Tasks, Pcs
  <2>2. proc' = [proc EXCEPT ![x] = r]
    BY <1>6 DEF Mark
  <2>3. status' # "none" /\ UNCHANGED <<mail, queue, ran, exec, spawned, active>>
    BY <1>6 DEF Mark, actorVars, runVars, Ended
  <2> HIDE DEF r
  <2> QED
    BY <1>1, <1>2, <2>1, <2>2, <2>3 DEF Early
<1>7. ASSUME HadTurn(x) PROVE PlaceInv'
  <2> DEFINE r == [proc[x] EXCEPT !.pc = "cancel", !.had = @ \/ entry # None \/ ~Free]
  <2>1. r \in Tasks /\ r.pc = "cancel"
    <3>1. (proc[x].had \/ entry # None \/ ~Free) \in BOOLEAN
      OBVIOUS
    <3> QED
      BY <1>5, <3>1 DEF Tasks, Pcs
  <2>2. proc' = [proc EXCEPT ![x] = r]
    BY <1>7 DEF HadTurn
  <2>3. UNCHANGED <<status, mail, queue, ran, exec, spawned, active>>
    BY <1>7 DEF HadTurn, metaVars, actorVars, runVars
  <2> HIDE DEF r
  <2> QED
    BY <1>1, <1>2, <2>1, <2>2, <2>3 DEF Early
<1>8. ASSUME CancelChild(x) \/ AbortChild(x) PROVE PlaceInv'
  <2>1. /\ UNCHANGED <<status, mail, queue, ran, exec, active>> /\ spawned' \subseteq spawned
        /\ Go(x, "abort") \/ Go(x, "claim")
    BY <1>8 DEF CancelChild, AbortChild, metaVars, actorVars
  <2>2. {"abort", "claim"} \subseteq Pcs \ Early
    BY DEF Pcs, Early
  <2> QED
    BY <1>1, <1>3, <2>1, <2>2
<1>9. ASSUME ClaimTurn(x) PROVE PlaceInv'
  <2> DEFINE r == [proc[x] EXCEPT !.pc = "claimed", !.claimed = active]
  <2>1. r \in Tasks /\ r.pc = "claimed"
    BY <1>1, <1>5 DEF Tasks, Pcs
  <2>2. proc' = [proc EXCEPT ![x] = r]
    BY <1>9 DEF ClaimTurn
  <2>3. UNCHANGED <<status, mail, queue, ran, exec, spawned>> /\ active' \in Inputs \cup {None}
    BY <1>9 DEF ClaimTurn, metaVars, runVars
  <2> HIDE DEF r
  <2> QED
    BY <1>1, <1>2, <2>1, <2>2, <2>3 DEF Early
<1>10. ASSUME SettleClose(x) PROVE PlaceInv'
  <2>1. UNCHANGED <<status, mail, queue, ran, exec, spawned, active>>
    BY <1>10 DEF SettleClose, metaVars, actorVars, runVars
  <2>2. \E pc \in {"set", "closed", "tell"} : Go(x, pc)
    BY <1>10 DEF SettleClose
  <2>3. {"set", "closed", "tell"} \subseteq Pcs \ Early
    BY DEF Pcs, Early
  <2> QED
    BY <1>1, <1>3, <2>1, <2>2, <2>3
<1>11. ASSUME SetClosed(x) \/ TellClosed(x) PROVE PlaceInv'
  <2>1. /\ UNCHANGED <<mail, queue, ran, exec, spawned, active>>
        /\ status' # "none" \/ UNCHANGED status
        /\ Go(x, "tell") \/ Go(x, "closed")
    BY <1>11 DEF SetClosed, TellClosed, metaVars, actorVars, runVars
  <2>2. {"closed", "tell"} \subseteq Pcs \ Early
    BY DEF Pcs, Early
  <2> QED
    BY <1>1, <1>3, <2>1, <2>2
<1>12. ASSUME FinishClose(x) \/ SetInterrupted(x) PROVE PlaceInv'
  BY <1>1, <1>4, <1>12 DEF FinishClose, SetInterrupted, actorVars, runVars
<1> QED
  BY <1>6, <1>7, <1>8, <1>9, <1>10, <1>11, <1>12 DEF Close, Interrupt

LEMMA StartupKeepsPlaces ==
  ASSUME PlaceInv, SpawnAgent \/ Startup
  PROVE  PlaceInv'
<1>1. /\ Typed /\ Task \in Procs \ Drainers /\ active \in Inputs \cup {None}
      /\ proc[Task].pc # "off" => status # "none"
      /\ status = "none" => proc[Task].pc = "off"
  BY Apart DEF PlaceInv, Typed, Unsent
<1>2. ASSUME NEW pc \in Pcs \ {"off"}, Go(Task, pc) \/ (pc = "done" /\ Done(Task)),
             pc \in Early => proc[Task].pc \in Early,
             UNCHANGED <<mail, queue, ran, exec, spawned, active>>, status' # "none"
      PROVE  PlaceInv'
  <2>1. PICK r \in Tasks : proc' = [proc EXCEPT ![Task] = r] /\ r.pc = pc
    BY <1>1, <1>2, GoIsAStep, DoneIsAStep
  <2> QED
    BY <1>1, <1>2, <2>1, GoesOn
<1>3. CASE SpawnAgent
  BY <1>1, <1>2, <1>3 DEF SpawnAgent, actorVars, runVars, Pcs, Early
<1>4. CASE CheckStart
  BY <1>1, <1>2, <1>4 DEF CheckStart, At, metaVars, actorVars, runVars, Pcs, Early
<1>5. CASE Started
  BY <1>1, <1>2, <1>5 DEF Started, At, metaVars, actorVars, runVars, Pcs, Early
<1>6. CASE SetRunning
  BY <1>1, <1>2, <1>6 DEF SetRunning, At, actorVars, runVars, Pcs, Early
<1>7. CASE FailStart
  BY <1>1, <1>2, <1>7 DEF FailStart, At, actorVars, runVars, Pcs, Early
<1>8. CASE TellFailed
  BY <1>1, <1>2, <1>8 DEF TellFailed, At, metaVars, actorVars, runVars, Pcs, Early
<1>9. CASE StartTurn(Task)
  BY <1>9, StartTurnKeepsPlaces
<1>10. CASE Close(Task)
  <2>1. proc[Task].pc # "off"
    BY <1>10, Apart DEF Close, Mark, HadTurn, CancelChild, AbortChild, ClaimTurn, SettleClose, SetClosed,
                 TellClosed, FinishClose, At
  <2> QED
    BY <1>10, <2>1, CloseKeepsPlaces
<1> QED
  BY <1>3, <1>4, <1>5, <1>6, <1>7, <1>8, <1>9, <1>10 DEF Startup

-----------------------------------------------------------------------------
(* Those who send messages and drain the mailbox or the queue.               *)
LEMMA SendKeepsPlaces ==
  ASSUME PlaceInv, NEW m \in Messages, SendMessage(m)
  PROVE  PlaceInv'
<1>1. /\ Typed /\ m \in Procs /\ m \in Inputs /\ m \in Drainers /\ m # Task /\ m \notin Posts
      /\ Nowhere(m)
  BY Apart DEF PlaceInv, Unsent, SendMessage, At
<1>2. PICK r \in Tasks : proc' = [proc EXCEPT ![m] = r] /\ r.pc = "look" /\ r.todo = proc[m].todo
  BY <1>1, GoIsAStep DEF SendMessage, Pcs
<1>3. Fits(r) /\ ToSet(Rest(r)) = Hands(m) /\ r.pc \notin Early
  BY <1>1, <1>2 DEF SendMessage, At, PlaceInv, Places, Fits, Rest, Hands, Laden, Early
<1>4. /\ mail' \in Seq(Messages) /\ ToSet(mail') = ToSet(mail) \cup {m} /\ Distinct(mail')
      /\ UNCHANGED <<queue, ran, spawned, exec, active, status>>
  BY <1>1, AppendOne DEF SendMessage, metaVars, actorVars, runVars, Typed, PlaceInv, Places, Nowhere
<1>5. \A d \in Drainers : m \notin Hands(d)'
  BY <1>1, <1>2, <1>3 DEF Nowhere, Hands, Typed
<1>6. OnePlace(m)'
  BY <1>1, <1>4, <1>5 DEF OnePlace, Nowhere
<1> DEFINE T == {m}
<1>7. \A t \in Inputs \ T :
        /\ t \in ToSet(mail') => t \in ToSet(mail)
        /\ t \in ToSet(queue') => t \in ToSet(queue)
        /\ t \in spawned' => t \in spawned
        /\ m \in Drainers /\ t \in ToSet(Rest(r)) => t \in Hands(m)
  BY <1>3, <1>4
<1>8. \A t \in T : OnePlace(t)' /\ (Nowhere(t) => m = t /\ r.pc \notin Early)
  BY <1>3, <1>6
<1>9. /\ queue' \in Seq(Inputs) /\ Distinct(queue') /\ spawned' \subseteq Inputs
      /\ active' \in Inputs \cup {None} /\ r.pc # "off"
  BY <1>1, <1>2, <1>4 DEF Typed, PlaceInv, Places
<1> HIDE DEF T
<1> QED
  BY <1>1, <1>2, <1>3, <1>4, <1>7, <1>8, <1>9, OneStep

(* Only one of those who drain the mailbox at a time gets what is in it.     *)
LEMMA DrainKeepsPlaces ==
  ASSUME PlaceInv, NEW d \in Drainers, Drain(d)
  PROVE  PlaceInv'
<1>1. /\ Typed /\ d \in Procs /\ d # Task /\ proc[d].pc = "drain" /\ Distinct(mail) /\ Distinct(queue)
      /\ mail \in Seq(Inputs) /\ proc[d] \in Tasks
      /\ UNCHANGED <<queue, ran, spawned, exec, active, status>> /\ mail' = <<>>
  BY Apart DEF PlaceInv, Typed, Places, Drain, At, metaVars, actorVars, runVars
<1>2. CASE mail = <<>>
  <2>1. PICK r \in Tasks : proc' = [proc EXCEPT ![d] = r] /\ r.pc = "done" /\ r.todo = <<>>
    BY <1>1, <1>2, DoneIsAStep DEF Drain
  <2> QED
    BY <1>1, <1>2, <2>1, GoesOn DEF Laden, Early, Typed
<1>3. CASE mail # <<>>
  <2> DEFINE s == [proc[d] EXCEPT !.pc = "reserve", !.todo = mail]
  <2>0. s \in Tasks /\ proc' = [proc EXCEPT ![d] = s] /\ s.pc = "reserve" /\ s.todo = mail
    BY <1>1, <1>3 DEF Tasks, Pcs, Drain
  <2>1. PICK r \in Tasks : proc' = [proc EXCEPT ![d] = r] /\ r.pc = "reserve" /\ r.todo = mail
    BY <2>0
  <2>2. PICK T : T = ToSet(mail)
    OBVIOUS
  <2>3. Fits(r) /\ ToSet(Rest(r)) = T
    BY <1>1, <1>3, <2>1, <2>2 DEF Fits, Rest
  <2>4. T \subseteq Inputs /\ ToSet(mail') = {}
    BY <1>1, <2>2, NoneAndOne DEF Typed, ToSet
  <2>5. \A e \in Drainers : Hands(e)' = IF e = d THEN T ELSE Hands(e)
    BY <1>1, <2>1, <2>3, Apart DEF Typed, Hands
  <2>6. ASSUME NEW t \in T PROVE OnePlace(t)' /\ ~Nowhere(t)
    <3>1. t \in ToSet(mail) /\ OnePlace(t)
      BY <2>2, <2>4 DEF PlaceInv, Places
    <3> QED
      BY <1>1, <2>4, <2>5, <3>1 DEF OnePlace, Nowhere
  <2>7. \A t \in Inputs \ T :
          /\ t \in ToSet(mail') => t \in ToSet(mail)
          /\ t \in ToSet(queue') => t \in ToSet(queue)
          /\ t \in spawned' => t \in spawned
          /\ d \in Drainers /\ t \in ToSet(Rest(r)) => t \in Hands(d)
    BY <1>1, <2>3, <2>4
  <2>8. \A t \in T : OnePlace(t)' /\ (Nowhere(t) => d = t /\ r.pc \notin Early)
    BY <2>6
  <2>9. /\ mail' \in Seq(Messages) /\ Distinct(mail') /\ queue' \in Seq(Inputs) /\ Distinct(queue')
        /\ spawned' \subseteq Inputs /\ active' \in Inputs \cup {None} /\ r.pc # "off"
    BY <1>1, <2>1, NoneAndOne DEF Typed
  <2> QED
    BY <1>1, <2>1, <2>3, <2>7, <2>8, <2>9, OneStep
<1> QED
  BY <1>2, <1>3

LEMMA DeliveredKeepsPlaces ==
  ASSUME PlaceInv, NEW d \in Drainers, Delivered(d)
  PROVE  PlaceInv'
<1>1. /\ Typed /\ d \in Procs /\ d # Task /\ proc[d].pc = "ok" /\ proc[d] \in Tasks
      /\ proc[d].todo \in Seq(Inputs) /\ proc[d].todo # <<>> /\ Distinct(proc[d].todo)
      /\ UNCHANGED <<mail, queue, ran, spawned, exec, active>> /\ status' = "running"
  BY Apart DEF PlaceInv, Typed, Tasks, Places, Fits, Laden, Delivered, At, actorVars, runVars
<1>2. CASE Len(proc[d].todo) = 1
  <2>1. PICK r \in Tasks : proc' = [proc EXCEPT ![d] = r] /\ r.pc = "done" /\ r.todo = <<>>
    BY <1>1, <1>2, DoneIsAStep DEF Delivered
  <2> QED
    BY <1>1, <2>1, GoesOn DEF Laden, Typed
<1>3. CASE Len(proc[d].todo) # 1
  <2>1. PICK rest : rest = Tail(proc[d].todo)
    OBVIOUS
  <2>2. rest \in Seq(Inputs) /\ Distinct(rest) /\ rest # <<>> /\ ToSet(rest) = Hands(d)
    BY <1>1, <1>3, <2>1, TakeFirst DEF Hands, Rest
  <2> DEFINE s == [proc[d] EXCEPT !.todo = rest, !.pc = "reserve"]
  <2>3. s \in Tasks /\ proc' = [proc EXCEPT ![d] = s] /\ s.pc = "reserve" /\ s.todo = rest
    BY <1>1, <1>3, <2>1, <2>2 DEF Tasks, Pcs, Delivered
  <2>4. PICK r \in Tasks : proc' = [proc EXCEPT ![d] = r] /\ r.pc = "reserve" /\ r.todo = rest
    BY <2>3
  <2>5. Fits(r) /\ ToSet(Rest(r)) = Hands(d)
    BY <2>2, <2>4 DEF Fits, Rest
  <2> DEFINE T == {}
  <2>6. \A t \in Inputs \ T :
          /\ t \in ToSet(mail') => t \in ToSet(mail)
          /\ t \in ToSet(queue') => t \in ToSet(queue)
          /\ t \in spawned' => t \in spawned
          /\ d \in Drainers /\ t \in ToSet(Rest(r)) => t \in Hands(d)
    BY <1>1, <2>5
  <2>7. \A t \in T : OnePlace(t)' /\ (Nowhere(t) => d = t /\ r.pc \notin Early)
    OBVIOUS
  <2>8. /\ mail' \in Seq(Messages) /\ Distinct(mail') /\ queue' \in Seq(Inputs) /\ Distinct(queue')
        /\ spawned' \subseteq Inputs /\ active' \in Inputs \cup {None} /\ r.pc # "off"
    BY <1>1, <2>4 DEF Typed, PlaceInv, Places
  <2> HIDE DEF T, s
  <2> QED
    BY <1>1, <2>4, <2>5, <2>6, <2>7, <2>8, OneStep
<1> QED
  BY <1>2, <1>3

LEMMA PopKeepsPlaces ==
  ASSUME PlaceInv, NEW d \in Drainers, NEW pc \in {"pop", "again"}, NEW next \in {"again", "accept"},
         PopQueue(d, pc, next)
  PROVE  PlaceInv'
<1>1. /\ Typed /\ d \in Procs /\ d # Task /\ proc[d].pc \in {"pop", "again"} /\ proc[d] \in Tasks
      /\ Distinct(mail) /\ Distinct(queue)
      /\ UNCHANGED <<mail, ran, spawned, exec, active, status>>
  BY Apart DEF PlaceInv, Typed, Places, PopQueue, At, metaVars, runVars
<1>2. CASE queue = <<>>
  <2>1. PICK r \in Tasks : proc' = [proc EXCEPT ![d] = r] /\ r.pc = next /\ r.todo = proc[d].todo
    BY <1>1, <1>2, GoIsAStep DEF PopQueue, Pcs
  <2>2. UNCHANGED queue /\ proc[d].pc \notin {"off", "ok"} /\ r.pc \notin Laden \cup {"off", "ok"}
    BY <1>1, <1>2, <2>1 DEF PopQueue, Laden
  <2>3. UNCHANGED <<mail, queue, ran, exec>> /\ spawned' \subseteq spawned /\ active' \in Inputs \cup {None}
    BY <1>1, <2>2 DEF Typed
  <2> QED
    BY <1>1, <2>1, <2>2, <2>3, GoesOn
<1>3. CASE queue # <<>>
  <2>1. PICK t : t = Head(queue)
    OBVIOUS
  <2>2. /\ queue' \in Seq(Inputs) /\ Distinct(queue')
        /\ t \in Inputs /\ t \notin ToSet(queue') /\ ToSet(queue) = ToSet(queue') \cup {t}
    <3>1. queue' = Tail(queue) /\ queue \in Seq(Inputs)
      BY <1>1, <1>3 DEF Typed, PopQueue
    <3>2. Head(queue) \in Inputs /\ Tail(queue) \in Seq(Inputs) /\ Distinct(Tail(queue))
      BY <1>1, <1>3, <3>1, TakeFirst
    <3>3. Head(queue) \notin ToSet(Tail(queue)) /\ ToSet(queue) = ToSet(Tail(queue)) \cup {Head(queue)}
      BY <1>1, <1>3, <3>1, TakeFirst
    <3> QED
      BY <2>1, <3>1, <3>2, <3>3
  <2> DEFINE s == [proc[d] EXCEPT !.pc = "activate", !.todo = <<t>>]
  <2>3. s \in Tasks /\ proc' = [proc EXCEPT ![d] = s] /\ s.pc = "activate" /\ s.todo = <<t>>
    BY <1>1, <1>3, <2>1, <2>2, NoneAndOne DEF Tasks, Pcs, PopQueue
  <2>4. PICK r \in Tasks : proc' = [proc EXCEPT ![d] = r] /\ r.pc = "activate" /\ r.todo = <<t>>
    BY <2>3
  <2>5. Fits(r) /\ ToSet(Rest(r)) = {t}
    BY <2>4, NoneAndOne DEF Fits, Rest
  <2>6. \A e \in Drainers : Hands(e)' = IF e = d THEN {t} ELSE Hands(e)
    BY <1>1, <2>4, <2>5, Apart DEF Typed, Hands
  <2>7. OnePlace(t)' /\ ~Nowhere(t)
    <3>1. OnePlace(t) /\ t \in ToSet(queue)
      BY <2>2 DEF PlaceInv, Places
    <3> QED
      BY <1>1, <2>2, <2>6, <3>1 DEF OnePlace, Nowhere
  <2> DEFINE T == {t}
  <2>8. \A u \in Inputs \ T :
          /\ u \in ToSet(mail') => u \in ToSet(mail)
          /\ u \in ToSet(queue') => u \in ToSet(queue)
          /\ u \in spawned' => u \in spawned
          /\ d \in Drainers /\ u \in ToSet(Rest(r)) => u \in Hands(d)
    BY <1>1, <2>2, <2>5
  <2>9. \A u \in T : OnePlace(u)' /\ (Nowhere(u) => d = u /\ r.pc \notin Early)
    BY <2>7
  <2>10. /\ mail' \in Seq(Messages) /\ Distinct(mail')
         /\ spawned' \subseteq Inputs /\ active' \in Inputs \cup {None} /\ r.pc # "off"
    BY <1>1, <2>4 DEF Typed
  <2>11. d \in Posts => proc[d].pc # "off"
    BY <1>1
  <2>12. exec' = exec /\ ran' = ran /\ status' = status
    BY <1>1
  <2> HIDE DEF T, s
  <2>13. queue' \in Seq(Inputs) /\ Distinct(queue')
    BY <2>2
  <2>14. r.pc # "off" /\ proc' = [proc EXCEPT ![d] = r] /\ d \in Procs /\ d # Task /\ Fits(r)
    BY <1>1, <2>4, <2>5
  <2> QED
    BY <2>8, <2>9, <2>10, <2>11, <2>12, <2>13, <2>14, OneStep
<1> QED
  BY <1>2, <1>3

LEMMA DeliverKeepsPlaces ==
  ASSUME PlaceInv, NEW d \in Drainers, Deliver(d)
  PROVE  PlaceInv'
<1>1. Typed /\ d \in Procs /\ d # Task /\ active \in Inputs \cup {None}
  BY Apart DEF PlaceInv, Typed
<1>2. CASE Undelivered(d)
  <2>1. PICK r \in Tasks : proc' = [proc EXCEPT ![d] = r] /\ r.pc = "done" /\ r.todo = <<>>
    BY <1>1, <1>2, DoneIsAStep DEF Undelivered
  <2> QED
    BY <1>1, <1>2, <2>1, GoesOn DEF Undelivered, At, Laden, metaVars, actorVars, runVars
<1>3. CASE Activate(d)
  <2>1. PICK r \in Tasks : proc' = [proc EXCEPT ![d] = r] /\ r.pc = "done" /\ r.todo = <<>>
    BY <1>1, <1>3, DoneIsAStep DEF Activate
  <2>2. proc[d].pc \in Laden \ {"ok"}
    BY <1>3 DEF Activate, At, Laden
  <2>3. Input(d) \in Inputs
    BY <2>2, InputIs
  <2> QED
    BY <1>1, <1>3, <2>1, <2>2, <2>3, HandsOver DEF Activate, metaVars
<1>4. CASE Accept(d)
  <2>1. PICK r \in Tasks : proc' = [proc EXCEPT ![d] = r] /\ r.pc = "drain" /\ r.todo = proc[d].todo
    BY <1>1, <1>4, GoIsAStep DEF Accept, Pcs
  <2> QED
    BY <1>1, <1>4, <2>1, GoesOn DEF Accept, At, Laden, metaVars, actorVars, runVars
<1> QED
  BY <1>2, <1>3, <1>4, StartTurnKeepsPlaces, DrainKeepsPlaces, DeliveredKeepsPlaces, PopKeepsPlaces DEF Deliver

LEMMA SenderKeepsPlaces ==
  ASSUME PlaceInv, NEW m \in Messages, Sender(m)
  PROVE  PlaceInv'
<1>1. Typed /\ m \in Procs /\ m # Task /\ m \in Drainers /\ active \in Inputs \cup {None}
  BY Apart DEF PlaceInv, Typed
<1>2. CASE LookForTurn(m) \/ AskForTurn(m)
  <2>1. /\ proc[m].pc \in {"look", "ask"} /\ \E pc \in {"done", "ask", "drain"} : Go(m, pc)
        /\ UNCHANGED <<mail, queue, ran, exec, spawned, active, status>>
    BY <1>2 DEF LookForTurn, AskForTurn, At, metaVars, actorVars, runVars
  <2>2. PICK r \in Tasks : /\ proc' = [proc EXCEPT ![m] = r]
                           /\ r.pc \in {"done", "ask", "drain"} /\ r.todo = proc[m].todo
    BY <1>1, <2>1, GoIsAStep DEF Pcs
  <2> QED
    BY <1>1, <2>1, <2>2, GoesOn DEF Laden
<1> QED
  BY <1>1, <1>2, DeliverKeepsPlaces DEF Sender

-----------------------------------------------------------------------------
(* The actor, and the theorem.                                               *)
(* A turn's task becomes what its actor executes, and its query takes the    *)
(* queue: what was in either place is given to the model.                    *)
LEMMA ExecuteKeepsPlaces ==
  ASSUME PlaceInv, NEW t \in Inputs, ExecuteTurn(t)
  PROVE  PlaceInv'
<1>1. /\ Typed /\ t \in spawned /\ Distinct(mail) /\ Distinct(queue) /\ Distinct(ran)
      /\ queue \in Seq(Inputs) /\ ran \in Seq(Inputs) /\ exec.pc = "idle"
      /\ UNCHANGED <<mail, active, proc, status>>
      /\ exec' = [pc |-> "querying", turn |-> t, end |-> "running"]
      /\ spawned' = spawned \ {t}
      /\ ran' = Append(ran, t) \o queue /\ queue' = <<>>
  BY DEF ExecuteTurn, Free, PlaceInv, Typed, Places, metaVars
<1>2. \A u \in Inputs : OnePlace(u)
  BY DEF PlaceInv, Places
<1>3. PICK given : given = Append(ran, t)
  OBVIOUS
<1>4. /\ given \in Seq(Inputs) /\ ToSet(given) = ToSet(ran) \cup {t} /\ Distinct(given)
  BY <1>1, <1>2, <1>3, AppendOne DEF OnePlace
<1>5. ToSet(given) \cap ToSet(queue) = {}
  <2> SUFFICES ASSUME NEW u \in ToSet(given) \cap ToSet(queue) PROVE FALSE
    OBVIOUS
  <2>1. u \in Inputs
    BY <1>4 DEF ToSet
  <2> QED
    BY <1>1, <1>2, <1>4, <2>1 DEF OnePlace
<1>6. /\ ran' \in Seq(Inputs) /\ ToSet(ran') = ToSet(ran) \cup {t} \cup ToSet(queue) /\ Distinct(ran')
  <2>1. ran' = given \o queue
    BY <1>1, <1>3
  <2>2. /\ given \o queue \in Seq(Inputs) /\ ToSet(given \o queue) = ToSet(given) \cup ToSet(queue)
        /\ Distinct(given \o queue)
    BY <1>1, <1>4, <1>5, JoinTwo
  <2> QED
    BY <1>4, <2>1, <2>2
<1>7. Typed'
  BY <1>1, <1>6, NoneAndOne DEF Typed, Turning
<1>8. ToSet(queue') = {} /\ Distinct(queue')
  BY <1>1, NoneAndOne
<1>9. \A d \in Drainers : Hands(d)' = Hands(d)
  BY <1>1 DEF Hands
<1>10. ASSUME NEW u \in Inputs PROVE OnePlace(u)' /\ (Nowhere(u) => Nowhere(u)')
  <2>1. OnePlace(u)
    BY <1>2
  <2>2. spawned' \subseteq spawned /\ t \notin spawned'
    BY <1>1
  <2> QED
    BY <1>1, <1>6, <1>8, <1>9, <2>1, <2>2 DEF OnePlace, Nowhere
<1>11. Places'
  BY <1>1, <1>6, <1>8, <1>10 DEF PlaceInv, Places
<1>12. Unsent'
  BY <1>1, <1>10, Apart DEF PlaceInv, Unsent
<1>13. Followed'
  <2>1. t \notin ToSet(ran)
    BY <1>1, <1>2 DEF OnePlace
  <2>2. exec'.pc # "idle" /\ exec'.turn = t
    BY <1>1
  <2>3. \A u \in Inputs : proc'[After(u)].pc # "off" => u \in ToSet(ran)
    BY <1>1 DEF PlaceInv, Followed, After
  <2> QED
    BY <1>6, <2>1, <2>2, <2>3 DEF Followed, After
<1> QED
  BY <1>7, <1>11, <1>12, <1>13 DEF PlaceInv

(* While the turn is executed and ended, no message moves.                   *)
LEMMA TurnKeepsPlaces ==
  ASSUME PlaceInv, QueryReturns \/ QueryCancelled \/ EndTurn \/ ResolveStatus \/ SetEnded \/ TellEnded
  PROVE  PlaceInv'
<1>1. /\ UNCHANGED <<mail, queue, ran, spawned, proc>>
      /\ active' \in Inputs \cup {None} /\ Typed
  BY DEF QueryReturns, QueryCancelled, QueryEnds, EndTurn, ResolveStatus, SetEnded, TellEnded,
         runVars, PlaceInv, Typed
<1>2. exec.pc # "idle" /\ exec'.pc # "idle" /\ exec'.turn = exec.turn
      /\ exec' \in [pc : Turning \cup {"idle"}, turn : Inputs \cup {None}, end : Ended \cup {"running"}]
  <2>1. exec \in [pc : Turning \cup {"idle"}, turn : Inputs \cup {None}, end : Ended \cup {"running"}]
    BY <1>1 DEF Typed
  <2>2. CASE QueryReturns \/ QueryCancelled
    BY <2>1, <2>2 DEF QueryReturns, QueryCancelled, QueryEnds, Turning, Ended
  <2>3. CASE EndTurn
    BY <2>1, <2>3 DEF EndTurn, Turning
  <2>4. CASE ResolveStatus
    BY <2>1, <2>4 DEF ResolveStatus, Turning, Ended
  <2>5. CASE SetEnded
    BY <2>1, <2>5 DEF SetEnded, Turning
  <2>6. CASE TellEnded
    BY <2>1, <2>6 DEF TellEnded, Turning
  <2> QED
    BY <2>2, <2>3, <2>4, <2>5, <2>6
<1>3. status' # "none" \/ UNCHANGED status
  <2>1. exec.end # "none"
    BY <1>1 DEF Typed, Ended
  <2> QED
    BY <2>1 DEF QueryReturns, QueryCancelled, QueryEnds, EndTurn, ResolveStatus, SetEnded, TellEnded, metaVars
<1>4. Typed'
  BY <1>1, <1>2 DEF Typed
<1>5. \A t : (OnePlace(t)' <=> OnePlace(t)) /\ (Nowhere(t)' <=> Nowhere(t))
  BY <1>1 DEF OnePlace, Nowhere, Hands
<1>6. Places' /\ Unsent'
  BY <1>1, <1>3, <1>5 DEF PlaceInv, Places, Unsent
<1>7. Followed'
  BY <1>1, <1>2 DEF PlaceInv, Followed, After
<1> QED
  BY <1>4, <1>6, <1>7 DEF PlaceInv

LEMMA CloseTurnKeepsPlaces ==
  ASSUME PlaceInv, CloseTurn
  PROVE  PlaceInv'
<1>1. /\ Typed /\ exec.pc = "closing" /\ exec' = Idle /\ Go(After(exec.turn), "pop")
      /\ UNCHANGED <<mail, queue, ran, spawned, active, status>>
  BY DEF CloseTurn, metaVars, runVars, PlaceInv
<1>2. PICK t : t = exec.turn
  OBVIOUS
<1>3. /\ t \in ToSet(ran) /\ t \in Inputs
      /\ proc[After(t)].pc = "off"
  <2>1. t \in ToSet(ran)
    BY <1>1, <1>2 DEF PlaceInv, Followed
  <2>2. t \in Inputs
    BY <1>1, <2>1 DEF Typed, ToSet
  <2> QED
    BY <1>1, <1>2, <2>1, <2>2 DEF PlaceInv, Followed
<1>4. PICK p : p = After(t)
  OBVIOUS
<1>5. p \in Posts /\ p \in Drainers /\ p \in Procs /\ p \notin Messages /\ p # Task
  BY <1>3, <1>4, Apart
<1>6. PICK r \in Tasks : proc' = [proc EXCEPT ![p] = r] /\ r.pc = "pop" /\ r.todo = proc[p].todo
  BY <1>1, <1>2, <1>4, <1>5, GoIsAStep DEF Pcs
<1>7. /\ \A q \in Procs : q # p => proc'[q] = proc[q]
      /\ proc'[p] = r /\ proc' \in [Procs -> Tasks]
  BY <1>1, <1>5, <1>6 DEF Typed
<1>8. Fits(r) /\ ToSet(Rest(r)) = Hands(p)
  BY <1>3, <1>4, <1>5, <1>6 DEF PlaceInv, Places, Fits, Rest, Hands, Laden
<1>9. \A d \in Drainers : Hands(d)' = Hands(d) /\ Fits(proc'[d])
  BY <1>7, <1>8, Apart DEF Hands, PlaceInv, Places
<1>10. \A u : (OnePlace(u)' <=> OnePlace(u)) /\ (Nowhere(u)' <=> Nowhere(u))
  BY <1>1, <1>9 DEF OnePlace, Nowhere
<1>11. Typed'
  BY <1>1, <1>7 DEF Typed, Idle
<1>12. Places' /\ Unsent'
  <2>1. \A m \in Messages \cup {Task} : proc'[m] = proc[m]
    BY <1>5, <1>7, Apart
  <2> QED
    BY <1>1, <1>9, <1>10, <2>1, Apart DEF PlaceInv, Places, Unsent
<1>13. Followed'
  <2>1. ASSUME NEW u \in Inputs, proc'[After(u)].pc # "off" PROVE u \in ToSet(ran)
    <3>1. CASE u = t
      BY <1>3, <3>1
    <3>2. CASE u # t
      <4>1. After(u) \in Procs /\ After(u) # p
        BY <1>3, <1>4, <3>2, Apart
      <4> QED
        BY <1>7, <2>1, <4>1 DEF PlaceInv, Followed
    <3> QED
      BY <3>1, <3>2
  <2>2. exec'.pc = "idle"
    BY <1>1 DEF Idle
  <2> QED
    BY <1>1, <2>1, <2>2 DEF Followed, After
<1> QED
  BY <1>11, <1>12, <1>13 DEF PlaceInv

LEMMA PlaceInvKept == PlaceInv /\ [Next]_vars => PlaceInv'
<1> SUFFICES ASSUME PlaceInv, [Next]_vars PROVE PlaceInv'
  OBVIOUS
<1>0. Messages \subseteq Drainers /\ Posts \subseteq Drainers
  BY Apart
<1>1. CASE UNCHANGED <<status, mail, queue, ran, spawned, active, exec, proc>>
  <2>1. \A t : (OnePlace(t)' <=> OnePlace(t)) /\ (Nowhere(t)' <=> Nowhere(t))
    BY <1>1 DEF OnePlace, Nowhere, Hands
  <2> QED
    BY <1>1, <2>1 DEF PlaceInv, Typed, Places, Unsent, Followed, After
<1>2. CASE SpawnAgent \/ Startup
  BY <1>2, StartupKeepsPlaces
<1>3. CASE Actor \/ QueryReturns
  BY <1>3, ExecuteKeepsPlaces, TurnKeepsPlaces, CloseTurnKeepsPlaces DEF Actor
<1>4. ASSUME NEW m \in Messages, SendMessage(m) \/ Sender(m) PROVE PlaceInv'
  BY <1>4, SendKeepsPlaces, SenderKeepsPlaces
<1>5. ASSUME NEW d \in Posts, Deliver(d) PROVE PlaceInv'
  BY <1>0, <1>5, DeliverKeepsPlaces
<1>6. ASSUME NEW x \in Closers, Mark(x) \/ Close(x) PROVE PlaceInv'
  BY <1>6, CloseKeepsPlaces, Apart DEF Close
<1>7. ASSUME NEW i \in Interrupts, CancelChild(i) \/ Interrupt(i) PROVE PlaceInv'
  BY <1>7, CloseKeepsPlaces, Apart DEF Interrupt
<1>8. CASE System
  BY <1>2, <1>3, <1>4, <1>5, <1>6, <1>7, <1>8 DEF System
<1>9. CASE (WaitNext /\ UNCHANGED <<metaVars, mail, actorVars, runVars, proc>>) \/ UNCHANGED vars
  BY <1>1, <1>9 DEF vars, metaVars, actorVars, runVars
<1> QED
  BY <1>2, <1>3, <1>4, <1>6, <1>7, <1>8, <1>9 DEF Next

LEMMA PlacesSuffice == PlaceInv => GivenOnce
<1> SUFFICES ASSUME PlaceInv PROVE GivenOnce
  OBVIOUS
<1>1. /\ mail \in Seq(Inputs) /\ queue \in Seq(Inputs) /\ ran \in Seq(Inputs) /\ spawned \subseteq Inputs
      /\ Distinct(mail) /\ Distinct(queue) /\ Distinct(ran)
  BY Apart DEF PlaceInv, Typed, Places
<1>2. \A t \in Inputs : OnePlace(t)
  BY DEF PlaceInv, Places
<1>3. ToSet(mail) \subseteq Inputs /\ ToSet(queue) \subseteq Inputs /\ ToSet(ran) \subseteq Inputs
  BY <1>1 DEF ToSet
<1>4. /\ ToSet(mail) \cap ToSet(queue) = {}
      /\ (ToSet(mail) \cup ToSet(queue)) \cap ToSet(ran) = {}
      /\ spawned \cap (ToSet(mail) \cup ToSet(queue) \cup ToSet(ran)) = {}
  BY <1>2, <1>3 DEF OnePlace
<1>5. PICK front : front = mail \o queue
  OBVIOUS
<1>6. /\ front \in Seq(Inputs) /\ Distinct(front) /\ ToSet(front) = ToSet(mail) \cup ToSet(queue)
  BY <1>1, <1>4, <1>5, JoinTwo
<1>7. PICK all : all = front \o ran
  OBVIOUS
<1>8. /\ all = mail \o queue \o ran
      /\ Distinct(all) /\ ToSet(all) = ToSet(mail) \cup ToSet(queue) \cup ToSet(ran)
  <2>1. ToSet(front) \cap ToSet(ran) = {}
    BY <1>4, <1>6
  <2>2. Distinct(front \o ran) /\ ToSet(front \o ran) = ToSet(front) \cup ToSet(ran)
    BY <1>1, <1>6, <2>1, JoinTwo
  <2> QED
    BY <1>5, <1>6, <1>7, <2>2
<1>9. ASSUME NEW d \in Drainers
      PROVE  /\ Undone(d) = Rest(proc[d]) /\ ToSet(Undone(d)) = Hands(d) /\ Hands(d) \subseteq Inputs
  <2>1. proc[d].todo \in Seq(Inputs) /\ (proc[d].pc = "ok" => proc[d].todo # <<>>)
    BY Apart DEF PlaceInv, Typed, Tasks, Places, Fits, Laden
  <2>2. Rest(proc[d]) \in Seq(Inputs)
    BY <2>1, TakeFirst DEF Rest
  <2> QED
    BY <2>2 DEF Undone, Rest, At, Hands, ToSet
<1>10. \A d \in Drainers :
         /\ Hands(d) \cap (ToSet(mail) \cup ToSet(queue) \cup ToSet(ran) \cup spawned) = {}
         /\ \A e \in Drainers \ {d} : Hands(d) \cap Hands(e) = {}
  BY <1>2, <1>9 DEF OnePlace
<1> QED
  BY <1>4, <1>8, <1>9, <1>10 DEF GivenOnce, IsInjective, Distinct

(* A message sent to a child is in one place at a time, and its model is     *)
(* given it at most once, however the senders, the task after a turn and the *)
(* startup overlap in draining the mailbox and the queue.                    *)
THEOREM MessagesGivenOnce == Spec => []GivenOnce
<1> QED
  BY InitPlaces, PlaceInvKept, PlacesSuffice, PTL DEF Spec
=============================================================================
