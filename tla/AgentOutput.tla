---------------------------- MODULE AgentOutput ----------------------------
(***************************************************************************)
(* What a parent hears of its child agents.  One buffer per parent takes   *)
(* the children's changes of status.  A wait returns what came after its   *)
(* cursor once that includes the end of a child's turn; a cursor is kept   *)
(* per target, and moved after the wait let go of the buffer.              *)
(*                                                                         *)
(* An event's sequence number is its place in the buffer.  The children's  *)
(* text, which wakes nobody, is left out, and so is a wait with an         *)
(* after_sequence of its own, which leaves the cursors alone.              *)
(***************************************************************************)
EXTENDS Naturals, Sequences, SequencesExt, FiniteSets

CONSTANTS
  Children,    \* child sessions of the parent
  Turns,       \* turns of children
  Waits,       \* wait_agent and await_task calls
  All, None

ASSUME OutputAssumption ==
  /\ IsFiniteSet(Children) /\ IsFiniteSet(Waits)
  /\ All \notin Children /\ None \notin Children \cup Turns \cup {All}

VARIABLES
  buffer,   \* SubagentOutputBuffer.events
  cursor,   \* agent_wait_cursors, by target
  wait      \* the waits: progress, target, cursor read, what it returned

outputVars == <<buffer, cursor, wait>>

Keys == Children \cup {All}
Targets(k) == IF k = All THEN Children ELSE {k}
Ended == {"completed", "failed", "interrupted", "closed"}
Statuses == Ended \cup {"spawning", "running"}

PushStatus(c, t, s) ==
  /\ buffer' = Append(buffer, [from |-> c, turn |-> t, status |-> s])
  /\ UNCHANGED <<cursor, wait>>

-----------------------------------------------------------------------------
EventsAfter(n, k) == {p \in (n + 1)..Len(buffer) : buffer[p].from \in Targets(k)}
IsTerminal(p) == buffer[p].status \in Ended

BeginWait(w, k) ==
  /\ wait[w].pc = "new"
  /\ wait' = [wait EXCEPT ![w] = [@ EXCEPT !.pc = "waiting", !.key = k, !.after = cursor[k]]]
  /\ UNCHANGED <<buffer, cursor>>

(* Looks again whenever it is notified; nobody is told of other events.      *)
Look(w) ==
  LET found == EventsAfter(wait[w].after, wait[w].key) IN
  /\ wait[w].pc = "waiting"
  /\ \E p \in found : IsTerminal(p)
  /\ wait' = [wait EXCEPT ![w].pc = "update", ![w].got = found]
  /\ UNCHANGED <<buffer, cursor>>

UpdateToNext(w) ==         \* mutant: takes next_sequence for what was consumed
  /\ wait[w].pc = "update"
  /\ cursor' = [cursor EXCEPT ![wait[w].key] = Len(buffer)]
  /\ wait' = [wait EXCEPT ![w].pc = "done"]
  /\ UNCHANGED buffer

UpdateCursor(w) ==
  /\ wait[w].pc = "update"
  /\ \E consumed \in wait[w].got :
       /\ \A p \in wait[w].got : p <= consumed
       /\ cursor' = [cursor EXCEPT ![wait[w].key] = consumed]
  /\ wait' = [wait EXCEPT ![w].pc = "done"]
  /\ UNCHANGED buffer

(* The timeout, or the parent's turn is cancelled.                           *)
GiveUp(w) ==
  /\ wait[w].pc = "waiting"
  /\ wait' = [wait EXCEPT ![w].pc = "done"]
  /\ UNCHANGED <<buffer, cursor>>

-----------------------------------------------------------------------------
OutputInit ==
  /\ buffer = <<>>
  /\ cursor = [k \in Keys |-> 0]
  /\ wait = [w \in Waits |-> [pc |-> "new", key |-> None, after |-> 0, got |-> {}]]

Waiting(w) == Look(w) \/ UpdateCursor(w) \/ GiveUp(w)
WaitNext == \E w \in Waits : (\E k \in Keys : BeginWait(w, k)) \/ Waiting(w)

OutputTypeOK ==
  /\ \A p \in DOMAIN buffer : buffer[p].from \in Children /\ buffer[p].status \in Statuses
  /\ \A k \in Keys : cursor[k] \in 0..Len(buffer)
  /\ wait \in [Waits -> [pc : {"new", "waiting", "update", "done"}, key : Keys \cup {None},
                         after : 0..Len(buffer), got : SUBSET (1..Len(buffer))]]

(* A cursor passes no change of status that no wait for that target got,     *)
(* however waits overlap and whenever their cursors are moved.               *)
NothingSkipped ==
  \A k \in Keys : \A p \in 1..cursor[k] :
    buffer[p].from \in Targets(k) =>
      \E w \in Waits : wait[w].key = k /\ p \in wait[w].got
=============================================================================
