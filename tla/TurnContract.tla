---------------------------- MODULE TurnContract ----------------------------
(***************************************************************************)
(* What the turn methods of the server promise a client that sends one     *)
(* turn at a time: a turn that was accepted runs alone, reaches exactly    *)
(* one terminal status and keeps it, and turn/interrupt answers either     *)
(* with the status its turn did reach or with an error.                    *)
(***************************************************************************)
CONSTANTS TurnIds, InterruptIds, NoTurnId

VARIABLES
  outcome,    \* per turn: "none" before it is accepted, "running", or its terminal status
  told        \* per interrupt: nothing yet, an error, or a terminal status and its turn

Answer(t, a) == [turn |-> t, answer |-> a]
Nothing == Answer(NoTurnId, "None")
Statuses == {"Completed", "Failed", "Interrupted"}

Init ==
  /\ outcome = [t \in TurnIds |-> "none"]
  /\ told = [i \in InterruptIds |-> Nothing]

Start(t) ==
  /\ outcome[t] = "none"
  /\ \A u \in TurnIds : outcome[u] # "running"
  /\ outcome' = [outcome EXCEPT ![t] = "running"]
  /\ UNCHANGED told

End(t) ==
  /\ outcome[t] = "running"
  /\ \E s \in Statuses : outcome' = [outcome EXCEPT ![t] = s]
  /\ UNCHANGED told

(* The status may have been reached by an interrupt in this very step. *)
Tell(i) ==
  /\ told[i] = Nothing
  /\ \E t \in TurnIds :
       /\ outcome[t] \in Statuses
       /\ told' = [told EXCEPT ![i] = Answer(t, outcome[t])]
  /\ UNCHANGED outcome

EndAndTell(t, i) ==
  /\ outcome[t] = "running" /\ told[i] = Nothing
  /\ outcome' = [outcome EXCEPT ![t] = "Interrupted"]
  /\ told' = [told EXCEPT ![i] = Answer(t, "Interrupted")]

Refuse(i) ==
  /\ told[i] = Nothing
  /\ told' = [told EXCEPT ![i] = Answer(NoTurnId, "Error")]
  /\ UNCHANGED outcome

Next ==
  \/ \E t \in TurnIds : Start(t) \/ End(t)
  \/ \E i \in InterruptIds : Tell(i) \/ Refuse(i)
  \/ \E t \in TurnIds, i \in InterruptIds : EndAndTell(t, i)

Spec == Init /\ [][Next]_<<outcome, told>>
=============================================================================
