-------------------------- MODULE MCTurnLifecycle --------------------------
(* Small instances of TurnLifecycle for TLC, and the contract they implement. *)
EXTENDS TurnLifecycle

(* A turn counts as accepted once its task is spawned, and as over with its  *)
(* first terminal event; a second one is an outcome the contract lacks.      *)
Outcome == [t \in TurnReqs |->
  CASE Len(ended[t]) > 1 -> "twice"
    [] Len(ended[t]) = 1 -> ended[t][1]
    [] ended[t] = <<>> /\ task[t].pc = "none" -> "none"
    [] OTHER -> "running"]

Told == [i \in InterruptReqs |->
  CASE intr[i].reply \in Terminal -> [turn |-> intr[i].turn, answer |-> intr[i].reply]
    [] intr[i].reply = "None"     -> [turn |-> NoTurn, answer |-> "None"]
    [] OTHER                      -> [turn |-> NoTurn, answer |-> "Error"]]

Contract == INSTANCE TurnContract WITH
  TurnIds <- TurnReqs, InterruptIds <- InterruptReqs, NoTurnId <- NoTurn,
  outcome <- Outcome, told <- Told

(* Of three turn requests, clients send two.                                 *)
TwoTurnRequests == \E r \in TurnReqs : req[r].pc = "new"

(* For a client that sends one turn at a time, the handlers, the actor and   *)
(* the turn tasks together implement the contract.                           *)
ImplementsContract == Contract!Spec
=============================================================================
