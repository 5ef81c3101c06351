------------------------------ MODULE MCQueries ------------------------------
(***************************************************************************)
(* What the model of a session is told: the prompt that the query loop     *)
(* keeps (QueryLoop), and the inputs that reach the loop while it is at    *)
(* work (PendingInputs).  What an input says makes no difference to its    *)
(* way, nor its way to what the loop does with it once it is a message, so *)
(* an execution is one of the loop or one of the inputs.                   *)
(***************************************************************************)
EXTENDS QueryLoop

CONSTANTS QueueInputs, SteerInputs, Note, MaxTurns, MaxLives

VARIABLES
  side,                                                          \* which of the two
  mailbox, queue, btw, begun, pending, rows, turn, chain, h, requests, life, up, given, arrived
                                               \* as in PendingInputs; requests is its q

Inbox == INSTANCE PendingInputs WITH q <- requests

ASSUME MCAssumption == Inbox!InputAssumption

inboxVars ==
  <<mailbox, queue, btw, begun, pending, rows, turn, chain, h, requests, life, up, given, arrived>>
allVars == <<side, vars, inboxVars>>

MCInit == side \in {"loop", "inputs"} /\ Init /\ Inbox!Init
MCNext ==
  \/ side = "loop" /\ Next /\ UNCHANGED <<side, inboxVars>>
  \/ side = "inputs" /\ Inbox!Next /\ UNCHANGED <<side, vars>>

MCSpec == MCInit /\ [][MCNext]_allVars

Symmetry == Inbox!Symmetry

(* What PendingInputs says of the inputs.                                    *)
GivenOncePerLife == Inbox!GivenOncePerLife
WaitingIsDurable == Inbox!WaitingIsDurable
TimelySteerStaysInTurn == Inbox!TimelySteerStaysInTurn
=============================================================================
