------------------------ MODULE InteractiveRequests ------------------------
(***************************************************************************)
(* Tool calls that wait for a person.  A call that needs a permission is   *)
(* registered as a pending approval and asked of the connection that       *)
(* started its turn, as a request with an answer; a question of the model  *)
(* is registered and broadcast, and any client may answer it.  Answers     *)
(* race interrupts, disconnections and the end of the turn, and "allow for *)
(* the session" goes to an actor that executes the turn which asked.       *)
(*                                                                         *)
(* One session, one tool; its turns run one after another.  What a policy, *)
(* a hook or the automatic reviewer decide without asking is left out.     *)
(***************************************************************************)
EXTENDS Naturals, Sequences, FiniteSets, Functions

CONSTANTS
  Approvals,      \* tool calls that need a permission
  Questions,      \* request_user_input calls
  Conns,          \* client connections
  MaxTurns,       \* bound on the turns
  None

Calls == Approvals \cup Questions

ASSUME RequestAssumption ==
  /\ Approvals \cap Questions = {}
  /\ None \notin Conns
  /\ MaxTurns \in Nat

VARIABLES
  conns,      \* connections that are there
  requests,   \* pending_client_requests of each connection
  approvals,  \* SessionInteractiveLanes: pending_approvals
  inputs,     \* ... and pending_user_inputs
  turn,       \* the turn: number, owner, a registry entry?, cancelled?, progress
  intr,       \* the handler of an interrupt
  call,       \* the tool calls' futures
  mailbox,    \* commands of the actor, which is deaf during the turn
  grant,      \* is the tool in the actor's session_approval_cache?
  inline,     \* ... and in the copy the running turn has?
  allowed     \* has a client answered "allow for the session", and not taken it back since?

lanes == <<approvals, inputs>>
caches == <<mailbox, grant, inline>>
vars == <<conns, requests, lanes, turn, intr, call, caches, allowed>>

Running == turn.pc = "running"
Mine(k) == call[k].turn = turn.n
At(k, pc) == call[k].pc = pc
Goto(k, pc) == call' = [call EXCEPT ![k].pc = pc]
Finish(k, result) == call' = [call EXCEPT ![k].pc = "done", ![k].result = result]
Ended == {"new", "done", "dropped"}
InFlight(k) == call[k].pc \notin Ended

-----------------------------------------------------------------------------
(* Turns.  One that a connection starts has an entry in the registry, with   *)
(* the connection and a token; a follow-up turn has neither.                 *)

StartTurn ==
  /\ turn.pc = "idle" /\ mailbox = <<>>
  /\ turn.n < MaxTurns
  /\ \E c \in conns \cup {None} :
       turn' = [n |-> turn.n + 1, pc |-> "running", owner |-> c, entry |-> c # None,
                cancelled |-> FALSE]
  /\ inline' = grant
  /\ UNCHANGED <<conns, requests, lanes, intr, call, mailbox, grant, allowed>>

(* The query returns when its calls have; after a cancellation it is dropped *)
(* when a grace period is over.                                              *)
EndTurn ==
  /\ Running /\ \A k \in Calls : Mine(k) => ~InFlight(k)
  /\ turn' = [turn EXCEPT !.pc = "merge", !.owner = None, !.entry = FALSE]
  /\ UNCHANGED <<conns, requests, lanes, intr, call, caches, allowed>>

AbandonPolitely ==        \* mutant: a question may be answered first
  /\ Running /\ turn.cancelled
  /\ \E k \in Calls : Mine(k) /\ InFlight(k)
  /\ \A k \in inputs : ~Mine(k)
  /\ call' = [k \in Calls |-> IF Mine(k) /\ InFlight(k) THEN [call[k] EXCEPT !.pc = "dropped"] ELSE call[k]]
  /\ turn' = [turn EXCEPT !.pc = "merge", !.owner = None, !.entry = FALSE]
  /\ UNCHANGED <<conns, requests, lanes, intr, caches, allowed>>

AbandonQuery ==
  /\ Running /\ turn.cancelled
  /\ \E k \in Calls : Mine(k) /\ InFlight(k)
  /\ call' = [k \in Calls |-> IF Mine(k) /\ InFlight(k) THEN [call[k] EXCEPT !.pc = "dropped"] ELSE call[k]]
  /\ turn' = [turn EXCEPT !.pc = "merge", !.owner = None, !.entry = FALSE]
  /\ UNCHANGED <<conns, requests, lanes, intr, caches, allowed>>

(* PendingClientRequestGuard removes the request of a future that is gone.   *)
RemoveDropped(k) ==
  /\ At(k, "dropped") /\ \E c \in Conns : k \in requests[c]
  /\ requests' = [c \in Conns |-> requests[c] \ {k}]
  /\ UNCHANGED <<conns, lanes, turn, intr, call, caches, allowed>>

MergeInline ==
  /\ turn.pc = "merge"
  /\ grant' = inline
  /\ turn' = [turn EXCEPT !.pc = "idle"]
  /\ UNCHANGED <<conns, requests, lanes, intr, call, mailbox, inline, allowed>>

-----------------------------------------------------------------------------
(* turn/interrupt cancels the token and then clears the turn's questions.    *)

Interrupt ==
  /\ intr.pc = "idle" /\ Running /\ turn.entry /\ ~turn.cancelled
  /\ turn' = [turn EXCEPT !.cancelled = TRUE]
  /\ intr' = [pc |-> "clear", turn |-> turn.n]
  /\ UNCHANGED <<conns, requests, lanes, call, caches, allowed>>

ClearInputs ==
  /\ intr.pc = "clear"
  /\ inputs' = {k \in inputs : call[k].turn # intr.turn}
  /\ intr' = [intr EXCEPT !.pc = "idle"]
  /\ UNCHANGED <<conns, requests, approvals, turn, call, caches, allowed>>

-----------------------------------------------------------------------------
(* authorize_tool_request, request_tool_approval                            *)

Call(k) ==
  /\ At(k, "new") /\ Running
  /\ call' = [call EXCEPT ![k].turn = turn.n, ![k].pc = IF k \in Approvals THEN "cache" ELSE "ask"]
  /\ UNCHANGED <<conns, requests, lanes, turn, intr, caches, allowed>>

CheckCache(k) ==
  /\ At(k, "cache")
  /\ IF inline THEN Finish(k, "Cached") ELSE Goto(k, "route")
  /\ UNCHANGED <<conns, requests, lanes, turn, intr, caches, allowed>>

Route(k) ==
  /\ At(k, "route")
  /\ IF turn.owner = None THEN Finish(k, "Refused")
     ELSE call' = [call EXCEPT ![k].conn = turn.owner, ![k].pc = "register"]
  /\ UNCHANGED <<conns, requests, lanes, turn, intr, caches, allowed>>

RegisterApproval(k) ==
  /\ At(k, "register")
  /\ approvals' = approvals \cup {k}
  /\ call' = [call EXCEPT ![k].pc = "send", ![k].late = allowed]
  /\ UNCHANGED <<conns, requests, inputs, turn, intr, caches, allowed>>

SendRequest(k) ==
  /\ At(k, "send")
  /\ IF call[k].conn \in conns
     THEN /\ requests' = [requests EXCEPT ![call[k].conn] = @ \cup {k}]
          /\ Goto(k, "wait")
     ELSE /\ Goto(k, "fail")
          /\ UNCHANGED requests
  /\ UNCHANGED <<conns, lanes, turn, intr, caches, allowed>>

(* resolve_pending_client_response; a client may answer "allow once",        *)
(* "allow for the session", "reject" or "cancelled".                         *)
Respond(k) ==
  /\ k \in Approvals /\ At(k, "wait") /\ k \in requests[call[k].conn]
  /\ requests' = [requests EXCEPT ![call[k].conn] = @ \ {k}]
  /\ \E a \in {"Once", "Session", "No"} : call' = [call EXCEPT ![k].pc = "answered", ![k].answer = a]
  /\ UNCHANGED <<conns, lanes, turn, intr, caches, allowed>>

StopWaiting(k) ==
  /\ At(k, "wait") /\ k \in Approvals /\ turn.cancelled /\ Mine(k)
  /\ requests' = [requests EXCEPT ![call[k].conn] = @ \ {k}]
  /\ Goto(k, "fail")
  /\ UNCHANGED <<conns, lanes, turn, intr, caches, allowed>>

FailSilently(k) ==        \* mutant: the approval of a failed request stays
  /\ At(k, "fail")
  /\ Finish(k, "Refused")
  /\ UNCHANGED <<conns, requests, lanes, turn, intr, caches, allowed>>

Fail(k) ==
  /\ At(k, "fail")
  /\ approvals' = approvals \ {k}
  /\ Finish(k, "Refused")
  /\ UNCHANGED <<conns, requests, inputs, turn, intr, caches, allowed>>

ResolveAny(k) ==          \* mutant: whoever approves grants the session
  /\ At(k, "answered") /\ k \in Approvals
  /\ approvals' = approvals \ {k}
  /\ Finish(k, IF call[k].answer = "No" THEN "Refused" ELSE "Approved")
  /\ mailbox' = IF call[k].answer # "No" THEN Append(mailbox, "apply") ELSE mailbox
  /\ UNCHANGED <<conns, requests, inputs, turn, intr, grant, inline, allowed>>

(* The answer is the call's, and its scope a command to the actor.           *)
Resolve(k) ==
  /\ At(k, "answered") /\ k \in Approvals
  /\ approvals' = approvals \ {k}
  /\ Finish(k, IF call[k].answer = "No" THEN "Refused" ELSE "Approved")
  /\ mailbox' = IF call[k].answer = "Session" THEN Append(mailbox, "apply") ELSE mailbox
  /\ allowed' = (allowed \/ call[k].answer = "Session")
  /\ UNCHANGED <<conns, requests, inputs, turn, intr, grant, inline>>

(* Commands wait for the end of the turn.                                    *)
Command(name, cache) ==
  /\ turn.pc = "idle" /\ mailbox # <<>> /\ Head(mailbox) = name
  /\ grant' = cache
  /\ mailbox' = Tail(mailbox)
  /\ UNCHANGED <<conns, requests, lanes, turn, intr, call, inline, allowed>>

ApplyScope == Command("apply", TRUE)

(* A change of the session's permissions takes every grant back.             *)
ChangeProfile ==
  /\ conns # {} /\ "profile" \notin Range(mailbox)
  /\ mailbox' = Append(mailbox, "profile")
  /\ allowed' = FALSE
  /\ UNCHANGED <<conns, requests, lanes, turn, intr, call, grant, inline>>

ApplyProfile == Command("profile", FALSE)

-----------------------------------------------------------------------------
(* request_user_input_for_tool and request_user_input/respond               *)

RegisterQuestion(k) ==
  /\ At(k, "ask")
  /\ inputs' = inputs \cup {k}
  /\ Goto(k, "wait")
  /\ UNCHANGED <<conns, requests, approvals, turn, intr, caches, allowed>>

AnswerQuestion(k) ==
  /\ k \in inputs /\ conns # {}
  /\ inputs' = inputs \ {k}
  /\ call' = IF At(k, "wait") THEN [call EXCEPT ![k].pc = "answered"] ELSE call
  /\ UNCHANGED <<conns, requests, approvals, turn, intr, caches, allowed>>

TakeAnswer(k) ==
  /\ At(k, "answered") /\ k \in Questions
  /\ Finish(k, "Answered")
  /\ UNCHANGED <<conns, requests, lanes, turn, intr, caches, allowed>>

QuestionClosed(k) ==
  /\ At(k, "wait") /\ k \in Questions \ inputs
  /\ Finish(k, "Refused")
  /\ UNCHANGED <<conns, requests, lanes, turn, intr, caches, allowed>>

-----------------------------------------------------------------------------
(* unregister_connection fails what the connection was asked.                *)

DisconnectSilently(c) ==  \* mutant: nobody tells the calls that wait
  /\ c \in conns
  /\ conns' = conns \ {c}
  /\ requests' = [requests EXCEPT ![c] = {}]
  /\ turn' = IF turn.owner = c THEN [turn EXCEPT !.owner = None] ELSE turn
  /\ UNCHANGED <<lanes, intr, call, caches, allowed>>

Disconnect(c) ==
  /\ c \in conns
  /\ conns' = conns \ {c}
  /\ requests' = [requests EXCEPT ![c] = {}]
  /\ call' = [k \in Calls |-> IF k \in requests[c] /\ At(k, "wait") THEN [call[k] EXCEPT !.pc = "fail"]
                              ELSE call[k]]
  /\ turn' = IF turn.owner = c THEN [turn EXCEPT !.owner = None] ELSE turn
  /\ UNCHANGED <<lanes, intr, caches, allowed>>

-----------------------------------------------------------------------------
Init ==
  /\ conns = Conns /\ requests = [c \in Conns |-> {}]
  /\ approvals = {} /\ inputs = {}
  /\ turn = [n |-> 0, pc |-> "idle", owner |-> None, entry |-> FALSE, cancelled |-> FALSE]
  /\ intr = [pc |-> "idle", turn |-> 0]
  /\ call = [k \in Calls |-> [pc |-> "new", turn |-> 0, conn |-> None, answer |-> "None",
                              result |-> "None", late |-> FALSE]]
  /\ mailbox = <<>> /\ grant = FALSE /\ inline = FALSE /\ allowed = FALSE

Steps(k) ==
  \/ CheckCache(k) \/ Route(k) \/ RegisterApproval(k) \/ SendRequest(k)
  \/ StopWaiting(k) \/ Fail(k) \/ Resolve(k)
  \/ RegisterQuestion(k) \/ TakeAnswer(k) \/ QuestionClosed(k)
Server == EndTurn \/ MergeInline \/ ApplyScope \/ ApplyProfile

Next ==
  \/ \E k \in Calls : Call(k) \/ Steps(k) \/ Respond(k) \/ AnswerQuestion(k) \/ RemoveDropped(k)
  \/ StartTurn \/ Server \/ AbandonQuery \/ Interrupt \/ ClearInputs \/ ChangeProfile
  \/ \E c \in Conns : Disconnect(c)

Spec == Init /\ [][Next]_vars

(* tokio runs what is runnable and the grace period ends; nobody promises    *)
(* that a person answers.                                                    *)
FairSpec ==
  /\ Spec
  /\ \A k \in Calls : WF_vars(Steps(k)) /\ WF_vars(RemoveDropped(k))
  /\ WF_vars(Server) /\ WF_vars(ClearInputs) /\ WF_vars(AbandonQuery)

-----------------------------------------------------------------------------
(* Every variable holds what its Rust counterpart can hold.                  *)
TypeOK ==
  /\ conns \subseteq Conns /\ requests \in [Conns -> SUBSET Approvals]
  /\ approvals \subseteq Approvals /\ inputs \subseteq Questions
  /\ turn \in [n : 0..MaxTurns, pc : {"idle", "running", "merge"}, owner : Conns \cup {None},
               entry : BOOLEAN, cancelled : BOOLEAN]
  /\ intr \in [pc : {"idle", "clear"}, turn : 0..MaxTurns]
  /\ call \in [Calls -> [pc : {"new", "cache", "route", "register", "send", "wait", "answered", "fail",
                               "ask", "done", "dropped"},
                         turn : 0..MaxTurns, conn : Conns \cup {None},
                         answer : {"None", "Once", "Session", "No"},
                         result : {"None", "Cached", "Approved", "Refused", "Answered"}, late : BOOLEAN]]
  /\ mailbox \in Seq({"apply", "profile"})
  /\ grant \in BOOLEAN /\ inline \in BOOLEAN /\ allowed \in BOOLEAN

(* What is registered as pending has a call that waits for it, so that goals *)
(* go on and has_pending_approval is true of sessions somebody must attend   *)
(* to, unless the query itself was dropped with its calls.                   *)
PendingHasACall ==
  /\ \A k \in approvals \cup inputs : InFlight(k) \/ At(k, "dropped")
  /\ \A c \in Conns : \A k \in requests[c] : c \in conns /\ (At(k, "wait") \/ At(k, "dropped"))

(* What the actor caches is the clients' last word: with no command on its   *)
(* way, a tool runs unasked in the session exactly when a client allowed it  *)
(* for the session and none changed the permissions since.  Neither the      *)
(* order of the commands, nor the merge of a turn's copy, nor an answer that *)
(* comes after an interrupt changes that.                                    *)
GrantIsLastWord == turn.pc = "idle" /\ mailbox = <<>> => (grant <=> allowed)

(* A disconnection ends the wait of every permission asked of it.            *)
DisconnectReleases ==
  \A k \in Approvals : At(k, "wait") /\ call[k].conn \notin conns ~> ~InFlight(k)

(* An interrupt ends its turn, whoever it waits for.                         *)
InterruptReleases == (Running /\ turn.cancelled) ~> ~Running

(* The wait of an interrupted turn is resolved: no question or permission of *)
(* a turn that is over, its interrupt handled, is pending.                   *)
WaitsEndWithTheTurn ==
  turn.pc = "idle" /\ intr.pc = "idle" => approvals = {} /\ inputs = {}

(* "Allow for the session" holds for the rest of the session: nobody is      *)
(* asked again.                                                              *)
SessionGrantHolds == \A k \in Approvals : ~call[k].late
=============================================================================
