--------------------- MODULE InteractiveRequestsProofs ---------------------
(***************************************************************************)
(* That nothing stays registered as pending behind a call that ended, and  *)
(* that the session's grants follow the clients' last word, for every set  *)
(* of calls and connections and any number of turns.                       *)
(***************************************************************************)
EXTENDS InteractiveRequests, TLAPS

TurnRecords == [n : 0..MaxTurns, pc : {"idle", "running", "merge"}, owner : Conns \cup {None},
                entry : BOOLEAN, cancelled : BOOLEAN]

CallRecords == [pc : {"new", "cache", "route", "register", "send", "wait", "answered", "fail",
                      "ask", "done", "dropped"},
                turn : 0..MaxTurns, conn : Conns \cup {None},
                answer : {"None", "Once", "Session", "No"},
                result : {"None", "Cached", "Approved", "Refused", "Answered"}, late : BOOLEAN]

(* Where a call stands tells which lane it can be in, and which connection   *)
(* it was asked of.                                                          *)
CallShape ==
  /\ call \in [Calls -> CallRecords]
  /\ turn \in TurnRecords
  /\ conns \subseteq Conns /\ requests \in [Conns -> SUBSET Approvals]
  /\ allowed \in BOOLEAN
  /\ \A k \in Calls : call[k].pc \in {"cache", "route", "register", "send", "fail"} => k \in Approvals
  /\ \A k \in Calls : At(k, "ask") => k \in Questions
Lanes ==
  /\ approvals \subseteq Approvals /\ inputs \subseteq Questions
  /\ \A k \in approvals : call[k].pc \in {"send", "wait", "answered", "fail", "dropped"}
  /\ \A k \in inputs : call[k].pc \in {"wait", "dropped"}
Asked ==
  \A c \in Conns : \A k \in requests[c] :
    c \in conns /\ call[k].conn = c /\ call[k].pc \in {"wait", "dropped"}
RequestInv == CallShape /\ Lanes /\ Asked

LEMMA InitRequests == Init => RequestInv
<1> SUFFICES ASSUME Init PROVE RequestInv
  OBVIOUS
<1> USE RequestAssumption DEF Init, Calls
<1>1. 0 \in 0..MaxTurns
  OBVIOUS
<1>2. turn \in TurnRecords
  BY <1>1 DEF TurnRecords
<1>3. call \in [Calls -> CallRecords] /\ \A k \in Calls : call[k].pc = "new"
  BY <1>1 DEF CallRecords
<1>4. CallShape
  BY <1>2, <1>3 DEF CallShape, At
<1>5. Lanes /\ Asked
  BY DEF Lanes, Asked
<1> QED
  BY <1>4, <1>5 DEF RequestInv

LEMMA StepShape == CallShape /\ [Next]_vars => CallShape'
<1> SUFFICES ASSUME CallShape, [Next]_vars PROVE CallShape'
  OBVIOUS
<1> USE RequestAssumption DEF CallShape, TurnRecords, CallRecords, Calls, At, Goto, Finish, lanes, caches
<1>1. CASE StartTurn
  BY <1>1 DEF StartTurn
<1>2. CASE EndTurn \/ MergeInline \/ AbandonQuery
  <2>1. CASE EndTurn \/ MergeInline
    BY <2>1 DEF EndTurn, MergeInline
  <2>2. CASE AbandonQuery
    <3>1. \A k \in Calls : call'[k] = call[k] \/ call'[k] = [call[k] EXCEPT !.pc = "dropped"]
      BY <2>2 DEF AbandonQuery
    <3>2. call' = [k \in Calls |-> call'[k]]
      BY <2>2 DEF AbandonQuery
    <3>3. ASSUME NEW k \in Calls PROVE call'[k] \in CallRecords /\ call'[k].pc \in {call[k].pc, "dropped"}
      <4>1. call[k] \in CallRecords
        OBVIOUS
      <4>2. CASE call'[k] = call[k]
        BY <4>1, <4>2
      <4>3. CASE call'[k] = [call[k] EXCEPT !.pc = "dropped"]
        BY <4>1, <4>3
      <4> QED
        BY <3>1, <4>2, <4>3
    <3>4. turn' \in TurnRecords /\ UNCHANGED <<conns, requests, allowed>>
      BY <2>2 DEF AbandonQuery
    <3>5. call' \in [Calls -> CallRecords]
      BY <3>2, <3>3
    <3> QED
      BY <3>3, <3>4, <3>5
  <2> QED
    BY <1>2, <2>1, <2>2
<1>3. CASE Interrupt \/ ClearInputs \/ ChangeProfile \/ ApplyScope \/ ApplyProfile
  BY <1>3 DEF Interrupt, ClearInputs, ChangeProfile, ApplyScope, ApplyProfile, Command
<1>4. ASSUME NEW c \in Conns, Disconnect(c) PROVE CallShape'
  <2>1. \A k \in Calls : call'[k] = call[k] \/ (At(k, "wait") /\ k \in requests[c] /\ call'[k] = [call[k] EXCEPT !.pc = "fail"])
    BY <1>4 DEF Disconnect
  <2> QED
    BY <1>4, <2>1 DEF Disconnect
<1>5. ASSUME NEW k \in Calls, Call(k) PROVE CallShape'
  BY <1>5 DEF Call
<1>6. ASSUME NEW k \in Calls, CheckCache(k) \/ Route(k) \/ RegisterApproval(k) PROVE CallShape'
  BY <1>6 DEF CheckCache, Route, RegisterApproval
<1>7. ASSUME NEW k \in Calls, SendRequest(k) \/ StopWaiting(k) \/ Fail(k) PROVE CallShape'
  BY <1>7 DEF SendRequest, StopWaiting, Fail
<1>8. ASSUME NEW k \in Calls, Resolve(k) \/ Respond(k) PROVE CallShape'
  <2>1. CASE Resolve(k)
    <3>1. PICK r \in {"Refused", "Approved"} : call' = [call EXCEPT ![k].pc = "done", ![k].result = r]
      BY <2>1 DEF Resolve
    <3>2. allowed' \in BOOLEAN /\ UNCHANGED <<conns, requests, turn>>
      BY <2>1 DEF Resolve
    <3>3. call' \in [Calls -> CallRecords]
      BY <3>1
    <3> QED
      BY <3>1, <3>2, <3>3
  <2>2. CASE Respond(k)
    <3>1. PICK a \in {"Once", "Session", "No"} : call' = [call EXCEPT ![k].pc = "answered", ![k].answer = a]
      BY <2>2 DEF Respond
    <3>2. requests' \in [Conns -> SUBSET Approvals] /\ UNCHANGED <<conns, turn, allowed>>
      BY <2>2 DEF Respond
    <3>3. call' \in [Calls -> CallRecords]
      BY <3>1
    <3> QED
      BY <3>1, <3>2, <3>3
  <2> QED
    BY <1>8, <2>1, <2>2
<1>9. ASSUME NEW k \in Calls,
             RegisterQuestion(k) \/ TakeAnswer(k) \/ QuestionClosed(k) \/ AnswerQuestion(k) \/ RemoveDropped(k)
      PROVE  CallShape'
  BY <1>9 DEF RegisterQuestion, TakeAnswer, QuestionClosed, AnswerQuestion, RemoveDropped
<1>10. CASE UNCHANGED vars
  BY <1>10 DEF vars
<1> QED
  BY <1>1, <1>2, <1>3, <1>4, <1>5, <1>6, <1>7, <1>8, <1>9, <1>10 DEF Next, Server, Steps

LEMMA StepLanes == CallShape /\ Lanes /\ [Next]_vars => Lanes'
<1> SUFFICES ASSUME CallShape, Lanes, [Next]_vars PROVE Lanes'
  OBVIOUS
<1> USE RequestAssumption DEF CallShape, CallRecords, Lanes, Calls, At, Goto, Finish, lanes, caches
<1>1. CASE StartTurn
  BY <1>1 DEF StartTurn
<1>2. CASE EndTurn \/ MergeInline \/ AbandonQuery
  BY <1>2 DEF EndTurn, MergeInline, AbandonQuery
<1>3. CASE Interrupt \/ ClearInputs \/ ChangeProfile \/ ApplyScope \/ ApplyProfile
  BY <1>3 DEF Interrupt, ClearInputs, ChangeProfile, ApplyScope, ApplyProfile, Command
<1>4. ASSUME NEW c \in Conns, Disconnect(c) PROVE Lanes'
  BY <1>4 DEF Disconnect
<1>5. ASSUME NEW k \in Calls, Call(k) PROVE Lanes'
  BY <1>5 DEF Call
<1>6. ASSUME NEW k \in Calls, CheckCache(k) \/ Route(k) \/ RegisterApproval(k) PROVE Lanes'
  BY <1>6 DEF CheckCache, Route, RegisterApproval
<1>7. ASSUME NEW k \in Calls, SendRequest(k) \/ StopWaiting(k) \/ Fail(k) PROVE Lanes'
  BY <1>7 DEF SendRequest, StopWaiting, Fail
<1>8. ASSUME NEW k \in Calls, Resolve(k) \/ Respond(k) PROVE Lanes'
  <2>1. CASE Resolve(k)
    BY <2>1 DEF Resolve
  <2>2. CASE Respond(k)
    BY <2>2 DEF Respond
  <2> QED
    BY <1>8, <2>1, <2>2
<1>9. ASSUME NEW k \in Calls,
             RegisterQuestion(k) \/ TakeAnswer(k) \/ QuestionClosed(k) \/ AnswerQuestion(k) \/ RemoveDropped(k)
      PROVE  Lanes'
  BY <1>9 DEF RegisterQuestion, TakeAnswer, QuestionClosed, AnswerQuestion, RemoveDropped
<1>10. CASE UNCHANGED vars
  BY <1>10 DEF vars
<1> QED
  BY <1>1, <1>2, <1>3, <1>4, <1>5, <1>6, <1>7, <1>8, <1>9, <1>10 DEF Next, Server, Steps

LEMMA StepAsked == CallShape /\ Lanes /\ Asked /\ [Next]_vars => Asked'
<1> SUFFICES ASSUME CallShape, Lanes, Asked, [Next]_vars PROVE Asked'
  OBVIOUS
<1> USE RequestAssumption DEF CallShape, CallRecords, Asked, Calls, At, Goto, Finish, lanes, caches
<1>1. CASE StartTurn
  BY <1>1 DEF StartTurn
<1>2. CASE EndTurn \/ MergeInline \/ AbandonQuery
  BY <1>2 DEF EndTurn, MergeInline, AbandonQuery
<1>3. CASE Interrupt \/ ClearInputs \/ ChangeProfile \/ ApplyScope \/ ApplyProfile
  BY <1>3 DEF Interrupt, ClearInputs, ChangeProfile, ApplyScope, ApplyProfile, Command
<1>4. ASSUME NEW c \in Conns, Disconnect(c) PROVE Asked'
  <2>1. \A d \in Conns : \A k \in requests[d] : d # c => call'[k] = call[k]
    BY <1>4 DEF Disconnect
  <2> QED
    BY <1>4, <2>1 DEF Disconnect
<1>5. ASSUME NEW k \in Calls, Call(k) PROVE Asked'
  BY <1>5 DEF Call
<1>6. ASSUME NEW k \in Calls, CheckCache(k) \/ Route(k) \/ RegisterApproval(k) PROVE Asked'
  BY <1>6 DEF CheckCache, Route, RegisterApproval
<1>7. ASSUME NEW k \in Calls, SendRequest(k) \/ StopWaiting(k) \/ Fail(k) PROVE Asked'
  BY <1>7 DEF SendRequest, StopWaiting, Fail
<1>8. ASSUME NEW k \in Calls, Resolve(k) \/ Respond(k) PROVE Asked'
  BY <1>8 DEF Resolve, Respond
<1>9. ASSUME NEW k \in Calls,
             RegisterQuestion(k) \/ TakeAnswer(k) \/ QuestionClosed(k) \/ AnswerQuestion(k) \/ RemoveDropped(k)
      PROVE  Asked'
  <2>1. CASE RegisterQuestion(k) \/ TakeAnswer(k) \/ QuestionClosed(k)
    BY <2>1 DEF RegisterQuestion, TakeAnswer, QuestionClosed
  <2>2. CASE AnswerQuestion(k)
    <3>1. k \in Questions
      BY <2>2 DEF AnswerQuestion, Lanes
    <3>2. \A c \in Conns : k \notin requests[c]
      BY <3>1
    <3>3. UNCHANGED <<conns, requests>> /\ \A j \in Calls : j # k => call'[j] = call[j]
      BY <2>2 DEF AnswerQuestion
    <3> QED
      BY <3>2, <3>3
  <2>3. CASE RemoveDropped(k)
    BY <2>3 DEF RemoveDropped
  <2> QED
    BY <1>9, <2>1, <2>2, <2>3
<1>10. CASE UNCHANGED vars
  BY <1>10 DEF vars
<1> QED
  BY <1>1, <1>2, <1>3, <1>4, <1>5, <1>6, <1>7, <1>8, <1>9, <1>10 DEF Next, Server, Steps

(* Whatever is registered with a session or a connection has a call behind   *)
(* it: an answer, an interrupt, a disconnection and a failed send all take   *)
(* the registration along.                                                   *)
THEOREM PendingIsAttended == Spec => []PendingHasACall
<1>1. RequestInv /\ [Next]_vars => RequestInv'
  BY StepShape, StepLanes, StepAsked DEF RequestInv
<1>2. RequestInv => PendingHasACall
  BY DEF RequestInv, CallShape, Lanes, Asked, PendingHasACall, InFlight, Ended, At, Calls
<1> QED
  BY InitRequests, <1>1, <1>2, PTL DEF Spec

-----------------------------------------------------------------------------
(* The last command on its way to the actor is the clients' last word, and   *)
(* when there is none the cache is: the running turn's copy, which replaces  *)
(* the actor's when the turn ends, or the actor's between turns.             *)
LastWord ==
  /\ mailbox \in Seq({"apply", "profile"})
  /\ turn \in TurnRecords
  /\ grant \in BOOLEAN /\ inline \in BOOLEAN /\ allowed \in BOOLEAN
  /\ mailbox # <<>> => (allowed <=> mailbox[Len(mailbox)] = "apply")
  /\ mailbox = <<>> => (allowed <=> IF turn.pc = "idle" THEN grant ELSE inline)

LEMMA LastAppended ==
  ASSUME NEW s \in Seq({"apply", "profile"}), NEW x \in {"apply", "profile"}
  PROVE  /\ Append(s, x) \in Seq({"apply", "profile"}) /\ Append(s, x) # <<>>
         /\ Append(s, x)[Len(Append(s, x))] = x
OBVIOUS

LEMMA LastLeft ==
  ASSUME NEW s \in Seq({"apply", "profile"}), s # <<>>
  PROVE  /\ Tail(s) \in Seq({"apply", "profile"})
         /\ Tail(s) = <<>> => s[Len(s)] = Head(s)
         /\ Tail(s) # <<>> => Tail(s)[Len(Tail(s))] = s[Len(s)]
<1>1. Len(s) \in Nat \ {0} /\ Len(Tail(s)) = Len(s) - 1 /\ Tail(s) \in Seq({"apply", "profile"})
  OBVIOUS
<1>2. \A i \in 1..Len(Tail(s)) : Tail(s)[i] = s[i + 1]
  OBVIOUS
<1>3. ASSUME Tail(s) = <<>> PROVE Len(s) = 1
  <2>1. Len(<<>>) = 0
    OBVIOUS
  <2>2. Len(s) - 1 = 0 /\ Len(s) \in Nat
    BY <1>1, <1>3, <2>1
  <2> QED
    BY <2>2
<1>4. Tail(s) # <<>> => Len(Tail(s)) \in 1..Len(Tail(s))
  BY <1>1
<1> QED
  BY <1>1, <1>2, <1>3, <1>4

LEMMA CommandKeepsLastWord ==
  ASSUME LastWord, NEW name \in {"apply", "profile"}, NEW cache \in BOOLEAN,
         cache <=> name = "apply", Command(name, cache)
  PROVE  LastWord'
<1>1. /\ turn.pc = "idle" /\ mailbox # <<>> /\ Head(mailbox) = name
      /\ grant' = cache /\ mailbox' = Tail(mailbox)
      /\ UNCHANGED <<turn, inline, allowed>>
  BY DEF Command
<1>2. mailbox \in Seq({"apply", "profile"})
  BY DEF LastWord
<1>3. /\ mailbox' \in Seq({"apply", "profile"})
      /\ mailbox' = <<>> => mailbox[Len(mailbox)] = name
      /\ mailbox' # <<>> => mailbox'[Len(mailbox')] = mailbox[Len(mailbox)]
  BY <1>1, <1>2, LastLeft
<1> QED
  BY <1>1, <1>3 DEF LastWord

LEMMA StepLastWord == CallShape /\ LastWord /\ [Next]_vars => LastWord'
<1> SUFFICES ASSUME CallShape, LastWord, [Next]_vars PROVE LastWord'
  OBVIOUS
<1>1. CASE StartTurn \/ EndTurn \/ AbandonQuery \/ MergeInline \/ Interrupt \/ ClearInputs
  <2>1. CASE StartTurn
    <3>1. turn' \in TurnRecords /\ turn'.pc = "running"
      <4>1. turn' \in TurnRecords
        BY StepShape DEF CallShape
      <4>2. \E c \in conns \cup {None} :
              turn' = [n |-> turn.n + 1, pc |-> "running", owner |-> c, entry |-> c # None,
                       cancelled |-> FALSE]
        BY <2>1 DEF StartTurn
      <4> QED
        BY <4>1, <4>2
    <3>2. turn.pc = "idle" /\ mailbox = <<>> /\ inline' = grant /\ UNCHANGED <<mailbox, grant, allowed>>
      BY <2>1 DEF StartTurn
    <3> QED
      BY <3>1, <3>2 DEF LastWord
  <2>2. CASE EndTurn \/ AbandonQuery \/ Interrupt \/ ClearInputs
    <3>1. UNCHANGED <<mailbox, grant, inline, allowed>> /\ (turn'.pc = "idle" <=> turn.pc = "idle")
      <4>1. CASE EndTurn
        BY <4>1 DEF EndTurn, caches, Running, LastWord, TurnRecords
      <4>2. CASE AbandonQuery
        BY <4>2 DEF AbandonQuery, caches, Running, LastWord, TurnRecords
      <4>3. CASE Interrupt
        BY <4>3 DEF Interrupt, caches, LastWord, TurnRecords
      <4>4. CASE ClearInputs
        BY <4>4 DEF ClearInputs, caches
      <4> QED
        BY <2>2, <4>1, <4>2, <4>3, <4>4
    <3>2. turn' \in TurnRecords
      BY StepShape DEF CallShape
    <3> QED
      BY <3>1, <3>2 DEF LastWord
  <2>3. CASE MergeInline
    BY <2>3 DEF MergeInline, LastWord, TurnRecords
  <2> QED
    BY <1>1, <2>1, <2>2, <2>3
<1>2. CASE ApplyScope
  BY <1>2, CommandKeepsLastWord DEF ApplyScope
<1>3. CASE ApplyProfile
  BY <1>3, CommandKeepsLastWord DEF ApplyProfile
<1>4. CASE ChangeProfile
  <2>1. mailbox' = Append(mailbox, "profile") /\ allowed' = FALSE /\ UNCHANGED <<turn, grant, inline>>
    BY <1>4 DEF ChangeProfile
  <2>2. mailbox' \in Seq({"apply", "profile"}) /\ mailbox' # <<>> /\ mailbox'[Len(mailbox')] = "profile"
    BY <2>1, LastAppended DEF LastWord
  <2> QED
    BY <2>1, <2>2 DEF LastWord
<1>5. ASSUME NEW k \in Calls, Resolve(k) PROVE LastWord'
  <2>1. CASE call[k].answer = "Session"
    <3>1. mailbox' = Append(mailbox, "apply") /\ allowed' = TRUE /\ UNCHANGED <<turn, grant, inline>>
      BY <1>5, <2>1 DEF Resolve
    <3>2. mailbox' \in Seq({"apply", "profile"}) /\ mailbox' # <<>> /\ mailbox'[Len(mailbox')] = "apply"
      BY <3>1, LastAppended DEF LastWord
    <3> QED
      BY <3>1, <3>2 DEF LastWord
  <2>2. CASE call[k].answer # "Session"
    <3>1. mailbox' = mailbox /\ (allowed' <=> allowed) /\ allowed' \in BOOLEAN /\ UNCHANGED <<turn, grant, inline>>
      BY <1>5, <2>2 DEF Resolve, LastWord
    <3> QED
      BY <3>1 DEF LastWord
  <2> QED
    BY <2>1, <2>2
<1>6. ASSUME NEW k \in Calls, Call(k) \/ CheckCache(k) \/ Route(k) \/ RegisterApproval(k) \/ SendRequest(k)
                              \/ StopWaiting(k) \/ Fail(k) \/ Respond(k)
      PROVE  LastWord'
  BY <1>6 DEF Call, CheckCache, Route, RegisterApproval, SendRequest, StopWaiting, Fail, Respond, LastWord, caches
<1>7. ASSUME NEW k \in Calls,
             RegisterQuestion(k) \/ TakeAnswer(k) \/ QuestionClosed(k) \/ AnswerQuestion(k) \/ RemoveDropped(k)
      PROVE  LastWord'
  BY <1>7 DEF RegisterQuestion, TakeAnswer, QuestionClosed, AnswerQuestion, RemoveDropped, LastWord, caches
<1>8. ASSUME NEW c \in Conns, Disconnect(c) PROVE LastWord'
  <2>1. turn' \in TurnRecords /\ turn'.pc = turn.pc /\ UNCHANGED caches /\ allowed' = allowed
    BY <1>8 DEF Disconnect, LastWord, TurnRecords
  <2> QED
    BY <2>1 DEF LastWord, caches
<1>9. CASE UNCHANGED vars
  BY <1>9 DEF vars, LastWord, caches
<1> QED
  BY <1>1, <1>2, <1>3, <1>4, <1>5, <1>6, <1>7, <1>8, <1>9 DEF Next, Server, Steps

(* When a session rests, a tool runs unasked exactly if the last thing a     *)
(* client said was to allow it: the commands keep their order and the merge  *)
(* of a turn's copy cannot undo one that came before or after it.            *)
THEOREM GrantFollowsClients == Spec => []GrantIsLastWord
<1>1. ASSUME Init PROVE LastWord
  <2>1. turn \in TurnRecords /\ turn.pc = "idle"
    BY <1>1, InitRequests DEF RequestInv, CallShape, Init
  <2> QED
    <3>1. mailbox = <<>> /\ grant = FALSE /\ inline = FALSE /\ allowed = FALSE
      BY <1>1 DEF Init
    <3>2. mailbox \in Seq({"apply", "profile"})
      BY <3>1
    <3> QED
      BY <2>1, <3>1, <3>2 DEF LastWord
<1>2. LastWord => GrantIsLastWord
  BY DEF LastWord, GrantIsLastWord
<1>3. Init => CallShape
  BY InitRequests DEF RequestInv
<1>4. CallShape /\ LastWord /\ [Next]_vars => CallShape' /\ LastWord'
  BY StepShape, StepLastWord
<1> QED
  BY <1>1, <1>2, <1>3, <1>4, PTL DEF Spec
=============================================================================
