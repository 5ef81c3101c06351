----------------------------- MODULE QueryLoop -----------------------------
(***************************************************************************)
(* What a session tells its model.  The query loop of a turn sends the     *)
(* prompt, retries what failed, runs the tools the model asks for and      *)
(* compacts the prompt when it is long; /compact does the same from a task *)
(* of its own, on copies of the session it exports and writes back.        *)
(*                                                                         *)
(* A prompt is a sequence of items.  A summary knows the items it was made *)
(* of; which items fit a token budget, and how much the summarizer can     *)
(* read, are choices.  Reasoning and modalities are left out, and so are   *)
(* the inboxes of a turn, which are PendingInputs's.                       *)
(***************************************************************************)
EXTENDS Naturals, Sequences, SequencesExt, Filter

CONSTANTS
  Users,        \* user messages
  Tools,        \* tool calls
  MaxRetries,   \* MAX_RETRIES
  MaxAnswers,   \* bound on the answers of the model
  MaxManual,    \* bound on /compact requests
  MaxUnread,    \* bound on the items a summarizer has no room for
  None

ASSUME QueryAssumption ==
  /\ Users \cap Tools = {} /\ None \notin Users /\ IsFiniteSet(Tools)
  /\ MaxRetries \in Nat /\ MaxAnswers \in Nat /\ MaxManual \in Nat /\ MaxUnread \in Nat

VARIABLES
  messages,   \* SessionState.messages, the transcript
  prompt,     \* prompt_messages: None, or what replaced the transcript
  q,          \* the query: progress, retry_count, context_compacted, cancelled?, tool calls
  hot,        \* is last_turn_tokens over the threshold?
  answers,    \* answers so far
  manual,     \* run_session_compaction: progress, its result, the state it exported
  raced       \* has a turn begun while /compact was at work?

session == <<messages, prompt>>
vars == <<session, q, hot, answers, manual, raced>>

(* retry_count, context_compacted and the rest are locals of a query.        *)
Idle == [pc |-> "idle", retry |-> 0, compacted |-> FALSE, cancelled |-> FALSE, calls |-> {}]
Item(k, id) == [k |-> k, id |-> id, of |-> {}]
Name(x) == <<x.k, x.id>>
Covers(s) == UNION {IF x.k = "summary" THEN x.of ELSE {Name(x)} : x \in ToSet(s)}
Source == IF prompt = None THEN messages ELSE prompt
Said(u) == \E x \in ToSet(messages) : x.k = "user" /\ x.id = u

Push(items) ==
  /\ messages' = messages \o items
  /\ prompt' = IF prompt = None THEN None ELSE prompt \o items

SetBoth(items) ==         \* mutant: the transcript is compacted as well
  prompt' = items /\ messages' = items
SetPrompt(items) == prompt' = items /\ UNCHANGED messages

-----------------------------------------------------------------------------
(* normalize.rs: a call without its result, or the reverse, is no use.      *)

HasPair(x, s) ==
  CASE x.k = "call"   -> Item("result", x.id) \in ToSet(s)
    [] x.k = "result" -> Item("call", x.id) \in ToSet(s)
    [] OTHER          -> TRUE
Unpaired(s) == s          \* mutant: calls without a result are sent too
Paired(s) == Only(s, {x \in ToSet(s) : HasPair(x, s)})

(* compact_history.  The newest n items that the summarizer had no room for  *)
(* go in front of the preserved ones.  The loop that calls it keeps only     *)
(* what is a message.                                                        *)
Summarized(to, preserved, n) ==
  LET read == SubSeq(to, 1, Len(to) - n)
      kept == SubSeq(to, Len(to) - n + 1, Len(to)) \o preserved
  IN  <<[k |-> "summary", id |-> 0, of |-> Covers(read)]>>
        \o Only(kept, {x \in ToSet(kept) : x.k \notin {"call", "result"}})
Outcomes(to, preserved) ==
  {Summarized(to, preserved, n) : n \in {k \in 0..Len(to) : k <= MaxUnread}}

(* Auto: a tail that fits the budget is preserved, the rest is summarized.   *)
Automatic(items) ==
  LET f == Paired(items)
  IN  UNION {Outcomes(Paired(SubSeq(f, 1, n)), Paired(SubSeq(f, n + 1, Len(f)))) : n \in 1..(Len(f) - 1)}

(* Proactive: everything is summarized; the latest user message (a summary   *)
(* is one) and what follows it are preserved too.                            *)
Proactive(items) ==
  LET f == Paired(items)
      last == SelectLastInSeq(f, LAMBDA x : x.k \in {"user", "summary"})
  IN  IF f = <<>> THEN {} ELSE Outcomes(f, IF last = 0 THEN <<>> ELSE Paired(SubSeq(f, last, Len(f))))

(* What the provider is sent.                                                *)
Request == Paired(Source)

(* Replaced, or Skipped, or an error that is only logged.                    *)
Compact(prompts) == UNCHANGED session \/ \E new \in prompts : SetPrompt(new)

-----------------------------------------------------------------------------
StartQuery(u) ==
  /\ q.pc = "idle" /\ ~Said(u)
  /\ Push(<<Item("user", u)>>)
  /\ q' = [Idle EXCEPT !.pc = "drain"]
  /\ raced' = (raced \/ manual.pc # "off")
  /\ UNCHANGED <<hot, answers, manual>>

(* Inputs that came meanwhile.                                               *)
Drain ==
  /\ q.pc = "drain"
  /\ UNCHANGED session \/ \E u \in Users : ~Said(u) /\ Push(<<Item("user", u)>>)
  /\ q' = [q EXCEPT !.pc = "budget"]
  /\ UNCHANGED <<hot, answers, manual, raced>>

CheckBudget ==
  /\ q.pc = "budget"
  /\ IF hot THEN Compact(Automatic(Source)) ELSE UNCHANGED session
  /\ q' = [q EXCEPT !.pc = "stream"]
  /\ UNCHANGED <<hot, answers, manual, raced>>

RetryUncounted ==         \* mutant: the attempt is not counted
  /\ q.pc = "stream" /\ q.retry < MaxRetries
  /\ q' = [q EXCEPT !.pc = "backoff"]
  /\ UNCHANGED <<session, hot, answers, manual, raced>>

RetryLater ==
  /\ q.pc = "stream" /\ q.retry < MaxRetries
  /\ q' = [q EXCEPT !.pc = "backoff", !.retry = @ + 1]
  /\ UNCHANGED <<session, hot, answers, manual, raced>>

WaitForRetry ==
  /\ q.pc = "backoff"
  /\ q' = IF q.cancelled THEN Idle ELSE [q EXCEPT !.pc = "drain"]
  /\ UNCHANGED <<session, hot, answers, manual, raced>>

(* Compacts once per answer; the tokens that made the budget hot stay.       *)
CompactAndRetry ==
  /\ q.pc = "stream" /\ ~q.compacted
  /\ Compact(Proactive(Source))
  /\ q' = [q EXCEPT !.pc = "drain", !.compacted = TRUE]
  /\ UNCHANGED <<hot, answers, manual, raced>>

(* Any other error, one too many, or one after a part of the answer came.    *)
Fail ==
  /\ q.pc = "stream"
  /\ q' = Idle
  /\ UNCHANGED <<session, hot, answers, manual, raced>>

Called == {x.id : x \in {y \in ToSet(messages) : y.k = "call"}}
AnswerItems(calls) == <<Item("assistant", answers)>> \o SetToSeq({Item("call", c) : c \in calls})

(* An answer calls tools, or is cut short and continued, or ends the turn.   *)
AfterAnswer(calls) ==
  LET going(pc) == [q EXCEPT !.pc = pc, !.retry = 0, !.compacted = FALSE, !.calls = calls]
  IN  IF calls # {} THEN {going("tools")} ELSE {going("drain"), Idle}

Answer ==
  /\ q.pc = "stream" /\ answers < MaxAnswers
  /\ answers' = answers + 1
  /\ hot' \in BOOLEAN
  /\ \E calls \in SUBSET (Tools \ Called) : Push(AnswerItems(calls)) /\ q' \in AfterAnswer(calls)
  /\ UNCHANGED <<manual, raced>>

RunTools ==
  /\ q.pc = "tools"
  /\ Push(SetToSeq({Item("result", c) : c \in q.calls}))
  /\ q' = IF q.cancelled THEN Idle ELSE [q EXCEPT !.pc = "drain", !.calls = {}]
  /\ UNCHANGED <<hot, answers, manual, raced>>

Cancel ==
  /\ q.pc # "idle" /\ ~q.cancelled
  /\ q' = [q EXCEPT !.cancelled = TRUE]
  /\ UNCHANGED <<session, hot, answers, manual, raced>>

(* The query is dropped at the end of the grace period, wherever it is.      *)
DropQuery ==
  /\ q.pc # "idle" /\ q.cancelled
  /\ q' = Idle
  /\ UNCHANGED <<session, hot, answers, manual, raced>>

-----------------------------------------------------------------------------
(* /compact.  Each export and the replacement are commands of the actor, on  *)
(* which queries run; the summary is made in between.                        *)

ManualStart ==
  /\ manual.pc = "off" /\ manual.n < MaxManual /\ q.pc = "idle"
  /\ manual' = [pc |-> "summarize", n |-> manual.n + 1, items |-> messages, result |-> <<>>, hot |-> FALSE]
  /\ UNCHANGED <<session, q, hot, answers, raced>>

ManualSummarize ==
  /\ manual.pc = "summarize"
  /\ \/ manual' = [manual EXCEPT !.pc = "off", !.items = <<>>]
     \/ \E new \in Proactive(manual.items) :
          manual' = [manual EXCEPT !.pc = "export", !.items = <<>>, !.result = new]
  /\ UNCHANGED <<session, q, hot, answers, raced>>

ManualExport ==
  /\ manual.pc = "export" /\ q.pc = "idle"
  /\ manual' = [manual EXCEPT !.pc = "replace", !.items = messages, !.hot = hot]
  /\ UNCHANGED <<session, q, hot, answers, raced>>

ManualReplace ==
  /\ manual.pc = "replace" /\ q.pc = "idle"
  /\ messages' = manual.items /\ prompt' = manual.result /\ hot' = manual.hot
  /\ manual' = [manual EXCEPT !.pc = "off", !.items = <<>>, !.result = <<>>, !.hot = FALSE]
  /\ UNCHANGED <<q, answers, raced>>

-----------------------------------------------------------------------------
Init ==
  /\ messages = <<>> /\ prompt = None
  /\ q = Idle
  /\ hot = FALSE /\ answers = 0
  /\ manual = [pc |-> "off", n |-> 0, items |-> <<>>, result |-> <<>>, hot |-> FALSE]
  /\ raced = FALSE

Loop ==
  \/ Drain \/ CheckBudget \/ RetryLater \/ WaitForRetry \/ CompactAndRetry \/ Fail
  \/ Answer \/ RunTools
Next ==
  \/ \E u \in Users : StartQuery(u)
  \/ Loop \/ Cancel \/ DropQuery
  \/ ManualStart \/ ManualSummarize \/ ManualExport \/ ManualReplace

Spec == Init /\ [][Next]_vars

-----------------------------------------------------------------------------
Kinds == {"user", "assistant", "call", "result", "summary"}
IsPrompt(s) ==
  \A n \in DOMAIN s :
    /\ s[n].k \in Kinds
    /\ s[n].id \in CASE s[n].k = "user" -> Users
                     [] s[n].k \in {"call", "result"} -> Tools
                     [] OTHER -> 0..MaxAnswers
    /\ s[n].of # {} => s[n].k = "summary"

(* Every variable holds what its Rust counterpart can hold; retry_count is   *)
(* at most MAX_RETRIES and the calls of an answer wait only while tools run. *)
TypeOK ==
  /\ IsPrompt(messages) /\ (prompt = None \/ IsPrompt(prompt))
  /\ q \in [pc : {"idle", "drain", "budget", "stream", "backoff", "tools"},
            retry : 0..MaxRetries, compacted : BOOLEAN, cancelled : BOOLEAN, calls : SUBSET Tools]
  /\ q.calls # {} => q.pc = "tools"
  /\ hot \in BOOLEAN /\ raced \in BOOLEAN /\ answers \in 0..MaxAnswers
  /\ manual.pc \in {"off", "summarize", "export", "replace"} /\ manual.n \in 0..MaxManual

(* A provider rejects a call without a result and a result without a call:   *)
(* whatever was interrupted, dropped or compacted, a request has none.       *)
RequestIsPaired ==
  q.pc = "stream" =>
    \A c \in Tools : Item("call", c) \in ToSet(Request) <=> Item("result", c) \in ToSet(Request)

(* What the user said is in the prompt or in a summary that is in the prompt *)
(* or in a summary's: retries, repeated compactions of either kind and a     *)
(* summarizer that reads only a part lose no message, unless a turn begins   *)
(* while /compact is at work.                                                *)
UserWordsKept ==
  ~raced => \A x \in ToSet(messages) : x.k = "user" => Name(x) \in Covers(Source)

(* Compaction changes what the model sees, never the transcript, with the    *)
(* same exception.                                                           *)
TranscriptOnlyGrows == [][~raced => IsPrefix(messages, messages')]_vars

(* A query returns: each step of the loop lowers a natural number, however   *)
(* failures, retries, compactions and answers alternate, as long as the      *)
(* model's answers are bounded.                                              *)
Rank == CASE q.pc \in {"tools", "backoff"} -> 4
          [] q.pc = "drain" -> 3
          [] q.pc = "budget" -> 2
          [] OTHER -> 1
Chances == (MaxRetries - q.retry) + (IF q.compacted THEN 0 ELSE 1)
Measure ==
  IF q.pc = "idle" THEN 0
  ELSE 5 * ((MaxAnswers - answers) * (MaxRetries + 2) + Chances) + Rank
LoopConverges == [][Loop => Measure' < Measure]_vars

(* The same words without the exception: no message of the user is neither   *)
(* in the prompt nor in a summary.                                           *)
UserWordsAlwaysKept ==
  \A x \in ToSet(messages) : x.k = "user" => Name(x) \in Covers(Source)

(* What is not summarized stays as it is: no item of the transcript that is  *)
(* paired is neither in the prompt nor in a summary.                         *)
PreservedRangeKept ==
  ~raced /\ q.pc = "stream" =>
    \A x \in ToSet(Paired(messages)) : Name(x) \in Covers(Source)
=============================================================================
