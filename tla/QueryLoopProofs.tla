-------------------------- MODULE QueryLoopProofs --------------------------
(***************************************************************************)
(* Of the query loop: that it returns, whatever its limit of retries and   *)
(* however failures, retries, compactions and answers alternate, that the  *)
(* transcript only grows unless a turn begins during a /compact, and that  *)
(* in what is requested calls and results are paired.                      *)
(*                                                                         *)
(* Of the inputs that reach it, under InputInv: that an input is given     *)
(* once in a life, that one that waits is on disk, and that a steer in     *)
(* time stays in its turn.  InputInv says where each input is (Places): in *)
(* at most one of the mailbox, the queues, the post-turn task, a launched  *)
(* turn and the prompts of this life, and there once.                      *)
(***************************************************************************)
EXTENDS MCQueries, FiniteSetTheorems, WellFoundedInduction, TLAPS

Pcs == {"idle", "drain", "budget", "stream", "backoff", "tools"}
QueryTyped ==
  /\ q \in [pc : Pcs, retry : 0..MaxRetries, compacted : BOOLEAN, cancelled : BOOLEAN,
            calls : SUBSET Tools]
  /\ answers \in 0..MaxAnswers

LEMMA IdleTyped ==
  Idle \in [pc : Pcs, retry : 0..MaxRetries, compacted : BOOLEAN, cancelled : BOOLEAN,
            calls : SUBSET Tools]
BY QueryAssumption DEF Idle, Pcs

LEMMA StepTyped == QueryTyped /\ [Next]_vars => QueryTyped'
<1> SUFFICES ASSUME QueryTyped, [Next]_vars PROVE QueryTyped'
  OBVIOUS
<1> USE QueryAssumption, IdleTyped DEF QueryTyped, Pcs
<1>1. CASE \E u \in Users : StartQuery(u)
  BY <1>1 DEF StartQuery
<1>2. CASE Drain \/ CheckBudget
  BY <1>2 DEF Drain, CheckBudget
<1>3. CASE RetryLater \/ WaitForRetry
  <2>1. CASE RetryLater
    <3>1. q.retry \in 0..MaxRetries /\ q.retry < MaxRetries
      BY <2>1 DEF RetryLater
    <3>2. q.retry + 1 \in 0..MaxRetries
      BY <3>1
    <3> QED
      BY <2>1, <3>2 DEF RetryLater
  <2>2. CASE WaitForRetry
    BY <2>2 DEF WaitForRetry
  <2> QED
    BY <1>3, <2>1, <2>2
<1>4. CASE CompactAndRetry \/ Fail
  BY <1>4 DEF CompactAndRetry, Fail
<1>5. CASE Answer
  <2>1. PICK calls \in SUBSET Tools : q' \in AfterAnswer(calls)
    BY <1>5 DEF Answer
  <2>2. q' \in [pc : Pcs, retry : 0..MaxRetries, compacted : BOOLEAN, cancelled : BOOLEAN,
                calls : SUBSET Tools]
    <3>1. 0 \in 0..MaxRetries
      OBVIOUS
    <3>2. q' = Idle \/ \E pc \in {"tools", "drain"} :
            q' = [q EXCEPT !.pc = pc, !.retry = 0, !.compacted = FALSE, !.calls = calls]
      BY <2>1 DEF AfterAnswer
    <3> QED
      BY <3>1, <3>2
  <2>3. answers' \in 0..MaxAnswers
    BY <1>5 DEF Answer
  <2> QED
    BY <2>2, <2>3
<1>6. CASE RunTools
  BY <1>6 DEF RunTools
<1>7. CASE Cancel \/ DropQuery
  BY <1>7 DEF Cancel, DropQuery
<1>8. CASE ManualStart \/ ManualSummarize \/ ManualExport \/ ManualReplace
  BY <1>8 DEF ManualStart, ManualSummarize, ManualExport, ManualReplace
<1>9. CASE UNCHANGED vars
  BY <1>9 DEF vars
<1> QED
  BY <1>1, <1>2, <1>3, <1>4, <1>5, <1>6, <1>7, <1>8, <1>9 DEF Next, Loop

-----------------------------------------------------------------------------
(* An answer is worth all the chances it gives back.                         *)
LEMMA OneAnswerLess ==
  ASSUME NEW a \in Nat, NEW m \in Nat
  PROVE  (a - 1) * m = a * m - m /\ a * m \in Nat
OBVIOUS

LEMMA AnswerOutweighs ==
  ASSUME NEW n \in Nat, NEW w \in Nat, NEW v \in Nat, v = w - (n + 2),
         NEW c \in 0..(n + 1), NEW d \in 0..(n + 1), NEW r \in 1..4
  PROVE  5 * (v + d) + r < 5 * (w + c) + 1
OBVIOUS

LEMMA LoopLowers == QueryTyped /\ QueryTyped' /\ Loop => Measure' < Measure
<1> SUFFICES ASSUME QueryTyped, QueryTyped', Loop PROVE Measure' < Measure
  OBVIOUS
<1>0. /\ answers \in 0..MaxAnswers /\ answers' \in 0..MaxAnswers
      /\ q.retry \in 0..MaxRetries /\ q'.retry \in 0..MaxRetries
      /\ MaxAnswers \in Nat /\ MaxRetries \in Nat
  BY QueryAssumption DEF QueryTyped
<1> DEFINE Worth == (MaxAnswers - answers) * (MaxRetries + 2)
<1>1. /\ Worth \in Nat /\ Worth' \in Nat
      /\ Chances \in 0..(MaxRetries + 1) /\ Chances' \in 0..(MaxRetries + 1)
      /\ Rank \in 1..4 /\ Rank' \in 1..4
  <2>1. MaxAnswers - answers \in Nat /\ MaxAnswers - answers' \in Nat /\ MaxRetries + 2 \in Nat
    <3>1. ASSUME NEW a \in 0..MaxAnswers PROVE MaxAnswers - a \in Nat
      BY QueryAssumption
    <3>2. MaxRetries + 2 \in Nat
      BY QueryAssumption
    <3> QED
      BY <1>0, <3>1, <3>2
  <2>2. Worth \in Nat /\ Worth' \in Nat
    BY <2>1, OneAnswerLess
  <2>3. Chances \in 0..(MaxRetries + 1) /\ Chances' \in 0..(MaxRetries + 1)
    BY <1>0 DEF Chances
  <2> QED
    BY <2>2, <2>3 DEF Rank
<1>2. q.pc # "idle" => Measure = 5 * (Worth + Chances) + Rank
  BY DEF Measure
<1>3. Measure' = IF q'.pc = "idle" THEN 0 ELSE 5 * (Worth' + Chances') + Rank'
  BY DEF Measure
<1> HIDE DEF Worth
<1>4. SUFFICES ASSUME q'.pc # "idle"
               PROVE  5 * (Worth' + Chances') + Rank' < 5 * (Worth + Chances) + Rank /\ q.pc # "idle"
  <2>1. q.pc # "idle"
    BY DEF Loop, Drain, CheckBudget, RetryLater, WaitForRetry, CompactAndRetry, Fail, Answer, RunTools
  <2>2. CASE q'.pc = "idle"
    BY <1>1, <1>2, <1>3, <2>1, <2>2
  <2>3. CASE q'.pc # "idle"
    BY <1>2, <1>3, <1>4, <2>1, <2>3
  <2> QED
    BY <2>2, <2>3
<1>5. CASE Answer
  <2>1. Worth' = Worth - (MaxRetries + 2)
    <3>1. answers' = answers + 1 /\ answers < MaxAnswers
      BY <1>5 DEF Answer
    <3>2. MaxAnswers - answers \in Nat /\ MaxRetries + 2 \in Nat
          /\ MaxAnswers - answers' = (MaxAnswers - answers) - 1
      BY <3>1, QueryAssumption DEF QueryTyped
    <3> QED
      BY <3>2, OneAnswerLess DEF Worth
  <2>2. Rank = 1 /\ q.pc = "stream"
    BY <1>5 DEF Answer, Rank
  <2>3. 5 * (Worth' + Chances') + Rank' < 5 * (Worth + Chances) + Rank
    BY <1>0, <1>1, <2>1, <2>2, AnswerOutweighs
  <2> QED
    BY <2>2, <2>3
<1>6. CASE ~Answer
  <2>1. Worth' = Worth
    BY <1>6 DEF Worth, Loop, Drain, CheckBudget, RetryLater, WaitForRetry, CompactAndRetry, Fail, RunTools
  <2>2. CASE Drain \/ CheckBudget
    <3>1. Chances' = Chances /\ Rank' = Rank - 1 /\ q.pc # "idle"
      BY <2>2 DEF Drain, CheckBudget, Chances, Rank, QueryTyped
    <3> QED
      BY <1>1, <2>1, <3>1, QueryAssumption
  <2>3. CASE RetryLater
    <3>1. Chances' = Chances - 1 /\ Rank' = 4 /\ Rank = 1 /\ q.pc # "idle"
      BY <2>3, QueryAssumption DEF RetryLater, Chances, Rank, QueryTyped
    <3> QED
      BY <1>1, <2>1, <3>1, QueryAssumption
  <2>4. CASE WaitForRetry \/ RunTools
    <3>0. /\ q.pc \in {"backoff", "tools"} /\ q'.pc = "drain"
          /\ q'.retry = q.retry /\ q'.compacted = q.compacted
      <4>1. CASE WaitForRetry
        BY <1>4, <4>1 DEF WaitForRetry, QueryTyped, Idle
      <4>2. CASE RunTools
        BY <1>4, <4>2 DEF RunTools, QueryTyped, Idle
      <4> QED
        BY <2>4, <4>1, <4>2
    <3>1. Chances' = Chances /\ Rank' = 3 /\ Rank = 4 /\ q.pc # "idle"
      BY <3>0 DEF Chances, Rank
    <3> QED
      BY <1>1, <2>1, <3>1, QueryAssumption
  <2>5. CASE CompactAndRetry
    <3>1. Chances' = Chances - 1 /\ Rank' = 3 /\ Rank = 1 /\ q.pc # "idle"
      BY <2>5, QueryAssumption DEF CompactAndRetry, Chances, Rank, QueryTyped
    <3> QED
      BY <1>1, <2>1, <3>1, QueryAssumption
  <2>6. CASE Fail
    BY <1>4, <2>6 DEF Fail, Idle
  <2> QED
    BY <1>6, <2>2, <2>3, <2>4, <2>5, <2>6 DEF Loop
<1> QED
  BY <1>5, <1>6

-----------------------------------------------------------------------------
(* Every step of the query loop lowers one natural number: retries, forced   *)
(* and budgeted compactions and continuations cannot feed each other for     *)
(* ever, whatever MAX_RETRIES is.                                            *)
THEOREM QueryConverges == Spec => LoopConverges
<1>1. Init => QueryTyped
  BY IdleTyped, QueryAssumption DEF Init, QueryTyped
<1>2. QueryTyped /\ QueryTyped' /\ [Next]_vars => [Loop => Measure' < Measure]_vars
  BY LoopLowers
<1> QED
  BY <1>1, <1>2, StepTyped, PTL DEF Spec, LoopConverges

-----------------------------------------------------------------------------
(* The transcript.  A finite set of items can be put in order.               *)
LEMMA InOrder ==
  ASSUME NEW S, IsFiniteSet(S)
  PROVE  SetToSeq(S) \in Seq(S)
<1>1. Cardinality(S) \in Nat /\ ExistsBijection(1..Cardinality(S), S)
  BY FS_CardinalityType
<1>2. \E f \in [1..Cardinality(S) -> S] : IsInjective(f)
  BY <1>1 DEF ExistsBijection, Bijection, Injection, Surjection, IsInjective
<1>3. SetToSeq(S) \in [1..Cardinality(S) -> S]
  BY <1>2 DEF SetToSeq
<1> QED
  BY <1>1, <1>3

LEMMA ItemsInOrder ==
  ASSUME NEW k, NEW calls \in SUBSET Tools
  PROVE  SetToSeq({Item(k, c) : c \in calls}) \in Seq({Item(k, c) : c \in calls})
<1> DEFINE f == [c \in calls |-> Item(k, c)]
           S == {Item(k, c) : c \in calls}
<1>1. IsFiniteSet(calls)
  BY FS_Subset, QueryAssumption
<1>2. f \in Surjection(calls, S)
  BY DEF Surjection
<1>3. IsFiniteSet(S)
  BY <1>1, <1>2, FS_Surjection
<1> HIDE DEF S
<1>4. SetToSeq(S) \in Seq(S)
  BY <1>3, InOrder
<1> QED
  BY <1>4 DEF S

(* A transcript that something is appended to starts as it did.              *)
LEMMA Appended ==
  ASSUME NEW S, NEW s \in Seq(S), NEW t \in Seq(S)
  PROVE  IsPrefix(s, s \o t) /\ s \o t \in Seq(S) /\ IsPrefix(s, s)
  BY DEF IsPrefix

(* What may be in a transcript, and what /compact knows while no turn has    *)
(* begun: the query is idle, and what it exported is still the transcript.   *)
Things == {Item(k, id) : k \in Kinds, id \in Users \cup Tools \cup Nat}
Exported ==
  /\ messages \in Seq(Things)
  /\ manual \in [pc : {"off", "summarize", "export", "replace"}, n : {manual.n},
                 items : Seq(Things), result : {manual.result}, hot : {manual.hot}]
  /\ ~raced /\ manual.pc # "off" => q.pc = "idle"
  /\ ~raced /\ manual.pc = "replace" => manual.items = messages

LEMMA Pushed ==
  ASSUME messages \in Seq(Things), NEW s \in Seq(Things), Push(s)
  PROVE  IsPrefix(messages, messages') /\ messages' \in Seq(Things)
  BY Appended DEF Push

LEMMA Unpushed ==
  ASSUME messages \in Seq(Things), UNCHANGED messages
  PROVE  IsPrefix(messages, messages') /\ messages' \in Seq(Things)
  BY Appended

LEMMA CompactKeeps ==
  ASSUME NEW prompts, Compact(prompts)
  PROVE  UNCHANGED messages
  BY DEF Compact, SetPrompt, session

LEMMA ThingsInOrder ==
  ASSUME NEW k \in Kinds, NEW calls \in SUBSET Tools
  PROVE  SetToSeq({Item(k, c) : c \in calls}) \in Seq(Things)
<1> DEFINE S == {Item(k, c) : c \in calls}
<1>1. S \subseteq Things
  BY DEF Things
<1>2. SetToSeq(S) \in Seq(S)
  BY ItemsInOrder
<1> HIDE DEF S
<1>3. SetToSeq(S) \in Seq(Things)
  BY <1>1, <1>2
<1> QED
  BY <1>3 DEF S

LEMMA Said1 ==
  ASSUME NEW k \in Kinds, NEW id \in Users \cup Tools \cup Nat
  PROVE  <<Item(k, id)>> \in Seq(Things)
<1>1. Item(k, id) \in Things
  BY DEF Things
<1> QED
  BY <1>1

(* A step of a query, which is at work.                                      *)
LEMMA QueryStep ==
  ASSUME QueryTyped, Exported, Loop \/ Cancel \/ DropQuery
  PROVE  /\ q.pc # "idle" /\ manual' = manual /\ raced' = raced
         /\ IsPrefix(messages, messages') /\ messages' \in Seq(Things)
<1>0. messages \in Seq(Things) /\ answers \in Nat
  BY QueryAssumption DEF Exported, QueryTyped
<1>1. CASE Drain
  <2>1. CASE UNCHANGED session
    BY <1>0, <1>1, <2>1, Unpushed DEF Drain, session
  <2>2. ASSUME NEW u \in Users, Push(<<Item("user", u)>>)
        PROVE  IsPrefix(messages, messages') /\ messages' \in Seq(Things)
    BY <1>0, <2>2, Pushed, Said1 DEF Kinds
  <2> QED
    BY <1>1, <2>1, <2>2 DEF Drain
<1>2. CASE CheckBudget
  <2>1. UNCHANGED messages
    BY <1>2, CompactKeeps DEF CheckBudget, session
  <2> QED
    BY <1>0, <1>2, <2>1, Unpushed DEF CheckBudget
<1>3. CASE CompactAndRetry
  <2>1. UNCHANGED messages
    BY <1>3, CompactKeeps DEF CompactAndRetry
  <2> QED
    BY <1>0, <1>3, <2>1, Unpushed DEF CompactAndRetry
<1>4. CASE RetryLater \/ WaitForRetry \/ Fail \/ Cancel \/ DropQuery
  BY <1>0, <1>4, Unpushed DEF RetryLater, WaitForRetry, Fail, Cancel, DropQuery, session
<1>5. CASE Answer
  <2>1. PICK calls \in SUBSET (Tools \ Called) : Push(AnswerItems(calls))
    BY <1>5 DEF Answer
  <2>2. <<Item("assistant", answers)>> \in Seq(Things)
    BY <1>0, Said1 DEF Kinds
  <2>3. SetToSeq({Item("call", c) : c \in calls}) \in Seq(Things)
    BY ThingsInOrder DEF Kinds
  <2>4. AnswerItems(calls) \in Seq(Things)
    BY <2>2, <2>3 DEF AnswerItems
  <2> QED
    BY <1>0, <1>5, <2>1, <2>4, Pushed DEF Answer
<1>6. CASE RunTools
  <2>1. SetToSeq({Item("result", c) : c \in q.calls}) \in Seq(Things)
    BY ThingsInOrder DEF Kinds, QueryTyped
  <2> QED
    BY <1>0, <1>6, <2>1, Pushed DEF RunTools
<1> QED
  BY <1>1, <1>2, <1>3, <1>4, <1>5, <1>6 DEF Loop

LEMMA StepGrows ==
  ASSUME QueryTyped, Exported, [Next]_vars
  PROVE  Exported' /\ (~raced => IsPrefix(messages, messages'))
<1>0. messages \in Seq(Things)
  BY DEF Exported
<1>1. CASE \E u \in Users : StartQuery(u)
  <2>1. PICK u \in Users : StartQuery(u)
    BY <1>1
  <2>2. IsPrefix(messages, messages') /\ messages' \in Seq(Things)
    BY <1>0, <2>1, Pushed, Said1 DEF StartQuery, Kinds
  <2> QED
    BY <2>1, <2>2 DEF StartQuery, Exported
<1>2. CASE Loop \/ Cancel \/ DropQuery
  BY <1>2, QueryStep DEF Exported
<1>3. CASE ManualStart
  BY <1>0, <1>3, Unpushed DEF ManualStart, Exported, session
<1>4. CASE ManualSummarize
  <2>1. <<>> \in Seq(Things)
    OBVIOUS
  <2> QED
    BY <1>0, <1>4, <2>1, Unpushed DEF ManualSummarize, Exported, session
<1>5. CASE ManualExport
  BY <1>0, <1>5, Unpushed DEF ManualExport, Exported, session
<1>6. CASE ManualReplace
  <2>1. <<>> \in Seq(Things)
    OBVIOUS
  <2>2. manual.items \in Seq(Things) /\ (~raced => manual.items = messages)
    BY <1>6 DEF ManualReplace, Exported
  <2> QED
    BY <1>0, <1>6, <2>1, <2>2, Unpushed DEF ManualReplace, Exported
<1>7. CASE UNCHANGED vars
  BY <1>0, <1>7, Unpushed DEF vars, session, Exported
<1> QED
  BY <1>1, <1>2, <1>3, <1>4, <1>5, <1>6, <1>7 DEF Next

(* Whatever is compacted, by the loop or by /compact, and whatever fails, no *)
(* item of the transcript is changed or lost, unless a turn begins while     *)
(* /compact is at work.                                                      *)
THEOREM TranscriptGrows == Spec => TranscriptOnlyGrows
<1>1. Init => QueryTyped /\ Exported
  <2>1. <<>> \in Seq(Things)
    OBVIOUS
  <2> QED
    BY <2>1, IdleTyped, QueryAssumption DEF Init, QueryTyped, Exported
<1>2. QueryTyped /\ Exported /\ [Next]_vars => Exported' /\ [~raced => IsPrefix(messages, messages')]_vars
  BY StepGrows
<1> QED
  BY <1>1, <1>2, StepTyped, PTL DEF Spec, TranscriptOnlyGrows

-----------------------------------------------------------------------------
(* The least number of a set, and induction with a set for the property.     *)
LEMMA Least == ASSUME NEW S, S \subseteq Nat, S # {} PROVE \E x \in S : \A y \in S : x <= y
<1>1. \E x \in S : \A y \in S : ~ (<<y, x>> \in OpToRel(<, Nat))
  BY NatLessThanWellFounded, WFMin
<1>2. PICK x \in S : \A y \in S : ~ (<<y, x>> \in OpToRel(<, Nat))
  BY <1>1
<1>3. \A y \in S : ~ (y < x)
  BY <1>2 DEF OpToRel
<1>4. x \in S
  BY <1>2
<1> QED
  BY <1>3, <1>4

LEMMA UpTo ==
  ASSUME NEW N \in Nat, NEW S, 0 \in S, \A n \in 0..(N - 1) : n \in S => n + 1 \in S
  PROVE  \A n \in 0..N : n \in S
<1> SUFFICES ASSUME (0..N) \ S # {} PROVE FALSE
  OBVIOUS
<1>0. (0..N) \ S \subseteq Nat
  OBVIOUS
<1>1. PICK x \in (0..N) \ S : \A y \in (0..N) \ S : x <= y
  BY <1>0, Least
<1>2. x # 0 /\ x - 1 \in 0..(N - 1)
  BY <1>1
<1>3. x - 1 \in S
  BY <1>1, <1>2
<1> QED
  BY <1>1, <1>2, <1>3

OnlyStep(s, S, f, n) == IF n = 0 THEN <<>> ELSE IF s[n] \in S THEN Append(f[n - 1], s[n]) ELSE f[n - 1]

(* The function that Only's recursion defines.                               *)
LEMMA OnlySteps ==
  ASSUME NEW T, NEW s \in Seq(T), NEW S
  PROVE  \E f \in [0..Len(s) -> Seq(T)] :
           /\ \A n \in 0..Len(s) : f[n] = OnlyStep(s, S, f, n)
           /\ Only(s, S) = f[Len(s)]
<1> DEFINE N == Len(s)
           Fits(f, m) == \A n \in 0..m : f[n] = OnlyStep(s, S, f, n)
           D == {m \in 0..N : \E f \in [0..m -> Seq(T)] : Fits(f, m)}
<1>1. N \in Nat /\ s \in [1..N -> T]
  OBVIOUS
<1>2. 0 \in D
  <2> DEFINE f == [k \in 0..0 |-> <<>>]
  <2>1. f \in [0..0 -> Seq(T)]
    OBVIOUS
  <2>2. \A n \in 0..0 : f[n] = OnlyStep(s, S, f, n)
    BY DEF OnlyStep
  <2>3. 0 \in 0..N
    BY <1>1
  <2> HIDE DEF f
  <2> QED
    BY <2>1, <2>2, <2>3
<1>3. ASSUME NEW m \in 0..(N - 1), m \in D PROVE m + 1 \in D
  <2>1. PICK f \in [0..m -> Seq(T)] : Fits(f, m)
    BY <1>3
  <2> DEFINE g == [n \in 0..(m + 1) |-> IF n <= m THEN f[n] ELSE OnlyStep(s, S, f, n)]
  <2>2. m + 1 \in 1..N /\ s[m + 1] \in T
    BY <1>1
  <2>3. f[m] \in Seq(T)
    BY <1>1
  <2>4. OnlyStep(s, S, f, m + 1) \in Seq(T)
    <3>1. m + 1 # 0 /\ (m + 1) - 1 = m
      BY <1>1
    <3> QED
      BY <2>2, <2>3, <3>1 DEF OnlyStep
  <2>5. g \in [0..(m + 1) -> Seq(T)]
    <3>1. ASSUME NEW n \in 0..(m + 1) PROVE g[n] \in Seq(T)
      <4>1. n <= m => n \in 0..m
        BY <1>1
      <4>2. ~(n <= m) => n = m + 1
        BY <1>1
      <4> QED
        BY <2>4, <4>1, <4>2
    <3> QED
      BY <3>1
  <2>6. ASSUME NEW n \in 0..(m + 1) PROVE g[n] = OnlyStep(s, S, g, n)
    <3>1. n # 0 => n - 1 \in 0..m /\ n - 1 \in 0..(m + 1) /\ g[n - 1] = f[n - 1]
      BY <1>1
    <3>2. OnlyStep(s, S, g, n) = OnlyStep(s, S, f, n)
      BY <3>1 DEF OnlyStep
    <3>3. n <= m => n \in 0..m
      BY <1>1
    <3> QED
      BY <2>1, <3>2, <3>3
  <2>7. m + 1 \in 0..N
    BY <1>1
  <2> HIDE DEF g
  <2> QED
    BY <2>5, <2>6, <2>7
<1>4. N \in D
  <2>1. \A n \in 0..N : n \in D
    <3> HIDE DEF D
    <3> QED
      BY <1>1, <1>2, <1>3, UpTo
  <2>2. N \in 0..N
    BY <1>1
  <2> HIDE DEF D
  <2> QED
    BY <2>1, <2>2
<1>5. PICK f \in [0..N -> Seq(T)] : Fits(f, N)
  BY <1>4
<1> DEFINE R(g) == g = [n \in 0..N |-> IF n = 0 THEN <<>> ELSE IF s[n] \in S THEN Append(g[n - 1], s[n]) ELSE g[n - 1]]
           F == CHOOSE g : R(g)
<1>6. R(f)
  BY <1>5 DEF OnlyStep
<1>7. R(F)
  BY <1>6
<1>8. Only(s, S) = F[N]
  BY DEF Only
<1> HIDE DEF F
<1>9. \A n \in 0..N : F[n] = OnlyStep(s, S, F, n)
  BY <1>7 DEF OnlyStep
<1>10. \A n \in 0..N : F[n] = f[n]
  <2> DEFINE E == {n \in 0..N : F[n] = f[n]}
  <2>1. 0 \in E
    BY <1>1, <1>5, <1>9 DEF OnlyStep
  <2>2. ASSUME NEW n \in 0..(N - 1), n \in E PROVE n + 1 \in E
    <3>1. n + 1 \in 0..N /\ n + 1 # 0 /\ (n + 1) - 1 = n /\ n \in 0..N
      BY <1>1
    <3> QED
      BY <1>5, <1>9, <2>2, <3>1 DEF OnlyStep
  <2>3. \A n \in 0..N : n \in E
    <3> HIDE DEF E
    <3> QED
      BY <1>1, <2>1, <2>2, UpTo
  <2> QED
    BY <2>3
<1> QED
  BY <1>1, <1>5, <1>8, <1>10
Has(s, x) == \E n \in DOMAIN s : s[n] = x
Once(s, x) == \A m, n \in DOMAIN s : s[m] = x /\ s[n] = x => m = n

LEMMA Appending ==
  ASSUME NEW T, NEW s \in Seq(T), NEW e \in T
  PROVE  /\ Append(s, e) \in Seq(T)
         /\ \A x : Has(Append(s, e), x) <=> Has(s, x) \/ x = e
         /\ \A x : Once(s, x) /\ ~(x = e /\ Has(s, x)) => Once(Append(s, e), x)
<1>1. /\ Append(s, e) \in Seq(T) /\ Len(s) \in Nat
      /\ DOMAIN s = 1..Len(s) /\ DOMAIN Append(s, e) = 1..(Len(s) + 1)
      /\ Append(s, e)[Len(s) + 1] = e
      /\ \A n \in 1..Len(s) : Append(s, e)[n] = s[n]
  OBVIOUS
<1>2. \A n \in 1..(Len(s) + 1) : n \in 1..Len(s) \/ n = Len(s) + 1
  BY <1>1
<1>3. Len(s) + 1 \in 1..(Len(s) + 1) /\ \A n \in 1..Len(s) : n \in 1..(Len(s) + 1)
  BY <1>1
<1> DEFINE a == Append(s, e)
<1> HIDE DEF a
<1>4. \A x : Has(a, x) <=> Has(s, x) \/ x = e
  BY <1>1, <1>2, <1>3 DEF Has, a
<1>5. \A x : Once(s, x) /\ ~(x = e /\ Has(s, x)) => Once(a, x)
  BY <1>1, <1>2, <1>3 DEF Has, Once, a
<1> QED
  BY <1>1, <1>4, <1>5 DEF a

(* What it takes out and what it leaves.                                     *)
LEMMA OnlyThose ==
  ASSUME NEW T, NEW s \in Seq(T), NEW S
  PROVE  /\ Only(s, S) \in Seq(T)
         /\ \A x : Has(Only(s, S), x) <=> Has(s, x) /\ x \in S
         /\ \A x : Once(s, x) => Once(Only(s, S), x)
<1> DEFINE N == Len(s)
<1>1. N \in Nat /\ s \in [1..N -> T] /\ DOMAIN s = 1..N
  OBVIOUS
<1>2. PICK f \in [0..N -> Seq(T)] :
        (\A n \in 0..N : f[n] = OnlyStep(s, S, f, n)) /\ Only(s, S) = f[N]
  BY OnlySteps
<1> DEFINE Those(n) ==
             /\ \A x : Has(f[n], x) <=> x \in S /\ \E k \in 1..n : s[k] = x
             /\ \A x : Once(s, x) => Once(f[n], x)
           E == {n \in 0..N : Those(n)}
<1>3. 0 \in E
  <2>1. 0 \in 0..N
    BY <1>1
  <2>2. f[0] = <<>>
    BY <1>2, <2>1 DEF OnlyStep
  <2>3. Those(0)
    BY <2>2 DEF Has, Once
  <2> QED
    BY <2>1, <2>3
<1>4. ASSUME NEW n \in 0..(N - 1), n \in E PROVE n + 1 \in E
  <2>0. n \in 0..N /\ n + 1 \in 0..N /\ n + 1 # 0 /\ (n + 1) - 1 = n /\ n + 1 \in 1..N
    BY <1>1
  <2>1. f[n] \in Seq(T) /\ s[n + 1] \in T
    BY <1>1, <2>0
  <2>2. f[n + 1] = IF s[n + 1] \in S THEN Append(f[n], s[n + 1]) ELSE f[n]
    BY <1>2, <2>0 DEF OnlyStep
  <2>3. \A x : (\E k \in 1..(n + 1) : s[k] = x) <=> (\E k \in 1..n : s[k] = x) \/ s[n + 1] = x
    <3>1. \A k \in 1..(n + 1) : k \in 1..n \/ k = n + 1
      BY <2>0, <2>1
    <3>2. n + 1 \in 1..(n + 1) /\ \A k \in 1..n : k \in 1..(n + 1)
      BY <2>0, <2>1
    <3> QED
      BY <3>1, <3>2
  <2>4. Those(n)
    BY <1>4
  <2>5. CASE s[n + 1] \in S
    <3>1. \A x : Has(f[n + 1], x) <=> Has(f[n], x) \/ x = s[n + 1]
      BY <2>0, <2>1, <2>2, <2>5, Appending
    <3>2. ASSUME NEW x, Once(s, x) PROVE Once(f[n + 1], x)
      <4>1. ~(x = s[n + 1] /\ Has(f[n], x))
        <5> SUFFICES ASSUME x = s[n + 1], Has(f[n], x) PROVE FALSE
          OBVIOUS
        <5>1. PICK k \in 1..n : s[k] = x
          BY <2>4
        <5>2. k \in 1..N /\ k # n + 1
          BY <1>1, <2>0, <2>1
        <5> QED
          BY <1>1, <2>0, <2>1, <3>2, <5>1, <5>2 DEF Once
      <4> QED
        BY <2>0, <2>1, <2>2, <2>4, <2>5, <3>2, <4>1, Appending
    <3> QED
      BY <2>0, <2>1, <2>3, <2>4, <2>5, <3>1, <3>2
  <2>6. CASE s[n + 1] \notin S
    BY <2>0, <2>1, <2>2, <2>3, <2>4, <2>6
  <2> QED
    BY <2>5, <2>6
<1>5. Those(N)
  <2>1. \A n \in 0..N : n \in E
    <3> HIDE DEF E
    <3> QED
      BY <1>1, <1>3, <1>4, UpTo
  <2> QED
    BY <1>1, <2>1
<1>6. /\ \A x : Has(f[N], x) <=> Has(s, x) /\ x \in S
      /\ \A x : Once(s, x) => Once(f[N], x)
  BY <1>1, <1>5 DEF Has
<1>7. f[N] \in Seq(T)
  BY <1>1
<1> QED
  BY <1>2, <1>6, <1>7

-----------------------------------------------------------------------------
(* What a compaction makes is a prompt: a sequence of items and summaries.   *)
Names == Kinds \X (Users \cup Tools \cup Nat)
Pieces == [k : Kinds, id : Users \cup Tools \cup Nat, of : SUBSET Names]

LEMMA ThingsArePieces == Things \subseteq Pieces
  BY DEF Things, Pieces, Item

LEMMA TakenTyped ==
  ASSUME NEW s \in Seq(Pieces), NEW S
  PROVE  Only(s, S) \in Seq(Pieces)
  BY OnlyThose

LEMMA PairedTyped ==
  ASSUME NEW s \in Seq(Pieces)
  PROVE  Paired(s) \in Seq(Pieces)
  BY TakenTyped DEF Paired

LEMMA CoversTyped ==
  ASSUME NEW s \in Seq(Pieces)
  PROVE  Covers(s) \in SUBSET Names
<1>1. \A x \in ToSet(s) : x \in Pieces
  BY DEF ToSet
<1>2. \A x \in Pieces : x.of \subseteq Names /\ Name(x) \in Names
  BY DEF Pieces, Names, Name
<1> QED
  BY <1>1, <1>2 DEF Covers

LEMMA PartTyped ==
  ASSUME NEW s \in Seq(Pieces), NEW m \in 1..(Len(s) + 1), NEW n \in 0..Len(s)
  PROVE  SubSeq(s, m, n) \in Seq(Pieces)
<1>1. \A i \in m..n : s[i] \in Pieces
  OBVIOUS
<1> QED
  BY <1>1

LEMMA SummarizedTyped ==
  ASSUME NEW to \in Seq(Pieces), NEW preserved \in Seq(Pieces), NEW n \in 0..Len(to)
  PROVE  Summarized(to, preserved, n) \in Seq(Pieces)
<1> DEFINE read == SubSeq(to, 1, Len(to) - n)
           kept == SubSeq(to, Len(to) - n + 1, Len(to)) \o preserved
           summary == [k |-> "summary", id |-> 0, of |-> Covers(read)]
           rest == Only(kept, {x \in ToSet(kept) : x.k \notin {"call", "result"}})
<1>1. read \in Seq(Pieces)
  <2>1. 1 \in 1..(Len(to) + 1) /\ Len(to) - n \in 0..Len(to)
    OBVIOUS
  <2> QED
    BY <2>1, PartTyped
<1>2. kept \in Seq(Pieces)
  <2>1. Len(to) - n + 1 \in 1..(Len(to) + 1) /\ Len(to) \in 0..Len(to)
    OBVIOUS
  <2>2. SubSeq(to, Len(to) - n + 1, Len(to)) \in Seq(Pieces)
    BY <2>1, PartTyped
  <2> QED
    BY <2>2
<1>3. <<summary>> \in Seq(Pieces)
  <2>1. Covers(read) \in SUBSET Names
    BY <1>1, CoversTyped
  <2>2. summary \in Pieces
    BY <2>1 DEF Pieces, Kinds
  <2> HIDE DEF summary
  <2> QED
    BY <2>2
<1>4. rest \in Seq(Pieces)
  BY <1>2, TakenTyped
<1>5. Summarized(to, preserved, n) = <<summary>> \o rest
  BY DEF Summarized
<1> HIDE DEF summary, rest
<1> QED
  BY <1>3, <1>4, <1>5

LEMMA OutcomesTyped ==
  ASSUME NEW to \in Seq(Pieces), NEW preserved \in Seq(Pieces), NEW new \in Outcomes(to, preserved)
  PROVE  new \in Seq(Pieces)
  BY SummarizedTyped DEF Outcomes

LEMMA AutomaticTyped ==
  ASSUME NEW items \in Seq(Pieces), NEW new \in Automatic(items)
  PROVE  new \in Seq(Pieces)
<1> DEFINE f == Paired(items)
<1>1. f \in Seq(Pieces)
  BY PairedTyped
<1>2. PICK n \in 1..(Len(f) - 1) :
        new \in Outcomes(Paired(SubSeq(f, 1, n)), Paired(SubSeq(f, n + 1, Len(f))))
  BY DEF Automatic
<1> HIDE DEF f
<1>3. 1 \in 1..(Len(f) + 1) /\ n \in 0..Len(f) /\ n + 1 \in 1..(Len(f) + 1) /\ Len(f) \in 0..Len(f)
  BY <1>1
<1>4. SubSeq(f, 1, n) \in Seq(Pieces) /\ SubSeq(f, n + 1, Len(f)) \in Seq(Pieces)
  BY <1>1, <1>3, PartTyped
<1> QED
  BY <1>2, <1>4, PairedTyped, OutcomesTyped

(* A set of positions has a last one.                                        *)
LEMMA Latest ==
  ASSUME NEW N \in Nat, NEW I, I \subseteq 1..N, I # {}
  PROVE  Max(I) \in I
<1> DEFINE J == {j \in 0..N : N - j \in I}
<1>1. J \subseteq Nat /\ J # {}
  <2>1. PICK i \in I : TRUE
    OBVIOUS
  <2>2. N - i \in 0..N /\ N - (N - i) = i
    OBVIOUS
  <2>3. N - i \in J
    BY <2>2
  <2>4. \A k \in J : k \in Nat
    OBVIOUS
  <2> HIDE DEF J
  <2> QED
    BY <2>3, <2>4
<1>2. PICK j \in J : \A k \in J : j <= k
  <2> HIDE DEF J
  <2> QED
    BY <1>1, Least
<1>3. N - j \in I /\ \A i \in I : N - j >= i
  <2>1. ASSUME NEW i \in I PROVE N - j >= i
    <3>1. N - i \in 0..N /\ N - (N - i) = i
      OBVIOUS
    <3>2. j <= N - i
      BY <1>2, <3>1
    <3> QED
      BY <3>2
  <2> QED
    BY <2>1
<1> QED
  BY <1>3 DEF Max

LEMMA ProactiveTyped ==
  ASSUME NEW items \in Seq(Pieces), NEW new \in Proactive(items)
  PROVE  new \in Seq(Pieces)
<1> DEFINE f == Paired(items)
           I == {i \in 1..Len(f) : f[i].k \in {"user", "summary"}}
           last == SelectLastInSeq(f, LAMBDA x : x.k \in {"user", "summary"})
           kept == IF last = 0 THEN <<>> ELSE Paired(SubSeq(f, last, Len(f)))
<1>1. f \in Seq(Pieces) /\ Len(f) \in Nat
  BY PairedTyped
<1>2. last = IF I # {} THEN Max(I) ELSE 0
  BY DEF SelectLastInSeq
<1>3. new \in Outcomes(f, kept)
  BY DEF Proactive
<1> HIDE DEF f, last
<1>4. last # 0 => last \in 1..Len(f)
  <2>1. I \subseteq 1..Len(f)
    OBVIOUS
  <2> HIDE DEF I
  <2> QED
    BY <1>1, <1>2, <2>1, Latest
<1>5. kept \in Seq(Pieces)
  <2>1. CASE last = 0
    BY <2>1
  <2>2. CASE last # 0
    <3>1. last \in 1..(Len(f) + 1) /\ Len(f) \in 0..Len(f)
      BY <1>1, <1>4, <2>2
    <3>2. SubSeq(f, last, Len(f)) \in Seq(Pieces)
      BY <1>1, <3>1, PartTyped
    <3> QED
      BY <2>2, <3>2, PairedTyped
  <2> QED
    BY <2>1, <2>2
<1> HIDE DEF kept
<1> QED
  BY <1>1, <1>3, <1>5, OutcomesTyped

(* The prompt is a prompt, and so is the summary that /compact made.         *)
Prompted ==
  /\ prompt \in Seq(Pieces) \cup {None}
  /\ manual.result \in Seq(Pieces)

LEMMA SourceTyped ==
  ASSUME Exported, Prompted
  PROVE  messages \in Seq(Pieces) /\ Source \in Seq(Pieces)
<1>1. messages \in Seq(Pieces)
  BY ThingsArePieces DEF Exported
<1> QED
  BY <1>1 DEF Source, Prompted

LEMMA PushedTyped ==
  ASSUME Prompted, NEW s \in Seq(Things), Push(s)
  PROVE  prompt' \in Seq(Pieces) \cup {None}
<1>1. s \in Seq(Pieces)
  BY ThingsArePieces
<1>2. ASSUME prompt # None PROVE prompt \o s \in Seq(Pieces)
  BY <1>1, <1>2 DEF Prompted
<1> QED
  BY <1>2 DEF Push

LEMMA CompactTyped ==
  ASSUME Prompted, NEW prompts, prompts \subseteq Seq(Pieces), Compact(prompts)
  PROVE  prompt' \in Seq(Pieces) \cup {None}
  BY DEF Compact, SetPrompt, session, Prompted

LEMMA StepPrompted ==
  ASSUME QueryTyped, Exported, Prompted, [Next]_vars
  PROVE  Prompted'
<1> USE DEF Prompted
<1>0. Source \in Seq(Pieces) /\ answers \in Nat
  BY SourceTyped, QueryAssumption DEF QueryTyped
<1>1. ASSUME NEW u \in Users, Push(<<Item("user", u)>>)
      PROVE  prompt' \in Seq(Pieces) \cup {None}
  BY <1>1, PushedTyped, Said1 DEF Kinds
<1>2. CASE \E u \in Users : StartQuery(u)
  BY <1>1, <1>2 DEF StartQuery
<1>3. CASE Drain
  BY <1>1, <1>3 DEF Drain, session
<1>4. CASE CheckBudget
  <2>1. Automatic(Source) \subseteq Seq(Pieces)
    BY <1>0, AutomaticTyped
  <2> QED
    BY <1>4, <2>1, CompactTyped DEF CheckBudget, session
<1>5. CASE CompactAndRetry
  <2>1. Proactive(Source) \subseteq Seq(Pieces)
    BY <1>0, ProactiveTyped
  <2> QED
    BY <1>5, <2>1, CompactTyped DEF CompactAndRetry
<1>6. CASE RetryLater \/ WaitForRetry \/ Fail \/ Cancel \/ DropQuery
  BY <1>6 DEF RetryLater, WaitForRetry, Fail, Cancel, DropQuery, session
<1>7. CASE Answer
  <2>1. PICK calls \in SUBSET (Tools \ Called) : Push(AnswerItems(calls))
    BY <1>7 DEF Answer
  <2>2. <<Item("assistant", answers)>> \in Seq(Things)
    BY <1>0, Said1 DEF Kinds
  <2>3. SetToSeq({Item("call", c) : c \in calls}) \in Seq(Things)
    BY ThingsInOrder DEF Kinds
  <2>4. AnswerItems(calls) \in Seq(Things)
    BY <2>2, <2>3 DEF AnswerItems
  <2> QED
    BY <1>7, <2>1, <2>4, PushedTyped DEF Answer
<1>8. CASE RunTools
  <2>1. SetToSeq({Item("result", c) : c \in q.calls}) \in Seq(Things)
    BY ThingsInOrder DEF Kinds, QueryTyped
  <2> QED
    BY <1>8, <2>1, PushedTyped DEF RunTools
<1>9. CASE ManualStart
  <2>1. <<>> \in Seq(Pieces)
    OBVIOUS
  <2> QED
    BY <1>9, <2>1 DEF ManualStart, session
<1>10. CASE ManualSummarize
  <2>1. ASSUME manual.pc = "summarize" PROVE Proactive(manual.items) \subseteq Seq(Pieces)
    <3>1. manual.items \in Seq(Pieces)
      BY ThingsArePieces DEF Exported
    <3> QED
      BY <3>1, ProactiveTyped
  <2>2. manual.pc = "summarize" /\ UNCHANGED prompt
    BY <1>10 DEF ManualSummarize, session
  <2>3. \/ manual' = [manual EXCEPT !.pc = "off", !.items = <<>>]
        \/ \E new \in Seq(Pieces) :
             manual' = [manual EXCEPT !.pc = "export", !.items = <<>>, !.result = new]
    BY <1>10, <2>1 DEF ManualSummarize
  <2>4. manual'.result \in Seq(Pieces)
    BY <2>3 DEF Exported
  <2> QED
    BY <2>2, <2>4
<1>11. CASE ManualExport
  BY <1>11 DEF ManualExport, session, Exported
<1>12. CASE ManualReplace
  <2>1. <<>> \in Seq(Pieces)
    OBVIOUS
  <2>2. manual'.result = <<>> /\ prompt' = manual.result
    BY <1>12 DEF ManualReplace, Exported
  <2> QED
    BY <2>1, <2>2
<1>13. CASE UNCHANGED vars
  BY <1>13 DEF vars, session
<1> QED
  BY <1>2, <1>3, <1>4, <1>5, <1>6, <1>7, <1>8, <1>9, <1>10, <1>11, <1>12, <1>13 DEF Next, Loop

(* Pairing keeps both of a call and its result, or neither.                  *)
LEMMA BothOrNeither ==
  ASSUME NEW s \in Seq(Pieces), NEW c
  PROVE  Item("call", c) \in ToSet(Paired(s)) <=> Item("result", c) \in ToSet(Paired(s))
<1> DEFINE P == {x \in ToSet(s) : HasPair(x, s)}
<1>1. \A x : x \in ToSet(Only(s, P)) <=> x \in ToSet(s) /\ x \in P
  <2>1. \A x : Has(Only(s, P), x) <=> Has(s, x) /\ x \in P
    <3> HIDE DEF P
    <3> QED
      BY OnlyThose
  <2>2. \A t, x : x \in ToSet(t) <=> Has(t, x)
    BY DEF ToSet, Has
  <2> QED
    BY <2>1, <2>2
<1>2. \A x : x \in ToSet(Paired(s)) <=> x \in ToSet(s) /\ HasPair(x, s)
  BY <1>1 DEF Paired
<1>3. /\ HasPair(Item("call", c), s) <=> Item("result", c) \in ToSet(s)
      /\ HasPair(Item("result", c), s) <=> Item("call", c) \in ToSet(s)
  <2>1. /\ Item("call", c).k = "call" /\ Item("call", c).id = c
        /\ Item("result", c).k = "result" /\ Item("result", c).id = c
    BY DEF Item
  <2> QED
    BY <2>1 DEF HasPair
<1> QED
  BY <1>2, <1>3

(* Whatever was interrupted between a call and its result, dropped at the    *)
(* end of the grace period, or cut in two by a compaction of either kind: no *)
(* request that the provider is sent has the one without the other.          *)
THEOREM RequestsArePaired == Spec => []RequestIsPaired
<1>1. Init => QueryTyped /\ Exported /\ Prompted
  <2>1. <<>> \in Seq(Things) /\ <<>> \in Seq(Pieces)
    OBVIOUS
  <2> QED
    BY <2>1, IdleTyped, QueryAssumption DEF Init, QueryTyped, Exported, Prompted
<1>2. QueryTyped /\ Exported /\ Prompted /\ [Next]_vars => Exported' /\ Prompted'
  BY StepGrows, StepPrompted
<1>3. Exported /\ Prompted => RequestIsPaired
  BY SourceTyped, BothOrNeither DEF RequestIsPaired, Request
<1> QED
  BY <1>1, <1>2, <1>3, StepTyped, PTL DEF Spec
-----------------------------------------------------------------------------
(* Where an input of this life is: on its way to the queue, in one of the    *)
(* three inboxes, with the chain, launched, or in a prompt.                  *)
EnqueueOf(i) == [op |-> "enqueue", input |-> i]
ExecuteOf(i) == [op |-> "execute", input |-> i]
RemoveOf(i) == [op |-> "remove", input |-> i]
Places == {"mail", "queue", "pending", "btw", "chain", "launched", "given"}
At(k, i) ==
  \/ k = "mail" /\ Has(mailbox, EnqueueOf(i))
  \/ k = "queue" /\ Has(queue, i)
  \/ k = "pending" /\ Has(pending, i)
  \/ k = "btw" /\ Has(btw, i)
  \/ k = "chain" /\ chain.input = i
  \/ k = "launched" /\ Has(mailbox, ExecuteOf(i))
  \/ k = "given" /\ \E n \in DOMAIN given : given[n].input = i /\ given[n].life = life

(* Nothing is at work while the session is not loaded.                       *)
AtRest ==
  ~up =>
    /\ life < MaxLives
    /\ mailbox = <<>> /\ queue = <<>> /\ btw = <<>> /\ pending = <<>>
    /\ chain.pc = "off" /\ turn.pc = "idle"
    /\ \A i \in Inbox!Inputs : h[i].pc \in {"new", "done"}
    /\ \A i \in QueueInputs : requests[i].pc \in {"new", "done"}

(* What handlers know.                                                       *)
HandlersKnow ==
  /\ turn.pc # "idle" => turn.id >= 1
  /\ \A i \in Inbox!Inputs : h[i].life <= life
  /\ \A i \in QueueInputs :
       /\ h[i].pc \in {"new", "row", "done"}
       /\ h[i].reply = "Queued" => h[i].pc = "done"
       /\ requests[i].pc # "new" \/ Has(mailbox, RemoveOf(i)) => h[i].pc = "done"
  /\ \A i \in SteerInputs : h[i].pc \in {"new", "push", "answer", "done"}

(* An input that was not sent yet is nowhere, and its row is written once.   *)
SentOnce ==
  /\ \A i \in Inbox!Inputs : h[i].pc \in {"new", "push"} => \A k \in Places : ~At(k, i)
  /\ \A i \in QueueInputs : (h[i].pc \in {"new", "row"} => ~Has(rows, i)) /\ Once(rows, i)

(* In one place, and there once.                                             *)
OnePlace == \A i \in Inbox!Inputs : \A k, l \in Places : At(k, i) /\ At(l, i) => k = l
OnceThere ==
  \A i \in Inbox!Inputs :
    /\ Once(mailbox, EnqueueOf(i)) /\ Once(mailbox, ExecuteOf(i))
    /\ Once(queue, i) /\ Once(pending, i) /\ Once(btw, i)
GiftsKnown ==
  \A n \in DOMAIN given : given[n].life <= life /\ given[n].turn <= turn.id

(* One pop is asked for at a time, and one turn started, by the chain or     *)
(* while it is off.                                                          *)
HasOp(s, o) == \E n \in DOMAIN s : s[n].op = o
OneOp(s, o) == \A m, n \in DOMAIN s : s[m].op = o /\ s[n].op = o => m = n
OneAtATime ==
  /\ OneOp(mailbox, "pop") /\ (HasOp(mailbox, "pop") => chain.pc = "popping")
  /\ OneOp(mailbox, "execute") /\ (HasOp(mailbox, "execute") => turn.pc = "launched")
  /\ turn.pc # "idle" => chain.pc = "off"

(* What waits has a row, and a row that is erased is of nothing that waits.  *)
Waits(i) == At("mail", i) \/ At("queue", i) \/ At("pending", i)
WaitsOnDisk ==
  \A i \in QueueInputs :
    /\ h[i].reply = "Queued" /\ h[i].life = life /\ Waits(i) => Has(rows, i)
    /\ requests[i].pc \in {"erase", "unrow"} => ~Waits(i)

(* A steer that was answered in time waits for the turn it names only.       *)
Within == {"launched", "steers", "queued", "model", "ended", "handles"}
SteersKnown ==
  \A i \in SteerInputs :
    /\ h[i].turn <= turn.id
    /\ \A n \in DOMAIN given : given[n].input = i =>
         h[i].pc \in {"answer", "done"} /\ h[i].turn <= given[n].turn
    /\ h[i].intime =>
         /\ h[i].pc = "done"
         /\ \A n \in DOMAIN given : given[n].input = i => given[n].turn = h[i].turn
         /\ Has(btw, i) => turn.id = h[i].turn /\ turn.pc \in Within

InputInv ==
  /\ Inbox!TypeOK /\ AtRest /\ HandlersKnow /\ SentOnce /\ OnePlace /\ OnceThere /\ Inbox!GivenOncePerLife
  /\ GiftsKnown /\ OneAtATime /\ WaitsOnDisk /\ SteersKnown

(* Sequences that grow and shrink at their ends.                             *)
LEMMA Joined ==
  ASSUME NEW T, NEW a \in Seq(T), NEW b \in Seq(T)
  PROVE  /\ a \o b \in Seq(T)
         /\ \A x : Has(a \o b, x) <=> Has(a, x) \/ Has(b, x)
         /\ \A x : Once(a, x) /\ Once(b, x) /\ ~(Has(a, x) /\ Has(b, x)) => Once(a \o b, x)
<1> DEFINE c == a \o b
<1>1. /\ c \in Seq(T) /\ Len(a) \in Nat /\ Len(b) \in Nat
      /\ DOMAIN a = 1..Len(a) /\ DOMAIN b = 1..Len(b) /\ DOMAIN c = 1..(Len(a) + Len(b))
      /\ \A n \in 1..Len(a) : c[n] = a[n]
      /\ \A n \in 1..Len(b) : c[Len(a) + n] = b[n]
  OBVIOUS
<1> HIDE DEF c
<1>2. /\ \A n \in 1..(Len(a) + Len(b)) : n \in 1..Len(a) \/ n - Len(a) \in 1..Len(b)
      /\ \A n \in 1..Len(a) : n \in 1..(Len(a) + Len(b))
      /\ \A n \in 1..Len(b) : Len(a) + n \in 1..(Len(a) + Len(b))
      /\ \A n \in 1..(Len(a) + Len(b)) : Len(a) + (n - Len(a)) = n
  BY <1>1
<1>3. \A n \in DOMAIN c : \/ n \in DOMAIN a /\ c[n] = a[n]
                          \/ n - Len(a) \in DOMAIN b /\ c[n] = b[n - Len(a)]
  BY <1>1, <1>2
<1>4. \A x : Has(c, x) <=> Has(a, x) \/ Has(b, x)
  BY <1>1, <1>2, <1>3 DEF Has
<1>5. ASSUME NEW x, Once(a, x), Once(b, x), ~(Has(a, x) /\ Has(b, x)) PROVE Once(c, x)
  <2> SUFFICES ASSUME NEW m \in DOMAIN c, NEW n \in DOMAIN c, c[m] = x, c[n] = x PROVE m = n
    BY DEF Once
  <2>1. CASE m \in DOMAIN a /\ c[m] = a[m]
    <3>1. ~ \E k \in DOMAIN b : b[k] = x
      BY <1>5, <2>1 DEF Has
    <3>2. n \in DOMAIN a /\ c[n] = a[n]
      BY <1>3, <3>1
    <3> QED
      BY <1>5, <2>1, <3>2 DEF Once
  <2>2. CASE m - Len(a) \in DOMAIN b /\ c[m] = b[m - Len(a)]
    <3>1. ~ \E k \in DOMAIN a : a[k] = x
      BY <1>5, <2>2 DEF Has
    <3>2. n - Len(a) \in DOMAIN b /\ c[n] = b[n - Len(a)]
      BY <1>3, <3>1
    <3>3. m - Len(a) = n - Len(a)
      BY <1>5, <2>2, <3>2 DEF Once
    <3> QED
      BY <1>1, <3>3
  <2> QED
    BY <1>3, <2>1, <2>2
<1> QED
  BY <1>1, <1>4, <1>5 DEF c

LEMMA Tails ==
  ASSUME NEW T, NEW s \in Seq(T), s # <<>>
  PROVE  /\ Tail(s) \in Seq(T) /\ Head(s) \in T /\ Has(s, Head(s))
         /\ \A x : Has(s, x) <=> x = Head(s) \/ Has(Tail(s), x)
         /\ \A x : Once(s, x) => Once(Tail(s), x)
         /\ Once(s, Head(s)) => ~Has(Tail(s), Head(s))
         /\ \A o : HasOp(s, o) <=> Head(s).op = o \/ HasOp(Tail(s), o)
         /\ \A o : OneOp(s, o) => OneOp(Tail(s), o) /\ (Head(s).op = o => ~HasOp(Tail(s), o))
<1> DEFINE t == Tail(s)
<1>1. /\ Len(s) \in Nat /\ Len(s) >= 1 /\ t \in Seq(T) /\ Head(s) \in T /\ Head(s) = s[1]
      /\ DOMAIN s = 1..Len(s) /\ DOMAIN t = 1..(Len(s) - 1)
      /\ \A n \in 1..(Len(s) - 1) : t[n] = s[n + 1]
  OBVIOUS
<1> HIDE DEF t
<1>2. /\ 1 \in 1..Len(s)
      /\ \A n \in 1..(Len(s) - 1) : n + 1 \in 1..Len(s) /\ n + 1 # 1
      /\ \A n \in 1..Len(s) : n # 1 => n - 1 \in 1..(Len(s) - 1) /\ (n - 1) + 1 = n
      /\ \A m, n \in 1..(Len(s) - 1) : m + 1 = n + 1 => m = n
  BY <1>1
<1>3. \A n \in DOMAIN s : n = 1 \/ (n - 1 \in DOMAIN t /\ t[n - 1] = s[n])
  BY <1>1, <1>2
<1>a. \A n \in DOMAIN t : n + 1 \in DOMAIN s /\ s[n + 1] = t[n] /\ n + 1 # 1
  BY <1>1, <1>2
<1>b. 1 \in DOMAIN s /\ s[1] = Head(s)
  BY <1>1, <1>2
<1>4. ASSUME NEW x PROVE Has(s, x) <=> x = Head(s) \/ Has(t, x)
  <2>1. Has(t, x) => Has(s, x)
    BY <1>a DEF Has
  <2>2. x = Head(s) => Has(s, x)
    BY <1>b DEF Has
  <2>3. Has(s, x) => x = Head(s) \/ Has(t, x)
    BY <1>3, <1>b DEF Has
  <2> QED
    BY <2>1, <2>2, <2>3
<1>5. ASSUME NEW x, Once(s, x) PROVE Once(t, x)
  <2> SUFFICES ASSUME NEW m \in DOMAIN t, NEW n \in DOMAIN t, t[m] = x, t[n] = x PROVE m = n
    BY DEF Once
  <2>1. m + 1 = n + 1
    BY <1>a, <1>5 DEF Once
  <2> QED
    BY <1>1, <2>1
<1>6. Once(s, Head(s)) => ~Has(t, Head(s))
  BY <1>a, <1>b DEF Once, Has
<1>7. ASSUME NEW o PROVE HasOp(s, o) <=> Head(s).op = o \/ HasOp(t, o)
  <2>1. HasOp(t, o) => HasOp(s, o)
    BY <1>a DEF HasOp
  <2>2. Head(s).op = o => HasOp(s, o)
    BY <1>b DEF HasOp
  <2>3. HasOp(s, o) => Head(s).op = o \/ HasOp(t, o)
    BY <1>3, <1>b DEF HasOp
  <2> QED
    BY <2>1, <2>2, <2>3
<1>8. ASSUME NEW o, OneOp(s, o) PROVE OneOp(t, o) /\ (Head(s).op = o => ~HasOp(t, o))
  <2>1. ASSUME NEW m \in DOMAIN t, NEW n \in DOMAIN t, t[m].op = o, t[n].op = o PROVE m = n
    <3>1. m + 1 = n + 1
      BY <1>a, <1>8, <2>1 DEF OneOp
    <3> QED
      BY <1>1, <3>1
  <2>2. Head(s).op = o => ~HasOp(t, o)
    BY <1>a, <1>b, <1>8 DEF OneOp, HasOp
  <2> QED
    BY <2>1, <2>2 DEF OneOp
<1> QED
  BY <1>1, <1>4, <1>5, <1>6, <1>7, <1>8, <1>b DEF t, Has

LEMMA AppendingOp ==
  ASSUME NEW T, NEW s \in Seq(T), NEW e \in T
  PROVE  \A o : /\ HasOp(Append(s, e), o) <=> HasOp(s, o) \/ e.op = o
                /\ OneOp(s, o) /\ ~(e.op = o /\ HasOp(s, o)) => OneOp(Append(s, e), o)
<1> DEFINE a == Append(s, e)
<1>1. /\ Len(s) \in Nat /\ DOMAIN s = 1..Len(s) /\ DOMAIN a = 1..(Len(s) + 1)
      /\ a[Len(s) + 1] = e /\ \A n \in 1..Len(s) : a[n] = s[n]
  OBVIOUS
<1> HIDE DEF a
<1>2. /\ \A n \in 1..(Len(s) + 1) : n \in 1..Len(s) \/ n = Len(s) + 1
      /\ Len(s) + 1 \in 1..(Len(s) + 1) /\ \A n \in 1..Len(s) : n \in 1..(Len(s) + 1)
  BY <1>1
<1>3. \A o : HasOp(a, o) <=> HasOp(s, o) \/ e.op = o
  BY <1>1, <1>2 DEF HasOp
<1>4. \A o : OneOp(s, o) /\ ~(e.op = o /\ HasOp(s, o)) => OneOp(a, o)
  BY <1>1, <1>2 DEF HasOp, OneOp
<1> QED
  BY <1>3, <1>4 DEF a

LEMMA Nothing ==
  /\ \A x : ~Has(<<>>, x) /\ Once(<<>>, x)
  /\ \A o : ~HasOp(<<>>, o) /\ OneOp(<<>>, o)
  BY DEF Has, Once, HasOp, OneOp

LEMMA WithoutIt ==
  ASSUME NEW T, NEW s \in Seq(T), NEW x
  PROVE  /\ Inbox!Without(s, x) \in Seq(T \ {x}) /\ Inbox!Without(s, x) \in Seq(T)
         /\ \A y : Has(Inbox!Without(s, x), y) <=> Has(s, y) /\ y # x
         /\ \A y : Once(s, y) => Once(Inbox!Without(s, x), y)
<1> DEFINE S == Inbox!ToSet(s) \ {x}
           w == Only(s, S)
<1>1. Inbox!Without(s, x) = w
  BY DEF Inbox!Without, Inbox!Only, Only
<1> HIDE DEF S
<1>2. w \in Seq(T) /\ (\A y : Has(w, y) <=> Has(s, y) /\ y \in S) /\ (\A y : Once(s, y) => Once(w, y))
  BY OnlyThose
<1>3. \A y : Has(s, y) => (y \in S <=> y # x)
  BY DEF S, Has, Inbox!ToSet
<1>4. w \in Seq(T \ {x})
  <2> HIDE DEF w
  <2>1. \A n \in DOMAIN w : w[n] # x
    BY <1>2, <1>3 DEF Has
  <2> QED
    BY <1>2, <2>1
<1> QED
  BY <1>1, <1>2, <1>3, <1>4

-----------------------------------------------------------------------------
(* Every action keeps every variable's type.                                 *)
Mails == [op : {"enqueue"}, input : QueueInputs] \cup [op : {"remove"}, input : QueueInputs]
           \cup [op : {"pop", "execute"}, input : QueueInputs \cup {Note}]
GiftRecords == [input : Inbox!Inputs, turn : 1..MaxTurns, life : 1..MaxLives]

LEMMA InboxTypes ==
  ASSUME Inbox!TypeOK
  PROVE  /\ mailbox \in Seq(Mails) /\ given \in Seq(GiftRecords)
         /\ queue \in Seq(QueueInputs \cup {Note}) /\ pending \in Seq(QueueInputs \cup {Note})
         /\ btw \in Seq(Inbox!Inputs) /\ rows \in Seq(QueueInputs) /\ arrived \in Seq(QueueInputs)
         /\ turn.id \in 0..MaxTurns /\ life \in 1..MaxLives
         /\ QueueInputs \subseteq Inbox!Inputs /\ SteerInputs \subseteq Inbox!Inputs
         /\ Note \notin Inbox!Inputs /\ QueueInputs \cap SteerInputs = {}
         /\ MaxTurns \in Nat /\ MaxLives \in Nat \ {0}
  BY MCAssumption DEF Inbox!TypeOK, Mails, GiftRecords, Inbox!NoInput, Inbox!Inputs, Inbox!InputAssumption

(* The command that the actor takes.                                         *)
LEMMA Received ==
  ASSUME Inbox!TypeOK, NEW op, Inbox!Receive(op)
  PROVE  /\ mailbox # <<>> /\ mailbox' = Tail(mailbox) /\ Tail(mailbox) \in Seq(Mails)
         /\ Head(mailbox) \in Mails /\ Head(mailbox).op = op /\ Inbox!Cur = Head(mailbox).input
         /\ up /\ turn.pc \in {"idle", "launched"}
<1>1. mailbox # <<>> /\ mailbox' = Tail(mailbox) /\ Head(mailbox).op = op /\ up
      /\ turn.pc \in {"idle", "launched"}
  BY DEF Inbox!Receive, Inbox!Deaf
<1> QED
  BY <1>1, InboxTypes, Tails DEF Inbox!Cur

LEMMA MailTyped ==
  ASSUME Inbox!TypeOK, [Inbox!Next]_(Inbox!vars)
  PROVE  mailbox' \in Seq(Mails)
<1>0. mailbox \in Seq(Mails) /\ <<>> \in Seq(Mails)
  BY InboxTypes
<1>1. ASSUME NEW c \in Mails, Inbox!Send(c) PROVE mailbox' \in Seq(Mails)
  BY <1>0, <1>1 DEF Inbox!Send
<1>2. ASSUME NEW op, Inbox!Receive(op) PROVE mailbox' \in Seq(Mails)
  BY <1>2, Received
<1>3. ASSUME NEW i \in QueueInputs, Inbox!QueueInput(i) \/ Inbox!SendRemove(i) PROVE mailbox' \in Seq(Mails)
  <2>1. [op |-> "enqueue", input |-> i] \in Mails /\ [op |-> "remove", input |-> i] \in Mails
    BY DEF Mails
  <2> QED
    BY <1>1, <1>3, <2>1 DEF Inbox!QueueInput, Inbox!SendRemove
<1>4. ASSUME Inbox!StartTurn \/ Inbox!SendPop PROVE mailbox' \in Seq(Mails)
  <2>1. [op |-> "execute", input |-> Note] \in Mails /\ [op |-> "pop", input |-> Note] \in Mails
    BY DEF Mails
  <2> QED
    BY <1>1, <1>4, <2>1 DEF Inbox!StartTurn, Inbox!SendPop, Inbox!NoInput
<1>5. ASSUME Inbox!Activate PROVE mailbox' \in Seq(Mails)
  <2>1. [op |-> "execute", input |-> chain.input] \in Mails
    BY DEF Mails, Inbox!TypeOK, Inbox!NoInput
  <2> QED
    BY <1>1, <1>5, <2>1 DEF Inbox!Activate
<1>6. ASSUME Inbox!ActorEnqueue \/ Inbox!ActorRemove \/ Inbox!Execute \/ Inbox!ActorPop PROVE mailbox' \in Seq(Mails)
  BY <1>2, <1>6 DEF Inbox!ActorEnqueue, Inbox!ActorRemove, Inbox!Execute, Inbox!ActorPop
<1>7. ASSUME NEW i \in QueueInputs,
             Inbox!WriteRow(i) \/ Inbox!EraseRemoved(i) \/ Inbox!QueueSteer(i) \/ Inbox!MoveToSteers(i)
               \/ Inbox!MoveNothing(i) \/ Inbox!EraseSteered(i)
      PROVE  mailbox' = mailbox
  BY <1>7 DEF Inbox!WriteRow, Inbox!EraseRemoved, Inbox!QueueSteer, Inbox!MoveToSteers, Inbox!MoveNothing, Inbox!EraseSteered, Inbox!memory
<1>8. ASSUME NEW i \in SteerInputs, Inbox!Steer(i) \/ Inbox!PushSteer(i) \/ Inbox!AnswerSteer(i)
      PROVE  mailbox' = mailbox
  BY <1>8 DEF Inbox!Steer, Inbox!PushSteer, Inbox!AnswerSteer, Inbox!memory
<1>9. ASSUME \/ Inbox!TakeSteers \/ Inbox!TakeQueue \/ Inbox!ModelGoesOn \/ Inbox!QueryEnds \/ Inbox!QueryFails \/ Inbox!ClearHandles
             \/ Inbox!ClearSteers \/ Inbox!CloseTurn \/ Inbox!ErasePopped \/ Inbox!Load \/ UNCHANGED Inbox!vars
      PROVE  mailbox' = mailbox
  BY <1>9 DEF Inbox!TakeSteers, Inbox!TakeQueue, Inbox!ModelGoesOn, Inbox!QueryEnds, Inbox!QueryFails, Inbox!ClearHandles, Inbox!ClearSteers,
     Inbox!CloseTurn, Inbox!ErasePopped, Inbox!Load, Inbox!memory, Inbox!vars
<1>10. ASSUME Inbox!Unload PROVE mailbox' = <<>>
  BY <1>10 DEF Inbox!Unload
<1> QED
  BY <1>0, <1>3, <1>4, <1>5, <1>6, <1>7, <1>8, <1>9, <1>10 DEF Inbox!Next, Inbox!Turn

(* What a prompt is given goes behind what it was given before.              *)
LEMMA GiveAdds ==
  ASSUME Inbox!TypeOK, NEW s \in Seq(Inbox!Inputs), Inbox!Give(s), turn.id >= 1
  PROVE  /\ given' \in Seq(GiftRecords)
         /\ \A n \in DOMAIN given : n \in DOMAIN given' /\ given'[n] = given[n]
         /\ \A n \in DOMAIN given' :
              \/ n \in DOMAIN given /\ given'[n] = given[n]
              \/ /\ n \notin DOMAIN given /\ n - Len(given) \in DOMAIN s
                 /\ given'[n].input = s[n - Len(given)]
                 /\ given'[n].turn = turn.id /\ given'[n].life = life
         /\ \A k \in DOMAIN s : \E n \in DOMAIN given' :
              given'[n].input = s[k] /\ given'[n].life = life
<1> DEFINE g == [n \in DOMAIN s |-> [input |-> s[n], turn |-> turn.id, life |-> life]]
<1>1. given' = given \o g
  BY DEF Inbox!Give
<1>2. turn.id \in 1..MaxTurns /\ life \in 1..MaxLives /\ given \in Seq(GiftRecords)
  BY InboxTypes
<1>3. DOMAIN s = 1..Len(s) /\ Len(s) \in Nat /\ \A n \in 1..Len(s) : s[n] \in Inbox!Inputs
  OBVIOUS
<1>4. \A n \in 1..Len(s) : g[n] \in GiftRecords
  BY <1>2, <1>3 DEF GiftRecords
<1>5. g \in Seq(GiftRecords) /\ Len(g) = Len(s)
  <2>1. g \in [1..Len(s) -> GiftRecords]
    BY <1>3, <1>4
  <2> HIDE DEF g
  <2> QED
    BY <1>3, <2>1
<1>6. \A n \in 1..Len(s) : g[n].input = s[n] /\ g[n].turn = turn.id /\ g[n].life = life
  BY <1>3
<1> HIDE DEF g
<1>7. /\ given' \in Seq(GiftRecords) /\ Len(given) \in Nat /\ DOMAIN given = 1..Len(given)
      /\ DOMAIN given' = 1..(Len(given) + Len(s))
      /\ \A n \in 1..Len(given) : given'[n] = given[n]
      /\ \A n \in 1..(Len(given) + Len(s)) :
           n \notin 1..Len(given) => n - Len(given) \in 1..Len(s) /\ given'[n] = g[n - Len(given)]
  <2>1. g \in Seq(GiftRecords) /\ given \in Seq(GiftRecords) /\ Len(g) = Len(s) /\ Len(s) \in Nat
    BY <1>2, <1>3, <1>5
  <2>2. /\ given \o g \in Seq(GiftRecords) /\ Len(given) \in Nat /\ DOMAIN given = 1..Len(given)
        /\ DOMAIN (given \o g) = 1..(Len(given) + Len(g))
        /\ \A n \in 1..Len(given) : (given \o g)[n] = given[n]
        /\ \A n \in 1..(Len(given) + Len(g)) :
             n \notin 1..Len(given) => n - Len(given) \in 1..Len(g) /\ (given \o g)[n] = g[n - Len(given)]
    BY <2>1
  <2> QED
    BY <1>1, <2>1, <2>2
<1>8. ASSUME NEW k \in DOMAIN s
      PROVE  \E n \in DOMAIN given' : given'[n].input = s[k] /\ given'[n].life = life
  <2>1. /\ k \in 1..Len(s) /\ Len(given) + k \in 1..(Len(given) + Len(s))
        /\ Len(given) + k \notin 1..Len(given) /\ (Len(given) + k) - Len(given) = k
    BY <1>3, <1>7
  <2>2. given'[Len(given) + k] = g[k]
    BY <1>7, <2>1
  <2> QED
    BY <1>6, <1>7, <2>1, <2>2
<1>9. \A n \in DOMAIN given : n \in DOMAIN given' /\ given'[n] = given[n]
  BY <1>3, <1>7
<1>10. ASSUME NEW n \in DOMAIN given', ~(n \in DOMAIN given /\ given'[n] = given[n])
       PROVE  /\ n \notin DOMAIN given /\ n - Len(given) \in DOMAIN s
              /\ given'[n].input = s[n - Len(given)]
              /\ given'[n].turn = turn.id /\ given'[n].life = life
  <2>1. n \in 1..(Len(given) + Len(s)) /\ n \notin 1..Len(given)
    BY <1>7, <1>10
  <2>2. n - Len(given) \in 1..Len(s) /\ given'[n] = g[n - Len(given)]
    BY <1>7, <2>1
  <2> QED
    BY <1>3, <1>6, <1>7, <2>1, <2>2
<1> QED
  BY <1>7, <1>8, <1>9, <1>10

(* What the loop takes from its inboxes: inputs, never the note.             *)
Taken(s) == Inbox!Without(s, Note)
LEMMA TakenIs ==
  ASSUME Inbox!TypeOK, NEW s \in Seq(QueueInputs \cup {Note})
  PROVE  /\ Taken(s) \in Seq(Inbox!Inputs)
         /\ \A x : Has(Taken(s), x) => Has(s, x) /\ x \in QueueInputs
         /\ \A x : Once(s, x) => Once(Taken(s), x)
<1>1. Taken(s) \in Seq((QueueInputs \cup {Note}) \ {Note})
  BY WithoutIt DEF Taken
<1>2. Taken(s) \in Seq(Inbox!Inputs)
  BY <1>1, InboxTypes
<1>3. \A x : Has(Taken(s), x) => Has(s, x) /\ x \in QueueInputs
  <2>1. \A x : Has(Taken(s), x) => x \in (QueueInputs \cup {Note}) \ {Note}
    BY <1>1 DEF Has
  <2> QED
    BY <2>1, WithoutIt DEF Taken
<1> QED
  BY <1>2, <1>3, WithoutIt DEF Taken

LEMMA SequencesTyped ==
  ASSUME Inbox!TypeOK, HandlersKnow, OneAtATime, [Inbox!Next]_(Inbox!vars)
  PROVE  /\ queue' \in Seq(QueueInputs \cup {Note}) /\ pending' \in Seq(QueueInputs \cup {Note})
         /\ btw' \in Seq(Inbox!Inputs) /\ rows' \in Seq(QueueInputs) /\ arrived' \in Seq(QueueInputs)
         /\ given' \in Seq(GiftRecords)
<1> DEFINE Goal == /\ queue' \in Seq(QueueInputs \cup {Note}) /\ pending' \in Seq(QueueInputs \cup {Note})
                   /\ btw' \in Seq(Inbox!Inputs) /\ rows' \in Seq(QueueInputs) /\ arrived' \in Seq(QueueInputs)
                   /\ given' \in Seq(GiftRecords)
<1>0. /\ queue \in Seq(QueueInputs \cup {Note}) /\ pending \in Seq(QueueInputs \cup {Note})
      /\ btw \in Seq(Inbox!Inputs) /\ rows \in Seq(QueueInputs) /\ arrived \in Seq(QueueInputs)
      /\ given \in Seq(GiftRecords) /\ QueueInputs \subseteq Inbox!Inputs /\ SteerInputs \subseteq Inbox!Inputs
      /\ \A T : <<>> \in Seq(T)
  BY InboxTypes
<1>1. ASSUME NEW i \in QueueInputs,
             Inbox!QueueInput(i) \/ Inbox!SendRemove(i) \/ Inbox!QueueSteer(i) \/ Inbox!MoveNothing(i)
      PROVE  Goal
  BY <1>0, <1>1 DEF Inbox!QueueInput, Inbox!SendRemove, Inbox!QueueSteer, Inbox!MoveNothing, Inbox!memory, Inbox!turnState, Inbox!history
<1>2. ASSUME NEW i \in QueueInputs, Inbox!WriteRow(i) PROVE Goal
  BY <1>0, <1>2 DEF Inbox!WriteRow, Inbox!memory, Inbox!turnState, Inbox!history
<1>3. ASSUME NEW i \in QueueInputs, Inbox!EraseRemoved(i) \/ Inbox!EraseSteered(i) PROVE Goal
  <2>1. rows' = Inbox!Without(rows, i)
    BY <1>3 DEF Inbox!EraseRemoved, Inbox!EraseSteered
  <2>2. rows' \in Seq(QueueInputs)
    BY <1>0, <2>1, WithoutIt
  <2> QED
    BY <1>0, <1>3, <2>2 DEF Inbox!EraseRemoved, Inbox!EraseSteered, Inbox!memory, Inbox!turnState, Inbox!history
<1>4. ASSUME NEW i \in QueueInputs, Inbox!MoveToSteers(i) PROVE Goal
  <2>1. queue' = Inbox!Without(queue, i) /\ btw' = Append(btw, i)
    BY <1>4 DEF Inbox!MoveToSteers
  <2>2. queue' \in Seq(QueueInputs \cup {Note})
    BY <1>0, <2>1, WithoutIt
  <2>3. btw' \in Seq(Inbox!Inputs)
    BY <1>0, <2>1
  <2> QED
    BY <1>0, <1>4, <2>2, <2>3 DEF Inbox!MoveToSteers, Inbox!turnState, Inbox!history
<1>5. ASSUME NEW i \in SteerInputs, Inbox!Steer(i) \/ Inbox!PushSteer(i) \/ Inbox!AnswerSteer(i) PROVE Goal
  <2>1. Append(btw, i) \in Seq(Inbox!Inputs)
    BY <1>0
  <2>2. CASE Inbox!Steer(i) \/ Inbox!AnswerSteer(i)
    BY <1>0, <2>2 DEF Inbox!Steer, Inbox!AnswerSteer, Inbox!memory, Inbox!turnState, Inbox!history
  <2>3. CASE Inbox!PushSteer(i)
    BY <1>0, <2>1, <2>3 DEF Inbox!PushSteer, Inbox!turnState, Inbox!history
  <2> QED
    BY <1>5, <2>2, <2>3
<1>6. ASSUME Inbox!ActorEnqueue PROVE Goal
  <2>1. Inbox!Cur \in QueueInputs
    <3>1. Head(mailbox) \in Mails /\ Head(mailbox).op = "enqueue" /\ Inbox!Cur = Head(mailbox).input
      BY <1>6, Received DEF Inbox!ActorEnqueue
    <3> QED
      BY <3>1 DEF Mails
  <2> QED
    BY <1>0, <1>6, <2>1 DEF Inbox!ActorEnqueue, Inbox!turnState
<1>7. ASSUME Inbox!ActorRemove PROVE Goal
  <2>1. queue' = Inbox!Without(queue, Inbox!Cur)
    BY <1>7 DEF Inbox!ActorRemove
  <2>2. queue' \in Seq(QueueInputs \cup {Note})
    BY <1>0, <2>1, WithoutIt
  <2> QED
    BY <1>0, <1>7, <2>2 DEF Inbox!ActorRemove, Inbox!turnState, Inbox!history
<1>8. ASSUME Inbox!Execute PROVE Goal
  <2>1. /\ Head(mailbox) \in Mails /\ Head(mailbox).op = "execute" /\ Inbox!Cur = Head(mailbox).input
        /\ Has(mailbox, Head(mailbox))
    BY <1>8, Received, InboxTypes, Tails DEF Inbox!Execute
  <2>2. turn.pc = "launched"
    BY <2>1 DEF OneAtATime, HasOp, Has
  <2>3. turn.id >= 1
    BY <2>2 DEF HandlersKnow
  <2>4. Inbox!Cur \in QueueInputs \cup {Note}
    BY <2>1 DEF Mails
  <2>5. given' \in Seq(GiftRecords)
    <3>1. CASE Inbox!Cur = Note
      BY <1>0, <1>8, <3>1 DEF Inbox!Execute, Inbox!NoInput
    <3>2. CASE Inbox!Cur # Note
      <4>1. <<Inbox!Cur>> \in Seq(Inbox!Inputs)
        BY <1>0, <2>4, <3>2
      <4>2. Inbox!Give(<<Inbox!Cur>>)
        BY <1>8, <3>2 DEF Inbox!Execute, Inbox!NoInput
      <4> QED
        BY <2>3, <4>1, <4>2, GiveAdds
    <3> QED
      BY <3>1, <3>2
  <2> QED
    BY <1>0, <1>8, <2>5 DEF Inbox!Execute
<1>9. ASSUME Inbox!TakeSteers PROVE Goal
  <2>1. Inbox!Give(btw \o Taken(pending)) /\ turn.id >= 1
    BY <1>9 DEF Inbox!TakeSteers, Taken, HandlersKnow
  <2>2. btw \o Taken(pending) \in Seq(Inbox!Inputs)
    BY <1>0, TakenIs
  <2>3. given' \in Seq(GiftRecords)
    BY <2>1, <2>2, GiveAdds
  <2> QED
    BY <1>0, <1>9, <2>3 DEF Inbox!TakeSteers
<1>10. ASSUME Inbox!TakeQueue PROVE Goal
  <2>1. Inbox!Give(Taken(queue)) /\ turn.id >= 1
    BY <1>10 DEF Inbox!TakeQueue, Taken, HandlersKnow
  <2>2. given' \in Seq(GiftRecords)
    BY <1>0, <2>1, TakenIs, GiveAdds
  <2>3. <<Note>> \in Seq(QueueInputs \cup {Note})
    OBVIOUS
  <2> QED
    BY <1>0, <1>10, <2>2, <2>3 DEF Inbox!TakeQueue
<1>11. ASSUME Inbox!QueryEnds PROVE Goal
  <2>1. pending \o queue \in Seq(QueueInputs \cup {Note})
    BY <1>0
  <2> QED
    BY <1>0, <1>11, <2>1 DEF Inbox!QueryEnds, Inbox!history
<1>12. ASSUME \/ Inbox!ModelGoesOn \/ Inbox!QueryFails \/ Inbox!ClearHandles \/ Inbox!ClearSteers \/ Inbox!CloseTurn
              \/ Inbox!StartTurn \/ Inbox!SendPop \/ Inbox!Activate \/ UNCHANGED Inbox!vars
       PROVE  Goal
  BY <1>0, <1>12 DEF Inbox!ModelGoesOn, Inbox!QueryFails, Inbox!ClearHandles, Inbox!ClearSteers, Inbox!CloseTurn,
     Inbox!StartTurn, Inbox!SendPop, Inbox!Activate, Inbox!vars, Inbox!memory, Inbox!turnState, Inbox!history
<1>13. ASSUME Inbox!ActorPop PROVE Goal
  <2>1. queue' \in Seq(QueueInputs \cup {Note})
    BY <1>0, <1>13, Tails DEF Inbox!ActorPop
  <2> QED
    BY <1>0, <1>13, <2>1 DEF Inbox!ActorPop, Inbox!turnState, Inbox!history
<1>14. ASSUME Inbox!ErasePopped PROVE Goal
  <2>1. rows' \in Seq(QueueInputs)
    BY <1>0, <1>14, WithoutIt DEF Inbox!ErasePopped
  <2> QED
    BY <1>0, <1>14, <2>1 DEF Inbox!ErasePopped, Inbox!memory, Inbox!turnState, Inbox!history
<1>15. ASSUME Inbox!Unload \/ Inbox!Load PROVE Goal
  <2>1. \A T \in {QueueInputs, QueueInputs \cup {Note}, Inbox!Inputs} : <<>> \in Seq(T)
    OBVIOUS
  <2>2. rows \in Seq(QueueInputs \cup {Note})
    BY <1>0
  <2> QED
    BY <1>0, <1>15, <2>1, <2>2 DEF Inbox!Unload, Inbox!Load, Inbox!turnState
<1> HIDE DEF Goal
<1>16. Goal
  BY <1>1, <1>2, <1>3, <1>4, <1>5, <1>6, <1>7, <1>8, <1>9, <1>10, <1>11, <1>12, <1>13, <1>14, <1>15
  DEF Inbox!Next, Inbox!Turn
<1> QED
  BY <1>16 DEF Goal

(* The rest of TypeOK: the turn, the chain, the handlers and the server.     *)
LEMMA TypeStep ==
  ASSUME Inbox!TypeOK, AtRest, HandlersKnow, OneAtATime, [Inbox!Next]_(Inbox!vars)
  PROVE  Inbox!TypeOK'
<1> DEFINE Turns == [id : 0..MaxTurns, own : QueueInputs \cup {Note}, pc : Inbox!TurnPcs]
           Chains == [pc : {"off", "pop", "popping", "popped", "activate"}, tries : 0..2,
                      input : QueueInputs \cup {Note}]
           Handler == [pc : {"new", "row", "push", "answer", "done"}, turn : 0..MaxTurns,
                       life : 0..MaxLives, reply : {"None", "Queued", "Steered"}, intime : BOOLEAN]
           Handlers == [Inbox!Inputs -> Handler]
           Request1 == [pc : {"new", "removing", "erase", "move", "unrow", "done"},
                        reply : {"None", "Removed", "NotRemoved", "Steered", "NotQueued"}]
           Requests == [QueueInputs -> Request1]
           ChainOK == chain.input \in QueueInputs <=> chain.pc \in {"popped", "activate"}
           Goal == /\ turn' \in Turns /\ chain' \in Chains /\ ChainOK' /\ h' \in Handlers /\ requests' \in Requests
                   /\ begun' \in BOOLEAN /\ up' \in BOOLEAN /\ life' \in 1..MaxLives
<1>0. /\ turn \in Turns /\ chain \in Chains /\ ChainOK /\ h \in Handlers /\ requests \in Requests
      /\ begun \in BOOLEAN /\ up \in BOOLEAN /\ life \in 1..MaxLives /\ life \in 0..MaxLives
      /\ QueueInputs \subseteq Inbox!Inputs /\ SteerInputs \subseteq Inbox!Inputs /\ Note \notin QueueInputs
      /\ MaxTurns \in Nat /\ MaxLives \in Nat \ {0}
  <2>1. Note \notin QueueInputs
    BY InboxTypes DEF Inbox!Inputs
  <2>2. /\ turn \in Turns /\ chain \in Chains /\ ChainOK /\ h \in Handlers /\ requests \in Requests
        /\ begun \in BOOLEAN /\ up \in BOOLEAN
    BY DEF Inbox!TypeOK, Inbox!NoInput
  <2> HIDE DEF Turns, Chains, ChainOK, Handlers, Requests
  <2> QED
    BY <2>1, <2>2, InboxTypes
<1>h. ASSUME NEW i \in Inbox!Inputs, NEW r \in Handler, h' = [h EXCEPT ![i] = r]
      PROVE  h' \in Handlers
  <2> HIDE DEF Handler
  <2> QED
    BY <1>0, <1>h
<1>r. ASSUME NEW i \in QueueInputs, NEW r \in Request1, requests' = [requests EXCEPT ![i] = r]
      PROVE  requests' \in Requests
  <2> HIDE DEF Request1
  <2> QED
    BY <1>0, <1>r
<1>1. ASSUME NEW i \in QueueInputs, Inbox!QueueInput(i) \/ Inbox!WriteRow(i) PROVE Goal
  <2>0. h[i] \in Handler /\ i \in Inbox!Inputs
    BY <1>0
  <2>1. \/ h' = [h EXCEPT ![i] = [h[i] EXCEPT !.pc = "row", !.life = life]]
        \/ h' = [h EXCEPT ![i] = [h[i] EXCEPT !.pc = "done", !.reply = "Queued"]]
    BY <1>1 DEF Inbox!QueueInput, Inbox!WriteRow
  <2>2. /\ [h[i] EXCEPT !.pc = "row", !.life = life] \in Handler
        /\ [h[i] EXCEPT !.pc = "done", !.reply = "Queued"] \in Handler
    BY <1>0, <2>0
  <2>3. h' \in Handlers
    BY <1>h, <2>0, <2>1, <2>2
  <2> HIDE DEF Handlers, Handler
  <2> QED
    BY <1>0, <1>1, <2>3 DEF Inbox!QueueInput, Inbox!WriteRow, Inbox!memory, Inbox!turnState
<1>2. ASSUME NEW i \in QueueInputs, Inbox!SendRemove(i) \/ Inbox!EraseRemoved(i) \/ Inbox!QueueSteer(i) PROVE Goal
  BY <1>0, <1>2 DEF Inbox!SendRemove, Inbox!EraseRemoved, Inbox!QueueSteer, Inbox!memory, Inbox!turnState
<1>3. ASSUME NEW i \in QueueInputs, Inbox!MoveToSteers(i) \/ Inbox!MoveNothing(i) \/ Inbox!EraseSteered(i) PROVE Goal
  <2>0. requests[i] \in Request1
    BY <1>0
  <2>1. \E r \in Request1 : requests' = [requests EXCEPT ![i] = r]
    <3>1. \/ requests' = [requests EXCEPT ![i] = [requests[i] EXCEPT !.pc = "unrow"]]
          \/ requests' = [requests EXCEPT ![i] = [requests[i] EXCEPT !.pc = "done", !.reply = "NotQueued"]]
          \/ requests' = [requests EXCEPT ![i] = [requests[i] EXCEPT !.pc = "done", !.reply = "Steered"]]
      BY <1>3 DEF Inbox!MoveToSteers, Inbox!MoveNothing, Inbox!EraseSteered
    <3>2. /\ [requests[i] EXCEPT !.pc = "unrow"] \in Request1
          /\ [requests[i] EXCEPT !.pc = "done", !.reply = "NotQueued"] \in Request1
          /\ [requests[i] EXCEPT !.pc = "done", !.reply = "Steered"] \in Request1
      BY <2>0
    <3> HIDE DEF Request1
    <3> QED
      BY <3>1, <3>2
  <2>2. requests' \in Requests
    BY <1>r, <2>1
  <2> HIDE DEF Requests, Request1
  <2> QED
    BY <1>0, <1>3, <2>2 DEF Inbox!MoveToSteers, Inbox!MoveNothing, Inbox!EraseSteered, Inbox!memory, Inbox!turnState
<1>4. ASSUME NEW i \in SteerInputs, Inbox!Steer(i) \/ Inbox!PushSteer(i) PROVE Goal
  <2>0. h[i] \in Handler /\ i \in Inbox!Inputs /\ turn.id \in 0..MaxTurns
    BY <1>0
  <2>1. \/ h' = [h EXCEPT ![i] = [h[i] EXCEPT !.pc = "push", !.turn = turn.id, !.life = life]]
        \/ h' = [h EXCEPT ![i] = [h[i] EXCEPT !.pc = "answer"]]
    BY <1>4 DEF Inbox!Steer, Inbox!PushSteer
  <2>2. /\ [h[i] EXCEPT !.pc = "push", !.turn = turn.id, !.life = life] \in Handler
        /\ [h[i] EXCEPT !.pc = "answer"] \in Handler
    BY <1>0, <2>0
  <2>3. h' \in Handlers
    BY <1>h, <2>0, <2>1, <2>2
  <2> HIDE DEF Handlers, Handler
  <2> QED
    BY <1>0, <1>4, <2>3 DEF Inbox!Steer, Inbox!PushSteer, Inbox!memory, Inbox!turnState
<1>5. ASSUME NEW i \in SteerInputs, Inbox!AnswerSteer(i) PROVE Goal
  <2>1. \E b \in BOOLEAN : h' = [h EXCEPT ![i].pc = "done", ![i].reply = "Steered", ![i].intime = b]
    BY <1>5 DEF Inbox!AnswerSteer
  <2> QED
    BY <1>0, <1>5, <2>1 DEF Inbox!AnswerSteer, Inbox!memory, Inbox!turnState
<1>6. ASSUME Inbox!ActorEnqueue PROVE Goal
  BY <1>0, <1>6 DEF Inbox!ActorEnqueue, Inbox!turnState, Inbox!tasks
<1>7. ASSUME Inbox!ActorRemove PROVE Goal
  <2>0. Inbox!Cur \in QueueInputs
    <3>1. Head(mailbox) \in Mails /\ Head(mailbox).op = "remove" /\ Inbox!Cur = Head(mailbox).input
      BY <1>7, Received DEF Inbox!ActorRemove
    <3> QED
      BY <3>1 DEF Mails
  <2>1. \/ requests' = [requests EXCEPT ![Inbox!Cur] = [requests[Inbox!Cur] EXCEPT !.pc = "erase"]]
        \/ requests' = [requests EXCEPT ![Inbox!Cur] = [requests[Inbox!Cur] EXCEPT !.pc = "done", !.reply = "NotRemoved"]]
    BY <1>7 DEF Inbox!ActorRemove
  <2>2. requests[Inbox!Cur] \in Request1
    BY <1>0, <2>0
  <2>3. /\ [requests[Inbox!Cur] EXCEPT !.pc = "erase"] \in Request1
        /\ [requests[Inbox!Cur] EXCEPT !.pc = "done", !.reply = "NotRemoved"] \in Request1
    BY <2>2
  <2>4. requests' \in Requests
    BY <1>r, <2>0, <2>1, <2>3
  <2> HIDE DEF Requests, Request1
  <2> QED
    BY <1>0, <1>7, <2>4 DEF Inbox!ActorRemove, Inbox!turnState
<1>8. ASSUME Inbox!Execute PROVE Goal
  BY <1>0, <1>8 DEF Inbox!Execute, Inbox!TurnPcs
<1>9. ASSUME Inbox!TakeSteers \/ Inbox!TakeQueue \/ Inbox!ModelGoesOn \/ Inbox!QueryEnds \/ Inbox!QueryFails \/ Inbox!ClearHandles \/ Inbox!ClearSteers
      PROVE  Goal
  BY <1>0, <1>9 DEF Inbox!TakeSteers, Inbox!TakeQueue, Inbox!ModelGoesOn, Inbox!QueryEnds, Inbox!QueryFails, Inbox!ClearHandles,
     Inbox!ClearSteers, Inbox!TurnPcs, Inbox!memory, Inbox!turnState
<1>10. ASSUME Inbox!CloseTurn PROVE Goal
  <2>1. chain' = [pc |-> "pop", tries |-> 2, input |-> Note] /\ turn' = [turn EXCEPT !.pc = "idle"]
    BY <1>10 DEF Inbox!CloseTurn, Inbox!NoInput
  <2> QED
    BY <1>0, <1>10, <2>1 DEF Inbox!CloseTurn, Inbox!TurnPcs, Inbox!memory, Inbox!turnState
<1>11. ASSUME Inbox!StartTurn PROVE Goal
  <2>1. turn' = [id |-> turn.id + 1, own |-> Note, pc |-> "launched"] /\ turn.id < MaxTurns
    BY <1>11 DEF Inbox!StartTurn, Inbox!NoInput
  <2>2. turn.id + 1 \in 0..MaxTurns
    BY <1>0, <2>1
  <2> QED
    BY <1>0, <1>11, <2>1, <2>2 DEF Inbox!StartTurn, Inbox!TurnPcs, Inbox!turnState
<1>12. ASSUME Inbox!SendPop PROVE Goal
  BY <1>0, <1>12 DEF Inbox!SendPop, Inbox!turnState
<1>13. ASSUME Inbox!ActorPop PROVE Goal
  <2>1. chain.pc = "popping"
    <3>1. mailbox \in Seq(Mails) /\ mailbox # <<>> /\ Head(mailbox).op = "pop"
      BY <1>13, Received, InboxTypes DEF Inbox!ActorPop
    <3>2. HasOp(mailbox, "pop")
      BY <3>1, Tails
    <3> QED
      BY <3>2 DEF OneAtATime
  <2>2. \/ /\ queue # <<>> /\ Head(queue) # Note
           /\ chain' = [chain EXCEPT !.pc = "popped", !.input = Head(queue)]
        \/ chain' = [chain EXCEPT !.pc = "pop", !.tries = 1]
        \/ chain' = [chain EXCEPT !.pc = "off"]
    BY <1>13 DEF Inbox!ActorPop
  <2>3. queue # <<>> => Head(queue) \in QueueInputs \cup {Note}
    BY InboxTypes, Tails
  <2>4. chain' \in Chains /\ ChainOK'
    <3>0. chain.input = Note
      BY <1>0, <2>1
    <3>1. CASE queue # <<>> /\ Head(queue) # Note /\ chain' = [chain EXCEPT !.pc = "popped", !.input = Head(queue)]
      <4>1. Head(queue) \in QueueInputs
        BY <2>3, <3>1
      <4>2. chain'.input = Head(queue) /\ chain'.pc = "popped" /\ chain' \in Chains
        BY <1>0, <3>1, <4>1
      <4> QED
        BY <4>1, <4>2
    <3>2. CASE chain' = [chain EXCEPT !.pc = "pop", !.tries = 1]
      <4>1. chain'.input = Note /\ chain'.pc = "pop"
        BY <1>0, <3>0, <3>2
      <4>2. chain' = [pc |-> "pop", tries |-> 1, input |-> chain.input]
        BY <1>0, <3>2
      <4>3. 1 \in 0..2 /\ chain.input \in QueueInputs \cup {Note}
        BY <1>0
      <4>4. chain' \in Chains
        BY <4>2, <4>3
      <4> QED
        BY <1>0, <4>1, <4>4
    <3>3. CASE chain' = [chain EXCEPT !.pc = "off"]
      BY <1>0, <3>0, <3>3
    <3> QED
      BY <2>2, <3>1, <3>2, <3>3
  <2> QED
    BY <1>0, <1>13, <2>4 DEF Inbox!ActorPop, Inbox!turnState
<1>14. ASSUME Inbox!ErasePopped PROVE Goal
  BY <1>0, <1>14 DEF Inbox!ErasePopped, Inbox!memory, Inbox!turnState
<1>15. ASSUME Inbox!Activate PROVE Goal
  <2>1. /\ turn' = [id |-> turn.id + 1, own |-> chain.input, pc |-> "launched"] /\ turn.id < MaxTurns
        /\ chain' = [chain EXCEPT !.pc = "off", !.input = Note]
    BY <1>15 DEF Inbox!Activate, Inbox!NoInput
  <2>2. turn.id + 1 \in 0..MaxTurns
    BY <1>0, <2>1
  <2>3. turn' \in Turns
    BY <1>0, <2>1, <2>2 DEF Inbox!TurnPcs
  <2>4. chain' \in Chains /\ ChainOK'
    BY <1>0, <2>1
  <2> HIDE DEF Turns, Chains, ChainOK, Handlers, Requests
  <2> QED
    BY <1>0, <1>15, <2>3, <2>4 DEF Inbox!Activate, Inbox!turnState
<1>16. ASSUME Inbox!Unload PROVE Goal
  <2>1. /\ turn' = [id |-> turn.id, own |-> Note, pc |-> "idle"]
        /\ chain' = [pc |-> "off", tries |-> 0, input |-> Note]
        /\ h' = [i \in Inbox!Inputs |-> [h[i] EXCEPT !.pc = IF @ = "new" THEN @ ELSE "done"]]
        /\ requests' = [i \in QueueInputs |-> [requests[i] EXCEPT !.pc = IF @ = "new" THEN @ ELSE "done"]]
    BY <1>16 DEF Inbox!Unload, Inbox!NewTurn, Inbox!NoChain, Inbox!NoInput
  <2>2. h' \in Handlers
    <3>1. ASSUME NEW i \in Inbox!Inputs
          PROVE  [h[i] EXCEPT !.pc = IF @ = "new" THEN @ ELSE "done"] \in Handler
      BY <1>0
    <3> QED
      BY <2>1, <3>1
  <2>3. requests' \in Requests
    BY <1>0, <2>1
  <2>4. turn' \in Turns /\ chain' \in Chains /\ ChainOK'
    BY <1>0, <2>1 DEF Inbox!TurnPcs
  <2> HIDE DEF Turns, Chains, ChainOK, Handlers, Requests
  <2> QED
    BY <1>0, <1>16, <2>2, <2>3, <2>4 DEF Inbox!Unload
<1>17. ASSUME Inbox!Load PROVE Goal
  <2>1. life + 1 \in 1..MaxLives
    BY <1>0, <1>17 DEF Inbox!Load, AtRest
  <2> QED
    BY <1>0, <1>17, <2>1 DEF Inbox!Load, Inbox!turnState, Inbox!tasks
<1>18. ASSUME UNCHANGED Inbox!vars PROVE Goal
  BY <1>0, <1>18 DEF Inbox!vars, Inbox!memory, Inbox!turnState, Inbox!tasks
<1> HIDE DEF Goal
<1>19. Goal
  BY <1>1, <1>2, <1>3, <1>4, <1>5, <1>6, <1>7, <1>8, <1>9, <1>10, <1>11, <1>12, <1>13, <1>14, <1>15,
     <1>16, <1>17, <1>18 DEF Inbox!Next, Inbox!Turn
<1> QED
  BY <1>19, MailTyped, SequencesTyped DEF Inbox!TypeOK, Goal, Mails, GiftRecords, Inbox!NoInput

-----------------------------------------------------------------------------
(* The server, the handlers and the commands.                                *)
LEMMA OnlyLoads ==
  ASSUME AtRest, ~up, Inbox!Next
  PROVE  Inbox!Load
<1> USE DEF AtRest
<1>1. ASSUME NEW i \in QueueInputs,
             \/ Inbox!QueueInput(i) \/ Inbox!WriteRow(i) \/ Inbox!SendRemove(i) \/ Inbox!EraseRemoved(i)
             \/ Inbox!QueueSteer(i) \/ Inbox!MoveToSteers(i) \/ Inbox!MoveNothing(i) \/ Inbox!EraseSteered(i)
      PROVE  FALSE
  <2>1. i \in Inbox!Inputs
    BY DEF Inbox!Inputs
  <2> QED
    BY <1>1, <2>1 DEF Inbox!QueueInput, Inbox!WriteRow, Inbox!SendRemove, Inbox!EraseRemoved, Inbox!QueueSteer, Inbox!MoveToSteers,
       Inbox!MoveNothing, Inbox!EraseSteered, Inbox!SnapshotShowsTurn
<1>2. ASSUME NEW i \in SteerInputs, Inbox!Steer(i) \/ Inbox!PushSteer(i) \/ Inbox!AnswerSteer(i) PROVE FALSE
  <2>1. i \in Inbox!Inputs
    BY DEF Inbox!Inputs
  <2> QED
    BY <1>2, <2>1 DEF Inbox!Steer, Inbox!PushSteer, Inbox!AnswerSteer, Inbox!SnapshotShowsTurn
<1>3. ~(Inbox!StartTurn \/ Inbox!Turn \/ Inbox!ActorEnqueue \/ Inbox!ActorRemove \/ Inbox!SendPop \/ Inbox!ActorPop \/ Inbox!ErasePopped
          \/ Inbox!Activate \/ Inbox!Unload)
  BY DEF Inbox!StartTurn, Inbox!Turn, Inbox!Execute, Inbox!TakeSteers, Inbox!TakeQueue, Inbox!ModelGoesOn, Inbox!QueryEnds, Inbox!QueryFails,
     Inbox!ClearHandles, Inbox!ClearSteers, Inbox!CloseTurn, Inbox!ActorEnqueue, Inbox!ActorRemove, Inbox!SendPop, Inbox!ActorPop,
     Inbox!ErasePopped, Inbox!Activate, Inbox!Unload, Inbox!Receive
<1> QED
  BY <1>1, <1>2, <1>3 DEF Inbox!Next

(* What the end of a life leaves.                                            *)
LEMMA UnloadLeaves ==
  ASSUME Inbox!TypeOK, Inbox!Unload
  PROVE  /\ \A i \in Inbox!Inputs :
              /\ h'[i].pc = IF h[i].pc = "new" THEN "new" ELSE "done"
              /\ h'[i].turn = h[i].turn /\ h'[i].life = h[i].life /\ h'[i].reply = h[i].reply
              /\ h'[i].intime = h[i].intime
         /\ \A i \in QueueInputs :
              requests'[i].pc = IF requests[i].pc = "new" THEN "new" ELSE "done"
         /\ turn'.id = turn.id /\ turn'.pc = "idle" /\ chain'.pc = "off" /\ chain'.input = Note
         /\ mailbox' = <<>> /\ queue' = <<>> /\ btw' = <<>> /\ pending' = <<>>
         /\ ~up' /\ up /\ life < MaxLives /\ life' = life /\ rows' = rows /\ given' = given
<1>1. /\ h' = [i \in Inbox!Inputs |-> [h[i] EXCEPT !.pc = IF @ = "new" THEN @ ELSE "done"]]
      /\ requests' = [i \in QueueInputs |-> [requests[i] EXCEPT !.pc = IF @ = "new" THEN @ ELSE "done"]]
  BY DEF Inbox!Unload
<1>2. /\ \A i \in Inbox!Inputs : h[i] = [pc |-> h[i].pc, turn |-> h[i].turn, life |-> h[i].life,
                                   reply |-> h[i].reply, intime |-> h[i].intime]
      /\ \A i \in QueueInputs : requests[i] = [pc |-> requests[i].pc, reply |-> requests[i].reply]
  BY DEF Inbox!TypeOK
<1>3. ASSUME NEW i \in Inbox!Inputs
      PROVE  /\ h'[i].pc = IF h[i].pc = "new" THEN "new" ELSE "done"
             /\ h'[i].turn = h[i].turn /\ h'[i].life = h[i].life /\ h'[i].reply = h[i].reply
             /\ h'[i].intime = h[i].intime
  <2>1. h'[i] = [h[i] EXCEPT !.pc = IF @ = "new" THEN @ ELSE "done"]
    BY <1>1
  <2> QED
    BY <1>2, <2>1
<1>4. ASSUME NEW i \in QueueInputs
      PROVE  requests'[i].pc = IF requests[i].pc = "new" THEN "new" ELSE "done"
  <2>1. requests'[i] = [requests[i] EXCEPT !.pc = IF @ = "new" THEN @ ELSE "done"]
    BY <1>1
  <2> QED
    BY <1>2, <2>1
<1> QED
  BY <1>3, <1>4 DEF Inbox!Unload, Inbox!NewTurn, Inbox!NoChain, Inbox!NoInput

LEMMA RestStep ==
  ASSUME Inbox!TypeOK, AtRest, [Inbox!Next]_(Inbox!vars)
  PROVE  AtRest'
<1>1. CASE Inbox!Unload
  BY <1>1, UnloadLeaves DEF AtRest
<1>2. CASE Inbox!Load
  BY <1>2 DEF Inbox!Load, AtRest
<1>3. CASE Inbox!Next /\ ~Inbox!Unload /\ ~Inbox!Load
  <2>1. up
    BY <1>3, OnlyLoads
  <2>2. up' = up
    <3>1. ASSUME NEW i \in QueueInputs,
                 \/ Inbox!QueueInput(i) \/ Inbox!WriteRow(i) \/ Inbox!SendRemove(i) \/ Inbox!EraseRemoved(i)
                 \/ Inbox!QueueSteer(i) \/ Inbox!MoveToSteers(i) \/ Inbox!MoveNothing(i) \/ Inbox!EraseSteered(i)
          PROVE  up' = up
      BY <3>1 DEF Inbox!QueueInput, Inbox!WriteRow, Inbox!SendRemove, Inbox!EraseRemoved, Inbox!QueueSteer, Inbox!MoveToSteers,
         Inbox!MoveNothing, Inbox!EraseSteered
    <3>2. ASSUME NEW i \in SteerInputs, Inbox!Steer(i) \/ Inbox!PushSteer(i) \/ Inbox!AnswerSteer(i) PROVE up' = up
      BY <3>2 DEF Inbox!Steer, Inbox!PushSteer, Inbox!AnswerSteer
    <3>3. ASSUME Inbox!StartTurn \/ Inbox!Turn \/ Inbox!ActorEnqueue \/ Inbox!ActorRemove \/ Inbox!SendPop \/ Inbox!ActorPop \/ Inbox!ErasePopped
                   \/ Inbox!Activate
          PROVE  up' = up
      BY <3>3 DEF Inbox!StartTurn, Inbox!Turn, Inbox!Execute, Inbox!TakeSteers, Inbox!TakeQueue, Inbox!ModelGoesOn, Inbox!QueryEnds, Inbox!QueryFails,
         Inbox!ClearHandles, Inbox!ClearSteers, Inbox!CloseTurn, Inbox!ActorEnqueue, Inbox!ActorRemove, Inbox!SendPop, Inbox!ActorPop,
         Inbox!ErasePopped, Inbox!Activate
    <3> QED
      BY <1>3, <3>1, <3>2, <3>3 DEF Inbox!Next
  <2> QED
    BY <2>1, <2>2 DEF AtRest
<1>4. CASE UNCHANGED Inbox!vars
  BY <1>4 DEF Inbox!vars, Inbox!memory, Inbox!turnState, Inbox!tasks, AtRest
<1> QED
  BY <1>1, <1>2, <1>3, <1>4

LEMMA CommandsStep ==
  ASSUME Inbox!TypeOK, OneAtATime, AtRest, [Inbox!Next]_(Inbox!vars)
  PROVE  OneAtATime'
<1> USE DEF OneAtATime
<1>0. mailbox \in Seq(Mails)
  BY InboxTypes
<1>1. ASSUME NEW c \in Mails, Inbox!Send(c)
      PROVE  \A o : /\ HasOp(mailbox', o) <=> HasOp(mailbox, o) \/ c.op = o
                    /\ OneOp(mailbox, o) /\ ~(c.op = o /\ HasOp(mailbox, o)) => OneOp(mailbox', o)
  BY <1>0, <1>1, AppendingOp DEF Inbox!Send
<1>2. ASSUME NEW op, Inbox!Receive(op)
      PROVE  /\ HasOp(mailbox, op)
             /\ \A o : (HasOp(mailbox', o) => HasOp(mailbox, o))
                       /\ (OneOp(mailbox, o) => OneOp(mailbox', o) /\ (op = o => ~HasOp(mailbox', o)))
  <2>1. mailbox # <<>> /\ mailbox' = Tail(mailbox) /\ Head(mailbox).op = op
    BY <1>2, Received
  <2>2. \A o : /\ HasOp(mailbox, o) <=> Head(mailbox).op = o \/ HasOp(Tail(mailbox), o)
               /\ OneOp(mailbox, o) => OneOp(Tail(mailbox), o)
                                        /\ (Head(mailbox).op = o => ~HasOp(Tail(mailbox), o))
    BY <1>0, <2>1, Tails
  <2> QED
    BY <2>1, <2>2
<1>3. ASSUME NEW i \in QueueInputs, Inbox!QueueInput(i) \/ Inbox!SendRemove(i) PROVE OneAtATime'
  <2>1. PICK c \in Mails : Inbox!Send(c) /\ c.op \in {"enqueue", "remove"}
    <3>1. /\ [op |-> "enqueue", input |-> i] \in Mails /\ [op |-> "remove", input |-> i] \in Mails
          /\ [op |-> "enqueue", input |-> i].op = "enqueue" /\ [op |-> "remove", input |-> i].op = "remove"
      BY DEF Mails
    <3> QED
      BY <1>3, <3>1 DEF Inbox!QueueInput, Inbox!SendRemove
  <2>2. chain' = chain /\ turn' = turn
    BY <1>3 DEF Inbox!QueueInput, Inbox!SendRemove
  <2> QED
    BY <1>1, <2>1, <2>2
<1>4. ASSUME Inbox!StartTurn PROVE OneAtATime'
  <2>1. PICK c \in Mails : Inbox!Send(c) /\ c.op = "execute"
    <3>1. [op |-> "execute", input |-> Note] \in Mails /\ [op |-> "execute", input |-> Note].op = "execute"
      BY DEF Mails
    <3> QED
      BY <1>4, <3>1 DEF Inbox!StartTurn, Inbox!NoInput
  <2>2. chain' = chain /\ turn.pc = "idle" /\ turn'.pc = "launched" /\ chain.pc = "off"
    BY <1>4 DEF Inbox!StartTurn
  <2> QED
    BY <1>1, <2>1, <2>2
<1>5. ASSUME Inbox!SendPop PROVE OneAtATime'
  <2>1. PICK c \in Mails : Inbox!Send(c) /\ c.op = "pop"
    <3>1. [op |-> "pop", input |-> Note] \in Mails /\ [op |-> "pop", input |-> Note].op = "pop"
      BY DEF Mails
    <3> QED
      BY <1>5, <3>1 DEF Inbox!SendPop, Inbox!NoInput
  <2>2. chain.pc = "pop" /\ chain'.pc = "popping" /\ turn' = turn
    BY <1>5 DEF Inbox!SendPop, Inbox!TypeOK
  <2> QED
    BY <1>1, <2>1, <2>2
<1>6. ASSUME Inbox!Activate PROVE OneAtATime'
  <2>1. PICK c \in Mails : Inbox!Send(c) /\ c.op = "execute"
    <3>1. [op |-> "execute", input |-> chain.input] \in Mails
            /\ [op |-> "execute", input |-> chain.input].op = "execute"
      BY DEF Mails, Inbox!TypeOK, Inbox!NoInput
    <3> QED
      BY <1>6, <3>1 DEF Inbox!Activate
  <2>2. turn.pc = "idle" /\ turn'.pc = "launched" /\ chain.pc = "activate" /\ chain'.pc = "off"
    BY <1>6 DEF Inbox!Activate, Inbox!TypeOK
  <2> QED
    BY <1>1, <2>1, <2>2
<1>7. ASSUME Inbox!ActorEnqueue \/ Inbox!ActorRemove PROVE OneAtATime'
  <2>1. chain' = chain /\ turn' = turn
    BY <1>7 DEF Inbox!ActorEnqueue, Inbox!ActorRemove, Inbox!tasks
  <2>2. Inbox!Receive("enqueue") \/ Inbox!Receive("remove")
    BY <1>7 DEF Inbox!ActorEnqueue, Inbox!ActorRemove
  <2> QED
    BY <1>2, <2>1, <2>2
<1>8. ASSUME Inbox!Execute PROVE OneAtATime'
  <2>1. Inbox!Receive("execute") /\ chain' = chain /\ turn'.pc = "steers"
    BY <1>8 DEF Inbox!Execute, Inbox!TypeOK
  <2> QED
    BY <1>2, <2>1
<1>9. ASSUME Inbox!ActorPop PROVE OneAtATime'
  <2>1. Inbox!Receive("pop") /\ turn' = turn
    BY <1>9 DEF Inbox!ActorPop
  <2> QED
    BY <1>2, <2>1
<1>10. ASSUME Inbox!Unload PROVE OneAtATime'
  BY <1>10, UnloadLeaves, Nothing
<1>11. ASSUME NEW i \in QueueInputs,
              Inbox!WriteRow(i) \/ Inbox!EraseRemoved(i) \/ Inbox!QueueSteer(i) \/ Inbox!MoveToSteers(i)
                \/ Inbox!MoveNothing(i) \/ Inbox!EraseSteered(i)
       PROVE  mailbox' = mailbox /\ turn' = turn /\ chain' = chain
  BY <1>11 DEF Inbox!WriteRow, Inbox!EraseRemoved, Inbox!QueueSteer, Inbox!MoveToSteers, Inbox!MoveNothing, Inbox!EraseSteered, Inbox!memory
<1>12. ASSUME NEW i \in SteerInputs, Inbox!Steer(i) \/ Inbox!PushSteer(i) \/ Inbox!AnswerSteer(i)
       PROVE  mailbox' = mailbox /\ turn' = turn /\ chain' = chain
  BY <1>12 DEF Inbox!Steer, Inbox!PushSteer, Inbox!AnswerSteer, Inbox!memory
<1>13. ASSUME \/ Inbox!TakeSteers \/ Inbox!TakeQueue \/ Inbox!ModelGoesOn \/ Inbox!QueryEnds \/ Inbox!QueryFails \/ Inbox!ClearHandles
              \/ Inbox!ClearSteers
       PROVE  mailbox' = mailbox /\ turn.pc \notin {"idle", "launched"} /\ chain' = chain
  BY <1>13 DEF Inbox!TakeSteers, Inbox!TakeQueue, Inbox!ModelGoesOn, Inbox!QueryEnds, Inbox!QueryFails, Inbox!ClearHandles, Inbox!ClearSteers,
     Inbox!memory
<1>14. ASSUME Inbox!CloseTurn
       PROVE  mailbox' = mailbox /\ turn.pc = "cleared" /\ turn'.pc = "idle" /\ chain.pc = "off"
  BY <1>14 DEF Inbox!CloseTurn, Inbox!memory, Inbox!TypeOK
<1>15. ASSUME Inbox!ErasePopped
       PROVE  mailbox' = mailbox /\ turn' = turn /\ chain.pc = "popped"
  BY <1>15 DEF Inbox!ErasePopped, Inbox!memory
<1>16. ASSUME Inbox!Load \/ UNCHANGED Inbox!vars
       PROVE  mailbox' = mailbox /\ turn' = turn /\ chain' = chain
  BY <1>16 DEF Inbox!Load, Inbox!tasks, Inbox!vars, Inbox!memory
<1> HIDE DEF OneAtATime
<1>17. ASSUME mailbox' = mailbox, turn' = turn \/ turn.pc \notin {"idle", "launched"}, chain' = chain
       PROVE  OneAtATime'
  BY <1>17 DEF OneAtATime
<1>18. ASSUME Inbox!CloseTurn PROVE OneAtATime'
  BY <1>14, <1>18 DEF OneAtATime
<1>19. ASSUME Inbox!ErasePopped PROVE OneAtATime'
  BY <1>15, <1>19 DEF OneAtATime
<1> QED
  BY <1>3, <1>4, <1>5, <1>6, <1>7, <1>8, <1>9, <1>10, <1>11, <1>12, <1>13, <1>16, <1>17, <1>18, <1>19
  DEF Inbox!Next, Inbox!Turn

(* What comes into the mailbox, and from whom.                               *)
LEMMA MailMoves ==
  ASSUME Inbox!TypeOK, [Inbox!Next]_(Inbox!vars)
  PROVE  \A i \in Inbox!Inputs :
           /\ Has(mailbox', EnqueueOf(i)) =>
                Has(mailbox, EnqueueOf(i)) \/ (i \in QueueInputs /\ Inbox!QueueInput(i))
           /\ Has(mailbox', ExecuteOf(i)) => Has(mailbox, ExecuteOf(i)) \/ (Inbox!Activate /\ chain.input = i)
           /\ Has(mailbox', RemoveOf(i)) =>
                Has(mailbox, RemoveOf(i)) \/ (i \in QueueInputs /\ Inbox!SendRemove(i))
           /\ Once(mailbox, EnqueueOf(i)) /\ (i \in QueueInputs /\ Inbox!QueueInput(i) => ~Has(mailbox, EnqueueOf(i)))
                => Once(mailbox', EnqueueOf(i))
           /\ Once(mailbox, ExecuteOf(i)) /\ (Inbox!Activate /\ chain.input = i => ~Has(mailbox, ExecuteOf(i)))
                => Once(mailbox', ExecuteOf(i))
<1> DEFINE Goal == \A i \in Inbox!Inputs :
           /\ Has(mailbox', EnqueueOf(i)) =>
                Has(mailbox, EnqueueOf(i)) \/ (i \in QueueInputs /\ Inbox!QueueInput(i))
           /\ Has(mailbox', ExecuteOf(i)) => Has(mailbox, ExecuteOf(i)) \/ (Inbox!Activate /\ chain.input = i)
           /\ Has(mailbox', RemoveOf(i)) =>
                Has(mailbox, RemoveOf(i)) \/ (i \in QueueInputs /\ Inbox!SendRemove(i))
           /\ Once(mailbox, EnqueueOf(i)) /\ (i \in QueueInputs /\ Inbox!QueueInput(i) => ~Has(mailbox, EnqueueOf(i)))
                => Once(mailbox', EnqueueOf(i))
           /\ Once(mailbox, ExecuteOf(i)) /\ (Inbox!Activate /\ chain.input = i => ~Has(mailbox, ExecuteOf(i)))
                => Once(mailbox', ExecuteOf(i))
<1>0. mailbox \in Seq(Mails)
  BY InboxTypes
<1>1. ASSUME NEW c \in Mails, Inbox!Send(c)
      PROVE  \A x : /\ Has(mailbox', x) <=> Has(mailbox, x) \/ x = c
                    /\ Once(mailbox, x) /\ ~(x = c /\ Has(mailbox, x)) => Once(mailbox', x)
  BY <1>0, <1>1, Appending DEF Inbox!Send
<1>2. ASSUME \A x : (Has(mailbox', x) => Has(mailbox, x)) /\ (Once(mailbox, x) => Once(mailbox', x))
      PROVE  Goal
  BY <1>2
<1>3. ASSUME NEW op, Inbox!Receive(op) PROVE Goal
  <2>1. mailbox # <<>> /\ mailbox' = Tail(mailbox)
    BY <1>3, Received
  <2>2. \A x : /\ Has(mailbox, x) <=> x = Head(mailbox) \/ Has(Tail(mailbox), x)
               /\ Once(mailbox, x) => Once(Tail(mailbox), x)
    BY <1>0, <2>1, Tails
  <2> HIDE DEF Goal
  <2> QED
    BY <1>2, <2>1, <2>2
<1>4. ASSUME mailbox' = mailbox PROVE Goal
  BY <1>4
<1>5. ASSUME mailbox' = <<>> PROVE Goal
  BY <1>5, Nothing
<1>6. ASSUME NEW i \in QueueInputs, Inbox!QueueInput(i) PROVE Goal
  <2>1. EnqueueOf(i) \in Mails /\ Inbox!Send(EnqueueOf(i))
    BY <1>6 DEF Mails, EnqueueOf, Inbox!QueueInput
  <2>2. \A j : /\ EnqueueOf(j) = EnqueueOf(i) => j = i
               /\ ExecuteOf(j) # EnqueueOf(i) /\ RemoveOf(j) # EnqueueOf(i)
    <3>1. \A j : EnqueueOf(j).op = "enqueue" /\ EnqueueOf(j).input = j /\ ExecuteOf(j).op = "execute"
                 /\ RemoveOf(j).op = "remove"
      BY DEF EnqueueOf, ExecuteOf, RemoveOf
    <3> QED
      BY <3>1
  <2> QED
    BY <1>1, <1>6, <2>1, <2>2
<1>7. ASSUME NEW i \in QueueInputs, Inbox!SendRemove(i) PROVE Goal
  <2>1. RemoveOf(i) \in Mails /\ Inbox!Send(RemoveOf(i))
    BY <1>7 DEF Mails, RemoveOf, Inbox!SendRemove
  <2>2. \A j : /\ RemoveOf(j) = RemoveOf(i) => j = i
               /\ ExecuteOf(j) # RemoveOf(i) /\ EnqueueOf(j) # RemoveOf(i)
    <3>1. \A j : EnqueueOf(j).op = "enqueue" /\ RemoveOf(j).input = j /\ ExecuteOf(j).op = "execute"
                 /\ RemoveOf(j).op = "remove"
      BY DEF EnqueueOf, ExecuteOf, RemoveOf
    <3> QED
      BY <3>1
  <2> QED
    BY <1>1, <1>7, <2>1, <2>2
<1>8. ASSUME Inbox!StartTurn \/ Inbox!SendPop PROVE Goal
  <2>1. PICK c \in Mails : Inbox!Send(c) /\ c.input = Note
    <3>1. /\ [op |-> "execute", input |-> Note] \in Mails /\ [op |-> "execute", input |-> Note].input = Note
          /\ [op |-> "pop", input |-> Note] \in Mails /\ [op |-> "pop", input |-> Note].input = Note
      BY DEF Mails
    <3> QED
      BY <1>8, <3>1 DEF Inbox!StartTurn, Inbox!SendPop, Inbox!NoInput
  <2>2. \A j \in Inbox!Inputs : EnqueueOf(j) # c /\ ExecuteOf(j) # c /\ RemoveOf(j) # c
    <3>1. \A j \in Inbox!Inputs : EnqueueOf(j).input # Note /\ ExecuteOf(j).input # Note /\ RemoveOf(j).input # Note
      BY InboxTypes DEF EnqueueOf, ExecuteOf, RemoveOf
    <3> QED
      BY <2>1, <3>1
  <2> QED
    BY <1>1, <2>1, <2>2
<1>9. ASSUME Inbox!Activate PROVE Goal
  <2>1. ExecuteOf(chain.input) \in Mails /\ Inbox!Send(ExecuteOf(chain.input))
    BY <1>9 DEF Mails, ExecuteOf, Inbox!Activate, Inbox!TypeOK, Inbox!NoInput
  <2>2. \A j, i : /\ ExecuteOf(j) = ExecuteOf(i) => j = i
                  /\ RemoveOf(j) # ExecuteOf(i) /\ EnqueueOf(j) # ExecuteOf(i)
    <3>1. \A j : EnqueueOf(j).op = "enqueue" /\ ExecuteOf(j).input = j /\ ExecuteOf(j).op = "execute"
                 /\ RemoveOf(j).op = "remove"
      BY DEF EnqueueOf, ExecuteOf, RemoveOf
    <3> QED
      BY <3>1
  <2> QED
    BY <1>1, <1>9, <2>1, <2>2
<1> HIDE DEF Goal
<1>10. ASSUME Inbox!ActorEnqueue \/ Inbox!ActorRemove \/ Inbox!Execute \/ Inbox!ActorPop PROVE Goal
  BY <1>3, <1>10 DEF Inbox!ActorEnqueue, Inbox!ActorRemove, Inbox!Execute, Inbox!ActorPop
<1>11. ASSUME NEW i \in QueueInputs,
              Inbox!WriteRow(i) \/ Inbox!EraseRemoved(i) \/ Inbox!QueueSteer(i) \/ Inbox!MoveToSteers(i)
                \/ Inbox!MoveNothing(i) \/ Inbox!EraseSteered(i)
       PROVE  mailbox' = mailbox
  BY <1>11 DEF Inbox!WriteRow, Inbox!EraseRemoved, Inbox!QueueSteer, Inbox!MoveToSteers, Inbox!MoveNothing, Inbox!EraseSteered, Inbox!memory
<1>12. ASSUME NEW i \in SteerInputs, Inbox!Steer(i) \/ Inbox!PushSteer(i) \/ Inbox!AnswerSteer(i)
       PROVE  mailbox' = mailbox
  BY <1>12 DEF Inbox!Steer, Inbox!PushSteer, Inbox!AnswerSteer, Inbox!memory
<1>13. ASSUME \/ Inbox!TakeSteers \/ Inbox!TakeQueue \/ Inbox!ModelGoesOn \/ Inbox!QueryEnds \/ Inbox!QueryFails \/ Inbox!ClearHandles
              \/ Inbox!ClearSteers \/ Inbox!CloseTurn \/ Inbox!ErasePopped \/ Inbox!Load \/ UNCHANGED Inbox!vars
       PROVE  mailbox' = mailbox
  BY <1>13 DEF Inbox!TakeSteers, Inbox!TakeQueue, Inbox!ModelGoesOn, Inbox!QueryEnds, Inbox!QueryFails, Inbox!ClearHandles, Inbox!ClearSteers,
     Inbox!CloseTurn, Inbox!ErasePopped, Inbox!Load, Inbox!memory, Inbox!vars
<1>14. Goal
  BY <1>4, <1>5, <1>6, <1>7, <1>8, <1>9, <1>10, <1>11, <1>12, <1>13, UnloadLeaves DEF Inbox!Next, Inbox!Turn
<1> QED
  BY <1>14 DEF Goal

(* One handler goes on, and lives and turns are counted upwards.             *)
LEMMA HandlersStep ==
  ASSUME Inbox!TypeOK, HandlersKnow, OneAtATime, [Inbox!Next]_(Inbox!vars)
  PROVE  /\ HandlersKnow' /\ life' \in {life, life + 1} /\ turn'.id >= turn.id
         /\ \A i \in Inbox!Inputs : h'[i].pc \in {"new", "push"} => h[i].pc \in {"new", "push"}
         /\ \A i \in QueueInputs : h'[i].pc \in {"new", "row"} => h[i].pc \in {"new", "row"}
<1> DEFINE Known(i) == h'[i].life <= life'
           KnownQ(i) == /\ h'[i].pc \in {"new", "row", "done"}
                        /\ h'[i].reply = "Queued" => h'[i].pc = "done"
                        /\ requests'[i].pc # "new" \/ Has(mailbox', RemoveOf(i)) => h'[i].pc = "done"
           KnownS(i) == h'[i].pc \in {"new", "push", "answer", "done"}
           Stay(i) == /\ h'[i].pc \in {"new", "push"} => h[i].pc \in {"new", "push"}
                      /\ i \in QueueInputs /\ h'[i].pc \in {"new", "row"} => h[i].pc \in {"new", "row"}
           Goal == /\ \A i \in Inbox!Inputs : Known(i) /\ Stay(i)
                   /\ \A i \in QueueInputs : KnownQ(i)
                   /\ \A i \in SteerInputs : KnownS(i)
<1>0. /\ \A i \in Inbox!Inputs : h[i].life <= life /\ h[i].life \in Nat
      /\ \A i \in QueueInputs : /\ h[i].pc \in {"new", "row", "done"}
                                /\ h[i].reply = "Queued" => h[i].pc = "done"
                                /\ requests[i].pc # "new" \/ Has(mailbox, RemoveOf(i)) => h[i].pc = "done"
      /\ \A i \in SteerInputs : h[i].pc \in {"new", "push", "answer", "done"}
      /\ QueueInputs \subseteq Inbox!Inputs /\ SteerInputs \subseteq Inbox!Inputs
      /\ QueueInputs \cap SteerInputs = {} /\ life \in Nat /\ turn.id \in Nat
      /\ Inbox!Inputs = QueueInputs \cup SteerInputs
  <2>1. \A i \in Inbox!Inputs : h[i].life \in Nat
    BY InboxTypes DEF Inbox!TypeOK
  <2> QED
    BY <2>1, InboxTypes DEF HandlersKnow, Inbox!Inputs
<1>h. /\ DOMAIN h = Inbox!Inputs /\ DOMAIN requests = QueueInputs
      /\ \A i \in Inbox!Inputs : DOMAIN h[i] = {"pc", "turn", "life", "reply", "intime"}
      /\ \A i \in QueueInputs : DOMAIN requests[i] = {"pc", "reply"}
  BY DEF Inbox!TypeOK
<1>m. \A i \in QueueInputs : Has(mailbox', RemoveOf(i)) => h[i].pc = "done"
  <2>1. \A i \in QueueInputs : Inbox!SendRemove(i) => h[i].reply = "Queued"
    BY DEF Inbox!SendRemove
  <2>2. \A i \in QueueInputs :
          Has(mailbox', RemoveOf(i)) => Has(mailbox, RemoveOf(i)) \/ Inbox!SendRemove(i)
    BY <1>0, MailMoves
  <2> QED
    BY <1>0, <2>1, <2>2
<1>1. ASSUME h' = h, requests' = requests, life' \in {life, life + 1} PROVE Goal
  BY <1>0, <1>m, <1>1
<1>2. ASSUME NEW i \in QueueInputs, Inbox!QueueInput(i) PROVE Goal /\ life' = life /\ turn' = turn
  <2>1. /\ h[i].pc = "new" /\ h' = [h EXCEPT ![i].pc = "row", ![i].life = life] /\ requests' = requests
        /\ life' = life /\ turn' = turn
    BY <1>2 DEF Inbox!QueueInput
  <2>2. /\ \A j \in Inbox!Inputs : j # i => h'[j] = h[j]
        /\ h'[i].pc = "row" /\ h'[i].life = life /\ h'[i].reply = h[i].reply
    BY <1>0, <1>h, <2>1
  <2>3. \A j \in Inbox!Inputs : Known(j)
    <3>1. Known(i)
      BY <1>0, <2>1, <2>2
    <3> QED
      BY <1>0, <2>1, <2>2, <3>1
  <2>4. \A j \in Inbox!Inputs : Stay(j)
    BY <1>0, <2>1, <2>2
  <2>5. \A j \in QueueInputs : KnownQ(j)
    <3>1. KnownQ(i)
      BY <1>0, <1>m, <2>1, <2>2
    <3> QED
      BY <1>0, <1>m, <2>1, <2>2, <3>1
  <2>6. \A j \in SteerInputs : KnownS(j)
    BY <1>0, <2>1, <2>2
  <2> HIDE DEF Known, Stay, KnownQ, KnownS
  <2> QED
    BY <2>1, <2>3, <2>4, <2>5, <2>6
<1>3. ASSUME NEW i \in QueueInputs, Inbox!WriteRow(i) PROVE Goal /\ life' = life /\ turn' = turn
  <2>1. /\ h[i].pc = "row" /\ h' = [h EXCEPT ![i].pc = "done", ![i].reply = "Queued"] /\ requests' = requests
        /\ life' = life /\ turn' = turn
    BY <1>3 DEF Inbox!WriteRow
  <2>2. /\ \A j \in Inbox!Inputs : j # i => h'[j] = h[j]
        /\ h'[i].pc = "done" /\ h'[i].life = h[i].life
    BY <1>0, <1>h, <2>1
  <2> QED
    BY <1>0, <1>m, <2>1, <2>2
<1>4. ASSUME NEW i \in QueueInputs,
             \/ Inbox!SendRemove(i) \/ Inbox!EraseRemoved(i) \/ Inbox!QueueSteer(i) \/ Inbox!MoveToSteers(i)
             \/ Inbox!MoveNothing(i) \/ Inbox!EraseSteered(i)
      PROVE  Goal /\ life' = life /\ turn' = turn
  <2>1. h' = h /\ life' = life /\ turn' = turn
    BY <1>4 DEF Inbox!SendRemove, Inbox!EraseRemoved, Inbox!QueueSteer, Inbox!MoveToSteers, Inbox!MoveNothing, Inbox!EraseSteered
  <2>2. h[i].reply = "Queued" \/ requests[i].pc # "new"
    BY <1>4 DEF Inbox!SendRemove, Inbox!EraseRemoved, Inbox!QueueSteer, Inbox!MoveToSteers, Inbox!MoveNothing, Inbox!EraseSteered
  <2>3. \A j \in QueueInputs : j # i => requests'[j] = requests[j]
    <3>1. \/ \E p : requests' = [requests EXCEPT ![i].pc = p]
          \/ \E p, r : requests' = [requests EXCEPT ![i].pc = p, ![i].reply = r]
      BY <1>4 DEF Inbox!SendRemove, Inbox!EraseRemoved, Inbox!QueueSteer, Inbox!MoveToSteers, Inbox!MoveNothing, Inbox!EraseSteered
    <3> QED
      BY <1>h, <3>1
  <2>4. KnownQ(i)
    BY <1>0, <1>m, <2>1, <2>2
  <2>5. \A j \in QueueInputs : KnownQ(j)
    BY <1>0, <1>m, <2>1, <2>3, <2>4
  <2>6. (\A j \in Inbox!Inputs : Known(j) /\ Stay(j)) /\ (\A j \in SteerInputs : KnownS(j))
    BY <1>0, <2>1
  <2> HIDE DEF Known, Stay, KnownQ, KnownS
  <2> QED
    BY <2>1, <2>5, <2>6
<1>5. ASSUME NEW i \in SteerInputs, Inbox!Steer(i) PROVE Goal /\ life' = life /\ turn' = turn
  <2>1. /\ h[i].pc = "new" /\ h' = [h EXCEPT ![i].pc = "push", ![i].turn = turn.id, ![i].life = life]
        /\ requests' = requests /\ life' = life /\ turn' = turn
    BY <1>5 DEF Inbox!Steer
  <2>2. /\ \A j \in Inbox!Inputs : j # i => h'[j] = h[j]
        /\ h'[i].pc = "push" /\ h'[i].life = life
    BY <1>0, <1>h, <2>1
  <2>3. \A j \in Inbox!Inputs : Known(j)
    <3>1. Known(i)
      BY <1>0, <2>1, <2>2
    <3> QED
      BY <1>0, <2>1, <2>2, <3>1
  <2>4. \A j \in Inbox!Inputs : Stay(j)
    BY <1>0, <2>1, <2>2
  <2>5. \A j \in QueueInputs : KnownQ(j)
    BY <1>0, <1>m, <2>1, <2>2
  <2>6. \A j \in SteerInputs : KnownS(j)
    BY <1>0, <2>1, <2>2
  <2> HIDE DEF Known, Stay, KnownQ, KnownS
  <2> QED
    BY <2>1, <2>3, <2>4, <2>5, <2>6
<1>6. ASSUME NEW i \in SteerInputs, Inbox!PushSteer(i) PROVE Goal /\ life' = life /\ turn' = turn
  <2>1. /\ h[i].pc = "push" /\ h' = [h EXCEPT ![i].pc = "answer"]
        /\ requests' = requests /\ life' = life /\ turn' = turn
    BY <1>6 DEF Inbox!PushSteer
  <2>2. /\ \A j \in Inbox!Inputs : j # i => h'[j] = h[j]
        /\ h'[i].pc = "answer" /\ h'[i].life = h[i].life
    BY <1>0, <1>h, <2>1
  <2> QED
    BY <1>0, <1>m, <2>1, <2>2
<1>7. ASSUME NEW i \in SteerInputs, Inbox!AnswerSteer(i) PROVE Goal /\ life' = life /\ turn' = turn
  <2>1. /\ h[i].pc = "answer" /\ requests' = requests /\ life' = life /\ turn' = turn
        /\ \E b : h' = [h EXCEPT ![i].pc = "done", ![i].reply = "Steered", ![i].intime = b]
    BY <1>7 DEF Inbox!AnswerSteer
  <2>2. /\ \A j \in Inbox!Inputs : j # i => h'[j] = h[j]
        /\ h'[i].pc = "done" /\ h'[i].life = h[i].life
    BY <1>0, <1>h, <2>1
  <2> QED
    BY <1>0, <1>m, <2>1, <2>2
<1>8. ASSUME Inbox!ActorRemove PROVE Goal /\ life' = life /\ turn' = turn
  <2>1. /\ h' = h /\ life' = life /\ turn' = turn /\ Inbox!Cur \in QueueInputs
        /\ \A j \in QueueInputs : j # Inbox!Cur => requests'[j] = requests[j]
    <3>1. Head(mailbox) \in Mails /\ Head(mailbox).op = "remove" /\ Inbox!Cur = Head(mailbox).input
      BY <1>8, Received DEF Inbox!ActorRemove
    <3>2. Inbox!Cur \in QueueInputs
      BY <3>1 DEF Mails
    <3>3. \E r : requests' = [requests EXCEPT ![Inbox!Cur] = r]
      BY <1>8 DEF Inbox!ActorRemove
    <3> QED
      BY <1>8, <1>h, <3>2, <3>3 DEF Inbox!ActorRemove
  <2>2. h[Inbox!Cur].pc = "done"
    <3>1. /\ mailbox \in Seq(Mails) /\ mailbox # <<>> /\ Head(mailbox) \in Mails
          /\ Head(mailbox).op = "remove" /\ Inbox!Cur = Head(mailbox).input
      BY <1>8, Received, InboxTypes DEF Inbox!ActorRemove
    <3>2. Head(mailbox) = RemoveOf(Inbox!Cur)
      BY <3>1 DEF Mails, RemoveOf
    <3>3. Has(mailbox, RemoveOf(Inbox!Cur))
      BY <3>1, <3>2, Tails
    <3> QED
      BY <1>0, <2>1, <3>3
  <2> QED
    BY <1>0, <1>m, <2>1, <2>2
<1>9. ASSUME Inbox!Unload PROVE Goal /\ life' = life /\ turn'.id = turn.id /\ turn'.pc = "idle"
  <2>1. \A x : ~Has(mailbox', x)
    BY <1>9, UnloadLeaves, Nothing
  <2> QED
    BY <1>0, <1>9, <2>1, UnloadLeaves
<1>10. ASSUME Inbox!Load PROVE h' = h /\ requests' = requests /\ life' = life + 1 /\ turn' = turn
  BY <1>10 DEF Inbox!Load, Inbox!tasks
<1>11. ASSUME \/ Inbox!TakeSteers \/ Inbox!TakeQueue \/ Inbox!ModelGoesOn \/ Inbox!QueryEnds \/ Inbox!QueryFails \/ Inbox!ClearHandles
              \/ Inbox!ClearSteers \/ Inbox!CloseTurn
       PROVE  h' = h /\ requests' = requests /\ life' = life /\ turn'.id = turn.id /\ turn.pc # "idle"
  BY <1>11 DEF Inbox!TakeSteers, Inbox!TakeQueue, Inbox!ModelGoesOn, Inbox!QueryEnds, Inbox!QueryFails, Inbox!ClearHandles, Inbox!ClearSteers,
     Inbox!CloseTurn, Inbox!TypeOK
<1>12. ASSUME Inbox!StartTurn \/ Inbox!Activate
       PROVE  h' = h /\ requests' = requests /\ life' = life /\ turn'.id = turn.id + 1
  BY <1>12 DEF Inbox!StartTurn, Inbox!Activate
<1>13. ASSUME Inbox!ActorEnqueue \/ Inbox!SendPop \/ Inbox!ActorPop \/ Inbox!ErasePopped \/ UNCHANGED Inbox!vars
       PROVE  h' = h /\ requests' = requests /\ life' = life /\ turn' = turn
  BY <1>13 DEF Inbox!ActorEnqueue, Inbox!SendPop, Inbox!ActorPop, Inbox!ErasePopped, Inbox!vars, Inbox!tasks
<1>14. ASSUME Inbox!Execute
       PROVE  h' = h /\ requests' = requests /\ life' = life /\ turn'.id = turn.id /\ turn.pc # "idle"
  <2>1. turn.pc # "idle"
    <3>1. mailbox \in Seq(Mails) /\ mailbox # <<>> /\ Head(mailbox).op = "execute"
      BY <1>14, Received, InboxTypes DEF Inbox!Execute
    <3>2. HasOp(mailbox, "execute")
      BY <3>1, Tails
    <3> QED
      BY <3>2 DEF OneAtATime
  <2> QED
    BY <1>14, <2>1 DEF Inbox!Execute, Inbox!TypeOK
<1> HIDE DEF Goal
<1>15. /\ Goal /\ life' \in {life, life + 1} /\ turn'.id >= turn.id
       /\ turn'.pc # "idle" => turn'.id >= 1
  <2>1. turn.pc # "idle" => turn.id >= 1
    BY DEF HandlersKnow
  <2> QED
    BY <1>0, <1>1, <1>2, <1>3, <1>4, <1>5, <1>6, <1>7, <1>8, <1>9, <1>10, <1>11, <1>12, <1>13, <1>14,
       <2>1 DEF Inbox!Next, Inbox!Turn
<1> QED
  BY <1>0, <1>15 DEF Goal, HandlersKnow

-----------------------------------------------------------------------------
(* A gift is an input, in a turn of a life.                                  *)
LEMMA GiftTyped ==
  ASSUME Inbox!TypeOK
  PROVE  \A n \in DOMAIN given :
           given[n].input \in Inbox!Inputs /\ given[n].life \in Nat /\ given[n].turn \in Nat
<1>1. given \in Seq(GiftRecords)
  BY InboxTypes
<1>2. \A n \in DOMAIN given : given[n] \in GiftRecords
  BY <1>1
<1>3. 1..MaxTurns \subseteq Nat /\ 1..MaxLives \subseteq Nat
  BY InboxTypes
<1> QED
  BY <1>2, <1>3 DEF GiftRecords

(* What is given once was given once before, and nowhere in this life.       *)
LEMMA GiveOnce ==
  ASSUME Inbox!TypeOK, Inbox!GivenOncePerLife, GiftsKnown, NEW s \in Seq(Inbox!Inputs), Inbox!Give(s), turn.id >= 1,
         \A x : Once(s, x), \A x : Has(s, x) => ~At("given", x), life' = life, turn'.id = turn.id
  PROVE  /\ Inbox!GivenOncePerLife' /\ GiftsKnown'
         /\ \A i : At("given", i)' => At("given", i) \/ Has(s, i)
<1>0. /\ \A n \in DOMAIN given : n \in DOMAIN given' /\ given'[n] = given[n]
      /\ \A n \in DOMAIN given' :
           \/ n \in DOMAIN given /\ given'[n] = given[n]
           \/ /\ n \notin DOMAIN given /\ n - Len(given) \in DOMAIN s
              /\ given'[n].input = s[n - Len(given)]
              /\ given'[n].turn = turn.id /\ given'[n].life = life
      /\ given' \in Seq(GiftRecords)
  BY GiveAdds
<1>1. /\ Len(given) \in Nat /\ life \in Nat /\ turn.id \in Nat
      /\ \A n \in DOMAIN given' : n \in Nat
  BY <1>0, InboxTypes
<1>2. \A n \in DOMAIN given : given[n].life <= life /\ given[n].turn <= turn.id
  BY DEF GiftsKnown
<1>3. \A n \in DOMAIN given' : given'[n].life <= life' /\ given'[n].turn <= turn'.id
  BY <1>0, <1>1, <1>2
<1>4. \A i : At("given", i)' => At("given", i) \/ Has(s, i)
  <2> SUFFICES ASSUME NEW i, NEW n \in DOMAIN given', given'[n].input = i, given'[n].life = life'
               PROVE  At("given", i) \/ Has(s, i)
    BY DEF At
  <2> QED
    BY <1>0 DEF At, Has
<1>5. ASSUME NEW m \in DOMAIN given', NEW n \in DOMAIN given', given'[m].input = given'[n].input,
             given'[m].life = given'[n].life
      PROVE  m = n
  <2>1. CASE m \in DOMAIN given /\ n \in DOMAIN given
    <3>1. /\ given[m].input = given[n].input /\ given[m].life = given[n].life
          /\ given[m].input \in Inbox!Inputs
      BY <1>0, <1>5, <2>1, GiftTyped
    <3> QED
      BY <2>1, <3>1 DEF Inbox!GivenOncePerLife, Inbox!Gifts
  <2>2. CASE m \notin DOMAIN given /\ n \notin DOMAIN given
    <3>1. /\ m - Len(given) \in DOMAIN s /\ n - Len(given) \in DOMAIN s
          /\ s[m - Len(given)] = s[n - Len(given)]
      BY <1>0, <1>5, <2>2
    <3>2. m - Len(given) = n - Len(given)
      BY <3>1 DEF Once
    <3> QED
      BY <1>1, <3>2
  <2>3. ASSUME NEW a \in DOMAIN given, NEW b \in DOMAIN given', b \notin DOMAIN given,
               given'[a].input = given'[b].input, given'[a].life = given'[b].life
        PROVE  FALSE
    <3>1. given'[b].life = life /\ given'[b].input = s[b - Len(given)] /\ b - Len(given) \in DOMAIN s
      BY <1>0, <2>3
    <3>2. given[a].life = life /\ given[a].input = s[b - Len(given)]
      BY <1>0, <2>3, <3>1
    <3>3. At("given", s[b - Len(given)])
      BY <3>2 DEF At
    <3> QED
      BY <3>1, <3>3 DEF Has
  <2> QED
    BY <1>0, <1>5, <2>1, <2>2, <2>3
<1> QED
  BY <1>3, <1>4, <1>5 DEF Inbox!GivenOncePerLife, Inbox!Gifts, GiftsKnown

LEMMA GiveNothing ==
  ASSUME Inbox!TypeOK, Inbox!GivenOncePerLife, GiftsKnown, given' = given, life' \in {life, life + 1},
         turn'.id \in Nat, turn'.id >= turn.id
  PROVE  /\ Inbox!GivenOncePerLife' /\ GiftsKnown'
         /\ \A i : At("given", i)' => At("given", i) /\ life' = life
<1>0. life \in Nat /\ turn.id \in Nat /\ \A n \in DOMAIN given : given[n].life \in Nat /\ given[n].turn \in Nat
  BY InboxTypes, GiftTyped
<1>1. \A n \in DOMAIN given : given[n].life <= life /\ given[n].turn <= turn.id
  BY DEF GiftsKnown
<1>2. GiftsKnown'
  BY <1>0, <1>1 DEF GiftsKnown
<1>3. Inbox!GivenOncePerLife'
  BY DEF Inbox!GivenOncePerLife, Inbox!Gifts
<1>4. \A n \in DOMAIN given : given[n].life # life + 1
  BY <1>0, <1>1
<1>5. \A i : At("given", i)' => At("given", i) /\ life' = life
  BY <1>0, <1>4 DEF At
<1> QED
  BY <1>2, <1>3, <1>5

-----------------------------------------------------------------------------
(* An input stays where it is, leaves, or goes to one other place.           *)
LEMMA PlacesStep ==
  ASSUME InputInv, [Inbox!Next]_(Inbox!vars)
  PROVE  /\ OnePlace' /\ OnceThere' /\ Inbox!GivenOncePerLife' /\ GiftsKnown'
         /\ \A i \in Inbox!Inputs : h'[i].pc \in {"new", "push"} => \A k \in Places : ~At(k, i)'
<1> DEFINE Then(k, i) == At(k, i)'
           Stays(i) == \A k \in Places : Then(k, i) => At(k, i)
           Moves(i) == /\ h'[i].pc \notin {"new", "push"}
                       /\ \E k0 \in Places : \A k \in Places : Then(k, i) => k = k0
           Inboxes(i) == Once(queue', i) /\ Once(pending', i) /\ Once(btw', i)
           Goal == /\ \A i \in Inbox!Inputs : (Stays(i) \/ Moves(i)) /\ Inboxes(i)
                   /\ Inbox!GivenOncePerLife' /\ GiftsKnown'
           NoSend == (\A i \in QueueInputs : ~Inbox!QueueInput(i)) /\ ~Inbox!Activate
<1>0. /\ Inbox!TypeOK /\ AtRest /\ HandlersKnow /\ OneAtATime /\ Inbox!GivenOncePerLife /\ GiftsKnown
      /\ OnePlace /\ OnceThere /\ SentOnce
  BY DEF InputInv
<1>t. Inbox!TypeOK' /\ HandlersKnow'
  BY <1>0, TypeStep, HandlersStep
<1>1. /\ mailbox \in Seq(Mails) /\ queue \in Seq(QueueInputs \cup {Note})
      /\ pending \in Seq(QueueInputs \cup {Note}) /\ btw \in Seq(Inbox!Inputs) /\ rows \in Seq(QueueInputs)
      /\ QueueInputs \subseteq Inbox!Inputs /\ SteerInputs \subseteq Inbox!Inputs /\ Note \notin Inbox!Inputs
      /\ QueueInputs \cap SteerInputs = {} /\ life \in Nat
  BY <1>0, InboxTypes
<1>2. /\ turn'.id \in Nat /\ turn'.id >= turn.id /\ life' \in {life, life + 1}
  <2>1. turn' \in [id : 0..MaxTurns, own : QueueInputs \cup {Note}, pc : Inbox!TurnPcs]
    BY <1>t DEF Inbox!TypeOK, Inbox!NoInput
  <2>2. MaxTurns \in Nat
    BY <1>0, InboxTypes
  <2> QED
    BY <1>0, <2>1, <2>2, HandlersStep
<1>3. ASSUME NEW i \in Inbox!Inputs, NEW k \in Places, At(k, i)
      PROVE  h'[i].pc \notin {"new", "push"} /\ \A l \in Places : At(l, i) => l = k
  <2>1. h[i].pc \notin {"new", "push"}
    BY <1>0, <1>3 DEF SentOnce
  <2>2. h'[i].pc \in {"new", "push"} => h[i].pc \in {"new", "push"}
    BY <1>0, HandlersStep
  <2>3. \A l \in Places : At(l, i) => l = k
    BY <1>0, <1>3 DEF OnePlace
  <2> QED
    BY <2>1, <2>2, <2>3
<1>4. \A i \in Inbox!Inputs : Once(queue, i) /\ Once(pending, i) /\ Once(btw, i)
                         /\ Once(mailbox, EnqueueOf(i)) /\ Once(mailbox, ExecuteOf(i))
  BY <1>0 DEF OnceThere
<1>5. ASSUME NoSend
      PROVE  \A i \in Inbox!Inputs :
                        /\ Has(mailbox', EnqueueOf(i)) => Has(mailbox, EnqueueOf(i))
                        /\ Has(mailbox', ExecuteOf(i)) => Has(mailbox, ExecuteOf(i))
  BY <1>0, <1>5, MailMoves
<1>6. ASSUME given' = given
      PROVE  /\ Inbox!GivenOncePerLife' /\ GiftsKnown'
             /\ \A i : Then("given", i) => At("given", i) /\ life' = life
  BY <1>0, <1>2, <1>6, GiveNothing
<1>d. \A i : /\ At("mail", i) <=> Has(mailbox, EnqueueOf(i))
             /\ At("queue", i) <=> Has(queue, i)
             /\ At("pending", i) <=> Has(pending, i)
             /\ At("btw", i) <=> Has(btw, i)
             /\ At("chain", i) <=> chain.input = i
             /\ At("launched", i) <=> Has(mailbox, ExecuteOf(i))
  BY DEF At
<1>p. \A i : /\ Then("mail", i) <=> Has(mailbox', EnqueueOf(i))
             /\ Then("queue", i) <=> Has(queue', i)
             /\ Then("pending", i) <=> Has(pending', i)
             /\ Then("btw", i) <=> Has(btw', i)
             /\ Then("chain", i) <=> chain'.input = i
             /\ Then("launched", i) <=> Has(mailbox', ExecuteOf(i))
  BY DEF At
<1> HIDE DEF Then
<1>k. "mail" \in Places /\ "queue" \in Places /\ "pending" \in Places /\ "btw" \in Places
      /\ "chain" \in Places /\ "launched" \in Places /\ "given" \in Places
  BY DEF Places
<1>s. ASSUME NEW i \in Inbox!Inputs,
             Then("mail", i) => At("mail", i), Then("queue", i) => At("queue", i),
             Then("pending", i) => At("pending", i), Then("btw", i) => At("btw", i),
             Then("chain", i) => At("chain", i), Then("launched", i) => At("launched", i),
             Then("given", i) => At("given", i)
      PROVE  Stays(i)
  BY <1>s DEF Places
<1>m. ASSUME NEW i \in Inbox!Inputs, NEW k \in Places, h'[i].pc \notin {"new", "push"},
             Then("mail", i) => k = "mail", Then("queue", i) => k = "queue",
             Then("pending", i) => k = "pending", Then("btw", i) => k = "btw",
             Then("chain", i) => k = "chain", Then("launched", i) => k = "launched",
             Then("given", i) => k = "given"
      PROVE  Moves(i)
  BY <1>m DEF Places
<1> HIDE DEF NoSend
<1>n. ASSUME NoSend
      PROVE  \A i \in Inbox!Inputs :
                        /\ Then("mail", i) => At("mail", i)
                        /\ Then("launched", i) => At("launched", i)
  BY <1>5, <1>n, <1>d, <1>p
(* Steps that put no input anywhere.                                         *)
<1>7. ASSUME NoSend, given' = given,
             \A i \in Inbox!Inputs :
               /\ Has(queue', i) => Has(queue, i)
               /\ Has(pending', i) => Has(pending, i)
               /\ Has(btw', i) => Has(btw, i)
               /\ chain'.input = i => chain.input = i
               /\ Inboxes(i)
      PROVE  Goal
  <2>n. \A i \in Inbox!Inputs :
                   /\ Then("mail", i) => At("mail", i)
                   /\ Then("launched", i) => At("launched", i)
    BY <1>n, <1>7
  <2>1. ASSUME NEW i \in Inbox!Inputs PROVE Stays(i)
    <3>1. Then("given", i) => At("given", i)
      BY <1>6, <1>7
    <3>2. (Then("mail", i) => At("mail", i)) /\ (Then("launched", i) => At("launched", i))
      BY <2>n
    <3>3. (Then("queue", i) => At("queue", i)) /\ (Then("pending", i) => At("pending", i))
      BY <1>7, <1>d, <1>p
    <3>4. (Then("btw", i) => At("btw", i)) /\ (Then("chain", i) => At("chain", i))
      BY <1>7, <1>d, <1>p
    <3> HIDE DEF Stays
    <3> QED
      BY <1>s, <3>1, <3>2, <3>3, <3>4
  <2> QED
    BY <1>6, <1>7, <2>1
<1> HIDE DEF Goal
<1>8. ASSUME NEW i \in QueueInputs, NoSend,
             Inbox!WriteRow(i) \/ Inbox!SendRemove(i) \/ Inbox!EraseRemoved(i) \/ Inbox!QueueSteer(i) \/ Inbox!MoveNothing(i) \/ Inbox!EraseSteered(i)
      PROVE  Goal
  <2>1. queue' = queue /\ pending' = pending /\ btw' = btw /\ chain' = chain /\ given' = given
    BY <1>8 DEF Inbox!WriteRow, Inbox!SendRemove, Inbox!EraseRemoved, Inbox!QueueSteer, Inbox!MoveNothing, Inbox!EraseSteered,
       Inbox!memory, Inbox!turnState, Inbox!history
  <2> QED
    BY <1>4, <1>7, <1>8, <2>1
<1>9. ASSUME NEW i \in SteerInputs, NoSend, Inbox!Steer(i) \/ Inbox!AnswerSteer(i) PROVE Goal
  <2>1. queue' = queue /\ pending' = pending /\ btw' = btw /\ chain' = chain /\ given' = given
    BY <1>9 DEF Inbox!Steer, Inbox!AnswerSteer, Inbox!memory, Inbox!turnState, Inbox!history
  <2> QED
    BY <1>4, <1>7, <1>9, <2>1
<1>10. ASSUME NoSend, \/ Inbox!StartTurn \/ Inbox!ModelGoesOn \/ Inbox!QueryFails \/ Inbox!ClearHandles \/ Inbox!SendPop \/ Inbox!ErasePopped
                      \/ UNCHANGED Inbox!vars
       PROVE  Goal
  <2>1. /\ queue' = queue /\ pending' = pending /\ btw' = btw /\ given' = given
        /\ chain'.input = chain.input
    BY <1>0, <1>10 DEF Inbox!StartTurn, Inbox!ModelGoesOn, Inbox!QueryFails, Inbox!ClearHandles, Inbox!SendPop, Inbox!ErasePopped,
       Inbox!vars, Inbox!memory, Inbox!turnState, Inbox!history, Inbox!tasks, Inbox!TypeOK
  <2> QED
    BY <1>4, <1>7, <1>10, <2>1
<1>11. ASSUME NoSend, Inbox!CloseTurn \/ Inbox!ClearSteers PROVE Goal
  <2>1. /\ queue' = queue /\ pending' = pending /\ (btw' = btw \/ btw' = <<>>) /\ given' = given
        /\ chain'.input \in {chain.input, Note}
    BY <1>11 DEF Inbox!CloseTurn, Inbox!ClearSteers, Inbox!memory, Inbox!turnState, Inbox!history, Inbox!NoInput
  <2> QED
    BY <1>1, <1>4, <1>7, <1>11, <2>1, Nothing
<1>12. ASSUME NoSend, Inbox!ActorRemove PROVE Goal
  <2>1. /\ queue' = Inbox!Without(queue, Inbox!Cur) /\ pending' = pending /\ btw' = btw /\ chain' = chain /\ given' = given
    BY <1>12 DEF Inbox!ActorRemove, Inbox!turnState, Inbox!history
  <2>2. \A i : (Has(queue', i) => Has(queue, i)) /\ (Once(queue, i) => Once(queue', i))
    BY <1>1, <2>1, WithoutIt
  <2> QED
    BY <1>4, <1>7, <1>12, <2>1, <2>2
<1>13. ASSUME NoSend, Inbox!Unload PROVE Goal
  <2>1. queue' = <<>> /\ pending' = <<>> /\ btw' = <<>> /\ chain'.input = Note /\ given' = given
    BY <1>0, <1>13, UnloadLeaves
  <2> QED
    BY <1>1, <1>7, <1>13, <2>1, Nothing
(* Steps that put an input somewhere.                                        *)
<1>y. ASSUME \A i \in Inbox!Inputs : (Stays(i) \/ Moves(i)) /\ Inboxes(i), Inbox!GivenOncePerLife', GiftsKnown'
      PROVE  Goal
  BY <1>y DEF Goal
<1> HIDE DEF Stays, Moves
<1>14. ASSUME NEW i \in QueueInputs, Inbox!QueueInput(i) PROVE Goal
  <2>1. /\ queue' = queue /\ pending' = pending /\ btw' = btw /\ chain' = chain /\ given' = given
        /\ Inbox!Send(EnqueueOf(i)) /\ EnqueueOf(i) \in Mails /\ h[i].pc = "new" /\ h'[i].pc = "row"
    BY <1>0, <1>14 DEF Inbox!QueueInput, Inbox!turnState, Inbox!history, EnqueueOf, Mails, Inbox!TypeOK, Inbox!Inputs
  <2>2. \A x : Has(mailbox', x) <=> Has(mailbox, x) \/ x = EnqueueOf(i)
    BY <1>1, <2>1, Appending DEF Inbox!Send
  <2>3. \A j : (EnqueueOf(j) = EnqueueOf(i) => j = i) /\ ExecuteOf(j) # EnqueueOf(i)
    <3>1. \A j : EnqueueOf(j).op = "enqueue" /\ EnqueueOf(j).input = j /\ ExecuteOf(j).op = "execute"
      BY DEF EnqueueOf, ExecuteOf
    <3> QED
      BY <3>1
  <2>4. ASSUME NEW j \in Inbox!Inputs, j # i PROVE Stays(j)
    BY <1>6, <1>d, <1>p, <1>s, <2>1, <2>2, <2>3, <2>4
  <2>5. Moves(i)
    <3>1. \A k \in Places : ~At(k, i)
      BY <1>0, <1>1, <2>1 DEF SentOnce
    <3> QED
      BY <1>1, <1>6, <1>d, <1>p, <1>k, <1>m, <2>1, <2>2, <2>3, <3>1
  <2> QED
    BY <1>4, <1>6, <1>y, <2>1, <2>4, <2>5
<1>15. ASSUME Inbox!Activate PROVE Goal
  <2>1. /\ queue' = queue /\ pending' = pending /\ btw' = btw /\ given' = given
        /\ Inbox!Send(ExecuteOf(chain.input)) /\ ExecuteOf(chain.input) \in Mails
        /\ chain.input \in QueueInputs /\ chain'.input = Note
    BY <1>0, <1>15 DEF Inbox!Activate, Inbox!turnState, Inbox!history, ExecuteOf, Mails, Inbox!TypeOK, Inbox!NoInput
  <2>2. \A x : Has(mailbox', x) <=> Has(mailbox, x) \/ x = ExecuteOf(chain.input)
    BY <1>1, <2>1, Appending DEF Inbox!Send
  <2>3. \A j, i : (ExecuteOf(j) = ExecuteOf(i) => j = i) /\ EnqueueOf(j) # ExecuteOf(i)
    <3>1. \A j : EnqueueOf(j).op = "enqueue" /\ ExecuteOf(j).input = j /\ ExecuteOf(j).op = "execute"
      BY DEF EnqueueOf, ExecuteOf
    <3> QED
      BY <3>1
  <2>4. ASSUME NEW j \in Inbox!Inputs, j # chain.input PROVE Stays(j)
    BY <1>1, <1>6, <1>d, <1>p, <1>s, <2>1, <2>2, <2>3, <2>4
  <2>5. ASSUME NEW j \in Inbox!Inputs, j = chain.input PROVE Moves(j)
    <3>1. At("chain", j)
      BY <2>5, <1>d
    <3>2. h'[j].pc \notin {"new", "push"} /\ \A k \in Places : At(k, j) => k = "chain"
      BY <1>3, <1>k, <3>1
    <3> QED
      BY <1>1, <1>6, <1>d, <1>p, <1>k, <1>m, <2>1, <2>2, <2>3, <2>5, <3>2
  <2> QED
    BY <1>4, <1>6, <1>y, <2>1, <2>4, <2>5
<1>16. ASSUME NoSend, Inbox!ActorEnqueue PROVE Goal
  <2>n. \A i0 \in Inbox!Inputs :
                    /\ Then("mail", i0) => At("mail", i0)
                    /\ Then("launched", i0) => At("launched", i0)
    BY <1>n, <1>16
  <2>1. /\ mailbox # <<>> /\ mailbox' = Tail(mailbox) /\ Head(mailbox) = EnqueueOf(Inbox!Cur) /\ Inbox!Cur \in QueueInputs
    <3>1. /\ mailbox # <<>> /\ mailbox' = Tail(mailbox)
          /\ Head(mailbox) \in Mails /\ Head(mailbox).op = "enqueue" /\ Inbox!Cur = Head(mailbox).input
      BY <1>0, <1>16, Received DEF Inbox!ActorEnqueue
    <3> QED
      BY <3>1 DEF Mails, EnqueueOf
  <2>2. /\ queue' = Append(queue, Inbox!Cur) /\ pending' = pending /\ btw' = btw /\ chain' = chain /\ given' = given
    BY <1>16 DEF Inbox!ActorEnqueue, Inbox!turnState, Inbox!tasks
  <2>3. /\ Has(mailbox, EnqueueOf(Inbox!Cur)) /\ ~Has(mailbox', EnqueueOf(Inbox!Cur))
    BY <1>1, <1>4, <2>1, Tails
  <2>4. \A x : /\ Has(queue', x) <=> Has(queue, x) \/ x = Inbox!Cur
               /\ Once(queue, x) /\ ~(x = Inbox!Cur /\ Has(queue, x)) => Once(queue', x)
    <3>1. Inbox!Cur \in QueueInputs \cup {Note} /\ queue \in Seq(QueueInputs \cup {Note})
      BY <1>1, <2>1
    <3> QED
      BY <2>2, <3>1, Appending
  <2>5. ASSUME NEW j \in Inbox!Inputs, j # Inbox!Cur PROVE Stays(j)
    BY <1>6, <1>d, <2>n, <1>p, <1>s, <2>2, <2>4, <2>5
  <2>6. ASSUME NEW j \in Inbox!Inputs, j = Inbox!Cur PROVE Moves(j) /\ ~Has(queue, j)
    <3>1. At("mail", j)
      BY <2>3, <2>6, <1>d
    <3>2. h'[j].pc \notin {"new", "push"} /\ \A k \in Places : At(k, j) => k = "mail"
      BY <1>3, <1>k, <3>1
    <3>3. Moves(j)
      BY <1>6, <1>d, <2>n, <1>p, <1>k, <1>m, <2>2, <2>3, <2>4, <2>6, <3>2
    <3> QED
      BY <1>d, <1>k, <3>2, <3>3
  <2> QED
    BY <1>4, <1>6, <1>y, <2>2, <2>4, <2>5, <2>6
<1>17. ASSUME NEW i \in SteerInputs, NoSend, Inbox!PushSteer(i) PROVE Goal
  <2>n. \A i0 \in Inbox!Inputs :
                    /\ Then("mail", i0) => At("mail", i0)
                    /\ Then("launched", i0) => At("launched", i0)
    BY <1>n, <1>17
  <2>1. /\ queue' = queue /\ pending' = pending /\ btw' = Append(btw, i) /\ chain' = chain /\ given' = given
        /\ h[i].pc = "push" /\ h'[i].pc = "answer"
    BY <1>0, <1>17 DEF Inbox!PushSteer, Inbox!turnState, Inbox!history, Inbox!TypeOK, Inbox!Inputs
  <2>2. \A x : /\ Has(btw', x) <=> Has(btw, x) \/ x = i
               /\ Once(btw, x) /\ ~(x = i /\ Has(btw, x)) => Once(btw', x)
    BY <1>1, <2>1, Appending
  <2>3. \A k \in Places : ~At(k, i)
    BY <1>0, <1>1, <2>1 DEF SentOnce
  <2>4. ASSUME NEW j \in Inbox!Inputs, j # i PROVE Stays(j)
    BY <1>6, <1>d, <2>n, <1>p, <1>s, <2>1, <2>2, <2>4
  <2>5. Moves(i) /\ ~Has(btw, i)
    <3>1. Moves(i)
      BY <1>1, <1>6, <1>d, <2>n, <1>p, <1>k, <1>m, <2>1, <2>2, <2>3
    <3> QED
      BY <1>d, <1>k, <2>3, <3>1
  <2> QED
    BY <1>4, <1>6, <1>y, <2>1, <2>2, <2>4, <2>5
<1>18. ASSUME NEW i \in QueueInputs, NoSend, Inbox!MoveToSteers(i) PROVE Goal
  <2>n. \A i0 \in Inbox!Inputs :
                    /\ Then("mail", i0) => At("mail", i0)
                    /\ Then("launched", i0) => At("launched", i0)
    BY <1>n, <1>18
  <2>1. /\ queue' = Inbox!Without(queue, i) /\ pending' = pending /\ btw' = Append(btw, i) /\ chain' = chain
        /\ given' = given /\ Has(queue, i)
    BY <1>18 DEF Inbox!MoveToSteers, Inbox!turnState, Inbox!history, Inbox!In, Has
  <2>2. \A x : /\ Has(btw', x) <=> Has(btw, x) \/ x = i
               /\ Once(btw, x) /\ ~(x = i /\ Has(btw, x)) => Once(btw', x)
    BY <1>1, <2>1, Appending
  <2>3. \A x : (Has(queue', x) <=> Has(queue, x) /\ x # i) /\ (Once(queue, x) => Once(queue', x))
    BY <1>1, <2>1, WithoutIt
  <2>4. ASSUME NEW j \in Inbox!Inputs, j # i PROVE Stays(j)
    BY <1>6, <1>d, <2>n, <1>p, <1>s, <2>1, <2>2, <2>3, <2>4
  <2>5. Moves(i) /\ ~Has(btw, i)
    <3>1. At("queue", i) /\ i \in Inbox!Inputs
      BY <1>1, <1>d, <2>1
    <3>2. h'[i].pc \notin {"new", "push"} /\ \A k \in Places : At(k, i) => k = "queue"
      BY <1>3, <1>k, <3>1
    <3>3. Moves(i)
      BY <1>1, <1>6, <1>d, <2>n, <1>p, <1>k, <1>m, <2>1, <2>2, <2>3, <3>2
    <3> QED
      BY <1>d, <1>k, <3>2, <3>3
  <2> QED
    BY <1>4, <1>6, <1>y, <2>1, <2>2, <2>3, <2>4, <2>5
<1>19. ASSUME NoSend, Inbox!Execute PROVE Goal
  <2>n. \A i0 \in Inbox!Inputs :
                    /\ Then("mail", i0) => At("mail", i0)
                    /\ Then("launched", i0) => At("launched", i0)
    BY <1>n, <1>19
  <2>1. /\ mailbox # <<>> /\ mailbox' = Tail(mailbox) /\ Head(mailbox) = ExecuteOf(Inbox!Cur)
        /\ Inbox!Cur \in QueueInputs \cup {Note} /\ Head(mailbox).op = "execute"
    <3>1. /\ mailbox # <<>> /\ mailbox' = Tail(mailbox)
          /\ Head(mailbox) \in Mails /\ Head(mailbox).op = "execute" /\ Inbox!Cur = Head(mailbox).input
      BY <1>0, <1>19, Received DEF Inbox!Execute
    <3> QED
      BY <3>1 DEF Mails, ExecuteOf
  <2>2. /\ btw' = btw /\ chain' = chain /\ life' = life /\ turn'.id = turn.id
        /\ \/ pending' = pending /\ queue' = queue
           \/ pending' = queue /\ queue' = <<>>
    BY <1>0, <1>19 DEF Inbox!Execute, Inbox!TypeOK
  <2>3. turn.id >= 1
    <3>1. HasOp(mailbox, "execute")
      BY <1>1, <2>1, Tails
    <3> QED
      BY <1>0, <3>1 DEF OneAtATime, HandlersKnow
  <2>4. Inbox!Cur \in Inbox!Inputs =>
          At("launched", Inbox!Cur) /\ ~Has(mailbox', ExecuteOf(Inbox!Cur))
    BY <1>1, <1>4, <1>d, <2>1, Tails
  <2>5. /\ Inbox!GivenOncePerLife' /\ GiftsKnown'
        /\ \A i \in Inbox!Inputs : Then("given", i) => At("given", i) \/ i = Inbox!Cur
    <3>1. CASE Inbox!Cur = Note
      <4>1. given' = given
        BY <1>19, <3>1 DEF Inbox!Execute, Inbox!NoInput
      <4> QED
        BY <1>6, <4>1
    <3>2. CASE Inbox!Cur # Note
      <4>1. Inbox!Cur \in Inbox!Inputs /\ <<Inbox!Cur>> \in Seq(Inbox!Inputs) /\ Inbox!Give(<<Inbox!Cur>>)
        <5>1. Inbox!Cur \in Inbox!Inputs
          BY <1>1, <2>1, <3>2
        <5> QED
          BY <1>19, <3>2, <5>1 DEF Inbox!Execute, Inbox!NoInput
      <4>2. ~At("given", Inbox!Cur)
        BY <1>3, <1>k, <2>4, <4>1
      <4>3. \A x : Has(<<Inbox!Cur>>, x) <=> x = Inbox!Cur
        BY DEF Has
      <4>4. \A x : Once(<<Inbox!Cur>>, x)
        BY DEF Once
      <4>5. \A x : Has(<<Inbox!Cur>>, x) => ~At("given", x)
        BY <4>2, <4>3
      <4>6. /\ Inbox!GivenOncePerLife' /\ GiftsKnown'
            /\ \A i : At("given", i)' => At("given", i) \/ Has(<<Inbox!Cur>>, i)
        BY <1>0, <2>2, <2>3, <4>1, <4>4, <4>5, GiveOnce
      <4>7. \A i : Then("given", i) => At("given", i) \/ Has(<<Inbox!Cur>>, i)
        BY <4>6 DEF Then
      <4> QED
        BY <4>3, <4>6, <4>7
    <3> QED
      BY <3>1, <3>2
  <2>6. ASSUME NEW i \in Inbox!Inputs PROVE (Stays(i) \/ Moves(i)) /\ Inboxes(i)
    <3>1. Inboxes(i)
      BY <1>4, <2>2, Nothing
    <3>2. CASE i = Inbox!Cur
      <4>1. h'[i].pc \notin {"new", "push"} /\ \A k \in Places : At(k, i) => k = "launched"
        BY <1>3, <1>k, <2>4, <3>2
      <4>2. Moves(i)
        BY <1>d, <2>n, <1>p, <1>k, <1>m, <2>2, <2>4, <3>2, <4>1, Nothing
      <4> QED
        BY <3>1, <4>2
    <3>3. CASE i # Inbox!Cur /\ Has(queue, i) /\ pending' = queue /\ queue' = <<>>
      <4>1. At("queue", i)
        BY <3>3, <1>d
      <4>2. h'[i].pc \notin {"new", "push"} /\ \A k \in Places : At(k, i) => k = "queue"
        BY <1>3, <1>k, <4>1
      <4>3. Moves(i)
        BY <1>d, <2>n, <1>p, <1>k, <1>m, <2>2, <2>5, <3>3, <4>2, Nothing
      <4> QED
        BY <3>1, <4>3
    <3>4. CASE i # Inbox!Cur /\ ~(Has(queue, i) /\ pending' = queue /\ queue' = <<>>)
      <4>1. Stays(i)
        BY <1>d, <2>n, <1>p, <1>s, <2>2, <2>5, <3>4, Nothing
      <4> QED
        BY <3>1, <4>1
    <3> QED
      BY <3>2, <3>3, <3>4
  <2> HIDE DEF Inboxes
  <2> QED
    BY <1>y, <2>5, <2>6
<1>20. ASSUME NoSend, Inbox!TakeSteers PROVE Goal
  <2>n. \A i0 \in Inbox!Inputs :
                    /\ Then("mail", i0) => At("mail", i0)
                    /\ Then("launched", i0) => At("launched", i0)
    BY <1>n, <1>20
  <2> DEFINE s == btw \o Taken(pending)
  <2>1. /\ btw' = <<>> /\ pending' = <<>> /\ queue' = queue /\ chain' = chain /\ life' = life
        /\ turn'.id = turn.id /\ turn.pc = "steers" /\ Inbox!Give(s)
    BY <1>0, <1>20 DEF Inbox!TakeSteers, Inbox!TypeOK, Taken
  <2>2. turn.id >= 1
    BY <1>0, <2>1 DEF HandlersKnow
  <2>3. /\ Taken(pending) \in Seq(Inbox!Inputs)
        /\ \A x : Has(Taken(pending), x) => Has(pending, x) /\ x \in QueueInputs
        /\ \A x : Once(pending, x) => Once(Taken(pending), x)
    BY <1>0, <1>1, TakenIs
  <2>4. /\ s \in Seq(Inbox!Inputs)
        /\ \A x : Has(s, x) <=> Has(btw, x) \/ Has(Taken(pending), x)
        /\ \A x : Once(btw, x) /\ Once(Taken(pending), x) /\ ~(Has(btw, x) /\ Has(Taken(pending), x))
                    => Once(s, x)
    BY <1>1, <2>3, Joined
  <2> HIDE DEF s
  <2>5. \A x : Has(s, x) => x \in Inbox!Inputs /\ (At("btw", x) \/ At("pending", x))
    <3>1. \A x : Has(btw, x) => x \in Inbox!Inputs
      BY <1>1 DEF Has
    <3> QED
      BY <1>1, <1>d, <2>3, <2>4, <3>1
  <2>6. \A x : Has(s, x) => ~At("given", x)
    BY <1>3, <1>k, <2>5
  <2>7. \A x : Once(s, x)
    <3>1. ASSUME NEW x \in Inbox!Inputs PROVE Once(s, x)
      <4>1. ~(Has(btw, x) /\ Has(pending, x))
        BY <1>3, <1>d, <1>k
      <4> QED
        BY <1>4, <2>3, <2>4, <4>1
    <3>2. ASSUME NEW x, x \notin Inbox!Inputs PROVE Once(s, x)
      BY <2>5, <3>2 DEF Has, Once
    <3> QED
      BY <3>1, <3>2
  <2>8. Inbox!GivenOncePerLife' /\ GiftsKnown' /\ \A i : At("given", i)' => At("given", i) \/ Has(s, i)
    BY <1>0, <2>1, <2>2, <2>4, <2>6, <2>7, GiveOnce
  <2>9. \A i : Then("given", i) => At("given", i) \/ Has(s, i)
    BY <2>8 DEF Then
  <2>10. ASSUME NEW i \in Inbox!Inputs PROVE (Stays(i) \/ Moves(i)) /\ Inboxes(i)
    <3>1. Inboxes(i)
      BY <1>4, <2>1, Nothing
    <3>2. CASE Has(s, i)
      <4>1. PICK k \in {"btw", "pending"} : At(k, i)
        BY <2>5, <3>2
      <4>2. h'[i].pc \notin {"new", "push"} /\ \A l \in Places : At(l, i) => l = k
        BY <1>3, <1>k, <4>1
      <4>3. Moves(i)
        BY <1>d, <2>n, <1>p, <1>k, <1>m, <2>1, <4>1, <4>2, Nothing
      <4> QED
        BY <3>1, <4>3
    <3>3. CASE ~Has(s, i)
      <4>1. Stays(i)
        BY <1>d, <2>n, <1>p, <1>s, <2>1, <2>9, <3>3, Nothing
      <4> QED
        BY <3>1, <4>1
    <3> QED
      BY <3>2, <3>3
  <2> HIDE DEF Inboxes
  <2> QED
    BY <1>y, <2>8, <2>10
<1>21. ASSUME NoSend, Inbox!TakeQueue PROVE Goal
  <2>n. \A i0 \in Inbox!Inputs :
                    /\ Then("mail", i0) => At("mail", i0)
                    /\ Then("launched", i0) => At("launched", i0)
    BY <1>n, <1>21
  <2> DEFINE s == Taken(queue)
  <2>1. /\ btw' = btw /\ pending' \in {<<>>, <<Note>>} /\ queue' = <<>> /\ chain' = chain /\ life' = life
        /\ turn'.id = turn.id /\ turn.pc = "queued" /\ Inbox!Give(s)
    BY <1>0, <1>21 DEF Inbox!TakeQueue, Inbox!TypeOK, Taken
  <2>2. turn.id >= 1
    BY <1>0, <2>1 DEF HandlersKnow
  <2>3. /\ s \in Seq(Inbox!Inputs) /\ \A x : Has(s, x) => Has(queue, x) /\ x \in QueueInputs
        /\ \A x : Once(queue, x) => Once(s, x)
    BY <1>0, <1>1, TakenIs
  <2> HIDE DEF s
  <2>4. \A x : Has(pending', x) => x = Note
    BY <2>1, Nothing DEF Has
  <2>a. \A x : Once(pending', x)
    BY <2>1, Nothing DEF Once
  <2>5. \A x : Has(s, x) => x \in Inbox!Inputs /\ At("queue", x)
    BY <1>1, <1>d, <2>3
  <2>6. \A x : Has(s, x) => ~At("given", x)
    BY <1>3, <1>k, <2>5
  <2>7. \A x : Once(s, x)
    <3>1. ASSUME NEW x \in Inbox!Inputs PROVE Once(s, x)
      BY <1>4, <2>3
    <3>2. ASSUME NEW x, x \notin Inbox!Inputs PROVE Once(s, x)
      BY <2>5, <3>2 DEF Has, Once
    <3> QED
      BY <3>1, <3>2
  <2>8. Inbox!GivenOncePerLife' /\ GiftsKnown' /\ \A i : At("given", i)' => At("given", i) \/ Has(s, i)
    BY <1>0, <2>1, <2>2, <2>3, <2>6, <2>7, GiveOnce
  <2>9. \A i : Then("given", i) => At("given", i) \/ Has(s, i)
    BY <2>8 DEF Then
  <2>10. ASSUME NEW i \in Inbox!Inputs PROVE (Stays(i) \/ Moves(i)) /\ Inboxes(i)
    <3>1. Inboxes(i)
      BY <1>4, <2>1, <2>a, Nothing
    <3>0. i # Note
      BY <1>1
    <3>2. CASE Has(s, i)
      <4>2. h'[i].pc \notin {"new", "push"} /\ \A l \in Places : At(l, i) => l = "queue"
        BY <1>3, <1>k, <2>5, <3>2
      <4>3. Moves(i)
        BY <1>d, <2>n, <1>p, <1>k, <1>m, <2>1, <2>4, <3>0, <4>2, Nothing
      <4> QED
        BY <3>1, <4>3
    <3>3. CASE ~Has(s, i)
      <4>1. Stays(i)
        BY <1>d, <2>n, <1>p, <1>s, <2>1, <2>4, <2>9, <3>0, <3>3, Nothing
      <4> QED
        BY <3>1, <4>1
    <3> QED
      BY <3>2, <3>3
  <2> HIDE DEF Inboxes
  <2> QED
    BY <1>y, <2>8, <2>10
<1>22. ASSUME NoSend, Inbox!QueryEnds PROVE Goal
  <2>n. \A i0 \in Inbox!Inputs :
                    /\ Then("mail", i0) => At("mail", i0)
                    /\ Then("launched", i0) => At("launched", i0)
    BY <1>n, <1>22
  <2>1. /\ queue' = pending \o queue /\ pending' = <<>> /\ btw' = <<>> /\ chain' = chain /\ given' = given
    BY <1>22 DEF Inbox!QueryEnds, Inbox!history
  <2>2. /\ \A x : Has(queue', x) <=> Has(pending, x) \/ Has(queue, x)
        /\ \A x : Once(pending, x) /\ Once(queue, x) /\ ~(Has(pending, x) /\ Has(queue, x)) => Once(queue', x)
    BY <1>1, <2>1, Joined
  <2>3. ASSUME NEW i \in Inbox!Inputs PROVE (Stays(i) \/ Moves(i)) /\ Inboxes(i)
    <3>1. Inboxes(i)
      <4>1. ~(Has(pending, i) /\ Has(queue, i))
        BY <1>3, <1>d, <1>k
      <4> QED
        BY <1>4, <2>1, <2>2, <4>1, Nothing
    <3>2. CASE Has(pending, i)
      <4>1. At("pending", i)
        BY <1>d, <3>2
      <4>2. h'[i].pc \notin {"new", "push"} /\ \A l \in Places : At(l, i) => l = "pending"
        BY <1>3, <1>k, <4>1
      <4>3. Moves(i)
        BY <1>6, <1>d, <2>n, <1>p, <1>k, <1>m, <2>1, <4>2, Nothing
      <4> QED
        BY <3>1, <4>3
    <3>3. CASE ~Has(pending, i)
      <4>1. Stays(i)
        BY <1>6, <1>d, <2>n, <1>p, <1>s, <2>1, <2>2, <3>3, Nothing
      <4> QED
        BY <3>1, <4>1
    <3> QED
      BY <3>2, <3>3
  <2> HIDE DEF Inboxes
  <2> QED
    BY <1>6, <1>y, <2>1, <2>3
<1>23. ASSUME NoSend, Inbox!ActorPop PROVE Goal
  <2>n. \A i0 \in Inbox!Inputs :
                    /\ Then("mail", i0) => At("mail", i0)
                    /\ Then("launched", i0) => At("launched", i0)
    BY <1>n, <1>23
  <2>1. /\ pending' = pending /\ btw' = btw /\ given' = given
        /\ queue' = IF queue = <<>> THEN queue ELSE Tail(queue)
        /\ \/ queue # <<>> /\ Head(queue) # Note /\ chain'.input = Head(queue)
           \/ chain'.input = chain.input
    <3>1. \/ queue # <<>> /\ Head(queue) # Note /\ chain' = [chain EXCEPT !.pc = "popped", !.input = Head(queue)]
          \/ chain' = [chain EXCEPT !.pc = "pop", !.tries = 1]
          \/ chain' = [chain EXCEPT !.pc = "off"]
      BY <1>23 DEF Inbox!ActorPop
    <3>2. DOMAIN chain = {"pc", "tries", "input"}
      BY <1>0 DEF Inbox!TypeOK
    <3>3. \/ queue # <<>> /\ Head(queue) # Note /\ chain'.input = Head(queue)
          \/ chain'.input = chain.input
      BY <3>1, <3>2
    <3> QED
      BY <1>23, <3>3 DEF Inbox!ActorPop, Inbox!turnState, Inbox!history
  <2>2. /\ \A x : Has(queue', x) => Has(queue, x)
        /\ \A x : Once(queue, x) => Once(queue', x)
        /\ queue # <<>> => Has(queue, Head(queue)) /\ (Once(queue, Head(queue)) => ~Has(queue', Head(queue)))
    BY <1>1, <2>1, Tails
  <2>3. ASSUME NEW i \in Inbox!Inputs PROVE (Stays(i) \/ Moves(i)) /\ Inboxes(i)
    <3>1. Inboxes(i)
      BY <1>4, <2>1, <2>2
    <3>2. CASE queue # <<>> /\ i = Head(queue)
      <4>1. At("queue", i) /\ ~Has(queue', i)
        BY <1>4, <1>d, <2>2, <3>2
      <4>2. h'[i].pc \notin {"new", "push"} /\ \A l \in Places : At(l, i) => l = "queue"
        BY <1>3, <1>k, <4>1
      <4>3. Moves(i)
        BY <1>6, <1>d, <2>n, <1>p, <1>k, <1>m, <2>1, <4>1, <4>2
      <4> QED
        BY <3>1, <4>3
    <3>3. CASE ~(queue # <<>> /\ i = Head(queue))
      <4>1. Stays(i)
        BY <1>6, <1>d, <2>n, <1>p, <1>s, <2>1, <2>2, <3>3
      <4> QED
        BY <3>1, <4>1
    <3> QED
      BY <3>2, <3>3
  <2> HIDE DEF Inboxes
  <2> QED
    BY <1>6, <1>y, <2>1, <2>3
<1>24. ASSUME NoSend, Inbox!Load PROVE Goal
  <2>n. \A i0 \in Inbox!Inputs :
                    /\ Then("mail", i0) => At("mail", i0)
                    /\ Then("launched", i0) => At("launched", i0)
    BY <1>n, <1>24
  <2>1. /\ queue' = rows /\ pending' = pending /\ btw' = btw /\ mailbox' = mailbox /\ chain' = chain
        /\ given' = given /\ life' = life + 1 /\ ~up /\ h' = h
    BY <1>24 DEF Inbox!Load, Inbox!turnState, Inbox!tasks
  <2>2. /\ mailbox = <<>> /\ pending = <<>> /\ btw = <<>> /\ chain.input \notin QueueInputs
        /\ chain.input \in QueueInputs \cup {Note}
    BY <1>0, <2>1 DEF AtRest, Inbox!TypeOK, Inbox!NoInput
  <2>3. \A i : Has(rows, i) => i \in QueueInputs
    BY <1>1 DEF Has
  <2>4. \A i \in Inbox!Inputs : Has(rows, i) => h[i].pc \notin {"new", "push"}
    <3>1. ASSUME NEW i \in QueueInputs, Has(rows, i) PROVE h[i].pc \notin {"new", "push"}
      BY <1>0, <3>1 DEF SentOnce, HandlersKnow
    <3> QED
      BY <2>3, <3>1
  <2>5. \A i : Once(rows, i)
    <3>1. ASSUME NEW i, i \notin QueueInputs PROVE Once(rows, i)
      BY <2>3, <3>1 DEF Has, Once
    <3> QED
      BY <1>0, <3>1 DEF SentOnce
  <2>6. \A i : ~Then("given", i)
    <3>1. life' # life
      BY <1>1, <2>1
    <3> QED
      BY <1>6, <2>1, <3>1
  <2>7. ASSUME NEW i \in Inbox!Inputs PROVE (Stays(i) \/ Moves(i)) /\ Inboxes(i)
    <3>1. Inboxes(i)
      BY <1>4, <2>1, <2>5
    <3>2. chain'.input # i
      BY <1>1, <2>1, <2>2
    <3>3. CASE Has(rows, i)
      <4>1. Moves(i)
        BY <1>24, <1>d, <1>p, <1>k, <1>m, <2>1, <2>2, <2>4, <2>6, <3>2, <3>3, Nothing
      <4> QED
        BY <3>1, <4>1
    <3>4. CASE ~Has(rows, i)
      <4>1. Stays(i)
        BY <1>24, <1>p, <1>s, <2>1, <2>2, <2>6, <3>2, <3>4, Nothing
      <4> QED
        BY <3>1, <4>1
    <3> QED
      BY <3>3, <3>4
  <2> HIDE DEF Inboxes
  <2> QED
    BY <1>6, <1>y, <2>1, <2>7
<1>25. Goal
  <2>1. CASE NoSend
    BY <2>1, <1>8, <1>9, <1>10, <1>11, <1>12, <1>13, <1>14, <1>16, <1>17, <1>18, <1>19, <1>20, <1>21, <1>22,
       <1>23, <1>24, <1>15 DEF Inbox!Next, Inbox!Turn
  <2> QED
    BY <2>1, <1>14, <1>15 DEF NoSend
<1>26. \A i \in Inbox!Inputs : Inboxes(i) /\ (Stays(i) \/ Moves(i))
  BY <1>25 DEF Goal
<1>27. ASSUME NEW i \in Inbox!Inputs PROVE Once(mailbox', EnqueueOf(i)) /\ Once(mailbox', ExecuteOf(i))
  <2>1. i \in QueueInputs /\ Inbox!QueueInput(i) => ~Has(mailbox, EnqueueOf(i))
    <3>1. i \in QueueInputs /\ Inbox!QueueInput(i) => h[i].pc = "new"
      BY DEF Inbox!QueueInput
    <3> QED
      BY <1>3, <1>0, <1>d, <1>k, <3>1 DEF SentOnce
  <2>2. Inbox!Activate /\ chain.input = i => ~Has(mailbox, ExecuteOf(i))
    BY <1>3, <1>d, <1>k
  <2> QED
    BY <1>0, <1>4, <2>1, <2>2, MailMoves
<1>28. ASSUME NEW i \in Inbox!Inputs
       PROVE  /\ \A k, l \in Places : Then(k, i) /\ Then(l, i) => k = l
              /\ h'[i].pc \in {"new", "push"} => \A k \in Places : ~Then(k, i)
  <2>1. CASE Stays(i)
    <3>1. \A k \in Places : Then(k, i) => At(k, i)
      BY <2>1 DEF Stays
    <3>2. \A k \in Places : At(k, i) => h'[i].pc \notin {"new", "push"} /\ \A l \in Places : At(l, i) => l = k
      BY <1>3
    <3> QED
      BY <3>1, <3>2
  <2>2. CASE Moves(i)
    BY <2>2 DEF Moves
  <2> QED
    BY <1>26, <2>1, <2>2
<1>29. Inbox!GivenOncePerLife' /\ GiftsKnown'
  BY <1>25 DEF Goal
<1>30. OnePlace'
  BY <1>28 DEF OnePlace, Then
<1>31. OnceThere'
  BY <1>26, <1>27 DEF OnceThere
<1> QED
  BY <1>28, <1>29, <1>30, <1>31 DEF Then

-----------------------------------------------------------------------------
(* Who changes what.                                                         *)
LEMMA Changed ==
  ASSUME [Inbox!Next]_(Inbox!vars)
  PROVE  /\ \/ rows' = rows \/ Inbox!ErasePopped \/ Inbox!Load
            \/ \E i \in QueueInputs : Inbox!WriteRow(i) \/ Inbox!EraseRemoved(i) \/ Inbox!EraseSteered(i)
         /\ \/ h' = h \/ Inbox!Unload
            \/ \E i \in QueueInputs : Inbox!QueueInput(i) \/ Inbox!WriteRow(i)
            \/ \E i \in SteerInputs : Inbox!Steer(i) \/ Inbox!PushSteer(i) \/ Inbox!AnswerSteer(i)
         /\ \/ requests' = requests \/ Inbox!ActorRemove \/ Inbox!Unload
            \/ \E i \in QueueInputs :
                 \/ Inbox!SendRemove(i) \/ Inbox!EraseRemoved(i) \/ Inbox!QueueSteer(i)
                 \/ Inbox!MoveToSteers(i) \/ Inbox!MoveNothing(i) \/ Inbox!EraseSteered(i)
         /\ \/ queue' = queue \/ Inbox!ActorEnqueue \/ Inbox!ActorRemove \/ Inbox!Execute \/ Inbox!TakeQueue \/ Inbox!QueryEnds
            \/ Inbox!ActorPop \/ Inbox!Unload \/ Inbox!Load \/ \E i \in QueueInputs : Inbox!MoveToSteers(i)
         /\ \/ pending' = pending \/ Inbox!Execute \/ Inbox!TakeSteers \/ Inbox!TakeQueue \/ Inbox!QueryEnds \/ Inbox!Unload
         /\ \/ btw' = btw \/ Inbox!TakeSteers \/ Inbox!QueryEnds \/ Inbox!ClearSteers \/ Inbox!Unload
            \/ (\E i \in QueueInputs : Inbox!MoveToSteers(i)) \/ (\E i \in SteerInputs : Inbox!PushSteer(i))
         /\ given' = given \/ Inbox!Execute \/ Inbox!TakeSteers \/ Inbox!TakeQueue
         /\ \/ turn' = turn \/ Inbox!StartTurn \/ Inbox!Activate \/ Inbox!Unload \/ Inbox!CloseTurn \/ Inbox!Execute
            \/ Inbox!TakeSteers \/ Inbox!TakeQueue \/ Inbox!ModelGoesOn \/ Inbox!QueryEnds \/ Inbox!QueryFails
            \/ Inbox!ClearHandles \/ Inbox!ClearSteers
<1> USE DEF Inbox!memory, Inbox!turnState, Inbox!tasks, Inbox!history, Inbox!vars
<1>1. ASSUME NEW i \in QueueInputs, Inbox!QueueInput(i) \/ Inbox!WriteRow(i) \/ Inbox!SendRemove(i) \/ Inbox!QueueSteer(i)
      PROVE  queue' = queue /\ pending' = pending /\ btw' = btw /\ given' = given /\ turn' = turn
  BY <1>1 DEF Inbox!QueueInput, Inbox!WriteRow, Inbox!SendRemove, Inbox!QueueSteer
<1>2. ASSUME NEW i \in QueueInputs,
             Inbox!EraseRemoved(i) \/ Inbox!MoveToSteers(i) \/ Inbox!MoveNothing(i) \/ Inbox!EraseSteered(i)
      PROVE  pending' = pending /\ given' = given /\ turn' = turn /\ h' = h
  BY <1>2 DEF Inbox!EraseRemoved, Inbox!MoveToSteers, Inbox!MoveNothing, Inbox!EraseSteered
<1>3. ASSUME NEW i \in QueueInputs, Inbox!EraseRemoved(i) \/ Inbox!MoveNothing(i) \/ Inbox!EraseSteered(i)
      PROVE  queue' = queue /\ btw' = btw
  BY <1>3 DEF Inbox!EraseRemoved, Inbox!MoveNothing, Inbox!EraseSteered
<1>4. ASSUME NEW i \in QueueInputs,
             Inbox!QueueInput(i) \/ Inbox!SendRemove(i) \/ Inbox!QueueSteer(i) \/ Inbox!MoveToSteers(i) \/ Inbox!MoveNothing(i)
      PROVE  rows' = rows
  BY <1>4 DEF Inbox!QueueInput, Inbox!SendRemove, Inbox!QueueSteer, Inbox!MoveToSteers, Inbox!MoveNothing
<1>5. ASSUME NEW i \in QueueInputs, Inbox!QueueInput(i) \/ Inbox!WriteRow(i) PROVE requests' = requests
  BY <1>5 DEF Inbox!QueueInput, Inbox!WriteRow
<1>6. ASSUME NEW i \in QueueInputs, Inbox!SendRemove(i) \/ Inbox!QueueSteer(i) PROVE h' = h
  BY <1>6 DEF Inbox!SendRemove, Inbox!QueueSteer
<1>7. ASSUME NEW i \in SteerInputs, Inbox!Steer(i) \/ Inbox!PushSteer(i) \/ Inbox!AnswerSteer(i)
      PROVE  /\ queue' = queue /\ pending' = pending /\ given' = given /\ turn' = turn /\ rows' = rows
             /\ requests' = requests
  BY <1>7 DEF Inbox!Steer, Inbox!PushSteer, Inbox!AnswerSteer
<1>8. ASSUME NEW i \in SteerInputs, Inbox!Steer(i) \/ Inbox!AnswerSteer(i) PROVE btw' = btw
  BY <1>8 DEF Inbox!Steer, Inbox!AnswerSteer
<1>9. ASSUME \/ Inbox!StartTurn \/ Inbox!ModelGoesOn \/ Inbox!QueryFails \/ Inbox!ClearHandles \/ Inbox!CloseTurn \/ Inbox!SendPop
             \/ Inbox!Activate
      PROVE  /\ queue' = queue /\ pending' = pending /\ btw' = btw /\ given' = given /\ rows' = rows
             /\ requests' = requests /\ h' = h
  BY <1>9 DEF Inbox!StartTurn, Inbox!ModelGoesOn, Inbox!QueryFails, Inbox!ClearHandles, Inbox!CloseTurn, Inbox!SendPop, Inbox!Activate
<1>10. ASSUME Inbox!ActorEnqueue \/ Inbox!ActorRemove \/ Inbox!ActorPop
       PROVE  pending' = pending /\ btw' = btw /\ given' = given /\ rows' = rows /\ h' = h /\ turn' = turn
  BY <1>10 DEF Inbox!ActorEnqueue, Inbox!ActorRemove, Inbox!ActorPop
<1>11. ASSUME Inbox!ActorEnqueue \/ Inbox!ActorPop \/ Inbox!SendPop \/ Inbox!ErasePopped
       PROVE  requests' = requests /\ turn' = turn /\ h' = h
  BY <1>11 DEF Inbox!ActorEnqueue, Inbox!ActorPop, Inbox!SendPop, Inbox!ErasePopped
<1>12. ASSUME Inbox!Execute \/ Inbox!TakeSteers \/ Inbox!TakeQueue \/ Inbox!QueryEnds \/ Inbox!ClearSteers
       PROVE  rows' = rows /\ requests' = requests /\ h' = h
  BY <1>12 DEF Inbox!Execute, Inbox!TakeSteers, Inbox!TakeQueue, Inbox!QueryEnds, Inbox!ClearSteers
<1>13. /\ Inbox!Execute \/ Inbox!TakeQueue => btw' = btw
       /\ Inbox!TakeSteers \/ Inbox!ClearSteers => queue' = queue
       /\ Inbox!QueryEnds \/ Inbox!ClearSteers => given' = given
       /\ Inbox!ClearSteers => pending' = pending
  BY DEF Inbox!Execute, Inbox!TakeSteers, Inbox!TakeQueue, Inbox!QueryEnds, Inbox!ClearSteers
<1>14. Inbox!ErasePopped \/ Inbox!Load => pending' = pending /\ btw' = btw /\ given' = given
  BY DEF Inbox!ErasePopped, Inbox!Load
<1>15. /\ Inbox!ErasePopped => queue' = queue
       /\ Inbox!Load => h' = h /\ requests' = requests /\ turn' = turn
       /\ Inbox!Unload => given' = given /\ rows' = rows
  BY DEF Inbox!ErasePopped, Inbox!Load, Inbox!Unload
<1>16. UNCHANGED Inbox!vars =>
         /\ queue' = queue /\ pending' = pending /\ btw' = btw /\ given' = given /\ rows' = rows
         /\ requests' = requests /\ h' = h /\ turn' = turn
  OBVIOUS
<1> QED
  BY <1>1, <1>2, <1>3, <1>4, <1>5, <1>6, <1>7, <1>8, <1>9, <1>10, <1>11, <1>12, <1>13, <1>14, <1>15,
     <1>16 DEF Inbox!Next, Inbox!Turn

(* The rows that are lost, and those that are not.                           *)
LEMMA RowMoves ==
  ASSUME Inbox!TypeOK, [Inbox!Next]_(Inbox!vars)
  PROVE  /\ \A i \in QueueInputs : Inbox!WriteRow(i) => Has(rows', i)
         /\ \A i \in QueueInputs : Has(rows', i) => Has(rows, i) \/ Inbox!WriteRow(i)
         /\ \A i \in QueueInputs : Once(rows, i) /\ (Inbox!WriteRow(i) => ~Has(rows, i)) => Once(rows', i)
         /\ \A i \in QueueInputs : Has(rows, i) /\ ~Has(rows', i) =>
              Inbox!EraseRemoved(i) \/ Inbox!EraseSteered(i) \/ (Inbox!ErasePopped /\ chain.input = i) \/ Inbox!Load
<1> DEFINE Goal == /\ \A i \in QueueInputs : Inbox!WriteRow(i) => Has(rows', i)
                   /\ \A i \in QueueInputs : Has(rows', i) => Has(rows, i) \/ Inbox!WriteRow(i)
                   /\ \A i \in QueueInputs :
                        Once(rows, i) /\ (Inbox!WriteRow(i) => ~Has(rows, i)) => Once(rows', i)
                   /\ \A i \in QueueInputs : Has(rows, i) /\ ~Has(rows', i) =>
                        Inbox!EraseRemoved(i) \/ Inbox!EraseSteered(i) \/ (Inbox!ErasePopped /\ chain.input = i) \/ Inbox!Load
<1>0. rows \in Seq(QueueInputs)
  BY InboxTypes
<1>1. ASSUME NEW i \in QueueInputs, Inbox!WriteRow(i) PROVE Has(rows', i)
  <2>1. rows' = Append(rows, i)
    BY <1>1 DEF Inbox!WriteRow
  <2> QED
    BY <1>0, <2>1, Appending
<1>2. ASSUME NEW i \in QueueInputs, Inbox!WriteRow(i) PROVE Goal
  <2>1. rows' = Append(rows, i)
    BY <1>2 DEF Inbox!WriteRow
  <2>2. \A x : /\ Has(rows', x) <=> Has(rows, x) \/ x = i
               /\ Once(rows, x) /\ ~(x = i /\ Has(rows, x)) => Once(rows', x)
    BY <1>0, <2>1, Appending
  <2> QED
    BY <1>1, <1>2, <2>2
<1>3. ASSUME NEW x, rows' = Inbox!Without(rows, x)
      PROVE  /\ \A y : (Has(rows', y) <=> Has(rows, y) /\ y # x)
             /\ \A y : Once(rows, y) => Once(rows', y)
  BY <1>0, <1>3, WithoutIt
<1>4. ASSUME NEW i \in QueueInputs, Inbox!EraseRemoved(i) \/ Inbox!EraseSteered(i) PROVE Goal
  <2>1. rows' = Inbox!Without(rows, i)
    BY <1>4 DEF Inbox!EraseRemoved, Inbox!EraseSteered
  <2> QED
    BY <1>1, <1>3, <1>4, <2>1
<1>5. ASSUME Inbox!ErasePopped PROVE Goal
  <2>1. rows' = Inbox!Without(rows, chain.input)
    BY <1>5 DEF Inbox!ErasePopped
  <2> QED
    BY <1>1, <1>3, <1>5, <2>1
<1>6. ASSUME Inbox!Load PROVE Goal
  <2>1. rows' = <<>>
    BY <1>6 DEF Inbox!Load
  <2> QED
    BY <1>1, <1>6, <2>1, Nothing
<1>7. ASSUME rows' = rows PROVE Goal
  BY <1>1, <1>7
<1> HIDE DEF Goal
<1>8. Goal
  BY <1>2, <1>4, <1>5, <1>6, <1>7, Changed
<1> QED
  BY <1>8 DEF Goal

(* What becomes of the answers and of the two requests about queued inputs.  *)
LEMMA RequestMoves ==
  ASSUME Inbox!TypeOK, [Inbox!Next]_(Inbox!vars)
  PROVE  \A i \in QueueInputs :
           /\ h'[i].reply = "Queued" => h[i].reply = "Queued" \/ Inbox!WriteRow(i)
           /\ h'[i].life = h[i].life \/ Inbox!QueueInput(i)
           /\ requests'[i].pc \in {"erase", "unrow"} =>
                \/ requests[i].pc \in {"erase", "unrow"}
                \/ Inbox!ActorRemove /\ Inbox!Cur = i /\ Has(queue, i)
                \/ Inbox!MoveToSteers(i)
<1> DEFINE Hs == \A i \in QueueInputs :
                   /\ h'[i].reply = "Queued" => h[i].reply = "Queued" \/ Inbox!WriteRow(i)
                   /\ h'[i].life = h[i].life \/ Inbox!QueueInput(i)
           Qs == \A i \in QueueInputs : requests'[i].pc \in {"erase", "unrow"} =>
                   \/ requests[i].pc \in {"erase", "unrow"}
                   \/ Inbox!ActorRemove /\ Inbox!Cur = i /\ Has(queue, i)
                   \/ Inbox!MoveToSteers(i)
<1>h. /\ DOMAIN h = Inbox!Inputs /\ DOMAIN requests = QueueInputs
      /\ \A i \in Inbox!Inputs : DOMAIN h[i] = {"pc", "turn", "life", "reply", "intime"}
      /\ \A i \in QueueInputs : DOMAIN requests[i] = {"pc", "reply"}
      /\ QueueInputs \subseteq Inbox!Inputs /\ SteerInputs \subseteq Inbox!Inputs
      /\ QueueInputs \cap SteerInputs = {}
  <2>1. /\ QueueInputs \subseteq Inbox!Inputs /\ SteerInputs \subseteq Inbox!Inputs
        /\ QueueInputs \cap SteerInputs = {}
    BY InboxTypes
  <2> QED
    BY <2>1 DEF Inbox!TypeOK
<1>1. ASSUME NEW i \in QueueInputs, Inbox!QueueInput(i) PROVE Hs
  BY <1>1, <1>h DEF Inbox!QueueInput
<1>2. ASSUME NEW i \in QueueInputs, Inbox!WriteRow(i) PROVE Hs
  <2>1. h' = [h EXCEPT ![i].pc = "done", ![i].reply = "Queued"]
    BY <1>2 DEF Inbox!WriteRow
  <2> QED
    BY <1>2, <1>h, <2>1
<1>3. ASSUME NEW i \in SteerInputs, Inbox!Steer(i) \/ Inbox!PushSteer(i) \/ Inbox!AnswerSteer(i) PROVE Hs
  <2>1. \E r : h' = [h EXCEPT ![i] = r]
    BY <1>3 DEF Inbox!Steer, Inbox!PushSteer, Inbox!AnswerSteer
  <2>2. \A j \in QueueInputs : j # i
    BY <1>h
  <2> QED
    BY <1>h, <2>1, <2>2
<1>4. ASSUME Inbox!Unload PROVE Hs /\ Qs
  BY <1>4, <1>h, UnloadLeaves
<1>5. Hs
  <2> HIDE DEF Hs
  <2>1. h' = h => Hs
    BY DEF Hs
  <2> QED
    BY <1>1, <1>2, <1>3, <1>4, <2>1, Changed
<1>6. ASSUME NEW i \in QueueInputs,
             \/ Inbox!SendRemove(i) \/ Inbox!EraseRemoved(i) \/ Inbox!QueueSteer(i)
             \/ Inbox!MoveNothing(i) \/ Inbox!EraseSteered(i)
      PROVE  Qs
  <2>1. \E p \in {"removing", "done", "move"} :
             \/ requests' = [requests EXCEPT ![i].pc = p]
             \/ \E r : requests' = [requests EXCEPT ![i].pc = p, ![i].reply = r]
    BY <1>6 DEF Inbox!SendRemove, Inbox!EraseRemoved, Inbox!QueueSteer, Inbox!MoveNothing, Inbox!EraseSteered
  <2> QED
    BY <1>h, <2>1
<1>7. ASSUME NEW i \in QueueInputs, Inbox!MoveToSteers(i) PROVE Qs
  <2>1. requests' = [requests EXCEPT ![i].pc = "unrow"]
    BY <1>7 DEF Inbox!MoveToSteers
  <2> QED
    BY <1>7, <1>h, <2>1
<1>8. ASSUME Inbox!ActorRemove PROVE Qs
  <2>0. Inbox!Cur \in QueueInputs
    <3>1. Head(mailbox) \in Mails /\ Head(mailbox).op = "remove" /\ Inbox!Cur = Head(mailbox).input
      BY <1>8, Received DEF Inbox!ActorRemove
    <3> QED
      BY <3>1 DEF Mails
  <2>1. \/ requests' = [requests EXCEPT ![Inbox!Cur] = [requests[Inbox!Cur] EXCEPT !.pc = "erase"]] /\ Has(queue, Inbox!Cur)
        \/ requests' = [requests EXCEPT ![Inbox!Cur] = [requests[Inbox!Cur] EXCEPT !.pc = "done", !.reply = "NotRemoved"]]
    BY <1>8 DEF Inbox!ActorRemove, Inbox!In, Has
  <2> QED
    BY <1>8, <1>h, <2>0, <2>1
<1>9. Qs
  <2> HIDE DEF Qs
  <2>1. requests' = requests => Qs
    BY DEF Qs
  <2> QED
    BY <1>4, <1>6, <1>7, <1>8, <2>1, Changed
<1> QED
  BY <1>5, <1>9

-----------------------------------------------------------------------------
(* Who starts to wait: an input that a client sends, one that a restart      *)
(* finds.                                                                    *)
LEMMA WaitMoves ==
  ASSUME Inbox!TypeOK, [Inbox!Next]_(Inbox!vars)
  PROVE  \A i \in QueueInputs : Waits(i)' => Waits(i) \/ Inbox!QueueInput(i) \/ Inbox!Load
<1> DEFINE Before(i) == Has(mailbox, EnqueueOf(i)) \/ Has(queue, i) \/ Has(pending, i)
           Goal == \A i \in QueueInputs : Has(queue', i) \/ Has(pending', i) => Before(i)
<1>0. /\ mailbox \in Seq(Mails) /\ queue \in Seq(QueueInputs \cup {Note})
      /\ pending \in Seq(QueueInputs \cup {Note}) /\ Note \notin QueueInputs
      /\ QueueInputs \subseteq Inbox!Inputs
  BY InboxTypes DEF Inbox!Inputs
<1>1. \A i : Waits(i) <=> Before(i)
  BY DEF Waits, At
<1>2. \A i : Waits(i)' <=> Has(mailbox', EnqueueOf(i)) \/ Has(queue', i) \/ Has(pending', i)
  BY DEF Waits, At
<1>3. ASSUME queue' = queue, pending' = pending PROVE Goal
  BY <1>3
<1>4. ASSUME Inbox!ActorEnqueue PROVE Goal
  <2>1. /\ mailbox # <<>> /\ Head(mailbox) = EnqueueOf(Inbox!Cur) /\ Inbox!Cur \in QueueInputs
    <3>1. Head(mailbox) \in Mails /\ mailbox # <<>> /\ Head(mailbox).op = "enqueue" /\ Inbox!Cur = Head(mailbox).input
      BY <1>4, Received DEF Inbox!ActorEnqueue
    <3> QED
      BY <3>1 DEF Mails, EnqueueOf
  <2>2. queue' = Append(queue, Inbox!Cur) /\ pending' = pending
    BY <1>4 DEF Inbox!ActorEnqueue, Inbox!turnState
  <2>3. Has(mailbox, EnqueueOf(Inbox!Cur))
    BY <1>0, <2>1, Tails
  <2>4. \A x : Has(queue', x) <=> Has(queue, x) \/ x = Inbox!Cur
    <3>1. Inbox!Cur \in QueueInputs \cup {Note} /\ queue \in Seq(QueueInputs \cup {Note})
      BY <1>0, <2>1
    <3> QED
      BY <2>2, <3>1, Appending
  <2> QED
    BY <2>2, <2>3, <2>4
<1>5. ASSUME NEW x, queue' = Inbox!Without(queue, x), pending' = pending PROVE Goal
  <2>1. \A y : Has(queue', y) => Has(queue, y)
    BY <1>0, <1>5, WithoutIt
  <2> QED
    BY <1>5, <2>1
<1>6. ASSUME Inbox!ActorRemove PROVE Goal
  <2>1. queue' = Inbox!Without(queue, Inbox!Cur) /\ pending' = pending
    BY <1>6 DEF Inbox!ActorRemove, Inbox!turnState
  <2> HIDE DEF Goal
  <2> QED
    BY <1>5, <2>1
<1>7. ASSUME NEW i \in QueueInputs, Inbox!MoveToSteers(i) PROVE Goal
  <2>1. queue' = Inbox!Without(queue, i) /\ pending' = pending
    BY <1>7 DEF Inbox!MoveToSteers, Inbox!turnState
  <2> HIDE DEF Goal
  <2> QED
    BY <1>5, <2>1
<1>8. ASSUME Inbox!Execute PROVE Goal
  BY <1>8, Nothing DEF Inbox!Execute
<1>9. ASSUME Inbox!TakeSteers PROVE Goal
  <2>1. queue' = queue /\ pending' = <<>>
    BY <1>9 DEF Inbox!TakeSteers
  <2> QED
    BY <2>1, Nothing
<1>10. ASSUME Inbox!TakeQueue PROVE Goal
  <2>1. queue' = <<>> /\ pending' \in {<<>>, <<Note>>}
    BY <1>10 DEF Inbox!TakeQueue
  <2>2. \A x : Has(pending', x) => x = Note
    BY <2>1 DEF Has
  <2> QED
    BY <1>0, <2>1, <2>2, Nothing
<1>11. ASSUME Inbox!QueryEnds PROVE Goal
  <2>1. queue' = pending \o queue /\ pending' = <<>>
    BY <1>11 DEF Inbox!QueryEnds
  <2>2. \A x : Has(queue', x) <=> Has(pending, x) \/ Has(queue, x)
    BY <1>0, <2>1, Joined
  <2> QED
    BY <2>1, <2>2, Nothing
<1>12. ASSUME Inbox!ActorPop PROVE Goal
  <2>1. queue' = (IF queue = <<>> THEN queue ELSE Tail(queue)) /\ pending' = pending
    BY <1>12 DEF Inbox!ActorPop, Inbox!turnState
  <2>2. queue # <<>> => \A x : Has(Tail(queue), x) => Has(queue, x)
    BY <1>0, Tails
  <2> QED
    BY <2>1, <2>2
<1>13. ASSUME Inbox!Unload PROVE Goal
  BY <1>13, UnloadLeaves, Nothing
<1> HIDE DEF Goal
<1>14. Goal \/ Inbox!Load
  BY <1>3, <1>4, <1>6, <1>7, <1>8, <1>9, <1>10, <1>11, <1>12, <1>13, Changed
<1>15. \A i \in QueueInputs : Has(mailbox', EnqueueOf(i)) => Has(mailbox, EnqueueOf(i)) \/ Inbox!QueueInput(i)
  BY <1>0, MailMoves
<1> QED
  BY <1>1, <1>2, <1>14, <1>15 DEF Goal

(* A row is written once, and before it is written there is none.            *)
LEMMA SentStep ==
  ASSUME InputInv, [Inbox!Next]_(Inbox!vars)
  PROVE  SentOnce'
<1>0. /\ Inbox!TypeOK /\ HandlersKnow /\ OneAtATime /\ SentOnce /\ HandlersKnow'
  BY HandlersStep DEF InputInv
<1>1. \A i \in Inbox!Inputs : h'[i].pc \in {"new", "push"} => \A k \in Places : ~At(k, i)'
  BY PlacesStep
<1>2. ASSUME NEW i \in QueueInputs
      PROVE  (h'[i].pc \in {"new", "row"} => ~Has(rows', i)) /\ Once(rows', i)
  <2>1. (h[i].pc \in {"new", "row"} => ~Has(rows, i)) /\ Once(rows, i)
    BY <1>0 DEF SentOnce
  <2>2. h'[i].pc \in {"new", "row"} => h[i].pc \in {"new", "row"}
    BY <1>0, HandlersStep
  <2>3. Inbox!WriteRow(i) => h[i].pc = "row" /\ h'[i].pc = "done"
    <3>1. Inbox!WriteRow(i) => h[i].pc = "row" /\ h' = [h EXCEPT ![i].pc = "done", ![i].reply = "Queued"]
      BY DEF Inbox!WriteRow
    <3>2. i \in DOMAIN h /\ DOMAIN h[i] = {"pc", "turn", "life", "reply", "intime"}
      BY <1>0 DEF Inbox!TypeOK, Inbox!Inputs
    <3> QED
      BY <3>1, <3>2
  <2>4. /\ Has(rows', i) => Has(rows, i) \/ Inbox!WriteRow(i)
        /\ Once(rows, i) /\ (Inbox!WriteRow(i) => ~Has(rows, i)) => Once(rows', i)
    BY <1>0, RowMoves
  <2> QED
    BY <2>1, <2>2, <2>3, <2>4
<1> QED
  BY <1>1, <1>2 DEF SentOnce

(* A row goes when its input has left the queue, or with its life.           *)
LEMMA DurableStep ==
  ASSUME InputInv, [Inbox!Next]_(Inbox!vars)
  PROVE  WaitsOnDisk'
<1>0. /\ Inbox!TypeOK /\ AtRest /\ HandlersKnow /\ OneAtATime /\ OnePlace /\ OnceThere /\ WaitsOnDisk
      /\ HandlersKnow' /\ OnePlace'
  BY HandlersStep, PlacesStep DEF InputInv
<1>t. QueueInputs \subseteq Inbox!Inputs /\ life \in Nat /\ queue \in Seq(QueueInputs \cup {Note})
  BY <1>0, InboxTypes
<1>p. \A k, l \in Places : \A i \in Inbox!Inputs : At(k, i) /\ At(l, i) => k = l
  BY <1>0 DEF OnePlace
<1>k. "mail" \in Places /\ "queue" \in Places /\ "pending" \in Places /\ "btw" \in Places
      /\ "chain" \in Places
  BY DEF Places
<1>1. ASSUME NEW i \in QueueInputs, Inbox!QueueInput(i)
      PROVE  h'[i].reply # "Queued" /\ requests'[i].pc = "new"
  <2>1. h'[i].pc = "row"
    <3>1. h' = [h EXCEPT ![i].pc = "row", ![i].life = life]
      BY <1>1 DEF Inbox!QueueInput
    <3>2. i \in DOMAIN h /\ DOMAIN h[i] = {"pc", "turn", "life", "reply", "intime"}
      BY <1>0, <1>t DEF Inbox!TypeOK
    <3> QED
      BY <3>1, <3>2
  <2> QED
    BY <1>0, <2>1 DEF HandlersKnow
<1>2. ASSUME NEW i \in QueueInputs, Inbox!Load
      PROVE  h'[i].life # life' /\ requests'[i].pc \notin {"erase", "unrow"}
  <2>1. h' = h /\ requests' = requests /\ life' = life + 1 /\ ~up
    BY <1>2 DEF Inbox!Load, Inbox!tasks
  <2>2. h[i].life <= life /\ h[i].life \in Nat
    <3>1. h[i].life \in 0..MaxLives /\ MaxLives \in Nat
      BY <1>0, <1>t, InboxTypes DEF Inbox!TypeOK
    <3> QED
      BY <1>0, <1>t, <3>1 DEF HandlersKnow
  <2>3. requests[i].pc \in {"new", "done"}
    BY <1>0, <2>1 DEF AtRest
  <2> QED
    BY <1>t, <2>1, <2>2, <2>3
<1>3. ASSUME NEW i \in QueueInputs, ~Inbox!QueueInput(i), ~Inbox!Load,
             h'[i].reply = "Queued", h'[i].life = life', Waits(i)'
      PROVE  Has(rows', i)
  <2>1. Waits(i)
    BY <1>0, <1>3, WaitMoves
  <2>2. (h[i].reply = "Queued" \/ Inbox!WriteRow(i)) /\ h'[i].life = h[i].life
    BY <1>0, <1>3, RequestMoves
  <2>3. life' = life
    <3>1. Inbox!WriteRow(i) => life' = life
      BY DEF Inbox!WriteRow
    <3>2. life' = life \/ life' = life + 1
      BY <1>0, HandlersStep
    <3>3. h[i].life <= life /\ h[i].life \in Nat
      <4>1. h[i].life \in 0..MaxLives /\ MaxLives \in Nat
        BY <1>0, <1>t, InboxTypes DEF Inbox!TypeOK
      <4> QED
        BY <1>0, <1>t, <4>1 DEF HandlersKnow
    <3> QED
      BY <1>3, <1>t, <2>2, <3>2, <3>3
  <2>4. CASE Inbox!WriteRow(i)
    BY <1>0, <2>4, RowMoves
  <2>5. CASE ~Inbox!WriteRow(i)
    <3>1. Has(rows, i)
      BY <1>0, <1>3, <2>1, <2>2, <2>3, <2>5 DEF WaitsOnDisk
    <3>2. ~(Inbox!EraseRemoved(i) \/ Inbox!EraseSteered(i))
      <4>1. Inbox!EraseRemoved(i) \/ Inbox!EraseSteered(i) => requests[i].pc \in {"erase", "unrow"}
        BY DEF Inbox!EraseRemoved, Inbox!EraseSteered
      <4> QED
        BY <1>0, <2>1, <4>1 DEF WaitsOnDisk
    <3>3. chain.input # i
      <4>1. chain.input = i => At("chain", i)
        BY DEF At
      <4>2. i \in Inbox!Inputs /\ (At("mail", i) \/ At("queue", i) \/ At("pending", i))
        BY <1>t, <2>1 DEF Waits
      <4> QED
        BY <1>p, <1>k, <4>1, <4>2
    <3> QED
      BY <1>0, <1>3, <3>1, <3>2, <3>3, RowMoves
  <2> QED
    BY <2>4, <2>5
<1>4. ASSUME NEW i \in QueueInputs, ~Inbox!QueueInput(i), ~Inbox!Load, requests'[i].pc \in {"erase", "unrow"}
      PROVE  ~Waits(i)'
  <2>1. i \in Inbox!Inputs
    BY <1>t
  <2>2. CASE requests[i].pc \in {"erase", "unrow"}
    <3>1. ~Waits(i)
      BY <1>0, <2>2 DEF WaitsOnDisk
    <3> QED
      BY <1>0, <1>4, <3>1, WaitMoves
  <2>3. CASE Inbox!ActorRemove /\ Inbox!Cur = i /\ Has(queue, i)
    <3>1. queue' = Inbox!Without(queue, i) /\ pending' = pending
      BY <2>3 DEF Inbox!ActorRemove, Inbox!turnState
    <3>2. ~Has(queue', i)
      BY <1>t, <3>1, WithoutIt
    <3>3. At("queue", i)
      BY <2>3 DEF At
    <3>4. ~At("mail", i) /\ ~At("pending", i)
      BY <1>p, <1>k, <2>1, <3>3
    <3>5. ~Has(mailbox, EnqueueOf(i)) /\ ~Has(pending, i)
      BY <3>4 DEF At
    <3>6. ~Has(mailbox', EnqueueOf(i))
      BY <1>0, <1>4, <2>1, <3>5, MailMoves
    <3> QED
      BY <3>1, <3>2, <3>5, <3>6 DEF Waits, At
  <2>4. CASE Inbox!MoveToSteers(i)
    <3>1. At("btw", i)'
      <4>1. btw' = Append(btw, i) /\ btw \in Seq(Inbox!Inputs)
        BY <1>0, <2>4, InboxTypes DEF Inbox!MoveToSteers
      <4>2. Has(btw', i)
        BY <2>1, <4>1, Appending
      <4> QED
        BY <4>2 DEF At
    <3>2. \A k, l \in Places : At(k, i)' /\ At(l, i)' => k = l
      BY <1>0, <2>1 DEF OnePlace
    <3>3. ~At("mail", i)' /\ ~At("queue", i)' /\ ~At("pending", i)'
      BY <1>k, <3>1, <3>2
    <3> QED
      BY <3>3 DEF Waits
  <2> QED
    BY <1>0, <1>4, <2>2, <2>3, <2>4, RequestMoves
<1> QED
  BY <1>1, <1>2, <1>3, <1>4 DEF WaitsOnDisk

-----------------------------------------------------------------------------
(* What becomes of a steer: its handler, the buffer, the gifts and the turn. *)
LEMMA SteerMoves ==
  ASSUME Inbox!TypeOK, [Inbox!Next]_(Inbox!vars)
  PROVE  \A i \in SteerInputs :
           \/ h'[i] = h[i]
           \/ /\ Inbox!Steer(i) /\ h[i].pc = "new" /\ h'[i].pc = "push"
              /\ h'[i].turn = turn.id /\ h'[i].intime = h[i].intime
           \/ /\ Inbox!PushSteer(i) /\ h[i].pc = "push" /\ h'[i].pc = "answer"
              /\ h'[i].turn = h[i].turn /\ h'[i].intime = h[i].intime
           \/ /\ Inbox!AnswerSteer(i) /\ h[i].pc = "answer" /\ h'[i].pc = "done" /\ h'[i].turn = h[i].turn
              /\ h'[i].intime => turn.id = h[i].turn /\ turn.pc \in Within
           \/ /\ Inbox!Unload /\ h'[i].pc = (IF h[i].pc = "new" THEN "new" ELSE "done")
              /\ h'[i].turn = h[i].turn /\ h'[i].intime = h[i].intime
<1> DEFINE Goal ==
         \A i \in SteerInputs :
           \/ h'[i] = h[i]
           \/ /\ Inbox!Steer(i) /\ h[i].pc = "new" /\ h'[i].pc = "push"
              /\ h'[i].turn = turn.id /\ h'[i].intime = h[i].intime
           \/ /\ Inbox!PushSteer(i) /\ h[i].pc = "push" /\ h'[i].pc = "answer"
              /\ h'[i].turn = h[i].turn /\ h'[i].intime = h[i].intime
           \/ /\ Inbox!AnswerSteer(i) /\ h[i].pc = "answer" /\ h'[i].pc = "done" /\ h'[i].turn = h[i].turn
              /\ h'[i].intime => turn.id = h[i].turn /\ turn.pc \in Within
           \/ /\ Inbox!Unload /\ h'[i].pc = (IF h[i].pc = "new" THEN "new" ELSE "done")
              /\ h'[i].turn = h[i].turn /\ h'[i].intime = h[i].intime
<1>h. /\ DOMAIN h = Inbox!Inputs /\ QueueInputs \subseteq Inbox!Inputs /\ SteerInputs \subseteq Inbox!Inputs
      /\ \A i \in Inbox!Inputs : DOMAIN h[i] = {"pc", "turn", "life", "reply", "intime"}
      /\ QueueInputs \cap SteerInputs = {}
  <2>1. /\ QueueInputs \subseteq Inbox!Inputs /\ SteerInputs \subseteq Inbox!Inputs
        /\ QueueInputs \cap SteerInputs = {}
    BY InboxTypes
  <2> QED
    BY <2>1 DEF Inbox!TypeOK
<1>1. ASSUME NEW i \in QueueInputs, Inbox!QueueInput(i) \/ Inbox!WriteRow(i) PROVE Goal
  <2>1. \E r : h' = [h EXCEPT ![i] = r]
    BY <1>1 DEF Inbox!QueueInput, Inbox!WriteRow
  <2>2. \A j \in SteerInputs : j # i
    BY <1>h
  <2> QED
    BY <1>h, <2>1, <2>2
<1>2. ASSUME NEW i \in SteerInputs, Inbox!Steer(i) PROVE Goal
  <2>1. h[i].pc = "new" /\ h' = [h EXCEPT ![i].pc = "push", ![i].turn = turn.id, ![i].life = life]
    BY <1>2 DEF Inbox!Steer
  <2> QED
    BY <1>2, <1>h, <2>1
<1>3. ASSUME NEW i \in SteerInputs, Inbox!PushSteer(i) PROVE Goal
  <2>1. h[i].pc = "push" /\ h' = [h EXCEPT ![i].pc = "answer"]
    BY <1>3 DEF Inbox!PushSteer
  <2> QED
    BY <1>3, <1>h, <2>1
<1>4. ASSUME NEW i \in SteerInputs, Inbox!AnswerSteer(i) PROVE Goal
  <2>1. /\ h[i].pc = "answer"
        /\ h' = [h EXCEPT ![i].pc = "done", ![i].reply = "Steered",
                          ![i].intime = turn.id = h[i].turn /\ turn.pc \in Within]
    BY <1>4 DEF Inbox!AnswerSteer, Within
  <2>2. /\ \A j \in SteerInputs : j # i => h'[j] = h[j]
        /\ h'[i].pc = "done" /\ h'[i].turn = h[i].turn
        /\ h'[i].intime = (turn.id = h[i].turn /\ turn.pc \in Within)
    BY <1>h, <2>1
  <2> QED
    BY <1>4, <2>1, <2>2
<1>5. ASSUME Inbox!Unload PROVE Goal
  <2>1. \A i \in Inbox!Inputs :
           /\ h'[i].pc = IF h[i].pc = "new" THEN "new" ELSE "done"
           /\ h'[i].turn = h[i].turn /\ h'[i].intime = h[i].intime
    BY <1>5, UnloadLeaves
  <2> QED
    BY <1>5, <1>h, <2>1
<1>6. ASSUME h' = h PROVE Goal
  BY <1>6
<1> HIDE DEF Goal
<1>7. Goal
  BY <1>1, <1>2, <1>3, <1>4, <1>5, <1>6, Changed
<1> QED
  BY <1>7 DEF Goal

(* The buffer: only its own handler puts a steer into it.                    *)
LEMMA BufferMoves ==
  ASSUME Inbox!TypeOK, [Inbox!Next]_(Inbox!vars)
  PROVE  \A i \in SteerInputs : Has(btw', i) => Has(btw, i) \/ Inbox!PushSteer(i)
<1> DEFINE Goal == \A i \in SteerInputs : Has(btw', i) => Has(btw, i) \/ Inbox!PushSteer(i)
<1>0. /\ btw \in Seq(Inbox!Inputs) /\ QueueInputs \subseteq Inbox!Inputs /\ SteerInputs \subseteq Inbox!Inputs
      /\ QueueInputs \cap SteerInputs = {}
  BY InboxTypes
<1>1. ASSUME NEW i \in QueueInputs, Inbox!MoveToSteers(i) PROVE Goal
  <2>1. btw' = Append(btw, i)
    BY <1>1 DEF Inbox!MoveToSteers
  <2>2. \A x : Has(btw', x) <=> Has(btw, x) \/ x = i
    BY <1>0, <2>1, Appending
  <2> QED
    BY <1>0, <2>2
<1>2. ASSUME NEW i \in SteerInputs, Inbox!PushSteer(i) PROVE Goal
  <2>1. btw' = Append(btw, i)
    BY <1>2 DEF Inbox!PushSteer
  <2>2. \A x : Has(btw', x) <=> Has(btw, x) \/ x = i
    BY <1>0, <2>1, Appending
  <2> QED
    BY <1>2, <2>2
<1>3. ASSUME Inbox!TakeSteers \/ Inbox!QueryEnds \/ Inbox!ClearSteers \/ Inbox!Unload PROVE Goal
  <2>1. btw' = <<>>
    BY <1>3 DEF Inbox!TakeSteers, Inbox!QueryEnds, Inbox!ClearSteers, Inbox!Unload
  <2> QED
    BY <2>1, Nothing
<1>4. ASSUME btw' = btw PROVE Goal
  BY <1>4
<1> HIDE DEF Goal
<1>5. Goal
  BY <1>1, <1>2, <1>3, <1>4, Changed
<1> QED
  BY <1>5 DEF Goal

(* A steer is given from the buffer, in the turn that takes it.              *)
LEMMA GiftMoves ==
  ASSUME Inbox!TypeOK, HandlersKnow, OneAtATime, [Inbox!Next]_(Inbox!vars)
  PROVE  \A n \in DOMAIN given' :
           \/ n \in DOMAIN given /\ given'[n] = given[n]
           \/ given'[n].input \in QueueInputs
           \/ Inbox!TakeSteers /\ given'[n].turn = turn.id /\ Has(btw, given'[n].input)
<1> DEFINE Goal ==
         \A n \in DOMAIN given' :
           \/ n \in DOMAIN given /\ given'[n] = given[n]
           \/ given'[n].input \in QueueInputs
           \/ Inbox!TakeSteers /\ given'[n].turn = turn.id /\ Has(btw, given'[n].input)
<1>0. /\ mailbox \in Seq(Mails) /\ queue \in Seq(QueueInputs \cup {Note})
      /\ pending \in Seq(QueueInputs \cup {Note}) /\ btw \in Seq(Inbox!Inputs)
      /\ QueueInputs \subseteq Inbox!Inputs
  BY InboxTypes
<1>1. ASSUME NEW s \in Seq(Inbox!Inputs), Inbox!Give(s), turn.id >= 1
      PROVE  \A n \in DOMAIN given' :
               \/ n \in DOMAIN given /\ given'[n] = given[n]
               \/ Has(s, given'[n].input) /\ given'[n].turn = turn.id
  <2>1. \A n \in DOMAIN given' :
          \/ n \in DOMAIN given /\ given'[n] = given[n]
          \/ /\ n \notin DOMAIN given /\ n - Len(given) \in DOMAIN s
             /\ given'[n].input = s[n - Len(given)]
             /\ given'[n].turn = turn.id /\ given'[n].life = life
    BY <1>1, GiveAdds
  <2> QED
    BY <2>1 DEF Has
<1>2. ASSUME Inbox!Execute PROVE Goal
  <2>1. Inbox!Cur \in QueueInputs \cup {Note} /\ turn.id >= 1
    <3>1. /\ Head(mailbox) \in Mails /\ mailbox # <<>> /\ Head(mailbox).op = "execute"
          /\ Inbox!Cur = Head(mailbox).input
      BY <1>2, Received DEF Inbox!Execute
    <3>2. HasOp(mailbox, "execute")
      BY <1>0, <3>1, Tails
    <3> QED
      BY <3>1, <3>2 DEF Mails, OneAtATime, HandlersKnow
  <2>2. CASE Inbox!Cur = Note
    <3>1. given' = given
      BY <1>2, <2>2 DEF Inbox!Execute, Inbox!NoInput
    <3> QED
      BY <3>1
  <2>3. CASE Inbox!Cur # Note
    <3>1. Inbox!Cur \in Inbox!Inputs /\ Inbox!Cur \in QueueInputs /\ Inbox!Give(<<Inbox!Cur>>)
      BY <1>0, <1>2, <2>1, <2>3 DEF Inbox!Execute, Inbox!NoInput
    <3>2. <<Inbox!Cur>> \in Seq(Inbox!Inputs) /\ \A x : Has(<<Inbox!Cur>>, x) <=> x = Inbox!Cur
      BY <3>1 DEF Has
    <3> QED
      BY <1>1, <2>1, <3>1, <3>2
  <2> QED
    BY <2>2, <2>3
<1>3. ASSUME Inbox!TakeSteers PROVE Goal
  <2> DEFINE s == btw \o Taken(pending)
  <2>1. Inbox!Give(s) /\ turn.pc = "steers"
    BY <1>3 DEF Inbox!TakeSteers, Taken
  <2>2. turn.id >= 1
    BY <2>1 DEF HandlersKnow
  <2>3. /\ Taken(pending) \in Seq(Inbox!Inputs)
        /\ \A x : Has(Taken(pending), x) => x \in QueueInputs
    BY <1>0, TakenIs
  <2>4. /\ s \in Seq(Inbox!Inputs)
        /\ \A x : Has(s, x) <=> Has(btw, x) \/ Has(Taken(pending), x)
    BY <1>0, <2>3, Joined
  <2> HIDE DEF s
  <2> QED
    BY <1>1, <1>3, <2>1, <2>2, <2>3, <2>4
<1>4. ASSUME Inbox!TakeQueue PROVE Goal
  <2>1. Inbox!Give(Taken(queue)) /\ turn.pc = "queued"
    BY <1>4 DEF Inbox!TakeQueue, Taken
  <2>2. turn.id >= 1
    BY <2>1 DEF HandlersKnow
  <2>3. /\ Taken(queue) \in Seq(Inbox!Inputs)
        /\ \A x : Has(Taken(queue), x) => x \in QueueInputs
    BY <1>0, TakenIs
  <2> QED
    BY <1>1, <2>1, <2>2, <2>3
<1>5. ASSUME given' = given PROVE Goal
  BY <1>5
<1> HIDE DEF Goal
<1>6. Goal
  BY <1>2, <1>3, <1>4, <1>5, Changed
<1> QED
  BY <1>6 DEF Goal

(* While something is left in the buffer, the turn that takes it goes on.    *)
LEMMA TurnMoves ==
  ASSUME Inbox!TypeOK, [Inbox!Next]_(Inbox!vars), turn.pc \in Within, NEW i, Has(btw', i)
  PROVE  turn'.id = turn.id /\ turn'.pc \in Within
<1>0. DOMAIN turn = {"id", "own", "pc"}
  BY DEF Inbox!TypeOK
<1>1. ~(Inbox!TakeSteers \/ Inbox!QueryEnds \/ Inbox!ClearSteers \/ Inbox!Unload)
  <2>1. Inbox!TakeSteers \/ Inbox!QueryEnds \/ Inbox!ClearSteers \/ Inbox!Unload => btw' = <<>>
    BY DEF Inbox!TakeSteers, Inbox!QueryEnds, Inbox!ClearSteers, Inbox!Unload
  <2> QED
    BY <2>1, Nothing
<1>2. ~(Inbox!StartTurn \/ Inbox!Activate \/ Inbox!CloseTurn)
  BY DEF Inbox!StartTurn, Inbox!Activate, Inbox!CloseTurn, Within
<1>3. ASSUME Inbox!Execute \/ Inbox!TakeQueue \/ Inbox!ModelGoesOn \/ Inbox!QueryFails \/ Inbox!ClearHandles
      PROVE  turn'.id = turn.id /\ turn'.pc \in Within
  <2>1. \E p \in {"steers", "model", "ended", "handles"} : turn' = [turn EXCEPT !.pc = p]
    BY <1>3 DEF Inbox!Execute, Inbox!TakeQueue, Inbox!ModelGoesOn, Inbox!QueryFails, Inbox!ClearHandles
  <2> QED
    BY <1>0, <2>1 DEF Within
<1> QED
  BY <1>1, <1>2, <1>3, Changed

LEMMA SteersStep ==
  ASSUME InputInv, [Inbox!Next]_(Inbox!vars)
  PROVE  SteersKnown'
<1>0. /\ Inbox!TypeOK /\ HandlersKnow /\ OneAtATime /\ SteersKnown /\ GiftsKnown /\ SentOnce
  BY DEF InputInv
<1>t. Inbox!TypeOK'
  BY TypeStep DEF InputInv
<1> SUFFICES ASSUME NEW i \in SteerInputs
             PROVE  /\ h'[i].turn <= turn'.id
                    /\ \A n \in DOMAIN given' : given'[n].input = i =>
                         h'[i].pc \in {"answer", "done"} /\ h'[i].turn <= given'[n].turn
                    /\ h'[i].intime =>
                         /\ h'[i].pc = "done"
                         /\ \A n \in DOMAIN given' : given'[n].input = i => given'[n].turn = h'[i].turn
                         /\ Has(btw', i) => turn'.id = h'[i].turn /\ turn'.pc \in Within
  BY DEF SteersKnown
<1>i. i \in Inbox!Inputs /\ i \notin QueueInputs
  BY <1>0, InboxTypes
<1>n. h[i].turn \in Nat /\ turn.id \in Nat /\ turn'.id \in Nat /\ turn'.id >= turn.id
  <2>1. h[i].turn \in 0..MaxTurns /\ turn.id \in 0..MaxTurns /\ turn'.id \in 0..MaxTurns
    BY <1>0, <1>t, <1>i DEF Inbox!TypeOK
  <2>2. MaxTurns \in Nat
    BY <1>0, InboxTypes
  <2> QED
    BY <1>0, <2>1, <2>2, HandlersStep
<1>1. /\ h[i].turn <= turn.id
      /\ \A n \in DOMAIN given : given[n].input = i =>
           h[i].pc \in {"answer", "done"} /\ h[i].turn <= given[n].turn
      /\ h[i].intime =>
           /\ h[i].pc = "done"
           /\ \A n \in DOMAIN given : given[n].input = i => given[n].turn = h[i].turn
           /\ Has(btw, i) => turn.id = h[i].turn /\ turn.pc \in Within
  BY <1>0 DEF SteersKnown
<1>2. \/ h'[i] = h[i]
      \/ /\ Inbox!Steer(i) /\ h[i].pc = "new" /\ h'[i].pc = "push"
         /\ h'[i].turn = turn.id /\ h'[i].intime = h[i].intime
      \/ /\ Inbox!PushSteer(i) /\ h[i].pc = "push" /\ h'[i].pc = "answer"
         /\ h'[i].turn = h[i].turn /\ h'[i].intime = h[i].intime
      \/ /\ Inbox!AnswerSteer(i) /\ h[i].pc = "answer" /\ h'[i].pc = "done" /\ h'[i].turn = h[i].turn
         /\ h'[i].intime => turn.id = h[i].turn /\ turn.pc \in Within
      \/ /\ Inbox!Unload /\ h'[i].pc = (IF h[i].pc = "new" THEN "new" ELSE "done")
         /\ h'[i].turn = h[i].turn /\ h'[i].intime = h[i].intime
  BY <1>0, SteerMoves
<1>3. h'[i].turn <= turn'.id
  BY <1>1, <1>2, <1>n
(* A gift of this step comes from the buffer.                                *)
<1>4. ASSUME NEW n \in DOMAIN given', given'[n].input = i
      PROVE  \/ n \in DOMAIN given /\ given'[n] = given[n]
             \/ Inbox!TakeSteers /\ given'[n].turn = turn.id /\ Has(btw, i)
  BY <1>0, <1>4, <1>i, GiftMoves
<1>5. Has(btw, i) => h[i].pc \in {"answer", "done"}
  <2>1. Has(btw, i) => At("btw", i) /\ "btw" \in Places
    BY DEF At, Places
  <2> QED
    BY <1>0, <1>i, <2>1 DEF SentOnce, HandlersKnow
<1>6. Inbox!TakeSteers => h'[i] = h[i]
  BY DEF Inbox!TakeSteers
<1>7. ASSUME NEW n \in DOMAIN given', given'[n].input = i
      PROVE  h'[i].pc \in {"answer", "done"} /\ h'[i].turn <= given'[n].turn
  <2>1. CASE n \in DOMAIN given /\ given'[n] = given[n]
    <3>1. h[i].pc \in {"answer", "done"} /\ h[i].turn <= given[n].turn
      BY <1>1, <1>7, <2>1
    <3> QED
      BY <1>2, <2>1, <3>1
  <2>2. CASE Inbox!TakeSteers /\ given'[n].turn = turn.id /\ Has(btw, i)
    BY <1>1, <1>5, <1>6, <2>2
  <2> QED
    BY <1>4, <1>7, <2>1, <2>2
<1>8. ASSUME h'[i].intime
      PROVE  /\ h'[i].pc = "done"
             /\ \A n \in DOMAIN given' : given'[n].input = i => given'[n].turn = h'[i].turn
             /\ Has(btw', i) => turn'.id = h'[i].turn /\ turn'.pc \in Within
  <2>1. CASE h[i].intime
    <3>1. h[i].pc = "done"
      BY <1>1, <2>1
    <3>2. h'[i].pc = "done" /\ h'[i].turn = h[i].turn
      BY <1>2, <3>1
    <3>3. ~Inbox!PushSteer(i)
      BY <3>1 DEF Inbox!PushSteer
    <3>4. Has(btw', i) => turn'.id = h'[i].turn /\ turn'.pc \in Within
      <4>1. Has(btw', i) => Has(btw, i)
        BY <1>0, <3>3, BufferMoves
      <4>2. Has(btw', i) => turn.id = h[i].turn /\ turn.pc \in Within
        BY <1>1, <2>1, <4>1
      <4>3. Has(btw', i) => turn'.id = turn.id /\ turn'.pc \in Within
        BY <1>0, <4>2, TurnMoves
      <4> QED
        BY <3>2, <4>2, <4>3
    <3>5. ASSUME NEW n \in DOMAIN given', given'[n].input = i PROVE given'[n].turn = h'[i].turn
      BY <1>1, <1>4, <2>1, <3>2, <3>5
    <3> QED
      BY <3>2, <3>4, <3>5
  <2>2. CASE ~h[i].intime
    <3>1. /\ Inbox!AnswerSteer(i) /\ h'[i].pc = "done" /\ h'[i].turn = h[i].turn
          /\ turn.id = h[i].turn /\ turn.pc \in Within
      BY <1>2, <1>8, <2>2
    <3>2. given' = given /\ turn' = turn
      BY <3>1 DEF Inbox!AnswerSteer, Inbox!history
    <3>3. ASSUME NEW n \in DOMAIN given, given[n].input = i PROVE given[n].turn = h[i].turn
      <4>1. h[i].turn <= given[n].turn /\ given[n].turn <= turn.id /\ given[n].turn \in Nat
        BY <1>0, <1>1, <3>3, GiftTyped DEF GiftsKnown
      <4> QED
        BY <1>n, <3>1, <4>1
    <3> QED
      BY <3>1, <3>2, <3>3
  <2> QED
    BY <2>1, <2>2
<1> QED
  BY <1>3, <1>7, <1>8

-----------------------------------------------------------------------------
(* The inputs' invariant, and what it says.                                  *)
LEMMA InputInit ==
  ASSUME Inbox!Init
  PROVE  InputInv
<1>1. /\ mailbox = <<>> /\ queue = <<>> /\ btw = <<>> /\ rows = <<>> /\ pending = <<>>
      /\ given = <<>> /\ arrived = <<>> /\ life = 1 /\ up /\ up \in BOOLEAN /\ begun \in BOOLEAN
      /\ turn = [id |-> 0, own |-> Note, pc |-> "idle"]
      /\ chain = [pc |-> "off", tries |-> 0, input |-> Note]
      /\ h = [i \in Inbox!Inputs |-> [pc |-> "new", turn |-> 0, life |-> 0, reply |-> "None", intime |-> FALSE]]
      /\ requests = [i \in QueueInputs |-> [pc |-> "new", reply |-> "None"]]
  BY DEF Inbox!Init, Inbox!NewTurn, Inbox!NoChain, Inbox!NoInput
<1>2. /\ MaxTurns \in Nat /\ MaxLives \in Nat \ {0} /\ Note \notin Inbox!Inputs
      /\ QueueInputs \cap SteerInputs = {}
  BY MCAssumption DEF Inbox!InputAssumption
<1>i. QueueInputs \subseteq Inbox!Inputs /\ SteerInputs \subseteq Inbox!Inputs
  BY DEF Inbox!Inputs
<1>3. 0 \in 0..MaxTurns /\ 0 \in 0..MaxLives /\ 1 \in 1..MaxLives /\ \A T : <<>> \in Seq(T)
  BY <1>2
<1>4. Inbox!TypeOK
  <2>1. turn \in [id : 0..MaxTurns, own : QueueInputs \cup {Note}, pc : Inbox!TurnPcs]
    BY <1>1, <1>3 DEF Inbox!TurnPcs
  <2>2. /\ chain \in [pc : {"off", "pop", "popping", "popped", "activate"}, tries : 0..2,
                      input : QueueInputs \cup {Note}]
        /\ chain.input \in QueueInputs <=> chain.pc \in {"popped", "activate"}
    BY <1>1, <1>2, <1>i
  <2>3. h \in [Inbox!Inputs -> [pc : {"new", "row", "push", "answer", "done"}, turn : 0..MaxTurns,
                           life : 0..MaxLives, reply : {"None", "Queued", "Steered"}, intime : BOOLEAN]]
    BY <1>1, <1>3
  <2>4. requests \in [QueueInputs -> [pc : {"new", "removing", "erase", "move", "unrow", "done"},
                                      reply : {"None", "Removed", "NotRemoved", "Steered", "NotQueued"}]]
    BY <1>1
  <2> QED
    BY <1>1, <1>3, <2>1, <2>2, <2>3, <2>4 DEF Inbox!TypeOK, Inbox!NoInput
<1>5. \A i \in Inbox!Inputs : h[i].pc = "new" /\ h[i].life = 0 /\ h[i].turn = 0 /\ h[i].reply = "None"
                         /\ ~h[i].intime
  BY <1>1
<1>6. \A i \in QueueInputs : requests[i].pc = "new"
  BY <1>1
<1>7. chain.input = Note /\ chain.pc = "off" /\ turn.id = 0 /\ turn.pc = "idle" /\ DOMAIN given = {}
  BY <1>1
<1>8. AtRest
  BY <1>1 DEF AtRest
<1>9. HandlersKnow
  BY <1>1, <1>5, <1>6, <1>7, <1>i, Nothing DEF HandlersKnow
<1>10. \A i \in Inbox!Inputs : \A k \in Places : ~At(k, i)
  BY <1>1, <1>2, <1>7, Nothing DEF At, Places
<1>11. SentOnce
  BY <1>1, <1>10, Nothing DEF SentOnce
<1>12. OnePlace /\ OnceThere
  BY <1>1, <1>10, Nothing DEF OnePlace, OnceThere
<1>13. Inbox!GivenOncePerLife /\ GiftsKnown
  BY <1>7 DEF Inbox!GivenOncePerLife, Inbox!Gifts, GiftsKnown
<1>14. OneAtATime
  BY <1>1, <1>7, Nothing DEF OneAtATime
<1>15. WaitsOnDisk
  BY <1>5, <1>6, <1>i DEF WaitsOnDisk
<1>16. SteersKnown
  BY <1>5, <1>7, <1>i DEF SteersKnown
<1> QED
  BY <1>4, <1>8, <1>9, <1>11, <1>12, <1>13, <1>14, <1>15, <1>16 DEF InputInv

LEMMA InputStep ==
  ASSUME InputInv, [Inbox!Next]_(Inbox!vars)
  PROVE  InputInv'
<1>1. /\ Inbox!TypeOK /\ AtRest /\ HandlersKnow /\ OneAtATime
  BY DEF InputInv
<1>2. Inbox!TypeOK' /\ AtRest' /\ HandlersKnow' /\ OneAtATime'
  BY <1>1, TypeStep, RestStep, HandlersStep, CommandsStep
<1> QED
  BY <1>2, SentStep, PlacesStep, DurableStep, SteersStep DEF InputInv

LEMMA InputsInvariant == MCSpec => []InputInv
<1>1. MCInit => InputInv
  BY InputInit DEF MCInit
<1>2. InputInv /\ [MCNext]_allVars => InputInv'
  <2> SUFFICES ASSUME InputInv, [MCNext]_allVars PROVE InputInv'
    OBVIOUS
  <2>1. UNCHANGED inboxVars => UNCHANGED Inbox!vars
    BY DEF inboxVars, Inbox!vars, Inbox!memory, Inbox!turnState, Inbox!tasks, Inbox!history
  <2>2. [Inbox!Next]_(Inbox!vars)
    BY <2>1 DEF MCNext, allVars
  <2> QED
    BY <2>2, InputStep
<1> QED
  BY <1>1, <1>2, PTL DEF MCSpec

(* GivenOncePerLife: within a life no input becomes a message twice,         *)
(* whichever of the loop, the post-turn task and the two queue requests gets *)
(* hold of it.  Every input of the life is in one place, and is there once.  *)
THEOREM InputsGivenOnce == MCSpec => []GivenOncePerLife
<1>1. InputInv => GivenOncePerLife
  BY DEF InputInv, GivenOncePerLife
<1> QED
  BY <1>1, InputsInvariant, PTL

(* WaitingIsDurable: what is answered Queued and waits has a row, until the  *)
(* session is restored for the first time: a row goes when its input has     *)
(* left the queue, and the answer comes behind the row.                      *)
THEOREM WaitingInputsOnDisk == MCSpec => []WaitingIsDurable
<1>1. InputInv => WaitingIsDurable
  BY DEF InputInv, WaitsOnDisk, Waits, At, Has, WaitingIsDurable, Inbox!WaitingIsDurable, Inbox!In
<1> QED
  BY <1>1, InputsInvariant, PTL

(* TimelySteerStaysInTurn: a steer answered before its turn cleared the      *)
(* buffer becomes a message of that turn or of none: what is left in the     *)
(* buffer is thrown away before the next turn begins.                        *)
THEOREM TimelySteersStay == MCSpec => []TimelySteerStaysInTurn
<1>1. InputInv => TimelySteerStaysInTurn
  BY DEF InputInv, SteersKnown, TimelySteerStaysInTurn, Inbox!TimelySteerStaysInTurn, Inbox!Gifts
<1> QED
  BY <1>1, InputsInvariant, PTL
=============================================================================
