------------------------------ MODULE Rollout ------------------------------
(***************************************************************************)
(* What a session leaves in its rollout and what a restart makes of it.    *)
(* Turns append their lines as they go; message/editPrevious, session/     *)
(* rollback and /compact append lines that change what the lines before    *)
(* them mean, work on a copy of the session's memory and put it in place   *)
(* of the original at the end.  An append may fail in the middle of a line *)
(* and the server may crash at any point; the next server replays the file.*)
(*                                                                         *)
(* The replay folds the lines one by one, so the file is represented by    *)
(* what a replay of its whole lines comes to, and by what follows them.    *)
(***************************************************************************)
EXTENDS Naturals, Sequences, SequencesExt, FiniteSets, FiniteSetsExt, Filter

CONSTANTS
  Starts,      \* requests that start a turn; a turn bears its request's name
  Hidden,      \* those of them that show no user message
  Edits,       \* message/editPrevious requests, named like the replacement turn
  Rollbacks,   \* session/rollback requests
  Compacts,    \* session/compact requests
  MaxWork,     \* bound on the items of a turn besides its user message
  MaxUnread,   \* bound on the items a summarizer hands back for lack of room
  MaxCrashes, MaxFails,
  None, Junk

Turns == Starts \cup Edits
Silent == Hidden \cup Edits     \* execute_turn adds no message of theirs
Ops == Edits \cup Rollbacks \cup Compacts

RolloutAssumption ==
  /\ IsFiniteSet(Turns) /\ IsFiniteSet(Ops) /\ Hidden \subseteq Starts
  /\ Starts \cap Ops = {} /\ Edits \cap (Rollbacks \cup Compacts) = {} /\ Rollbacks \cap Compacts = {}
  /\ None \notin Turns \cup Ops /\ Junk # None
  /\ {MaxWork, MaxUnread, MaxCrashes, MaxFails} \subseteq Nat

VARIABLES
  disk,     \* the replay of the whole lines
  tail,     \* what follows the last newline: nothing, Junk, or a line that lacks its own
  mem,      \* the session actor's state
  exec,     \* the turn its actor executes, with the turn's inline state
  stage,    \* how far each turn is
  op,       \* the requests at work, with the copies they took
  \* history
  covers,   \* what each summary was made from, and what it had no room for
  dropped,  \* items that an edit or a rollback, having answered, removed
  marks,    \* what happened to the file: see the properties
  raced,    \* did a request that replaces the state overlap with anything?
  reused,   \* did a rollback make the session give out numbers the file has?
  crashes, fails

fileVars == <<disk, tail, marks, fails>>
vars == <<fileVars, mem, exec, stage, op, covers, dropped, raced, reused, crashes>>

-----------------------------------------------------------------------------
(* Items: a turn's user message is its item 0, a summary is item 0 of the    *)
(* request that made it, and belongs to a turn as well.                      *)
IsMessage(i) == i.id[1] \in Turns /\ i.id[2] = 0
Ids(items) == {items[n].id : n \in DOMAIN items}
Others(items, t) == Only(items, {i \in ToSet(items) : i.turn # t})
OfTurn(items, t) == {items[n].id : n \in {k \in DOMAIN items : items[k].turn = t}}
LastOr(s, default) == IF s = <<>> THEN default ELSE Last(s)
Larger(a, b) == IF a > b THEN a ELSE b

-----------------------------------------------------------------------------
(* The replay                                                                *)

Blank == [items |-> <<>>, order |-> <<>>, latest |-> None, gone |-> {}, snap |-> None, next |-> 0]

WithTurn(d, t) ==
  IF t \in d.gone THEN d
  ELSE [d EXCEPT !.latest = t, !.order = IF t \in ToSet(@) THEN @ ELSE Append(@, t)]

WithItem(d, i) ==
  IF i.turn \in d.gone THEN d
  ELSE [d EXCEPT !.items = Append(@, i), !.next = Larger(@, i.seq + 1)]

Refers(snap, ids) == snap # None /\ (snap.summary \in ids \/ ToSet(snap.kept) \cap ids # {})

WithoutTurnItems(d, t) ==       \* mutant: the items stay
  LET left == Only(d.order, ToSet(d.order) \ {t}) IN
  [d EXCEPT !.gone = @ \cup {t}, !.order = left,
            !.latest = IF @ = t THEN LastOr(left, None) ELSE @]

(* apply_turn_superseded                                                     *)
WithoutTurn(d, t) ==
  LET left == Only(d.order, ToSet(d.order) \ {t}) IN
  [d EXCEPT !.gone = @ \cup {t},
            !.items = Others(@, t),
            !.order = left,
            !.latest = IF @ = t THEN LastOr(left, None) ELSE @,
            !.snap = IF Refers(@, OfTurn(d.items, t)) THEN None ELSE @]

Within(items, l) == {i \in ToSet(items) : i.turn \in l.turns /\ i.id \in l.ids}

CutToItems(d, l) ==             \* mutant: the latest turn is not set back
  [d EXCEPT !.items = Only(@, Within(d.items, l))]

(* apply_session_rollback                                                    *)
CutTo(d, l) ==
  LET kept == Only(d.items, Within(d.items, l))
      left == Only(d.order, l.turns) IN
  [items |-> kept, order |-> left,
   latest |-> IF l.latest \in ToSet(left) THEN l.latest ELSE None,
   gone |-> d.gone \cap l.turns,
   snap |-> IF d.snap # None /\ {d.snap.summary} \cup ToSet(d.snap.kept) \subseteq l.ids
            THEN d.snap ELSE None,
   next |-> Max({1} \cup {kept[n].seq + 1 : n \in DOMAIN kept})]

Replayed(d, l) ==
  CASE l.kind = "turn"       -> WithTurn(d, l.turn)
    [] l.kind = "item"       -> WithItem(d, l.item)
    [] l.kind = "superseded" -> WithoutTurn(d, l.turn)
    [] l.kind = "rollback"   -> CutTo(d, l)
    [] l.kind = "snapshot"   -> [d EXCEPT !.snap = l.snap]
    [] l.kind = "note"       -> d

(* The sort is by sequence number; a tie is broken by the time of the line.  *)
Sorted(items) ==
  LET Before(m, n) == \/ items[m].seq < items[n].seq
                      \/ items[m].seq = items[n].seq /\ m < n
      Place(n) == 1 + Cardinality({m \in DOMAIN items : Before(m, n)}) IN
  [p \in DOMAIN items |-> items[CHOOSE n \in DOMAIN items : Place(n) = p]]

(* load_session_from_rollout skips a line that does not parse; the last line *)
(* needs no newline.                                                         *)
WholeFile == IF tail \in {None, Junk} THEN disk ELSE Replayed(disk, tail)
Remembered(i) == [id |-> i.id, turn |-> i.turn]

LoadedCounting(d) ==            \* mutant: the next number is the number of items
  [items |-> [p \in DOMAIN d.items |-> Remembered(Sorted(d.items)[p])],
   latest |-> d.latest, next |-> Len(d.items) + 1, active |-> None]

Loaded(d) ==
  [items |-> [p \in DOMAIN d.items |-> Remembered(Sorted(d.items)[p])],
   latest |-> d.latest, next |-> Larger(d.next, 1), active |-> None]

Replay == Loaded(WholeFile).items

PromptWithoutRest(d) ==         \* mutant: nothing of what came after the summary
  LET items == Sorted(d.items) IN
  IF d.snap = None \/ d.snap.summary \notin Ids(items) THEN Ids(items)
  ELSE {d.snap.summary} \cup (ToSet(d.snap.kept) \cap Ids(items))

(* build_prompt_messages_from_snapshot                                       *)
Prompt(d) ==
  LET items == Sorted(d.items)
      after == {n \in DOMAIN items : \E m \in 1..(n - 1) : items[m].id = d.snap.summary} IN
  IF d.snap = None \/ d.snap.summary \notin Ids(items) THEN Ids(items)
  ELSE {d.snap.summary} \cup (ToSet(d.snap.kept) \cap Ids(items)) \cup {items[n].id : n \in after}

-----------------------------------------------------------------------------
(* append_line: what is written goes behind what is there, so a line behind  *)
(* a fragment makes one line with it, which no replay understands.           *)
AppendOk(l) ==
  /\ tail' = None
  /\ IF tail = None
     THEN disk' = Replayed(disk, l) /\ UNCHANGED marks
     ELSE marks' = marks \cup {"swallowed"} /\ UNCHANGED disk
  /\ UNCHANGED fails

AppendFails(l) ==
  /\ fails < MaxFails
  /\ fails' = fails + 1
  /\ tail' \in IF tail = None THEN {None, Junk, l} ELSE {tail, Junk}
  /\ marks' = marks \cup {"failed"}
  /\ UNCHANGED disk

AppendTried(l) == AppendOk(l) \/ AppendFails(l)     \* a failure is only logged

TurnLine(t) == [kind |-> "turn", turn |-> t]
ItemLine(i) == [kind |-> "item", item |-> i]
NoteLine == [kind |-> "note"]

-----------------------------------------------------------------------------
(* Turns                                                                     *)

NoTurn == [turn |-> None, items |-> <<>>, open |-> {}, next |-> 0, begun |-> 0]
Free == exec.turn = None      \* the actor takes commands
opVars == <<op, covers, dropped>>

BeginTurn(t) ==
  /\ t \in Starts /\ stage[t] = "new" /\ Free /\ mem.active = None
  /\ mem' = [mem EXCEPT !.active = t]
  /\ stage' = [stage EXCEPT ![t] = "begun"]
  /\ UNCHANGED <<fileVars, exec, opVars, crashes>>

WriteStart(t) ==
  /\ stage[t] = "begun" /\ Free
  /\ \/ AppendOk(TurnLine(t)) /\ stage' = [stage EXCEPT ![t] = "spawned"] /\ UNCHANGED mem
     \/ /\ AppendFails(TurnLine(t))
        /\ stage' = [stage EXCEPT ![t] = "over"]
        /\ mem' = IF mem.active = t THEN [mem EXCEPT !.active = None] ELSE mem
  /\ UNCHANGED <<exec, opVars, crashes>>

Execute(t) ==
  LET message == [id |-> <<t, 0>>, turn |-> t, seq |-> mem.next] IN
  /\ stage[t] = "spawned" /\ Free
  /\ stage' = [stage EXCEPT ![t] = "running"]
  /\ IF t \in Silent
     THEN exec' = [NoTurn EXCEPT !.turn = t, !.next = mem.next] /\ UNCHANGED fileVars
     ELSE /\ AppendTried(ItemLine(message))
          /\ exec' = [NoTurn EXCEPT !.turn = t, !.next = mem.next + 1,
                                    !.items = <<Remembered(message)>>]
  /\ UNCHANGED <<mem, opVars, crashes>>

StartItem ==
  /\ ~Free /\ exec.begun < MaxWork
  /\ exec' = [exec EXCEPT !.begun = @ + 1, !.next = @ + 1,
                !.open = @ \cup {[id |-> <<exec.turn, exec.begun + 1>>, turn |-> exec.turn,
                                  seq |-> exec.next]}]
  /\ UNCHANGED <<fileVars, mem, stage, opVars, crashes>>

(* Tools end in any order.                                                   *)
CompleteItem ==
  \E i \in exec.open :
    /\ exec' = [exec EXCEPT !.open = @ \ {i}, !.items = Append(@, Remembered(i))]
    /\ AppendTried(ItemLine(i))
    /\ UNCHANGED <<mem, stage, opVars, crashes>>

EndTurn ==
  /\ ~Free /\ exec.open = {}
  /\ AppendTried(TurnLine(exec.turn))
  /\ mem' = [items |-> mem.items \o exec.items, latest |-> exec.turn, next |-> exec.next,
             active |-> None]
  /\ stage' = [stage EXCEPT ![exec.turn] = "over"]
  /\ exec' = NoTurn
  /\ UNCHANGED <<opVars, crashes>>

-----------------------------------------------------------------------------
(* What replaces the state: an export is a copy, replace_state puts another  *)
(* in its place, and both are commands to the actor.                         *)

At(o, pc) == op[o].pc = pc
Go(o, pc) == op' = [op EXCEPT ![o].pc = pc]
Done(o) == op' = [op EXCEPT ![o] = [pc |-> "done"]]
Step(o, from, line, to) ==     \* an append whose failure ends the request
  /\ At(o, from)
  /\ \/ AppendOk(line) /\ Go(o, to)
     \/ AppendFails(line) /\ Done(o)
  /\ UNCHANGED <<mem, exec, stage, covers, dropped, crashes>>
Replace(o) ==
  /\ At(o, "replace") /\ Free
  /\ mem' = op[o].next
  /\ dropped' = dropped \cup op[o].cut
  /\ Done(o)
  /\ UNCHANGED <<fileVars, exec, covers, crashes>>

MessagesIn(items) == Only(items, {i \in ToSet(items) : IsMessage(i)})

(* handle_message_edit_previous: the message to edit is the latest there is. *)
EditExport(e) ==
  /\ e \in Edits /\ At(e, "off") /\ Free
  /\ mem.active = None /\ MessagesIn(mem.items) # <<>>
  /\ op' = [op EXCEPT ![e] = [pc |-> "note", target |-> Last(MessagesIn(mem.items)).turn]]
  /\ UNCHANGED <<fileVars, mem, exec, stage, covers, dropped, crashes>>

EditNote(e) == e \in Edits /\ Step(e, "note", NoteLine, "supersede")
Supersede(e) ==
  e \in Edits /\ Step(e, "supersede", [kind |-> "superseded", turn |-> op[e].target], "restore")
(* The workspace is restored between two more records, see WorkspaceRestore. *)
EditRestore(e) == e \in Edits /\ Step(e, "restore", NoteLine, "turn")
EditTurnLine(e) == e \in Edits /\ Free /\ Step(e, "turn", TurnLine(e), "item")

(* The number comes from the turn that runs, if one does by now.             *)
EditItem(e) ==
  LET seq == IF Free THEN mem.next ELSE exec.next
      line == ItemLine([id |-> <<e, 0>>, turn |-> e, seq |-> seq]) IN
  /\ e \in Edits /\ At(e, "item")
  /\ IF Free THEN mem' = [mem EXCEPT !.next = @ + 1] /\ UNCHANGED exec
             ELSE exec' = [exec EXCEPT !.next = @ + 1] /\ UNCHANGED mem
  /\ \/ AppendOk(line) /\ Go(e, "rewrite")
     \/ AppendFails(line) /\ Done(e)
  /\ UNCHANGED <<stage, covers, dropped, crashes>>

EditRewrite(e) ==
  LET target == op[e].target
      kept == Others(mem.items, target) IN
  /\ e \in Edits /\ At(e, "rewrite") /\ Free
  /\ op' = [op EXCEPT ![e] =
       [pc |-> "replace", cut |-> OfTurn(mem.items, target),
        next |-> [mem EXCEPT !.items = Append(kept, [id |-> <<e, 0>>, turn |-> e]), !.active = e]]]
  /\ UNCHANGED <<fileVars, mem, exec, stage, covers, dropped, crashes>>

EditReplace(e) ==
  /\ e \in Edits /\ Replace(e)
  /\ stage' = [stage EXCEPT ![e] = "spawned"]

(* kept_items_for_user_turn_cut: up to a user's turn, with it or without it. *)
Cuts(items) ==
  LET From(t) == CHOOSE n \in DOMAIN items :
                   items[n].turn = t /\ \A m \in 1..(n - 1) : items[m].turn # t
      To(t) == CHOOSE n \in From(t)..Len(items) :
                 /\ \A m \in From(t)..n : items[m].turn = t
                 /\ n = Len(items) \/ items[n + 1].turn # t
      turns == {MessagesIn(items)[n].turn : n \in DOMAIN MessagesIn(items)} IN
  {SubSeq(items, 1, From(t) - 1) : t \in turns} \cup {SubSeq(items, 1, To(t)) : t \in turns}

RollbackExport(r) ==
  /\ r \in Rollbacks /\ At(r, "off") /\ Free
  /\ \E kept \in Cuts(mem.items) :
       op' = [op EXCEPT ![r] =
         [pc |-> "append", cut |-> Ids(mem.items) \ Ids(kept),
          next |-> [items |-> kept, latest |-> IF kept = <<>> THEN None ELSE Last(kept).turn,
                    next |-> Len(mem.items) + 1, active |-> None]]]
  /\ UNCHANGED <<fileVars, mem, exec, stage, covers, dropped, crashes>>

RollbackAppend(r) ==
  /\ r \in Rollbacks
  /\ LET kept == op[r].next.items IN
     Step(r, "append", [kind |-> "rollback", turns |-> {kept[n].turn : n \in DOMAIN kept},
                        ids |-> Ids(kept), latest |-> op[r].next.latest], "replace")

(* The numbers go on from the number of items, whatever numbers these have.  *)
RollbackReplace(r) == r \in Rollbacks /\ Replace(r) /\ UNCHANGED stage

(* run_session_compaction                                                    *)
CompactExport(c) ==
  /\ c \in Compacts /\ At(c, "off") /\ Free /\ mem.items # <<>>
  /\ op' = [op EXCEPT ![c] = [pc |-> "summarize", items |-> mem.items]]
  /\ UNCHANGED <<fileVars, mem, exec, stage, covers, dropped, crashes>>

(* All of it is summarized but the newest items there is no room for, and    *)
(* these are kept, like what follows the latest message.  What is kept twice *)
(* or reads otherwise than its item does is not found among the items.       *)
Suffix(items) ==
  LET messages == {n \in DOMAIN items : IsMessage(items[n])} IN
  IF messages = {} THEN <<>> ELSE SubSeq(items, Max(messages), Len(items))
IdSeq(items) == [n \in DOMAIN items |-> items[n].id]

Summarize(c) ==
  /\ c \in Compacts /\ At(c, "summarize")
  /\ \/ Done(c) /\ UNCHANGED covers     \* it fails
     \/ \E n \in 0..MaxUnread :
          LET items == op[c].items
              unread == SubSeq(items, Len(items) - n + 1, Len(items)) IN
          /\ n < Len(items)
          /\ \E kept \in {<<>>, IF n = 0 THEN Suffix(items)
                                ELSE IF Suffix(items) = <<>> THEN unread ELSE <<>>} :
               op' = [op EXCEPT ![c] = [pc |-> "export", kept |-> IdSeq(kept)]]
          /\ covers' = [covers EXCEPT ![c] = [read |-> Ids(items), unread |-> Ids(unread)]]
  /\ UNCHANGED <<fileVars, mem, exec, stage, dropped, crashes>>

CompactRewrite(c) ==
  LET turn == IF mem.latest # None THEN mem.latest ELSE mem.active
      summary == [id |-> <<c, 0>>, turn |-> turn, seq |-> mem.next]
      found == IF IsSuffix(op[c].kept, IdSeq(mem.items)) THEN op[c].kept ELSE <<>> IN
  /\ c \in Compacts /\ At(c, "export") /\ Free
  /\ op' = [op EXCEPT ![c] =
       IF turn = None THEN [pc |-> "replace", next |-> mem, cut |-> {}]
       ELSE [pc |-> "item", line |-> ItemLine(summary), cut |-> {},
             snap |-> [summary |-> summary.id, kept |-> found],
             next |-> [mem EXCEPT !.items = Append(@, Remembered(summary)), !.next = @ + 1]]]
  /\ UNCHANGED <<fileVars, mem, exec, stage, covers, dropped, crashes>>

CompactItem(c) ==
  /\ c \in Compacts /\ At(c, "item")
  /\ AppendTried(op[c].line) /\ Go(c, "snapshot")
  /\ UNCHANGED <<mem, exec, stage, covers, dropped, crashes>>

CompactSnapshot(c) ==
  /\ c \in Compacts /\ At(c, "snapshot")
  /\ AppendTried([kind |-> "snapshot", snap |-> op[c].snap]) /\ Go(c, "replace")
  /\ UNCHANGED <<mem, exec, stage, covers, dropped, crashes>>

CompactReplace(c) == c \in Compacts /\ Replace(c) /\ UNCHANGED stage

-----------------------------------------------------------------------------
(* The process ends and another replays the file.                            *)
Crash ==
  /\ crashes < MaxCrashes
  /\ crashes' = crashes + 1
  /\ mem' = Loaded(WholeFile)
  /\ exec' = NoTurn
  /\ stage' = [t \in Turns |-> IF stage[t] = "new" THEN "new" ELSE "over"]
  /\ op' = [o \in Ops |-> IF At(o, "off") THEN op[o] ELSE [pc |-> "done"]]
  /\ UNCHANGED <<fileVars, covers, dropped>>

Working == {o \in Ops : op[o].pc \notin {"off", "done"}}
InTurn == {t \in Turns : stage[t] \in {"begun", "spawned", "running"}}
AtRest == Working = {} /\ InTurn = {}
Overlap == Working # {} /\ Cardinality(Working \cup InTurn) > 1
Behind == \E r \in Rollbacks : At(r, "replace") /\ op[r].next.next < disk.next

Init ==
  /\ disk = Blank /\ tail = None
  /\ mem = Loaded(Blank)
  /\ exec = NoTurn
  /\ stage = [t \in Turns |-> "new"]
  /\ op = [o \in Ops |-> [pc |-> "off"]]
  /\ covers = [c \in Compacts |-> [read |-> {}, unread |-> {}]]
  /\ dropped = {} /\ marks = {} /\ raced = FALSE /\ reused = FALSE
  /\ crashes = 0 /\ fails = 0

TurnStep(t) == BeginTurn(t) \/ WriteStart(t) \/ Execute(t)
Edit(e) ==
  \/ EditExport(e) \/ EditNote(e) \/ Supersede(e) \/ EditRestore(e) \/ EditTurnLine(e)
  \/ EditItem(e) \/ EditRewrite(e) \/ EditReplace(e)
Rollback(r) == RollbackExport(r) \/ RollbackAppend(r) \/ RollbackReplace(r)
Compact(c) ==
  \/ CompactExport(c) \/ Summarize(c) \/ CompactRewrite(c) \/ CompactItem(c)
  \/ CompactSnapshot(c) \/ CompactReplace(c)

Next ==
  /\ \/ \E t \in Turns : TurnStep(t)
     \/ StartItem \/ CompleteItem \/ EndTurn
     \/ \E e \in Edits : Edit(e)
     \/ \E r \in Rollbacks : Rollback(r)
     \/ \E c \in Compacts : Compact(c)
     \/ Crash
  /\ raced' = (raced \/ Overlap')
  /\ reused' = (reused \/ Behind')

Spec == Init /\ [][Next]_vars

-----------------------------------------------------------------------------
TypeOK ==
  /\ DOMAIN stage = Turns /\ DOMAIN op = Ops
  /\ exec.turn \in Turns \cup {None} /\ mem.active \in Turns \cup {None}
  /\ disk.latest \in Turns \cup {None} /\ disk.gone \subseteq Turns
  /\ disk.next \in Nat /\ mem.next \in Nat \ {0}
  /\ marks \subseteq {"failed", "swallowed"} /\ {raced, reused} \subseteq BOOLEAN

Apart == ~raced
Intact == ~raced /\ marks \cap {"failed", "swallowed"} = {}

(* Whatever was edited, rolled back, compacted or cut off by a crash, the    *)
(* replay brings back what the server has in memory when nothing is going on:*)
(* the same items, and the same turn as the latest.                          *)
RestartChangesNothing ==
  AtRest /\ Intact => Ids(Replay) = Ids(mem.items) /\ Loaded(WholeFile).latest = mem.latest

(* What an edit or a rollback that was answered removed never comes back with*)
(* a restart, whenever the server crashes and whichever append fails in what *)
(* follows, unless a line was written behind a fragment.                     *)
GoneStaysGone == ~raced /\ "swallowed" \notin marks => dropped \cap Ids(Replay) = {}

(* The model is told everything the rollout holds after a restart: an item is*)
(* in the prompt or in the summary that is, unless the summarizer had no room*)
(* for it.                                                                   *)
Told(d) ==
  Prompt(d) \cup UNION {covers[c].read : c \in {k \in Compacts : <<k, 0>> \in Prompt(d)}}
NothingUnread ==
  Intact /\ ~reused => Ids(Replay) \subseteq Told(WholeFile)

(* A restart does not change the order of what was said in different turns.  *)
Precedes(items, a, b) == \E m, n \in DOMAIN items : m < n /\ items[m] = a /\ items[n] = b
SameOrder ==
  \A a, b \in ToSet(mem.items) :
    a.turn # b.turn /\ Precedes(mem.items, a, b) => ~Precedes(Replay, b, a)
OrderKept ==
  AtRest /\ Intact /\ ~reused =>
    SameOrder

-----------------------------------------------------------------------------
(* Refuted by the code, see README.                                          *)
OrderAlwaysKept ==
  AtRest /\ Intact =>
    SameOrder
=============================================================================
