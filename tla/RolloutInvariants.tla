------------------------- MODULE RolloutInvariants --------------------------
(***************************************************************************)
(* What holds of the rollout, of its session in memory and of the requests *)
(* that write it, in every state: the conjuncts of the invariants by which *)
(* SessionCacheProofs shows that a restart brings back what the server had *)
(* and nothing that an edit or a rollback removed.                         *)
(***************************************************************************)
EXTENDS MCSessions

OnlyStep(s, S, f, n) == IF n = 0 THEN <<>> ELSE IF s[n] \in S THEN Append(f[n - 1], s[n]) ELSE f[n - 1]

(* What is in the variables of Rollout.                                      *)

Turns == Log!Turns
Ops == Log!Ops
ItemIds == (Turns \X Nat) \cup (Compacts \X {0})
MemItems == [id : ItemIds, turn : Turns]
DiskItems == [id : ItemIds, turn : Turns, seq : Nat]
Mems == [items : Seq(MemItems), latest : Turns \cup {None}, next : Nat, active : Turns \cup {None}]
Snaps == [summary : Compacts \X {0}, kept : Seq(ItemIds)]
Disks ==
  [items : Seq(DiskItems), order : Seq(Turns), latest : Turns \cup {None}, gone : SUBSET Turns,
   snap : Snaps \cup {None}, next : Nat]
TurnLines == [kind : {"turn", "superseded"}, turn : Turns]
ItemLines == [kind : {"item"}, item : DiskItems]
CutLines == [kind : {"rollback"}, turns : SUBSET Turns, ids : SUBSET ItemIds, latest : Turns \cup {None}]
SnapLines == [kind : {"snapshot"}, snap : Snaps]
NoteLines == [kind : {"note"}]
Lines == TurnLines \cup ItemLines \cup CutLines \cup SnapLines \cup NoteLines

LineItems(l) == IF l.kind = "item" THEN {l.item} ELSE {}
TailItems == IF tail \in {None, Junk} THEN {} ELSE LineItems(tail)
Items == Log!ToSet(disk.items)

FileTyped ==
  /\ disk \in Disks /\ tail \in Lines \cup {None, Junk}
  /\ marks \subseteq {"failed", "swallowed"}

(* The types, and what an action does to what it changes.                    *)

OffOrDone == [pc : {"off", "done"}]
EditPcs == {"note", "supersede", "restore", "turn", "item", "rewrite"}
EditAtWork == [pc : EditPcs, target : Turns]
Replacing(pcs) == [pc : pcs, cut : SUBSET ItemIds, next : Mems]
EditOps == OffOrDone \cup EditAtWork \cup Replacing({"replace"})
RollbackOps == OffOrDone \cup Replacing({"append", "replace"})
Summarizing == [pc : {"summarize"}, items : Seq(MemItems)]
Exporting == [pc : {"export"}, kept : Seq(ItemIds)]
Summarized ==
  [pc : {"item", "snapshot", "replace"}, line : ItemLines, cut : {{}}, snap : Snaps, next : Mems]
Uncompacted == [pc : {"replace"}, cut : {{}}, next : Mems]
CompactOps == OffOrDone \cup Summarizing \cup Exporting \cup Uncompacted \cup Summarized

Execs ==
  [turn : Turns \cup {None}, items : Seq(MemItems), open : SUBSET DiskItems, next : Nat, begun : Nat]
SessionTyped ==
  /\ mem \in Mems
  /\ exec \in Execs
  /\ stage \in [Turns -> {"new", "begun", "spawned", "running", "over"}]
OpsTyped ==
  /\ DOMAIN op = Ops
  /\ \A e \in Edits : op[e] \in EditOps
  /\ \A r \in Rollbacks : op[r] \in RollbackOps
  /\ \A c \in Compacts : op[c] \in CompactOps
HistoryTyped ==
  /\ covers \in [Compacts -> [read : SUBSET ItemIds, unread : SUBSET ItemIds]]
  /\ dropped \subseteq ItemIds
  /\ raced \in BOOLEAN /\ reused \in BOOLEAN
Typed == FileTyped /\ SessionTyped /\ OpsTyped /\ HistoryTyped

OnlyOf(o) == \A p \in Ops : p # o => op'[p] = op[p]

Message(t) == [id |-> <<t, 0>>, turn |-> t, seq |-> mem.next]

Opened == [id |-> <<exec.turn, exec.begun + 1>>, turn |-> exec.turn, seq |-> exec.next]

Replacement(e, n) == [id |-> <<e, 0>>, turn |-> e, seq |-> n]

CutLine(kept, latest) ==
  [kind |-> "rollback", turns |-> {kept[n].turn : n \in DOMAIN kept}, ids |-> Log!Ids(kept), latest |-> latest]

Summary(c) ==
  [id |-> <<c, 0>>, turn |-> IF mem.latest # None THEN mem.latest ELSE mem.active, seq |-> mem.next]

(* Where the items are: which have been written, and which belong to a       *)
(* request that is through with them.                                        *)

Stages ==
  /\ \A t \in Turns : stage[t] = "running" <=> exec.turn = t
  /\ \A e \in Edits : op[e].pc # "done" => stage[e] = "new"
  /\ exec.turn = None => Log!ToSet(exec.items) = {} /\ exec.open = {}
  /\ \A i \in exec.open \cup Log!ToSet(exec.items) :
       i.turn = exec.turn /\ i.id[1] = exec.turn /\ i.id[2] <= exec.begun
  /\ \A i \in Log!ToSet(exec.items) : i.id[2] = 0 => exec.turn \in Starts
  /\ \A i \in exec.open : i.id[2] > 0

Settled(id) ==
  \/ id[1] \in Turns /\ stage[id[1]] = "over"
  \/ id[1] \in Edits \cup Compacts /\ id[2] = 0 /\ op[id[1]].pc = "done"
Written(id) ==
  \/ Settled(id)
  \/ id[1] = exec.turn /\ id[2] <= exec.begun /\ (id[2] = 0 => exec.turn \in Starts)
  \/ id[1] \in Edits /\ id[2] = 0 /\ op[id[1]].pc \in {"rewrite", "replace"}
  \/ id[1] \in Compacts /\ op[id[1]].pc \in {"snapshot", "replace"}
HasNext(o) ==
  op[o].pc \in {"append", "snapshot", "replace"} \/ (o \in Compacts /\ op[o].pc = "item")

Filed == \A i \in Items \cup TailItems : Written(i.id)
Held == (\A x \in Log!ToSet(mem.items) : Settled(x.id)) /\ (\A id \in dropped : Settled(id))
Copied(o) ==
  /\ op[o].pc \in {"append", "replace"} => \A id \in op[o].cut : Settled(id)
  /\ HasNext(o) =>
       \A x \in Log!ToSet(op[o].next.items) : Settled(x.id) \/ (x.id = <<o, 0>> /\ o \in Edits \cup Compacts)
  /\ o \in Compacts /\ op[o].pc = "item" => op[o].line.item.id = <<o, 0>>
Places == Filed /\ Held /\ \A o \in Ops : Copied(o)

(* The items that are about: in memory, in the file, in a copy.              *)
OpItems(o) ==
  (IF HasNext(o) THEN Log!ToSet(op[o].next.items) ELSE {})
  \cup (IF o \in Compacts /\ op[o].pc = "item" THEN {Log!Remembered(op[o].line.item)} ELSE {})
About ==
  Log!ToSet(mem.items) \cup {Log!Remembered(i) : i \in Items \cup TailItems} \cup UNION {OpItems(o) : o \in Ops}
Own(x) == x.id[1] \in Turns /\ x.turn = x.id[1]
SameTurn ==
  /\ \A x \in About : x.id[1] \in Turns => Own(x)
  /\ \A x, y \in About : x.id = y.id => x.turn = y.turn

(* While nothing overlaps with a request that replaces the session's state,  *)
(* whoever is at work is alone.                                              *)

AtWork(o) == op[o].pc \notin {"off", "done"}
Busy(t) == stage[t] \in {"begun", "spawned", "running"}
Lone ==
  ~raced => \A o \in Ops : AtWork(o) =>
              (\A p \in Ops : AtWork(p) => p = o) /\ \A t \in Turns : ~Busy(t)

EditActs(e) ==
  \/ Log!EditExport(e) \/ Log!EditNote(e) \/ Log!Supersede(e) \/ Log!EditRestore(e)
  \/ Log!EditTurnLine(e) \/ Log!EditItem(e) \/ Log!EditRewrite(e) \/ Log!EditReplace(e)
RollbackActs(r) == Log!RollbackExport(r) \/ Log!RollbackAppend(r) \/ Log!RollbackReplace(r)
CompactActs(c) ==
  \/ Log!CompactExport(c) \/ Log!Summarize(c) \/ Log!CompactRewrite(c) \/ Log!CompactItem(c)
  \/ Log!CompactSnapshot(c) \/ Log!CompactReplace(c)
Acts(o) == (o \in Edits /\ EditActs(o)) \/ (o \in Rollbacks /\ RollbackActs(o)) \/ (o \in Compacts /\ CompactActs(o))

TurnActs ==
  (\E t \in Turns : Log!BeginTurn(t) \/ Log!WriteStart(t) \/ Log!Execute(t)) \/ Log!StartItem \/ Log!CompleteItem \/ Log!EndTurn

Unswallowed == ~raced /\ "swallowed" \notin marks

TargetDiffers == \A e \in Edits : op[e].pc \in EditPcs => op[e].target # e
CutOf(r) == op[r].pc = "append" => op[r].cut \cap {x.id : x \in Log!ToSet(op[r].next.items)} = {}
ClearedEdit(e) ==
  /\ op[e].pc \in {"supersede", "restore", "turn", "item", "rewrite"} => tail = None
  /\ op[e].pc \in {"restore", "turn", "item", "rewrite"} => \A i \in Items : i.turn # op[e].target
ClearedCut(o) ==
  op[o].pc = "replace" => tail = None /\ op[o].cut \cap {i.id : i \in Items} = {}
Cleared ==
  /\ TargetDiffers /\ \A r \in Rollbacks : CutOf(r)
  /\ Unswallowed => (\A e \in Edits : ClearedEdit(e)) /\ \A o \in Edits \cup Rollbacks : ClearedCut(o)

Gone == Unswallowed => dropped \cap {i.id : i \in Items \cup TailItems} = {}

GoneInv == Typed /\ Stages /\ Places /\ SameTurn /\ Lone /\ Cleared /\ Gone

(* That a restart changes nothing.                                           *)

TailFailed == tail # None => "failed" \in marks
Whole == ~raced /\ marks = {}

NextActive ==
  /\ \A e \in Edits : op[e].pc = "replace" => op[e].next.active = e
  /\ \A r \in Rollbacks : HasNext(r) => op[r].next.active = None
  /\ ~raced => \A c \in Compacts : HasNext(c) => op[c].next.active = None
OneTurn ==
  ~raced => /\ \A t \in Turns : Busy(t) => mem.active = t
            /\ mem.active # None => \E t \in Turns : t = mem.active /\ Busy(t)

TurnSettled(t) == stage[t] = "over" \/ (t \in Edits /\ stage[t] = "new" /\ op[t].pc = "done")
Started(t) ==
  \/ TurnSettled(t) \/ stage[t] \in {"spawned", "running"}
  \/ t \in Edits /\ op[t].pc \in {"item", "rewrite", "replace"}

(* The turns the file has, those it no longer has, and their items.          *)
Orderly ==
  /\ disk.latest \in Log!ToSet(disk.order) \cup {None}
  /\ \A i \in Items : i.turn \in Log!ToSet(disk.order)
  /\ disk.gone \cap Log!ToSet(disk.order) = {}
  /\ \A t \in Log!ToSet(disk.order) : Started(t)
  /\ \A t \in disk.gone : TurnSettled(t)
  /\ \A i \in Items : i.id[1] \in Compacts => TurnSettled(i.turn)
LatestOver == mem.latest # None => TurnSettled(mem.latest)
TargetsOver == \A e \in Edits : op[e].pc \in EditPcs => TurnSettled(op[e].target)
FileInOrder == Whole => Orderly /\ LatestOver /\ TargetsOver

IdsIn(S) == {x.id : x \in S}
DiskIds == IdsIn(Items)
MemIdSet == IdsIn(Log!ToSet(mem.items))
Left(t) == IdsIn({x \in Log!ToSet(mem.items) : x.turn # t})

EditFacts(e) ==
  /\ op[e].pc \in {"note", "supersede"} => DiskIds = MemIdSet
  /\ op[e].pc \in {"restore", "turn", "item"} => DiskIds = Left(op[e].target)
  /\ op[e].pc = "rewrite" => DiskIds = Left(op[e].target) \cup {<<e, 0>>}
  /\ op[e].pc = "replace" => DiskIds = IdsIn(Log!ToSet(op[e].next.items)) /\ op[e].next.latest = mem.latest
  /\ op[e].pc \in {"item", "rewrite", "replace"} => disk.latest = e
RollbackFacts(r) ==
  /\ op[r].pc = "append" =>
       /\ DiskIds = MemIdSet /\ IdsIn(Log!ToSet(op[r].next.items)) \subseteq DiskIds
       /\ \/ op[r].next.latest = None
          \/ \E x \in Log!ToSet(op[r].next.items) : op[r].next.latest = x.turn
  /\ op[r].pc = "replace" =>
       DiskIds = IdsIn(Log!ToSet(op[r].next.items)) /\ disk.latest = op[r].next.latest
CompactFacts(c) ==
  /\ op[c].pc \in {"summarize", "export", "item"} => DiskIds = MemIdSet
  /\ AtWork(c) => disk.latest = mem.latest
  /\ op[c].pc = "item" =>
       /\ IdsIn(Log!ToSet(op[c].next.items)) = DiskIds \cup {<<c, 0>>}
       /\ op[c].line.item.turn \in Log!ToSet(disk.order) /\ TurnSettled(op[c].line.item.turn)
  /\ op[c].pc \in {"snapshot", "replace"} => DiskIds = IdsIn(Log!ToSet(op[c].next.items))
  /\ HasNext(c) => op[c].next.latest = disk.latest
Nobody == \A o \in Ops : ~AtWork(o)
TurnFacts ==
  /\ DiskIds = MemIdSet \cup IdsIn(Log!ToSet(exec.items))
  /\ (\A t \in Turns : Busy(t) => stage[t] = "begun") => disk.latest = mem.latest
  /\ \A t \in Turns : stage[t] \in {"spawned", "running"} => disk.latest = t
Agrees ==
  Whole => /\ \A e \in Edits : EditFacts(e)
           /\ \A r \in Rollbacks : RollbackFacts(r)
           /\ \A c \in Compacts : CompactFacts(c)
           /\ Nobody => TurnFacts

Lawful(l) ==
  /\ l.kind = "item" => /\ l.item.turn \in Log!ToSet(disk.order)
                        /\ l.item.id[1] \in Compacts => TurnSettled(l.item.turn)
  /\ l.kind = "superseded" => TurnSettled(l.turn)
RestartInv ==
  GoneInv /\ TailFailed /\ NextActive /\ OneTurn /\ FileInOrder /\ Agrees

(* Numbers and order: what a prompt leaves out is in its summary, and a      *)
(* restart sorts what it reads as the server had it.                         *)

Above(S, n) == \A x \in S : x.seq < n
Distinct(S) == \A x, y \in S : x.id = y.id \/ x.seq = y.seq => x = y
OrderedIn(S, s) ==
  \A m, n \in DOMAIN s : m < n /\ s[m].turn # s[n].turn =>
    \A x, y \in S : x.id = s[m].id /\ y.id = s[n].id => x.seq < y.seq
KnownIn(S, snap, seen) ==
  snap # None => \A s \in S : s.id = snap.summary =>
                   \A x \in S : x = s \/ x.id \in seen[s.id[1]].read \/ s.seq < x.seq

Straight == Whole /\ ~reused
Numbered == Above(Items, disk.next)
Resting == exec.turn = None /\ \A o \in Ops : op[o].pc \notin {"snapshot", "replace"}
TurnNumbers ==
  /\ Above(Items, exec.next) /\ Above(exec.open, exec.next)
  /\ Distinct(exec.open)
  /\ \A i \in exec.open : \A x \in Items :
       i.id # x.id /\ i.seq # x.seq /\ (x.turn # exec.turn => x.seq < i.seq)
  /\ \A x, y \in Items : x.turn # exec.turn /\ y.turn = exec.turn => x.seq < y.seq
EditNumbers(e) ==
  op[e].pc \in {"rewrite", "replace"} \/ stage[e] = "spawned" =>
    \A x, y \in Items : x.id # <<e, 0>> /\ y.id = <<e, 0>> => x.seq < y.seq
CompactNumbers(c) ==
  /\ op[c].pc = "item" =>
       /\ Above(Items, op[c].line.item.seq) /\ op[c].next.next = op[c].line.item.seq + 1
       /\ op[c].next.items = Append(mem.items, Log!Remembered(op[c].line.item))
  /\ op[c].pc \in {"item", "snapshot"} => op[c].snap.summary = <<c, 0>>
  /\ op[c].pc = "summarize" => DiskIds \subseteq IdsIn(Log!ToSet(op[c].items))
  /\ op[c].pc \in {"export", "item"} => DiskIds \subseteq covers[c].read
  /\ op[c].pc = "snapshot" => DiskIds \subseteq covers[c].read \cup {<<c, 0>>}
NextNumbers(o) ==
  /\ op[o].pc \in {"snapshot", "replace"} => Above(Items, op[o].next.next)
  /\ HasNext(o) => OrderedIn(Items, op[o].next.items)
SnapOver == disk.snap # None => op[disk.snap.summary[1]].pc \in {"replace", "done"}
Numbers ==
  /\ Distinct(Items)
  /\ Resting => Above(Items, mem.next)
  /\ exec.turn # None => TurnNumbers
  /\ \A e \in Edits : EditNumbers(e)
  /\ \A c \in Compacts : CompactNumbers(c)
  /\ \A o \in Ops : NextNumbers(o)
  /\ OrderedIn(Items, mem.items)
  /\ SnapOver /\ KnownIn(Items, disk.snap, covers)
BegunStarts == \A t \in Turns : stage[t] = "begun" => t \in Starts
NumberInv == RestartInv /\ Numbered /\ BegunStarts /\ (Straight => Numbers)
=============================================================================
