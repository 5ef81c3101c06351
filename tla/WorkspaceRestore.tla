-------------------------- MODULE WorkspaceRestore --------------------------
(***************************************************************************)
(* The files of a turn whose message is edited.  Its write, edit and       *)
(* apply_patch calls record what they found and what they left;            *)
(* message/editPrevious takes the records of the superseded turn and puts  *)
(* the files back, one record after the other, looking at a file before it *)
(* writes it.  The user has the same files open, and the two share nothing *)
(* but the disk.                                                           *)
(***************************************************************************)
EXTENDS Naturals, Sequences, SequencesExt, FiniteSets

CONSTANTS
  Paths, Texts,
  Tools,       \* the tools the model calls, of "write", "edit" and "patch"
  MaxChanges,  \* bound on the changes a turn makes
  MaxWrites,   \* bound on what the user does
  MaxErrors,   \* bound on the file operations of the restoration that fail
  Absent, Binary, None

WorkspaceAssumption ==
  /\ Absent \notin Texts /\ Binary \notin Texts \cup {Absent}
  /\ None \notin Texts \cup {Absent, Binary}
  /\ Tools \subseteq {"write", "edit", "patch"}
  /\ {MaxChanges, MaxWrites, MaxErrors} \subseteq Nat

Contents == Texts \cup {Absent, Binary}

VARIABLES
  files,    \* the workspace
  records,  \* the candidates that the turn's tool results make
  phase,    \* "turn", "idle", "restoring", "over"
  step,     \* what the restoration of the current candidate does next
  report,   \* the outcomes so far, one for each candidate
  \* history
  before,   \* the workspace when the turn began
  theirs,   \* what the user wrote last, since the turn
  since,    \* what the user wrote since the restoration last read it
  overrun,  \* what it wrote over although the user had written since
  partial,  \* what a failing patch had changed
  writes, errors

filesVars == <<records, before, partial>>
userVars == <<theirs, writes>>
vars == <<files, phase, step, report, since, overrun, errors, filesVars, userVars>>

-----------------------------------------------------------------------------
(* The turn                                                                  *)

Added(p, post) == [kind |-> "added", path |-> p, source |-> p, pre |-> Absent, post |-> post]
Modified(p, pre, post) ==
  [kind |-> "modified", path |-> p, source |-> p, pre |-> pre, post |-> post]

InTurn == phase = "turn" /\ Len(records) < MaxChanges
Put(p, text, record) ==
  /\ files' = [files EXCEPT ![p] = text]
  /\ records' = Append(records, record)
  /\ UNCHANGED <<phase, step, report, before, partial, since, overrun, errors, userVars>>

(* A file that cannot be read as text counts as a new one.                   *)
Write(p, text) ==
  /\ InTurn /\ "write" \in Tools
  /\ Put(p, text, IF files[p] \in Texts THEN Modified(p, files[p], text) ELSE Added(p, text))

Edit(p, text) ==
  /\ InTurn /\ "edit" \in Tools
  /\ files[p] \in Texts \ {text}
  /\ Put(p, text, Modified(p, files[p], text))

(* What a patch records of a change is worked out before the first is made.  *)
Readable == {p \in Paths : files[p] \in Texts}
PatchChange(kind, p, to, text) ==
  [kind |-> kind, path |-> p, to |-> to, old |-> files[p], text |-> text]
PatchChanges ==
  {PatchChange("add", p, p, text) : p \in Paths, text \in Texts} \cup
  {PatchChange("update", p, p, text) : p \in Readable, text \in Texts} \cup
  {PatchChange("delete", p, p, None) : p \in Readable} \cup
  {PatchChange("move", p, to, text) : p \in Readable, to \in Paths, text \in Texts}

Candidate(c) ==
  CASE c.kind = "add"    -> Added(c.path, c.text)
    [] c.kind = "update" -> Modified(c.path, c.old, c.text)
    [] c.kind = "delete" -> [kind |-> "deleted", path |-> c.path, source |-> c.path,
                             pre |-> c.old, post |-> Absent]
    [] c.kind = "move"   -> [kind |-> "moved", path |-> c.to, source |-> c.path,
                             pre |-> c.old, post |-> c.text]

(* apply_change: hunks that were worked out for other lines may not fit, or  *)
(* come to something else.                                                   *)
Applied(fs, c) ==
  LET fits == fs[c.path] = c.old
      Result(text) ==
        CASE c.kind = "update" -> [fs EXCEPT ![c.path] = text]
          [] c.kind = "move"   -> [fs EXCEPT ![c.to] = text, ![c.path] = Absent]
      Ok(gs) == [files |-> gs, ok |-> TRUE] IN
  CASE c.kind = "add"    -> {Ok([fs EXCEPT ![c.path] = c.text])}
    [] c.kind = "delete" -> {Ok([fs EXCEPT ![c.path] = Absent])}
    [] OTHER -> (IF fits THEN {} ELSE {[files |-> fs, ok |-> FALSE]}) \cup
                (IF fs[c.path] \notin Texts THEN {}
                 ELSE {Ok(Result(text)) : text \in IF fits THEN {c.text} ELSE Texts})

After(results, c) == UNION {IF r.ok THEN Applied(r.files, c) ELSE {r} : r \in results}
Outcomes(changes) ==            \* of a patch of one change or of two
  LET first == After({[files |-> files, ok |-> TRUE]}, changes[1])
  IN  IF Len(changes) = 1 THEN first ELSE After(first, changes[2])

Patch(changes) ==
  /\ InTurn /\ "patch" \in Tools
  /\ Len(records) + Len(changes) <= MaxChanges
  /\ \E r \in Outcomes(changes) :
       /\ files' = r.files
       /\ records' = IF r.ok THEN records \o [n \in DOMAIN changes |-> Candidate(changes[n])]
                     ELSE records
       /\ partial' = IF r.ok THEN partial
                     ELSE partial \cup {p \in Paths : r.files[p] # files[p]}
  /\ UNCHANGED <<phase, step, report, before, since, overrun, errors, userVars>>

EndTurn ==
  /\ phase = "turn" /\ phase' = "idle"
  /\ UNCHANGED <<files, step, report, since, overrun, errors, filesVars, userVars>>

-----------------------------------------------------------------------------
(* The user saves or removes a file.                                         *)
UserWrites(p, content) ==
  /\ phase \in {"idle", "restoring"} /\ writes < MaxWrites
  /\ content # files[p]
  /\ files' = [files EXCEPT ![p] = content]
  /\ theirs' = [theirs EXCEPT ![p] = content]
  /\ since' = since \cup {p}
  /\ writes' = writes + 1
  /\ UNCHANGED <<phase, step, report, overrun, errors, filesVars>>

-----------------------------------------------------------------------------
(* apply_safe_workspace_restore                                              *)

StartRestore ==
  /\ phase = "idle"
  /\ phase' = "restoring" /\ step' = "look"
  /\ UNCHANGED <<files, report, since, overrun, errors, filesVars, userVars>>

Current == records[Len(report) + 1]
Moved == Current.kind = "moved" /\ Current.source # Current.path
Doing(s) == phase = "restoring" /\ Len(report) < Len(records) /\ step = s
Outcome(status) == report' = Append(report, status) /\ step' = "look"
GoOn(s) == step' = s /\ UNCHANGED report

LookUnchecked ==        \* mutant: what is there now does not matter
  /\ Doing("look")
  /\ since' = since \ {Current.path}
  /\ GoOn(CASE Current.kind = "added" -> "remove"
            [] Moved -> "source"
            [] OTHER -> "write")
  /\ UNCHANGED <<files, phase, overrun, errors, filesVars, userVars>>

Look ==
  LET c == Current
      found == files[c.path] IN
  /\ Doing("look")
  /\ since' = since \ {c.path}
  /\ CASE found = c.post -> GoOn(CASE c.kind = "added" -> "remove"
                                   [] Moved -> "source"
                                   [] OTHER -> "write")
       [] found # c.post /\ found = Absent ->
            Outcome(IF \/ c.kind = "added"
                       \/ Moved /\ files[c.source] = c.pre
                    THEN "restored" ELSE "skipped")
       [] OTHER -> Outcome("skipped")
  /\ UNCHANGED <<files, phase, overrun, errors, filesVars, userVars>>

LookAtSource ==
  LET c == Current
      found == files[c.source] IN
  /\ Doing("source")
  /\ since' = since \ {c.source}
  /\ CASE found = c.pre  -> GoOn("remove")
       [] found = Absent -> GoOn("write")
       [] OTHER          -> Outcome("skipped")
  /\ UNCHANGED <<files, phase, overrun, errors, filesVars, userVars>>

Change(p, content) ==
  /\ files' = [files EXCEPT ![p] = content]
  /\ overrun' = IF p \in since THEN overrun \cup {p} ELSE overrun
  /\ UNCHANGED <<phase, since, errors, filesVars, userVars>>

WriteOnly ==            \* mutant: a moved file is left in both places
  /\ Doing("write")
  /\ Outcome("restored")
  /\ Change(Current.source, Current.pre)

WriteBack ==
  /\ Doing("write")
  /\ IF Moved THEN GoOn("remove") ELSE Outcome("restored")
  /\ Change(Current.source, Current.pre)

RemoveFile ==
  /\ Doing("remove")
  /\ Outcome("restored")
  /\ Change(Current.path, Absent)

(* An error other than that the file is not there, or is not text.           *)
Fails ==
  /\ Doing(step) /\ errors < MaxErrors
  /\ errors' = errors + 1
  /\ Outcome("failed")
  /\ UNCHANGED <<files, phase, since, overrun, filesVars, userVars>>

EndRestore ==
  /\ phase = "restoring" /\ Len(report) = Len(records)
  /\ phase' = "over"
  /\ UNCHANGED <<files, step, report, since, overrun, errors, filesVars, userVars>>

Fresh(fs) ==
  /\ files = fs /\ before = fs
  /\ records = <<>> /\ report = <<>>
  /\ phase = "turn" /\ step = "look"
  /\ theirs = [p \in Paths |-> None]
  /\ since = {} /\ overrun = {} /\ partial = {}
  /\ writes = 0 /\ errors = 0

Init == \E fs \in [Paths -> Contents] : Fresh(fs)
Unused == Fresh([p \in Paths |-> Absent])

Next ==
  \/ \E p \in Paths, text \in Texts : Write(p, text) \/ Edit(p, text)
  \/ \E changes \in PatchChanges \X PatchChanges : Patch(changes)
  \/ \E c \in PatchChanges : Patch(<<c>>)
  \/ \E p \in Paths, content \in Texts \cup {Absent} : UserWrites(p, content)
  \/ EndTurn \/ StartRestore \/ Look \/ LookAtSource \/ WriteBack \/ RemoveFile \/ Fails \/ EndRestore

Spec == Init /\ [][Next]_vars

Symmetry == Permutations(Paths) \cup Permutations(Texts)

-----------------------------------------------------------------------------
TypeOK ==
  /\ files \in [Paths -> Contents] /\ before \in [Paths -> Contents]
  /\ phase \in {"turn", "idle", "restoring", "over"}
  /\ step \in {"look", "source", "write", "remove"}
  /\ Len(report) <= Len(records) /\ Len(records) <= MaxChanges
  /\ since \cup overrun \cup partial \subseteq Paths

On(c) == {c.path, c.source}
(* What the changes of the turn left at a path, one after the other.         *)
Left(p) == {c.post : c \in {r \in ToSet(records) : r.path = p}} \cup
           (IF \E c \in ToSet(records) : c.source = p /\ c.path # p THEN {Absent} ELSE {})

(* What the user did to a file after the turn is still there when the        *)
(* replacement turn begins, unless it is what the turn had left there, or it *)
(* was done between the restoration's look at the file and its write.        *)
UserContentKept ==
  phase = "over" =>
    \A p \in Paths : theirs[p] \notin Left(p) \cup {None} /\ p \notin overrun => files[p] = theirs[p]

(* A change that shares its files with no other, that put nothing in the     *)
(* place of something else and whose files the user let be is undone, and    *)
(* reported as undone, unless a file operation failed.                       *)
Alone(n) ==
  /\ \A m \in DOMAIN records \ {n} : On(records[m]) \cap On(records[n]) = {}
  /\ On(records[n]) \cap partial = {}
Untouched(n) == \A p \in On(records[n]) : theirs[p] = None
Replaces(c) == c.kind \in {"added", "moved"} /\ before[c.path] # Absent

LoneChangeUndone ==
  phase = "over" =>
    \A n \in DOMAIN records :
      LET c == records[n] IN
      Alone(n) /\ Untouched(n) /\ ~Replaces(c) /\ report[n] # "failed" =>
        report[n] = "restored" /\ \A p \in On(c) : files[p] = before[p]

(* Refuted by the code.  The files that a turn changed through write and     *)
(* edit, and that the user let be, are as they were before the turn when the *)
(* replacement begins: "those files are restored to their pre-turn state     *)
(* before the replacement continuation runs",                                *)
(* specs/L1/L1-REQ-CONV-005-immediate-message-editing.md:72.                 *)
RestoredToPreTurn ==
  phase = "over" /\ errors = 0 =>
    \A p \in UNION {On(c) : c \in ToSet(records)} :
      theirs[p] = None /\ p \notin partial => files[p] = before[p]
=============================================================================
