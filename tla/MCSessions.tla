----------------------------- MODULE MCSessions -----------------------------
(* Where a session is when nobody works on it: in the server's memory or not *)
(* (SessionCache), in its rollout (Rollout), in the files that its last turn *)
(* left in the workspace (WorkspaceRestore).  The three are worked on by     *)
(* different requests and share no state that these modules represent, so an *)
(* execution is one of one of them, chosen at the beginning.                 *)
EXTENDS SessionCache

CONSTANTS
  Starts, Hidden, Edits, Rollbacks, Compacts, MaxWork, MaxUnread, MaxCrashes, MaxFails, Junk,
  Paths, Texts, Tools, MaxChanges, MaxWrites, MaxErrors, Absent, Binary

VARIABLES
  side,                                                             \* which of the three
  disk, tail, mem, exec, stage, op, covers, dropped, marks, raced, reused,
  crashes, fails,                                                   \* as in Rollout
  files, records, phase, step, report, before, theirs, since, overrun, partial,
  writes, errors                                                    \* as in WorkspaceRestore

Log == INSTANCE Rollout
Workspace == INSTANCE WorkspaceRestore

ASSUME MCAssumption == Log!RolloutAssumption /\ Workspace!WorkspaceAssumption

logVars == <<disk, tail, mem, exec, stage, op, covers, dropped, marks, raced, reused, crashes, fails>>
workspaceVars ==
  <<files, records, phase, step, report, before, theirs, since, overrun, partial, writes, errors>>
allVars == <<side, vars, logVars, workspaceVars>>

MCInit ==
  /\ Init /\ Log!Init
  /\ \/ side = "workspace" /\ Workspace!Init
     \/ side \in {"memory", "log"} /\ Workspace!Unused

(* Only the memory's part must always be able to go on.                      *)
Rest == side # "memory" /\ UNCHANGED allVars

MCNext ==
  \/ side = "memory" /\ Next /\ UNCHANGED <<side, logVars, workspaceVars>>
  \/ side = "log" /\ Log!Next /\ UNCHANGED <<side, vars, workspaceVars>>
  \/ side = "workspace" /\ Workspace!Next /\ UNCHANGED <<side, vars, logVars>>
  \/ Rest

MCSpec == MCInit /\ [][MCNext]_allVars

(* Requests that replace a session's state are not followed any further once *)
(* they overlap with anything: the properties of Rollout say nothing of what *)
(* comes then.                                                               *)
Apart == Log!Apart

Symmetry == Permutations(Sessions) \cup Permutations(Conns) \cup Permutations(Paths)

(* What Rollout says of restarts and WorkspaceRestore of the files.          *)
RestartChangesNothing == Log!RestartChangesNothing
GoneStaysGone == Log!GoneStaysGone
NothingUnread == Log!NothingUnread
OrderKept == Log!OrderKept
UserContentKept == Workspace!UserContentKept
LoneChangeUndone == Workspace!LoneChangeUndone
=============================================================================
