---------------------------- MODULE ProcessStore ----------------------------
(***************************************************************************)
(* The table of long-lived processes.  Whoever starts one reserves an id   *)
(* first and inserts the process when it runs; beyond a limit, a           *)
(* reservation makes room by ending a process that was not used lately.    *)
(* Clients' command/exec and the tools of sessions have a table each:      *)
(* CommandExec and ExecTool.                                               *)
(*                                                                         *)
(* A process bears the name of the start that asked for it, and so does    *)
(* its id: that one random id of 99,000 is drawn twice is left out.  Hence *)
(* the two locks of the table, of which only a reservation holds both, are *)
(* one.  Which processes were used last is a choice.                       *)
(***************************************************************************)
EXTENDS Naturals, FiniteSets, FiniteSetsExt

CONSTANTS
  Starts,         \* requests and tool calls that start a process
  MaxProcesses,   \* MAX_PROCESSES
  Protected       \* PROTECTED_RECENT_PROCESSES

ASSUME StoreAssumption ==
  /\ IsFiniteSet(Starts)
  /\ MaxProcesses \in Nat /\ Protected \in Nat /\ Protected < MaxProcesses

VARIABLES
  reserved,   \* reserved_process_ids
  entries,    \* processes
  proc        \* the processes: none, running, killed, over with an exit code or without

storeVars == <<reserved, entries, proc>>

Runs(s) == proc[s] = "running"       \* is_running
HasCode(s) == proc[s] = "exited"     \* exit_code().is_some()
Killed(S) == [s \in Starts |-> IF s \in S /\ Runs(s) THEN "killed" ELSE proc[s]]

(* process_id_to_prune_from_meta: an exited one if any, never a recent one.  *)
ToPrune(recent) ==
  LET old == entries \ recent
      exited == {s \in old : ~Runs(s)}
  IN  IF exited # {} THEN exited ELSE old
Victims ==
  IF Cardinality(entries) < MaxProcesses THEN {{}}
  ELSE {{v} : v \in UNION {ToPrune(recent) : recent \in kSubset(Protected, entries)}}

(* Reserves an id for s, unless the table is over its limit even so.         *)
Granted(victims) == Cardinality(entries \ victims) < MaxProcesses
ForgetVictim(s, victims) ==       \* mutant: who is pruned goes on
  /\ entries' = entries \ victims
  /\ UNCHANGED proc
  /\ reserved' = IF Granted(victims) THEN reserved \cup {s} ELSE reserved
Reserve(s, victims) ==
  /\ entries' = entries \ victims
  /\ proc' = Killed(victims)
  /\ reserved' = IF Granted(victims) THEN reserved \cup {s} ELSE reserved

Spawn(s) == proc' = [proc EXCEPT ![s] = "running"] /\ UNCHANGED <<reserved, entries>>
Insert(s) == entries' = entries \cup {s} /\ reserved' = reserved \ {s} /\ UNCHANGED proc
Release(s) == reserved' = reserved \ {s} /\ UNCHANGED <<entries, proc>>
Kill(S) == proc' = Killed(S) /\ UNCHANGED <<reserved, entries>>

(* What is in the table is ended.                                            *)
Remove(s) ==
  /\ entries' = entries \ {s} /\ reserved' = reserved \ {s}
  /\ proc' = Killed({s} \cap entries)
TerminateAll ==
  /\ entries' = {} /\ reserved' = {}
  /\ proc' = Killed(entries)

(* A process ends by itself or because it was killed.  A signal leaves one   *)
(* that has no terminal without an exit code.                                *)
Exit(s, how) ==
  /\ proc[s] \in {"running", "killed"}
  /\ proc' = [proc EXCEPT ![s] = how]
  /\ UNCHANGED <<reserved, entries>>

StoreInit == reserved = {} /\ entries = {} /\ proc = [s \in Starts |-> "none"]

StoreTypeOK ==
  /\ reserved \subseteq Starts /\ entries \subseteq Starts
  /\ proc \in [Starts -> {"none", "running", "killed", "exited", "lost"}]
=============================================================================
