---------------------------- MODULE SessionLock ----------------------------
(***************************************************************************)
(* The lock file that is to keep a user to one InfiniteCode process: the   *)
(* command line binary takes it in crates/core/src/session_lock.rs, the    *)
(* Desktop application in apps/desktop/src/main/session-lock.ts.  Both     *)
(* look at the file, judge whether the process it names is alive, and      *)
(* replace it by writing a temporary file and renaming it; nothing makes   *)
(* these steps atomic.  Processes can be killed at any point.              *)
(***************************************************************************)

CONSTANTS
  Clis, Desktops,   \* processes, one pid each, by surface
  Files,            \* inodes; enough of them that a fresh one is always to be had
  NoFile, NoProc,
  SharedHome        \* do both surfaces resolve the same path?  By default the binary uses
                    \* ~/.infinitecode, the Desktop the platform's application data directory

Processes == Clis \cup Desktops
Surfaces == {"cli", "desktop"}

LockAssumption ==      \* assumed by MCSingletons
  /\ Clis \cap Desktops = {}
  /\ NoProc \notin Processes /\ NoFile \notin Files
  /\ SharedHome \in BOOLEAN

VARIABLES
  pc,        \* what each process does; a Desktop without the lock is "idle"
  seen,      \* the pid each process read in the lock file
  fd,        \* the file each process has open for writing
  lock,      \* the file linked at each lock path
  tmp,       \* the file linked at each surface's temporary path
  content,   \* what each file holds: a process, or NoProc for text that does not parse
  outcome,   \* how the last attempt of each process ended
  met,       \* who else was alive at some moment of the last attempt of each process
  under      \* who was running when that attempt began, and still is

diskVars == <<lock, tmp, content>>
historyVars == <<outcome, met, under>>
vars == <<pc, seen, fd, diskVars, historyVars>>

Surface(p) == IF p \in Clis THEN "cli" ELSE "desktop"
Home(p) == IF SharedHome THEN "cli" ELSE Surface(p)
LockOf(p) == lock[Home(p)]

Alive(p) == pc[p] \notin {"off", "gone"}
Attempting(p) == Alive(p) /\ pc[p] \notin {"idle", "running"}

Goto(p, l) == pc' = [pc EXCEPT ![p] = l]
Unlinked(p) == [lock EXCEPT ![Home(p)] = NoFile]     \* remove_file, errors ignored

(* Where an attempt that fails leaves a process: a binary exits. *)
TurnedAway(p) == IF p \in Clis THEN "gone" ELSE "idle"
Ends(p, o) == outcome' = [outcome EXCEPT ![p] = o]
Leaves(p) == under' = [q \in Processes |-> under[q] \ {p}]

-----------------------------------------------------------------------------
(* Electron's own single-instance lock keeps a second Desktop from starting. *)
Launch(p) ==
  /\ p \in Desktops /\ pc[p] = "off"
  /\ \A q \in Desktops : ~Alive(q)
  /\ Goto(p, "idle")
  /\ met' = [q \in Processes |-> IF Attempting(q) THEN met[q] \cup {p} ELSE met[q]]
  /\ UNCHANGED <<seen, fd, diskVars, outcome, under>>

Start(p) ==
  /\ pc[p] = IF p \in Clis THEN "off" ELSE "idle"
  /\ Goto(p, IF p \in Clis THEN "exists" ELSE "read")
  /\ Ends(p, "none")
  /\ met' = [q \in Processes |->
       CASE q = p -> {r \in Processes \ {p} : Alive(r)}
         [] q # p /\ Attempting(q) -> met[q] \cup {p}
         [] OTHER -> met[q]]
  /\ under' = [under EXCEPT ![p] = {r \in Processes \ {p} : pc[r] = "running"}]
  /\ UNCHANGED <<seen, fd, diskVars>>

Exists(p) ==           \* path.exists()
  /\ pc[p] = "exists"
  /\ Goto(p, IF LockOf(p) = NoFile THEN "open" ELSE "read")
  /\ UNCHANGED <<seen, fd, diskVars, historyVars>>

(* The binary removes a file it cannot parse, the Desktop writes over it.    *)
Read(p) ==
  /\ pc[p] = "read"
  /\ LET owner == IF LockOf(p) = NoFile THEN NoProc ELSE content[LockOf(p)] IN
       /\ seen' = [seen EXCEPT ![p] = owner]
       /\ Goto(p, CASE LockOf(p) = NoFile -> "open"
                    [] LockOf(p) # NoFile /\ owner = NoProc ->
                         IF p \in Clis THEN "clear" ELSE "open"
                    [] owner = p -> "running"
                    [] OTHER -> "probe")
       /\ IF owner = p THEN Ends(p, "won") ELSE UNCHANGED outcome
  /\ UNCHANGED <<fd, diskVars, met, under>>

ProbeNever(p) ==       \* mutant: any lock is taken for stale
  /\ pc[p] = "probe"
  /\ Goto(p, "clear")
  /\ UNCHANGED <<seen, fd, diskVars, historyVars>>

Probe(p) ==            \* is_pid_alive
  /\ pc[p] = "probe"
  /\ IF Alive(seen[p])
       THEN Goto(p, TurnedAway(p)) /\ Ends(p, "superseded")
       ELSE Goto(p, "clear") /\ UNCHANGED outcome
  /\ UNCHANGED <<seen, fd, diskVars, met, under>>

Clear(p) ==
  /\ pc[p] = "clear"
  /\ lock' = Unlinked(p)
  /\ Goto(p, "open")
  /\ UNCHANGED <<seen, fd, tmp, content, historyVars>>

-----------------------------------------------------------------------------
(* write_new_lock_at and writeNewLock.                                       *)

\* the inode a new file gets
Linked == {lock[s] : s \in Surfaces} \cup {tmp[s] : s \in Surfaces} \cup {fd[p] : p \in Processes}
Fresh == CHOOSE f \in Files : f \notin Linked

OpenNew(p) ==          \* mutant: create_new, which fails on a leftover
  /\ pc[p] = "open"
  /\ IF tmp[Surface(p)] # NoFile
       THEN /\ Goto(p, TurnedAway(p)) /\ Ends(p, "writeFailed")
            /\ UNCHANGED <<fd, tmp, content>>
       ELSE /\ fd' = [fd EXCEPT ![p] = Fresh]
            /\ tmp' = [tmp EXCEPT ![Surface(p)] = Fresh]
            /\ content' = [content EXCEPT ![Fresh] = NoProc]
            /\ Goto(p, "write") /\ UNCHANGED outcome
  /\ UNCHANGED <<seen, lock, met, under>>

Open(p) ==             \* create(true).truncate(true)
  /\ pc[p] = "open"
  /\ LET f == IF tmp[Surface(p)] # NoFile THEN tmp[Surface(p)] ELSE Fresh IN
       /\ fd' = [fd EXCEPT ![p] = f]
       /\ tmp' = [tmp EXCEPT ![Surface(p)] = f]
       /\ content' = [content EXCEPT ![f] = NoProc]
  /\ Goto(p, "write")
  /\ UNCHANGED <<seen, lock, historyVars>>

(* Two records written over one another need not parse.                      *)
Write(p) ==
  /\ pc[p] = "write"
  /\ \E text \in {p} \cup (IF content[fd[p]] = NoProc THEN {} ELSE {NoProc}) :
       content' = [content EXCEPT ![fd[p]] = text]
  /\ fd' = [fd EXCEPT ![p] = NoFile]
  /\ Goto(p, "rename")
  /\ UNCHANGED <<seen, lock, tmp, historyVars>>

(* Whatever file is at the temporary path by then becomes the lock.          *)
Rename(p) ==
  /\ pc[p] = "rename"
  /\ IF tmp[Surface(p)] = NoFile
       THEN /\ Goto(p, TurnedAway(p)) /\ Ends(p, "writeFailed")
            /\ UNCHANGED <<lock, tmp>>
       ELSE /\ Goto(p, IF p \in Clis THEN "drop" ELSE "running") /\ Ends(p, "won")
            /\ lock' = [lock EXCEPT ![Home(p)] = tmp[Surface(p)]]
            /\ tmp' = [tmp EXCEPT ![Surface(p)] = NoFile]
  /\ UNCHANGED <<seen, fd, content, met, under>>

-----------------------------------------------------------------------------
(* ensure_single_cli_session_or_exit keeps no hold of the guard acquire      *)
(* returns: the guard is dropped, and the lock removed, before main goes on. *)
DropGuard(p) ==
  /\ pc[p] = "drop"
  /\ lock' = Unlinked(p)
  /\ Goto(p, "running")
  /\ UNCHANGED <<seen, fd, tmp, content, historyVars>>

(* stopServer, also on behalf of a Desktop that was refused the lock.        *)
Stop(p) ==
  /\ p \in Desktops /\ pc[p] \in {"idle", "running"}
  /\ lock' = Unlinked(p)
  /\ \E l \in {"idle", "gone"} : Goto(p, l)       \* restartServer, or before-quit
  /\ Leaves(p)
  /\ UNCHANGED <<seen, fd, tmp, content, outcome, met>>

Exit(p) ==
  /\ p \in Clis /\ pc[p] = "running"
  /\ Goto(p, "gone")
  /\ Leaves(p)
  /\ UNCHANGED <<seen, fd, diskVars, outcome, met>>

Crash(p) ==
  /\ Alive(p)
  /\ Goto(p, "gone")
  /\ fd' = [fd EXCEPT ![p] = NoFile]
  /\ Leaves(p)
  /\ UNCHANGED <<seen, diskVars, outcome, met>>

-----------------------------------------------------------------------------
Init ==
  /\ pc = [p \in Processes |-> "off"]
  /\ seen = [p \in Processes |-> NoProc]
  /\ fd = [p \in Processes |-> NoFile]
  /\ lock = [s \in Surfaces |-> NoFile]
  /\ tmp = [s \in Surfaces |-> NoFile]
  /\ content = [f \in Files |-> NoProc]
  /\ outcome = [p \in Processes |-> "none"]
  /\ met = [p \in Processes |-> {}]
  /\ under = [p \in Processes |-> {}]

Acquire(p) ==
  \/ Start(p) \/ Exists(p) \/ Read(p) \/ Probe(p) \/ Clear(p)
  \/ Open(p) \/ Write(p) \/ Rename(p) \/ DropGuard(p)

Next ==
  \E p \in Processes : Launch(p) \/ Acquire(p) \/ Stop(p) \/ Exit(p) \/ Crash(p)

Spec == Init /\ [][Next]_vars

-----------------------------------------------------------------------------
Pcs == {"off", "idle", "exists", "read", "probe", "clear", "open", "write", "rename", "drop",
        "running", "gone"}

(* Every variable holds what its counterpart can hold, and a writer has a    *)
(* file open.                                                                *)
TypeOK ==
  /\ pc \in [Processes -> Pcs]
  /\ seen \in [Processes -> Processes \cup {NoProc}]
  /\ fd \in [Processes -> Files \cup {NoFile}]
  /\ \A p \in Processes : pc[p] = "write" <=> fd[p] # NoFile
  /\ lock \in [Surfaces -> Files \cup {NoFile}]
  /\ tmp \in [Surfaces -> Files \cup {NoFile}]
  /\ content \in [Files -> Processes \cup {NoProc}]
  /\ outcome \in [Processes -> {"none", "won", "superseded", "writeFailed"}]
  /\ met \in [Processes -> SUBSET Processes]
  /\ under \in [Processes -> SUBSET Processes]

(* Whatever crashed processes left behind, stale locks, half-written ones    *)
(* and temporary files, a process that meets no other is never turned away.  *)
AloneSucceeds ==
  \A p \in Processes : outcome[p] \in {"superseded", "writeFailed"} => met[p] # {}

(* A binary started while the Desktop holds the lock does not run beside it. *)
DesktopExcludesCli ==
  \A c \in Clis : pc[c] = "running" => under[c] \cap Desktops = {}

(* A process started while another one runs does not run beside it.          *)
LateStartRefused == \A p \in Processes : pc[p] = "running" => under[p] = {}
=============================================================================
