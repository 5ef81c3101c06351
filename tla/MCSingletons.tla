---------------------------- MODULE MCSingletons ----------------------------
(* Two things of which a user has one: the process that may use the home     *)
(* directory (SessionLock) and the server in it (SingletonServer).  They     *)
(* keep their states in different lock files and share nothing, so an        *)
(* execution is one of one of them, chosen at the beginning.                 *)
EXTENDS SingletonServer, FiniteSets

CONSTANTS Clis, Desktops, Files, NoFile, SharedHome

VARIABLES
  side,                                                          \* which of the two
  lockPc, seen, fd, lock, tmp, content, lockOutcome, met, under  \* as in SessionLock

Surfaces == INSTANCE SessionLock WITH pc <- lockPc, outcome <- lockOutcome

ASSUME MCAssumption == Surfaces!LockAssumption

(* More inodes than the four paths link and the processes have open.         *)
ASSUME FilesAssumption ==
  /\ IsFiniteSet(Files) /\ IsFiniteSet(Clis \cup Desktops)
  /\ Cardinality(Files) > Cardinality(Clis \cup Desktops) + 4

lockVars == <<lockPc, seen, fd, lock, tmp, content, lockOutcome, met, under>>
allVars == <<side, vars, lockVars>>

MCInit ==
  /\ Init /\ Surfaces!Init
  /\ \/ side = "server"
     \/ side = "surfaces" /\ mode = [p \in Procs |-> CHOOSE m \in Modes : TRUE]

MCNext ==
  \/ side = "server" /\ Next /\ UNCHANGED <<side, lockVars>>
  \/ side = "surfaces" /\ Surfaces!Next /\ UNCHANGED <<side, vars>>

MCSpec == MCInit /\ [][MCNext]_allVars /\ \A p \in Procs : WF_vars(Proceeds(p))

(* What SessionLock says of the surfaces.                                    *)
AloneSucceeds == Surfaces!AloneSucceeds
DesktopExcludesCli == Surfaces!DesktopExcludesCli
=============================================================================
