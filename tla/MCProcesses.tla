---------------------------- MODULE MCProcesses ----------------------------
(* One server with both users of ProcessStore: the tools of ExecTool and the *)
(* clients of CommandExec, who have a table each and share nothing.  So an   *)
(* execution uses one of the two, which one is chosen at the beginning.      *)
EXTENDS ExecTool

CONSTANTS Requests, Conns, Names, Width

(* Of a name that nobody uses the map has no entry.                          *)
ASSUME ClientsAssumption == None \notin Requests

VARIABLES
  side,                                      \* who starts processes
  idsReserved, execs, execProc,              \* the clients' table
  conns, sessions, start, out, gone, down    \* as in CommandExec

Clients == INSTANCE CommandExec WITH
  Starts <- Requests, reserved <- idsReserved, entries <- execs, proc <- execProc

clientVars == <<idsReserved, execs, execProc, conns, sessions, start, out, gone, down>>
allVars == <<side, vars, clientVars>>

MCInit == side \in {"tools", "clients"} /\ Init /\ Clients!Init

MCNext ==
  \/ side = "tools" /\ Next /\ UNCHANGED <<side, clientVars>>
  \/ side = "clients" /\ Clients!Next /\ UNCHANGED <<side, vars>>

MCSpec == MCInit /\ [][MCNext]_allVars /\ Fairness

(* What CommandExec says of the clients' processes.                          *)
RunningIsReachable == Clients!RunningIsReachable
DisconnectKills == Clients!DisconnectKills
=============================================================================
