---------------------------- MODULE CommandExec ----------------------------
(***************************************************************************)
(* Processes that clients start: command/exec, its output task, the        *)
(* requests that act on a process by the name the client gave it, and the  *)
(* end of a connection or of the server.  A name is looked up in a map of  *)
(* its own, which gives the process's id in the table of ProcessStore.     *)
(*                                                                         *)
(* A connection's requests run in parallel and outlive it.  Sessions,      *)
(* which only scope the names, and the output itself are left out.         *)
(***************************************************************************)
EXTENDS ProcessStore

CONSTANTS
  Conns,      \* client connections
  Names,      \* process_id as clients choose them
  Width,      \* starts in progress at a time: permits of the connections
  None

VARIABLES
  conns,      \* connections that are there
  sessions,   \* CommandExecManager.sessions: by connection and name, the process
  start,      \* handlers of command/exec: progress, key
  out,        \* output tasks: progress, the process they remove
  gone,       \* handlers of disconnections: progress, processes to remove, those it answered for
  down        \* terminate_all of ServerRuntime::shutdown

taskVars == <<start, out, gone, down>>
vars == <<storeVars, conns, sessions, taskVars>>

Keys == Conns \X Names
Of(c) == {<<c, n>> : n \in Names}

Key(s) == start[s].key
At(s, pc) == start[s].pc = pc
Go(s, pc) == start' = [start EXCEPT ![s].pc = pc]
InProgress == {s \in Starts : start[s].pc \in {"register", "spawn", "insert"}}

-----------------------------------------------------------------------------
Exec(s, k, victims) ==
  /\ At(s, "new") /\ k[1] \in conns /\ Cardinality(InProgress) < Width
  /\ Reserve(s, victims)
  /\ start' = [start EXCEPT ![s] =
                 [key |-> k, pc |-> IF Granted(victims) THEN "register" ELSE "refused"]]
  /\ UNCHANGED <<conns, sessions, out, gone, down>>

RegisterOver(s) ==        \* mutant: a name in use is taken over
  /\ At(s, "register")
  /\ sessions' = [sessions EXCEPT ![Key(s)] = s]
  /\ Go(s, "spawn")
  /\ UNCHANGED <<storeVars, conns, out, gone, down>>

Register(s) ==
  /\ At(s, "register") /\ sessions[Key(s)] = None
  /\ sessions' = [sessions EXCEPT ![Key(s)] = s]
  /\ Go(s, "spawn")
  /\ UNCHANGED <<storeVars, conns, out, gone, down>>

RefuseDuplicate(s) ==
  /\ At(s, "register") /\ sessions[Key(s)] # None
  /\ Release(s)
  /\ Go(s, "refused")
  /\ UNCHANGED <<conns, sessions, out, gone, down>>

SpawnProcess(s) ==
  /\ At(s, "spawn")
  /\ Spawn(s)
  /\ Go(s, "insert")
  /\ UNCHANGED <<conns, sessions, out, gone, down>>

SpawnFails(s) ==
  /\ At(s, "spawn")
  /\ sessions' = [sessions EXCEPT ![Key(s)] = None]
  /\ Release(s)
  /\ Go(s, "refused")
  /\ UNCHANGED <<conns, out, gone, down>>

InsertAndAnswer(s) ==
  /\ At(s, "insert")
  /\ Insert(s)
  /\ Go(s, "done")
  /\ out' = [out EXCEPT ![s].pc = "stream"]
  /\ UNCHANGED <<conns, sessions, gone, down>>

-----------------------------------------------------------------------------
(* Until the process has an exit code; then command/exec/exited is sent.     *)
Announce(s) ==
  /\ out[s].pc = "stream" /\ HasCode(s)
  /\ out' = [out EXCEPT ![s].pc = "exited"]
  /\ UNCHANGED <<storeVars, conns, sessions, start, gone, down>>

(* remove_key: whosesoever the name is by now.                               *)
FreeKey(s) ==
  /\ out[s].pc = "exited"
  /\ sessions' = [sessions EXCEPT ![Key(s)] = None]
  /\ out' = [out EXCEPT ![s] = IF sessions[Key(s)] = None THEN [pc |-> "done", id |-> None]
                               ELSE [pc |-> "remove", id |-> sessions[Key(s)]]]
  /\ UNCHANGED <<storeVars, conns, start, gone, down>>

RemoveEntry(s) ==
  /\ out[s].pc = "remove"
  /\ Remove(out[s].id)
  /\ out' = [out EXCEPT ![s] = [pc |-> "done", id |-> None]]
  /\ UNCHANGED <<conns, sessions, start, gone, down>>

-----------------------------------------------------------------------------
(* command/exec/terminate: the process a name means, if it is in the table.  *)
Terminate(k) ==
  /\ k[1] \in conns /\ sessions[k] \in entries
  /\ Kill({sessions[k]})
  /\ UNCHANGED <<conns, sessions, taskVars>>

(* Of its own accord, or for half an hour without input.                     *)
ProcessEnds(s) ==
  /\ Exit(s, "exited")
  /\ UNCHANGED <<conns, sessions, taskVars>>

IdleTooLong(s) ==
  /\ Runs(s) /\ Kill({s})
  /\ UNCHANGED <<conns, sessions, taskVars>>

(* unregister_connection and terminate_connection.                           *)
Disconnect(c) ==
  /\ c \in conns
  /\ conns' = conns \ {c}
  /\ gone' = [gone EXCEPT ![c] = [pc |-> "take", todo |-> {},
                                  had |-> {s \in Starts : At(s, "done") /\ Key(s)[1] = c /\ down = "no"}]]
  /\ UNCHANGED <<storeVars, sessions, start, out, down>>

TakeNothing(c) ==         \* mutant: the names stay and nothing is removed
  /\ gone[c].pc = "take"
  /\ gone' = [gone EXCEPT ![c].pc = "remove"]
  /\ UNCHANGED <<storeVars, conns, sessions, start, out, down>>

TakeKeys(c) ==
  /\ gone[c].pc = "take"
  /\ sessions' = [k \in Keys |-> IF k[1] = c THEN None ELSE sessions[k]]
  /\ gone' = [gone EXCEPT ![c].pc = "remove", ![c].todo = {sessions[k] : k \in Of(c)} \ {None}]
  /\ UNCHANGED <<storeVars, conns, start, out, down>>

RemoveTaken(c, s) ==
  /\ gone[c].pc = "remove" /\ s \in gone[c].todo
  /\ Remove(s)
  /\ gone' = [gone EXCEPT ![c].todo = @ \ {s}]
  /\ UNCHANGED <<conns, sessions, start, out, down>>

ClearKeys ==
  /\ down = "no"
  /\ sessions' = [k \in Keys |-> None]
  /\ down' = "clear"
  /\ UNCHANGED <<storeVars, conns, start, out, gone>>

TerminateTable ==
  /\ down = "clear"
  /\ TerminateAll
  /\ down' = "done"
  /\ UNCHANGED <<conns, sessions, start, out, gone>>

-----------------------------------------------------------------------------
Init ==
  /\ StoreInit
  /\ conns = Conns
  /\ sessions = [k \in Keys |-> None]
  /\ start = [s \in Starts |-> [pc |-> "new", key |-> None]]
  /\ out = [s \in Starts |-> [pc |-> "off", id |-> None]]
  /\ gone = [c \in Conns |-> [pc |-> "off", todo |-> {}, had |-> {}]]
  /\ down = "no"

Handler(s) ==
  \/ \E k \in Keys, victims \in Victims : Exec(s, k, victims)
  \/ Register(s) \/ RefuseDuplicate(s) \/ SpawnProcess(s) \/ SpawnFails(s) \/ InsertAndAnswer(s)
Output(s) == Announce(s) \/ FreeKey(s) \/ RemoveEntry(s)
Closing(c) == Disconnect(c) \/ TakeKeys(c) \/ \E s \in Starts : RemoveTaken(c, s)

Next ==
  \/ \E s \in Starts : Handler(s) \/ Output(s) \/ ProcessEnds(s) \/ IdleTooLong(s)
  \/ \E k \in Keys : Terminate(k)
  \/ \E c \in Conns : Closing(c)
  \/ ClearKeys \/ TerminateTable

Spec == Init /\ [][Next]_vars

-----------------------------------------------------------------------------
(* Every variable holds what its Rust counterpart can hold.                  *)
TypeOK ==
  /\ StoreTypeOK
  /\ conns \subseteq Conns
  /\ sessions \in [Keys -> Starts \cup {None}]
  /\ start \in [Starts -> [pc : {"new", "register", "spawn", "insert", "done", "refused"},
                        key : Keys \cup {None}]]
  /\ out \in [Starts -> [pc : {"off", "stream", "exited", "remove", "done"}, id : Starts \cup {None}]]
  /\ gone \in [Conns -> [pc : {"off", "take", "remove"}, todo : SUBSET Starts, had : SUBSET Starts]]
  /\ down \in {"no", "clear", "done"}

(* A client does not lose sight of a process that runs: as long as it is     *)
(* connected, the name it was answered for means that process and the table  *)
(* has it.  Duplicates, failed starts, output tasks and prunes of the table  *)
(* for others do not take the name away, or end the process.                 *)
RunningIsReachable ==
  \A s \in Starts :
    At(s, "done") /\ Runs(s) /\ Key(s)[1] \in conns /\ down = "no"
      => sessions[Key(s)] = s /\ s \in entries

(* No process whose start was answered runs on when the connection that      *)
(* owned it is gone and cleaned up after, whichever of the output task, the  *)
(* disconnection and the shutdown, if it came later, takes its name out of   *)
(* the map.                                                                  *)
Cleaned(c) == gone[c].pc = "remove" /\ gone[c].todo = {}
DisconnectKills ==
  \A c \in Conns : Cleaned(c) /\ down # "clear" => \A s \in gone[c].had : ~Runs(s)

(* Ids are counted when they are reserved and processes come later: the      *)
(* table exceeds its limit by no more than the starts in progress at a time. *)
LimitHolds == Cardinality(entries) < MaxProcesses + Width

(* A process runs only for somebody: a start in progress, or a connected     *)
(* client.                                                                   *)
NoOrphans ==
  \A s \in Starts : Runs(s) /\ At(s, "done") => Key(s)[1] \in conns \/ ~Cleaned(Key(s)[1])

(* Who was told that its process exited can use the name again.              *)
NameFreeAfterExit ==
  \A s, t \in Starts : At(t, "register") /\ sessions[Key(t)] = s => out[s].pc # "exited"
=============================================================================
