-------------------------- MODULE SingletonServer --------------------------
(***************************************************************************)
(* One real server process per INFINITECODE_HOME: the exclusive file lock  *)
(* server.lock elects it and server.lock.json tells the others where it    *)
(* listens (crates/server/src/singleton.rs, run_server_process in          *)
(* bootstrap.rs).  A process is one invocation of `infinitecode server`;   *)
(* it may be killed at any point, and the operating system then releases   *)
(* the lock but leaves the metadata file behind.                           *)
(***************************************************************************)
EXTENDS Naturals

CONSTANTS
  Procs, NoProc,
  Partial,       \* the metadata file, truncated or half-written
  Modes          \* what a process may be asked to do, a subset of AllModes

AllModes == {"stdio", "listen", "status", "shutdown"}
RunModes == {"stdio", "listen"}

ASSUME ProcAssumption ==
  /\ NoProc \notin Procs /\ Partial \notin Procs /\ NoProc # Partial
  /\ Modes \subseteq AllModes

VARIABLES
  pc,        \* what each process does
  mode,      \* what it is asked to do, for good
  holder,    \* who holds the lock on server.lock
  metadata,  \* what server.lock.json holds; NoProc when there is no such file
  target,    \* the server whose metadata each process read
  outcome,   \* what each process told its user
  \* history
  killed,    \* processes that were killed while they held the lock
  before     \* who had ended when each process was launched

vars == <<pc, mode, holder, metadata, target, outcome, killed, before>>
history == <<killed, before>>

Goto(p, l) == pc' = [pc EXCEPT ![p] = l]
Ends(p, o) == outcome' = [outcome EXCEPT ![p] = o]
Alive(p) == pc[p] \notin {"off", "gone"}
Listening(p) == pc[p] \in {"truncate", "write", "setup", "serve"}

-----------------------------------------------------------------------------
Launch(p) ==
  /\ pc[p] = "off"
  /\ before' = [before EXCEPT ![p] = {q \in Procs : pc[q] = "gone"}]
  /\ Goto(p, "lock")
  /\ UNCHANGED <<mode, holder, metadata, target, outcome, killed>>

(* acquire_singleton_role.  A process that wins the lock but was only asked  *)
(* for the status or to stop the server drops its guard at once.             *)
TryLock(p) ==
  /\ pc[p] = "lock"
  /\ IF holder = NoProc
       THEN /\ holder' = p
            /\ IF mode[p] \in RunModes
                 THEN Goto(p, "bind") /\ UNCHANGED outcome
                 ELSE Goto(p, "remove") /\ Ends(p, "notRunning")
       ELSE Goto(p, "read") /\ UNCHANGED <<holder, outcome>>
  /\ UNCHANGED <<mode, metadata, target, history>>

(* A second server that is not to speak stdio only reports the first.        *)
ReadMetadata(p) ==
  /\ pc[p] = "read" /\ metadata \in Procs
  /\ target' = [target EXCEPT ![p] = metadata]
  /\ IF mode[p] = "listen"
       THEN Goto(p, "gone") /\ Ends(p, "alreadyRunning")
       ELSE Goto(p, "connect") /\ UNCHANGED outcome
  /\ UNCHANGED <<mode, holder, metadata, history>>

(* The file is read a hundred times, five seconds in all.  A server that     *)
(* lives takes less than that from winning the lock to its metadata.         *)
GiveUp(p) ==
  /\ pc[p] = "read" /\ metadata \notin Procs
  /\ holder # NoProc => pc[holder] \notin {"bind", "truncate", "write"}
  /\ Goto(p, "gone") /\ Ends(p, "failed")
  /\ UNCHANGED <<mode, holder, metadata, target, history>>

RefusedNever(p) ==           \* mutant: a dead endpoint is tried for ever
  /\ pc[p] = "connect" /\ pc[target[p]] = "close"
  /\ Goto(p, "gone") /\ Ends(p, "failed")
  /\ UNCHANGED <<mode, holder, metadata, target, history>>

(* A server that listens but does not accept yet keeps its peer waiting.     *)
Refused(p) ==
  /\ pc[p] = "connect" /\ ~Listening(target[p])
  /\ Goto(p, "gone") /\ Ends(p, "failed")
  /\ UNCHANGED <<mode, holder, metadata, target, history>>

(* run_stdio_proxy and run_server_control, with the server's side of each.   *)
Connect(p) ==
  /\ pc[p] = "connect" /\ pc[target[p]] = "serve"
  /\ \/ mode[p] = "stdio" /\ Goto(p, "proxy") /\ Ends(p, "proxied")
     \/ mode[p] = "status" /\ Goto(p, "gone") /\ Ends(p, "running")
     \/ /\ mode[p] = "shutdown"
        /\ pc' = [pc EXCEPT ![p] = "gone", ![target[p]] = "close"]
        /\ Ends(p, "shuttingDown")
  /\ UNCHANGED <<mode, holder, metadata, target, history>>

ProxyEnds(p) ==              \* either side of the pipe closes
  /\ pc[p] = "proxy"
  /\ Goto(p, "gone")
  /\ UNCHANGED <<mode, holder, metadata, target, outcome, history>>

-----------------------------------------------------------------------------
Bind(p) ==
  /\ pc[p] = "bind"
  /\ Goto(p, "truncate")
  /\ UNCHANGED <<mode, holder, metadata, target, outcome, history>>

(* publish_endpoint: fs::write truncates, then writes.                       *)
Publish(p) ==
  /\ \/ pc[p] = "truncate" /\ metadata' = Partial /\ Goto(p, "write")
     \/ pc[p] = "write" /\ metadata' = p /\ Goto(p, "setup")
  /\ UNCHANGED <<mode, holder, target, outcome, history>>

Serve(p) ==
  /\ pc[p] = "setup"
  /\ Goto(p, "serve")
  /\ UNCHANGED <<mode, holder, metadata, target, outcome, history>>

(* An error anywhere on the way returns, which drops the guard; when a       *)
(* listener fails, runtime.shutdown is not called either.                    *)
Fail(p) ==
  /\ pc[p] \in {"bind", "truncate", "write", "setup", "serve"}
  /\ Goto(p, "remove")
  /\ UNCHANGED <<mode, holder, metadata, target, outcome, history>>

StopUnlocks(p) ==            \* mutant: the guard is dropped with the listeners
  /\ pc[p] = "serve"
  /\ holder' = NoProc
  /\ Goto(p, "close")
  /\ UNCHANGED <<mode, metadata, target, outcome, history>>

(* Ctrl-C, the process controller, or the end of the server's own stdin: the *)
(* listeners are dropped first.                                              *)
Stop(p) ==
  /\ pc[p] = "serve"
  /\ Goto(p, "close")
  /\ UNCHANGED <<mode, holder, metadata, target, outcome, history>>

Close(p) ==                  \* runtime.shutdown
  /\ pc[p] = "close"
  /\ Goto(p, "remove")
  /\ UNCHANGED <<mode, holder, metadata, target, outcome, history>>

DropUnlocksFirst(p) ==       \* mutant
  /\ \/ pc[p] = "remove" /\ holder' = NoProc /\ Goto(p, "unlock") /\ UNCHANGED metadata
     \/ pc[p] = "unlock" /\ metadata' = NoProc /\ Goto(p, "gone") /\ UNCHANGED holder
  /\ UNCHANGED <<mode, target, outcome, history>>

(* RealServerGuard::drop                                                     *)
Drop(p) ==
  /\ \/ pc[p] = "remove" /\ metadata' = NoProc /\ Goto(p, "unlock") /\ UNCHANGED holder
     \/ pc[p] = "unlock" /\ holder' = NoProc /\ Goto(p, "gone") /\ UNCHANGED metadata
  /\ UNCHANGED <<mode, target, outcome, history>>

Crash(p) ==
  /\ Alive(p)
  /\ IF holder = p
       THEN holder' = NoProc /\ killed' = killed \cup {p}
       ELSE UNCHANGED <<holder, killed>>
  /\ Goto(p, "gone")
  /\ UNCHANGED <<mode, metadata, target, outcome, before>>

-----------------------------------------------------------------------------
Init ==
  /\ pc = [p \in Procs |-> "off"]
  /\ mode \in [Procs -> Modes]
  /\ holder = NoProc
  /\ metadata = NoProc
  /\ target = [p \in Procs |-> NoProc]
  /\ outcome = [p \in Procs |-> "none"]
  /\ killed = {}
  /\ before = [p \in Procs |-> {}]

(* What a process does on its own, as opposed to what is done to it, and to  *)
(* runtime.shutdown, which may have to wait for the end of a turn.           *)
Proceeds(p) ==
  TryLock(p) \/ ReadMetadata(p) \/ GiveUp(p) \/ Refused(p) \/ Connect(p)
    \/ Bind(p) \/ Publish(p) \/ Serve(p) \/ Drop(p)

Next ==
  \E p \in Procs :
    Launch(p) \/ Proceeds(p) \/ ProxyEnds(p) \/ Fail(p) \/ Stop(p) \/ Close(p) \/ Crash(p)

Spec == Init /\ [][Next]_vars

FairSpec == Spec /\ \A p \in Procs : WF_vars(Proceeds(p))

-----------------------------------------------------------------------------
HoldingPcs == {"bind", "truncate", "write", "setup", "serve", "close", "remove", "unlock"}
RuntimePcs == {"setup", "serve", "close"}
Pcs == {"off", "lock", "read", "connect", "proxy", "gone"} \cup HoldingPcs

Outcomes == {"none", "notRunning", "alreadyRunning", "failed", "proxied", "running",
             "shuttingDown"}

(* Every variable holds what its counterpart can hold; in particular nobody  *)
(* connects to a file that does not parse.                                   *)
TypeOK ==
  /\ pc \in [Procs -> Pcs]
  /\ mode \in [Procs -> AllModes]
  /\ holder \in Procs \cup {NoProc}
  /\ metadata \in Procs \cup {NoProc, Partial}
  /\ target \in [Procs -> Procs \cup {NoProc}]
  /\ \A p \in Procs : pc[p] = "connect" => target[p] # NoProc
  /\ outcome \in [Procs -> Outcomes]
  /\ killed \in SUBSET Procs
  /\ before \in [Procs -> SUBSET Procs]

(* No two processes of one home ever have a runtime at a time, from opening  *)
(* the database to the end of runtime.shutdown, crashes included.            *)
OneServer ==
  \A p, q \in Procs : pc[p] \in RuntimePcs /\ pc[q] \in RuntimePcs => p = q

(* A server that accepts connections is the one server.lock.json leads to:   *)
(* no other process, dying, stopping or merely asking, removes its entry.    *)
ServingIsFindable == \A p \in Procs : pc[p] = "serve" => metadata = p

(* Unless a holder of the lock was killed, the metadata names whoever holds  *)
(* it now.                                                                   *)
MetadataNamesHolder ==
  killed = {} /\ metadata # NoProc => holder # NoProc /\ metadata \in {holder, Partial}

(* Unless a holder of the lock was killed, nobody is led to a server that    *)
(* had ended before he asked.                                                *)
TargetAliveAtLaunch == killed = {} => \A p \in Procs : target[p] \notin before[p]

(* A process that was launched serves, proxies or ends: it never waits for   *)
(* a server that is not there.                                               *)
Settles == \A p \in Procs : pc[p] = "lock" ~> pc[p] \in {"serve", "close", "proxy", "gone"}
=============================================================================
