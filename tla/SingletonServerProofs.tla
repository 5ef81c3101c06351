----------------------- MODULE SingletonServerProofs -----------------------
(***************************************************************************)
(* That the file lock does elect one server, and that server.lock.json     *)
(* leads to it, for any number of processes killed at any moment; and what *)
(* the other lock file, that of the surfaces, does achieve: nobody is      *)
(* turned away for what is left of processes that are gone, and the        *)
(* Desktop shuts out one binary that comes after it.                       *)
(***************************************************************************)
EXTENDS MCSingletons, FiniteSetTheorems, TLAPS

(* A process is at a step it may take only with the lock exactly when it     *)
(* holds the lock.                                                           *)
LockHeld == \A p \in Procs : pc[p] \in HoldingPcs <=> holder = p

(* From the moment it has published until it drops its guard, the holder is  *)
(* the one the metadata names.                                               *)
Published == \A p \in Procs : pc[p] \in RuntimePcs => metadata = p

IInv == TypeOK /\ LockHeld /\ Published

USE DEF Goto, Ends, Alive, history

-----------------------------------------------------------------------------
LEMMA InitIInv == Init => IInv
<1> SUFFICES ASSUME Init PROVE IInv
  OBVIOUS
<1>1. /\ mode \in [Procs -> AllModes]
      /\ \A p \in Procs : pc[p] = "off"
  BY ProcAssumption DEF Init
<1>2. /\ pc \in [Procs -> Pcs] /\ outcome \in [Procs -> Outcomes]
      /\ target \in [Procs -> Procs \cup {NoProc}]
      /\ killed \in SUBSET Procs /\ before \in [Procs -> SUBSET Procs]
  BY DEF Init, Pcs, Outcomes
<1>3. TypeOK
  BY <1>1, <1>2 DEF Init, TypeOK
<1>4. LockHeld /\ Published
  BY <1>1, ProcAssumption DEF Init, LockHeld, Published, HoldingPcs, RuntimePcs
<1> QED
  BY <1>3, <1>4 DEF IInv

LEMMA NextIInv == IInv /\ [Next]_vars => IInv'
<1> SUFFICES ASSUME IInv, [Next]_vars PROVE IInv'
  OBVIOUS
<1> USE DEF IInv
<1>0. CASE UNCHANGED vars
  BY <1>0 DEF vars, TypeOK, LockHeld, Published
<1>a. CASE Next
  <2>0. PICK p \in Procs : \/ Launch(p) \/ Proceeds(p) \/ ProxyEnds(p) \/ Fail(p)
                           \/ Stop(p) \/ Close(p) \/ Crash(p)
    BY <1>a DEF Next
  <2> USE ProcAssumption DEF HoldingPcs, RuntimePcs
  <2>1. CASE Launch(p)
    BY <2>1 DEF Launch, TypeOK, LockHeld, Published, Pcs
  <2>2. CASE TryLock(p)
    BY <2>2 DEF TryLock, TypeOK, LockHeld, Published, Pcs, Outcomes
  <2>3. CASE ReadMetadata(p)
    BY <2>3 DEF ReadMetadata, TypeOK, LockHeld, Published, Pcs, Outcomes
  <2>4. CASE GiveUp(p) \/ Refused(p) \/ ProxyEnds(p)
    BY <2>4 DEF GiveUp, Refused, ProxyEnds, TypeOK, LockHeld, Published, Pcs, Outcomes
  <2>5. CASE Connect(p)
    <3>1. PICK q \in Procs : q = target[p] /\ pc[p] = "connect" /\ pc[q] = "serve"
      BY <2>5 DEF Connect, TypeOK
    <3>2. \/ pc' = [pc EXCEPT ![p] = "proxy"]
          \/ pc' = [pc EXCEPT ![p] = "gone"]
          \/ pc' = [pc EXCEPT ![p] = "gone", ![q] = "close"]
      BY <2>5, <3>1 DEF Connect
    <3> QED
      BY <2>5, <3>1, <3>2 DEF Connect, TypeOK, LockHeld, Published, Pcs, Outcomes
  <2>6. CASE Bind(p) \/ Serve(p) \/ Fail(p) \/ Stop(p) \/ Close(p)
    BY <2>6 DEF Bind, Serve, Fail, Stop, Close, TypeOK, LockHeld, Published, Pcs
  <2>7. CASE Publish(p)
    BY <2>7 DEF Publish, TypeOK, LockHeld, Published, Pcs
  <2>8. CASE Drop(p)
    BY <2>8 DEF Drop, TypeOK, LockHeld, Published, Pcs
  <2>9. CASE Crash(p)
    BY <2>9 DEF Crash, TypeOK, LockHeld, Published, Pcs
  <2> QED
    BY <2>0, <2>1, <2>2, <2>3, <2>4, <2>5, <2>6, <2>7, <2>8, <2>9 DEF Proceeds
<1> QED
  BY <1>0, <1>a

(* However processes are started, stopped and killed, the lock's holder is the *)
(* one process at a step that needs it, and the metadata leads to it.        *)
THEOREM Invariant == Spec => []IInv
  BY InitIInv, NextIInv, PTL DEF Spec

-----------------------------------------------------------------------------
(* acquire_singleton_role elects: at most one process has a runtime.         *)
THEOREM ElectsOne == Spec => []OneServer
<1>1. IInv => OneServer
  BY DEF IInv, LockHeld, OneServer, RuntimePcs, HoldingPcs
<1> QED
  BY <1>1, Invariant, PTL

(* publish_endpoint and RealServerGuard::drop: the metadata of a server that *)
(* accepts connections is its own, whatever becomes of the other processes.  *)
THEOREM ServerFindable == Spec => []ServingIsFindable
<1>1. IInv => ServingIsFindable
  BY DEF IInv, Published, ServingIsFindable, RuntimePcs
<1> QED
  BY <1>1, Invariant, PTL

-----------------------------------------------------------------------------
(* RealServerGuard::drop removes the metadata before it releases the lock:   *)
(* where no holder is killed, metadata always names the holder of the lock.  *)
THEOREM OrderlyMetadata == Spec => []MetadataNamesHolder
<1> DEFINE J == /\ MetadataNamesHolder
                /\ \A p \in Procs : pc[p] = "unlock" => killed # {} \/ metadata = NoProc
<1>1. Init => J
  BY DEF Init, MetadataNamesHolder
<1>2. IInv /\ J /\ [Next]_vars => J'
  <2> SUFFICES ASSUME IInv, J, [Next]_vars PROVE J'
    OBVIOUS
  <2> USE DEF MetadataNamesHolder, IInv
  <2>0. CASE UNCHANGED vars
    BY <2>0 DEF vars
  <2>a. CASE Next
    <3>0. PICK p \in Procs : \/ Launch(p) \/ Proceeds(p) \/ ProxyEnds(p) \/ Fail(p)
                             \/ Stop(p) \/ Close(p) \/ Crash(p)
      BY <2>a DEF Next
    <3> USE ProcAssumption DEF TypeOK, LockHeld, HoldingPcs
    <3>1. CASE Launch(p)
      BY <3>1 DEF Launch
    <3>2. CASE TryLock(p)
      BY <3>2 DEF TryLock
    <3>3. CASE ReadMetadata(p)
      BY <3>3 DEF ReadMetadata
    <3>4. CASE GiveUp(p) \/ Refused(p) \/ ProxyEnds(p)
      BY <3>4 DEF GiveUp, Refused, ProxyEnds
    <3>5. CASE Connect(p)
      <4>1. PICK q \in Procs : q = target[p] /\ pc[p] = "connect" /\ pc[q] = "serve"
        BY <3>5 DEF Connect
      <4> QED
        BY <3>5, <4>1 DEF Connect
    <3>6. CASE Bind(p) \/ Serve(p) \/ Fail(p) \/ Stop(p) \/ Close(p)
      BY <3>6 DEF Bind, Serve, Fail, Stop, Close
    <3>7. CASE Publish(p)
      BY <3>7 DEF Publish
    <3>8. CASE Drop(p)
      BY <3>8 DEF Drop
    <3>9. CASE Crash(p)
      BY <3>9 DEF Crash
    <3> QED
      BY <3>0, <3>1, <3>2, <3>3, <3>4, <3>5, <3>6, <3>7, <3>8, <3>9 DEF Proceeds
  <2> QED
    BY <2>0, <2>a
<1>3. J => MetadataNamesHolder
  OBVIOUS
<1> QED
  <2> HIDE DEF J
  <2> QED BY <1>1, <1>2, <1>3, Invariant, PTL DEF Spec

-----------------------------------------------------------------------------
(* wait_for_metadata reads the entry of whoever holds the lock by then, who  *)
(* cannot have ended before the reader was launched, unless a holder was     *)
(* killed and left its entry behind.                                         *)
THEOREM LedToTheLiving == Spec => []TargetAliveAtLaunch
<1> DEFINE EndedBefore == \A p, q \in Procs : q \in before[p] => pc[q] = "gone"
           Unled == \A p \in Procs : pc[p] \in {"off", "lock", "read"} => target[p] = NoProc
           J == EndedBefore /\ Unled /\ TargetAliveAtLaunch
<1>1. Init => J
  BY DEF Init, TargetAliveAtLaunch
<1>2. IInv /\ MetadataNamesHolder /\ J /\ [Next]_vars => J'
  <2> SUFFICES ASSUME IInv, MetadataNamesHolder, J, [Next]_vars PROVE J'
    OBVIOUS
  <2>0. CASE UNCHANGED vars
    BY <2>0 DEF vars, TargetAliveAtLaunch
  <2>a. CASE Next
    <3>0. PICK p \in Procs : \/ Launch(p) \/ Proceeds(p) \/ ProxyEnds(p) \/ Fail(p)
                             \/ Stop(p) \/ Close(p) \/ Crash(p)
      BY <2>a DEF Next
    <3> USE ProcAssumption DEF IInv, TypeOK, TargetAliveAtLaunch
    <3>1. CASE Launch(p)
      BY <3>1 DEF Launch
    <3>2. CASE TryLock(p)
      BY <3>2 DEF TryLock
    <3>3. CASE ReadMetadata(p)
      <4>1. killed = {} => pc[metadata] # "gone"
        BY <3>3 DEF ReadMetadata, MetadataNamesHolder, LockHeld, HoldingPcs
      <4>2. killed = {} => metadata \notin before[p]
        BY <3>3, <4>1 DEF ReadMetadata
      <4> QED
        BY <3>3, <4>2 DEF ReadMetadata
    <3>4. CASE GiveUp(p) \/ Refused(p) \/ ProxyEnds(p)
      BY <3>4 DEF GiveUp, Refused, ProxyEnds
    <3>5. CASE Connect(p)
      <4>1. PICK q \in Procs : q = target[p] /\ pc[p] = "connect" /\ pc[q] = "serve"
        BY <3>5 DEF Connect
      <4>2. \/ pc' = [pc EXCEPT ![p] = "proxy"]
            \/ pc' = [pc EXCEPT ![p] = "gone"]
            \/ pc' = [pc EXCEPT ![p] = "gone", ![q] = "close"]
        BY <3>5, <4>1 DEF Connect
      <4> QED
        BY <3>5, <4>1, <4>2 DEF Connect
    <3>6. CASE Bind(p) \/ Serve(p) \/ Fail(p) \/ Stop(p) \/ Close(p)
      BY <3>6 DEF Bind, Serve, Fail, Stop, Close
    <3>7. CASE Publish(p)
      BY <3>7 DEF Publish
    <3>8. CASE Drop(p)
      BY <3>8 DEF Drop
    <3>9. CASE Crash(p)
      BY <3>9 DEF Crash
    <3> QED
      BY <3>0, <3>1, <3>2, <3>3, <3>4, <3>5, <3>6, <3>7, <3>8, <3>9 DEF Proceeds
  <2> QED
    BY <2>0, <2>a
<1>3. J => TargetAliveAtLaunch
  OBVIOUS
<1> QED
  <2> HIDE DEF J
  <2> QED BY <1>1, <1>2, <1>3, Invariant, OrderlyMetadata, PTL DEF Spec

-----------------------------------------------------------------------------
LEMMA OneMore ==
  ASSUME NEW S, NEW x, IsFiniteSet(S), NEW n \in Nat, Cardinality(S) <= n
  PROVE  IsFiniteSet(S \cup {x}) /\ Cardinality(S \cup {x}) <= n + 1
<1>1. Cardinality(S) \in Nat
  BY FS_CardinalityType
<1>2. CASE x \in S
  <2>1. Cardinality(S \cup {x}) = Cardinality(S) /\ IsFiniteSet(S \cup {x})
    <3>1. S \cup {x} = S
      BY <1>2
    <3> QED
      BY <3>1
  <2> QED
    BY <1>1, <2>1
<1>3. CASE x \notin S
  <2>1. IsFiniteSet(S \cup {x}) /\ Cardinality(S \cup {x}) = Cardinality(S) + 1
    BY <1>3, FS_AddElement
  <2> QED
    BY <1>1, <2>1
<1> QED
  BY <1>2, <1>3

(* A new file gets an inode that nothing links and nobody has open: there    *)
(* are more inodes than paths and processes.                                 *)
LEMMA FreshIsThere ==
  ASSUME Surfaces!TypeOK
  PROVE  Surfaces!Fresh \in Files /\ Surfaces!Fresh # NoFile
<1> DEFINE P == Surfaces!Processes
           open == {fd[p] : p \in P}
           linked == open \cup {lock["cli"]} \cup {lock["desktop"]} \cup {tmp["cli"]} \cup {tmp["desktop"]}
<1>1. /\ IsFiniteSet(Files) /\ IsFiniteSet(P) /\ Cardinality(Files) > Cardinality(P) + 4 /\ NoFile \notin Files
      /\ Cardinality(P) \in Nat /\ Cardinality(Files) \in Nat
  <2>1. /\ IsFiniteSet(Files) /\ IsFiniteSet(P) /\ Cardinality(Files) > Cardinality(P) + 4 /\ NoFile \notin Files
    BY MCAssumption, FilesAssumption DEF Surfaces!LockAssumption, Surfaces!Processes
  <2> QED
    BY <2>1, FS_CardinalityType
<1>2. fd \in Surjection(P, open)
  BY DEF Surjection, Surfaces!TypeOK
<1>3. IsFiniteSet(open) /\ Cardinality(open) <= Cardinality(P)
  BY <1>1, <1>2, FS_Surjection
<1>4. Surfaces!Linked = linked
  BY DEF Surfaces!Linked, Surfaces!Surfaces
<1> HIDE DEF open, P
<1>5. IsFiniteSet(linked) /\ Cardinality(linked) <= Cardinality(P) + 4
  <2> DEFINE one == open \cup {lock["cli"]}
             two == one \cup {lock["desktop"]}
             three == two \cup {tmp["cli"]}
  <2>0. PICK n \in Nat, i \in Nat, j \in Nat, k \in Nat : n = Cardinality(P) /\ i = n + 1 /\ j = i + 1 /\ k = j + 1
    BY <1>1
  <2>1. IsFiniteSet(one) /\ Cardinality(one) <= i
    BY <1>3, <2>0, OneMore
  <2> HIDE DEF one
  <2>2. IsFiniteSet(two) /\ Cardinality(two) <= j
    BY <2>0, <2>1, OneMore
  <2> HIDE DEF two
  <2>3. IsFiniteSet(three) /\ Cardinality(three) <= k
    BY <2>0, <2>2, OneMore
  <2> HIDE DEF three
  <2>4. IsFiniteSet(three \cup {tmp["desktop"]}) /\ Cardinality(three \cup {tmp["desktop"]}) <= k + 1
    BY <2>0, <2>3, OneMore
  <2>5. linked = three \cup {tmp["desktop"]}
    BY DEF three, two, one
  <2> QED
    <3>1. IsFiniteSet(linked) /\ Cardinality(linked) <= k + 1
      BY <2>4, <2>5
    <3> QED
      BY <2>0, <3>1
<1>6. \E f \in Files : f \notin linked
  <2> SUFFICES ASSUME Files \subseteq linked PROVE FALSE
    OBVIOUS
  <2>1. Cardinality(Files) <= Cardinality(linked) /\ Cardinality(linked) \in Nat
    BY <1>5, FS_Subset, FS_CardinalityType
  <2> QED
    BY <1>1, <1>5, <2>1
<1> QED
  BY <1>1, <1>4, <1>6 DEF Surfaces!Fresh

(* Whoever attempts to get the lock has met those who are alive beside it,   *)
(* and has prepared the temporary file it is about to rename, unless some-   *)
(* body else was there who may have taken it.                                *)
Met(p) == Surfaces!Attempting(p) /\ met[p] = {} => \A q \in Surfaces!Processes : q = p \/ ~Surfaces!Alive(q)
Looked(p) == lockPc[p] = "probe" => seen[p] \in Surfaces!Processes \ {p}
Prepared(p) == lockPc[p] \in {"write", "rename"} /\ met[p] = {} => tmp[Surfaces!Surface(p)] # NoFile
AloneInv ==
  /\ Surfaces!TypeOK
  /\ \A p \in Surfaces!Processes : Met(p) /\ Looked(p) /\ Prepared(p)
  /\ Surfaces!AloneSucceeds

LEMMA SurfacesTyped ==
  ASSUME Surfaces!TypeOK, \A p \in Surfaces!Processes : Looked(p), Surfaces!Next
  PROVE  Surfaces!TypeOK'
<1> USE DEF Surfaces!TypeOK, Surfaces!Goto, Surfaces!Pcs, Surfaces!diskVars, Surfaces!historyVars
<1> DEFINE P == Surfaces!Processes
<1>0. \A p \in P : /\ Surfaces!TurnedAway(p) \in {"gone", "idle"}
                   /\ Surfaces!Home(p) \in Surfaces!Surfaces /\ Surfaces!Surface(p) \in Surfaces!Surfaces
  BY DEF Surfaces!TurnedAway, Surfaces!Home, Surfaces!Surface, Surfaces!Surfaces
<1> SUFFICES ASSUME NEW p \in P,
                    \/ Surfaces!Launch(p) \/ Surfaces!Acquire(p)
                    \/ Surfaces!Stop(p) \/ Surfaces!Exit(p) \/ Surfaces!Crash(p)
             PROVE  Surfaces!TypeOK'
  BY DEF Surfaces!Next
<1>1. CASE Surfaces!Launch(p)
  BY <1>1 DEF Surfaces!Launch
<1>2. CASE Surfaces!Start(p)
  BY <1>2 DEF Surfaces!Start, Surfaces!Ends
<1>3. CASE Surfaces!Exists(p) \/ Surfaces!Probe(p)
  BY <1>0, <1>3 DEF Surfaces!Exists, Surfaces!Probe, Surfaces!Ends
<1>4. CASE Surfaces!Read(p)
  BY <1>0, <1>4 DEF Surfaces!Read, Surfaces!Ends, Surfaces!LockOf
<1>5. CASE Surfaces!Clear(p) \/ Surfaces!DropGuard(p)
  BY <1>0, <1>5 DEF Surfaces!Clear, Surfaces!DropGuard, Surfaces!Unlinked
<1>6. CASE Surfaces!Open(p)
  <2>1. PICK f \in Files : /\ fd' = [fd EXCEPT ![p] = f] /\ tmp' = [tmp EXCEPT ![Surfaces!Surface(p)] = f]
                           /\ content' = [content EXCEPT ![f] = NoProc] /\ f # NoFile
    BY <1>0, <1>6, FreshIsThere DEF Surfaces!Open
  <2> QED
    BY <1>0, <1>6, <2>1 DEF Surfaces!Open
<1>7. CASE Surfaces!Write(p)
  <2>1. fd[p] \in Files /\ NoFile \notin Files
    BY <1>7, MCAssumption DEF Surfaces!Write, Surfaces!LockAssumption
  <2> QED
    BY <1>7, <2>1 DEF Surfaces!Write
<1>8. CASE Surfaces!Rename(p)
  BY <1>0, <1>8 DEF Surfaces!Rename, Surfaces!Ends
<1>9. CASE Surfaces!Stop(p) \/ Surfaces!Exit(p) \/ Surfaces!Crash(p)
  BY <1>0, <1>9 DEF Surfaces!Stop, Surfaces!Exit, Surfaces!Crash, Surfaces!Leaves, Surfaces!Unlinked, Surfaces!Alive
<1> QED
  BY <1>1, <1>2, <1>3, <1>4, <1>5, <1>6, <1>7, <1>8, <1>9 DEF Surfaces!Acquire

LEMMA AloneStep == AloneInv /\ Surfaces!Next => AloneInv'
<1> SUFFICES ASSUME AloneInv, Surfaces!Next PROVE AloneInv'
  OBVIOUS
<1> DEFINE P == Surfaces!Processes
<1>1. Surfaces!TypeOK /\ Surfaces!TypeOK'
  BY SurfacesTyped DEF AloneInv
<1>2. \A q \in P : Met(q) /\ Looked(q) /\ Prepared(q)
  BY DEF AloneInv
<1>3. \A q \in P : lockOutcome[q] \in {"superseded", "writeFailed"} => met[q] # {}
  BY DEF AloneInv, Surfaces!AloneSucceeds
<1> SUFFICES ASSUME NEW q \in P
             PROVE  /\ Met(q)' /\ Looked(q)' /\ Prepared(q)'
                    /\ lockOutcome'[q] \in {"superseded", "writeFailed"} => met'[q] # {}
  BY <1>1 DEF AloneInv, Surfaces!AloneSucceeds, P
<1> SUFFICES ASSUME NEW p \in P,
                    \/ Surfaces!Launch(p) \/ Surfaces!Acquire(p)
                    \/ Surfaces!Stop(p) \/ Surfaces!Exit(p) \/ Surfaces!Crash(p)
             PROVE  /\ Met(q)' /\ Looked(q)' /\ Prepared(q)'
                    /\ lockOutcome'[q] \in {"superseded", "writeFailed"} => met'[q] # {}
  BY DEF Surfaces!Next
<1> HIDE DEF P
<1> USE DEF Surfaces!TypeOK, Surfaces!Goto, Surfaces!Pcs, Surfaces!diskVars, Surfaces!historyVars,
            Met, Looked, Prepared, Surfaces!Alive, Surfaces!Attempting, Surfaces!Ends
<1>4. \A r \in P : /\ Surfaces!TurnedAway(r) \in {"gone", "idle"}
                   /\ Surfaces!Home(r) \in Surfaces!Surfaces /\ Surfaces!Surface(r) \in Surfaces!Surfaces
  BY DEF Surfaces!TurnedAway, Surfaces!Home, Surfaces!Surface, Surfaces!Surfaces, P
<1>5. CASE Surfaces!Launch(p)
  <2>1. /\ lockPc' = [lockPc EXCEPT ![p] = "idle"] /\ UNCHANGED <<seen, tmp, lockOutcome>>
        /\ met'[q] = IF Surfaces!Attempting(q) THEN met[q] \cup {p} ELSE met[q]
    BY <1>5 DEF Surfaces!Launch, P
  <2>2. CASE q = p
    <3>1. lockPc'[q] = "idle" /\ (met[q] # {} => met'[q] # {})
      BY <1>1, <2>1, <2>2 DEF P
    <3> QED
      BY <1>1, <1>3, <2>1, <3>1
  <2>3. CASE q # p
    <3>0. (met[q] # {} => met'[q] # {}) /\ (Surfaces!Attempting(q) => met'[q] # {})
      BY <2>1
    <3>1. lockPc'[q] = lockPc[q] /\ (met[q] # {} => met'[q] # {}) /\ (Surfaces!Attempting(q) => met'[q] # {})
      BY <1>1, <2>1, <2>3, <3>0 DEF P
    <3> QED
      BY <1>1, <1>2, <1>3, <2>1, <3>1 DEF P
  <2> QED
    BY <2>2, <2>3
<1>6. CASE Surfaces!Start(p)
  BY <1>1, <1>2, <1>3, <1>6 DEF Surfaces!Start, P
<1>7. CASE Surfaces!Exists(p) \/ Surfaces!Clear(p) \/ Surfaces!DropGuard(p)
  BY <1>1, <1>2, <1>3, <1>7 DEF Surfaces!Exists, Surfaces!Clear, Surfaces!DropGuard, P
<1>8. CASE Surfaces!Read(p)
  BY <1>1, <1>2, <1>3, <1>8 DEF Surfaces!Read, P
<1>9. CASE Surfaces!Probe(p)
  BY <1>1, <1>2, <1>3, <1>4, <1>9 DEF Surfaces!Probe, P
<1>10. CASE Surfaces!Open(p)
  <2>1. PICK f \in Files : tmp' = [tmp EXCEPT ![Surfaces!Surface(p)] = f] /\ f # NoFile
    BY <1>1, <1>4, <1>10, FreshIsThere DEF Surfaces!Open
  <2> QED
    BY <1>1, <1>2, <1>3, <1>4, <1>10, <2>1 DEF Surfaces!Open, P
<1>11. CASE Surfaces!Write(p)
  BY <1>1, <1>2, <1>3, <1>11 DEF Surfaces!Write, P
<1>12. CASE Surfaces!Rename(p)
  BY <1>1, <1>2, <1>3, <1>4, <1>12 DEF Surfaces!Rename, P
<1>13. CASE Surfaces!Stop(p) \/ Surfaces!Exit(p) \/ Surfaces!Crash(p)
  BY <1>1, <1>2, <1>3, <1>13 DEF Surfaces!Stop, Surfaces!Exit, Surfaces!Crash, P
<1> QED
  BY <1>5, <1>6, <1>7, <1>8, <1>9, <1>10, <1>11, <1>12, <1>13 DEF Surfaces!Acquire

LEMMA AloneInit == Surfaces!Init => AloneInv
BY DEF Surfaces!Init, AloneInv, Surfaces!TypeOK, Surfaces!AloneSucceeds, Met, Looked, Prepared, Surfaces!Pcs,
       Surfaces!Alive, Surfaces!Attempting

LEMMA SurfacesInv == MCSpec => []AloneInv
<1>1. MCInit => AloneInv
  BY AloneInit DEF MCInit
<1>2. AloneInv /\ [MCNext]_allVars => AloneInv'
  <2>1. AloneInv /\ UNCHANGED lockVars => AloneInv'
    BY DEF lockVars, AloneInv, Surfaces!TypeOK, Surfaces!AloneSucceeds, Met, Looked, Prepared,
           Surfaces!Alive, Surfaces!Attempting
  <2> QED
    BY <2>1, AloneStep DEF MCNext, allVars
<1> QED
  BY <1>1, <1>2, PTL DEF MCSpec

(* Whatever crashes left behind (session_lock.rs, session-lock.ts), a        *)
(* process that is turned away has met another one.                          *)
THEOREM AloneIsAdmitted == MCSpec => []AloneSucceeds
<1>1. AloneInv => AloneSucceeds
  BY DEF AloneInv, AloneSucceeds
<1> QED
  BY SurfacesInv, <1>1, PTL

-----------------------------------------------------------------------------
(* One binary, started once.  Before it is, the Desktop that runs owns the   *)
(* lock file; if it is started then, it reads the Desktop's name in it.      *)
OneBinary == SharedHome /\ \A b, c \in Clis : b = c
OneDesktop == \A d, e \in Desktops : Surfaces!Alive(d) /\ Surfaces!Alive(e) => d = e
Owns(d) == lock["cli"] # NoFile /\ content[lock["cli"]] = d
Undisturbed ==
  \A d \in Desktops :
    (\A c \in Clis : lockPc[c] = "off") =>
      /\ lockPc[d] = "write" => fd[d] = tmp["desktop"] /\ content[fd[d]] = NoProc
      /\ lockPc[d] = "rename" => tmp["desktop"] # NoFile /\ content[tmp["desktop"]] = d
      /\ lockPc[d] = "running" => Owns(d)
      /\ lockPc[d] # "drop"
Excluded ==
  \A c \in Clis, d \in Desktops :
    d \in under[c] =>
      /\ lockPc[d] = "running" /\ Owns(d)
      /\ lockPc[c] \in {"exists", "read", "probe", "gone"}
      /\ lockPc[c] = "probe" => seen[c] = d
ExcludeInv == OneDesktop /\ Undisturbed /\ Excluded

LEMMA ExcludeInit == Surfaces!Init => ExcludeInv
BY DEF Surfaces!Init, ExcludeInv, OneDesktop, Undisturbed, Excluded, Surfaces!Alive, Surfaces!Processes

LEMMA ExcludeStep == OneBinary /\ AloneInv /\ ExcludeInv /\ Surfaces!Next => ExcludeInv'
<1> SUFFICES ASSUME OneBinary, AloneInv, ExcludeInv, Surfaces!Next PROVE ExcludeInv'
  OBVIOUS
<1> DEFINE P == Surfaces!Processes
<1>1. Surfaces!TypeOK /\ (\A q \in P : Looked(q))
  BY DEF AloneInv
<1>2. /\ P = Clis \cup Desktops /\ Clis \cap Desktops = {} /\ NoFile \notin Files /\ NoProc \notin P
      /\ \A q \in P : Surfaces!Home(q) = "cli" /\ lockPc[q] \in Surfaces!Pcs
      /\ \A c \in Clis : Surfaces!Surface(c) = "cli" /\ Surfaces!TurnedAway(c) = "gone"
      /\ \A d \in Desktops : Surfaces!Surface(d) = "desktop" /\ Surfaces!TurnedAway(d) = "idle"
  BY <1>1, MCAssumption DEF Surfaces!LockAssumption, Surfaces!Processes, OneBinary, Surfaces!Home, Surfaces!Surface,
                       Surfaces!TurnedAway, Surfaces!TypeOK
<1>3. PICK p \in P : \/ Surfaces!Launch(p) \/ Surfaces!Acquire(p)
                     \/ Surfaces!Stop(p) \/ Surfaces!Exit(p) \/ Surfaces!Crash(p)
  BY DEF Surfaces!Next
<1> HIDE DEF P
<1> USE DEF Surfaces!Goto, Surfaces!Ends, Surfaces!Alive, Surfaces!diskVars, Surfaces!historyVars
<1>4. /\ lockPc \in [P -> Surfaces!Pcs] /\ under \in [P -> SUBSET P] /\ seen \in [P -> P \cup {NoProc}]
      /\ fd \in [P -> Files \cup {NoFile}] /\ (\A q \in P : lockPc[q] = "write" <=> fd[q] # NoFile)
      /\ lock \in [{"cli", "desktop"} -> Files \cup {NoFile}] /\ tmp \in [{"cli", "desktop"} -> Files \cup {NoFile}]
      /\ content \in [Files -> P \cup {NoProc}]
  BY <1>1 DEF Surfaces!TypeOK, Surfaces!Surfaces, P
(* Only a Desktop's launch makes one alive.                                  *)
<1>5. OneDesktop'
  <2>1. \A d \in Desktops : lockPc'[d] \notin {"off", "gone"} =>
          lockPc[d] \notin {"off", "gone"} \/ (Surfaces!Launch(d) /\ d = p)
    <3>1. \E l \in Surfaces!Pcs : lockPc' = [lockPc EXCEPT ![p] = l]
      BY <1>2, <1>3 DEF Surfaces!Launch, Surfaces!Acquire, Surfaces!Stop, Surfaces!Exit, Surfaces!Crash, Surfaces!Start,
         Surfaces!Exists, Surfaces!Read, Surfaces!Probe, Surfaces!Clear, Surfaces!Open, Surfaces!Write,
         Surfaces!Rename, Surfaces!DropGuard, Surfaces!Pcs
    <3>2. \A d \in Desktops : d # p => lockPc'[d] = lockPc[d]
      BY <1>2, <1>4, <3>1
    <3>3. p \in Desktops /\ lockPc[p] \in {"off", "gone"} => Surfaces!Launch(p) \/ lockPc'[p] = "gone"
      BY <1>2, <1>3 DEF Surfaces!Acquire, Surfaces!Stop, Surfaces!Exit, Surfaces!Crash, Surfaces!Start,
         Surfaces!Exists, Surfaces!Read, Surfaces!Probe, Surfaces!Clear, Surfaces!Open, Surfaces!Write,
         Surfaces!Rename, Surfaces!DropGuard
    <3> QED
      BY <3>2, <3>3
  <2>2. Surfaces!Launch(p) => \A e \in Desktops : lockPc[e] \in {"off", "gone"}
    BY DEF Surfaces!Launch
  <2>3. Surfaces!Launch(p) => \A e \in Desktops : e # p => lockPc'[e] = lockPc[e]
    BY <1>2, <1>4 DEF Surfaces!Launch
  <2> QED
    BY <2>1, <2>2, <2>3 DEF OneDesktop, ExcludeInv
<1>6. Surfaces!Launch(p) \/ lockPc[p] \notin {"off", "gone"} \/ (p \in Clis /\ Surfaces!Start(p))
  BY <1>2, <1>3 DEF Surfaces!Acquire, Surfaces!Stop, Surfaces!Exit, Surfaces!Crash, Surfaces!Start,
     Surfaces!Exists, Surfaces!Read, Surfaces!Probe, Surfaces!Clear, Surfaces!Open, Surfaces!Write,
     Surfaces!Rename, Surfaces!DropGuard
<1>7. CASE p \in Clis
  <2>1. \A c \in Clis : c = p
    BY <1>7 DEF OneBinary
  <2>2. lockPc'[p] # "off"
    BY <1>2, <1>3, <1>4, <1>7 DEF Surfaces!Launch, Surfaces!Acquire, Surfaces!Stop, Surfaces!Exit, Surfaces!Crash,
       Surfaces!Start, Surfaces!Exists, Surfaces!Read, Surfaces!Probe, Surfaces!Clear, Surfaces!Open,
       Surfaces!Write, Surfaces!Rename, Surfaces!DropGuard
  <2>3. Undisturbed'
    BY <1>7, <2>2 DEF Undisturbed
  <2>4. ASSUME NEW d \in Desktops, d \in under'[p]
        PROVE  /\ lockPc'[d] = "running" /\ Owns(d)'
               /\ lockPc'[p] \in {"exists", "read", "probe", "gone"}
               /\ lockPc'[p] = "probe" => seen'[p] = d
    <3>0. d # p /\ d \in P /\ ~Surfaces!Launch(p) /\ ~Surfaces!Stop(p)
      BY <1>2, <1>7 DEF Surfaces!Launch, Surfaces!Stop
    <3>1. CASE Surfaces!Start(p)
      <4>1. lockPc[d] = "running" /\ lockPc[p] = "off"
        BY <1>2, <1>4, <1>7, <2>4, <3>1 DEF Surfaces!Start
      <4>2. Owns(d)
        BY <2>1, <4>1 DEF ExcludeInv, Undisturbed
      <4> QED
        BY <1>2, <1>4, <1>7, <3>0, <3>1, <4>1, <4>2 DEF Surfaces!Start, Owns
    <3>2. CASE d \in under[p]
      <4>1. /\ lockPc[d] = "running" /\ Owns(d)
            /\ lockPc[p] \in {"exists", "read", "probe", "gone"}
            /\ lockPc[p] = "probe" => seen[p] = d
        BY <1>7, <3>2 DEF ExcludeInv, Excluded
      <4>2. ~Surfaces!Start(p) /\ ~Surfaces!Clear(p) /\ ~Surfaces!Open(p) /\ ~Surfaces!Write(p)
            /\ ~Surfaces!Rename(p) /\ ~Surfaces!DropGuard(p) /\ ~Surfaces!Exit(p)
        BY <1>7, <4>1 DEF Surfaces!Start, Surfaces!Clear, Surfaces!Open, Surfaces!Write, Surfaces!Rename,
                     Surfaces!DropGuard, Surfaces!Exit
      <4>3. CASE Surfaces!Exists(p)
        BY <1>2, <1>4, <3>0, <4>1, <4>3 DEF Surfaces!Exists, Surfaces!LockOf, Owns
      <4>4. CASE Surfaces!Read(p)
        <5>1. content[Surfaces!LockOf(p)] = d /\ Surfaces!LockOf(p) # NoFile /\ d # NoProc
          BY <1>2, <3>0, <4>1 DEF Surfaces!LockOf, Owns
        <5>2. lockPc' = [lockPc EXCEPT ![p] = "probe"] /\ seen' = [seen EXCEPT ![p] = d] /\ UNCHANGED <<lock, content>>
          BY <3>0, <4>4, <5>1 DEF Surfaces!Read
        <5> QED
          BY <1>4, <3>0, <4>1, <5>2 DEF Owns
      <4>5. CASE Surfaces!Probe(p)
        BY <1>2, <1>4, <1>7, <3>0, <4>1, <4>5 DEF Surfaces!Probe, Owns
      <4>6. CASE Surfaces!Crash(p)
        BY <1>2, <1>4, <3>0, <4>1, <4>6 DEF Surfaces!Crash, Owns
      <4> QED
        BY <1>3, <3>0, <4>2, <4>3, <4>4, <4>5, <4>6 DEF Surfaces!Acquire
    <3>3. Surfaces!Start(p) \/ d \in under[p]
      BY <1>3, <1>4, <2>4, <3>0 DEF Surfaces!Acquire, Surfaces!Exit, Surfaces!Crash, Surfaces!Leaves, P,
         Surfaces!Exists, Surfaces!Read, Surfaces!Probe, Surfaces!Clear, Surfaces!Open, Surfaces!Write,
         Surfaces!Rename, Surfaces!DropGuard
    <3> QED
      BY <3>1, <3>2, <3>3
  <2>5. Excluded'
    BY <2>1, <2>4 DEF Excluded
  <2> QED
    BY <1>5, <2>3, <2>5 DEF ExcludeInv
<1>8. CASE p \in Desktops
  <2>0. (\A d \in Desktops : d # p => lockPc[d] \in {"off", "gone"}) /\ (\A c \in Clis : c # p)
    BY <1>2, <1>6, <1>8 DEF ExcludeInv, OneDesktop, Surfaces!Launch
  <2>1. \A q \in P : q # p => lockPc'[q] = lockPc[q] /\ seen'[q] = seen[q]
    BY <1>3, <1>4 DEF Surfaces!Launch, Surfaces!Acquire, Surfaces!Stop, Surfaces!Exit, Surfaces!Crash,
       Surfaces!Start, Surfaces!Exists, Surfaces!Read, Surfaces!Probe, Surfaces!Clear, Surfaces!Open,
       Surfaces!Write, Surfaces!Rename, Surfaces!DropGuard
  <2>2. Excluded'
    <3> SUFFICES ASSUME NEW c \in Clis, NEW d \in Desktops, d \in under'[c] PROVE FALSE
      BY DEF Excluded
    <3>1. c # p /\ c \in P /\ d \in P
      BY <1>2, <2>0
    <3>2. d \in under[c]
      BY <1>3, <1>4, <3>1 DEF Surfaces!Launch, Surfaces!Acquire, Surfaces!Stop, Surfaces!Exit, Surfaces!Crash,
         Surfaces!Leaves, P, Surfaces!Start, Surfaces!Exists, Surfaces!Read, Surfaces!Probe, Surfaces!Clear,
         Surfaces!Open, Surfaces!Write, Surfaces!Rename, Surfaces!DropGuard
    <3>3. d = p /\ lockPc[p] = "running"
      BY <2>0, <3>2 DEF ExcludeInv, Excluded
    <3>4. Surfaces!Stop(p) \/ Surfaces!Crash(p)
      BY <1>2, <1>3, <1>8, <3>3 DEF Surfaces!Launch, Surfaces!Acquire, Surfaces!Exit, Surfaces!Start,
         Surfaces!Exists, Surfaces!Read, Surfaces!Probe, Surfaces!Clear, Surfaces!Open, Surfaces!Write,
         Surfaces!Rename, Surfaces!DropGuard
    <3>5. d \notin under'[c]
      BY <1>4, <3>1, <3>3, <3>4 DEF Surfaces!Stop, Surfaces!Crash, Surfaces!Leaves, P
    <3> QED
      BY <3>5
  <2>3. ASSUME NEW d \in Desktops, \A c \in Clis : lockPc'[c] = "off"
        PROVE  /\ lockPc'[d] = "write" => fd'[d] = tmp'["desktop"] /\ content'[fd'[d]] = NoProc
               /\ lockPc'[d] = "rename" => tmp'["desktop"] # NoFile /\ content'[tmp'["desktop"]] = d
               /\ lockPc'[d] = "running" => lock'["cli"] # NoFile /\ content'[lock'["cli"]] = d
               /\ lockPc'[d] # "drop"
    <3>1. CASE d # p
      BY <1>2, <2>0, <2>1, <3>1
    <3>2. CASE d = p
      <4>1. \A c \in Clis : lockPc[c] = "off"
        BY <1>2, <2>0, <2>1, <2>3
      <4>2. /\ lockPc[p] = "write" => fd[p] = tmp["desktop"] /\ content[fd[p]] = NoProc
            /\ lockPc[p] = "rename" => tmp["desktop"] # NoFile /\ content[tmp["desktop"]] = p
            /\ lockPc[p] # "drop"
        BY <1>8, <4>1 DEF ExcludeInv, Undisturbed
      <4>3. CASE Surfaces!Launch(p) \/ Surfaces!Start(p) \/ Surfaces!Exists(p) \/ Surfaces!Probe(p) \/ Surfaces!Clear(p)
                 \/ Surfaces!Stop(p) \/ Surfaces!Exit(p) \/ Surfaces!Crash(p)
        <5>1. lockPc'[p] \notin {"write", "rename", "running", "drop"}
          BY <1>2, <1>4, <1>8, <4>3 DEF Surfaces!Launch, Surfaces!Start, Surfaces!Exists, Surfaces!Probe, Surfaces!Clear,
             Surfaces!Stop, Surfaces!Exit, Surfaces!Crash
        <5> QED
          BY <3>2, <5>1
      <4>4. CASE Surfaces!Read(p)
        BY <1>2, <1>4, <1>8, <3>2, <4>4 DEF Surfaces!Read, Surfaces!LockOf
      <4>5. CASE Surfaces!Open(p)
        <5>1. PICK f \in Files : /\ fd' = [fd EXCEPT ![p] = f] /\ tmp' = [tmp EXCEPT !["desktop"] = f]
                                 /\ content' = [content EXCEPT ![f] = NoProc]
          BY <1>1, <1>2, <1>4, <1>8, <4>5, FreshIsThere DEF Surfaces!Open
        <5> QED
          BY <1>4, <3>2, <4>5, <5>1 DEF Surfaces!Open
      <4>6. CASE Surfaces!Write(p)
        <5>1. content' = [content EXCEPT ![fd[p]] = p] /\ fd[p] \in Files /\ fd[p] = tmp["desktop"]
          BY <1>4, <4>2, <4>6 DEF Surfaces!Write
        <5> QED
          BY <1>2, <1>4, <3>2, <4>6, <5>1 DEF Surfaces!Write
      <4>7. CASE Surfaces!Rename(p)
        BY <1>2, <1>4, <1>8, <3>2, <4>2, <4>7 DEF Surfaces!Rename
      <4>8. CASE Surfaces!DropGuard(p)
        BY <4>2, <4>8 DEF Surfaces!DropGuard
      <4> QED
        BY <1>3, <4>3, <4>4, <4>5, <4>6, <4>7, <4>8 DEF Surfaces!Acquire
    <3> QED
      BY <3>1, <3>2
  <2>4. Undisturbed'
    BY <2>3 DEF Undisturbed, Owns
  <2> QED
    BY <1>5, <2>2, <2>4 DEF ExcludeInv
<1> QED
  BY <1>2, <1>7, <1>8

LEMMA ExclusionInv == ASSUME OneBinary PROVE MCSpec => []ExcludeInv
<1>1. MCInit => ExcludeInv
  BY ExcludeInit DEF MCInit
<1>2. AloneInv /\ ExcludeInv /\ [MCNext]_allVars => ExcludeInv'
  <2>1. ExcludeInv /\ UNCHANGED lockVars => ExcludeInv'
    BY DEF lockVars, ExcludeInv, OneDesktop, Undisturbed, Excluded, Owns, Surfaces!Alive
  <2> QED
    BY <2>1, ExcludeStep DEF MCNext, allVars
<1> QED
  BY <1>1, <1>2, SurfacesInv, PTL DEF MCSpec

(* On a shared path a binary that is started while the Desktop runs finds    *)
(* its pid in the lock file (session_lock.rs), as long as it is the only     *)
(* binary: an earlier one may have removed the file when it dropped its      *)
(* guard.                                                                    *)
THEOREM DesktopShutsOutBinary ==
  SharedHome /\ (\A b, c \in Clis : b = c) /\ MCSpec => []DesktopExcludesCli
<1>1. AloneInv /\ ExcludeInv => DesktopExcludesCli
  <2> SUFFICES ASSUME ExcludeInv, NEW c \in Clis, lockPc[c] = "running", NEW d \in Desktops, d \in under[c]
               PROVE  FALSE
    BY DEF DesktopExcludesCli, Surfaces!DesktopExcludesCli
  <2> QED
    BY DEF ExcludeInv, Excluded
<1>2. SharedHome /\ (\A b, c \in Clis : b = c) => (MCSpec => []ExcludeInv)
  BY ExclusionInv DEF OneBinary
<1> QED
  BY <1>1, <1>2, SurfacesInv, PTL
=============================================================================
