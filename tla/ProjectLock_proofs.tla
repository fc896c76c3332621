------------------------- MODULE ProjectLock_proofs -------------------------
(***************************************************************************)
(* Proofs about the write lock of a project config file, for every set of  *)
(* processes and writers.                                                  *)
(***************************************************************************)
EXTENDS ProjectLock, FiniteSetTheorems, TLAPS

Active == Acquiring \cup Holding

\* A queued writer is on the chain of its process; the one that acquires,
\* holds or releases the lock file is its head.
Chained ==
  \A w \in Writers :
    LET c == chain[ProcOf[w]]
    IN  /\ pc[w] = "queued" => \E k \in 1..Len(c) : c[k] = w
        /\ pc[w] \in Active => c # <<>> /\ Head(c) = w

ChainInv == TypeOK /\ Chained

\* What Finish does to the chain keeps the invariant.
LEMMA FinishKeepsChained ==
  ASSUME ChainInv, NEW w \in Writers, pc[w] \in Active,
         NEW label \in {"done", "failed"}, Finish(w, label)
  PROVE  /\ chain' \in [Procs -> Seq(Writers)]
         /\ pc' \in [Writers -> Phases]
         /\ Chained'
<1> USE DEF ChainInv, TypeOK, Finish, Goto, LeaveChain
<1>1. /\ ProcOf[w] \in Procs
      /\ chain[ProcOf[w]] \in Seq(Writers)
      /\ chain[ProcOf[w]] # <<>>
      /\ Head(chain[ProcOf[w]]) = w
  BY LockAssumption DEF Chained
<1>2. Tail(chain[ProcOf[w]]) \in Seq(Writers)
  BY <1>1
<1>3. chain' \in [Procs -> Seq(Writers)]
  BY <1>2
<1>4. pc' \in [Writers -> Phases]
  BY DEF Phases, Settled
<1>5. ASSUME NEW v \in Writers
      PROVE  LET c == chain[ProcOf[v]]
             IN  /\ pc[v] = "queued" => \E k \in 1..Len(c) : c[k] = v
                 /\ pc[v] \in Active => c # <<>> /\ Head(c) = v
                 /\ ProcOf[v] \in Procs /\ c \in Seq(Writers)
  BY LockAssumption DEF Chained
<1>6. ASSUME NEW v \in Writers
      PROVE  (LET c == chain[ProcOf[v]]
              IN  /\ pc[v] = "queued" => \E k \in 1..Len(c) : c[k] = v
                  /\ pc[v] \in Active => c # <<>> /\ Head(c) = v)'
  <2>1. CASE v = w
    BY <2>1 DEF Active, Acquiring, Holding, Critical, Releasing
  <2>2. CASE v # w /\ ProcOf[v] # ProcOf[w]
    BY <2>2, <1>5
  <2>3. CASE v # w /\ ProcOf[v] = ProcOf[w]
    <3>1. pc'[v] = pc[v] /\ pc[v] \notin Active
      BY <2>3, <1>1, <1>5
    <3>2. chain'[ProcOf[v]] = Tail(chain[ProcOf[w]])
      BY <2>3, <1>1
    <3>3. ASSUME pc[v] = "queued"
          PROVE  \E k \in 1..Len(chain'[ProcOf[v]]) : chain'[ProcOf[v]][k] = v
      <4>1. PICK k \in 1..Len(chain[ProcOf[w]]) : chain[ProcOf[w]][k] = v
        BY <3>3, <2>3, <1>5
      <4>2. k # 1
        BY <4>1, <2>3, <1>1
      <4>3. k - 1 \in 1..Len(Tail(chain[ProcOf[w]]))
        BY <4>1, <4>2, <1>1
      <4>4. Tail(chain[ProcOf[w]])[k - 1] = v
        BY <4>1, <4>2, <4>3, <1>1
      <4> QED
        BY <4>3, <4>4, <3>2
    <3> QED
      BY <3>1, <3>3
  <2> QED
    BY <2>1, <2>2, <2>3
<1> QED
  BY <1>3, <1>4, <1>6 DEF Chained

LEMMA ChainInvInit == Init => ChainInv
  BY LockAssumption DEF Init, ChainInv, TypeOK, Chained, Phases, Active,
     Acquiring, Holding, Critical, Releasing

\* A turn of the acquire loop either goes on or finishes.
LEMMA NextTurnKeepsChained ==
  ASSUME ChainInv, NEW w \in Writers, pc[w] \in Acquiring, NextTurn(w)
  PROVE  /\ chain' \in [Procs -> Seq(Writers)]
         /\ pc' \in [Writers -> Phases]
         /\ tries' \in [Writers -> Nat]
         /\ Chained'
<1>1. tries' \in [Writers -> Nat]
  BY DEF NextTurn, ChainInv, TypeOK
<1>2. CASE Goto(w, "open") /\ UNCHANGED chain
  BY <1>1, <1>2 DEF Goto, ChainInv, TypeOK, Chained, Phases, Active,
     Acquiring, Holding, Critical, Releasing
<1>3. CASE Finish(w, "failed")
  BY <1>1, <1>3, FinishKeepsChained DEF Active
<1> QED
  BY <1>2, <1>3 DEF NextTurn

\* Going to another label on the way keeps a writer at the head.
LEMMA GotoKeepsChained ==
  ASSUME ChainInv, NEW w \in Writers, pc[w] \in Active,
         NEW label \in Active, Goto(w, label), UNCHANGED chain
  PROVE  pc' \in [Writers -> Phases] /\ Chained'
  BY DEF Goto, ChainInv, TypeOK, Chained, Phases, Active, Acquiring, Holding,
     Critical, Releasing

LEMMA ChainInvStep == ChainInv /\ [Next]_vars => ChainInv'
<1> SUFFICES ASSUME ChainInv, [Next]_vars PROVE ChainInv'
  OBVIOUS
<1> USE LockAssumption
<1> USE DEF Active, Acquiring, Holding, Critical, Releasing
<1>1. ASSUME NEW w \in Writers, Request(w) PROVE ChainInv'
  <2>1. /\ ProcOf[w] \in Procs
        /\ chain[ProcOf[w]] \in Seq(Writers)
    BY DEF ChainInv, TypeOK
  <2>2. /\ chain' = [chain EXCEPT ![ProcOf[w]] = Append(@, w)]
        /\ pc' = [pc EXCEPT ![w] = "queued"]
    BY <1>1 DEF Request, Goto
  <2>3. TypeOK'
    BY <1>1, <2>1, <2>2 DEF Request, ChainInv, TypeOK, Phases
  <2>4. ASSUME NEW v \in Writers
        PROVE  (LET c == chain[ProcOf[v]]
                IN  /\ pc[v] = "queued" => \E k \in 1..Len(c) : c[k] = v
                    /\ pc[v] \in Active => c # <<>> /\ Head(c) = v)'
    <3> DEFINE c == chain[ProcOf[v]]
    <3>1. /\ ProcOf[v] \in Procs
          /\ c \in Seq(Writers)
          /\ pc[v] = "queued" => \E k \in 1..Len(c) : c[k] = v
          /\ pc[v] \in Active => c # <<>> /\ Head(c) = v
      BY DEF ChainInv, TypeOK, Chained
    <3>2. CASE ProcOf[v] # ProcOf[w]
      BY <2>1, <2>2, <3>1, <3>2 DEF ChainInv, TypeOK
    <3>3. CASE ProcOf[v] = ProcOf[w]
      <4>1. c' = Append(c, w)
        BY <2>1, <2>2, <3>3 DEF ChainInv, TypeOK
      <4>2. CASE v = w
        <5>1. Len(c) + 1 \in 1..Len(Append(c, w)) /\ Append(c, w)[Len(c) + 1] = w
          BY <3>1
        <5>2. pc'[v] = "queued"
          BY <2>2, <4>2 DEF ChainInv, TypeOK
        <5> QED
          BY <4>1, <4>2, <5>1, <5>2
      <4>3. CASE v # w
        <5>1. pc'[v] = pc[v]
          BY <2>2, <4>3 DEF ChainInv, TypeOK
        <5>2. \A k \in 1..Len(c) : /\ k \in 1..Len(Append(c, w))
                                   /\ Append(c, w)[k] = c[k]
          BY <3>1
        <5>3. c # <<>> => Append(c, w) # <<>> /\ Head(Append(c, w)) = Head(c)
          BY <3>1
        <5> QED
          BY <3>1, <4>1, <5>1, <5>2, <5>3
      <4> QED
        BY <4>2, <4>3
    <3> QED
      BY <3>2, <3>3
  <2> QED
    BY <2>3, <2>4 DEF ChainInv, Chained
<1>2. ASSUME NEW w \in Writers, EnterAcquire(w) PROVE ChainInv'
  <2>1. TypeOK'
    BY <1>2 DEF EnterAcquire, Goto, ChainInv, TypeOK, Phases
  <2>2. chain[ProcOf[w]] # <<>> /\ Head(chain[ProcOf[w]]) = w
    BY <1>2 DEF EnterAcquire, ChainInv, TypeOK, Chained
  <2> QED
    BY <1>2, <2>1, <2>2 DEF EnterAcquire, Goto, ChainInv, TypeOK, Chained
<1>3. ASSUME NEW w \in Writers, OpenLock(w) PROVE ChainInv'
  <2>1. pc' \in [Writers -> Phases] /\ Chained'
    BY <1>3, GotoKeepsChained DEF OpenLock
  <2>2. lockFile' \in Lock \cup {NoLock}
    <3>1. [by |-> {w}, written |-> FALSE, aged |-> FALSE] \in Lock
      BY DEF Lock
    <3>2. lockFile' = [by |-> {w}, written |-> FALSE, aged |-> FALSE]
            \/ lockFile' = lockFile
      BY <1>3 DEF OpenLock
    <3> QED
      BY <3>1, <3>2 DEF ChainInv, TypeOK
  <2> QED
    BY <1>3, <2>1, <2>2 DEF OpenLock, ChainInv, TypeOK
<1>4. ASSUME NEW w \in Writers, StampLock(w) PROVE ChainInv'
  <2>1. pc' \in [Writers -> Phases] /\ Chained'
    BY <1>4, GotoKeepsChained DEF StampLock
  <2>2. lockFile' \in Lock \cup {NoLock}
    BY <1>4 DEF StampLock, Owns, ChainInv, TypeOK, Lock, NoLock
  <2> QED
    BY <1>4, <2>1, <2>2 DEF StampLock, ChainInv, TypeOK
<1>5. ASSUME NEW w \in Writers, StampFails(w) PROVE ChainInv'
  <2>1. /\ chain' \in [Procs -> Seq(Writers)]
        /\ pc' \in [Writers -> Phases]
        /\ Chained'
    BY <1>5, FinishKeepsChained DEF StampFails
  <2> QED
    BY <1>5, <2>1 DEF StampFails, ChainInv, TypeOK
<1>6. ASSUME NEW w \in Writers, InspectLock(w) PROVE ChainInv'
  <2>1. CASE Goto(w, "stat") /\ UNCHANGED <<tries, chain>>
    <3>1. pc' \in [Writers -> Phases] /\ Chained'
      BY <1>6, <2>1, GotoKeepsChained DEF InspectLock
    <3> QED
      BY <1>6, <2>1, <3>1 DEF InspectLock, ChainInv, TypeOK
  <2>2. CASE Goto(w, "unlink") /\ UNCHANGED <<tries, chain>>
    <3>1. pc' \in [Writers -> Phases] /\ Chained'
      BY <1>6, <2>2, GotoKeepsChained DEF InspectLock
    <3> QED
      BY <1>6, <2>2, <3>1 DEF InspectLock, ChainInv, TypeOK
  <2>3. CASE NextTurn(w)
    BY <1>6, <2>3, NextTurnKeepsChained DEF InspectLock, ChainInv, TypeOK
  <2> QED
    BY <1>6, <2>1, <2>2, <2>3 DEF InspectLock
<1>7. ASSUME NEW w \in Writers, StatLock(w) PROVE ChainInv'
  <2>1. CASE Goto(w, "unlink") /\ UNCHANGED <<tries, chain>>
    <3>1. pc' \in [Writers -> Phases] /\ Chained'
      BY <1>7, <2>1, GotoKeepsChained DEF StatLock
    <3> QED
      BY <1>7, <2>1, <3>1 DEF StatLock, ChainInv, TypeOK
  <2>2. CASE NextTurn(w)
    BY <1>7, <2>2, NextTurnKeepsChained DEF StatLock, ChainInv, TypeOK
  <2> QED
    BY <1>7, <2>1, <2>2 DEF StatLock
<1>8. ASSUME NEW w \in Writers, UnlinkStale(w) PROVE ChainInv'
  BY <1>8, NextTurnKeepsChained DEF UnlinkStale, ChainInv, TypeOK
<1>9. ASSUME NEW w \in Writers, ReadConfig(w) PROVE ChainInv'
  <2>1. pc' \in [Writers -> Phases] /\ Chained'
    BY <1>9, GotoKeepsChained DEF ReadConfig
  <2> QED
    BY <1>9, <2>1 DEF ReadConfig, ChainInv, TypeOK
<1>10. ASSUME NEW w \in Writers, StoreConfig(w) PROVE ChainInv'
  <2>1. pc' \in [Writers -> Phases] /\ Chained'
    BY <1>10, GotoKeepsChained DEF StoreConfig
  <2> QED
    BY <1>10, <2>1 DEF StoreConfig, ChainInv, TypeOK
<1>11. ASSUME NEW w \in Writers, SkipStore(w) PROVE ChainInv'
  <2>1. pc' \in [Writers -> Phases] /\ Chained'
    BY <1>11, GotoKeepsChained DEF SkipStore
  <2> QED
    BY <1>11, <2>1 DEF SkipStore, ChainInv, TypeOK
<1>12. ASSUME NEW w \in Writers, ReadBack(w) PROVE ChainInv'
  <2>1. CASE Goto(w, "remove") /\ UNCHANGED chain
    <3>1. pc' \in [Writers -> Phases] /\ Chained'
      BY <1>12, <2>1, GotoKeepsChained DEF ReadBack
    <3> QED
      BY <1>12, <2>1, <3>1 DEF ReadBack, ChainInv, TypeOK
  <2>2. CASE Finish(w, "done")
    <3>1. /\ chain' \in [Procs -> Seq(Writers)]
          /\ pc' \in [Writers -> Phases]
          /\ Chained'
      BY <1>12, <2>2, FinishKeepsChained DEF ReadBack
    <3> QED
      BY <1>12, <3>1 DEF ReadBack, ChainInv, TypeOK
  <2> QED
    BY <1>12, <2>1, <2>2 DEF ReadBack
<1>13. ASSUME NEW w \in Writers, RemoveLock(w) PROVE ChainInv'
  <2>1. /\ chain' \in [Procs -> Seq(Writers)]
        /\ pc' \in [Writers -> Phases]
        /\ Chained'
    BY <1>13, FinishKeepsChained DEF RemoveLock
  <2> QED
    BY <1>13, <2>1 DEF RemoveLock, ChainInv, TypeOK
<1>14. ASSUME NEW p \in Procs, Crash(p) PROVE ChainInv'
  <2>1. TypeOK'
    BY <1>14 DEF Crash, ChainInv, TypeOK, Phases, Settled
  <2>2. ASSUME NEW v \in Writers, pc'[v] \in Active \cup {"queued"}
        PROVE  pc'[v] = pc[v] /\ chain'[ProcOf[v]] = chain[ProcOf[v]]
    BY <1>14, <2>2 DEF Crash, ChainInv, TypeOK
  <2> QED
    BY <2>1, <2>2 DEF ChainInv, TypeOK, Chained
<1>15. ASSUME Age PROVE ChainInv'
  BY <1>15 DEF Age, ChainInv, TypeOK, Chained, Lock, NoLock
<1>16. CASE UNCHANGED vars
  BY <1>16 DEF vars, ChainInv, TypeOK, Chained
<1> QED
  BY <1>1, <1>2, <1>3, <1>4, <1>5, <1>6, <1>7, <1>8, <1>9, <1>10, <1>11,
     <1>12, <1>13, <1>14, <1>15, <1>16 DEF Next, Step

(***************************************************************************)
(* Type correctness of the lock protocol, and of the promise chain: every  *)
(* writer between open and release is the head of its process's chain.     *)
(***************************************************************************)
THEOREM ChainCorrect == Spec => []ChainInv
  BY ChainInvInit, ChainInvStep, PTL DEF Spec

(***************************************************************************)
(* The values of the variables of withProjectWriteLock and                 *)
(* acquireProjectFileLock stay in their types.                             *)
(***************************************************************************)
THEOREM TypeCorrect == Spec => []TypeOK
<1>1. ChainInv => TypeOK
  BY DEF ChainInv
<1> QED
  BY <1>1, ChainCorrect, PTL
-----------------------------------------------------------------------------
(***************************************************************************)
(* Mutual exclusion between processes.  It holds without crashes for any   *)
(* number of processes, and with crashes for two: with a third one, two    *)
(* processes can both judge a dead process's lock stale (the run           *)
(* lock_stale_race).  A failed payload write or a holder that outlives     *)
(* PROJECT_FILE_LOCK_STALE_MS breaks it too.                               *)
(***************************************************************************)
AtMostTwo == \A p, q, r \in Procs : p = q \/ q = r \/ p = r

Recoverable ==
  /\ MaxStampFailures = 0
  /\ SlowHolders = FALSE
  /\ MaxCrashes = 0 \/ AtMostTwo

\* A writer under way lives; a holder owns a fresh lock file, stamped once it
\* is in; who is about to remove a stale lock is alone.
Sound(w) ==
  /\ pc[w] \in Active \cup {"queued"} => ProcOf[w] \in alive
  /\ pc[w] \in Holding => lockFile.by = {w} /\ lockFile.aged = FALSE
  /\ pc[w] \in Critical \cup Releasing => lockFile.written = TRUE
  /\ pc[w] = "unlink" => alive = {ProcOf[w]}

\* Only a dead process leaves a lock file behind.
NotAbandoned ==
  \A w \in Writers :
    lockFile.by = {w} =>
      pc[w] \in Holding \/ (pc[w] = "dead" /\ ProcOf[w] \notin alive)

\* What a writer has read is still what the file holds.
Fresh ==
  /\ committed \subseteq config
  /\ \A w \in Writers : pc[w] = "store" => base[w] = config

LockInv ==
  /\ ChainInv
  /\ MaxCrashes = 0 => alive = Procs
  /\ \A w \in Writers : Sound(w)
  /\ NotAbandoned
  /\ Fresh

LEMMA LockInvInit == Init => LockInv
  BY ChainInvInit DEF Init, LockInv, Sound, NotAbandoned, Fresh, Active,
     Acquiring, Holding, Critical, Releasing, NoLock

\* A process has one writer past its chain.
LEMMA HeadUnique ==
  ASSUME ChainInv, NEW v \in Writers, NEW w \in Writers,
         pc[v] \in Active, pc[w] \in Active, ProcOf[v] = ProcOf[w]
  PROVE  v = w
  BY DEF ChainInv, Chained

\* A lock that passes the stale tests was left by a process that died, so
\* that its finder is the last process.
LEMMA StaleMeansAlone ==
  ASSUME Recoverable, LockInv, NEW w \in Writers, pc[w] \in Acquiring,
         lockFile.aged \/ (lockFile.written /\ StaleByPid)
  PROVE  alive = {ProcOf[w]}
<1> USE DEF LockInv, ChainInv, TypeOK
<1>1. PICK v \in Writers : lockFile.by = {v}
  BY DEF Lock, NoLock
<1>2. ProcOf[v] \notin alive
  <2>1. CASE lockFile.aged
    BY <1>1, <2>1 DEF NotAbandoned, Sound
  <2>2. CASE StaleByPid
    BY <1>1, <2>2 DEF StaleByPid, LockPid
  <2> QED
    BY <2>1, <2>2
<1>3. ProcOf[w] \in alive /\ ProcOf[v] \in Procs /\ alive \subseteq Procs
  BY LockAssumption DEF Sound, Active
<1>4. AtMostTwo
  BY <1>2, <1>3 DEF Recoverable
<1>5. ASSUME NEW p \in alive PROVE p = ProcOf[w]
  BY <1>2, <1>3, <1>4 DEF AtMostTwo
<1> QED
  BY <1>3, <1>5

LEMMA LockInvStep ==
  ASSUME Recoverable, LockInv, [Next]_vars
  PROVE  LockInv'
<1> USE LockAssumption
<1>0. ChainInv'
  BY ChainInvStep DEF LockInv
<1> USE DEF LockInv, Goto
<1>a. USE DEF Active, Acquiring, Holding, Critical, Releasing
<1>t. ChainInv /\ TypeOK /\ TypeOK' /\ Fresh /\ NotAbandoned
      /\ (MaxCrashes = 0 => alive = Procs)
      /\ \A v \in Writers : Sound(v)
  BY <1>0 DEF ChainInv
<1>1. ASSUME NEW w \in Writers, Request(w) PROVE LockInv'
  BY <1>0, <1>t, <1>1 DEF Request, TypeOK, Sound, NotAbandoned, Fresh
<1>2. ASSUME NEW w \in Writers, EnterAcquire(w) PROVE LockInv'
  BY <1>0, <1>t, <1>2 DEF EnterAcquire, TypeOK, Sound, NotAbandoned, Fresh
<1>3. ASSUME NEW w \in Writers, OpenLock(w) PROVE LockInv'
  <2>1. CASE lockFile = NoLock
    <3>1. \A v \in Writers : pc[v] \notin Holding
      BY <1>t, <2>1 DEF Sound, NoLock
    <3>2. /\ \A v \in Writers \ {w} : pc'[v] = pc[v]
          /\ pc[w] = "open" /\ pc'[w] = "stamp"
          /\ lockFile' = [by |-> {w}, written |-> FALSE, aged |-> FALSE]
          /\ UNCHANGED <<alive, base, config, committed>>
      BY <1>3, <1>t, <2>1 DEF OpenLock, TypeOK
    <3> QED
      BY <1>0, <1>t, <3>1, <3>2 DEF Sound, NotAbandoned, Fresh
  <2>2. CASE lockFile # NoLock
    <3>1. /\ \A v \in Writers \ {w} : pc'[v] = pc[v]
          /\ pc[w] = "open" /\ pc'[w] = "inspect"
          /\ UNCHANGED <<lockFile, alive, base, config, committed>>
      BY <1>3, <1>t, <2>2 DEF OpenLock, TypeOK
    <3> QED
      BY <1>0, <1>t, <3>1 DEF Sound, NotAbandoned, Fresh
  <2> QED
    BY <2>1, <2>2
<1>4. ASSUME NEW w \in Writers, StampLock(w) PROVE LockInv'
  BY <1>0, <1>t, <1>4 DEF StampLock, Owns, TypeOK, Sound, NotAbandoned, Fresh, Lock, NoLock
<1>5. ASSUME NEW w \in Writers, StampFails(w) PROVE FALSE
  BY <1>t, <1>5 DEF StampFails, Recoverable, TypeOK
<1>6. ASSUME NEW w \in Writers, pc[w] \in Acquiring, NextTurn(w),
             UNCHANGED <<lockFile, alive, base, config, committed, stampFailures>>
      PROVE  LockInv'
  <2>1. /\ \A v \in Writers \ {w} : pc'[v] = pc[v]
        /\ pc'[w] \in {"open", "failed"}
    BY <1>6, <1>t DEF NextTurn, Finish, TypeOK
  <2> QED
    BY <1>0, <1>t, <1>6, <2>1 DEF Sound, NotAbandoned, Fresh
<1>7. ASSUME NEW w \in Writers, pc[w] \in Acquiring, Goto(w, "unlink"),
             alive = {ProcOf[w]},
             UNCHANGED <<lockFile, alive, base, config, committed, stampFailures>>
      PROVE  LockInv'
  BY <1>0, <1>t, <1>7 DEF TypeOK, Sound, NotAbandoned, Fresh
<1>8. ASSUME NEW w \in Writers, InspectLock(w) PROVE LockInv'
  <2>1. CASE Goto(w, "stat")
    BY <1>0, <1>t, <1>8, <2>1 DEF InspectLock, TypeOK, Sound, NotAbandoned, Fresh
  <2>2. CASE lockFile.written /\ (StaleByPid \/ lockFile.aged) /\ Goto(w, "unlink")
    BY <1>7, <1>8, <2>2, StaleMeansAlone DEF InspectLock
  <2>3. CASE NextTurn(w)
    BY <1>6, <1>8, <2>3 DEF InspectLock
  <2> QED
    BY <1>8, <2>1, <2>2, <2>3 DEF InspectLock
<1>9. ASSUME NEW w \in Writers, StatLock(w) PROVE LockInv'
  <2>1. CASE lockFile.aged /\ Goto(w, "unlink")
    BY <1>7, <1>9, <2>1, StaleMeansAlone DEF StatLock
  <2>2. CASE NextTurn(w)
    BY <1>6, <1>9, <2>2 DEF StatLock
  <2> QED
    BY <1>9, <2>1, <2>2 DEF StatLock
<1>10. ASSUME NEW w \in Writers, UnlinkStale(w) PROVE LockInv'
  <2>1. \A v \in Writers : pc[v] \notin Holding
    BY <1>10, <1>t, HeadUnique DEF UnlinkStale, Sound
  <2>2. /\ pc[w] = "unlink"
        /\ \A v \in Writers \ {w} : pc'[v] = pc[v]
        /\ pc'[w] \in {"open", "failed"}
        /\ lockFile' = NoLock
        /\ UNCHANGED <<alive, base, config, committed>>
    BY <1>10, <1>t DEF UnlinkStale, NextTurn, Finish, TypeOK
  <2> QED
    BY <1>0, <1>t, <2>1, <2>2 DEF Sound, NotAbandoned, Fresh, NoLock
<1>11. ASSUME NEW w \in Writers, ReadConfig(w) PROVE LockInv'
  BY <1>0, <1>t, <1>11 DEF ReadConfig, TypeOK, Sound, NotAbandoned, Fresh
<1>12. ASSUME NEW w \in Writers, StoreConfig(w) PROVE LockInv'
  <2>1. \A v \in Writers \ {w} : pc[v] \notin Holding
    BY <1>12, <1>t DEF StoreConfig, Sound
  <2> QED
    BY <1>0, <1>t, <1>12, <2>1 DEF StoreConfig, TypeOK, Sound, NotAbandoned, Fresh
<1>13. ASSUME NEW w \in Writers, SkipStore(w) PROVE LockInv'
  BY <1>0, <1>t, <1>13 DEF SkipStore, TypeOK, Sound, NotAbandoned, Fresh
<1>14. ASSUME NEW w \in Writers, ReadBack(w) PROVE LockInv'
  <2>1. lockFile.written /\ ProcOf[w] \in LockPid
    BY <1>14, <1>t DEF ReadBack, Sound, LockPid
  <2> QED
    <3>1. /\ \A v \in Writers \ {w} : pc'[v] = pc[v]
          /\ pc[w] = "readback" /\ pc'[w] = "remove"
          /\ UNCHANGED <<lockFile, alive, base, config, committed>>
      BY <1>14, <1>t, <2>1 DEF ReadBack, TypeOK
    <3> QED
      BY <1>0, <1>t, <3>1 DEF Sound, NotAbandoned, Fresh
<1>15. ASSUME NEW w \in Writers, RemoveLock(w) PROVE LockInv'
  <2>1. \A v \in Writers \ {w} : pc[v] \notin Holding
    BY <1>15, <1>t DEF RemoveLock, Sound
  <2>2. /\ \A v \in Writers \ {w} : pc'[v] = pc[v]
        /\ pc'[w] = "done"
        /\ lockFile' = NoLock
        /\ UNCHANGED <<alive, base, config, committed>>
    BY <1>15, <1>t DEF RemoveLock, Finish, TypeOK
  <2> QED
    BY <1>0, <1>t, <2>1, <2>2 DEF Sound, NotAbandoned, Fresh, NoLock
<1>16. ASSUME NEW p \in Procs, Crash(p) PROVE LockInv'
  <2>1. MaxCrashes # 0
    <3>1. CASE MaxCrashes = 0
      <4>1. Procs \ alive = {}
        BY <1>t, <3>1
      <4>2. Cardinality(Procs \ alive) = 0
        BY <4>1, FS_EmptySet
      <4> QED
        BY <1>16, <3>1, <4>2 DEF Crash
    <3> QED
      BY <3>1
  <2>2. ASSUME NEW v \in Writers
        PROVE  /\ pc'[v] = IF ProcOf[v] = p /\ pc[v] \notin {"done", "failed"}
                           THEN "dead" ELSE pc[v]
               /\ UNCHANGED <<lockFile, base, config, committed>>
               /\ alive' = alive \ {p}
               /\ p \in alive
    BY <1>16 DEF Crash
  <2>3. \A v \in Writers : Sound(v)'
    BY <1>t, <2>2 DEF Sound
  <2>4. NotAbandoned'
    BY <1>t, <2>2 DEF Sound, NotAbandoned
  <2>5. Fresh'
    BY <1>t, <1>16, <2>2 DEF Fresh, Crash
  <2> QED
    BY <1>0, <2>1, <2>3, <2>4, <2>5
<1>17. ASSUME Age PROVE LockInv'
  <2>1. \A w \in Writers : pc[w] \notin Holding
    BY <1>17, <1>t DEF Age, Recoverable, Sound
  <2> QED
    BY <1>0, <1>t, <1>17, <2>1 DEF Age, TypeOK, Sound, NotAbandoned, Fresh, Lock, NoLock
<1>18. CASE UNCHANGED vars
  BY <1>0, <1>t, <1>18 DEF vars, Sound, NotAbandoned, Fresh
<1> QED
  BY <1>1, <1>2, <1>3, <1>4, <1>5, <1>8, <1>9, <1>10, <1>11, <1>12, <1>13,
     <1>14, <1>15, <1>16, <1>17, <1>18 DEF Next, Step

LEMMA LockInvariant ==
  ASSUME Recoverable
  PROVE  Spec => []LockInv
<1>1. Init => LockInv
  BY LockInvInit
<1>2. LockInv /\ [Next]_vars => LockInv'
  BY LockInvStep
<1> QED
  BY <1>1, <1>2, PTL DEF Spec

(***************************************************************************)
(* Of the writers of all processes at most one is between the lock's       *)
(* acquisition and its release.                                            *)
(***************************************************************************)
THEOREM Exclusion ==
  ASSUME Recoverable
  PROVE  Spec => []MutualExclusion
<1>1. LockInv => MutualExclusion
  BY DEF LockInv, Sound, MutualExclusion, Holding
<1> QED
  BY <1>1, LockInvariant, PTL

(***************************************************************************)
(* No rename of writeProjectConfigToDisk drops an update that another      *)
(* writer has made since the config was read.                              *)
(***************************************************************************)
THEOREM UpdatesKept ==
  ASSUME Recoverable
  PROVE  Spec => []NoLostUpdate
<1>1. LockInv => NoLostUpdate
  BY DEF LockInv, Fresh, NoLostUpdate
<1> QED
  BY <1>1, LockInvariant, PTL

(***************************************************************************)
(* A request that has returned or timed out leaves no lock file behind.    *)
(***************************************************************************)
THEOREM LocksReleased ==
  ASSUME Recoverable
  PROVE  Spec => []LockNotLeaked
<1>1. ASSUME LockInv PROVE LockNotLeaked
  <2>1. ASSUME NEW w \in lockFile.by PROVE pc[w] \notin {"done", "failed"}
    <3>1. w \in Writers /\ lockFile.by = {w}
      BY <1>1, <2>1 DEF LockInv, ChainInv, TypeOK, Lock, NoLock
    <3> QED
      BY <1>1, <3>1 DEF LockInv, NotAbandoned, Holding, Critical, Releasing
  <2> QED
    BY <2>1 DEF LockNotLeaked
<1> QED
  BY <1>1, LockInvariant, PTL

(***************************************************************************)
(* "Only unlink if we still own the lock": the check in release() and the  *)
(* unlink after it are two steps, and no other lock gets between them.     *)
(***************************************************************************)
THEOREM OwnLockRemoved ==
  ASSUME Recoverable
  PROVE  Spec => ReleaseRemovesOwnLock
<1>1. LockInv /\ [Next]_vars =>
        [\A w \in Writers : RemoveLock(w) => lockFile.by \subseteq {w}]_vars
  BY DEF LockInv, Sound, RemoveLock, Holding, Releasing
<1> QED
  BY <1>1, LockInvariant, PTL DEF Spec, ReleaseRemovesOwnLock
-----------------------------------------------------------------------------
(* The lock protocol implements the atomic config store.                   *)

\* The labels of a writer whose request has taken effect or never will.
Over == Settled \cup Releasing

StoredOnce == \A w \in Writers : w \in committed => pc[w] \in Over

\* Any step but a rename only moves writers on, and none back from Over.
MovesOn ==
  /\ UNCHANGED <<config, committed>>
  /\ \A w \in Writers : pc[w] \in Over => pc'[w] \in Over

LEMMA StoresOrMovesOn ==
  ASSUME TypeOK, [Next]_vars
  PROVE  (\E w \in Writers : StoreConfig(w)) \/ MovesOn
<1> USE DEF Goto, Finish, MovesOn, Over, Settled, Releasing, TypeOK
<1>1. ASSUME NEW w \in Writers,
             Request(w) \/ EnterAcquire(w) \/ OpenLock(w) \/ StampLock(w)
               \/ StampFails(w) \/ ReadConfig(w) \/ SkipStore(w)
               \/ ReadBack(w) \/ RemoveLock(w)
      PROVE  MovesOn
  BY <1>1 DEF Request, EnterAcquire, OpenLock, StampLock, StampFails,
     ReadConfig, SkipStore, ReadBack, RemoveLock
<1>2. ASSUME NEW w \in Writers, InspectLock(w) \/ StatLock(w) \/ UnlinkStale(w)
      PROVE  MovesOn
  BY <1>2 DEF InspectLock, StatLock, UnlinkStale, NextTurn
<1>3. ASSUME NEW p \in Procs, Crash(p) PROVE MovesOn
  BY <1>3 DEF Crash
<1>4. CASE Age
  BY <1>4 DEF Age
<1>5. CASE UNCHANGED vars
  BY <1>5 DEF vars
<1> QED
  BY <1>1, <1>2, <1>3, <1>4, <1>5 DEF Next, Step

LEMMA StoredOnceStep ==
  ASSUME TypeOK, StoredOnce, [Next]_vars
  PROVE  StoredOnce'
<1>1. CASE MovesOn
  BY <1>1 DEF MovesOn, StoredOnce
<1>2. ASSUME NEW w \in Writers, StoreConfig(w) PROVE StoredOnce'
  BY <1>2 DEF StoreConfig, Goto, StoredOnce, TypeOK, Over, Releasing
<1> QED
  BY <1>1, <1>2, StoresOrMovesOn

\* A rename is Apply: it adds the writer to what the config held.
LEMMA StoreApplies ==
  ASSUME LockInv, StoredOnce, NEW w \in Writers, StoreConfig(w)
  PROVE  Store!Apply(w)
<1>1. /\ TypeOK
      /\ pc[w] = "store"
      /\ pc' = [pc EXCEPT ![w] = "readback"]
      /\ config' = config \cup {w}
      /\ committed' = committed \cup {w}
  BY DEF StoreConfig, Goto, LockInv, ChainInv, Fresh
<1>2. storePhase[w] = "waiting"
  BY <1>1 DEF storePhase, StoredOnce, Over, Settled, Releasing
<1>3. storePhase' = [storePhase EXCEPT ![w] = "applied"]
  BY <1>1 DEF storePhase, TypeOK
<1> QED
  BY <1>1, <1>2, <1>3 DEF Store!Apply

\* Any other step drops the writers it moves to Over, if any.
LEMMA MovingDrops ==
  ASSUME TypeOK, MovesOn
  PROVE  \E W \in SUBSET Writers : Store!Drop(W)
<1> DEFINE W == {w \in Writers : /\ w \notin committed
                                 /\ pc[w] \notin Over
                                 /\ pc'[w] \in Over}
<1>1. \A w \in W : storePhase[w] = "waiting"
  BY DEF storePhase, Over
<1>2. storePhase' = [w \in Writers |-> IF w \in W THEN "dropped" ELSE storePhase[w]]
  BY DEF storePhase, MovesOn, Over
<1>3. Store!Drop(W)
  BY <1>1, <1>2 DEF Store!Drop, MovesOn
<1> QED
  BY <1>3

(***************************************************************************)
(* Every request on the config is atomic: withProjectWriteLock implements  *)
(* ConfigStore, each rename being the moment a request takes effect.       *)
(***************************************************************************)
THEOREM Refinement ==
  ASSUME Recoverable
  PROVE  Spec => RefinesStore
<1>1. Init => Store!Init
  BY DEF Init, Store!Init, storePhase, Settled, Releasing
<1>2. Init => StoredOnce
  BY DEF Init, StoredOnce
<1>3. LockInv /\ StoredOnce /\ [Next]_vars => StoredOnce'
  BY StoredOnceStep DEF LockInv, ChainInv
<1>4. LockInv /\ StoredOnce /\ [Next]_vars => [Store!Next]_Store!storeVars
  BY StoresOrMovesOn, StoreApplies, MovingDrops DEF LockInv, ChainInv, Store!Next
<1> QED
  BY <1>1, <1>2, <1>3, <1>4, LockInvariant, PTL DEF Spec, RefinesStore, Store!Spec
-----------------------------------------------------------------------------
(***************************************************************************)
(* In one process the promise chain alone keeps updates apart: whatever    *)
(* happens to the lock file, which a slow holder may lose and a failed     *)
(* write may leave behind.                                                 *)
(***************************************************************************)
OneProcess == \A p, q \in Procs : p = q

LEMMA FreshStep ==
  ASSUME OneProcess, ChainInv, Fresh, [Next]_vars
  PROVE  Fresh'
<1> USE LockAssumption DEF Goto, Finish
<1>t. TypeOK
  BY DEF ChainInv
<1>1. ASSUME NEW w \in Writers, ReadConfig(w) PROVE Fresh'
  BY <1>t, <1>1 DEF ReadConfig, TypeOK, Fresh
<1>2. ASSUME NEW w \in Writers, StoreConfig(w) PROVE Fresh'
  <2>1. \A v \in Writers : pc[v] = "store" => v = w
    <3> SUFFICES ASSUME NEW v \in Writers, pc[v] = "store" PROVE v = w
      OBVIOUS
    <3>1. ProcOf[v] = ProcOf[w]
      BY DEF OneProcess
    <3> QED
      BY <1>2, <3>1, HeadUnique DEF StoreConfig, Active, Holding, Critical
  <2> QED
    BY <1>t, <1>2, <2>1 DEF StoreConfig, TypeOK, Fresh
<1>3. ASSUME UNCHANGED <<base, config, committed>>,
             \A v \in Writers : pc'[v] = "store" => pc[v] = "store"
      PROVE  Fresh'
  BY <1>3 DEF Fresh
<1>4. ASSUME NEW w \in Writers,
             Request(w) \/ EnterAcquire(w) \/ OpenLock(w) \/ StampLock(w)
               \/ StampFails(w) \/ SkipStore(w) \/ ReadBack(w) \/ RemoveLock(w)
      PROVE  Fresh'
  BY <1>t, <1>3, <1>4 DEF Request, EnterAcquire, OpenLock, StampLock,
     StampFails, SkipStore, ReadBack, RemoveLock, TypeOK
<1>5. ASSUME NEW w \in Writers, InspectLock(w) \/ StatLock(w) \/ UnlinkStale(w)
      PROVE  Fresh'
  BY <1>t, <1>3, <1>5 DEF InspectLock, StatLock, UnlinkStale, NextTurn, TypeOK
<1>6. ASSUME NEW p \in Procs, Crash(p) PROVE Fresh'
  BY <1>t, <1>3, <1>6 DEF Crash, TypeOK
<1>7. CASE Age
  BY <1>3, <1>7 DEF Age
<1>8. CASE UNCHANGED vars
  BY <1>3, <1>8 DEF vars
<1> QED
  BY <1>1, <1>2, <1>4, <1>5, <1>6, <1>7, <1>8 DEF Next, Step

(***************************************************************************)
(* The updates of one process are serialized by the promise chain of       *)
(* withProjectWriteLock, for any number of slow holders, failed payload    *)
(* writes and stolen locks.                                                *)
(***************************************************************************)
THEOREM UpdatesKeptInProcess ==
  ASSUME OneProcess
  PROVE  Spec => []NoLostUpdate
<1>1. Init => Fresh
  BY DEF Init, Fresh
<1>2. ChainInv /\ Fresh /\ [Next]_vars => Fresh'
  BY FreshStep
<1>3. Fresh => NoLostUpdate
  BY DEF Fresh, NoLostUpdate
<1> QED
  BY <1>1, <1>2, <1>3, ChainCorrect, PTL DEF Spec
=============================================================================
