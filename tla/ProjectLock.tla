---------------------------- MODULE ProjectLock ----------------------------
(***************************************************************************)
(* The write lock of a project config file (projects/project-config.js).   *)
(*                                                                         *)
(* Several server processes share one config file.  Inside a process the   *)
(* writers queue on a promise chain (withProjectWriteLock); the head of    *)
(* the chain takes the cross-process lock file (acquireProjectFileLock),   *)
(* reads the config, writes it back with a rename, and releases.           *)
(*                                                                         *)
(* Every await of the source is a step boundary.  Two are merged because   *)
(* they commute with every other step: reading the lock payload and        *)
(* testing its pid (a dead process stays dead), and the 20 ms sleep.       *)
(***************************************************************************)
EXTENDS Naturals, Sequences, FiniteSets

CONSTANTS
  Procs,             \* server processes; a restarted process has a new pid
  Writers,           \* requests to write the config, each made once
  ProcOf,            \* the process a request is made in
  MaxTries,          \* PROJECT_FILE_LOCK_WAIT_MS in turns of the acquire loop
  MaxCrashes,        \* bound: processes that may crash
  MaxStampFailures,  \* bound: lock payload writes that may fail
  SlowHolders        \* may a holder outlive PROJECT_FILE_LOCK_STALE_MS

ASSUME LockAssumption ==
  /\ ProcOf \in [Writers -> Procs]
  /\ MaxTries \in Nat \ {0}
  /\ MaxCrashes \in Nat
  /\ MaxStampFailures \in Nat
  /\ SlowHolders \in BOOLEAN

VARIABLES
  lockFile,       \* the .json.lock file: NoLock or a Lock
  alive,          \* processes that answer process.kill(pid, 0)
  chain,          \* per process, the promise chain of pending writers
  pc,             \* where each writer is
  tries,          \* turns of the acquire loop taken
  base,           \* the config each writer has read
  config,         \* the config file: the writers whose update it holds
  committed,      \* history: writers whose rename has happened
  stampFailures   \* bound: how many payload writes have failed

vars == <<lockFile, alive, chain, pc, tries, base, config, committed,
          stampFailures>>

NoLock == [by |-> {}, written |-> FALSE, aged |-> FALSE]

\* A lock file: who created it (its pid is ProcOf), whether the payload has
\* been written, whether it is older than PROJECT_FILE_LOCK_STALE_MS.
Lock == [by : {{w} : w \in Writers}, written : BOOLEAN, aged : BOOLEAN]

Acquiring == {"open", "inspect", "stat", "unlink"}
Critical  == {"read", "store"}
Releasing == {"readback", "remove"}
Holding   == {"stamp"} \cup Critical \cup Releasing
Settled   == {"done", "failed", "dead"}
Phases    == {"idle", "queued"} \cup Acquiring \cup Holding \cup Settled

Owns(w) == lockFile.by = {w}
LockPid == {ProcOf[v] : v \in lockFile.by}

Init ==
  /\ lockFile = NoLock
  /\ alive = Procs
  /\ chain = [p \in Procs |-> <<>>]
  /\ pc = [w \in Writers |-> "idle"]
  /\ tries = [w \in Writers |-> 0]
  /\ base = [w \in Writers |-> {}]
  /\ config = {}
  /\ committed = {}
  /\ stampFailures = 0
-----------------------------------------------------------------------------
Goto(w, label) == pc' = [pc EXCEPT ![w] = label]

\* release() of the chain: the next writer's `await previous` resolves.
LeaveChain(w) == chain' = [chain EXCEPT ![ProcOf[w]] = Tail(@)]

\* The request returns or throws: both finally blocks run.
Finish(w, label) == Goto(w, label) /\ LeaveChain(w)

\* withProjectWriteLock up to `await previous`.
Request(w) ==
  /\ pc[w] = "idle"
  /\ ProcOf[w] \in alive
  /\ chain' = [chain EXCEPT ![ProcOf[w]] = Append(@, w)]
  /\ Goto(w, "queued")
  /\ UNCHANGED <<lockFile, alive, tries, base, config, committed,
                 stampFailures>>

\* Mutant of EnterAcquire: does not wait for the previous writer.
EnterAtOnce(w) ==
  /\ pc[w] = "queued"
  /\ Goto(w, "open")
  /\ UNCHANGED <<lockFile, alive, chain, tries, base, config, committed,
                 stampFailures>>

\* `await previous` resolves for the head of the chain.
EnterAcquire(w) ==
  /\ pc[w] = "queued"
  /\ Head(chain[ProcOf[w]]) = w
  /\ Goto(w, "open")
  /\ UNCHANGED <<lockFile, alive, chain, tries, base, config, committed,
                 stampFailures>>

\* Mutants of NextTurn: a timed-out writer keeps its place in the chain, or
\* releases a lock file it never created.
NextTurnKeepsChain(w) ==
  /\ tries' = [tries EXCEPT ![w] = @ + 1]
  /\ Goto(w, IF tries[w] + 1 < MaxTries THEN "open" ELSE "failed")
  /\ UNCHANGED chain

NextTurnReleases(w) ==
  /\ tries' = [tries EXCEPT ![w] = @ + 1]
  /\ Goto(w, IF tries[w] + 1 < MaxTries THEN "open" ELSE "remove")
  /\ UNCHANGED chain

\* One more turn of the acquire loop, or the timeout error.
NextTurn(w) ==
  /\ tries' = [tries EXCEPT ![w] = @ + 1]
  /\ IF tries[w] + 1 < MaxTries
     THEN Goto(w, "open") /\ UNCHANGED chain
     ELSE Finish(w, "failed")

\* Mutant of OpenLock: opens with 'w' instead of 'wx'.
OpenLockAnyway(w) ==
  /\ pc[w] = "open"
  /\ lockFile' = [by |-> {w}, written |-> FALSE, aged |-> FALSE]
  /\ Goto(w, "stamp")
  /\ UNCHANGED <<alive, chain, tries, base, config, committed, stampFailures>>

\* open(lockPath, 'wx'): creates the empty lock file or fails with EEXIST.
OpenLock(w) ==
  /\ pc[w] = "open"
  /\ IF lockFile = NoLock
     THEN /\ lockFile' = [by |-> {w}, written |-> FALSE, aged |-> FALSE]
          /\ Goto(w, "stamp")
     ELSE /\ Goto(w, "inspect")
          /\ UNCHANGED lockFile
  /\ UNCHANGED <<alive, chain, tries, base, config, committed, stampFailures>>

\* handle.writeFile({pid, at}): reaches the path only while it names our inode.
StampLock(w) ==
  /\ pc[w] = "stamp"
  /\ lockFile' = IF Owns(w)
                 THEN [lockFile EXCEPT !.written = TRUE, !.aged = FALSE]
                 ELSE lockFile
  /\ Goto(w, "read")
  /\ UNCHANGED <<alive, chain, tries, base, config, committed, stampFailures>>

\* Mutant of StampFails: the rethrown error skips the chain's release.
StampFailsKeepsChain(w) ==
  /\ pc[w] = "stamp"
  /\ stampFailures < MaxStampFailures
  /\ stampFailures' = stampFailures + 1
  /\ Goto(w, "failed")
  /\ UNCHANGED <<lockFile, alive, chain, tries, base, config, committed>>

\* handle.writeFile fails: the error is rethrown and the empty file stays.
StampFails(w) ==
  /\ pc[w] = "stamp"
  /\ stampFailures < MaxStampFailures
  /\ stampFailures' = stampFailures + 1
  /\ Finish(w, "failed")
  /\ UNCHANGED <<lockFile, alive, tries, base, config, committed>>

StaleByPid == LockPid \cap alive = {}

\* readFile + JSON.parse of the lock and the stale tests on its payload; a
\* file that is gone or has no payload is examined by its mtime instead.
InspectLock(w) ==
  /\ pc[w] = "inspect"
  /\ \/ /\ ~lockFile.written
        /\ Goto(w, "stat")
        /\ UNCHANGED <<tries, chain>>
     \/ /\ lockFile.written
        /\ StaleByPid \/ lockFile.aged
        /\ Goto(w, "unlink")
        /\ UNCHANGED <<tries, chain>>
     \/ /\ lockFile.written
        /\ ~(StaleByPid \/ lockFile.aged)
        /\ NextTurn(w)
  /\ UNCHANGED <<lockFile, alive, base, config, committed, stampFailures>>

\* Mutant of StatLock: takes every lock without a payload for stale.
StatLockAtOnce(w) ==
  /\ pc[w] = "stat"
  /\ Goto(w, "unlink")
  /\ UNCHANGED <<lockFile, alive, tries, chain, base, config, committed,
                 stampFailures>>

\* stat(lockPath): the mtime fallback for an unparseable lock.
StatLock(w) ==
  /\ pc[w] = "stat"
  /\ IF lockFile.aged
     THEN Goto(w, "unlink") /\ UNCHANGED <<tries, chain>>
     ELSE NextTurn(w)
  /\ UNCHANGED <<lockFile, alive, base, config, committed, stampFailures>>

\* unlink(lockPath) removes whatever is at the path by now, then `continue`.
UnlinkStale(w) ==
  /\ pc[w] = "unlink"
  /\ lockFile' = NoLock
  /\ NextTurn(w)
  /\ UNCHANGED <<alive, base, config, committed, stampFailures>>

\* mutate(): readProjectConfigFromDisk.
ReadConfig(w) ==
  /\ pc[w] = "read"
  /\ base' = [base EXCEPT ![w] = config]
  /\ Goto(w, "store")
  /\ UNCHANGED <<lockFile, alive, chain, tries, config, committed,
                 stampFailures>>

\* mutate(): writeProjectConfigToDisk, whose rename replaces the file.
StoreConfig(w) ==
  /\ pc[w] = "store"
  /\ config' = base[w] \cup {w}
  /\ committed' = committed \cup {w}
  /\ Goto(w, "readback")
  /\ UNCHANGED <<lockFile, alive, chain, tries, base, stampFailures>>

\* Mutant of SkipStore: the early return skips the release of the lock file.
SkipStoreAndRelease(w) ==
  /\ pc[w] = "store"
  /\ Finish(w, "done")
  /\ UNCHANGED <<lockFile, alive, tries, base, config, committed,
                 stampFailures>>

\* mutate() returns without a write or throws: no such task, predicate false.
SkipStore(w) ==
  /\ pc[w] = "store"
  /\ Goto(w, "readback")
  /\ UNCHANGED <<lockFile, alive, chain, tries, base, config, committed,
                 stampFailures>>

\* release(): does the lock file still carry this process's pid?
ReadBack(w) ==
  /\ pc[w] = "readback"
  /\ IF lockFile.written /\ ProcOf[w] \in LockPid
     THEN Goto(w, "remove") /\ UNCHANGED chain
     ELSE Finish(w, "done")
  /\ UNCHANGED <<lockFile, alive, tries, base, config, committed,
                 stampFailures>>

\* Mutant of RemoveLock: truncates the lock file instead of removing it.
TruncateLock(w) ==
  /\ pc[w] = "remove"
  /\ lockFile' = [lockFile EXCEPT !.by = {}]
  /\ Finish(w, "done")
  /\ UNCHANGED <<alive, tries, base, config, committed, stampFailures>>

\* release(): unlink(lockPath), whatever is at the path by now.
RemoveLock(w) ==
  /\ pc[w] = "remove"
  /\ lockFile' = NoLock
  /\ Finish(w, "done")
  /\ UNCHANGED <<alive, tries, base, config, committed, stampFailures>>
-----------------------------------------------------------------------------
\* A process dies at any point; its lock file and temporary files stay.
Crash(p) ==
  /\ p \in alive
  /\ Cardinality(Procs \ alive) < MaxCrashes
  /\ alive' = alive \ {p}
  /\ chain' = [chain EXCEPT ![p] = <<>>]
  /\ pc' = [w \in Writers |->
              IF ProcOf[w] = p /\ pc[w] \notin {"done", "failed"}
              THEN "dead" ELSE pc[w]]
  /\ UNCHANGED <<lockFile, tries, base, config, committed, stampFailures>>

\* PROJECT_FILE_LOCK_STALE_MS pass.  A holder takes milliseconds, so only an
\* abandoned lock grows old, unless holders may be suspended (SlowHolders).
Age ==
  /\ lockFile # NoLock
  /\ ~lockFile.aged
  /\ SlowHolders \/ \A w \in lockFile.by : pc[w] \notin Holding
  /\ lockFile' = [lockFile EXCEPT !.aged = TRUE]
  /\ UNCHANGED <<alive, chain, pc, tries, base, config, committed,
                 stampFailures>>

\* The steps a live process takes by itself once a request is made.
Step(w) ==
  \/ EnterAcquire(w) \/ OpenLock(w) \/ StampLock(w)
  \/ InspectLock(w) \/ StatLock(w) \/ UnlinkStale(w)
  \/ ReadConfig(w) \/ StoreConfig(w) \/ SkipStore(w)
  \/ ReadBack(w) \/ RemoveLock(w)

Next ==
  \/ \E w \in Writers : Request(w) \/ Step(w) \/ StampFails(w)
  \/ \E p \in Procs : Crash(p)
  \/ Age

Spec == Init /\ [][Next]_vars

\* Pending I/O of a live process completes and its continuation runs.
Fairness == \A w \in Writers : WF_vars(Step(w))

FairSpec == Spec /\ Fairness
-----------------------------------------------------------------------------
TypeOK ==
  /\ lockFile \in Lock \cup {NoLock}
  /\ alive \in SUBSET Procs
  /\ chain \in [Procs -> Seq(Writers)]
  /\ pc \in [Writers -> Phases]
  /\ tries \in [Writers -> Nat]
  /\ base \in [Writers -> SUBSET Writers]
  /\ config \in SUBSET Writers
  /\ committed \in SUBSET Writers
  /\ stampFailures \in Nat

(***************************************************************************)
(* At most one writer is between acquiring and releasing the lock: "the    *)
(* read-modify-write is serialized across processes, not only within one   *)
(* process".                                                               *)
(***************************************************************************)
MutualExclusion ==
  \A v, w \in Writers :
    pc[v] \in Critical /\ pc[w] \in Critical => v = w

(***************************************************************************)
(* No update that reached the disk is overwritten by a writer that had     *)
(* read the file before it.                                                *)
(***************************************************************************)
NoLostUpdate == committed \subseteq config

(***************************************************************************)
(* A request that has returned leaves no lock file of its own behind: the  *)
(* release (and the timeout, which never created a file) cleans up.        *)
(***************************************************************************)
LockNotLeaked ==
  \A w \in lockFile.by : pc[w] \notin {"done", "failed"}

(***************************************************************************)
(* "Only unlink if we still own the lock": a release never removes a lock  *)
(* file that another writer created.                                       *)
(***************************************************************************)
ReleaseRemovesOwnLock ==
  [][\A w \in Writers : RemoveLock(w) => lockFile.by \subseteq {w}]_vars

(***************************************************************************)
(* Every request settles: it writes, times out after 10 s, or dies with    *)
(* its process.  A timed-out or skipped writer frees the in-process chain  *)
(* and a lock left by a crash is recovered, so nobody waits forever.       *)
(***************************************************************************)
EveryRequestSettles ==
  \A w \in Writers : pc[w] = "queued" ~> pc[w] \in Settled

\* The refinement: a request takes effect when its rename happens.
storePhase ==
  [w \in Writers |->
     IF w \in committed THEN "applied"
     ELSE IF pc[w] \in Settled \cup Releasing THEN "dropped" ELSE "waiting"]

Store == INSTANCE ConfigStore WITH phase <- storePhase

(***************************************************************************)
(* The lock protocol implements atomic requests on the config file.        *)
(***************************************************************************)
RefinesStore == Store!Spec
=============================================================================
