------------------------ MODULE ScheduledTasks_proofs ------------------------
(***************************************************************************)
(* Proofs about the scheduled tasks runtime, for every set of processes,   *)
(* tasks and schedules, all limits and all budgets of the environment.     *)
(***************************************************************************)
EXTENDS ScheduledTasks, WellFoundedInduction, SequenceTheorems,
        FiniteSetTheorems, TLAPS

\* A run in progress carries the task it was started with.
RunsCarryTasks ==
  \A i \in Instances, t \in Tasks :
    run[i][t].pc # "idle" => run[i][t].task # NoTask

\* What a request in progress is about to use is there.
Ready(hd) ==
  /\ hd.payload # NoTask => hd.target \in Tasks
  /\ hd.pc = "patch" =>
       /\ hd.cur \in Tasks
       /\ \A t \in hd.todo : hd.snap[t] # NoTask
  /\ hd.pc \in {"save", "edit"} => hd.payload # NoTask
  /\ hd.pc = "remove" => hd.target \in Tasks

HandlersReady ==
  \A i \in Instances, h \in Handlers : Ready(handler[i][h])

TypeInv == TypeOK /\ RunsCarryTasks /\ HandlersReady
-----------------------------------------------------------------------------
(* The operators the runtime is built from.                                *)

\* Min picks the first startable queue entry and the next occurrence.
LEMMA MinOfNaturals ==
  ASSUME NEW S \in SUBSET Nat, S # {}
  PROVE  /\ Min(S) \in S
         /\ \A y \in S : Min(S) =< y
<1> DEFINE R == {ss \in Nat \X Nat : ss[1] < ss[2]}
<1>1. IsWellFoundedOn(R, Nat)
  BY NatLessThanWellFounded DEF OpToRel
<1>2. PICK x \in S : \A y \in S : ~ (<<y, x>> \in R)
  <2> HIDE DEF R
  <2> QED BY <1>1, WFMin
<1>3. ASSUME NEW y \in S, y < x
      PROVE  FALSE
  <2>1. <<y, x>> \in Nat \X Nat /\ <<y, x>>[1] < <<y, x>>[2]
    BY <1>3
  <2>2. <<y, x>> \in R
    BY <2>1, Zenon
  <2> QED BY <1>2, <2>2
<1>4. \A y \in S : x =< y
  BY <1>3
<1> QED
  BY <1>4 DEF Min

\* computeNextRunAt gives an occurrence to come, or none.
LEMMA NextRunType ==
  ASSUME NEW task \in TaskRec, NEW n \in Int
  PROVE  /\ NextRun(task, n) \in OptTime
         /\ NextRun(task, n) # NoTime =>
              /\ NextRun(task, n) \in Occ[task.sched]
              /\ NextRun(task, n) > n
<1> DEFINE S == Upcoming(task.sched, n)
<1>1. task.sched \in Schedules /\ Slack \in Nat
  BY ScheduledTasksAssumption DEF TaskRec
<1>2. S \in SUBSET Nat /\ S \subseteq Occ[task.sched] /\ \A o \in S : o > n
  BY <1>1, ScheduledTasksAssumption DEF Upcoming
<1>3. CASE NextRun(task, n) = NoTime
  BY <1>3 DEF OptTime
<1>4. CASE NextRun(task, n) = Min(S) /\ S # {}
  <2>1. Min(S) \in S
    <3> HIDE DEF S
    <3> QED BY <1>2, <1>4, MinOfNaturals
  <2> QED
    BY <1>2, <1>4, <2>1 DEF OptTime
<1> QED
  BY <1>3, <1>4 DEF NextRun

LEMMA ArmedType ==
  ASSUME NEW i \in Instances, NEW next \in OptTime
  PROVE  Armed(i, next) \in OptTime
  BY DEF Armed, OptTime

LEMMA RearmedType ==
  ASSUME TypeOK, NEW i \in Instances, NEW t \in Tasks,
         NEW latest \in TaskRec, NEW base \in Int
  PROVE  Rearmed(i, t, latest, base) \in OptTime
<1>1. latest.next \in OptTime /\ timer[i][t] \in OptTime
  BY DEF TypeOK, TaskRec
<1>2. NextRun(latest, base) \in OptTime
  BY NextRunType
<1> QED
  BY <1>1, <1>2, ArmedType DEF Rearmed, ArmedIfFuture

LEMMA LatestType ==
  ASSUME TypeInv, NEW i \in Instances, NEW t \in Tasks, run[i][t].pc # "idle"
  PROVE  Latest(i, t) \in TaskRec
  BY DEF Latest, TypeInv, TypeOK, RunsCarryTasks, RunRec, OptTask

\* Removing an entry from a queue keeps the others.
LEMMA RemoveAtType ==
  ASSUME NEW S, NEW q \in Seq(S), NEW k \in DOMAIN q
  PROVE  /\ RemoveAt(q, k) \in Seq(S)
         /\ \A j \in DOMAIN q : j # k =>
              \E m \in DOMAIN RemoveAt(q, k) : RemoveAt(q, k)[m] = q[j]
         /\ Len(RemoveAt(q, k)) = Len(q) - 1
<1>1. k \in 1 .. Len(q) /\ Len(q) \in Nat
  OBVIOUS
<1> DEFINE a == SubSeq(q, 1, k - 1)
           b == SubSeq(q, k + 1, Len(q))
<1>2. a \in Seq(S) /\ Len(a) = k - 1 /\ \A m \in 1 .. k - 1 : a[m] = q[m]
  BY <1>1, SubSeqProperties
<1>3. /\ b \in Seq(S)
      /\ Len(b) = Len(q) - k
      /\ \A m \in 1 .. Len(q) - k : b[m] = q[k + m]
  BY <1>1, SubSeqProperties
<1>4. RemoveAt(q, k) = a \o b
  BY DEF RemoveAt
<1> HIDE DEF a, b
<1>5. /\ a \o b \in Seq(S)
      /\ Len(a \o b) = Len(a) + Len(b)
      /\ \A m \in 1 .. Len(a) + Len(b) :
           (a \o b)[m] = IF m <= Len(a) THEN a[m] ELSE b[m - Len(a)]
  BY <1>2, <1>3, ConcatProperties
<1> DEFINE c == a \o b
<1>6. DOMAIN c = 1 .. Len(q) - 1
  BY <1>1, <1>2, <1>3, <1>5
<1> HIDE DEF c
<1>8. ASSUME NEW j \in DOMAIN q, j # k
      PROVE  \E m \in DOMAIN c : c[m] = q[j]
  <2>1. CASE j < k
    <3>1. j \in 1 .. Len(q) - 1 /\ j \in 1 .. k - 1
      BY <1>1, <2>1
    <3>2. c[j] = a[j]
      BY <1>2, <1>3, <1>5, <3>1 DEF c
    <3> QED BY <1>2, <1>6, <3>1, <3>2
  <2>2. CASE j > k
    <3>1. /\ j - 1 \in 1 .. Len(q) - 1
          /\ j - k \in 1 .. Len(q) - k
          /\ (j - 1) - (k - 1) = j - k
          /\ k + (j - k) = j
          /\ ~ (j - 1 <= k - 1)
      BY <1>1, <2>2
    <3>2. c[j - 1] = b[j - k]
      <4>1. /\ j - 1 \in 1 .. Len(a) + Len(b)
            /\ ~ (j - 1 <= Len(a))
            /\ (j - 1) - Len(a) = j - k
        BY <1>1, <1>2, <1>3, <3>1
      <4> QED BY <1>5, <4>1 DEF c
    <3>3. b[j - k] = q[j]
      BY <1>3, <3>1
    <3> QED BY <1>6, <3>1, <3>2, <3>3
  <2> QED BY <1>1, <1>8, <2>1, <2>2
<1>7. Len(a) + Len(b) = Len(q) - 1
  BY <1>1, <1>2, <1>3
<1> QED
  BY <1>4, <1>5, <1>7, <1>8 DEF c
-----------------------------------------------------------------------------
(* Updates of one run or one request.                                      *)

LEMMA RunUpdate ==
  ASSUME TypeInv, NEW i \in Instances, NEW t \in Tasks, NEW r \in RunRec,
         r.pc # "idle" => r.task # NoTask,
         run' = [run EXCEPT ![i][t] = r]
  PROVE  run' \in [Instances -> [Tasks -> RunRec]] /\ RunsCarryTasks'
<1>1. run \in [Instances -> [Tasks -> RunRec]] /\ RunsCarryTasks
  BY DEF TypeInv, TypeOK
<1> QED
  BY <1>1 DEF RunsCarryTasks

LEMMA HandlerUpdate ==
  ASSUME TypeInv, NEW i \in Instances, NEW h \in Handlers,
         NEW hd \in HandlerRec, Ready(hd), SetHandler(i, h, hd)
  PROVE  handler' \in [Instances -> [Handlers -> HandlerRec]] /\ HandlersReady'
<1>1. handler \in [Instances -> [Handlers -> HandlerRec]] /\ HandlersReady
  BY DEF TypeInv, TypeOK
<1> QED
  BY <1>1 DEF HandlersReady, SetHandler

LEMMA NoRunType == NoRun \in RunRec /\ NoRun.pc = "idle"
  BY DEF NoRun, RunRec, OptTime, NoTime, OptTask

LEMMA NoHandlerType == NoHandler \in HandlerRec /\ Ready(NoHandler)
  BY DEF NoHandler, HandlerRec, OptTime, NoTime, OptTask, Ready

LEMMA SyncingType ==
  ASSUME NEW ps \in SUBSET Projects
  PROVE  Syncing(ps) \in HandlerRec /\ Ready(Syncing(ps))
  BY DEF Syncing, NoHandler, HandlerRec, OptTime, NoTime, OptTask, Ready

LEMMA TypeInvInit == Init => TypeInv
  BY ScheduledTasksAssumption DEF Init, TypeInv, TypeOK, RunsCarryTasks,
     HandlersReady, Ready, NoRun, NoHandler, RunRec, HandlerRec, OptTime,
     NoTime, OptTask

\* A stored task, a task in memory, a timer is replaced by one of its type.
LEMMA DiskUpdate ==
  ASSUME TypeInv, NEW t \in Tasks, NEW d \in OptTask, SetDisk(t, d)
  PROVE  disk' \in [Tasks -> OptTask]
  BY DEF TypeInv, TypeOK, SetDisk

LEMMA MemUpdate ==
  ASSUME TypeInv, NEW i \in Instances, NEW t \in Tasks, NEW d \in OptTask,
         SetMem(i, t, d)
  PROVE  mem' \in [Instances -> [Tasks -> OptTask]]
  BY DEF TypeInv, TypeOK, SetMem

LEMMA TimerUpdate ==
  ASSUME TypeInv, NEW i \in Instances, NEW t \in Tasks, NEW at \in OptTime,
         SetTimer(i, t, at)
  PROVE  timer' \in [Instances -> [Tasks -> OptTime]]
  BY DEF TypeInv, TypeOK, SetTimer

LEMMA EndRunUpdate ==
  ASSUME TypeInv, NEW i \in Instances, NEW t \in Tasks, EndRun(i, t)
  PROVE  /\ run' \in [Instances -> [Tasks -> RunRec]] /\ RunsCarryTasks'
         /\ running' \in [Instances -> SUBSET Tasks]
         /\ pumping' \in SUBSET Instances
<1>1. run' \in [Instances -> [Tasks -> RunRec]] /\ RunsCarryTasks'
  BY NoRunType, RunUpdate DEF EndRun
<1>2. running' \in [Instances -> SUBSET Tasks] /\ pumping' \in SUBSET Instances
  BY DEF EndRun, TypeInv, TypeOK
<1> QED
  BY <1>1, <1>2

LEMMA TakeSlotUpdate ==
  ASSUME TypeInv, NEW i \in Instances, NEW t \in Tasks, Admitted(i, t),
         NEW manual \in BOOLEAN, NEW sf \in OptTime, TakeSlot(i, t, manual, sf)
  PROVE  /\ run' \in [Instances -> [Tasks -> RunRec]] /\ RunsCarryTasks'
         /\ running' \in [Instances -> SUBSET Tasks]
<1>1. mem[i][t] \in TaskRec /\ now \in Nat /\ mem[i][t] # NoTask
  BY DEF TypeInv, TypeOK, Admitted, OptTask
<1>2. NextRun(mem[i][t], now) \in OptTime
  BY <1>1, NextRunType
<1> DEFINE r == [pc |-> IF manual THEN "begin" ELSE "claim", manual |-> manual,
                 sf |-> sf, from |-> now,
                 next |-> IF manual THEN NoTime ELSE NextRun(mem[i][t], now),
                 task |-> mem[i][t], ok |-> FALSE]
<1>3. r \in RunRec /\ r.task # NoTask
  BY <1>1, <1>2 DEF RunRec, OptTask, OptTime, NoTime
<1>4. run' = [run EXCEPT ![i][t] = r]
  BY DEF TakeSlot
<1> HIDE DEF r
<1>5. run' \in [Instances -> [Tasks -> RunRec]] /\ RunsCarryTasks'
  BY <1>3, <1>4, RunUpdate
<1>6. running' \in [Instances -> SUBSET Tasks]
  BY DEF TakeSlot, TypeInv, TypeOK
<1> QED
  BY <1>5, <1>6

\* A run goes on at another point, with the rest of its record of its type.
LEMMA GoOnUpdate ==
  ASSUME TypeInv, NEW i \in Instances, NEW t \in Tasks,
         run[i][t].pc # "idle",
         \/ ToBody(i, t)
         \/ GoOn(i, t, "claimfailed")
         \/ GoOn(i, t, "retry")
  PROVE  run' \in [Instances -> [Tasks -> RunRec]] /\ RunsCarryTasks'
<1>1. run[i][t] \in RunRec /\ run[i][t].task # NoTask
      /\ run \in [Instances -> [Tasks -> RunRec]]
  BY DEF TypeInv, TypeOK, RunsCarryTasks
<1>2. CASE ToBody(i, t)
  <2> DEFINE r == [run[i][t] EXCEPT !.pc = "body", !.from = NoTime, !.next = NoTime]
  <2>1. r \in RunRec /\ r.task # NoTask
    BY <1>1 DEF RunRec, OptTime, NoTime
  <2>2. run' = [run EXCEPT ![i][t] = r]
    BY <1>2 DEF ToBody
  <2> HIDE DEF r
  <2> QED BY <2>1, <2>2, RunUpdate
<1>3. ASSUME NEW label \in {"claimfailed", "retry"}, GoOn(i, t, label)
      PROVE  run' \in [Instances -> [Tasks -> RunRec]] /\ RunsCarryTasks'
  <2> DEFINE r == [run[i][t] EXCEPT !.pc = label]
  <2>1. r \in RunRec /\ r.task # NoTask
    BY <1>1 DEF RunRec
  <2>2. run' = [run EXCEPT ![i][t] = r]
    BY <1>1, <1>3 DEF GoOn
  <2> HIDE DEF r
  <2> QED BY <2>1, <2>2, RunUpdate
<1> QED
  BY <1>2, <1>3

LEMMA SyncUpdate ==
  ASSUME TypeInv, NEW i \in Instances, NEW h \in Handlers,
         NEW hd \in HandlerRec, NEW todo \in SUBSET Tasks,
         hd.payload # NoTask => hd.target \in Tasks,
         \A t \in todo : hd.snap[t] # NoTask,
         GoOnSyncing(i, h, hd, todo)
  PROVE  handler' \in [Instances -> [Handlers -> HandlerRec]] /\ HandlersReady'
<1>1. CASE \E t \in todo :
             SetHandler(i, h, [hd EXCEPT !.pc = "patch", !.cur = t,
                                 !.todo = todo \ {t},
                                 !.next = NextRun(hd.snap[t], now)])
  <2>1. PICK t \in todo :
             SetHandler(i, h, [hd EXCEPT !.pc = "patch", !.cur = t,
                                 !.todo = todo \ {t},
                                 !.next = NextRun(hd.snap[t], now)])
    BY <1>1
  <2>2. hd.snap[t] \in TaskRec /\ now \in Nat
    BY DEF HandlerRec, OptTask, TypeInv, TypeOK
  <2>3. NextRun(hd.snap[t], now) \in OptTime
    BY <2>2, NextRunType
  <2> DEFINE new == [hd EXCEPT !.pc = "patch", !.cur = t, !.todo = todo \ {t},
                               !.next = NextRun(hd.snap[t], now)]
  <2>4. new \in HandlerRec
    BY <2>3 DEF HandlerRec
  <2>5. Ready(new)
    BY <2>4 DEF Ready, HandlerRec
  <2> HIDE DEF new
  <2> QED BY <2>1, <2>4, <2>5, HandlerUpdate DEF new
<1>2. CASE SetHandler(i, h, Syncing(hd.projs))
  <2>1. hd.projs \in SUBSET Projects
    BY DEF HandlerRec
  <2> QED BY <1>2, <2>1, SyncingType, HandlerUpdate
<1>3. CASE /\ hd.payload # NoTask
           /\ SetHandler(i, h, [NoHandler EXCEPT !.pc = "edit", !.target = hd.target,
                                                !.payload = hd.payload])
  <2> DEFINE new == [NoHandler EXCEPT !.pc = "edit", !.target = hd.target,
                                      !.payload = hd.payload]
  <2>1. new \in HandlerRec /\ Ready(new)
    BY <1>3, NoHandlerType DEF HandlerRec, Ready
  <2> HIDE DEF new
  <2> QED BY <1>3, <2>1, HandlerUpdate DEF new
<1>4. CASE SetHandler(i, h, NoHandler)
  BY <1>4, NoHandlerType, HandlerUpdate
<1> QED
  BY <1>1, <1>2, <1>3, <1>4 DEF GoOnSyncing
\* What a step leaves alone keeps its type.
LEMMA Unchanged ==
  ASSUME TypeInv
  PROVE  /\ run' = run =>
              run' \in [Instances -> [Tasks -> RunRec]] /\ RunsCarryTasks'
         /\ handler' = handler =>
              handler' \in [Instances -> [Handlers -> HandlerRec]] /\ HandlersReady'
<1>1. run' = run => RunsCarryTasks'
  BY DEF TypeInv, RunsCarryTasks
<1>2. handler' = handler => HandlersReady'
  BY DEF TypeInv, HandlersReady
<1>3. /\ run \in [Instances -> [Tasks -> RunRec]]
      /\ handler \in [Instances -> [Handlers -> HandlerRec]]
  BY DEF TypeInv, TypeOK
<1> QED
  BY <1>1, <1>2, <1>3

LEMMA HappensType ==
  ASSUME TypeInv, NEW e \in Events, Happens(e)
  PROVE  used' \in [Events -> Nat]
<1>1. used \in [Events -> Nat]
  BY DEF TypeInv, TypeOK
<1> HIDE DEF Events
<1> QED
  BY <1>1 DEF Happens
-----------------------------------------------------------------------------
(* The type invariant, one lemma per group of actions.                     *)

LEMMA ClockStepType ==
  ASSUME TypeInv, NEW i \in Instances,
         \/ \E t \in Tasks : TimerFires(i, t)
         \/ PumpEnds(i) \/ Stop(i) \/ Crash(i)
  PROVE  TypeInv'
<1>1. ASSUME NEW t \in Tasks, TimerFires(i, t)
      PROVE  TypeInv'
  <2>1. timer' \in [Instances -> [Tasks -> OptTime]]
    BY <1>1, TimerUpdate DEF TimerFires, OptTime
  <2>2. [task |-> t, sf |-> timer[i][t]] \in [task : Tasks, sf : Nat]
    BY <1>1 DEF TimerFires, TypeInv, TypeOK, OptTime
  <2>3. queue' \in [Instances -> Seq([task : Tasks, sf : Nat])]
    <3>1. queue \in [Instances -> Seq([task : Tasks, sf : Nat])]
      BY DEF TypeInv, TypeOK
    <3>2. \/ queue' = queue
          \/ queue' = [queue EXCEPT ![i] = Append(@, [task |-> t, sf |-> timer[i][t]])]
      BY <1>1 DEF TimerFires
    <3>3. Append(queue[i], [task |-> t, sf |-> timer[i][t]])
            \in Seq([task : Tasks, sf : Nat])
      BY <2>2, <3>1, AppendProperties
    <3> QED BY <3>1, <3>2, <3>3
  <2>4. queuedKeys' \in [Instances -> SUBSET Tasks] /\ pumping' \in SUBSET Instances
    <3>1. queuedKeys \in [Instances -> SUBSET Tasks] /\ pumping \in SUBSET Instances
      BY DEF TypeInv, TypeOK
    <3>2. queuedKeys' = queuedKeys \/ queuedKeys' = [queuedKeys EXCEPT ![i] = @ \cup {t}]
      BY <1>1 DEF TimerFires
    <3>3. pumping' = pumping \/ pumping' = {i}
      BY <1>1 DEF TimerFires
    <3> QED BY <3>1, <3>2, <3>3
  <2> QED
    BY <1>1, <2>1, <2>3, <2>4, Unchanged DEF TimerFires, TypeInv, TypeOK
<1>2. CASE PumpEnds(i)
  BY <1>2, Unchanged DEF PumpEnds, TypeInv, TypeOK
<1>3. CASE Stop(i)
  <2>1. used' \in [Events -> Nat]
    BY <1>3, HappensType DEF Stop, Events
  <2>2. timer' \in [Instances -> [Tasks -> OptTime]]
    BY <1>3 DEF Stop, TypeInv, TypeOK, OptTime, NoTime
  <2>3. queue' \in [Instances -> Seq([task : Tasks, sf : Nat])]
    <3>1. queue \in [Instances -> Seq([task : Tasks, sf : Nat])]
      BY DEF TypeInv, TypeOK
    <3>2. queue' = [queue EXCEPT ![i] = <<>>]
      BY <1>3 DEF Stop
    <3>3. <<>> \in Seq([task : Tasks, sf : Nat])
      OBVIOUS
    <3> QED BY <3>1, <3>2, <3>3
  <2>4. /\ phase' \in [Instances -> {"down", "started", "stopped"}]
        /\ queuedKeys' \in [Instances -> SUBSET Tasks]
    BY <1>3 DEF Stop, TypeInv, TypeOK
  <2> QED
    BY <1>3, <2>1, <2>2, <2>3, <2>4, Unchanged DEF Stop, TypeInv, TypeOK
<1>4. CASE Crash(i)
  <2>1. used' \in [Events -> Nat]
    BY <1>4, HappensType DEF Crash, Events
  <2>2. timer' \in [Instances -> [Tasks -> OptTime]]
    BY <1>4 DEF Crash, TypeInv, TypeOK, OptTime, NoTime
  <2>3. queue' \in [Instances -> Seq([task : Tasks, sf : Nat])]
    <3>1. queue \in [Instances -> Seq([task : Tasks, sf : Nat])]
      BY DEF TypeInv, TypeOK
    <3>2. queue' = [queue EXCEPT ![i] = <<>>]
      BY <1>4 DEF Crash
    <3>3. <<>> \in Seq([task : Tasks, sf : Nat])
      OBVIOUS
    <3> QED BY <3>1, <3>2, <3>3
  <2>4. /\ phase' \in [Instances -> {"down", "started", "stopped"}]
        /\ queuedKeys' \in [Instances -> SUBSET Tasks]
        /\ running' \in [Instances -> SUBSET Tasks]
    BY <1>4 DEF Crash, TypeInv, TypeOK
  <2>5. mem' \in [Instances -> [Tasks -> OptTask]]
    BY <1>4 DEF Crash, TypeInv, TypeOK, OptTask
  <2>6. run' \in [Instances -> [Tasks -> RunRec]] /\ RunsCarryTasks'
    BY <1>4, NoRunType DEF Crash, TypeInv, TypeOK, RunsCarryTasks
  <2>7. handler' \in [Instances -> [Handlers -> HandlerRec]] /\ HandlersReady'
    BY <1>4, NoHandlerType DEF Crash, TypeInv, TypeOK, HandlersReady
  <2> QED
    BY <1>4, <2>1, <2>2, <2>3, <2>4, <2>5, <2>6, <2>7 DEF Crash, TypeInv, TypeOK
<1> QED
  BY <1>1, <1>2, <1>3, <1>4

\* The entry the pump starts is in the queue.
LEMMA StartableEntry ==
  ASSUME TypeOK, NEW i \in Instances, Startable(i) # {}
  PROVE  /\ Min(Startable(i)) \in Startable(i)
         /\ Min(Startable(i)) \in DOMAIN queue[i]
         /\ queue[i][Min(Startable(i))] \in [task : Tasks, sf : Nat]
<1>1. queue[i] \in Seq([task : Tasks, sf : Nat])
  BY DEF TypeOK
<1>2. Startable(i) \in SUBSET Nat /\ Startable(i) \subseteq DOMAIN queue[i]
  BY <1>1 DEF Startable
<1>3. Min(Startable(i)) \in Startable(i)
  BY <1>2, MinOfNaturals
<1> DEFINE k == Min(Startable(i))
<1>4. k \in DOMAIN queue[i]
  BY <1>2, <1>3
<1> HIDE DEF k
<1>5. queue[i][k] \in [task : Tasks, sf : Nat]
  <2> DEFINE S == [task : Tasks, sf : Nat]
  <2>1. queue[i] \in Seq(S)
    BY <1>1
  <2> HIDE DEF S
  <2>2. k \in 1 .. Len(queue[i])
    BY <1>4, <2>1
  <2>3. queue[i][k] \in S
    BY <2>1, <2>2, ElementOfSeq
  <2> QED BY <2>3 DEF S
<1> QED
  BY <1>3, <1>4, <1>5 DEF k

LEMMA PumpStepType ==
  ASSUME TypeInv, NEW i \in Instances,
         PumpStarts(i) \/ \E t \in Tasks : RunNow(i, t)
  PROVE  TypeInv'
<1>1. CASE PumpStarts(i)
  <2> DEFINE k == Min(Startable(i))
             u == queue[i][k].task
  <2>1. /\ k \in DOMAIN queue[i]
        /\ queue[i] \in Seq([task : Tasks, sf : Nat])
        /\ u \in Tasks
        /\ queue[i][k].sf \in OptTime
    BY <1>1, StartableEntry DEF PumpStarts, TypeInv, TypeOK, OptTime
  <2>2. /\ queue' = [queue EXCEPT ![i] = RemoveAt(@, k)]
        /\ queuedKeys' = [queuedKeys EXCEPT ![i] = @ \ {u}]
        /\ IF Admitted(i, u)
           THEN TakeSlot(i, u, FALSE, queue[i][k].sf)
           ELSE UNCHANGED <<running, run>>
        /\ UNCHANGED <<now, disk, phase, mem, timer, pumping, handler, claims, used>>
    BY <1>1 DEF PumpStarts
  <2> HIDE DEF k, u
  <2>3. queue' \in [Instances -> Seq([task : Tasks, sf : Nat])]
    BY <2>1, <2>2, RemoveAtType DEF TypeInv, TypeOK
  <2>4. queuedKeys' \in [Instances -> SUBSET Tasks]
    BY <2>2 DEF TypeInv, TypeOK
  <2>5. /\ run' \in [Instances -> [Tasks -> RunRec]] /\ RunsCarryTasks'
        /\ running' \in [Instances -> SUBSET Tasks]
    BY <2>1, <2>2, TakeSlotUpdate DEF TypeInv, TypeOK, RunsCarryTasks
  <2> QED
    BY <2>2, <2>3, <2>4, <2>5, Unchanged DEF TypeInv, TypeOK
<1>2. ASSUME NEW t \in Tasks, RunNow(i, t)
      PROVE  TypeInv'
  <2>1. /\ run' \in [Instances -> [Tasks -> RunRec]] /\ RunsCarryTasks'
        /\ running' \in [Instances -> SUBSET Tasks]
    BY <1>2, TakeSlotUpdate DEF RunNow, OptTime
  <2>2. used' \in [Events -> Nat]
    BY <1>2, HappensType DEF RunNow, Events
  <2> QED
    BY <1>2, <2>1, <2>2, Unchanged DEF RunNow, TypeInv, TypeOK
<1> QED
  BY <1>1, <1>2

\* A task record with other runtime state is a task record.
LEMMA TaskParts ==
  ASSUME NEW task \in TaskRec
  PROVE  /\ task \in OptTask
         /\ \A b \in BOOLEAN : [task EXCEPT !.enabled = b] \in TaskRec
         /\ \A s \in Schedules : [task EXCEPT !.sched = s] \in TaskRec
         /\ \A x \in Statuses : [task EXCEPT !.status = x] \in TaskRec
         /\ \A n \in OptTime : [task EXCEPT !.next = n] \in TaskRec
         /\ \A x \in Statuses, n \in OptTime :
              [task EXCEPT !.status = x, !.next = n] \in TaskRec
         /\ \A x \in Statuses, n, sf \in OptTime :
              [task EXCEPT !.lastFor = sf, !.next = n, !.status = x] \in TaskRec
  BY DEF TaskRec, OptTask

\* The task on disk and the times a run carries.
LEMMA RunParts ==
  ASSUME TypeInv, NEW i \in Instances, NEW t \in Tasks
  PROVE  /\ disk[t] # NoTask => disk[t] \in TaskRec
         /\ timer[i][t] \in OptTime
         /\ run[i][t] \in RunRec
         /\ run[i][t].sf \in OptTime
         /\ run[i][t].from \in Int
         /\ run[i][t].next \in OptTime
         /\ run[i][t].pc # "idle" => run[i][t].task \in TaskRec
         /\ now \in Nat
         /\ disk \in [Tasks -> OptTask]
<1>1. /\ disk \in [Tasks -> OptTask] /\ now \in Nat
      /\ timer[i][t] \in OptTime /\ run[i][t] \in RunRec
  BY DEF TypeInv, TypeOK
<1>2. run[i][t].pc # "idle" => run[i][t].task # NoTask
  BY DEF TypeInv, RunsCarryTasks
<1> QED
  BY <1>1, <1>2 DEF RunRec, OptTask, OptTime, NoTime

LEMMA ClaimStepType ==
  ASSUME TypeInv, NEW i \in Instances, NEW t \in Tasks,
         \/ ClaimWins(i, t) \/ ClaimLost(i, t) \/ TaskGone(i, t)
         \/ ClaimErrs(i, t) \/ RecordClaimFailure(i, t)
  PROVE  TypeInv'
<1>0. "error" \in Statuses /\ "running" \in Statuses
  BY DEF Statuses
<1>1. CASE ClaimWins(i, t)
  <2> DEFINE claimed == [disk[t] EXCEPT !.lastFor = run[i][t].sf,
                           !.next = run[i][t].next, !.status = "running"]
  <2>1. claimed \in OptTask
    <3>1. disk[t] \in TaskRec /\ run[i][t].sf \in OptTime /\ run[i][t].next \in OptTime
      BY <1>1, RunParts DEF ClaimWins
    <3> QED BY <1>0, <3>1, TaskParts
  <2>2. SetDisk(t, claimed) /\ SetMem(i, t, claimed)
    BY <1>1 DEF ClaimWins
  <2> HIDE DEF claimed
  <2>3. disk' \in [Tasks -> OptTask] /\ mem' \in [Instances -> [Tasks -> OptTask]]
    BY <2>1, <2>2, DiskUpdate, MemUpdate
  <2>4. run' \in [Instances -> [Tasks -> RunRec]] /\ RunsCarryTasks'
    BY <1>1, GoOnUpdate DEF ClaimWins, In
  <2>5. claims' \in [Tasks -> [AllOcc -> Nat]]
    <3>1. claims \in [Tasks -> [AllOcc -> Nat]]
      BY DEF TypeInv, TypeOK
    <3>2. claims' = [claims EXCEPT ![t][run[i][t].sf] = @ + 1]
      BY <1>1 DEF ClaimWins
    <3> DEFINE o == run[i][t].sf
               c == [claims[t] EXCEPT ![o] = claims[t][o] + 1]
    <3>3. c \in [AllOcc -> Nat]
      <4>1. claims[t] \in [AllOcc -> Nat]
        BY <3>1
      <4>2. c = [y \in AllOcc |-> IF y = o THEN claims[t][y] + 1 ELSE claims[t][y]]
        BY <4>1
      <4> HIDE DEF c, o
      <4>3. \A y \in AllOcc :
              (IF y = o THEN claims[t][y] + 1 ELSE claims[t][y]) \in Nat
        BY <4>1
      <4> QED BY <4>2, <4>3
    <3>4. claims' = [claims EXCEPT ![t] = c]
      BY <3>1, <3>2
    <3> HIDE DEF c
    <3> QED BY <3>1, <3>3, <3>4
  <2> QED
    BY <1>1, <2>3, <2>4, <2>5, Unchanged DEF ClaimWins, TypeInv, TypeOK
<1>2. CASE ClaimLost(i, t)
  <2>1. disk[t] \in TaskRec /\ now \in Int /\ disk[t] \in OptTask
    <3>1. disk[t] \in TaskRec /\ now \in Int
      BY <1>2, RunParts DEF ClaimLost
    <3> QED BY <3>1, TaskParts
  <2>2. timer' \in [Instances -> [Tasks -> OptTime]]
    BY <1>2, <2>1, RearmedType, TimerUpdate DEF ClaimLost, TypeInv
  <2>3. mem' \in [Instances -> [Tasks -> OptTask]]
    BY <1>2, <2>1, MemUpdate DEF ClaimLost
  <2> QED
    BY <1>2, <2>2, <2>3, EndRunUpdate, Unchanged DEF ClaimLost, TypeInv, TypeOK
<1>3. CASE TaskGone(i, t)
  BY <1>3, EndRunUpdate, Unchanged DEF TaskGone, TypeInv, TypeOK
<1>4. CASE ClaimErrs(i, t)
  <2>1. Latest(i, t) \in TaskRec /\ run[i][t].from \in Int
    BY <1>4, LatestType, RunParts DEF ClaimErrs, In
  <2>2. timer' \in [Instances -> [Tasks -> OptTime]]
    BY <1>4, <2>1, RearmedType, TimerUpdate DEF ClaimErrs, TypeInv
  <2>3. run' \in [Instances -> [Tasks -> RunRec]] /\ RunsCarryTasks'
    BY <1>4, GoOnUpdate DEF ClaimErrs, In
  <2>4. used' \in [Events -> Nat]
    BY <1>4, HappensType DEF ClaimErrs, Events
  <2> QED
    BY <1>4, <2>2, <2>3, <2>4, Unchanged DEF ClaimErrs, TypeInv, TypeOK
<1>5. CASE RecordClaimFailure(i, t)
  <2>1. ASSUME disk[t] # NoTask,
               NEW recorded,
               recorded = IF AlreadyClaimed(disk[t], run[i][t].sf) THEN disk[t]
                          ELSE [disk[t] EXCEPT !.status = "error"],
               SetDisk(t, recorded), SetMem(i, t, recorded)
        PROVE  disk' \in [Tasks -> OptTask] /\ mem' \in [Instances -> [Tasks -> OptTask]]
    <3>1. recorded \in OptTask
      BY <1>0, <2>1, RunParts, TaskParts
    <3> QED BY <2>1, <3>1, DiskUpdate, MemUpdate
  <2>2. ASSUME SetMem(i, t, [run[i][t].task EXCEPT !.status = "error"])
        PROVE  mem' \in [Instances -> [Tasks -> OptTask]]
    <3>1. run[i][t].task \in TaskRec
      BY <1>5, RunParts DEF RecordClaimFailure, In
    <3>2. [run[i][t].task EXCEPT !.status = "error"] \in OptTask
      BY <1>0, <3>1, TaskParts
    <3> QED BY <2>2, <3>2, MemUpdate
  <2>3. disk' \in [Tasks -> OptTask] /\ mem' \in [Instances -> [Tasks -> OptTask]]
    BY <1>5, <2>1, <2>2, RunParts DEF RecordClaimFailure
  <2>4. used' \in [Events -> Nat]
    BY <1>5, HappensType DEF RecordClaimFailure, Events, TypeInv, TypeOK
  <2> QED
    BY <1>5, <2>3, <2>4, EndRunUpdate, Unchanged DEF RecordClaimFailure, TypeInv, TypeOK
<1> QED
  BY <1>1, <1>2, <1>3, <1>4, <1>5

LEMMA CompletedType ==
  ASSUME TypeInv, NEW i \in Instances, NEW t \in Tasks, NEW task \in TaskRec
  PROVE  Completed(i, t, task) \in TaskRec
<1>1. run[i][t].next \in OptTime
  BY RunParts
<1> QED
  BY <1>1, TaskParts DEF Completed, Statuses

LEMMA CompleteType ==
  ASSUME TypeInv, NEW i \in Instances, NEW t \in Tasks, Complete(i, t)
  PROVE  TypeInv'
<1>1. CASE disk[t] = NoTask
  BY <1>1, EndRunUpdate, Unchanged DEF Complete, TypeInv, TypeOK
<1>2. CASE disk[t] # NoTask
  <2> DEFINE done == Completed(i, t, disk[t])
             at == IF done.enabled
                   THEN ArmedIfFuture(i, t, done.next, run[i][t].from)
                   ELSE timer[i][t]
  <2>1. done \in TaskRec /\ done \in OptTask
    BY <1>2, RunParts, CompletedType DEF OptTask
  <2>2. SetDisk(t, done) /\ SetMem(i, t, done) /\ SetTimer(i, t, at)
    BY <1>2 DEF Complete
  <2>3. at \in OptTime
    <3>1. done.next \in OptTime /\ timer[i][t] \in OptTime
      BY <2>1, RunParts DEF TaskRec
    <3> HIDE DEF done
    <3> QED BY <3>1, ArmedType DEF ArmedIfFuture
  <2> HIDE DEF done, at
  <2>4. /\ disk' \in [Tasks -> OptTask]
        /\ mem' \in [Instances -> [Tasks -> OptTask]]
        /\ timer' \in [Instances -> [Tasks -> OptTime]]
    BY <2>1, <2>2, <2>3, DiskUpdate, MemUpdate, TimerUpdate
  <2> QED
    BY <2>4, EndRunUpdate, Unchanged DEF Complete, TypeInv, TypeOK
<1> QED
  BY <1>1, <1>2

LEMMA BodyStepType ==
  ASSUME TypeInv, NEW i \in Instances, NEW t \in Tasks,
         \/ BeginManual(i, t) \/ BeginManualErrs(i, t)
         \/ (\E ok \in BOOLEAN : BodyEnds(i, t, ok))
         \/ Consume(i, t) \/ CompleteErrs(i, t) \/ RetryErrs(i, t)
  PROVE  TypeInv'
<1>1. CASE BeginManual(i, t)
  <2>1. disk' \in [Tasks -> OptTask] /\ mem' \in [Instances -> [Tasks -> OptTask]]
    <3>1. CASE disk[t] = NoTask
      BY <1>1, <3>1 DEF BeginManual, TypeInv, TypeOK
    <3>2. CASE disk[t] # NoTask
      <4> DEFINE begun == [disk[t] EXCEPT !.status = "running"]
      <4>1. disk[t] \in TaskRec
        BY <3>2, RunParts
      <4>2. begun \in OptTask
        BY <4>1, TaskParts DEF Statuses
      <4>3. SetDisk(t, begun) /\ SetMem(i, t, begun)
        BY <1>1, <3>2 DEF BeginManual
      <4> HIDE DEF begun
      <4> QED BY <4>2, <4>3, DiskUpdate, MemUpdate
    <3> QED BY <3>1, <3>2
  <2>2. run' \in [Instances -> [Tasks -> RunRec]] /\ RunsCarryTasks'
    BY <1>1, GoOnUpdate DEF BeginManual, In
  <2> QED
    BY <1>1, <2>1, <2>2, Unchanged DEF BeginManual, TypeInv, TypeOK
<1>2. CASE BeginManualErrs(i, t)
  <2>1. used' \in [Events -> Nat]
    BY <1>2, HappensType DEF BeginManualErrs, Events
  <2> QED
    BY <1>2, <2>1, EndRunUpdate, Unchanged DEF BeginManualErrs, TypeInv, TypeOK
<1>3. ASSUME NEW ok \in BOOLEAN, BodyEnds(i, t, ok)
      PROVE  TypeInv'
  <2> DEFINE latest  == Latest(i, t)
             consume == /\ Kind[latest.sched] = "once"
                        /\ ~run[i][t].manual
                        /\ latest.enabled
             r == [run[i][t] EXCEPT !.pc = IF consume THEN "consume" ELSE "complete",
                     !.ok = ok, !.from = now, !.task = latest,
                     !.next = IF consume THEN NoTime ELSE NextRun(latest, now)]
  <2>1. latest \in TaskRec /\ now \in Nat /\ run[i][t] \in RunRec
    BY <1>3, LatestType, RunParts DEF BodyEnds, In
  <2>2. NextRun(latest, now) \in OptTime
    BY <2>1, NextRunType
  <2>3. latest # NoTask
    BY <2>1, ScheduledTasksAssumption
  <2>4. run' = [run EXCEPT ![i][t] = r]
    BY <1>3 DEF BodyEnds
  <2> HIDE DEF latest, consume
  <2>5. r \in RunRec /\ r.task # NoTask
    BY <2>1, <2>2, <2>3 DEF RunRec, OptTask, OptTime, NoTime
  <2> HIDE DEF r
  <2>6. run' \in [Instances -> [Tasks -> RunRec]] /\ RunsCarryTasks'
    BY <2>4, <2>5, RunUpdate
  <2> QED
    BY <1>3, <2>6, Unchanged DEF BodyEnds, TypeInv, TypeOK
<1>4. CASE Consume(i, t)
  <2> DEFINE latest   == run[i][t].task
             consumed == [latest EXCEPT !.enabled = FALSE]
             r == [run[i][t] EXCEPT !.pc = "complete", !.task = consumed]
             f == [run[i][t] EXCEPT !.pc = "complete",
                                    !.next = NextRun(latest, run[i][t].from)]
  <2>1. latest \in TaskRec /\ run[i][t] \in RunRec /\ run[i][t].from \in Int
    BY <1>4, RunParts DEF Consume, In
  <2>2. consumed \in TaskRec /\ consumed \in OptTask /\ consumed # NoTask
    <3> HIDE DEF latest
    <3> QED BY <2>1, TaskParts, ScheduledTasksAssumption DEF OptTask
  <2>3. NextRun(latest, run[i][t].from) \in OptTime
    BY <2>1, NextRunType
  <2>4. latest # NoTask
    BY <2>1, ScheduledTasksAssumption
  <2>5. CASE /\ SetDisk(t, consumed) /\ SetMem(i, t, consumed)
             /\ run' = [run EXCEPT ![i][t] = r]
             /\ UNCHANGED used
    <3> HIDE DEF consumed
    <3>1. r \in RunRec /\ r.task # NoTask
      BY <2>1, <2>2 DEF RunRec
    <3>2. run' \in [Instances -> [Tasks -> RunRec]] /\ RunsCarryTasks'
      <4> HIDE DEF r
      <4> QED BY <2>5, <3>1, RunUpdate
    <3>3. disk' \in [Tasks -> OptTask] /\ mem' \in [Instances -> [Tasks -> OptTask]]
      BY <2>2, <2>5, DiskUpdate, MemUpdate
    <3> QED
      BY <1>4, <2>5, <3>2, <3>3, Unchanged DEF Consume, TypeInv, TypeOK
  <2>6. CASE /\ Happens("faults")
             /\ run' = [run EXCEPT ![i][t] = f]
             /\ UNCHANGED <<disk, mem>>
    <3>1. f \in RunRec /\ f.task # NoTask
      BY <2>1, <2>3, <2>4 DEF RunRec
    <3>2. run' \in [Instances -> [Tasks -> RunRec]] /\ RunsCarryTasks'
      <4> HIDE DEF f
      <4> QED BY <2>6, <3>1, RunUpdate
    <3>3. used' \in [Events -> Nat]
      BY <2>6, HappensType DEF Events
    <3> QED
      BY <1>4, <2>6, <3>2, <3>3, Unchanged DEF Consume, TypeInv, TypeOK
  <2> QED
    BY <1>4, <2>5, <2>6 DEF Consume
<1>5. CASE CompleteErrs(i, t)
  <2>1. run[i][t].task \in TaskRec
    BY <1>5, RunParts DEF CompleteErrs, In
  <2>2. Completed(i, t, run[i][t].task) \in OptTask
    BY <2>1, CompletedType DEF OptTask
  <2>3. mem' \in [Instances -> [Tasks -> OptTask]]
    BY <1>5, <2>2, MemUpdate DEF CompleteErrs
  <2>4. run' \in [Instances -> [Tasks -> RunRec]] /\ RunsCarryTasks'
    BY <1>5, GoOnUpdate DEF CompleteErrs, In
  <2>5. used' \in [Events -> Nat]
    BY <1>5, HappensType DEF CompleteErrs, Events
  <2> QED
    BY <1>5, <2>3, <2>4, <2>5, Unchanged DEF CompleteErrs, TypeInv, TypeOK
<1>6. CASE RetryErrs(i, t)
  <2>1. Recovered(i, t) \in TaskRec /\ run[i][t].from \in Int
    BY <1>6, LatestType, RunParts, CompletedType
    DEF RetryErrs, In, Recovered, Latest, TypeInv, RunsCarryTasks, RunRec, OptTask
  <2>2. timer' \in [Instances -> [Tasks -> OptTime]]
    BY <1>6, <2>1, RearmedType, TimerUpdate DEF RetryErrs, TypeInv
  <2>3. used' \in [Events -> Nat]
    BY <1>6, HappensType DEF RetryErrs, Events
  <2> QED
    BY <1>6, <2>2, <2>3, EndRunUpdate, Unchanged DEF RetryErrs, TypeInv, TypeOK
<1> QED
  BY <1>1, <1>2, <1>3, <1>4, <1>5, <1>6

\* The task on disk and the parts of a request in progress.
LEMMA HandlerParts ==
  ASSUME TypeInv, NEW i \in Instances, NEW h \in Handlers
  PROVE  /\ handler[i][h] \in HandlerRec
         /\ Ready(handler[i][h])
         /\ handler[i][h].projs \in SUBSET Projects
         /\ handler[i][h].next \in OptTime
         /\ handler[i][h].payload # NoTask => handler[i][h].payload \in TaskRec
<1>1. handler[i][h] \in HandlerRec
  BY DEF TypeInv, TypeOK
<1>2. Ready(handler[i][h])
  BY DEF TypeInv, HandlersReady
<1> QED
  BY <1>1, <1>2 DEF HandlerRec, OptTask

LEMMA RequestStepType ==
  ASSUME TypeInv, NEW i \in Instances, NEW h \in Handlers,
         Request(i, h) \/ HandlerErrs(i, h)
  PROVE  TypeInv'
<1>1. CASE Start(i, h)
  <2>1. phase' \in [Instances -> {"down", "started", "stopped"}]
    BY <1>1 DEF Start, TypeInv, TypeOK
  <2>2. handler' \in [Instances -> [Handlers -> HandlerRec]] /\ HandlersReady'
    BY <1>1, SyncingType, HandlerUpdate DEF Start
  <2> QED
    BY <1>1, <2>1, <2>2, Unchanged DEF Start, TypeInv, TypeOK
<1>2. ASSUME NEW p \in Projects, List(i, h, p)
      PROVE  TypeInv'
  <2>1. used' \in [Events -> Nat]
    BY <1>2, HappensType DEF List, Events
  <2>2. handler' \in [Instances -> [Handlers -> HandlerRec]] /\ HandlersReady'
    BY <1>2, SyncingType, HandlerUpdate DEF List
  <2> QED
    BY <1>2, <2>1, <2>2, Unchanged DEF List, TypeInv, TypeOK
<1>3. ASSUME NEW t \in Tasks, EditListed(i, h, t)
      PROVE  TypeInv'
  <2>1. used' \in [Events -> Nat]
    BY <1>3, HappensType DEF EditListed, Events
  <2> DEFINE hd == [Syncing({ProjectOf[t]}) EXCEPT !.target = t]
  <2>2. {ProjectOf[t]} \in SUBSET Projects
    BY ScheduledTasksAssumption
  <2>3. hd \in HandlerRec /\ Ready(hd)
    BY <2>2, SyncingType DEF HandlerRec, Ready, Syncing, NoHandler
  <2>4. SetHandler(i, h, hd)
    BY <1>3 DEF EditListed
  <2> HIDE DEF hd
  <2>5. handler' \in [Instances -> [Handlers -> HandlerRec]] /\ HandlersReady'
    BY <2>3, <2>4, HandlerUpdate
  <2> QED
    BY <1>3, <2>1, <2>5, Unchanged DEF EditListed, TypeInv, TypeOK
<1>4. ASSUME NEW t \in Tasks, Delete(i, h, t)
      PROVE  TypeInv'
  <2>1. used' \in [Events -> Nat]
    BY <1>4, HappensType DEF Delete, Events
  <2> DEFINE hd == [NoHandler EXCEPT !.pc = "remove", !.target = t]
  <2>2. hd \in HandlerRec /\ Ready(hd)
    BY NoHandlerType DEF HandlerRec, Ready, NoHandler
  <2>3. SetHandler(i, h, hd)
    BY <1>4 DEF Delete
  <2> HIDE DEF hd
  <2>4. handler' \in [Instances -> [Handlers -> HandlerRec]] /\ HandlersReady'
    BY <2>2, <2>3, HandlerUpdate
  <2> QED
    BY <1>4, <2>1, <2>4, Unchanged DEF Delete, TypeInv, TypeOK
<1>5. ASSUME NEW t \in Tasks, NEW s \in Schedules, NEW e \in BOOLEAN, Save(i, h, t, s, e)
      PROVE  TypeInv'
  <2>1. used' \in [Events -> Nat]
    BY <1>5, HappensType DEF Save, Events
  <2> DEFINE payload == [sched |-> s, enabled |-> e, lastFor |-> NoTime,
                         next |-> NoTime, status |-> "quiet"]
             hd == [NoHandler EXCEPT !.pc = "save", !.target = t, !.payload = payload]
  <2>2. payload \in TaskRec /\ payload \in OptTask /\ payload # NoTask
    <3>1. payload \in TaskRec
      BY DEF TaskRec, OptTime, NoTime, Statuses
    <3> HIDE DEF payload
    <3> QED BY <3>1, ScheduledTasksAssumption DEF OptTask
  <2> HIDE DEF payload
  <2>3. hd \in HandlerRec /\ Ready(hd)
    BY <2>2, NoHandlerType DEF HandlerRec, Ready, NoHandler
  <2>4. SetHandler(i, h, hd)
    BY <1>5 DEF Save, payload
  <2> HIDE DEF hd
  <2>5. handler' \in [Instances -> [Handlers -> HandlerRec]] /\ HandlersReady'
    BY <2>3, <2>4, HandlerUpdate
  <2> QED
    BY <1>5, <2>1, <2>5, Unchanged DEF Save, TypeInv, TypeOK
<1>6. CASE HandlerErrs(i, h)
  <2>1. used' \in [Events -> Nat]
    BY <1>6, HappensType DEF HandlerErrs, Events
  <2>2. handler' \in [Instances -> [Handlers -> HandlerRec]] /\ HandlersReady'
    BY <1>6, NoHandlerType, HandlerUpdate DEF HandlerErrs
  <2> QED
    BY <1>6, <2>1, <2>2, Unchanged DEF HandlerErrs, TypeInv, TypeOK
<1> QED
  BY <1>1, <1>2, <1>3, <1>4, <1>5, <1>6 DEF Request

LEMMA SaveStepType ==
  ASSUME TypeInv, NEW i \in Instances, NEW h \in Handlers,
         Saved(i, h) \/ EditSaved(i, h) \/ Removed(i, h)
  PROVE  TypeInv'
<1> DEFINE t == handler[i][h].target
           payload == handler[i][h].payload
<1>1. ASSUME handler[i][h].pc \in {"save", "edit", "remove"}
      PROVE  t \in Tasks /\ {ProjectOf[t]} \in SUBSET Projects
  <2>1. t \in Tasks
    BY <1>1, HandlerParts DEF Ready
  <2> HIDE DEF t
  <2> QED BY <2>1, ScheduledTasksAssumption
<1>2. handler[i][h].pc \in {"save", "edit"} => payload \in TaskRec
  BY HandlerParts DEF Ready
<1>3. CASE Saved(i, h)
  <2> DEFINE d == IF disk[t] = NoTask THEN payload
                  ELSE [disk[t] EXCEPT !.sched = payload.sched,
                                       !.enabled = payload.enabled]
  <2>1. /\ t \in Tasks /\ {ProjectOf[t]} \in SUBSET Projects
        /\ payload \in TaskRec
        /\ SetDisk(t, d) /\ SetHandler(i, h, Syncing({ProjectOf[t]}))
    BY <1>1, <1>2, <1>3 DEF Saved, At
  <2>2. disk[t] # NoTask => disk[t] \in TaskRec
    <3> HIDE DEF t
    <3> QED BY <2>1 DEF TypeInv, TypeOK, OptTask
  <2> HIDE DEF t, payload
  <2>3. d \in OptTask
    BY <2>1, <2>2 DEF TaskRec, OptTask
  <2> HIDE DEF d
  <2>4. disk' \in [Tasks -> OptTask]
    BY <2>1, <2>3, DiskUpdate
  <2>5. handler' \in [Instances -> [Handlers -> HandlerRec]] /\ HandlersReady'
    BY <2>1, SyncingType, HandlerUpdate
  <2> QED
    BY <1>3, <2>4, <2>5, Unchanged DEF Saved, TypeInv, TypeOK
<1>4. CASE EditSaved(i, h)
  <2>1. /\ t \in Tasks /\ {ProjectOf[t]} \in SUBSET Projects
        /\ payload \in TaskRec
        /\ SetHandler(i, h, Syncing({ProjectOf[t]}))
        /\ \/ SetDisk(t, [payload EXCEPT !.enabled = ~@])
           \/ \E s \in Schedules : SetDisk(t, [payload EXCEPT !.sched = s])
    BY <1>1, <1>2, <1>4 DEF EditSaved, At
  <2> HIDE DEF t, payload
  <2>2. [payload EXCEPT !.enabled = ~@] \in OptTask
    BY <2>1 DEF TaskRec, OptTask
  <2>3. \A s \in Schedules : [payload EXCEPT !.sched = s] \in OptTask
    BY <2>1, TaskParts DEF OptTask
  <2>4. disk' \in [Tasks -> OptTask]
    <3>1. CASE SetDisk(t, [payload EXCEPT !.enabled = ~@])
      BY <2>1, <2>2, <3>1, DiskUpdate
    <3>2. ASSUME NEW s \in Schedules, SetDisk(t, [payload EXCEPT !.sched = s])
          PROVE  disk' \in [Tasks -> OptTask]
      BY <2>1, <2>3, <3>2, DiskUpdate
    <3> QED BY <2>1, <3>1, <3>2
  <2>5. handler' \in [Instances -> [Handlers -> HandlerRec]] /\ HandlersReady'
    BY <2>1, SyncingType, HandlerUpdate
  <2> QED
    BY <1>4, <2>4, <2>5, Unchanged DEF EditSaved, TypeInv, TypeOK
<1>5. CASE Removed(i, h)
  <2>1. /\ t \in Tasks /\ {ProjectOf[t]} \in SUBSET Projects
        /\ SetDisk(t, NoTask)
        /\ \/ SetHandler(i, h, NoHandler)
           \/ SetHandler(i, h, Syncing({ProjectOf[t]}))
    BY <1>1, <1>5 DEF Removed, At
  <2> HIDE DEF t
  <2>2. disk' \in [Tasks -> OptTask]
    BY <2>1, DiskUpdate DEF OptTask
  <2>3. handler' \in [Instances -> [Handlers -> HandlerRec]] /\ HandlersReady'
    BY <2>1, SyncingType, NoHandlerType, HandlerUpdate
  <2> QED
    BY <1>5, <2>2, <2>3, Unchanged DEF Removed, TypeInv, TypeOK
<1> QED
  BY <1>3, <1>4, <1>5

LEMMA SyncStepType ==
  ASSUME TypeInv, NEW i \in Instances, NEW h \in Handlers,
         Reconcile(i, h) \/ PatchNext(i, h)
  PROVE  TypeInv'
<1>1. CASE Reconcile(i, h)
  <2>1. PICK p \in handler[i][h].projs :
       LET known == {t \in TasksOf(p) : mem[i][t] # NoTask}
           hd == [handler[i][h] EXCEPT
                    !.projs = @ \ {p},
                    !.snap = [t \in Tasks |-> IF t \in TasksOf(p)
                                              THEN disk[t] ELSE NoTask],
                    !.payload = IF handler[i][h].target \in TasksOf(p)
                                THEN disk[handler[i][h].target] ELSE NoTask]
       IN  /\ timer' = [timer EXCEPT ![i] =
                          [t \in Tasks |-> IF t \in known THEN NoTime ELSE @[t]]]
           /\ queuedKeys' = [queuedKeys EXCEPT ![i] = @ \ known]
           /\ mem' = [mem EXCEPT ![i] =
                        [t \in Tasks |-> IF t \in TasksOf(p) THEN disk[t]
                                         ELSE @[t]]]
           /\ GoOnSyncing(i, h, hd, {t \in TasksOf(p) : disk[t] # NoTask})
    BY <1>1 DEF Reconcile
  <2> DEFINE known == {t \in TasksOf(p) : mem[i][t] # NoTask}
             snap == [t \in Tasks |-> IF t \in TasksOf(p) THEN disk[t] ELSE NoTask]
             payload == IF handler[i][h].target \in TasksOf(p)
                        THEN disk[handler[i][h].target] ELSE NoTask
             hd == [handler[i][h] EXCEPT !.projs = @ \ {p}, !.snap = snap,
                                         !.payload = payload]
             todo == {t \in TasksOf(p) : disk[t] # NoTask}
  <2>2. /\ timer' = [timer EXCEPT ![i] =
                       [t \in Tasks |-> IF t \in known THEN NoTime ELSE @[t]]]
        /\ queuedKeys' = [queuedKeys EXCEPT ![i] = @ \ known]
        /\ mem' = [mem EXCEPT ![i] =
                     [t \in Tasks |-> IF t \in TasksOf(p) THEN disk[t] ELSE @[t]]]
        /\ GoOnSyncing(i, h, hd, todo)
    BY <2>1
  <2>3. disk \in [Tasks -> OptTask] /\ TasksOf(p) \subseteq Tasks
    BY DEF TypeInv, TypeOK, TasksOf
  <2>4. /\ snap \in [Tasks -> OptTask] /\ payload \in OptTask
        /\ payload # NoTask => handler[i][h].target \in Tasks
        /\ todo \in SUBSET Tasks
        /\ \A t \in todo : snap[t] # NoTask
    BY <2>3 DEF OptTask
  <2>5. timer' \in [Instances -> [Tasks -> OptTime]]
    <3> HIDE DEF known
    <3> QED BY <2>2 DEF TypeInv, TypeOK, OptTime, NoTime
  <2>6. queuedKeys' \in [Instances -> SUBSET Tasks]
    <3> HIDE DEF known
    <3> QED BY <2>2 DEF TypeInv, TypeOK
  <2>7. mem' \in [Instances -> [Tasks -> OptTask]]
    <3>1. mem \in [Instances -> [Tasks -> OptTask]]
      BY DEF TypeInv, TypeOK
    <3> QED BY <2>2, <2>3, <3>1
  <2> HIDE DEF snap, payload, todo, known
  <2>8. hd \in HandlerRec /\ hd.snap = snap /\ hd.payload = payload
        /\ hd.target = handler[i][h].target
    BY <2>4, HandlerParts DEF HandlerRec
  <2> HIDE DEF hd
  <2>9. handler' \in [Instances -> [Handlers -> HandlerRec]] /\ HandlersReady'
    BY <2>2, <2>4, <2>8, SyncUpdate
  <2> QED
    BY <1>1, <2>5, <2>6, <2>7, <2>9, Unchanged DEF Reconcile, TypeInv, TypeOK
<1>2. CASE PatchNext(i, h)
  <2> DEFINE hd == handler[i][h]
             t == hd.cur
             patched == [disk[t] EXCEPT !.next = hd.next]
  <2>1. /\ hd.pc = "patch" /\ GoOnSyncing(i, h, hd, hd.todo)
        /\ IF disk[t] # NoTask
           THEN /\ SetDisk(t, patched)
                /\ SetMem(i, t, patched)
                /\ IF patched.enabled /\ hd.next # NoTime
                   THEN SetTimer(i, t, Armed(i, hd.next))
                   ELSE UNCHANGED timer
           ELSE UNCHANGED <<disk, mem, timer>>
    BY <1>2 DEF PatchNext, At
  <2>2. /\ hd \in HandlerRec /\ hd.next \in OptTime /\ t \in Tasks
        /\ hd.todo \in SUBSET Tasks
        /\ \A u \in hd.todo : hd.snap[u] # NoTask
        /\ hd.payload # NoTask => hd.target \in Tasks
    BY <2>1, HandlerParts DEF Ready, HandlerRec
  <2> HIDE DEF hd
  <2>3. disk \in [Tasks -> OptTask]
    BY DEF TypeInv, TypeOK
  <2>4. disk[t] # NoTask => patched \in OptTask
    <3>1. disk[t] # NoTask => disk[t] \in TaskRec
      BY <2>2, <2>3 DEF OptTask
    <3> QED BY <2>2, <3>1, TaskParts DEF OptTask
  <2> HIDE DEF t, patched
  <2>5. disk' \in [Tasks -> OptTask] /\ mem' \in [Instances -> [Tasks -> OptTask]]
    BY <2>1, <2>2, <2>4, DiskUpdate, MemUpdate DEF TypeInv, TypeOK
  <2>6. timer' \in [Instances -> [Tasks -> OptTime]]
    BY <2>1, <2>2, ArmedType, TimerUpdate DEF TypeInv, TypeOK
  <2>7. handler' \in [Instances -> [Handlers -> HandlerRec]] /\ HandlersReady'
    BY <2>1, <2>2, SyncUpdate
  <2> QED
    BY <1>2, <2>5, <2>6, <2>7, Unchanged DEF PatchNext, TypeInv, TypeOK
<1> QED
  BY <1>1, <1>2

LEMMA TypeInvStep == TypeInv /\ [Next]_vars => TypeInv'
<1> SUFFICES ASSUME TypeInv, [Next]_vars
             PROVE  TypeInv'
  OBVIOUS
<1>1. CASE UNCHANGED vars
  BY <1>1, Unchanged DEF vars, TypeInv, TypeOK
<1>2. CASE Tick
  <2>1. now' \in Nat
    BY <1>2 DEF Tick, TypeInv, TypeOK
  <2> QED
    BY <1>2, <2>1, Unchanged DEF Tick, TypeInv, TypeOK
<1>3. ASSUME NEW i \in Instances, NEW t \in Tasks,
             TimerFires(i, t) \/ RunNow(i, t) \/ RunStep(i, t) \/ RunFault(i, t)
      PROVE  TypeInv'
  BY <1>3, ClockStepType, PumpStepType, ClaimStepType, BodyStepType, CompleteType
  DEF RunStep, RunFault
<1>4. ASSUME NEW i \in Instances, NEW h \in Handlers,
             HandlerStep(i, h) \/ HandlerErrs(i, h) \/ Request(i, h)
      PROVE  TypeInv'
  BY <1>4, SaveStepType, SyncStepType, RequestStepType DEF HandlerStep
<1>5. ASSUME NEW i \in Instances, Pump(i) \/ Stop(i) \/ Crash(i)
      PROVE  TypeInv'
  BY <1>5, ClockStepType, PumpStepType DEF Pump
<1> QED
  BY <1>1, <1>2, <1>3, <1>4, <1>5 DEF Next

(***************************************************************************)
(* The state of the runtimes keeps its types, however their runs, requests *)
(* and shutdowns interleave; in particular no run and no request ever uses *)
(* a task that is not there.                                               *)
(***************************************************************************)
THEOREM TypeCorrect == Spec => []TypeOK
<1>1. Init => TypeInv
  BY TypeInvInit
<1>2. TypeInv /\ [Next]_vars => TypeInv'
  BY TypeInvStep
<1>3. TypeInv => TypeOK
  BY DEF TypeInv
<1> QED
  BY <1>1, <1>2, <1>3, PTL DEF Spec
-----------------------------------------------------------------------------
(* The running slots.                                                      *)

\* What a step may do to the slots and the runs of a process: nothing, free
\* the slot of a run that ends, take one for a run that starts, drop them all.
SameRuns(j, S) ==
  \A u \in Tasks \ S :
    /\ run'[j][u].pc = "idle" <=> run[j][u].pc = "idle"
    /\ run'[j][u].manual = run[j][u].manual

KeepsSlots(j) == running'[j] = running[j] /\ SameRuns(j, {})

FreesSlot(j, t) ==
  /\ running'[j] = running[j] \ {t}
  /\ run'[j][t].pc = "idle"
  /\ SameRuns(j, {t})

TakesSlot(j, t) ==
  /\ t \notin running[j]
  /\ running'[j] = running[j] \cup {t}
  /\ run'[j][t].pc # "idle"
  /\ run'[j][t].manual \/ (CanRun(j, t) /\ ~run'[j][t].manual)
  /\ SameRuns(j, {t})

DropsSlots(j) ==
  /\ running'[j] = {}
  /\ \A u \in Tasks : run'[j][u].pc = "idle"

SlotChange ==
  \A j \in Instances :
    \/ KeepsSlots(j) \/ DropsSlots(j)
    \/ \E t \in Tasks : FreesSlot(j, t) \/ TakesSlot(j, t)

LEMMA SlotsKept ==
  ASSUME TypeInv, NEW i \in Instances, NEW t \in Tasks, NEW r,
         UNCHANGED running,
         \/ run' = run
         \/ /\ run' = [run EXCEPT ![i][t] = r]
            /\ r.pc = "idle" <=> run[i][t].pc = "idle"
            /\ r.manual = run[i][t].manual
  PROVE  SlotChange
<1>1. run \in [Instances -> [Tasks -> RunRec]]
  BY DEF TypeInv, TypeOK
<1>2. \A j \in Instances : KeepsSlots(j)
  BY <1>1 DEF KeepsSlots, SameRuns
<1> QED
  BY <1>2 DEF SlotChange

LEMMA SlotFreed ==
  ASSUME TypeInv, NEW i \in Instances, NEW t \in Tasks, EndRun(i, t)
  PROVE  SlotChange
<1>1. /\ run \in [Instances -> [Tasks -> RunRec]]
      /\ running \in [Instances -> SUBSET Tasks]
  BY DEF TypeInv, TypeOK
<1>2. FreesSlot(i, t)
  BY <1>1 DEF EndRun, FreesSlot, SameRuns, NoRun
<1>3. \A j \in Instances \ {i} : KeepsSlots(j)
  BY <1>1 DEF EndRun, KeepsSlots, SameRuns
<1> QED
  BY <1>2, <1>3 DEF SlotChange

LEMMA SlotTaken ==
  ASSUME TypeInv, NEW i \in Instances, NEW t \in Tasks, Admitted(i, t),
         NEW manual \in BOOLEAN, NEW sf, TakeSlot(i, t, manual, sf),
         manual \/ CanRun(i, t)
  PROVE  SlotChange
<1>1. /\ run \in [Instances -> [Tasks -> RunRec]]
      /\ running \in [Instances -> SUBSET Tasks]
  BY DEF TypeInv, TypeOK
<1> DEFINE r == [pc |-> IF manual THEN "begin" ELSE "claim", manual |-> manual,
                 sf |-> sf, from |-> now,
                 next |-> IF manual THEN NoTime ELSE NextRun(mem[i][t], now),
                 task |-> mem[i][t], ok |-> FALSE]
<1>2. r.pc # "idle" /\ r.manual = manual
  OBVIOUS
<1>3. run' = [run EXCEPT ![i][t] = r] /\ running' = [running EXCEPT ![i] = @ \cup {t}]
  BY DEF TakeSlot
<1> HIDE DEF r
<1>4. TakesSlot(i, t)
  BY <1>1, <1>2, <1>3 DEF TakesSlot, SameRuns, Admitted
<1>5. \A j \in Instances \ {i} : KeepsSlots(j)
  BY <1>1, <1>3 DEF KeepsSlots, SameRuns
<1> QED
  BY <1>4, <1>5 DEF SlotChange

\* A run in progress stays in progress.
RunGoesOn(i, t) ==
  \E r : /\ run' = [run EXCEPT ![i][t] = r]
         /\ r.pc # "idle"
         /\ r.manual = run[i][t].manual

LEMMA RunSlotStep ==
  ASSUME TypeInv, NEW i \in Instances, NEW t \in Tasks,
         RunStep(i, t) \/ RunFault(i, t)
  PROVE  SlotChange
<1>1. CASE EndRun(i, t)
  BY <1>1, SlotFreed
<1>2. CASE /\ ToBody(i, t) \/ GoOn(i, t, "claimfailed") \/ GoOn(i, t, "retry")
           /\ run[i][t].pc # "idle"
           /\ UNCHANGED running
  <2>1. run \in [Instances -> [Tasks -> RunRec]] /\ run[i][t] \in RunRec
    BY DEF TypeInv, TypeOK
  <2>2. RunGoesOn(i, t)
    <3>1. CASE ToBody(i, t)
      <4> DEFINE r == [run[i][t] EXCEPT !.pc = "body", !.from = NoTime, !.next = NoTime]
      <4>1. run' = [run EXCEPT ![i][t] = r] /\ r.pc = "body" /\ r.manual = run[i][t].manual
        BY <2>1, <3>1 DEF ToBody, RunRec
      <4> HIDE DEF r
      <4> QED BY <4>1 DEF RunGoesOn
    <3>2. ASSUME NEW label \in {"claimfailed", "retry"}, GoOn(i, t, label)
          PROVE  RunGoesOn(i, t)
      <4> DEFINE r == [run[i][t] EXCEPT !.pc = label]
      <4>1. run' = [run EXCEPT ![i][t] = r] /\ r.pc = label /\ r.manual = run[i][t].manual
        BY <2>1, <3>2 DEF GoOn, RunRec
      <4> HIDE DEF r
      <4> QED BY <4>1 DEF RunGoesOn
    <3> QED BY <1>2, <3>1, <3>2
  <2> QED BY <1>2, <2>2, SlotsKept DEF RunGoesOn
<1>3. ASSUME NEW ok \in BOOLEAN, BodyEnds(i, t, ok)
      PROVE  SlotChange
  <2>1. run \in [Instances -> [Tasks -> RunRec]] /\ run[i][t] \in RunRec
    BY DEF TypeInv, TypeOK
  <2>2. RunGoesOn(i, t)
    <3> DEFINE latest  == Latest(i, t)
               consume == /\ Kind[latest.sched] = "once"
                          /\ ~run[i][t].manual
                          /\ latest.enabled
               r == [run[i][t] EXCEPT
                       !.pc = IF consume THEN "consume" ELSE "complete",
                       !.ok = ok, !.from = now, !.task = latest,
                       !.next = IF consume THEN NoTime ELSE NextRun(latest, now)]
    <3>1. run' = [run EXCEPT ![i][t] = r]
      BY <1>3 DEF BodyEnds
    <3> HIDE DEF latest, consume
    <3>2. r.pc # "idle" /\ r.manual = run[i][t].manual
      BY <2>1 DEF RunRec
    <3> HIDE DEF r
    <3> QED BY <3>1, <3>2 DEF RunGoesOn
  <2> QED BY <1>3, <2>2, SlotsKept DEF BodyEnds, In, RunGoesOn
<1>4. CASE Consume(i, t)
  <2>1. run \in [Instances -> [Tasks -> RunRec]] /\ run[i][t] \in RunRec
    BY DEF TypeInv, TypeOK
  <2>2. RunGoesOn(i, t)
    <3> DEFINE latest == run[i][t].task
               r == [run[i][t] EXCEPT !.pc = "complete",
                       !.task = [latest EXCEPT !.enabled = FALSE]]
               f == [run[i][t] EXCEPT !.pc = "complete",
                       !.next = NextRun(latest, run[i][t].from)]
    <3>1. run' = [run EXCEPT ![i][t] = r] \/ run' = [run EXCEPT ![i][t] = f]
      BY <1>4 DEF Consume
    <3>2. /\ r.pc # "idle" /\ r.manual = run[i][t].manual
          /\ f.pc # "idle" /\ f.manual = run[i][t].manual
      BY <2>1 DEF RunRec
    <3> HIDE DEF r, f
    <3> QED BY <3>1, <3>2 DEF RunGoesOn
  <2> QED BY <1>4, <2>2, SlotsKept DEF Consume, In, RunGoesOn
<1> QED
  BY <1>1, <1>2, <1>3, <1>4
  DEF RunStep, RunFault, ClaimWins, ClaimLost, TaskGone, ClaimErrs,
      RecordClaimFailure, BeginManual, BeginManualErrs, Complete, CompleteErrs,
      RetryErrs, In

LEMMA SlotStep ==
  ASSUME TypeInv, [Next]_vars
  PROVE  SlotChange
<1>1. CASE UNCHANGED <<run, running>>
  BY <1>1 DEF SlotChange, KeepsSlots, SameRuns
<1>2. ASSUME NEW i \in Instances, NEW t \in Tasks, RunStep(i, t) \/ RunFault(i, t)
      PROVE  SlotChange
  BY <1>2, RunSlotStep
<1>3. ASSUME NEW i \in Instances, PumpStarts(i)
      PROVE  SlotChange
  <2> DEFINE k == Min(Startable(i))
             u == queue[i][k].task
  <2>1. k \in Startable(i) /\ u \in Tasks
    BY <1>3, StartableEntry DEF PumpStarts, TypeInv
  <2>2. CanRun(i, u)
    BY <2>1 DEF Startable
  <2>3. IF Admitted(i, u)
        THEN TakeSlot(i, u, FALSE, queue[i][k].sf)
        ELSE UNCHANGED <<running, run>>
    BY <1>3 DEF PumpStarts
  <2> HIDE DEF k, u
  <2> QED
    BY <1>1, <2>1, <2>2, <2>3, SlotTaken
<1>4. ASSUME NEW i \in Instances, NEW t \in Tasks, RunNow(i, t)
      PROVE  SlotChange
  BY <1>4, SlotTaken DEF RunNow
<1>5. ASSUME NEW i \in Instances, Crash(i)
      PROVE  SlotChange
  <2>1. /\ run \in [Instances -> [Tasks -> RunRec]]
        /\ running \in [Instances -> SUBSET Tasks]
    BY DEF TypeInv, TypeOK
  <2>2. DropsSlots(i)
    BY <1>5, <2>1 DEF Crash, DropsSlots, NoRun
  <2>3. \A j \in Instances \ {i} : KeepsSlots(j)
    BY <1>5, <2>1 DEF Crash, KeepsSlots, SameRuns
  <2> QED
    BY <2>2, <2>3 DEF SlotChange
<1>6. ASSUME NEW i \in Instances, NEW t \in Tasks, TimerFires(i, t)
      PROVE  SlotChange
  BY <1>1, <1>6 DEF TimerFires
<1>7. ASSUME NEW i \in Instances, NEW h \in Handlers,
             HandlerStep(i, h) \/ HandlerErrs(i, h) \/ Request(i, h)
      PROVE  SlotChange
  BY <1>1, <1>7 DEF HandlerStep, HandlerErrs, Request, Reconcile, PatchNext,
     Saved, EditSaved, Removed, Start, List, EditListed, Delete, Save
<1>8. ASSUME NEW i \in Instances, PumpEnds(i) \/ Stop(i)
      PROVE  SlotChange
  BY <1>1, <1>8 DEF PumpEnds, Stop
<1>9. CASE Tick
  BY <1>1, <1>9 DEF Tick
<1>10. CASE UNCHANGED vars
  BY <1>1, <1>10 DEF vars
<1> QED
  BY <1>2, <1>3, <1>4, <1>5, <1>6, <1>7, <1>8, <1>9, <1>10 DEF Next, Pump

(***************************************************************************)
(* A slot is taken exactly while a run of the task is in progress: every   *)
(* path through runTask, its early returns and its errors included, ends   *)
(* in releaseRunningSlot, and no path frees the slot of another run.       *)
(***************************************************************************)
THEOREM SlotsCorrect == Spec => []SlotsMatchRuns
<1>1. Init => SlotsMatchRuns
  BY DEF Init, SlotsMatchRuns, NoRun
<1>2. TypeInv /\ SlotsMatchRuns /\ [Next]_vars => SlotsMatchRuns'
  <2> SUFFICES ASSUME TypeInv, SlotsMatchRuns, [Next]_vars,
                      NEW j \in Instances
               PROVE  running'[j] = {u \in Tasks : run'[j][u].pc # "idle"}
    BY DEF SlotsMatchRuns
  <2>1. running[j] = {u \in Tasks : run[j][u].pc # "idle"}
    BY DEF SlotsMatchRuns
  <2>2. CASE KeepsSlots(j)
    BY <2>1, <2>2 DEF KeepsSlots, SameRuns
  <2>3. CASE DropsSlots(j)
    BY <2>3 DEF DropsSlots
  <2>4. ASSUME NEW t \in Tasks, FreesSlot(j, t)
        PROVE  running'[j] = {u \in Tasks : run'[j][u].pc # "idle"}
    BY <2>1, <2>4 DEF FreesSlot, SameRuns
  <2>5. ASSUME NEW t \in Tasks, TakesSlot(j, t)
        PROVE  running'[j] = {u \in Tasks : run'[j][u].pc # "idle"}
    BY <2>1, <2>5 DEF TakesSlot, SameRuns
  <2> QED
    BY <2>2, <2>3, <2>4, <2>5, SlotStep DEF SlotChange
<1> QED
  BY <1>1, <1>2, TypeInvInit, TypeInvStep, PTL DEF Spec
-----------------------------------------------------------------------------
(* The concurrency limits.                                                 *)

Scheduled(i) == {t \in running[i] : ~run[i][t].manual}

WithinLimits(i) ==
  /\ Cardinality(Scheduled(i)) <= GlobalLimit
  /\ \A p \in Projects : Cardinality(Scheduled(i) \cap TasksOf(p)) <= ProjectLimit

SlotsFinite == \A i \in Instances : IsFiniteSet(running[i])

LimitsInv == SlotsFinite /\ \A i \in Instances : WithinLimits(i)

\* Fewer scheduled runs keep within the limits.
LEMMA LimitsShrink ==
  ASSUME NEW j \in Instances, IsFiniteSet(running[j]), WithinLimits(j),
         Scheduled(j)' \subseteq Scheduled(j)
  PROVE  WithinLimits(j)'
<1>1. IsFiniteSet(Scheduled(j))
  BY FS_Subset DEF Scheduled
<1>2. /\ Cardinality(Scheduled(j)') <= Cardinality(Scheduled(j))
      /\ Cardinality(Scheduled(j)') \in Nat /\ Cardinality(Scheduled(j)) \in Nat
  BY <1>1, FS_Subset, FS_CardinalityType
<1>3. ASSUME NEW p \in Projects
      PROVE  Cardinality(Scheduled(j)' \cap TasksOf(p)) <= ProjectLimit
  <2> DEFINE A == Scheduled(j)' \cap TasksOf(p)
             B == Scheduled(j) \cap TasksOf(p)
  <2>1. A \subseteq B /\ IsFiniteSet(B)
    BY <1>1, FS_Subset
  <2>2. Cardinality(B) <= ProjectLimit
    BY DEF WithinLimits
  <2> HIDE DEF A, B
  <2>3. /\ Cardinality(A) <= Cardinality(B)
        /\ Cardinality(A) \in Nat /\ Cardinality(B) \in Nat
    BY <2>1, FS_Subset, FS_CardinalityType
  <2>4. Cardinality(A) <= ProjectLimit
    BY <2>2, <2>3, ScheduledTasksAssumption
  <2> QED BY <2>4 DEF A
<1> QED
  BY <1>2, <1>3, ScheduledTasksAssumption DEF WithinLimits, TasksOf

\* A run the pump starts finds both limits free.
LEMMA LimitsGrow ==
  ASSUME NEW j \in Instances, NEW t \in Tasks, IsFiniteSet(running[j]),
         running[j] \subseteq Tasks, WithinLimits(j), CanRun(j, t),
         Scheduled(j)' = Scheduled(j) \cup {t}
  PROVE  WithinLimits(j)'
<1> DEFINE mine == {u \in running[j] : ProjectOf[u] = ProjectOf[t]}
<1>1. Scheduled(j) \subseteq running[j] /\ IsFiniteSet(mine) /\ IsFiniteSet(Scheduled(j))
  BY FS_Subset DEF Scheduled
<1>2. Cardinality(running[j]) < GlobalLimit /\ Cardinality(mine) < ProjectLimit
  BY DEF CanRun
<1>3. GlobalLimit \in Nat /\ ProjectLimit \in Nat
  BY ScheduledTasksAssumption
<1> HIDE DEF mine
<1>4. ASSUME NEW A, NEW B, IsFiniteSet(B), A \subseteq B
      PROVE  Cardinality(A \cup {t}) <= Cardinality(B) + 1
  <2>1. /\ Cardinality(A) \in Nat /\ Cardinality(B) \in Nat
        /\ Cardinality(A) <= Cardinality(B) /\ IsFiniteSet(A)
    BY <1>4, FS_Subset, FS_CardinalityType
  <2>2. \/ Cardinality(A \cup {t}) = Cardinality(A)
        \/ Cardinality(A \cup {t}) = Cardinality(A) + 1
    BY <2>1, FS_AddElement
  <2> QED BY <2>1, <2>2
<1>5. Cardinality(Scheduled(j)') <= GlobalLimit
  <2>1. Cardinality(Scheduled(j)') <= Cardinality(running[j]) + 1
    BY <1>1, <1>4
  <2>2. IsFiniteSet(Scheduled(j) \cup {t})
    BY <1>1, FS_AddElement
  <2>3. Cardinality(running[j]) \in Nat /\ Cardinality(Scheduled(j)') \in Nat
    BY <2>2, FS_CardinalityType
  <2> QED BY <1>2, <1>3, <2>1, <2>3
<1>6. ASSUME NEW p \in Projects
      PROVE  Cardinality(Scheduled(j)' \cap TasksOf(p)) <= ProjectLimit
  <2>1. CASE p = ProjectOf[t]
    <3> DEFINE A == Scheduled(j) \cap TasksOf(p)
    <3>1. Scheduled(j)' \cap TasksOf(p) = A \cup {t} /\ A \subseteq mine
      BY <1>1, <2>1 DEF TasksOf, mine
    <3> HIDE DEF A
    <3>2. Cardinality(A \cup {t}) <= Cardinality(mine) + 1
      BY <1>1, <1>4, <3>1
    <3>3. IsFiniteSet(A \cup {t})
      BY <1>1, <3>1, FS_Subset, FS_AddElement
    <3>4. Cardinality(mine) \in Nat /\ Cardinality(A \cup {t}) \in Nat
      BY <1>1, <3>3, FS_CardinalityType
    <3>5. Cardinality(A \cup {t}) <= ProjectLimit
      BY <1>2, <1>3, <3>2, <3>4
    <3> QED BY <3>1, <3>5
  <2>2. CASE p # ProjectOf[t]
    <3>1. Scheduled(j)' \cap TasksOf(p) = Scheduled(j) \cap TasksOf(p)
      BY <2>2 DEF TasksOf
    <3> QED BY <3>1 DEF WithinLimits
  <2> QED BY <2>1, <2>2
<1> QED
  BY <1>5, <1>6 DEF WithinLimits, TasksOf

(***************************************************************************)
(* The runs the pump starts respect the global and the project limit,      *)
(* whatever manual runs, which take slots too but heed no limit, start and *)
(* end in between.                                                         *)
(***************************************************************************)
THEOREM LimitsCorrect == Spec => []ScheduledWithinLimits
<1>1. Init => LimitsInv
  <2> SUFFICES ASSUME Init, NEW i \in Instances
               PROVE  IsFiniteSet(running[i]) /\ WithinLimits(i)
    BY DEF LimitsInv, SlotsFinite
  <2>1. running[i] = {} /\ Scheduled(i) = {}
    BY DEF Init, Scheduled
  <2>2. \A p \in Projects : Scheduled(i) \cap TasksOf(p) = {}
    BY <2>1
  <2> QED
    BY <2>1, <2>2, FS_EmptySet, ScheduledTasksAssumption DEF WithinLimits
<1>2. TypeInv /\ LimitsInv /\ [Next]_vars => LimitsInv'
  <2> SUFFICES ASSUME TypeInv, LimitsInv, [Next]_vars, NEW j \in Instances
               PROVE  IsFiniteSet(running'[j]) /\ WithinLimits(j)'
    BY DEF LimitsInv, SlotsFinite
  <2>1. IsFiniteSet(running[j]) /\ WithinLimits(j) /\ running[j] \subseteq Tasks
    BY DEF LimitsInv, SlotsFinite, TypeInv, TypeOK
  <2>2. CASE KeepsSlots(j)
    <3>1. Scheduled(j)' \subseteq Scheduled(j)
      BY <2>1, <2>2 DEF KeepsSlots, SameRuns, Scheduled
    <3> QED BY <2>1, <2>2, <3>1, LimitsShrink DEF KeepsSlots
  <2>3. CASE DropsSlots(j)
    <3>1. Scheduled(j)' \subseteq Scheduled(j) /\ running'[j] = {}
      BY <2>3 DEF DropsSlots, Scheduled
    <3> QED BY <2>1, <3>1, LimitsShrink, FS_EmptySet
  <2>4. ASSUME NEW t \in Tasks, FreesSlot(j, t)
        PROVE  IsFiniteSet(running'[j]) /\ WithinLimits(j)'
    <3>1. /\ Scheduled(j)' \subseteq Scheduled(j)
          /\ running'[j] \subseteq running[j]
      BY <2>1, <2>4 DEF FreesSlot, SameRuns, Scheduled
    <3> QED BY <2>1, <3>1, LimitsShrink, FS_Subset
  <2>5. ASSUME NEW t \in Tasks, TakesSlot(j, t)
        PROVE  IsFiniteSet(running'[j]) /\ WithinLimits(j)'
    <3>1. IsFiniteSet(running'[j])
      BY <2>1, <2>5, FS_AddElement DEF TakesSlot
    <3>2. CASE run'[j][t].manual
      <4>1. Scheduled(j)' \subseteq Scheduled(j)
        BY <2>1, <2>5, <3>2 DEF TakesSlot, SameRuns, Scheduled
      <4> QED BY <2>1, <3>1, <4>1, LimitsShrink
    <3>3. CASE CanRun(j, t) /\ ~run'[j][t].manual
      <4>1. Scheduled(j)' = Scheduled(j) \cup {t}
        BY <2>1, <2>5, <3>3 DEF TakesSlot, SameRuns, Scheduled
      <4> QED BY <2>1, <3>1, <3>3, <4>1, LimitsGrow
    <3> QED BY <2>5, <3>2, <3>3 DEF TakesSlot
  <2> QED
    BY <2>2, <2>3, <2>4, <2>5, SlotStep DEF SlotChange
<1>3. LimitsInv => ScheduledWithinLimits
  BY DEF LimitsInv, WithinLimits, Scheduled, ScheduledWithinLimits
<1> QED
  BY <1>1, <1>2, <1>3, TypeInvInit, TypeInvStep, PTL DEF Spec
-----------------------------------------------------------------------------
(* The queue and its keys.                                                 *)

KeysHaveEntries(i) ==
  \A t \in queuedKeys[i] : \E k \in DOMAIN queue[i] : queue[i][k].task = t

\* The entries that are not of t stay in the queue.
LEMMA EntriesStay ==
  ASSUME NEW q \in Seq([task : Tasks, sf : Nat]), NEW k \in DOMAIN q,
         NEW u \in Tasks, u # q[k].task,
         \E j \in DOMAIN q : q[j].task = u
  PROVE  \E m \in DOMAIN RemoveAt(q, k) : RemoveAt(q, k)[m].task = u
<1>1. PICK j \in DOMAIN q : q[j].task = u
  OBVIOUS
<1>2. j # k
  BY <1>1
<1>3. PICK m \in DOMAIN RemoveAt(q, k) : RemoveAt(q, k)[m] = q[j]
  <2> DEFINE S == [task : Tasks, sf : Nat]
  <2>1. q \in Seq(S)
    OBVIOUS
  <2> HIDE DEF S
  <2> QED BY <1>2, <2>1, RemoveAtType
<1> QED
  BY <1>1, <1>3

LEMMA KeysStep ==
  ASSUME TypeInv, \A i \in Instances : KeysHaveEntries(i), [Next]_vars,
         NEW j \in Instances
  PROVE  KeysHaveEntries(j)'
<1>1. /\ queue \in [Instances -> Seq([task : Tasks, sf : Nat])]
      /\ queuedKeys \in [Instances -> SUBSET Tasks]
      /\ queue[j] \in Seq([task : Tasks, sf : Nat])
      /\ KeysHaveEntries(j)
  BY DEF TypeInv, TypeOK
<1>2. CASE queue'[j] = queue[j] /\ queuedKeys'[j] \subseteq queuedKeys[j]
  BY <1>1, <1>2 DEF KeysHaveEntries
<1>3. CASE queuedKeys'[j] = {}
  BY <1>3 DEF KeysHaveEntries
<1>4. ASSUME NEW i \in Instances, NEW t \in Tasks, TimerFires(i, t)
      PROVE  KeysHaveEntries(j)'
  <2> DEFINE e == [task |-> t, sf |-> timer[i][t]]
  <2>1. \/ UNCHANGED <<queue, queuedKeys>>
        \/ /\ queue' = [queue EXCEPT ![i] = Append(@, e)]
           /\ queuedKeys' = [queuedKeys EXCEPT ![i] = @ \cup {t}]
    BY <1>4 DEF TimerFires
  <2>2. e \in [task : Tasks, sf : Nat] /\ e.task = t
    BY <1>4 DEF TimerFires, TypeInv, TypeOK, OptTime
  <2> HIDE DEF e
  <2>3. CASE i = j /\ queue'[j] = Append(queue[j], e)
                  /\ queuedKeys'[j] = queuedKeys[j] \cup {t}
    <3>1. /\ DOMAIN queue[j] = 1 .. Len(queue[j])
          /\ DOMAIN queue'[j] = 1 .. Len(queue[j]) + 1
          /\ Len(queue[j]) \in Nat
          /\ queue'[j][Len(queue[j]) + 1] = e
          /\ \A k \in 1 .. Len(queue[j]) : queue'[j][k] = queue[j][k]
      BY <1>1, <2>2, <2>3, AppendProperties
    <3>2. ASSUME NEW u \in queuedKeys'[j]
          PROVE  \E k \in DOMAIN queue'[j] : queue'[j][k].task = u
      <4>1. CASE u = t
        BY <2>2, <3>1, <4>1
      <4>2. CASE u \in queuedKeys[j]
        <5>1. PICK k \in 1 .. Len(queue[j]) : queue[j][k].task = u
          BY <1>1, <3>1, <4>2 DEF KeysHaveEntries
        <5> QED BY <3>1, <5>1
      <4> QED BY <2>3, <3>2, <4>1, <4>2
    <3> QED BY <3>2 DEF KeysHaveEntries
  <2> QED
    BY <1>1, <1>2, <2>1, <2>3
<1>5. ASSUME NEW i \in Instances, PumpStarts(i)
      PROVE  KeysHaveEntries(j)'
  <2> DEFINE k == Min(Startable(i))
             u == queue[i][k].task
  <2>1. k \in DOMAIN queue[i]
    BY <1>5, StartableEntry DEF PumpStarts, TypeInv
  <2>2. /\ queue' = [queue EXCEPT ![i] = RemoveAt(@, k)]
        /\ queuedKeys' = [queuedKeys EXCEPT ![i] = @ \ {u}]
    BY <1>5 DEF PumpStarts
  <2> HIDE DEF k
  <2>3. CASE i = j
    <3>1. queue'[j] = RemoveAt(queue[j], k) /\ queuedKeys'[j] = queuedKeys[j] \ {u}
      BY <1>1, <2>2, <2>3
    <3>2. ASSUME NEW v \in queuedKeys[j] \ {u}
          PROVE  \E m \in DOMAIN RemoveAt(queue[j], k) : RemoveAt(queue[j], k)[m].task = v
      <4>1. v \in Tasks /\ v # queue[j][k].task /\ k \in DOMAIN queue[j]
            /\ \E m \in DOMAIN queue[j] : queue[j][m].task = v
        BY <1>1, <2>1, <2>3, <3>2 DEF KeysHaveEntries
      <4> QED BY <1>1, <4>1, EntriesStay
    <3> QED BY <3>1, <3>2 DEF KeysHaveEntries
  <2>4. CASE i # j
    BY <1>1, <1>2, <2>2, <2>4
  <2> QED BY <2>3, <2>4
<1>6. ASSUME NEW i \in Instances, Stop(i) \/ Crash(i)
      PROVE  KeysHaveEntries(j)'
  BY <1>1, <1>2, <1>3, <1>6 DEF Stop, Crash
<1>7. ASSUME NEW i \in Instances, NEW h \in Handlers, Reconcile(i, h)
      PROVE  KeysHaveEntries(j)'
  <2>1. UNCHANGED queue /\ \E K : queuedKeys' = [queuedKeys EXCEPT ![i] = @ \ K]
    BY <1>7 DEF Reconcile
  <2> QED BY <1>1, <1>2, <2>1
<1>8. CASE UNCHANGED <<queue, queuedKeys>>
  BY <1>2, <1>8
<1>9. ASSUME NEW i \in Instances, NEW t \in Tasks,
             RunNow(i, t) \/ RunStep(i, t) \/ RunFault(i, t)
      PROVE  UNCHANGED <<queue, queuedKeys>>
  BY <1>9 DEF RunNow, RunStep, RunFault, ClaimWins, ClaimLost, TaskGone, ClaimErrs,
     RecordClaimFailure, BeginManual, BeginManualErrs, BodyEnds, Consume,
     Complete, CompleteErrs, RetryErrs
<1>10. ASSUME NEW i \in Instances, NEW h \in Handlers,
              \/ PatchNext(i, h) \/ Saved(i, h) \/ EditSaved(i, h) \/ Removed(i, h)
              \/ HandlerErrs(i, h) \/ Request(i, h)
       PROVE  UNCHANGED <<queue, queuedKeys>>
  BY <1>10 DEF HandlerErrs, Request, PatchNext, Saved, EditSaved, Removed,
     Start, List, EditListed, Delete, Save
<1>11. ASSUME NEW i \in Instances, PumpEnds(i)
       PROVE  UNCHANGED <<queue, queuedKeys>>
  BY <1>11 DEF PumpEnds
<1> QED
  BY <1>4, <1>5, <1>6, <1>7, <1>8, <1>9, <1>10, <1>11
  DEF Next, vars, Tick, Pump, HandlerStep

(***************************************************************************)
(* A task is never locked out of its queue: a key that makes queueTaskRun  *)
(* and runNow refuse the task belongs to an entry of the queue, though     *)
(* syncProject drops keys and keeps entries, so that a task may have more  *)
(* entries than keys.                                                      *)
(***************************************************************************)
THEOREM KeysCorrect == Spec => []QueuedKeysHaveEntries
<1> DEFINE KeysInv == \A i \in Instances : KeysHaveEntries(i)
<1>1. Init => KeysInv
  BY DEF Init, KeysHaveEntries
<1>2. TypeInv /\ KeysInv /\ [Next]_vars => KeysInv'
  BY KeysStep
<1>3. KeysInv => QueuedKeysHaveEntries
  BY DEF KeysHaveEntries, QueuedKeysHaveEntries
<1> HIDE DEF KeysInv
<1> QED
  BY <1>1, <1>2, <1>3, TypeInvInit, TypeInvStep, PTL DEF Spec
-----------------------------------------------------------------------------
(* The queue and the pump.                                                 *)

\* An entry of the queue could start and pumpQueue is not running.
Stranded(i) == i \notin pumping /\ Startable(i) # {}

\* A manual run of the process ends.
ManualRunEnds(i) ==
  \E t \in Tasks :
    run[i][t].manual /\ run[i][t].pc # "idle" /\ run'[i][t].pc = "idle"

OnePump == \A i, j \in pumping : i = j

\* A process that is stopped or down has no timers and nothing in its queue.
Silent(i) ==
  phase[i] # "started" =>
    queue[i] = <<>> /\ \A t \in Tasks : timer[i][t] = NoTime

PumpInv ==
  OnePump /\ SlotsFinite /\ \A i \in Instances : Silent(i)

\* A process whose queue is as it was, and whose slots are no fewer.
LEMMA NotStranded ==
  ASSUME TypeOK, TypeOK', SlotsFinite', NEW i \in Instances,
         phase'[i] = phase[i], queue'[i] = queue[i],
         running[i] \subseteq running'[i],
         i \in pumping => i \in pumping' \/ Startable(i) = {},
         Stranded(i)'
  PROVE  Stranded(i)
<1>1. Startable(i)' \subseteq Startable(i)
  <2> SUFFICES ASSUME NEW k \in Startable(i)'
               PROVE  k \in Startable(i)
    OBVIOUS
  <2>1. /\ phase[i] = "started" /\ k \in DOMAIN queue[i]
        /\ CanRun(i, queue[i][k].task)'
    BY DEF Startable
  <2> DEFINE t == queue[i][k].task
             Mine == {u \in running[i] : ProjectOf[u] = ProjectOf[t]}
             Now  == {u \in running'[i] : ProjectOf[u] = ProjectOf[t]}
  <2>2. IsFiniteSet(running'[i])
    BY DEF SlotsFinite
  <2>3. /\ IsFiniteSet(running[i])
        /\ Cardinality(running[i]) <= Cardinality(running'[i])
    BY <2>2, FS_Subset
  <2>4. IsFiniteSet(Now) /\ Mine \subseteq Now
    BY <2>2, FS_Subset
  <2>5. IsFiniteSet(Mine) /\ Cardinality(Mine) <= Cardinality(Now)
    BY <2>4, FS_Subset
  <2>6. /\ Cardinality(running'[i]) < GlobalLimit
        /\ Cardinality(Now) < ProjectLimit
    BY <2>1 DEF CanRun
  <2>7. /\ Cardinality(running[i]) \in Nat /\ Cardinality(running'[i]) \in Nat
        /\ Cardinality(Mine) \in Nat /\ Cardinality(Now) \in Nat
    BY <2>2, <2>3, <2>4, <2>5, FS_CardinalityType
  <2>8. CanRun(i, t)
    <3> HIDE DEF t
    <3>1. /\ Cardinality(running[i]) < GlobalLimit
          /\ Cardinality(Mine) < ProjectLimit
      <4> HIDE DEF Mine, Now
      <4> QED BY <2>3, <2>5, <2>6, <2>7, ScheduledTasksAssumption
    <3> QED BY <3>1 DEF CanRun
  <2> QED
    BY <2>1, <2>8 DEF Startable
<1> QED
  BY <1>1 DEF Stranded

\* What the steps of a run do to the pump: nothing, or EndRun.
LEMMA RunPumps ==
  ASSUME NEW i \in Instances, NEW t \in Tasks, RunStep(i, t) \/ RunFault(i, t)
  PROVE  /\ UNCHANGED <<phase, queue>>
         /\ pumping = {}
         /\ \/ UNCHANGED <<running, pumping>>
            \/ EndRun(i, t) /\ run[i][t].pc # "idle"
<1>1. CASE ClaimWins(i, t) \/ ClaimErrs(i, t) \/ BeginManual(i, t)
  BY <1>1 DEF ClaimWins, ClaimErrs, BeginManual, In, Quiet
<1>2. CASE Consume(i, t) \/ CompleteErrs(i, t)
  BY <1>2 DEF Consume, CompleteErrs, In, Quiet
<1>3. CASE ClaimLost(i, t) \/ TaskGone(i, t) \/ BeginManualErrs(i, t)
  BY <1>3 DEF ClaimLost, TaskGone, BeginManualErrs, In, Quiet
<1>4. CASE RecordClaimFailure(i, t) \/ Complete(i, t) \/ RetryErrs(i, t)
  BY <1>4 DEF RecordClaimFailure, Complete, RetryErrs, In, Quiet
<1>5. ASSUME NEW ok \in BOOLEAN, BodyEnds(i, t, ok)
      PROVE  UNCHANGED <<phase, queue, running, pumping>> /\ pumping = {}
  BY <1>5 DEF BodyEnds, In, Quiet
<1> QED
  BY <1>1, <1>2, <1>3, <1>4, <1>5 DEF RunStep, RunFault

\* What the steps of a run do to the timers.
ArmsAtMost(i, t) ==
  \E at : /\ timer' = [timer EXCEPT ![i][t] = at]
          /\ phase[i] = "started" \/ at \in {NoTime, timer[i][t]}

LEMMA RunTimers ==
  ASSUME TypeOK, NEW i \in Instances, NEW t \in Tasks,
         RunStep(i, t) \/ RunFault(i, t)
  PROVE  timer' = timer \/ ArmsAtMost(i, t)
<1>1. CASE ClaimLost(i, t)
  BY <1>1 DEF ClaimLost, Rearmed, ArmedIfFuture, Armed, ArmsAtMost, SetTimer
<1>2. CASE ClaimErrs(i, t) \/ RetryErrs(i, t)
  BY <1>2 DEF ClaimErrs, RetryErrs, Rearmed, ArmedIfFuture, Armed,
     ArmsAtMost, SetTimer
<1>3. CASE Complete(i, t)
  <2>1. CASE timer' = timer
    BY <2>1
  <2>2. CASE \E x : SetTimer(i, t, IF x.enabled
                                   THEN ArmedIfFuture(i, t, x.next, run[i][t].from)
                                   ELSE timer[i][t])
    BY <2>2 DEF ArmedIfFuture, Armed, ArmsAtMost, SetTimer
  <2> QED
    BY <1>3, <2>1, <2>2, Zenon DEF Complete
<1>4. CASE ClaimWins(i, t) \/ TaskGone(i, t) \/ BeginManual(i, t) \/ BeginManualErrs(i, t)
  BY <1>4 DEF ClaimWins, TaskGone, BeginManual, BeginManualErrs
<1>5. CASE RecordClaimFailure(i, t) \/ Consume(i, t) \/ CompleteErrs(i, t)
  BY <1>5 DEF RecordClaimFailure, Consume, CompleteErrs
<1>6. ASSUME NEW ok \in BOOLEAN, BodyEnds(i, t, ok)
      PROVE  timer' = timer
  BY <1>6 DEF BodyEnds
<1> QED
  BY <1>1, <1>2, <1>3, <1>4, <1>5, <1>6 DEF RunStep, RunFault

LEMMA SilentStep ==
  ASSUME TypeInv, [Next]_vars, NEW j \in Instances, Silent(j)
  PROVE  Silent(j)'
<1>1. /\ timer \in [Instances -> [Tasks -> OptTime]]
      /\ phase \in [Instances -> {"down", "started", "stopped"}]
      /\ queue \in [Instances -> Seq([task : Tasks, sf : Nat])]
  BY DEF TypeInv, TypeOK
<1>2. CASE UNCHANGED <<phase, queue, timer>>
  BY <1>2 DEF Silent
<1>3. ASSUME NEW i \in Instances, NEW t \in Tasks, NEW at,
             SetTimer(i, t, at), UNCHANGED <<phase, queue>>,
             phase[i] = "started" \/ at \in {NoTime, timer[i][t]}
      PROVE  Silent(j)'
  BY <1>1, <1>3 DEF Silent, SetTimer
<1>4. ASSUME NEW i \in Instances, NEW t \in Tasks, RunStep(i, t) \/ RunFault(i, t)
      PROVE  Silent(j)'
  <2>1. phase' = phase /\ queue' = queue
    BY <1>4, RunPumps
  <2>2. CASE timer' = timer
    BY <1>2, <2>1, <2>2
  <2>3. CASE ArmsAtMost(i, t)
    BY <1>3, <2>1, <2>3 DEF ArmsAtMost, SetTimer
  <2> QED
    BY <1>4, <2>2, <2>3, RunTimers DEF TypeInv
<1>5. ASSUME NEW i \in Instances, NEW t \in Tasks, TimerFires(i, t)
      PROVE  Silent(j)'
  <2>1. /\ phase' = phase /\ timer[i][t] # NoTime
        /\ i # j => queue'[j] = queue[j] /\ timer'[j] = timer[j]
    BY <1>1, <1>5 DEF TimerFires, SetTimer
  <2> QED
    BY <2>1 DEF Silent
<1>6. ASSUME NEW i \in Instances, PumpStarts(i)
      PROVE  Silent(j)'
  <2>1. /\ phase' = phase /\ timer' = timer /\ phase[i] = "started"
        /\ i # j => queue'[j] = queue[j]
    BY <1>1, <1>6 DEF PumpStarts, Startable
  <2> QED
    BY <2>1 DEF Silent
<1>7. ASSUME NEW i \in Instances, Stop(i) \/ Crash(i)
      PROVE  Silent(j)'
  <2>1. /\ i # j => queue'[j] = queue[j] /\ timer'[j] = timer[j] /\ phase'[j] = phase[j]
        /\ i = j => queue'[j] = <<>> /\ timer'[j] = [t \in Tasks |-> NoTime]
    BY <1>1, <1>7 DEF Stop, Crash
  <2> QED
    BY <2>1 DEF Silent
<1>8. ASSUME NEW i \in Instances, NEW h \in Handlers, Start(i, h)
      PROVE  Silent(j)'
  BY <1>1, <1>8 DEF Start, Silent
<1>9. ASSUME NEW i \in Instances, NEW h \in Handlers, Reconcile(i, h)
      PROVE  Silent(j)'
  <2>1. PICK known : timer' = [timer EXCEPT ![i] =
                       [t \in Tasks |-> IF t \in known THEN NoTime ELSE @[t]]]
    BY <1>9 DEF Reconcile
  <2>2. phase' = phase /\ queue' = queue
    BY <1>9 DEF Reconcile
  <2>3. \A t \in Tasks : timer'[j][t] \in {NoTime, timer[j][t]}
    BY <1>1, <2>1
  <2> QED
    BY <2>2, <2>3 DEF Silent
<1>10. ASSUME NEW i \in Instances, NEW h \in Handlers, PatchNext(i, h)
       PROVE  Silent(j)'
  <2> DEFINE t == handler[i][h].cur
  <2>1. /\ phase' = phase /\ queue' = queue
        /\ timer' = timer \/ SetTimer(i, t, Armed(i, handler[i][h].next))
    BY <1>10 DEF PatchNext
  <2> HIDE DEF t
  <2>2. \A u \in Tasks : \/ timer'[j][u] \in {NoTime, timer[j][u]}
                         \/ i = j /\ phase[i] = "started"
    BY <1>1, <2>1 DEF SetTimer, Armed
  <2> QED
    BY <2>1, <2>2 DEF Silent
<1>11. ASSUME NEW i \in Instances, NEW h \in Handlers,
              \/ Saved(i, h) \/ EditSaved(i, h) \/ Removed(i, h) \/ HandlerErrs(i, h)
              \/ Request(i, h) /\ ~Start(i, h)
       PROVE  Silent(j)'
  <2>1. UNCHANGED <<phase, queue, timer>>
    BY <1>11 DEF Saved, EditSaved, Removed, HandlerErrs, Request, List,
       EditListed, Delete, Save
  <2> QED
    BY <1>2, <2>1
<1>12. ASSUME NEW i \in Instances, NEW t \in Tasks, RunNow(i, t)
       PROVE  Silent(j)'
  BY <1>2, <1>12 DEF RunNow
<1>13. CASE Tick \/ UNCHANGED vars
  BY <1>2, <1>13 DEF Tick, vars
<1>14. ASSUME NEW i \in Instances, NEW h \in Handlers,
              HandlerStep(i, h) \/ HandlerErrs(i, h) \/ Request(i, h)
       PROVE  Silent(j)'
  BY <1>8, <1>9, <1>10, <1>11, <1>14 DEF HandlerStep, Request
<1>15. ASSUME NEW i \in Instances, PumpEnds(i)
       PROVE  Silent(j)'
  BY <1>2, <1>15 DEF PumpEnds
<1> QED
  BY <1>4, <1>5, <1>6, <1>7, <1>12, <1>13, <1>14, <1>15 DEF Next, Pump

LEMMA OnePumpStep ==
  ASSUME OnePump, [Next]_vars
  PROVE  OnePump'
<1>1. CASE UNCHANGED pumping
  BY <1>1 DEF OnePump
<1>2. CASE \E i \in Instances : pumping' \in {{}, {i}}
  BY <1>2 DEF OnePump
<1>3. ASSUME NEW i \in Instances, NEW t \in Tasks, RunStep(i, t) \/ RunFault(i, t)
      PROVE  OnePump'
  <2>1. UNCHANGED pumping \/ pumping' \in {{}, {i}}
    BY <1>3, RunPumps DEF EndRun
  <2> QED
    BY <1>1, <1>2, <2>1, Zenon
<1>4. ASSUME NEW i \in Instances, NEW t \in Tasks, TimerFires(i, t) \/ RunNow(i, t)
      PROVE  OnePump'
  <2>1. UNCHANGED pumping \/ pumping' = {i}
    BY <1>4 DEF TimerFires, RunNow
  <2> QED
    BY <1>1, <1>2, <2>1, Zenon
<1>5. ASSUME NEW i \in Instances, Pump(i) \/ Stop(i) \/ Crash(i)
      PROVE  OnePump'
  <2>1. UNCHANGED pumping \/ pumping' = {}
    BY <1>5 DEF Pump, PumpStarts, PumpEnds, Stop, Crash
  <2> QED
    BY <1>1, <1>2, <1>5, <2>1, Zenon
<1>6. ASSUME NEW i \in Instances, NEW h \in Handlers,
             HandlerStep(i, h) \/ HandlerErrs(i, h) \/ Request(i, h)
      PROVE  OnePump'
  <2>1. UNCHANGED pumping
    BY <1>6 DEF HandlerStep, HandlerErrs, Request, Reconcile, PatchNext,
       Saved, EditSaved, Removed, Start, List, EditListed, Delete, Save
  <2> QED
    BY <1>1, <2>1
<1>7. CASE Tick \/ UNCHANGED vars
  BY <1>1, <1>7 DEF Tick, vars
<1> QED
  BY <1>3, <1>4, <1>5, <1>6, <1>7 DEF Next

\* Every change of the slots of a process keeps them finite.
LEMMA SlotsFiniteStep ==
  ASSUME TypeInv, SlotsFinite, [Next]_vars
  PROVE  SlotsFinite'
<1> SUFFICES ASSUME NEW j \in Instances
             PROVE  IsFiniteSet(running'[j])
  BY DEF SlotsFinite
<1>1. IsFiniteSet(running[j])
  BY DEF SlotsFinite
<1>2. CASE KeepsSlots(j) \/ DropsSlots(j)
  BY <1>1, <1>2, FS_EmptySet DEF KeepsSlots, DropsSlots
<1>3. ASSUME NEW t \in Tasks, FreesSlot(j, t)
      PROVE  IsFiniteSet(running'[j])
  BY <1>1, <1>3, FS_RemoveElement DEF FreesSlot
<1>4. ASSUME NEW t \in Tasks, TakesSlot(j, t)
      PROVE  IsFiniteSet(running'[j])
  BY <1>1, <1>4, FS_AddElement DEF TakesSlot
<1> QED
  BY <1>2, <1>3, <1>4, SlotStep DEF SlotChange

LEMMA PumpInvStep ==
  ASSUME TypeInv, PumpInv, [Next]_vars
  PROVE  PumpInv'
<1>1. \A i \in Instances : Silent(i)'
  BY SilentStep DEF PumpInv
<1> QED
  BY <1>1, OnePumpStep, SlotsFiniteStep DEF PumpInv

LEMMA PumpInvInit == Init => PumpInv
  BY FS_EmptySet DEF Init, PumpInv, OnePump, SlotsFinite, Silent

LEMMA StrandedStep ==
  ASSUME TypeInv, TypeInv', PumpInv, PumpInv', [Next]_vars,
         NEW j \in Instances, Stranded(j)'
  PROVE  Stranded(j) \/ ManualRunEnds(j)
<1>1. /\ TypeOK /\ TypeOK' /\ SlotsFinite' /\ OnePump /\ Silent(j)
      /\ queue \in [Instances -> Seq([task : Tasks, sf : Nat])]
      /\ running \in [Instances -> SUBSET Tasks]
      /\ run \in [Instances -> [Tasks -> RunRec]]
      /\ phase \in [Instances -> {"down", "started", "stopped"}]
  BY DEF TypeInv, TypeOK, PumpInv
<1>2. CASE UNCHANGED <<phase, queue, running, pumping>>
  BY <1>1, <1>2, NotStranded
<1>3. ASSUME NEW i \in Instances, NEW t \in Tasks, RunStep(i, t) \/ RunFault(i, t)
      PROVE  Stranded(j) \/ ManualRunEnds(j)
  <2>1. phase' = phase /\ queue' = queue /\ pumping = {}
    BY <1>3, RunPumps
  <2>2. CASE running' = running /\ pumping' = pumping
    BY <1>2, <2>1, <2>2
  <2>3. CASE EndRun(i, t) /\ run[i][t].pc # "idle"
    <3>1. CASE i # j
      <4>1. running'[j] = running[j]
        BY <1>1, <2>3, <3>1 DEF EndRun
      <4> QED
        BY <1>1, <2>1, <4>1, NotStranded
    <3>2. CASE i = j /\ run[i][t].manual
      <4>1. run'[i][t].pc = "idle"
        BY <1>1, <2>3, NoRunType DEF EndRun
      <4> QED
        BY <2>3, <3>2, <4>1 DEF ManualRunEnds
    <3>3. CASE i = j /\ ~run[i][t].manual
      BY <2>3, <3>3 DEF EndRun, Stranded
    <3> QED
      BY <3>1, <3>2, <3>3
  <2> QED
    BY <1>3, <2>2, <2>3, RunPumps
<1>4. ASSUME NEW i \in Instances, NEW t \in Tasks, TimerFires(i, t)
      PROVE  Stranded(j) \/ ManualRunEnds(j)
  <2>1. /\ phase' = phase /\ running' = running /\ pumping = {}
        /\ \/ queue' = queue /\ pumping' = pumping
           \/ pumping' = {i} /\ (i # j => queue'[j] = queue[j])
    BY <1>1, <1>4 DEF TimerFires, Quiet
  <2>2. CASE queue'[j] = queue[j]
    BY <1>1, <2>1, <2>2, NotStranded
  <2>3. CASE i = j /\ pumping' = {i}
    BY <2>3 DEF Stranded
  <2> QED
    BY <2>1, <2>2, <2>3
<1>5. ASSUME NEW i \in Instances, PumpStarts(i)
      PROVE  Stranded(j) \/ ManualRunEnds(j)
  <2>1. /\ phase' = phase /\ pumping' = pumping /\ i \in pumping
        /\ i # j => queue'[j] = queue[j] /\ running'[j] = running[j]
    <3>1. phase' = phase /\ pumping' = pumping /\ i \in pumping
      BY <1>5 DEF PumpStarts
    <3>2. i # j => queue'[j] = queue[j]
      BY <1>1, <1>5 DEF PumpStarts
    <3>3. i # j => running'[j] = running[j]
      BY <1>1, <1>5 DEF PumpStarts, TakeSlot
    <3> QED
      BY <3>1, <3>2, <3>3
  <2>2. CASE i = j
    BY <2>1, <2>2 DEF Stranded
  <2>3. CASE i # j
    BY <1>1, <2>1, <2>3, NotStranded
  <2> QED
    BY <2>2, <2>3
<1>6. ASSUME NEW i \in Instances, PumpEnds(i)
      PROVE  Stranded(j) \/ ManualRunEnds(j)
  <2>1. /\ UNCHANGED <<phase, queue, running>>
        /\ i \in pumping /\ Startable(i) = {}
    BY <1>6 DEF PumpEnds
  <2>2. j \in pumping => Startable(j) = {}
    BY <1>1, <2>1 DEF OnePump
  <2> QED
    BY <1>1, <2>1, <2>2, NotStranded
<1>7. ASSUME NEW i \in Instances, NEW t \in Tasks, RunNow(i, t)
      PROVE  Stranded(j) \/ ManualRunEnds(j)
  <2>1. /\ UNCHANGED <<phase, queue, pumping>>
        /\ running[j] \subseteq running'[j]
    BY <1>1, <1>7 DEF RunNow, TakeSlot
  <2> QED
    BY <1>1, <2>1, NotStranded
<1>8. ASSUME NEW i \in Instances, Stop(i) \/ Crash(i)
      PROVE  Stranded(j) \/ ManualRunEnds(j)
  <2>1. CASE i = j
    BY <1>1, <1>8, <2>1 DEF Stop, Crash, Stranded, Startable
  <2>2. CASE i # j
    <3>1. /\ phase'[j] = phase[j] /\ queue'[j] = queue[j]
          /\ running'[j] = running[j] /\ pumping' = pumping
      BY <1>1, <1>8, <2>2 DEF Stop, Crash
    <3> QED
      BY <1>1, <3>1, NotStranded
  <2> QED
    BY <2>1, <2>2
<1>9. ASSUME NEW i \in Instances, NEW h \in Handlers, Start(i, h)
      PROVE  Stranded(j) \/ ManualRunEnds(j)
  <2>1. /\ UNCHANGED <<queue, running, pumping>> /\ phase[i] = "down"
        /\ i # j => phase'[j] = phase[j]
    BY <1>1, <1>9 DEF Start
  <2>2. CASE i # j
    BY <1>1, <2>1, <2>2, NotStranded
  <2>3. CASE i = j
    <3>1. queue'[j] = <<>>
      BY <1>1, <2>1, <2>3 DEF Silent
    <3>2. Startable(j)' = {}
      BY <3>1 DEF Startable
    <3> QED
      BY <3>2 DEF Stranded
  <2> QED
    BY <2>2, <2>3
<1>10. ASSUME NEW i \in Instances, NEW h \in Handlers,
              \/ HandlerStep(i, h) \/ HandlerErrs(i, h)
              \/ Request(i, h) /\ ~Start(i, h)
       PROVE  Stranded(j) \/ ManualRunEnds(j)
  <2>1. UNCHANGED <<phase, queue, running, pumping>>
    BY <1>10 DEF HandlerStep, HandlerErrs, Request, Reconcile, PatchNext,
       Saved, EditSaved, Removed, List, EditListed, Delete, Save
  <2> QED
    BY <1>2, <2>1
<1>11. CASE Tick \/ UNCHANGED vars
  BY <1>2, <1>11 DEF Tick, vars
<1> QED
  BY <1>3, <1>4, <1>5, <1>6, <1>7, <1>8, <1>9, <1>10, <1>11 DEF Next, Pump

(***************************************************************************)
(* No wake-up of the queue is lost but those of manual runs: whatever      *)
(* frees a slot, queues an entry or moves the process on, an entry that    *)
(* could start is left to a pump under way.  Only the end of a manual run, *)
(* after which runNow does not pump, leaves one behind.                    *)
(***************************************************************************)
THEOREM OnlyManualRunsStrand ==
  Spec => [][\A i \in Instances :
               Stranded(i)' => Stranded(i) \/ ManualRunEnds(i)]_vars
<1>1. Init => TypeInv /\ PumpInv
  BY TypeInvInit, PumpInvInit
<1>2. TypeInv /\ PumpInv /\ [Next]_vars => TypeInv' /\ PumpInv'
  BY TypeInvStep, PumpInvStep
<1>3. TypeInv /\ TypeInv' /\ PumpInv /\ PumpInv' /\ [Next]_vars
        => [\A i \in Instances :
              Stranded(i)' => Stranded(i) \/ ManualRunEnds(i)]_vars
  BY StrandedStep
<1> QED
  BY <1>1, <1>2, <1>3, PTL DEF Spec

\* Without manual runs only the pump takes slots.
LEMMA OnlyPumpStarts ==
  ASSUME TypeInv, Budget["manuals"] = 0, [Next]_vars,
         NEW j \in Instances, NEW u \in Tasks, TakesSlot(j, u)
  PROVE  ~run'[j][u].manual
<1>1. /\ run \in [Instances -> [Tasks -> RunRec]]
      /\ running \in [Instances -> SUBSET Tasks]
      /\ used["manuals"] \in Nat
  BY DEF TypeInv, TypeOK, Events
<1>2. ~(running'[j] \subseteq running[j])
  BY DEF TakesSlot
<1>3. ASSUME NEW i \in Instances, NEW t \in Tasks, RunStep(i, t) \/ RunFault(i, t)
      PROVE  FALSE
  <2>1. \/ running' = running
        \/ running' = [running EXCEPT ![i] = @ \ {t}]
    BY <1>3, RunPumps DEF EndRun
  <2> QED
    BY <1>1, <1>2, <2>1
<1>4. ASSUME NEW i \in Instances, NEW t \in Tasks, RunNow(i, t)
      PROVE  FALSE
  BY <1>1, <1>4 DEF RunNow, Happens
<1>5. ASSUME NEW i \in Instances, PumpStarts(i)
      PROVE  ~run'[j][u].manual
  <2> DEFINE t == queue[i][Min(Startable(i))].task
             sf == queue[i][Min(Startable(i))].sf
  <2>1. TakeSlot(i, t, FALSE, sf)
    BY <1>2, <1>5 DEF PumpStarts
  <2> HIDE DEF t, sf
  <2>2. running' = [running EXCEPT ![i] = @ \cup {t}]
    BY <2>1 DEF TakeSlot
  <2>3. i = j /\ t = u
    BY <1>1, <2>2 DEF TakesSlot
  <2> QED
    BY <1>1, <2>1, <2>3 DEF TakeSlot
<1>6. ASSUME NEW i \in Instances,
             PumpEnds(i) \/ Stop(i) \/ Crash(i)
      PROVE  FALSE
  BY <1>1, <1>2, <1>6 DEF PumpEnds, Stop, Crash
<1>7. ASSUME NEW i \in Instances, NEW t \in Tasks, TimerFires(i, t)
      PROVE  FALSE
  BY <1>2, <1>7 DEF TimerFires
<1>8. ASSUME NEW i \in Instances, NEW h \in Handlers,
             HandlerStep(i, h) \/ HandlerErrs(i, h) \/ Request(i, h)
      PROVE  FALSE
  <2>1. running' = running
    BY <1>8 DEF HandlerStep, HandlerErrs, Request, Reconcile, PatchNext,
       Saved, EditSaved, Removed, Start, List, EditListed, Delete, Save
  <2> QED
    BY <1>2, <2>1
<1>9. CASE Tick \/ UNCHANGED vars
  BY <1>2, <1>9 DEF Tick, vars
<1> QED
  BY <1>3, <1>4, <1>5, <1>6, <1>7, <1>8, <1>9 DEF Next, Pump

(***************************************************************************)
(* Where nobody starts runs by hand, the queue never holds an entry that   *)
(* could start unless it is being pumped: what waits there, waits for a    *)
(* run of its process to end, which pumps again.                           *)
(***************************************************************************)
THEOREM QueueServed ==
  ASSUME Budget["manuals"] = 0
  PROVE  Spec => [](\A i \in Instances : ~Stranded(i))
<1> DEFINE NoManual == \A i \in Instances, t \in Tasks :
                         run[i][t].pc # "idle" => ~run[i][t].manual
           Served == \A i \in Instances : ~Stranded(i)
<1>1. Init => NoManual /\ Served
  BY DEF Init, NoRun, Stranded, Startable
<1>2. TypeInv /\ NoManual /\ [Next]_vars => NoManual'
  <2> SUFFICES ASSUME TypeInv, NoManual, [Next]_vars,
                      NEW j \in Instances, NEW u \in Tasks,
                      run'[j][u].pc # "idle"
               PROVE  ~run'[j][u].manual
    OBVIOUS
  <2>1. run[j][u].pc # "idle" => ~run[j][u].manual
    OBVIOUS
  <2>2. CASE ~(\E t \in Tasks : TakesSlot(j, t))
    BY <2>1, <2>2, SlotStep DEF SlotChange, KeepsSlots, DropsSlots, FreesSlot,
       SameRuns
  <2>3. ASSUME NEW t \in Tasks, TakesSlot(j, t)
        PROVE  ~run'[j][t].manual
    BY <2>3, OnlyPumpStarts
  <2>4. ASSUME NEW t \in Tasks, TakesSlot(j, t)
        PROVE  ~run'[j][u].manual
    BY <2>1, <2>3, <2>4 DEF TakesSlot, SameRuns
  <2> QED
    BY <2>2, <2>4
<1>3. TypeInv /\ TypeInv' /\ PumpInv /\ PumpInv' /\ NoManual /\ Served /\ [Next]_vars
        => Served'
  BY StrandedStep DEF ManualRunEnds
<1> HIDE DEF NoManual, Served
<1>4. Spec => []Served
  BY <1>1, <1>2, <1>3, TypeInvInit, TypeInvStep, PumpInvInit, PumpInvStep,
     PTL DEF Spec
<1> QED
  BY <1>4 DEF Served
=============================================================================
