----------------------- MODULE ScheduledClaims_proofs -----------------------
(***************************************************************************)
(* An occurrence is claimed at most once over all processes, and they      *)
(* implement OccurrenceDispatch, for every set of processes, tasks and     *)
(* schedules, all limits, and any number of faults, crashes, stops,        *)
(* listings, manual runs and, of recurring tasks, edits: as long as no     *)
(* request puts back the state of a task or drops it, and no claim comes   *)
(* later than the next occurrence.  The run sched_late_claim shows that    *)
(* the latter is needed.                                                   *)
(***************************************************************************)
EXTENDS ScheduledTasks_proofs

\* Tasks come without runtime state; nobody saves a task as it was listed, or
\* deletes it; a once schedule has one occurrence, and where tasks are edited
\* there is none: consuming a once task would put back what memory held.
NoResets ==
  /\ Budget["listedEdits"] = 0 /\ Budget["deletes"] = 0
  /\ NoTask \notin Tasks
  /\ \A t \in Tasks : InitialDisk[t] # NoTask =>
       InitialDisk[t].next = NoTime /\ InitialDisk[t].lastFor = NoTime
  /\ \A s \in Schedules : Kind[s] = "once" =>
       Budget["edits"] = 0 /\ \A a, b \in Occ[s] : a = b

\* The schedules a task may ever have, and their occurrences.
May(t) == IF Budget["edits"] = 0 THEN {InitialDisk[t].sched} ELSE Schedules
MayOcc(t) == UNION {Occ[s] : s \in May(t)}

\* A run still waits for the claim of its occurrence only until the next one.
ClaimsInTime ==
  \A i \in Instances, t \in Tasks :
    run[i][t].pc = "claim" /\ disk[t] # NoTask =>
      \A o \in MayOcc(t) : o > run[i][t].sf => now < o
-----------------------------------------------------------------------------
(* Whatever a process holds of a task, on disk, in memory, in a run or in  *)
(* a listing, carries a schedule the task may have and its occurrences.    *)

OptOcc(t) == MayOcc(t) \cup {NoTime}

Proper(t, x) ==
  x # NoTask => x.sched \in May(t) /\ x.next \in OptOcc(t) /\ x.lastFor \in OptOcc(t)

DiskProper == \A t \in Tasks : Proper(t, disk[t])
MemProper == \A i \in Instances, t \in Tasks : Proper(t, mem[i][t])
TimersProper == \A i \in Instances, t \in Tasks : timer[i][t] \in OptOcc(t)

\* The entries a queue may hold at time n.
Due(n) == {e \in [task : Tasks, sf : Nat] : e.sf \in MayOcc(e.task) /\ e.sf <= n}
QueuesDue == \A i \in Instances : queue[i] \in Seq(Due(now))

RunProper(t, r, n) ==
  /\ Proper(t, r.task) /\ r.next \in OptOcc(t)
  /\ r.pc = "claim" => ~r.manual /\ r.sf \in MayOcc(t) /\ r.sf <= n
  /\ r.pc = "begin" => r.manual
RunsProper == \A i \in Instances, t \in Tasks : RunProper(t, run[i][t], now)

\* The only requests are starts, listings, and saves of tasks without state.
HandlerProper(hd) ==
  /\ hd.pc \in {"idle", "reconcile", "patch", "save"}
  /\ IF hd.pc = "save"
     THEN /\ hd.payload # NoTask /\ hd.payload.sched \in May(hd.target)
          /\ hd.payload.lastFor = NoTime /\ hd.payload.next = NoTime
     ELSE hd.payload = NoTask /\ hd.target = NoTask
  /\ \A t \in Tasks : Proper(t, hd.snap[t])
  /\ hd.pc = "patch" => hd.next \in OptOcc(hd.cur)
HandlersProper == \A i \in Instances, h \in Handlers : HandlerProper(handler[i][h])

ProperInv ==
  /\ DiskProper /\ MemProper /\ TimersProper /\ QueuesDue /\ RunsProper /\ HandlersProper

LEMMA NoneProper ==
  ASSUME NEW t, NEW n
  PROVE  /\ Proper(t, NoTask) /\ NoTime \in OptOcc(t)
         /\ RunProper(t, NoRun, n) /\ HandlerProper(NoHandler)
         /\ \A ps : HandlerProper(Syncing(ps))
<1>1. Proper(t, NoTask) /\ NoTime \in OptOcc(t)
  BY DEF Proper, OptOcc
<1>2. RunProper(t, NoRun, n)
  BY <1>1 DEF RunProper, NoRun
<1>3. \A u \in Tasks : Proper(u, NoHandler.snap[u])
  BY DEF NoHandler, Proper
<1>4. HandlerProper(NoHandler)
  BY <1>3 DEF HandlerProper, NoHandler
<1>5. ASSUME NEW ps
      PROVE  HandlerProper(Syncing(ps))
  <2>1. /\ Syncing(ps).pc = "reconcile" /\ Syncing(ps).payload = NoTask
        /\ Syncing(ps).target = NoTask /\ Syncing(ps).snap = NoHandler.snap
    BY DEF Syncing, NoHandler
  <2>2. QED
    BY <1>3, <2>1 DEF HandlerProper
<1>6. QED
  BY <1>1, <1>2, <1>4, <1>5

LEMMA ProperNext ==
  ASSUME NEW t \in Tasks, NEW x \in TaskRec, x # NoTask, Proper(t, x), NEW n \in Int
  PROVE  NextRun(x, n) \in OptOcc(t)
  BY NextRunType DEF Proper, OptOcc, MayOcc

\* The occurrences of a task that is there are times.
LEMMA MayOccTimes ==
  ASSUME NEW t \in Tasks, NEW x \in TaskRec, Proper(t, x)
  PROVE  MayOcc(t) \subseteq AllOcc /\ MayOcc(t) \subseteq Nat
<1>1. x # NoTask /\ x.sched \in Schedules
  BY ScheduledTasksAssumption DEF TaskRec
<1>2. May(t) \subseteq Schedules
  BY <1>1 DEF Proper, May
<1>3. QED
  BY <1>2, ScheduledTasksAssumption DEF MayOcc, AllOcc

LEMMA ProperRearmed ==
  ASSUME NEW i \in Instances, NEW t \in Tasks, NEW x \in TaskRec, x # NoTask,
         Proper(t, x), NEW n \in Int, timer[i][t] \in OptOcc(t)
  PROVE  Rearmed(i, t, x, n) \in OptOcc(t)
<1>1. NextRun(x, n) \in OptOcc(t) /\ x.next \in OptOcc(t) /\ NoTime \in OptOcc(t)
  BY ProperNext, NoneProper DEF Proper
<1>2. QED
  BY <1>1 DEF Rearmed, ArmedIfFuture, Armed

\* A task with another status, time to come or switch is still proper.
LEMMA ProperParts ==
  ASSUME NEW t \in Tasks, NEW x \in TaskRec, x # NoTask, Proper(t, x)
  PROVE  /\ \A s \in Statuses :
              LET y == [x EXCEPT !.status = s]
              IN  Proper(t, y) /\ y.lastFor = x.lastFor
         /\ \A n \in OptOcc(t) :
              LET y == [x EXCEPT !.next = n]
              IN  Proper(t, y) /\ y.lastFor = x.lastFor
         /\ \A s \in Statuses, n \in OptOcc(t) :
              LET y == [x EXCEPT !.status = s, !.next = n]
              IN  Proper(t, y) /\ y.lastFor = x.lastFor
         /\ \A b \in BOOLEAN :
              LET y == [x EXCEPT !.enabled = b]
              IN  Proper(t, y) /\ y.lastFor = x.lastFor
         /\ \A s \in Statuses, n, o \in OptOcc(t) :
              LET y == [x EXCEPT !.lastFor = o, !.next = n, !.status = s]
              IN  Proper(t, y) /\ y.lastFor = o
  BY DEF Proper, TaskRec
-----------------------------------------------------------------------------
(* Updates of one variable.                                                *)

LEMMA DiskKept ==
  ASSUME TypeInv, DiskProper, NEW t \in Tasks, NEW d, Proper(t, d), SetDisk(t, d)
  PROVE  DiskProper'
  BY DEF DiskProper, SetDisk, TypeInv, TypeOK

LEMMA MemKept ==
  ASSUME TypeInv, MemProper, NEW i \in Instances, NEW t \in Tasks, NEW d, Proper(t, d),
         SetMem(i, t, d)
  PROVE  MemProper'
  BY DEF MemProper, SetMem, TypeInv, TypeOK

LEMMA TimersKept ==
  ASSUME TypeInv, TimersProper, NEW i \in Instances, NEW t \in Tasks, NEW at \in OptOcc(t),
         SetTimer(i, t, at)
  PROVE  TimersProper'
  BY DEF TimersProper, SetTimer, TypeInv, TypeOK

LEMMA RunsKept ==
  ASSUME TypeInv, RunsProper, NEW i \in Instances, NEW t \in Tasks, NEW r,
         RunProper(t, r, now), run' = [run EXCEPT ![i][t] = r], now' = now
  PROVE  RunsProper'
<1>1. ASSUME NEW j \in Instances, NEW u \in Tasks
      PROVE  RunProper(u, run'[j][u], now')
  <2>1. run'[j][u] = run[j][u] \/ (u = t /\ run'[j][u] = r)
    BY DEF TypeInv, TypeOK
  <2>2. RunProper(u, run[j][u], now)
    BY DEF RunsProper
  <2>3. QED
    BY <2>1, <2>2
<1>2. QED
  BY <1>1 DEF RunsProper

LEMMA HandlersKept ==
  ASSUME TypeInv, HandlersProper, NEW i \in Instances, NEW h \in Handlers, NEW hd,
         HandlerProper(hd), SetHandler(i, h, hd)
  PROVE  HandlersProper'
<1>1. ASSUME NEW j \in Instances, NEW g \in Handlers
      PROVE  HandlerProper(handler'[j][g])
  <2>1. handler'[j][g] = handler[j][g] \/ handler'[j][g] = hd
    BY DEF SetHandler, TypeInv, TypeOK
  <2>2. HandlerProper(handler[j][g])
    BY DEF HandlersProper
  <2>3. QED
    BY <2>1, <2>2
<1>2. QED
  BY <1>1 DEF HandlersProper

LEMMA QueueKept ==
  ASSUME TypeInv, QueuesDue, NEW i \in Instances, NEW q \in Seq(Due(now)),
         queue' = [queue EXCEPT ![i] = q], now' = now
  PROVE  QueuesDue'
<1>1. ASSUME NEW j \in Instances
      PROVE  queue'[j] \in Seq(Due(now'))
  <2>1. queue'[j] = queue[j] \/ queue'[j] = q
    BY DEF TypeInv, TypeOK
  <2>2. queue[j] \in Seq(Due(now))
    BY DEF QueuesDue
  <2>3. QED
    BY <2>1, <2>2
<1>2. QED
  BY <1>1 DEF QueuesDue

\* What a step leaves alone stays proper.
LEMMA KeptAlone ==
  ASSUME ProperInv, now' = now
  PROVE  /\ disk' = disk => DiskProper'
         /\ mem' = mem => MemProper'
         /\ timer' = timer => TimersProper'
         /\ queue' = queue => QueuesDue'
         /\ run' = run => RunsProper'
         /\ handler' = handler => HandlersProper'
<1> USE DEF ProperInv
<1>1. disk' = disk => DiskProper'
  BY DEF DiskProper
<1>2. mem' = mem => MemProper'
  BY DEF MemProper
<1>3. timer' = timer => TimersProper'
  BY DEF TimersProper
<1>4. queue' = queue => QueuesDue'
  BY DEF QueuesDue
<1>5. run' = run => RunsProper'
  BY DEF RunsProper
<1>6. handler' = handler => HandlersProper'
  BY DEF HandlersProper
<1>7. QED
  BY <1>1, <1>2, <1>3, <1>4, <1>5, <1>6

LEMMA EndKept ==
  ASSUME TypeInv, ProperInv, NEW i \in Instances, NEW t \in Tasks, EndRun(i, t), now' = now
  PROVE  RunsProper'
  BY NoneProper, RunsKept DEF EndRun, ProperInv

LEMMA BodyKept ==
  ASSUME TypeInv, ProperInv, NEW i \in Instances, NEW t \in Tasks, now' = now,
         \/ ToBody(i, t)
         \/ GoOn(i, t, "claimfailed")
         \/ GoOn(i, t, "retry")
  PROVE  RunsProper'
<1>1. run[i][t] \in RunRec /\ RunProper(t, run[i][t], now)
  BY DEF TypeInv, TypeOK, ProperInv, RunsProper
<1>2. CASE ToBody(i, t)
  <2> DEFINE r == [run[i][t] EXCEPT !.pc = "body", !.from = NoTime, !.next = NoTime]
  <2>1. /\ r.task = run[i][t].task /\ r.next = NoTime /\ r.pc = "body"
    BY <1>1 DEF RunRec
  <2>2. run' = [run EXCEPT ![i][t] = r]
    BY <1>2 DEF ToBody
  <2> HIDE DEF r
  <2>3. RunProper(t, r, now)
    BY <1>1, <2>1, NoneProper DEF RunProper
  <2>4. QED
    BY <2>2, <2>3, RunsKept DEF ProperInv
<1>3. ASSUME NEW label \in {"claimfailed", "retry"}, GoOn(i, t, label)
      PROVE  RunsProper'
  <2> DEFINE r == [run[i][t] EXCEPT !.pc = label]
  <2>1. /\ r.task = run[i][t].task /\ r.next = run[i][t].next /\ r.pc = label
    BY <1>1 DEF RunRec
  <2>2. run' = [run EXCEPT ![i][t] = r]
    BY <1>3 DEF GoOn, TypeInv, TypeOK
  <2> HIDE DEF r
  <2>3. RunProper(t, r, now)
    BY <1>1, <2>1 DEF RunProper
  <2>4. QED
    BY <2>2, <2>3, RunsKept DEF ProperInv
<1>4. QED
  BY <1>2, <1>3

LEMMA TakeKept ==
  ASSUME TypeInv, ProperInv, NEW i \in Instances, NEW t \in Tasks, Admitted(i, t), now' = now,
         NEW manual \in BOOLEAN, NEW sf,
         ~manual => sf \in MayOcc(t) /\ sf <= now,
         TakeSlot(i, t, manual, sf)
  PROVE  RunsProper'
<1> DEFINE n == IF manual THEN NoTime ELSE NextRun(mem[i][t], now)
           r == [pc |-> IF manual THEN "begin" ELSE "claim", manual |-> manual,
                 sf |-> sf, from |-> now, next |-> n, task |-> mem[i][t], ok |-> FALSE]
<1>1. /\ mem[i][t] \in TaskRec /\ mem[i][t] # NoTask /\ Proper(t, mem[i][t]) /\ now \in Int
  BY DEF Admitted, ProperInv, MemProper, TypeInv, TypeOK, OptTask
<1>2. n \in OptOcc(t)
  BY <1>1, ProperNext, NoneProper
<1>3. run' = [run EXCEPT ![i][t] = r]
  BY DEF TakeSlot
<1>4. RunProper(t, r, now)
  <2> HIDE DEF n
  <2>1. /\ r.task = mem[i][t] /\ r.next = n /\ r.sf = sf /\ r.manual = manual
        /\ r.pc = IF manual THEN "begin" ELSE "claim"
    OBVIOUS
  <2> HIDE DEF r
  <2>2. QED
    BY <1>1, <1>2, <2>1 DEF RunProper
<1> HIDE DEF r
<1>5. QED
  BY <1>3, <1>4, RunsKept DEF ProperInv

LEMMA SyncKept ==
  ASSUME TypeInv, ProperInv, NEW i \in Instances, NEW h \in Handlers, now' = now,
         NEW hd \in HandlerRec, NEW todo \in SUBSET Tasks,
         hd.payload = NoTask, hd.target = NoTask,
         \A t \in todo : hd.snap[t] # NoTask,
         \A t \in Tasks : Proper(t, hd.snap[t]),
         GoOnSyncing(i, h, hd, todo)
  PROVE  HandlersProper'
<1>1. ASSUME NEW t \in todo,
             SetHandler(i, h, [hd EXCEPT !.pc = "patch", !.cur = t, !.todo = todo \ {t},
                                         !.next = NextRun(hd.snap[t], now)])
      PROVE  HandlersProper'
  <2> DEFINE n == NextRun(hd.snap[t], now)
             new == [hd EXCEPT !.pc = "patch", !.cur = t, !.todo = todo \ {t}, !.next = n]
  <2>1. hd.snap[t] \in TaskRec /\ now \in Int /\ hd.snap[t] # NoTask
    BY DEF HandlerRec, OptTask, TypeInv, TypeOK
  <2>2. n \in OptOcc(t)
    BY <2>1, ProperNext
  <2> HIDE DEF n
  <2>3. /\ new.pc = "patch" /\ new.payload = NoTask /\ new.target = NoTask
        /\ new.snap = hd.snap /\ new.next = n /\ new.cur = t
    BY DEF HandlerRec
  <2>4. SetHandler(i, h, new)
    BY <1>1 DEF n
  <2> HIDE DEF new
  <2>5. HandlerProper(new)
    BY <2>2, <2>3 DEF HandlerProper
  <2>6. QED
    BY <2>4, <2>5, HandlersKept DEF ProperInv
<1>2. CASE SetHandler(i, h, Syncing(hd.projs))
  BY <1>2, NoneProper, HandlersKept DEF ProperInv
<1>3. CASE SetHandler(i, h, NoHandler)
  BY <1>3, NoneProper, HandlersKept DEF ProperInv
<1>4. QED
  BY <1>1, <1>2, <1>3 DEF GoOnSyncing
-----------------------------------------------------------------------------
(* Every step keeps what processes hold of a task proper.                  *)

LEMMA TickProper ==
  ASSUME TypeInv, ProperInv, Tick
  PROVE  ProperInv'
<1>1. now \in Nat /\ now' = now + 1
  BY DEF Tick, TypeInv, TypeOK
<1>2. DiskProper' /\ MemProper' /\ TimersProper' /\ HandlersProper'
  BY DEF Tick, ProperInv, DiskProper, MemProper, TimersProper, HandlersProper
<1>3. Due(now) \subseteq Due(now')
  BY <1>1 DEF Due
<1>4. QueuesDue'
  <2>1. ASSUME NEW i \in Instances
        PROVE  queue'[i] \in Seq(Due(now'))
    <3>1. queue[i] \in Seq(Due(now)) /\ queue' = queue
      BY DEF ProperInv, QueuesDue, Tick
    <3>2. QED
      BY <1>3, <3>1
  <2>2. QED
    BY <2>1 DEF QueuesDue
<1>5. RunsProper'
  <2>1. ASSUME NEW i \in Instances, NEW t \in Tasks
        PROVE  RunProper(t, run'[i][t], now')
    <3>1. RunProper(t, run[i][t], now) /\ run' = run
      BY DEF ProperInv, RunsProper, Tick
    <3>2. run[i][t].pc = "claim" /\ run[i][t].sf <= now => run[i][t].sf <= now'
      <4>1. run[i][t].sf \in Int
        BY DEF TypeInv, TypeOK, RunRec, OptTime, NoTime
      <4>2. QED
        BY <1>1, <4>1
    <3>3. QED
      BY <3>1, <3>2 DEF RunProper
  <2>2. QED
    BY <2>1 DEF RunsProper
<1>6. QED
  BY <1>2, <1>4, <1>5 DEF ProperInv

LEMMA TimerFiresProper ==
  ASSUME TypeInv, ProperInv, NEW i \in Instances, NEW t \in Tasks, TimerFires(i, t)
  PROVE  ProperInv'
<1>1. /\ now' = now /\ disk' = disk /\ mem' = mem /\ run' = run /\ handler' = handler
      /\ SetTimer(i, t, NoTime)
      /\ timer[i][t] # NoTime /\ now >= timer[i][t]
  BY DEF TimerFires
<1>2. TimersProper'
  BY <1>1, NoneProper, TimersKept DEF ProperInv
<1>3. QueuesDue'
  <2> DEFINE e == [task |-> t, sf |-> timer[i][t]]
  <2>1. timer[i][t] \in MayOcc(t) /\ timer[i][t] \in Nat
    BY <1>1 DEF ProperInv, TimersProper, OptOcc, TypeInv, TypeOK, OptTime
  <2>2. e \in Due(now)
    BY <1>1, <2>1 DEF Due
  <2> HIDE DEF e
  <2>3. Append(queue[i], e) \in Seq(Due(now))
    BY <2>2 DEF ProperInv, QueuesDue
  <2>4. queue' = queue \/ queue' = [queue EXCEPT ![i] = Append(queue[i], e)]
    BY DEF TimerFires, e
  <2>5. QED
    BY <1>1, <2>3, <2>4, QueueKept, KeptAlone DEF ProperInv
<1>4. QED
  BY <1>1, <1>2, <1>3, KeptAlone DEF ProperInv

LEMMA PumpProper ==
  ASSUME TypeInv, ProperInv, NEW i \in Instances, PumpStarts(i)
  PROVE  ProperInv'
<1> DEFINE k == Min(Startable(i))
           t == queue[i][k].task
<1>1. /\ now' = now /\ disk' = disk /\ mem' = mem /\ timer' = timer /\ handler' = handler
      /\ queue' = [queue EXCEPT ![i] = RemoveAt(queue[i], k)]
      /\ \/ run' = run
         \/ Admitted(i, t) /\ TakeSlot(i, t, FALSE, queue[i][k].sf)
  BY DEF PumpStarts
<1>2. k \in DOMAIN queue[i]
  BY StartableEntry DEF PumpStarts, TypeInv
<1>3. queue[i] \in Seq(Due(now))
  BY DEF ProperInv, QueuesDue
<1> HIDE DEF k
<1>4. queue[i][k] \in Due(now) /\ RemoveAt(queue[i], k) \in Seq(Due(now))
  <2>1. queue[i][k] \in Due(now)
    BY <1>2, <1>3, ElementOfSeq
  <2>2. QED
    BY <1>2, <1>3, <2>1, RemoveAtType
<1>5. /\ t \in Tasks /\ queue[i][k].sf \in MayOcc(t) /\ queue[i][k].sf <= now
  BY <1>4 DEF Due
<1>6. QueuesDue'
  BY <1>1, <1>4, QueueKept DEF ProperInv
<1>7. RunsProper'
  <2>1. CASE run' = run
    BY <1>1, <2>1, KeptAlone
  <2>2. CASE Admitted(i, t) /\ TakeSlot(i, t, FALSE, queue[i][k].sf)
    <3> HIDE DEF t
    <3>1. QED
      BY <1>1, <1>5, <2>2, TakeKept
  <2>3. QED
    BY <1>1, <2>1, <2>2
<1>8. QED
  BY <1>1, <1>6, <1>7, KeptAlone DEF ProperInv

LEMMA RunNowProper ==
  ASSUME TypeInv, ProperInv, NEW i \in Instances, NEW t \in Tasks, RunNow(i, t)
  PROVE  ProperInv'
<1>1. /\ now' = now /\ disk' = disk /\ mem' = mem /\ timer' = timer /\ queue' = queue
      /\ handler' = handler /\ Admitted(i, t) /\ TakeSlot(i, t, TRUE, NoTime)
  BY DEF RunNow
<1>2. RunsProper'
  BY <1>1, TakeKept
<1>3. QED
  BY <1>1, <1>2, KeptAlone DEF ProperInv

LEMMA StopProper ==
  ASSUME TypeInv, ProperInv, NEW i \in Instances, Stop(i) \/ Crash(i)
  PROVE  ProperInv'
<1>1. now' = now /\ disk' = disk
  BY DEF Stop, Crash
<1>2. TimersProper'
  <2>1. timer' = [timer EXCEPT ![i] = [t \in Tasks |-> NoTime]]
    BY DEF Stop, Crash
  <2>2. ASSUME NEW j \in Instances, NEW u \in Tasks
        PROVE  timer'[j][u] \in OptOcc(u)
    <3>1. timer'[j][u] = timer[j][u] \/ timer'[j][u] = NoTime
      BY <2>1 DEF TypeInv, TypeOK
    <3>2. QED
      BY <3>1, NoneProper DEF ProperInv, TimersProper
  <2>3. QED
    BY <2>2 DEF TimersProper
<1>3. QueuesDue'
  <2>1. queue' = [queue EXCEPT ![i] = <<>>] /\ <<>> \in Seq(Due(now))
    BY DEF Stop, Crash
  <2>2. QED
    BY <1>1, <2>1, QueueKept DEF ProperInv
<1>4. MemProper' /\ RunsProper' /\ HandlersProper'
  <2>1. CASE Stop(i)
    BY <1>1, <2>1, KeptAlone DEF Stop
  <2>2. CASE Crash(i)
    <3>1. MemProper'
      BY <2>2, NoneProper DEF Crash, ProperInv, MemProper, TypeInv, TypeOK
    <3>2. RunsProper'
      <4>1. ASSUME NEW j \in Instances, NEW u \in Tasks
            PROVE  RunProper(u, run'[j][u], now')
        <5>1. run'[j][u] = run[j][u] \/ run'[j][u] = NoRun
          BY <2>2 DEF Crash, TypeInv, TypeOK
        <5>2. RunProper(u, run[j][u], now) /\ RunProper(u, NoRun, now)
          BY NoneProper DEF ProperInv, RunsProper
        <5>3. QED
          BY <1>1, <5>1, <5>2
      <4>2. QED
        BY <4>1 DEF RunsProper
    <3>3. HandlersProper'
      <4>1. ASSUME NEW j \in Instances, NEW h \in Handlers
            PROVE  HandlerProper(handler'[j][h])
        <5>1. handler'[j][h] = handler[j][h] \/ handler'[j][h] = NoHandler
          BY <2>2 DEF Crash, TypeInv, TypeOK
        <5>2. HandlerProper(handler[j][h]) /\ HandlerProper(NoHandler)
          BY NoneProper DEF ProperInv, HandlersProper
        <5>3. QED
          BY <5>1, <5>2
      <4>2. QED
        BY <4>1 DEF HandlersProper
    <3>4. QED
      BY <3>1, <3>2, <3>3
  <2>3. QED
    BY <2>1, <2>2
<1>5. QED
  BY <1>1, <1>2, <1>3, <1>4, KeptAlone DEF ProperInv

LEMMA ClaimProper ==
  ASSUME TypeInv, ProperInv, NEW i \in Instances, NEW t \in Tasks, ClaimWins(i, t)
  PROVE  ProperInv'
<1> DEFINE d == [disk[t] EXCEPT !.lastFor = run[i][t].sf, !.next = run[i][t].next,
                                !.status = "running"]
<1>1. /\ now' = now /\ timer' = timer /\ queue' = queue /\ handler' = handler
      /\ SetDisk(t, d) /\ SetMem(i, t, d) /\ ToBody(i, t)
      /\ disk[t] # NoTask /\ run[i][t].pc = "claim"
  BY DEF ClaimWins, In
<1>2. disk[t] \in TaskRec /\ Proper(t, disk[t])
  BY <1>1, RunParts DEF ProperInv, DiskProper
<1>3. run[i][t].sf \in OptOcc(t) /\ run[i][t].next \in OptOcc(t)
  BY <1>1 DEF ProperInv, RunsProper, RunProper, OptOcc
<1>4. Proper(t, d)
  BY <1>1, <1>2, <1>3, ProperParts DEF Statuses
<1> HIDE DEF d
<1>5. QED
  BY <1>1, <1>4, DiskKept, MemKept, BodyKept, KeptAlone DEF ProperInv

LEMMA LostProper ==
  ASSUME TypeInv, ProperInv, NEW i \in Instances, NEW t \in Tasks,
         ClaimLost(i, t) \/ TaskGone(i, t)
  PROVE  ProperInv'
<1>1. CASE ClaimLost(i, t)
  <2>1. /\ now' = now /\ disk' = disk /\ queue' = queue /\ handler' = handler
        /\ SetMem(i, t, disk[t]) /\ SetTimer(i, t, Rearmed(i, t, disk[t], now))
        /\ EndRun(i, t) /\ disk[t] # NoTask
    BY <1>1 DEF ClaimLost
  <2>2. disk[t] \in TaskRec /\ Proper(t, disk[t])
    BY <2>1, RunParts DEF ProperInv, DiskProper
  <2>3. now \in Int
    BY DEF TypeInv, TypeOK
  <2>4. Rearmed(i, t, disk[t], now) \in OptOcc(t)
    BY <2>1, <2>2, <2>3, ProperRearmed DEF ProperInv, TimersProper
  <2>5. QED
    BY <2>1, <2>2, <2>4, MemKept, TimersKept, EndKept, KeptAlone DEF ProperInv
<1>2. CASE TaskGone(i, t)
  BY <1>2, EndKept, KeptAlone DEF TaskGone, ProperInv
<1>3. QED
  BY <1>1, <1>2

\* What a run calls the latest task is proper.
LEMMA LatestProper ==
  ASSUME TypeInv, ProperInv, NEW i \in Instances, NEW t \in Tasks, run[i][t].pc # "idle"
  PROVE  /\ Latest(i, t) \in TaskRec /\ Latest(i, t) # NoTask /\ Proper(t, Latest(i, t))
         /\ run[i][t].task \in TaskRec /\ run[i][t].task # NoTask /\ Proper(t, run[i][t].task)
         /\ run[i][t].from \in Int
<1>1. run[i][t] \in RunRec /\ run[i][t].task # NoTask
  BY DEF TypeInv, TypeOK, RunsCarryTasks
<1>2. Latest(i, t) \in TaskRec /\ Latest(i, t) # NoTask
  BY LatestType, ScheduledTasksAssumption
<1>3. Proper(t, mem[i][t]) /\ Proper(t, run[i][t].task)
  BY DEF ProperInv, MemProper, RunsProper, RunProper
<1>4. QED
  BY <1>1, <1>2, <1>3 DEF Latest, RunRec, OptTask, OptTime, NoTime

LEMMA CompletedProper ==
  ASSUME TypeInv, ProperInv, NEW i \in Instances, NEW t \in Tasks, NEW x \in TaskRec,
         x # NoTask, Proper(t, x)
  PROVE  /\ Proper(t, Completed(i, t, x)) /\ Completed(i, t, x).lastFor = x.lastFor
         /\ Completed(i, t, x).next \in OptOcc(t)
<1>1. run[i][t].next \in OptOcc(t)
  BY DEF ProperInv, RunsProper, RunProper
<1>2. Completed(i, t, x).next = run[i][t].next
  BY DEF Completed, TaskRec
<1>3. PICK s \in Statuses :
        Completed(i, t, x) = [x EXCEPT !.status = s, !.next = run[i][t].next]
  BY DEF Completed, Statuses
<1>4. /\ Proper(t, [x EXCEPT !.status = s, !.next = run[i][t].next])
      /\ [x EXCEPT !.status = s, !.next = run[i][t].next].lastFor = x.lastFor
  BY <1>1 DEF Proper, TaskRec
<1>5. QED
  BY <1>1, <1>2, <1>3, <1>4

\* So is what its completion re-arms from.
LEMMA RecoveredProper ==
  ASSUME TypeInv, ProperInv, NEW i \in Instances, NEW t \in Tasks, run[i][t].pc # "idle"
  PROVE  Recovered(i, t) \in TaskRec /\ Recovered(i, t) # NoTask /\ Proper(t, Recovered(i, t))
<1>1. CASE mem[i][t] # NoTask
  BY <1>1, LatestProper DEF Recovered, Latest
<1>2. CASE mem[i][t] = NoTask
  <2>1. Recovered(i, t) = Completed(i, t, run[i][t].task)
    BY <1>2 DEF Recovered
  <2>2. Completed(i, t, run[i][t].task) \in TaskRec
    BY LatestProper, CompletedType
  <2>3. QED
    BY <2>1, <2>2, LatestProper, CompletedProper, ScheduledTasksAssumption
<1>3. QED
  BY <1>1, <1>2

LEMMA ClaimErrsProper ==
  ASSUME TypeInv, ProperInv, NEW i \in Instances, NEW t \in Tasks,
         ClaimErrs(i, t) \/ RetryErrs(i, t)
  PROVE  ProperInv'
<1>1. /\ now' = now /\ disk' = disk /\ mem' = mem /\ queue' = queue /\ handler' = handler
      /\ \E x \in {Latest(i, t), Recovered(i, t)} :
           SetTimer(i, t, Rearmed(i, t, x, run[i][t].from))
      /\ run[i][t].pc # "idle"
      /\ GoOn(i, t, "claimfailed") \/ EndRun(i, t)
  BY DEF ClaimErrs, RetryErrs, In
<1>2. PICK x \in {Latest(i, t), Recovered(i, t)} :
        SetTimer(i, t, Rearmed(i, t, x, run[i][t].from))
  BY <1>1
<1>3. x \in TaskRec /\ x # NoTask /\ Proper(t, x) /\ run[i][t].from \in Int
  BY <1>1, <1>2, LatestProper, RecoveredProper
<1>4. Rearmed(i, t, x, run[i][t].from) \in OptOcc(t)
  BY <1>3, ProperRearmed DEF ProperInv, TimersProper
<1>5. RunsProper'
  BY <1>1, BodyKept, EndKept
<1>6. QED
  BY <1>1, <1>2, <1>4, <1>5, TimersKept, KeptAlone DEF ProperInv

LEMMA RecordProper ==
  ASSUME TypeInv, ProperInv, NEW i \in Instances, NEW t \in Tasks, RecordClaimFailure(i, t)
  PROVE  ProperInv'
<1>1. /\ now' = now /\ timer' = timer /\ queue' = queue /\ handler' = handler
      /\ EndRun(i, t) /\ run[i][t].pc # "idle"
  BY DEF RecordClaimFailure, In
<1>2. DiskProper' /\ MemProper'
  <2>1. CASE disk[t] # NoTask /\ ~ UNCHANGED disk
    <3> DEFINE d == IF AlreadyClaimed(disk[t], run[i][t].sf) THEN disk[t]
                    ELSE [disk[t] EXCEPT !.status = "error"]
    <3>1. SetDisk(t, d) /\ SetMem(i, t, d)
      BY <2>1 DEF RecordClaimFailure
    <3>2. disk[t] \in TaskRec /\ Proper(t, disk[t])
      BY <2>1, RunParts DEF ProperInv, DiskProper
    <3>3. Proper(t, [disk[t] EXCEPT !.status = "error"])
      BY <2>1, <3>2, ProperParts DEF Statuses
    <3>4. Proper(t, d)
      BY <3>2, <3>3
    <3> HIDE DEF d
    <3>5. QED
      BY <3>1, <3>4, DiskKept, MemKept DEF ProperInv
  <2>2. CASE disk[t] # NoTask /\ UNCHANGED disk
    <3> DEFINE d == IF AlreadyClaimed(disk[t], run[i][t].sf) THEN disk[t]
                    ELSE [disk[t] EXCEPT !.status = "error"]
               m == [run[i][t].task EXCEPT !.status = "error"]
    <3>1. SetMem(i, t, d) \/ SetMem(i, t, m)
      BY <2>2 DEF RecordClaimFailure
    <3>2. disk[t] \in TaskRec /\ Proper(t, disk[t])
      BY <2>2, RunParts DEF ProperInv, DiskProper
    <3>3. Proper(t, [disk[t] EXCEPT !.status = "error"])
      BY <2>2, <3>2, ProperParts DEF Statuses
    <3>4. Proper(t, d)
      BY <3>2, <3>3
    <3>5. Proper(t, m)
      BY <1>1, LatestProper, ProperParts DEF Statuses
    <3> HIDE DEF d, m
    <3>6. QED
      BY <1>1, <2>2, <3>1, <3>4, <3>5, MemKept, KeptAlone DEF ProperInv
  <2>3. CASE disk[t] = NoTask
    <3> DEFINE m == [run[i][t].task EXCEPT !.status = "error"]
    <3>1. SetMem(i, t, m) /\ disk' = disk
      BY <2>3 DEF RecordClaimFailure
    <3>2. Proper(t, m)
      BY <1>1, LatestProper, ProperParts DEF Statuses
    <3> HIDE DEF m
    <3>3. QED
      BY <1>1, <3>1, <3>2, MemKept, KeptAlone DEF ProperInv
  <2>4. QED
    BY <2>1, <2>2, <2>3
<1>3. QED
  BY <1>1, <1>2, EndKept, KeptAlone DEF ProperInv

LEMMA BeginProper ==
  ASSUME TypeInv, ProperInv, NEW i \in Instances, NEW t \in Tasks,
         BeginManual(i, t) \/ BeginManualErrs(i, t)
  PROVE  ProperInv'
<1>1. CASE BeginManual(i, t)
  <2> DEFINE d == [disk[t] EXCEPT !.status = "running"]
  <2>1. /\ now' = now /\ timer' = timer /\ queue' = queue /\ handler' = handler
        /\ ToBody(i, t)
        /\ \/ disk[t] # NoTask /\ SetDisk(t, d) /\ SetMem(i, t, d)
           \/ disk' = disk /\ mem' = mem
    BY <1>1 DEF BeginManual
  <2>2. disk[t] # NoTask => Proper(t, d)
    BY RunParts, ProperParts DEF ProperInv, DiskProper, Statuses
  <2> HIDE DEF d
  <2>3. DiskProper' /\ MemProper'
    BY <2>1, <2>2, DiskKept, MemKept, KeptAlone DEF ProperInv
  <2>4. QED
    BY <2>1, <2>3, BodyKept, KeptAlone DEF ProperInv
<1>2. CASE BeginManualErrs(i, t)
  BY <1>2, EndKept, KeptAlone DEF BeginManualErrs, ProperInv
<1>3. QED
  BY <1>1, <1>2

LEMMA BodyEndsProper ==
  ASSUME TypeInv, ProperInv, NEW i \in Instances, NEW t \in Tasks, NEW ok \in BOOLEAN,
         BodyEnds(i, t, ok)
  PROVE  ProperInv'
<1> DEFINE consume == /\ Kind[Latest(i, t).sched] = "once"
                      /\ ~run[i][t].manual
                      /\ Latest(i, t).enabled
           n == IF consume THEN NoTime ELSE NextRun(Latest(i, t), now)
           label == IF consume THEN "consume" ELSE "complete"
           r == [run[i][t] EXCEPT !.pc = label, !.ok = ok, !.from = now,
                                  !.task = Latest(i, t), !.next = n]
<1>1. /\ now' = now /\ disk' = disk /\ mem' = mem /\ timer' = timer /\ queue' = queue
      /\ handler' = handler /\ run' = [run EXCEPT ![i][t] = r] /\ run[i][t].pc # "idle"
  BY DEF BodyEnds, In, TypeInv, TypeOK
<1>2. n \in OptOcc(t)
  <2>1. now \in Int
    BY DEF TypeInv, TypeOK
  <2>2. NextRun(Latest(i, t), now) \in OptOcc(t)
    BY <1>1, <2>1, LatestProper, ProperNext
  <2>3. QED
    BY <2>2, NoneProper
<1>3. label \in {"consume", "complete"}
  OBVIOUS
<1> HIDE DEF n, label
<1>4. r.task = Latest(i, t) /\ r.next = n /\ r.pc = label
  BY DEF TypeInv, TypeOK, RunRec
<1> HIDE DEF r
<1>5. RunProper(t, r, now)
  BY <1>1, <1>2, <1>3, <1>4, LatestProper DEF RunProper
<1>6. QED
  BY <1>1, <1>5, RunsKept, KeptAlone DEF ProperInv

LEMMA ConsumeProper ==
  ASSUME TypeInv, ProperInv, NEW i \in Instances, NEW t \in Tasks, Consume(i, t)
  PROVE  ProperInv'
<1> DEFINE d == [run[i][t].task EXCEPT !.enabled = FALSE]
           n == NextRun(run[i][t].task, run[i][t].from)
           r == [run[i][t] EXCEPT !.pc = "complete", !.task = d]
           q == [run[i][t] EXCEPT !.pc = "complete", !.next = n]
<1>1. /\ now' = now /\ timer' = timer /\ queue' = queue /\ handler' = handler
      /\ run[i][t].pc # "idle"
      /\ \/ SetDisk(t, d) /\ SetMem(i, t, d) /\ run' = [run EXCEPT ![i][t] = r]
         \/ disk' = disk /\ mem' = mem /\ run' = [run EXCEPT ![i][t] = q]
  BY DEF Consume, In, TypeInv, TypeOK
<1>2. run[i][t] \in RunRec /\ RunProper(t, run[i][t], now)
  BY DEF TypeInv, TypeOK, ProperInv, RunsProper
<1>3. Proper(t, d)
  BY <1>1, LatestProper, ProperParts
<1>4. n \in OptOcc(t)
  BY <1>1, LatestProper, ProperNext
<1> HIDE DEF d, n
<1>5. /\ r.task = d /\ r.next = run[i][t].next /\ r.pc = "complete"
      /\ q.task = run[i][t].task /\ q.next = n /\ q.pc = "complete"
  BY <1>2 DEF RunRec
<1> HIDE DEF r, q
<1>6. RunProper(t, r, now) /\ RunProper(t, q, now)
  BY <1>2, <1>3, <1>4, <1>5 DEF RunProper
<1>7. DiskProper' /\ MemProper'
  BY <1>1, <1>3, DiskKept, MemKept, KeptAlone DEF ProperInv
<1>8. RunsProper'
  BY <1>1, <1>6, RunsKept DEF ProperInv
<1>9. QED
  BY <1>1, <1>7, <1>8, KeptAlone DEF ProperInv

LEMMA CompleteProper ==
  ASSUME TypeInv, ProperInv, NEW i \in Instances, NEW t \in Tasks,
         Complete(i, t) \/ CompleteErrs(i, t)
  PROVE  ProperInv'
<1>1. CASE Complete(i, t)
  <2> DEFINE d == Completed(i, t, disk[t])
             at == IF d.enabled THEN ArmedIfFuture(i, t, d.next, run[i][t].from)
                   ELSE timer[i][t]
  <2>1. /\ now' = now /\ queue' = queue /\ handler' = handler /\ EndRun(i, t)
        /\ \/ disk[t] # NoTask /\ SetDisk(t, d) /\ SetMem(i, t, d) /\ SetTimer(i, t, at)
           \/ disk' = disk /\ mem' = mem /\ timer' = timer
    BY <1>1 DEF Complete
  <2>2. disk[t] # NoTask => Proper(t, d) /\ d.next \in OptOcc(t)
    BY RunParts, CompletedProper DEF ProperInv, DiskProper
  <2> HIDE DEF d
  <2>3. disk[t] # NoTask => at \in OptOcc(t)
    BY <2>2, NoneProper DEF ArmedIfFuture, Armed, ProperInv, TimersProper
  <2> HIDE DEF at
  <2>4. DiskProper' /\ MemProper' /\ TimersProper'
    BY <2>1, <2>2, <2>3, DiskKept, MemKept, TimersKept, KeptAlone DEF ProperInv
  <2>5. QED
    BY <2>1, <2>4, EndKept, KeptAlone DEF ProperInv
<1>2. CASE CompleteErrs(i, t)
  <2>1. /\ now' = now /\ disk' = disk /\ timer' = timer /\ queue' = queue
        /\ handler' = handler /\ run[i][t].pc # "idle"
        /\ SetMem(i, t, Completed(i, t, run[i][t].task)) /\ GoOn(i, t, "retry")
    BY <1>2 DEF CompleteErrs, In
  <2>2. Proper(t, Completed(i, t, run[i][t].task))
    BY <2>1, LatestProper, CompletedProper
  <2>3. QED
    BY <2>1, <2>2, MemKept, BodyKept, KeptAlone DEF ProperInv
<1>3. QED
  BY <1>1, <1>2

LEMMA ReconcileProper ==
  ASSUME TypeInv, ProperInv, NoResets, NEW i \in Instances, NEW h \in Handlers,
         Reconcile(i, h)
  PROVE  ProperInv'
<1>1. PICK p \in handler[i][h].projs :
       LET known == {t \in TasksOf(p) : mem[i][t] # NoTask}
           hd == [handler[i][h] EXCEPT
                    !.projs = @ \ {p},
                    !.snap = [t \in Tasks |-> IF t \in TasksOf(p)
                                              THEN disk[t] ELSE NoTask],
                    !.payload = IF handler[i][h].target \in TasksOf(p)
                                THEN disk[handler[i][h].target] ELSE NoTask]
       IN  /\ timer' = [timer EXCEPT ![i] =
                          [t \in Tasks |-> IF t \in known THEN NoTime ELSE @[t]]]
           /\ mem' = [mem EXCEPT ![i] =
                        [t \in Tasks |-> IF t \in TasksOf(p) THEN disk[t]
                                         ELSE @[t]]]
           /\ GoOnSyncing(i, h, hd, {t \in TasksOf(p) : disk[t] # NoTask})
  BY DEF Reconcile
<1> DEFINE known == {t \in TasksOf(p) : mem[i][t] # NoTask}
           snap == [t \in Tasks |-> IF t \in TasksOf(p) THEN disk[t] ELSE NoTask]
           payload == IF handler[i][h].target \in TasksOf(p)
                      THEN disk[handler[i][h].target] ELSE NoTask
           hd == [handler[i][h] EXCEPT !.projs = @ \ {p}, !.snap = snap,
                                       !.payload = payload]
           todo == {t \in TasksOf(p) : disk[t] # NoTask}
<1>2. /\ timer' = [timer EXCEPT ![i] =
                     [t \in Tasks |-> IF t \in known THEN NoTime ELSE @[t]]]
      /\ mem' = [mem EXCEPT ![i] =
                   [t \in Tasks |-> IF t \in TasksOf(p) THEN disk[t] ELSE @[t]]]
      /\ GoOnSyncing(i, h, hd, todo)
  BY <1>1
<1>3. now' = now /\ disk' = disk /\ queue' = queue /\ run' = run
  BY DEF Reconcile
<1>4. /\ disk \in [Tasks -> OptTask] /\ TasksOf(p) \subseteq Tasks
      /\ handler[i][h] \in HandlerRec /\ HandlerProper(handler[i][h])
  BY HandlerParts DEF TypeInv, TypeOK, TasksOf, ProperInv, HandlersProper
<1>5. payload = NoTask /\ handler[i][h].target = NoTask
  BY <1>4 DEF HandlerProper, NoResets, Reconcile, At
<1>6. /\ snap \in [Tasks -> OptTask] /\ todo \in SUBSET Tasks
      /\ \A t \in todo : snap[t] # NoTask
  BY <1>4 DEF OptTask
<1>7. \A t \in Tasks : Proper(t, snap[t])
  BY NoneProper DEF ProperInv, DiskProper
<1>8. TimersProper'
  <2> HIDE DEF known
  <2>1. ASSUME NEW j \in Instances, NEW u \in Tasks
        PROVE  timer'[j][u] \in OptOcc(u)
    <3>1. timer'[j][u] = timer[j][u] \/ timer'[j][u] = NoTime
      BY <1>2 DEF TypeInv, TypeOK
    <3>2. QED
      BY <3>1, NoneProper DEF ProperInv, TimersProper
  <2>2. QED
    BY <2>1 DEF TimersProper
<1>9. MemProper'
  <2>1. ASSUME NEW j \in Instances, NEW u \in Tasks
        PROVE  Proper(u, mem'[j][u])
    <3>1. mem'[j][u] = mem[j][u] \/ mem'[j][u] = disk[u]
      BY <1>2 DEF TypeInv, TypeOK
    <3>2. QED
      BY <3>1 DEF ProperInv, MemProper, DiskProper
  <2>2. QED
    BY <2>1 DEF MemProper
<1> HIDE DEF known, snap, payload, todo
<1>10. /\ hd \in HandlerRec /\ hd.snap = snap /\ hd.payload = payload
       /\ hd.target = handler[i][h].target
  BY <1>4, <1>5, <1>6, HandlerParts DEF HandlerRec, OptTask
<1> HIDE DEF hd
<1>11. HandlersProper'
  BY <1>2, <1>3, <1>4, <1>5, <1>6, <1>7, <1>10, SyncKept
<1>12. QED
  BY <1>3, <1>8, <1>9, <1>11, KeptAlone DEF ProperInv

LEMMA PatchProper ==
  ASSUME TypeInv, ProperInv, NEW i \in Instances, NEW h \in Handlers, PatchNext(i, h)
  PROVE  ProperInv'
<1> DEFINE hd == handler[i][h]
           t == hd.cur
           patched == [disk[t] EXCEPT !.next = hd.next]
<1>1. /\ now' = now /\ queue' = queue /\ run' = run
      /\ hd.pc = "patch" /\ GoOnSyncing(i, h, hd, hd.todo)
      /\ \/ disk[t] # NoTask /\ SetDisk(t, patched) /\ SetMem(i, t, patched)
         \/ disk' = disk /\ mem' = mem
      /\ SetTimer(i, t, Armed(i, hd.next)) \/ timer' = timer
  BY DEF PatchNext, At
<1>2. /\ hd \in HandlerRec /\ t \in Tasks /\ hd.todo \in SUBSET Tasks
      /\ \A u \in hd.todo : hd.snap[u] # NoTask
  BY <1>1, HandlerParts DEF Ready, HandlerRec
<1>3. HandlerProper(hd) /\ hd.next \in OptOcc(t)
  BY <1>1 DEF ProperInv, HandlersProper, HandlerProper
<1> HIDE DEF hd
<1>4. disk[t] # NoTask => Proper(t, patched)
  <2> HIDE DEF t
  <2>1. disk[t] # NoTask => disk[t] \in TaskRec /\ Proper(t, disk[t])
    BY <1>2 DEF ProperInv, DiskProper, TypeInv, TypeOK, OptTask
  <2>2. QED
    BY <1>2, <1>3, <2>1, ProperParts
<1>5. Armed(i, hd.next) \in OptOcc(t)
  BY <1>3, NoneProper DEF Armed
<1> HIDE DEF t, patched
<1>6. DiskProper' /\ MemProper' /\ TimersProper'
  BY <1>1, <1>2, <1>4, <1>5, DiskKept, MemKept, TimersKept, KeptAlone DEF ProperInv
<1>7. HandlersProper'
  BY <1>1, <1>2, <1>3, SyncKept DEF HandlerProper
<1>8. QED
  BY <1>1, <1>6, <1>7, KeptAlone DEF ProperInv

LEMMA SaveProper ==
  ASSUME TypeInv, ProperInv, NEW i \in Instances, NEW h \in Handlers,
         NEW t \in Tasks, NEW s \in Schedules, NEW e \in BOOLEAN, Save(i, h, t, s, e)
  PROVE  HandlersProper'
<1> DEFINE payload == [sched |-> s, enabled |-> e, lastFor |-> NoTime,
                       next |-> NoTime, status |-> "quiet"]
           hd == [NoHandler EXCEPT !.pc = "save", !.target = t, !.payload = payload]
<1>1. SetHandler(i, h, hd) /\ Happens("edits")
  BY DEF Save
<1>2. s \in May(t)
  <2>1. used["edits"] \in Nat
    BY DEF TypeInv, TypeOK, Events
  <2>2. Budget["edits"] # 0
    BY <1>1, <2>1 DEF Happens
  <2>3. QED
    BY <2>2 DEF May
<1>3. payload \in TaskRec /\ payload # NoTask
  BY ScheduledTasksAssumption DEF TaskRec, Statuses, OptTime
<1>4. payload.sched = s /\ payload.lastFor = NoTime /\ payload.next = NoTime
  OBVIOUS
<1> HIDE DEF payload
<1>5. /\ hd.pc = "save" /\ hd.payload = payload /\ hd.target = t
      /\ hd.snap = NoHandler.snap
  BY DEF NoHandler
<1>6. \A u \in Tasks : Proper(u, NoHandler.snap[u])
  BY DEF NoHandler, Proper
<1> HIDE DEF hd
<1>7. HandlerProper(hd)
  BY <1>2, <1>3, <1>4, <1>5, <1>6 DEF HandlerProper
<1>8. QED
  BY <1>1, <1>7, HandlersKept DEF ProperInv

LEMMA NeverHappens ==
  ASSUME TypeInv, NoResets
  PROVE  ~Happens("listedEdits") /\ ~Happens("deletes")
<1>1. used["listedEdits"] \in Nat /\ used["deletes"] \in Nat
  BY DEF TypeInv, TypeOK, Events
<1>2. QED
  BY <1>1 DEF NoResets, Happens

LEMMA RequestProper ==
  ASSUME TypeInv, ProperInv, NoResets, NEW i \in Instances, NEW h \in Handlers,
         Request(i, h) \/ HandlerErrs(i, h)
  PROVE  ProperInv'
<1>1. ~ \E t \in Tasks : EditListed(i, h, t) \/ Delete(i, h, t)
  BY NeverHappens DEF EditListed, Delete
<1>2. /\ now' = now /\ disk' = disk /\ mem' = mem /\ timer' = timer /\ queue' = queue
      /\ run' = run
  BY <1>1 DEF Request, Start, List, Save, HandlerErrs
<1>3. HandlersProper'
  <2>1. CASE \E t \in Tasks, s \in Schedules, e \in BOOLEAN : Save(i, h, t, s, e)
    BY <2>1, SaveProper
  <2>2. CASE SetHandler(i, h, NoHandler) \/ \E ps : SetHandler(i, h, Syncing(ps))
    BY <2>2, NoneProper, HandlersKept DEF ProperInv
  <2>3. QED
    BY <1>1, <2>1, <2>2 DEF Request, Start, List, HandlerErrs
<1>4. QED
  BY <1>2, <1>3, KeptAlone DEF ProperInv

LEMMA NoOldStates ==
  ASSUME ProperInv, NEW i \in Instances, NEW h \in Handlers
  PROVE  ~ (EditSaved(i, h) \/ Removed(i, h))
  BY DEF ProperInv, HandlersProper, HandlerProper, EditSaved, Removed, At

\* What Saved writes: the state on disk stays, a new task has none.
SavedTask(d, payload) ==
  IF d = NoTask THEN payload
  ELSE [d EXCEPT !.sched = payload.sched, !.enabled = payload.enabled]

LEMMA SavedParts ==
  ASSUME TypeInv, ProperInv, NEW i \in Instances, NEW h \in Handlers, Saved(i, h)
  PROVE  LET t == handler[i][h].target
             x == SavedTask(disk[t], handler[i][h].payload)
         IN  /\ t \in Tasks /\ x \in TaskRec /\ Proper(t, x)
             /\ x.lastFor = IF disk[t] = NoTask THEN NoTime ELSE disk[t].lastFor
<1> DEFINE t == handler[i][h].target
           payload == handler[i][h].payload
           x == SavedTask(disk[t], payload)
<1>1. handler[i][h].pc = "save" /\ HandlerProper(handler[i][h])
  BY DEF Saved, At, ProperInv, HandlersProper
<1>2. t \in Tasks /\ payload \in TaskRec
  BY <1>1, HandlerParts DEF Ready, HandlerRec, OptTask
<1>3. /\ payload.sched \in May(t) /\ payload.lastFor = NoTime /\ payload.next = NoTime
      /\ payload.sched \in Schedules /\ payload.enabled \in BOOLEAN
  BY <1>1, <1>2 DEF HandlerProper, TaskRec
<1>4. disk[t] \in OptTask /\ Proper(t, disk[t])
  BY <1>2 DEF ProperInv, DiskProper, TypeInv, TypeOK
<1>5. CASE disk[t] = NoTask
  <2>1. x = payload
    BY <1>5 DEF SavedTask
  <2>2. Proper(t, payload)
    BY <1>3 DEF Proper, OptOcc
  <2> HIDE DEF t, payload, x
  <2>3. QED
    BY <1>2, <1>3, <1>5, <2>1, <2>2 DEF t, payload, x
<1>6. CASE disk[t] # NoTask
  <2> DEFINE d == disk[t]
             y == [d EXCEPT !.sched = payload.sched, !.enabled = payload.enabled]
  <2>1. x = y
    BY <1>6 DEF SavedTask
  <2>2. d \in TaskRec /\ Proper(t, d) /\ d # NoTask
    BY <1>4, <1>6 DEF OptTask
  <2> HIDE DEF t, payload, x, d
  <2>3. /\ y \in TaskRec /\ y.sched = payload.sched
        /\ y.next = d.next /\ y.lastFor = d.lastFor
    BY <1>3, <2>2 DEF TaskRec
  <2> HIDE DEF y
  <2>4. Proper(t, y)
    BY <1>3, <2>2, <2>3 DEF Proper
  <2>5. x.lastFor = d.lastFor /\ x \in TaskRec /\ Proper(t, x)
    BY <2>1, <2>3, <2>4
  <2>6. QED
    BY <1>2, <1>6, <2>5 DEF t, payload, x, d
<1>7. QED
  BY <1>5, <1>6

LEMMA SavedProper ==
  ASSUME TypeInv, ProperInv, NEW i \in Instances, NEW h \in Handlers, Saved(i, h)
  PROVE  ProperInv'
<1> DEFINE t == handler[i][h].target
           x == SavedTask(disk[t], handler[i][h].payload)
<1>1. /\ now' = now /\ mem' = mem /\ timer' = timer /\ queue' = queue /\ run' = run
      /\ SetDisk(t, x) /\ SetHandler(i, h, Syncing({ProjectOf[t]}))
  BY DEF Saved, SavedTask
<1>2. t \in Tasks /\ Proper(t, x)
  BY SavedParts
<1> HIDE DEF t, x
<1>3. DiskProper'
  BY <1>1, <1>2, DiskKept DEF ProperInv
<1>4. HandlersProper'
  BY <1>1, NoneProper, HandlersKept DEF ProperInv
<1>5. QED
  BY <1>1, <1>3, <1>4, KeptAlone DEF ProperInv

LEMMA ProperStep ==
  ASSUME TypeInv, ProperInv, NoResets, [Next]_vars
  PROVE  ProperInv'
<1>1. CASE UNCHANGED vars
  BY <1>1, KeptAlone DEF vars, ProperInv
<1>2. ASSUME NEW i \in Instances, Pump(i) \/ Stop(i) \/ Crash(i)
      PROVE  ProperInv'
  <2>1. CASE PumpEnds(i)
    BY <2>1, KeptAlone DEF PumpEnds, ProperInv
  <2>2. QED
    BY <1>2, <2>1, PumpProper, StopProper DEF Pump
<1>3. ASSUME NEW i \in Instances, NEW t \in Tasks,
             TimerFires(i, t) \/ RunNow(i, t) \/ RunStep(i, t) \/ RunFault(i, t)
      PROVE  ProperInv'
  BY <1>3, TimerFiresProper, RunNowProper, ClaimProper, LostProper, ClaimErrsProper,
     RecordProper, BeginProper, BodyEndsProper, ConsumeProper, CompleteProper
  DEF RunStep, RunFault
<1>4. ASSUME NEW i \in Instances, NEW h \in Handlers,
             HandlerStep(i, h) \/ HandlerErrs(i, h) \/ Request(i, h)
      PROVE  ProperInv'
  BY <1>4, ReconcileProper, PatchProper, RequestProper, SavedProper, NoOldStates
  DEF HandlerStep
<1>5. QED
  BY <1>1, <1>2, <1>3, <1>4, TickProper DEF Next

LEMMA ProperInit ==
  ASSUME Init, NoResets
  PROVE  ProperInv
<1>1. DiskProper
  <2>1. ASSUME NEW t \in Tasks, InitialDisk[t] # NoTask
        PROVE  InitialDisk[t].sched \in May(t)
    <3>1. InitialDisk[t].sched \in Schedules
      BY <2>1, ScheduledTasksAssumption DEF OptTask, TaskRec
    <3>2. QED
      BY <3>1 DEF May
  <2>2. QED
    BY <2>1 DEF Init, NoResets, DiskProper, Proper, OptOcc
<1>2. MemProper /\ TimersProper /\ QueuesDue /\ RunsProper /\ HandlersProper
  <2>1. ASSUME NEW i \in Instances, NEW t \in Tasks
        PROVE  /\ Proper(t, mem[i][t]) /\ timer[i][t] \in OptOcc(t)
               /\ RunProper(t, run[i][t], now)
    BY NoneProper DEF Init
  <2>2. ASSUME NEW i \in Instances
        PROVE  queue[i] \in Seq(Due(now))
    BY DEF Init
  <2>3. ASSUME NEW i \in Instances, NEW h \in Handlers
        PROVE  HandlerProper(handler[i][h])
    BY NoneProper DEF Init
  <2>4. QED
    BY <2>1, <2>2, <2>3 DEF MemProper, TimersProper, QueuesDue, RunsProper, HandlersProper
<1>3. QED
  BY <1>1, <1>2 DEF ProperInv
-----------------------------------------------------------------------------
(* While a scheduled run is in its session, the claim is on disk and in    *)
(* the memory of its process: only ClaimWins moves lastScheduledFor.       *)

Claimed(x) == x # NoTask /\ x.lastFor # NoTime

BodyClaimed(i, t) ==
  /\ run[i][t].pc = "body" /\ ~run[i][t].manual => Claimed(mem[i][t]) /\ Claimed(disk[t])
  /\ run[i][t].pc = "consume" => /\ Claimed(run[i][t].task) /\ Claimed(disk[t])
                                /\ Kind[run[i][t].task.sched] = "once"
BodiesClaimed == \A i \in Instances, t \in Tasks : BodyClaimed(i, t)

\* A task stays, with its claim; a new one comes without.
SameLast(x, y) ==
  /\ x # NoTask => y # NoTask /\ y.lastFor = x.lastFor
  /\ x = NoTask /\ y # NoTask => y.lastFor = NoTime

LastsKept == \A t \in Tasks : SameLast(disk[t], disk'[t])

LEMMA LastKept ==
  ASSUME TypeInv, NEW t \in Tasks, NEW d, SameLast(disk[t], d),
         SetDisk(t, d) \/ disk' = disk
  PROVE  LastsKept
  BY DEF LastsKept, SameLast, SetDisk, TypeInv, TypeOK

\* A run changes; what is claimed on disk stays claimed.
LEMMA BodiesKept ==
  ASSUME TypeInv, BodiesClaimed, NEW i \in Instances, NEW t \in Tasks, NEW r,
         \A u \in Tasks : Claimed(disk[u]) => Claimed(disk'[u]),
         run' = [run EXCEPT ![i][t] = r],
         mem' = mem \/ \E m : SetMem(i, t, m),
         r.pc \notin {"body", "consume"} \/ BodyClaimed(i, t)'
  PROVE  BodiesClaimed'
<1>1. ASSUME NEW j \in Instances, NEW u \in Tasks
      PROVE  BodyClaimed(j, u)'
  <2>1. CASE j = i /\ u = t
    <3>1. run'[i][t] = r
      BY DEF TypeInv, TypeOK
    <3>2. QED
      BY <2>1, <3>1 DEF BodyClaimed
  <2>2. CASE ~ (j = i /\ u = t)
    <3>1. run'[j][u] = run[j][u] /\ mem'[j][u] = mem[j][u]
      BY <2>2 DEF TypeInv, TypeOK, SetMem
    <3>2. BodyClaimed(j, u)
      BY DEF BodiesClaimed
    <3>3. QED
      BY <3>1, <3>2 DEF BodyClaimed
  <2>3. QED
    BY <2>1, <2>2
<1>2. QED
  BY <1>1 DEF BodiesClaimed

LEMMA ClaimedKept ==
  ASSUME LastsKept
  PROVE  \A u \in Tasks : Claimed(disk[u]) => Claimed(disk'[u])
  BY DEF LastsKept, SameLast, Claimed

LEMMA BodiesAlone ==
  ASSUME BodiesClaimed, disk' = disk, mem' = mem, run' = run
  PROVE  LastsKept /\ BodiesClaimed'
  BY DEF BodiesClaimed, BodyClaimed, LastsKept, SameLast

\* The steps that end a run, or leave it outside its session.
LEMMA BodiesOutside ==
  ASSUME TypeInv, BodiesClaimed, LastsKept, NEW i \in Instances, NEW t \in Tasks,
         mem' = mem \/ \E m : SetMem(i, t, m),
         \/ EndRun(i, t) \/ GoOn(i, t, "claimfailed") \/ GoOn(i, t, "retry")
         \/ \E manual \in BOOLEAN : \E sf : TakeSlot(i, t, manual, sf)
  PROVE  BodiesClaimed'
<1>1. PICK r : run' = [run EXCEPT ![i][t] = r] /\ r.pc \notin {"body", "consume"}
  <2>1. CASE EndRun(i, t)
    <3>1. run' = [run EXCEPT ![i][t] = NoRun] /\ NoRun.pc = "idle"
      BY <2>1 DEF EndRun, NoRun
    <3> HIDE DEF NoRun
    <3>2. QED
      BY <3>1
  <2>2. ASSUME NEW label \in {"claimfailed", "retry"}, GoOn(i, t, label)
        PROVE  \E r : run' = [run EXCEPT ![i][t] = r] /\ r.pc \notin {"body", "consume"}
    <3>1. run' = [run EXCEPT ![i][t] = [run[i][t] EXCEPT !.pc = label]]
      BY <2>2 DEF GoOn, TypeInv, TypeOK
    <3>2. [run[i][t] EXCEPT !.pc = label].pc = label
      BY DEF TypeInv, TypeOK, RunRec
    <3>3. QED
      BY <3>1, <3>2
  <2>3. ASSUME NEW manual \in BOOLEAN, NEW sf, TakeSlot(i, t, manual, sf)
        PROVE  \E r : run' = [run EXCEPT ![i][t] = r] /\ r.pc \notin {"body", "consume"}
    <3> DEFINE r == [pc |-> IF manual THEN "begin" ELSE "claim", manual |-> manual,
                     sf |-> sf, from |-> now,
                     next |-> IF manual THEN NoTime ELSE NextRun(mem[i][t], now),
                     task |-> mem[i][t], ok |-> FALSE]
    <3>1. run' = [run EXCEPT ![i][t] = r]
      BY <2>3 DEF TakeSlot
    <3>2. r.pc \notin {"body", "consume"}
      OBVIOUS
    <3> HIDE DEF r
    <3>3. QED
      BY <3>1, <3>2
  <2>4. QED
    BY <2>1, <2>2, <2>3
<1>2. QED
  BY <1>1, ClaimedKept, BodiesKept

LEMMA ClockBodies ==
  ASSUME TypeInv, BodiesClaimed, NEW i \in Instances,
         Pump(i) \/ Stop(i) \/ Crash(i) \/ \E t \in Tasks : TimerFires(i, t) \/ RunNow(i, t)
  PROVE  LastsKept /\ BodiesClaimed' /\ claims' = claims /\ now' = now
<1>1. claims' = claims /\ disk' = disk /\ now' = now
  BY DEF Pump, PumpStarts, PumpEnds, Stop, Crash, TimerFires, RunNow
<1>2. LastsKept
  BY <1>1 DEF LastsKept, SameLast
<1>3. CASE PumpEnds(i) \/ Stop(i) \/ \E t \in Tasks : TimerFires(i, t)
  BY <1>1, <1>3, BodiesAlone DEF PumpEnds, Stop, TimerFires
<1>4. CASE PumpStarts(i)
  <2> DEFINE t == queue[i][Min(Startable(i))].task
  <2>1. t \in Tasks
    BY <1>4, StartableEntry DEF PumpStarts, TypeInv
  <2>2. /\ mem' = mem
        /\ run' = run \/ TakeSlot(i, t, FALSE, queue[i][Min(Startable(i))].sf)
    BY <1>4 DEF PumpStarts
  <2> HIDE DEF t
  <2>3. CASE run' = run
    BY <1>1, <2>2, <2>3, BodiesAlone
  <2>4. CASE TakeSlot(i, t, FALSE, queue[i][Min(Startable(i))].sf)
    BY <1>1, <1>2, <2>1, <2>2, <2>4, BodiesOutside
  <2>5. QED
    BY <1>1, <1>2, <2>2, <2>3, <2>4
<1>5. ASSUME NEW t \in Tasks, RunNow(i, t)
      PROVE  BodiesClaimed'
  BY <1>2, <1>5, BodiesOutside DEF RunNow
<1>6. CASE Crash(i)
  <2>1. ASSUME NEW j \in Instances, NEW u \in Tasks
        PROVE  BodyClaimed(j, u)'
    <3>1. CASE j = i
      <4>1. run'[j][u].pc = "idle"
        BY <1>6, <3>1 DEF Crash, TypeInv, TypeOK, NoRun
      <4>2. QED
        BY <4>1 DEF BodyClaimed
    <3>2. CASE j # i
      <4>1. run'[j][u] = run[j][u] /\ mem'[j][u] = mem[j][u]
        BY <1>6, <3>2 DEF Crash, TypeInv, TypeOK
      <4>2. QED
        BY <1>1, <4>1 DEF BodiesClaimed, BodyClaimed
    <3>3. QED
      BY <3>1, <3>2
  <2>2. QED
    BY <1>1, <1>2, <2>1 DEF BodiesClaimed
<1>7. QED
  BY <1>1, <1>2, <1>3, <1>4, <1>5, <1>6 DEF Pump

\* A start or a listing: memory follows the disk.
LEMMA ListingBodies ==
  ASSUME TypeInv, ProperInv, BodiesClaimed, NEW i \in Instances, NEW h \in Handlers,
         Reconcile(i, h) \/ PatchNext(i, h)
  PROVE  LastsKept /\ BodiesClaimed' /\ claims' = claims /\ now' = now
<1>1. claims' = claims /\ run' = run /\ now' = now
  BY DEF Reconcile, PatchNext
<1>2. LastsKept
  <2>1. CASE Reconcile(i, h)
    BY <2>1 DEF Reconcile, LastsKept, SameLast
  <2>2. CASE PatchNext(i, h)
    <3> DEFINE t == handler[i][h].cur
               d == [disk[t] EXCEPT !.next = handler[i][h].next]
    <3>1. t \in Tasks
      BY <2>2, HandlerParts DEF Ready, PatchNext, At
    <3>2. \/ disk' = disk
          \/ disk[t] # NoTask /\ SetDisk(t, d)
      BY <2>2 DEF PatchNext
    <3> HIDE DEF t
    <3>3. disk[t] # NoTask => SameLast(disk[t], d)
      <4>1. ASSUME disk[t] # NoTask
            PROVE  disk[t] \in TaskRec /\ handler[i][h].next \in OptTime
        BY <3>1, <4>1, HandlerParts DEF TypeInv, TypeOK, OptTask
      <4>2. ASSUME disk[t] # NoTask
            PROVE  d \in TaskRec /\ d.lastFor = disk[t].lastFor
        BY <4>1, <4>2 DEF TaskRec
      <4> HIDE DEF d
      <4>3. QED
        BY <4>1, <4>2, ScheduledTasksAssumption DEF SameLast
    <3> HIDE DEF d
    <3>4. SameLast(disk[t], disk[t])
      BY DEF SameLast
    <3>5. QED
      BY <3>1, <3>2, <3>3, <3>4, LastKept
  <2>3. QED
    BY <2>1, <2>2
<1>3. ASSUME NEW j \in Instances, NEW u \in Tasks
      PROVE  mem'[j][u] = mem[j][u] \/ mem'[j][u] = disk'[u]
  <2>1. CASE Reconcile(i, h)
    <3>1. PICK p : mem' = [mem EXCEPT ![i] =
                             [t \in Tasks |-> IF t \in TasksOf(p) THEN disk[t] ELSE @[t]]]
      BY <2>1 DEF Reconcile
    <3>2. disk' = disk
      BY <2>1 DEF Reconcile
    <3>3. QED
      BY <3>1, <3>2 DEF TypeInv, TypeOK
  <2>2. CASE PatchNext(i, h)
    <3> DEFINE t == handler[i][h].cur
               d == [disk[t] EXCEPT !.next = handler[i][h].next]
    <3>1. \/ disk' = disk /\ mem' = mem
          \/ SetDisk(t, d) /\ SetMem(i, t, d)
      BY <2>2 DEF PatchNext
    <3> HIDE DEF t, d
    <3>2. CASE j = i /\ u = t
      BY <3>1, <3>2 DEF SetMem, SetDisk, TypeInv, TypeOK
    <3>3. CASE ~ (j = i /\ u = t)
      BY <3>1, <3>3 DEF SetMem, TypeInv, TypeOK
    <3>4. QED
      BY <3>2, <3>3
  <2>3. QED
    BY <2>1, <2>2
<1>4. ASSUME NEW j \in Instances, NEW u \in Tasks
      PROVE  BodyClaimed(j, u)'
  <2>1. BodyClaimed(j, u)
    BY DEF BodiesClaimed
  <2>2. QED
    BY <1>1, <1>2, <1>3, <2>1, ClaimedKept DEF BodyClaimed
<1>5. QED
  BY <1>1, <1>2, <1>4 DEF BodiesClaimed

\* The steps of a run other than the claim.
LEMMA RecordBodies ==
  ASSUME TypeInv, ProperInv, BodiesClaimed, NEW i \in Instances, NEW t \in Tasks,
         \/ ClaimLost(i, t) \/ TaskGone(i, t) \/ RecordClaimFailure(i, t)
         \/ Complete(i, t) \/ RunFault(i, t)
  PROVE  LastsKept /\ BodiesClaimed' /\ claims' = claims /\ now' = now
<1>1. /\ claims' = claims /\ now' = now
      /\ EndRun(i, t) \/ GoOn(i, t, "claimfailed") \/ GoOn(i, t, "retry")
  BY DEF ClaimLost, TaskGone, RecordClaimFailure, Complete, RunFault, ClaimErrs,
         BeginManualErrs, CompleteErrs, RetryErrs
<1>2. mem' = mem \/ \E m : SetMem(i, t, m)
  BY DEF ClaimLost, TaskGone, RecordClaimFailure, Complete, RunFault, ClaimErrs,
         BeginManualErrs, CompleteErrs, RetryErrs
<1>3. LastsKept
  <2> DEFINE failed == [disk[t] EXCEPT !.status = "error"]
             done == Completed(i, t, disk[t])
  <2>1. \/ disk' = disk
        \/ disk[t] # NoTask /\ (SetDisk(t, failed) \/ SetDisk(t, disk[t]) \/ SetDisk(t, done))
    BY DEF ClaimLost, TaskGone, RecordClaimFailure, Complete, RunFault, ClaimErrs,
           BeginManualErrs, CompleteErrs, RetryErrs
  <2>2. disk[t] # NoTask => disk[t] \in TaskRec /\ Proper(t, disk[t])
    BY RunParts DEF ProperInv, DiskProper
  <2>3. ASSUME disk[t] # NoTask
        PROVE  SameLast(disk[t], failed)
    <3>1. failed \in TaskRec /\ failed.lastFor = disk[t].lastFor
      BY <2>2, <2>3 DEF TaskRec, Statuses
    <3> HIDE DEF failed
    <3>2. QED
      BY <2>3, <3>1, ScheduledTasksAssumption DEF SameLast
  <2>4. ASSUME disk[t] # NoTask
        PROVE  SameLast(disk[t], done)
    <3>1. done \in TaskRec /\ done.lastFor = disk[t].lastFor
      BY <2>2, <2>4, CompletedType, CompletedProper
    <3> HIDE DEF done
    <3>2. QED
      BY <2>4, <3>1, ScheduledTasksAssumption DEF SameLast
  <2>5. SameLast(disk[t], disk[t])
    BY DEF SameLast
  <2> HIDE DEF failed, done
  <2>6. QED
    BY <2>1, <2>3, <2>4, <2>5, LastKept
<1>4. BodiesClaimed'
  BY <1>1, <1>2, <1>3, BodiesOutside
<1>5. QED
  BY <1>1, <1>3, <1>4

LEMMA BodyBodies ==
  ASSUME TypeInv, ProperInv, BodiesClaimed, NEW i \in Instances, NEW t \in Tasks,
         BeginManual(i, t) \/ \E ok \in BOOLEAN : BodyEnds(i, t, ok)
  PROVE  LastsKept /\ BodiesClaimed' /\ claims' = claims /\ now' = now
<1>1. CASE BeginManual(i, t)
  <2> DEFINE d == [disk[t] EXCEPT !.status = "running"]
             r == [run[i][t] EXCEPT !.pc = "body", !.from = NoTime, !.next = NoTime]
  <2>1. /\ claims' = claims /\ now' = now
        /\ run' = [run EXCEPT ![i][t] = r]
        /\ run[i][t].pc = "begin"
        /\ \/ disk[t] # NoTask /\ SetDisk(t, d) /\ SetMem(i, t, d)
           \/ disk' = disk /\ mem' = mem
    BY <1>1 DEF BeginManual, ToBody, In
  <2>2. run[i][t].manual /\ run[i][t] \in RunRec
    BY <2>1, RunParts DEF ProperInv, RunsProper, RunProper
  <2>3. r.manual /\ r.pc = "body"
    BY <2>2 DEF RunRec
  <2> HIDE DEF r
  <2>4. disk[t] # NoTask => SameLast(disk[t], d)
    <3>1. disk[t] # NoTask => d \in TaskRec /\ d.lastFor = disk[t].lastFor
      BY RunParts DEF TaskRec, Statuses
    <3> HIDE DEF d
    <3>2. QED
      BY <3>1, ScheduledTasksAssumption DEF SameLast
  <2> HIDE DEF d
  <2>5. LastsKept
    <3>1. SameLast(disk[t], disk[t])
      BY DEF SameLast
    <3>2. QED
      BY <2>1, <2>4, <3>1, LastKept
  <2>6. BodyClaimed(i, t)'
    <3>1. run'[i][t] = r
      BY <2>1 DEF TypeInv, TypeOK
    <3>2. QED
      BY <2>3, <3>1 DEF BodyClaimed
  <2>7. mem' = mem \/ \E m : SetMem(i, t, m)
    BY <2>1
  <2>8. QED
    BY <2>1, <2>5, <2>6, <2>7, ClaimedKept, BodiesKept
<1>2. ASSUME NEW ok \in BOOLEAN, BodyEnds(i, t, ok)
      PROVE  LastsKept /\ BodiesClaimed' /\ claims' = claims /\ now' = now
  <2> DEFINE consume == /\ Kind[Latest(i, t).sched] = "once"
                        /\ ~run[i][t].manual
                        /\ Latest(i, t).enabled
             n == IF consume THEN NoTime ELSE NextRun(Latest(i, t), now)
             label == IF consume THEN "consume" ELSE "complete"
             r == [run[i][t] EXCEPT !.pc = label, !.ok = ok, !.from = now,
                                    !.task = Latest(i, t), !.next = n]
  <2>1. /\ now' = now /\ disk' = disk /\ mem' = mem /\ claims' = claims
        /\ run' = [run EXCEPT ![i][t] = r] /\ run[i][t].pc = "body"
    BY <1>2 DEF BodyEnds, In, TypeInv, TypeOK
  <2>2. LastsKept
    BY <2>1 DEF LastsKept, SameLast
  <2>3. BodyClaimed(i, t)
    BY DEF BodiesClaimed
  <2>4. /\ label \in {"consume", "complete"}
        /\ label = "consume" => ~run[i][t].manual /\ Kind[Latest(i, t).sched] = "once"
    OBVIOUS
  <2> HIDE DEF n, label
  <2>5. r.pc = label /\ r.task = Latest(i, t)
    BY DEF TypeInv, TypeOK, RunRec
  <2> HIDE DEF r
  <2>6. BodyClaimed(i, t)'
    <3>1. run'[i][t] = r
      BY <2>1 DEF TypeInv, TypeOK
    <3>2. QED
      BY <2>1, <2>3, <2>4, <2>5, <3>1 DEF BodyClaimed, Latest, Claimed
  <2>7. QED
    BY <2>1, <2>2, <2>6, ClaimedKept, BodiesKept
<1>3. QED
  BY <1>1, <1>2

\* Consuming writes back what memory held: of a once schedule, its one
\* occurrence.
LEMMA ConsumeBodies ==
  ASSUME TypeInv, ProperInv, BodiesClaimed, NoResets, NEW i \in Instances, NEW t \in Tasks,
         Consume(i, t)
  PROVE  LastsKept /\ BodiesClaimed' /\ claims' = claims /\ now' = now
<1> DEFINE d == [run[i][t].task EXCEPT !.enabled = FALSE]
           n == NextRun(run[i][t].task, run[i][t].from)
           r == [run[i][t] EXCEPT !.pc = "complete", !.task = d]
           q == [run[i][t] EXCEPT !.pc = "complete", !.next = n]
<1>1. /\ claims' = claims /\ now' = now /\ run[i][t].pc = "consume"
      /\ \/ SetDisk(t, d) /\ SetMem(i, t, d) /\ run' = [run EXCEPT ![i][t] = r]
         \/ disk' = disk /\ mem' = mem /\ run' = [run EXCEPT ![i][t] = q]
  BY DEF Consume, In, TypeInv, TypeOK
<1>2. /\ run[i][t].task \in TaskRec /\ Proper(t, run[i][t].task) /\ run[i][t].task # NoTask
  BY <1>1, LatestProper
<1>3. /\ Claimed(run[i][t].task) /\ Claimed(disk[t])
      /\ Kind[run[i][t].task.sched] = "once"
  BY <1>1 DEF BodiesClaimed, BodyClaimed
<1>4. run[i][t].task.lastFor = disk[t].lastFor
  <2>1. Proper(t, disk[t])
    BY DEF ProperInv, DiskProper
  <2>2. run[i][t].task.lastFor \in MayOcc(t) /\ disk[t].lastFor \in MayOcc(t)
    BY <1>2, <1>3, <2>1 DEF Proper, OptOcc, Claimed
  <2> DEFINE s == run[i][t].task.sched
  <2>3. s \in Schedules /\ Kind[s] = "once" /\ s \in May(t)
    BY <1>2, <1>3 DEF Proper, TaskRec
  <2> HIDE DEF s
  <2>4. Budget["edits"] = 0 /\ \A a, b \in Occ[s] : a = b
    BY <2>3 DEF NoResets
  <2>5. MayOcc(t) = Occ[s]
    BY <2>3, <2>4 DEF May, MayOcc
  <2>6. QED
    BY <2>2, <2>4, <2>5
<1>5. d \in TaskRec /\ d.lastFor = run[i][t].task.lastFor
  BY <1>2 DEF TaskRec
<1> HIDE DEF d, n
<1>6. r.pc = "complete" /\ q.pc = "complete"
  BY DEF TypeInv, TypeOK, RunRec
<1> HIDE DEF r, q
<1>7. LastsKept
  <2>1. SameLast(disk[t], d)
    BY <1>3, <1>4, <1>5, ScheduledTasksAssumption DEF SameLast, Claimed
  <2>2. QED
    BY <1>1, <2>1, LastKept
<1>8. mem' = mem \/ \E m : SetMem(i, t, m)
  BY <1>1
<1>9. BodiesClaimed'
  <2>1. CASE run' = [run EXCEPT ![i][t] = r]
    BY <1>6, <1>7, <1>8, <2>1, ClaimedKept, BodiesKept
  <2>2. CASE run' = [run EXCEPT ![i][t] = q]
    BY <1>6, <1>7, <1>8, <2>2, ClaimedKept, BodiesKept
  <2>3. QED
    BY <1>1, <2>1, <2>2
<1>10. QED
  BY <1>1, <1>7, <1>9

LEMMA ClaimBodies ==
  ASSUME TypeInv, ProperInv, BodiesClaimed, NEW i \in Instances, NEW t \in Tasks,
         ClaimWins(i, t)
  PROVE  BodiesClaimed'
<1> DEFINE d == [disk[t] EXCEPT !.lastFor = run[i][t].sf, !.next = run[i][t].next,
                                !.status = "running"]
           r == [run[i][t] EXCEPT !.pc = "body", !.from = NoTime, !.next = NoTime]
<1>1. /\ SetDisk(t, d) /\ SetMem(i, t, d) /\ disk[t] # NoTask
      /\ run' = [run EXCEPT ![i][t] = r] /\ run[i][t].pc = "claim"
  BY DEF ClaimWins, ToBody, In
<1>2. run[i][t].sf \in Nat /\ disk[t] \in TaskRec /\ run[i][t].next \in OptTime
  <2>1. run[i][t].sf \in MayOcc(t)
    BY <1>1 DEF ProperInv, RunsProper, RunProper
  <2>2. disk[t] \in TaskRec /\ Proper(t, disk[t])
    BY <1>1, RunParts DEF ProperInv, DiskProper
  <2>3. QED
    BY <1>1, <2>1, <2>2, RunParts, MayOccTimes
<1>3. d \in TaskRec /\ d.lastFor = run[i][t].sf
  BY <1>2 DEF TaskRec, Statuses, OptTime
<1> HIDE DEF d
<1>4. Claimed(d)
  BY <1>2, <1>3, ScheduledTasksAssumption DEF Claimed, NoTime
<1>5. disk'[t] = d /\ mem'[i][t] = d
  BY <1>1 DEF SetDisk, SetMem, TypeInv, TypeOK
<1>6. \A u \in Tasks : Claimed(disk[u]) => Claimed(disk'[u])
  BY <1>1, <1>4 DEF SetDisk, TypeInv, TypeOK
<1>7. r.pc = "body"
  BY DEF TypeInv, TypeOK, RunRec
<1> HIDE DEF r
<1>8. BodyClaimed(i, t)'
  <2>1. run'[i][t] = r
    BY <1>1 DEF TypeInv, TypeOK
  <2>2. QED
    BY <1>4, <1>5, <1>7, <2>1 DEF BodyClaimed
<1>9. QED
  BY <1>1, <1>6, <1>8, BodiesKept

\* An edit keeps the claim on disk, and no run or memory changes.
LEMMA SavedBodies ==
  ASSUME TypeInv, ProperInv, BodiesClaimed, NEW i \in Instances, NEW h \in Handlers,
         Saved(i, h)
  PROVE  LastsKept /\ BodiesClaimed' /\ claims' = claims /\ now' = now
<1> DEFINE t == handler[i][h].target
           x == SavedTask(disk[t], handler[i][h].payload)
<1>1. /\ now' = now /\ claims' = claims /\ mem' = mem /\ run' = run /\ SetDisk(t, x)
  BY DEF Saved, SavedTask
<1>2. /\ t \in Tasks /\ x \in TaskRec
      /\ x.lastFor = IF disk[t] = NoTask THEN NoTime ELSE disk[t].lastFor
  BY SavedParts
<1> HIDE DEF t, x
<1>3. SameLast(disk[t], x)
  BY <1>2, ScheduledTasksAssumption DEF SameLast
<1>4. LastsKept
  BY <1>1, <1>2, <1>3, LastKept
<1>5. BodiesClaimed'
  BY <1>1, <1>4, ClaimedKept DEF BodiesClaimed, BodyClaimed
<1>6. QED
  BY <1>1, <1>4, <1>5

\* Every step but a claim: what is claimed on disk and counted stays.
LEMMA OtherSteps ==
  ASSUME TypeInv, ProperInv, BodiesClaimed, NoResets, [Next]_vars,
         ~ \E i \in Instances, t \in Tasks : ClaimWins(i, t)
  PROVE  /\ LastsKept /\ BodiesClaimed' /\ claims' = claims
         /\ now' = now \/ (Tick /\ now' = now + 1)
<1>1. CASE UNCHANGED vars
  BY <1>1, BodiesAlone DEF vars
<1>2. CASE Tick
  BY <1>2, BodiesAlone DEF Tick
<1>3. ASSUME NEW i \in Instances,
             \/ Pump(i) \/ Stop(i) \/ Crash(i)
             \/ \E t \in Tasks : TimerFires(i, t) \/ RunNow(i, t)
      PROVE  LastsKept /\ BodiesClaimed' /\ claims' = claims /\ now' = now
  BY <1>3, ClockBodies
<1>4. ASSUME NEW i \in Instances, NEW t \in Tasks, RunStep(i, t) \/ RunFault(i, t)
      PROVE  LastsKept /\ BodiesClaimed' /\ claims' = claims /\ now' = now
  BY <1>4, RecordBodies, BodyBodies, ConsumeBodies DEF RunStep
<1>5. ASSUME NEW i \in Instances, NEW h \in Handlers,
             HandlerStep(i, h) \/ HandlerErrs(i, h) \/ Request(i, h)
      PROVE  LastsKept /\ BodiesClaimed' /\ claims' = claims /\ now' = now
  <2>1. CASE HandlerErrs(i, h)
    BY <2>1, BodiesAlone DEF HandlerErrs
  <2>2. CASE Request(i, h)
    <3>1. disk' = disk /\ mem' = mem /\ run' = run /\ claims' = claims /\ now' = now
      BY <2>2 DEF Request, Start, List, Save, EditListed, Delete
    <3>2. QED
      BY <3>1, BodiesAlone
  <2>3. CASE HandlerStep(i, h)
    BY <2>3, ListingBodies, SavedBodies, NoOldStates DEF HandlerStep
  <2>4. QED
    BY <1>5, <2>1, <2>2, <2>3
<1>6. QED
  BY <1>1, <1>2, <1>3, <1>4, <1>5 DEF Next
-----------------------------------------------------------------------------
(* The stored claim is the last one, and lies in the past.                 *)

Counted(t) ==
  /\ disk[t] # NoTask => disk[t].lastFor <= now
  /\ \A o \in AllOcc :
       /\ claims[t][o] <= 1
       /\ claims[t][o] > 0 => disk[t] # NoTask /\ disk[t].lastFor >= o

ClaimInv ==
  TypeInv /\ ProperInv /\ BodiesClaimed /\ \A t \in Tasks : Counted(t)

\* A claim in time is of a later occurrence than the one before.
LEMMA ClaimAdvances ==
  ASSUME ClaimInv, ClaimsInTime, NEW i \in Instances, NEW t \in Tasks, ClaimWins(i, t)
  PROVE  LET sf == run[i][t].sf
         IN  /\ sf \in AllOcc /\ sf \in Nat /\ sf <= now
             /\ disk[t] # NoTask /\ disk[t].lastFor \in Int /\ disk[t].lastFor < sf
             /\ disk'[t] # NoTask /\ disk'[t].lastFor = sf
             /\ \A u \in Tasks \ {t} : disk'[u] = disk[u]
<1> DEFINE sf == run[i][t].sf
           last == disk[t].lastFor
           d == [disk[t] EXCEPT !.lastFor = sf, !.next = run[i][t].next, !.status = "running"]
<1>1. /\ SetDisk(t, d) /\ disk[t] # NoTask /\ Claimable(disk[t], sf) /\ now' = now
      /\ claims' = [claims EXCEPT ![t][sf] = @ + 1] /\ run[i][t].pc = "claim"
  BY DEF ClaimWins, In
<1>2. /\ disk[t] \in TaskRec /\ run[i][t].next \in OptTime /\ now \in Nat
      /\ Proper(t, disk[t]) /\ Counted(t)
  BY <1>1, RunParts DEF ClaimInv, ProperInv, DiskProper
<1>3. MayOcc(t) \subseteq AllOcc /\ MayOcc(t) \subseteq Nat
  BY <1>2, MayOccTimes
<1>4. sf \in MayOcc(t) /\ sf <= now
  BY <1>1 DEF ClaimInv, ProperInv, RunsProper, RunProper
<1>5. sf \in AllOcc /\ sf \in Nat
  BY <1>3, <1>4
<1>6. last # sf
  BY <1>1, <1>5, ScheduledTasksAssumption DEF Claimable, AlreadyClaimed, NoTime
<1>7. last <= now /\ (last = NoTime \/ last \in MayOcc(t))
  BY <1>1, <1>2 DEF Counted, Proper, OptOcc
<1>8. last < sf
  <2>1. CASE last = NoTime
    BY <1>5, <2>1 DEF NoTime
  <2>2. CASE last \in MayOcc(t)
    <3>1. last > sf => now < last
      BY <1>1, <2>2 DEF ClaimsInTime
    <3>2. last \in Nat
      BY <1>3, <2>2
    <3> HIDE DEF last, sf
    <3>3. QED
      BY <1>2, <1>5, <1>6, <1>7, <3>1, <3>2
  <2>3. QED
    BY <1>7, <2>1, <2>2
<1>9. d \in TaskRec /\ d.lastFor = sf
  BY <1>2, <1>5 DEF TaskRec, Statuses, OptTime
<1> HIDE DEF d
<1>10. disk'[t] = d /\ d # NoTask /\ \A u \in Tasks \ {t} : disk'[u] = disk[u]
  BY <1>1, <1>9, ScheduledTasksAssumption DEF SetDisk, ClaimInv, TypeInv, TypeOK
<1>11. last \in Int
  BY <1>2 DEF TaskRec, OptTime, NoTime
<1>12. QED
  BY <1>1, <1>4, <1>5, <1>8, <1>9, <1>10, <1>11

LEMMA ClaimCounted ==
  ASSUME ClaimInv, ClaimsInTime, NEW i \in Instances, NEW t \in Tasks, ClaimWins(i, t),
         NEW u \in Tasks
  PROVE  Counted(u)'
<1> DEFINE sf == run[i][t].sf
           last == disk[t].lastFor
<1>1. /\ sf \in AllOcc /\ sf \in Nat /\ sf <= now /\ last \in Int /\ last < sf
      /\ disk[t] # NoTask /\ disk'[t] # NoTask /\ disk'[t].lastFor = sf
      /\ \A v \in Tasks \ {t} : disk'[v] = disk[v]
  BY ClaimAdvances
<1>2. now' = now /\ claims' = [claims EXCEPT ![t][sf] = @ + 1]
  BY DEF ClaimWins
<1>3. Counted(u) /\ claims \in [Tasks -> [AllOcc -> Nat]]
  BY DEF ClaimInv, TypeInv, TypeOK
<1>4. CASE u = t
  <2>1. ASSUME NEW o \in AllOcc
        PROVE  claims'[t][o] <= 1 /\ (claims'[t][o] > 0 => sf >= o)
    <3>1. o \in Nat
      BY ScheduledTasksAssumption DEF AllOcc
    <3>2. claims[t][o] <= 1 /\ (claims[t][o] > 0 => last >= o) /\ claims[t][o] \in Nat
      BY <1>3, <1>4 DEF Counted
    <3>3. claims'[t][o] = IF o = sf THEN claims[t][o] + 1 ELSE claims[t][o]
      BY <1>1, <1>2, <1>3
    <3> HIDE DEF last, sf
    <3>4. QED
      BY <1>1, <3>1, <3>2, <3>3
  <2>2. QED
    BY <1>1, <1>2, <1>4, <2>1 DEF Counted
<1>5. CASE u # t
  <2>1. disk'[u] = disk[u] /\ claims'[u] = claims[u]
    BY <1>1, <1>2, <1>3, <1>5
  <2>2. QED
    BY <1>2, <1>3, <2>1 DEF Counted
<1>6. QED
  BY <1>4, <1>5

LEMMA CountsKept ==
  ASSUME ClaimInv, LastsKept, claims' = claims, now' \in {now, now + 1}, NEW t \in Tasks
  PROVE  Counted(t)'
<1>1. Counted(t) /\ now \in Nat /\ SameLast(disk[t], disk'[t])
  BY DEF ClaimInv, LastsKept, TypeInv, TypeOK
<1>2. disk[t] # NoTask => disk[t].lastFor \in Int
  BY DEF ClaimInv, TypeInv, TypeOK, OptTask, TaskRec, OptTime, NoTime
<1>3. disk'[t] # NoTask => disk'[t].lastFor <= now'
  BY <1>1, <1>2 DEF Counted, SameLast, NoTime
<1>4. QED
  BY <1>1, <1>3 DEF Counted, SameLast

LEMMA ClaimInvStep ==
  ASSUME ClaimInv, NoResets, ClaimsInTime, [Next]_vars
  PROVE  ClaimInv'
<1>1. TypeInv' /\ ProperInv'
  BY TypeInvStep, ProperStep DEF ClaimInv
<1>2. CASE \E i \in Instances, t \in Tasks : ClaimWins(i, t)
  <2>1. PICK i \in Instances, t \in Tasks : ClaimWins(i, t)
    BY <1>2
  <2>2. BodiesClaimed'
    BY <2>1, ClaimBodies DEF ClaimInv
  <2>3. \A u \in Tasks : Counted(u)'
    BY <2>1, ClaimCounted
  <2>4. QED
    BY <1>1, <2>2, <2>3 DEF ClaimInv
<1>3. CASE ~ \E i \in Instances, t \in Tasks : ClaimWins(i, t)
  <2>1. LastsKept /\ BodiesClaimed' /\ claims' = claims /\ now' \in {now, now + 1}
    BY <1>3, OtherSteps DEF ClaimInv
  <2>2. \A u \in Tasks : Counted(u)'
    BY <2>1, CountsKept
  <2>3. QED
    BY <1>1, <2>1, <2>2 DEF ClaimInv
<1>4. QED
  BY <1>2, <1>3

LEMMA ClaimInvInit ==
  ASSUME Init, NoResets
  PROVE  ClaimInv
<1>1. TypeInv /\ ProperInv
  BY TypeInvInit, ProperInit
<1>2. BodiesClaimed
  BY DEF Init, BodiesClaimed, BodyClaimed, NoRun
<1>3. ASSUME NEW t \in Tasks
      PROVE  Counted(t)
  BY DEF Init, NoResets, Counted, NoTime
<1>4. QED
  BY <1>1, <1>2, <1>3 DEF ClaimInv

(***************************************************************************)
(* No occurrence is claimed, and so run, twice over all processes that     *)
(* share the config files, whatever fails, crashes or is listed, while no  *)
(* claim waits past the next occurrence and no request puts back the state *)
(* of a task.  A PUT of a recurring task, schedule included, does not.     *)
(***************************************************************************)
THEOREM ClaimedOnce ==
  ASSUME NoResets
  PROVE  Spec /\ []ClaimsInTime => []AtMostOnce
<1>1. Init => ClaimInv
  BY ClaimInvInit
<1>2. ClaimInv /\ ClaimsInTime /\ [Next]_vars => ClaimInv'
  BY ClaimInvStep
<1>3. ClaimInv => AtMostOnce
  BY DEF ClaimInv, Counted, AtMostOnce
<1>4. QED
  BY <1>1, <1>2, <1>3, PTL DEF Spec

(***************************************************************************)
(* Under the same conditions the claim on disk never goes back to an       *)
(* earlier occurrence: what lies before it stays settled.                  *)
(***************************************************************************)
THEOREM LastForNeverBack ==
  ASSUME NoResets
  PROVE  Spec /\ []ClaimsInTime => LastForNeverGoesBack
<1> DEFINE Forward == \A t \in Tasks : disk[t] # NoTask /\ disk'[t] # NoTask
                        => disk'[t].lastFor >= disk[t].lastFor
<1>1. Init => ClaimInv
  BY ClaimInvInit
<1>2. ClaimInv /\ ClaimsInTime /\ [Next]_vars => ClaimInv'
  BY ClaimInvStep
<1>3. ClaimInv /\ ClaimsInTime /\ [Next]_vars => [Forward]_vars
  <2> SUFFICES ASSUME ClaimInv, ClaimsInTime, [Next]_vars, NEW t \in Tasks,
                      disk[t] # NoTask, disk'[t] # NoTask
               PROVE  disk'[t].lastFor >= disk[t].lastFor
    OBVIOUS
  <2>1. disk[t].lastFor \in Int
    BY DEF ClaimInv, TypeInv, TypeOK, OptTask, TaskRec, OptTime, NoTime
  <2>2. ASSUME NEW i \in Instances, NEW u \in Tasks, ClaimWins(i, u)
        PROVE  disk'[t].lastFor >= disk[t].lastFor
    BY <2>1, <2>2, ClaimAdvances
  <2>3. CASE ~ \E i \in Instances, u \in Tasks : ClaimWins(i, u)
    BY <2>1, <2>3, OtherSteps DEF ClaimInv, LastsKept, SameLast
  <2>4. QED
    BY <2>2, <2>3
<1>4. QED
  BY <1>1, <1>2, <1>3, PTL DEF Spec, LastForNeverGoesBack
-----------------------------------------------------------------------------
(* The refinement: a claim dispatches, what ends a run ends the occurrence *)

InSession == {"body", "consume", "complete", "retry"}

\* A scheduled run in its session has claimed its occurrence.
RunsClaimed ==
  \A i \in Instances, t \in Tasks :
    run[i][t].pc \in InSession /\ ~run[i][t].manual =>
      run[i][t].sf \in AllOcc /\ claims[t][run[i][t].sf] > 0

DispatchInv == ClaimInv /\ RunsClaimed

\* A step from run r to run s brings no scheduled run into its session.
NoneEnters(r, s) ==
  \/ s = r
  \/ s.pc \notin InSession
  \/ s.manual
  \/ r.pc \in InSession /\ s.manual = r.manual /\ s.sf = r.sf

NobodyEnters ==
  \A i \in Instances, t \in Tasks : NoneEnters(run[i][t], run'[i][t])

LEMMA OneEnters ==
  ASSUME TypeInv, NEW i \in Instances, NEW t \in Tasks, NEW r, NoneEnters(run[i][t], r),
         run' = [run EXCEPT ![i][t] = r]
  PROVE  NobodyEnters
<1>1. ASSUME NEW j \in Instances, NEW u \in Tasks
      PROVE  NoneEnters(run[j][u], run'[j][u])
  <2>1. CASE j = i /\ u = t
    BY <2>1 DEF TypeInv, TypeOK
  <2>2. CASE ~ (j = i /\ u = t)
    BY <2>2 DEF TypeInv, TypeOK, NoneEnters
  <2>3. QED
    BY <2>1, <2>2
<1>2. QED
  BY <1>1 DEF NobodyEnters

LEMMA OutsideEnters ==
  ASSUME TypeInv, NEW i \in Instances, NEW t \in Tasks,
         \/ run' = run \/ EndRun(i, t) \/ GoOn(i, t, "claimfailed")
         \/ \E manual \in BOOLEAN : \E sf : TakeSlot(i, t, manual, sf)
  PROVE  NobodyEnters
<1>1. CASE run' = run
  BY <1>1 DEF NobodyEnters, NoneEnters
<1>2. CASE EndRun(i, t)
  <2>1. NoneEnters(run[i][t], NoRun)
    BY DEF NoneEnters, NoRun, InSession
  <2>2. QED
    BY <1>2, <2>1, OneEnters DEF EndRun
<1>3. CASE GoOn(i, t, "claimfailed")
  <2> DEFINE r == [run[i][t] EXCEPT !.pc = "claimfailed"]
  <2>1. run' = [run EXCEPT ![i][t] = r]
    BY <1>3 DEF GoOn, TypeInv, TypeOK
  <2>2. r.pc = "claimfailed"
    BY RunParts DEF RunRec
  <2> HIDE DEF r
  <2>3. NoneEnters(run[i][t], r)
    BY <2>2 DEF NoneEnters, InSession
  <2>4. QED
    BY <2>1, <2>3, OneEnters
<1>4. ASSUME NEW manual \in BOOLEAN, NEW sf, TakeSlot(i, t, manual, sf)
      PROVE  NobodyEnters
  <2> DEFINE r == [pc |-> IF manual THEN "begin" ELSE "claim", manual |-> manual,
                   sf |-> sf, from |-> now,
                   next |-> IF manual THEN NoTime ELSE NextRun(mem[i][t], now),
                   task |-> mem[i][t], ok |-> FALSE]
  <2>1. run' = [run EXCEPT ![i][t] = r]
    BY <1>4 DEF TakeSlot
  <2>2. r.pc \notin InSession
    BY DEF InSession
  <2> HIDE DEF r
  <2>3. QED
    BY <2>1, <2>2, OneEnters DEF NoneEnters
<1>5. QED
  BY <1>1, <1>2, <1>3, <1>4

\* The steps of a run that has entered its session.
LEMMA SessionEnters ==
  ASSUME TypeInv, ProperInv, NEW i \in Instances, NEW t \in Tasks,
         \/ BeginManual(i, t) \/ (\E ok \in BOOLEAN : BodyEnds(i, t, ok))
         \/ Consume(i, t) \/ CompleteErrs(i, t)
  PROVE  NobodyEnters
<1>1. run[i][t] \in RunRec /\ (run[i][t].pc = "begin" => run[i][t].manual)
  BY RunParts DEF ProperInv, RunsProper, RunProper
<1>2. PICK r : /\ run' = [run EXCEPT ![i][t] = r]
               /\ r.manual = run[i][t].manual /\ r.sf = run[i][t].sf
               /\ run[i][t].pc \in InSession \/ run[i][t].manual
  <2>1. CASE BeginManual(i, t)
    <3> DEFINE r == [run[i][t] EXCEPT !.pc = "body", !.from = NoTime, !.next = NoTime]
    <3>1. run' = [run EXCEPT ![i][t] = r] /\ run[i][t].pc = "begin"
      BY <2>1 DEF BeginManual, ToBody, In
    <3>2. r.manual = run[i][t].manual /\ r.sf = run[i][t].sf
      BY <1>1 DEF RunRec
    <3> HIDE DEF r
    <3>3. QED
      BY <1>1, <3>1, <3>2
  <2>2. ASSUME NEW ok \in BOOLEAN, BodyEnds(i, t, ok)
        PROVE  \E r : /\ run' = [run EXCEPT ![i][t] = r]
                      /\ r.manual = run[i][t].manual /\ r.sf = run[i][t].sf
                      /\ run[i][t].pc \in InSession \/ run[i][t].manual
    <3> DEFINE consume == /\ Kind[Latest(i, t).sched] = "once"
                          /\ ~run[i][t].manual
                          /\ Latest(i, t).enabled
               r == [run[i][t] EXCEPT
                       !.pc = IF consume THEN "consume" ELSE "complete",
                       !.ok = ok, !.from = now, !.task = Latest(i, t),
                       !.next = IF consume THEN NoTime ELSE NextRun(Latest(i, t), now)]
    <3>1. run' = [run EXCEPT ![i][t] = r] /\ run[i][t].pc \in InSession
      BY <2>2 DEF BodyEnds, In, TypeInv, TypeOK, InSession
    <3> HIDE DEF consume
    <3>2. r.manual = run[i][t].manual /\ r.sf = run[i][t].sf
      BY <1>1 DEF RunRec
    <3> HIDE DEF r
    <3>3. QED
      BY <3>1, <3>2
  <2>3. CASE Consume(i, t)
    <3> DEFINE r == [run[i][t] EXCEPT !.pc = "complete",
                       !.task = [run[i][t].task EXCEPT !.enabled = FALSE]]
               q == [run[i][t] EXCEPT !.pc = "complete",
                       !.next = NextRun(run[i][t].task, run[i][t].from)]
    <3>1. /\ run' = [run EXCEPT ![i][t] = r] \/ run' = [run EXCEPT ![i][t] = q]
          /\ run[i][t].pc \in InSession
      BY <2>3 DEF Consume, In, TypeInv, TypeOK, InSession
    <3>2. /\ r.manual = run[i][t].manual /\ r.sf = run[i][t].sf
          /\ q.manual = run[i][t].manual /\ q.sf = run[i][t].sf
      BY <1>1 DEF RunRec
    <3> HIDE DEF r, q
    <3>3. QED
      BY <3>1, <3>2
  <2>4. CASE CompleteErrs(i, t)
    <3> DEFINE r == [run[i][t] EXCEPT !.pc = "retry"]
    <3>1. run' = [run EXCEPT ![i][t] = r] /\ run[i][t].pc \in InSession
      BY <2>4 DEF CompleteErrs, GoOn, In, TypeInv, TypeOK, InSession
    <3>2. r.manual = run[i][t].manual /\ r.sf = run[i][t].sf
      BY <1>1 DEF RunRec
    <3> HIDE DEF r
    <3>3. QED
      BY <3>1, <3>2
  <2>5. QED
    BY <2>1, <2>2, <2>3, <2>4
<1>3. NoneEnters(run[i][t], r)
  BY <1>2 DEF NoneEnters
<1>4. QED
  BY <1>2, <1>3, OneEnters

LEMMA OthersEnter ==
  ASSUME TypeInv, ProperInv, [Next]_vars,
         ~ \E i \in Instances, t \in Tasks : ClaimWins(i, t)
  PROVE  NobodyEnters
<1>1. CASE run' = run
  BY <1>1 DEF NobodyEnters, NoneEnters
<1>2. ASSUME NEW i \in Instances, Pump(i) \/ Stop(i) \/ Crash(i)
      PROVE  NobodyEnters
  <2>1. CASE PumpEnds(i) \/ Stop(i)
    BY <1>1, <2>1 DEF PumpEnds, Stop
  <2>2. CASE PumpStarts(i)
    <3> DEFINE t == queue[i][Min(Startable(i))].task
    <3>1. t \in Tasks
      BY <2>2, StartableEntry DEF PumpStarts, TypeInv
    <3>2. run' = run \/ TakeSlot(i, t, FALSE, queue[i][Min(Startable(i))].sf)
      BY <2>2 DEF PumpStarts
    <3> HIDE DEF t
    <3>3. QED
      BY <3>1, <3>2, OutsideEnters
  <2>3. CASE Crash(i)
    <3>1. ASSUME NEW j \in Instances, NEW u \in Tasks
          PROVE  run'[j][u] = run[j][u] \/ run'[j][u].pc = "idle"
      BY <2>3 DEF Crash, TypeInv, TypeOK, NoRun
    <3>2. QED
      BY <3>1 DEF NobodyEnters, NoneEnters, InSession
  <2>4. QED
    BY <1>2, <2>1, <2>2, <2>3 DEF Pump
<1>3. ASSUME NEW i \in Instances, NEW t \in Tasks,
             TimerFires(i, t) \/ RunNow(i, t) \/ RunStep(i, t) \/ RunFault(i, t)
      PROVE  NobodyEnters
  <2>1. CASE \/ BeginManual(i, t) \/ (\E ok \in BOOLEAN : BodyEnds(i, t, ok))
             \/ Consume(i, t) \/ CompleteErrs(i, t)
    BY <2>1, SessionEnters
  <2>2. CASE \/ TimerFires(i, t) \/ RunNow(i, t) \/ ClaimLost(i, t) \/ TaskGone(i, t)
             \/ RecordClaimFailure(i, t) \/ Complete(i, t) \/ ClaimErrs(i, t)
             \/ BeginManualErrs(i, t) \/ RetryErrs(i, t)
    <3>1. \/ run' = run \/ EndRun(i, t) \/ GoOn(i, t, "claimfailed")
          \/ TakeSlot(i, t, TRUE, NoTime)
      BY <2>2 DEF TimerFires, RunNow, ClaimLost, TaskGone, RecordClaimFailure, Complete,
                  ClaimErrs, BeginManualErrs, RetryErrs
    <3>2. QED
      BY <3>1, OutsideEnters
  <2>3. QED
    BY <1>3, <2>1, <2>2 DEF RunStep, RunFault
<1>4. ASSUME NEW i \in Instances, NEW h \in Handlers,
             HandlerStep(i, h) \/ HandlerErrs(i, h) \/ Request(i, h)
      PROVE  NobodyEnters
  <2>1. run' = run
    BY <1>4 DEF HandlerStep, Reconcile, PatchNext, Saved, EditSaved, Removed, HandlerErrs,
                Request, Start, List, Save, EditListed, Delete
  <2>2. QED
    BY <1>1, <2>1
<1>5. QED
  BY <1>1, <1>2, <1>3, <1>4 DEF Next, Tick, vars

\* What a claim does to the runs: the claiming one enters its session with an
\* occurrence nobody had claimed.
LEMMA ClaimEnters ==
  ASSUME DispatchInv, ClaimsInTime, NEW i \in Instances, NEW t \in Tasks, ClaimWins(i, t)
  PROVE  LET sf == run[i][t].sf
         IN  /\ sf \in AllOcc /\ sf <= now /\ now' = now /\ claims[t][sf] = 0
             /\ claims' = [claims EXCEPT ![t][sf] = 1]
             /\ run[i][t].pc = "claim" /\ run'[i][t].pc = "body" /\ run'[i][t].sf = sf
             /\ run'[i][t].manual = run[i][t].manual
             /\ \A j \in Instances, u \in Tasks :
                  ~ (j = i /\ u = t) => run'[j][u] = run[j][u]
<1> DEFINE sf == run[i][t].sf
           r == [run[i][t] EXCEPT !.pc = "body", !.from = NoTime, !.next = NoTime]
<1>1. /\ sf \in AllOcc /\ sf \in Nat /\ sf <= now
      /\ disk[t].lastFor \in Int /\ disk[t].lastFor < sf
  BY ClaimAdvances DEF DispatchInv
<1>2. /\ now' = now /\ claims' = [claims EXCEPT ![t][sf] = @ + 1]
      /\ run' = [run EXCEPT ![i][t] = r] /\ run[i][t].pc = "claim"
  BY DEF ClaimWins, ToBody, In
<1>3. claims \in [Tasks -> [AllOcc -> Nat]] /\ run[i][t] \in RunRec
  BY DEF DispatchInv, ClaimInv, TypeInv, TypeOK
<1>4. claims[t][sf] = 0
  <2>1. claims[t][sf] > 0 => disk[t].lastFor >= sf
    BY <1>1 DEF DispatchInv, ClaimInv, Counted
  <2>2. claims[t][sf] \in Nat
    BY <1>1, <1>3
  <2> HIDE DEF sf
  <2>3. QED
    BY <1>1, <2>1, <2>2
<1>5. claims' = [claims EXCEPT ![t][sf] = 1]
  BY <1>2, <1>4
<1>6. r.pc = "body" /\ r.sf = sf /\ r.manual = run[i][t].manual
  BY <1>3 DEF RunRec
<1> HIDE DEF r
<1>7. /\ run'[i][t] = r
      /\ \A j \in Instances, u \in Tasks :
           ~ (j = i /\ u = t) => run'[j][u] = run[j][u]
  BY <1>2 DEF DispatchInv, ClaimInv, TypeInv, TypeOK
<1>8. QED
  BY <1>1, <1>2, <1>4, <1>5, <1>6, <1>7

LEMMA DispatchInvStep ==
  ASSUME DispatchInv, NoResets, ClaimsInTime, [Next]_vars
  PROVE  DispatchInv'
<1>1. ClaimInv'
  BY ClaimInvStep DEF DispatchInv
<1>2. claims \in [Tasks -> [AllOcc -> Nat]]
  BY DEF DispatchInv, ClaimInv, TypeInv, TypeOK
<1>3. ASSUME NEW i \in Instances, NEW t \in Tasks, ClaimWins(i, t)
      PROVE  RunsClaimed'
  <2> DEFINE sf == run[i][t].sf
  <2>1. /\ sf \in AllOcc /\ claims' = [claims EXCEPT ![t][sf] = 1]
        /\ run'[i][t].sf = sf
        /\ \A j \in Instances, u \in Tasks :
             ~ (j = i /\ u = t) => run'[j][u] = run[j][u]
    BY <1>3, ClaimEnters
  <2> HIDE DEF sf
  <2>2. claims'[t][sf] = 1
    BY <1>2, <2>1
  <2>3. \A u \in Tasks, o \in AllOcc : claims[u][o] > 0 => claims'[u][o] > 0
    BY <1>2, <2>1
  <2>4. ASSUME NEW j \in Instances, NEW u \in Tasks,
               run'[j][u].pc \in InSession, ~run'[j][u].manual
        PROVE  run'[j][u].sf \in AllOcc /\ claims'[u][run'[j][u].sf] > 0
    <3>1. CASE j = i /\ u = t
      BY <2>1, <2>2, <3>1
    <3>2. CASE ~ (j = i /\ u = t)
      BY <2>1, <2>3, <2>4, <3>2 DEF DispatchInv, RunsClaimed
    <3>3. QED
      BY <3>1, <3>2
  <2>5. QED
    BY <2>4 DEF RunsClaimed
<1>4. CASE ~ \E i \in Instances, t \in Tasks : ClaimWins(i, t)
  <2>1. NobodyEnters /\ claims' = claims
    BY <1>4, OthersEnter, OtherSteps DEF DispatchInv, ClaimInv
  <2>2. ASSUME NEW j \in Instances, NEW u \in Tasks,
               run'[j][u].pc \in InSession, ~run'[j][u].manual
        PROVE  /\ run[j][u].pc \in InSession /\ ~run[j][u].manual
               /\ run'[j][u].sf = run[j][u].sf
    <3>1. NoneEnters(run[j][u], run'[j][u])
      BY <2>1 DEF NobodyEnters
    <3>2. QED
      BY <2>2, <3>1 DEF NoneEnters
  <2>3. RunsClaimed'
    BY <2>1, <2>2 DEF DispatchInv, RunsClaimed
  <2>4. QED
    BY <1>1, <2>3 DEF DispatchInv
<1>5. QED
  BY <1>1, <1>3, <1>4 DEF DispatchInv

LEMMA DispatchInvInit ==
  ASSUME Init, NoResets
  PROVE  DispatchInv
<1>1. RunsClaimed
  BY DEF Init, RunsClaimed, NoRun, InSession
<1>2. QED
  BY <1>1, ClaimInvInit DEF DispatchInv

\* The fate of an occurrence, without the quantifier over processes.
LEMMA FateOf ==
  ASSUME NEW t \in Tasks, NEW o \in AllOcc
  PROVE  /\ occurrenceFate[t][o] =
              IF \E i \in Instances : Dispatched(i, t, o) THEN "running"
              ELSE IF claims[t][o] > 0 THEN "ended" ELSE "open"
         /\ occurrenceFate'[t][o] =
              IF \E i \in Instances : Dispatched(i, t, o)' THEN "running"
              ELSE IF claims'[t][o] > 0 THEN "ended" ELSE "open"
  BY DEF occurrenceFate

LEMMA FateIsFunction ==
  /\ occurrenceFate \in [Tasks -> [AllOcc -> {"open", "running", "ended"}]]
  /\ occurrenceFate' \in [Tasks -> [AllOcc -> {"open", "running", "ended"}]]
  BY DEF occurrenceFate

LEMMA ClaimDispatches ==
  ASSUME DispatchInv, ClaimsInTime, NEW i \in Instances, NEW t \in Tasks, ClaimWins(i, t)
  PROVE  Dispatch!Next
<1> DEFINE sf == run[i][t].sf
<1>1. /\ sf \in AllOcc /\ sf <= now /\ now' = now /\ claims[t][sf] = 0
      /\ claims' = [claims EXCEPT ![t][sf] = 1]
      /\ run[i][t].pc = "claim" /\ run'[i][t].pc = "body" /\ run'[i][t].sf = sf
      /\ run'[i][t].manual = run[i][t].manual
      /\ \A j \in Instances, u \in Tasks :
           ~ (j = i /\ u = t) => run'[j][u] = run[j][u]
  BY ClaimEnters
<1>2. claims \in [Tasks -> [AllOcc -> Nat]]
  BY DEF DispatchInv, ClaimInv, TypeInv, TypeOK
<1>3. ~run[i][t].manual
  BY <1>1 DEF DispatchInv, ClaimInv, ProperInv, RunsProper, RunProper
<1>4. ASSUME NEW j \in Instances, NEW u \in Tasks, NEW o
      PROVE  Dispatched(j, u, o)' <=> Dispatched(j, u, o) \/ (j = i /\ u = t /\ o = sf)
  <2>1. CASE j = i /\ u = t
    <3>1. ~ Dispatched(i, t, o)
      BY <1>1 DEF Dispatched
    <3>2. Dispatched(i, t, o)' <=> o = sf
      BY <1>1, <1>3 DEF Dispatched
    <3>3. QED
      BY <2>1, <3>1, <3>2
  <2>2. CASE ~ (j = i /\ u = t)
    <3>1. run'[j][u] = run[j][u]
      BY <1>1, <2>2
    <3>2. Dispatched(j, u, o)' <=> Dispatched(j, u, o)
      BY <3>1 DEF Dispatched
    <3>3. QED
      BY <2>2, <3>2
  <2>3. QED
    BY <2>1, <2>2
<1>5. ~ \E j \in Instances : Dispatched(j, t, sf)
  BY <1>1 DEF DispatchInv, RunsClaimed, Dispatched, InSession
<1> HIDE DEF sf
<1>6. occurrenceFate[t][sf] = "open"
  BY <1>1, <1>5, FateOf
<1>7. ASSUME NEW u \in Tasks, NEW o \in AllOcc
      PROVE  occurrenceFate'[u][o] = IF u = t /\ o = sf THEN "running" ELSE occurrenceFate[u][o]
  <2>1. CASE u = t /\ o = sf
    <3>1. Dispatched(i, u, o)'
      BY <1>4, <2>1
    <3>2. \E j \in Instances : Dispatched(j, u, o)'
      BY <3>1
    <3>3. QED
      BY <2>1, <3>2, FateOf
  <2>2. CASE ~ (u = t /\ o = sf)
    <3>1. claims'[u][o] = claims[u][o]
      BY <1>1, <1>2, <2>2
    <3>2. (\E j \in Instances : Dispatched(j, u, o)') <=> \E j \in Instances : Dispatched(j, u, o)
      BY <1>4, <2>2
    <3>3. QED
      BY <2>2, <3>1, <3>2, FateOf
  <2>3. QED
    BY <2>1, <2>2
<1>8. occurrenceFate' = [occurrenceFate EXCEPT ![t][sf] = "running"]
  <2> DEFINE f == occurrenceFate
             g == occurrenceFate'
  <2>1. /\ f \in [Tasks -> [AllOcc -> {"open", "running", "ended"}]]
        /\ g \in [Tasks -> [AllOcc -> {"open", "running", "ended"}]]
    BY FateIsFunction
  <2>2. \A u \in Tasks, o \in AllOcc :
          g[u][o] = IF u = t /\ o = sf THEN "running" ELSE f[u][o]
    BY <1>7
  <2> HIDE DEF f, g
  <2>3. g = [f EXCEPT ![t][sf] = "running"]
    BY <1>1, <2>1, <2>2
  <2>4. QED
    BY <2>3 DEF f, g
<1>9. Dispatch!Dispatch(t, sf)
  BY <1>1, <1>6, <1>8 DEF Dispatch!Dispatch
<1>10. QED
  BY <1>1, <1>9 DEF Dispatch!Next

LEMMA OthersEnd ==
  ASSUME DispatchInv, NobodyEnters, claims' = claims, now' = now
  PROVE  Dispatch!Next
<1> DEFINE S == {x \in Tasks \X AllOcc : /\ occurrenceFate[x[1]][x[2]] = "running"
                                        /\ occurrenceFate'[x[1]][x[2]] # "running"}
<1>1. ASSUME NEW j \in Instances, NEW u \in Tasks, NEW o, Dispatched(j, u, o)'
      PROVE  Dispatched(j, u, o)
  <2>1. NoneEnters(run[j][u], run'[j][u])
    BY DEF NobodyEnters
  <2>2. QED
    BY <1>1, <2>1 DEF NoneEnters, Dispatched, InSession
<1>2. ASSUME NEW u \in Tasks, NEW o \in AllOcc, \E j \in Instances : Dispatched(j, u, o)
      PROVE  claims[u][o] > 0
  BY <1>2 DEF DispatchInv, RunsClaimed, Dispatched, InSession
<1>3. ASSUME NEW u \in Tasks, NEW o \in AllOcc
      PROVE  occurrenceFate'[u][o] = IF <<u, o>> \in S THEN "ended" ELSE occurrenceFate[u][o]
  <2> DEFINE a == \E j \in Instances : Dispatched(j, u, o)
             b == \E j \in Instances : Dispatched(j, u, o)'
  <2>1. (b => a) /\ (a => claims[u][o] > 0)
    BY <1>1, <1>2
  <2>2. /\ occurrenceFate[u][o] =
             IF a THEN "running" ELSE IF claims[u][o] > 0 THEN "ended" ELSE "open"
        /\ occurrenceFate'[u][o] =
             IF b THEN "running" ELSE IF claims[u][o] > 0 THEN "ended" ELSE "open"
    BY FateOf
  <2>3. <<u, o>> \in S <=> /\ occurrenceFate[u][o] = "running"
                           /\ occurrenceFate'[u][o] # "running"
    OBVIOUS
  <2> HIDE DEF a, b, S
  <2>4. QED
    BY <2>1, <2>2, <2>3
<1>4. \A x \in S : occurrenceFate[x[1]][x[2]] = "running"
  OBVIOUS
<1>5. S \in SUBSET (Tasks \X AllOcc)
  OBVIOUS
<1> HIDE DEF S
<1>6. occurrenceFate' = [t \in Tasks |-> [o \in AllOcc |->
                           IF <<t, o>> \in S THEN "ended" ELSE occurrenceFate[t][o]]]
  <2> DEFINE f == occurrenceFate
             g == occurrenceFate'
  <2>1. g \in [Tasks -> [AllOcc -> {"open", "running", "ended"}]]
    BY FateIsFunction
  <2>2. \A u \in Tasks, o \in AllOcc : g[u][o] = IF <<u, o>> \in S THEN "ended" ELSE f[u][o]
    BY <1>3
  <2> HIDE DEF f, g
  <2>3. g = [t \in Tasks |-> [o \in AllOcc |-> IF <<t, o>> \in S THEN "ended" ELSE f[t][o]]]
    BY <2>1, <2>2
  <2>4. QED
    BY <2>3 DEF f, g
<1>7. Dispatch!End(S)
  BY <1>4, <1>6 DEF Dispatch!End
<1>8. QED
  BY <1>5, <1>7 DEF Dispatch!Next

LEMMA DispatchStep ==
  ASSUME DispatchInv, NoResets, ClaimsInTime, [Next]_vars
  PROVE  [Dispatch!Next]_(Dispatch!dispatchVars)
<1>1. CASE \E i \in Instances, t \in Tasks : ClaimWins(i, t)
  BY <1>1, ClaimDispatches
<1>2. CASE Tick
  <2>1. run' = run /\ claims' = claims /\ now' = now + 1
    BY <1>2 DEF Tick
  <2>2. occurrenceFate' = occurrenceFate
    BY <2>1 DEF occurrenceFate, Dispatched
  <2>3. QED
    BY <2>1, <2>2 DEF Dispatch!Next, Dispatch!Advance
<1>3. CASE /\ ~ Tick /\ ~ \E i \in Instances, t \in Tasks : ClaimWins(i, t)
  <2>1. NobodyEnters /\ claims' = claims /\ now' = now
    BY <1>3, OthersEnter, OtherSteps DEF DispatchInv, ClaimInv
  <2>2. QED
    BY <2>1, OthersEnd
<1>4. QED
  BY <1>1, <1>2, <1>3

(***************************************************************************)
(* Under the same conditions the runtimes together implement               *)
(* OccurrenceDispatch: an occurrence is dispatched once, not before its    *)
(* time, and once ended, by itself or by a crash, never again.             *)
(***************************************************************************)
THEOREM ImplementsDispatch ==
  ASSUME NoResets
  PROVE  Spec /\ []ClaimsInTime => RefinesDispatch
<1>1. Init => DispatchInv
  BY DispatchInvInit
<1>2. DispatchInv /\ ClaimsInTime /\ [Next]_vars => DispatchInv'
  BY DispatchInvStep
<1>3. Init => Dispatch!Init
  BY DEF Init, Dispatch!Init, occurrenceFate, Dispatched, NoRun
<1>4. DispatchInv /\ ClaimsInTime /\ [Next]_vars => [Dispatch!Next]_(Dispatch!dispatchVars)
  BY DispatchStep
<1>5. QED
  BY <1>1, <1>2, <1>3, <1>4, PTL DEF Spec, RefinesDispatch, Dispatch!Spec
=============================================================================
