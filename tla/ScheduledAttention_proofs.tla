--------------------- MODULE ScheduledAttention_proofs ---------------------
(***************************************************************************)
(* No enabled task with an occurrence to come is forgotten, for every set  *)
(* of processes, tasks and schedules, all limits, and any number of starts,*)
(* listings, manual runs, stops and crashes: as long as no config update   *)
(* throws, and either nobody edits tasks or a single process does, whose   *)
(* completion writes are not overtaken by later updates.                   *)
(***************************************************************************)
EXTENDS ScheduledTasks_proofs

\* No config update throws.
Faultless == Budget["faults"] = 0

\* Nobody edits or deletes tasks.
NoEdits ==
  /\ Budget["edits"] = 0 /\ Budget["listedEdits"] = 0 /\ Budget["deletes"] = 0
  /\ NoTask \notin Tasks

\* A process that does not hear of the edits of another may forget a task.
OneEditor == NoEdits \/ \A i, j \in Instances : i = j
-----------------------------------------------------------------------------
(* What a process holds of a task, and what it has still to do for it.     *)

\* The task has an occurrence after n.
Comes(x, n) == x # NoTask /\ NextRun(x, n) # NoTime

\* Whoever holds x has nothing to learn of y: if y is there, so may x be, and
\* every occurrence of y is one of x.
Covers(x, y) ==
  /\ y = NoTask => x = NoTask
  /\ y # NoTask /\ y.enabled => x # NoTask /\ x.enabled /\ x.sched = y.sched

Entry(i, t) == \E k \in DOMAIN queue[i] : queue[i][k].task = t

\* A request of the process is going to list the project of the task.
WillList(hd, t) == hd.pc \in {"reconcile", "patch"} /\ ProjectOf[t] \in hd.projs
Pledged(i, t) == \E h \in Handlers : WillList(handler[i][h], t)

\* A request of the process, in the middle of a listing that knows the task
\* in memory, is going to arm its timer.
WillSync(hd, t, task) ==
  /\ hd.pc = "patch"
  /\ \/ t \in hd.todo /\ Covers(hd.snap[t], task)
     \/ t = hd.cur /\ hd.next # NoTime
SyncDue(i, t) ==
  Pledged(i, t) \/ \E h \in Handlers : WillSync(handler[i][h], t, mem[i][t])

\* A run whose completion write, still to come, arms no timer.
Closing(r) == r.pc = "complete" /\ ~(r.next > r.from)

\* The completion write of a run is done before a timer armed meanwhile comes
\* due, or before the last sync of the task that was requested after it.
RecordedInTime ==
  \A i \in Instances, t \in Tasks :
    /\ Closing(run[i][t])
    /\ Comes(mem[i][t], now)
    /\ timer[i][t] # NoTime
    /\ timer[i][t] <= now
    => SyncDue(i, t)

\* What is on disk is known in memory, unless a listing is due.
Informed(i, t) ==
  phase[i] # "down" => Covers(mem[i][t], disk[t]) \/ Pledged(i, t)

\* A task with an occurrence to come has a timer, or a step to come arms one.
Cared(i, t) ==
  phase[i] = "started" /\ Comes(mem[i][t], now) =>
    \/ timer[i][t] # NoTime
    \/ SyncDue(i, t)
    \/ ~Closing(run[i][t]) /\ (t \in running[i] \/ Entry(i, t))

\* Runs and requests are where they can be without faults and edits.
Ordinary ==
  /\ \A i \in Instances, t \in Tasks : run[i][t].pc \notin {"claimfailed", "retry"}
  /\ NoEdits => \A i \in Instances, h \in Handlers :
       /\ handler[i][h].pc \notin {"save", "edit", "remove"}
       /\ handler[i][h].target = NoTask

Kept(i, t) == Informed(i, t) /\ Cared(i, t)
AllKept == \A i \in Instances, t \in Tasks : Kept(i, t)
-----------------------------------------------------------------------------
(* The operators.                                                          *)

LEMMA CoversItself == \A x : Covers(x, x)
  BY DEF Covers

LEMMA CoversOn ==
  ASSUME NEW x, NEW y, NEW z, Covers(x, y), Covers(y, z)
  PROVE  Covers(x, z)
  BY DEF Covers

\* Runtime state does not matter.
LEMMA CoversState ==
  ASSUME NEW x \in TaskRec, NEW y \in TaskRec,
         y.sched = x.sched, y.enabled => x.enabled
  PROVE  Covers(x, y)
<1>1. x # NoTask /\ y # NoTask
  BY ScheduledTasksAssumption
<1>2. QED
  BY <1>1 DEF Covers

LEMMA ComesUpcoming ==
  ASSUME NEW x \in TaskRec, NEW n \in Int
  PROVE  Comes(x, n) <=> x.enabled /\ Upcoming(x.sched, n) # {}
<1> DEFINE S == Upcoming(x.sched, n)
<1>1. x # NoTask /\ S \in SUBSET Nat
  BY ScheduledTasksAssumption DEF Upcoming, TaskRec
<1>2. S # {} => Min(S) \in Nat
  <2> HIDE DEF S
  <2> QED BY <1>1, MinOfNaturals
<1>3. QED
  BY <1>1, <1>2 DEF Comes, NextRun, NoTime

LEMMA ComesCovered ==
  ASSUME NEW x \in OptTask, NEW y \in OptTask, NEW n \in Int,
         Covers(x, y), Comes(y, n)
  PROVE  Comes(x, n)
<1>1. y # NoTask /\ y \in TaskRec
  BY DEF Comes, OptTask
<1>2. y.enabled /\ Upcoming(y.sched, n) # {}
  BY <1>1, ComesUpcoming
<1>3. x \in TaskRec /\ x.enabled /\ x.sched = y.sched
  BY <1>1, <1>2 DEF Covers, OptTask
<1>4. QED
  BY <1>2, <1>3, ComesUpcoming

LEMMA ComesEarlier ==
  ASSUME NEW x \in OptTask, NEW n \in Int, NEW m \in Int, n <= m, Comes(x, m)
  PROVE  Comes(x, n)
<1>1. x \in TaskRec
  BY DEF Comes, OptTask
<1>2. x.enabled /\ Upcoming(x.sched, m) # {}
  BY <1>1, ComesUpcoming
<1>3. Upcoming(x.sched, m) \subseteq Upcoming(x.sched, n)
  <2>1. Occ[x.sched] \in SUBSET Nat /\ Slack \in Nat
    BY <1>1, ScheduledTasksAssumption DEF TaskRec
  <2>2. QED
    BY <2>1 DEF Upcoming
<1>4. QED
  BY <1>1, <1>2, <1>3, ComesUpcoming

\* A re-arm gives a task with an occurrence to come a timer.
LEMMA RearmArms ==
  ASSUME TypeInv, NEW i \in Instances, NEW t \in Tasks, NEW x \in TaskRec,
         phase[i] = "started", Comes(x, now)
  PROVE  Rearmed(i, t, x, now) # NoTime
<1>1. now \in Nat /\ x.next \in OptTime /\ x.enabled
  BY ComesUpcoming DEF TypeInv, TypeOK, TaskRec
<1>2. NextRun(x, now) > now
  BY <1>1, NextRunType DEF Comes
<1>3. x.next > now => x.next # NoTime
  BY <1>1 DEF NoTime
<1>4. QED
  BY <1>1, <1>2, <1>3 DEF Rearmed, ArmedIfFuture, Armed, Comes
-----------------------------------------------------------------------------
(* What a step leaves alone.                                               *)

LEMMA Types ==
  ASSUME TypeInv, NEW i \in Instances, NEW t \in Tasks
  PROVE  /\ mem[i][t] \in OptTask /\ disk[t] \in OptTask /\ now \in Nat
         /\ timer[i][t] \in OptTime
         /\ \A h \in Handlers : /\ handler[i][h].snap[t] \in OptTask
                                /\ handler[i][h].projs \subseteq Projects
         /\ ProjectOf[t] \in Projects
  BY ScheduledTasksAssumption DEF TypeInv, TypeOK, HandlerRec

LEMMA Undisturbed ==
  ASSUME TypeInv, TypeInv', NEW i \in Instances, NEW t \in Tasks, Kept(i, t),
         phase'[i] = phase[i], mem'[i][t] = mem[i][t],
         timer'[i][t] = timer[i][t], run'[i][t] = run[i][t],
         t \in running[i] => t \in running'[i],
         Entry(i, t) => Entry(i, t)',
         Pledged(i, t) => Pledged(i, t)',
         SyncDue(i, t) /\ Comes(mem[i][t], now) => SyncDue(i, t)',
         now <= now',
         Covers(disk[t], disk'[t])
  PROVE  Kept(i, t)'
<1>1. Informed(i, t)'
  BY CoversOn DEF Kept, Informed
<1>2. ASSUME Comes(mem'[i][t], now')
      PROVE  Comes(mem[i][t], now)
  BY <1>2, Types, ComesEarlier DEF TypeInv, TypeOK
<1>3. Cared(i, t)'
  BY <1>2 DEF Kept, Cared
<1>4. QED
  BY <1>1, <1>3 DEF Kept

\* A request starts, or turns to listing.
LEMMA RequestGrows ==
  ASSUME TypeInv, NEW i \in Instances, NEW h \in Handlers, NEW hd,
         SetHandler(i, h, hd),
         handler[i][h].pc \notin {"reconcile", "patch"}, mem' = mem
  PROVE  \A j \in Instances, t \in Tasks :
           /\ Pledged(j, t) => Pledged(j, t)'
           /\ SyncDue(j, t) => SyncDue(j, t)'
<1>1. handler \in [Instances -> [Handlers -> HandlerRec]]
  BY DEF TypeInv, TypeOK
<1>2. ASSUME NEW j \in Instances, NEW g \in Handlers,
             handler[j][g].pc \in {"reconcile", "patch"}
      PROVE  handler'[j][g] = handler[j][g]
  BY <1>1, <1>2 DEF SetHandler
<1>3. ASSUME NEW j \in Instances, NEW t \in Tasks, Pledged(j, t)
      PROVE  Pledged(j, t)'
  BY <1>2, <1>3 DEF Pledged, WillList
<1>4. ASSUME NEW j \in Instances, NEW t \in Tasks, NEW g \in Handlers,
             WillSync(handler[j][g], t, mem[j][t])
      PROVE  WillSync(handler'[j][g], t, mem'[j][t])
  BY <1>2, <1>4 DEF WillSync
<1>5. QED
  BY <1>3, <1>4 DEF SyncDue

\* A listing in progress still knows a task whose copy in memory is replaced.
LEMMA SyncCarries ==
  ASSUME NEW i \in Instances, NEW t \in Tasks, handler' = handler,
         SyncDue(i, t), Covers(mem[i][t], mem'[i][t])
  PROVE  SyncDue(i, t)'
<1>1. Pledged(i, t) => Pledged(i, t)'
  BY DEF Pledged
<1>2. ASSUME NEW h \in Handlers, WillSync(handler[i][h], t, mem[i][t])
      PROVE  WillSync(handler'[i][h], t, mem'[i][t])
  BY <1>2, CoversOn DEF WillSync
<1>3. QED
  BY <1>1, <1>2 DEF SyncDue

-----------------------------------------------------------------------------
(* The steps of a run.                                                     *)

\* A step that changes nothing but one task of one process, and the runtime
\* state of the task on disk.
Beside(i, t) ==
  /\ UNCHANGED <<now, phase, queue, handler>>
  /\ \A j \in Instances, u \in Tasks : j # i \/ u # t =>
       /\ mem'[j][u] = mem[j][u]
       /\ timer'[j][u] = timer[j][u]
       /\ run'[j][u] = run[j][u]
       /\ u \in running[j] => u \in running'[j]
  /\ \A u \in Tasks : Covers(disk[u], disk'[u])

LEMMA BesideKept ==
  ASSUME TypeInv, TypeInv', AllKept, NEW i \in Instances, NEW t \in Tasks,
         Beside(i, t), Kept(i, t)'
  PROVE  AllKept'
<1>1. ASSUME NEW j \in Instances, NEW u \in Tasks, j # i \/ u # t
      PROVE  Kept(j, u)'
  <2>1. /\ now' = now /\ phase' = phase /\ queue' = queue /\ handler' = handler
        /\ mem'[j][u] = mem[j][u] /\ timer'[j][u] = timer[j][u]
        /\ run'[j][u] = run[j][u] /\ (u \in running[j] => u \in running'[j])
        /\ Covers(disk[u], disk'[u])
    BY <1>1 DEF Beside
  <2>2. Pledged(j, u) => Pledged(j, u)'
    BY <2>1 DEF Pledged
  <2>3. SyncDue(j, u) => SyncDue(j, u)'
    BY <2>1, <2>2 DEF SyncDue
  <2>4. Entry(j, u) => Entry(j, u)'
    BY <2>1 DEF Entry
  <2>5. now <= now' /\ Kept(j, u)
    BY <2>1, Types DEF AllKept
  <2>6. QED
    BY <2>1, <2>2, <2>3, <2>4, <2>5, Undisturbed
<1>2. QED
  BY <1>1 DEF AllKept

\* What the updates of a run, and its end, leave alone.
LEMMA RunBeside ==
  ASSUME TypeInv, NEW i \in Instances, NEW t \in Tasks,
         UNCHANGED <<now, phase, queue, handler>>,
         \/ UNCHANGED disk
         \/ \E d : SetDisk(t, d) /\ Covers(disk[t], d),
         \/ UNCHANGED mem
         \/ \E d : SetMem(i, t, d),
         \/ UNCHANGED timer
         \/ \E at : SetTimer(i, t, at),
         \/ EndRun(i, t)
         \/ running' = running /\ \E r : run' = [run EXCEPT ![i][t] = r]
  PROVE  Beside(i, t)
<1>1. /\ disk \in [Tasks -> OptTask]
      /\ mem \in [Instances -> [Tasks -> OptTask]]
      /\ timer \in [Instances -> [Tasks -> OptTime]]
      /\ run \in [Instances -> [Tasks -> RunRec]]
      /\ running \in [Instances -> SUBSET Tasks]
  BY DEF TypeInv, TypeOK
<1>2. ASSUME NEW u \in Tasks
      PROVE  Covers(disk[u], disk'[u])
  <2>1. CASE u = t
    BY <1>1, <2>1, CoversItself DEF SetDisk
  <2>2. CASE u # t
    <3>1. disk'[u] = disk[u]
      BY <1>1, <2>2 DEF SetDisk
    <3>2. QED
      BY <3>1, CoversItself
  <2>3. QED
    BY <2>1, <2>2
<1>3. ASSUME NEW j \in Instances, NEW u \in Tasks, j # i \/ u # t
      PROVE  /\ mem'[j][u] = mem[j][u]
             /\ timer'[j][u] = timer[j][u]
             /\ run'[j][u] = run[j][u]
             /\ u \in running[j] => u \in running'[j]
  <2>1. mem'[j][u] = mem[j][u]
    BY <1>1, <1>3 DEF SetMem
  <2>2. timer'[j][u] = timer[j][u]
    BY <1>1, <1>3 DEF SetTimer
  <2>3. run'[j][u] = run[j][u]
    BY <1>1, <1>3 DEF EndRun
  <2>4. u \in running[j] => u \in running'[j]
    BY <1>1, <1>3 DEF EndRun
  <2>5. QED
    BY <2>1, <2>2, <2>3, <2>4
<1>4. QED
  BY <1>2, <1>3 DEF Beside

\* A run in its process: it holds the slot, so it cares for its task until it
\* closes.
LEMMA InSlot ==
  ASSUME SlotsMatchRuns, NEW i \in Instances, NEW t \in Tasks,
         running[i] = running'[i], run[i][t].pc # "idle",
         ~Closing(run'[i][t]),
         phase[i] = "down" \/ Covers(mem'[i][t], disk'[t]) \/ Pledged(i, t)',
         phase' = phase
  PROVE  Kept(i, t)'
<1>1. t \in running'[i]
  BY DEF SlotsMatchRuns
<1>2. QED
  BY <1>1 DEF Kept, Informed, Cared

\* What the claim or the start of a manual run writes: runtime state.
LEMMA BeginWrites ==
  ASSUME TypeInv, NEW i \in Instances, NEW t \in Tasks,
         ClaimWins(i, t) \/ BeginManual(i, t)
  PROVE  \/ UNCHANGED <<disk, mem>>
         \/ \E d \in TaskRec : SetDisk(t, d) /\ SetMem(i, t, d) /\ Covers(disk[t], d)
<1>1. CASE ClaimWins(i, t)
  <2> DEFINE d == [disk[t] EXCEPT !.lastFor = run[i][t].sf,
                     !.next = run[i][t].next, !.status = "running"]
  <2>1. SetDisk(t, d) /\ SetMem(i, t, d) /\ disk[t] # NoTask
    BY <1>1 DEF ClaimWins
  <2>2. disk[t] \in TaskRec
    BY <2>1, RunParts
  <2>3. d \in TaskRec /\ d.sched = disk[t].sched /\ d.enabled = disk[t].enabled
    BY <2>2, RunParts DEF TaskRec, Statuses
  <2>4. QED
    BY <2>1, <2>2, <2>3, CoversState
<1>2. CASE BeginManual(i, t) /\ disk[t] # NoTask
  <2> DEFINE d == [disk[t] EXCEPT !.status = "running"]
  <2>1. SetDisk(t, d) /\ SetMem(i, t, d) /\ disk[t] # NoTask
    BY <1>2 DEF BeginManual
  <2>2. disk[t] \in TaskRec
    BY <2>1, RunParts
  <2>3. d \in TaskRec /\ d.sched = disk[t].sched /\ d.enabled = disk[t].enabled
    BY <2>2 DEF TaskRec, Statuses
  <2>4. QED
    BY <2>1, <2>2, <2>3, CoversState
<1>3. CASE BeginManual(i, t) /\ disk[t] = NoTask
  BY <1>3 DEF BeginManual
<1>4. QED
  BY <1>1, <1>2, <1>3

\* The claim is won, or a manual run starts.
LEMMA BodyBegins ==
  ASSUME TypeInv, TypeInv', SlotsMatchRuns, AllKept,
         NEW i \in Instances, NEW t \in Tasks,
         ClaimWins(i, t) \/ BeginManual(i, t)
  PROVE  AllKept'
<1> DEFINE r == [run[i][t] EXCEPT !.pc = "body", !.from = NoTime, !.next = NoTime]
<1>1. /\ UNCHANGED <<now, phase, timer, queue, handler, running>>
      /\ run[i][t].pc # "idle"
      /\ run' = [run EXCEPT ![i][t] = r]
  BY DEF ClaimWins, BeginManual, In, ToBody
<1>2. \/ UNCHANGED <<disk, mem>>
      \/ \E d \in TaskRec : SetDisk(t, d) /\ SetMem(i, t, d) /\ Covers(disk[t], d)
  BY BeginWrites
<1>3. run'[i][t].pc = "body"
  <2>1. run \in [Instances -> [Tasks -> RunRec]] /\ run[i][t] \in RunRec
    BY DEF TypeInv, TypeOK
  <2>2. r.pc = "body"
    BY <2>1 DEF RunRec
  <2> HIDE DEF r
  <2>3. QED
    BY <1>1, <2>1, <2>2
<1> HIDE DEF r
<1>4. Beside(i, t)
  <2>1. UNCHANGED disk \/ \E d : SetDisk(t, d) /\ Covers(disk[t], d)
    BY <1>2
  <2>2. QED
    BY <1>1, <1>2, <2>1, RunBeside
<1>5. phase[i] = "down" \/ Covers(mem'[i][t], disk'[t]) \/ Pledged(i, t)'
  <2>1. CASE UNCHANGED <<disk, mem>>
    BY <1>1, <2>1 DEF AllKept, Kept, Informed, Pledged
  <2>2. ASSUME NEW d, SetDisk(t, d), SetMem(i, t, d)
        PROVE  Covers(mem'[i][t], disk'[t])
    <3>1. mem'[i][t] = d /\ disk'[t] = d
      BY <2>2 DEF SetDisk, SetMem, TypeInv, TypeOK
    <3>2. QED
      BY <3>1, CoversItself
  <2>3. QED
    BY <1>2, <2>1, <2>2
<1>6. Kept(i, t)'
  BY <1>1, <1>3, <1>5, InSlot DEF Closing
<1>7. QED
  BY <1>4, <1>6, BesideKept

\* The claim is lost, or the task is gone: the timer is armed again, or a
\* listing is due that will drop the task.
LEMMA ClaimFails ==
  ASSUME TypeInv, TypeInv', Ordinary, AllKept, NEW i \in Instances, NEW t \in Tasks,
         ClaimLost(i, t) \/ TaskGone(i, t)
  PROVE  AllKept'
<1>1. UNCHANGED <<now, phase, disk, queue, handler>> /\ EndRun(i, t)
  BY DEF ClaimLost, TaskGone
<1>2. CASE ClaimLost(i, t)
  <2>1. /\ disk[t] \in TaskRec
        /\ SetMem(i, t, disk[t]) /\ SetTimer(i, t, Rearmed(i, t, disk[t], now))
    BY <1>2, RunParts DEF ClaimLost
  <2>2. Beside(i, t)
    BY <1>1, <2>1, RunBeside
  <2>3. mem'[i][t] = disk'[t] /\ timer'[i][t] = Rearmed(i, t, disk[t], now)
    BY <1>1, <2>1 DEF SetMem, SetTimer, TypeInv, TypeOK
  <2>4. Informed(i, t)'
    BY <2>3, CoversItself DEF Informed
  <2>5. Cared(i, t)'
    BY <1>1, <2>1, <2>3, RearmArms DEF Cared
  <2>6. QED
    BY <2>2, <2>4, <2>5, BesideKept DEF Kept
<1>3. CASE TaskGone(i, t)
  <2>1. UNCHANGED <<mem, timer>> /\ disk[t] = NoTask
    BY <1>3 DEF TaskGone
  <2>2. Beside(i, t)
    BY <1>1, <2>1, RunBeside
  <2>3. Informed(i, t)'
    BY <1>1, <2>1 DEF AllKept, Kept, Informed, Pledged
  <2>4. Cared(i, t)'
    BY <2>1, <2>3, <1>1 DEF Informed, Covers, Cared, Comes, SyncDue
  <2>5. QED
    BY <2>2, <2>3, <2>4, BesideKept DEF Kept
<1>4. QED
  BY <1>2, <1>3

\* The session is over: the run closes only if the task in memory has nothing
\* to come.
LEMMA BodyOutcome ==
  ASSUME TypeInv, NEW i \in Instances, NEW t \in Tasks, NEW ok \in BOOLEAN,
         BodyEnds(i, t, ok)
  PROVE  /\ \E r : run' = [run EXCEPT ![i][t] = r]
         /\ run'[i][t].pc \in {"consume", "complete"}
         /\ Closing(run'[i][t]) => ~Comes(mem[i][t], now)
<1> DEFINE latest  == Latest(i, t)
           consume == /\ Kind[latest.sched] = "once"
                      /\ ~run[i][t].manual
                      /\ latest.enabled
           r == [run[i][t] EXCEPT
                   !.pc = IF consume THEN "consume" ELSE "complete",
                   !.ok = ok, !.from = now, !.task = latest,
                   !.next = IF consume THEN NoTime ELSE NextRun(latest, now)]
<1>1. run' = [run EXCEPT ![i][t] = r]
  BY DEF BodyEnds
<1>2. run \in [Instances -> [Tasks -> RunRec]] /\ run[i][t] \in RunRec
  BY DEF TypeInv, TypeOK
<1>3. run'[i][t] = r
  BY <1>1, <1>2
<1>4. /\ r.pc = IF consume THEN "consume" ELSE "complete"
      /\ r.from = now
      /\ r.next = IF consume THEN NoTime ELSE NextRun(latest, now)
  <2> HIDE DEF latest, consume
  <2>1. QED
    BY <1>2 DEF RunRec
<1> HIDE DEF r, consume
<1>5. ASSUME Closing(r), Comes(mem[i][t], now)
      PROVE  FALSE
  <2>1. latest = mem[i][t] /\ mem[i][t] \in TaskRec /\ now \in Nat
    BY <1>5, Types DEF Comes, Latest, OptTask
  <2>2. NextRun(latest, now) > now
    BY <1>5, <2>1, NextRunType DEF Comes
  <2> HIDE DEF latest
  <2>3. QED
    BY <1>4, <1>5, <2>2 DEF Closing
<1> HIDE DEF latest
<1>6. QED
  BY <1>1, <1>3, <1>4, <1>5

LEMMA BodyOver ==
  ASSUME TypeInv, TypeInv', SlotsMatchRuns, AllKept,
         NEW i \in Instances, NEW t \in Tasks, NEW ok \in BOOLEAN,
         BodyEnds(i, t, ok)
  PROVE  AllKept'
<1>1. /\ UNCHANGED <<now, phase, disk, mem, timer, queue, handler, running>>
      /\ run[i][t].pc # "idle"
  BY DEF BodyEnds, In
<1>2. Beside(i, t)
  BY <1>1, BodyOutcome, RunBeside
<1>3. Informed(i, t)'
  BY <1>1 DEF AllKept, Kept, Informed, Pledged
<1>4. CASE ~Closing(run'[i][t])
  <2>1. Kept(i, t)'
    BY <1>1, <1>3, <1>4, InSlot DEF Informed
  <2>2. QED
    BY <1>2, <2>1, BesideKept
<1>5. CASE Closing(run'[i][t])
  <2>1. Kept(i, t)'
    BY <1>1, <1>3, <1>5, BodyOutcome DEF Kept, Cared
  <2>2. QED
    BY <1>2, <2>1, BesideKept
<1>6. QED
  BY <1>4, <1>5

\* A once task is consumed: it has no occurrence any more.
LEMMA ConsumeOutcome ==
  ASSUME TypeInv, Faultless, NEW i \in Instances, NEW t \in Tasks, Consume(i, t)
  PROVE  /\ \E d \in TaskRec : SetDisk(t, d) /\ SetMem(i, t, d) /\ Covers(disk[t], d)
         /\ \E r : run' = [run EXCEPT ![i][t] = r]
         /\ mem'[i][t] = disk'[t] /\ disk'[t] # NoTask
         /\ ~Comes(disk'[t], now')
<1> DEFINE d == [run[i][t].task EXCEPT !.enabled = FALSE]
           r == [run[i][t] EXCEPT !.pc = "complete", !.task = d]
<1>1. SetDisk(t, d) /\ SetMem(i, t, d) /\ run' = [run EXCEPT ![i][t] = r]
  <2>1. ~Happens("faults")
    BY DEF Faultless, Happens, TypeInv, TypeOK, Events
  <2>2. QED
    BY <2>1 DEF Consume
<1> HIDE DEF r
<1>2. d \in TaskRec /\ ~d.enabled /\ d # NoTask
  <2>1. run[i][t].task \in TaskRec
    BY RunParts DEF Consume, In
  <2>2. d \in TaskRec
    BY <2>1, TaskParts
  <2>3. d.enabled = FALSE
    BY <2>1 DEF TaskRec
  <2> HIDE DEF d
  <2>4. QED
    BY <2>2, <2>3, ScheduledTasksAssumption
<1> HIDE DEF d
<1>3. Covers(disk[t], d) /\ ~Comes(d, now')
  BY <1>2 DEF Covers, Comes, NextRun
<1>4. mem'[i][t] = d /\ disk'[t] = d
  BY <1>1 DEF SetMem, SetDisk, TypeInv, TypeOK
<1>5. QED
  BY <1>1, <1>2, <1>3, <1>4

LEMMA Consumed ==
  ASSUME TypeInv, TypeInv', Faultless, AllKept,
         NEW i \in Instances, NEW t \in Tasks, Consume(i, t)
  PROVE  AllKept'
<1>1. UNCHANGED <<now, phase, timer, queue, handler, running>>
  BY DEF Consume
<1>2. Beside(i, t)
  BY <1>1, ConsumeOutcome, RunBeside
<1>3. Kept(i, t)'
  BY ConsumeOutcome, CoversItself DEF Kept, Informed, Cared
<1>4. QED
  BY <1>2, <1>3, BesideKept

\* The completion write: a run that closes arms no timer, so somebody else
\* must care for the task as it is on disk.
LEMMA RunCompletes ==
  ASSUME TypeInv, TypeInv', Ordinary, AllKept,
         NEW i \in Instances, NEW t \in Tasks, Complete(i, t)
  PROVE  AllKept'
<1>1. UNCHANGED <<now, phase, queue, handler>> /\ EndRun(i, t)
  BY DEF Complete
<1>2. run[i][t].pc = "complete"
  BY DEF Complete, Ordinary
<1>3. CASE disk[t] = NoTask
  <2>1. UNCHANGED <<disk, mem, timer>>
    BY <1>3 DEF Complete
  <2>2. Beside(i, t)
    BY <1>1, <2>1, RunBeside
  <2>3. Informed(i, t)'
    BY <1>1, <2>1 DEF AllKept, Kept, Informed, Pledged
  <2>4. Cared(i, t)'
    BY <1>1, <1>3, <2>1, <2>3 DEF Informed, Covers, Cared, Comes, SyncDue
  <2>5. QED
    BY <2>2, <2>3, <2>4, BesideKept DEF Kept
<1>4. CASE disk[t] # NoTask
  <2> DEFINE d == Completed(i, t, disk[t])
             at == IF d.enabled THEN ArmedIfFuture(i, t, d.next, run[i][t].from)
                   ELSE timer[i][t]
  <2>1. SetDisk(t, d) /\ SetMem(i, t, d) /\ SetTimer(i, t, at)
    BY <1>4 DEF Complete
  <2>2. /\ disk[t] \in TaskRec /\ d \in TaskRec
        /\ d.sched = disk[t].sched /\ d.enabled = disk[t].enabled
        /\ d.next = run[i][t].next
    <3>1. disk[t] \in TaskRec /\ run[i][t].next \in OptTime
      BY <1>4, RunParts
    <3>2. d \in TaskRec
      BY <3>1, CompletedType
    <3>3. QED
      BY <3>1, <3>2 DEF Completed, TaskRec
  <2> HIDE DEF d
  <2>3. Covers(disk[t], d)
    BY <2>2, CoversState
  <2>4. mem'[i][t] = d /\ disk'[t] = d /\ timer'[i][t] = at
    BY <2>1 DEF SetMem, SetDisk, SetTimer, TypeInv, TypeOK
  <2>5. Beside(i, t)
    <3> HIDE DEF at
    <3>1. QED
      BY <1>1, <2>1, <2>3, RunBeside
  <2>6. Informed(i, t)'
    BY <2>4, CoversItself DEF Informed
  <2>7. Cared(i, t)'
    <3> SUFFICES ASSUME phase[i] = "started", Comes(d, now)
                 PROVE  timer'[i][t] # NoTime \/ SyncDue(i, t)'
      BY <1>1, <2>4 DEF Cared
    <3>1. d.enabled
      BY <2>2, Types, ComesUpcoming
    <3>2. CASE d.next > run[i][t].from
      <4>1. d.next # NoTime
        <5>1. run[i][t].from \in OptTime
          BY RunParts DEF RunRec
        <5>2. QED
          BY <3>2, <5>1 DEF OptTime, NoTime
      <4>2. QED
        BY <2>4, <3>1, <3>2, <4>1 DEF ArmedIfFuture, Armed
    <3>3. CASE ~(d.next > run[i][t].from)
      <4>1. Closing(run[i][t]) /\ timer'[i][t] = timer[i][t]
        BY <1>2, <2>2, <2>4, <3>3 DEF Closing, ArmedIfFuture
      <4>2. CASE Pledged(i, t)
        BY <1>1, <4>2 DEF SyncDue, Pledged
      <4>3. CASE ~Pledged(i, t)
        <5>1. Covers(mem[i][t], d)
          BY <2>3, <4>3, CoversOn DEF AllKept, Kept, Informed
        <5>2. Comes(mem[i][t], now)
          BY <2>2, <5>1, Types, ComesCovered DEF OptTask
        <5>3. timer[i][t] # NoTime \/ SyncDue(i, t)
          BY <4>1, <5>2 DEF AllKept, Kept, Cared
        <5>4. QED
          BY <1>1, <2>4, <4>1, <5>1, <5>3, SyncCarries
      <4>4. QED
        BY <4>2, <4>3
    <3>4. QED
      BY <3>2, <3>3
  <2>8. QED
    BY <2>5, <2>6, <2>7, BesideKept DEF Kept
<1>5. QED
  BY <1>3, <1>4

LEMMA RunKept ==
  ASSUME TypeInv, TypeInv', Faultless, Ordinary, SlotsMatchRuns, AllKept,
         NEW i \in Instances, NEW t \in Tasks, RunStep(i, t)
  PROVE  AllKept'
<1>1. ~RecordClaimFailure(i, t)
  BY DEF Ordinary, RecordClaimFailure, In
<1>2. QED
  BY <1>1, BodyBegins, ClaimFails, BodyOver, Consumed, RunCompletes DEF RunStep
-----------------------------------------------------------------------------
(* The steps of a request.                                                 *)

\* A step of a request that leaves memory, timers, runs and queues alone.
OnlyRequests == UNCHANGED <<now, mem, timer, queue, running, run>>

\* A process that is going to list the project of a task cares for it.
LEMMA PledgedKept ==
  ASSUME NEW i \in Instances, NEW t \in Tasks, Pledged(i, t)'
  PROVE  Kept(i, t)'
  BY DEF Kept, Informed, Cared, SyncDue

LEMMA SyncingPledges ==
  ASSUME TypeInv, NEW i \in Instances, NEW h \in Handlers, NEW ps \in SUBSET Projects,
         SetHandler(i, h, Syncing(ps)), NEW t \in Tasks, ProjectOf[t] \in ps
  PROVE  Pledged(i, t)'
<1>1. handler'[i][h] = Syncing(ps)
  BY DEF SetHandler, TypeInv, TypeOK
<1>2. Syncing(ps).pc = "reconcile" /\ Syncing(ps).projs = ps
  BY DEF Syncing, NoHandler
<1>3. QED
  BY <1>1, <1>2 DEF Pledged, WillList

LEMMA OthersKept ==
  ASSUME TypeInv, TypeInv', AllKept, OnlyRequests,
         NEW i \in Instances, NEW h \in Handlers, NEW hd, SetHandler(i, h, hd),
         handler[i][h].pc \notin {"reconcile", "patch"},
         NEW j \in Instances, NEW t \in Tasks,
         phase'[j] = phase[j], Covers(disk[t], disk'[t])
  PROVE  Kept(j, t)'
<1>1. /\ now' = now /\ mem' = mem /\ timer' = timer
      /\ queue' = queue /\ running' = running /\ run' = run
  BY DEF OnlyRequests
<1>2. /\ Pledged(j, t) => Pledged(j, t)'
      /\ SyncDue(j, t) => SyncDue(j, t)'
  BY <1>1, RequestGrows
<1>3. (Entry(j, t) => Entry(j, t)') /\ now <= now' /\ Kept(j, t)
  BY <1>1, Types DEF Entry, AllKept
<1>4. QED
  BY <1>1, <1>2, <1>3, Undisturbed

\* A server process starts: it lists every project.
LEMMA StartKept ==
  ASSUME TypeInv, TypeInv', AllKept, NEW i \in Instances, NEW h \in Handlers, Start(i, h)
  PROVE  AllKept'
<1>1. /\ OnlyRequests /\ disk' = disk
      /\ SetHandler(i, h, Syncing(Projects))
      /\ phase' = [phase EXCEPT ![i] = "started"]
  BY DEF Start, OnlyRequests
<1>2. ASSUME NEW t \in Tasks
      PROVE  Kept(i, t)'
  <2>1. Projects \in SUBSET Projects /\ ProjectOf[t] \in Projects
    BY Types
  <2>2. Pledged(i, t)'
    BY <1>1, <2>1, SyncingPledges
  <2>3. QED
    BY <2>2, PledgedKept
<1>3. ASSUME NEW j \in Instances, NEW t \in Tasks, j # i
      PROVE  Kept(j, t)'
  <2>1. /\ now' = now /\ mem' = mem /\ timer' = timer
        /\ queue' = queue /\ running' = running /\ run' = run
    BY <1>1 DEF OnlyRequests
  <2>2. phase'[j] = phase[j] /\ handler'[j] = handler[j]
    BY <1>1, <1>3 DEF SetHandler, TypeInv, TypeOK
  <2>3. Pledged(j, t) => Pledged(j, t)'
    BY <2>2 DEF Pledged
  <2>4. SyncDue(j, t) => SyncDue(j, t)'
    BY <2>1, <2>2, <2>3 DEF SyncDue
  <2>5. /\ Entry(j, t) => Entry(j, t)'
        /\ now <= now' /\ Kept(j, t) /\ Covers(disk[t], disk'[t])
    BY <1>1, <2>1, Types, CoversItself DEF Entry, AllKept
  <2>6. QED
    BY <2>1, <2>2, <2>3, <2>4, <2>5, Undisturbed
<1>4. QED
  BY <1>2, <1>3 DEF AllKept

\* An edit is on disk: the request that made it lists the project next, and it
\* is the only process that must hear of it.
LEMMA EditKept ==
  ASSUME TypeInv, TypeInv', Ordinary, OneEditor, AllKept,
         NEW i \in Instances, NEW h \in Handlers,
         Saved(i, h) \/ EditSaved(i, h) \/ Removed(i, h)
  PROVE  AllKept'
<1> DEFINE u == handler[i][h].target
<1>1. /\ OnlyRequests /\ phase' = phase
      /\ handler[i][h].pc \in {"save", "edit", "remove"}
      /\ \/ SetHandler(i, h, Syncing({ProjectOf[u]})) /\ \E d : SetDisk(u, d)
         \/ SetHandler(i, h, NoHandler) /\ SetDisk(u, disk[u])
  BY DEF OnlyRequests, Saved, EditSaved, Removed, At
<1>2. u \in Tasks
  BY <1>1, HandlerParts DEF Ready
<1>3. \A j \in Instances : j = i
  BY <1>1 DEF Ordinary, OneEditor
<1> HIDE DEF u
<1>4. ASSUME NEW t \in Tasks,
             \/ ProjectOf[t] # ProjectOf[u]
             \/ SetDisk(u, disk[u])
      PROVE  Kept(i, t)'
  <2>1. disk'[t] = disk[t]
    BY <1>1, <1>2, <1>4 DEF SetDisk, TypeInv, TypeOK
  <2>2. Covers(disk[t], disk'[t])
    BY <2>1, CoversItself
  <2>3. QED
    BY <1>1, <2>2, OthersKept
<1>5. ASSUME NEW t \in Tasks, ProjectOf[t] = ProjectOf[u],
             SetHandler(i, h, Syncing({ProjectOf[u]}))
      PROVE  Kept(i, t)'
  <2>1. {ProjectOf[u]} \in SUBSET Projects /\ ProjectOf[t] \in {ProjectOf[u]}
    BY <1>2, <1>5, Types
  <2>2. Pledged(i, t)'
    BY <1>5, <2>1, SyncingPledges
  <2>3. QED
    BY <2>2, PledgedKept
<1>6. QED
  BY <1>1, <1>3, <1>4, <1>5 DEF AllKept

LEMMA RequestKept ==
  ASSUME TypeInv, TypeInv', AllKept, NEW i \in Instances, NEW h \in Handlers,
         Request(i, h)
  PROVE  AllKept'
<1>1. CASE ~Start(i, h)
  <2>1. /\ OnlyRequests /\ phase' = phase /\ disk' = disk
        /\ handler[i][h].pc \notin {"reconcile", "patch"}
        /\ \E hd : SetHandler(i, h, hd)
    BY <1>1 DEF Request, List, EditListed, Delete, Save, OnlyRequests, Free
  <2>2. ASSUME NEW j \in Instances, NEW t \in Tasks
        PROVE  Kept(j, t)'
    BY <2>1, OthersKept, CoversItself
  <2>3. QED
    BY <2>2 DEF AllKept
<1>2. QED
  BY <1>1, StartKept

\* A listing goes on: it still lists the projects it has not reached, and
\* syncs every task it has listed.
LEMMA ListingGoesOn ==
  ASSUME TypeInv, NEW i \in Instances, NEW h \in Handlers, NEW hd \in HandlerRec,
         NEW todo \in SUBSET Tasks, GoOnSyncing(i, h, hd, todo),
         \A t \in todo : hd.snap[t] # NoTask
  PROVE  /\ \A j \in Instances, g \in Handlers : j # i \/ g # h =>
              handler'[j][g] = handler[j][g]
         /\ \A t \in Tasks : ProjectOf[t] \in hd.projs => WillList(handler'[i][h], t)
         /\ \A t \in todo, x \in OptTask :
              Covers(hd.snap[t], x) /\ Comes(x, now) => WillSync(handler'[i][h], t, x)
<1>1. handler \in [Instances -> [Handlers -> HandlerRec]] /\ now \in Nat
  BY DEF TypeInv, TypeOK
<1>2. \E new : SetHandler(i, h, new)
  BY DEF GoOnSyncing
<1>3. \A j \in Instances, g \in Handlers : j # i \/ g # h =>
        handler'[j][g] = handler[j][g]
  BY <1>1, <1>2 DEF SetHandler
<1>4. ASSUME NEW u \in todo,
             SetHandler(i, h, [hd EXCEPT !.pc = "patch", !.cur = u,
                                 !.todo = todo \ {u},
                                 !.next = NextRun(hd.snap[u], now)])
      PROVE  /\ \A t \in Tasks : ProjectOf[t] \in hd.projs => WillList(handler'[i][h], t)
             /\ \A t \in todo, x \in OptTask :
                  Covers(hd.snap[t], x) /\ Comes(x, now) => WillSync(handler'[i][h], t, x)
  <2> DEFINE new == handler'[i][h]
  <2>1. /\ new.pc = "patch" /\ new.cur = u /\ new.todo = todo \ {u}
        /\ new.next = NextRun(hd.snap[u], now)
        /\ new.projs = hd.projs /\ new.snap = hd.snap
    BY <1>1, <1>4 DEF SetHandler, HandlerRec
  <2> HIDE DEF new
  <2>2. \A t \in Tasks : ProjectOf[t] \in hd.projs => WillList(new, t)
    BY <2>1 DEF WillList
  <2>3. ASSUME NEW t \in todo, NEW x \in OptTask, Covers(hd.snap[t], x), Comes(x, now)
        PROVE  WillSync(new, t, x)
    <3>1. CASE t # u
      BY <2>1, <2>3, <3>1 DEF WillSync
    <3>2. CASE t = u
      <4>1. hd.snap[t] \in OptTask
        BY DEF HandlerRec
      <4>2. Comes(hd.snap[t], now)
        BY <1>1, <2>3, <4>1, ComesCovered
      <4>3. QED
        BY <2>1, <3>2, <4>2 DEF WillSync, Comes
    <3>3. QED
      BY <3>1, <3>2
  <2>4. QED
    BY <2>2, <2>3 DEF new
<1>5. CASE todo = {} /\ hd.projs # {} /\ SetHandler(i, h, Syncing(hd.projs))
  <2>1. handler'[i][h] = Syncing(hd.projs)
    BY <1>1, <1>5 DEF SetHandler
  <2>2. Syncing(hd.projs).pc = "reconcile" /\ Syncing(hd.projs).projs = hd.projs
    BY DEF Syncing, NoHandler
  <2>3. QED
    BY <1>3, <1>5, <2>1, <2>2 DEF WillList
<1>6. CASE todo = {} /\ hd.projs = {}
  BY <1>3, <1>6
<1>7. \/ \E u \in todo :
           SetHandler(i, h, [hd EXCEPT !.pc = "patch", !.cur = u,
                               !.todo = todo \ {u},
                               !.next = NextRun(hd.snap[u], now)])
      \/ todo = {} /\ hd.projs # {} /\ SetHandler(i, h, Syncing(hd.projs))
      \/ todo = {} /\ hd.projs = {}
  BY DEF GoOnSyncing
<1>8. QED
  BY <1>3, <1>4, <1>5, <1>6, <1>7

\* A project is listed: its tasks are in memory as on disk, without timers,
\* and each is synced next.
LEMMA ReconcileKept ==
  ASSUME TypeInv, TypeInv', AllKept, NEW i \in Instances, NEW h \in Handlers,
         Reconcile(i, h)
  PROVE  AllKept'
<1>1. PICK p \in handler[i][h].projs :
        LET known == {t \in TasksOf(p) : mem[i][t] # NoTask}
            hd == [handler[i][h] EXCEPT
                     !.projs = @ \ {p},
                     !.snap = [t \in Tasks |-> IF t \in TasksOf(p)
                                               THEN disk[t] ELSE NoTask],
                     !.payload = IF handler[i][h].target \in TasksOf(p)
                                 THEN disk[handler[i][h].target] ELSE NoTask]
        IN  /\ timer' = [timer EXCEPT ![i] =
                           [t \in Tasks |-> IF t \in known THEN NoTime ELSE @[t]]]
            /\ mem' = [mem EXCEPT ![i] =
                         [t \in Tasks |-> IF t \in TasksOf(p) THEN disk[t]
                                          ELSE @[t]]]
            /\ GoOnSyncing(i, h, hd, {t \in TasksOf(p) : disk[t] # NoTask})
  BY DEF Reconcile
<1>2. /\ now' = now /\ disk' = disk /\ phase' = phase /\ queue' = queue
      /\ running' = running /\ run' = run
      /\ handler[i][h].pc = "reconcile"
  BY DEF Reconcile, At
<1> DEFINE old == handler[i][h]
           snap == [t \in Tasks |-> IF t \in TasksOf(p) THEN disk[t] ELSE NoTask]
           payload == IF old.target \in TasksOf(p) THEN disk[old.target] ELSE NoTask
           hd == [old EXCEPT !.projs = @ \ {p}, !.snap = snap, !.payload = payload]
           todo == {t \in TasksOf(p) : disk[t] # NoTask}
<1>3. /\ old \in HandlerRec /\ disk \in [Tasks -> OptTask]
      /\ timer \in [Instances -> [Tasks -> OptTime]]
      /\ mem \in [Instances -> [Tasks -> OptTask]]
      /\ TasksOf(p) \subseteq Tasks
  BY DEF TypeInv, TypeOK, TasksOf
<1>4. GoOnSyncing(i, h, hd, todo)
  BY <1>1
<1>5. /\ hd \in HandlerRec /\ todo \in SUBSET Tasks
      /\ \A t \in todo : hd.snap[t] = disk[t] /\ disk[t] # NoTask
      /\ hd.projs = old.projs \ {p}
  <2>1. snap \in [Tasks -> OptTask] /\ payload \in OptTask
    BY <1>3 DEF OptTask
  <2>2. \A t \in todo : snap[t] = disk[t]
    BY <1>3
  <2> HIDE DEF snap, payload
  <2>3. QED
    BY <1>3, <2>1, <2>2 DEF HandlerRec
<1>6. /\ \A t \in TasksOf(p) : mem'[i][t] = disk[t]
      /\ \A t \in Tasks \ TasksOf(p) : mem'[i][t] = mem[i][t] /\ timer'[i][t] = timer[i][t]
      /\ \A j \in Instances \ {i} : mem'[j] = mem[j] /\ timer'[j] = timer[j]
  BY <1>1, <1>3
<1> HIDE DEF old, hd, todo
<1>7. /\ \A j \in Instances, g \in Handlers : j # i \/ g # h =>
           handler'[j][g] = handler[j][g]
      /\ \A t \in Tasks : ProjectOf[t] \in hd.projs => WillList(handler'[i][h], t)
      /\ \A t \in todo, x \in OptTask :
           Covers(hd.snap[t], x) /\ Comes(x, now) => WillSync(handler'[i][h], t, x)
  BY <1>4, <1>5, ListingGoesOn
<1>8. ASSUME NEW t \in TasksOf(p)
      PROVE  Kept(i, t)'
  <2>1. t \in Tasks /\ mem'[i][t] = disk[t] /\ disk[t] \in OptTask
    BY <1>3, <1>6
  <2>2. Informed(i, t)'
    BY <1>2, <2>1, CoversItself DEF Informed
  <2>3. ASSUME Comes(mem'[i][t], now')
        PROVE  SyncDue(i, t)'
    <3>1. t \in todo
      BY <2>1, <2>3 DEF todo, Comes
    <3>2. Covers(hd.snap[t], mem'[i][t])
      BY <1>5, <2>1, <3>1, CoversItself
    <3>3. WillSync(handler'[i][h], t, mem'[i][t])
      BY <1>2, <1>7, <2>1, <2>3, <3>1, <3>2
    <3>4. QED
      BY <3>3 DEF SyncDue
  <2>4. QED
    BY <2>2, <2>3 DEF Kept, Cared
<1>9. ASSUME NEW j \in Instances, NEW t \in Tasks, j # i \/ t \notin TasksOf(p)
      PROVE  Kept(j, t)'
  <2>1. mem'[j][t] = mem[j][t] /\ timer'[j][t] = timer[j][t]
    BY <1>6, <1>9
  <2>2. ASSUME NEW g \in Handlers, WillList(handler[j][g], t)
        PROVE  WillList(handler'[j][g], t)
    <3>1. CASE j # i \/ g # h
      BY <1>7, <2>2, <3>1
    <3>2. CASE j = i /\ g = h
      <4>1. ProjectOf[t] \in old.projs /\ ProjectOf[t] # p
        BY <1>9, <2>2, <3>2 DEF WillList, TasksOf, old
      <4>2. QED
        BY <1>5, <1>7, <3>2, <4>1
    <3>3. QED
      BY <3>1, <3>2
  <2>3. Pledged(j, t) => Pledged(j, t)'
    BY <2>2 DEF Pledged
  <2>4. ASSUME NEW g \in Handlers, WillSync(handler[j][g], t, mem[j][t])
        PROVE  WillSync(handler'[j][g], t, mem'[j][t])
    <3>1. j # i \/ g # h
      BY <1>2, <2>4 DEF WillSync
    <3>2. QED
      BY <1>7, <2>1, <2>4, <3>1
  <2>5. SyncDue(j, t) => SyncDue(j, t)'
    BY <2>3, <2>4 DEF SyncDue
  <2>6. /\ Entry(j, t) => Entry(j, t)'
        /\ now <= now' /\ Kept(j, t) /\ Covers(disk[t], disk'[t])
    BY <1>2, Types, CoversItself DEF Entry, AllKept
  <2>7. QED
    BY <1>2, <2>1, <2>3, <2>5, <2>6, Undisturbed
<1>10. QED
  BY <1>8, <1>9 DEF AllKept

\* A task is synced: a time to come arms the timer; without one, whatever
\* cared for the task before still does.
LEMMA PatchKept ==
  ASSUME TypeInv, TypeInv', AllKept, NEW i \in Instances, NEW h \in Handlers,
         PatchNext(i, h)
  PROVE  AllKept'
<1> DEFINE hd == handler[i][h]
<1>0. PICK c \in Tasks : c = hd.cur
  BY HandlerParts DEF Ready, PatchNext, At
<1> DEFINE d == [disk[c] EXCEPT !.next = hd.next]
<1>1. /\ hd.pc = "patch"
      /\ now' = now /\ phase' = phase /\ queue' = queue
      /\ running' = running /\ run' = run
      /\ GoOnSyncing(i, h, hd, hd.todo)
      /\ disk[c] # NoTask =>
           /\ SetDisk(c, d) /\ SetMem(i, c, d)
           /\ IF d.enabled /\ hd.next # NoTime THEN SetTimer(i, c, Armed(i, hd.next))
              ELSE timer' = timer
      /\ disk[c] = NoTask => disk' = disk /\ mem' = mem /\ timer' = timer
  BY <1>0 DEF PatchNext, At
<1>2. /\ hd \in HandlerRec /\ hd.todo \in SUBSET Tasks
      /\ \A t \in hd.todo : hd.snap[t] # NoTask
      /\ hd.next \in OptTime
  BY <1>1, HandlerParts DEF Ready, HandlerRec
<1>3. /\ disk \in [Tasks -> OptTask]
      /\ timer \in [Instances -> [Tasks -> OptTime]]
      /\ mem \in [Instances -> [Tasks -> OptTask]]
  BY DEF TypeInv, TypeOK
<1> HIDE DEF hd
<1>4. disk[c] # NoTask =>
        /\ disk[c] \in TaskRec /\ d \in TaskRec
        /\ d.sched = disk[c].sched /\ d.enabled = disk[c].enabled
  BY <1>2, <1>3 DEF TaskRec, OptTask
<1> HIDE DEF d
<1>5. /\ \A j \in Instances, g \in Handlers : j # i \/ g # h =>
           handler'[j][g] = handler[j][g]
      /\ \A t \in Tasks : ProjectOf[t] \in hd.projs => WillList(handler'[i][h], t)
      /\ \A t \in hd.todo, x \in OptTask :
           Covers(hd.snap[t], x) /\ Comes(x, now) => WillSync(handler'[i][h], t, x)
  BY <1>1, <1>2, ListingGoesOn
<1>6. ASSUME NEW j \in Instances, NEW t \in Tasks
      PROVE  Pledged(j, t) => Pledged(j, t)'
  <2>1. ASSUME NEW g \in Handlers, WillList(handler[j][g], t)
        PROVE  WillList(handler'[j][g], t)
    BY <1>5, <2>1 DEF WillList, hd
  <2>2. QED
    BY <2>1 DEF Pledged
<1>7. ASSUME NEW t \in Tasks
      PROVE  Covers(disk[t], disk'[t])
  BY <1>1, <1>2, <1>3, <1>4, CoversItself, CoversState DEF SetDisk
<1>8. ASSUME NEW j \in Instances, NEW t \in Tasks,
             Comes(mem'[j][t], now), Covers(mem[j][t], mem'[j][t]),
             NEW g \in Handlers, WillSync(handler[j][g], t, mem[j][t]),
             j # i \/ g # h \/ t # c \/ hd.next = NoTime
      PROVE  WillSync(handler'[j][g], t, mem'[j][t])
  <2>1. CASE j # i \/ g # h
    BY <1>5, <1>8, <2>1, CoversOn DEF WillSync
  <2>2. CASE j = i /\ g = h
    <3>1. t \in hd.todo /\ Covers(hd.snap[t], mem[j][t])
      BY <1>0, <1>8, <2>2 DEF WillSync, hd
    <3>2. Covers(hd.snap[t], mem'[j][t]) /\ mem'[j][t] \in OptTask
      BY <1>8, <3>1, CoversOn DEF TypeInv, TypeOK
    <3>3. QED
      BY <1>5, <1>8, <2>2, <3>1, <3>2
  <2>3. QED
    BY <2>1, <2>2
<1>9. ASSUME NEW j \in Instances, NEW t \in Tasks,
             j # i \/ t # c \/ disk[c] = NoTask
      PROVE  Informed(j, t)' /\ (j # i \/ t # c => Kept(j, t)')
  <2>1. mem'[j][t] = mem[j][t] /\ timer'[j][t] = timer[j][t]
    BY <1>1, <1>3, <1>9 DEF SetMem, SetTimer
  <2>2. Informed(j, t)'
    BY <1>1, <1>6, <1>7, <2>1, CoversOn DEF AllKept, Kept, Informed
  <2>3. ASSUME j # i \/ t # c
        PROVE  Kept(j, t)'
    <3>1. SyncDue(j, t) /\ Comes(mem[j][t], now) => SyncDue(j, t)'
      BY <1>6, <1>8, <2>1, <2>3, CoversItself DEF SyncDue
    <3>2. /\ Entry(j, t) => Entry(j, t)'
          /\ now <= now' /\ Kept(j, t)
      BY <1>1, Types DEF Entry, AllKept
    <3>3. QED
      BY <1>1, <1>6, <1>7, <2>1, <3>1, <3>2, Undisturbed
  <2>4. QED
    BY <2>2, <2>3
<1>10. CASE disk[c] = NoTask
  <2>1. Informed(i, c) /\ Informed(i, c)' /\ mem'[i][c] = mem[i][c]
    BY <1>1, <1>2, <1>9, <1>10 DEF AllKept, Kept
  <2>2. Cared(i, c)'
    BY <1>1, <1>2, <1>6, <1>10, <2>1 DEF Informed, Cared, Covers, Comes, SyncDue
  <2>3. QED
    BY <1>9, <2>1, <2>2 DEF Kept, AllKept
<1>11. CASE disk[c] # NoTask
  <2>1. mem'[i][c] = d /\ disk'[c] = d
    BY <1>1, <1>2, <1>3, <1>11 DEF SetMem, SetDisk
  <2>2. Informed(i, c)'
    BY <2>1, CoversItself DEF Informed
  <2>3. ASSUME phase[i] = "started", Comes(d, now)
        PROVE  \/ timer'[i][c] # NoTime \/ SyncDue(i, c)'
               \/ ~Closing(run'[i][c]) /\ (c \in running'[i] \/ Entry(i, c)')
    <3>1. d.enabled
      BY <1>4, <1>11, <2>3, Types, ComesUpcoming
    <3>2. CASE hd.next # NoTime
      BY <1>1, <1>2, <1>3, <1>11, <2>3, <3>1, <3>2 DEF SetTimer, Armed
    <3>3. CASE Pledged(i, c)
      BY <1>2, <1>6, <3>3 DEF SyncDue
    <3>4. CASE hd.next = NoTime /\ ~Pledged(i, c)
      <4>1. timer' = timer
        BY <1>1, <1>11, <3>4
      <4>2. Covers(mem[i][c], mem'[i][c])
        BY <1>2, <1>7, <2>1, <2>3, <3>4, CoversOn DEF AllKept, Kept, Informed
      <4>3. Comes(mem[i][c], now)
        BY <1>2, <1>4, <1>11, <2>1, <2>3, <4>2, Types, ComesCovered DEF OptTask
      <4>4. SyncDue(i, c) => SyncDue(i, c)'
        BY <1>2, <1>8, <2>1, <2>3, <3>4, <4>2 DEF SyncDue
      <4>5. Entry(i, c) => Entry(i, c)'
        BY <1>1 DEF Entry
      <4>6. QED
        BY <1>1, <1>2, <2>3, <4>1, <4>3, <4>4, <4>5 DEF AllKept, Kept, Cared
    <3>5. QED
      BY <3>2, <3>3, <3>4
  <2>4. Cared(i, c)'
    BY <1>1, <2>1, <2>3 DEF Cared
  <2>5. QED
    BY <1>9, <2>2, <2>4 DEF Kept, AllKept
<1>12. QED
  BY <1>10, <1>11
-----------------------------------------------------------------------------
(* The clock, the timers, the queue, and the end of a process.             *)

\* A step that leaves the requests and what is held of the tasks alone.
LEMMA HeldAlike ==
  ASSUME TypeInv, TypeInv', AllKept, NEW i \in Instances, NEW t \in Tasks,
         UNCHANGED <<disk, mem, handler>>, phase'[i] = phase[i], now <= now',
         timer'[i][t] = timer[i][t], run'[i][t] = run[i][t],
         t \in running[i] => t \in running'[i],
         Entry(i, t) => Entry(i, t)'
  PROVE  Kept(i, t)'
<1>1. Pledged(i, t) => Pledged(i, t)'
  BY DEF Pledged
<1>2. SyncDue(i, t) => SyncDue(i, t)'
  BY <1>1 DEF SyncDue
<1>3. Kept(i, t) /\ mem'[i][t] = mem[i][t] /\ Covers(disk[t], disk'[t])
  BY CoversItself DEF AllKept
<1>4. QED
  BY <1>1, <1>2, <1>3, Undisturbed

LEMMA TickKept ==
  ASSUME TypeInv, TypeInv', AllKept, Tick
  PROVE  AllKept'
<1>1. /\ UNCHANGED <<disk, mem, handler>> /\ phase' = phase /\ timer' = timer
      /\ run' = run /\ running' = running /\ queue' = queue /\ now' = now + 1
  BY DEF Tick
<1>2. now <= now' /\ \A i \in Instances, t \in Tasks : Entry(i, t) => Entry(i, t)'
  BY <1>1 DEF Entry, TypeInv, TypeOK
<1>3. QED
  BY <1>1, <1>2, HeldAlike DEF AllKept

\* A timer that fires is handed on to the queue or to the run in progress; one
\* that fires while a run closes relies on the sync to come.
LEMMA TimerKept ==
  ASSUME TypeInv, TypeInv', SlotsMatchRuns, QueuedKeysHaveEntries, RecordedInTime,
         AllKept, NEW i \in Instances, NEW t \in Tasks, TimerFires(i, t)
  PROVE  AllKept'
<1> DEFINE e == [task |-> t, sf |-> timer[i][t]]
<1>1. /\ UNCHANGED <<disk, mem, handler>> /\ phase' = phase
      /\ run' = run /\ running' = running /\ now' = now
      /\ timer' = [timer EXCEPT ![i][t] = NoTime]
      /\ timer[i][t] # NoTime /\ timer[i][t] <= now
      /\ \/ queue' = queue
         \/ queue' = [queue EXCEPT ![i] = Append(@, e)]
      /\ (mem[i][t] # NoTask /\ mem[i][t].enabled) =>
           \/ t \in queuedKeys[i] \cup running[i] /\ queue' = queue
           \/ queue' = [queue EXCEPT ![i] = Append(@, e)]
  <2>1. timer[i][t] # NoTime /\ timer[i][t] <= now
    BY Types DEF TimerFires, OptTime, NoTime
  <2>2. QED
    BY <2>1 DEF TimerFires, SetTimer
<1>2. e \in [task : Tasks, sf : Nat] /\ e.task = t
  BY <1>1 DEF TypeInv, TypeOK, OptTime
<1> HIDE DEF e
<1>3. /\ queue \in [Instances -> Seq([task : Tasks, sf : Nat])]
      /\ timer \in [Instances -> [Tasks -> OptTime]]
  BY DEF TypeInv, TypeOK
<1>4. queue' = [queue EXCEPT ![i] = Append(@, e)] =>
        /\ \A u \in Tasks : Entry(i, u) => Entry(i, u)'
        /\ Entry(i, t)'
  <2> DEFINE q == queue[i]
             S == [task : Tasks, sf : Nat]
  <2>1. q \in Seq(S) /\ e \in S
    BY <1>2, <1>3
  <2> HIDE DEF q, S
  <2>2. /\ DOMAIN q = 1 .. Len(q) /\ Len(q) \in Nat
        /\ DOMAIN Append(q, e) = 1 .. Len(q) + 1
        /\ Append(q, e)[Len(q) + 1] = e
        /\ \A k \in 1 .. Len(q) : Append(q, e)[k] = q[k]
    BY <2>1, AppendProperties
  <2>3. ASSUME queue' = [queue EXCEPT ![i] = Append(@, e)]
        PROVE  queue'[i] = Append(q, e)
    BY <1>3, <2>3 DEF q
  <2>4. Len(q) + 1 \in DOMAIN Append(q, e) /\ DOMAIN q \subseteq DOMAIN Append(q, e)
    BY <2>2
  <2>5. QED
    BY <1>2, <2>2, <2>3, <2>4 DEF Entry, q
<1>5. ASSUME NEW j \in Instances, NEW u \in Tasks
      PROVE  Entry(j, u) => Entry(j, u)'
  BY <1>1, <1>3, <1>4 DEF Entry
<1>6. ASSUME NEW j \in Instances, NEW u \in Tasks, j # i \/ u # t
      PROVE  Kept(j, u)'
  <2>1. timer'[j][u] = timer[j][u] /\ now <= now'
    BY <1>1, <1>3, <1>6, Types
  <2>2. QED
    BY <1>1, <1>5, <2>1, HeldAlike
<1>7. Informed(i, t)'
  BY <1>1 DEF AllKept, Kept, Informed, Pledged
<1>8. Cared(i, t)'
  <2> SUFFICES ASSUME Comes(mem[i][t], now)
               PROVE  \/ SyncDue(i, t)'
                      \/ ~Closing(run[i][t]) /\ (t \in running[i] \/ Entry(i, t)')
    BY <1>1 DEF Cared
  <2>1. CASE Closing(run[i][t])
    <3>1. SyncDue(i, t)
      BY <1>1, <2>1 DEF RecordedInTime
    <3>2. QED
      BY <1>1, <3>1, CoversItself, SyncCarries
  <2>2. CASE ~Closing(run[i][t])
    <3>1. mem[i][t] # NoTask /\ mem[i][t].enabled
      BY Types, ComesUpcoming DEF Comes, OptTask
    <3>2. t \in queuedKeys[i] => Entry(i, t)
      BY DEF QueuedKeysHaveEntries, Entry
    <3>3. QED
      BY <1>1, <1>4, <1>5, <2>2, <3>1, <3>2
  <2>3. QED
    BY <2>1, <2>2
<1>9. QED
  BY <1>6, <1>7, <1>8 DEF Kept, AllKept

\* A run takes its slot: it cares for its task from here on.
LEMMA SlotKept ==
  ASSUME TypeInv, AllKept, NEW i \in Instances, NEW t \in Tasks,
         NEW manual \in BOOLEAN, NEW sf, TakeSlot(i, t, manual, sf),
         UNCHANGED <<disk, mem, phase, handler>>
  PROVE  /\ Kept(i, t)'
         /\ \A j \in Instances, u \in Tasks : j # i \/ u # t =>
              run'[j][u] = run[j][u] /\ (u \in running[j] => u \in running'[j])
<1>1. /\ run \in [Instances -> [Tasks -> RunRec]]
      /\ running \in [Instances -> SUBSET Tasks]
  BY DEF TypeInv, TypeOK
<1> DEFINE r == [pc |-> IF manual THEN "begin" ELSE "claim", manual |-> manual,
                 sf |-> sf, from |-> now,
                 next |-> IF manual THEN NoTime ELSE NextRun(mem[i][t], now),
                 task |-> mem[i][t], ok |-> FALSE]
<1>2. r.pc # "complete"
  OBVIOUS
<1>3. run' = [run EXCEPT ![i][t] = r] /\ running' = [running EXCEPT ![i] = @ \cup {t}]
  BY DEF TakeSlot
<1> HIDE DEF r
<1>4. run'[i][t] = r /\ t \in running'[i]
  BY <1>1, <1>3
<1>5. Informed(i, t)'
  BY DEF AllKept, Kept, Informed, Pledged
<1>6. Cared(i, t)'
  BY <1>2, <1>4 DEF Cared, Closing
<1>7. QED
  BY <1>1, <1>3, <1>5, <1>6 DEF Kept

LEMMA PumpKept ==
  ASSUME TypeInv, TypeInv', AllKept, NEW i \in Instances, PumpStarts(i)
  PROVE  AllKept'
<1> DEFINE k == Min(Startable(i))
<1>1. k \in DOMAIN queue[i] /\ queue[i][k] \in [task : Tasks, sf : Nat]
  BY StartableEntry DEF PumpStarts, TypeInv
<1>2. PICK u \in Tasks : u = queue[i][k].task
  BY <1>1
<1>3. /\ UNCHANGED <<now, disk, mem, timer, handler>> /\ phase' = phase
      /\ queue' = [queue EXCEPT ![i] = RemoveAt(@, k)]
      /\ IF Admitted(i, u) THEN TakeSlot(i, u, FALSE, queue[i][k].sf)
         ELSE UNCHANGED <<running, run>>
  BY <1>2 DEF PumpStarts
<1> HIDE DEF k
<1>4. queue \in [Instances -> Seq([task : Tasks, sf : Nat])]
  BY DEF TypeInv, TypeOK
<1>5. ASSUME NEW j \in Instances, NEW t \in Tasks, j # i \/ t # u
      PROVE  Kept(j, t)'
  <2>1. Entry(j, t) => Entry(j, t)'
    <3>1. CASE j # i
      BY <1>3, <1>4, <3>1 DEF Entry
    <3>2. CASE j = i
      <4>1. queue'[i] = RemoveAt(queue[i], k) /\ queue[i] \in Seq([task : Tasks, sf : Nat])
        BY <1>3, <1>4
      <4>2. ASSUME \E m \in DOMAIN queue[i] : queue[i][m].task = t
            PROVE  \E m \in DOMAIN RemoveAt(queue[i], k) :
                     RemoveAt(queue[i], k)[m].task = t
        BY <1>1, <1>2, <1>5, <3>2, <4>1, <4>2, EntriesStay
      <4>3. QED
        BY <3>2, <4>1, <4>2 DEF Entry
    <3>3. QED
      BY <3>1, <3>2
  <2>2. run'[j][t] = run[j][t] /\ (t \in running[j] => t \in running'[j])
    BY <1>3, <1>5, SlotKept
  <2>3. now <= now'
    BY <1>3, Types
  <2>4. QED
    BY <1>3, <2>1, <2>2, <2>3, HeldAlike
<1>6. Kept(i, u)'
  <2>1. CASE Admitted(i, u)
    BY <1>3, <2>1, SlotKept
  <2>2. CASE ~Admitted(i, u)
    <3>1. Informed(i, u)'
      BY <1>3 DEF AllKept, Kept, Informed, Pledged
    <3>2. ASSUME Comes(mem[i][u], now)
          PROVE  u \in running[i]
      <4>1. mem[i][u] # NoTask /\ mem[i][u].enabled
        BY <3>2, Types, ComesUpcoming DEF Comes, OptTask
      <4>2. QED
        BY <2>2, <4>1 DEF Admitted
    <3>3. SyncDue(i, u) => SyncDue(i, u)'
      BY <1>3, CoversItself, SyncCarries
    <3>4. Cared(i, u)'
      BY <1>3, <2>2, <3>2, <3>3 DEF AllKept, Kept, Cared
    <3>5. QED
      BY <3>1, <3>4 DEF Kept
  <2>3. QED
    BY <2>1, <2>2
<1>7. QED
  BY <1>5, <1>6 DEF AllKept

LEMMA RunNowKept ==
  ASSUME TypeInv, TypeInv', AllKept, NEW i \in Instances, NEW t \in Tasks, RunNow(i, t)
  PROVE  AllKept'
<1>1. /\ UNCHANGED <<now, disk, mem, timer, queue, handler>> /\ phase' = phase
      /\ TakeSlot(i, t, TRUE, NoTime)
  BY DEF RunNow
<1>2. ASSUME NEW j \in Instances, NEW u \in Tasks, j # i \/ u # t
      PROVE  Kept(j, u)'
  <2>1. run'[j][u] = run[j][u] /\ (u \in running[j] => u \in running'[j])
    BY <1>1, <1>2, SlotKept
  <2>2. now <= now' /\ (Entry(j, u) => Entry(j, u)')
    BY <1>1, Types DEF Entry
  <2>3. QED
    BY <1>1, <2>1, <2>2, HeldAlike
<1>3. Kept(i, t)'
  BY <1>1, SlotKept
<1>4. QED
  BY <1>2, <1>3 DEF AllKept

\* A process that has stopped cares for nothing, one that is down holds
\* nothing; the others do not notice.
LEMMA EndKept ==
  ASSUME TypeInv, TypeInv', AllKept, NEW i \in Instances, Stop(i) \/ Crash(i)
  PROVE  AllKept'
<1>1. /\ disk \in [Tasks -> OptTask]
      /\ phase \in [Instances -> {"down", "started", "stopped"}]
      /\ mem \in [Instances -> [Tasks -> OptTask]]
      /\ timer \in [Instances -> [Tasks -> OptTime]]
      /\ queue \in [Instances -> Seq([task : Tasks, sf : Nat])]
      /\ running \in [Instances -> SUBSET Tasks]
      /\ run \in [Instances -> [Tasks -> RunRec]]
      /\ handler \in [Instances -> [Handlers -> HandlerRec]]
  BY DEF TypeInv, TypeOK
<1>2. ASSUME NEW j \in Instances, NEW t \in Tasks, j # i
      PROVE  Kept(j, t)'
  <2>1. /\ now' = now /\ disk' = disk /\ mem'[j] = mem[j] /\ timer'[j] = timer[j]
        /\ queue'[j] = queue[j] /\ phase'[j] = phase[j] /\ handler'[j] = handler[j]
        /\ running'[j] = running[j] /\ run'[j] = run[j]
    BY <1>1, <1>2 DEF Stop, Crash
  <2>2. Pledged(j, t) => Pledged(j, t)'
    BY <2>1 DEF Pledged
  <2>3. SyncDue(j, t) => SyncDue(j, t)'
    BY <2>1, <2>2 DEF SyncDue
  <2>4. /\ Entry(j, t) => Entry(j, t)'
        /\ now <= now' /\ Kept(j, t) /\ Covers(disk[t], disk'[t])
    BY <2>1, Types, CoversItself DEF Entry, AllKept
  <2>5. QED
    BY <2>1, <2>2, <2>3, <2>4, Undisturbed
<1>3. ASSUME NEW t \in Tasks
      PROVE  Kept(i, t)'
  <2>1. CASE Stop(i)
    <3>1. UNCHANGED <<disk, mem, handler>> /\ phase[i] = "started" /\ phase'[i] = "stopped"
      BY <1>1, <2>1 DEF Stop
    <3>2. Informed(i, t)'
      BY <3>1 DEF AllKept, Kept, Informed, Pledged
    <3>3. QED
      BY <3>1, <3>2 DEF Kept, Cared
  <2>2. CASE Crash(i)
    <3>1. phase'[i] = "down"
      BY <1>1, <2>2 DEF Crash
    <3>2. QED
      BY <3>1 DEF Kept, Informed, Cared
  <2>3. QED
    BY <2>1, <2>2
<1>4. QED
  BY <1>2, <1>3 DEF AllKept
-----------------------------------------------------------------------------
(* Together.                                                               *)

LEMMA NoFaultStep ==
  ASSUME TypeInv, Faultless, NEW i \in Instances
  PROVE  /\ \A t \in Tasks : ~RunFault(i, t)
         /\ \A h \in Handlers : ~HandlerErrs(i, h)
         /\ ~Happens("faults")
<1>1. ~Happens("faults")
  BY DEF Faultless, Happens, TypeInv, TypeOK, Events
<1>2. QED
  BY <1>1 DEF RunFault, ClaimErrs, BeginManualErrs, CompleteErrs, RetryErrs, HandlerErrs

LEMMA KeptStep ==
  ASSUME TypeInv, TypeInv', SlotsMatchRuns, QueuedKeysHaveEntries, RecordedInTime,
         Faultless, OneEditor, Ordinary, AllKept, [Next]_vars
  PROVE  AllKept'
<1>1. ASSUME UNCHANGED <<disk, mem, handler, now, phase, timer, run, running, queue>>
      PROVE  AllKept'
  <2>1. now <= now' /\ \A i \in Instances, t \in Tasks : Entry(i, t) => Entry(i, t)'
    BY <1>1 DEF Entry, TypeInv, TypeOK
  <2>2. QED
    BY <1>1, <2>1, HeldAlike DEF AllKept
<1>2. CASE UNCHANGED vars
  BY <1>1, <1>2 DEF vars
<1>3. ASSUME NEW i \in Instances, NEW t \in Tasks,
             TimerFires(i, t) \/ RunNow(i, t) \/ RunStep(i, t) \/ RunFault(i, t)
      PROVE  AllKept'
  BY <1>3, TimerKept, RunNowKept, RunKept, NoFaultStep
<1>4. ASSUME NEW i \in Instances, NEW h \in Handlers,
             HandlerStep(i, h) \/ HandlerErrs(i, h) \/ Request(i, h)
      PROVE  AllKept'
  BY <1>4, ReconcileKept, PatchKept, EditKept, RequestKept, NoFaultStep DEF HandlerStep
<1>5. ASSUME NEW i \in Instances, Pump(i) \/ Stop(i) \/ Crash(i)
      PROVE  AllKept'
  <2>1. CASE PumpEnds(i)
    BY <1>1, <2>1 DEF PumpEnds
  <2>2. QED
    BY <1>5, <2>1, PumpKept, EndKept DEF Pump
<1>6. QED
  BY <1>2, <1>3, <1>4, <1>5, TickKept DEF Next

\* What a step may do to a run.
LEMMA RunChange ==
  ASSUME TypeInv, Faultless, Ordinary, [Next]_vars, NEW j \in Instances, NEW u \in Tasks
  PROVE  \/ run'[j][u] = run[j][u]
         \/ run'[j][u] = NoRun
         \/ run[j][u].pc # "idle" /\ run'[j][u].pc = "body"
         \/ mem[j][u] # NoTask /\ mem' = mem /\ run'[j][u].pc \in {"claim", "begin"}
         \/ \E ok \in BOOLEAN : BodyEnds(j, u, ok)
         \/ Consume(j, u)
<1> DEFINE Goal == \/ run'[j][u] = run[j][u]
                   \/ run'[j][u] = NoRun
                   \/ run[j][u].pc # "idle" /\ run'[j][u].pc = "body"
                   \/ mem[j][u] # NoTask /\ mem' = mem /\ run'[j][u].pc \in {"claim", "begin"}
                   \/ \E ok \in BOOLEAN : BodyEnds(j, u, ok)
                   \/ Consume(j, u)
<1>1. run \in [Instances -> [Tasks -> RunRec]]
  BY DEF TypeInv, TypeOK
<1>2. ASSUME run' = run
      PROVE  Goal
  BY <1>2
<1>3. ASSUME NEW i \in Instances, NEW t \in Tasks, EndRun(i, t)
      PROVE  Goal
  BY <1>1, <1>3 DEF EndRun
<1>4. ASSUME NEW i \in Instances, NEW t \in Tasks, ToBody(i, t), run[i][t].pc # "idle"
      PROVE  Goal
  BY <1>1, <1>4 DEF ToBody, RunRec
<1>5. ASSUME NEW i \in Instances, NEW t \in Tasks, NEW manual \in BOOLEAN, NEW sf,
             TakeSlot(i, t, manual, sf), Admitted(i, t), mem' = mem
      PROVE  Goal
  <2> DEFINE r == [pc |-> IF manual THEN "begin" ELSE "claim", manual |-> manual,
                   sf |-> sf, from |-> now,
                   next |-> IF manual THEN NoTime ELSE NextRun(mem[i][t], now),
                   task |-> mem[i][t], ok |-> FALSE]
  <2>1. r.pc \in {"claim", "begin"} /\ run' = [run EXCEPT ![i][t] = r]
    BY <1>5 DEF TakeSlot
  <2> HIDE DEF r
  <2>2. QED
    BY <1>1, <1>5, <2>1 DEF Admitted
<1>6. ASSUME NEW i \in Instances, NEW t \in Tasks,
             \/ \E r : run' = [run EXCEPT ![i][t] = r],
             (\E ok \in BOOLEAN : BodyEnds(i, t, ok)) \/ Consume(i, t)
      PROVE  Goal
  BY <1>1, <1>6
<1> HIDE DEF Goal
<1>7. ASSUME NEW i \in Instances, NEW t \in Tasks, RunStep(i, t)
      PROVE  Goal
  <2>1. CASE ClaimWins(i, t) \/ BeginManual(i, t)
    BY <1>4, <2>1 DEF ClaimWins, BeginManual, In
  <2>2. CASE ClaimLost(i, t) \/ TaskGone(i, t) \/ RecordClaimFailure(i, t) \/ Complete(i, t)
    BY <1>3, <2>2 DEF ClaimLost, TaskGone, RecordClaimFailure, Complete
  <2>3. CASE \E ok \in BOOLEAN : BodyEnds(i, t, ok)
    BY <1>6, <2>3, BodyOutcome
  <2>4. CASE Consume(i, t)
    <3>1. \E r : run' = [run EXCEPT ![i][t] = r]
      BY <2>4 DEF Consume
    <3>2. QED
      BY <1>6, <2>4, <3>1
  <2>5. QED
    BY <1>7, <2>1, <2>2, <2>3, <2>4 DEF RunStep
<1>8. ASSUME NEW i \in Instances, Crash(i)
      PROVE  Goal
  BY <1>1, <1>8 DEF Crash, Goal
<1>9. ASSUME NEW i \in Instances, PumpStarts(i)
      PROVE  Goal
  <2> DEFINE k == Min(Startable(i))
             t == queue[i][k].task
  <2>1. t \in Tasks
    BY <1>9, StartableEntry DEF PumpStarts, TypeInv
  <2>2. /\ mem' = mem
        /\ IF Admitted(i, t) THEN TakeSlot(i, t, FALSE, queue[i][k].sf)
           ELSE UNCHANGED <<running, run>>
    BY <1>9 DEF PumpStarts
  <2> HIDE DEF k, t
  <2>3. QED
    BY <1>2, <1>5, <2>1, <2>2
<1>10. ASSUME NEW i \in Instances, NEW t \in Tasks, RunNow(i, t)
       PROVE  Goal
  BY <1>5, <1>10 DEF RunNow
<1>11. ASSUME NEW i \in Instances, NEW t \in Tasks, TimerFires(i, t)
       PROVE  Goal
  BY <1>2, <1>11 DEF TimerFires
<1>12. ASSUME NEW i \in Instances, NEW h \in Handlers, HandlerStep(i, h) \/ Request(i, h)
       PROVE  Goal
  BY <1>2, <1>12 DEF HandlerStep, Request, Reconcile, PatchNext,
     Saved, EditSaved, Removed, Start, List, EditListed, Delete, Save
<1>13. ASSUME Tick \/ UNCHANGED vars \/ \E i \in Instances : PumpEnds(i) \/ Stop(i)
       PROVE  Goal
  BY <1>2, <1>13 DEF Tick, vars, PumpEnds, Stop
<1>14. Goal
  BY <1>7, <1>8, <1>9, <1>10, <1>11, <1>12, <1>13, NoFaultStep DEF Next, Pump
<1>15. QED
  BY <1>14 DEF Goal

\* Without faults a run does not get to the error paths, and without edits a
\* request does nothing but list.
LEMMA OrdinaryStep ==
  ASSUME TypeInv, Faultless, Ordinary, [Next]_vars
  PROVE  Ordinary'
<1>1. /\ run \in [Instances -> [Tasks -> RunRec]]
      /\ handler \in [Instances -> [Handlers -> HandlerRec]]
  BY DEF TypeInv, TypeOK
<1>2. ASSUME NEW j \in Instances, NEW u \in Tasks
      PROVE  run'[j][u].pc \notin {"claimfailed", "retry"}
  <2>1. CASE Consume(j, u)
    <3>1. run'[j][u].pc = "complete"
      <4>1. run[j][u] \in RunRec /\ ~Happens("faults")
        BY <1>1, NoFaultStep
      <4>2. run' = [run EXCEPT ![j][u] = [run[j][u] EXCEPT !.pc = "complete",
                      !.task = [run[j][u].task EXCEPT !.enabled = FALSE]]]
        BY <2>1, <4>1 DEF Consume
      <4>3. QED
        BY <1>1, <4>1, <4>2 DEF RunRec
    <3>2. QED
      BY <3>1
  <2>2. QED
    BY <2>1, RunChange, BodyOutcome DEF Ordinary, NoRun
<1>3. ASSUME NoEdits, NEW j \in Instances, NEW g \in Handlers
      PROVE  /\ handler'[j][g].pc \notin {"save", "edit", "remove"}
             /\ handler'[j][g].target = NoTask
  <2> DEFINE Lists(hd) == hd.pc \notin {"save", "edit", "remove"} /\ hd.target = NoTask
  <2>1. ~Happens("edits") /\ ~Happens("listedEdits") /\ ~Happens("deletes")
    BY <1>3 DEF NoEdits, Happens, TypeInv, TypeOK, Events
  <2>2. Lists(NoHandler) /\ \A ps : Lists(Syncing(ps))
    BY DEF NoHandler, Syncing
  <2>3. \A i \in Instances, h \in Handlers :
          Lists(handler[i][h]) /\ handler[i][h].payload = NoTask
    BY <1>3, HandlerParts DEF Ordinary, Ready, NoEdits
  <2>4. ASSUME NEW i \in Instances, NEW h \in Handlers, NEW hd, SetHandler(i, h, hd),
               Lists(hd)
        PROVE  Lists(handler'[j][g])
    BY <1>1, <2>3, <2>4 DEF SetHandler
  <2>5. ASSUME handler' = handler
        PROVE  Lists(handler'[j][g])
    BY <2>3, <2>5
  <2> HIDE DEF Lists
  <2>6. ASSUME NEW i \in Instances, NEW h \in Handlers, NEW hd \in HandlerRec, NEW todo,
               hd.target = NoTask, hd.payload = NoTask, GoOnSyncing(i, h, hd, todo)
        PROVE  Lists(handler'[j][g])
    <3>1. ASSUME NEW t \in todo,
                 SetHandler(i, h, [hd EXCEPT !.pc = "patch", !.cur = t,
                                     !.todo = todo \ {t},
                                     !.next = NextRun(hd.snap[t], now)])
          PROVE  Lists(handler'[j][g])
      <4> DEFINE new == [hd EXCEPT !.pc = "patch", !.cur = t, !.todo = todo \ {t},
                                   !.next = NextRun(hd.snap[t], now)]
      <4>1. Lists(new)
        BY <2>6 DEF Lists, HandlerRec
      <4> HIDE DEF new
      <4>2. QED
        BY <2>4, <3>1, <4>1 DEF new
    <3>2. CASE SetHandler(i, h, Syncing(hd.projs)) \/ SetHandler(i, h, NoHandler)
      BY <2>2, <2>4, <3>2
    <3>3. QED
      BY <2>6, <3>1, <3>2 DEF GoOnSyncing
  <2>7. ASSUME NEW i \in Instances, NEW h \in Handlers, HandlerStep(i, h)
        PROVE  Lists(handler'[j][g])
    <3>1. handler[i][h] \in HandlerRec
      BY <1>1
    <3>2. CASE PatchNext(i, h)
      BY <2>3, <2>6, <3>1, <3>2 DEF PatchNext, Lists
    <3>3. CASE Reconcile(i, h)
      <4>1. PICK p \in handler[i][h].projs :
              LET known == {t \in TasksOf(p) : mem[i][t] # NoTask}
                  hd == [handler[i][h] EXCEPT
                           !.projs = @ \ {p},
                           !.snap = [t \in Tasks |-> IF t \in TasksOf(p)
                                                     THEN disk[t] ELSE NoTask],
                           !.payload = IF handler[i][h].target \in TasksOf(p)
                                       THEN disk[handler[i][h].target] ELSE NoTask]
              IN  GoOnSyncing(i, h, hd, {t \in TasksOf(p) : disk[t] # NoTask})
        BY <3>3 DEF Reconcile
      <4> DEFINE snap == [t \in Tasks |-> IF t \in TasksOf(p) THEN disk[t] ELSE NoTask]
                 payload == IF handler[i][h].target \in TasksOf(p)
                            THEN disk[handler[i][h].target] ELSE NoTask
                 hd == [handler[i][h] EXCEPT !.projs = @ \ {p}, !.snap = snap,
                                             !.payload = payload]
                 todo == {t \in TasksOf(p) : disk[t] # NoTask}
      <4>2. GoOnSyncing(i, h, hd, todo)
        BY <4>1
      <4>3. payload = NoTask
        BY <1>3, <2>3 DEF NoEdits, TasksOf, Lists
      <4>4. snap \in [Tasks -> OptTask]
        BY DEF OptTask, TypeInv, TypeOK
      <4> HIDE DEF snap, payload, todo
      <4>5. hd \in HandlerRec /\ hd.target = NoTask /\ hd.payload = NoTask
        BY <2>3, <3>1, <4>3, <4>4 DEF HandlerRec, OptTask, Lists
      <4> HIDE DEF hd
      <4>6. QED
        BY <2>6, <4>2, <4>5
    <3>4. CASE Saved(i, h) \/ EditSaved(i, h) \/ Removed(i, h)
      BY <2>3, <3>4 DEF Saved, EditSaved, Removed, At, Lists
    <3>5. QED
      BY <2>7, <3>2, <3>3, <3>4 DEF HandlerStep
  <2>8. ASSUME NEW i \in Instances, NEW h \in Handlers, Request(i, h)
        PROVE  Lists(handler'[j][g])
    BY <2>1, <2>2, <2>4, <2>8 DEF Request, Start, List, EditListed, Delete, Save
  <2>9. ASSUME NEW i \in Instances, Crash(i)
        PROVE  Lists(handler'[j][g])
    <3>1. handler'[j][g] \in {handler[j][g], NoHandler}
      BY <1>1, <2>9 DEF Crash
    <3>2. QED
      BY <2>2, <2>3, <3>1
  <2>10. ASSUME NEW i \in Instances, Pump(i) \/ Stop(i)
         PROVE  handler' = handler
    BY <2>10 DEF Pump, PumpStarts, PumpEnds, Stop
  <2>11. ASSUME NEW i \in Instances, NEW t \in Tasks,
                TimerFires(i, t) \/ RunNow(i, t) \/ RunStep(i, t)
         PROVE  handler' = handler
    BY <2>11 DEF TimerFires, RunNow, RunStep, ClaimWins, ClaimLost, TaskGone,
       RecordClaimFailure, BeginManual, BodyEnds, Consume, Complete
  <2>12. ASSUME Tick \/ UNCHANGED vars
         PROVE  handler' = handler
    BY <2>12 DEF Tick, vars
  <2>13. Lists(handler'[j][g])
    BY <2>5, <2>7, <2>8, <2>9, <2>10, <2>11, <2>12, NoFaultStep DEF Next
  <2>14. QED
    BY <2>13 DEF Lists
<1>10. QED
  BY <1>2, <1>3 DEF Ordinary

Attention == TypeInv /\ Ordinary /\ AllKept

LEMMA AttentionInit == Init => Attention
<1>1. Init => Ordinary
  BY DEF Init, Ordinary, NoRun, NoHandler
<1>2. Init => AllKept
  BY DEF Init, AllKept, Kept, Informed, Cared
<1>3. QED
  BY <1>1, <1>2, TypeInvInit DEF Attention

LEMMA AttentionStep ==
  ASSUME Faultless, OneEditor
  PROVE  /\ Attention /\ SlotsMatchRuns /\ QueuedKeysHaveEntries /\ RecordedInTime
         /\ [Next]_vars
         => Attention'
  BY TypeInvStep, OrdinaryStep, KeptStep DEF Attention

LEMMA AttentionEnough == Attention => NoTaskForgotten
<1> SUFFICES ASSUME Attention, NEW i \in Instances, NEW t \in Tasks,
                    phase[i] = "started", mem[i][t] # NoTask,
                    NextRun(mem[i][t], now) # NoTime
             PROVE  Attended(i, t)
  BY DEF NoTaskForgotten
<1>1. \/ timer[i][t] # NoTime \/ SyncDue(i, t)
      \/ t \in running[i] \/ Entry(i, t)
  BY DEF Attention, AllKept, Kept, Cared, Comes
<1>2. SyncDue(i, t) => \E h \in Handlers : handler[i][h].pc # "idle"
  BY DEF SyncDue, Pledged, WillList, WillSync
<1>3. QED
  BY <1>1, <1>2 DEF Attended, Entry

(***************************************************************************)
(* No task is forgotten: whatever order timers, runs, listings, manual     *)
(* runs, edits, stops and crashes come in, a started process that holds an *)
(* enabled task with an occurrence to come has a timer for it, a queue     *)
(* entry, a run or a request in progress.                                  *)
(***************************************************************************)
THEOREM NothingForgotten ==
  ASSUME Faultless, OneEditor
  PROVE  Spec /\ []RecordedInTime => []NoTaskForgotten
<1>1. Init => Attention
  BY AttentionInit
<1>2. /\ Attention /\ SlotsMatchRuns /\ QueuedKeysHaveEntries /\ RecordedInTime
      /\ [Next]_vars
      => Attention'
  BY AttentionStep
<1>3. Attention => NoTaskForgotten
  BY AttentionEnough
<1>4. Spec => []SlotsMatchRuns /\ []QueuedKeysHaveEntries
  BY SlotsCorrect, KeysCorrect, PTL
<1>5. QED
  BY <1>1, <1>2, <1>3, <1>4, PTL DEF Spec
-----------------------------------------------------------------------------
(* Without edits nothing comes due while a run closes: the task it closes  *)
(* for has no occurrence to come, and nobody can give it one.              *)

\* What a step writes of a task: its runtime state, or that it is disabled;
\* and memory follows the disk.
LEMMA Writes ==
  ASSUME TypeInv, Faultless, NoEdits, Ordinary, [Next]_vars,
         NEW j \in Instances, NEW u \in Tasks
  PROVE  /\ Covers(disk[u], disk'[u])
         /\ \/ mem'[j][u] \in {mem[j][u], disk'[u]}
            \/ mem'[j][u] = NoTask /\ run'[j][u].pc = "idle"
<1> DEFINE Goal == /\ Covers(disk[u], disk'[u])
                   /\ \/ mem'[j][u] \in {mem[j][u], disk'[u]}
                      \/ mem'[j][u] = NoTask /\ run'[j][u].pc = "idle"
<1>1. /\ disk \in [Tasks -> OptTask]
      /\ mem \in [Instances -> [Tasks -> OptTask]]
      /\ run \in [Instances -> [Tasks -> RunRec]]
  BY DEF TypeInv, TypeOK
<1>2. ASSUME UNCHANGED <<disk, mem>>
      PROVE  Goal
  BY <1>2, CoversItself
<1>3. ASSUME NEW i \in Instances, NEW t \in Tasks, NEW d,
             SetDisk(t, d), SetMem(i, t, d), Covers(disk[t], d)
      PROVE  Goal
  <2>1. disk'[u] = IF u = t THEN d ELSE disk[u]
    BY <1>1, <1>3 DEF SetDisk
  <2>2. mem'[j][u] = IF j = i /\ u = t THEN d ELSE mem[j][u]
    BY <1>1, <1>3 DEF SetMem
  <2>3. QED
    BY <1>3, <2>1, <2>2, CoversItself
<1>4. ASSUME NEW i \in Instances, NEW t \in Tasks, RunStep(i, t)
      PROVE  Goal
  <2>1. CASE ClaimWins(i, t) \/ BeginManual(i, t)
    BY <1>2, <1>3, <2>1, BeginWrites
  <2>2. CASE ClaimLost(i, t)
    <3>1. disk' = disk /\ SetMem(i, t, disk[t])
      BY <2>2 DEF ClaimLost
    <3>2. mem'[j][u] = IF j = i /\ u = t THEN disk[t] ELSE mem[j][u]
      BY <1>1, <3>1 DEF SetMem
    <3>3. QED
      BY <3>1, <3>2, CoversItself
  <2>3. CASE TaskGone(i, t) \/ \E ok \in BOOLEAN : BodyEnds(i, t, ok)
    BY <1>2, <2>3 DEF TaskGone, BodyEnds
  <2>4. CASE Consume(i, t)
    BY <1>3, <2>4, ConsumeOutcome
  <2>5. CASE Complete(i, t)
    <3>1. CASE disk[t] = NoTask
      BY <1>2, <2>5, <3>1 DEF Complete
    <3>2. CASE disk[t] # NoTask
      <4> DEFINE d == Completed(i, t, disk[t])
      <4>1. SetDisk(t, d) /\ SetMem(i, t, d)
        BY <2>5, <3>2 DEF Complete
      <4>2. disk[t] \in TaskRec /\ d \in TaskRec
        BY <3>2, RunParts, CompletedType
      <4>3. d.sched = disk[t].sched /\ d.enabled = disk[t].enabled
        BY <4>2 DEF Completed, TaskRec
      <4> HIDE DEF d
      <4>4. QED
        BY <1>3, <4>1, <4>2, <4>3, CoversState
    <3>3. QED
      BY <3>1, <3>2
  <2>6. ~RecordClaimFailure(i, t)
    BY DEF Ordinary, RecordClaimFailure, In
  <2>7. QED
    BY <1>4, <2>1, <2>2, <2>3, <2>4, <2>5, <2>6 DEF RunStep
<1>5. ASSUME NEW i \in Instances, NEW h \in Handlers, Reconcile(i, h)
      PROVE  Goal
  <2>1. PICK p : mem' = [mem EXCEPT ![i] = [t \in Tasks |->
                           IF t \in TasksOf(p) THEN disk[t] ELSE @[t]]]
    BY <1>5 DEF Reconcile
  <2>2. disk' = disk
    BY <1>5 DEF Reconcile
  <2>3. mem'[j][u] \in {mem[j][u], disk[u]}
    BY <1>1, <2>1
  <2>4. QED
    BY <2>2, <2>3, CoversItself
<1>6. ASSUME NEW i \in Instances, NEW h \in Handlers, PatchNext(i, h)
      PROVE  Goal
  <2>1. PICK c \in Tasks : c = handler[i][h].cur
    BY <1>6, HandlerParts DEF Ready, PatchNext, At
  <2> DEFINE d == [disk[c] EXCEPT !.next = handler[i][h].next]
  <2>2. \/ UNCHANGED <<disk, mem>>
        \/ disk[c] # NoTask /\ SetDisk(c, d) /\ SetMem(i, c, d)
    BY <1>6, <2>1 DEF PatchNext
  <2>3. ASSUME disk[c] # NoTask
        PROVE  Covers(disk[c], d)
    <3>1. disk[c] \in TaskRec /\ handler[i][h].next \in OptTime
      BY <1>1, <2>3, HandlerParts DEF OptTask
    <3>2. d \in TaskRec /\ d.sched = disk[c].sched /\ d.enabled = disk[c].enabled
      BY <3>1 DEF TaskRec
    <3> HIDE DEF d
    <3>3. QED
      BY <3>1, <3>2, CoversState
  <2> HIDE DEF d
  <2>4. QED
    BY <1>2, <1>3, <2>2, <2>3
<1>7. ASSUME NEW i \in Instances, NEW h \in Handlers,
             Saved(i, h) \/ EditSaved(i, h) \/ Removed(i, h)
      PROVE  FALSE
  BY <1>7 DEF Ordinary, Saved, EditSaved, Removed, At
<1>8. ASSUME NEW i \in Instances, NEW h \in Handlers, Request(i, h)
      PROVE  UNCHANGED <<disk, mem>>
  BY <1>8 DEF Request, Start, List, EditListed, Delete, Save
<1>9. ASSUME NEW i \in Instances, Crash(i)
      PROVE  Goal
  BY <1>1, <1>9, CoversItself DEF Crash, NoRun
<1>10. ASSUME NEW i \in Instances, Pump(i) \/ Stop(i)
       PROVE  UNCHANGED <<disk, mem>>
  BY <1>10 DEF Pump, PumpStarts, PumpEnds, Stop
<1>11. ASSUME NEW i \in Instances, NEW t \in Tasks, TimerFires(i, t) \/ RunNow(i, t)
       PROVE  UNCHANGED <<disk, mem>>
  BY <1>11 DEF TimerFires, RunNow
<1>12. ASSUME Tick \/ UNCHANGED vars
       PROVE  UNCHANGED <<disk, mem>>
  BY <1>12 DEF Tick, vars
<1> HIDE DEF Goal
<1>13. Goal
  BY <1>2, <1>4, <1>5, <1>6, <1>7, <1>8, <1>9, <1>10, <1>11, <1>12, NoFaultStep
  DEF Next, HandlerStep
<1>14. QED
  BY <1>13 DEF Goal

\* Memory knows what is on disk, a run in progress has its task in memory, and
\* a run that closes has a task without anything to come.
Settled(i, t) ==
  /\ mem[i][t] # NoTask => Covers(mem[i][t], disk[t])
  /\ run[i][t].pc # "idle" => mem[i][t] # NoTask
  /\ Closing(run[i][t]) => ~Comes(mem[i][t], now) /\ ~Comes(disk[t], now)

LEMMA SettledStep ==
  ASSUME TypeInv, TypeInv', Faultless, NoEdits, Ordinary, [Next]_vars,
         NEW i \in Instances, NEW t \in Tasks, Settled(i, t)
  PROVE  Settled(i, t)'
<1>1. /\ Covers(disk[t], disk'[t])
      /\ \/ mem'[i][t] \in {mem[i][t], disk'[t]}
         \/ mem'[i][t] = NoTask /\ run'[i][t].pc = "idle"
  BY Writes
<1>2. /\ mem[i][t] \in OptTask /\ disk[t] \in OptTask /\ disk'[t] \in OptTask
      /\ now \in Int /\ now' \in Int
  BY Types DEF TypeInv, TypeOK
<1>3. now <= now'
  <2>1. ASSUME NEW j \in Instances, NEW u \in Tasks,
               TimerFires(j, u) \/ RunNow(j, u) \/ RunStep(j, u) \/ RunFault(j, u)
        PROVE  now' = now
    BY <2>1 DEF TimerFires, RunNow, RunStep, RunFault, ClaimWins, ClaimLost,
       TaskGone, RecordClaimFailure, BeginManual, BodyEnds, Consume, Complete,
       ClaimErrs, BeginManualErrs, CompleteErrs, RetryErrs
  <2>2. ASSUME NEW j \in Instances, NEW h \in Handlers,
               HandlerStep(j, h) \/ HandlerErrs(j, h) \/ Request(j, h)
        PROVE  now' = now
    BY <2>2 DEF HandlerStep, HandlerErrs, Request, Reconcile, PatchNext, Saved,
       EditSaved, Removed, Start, List, EditListed, Delete, Save
  <2>3. ASSUME NEW j \in Instances, Pump(j) \/ Stop(j) \/ Crash(j)
        PROVE  now' = now
    BY <2>3 DEF Pump, PumpStarts, PumpEnds, Stop, Crash
  <2>4. now' = now + 1 \/ now' = now
    BY <2>1, <2>2, <2>3 DEF Next, Tick, vars
  <2>5. QED
    BY <1>2, <2>4
<1>4. mem'[i][t] # NoTask => Covers(mem'[i][t], disk'[t])
  BY <1>1, CoversItself, CoversOn DEF Settled
<1>5. ASSUME mem[i][t] # NoTask, run'[i][t].pc # "idle"
      PROVE  mem'[i][t] # NoTask
  <2>1. disk'[t] # NoTask
    BY <1>1, <1>5 DEF Settled, Covers
  <2>2. QED
    BY <1>1, <1>5, <2>1
<1>6. ASSUME ~Comes(mem[i][t], now), ~Comes(disk[t], now)
      PROVE  ~Comes(mem'[i][t], now') /\ ~Comes(disk'[t], now')
  <2>1. ~Comes(mem[i][t], now') /\ ~Comes(disk[t], now')
    BY <1>2, <1>3, <1>6, ComesEarlier
  <2>2. ~Comes(disk'[t], now')
    BY <1>1, <1>2, <2>1, ComesCovered
  <2>3. QED
    BY <1>1, <2>1, <2>2 DEF Comes
<1>7. CASE run'[i][t] = run[i][t] \/ run'[i][t] = NoRun
  <2>1. NoRun.pc = "idle"
    BY DEF NoRun
  <2>2. QED
    BY <1>4, <1>5, <1>6, <1>7, <2>1 DEF Settled, Closing
<1>8. CASE \/ run[i][t].pc # "idle" /\ run'[i][t].pc = "body"
           \/ mem[i][t] # NoTask /\ run'[i][t].pc \in {"claim", "begin"}
  BY <1>4, <1>5, <1>8 DEF Settled, Closing
<1>9. CASE \E ok \in BOOLEAN : BodyEnds(i, t, ok)
  <2>1. /\ mem' = mem /\ disk' = disk /\ now' = now /\ run[i][t].pc # "idle"
        /\ Closing(run'[i][t]) => ~Comes(mem[i][t], now)
    BY <1>9, BodyOutcome DEF BodyEnds, In
  <2>2. mem[i][t] # NoTask /\ Covers(mem[i][t], disk[t])
    BY <2>1 DEF Settled
  <2>3. Closing(run'[i][t]) => ~Comes(disk[t], now)
    BY <1>2, <2>1, <2>2, ComesCovered
  <2>4. QED
    BY <2>1, <2>2, <2>3 DEF Settled
<1>10. CASE Consume(i, t)
  <2>1. mem'[i][t] = disk'[t] /\ disk'[t] # NoTask /\ ~Comes(disk'[t], now')
    BY <1>10, ConsumeOutcome
  <2>2. QED
    BY <1>4, <2>1 DEF Settled
<1>11. QED
  BY <1>7, <1>8, <1>9, <1>10, RunChange

(***************************************************************************)
(* Where nobody edits tasks, no task is forgotten by any of the processes, *)
(* whatever they do otherwise: nothing is assumed about the order in which *)
(* their updates of the config files go through.                           *)
(***************************************************************************)
THEOREM NothingForgottenWithoutEdits ==
  ASSUME Faultless, NoEdits
  PROVE  Spec => []NoTaskForgotten
<1> DEFINE Inv == Attention /\ \A i \in Instances, t \in Tasks : Settled(i, t)
<1>1. Init => Inv
  <2>1. Init => \A i \in Instances, t \in Tasks : Settled(i, t)
    BY DEF Init, Settled, NoRun, Closing
  <2>2. QED
    BY <2>1, AttentionInit
<1>2. Inv => RecordedInTime
  BY DEF Settled, RecordedInTime
<1>3. Inv /\ SlotsMatchRuns /\ QueuedKeysHaveEntries /\ [Next]_vars => Inv'
  <2> SUFFICES ASSUME Inv, SlotsMatchRuns, QueuedKeysHaveEntries, [Next]_vars
               PROVE  Inv'
    OBVIOUS
  <2>1. OneEditor /\ RecordedInTime
    BY <1>2 DEF OneEditor
  <2>2. Attention'
    BY <2>1, AttentionStep
  <2>3. \A i \in Instances, t \in Tasks : Settled(i, t)'
    BY <2>2, SettledStep DEF Attention
  <2>4. QED
    BY <2>2, <2>3
<1>4. Inv => NoTaskForgotten
  BY AttentionEnough
<1>5. Spec => []SlotsMatchRuns /\ []QueuedKeysHaveEntries
  BY SlotsCorrect, KeysCorrect, PTL
<1> HIDE DEF Inv
<1>6. QED
  BY <1>1, <1>3, <1>4, <1>5, PTL DEF Spec
=============================================================================
