-------------------------- MODULE ScheduledTasks --------------------------
(***************************************************************************)
(* The scheduled tasks runtime (scheduled-tasks/runtime.js) of several     *)
(* server processes that share the project config files, with the service  *)
(* operations that edit tasks (scheduled-tasks/service.js) and the config  *)
(* updates they use (projects/project-config.js).                          *)
(*                                                                         *)
(* An update under the project write lock and the synchronous code after   *)
(* its await are one step: the lock serializes the updates (ProjectLock),  *)
(* and the code after the await touches only the memory of its own         *)
(* process.  The arguments of an update are computed when it is requested, *)
(* in the step before, so everything that happens while a caller waits for *)
(* the lock is an interleaving here.  Time is in ticks.                    *)
(***************************************************************************)
EXTENDS Integers, SequencesExt, FiniteSetsExt

CONSTANTS
  Instances,      \* server processes (CLI serve, desktop)
  Handlers,       \* requests in progress at a time: start, list, save, remove
  Projects, Tasks, ProjectOf,
  Schedules,
  Kind,           \* of a schedule: "calendar" (daily, weekly), "once", "cron"
  Occ,            \* of a schedule: its occurrence times
  Slack,          \* TASK_DUE_SLACK_MS
  GlobalLimit,    \* maxGlobalConcurrency
  ProjectLimit,   \* maxProjectConcurrency
  InitialDisk,    \* the tasks in the config files at the start
  NoTask,         \* a task that is not there
  MaxLate,        \* bound: how late a due timer or an update may be
  MaxQueueWait,   \* bound: how long a due run may wait for a slot
  MaxNow,         \* bound: the last tick
  Budget          \* bound: how often each event of the environment happens

Events == {"faults", "crashes", "manuals", "lists", "edits", "listedEdits",
           "deletes", "stops"}

NoTime   == -1
OptTime  == Nat \cup {NoTime}
AllOcc   == UNION {Occ[s] : s \in Schedules}
Statuses == {"quiet", "running", "error"}

\* The parts of a stored task the runtime reads: schedule, enabled,
\* state.lastScheduledFor, state.nextRunAt, state.lastStatus.
TaskRec == [sched : Schedules, enabled : BOOLEAN, lastFor : OptTime,
            next : OptTime, status : Statuses]
OptTask == TaskRec \cup {NoTask}

ASSUME ScheduledTasksAssumption ==
  /\ ProjectOf \in [Tasks -> Projects]
  /\ Kind \in [Schedules -> {"calendar", "once", "cron"}]
  /\ Occ \in [Schedules -> SUBSET Nat]
  /\ Slack \in Nat
  /\ GlobalLimit \in Nat \ {0}
  /\ ProjectLimit \in Nat \ {0}
  /\ NoTask \notin TaskRec
  /\ InitialDisk \in [Tasks -> OptTask]
  /\ MaxLate \in Nat
  /\ MaxQueueWait \in Nat
  /\ MaxNow \in Nat
  /\ Budget \in [Events -> Nat]

VARIABLES
  now,         \* Date.now(), in ticks
  disk,        \* the tasks in the project config files
  phase,       \* of a process: down, started, stopped
  mem,         \* tasksByProject
  timer,       \* timersByTaskKey: the occurrence each timer is armed for
  queue,       \* queue
  queuedKeys,  \* queuedTaskKeys
  running,     \* runningTaskKeys, which the running counts follow
  run,         \* runTask in progress, per process and task
  pumping,     \* the process inside pumpQueue, which runs to completion
  handler,     \* requests in progress
  claims,      \* history: how often an occurrence was claimed
  used         \* bound: events of the environment so far

vars == <<now, disk, phase, mem, timer, queue, queuedKeys, running, run,
          pumping, handler, claims, used>>

NoRun == [pc |-> "idle", manual |-> FALSE, sf |-> NoTime, from |-> NoTime,
          next |-> NoTime, task |-> NoTask, ok |-> FALSE]

NoHandler == [pc |-> "idle", projs |-> {}, snap |-> [t \in Tasks |-> NoTask],
              todo |-> {}, cur |-> NoTask, next |-> NoTime,
              target |-> NoTask, payload |-> NoTask]

Init ==
  /\ now = 0
  /\ disk = InitialDisk
  /\ phase = [i \in Instances |-> "down"]
  /\ mem = [i \in Instances |-> [t \in Tasks |-> NoTask]]
  /\ timer = [i \in Instances |-> [t \in Tasks |-> NoTime]]
  /\ queue = [i \in Instances |-> <<>>]
  /\ queuedKeys = [i \in Instances |-> {}]
  /\ running = [i \in Instances |-> {}]
  /\ run = [i \in Instances |-> [t \in Tasks |-> NoRun]]
  /\ pumping = {}
  /\ handler = [i \in Instances |-> [h \in Handlers |-> NoHandler]]
  /\ claims = [t \in Tasks |-> [o \in AllOcc |-> 0]]
  /\ used = [e \in Events |-> 0]
-----------------------------------------------------------------------------
(* computeNextRunAt and the helpers that arm timers.                       *)

\* The occurrences strictly after t, for the calendar kinds after t and the
\* due slack. (A daily schedule whose times are over for today takes the first
\* of tomorrow without the slack, which differs in the last seconds of a day.)
Upcoming(s, t) ==
  {o \in Occ[s] : o > IF Kind[s] = "cron" THEN t ELSE t + Slack}

NextRun(task, t) ==
  IF task.enabled /\ Upcoming(task.sched, t) # {}
  THEN Min(Upcoming(task.sched, t))
  ELSE NoTime

\* scheduleTask: clears the timer, arms it unless stopped or without a time.
Armed(i, next) == IF phase[i] = "started" THEN next ELSE NoTime

\* scheduleFutureRun: leaves the timer alone unless next lies after base.
ArmedIfFuture(i, t, next, base) ==
  IF next > base THEN Armed(i, next) ELSE timer[i][t]

\* rearmFromTaskOrCompute.
Rearmed(i, t, latest, base) ==
  IF ~latest.enabled THEN timer[i][t]
  ELSE IF latest.next > base THEN Armed(i, latest.next)
  ELSE ArmedIfFuture(i, t, NextRun(latest, base), base)

SetTimer(i, t, at) == timer' = [timer EXCEPT ![i][t] = at]
SetMem(i, t, task) == mem' = [mem EXCEPT ![i][t] = task]
SetDisk(t, task)   == disk' = [disk EXCEPT ![t] = task]

\* The candidate already carries a claim within the slack of sf.
AlreadyClaimed(task, sf) ==
  /\ task.lastFor # NoTime
  /\ task.lastFor - sf <= Slack
  /\ sf - task.lastFor <= Slack

\* Mutant of Claimable: without the duplicate check.
ClaimableIfEnabled(task, sf) == task.enabled

Claimable(task, sf) == task.enabled /\ ~AlreadyClaimed(task, sf)

\* No process is inside pumpQueue.
Quiet == pumping = {}

Happens(e) ==
  /\ used[e] < Budget[e]
  /\ used' = [used EXCEPT ![e] = @ + 1]
-----------------------------------------------------------------------------
(* The clock and the timers.                                               *)

\* Occurrences whose timer is armed, or that an update in progress carries.
Pending ==
  {timer[i][t] : i \in Instances, t \in Tasks}
  \cup UNION {IF run[i][t].pc = "claim" THEN {run[i][t].sf} ELSE {} :
               i \in Instances, t \in Tasks}
  \cup {run[i][t].next : i \in Instances, t \in Tasks}
  \cup {handler[i][h].next : i \in Instances, h \in Handlers}

\* Occurrences that wait in a queue for a slot.
Waiting ==
  UNION {{queue[i][k].sf : k \in DOMAIN queue[i]} : i \in Instances}

Tick ==
  /\ Quiet
  /\ now < MaxNow
  /\ \A o \in Pending \ {NoTime} : now < o + MaxLate
  /\ \A o \in Waiting : now < o + MaxQueueWait
  /\ now' = now + 1
  /\ UNCHANGED <<disk, phase, mem, timer, queue, queuedKeys, running, run,
                 pumping, handler, claims, used>>

\* The timeout callback: drops the timer, queues the run (queueTaskRun) and
\* pumps.  The jitter lets it fire at any time from the occurrence on.
TimerFires(i, t) ==
  /\ Quiet
  /\ timer[i][t] # NoTime
  /\ now >= timer[i][t]
  /\ SetTimer(i, t, NoTime)
  /\ IF mem[i][t] # NoTask /\ mem[i][t].enabled
     THEN /\ IF t \in queuedKeys[i] \cup running[i]
             THEN UNCHANGED <<queue, queuedKeys>>
             ELSE /\ queue' = [queue EXCEPT ![i] =
                                 Append(@, [task |-> t, sf |-> timer[i][t]])]
                  /\ queuedKeys' = [queuedKeys EXCEPT ![i] = @ \cup {t}]
          /\ pumping' = {i}
     ELSE UNCHANGED <<queue, queuedKeys, pumping>>
  /\ UNCHANGED <<now, disk, phase, mem, running, run, handler, claims, used>>
-----------------------------------------------------------------------------
(* pumpQueue and runTask.                                                  *)

\* Mutant of CanRun: one run more than the project limit.
CanRunOneMore(i, t) ==
  /\ Cardinality(running[i]) < GlobalLimit
  /\ Cardinality({u \in running[i] : ProjectOf[u] = ProjectOf[t]})
       <= ProjectLimit

\* canRunTask.
CanRun(i, t) ==
  /\ Cardinality(running[i]) < GlobalLimit
  /\ Cardinality({u \in running[i] : ProjectOf[u] = ProjectOf[t]})
       < ProjectLimit

\* The checks at the head of runTask.
Admitted(i, t) ==
  mem[i][t] # NoTask /\ mem[i][t].enabled /\ t \notin running[i]

\* runTask takes the slot and requests its first config update.
TakeSlot(i, t, manual, sf) ==
  /\ running' = [running EXCEPT ![i] = @ \cup {t}]
  /\ run' = [run EXCEPT ![i][t] =
       [pc |-> IF manual THEN "begin" ELSE "claim", manual |-> manual,
        sf |-> sf, from |-> now,
        next |-> IF manual THEN NoTime ELSE NextRun(mem[i][t], now),
        task |-> mem[i][t], ok |-> FALSE]]

\* Mutant of EndRun: the queue is not pumped again.
EndRunWithoutPump(i, t) ==
  /\ running' = [running EXCEPT ![i] = @ \ {t}]
  /\ run' = [run EXCEPT ![i][t] = NoRun]
  /\ UNCHANGED pumping

\* releaseRunningSlot in the finally; a queued run then pumps again.
EndRun(i, t) ==
  /\ running' = [running EXCEPT ![i] = @ \ {t}]
  /\ run' = [run EXCEPT ![i][t] = NoRun]
  /\ pumping' = IF run[i][t].manual THEN {} ELSE {i}

\* The queue entries pumpQueue may start.  Slots are only taken while it
\* runs, so an entry it has passed over stays blocked.
Startable(i) ==
  IF phase[i] = "started"
  THEN {k \in DOMAIN queue[i] : CanRun(i, queue[i][k].task)}
  ELSE {}

\* Mutant of PumpStarts: the entry is removed, its queued key is not.
PumpKeepsKey(i) ==
  /\ i \in pumping
  /\ Startable(i) # {}
  /\ LET k == Min(Startable(i))
         t == queue[i][k].task
     IN  /\ queue' = [queue EXCEPT ![i] = RemoveAt(@, k)]
         /\ IF Admitted(i, t)
            THEN TakeSlot(i, t, FALSE, queue[i][k].sf)
            ELSE UNCHANGED <<running, run>>
  /\ UNCHANGED <<now, disk, phase, mem, timer, queuedKeys, pumping, handler,
                 claims, used>>

\* One turn of pumpQueue's loop: removes an entry and calls runTask.
PumpStarts(i) ==
  /\ i \in pumping
  /\ Startable(i) # {}
  /\ LET k == Min(Startable(i))
         t == queue[i][k].task
     IN  /\ queue' = [queue EXCEPT ![i] = RemoveAt(@, k)]
         /\ queuedKeys' = [queuedKeys EXCEPT ![i] = @ \ {t}]
         /\ IF Admitted(i, t)
            THEN TakeSlot(i, t, FALSE, queue[i][k].sf)
            ELSE UNCHANGED <<running, run>>
  /\ UNCHANGED <<now, disk, phase, mem, timer, pumping, handler, claims, used>>

PumpEnds(i) ==
  /\ i \in pumping
  /\ Startable(i) = {}
  /\ pumping' = {}
  /\ UNCHANGED <<now, disk, phase, mem, timer, queue, queuedKeys, running,
                 run, handler, claims, used>>

\* runNow: refused while running or queued, subject to no concurrency limit.
RunNow(i, t) ==
  /\ Quiet
  /\ phase[i] # "down"
  /\ t \notin queuedKeys[i]
  /\ Admitted(i, t)
  /\ Happens("manuals")
  /\ TakeSlot(i, t, TRUE, NoTime)
  /\ UNCHANGED <<now, disk, phase, mem, timer, queue, queuedKeys, pumping,
                 handler, claims>>

In(i, t, label) == Quiet /\ run[i][t].pc = label

GoOn(i, t, label) == run' = [run EXCEPT ![i][t].pc = label]

\* On to the session; the times of the claim are of no more use.
ToBody(i, t) ==
  run' = [run EXCEPT ![i][t] =
            [@ EXCEPT !.pc = "body", !.from = NoTime, !.next = NoTime]]

\* The claim: updateScheduledTaskStateIf with canClaimOccurrence and claimPatch.
ClaimWins(i, t) ==
  /\ In(i, t, "claim")
  /\ disk[t] # NoTask
  /\ Claimable(disk[t], run[i][t].sf)
  /\ LET claimed == [disk[t] EXCEPT !.lastFor = run[i][t].sf,
                       !.next = run[i][t].next, !.status = "running"]
     IN  SetDisk(t, claimed) /\ SetMem(i, t, claimed)
  /\ claims' = [claims EXCEPT ![t][run[i][t].sf] = @ + 1]
  /\ ToBody(i, t)
  /\ UNCHANGED <<now, phase, timer, queue, queuedKeys, running, pumping,
                 handler, used>>

\* The predicate is false: adopt the task on disk and wait for its next slot.
ClaimLost(i, t) ==
  /\ In(i, t, "claim")
  /\ disk[t] # NoTask
  /\ ~Claimable(disk[t], run[i][t].sf)
  /\ SetMem(i, t, disk[t])
  /\ SetTimer(i, t, Rearmed(i, t, disk[t], now))
  /\ EndRun(i, t)
  /\ UNCHANGED <<now, disk, phase, queue, queuedKeys, handler, claims, used>>

\* Mutant of TaskGone: the early return does not release the slot.
TaskGoneKeepsSlot(i, t) ==
  /\ Quiet
  /\ run[i][t].pc \in {"claim", "claimfailed"}
  /\ disk[t] = NoTask
  /\ run' = [run EXCEPT ![i][t] = NoRun]
  /\ UNCHANGED <<now, disk, phase, mem, timer, queue, queuedKeys, running,
                 pumping, handler, claims, used>>

\* A claim or a claim-failure record of a task that is no longer on disk.
TaskGone(i, t) ==
  /\ Quiet
  /\ run[i][t].pc \in {"claim", "claimfailed"}
  /\ disk[t] = NoTask
  /\ EndRun(i, t)
  /\ UNCHANGED <<now, disk, phase, mem, timer, queue, queuedKeys, handler,
                 claims, used>>

\* What runTask uses as the latest task: memory, or its own snapshot.
Latest(i, t) == IF mem[i][t] # NoTask THEN mem[i][t] ELSE run[i][t].task

\* Mutant of ClaimErrs: dispatches although the claim failed.
ClaimErrsOpen(i, t) ==
  /\ In(i, t, "claim")
  /\ Happens("faults")
  /\ ToBody(i, t)
  /\ UNCHANGED <<now, disk, phase, mem, timer, queue, queuedKeys, running,
                 pumping, handler, claims>>

\* The claim throws (lock timeout, file error): re-arm, then record it.
ClaimErrs(i, t) ==
  /\ In(i, t, "claim")
  /\ Happens("faults")
  /\ SetTimer(i, t, Rearmed(i, t, Latest(i, t), run[i][t].from))
  /\ GoOn(i, t, "claimfailed")
  /\ UNCHANGED <<now, disk, phase, mem, queue, queuedKeys, running, pumping,
                 handler, claims>>

\* Mutant of RecordClaimFailure: only warns.
RecordNothing(i, t) ==
  /\ In(i, t, "claimfailed")
  /\ EndRun(i, t)
  /\ UNCHANGED <<now, disk, phase, mem, timer, queue, queuedKeys, handler,
                 claims, used>>

\* Best-effort record of the failure, unless somebody claimed the occurrence.
RecordClaimFailure(i, t) ==
  /\ In(i, t, "claimfailed")
  /\ \/ /\ disk[t] # NoTask
        /\ LET recorded == IF AlreadyClaimed(disk[t], run[i][t].sf) THEN disk[t]
                           ELSE [disk[t] EXCEPT !.status = "error"]
           IN  SetDisk(t, recorded) /\ SetMem(i, t, recorded)
        /\ UNCHANGED used
     \/ /\ Happens("faults")
        /\ SetMem(i, t, [run[i][t].task EXCEPT !.status = "error"])
        /\ UNCHANGED disk
  /\ EndRun(i, t)
  /\ UNCHANGED <<now, phase, timer, queue, queuedKeys, handler, claims>>

\* The start-state write of a manual run; a task gone from disk still runs.
BeginManual(i, t) ==
  /\ In(i, t, "begin")
  /\ IF disk[t] # NoTask
     THEN LET begun == [disk[t] EXCEPT !.status = "running"]
          IN  SetDisk(t, begun) /\ SetMem(i, t, begun)
     ELSE UNCHANGED <<disk, mem>>
  /\ ToBody(i, t)
  /\ UNCHANGED <<now, phase, timer, queue, queuedKeys, running, pumping,
                 handler, claims, used>>

BeginManualErrs(i, t) ==
  /\ In(i, t, "begin")
  /\ Happens("faults")
  /\ EndRun(i, t)
  /\ UNCHANGED <<now, disk, phase, mem, timer, queue, queuedKeys, handler,
                 claims>>

\* The session is created and prompted, or that fails or times out.  What
\* OpenCode does meanwhile is outside; a scheduled once task is consumed next.
BodyEnds(i, t, ok) ==
  /\ In(i, t, "body")
  /\ LET latest  == Latest(i, t)
         consume == /\ Kind[latest.sched] = "once"
                    /\ ~run[i][t].manual
                    /\ latest.enabled
     IN  run' = [run EXCEPT ![i][t] =
           [@ EXCEPT !.pc = IF consume THEN "consume" ELSE "complete",
                     !.ok = ok, !.from = now, !.task = latest,
                     !.next = IF consume THEN NoTime
                              ELSE NextRun(latest, now)]]
  /\ UNCHANGED <<now, disk, phase, mem, timer, queue, queuedKeys, running,
                 pumping, handler, claims, used>>

\* upsertScheduledTask({...latestTask, enabled: false}): latestTask carries its
\* own state, which wins over the one on disk.
Consume(i, t) ==
  /\ In(i, t, "consume")
  /\ LET latest   == run[i][t].task
         consumed == [latest EXCEPT !.enabled = FALSE]
     IN  \/ /\ SetDisk(t, consumed)
            /\ SetMem(i, t, consumed)
            /\ run' = [run EXCEPT ![i][t] =
                 [@ EXCEPT !.pc = "complete", !.task = consumed]]
            /\ UNCHANGED used
         \/ /\ Happens("faults")
            /\ run' = [run EXCEPT ![i][t] =
                 [@ EXCEPT !.pc = "complete",
                           !.next = NextRun(latest, run[i][t].from)]]
            /\ UNCHANGED <<disk, mem>>
  /\ UNCHANGED <<now, phase, timer, queue, queuedKeys, running, pumping,
                 handler, claims>>

\* Mutants of Completed: a status nobody reads, or a patch that replaces the
\* state instead of extending it.
CompletedUnread(i, t, task) ==
  [task EXCEPT !.status = IF run[i][t].ok THEN "success" ELSE "timeout",
               !.next = run[i][t].next]

CompletedAfresh(i, t, task) ==
  [task EXCEPT !.status = IF run[i][t].ok THEN "quiet" ELSE "error",
               !.next = run[i][t].next, !.lastFor = NoTime]

\* statePatch of the completion write.
Completed(i, t, task) ==
  [task EXCEPT !.status = IF run[i][t].ok THEN "quiet" ELSE "error",
               !.next = run[i][t].next]

\* Mutant of Complete: no retry after a failed completion write.
CompleteOnce(i, t) ==
  /\ In(i, t, "complete")
  /\ IF disk[t] # NoTask
     THEN LET done == Completed(i, t, disk[t])
          IN  /\ SetDisk(t, done)
              /\ SetMem(i, t, done)
              /\ SetTimer(i, t, IF done.enabled
                                THEN ArmedIfFuture(i, t, done.next,
                                                   run[i][t].from)
                                ELSE timer[i][t])
     ELSE UNCHANGED <<disk, mem, timer>>
  /\ EndRun(i, t)
  /\ UNCHANGED <<now, phase, queue, queuedKeys, handler, claims, used>>

\* The completion write, or its retry, goes through.
Complete(i, t) ==
  /\ Quiet
  /\ run[i][t].pc \in {"complete", "retry"}
  /\ IF disk[t] # NoTask
     THEN LET done == Completed(i, t, disk[t])
          IN  /\ SetDisk(t, done)
              /\ SetMem(i, t, done)
              /\ SetTimer(i, t, IF done.enabled
                                THEN ArmedIfFuture(i, t, done.next,
                                                   run[i][t].from)
                                ELSE timer[i][t])
     ELSE UNCHANGED <<disk, mem, timer>>
  /\ EndRun(i, t)
  /\ UNCHANGED <<now, phase, queue, queuedKeys, handler, claims, used>>

\* The completion write throws: terminal status in memory, then one retry.
CompleteErrs(i, t) ==
  /\ In(i, t, "complete")
  /\ Happens("faults")
  /\ SetMem(i, t, Completed(i, t, run[i][t].task))
  /\ GoOn(i, t, "retry")
  /\ UNCHANGED <<now, disk, phase, timer, queue, queuedKeys, running,
                 pumping, handler, claims>>

\* recoveredTask, which a sync or a deletion may have put out of memory again.
Recovered(i, t) ==
  IF mem[i][t] # NoTask THEN mem[i][t] ELSE Completed(i, t, run[i][t].task)

\* The retry throws too: re-arm from memory, or from the recovered task.
RetryErrs(i, t) ==
  /\ In(i, t, "retry")
  /\ Happens("faults")
  /\ SetTimer(i, t, Rearmed(i, t, Recovered(i, t), run[i][t].from))
  /\ EndRun(i, t)
  /\ UNCHANGED <<now, disk, phase, mem, queue, queuedKeys, handler, claims>>
-----------------------------------------------------------------------------
(* Requests: start, list, save, remove, set enabled.                       *)

TasksOf(p) == {t \in Tasks : ProjectOf[t] = p}

SetHandler(i, h, hd) == handler' = [handler EXCEPT ![i][h] = hd]

Free(i, h) == Quiet /\ phase[i] # "down" /\ handler[i][h].pc = "idle"

At(i, h, label) == Quiet /\ handler[i][h].pc = label

Syncing(ps) == [NoHandler EXCEPT !.pc = "reconcile", !.projs = ps]

\* Mutant of GoOnSyncing: only the first task of the listing is synced.
GoOnWithOne(i, h, hd, todo) ==
  \/ \E t \in todo :
       SetHandler(i, h, [hd EXCEPT !.pc = "patch", !.cur = t, !.todo = {},
                           !.next = NextRun(hd.snap[t], now)])
  \/ /\ todo = {}
     /\ SetHandler(i, h, IF hd.projs # {} THEN Syncing(hd.projs)
                         ELSE NoHandler)

\* The tasks in todo are left to sync.  The next syncTaskSchedule computes its
\* nextRunAt at once; after the last one comes the next project of start, or
\* the save of the task this request has listed in order to edit it.
GoOnSyncing(i, h, hd, todo) ==
  \/ \E t \in todo :
       SetHandler(i, h, [hd EXCEPT !.pc = "patch", !.cur = t,
                           !.todo = todo \ {t},
                           !.next = NextRun(hd.snap[t], now)])
  \/ /\ todo = {}
     /\ SetHandler(i, h,
          IF hd.projs # {} THEN Syncing(hd.projs)
          ELSE IF hd.payload # NoTask
          THEN [NoHandler EXCEPT !.pc = "edit", !.target = hd.target,
                                 !.payload = hd.payload]
          ELSE NoHandler)

\* A server process starts: start() and its syncAllProjects.
Start(i, h) ==
  /\ Quiet
  /\ phase[i] = "down"
  /\ phase' = [phase EXCEPT ![i] = "started"]
  /\ SetHandler(i, h, Syncing(Projects))
  /\ UNCHANGED <<now, disk, mem, timer, queue, queuedKeys, running, run,
                 pumping, claims, used>>

\* GET of the tasks of a project: syncProject.
List(i, h, p) ==
  /\ Free(i, h)
  /\ Happens("lists")
  /\ SetHandler(i, h, Syncing({p}))
  /\ UNCHANGED <<now, disk, phase, mem, timer, queue, queuedKeys, running,
                 run, pumping, claims>>

\* PUT of a task without runtime state: creates it or edits it.
Save(i, h, t, s, enabled) ==
  /\ Free(i, h)
  /\ Happens("edits")
  /\ SetHandler(i, h,
       [NoHandler EXCEPT !.pc = "save", !.target = t,
          !.payload = [sched |-> s, enabled |-> enabled, lastFor |-> NoTime,
                       next |-> NoTime, status |-> "quiet"]])
  /\ UNCHANGED <<now, disk, phase, mem, timer, queue, queuedKeys, running,
                 run, pumping, claims>>

\* setEnabled, or an edit in the dialog: list, then save the listed task with
\* a change.
EditListed(i, h, t) ==
  /\ Free(i, h)
  /\ Happens("listedEdits")
  /\ SetHandler(i, h, [Syncing({ProjectOf[t]}) EXCEPT !.target = t])
  /\ UNCHANGED <<now, disk, phase, mem, timer, queue, queuedKeys, running,
                 run, pumping, claims>>

Delete(i, h, t) ==
  /\ Free(i, h)
  /\ Happens("deletes")
  /\ SetHandler(i, h, [NoHandler EXCEPT !.pc = "remove", !.target = t])
  /\ UNCHANGED <<now, disk, phase, mem, timer, queue, queuedKeys, running,
                 run, pumping, claims>>

\* upsertScheduledTask of a payload without state: the state on disk stays.
Saved(i, h) ==
  /\ At(i, h, "save")
  /\ LET t == handler[i][h].target
         payload == handler[i][h].payload
         d == disk[t]
     IN  /\ SetDisk(t, IF d = NoTask THEN payload
                       ELSE [d EXCEPT !.sched = payload.sched,
                                      !.enabled = payload.enabled])
         /\ SetHandler(i, h, Syncing({ProjectOf[t]}))
  /\ UNCHANGED <<now, phase, mem, timer, queue, queuedKeys, running, run,
                 pumping, claims, used>>

\* upsertScheduledTask of the listed task: its state replaces the one on disk.
EditSaved(i, h) ==
  /\ At(i, h, "edit")
  /\ LET t == handler[i][h].target
         payload == handler[i][h].payload
     IN  /\ \/ SetDisk(t, [payload EXCEPT !.enabled = ~@])
            \/ \E s \in Schedules : SetDisk(t, [payload EXCEPT !.sched = s])
         /\ SetHandler(i, h, Syncing({ProjectOf[t]}))
  /\ UNCHANGED <<now, phase, mem, timer, queue, queuedKeys, running, run,
                 pumping, claims, used>>

\* deleteScheduledTask; a task that is not there is a 404.
Removed(i, h) ==
  /\ At(i, h, "remove")
  /\ LET t == handler[i][h].target
     IN  /\ SetDisk(t, NoTask)
         /\ SetHandler(i, h, IF disk[t] = NoTask THEN NoHandler
                             ELSE Syncing({ProjectOf[t]}))
  /\ UNCHANGED <<now, phase, mem, timer, queue, queuedKeys, running, run,
                 pumping, claims, used>>

\* syncProject: the tasks on disk replace those in memory (setProjectTasks),
\* whose timers and queued keys are dropped; queue entries stay.
Reconcile(i, h) ==
  /\ At(i, h, "reconcile")
  /\ \E p \in handler[i][h].projs :
       LET known == {t \in TasksOf(p) : mem[i][t] # NoTask}
           hd == [handler[i][h] EXCEPT
                    !.projs = @ \ {p},
                    !.snap = [t \in Tasks |-> IF t \in TasksOf(p)
                                              THEN disk[t] ELSE NoTask],
                    !.payload = IF handler[i][h].target \in TasksOf(p)
                                THEN disk[handler[i][h].target] ELSE NoTask]
       IN  /\ timer' = [timer EXCEPT ![i] =
                          [t \in Tasks |-> IF t \in known THEN NoTime ELSE @[t]]]
           /\ queuedKeys' = [queuedKeys EXCEPT ![i] = @ \ known]
           /\ mem' = [mem EXCEPT ![i] =
                        [t \in Tasks |-> IF t \in TasksOf(p) THEN disk[t]
                                         ELSE @[t]]]
           /\ GoOnSyncing(i, h, hd, {t \in TasksOf(p) : disk[t] # NoTask})
  /\ UNCHANGED <<now, disk, phase, queue, running, run, pumping, claims, used>>

\* syncTaskSchedule: the nextRunAt computed from the listing goes to disk and
\* arms the timer.
PatchNext(i, h) ==
  /\ At(i, h, "patch")
  /\ LET hd == handler[i][h]
         t  == hd.cur
         patched == [disk[t] EXCEPT !.next = hd.next]
     IN  /\ IF disk[t] # NoTask
            THEN /\ SetDisk(t, patched)
                 /\ SetMem(i, t, patched)
                 /\ IF patched.enabled /\ hd.next # NoTime
                    THEN SetTimer(i, t, Armed(i, hd.next))
                    ELSE UNCHANGED timer
            ELSE UNCHANGED <<disk, mem, timer>>
         /\ GoOnSyncing(i, h, hd, hd.todo)
  /\ UNCHANGED <<now, phase, queue, queuedKeys, running, run, pumping, claims,
                 used>>

\* A config update of a request throws; the rest of the request is dropped.
HandlerErrs(i, h) ==
  /\ Quiet
  /\ handler[i][h].pc # "idle"
  /\ Happens("faults")
  /\ SetHandler(i, h, NoHandler)
  /\ UNCHANGED <<now, disk, phase, mem, timer, queue, queuedKeys, running,
                 run, pumping, claims>>
-----------------------------------------------------------------------------
(* Shutdown and crash.                                                     *)

\* stop(): runs and requests in progress go on until the process exits.
Stop(i) ==
  /\ Quiet
  /\ phase[i] = "started"
  /\ Happens("stops")
  /\ phase' = [phase EXCEPT ![i] = "stopped"]
  /\ timer' = [timer EXCEPT ![i] = [t \in Tasks |-> NoTime]]
  /\ queue' = [queue EXCEPT ![i] = <<>>]
  /\ queuedKeys' = [queuedKeys EXCEPT ![i] = {}]
  /\ UNCHANGED <<now, disk, mem, running, run, pumping, handler, claims>>

\* The process exits or is killed; only the files survive.
Crash(i) ==
  /\ Quiet
  /\ phase[i] # "down"
  /\ Happens("crashes")
  /\ phase' = [phase EXCEPT ![i] = "down"]
  /\ mem' = [mem EXCEPT ![i] = [t \in Tasks |-> NoTask]]
  /\ timer' = [timer EXCEPT ![i] = [t \in Tasks |-> NoTime]]
  /\ queue' = [queue EXCEPT ![i] = <<>>]
  /\ queuedKeys' = [queuedKeys EXCEPT ![i] = {}]
  /\ running' = [running EXCEPT ![i] = {}]
  /\ run' = [run EXCEPT ![i] = [t \in Tasks |-> NoRun]]
  /\ handler' = [handler EXCEPT ![i] = [h \in Handlers |-> NoHandler]]
  /\ UNCHANGED <<now, disk, pumping, claims>>
-----------------------------------------------------------------------------
\* The steps a process takes by itself.
RunStep(i, t) ==
  \/ ClaimWins(i, t) \/ ClaimLost(i, t) \/ TaskGone(i, t)
  \/ RecordClaimFailure(i, t) \/ BeginManual(i, t)
  \/ (\E ok \in BOOLEAN : BodyEnds(i, t, ok))
  \/ Consume(i, t) \/ Complete(i, t)

RunFault(i, t) ==
  ClaimErrs(i, t) \/ BeginManualErrs(i, t) \/ CompleteErrs(i, t) \/ RetryErrs(i, t)

HandlerStep(i, h) ==
  \/ Reconcile(i, h) \/ PatchNext(i, h)
  \/ Saved(i, h) \/ EditSaved(i, h) \/ Removed(i, h)

Pump(i) == PumpStarts(i) \/ PumpEnds(i)

Request(i, h) ==
  \/ Start(i, h)
  \/ \E p \in Projects : List(i, h, p)
  \/ \E t \in Tasks : EditListed(i, h, t) \/ Delete(i, h, t)
  \/ \E t \in Tasks, s \in Schedules, e \in BOOLEAN : Save(i, h, t, s, e)

Next ==
  \/ Tick
  \/ \E i \in Instances :
       \/ Pump(i) \/ Stop(i) \/ Crash(i)
       \/ \E t \in Tasks :
            TimerFires(i, t) \/ RunNow(i, t) \/ RunStep(i, t) \/ RunFault(i, t)
       \/ \E h \in Handlers :
            HandlerStep(i, h) \/ HandlerErrs(i, h) \/ Request(i, h)

Spec == Init /\ [][Next]_vars

\* The event loop of a process keeps turning: due timers fire, the updates it
\* waits for return, OpenCode answers or the watchdog ends the run; and time
\* passes.
Fairness ==
  /\ WF_vars(Tick)
  /\ \A i \in Instances :
       /\ WF_vars(Pump(i))
       /\ \A t \in Tasks : WF_vars(TimerFires(i, t)) /\ WF_vars(RunStep(i, t))
       /\ \A h \in Handlers : WF_vars(HandlerStep(i, h))

FairSpec == Spec /\ Fairness
-----------------------------------------------------------------------------
RunRec == [pc : {"idle", "claim", "claimfailed", "begin", "body", "consume",
                 "complete", "retry"},
           manual : BOOLEAN, sf : OptTime, from : OptTime, next : OptTime,
           task : OptTask, ok : BOOLEAN]

HandlerRec == [pc : {"idle", "reconcile", "patch", "save", "edit", "remove"},
               projs : SUBSET Projects, snap : [Tasks -> OptTask],
               todo : SUBSET Tasks, cur : Tasks \cup {NoTask}, next : OptTime,
               target : Tasks \cup {NoTask}, payload : OptTask]

TypeOK ==
  /\ now \in Nat
  /\ disk \in [Tasks -> OptTask]
  /\ phase \in [Instances -> {"down", "started", "stopped"}]
  /\ mem \in [Instances -> [Tasks -> OptTask]]
  /\ timer \in [Instances -> [Tasks -> OptTime]]
  /\ queue \in [Instances -> Seq([task : Tasks, sf : Nat])]
  /\ queuedKeys \in [Instances -> SUBSET Tasks]
  /\ running \in [Instances -> SUBSET Tasks]
  /\ run \in [Instances -> [Tasks -> RunRec]]
  /\ pumping \in SUBSET Instances
  /\ handler \in [Instances -> [Handlers -> HandlerRec]]
  /\ claims \in [Tasks -> [AllOcc -> Nat]]
  /\ used \in [Events -> Nat]

(***************************************************************************)
(* "Without coordination a daily (or weekly / cron / once) slot would      *)
(* dispatch twice": over all processes an occurrence is claimed, and so    *)
(* run, at most once.                                                      *)
(***************************************************************************)
AtMostOnce == \A t \in Tasks : \A o \in AllOcc : claims[t][o] <= 1

(***************************************************************************)
(* The claim keeps only the last claimed occurrence, so a later claim must *)
(* never put lastScheduledFor back to an earlier one: what lies before it  *)
(* would become claimable again.                                           *)
(***************************************************************************)
LastForNeverGoesBack ==
  [][\A t \in Tasks :
       disk[t] # NoTask /\ disk'[t] # NoTask
         => disk'[t].lastFor >= disk[t].lastFor]_vars

(***************************************************************************)
(* "Always release the in-process running slot": a slot is taken exactly   *)
(* while a run of the task is in progress, on every path through runTask.  *)
(***************************************************************************)
SlotsMatchRuns ==
  \A i \in Instances : running[i] = {t \in Tasks : run[i][t].pc # "idle"}

(***************************************************************************)
(* A key in queuedTaskKeys blocks queueTaskRun and runNow for its task, so *)
(* there must be a queue entry whose start will remove it again.           *)
(***************************************************************************)
QueuedKeysHaveEntries ==
  \A i \in Instances : \A t \in queuedKeys[i] :
    \E k \in DOMAIN queue[i] : queue[i][k].task = t

(***************************************************************************)
(* Runs started from the queue never exceed the limits, whatever manual    *)
(* runs, which are not limited, do in between.                             *)
(***************************************************************************)
ScheduledWithinLimits ==
  \A i \in Instances :
    LET scheduled == {t \in running[i] : ~run[i][t].manual}
    IN  /\ Cardinality(scheduled) <= GlobalLimit
        /\ \A p \in Projects :
             Cardinality(scheduled \cap TasksOf(p)) <= ProjectLimit

(***************************************************************************)
(* No enabled task with an occurrence to come is forgotten: the process    *)
(* has a timer for it, a queue entry, a run in progress that will re-arm,  *)
(* or a request in progress that will.                                     *)
(***************************************************************************)
Attended(i, t) ==
  \/ timer[i][t] # NoTime
  \/ t \in running[i]
  \/ \E k \in DOMAIN queue[i] : queue[i][k].task = t
  \/ \E h \in Handlers : handler[i][h].pc # "idle"

NoTaskForgotten ==
  \A i \in Instances : \A t \in Tasks :
    (/\ phase[i] = "started"
     /\ mem[i][t] # NoTask
     /\ NextRun(mem[i][t], now) # NoTime) => Attended(i, t)

(***************************************************************************)
(* "Best-effort record so once tasks are not left enabled-but-inert with   *)
(* no UI signal": once a started process has armed a once task, the        *)
(* occurrence is claimed or the task shows an error, unless the process    *)
(* stops first, whichever updates fail on the way.                         *)
(***************************************************************************)
ArmedOnceSettles ==
  \A i \in Instances : \A t \in Tasks : \A o \in AllOcc :
    (/\ timer[i][t] = o
     /\ mem[i][t] # NoTask
     /\ Kind[mem[i][t].sched] = "once")
    ~> \/ claims[t][o] > 0
       \/ phase[i] # "started"
       \/ mem[i][t] # NoTask /\ mem[i][t].status = "error"

(***************************************************************************)
(* Every run ends and frees its slot, however its updates fail.            *)
(***************************************************************************)
RunsEnd ==
  \A i \in Instances : \A t \in Tasks :
    run[i][t].pc # "idle" ~> run[i][t].pc = "idle"

(***************************************************************************)
(* What is queued is started: an entry does not wait for ever.             *)
(***************************************************************************)
QueueDrains ==
  \A i \in Instances : queue[i] # <<>> ~> queue[i] = <<>>

\* The refinement: an occurrence is dispatched when its claim is won.
Dispatched(i, t, o) ==
  /\ run[i][t].pc \in {"body", "consume", "complete", "retry"}
  /\ ~run[i][t].manual
  /\ run[i][t].sf = o

occurrenceFate ==
  [t \in Tasks |-> [o \in AllOcc |->
     IF \E i \in Instances : Dispatched(i, t, o) THEN "running"
     ELSE IF claims[t][o] > 0 THEN "ended" ELSE "open"]]

Dispatch == INSTANCE OccurrenceDispatch
              WITH Times <- AllOcc, fate <- occurrenceFate

(***************************************************************************)
(* The runtimes together dispatch an occurrence at most once, never early, *)
(* and never again once its run has ended.                                 *)
(***************************************************************************)
RefinesDispatch == Dispatch!Spec
=============================================================================
