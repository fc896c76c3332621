# A TLA+ model of OpenDeputy's server-side coordination

OpenDeputy is a Bun monorepo: an Express server (`packages/web/server`) in front of
an OpenCode process, a React client with its own synchronised stores
(`packages/ui`), an Electron shell that embeds the server (`packages/electron`) and
a CLI that runs it as a daemon (`packages/web/bin`).  Several server processes may
run on one machine and share the files under the data directory, several pages may be
connected to one server, and several runtimes of the server may act on one session of
OpenCode.  This directory models the parts of the system where such sharing decides
whether the program is correct, checks them with TLC, and proves the main facts with
TLAPS.

Contents: [inventory](#1-inventory) · [modules](#2-modules-and-code) ·
[runs](#3-runs) · [proofs](#4-proofs) · [findings](#5-findings) ·
[limits of the model](#6-not-modelled)

## 1. Inventory

Paths are relative to `src/packages/`; `lib/` is `web/server/lib/`.

### Project config store and its write lock (`lib/projects/project-config.js`) — modelled

* State: one JSON file per project; a `.json.lock` file next to it with the holder's
  pid and time; in each process a promise chain per project (`writeLocks`).
* Operations: `upsertScheduledTask`, `deleteScheduledTask`,
  `updateScheduledTaskState`, `updateScheduledTaskStateIf`, `reconcileLoopTasks`, all
  read-modify-write under `withProjectWriteLock`, which queues on the chain, takes the
  lock file (`open wx`, stale recovery by dead pid, by age, by mtime), and releases it.
* Hard: two kinds of mutual exclusion nested; crash of a holder at any await; recovery
  of a lock by several processes at once; check-then-unlink in the release; timeout
  while queued writers wait.
* Correct when: updates are atomic and none is lost, a lock is never removed from a live
  holder, nothing is left behind, and every request settles.

### Scheduled tasks runtime and service (`lib/scheduled-tasks/runtime.js`, `service.js`) — modelled

* State per process: `tasksByProject`, `timersByTaskKey`, `queue`, `queuedTaskKeys`,
  `runningTaskKeys` with the running counts, the `stopped`/`started` flags; shared: the
  tasks and their runtime state in the project config.
* Operations: `start`, `stop`, `syncProject` (listing), `upsert`, `remove`, `setEnabled`,
  `runNow`; internally the timeout callback, `queueTaskRun`, `pumpQueue`, `runTask`
  (claim, session, consumption of once tasks, completion, retry).
* Interactions: every durable step is an update of the config store; sessions are
  created in OpenCode over HTTP.
* Hard: the claim of an occurrence across processes; state computed before an await and
  used after it; an update that fails at any of six places; edits and deletions during a
  run; start, stop and crash in between; limits shared with unlimited manual runs.
* Correct when: an occurrence is dispatched at most once over all processes, slots are
  freed on every path, limits hold, no task is forgotten or locked out of its queue, a
  once task is never left silently inert.

### Session recovery and session goal (`lib/session-recovery/runtime.js`, `lib/session-goal/runtime.js`) — modelled

* State: per session a timer, an `inflight` mark and (recovery) a re-check count and the
  last activity heard; the goal itself lives in the session's metadata in OpenCode.
* Operations: `processPayload` on every event of the stream; `recover`, which reads the
  newest messages twice and sends a synthetic prompt; `tick`, which reads the goal, the
  status and the messages, has a small model audit them, writes the goal and sends a
  continuation; `pauseAfterAbort`; the edits of the goal from the UI
  (`ui/src/lib/sessionGoalActions.ts`).
* Interactions: both runtimes get the same events from the hub (`server/index.js`), know
  nothing of each other, and race with the user on one session.
* Hard: up to seven requests between reading and acting; goal writes that are a read and a
  patch on both sides; answers that are lost; events that arrive while a tick is in
  progress; a restart, which forgets everything but the goal.
* Correct when: automatic prompts are bounded whatever happens, one failure is answered
  once, an abort or a pause stops the goal, an active goal is not forgotten.

### Browser-control broker (`lib/browser-control`, `ui/src/lib/browser/controlClient.ts`) — modelled

* State: `pending` requests of the agent's tool calls; the event streams with their
  capabilities; in each page the registered pane and panel.
* Operations: `request` (broadcast), `claim`, `resolve`, timer and abort; in a page
  `handleRequest`, registration of panes and panels, reconnects.
* Hard: every page hears of a request; event, claim, grant and result may be lost or late;
  the caller may give up at any time.
* Correct when: one page acts, the caller gets one answer, and the answer is true.

### Event stream (`lib/event-stream`, `ui/src/sync/event-pipeline.ts`, `sync-context.tsx`) — modelled

* State: one reader on OpenCode's stream with its last event id, the hub's replay buffer
  and `everConnected`, the bridge's sockets; in a page the last event id, what it shows,
  and the resync in progress.
* Operations: dial, read, break, rebind after a managed restart; accept, `markReady` with
  replay, broadcast, slow sockets; in a page connect, frames, `onReconnect` with the resync
  it starts or does not start (first connect, boot, a resync in progress).
* Hard: two connections in a row that break and resume independently, replay that may
  have been trimmed, resyncs that overlap with reconnects, and that read only the newest
  `RECONNECT_MESSAGE_LIMIT` = 30 messages.
* Correct when: a page gets every event once and in order or is told to fetch, and ends up
  with the newest messages, but for a gap it was told of without fetching.

### Components that are listed but not modelled

| component | state | operations and interactions | correct when |
|---|---|---|---|
| Loop files (`lib/scheduled-tasks/loops.js`) | `.agents/loops` files, loop tasks in the config | discovery at each sync, `reconcileLoopTasks` under the lock | a loop keeps its runtime state, a vanished loop leaves no task |
| Relay host claim (`lib/relay/host-lock.js`, `service.js`) | claim file with a pid, host client, watch timer | `tryClaim`, `forceClaim`, `release`, watch | one host after the next watch |
| Permission auto-accept (`lib/permission-auto-accept/runtime.js`) | policies, session cache, persist chain, in-flight replies | events, policy changes, reconcile | a reply only under a policy of the session's lineage |
| Client pairing (`lib/client-auth/pairing.js`) | pairing sessions and clients in files, promise chain | create, redeem, cancel, sweep | a session is redeemed once |
| UI message loader beyond `refreshTail` (`ui/src/sync/session-message-loader.ts`, `optimistic.ts`) | an entry per session: pages, generation, optimistic messages | load, invalidate, merge | newer messages are never overwritten |
| UI stores (`ui/src/sync/event-reducer.ts`, ...) | queues per directory, React stores | coalescing, flushing, reducers | store equals the fold of the events |
| OpenCode process, Electron, CLI, terminal, git, tunnels, dictation | child processes, windows | platform I/O | left out: input and output rather than state |

`PROJECT.json` lists the hazards found in all of these with their lines, and which
property covers each.

## 2. Modules and code

```
ConfigStore            atomic requests on a config file            (abstract)
   ^  refined by
ProjectLock            chain, lock file, read-modify-write         (project-config.js)
   ^                                      ^
MCProjectLock  (TLC instances)        ProjectLock_proofs  (theorems)

OccurrenceDispatch     an occurrence is dispatched at most once    (abstract)
   ^  refined by
ScheduledTasks         runtimes over a shared config               (runtime.js, service.js)
   ^                                      ^
MCScheduledTasks  (TLC instances)     ScheduledTasks_proofs  (theorems)
                                          ^
                                      ScheduledClaims_proofs, ScheduledAttention_proofs

OpenCodeSession        one session of OpenCode, as it is seen      (external)
   ^            ^
SessionRecovery  SessionGoal                                       (session-*/runtime.js)
   ^            ^
SessionAutomation      both runtimes, the user and OpenCode        (composition)
   ^                                      ^
MCSessionAutomation  (TLC instances)  SessionAutomation_proofs  (theorems)

BrowserRequest         one performer, one true answer              (abstract)
   ^  refined by
BrowserBroker          broker and clients                          (browser-control)
   ^                                      ^
MCBrowserBroker  (TLC instance)       BrowserBroker_proofs  (theorems)

EventStream            reader, hub, bridge and pages               (event-stream, sync)
   ^                                      ^
MCEventStream  (TLC instances)        EventStream_proofs  (theorems)
```

The first two compose by contract.  `ProjectLock` shows that an update under the lock
is atomic (`RefinesStore`); `ScheduledTasks` takes each update as one step.  That is
justified where `ProjectLock` proves it, that is, not in the stale race of section 5.

### ProjectLock

One step per await of `withProjectWriteLock` and `acquireProjectFileLock`.

| model | code |
|---|---|
| `chain[p]` | the promises in `writeLocks` of process `p`; the head is the writer whose `await previous` has resolved |
| `lockFile` | the lock file: who created it, whether `{pid, at}` has been written, whether it is over 60 s old |
| `pc[w]` | where request `w` is: `queued`, the acquire loop (`open`, `inspect`, `stat`, `unlink`), `stamp`, `read`, `store`, the release (`readback`, `remove`) |
| `tries` | turns of the 20 ms acquire loop, `MaxTries` standing for 10 s |
| `base`, `config` | the config a writer has read, and the file; a config is the set of the updates it contains |
| `Crash(p)` | a process dies at any await; files stay |
| `Age` | 60 s pass over a lock file |

A `Lock` records its creator, not only its pid, because an unlink followed by a create
gives a new inode: a stamp through an old handle does not reach it.  A restarted process
is a process of its own, since it has a new pid; pid reuse is not modelled.

### ScheduledTasks

A step is one uninterrupted stretch of JavaScript: from the return of an awaited update
to the next request for one.  The update itself belongs to the stretch that follows it,
while its *arguments* are fixed in the stretch before; so everything that happens while a
caller waits for the lock is an interleaving.

| model | code |
|---|---|
| `disk[t]` | the stored task: schedule, enabled, `lastScheduledFor`, `nextRunAt`, `lastStatus` |
| `mem`, `timer`, `queue`, `queuedKeys`, `running` | the maps and sets of the runtime, per process |
| `run[i][t]` | the `runTask` in progress: `claim`, `claimfailed`, `begin` (manual), `body`, `consume`, `complete`, `retry` |
| `pumping` | the process is inside `pumpQueue`; nothing else moves meanwhile (`Quiet`) |
| `handler[i][h]` | a request in progress: `reconcile` and `patch` of `syncProject`, `save`, `edit`, `remove` |
| `claims[t][o]` | history: how often occurrence `o` was claimed |
| `TimerFires` | the timeout callback, `queueTaskRun` and the call of `pumpQueue` |
| `PumpStarts`, `PumpEnds` | one turn of the pump's loop; the return |
| `ClaimWins`, `ClaimLost`, `TaskGone`, `ClaimErrs`, `RecordClaimFailure` | `updateScheduledTaskStateIf` with `canClaimOccurrence`, and its three results |
| `BeginManual`, `BodyEnds`, `Consume`, `Complete`, `CompleteErrs`, `RetryErrs` | the rest of `runTask` |
| `Start`, `List`, `Save`, `EditListed`, `Delete`, then `Saved`, `EditSaved`, `Removed`, `Reconcile`, `PatchNext` | `start` and the service operations |
| `HandlerErrs`, `Stop`, `Crash` | a failed update of a request, shutdown, exit |

Abstractions.  Time is in ticks and `Slack` stands for the 5 s of `TASK_DUE_SLACK_MS`.
The jitter of a timer (`JITTER_MAX_MS`, 2 s) is the freedom to fire at any time
from the occurrence on.  A schedule is its set of occurrences; what `computeNextRunAt`
does with time zones and cron fields is its result, the first occurrence that is far
enough ahead.  The statuses `idle` and `success` are one value (`quiet`), as nothing in
the runtime tells them apart.  What a session does in OpenCode is outside.

### OpenCodeSession, SessionRecovery, SessionGoal, SessionAutomation

A step of a runtime is the stretch from the answer of one request to the next request.

| model | code |
|---|---|
| `log`, `turn` | the messages of the session by kind (who wrote it, how a reply ended), and the reply in progress; external |
| `goal` | `metadata.openchamber.goal`: id, status, `statusReason` as far as it is `resumed`, `turnsUsed`, the two streaks |
| `events` | events of the stream the server has not processed; those of the end of a turn are one event |
| `recTimer`, `rechecks`, `heardBusy`, `rec` | `timers`, `busyRechecks`, `lastEventActivityBySession`, and `recover` in progress |
| `RecoveryStatus`, `RecoveryRead`, `RecoveryReread`, `RecoveryPosts`, `RecoveryPosted`, `RecoveryFails`, `CheckLater` | the stretches of `recover`, and `then`/`catch` of the timer callback |
| `goalTimer`, `tick` | `timers`, and `tick` or `pauseAfterAbort` in progress (`inflight`), with the goal it read, the tail it judged, what it will write and the goal `writeGoal` read again |
| `TickSession` … `TickPosted`, `PauseRead`, `TickFails` | the stretches of `tick`, `writeGoal`, `pauseAfterAbort`, and the `catch` |
| `EditReads`, `EditWrites`, `StopArrives` | `patchSessionMetadata` of a goal edit, and `abortCurrentOperation` |
| `spent`, `blind`, `missed` | history: continuations since the user last wrote the goal, those after a failed audit, and whether a wake-up was lost |

Abstractions.  Timers fire at any time once armed.  Whether the token budget is reached is
a free choice of `TickRead`, so `blocked` stands for `budgetLimited` too.  What a model
answers is a free choice.

### BrowserBroker

| model | code |
|---|---|
| `entry[r]`, `answer[r]`, `aborted[r]` | the entry in `pending`, what the promise settled with, the caller's signal |
| `stream[c]`, `view[c]`, `panel[c]` | the event stream of a page with its `panel` capability, `activeController`, `activePanelController` |
| `job[c][r]` | how far `handleRequest` of page `c` is with request `r`, messages on the way included; `Drop` loses any of them |
| `target[c][r]` | the pane captured before the claim |
| `Request`, `Abort`, `TimeUp`, `Claim`, `Resolve` | `request` with `emitRequest`, the signal, the timer, the two routes |
| `Receive`, `Proceed`, `Attach`, `RunEnds` | `handleRequest` up to the claim, after it, `waitForController`, and the run with its result |
| `Show`, `SetPanel`, `Disconnect`, `Connect`, `Close` | registrations, reconnects, a page that goes away |

### EventStream

OpenCode adds messages 1, 2, …, each with one event of that id.

| model | code |
|---|---|
| `conn`, `heard`, `resume` | the reader's attempt, how far it is in the stream, whether it has a `Last-Event-ID` |
| `replay`, `everConnected` | the hub's buffer and flag |
| `sock[p]`, `asked[p]`, `frames[p]` | `clients`/`readyClients`, `clientLastEventIds`, and the frames under way |
| `link[p]`, `lastId[p]`, `has[p]` | the pipeline's attempt, its `lastEventId`, and the messages shown |
| `booting[p]` | `isRecentBoot()`: `bootstrapGlobal` runs or ended less than 1.5 s ago |
| `met[p]` | `pipelineHasConnectedRef` ("met") and `pipelineDisconnectedBeforeFirstConnectRef` ("cut"); neither is "never" |
| `sync[p]` | the resync of the directory (`resyncingDirectoriesRef`): about to read the tail, read, going on with other requests |
| `UpConnects`, `UpFails`, `UpBreaks`, `UpReads`, `Rebind` | the loop of the reader with the hub's callbacks and what the bridge does in them; `rebindUpstream` |
| `Connect`, `Deliver`, `Drop` | `accept` with `markReady`; `onmessage`; the end of a connection |
| `OnReconnect`, `Resyncs`, `OnDisconnect`, `BootEnds` | `onReconnect` with its two early returns and `triggerDirectoryResync`; `onDisconnect`; the end of the boot |
| `SyncReads`, `SyncApplies`, `SyncFails`, `SyncEnds` | `refreshTail` as it fetches, merges or fails; the end of the resync |
| `TailPage`, `ResyncLimit` | the newest `RECONNECT_MESSAGE_LIMIT` messages, all that `refreshTail` is asked for |
| `told`, `overlooked` | history: how far the stream was at the last ready frame, and at the last one that no read has followed |

`overlooked` is set where the code lets a ready frame pass without a read: on a first
connect that nothing went before, during a boot, when a resync in progress has read
already, and when the read of a resync fails.  The next resync that reads sets it back.  A
page starts inside or after its boot, and with the pipeline at its first connect or later.
The session shown is taken to be one the resync picks (it is, while it is viewed).
When the reader attaches again, OpenCode either sends again what was missed or does not;
both are allowed when there is a `Last-Event-ID`, as its behaviour is not in this repository.

### Abstract specifications

`ConfigStore`: a request is applied once or dropped, and the config holds exactly the
applied requests.  `OccurrenceDispatch`: an occurrence is open, then running, then ended;
it is dispatched not before its time and never again.  `BrowserRequest`: at most one client
is chosen, only while the caller waits; one answer; success only after the client finished.

## 3. Runs

Bounds are constants of the modules, all named: `MaxCrashes`, `MaxStampFailures`,
`SlowHolders`, `MaxTries`; `MaxNow`, `MaxLate` (how late a timer or an update may be),
`MaxQueueWait` (how long a due run may wait for a slot), and `Budget`, the number of
faults, crashes, manual runs, listings, edits, listed edits, deletions and stops; for a
session `MaxLag`, `MaxLog`, `MaxGoals` and `MaxActs` over the kinds of acts in `Acts`; for
the stream `MaxEvents`, `ReplayLimit`, `MaxBreaks`, `MaxDrops`, `MaxRebinds`.

| run | instance | shows |
|---|---|---|
| `lock_two_processes` | 2 processes × 2 writers, 1 crash | mutual exclusion, no leaked lock, releases remove only their own lock, every request settles, and the protocol implements `ConfigStore`, with a crash at any await |
| `lock_one_process` | 4 writers of one process, slow holders, 2 failed stamps, 1 crash | the promise chain alone keeps updates apart even when the lock file is stolen, and never wedges |
| `lock_stale_race` | 3 processes, 1 crash | **violated**: an update is lost (section 5) |
| `sched_claims` | 2 processes, one task, occurrences 1, 4, 7, slack 1, nothing later than 2 ticks; 1 fault, 1 crash, 1 manual run | an occurrence is dispatched at most once, `lastScheduledFor` never goes back, and the runtimes implement `OccurrenceDispatch` |
| `sched_late_claim` | 2 processes, 2 tasks, global limit 1, a due run may wait for a slot past the next occurrence | **violated**: an occurrence is claimed twice (section 5) |
| `sched_edits` | a once and an hourly task of one process, one slot per project; one listing, one edit, one listed edit, one deletion | slots, limits and the bookkeeping of queue and timers survive every order of edits and runs |
| `sched_faults` | the same tasks with two failed updates anywhere and a stop, under fairness | every run ends, the queue drains, an armed once task is claimed or shows an error |
| `session_automation` | one session, started without a goal or with one at any count; up to 5 messages, 2 events under way; one act of the environment anywhere: a message, an abort, a goal edit, a failed request, a stranded stream, a restart | recovery prompts are bounded and never doubled, continuations are bounded and never sent blind, an abort is respected, an active goal is not forgotten |
| `session_pause` | the same with one goal edit | **violated**: a paused goal is continued (section 5) |
| `browser_broker` | a desktop client, a browser tab, one pane, one request of any kind | one client acts, "nothing was changed" is true, every caller is answered, and the protocol implements `BrowserRequest` |
| `event_stream` | one page, 3 messages, a buffer of 2, 2 breaks upstream, 2 of the page (or slow sends, failed resyncs), 1 rebind | every event once and in order; gaps are announced; of the newest 2 messages (the tail of a resync) the page shows all but what `overlooked` excuses |
| `event_rebind` | the same | **violated**: a gap after a rebind is not announced (section 5) |

Why the bounds suffice for what they are meant to show.  The lock has one shared file and
no counter but `tries`; two turns of the loop already include "tried, failed, timed out"
and "recovered, tried again".  Two processes are the deployment the code is written for
(CLI and desktop), and the third of `lock_stale_race` is what changes the answer.  For
the claim, three occurrences give a past, a present and a next one, which is all
`lastScheduledFor` can confuse; two processes race, a crash and a fault hit every point
of a run.  `sched_edits` has one slot for two tasks, so entries are skipped and passed over.
Where runs of one process are checked, cross-process effects
are covered by the claim runs and by the theorems, which hold for any number of processes.
In `session_automation` the two runtimes and OpenCode run freely and the environment
interferes once, at every point; attempts and turns are bounded by one so that the bound is
reached and a further prompt would be seen, and five messages hold a prompt, its reply, an
automatic prompt, its reply and one more.  `browser_broker` needs one request because
requests share nothing but the streams, and two clients because a claim has a winner and a
loser; the theorems cover the rest.  In `event_stream` three messages overflow a buffer of
two and exceed the tail of two a resync reads, so that a page that misses all three keeps a
hole, and pages share nothing but the upstream.

Symmetry.  The claim runs permute the two processes: nothing in the modules or properties tells them apart, and no run with
symmetry checks liveness (`RefinesDispatch` and `LastForNeverGoesBack` are step
properties).

Fairness.  `ProjectLock`: pending I/O of a live process completes and its continuation
runs (weak fairness of each writer's own steps; not of requests, crashes or failures).
`ScheduledTasks`: time passes, the event loop turns (pump, due timers), updates return,
and a run in OpenCode ends because the code races it against a watchdog timer.  No
fairness is assumed of users, faults, crashes or shutdown.  `BrowserBroker`: only the timer
of a request fires in the end; clients owe nothing.  `EventStream`: the reader and the page
retry for ever, OpenCode is reachable in the end, and sent frames and answers arrive; breaks
and failures are bounded; a boot or a resync need not end.  `CHECK_DEADLOCK FALSE` is set
in all runs: when the budgets are spent and the clock has reached its bound, or every
writer has settled, nothing is left to do.

`AtMostOnce` is checked on the condition that no claim is later than the next occurrence
(`MaxLate`, `MaxQueueWait`); without it, it is false, as `sched_late_claim` shows.  `QueueDrains`
and `NoTaskForgotten` are checked, and the latter is proved, without the events that break
them and for which no document promises better (`runNow` does not pump; a failed sync leaves
timers cleared): `PROJECT.json` lists those as hazards without a property.  In the same way
`GoalNotForgotten` excludes wake-ups that were dropped (`missed`).  `MissedIsRefetched`
and `CatchesUp` are about the newest `ResyncLimit` messages (`Newest`) and exclude what a
ready frame told of that no read followed (`overlooked`, above), until a resync reads again.
Each of these excuses is needed: without the first connect, the boot, the resync that has
read, the one that is ending, the one that failed, or with all messages in the place of
`Newest`, TLC finds `MissedIsRefetched` violated.

Some hazards are reached only by theorems, as the bounds of the runs leave them out:
failed writes with `SlotsMatchRuns` (`SlotsCorrect`), manual runs with
`ScheduledWithinLimits` (`LimitsCorrect`), a task queued twice (`KeysCorrect`), and requests
of one process that overlap (`NothingForgotten`).

## 4. Proofs

All theorems hold for every value of the constants that satisfies the named assumptions
of the modules: `LockAssumption`; `ScheduledTasksAssumption`; `SessionAssumption`,
`RecoveryAssumption` and `GoalAssumption` (limits are positive, bounds are natural);
`DriversAssumption`, `NoViewAssumption` and `NobodyAssumption`; `StreamAssumption`.

### ProjectLock_proofs

* `ChainCorrect`, `TypeCorrect`: types, and that of the writers of a process only the
  head of its chain is under way.  Unconditional: through crashes, slow holders, failed
  stamps and stolen locks.  `ChainInv` is inductive by itself.
* `Exclusion`, `UpdatesKept`, `LocksReleased`, `OwnLockRemoved`, `Refinement`
  (`Spec => RefinesStore`), under `Recoverable`: no failed stamp, no holder slower than
  60 s, and no crash or at most two processes.  Each part is needed: with a failed stamp a
  file is left behind, with a slow holder its lock is stolen, and with a crash and three
  processes there is the race of section 5.
* `UpdatesKeptInProcess`, with one process: no update is lost whatever happens to the
  lock file.

The inductive invariant `LockInv` strengthens mutual exclusion by saying why it holds: a
writer between open and remove owns the lock file, and the file is stamped and not aged
when it must be (`Sound`); a lock file without a live owner belongs to a dead process
(`NotAbandoned`); a writer about to store has read the present config (`Fresh`).  The key
lemma is that a writer that may judge a lock stale is the only live process, so that
nobody can have put a fresh lock in its way between the test and the unlink.

### ScheduledTasks_proofs

* `TypeCorrect`: types, strengthened (`TypeInv`) by: a run in progress carries a task
  (`RunsCarryTasks`), and what a request is about to use is there (`HandlersReady`).
  Without these, `Latest` or a patch could yield a record of nothing.
* `SlotsCorrect`: slots are taken exactly while a run is in progress.  `SlotStep`
  summarises all thirty actions by four things a step may do to the slots of a process.
* `LimitsCorrect`: scheduled runs respect both limits; the same summary, with the
  cardinality facts.  The pump tests all running tasks, manual ones included, against the
  limits, and that is stronger than the invariant.
* `KeysCorrect`: queued keys have entries, by an argument about what `RemoveAt` keeps.
* `OnlyManualRunsStrand`, unconditional: a step leaves behind a queue entry that could start,
  with no pump under way (`Stranded`), only when it ends a manual run; and `QueueServed`:
  without manual runs there is never such an entry.  This is the safety core of
  `QueueDrains`, and the exact extent of the hazard that `runNow` does not pump.  `PumpInv`
  adds that one process pumps at a time and that a process that is not started has no
  timers and an empty queue, so that a start finds nothing.

### ScheduledClaims_proofs

* `ClaimedOnce` (`AtMostOnce`), `LastForNeverBack` (`LastForNeverGoesBack`) and
  `ImplementsDispatch` (`Spec => RefinesDispatch`), for any number of processes, tasks and
  occurrences, any slack, and any faults, crashes, stops, listings, manual runs and, where no
  schedule is of kind `once`, edits that create, enable, disable or reschedule tasks.

Two conditions, both needed.  `NoResets`: tasks start without runtime state and no request
puts state back or drops it.  Saving a task as it was listed writes back an old claim, and a
task deleted and saved again has none; consuming a once task writes the task as memory held
it, so with an edit in between it may undo a later claim, and without edits it must have a
single occurrence (hazards at `service.js:168` and `runtime.js:875`).  `ClaimsInTime`: a run
waits for its claim only until the next occurrence of a schedule the task may have
(`MayOcc`); without it there is the finding `sched_late_claim`.  The bounds `MaxLate` and
`MaxQueueWait` of the run `sched_claims` imply it there.

* `ProperInv`: whatever a process holds of a task (on disk, in memory, in a timer, a queue, a
  run, a listing or a save) carries a schedule it may have and their occurrences, and what is
  queued or waits for its claim is due.
* `BodiesClaimed`: while a scheduled run is in its session the claim is on disk and in the
  memory of its process.  So the copy of a once task that `Consume` writes back cannot
  undo a claim, and only `ClaimWins` moves `lastFor`.
* `Counted`: an occurrence that was claimed is not behind the stored one, and the stored one
  is in the past.  A claim of an occurrence already claimed would find the stored one equal
  to it, and lose, or beyond it: but then the next occurrence has passed.
* `RunsClaimed`: a scheduled run in its session has claimed its occurrence; every step but a
  claim only takes runs out of their session (`NobodyEnters`), and so maps to `End` or a
  stutter.

### ScheduledAttention_proofs

* `NothingForgottenWithoutEdits` (`NoTaskForgotten`), for any number of processes and through
  any listings, starts, manual runs, stops and crashes, if no config update throws and nobody
  edits tasks.
* `NothingForgotten` (`NoTaskForgotten`), for one process, through edits, edits from a listing
  and deletions as well, if no update throws and `RecordedInTime` holds throughout.

The conditions are the events that do break it in the code: a sync that throws leaves timers
cleared, and a process does not hear of the edits of another.  `RecordedInTime` says that the
completion write of a run that will arm no timer is done before a timer armed meanwhile comes
due, or before the last sync of the task.  The code chains the updates of one process in the
order of their requests, so that the write comes before any sync requested after it; the model
lets the updates go through in any order, so the condition is stated.  It holds in the run
`sched_edits` and is derived where nobody edits (`Settled`).

`NoTaskForgotten` accepts any request in progress as attention, and so is far from inductive.
The invariant says what each request will do:

* `Informed`: memory covers what is on disk (is enabled if that is, with the same schedule),
  or a listing of the project is still to come (`Pledged`).
* `Cared`: a task with an occurrence to come has a timer; or a listing is to come, or one in
  progress that knows the present schedule has still to arm it (`SyncDue`); or a run or an
  entry that will re-arm it.  A run that has computed that nothing is to come (`Closing`) does
  not count, which is why an edit during its completion write needs its own listing.

### BrowserBroker_proofs

* `TypeCorrect`, `OnlyOnePerforms`, `NothingChangedIsTrue`, `ImplementsRequest`, for any
  number of requests, clients and panes.

`IInv` strengthens the properties by why they hold: a client that holds a grant, acts, or
has a result under way is the grantee of the request, and so is every client that touched a
page (`GranteesAct`); a request has a grantee only once it was pending (`GrantedOnce`); a
success under way was finished (`SuccessFinished`).  The refinement follows action by
action: a claim maps to `Choose`, the end of the run to `Finish`, the rest to an answer or a
stutter.

### SessionAutomation_proofs

`TypeCorrect`, `AttemptsBounded`, `NeverPromptsTwice`, `ContinuationsBounded`,
`BlindnessBounded`, `AbortsRespected` and `GoalsNotForgotten`, for any limits of the two
runtimes and any number of messages, events, edits, failures and restarts.  The goal the
session starts with may be at any count below its limits.

* `TypeInv`: types, and that the streaks of every goal, stored or on its way to be, stay
  below the limits that would have settled it.
* `RecoveryInv`: between its count of the attempts and its post `recover` has room for one
  more prompt, and when it posts, the last message is not itself a recovery prompt; the
  messages that arrive in between can only take attempts away.
* `TurnsCounted`: no copy of the goal that a tick has read, or is about to write, is behind
  the continuations sent since the user last wrote the goal; a tick about to send one has
  written it down before.
* `FailuresCounted`: the same for `blind` and the failed audits.
* `ReplyKnown`: a tick that may continue judged a reply that had ended, and an aborted one
  only for a goal the user resumed; a reply that has ended stays as it is (`EndedStays`).
* `WatchInv`: an active goal on a session at rest has an event, a timer, a tick or an edit
  that will look at it (`PromptsWait`, `PromptsFollowed`, `EditOfGoal`, `Watched`).

`LogSteps` and `TickMoves` summarise what the steps do to the log and to a tick, so that
each invariant is shown once per summary and not once per action.

### EventStream_proofs

`TypeCorrect`, `SentInOrder`, `GapsAnnounced` and `MissesFetched`, for any number of pages
and events, any size of the replay buffer, and any number of breaks, drops and rebinds.

* `StreamInv` says of the frames under way to a page (`Orderly`): events are behind the
  last one the page saw and ascend, ready frames are behind the one it was told of last,
  and none is ahead of the stream; a socket that waits has been sent nothing since it
  asked (`Connected`), so its replay starts where the page is.  `InOrder` alone is not
  inductive: a replay may overlap only with what the page has, and that needs the
  buffer to ascend and `asked` to be the id the page still has.
* `GapInv`: until a rebind, a ready socket was made so by a hub that had connected, so the
  hub's next connection is announced to it.  A rebind breaks this conjunct,
  which is the finding `event_rebind`.
* `FetchInv`: a message of the newest `ResyncLimit` that passed a page by is in front of it: a
  ready frame, a resync that has yet to read, or one that read it; or it is not after
  `overlooked`.  The limit shrinks the claim and never the proof: as `now` grows, what is
  newest was newest before, or is new.  A ready frame that no read follows is not behind the
  one before it (`Orderly`), so `overlooked` covers all the page was told (`GapInv`), and it
  falls back to 0 only when a read covers the same.  `ReadyMoves` reduces the actions to four kinds of steps of a
  page with a ready socket.

### Only model-checked

Liveness (`EveryRequestSettles`, `RunsEnd`, `QueueDrains`, `ArmedOnceSettles`,
`EveryCallerAnswered`, `CatchesUp`), which the prover does not do.  `StopsMeanStop` and
`GapAnnounced` are false, see section 5; every other property of a run has a theorem.

## 5. Findings

1. **Stale recovery is not exclusive** (`lock_stale_race`).
   `scheduled-tasks/DOCUMENTATION.md:26-27` says the read-modify-write is serialized across
   processes.  Two processes that judge the lock of a dead one stale unlink one after the
   other; the second unlink removes the lock the first has just created; both read the same
   config and one update is lost.  It takes a crash and two live processes.
2. **A late claim repeats an occurrence** (`sched_late_claim`).
   `scheduled-tasks/DOCUMENTATION.md:16-17` gives the claim the purpose of not dispatching a
   slot twice.  The claim remembers only the last claimed occurrence, so a run that waited in
   the queue until after the next one was claimed elsewhere claims the old one again.

3. **A paused goal is continued** (`session_pause`).
   `session-goal/DOCUMENTATION.md:144-145` says that "stop" means stop on both axes.
   `writeGoal` compares only the id of the goal, so a tick that read the goal while it was
   active counts a turn on the goal it finds paused and sends its continuation.  The abort
   that goes with the pause finds no turn to stop.
4. **A gap after a managed restart is not announced** (`event_rebind`).
   `event-stream/DOCUMENTATION.md:45` says that pages that are ready get a fresh `ready`
   frame when the upstream reconnects.  `rebindUpstream` stops the hub, which forgets that it
   was connected; the next connection counts as its first, and pages that stayed connected
   are told nothing.  (Other events of the new OpenCode process may make a page load its
   state again; the contract quoted here does not hold.)

## 6. Not modelled

In the modelled components: loop files and `reconcileLoopTasks`; projects added or removed
while processes run; normalisation of names and prompts; the requests a timed-out run
leaves behind; pid reuse; time zones and the parsing of schedules; child sessions, objective
files and token counts of goals (an objective file that cannot be read, without an inline
objective, ends a tick silently); the server-owned browser (`headless-runtime.js`); the SSE
fallback with the resync at a switch of transport, directory sockets, synthetic events and
coalescing of the event stream; in a page the watchdog that resyncs a stale stream, the
directory bootstraps that `server.connected` or `global.disposed` cause, and initial loads and reloads of a
session, each of which can repair a gap; the generations and optimistic messages of the
message loader, and its coverage: a tail refresh keeps the cursor the page had, so the
messages of a hole older than the tail are not offered by "load older" either.

Small simplifications: a daily schedule whose times are over takes the first time of
tomorrow without the 5 s slack (`runtime.js:160-162`), which the model applies always; the
server's view of a client changes at once when its panel is mounted (`SetPanel`), while the
old connection is counted until its close event (`routes.js:182`).

Components without a module are in the table of section 1, with the reason in
`PROJECT.json`.  Most of the repository is presentation, translations and wrappers around
external programs, whose behaviour is input and output rather than state.
