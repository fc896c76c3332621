-------------------------- MODULE MCScheduledTasks --------------------------
(* Instances of ScheduledTasks for TLC: schedules, tasks, event budgets.    *)
EXTENDS ScheduledTasks

CONSTANTS i1, i2, h1, t1, t2, p1, hourly, once

MCKind == [s \in Schedules |->
             IF s = once THEN "once" ELSE "cron"]

\* The last occurrence of a recurring schedule lies beyond MaxNow.
MCOcc == [s \in Schedules |->
            IF s = once THEN {2} ELSE {1, 4, 7}]

NewTask(s) == [sched |-> s, enabled |-> TRUE, lastFor |-> NoTime,
               next |-> NoTime, status |-> "quiet"]

OneProject == [t \in Tasks |-> p1]

HourlyTasks == [t \in Tasks |-> NewTask(hourly)]
MixedTasks == [t \in Tasks |-> NewTask(IF t = t1 THEN once ELSE hourly)]

NoEvents == [e \in Events |-> 0]
ClaimEvents ==
  [NoEvents EXCEPT !["faults"] = 1, !["crashes"] = 1, !["manuals"] = 1]
EditEvents ==
  [NoEvents EXCEPT !["edits"] = 1, !["listedEdits"] = 1, !["deletes"] = 1,
                   !["lists"] = 1]
FaultEvents == [NoEvents EXCEPT !["faults"] = 2, !["stops"] = 1]

ProcessSymmetry == Permutations({i1, i2})
=============================================================================
