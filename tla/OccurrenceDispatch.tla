------------------------ MODULE OccurrenceDispatch ------------------------
(***************************************************************************)
(* What the scheduled tasks runtimes promise together, however many server *)
(* processes share a project config: a schedule occurrence is dispatched   *)
(* at most once, never before its time, and by one process.                *)
(***************************************************************************)
EXTENDS Naturals

CONSTANTS Tasks, Times   \* the tasks and the occurrence times of schedules

VARIABLES
  now,                   \* the clock
  fate                   \* what has become of each occurrence of each task

dispatchVars == <<now, fate>>

Init ==
  /\ now = 0
  /\ fate = [t \in Tasks |-> [o \in Times |-> "open"]]

Advance ==
  /\ now' = now + 1
  /\ UNCHANGED fate

\* A process is given the occurrence to run.
Dispatch(t, o) ==
  /\ fate[t][o] = "open"
  /\ o <= now
  /\ fate' = [fate EXCEPT ![t][o] = "running"]
  /\ UNCHANGED now

\* Runs end: one by itself, all those of a process when it crashes.
End(S) ==
  /\ \A x \in S : fate[x[1]][x[2]] = "running"
  /\ fate' = [t \in Tasks |-> [o \in Times |->
                IF <<t, o>> \in S THEN "ended" ELSE fate[t][o]]]
  /\ UNCHANGED now

Next ==
  \/ Advance
  \/ \E t \in Tasks, o \in Times : Dispatch(t, o)
  \/ \E S \in SUBSET (Tasks \X Times) : End(S)

Spec == Init /\ [][Next]_dispatchVars
=============================================================================
