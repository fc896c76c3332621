---------------------------- MODULE ConfigStore ----------------------------
(***************************************************************************)
(* What a project config file promises to the code that writes it: the     *)
(* read-modify-write of every request is atomic.  A request either takes   *)
(* effect exactly once, on top of everything that took effect before it,   *)
(* or never.  ProjectLock is the lock protocol that is to implement this.  *)
(***************************************************************************)
CONSTANT Writers   \* the write requests, each made once

VARIABLES
  config,          \* the requests whose effect is in the file
  phase            \* what has become of each request

storeVars == <<config, phase>>

Init ==
  /\ config = {}
  /\ phase = [w \in Writers |-> "waiting"]

\* The request w takes effect on the current contents.
Apply(w) ==
  /\ phase[w] = "waiting"
  /\ config' = config \cup {w}
  /\ phase' = [phase EXCEPT ![w] = "applied"]

\* The requests in W end without effect: nothing to change, a lock timeout,
\* or the crash of the process that made them.
Drop(W) ==
  /\ \A w \in W : phase[w] = "waiting"
  /\ phase' = [w \in Writers |-> IF w \in W THEN "dropped" ELSE phase[w]]
  /\ UNCHANGED config

Next == (\E w \in Writers : Apply(w)) \/ (\E W \in SUBSET Writers : Drop(W))

Spec == Init /\ [][Next]_storeVars
=============================================================================
