--------------------------- MODULE BrowserRequest ---------------------------
(* What the browser-control broker promises the agent: of all the clients   *)
(* that hear of a request at most one is chosen to perform it, only while   *)
(* the caller still waits; the caller gets one answer; a success is only    *)
(* reported once the chosen client has finished.                            *)
CONSTANTS Requests, Clients, Nobody

VARIABLES answer,       \* answer[r]: what the caller of r got, or is waiting for
          performer,    \* performer[r]: the client chosen to perform r
          done          \* done[r]: the performer has finished

vars == <<answer, performer, done>>

Unperformed == {"timeout", "cancelled"}   \* answers that say nothing of the page

Init ==
  /\ answer = [r \in Requests |-> "unasked"]
  /\ performer = [r \in Requests |-> Nobody]
  /\ done = [r \in Requests |-> FALSE]

\* Nobody can serve the request, or its caller has already given up.
Refuse(r) ==
  /\ answer[r] = "unasked"
  /\ \E a \in {"nobody", "unstarted"} : answer' = [answer EXCEPT ![r] = a]
  /\ UNCHANGED <<performer, done>>

Ask(r) ==
  /\ answer[r] = "unasked"
  /\ answer' = [answer EXCEPT ![r] = "waiting"]
  /\ UNCHANGED <<performer, done>>

Choose(r, c) ==
  /\ answer[r] = "waiting"
  /\ performer[r] = Nobody
  /\ performer' = [performer EXCEPT ![r] = c]
  /\ UNCHANGED <<answer, done>>

\* The performer may finish after the caller has stopped waiting.
Finish(r) ==
  /\ performer[r] # Nobody
  /\ ~done[r]
  /\ done' = [done EXCEPT ![r] = TRUE]
  /\ UNCHANGED <<answer, performer>>

Answer(r, a) ==
  /\ answer[r] = "waiting"
  /\ a = "ok" => done[r]
  /\ a = "error" => performer[r] # Nobody
  /\ answer' = [answer EXCEPT ![r] = a]
  /\ UNCHANGED <<performer, done>>

Next ==
  \E r \in Requests :
    \/ Refuse(r)
    \/ Ask(r)
    \/ \E c \in Clients : Choose(r, c)
    \/ Finish(r)
    \/ \E a \in {"ok", "error"} \cup Unperformed : Answer(r, a)

Spec == Init /\ [][Next]_vars
=============================================================================
