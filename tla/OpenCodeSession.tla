--------------------------- MODULE OpenCodeSession ---------------------------
(***************************************************************************)
(* One top-level session of the OpenCode process, as far as the runtimes   *)
(* of the web server see it: its messages, the turn in progress, the goal  *)
(* in its metadata, and the events on their way to the server.  OpenCode   *)
(* itself is not part of the repository; what is modelled is what the code *)
(* of session-recovery and session-goal reads from it and sends to it.     *)
(*                                                                         *)
(* A message is its index in the log and its kind.  Messages are appended  *)
(* and never removed; only the assistant message of the turn in progress   *)
(* changes, once, when the turn ends.                                      *)
(***************************************************************************)
EXTENDS Integers, Sequences, FiniteSets, SequencesExt

CONSTANTS MaxLag,      \* events that may be under way to the server
          MaxLog,      \* messages of a session
          MaxGoals,    \* goals created for the session
          Acts,        \* what the environment may do
          MaxActs      \* how often it does

VARIABLES log,         \* the kinds of the messages, oldest first
          turn,        \* the assistant message being written, 0 if none
          goal,        \* metadata.openchamber.goal
          goalsMade,   \* goal ids handed out so far
          events,      \* events sent by OpenCode and not yet processed
          used         \* what the environment has done so far, counted

sessionVars == <<log, turn, goal, goalsMade, events, used>>

Human == {"ask"}                                   \* written by the user
Prompts == Human \cup {"continuation", "recovery"}
Visible == {"ask", "continuation"}                 \* not synthetic
Ended == {"done", "empty", "failed", "rejected", "aborted", "summary"}
Kinds == Prompts \cup Ended \cup {"open"}

\* "blocked" is budgetLimited too: both wait for the user to resume the goal.
Statuses == {"active", "paused", "blocked", "complete"}

\* resumed: the statusReason is 'resumed', the only one the code asks for.
NoGoal == [id |-> 0, status |-> "paused", resumed |-> FALSE, turns |-> 0,
           blocked |-> 0, failed |-> 0]

HasGoal == goal.id # 0

\* What a goal patch announces: a fresh or resumed active goal.
Kicks(g) == g.id # 0 /\ g.status = "active" /\ (g.turns = 0 \/ g.resumed)

EventKinds == {"prompt", "open", "idle", "aborted", "kickoff"}
ActKinds == {"ask", "abort", "edit", "touch", "fault", "crash", "lostIdle"}

ASSUME SessionAssumption ==
  /\ MaxLag \in Nat \ {0} /\ MaxLog \in Nat \ {0} /\ MaxGoals \in Nat \ {0}
  /\ Acts \subseteq ActKinds /\ MaxActs \in Nat

Tail1 == Len(log)                                  \* id of the newest message
TailKind == IF log = <<>> THEN "none" ELSE log[Tail1]

\* GET /session/status reports the session: a turn runs or a prompt waits.
Working == turn # 0 \/ TailKind \in Prompts

Spend(kind) == kind \in Acts /\ used < MaxActs /\ used' = used + 1

CanSend == Len(events) < MaxLag
Send(event) == events' = Append(events, event)

\* How a reply ended is asked only while it is the newest message.
Answered == [i \in DOMAIN log |-> IF log[i] \in Ended THEN "done" ELSE log[i]]

(***************************************************************************)
(* A prompt reaches OpenCode: the message is stored, and the session is    *)
(* reported busy.                                                          *)
(***************************************************************************)
PromptArrives(kind) ==
  /\ CanSend /\ Len(log) < MaxLog
  /\ log' = Append(Answered, kind)
  /\ Send("prompt")
  /\ UNCHANGED <<turn, goal, goalsMade>>

StartTurn ==
  /\ turn = 0 /\ TailKind \in Prompts
  /\ CanSend /\ Len(log) < MaxLog
  /\ log' = Append(log, "open")
  /\ turn' = Len(log')
  /\ Send("open")
  /\ UNCHANGED <<goal, goalsMade, used>>

\* A turn ends: message.updated, session.error if it failed, and idle, which
\* are one event here; an abort is told from the others by its message.
EndTurn(outcome) ==
  /\ turn # 0 /\ turn = Tail1
  /\ CanSend
  /\ log' = [log EXCEPT ![turn] = outcome]
  /\ turn' = 0
  /\ Send(IF outcome = "aborted" THEN "aborted" ELSE "idle")
  /\ UNCHANGED <<goal, goalsMade>>

TurnEnds == \E outcome \in Ended \ {"aborted"} : EndTurn(outcome) /\ UNCHANGED used

\* The user stops the turn.
Abort == Spend("abort") /\ EndTurn("aborted")

\* A prompt was queued behind the turn: it is answered next, with no idle.
TurnGoesOn ==
  /\ turn # 0 /\ turn # Tail1
  /\ log' = [log EXCEPT ![turn] = "done"]
  /\ turn' = 0
  /\ UNCHANGED <<goal, goalsMade, events, used>>

\* The stream dies without a finish marker and without any event.
TurnStrands ==
  /\ Spend("lostIdle")
  /\ turn # 0 /\ turn = Tail1
  /\ turn' = 0
  /\ UNCHANGED <<log, goal, goalsMade, events>>

Ask == Spend("ask") /\ PromptArrives("ask")

\* session.updated for another reason than a goal edit.
Touch ==
  /\ Kicks(goal) /\ CanSend
  /\ Spend("touch") /\ Send("kickoff")
  /\ UNCHANGED <<log, turn, goal, goalsMade>>

\* PATCH of the goal, and the session.updated it causes.
PatchGoal(g) ==
  /\ goal' = g
  /\ IF Kicks(g) THEN CanSend /\ Send("kickoff") ELSE UNCHANGED events
  /\ UNCHANGED <<log, turn>>

\* The server starts on a session whose goal, if it has one, is under way.
SessionInit ==
  /\ log = <<"ask">> /\ turn = 0
  /\ goalsMade = goal.id
  /\ events = <<"prompt">>
  /\ used = 0
=============================================================================
