-------------------------- MODULE SessionAutomation --------------------------
(***************************************************************************)
(* What prompts a session without the user asking: the recovery runtime    *)
(* and the goal runtime of the web server, which listen to the same events *)
(* and act on the same session and know nothing of each other, and the     *)
(* user, who writes, stops turns and edits the goal from the UI.           *)
(***************************************************************************)
EXTENDS SessionRecovery, SessionGoal

VARIABLES ui,        \* the goal edit in progress: which, and the goal it read
          stopping   \* an abort request of the UI is on its way

vars == <<sessionVars, recoveryVars, goalVars, ui, stopping>>

GoalEdits == {"set", "edit", "pause", "resume", "clear"}
NoEdit == [op |-> "none", base |-> NoGoal]
Editing == ui.op # "none"

Init == GoalInit /\ SessionInit /\ RecoveryInit /\ ui = NoEdit /\ stopping = FALSE

(***************************************************************************)
(* The user and the UI                                                     *)
(***************************************************************************)
Reactivated(base) == [base EXCEPT !.status = "active", !.resumed = TRUE, !.blocked = 0]

EditedGoal(op, base) ==
  CASE op = "set"    -> [NoGoal EXCEPT !.id = goalsMade + 1, !.status = "active"]
    [] op = "edit"   -> Reactivated(base)
    [] op = "resume" -> [Reactivated(base) EXCEPT !.turns = 0]
    [] op = "pause"  -> [base EXCEPT !.status = "paused", !.resumed = FALSE, !.blocked = 0]
    [] op = "clear"  -> NoGoal

\* What the composer, the goal dialog and the goal row offer. (To mark a goal
\* complete is a status setSessionGoalStatus takes and no caller passes.)
Offered(op) ==
  CASE op = "set"    -> goalsMade < MaxGoals
    [] op = "edit"   -> HasGoal /\ goal.status # "complete"
    [] op = "pause"  -> HasGoal /\ goal.status = "active"
    [] op = "resume" -> HasGoal /\ goal.status \in {"paused", "blocked"}
    [] op = "clear"  -> HasGoal

\* patchSessionMetadata reads the session; a pause stops the turn meanwhile.
EditReads ==
  /\ ~Editing
  /\ Spend("edit")
  /\ \E op \in GoalEdits : /\ Offered(op)
                           /\ ui' = [op |-> op, base |-> goal]
                           /\ stopping' = (stopping \/ op = "pause")
  /\ UNCHANGED <<log, turn, goal, goalsMade, events, recoveryVars, goalVars>>

EditWrites ==
  /\ Editing
  /\ PatchGoal(EditedGoal(ui.op, ui.base))
  /\ goalsMade' = IF ui.op = "set" THEN goalsMade + 1 ELSE goalsMade
  /\ ui' = NoEdit
  /\ stopping' = (stopping \/ (ui.op = "clear" /\ ui.base.status = "active"))
  /\ spent' = IF Ticking THEN -1 ELSE 0
  /\ blind' = spent'
  /\ UNCHANGED <<used, recoveryVars, goalTimer, tick, missed>>

\* POST /session/:id/abort; without a turn it does nothing.
StopArrives ==
  /\ stopping
  /\ stopping' = FALSE
  /\ IF turn = 0 THEN UNCHANGED sessionVars ELSE EndTurn("aborted") /\ UNCHANGED used
  /\ UNCHANGED <<recoveryVars, goalVars, ui>>

(***************************************************************************)
(* The system                                                              *)
(***************************************************************************)
OpenCode == /\ StartTurn \/ TurnEnds \/ Abort \/ TurnGoesOn \/ TurnStrands \/ Ask \/ Touch
            /\ UNCHANGED <<recoveryVars, goalVars, ui, stopping>>

\* The event hub hands every event to both runtimes.
Deliver ==
  /\ events # <<>>
  /\ RecoveryHears(Head(events))
  /\ GoalHears(Head(events))
  /\ events' = Tail(events)
  /\ UNCHANGED <<log, turn, goal, goalsMade, used, ui, stopping>>

RecoveryThinks ==
  /\ \/ RecoveryTimerFires \/ RecoveryStatus \/ RecoveryRead \/ RecoveryReread
     \/ RecoveryPosted
  /\ UNCHANGED <<sessionVars, goalVars, ui, stopping>>

RecoveryActs == RecoveryPosts /\ UNCHANGED <<used, goalVars, ui, stopping>>

RecoveryFaults ==
  /\ RecoveryMalformed \/ RecoveryFails
  /\ UNCHANGED <<log, turn, goal, goalsMade, events, goalVars, ui, stopping>>

TickThinks ==
  /\ \/ GoalTimerFires \/ TickSession \/ TickStatus \/ TickRead \/ TickAudit
     \/ TickAuditFails \/ TickFresh \/ TickTail \/ TickPosted \/ PauseRead
  /\ UNCHANGED <<sessionVars, recoveryVars, ui, stopping>>

TickActs ==
  /\ \/ TickPatch
     \/ TickPosts /\ UNCHANGED used
  /\ UNCHANGED <<recoveryVars, ui, stopping>>

TickFaults ==
  /\ TickStatusFails \/ TickFails
  /\ UNCHANGED <<log, turn, goal, goalsMade, events, recoveryVars, ui, stopping>>

\* The web server dies and is started again; OpenCode and the UI go on.
Crash ==
  /\ Spend("crash")
  /\ RecoveryCrash /\ GoalCrash
  /\ events' = <<>>
  /\ UNCHANGED <<log, turn, goal, goalsMade, ui, stopping>>

Next == \/ OpenCode \/ Deliver \/ Crash
        \/ EditReads \/ EditWrites \/ StopArrives
        \/ RecoveryThinks \/ RecoveryActs \/ RecoveryFaults
        \/ TickThinks \/ TickActs \/ TickFaults

Spec == Init /\ [][Next]_vars

(***************************************************************************)
(* Properties                                                              *)
(***************************************************************************)
Goals == [id : 0 .. MaxGoals, status : Statuses, resumed : BOOLEAN,
          turns : Nat, blocked : 0 .. BlockedLimit, failed : 0 .. FailLimit]

TickPcs == {"none", "session", "status", "read", "audit", "fresh", "patch", "tail", "post",
            "sent", "pauseread"}

AutomationTypeOK ==
  /\ log \in Seq(Kinds) /\ Len(log) \in 1 .. MaxLog
  /\ turn \in 0 .. Len(log) /\ (turn # 0 => log[turn] = "open")
  /\ goal \in Goals /\ goalsMade \in 0 .. MaxGoals
  /\ events \in Seq(EventKinds) /\ Len(events) <= MaxLag
  /\ used \in 0 .. MaxActs
  /\ RecoveryTypeOK
  /\ goalTimer \in BOOLEAN /\ missed \in BOOLEAN
  /\ tick \in [pc : TickPcs, goal : Goals, tail : 0 .. MaxLog, next : Goals, fresh : Goals]
  /\ spent \in Int /\ blind \in Int
  /\ ui \in [op : GoalEdits \cup {"none"}, base : Goals] /\ stopping \in BOOLEAN

\* A recovery prompt is never sent twice for one failure: a request whose answer
\* was lost, or a restart, is not followed by another prompt until the assistant
\* has had its turn ("Do not automatically resend it and risk duplicating a side
\* effect", session-recovery/runtime.js:330).
NoDoubleRecovery ==
  \A i \in 1 .. Len(log) - 1 : ~(log[i] = "recovery" /\ log[i + 1] = "recovery")

\* However events, crashes and edits interleave with a tick, a goal the user
\* leaves alone is continued at most MaxAutoTurns times; a tick that was in
\* progress when the user last wrote the goal may add one.
NoRunaway == spent <= MaxAutoTurns

\* The agent is never sent on and on without a verdict: fewer than FailLimit
\* audits in a row fail and are followed by a continuation all the same.
NoBlindLoop == blind < FailLimit

\* A tick that is about to continue over a reply the user aborted had read a goal
\* the user resumed; the reply it judged was not one that could still be aborted.
AbortRespected ==
  (tick.pc \in {"tail", "post"} /\ log[tick.tail] = "aborted") => tick.goal.resumed

\* An active goal on a session that has come to rest has someone who will look at
\* it: an event under way, a timer or a tick, unless a wake-up was lost to a
\* failed request, a crash, or a tick that was in progress.
GoalNotForgotten ==
  (goal.status = "active" /\ turn = 0 /\ TailKind \in Ended /\ events = <<>>)
  => (goalTimer \/ Ticking \/ missed)

\* A tick that sent a continuation found the goal active when it wrote its turn
\* (session-goal/DOCUMENTATION.md: a pause and an abort both mean stop).
StopsMeanStop == tick.pc = "sent" => tick.fresh.status = "active"
=============================================================================
