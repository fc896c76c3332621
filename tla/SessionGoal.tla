----------------------------- MODULE SessionGoal -----------------------------
(***************************************************************************)
(* createSessionGoalRuntime for one session: after the session has been    *)
(* idle for a while, tick() audits the progress towards the goal in the    *)
(* session's metadata and either settles the goal or sends a continuation  *)
(* prompt; an abort by the user pauses the goal.                           *)
(*                                                                         *)
(* tick() and pauseAfterAbort() are split at their awaits.  Both take the  *)
(* session's place in inflight.  Child sessions are not modelled, nor are  *)
(* token counts: whether the budget is reached is a free choice.           *)
(***************************************************************************)
EXTENDS OpenCodeSession

CONSTANTS MaxAutoTurns,   \* MAX_AUTO_TURNS, 20
          BlockedLimit,   \* BLOCKED_STREAK_LIMIT, 3
          FailLimit       \* AUDIT_FAIL_LIMIT, 2

VARIABLES goalTimer,      \* timers has the session
          tick,           \* the tick or pauseAfterAbort in progress
          spent,          \* history: continuations since the user last wrote the goal,
                          \* without that of a tick then in progress
          blind,          \* history: of these, those since the last verdict whose
                          \* audit had failed
          missed          \* history: a wake-up was lost (to a request in progress,
                          \* a failed request or a crash)
goalVars == <<goalTimer, tick, spent, blind, missed>>

ASSUME GoalAssumption == MaxAutoTurns \in Nat \ {0} /\ BlockedLimit \in Nat \ {0} /\ FailLimit \in Nat \ {0}

\* goal: read at the start; next: the fields to write; fresh: the goal writeGoal read.
NoTick == [pc |-> "none", goal |-> NoGoal, tail |-> 0, next |-> NoGoal, fresh |-> NoGoal]
Ticking == tick.pc # "none"

GoalInit ==
  /\ \/ goal = NoGoal
     \/ \E t \in 0 .. MaxAutoTurns, f \in 0 .. FailLimit - 1 :
          goal = [NoGoal EXCEPT !.id = 1, !.status = "active", !.turns = t, !.failed = f]
  /\ goalTimer = FALSE /\ tick = NoTick
  /\ spent = goal.turns /\ blind = goal.failed /\ missed = FALSE

At(pc) == tick.pc = pc
GoTo(pc) == tick' = [tick EXCEPT !.pc = pc]
TickOnly == UNCHANGED <<goalTimer, spent, blind, missed>>
TickEnds == tick' = NoTick

(***************************************************************************)
(* processPayload                                                          *)
(***************************************************************************)
GoalHears(event) ==
  /\ CASE event = "prompt"  -> goalTimer' = FALSE /\ UNCHANGED <<tick, missed>>
       [] event = "open"    -> UNCHANGED <<goalTimer, tick, missed>>
       [] event = "aborted" ->
            /\ goalTimer' = TRUE
            /\ tick' = IF Ticking THEN tick ELSE [NoTick EXCEPT !.pc = "pauseread"]
            /\ UNCHANGED missed
       [] event = "idle"    -> goalTimer' = TRUE /\ UNCHANGED <<tick, missed>>
       [] event = "kickoff" ->
            /\ goalTimer' = (goalTimer \/ ~Ticking)
            /\ missed' = (missed \/ (Ticking /\ ~goalTimer))
            /\ UNCHANGED tick
  /\ UNCHANGED <<spent, blind>>

GoalTimerFires ==
  /\ goalTimer
  /\ goalTimer' = FALSE
  /\ IF Ticking THEN missed' = TRUE /\ UNCHANGED tick
     ELSE tick' = [NoTick EXCEPT !.pc = "session"] /\ UNCHANGED missed
  /\ UNCHANGED <<spent, blind>>

(***************************************************************************)
(* tick                                                                    *)
(***************************************************************************)
TickSession ==
  /\ At("session")
  /\ IF goal.status = "active" THEN tick' = [tick EXCEPT !.pc = "status", !.goal = goal]
                               ELSE TickEnds
  /\ TickOnly

TickStatus ==
  /\ At("status")
  /\ IF Working THEN TickEnds ELSE GoTo("read")
  /\ TickOnly

\* Mutant of TickStatusFails: gives up like any other failed request.
TickStatusFailsForGood ==
  /\ At("status")
  /\ Spend("fault")
  /\ TickEnds /\ TickOnly

\* The statuses could not be read: try again after another quiet window.
TickStatusFails ==
  /\ At("status")
  /\ Spend("fault")
  /\ goalTimer' = TRUE /\ TickEnds
  /\ UNCHANGED <<spent, blind, missed>>

\* What settleGoal and the abort path write; the counts of the goal stay.
Settle(status, g) == [g EXCEPT !.status = status, !.resumed = FALSE, !.blocked = 0, !.failed = 0]

\* Mutant of Quiet: does not ask whether the newest reply is finished.
QuietUnlessAsked == TailKind \notin Prompts

Quiet == TailKind \in Ended                        \* no user message, no unfinished reply
OutOfTurns == tick.goal.turns >= MaxAutoTurns      \* MAX_AUTO_TURNS reached

Unaudited == {"aborted", "summary"}                \* no evidence of progress

Decide(pc, next) == tick' = [tick EXCEPT !.pc = pc, !.tail = Tail1, !.next = next]

\* The last case may settle the goal because the token budget is reached, and
\* does so when the continuations are used up.
TickRead ==
  /\ At("read")
  /\ CASE ~Quiet -> TickEnds
       [] Quiet /\ TailKind = "aborted" /\ ~tick.goal.resumed ->
            Decide("fresh", [tick.goal EXCEPT !.status = "paused", !.resumed = FALSE])
       [] Quiet /\ TailKind \in {"failed", "rejected"} ->
            Decide("fresh", Settle("blocked", tick.goal))
       [] OTHER ->
            \/ Decide("fresh", Settle("blocked", tick.goal))
            \/ /\ ~OutOfTurns /\ TailKind \in Unaudited
               /\ Decide("fresh", [tick.goal EXCEPT !.resumed = FALSE])
            \/ /\ ~OutOfTurns /\ TailKind \notin Unaudited
               /\ Decide("audit", tick.goal)
  /\ TickOnly

\* What the audit makes of the goal; its streaks count, its turns do not.
Judged(next) == tick' = [tick EXCEPT !.pc = "fresh", !.next = next]

TickAudit ==
  /\ At("audit")
  /\ \/ Judged(Settle("complete", tick.next))
     \/ Judged([tick.next EXCEPT !.resumed = FALSE, !.failed = 0, !.blocked = 0])
     \/ Judged(IF tick.next.blocked + 1 >= BlockedLimit THEN Settle("blocked", tick.next)
               ELSE [tick.next EXCEPT !.resumed = FALSE, !.failed = 0, !.blocked = @ + 1])
  /\ blind' = 0
  /\ UNCHANGED <<goalTimer, spent, missed>>

\* Mutant of TickAuditFails: one failure more than FailLimit.
TickAuditFailsOnceMore ==
  /\ At("audit")
  /\ Judged(IF tick.next.failed + 1 > FailLimit THEN Settle("blocked", tick.next)
            ELSE [tick.next EXCEPT !.resumed = FALSE, !.blocked = 0, !.failed = @ + 1])
  /\ TickOnly

\* No small model, or no verdict in what it said.
TickAuditFails ==
  /\ At("audit")
  /\ Judged(IF tick.next.failed + 1 >= FailLimit THEN Settle("blocked", tick.next)
            ELSE [tick.next EXCEPT !.resumed = FALSE, !.blocked = 0, !.failed = @ + 1])
  /\ TickOnly

\* writeGoal reads the session again; a goal with another id is left alone.
TickFresh ==
  /\ At("fresh")
  /\ IF goal.id = tick.goal.id THEN tick' = [tick EXCEPT !.pc = "patch", !.fresh = goal]
                               ELSE TickEnds
  /\ TickOnly

Continuing == tick.next.status = "active"          \* the continue branch of tick

\* Mutant of Written: the continuation is not counted.
WrittenUncounted ==
  IF Continuing
  THEN [tick.next EXCEPT !.status = tick.fresh.status]
  ELSE IF tick.next.status = "paused"
       THEN [tick.fresh EXCEPT !.status = "paused", !.resumed = FALSE]
       ELSE Settle(tick.next.status, tick.fresh)

\* What mutate changes of the goal just read: settling writes a status and
\* pausing leaves the streaks; continuing writes no status and counts a turn.
Written ==
  IF Continuing
  THEN [tick.next EXCEPT !.status = tick.fresh.status, !.turns = tick.fresh.turns + 1]
  ELSE IF tick.next.status = "paused"
       THEN [tick.fresh EXCEPT !.status = "paused", !.resumed = FALSE]
       ELSE Settle(tick.next.status, tick.fresh)

TickPatch ==
  /\ At("patch")
  /\ PatchGoal(Written)
  /\ UNCHANGED <<goalsMade, used>>
  /\ IF Continuing THEN tick' = [tick EXCEPT !.pc = "tail", !.fresh = Written] ELSE TickEnds
  /\ TickOnly

TickTail ==
  /\ At("tail")
  /\ IF Tail1 = tick.tail THEN GoTo("post") ELSE TickEnds
  /\ TickOnly

TickPosts ==
  /\ At("post")
  /\ PromptArrives("continuation")
  /\ GoTo("sent")
  /\ spent' = spent + 1
  /\ blind' = IF tick.next.failed > tick.goal.failed THEN blind + 1 ELSE blind
  /\ UNCHANGED <<goalTimer, missed>>

TickPosted == At("sent") /\ TickEnds /\ TickOnly

(***************************************************************************)
(* pauseAfterAbort                                                         *)
(***************************************************************************)
PauseRead ==
  /\ At("pauseread")
  /\ IF goal.status = "active"
     THEN tick' = [tick EXCEPT !.pc = "fresh", !.goal = goal,
                               !.next = [goal EXCEPT !.status = "paused", !.resumed = FALSE]]
     ELSE TickEnds
  /\ TickOnly

\* Any other request fails: the tick is over, and nothing arms another one.
TickFails ==
  /\ tick.pc \in {"session", "read", "fresh", "patch", "tail", "post", "sent", "pauseread"}
  /\ Spend("fault")
  /\ TickEnds
  /\ missed' = TRUE
  /\ UNCHANGED <<goalTimer, spent, blind>>

GoalCrash == /\ goalTimer' = FALSE /\ TickEnds
             /\ missed' = TRUE
             /\ UNCHANGED <<spent, blind>>
=============================================================================
