---------------------- MODULE SessionAutomation_proofs ----------------------
(***************************************************************************)
(* Proofs about the automation of a session, for any number of messages,   *)
(* events, goals and faults, and for all limits of the two runtimes.       *)
(***************************************************************************)
EXTENDS SessionAutomation, FiniteSetTheorems, TLAPS

(***************************************************************************)
(* Types.  The streaks of a goal stay below their limits: a goal that      *)
(* reaches one is settled, which resets them.                              *)
(***************************************************************************)
OpenGoals == [id : 0 .. MaxGoals, status : Statuses, resumed : BOOLEAN,
              turns : Nat, blocked : 0 .. BlockedLimit - 1, failed : 0 .. FailLimit - 1]

LogOK == /\ log \in Seq(Kinds) /\ Len(log) \in 1 .. MaxLog
         /\ turn \in 0 .. Len(log) /\ (turn # 0 => log[turn] = "open")
EventsOK == events \in Seq(EventKinds) /\ Len(events) <= MaxLag
UsedOK == used \in 0 .. MaxActs
GoalOK == /\ goal \in OpenGoals /\ goalsMade \in 0 .. MaxGoals
          /\ ui \in [op : GoalEdits \cup {"none"}, base : OpenGoals]
          /\ ui.op = "set" => goalsMade < MaxGoals
          /\ stopping \in BOOLEAN
TickOK == /\ goalTimer \in BOOLEAN /\ missed \in BOOLEAN
          /\ tick \in [pc : TickPcs, goal : OpenGoals, tail : 0 .. MaxLog,
                       next : OpenGoals, fresh : OpenGoals]
          /\ spent \in Int /\ blind \in Int

TypeInv == LogOK /\ EventsOK /\ UsedOK /\ GoalOK /\ TickOK /\ RecoveryTypeOK

\* The type invariant of the model is a consequence.
LEMMA TypeInvIsStronger == TypeInv => AutomationTypeOK
<1>1. OpenGoals \subseteq Goals
  BY GoalAssumption DEF OpenGoals, Goals
<1>2. QED
  BY <1>1 DEF TypeInv, LogOK, EventsOK, UsedOK, GoalOK, TickOK, AutomationTypeOK

\* Asking how a reply ended only while it is the newest message keeps the log.
LEMMA AnsweredLog ==
  ASSUME log \in Seq(Kinds)
  PROVE  /\ Answered \in Seq(Kinds) /\ Len(Answered) = Len(log)
         /\ \A i \in 1 .. Len(log) :
              Answered[i] = IF log[i] \in Ended THEN "done" ELSE log[i]
BY DEF Answered, Kinds, Ended

LEMMA NoGoalType == NoGoal \in OpenGoals
BY SessionAssumption, GoalAssumption DEF NoGoal, OpenGoals, Statuses

LEMMA NoTickType ==
  NoTick \in [pc : TickPcs, goal : OpenGoals, tail : 0 .. MaxLog,
              next : OpenGoals, fresh : OpenGoals]
BY NoGoalType, SessionAssumption DEF NoTick, TickPcs

LEMMA InitType == Init => TypeInv
<1> SUFFICES ASSUME Init PROVE TypeInv
  OBVIOUS
<1>1. LogOK /\ EventsOK /\ UsedOK
  BY SessionAssumption
  DEF Init, SessionInit, LogOK, EventsOK, UsedOK, Kinds, Prompts, Human, EventKinds
<1>2. goal \in OpenGoals /\ goal.id \in 0 .. MaxGoals
  <2>1. CASE goal = NoGoal
    BY <2>1, NoGoalType, SessionAssumption DEF NoGoal
  <2>2. CASE goal # NoGoal
    <3>1. PICK t \in 0 .. MaxAutoTurns, f \in 0 .. FailLimit - 1 :
            goal = [NoGoal EXCEPT !.id = 1, !.status = "active", !.turns = t, !.failed = f]
      BY <2>2 DEF Init, GoalInit
    <3>2. goal = [id |-> 1, status |-> "active", resumed |-> FALSE, turns |-> t,
                  blocked |-> 0, failed |-> f]
      BY <3>1 DEF NoGoal
    <3>3. t \in Nat /\ 1 \in 0 .. MaxGoals /\ 0 \in 0 .. BlockedLimit - 1
      BY SessionAssumption, GoalAssumption
    <3>4. QED
      BY <3>2, <3>3 DEF OpenGoals, Statuses
  <2>3. QED
    BY <2>1, <2>2
<1>3. GoalOK
  BY <1>2, NoGoalType DEF Init, SessionInit, GoalOK, NoEdit, GoalEdits
<1>4. TickOK
  <2>1. spent \in Int /\ blind \in Int
    <3>1. spent = goal.turns /\ blind = goal.failed
      BY DEF Init, GoalInit
    <3>2. goal.turns \in Nat /\ goal.failed \in 0 .. FailLimit - 1
      BY <1>2 DEF OpenGoals
    <3>3. QED
      BY <3>1, <3>2, GoalAssumption
  <2>2. QED
    BY <2>1, NoTickType DEF Init, GoalInit, TickOK
<1>5. RecoveryTypeOK
  <2>1. 0 \in 0 .. MaxLog /\ 0 \in 0 .. MaxBusyRechecks
    BY SessionAssumption, RecoveryAssumption
  <2>2. QED
    BY <2>1 DEF Init, RecoveryInit, RecoveryTypeOK, NoRecovery
<1>6. QED
  BY <1>1, <1>3, <1>4, <1>5 DEF TypeInv

(***************************************************************************)
(* What a step may do to the log.                                          *)
(***************************************************************************)
Prompted(kind) == /\ Len(log) < MaxLog
                  /\ log' = Append(Answered, kind) /\ turn' = turn
Opened == /\ Len(log) < MaxLog
          /\ log' = Append(log, "open") /\ turn = 0 /\ turn' = Len(log) + 1
Replied(outcome) == /\ turn # 0 /\ turn = Len(log) /\ turn' = 0
                    /\ log' = [log EXCEPT ![turn] = outcome]
                    /\ \E event \in {"idle", "aborted"} : events' = Append(events, event)
WentOn == /\ turn # 0 /\ turn # Len(log) /\ turn' = 0
          /\ log' = [log EXCEPT ![turn] = "done"]
Stranded == turn # 0 /\ turn = Len(log) /\ log' = log /\ turn' = 0

\* A step leaves the log and the turn alone, or it does one of these things; a
\* recovery prompt is sent by recover() alone, after its second look at the log.
LEMMA LogSteps ==
  ASSUME LogOK, [Next]_vars
  PROVE  \/ UNCHANGED <<log, turn>>
         \/ \E kind \in {"ask", "continuation"} : Prompted(kind) /\ UNCHANGED rec
         \/ Prompted("recovery") /\ RecoveryActs
         \/ Opened /\ UNCHANGED rec
         \/ \E outcome \in Ended : Replied(outcome) /\ UNCHANGED rec
         \/ WentOn /\ UNCHANGED rec
         \/ Stranded /\ UNCHANGED rec
<1>1. CASE OpenCode
  <2>1. UNCHANGED rec
    BY <1>1 DEF OpenCode, recoveryVars
  <2>2. CASE StartTurn
    BY <2>1, <2>2 DEF LogOK, StartTurn, Opened
  <2>3. CASE TurnEnds
    BY <2>1, <2>3 DEF TurnEnds, EndTurn, Replied, Tail1, Send
  <2>4. CASE Abort
    BY <2>1, <2>4 DEF Abort, EndTurn, Replied, Tail1, Ended, Send
  <2>5. CASE TurnGoesOn
    BY <2>1, <2>5 DEF TurnGoesOn, WentOn, Tail1
  <2>6. CASE TurnStrands
    BY <2>1, <2>6 DEF TurnStrands, Stranded, Tail1
  <2>7. CASE Ask
    BY <2>1, <2>7 DEF Ask, PromptArrives, Prompted
  <2>8. CASE Touch
    BY <2>8 DEF Touch
  <2>9. QED
    BY <1>1, <2>2, <2>3, <2>4, <2>5, <2>6, <2>7, <2>8 DEF OpenCode
<1>2. CASE Deliver \/ Crash \/ EditReads \/ RecoveryFaults \/ TickFaults
  BY <1>2 DEF Deliver, Crash, EditReads, RecoveryFaults, TickFaults
<1>3. CASE EditWrites
  BY <1>3 DEF EditWrites, PatchGoal
<1>4. CASE StopArrives
  BY <1>4 DEF StopArrives, EndTurn, Replied, Tail1, sessionVars, recoveryVars, Ended, Send
<1>5. CASE RecoveryThinks \/ TickThinks
  BY <1>5 DEF RecoveryThinks, TickThinks, sessionVars
<1>6. CASE RecoveryActs
  BY <1>6 DEF RecoveryActs, RecoveryPosts, PromptArrives, Prompted
<1>7. CASE TickActs
  BY <1>7 DEF TickActs, TickPatch, TickPosts, PatchGoal, PromptArrives, Prompted, recoveryVars
<1>8. CASE UNCHANGED vars
  BY <1>8 DEF vars, sessionVars
<1>9. QED
  BY <1>1, <1>2, <1>3, <1>4, <1>5, <1>6, <1>7, <1>8 DEF Next

\* The log keeps its type.
LEMMA LogType ==
  ASSUME LogOK, [Next]_vars
  PROVE  LogOK'
<1> USE SessionAssumption DEF LogOK
<1>1. CASE UNCHANGED <<log, turn>> \/ Stranded
  BY <1>1 DEF Stranded
<1>2. ASSUME NEW kind \in Prompts, Prompted(kind)
      PROVE  LogOK'
  BY <1>2, AnsweredLog DEF Prompted, Kinds, Ended
<1>3. CASE Opened
  BY <1>3 DEF Opened, Kinds
<1>4. ASSUME NEW outcome \in Ended,
             Replied(outcome) \/ WentOn
      PROVE  LogOK'
  BY <1>4 DEF Replied, WentOn, Kinds, Ended
<1>5. QED
  BY <1>1, <1>2, <1>3, <1>4, LogSteps DEF Prompts, Human, Ended

\* A step sends one event at most; only the hub and a crash take events away.
LEMMA EventSteps ==
  ASSUME [Next]_vars
  PROVE  \/ UNCHANGED events
         \/ /\ CanSend
            /\ \E event \in EventKinds :
                 /\ events' = Append(events, event)
                 /\ event = "prompt" => \E kind \in Prompts : Prompted(kind)
         \/ Deliver
         \/ Crash
<1>1. CASE OpenCode
  <2>1. CASE Ask
    BY <2>1 DEF Ask, PromptArrives, Prompted, Prompts, Human, Send, EventKinds
  <2>2. CASE StartTurn \/ TurnEnds \/ Abort \/ TurnGoesOn \/ TurnStrands \/ Touch
    BY <2>2
    DEF StartTurn, TurnEnds, Abort, EndTurn, TurnGoesOn, TurnStrands, Touch, Send, EventKinds
  <2>3. QED
    BY <1>1, <2>1, <2>2 DEF OpenCode
<1>2. CASE EditReads \/ RecoveryThinks \/ RecoveryFaults \/ TickThinks \/ TickFaults
  BY <1>2 DEF EditReads, RecoveryThinks, RecoveryFaults, TickThinks, TickFaults, sessionVars
<1>3. CASE EditWrites \/ TickActs
  BY <1>3
  DEF EditWrites, TickActs, TickPatch, TickPosts, PatchGoal, PromptArrives, Prompted, Prompts,
      Send, EventKinds
<1>4. CASE StopArrives \/ RecoveryActs
  BY <1>4
  DEF StopArrives, EndTurn, RecoveryActs, RecoveryPosts, PromptArrives, Prompted, Prompts,
      Send, EventKinds, sessionVars
<1>5. CASE UNCHANGED vars
  BY <1>5 DEF vars, sessionVars
<1>6. QED
  BY <1>1, <1>2, <1>3, <1>4, <1>5 DEF Next

LEMMA EventsType ==
  ASSUME EventsOK, [Next]_vars
  PROVE  EventsOK'
<1>1. CASE UNCHANGED events
  BY <1>1 DEF EventsOK
<1>2. ASSUME NEW event \in EventKinds, CanSend, events' = Append(events, event)
      PROVE  EventsOK'
  BY <1>2, SessionAssumption DEF EventsOK, CanSend
<1>3. CASE Deliver
  <2>1. /\ events' = Tail(events) /\ events # <<>>
        /\ events \in Seq(EventKinds) /\ Len(events) <= MaxLag
    BY <1>3 DEF EventsOK, Deliver
  <2>2. Tail(events) \in Seq(EventKinds) /\ Len(Tail(events)) = Len(events) - 1
    BY <2>1
  <2>3. QED
    BY <2>1, <2>2, SessionAssumption DEF EventsOK
<1>4. CASE Crash
  BY <1>4, SessionAssumption DEF EventsOK, Crash
<1>5. QED
  BY <1>1, <1>2, <1>3, <1>4, EventSteps

\* The environment acts MaxActs times at most.
LEMMA UsedType ==
  ASSUME UsedOK, [Next]_vars
  PROVE  UsedOK'
<1>1. UNCHANGED used \/ (used < MaxActs /\ used' = used + 1)
  <2>1. CASE OpenCode
    BY <2>1
    DEF OpenCode, StartTurn, TurnEnds, Abort, EndTurn, TurnGoesOn, TurnStrands, Ask,
        PromptArrives, Touch, Spend
  <2>2. CASE Deliver \/ Crash \/ EditReads \/ EditWrites \/ StopArrives
    BY <2>2 DEF Deliver, Crash, EditReads, EditWrites, StopArrives, Spend, sessionVars
  <2>3. CASE RecoveryThinks \/ RecoveryActs \/ RecoveryFaults
    BY <2>3
    DEF RecoveryThinks, RecoveryActs, RecoveryFaults, RecoveryMalformed,
        RecoveryFails, Spend, sessionVars
  <2>4. CASE TickThinks \/ TickActs \/ TickFaults
    BY <2>4
    DEF TickThinks, TickActs, TickPatch, TickFaults, TickStatusFails, TickFails, Spend,
        sessionVars
  <2>5. CASE UNCHANGED vars
    BY <2>5 DEF vars, sessionVars
  <2>6. QED
    BY <2>1, <2>2, <2>3, <2>4, <2>5 DEF Next
<1>2. QED
  BY <1>1, SessionAssumption DEF UsedOK

\* The event the hub hands on is one of those the runtimes know.
LEMMA HeadType ==
  ASSUME EventsOK, events # <<>>
  PROVE  Head(events) \in EventKinds
BY DEF EventsOK

\* recover() keeps its types, and its checks within MaxBusyRechecks.
LEMMA RecoveryType ==
  ASSUME LogOK, EventsOK, RecoveryTypeOK, [Next]_vars
  PROVE  RecoveryTypeOK'
<1> USE SessionAssumption, RecoveryAssumption DEF RecoveryTypeOK
<1>1. NoRecovery \in [pc : {"none", "status", "read", "reread", "post", "sent"},
                     check : BOOLEAN, tail : 0 .. MaxLog]
      /\ 0 \in 0 .. MaxBusyRechecks /\ Len(log) \in 0 .. MaxLog
  BY DEF NoRecovery, LogOK
<1>2. CASE UNCHANGED recoveryVars
  BY <1>2 DEF recoveryVars
<1>3. CASE Deliver
  BY <1>1, <1>3, HeadType DEF Deliver, RecoveryHears, RecoveryHearsPrompt, EventKinds
<1>4. CASE RecoveryTimerFires
  BY <1>1, <1>4 DEF RecoveryTimerFires, NoRecovery
<1>5. CASE CheckLater \/ RecoveryEnds
  BY <1>1, <1>5 DEF CheckLater, RecoveryEnds
<1>6. ASSUME NEW pc \in {"read", "post", "sent"}, GoOn(pc)
      PROVE  RecoveryTypeOK'
  BY <1>6 DEF GoOn
<1>7. CASE RecoveryRead
  BY <1>1, <1>5, <1>7 DEF RecoveryRead, Tail1
<1>8. CASE RecoveryThinks
  BY <1>4, <1>5, <1>6, <1>7, <1>8
  DEF RecoveryThinks, RecoveryStatus, RecoveryReread, RecoveryPosted
<1>9. CASE RecoveryActs
  BY <1>6, <1>9 DEF RecoveryActs, RecoveryPosts
<1>10. CASE RecoveryFaults
  BY <1>1, <1>5, <1>10 DEF RecoveryFaults, RecoveryMalformed, RecoveryFails
<1>11. CASE Crash
  BY <1>1, <1>11 DEF Crash, RecoveryCrash
<1>12. QED
  BY <1>2, <1>3, <1>8, <1>9, <1>10, <1>11
  DEF Next, OpenCode, EditReads, EditWrites, StopArrives, TickThinks, TickActs, TickFaults,
      vars

\* What settling a goal and writing it back yield has the type of a goal.
LEMMA ZeroType == /\ 0 \in 0 .. BlockedLimit - 1 /\ 0 \in 0 .. FailLimit - 1
                  /\ 0 \in 0 .. MaxGoals /\ 0 \in Nat
BY GoalAssumption, SessionAssumption

LEMMA SettleType ==
  ASSUME NEW g \in OpenGoals, NEW status \in Statuses
  PROVE  Settle(status, g) \in OpenGoals
BY ZeroType DEF Settle, OpenGoals

LEMMA WrittenType ==
  ASSUME TickOK
  PROVE  Written \in OpenGoals
<1>1. tick.next \in OpenGoals /\ tick.fresh \in OpenGoals
  BY DEF TickOK
<1>2. tick.fresh.status \in Statuses /\ tick.fresh.turns + 1 \in Nat
      /\ tick.next.status \in Statuses
  BY <1>1 DEF OpenGoals
<1>3. [tick.next EXCEPT !.status = tick.fresh.status, !.turns = tick.fresh.turns + 1]
        \in OpenGoals
  BY <1>1, <1>2 DEF OpenGoals
<1>4. [tick.fresh EXCEPT !.status = "paused", !.resumed = FALSE] \in OpenGoals
  BY <1>1 DEF OpenGoals, Statuses
<1>5. QED
  BY <1>1, <1>2, <1>3, <1>4, SettleType DEF Written

\* The goal and the edit of it keep their types.
LEMMA GoalType ==
  ASSUME GoalOK, TickOK, [Next]_vars
  PROVE  GoalOK'
<1>1. CASE UNCHANGED <<goal, goalsMade, ui, stopping>>
  BY <1>1 DEF GoalOK
<1>2. CASE EditReads
  <2>1. PICK op \in GoalEdits : /\ Offered(op) /\ ui' = [op |-> op, base |-> goal]
                                /\ stopping' = (stopping \/ op = "pause")
    BY <1>2 DEF EditReads
  <2>2. op = "set" => goalsMade < MaxGoals
    BY <2>1 DEF Offered
  <2>3. QED
    BY <1>2, <2>1, <2>2 DEF EditReads, GoalOK
<1>3. CASE EditWrites
  <2>1. /\ ui.op \in GoalEdits /\ ui.base \in OpenGoals
        /\ goalsMade \in 0 .. MaxGoals
        /\ ui.op = "set" => goalsMade < MaxGoals
    BY <1>3 DEF EditWrites, Editing, GoalOK
  <2>2. Reactivated(ui.base) \in OpenGoals
    BY <2>1, ZeroType DEF Reactivated, OpenGoals, Statuses
  <2>3. EditedGoal(ui.op, ui.base) \in OpenGoals
    <3>1. CASE ui.op = "set"
      <4>1. goalsMade + 1 \in 0 .. MaxGoals
        BY <2>1, <3>1, SessionAssumption
      <4>2. QED
        BY <3>1, <4>1, NoGoalType DEF EditedGoal, OpenGoals, Statuses
    <3>2. CASE ui.op = "resume"
      BY <2>2, <3>2, ZeroType DEF EditedGoal, OpenGoals
    <3>3. CASE ui.op = "pause"
      BY <2>1, <3>3, ZeroType DEF EditedGoal, OpenGoals, Statuses
    <3>4. CASE ui.op \in {"edit", "clear"}
      BY <2>2, <3>4, NoGoalType DEF EditedGoal
    <3>5. QED
      BY <2>1, <3>1, <3>2, <3>3, <3>4 DEF GoalEdits
  <2>4. goalsMade' \in 0 .. MaxGoals
    BY <1>3, <2>1, SessionAssumption DEF EditWrites
  <2>5. QED
    BY <1>3, <2>3, <2>4, NoGoalType DEF EditWrites, PatchGoal, GoalOK, NoEdit
<1>4. CASE StopArrives
  BY <1>4 DEF StopArrives, EndTurn, GoalOK, sessionVars
<1>5. CASE TickActs
  BY <1>5, WrittenType DEF TickActs, TickPatch, TickPosts, PatchGoal, PromptArrives, GoalOK
<1>6. CASE OpenCode
  BY <1>1, <1>6
  DEF OpenCode, StartTurn, TurnEnds, Abort, EndTurn, TurnGoesOn, TurnStrands, Ask,
      PromptArrives, Touch
<1>7. CASE RecoveryThinks \/ RecoveryActs \/ RecoveryFaults \/ TickThinks \/ TickFaults
  BY <1>1, <1>7
  DEF RecoveryThinks, RecoveryActs, RecoveryPosts, PromptArrives, RecoveryFaults,
      TickThinks, TickFaults, sessionVars
<1>8. CASE Deliver \/ Crash \/ UNCHANGED vars
  BY <1>1, <1>8 DEF Deliver, Crash, vars, sessionVars
<1>9. QED
  BY <1>2, <1>3, <1>4, <1>5, <1>6, <1>7, <1>8 DEF Next

(***************************************************************************)
(* The steps of tick(): the other steps leave it alone, but for the user's *)
(* edits, which change the history variables.                              *)
(***************************************************************************)
\* A step of something else than the goal runtime leaves the runtime alone.
LEMMA GoalRuntimeSteps ==
  ASSUME [Next]_vars
  PROVE  \/ UNCHANGED goalVars
         \/ EditWrites
         \/ Deliver \/ Crash
         \/ TickThinks \/ TickActs \/ TickFaults
BY DEF Next, OpenCode, EditReads, StopArrives, RecoveryThinks, RecoveryActs,
       RecoveryFaults, vars

\* A step of the goal that is neither the user's nor a tick's leaves it alone.
LEMMA GoalSteps ==
  ASSUME [Next]_vars
  PROVE  UNCHANGED goal \/ EditWrites \/ TickPatch
<1>1. CASE OpenCode
  BY <1>1
  DEF OpenCode, StartTurn, TurnEnds, Abort, EndTurn, TurnGoesOn, TurnStrands, Ask,
      PromptArrives, Touch
<1>2. CASE TickActs \/ RecoveryActs \/ StopArrives
  BY <1>2
  DEF TickActs, TickPosts, RecoveryActs, RecoveryPosts, PromptArrives, StopArrives, EndTurn,
      sessionVars
<1>3. QED
  BY <1>1, <1>2
  DEF Next, Deliver, Crash, EditReads, RecoveryThinks, RecoveryFaults, TickThinks, TickFaults,
      vars, sessionVars

\* An audit, or the lack of one, yields a goal with its streaks below the limits.
LEMMA AuditedType ==
  ASSUME TickOK, TickAudit \/ TickAuditFails
  PROVE  \E next \in OpenGoals : tick' = [tick EXCEPT !.pc = "fresh", !.next = next]
<1> DEFINE g == tick.next
<1>1. g \in OpenGoals /\ g.blocked \in 0 .. BlockedLimit - 1 /\ g.failed \in 0 .. FailLimit - 1
  BY DEF TickOK, OpenGoals
<1>2. Settle("complete", g) \in OpenGoals /\ Settle("blocked", g) \in OpenGoals
  BY <1>1, SettleType DEF Statuses
<1>3. [g EXCEPT !.resumed = FALSE, !.failed = 0, !.blocked = 0] \in OpenGoals
  BY <1>1, ZeroType DEF OpenGoals
<1>4. ASSUME g.blocked + 1 < BlockedLimit
      PROVE  [g EXCEPT !.resumed = FALSE, !.failed = 0, !.blocked = @ + 1] \in OpenGoals
  <2>1. g.blocked + 1 \in 0 .. BlockedLimit - 1
    BY <1>1, <1>4, GoalAssumption
  <2>2. QED
    BY <1>1, <2>1, ZeroType DEF OpenGoals
<1>5. ASSUME g.failed + 1 < FailLimit
      PROVE  [g EXCEPT !.resumed = FALSE, !.blocked = 0, !.failed = @ + 1] \in OpenGoals
  <2>1. g.failed + 1 \in 0 .. FailLimit - 1
    BY <1>1, <1>5, GoalAssumption
  <2>2. QED
    BY <1>1, <2>1, ZeroType DEF OpenGoals
<1>6. CASE TickAudit
  <2>1. (IF g.blocked + 1 >= BlockedLimit THEN Settle("blocked", g)
         ELSE [g EXCEPT !.resumed = FALSE, !.failed = 0, !.blocked = @ + 1]) \in OpenGoals
    <3>1. CASE g.blocked + 1 >= BlockedLimit
      BY <1>2, <3>1
    <3>2. CASE ~(g.blocked + 1 >= BlockedLimit)
      BY <1>1, <1>4, <3>2, GoalAssumption
    <3>3. QED
      BY <3>1, <3>2
  <2>2. QED
    BY <1>2, <1>3, <1>6, <2>1, Zenon DEF TickAudit, Judged
<1>7. CASE TickAuditFails
  <2>1. (IF g.failed + 1 >= FailLimit THEN Settle("blocked", g)
         ELSE [g EXCEPT !.resumed = FALSE, !.blocked = 0, !.failed = @ + 1]) \in OpenGoals
    <3>1. CASE g.failed + 1 >= FailLimit
      BY <1>2, <3>1
    <3>2. CASE ~(g.failed + 1 >= FailLimit)
      BY <1>1, <1>5, <3>2, GoalAssumption
    <3>3. QED
      BY <3>1, <3>2
  <2>2. QED
    BY <1>7, <2>1, Zenon DEF TickAuditFails, Judged
<1>8. QED
  BY <1>6, <1>7

\* tick() keeps its types.
LEMMA TickType ==
  ASSUME LogOK, EventsOK, GoalOK, TickOK, [Next]_vars
  PROVE  TickOK'
<1> DEFINE Ticks == [pc : TickPcs, goal : OpenGoals, tail : 0 .. MaxLog,
                     next : OpenGoals, fresh : OpenGoals]
<1>1. /\ tick \in Ticks /\ goal \in OpenGoals
      /\ goalTimer \in BOOLEAN /\ missed \in BOOLEAN /\ spent \in Int /\ blind \in Int
      /\ Tail1 \in 0 .. MaxLog
  BY SessionAssumption DEF TickOK, GoalOK, LogOK, Tail1
<1>2. NoTick \in Ticks
  BY NoTickType
<1>3. ASSUME NEW pc \in TickPcs
      PROVE  /\ [tick EXCEPT !.pc = pc] \in Ticks
             /\ [NoTick EXCEPT !.pc = pc] \in Ticks
  BY <1>1, <1>2
<1>4. ASSUME NEW pc \in TickPcs, NEW next \in OpenGoals
      PROVE  [tick EXCEPT !.pc = pc, !.tail = Tail1, !.next = next] \in Ticks
  BY <1>1
<1>5. ASSUME NEW next \in OpenGoals
      PROVE  [tick EXCEPT !.pc = "fresh", !.next = next] \in Ticks
  BY <1>1 DEF TickPcs
<1>6. CASE UNCHANGED goalVars
  BY <1>6 DEF goalVars, TickOK
<1>7. CASE EditWrites
  BY <1>1, <1>7 DEF EditWrites, TickOK
<1>8. CASE Deliver
  <2>1. Head(events) \in EventKinds
    BY <1>8, HeadType DEF Deliver
  <2>2. [NoTick EXCEPT !.pc = "pauseread"] \in Ticks
    BY <1>3 DEF TickPcs
  <2>3. /\ tick' \in Ticks
        /\ UNCHANGED <<spent, blind>>
    BY <1>1, <1>8, <2>1, <2>2 DEF Deliver, GoalHears, EventKinds
  <2>4. goalTimer' \in BOOLEAN /\ missed' \in BOOLEAN
    BY <1>1, <1>8, <2>1 DEF Deliver, GoalHears, EventKinds
  <2>5. QED
    BY <1>1, <2>3, <2>4 DEF TickOK
<1>9. CASE Crash
  BY <1>1, <1>2, <1>9 DEF Crash, GoalCrash, TickEnds, TickOK
<1>10. CASE TickThinks
  <2>1. CASE GoalTimerFires
    <3>1. tick' \in Ticks /\ missed' \in BOOLEAN
      <4>1. CASE Ticking
        BY <1>1, <2>1, <4>1 DEF GoalTimerFires
      <4>2. CASE ~Ticking
        BY <1>1, <1>3, <2>1, <4>2 DEF GoalTimerFires, TickPcs
      <4>3. QED
        BY <4>1, <4>2
    <3>2. QED
      BY <1>1, <2>1, <3>1 DEF GoalTimerFires, TickOK
  <2>2. CASE TickSession
    <3>1. [tick EXCEPT !.pc = "status", !.goal = goal] \in Ticks
      BY <1>1 DEF TickPcs
    <3>2. QED
      BY <1>1, <1>2, <2>2, <3>1 DEF TickSession, TickEnds, TickOnly, TickOK
  <2>3. CASE TickStatus \/ TickTail \/ TickPosted
    BY <1>1, <1>2, <1>3, <2>3
    DEF TickStatus, TickTail, TickPosted, TickEnds, GoTo, TickOnly, TickOK, TickPcs
  <2>4. CASE TickRead
    <3>1. [tick.goal EXCEPT !.status = "paused", !.resumed = FALSE] \in OpenGoals
      BY <1>1 DEF OpenGoals, Statuses
    <3>2. Settle("blocked", tick.goal) \in OpenGoals
      BY <1>1, SettleType DEF Statuses
    <3>3. [tick.goal EXCEPT !.resumed = FALSE] \in OpenGoals
      BY <1>1 DEF OpenGoals
    <3>4. tick' \in Ticks
      <4>1. \/ TickEnds
            \/ Decide("fresh", [tick.goal EXCEPT !.status = "paused", !.resumed = FALSE])
            \/ Decide("fresh", Settle("blocked", tick.goal))
            \/ Decide("fresh", [tick.goal EXCEPT !.resumed = FALSE])
            \/ Decide("audit", tick.goal)
        BY <2>4 DEF TickRead
      <4>2. "fresh" \in TickPcs /\ "audit" \in TickPcs /\ tick.goal \in OpenGoals
        BY <1>1 DEF TickPcs
      <4>3. ASSUME NEW pc \in TickPcs, NEW next \in OpenGoals, Decide(pc, next)
            PROVE  tick' \in Ticks
        BY <1>4, <4>3 DEF Decide
      <4>4. QED
        BY <1>2, <3>1, <3>2, <3>3, <4>1, <4>2, <4>3 DEF TickEnds
    <3>5. QED
      BY <1>1, <2>4, <3>4 DEF TickRead, TickOnly, TickOK
  <2>5. CASE TickAudit \/ TickAuditFails
    <3>1. \E next \in OpenGoals : tick' = [tick EXCEPT !.pc = "fresh", !.next = next]
      BY <2>5, AuditedType
    <3>2. tick' \in Ticks
      BY <1>5, <3>1
    <3>3. QED
      BY <1>1, <2>5, <3>2 DEF TickAudit, TickAuditFails, TickOnly, TickOK
  <2>6. CASE TickFresh
    <3>1. [tick EXCEPT !.pc = "patch", !.fresh = goal] \in Ticks
      BY <1>1 DEF TickPcs
    <3>2. QED
      BY <1>1, <1>2, <2>6, <3>1 DEF TickFresh, TickEnds, TickOnly, TickOK
  <2>7. CASE PauseRead
    <3>1. [goal EXCEPT !.status = "paused", !.resumed = FALSE] \in OpenGoals
      BY <1>1 DEF OpenGoals, Statuses
    <3>2. [tick EXCEPT !.pc = "fresh", !.goal = goal,
             !.next = [goal EXCEPT !.status = "paused", !.resumed = FALSE]] \in Ticks
      BY <1>1, <3>1 DEF TickPcs
    <3>3. QED
      BY <1>1, <1>2, <2>7, <3>2 DEF PauseRead, TickEnds, TickOnly, TickOK
  <2>8. QED
    BY <1>10, <2>1, <2>2, <2>3, <2>4, <2>5, <2>6, <2>7 DEF TickThinks
<1>11. CASE TickActs
  <2>1. CASE TickPatch
    <3>1. [tick EXCEPT !.pc = "tail", !.fresh = Written] \in Ticks
      BY <1>1, WrittenType DEF TickPcs
    <3>2. QED
      BY <1>1, <1>2, <2>1, <3>1 DEF TickPatch, TickEnds, TickOnly, TickOK
  <2>2. CASE TickPosts
    BY <1>1, <1>3, <2>2 DEF TickPosts, GoTo, TickOK, TickPcs
  <2>3. QED
    BY <1>11, <2>1, <2>2 DEF TickActs
<1>12. CASE TickFaults
  BY <1>1, <1>2, <1>12 DEF TickFaults, TickStatusFails, TickFails, TickEnds, TickOK
<1>13. QED
  BY <1>6, <1>7, <1>8, <1>9, <1>10, <1>11, <1>12, GoalRuntimeSteps

LEMMA TypeStep == TypeInv /\ [Next]_vars => TypeInv'
BY LogType, EventsType, UsedType, GoalType, TickType, RecoveryType DEF TypeInv

LEMMA TypeHolds == Spec => []TypeInv
BY InitType, TypeStep, PTL DEF Spec

\* Type correctness of the session, of both runtimes and of the UI's edits.
THEOREM TypeCorrect == Spec => []AutomationTypeOK
BY TypeHolds, TypeInvIsStronger, PTL

(***************************************************************************)
(* The bound on recovery prompts.                                          *)
(*                                                                         *)
(* The code counts the attempts in the log, so the bound survives a crash; *)
(* it reads them before it sends. What the invariant adds is that the      *)
(* count it read is still an upper bound when the prompt is sent, whatever *)
(* the goal runtime and the user append in between.                        *)
(***************************************************************************)
RecoveryPrompts(l) == {i \in DOMAIN l : /\ l[i] = "recovery"
                                        /\ \A j \in i .. Len(l) : l[j] \notin Visible}

LEMMA FiniteAttempts ==
  ASSUME NEW l \in Seq(Kinds)
  PROVE  IsFiniteSet(RecoveryPrompts(l)) /\ Cardinality(RecoveryPrompts(l)) \in Nat
<1>1. Len(l) \in Int /\ 1 \in Int
  OBVIOUS
<1>2. IsFiniteSet(1 .. Len(l))
  BY <1>1, FS_Interval
<1>3. RecoveryPrompts(l) \in SUBSET (1 .. Len(l))
  BY DEF RecoveryPrompts
<1>4. IsFiniteSet(RecoveryPrompts(l))
  BY <1>2, <1>3, FS_Subset
<1>5. QED
  BY <1>4, FS_CardinalityType

\* A log that grows, whose old messages do not become recovery prompts and stay
\* visible, and whose new ones are no recovery prompts, does not count more.
LEMMA FewerAttempts ==
  ASSUME NEW l \in Seq(Kinds), NEW m \in Seq(Kinds), Len(l) <= Len(m),
         \A i \in 1 .. Len(l) : /\ m[i] = "recovery" => l[i] = "recovery"
                                /\ l[i] \in Visible => m[i] \in Visible,
         \A i \in Len(l) + 1 .. Len(m) : m[i] # "recovery"
  PROVE  Cardinality(RecoveryPrompts(m)) <= Cardinality(RecoveryPrompts(l))
<1>1. RecoveryPrompts(m) \subseteq RecoveryPrompts(l)
  BY DEF RecoveryPrompts
<1>2. IsFiniteSet(RecoveryPrompts(l))
  BY FiniteAttempts
<1>3. QED
  BY <1>1, <1>2, FS_Subset

\* A recovery prompt counts for one.
LEMMA OneMoreAttempt ==
  ASSUME NEW l \in Seq(Kinds), NEW m \in Seq(Kinds), Len(m) = Len(l) + 1,
         \A i \in 1 .. Len(l) : /\ m[i] = "recovery" => l[i] = "recovery"
                                /\ l[i] \in Visible => m[i] \in Visible
  PROVE  Cardinality(RecoveryPrompts(m)) <= Cardinality(RecoveryPrompts(l)) + 1
<1>1. RecoveryPrompts(m) \subseteq RecoveryPrompts(l) \cup {Len(m)}
  BY DEF RecoveryPrompts
<1>2. IsFiniteSet(RecoveryPrompts(l))
  BY FiniteAttempts
<1>3. /\ IsFiniteSet(RecoveryPrompts(l) \cup {Len(m)})
      /\ Cardinality(RecoveryPrompts(l) \cup {Len(m)}) <= Cardinality(RecoveryPrompts(l)) + 1
  <2>1. Cardinality(RecoveryPrompts(l)) \in Nat
    BY FiniteAttempts
  <2>2. /\ IsFiniteSet(RecoveryPrompts(l) \cup {Len(m)})
        /\ \/ Cardinality(RecoveryPrompts(l) \cup {Len(m)}) = Cardinality(RecoveryPrompts(l))
           \/ Cardinality(RecoveryPrompts(l) \cup {Len(m)}) = Cardinality(RecoveryPrompts(l)) + 1
    BY <1>2, FS_AddElement
  <2>3. QED
    BY <2>1, <2>2
<1>4. QED
  BY <1>1, <1>2, <1>3, FS_Subset, FS_CardinalityType

\* What every step keeps of the messages there are.
LEMMA LogKept ==
  ASSUME LogOK, [Next]_vars
  PROVE  /\ Len(log) <= Len(log') /\ Len(log') <= Len(log) + 1
         /\ \A i \in 1 .. Len(log) : /\ log'[i] = "recovery" <=> log[i] = "recovery"
                                     /\ log[i] \in Visible => log'[i] \in Visible
         /\ ~RecoveryActs => \A i \in Len(log) + 1 .. Len(log') : log'[i] # "recovery"
<1> USE DEF LogOK
<1>1. CASE UNCHANGED <<log, turn>> \/ Stranded
  BY <1>1 DEF Stranded
<1>2. ASSUME NEW kind \in Prompts, Prompted(kind), kind = "recovery" => RecoveryActs
      PROVE  /\ Len(log') = Len(log) + 1
             /\ \A i \in 1 .. Len(log) : /\ log'[i] = "recovery" <=> log[i] = "recovery"
                                         /\ log[i] \in Visible => log'[i] \in Visible
             /\ ~RecoveryActs => log'[Len(log) + 1] # "recovery"
  BY <1>2, AnsweredLog DEF Prompted, Visible, Ended
<1>3. CASE Opened
  BY <1>3 DEF Opened
<1>4. ASSUME NEW outcome \in Ended,
             Replied(outcome) \/ WentOn
      PROVE  /\ Len(log') = Len(log)
             /\ \A i \in 1 .. Len(log) : /\ log'[i] = "recovery" <=> log[i] = "recovery"
                                         /\ log[i] \in Visible => log'[i] \in Visible
  BY <1>4 DEF Replied, WentOn, Visible, Ended
<1>5. CASE \E kind \in {"ask", "continuation"} : Prompted(kind)
  BY <1>2, <1>5 DEF Prompts, Human
<1>6. CASE Prompted("recovery") /\ RecoveryActs
  BY <1>2, <1>6 DEF Prompts, Human
<1>7. CASE (\E outcome \in Ended : Replied(outcome)) \/ WentOn
  BY <1>4, <1>7 DEF Ended
<1>8. QED
  BY <1>1, <1>3, <1>5, <1>6, <1>7, LogSteps

\* The stretches of recover() that look at the log, or end it.
LEMMA RecoverSteps ==
  ASSUME RecoveryTypeOK, [Next]_vars
  PROVE  \/ UNCHANGED rec
         \/ RecoveryActs
         \/ UNCHANGED log /\ (RecoveryRead \/ RecoveryReread \/ rec'.pc \notin {"reread", "post"})
<1>1. CASE RecoveryThinks \/ RecoveryFaults
  <2>1. CheckLater \/ RecoveryEnds \/ rec' = NoRecovery \/ GoOn("read")
          => rec'.pc \notin {"reread", "post"}
    BY DEF CheckLater, RecoveryEnds, GoOn, NoRecovery, RecoveryTypeOK
  <2>2. RecoveryTimerFires => UNCHANGED rec \/ rec'.pc \notin {"reread", "post"}
    BY DEF RecoveryTimerFires, NoRecovery
  <2>3. UNCHANGED log
    BY <1>1 DEF RecoveryThinks, RecoveryFaults, sessionVars
  <2>4. QED
    BY <1>1, <2>1, <2>2, <2>3
    DEF RecoveryThinks, RecoveryFaults, RecoveryStatus, RecoveryPosted,
        RecoveryMalformed, RecoveryFails
<1>2. CASE Crash
  BY <1>2 DEF Crash, RecoveryCrash, NoRecovery
<1>3. CASE Deliver
  BY <1>3 DEF Deliver, RecoveryHears
<1>4. QED
  BY <1>1, <1>2, <1>3
  DEF Next, OpenCode, EditReads, EditWrites, StopArrives, TickThinks, TickActs, TickFaults,
      recoveryVars, vars

RecoveryInv ==
  /\ RecoveryBounded
  /\ rec.pc \in {"reread", "post"} => Attempts < MaxAttempts
  /\ rec.pc = "post" => TailKind # "recovery"
  /\ NoDoubleRecovery

LEMMA InitRecovery == Init => RecoveryInv
<1> SUFFICES ASSUME Init PROVE RecoveryInv
  OBVIOUS
<1>1. log = <<"ask">> /\ rec.pc = "none"
  BY DEF Init, SessionInit, RecoveryInit, NoRecovery
<1>2. Attempts = 0
  <2>1. {i \in DOMAIN log : /\ log[i] = "recovery"
                           /\ \A j \in i .. Len(log) : log[j] \notin Visible} = {}
    BY <1>1
  <2>2. QED
    BY <2>1, FS_EmptySet DEF Attempts
<1>3. QED
  BY <1>1, <1>2, RecoveryAssumption DEF RecoveryInv, RecoveryBounded, NoDoubleRecovery

LEMMA RecoveryStep ==
  ASSUME TypeInv, RecoveryInv, [Next]_vars
  PROVE  RecoveryInv'
<1>1. LogOK /\ LogOK'
  BY TypeStep DEF TypeInv
<1>2. /\ Attempts = Cardinality(RecoveryPrompts(log))
      /\ Attempts' = Cardinality(RecoveryPrompts(log'))
      /\ Attempts \in Nat /\ Attempts' \in Nat
  BY <1>1, FiniteAttempts DEF Attempts, RecoveryPrompts, LogOK
<1>3. ~RecoveryActs => Attempts' <= Attempts
  BY <1>1, <1>2, LogKept, FewerAttempts DEF LogOK
<1>4. ASSUME RecoveryActs
      PROVE  /\ rec.pc = "post" /\ rec'.pc = "sent"
             /\ Prompted("recovery")
  BY <1>4
  DEF RecoveryActs, RecoveryPosts, PromptArrives, Prompted, GoOn, TypeInv, RecoveryTypeOK
<1>5. RecoveryActs => Attempts' <= Attempts + 1
  <2>1. SUFFICES ASSUME RecoveryActs PROVE Attempts' <= Attempts + 1
    OBVIOUS
  <2>2. Len(log') = Len(log) + 1
    BY <1>1, <1>4, <2>1, AnsweredLog DEF Prompted, LogOK
  <2>3. QED
    BY <1>1, <1>2, <2>2, LogKept, OneMoreAttempt DEF LogOK
<1>6. RecoveryBounded'
  BY <1>2, <1>3, <1>4, <1>5, RecoveryAssumption DEF RecoveryInv, RecoveryBounded
<1>7. (rec.pc \in {"reread", "post"} => Attempts < MaxAttempts)'
  <2>1. CASE UNCHANGED rec /\ ~RecoveryActs
    BY <1>2, <1>3, <2>1, RecoveryAssumption DEF RecoveryInv
  <2>2. CASE RecoveryRead /\ UNCHANGED log /\ ~RecoveryActs
    BY <1>2, <1>3, <2>2, RecoveryAssumption DEF RecoveryRead, RecoveryEnds, NoRecovery
  <2>3. CASE RecoveryReread /\ UNCHANGED log /\ ~RecoveryActs
    BY <1>2, <1>3, <2>3, RecoveryAssumption DEF RecoveryReread, RecoveryEnds, NoRecovery, RecoveryInv
  <2>4. QED
    BY <1>4, <2>1, <2>2, <2>3, RecoverSteps DEF TypeInv
<1>8. (rec.pc = "post" => TailKind # "recovery")'
  <2>1. CASE UNCHANGED rec /\ ~RecoveryActs
    <3>1. /\ log # <<>> /\ log' # <<>>
          /\ Len(log') = Len(log) \/ Len(log') = Len(log) + 1
      BY <1>1, LogKept DEF LogOK
    <3>2. log'[Len(log')] = "recovery" => log[Len(log)] = "recovery"
      BY <1>1, <2>1, <3>1, LogKept DEF LogOK
    <3>3. QED
      BY <2>1, <3>1, <3>2 DEF RecoveryInv, TailKind, Tail1
  <2>2. CASE RecoveryRead /\ UNCHANGED log
    <3>1. rec'.pc # "post"
      <4>1. rec' = NoRecovery \/ rec' = [rec EXCEPT !.pc = "reread", !.tail = Tail1]
        BY <2>2 DEF RecoveryRead, RecoveryEnds
      <4>2. rec \in [pc : {"none", "status", "read", "reread", "post", "sent"},
                     check : BOOLEAN, tail : 0 .. MaxLog]
        BY DEF TypeInv, RecoveryTypeOK
      <4>3. [rec EXCEPT !.pc = "reread", !.tail = Tail1].pc = "reread"
        BY <4>2
      <4>4. NoRecovery.pc = "none"
        BY DEF NoRecovery
      <4>5. QED
        BY <4>1, <4>3, <4>4
    <3>2. QED
      BY <3>1
  <2>3. CASE RecoveryReread /\ UNCHANGED log
    <3>1. rec'.pc = "post" => TailKind # "recovery"
      BY <2>3 DEF RecoveryReread, RecoveryEnds, NoRecovery, Recoverable
    <3>2. TailKind' = TailKind
      BY <2>3 DEF TailKind, Tail1
    <3>3. QED
      BY <3>1, <3>2
  <2>4. QED
    BY <1>4, <2>1, <2>2, <2>3, RecoverSteps DEF TypeInv
<1>9. NoDoubleRecovery'
  <2>1. CASE ~RecoveryActs
    BY <1>1, <2>1, LogKept DEF RecoveryInv, NoDoubleRecovery, LogOK
  <2>2. CASE RecoveryActs
    <3>1. /\ Len(log') = Len(log) + 1
          /\ \A i \in 1 .. Len(log) : log'[i] = "recovery" <=> log[i] = "recovery"
      BY <1>1, <1>4, <2>2, LogKept, AnsweredLog DEF Prompted, LogOK
    <3>2. log[Len(log)] # "recovery"
      BY <1>1, <1>4, <2>2 DEF RecoveryInv, TailKind, Tail1, LogOK
    <3>3. QED
      BY <1>1, <3>1, <3>2 DEF RecoveryInv, NoDoubleRecovery, LogOK
  <2>3. QED
    BY <2>1, <2>2
<1>10. QED
  BY <1>6, <1>7, <1>8, <1>9 DEF RecoveryInv

LEMMA RecoveryHolds == Spec => []RecoveryInv
<1>1. RecoveryInv /\ TypeInv /\ [Next]_vars => RecoveryInv'
  BY RecoveryStep
<1>2. QED
  BY <1>1, InitRecovery, TypeHolds, PTL DEF Spec

\* The recovery runtime sends at most MaxAttempts prompts after a message of the
\* user, whatever crashes, faults and the goal runtime do in between.
THEOREM AttemptsBounded == Spec => []RecoveryBounded
<1>1. RecoveryInv => RecoveryBounded
  BY DEF RecoveryInv
<1>2. QED
  BY <1>1, RecoveryHolds, PTL

\* It never prompts again before the assistant has had its turn.
THEOREM NeverPromptsTwice == Spec => []NoDoubleRecovery
<1>1. RecoveryInv => NoDoubleRecovery
  BY DEF RecoveryInv
<1>2. QED
  BY <1>1, RecoveryHolds, PTL

(***************************************************************************)
(* What a step may do to the tick, the goal and the counts.                *)
(***************************************************************************)
Kept == UNCHANGED <<goal, spent, blind>>
SameGoal == tick'.goal = tick.goal
SameCase == SameGoal /\ tick'.tail = tick.tail /\ tick'.next = tick.next

Rests == tick'.pc \in {"none", "session", "pauseread"} /\ Kept
Looks == /\ At("session") /\ goal.status = "active"
         /\ tick'.pc = "status" /\ tick'.goal = goal /\ Kept
Finds == At("status") /\ tick'.pc = "read" /\ SameGoal /\ Kept
Stops == /\ At("read") /\ tick'.pc = "fresh" /\ SameGoal /\ tick'.tail = Len(log) /\ Kept
         /\ tick'.next.status # "active"
Decides == /\ At("read") /\ tick'.pc \in {"fresh", "audit"} /\ SameGoal /\ Kept
           /\ tick'.tail = Len(log) /\ TailKind \in Ended
           /\ TailKind = "aborted" => tick.goal.resumed
           /\ tick.goal.turns < MaxAutoTurns
           /\ tick'.next.failed = tick.goal.failed
Judges == /\ At("audit") /\ tick'.pc = "fresh" /\ SameGoal /\ tick'.tail = tick.tail
          /\ UNCHANGED <<goal, spent>>
          /\ \/ tick'.next.status # "active" /\ blind' \in {0, blind}
             \/ tick'.next.failed = 0 /\ blind' = 0
             \/ tick'.next.failed = tick.next.failed + 1 /\ blind' = blind
Freshens == /\ At("fresh") /\ goal.id = tick.goal.id
            /\ tick'.pc = "patch" /\ SameCase /\ tick'.fresh = goal /\ Kept
Counts == /\ At("patch") /\ Continuing /\ tick'.pc = "tail" /\ SameCase
          /\ goal'.turns = tick.fresh.turns + 1 /\ goal'.failed = tick.next.failed
          /\ UNCHANGED <<spent, blind>>
Settles == /\ At("patch") /\ tick'.pc = "none"
           /\ goal'.turns = tick.fresh.turns /\ goal'.status # "active"
           /\ UNCHANGED <<spent, blind>>
Checks == /\ At("tail") /\ tick.tail = Len(log)
          /\ tick'.pc = "post" /\ SameCase /\ Kept
Posts == /\ At("post") /\ tick'.pc = "sent" /\ UNCHANGED goal
         /\ Prompted("continuation")
         /\ spent' = spent + 1
         /\ blind' = IF tick.next.failed > tick.goal.failed THEN blind + 1 ELSE blind
Pauses == /\ At("pauseread") /\ tick'.pc = "fresh" /\ tick'.goal = goal /\ Kept
          /\ tick'.next.status # "active"

\* A step of the tick makes one of these moves.
LEMMA TickMoves ==
  ASSUME TypeInv, [Next]_vars
  PROVE  \/ UNCHANGED tick /\ Kept
         \/ EditWrites
         \/ Rests \/ Looks \/ Finds \/ Stops \/ Decides \/ Judges \/ Freshens
         \/ Counts \/ Settles \/ Checks \/ Posts \/ Pauses
<1>1. /\ tick \in [pc : TickPcs, goal : OpenGoals, tail : 0 .. MaxLog,
                  next : OpenGoals, fresh : OpenGoals]
      /\ goal \in OpenGoals
  BY DEF TypeInv, TickOK, GoalOK
<1>2. ASSUME NEW pc, tick' = [tick EXCEPT !.pc = pc]
      PROVE  tick'.pc = pc /\ SameCase /\ tick'.fresh = tick.fresh
  BY <1>1, <1>2 DEF SameCase, SameGoal
<1>3. NoTick.pc = "none"
  BY DEF NoTick
<1>4. ASSUME NEW g \in OpenGoals, NEW status
      PROVE  Settle(status, g).status = status /\ Settle(status, g).turns = g.turns
  BY <1>4 DEF Settle, OpenGoals
<1>5. CASE UNCHANGED goalVars /\ UNCHANGED goal
  BY <1>5 DEF goalVars, Kept
<1>6. CASE Deliver
  <2>1. tick' = tick \/ tick' = [NoTick EXCEPT !.pc = "pauseread"]
    BY <1>6, HeadType DEF TypeInv, Deliver, GoalHears, EventKinds
  <2>2. [NoTick EXCEPT !.pc = "pauseread"].pc = "pauseread"
    BY DEF NoTick
  <2>3. QED
    BY <1>6, <2>1, <2>2 DEF Deliver, GoalHears, Rests, Kept
<1>7. CASE Crash \/ TickFaults
  BY <1>3, <1>7
  DEF Crash, GoalCrash, TickFaults, TickStatusFails, TickFails, TickEnds, Rests, Kept
<1>8. CASE TickThinks
  <2>1. UNCHANGED <<goal, log>>
    BY <1>8 DEF TickThinks, sessionVars
  <2>2. CASE TickEnds /\ TickOnly
    BY <1>3, <2>1, <2>2 DEF TickEnds, TickOnly, Rests, Kept
  <2>3. CASE GoalTimerFires
    <3>1. [NoTick EXCEPT !.pc = "session"].pc = "session"
      BY DEF NoTick
    <3>2. QED
      BY <2>1, <2>3, <3>1 DEF GoalTimerFires, Rests, Kept
  <2>4. CASE TickSession
    <3>1. /\ [tick EXCEPT !.pc = "status", !.goal = goal].pc = "status"
          /\ [tick EXCEPT !.pc = "status", !.goal = goal].goal = goal
      BY <1>1
    <3>2. QED
      BY <2>1, <2>2, <2>4, <3>1 DEF TickSession, TickOnly, Looks, Kept
  <2>5. CASE TickStatus
    BY <1>2, <2>1, <2>2, <2>5 DEF TickStatus, GoTo, TickOnly, Finds, SameCase, Kept
  <2>6. CASE TickTail
    BY <1>2, <2>1, <2>2, <2>6 DEF TickTail, GoTo, TickOnly, Checks, Tail1, Kept
  <2>7. CASE TickRead
    <3>1. ASSUME NEW pc, NEW next, Decide(pc, next)
          PROVE  tick'.pc = pc /\ SameGoal /\ tick'.tail = Len(log) /\ tick'.next = next
      BY <1>1, <3>1 DEF Decide, SameGoal, Tail1
    <3>2. CASE Decide("fresh", [tick.goal EXCEPT !.status = "paused", !.resumed = FALSE])
      <4>1. [tick.goal EXCEPT !.status = "paused", !.resumed = FALSE].status = "paused"
        BY <1>1 DEF OpenGoals
      <4>2. QED
        BY <2>1, <2>7, <3>1, <3>2, <4>1 DEF TickRead, TickOnly, Stops, Kept
    <3>3. CASE Decide("fresh", Settle("blocked", tick.goal))
      BY <1>1, <1>4, <2>1, <2>7, <3>1, <3>3 DEF TickRead, TickOnly, Stops, Kept
    <3>4. CASE /\ TailKind \in Ended /\ (TailKind = "aborted" => tick.goal.resumed) /\ ~OutOfTurns
               /\ \/ Decide("fresh", [tick.goal EXCEPT !.resumed = FALSE])
                  \/ Decide("audit", tick.goal)
      <4>1. [tick.goal EXCEPT !.resumed = FALSE].failed = tick.goal.failed
        BY <1>1 DEF OpenGoals
      <4>2. tick.goal.turns < MaxAutoTurns
        <5>1. tick.goal.turns \in Nat
          BY <1>1 DEF OpenGoals
        <5>2. QED
          BY <3>4, <5>1, GoalAssumption DEF OutOfTurns
      <4>3. At("read") /\ Kept
        BY <2>1, <2>7 DEF TickRead, TickOnly, Kept
      <4>4. QED
        BY <3>1, <3>4, <4>1, <4>2, <4>3 DEF Decides
    <3>5. QED
      BY <2>2, <2>7, <3>2, <3>3, <3>4 DEF TickRead, Quiet
  <2>8. CASE TickAudit \/ TickAuditFails
    <3>1. ASSUME NEW next, Judged(next)
          PROVE  tick'.pc = "fresh" /\ SameGoal /\ tick'.tail = tick.tail /\ tick'.next = next
      BY <1>1, <3>1 DEF Judged, SameGoal
    <3>2. /\ Settle("complete", tick.next).status = "complete"
          /\ Settle("blocked", tick.next).status = "blocked"
      BY <1>1, <1>4
    <3>3. /\ [tick.next EXCEPT !.resumed = FALSE, !.failed = 0, !.blocked = 0].failed = 0
          /\ [tick.next EXCEPT !.resumed = FALSE, !.failed = 0, !.blocked = @ + 1].failed = 0
          /\ [tick.next EXCEPT !.resumed = FALSE, !.blocked = 0, !.failed = @ + 1].failed
               = tick.next.failed + 1
      BY <1>1 DEF OpenGoals
    <3>4. CASE TickAudit
      BY <2>1, <3>1, <3>2, <3>3, <3>4 DEF TickAudit, Judges
    <3>5. CASE TickAuditFails
      BY <2>1, <3>1, <3>2, <3>3, <3>5 DEF TickAuditFails, TickOnly, Judges
    <3>6. QED
      BY <2>8, <3>4, <3>5
  <2>9. CASE TickFresh
    <3>1. ASSUME tick' = [tick EXCEPT !.pc = "patch", !.fresh = goal]
          PROVE  tick'.pc = "patch" /\ SameCase /\ tick'.fresh = goal
      BY <1>1, <3>1 DEF SameCase, SameGoal
    <3>2. QED
      BY <2>1, <2>2, <2>9, <3>1 DEF TickFresh, TickOnly, Freshens, Kept
  <2>10. CASE TickPosted
    BY <2>2, <2>10 DEF TickPosted
  <2>11. CASE PauseRead
    <3> DEFINE next == [goal EXCEPT !.status = "paused", !.resumed = FALSE]
    <3>2. next.status = "paused"
      BY <1>1 DEF OpenGoals
    <3>3. ASSUME tick' = [tick EXCEPT !.pc = "fresh", !.goal = goal, !.next = next]
          PROVE  tick'.pc = "fresh" /\ tick'.goal = goal /\ tick'.next = next
      <4> HIDE DEF next
      <4> QED
        BY <1>1, <3>3
    <3>4. QED
      BY <2>1, <2>2, <2>11, <3>2, <3>3 DEF PauseRead, TickOnly, Pauses, Kept
  <2>12. QED
    BY <1>8, <2>3, <2>4, <2>5, <2>6, <2>7, <2>8, <2>9, <2>10, <2>11 DEF TickThinks
<1>9. CASE TickPatch
  <2>1. goal' = Written /\ At("patch") /\ UNCHANGED <<spent, blind>>
    BY <1>9 DEF TickPatch, PatchGoal, TickOnly
  <2>2. CASE Continuing
    <3>1. Written.turns = tick.fresh.turns + 1 /\ Written.failed = tick.next.failed
      BY <1>1, <2>2 DEF Written, OpenGoals
    <3>2. tick' = [tick EXCEPT !.pc = "tail", !.fresh = Written]
      BY <1>9, <2>2 DEF TickPatch
    <3>3. tick'.pc = "tail" /\ SameCase
      BY <1>1, <3>2 DEF SameCase, SameGoal
    <3>4. QED
      BY <2>1, <2>2, <3>1, <3>3 DEF Counts
  <2>3. CASE ~Continuing
    <3>1. Written.turns = tick.fresh.turns /\ Written.status # "active"
      <4>1. CASE tick.next.status = "paused"
        BY <1>1, <2>3, <4>1 DEF Written, OpenGoals
      <4>2. CASE tick.next.status # "paused"
        BY <1>1, <1>4, <2>3, <4>2 DEF Written, Continuing
      <4>3. QED
        BY <4>1, <4>2
    <3>2. tick'.pc = "none"
      BY <1>3, <1>9, <2>3 DEF TickPatch, TickEnds
    <3>3. QED
      BY <2>1, <3>1, <3>2 DEF Settles
  <2>4. QED
    BY <2>2, <2>3
<1>10. CASE TickPosts
  BY <1>2, <1>10 DEF TickPosts, PromptArrives, Prompted, GoTo, Posts
<1>11. QED
  BY <1>5, <1>6, <1>7, <1>8, <1>9, <1>10, GoalRuntimeSteps, GoalSteps DEF TickActs

\* The types the arithmetic of the counts needs.
LEMMA CountTypes ==
  ASSUME TypeInv
  PROVE  /\ spent \in Int /\ blind \in Int
         /\ goal.turns \in Nat /\ goal.failed \in Nat
         /\ tick.goal.turns \in Nat /\ tick.goal.failed \in Nat /\ tick.goal.failed < FailLimit
         /\ tick.next.failed \in Nat /\ tick.next.failed < FailLimit
         /\ tick.fresh.turns \in Nat
<1>1. /\ goal \in OpenGoals /\ tick.goal \in OpenGoals /\ tick.next \in OpenGoals
      /\ tick.fresh \in OpenGoals /\ spent \in Int /\ blind \in Int
  BY DEF TypeInv, GoalOK, TickOK
<1>2. ASSUME NEW g \in OpenGoals
      PROVE  g.turns \in Nat /\ g.failed \in Nat /\ g.failed < FailLimit
  <2>1. g.turns \in Nat /\ g.failed \in 0 .. FailLimit - 1
    BY DEF OpenGoals
  <2>2. QED
    BY <2>1, GoalAssumption
<1>3. QED
  BY <1>1, <1>2

(***************************************************************************)
(* The count of continuations.                                             *)
(*                                                                         *)
(* The code counts the turns in the goal, which the user and the tick      *)
(* write from copies they read earlier.  The invariant says that no such   *)
(* copy is older than the count it is compared with: the goal has counted  *)
(* every continuation since the user's last write, that of a tick about to *)
(* send one included, and so had the goal that tick started from, but for  *)
(* its own.                                                                *)
(***************************************************************************)
TurnsCounted ==
  /\ NoRunaway
  /\ spent <= goal.turns
  /\ tick.pc \in {"tail", "post"} => Continuing /\ spent + 1 <= goal.turns
  /\ tick.pc \notin {"none", "session", "sent", "pauseread"} => spent <= tick.goal.turns
  /\ tick.pc = "patch" => spent <= tick.fresh.turns
  /\ \/ tick.pc = "audit"
     \/ tick.pc \in {"fresh", "patch", "tail", "post"} /\ Continuing
     => tick.goal.turns < MaxAutoTurns

LEMMA InitTurns == Init => TurnsCounted
<1> SUFFICES ASSUME Init PROVE TurnsCounted
  OBVIOUS
<1>1. tick.pc = "none" /\ spent = goal.turns
  BY DEF Init, GoalInit, NoTick
<1>2. goal.turns \in 0 .. MaxAutoTurns
  <2>1. CASE goal = NoGoal
    BY <2>1, GoalAssumption DEF NoGoal
  <2>2. CASE goal # NoGoal
    BY <2>2 DEF Init, GoalInit, NoGoal
  <2>3. QED
    BY <2>1, <2>2
<1>3. QED
  BY <1>1, <1>2, GoalAssumption DEF TurnsCounted, NoRunaway

LEMMA TurnsStep ==
  ASSUME TypeInv, TurnsCounted, [Next]_vars
  PROVE  TurnsCounted'
<1> USE GoalAssumption, CountTypes DEF TurnsCounted, NoRunaway, Kept, At, SameCase, SameGoal,
                                       Continuing
<1>1. CASE UNCHANGED tick /\ Kept
  BY <1>1
<1>2. CASE EditWrites
  <2>1. /\ spent' = (IF Ticking THEN -1 ELSE 0)
        /\ UNCHANGED tick
        /\ goal'.turns \in Nat
    <3>1. TypeInv'
      BY TypeStep
    <3>2. QED
      BY <1>2, <3>1, CountTypes DEF EditWrites, TypeInv, GoalOK, OpenGoals
  <2>2. QED
    BY <2>1 DEF Ticking
<1>3. CASE Rests
  BY <1>3 DEF Rests
<1>4. CASE Looks \/ Finds
  BY <1>4 DEF Looks, Finds
<1>5. CASE Stops \/ Decides
  BY <1>5 DEF Stops, Decides
<1>6. CASE Judges
  BY <1>6 DEF Judges
<1>7. CASE Freshens
  BY <1>7 DEF Freshens
<1>8. CASE Counts
  BY <1>8 DEF Counts
<1>9. CASE Settles
  BY <1>9 DEF Settles
<1>10. CASE Checks
  BY <1>10 DEF Checks
<1>11. CASE Posts
  BY <1>11 DEF Posts
<1>12. CASE Pauses
  BY <1>12 DEF Pauses
<1>13. QED
  BY <1>1, <1>2, <1>3, <1>4, <1>5, <1>6, <1>7, <1>8, <1>9, <1>10, <1>11, <1>12, TickMoves

LEMMA TurnsHold == Spec => []TurnsCounted
<1>1. TurnsCounted /\ TypeInv /\ [Next]_vars => TurnsCounted'
  BY TurnsStep
<1>2. QED
  BY <1>1, InitTurns, TypeHolds, PTL DEF Spec

\* A goal the user leaves alone is continued MaxAutoTurns times at most.
THEOREM ContinuationsBounded == Spec => []NoRunaway
<1>1. TurnsCounted => NoRunaway
  BY DEF TurnsCounted
<1>2. QED
  BY <1>1, TurnsHold, PTL

(***************************************************************************)
(* The count of failed audits, along the same argument.                    *)
(***************************************************************************)
Unjudged == IF tick.next.failed > tick.goal.failed THEN 1 ELSE 0

FailuresCounted ==
  /\ NoBlindLoop
  /\ goal.status = "active"
     => blind + (IF tick.pc \in {"tail", "post"} THEN Unjudged ELSE 0) <= goal.failed
  /\ tick.pc \in {"status", "read", "audit"} => blind <= tick.goal.failed
  /\ tick.pc = "audit" => tick.next.failed = tick.goal.failed
  /\ tick.pc \in {"tail", "post"} => Continuing
  /\ tick.pc \in {"fresh", "patch", "tail", "post"} /\ Continuing
     => blind + Unjudged <= tick.next.failed

LEMMA InitFailures == Init => FailuresCounted
<1> SUFFICES ASSUME Init PROVE FailuresCounted
  OBVIOUS
<1>1. tick.pc = "none" /\ blind = goal.failed
  BY DEF Init, GoalInit, NoTick
<1>2. goal.failed \in 0 .. FailLimit - 1
  <2>1. CASE goal = NoGoal
    BY <2>1, GoalAssumption DEF NoGoal
  <2>2. CASE goal # NoGoal
    BY <2>2 DEF Init, GoalInit, NoGoal
  <2>3. QED
    BY <2>1, <2>2
<1>3. QED
  BY <1>1, <1>2, GoalAssumption DEF FailuresCounted, NoBlindLoop

LEMMA FailuresStep ==
  ASSUME TypeInv, FailuresCounted, [Next]_vars
  PROVE  FailuresCounted'
<1> USE GoalAssumption, CountTypes DEF FailuresCounted, NoBlindLoop, Kept, At, SameCase,
                                       SameGoal, Continuing, Unjudged
<1>1. CASE UNCHANGED tick /\ Kept
  BY <1>1
<1>2. CASE EditWrites
  <2>1. /\ blind' = (IF Ticking THEN -1 ELSE 0)
        /\ UNCHANGED tick
        /\ goal'.failed \in Nat
    <3>1. TypeInv'
      BY TypeStep
    <3>2. goal'.failed \in 0 .. FailLimit - 1
      BY <3>1 DEF TypeInv, GoalOK, OpenGoals
    <3>3. QED
      BY <1>2, <3>2 DEF EditWrites
  <2>2. QED
    BY <2>1 DEF Ticking
<1>3. CASE Rests
  BY <1>3 DEF Rests
<1>4. CASE Looks \/ Finds
  BY <1>4 DEF Looks, Finds
<1>5. CASE Stops
  BY <1>5 DEF Stops
<1>6. CASE Decides
  BY <1>6 DEF Decides
<1>7. CASE Judges
  BY <1>7 DEF Judges
<1>8. CASE Freshens
  BY <1>8 DEF Freshens
<1>9. CASE Counts
  BY <1>9 DEF Counts
<1>10. CASE Settles
  BY <1>10 DEF Settles
<1>11. CASE Checks
  BY <1>11 DEF Checks
<1>12. CASE Posts
  BY <1>12 DEF Posts
<1>13. CASE Pauses
  BY <1>13 DEF Pauses
<1>14. QED
  BY <1>1, <1>2, <1>3, <1>4, <1>5, <1>6, <1>7, <1>8, <1>9, <1>10, <1>11, <1>12, <1>13, TickMoves

LEMMA FailuresHold == Spec => []FailuresCounted
<1>1. FailuresCounted /\ TypeInv /\ [Next]_vars => FailuresCounted'
  BY FailuresStep
<1>2. QED
  BY <1>1, InitFailures, TypeHolds, PTL DEF Spec

\* Fewer than FailLimit audits in a row fail and are followed by a continuation.
THEOREM BlindnessBounded == Spec => []NoBlindLoop
<1>1. FailuresCounted => NoBlindLoop
  BY DEF FailuresCounted
<1>2. QED
  BY <1>1, FailuresHold, PTL

(***************************************************************************)
(* The reply a continuation is about.                                      *)
(***************************************************************************)
Continues == \/ tick.pc = "audit"
             \/ tick.pc \in {"fresh", "patch", "tail", "post"} /\ Continuing

\* A tick that may continue judged a reply that had ended, and one the user
\* aborted only for a goal the user resumed.
ReplyKnown ==
  Continues => /\ tick.tail \in 1 .. Len(log) /\ log[tick.tail] \in Ended
               /\ log[tick.tail] = "aborted" => tick.goal.resumed

\* A reply that has ended stays one; it does not become an aborted one.
LEMMA EndedStays ==
  ASSUME LogOK, [Next]_vars, NEW i \in 1 .. Len(log), log[i] \in Ended
  PROVE  /\ i \in 1 .. Len(log') /\ log'[i] \in Ended
         /\ log'[i] = "aborted" => log[i] = "aborted"
<1> USE DEF LogOK
<1>1. CASE UNCHANGED <<log, turn>> \/ Stranded
  BY <1>1 DEF Stranded
<1>2. ASSUME NEW kind, Prompted(kind)
      PROVE  /\ i \in 1 .. Len(log') /\ log'[i] \in Ended
             /\ log'[i] = "aborted" => log[i] = "aborted"
  BY <1>2, AnsweredLog DEF Prompted, Ended
<1>3. CASE Opened
  BY <1>3 DEF Opened
<1>4. ASSUME NEW outcome \in Ended, Replied(outcome) \/ WentOn
      PROVE  /\ i \in 1 .. Len(log') /\ log'[i] \in Ended
             /\ log'[i] = "aborted" => log[i] = "aborted"
  BY <1>4 DEF Replied, WentOn, Ended
<1>5. CASE \E outcome \in Ended : Replied(outcome)
  BY <1>4, <1>5
<1>6. CASE WentOn
  BY <1>4, <1>6 DEF Ended
<1>7. QED
  BY <1>1, <1>2, <1>3, <1>5, <1>6, LogSteps

LEMMA ReplyStep ==
  ASSUME TypeInv, FailuresCounted, ReplyKnown, [Next]_vars
  PROVE  ReplyKnown'
<1>1. LogOK
  BY DEF TypeInv
<1>2. ASSUME Continues, SameGoal, tick'.tail = tick.tail
      PROVE  ReplyKnown'
  BY <1>1, <1>2, EndedStays DEF ReplyKnown, SameGoal
<1>3. CASE UNCHANGED tick
  BY <1>2, <1>3 DEF ReplyKnown, Continues, Continuing, SameGoal
<1>4. CASE EditWrites
  BY <1>3, <1>4 DEF EditWrites
<1>5. CASE Rests \/ Looks \/ Finds \/ Stops \/ Settles \/ Posts \/ Pauses
  BY <1>5
  DEF ReplyKnown, Continues, Continuing, Rests, Looks, Finds, Stops, Settles, Posts, Pauses
<1>6. CASE Decides
  <2>1. /\ tick'.tail = Len(log) /\ log[Len(log)] \in Ended /\ tick'.goal = tick.goal
        /\ log[Len(log)] = "aborted" => tick.goal.resumed
    BY <1>1, <1>6 DEF Decides, TailKind, Tail1, Ended, SameGoal
  <2>2. QED
    BY <1>1, <2>1, EndedStays DEF ReplyKnown, LogOK
<1>7. CASE Judges
  BY <1>2, <1>7 DEF Judges, At, Continues
<1>8. CASE Freshens \/ Counts
  BY <1>2, <1>8
  DEF Freshens, Counts, At, SameCase, Continues, ReplyKnown, Continuing
<1>9. CASE Checks
  BY <1>2, <1>9 DEF Checks, At, SameCase, Continues, FailuresCounted
<1>10. QED
  BY <1>3, <1>4, <1>5, <1>6, <1>7, <1>8, <1>9, TickMoves

LEMMA ReplyHolds == Spec => []ReplyKnown
<1>1. Init => ReplyKnown
  <2>1. Init => tick = NoTick
    BY DEF Init, GoalInit
  <2>2. NoTick.pc = "none"
    BY DEF NoTick
  <2>3. QED
    BY <2>1, <2>2 DEF ReplyKnown, Continues
<1>2. ReplyKnown /\ FailuresCounted /\ TypeInv /\ [Next]_vars => ReplyKnown'
  BY ReplyStep
<1>3. QED
  BY <1>1, <1>2, TypeHolds, FailuresHold, PTL DEF Spec

\* The goal runtime does not continue over an abort unless the user resumed.
THEOREM AbortsRespected == Spec => []AbortRespected
<1>1. ReplyKnown /\ FailuresCounted => AbortRespected
  BY DEF ReplyKnown, FailuresCounted, AbortRespected, Continues
<1>2. QED
  BY <1>1, ReplyHolds, FailuresHold, PTL

(***************************************************************************)
(* No active goal is left unwatched.                                       *)
(*                                                                         *)
(* While the session is at rest, what wakes the runtime is its timer or an *)
(* event that sets it.  A prompt clears the timer, but only a turn brings  *)
(* the session to rest after a prompt, and its end wakes the runtime       *)
(* again.  A tick that ends without a word has found out that the session  *)
(* or the goal has changed since it started, and that woke the runtime     *)
(* too, or was lost to the tick (missed).                                  *)
(***************************************************************************)
Waking == {"idle", "aborted", "kickoff"}
Awake == goalTimer \/ \E i \in 1 .. Len(events) : events[i] \in Waking
AtRest == turn = 0 /\ TailKind \in Ended

\* Behind the turn in progress there are prompts only.
PromptsWait == turn # 0 => \A i \in turn + 1 .. Len(log) : log[i] \in Prompts

\* An event that clears the timer is not the last word on a session at rest.
PromptsFollowed ==
  AtRest => \A i \in 1 .. Len(events) :
              events[i] = "prompt" => \E j \in i + 1 .. Len(events) : events[j] \in Waking

\* The UI resumes and edits goals there are.
EditOfGoal == ui.op \in {"edit", "resume"} => ui.base.id # 0

Watched ==
  AtRest /\ ~missed /\ ~Awake =>
    /\ tick.pc = "none" => goal.status # "active"
    /\ tick.pc # "sent"
    /\ Continues => tick.tail = Len(log)
    /\ tick.pc \in {"status", "read", "audit", "fresh"} /\ goal.status = "active"
       => goal.id = tick.goal.id

LEMMA PromptsWaitStep ==
  ASSUME LogOK, PromptsWait, [Next]_vars
  PROVE  PromptsWait'
<1> USE DEF LogOK, PromptsWait
<1>1. CASE UNCHANGED <<log, turn>>
  BY <1>1
<1>2. ASSUME NEW kind \in Prompts, Prompted(kind)
      PROVE  PromptsWait'
  BY <1>2, AnsweredLog DEF Prompted, Prompts, Human, Ended
<1>3. CASE Opened
  BY <1>3 DEF Opened
<1>4. CASE (\E outcome \in Ended : Replied(outcome)) \/ WentOn \/ Stranded
  BY <1>4 DEF Replied, WentOn, Stranded
<1>5. QED
  BY <1>1, <1>2, <1>3, <1>4, LogSteps DEF Prompts, Human

\* A session is at rest because it was, or because a turn has just ended.
LEMMA RestSteps ==
  ASSUME LogOK, PromptsWait, [Next]_vars, AtRest'
  PROVE  \/ AtRest /\ UNCHANGED <<log, turn>>
         \/ \E event \in {"idle", "aborted"} : events' = Append(events, event)
<1> USE DEF LogOK, AtRest, TailKind, Tail1
<1>1. CASE UNCHANGED <<log, turn>>
  BY <1>1
<1>2. ASSUME NEW kind \in Prompts, Prompted(kind)
      PROVE  FALSE
  <2>1. log'[Len(log')] = kind /\ log' # <<>>
    BY <1>2, AnsweredLog DEF Prompted
  <2>2. QED
    BY <1>2, <2>1 DEF Prompts, Human, Ended
<1>3. CASE Opened
  BY <1>3 DEF Opened
<1>4. CASE \E outcome \in Ended : Replied(outcome)
  BY <1>4 DEF Replied
<1>5. CASE WentOn
  <2>1. log[Len(log)] \in Prompts /\ log' # <<>> /\ log'[Len(log')] = log[Len(log)]
    BY <1>5 DEF WentOn, PromptsWait
  <2>2. QED
    BY <2>1 DEF Prompts, Human, Ended
<1>6. CASE Stranded
  BY <1>6 DEF Stranded, Ended
<1>7. QED
  BY <1>1, <1>2, <1>3, <1>4, <1>5, <1>6, LogSteps DEF Prompts, Human

LEMMA PromptsFollowedStep ==
  ASSUME LogOK, EventsOK, PromptsWait, PromptsFollowed, [Next]_vars
  PROVE  PromptsFollowed'
<1> SUFFICES ASSUME AtRest'
             PROVE  (\A i \in 1 .. Len(events) : events[i] = "prompt" =>
                       \E j \in i + 1 .. Len(events) : events[j] \in Waking)'
  BY DEF PromptsFollowed
<1>1. ASSUME NEW event \in {"idle", "aborted"}, events' = Append(events, event)
      PROVE  (\A i \in 1 .. Len(events) : events[i] = "prompt" =>
                \E j \in i + 1 .. Len(events) : events[j] \in Waking)'
  <2>1. Len(events') = Len(events) + 1 /\ events'[Len(events')] \in Waking
        /\ events'[Len(events')] # "prompt"
    BY <1>1 DEF EventsOK, Waking
  <2>2. QED
    BY <2>1 DEF EventsOK
<1>2. CASE AtRest /\ UNCHANGED <<log, turn>>
  <2>1. \A i \in 1 .. Len(events) : events[i] = "prompt" =>
          \E j \in i + 1 .. Len(events) : events[j] \in Waking
    BY <1>2 DEF PromptsFollowed
  <2>2. CASE UNCHANGED events
    BY <2>1, <2>2
  <2>3. CASE \E event \in EventKinds :
               /\ events' = Append(events, event)
               /\ event = "prompt" => \E kind \in Prompts : Prompted(kind)
    <3>1. PICK event \in EventKinds :
            /\ events' = Append(events, event)
            /\ event = "prompt" => \E kind \in Prompts : Prompted(kind)
      BY <2>3
    <3>2. \A kind : ~Prompted(kind)
      BY <1>2, AnsweredLog DEF Prompted, LogOK
    <3>3. event # "prompt" /\ Len(events') = Len(events) + 1
          /\ events'[Len(events) + 1] = event
          /\ \A i \in 1 .. Len(events) : events'[i] = events[i]
      BY <3>1, <3>2 DEF EventsOK
    <3>4. QED
      BY <2>1, <3>3 DEF EventsOK
  <2>4. CASE Deliver
    <3>1. /\ Len(events') = Len(events) - 1
          /\ \A i \in 1 .. Len(events') : events'[i] = events[i + 1]
      BY <2>4 DEF Deliver, EventsOK
    <3>2. SUFFICES ASSUME NEW i \in 1 .. Len(events'), events'[i] = "prompt"
                   PROVE  \E j \in i + 1 .. Len(events') : events'[j] \in Waking
      OBVIOUS
    <3>3. i + 1 \in 1 .. Len(events) /\ events[i + 1] = "prompt"
      BY <3>1, <3>2 DEF EventsOK
    <3>4. PICK j \in i + 2 .. Len(events) : events[j] \in Waking
      BY <2>1, <3>3
    <3>5. j - 1 \in i + 1 .. Len(events') /\ events'[j - 1] = events[j]
      BY <3>1, <3>4 DEF EventsOK
    <3>6. QED
      BY <3>4, <3>5
  <2>5. CASE Crash
    BY <2>5 DEF Crash
  <2>6. QED
    BY <2>2, <2>3, <2>4, <2>5, EventSteps
<1>3. QED
  BY <1>1, <1>2, RestSteps

LEMMA EditOfGoalStep ==
  ASSUME EditOfGoal, [Next]_vars
  PROVE  EditOfGoal'
<1>1. CASE EditReads
  <2>1. PICK op \in GoalEdits : Offered(op) /\ ui' = [op |-> op, base |-> goal]
    BY <1>1 DEF EditReads
  <2>2. op \in {"edit", "resume"} => goal.id # 0
    BY <2>1 DEF Offered, HasGoal
  <2>3. QED
    BY <2>1, <2>2 DEF EditOfGoal
<1>2. CASE EditWrites
  BY <1>2 DEF EditWrites, EditOfGoal, NoEdit
<1>3. CASE UNCHANGED ui
  BY <1>3 DEF EditOfGoal
<1>4. QED
  BY <1>1, <1>2, <1>3
  DEF Next, OpenCode, Deliver, Crash, StopArrives, RecoveryThinks, RecoveryActs,
      RecoveryFaults, TickThinks, TickActs, TickFaults, vars

\* A lost wake-up is not forgotten.
LEMMA MissedStays ==
  ASSUME EventsOK, [Next]_vars, missed
  PROVE  missed'
<1>1. CASE UNCHANGED missed
  BY <1>1
<1>2. CASE Deliver
  BY <1>2, HeadType DEF Deliver, GoalHears, EventKinds
<1>3. CASE Crash
  BY <1>3 DEF Crash, GoalCrash
<1>4. CASE TickThinks
  BY <1>4
  DEF TickThinks, GoalTimerFires, TickSession, TickStatus, TickRead, TickAudit,
      TickAuditFails, TickFresh, TickTail, TickPosted, PauseRead, TickOnly
<1>5. CASE TickActs
  BY <1>5 DEF TickActs, TickPatch, TickPosts, TickOnly
<1>6. CASE TickFaults
  BY <1>6 DEF TickFaults, TickStatusFails, TickFails
<1>7. QED
  BY <1>1, <1>2, <1>3, <1>4, <1>5, <1>6, GoalRuntimeSteps DEF goalVars, EditWrites

\* What wakes the runtime stays until the tick it starts, or is lost to one.
LEMMA AwakeStays ==
  ASSUME TypeInv, PromptsFollowed, AtRest, UNCHANGED <<log, turn>>, Awake, [Next]_vars
  PROVE  Awake' \/ missed' \/ tick'.pc = "session"
<1>0. EventsOK
  BY DEF TypeInv
<1>1. CASE Deliver
  <2>1. /\ Len(events') = Len(events) - 1 /\ Len(events) \in Nat \ {0}
        /\ Head(events) = events[1]
        /\ \A i \in 1 .. Len(events') : events'[i] = events[i + 1]
    BY <1>0, <1>1 DEF Deliver, EventsOK
  <2>2. ASSUME NEW i \in 2 .. Len(events), events[i] \in Waking
        PROVE  Awake'
    <3>1. i - 1 \in 1 .. Len(events') /\ events'[i - 1] \in Waking
      BY <2>1, <2>2
    <3>2. QED
      BY <3>1 DEF Awake
  <2>3. CASE Head(events) = "prompt"
    <3>1. \E j \in 2 .. Len(events) : events[j] \in Waking
      BY <2>1, <2>3 DEF PromptsFollowed
    <3>2. QED
      BY <2>2, <3>1
  <2>4. CASE Head(events) = "open"
    <3>1. UNCHANGED goalTimer
      BY <1>1, <2>4 DEF Deliver, GoalHears
    <3>2. goalTimer \/ \E i \in 2 .. Len(events) : events[i] \in Waking
      BY <2>1, <2>4 DEF Awake, Waking
    <3>3. QED
      BY <2>2, <3>1, <3>2 DEF Awake
  <2>5. CASE Head(events) \in {"idle", "aborted"}
    <3>1. goalTimer'
      BY <1>1, <2>5 DEF Deliver, GoalHears
    <3>2. QED
      BY <3>1 DEF Awake
  <2>6. CASE Head(events) = "kickoff"
    <3>1. goalTimer' \/ missed'
      BY <1>1, <2>6 DEF Deliver, GoalHears
    <3>2. QED
      BY <3>1 DEF Awake
  <2>7. QED
    BY <1>0, <1>1, <2>3, <2>4, <2>5, <2>6, HeadType DEF Deliver, EventKinds
<1>2. CASE Crash
  BY <1>2 DEF Crash, GoalCrash
<1>3. CASE GoalTimerFires
  <2>1. [NoTick EXCEPT !.pc = "session"].pc = "session"
    BY DEF NoTick
  <2>2. QED
    BY <1>3, <2>1 DEF GoalTimerFires
<1>4. CASE goalTimer' \/ missed'
  BY <1>4 DEF Awake
<1>5. CASE UNCHANGED goalTimer /\ ~Deliver /\ ~Crash
  <2>1. UNCHANGED events \/ \E event \in EventKinds : events' = Append(events, event)
    BY <1>5, EventSteps
  <2>2. \A i \in 1 .. Len(events) : i \in 1 .. Len(events') /\ events'[i] = events[i]
    BY <1>0, <2>1 DEF EventsOK
  <2>3. QED
    BY <1>5, <2>2 DEF Awake
<1>6. UNCHANGED goalTimer \/ goalTimer' \/ missed' \/ Deliver \/ Crash \/ GoalTimerFires
  <2>1. CASE UNCHANGED goalVars \/ EditWrites
    BY <2>1 DEF goalVars, EditWrites
  <2>2. CASE TickThinks
    BY <2>2
    DEF TickThinks, TickSession, TickStatus, TickRead, TickAudit, TickAuditFails, TickFresh,
        TickTail, TickPosted, PauseRead, TickOnly
  <2>3. CASE TickActs \/ TickFaults
    BY <2>3 DEF TickActs, TickPatch, TickPosts, TickOnly, TickFaults, TickStatusFails, TickFails
  <2>4. QED
    BY <2>1, <2>2, <2>3, GoalRuntimeSteps
<1>7. QED
  BY <1>1, <1>2, <1>3, <1>4, <1>5, <1>6

\* An edit that leaves the goal active kicks the runtime off.
LEMMA EditKicks ==
  ASSUME TypeInv, EditOfGoal, EditWrites, goal'.status = "active"
  PROVE  Awake'
<1>1. /\ ui.op \in GoalEdits /\ ui.base \in OpenGoals /\ goalsMade \in Nat
      /\ goal' = EditedGoal(ui.op, ui.base)
  BY SessionAssumption DEF TypeInv, GoalOK, EditWrites, Editing, PatchGoal
<1>2. Kicks(goal')
  <2>1. CASE ui.op = "set"
    <3>1. goal'.id = goalsMade + 1 /\ goal'.turns = 0
      BY <1>1, <2>1 DEF EditedGoal, NoGoal
    <3>2. QED
      BY <1>1, <3>1 DEF Kicks
  <2>2. CASE ui.op \in {"edit", "resume"}
    <3>1. goal'.id = ui.base.id /\ goal'.resumed = TRUE
      BY <1>1, <2>2 DEF EditedGoal, Reactivated, OpenGoals
    <3>2. QED
      BY <2>2, <3>1 DEF Kicks, EditOfGoal
  <2>3. CASE ui.op \in {"pause", "clear"}
    <3>1. goal'.status = "paused"
      BY <1>1, <2>3 DEF EditedGoal, NoGoal, OpenGoals
    <3>2. QED
      BY <3>1
  <2>4. QED
    BY <1>1, <2>1, <2>2, <2>3 DEF GoalEdits
<1>3. events' = Append(events, "kickoff")
  <2>1. Kicks(EditedGoal(ui.op, ui.base))
    BY <1>1, <1>2
  <2>2. QED
    BY <2>1 DEF EditWrites, PatchGoal, Send
<1>4. Len(events') \in 1 .. Len(events') /\ events'[Len(events')] = "kickoff"
  BY <1>3 DEF TypeInv, EventsOK
<1>5. QED
  BY <1>4 DEF Awake, Waking

\* Why a tick ends.
LEMMA TickEndsWhy ==
  ASSUME TypeInv, [Next]_vars, Ticking, tick'.pc = "none", ~EditWrites
  PROVE  \/ missed' \/ goalTimer'
         \/ goal'.status # "active"
         \/ At("status") /\ Working
         \/ At("read") /\ ~Quiet
         \/ At("fresh") /\ goal.id # tick.goal.id /\ UNCHANGED goal
         \/ At("tail") /\ Tail1 # tick.tail
         \/ At("sent")
<1>1. /\ tick \in [pc : TickPcs, goal : OpenGoals, tail : 0 .. MaxLog,
                  next : OpenGoals, fresh : OpenGoals]
  BY DEF TypeInv, TickOK
<1>2. ASSUME NEW pc, tick' = [tick EXCEPT !.pc = pc]
      PROVE  pc = "none"
  BY <1>1, <1>2
<1>3. CASE UNCHANGED goalVars
  BY <1>3 DEF goalVars, Ticking
<1>4. CASE Deliver
  BY <1>4, HeadType DEF TypeInv, Deliver, GoalHears, EventKinds, Ticking
<1>5. CASE Crash \/ TickFaults
  BY <1>5 DEF Crash, GoalCrash, TickFaults, TickStatusFails, TickFails
<1>6. CASE TickThinks
  <2>1. UNCHANGED goal
    BY <1>6 DEF TickThinks, sessionVars
  <2>2. CASE GoalTimerFires
    BY <2>2 DEF GoalTimerFires, Ticking
  <2>3. CASE TickSession
    <3>1. [tick EXCEPT !.pc = "status", !.goal = goal].pc = "status"
      BY <1>1
    <3>2. QED
      BY <2>1, <2>3, <3>1 DEF TickSession
  <2>4. CASE TickStatus
    BY <1>2, <2>4 DEF TickStatus, GoTo
  <2>5. CASE TickRead
    <3>1. ASSUME NEW pc \in {"fresh", "audit"}, NEW next, Decide(pc, next)
          PROVE  FALSE
      BY <1>1, <3>1 DEF Decide
    <3>2. QED
      BY <2>5, <3>1 DEF TickRead
  <2>6. CASE TickAudit \/ TickAuditFails
    <3>1. ASSUME NEW next, Judged(next)
          PROVE  FALSE
      BY <1>1, <3>1 DEF Judged
    <3>2. QED
      BY <2>6, <3>1 DEF TickAudit, TickAuditFails
  <2>7. CASE TickFresh
    <3>1. [tick EXCEPT !.pc = "patch", !.fresh = goal].pc = "patch"
      BY <1>1
    <3>2. QED
      BY <2>1, <2>7, <3>1 DEF TickFresh
  <2>8. CASE TickTail
    BY <1>2, <2>8 DEF TickTail, GoTo
  <2>9. CASE TickPosted
    BY <2>9 DEF TickPosted
  <2>10. CASE PauseRead
    <3>1. ASSUME NEW g, NEW next, tick' = [tick EXCEPT !.pc = "fresh", !.goal = g, !.next = next]
          PROVE  FALSE
      BY <1>1, <3>1
    <3>2. QED
      BY <2>1, <2>10, <3>1 DEF PauseRead
  <2>11. QED
    BY <1>6, <2>2, <2>3, <2>4, <2>5, <2>6, <2>7, <2>8, <2>9, <2>10 DEF TickThinks
<1>7. CASE TickPatch
  <2>1. CASE Continuing
    <3>1. [tick EXCEPT !.pc = "tail", !.fresh = Written].pc = "tail"
      BY <1>1
    <3>2. QED
      BY <1>7, <2>1, <3>1 DEF TickPatch
  <2>2. CASE ~Continuing
    <3>1. Written.status # "active"
      BY <1>1, <2>2 DEF Written, Continuing, Settle, OpenGoals
    <3>2. QED
      BY <1>7, <3>1 DEF TickPatch, PatchGoal
  <2>3. QED
    BY <2>1, <2>2
<1>8. CASE TickPosts
  BY <1>2, <1>8 DEF TickPosts, GoTo
<1>9. QED
  BY <1>3, <1>4, <1>5, <1>6, <1>7, <1>8, GoalRuntimeSteps DEF TickActs

WatchInv == PromptsWait /\ PromptsFollowed /\ EditOfGoal /\ Watched

LEMMA WatchedStep ==
  ASSUME TypeInv, FailuresCounted, WatchInv, [Next]_vars
  PROVE  Watched'
<1> USE DEF WatchInv
<1>1. LogOK /\ EventsOK
  BY DEF TypeInv
<1> SUFFICES ASSUME AtRest', ~missed', ~Awake'
             PROVE  (/\ tick.pc = "none" => goal.status # "active"
                     /\ tick.pc # "sent"
                     /\ Continues => tick.tail = Len(log)
                     /\ tick.pc \in {"status", "read", "audit", "fresh"} /\ goal.status = "active"
                        => goal.id = tick.goal.id)'
  BY DEF Watched
<1>2. AtRest /\ UNCHANGED <<log, turn>>
  <2>1. ASSUME NEW event \in {"idle", "aborted"}, events' = Append(events, event)
        PROVE  FALSE
    <3>1. Len(events') \in 1 .. Len(events') /\ events'[Len(events')] \in Waking
      BY <1>1, <2>1 DEF EventsOK, Waking
    <3>2. QED
      BY <3>1 DEF Awake
  <2>2. QED
    BY <1>1, <2>1, RestSteps
<1>3. ~missed
  BY <1>1, MissedStays
<1>4. CASE tick'.pc = "session"
  BY <1>4 DEF Continues
<1>5. CASE tick'.pc # "session"
  <2>1. ~Awake
    BY <1>2, <1>5, AwakeStays
  <2>2. /\ tick.pc = "none" => goal.status # "active"
        /\ tick.pc # "sent"
        /\ Continues => tick.tail = Len(log)
        /\ tick.pc \in {"status", "read", "audit", "fresh"} /\ goal.status = "active"
           => goal.id = tick.goal.id
    BY <1>2, <1>3, <2>1 DEF Watched
  <2>3. ASSUME goal'.status = "active"
        PROVE  ~EditWrites
    BY <2>3, EditKicks
  <2>4. ~Posts
    BY <1>1, <1>2, AnsweredLog DEF Posts, Prompted, LogOK
  <2>5. EditWrites => UNCHANGED tick
    BY DEF EditWrites
  <2>6. (tick.pc = "none" => goal.status # "active")'
    <3>1. SUFFICES ASSUME tick'.pc = "none", goal'.status = "active"
                   PROVE  FALSE
      OBVIOUS
    <3>2. ~EditWrites
      BY <2>3, <3>1
    <3>3. CASE tick.pc = "none"
      <4>1. UNCHANGED goal
        BY <2>4, <3>1, <3>2, <3>3, TickMoves
        DEF Kept, At, Rests, Looks, Finds, Stops, Decides, Judges, Freshens, Counts, Settles,
            Checks, Pauses
      <4>2. QED
        BY <2>2, <3>1, <3>3, <4>1
    <3>4. CASE Ticking
      <4>1. ~goalTimer'
        BY DEF Awake
      <4>2. ~Working /\ Quiet
        BY <1>2 DEF AtRest, Working, Quiet, Ended, Prompts, Human
      <4>3. At("tail") => Tail1 = tick.tail
        BY <2>2 DEF At, Tail1, Continues, FailuresCounted
      <4>4. ~At("sent")
        BY <2>2 DEF At
      <4>5. ~(At("fresh") /\ goal.id # tick.goal.id /\ UNCHANGED goal)
        BY <2>2, <3>1 DEF At
      <4>6. QED
        BY <3>1, <3>2, <3>4, <4>1, <4>2, <4>3, <4>4, <4>5, TickEndsWhy
    <3>5. QED
      BY <3>3, <3>4 DEF Ticking
  <2>7. tick'.pc # "sent"
    BY <2>2, <2>4, <2>5, TickMoves
    DEF Rests, Looks, Finds, Stops, Decides, Judges, Freshens, Counts, Settles, Checks, Pauses
  <2>8. (Continues => tick.tail = Len(log))'
    <3>1. Continues' => (Continues /\ tick'.tail = tick.tail) \/ tick'.tail = Len(log)
      BY <2>4, <2>5, TickMoves
      DEF Continues, Continuing, At, SameCase, Rests, Looks, Finds, Stops, Decides, Judges,
          Freshens, Counts, Settles, Checks, Pauses
    <3>2. QED
      BY <1>2, <2>2, <3>1
  <2>9. (tick.pc \in {"status", "read", "audit", "fresh"} /\ goal.status = "active"
         => goal.id = tick.goal.id)'
    <3>1. SUFFICES ASSUME tick'.pc \in {"status", "read", "audit", "fresh"},
                          goal'.status = "active"
                   PROVE  goal'.id = tick'.goal.id
      OBVIOUS
    <3>2. ~EditWrites
      BY <2>3, <3>1
    <3>3. QED
      BY <2>2, <2>4, <3>1, <3>2, TickMoves
      DEF Kept, At, SameCase, SameGoal, Rests, Looks, Finds, Stops, Decides, Judges,
          Freshens, Counts, Settles, Checks, Pauses
  <2>10. QED
    BY <2>6, <2>7, <2>8, <2>9
<1>6. QED
  BY <1>4, <1>5

LEMMA InitWatched == Init => WatchInv
<1> SUFFICES ASSUME Init PROVE WatchInv
  OBVIOUS
<1>1. log = <<"ask">> /\ turn = 0 /\ ui = NoEdit
  BY DEF Init, SessionInit
<1>2. ~AtRest
  BY <1>1 DEF AtRest, TailKind, Tail1, Ended
<1>3. EditOfGoal
  BY <1>1 DEF EditOfGoal, NoEdit
<1>4. QED
  BY <1>1, <1>2, <1>3 DEF WatchInv, PromptsWait, PromptsFollowed, Watched

LEMMA WatchHolds == Spec => []WatchInv
<1>1. WatchInv /\ FailuresCounted /\ TypeInv /\ [Next]_vars => WatchInv'
  BY PromptsWaitStep, PromptsFollowedStep, EditOfGoalStep, WatchedStep DEF WatchInv, TypeInv
<1>2. QED
  BY <1>1, InitWatched, TypeHolds, FailuresHold, PTL DEF Spec

\* An active goal of a session at rest has an event, a timer or a tick that will
\* look at it, unless a wake-up was lost to a fault, a crash or a tick.
THEOREM GoalsNotForgotten == Spec => []GoalNotForgotten
<1>1. WatchInv => GoalNotForgotten
  <2>1. SUFFICES ASSUME WatchInv, AtRest, goal.status = "active", events = <<>>,
                        ~goalTimer, ~missed
                 PROVE  Ticking
    BY DEF GoalNotForgotten, AtRest
  <2>2. ~Awake
    BY <2>1 DEF Awake
  <2>3. QED
    BY <2>1, <2>2 DEF WatchInv, Watched, Ticking
<1>2. QED
  BY <1>1, WatchHolds, PTL
=============================================================================
