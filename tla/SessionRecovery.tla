--------------------------- MODULE SessionRecovery ---------------------------
(***************************************************************************)
(* createUnknownFinishRecoveryRuntime for one session: a timer armed by    *)
(* events, and recover(), which reads the session's messages twice and     *)
(* sends a synthetic prompt when the newest one is an assistant message    *)
(* that ended, or stays, without a usable answer.                          *)
(*                                                                         *)
(* recover() is split at its awaits; a step is the stretch from the answer *)
(* of one request to the next request.  Delays are not modelled: an armed  *)
(* timer may fire at any time.                                             *)
(***************************************************************************)
EXTENDS OpenCodeSession

CONSTANTS MaxAttempts,      \* maxAttempts, 2
          MaxBusyRechecks   \* maxBusyRechecks, 6

VARIABLES recTimer,         \* timers: "none", "quiet", or "check" (checkActivity)
          rechecks,         \* busyRechecks
          heardBusy,        \* lastEventActivityBySession holds busy or retry
          rec               \* recover() in progress: where, its checkActivity,
                            \* and the message it answers
recoveryVars == <<recTimer, rechecks, heardBusy, rec>>

ASSUME RecoveryAssumption == MaxAttempts \in Nat \ {0} /\ MaxBusyRechecks \in Nat

NoRecovery == [pc |-> "none", check |-> FALSE, tail |-> 0]
Recovering == rec.pc # "none"                      \* inflight

Recoverable(kind) == kind \in {"empty", "open", "failed"}

\* recoveryAttemptsForLatestUserTurn; the first message of a session is visible.
Attempts == Cardinality({i \in DOMAIN log : /\ log[i] = "recovery"
                                             /\ \A j \in i .. Len(log) : log[j] \notin Visible})

RecoveryInit == /\ recTimer = "none" /\ rechecks = 0 /\ heardBusy = FALSE
                /\ rec = NoRecovery

(***************************************************************************)
(* processPayload                                                          *)
(***************************************************************************)
\* The user message clears a timer armed before it was written (newer);
\* busy then keeps a watchdog and replaces anything else by one.
RecoveryHearsPrompt(newer) ==
  LET kept == recTimer = "check" /\ ~newer IN
  /\ recTimer' = "check"
  /\ rechecks' = IF kept THEN rechecks ELSE 0
  /\ heardBusy' = TRUE

RecoveryHears(event) ==
  /\ CASE event = "prompt"  -> \E newer \in BOOLEAN : RecoveryHearsPrompt(newer)
       [] event = "open"    -> recTimer' = "check" /\ rechecks' = 0 /\ UNCHANGED heardBusy
       [] event \in {"idle", "aborted"} -> recTimer' = "quiet" /\ rechecks' = 0 /\ heardBusy' = FALSE
       [] event = "kickoff" -> UNCHANGED <<recTimer, rechecks, heardBusy>>
  /\ UNCHANGED rec

(***************************************************************************)
(* recover                                                                 *)
(***************************************************************************)
RecoveryTimerFires ==
  /\ recTimer # "none"
  /\ recTimer' = "none"
  /\ IF Recovering THEN UNCHANGED rec
     ELSE rec' = [NoRecovery EXCEPT !.pc = IF recTimer = "check" THEN "status" ELSE "read",
                                    !.check = recTimer = "check"]
  /\ UNCHANGED <<rechecks, heardBusy>>

GoOn(pc) == rec' = [rec EXCEPT !.pc = pc] /\ UNCHANGED <<recTimer, rechecks, heardBusy>>

\* recover() returned something else than 'busy'.
RecoveryEnds == /\ rec' = NoRecovery /\ rechecks' = 0
                /\ UNCHANGED <<recTimer, heardBusy>>

\* Mutant of CheckLater: one check more than MaxBusyRechecks.
CheckLaterOnceMore ==
  /\ rec' = NoRecovery
  /\ IF rechecks > MaxBusyRechecks
     THEN rechecks' = 0 /\ UNCHANGED recTimer
     ELSE rechecks' = rechecks + 1 /\ recTimer' = "check"
  /\ UNCHANGED heardBusy

\* Busy, or a failed request of the watchdog: check again, so many times.
CheckLater ==
  /\ rec' = NoRecovery
  /\ IF rechecks + 1 > MaxBusyRechecks
     THEN rechecks' = 0 /\ UNCHANGED recTimer
     ELSE rechecks' = rechecks + 1 /\ recTimer' = "check"
  /\ UNCHANGED heardBusy

RecoveryStatus ==
  /\ rec.pc = "status"
  /\ IF Working THEN CheckLater ELSE GoOn("read")

\* An answer that cannot be read (the session, its statuses, its messages)
\* ends recover() with no re-check; but for the statuses the busy event heard
\* last stands in.
RecoveryMalformed ==
  /\ rec.pc \in {"status", "read", "reread"}
  /\ Spend("fault")
  /\ \/ RecoveryEnds
     \/ rec.pc = "status" /\ heardBusy /\ CheckLater

\* Mutant of RecoveryRead: one attempt more than MaxAttempts.
RecoveryReadOnceMore ==
  /\ rec.pc = "read"
  /\ IF Recoverable(TailKind) /\ Attempts <= MaxAttempts
     THEN /\ rec' = [rec EXCEPT !.pc = "reread", !.tail = Tail1]
          /\ UNCHANGED <<recTimer, rechecks, heardBusy>>
     ELSE RecoveryEnds

RecoveryRead ==
  /\ rec.pc = "read"
  /\ IF Recoverable(TailKind) /\ Attempts < MaxAttempts
     THEN /\ rec' = [rec EXCEPT !.pc = "reread", !.tail = Tail1]
          /\ UNCHANGED <<recTimer, rechecks, heardBusy>>
     ELSE RecoveryEnds

RecoveryReread ==
  /\ rec.pc = "reread"
  /\ IF Tail1 = rec.tail /\ Recoverable(TailKind) THEN GoOn("post") ELSE RecoveryEnds

\* The prompt reaches OpenCode; its answer is still to come.
RecoveryPosts == rec.pc = "post" /\ PromptArrives("recovery") /\ GoOn("sent")

RecoveryPosted == rec.pc = "sent" /\ RecoveryEnds

\* Mutant of RecoveryFails: a prompt whose answer was lost is sent again.
RecoveryFailsAndResends ==
  /\ rec.pc \in {"status", "read", "reread", "post", "sent"}
  /\ Spend("fault")
  /\ CASE rec.pc = "sent" -> GoOn("post")
       [] rec.pc # "sent" /\ rec.check -> CheckLater
       [] OTHER -> rec' = NoRecovery /\ UNCHANGED <<recTimer, rechecks, heardBusy>>

\* A request of recover() fails; one that may have sent the prompt is final.
RecoveryFails ==
  /\ rec.pc \in {"status", "read", "reread", "post", "sent"}
  /\ Spend("fault")
  /\ IF rec.check /\ rec.pc \notin {"post", "sent"} THEN CheckLater
     ELSE /\ rec' = NoRecovery
          /\ UNCHANGED <<recTimer, rechecks, heardBusy>>

RecoveryCrash == /\ recTimer' = "none" /\ rechecks' = 0 /\ heardBusy' = FALSE
                 /\ rec' = NoRecovery

(***************************************************************************)
(* Properties                                                              *)
(***************************************************************************)
RecoveryTypeOK ==
  /\ recTimer \in {"none", "quiet", "check"}
  /\ rechecks \in 0 .. MaxBusyRechecks
  /\ heardBusy \in BOOLEAN
  /\ rec \in [pc : {"none", "status", "read", "reread", "post", "sent"},
              check : BOOLEAN, tail : 0 .. MaxLog]

\* At most MaxAttempts recovery prompts follow a visible user message, through
\* crashes, failed answers and prompts of the goal runtime in between
\* (DOCUMENTATION.md: "a server restart cannot reset the bound").
RecoveryBounded == Attempts <= MaxAttempts
=============================================================================
