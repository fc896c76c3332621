---------------------------- MODULE BrowserBroker ----------------------------
(* The browser-control broker of the web server (browser-control/broker.js  *)
(* and routes.js, emitRequest of server/index.js) with the clients it talks *)
(* to (ui/src/lib/browser/controlClient.ts): one request goes to every      *)
(* client that could serve it, a client asks for the right to perform it,   *)
(* acts, and posts the result. The event, the claim, its answer and the     *)
(* result each travel on their own and can be lost.                         *)
(*                                                                          *)
(* A request is a panel.* action, browser.open, or another browser.* action *)
(* (PageAction). Only the path without a server-owned browser is modelled.  *)

CONSTANTS Requests,   \* calls of broker.request, each with an id of its own
          Clients,    \* pages of the UI
          Drivers,    \* those in the desktop shell, which can drive a page
          Views,      \* browser panes a client may show
          NoView,     \* no pane is registered (activeController is null)
          Nobody      \* no client

ASSUME DriversAssumption == Drivers \subseteq Clients
ASSUME NoViewAssumption == NoView \notin Views
ASSUME NobodyAssumption == Nobody \notin Clients

VARIABLES
  stream,    \* stream[c]: c's event stream as the server knows it
  view,      \* view[c]: the registered browser pane
  panel,     \* panel[c]: c has a right panel registered
  kind,      \* kind[r]: the kind of action asked for
  entry,     \* entry[r]: r's entry in the pending map
  answer,    \* answer[r]: what the promise of r settled with
  aborted,   \* aborted[r]: the caller's AbortSignal has fired
  job,       \* job[c][r]: how far c is with r, messages on the way included
  target,    \* target[c][r]: the pane c captured for r
  grantee,   \* history: the client r was granted to
  touched,   \* history: the clients that started to act for r
  finished   \* history: r's action ran to its end

wires == <<stream, view, panel>>
server == <<kind, entry, answer, aborted, grantee>>
pages == <<job, target, touched, finished>>
vars == <<wires, server, pages>>

Kinds == {"panel", "open", "PageAction"}
Jobs == {"none",       \* r was not sent to c
         "sent",       \* the event is on its way to c
         "asking",     \* the claim is on its way to the server
         "granted", "refused",           \* the answer is on its way back
         "opening",    \* the tab was opened, its view is awaited
         "acting",     \* the controller runs the action
         "succeeded", "failed",          \* the result is on its way
         "over"}
Answers == {"unasked", "waiting", "nobody", "unstarted", "ok", "error",
            "timeout", "cancelled"}

Init ==
  /\ stream \in [Clients -> {"off", "plain"}]
  /\ view = [c \in Clients |-> NoView]
  /\ panel = [c \in Clients |-> FALSE]
  /\ kind \in [Requests -> Kinds]
  /\ entry = [r \in Requests |-> "absent"]
  /\ answer = [r \in Requests |-> "unasked"]
  /\ aborted = [r \in Requests |-> FALSE]
  /\ grantee = [r \in Requests |-> Nobody]
  /\ job = [c \in Clients |-> [r \in Requests |-> "none"]]
  /\ target = [c \in Clients |-> [r \in Requests |-> NoView]]
  /\ touched = [r \in Requests |-> {}]
  /\ finished = [r \in Requests |-> FALSE]

-----------------------------------------------------------------------------
(* The server.                                                              *)

\* Clients emitRequest writes to: those whose connection declared that it can
\* serve the action; any client can serve browser.open.
Reachable(r) ==
  {c \in Clients : /\ stream[c] # "off"
                   /\ kind[r] = "PageAction" => c \in Drivers
                   /\ kind[r] = "panel" => stream[c] = "panel"}

\* The end of a request: its entry leaves the map and its promise settles.
Settle(r, a) ==
  /\ entry[r] # "absent"
  /\ entry' = [entry EXCEPT ![r] = "absent"]
  /\ answer' = [answer EXCEPT ![r] = a]

\* What a new request comes to once its event went to `reached`. A caller that
\* gave up before it called gets no entry, though the event has gone out.
\* Mutant of Enter: the entry is made before the signal is looked at.
EnterBeforeSignal(r, reached) ==
  IF reached = {}
  THEN answer' = [answer EXCEPT ![r] = "nobody"] /\ UNCHANGED entry
  ELSE /\ entry' = [entry EXCEPT ![r] = "waiting"]
       /\ answer' = [answer EXCEPT
                       ![r] = IF aborted[r] THEN "unstarted" ELSE "waiting"]
Enter(r, reached) ==
  \/ /\ reached = {}
     /\ answer' = [answer EXCEPT ![r] = "nobody"]
     /\ UNCHANGED entry
  \/ /\ reached # {} /\ aborted[r]
     /\ answer' = [answer EXCEPT ![r] = "unstarted"]
     /\ UNCHANGED entry
  \/ /\ reached # {} /\ ~aborted[r]
     /\ answer' = [answer EXCEPT ![r] = "waiting"]
     /\ entry' = [entry EXCEPT ![r] = "waiting"]

\* The agent's tool call. A client whose stream cannot be written to is
\* dropped and not counted.
Request(r) ==
  /\ answer[r] = "unasked"
  /\ \E broken \in SUBSET Reachable(r) :
       LET reached == Reachable(r) \ broken
       IN  /\ stream' = [c \in Clients |->
                           IF c \in broken THEN "off" ELSE stream[c]]
           /\ job' = [c \in Clients |->
                        IF c \in reached THEN [job[c] EXCEPT ![r] = "sent"]
                        ELSE job[c]]
           /\ Enter(r, reached)
  /\ UNCHANGED <<view, panel, kind, aborted, grantee, target, touched, finished>>

\* The caller disconnects; before the call, or while it waits.
Abort(r) ==
  /\ ~aborted[r]
  /\ aborted' = [aborted EXCEPT ![r] = TRUE]
  /\ \/ answer[r] = "unasked" /\ UNCHANGED <<entry, answer>>
     \/ answer[r] = "waiting" /\ Settle(r, "cancelled")
  /\ UNCHANGED <<wires, kind, grantee, pages>>

\* Mutant of TimeUp: the timer only covers requests nobody has claimed.
TimeUpUnclaimed(r) ==
  /\ entry[r] = "waiting"
  /\ Settle(r, "timeout")
  /\ UNCHANGED <<wires, kind, aborted, grantee, pages>>
TimeUp(r) ==
  /\ Settle(r, "timeout")
  /\ UNCHANGED <<wires, kind, aborted, grantee, pages>>

\* Whether a claim that arrives now is granted.
\* Mutant of MayClaim: any claim on a request that still waits is granted.
MayClaimAgain(r) == entry[r] # "absent"
\* Mutant of MayClaim: only a claimed entry refuses, an unknown id does not.
MayClaimUnknown(r) == entry[r] # "claimed"
MayClaim(r) == entry[r] = "waiting"

\* POST /api/browser-control/claim.
Claim(c, r) ==
  /\ job[c][r] = "asking"
  /\ \/ /\ MayClaim(r)
        /\ entry' = [entry EXCEPT ![r] = "claimed"]
        /\ grantee' = [grantee EXCEPT ![r] = c]
        /\ job' = [job EXCEPT ![c][r] = "granted"]
     \/ /\ ~MayClaim(r)
        /\ job' = [job EXCEPT ![c][r] = "refused"]
        /\ UNCHANGED <<entry, grantee>>
  /\ UNCHANGED <<wires, kind, answer, aborted, target, touched, finished>>

\* POST /api/browser-control/result; a result nobody waits for is dropped.
Resolve(c, r) ==
  /\ job[c][r] \in {"succeeded", "failed"}
  /\ job' = [job EXCEPT ![c][r] = "over"]
  /\ \/ Settle(r, IF job[c][r] = "succeeded" THEN "ok" ELSE "error")
     \/ entry[r] = "absent" /\ UNCHANGED <<entry, answer>>
  /\ UNCHANGED <<wires, kind, aborted, grantee, target, touched, finished>>

-----------------------------------------------------------------------------
(* A client.                                                                *)

\* The event reaches c. It asks for the request if it has something to act
\* with (the panel's directory may not be the one asked for), and remembers
\* which pane that is.
Receive(c, r) ==
  /\ job[c][r] = "sent"
  /\ \/ /\ IF kind[r] = "panel" THEN panel[c]
           ELSE view[c] # NoView \/ kind[r] = "open"
        /\ job' = [job EXCEPT ![c][r] = "asking"]
        /\ target' = [target EXCEPT ![c][r] =
                        IF kind[r] = "panel" THEN NoView ELSE view[c]]
     \/ /\ view[c] = NoView \/ kind[r] = "panel"
        /\ job' = [job EXCEPT ![c][r] = "over"]
        /\ UNCHANGED target
  /\ UNCHANGED <<wires, server, touched, finished>>

\* The answer to the claim arrives: only a grant lets the client act.
\* Mutant of Proceed: a refused claim is acted on as well.
ProceedAnyway(c, r) ==
  /\ job[c][r] \in {"granted", "refused"}
  /\ touched' = [touched EXCEPT ![r] = @ \cup {c}]
  /\ job' = [job EXCEPT ![c][r] =
               IF kind[r] = "open" /\ target[c][r] = NoView
               THEN "opening" ELSE "acting"]
  /\ UNCHANGED <<wires, server, target, finished>>
Proceed(c, r) ==
  /\ \/ /\ job[c][r] = "granted"
        /\ touched' = [touched EXCEPT ![r] = @ \cup {c}]
        /\ job' = [job EXCEPT ![c][r] =
                     IF kind[r] = "open" /\ target[c][r] = NoView
                     THEN "opening" ELSE "acting"]
     \/ /\ job[c][r] = "refused"
        /\ job' = [job EXCEPT ![c][r] = "over"]
        /\ UNCHANGED touched
  /\ UNCHANGED <<wires, server, target, finished>>

\* waitForController: the opened tab's pane registers, or time runs out.
Attach(c, r) ==
  /\ job[c][r] = "opening"
  /\ \/ /\ view[c] # NoView
        /\ target' = [target EXCEPT ![c][r] = view[c]]
        /\ job' = [job EXCEPT ![c][r] = "acting"]
     \/ /\ view[c] = NoView
        /\ job' = [job EXCEPT ![c][r] = "failed"]
        /\ UNCHANGED target
  /\ UNCHANGED <<wires, server, touched, finished>>

\* The controller's run settles and the result is posted.
RunEnds(c, r) ==
  /\ job[c][r] = "acting"
  /\ \/ /\ finished' = [finished EXCEPT ![r] = TRUE]
        /\ job' = [job EXCEPT ![c][r] = "succeeded"]
     \/ /\ job' = [job EXCEPT ![c][r] = "failed"]
        /\ UNCHANGED finished
  /\ UNCHANGED <<wires, server, target, touched>>

\* A message of c about r is lost: the event, the claim, its answer or the
\* result. The client treats a lost claim as a refusal and retries nothing.
Drop(c, r) ==
  /\ job[c][r] \in {"sent", "asking", "granted", "refused", "succeeded", "failed"}
  /\ job' = [job EXCEPT ![c][r] = "over"]
  /\ UNCHANGED <<wires, server, target, touched, finished>>

\* A browser pane becomes the visible one, or the visible one goes. (A stale
\* cleanup leaves a newer registration alone.)
Show(c, v) ==
  /\ view[c] # v
  /\ view' = [view EXCEPT ![c] = v]
  /\ UNCHANGED <<stream, panel, server, pages>>

\* The right panel is mounted or unmounted: the stream is opened again with
\* the new capability if it was open.
SetPanel(c, mounted) ==
  /\ panel[c] # mounted
  /\ panel' = [panel EXCEPT ![c] = mounted]
  /\ stream' = [stream EXCEPT ![c] =
                  IF @ = "off" THEN "off" ELSE IF mounted THEN "panel" ELSE "plain"]
  /\ UNCHANGED <<view, server, pages>>

\* The stream breaks and is opened again.
Disconnect(c) ==
  /\ stream[c] # "off"
  /\ stream' = [stream EXCEPT ![c] = "off"]
  /\ UNCHANGED <<view, panel, server, pages>>
Connect(c) ==
  /\ stream[c] = "off"
  /\ stream' = [stream EXCEPT ![c] = IF panel[c] THEN "panel" ELSE "plain"]
  /\ UNCHANGED <<view, panel, server, pages>>

\* The page of c goes away with everything it was doing. A claim it had sent
\* is lost here (one that arrives is a Claim before this); a result it had sent
\* is still delivered (Drop is the case where it is not).
Close(c) ==
  /\ stream' = [stream EXCEPT ![c] = "off"]
  /\ view' = [view EXCEPT ![c] = NoView]
  /\ panel' = [panel EXCEPT ![c] = FALSE]
  /\ job' = [job EXCEPT ![c] = [r \in Requests |->
               IF job[c][r] \in {"none", "succeeded", "failed"}
               THEN job[c][r] ELSE "over"]]
  /\ UNCHANGED <<server, target, touched, finished>>

-----------------------------------------------------------------------------
Next ==
  \/ \E r \in Requests : Request(r) \/ Abort(r) \/ TimeUp(r)
  \/ \E c \in Clients, r \in Requests :
       \/ Claim(c, r) \/ Resolve(c, r)
       \/ Receive(c, r) \/ Proceed(c, r) \/ Attach(c, r) \/ RunEnds(c, r)
       \/ Drop(c, r)
  \/ \E c \in Clients :
       \/ \E v \in Views \cup {NoView} : Show(c, v)
       \/ \E mounted \in BOOLEAN : SetPanel(c, mounted)
       \/ Disconnect(c) \/ Connect(c) \/ Close(c)

Spec == Init /\ [][Next]_vars

\* setTimeout fires in the end, whatever the clients do.
FairSpec == Spec /\ \A r \in Requests : WF_vars(TimeUp(r))

-----------------------------------------------------------------------------
(* Properties.                                                              *)

\* Types, and the tie between the map and the promises: a request has an entry
\* exactly as long as its caller waits, and is claimed once it has a grantee.
BrokerTypeOK ==
  /\ stream \in [Clients -> {"off", "plain", "panel"}]
  /\ view \in [Clients -> Views \cup {NoView}]
  /\ panel \in [Clients -> BOOLEAN]
  /\ kind \in [Requests -> Kinds]
  /\ entry \in [Requests -> {"absent", "waiting", "claimed"}]
  /\ answer \in [Requests -> Answers]
  /\ aborted \in [Requests -> BOOLEAN]
  /\ job \in [Clients -> [Requests -> Jobs]]
  /\ target \in [Clients -> [Requests -> Views \cup {NoView}]]
  /\ grantee \in [Requests -> Clients \cup {Nobody}]
  /\ touched \in [Requests -> SUBSET Clients]
  /\ finished \in [Requests -> BOOLEAN]
  /\ \A r \in Requests :
       /\ entry[r] # "absent" <=> answer[r] = "waiting"
       /\ entry[r] = "claimed" => grantee[r] # Nobody

\* Of all the clients a request was broadcast to, at most one ever starts to
\* act on it, however claims, timeouts, aborts and losses interleave.
OnePerformer ==
  \A r \in Requests : \A c, d \in touched[r] : c = d

\* A caller that was told "nothing was changed" (503), or had given up before
\* it asked, is told the truth: no client acts on its request, then or later.
NothingChanged ==
  \A r \in Requests : answer[r] \in {"nobody", "unstarted"} => touched[r] = {}

\* Every request is answered: no lost message, closed page or refused claim
\* leaves the agent's call hanging.
EveryCallerAnswered ==
  \A r \in Requests : answer[r] = "waiting" ~> answer[r] # "waiting"

\* The broker and its clients implement the abstract request.
Requested == INSTANCE BrowserRequest WITH performer <- grantee, done <- finished
RefinesRequest == Requested!Spec
=============================================================================
