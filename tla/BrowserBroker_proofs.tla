------------------------ MODULE BrowserBroker_proofs ------------------------
(* Proofs about the browser-control broker, for any number of requests,     *)
(* clients and panes.                                                       *)
EXTENDS BrowserBroker, TLAPS

\* A client that holds a grant, acts, or has a result on its way is the one
\* the request was granted to; so is every client that ever touched the page.
GranteesAct ==
  \A c \in Clients, r \in Requests :
    \/ job[c][r] \in {"granted", "opening", "acting", "succeeded", "failed"}
    \/ c \in touched[r]
    => grantee[r] = c

\* A request is granted once: before its grant it has no grantee, and once it
\* has one its entry is claimed or gone. A call that never had an entry has none.
GrantedOnce ==
  \A r \in Requests :
    /\ entry[r] = "waiting" => grantee[r] = Nobody
    /\ answer[r] \in {"unasked", "nobody", "unstarted"} => grantee[r] = Nobody

\* A success on its way to the server is that of an action that has finished.
SuccessFinished ==
  \A c \in Clients, r \in Requests :
    job[c][r] = "succeeded" => finished[r]

IInv == BrokerTypeOK /\ GranteesAct /\ GrantedOnce /\ SuccessFinished

\* The invariant holds before the first request.
LEMMA InitInv == Init => IInv
BY NobodyAssumption
DEF Init, IInv, BrokerTypeOK, GranteesAct, GrantedOnce, SuccessFinished,
    Kinds, Jobs, Answers

\* Setting one entry of a client-by-request table keeps its type.
LEMMA TableType ==
  ASSUME NEW S, NEW f \in [Clients -> [Requests -> S]],
         NEW c \in Clients, NEW r \in Requests, NEW v \in S
  PROVE  [f EXCEPT ![c][r] = v] \in [Clients -> [Requests -> S]]
OBVIOUS

\* A request enters the map, or is answered at once; nobody has acted yet.
LEMMA RequestInv ==
  ASSUME IInv, NEW r \in Requests, Request(r)
  PROVE  IInv'
<1>1. PICK broken \in SUBSET Reachable(r) :
        LET reached == Reachable(r) \ broken
        IN  /\ stream' = [c \in Clients |->
                            IF c \in broken THEN "off" ELSE stream[c]]
            /\ job' = [c \in Clients |->
                         IF c \in reached THEN [job[c] EXCEPT ![r] = "sent"]
                         ELSE job[c]]
            /\ Enter(r, reached)
  BY DEF Request
<1>2. /\ entry[r] = "absent"
      /\ grantee[r] = Nobody
  BY DEF Request, IInv, BrokerTypeOK, GrantedOnce
<1>3. BrokerTypeOK'
  <2>1. job' \in [Clients -> [Requests -> Jobs]]
    BY <1>1 DEF IInv, BrokerTypeOK, Jobs
  <2>2. stream' \in [Clients -> {"off", "plain", "panel"}]
    BY <1>1 DEF IInv, BrokerTypeOK
  <2>3. /\ entry' \in [Requests -> {"absent", "waiting", "claimed"}]
        /\ answer' \in [Requests -> Answers]
        /\ \A q \in Requests :
             /\ entry'[q] # "absent" <=> answer'[q] = "waiting"
             /\ entry'[q] = "claimed" => grantee[q] # Nobody
    BY <1>1, <1>2 DEF Enter, IInv, BrokerTypeOK, Answers
  <2>4. QED
    BY <2>1, <2>2, <2>3 DEF Request, IInv, BrokerTypeOK
<1>4. \A c \in Clients, q \in Requests :
        job'[c][q] = job[c][q] \/ job'[c][q] = "sent"
  BY <1>1 DEF IInv, BrokerTypeOK
<1>5. GranteesAct' /\ SuccessFinished'
  BY <1>4 DEF Request, IInv, GranteesAct, SuccessFinished
<1>6. GrantedOnce'
  BY <1>1, <1>2 DEF Request, Enter, IInv, BrokerTypeOK, GrantedOnce, Answers
<1>7. QED
  BY <1>3, <1>5, <1>6 DEF IInv

\* Settling a request removes its entry together with the wait of its caller.
LEMMA SettleInv ==
  ASSUME IInv, NEW r \in Requests,
         NEW a \in {"ok", "error", "timeout", "cancelled"}, Settle(r, a),
         UNCHANGED <<wires, kind, grantee, target, touched, finished>>,
         aborted' \in [Requests -> BOOLEAN],
         job' \in [Clients -> [Requests -> Jobs]],
         \A c \in Clients, q \in Requests :
           job'[c][q] = job[c][q] \/ job'[c][q] = "over"
  PROVE  IInv'
<1>1. BrokerTypeOK'
  BY DEF Settle, IInv, BrokerTypeOK, Answers, wires
<1>2. GranteesAct' /\ SuccessFinished'
  BY DEF IInv, GranteesAct, SuccessFinished
<1>3. GrantedOnce'
  BY DEF Settle, IInv, BrokerTypeOK, GrantedOnce
<1>4. QED
  BY <1>1, <1>2, <1>3 DEF IInv

\* Moving a job to its end, or to a refusal, disturbs nothing.
LEMMA JobEndsInv ==
  ASSUME IInv, UNCHANGED <<server, touched, finished>>,
         stream' \in [Clients -> {"off", "plain", "panel"}],
         view' \in [Clients -> Views \cup {NoView}],
         panel' \in [Clients -> BOOLEAN],
         target' \in [Clients -> [Requests -> Views \cup {NoView}]],
         job' \in [Clients -> [Requests -> Jobs]],
         \A c \in Clients, q \in Requests :
           job'[c][q] = job[c][q] \/ job'[c][q] \in {"asking", "refused", "over"}
  PROVE  IInv'
<1>1. BrokerTypeOK'
  BY DEF IInv, BrokerTypeOK, server
<1>2. \A c \in Clients, q \in Requests :
        job'[c][q] \in {"granted", "opening", "acting", "succeeded", "failed"}
        => job'[c][q] = job[c][q]
  OBVIOUS
<1>3. GranteesAct'
  BY <1>2 DEF IInv, GranteesAct, server
<1>4. GrantedOnce' /\ SuccessFinished'
  BY <1>2 DEF IInv, GrantedOnce, SuccessFinished, server
<1>5. QED
  BY <1>1, <1>3, <1>4 DEF IInv

LEMMA AbortInv ==
  ASSUME IInv, NEW r \in Requests, Abort(r)
  PROVE  IInv'
<1>1. /\ aborted' \in [Requests -> BOOLEAN]
      /\ job' = job
      /\ UNCHANGED <<wires, kind, grantee, target, touched, finished>>
  BY DEF Abort, pages, IInv, BrokerTypeOK
<1>2. job' \in [Clients -> [Requests -> Jobs]]
  BY <1>1 DEF IInv, BrokerTypeOK
<1>3. CASE UNCHANGED <<entry, answer>>
  BY <1>1, <1>3
  DEF wires, IInv, BrokerTypeOK, GranteesAct, GrantedOnce, SuccessFinished
<1>4. CASE Settle(r, "cancelled")
  BY <1>1, <1>2, <1>4, SettleInv
<1>5. QED
  BY <1>3, <1>4 DEF Abort

LEMMA TimeUpInv ==
  ASSUME IInv, NEW r \in Requests, TimeUp(r)
  PROVE  IInv'
<1>1. /\ Settle(r, "timeout")
      /\ aborted' = aborted
      /\ job' = job
      /\ UNCHANGED <<wires, kind, grantee, target, touched, finished>>
  BY DEF TimeUp, pages
<1>2. /\ aborted' \in [Requests -> BOOLEAN]
      /\ job' \in [Clients -> [Requests -> Jobs]]
  BY <1>1 DEF IInv, BrokerTypeOK
<1>3. QED
  BY <1>1, <1>2, SettleInv

\* A claim is granted only while the entry waits, that is, while the request
\* has no grantee: this is where a second performer is kept out.
LEMMA ClaimInv ==
  ASSUME IInv, NEW c \in Clients, NEW r \in Requests, Claim(c, r)
  PROVE  IInv'
<1>1. CASE /\ MayClaim(r)
           /\ entry' = [entry EXCEPT ![r] = "claimed"]
           /\ grantee' = [grantee EXCEPT ![r] = c]
           /\ job' = [job EXCEPT ![c][r] = "granted"]
  <2>1. /\ entry[r] = "waiting"
        /\ grantee[r] = Nobody
        /\ answer[r] = "waiting"
    BY <1>1 DEF MayClaim, IInv, BrokerTypeOK, GrantedOnce
  <2>2. BrokerTypeOK'
    BY <1>1, <2>1, NobodyAssumption DEF Claim, wires, IInv, BrokerTypeOK, Jobs
  <2>3. \A d \in Clients, q \in Requests :
          <<d, q>> # <<c, r>> => job'[d][q] = job[d][q]
    BY <1>1 DEF IInv, BrokerTypeOK
  <2>4. \A d \in Clients :
          /\ job[d][r] \notin {"granted", "opening", "acting", "succeeded", "failed"}
          /\ d \notin touched[r]
    BY <2>1, NobodyAssumption DEF IInv, GranteesAct
  <2>5. GranteesAct'
    BY <1>1, <2>3, <2>4 DEF Claim, IInv, BrokerTypeOK, GranteesAct
  <2>6. GrantedOnce'
    BY <1>1, <2>1 DEF Claim, IInv, BrokerTypeOK, GrantedOnce
  <2>7. SuccessFinished'
    BY <1>1 DEF Claim, IInv, BrokerTypeOK, SuccessFinished
  <2>8. QED
    BY <2>2, <2>5, <2>6, <2>7 DEF IInv
<1>2. CASE /\ job' = [job EXCEPT ![c][r] = "refused"]
           /\ UNCHANGED <<entry, grantee>>
  <2>1. UNCHANGED <<server, touched, finished, wires, target>>
    BY <1>2 DEF Claim, server
  <2>2. /\ job' \in [Clients -> [Requests -> Jobs]]
        /\ \A d \in Clients, q \in Requests :
             job'[d][q] = job[d][q] \/ job'[d][q] = "refused"
    BY <1>2 DEF IInv, BrokerTypeOK, Jobs
  <2>3. QED
    BY <2>1, <2>2, JobEndsInv DEF wires, IInv, BrokerTypeOK
<1>3. QED
  BY <1>1, <1>2 DEF Claim

LEMMA ResolveInv ==
  ASSUME IInv, NEW c \in Clients, NEW r \in Requests, Resolve(c, r)
  PROVE  IInv'
<1>1. /\ job' \in [Clients -> [Requests -> Jobs]]
      /\ \A d \in Clients, q \in Requests :
           job'[d][q] = job[d][q] \/ job'[d][q] = "over"
  BY DEF Resolve, IInv, BrokerTypeOK, Jobs
<1>2. /\ UNCHANGED <<wires, kind, aborted, grantee, target, touched, finished>>
      /\ aborted' \in [Requests -> BOOLEAN]
  BY DEF Resolve, IInv, BrokerTypeOK
<1>3. CASE Settle(r, IF job[c][r] = "succeeded" THEN "ok" ELSE "error")
  BY <1>1, <1>2, <1>3, SettleInv
<1>4. CASE UNCHANGED <<entry, answer>>
  BY <1>1, <1>2, <1>4, JobEndsInv DEF server, wires, IInv, BrokerTypeOK
<1>5. QED
  BY <1>3, <1>4 DEF Resolve

LEMMA ReceiveInv ==
  ASSUME IInv, NEW c \in Clients, NEW r \in Requests, Receive(c, r)
  PROVE  IInv'
<1>1. /\ job' \in [Clients -> [Requests -> Jobs]]
      /\ target' \in [Clients -> [Requests -> Views \cup {NoView}]]
      /\ \A d \in Clients, q \in Requests :
           job'[d][q] = job[d][q] \/ job'[d][q] \in {"asking", "over"}
  <2>1. PICK step \in {"asking", "over"} : job' = [job EXCEPT ![c][r] = step]
    BY DEF Receive
  <2>2. \/ target' = target
        \/ target' = [target EXCEPT ![c][r] = NoView]
        \/ target' = [target EXCEPT ![c][r] = view[c]]
    BY DEF Receive
  <2>3. target' \in [Clients -> [Requests -> Views \cup {NoView}]]
    <3>1. /\ view[c] \in Views \cup {NoView}
          /\ target \in [Clients -> [Requests -> Views \cup {NoView}]]
      BY DEF IInv, BrokerTypeOK
    <3>2. CASE target' = target
      BY <3>1, <3>2
    <3>3. CASE target' = [target EXCEPT ![c][r] = NoView]
      <4>1. NoView \in Views \cup {NoView}
        OBVIOUS
      <4>2. QED
        BY <3>1, <3>3, <4>1, TableType
    <3>4. CASE target' = [target EXCEPT ![c][r] = view[c]]
      BY <3>1, <3>4, TableType
    <3>5. QED
      BY <2>2, <3>2, <3>3, <3>4
  <2>4. /\ job' \in [Clients -> [Requests -> Jobs]]
        /\ \A d \in Clients, q \in Requests :
             job'[d][q] = job[d][q] \/ job'[d][q] = step
    <3>1. step \in Jobs
      BY DEF Jobs
    <3>2. QED
      BY <2>1, <3>1 DEF IInv, BrokerTypeOK
  <2>5. QED
    BY <2>3, <2>4
<1>2. UNCHANGED <<wires, server, touched, finished>>
  BY DEF Receive
<1>3. QED
  BY <1>1, <1>2, JobEndsInv DEF wires, IInv, BrokerTypeOK

\* The one client that goes on with its job stays the grantee it was.
LEMMA GranteeGoesOnInv ==
  ASSUME IInv, NEW c \in Clients, NEW r \in Requests, NEW step \in Jobs,
         grantee[r] = c,
         UNCHANGED <<wires, server>>,
         job' = [job EXCEPT ![c][r] = step],
         target' \in [Clients -> [Requests -> Views \cup {NoView}]],
         touched' = touched \/ touched' = [touched EXCEPT ![r] = @ \cup {c}],
         finished' = finished \/ finished' = [finished EXCEPT ![r] = TRUE],
         step = "succeeded" => finished'[r]
  PROVE  IInv'
<1>1. BrokerTypeOK'
  <2>1. job' \in [Clients -> [Requests -> Jobs]]
    BY DEF IInv, BrokerTypeOK
  <2>2. touched' \in [Requests -> SUBSET Clients]
    BY DEF IInv, BrokerTypeOK
  <2>3. finished' \in [Requests -> BOOLEAN]
    BY DEF IInv, BrokerTypeOK
  <2>4. QED
    BY <2>1, <2>2, <2>3 DEF wires, server, IInv, BrokerTypeOK
<1>2. \A d \in Clients, q \in Requests :
        /\ <<d, q>> # <<c, r>> => job'[d][q] = job[d][q]
        /\ job'[c][r] = step
  BY DEF IInv, BrokerTypeOK
<1>3. \A d \in Clients, q \in Requests :
        d \in touched'[q] => d \in touched[q] \/ (d = c /\ q = r)
  BY DEF IInv, BrokerTypeOK
<1>4. \A q \in Requests : finished[q] => finished'[q]
  BY DEF IInv, BrokerTypeOK
<1>5. GranteesAct'
  BY <1>2, <1>3 DEF server, IInv, GranteesAct
<1>6. SuccessFinished'
  BY <1>2, <1>4 DEF IInv, SuccessFinished
<1>7. GrantedOnce'
  BY DEF server, IInv, GrantedOnce
<1>8. QED
  BY <1>1, <1>5, <1>6, <1>7 DEF IInv

LEMMA ProceedInv ==
  ASSUME IInv, NEW c \in Clients, NEW r \in Requests, Proceed(c, r)
  PROVE  IInv'
<1>1. CASE job[c][r] = "granted"
  <2>1. grantee[r] = c
    BY <1>1 DEF IInv, GranteesAct
  <2>2. PICK step \in {"opening", "acting"} :
          /\ job' = [job EXCEPT ![c][r] = step]
          /\ touched' = [touched EXCEPT ![r] = @ \cup {c}]
    BY <1>1 DEF Proceed
  <2>3. QED
    BY <2>1, <2>2, GranteeGoesOnInv DEF Proceed, IInv, BrokerTypeOK, Jobs
<1>2. CASE job' = [job EXCEPT ![c][r] = "over"] /\ touched' = touched
  <2>1. /\ job' \in [Clients -> [Requests -> Jobs]]
        /\ \A d \in Clients, q \in Requests :
             job'[d][q] = job[d][q] \/ job'[d][q] = "over"
    BY <1>2 DEF IInv, BrokerTypeOK, Jobs
  <2>2. UNCHANGED <<wires, server, target, touched, finished>>
    BY <1>2 DEF Proceed
  <2>3. QED
    BY <2>1, <2>2, JobEndsInv DEF wires, IInv, BrokerTypeOK
<1>3. QED
  BY <1>1, <1>2 DEF Proceed

LEMMA AttachInv ==
  ASSUME IInv, NEW c \in Clients, NEW r \in Requests, Attach(c, r)
  PROVE  IInv'
<1>1. grantee[r] = c
  BY DEF Attach, IInv, GranteesAct
<1>2. target' \in [Clients -> [Requests -> Views \cup {NoView}]]
  <2>1. target' = target \/ target' = [target EXCEPT ![c][r] = view[c]]
    BY DEF Attach
  <2>2. /\ view[c] \in Views \cup {NoView}
        /\ target \in [Clients -> [Requests -> Views \cup {NoView}]]
    BY DEF IInv, BrokerTypeOK
  <2>3. QED
    BY <2>1, <2>2, TableType
<1>3. PICK step \in {"acting", "failed"} : job' = [job EXCEPT ![c][r] = step]
  BY DEF Attach
<1>4. QED
  BY <1>1, <1>2, <1>3, GranteeGoesOnInv DEF Attach, Jobs

LEMMA RunEndsInv ==
  ASSUME IInv, NEW c \in Clients, NEW r \in Requests, RunEnds(c, r)
  PROVE  IInv'
<1>1. grantee[r] = c
  BY DEF RunEnds, IInv, GranteesAct
<1>2. target' \in [Clients -> [Requests -> Views \cup {NoView}]]
  BY DEF RunEnds, IInv, BrokerTypeOK
<1>3. PICK step \in {"succeeded", "failed"} :
        /\ job' = [job EXCEPT ![c][r] = step]
        /\ finished' = finished \/ finished' = [finished EXCEPT ![r] = TRUE]
        /\ step = "succeeded" => finished'[r]
  BY DEF RunEnds, IInv, BrokerTypeOK
<1>4. QED
  BY <1>1, <1>2, <1>3, GranteeGoesOnInv DEF RunEnds, Jobs

LEMMA DropInv ==
  ASSUME IInv, NEW c \in Clients, NEW r \in Requests, Drop(c, r)
  PROVE  IInv'
<1>1. /\ job' \in [Clients -> [Requests -> Jobs]]
      /\ \A d \in Clients, q \in Requests :
           job'[d][q] = job[d][q] \/ job'[d][q] = "over"
  BY DEF Drop, IInv, BrokerTypeOK, Jobs
<1>2. UNCHANGED <<wires, server, target, touched, finished>>
  BY DEF Drop
<1>3. QED
  BY <1>1, <1>2, JobEndsInv DEF wires, IInv, BrokerTypeOK

\* What a client does to its own panes, panel and stream; its closing too.
LEMMA ClientInv ==
  ASSUME IInv, NEW c \in Clients,
         \/ \E v \in Views \cup {NoView} : Show(c, v)
         \/ \E mounted \in BOOLEAN : SetPanel(c, mounted)
         \/ Disconnect(c) \/ Connect(c) \/ Close(c)
  PROVE  IInv'
<1> USE DEF IInv, BrokerTypeOK
<1>1. ASSUME NEW v \in Views \cup {NoView}, Show(c, v)
      PROVE  IInv'
  BY <1>1, JobEndsInv DEF Show, pages
<1>2. ASSUME NEW mounted \in BOOLEAN, SetPanel(c, mounted)
      PROVE  IInv'
  BY <1>2, JobEndsInv DEF SetPanel, pages
<1>3. CASE Disconnect(c)
  BY <1>3, JobEndsInv DEF Disconnect, pages
<1>4. CASE Connect(c)
  BY <1>4, JobEndsInv DEF Connect, pages
<1>5. CASE Close(c)
  <2>1. /\ job' \in [Clients -> [Requests -> Jobs]]
        /\ \A d \in Clients, q \in Requests :
             job'[d][q] = job[d][q] \/ job'[d][q] = "over"
    BY <1>5 DEF Close, Jobs
  <2>2. QED
    BY <1>5, <2>1, JobEndsInv DEF Close
<1>6. QED
  BY <1>1, <1>2, <1>3, <1>4, <1>5

\* Every step keeps the invariant.
LEMMA NextInv == IInv /\ [Next]_vars => IInv'
<1> SUFFICES ASSUME IInv, [Next]_vars PROVE IInv'
  OBVIOUS
<1>1. ASSUME NEW r \in Requests, Request(r) \/ Abort(r) \/ TimeUp(r)
      PROVE  IInv'
  BY <1>1, RequestInv, AbortInv, TimeUpInv
<1>2. ASSUME NEW c \in Clients, NEW r \in Requests,
             \/ Claim(c, r) \/ Resolve(c, r)
             \/ Receive(c, r) \/ Proceed(c, r) \/ Attach(c, r)
             \/ RunEnds(c, r) \/ Drop(c, r)
      PROVE  IInv'
  BY <1>2, ClaimInv, ResolveInv, ReceiveInv, ProceedInv, AttachInv,
     RunEndsInv, DropInv
<1>3. CASE UNCHANGED vars
  BY <1>3 DEF vars, wires, server, pages, IInv, BrokerTypeOK, GranteesAct,
              GrantedOnce, SuccessFinished
<1>4. QED
  BY <1>1, <1>2, <1>3, ClientInv DEF Next

\* The strengthened invariant holds throughout.
LEMMA Invariance == Spec => []IInv
BY InitInv, NextInv, PTL DEF Spec

\* Types, and an entry in the map exactly while its caller waits.
THEOREM TypeCorrect == Spec => []BrokerTypeOK
<1>1. IInv => BrokerTypeOK
  BY DEF IInv
<1>2. QED
  BY <1>1, Invariance, PTL

\* Two clients never both act on one request.
THEOREM OnlyOnePerforms == Spec => []OnePerformer
<1>1. IInv => OnePerformer
  BY DEF IInv, BrokerTypeOK, GranteesAct, OnePerformer
<1>2. QED
  BY <1>1, Invariance, PTL

\* A caller told that nothing was changed is told the truth for good.
THEOREM NothingChangedIsTrue == Spec => []NothingChanged
<1>1. IInv => NothingChanged
  BY NobodyAssumption
  DEF IInv, BrokerTypeOK, GranteesAct, GrantedOnce, NothingChanged
<1>2. QED
  BY <1>1, Invariance, PTL

\* Every step of the broker and its clients is a step of the abstract request,
\* or changes nothing it speaks of.
LEMMA StepRefines == IInv /\ [Next]_vars => [Requested!Next]_(Requested!vars)
<1> SUFFICES ASSUME IInv, [Next]_vars
             PROVE  Requested!Next \/ UNCHANGED <<answer, grantee, finished>>
  BY DEF Requested!vars
<1>1. ASSUME NEW r \in Requests, Request(r)
      PROVE  Requested!Refuse(r) \/ Requested!Ask(r)
  BY <1>1 DEF Request, Enter, Requested!Refuse, Requested!Ask
<1>2. ASSUME NEW r \in Requests, NEW a \in {"ok", "error", "timeout", "cancelled"},
             Settle(r, a), UNCHANGED <<grantee, finished>>,
             a = "ok" => finished[r],
             a = "error" => grantee[r] # Nobody
      PROVE  Requested!Answer(r, a)
  BY <1>2 DEF Settle, IInv, BrokerTypeOK, Requested!Answer
<1>3. ASSUME NEW r \in Requests, Abort(r)
      PROVE  \/ Requested!Answer(r, "cancelled")
             \/ UNCHANGED <<answer, grantee, finished>>
  BY <1>2, <1>3 DEF Abort, pages
<1>4. ASSUME NEW r \in Requests, TimeUp(r)
      PROVE  Requested!Answer(r, "timeout")
  BY <1>2, <1>4 DEF TimeUp, pages
<1>5. ASSUME NEW c \in Clients, NEW r \in Requests, Claim(c, r)
      PROVE  \/ Requested!Choose(r, c)
             \/ UNCHANGED <<answer, grantee, finished>>
  BY <1>5 DEF Claim, MayClaim, IInv, BrokerTypeOK, GrantedOnce, Requested!Choose
<1>6. ASSUME NEW c \in Clients, NEW r \in Requests, Resolve(c, r)
      PROVE  \/ \E a \in {"ok", "error"} : Requested!Answer(r, a)
             \/ UNCHANGED <<answer, grantee, finished>>
  <2>1. /\ grantee[r] = c
        /\ grantee[r] # Nobody
        /\ job[c][r] = "succeeded" => finished[r]
    BY <1>6, NobodyAssumption DEF Resolve, IInv, GranteesAct, SuccessFinished
  <2>2. CASE job[c][r] = "succeeded" /\ Settle(r, "ok")
    BY <1>2, <1>6, <2>1, <2>2 DEF Resolve
  <2>3. CASE job[c][r] # "succeeded" /\ Settle(r, "error")
    BY <1>2, <1>6, <2>1, <2>3 DEF Resolve
  <2>4. CASE UNCHANGED <<entry, answer>>
    BY <1>6, <2>4 DEF Resolve
  <2>5. QED
    BY <1>6, <2>2, <2>3, <2>4 DEF Resolve
<1>7. ASSUME NEW c \in Clients, NEW r \in Requests, RunEnds(c, r)
      PROVE  \/ Requested!Finish(r)
             \/ UNCHANGED <<answer, grantee, finished>>
  <2>1. grantee[r] # Nobody
    BY <1>7, NobodyAssumption DEF RunEnds, IInv, GranteesAct
  <2>2. UNCHANGED <<answer, grantee>>
    BY <1>7 DEF RunEnds, server
  <2>3. CASE finished' = [finished EXCEPT ![r] = TRUE] /\ ~finished[r]
    BY <2>1, <2>2, <2>3 DEF Requested!Finish
  <2>4. CASE finished' = [finished EXCEPT ![r] = TRUE] /\ finished[r]
    <3>1. finished' = finished
      BY <2>4 DEF IInv, BrokerTypeOK
    <3>2. QED
      BY <2>2, <3>1
  <2>5. QED
    BY <1>7, <2>2, <2>3, <2>4 DEF RunEnds
<1>8. ASSUME NEW c \in Clients, NEW r \in Requests,
             Receive(c, r) \/ Proceed(c, r) \/ Attach(c, r) \/ Drop(c, r)
      PROVE  UNCHANGED <<answer, grantee, finished>>
  BY <1>8 DEF Receive, Proceed, Attach, Drop, server
<1>9. ASSUME NEW c \in Clients,
             \/ \E v \in Views \cup {NoView} : Show(c, v)
             \/ \E mounted \in BOOLEAN : SetPanel(c, mounted)
             \/ Disconnect(c) \/ Connect(c) \/ Close(c)
      PROVE  UNCHANGED <<answer, grantee, finished>>
  BY <1>9 DEF Show, SetPanel, Disconnect, Connect, Close, server, pages
<1>10. CASE UNCHANGED vars
  BY <1>10 DEF vars, server, pages
<1>11. \A r \in Requests, a \in {"ok", "error", "timeout", "cancelled"} :
         Requested!Answer(r, a) => Requested!Next
  BY DEF Requested!Next, Requested!Unperformed
<1>12. ASSUME Next PROVE Requested!Next \/ UNCHANGED <<answer, grantee, finished>>
  BY <1>1, <1>3, <1>4, <1>5, <1>6, <1>7, <1>8, <1>9, <1>11, <1>12
  DEF Next, Requested!Next
<1>13. QED
  BY <1>10, <1>12

\* The broker with its clients implements the abstract request: one performer
\* at most, chosen while the caller waits, and an honest answer.
THEOREM ImplementsRequest == Spec => RefinesRequest
<1>1. Init => Requested!Init
  BY DEF Init, Requested!Init
<1>2. QED
  BY <1>1, StepRefines, Invariance, PTL DEF Spec, RefinesRequest, Requested!Spec
=============================================================================
