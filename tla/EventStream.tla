----------------------------- MODULE EventStream -----------------------------
(* The global message stream: one reader on OpenCode's event stream         *)
(* (event-stream/upstream-reader.js), the hub that shares it                *)
(* (global-hub.js), the WebSocket bridge to the pages                       *)
(* (global-ws-bridge.js, runtime.js), and what a page does with the frames  *)
(* (ui/src/sync/event-pipeline.ts, sync-context.tsx).                       *)
(*                                                                          *)
(* OpenCode is external: it adds messages 1, 2, ... to a session and sends  *)
(* an event with that id for each to whoever is attached. A reader that     *)
(* attaches again with a Last-Event-ID may be sent what it missed, or not.  *)
EXTENDS Integers, Sequences, SequencesExt, FiniteSets

CONSTANTS
  Pages,         \* pages of the UI, each with one stream connection at a time
  MaxEvents,     \* bound: messages OpenCode adds
  ReplayLimit,   \* the hub's MESSAGE_STREAM_GLOBAL_REPLAY_LIMIT
  ResyncLimit,   \* RECONNECT_MESSAGE_LIMIT: the messages a resync reads
  MaxBreaks,     \* bound: breaks of the upstream, failed dials included
  MaxDrops,      \* bound: breaks of the pages' connections
  MaxRebinds     \* bound: managed restarts of OpenCode

ASSUME StreamAssumption ==
  /\ MaxEvents \in Nat /\ ReplayLimit \in Nat \ {0} /\ ResyncLimit \in Nat \ {0}
  /\ MaxBreaks \in Nat /\ MaxDrops \in Nat /\ MaxRebinds \in Nat

VARIABLES
  now,            \* the messages OpenCode holds are 1..now
  conn,           \* the reader's attempt: dialing or attached
  resume,         \* the reader has a Last-Event-ID to send
  everConnected,  \* hub.everConnected
  heard,          \* the reader is past event `heard` of OpenCode's stream
  replay,         \* hub.replay, event ids
  sock,           \* sock[p]: p's socket as the bridge knows it
  asked,          \* asked[p]: clientLastEventIds, the id p connected with
  frames,         \* frames[p]: frames on their way to p
  link,           \* link[p]: p's connection attempt
  lastId,         \* lastId[p]: the pipeline's lastEventId
  booting,        \* booting[p]: isRecentBoot() of p
  met,            \* met[p]: p has been connected, or a connect was cut before
  has,            \* has[p]: the messages p shows
  sync,           \* sync[p]: p's resync, [at |-> ..., snap |-> ...]
  breaks, drops, rebinds,   \* counted against the bounds
  told,           \* history: `heard` when the last ready frame p got was sent
  overlooked      \* history: the last ready frame p got that no read followed

upstream == <<now, conn, resume, everConnected, heard, replay>>
bridge == <<sock, asked, frames>>
client == <<link, lastId, booting, met, has, sync, told, overlooked>>
counts == <<breaks, drops, rebinds>>
vars == <<upstream, bridge, client, counts>>

Event(e) == [type |-> "event", id |-> e]
Ready(at) == [type |-> "ready", id |-> at]
Closed == [type |-> "closed", id |-> 0]

Idle == [at |-> "idle", snap |-> 0]

\* The web server has just been started. A page has been open before or has
\* just been loaded; it shows what the session holds, nothing yet.
Init ==
  /\ now = 0
  /\ conn = "dialing" /\ resume = FALSE /\ everConnected = FALSE
  /\ heard = 0 /\ replay = <<>>
  /\ sock = [p \in Pages |-> "none"]
  /\ asked = [p \in Pages |-> 0]
  /\ frames = [p \in Pages |-> <<>>]
  /\ link = [p \in Pages |-> "down"]
  /\ lastId = [p \in Pages |-> 0]
  /\ booting \in [Pages -> BOOLEAN]
  /\ met \in [Pages -> {"never", "met"}]
  /\ has = [p \in Pages |-> {}]
  /\ sync = [p \in Pages |-> Idle]
  /\ breaks = 0 /\ drops = 0 /\ rebinds = 0
  /\ told = [p \in Pages |-> 0]
  /\ overlooked = [p \in Pages |-> 0]

-----------------------------------------------------------------------------
(* OpenCode and the hub.                                                    *)

\* OpenCode (external) adds a message.
Emit ==
  /\ now < MaxEvents
  /\ now' = now + 1
  /\ UNCHANGED <<conn, resume, everConnected, heard, replay, bridge, client,
                 counts>>

\* Where event e is in the buffer; an id is there once.
IndexOfEvent(e) == CHOOSE i \in DOMAIN replay : replay[i] = e

\* hub.replayAfter: what the buffer holds after event e, nothing when e is
\* unknown or no longer there.
\* Mutant of ReplayAfter: the event itself is replayed too.
ReplayFrom(e) ==
  IF \E i \in DOMAIN replay : replay[i] = e
  THEN SubSeq(replay, IndexOfEvent(e), Len(replay))
  ELSE <<>>
ReplayAfter(e) ==
  IF \E i \in DOMAIN replay : replay[i] = e
  THEN SubSeq(replay, IndexOfEvent(e) + 1, Len(replay))
  ELSE <<>>

\* What markReady sends: a ready frame, then the replay.
Welcome(at, e) ==
  LET missed == ReplayAfter(e)
  IN  <<Ready(at)>> \o [i \in DOMAIN missed |-> Event(missed[i])]

\* The frames of a `connect` status: a socket that waited becomes ready, one
\* that was ready is sent another ready frame if the hub had connected before.
\* Mutant of Announced: sockets that were ready are not told.
AnnouncedToWaiting(p, at) ==
  IF sock[p] = "waiting" THEN Welcome(at, asked[p]) ELSE <<>>
Announced(p, at) ==
  CASE sock[p] = "waiting" -> Welcome(at, asked[p])
    [] sock[p] = "ready" /\ everConnected -> <<Ready(at)>>
    [] OTHER -> <<>>

\* The sockets that are sent events from now on.
\* Mutant of ReadySockets: markReady forgets readyClients.add.
ReadySocketsOnly == [p \in Pages |-> sock[p]]
ReadySockets ==
  [p \in Pages |-> IF sock[p] = "waiting" THEN "ready" ELSE sock[p]]

\* The dial succeeds. What OpenCode sent while nobody was attached is sent
\* again (Last-Event-ID) or is lost to this stream.
UpConnects ==
  /\ conn = "dialing"
  /\ conn' = "attached"
  /\ everConnected' = TRUE
  /\ \/ heard' = now
     \/ resume /\ heard' = heard
  /\ frames' = [p \in Pages |-> frames[p] \o Announced(p, heard')]
  /\ sock' = ReadySockets
  /\ UNCHANGED <<now, resume, replay, asked, client, counts>>

\* The dial fails: before the first success every socket is closed.
UpFails ==
  /\ conn = "dialing"
  /\ breaks < MaxBreaks /\ breaks' = breaks + 1
  /\ IF everConnected THEN UNCHANGED <<sock, frames>>
     ELSE /\ frames' = [p \in Pages |->
                          IF sock[p] = "none" THEN frames[p]
                          ELSE Append(frames[p], Closed)]
          /\ sock' = [p \in Pages |-> "none"]
  /\ UNCHANGED <<upstream, asked, client, drops, rebinds>>

\* The stream ends, errs or stalls; the reader dials again.
UpBreaks ==
  /\ conn = "attached"
  /\ breaks < MaxBreaks /\ breaks' = breaks + 1
  /\ conn' = "dialing"
  /\ UNCHANGED <<now, resume, everConnected, heard, replay, bridge, client,
                 drops, rebinds>>

\* The replay buffer once event e has been pushed.
\* Mutant of Remember: the buffer is not trimmed.
RememberAll(e) == Append(replay, e)
Remember(e) ==
  IF Len(replay) = ReplayLimit THEN Append(Tail(replay), e)
  ELSE Append(replay, e)

\* The reader reads the next event: it enters the replay buffer and goes to
\* every ready socket. A socket that has fallen too far behind is closed by
\* the send, with or without the frame, and leaves the bridge.
UpReads ==
  /\ conn = "attached" /\ heard < now
  /\ heard' = heard + 1
  /\ resume' = TRUE
  /\ replay' = Remember(heard')
  /\ \E slow \in SUBSET {p \in Pages : sock[p] = "ready"}, fits \in BOOLEAN :
       /\ drops + Cardinality(slow) <= MaxDrops
       /\ drops' = drops + Cardinality(slow)
       /\ sock' = [p \in Pages |-> IF p \in slow THEN "none" ELSE sock[p]]
       /\ frames' = [p \in Pages |->
            IF sock[p] # "ready" THEN frames[p]
            ELSE IF p \notin slow THEN Append(frames[p], Event(heard'))
            ELSE IF fits THEN frames[p] \o <<Event(heard'), Closed>>
            ELSE Append(frames[p], Closed)]
  /\ UNCHANGED <<now, conn, everConnected, asked, client, breaks, rebinds>>

\* rebindUpstream after a managed restart of OpenCode: hub.stop and hub.start,
\* with a new reader. The sockets and the replay buffer stay.
Rebind ==
  /\ rebinds < MaxRebinds /\ rebinds' = rebinds + 1
  /\ conn' = "dialing"
  /\ resume' = FALSE
  /\ everConnected' = FALSE
  /\ UNCHANGED <<now, heard, replay, bridge, client, breaks, drops>>

-----------------------------------------------------------------------------
(* A page.                                                                  *)

\* The pipeline opens a socket with its last event id; the bridge accepts it
\* and makes it ready at once if the upstream is attached.
Connect(p) ==
  /\ link[p] = "down"
  /\ link' = [link EXCEPT ![p] = "opening"]
  /\ asked' = [asked EXCEPT ![p] = lastId[p]]
  /\ IF conn = "attached"
     THEN /\ sock' = [sock EXCEPT ![p] = "ready"]
          /\ frames' = [frames EXCEPT ![p] = Welcome(heard, lastId[p])]
     ELSE /\ sock' = [sock EXCEPT ![p] = "waiting"]
          /\ frames' = [frames EXCEPT ![p] = <<>>]
  /\ UNCHANGED <<upstream, lastId, booting, met, has, sync, told, overlooked,
                 counts>>

\* bootstrapGlobal has ended, and BOOT_DEBOUNCE_MS after it.
BootEnds(p) ==
  /\ booting[p]
  /\ booting' = [booting EXCEPT ![p] = FALSE]
  /\ UNCHANGED <<upstream, bridge, link, lastId, met, has, sync, told,
                 overlooked, counts>>

\* onDisconnect: remembered if it comes before the first connect.
OnDisconnect(p) == met' = [met EXCEPT ![p] = IF @ = "never" THEN "cut" ELSE @]

\* The connection breaks, or the page gives it up: no ready frame or no
\* heartbeat in time, the browser went offline, the machine slept. Where the
\* attempt is only aborted, onDisconnect is not called.
Drop(p) ==
  /\ link[p] # "down"
  /\ drops < MaxDrops /\ drops' = drops + 1
  /\ link' = [link EXCEPT ![p] = "down"]
  /\ sock' = [sock EXCEPT ![p] = "none"]
  /\ frames' = [frames EXCEPT ![p] = <<>>]
  /\ OnDisconnect(p) \/ UNCHANGED met
  /\ UNCHANGED <<upstream, asked, lastId, booting, has, sync, told, overlooked,
                 breaks, rebinds>>

\* onReconnect goes on to the resync: not on a first connect that nothing
\* went before, and not during a boot.
Resyncs(p) == met[p] # "never" /\ ~booting[p]

\* History: the cases in which no read follows a ready frame.
Overlooks(p) ==
  met[p] = "never" \/ booting[p] \/ sync[p].at \in {"read", "ending"}

\* onReconnect for a ready frame `at`. triggerDirectoryResync starts nothing
\* while a resync is in progress; one that has read already does not cover
\* this frame.
\* Mutant of OnReconnect: only a connection that had been down is resynced.
OnReconnectIfDown(p, at) ==
  /\ met' = [met EXCEPT ![p] = "met"]
  /\ sync' = IF Resyncs(p) /\ sync[p].at = "idle" /\ link[p] # "ready"
             THEN [sync EXCEPT ![p] = [at |-> "asked", snap |-> 0]] ELSE sync
  /\ overlooked' = IF Overlooks(p) THEN [overlooked EXCEPT ![p] = at]
                   ELSE overlooked
OnReconnect(p, at) ==
  /\ met' = [met EXCEPT ![p] = "met"]
  /\ sync' = IF Resyncs(p) /\ sync[p].at = "idle"
             THEN [sync EXCEPT ![p] = [at |-> "asked", snap |-> 0]] ELSE sync
  /\ overlooked' = IF Overlooks(p) THEN [overlooked EXCEPT ![p] = at]
                   ELSE overlooked

\* The next frame arrives at p.
Deliver(p) ==
  /\ link[p] # "down" /\ frames[p] # <<>>
  /\ frames' = [frames EXCEPT ![p] = Tail(@)]
  /\ LET f == Head(frames[p])
     IN  \/ /\ f.type = "ready"
            /\ link' = [link EXCEPT ![p] = "ready"]
            /\ told' = [told EXCEPT ![p] = f.id]
            /\ OnReconnect(p, f.id)
            /\ UNCHANGED <<lastId, has>>
         \/ /\ f.type = "event"
            /\ lastId' = [lastId EXCEPT ![p] = f.id]
            /\ has' = [has EXCEPT ![p] = @ \cup {f.id}]
            /\ UNCHANGED <<link, met, sync, told, overlooked>>
         \/ /\ f.type = "closed"
            /\ link' = [link EXCEPT ![p] = "down"]
            /\ OnDisconnect(p)
            /\ UNCHANGED <<lastId, has, sync, told, overlooked>>
  /\ UNCHANGED <<upstream, sock, asked, booting, counts>>

\* What OpenCode answers refreshTail when the session holds n messages.
\* Mutant of TailPage: one message less.
TailPageButOne(n) == {e \in 1..n : e > n - (ResyncLimit - 1)}
TailPage(n) == {e \in 1..n : e > n - ResyncLimit}

\* refreshTail's page is read at OpenCode: it covers every frame told so far.
SyncReads(p) ==
  /\ sync[p].at = "asked"
  /\ sync' = [sync EXCEPT ![p] = [at |-> "read", snap |-> now]]
  /\ overlooked' = [overlooked EXCEPT ![p] = 0]
  /\ UNCHANGED <<upstream, bridge, link, lastId, booting, met, has, told,
                 counts>>

\* The page is merged into what p shows; what is older stays as it was. The
\* resync goes on with other requests.
SyncApplies(p) ==
  /\ sync[p].at = "read"
  /\ has' = [has EXCEPT ![p] = @ \cup TailPage(sync[p].snap)]
  /\ sync' = [sync EXCEPT ![p] = [at |-> "ending", snap |-> 0]]
  /\ UNCHANGED <<upstream, bridge, link, lastId, booting, met, told, overlooked,
                 counts>>

\* The page cannot be read or merged; nothing is tried again.
SyncFails(p) ==
  /\ sync[p].at \in {"asked", "read"}
  /\ drops < MaxDrops /\ drops' = drops + 1
  /\ sync' = [sync EXCEPT ![p] = [at |-> "ending", snap |-> 0]]
  /\ overlooked' = [overlooked EXCEPT ![p] = told[p]]
  /\ UNCHANGED <<upstream, bridge, link, lastId, booting, met, has, told, breaks,
                 rebinds>>

\* The last request of the resync is done.
SyncEnds(p) ==
  /\ sync[p].at = "ending"
  /\ sync' = [sync EXCEPT ![p] = Idle]
  /\ UNCHANGED <<upstream, bridge, link, lastId, booting, met, has, told,
                 overlooked, counts>>

-----------------------------------------------------------------------------
Next ==
  \/ Emit \/ UpConnects \/ UpFails \/ UpBreaks \/ UpReads \/ Rebind
  \/ \E p \in Pages : \/ Connect(p) \/ BootEnds(p) \/ Drop(p) \/ Deliver(p)
                      \/ SyncReads(p) \/ SyncApplies(p) \/ SyncFails(p)
                      \/ SyncEnds(p)

Spec == Init /\ [][Next]_vars

\* The reader and the pages retry for ever and OpenCode is reachable in the
\* end; what has been sent arrives, the page of a resync is read and merged or
\* fails. No fairness is asked of BootEnds and SyncEnds.
FairSpec ==
  /\ Spec
  /\ WF_vars(UpConnects) /\ WF_vars(UpReads)
  /\ \A p \in Pages : WF_vars(Connect(p) \/ Deliver(p))
                      /\ WF_vars(SyncReads(p)) /\ WF_vars(SyncApplies(p))

-----------------------------------------------------------------------------
(* Properties.                                                              *)

EventsOf(q) == {q[i].id : i \in {j \in DOMAIN q : q[j].type = "event"}}
ReadyIn(q, e) == \E i \in DOMAIN q : q[i].type = "ready" /\ q[i].id >= e

\* Types and structure: the replay buffer keeps to its limit, a socket the
\* bridge knows belongs to a page that is connected or is about to be told
\* that it is not.
StreamTypeOK ==
  /\ now \in 0..MaxEvents /\ heard \in 0..now
  /\ conn \in {"dialing", "attached"}
  /\ resume \in BOOLEAN /\ everConnected \in BOOLEAN
  /\ replay \in Seq(1..heard) /\ Len(replay) <= ReplayLimit
  /\ \A p \in Pages :
       /\ sock[p] \in {"none", "waiting", "ready"}
       /\ link[p] \in {"down", "opening", "ready"}
       /\ sock[p] # "none" => link[p] # "down"
       /\ link[p] # "down" /\ sock[p] = "none" => Closed \in ToSet(frames[p])
       /\ sock[p] = "ready" /\ link[p] = "opening" => ReadyIn(frames[p], 0)
       /\ asked[p] \in 0..now /\ lastId[p] \in 0..heard
       /\ booting[p] \in BOOLEAN /\ met[p] \in {"never", "cut", "met"}
       /\ link[p] = "ready" => met[p] = "met"
       /\ has[p] \subseteq 1..now
       /\ sync[p] \in [at : {"idle", "asked", "read", "ending"}, snap : 0..now]
       /\ overlooked[p] <= told[p] /\ told[p] <= heard

\* A page is sent every event at most once and in order, over breaks of its
\* connection and of the upstream, replays and resent events.
InOrder ==
  \A p \in Pages : \A j \in DOMAIN frames[p] :
    frames[p][j].type = "event" =>
      /\ lastId[p] < frames[p][j].id
      /\ \A i \in 1..j-1 :
           frames[p][i].type = "event" => frames[p][i].id < frames[p][j].id

\* Whatever the stream passed a connected page by, a ready frame sent after
\* that tells the page to fetch what it may have missed.
GapAnnounced ==
  \A p \in Pages :
    sock[p] = "ready" =>
      \A e \in 1..heard : \/ e \in has[p] \/ e \in EventsOf(frames[p])
                          \/ told[p] >= e \/ ReadyIn(frames[p], e)

\* The hub's own reconnects are all announced. (After rebindUpstream the hub
\* takes the next connection for its first.)
NoSilentGap == rebinds = 0 => GapAnnounced

\* The newest messages of the session, as many as a resync reads.
Newest == {e \in 1..now : e > now - ResyncLimit}

\* A message of the tail that passed a ready socket by is on its way to the
\* page: a ready frame, a resync that has yet to read, or the page it read.
\* Excused, until a later resync reads, is what a ready frame told the page of
\* that came on a first connect, during a boot or after the resync in progress
\* had read, or whose read failed (overlooked). What is older than the newest
\* ResyncLimit messages is not promised: no resync fetches it.
MissedIsRefetched ==
  \A p \in Pages :
    rebinds = 0 /\ sock[p] = "ready" =>
      \A e \in Newest :
        e <= heard =>
          \/ e \in has[p] \/ e \in EventsOf(frames[p]) \/ ReadyIn(frames[p], e)
          \/ sync[p].at = "asked"
          \/ sync[p].at = "read" /\ e <= sync[p].snap
          \/ e <= overlooked[p]

\* Once connections stop breaking every page shows the tail of the session,
\* but for what it was last told of without a read to follow.
CatchesUp ==
  \A p \in Pages :
    <>[](rebinds > 0 \/ Newest \ 1..overlooked[p] \subseteq has[p])
=============================================================================
