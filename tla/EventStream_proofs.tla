------------------------- MODULE EventStream_proofs -------------------------
(* Proofs about the message stream, for any number of pages and events, any *)
(* size of the replay buffer, and any number of breaks.                     *)
EXTENDS EventStream, SequenceTheorems, TLAPS

Frames == [type : {"event", "ready"}, id : Nat] \cup {Closed}

IsEvent(f) == f.type = "event"
IsReady(f) == f.type = "ready"
IsClosed(f) == f.type = "closed"

(* What frames on their way look like to a page that has seen event `last`, *)
(* was last told of `at`, while the stream is at `top`.                     *)
Orderly(s, last, at, top) ==
  /\ s \in Seq(Frames)
  /\ \A i \in 1..Len(s) : IsEvent(s[i]) => last < s[i].id /\ s[i].id <= top
  /\ \A i \in 1..Len(s) : IsReady(s[i]) => at <= s[i].id /\ s[i].id <= top
  /\ \A j \in 1..Len(s) : \A i \in 1..j-1 : IsEvent(s[i]) /\ IsEvent(s[j]) => s[i].id < s[j].id
  /\ \A j \in 1..Len(s) : \A i \in 1..j-1 : IsReady(s[i]) /\ IsReady(s[j]) => s[i].id <= s[j].id

HasClosed(s) == \E i \in 1..Len(s) : IsClosed(s[i])
HasReady(s, e) == \E i \in 1..Len(s) : IsReady(s[i]) /\ s[i].id >= e
HasEvent(s, e) == \E i \in 1..Len(s) : IsEvent(s[i]) /\ s[i].id = e

\* The frames the model speaks of.
LEMMA FrameFacts ==
  ASSUME NEW e \in Nat
  PROVE  /\ Event(e) \in Frames /\ IsEvent(Event(e)) /\ Event(e).id = e
         /\ Ready(e) \in Frames /\ IsReady(Ready(e)) /\ Ready(e).id = e
         /\ Closed \in Frames /\ IsClosed(Closed)
         /\ ~IsReady(Event(e)) /\ ~IsClosed(Event(e))
         /\ ~IsEvent(Ready(e)) /\ ~IsClosed(Ready(e))
         /\ ~IsEvent(Closed) /\ ~IsReady(Closed)
BY DEF Event, Ready, Closed, Frames, IsEvent, IsReady, IsClosed

LEMMA FrameId ==
  ASSUME NEW s \in Seq(Frames), NEW i \in 1..Len(s)
  PROVE  s[i] \in Frames /\ s[i].id \in Nat
<1>1. s[i] \in Frames
  OBVIOUS
<1>2. QED
  BY <1>1 DEF Frames, Closed

(***************************************************************************)
(* What the steps do to a sequence of frames.                              *)
(***************************************************************************)
LEMMA OrderlyEmpty ==
  ASSUME NEW last, NEW at, NEW top
  PROVE  Orderly(<<>>, last, at, top)
BY DEF Orderly

\* The stream may go on meanwhile.
LEMMA OrderlyLater ==
  ASSUME NEW s, NEW last \in Nat, NEW at \in Nat, NEW top \in Nat, NEW later \in Nat,
         Orderly(s, last, at, top), top <= later
  PROVE  Orderly(s, last, at, later)
<1>1. \A i \in 1..Len(s) : s[i].id \in Nat
  BY FrameId DEF Orderly
<1>2. QED
  BY <1>1 DEF Orderly

LEMMA AppendClosed ==
  ASSUME NEW s, NEW last, NEW at, NEW top, Orderly(s, last, at, top)
  PROVE  /\ Orderly(Append(s, Closed), last, at, top)
         /\ HasClosed(Append(s, Closed))
<1>1. /\ s \in Seq(Frames) /\ Append(s, Closed) \in Seq(Frames)
      /\ Len(Append(s, Closed)) = Len(s) + 1
      /\ Append(s, Closed)[Len(s) + 1] = Closed
      /\ \A i \in 1..Len(s) : Append(s, Closed)[i] = s[i]
  BY FrameFacts DEF Orderly
<1>2. ~IsEvent(Closed) /\ ~IsReady(Closed) /\ IsClosed(Closed)
  BY DEF Closed, IsEvent, IsReady, IsClosed
<1>3. QED
  BY <1>1, <1>2 DEF Orderly, HasClosed

\* The next event of the stream goes behind the frames there are.
LEMMA AppendEvent ==
  ASSUME NEW s, NEW last \in Nat, NEW at \in Nat, NEW top \in Nat,
         Orderly(s, last, at, top), last <= top
  PROVE  /\ Orderly(Append(s, Event(top + 1)), last, at, top + 1)
         /\ HasEvent(Append(s, Event(top + 1)), top + 1)
         /\ ~HasClosed(s) => ~HasClosed(Append(s, Event(top + 1)))
         /\ \A e : /\ HasEvent(s, e) => HasEvent(Append(s, Event(top + 1)), e)
                   /\ HasReady(s, e) => HasReady(Append(s, Event(top + 1)), e)
<1> DEFINE t == Append(s, Event(top + 1))
<1>0. top + 1 \in Nat
  OBVIOUS
<1>1. /\ s \in Seq(Frames) /\ t \in Seq(Frames)
      /\ Len(t) = Len(s) + 1 /\ t[Len(s) + 1] = Event(top + 1)
      /\ \A i \in 1..Len(s) : t[i] = s[i]
  BY <1>0, FrameFacts DEF Orderly
<1>2. \A i \in 1..Len(s) : s[i].id \in Nat
  BY FrameId DEF Orderly
<1>3. /\ IsEvent(Event(top + 1)) /\ Event(top + 1).id = top + 1
      /\ ~IsReady(Event(top + 1)) /\ ~IsClosed(Event(top + 1))
  BY <1>0, FrameFacts
<1> HIDE DEF t
<1>4. QED
  <2>1. Orderly(t, last, at, top + 1)
    <3>1. \A i \in 1..Len(t) : i \in 1..Len(s) \/ i = Len(s) + 1
      BY <1>1
    <3>2. \A i \in 1..Len(t) : IsEvent(t[i]) => last < t[i].id /\ t[i].id <= top + 1
      BY <1>1, <1>2, <1>3, <3>1 DEF Orderly
    <3>3. \A i \in 1..Len(t) : IsReady(t[i]) => at <= t[i].id /\ t[i].id <= top + 1
      BY <1>1, <1>2, <1>3, <3>1 DEF Orderly
    <3>4. \A j \in 1..Len(t) : \A i \in 1..j-1 :
            IsEvent(t[i]) /\ IsEvent(t[j]) => t[i].id < t[j].id
      BY <1>1, <1>2, <1>3, <3>1 DEF Orderly
    <3>5. \A j \in 1..Len(t) : \A i \in 1..j-1 :
            IsReady(t[i]) /\ IsReady(t[j]) => t[i].id <= t[j].id
      BY <1>1, <1>3, <3>1 DEF Orderly
    <3>6. QED
      BY <1>1, <3>2, <3>3, <3>4, <3>5 DEF Orderly
  <2>2. HasEvent(t, top + 1) /\ (~HasClosed(s) => ~HasClosed(t))
    BY <1>1, <1>3 DEF HasEvent, HasClosed
  <2>3. \A e : (HasEvent(s, e) => HasEvent(t, e)) /\ (HasReady(s, e) => HasReady(t, e))
    BY <1>1, <1>3 DEF HasEvent, HasReady
  <2>4. QED
    BY <2>1, <2>2, <2>3 DEF t

\* A ready frame that says how far the stream is goes behind the others.
LEMMA AppendReady ==
  ASSUME NEW s, NEW last \in Nat, NEW at \in Nat, NEW top \in Nat, NEW now1 \in Nat,
         Orderly(s, last, at, top), at <= top, top <= now1
  PROVE  /\ Orderly(s \o <<Ready(now1)>>, last, at, now1)
         /\ HasReady(s \o <<Ready(now1)>>, now1)
         /\ ~HasClosed(s) => ~HasClosed(s \o <<Ready(now1)>>)
<1> DEFINE t == s \o <<Ready(now1)>>
<1>1. /\ s \in Seq(Frames) /\ t \in Seq(Frames)
      /\ Len(t) = Len(s) + 1 /\ t[Len(s) + 1] = Ready(now1)
      /\ \A i \in 1..Len(s) : t[i] = s[i]
  BY FrameFacts DEF Orderly
<1>2. \A i \in 1..Len(s) : s[i].id \in Nat
  BY FrameId DEF Orderly
<1>3. /\ IsReady(Ready(now1)) /\ Ready(now1).id = now1
      /\ ~IsEvent(Ready(now1)) /\ ~IsClosed(Ready(now1))
  BY FrameFacts
<1> HIDE DEF t
<1>4. \A i \in 1..Len(t) : i \in 1..Len(s) \/ i = Len(s) + 1
  BY <1>1
<1>5. Orderly(t, last, at, now1)
  <2>1. \A i \in 1..Len(t) : IsEvent(t[i]) => last < t[i].id /\ t[i].id <= now1
    BY <1>1, <1>2, <1>3, <1>4 DEF Orderly
  <2>2. \A i \in 1..Len(t) : IsReady(t[i]) => at <= t[i].id /\ t[i].id <= now1
    BY <1>1, <1>2, <1>3, <1>4 DEF Orderly
  <2>3. \A j \in 1..Len(t) : \A i \in 1..j-1 :
          IsEvent(t[i]) /\ IsEvent(t[j]) => t[i].id < t[j].id
    BY <1>1, <1>2, <1>3, <1>4 DEF Orderly
  <2>4. \A j \in 1..Len(t) : \A i \in 1..j-1 :
          IsReady(t[i]) /\ IsReady(t[j]) => t[i].id <= t[j].id
    BY <1>1, <1>2, <1>3, <1>4 DEF Orderly
  <2>5. QED
    BY <1>1, <2>1, <2>2, <2>3, <2>4 DEF Orderly
<1>6. HasReady(t, now1) /\ (~HasClosed(s) => ~HasClosed(t))
  BY <1>1, <1>3 DEF HasReady, HasClosed
<1>7. QED
  BY <1>5, <1>6 DEF t

\* What is read from the front is older than the rest.
LEMMA ReadFrame ==
  ASSUME NEW s, NEW last \in Nat, NEW at \in Nat, NEW top \in Nat,
         Orderly(s, last, at, top), s # <<>>
  PROVE  /\ Head(s) \in Frames
         /\ Orderly(Tail(s), IF IsEvent(Head(s)) THEN Head(s).id ELSE last,
                             IF IsReady(Head(s)) THEN Head(s).id ELSE at, top)
         /\ HasClosed(Tail(s)) => HasClosed(s)
         /\ HasClosed(s) => HasClosed(Tail(s)) \/ IsClosed(Head(s))
         /\ IsEvent(Head(s)) => last < Head(s).id /\ Head(s).id <= top
         /\ IsReady(Head(s)) => at <= Head(s).id /\ Head(s).id <= top
         /\ \A e : /\ HasEvent(s, e)
                      => HasEvent(Tail(s), e) \/ (IsEvent(Head(s)) /\ Head(s).id = e)
                   /\ HasReady(s, e)
                      => HasReady(Tail(s), e) \/ (IsReady(Head(s)) /\ Head(s).id >= e)
<1> DEFINE t == Tail(s)
<1>1. /\ s \in Seq(Frames) /\ t \in Seq(Frames)
      /\ Len(s) \in Nat \ {0} /\ Len(t) = Len(s) - 1 /\ Head(s) = s[1]
      /\ \A i \in 1..Len(t) : t[i] = s[i + 1]
  BY DEF Orderly
<1>2. \A i \in 1..Len(s) : s[i].id \in Nat
  BY FrameId DEF Orderly
<1>3. \A i \in 1..Len(s) : i = 1 \/ (i - 1 \in 1..Len(t) /\ t[i - 1] = s[i])
  BY <1>1
<1> HIDE DEF t
<1>4. \A i \in 1..Len(t) : i + 1 \in 2..Len(s) /\ 1 \in 1..(i + 1) - 1
  BY <1>1
<1>5. Orderly(t, IF IsEvent(s[1]) THEN s[1].id ELSE last,
                 IF IsReady(s[1]) THEN s[1].id ELSE at, top)
  <2> DEFINE l == IF IsEvent(s[1]) THEN s[1].id ELSE last
             a == IF IsReady(s[1]) THEN s[1].id ELSE at
  <2>0. \A j \in 1..Len(t) : \A i \in 1..j-1 :
          /\ j + 1 \in 1..Len(s) /\ i + 1 \in 1..(j + 1) - 1
          /\ t[i] = s[i + 1] /\ t[j] = s[j + 1]
    BY <1>1
  <2>1. \A i \in 1..Len(t) : IsEvent(t[i]) => l < t[i].id /\ t[i].id <= top
    BY <1>1, <1>2, <1>4 DEF Orderly
  <2>2. \A i \in 1..Len(t) : IsReady(t[i]) => a <= t[i].id /\ t[i].id <= top
    BY <1>1, <1>2, <1>4, SMTT(30) DEF Orderly
  <2>3. \A j \in 1..Len(t) : \A i \in 1..j-1 :
          IsEvent(t[i]) /\ IsEvent(t[j]) => t[i].id < t[j].id
    BY <2>0 DEF Orderly
  <2>4. \A j \in 1..Len(t) : \A i \in 1..j-1 :
          IsReady(t[i]) /\ IsReady(t[j]) => t[i].id <= t[j].id
    BY <2>0 DEF Orderly
  <2>5. QED
    BY <1>1, <2>1, <2>2, <2>3, <2>4 DEF Orderly
<1>6. /\ HasClosed(t) => HasClosed(s)
      /\ HasClosed(s) => HasClosed(t) \/ IsClosed(s[1])
  BY <1>1, <1>3, <1>4 DEF HasClosed
<1>7. \A e : /\ HasEvent(s, e) => HasEvent(t, e) \/ (IsEvent(s[1]) /\ s[1].id = e)
             /\ HasReady(s, e) => HasReady(t, e) \/ (IsReady(s[1]) /\ s[1].id >= e)
  BY <1>1, <1>3 DEF HasEvent, HasReady
<1>8. /\ IsEvent(s[1]) => last < s[1].id /\ s[1].id <= top
      /\ IsReady(s[1]) => at <= s[1].id /\ s[1].id <= top
      /\ s[1] \in Frames
  BY <1>1 DEF Orderly
<1>9. QED
  BY <1>1, <1>5, <1>6, <1>7, <1>8 DEF t

(***************************************************************************)
(* The replay buffer and what is sent from it.                             *)
(***************************************************************************)
Ascending(s) == \A j \in 1..Len(s) : \A i \in 1..j-1 : s[i] < s[j]

Buffer(s, top) == /\ s \in Seq(Nat) /\ \A i \in 1..Len(s) : 1 <= s[i] /\ s[i] <= top
                  /\ Ascending(s)

\* The replay after event e holds later events of the stream, oldest first.
LEMMA ReplayFacts ==
  ASSUME NEW top \in Nat, NEW e \in Nat, Buffer(replay, top)
  PROVE  /\ Buffer(ReplayAfter(e), top)
         /\ \A i \in 1..Len(ReplayAfter(e)) : e < ReplayAfter(e)[i]
<1>1. CASE ~\E i \in DOMAIN replay : replay[i] = e
  BY <1>1 DEF ReplayAfter, Buffer, Ascending
<1>2. CASE \E i \in DOMAIN replay : replay[i] = e
  <2> DEFINE k == IndexOfEvent(e)
             t == SubSeq(replay, k + 1, Len(replay))
  <2>1. k \in DOMAIN replay /\ replay[k] = e
    BY <1>2 DEF IndexOfEvent
  <2> HIDE DEF k
  <2>2. k \in 1..Len(replay) /\ Len(replay) \in Nat /\ replay \in Seq(Nat)
    BY <2>1 DEF Buffer
  <2>3. /\ t \in Seq(Nat) /\ Len(t) = Len(replay) - k
        /\ \A i \in 1..Len(t) : t[i] = replay[k + i]
    <3>1. k + 1 \in Int /\ Len(replay) \in Int /\ \A i \in k + 1..Len(replay) : replay[i] \in Nat
      BY <2>2
    <3>2. /\ t \in Seq(Nat)
          /\ Len(t) = IF k + 1 <= Len(replay) THEN Len(replay) - (k + 1) + 1 ELSE 0
          /\ \A i \in 1..Len(replay) - (k + 1) + 1 : t[i] = replay[k + 1 + i - 1]
      BY <3>1, SubSeqProperties
    <3>3. QED
      BY <2>2, <3>2
  <2> HIDE DEF t
  <2>4. \A i \in 1..Len(t) : k + i \in 1..Len(replay) /\ k \in 1..(k + i) - 1
    BY <2>2, <2>3
  <2>5. \A j \in 1..Len(t) : \A i \in 1..j-1 :
          i \in 1..Len(t) /\ k + i \in 1..(k + j) - 1
    BY <2>2, <2>3
  <2>6. Ascending(t)
    BY <2>3, <2>4, <2>5 DEF Buffer, Ascending
  <2>7. \A i \in 1..Len(t) : 1 <= t[i] /\ t[i] <= top /\ e < t[i]
    BY <2>1, <2>3, <2>4 DEF Buffer, Ascending
  <2>8. ReplayAfter(e) = t
    BY <1>2 DEF ReplayAfter, k, t
  <2>9. QED
    BY <2>3, <2>6, <2>7, <2>8 DEF Buffer
<1>3. QED
  BY <1>1, <1>2

\* What a socket is sent when it becomes ready.
LEMMA WelcomeFacts ==
  ASSUME NEW top \in Nat, NEW e \in Nat, NEW at \in Nat, NEW told1 \in Nat, Buffer(replay, top),
         top <= at, told1 <= at
  PROVE  /\ Orderly(Welcome(at, e), e, told1, at)
         /\ HasReady(Welcome(at, e), at)
         /\ ~HasClosed(Welcome(at, e))
<1> DEFINE r == ReplayAfter(e)
           q == [i \in DOMAIN r |-> Event(r[i])]
           t == <<Ready(at)>> \o q
<1>1. /\ r \in Seq(Nat)
      /\ \A i \in 1..Len(r) : e < r[i] /\ r[i] <= top /\ r[i] \in Nat
      /\ \A j \in 1..Len(r) : \A i \in 1..j-1 : r[i] < r[j]
  <2>1. Buffer(r, top) /\ \A i \in 1..Len(r) : e < r[i]
    BY ReplayFacts
  <2> HIDE DEF r
  <2>2. \A i \in 1..Len(r) : r[i] \in Nat
    BY <2>1 DEF Buffer
  <2>3. QED
    BY <2>1, <2>2 DEF Buffer, Ascending
<1> HIDE DEF r
<1>2. /\ q \in Seq(Frames) /\ Len(q) = Len(r)
      /\ \A i \in 1..Len(q) : q[i] = Event(r[i])
  <2>1. DOMAIN r = 1..Len(r) /\ Len(r) \in Nat
    BY <1>1
  <2>2. \A i \in 1..Len(r) : Event(r[i]) \in Frames
    BY <1>1, FrameFacts
  <2>3. q \in [1..Len(r) -> Frames]
    BY <2>1, <2>2
  <2>4. QED
    BY <2>1, <2>3
<1> HIDE DEF q
<1>3. /\ t \in Seq(Frames) /\ Len(t) = Len(r) + 1 /\ t[1] = Ready(at)
      /\ \A i \in 2..Len(t) : i - 1 \in 1..Len(r) /\ t[i] = Event(r[i - 1])
  <2>1. <<Ready(at)>> \in Seq(Frames) /\ Len(<<Ready(at)>>) = 1
    BY FrameFacts
  <2>2. Len(r) \in Nat
    BY <1>1
  <2>3. QED
    BY <1>2, <2>1, <2>2
<1> HIDE DEF t
<1>4. \A i \in 2..Len(t) : IsEvent(t[i]) /\ ~IsReady(t[i]) /\ ~IsClosed(t[i]) /\ t[i].id = r[i - 1]
  BY <1>1, <1>3, FrameFacts
<1>5. IsReady(t[1]) /\ ~IsEvent(t[1]) /\ ~IsClosed(t[1]) /\ t[1].id = at
  BY <1>3, FrameFacts
<1>6. \A i \in 1..Len(t) : i = 1 \/ i \in 2..Len(t)
  BY <1>1, <1>3
<1>7. Orderly(t, e, told1, at)
  <2>1. \A i \in 1..Len(t) : IsEvent(t[i]) => e < t[i].id /\ t[i].id <= at
    <3>1. \A i \in 1..Len(r) : e < r[i] /\ r[i] <= at
      BY <1>1
    <3>2. QED
      BY <1>3, <1>4, <1>5, <1>6, <3>1
  <2>2. \A i \in 1..Len(t) : IsReady(t[i]) => told1 <= t[i].id /\ t[i].id <= at
    BY <1>4, <1>5, <1>6
  <2>3. \A j \in 1..Len(t) : \A i \in 1..j-1 :
          IsEvent(t[i]) /\ IsEvent(t[j]) => t[i].id < t[j].id
    <3>1. ASSUME NEW j \in 1..Len(t), NEW i \in 1..j-1, IsEvent(t[i]), IsEvent(t[j])
          PROVE  t[i].id < t[j].id
      <4>1. Len(t) \in Nat /\ i \in 1..Len(t)
        BY <1>1, <1>3
      <4>2. i \in 2..Len(t) /\ j \in 2..Len(t)
        BY <1>5, <1>6, <3>1, <4>1
      <4>3. j - 1 \in 1..Len(r) /\ i - 1 \in 1..(j - 1) - 1
        BY <1>3, <4>1, <4>2
      <4>4. QED
        BY <1>1, <1>4, <4>2, <4>3
    <3>2. QED
      BY <3>1
  <2>4. \A j \in 1..Len(t) : \A i \in 1..j-1 :
          IsReady(t[i]) /\ IsReady(t[j]) => t[i].id <= t[j].id
    BY <1>1, <1>3, <1>4, <1>6
  <2>5. QED
    BY <1>3, <2>1, <2>2, <2>3, <2>4 DEF Orderly
<1>8. 1 \in 1..Len(t)
  BY <1>1, <1>3
<1>9. HasReady(t, at) /\ ~HasClosed(t)
  BY <1>4, <1>5, <1>6, <1>8 DEF HasReady, HasClosed
<1>10. Welcome(at, e) = t
  BY DEF Welcome, t, q, r
<1>11. QED
  BY <1>7, <1>9, <1>10

(***************************************************************************)
(* The inductive invariant.  Beyond the types it says what a page has been *)
(* sent: events behind the one it saw last and in their order, and ready   *)
(* frames behind the one it was told of last, none ahead of the stream.  A *)
(* socket that waits has been sent nothing since it asked, so the replay   *)
(* it gets starts where the page is.                                       *)
(***************************************************************************)
UpInv ==
  /\ now \in 0..MaxEvents /\ heard \in 0..now
  /\ conn \in {"dialing", "attached"} /\ resume \in BOOLEAN /\ everConnected \in BOOLEAN
  /\ Buffer(replay, heard) /\ Len(replay) <= ReplayLimit
  /\ conn = "attached" => everConnected
  /\ rebinds \in Nat

Tables ==
  /\ sock \in [Pages -> {"none", "waiting", "ready"}]
  /\ link \in [Pages -> {"down", "opening", "ready"}]
  /\ frames \in [Pages -> Seq(Frames)]
  /\ asked \in [Pages -> Nat] /\ lastId \in [Pages -> Nat] /\ told \in [Pages -> Nat]
  /\ has \in [Pages -> SUBSET Nat]
  /\ booting \in [Pages -> BOOLEAN] /\ met \in [Pages -> {"never", "cut", "met"}]
  /\ sync \in [Pages -> [at : {"idle", "asked", "read", "ending"}, snap : Nat]]
  /\ overlooked \in [Pages -> Nat]

InRange(p) == /\ asked[p] <= heard /\ lastId[p] <= heard /\ told[p] <= heard
              /\ has[p] \subseteq 1..now /\ sync[p].snap <= now
              /\ overlooked[p] <= told[p]
Connected(p) ==
  /\ sock[p] # "none" => link[p] # "down"
  /\ HasClosed(frames[p]) => sock[p] = "none"
  /\ link[p] # "down" /\ sock[p] = "none" => HasClosed(frames[p])
  /\ sock[p] = "ready" /\ link[p] = "opening" => HasReady(frames[p], 0)
  /\ sock[p] = "waiting" => asked[p] = lastId[p] /\ frames[p] = <<>>
  /\ link[p] = "ready" => met[p] = "met"

PageInv(p) == InRange(p) /\ Orderly(frames[p], lastId[p], told[p], heard) /\ Connected(p)

StreamInv == UpInv /\ Tables /\ \A p \in Pages : PageInv(p)

LEMMA BufferSeq ==
  ASSUME NEW s, NEW top \in Nat, Buffer(s, top)
  PROVE  s \in Seq(1..top)
<1>1. s \in Seq(Nat) /\ \A i \in 1..Len(s) : s[i] \in 1..top
  <2>1. s \in Seq(Nat)
    BY DEF Buffer
  <2>2. \A i \in 1..Len(s) : s[i] \in Nat /\ 1 <= s[i] /\ s[i] <= top
    BY <2>1 DEF Buffer
  <2>3. QED
    BY <2>1, <2>2
<1>2. s \in [1..Len(s) -> 1..top] /\ Len(s) \in Nat
  BY <1>1
<1>3. QED
  BY <1>2, SeqDef

\* The properties of the runs follow.
LEMMA InvImpliesType == StreamInv => StreamTypeOK
<1> SUFFICES ASSUME StreamInv PROVE StreamTypeOK
  OBVIOUS
<1>1. /\ now \in Nat /\ heard \in Nat /\ heard <= now
  BY StreamAssumption DEF StreamInv, UpInv
<1>2. replay \in Seq(1..heard)
  BY <1>1, BufferSeq DEF StreamInv, UpInv
<1>3. ASSUME NEW p \in Pages
      PROVE  /\ sock[p] \in {"none", "waiting", "ready"}
             /\ link[p] \in {"down", "opening", "ready"}
             /\ sock[p] # "none" => link[p] # "down"
             /\ link[p] # "down" /\ sock[p] = "none" => Closed \in ToSet(frames[p])
             /\ sock[p] = "ready" /\ link[p] = "opening" => ReadyIn(frames[p], 0)
             /\ asked[p] \in 0..now /\ lastId[p] \in 0..heard
             /\ booting[p] \in BOOLEAN /\ met[p] \in {"never", "cut", "met"}
             /\ link[p] = "ready" => met[p] = "met"
             /\ has[p] \subseteq 1..now
             /\ sync[p] \in [at : {"idle", "asked", "read", "ending"}, snap : 0..now]
             /\ overlooked[p] <= told[p] /\ told[p] <= heard
  <2>1. PageInv(p) /\ Tables
    BY DEF StreamInv
  <2>2. asked[p] \in 0..now /\ lastId[p] \in 0..heard /\ has[p] \subseteq 1..now
    BY <1>1, <2>1 DEF Tables, PageInv, InRange
  <2>3. sync[p] \in [at : {"idle", "asked", "read", "ending"}, snap : 0..now]
    <3>1. sync[p] \in [at : {"idle", "asked", "read", "ending"}, snap : Nat] /\ sync[p].snap <= now
      BY <2>1 DEF Tables, PageInv, InRange
    <3>2. sync[p].snap \in 0..now
      BY <1>1, <3>1
    <3>3. QED
      BY <3>1, <3>2
  <2>4. frames[p] \in Seq(Frames) /\ DOMAIN frames[p] = 1..Len(frames[p])
    BY <2>1 DEF Tables
  <2>5. HasReady(frames[p], 0) => ReadyIn(frames[p], 0)
    BY <2>4 DEF HasReady, ReadyIn, IsReady
  <2>6. HasClosed(frames[p]) => Closed \in ToSet(frames[p])
    <3>1. SUFFICES ASSUME NEW i \in 1..Len(frames[p]), IsClosed(frames[p][i])
                   PROVE  frames[p][i] = Closed
      BY <2>4 DEF HasClosed, ToSet
    <3>2. frames[p][i] \in Frames
      BY <2>4
    <3>3. QED
      BY <3>1, <3>2 DEF Frames, IsClosed
  <2>7. QED
    BY <2>1, <2>2, <2>3, <2>5, <2>6 DEF Tables, PageInv, Connected, InRange
<1>4. QED
  BY <1>1, <1>2, <1>3 DEF StreamInv, UpInv, StreamTypeOK

LEMMA InvImpliesOrder == StreamInv => InOrder
<1> SUFFICES ASSUME StreamInv, NEW p \in Pages, NEW j \in DOMAIN frames[p],
                    frames[p][j].type = "event"
             PROVE  /\ lastId[p] < frames[p][j].id
                    /\ \A i \in 1..j-1 :
                         frames[p][i].type = "event" => frames[p][i].id < frames[p][j].id
  BY DEF InOrder
<1>1. Orderly(frames[p], lastId[p], told[p], heard) /\ j \in 1..Len(frames[p])
  BY DEF StreamInv, PageInv, Tables
<1>2. QED
  BY <1>1 DEF Orderly, IsEvent

LEMMA InitStream == Init => StreamInv
<1> SUFFICES ASSUME Init PROVE StreamInv
  OBVIOUS
<1>1. UpInv
  <2>1. /\ now = 0 /\ heard = 0 /\ replay = <<>> /\ rebinds = 0
        /\ conn = "dialing" /\ resume = FALSE /\ everConnected = FALSE
    BY DEF Init
  <2>2. MaxEvents \in Nat /\ ReplayLimit \in Nat
    BY StreamAssumption
  <2>3. Buffer(<<>>, 0) /\ Len(<<>>) = 0
    BY DEF Buffer, Ascending
  <2>4. Buffer(replay, heard) /\ Len(replay) <= ReplayLimit
    BY <2>1, <2>2, <2>3
  <2>5. now \in 0..MaxEvents /\ heard \in 0..now /\ rebinds \in Nat
    BY <2>1, <2>2
  <2>6. QED
    BY <2>1, <2>4, <2>5 DEF UpInv
<1>2. Tables
  BY DEF Init, Tables, Idle
<1>3. ASSUME NEW p \in Pages
      PROVE  PageInv(p)
  <2>1. /\ frames[p] = <<>> /\ sock[p] = "none" /\ link[p] = "down"
        /\ asked[p] = 0 /\ lastId[p] = 0 /\ told[p] = 0 /\ has[p] = {} /\ sync[p].snap = 0
        /\ overlooked[p] = 0 /\ now = 0 /\ heard = 0
    BY DEF Init, Idle
  <2>2. QED
    BY <2>1, OrderlyEmpty DEF PageInv, InRange, Connected, HasClosed
<1>4. QED
  BY <1>1, <1>2, <1>3 DEF StreamInv

(***************************************************************************)
(* The steps, first as they show on one page.                              *)
(***************************************************************************)
SamePage(q) ==
  /\ sock'[q] = sock[q] /\ link'[q] = link[q] /\ frames'[q] = frames[q]
  /\ asked'[q] = asked[q] /\ lastId'[q] = lastId[q] /\ told'[q] = told[q]
  /\ has'[q] = has[q] /\ sync'[q] = sync[q] /\ met'[q] = met[q]
  /\ overlooked'[q] = overlooked[q]

\* The numbers a page keeps are natural, and so are those of the stream.
LEMMA Numbers ==
  ASSUME StreamInv
  PROVE  /\ now \in Nat /\ heard \in Nat /\ heard <= now /\ Buffer(replay, heard)
         /\ \A q \in Pages : /\ asked[q] \in Nat /\ lastId[q] \in Nat /\ told[q] \in Nat
                            /\ sync[q].snap \in Nat /\ frames[q] \in Seq(Frames)
                            /\ lastId[q] <= heard /\ told[q] <= heard
                            /\ overlooked[q] \in Nat /\ overlooked[q] <= told[q]
                            /\ PageInv(q)
<1>1. now \in Nat /\ heard \in Nat /\ heard <= now /\ Buffer(replay, heard)
  BY StreamAssumption DEF StreamInv, UpInv
<1>2. QED
  BY <1>1 DEF StreamInv, Tables, PageInv, InRange

LEMMA PageStays ==
  ASSUME StreamInv, NEW q \in Pages, SamePage(q), now' \in Nat, heard' \in Nat,
         now <= now', heard <= heard'
  PROVE  PageInv(q)'
<1>1. InRange(q)'
  BY Numbers DEF PageInv, InRange, SamePage
<1>2. Orderly(frames[q], lastId[q], told[q], heard)'
  BY Numbers, OrderlyLater DEF PageInv, SamePage
<1>3. Connected(q)'
  BY Numbers DEF PageInv, Connected, SamePage
<1>4. QED
  BY <1>1, <1>2, <1>3 DEF PageInv

SyncSteps(p) == SyncReads(p) \/ SyncApplies(p) \/ SyncFails(p) \/ SyncEnds(p)

\* Steps of OpenCode, the reader and a page that leave the frames alone.
LEMMA QuietSteps ==
  ASSUME StreamInv, \/ Emit \/ UpBreaks \/ Rebind
                    \/ \E p \in Pages : BootEnds(p) \/ SyncSteps(p)
  PROVE  StreamInv'
<1>1. CASE Emit \/ UpBreaks \/ Rebind
  <2>1. UNCHANGED <<sock, link, frames, asked, lastId, told, booting, met, has, sync, overlooked>>
    BY <1>1 DEF Emit, UpBreaks, Rebind, bridge, client
  <2>2. /\ UpInv' /\ now' \in Nat /\ heard' = heard /\ now <= now'
    <3>0. /\ UpInv /\ now \in Nat /\ heard \in Nat /\ heard <= now /\ MaxEvents \in Nat
      BY Numbers, StreamAssumption DEF StreamInv
    <3>1. CASE Emit
      <4>1. /\ now' = now + 1 /\ now < MaxEvents
            /\ UNCHANGED <<conn, resume, everConnected, heard, replay, rebinds>>
        BY <3>1 DEF Emit, counts
      <4>2. now' \in 0..MaxEvents /\ heard' \in 0..now' /\ now' \in Nat /\ now <= now'
        BY <3>0, <4>1
      <4>3. QED
        BY <3>0, <4>1, <4>2 DEF UpInv
    <3>2. CASE UpBreaks
      <4>1. UNCHANGED <<now, resume, everConnected, heard, replay, rebinds>> /\ conn' = "dialing"
        BY <3>2 DEF UpBreaks
      <4>2. QED
        BY <3>0, <4>1 DEF UpInv
    <3>3. CASE Rebind
      <4>1. /\ UNCHANGED <<now, heard, replay>> /\ rebinds' = rebinds + 1
            /\ conn' = "dialing" /\ resume' = FALSE /\ everConnected' = FALSE
        BY <3>3 DEF Rebind
      <4>2. rebinds' \in Nat
        BY <3>0, <4>1 DEF UpInv
      <4>3. Buffer(replay, heard)'
        BY <3>0, <4>1 DEF UpInv, Buffer, Ascending
      <4>4. (conn = "attached" => everConnected)' /\ conn' \in {"dialing", "attached"}
        BY <4>1
      <4>5. (now \in 0..MaxEvents /\ heard \in 0..now /\ Len(replay) <= ReplayLimit)'
        BY <3>0, <4>1 DEF UpInv
      <4>6. UpInv'
        BY <4>1, <4>2, <4>3, <4>4, <4>5 DEF UpInv
      <4>7. QED
        BY <3>0, <4>1, <4>6
    <3>4. QED
      BY <1>1, <3>1, <3>2, <3>3
  <2>3. Tables'
    BY <2>1 DEF StreamInv, Tables
  <2>4. \A q \in Pages : SamePage(q)
    BY <2>1 DEF SamePage
  <2>5. \A q \in Pages : PageInv(q)'
    BY <2>2, <2>4, PageStays, Numbers
  <2>6. QED
    BY <2>2, <2>3, <2>5 DEF StreamInv
<1>2. ASSUME NEW p \in Pages, BootEnds(p)
      PROVE  StreamInv'
  <2>1. /\ UNCHANGED <<now, conn, resume, everConnected, heard, replay, rebinds>>
        /\ UNCHANGED <<sock, link, frames, asked, lastId, told, met, has, sync, overlooked>>
        /\ booting' = [booting EXCEPT ![p] = FALSE]
    BY <1>2 DEF BootEnds, upstream, bridge, counts
  <2>2. UpInv' /\ Tables'
    BY <2>1 DEF StreamInv, UpInv, Tables, Buffer, Ascending
  <2>3. \A q \in Pages : SamePage(q)
    BY <2>1 DEF SamePage
  <2>4. \A q \in Pages : PageInv(q)'
    BY <2>1, <2>3, PageStays, Numbers
  <2>5. QED
    BY <2>2, <2>4 DEF StreamInv
<1>3. ASSUME NEW p \in Pages, SyncSteps(p)
      PROVE  StreamInv'
  <2>1. /\ UNCHANGED <<now, conn, resume, everConnected, heard, replay, rebinds>>
        /\ UNCHANGED <<sock, link, frames, asked, lastId, told, booting, met>>
    BY <1>3 DEF SyncSteps, SyncReads, SyncApplies, SyncFails, SyncEnds, upstream, bridge, counts
  <2>2. UpInv'
    BY <2>1 DEF StreamInv, UpInv
  <2>3. /\ has[p] \subseteq 1..now /\ sync[p].snap <= now /\ sync[p].snap \in Nat /\ now \in Nat
        /\ TailPage(sync[p].snap) \subseteq 1..now
        /\ told[p] \in Nat /\ overlooked[p] \in Nat /\ overlooked[p] <= told[p]
    <3>1. has[p] \subseteq 1..now /\ sync[p].snap <= now
      BY DEF StreamInv, PageInv, InRange
    <3>2. QED
      BY <3>1, Numbers DEF TailPage
  <2>4. \E h \in {has[p], has[p] \cup TailPage(sync[p].snap)} : has' = [has EXCEPT ![p] = h]
    BY <1>3 DEF SyncSteps, SyncReads, SyncApplies, SyncFails, SyncEnds, StreamInv, Tables
  <2>5. \E r \in [at : {"idle", "asked", "read", "ending"}, snap : {0, now}] :
          sync' = [sync EXCEPT ![p] = r]
    BY <1>3 DEF SyncSteps, SyncReads, SyncApplies, SyncFails, SyncEnds, Idle
  <2>6. \E o \in {0, overlooked[p], told[p]} : overlooked' = [overlooked EXCEPT ![p] = o]
    BY <1>3 DEF SyncSteps, SyncReads, SyncApplies, SyncFails, SyncEnds, StreamInv, Tables
  <2>7. Tables'
    <3>1. Tables
      BY DEF StreamInv
    <3>2. has' \in [Pages -> SUBSET Nat]
      <4>1. has[p] \subseteq Nat /\ has[p] \cup TailPage(sync[p].snap) \subseteq Nat
        BY <2>3
      <4>2. PICK h \in {has[p], has[p] \cup TailPage(sync[p].snap)} :
              has' = [has EXCEPT ![p] = h]
        BY <2>4
      <4>3. h \in SUBSET Nat
        BY <4>1, <4>2, Zenon
      <4>4. has \in [Pages -> SUBSET Nat]
        BY <3>1 DEF Tables
      <4>5. QED
        BY <4>2, <4>3, <4>4
    <3>3. sync' \in [Pages -> [at : {"idle", "asked", "read", "ending"}, snap : Nat]]
      <4>1. PICK r \in [at : {"idle", "asked", "read", "ending"}, snap : {0, now}] :
              sync' = [sync EXCEPT ![p] = r]
        BY <2>5
      <4>2. r \in [at : {"idle", "asked", "read", "ending"}, snap : Nat]
        BY <2>3
      <4>3. QED
        BY <3>1, <4>1, <4>2 DEF Tables
    <3>4. overlooked' \in [Pages -> Nat]
      BY <2>3, <2>6, <3>1 DEF Tables
    <3>5. QED
      BY <2>1, <3>1, <3>2, <3>3, <3>4 DEF Tables
  <2>8. ASSUME NEW q \in Pages
        PROVE  PageInv(q)'
    <3>1. PageInv(q) /\ Tables
      BY DEF StreamInv
    <3>2. has'[q] \subseteq 1..now
      <4>1. PICK h \in {has[p], has[p] \cup TailPage(sync[p].snap)} :
              has' = [has EXCEPT ![p] = h]
        BY <2>4
      <4>2. h \subseteq 1..now
        BY <2>3, <4>1, Zenon
      <4>3. has'[q] = has[q] \/ has'[q] = h
        BY <3>1, <4>1 DEF Tables
      <4>4. has[q] \subseteq 1..now
        BY <3>1 DEF PageInv, InRange
      <4>5. QED
        BY <4>2, <4>3, <4>4, Zenon
    <3>3. sync'[q].snap <= now
      <4>1. PICK r \in [at : {"idle", "asked", "read", "ending"}, snap : {0, now}] :
              sync' = [sync EXCEPT ![p] = r]
        BY <2>5
      <4>2. r.snap <= now
        BY <2>3, <4>1
      <4>3. sync'[q] = sync[q] \/ sync'[q] = r
        BY <3>1, <4>1 DEF Tables
      <4>4. QED
        BY <3>1, <4>2, <4>3 DEF PageInv, InRange
    <3>4. overlooked'[q] <= told[q]
      BY <2>3, <2>6, <3>1 DEF Tables, PageInv, InRange
    <3>5. InRange(q)'
      BY <2>1, <3>1, <3>2, <3>3, <3>4 DEF PageInv, InRange
    <3>6. QED
      BY <2>1, <3>1, <3>5 DEF PageInv, Connected
  <2>9. QED
    BY <2>2, <2>7, <2>8 DEF StreamInv
<1>4. QED
  BY <1>1, <1>2, <1>3

\* The buffer once the next event of the stream is in it.
LEMMA RememberFacts ==
  ASSUME NEW top \in Nat, Buffer(replay, top), Len(replay) <= ReplayLimit
  PROVE  Buffer(Remember(top + 1), top + 1) /\ Len(Remember(top + 1)) <= ReplayLimit
<1>1. /\ replay \in Seq(Nat) /\ Len(replay) \in Nat /\ top + 1 \in Nat
      /\ ReplayLimit \in Nat \ {0}
      /\ \A i \in 1..Len(replay) : replay[i] \in Nat /\ 1 <= replay[i] /\ replay[i] <= top
  BY StreamAssumption DEF Buffer
<1>2. ASSUME NEW s, Buffer(s, top)
      PROVE  /\ Buffer(Append(s, top + 1), top + 1)
             /\ Len(Append(s, top + 1)) = Len(s) + 1
  <2> DEFINE t == Append(s, top + 1)
  <2>1. /\ s \in Seq(Nat) /\ t \in Seq(Nat) /\ Len(s) \in Nat /\ Len(t) = Len(s) + 1
        /\ t[Len(s) + 1] = top + 1 /\ \A i \in 1..Len(s) : t[i] = s[i]
    BY <1>1, <1>2 DEF Buffer
  <2> HIDE DEF t
  <2>2. \A i \in 1..Len(s) : s[i] \in Nat /\ 1 <= s[i] /\ s[i] <= top
    BY <1>2, <2>1 DEF Buffer
  <2>3. \A i \in 1..Len(t) : i \in 1..Len(s) \/ i = Len(s) + 1
    BY <2>1
  <2>4. \A i \in 1..Len(t) : 1 <= t[i] /\ t[i] <= top + 1
    <3>1. SUFFICES ASSUME NEW i \in 1..Len(t) PROVE 1 <= t[i] /\ t[i] <= top + 1
      OBVIOUS
    <3>2. CASE i = Len(s) + 1
      BY <2>1, <3>2
    <3>3. CASE i \in 1..Len(s)
      <4>1. t[i] = s[i] /\ s[i] \in Nat /\ 1 <= s[i] /\ s[i] <= top
        BY <2>1, <2>2, <3>3
      <4>2. QED
        BY <4>1
    <3>4. QED
      BY <2>3, <3>2, <3>3
  <2>5. Ascending(t)
    <3>1. SUFFICES ASSUME NEW j \in 1..Len(t), NEW i \in 1..j-1 PROVE t[i] < t[j]
      BY DEF Ascending
    <3>2. i \in 1..Len(s) /\ t[i] = s[i]
      BY <2>1
    <3>3. CASE j = Len(s) + 1
      BY <2>1, <2>2, <3>2, <3>3
    <3>4. CASE j \in 1..Len(s)
      BY <1>2, <2>1, <3>2, <3>4 DEF Buffer, Ascending
    <3>5. QED
      BY <2>3, <3>3, <3>4
  <2>6. QED
    BY <2>1, <2>4, <2>5 DEF Buffer, t
<1>3. CASE Len(replay) = ReplayLimit
  <2> DEFINE u == Tail(replay)
  <2>1. /\ u \in Seq(Nat) /\ Len(u) = Len(replay) - 1
        /\ \A i \in 1..Len(u) : i + 1 \in 1..Len(replay) /\ u[i] = replay[i + 1]
    BY <1>1, <1>3
  <2> HIDE DEF u
  <2>2. \A j \in 1..Len(u) : \A i \in 1..j-1 : i \in 1..Len(u) /\ i + 1 \in 1..(j + 1) - 1
    BY <1>1, <2>1
  <2>3. Buffer(u, top)
    BY <1>1, <2>1, <2>2 DEF Buffer, Ascending
  <2>4. Remember(top + 1) = Append(u, top + 1)
    BY <1>3 DEF Remember, u
  <2>5. Buffer(Remember(top + 1), top + 1) /\ Len(Remember(top + 1)) = Len(u) + 1
    BY <1>2, <2>3, <2>4
  <2>6. QED
    BY <1>1, <1>3, <2>1, <2>5
<1>4. CASE Len(replay) # ReplayLimit
  BY <1>1, <1>2, <1>4 DEF Remember
<1>5. QED
  BY <1>3, <1>4

\* What a page makes of the frames is not touched by the bridge.
SameClient(q) ==
  /\ link'[q] = link[q] /\ asked'[q] = asked[q] /\ lastId'[q] = lastId[q]
  /\ told'[q] = told[q] /\ has'[q] = has[q] /\ sync'[q] = sync[q]
  /\ met'[q] = met[q] /\ overlooked'[q] = overlooked[q]

LEMMA ConnectsStream == ASSUME StreamInv, UpConnects PROVE StreamInv'
<1>1. /\ conn' = "attached" /\ everConnected' = TRUE
      /\ UNCHANGED <<now, resume, replay, rebinds, link, asked, lastId, told>>
      /\ UNCHANGED <<booting, met, has, sync, overlooked>>
      /\ sock' = ReadySockets
      /\ frames' = [p \in Pages |-> frames[p] \o Announced(p, heard')]
  BY DEF UpConnects, client, counts
<1>2. heard' \in Nat /\ heard <= heard' /\ heard' <= now
  BY Numbers DEF UpConnects
<1>3. UpInv'
  <2>1. Buffer(replay, heard')
    BY <1>2, Numbers DEF StreamInv, UpInv, Buffer
  <2>2. Buffer(replay, heard)' /\ heard' \in 0..now'
    BY <1>1, <1>2, <2>1 DEF Buffer, Ascending
  <2>3. QED
    BY <1>1, <2>2 DEF StreamInv, UpInv
<1>4. ASSUME NEW q \in Pages
      PROVE  /\ frames'[q] \in Seq(Frames) /\ sock'[q] \in {"none", "waiting", "ready"}
             /\ PageInv(q)'
  <2>1. /\ PageInv(q) /\ frames[q] \in Seq(Frames) /\ lastId[q] \in Nat /\ told[q] \in Nat
        /\ now \in Nat /\ heard \in Nat /\ told[q] <= heard /\ lastId[q] <= heard
        /\ asked[q] \in Nat /\ sock[q] \in {"none", "waiting", "ready"}
    BY Numbers DEF StreamInv, Tables
  <2>2. frames'[q] = frames[q] \o Announced(q, heard') /\ SameClient(q)
    BY <1>1 DEF SameClient
  <2>3. sock'[q] = IF sock[q] = "waiting" THEN "ready" ELSE sock[q]
    BY <1>1 DEF ReadySockets
  <2>4. InRange(q)'
    BY <1>1, <1>2, <2>1, <2>2 DEF PageInv, InRange, SameClient
  <2>5. CASE sock[q] = "waiting"
    <3>1. frames'[q] = Welcome(heard', asked[q]) /\ asked[q] = lastId[q]
      <4>1. frames[q] = <<>> /\ asked[q] = lastId[q] /\ Announced(q, heard') = Welcome(heard', asked[q])
        BY <2>1, <2>5 DEF PageInv, Connected, Announced
      <4>2. Welcome(heard', asked[q]) \in Seq(Frames)
        BY <1>2, <2>1, <4>1, Numbers, WelcomeFacts DEF Orderly
      <4>3. QED
        BY <2>2, <4>1, <4>2
    <3>2. /\ Orderly(frames'[q], lastId[q], told[q], heard')
          /\ HasReady(frames'[q], heard') /\ ~HasClosed(frames'[q])
      <4>1. told[q] <= heard'
        BY <1>2, <2>1
      <4>2. QED
        BY <1>2, <2>1, <3>1, <4>1, Numbers, WelcomeFacts
    <3>3. HasReady(frames'[q], 0)
      BY <1>2, <3>2, FrameId DEF HasReady, Orderly
    <3>4. Connected(q)'
      BY <2>1, <2>2, <2>3, <2>5, <3>2, <3>3 DEF PageInv, Connected, SameClient
    <3>5. QED
      BY <2>1, <2>2, <2>3, <2>4, <3>2, <3>4 DEF PageInv, Orderly, SameClient
  <2>6. CASE sock[q] = "ready" /\ everConnected
    <3>1. frames'[q] = frames[q] \o <<Ready(heard')>>
      BY <2>2, <2>6 DEF Announced
    <3>2. /\ Orderly(frames'[q], lastId[q], told[q], heard')
          /\ HasReady(frames'[q], heard') /\ (~HasClosed(frames[q]) => ~HasClosed(frames'[q]))
      <4>1. Orderly(frames[q], lastId[q], told[q], heard)
        BY <2>1 DEF PageInv
      <4>2. /\ Orderly(frames[q] \o <<Ready(heard')>>, lastId[q], told[q], heard')
            /\ HasReady(frames[q] \o <<Ready(heard')>>, heard')
            /\ ~HasClosed(frames[q]) => ~HasClosed(frames[q] \o <<Ready(heard')>>)
        BY <1>2, <2>1, <4>1, AppendReady
      <4>3. QED
        BY <3>1, <4>2
    <3>3. HasReady(frames'[q], 0)
      BY <1>2, <3>2, FrameId DEF HasReady, Orderly
    <3>4. Connected(q)'
      BY <2>1, <2>2, <2>3, <2>6, <3>2, <3>3 DEF PageInv, Connected, SameClient
    <3>5. QED
      BY <2>1, <2>2, <2>3, <2>4, <3>2, <3>4 DEF PageInv, Orderly, SameClient
  <2>7. CASE sock[q] = "none" \/ (sock[q] = "ready" /\ ~everConnected)
    <3>1. Announced(q, heard') = <<>>
      BY <2>7 DEF Announced
    <3>2. frames'[q] = frames[q] /\ sock'[q] = sock[q]
      BY <2>1, <2>2, <2>3, <2>7, <3>1
    <3>3. SamePage(q)
      BY <2>2, <3>2 DEF SamePage, SameClient
    <3>4. PageInv(q)'
      BY <1>1, <1>2, <2>1, <3>3, PageStays
    <3>5. QED
      BY <2>1, <3>2, <3>4
  <2>8. QED
    BY <2>1, <2>5, <2>6, <2>7
<1>5. Tables'
  BY <1>1, <1>4 DEF StreamInv, Tables, ReadySockets
<1>6. QED
  BY <1>3, <1>4, <1>5 DEF StreamInv

LEMMA FailsStream == ASSUME StreamInv, UpFails PROVE StreamInv'
<1>1. /\ UNCHANGED <<now, conn, resume, everConnected, heard, replay, rebinds>>
      /\ UNCHANGED <<link, asked, lastId, told, booting, met, has, sync, overlooked>>
      /\ \/ UNCHANGED <<sock, frames>>
         \/ /\ frames' = [p \in Pages |-> IF sock[p] = "none" THEN frames[p]
                                          ELSE Append(frames[p], Closed)]
            /\ sock' = [p \in Pages |-> "none"]
  BY DEF UpFails, upstream, client
<1>2. UpInv'
  BY <1>1 DEF StreamInv, UpInv, Buffer, Ascending
<1>3. CASE UNCHANGED <<sock, frames>>
  <2>1. \A q \in Pages : SamePage(q)
    BY <1>1, <1>3 DEF SamePage
  <2>2. \A q \in Pages : PageInv(q)'
    BY <1>1, <2>1, PageStays, Numbers
  <2>3. Tables'
    BY <1>1, <1>3 DEF StreamInv, Tables
  <2>4. QED
    BY <1>2, <2>2, <2>3 DEF StreamInv
<1>4. CASE /\ frames' = [p \in Pages |-> IF sock[p] = "none" THEN frames[p]
                                         ELSE Append(frames[p], Closed)]
           /\ sock' = [p \in Pages |-> "none"]
  <2>1. ASSUME NEW q \in Pages
        PROVE  frames'[q] \in Seq(Frames) /\ PageInv(q)'
    <3>1. /\ PageInv(q) /\ SameClient(q) /\ sock'[q] = "none"
          /\ frames[q] \in Seq(Frames)
      BY <1>1, <1>4, Numbers DEF StreamInv, SameClient
    <3>2. CASE sock[q] = "none"
      <4>1. frames'[q] = frames[q] /\ sock'[q] = sock[q]
        BY <1>4, <3>1, <3>2
      <4>2. SamePage(q)
        BY <3>1, <4>1 DEF SamePage, SameClient
      <4>3. QED
        BY <1>1, <3>1, <4>1, <4>2, PageStays, Numbers
    <3>3. CASE sock[q] # "none"
      <4>1. frames'[q] = Append(frames[q], Closed)
        BY <1>4, <3>3
      <4>2. Orderly(frames'[q], lastId[q], told[q], heard) /\ HasClosed(frames'[q])
        BY <3>1, <4>1, AppendClosed DEF PageInv
      <4>3. InRange(q)' /\ Orderly(frames[q], lastId[q], told[q], heard)'
        BY <1>1, <3>1, <4>2 DEF PageInv, InRange, SameClient, Orderly
      <4>4. Connected(q)'
        BY <3>1, <4>2 DEF PageInv, Connected, SameClient
      <4>5. QED
        BY <4>2, <4>3, <4>4 DEF PageInv, Orderly
    <3>4. QED
      BY <3>2, <3>3
  <2>2. Tables'
    <3>1. frames' \in [Pages -> Seq(Frames)]
      BY <1>4, <2>1
    <3>2. sock' \in [Pages -> {"none", "waiting", "ready"}]
      BY <1>4
    <3>3. QED
      BY <1>1, <3>1, <3>2 DEF StreamInv, Tables
  <2>3. QED
    BY <1>2, <2>1, <2>2 DEF StreamInv
<1>5. QED
  BY <1>1, <1>3, <1>4

LEMMA ReadsStream == ASSUME StreamInv, UpReads PROVE StreamInv'
<1>1. /\ UNCHANGED <<now, conn, everConnected, rebinds>>
      /\ UNCHANGED <<link, asked, lastId, told, booting, met, has, sync, overlooked>>
      /\ heard < now /\ heard' = heard + 1 /\ resume' = TRUE
      /\ replay' = Remember(heard + 1)
  BY DEF UpReads, client
<1>2. /\ now \in Nat /\ heard \in Nat /\ heard' \in Nat /\ heard <= heard' /\ heard' <= now
  BY <1>1, Numbers
<1>3. UpInv'
  <2>1. Buffer(replay', heard') /\ Len(replay') <= ReplayLimit
    BY <1>1, <1>2, Numbers, RememberFacts DEF StreamInv, UpInv
  <2>2. Buffer(replay, heard)' /\ heard' \in 0..now'
    BY <1>1, <1>2, <2>1 DEF Buffer, Ascending
  <2>3. QED
    BY <1>1, <2>1, <2>2 DEF StreamInv, UpInv
<1>4. PICK slow \in SUBSET {p \in Pages : sock[p] = "ready"}, fits \in BOOLEAN :
        /\ sock' = [p \in Pages |-> IF p \in slow THEN "none" ELSE sock[p]]
        /\ frames' = [p \in Pages |->
             IF sock[p] # "ready" THEN frames[p]
             ELSE IF p \notin slow THEN Append(frames[p], Event(heard'))
             ELSE IF fits THEN frames[p] \o <<Event(heard'), Closed>>
             ELSE Append(frames[p], Closed)]
  BY DEF UpReads
<1>5. ASSUME NEW q \in Pages
      PROVE  /\ frames'[q] \in Seq(Frames) /\ sock'[q] \in {"none", "waiting", "ready"}
             /\ PageInv(q)'
  <2>1. /\ PageInv(q) /\ frames[q] \in Seq(Frames) /\ lastId[q] \in Nat /\ told[q] \in Nat
        /\ told[q] <= heard /\ lastId[q] <= heard /\ asked[q] \in Nat
        /\ sock[q] \in {"none", "waiting", "ready"} /\ SameClient(q)
    BY <1>1, Numbers DEF StreamInv, Tables, SameClient
  <2>2. InRange(q)'
    BY <1>1, <1>2, <2>1 DEF PageInv, InRange, SameClient
  <2>3. Orderly(frames[q], lastId[q], told[q], heard)
    BY <2>1 DEF PageInv
  <2>4. /\ Orderly(Append(frames[q], Event(heard + 1)), lastId[q], told[q], heard + 1)
        /\ ~HasClosed(frames[q]) => ~HasClosed(Append(frames[q], Event(heard + 1)))
        /\ \A e : HasReady(frames[q], e) => HasReady(Append(frames[q], Event(heard + 1)), e)
    BY <1>2, <2>1, <2>3, AppendEvent
  <2>5. CASE sock[q] # "ready"
    <3>1. frames'[q] = frames[q] /\ sock'[q] = sock[q]
      BY <1>4, <2>5
    <3>2. SamePage(q)
      BY <2>1, <3>1 DEF SamePage, SameClient
    <3>3. QED
      BY <1>1, <1>2, <2>1, <3>1, <3>2, PageStays
  <2>6. CASE sock[q] = "ready" /\ q \notin slow
    <3>1. frames'[q] = Append(frames[q], Event(heard + 1)) /\ sock'[q] = sock[q]
      BY <1>1, <1>4, <2>6
    <3>2. Connected(q)'
      BY <2>1, <2>4, <2>6, <3>1 DEF PageInv, Connected, SameClient
    <3>3. Orderly(frames[q], lastId[q], told[q], heard)'
      BY <1>1, <2>1, <2>4, <3>1 DEF SameClient
    <3>4. QED
      BY <2>1, <2>2, <3>1, <3>2, <3>3 DEF PageInv, Orderly
  <2>7. CASE sock[q] = "ready" /\ q \in slow
    <3> DEFINE s == IF fits THEN Append(frames[q], Event(heard + 1)) ELSE frames[q]
    <3>1. frames'[q] = Append(s, Closed) /\ sock'[q] = "none"
      <4>1. CASE fits
        <5>1. frames'[q] = frames[q] \o <<Event(heard + 1), Closed>> /\ sock'[q] = "none"
          BY <1>1, <1>4, <2>7, <4>1
        <5>2. \A x, y : frames[q] \o <<x, y>> = Append(Append(frames[q], x), y)
          BY <2>1
        <5>3. QED
          BY <4>1, <5>1, <5>2
      <4>2. CASE ~fits
        BY <1>4, <2>7, <4>2
      <4>3. QED
        BY <4>1, <4>2
    <3>2. Orderly(s, lastId[q], told[q], heard + 1)
      <4>1. Orderly(frames[q], lastId[q], told[q], heard + 1)
        BY <1>1, <1>2, <2>1, <2>3, OrderlyLater
      <4>2. QED
        BY <2>4, <4>1
    <3> HIDE DEF s
    <3>3. Orderly(frames'[q], lastId[q], told[q], heard + 1) /\ HasClosed(frames'[q])
      BY <3>1, <3>2, AppendClosed
    <3>4. Connected(q)'
      BY <2>1, <2>7, <3>1, <3>3 DEF PageInv, Connected, SameClient
    <3>5. Orderly(frames[q], lastId[q], told[q], heard)'
      BY <1>1, <2>1, <3>3 DEF SameClient
    <3>6. QED
      BY <2>2, <3>1, <3>3, <3>4, <3>5 DEF PageInv, Orderly
  <2>8. QED
    BY <2>5, <2>6, <2>7
<1>6. Tables'
  <2>1. frames' \in [Pages -> Seq(Frames)]
    <3>1. DOMAIN frames' = Pages
      BY <1>4
    <3>2. frames' = [p \in Pages |-> frames'[p]]
      BY <1>4
    <3>3. QED
      BY <1>5, <3>2
  <2>2. sock' \in [Pages -> {"none", "waiting", "ready"}]
    BY <1>4 DEF StreamInv, Tables
  <2>3. QED
    BY <1>1, <2>1, <2>2 DEF StreamInv, Tables
<1>7. QED
  BY <1>3, <1>5, <1>6 DEF StreamInv

LEMMA PageStream ==
  ASSUME StreamInv, NEW p \in Pages, Connect(p) \/ Drop(p) PROVE StreamInv'
<1>1. UNCHANGED <<upstream, lastId, booting, has, sync, told, overlooked, rebinds>>
  BY DEF Connect, Drop, counts
<1>2. UpInv'
  BY <1>1 DEF StreamInv, UpInv, Buffer, Ascending, upstream
<1>3. /\ now \in Nat /\ heard \in Nat /\ Buffer(replay, heard) /\ UNCHANGED <<now, heard>>
      /\ lastId[p] \in Nat /\ told[p] \in Nat /\ lastId[p] <= heard /\ told[p] <= heard
      /\ PageInv(p)
  BY <1>1, Numbers DEF upstream
<1>4. /\ asked' = asked \/ asked' = [asked EXCEPT ![p] = lastId[p]]
      /\ \E l \in {"down", "opening"} : link' = [link EXCEPT ![p] = l]
      /\ \E t \in {"none", "waiting", "ready"} : sock' = [sock EXCEPT ![p] = t]
      /\ \/ frames' = [frames EXCEPT ![p] = <<>>]
         \/ frames' = [frames EXCEPT ![p] = Welcome(heard, lastId[p])]
  BY DEF Connect, Drop
<1>4a. \/ met' = met
       \/ met' = [met EXCEPT ![p] = IF met[p] = "never" THEN "cut" ELSE met[p]]
  BY DEF Connect, Drop, OnDisconnect
<1>5. /\ Orderly(Welcome(heard, lastId[p]), lastId[p], told[p], heard)
      /\ HasReady(Welcome(heard, lastId[p]), heard) /\ ~HasClosed(Welcome(heard, lastId[p]))
  BY <1>3, WelcomeFacts
<1>6. Welcome(heard, lastId[p]) \in Seq(Frames) /\ <<>> \in Seq(Frames)
  BY <1>5 DEF Orderly
<1>7. Tables'
  <2>1. Tables
    BY DEF StreamInv
  <2>2. asked' \in [Pages -> Nat]
    BY <1>3, <1>4, <2>1 DEF Tables
  <2>3. link' \in [Pages -> {"down", "opening", "ready"}]
    BY <1>4, <2>1 DEF Tables
  <2>4. sock' \in [Pages -> {"none", "waiting", "ready"}]
    BY <1>4, <2>1 DEF Tables
  <2>5. frames' \in [Pages -> Seq(Frames)]
    <3>1. frames \in [Pages -> Seq(Frames)]
      BY <2>1 DEF Tables
    <3>2. PICK q \in {<<>>, Welcome(heard, lastId[p])} : frames' = [frames EXCEPT ![p] = q]
      BY <1>4
    <3>3. q \in Seq(Frames)
      BY <1>6, <3>2, Zenon
    <3>4. QED
      BY <3>1, <3>2, <3>3
  <2>6. met' \in [Pages -> {"never", "cut", "met"}]
    <3>1. met \in [Pages -> {"never", "cut", "met"}]
      BY <2>1 DEF Tables
    <3>2. (IF met[p] = "never" THEN "cut" ELSE met[p]) \in {"never", "cut", "met"}
      BY <3>1
    <3>3. QED
      BY <1>4a, <3>1, <3>2
  <2>7. QED
    BY <1>1, <2>1, <2>2, <2>3, <2>4, <2>5, <2>6 DEF Tables
<1>8. ASSUME NEW q \in Pages, q # p
      PROVE  PageInv(q)'
  <2>1. SamePage(q)
    BY <1>1, <1>4, <1>4a, <1>8 DEF SamePage, StreamInv, Tables
  <2>2. QED
    BY <1>3, <2>1, PageStays
<1>9. PageInv(p)'
  <2>1. InRange(p)'
    BY <1>1, <1>3, <1>4 DEF PageInv, InRange, StreamInv, Tables
  <2>2. CASE Drop(p)
    <3>1. link'[p] = "down" /\ sock'[p] = "none" /\ frames'[p] = <<>>
      BY <2>2 DEF Drop, StreamInv, Tables
    <3>2. Orderly(frames'[p], lastId'[p], told'[p], heard')
      BY <3>1, OrderlyEmpty
    <3>3. Connected(p)'
      BY <3>1 DEF Connected, HasClosed
    <3>4. QED
      BY <2>1, <3>2, <3>3 DEF PageInv, Orderly
  <2>3. CASE Connect(p)
    <3>1. link'[p] = "opening" /\ asked'[p] = lastId[p] /\ lastId'[p] = lastId[p]
      BY <1>1, <2>3 DEF Connect, StreamInv, Tables
    <3>2. CASE conn = "attached"
      <4>1. sock'[p] = "ready" /\ frames'[p] = Welcome(heard, lastId[p])
        BY <2>3, <3>2 DEF Connect, StreamInv, Tables
      <4>2. HasReady(frames'[p], 0)
        BY <1>3, <1>5, <1>6, <4>1, FrameId DEF HasReady
      <4>3. Connected(p)'
        BY <1>5, <3>1, <4>1, <4>2 DEF Connected
      <4>4. Orderly(frames[p], lastId[p], told[p], heard)'
        BY <1>1, <1>3, <1>5, <4>1
      <4>5. QED
        BY <2>1, <4>3, <4>4 DEF PageInv
    <3>3. CASE conn # "attached"
      <4>1. sock'[p] = "waiting" /\ frames'[p] = <<>>
        BY <2>3, <3>3 DEF Connect, StreamInv, Tables
      <4>2. Orderly(frames'[p], lastId'[p], told'[p], heard')
        BY <4>1, OrderlyEmpty
      <4>3. Connected(p)'
        BY <3>1, <4>1 DEF Connected, HasClosed
      <4>4. QED
        BY <2>1, <4>2, <4>3 DEF PageInv, Orderly
    <3>4. QED
      BY <3>2, <3>3
  <2>4. QED
    BY <2>2, <2>3
<1>10. QED
  BY <1>2, <1>7, <1>8, <1>9 DEF StreamInv

(***************************************************************************)
(* A frame arrives.                                                        *)
(***************************************************************************)
Delivered(p) ==
  LET f == Head(frames[p])
  IN  /\ link[p] # "down"
      /\ frames[p] # <<>> /\ frames' = [frames EXCEPT ![p] = Tail(frames[p])]
      /\ UNCHANGED <<upstream, sock, asked, booting, rebinds>>
      /\ \/ /\ IsReady(f)
            /\ link' = [link EXCEPT ![p] = "ready"]
            /\ told' = [told EXCEPT ![p] = f.id]
            /\ UNCHANGED <<lastId, has>>
            /\ OnReconnect(p, f.id)
         \/ /\ IsEvent(f)
            /\ lastId' = [lastId EXCEPT ![p] = f.id]
            /\ has' = [has EXCEPT ![p] = has[p] \cup {f.id}]
            /\ UNCHANGED <<link, met, sync, told, overlooked>>
         \/ /\ IsClosed(f)
            /\ link' = [link EXCEPT ![p] = "down"]
            /\ OnDisconnect(p)
            /\ UNCHANGED <<lastId, has, sync, told, overlooked>>

LEMMA DeliverIs == ASSUME NEW p \in Pages, Deliver(p) PROVE Delivered(p)
<1>1. UNCHANGED rebinds
  BY DEF Deliver, counts
<1>2. QED
  BY <1>1 DEF Deliver, Delivered, IsReady, IsEvent, IsClosed

LEMMA DeliverStream ==
  ASSUME StreamInv, NEW p \in Pages, Delivered(p) PROVE StreamInv'
<1> DEFINE f == Head(frames[p])
<1>1. /\ UNCHANGED <<upstream, sock, asked, booting, rebinds>> /\ UNCHANGED <<now, heard>>
      /\ frames' = [frames EXCEPT ![p] = Tail(frames[p])] /\ frames[p] # <<>>
      /\ link[p] # "down"
  BY DEF Delivered, upstream
<1>2. UpInv'
  BY <1>1 DEF StreamInv, UpInv, Buffer, Ascending, upstream
<1>3. /\ now \in Nat /\ heard \in Nat /\ heard <= now
      /\ lastId[p] \in Nat /\ told[p] \in Nat /\ lastId[p] <= heard /\ told[p] <= heard
      /\ overlooked[p] \in Nat /\ overlooked[p] <= told[p]
      /\ Tables /\ PageInv(p) /\ frames[p] \in Seq(Frames)
  BY Numbers DEF StreamInv
<1>4. /\ f \in Frames /\ f.id \in Nat
      /\ Orderly(Tail(frames[p]), IF IsEvent(f) THEN f.id ELSE lastId[p],
                                  IF IsReady(f) THEN f.id ELSE told[p], heard)
      /\ HasClosed(Tail(frames[p])) => HasClosed(frames[p])
      /\ HasClosed(frames[p]) => HasClosed(Tail(frames[p])) \/ IsClosed(f)
      /\ IsEvent(f) => lastId[p] < f.id /\ f.id <= heard
      /\ IsReady(f) => told[p] <= f.id /\ f.id <= heard
      /\ HasReady(frames[p], 0) => HasReady(Tail(frames[p]), 0) \/ IsReady(f)
  <2>1. Orderly(frames[p], lastId[p], told[p], heard)
    BY <1>3 DEF PageInv
  <2>2. f.id \in Nat
    BY <1>1, <1>3, FrameId
  <2>3. QED
    BY <1>1, <1>3, <2>1, <2>2, ReadFrame
<1>5. /\ IsEvent(f) \/ IsReady(f) \/ IsClosed(f)
      /\ ~(IsEvent(f) /\ IsReady(f)) /\ ~(IsEvent(f) /\ IsClosed(f)) /\ ~(IsReady(f) /\ IsClosed(f))
  BY <1>4 DEF Frames, Closed, IsEvent, IsReady, IsClosed
<1>6. /\ frames'[p] = Tail(frames[p]) /\ Tail(frames[p]) \in Seq(Frames)
      /\ \A q \in Pages : q # p => frames'[q] = frames[q]
  BY <1>1, <1>3 DEF Tables
<1>7. /\ lastId' = [lastId EXCEPT ![p] = IF IsEvent(f) THEN f.id ELSE lastId[p]]
      /\ told' = [told EXCEPT ![p] = IF IsReady(f) THEN f.id ELSE told[p]]
      /\ has' = [has EXCEPT ![p] = IF IsEvent(f) THEN has[p] \cup {f.id} ELSE has[p]]
      /\ link' = [link EXCEPT ![p] = IF IsReady(f) THEN "ready"
                                     ELSE IF IsClosed(f) THEN "down" ELSE link[p]]
      /\ sync' = sync \/ sync' = [sync EXCEPT ![p] = [at |-> "asked", snap |-> 0]]
      /\ \/ overlooked' = overlooked
         \/ IsReady(f) /\ overlooked' = [overlooked EXCEPT ![p] = f.id]
      /\ \E c \in {"never", "cut", "met"} :
           /\ met' = [met EXCEPT ![p] = c]
           /\ IF IsReady(f) THEN c = "met" ELSE met[p] = "met" => c = "met"
  BY <1>3, <1>5 DEF Delivered, Tables, OnReconnect, OnDisconnect
<1> HIDE DEF f
<1>8. Tables'
  <2>1. /\ lastId' \in [Pages -> Nat] /\ told' \in [Pages -> Nat]
    BY <1>3, <1>4, <1>7 DEF Tables
  <2>2. has' \in [Pages -> SUBSET Nat]
    BY <1>3, <1>4, <1>7 DEF Tables
  <2>3. link' \in [Pages -> {"down", "opening", "ready"}]
    <3>1. (IF IsReady(f) THEN "ready" ELSE IF IsClosed(f) THEN "down" ELSE link[p])
            \in {"down", "opening", "ready"}
      BY <1>3 DEF Tables
    <3>2. QED
      BY <1>3, <1>7, <3>1 DEF Tables
  <2>4. sync' \in [Pages -> [at : {"idle", "asked", "read", "ending"}, snap : Nat]]
    <3>1. [at |-> "asked", snap |-> 0] \in [at : {"idle", "asked", "read", "ending"}, snap : Nat]
      OBVIOUS
    <3>2. sync \in [Pages -> [at : {"idle", "asked", "read", "ending"}, snap : Nat]]
      BY <1>3 DEF Tables
    <3>3. QED
      BY <1>7, <3>1, <3>2
  <2>5. frames' \in [Pages -> Seq(Frames)]
    BY <1>1, <1>3, <1>6 DEF Tables
  <2>6. overlooked' \in [Pages -> Nat] /\ met' \in [Pages -> {"never", "cut", "met"}]
    BY <1>3, <1>4, <1>7 DEF Tables
  <2>7. QED
    BY <1>1, <1>3, <1>7, <2>1, <2>2, <2>3, <2>4, <2>5, <2>6 DEF Tables
<1>9. ASSUME NEW q \in Pages, q # p
      PROVE  PageInv(q)'
  <2>1. SamePage(q)
    BY <1>1, <1>3, <1>6, <1>7, <1>9 DEF SamePage, Tables
  <2>2. QED
    BY <1>1, <1>3, <2>1, PageStays
<1>10. PageInv(p)'
  <2>1. /\ lastId'[p] = IF IsEvent(f) THEN f.id ELSE lastId[p]
        /\ told'[p] = IF IsReady(f) THEN f.id ELSE told[p]
        /\ has'[p] = IF IsEvent(f) THEN has[p] \cup {f.id} ELSE has[p]
        /\ link'[p] = IF IsReady(f) THEN "ready" ELSE IF IsClosed(f) THEN "down" ELSE link[p]
        /\ sync'[p].snap = sync[p].snap \/ sync'[p].snap = 0
        /\ overlooked'[p] = overlooked[p] \/ (IsReady(f) /\ overlooked'[p] = f.id)
        /\ IF IsReady(f) THEN met'[p] = "met" ELSE met[p] = "met" => met'[p] = "met"
    BY <1>3, <1>7 DEF Tables
  <2>2. Orderly(frames[p], lastId[p], told[p], heard)'
    BY <1>1, <1>4, <1>6, <2>1
  <2>3. InRange(p)'
    <3>1. has'[p] \subseteq 1..now
      BY <1>3, <1>4, <2>1 DEF PageInv, InRange
    <3>2. lastId'[p] <= heard /\ told'[p] <= heard /\ overlooked'[p] <= told'[p]
      BY <1>3, <1>4, <2>1
    <3>3. QED
      BY <1>1, <1>3, <2>1, <3>1, <3>2 DEF PageInv, InRange
  <2>4. Connected(p)'
    <3>1. sock'[p] = sock[p] /\ asked'[p] = asked[p]
      BY <1>1
    <3>2. sock[p] # "waiting"
      BY <1>1, <1>3 DEF PageInv, Connected
    <3>3. CASE IsClosed(f)
      <4>1. HasClosed(frames[p])
        BY <1>1, <1>3, <3>3 DEF HasClosed, f
      <4>2. sock'[p] = "none" /\ link'[p] = "down"
        BY <1>3, <1>5, <2>1, <3>1, <3>3, <4>1 DEF PageInv, Connected
      <4>3. QED
        BY <4>2 DEF Connected
    <3>4. CASE ~IsClosed(f)
      <4>1. link'[p] = IF IsReady(f) THEN "ready" ELSE link[p]
        BY <2>1, <3>4
      <4>2. /\ HasClosed(frames'[p]) <=> HasClosed(frames[p])
            /\ HasReady(frames[p], 0) => HasReady(frames'[p], 0) \/ IsReady(f)
        BY <1>4, <1>6, <3>4
      <4>3. Connected(p)
        BY <1>3 DEF PageInv
      <4>4. /\ sock'[p] # "none" => link'[p] # "down"
            /\ link'[p] # "down" /\ sock'[p] = "none" => HasClosed(frames'[p])
        BY <1>1, <3>1, <4>1, <4>2, <4>3 DEF Connected
      <4>5. HasClosed(frames'[p]) => sock'[p] = "none"
        BY <3>1, <4>2, <4>3 DEF Connected
      <4>6. sock'[p] = "ready" /\ link'[p] = "opening" => HasReady(frames'[p], 0)
        BY <3>1, <4>1, <4>2, <4>3 DEF Connected
      <4>7. sock'[p] # "waiting"
        BY <3>1, <3>2
      <4>8. link'[p] = "ready" => met'[p] = "met"
        BY <2>1, <4>1, <4>3 DEF Connected
      <4>9. QED
        BY <4>4, <4>5, <4>6, <4>7, <4>8 DEF Connected
    <3>5. QED
      BY <3>3, <3>4
  <2>5. QED
    BY <2>2, <2>3, <2>4 DEF PageInv
<1>11. QED
  BY <1>2, <1>8, <1>9, <1>10 DEF StreamInv

LEMMA StreamStep == StreamInv /\ [Next]_vars => StreamInv'
<1> SUFFICES ASSUME StreamInv, [Next]_vars PROVE StreamInv'
  OBVIOUS
<1>1. CASE Next
  BY <1>1, QuietSteps, ConnectsStream, FailsStream, ReadsStream, PageStream,
     DeliverIs, DeliverStream DEF Next, SyncSteps
<1>2. CASE UNCHANGED vars
  <2>1. /\ UNCHANGED <<now, conn, resume, everConnected, heard, replay, rebinds>>
        /\ UNCHANGED <<sock, asked, frames, link, lastId, booting, met, has, sync, told, overlooked>>
    BY <1>2 DEF vars, upstream, bridge, client, counts
  <2>2. UpInv' /\ Tables'
    BY <2>1 DEF StreamInv, UpInv, Tables, Buffer, Ascending
  <2>3. \A q \in Pages : SamePage(q)
    BY <2>1 DEF SamePage
  <2>4. \A q \in Pages : PageInv(q)'
    BY <2>1, <2>3, PageStays, Numbers
  <2>5. QED
    BY <2>2, <2>4 DEF StreamInv
<1>3. QED
  BY <1>1, <1>2

LEMMA StreamInvariant == Spec => []StreamInv
BY InitStream, StreamStep, PTL DEF Spec

\* The types and the structure: the replay buffer keeps to its limit, and a
\* page whose socket the bridge has let go of is about to hear of it.
THEOREM TypeCorrect == Spec => []StreamTypeOK
BY StreamInvariant, InvImpliesType, PTL

\* Every page is sent every event at most once and in order, over breaks of
\* its connection and of the upstream, replays and events sent again.
THEOREM SentInOrder == Spec => []InOrder
BY StreamInvariant, InvImpliesOrder, PTL

(***************************************************************************)
(* What a page with a ready socket has not been sent.  While the managed   *)
(* OpenCode has not been restarted, a page the bridge takes for ready was  *)
(* made so by a hub that had connected, so that the next connection of the *)
(* hub is announced to it.                                                 *)
(***************************************************************************)
Passed(q, e) == \/ e \in has[q] \/ HasEvent(frames[q], e)
                \/ told[q] >= e \/ HasReady(frames[q], e)
Fetched(q, e) == \/ e \in has[q] \/ HasEvent(frames[q], e) \/ HasReady(frames[q], e)
                 \/ sync[q].at = "asked"
                 \/ sync[q].at = "read" /\ e <= sync[q].snap
                 \/ e <= overlooked[q]

GapInv ==
  rebinds = 0 => \A q \in Pages : sock[q] = "ready" =>
                   everConnected /\ \A e \in 1..heard : Passed(q, e)
FetchInv ==
  \A q \in Pages : rebinds = 0 /\ sock[q] = "ready" =>
                     \A e \in 1..heard : e > now - ResyncLimit => Fetched(q, e)

\* The steps of a page with a ready socket: it has just been sent how far the
\* stream is, or the next event, or it has read a frame, or its resync moves.
Greeted(q) == HasReady(frames'[q], heard')
SentNext(q) ==
  /\ sock[q] = "ready" /\ heard' = heard + 1
  /\ frames'[q] = Append(frames[q], Event(heard + 1))
  /\ has'[q] = has[q] /\ told'[q] = told[q] /\ sync'[q] = sync[q]
  /\ overlooked'[q] = overlooked[q]
ReadsOn(q) == sock[q] = "ready" /\ heard' = heard /\ Delivered(q)
SyncMoves(q) ==
  /\ sock[q] = "ready" /\ heard' = heard /\ frames'[q] = frames[q] /\ told'[q] = told[q]
  /\ \/ /\ has'[q] = has[q] /\ overlooked'[q] = overlooked[q]
        /\ sync'[q] = sync[q] \/ sync[q].at = "ending"
     \/ /\ sync[q].at = "asked" /\ sync'[q].at = "read" /\ sync'[q].snap = now
        /\ now' = now /\ has'[q] = has[q]
     \/ /\ sync[q].at = "read" /\ has'[q] = has[q] \cup TailPage(sync[q].snap)
        /\ now' = now /\ overlooked'[q] = overlooked[q]
     \/ overlooked'[q] = told[q] /\ has'[q] = has[q]

LEMMA ReadyMoves ==
  ASSUME StreamInv, GapInv, Next, rebinds' = 0, NEW q \in Pages, sock'[q] = "ready"
  PROVE  /\ rebinds = 0 /\ everConnected'
         /\ Greeted(q) \/ SentNext(q) \/ ReadsOn(q) \/ SyncMoves(q)
<1>0. /\ Tables /\ PageInv(q) /\ now \in Nat /\ heard \in Nat /\ heard <= now
      /\ Buffer(replay, heard) /\ lastId[q] \in Nat /\ told[q] \in Nat /\ asked[q] \in Nat
      /\ told[q] <= heard /\ lastId[q] <= heard /\ rebinds \in Nat
      /\ conn = "attached" => everConnected
  BY Numbers DEF StreamInv, UpInv
<1>1. rebinds = 0 /\ (sock[q] = "ready" => everConnected)
  <2>1. rebinds' = rebinds \/ rebinds' = rebinds + 1
    BY DEF Next, Emit, UpConnects, UpFails, UpBreaks, UpReads, Rebind, Connect, Drop, Deliver,
           BootEnds, SyncReads, SyncApplies, SyncFails, SyncEnds, counts
  <2>2. QED
    BY <1>0, <2>1 DEF GapInv
<1>2. CASE Emit \/ UpBreaks
  <2>1. UNCHANGED <<sock, frames, told, has, sync, overlooked, heard, everConnected>>
    BY <1>2 DEF Emit, UpBreaks, bridge, client
  <2>2. QED
    BY <1>1, <2>1 DEF SyncMoves
<1>3. CASE Rebind
  BY <1>0, <1>1, <1>3 DEF Rebind
<1>4. CASE UpConnects
  <2>1. /\ everConnected' /\ heard' \in Nat /\ heard <= heard'
        /\ sock'[q] = IF sock[q] = "waiting" THEN "ready" ELSE sock[q]
        /\ frames'[q] = frames[q] \o Announced(q, heard')
    BY <1>0, <1>4 DEF UpConnects, ReadySockets
  <2>2. CASE sock[q] = "waiting"
    <3>1. frames[q] = <<>> /\ Announced(q, heard') = Welcome(heard', asked[q])
      BY <1>0, <2>2 DEF PageInv, Connected, Announced
    <3>2. /\ HasReady(Welcome(heard', asked[q]), heard')
          /\ Welcome(heard', asked[q]) \in Seq(Frames)
      BY <1>0, <2>1, WelcomeFacts DEF Orderly
    <3>3. frames'[q] = Welcome(heard', asked[q])
      BY <2>1, <3>1, <3>2
    <3>4. QED
      BY <1>1, <2>1, <3>2, <3>3 DEF Greeted
  <2>3. CASE sock[q] # "waiting"
    <3>1. Announced(q, heard') = <<Ready(heard')>>
      BY <1>1, <2>1, <2>3 DEF Announced
    <3>2. Orderly(frames[q], lastId[q], told[q], heard)
      BY <1>0 DEF PageInv
    <3>3. HasReady(frames[q] \o <<Ready(heard')>>, heard')
      BY <1>0, <2>1, <3>2, AppendReady
    <3>4. QED
      BY <1>1, <2>1, <3>1, <3>3 DEF Greeted
  <2>4. QED
    BY <2>2, <2>3
<1>5. CASE UpFails
  <2>1. UNCHANGED <<told, has, sync, overlooked, heard, everConnected>>
    BY <1>5 DEF UpFails, upstream, client
  <2>2. UNCHANGED <<sock, frames>>
    BY <1>5 DEF UpFails
  <2>3. QED
    BY <1>1, <2>1, <2>2 DEF SyncMoves
<1>6. CASE UpReads
  <2>1. /\ UNCHANGED <<told, has, sync, overlooked, everConnected>> /\ heard' = heard + 1
    BY <1>6 DEF UpReads, client
  <2>2. PICK slow \in SUBSET {p \in Pages : sock[p] = "ready"}, fits \in BOOLEAN :
          /\ sock' = [p \in Pages |-> IF p \in slow THEN "none" ELSE sock[p]]
          /\ frames' = [p \in Pages |->
               IF sock[p] # "ready" THEN frames[p]
               ELSE IF p \notin slow THEN Append(frames[p], Event(heard'))
               ELSE IF fits THEN frames[p] \o <<Event(heard'), Closed>>
               ELSE Append(frames[p], Closed)]
    BY <1>6 DEF UpReads
  <2>3. sock[q] = "ready" /\ q \notin slow
    BY <2>2
  <2>4. frames'[q] = Append(frames[q], Event(heard + 1))
    BY <2>1, <2>2, <2>3
  <2>5. QED
    BY <1>1, <2>1, <2>3, <2>4 DEF SentNext
<1>7. ASSUME NEW p \in Pages, Connect(p) \/ Drop(p)
      PROVE  everConnected' /\ (Greeted(q) \/ SyncMoves(q))
  <2>1. UNCHANGED <<told, has, sync, overlooked, heard, everConnected>>
    BY <1>7 DEF Connect, Drop, upstream
  <2>2. CASE p # q
    <3>1. sock'[q] = sock[q] /\ frames'[q] = frames[q]
      BY <1>0, <1>7, <2>2 DEF Connect, Drop, Tables
    <3>2. QED
      BY <1>1, <2>1, <3>1 DEF SyncMoves
  <2>3. CASE p = q
    <3>1. conn = "attached" /\ frames'[q] = Welcome(heard, lastId[q])
      BY <1>0, <1>7, <2>3 DEF Connect, Drop, Tables
    <3>2. HasReady(Welcome(heard, lastId[q]), heard)
      BY <1>0, WelcomeFacts
    <3>3. QED
      BY <1>0, <2>1, <3>1, <3>2 DEF Greeted
  <2>4. QED
    BY <2>2, <2>3
<1>8. ASSUME NEW p \in Pages, Deliver(p)
      PROVE  everConnected' /\ (ReadsOn(q) \/ SyncMoves(q))
  <2>1. Delivered(p)
    BY <1>8, DeliverIs
  <2>2. UNCHANGED <<sock, heard, everConnected>>
    BY <2>1 DEF Delivered, upstream
  <2>3. CASE p # q
    <3>1. /\ frames'[q] = frames[q] /\ told'[q] = told[q] /\ has'[q] = has[q]
          /\ sync'[q] = sync[q] /\ overlooked'[q] = overlooked[q]
      BY <1>0, <2>1, <2>3 DEF Delivered, OnReconnect, Tables
    <3>2. QED
      BY <1>1, <2>2, <3>1 DEF SyncMoves
  <2>4. CASE p = q
    BY <1>1, <2>1, <2>2, <2>4 DEF ReadsOn
  <2>5. QED
    BY <2>3, <2>4
<1>9. ASSUME NEW p \in Pages, BootEnds(p) \/ SyncSteps(p)
      PROVE  everConnected' /\ SyncMoves(q)
  <2>1. UNCHANGED <<now, sock, frames, told, heard, everConnected>>
    BY <1>9 DEF BootEnds, SyncSteps, SyncReads, SyncApplies, SyncFails, SyncEnds,
                upstream, bridge
  <2>2. CASE p # q \/ BootEnds(p)
    <3>1. has'[q] = has[q] /\ sync'[q] = sync[q] /\ overlooked'[q] = overlooked[q]
      BY <1>0, <1>9, <2>2
         DEF BootEnds, SyncSteps, SyncReads, SyncApplies, SyncFails, SyncEnds, Tables
    <3>2. QED
      BY <1>1, <2>1, <3>1 DEF SyncMoves
  <2>3. CASE p = q /\ SyncReads(q)
    <3>1. /\ sync[q].at = "asked" /\ sync'[q] = [at |-> "read", snap |-> now]
          /\ has'[q] = has[q]
      BY <1>0, <2>3 DEF SyncReads, Tables
    <3>2. QED
      BY <1>1, <2>1, <3>1 DEF SyncMoves
  <2>4. CASE p = q /\ SyncApplies(q)
    <3>1. /\ sync[q].at = "read" /\ has'[q] = has[q] \cup TailPage(sync[q].snap)
          /\ overlooked'[q] = overlooked[q]
      BY <1>0, <2>4 DEF SyncApplies, Tables
    <3>2. QED
      BY <1>1, <2>1, <3>1 DEF SyncMoves
  <2>5. CASE p = q /\ SyncFails(q)
    <3>1. overlooked'[q] = told[q] /\ has'[q] = has[q]
      BY <1>0, <2>5 DEF SyncFails, Tables
    <3>2. QED
      BY <1>1, <2>1, <3>1 DEF SyncMoves
  <2>6. CASE p = q /\ SyncEnds(q)
    <3>1. sync[q].at = "ending" /\ has'[q] = has[q] /\ overlooked'[q] = overlooked[q]
      BY <2>6 DEF SyncEnds
    <3>2. QED
      BY <1>1, <2>1, <3>1 DEF SyncMoves
  <2>7. QED
    BY <1>9, <2>2, <2>3, <2>4, <2>5, <2>6 DEF SyncSteps
<1>10. QED
  BY <1>1, <1>2, <1>3, <1>4, <1>5, <1>6, <1>7, <1>8, <1>9 DEF Next, SyncSteps

\* What a ready frame says of the latest event it says of the earlier ones.
LEMMA ReadyCovers ==
  ASSUME NEW s \in Seq(Frames), NEW top \in Nat, HasReady(s, top), NEW e \in 1..top
  PROVE  HasReady(s, e)
<1>1. PICK i \in 1..Len(s) : IsReady(s[i]) /\ s[i].id >= top
  BY DEF HasReady
<1>2. s[i].id \in Nat
  BY FrameId
<1>3. QED
  BY <1>1, <1>2 DEF HasReady

LEMMA NextCovers ==
  ASSUME NEW s \in Seq(Frames), NEW top \in Nat, NEW e \in 1..top + 1
  PROVE  /\ e = top + 1 => HasEvent(Append(s, Event(top + 1)), e)
         /\ HasEvent(s, e) => HasEvent(Append(s, Event(top + 1)), e)
         /\ HasReady(s, e) => HasReady(Append(s, Event(top + 1)), e)
<1> DEFINE t == Append(s, Event(top + 1))
<1>1. /\ Len(t) = Len(s) + 1 /\ Len(s) \in Nat /\ t[Len(s) + 1] = Event(top + 1)
      /\ \A i \in 1..Len(s) : t[i] = s[i]
  OBVIOUS
<1>2. IsEvent(Event(top + 1)) /\ Event(top + 1).id = top + 1
  BY FrameFacts
<1> HIDE DEF t
<1>3. QED
  BY <1>1, <1>2 DEF HasEvent, HasReady, t

LEMMA NextFrames ==
  ASSUME StreamInv, [Next]_vars, NEW q \in Pages
  PROVE  frames'[q] \in Seq(Frames) /\ heard' \in Nat /\ now' \in Nat /\ now <= now'
<1>1. StreamInv'
  BY StreamStep
<1>2. Tables' /\ now' \in 0..MaxEvents /\ heard' \in 0..now'
  BY <1>1 DEF StreamInv, UpInv
<1>3. heard' \in Nat /\ now' \in Nat
  BY <1>2, StreamAssumption
<1>4. now' = now \/ now' = now + 1
  BY DEF Next, Emit, UpConnects, UpFails, UpBreaks, UpReads, Rebind, Connect, BootEnds, Drop,
         Deliver, SyncReads, SyncApplies, SyncFails, SyncEnds, vars, upstream
<1>5. QED
  BY <1>2, <1>3, <1>4, Numbers DEF Tables

LEMMA GapStep == StreamInv /\ GapInv /\ [Next]_vars => GapInv'
<1> SUFFICES ASSUME StreamInv, GapInv, [Next]_vars, rebinds' = 0,
                    NEW q \in Pages, sock'[q] = "ready"
             PROVE  everConnected' /\ \A e \in 1..heard' : Passed(q, e)'
  BY DEF GapInv
<1>0. /\ Tables /\ PageInv(q) /\ now \in Nat /\ heard \in Nat /\ heard <= now
      /\ told[q] \in Nat /\ frames[q] \in Seq(Frames)
  BY Numbers DEF StreamInv
<1>1. frames'[q] \in Seq(Frames) /\ heard' \in Nat
  BY NextFrames
<1>2. CASE Next
  <2>1. /\ rebinds = 0 /\ everConnected'
        /\ Greeted(q) \/ SentNext(q) \/ ReadsOn(q) \/ SyncMoves(q)
    BY <1>2, ReadyMoves
  <2>2. ASSUME NEW e \in 1..heard'
        PROVE  Passed(q, e)'
    <3>1. CASE Greeted(q)
      BY <1>1, <3>1, ReadyCovers DEF Greeted, Passed
    <3>2. CASE SentNext(q)
      <4>1. e = heard + 1 \/ Passed(q, e)
        BY <1>0, <2>1, <3>2 DEF SentNext, GapInv
      <4>2. heard' = heard + 1 /\ frames'[q] = Append(frames[q], Event(heard + 1))
            /\ has'[q] = has[q] /\ told'[q] = told[q]
        BY <3>2 DEF SentNext
      <4>3. /\ e = heard + 1 => HasEvent(frames'[q], e)
            /\ HasEvent(frames[q], e) => HasEvent(frames'[q], e)
            /\ HasReady(frames[q], e) => HasReady(frames'[q], e)
        BY <1>0, <4>2, NextCovers
      <4>4. QED
        BY <4>1, <4>2, <4>3 DEF Passed
    <3>3. CASE ReadsOn(q)
      <4> DEFINE f == Head(frames[q])
      <4>1. Passed(q, e) /\ Delivered(q)
        BY <2>1, <3>3 DEF ReadsOn, GapInv
      <4>2. /\ frames'[q] = Tail(frames[q])
            /\ told'[q] = IF IsReady(f) THEN f.id ELSE told[q]
            /\ IsEvent(f) => has'[q] = has[q] \cup {f.id}
            /\ has[q] \subseteq has'[q] /\ frames[q] # <<>>
        <5>1. /\ f \in Frames
              /\ frames[q] # <<>>
          BY <1>0, <4>1 DEF Delivered
        <5>2. /\ IsEvent(f) \/ IsReady(f) \/ IsClosed(f)
              /\ ~(IsEvent(f) /\ IsReady(f)) /\ ~(IsEvent(f) /\ IsClosed(f))
              /\ ~(IsReady(f) /\ IsClosed(f))
          BY <5>1 DEF Frames, Closed, IsEvent, IsReady, IsClosed
        <5>3. QED
          BY <1>0, <4>1, <5>1, <5>2 DEF Delivered, Tables
      <4>3. /\ HasEvent(frames[q], e)
                 => HasEvent(Tail(frames[q]), e) \/ (IsEvent(f) /\ f.id = e)
            /\ HasReady(frames[q], e)
                 => HasReady(Tail(frames[q]), e) \/ (IsReady(f) /\ f.id >= e)
            /\ IsReady(f) => told[q] <= f.id
            /\ f.id \in Nat
        <5>1. Orderly(frames[q], lastId[q], told[q], heard)
          BY <1>0 DEF PageInv
        <5>2. lastId[q] \in Nat
          BY Numbers
        <5>3. f.id \in Nat
          BY <1>0, <4>2, FrameId
        <5>4. QED
          BY <1>0, <4>2, <5>1, <5>2, <5>3, ReadFrame
      <4> HIDE DEF f
      <4>4. CASE told[q] >= e
        BY <1>0, <4>2, <4>3, <4>4 DEF Passed
      <4>5. CASE e \in has[q]
        BY <4>2, <4>5 DEF Passed
      <4>6. CASE HasEvent(frames[q], e)
        BY <4>2, <4>3, <4>6 DEF Passed
      <4>7. CASE HasReady(frames[q], e)
        BY <4>2, <4>3, <4>7 DEF Passed
      <4>8. QED
        BY <4>1, <4>4, <4>5, <4>6, <4>7 DEF Passed
    <3>4. CASE SyncMoves(q)
      <4>1. Passed(q, e)
        BY <2>1, <3>4 DEF SyncMoves, GapInv
      <4>2. frames'[q] = frames[q] /\ told'[q] = told[q] /\ has[q] \subseteq has'[q]
        BY <3>4 DEF SyncMoves
      <4>3. QED
        BY <4>1, <4>2 DEF Passed
    <3>5. QED
      BY <2>1, <3>1, <3>2, <3>3, <3>4
  <2>3. QED
    BY <2>1, <2>2
<1>3. CASE UNCHANGED vars
  <2>1. /\ UNCHANGED <<rebinds, sock, everConnected, heard, has, frames, told>>
    BY <1>3 DEF vars, upstream, bridge, client, counts
  <2>2. QED
    BY <2>1 DEF GapInv, Passed
<1>4. QED
  BY <1>2, <1>3

LEMMA FetchStep == StreamInv /\ GapInv /\ FetchInv /\ [Next]_vars => FetchInv'
<1> SUFFICES ASSUME StreamInv, GapInv, FetchInv, [Next]_vars, rebinds' = 0,
                    NEW q \in Pages, sock'[q] = "ready",
                    NEW e \in 1..heard', e > now' - ResyncLimit
             PROVE  Fetched(q, e)'
  BY DEF FetchInv
<1>0. /\ Tables /\ PageInv(q) /\ now \in Nat /\ heard \in Nat /\ heard <= now
      /\ told[q] \in Nat /\ frames[q] \in Seq(Frames) /\ ResyncLimit \in Nat
      /\ overlooked[q] \in Nat /\ overlooked[q] <= told[q] /\ sync[q].snap \in Nat
  BY Numbers, StreamAssumption DEF StreamInv
<1>1. /\ frames'[q] \in Seq(Frames) /\ heard' \in Nat /\ now' \in Nat /\ now <= now'
      /\ e > now - ResyncLimit
  <2>1. frames'[q] \in Seq(Frames) /\ heard' \in Nat /\ now' \in Nat /\ now <= now'
    BY NextFrames
  <2>2. QED
    BY <1>0, <2>1
<1>2. CASE Next
  <2>1. /\ rebinds = 0
        /\ Greeted(q) \/ SentNext(q) \/ ReadsOn(q) \/ SyncMoves(q)
    BY <1>2, ReadyMoves
  <2>2. CASE Greeted(q)
    BY <1>1, <2>2, ReadyCovers DEF Greeted, Fetched
  <2>3. CASE SentNext(q)
    <3>1. heard' = heard + 1 /\ frames'[q] = Append(frames[q], Event(heard + 1))
          /\ has'[q] = has[q] /\ sync'[q] = sync[q]
          /\ sock[q] = "ready" /\ overlooked'[q] = overlooked[q]
      BY <2>3 DEF SentNext
    <3>2. e = heard + 1 \/ Fetched(q, e)
      <4>1. e = heard + 1 \/ e \in 1..heard
        BY <1>0, <3>1
      <4>2. e \in 1..heard => Fetched(q, e)
        BY <1>1, <2>1, <3>1 DEF FetchInv
      <4>3. QED
        BY <4>1, <4>2
    <3>3. /\ e = heard + 1 => HasEvent(frames'[q], e)
          /\ HasEvent(frames[q], e) => HasEvent(frames'[q], e)
          /\ HasReady(frames[q], e) => HasReady(frames'[q], e)
      BY <1>0, <3>1, NextCovers
    <3>4. QED
      BY <3>1, <3>2, <3>3 DEF Fetched
  <2>4. CASE ReadsOn(q)
    <3> DEFINE f == Head(frames[q])
    <3>1. Delivered(q) /\ sock[q] = "ready" /\ heard' = heard
      BY <2>4 DEF ReadsOn
    <3>2. f \in Frames /\ frames[q] # <<>>
      BY <1>0, <3>1 DEF Delivered
    <3>3. /\ IsEvent(f) \/ IsReady(f) \/ IsClosed(f)
          /\ ~(IsEvent(f) /\ IsReady(f)) /\ ~(IsEvent(f) /\ IsClosed(f))
          /\ ~(IsReady(f) /\ IsClosed(f))
      BY <3>2 DEF Frames, Closed, IsEvent, IsReady, IsClosed
    <3>4. /\ HasEvent(frames[q], e)
               => HasEvent(Tail(frames[q]), e) \/ (IsEvent(f) /\ f.id = e)
          /\ HasReady(frames[q], e)
               => HasReady(Tail(frames[q]), e) \/ (IsReady(f) /\ f.id >= e)
      <4>1. Orderly(frames[q], lastId[q], told[q], heard) /\ lastId[q] \in Nat
        BY <1>0, Numbers DEF PageInv
      <4>2. QED
        BY <1>0, <3>2, <4>1, ReadFrame
    <3>5. frames'[q] = Tail(frames[q])
      BY <1>0, <3>1 DEF Delivered, Tables
    <3>6. CASE IsReady(f)
      <4>1. /\ has'[q] = has[q]
            /\ sync'[q] = IF Resyncs(q) /\ sync[q].at = "idle"
                          THEN [at |-> "asked", snap |-> 0] ELSE sync[q]
            /\ overlooked'[q] = IF Overlooks(q) THEN f.id ELSE overlooked[q]
        BY <1>0, <3>1, <3>3, <3>6 DEF Delivered, OnReconnect, Tables
      <4>2. CASE ~Overlooks(q)
        <5>1. sync[q].at \in {"idle", "asked", "read", "ending"}
          BY <1>0 DEF Tables
        <5>2. Resyncs(q) /\ sync[q].at \in {"idle", "asked"}
          BY <4>2, <5>1 DEF Overlooks, Resyncs
        <5>3. sync'[q].at = "asked"
          BY <4>1, <5>2
        <5>4. QED
          BY <5>3 DEF Fetched
      <4>3. CASE Overlooks(q)
        <5>1. Passed(q, e)
          BY <2>1, <3>1 DEF GapInv
        <5>2. told[q] <= f.id /\ f.id \in Nat /\ e \in Nat
          <6>1. Orderly(frames[q], lastId[q], told[q], heard) /\ lastId[q] \in Nat
            BY <1>0, Numbers DEF PageInv
          <6>2. f.id \in Nat
            BY <1>0, <3>2, FrameId
          <6>3. told[q] <= f.id
            BY <3>2, <3>6, <6>1, <1>0, ReadFrame
          <6>4. e \in Nat
            BY <1>0
          <6>5. QED
            BY <6>2, <6>3, <6>4
        <5>3. overlooked'[q] = f.id
          BY <4>1, <4>3
        <5> HIDE DEF f
        <5>4. CASE told[q] >= e \/ (IsReady(f) /\ f.id >= e)
          BY <1>0, <5>2, <5>3, <5>4 DEF Fetched
        <5>5. CASE e \in has[q] \/ HasEvent(Tail(frames[q]), e) \/ HasReady(Tail(frames[q]), e)
          BY <3>5, <4>1, <5>5 DEF Fetched
        <5>6. QED
          BY <3>3, <3>4, <3>6, <5>1, <5>4, <5>5 DEF Passed
      <4>4. QED
        BY <4>2, <4>3
    <3>7. CASE ~IsReady(f)
      <4>1. /\ sync'[q] = sync[q] /\ overlooked'[q] = overlooked[q]
            /\ has[q] \subseteq has'[q] /\ (IsEvent(f) => f.id \in has'[q])
        BY <1>0, <3>1, <3>3, <3>7 DEF Delivered, Tables
      <4>2. Fetched(q, e)
        BY <1>1, <2>1, <3>1 DEF FetchInv
      <4>3. QED
        BY <3>4, <3>5, <3>7, <4>1, <4>2 DEF Fetched
    <3>8. QED
      BY <3>6, <3>7
  <2>5. CASE SyncMoves(q)
    <3>1. sock[q] = "ready" /\ heard' = heard /\ frames'[q] = frames[q]
      BY <2>5 DEF SyncMoves
    <3>2. Fetched(q, e) /\ Passed(q, e)
      BY <1>1, <2>1, <3>1 DEF FetchInv, GapInv
    <3>3. CASE /\ has'[q] = has[q] /\ overlooked'[q] = overlooked[q]
               /\ sync'[q] = sync[q] \/ sync[q].at = "ending"
      BY <3>1, <3>2, <3>3 DEF Fetched
    <3>4. CASE sync'[q].at = "read" /\ sync'[q].snap = now
      BY <1>0, <3>1, <3>4 DEF Fetched
    <3>5. CASE /\ sync[q].at = "read" /\ has'[q] = has[q] \cup TailPage(sync[q].snap)
               /\ overlooked'[q] = overlooked[q]
      <4>1. sync[q].snap <= now
        BY <1>0 DEF PageInv, InRange
      <4>2. e \in 1..sync[q].snap => e \in TailPage(sync[q].snap)
        BY <1>0, <1>1, <4>1 DEF TailPage
      <4>3. e <= sync[q].snap => e \in 1..sync[q].snap
        BY <1>0, <1>1
      <4>4. QED
        BY <3>1, <3>2, <3>5, <4>2, <4>3 DEF Fetched
    <3>6. CASE overlooked'[q] = told[q] /\ has'[q] = has[q]
      BY <1>0, <3>1, <3>2, <3>6 DEF Fetched, Passed
    <3>7. QED
      BY <2>5, <3>3, <3>4, <3>5, <3>6 DEF SyncMoves
  <2>6. QED
    BY <2>1, <2>2, <2>3, <2>4, <2>5
<1>3. CASE UNCHANGED vars
  <2>1. /\ UNCHANGED <<now, rebinds, sock, heard, has, frames, told, sync, overlooked>>
    BY <1>3 DEF vars, upstream, bridge, client, counts
  <2>2. QED
    BY <2>1 DEF FetchInv, Fetched
<1>4. QED
  BY <1>2, <1>3

LEMMA InitGap == Init => GapInv /\ FetchInv
BY DEF Init, GapInv, FetchInv

\* The properties of the runs speak of the frames by their indices.
LEMMA FramesSay ==
  ASSUME NEW s \in Seq(Frames), NEW e
  PROVE  /\ HasEvent(s, e) => e \in EventsOf(s)
         /\ HasReady(s, e) => ReadyIn(s, e)
<1>1. DOMAIN s = 1..Len(s)
  OBVIOUS
<1>2. QED
  BY <1>1 DEF HasEvent, HasReady, EventsOf, ReadyIn, IsEvent, IsReady

LEMMA GapImplies == StreamInv /\ GapInv => NoSilentGap
<1> SUFFICES ASSUME StreamInv, GapInv, rebinds = 0, NEW p \in Pages, sock[p] = "ready",
                    NEW e \in 1..heard
             PROVE  \/ e \in has[p] \/ e \in EventsOf(frames[p])
                    \/ told[p] >= e \/ ReadyIn(frames[p], e)
  BY DEF NoSilentGap, GapAnnounced
<1>1. Passed(p, e) /\ frames[p] \in Seq(Frames)
  BY Numbers DEF GapInv
<1>2. QED
  BY <1>1, FramesSay DEF Passed

LEMMA FetchImplies == StreamInv /\ FetchInv => MissedIsRefetched
<1> SUFFICES ASSUME StreamInv, FetchInv, NEW p \in Pages,
                    rebinds = 0 /\ sock[p] = "ready", NEW e \in Newest, e <= heard
             PROVE  \/ e \in has[p] \/ e \in EventsOf(frames[p]) \/ ReadyIn(frames[p], e)
                    \/ sync[p].at = "asked"
                    \/ sync[p].at = "read" /\ e <= sync[p].snap
                    \/ e <= overlooked[p]
  BY DEF MissedIsRefetched
<1>1. e \in 1..heard /\ e > now - ResyncLimit
  BY Numbers DEF Newest
<1>2. Fetched(p, e) /\ frames[p] \in Seq(Frames)
  BY <1>1, Numbers DEF FetchInv
<1>3. QED
  BY <1>2, FramesSay DEF Fetched

\* While the managed OpenCode is not restarted, whatever the stream passes a
\* connected page by is followed by a ready frame that says so.
THEOREM GapsAnnounced == Spec => []NoSilentGap
<1>1. Init => StreamInv /\ GapInv
  BY InitStream, InitGap
<1>2. StreamInv /\ GapInv /\ [Next]_vars => (StreamInv /\ GapInv)'
  BY StreamStep, GapStep
<1>3. QED
  BY <1>1, <1>2, GapImplies, PTL DEF Spec

\* Of the newest ResyncLimit messages, what passed a page by is announced to it,
\* in a resync about to read or in the page one has read, or the ready frame
\* that told of it is one no read has followed: it came on a first connect,
\* during a boot or after the resync had read, or that resync failed.
THEOREM MissesFetched == Spec => []MissedIsRefetched
<1>1. Init => StreamInv /\ GapInv /\ FetchInv
  BY InitStream, InitGap
<1>2. StreamInv /\ GapInv /\ FetchInv /\ [Next]_vars => (StreamInv /\ GapInv /\ FetchInv)'
  BY StreamStep, GapStep, FetchStep
<1>3. QED
  BY <1>1, <1>2, FetchImplies, PTL DEF Spec
=============================================================================
