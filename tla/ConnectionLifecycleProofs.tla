---------------------- MODULE ConnectionLifecycleProofs ----------------------
(***************************************************************************)
(* Theorems about ConnectionLifecycle for every number of channels, frames *)
(* and concurrent joins.  The argument is the inductive invariant          *)
(* LifecycleInv; there is one lemma per step of the code.                  *)
(***************************************************************************)
EXTENDS ConnectionLifecycle, FiniteSetTheorems, TLAPS

USE LifecycleAssumption

\* Nothing is left that could join a channel or bring a session back.
Cold ==
  /\ socket = NoSocket /\ waiting = {} /\ relay = FreshRelay
  /\ queue = <<>> /\ handling = "no" /\ ~teardown
  /\ manager.keys = "none" /\ ~manager.pend
  /\ ~restore.current

\* So it is before the first pairing and after the end of a session.
ColdInv ==
  /\ over \/ channel = 0 => Cold
  /\ over => manager.status = "disconnected" \/ life.pc = "releasing"
  /\ life.pc = "releasing" => over

\* Queued work and waiting calls belong to the key exchange that is live.
QueueInv ==
  /\ handling # "no" => queue # <<>>
  /\ queue # <<>> => manager.keys # "none"
  /\ \A i \in 1 .. Len(queue) : queue[i].kind = "joined" => Ready
  /\ Callers # {} => Ready
  /\ manager.pend \/ restore.current => manager.keys = "none"
  /\ manager.probe => manager.keys # "pairing"

\* A pairing under way has a channel of its own, which nobody knows yet.
LifeInv ==
  /\ life.pc \in {"pairing", "encoding"} =>
       /\ channel \notin offered
       /\ channel # 0
       /\ life.current => manager.keys # "none"
  /\ life.pc = "pairing" =>
       life.current /\ Lifecycle \in waiting /\ channel \notin closed
  /\ Lifecycle \in waiting => life.pc \in {"joining", "pairing"}
  /\ socket.attempt = "call" => waiting # {}
  /\ life.pc \in {"owning", "issuing"} => channel < MaxChannel
  /\ life.pc \in {"joining", "flushing", "closing", "ending"} /\ life.op # "disconnect" =>
       channel < MaxChannel

GivenUp == channel \in offered => channel \in closed \cup waived

\* The channel of a pairing is given up only as a tombstone or by its end.
RetireInv ==
  /\ relay.wallet => channel \in offered
  /\ closed \cup offered \cup waived \subseteq 1 .. channel
  /\ OldChannelsRetired
  /\ GivenUp \/ manager.pend \/ manager.keys # "none"
  /\ life.pc \in {"joining", "flushing", "closing"} => life.had
  /\ life.pc = "issuing" \/ (life.pc = "ending" /\ ~Unconfirmed) => GivenUp

\* StatusHasSession; only a hydration that was not overtaken counts.
StatusInv ==
  life.pc # "releasing" /\ restore.pc # "releasing" =>
    /\ manager.status = "connected" => Ready
    /\ manager.status \in {"waiting", "key_exchange"} => manager.keys # "none"
    /\ manager.status = "connecting" => manager.keys = "pairing"
    /\ manager.status = "reconnecting" => Ready \/ (restore.pc = "hydrating" /\ restore.current)

LifecycleInv ==
  /\ TypeOK
  /\ ColdInv
  /\ QueueInv
  /\ LifeInv
  /\ RetireInv
  /\ StatusInv

USE DEF Cold, GivenUp, OldChannelsRetired, Unconfirmed, Callers, Ready

LEMMA Blank ==
  /\ NoSession \in Managers /\ NoSession.keys = "none" /\ ~NoSession.pend
  /\ ~NoSession.probe /\ NoSession.status = "disconnected"
  /\ NoSocket \in Sockets /\ NoSocket.attempt = "none" /\ NoSocket.state = "none"
  /\ ~NoSocket.channel
  /\ FreshRelay \in Relays /\ ~FreshRelay.wallet /\ ~FreshRelay.member
  /\ FreshStream \in Streams /\ <<>> \in Seq(Items)
  /\ NoCall \in LifeCalls /\ NoCall.pc = "idle"
  /\ NoRestore \in Restores /\ NoRestore.pc = "idle" /\ ~NoRestore.current
<1>1. NoSession \in Managers /\ NoSocket \in Sockets /\ NoCall \in LifeCalls
  BY DEF NoSession, Managers, Statuses, NoSocket, Sockets, NoCall, LifeCalls
<1>2. FreshRelay \in Relays /\ FreshStream \in Streams /\ NoRestore \in Restores
  BY DEF FreshRelay, Relays, FreshStream, Streams, NoRestore, Restores
<1>3. <<>> \in Seq(Items)
  OBVIOUS
<1>4. QED
  BY <1>1, <1>2, <1>3 DEF NoSession, NoSocket, FreshRelay, NoCall, NoRestore

LEMMA StatusSet ==
  ASSUME NEW m \in Managers, NEW s \in Statuses
  PROVE  /\ Status(m, s) \in Managers
         /\ Status(m, s).status = s /\ Status(m, s).keys = m.keys
         /\ Status(m, s).pend = m.pend /\ Status(m, s).probe = m.probe
         /\ Status(m, s).present = m.present
  BY DEF Status, Managers

LEMMA RejectedStatus ==
  ASSUME NEW m \in Managers
  PROVE  /\ Rejected(m) \in Managers
         /\ Rejected(m).status \in {m.status, "disconnected"}
         /\ Rejected(m).keys = m.keys /\ Rejected(m).pend = m.pend
         /\ Rejected(m).probe = m.probe
  BY StatusSet DEF Rejected, Statuses

\* A rejected join ends the lifecycle call that waits for it, and no other.
LEMMA RejectedCall ==
  ASSUME LifecycleInv
  PROVE  /\ LifeRejected \in LifeCalls
         /\ LifeRejected = NoCall \/ (LifeRejected = life /\ Lifecycle \notin waiting)
  BY Blank DEF LifeRejected, LifecycleInv, TypeOK

\* closeChannel() at most adds the tombstone of the channel.
LEMMA Closing ==
  ASSUME LifecycleInv, CloseChannel
  PROVE  /\ socket' \in Sockets /\ socket'.attempt = "none"
         /\ socket = NoSocket => socket' = NoSocket
         /\ waiting' = {}
         /\ relay' \in Relays /\ (relay'.wallet => relay.wallet)
         /\ \/ closed' = closed /\ relay' = relay
            \/ closed' = closed \cup {channel} /\ relay' = FreshRelay /\ socket # NoSocket
  BY Blank DEF CloseChannel, LifecycleInv, TypeOK, Sockets, Joined

\* A join that is asked for is waited for.
LEMMA Joining ==
  ASSUME LifecycleInv, NEW q, JoinAsked(q)
  PROVE  socket' \in Sockets /\ waiting' = waiting \cup {q}
  BY DEF JoinAsked, LifecycleInv, TypeOK, Sockets

LEMMA ConnectedStatus ==
  ASSUME NEW m \in Managers
  PROVE  /\ Connected(m) \in Managers
         /\ Connected(m).status = "connected" /\ Connected(m).keys = m.keys
         /\ Connected(m).pend = m.pend /\ ~Connected(m).probe
  BY DEF Connected, Status, Managers, Statuses

\* The queue without its head
LEMMA Dequeued ==
  ASSUME LifecycleInv, queue # <<>>
  PROVE  /\ Tail(queue) \in Seq(Items)
         /\ Head(queue) = queue[1] /\ 1 \in 1 .. Len(queue)
         /\ Head(queue) \in Items
         /\ Len(Tail(queue)) = Len(queue) - 1
         /\ \A i \in 1 .. Len(Tail(queue)) :
              Tail(queue)[i] = queue[i + 1] /\ i + 1 \in 1 .. Len(queue)
  BY DEF LifecycleInv, TypeOK

\* Whatever rejects the joins that are waited for leaves the session as it is,
\* but for its status.
LEMMA AbandonInv ==
  ASSUME LifecycleInv,
         manager' \in Managers, manager'.keys = manager.keys, manager'.pend = manager.pend,
         manager'.probe => manager.probe,
         \/ manager'.status \in {manager.status, "disconnected"}
         \/ manager'.status = "reconnecting" /\ Ready,
         life' = LifeRejected, waiting' = {},
         socket' \in Sockets, socket'.attempt = "none",
         socket = NoSocket => socket' = NoSocket,
         relay' \in Relays, relay'.wallet => relay.wallet,
         socket = NoSocket /\ relay = FreshRelay => relay' = FreshRelay,
         handling' \in {"no", "opening", "closing"}, handling' # "no" => queue # <<>>,
         teardown' \in BOOLEAN, teardown' => teardown \/ Ready,
         stream' \in Streams,
         closed' = closed \/ (closed' = closed \cup {channel} /\ socket # NoSocket),
         UNCHANGED <<queue, restore, owned, channel, offered, waived, over>>
  PROVE  LifecycleInv'
<1> USE DEF LifeRejected
<1>1. TypeOK'
  <2>1. closed' \cup offered' \cup waived' \subseteq 1 .. MaxChannel
    BY DEF LifecycleInv, TypeOK, ColdInv
  <2>2. teardown' \in BOOLEAN /\ over' \in BOOLEAN /\ owned' \in BOOLEAN
    BY DEF LifecycleInv, TypeOK
  <2>3. QED BY <2>1, <2>2, RejectedCall DEF LifecycleInv, TypeOK
<1>2. ColdInv' /\ QueueInv'
  BY Blank DEF TypeOK, LifecycleInv, ColdInv, QueueInv, LifeInv, RetireInv, StatusInv
<1>3. LifeInv' /\ RetireInv'
  BY Blank DEF TypeOK, LifecycleInv, ColdInv, QueueInv, LifeInv, RetireInv, StatusInv
<1>4. StatusInv'
  BY Blank DEF TypeOK, LifecycleInv, ColdInv, QueueInv, LifeInv, RetireInv, StatusInv
<1>5. QED BY <1>1, <1>2, <1>3, <1>4 DEF LifecycleInv

\* A pairing that fails leaves nothing behind.
LEMMA PairingFailsInv ==
  ASSUME LifecycleInv, life.pc \in {"pairing", "encoding"}, life.current, PairingFails
  PROVE  LifecycleInv'
<1> USE DEF PairingFails, WorkRetired, ChannelForgotten
<1>1. /\ manager' \in Managers /\ manager'.status = "disconnected"
      /\ manager'.keys = "none" /\ manager'.pend = manager.pend /\ manager'.probe = manager.probe
  BY DEF LifecycleInv, TypeOK, Managers, Statuses
<1>2. restore' \in Restores /\ ~restore'.current /\ restore'.pc = restore.pc
  BY DEF LifecycleInv, TypeOK, Restores
<1>3. TypeOK'
  BY <1>1, <1>2, Blank DEF LifecycleInv, TypeOK, ColdInv
<1>4. ColdInv' /\ QueueInv'
  BY <1>1, <1>2, Blank
     DEF TypeOK, LifecycleInv, ColdInv, QueueInv, LifeInv, RetireInv, StatusInv
<1>5. LifeInv' /\ RetireInv'
  BY <1>1, <1>2, Blank
     DEF TypeOK, LifecycleInv, ColdInv, QueueInv, LifeInv, RetireInv, StatusInv
<1>6. StatusInv'
  BY <1>1, <1>2, Blank
     DEF TypeOK, LifecycleInv, ColdInv, QueueInv, LifeInv, RetireInv, StatusInv
<1>7. QED BY <1>3, <1>4, <1>5, <1>6 DEF LifecycleInv

\* handleSessionTerminated(), whatever becomes of the lifecycle call
LEMMA SessionEndsInv ==
  ASSUME LifecycleInv, channel # 0, NEW call \in LifeCalls, SessionEnds(call),
         \/ call = NoCall
         \/ call = life /\ life.pc # "pairing"
         \/ /\ call.pc = "ending" /\ channel \in closed
            /\ call.op # "disconnect" => channel < MaxChannel
  PROVE  LifecycleInv'
<1> USE DEF SessionEnds, WorkRetired, ChannelForgotten
<1>1. /\ life' \in LifeCalls /\ ~life'.current
      /\ life'.pc = call.pc /\ life'.op = call.op
      /\ life'.had = call.had /\ life'.confirmed = call.confirmed
  BY DEF LifeCalls
<1>2. restore' \in Restores /\ ~restore'.current /\ restore'.pc = restore.pc
  BY DEF LifecycleInv, TypeOK, Restores
<1>3. TypeOK'
  <2>1. closed' \cup offered' \cup waived' \subseteq 1 .. MaxChannel
    BY DEF LifecycleInv, TypeOK
  <2>2. QED BY <1>1, <1>2, <2>1, Blank DEF LifecycleInv, TypeOK
<1>4. ColdInv' /\ QueueInv'
  BY <1>1, <1>2, Blank
     DEF TypeOK, LifecycleInv, ColdInv, QueueInv, LifeInv, RetireInv, StatusInv
<1>5. LifeInv' /\ RetireInv'
  BY <1>1, <1>2, Blank
     DEF TypeOK, LifecycleInv, ColdInv, QueueInv, LifeInv, RetireInv, StatusInv
<1>6. StatusInv'
  BY <1>1, <1>2, Blank
     DEF TypeOK, LifecycleInv, ColdInv, QueueInv, LifeInv, RetireInv, StatusInv
<1>7. QED BY <1>3, <1>4, <1>5, <1>6 DEF LifecycleInv

LEMMA TerminatedInv ==
  ASSUME LifecycleInv, channel # 0, SessionTerminated
  PROVE  LifecycleInv'
  BY RejectedCall, SessionEndsInv DEF SessionTerminated, LifecycleInv, LifeInv, LifeRejected

\* leaveChannel() and disconnect() make the dApp leave, and nothing else.
LEMMA Dropping ==
  ASSUME LifecycleInv, SocketDropped
  PROVE  /\ socket' = NoSocket /\ waiting' = {}
         /\ relay' \in Relays /\ (relay'.wallet => relay.wallet)
         /\ relay = FreshRelay => relay' = FreshRelay
<1> USE DEF SocketDropped
<1>1. relay' \in Relays /\ (relay'.wallet => relay.wallet)
  BY DEF LifecycleInv, TypeOK, Relays
<1>2. ASSUME NEW r \in Relays, ~r.member
      PROVE  [r EXCEPT !.member = FALSE] = r
  BY <1>2 DEF Relays
<1>3. QED BY <1>1, <1>2, Blank DEF LifecycleInv, TypeOK

\* An answer that is lost takes the frames it carries with it.
LEMMA LostAnswer ==
  ASSUME LifecycleInv, AnswerLost
  PROVE  relay' \in Relays /\ (relay'.wallet => relay.wallet) /\ stream' \in Streams
<1>1. CASE relay' = [relay EXCEPT !.member = FALSE] /\ UNCHANGED stream
  BY <1>1 DEF LifecycleInv, TypeOK, Relays
<1>2. CASE /\ relay' = [relay EXCEPT !.member = FALSE, !.buffer = <<>>]
           /\ stream' = [stream EXCEPT !.gap = TRUE]
  <2>1. <<>> \in Seq(0 .. MaxFrames)
    OBVIOUS
  <2>2. relay' \in Relays /\ (relay'.wallet => relay.wallet)
    BY <1>2, <2>1 DEF LifecycleInv, TypeOK, Relays
  <2>3. stream' \in Streams
    BY <1>2 DEF LifecycleInv, TypeOK, Streams
  <2>4. QED BY <2>2, <2>3
<1>3. QED BY <1>1, <1>2 DEF AnswerLost

\* What an answered join puts into the queue are items of the session.
LEMMA Enqueuing ==
  ASSUME LifecycleInv, NEW s \in Seq(Items), s # <<>> => manager.keys # "none",
         \A i \in 1 .. Len(s) : s[i].kind = "joined" => Ready
  PROVE  /\ queue \o s \in Seq(Items)
         /\ handling # "no" => queue \o s # <<>>
         /\ queue \o s # <<>> => manager.keys # "none"
         /\ \A i \in 1 .. Len(queue \o s) : (queue \o s)[i].kind = "joined" => Ready
<1> DEFINE q == queue \o s
<1>1. queue \in Seq(Items)
  BY DEF LifecycleInv, TypeOK
<1>2. q \in Seq(Items) /\ Len(q) = Len(queue) + Len(s)
  BY <1>1
<1>3. \A i \in 1 .. Len(q) : q[i] = IF i <= Len(queue) THEN queue[i] ELSE s[i - Len(queue)]
  BY <1>1
<1>4. \A i \in 1 .. Len(q) : q[i].kind = "joined" => Ready
  BY <1>1, <1>2, <1>3 DEF LifecycleInv, QueueInv
<1>5. q # <<>> => queue # <<>> \/ s # <<>>
  BY <1>1, <1>2
<1>6. queue # <<>> => q # <<>>
  BY <1>1, <1>2
<1>7. QED BY <1>2, <1>4, <1>5, <1>6 DEF LifecycleInv, QueueInv

LEMMA Answer ==
  ASSUME LifecycleInv, NEW kind \in {"joined", "rejoined"}
  PROVE  /\ Enqueued(kind) \in Seq(Items) /\ Len(Enqueued(kind)) = Len(relay.buffer) + 1
         /\ \A i \in 1 .. Len(Enqueued(kind)) : Enqueued(kind)[i].kind \in {"buffered", kind}
<1> DEFINE frames == Frames("buffered")
           marker == Marker(kind)
<1>1. relay.buffer \in Seq(0 .. MaxFrames)
  BY DEF LifecycleInv, TypeOK, Relays
<1>2. /\ Len(relay.buffer) \in Nat
      /\ \A i \in 1 .. Len(relay.buffer) : relay.buffer[i] \in 0 .. MaxFrames
  BY <1>1
<1>3. frames \in Seq(Items) /\ Len(frames) = Len(relay.buffer)
  BY <1>2 DEF Frames, Items
<1>4. \A i \in 1 .. Len(relay.buffer) : frames[i].kind = "buffered"
  BY <1>2 DEF Frames
<1>5. marker \in Seq(Items) /\ Len(marker) = 1 /\ marker[1].kind = kind
  BY DEF Marker, Items
<1> DEFINE once == frames \o marker
           n == Len(relay.buffer)
<1> HIDE DEF frames, marker, n
<1>6. /\ once \in Seq(Items)
      /\ Len(once) = Len(frames) + Len(marker)
      /\ \A i \in 1 .. Len(frames) + Len(marker) :
           once[i] = IF i <= Len(frames) THEN frames[i] ELSE marker[i - Len(frames)]
  <2>1. frames \in Seq(Items) /\ marker \in Seq(Items)
    BY <1>3, <1>5
  <2>2. once \in Seq(Items) /\ Len(once) = Len(frames) + Len(marker)
    BY <2>1
  <2>3. ASSUME NEW i \in 1 .. Len(frames) + Len(marker)
        PROVE  once[i] = IF i <= Len(frames) THEN frames[i] ELSE marker[i - Len(frames)]
    BY <2>1
  <2>4. QED BY <2>2, <2>3
<1> HIDE DEF once
<1>7. /\ n \in Nat /\ Len(once) = n + 1
      /\ \A i \in 1 .. n + 1 : once[i] = IF i <= n THEN frames[i] ELSE marker[i - n]
      /\ \A i \in 1 .. n : frames[i].kind = "buffered"
  BY <1>2, <1>3, <1>4, <1>5, <1>6 DEF n
<1>8. ASSUME NEW i \in 1 .. n + 1
      PROVE  once[i].kind \in {"buffered", kind}
  <2>1. CASE i <= n
    BY <1>7, <2>1
  <2>2. CASE i = n + 1
    <3>1. i - n = 1 /\ ~(i <= n)
      BY <1>7, <2>2
    <3>2. QED BY <1>5, <1>7, <3>1
  <2>3. QED BY <1>7, <2>1, <2>2
<1>9. /\ once \in Seq(Items) /\ Len(once) = n + 1
      /\ \A i \in 1 .. Len(once) : once[i].kind \in {"buffered", kind}
  BY <1>6, <1>7, <1>8
<1>10. QED BY <1>9 DEF Enqueued, once, frames, marker, n

\* However many calls share the answer
LEMMA Copying ==
  ASSUME LifecycleInv, NEW k \in Nat
  PROVE  /\ Copies(k) \in Seq(Items)
         /\ k = 0 => Copies(k) = <<>>
<1> DEFINE once == Enqueued("joined")
<1>1. once \in Seq(Items) /\ Len(once) \in Nat \ {0}
  <2>1. Len(relay.buffer) \in Nat
    BY DEF LifecycleInv, TypeOK, Relays
  <2>2. QED BY <2>1, Answer
<1> HIDE DEF once
<1>2. PICK d \in Nat \ {0} : d = Len(once)
  BY <1>1
<1>3. k * d \in Nat
  OBVIOUS
<1>4. PICK m \in Nat : m = k * d
  BY <1>3
<1>5. ASSUME NEW i \in 1 .. m
      PROVE  once[((i - 1) % d) + 1] \in Items
  <2>1. i - 1 \in Nat
    OBVIOUS
  <2>2. (i - 1) % d \in 0 .. d - 1
    BY <2>1
  <2>3. ((i - 1) % d) + 1 \in 1 .. Len(once)
    BY <2>2, <1>2
  <2>4. QED BY <2>3, <1>1
<1>6. Copies(k) = [i \in 1 .. m |-> once[((i - 1) % d) + 1]]
  BY <1>2, <1>4 DEF Copies, once
<1>7. Copies(k) \in Seq(Items)
  BY <1>5, <1>6
<1>8. ASSUME k = 0 PROVE Copies(k) = <<>>
  <2>1. m = 0
    BY <1>4, <1>8
  <2>2. Copies(k) = [i \in 1 .. 0 |-> once[((i - 1) % d) + 1]]
    BY <1>6, <2>1
  <2>3. QED BY <2>2
<1>9. QED BY <1>7, <1>8

LEMMA FrameAccepted ==
  ASSUME NEW s \in Streams, NEW n \in 0 .. MaxFrames
  PROVE  [s EXCEPT !.recv = n, !.fails = 0] \in Streams
<1>1. 0 \in 0 .. MaxFailures
  OBVIOUS
<1>2. QED BY <1>1 DEF Streams

LEMMA FrameRefused ==
  ASSUME NEW s \in Streams, NEW f \in 0 .. MaxFailures
  PROVE  [s EXCEPT !.fails = f] \in Streams
  BY DEF Streams

LEMMA FrameSent ==
  ASSUME NEW s \in Streams, s.next <= MaxFrames
  PROVE  /\ [s EXCEPT !.next = @ + 1] \in Streams
         /\ [s EXCEPT !.next = @ + 1, !.gap = TRUE] \in Streams
<1>1. s.next + 1 \in 0 .. MaxFrames + 1
  BY DEF Streams
<1>2. QED BY <1>1 DEF Streams

LEMMA KeysExchanged ==
  ASSUME NEW m \in Managers
  PROVE  LET paired == [Connected(m) EXCEPT !.keys = "ready", !.present = TRUE]
         IN  /\ paired \in Managers /\ paired.status = "connected"
             /\ paired.keys = "ready" /\ paired.pend = m.pend /\ ~paired.probe
  BY DEF Connected, Status, Managers, Statuses

LEMMA Handled ==
  ASSUME LifecycleInv, NEW m \in Managers, AfterFrame(m), queue # <<>>
  PROVE  /\ manager' \in Managers /\ manager'.status \in {m.status, "connected"}
         /\ manager'.keys = m.keys /\ manager'.pend = m.pend /\ manager'.probe = m.probe
         /\ manager'.status = m.status \/ manager'.keys = "ready"
         /\ handling' = "no" /\ queue' \in Seq(Items)
         /\ \A i \in 1 .. Len(queue') : queue'[i].kind = "joined" => Ready
<1>1. handling' = "no" /\ queue' = Tail(queue)
  BY DEF AfterFrame
<1>2. /\ queue' \in Seq(Items)
      /\ \A i \in 1 .. Len(queue') : queue'[i].kind = "joined" => Ready
  BY <1>1, Dequeued DEF LifecycleInv, QueueInv
<1>3. /\ manager' \in Managers /\ manager'.status \in {m.status, "connected"}
      /\ manager'.keys = m.keys /\ manager'.pend = m.pend /\ manager'.probe = m.probe
      /\ manager'.status = m.status \/ manager'.keys = "ready"
  BY StatusSet DEF AfterFrame, Statuses
<1>4. QED BY <1>1, <1>2, <1>3

-----------------------------------------------------------------------------

LEMMA JoinAndSettleInv ==
  ASSUME LifecycleInv, NEW j \in Joins, JoinAndSettle(j)
  PROVE  LifecycleInv'
<1> USE DEF JoinAndSettle
<1>1. socket' \in Sockets /\ waiting' = waiting \cup {j} /\ waiting' # {}
  BY Joining
<1>2. /\ manager' \in Managers /\ manager'.status = "reconnecting"
      /\ manager'.keys = manager.keys /\ manager'.pend = manager.pend
      /\ manager'.probe = manager.probe
  BY DEF LifecycleInv, TypeOK, Managers, Status, Statuses
<1>3. TypeOK'
  BY <1>1, <1>2 DEF LifecycleInv, TypeOK, ColdInv
<1>4. ColdInv' /\ QueueInv'
  BY <1>1, <1>2 DEF LifecycleInv, TypeOK, ColdInv, QueueInv, LifeInv
<1>5. LifeInv' /\ RetireInv'
  BY <1>1, <1>2 DEF LifecycleInv, TypeOK, ColdInv, QueueInv, LifeInv, RetireInv
<1>6. StatusInv'
  BY <1>1, <1>2 DEF LifecycleInv, QueueInv, StatusInv
<1>7. QED BY <1>3, <1>4, <1>5, <1>6 DEF LifecycleInv

LEMMA RestoreBeginsInv ==
  ASSUME LifecycleInv, RestoreBegins
  PROVE  LifecycleInv'
<1> USE DEF RestoreBegins
<1>1. restore' \in Restores /\ restore'.pc = "owning" /\ restore'.current
  BY DEF Restores
<1>2. TypeOK'
  BY <1>1 DEF LifecycleInv, TypeOK, ColdInv
<1>3. ColdInv' /\ QueueInv'
  BY <1>1 DEF LifecycleInv, TypeOK, ColdInv, QueueInv, LifeInv
<1>4. LifeInv' /\ RetireInv'
  BY <1>1 DEF LifecycleInv, TypeOK, ColdInv, QueueInv, LifeInv, RetireInv
<1>5. StatusInv'
  BY <1>1 DEF LifecycleInv, QueueInv, StatusInv
<1>6. QED BY <1>2, <1>3, <1>4, <1>5 DEF LifecycleInv

LEMMA RestoreRefusedInv ==
  ASSUME LifecycleInv, RestoreRefused
  PROVE  LifecycleInv'
<1> USE DEF RestoreRefused
<1>1. /\ manager' \in Managers /\ manager'.status = "disconnected"
      /\ manager'.keys = manager.keys /\ manager'.pend = manager.pend
      /\ manager'.probe = manager.probe
  BY StatusSet DEF LifecycleInv, TypeOK, Statuses
<1>2. restore' \in Restores /\ restore'.pc = "idle" /\ ~restore'.current
  BY Blank
<1>3. TypeOK'
  BY <1>1, <1>2 DEF LifecycleInv, TypeOK, ColdInv
<1>4. ColdInv' /\ QueueInv'
  BY <1>1, <1>2 DEF LifecycleInv, TypeOK, ColdInv, QueueInv, LifeInv
<1>5. LifeInv' /\ RetireInv'
  BY <1>1, <1>2 DEF LifecycleInv, TypeOK, ColdInv, QueueInv, LifeInv, RetireInv
<1>6. StatusInv'
  BY <1>1, <1>2 DEF LifecycleInv, QueueInv, StatusInv
<1>7. QED BY <1>3, <1>4, <1>5, <1>6 DEF LifecycleInv

LEMMA HydratesInv ==
  ASSUME LifecycleInv, NEW j \in Joins, Hydrates(j)
  PROVE  LifecycleInv'
<1> USE DEF Hydrates
<1>1. socket' \in Sockets /\ waiting' = waiting \cup {j} /\ waiting' # {}
  BY Joining
<1>2. /\ manager' \in Managers /\ manager'.status = manager.status
      /\ manager'.keys = "ready" /\ ~manager'.pend
  BY DEF LifecycleInv, TypeOK, Managers
<1>3. restore' \in Restores /\ restore'.pc = "idle" /\ ~restore'.current
  BY Blank
<1>4. TypeOK'
  BY <1>1, <1>2, <1>3 DEF LifecycleInv, TypeOK, ColdInv
<1>5. ColdInv' /\ QueueInv'
  BY <1>1, <1>2, <1>3 DEF LifecycleInv, TypeOK, ColdInv, QueueInv, LifeInv
<1>6. LifeInv' /\ RetireInv'
  BY <1>1, <1>2, <1>3 DEF LifecycleInv, TypeOK, ColdInv, QueueInv, LifeInv, RetireInv
<1>7. StatusInv'
  BY <1>1, <1>2, <1>3 DEF LifecycleInv, QueueInv, StatusInv
<1>8. QED BY <1>4, <1>5, <1>6, <1>7 DEF LifecycleInv

LEMMA HydrationOvertakenInv ==
  ASSUME LifecycleInv, HydrationOvertaken
  PROVE  LifecycleInv'
<1> USE DEF HydrationOvertaken
<1>1. restore' \in Restores /\ restore'.pc = "idle" /\ ~restore'.current
  BY Blank
<1>2. TypeOK'
  BY <1>1 DEF LifecycleInv, TypeOK, ColdInv
<1>3. ColdInv' /\ QueueInv'
  BY <1>1 DEF LifecycleInv, TypeOK, ColdInv, QueueInv, LifeInv
<1>4. LifeInv' /\ RetireInv'
  BY <1>1 DEF LifecycleInv, TypeOK, ColdInv, QueueInv, LifeInv, RetireInv
<1>5. StatusInv'
  BY <1>1 DEF LifecycleInv, QueueInv, StatusInv
<1>6. QED BY <1>2, <1>3, <1>4, <1>5 DEF LifecycleInv

LEMMA HydrationFailsInv ==
  ASSUME LifecycleInv, HydrationFails
  PROVE  LifecycleInv'
<1> USE DEF HydrationFails
<1>1. /\ manager' \in Managers /\ manager'.status = manager.status
      /\ manager'.keys = "none" /\ ~manager'.pend
  BY DEF LifecycleInv, TypeOK, Managers
<1>2. restore' \in Restores /\ restore'.pc = "releasing" /\ restore'.current
  BY DEF LifecycleInv, TypeOK, Restores
<1>3. closed' \cup offered' \cup waived' \subseteq 1 .. MaxChannel
  BY DEF LifecycleInv, TypeOK, ColdInv
<1>4. TypeOK'
  BY <1>1, <1>2, <1>3 DEF LifecycleInv, TypeOK, ColdInv
<1>5. ColdInv' /\ QueueInv'
  BY <1>1, <1>2, <1>3 DEF LifecycleInv, TypeOK, ColdInv, QueueInv, LifeInv
<1>6. LifeInv' /\ RetireInv'
  BY <1>1, <1>2, <1>3 DEF LifecycleInv, TypeOK, ColdInv, QueueInv, LifeInv, RetireInv
<1>7. StatusInv'
  BY <1>1, <1>2, <1>3 DEF LifecycleInv, QueueInv, StatusInv
<1>8. QED BY <1>4, <1>5, <1>6, <1>7 DEF LifecycleInv

LEMMA RestoreReleasedInv ==
  ASSUME LifecycleInv, RestoreReleased
  PROVE  LifecycleInv'
<1> USE DEF RestoreReleased
<1>1. /\ manager' \in Managers /\ manager'.status = "disconnected"
      /\ manager'.keys = manager.keys /\ manager'.pend = manager.pend
      /\ manager'.probe = manager.probe
  BY StatusSet DEF LifecycleInv, TypeOK, Statuses
<1>2. restore' \in Restores /\ restore'.pc = "idle" /\ ~restore'.current
  BY Blank
<1>3. TypeOK'
  BY <1>1, <1>2 DEF LifecycleInv, TypeOK, ColdInv
<1>4. ColdInv' /\ QueueInv'
  BY <1>1, <1>2 DEF LifecycleInv, TypeOK, ColdInv, QueueInv, LifeInv
<1>5. LifeInv' /\ RetireInv'
  BY <1>1, <1>2 DEF LifecycleInv, TypeOK, ColdInv, QueueInv, LifeInv, RetireInv
<1>6. StatusInv'
  BY <1>1, <1>2 DEF LifecycleInv, QueueInv, StatusInv
<1>7. QED BY <1>3, <1>4, <1>5, <1>6 DEF LifecycleInv

LEMMA RestoreOvertakenInv ==
  ASSUME LifecycleInv, RestoreOvertaken
  PROVE  LifecycleInv'
<1> USE DEF RestoreOvertaken
<1>1. restore' \in Restores /\ restore'.pc = "idle" /\ ~restore'.current
  BY Blank
<1>2. TypeOK'
  BY <1>1 DEF LifecycleInv, TypeOK, ColdInv
<1>3. ColdInv' /\ QueueInv'
  BY <1>1 DEF LifecycleInv, TypeOK, ColdInv, QueueInv, LifeInv
<1>4. LifeInv' /\ RetireInv'
  BY <1>1 DEF LifecycleInv, TypeOK, ColdInv, QueueInv, LifeInv, RetireInv
<1>5. StatusInv'
  BY <1>1 DEF LifecycleInv, QueueInv, StatusInv
<1>6. QED BY <1>2, <1>3, <1>4, <1>5 DEF LifecycleInv

LEMMA RecordReadInv ==
  ASSUME LifecycleInv, RecordRead
  PROVE  LifecycleInv'
<1> USE DEF RecordRead
<1>1. /\ manager' \in Managers /\ manager'.status = "reconnecting"
      /\ manager'.keys = manager.keys /\ manager'.pend = manager.pend
      /\ manager'.probe = manager.probe
  BY DEF LifecycleInv, TypeOK, Managers, Status, Statuses
<1>2. restore' \in Restores /\ restore'.pc = "hydrating" /\ restore'.current
  BY DEF LifecycleInv, TypeOK, Restores
<1>3. /\ life' \in LifeCalls /\ ~life'.current
      /\ life'.pc = life.pc /\ life'.op = life.op
      /\ life'.had = life.had /\ life'.confirmed = life.confirmed
  BY DEF LifecycleInv, TypeOK, LifeCalls
<1>4. stream \in Streams /\ 0 \in 0 .. MaxFailures
  BY DEF LifecycleInv, TypeOK
<1>5. stream' \in Streams
  BY <1>4, FrameRefused
<1>6. queue' \in Seq(Items)
  BY Blank
<1>7. TypeOK'
  BY <1>1, <1>2, <1>3, <1>4, <1>5, <1>6 DEF LifecycleInv, TypeOK, ColdInv
<1>8. ColdInv' /\ QueueInv'
  BY <1>1, <1>2, <1>3, <1>4, <1>5, <1>6 DEF LifecycleInv, TypeOK, ColdInv, QueueInv, LifeInv
<1>9. LifeInv' /\ RetireInv'
  BY <1>1, <1>2, <1>3, <1>4, <1>5, <1>6
     DEF LifecycleInv, TypeOK, ColdInv, QueueInv, LifeInv, RetireInv
<1>10. StatusInv'
  BY <1>1, <1>2, <1>3, <1>4, <1>5, <1>6 DEF LifecycleInv, QueueInv, StatusInv
<1>11. QED BY <1>7, <1>8, <1>9, <1>10 DEF LifecycleInv

LEMMA RecordGoneInv ==
  ASSUME LifecycleInv, RecordGone
  PROVE  LifecycleInv'
<1> USE DEF RecordGone
<1>1. /\ manager' \in Managers /\ manager'.status = manager.status
      /\ manager'.keys = manager.keys /\ ~manager'.pend
      /\ manager'.probe = manager.probe
  BY DEF LifecycleInv, TypeOK, Managers
<1>2. restore' \in Restores /\ restore'.pc = "releasing" /\ restore'.current
  BY DEF LifecycleInv, TypeOK, Restores
<1>3. closed' \cup offered' \cup waived' \subseteq 1 .. MaxChannel
  BY DEF LifecycleInv, TypeOK, ColdInv
<1>4. TypeOK'
  BY <1>1, <1>2, <1>3 DEF LifecycleInv, TypeOK, ColdInv
<1>5. ColdInv' /\ QueueInv'
  BY <1>1, <1>2, <1>3 DEF LifecycleInv, TypeOK, ColdInv, QueueInv, LifeInv
<1>6. LifeInv' /\ RetireInv'
  BY <1>1, <1>2, <1>3 DEF LifecycleInv, TypeOK, ColdInv, QueueInv, LifeInv, RetireInv
<1>7. StatusInv'
  BY <1>1, <1>2, <1>3 DEF LifecycleInv, QueueInv, StatusInv
<1>8. QED BY <1>4, <1>5, <1>6, <1>7 DEF LifecycleInv

LEMMA SocketUpInv ==
  ASSUME LifecycleInv, SocketUp
  PROVE  LifecycleInv'
<1> USE DEF SocketUp
<1>1. /\ socket' \in Sockets /\ socket # NoSocket
      /\ socket'.attempt = "call" => waiting # {}
  BY Blank DEF LifecycleInv, TypeOK, Sockets
<1>2. TypeOK'
  BY <1>1 DEF LifecycleInv, TypeOK, ColdInv
<1>3. ColdInv' /\ QueueInv'
  BY <1>1 DEF LifecycleInv, TypeOK, ColdInv, QueueInv, LifeInv
<1>4. LifeInv' /\ RetireInv'
  BY <1>1 DEF LifecycleInv, TypeOK, ColdInv, QueueInv, LifeInv, RetireInv
<1>5. StatusInv'
  BY <1>1 DEF LifecycleInv, QueueInv, StatusInv
<1>6. QED BY <1>2, <1>3, <1>4, <1>5 DEF LifecycleInv

LEMMA SocketDropsInv ==
  ASSUME LifecycleInv, SocketDrops
  PROVE  LifecycleInv'
<1> USE DEF SocketDrops
<1>1. CASE life.pc = "pairing"
  BY <1>1, PairingFailsInv DEF LifecycleInv, LifeInv
<1>2. CASE life.pc # "pairing"
  <2> DEFINE dropped == [manager EXCEPT !.present = FALSE]
             m == IF Ready /\ manager.status \in {"connected", "reconnecting", "waiting"}
                    THEN Status(dropped, "reconnecting") ELSE dropped
  <2>1. /\ dropped \in Managers /\ dropped.status = manager.status
        /\ dropped.keys = manager.keys /\ dropped.pend = manager.pend
        /\ dropped.probe = manager.probe
    BY DEF LifecycleInv, TypeOK, Managers
  <2> HIDE DEF dropped
  <2>2. /\ m \in Managers /\ m.keys = manager.keys /\ m.pend = manager.pend
        /\ m.probe = manager.probe
        /\ m.status = manager.status \/ (m.status = "reconnecting" /\ Ready)
    BY <2>1, StatusSet DEF Statuses
  <2>3. manager' = Rejected(m)
    BY <1>2 DEF dropped
  <2> HIDE DEF m
  <2>4. /\ manager' \in Managers /\ manager'.keys = manager.keys
        /\ manager'.pend = manager.pend /\ manager'.probe = manager.probe
        /\ \/ manager'.status \in {manager.status, "disconnected"}
           \/ manager'.status = "reconnecting" /\ Ready
    BY <2>2, <2>3, RejectedStatus
  <2>5. socket' \in Sockets /\ socket'.attempt = "none" /\ socket # NoSocket
    BY <1>2, Blank DEF LifecycleInv, TypeOK, Sockets
  <2>6. relay' \in Relays /\ (relay'.wallet => relay.wallet) /\ stream' \in Streams
    BY <1>2, LostAnswer
  <2>7. QED
    BY <1>2, <2>4, <2>5, <2>6, AbandonInv DEF LifecycleInv, TypeOK, QueueInv
<1>3. QED BY <1>1, <1>2

LEMMA JoinFailsInv ==
  ASSUME LifecycleInv, JoinFails
  PROVE  LifecycleInv'
<1> USE DEF JoinFails
<1>1. CASE life.pc = "pairing"
  BY <1>1, PairingFailsInv DEF LifecycleInv, LifeInv
<1>2. CASE life.pc # "pairing"
  <2>1. socket' \in Sockets /\ socket'.attempt = "none" /\ socket # NoSocket
    BY <1>2, Blank DEF LifecycleInv, TypeOK, Sockets
  <2>2. relay' \in Relays /\ (relay'.wallet => relay.wallet) /\ stream' \in Streams
    BY <1>2, LostAnswer
  <2>3. QED
    BY <1>2, <2>1, <2>2, RejectedStatus, AbandonInv DEF LifecycleInv, TypeOK, QueueInv
<1>3. QED BY <1>1, <1>2

LEMMA JoinConflictsInv ==
  ASSUME LifecycleInv, JoinConflicts
  PROVE  LifecycleInv'
<1> USE DEF JoinConflicts
<1>1. socket' \in Sockets /\ socket'.attempt = "none" /\ socket # NoSocket
  BY Blank DEF LifecycleInv, TypeOK, Sockets
<1>2. /\ life' \in LifeCalls /\ life'.pc = "issuing" /\ life'.current = life.current
  BY DEF LifecycleInv, TypeOK, LifeCalls
<1>3. TypeOK'
  BY <1>1, <1>2 DEF LifecycleInv, TypeOK, ColdInv
<1>4. ColdInv' /\ QueueInv'
  BY <1>1, <1>2 DEF LifecycleInv, TypeOK, ColdInv, QueueInv, LifeInv
<1>5. LifeInv' /\ RetireInv'
  BY <1>1, <1>2 DEF LifecycleInv, TypeOK, ColdInv, QueueInv, LifeInv, RetireInv
<1>6. StatusInv'
  BY <1>1, <1>2 DEF LifecycleInv, QueueInv, StatusInv
<1>7. QED BY <1>3, <1>4, <1>5, <1>6 DEF LifecycleInv

LEMMA WatchdogInv ==
  ASSUME LifecycleInv, Watchdog
  PROVE  LifecycleInv'
<1> USE DEF Watchdog
<1>1. CASE life.pc = "pairing"
  BY <1>1, PairingFailsInv DEF LifecycleInv, LifeInv
<1>2. CASE life.pc # "pairing"
  <2>1. socket' \in Sockets /\ socket'.attempt = "none"
    BY <1>2, Blank, Dropping
  <2>2. /\ relay' \in Relays /\ (relay'.wallet => relay.wallet)
        /\ relay = FreshRelay => relay' = FreshRelay
    BY <1>2, Dropping
  <2>3. QED
    BY <1>2, <2>1, <2>2, Dropping, RejectedStatus, AbandonInv
       DEF LifecycleInv, TypeOK, QueueInv
<1>3. QED BY <1>1, <1>2

LEMMA ProbeFiresInv ==
  ASSUME LifecycleInv, ProbeFires
  PROVE  LifecycleInv'
<1> USE DEF ProbeFires
<1>1. CASE manager.present
  <2>1. /\ manager' \in Managers /\ manager'.status = manager.status
        /\ manager'.keys = manager.keys /\ manager'.pend = manager.pend /\ ~manager'.probe
    BY <1>1 DEF LifecycleInv, TypeOK, Managers
  <2>2. TypeOK'
    BY <1>1, <2>1 DEF LifecycleInv, TypeOK
  <2>3. ColdInv' /\ QueueInv' /\ LifeInv' /\ RetireInv' /\ StatusInv'
    BY <1>1, <2>1
       DEF TypeOK, LifecycleInv, ColdInv, QueueInv, LifeInv, RetireInv, StatusInv
  <2>4. QED BY <2>2, <2>3 DEF LifecycleInv
<1>2. CASE ~manager.present
  <2>1. /\ manager' \in Managers /\ manager'.status = "disconnected"
        /\ manager'.keys = manager.keys /\ manager'.pend = manager.pend /\ ~manager'.probe
    BY <1>2 DEF LifecycleInv, TypeOK, Managers, Status, Statuses
  <2>2. /\ relay' \in Relays /\ (relay'.wallet => relay.wallet)
        /\ relay = FreshRelay => relay' = FreshRelay
    BY <1>2, Dropping
  <2>3. QED
    BY <1>2, <2>1, <2>2, Blank, Dropping, AbandonInv DEF LifecycleInv, TypeOK, QueueInv
<1>3. QED BY <1>1, <1>2

\* A join that is answered: its frames and its marker belong to the session.
LEMMA CallsJoinedInv ==
  ASSUME LifecycleInv, CallsJoined
  PROVE  LifecycleInv'
<1> USE DEF CallsJoined, Answerable, HandedOver
<1> DEFINE s == Copies(Cardinality(Callers))
<1>1. waiting # {} /\ socket # NoSocket
  BY Blank DEF LifecycleInv, LifeInv
<1>2. Cardinality(Callers) \in Nat /\ (Callers = {} => Cardinality(Callers) = 0)
  <2>1. Callers \subseteq Joins
    BY DEF LifecycleInv, TypeOK
  <2>2. IsFiniteSet(Callers)
    BY <2>1, FS_Subset
  <2>3. QED BY <2>2, FS_CardinalityType, FS_EmptySet
<1>3. s \in Seq(Items) /\ (s # <<>> => Ready)
  <2>1. Callers # {} => Ready
    BY DEF LifecycleInv, QueueInv
  <2>2. QED BY <1>2, <2>1, Copying
<1> HIDE DEF s
<1>4. queue' = queue \o s
  BY DEF s
<1>5. /\ queue' \in Seq(Items)
      /\ handling # "no" => queue' # <<>>
      /\ queue' # <<>> => manager.keys # "none"
      /\ \A i \in 1 .. Len(queue') : queue'[i].kind = "joined" => Ready
  <2>1. \A i \in 1 .. Len(s) : Ready
    BY <1>3
  <2>2. QED BY <1>3, <1>4, <2>1, Enqueuing
<1>6. socket' \in Sockets /\ socket'.attempt = "none"
  BY DEF LifecycleInv, TypeOK, Sockets
<1>7. relay' \in Relays /\ relay'.wallet = relay.wallet
  <2>1. <<>> \in Seq(0 .. MaxFrames)
    OBVIOUS
  <2>2. QED BY <2>1 DEF LifecycleInv, TypeOK, Relays
<1>8. /\ manager' \in Managers /\ manager'.status = manager.status
      /\ manager'.keys = manager.keys /\ manager'.pend = manager.pend
      /\ manager'.probe = manager.probe
  BY DEF LifecycleInv, TypeOK, Managers, Relays
<1>9. stream' \in Streams
  BY DEF LifecycleInv, TypeOK, Streams
<1>10. /\ life' \in LifeCalls
       /\ life'.op = life.op /\ life'.had = life.had /\ life'.current = life.current
       /\ life'.confirmed = life.confirmed
       /\ IF Lifecycle \in waiting THEN life.pc = "joining" /\ life'.pc = "flushing"
          ELSE life'.pc = life.pc
  BY DEF LifecycleInv, TypeOK, LifeInv, LifeCalls
<1>11. TypeOK'
  BY <1>5, <1>6, <1>7, <1>8, <1>9, <1>10 DEF LifecycleInv, TypeOK
<1>12. ColdInv' /\ QueueInv'
  BY <1>1, <1>5, <1>6, <1>8, <1>10 DEF TypeOK, LifecycleInv, ColdInv, QueueInv, LifeInv
<1>13. LifeInv' /\ RetireInv'
  BY <1>1, <1>6, <1>7, <1>8, <1>10 DEF TypeOK, LifecycleInv, LifeInv, RetireInv
<1>14. StatusInv'
  BY <1>8, <1>10 DEF TypeOK, LifecycleInv, StatusInv
<1>15. QED BY <1>11, <1>12, <1>13, <1>14 DEF LifecycleInv

LEMMA CallsTerminatedInv ==
  ASSUME LifecycleInv, CallsTerminated
  PROVE  LifecycleInv'
<1> USE DEF CallsTerminated
<1>1. waiting # {} /\ channel # 0
  BY DEF LifecycleInv, LifeInv, ColdInv
<1>2. Lifecycle \in waiting =>
        life.pc = "joining" /\ (life.op # "disconnect" => channel < MaxChannel)
  BY DEF LifecycleInv, LifeInv
<1> DEFINE call == [life EXCEPT !.pc = "ending", !.confirmed = TRUE]
<1>3. /\ call \in LifeCalls /\ call.pc = "ending" /\ call.confirmed
      /\ call.op = life.op /\ call.had = life.had /\ call.current = life.current
  BY DEF LifecycleInv, TypeOK, LifeCalls
<1> HIDE DEF call
<1>4. CASE Callers = {}
  <2>1. Lifecycle \in waiting /\ life' = call
    BY <1>1, <1>4 DEF call
  <2>2. socket' \in Sockets /\ socket'.attempt = "none"
    BY <1>4 DEF LifecycleInv, TypeOK, Sockets
  <2>3. TypeOK'
    BY <1>3, <1>4, <2>1, <2>2 DEF LifecycleInv, TypeOK
  <2>4. ColdInv' /\ QueueInv'
    BY <1>1, <1>3, <1>4, <2>1 DEF TypeOK, LifecycleInv, ColdInv, QueueInv
  <2>5. LifeInv' /\ RetireInv'
    BY <1>1, <1>2, <1>3, <1>4, <2>1, <2>2 DEF TypeOK, LifecycleInv, LifeInv, RetireInv
  <2>6. StatusInv'
    BY <1>2, <1>3, <1>4, <2>1 DEF TypeOK, LifecycleInv, StatusInv
  <2>7. QED BY <2>3, <2>4, <2>5, <2>6 DEF LifecycleInv
<1>5. CASE Callers # {} /\ Lifecycle \in waiting
  <2>1. SessionEnds(call)
    BY <1>5 DEF call
  <2>2. QED BY <1>1, <1>2, <1>3, <1>5, <2>1, SessionEndsInv
<1>6. CASE Callers # {} /\ Lifecycle \notin waiting
  <2>1. SessionEnds(life) /\ life.pc # "pairing" /\ life \in LifeCalls
    BY <1>6 DEF LifecycleInv, LifeInv, TypeOK
  <2>2. QED BY <1>1, <2>1, SessionEndsInv
<1>7. QED BY <1>4, <1>5, <1>6

LEMMA AutoRejoinedInv ==
  ASSUME LifecycleInv, AutoRejoined
  PROVE  LifecycleInv'
<1> USE DEF AutoRejoined, Answerable, HandedOver
<1>1. socket # NoSocket
  BY Blank
<1>2. /\ queue' \in Seq(Items)
      /\ handling # "no" => queue' # <<>>
      /\ queue' # <<>> => manager.keys # "none"
      /\ \A i \in 1 .. Len(queue') : queue'[i].kind = "joined" => Ready
  <2>1. CASE manager.keys = "none"
    BY <2>1 DEF LifecycleInv, TypeOK, QueueInv
  <2>2. CASE manager.keys # "none"
    <3>1. /\ Enqueued("rejoined") \in Seq(Items)
          /\ \A i \in 1 .. Len(Enqueued("rejoined")) :
               Enqueued("rejoined")[i].kind \in {"buffered", "rejoined"}
      BY Answer
    <3>2. QED BY <2>2, <3>1, Enqueuing
  <2>3. QED BY <2>1, <2>2
<1>3. socket' \in Sockets /\ socket'.attempt = "none"
  BY DEF LifecycleInv, TypeOK, Sockets
<1>4. relay' \in Relays /\ relay'.wallet = relay.wallet
  <2>1. <<>> \in Seq(0 .. MaxFrames)
    OBVIOUS
  <2>2. QED BY <2>1 DEF LifecycleInv, TypeOK, Relays
<1>5. /\ manager' \in Managers /\ manager'.status = manager.status
      /\ manager'.keys = manager.keys /\ manager'.pend = manager.pend
      /\ manager'.probe = manager.probe
  BY DEF LifecycleInv, TypeOK, Managers, Relays
<1>6. stream' \in Streams
  BY DEF LifecycleInv, TypeOK, Streams
<1>7. TypeOK'
  BY <1>2, <1>3, <1>4, <1>5, <1>6 DEF LifecycleInv, TypeOK
<1>8. ColdInv' /\ QueueInv'
  BY <1>1, <1>2, <1>3, <1>5 DEF TypeOK, LifecycleInv, ColdInv, QueueInv, LifeInv
<1>9. LifeInv' /\ RetireInv'
  BY <1>1, <1>3, <1>4, <1>5 DEF TypeOK, LifecycleInv, LifeInv, RetireInv
<1>10. StatusInv'
  BY <1>5 DEF TypeOK, LifecycleInv, StatusInv
<1>11. QED BY <1>7, <1>8, <1>9, <1>10 DEF LifecycleInv

LEMMA AutoRejoinTerminatedInv ==
  ASSUME LifecycleInv, AutoRejoinTerminated
  PROVE  LifecycleInv'
<1> USE DEF AutoRejoinTerminated
<1>1. socket # NoSocket /\ channel # 0
  BY Blank DEF LifecycleInv, ColdInv
<1>2. CASE manager.keys = "none"
  <2>1. socket' \in Sockets /\ socket'.attempt = "none"
    BY <1>2 DEF LifecycleInv, TypeOK, Sockets
  <2>2. TypeOK'
    BY <1>2, <2>1 DEF LifecycleInv, TypeOK
  <2>3. ColdInv' /\ QueueInv' /\ LifeInv' /\ RetireInv' /\ StatusInv'
    BY <1>1, <1>2, <2>1
       DEF TypeOK, LifecycleInv, ColdInv, QueueInv, LifeInv, RetireInv, StatusInv
  <2>4. QED BY <2>2, <2>3 DEF LifecycleInv
<1>3. QED BY <1>1, <1>2, TerminatedInv

LEMMA JoinSettlesInv ==
  ASSUME LifecycleInv, JoinSettles
  PROVE  LifecycleInv'
<1> USE DEF JoinSettles, AtHead, Settled
<1>1. /\ queue' \in Seq(Items) /\ queue # <<>> /\ Ready
      /\ \A i \in 1 .. Len(queue') : queue'[i].kind = "joined" => Ready
  BY Dequeued DEF LifecycleInv, QueueInv
<1>2. /\ manager' \in Managers /\ manager'.status \in {"connected", "waiting"}
      /\ manager'.keys = manager.keys /\ manager'.pend = manager.pend
  BY ConnectedStatus DEF LifecycleInv, TypeOK, Managers, Status, Statuses
<1>3. TypeOK'
  BY <1>1, <1>2 DEF LifecycleInv, TypeOK, ColdInv
<1>4. ColdInv' /\ QueueInv'
  BY <1>1, <1>2 DEF LifecycleInv, TypeOK, ColdInv, QueueInv, LifeInv
<1>5. LifeInv' /\ RetireInv'
  BY <1>1, <1>2 DEF LifecycleInv, TypeOK, ColdInv, QueueInv, LifeInv, RetireInv
<1>6. StatusInv'
  BY <1>1, <1>2 DEF LifecycleInv, QueueInv, StatusInv
<1>7. QED BY <1>3, <1>4, <1>5, <1>6 DEF LifecycleInv

LEMMA RejoinSettlesInv ==
  ASSUME LifecycleInv, RejoinSettles
  PROVE  LifecycleInv'
<1> USE DEF RejoinSettles, AtHead, Settled
<1>1. /\ queue' \in Seq(Items) /\ queue # <<>> /\ manager.keys # "none"
      /\ \A i \in 1 .. Len(queue') : queue'[i].kind = "joined" => Ready
  BY Dequeued DEF LifecycleInv, QueueInv
<1>2. /\ manager' \in Managers
      /\ manager'.status = "waiting" \/ (manager'.status = "connected" /\ Ready)
      /\ manager'.keys = manager.keys /\ manager'.pend = manager.pend
      /\ manager'.probe => manager.probe \/ Ready
  BY ConnectedStatus DEF LifecycleInv, TypeOK, Managers, Status, Statuses
<1>3. TypeOK'
  BY <1>1, <1>2 DEF LifecycleInv, TypeOK, ColdInv
<1>4. ColdInv' /\ QueueInv'
  BY <1>1, <1>2 DEF LifecycleInv, TypeOK, ColdInv, QueueInv, LifeInv
<1>5. LifeInv' /\ RetireInv'
  BY <1>1, <1>2 DEF LifecycleInv, TypeOK, ColdInv, QueueInv, LifeInv, RetireInv
<1>6. StatusInv'
  BY <1>1, <1>2 DEF LifecycleInv, QueueInv, StatusInv
<1>7. QED BY <1>3, <1>4, <1>5, <1>6 DEF LifecycleInv

LEMMA FrameBeginsInv ==
  ASSUME LifecycleInv, FrameBegins
  PROVE  LifecycleInv'
<1> USE DEF FrameBegins, AtHead
<1>1. queue # <<>> /\ manager.keys # "none"
  BY DEF LifecycleInv, QueueInv
<1>2. /\ manager' \in Managers /\ manager'.status \in {manager.status, "key_exchange"}
      /\ manager'.keys = manager.keys /\ manager'.pend = manager.pend
      /\ ~manager'.probe
  BY DEF LifecycleInv, TypeOK, Managers, Statuses
<1>3. TypeOK'
  BY <1>1, <1>2 DEF LifecycleInv, TypeOK, ColdInv
<1>4. ColdInv' /\ QueueInv'
  BY <1>1, <1>2 DEF LifecycleInv, TypeOK, ColdInv, QueueInv, LifeInv
<1>5. LifeInv' /\ RetireInv'
  BY <1>1, <1>2 DEF LifecycleInv, TypeOK, ColdInv, QueueInv, LifeInv, RetireInv
<1>6. StatusInv'
  BY <1>1, <1>2 DEF LifecycleInv, QueueInv, StatusInv
<1>7. QED BY <1>3, <1>4, <1>5, <1>6 DEF LifecycleInv

LEMMA SynAckHandledInv ==
  ASSUME LifecycleInv, SynAckHandled
  PROVE  LifecycleInv'
<1> DEFINE paired == [Connected(manager) EXCEPT !.keys = "ready", !.present = TRUE]
<1>1. /\ paired \in Managers /\ paired.status = "connected"
      /\ paired.keys = "ready" /\ paired.pend = manager.pend /\ ~paired.probe
  BY KeysExchanged DEF LifecycleInv, TypeOK
<1>2. AfterFrame(paired)
  BY DEF SynAckHandled
<1> HIDE DEF paired
<1>3. queue # <<>> /\ manager.keys = "pairing"
  BY DEF SynAckHandled, Opening, LifecycleInv, QueueInv
<1>4. /\ manager' \in Managers /\ manager'.status = "connected"
      /\ manager'.keys = "ready" /\ manager'.pend = manager.pend /\ ~manager'.probe
  BY <1>1, <1>2, <1>3, Handled
<1>5. /\ handling' = "no" /\ queue' \in Seq(Items)
      /\ \A i \in 1 .. Len(queue') : queue'[i].kind = "joined" => Ready
  BY <1>1, <1>2, <1>3, Handled
<1> USE DEF SynAckHandled
<1>6. relay' \in Relays /\ relay'.wallet = relay.wallet
  BY DEF LifecycleInv, TypeOK, Relays
<1>7. TypeOK'
  BY <1>4, <1>5, <1>6 DEF LifecycleInv, TypeOK
<1>8. ColdInv' /\ QueueInv'
  BY <1>3, <1>4, <1>5 DEF TypeOK, LifecycleInv, ColdInv, QueueInv
<1>9. LifeInv' /\ RetireInv'
  BY <1>4, <1>6 DEF TypeOK, LifecycleInv, LifeInv, RetireInv
<1>10. StatusInv'
  BY <1>4 DEF TypeOK, LifecycleInv, StatusInv
<1>11. QED BY <1>7, <1>8, <1>9, <1>10 DEF LifecycleInv

LEMMA FrameHandledInv ==
  ASSUME LifecycleInv, NEW n \in 1 .. MaxFrames, FrameHandled(n)
  PROVE  LifecycleInv'
<1>1. queue # <<>> /\ AfterFrame(manager) /\ manager \in Managers
  BY DEF FrameHandled, Opening, LifecycleInv, QueueInv, TypeOK
<1>2. /\ manager' \in Managers /\ manager'.status \in {manager.status, "connected"}
      /\ manager'.keys = manager.keys /\ manager'.pend = manager.pend
      /\ manager'.probe = manager.probe
      /\ manager'.status = manager.status \/ Ready
      /\ handling' = "no" /\ queue' \in Seq(Items)
      /\ \A i \in 1 .. Len(queue') : queue'[i].kind = "joined" => Ready
  BY <1>1, Handled
<1> USE DEF FrameHandled
<1>3. stream' \in Streams
  <2>1. CASE n = stream.recv + 1
    <3>1. n \in 0 .. MaxFrames /\ stream \in Streams
      BY DEF LifecycleInv, TypeOK
    <3>2. stream' = [stream EXCEPT !.recv = n, !.fails = 0]
      BY <2>1
    <3>3. QED BY <3>1, <3>2, FrameAccepted
  <2>2. CASE n # stream.recv + 1
    <3>1. stream.fails \in Nat /\ stream \in Streams
      BY DEF LifecycleInv, TypeOK, Streams
    <3>2. /\ stream.fails + 1 \in 0 .. MaxFailures
          /\ stream' = [stream EXCEPT !.fails = stream.fails + 1]
      BY <2>2, <3>1
    <3>3. QED BY <3>1, <3>2, FrameRefused
  <2>3. QED BY <2>1, <2>2
<1>4. TypeOK'
  BY <1>2, <1>3 DEF LifecycleInv, TypeOK
<1>5. ColdInv' /\ QueueInv'
  BY <1>1, <1>2 DEF TypeOK, LifecycleInv, ColdInv, QueueInv
<1>6. LifeInv' /\ RetireInv'
  BY <1>2 DEF TypeOK, LifecycleInv, LifeInv, RetireInv
<1>7. StatusInv'
  BY <1>2 DEF TypeOK, LifecycleInv, StatusInv
<1>8. QED BY <1>4, <1>5, <1>6, <1>7 DEF LifecycleInv

LEMMA HandlerTeardownInv ==
  ASSUME LifecycleInv, NEW n \in 0 .. MaxFrames, HandlerTeardown(n)
  PROVE  LifecycleInv'
<1> USE DEF HandlerTeardown
<1>1. stream' \in Streams
  <2>1. stream \in Streams /\ MaxFailures \in 0 .. MaxFailures
    BY DEF LifecycleInv, TypeOK
  <2>2. /\ [stream EXCEPT !.recv = n, !.fails = 0] \in Streams
        /\ [stream EXCEPT !.fails = MaxFailures] \in Streams
    BY <2>1, FrameAccepted, FrameRefused
  <2>3. QED BY <2>1, <2>2
<1>2. queue # <<>>
  BY DEF Fatal, Opening, LifecycleInv, QueueInv
<1>3. QED
  BY <1>1, <1>2, Closing, RejectedStatus, AbandonInv DEF LifecycleInv, TypeOK

LEMMA SendFailsInv ==
  ASSUME LifecycleInv, SendFails
  PROVE  LifecycleInv'
<1> USE DEF SendFails
<1>1. QED
  BY Closing, RejectedStatus, AbandonInv DEF LifecycleInv, TypeOK, QueueInv

LEMMA TeardownEndsInv ==
  ASSUME LifecycleInv, TeardownEnds
  PROVE  LifecycleInv'
<1>1. channel # 0
  BY DEF TeardownEnds, LifecycleInv, ColdInv
<1>2. QED BY <1>1, TerminatedInv DEF TeardownEnds

LEMMA GetConnectionURIInv ==
  ASSUME LifecycleInv, GetConnectionURI
  PROVE  LifecycleInv'
<1> USE DEF GetConnectionURI, LifecycleOnly, Asking
<1>1. life' \in LifeCalls /\ life'.pc = "owning"
  BY Blank DEF LifeCalls
<1>2. TypeOK'
  BY <1>1 DEF LifecycleInv, TypeOK, ColdInv
<1>3. ColdInv' /\ QueueInv'
  BY <1>1 DEF LifecycleInv, TypeOK, ColdInv, QueueInv, LifeInv
<1>4. LifeInv' /\ RetireInv'
  BY <1>1 DEF LifecycleInv, TypeOK, ColdInv, QueueInv, LifeInv, RetireInv
<1>5. StatusInv'
  BY <1>1 DEF LifecycleInv, QueueInv, StatusInv
<1>6. QED BY <1>2, <1>3, <1>4, <1>5 DEF LifecycleInv

\* A call that begins to retire a channel
LEMMA RetireBeginsInv ==
  ASSUME LifecycleInv, life.pc \in {"idle", "owning"}, NEW call \in LifeCalls,
         ~call.had, ~call.confirmed, call.op # "disconnect" => channel < MaxChannel,
         RetireBegins(call), LifecycleOnly, owned' \in BOOLEAN, over' = over
  PROVE  LifecycleInv'
<1> USE DEF RetireBegins, LifecycleOnly
<1>1. /\ manager' \in Managers /\ manager'.status = manager.status
      /\ manager'.keys = manager.keys /\ manager'.pend = manager.pend /\ ~manager'.probe
  BY DEF LifecycleInv, TypeOK, Managers
<1>2. Lifecycle \notin waiting
  BY DEF LifecycleInv, LifeInv
<1>3. CASE Retirable /\ ~Joined
  <2>1. /\ life' \in LifeCalls /\ life'.pc = "joining" /\ life'.had /\ life'.op = call.op
    BY <1>3 DEF LifeCalls
  <2>2. socket' \in Sockets /\ waiting' = waiting \cup {Lifecycle}
    BY <1>3, Joining
  <2>3. ~Cold
    BY <1>3, Blank DEF Retirable
  <2>4. TypeOK'
    BY <1>1, <2>1, <2>2 DEF LifecycleInv, TypeOK
  <2>5. ColdInv' /\ QueueInv'
    BY <1>1, <2>1, <2>2, <2>3 DEF TypeOK, LifecycleInv, ColdInv, QueueInv
  <2>6. LifeInv' /\ RetireInv'
    BY <1>1, <2>1, <2>2 DEF TypeOK, LifecycleInv, LifeInv, RetireInv
  <2>7. StatusInv'
    BY <1>1, <2>1 DEF TypeOK, LifecycleInv, StatusInv
  <2>8. QED BY <2>4, <2>5, <2>6, <2>7 DEF LifecycleInv
<1>4. CASE ~(Retirable /\ ~Joined)
  <2>1. Retirable \in BOOLEAN
    BY DEF Retirable, LifecycleInv, TypeOK, Sockets, Managers
  <2>2. /\ life' \in LifeCalls /\ life'.op = call.op /\ life'.confirmed = FALSE
        /\ IF Retirable THEN life'.pc = "flushing" /\ life'.had
                        ELSE life'.pc = "ending" /\ ~life'.had
    BY <1>4, <2>1 DEF LifeCalls
  <2>3. ~Retirable => GivenUp
    BY DEF Retirable, LifecycleInv, RetireInv
  <2>4. TypeOK'
    BY <1>1, <1>4, <2>2 DEF LifecycleInv, TypeOK
  <2>5. ColdInv' /\ QueueInv'
    BY <1>1, <1>4, <2>2 DEF TypeOK, LifecycleInv, ColdInv, QueueInv
  <2>6. LifeInv' /\ RetireInv'
    BY <1>1, <1>2, <1>4, <2>2, <2>3 DEF TypeOK, LifecycleInv, LifeInv, RetireInv
  <2>7. StatusInv'
    BY <1>1, <1>4, <2>2 DEF TypeOK, LifecycleInv, StatusInv
  <2>8. QED BY <2>4, <2>5, <2>6, <2>7 DEF LifecycleInv
<1>5. QED BY <1>3, <1>4

LEMMA NewConnectionInv ==
  ASSUME LifecycleInv, NewConnection
  PROVE  LifecycleInv'
<1> DEFINE call == [NoCall EXCEPT !.op = "fresh"]
<1>1. call \in LifeCalls /\ ~call.had /\ ~call.confirmed
  BY DEF NoCall, LifeCalls
<1> HIDE DEF call
<1>2. RetireBegins(call)
  BY DEF call, NewConnection
<1>3. QED
  BY <1>1, <1>2, RetireBeginsInv DEF NewConnection, LifecycleInv, TypeOK

LEMMA DisconnectInv ==
  ASSUME LifecycleInv, Disconnect
  PROVE  LifecycleInv'
<1> DEFINE call == [NoCall EXCEPT !.op = "disconnect"]
<1>1. call \in LifeCalls /\ ~call.had /\ ~call.confirmed /\ call.op = "disconnect"
  BY DEF NoCall, LifeCalls
<1> HIDE DEF call
<1>2. RetireBegins(call)
  BY DEF call, Disconnect
<1>3. QED
  BY <1>1, <1>2, RetireBeginsInv DEF Disconnect, LifecycleInv, TypeOK

LEMMA LockRefusedInv ==
  ASSUME LifecycleInv, LockRefused
  PROVE  LifecycleInv'
<1> USE DEF LockRefused, LifecycleOnly, LockDecided
<1>1. life' \in LifeCalls /\ life'.pc = "idle"
  BY Blank
<1>2. Lifecycle \notin waiting
  BY DEF LifecycleInv, LifeInv
<1>3. TypeOK'
  BY <1>1, <1>2 DEF LifecycleInv, TypeOK, ColdInv
<1>4. ColdInv' /\ QueueInv'
  BY <1>1, <1>2 DEF LifecycleInv, TypeOK, ColdInv, QueueInv, LifeInv
<1>5. LifeInv' /\ RetireInv'
  BY <1>1, <1>2 DEF LifecycleInv, TypeOK, ColdInv, QueueInv, LifeInv, RetireInv
<1>6. StatusInv'
  BY <1>1, <1>2 DEF LifecycleInv, QueueInv, StatusInv
<1>7. QED BY <1>3, <1>4, <1>5, <1>6 DEF LifecycleInv

LEMMA LockGrantedInv ==
  ASSUME LifecycleInv, LockGranted
  PROVE  LifecycleInv'
<1> USE DEF LockGranted, LockDecided
<1>1. channel < MaxChannel /\ Lifecycle \notin waiting
  BY DEF LifecycleInv, LifeInv
<1>2. CASE life.current /\ Retirable
  <2>1. NoCall \in LifeCalls /\ ~NoCall.had /\ ~NoCall.confirmed
    BY DEF NoCall, LifeCalls
  <2>2. QED BY <1>1, <1>2, <2>1, RetireBeginsInv
<1>3. CASE ~(life.current /\ Retirable)
  <2> USE DEF LifecycleOnly
  <2>1. /\ life' \in LifeCalls
        /\ life'.pc = "idle" \/ (life'.pc = "issuing" /\ ~Retirable)
    BY <1>3, Blank DEF LifecycleInv, TypeOK, LifeCalls
  <2>2. ~Retirable => GivenUp
    BY DEF Retirable, LifecycleInv, RetireInv
  <2>3. TypeOK'
    BY <1>3, <2>1 DEF LifecycleInv, TypeOK
  <2>4. ColdInv' /\ QueueInv'
    BY <1>3, <2>1 DEF TypeOK, LifecycleInv, ColdInv, QueueInv
  <2>5. LifeInv' /\ RetireInv'
    BY <1>1, <1>3, <2>1, <2>2 DEF TypeOK, LifecycleInv, LifeInv, RetireInv
  <2>6. StatusInv'
    BY <1>3, <2>1 DEF TypeOK, LifecycleInv, StatusInv
  <2>7. QED BY <2>3, <2>4, <2>5, <2>6 DEF LifecycleInv
<1>4. QED BY <1>2, <1>3

LEMMA FlushEndsInv ==
  ASSUME LifecycleInv, FlushEnds
  PROVE  LifecycleInv'
<1> USE DEF FlushEnds
<1>1. /\ socket' \in Sockets /\ socket'.attempt = "none" /\ waiting' = {}
      /\ socket = NoSocket => socket' = NoSocket
      /\ relay' \in Relays /\ (relay'.wallet => relay.wallet)
      /\ \/ closed' = closed /\ relay' = relay
         \/ closed' = closed \cup {channel} /\ relay' = FreshRelay /\ socket # NoSocket
  BY Closing
<1>2. /\ manager' \in Managers /\ manager'.status \in {manager.status, "disconnected"}
      /\ manager'.keys = manager.keys /\ manager'.pend = manager.pend
      /\ manager'.probe = manager.probe
  BY RejectedStatus DEF LifecycleInv, TypeOK
<1>3. /\ life' \in LifeCalls /\ life'.pc = "closing" /\ life'.op = life.op /\ life'.had = life.had
  BY DEF LifecycleInv, TypeOK, LifeCalls
<1>4. closed' \cup offered' \cup waived' \subseteq 1 .. MaxChannel
  BY <1>1 DEF LifecycleInv, TypeOK, ColdInv
<1>5. TypeOK'
  BY <1>1, <1>2, <1>3, <1>4 DEF LifecycleInv, TypeOK, ColdInv
<1>6. ColdInv' /\ QueueInv'
  BY <1>1, <1>2, <1>3, <1>4 DEF LifecycleInv, TypeOK, ColdInv, QueueInv, LifeInv
<1>7. LifeInv' /\ RetireInv'
  BY <1>1, <1>2, <1>3, <1>4 DEF LifecycleInv, TypeOK, ColdInv, QueueInv, LifeInv, RetireInv
<1>8. StatusInv'
  BY <1>1, <1>2, <1>3, <1>4 DEF LifecycleInv, QueueInv, StatusInv
<1>9. QED BY <1>5, <1>6, <1>7, <1>8 DEF LifecycleInv

LEMMA CloseEndsInv ==
  ASSUME LifecycleInv, CloseEnds
  PROVE  LifecycleInv'
<1> USE DEF CloseEnds, LifecycleOnly
<1>1. Lifecycle \notin waiting
  BY DEF LifecycleInv, LifeInv
<1>2. /\ life' \in LifeCalls /\ life'.pc = "ending" /\ life'.op = life.op /\ life'.had = life.had
      /\ life'.confirmed => channel \in closed
  BY DEF LifecycleInv, TypeOK, LifeCalls, CloseAnswers
<1>3. TypeOK'
  BY <1>1, <1>2 DEF LifecycleInv, TypeOK, ColdInv
<1>4. ColdInv' /\ QueueInv'
  BY <1>1, <1>2 DEF LifecycleInv, TypeOK, ColdInv, QueueInv, LifeInv
<1>5. LifeInv' /\ RetireInv'
  BY <1>1, <1>2 DEF LifecycleInv, TypeOK, ColdInv, QueueInv, LifeInv, RetireInv
<1>6. StatusInv'
  BY <1>1, <1>2 DEF LifecycleInv, QueueInv, StatusInv
<1>7. QED BY <1>3, <1>4, <1>5, <1>6 DEF LifecycleInv

LEMMA RetireFailsInv ==
  ASSUME LifecycleInv, RetireFails
  PROVE  LifecycleInv'
<1> USE DEF RetireFails, LifecycleOnly
<1>1. life' \in LifeCalls /\ life'.pc = "idle" /\ Lifecycle \notin waiting
  BY Blank DEF LifecycleInv, LifeInv
<1>2. TypeOK'
  BY <1>1 DEF LifecycleInv, TypeOK, ColdInv
<1>3. ColdInv' /\ QueueInv'
  BY <1>1 DEF LifecycleInv, TypeOK, ColdInv, QueueInv, LifeInv
<1>4. LifeInv' /\ RetireInv'
  BY <1>1 DEF LifecycleInv, TypeOK, ColdInv, QueueInv, LifeInv, RetireInv
<1>5. StatusInv'
  BY <1>1 DEF LifecycleInv, QueueInv, StatusInv
<1>6. QED BY <1>2, <1>3, <1>4, <1>5 DEF LifecycleInv

LEMMA RetireEndsInv ==
  ASSUME LifecycleInv, RetireEnds
  PROVE  LifecycleInv'
<1> USE DEF RetireEnds, WorkRetired, ChannelForgotten, Asking
<1>1. /\ manager' \in Managers /\ manager'.keys = "none" /\ ~manager'.pend
      /\ manager'.probe = manager.probe
      /\ life.op # "disconnect" => manager'.status = "disconnected"
  BY DEF LifecycleInv, TypeOK, Managers, Statuses
<1>2. restore' \in Restores /\ ~restore'.current /\ restore'.pc = restore.pc
  BY DEF LifecycleInv, TypeOK, Restores
<1>3. /\ life' \in LifeCalls
      /\ IF life.op = "disconnect" THEN life'.pc = "releasing"
         ELSE life'.pc \in {"issuing", "owning"}
  BY DEF LifecycleInv, TypeOK, LifeCalls, NoCall
<1>4. /\ socket' \in Sockets /\ socket'.attempt = "none" /\ relay' \in Relays /\ ~relay'.wallet
      /\ stream' \in Streams /\ queue' \in Seq(Items)
  BY Blank
<1>5. /\ GivenUp /\ (life.op # "disconnect" => channel < MaxChannel)
  BY DEF LifecycleInv, RetireInv, LifeInv
<1>6. TypeOK'
  BY <1>1, <1>2, <1>3, <1>4, <1>5 DEF LifecycleInv, TypeOK, ColdInv
<1>7. ColdInv' /\ QueueInv'
  BY <1>1, <1>2, <1>3, <1>4, <1>5 DEF LifecycleInv, TypeOK, ColdInv, QueueInv, LifeInv
<1>8. LifeInv' /\ RetireInv'
  BY <1>1, <1>2, <1>3, <1>4, <1>5
     DEF LifecycleInv, TypeOK, ColdInv, QueueInv, LifeInv, RetireInv
<1>9. StatusInv'
  BY <1>1, <1>2, <1>3, <1>4, <1>5 DEF LifecycleInv, QueueInv, StatusInv
<1>10. QED BY <1>6, <1>7, <1>8, <1>9 DEF LifecycleInv

LEMMA DisconnectEndsInv ==
  ASSUME LifecycleInv, DisconnectEnds
  PROVE  LifecycleInv'
<1> USE DEF DisconnectEnds, LifecycleOnly
<1>1. /\ manager' \in Managers /\ manager'.status = "disconnected"
      /\ manager'.keys = manager.keys /\ manager'.pend = manager.pend
      /\ manager'.probe = manager.probe
  BY StatusSet DEF LifecycleInv, TypeOK, Statuses
<1>2. life' \in LifeCalls /\ life'.pc = "idle" /\ Lifecycle \notin waiting
  BY Blank DEF LifecycleInv, LifeInv
<1>3. TypeOK'
  BY <1>1, <1>2 DEF LifecycleInv, TypeOK, ColdInv
<1>4. ColdInv' /\ QueueInv'
  BY <1>1, <1>2 DEF LifecycleInv, TypeOK, ColdInv, QueueInv, LifeInv
<1>5. LifeInv' /\ RetireInv'
  BY <1>1, <1>2 DEF LifecycleInv, TypeOK, ColdInv, QueueInv, LifeInv, RetireInv
<1>6. StatusInv'
  BY <1>1, <1>2 DEF LifecycleInv, QueueInv, StatusInv
<1>7. QED BY <1>3, <1>4, <1>5, <1>6 DEF LifecycleInv

LEMMA IssueInv ==
  ASSUME LifecycleInv, Issue
  PROVE  LifecycleInv'
<1> USE DEF Issue
<1>1. /\ manager' \in Managers /\ manager'.keys = "pairing" /\ ~manager'.pend
      /\ ~manager'.probe /\ manager'.status = "connecting"
  BY DEF NoSession, Managers, Statuses
<1>2. socket' \in Sockets /\ socket'.attempt = "none"
  BY DEF NoSocket, Sockets
<1>3. /\ life' \in LifeCalls /\ life'.pc = "pairing" /\ life'.current
  BY DEF LifecycleInv, TypeOK, LifeCalls
<1>4. restore' \in Restores /\ ~restore'.current /\ restore'.pc = restore.pc
  BY DEF LifecycleInv, TypeOK, Restores
<1>5. /\ relay' \in Relays /\ ~relay'.wallet
      /\ stream' \in Streams /\ queue' \in Seq(Items)
  BY Blank
<1>6. channel < MaxChannel /\ GivenUp
  BY DEF LifecycleInv, LifeInv, RetireInv
<1>7. /\ channel' \in 1 .. MaxChannel
      /\ closed' \cup offered' \cup waived' \subseteq 1 .. channel
      /\ channel' = channel + 1
  BY <1>6 DEF LifecycleInv, TypeOK, RetireInv
<1>8. /\ channel' \in 0 .. MaxChannel /\ waiting' \subseteq Joins \cup {Lifecycle}
      /\ closed' \cup offered' \cup waived' \subseteq 1 .. MaxChannel
  BY <1>7 DEF LifecycleInv, TypeOK
<1>9. TypeOK'
  BY <1>1, <1>2, <1>3, <1>4, <1>5, <1>6, <1>7, <1>8 DEF LifecycleInv, TypeOK, ColdInv
<1>10. ColdInv' /\ QueueInv'
  BY <1>1, <1>2, <1>3, <1>4, <1>5, <1>6, <1>7, <1>8
     DEF LifecycleInv, TypeOK, ColdInv, QueueInv, LifeInv
<1>11. LifeInv' /\ RetireInv'
  BY <1>1, <1>2, <1>3, <1>4, <1>5, <1>6, <1>7, <1>8
     DEF LifecycleInv, TypeOK, ColdInv, QueueInv, LifeInv, RetireInv
<1>12. StatusInv'
  BY <1>1, <1>2, <1>3, <1>4, <1>5, <1>6, <1>7, <1>8 DEF LifecycleInv, QueueInv, StatusInv
<1>13. QED BY <1>9, <1>10, <1>11, <1>12 DEF LifecycleInv

LEMMA PairingJoinedInv ==
  ASSUME LifecycleInv, PairingJoined
  PROVE  LifecycleInv'
<1> USE DEF PairingJoined
<1>1. manager.keys # "none" /\ life.current
  BY DEF LifecycleInv, LifeInv
<1>2. /\ manager' \in Managers /\ manager'.status = "waiting"
      /\ manager'.keys = manager.keys /\ manager'.pend = manager.pend
      /\ manager'.probe = manager.probe
  BY StatusSet DEF LifecycleInv, TypeOK, Statuses
<1>3. socket' \in Sockets /\ socket'.attempt = "none" /\ socket # NoSocket
  BY Blank DEF LifecycleInv, TypeOK, Sockets
<1>4. relay' \in Relays /\ relay'.wallet = relay.wallet
  BY DEF LifecycleInv, TypeOK, Relays
<1>5. /\ life' \in LifeCalls /\ life'.pc = "encoding" /\ life'.current = life.current
  BY DEF LifecycleInv, TypeOK, LifeCalls
<1>6. TypeOK'
  BY <1>1, <1>2, <1>3, <1>4, <1>5 DEF LifecycleInv, TypeOK, ColdInv
<1>7. ColdInv' /\ QueueInv'
  BY <1>1, <1>2, <1>3, <1>4, <1>5 DEF LifecycleInv, TypeOK, ColdInv, QueueInv, LifeInv
<1>8. LifeInv' /\ RetireInv'
  BY <1>1, <1>2, <1>3, <1>4, <1>5
     DEF LifecycleInv, TypeOK, ColdInv, QueueInv, LifeInv, RetireInv
<1>9. StatusInv'
  BY <1>1, <1>2, <1>3, <1>4, <1>5 DEF LifecycleInv, QueueInv, StatusInv
<1>10. QED BY <1>6, <1>7, <1>8, <1>9 DEF LifecycleInv

LEMMA EncodedInv ==
  ASSUME LifecycleInv, Encoded
  PROVE  LifecycleInv'
<1> USE DEF Encoded
<1>1. life' \in LifeCalls /\ life'.pc = "idle" /\ Lifecycle \notin waiting
  BY Blank DEF LifecycleInv, LifeInv
<1>2. closed' \cup offered' \cup waived' \subseteq 1 .. channel
  BY DEF LifecycleInv, TypeOK, RetireInv, LifeInv
<1>3. 1 .. channel \subseteq 1 .. MaxChannel
  BY DEF LifecycleInv, TypeOK
<1>4. TypeOK'
  BY <1>1, <1>2, <1>3 DEF LifecycleInv, TypeOK, ColdInv
<1>5. ColdInv' /\ QueueInv'
  BY <1>1, <1>2, <1>3 DEF LifecycleInv, TypeOK, ColdInv, QueueInv, LifeInv
<1>6. LifeInv' /\ RetireInv'
  BY <1>1, <1>2, <1>3 DEF LifecycleInv, TypeOK, ColdInv, QueueInv, LifeInv, RetireInv
<1>7. StatusInv'
  BY <1>1, <1>2, <1>3 DEF LifecycleInv, QueueInv, StatusInv
<1>8. QED BY <1>4, <1>5, <1>6, <1>7 DEF LifecycleInv

LEMMA EncodingFailsInv ==
  ASSUME LifecycleInv, EncodingFails
  PROVE  LifecycleInv'
  BY PairingFailsInv DEF EncodingFails

LEMMA WalletJoinsInv ==
  ASSUME LifecycleInv, WalletJoins
  PROVE  LifecycleInv'
<1> USE DEF WalletJoins, Elsewhere
<1>1. channel # 0
  BY DEF LifecycleInv, RetireInv
<1>2. relay' \in Relays
  BY DEF LifecycleInv, TypeOK, Relays
<1>3. /\ manager' \in Managers
      /\ manager'.status = manager.status \/ (manager'.status = "connected" /\ Ready)
      /\ manager'.keys = manager.keys /\ manager'.pend = manager.pend
      /\ manager'.probe => manager.probe
  BY DEF LifecycleInv, TypeOK, Managers, Statuses
<1>4. TypeOK'
  BY <1>1, <1>2, <1>3 DEF LifecycleInv, TypeOK, ColdInv
<1>5. ColdInv' /\ QueueInv'
  BY <1>1, <1>2, <1>3 DEF LifecycleInv, TypeOK, ColdInv, QueueInv, LifeInv
<1>6. LifeInv' /\ RetireInv'
  BY <1>1, <1>2, <1>3 DEF LifecycleInv, TypeOK, ColdInv, QueueInv, LifeInv, RetireInv
<1>7. StatusInv'
  BY <1>1, <1>2, <1>3 DEF LifecycleInv, QueueInv, StatusInv
<1>8. QED BY <1>4, <1>5, <1>6, <1>7 DEF LifecycleInv

LEMMA WalletLeavesInv ==
  ASSUME LifecycleInv, WalletLeaves
  PROVE  LifecycleInv'
<1> USE DEF WalletLeaves, Elsewhere
<1>1. relay # FreshRelay
  BY Blank
<1>2. relay' \in Relays /\ ~relay'.wallet
  BY DEF LifecycleInv, TypeOK, Relays
<1>3. /\ manager' \in Managers
      /\ manager'.status = manager.status \/ (manager'.status = "waiting" /\ Ready)
      /\ manager'.keys = manager.keys /\ manager'.pend = manager.pend
      /\ manager'.probe = manager.probe
  BY DEF LifecycleInv, TypeOK, Managers, Statuses
<1>4. TypeOK'
  BY <1>1, <1>2, <1>3 DEF LifecycleInv, TypeOK, ColdInv
<1>5. ColdInv' /\ QueueInv'
  BY <1>1, <1>2, <1>3 DEF LifecycleInv, TypeOK, ColdInv, QueueInv, LifeInv
<1>6. LifeInv' /\ RetireInv'
  BY <1>1, <1>2, <1>3 DEF LifecycleInv, TypeOK, ColdInv, QueueInv, LifeInv, RetireInv
<1>7. StatusInv'
  BY <1>1, <1>2, <1>3 DEF LifecycleInv, QueueInv, StatusInv
<1>8. QED BY <1>4, <1>5, <1>6, <1>7 DEF LifecycleInv

LEMMA WalletClosesInv ==
  ASSUME LifecycleInv, WalletCloses
  PROVE  LifecycleInv'
<1> USE DEF WalletCloses, WorkRetired, ChannelForgotten
<1>1. /\ channel # 0 /\ channel \in offered
      /\ closed' \cup offered' \cup waived' \subseteq 1 .. channel
      /\ closed' \cup offered' \cup waived' \subseteq 1 .. MaxChannel
  BY Blank DEF LifecycleInv, TypeOK, ColdInv, RetireInv
<1>2. life.pc # "pairing"
  BY <1>1 DEF LifecycleInv, LifeInv
<1>3. CASE relay.member
  <2>1. /\ life' \in LifeCalls /\ ~life'.current
        /\ \/ life'.pc = "idle"
           \/ /\ life'.pc = life.pc /\ life'.op = life.op
              /\ life'.had = life.had /\ life'.confirmed = life.confirmed
              /\ Lifecycle \notin waiting
    <3>1. ASSUME NEW c \in LifeCalls
          PROVE  LET d == [c EXCEPT !.current = FALSE]
                 IN  /\ d \in LifeCalls /\ ~d.current /\ d.pc = c.pc /\ d.op = c.op
                     /\ d.had = c.had /\ d.confirmed = c.confirmed
      BY DEF LifeCalls
    <3>2. QED BY <1>3, <3>1, RejectedCall, Blank
  <2>2. restore' \in Restores /\ ~restore'.current /\ restore'.pc = restore.pc
    BY <1>3 DEF LifecycleInv, TypeOK, Restores
  <2>3. TypeOK'
    BY <1>1, <1>3, <2>1, <2>2, Blank DEF LifecycleInv, TypeOK
  <2>4. ColdInv' /\ QueueInv'
    BY <1>1, <1>3, <2>1, <2>2, Blank DEF TypeOK, LifecycleInv, ColdInv, QueueInv
  <2>5. LifeInv' /\ RetireInv'
    BY <1>1, <1>2, <1>3, <2>1, <2>2, Blank DEF TypeOK, LifecycleInv, LifeInv, RetireInv
  <2>6. StatusInv'
    BY <1>3, <2>1, <2>2, Blank DEF TypeOK, LifecycleInv, StatusInv
  <2>7. QED BY <2>3, <2>4, <2>5, <2>6 DEF LifecycleInv
<1>4. CASE ~relay.member
  <2>1. TypeOK'
    BY <1>1, <1>4, Blank DEF LifecycleInv, TypeOK
  <2>2. ColdInv' /\ QueueInv'
    BY <1>1, <1>4, Blank DEF TypeOK, LifecycleInv, ColdInv, QueueInv
  <2>3. LifeInv' /\ RetireInv'
    BY <1>1, <1>2, <1>4, Blank DEF TypeOK, LifecycleInv, LifeInv, RetireInv
  <2>4. StatusInv'
    BY <1>4 DEF TypeOK, LifecycleInv, StatusInv
  <2>5. QED BY <2>1, <2>2, <2>3, <2>4 DEF LifecycleInv
<1>5. QED BY <1>3, <1>4

LEMMA WalletSendsInv ==
  ASSUME LifecycleInv, WalletSends
  PROVE  LifecycleInv'
<1> USE DEF WalletSends, Elsewhere
<1>1. relay # FreshRelay
  BY Blank
<1>2. stream' \in Streams
  BY FrameSent DEF LifecycleInv, TypeOK
<1>3. relay' \in Relays /\ relay'.wallet = relay.wallet
  <2>1. stream.next \in 0 .. MaxFrames
    BY DEF LifecycleInv, TypeOK, Streams
  <2>2. Append(relay.buffer, stream.next) \in Seq(0 .. MaxFrames)
    BY <2>1 DEF LifecycleInv, TypeOK, Relays
  <2>3. QED BY <2>2 DEF LifecycleInv, TypeOK, Relays
<1>4. /\ queue' \in Seq(Items)
      /\ handling # "no" => queue' # <<>>
      /\ queue' # <<>> => manager.keys # "none"
      /\ \A i \in 1 .. Len(queue') : queue'[i].kind = "joined" => Ready
  <2> DEFINE item == [kind |-> "live", n |-> stream.next]
  <2>1. item \in Items /\ item.kind = "live"
    BY DEF LifecycleInv, TypeOK, Streams, Items
  <2>2. CASE UNCHANGED queue
    BY <2>2 DEF LifecycleInv, TypeOK, QueueInv
  <2>3. CASE manager.keys # "none" /\ queue' = Append(queue, item)
    <3> HIDE DEF item
    <3>1. /\ queue' \in Seq(Items) /\ Len(queue') = Len(queue) + 1 /\ queue' # <<>>
          /\ \A i \in 1 .. Len(queue) : queue'[i] = queue[i]
          /\ queue'[Len(queue) + 1] = item
      BY <2>1, <2>3 DEF LifecycleInv, TypeOK
    <3>2. ASSUME NEW i \in 1 .. Len(queue'), queue'[i].kind = "joined" PROVE Ready
      <4>1. Len(queue) \in Nat
        BY DEF LifecycleInv, TypeOK
      <4>2. CASE i = Len(queue) + 1
        BY <2>1, <3>1, <3>2, <4>2
      <4>3. CASE i \in 1 .. Len(queue)
        BY <3>1, <3>2, <4>3 DEF LifecycleInv, QueueInv
      <4>4. QED BY <3>1, <4>1, <4>2, <4>3
    <3>3. QED BY <2>3, <3>1, <3>2
  <2>4. QED BY <2>2, <2>3
<1>5. TypeOK'
  BY <1>2, <1>3, <1>4 DEF LifecycleInv, TypeOK
<1>6. ColdInv' /\ QueueInv'
  BY <1>1, <1>4 DEF TypeOK, LifecycleInv, ColdInv, QueueInv
<1>7. LifeInv' /\ RetireInv'
  BY <1>3 DEF TypeOK, LifecycleInv, LifeInv, RetireInv
<1>8. StatusInv'
  BY DEF TypeOK, LifecycleInv, StatusInv
<1>9. QED BY <1>5, <1>6, <1>7, <1>8 DEF LifecycleInv

-----------------------------------------------------------------------------

LEMMA InitInv == Init => LifecycleInv
<1> SUFFICES ASSUME Init PROVE LifecycleInv
  OBVIOUS
<1> USE DEF Init
<1>1. /\ manager \in Managers /\ manager.keys = "none" /\ ~manager.probe
      /\ manager.status = "disconnected" /\ (manager.pend \/ channel = 0)
      /\ channel = 0 => ~manager.pend
  <2>1. CASE manager = NoSession /\ channel = 0
    BY <2>1, Blank
  <2>2. CASE manager = [NoSession EXCEPT !.pend = TRUE] /\ channel = 1
    <3>1. /\ NoSession \in Managers /\ NoSession.keys = "none" /\ ~NoSession.probe
          /\ NoSession.status = "disconnected"
      BY Blank
    <3>2. ASSUME NEW m \in Managers
          PROVE  LET r == [m EXCEPT !.pend = TRUE]
                 IN  /\ r \in Managers /\ r.keys = m.keys /\ r.probe = m.probe
                     /\ r.status = m.status /\ r.pend
      BY DEF Managers
    <3>3. QED BY <2>2, <3>1, <3>2
  <2>3. QED BY <2>1, <2>2
<1>2. /\ stream \in Streams /\ relay \in Relays /\ ~relay.wallet
      /\ channel = 0 => relay = FreshRelay /\ offered = {}
      /\ channel \in {0, 1} /\ offered \subseteq {channel}
  <2>1. CASE stream = FreshStream /\ relay = FreshRelay /\ channel = 0 /\ offered = {}
    BY <2>1, Blank
  <2>2. CASE /\ stream = [FreshStream EXCEPT !.next = 1]
             /\ relay = [FreshRelay EXCEPT !.paired = TRUE]
             /\ channel = 1 /\ offered = {1}
    <3>1. 1 \in 0 .. MaxFrames + 1 /\ 0 \in 0 .. MaxFrames /\ 0 \in 0 .. MaxFailures
      OBVIOUS
    <3>2. FreshStream \in Streams /\ FreshRelay \in Relays /\ ~FreshRelay.wallet
      BY Blank
    <3>3. stream \in Streams
      BY <2>2, <3>1, <3>2 DEF Streams
    <3>4. relay \in Relays /\ ~relay.wallet
      BY <2>2, <3>2 DEF Relays
    <3>5. QED BY <2>2, <3>3, <3>4
  <2>3. QED BY <2>1, <2>2
<1>3. /\ closed \cup offered \cup waived \subseteq 1 .. channel
      /\ closed \cup offered \cup waived \subseteq 1 .. MaxChannel
      /\ channel \in 0 .. MaxChannel
  <2>1. closed = {} /\ waived = {} /\ (channel = 0 => offered = {}) /\ channel \in {0, 1}
    BY <1>2
  <2>2. offered \subseteq 1 .. channel
    BY <1>2, <2>1
  <2>3. QED BY <2>1, <2>2
<1>4. TypeOK
  BY <1>1, <1>2, <1>3, Blank DEF TypeOK
<1>5. ColdInv /\ QueueInv
  BY <1>1, <1>2, Blank DEF ColdInv, QueueInv
<1>6. LifeInv /\ RetireInv
  BY <1>1, <1>2, <1>3, Blank DEF LifeInv, RetireInv
<1>7. StatusInv
  BY <1>1 DEF StatusInv
<1>8. QED BY <1>4, <1>5, <1>6, <1>7 DEF LifecycleInv

LEMMA NextInv == LifecycleInv /\ [Next]_vars => LifecycleInv'
<1> SUFFICES ASSUME LifecycleInv, [Next]_vars PROVE LifecycleInv'
  OBVIOUS
<1>1. CASE Application
  BY <1>1, JoinAndSettleInv, RestoreBeginsInv, GetConnectionURIInv, NewConnectionInv,
     DisconnectInv, SendFailsInv
     DEF Application, Resume, EnsureChannelJoined
<1>2. CASE Restoring
  BY <1>2, RestoreRefusedInv, RestoreOvertakenInv, RecordReadInv, RecordGoneInv,
     HydratesInv, HydrationOvertakenInv, HydrationFailsInv, RestoreReleasedInv
     DEF Restoring
<1>3. CASE JoinsEnd
  BY <1>3, CallsJoinedInv, CallsTerminatedInv, AutoRejoinedInv, AutoRejoinTerminatedInv,
     JoinSettlesInv, RejoinSettlesInv, JoinFailsInv, JoinConflictsInv, WatchdogInv,
     ProbeFiresInv
     DEF JoinsEnd
<1>4. CASE Receiving
  BY <1>4, FrameBeginsInv, SynAckHandledInv, FrameHandledInv, HandlerTeardownInv,
     TeardownEndsInv
     DEF Receiving
<1>5. CASE LifecycleSteps
  BY <1>5, LockRefusedInv, LockGrantedInv, FlushEndsInv, CloseEndsInv, RetireFailsInv,
     RetireEndsInv, DisconnectEndsInv, IssueInv, PairingJoinedInv, EncodedInv,
     EncodingFailsInv
     DEF LifecycleSteps
<1>6. CASE Environment
  BY <1>6, SocketUpInv, SocketDropsInv, WalletJoinsInv, WalletLeavesInv,
     WalletClosesInv, WalletSendsInv
     DEF Environment
<1>7. CASE UNCHANGED vars
  <2>1. TypeOK' /\ ColdInv' /\ QueueInv'
    BY <1>7 DEF vars, LifecycleInv, TypeOK, ColdInv, QueueInv
  <2>2. LifeInv' /\ RetireInv' /\ StatusInv'
    BY <1>7 DEF vars, LifecycleInv, LifeInv, RetireInv, StatusInv
  <2>3. QED BY <2>1, <2>2 DEF LifecycleInv
<1>8. QED BY <1>1, <1>2, <1>3, <1>4, <1>5, <1>6, <1>7 DEF Next

-----------------------------------------------------------------------------
\* Whatever the relay, the wallet and the other calls do, a status, a queued
\* join, a restore and a lifecycle call belong to the session that is live.
THEOREM LifecycleInvariant == Spec => []LifecycleInv
  BY InitInv, NextInv, PTL DEF Spec

\* setStatus(): the status that the application is shown has its session.
THEOREM StatusIsBacked == Spec => []StatusHasSession
<1>1. LifecycleInv => StatusHasSession
  BY DEF LifecycleInv, StatusInv, StatusHasSession
<1>2. QED BY <1>1, LifecycleInvariant, PTL

\* getConnectionURI() and resetForNewChannel() replace no pairing whose channel
\* the wallet could still use.
THEOREM ChannelsAreRetired == Spec => []OldChannelsRetired
<1>1. LifecycleInv => OldChannelsRetired
  BY DEF LifecycleInv, RetireInv
<1>2. QED BY <1>1, LifecycleInvariant, PTL

\* handleSessionTerminated() and disconnect(): nothing joins afterwards.
THEOREM EndIsFinal == Spec => []EndedStaysEnded
<1>1. LifecycleInv => EndedStaysEnded
  BY Blank DEF LifecycleInv, ColdInv, EndedStaysEnded
<1>2. QED BY <1>1, LifecycleInvariant, PTL

-----------------------------------------------------------------------------
(* The probe and a wallet that has answered *)

Hydrating == restore.pc = "hydrating" /\ restore.current

\* Without keys a presence is that of an ended session, until they are restored.
ProbeInv ==
  manager.probe =>
    /\ handling # "opening" /\ manager.status # "connected"
    /\ manager.present => JoinQueued \/ (manager.keys = "none" /\ ~Hydrating)

\* A step that shows no wallet, settles no join and starts no probe
LEMMA QuietProbe ==
  ASSUME ProbeInv,
         manager'.probe =>
           /\ manager.probe
           /\ handling' = "opening" => handling = "opening"
           /\ manager'.status = "connected" => manager.status = "connected"
           /\ manager'.present =>
                \/ manager'.keys = "none" /\ ~Hydrating'
                \/ /\ manager.present /\ manager'.keys = manager.keys
                   /\ queue' = queue /\ (Hydrating' => Hydrating)
  PROVE  ProbeInv'
  BY DEF ProbeInv, JoinQueued

\* Rejecting the joins that are waited for is such a step.
LEMMA QuietManagers ==
  ASSUME NEW m \in Managers
  PROVE  /\ Rejected(m).probe = m.probe /\ Rejected(m).present = m.present
         /\ Rejected(m).keys = m.keys
         /\ Rejected(m).status = "connected" => m.status = "connected"
         /\ \A s \in Statuses : /\ Status(m, s).probe = m.probe
                                /\ Status(m, s).present = m.present
                                /\ Status(m, s).keys = m.keys
                                /\ Status(m, s).status = s
  BY StatusSet DEF Rejected, Statuses

LEMMA ApplicationProbe ==
  ASSUME LifecycleInv, ProbeInv, Application
  PROVE  ProbeInv'
<1> USE QuietManagers DEF LifecycleInv, TypeOK, Hydrating, Statuses, LifecycleOnly
<1>1. ASSUME NEW j \in Joins, JoinAndSettle(j) PROVE ProbeInv'
  BY <1>1, QuietProbe DEF JoinAndSettle, Managers
<1>2. CASE RestoreBegins
  <2>1. restore'.pc = "owning" /\ UNCHANGED <<manager, queue, handling>>
    BY <1>2 DEF RestoreBegins
  <2>2. QED BY <2>1, QuietProbe
<1>3. CASE GetConnectionURI
  BY <1>3, QuietProbe DEF GetConnectionURI
<1>4. CASE NewConnection \/ Disconnect
  <2>1. manager' = [manager EXCEPT !.probe = FALSE, !.present = FALSE]
    BY <1>4 DEF NewConnection, Disconnect, RetireBegins
  <2>2. ~manager'.probe
    BY <2>1 DEF Managers
  <2>3. QED BY <2>2 DEF ProbeInv
<1>5. CASE SendFails
  BY <1>5, QuietProbe DEF SendFails
<1>6. QED
  BY <1>1, <1>2, <1>3, <1>4, <1>5 DEF Application, Resume, EnsureChannelJoined

LEMMA RestoringProbe ==
  ASSUME LifecycleInv, ProbeInv, Restoring
  PROVE  ProbeInv'
<1> USE QuietManagers DEF LifecycleInv, TypeOK, Hydrating, Statuses
<1>1. CASE RestoreRefused
  BY <1>1, QuietProbe, Blank DEF RestoreRefused
<1>2. CASE RestoreOvertaken
  BY <1>2, QuietProbe, Blank DEF RestoreOvertaken
<1>3. CASE RecordRead
  BY <1>3, QuietProbe DEF RecordRead, Status, Managers
<1>4. CASE RecordGone
  BY <1>4, QuietProbe DEF RecordGone, Managers, Restores
<1>5. ASSUME NEW j \in Joins, Hydrates(j) PROVE ProbeInv'
  <2>1. manager.keys = "none" /\ queue = <<>>
    BY <1>5 DEF Hydrates, QueueInv
  <2>2. ~(manager.probe /\ manager.present)
    BY <1>5, <2>1 DEF Hydrates, ProbeInv, JoinQueued
  <2>3. /\ manager'.probe = manager.probe /\ manager'.present = manager.present
        /\ manager'.status = manager.status /\ handling' = handling
    BY <1>5 DEF Hydrates, Managers
  <2>4. QED BY <2>2, <2>3, QuietProbe
<1>6. CASE HydrationOvertaken
  BY <1>6, QuietProbe, Blank DEF HydrationOvertaken
<1>7. CASE HydrationFails
  BY <1>7, QuietProbe DEF HydrationFails, Managers, Restores
<1>8. CASE RestoreReleased
  BY <1>8, QuietProbe, Blank DEF RestoreReleased
<1>9. QED BY <1>1, <1>2, <1>3, <1>4, <1>5, <1>6, <1>7, <1>8 DEF Restoring

\* handleSessionTerminated() stops the probe.
LEMMA EndedProbe ==
  ASSUME ProbeInv, NEW call, SessionEnds(call)
  PROVE  ProbeInv'
  BY Blank DEF SessionEnds, ProbeInv

\* A pairing that cannot be joined has no keys that are left.
LEMMA FailedPairingProbe ==
  ASSUME LifecycleInv, ProbeInv, PairingFails
  PROVE  ProbeInv'
<1>1. /\ manager'.keys = "none" /\ manager'.status = "disconnected"
      /\ manager'.probe = manager.probe /\ handling' = "no"
  BY DEF LifecycleInv, TypeOK, PairingFails, WorkRetired, Managers, Statuses
<1>2. ~restore'.current
  BY DEF LifecycleInv, TypeOK, PairingFails, WorkRetired, Restores
<1>3. QED BY <1>1, <1>2, QuietProbe DEF Hydrating

\* Items behind a queue keep their order and come after it.
LEMMA Appended ==
  ASSUME NEW q \in Seq(Items), NEW e \in Seq(Items)
  PROVE  /\ Len(q \o e) = Len(q) + Len(e)
         /\ \A n \in 1 .. Len(e) : /\ Len(q) + n \in DOMAIN (q \o e)
                                  /\ (q \o e)[Len(q) + n] = e[n]
  OBVIOUS

\* The frames of an answer are followed by the join that awaits them.
LEMMA AnswerEnds ==
  ASSUME LifecycleInv, NEW kind \in {"joined", "rejoined"}
  PROVE  \E n \in Nat \ {0} :
           /\ Len(Enqueued(kind)) = n /\ Enqueued(kind) \in Seq(Items)
           /\ Enqueued(kind)[n].kind = kind
<1> DEFINE frames == Frames("buffered")
           marker == Marker(kind)
           n == Len(relay.buffer)
<1>1. relay.buffer \in Seq(0 .. MaxFrames)
  BY DEF LifecycleInv, TypeOK, Relays
<1>2. n \in Nat /\ \A i \in 1 .. n : relay.buffer[i] \in 0 .. MaxFrames
  BY <1>1
<1>3. frames \in Seq(Items) /\ Len(frames) = n
  BY <1>2 DEF Frames, Items
<1>4. marker \in Seq(Items) /\ Len(marker) = 1 /\ marker[1].kind = kind
  BY DEF Marker, Items
<1> HIDE DEF frames, marker, n
<1>5. (frames \o marker)[n + 1] = marker[1] /\ Len(frames \o marker) = n + 1
  <2>1. 1 \in 1 .. Len(marker)
    BY <1>4
  <2>2. QED BY <1>3, <1>4, <2>1, Appended
<1>6. Enqueued(kind) = frames \o marker
  BY DEF Enqueued, frames, marker
<1>7. n + 1 \in Nat \ {0}
  BY <1>2
<1>8. QED BY <1>4, <1>5, <1>6, <1>7, Answer

\* However many calls share the answer, each awaits its copy.
LEMMA CopyQueued ==
  ASSUME LifecycleInv, NEW k \in Nat \ {0}
  PROVE  \E i \in 1 .. Len(Copies(k)) : Copies(k)[i].kind = "joined"
<1>1. PICK d \in Nat \ {0} : Len(Enqueued("joined")) = d /\ Enqueued("joined")[d].kind = "joined"
  BY AnswerEnds
<1>2. PICK m \in Nat : m = k * d /\ m >= d
  <2>1. k * d \in Nat /\ k * d = (k - 1) * d + d /\ (k - 1) * d >= 0
    OBVIOUS
  <2>2. QED BY <2>1
<1>3. Copies(k) = [i \in 1 .. m |-> Enqueued("joined")[((i - 1) % d) + 1]]
  BY <1>1, <1>2 DEF Copies
<1>4. (d - 1) % d = d - 1 /\ d \in 1 .. m
  BY <1>2
<1>5. Len(Copies(k)) = m /\ Copies(k)[d] = Enqueued("joined")[d]
  BY <1>3, <1>4
<1>6. QED BY <1>1, <1>4, <1>5

LEMMA Awaiting ==
  ASSUME queue \in Seq(Items), NEW e \in Seq(Items), queue' = queue \o e,
         NEW n \in 1 .. Len(e), e[n].kind \in {"joined", "rejoined"}
  PROVE  JoinQueued'
<1>1. /\ Len(queue) + n \in DOMAIN (queue \o e)
      /\ (queue \o e)[Len(queue) + n] = e[n]
  BY Appended
<1>2. Len(queue) + n \in DOMAIN queue' /\ queue'[Len(queue) + n].kind \in {"joined", "rejoined"}
  BY <1>1
<1>3. QED BY <1>2 DEF JoinQueued

LEMMA JoinsEndProbe ==
  ASSUME LifecycleInv, ProbeInv, JoinsEnd
  PROVE  ProbeInv'
<1> USE DEF Hydrating, Statuses
<1>0. manager \in Managers /\ queue \in Seq(Items) /\ life \in LifeCalls
  BY DEF LifecycleInv, TypeOK
<1>1. CASE CallsJoined
  <2>1. /\ manager'.probe = manager.probe /\ manager'.status = manager.status
        /\ manager'.keys = manager.keys
        /\ manager'.present = (manager.present \/ (Callers # {} /\ relay.wallet))
        /\ UNCHANGED <<handling, restore>>
    BY <1>0, <1>1 DEF CallsJoined, Managers
  <2>2. CASE Callers = {}
    <3>1. Cardinality(Callers) = 0
      BY <2>2, FS_EmptySet
    <3>2. queue' = queue
      <4>1. Copies(0) = <<>>
        BY Copying
      <4>2. queue \o <<>> = queue
        BY <1>0
      <4>3. QED BY <1>1, <3>1, <4>1, <4>2 DEF CallsJoined
    <3>3. QED BY <2>1, <2>2, <3>2, QuietProbe
  <2>3. CASE Callers # {}
    <3>1. Callers \subseteq Joins
      BY DEF LifecycleInv, TypeOK
    <3>2. IsFiniteSet(Callers)
      BY <3>1, FS_Subset
    <3>3. Cardinality(Callers) \in Nat \ {0}
      BY <2>3, <3>2, FS_CardinalityType, FS_EmptySet
    <3>4. PICK k \in Nat \ {0} : k = Cardinality(Callers)
      BY <3>3
    <3>5. Copies(k) \in Seq(Items) /\ queue' = queue \o Copies(k)
      BY <1>1, <3>4, Copying DEF CallsJoined
    <3>6. PICK n \in 1 .. Len(Copies(k)) : Copies(k)[n].kind = "joined"
      BY CopyQueued
    <3>7. JoinQueued'
      BY <1>0, <3>5, <3>6, Awaiting
    <3>8. QED BY <2>1, <3>7 DEF ProbeInv
  <2>4. QED BY <2>2, <2>3
<1>2. CASE CallsTerminated
  <2>1. CASE Callers = {}
    BY <1>2, <2>1, QuietProbe DEF CallsTerminated
  <2>2. CASE Callers # {}
    BY <1>2, <2>2, EndedProbe DEF CallsTerminated
  <2>3. QED BY <2>1, <2>2
<1>3. CASE AutoRejoined
  <2>1. CASE manager.keys = "none"
    BY <1>3, <2>1, QuietProbe DEF AutoRejoined
  <2>2. CASE manager.keys # "none"
    <3>1. /\ manager'.probe = manager.probe /\ manager'.status = manager.status
          /\ handling' = handling /\ queue' = queue \o Enqueued("rejoined")
      BY <1>0, <1>3, <2>2 DEF AutoRejoined, Managers
    <3>2. PICK n \in Nat \ {0} :
            /\ Len(Enqueued("rejoined")) = n /\ Enqueued("rejoined") \in Seq(Items)
            /\ Enqueued("rejoined")[n].kind = "rejoined"
      BY AnswerEnds
    <3>3. JoinQueued'
      <4>1. n \in 1 .. Len(Enqueued("rejoined"))
        BY <3>2
      <4>2. QED BY <1>0, <3>1, <3>2, <4>1, Awaiting
    <3>4. QED BY <3>1, <3>3 DEF ProbeInv
  <2>3. QED BY <2>1, <2>2
<1>4. CASE AutoRejoinTerminated
  <2>1. CASE manager.keys = "none"
    BY <1>4, <2>1, QuietProbe DEF AutoRejoinTerminated
  <2>2. CASE manager.keys # "none"
    BY <1>4, <2>2, EndedProbe DEF AutoRejoinTerminated, SessionTerminated
  <2>3. QED BY <2>1, <2>2
<1>5. CASE JoinSettles \/ RejoinSettles
  <2>1. handling' = "no" /\ queue # <<>>
    BY <1>5 DEF JoinSettles, RejoinSettles, AtHead, Settled
  <2>2. CASE Ready /\ manager.present
    <3>1. ~manager'.probe
      BY <1>0, <1>5, <2>2, ConnectedStatus DEF JoinSettles, RejoinSettles
    <3>2. QED BY <3>1 DEF ProbeInv
  <2>3. CASE ~(Ready /\ manager.present)
    <3>1. manager'.status = "waiting" /\ manager'.present = manager.present
      BY <1>0, <1>5, <2>3 DEF JoinSettles, RejoinSettles, Status, Managers
    <3>2. CASE Ready
      BY <2>1, <2>3, <3>1, <3>2 DEF ProbeInv
    <3>3. CASE ~Ready
      <4>1. CASE JoinSettles
        <5>1. Head(queue) = queue[1] /\ 1 \in 1 .. Len(queue)
          BY <2>1, Dequeued
        <5>2. QED BY <3>3, <4>1, <5>1 DEF JoinSettles, AtHead, LifecycleInv, QueueInv
      <4>2. CASE RejoinSettles
        <5>1. manager'.probe = manager.probe
          BY <1>0, <2>3, <3>3, <4>2 DEF RejoinSettles, Status, Managers
        <5>2. manager.keys = "pairing"
          BY <1>0, <2>1, <3>3 DEF LifecycleInv, QueueInv, Managers
        <5>3. ~manager.probe
          BY <5>2 DEF LifecycleInv, QueueInv
        <5>4. QED BY <5>1, <5>3 DEF ProbeInv
      <4>3. QED BY <1>5, <4>1, <4>2
    <3>4. QED BY <3>2, <3>3
  <2>4. QED BY <2>2, <2>3
<1>6. CASE JoinFails
  <2>1. CASE life.pc = "pairing"
    BY <1>6, <2>1, FailedPairingProbe DEF JoinFails
  <2>2. CASE life.pc # "pairing"
    BY <1>0, <1>6, <2>2, QuietProbe, QuietManagers DEF JoinFails
  <2>3. QED BY <2>1, <2>2
<1>7. CASE JoinConflicts
  BY <1>7, QuietProbe DEF JoinConflicts
<1>8. CASE Watchdog
  <2>1. CASE life.pc = "pairing"
    BY <1>8, <2>1, FailedPairingProbe DEF Watchdog
  <2>2. CASE life.pc # "pairing"
    BY <1>0, <1>8, <2>2, QuietProbe, QuietManagers DEF Watchdog
  <2>3. QED BY <2>1, <2>2
<1>9. CASE ProbeFires
  <2>1. ~manager'.probe
    BY <1>0, <1>9 DEF ProbeFires, Status, Managers
  <2>2. QED BY <2>1 DEF ProbeInv
<1>10. QED
  BY <1>1, <1>2, <1>3, <1>4, <1>5, <1>6, <1>7, <1>8, <1>9 DEF JoinsEnd, JoinSettles, RejoinSettles

LEMMA ReceivingProbe ==
  ASSUME LifecycleInv, ProbeInv, Receiving
  PROVE  ProbeInv'
<1> USE DEF Hydrating
<1>0. manager \in Managers
  BY DEF LifecycleInv, TypeOK
<1>1. CASE FrameBegins
  <2>1. ~manager'.probe
    BY <1>0, <1>1 DEF FrameBegins, Managers
  <2>2. QED BY <2>1 DEF ProbeInv
<1>2. CASE SynAckHandled \/ \E n \in 1 .. MaxFrames : FrameHandled(n)
  <2>1. ~manager.probe /\ queue # <<>>
    BY <1>2 DEF SynAckHandled, FrameHandled, Opening, ProbeInv, LifecycleInv, QueueInv
  <2>2. CASE SynAckHandled
    BY <1>0, <2>1, <2>2, Handled, KeysExchanged DEF SynAckHandled, ProbeInv
  <2>3. ASSUME NEW n \in 1 .. MaxFrames, FrameHandled(n) PROVE ProbeInv'
    BY <1>0, <2>1, <2>3, Handled DEF FrameHandled, ProbeInv
  <2>4. QED BY <1>2, <2>2, <2>3
<1>3. ASSUME NEW n \in 0 .. MaxFrames, HandlerTeardown(n) PROVE ProbeInv'
  BY <1>0, <1>3, QuietProbe, QuietManagers DEF HandlerTeardown
<1>4. CASE TeardownEnds
  BY <1>4, EndedProbe DEF TeardownEnds, SessionTerminated
<1>5. QED BY <1>1, <1>2, <1>3, <1>4 DEF Receiving

LEMMA LifecycleProbe ==
  ASSUME LifecycleInv, ProbeInv, LifecycleSteps
  PROVE  ProbeInv'
<1> USE DEF Hydrating, LifecycleOnly
<1>0. manager \in Managers /\ restore \in Restores
  BY DEF LifecycleInv, TypeOK
<1>1. CASE LockRefused \/ CloseEnds \/ RetireFails \/ Encoded
  BY <1>1, QuietProbe DEF LockRefused, CloseEnds, RetireFails, Encoded
<1>2. CASE LockGranted
  <2>1. CASE UNCHANGED manager
    BY <1>2, <2>1, QuietProbe DEF LockGranted
  <2>2. CASE RetireBegins(NoCall)
    <3>1. ~manager'.probe
      BY <1>0, <2>2 DEF RetireBegins, Managers
    <3>2. QED BY <3>1 DEF ProbeInv
  <2>3. QED BY <1>2, <2>1, <2>2 DEF LockGranted
<1>3. CASE FlushEnds
  BY <1>0, <1>3, QuietProbe, QuietManagers DEF FlushEnds
<1>4. CASE RetireEnds
  <2>1. /\ manager'.probe = manager.probe /\ manager'.keys = "none"
        /\ manager'.status \in {manager.status, "disconnected"} /\ handling' = "no"
    BY <1>0, <1>4 DEF RetireEnds, WorkRetired, Managers
  <2>2. ~restore'.current
    BY <1>0, <1>4 DEF RetireEnds, WorkRetired, Restores
  <2>3. QED BY <2>1, <2>2, QuietProbe
<1>5. CASE DisconnectEnds
  BY <1>0, <1>5, QuietProbe, QuietManagers DEF DisconnectEnds, Statuses
<1>6. CASE Issue
  BY <1>6 DEF Issue, NoSession, ProbeInv
<1>7. CASE PairingJoined
  BY <1>0, <1>7, QuietProbe, QuietManagers DEF PairingJoined, Statuses
<1>8. CASE EncodingFails
  BY <1>8, FailedPairingProbe DEF EncodingFails
<1>9. QED
  BY <1>1, <1>2, <1>3, <1>4, <1>5, <1>6, <1>7, <1>8 DEF LifecycleSteps

LEMMA EnvironmentProbe ==
  ASSUME LifecycleInv, ProbeInv, Environment
  PROVE  ProbeInv'
<1> USE DEF Hydrating, Elsewhere
<1>0. manager \in Managers /\ queue \in Seq(Items)
  BY DEF LifecycleInv, TypeOK
<1>1. CASE SocketUp
  BY <1>1, QuietProbe DEF SocketUp
<1>2. CASE SocketDrops
  <2>1. CASE life.pc = "pairing"
    BY <1>2, <2>1, FailedPairingProbe DEF SocketDrops
  <2>2. CASE life.pc # "pairing"
    <3> DEFINE dropped == [manager EXCEPT !.present = FALSE]
               m == IF Ready /\ manager.status \in {"connected", "reconnecting", "waiting"}
                      THEN Status(dropped, "reconnecting") ELSE dropped
    <3>1. dropped \in Managers /\ ~dropped.present /\ dropped.probe = manager.probe
          /\ dropped.status = manager.status
      BY <1>0 DEF Managers
    <3> HIDE DEF dropped
    <3>2. m \in Managers /\ ~m.present /\ m.probe = manager.probe
          /\ (m.status = "connected" => manager.status = "connected")
      <4> DEFINE again == Status(dropped, "reconnecting")
      <4>1. /\ again \in Managers /\ ~again.present /\ again.probe = manager.probe
            /\ again.status = "reconnecting"
        BY <3>1, StatusSet DEF Statuses
      <4> HIDE DEF again
      <4>2. m \in {again, dropped}
        BY DEF again
      <4> HIDE DEF m
      <4>3. QED BY <3>1, <4>1, <4>2
    <3>3. manager' = Rejected(m)
      BY <1>2, <2>2 DEF SocketDrops, dropped
    <3> HIDE DEF m
    <3>4. UNCHANGED <<handling, restore, queue>>
      BY <1>2, <2>2 DEF SocketDrops
    <3>5. QED BY <3>2, <3>3, <3>4, QuietProbe, QuietManagers
  <2>3. QED BY <2>1, <2>2
<1>3. CASE WalletJoins
  <2>1. manager' = manager \/ ~manager'.probe
    BY <1>0, <1>3 DEF WalletJoins, Managers
  <2>2. QED BY <1>3, <2>1, QuietProbe DEF WalletJoins, ProbeInv
<1>4. CASE WalletLeaves
  <2>1. \/ manager' = manager
        \/ /\ ~manager'.present /\ manager'.probe = manager.probe
           /\ manager'.status \in {manager.status, "waiting"}
    BY <1>0, <1>4 DEF WalletLeaves, Managers
  <2>2. QED BY <1>4, <2>1, QuietProbe DEF WalletLeaves
<1>5. CASE WalletCloses
  <2>1. manager' = NoSession \/ UNCHANGED <<manager, queue, handling, restore>>
    BY <1>5 DEF WalletCloses
  <2>2. QED BY <2>1, Blank, QuietProbe DEF ProbeInv
<1>6. CASE WalletSends
  <2>1. UNCHANGED <<manager, handling, restore>>
    BY <1>6 DEF WalletSends
  <2>2. JoinQueued => JoinQueued'
    <3>1. CASE UNCHANGED queue
      BY <3>1 DEF JoinQueued
    <3>2. CASE queue' = Append(queue, [kind |-> "live", n |-> stream.next])
      BY <1>0, <3>2 DEF JoinQueued
    <3>3. QED BY <1>6, <3>1, <3>2 DEF WalletSends
  <2>3. QED BY <2>1, <2>2 DEF ProbeInv
<1>7. QED BY <1>1, <1>2, <1>3, <1>4, <1>5, <1>6 DEF Environment

LEMMA NextProbe == LifecycleInv /\ ProbeInv /\ [Next]_vars => ProbeInv'
<1> SUFFICES ASSUME LifecycleInv, ProbeInv, [Next]_vars PROVE ProbeInv'
  OBVIOUS
<1>1. CASE UNCHANGED vars
  BY <1>1, QuietProbe DEF vars, Hydrating
<1>2. QED
  BY <1>1, ApplicationProbe, RestoringProbe, JoinsEndProbe, ReceivingProbe, LifecycleProbe,
     EnvironmentProbe DEF Next

\* handleRelayMessage(), the roster events and the joins that settle stop the
\* probe, or are about to, whenever the wallet has shown itself; and
\* handleAutoReconnected() arms none for a pairing that nobody has scanned.
THEOREM ProbeStops == Spec => []ProbeIsForTheAbsent
<1>1. Init => ProbeInv
  BY Blank DEF Init, ProbeInv, NoSession
<1>2. LifecycleInv /\ ProbeInv => ProbeIsForTheAbsent
  BY DEF LifecycleInv, QueueInv, ProbeInv, ProbeIsForTheAbsent
<1>3. QED BY <1>1, <1>2, NextProbe, LifecycleInvariant, PTL DEF Spec
=============================================================================
