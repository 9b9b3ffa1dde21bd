------------------------- MODULE ConnectionLifecycle -------------------------
(***************************************************************************)
(* src/ConnectionManager.ts: status, joins, restore, the reconnect probe,  *)
(* teardown and the retirement of a channel before the next pairing.       *)
(*                                                                         *)
(* The socket client appears as what RelaySocket shows of it: at most one  *)
(* join_channel is unanswered, and all calls that wait for a join wait for *)
(* that one.  Work that belongs to a retired generation does nothing when  *)
(* it resumes and is dropped here at once (invalidateSessionWork()).       *)
(* Storage failures are the subject of SessionStream, the handshake proper *)
(* and its repeated SYNACKs that of Handshake.                             *)
(***************************************************************************)
EXTENDS Naturals, Sequences, FiniteSets

CONSTANTS
  Joins,        \* concurrent joinAndSettle() calls
  Lifecycle,    \* the one join of getConnectionURI() or of a retirement
  MaxChannel,   \* bound on channels
  MaxFrames,    \* bound on the ciphertexts of a wallet
  MaxQueue,     \* bound on the message queue when a join is answered
  MaxFailures   \* MAX_DECRYPT_FAILURES

ASSUME LifecycleAssumption ==
  /\ Lifecycle \notin Joins /\ IsFiniteSet(Joins)
  /\ MaxChannel \in Nat \ {0} /\ MaxFrames \in Nat /\ MaxQueue \in Nat
  /\ MaxFailures \in Nat \ {0}

VARIABLES
  manager,   \* status, keyExchange, pendingRestore, walletPresent, probe timer
  socket,    \* the SocketClient: transport, channelId, unanswered join_channel
  waiting,   \* the calls that wait for a join
  queue,     \* messageQueue: frames, and joins that await it
  handling,  \* what the frame at its head is waiting for
  teardown,  \* a failed send waits for the channel to be closed
  stream,    \* numbers of the last frame accepted and of the next one to send
  life,      \* getConnectionURI(), resetForNewChannel() or disconnect()
  restore,   \* reconnectNow()
  owned,     \* the page holds the lock
  relay,     \* the relay's view of the channel, and the wallet's
  closed,    \* tombstones
  channel,   \* channelId, numbered in the order of generation
  \* history
  offered,   \* channels whose URI was handed out
  waived,    \* channels that were given up without a tombstone
  over       \* the session has ended and no new one was begun

vars == <<manager, socket, waiting, queue, handling, teardown, stream, life, restore,
          owned, relay, closed, channel, offered, waived, over>>

NoSession ==
  [status |-> "disconnected", keys |-> "none", pend |-> FALSE, present |-> FALSE,
   probe |-> FALSE]

NoSocket == [state |-> "none", channel |-> FALSE, attempt |-> "none"]

NoCall == [pc |-> "idle", op |-> "uri", had |-> FALSE, confirmed |-> FALSE,
           retry |-> FALSE, current |-> FALSE]

NoRestore == [pc |-> "idle", current |-> FALSE]

FreshRelay == [wallet |-> FALSE, member |-> FALSE, buffer |-> <<>>, paired |-> FALSE]
FreshStream == [recv |-> 0, fails |-> 0, next |-> 0, gap |-> FALSE]

Statuses ==
  {"disconnected", "connecting", "waiting", "key_exchange", "connected", "reconnecting"}

Items == [kind : {"live", "buffered", "joined", "rejoined"}, n : 0 .. MaxFrames]

Managers ==
  [status : Statuses, keys : {"none", "pairing", "ready"}, pend : BOOLEAN, present : BOOLEAN,
   probe : BOOLEAN]
Sockets ==
  [state : {"none", "down", "up"}, channel : BOOLEAN, attempt : {"none", "call", "auto"}]
Streams ==
  [recv : 0 .. MaxFrames, fails : 0 .. MaxFailures, next : 0 .. MaxFrames + 1, gap : BOOLEAN]
LifeCalls ==
  [pc : {"idle", "owning", "joining", "flushing", "closing", "ending", "releasing", "issuing",
         "pairing", "encoding"},
   op : {"uri", "fresh", "disconnect"}, had : BOOLEAN, confirmed : BOOLEAN, retry : BOOLEAN,
   current : BOOLEAN]
Restores == [pc : {"idle", "owning", "hydrating", "releasing"}, current : BOOLEAN]
Relays ==
  [wallet : BOOLEAN, member : BOOLEAN, buffer : Seq(0 .. MaxFrames), paired : BOOLEAN]

TypeOK ==
  /\ manager \in Managers
  /\ socket \in Sockets
  /\ waiting \subseteq Joins \cup {Lifecycle}
  /\ queue \in Seq(Items)
  /\ handling \in {"no", "opening", "closing"}
  /\ teardown \in BOOLEAN
  /\ stream \in Streams
  /\ life \in LifeCalls
  /\ restore \in Restores
  /\ owned \in BOOLEAN
  /\ relay \in Relays
  /\ closed \cup offered \cup waived \subseteq 1 .. MaxChannel
  /\ channel \in 0 .. MaxChannel
  /\ over \in BOOLEAN

\* The constructor finds no record, or one of a paired session (channel 1).
Init ==
  /\ socket = NoSocket
  /\ waiting = {}
  /\ queue = <<>> /\ handling = "no" /\ teardown = FALSE
  /\ life = NoCall /\ restore = NoRestore /\ owned = FALSE
  /\ closed = {} /\ waived = {} /\ over = FALSE
  /\ \/ /\ manager = NoSession
        /\ stream = FreshStream /\ relay = FreshRelay
        /\ channel = 0 /\ offered = {}
     \/ /\ manager = [NoSession EXCEPT !.pend = TRUE]
        /\ stream = [FreshStream EXCEPT !.next = 1]
        /\ relay = [FreshRelay EXCEPT !.paired = TRUE]
        /\ channel = 1 /\ offered = {1}

-----------------------------------------------------------------------------
(* What several operations have in common *)

Ready == manager.keys = "ready"
Joined == socket.state = "up" /\ socket.channel

Callers == waiting \ {Lifecycle}

\* setStatus() of the events and of the joins that settle
Status(m, s) == [m EXCEPT !.status = s]

\* invalidateSessionWork(): queued and awaited work is void.  The join of a
\* lifecycle call is not bound to a generation.
WorkRetired ==
  /\ queue' = <<>> /\ handling' = "no" /\ teardown' = FALSE
  /\ restore' = [restore EXCEPT !.current = FALSE]

\* leaveChannel() and disconnect()
SocketDropped ==
  /\ socket' = NoSocket
  /\ waiting' = {}
  /\ relay' = [relay EXCEPT !.member = FALSE]

\* For good: what happens on this channel from now on is not looked at.
ChannelForgotten ==
  /\ socket' = NoSocket
  /\ waiting' = {}
  /\ relay' = FreshRelay
  /\ stream' = FreshStream
  /\ over' = TRUE

\* The joins that are waited for are rejected: joinAndSettle() falls back to
\* DISCONNECTED, a retirement ends with the error.
Rejected(m) == IF Callers = {} THEN m ELSE Status(m, "disconnected")
LifeRejected == IF Lifecycle \in waiting THEN NoCall ELSE life

\* handleSessionTerminated(), and what becomes of a lifecycle call.  Whether the
\* relay confirmed the end is only logged.
SessionEnds(call) ==
  /\ manager' = NoSession
  /\ WorkRetired
  /\ ChannelForgotten
  /\ life' = [call EXCEPT !.current = FALSE]
  /\ owned' = FALSE
  /\ waived' = waived \cup ({channel} \ closed)
  /\ UNCHANGED <<closed, channel, offered>>

SessionTerminated == SessionEnds(LifeRejected)

\* closeChannel(): the relay reads it, if at all, before whatever is sent
\* later.  A socket that is not joined sends nothing.
CloseChannel ==
  /\ socket' = [socket EXCEPT !.channel = FALSE, !.attempt = "none"]
  /\ waiting' = {}
  /\ \/ /\ Joined /\ relay.member
        /\ closed' = closed \cup {channel}
        /\ relay' = FreshRelay
     \/ UNCHANGED <<closed, relay>>

\* The relay may confirm a close that took effect.
CloseAnswers == IF channel \in closed /\ socket.state = "up" THEN BOOLEAN ELSE {FALSE}

\* connect() and joinChannel() by a call
JoinAsked(q) ==
  /\ waiting' = waiting \cup {q}
  /\ socket' = IF socket.state = "up"
                 THEN [socket EXCEPT !.channel = TRUE, !.attempt = "call"]
                 ELSE [socket EXCEPT !.channel = TRUE, !.state = "down"]

-----------------------------------------------------------------------------
(* joinAndSettle() and the calls that lead to it *)

\* resume() of a socket that has lost its channel, and ensureChannelJoined()
JoinAndSettle(j) ==
  /\ Ready /\ manager.status # "connected"
  /\ j \notin waiting
  /\ manager' = [Status(manager, "reconnecting") EXCEPT !.present = FALSE]
  /\ JoinAsked(j)
  /\ UNCHANGED <<queue, handling, teardown, stream, life, restore, owned, relay, closed,
                 channel, offered, waived, over>>

Resume(j) == ~socket.channel /\ JoinAndSettle(j)

EnsureChannelJoined(j) == ~Joined /\ JoinAndSettle(j)

Frames(kind) == [i \in 1 .. Len(relay.buffer) |-> [kind |-> kind, n |-> relay.buffer[i]]]
Marker(kind) == <<[kind |-> kind, n |-> 0]>>

Enqueued(kind) == Frames("buffered") \o Marker(kind)

\* Each of the k calls that share the answer enqueues the frames it carries.
Copies(k) ==
  LET once == Enqueued("joined")
  IN  [i \in 1 .. k * Len(once) |-> once[((i - 1) % Len(once)) + 1]]

\* The relay hands the buffered frames over, once, with its answer.
HandedOver == relay' = [relay EXCEPT !.member = TRUE, !.buffer = <<>>]

Answerable(kind) ==
  /\ socket.attempt = kind
  /\ Len(queue) <= MaxQueue
  /\ socket' = [socket EXCEPT !.attempt = "none"]

\* The calls of joinAndSettle() and a retirement have their JoinResult.  The
\* retirement looks at no frame of it.
CallsJoined ==
  /\ Answerable("call")
  /\ channel \notin closed /\ life.pc # "pairing"
  /\ HandedOver
  /\ queue' = queue \o Copies(Cardinality(Callers))
  /\ manager' = [manager EXCEPT !.present = @ \/ (Callers # {} /\ relay.wallet)]
  /\ stream' = [stream EXCEPT !.gap = @ \/ (Callers = {} /\ relay.buffer # <<>>)]
  /\ life' = IF Lifecycle \in waiting THEN [life EXCEPT !.pc = "flushing"] ELSE life
  /\ waiting' = {}
  /\ UNCHANGED <<handling, teardown, restore, owned, closed, channel, offered, waived, over>>

\* A tombstone ends the session; a retirement has nothing left to close.
CallsTerminated ==
  /\ socket.attempt = "call" /\ channel \in closed
  /\ IF Callers = {}
       THEN /\ socket' = [socket EXCEPT !.attempt = "none"]
            /\ waiting' = {}
            /\ life' = [life EXCEPT !.pc = "ending", !.confirmed = TRUE]
            /\ UNCHANGED <<manager, queue, handling, teardown, stream, restore, owned,
                           relay, closed, channel, offered, waived, over>>
       ELSE SessionEnds(IF Lifecycle \in waiting
                          THEN [life EXCEPT !.pc = "ending", !.confirmed = TRUE]
                          ELSE life)

\* The socket's own re-join: handleAutoReconnected()
AutoRejoined ==
  /\ Answerable("auto")
  /\ channel \notin closed
  /\ HandedOver
  /\ IF manager.keys = "none"
       THEN /\ stream' = [stream EXCEPT !.gap = @ \/ relay.buffer # <<>>]
            /\ UNCHANGED <<queue, manager>>
       ELSE /\ queue' = queue \o Enqueued("rejoined")
            /\ manager' = [manager EXCEPT !.present = relay.wallet]
            /\ UNCHANGED stream
  /\ UNCHANGED <<waiting, handling, teardown, life, restore, owned, closed, channel,
                 offered, waived, over>>

AutoRejoinTerminated ==
  /\ socket.attempt = "auto" /\ channel \in closed
  /\ IF manager.keys = "none"
       THEN /\ socket' = [socket EXCEPT !.attempt = "none"]
            /\ UNCHANGED <<manager, waiting, queue, handling, teardown, stream, life, restore,
                           owned, relay, closed, channel, offered, waived, over>>
       ELSE SessionTerminated

Connected(m) == [Status(m, "connected") EXCEPT !.probe = FALSE]

AtHead(kind) == queue # <<>> /\ handling = "no" /\ Head(queue).kind = kind

Settled == UNCHANGED <<socket, waiting, handling, teardown, stream, life, restore, owned,
                       relay, closed, channel, offered, waived, over>>

\* A call of joinAndSettle() resumes after the frames it enqueued.
JoinSettles ==
  /\ AtHead("joined")
  /\ queue' = Tail(queue)
  /\ manager' = IF Ready /\ manager.present THEN Connected(manager)
                ELSE [Status(manager, "waiting") EXCEPT !.probe = TRUE]
  /\ Settled

\* Mutant: the probe of an earlier join is not stopped.
RejoinKeepsProbe ==
  /\ AtHead("rejoined")
  /\ queue' = Tail(queue)
  /\ manager' = IF Ready /\ manager.present THEN Status(manager, "connected")
                ELSE [Status(manager, "waiting") EXCEPT !.probe = @ \/ Ready]
  /\ Settled

\* handleAutoReconnected() resumes.  Only a session is probed, never a pairing
\* that nobody has scanned yet.
RejoinSettles ==
  /\ AtHead("rejoined")
  /\ queue' = Tail(queue)
  /\ manager' = IF Ready /\ manager.present THEN Connected(manager)
                ELSE [Status(manager, "waiting") EXCEPT !.probe = @ \/ Ready]
  /\ Settled

\* The probe's timer: the wallet has not come back.
ProbeFires ==
  /\ manager.probe
  /\ IF manager.present
       THEN /\ manager' = [manager EXCEPT !.probe = FALSE]
            /\ UNCHANGED <<socket, waiting, relay, life>>
       ELSE /\ manager' = [Status(manager, "disconnected") EXCEPT !.probe = FALSE]
            /\ SocketDropped
            /\ life' = LifeRejected
  /\ UNCHANGED <<queue, handling, teardown, stream, restore, owned, closed, channel,
                 offered, waived, over>>

-----------------------------------------------------------------------------
(* reconnectNow() *)

RestoreBegins ==
  /\ restore.pc = "idle"
  /\ manager.pend /\ ~Ready
  /\ restore' = [pc |-> "owning", current |-> TRUE]
  /\ UNCHANGED <<manager, socket, waiting, queue, handling, teardown, stream, life, owned,
                 relay, closed, channel, offered, waived, over>>

RestoreRefused ==
  /\ restore.pc = "owning" /\ ~owned
  /\ restore' = NoRestore
  /\ manager' = Status(manager, "disconnected")
  /\ UNCHANGED <<socket, waiting, queue, handling, teardown, stream, life, owned, relay,
                 closed, channel, offered, waived, over>>

\* A restore that was overtaken leaves the lock to whoever overtook it.
RestoreOvertaken ==
  /\ restore.pc = "owning" /\ ~restore.current
  /\ restore' = NoRestore
  /\ owned' = TRUE
  /\ UNCHANGED <<manager, socket, waiting, queue, handling, teardown, stream, life, relay,
                 closed, channel, offered, waived, over>>

\* Else the record is read again.
RecordRead ==
  /\ restore.pc = "owning" /\ restore.current
  /\ restore' = [restore EXCEPT !.pc = "hydrating"]
  /\ owned' = TRUE
  /\ manager' = [Status(manager, "reconnecting") EXCEPT !.present = FALSE]
  /\ queue' = <<>> /\ handling' = "no" /\ teardown' = FALSE
  /\ stream' = [stream EXCEPT !.fails = 0]
  /\ waiting' = waiting \cap {Lifecycle}
  /\ life' = [life EXCEPT !.current = FALSE]
  /\ UNCHANGED <<socket, relay, closed, channel, offered, waived, over>>

RecordGone ==
  /\ restore.pc = "owning" /\ restore.current
  /\ restore' = [restore EXCEPT !.pc = "releasing"]
  /\ owned' = FALSE
  /\ manager' = [manager EXCEPT !.pend = FALSE]
  /\ waived' = waived \cup {channel}
  /\ UNCHANGED <<socket, waiting, queue, handling, teardown, stream, life, relay, closed,
                 channel, offered, over>>

\* Mutant: a hydration that was overtaken installs its keys all the same.
HydratesLate(j) ==
  /\ restore.pc = "hydrating"
  /\ j \notin waiting
  /\ restore' = NoRestore
  /\ manager' = [manager EXCEPT !.keys = "ready", !.pend = FALSE]
  /\ JoinAsked(j)
  /\ UNCHANGED <<queue, handling, teardown, stream, life, owned, relay, closed, channel,
                 offered, waived, over>>

Hydrates(j) ==
  /\ restore.pc = "hydrating" /\ restore.current
  /\ j \notin waiting
  /\ restore' = NoRestore
  /\ manager' = [manager EXCEPT !.keys = "ready", !.pend = FALSE]
  /\ JoinAsked(j)
  /\ UNCHANGED <<queue, handling, teardown, stream, life, owned, relay, closed, channel,
                 offered, waived, over>>

HydrationOvertaken ==
  /\ restore.pc = "hydrating" /\ ~restore.current
  /\ restore' = NoRestore
  /\ UNCHANGED <<manager, socket, waiting, queue, handling, teardown, stream, life, owned,
                 relay, closed, channel, offered, waived, over>>

HydrationFails ==
  /\ restore.pc = "hydrating" /\ restore.current
  /\ restore' = [restore EXCEPT !.pc = "releasing"]
  /\ manager' = [manager EXCEPT !.keys = "none", !.pend = FALSE]
  /\ owned' = FALSE
  /\ waived' = waived \cup {channel}
  /\ UNCHANGED <<socket, waiting, queue, handling, teardown, stream, life, relay, closed,
                 channel, offered, over>>

\* After the release the status is set, whatever else has happened since.
RestoreReleased ==
  /\ restore.pc = "releasing"
  /\ restore' = NoRestore
  /\ manager' = Status(manager, "disconnected")
  /\ UNCHANGED <<socket, waiting, queue, handling, teardown, stream, life, owned, relay,
                 closed, channel, offered, waived, over>>

-----------------------------------------------------------------------------
(* Events of the socket *)

\* A join that cannot be had is the end of a pairing: no ghost stays behind.
PairingFails ==
  /\ manager' = [manager EXCEPT !.status = "disconnected", !.keys = "none"]
  /\ WorkRetired
  /\ ChannelForgotten
  /\ life' = NoCall
  /\ owned' = FALSE
  /\ UNCHANGED <<closed, channel, offered, waived>>

\* The connect handler
SocketUp ==
  /\ socket.state = "down"
  /\ socket' = [socket EXCEPT !.state = "up",
                  !.attempt = IF ~socket.channel THEN "none"
                              ELSE IF waiting # {} THEN "call" ELSE "auto"]
  /\ UNCHANGED <<manager, waiting, queue, handling, teardown, stream, life, restore, owned,
                 relay, closed, channel, offered, waived, over>>

\* The frames of an answer that is lost are lost.
AnswerLost ==
  \/ /\ relay' = [relay EXCEPT !.member = FALSE]
     /\ UNCHANGED stream
  \/ /\ socket.attempt # "none" /\ relay.buffer # <<>>
     /\ relay' = [relay EXCEPT !.member = FALSE, !.buffer = <<>>]
     /\ stream' = [stream EXCEPT !.gap = TRUE]

\* The 'disconnected' listener, then the rejected joins
SocketDrops ==
  /\ socket.state = "up"
  /\ IF life.pc = "pairing"
       THEN PairingFails
       ELSE /\ LET dropped == [manager EXCEPT !.present = FALSE]
               IN  manager' = Rejected(
                     IF Ready /\ manager.status \in {"connected", "reconnecting", "waiting"}
                       THEN Status(dropped, "reconnecting") ELSE dropped)
            /\ socket' = [socket EXCEPT !.state = "down", !.attempt = "none"]
            /\ waiting' = {}
            /\ life' = LifeRejected
            /\ AnswerLost
            /\ UNCHANGED <<queue, handling, teardown, restore, owned, closed, channel,
                           offered, waived, over>>

\* A refusal, an invalid answer or none in time: the channel is left.
JoinFails ==
  /\ socket.attempt # "none"
  /\ IF life.pc = "pairing"
       THEN PairingFails
       ELSE /\ socket' = [socket EXCEPT !.channel = FALSE, !.attempt = "none"]
            /\ waiting' = {}
            /\ manager' = Rejected(manager)
            /\ life' = LifeRejected
            /\ AnswerLost
            /\ UNCHANGED <<queue, handling, teardown, restore, owned, closed, channel,
                           offered, waived, over>>

\* The relay says that the channel has a dApp already: another is tried, once.
JoinConflicts ==
  /\ socket.attempt = "call" /\ life.pc = "pairing"
  /\ life.retry /\ channel < MaxChannel
  /\ life' = [life EXCEPT !.pc = "issuing", !.retry = FALSE]
  /\ waiting' = {}
  /\ socket' = [socket EXCEPT !.channel = FALSE, !.attempt = "none"]
  /\ UNCHANGED <<manager, queue, handling, teardown, stream, restore, owned, relay, closed,
                 channel, offered, waived, over>>

\* Mutant: a join waits for the transport as long as it takes.
NoWatchdog == socket.state = "none" /\ waiting # {} /\ UNCHANGED vars

\* The watchdog of a join that waits for the transport
Watchdog ==
  /\ socket.state = "down" /\ waiting # {}
  /\ IF life.pc = "pairing"
       THEN PairingFails
       ELSE /\ SocketDropped
            /\ manager' = Rejected(manager)
            /\ life' = LifeRejected
            /\ UNCHANGED <<queue, handling, teardown, stream, restore, owned, closed,
                           channel, offered, waived, over>>

-----------------------------------------------------------------------------
(* The wallet and the relay *)

Elsewhere ==
  UNCHANGED <<socket, waiting, handling, teardown, life, restore, owned, channel, offered,
              waived, over>>

WalletJoins ==
  /\ channel \in offered \ closed /\ ~relay.wallet /\ ~over
  /\ relay' = [relay EXCEPT !.wallet = TRUE]
  /\ manager' = IF ~relay.member THEN manager
                ELSE [manager EXCEPT !.present = TRUE, !.probe = FALSE,
                        !.status = IF Ready THEN "connected" ELSE @]
  /\ UNCHANGED <<queue, stream, closed>>
  /\ Elsewhere

WalletLeaves ==
  /\ relay.wallet
  /\ relay' = [relay EXCEPT !.wallet = FALSE]
  /\ manager' = IF ~relay.member THEN manager
                ELSE [manager EXCEPT !.present = FALSE,
                        !.status = IF Ready /\ @ \in {"connected", "reconnecting"}
                                     THEN "waiting" ELSE @]
  /\ UNCHANGED <<queue, stream, closed>>
  /\ Elsewhere

\* 'close' is final, for a dApp that is there; another finds the tombstone.
WalletCloses ==
  /\ relay.wallet
  /\ closed' = closed \cup {channel}
  /\ IF relay.member
       THEN /\ manager' = NoSession
            /\ WorkRetired
            /\ ChannelForgotten
            /\ life' = [LifeRejected EXCEPT !.current = FALSE]
            /\ owned' = FALSE
       ELSE /\ relay' = FreshRelay
            /\ UNCHANGED <<manager, queue, handling, teardown, restore, socket, waiting,
                           stream, life, owned, over>>
  /\ UNCHANGED <<channel, offered, waived>>

\* The first frame of a pairing, number 0, is the SYNACK.  A frame is passed
\* on, kept for the dApp, or lost with the transport or the buffer's lifetime.
WalletSends ==
  /\ relay.wallet /\ channel \notin closed
  /\ stream.next <= MaxFrames
  /\ stream.next = 0 \/ relay.paired
  /\ \/ /\ relay.member /\ manager.keys # "none"
        /\ queue' = Append(queue, [kind |-> "live", n |-> stream.next])
        /\ stream' = [stream EXCEPT !.next = @ + 1]
        /\ UNCHANGED relay
     \/ /\ ~relay.member
        /\ relay' = [relay EXCEPT !.buffer = Append(@, stream.next)]
        /\ stream' = [stream EXCEPT !.next = @ + 1]
        /\ UNCHANGED queue
     \/ /\ stream' = [stream EXCEPT !.next = @ + 1, !.gap = TRUE]
        /\ UNCHANGED <<queue, relay>>
  /\ UNCHANGED <<manager, closed>>
  /\ Elsewhere

-----------------------------------------------------------------------------
(* Frames and sends *)

\* handleRelayMessage() takes any frame as a sign of the wallet.
FrameBegins ==
  /\ AtHead("live") \/ AtHead("buffered")
  /\ handling' = "opening"
  /\ manager' = [manager EXCEPT !.present = TRUE, !.probe = FALSE,
                   !.status = IF Head(queue).n = 0 THEN "key_exchange" ELSE @]
  /\ UNCHANGED <<socket, waiting, queue, teardown, stream, life, restore, owned, relay,
                 closed, channel, offered, waived, over>>

\* A live frame that was handled, well or not, settles the connection.
AfterFrame(m) ==
  /\ queue' = Tail(queue)
  /\ handling' = "no"
  /\ manager' = IF Head(queue).kind = "live" /\ m.keys = "ready" /\ m.present
                  THEN Status(m, "connected") ELSE m

Opening(n) == handling = "opening" /\ n = Head(queue).n

\* keys_exchanged: the relay has confirmed the ACK.
SynAckHandled ==
  /\ Opening(0) /\ manager.keys = "pairing" /\ socket.state = "up"
  /\ AfterFrame([Connected(manager) EXCEPT !.keys = "ready", !.present = TRUE])
  /\ relay' = [relay EXCEPT !.paired = TRUE]
  /\ UNCHANGED <<socket, waiting, teardown, stream, life, restore, owned, closed, channel,
                 offered, waived, over>>

\* A ciphertext opens only under the number that is due.
FrameHandled(n) ==
  /\ Opening(n) /\ n # 0 /\ Ready
  /\ IF n = stream.recv + 1
       THEN stream' = [stream EXCEPT !.recv = n, !.fails = 0]
       ELSE /\ stream.fails + 1 < MaxFailures
            /\ stream' = [stream EXCEPT !.fails = @ + 1]
  /\ AfterFrame(manager)
  /\ UNCHANGED <<socket, waiting, teardown, life, restore, owned, relay, closed, channel,
                 offered, waived, over>>

\* What a handler closes the channel for: a SYNACK that fails or whose ACK is
\* not confirmed, an encrypted TERMINATE, the last bad frame that is borne.
Fatal(n, s) ==
  /\ Opening(n)
  /\ \/ n = 0 /\ s = stream
     \/ n = stream.recv + 1 /\ s = [stream EXCEPT !.recv = n, !.fails = 0]
     \/ /\ n # 0 /\ n # stream.recv + 1 /\ stream.fails + 1 = MaxFailures
        /\ s = [stream EXCEPT !.fails = MaxFailures]

HandlerTeardown(n) ==
  /\ \E s \in {stream, [stream EXCEPT !.recv = n, !.fails = 0],
               [stream EXCEPT !.fails = MaxFailures]} :
       Fatal(n, s) /\ stream' = s
  /\ handling' = "closing"
  /\ CloseChannel
  /\ manager' = Rejected(manager)
  /\ life' = LifeRejected
  /\ UNCHANGED <<queue, teardown, restore, owned, channel, offered, waived, over>>

\* teardownPersistenceFailedSession(): a send that failed cannot be repeated.
SendFails ==
  /\ Ready /\ ~teardown
  /\ teardown' = TRUE
  /\ CloseChannel
  /\ manager' = Rejected(manager)
  /\ life' = LifeRejected
  /\ UNCHANGED <<queue, handling, stream, restore, owned, channel, offered, waived, over>>

TeardownEnds ==
  /\ handling = "closing" \/ teardown
  /\ SessionTerminated

-----------------------------------------------------------------------------
(* getConnectionURI(), resetForNewChannel() and disconnect(), one at a time *)
(* (lifecycleTransition of the provider)                                   *)

LifecycleOnly ==
  UNCHANGED <<queue, handling, teardown, stream, restore, relay, closed, channel, offered,
              waived>>

\* What is still to be retired: a joined, a restorable or a paired channel
Retirable == socket.channel \/ manager.pend \/ manager.keys # "none"

\* prepareRelayChannelForRetirement(): only a participant can close a channel,
\* so a cold session is joined first.
RetireBegins(call) ==
  /\ manager' = [manager EXCEPT !.probe = FALSE, !.present = FALSE]
  /\ IF Retirable /\ ~Joined
       THEN /\ life' = [call EXCEPT !.pc = "joining", !.had = TRUE]
            /\ JoinAsked(Lifecycle)
       ELSE /\ life' = [call EXCEPT !.pc = IF Retirable THEN "flushing" ELSE "ending",
                                    !.had = Retirable]
            /\ UNCHANGED <<socket, waiting>>

\* getConnectionURI() waits for the lock.
Asking == [NoCall EXCEPT !.pc = "owning", !.retry = TRUE, !.current = TRUE]

GetConnectionURI ==
  /\ life.pc = "idle" /\ channel < MaxChannel
  /\ life' = Asking
  /\ UNCHANGED <<manager, socket, waiting, owned, over>>
  /\ LifecycleOnly

\* newConnection() resets first and then asks for the URI.
NewConnection ==
  /\ life.pc = "idle" /\ channel < MaxChannel
  /\ RetireBegins([NoCall EXCEPT !.op = "fresh"])
  /\ UNCHANGED <<owned, over>>
  /\ LifecycleOnly

Disconnect ==
  /\ life.pc = "idle"
  /\ RetireBegins([NoCall EXCEPT !.op = "disconnect"])
  /\ UNCHANGED <<owned, over>>
  /\ LifecycleOnly

\* A request for the lock waits for a release that is under way.
LockDecided == life.pc = "owning" /\ restore.pc # "releasing"

LockRefused ==
  /\ LockDecided
  /\ ~owned
  /\ life' = NoCall
  /\ UNCHANGED <<manager, socket, waiting, owned, over>>
  /\ LifecycleOnly

\* Mutant: a new URI is issued over a channel that is not retired.
LockGrantedForIssue ==
  /\ LockDecided
  /\ owned' = TRUE
  /\ life' = IF life.current THEN [life EXCEPT !.pc = "issuing"] ELSE NoCall
  /\ UNCHANGED <<manager, socket, waiting, over>>
  /\ LifecycleOnly

LockGranted ==
  /\ LockDecided
  /\ owned' = TRUE
  /\ IF life.current /\ Retirable
       THEN RetireBegins(NoCall)
       ELSE /\ life' = IF life.current THEN [life EXCEPT !.pc = "issuing", !.current = FALSE]
                       ELSE NoCall
            /\ UNCHANGED <<manager, socket, waiting>>
  /\ UNCHANGED over
  /\ LifecycleOnly

\* flushTerminate() has sent TERMINATE, or given up; then closeChannel().
FlushEnds ==
  /\ life.pc = "flushing"
  /\ life' = [life EXCEPT !.pc = "closing"]
  /\ CloseChannel
  /\ manager' = Rejected(manager)
  /\ UNCHANGED <<queue, handling, teardown, stream, restore, owned, channel, offered,
                 waived, over>>

CloseEnds ==
  /\ life.pc = "closing"
  /\ \E confirmed \in CloseAnswers :
       life' = [life EXCEPT !.pc = "ending", !.confirmed = confirmed]
  /\ UNCHANGED <<manager, socket, waiting, owned, over>>
  /\ LifecycleOnly

Unconfirmed == life.had /\ ~life.confirmed

\* "Unable to retire the relay channel": nothing is given up.
RetireFails ==
  /\ life.pc = "ending" /\ Unconfirmed
  /\ life' = NoCall
  /\ UNCHANGED <<manager, socket, waiting, owned, over>>
  /\ LifecycleOnly

\* Mutant: disconnect() leaves the record that a later resume() restores.
RetireKeepsRecord ==
  /\ life.pc = "ending" /\ ~Unconfirmed
  /\ WorkRetired
  /\ ChannelForgotten
  /\ manager' = [manager EXCEPT !.keys = "none",
                   !.status = IF life.op = "disconnect" THEN @ ELSE "disconnected"]
  /\ IF life.op = "disconnect"
       THEN owned' = FALSE /\ life' = [NoCall EXCEPT !.pc = "releasing"]
       ELSE /\ UNCHANGED owned
            /\ life' = IF life.op = "uri" THEN [NoCall EXCEPT !.pc = "issuing", !.retry = TRUE]
                       ELSE Asking
  /\ UNCHANGED <<closed, channel, offered, waived>>

RetireEnds ==
  /\ life.pc = "ending" /\ ~Unconfirmed
  /\ WorkRetired
  /\ ChannelForgotten
  /\ manager' = [manager EXCEPT !.keys = "none", !.pend = FALSE,
                   !.status = IF life.op = "disconnect" THEN @ ELSE "disconnected"]
  /\ IF life.op = "disconnect"
       THEN owned' = FALSE /\ life' = [NoCall EXCEPT !.pc = "releasing"]
       ELSE /\ UNCHANGED owned
            /\ life' = IF life.op = "uri" THEN [NoCall EXCEPT !.pc = "issuing", !.retry = TRUE]
                       ELSE Asking
  /\ UNCHANGED <<closed, channel, offered, waived>>

DisconnectEnds ==
  /\ life.pc = "releasing"
  /\ life' = NoCall
  /\ manager' = Status(manager, "disconnected")
  /\ UNCHANGED <<socket, waiting, owned, over>>
  /\ LifecycleOnly

\* A new socket, a new key exchange, a new channel, and its first join
Issue ==
  /\ life.pc = "issuing"
  /\ queue' = <<>> /\ handling' = "no" /\ teardown' = FALSE
  /\ restore' = [restore EXCEPT !.current = FALSE]
  /\ manager' = [NoSession EXCEPT !.status = "connecting", !.keys = "pairing"]
  /\ socket' = [NoSocket EXCEPT !.state = "down", !.channel = TRUE]
  /\ waiting' = {Lifecycle}
  /\ life' = [life EXCEPT !.pc = "pairing", !.current = TRUE]
  /\ channel' = channel + 1
  /\ relay' = FreshRelay /\ stream' = FreshStream
  /\ over' = FALSE
  /\ UNCHANGED <<owned, closed, offered, waived>>

PairingJoined ==
  /\ socket.attempt = "call" /\ life.pc = "pairing"
  /\ socket' = [socket EXCEPT !.attempt = "none"]
  /\ waiting' = {}
  /\ relay' = [relay EXCEPT !.member = TRUE]
  /\ manager' = Status(manager, "waiting")
  /\ life' = [life EXCEPT !.pc = "encoding"]
  /\ UNCHANGED <<queue, handling, teardown, stream, restore, owned, closed, channel,
                 offered, waived, over>>

Encoded ==
  /\ life.pc = "encoding"
  /\ life' = NoCall
  /\ offered' = IF life.current THEN offered \cup {channel} ELSE offered
  /\ UNCHANGED <<manager, socket, waiting, queue, handling, teardown, stream, restore,
                 owned, relay, closed, channel, waived, over>>

EncodingFails ==
  /\ life.pc = "encoding" /\ life.current
  /\ PairingFails

-----------------------------------------------------------------------------
Application ==
  \/ \E j \in Joins : Resume(j) \/ EnsureChannelJoined(j)
  \/ RestoreBegins
  \/ GetConnectionURI
  \/ NewConnection
  \/ Disconnect
  \/ SendFails

Restoring ==
  \/ RestoreRefused
  \/ RestoreOvertaken
  \/ RecordRead
  \/ RecordGone
  \/ \E j \in Joins : Hydrates(j)
  \/ HydrationOvertaken
  \/ HydrationFails
  \/ RestoreReleased

JoinsEnd ==
  \/ CallsJoined
  \/ CallsTerminated
  \/ AutoRejoined
  \/ AutoRejoinTerminated
  \/ JoinSettles
  \/ RejoinSettles
  \/ JoinFails
  \/ JoinConflicts
  \/ Watchdog
  \/ ProbeFires

Receiving ==
  \/ FrameBegins
  \/ SynAckHandled
  \/ \E n \in 1 .. MaxFrames : FrameHandled(n)
  \/ \E n \in 0 .. MaxFrames : HandlerTeardown(n)
  \/ TeardownEnds

LifecycleSteps ==
  \/ LockRefused
  \/ LockGranted
  \/ FlushEnds
  \/ CloseEnds
  \/ RetireFails
  \/ RetireEnds
  \/ DisconnectEnds
  \/ Issue
  \/ PairingJoined
  \/ Encoded
  \/ EncodingFails

Environment ==
  \/ SocketUp
  \/ SocketDrops
  \/ WalletJoins
  \/ WalletLeaves
  \/ WalletCloses
  \/ WalletSends

Next ==
  \/ Application
  \/ Restoring
  \/ JoinsEnd
  \/ Receiving
  \/ LifecycleSteps
  \/ Environment

Spec == Init /\ [][Next]_vars

\* Timers run out, the browser decides about its lock and promise reactions
\* run.  Nothing is asked of the relay, the wallet or the transport.
Fairness ==
  /\ WF_vars(Restoring)
  /\ WF_vars(JoinFails)
  /\ WF_vars(Watchdog)
  /\ WF_vars(LifecycleSteps)

FairSpec == Spec /\ Fairness

-----------------------------------------------------------------------------
(* Properties *)

\* The status that the application is shown fits the session it stands for,
\* but while the end of a session waits for the release of the lock.
StatusHasSession ==
  life.pc # "releasing" /\ restore.pc # "releasing" =>
    /\ manager.status = "connected" => Ready
    /\ manager.status \in {"waiting", "key_exchange"} => manager.keys # "none"
    /\ manager.status = "connecting" => manager.keys = "pairing"
    /\ manager.status = "reconnecting" => Ready \/ restore.pc = "hydrating"

\* A pairing whose URI was handed out is replaced only when its channel is a
\* tombstone, or its session had ended on its own before ("retire any joined,
\* paired, or restorable channel", getConnectionURI()).
OldChannelsRetired == \A c \in offered : c < channel => c \in closed \cup waived

\* After the end of a session no event, timer or call of resume() joins a
\* channel again, until the application asks for a new pairing.
EndedStaysEnded ==
  over => /\ socket = NoSocket /\ ~relay.member
          /\ manager.status = "disconnected" \/ life.pc = "releasing"

JoinQueued == \E i \in DOMAIN queue : queue[i].kind \in {"joined", "rejoined"}

\* The reconnect probe never runs against a pairing that waits for its scan, nor
\* against a wallet that has shown itself: not while a frame of its is handled or
\* CONNECTED is shown, and beside a known presence only until the join whose
\* roster told it has settled, whatever joins, drops, frames and roster events
\* follow each other meanwhile.
ProbeIsForTheAbsent ==
  manager.probe =>
    /\ manager.keys # "pairing"
    /\ handling # "opening" /\ manager.status # "connected"
    /\ Ready /\ manager.present => JoinQueued

\* A stream that has lost no frame is not given up: "Two in a row cannot happen
\* on a healthy stream" (MAX_DECRYPT_FAILURES).
HealthyStreamSurvives == stream.fails = MaxFailures => stream.gap

\* getConnectionURI(), newConnection() and disconnect() end, whatever the relay,
\* the wallet and the other calls do.
CallsEnd == life.pc # "idle" ~> life.pc = "idle"
=============================================================================
