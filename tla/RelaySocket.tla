----------------------------- MODULE RelaySocket -----------------------------
(***************************************************************************)
(* src/SocketClient.ts: joins, sends and the closing of a channel over a   *)
(* Socket.IO transport that comes and goes, and the relay behind it.       *)
(*                                                                         *)
(* A join is either immediate (the transport is up) or deferred: then the  *)
(* connect handler makes the attempt and settles pendingJoin.  An attempt  *)
(* made by the connect handler is answered in a promise reaction.  Where   *)
(* calls of the application run between the settling and the reaction, the *)
(* attempt is "failing"; no event and no timer can come in between.        *)
(***************************************************************************)
EXTENDS Naturals, Sequences, FiniteSets

CONSTANTS
  Channels,
  Callers,     \* concurrent joinChannel() calls
  Attempts,    \* bound on join_channel emits that may still be answered
  Sends,       \* bound on sendMessage() calls that may still be answered
  None,
  MaxUnanswered, \* bound on those of all kinds when a call emits another
  MaxPipe      \* bound on packets on their way when a call emits another

ASSUME RelaySocketAssumption ==
  /\ None \notin Channels \cup Callers \cup Attempts \cup Sends
  /\ Attempts \cap Sends = {} /\ "close" \notin Attempts \cup Sends \cup {None}
  /\ MaxUnanswered \in Nat /\ MaxPipe \in Nat

VARIABLES
  socket,      \* "none", or the state of the Socket.IO socket
  channelId,
  pendingJoin, \* the deferred join and the callers that share its promise
  attempt,     \* the joinChannelNow() promises
  call,        \* joinChannel() calls
  send,        \* sendMessage() calls
  closing,     \* the closeChannel() call
  \* the relay and the way to it
  pipe,        \* packets of this connection that the relay has not read
  acks,        \* acknowledgements on their way back
  member,      \* channels this connection has joined
  closed,      \* tombstones
  \* history
  wanted,      \* the channel last asked for and not given up
  handed       \* how many ways the latest JoinResult was handed over

client == <<socket, channelId, pendingJoin, attempt, call, send, closing>>
relay == <<pipe, acks, member, closed>>
vars == <<client, relay, wanted, handed>>

NoJoin == [c |-> None, waiters |-> {}]

FreeAttempt == [pc |-> "free", kind |-> "direct", c |-> None, by |-> None, own |-> FALSE]

\* Calls of which nothing is known but that they failed, or were never made
NoCall == [pc |-> "idle", c |-> None, joined |-> FALSE, accepted |-> FALSE]
NoSend == [pc |-> "idle", sent |-> FALSE, routed |-> FALSE]
NoClosing == [pc |-> "idle", c |-> None, confirmed |-> FALSE]

AttemptType ==
  [pc : {"free", "flying", "failing"}, kind : {"direct", "deferred", "auto"},
   c : Channels \cup {None}, by : Callers \cup {None}, own : BOOLEAN]

CallType ==
  [pc : {"idle", "waiting"}, c : Channels \cup {None}, joined : BOOLEAN, accepted : BOOLEAN]

SendType == [pc : {"idle", "flying"}, sent : BOOLEAN, routed : BOOLEAN]

ClosingType == [pc : {"idle", "flying"}, c : Channels \cup {None}, confirmed : BOOLEAN]

\* What names the callback of each kind of packet
Packets ==
  [ev : {"join"}, c : Channels, id : Attempts]
    \cup [ev : {"leave"}, c : Channels \cup {None}, id : {None}]
    \cup [ev : {"close"}, c : Channels, id : {"close"}]
    \cup [ev : {"message"}, c : {None}, id : Sends]

TypeOK ==
  /\ socket \in {"none", "stopped", "down", "up"}
  /\ channelId \in Channels \cup {None}
  /\ pendingJoin \in [c : Channels \cup {None}, waiters : SUBSET Callers]
  /\ attempt \in [Attempts -> AttemptType]
  /\ call \in [Callers -> CallType]
  /\ send \in [Sends -> SendType]
  /\ closing \in ClosingType
  /\ pipe \in Seq(Packets)
  /\ acks \subseteq [id : Attempts \cup Sends \cup {"close"}, reply : {"ok", "bad"}]
  /\ member \subseteq Channels
  /\ closed \subseteq Channels
  /\ wanted \in Channels \cup {None}
  /\ handed \in 0 .. 2

Init ==
  /\ socket = "none"
  /\ channelId = None
  /\ pendingJoin = NoJoin
  /\ attempt = [a \in Attempts |-> FreeAttempt]
  /\ call = [q \in Callers |-> NoCall]
  /\ send = [s \in Sends |-> NoSend]
  /\ closing = NoClosing
  /\ pipe = <<>>
  /\ acks = {}
  /\ member = {}
  /\ closed = {}
  /\ wanted = None
  /\ handed = 1

-----------------------------------------------------------------------------
Flying == {a \in Attempts : attempt[a].pc = "flying"}
DirectFlying == {a \in Flying : attempt[a].kind = "direct"}

\* A reaction is due before the next event or timer.
ReactionDue == \E a \in Attempts : attempt[a].pc = "failing"

\* The callback of an emit stays registered until it is answered or the
\* connection is gone.
Outstanding(id) ==
  \/ \E i \in 1 .. Len(pipe) : pipe[i].id = id
  \/ \E k \in acks : k.id = id

Usable(a) == attempt[a].pc = "free" /\ ~Outstanding(a)

Packet(ev, c, id) == [ev |-> ev, c |-> c, id |-> id]

Unanswered ==
  {a \in Attempts : ~Usable(a)}
    \cup {s \in Sends : send[s].pc = "flying" \/ Outstanding(s)}
    \cup {e \in {"close"} : closing.pc = "flying" \/ Outstanding(e)}

Room == Len(pipe) < MaxPipe /\ Cardinality(Unanswered) < MaxUnanswered

\* The promises of these callers settle.
Told(qs, ok) ==
  [q \in Callers |->
     IF q \notin qs THEN call[q]
     ELSE IF ok THEN [call[q] EXCEPT !.pc = "idle", !.joined = TRUE]
     ELSE NoCall]

\* A settled attempt: a late acknowledgement still finds its channel.
Settled(a) == [FreeAttempt EXCEPT !.c = attempt[a].c]

\* rejectPendingJoinAttempts(): a caller of an immediate join has its answer,
\* the connect handler's catch is still to run.
Rejected ==
  [a \in Attempts |->
     IF a \notin Flying THEN attempt[a]
     ELSE IF attempt[a].kind = "direct" THEN Settled(a)
     ELSE [attempt[a] EXCEPT !.pc = "failing"]]

\* rejectPendingSends()
SendsRejected ==
  [s \in Sends |-> IF send[s].pc = "flying" THEN NoSend ELSE send[s]]

\* The pending join and all attempts are rejected, as closeChannel(),
\* leaveChannel() and disconnect() begin.
RejectJoins ==
  /\ call' = Told(pendingJoin.waiters \cup {attempt[a].by : a \in DirectFlying}, FALSE)
  /\ pendingJoin' = NoJoin
  /\ attempt' = Rejected

\* settlePendingJoin() on behalf of attempt a
Settle(a, ok) ==
  IF pendingJoin.c = attempt[a].c
    THEN /\ call' = Told(pendingJoin.waiters, ok)
         /\ pendingJoin' = NoJoin
    ELSE UNCHANGED <<call, pendingJoin>>

\* The transport is gone, and with it whatever was on its way.
ConnectionGone ==
  /\ pipe' = <<>>
  /\ acks' = {}
  /\ member' = {}

-----------------------------------------------------------------------------
(* Calls of the application *)

\* connect(): a socket that exists is used again; one that the relay closed
\* retries from now on.
Connect ==
  /\ socket \in {"none", "stopped"}
  /\ socket' = "down"
  /\ UNCHANGED <<channelId, pendingJoin, attempt, call, send, closing, relay, wanted, handed>>

\* The head of joinChannel()
AskFor(q, c) ==
  /\ socket # "none"
  /\ call[q].pc = "idle"
  /\ channelId' = c
  /\ wanted' = c

Waiting(q, c, calls) ==
  [calls EXCEPT ![q] = [NoCall EXCEPT !.pc = "waiting", !.c = c]]

Fly(a, kind, c, q) ==
  attempt' = [attempt EXCEPT ![a] =
    [pc |-> "flying", kind |-> kind, c |-> c, by |-> q, own |-> TRUE]]

JoinImmediately(q, c, a) ==
  /\ AskFor(q, c)
  /\ socket = "up"
  /\ Usable(a) /\ Room
  /\ call' = Waiting(q, c, call)
  /\ Fly(a, "direct", c, q)
  /\ pipe' = Append(pipe, Packet("join", c, a))
  /\ UNCHANGED <<socket, pendingJoin, send, closing, acks, member, closed, handed>>

\* Mutant: a newer deferred join takes the place of an older one, unanswered.
JoinOverPending(q, c) ==
  /\ AskFor(q, c)
  /\ socket # "up"
  /\ pendingJoin' = [c |-> c, waiters |-> {q}]
  /\ call' = Waiting(q, c, call)
  /\ UNCHANGED <<socket, attempt, send, closing, relay, handed>>

\* A second call for the same channel shares the promise, one for another
\* channel supersedes it.
JoinLater(q, c) ==
  /\ AskFor(q, c)
  /\ socket # "up"
  /\ IF pendingJoin.c = c
       THEN /\ pendingJoin' = [pendingJoin EXCEPT !.waiters = @ \cup {q}]
            /\ call' = Waiting(q, c, call)
       ELSE /\ pendingJoin' = [c |-> c, waiters |-> {q}]
            /\ call' = Waiting(q, c, Told(pendingJoin.waiters, FALSE))
  /\ UNCHANGED <<socket, attempt, send, closing, relay, handed>>

SendMessage(s) ==
  /\ socket = "up"
  /\ send[s].pc = "idle" /\ ~Outstanding(s) /\ Room
  /\ send' = [send EXCEPT ![s] = [NoSend EXCEPT !.pc = "flying"]]
  /\ pipe' = Append(pipe, Packet("message", None, s))
  /\ UNCHANGED <<socket, channelId, pendingJoin, attempt, call, closing, acks, member,
                 closed, wanted, handed>>

\* Without a connection or a channel the answer is FALSE at once.
CloseChannel ==
  /\ socket # "none"
  /\ channelId' = None
  /\ wanted' = None
  /\ RejectJoins
  /\ IF socket = "up" /\ channelId # None
       THEN /\ closing.pc = "idle" /\ ~Outstanding("close") /\ Room
            /\ closing' = [NoClosing EXCEPT !.pc = "flying", !.c = channelId]
            /\ pipe' = Append(pipe, Packet("close", channelId, "close"))
       ELSE UNCHANGED <<closing, pipe>>
  /\ UNCHANGED <<socket, send, acks, member, closed, handed>>

\* Mutant: the channel is left but not forgotten.
LeaveAndRemember ==
  /\ socket # "none"
  /\ RejectJoins
  /\ IF socket = "up" /\ channelId # None
       THEN Room /\ pipe' = Append(pipe, Packet("leave", channelId, None))
       ELSE UNCHANGED pipe
  /\ wanted' = None
  /\ UNCHANGED <<socket, channelId, send, closing, acks, member, closed, handed>>

LeaveChannel ==
  /\ socket # "none"
  /\ RejectJoins
  /\ IF socket = "up" /\ channelId # None
       THEN Room /\ pipe' = Append(pipe, Packet("leave", channelId, None))
       ELSE UNCHANGED pipe
  /\ channelId' = None
  /\ wanted' = None
  /\ UNCHANGED <<socket, send, closing, acks, member, closed, handed>>

Disconnect ==
  /\ RejectJoins
  /\ channelId' = None
  /\ wanted' = None
  /\ send' = SendsRejected
  /\ socket' = "none"
  /\ ConnectionGone
  /\ UNCHANGED <<closing, closed, handed>>

-----------------------------------------------------------------------------
(* Events of the transport *)

\* The connect handler joins the channel again, for the caller of a deferred
\* join or on its own account.
TransportUp ==
  /\ socket = "down" /\ ~ReactionDue
  /\ socket' = "up"
  /\ IF channelId = None
       THEN UNCHANGED <<attempt, pipe>>
       ELSE \E a \in Attempts :
              /\ Usable(a)
              /\ Fly(a, IF pendingJoin.c = channelId THEN "deferred" ELSE "auto",
                     channelId, None)
              /\ pipe' = Append(pipe, Packet("join", channelId, a))
  /\ UNCHANGED <<channelId, pendingJoin, call, send, closing, acks, member, closed,
                 wanted, handed>>

\* The disconnect handler.  A socket that the relay closed does not retry.
TransportDown ==
  /\ socket = "up" /\ ~ReactionDue
  /\ socket' \in {"down", "stopped"}
  /\ call' = Told({attempt[a].by : a \in DirectFlying}, FALSE)
  /\ attempt' = Rejected
  /\ send' = SendsRejected
  /\ ConnectionGone
  /\ UNCHANGED <<channelId, pendingJoin, closing, closed, wanted, handed>>

\* The catch of the connect handler, for a rejected attempt.
Reaction(a) ==
  /\ attempt[a].pc = "failing"
  /\ Settle(a, FALSE)
  /\ attempt' = [attempt EXCEPT ![a] = Settled(a)]
  /\ UNCHANGED <<socket, channelId, send, closing, relay, wanted, handed>>

-----------------------------------------------------------------------------
(* Acknowledgements and timers *)

\* abandonJoin(): the leave goes out on the socket the attempt was made on, if
\* that one is alive.
Abandon(a, alive) ==
  IF channelId = attempt[a].c
    THEN /\ channelId' = None
         /\ pipe' = IF alive
                      THEN Append(pipe, Packet("leave", attempt[a].c, None)) ELSE pipe
    ELSE UNCHANGED <<channelId, pipe>>

\* finish() of a flying attempt, and the reaction that follows at once
Finish(a, ok) ==
  /\ attempt' = [attempt EXCEPT ![a] = Settled(a)]
  /\ IF attempt[a].kind = "direct"
       THEN call' = Told({attempt[a].by}, ok) /\ UNCHANGED pendingJoin
       ELSE Settle(a, ok)

\* Mutant: "reconnected" is emitted for every join of the connect handler.
ConsumersTwice(a) ==
  (IF attempt[a].kind = "direct" \/ pendingJoin.c = attempt[a].c THEN 1 ELSE 0)
  + (IF attempt[a].kind # "direct" THEN 1 ELSE 0)

\* Who gets the JoinResult of attempt a: its caller, the waiters of the pending
\* join, the listener of "reconnected".
Consumers(a) ==
  (IF attempt[a].kind = "direct" \/ pendingJoin.c = attempt[a].c THEN 1 ELSE 0)
  + (IF attempt[a].kind = "auto" THEN 1 ELSE 0)

Take(k) == k \in acks /\ ~ReactionDue /\ acks' = acks \ {k}

JoinConfirmed(a) ==
  /\ Take([id |-> a, reply |-> "ok"])
  /\ IF a \in Flying
       THEN Finish(a, TRUE) /\ handed' = Consumers(a)
       ELSE UNCHANGED <<attempt, call, pendingJoin, handed>>
  /\ UNCHANGED <<socket, channelId, send, closing, pipe, member, closed, wanted>>

\* Mutant: any acknowledgement of a join counts as success.
JoinTakenForGranted(a) ==
  /\ Take([id |-> a, reply |-> "bad"])
  /\ Abandon(a, TRUE)
  /\ IF a \in Flying THEN Finish(a, TRUE) ELSE UNCHANGED <<attempt, call, pendingJoin>>
  /\ UNCHANGED <<socket, send, closing, member, closed, wanted, handed>>

\* A refusal, or an acknowledgement that does not validate.  The channel is
\* abandoned whether or not the attempt is still waited for.
JoinRefused(a) ==
  /\ Take([id |-> a, reply |-> "bad"])
  /\ Abandon(a, TRUE)
  /\ IF a \in Flying THEN Finish(a, FALSE) ELSE UNCHANGED <<attempt, call, pendingJoin>>
  /\ UNCHANGED <<socket, send, closing, member, closed, wanted, handed>>

\* The watchdog of a deferred join was set before any attempt was made on the
\* present socket and runs as long as their timers, so it is the first.
JoinTimesOut(a) ==
  /\ a \in Flying /\ ~ReactionDue
  /\ attempt[a].own => pendingJoin = NoJoin
  /\ Abandon(a, attempt[a].own)
  /\ Finish(a, FALSE)
  /\ UNCHANGED <<socket, send, closing, acks, member, closed, wanted, handed>>

\* The deferred join failed for good: the socket is dropped, with its
\* listeners, but not the attempts that were made on it.
Watchdog ==
  /\ pendingJoin # NoJoin /\ ~ReactionDue
  /\ call' = Told(pendingJoin.waiters, FALSE)
  /\ pendingJoin' = NoJoin
  /\ IF channelId = pendingJoin.c
       THEN /\ channelId' = None
            /\ wanted' = None
            /\ socket' = "none"
            /\ attempt' = [a \in Attempts |-> [attempt[a] EXCEPT !.own = FALSE]]
            /\ ConnectionGone
       ELSE UNCHANGED <<channelId, wanted, socket, attempt, pipe, acks, member>>
  /\ UNCHANGED <<send, closing, closed, handed>>

Answer(s, ok) ==
  send' = [send EXCEPT ![s] =
    IF @.pc = "idle" THEN @
    ELSE IF ok THEN [@ EXCEPT !.pc = "idle", !.sent = TRUE]
    ELSE NoSend]

SendAnswered(s, reply) ==
  /\ Take([id |-> s, reply |-> reply])
  /\ Answer(s, reply = "ok")
  /\ UNCHANGED <<socket, channelId, pendingJoin, attempt, call, closing, pipe, member,
                 closed, wanted, handed>>

\* Mutant: sends have no timer.
SendNeverTimesOut(s) == s \notin Sends /\ UNCHANGED vars

SendTimesOut(s) ==
  /\ send[s].pc = "flying" /\ ~ReactionDue
  /\ Answer(s, FALSE)
  /\ UNCHANGED <<socket, channelId, pendingJoin, attempt, call, closing, relay, wanted,
                 handed>>

\* Mutant: any acknowledgement confirms the close.
CloseTakenForGranted(reply) ==
  /\ Take([id |-> "close", reply |-> reply])
  /\ closing' =
       IF closing.pc = "idle" THEN closing
       ELSE [closing EXCEPT !.pc = "idle", !.confirmed = TRUE]
  /\ UNCHANGED <<socket, channelId, pendingJoin, attempt, call, send, pipe, member, closed,
                 wanted, handed>>

\* Only an explicit "terminated" confirms the close.
CloseAnswered(reply) ==
  /\ Take([id |-> "close", reply |-> reply])
  /\ closing' =
       IF closing.pc = "idle" THEN closing
       ELSE IF reply = "ok" THEN [closing EXCEPT !.pc = "idle", !.confirmed = TRUE]
       ELSE NoClosing
  /\ UNCHANGED <<socket, channelId, pendingJoin, attempt, call, send, pipe, member, closed,
                 wanted, handed>>

CloseTimesOut ==
  /\ closing.pc = "flying" /\ ~ReactionDue
  /\ closing' = NoClosing
  /\ UNCHANGED <<socket, channelId, pendingJoin, attempt, call, send, relay, wanted, handed>>

-----------------------------------------------------------------------------
(* The relay reads packets in order and answers each, or never does. *)

Reply(id, replies) ==
  \/ acks' = acks
  \/ \E r \in replies : acks' = acks \cup {[id |-> id, reply |-> r]}

Read(ev) == pipe # <<>> /\ Head(pipe).ev = ev /\ pipe' = Tail(pipe)

\* A join of a closed channel is answered with its tombstone and is no
\* membership.
AcceptJoin ==
  LET p == Head(pipe) IN
  /\ Read("join")
  /\ member' = member \cup ({p.c} \ closed)
  /\ Reply(p.id, {"ok", "bad"})
  /\ call' = [q \in Callers |->
       [call[q] EXCEPT !.accepted = @ \/ (call[q].pc = "waiting" /\ call[q].c = p.c)]]
  /\ UNCHANGED <<socket, channelId, pendingJoin, attempt, send, closing, closed, wanted,
                 handed>>

RefuseJoin ==
  /\ Read("join")
  /\ Reply(Head(pipe).id, {"bad"})
  /\ UNCHANGED <<client, member, closed, wanted, handed>>

ReadLeave ==
  /\ Read("leave")
  /\ member' = member \ {Head(pipe).c}
  /\ UNCHANGED <<client, acks, closed, wanted, handed>>

\* Only a participant can close, and only a close that took effect is answered
\* with "terminated".
AcceptClose ==
  LET p == Head(pipe) IN
  /\ Read("close")
  /\ p.c \in member
  /\ closed' = closed \cup {p.c}
  /\ member' = member \ {p.c}
  /\ Reply("close", {"ok", "bad"})
  /\ UNCHANGED <<client, wanted, handed>>

RefuseClose ==
  /\ Read("close")
  /\ Reply("close", {"bad"})
  /\ UNCHANGED <<client, member, closed, wanted, handed>>

RouteMessage ==
  LET s == Head(pipe).id IN
  /\ Read("message")
  /\ \/ /\ send' = [send EXCEPT ![s].routed = send[s].pc = "flying"]
        /\ Reply(s, {"ok", "bad"})
     \/ /\ Reply(s, {"bad"})
        /\ UNCHANGED send
  /\ UNCHANGED <<socket, channelId, pendingJoin, attempt, call, closing, member, closed,
                 wanted, handed>>

-----------------------------------------------------------------------------
Application ==
  \/ Connect
  \/ \E q \in Callers, c \in Channels :
       \/ JoinLater(q, c)
       \/ \E a \in Attempts : JoinImmediately(q, c, a)
  \/ \E s \in Sends : SendMessage(s)
  \/ CloseChannel
  \/ LeaveChannel
  \/ Disconnect

Timers ==
  \/ Watchdog
  \/ \E a \in Attempts : JoinTimesOut(a)
  \/ \E s \in Sends : SendTimesOut(s)
  \/ CloseTimesOut

Acknowledgement ==
  \/ \E a \in Attempts : JoinConfirmed(a) \/ JoinRefused(a)
  \/ \E s \in Sends, r \in {"ok", "bad"} : SendAnswered(s, r)
  \/ \E r \in {"ok", "bad"} : CloseAnswered(r)

Relay ==
  \/ AcceptJoin
  \/ RefuseJoin
  \/ ReadLeave
  \/ AcceptClose
  \/ RefuseClose
  \/ RouteMessage

Next ==
  \/ Application
  \/ TransportUp
  \/ TransportDown
  \/ \E a \in Attempts : Reaction(a)
  \/ Timers
  \/ Acknowledgement
  \/ Relay

Spec == Init /\ [][Next]_vars

\* Timers run out whatever else goes on, and promise reactions run.  Nothing is
\* asked of the relay, the transport or the application.
Fairness ==
  /\ \A a \in Attempts : WF_vars(Reaction(a)) /\ SF_vars(JoinTimesOut(a))
  /\ SF_vars(Watchdog)
  /\ \A s \in Sends : SF_vars(SendTimesOut(s))
  /\ SF_vars(CloseTimesOut)

FairSpec == Spec /\ Fairness

-----------------------------------------------------------------------------
(* Properties *)

\* A join is reported as successful only if the relay accepted a join of that
\* channel while the call was waiting: never on the word of an attempt from
\* before the call.
JoinIsReal == \A q \in Callers : call[q].joined => call[q].accepted

\* The frames buffered at a join are handed over once: never to the callers of
\* a deferred join and to the listener of "reconnected" both (the comment in the
\* connect handler).
HandedOverOnce == handed <= 1

\* A call that waits is waited for: by the pending join or by one immediate
\* attempt, never by both, and these wait for no other call.
WaitingIsHeld ==
  \A q \in Callers :
    LET own == {a \in DirectFlying : attempt[a].by = q}
    IN  IF call[q].pc = "waiting"
          THEN Cardinality(own) = IF q \in pendingJoin.waiters THEN 0 ELSE 1
          ELSE own = {} /\ q \notin pendingJoin.waiters

\* The client never joins on its own a channel that was left, closed,
\* disconnected from or given up by the watchdog.
LeftStaysLeft == channelId # None => channelId = wanted

\* closeChannel() answers true only if the relay holds the tombstone, and
\* sendMessage() resolves only if the relay took that very message.
ConfirmedIsDone ==
  /\ closing.confirmed => closing.c \in closed
  /\ \A s \in Sends : send[s].sent => send[s].routed

\* Every call is answered, whatever the relay does or fails to do.
CallsAnswered ==
  /\ \A q \in Callers : call[q].pc = "waiting" ~> call[q].pc = "idle"
  /\ \A s \in Sends : send[s].pc = "flying" ~> send[s].pc = "idle"
  /\ closing.pc = "flying" ~> closing.pc = "idle"
=============================================================================
