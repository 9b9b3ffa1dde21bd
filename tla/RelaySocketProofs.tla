-------------------------- MODULE RelaySocketProofs --------------------------
(***************************************************************************)
(* Theorems about RelaySocket for every set of channels, callers, attempts *)
(* and sends.  The argument is the inductive invariant RelaySocketInv.     *)
(***************************************************************************)
EXTENDS RelaySocket, FiniteSetTheorems, TLAPS

USE RelaySocketAssumption

\* The packets the relay has not read
Unread == {pipe[i] : i \in 1 .. Len(pipe)}

\* A callback is named by one packet or by one acknowledgement, and none is
\* named on a connection that is gone.
WireInv ==
  /\ \A i, j \in 1 .. Len(pipe) : pipe[i].ev # "leave" /\ pipe[i].id = pipe[j].id => i = j
  /\ \A p \in Unread, k \in acks : p.id # k.id
  /\ \A k, l \in acks : k.id = l.id => k = l
  /\ socket # "up" => pipe = <<>> /\ acks = {}

\* A packet is for the channel its callback is about.
PacketInv ==
  \A p \in Unread :
    /\ p.ev = "join" => p.c = attempt[p.id].c
    /\ p.ev = "close" /\ closing.pc = "flying" => p.c = closing.c

\* An attempt that can still be answered was made on the present socket; the
\* one of the connect handler that answers for nobody has nobody waiting.
AttemptInv ==
  \A a \in Attempts :
    /\ attempt[a].pc # "free" => attempt[a].c \in Channels
    /\ a \in Flying /\ attempt[a].own =>
         socket = "up" /\ (attempt[a].kind = "auto" => pendingJoin.c # attempt[a].c)
    /\ a \in Flying /\ Outstanding(a) => attempt[a].own

\* A call waits for the pending join or for one immediate attempt.
HeldInv ==
  /\ \A q \in pendingJoin.waiters : call[q].pc = "waiting" /\ call[q].c = pendingJoin.c
  /\ \A a \in DirectFlying :
       /\ attempt[a].by \in Callers \ pendingJoin.waiters
       /\ call[attempt[a].by].pc = "waiting" /\ call[attempt[a].by].c = attempt[a].c
  /\ \A a, b \in DirectFlying : attempt[a].by = attempt[b].by => a = b
  /\ \A q \in Callers : call[q].pc = "waiting" =>
       q \in pendingJoin.waiters \/ \E a \in DirectFlying : attempt[a].by = q

\* Who is told of a join that the relay acknowledged was waiting when it did.
JoinedInv ==
  \A a \in Flying : [id |-> a, reply |-> "ok"] \in acks =>
    IF attempt[a].kind = "direct"
      THEN call[attempt[a].by].accepted
      ELSE pendingJoin.c = attempt[a].c => \A q \in pendingJoin.waiters : call[q].accepted

\* What an acknowledgement of a close or of a message says has happened.
DoneInv ==
  /\ [id |-> "close", reply |-> "ok"] \in acks /\ closing.pc = "flying" =>
       closing.c \in closed
  /\ \A s \in Sends :
       /\ [id |-> s, reply |-> "ok"] \in acks /\ send[s].pc = "flying" => send[s].routed
       /\ send[s].sent => ~Outstanding(s)

RelaySocketInv ==
  /\ TypeOK
  /\ WireInv
  /\ PacketInv
  /\ AttemptInv
  /\ HeldInv
  /\ JoinedInv
  /\ DoneInv
  /\ JoinIsReal
  /\ HandedOverOnce
  /\ LeftStaysLeft
  /\ ConfirmedIsDone

-----------------------------------------------------------------------------
(* The wire *)

LEMMA PacketFields ==
  ASSUME NEW p \in Packets
  PROVE  /\ p.ev \in {"join", "leave", "close", "message"}
         /\ p.ev = "join" => p.c \in Channels /\ p.id \in Attempts
         /\ p.ev = "leave" => p.id = None
         /\ p.ev = "close" => p.c \in Channels /\ p.id = "close"
         /\ p.ev = "message" => p.id \in Sends
         /\ p.ev # "leave" => p.id # None /\ p.id \in Attempts \cup Sends \cup {"close"}
  BY DEF Packets

LEMMA PacketBuilt ==
  ASSUME NEW c \in Channels
  PROVE  /\ \A a \in Attempts : /\ Packet("join", c, a) \in Packets
                                /\ Packet("join", c, a).ev = "join"
                                /\ Packet("join", c, a).c = c
                                /\ Packet("join", c, a).id = a
         /\ Packet("close", c, "close") \in Packets
         /\ Packet("close", c, "close").ev = "close"
         /\ Packet("close", c, "close").c = c
         /\ Packet("close", c, "close").id = "close"
<1>1. ASSUME NEW a \in Attempts
      PROVE  /\ Packet("join", c, a) \in Packets /\ Packet("join", c, a).ev = "join"
             /\ Packet("join", c, a).c = c /\ Packet("join", c, a).id = a
  BY DEF Packet, Packets
<1>2. /\ Packet("close", c, "close") \in Packets /\ Packet("close", c, "close").ev = "close"
      /\ Packet("close", c, "close").c = c /\ Packet("close", c, "close").id = "close"
  BY DEF Packet, Packets
<1>3. QED BY <1>1, <1>2

LEMMA LeaveBuilt ==
  ASSUME NEW c \in Channels \cup {None}
  PROVE  /\ Packet("leave", c, None) \in Packets
         /\ Packet("leave", c, None).ev = "leave"
         /\ Packet("leave", c, None).id = None
  BY DEF Packet, Packets

LEMMA MessageBuilt ==
  ASSUME NEW s \in Sends
  PROVE  /\ Packet("message", None, s) \in Packets
         /\ Packet("message", None, s).ev = "message"
         /\ Packet("message", None, s).id = s
  BY DEF Packet, Packets

\* Outstanding(), by what the relay has not read
LEMMA Outstandings ==
  ASSUME NEW id
  PROVE  Outstanding(id) <=> (\E p \in Unread : p.id = id) \/ (\E k \in acks : k.id = id)
  BY DEF Outstanding, Unread

LEMMA UnreadPackets == TypeOK => Unread \subseteq Packets
  BY DEF TypeOK, Unread

\* A packet is sent; nothing else is on its way under its name.
LEMMA SentOn ==
  ASSUME TypeOK, WireInv, NEW e \in Packets, pipe' = Append(pipe, e),
         acks' \subseteq acks, socket' = socket, socket = "up",
         e.ev = "leave" \/ ~Outstanding(e.id)
  PROVE  /\ pipe' \in Seq(Packets)
         /\ Unread' = Unread \cup {e}
         /\ WireInv'
<1>1. pipe \in Seq(Packets)
  BY DEF TypeOK
<1>2. /\ pipe' \in Seq(Packets) /\ Len(pipe') = Len(pipe) + 1 /\ Len(pipe) \in Nat
      /\ \A i \in 1 .. Len(pipe) : pipe'[i] = pipe[i]
      /\ pipe'[Len(pipe) + 1] = e
  BY <1>1
<1>3. Unread' = Unread \cup {e}
  BY <1>2 DEF Unread
<1>4. \A i \in 1 .. Len(pipe) : pipe[i] \in Unread /\ pipe[i] \in Packets
  BY <1>1 DEF Unread
<1>5. \A i \in 1 .. Len(pipe) : pipe[i].ev # "leave" => pipe[i].id # e.id
  BY <1>4, PacketFields, Outstandings
<1>6. \A i \in 1 .. Len(pipe) : e.ev # "leave" => pipe[i].id # e.id
  BY <1>4, Outstandings
<1>7. \A i, j \in 1 .. Len(pipe') : pipe'[i].ev # "leave" /\ pipe'[i].id = pipe'[j].id => i = j
  BY <1>2, <1>5, <1>6 DEF WireInv
<1>8. \A k \in acks : e.id # k.id
  <2>1. \A k \in acks : k.id # None
    BY DEF TypeOK
  <2>2. QED BY <2>1, PacketFields, Outstandings
<1>9. \A p \in Unread', k \in acks' : p.id # k.id
  BY <1>3, <1>8 DEF WireInv
<1>10. QED BY <1>2, <1>3, <1>7, <1>9 DEF WireInv

\* The relay reads a packet and may answer it.
LEMMA ReadOff ==
  ASSUME TypeOK, WireInv, pipe # <<>>, pipe' = Tail(pipe), socket' = socket,
         NEW r \in {"ok", "bad"},
         \A k \in acks' : k \in acks \/ (Head(pipe).ev # "leave" /\ k = [id |-> Head(pipe).id, reply |-> r])
  PROVE  /\ pipe' \in Seq(Packets)
         /\ Head(pipe) \in Unread /\ Head(pipe) \in Packets
         /\ Unread' \subseteq Unread
         /\ Head(pipe).ev # "leave" =>
              /\ \A p \in Unread' : p.id # Head(pipe).id
              /\ \A k \in acks : k.id # Head(pipe).id
         /\ acks' \subseteq [id : Attempts \cup Sends \cup {"close"}, reply : {"ok", "bad"}]
         /\ WireInv'
<1>1. pipe \in Seq(Packets)
  BY DEF TypeOK
<1>2. /\ pipe' \in Seq(Packets) /\ Len(pipe') = Len(pipe) - 1 /\ Len(pipe) \in Nat \ {0}
      /\ Head(pipe) = pipe[1]
      /\ \A i \in 1 .. Len(pipe') : pipe'[i] = pipe[i + 1] /\ i + 1 \in 1 .. Len(pipe)
  BY <1>1
<1>3. Head(pipe) \in Unread /\ Head(pipe) \in Packets
  BY <1>1, <1>2 DEF Unread
<1>4. Unread' \subseteq Unread
  BY <1>2 DEF Unread
<1>5. ASSUME Head(pipe).ev # "leave", NEW i \in 1 .. Len(pipe') PROVE pipe'[i].id # Head(pipe).id
  <2>1. 1 \in 1 .. Len(pipe) /\ i + 1 # 1
    BY <1>2
  <2>2. QED BY <1>2, <1>5, <2>1 DEF WireInv
<1>6. Head(pipe).ev # "leave" => \A p \in Unread' : p.id # Head(pipe).id
  BY <1>5 DEF Unread
<1>7. Head(pipe).ev # "leave" => \A k \in acks : k.id # Head(pipe).id
  BY <1>3 DEF WireInv
<1>8. \A i, j \in 1 .. Len(pipe') : pipe'[i].ev # "leave" /\ pipe'[i].id = pipe'[j].id => i = j
  BY <1>2 DEF WireInv
<1>9. acks' \subseteq [id : Attempts \cup Sends \cup {"close"}, reply : {"ok", "bad"}]
  <2>1. Head(pipe).ev # "leave" => Head(pipe).id \in Attempts \cup Sends \cup {"close"}
    BY <1>3, PacketFields
  <2>2. QED BY <2>1 DEF TypeOK
<1>10. \A p \in Unread', k \in acks' : p.id # k.id
  BY <1>4, <1>6 DEF WireInv
<1>11. \A k, l \in acks' : k.id = l.id => k = l
  BY <1>7 DEF WireInv
<1>12. socket' = "up"
  BY DEF WireInv
<1>13. QED BY <1>2, <1>3, <1>4, <1>6, <1>7, <1>8, <1>9, <1>10, <1>11, <1>12 DEF WireInv

LEMMA WireGone ==
  ASSUME ConnectionGone
  PROVE  /\ pipe' \in Seq(Packets) /\ Unread' = {} /\ acks' = {}
         /\ WireInv' /\ PacketInv'
         /\ \A id : ~Outstanding(id)'
<1>1. pipe' = <<>> /\ acks' = {} /\ Len(<<>>) = 0
  BY DEF ConnectionGone
<1>2. pipe' \in Seq(Packets) /\ Unread' = {}
  BY <1>1 DEF Unread
<1>3. WireInv' /\ PacketInv'
  BY <1>1, <1>2 DEF WireInv, PacketInv
<1>4. \A id : ~Outstanding(id)'
  BY <1>1 DEF Outstanding
<1>5. QED BY <1>1, <1>2, <1>3, <1>4

\* An acknowledgement arrives, or nothing happens to the wire.
LEMMA WireRests ==
  ASSUME TypeOK, WireInv, pipe' = pipe, acks' \subseteq acks,
         socket' = "up" \/ (pipe = <<>> /\ acks = {}) \/ socket' = socket
  PROVE  /\ pipe' \in Seq(Packets) /\ Unread' = Unread
         /\ acks' \subseteq [id : Attempts \cup Sends \cup {"close"}, reply : {"ok", "bad"}]
         /\ WireInv'
<1>1. Unread' = Unread
  BY DEF Unread
<1>2. QED BY <1>1 DEF TypeOK, WireInv

-----------------------------------------------------------------------------
(* Calls, attempts and the pending join *)

LEMMA CallChanged ==
  ASSUME NEW k \in CallType
  PROVE  /\ [k EXCEPT !.pc = "idle", !.joined = TRUE] \in CallType
         /\ [k EXCEPT !.pc = "idle", !.joined = TRUE].pc = "idle"
         /\ [k EXCEPT !.pc = "idle", !.joined = TRUE].accepted = k.accepted
  BY DEF CallType

LEMMA NoCallType ==
  NoCall \in CallType /\ NoCall.pc = "idle" /\ ~NoCall.joined
  BY DEF NoCall, CallType

LEMMA ToldOfSuccess ==
  ASSUME TypeOK, NEW qs, call' = Told(qs, TRUE)
  PROVE  /\ call' \in [Callers -> CallType]
         /\ \A q \in Callers : q \notin qs => call'[q] = call[q]
         /\ \A q \in Callers : q \in qs =>
              call'[q].pc = "idle" /\ call'[q].accepted = call[q].accepted
<1>1. ASSUME NEW q \in Callers PROVE call[q] \in CallType
  BY DEF TypeOK
<1>2. call' = [q \in Callers |-> IF q \notin qs THEN call[q]
                                ELSE [call[q] EXCEPT !.pc = "idle", !.joined = TRUE]]
  BY DEF Told
<1>3. call' \in [Callers -> CallType]
  BY <1>1, <1>2, CallChanged
<1>4. ASSUME NEW q \in Callers, q \in qs
      PROVE  call'[q].pc = "idle" /\ call'[q].accepted = call[q].accepted
  <2>1. call'[q] = [call[q] EXCEPT !.pc = "idle", !.joined = TRUE]
    BY <1>2, <1>4
  <2>2. /\ [call[q] EXCEPT !.pc = "idle", !.joined = TRUE].pc = "idle"
        /\ [call[q] EXCEPT !.pc = "idle", !.joined = TRUE].accepted = call[q].accepted
    BY <1>1, CallChanged, Zenon
  <2>3. QED BY <2>1, <2>2, Zenon
<1>5. \A q \in Callers : q \notin qs => call'[q] = call[q]
  BY <1>2
<1>6. QED BY <1>3, <1>4, <1>5

LEMMA ToldOfFailure ==
  ASSUME TypeOK, NEW qs, call' = Told(qs, FALSE)
  PROVE  /\ call' \in [Callers -> CallType]
         /\ \A q \in Callers : q \notin qs => call'[q] = call[q]
         /\ \A q \in Callers : q \in qs => call'[q].pc = "idle" /\ ~call'[q].joined
<1>1. call' = [q \in Callers |-> IF q \notin qs THEN call[q] ELSE NoCall]
  BY DEF Told
<1>2. call' \in [Callers -> CallType]
  BY <1>1, NoCallType DEF TypeOK
<1>3. /\ \A q \in Callers : q \notin qs => call'[q] = call[q]
      /\ \A q \in Callers : q \in qs => call'[q] = NoCall
  BY <1>1
<1>4. \A q \in Callers : q \in qs => call'[q].pc = "idle" /\ ~call'[q].joined
  BY <1>3, NoCallType
<1>5. QED BY <1>2, <1>3, <1>4

LEMMA SettledAttempt ==
  ASSUME TypeOK, NEW a \in Attempts
  PROVE  /\ Settled(a) \in AttemptType
         /\ Settled(a).pc = "free" /\ Settled(a).c = attempt[a].c
<1>1. attempt[a] \in AttemptType
  BY DEF TypeOK
<1>2. attempt[a].c \in Channels \cup {None}
  BY <1>1 DEF AttemptType
<1>3. QED BY <1>2 DEF Settled, FreeAttempt, AttemptType

LEMMA FailingAttempt ==
  ASSUME NEW t \in AttemptType
  PROVE  /\ [t EXCEPT !.pc = "failing"] \in AttemptType
         /\ [t EXCEPT !.pc = "failing"].pc = "failing"
         /\ [t EXCEPT !.pc = "failing"].c = t.c
  BY DEF AttemptType

LEMMA RejectedAttempts ==
  ASSUME TypeOK, attempt' = Rejected
  PROVE  /\ attempt' \in [Attempts -> AttemptType]
         /\ \A a \in Attempts : /\ attempt'[a].pc # "flying"
                                /\ attempt'[a].c = attempt[a].c
                                /\ attempt'[a].pc # "free" => attempt[a].pc # "free"
<1>1. ASSUME NEW a \in Attempts PROVE attempt[a] \in AttemptType
  BY DEF TypeOK
<1>2. attempt' = [a \in Attempts |->
         IF a \notin Flying THEN attempt[a]
         ELSE IF attempt[a].kind = "direct" THEN Settled(a)
         ELSE [attempt[a] EXCEPT !.pc = "failing"]]
  BY DEF Rejected
<1>3. attempt' \in [Attempts -> AttemptType]
  BY <1>1, <1>2, SettledAttempt, FailingAttempt
<1>4. ASSUME NEW a \in Attempts
      PROVE  /\ attempt'[a].pc # "flying"
             /\ attempt'[a].c = attempt[a].c
             /\ attempt'[a].pc # "free" => attempt[a].pc # "free"
  BY <1>1, <1>2, SettledAttempt, FailingAttempt DEF Flying
<1>5. QED BY <1>3, <1>4

\* With no attempt in the air there is nothing to answer.
LEMMA NoneFlying ==
  ASSUME AttemptInv,
         \A a \in Attempts : /\ attempt'[a].pc # "flying"
                             /\ attempt'[a].c = attempt[a].c
                             /\ attempt'[a].pc # "free" => attempt[a].pc # "free"
  PROVE  AttemptInv' /\ JoinedInv' /\ Flying' = {} /\ DirectFlying' = {}
<1>1. Flying' = {} /\ DirectFlying' = {}
  BY DEF Flying, DirectFlying
<1>2. AttemptInv' /\ JoinedInv'
  BY <1>1 DEF AttemptInv, JoinedInv
<1>3. QED BY <1>1, <1>2

\* What calls of the joins share: RejectJoins leaves nobody waiting.
LEMMA JoinsRejected ==
  ASSUME RelaySocketInv, RejectJoins
  PROVE  /\ call' \in [Callers -> CallType]
         /\ attempt' \in [Attempts -> AttemptType]
         /\ pendingJoin' \in [c : Channels \cup {None}, waiters : SUBSET Callers]
         /\ \A a \in Attempts : attempt'[a].c = attempt[a].c
         /\ AttemptInv' /\ HeldInv' /\ JoinedInv' /\ JoinIsReal'
<1> DEFINE qs == pendingJoin.waiters \cup {attempt[a].by : a \in DirectFlying}
<1>1. TypeOK /\ AttemptInv /\ HeldInv /\ JoinIsReal
  BY DEF RelaySocketInv
<1>2. /\ call' \in [Callers -> CallType]
      /\ \A q \in Callers : q \notin qs => call'[q] = call[q]
      /\ \A q \in Callers : q \in qs => call'[q].pc = "idle" /\ ~call'[q].joined
  <2>1. call' = Told(qs, FALSE)
    BY DEF RejectJoins
  <2> HIDE DEF qs
  <2>2. QED BY <1>1, <2>1, ToldOfFailure
<1>3. /\ attempt' \in [Attempts -> AttemptType]
      /\ \A a \in Attempts : /\ attempt'[a].pc # "flying"
                             /\ attempt'[a].c = attempt[a].c
                             /\ attempt'[a].pc # "free" => attempt[a].pc # "free"
  BY <1>1, RejectedAttempts DEF RejectJoins
<1>4. AttemptInv' /\ JoinedInv' /\ DirectFlying' = {}
  BY <1>1, <1>3, NoneFlying
<1>5. pendingJoin' \in [c : Channels \cup {None}, waiters : SUBSET Callers] /\ pendingJoin'.waiters = {}
  BY DEF RejectJoins, NoJoin
<1>6. \A q \in Callers : call[q].pc = "waiting" => q \in qs
  BY <1>1 DEF HeldInv
<1>7. \A q \in Callers : call'[q].pc # "waiting"
  BY <1>2, <1>6
<1>8. HeldInv'
  BY <1>4, <1>5, <1>7 DEF HeldInv
<1>9. JoinIsReal'
  BY <1>1, <1>2 DEF JoinIsReal
<1>10. QED BY <1>2, <1>3, <1>4, <1>5, <1>8, <1>9

\* settlePendingJoin(): with TRUE only if every waiter has been accepted.
LEMMA PendingSettled ==
  ASSUME TypeOK, HeldInv, JoinIsReal, pendingJoin' = NoJoin,
         \/ /\ call' = Told(pendingJoin.waiters, TRUE)
            /\ \A q \in pendingJoin.waiters : call[q].accepted
         \/ call' = Told(pendingJoin.waiters, FALSE)
  PROVE  /\ call' \in [Callers -> CallType]
         /\ pendingJoin' \in [c : Channels \cup {None}, waiters : SUBSET Callers]
         /\ pendingJoin'.c = None /\ pendingJoin'.waiters = {}
         /\ \A q \in Callers : q \notin pendingJoin.waiters => call'[q] = call[q]
         /\ \A q \in pendingJoin.waiters : call'[q].pc = "idle"
         /\ JoinIsReal'
<1>1. /\ pendingJoin' \in [c : Channels \cup {None}, waiters : SUBSET Callers]
      /\ pendingJoin'.c = None /\ pendingJoin'.waiters = {}
  BY DEF NoJoin
<1>2. pendingJoin.waiters \subseteq Callers
  BY DEF TypeOK
<1>3. CASE /\ call' = Told(pendingJoin.waiters, TRUE)
           /\ \A q \in pendingJoin.waiters : call[q].accepted
  <2>1. /\ call' \in [Callers -> CallType]
        /\ \A q \in Callers : q \notin pendingJoin.waiters => call'[q] = call[q]
        /\ \A q \in Callers : q \in pendingJoin.waiters =>
             call'[q].pc = "idle" /\ call'[q].accepted = call[q].accepted
    BY <1>3, ToldOfSuccess, Zenon
  <2>2. JoinIsReal'
    BY <1>3, <2>1 DEF JoinIsReal
  <2>3. QED BY <1>1, <1>2, <2>1, <2>2
<1>4. CASE call' = Told(pendingJoin.waiters, FALSE)
  BY <1>1, <1>2, <1>4, ToldOfFailure DEF JoinIsReal
<1>5. QED BY <1>3, <1>4

LEMMA AttemptLanded ==
  ASSUME TypeOK, NEW a \in Attempts, attempt' = [attempt EXCEPT ![a] = Settled(a)]
  PROVE  /\ attempt' \in [Attempts -> AttemptType]
         /\ attempt'[a].pc = "free"
         /\ \A b \in Attempts : attempt'[b].c = attempt[b].c
         /\ \A b \in Attempts : b # a => attempt'[b] = attempt[b]
         /\ Flying' = Flying \ {a}
         /\ DirectFlying' = DirectFlying \ {a}
<1>1. Settled(a) \in AttemptType /\ Settled(a).pc = "free" /\ Settled(a).c = attempt[a].c
  BY SettledAttempt
<1>2. /\ attempt' \in [Attempts -> AttemptType]
      /\ attempt'[a] = Settled(a)
      /\ \A b \in Attempts : b # a => attempt'[b] = attempt[b]
  BY <1>1 DEF TypeOK
<1>3. Flying' = Flying \ {a}
  BY <1>1, <1>2 DEF Flying
<1>4. DirectFlying' = DirectFlying \ {a}
  BY <1>2, <1>3 DEF DirectFlying, Flying
<1>5. QED BY <1>1, <1>2, <1>3, <1>4

\* What the landing of an attempt leaves of AttemptInv
LEMMA LandedInv ==
  ASSUME TypeOK, AttemptInv, NEW a \in Attempts, attempt' = [attempt EXCEPT ![a] = Settled(a)],
         socket' = socket, \A b \in Attempts : Outstanding(b)' => Outstanding(b),
         pendingJoin'.c \in {None, pendingJoin.c}
  PROVE  AttemptInv'
<1>1. \A b \in Flying' : b \in Flying /\ attempt'[b] = attempt[b] /\ b # a
  <2>1. Flying \subseteq Attempts
    BY DEF Flying
  <2>2. QED BY <2>1, AttemptLanded
<1>2. \A b \in Attempts : attempt'[b].pc # "free" => attempt'[b] = attempt[b]
  BY AttemptLanded
<1>3. \A b \in Flying : attempt[b].c # None
  BY DEF AttemptInv, Flying
<1>4. QED BY <1>1, <1>2, <1>3 DEF AttemptInv

\* An immediate attempt gives its caller the answer.
LEMMA DirectFinished ==
  ASSUME RelaySocketInv, NEW a \in DirectFlying,
         attempt' = [attempt EXCEPT ![a] = Settled(a)], pendingJoin' = pendingJoin,
         \/ call' = Told({attempt[a].by}, TRUE) /\ [id |-> a, reply |-> "ok"] \in acks
         \/ call' = Told({attempt[a].by}, FALSE),
         acks' \subseteq acks
  PROVE  call' \in [Callers -> CallType] /\ HeldInv' /\ JoinedInv' /\ JoinIsReal'
<1>1. TypeOK /\ HeldInv /\ JoinedInv /\ JoinIsReal /\ a \in Attempts /\ a \in Flying
      /\ attempt[a].kind = "direct" /\ attempt[a].by \in Callers
  BY DEF RelaySocketInv, DirectFlying, Flying, HeldInv
<1>2. /\ call' \in [Callers -> CallType]
      /\ \A q \in Callers : q # attempt[a].by => call'[q] = call[q]
      /\ call'[attempt[a].by].pc = "idle"
      /\ JoinIsReal'
  <2>1. CASE call' = Told({attempt[a].by}, TRUE) /\ [id |-> a, reply |-> "ok"] \in acks
    <3>1. call[attempt[a].by].accepted
      BY <1>1, <2>1 DEF JoinedInv
    <3>2. /\ call' \in [Callers -> CallType]
          /\ \A q \in Callers : q \notin {attempt[a].by} => call'[q] = call[q]
          /\ \A q \in Callers : q \in {attempt[a].by} =>
               call'[q].pc = "idle" /\ call'[q].accepted = call[q].accepted
      BY <1>1, <2>1, ToldOfSuccess, Zenon
    <3>3. QED BY <1>1, <3>1, <3>2 DEF JoinIsReal
  <2>2. CASE call' = Told({attempt[a].by}, FALSE)
    <3>1. /\ call' \in [Callers -> CallType]
          /\ \A q \in Callers : q \notin {attempt[a].by} => call'[q] = call[q]
          /\ \A q \in Callers : q \in {attempt[a].by} => call'[q].pc = "idle" /\ ~call'[q].joined
      BY <1>1, <2>2, ToldOfFailure, Zenon
    <3>2. QED BY <1>1, <3>1 DEF JoinIsReal
  <2>3. QED BY <2>1, <2>2
<1>3. /\ DirectFlying' = DirectFlying \ {a} /\ Flying' = Flying \ {a}
      /\ \A b \in Flying' : attempt'[b] = attempt[b]
  BY <1>1, AttemptLanded DEF Flying
<1>4. \A b \in DirectFlying' : b \in DirectFlying /\ attempt'[b] = attempt[b]
                              /\ attempt[b].by # attempt[a].by
  BY <1>1, <1>3 DEF HeldInv, DirectFlying
<1>5. attempt[a].by \notin pendingJoin.waiters /\ pendingJoin.waiters \subseteq Callers
  BY <1>1 DEF HeldInv, TypeOK
<1>6. HeldInv'
  <2>1. \A q \in pendingJoin'.waiters : call'[q].pc = "waiting" /\ call'[q].c = pendingJoin'.c
    BY <1>1, <1>2, <1>5 DEF HeldInv
  <2>2. \A b \in DirectFlying' :
          /\ attempt'[b].by \in Callers \ pendingJoin'.waiters
          /\ call'[attempt'[b].by].pc = "waiting" /\ call'[attempt'[b].by].c = attempt'[b].c
    BY <1>1, <1>2, <1>4 DEF HeldInv
  <2>3. \A b, d \in DirectFlying' : attempt'[b].by = attempt'[d].by => b = d
    BY <1>1, <1>4 DEF HeldInv
  <2>4. \A q \in Callers : call'[q].pc = "waiting" =>
          q \in pendingJoin'.waiters \/ \E b \in DirectFlying' : attempt'[b].by = q
    BY <1>1, <1>2, <1>3, <1>4 DEF HeldInv
  <2>5. QED BY <2>1, <2>2, <2>3, <2>4 DEF HeldInv
<1>7. JoinedInv'
  <2> SUFFICES ASSUME NEW b \in Flying', [id |-> b, reply |-> "ok"] \in acks'
               PROVE  IF attempt'[b].kind = "direct"
                        THEN call'[attempt'[b].by].accepted
                        ELSE pendingJoin'.c = attempt'[b].c =>
                               \A q \in pendingJoin'.waiters : call'[q].accepted
    BY DEF JoinedInv
  <2>1. b \in Flying /\ attempt'[b] = attempt[b] /\ [id |-> b, reply |-> "ok"] \in acks
    BY <1>3
  <2>2. CASE attempt[b].kind = "direct"
    <3>1. b \in DirectFlying'
      BY <2>1, <2>2 DEF DirectFlying
    <3>2. QED BY <1>1, <1>2, <1>4, <2>1, <2>2, <3>1 DEF JoinedInv, HeldInv
  <2>3. CASE attempt[b].kind # "direct"
    BY <1>1, <1>2, <1>5, <2>1, <2>3 DEF JoinedInv
  <2>4. QED BY <2>2, <2>3
<1>8. QED BY <1>2, <1>6, <1>7

\* An attempt of the connect handler settles the pending join, if that is for
\* its channel.
LEMMA JoinSettled ==
  ASSUME RelaySocketInv, NEW a \in Attempts, a \notin DirectFlying,
         attempt' = [attempt EXCEPT ![a] = Settled(a)],
         \/ /\ Settle(a, TRUE)
            /\ a \in Flying /\ [id |-> a, reply |-> "ok"] \in acks
         \/ Settle(a, FALSE),
         acks' \subseteq acks
  PROVE  /\ call' \in [Callers -> CallType]
         /\ pendingJoin' \in [c : Channels \cup {None}, waiters : SUBSET Callers]
         /\ pendingJoin'.c \in {None, pendingJoin.c}
         /\ HeldInv' /\ JoinedInv' /\ JoinIsReal'
<1>1. TypeOK /\ HeldInv /\ JoinedInv /\ JoinIsReal
  BY DEF RelaySocketInv
<1>2. /\ DirectFlying' = DirectFlying /\ Flying' = Flying \ {a}
      /\ \A b \in Flying' : attempt'[b] = attempt[b]
  <2>1. Flying \subseteq Attempts
    BY DEF Flying
  <2>2. /\ DirectFlying' = DirectFlying \ {a} /\ Flying' = Flying \ {a}
        /\ \A b \in Attempts : b # a => attempt'[b] = attempt[b]
    BY <1>1, AttemptLanded
  <2>3. DirectFlying \ {a} = DirectFlying
    OBVIOUS
  <2>4. QED BY <2>1, <2>2, <2>3
<1>3. \A b \in DirectFlying : attempt'[b] = attempt[b] /\ b \in Flying /\ attempt[b].kind = "direct"
  BY <1>2 DEF DirectFlying
<1>4. CASE pendingJoin.c = attempt[a].c
  <2>1. /\ pendingJoin' = NoJoin
        /\ \/ /\ call' = Told(pendingJoin.waiters, TRUE)
              /\ a \in Flying /\ [id |-> a, reply |-> "ok"] \in acks
           \/ call' = Told(pendingJoin.waiters, FALSE)
    BY <1>4 DEF Settle
  <2>2. a \in Flying /\ [id |-> a, reply |-> "ok"] \in acks =>
          \A q \in pendingJoin.waiters : call[q].accepted
    <3>1. a \in Flying => attempt[a].kind # "direct"
      BY DEF DirectFlying
    <3>2. QED BY <1>1, <1>4, <3>1 DEF JoinedInv
  <2>3. /\ call' \in [Callers -> CallType]
        /\ pendingJoin' \in [c : Channels \cup {None}, waiters : SUBSET Callers]
        /\ pendingJoin'.c = None /\ pendingJoin'.waiters = {}
        /\ \A q \in Callers : q \notin pendingJoin.waiters => call'[q] = call[q]
        /\ \A q \in pendingJoin.waiters : call'[q].pc = "idle"
        /\ JoinIsReal'
    BY <1>1, <2>1, <2>2, PendingSettled
  <2>4. HeldInv'
    BY <1>1, <1>2, <1>3, <2>3 DEF HeldInv
  <2>5. JoinedInv'
    <3> SUFFICES ASSUME NEW b \in Flying', [id |-> b, reply |-> "ok"] \in acks',
                        attempt'[b].kind = "direct"
                 PROVE  call'[attempt'[b].by].accepted
      BY <2>3 DEF JoinedInv
    <3>1. b \in DirectFlying /\ b \in Flying /\ attempt'[b] = attempt[b]
      BY <1>2 DEF DirectFlying
    <3>2. attempt[b].by \in Callers /\ attempt[b].by \notin pendingJoin.waiters
      BY <1>1, <3>1 DEF HeldInv
    <3>3. QED BY <1>1, <2>3, <3>1, <3>2 DEF JoinedInv
  <2>6. QED BY <2>3, <2>4, <2>5
<1>5. CASE pendingJoin.c # attempt[a].c
  <2>1. call' = call /\ pendingJoin' = pendingJoin
    BY <1>5 DEF Settle
  <2>2. HeldInv'
    BY <1>1, <1>2, <1>3, <2>1 DEF HeldInv
  <2>3. JoinedInv' /\ JoinIsReal'
    BY <1>1, <1>2, <2>1 DEF JoinedInv, JoinIsReal
  <2>4. QED BY <1>1, <2>1, <2>2, <2>3 DEF TypeOK
<1>6. QED BY <1>4, <1>5

-----------------------------------------------------------------------------
(* What a step leaves alone *)

LEMMA JoinsRest ==
  ASSUME RelaySocketInv, UNCHANGED <<pendingJoin, attempt, call>>,
         socket' = socket \/ socket # "up",
         \A a \in Attempts : /\ [id |-> a, reply |-> "ok"] \in acks' => [id |-> a, reply |-> "ok"] \in acks
                             /\ Outstanding(a)' => Outstanding(a)
  PROVE  AttemptInv' /\ HeldInv' /\ JoinedInv' /\ JoinIsReal'
<1>1. Flying' = Flying /\ DirectFlying' = DirectFlying /\ Flying \subseteq Attempts
  BY DEF Flying, DirectFlying
<1>2. AttemptInv'
  BY <1>1 DEF RelaySocketInv, AttemptInv
<1>3. HeldInv' /\ JoinIsReal'
  BY <1>1 DEF RelaySocketInv, HeldInv, JoinIsReal
<1>4. JoinedInv'
  BY <1>1 DEF RelaySocketInv, JoinedInv
<1>5. QED BY <1>2, <1>3, <1>4

LEMMA PacketsRest ==
  ASSUME RelaySocketInv, \A p \in Unread' : p \in Unread \/ p.ev = "leave",
         \A a \in Attempts : attempt'[a].c = attempt[a].c, closing' = closing
  PROVE  PacketInv'
<1>1. \A p \in Unread : p.ev = "join" => p.id \in Attempts
  BY UnreadPackets, PacketFields DEF RelaySocketInv
<1>2. QED BY <1>1 DEF RelaySocketInv, PacketInv

LEMMA DoneRests ==
  ASSUME RelaySocketInv, UNCHANGED <<closing, send>>, closed \subseteq closed',
         \A id \in Sends \cup {"close"} :
            [id |-> id, reply |-> "ok"] \in acks' => [id |-> id, reply |-> "ok"] \in acks,
         \A s \in Sends : Outstanding(s)' => Outstanding(s)
  PROVE  DoneInv' /\ ConfirmedIsDone'
  BY DEF RelaySocketInv, DoneInv, ConfirmedIsDone

\* Fewer packets and acknowledgements, and leaves, name fewer callbacks.
LEMMA FewerOutstanding ==
  ASSUME TypeOK, acks' \subseteq acks, \A p \in Unread' : p \in Unread \/ p.ev = "leave",
         Unread' \subseteq Packets
  PROVE  /\ \A a \in Attempts : Outstanding(a)' => Outstanding(a)
         /\ \A s \in Sends : Outstanding(s)' => Outstanding(s)
<1>1. \A p \in Unread' : p \in Unread \/ p.id = None
  BY PacketFields
<1>2. \A id : Outstanding(id)' <=> (\E p \in Unread' : p.id = id) \/ (\E k \in acks' : k.id = id)
  BY DEF Outstanding, Unread
<1>3. QED BY <1>1, <1>2, Outstandings

LEMMA FlownAttempt ==
  ASSUME TypeOK, NEW a \in Attempts, NEW kind \in {"direct", "deferred", "auto"},
         NEW c \in Channels, NEW q \in Callers \cup {None}, Fly(a, kind, c, q)
  PROVE  /\ attempt' \in [Attempts -> AttemptType]
         /\ attempt'[a].pc = "flying" /\ attempt'[a].kind = kind /\ attempt'[a].c = c
         /\ attempt'[a].by = q /\ attempt'[a].own = TRUE
         /\ \A b \in Attempts : b # a => attempt'[b] = attempt[b]
         /\ Flying' = Flying \cup {a}
<1> DEFINE t == [pc |-> "flying", kind |-> kind, c |-> c, by |-> q, own |-> TRUE]
<1>1. /\ t \in AttemptType
      /\ t.pc = "flying" /\ t.kind = kind /\ t.c = c /\ t.by = q /\ t.own = TRUE
  BY DEF AttemptType
<1>2. attempt' = [attempt EXCEPT ![a] = t]
  BY DEF Fly
<1> HIDE DEF t
<1>3. /\ attempt' \in [Attempts -> AttemptType]
      /\ attempt'[a] = t
      /\ \A b \in Attempts : b # a => attempt'[b] = attempt[b]
  BY <1>1, <1>2 DEF TypeOK
<1>4. Flying' = Flying \cup {a}
  BY <1>1, <1>3 DEF Flying
<1>5. QED BY <1>1, <1>3, <1>4

LEMMA WaitingCall ==
  ASSUME TypeOK, NEW q \in Callers, NEW c \in Channels,
         NEW calls \in [Callers -> CallType], NEW w, w = Waiting(q, c, calls)
  PROVE  /\ w \in [Callers -> CallType]
         /\ w[q].pc = "waiting" /\ w[q].c = c /\ ~w[q].joined
         /\ \A r \in Callers : r # q => w[r] = calls[r]
<1> DEFINE t == [NoCall EXCEPT !.pc = "waiting", !.c = c]
<1>1. /\ t \in CallType /\ t.pc = "waiting" /\ t.c = c /\ ~t.joined
  BY DEF CallType, NoCall
<1>2. w = [calls EXCEPT ![q] = t]
  BY DEF Waiting
<1> HIDE DEF t
<1>3. QED BY <1>1, <1>2

-----------------------------------------------------------------------------
(* Calls of the application *)

LEMMA ConnectInv == RelaySocketInv /\ Connect => RelaySocketInv'
<1> SUFFICES ASSUME RelaySocketInv, Connect PROVE RelaySocketInv'
  OBVIOUS
<1>1. /\ socket # "up" /\ socket' = "down"
      /\ UNCHANGED <<channelId, pendingJoin, attempt, call, send, closing, pipe, acks, member,
                     closed, wanted, handed>>
  BY DEF Connect, relay
<1>2. TypeOK' /\ LeftStaysLeft' /\ HandedOverOnce'
  BY <1>1 DEF RelaySocketInv, TypeOK, LeftStaysLeft, HandedOverOnce
<1>3. Unread' = Unread /\ WireInv'
  BY <1>1, WireRests DEF RelaySocketInv, WireInv
<1>4. \A id : Outstanding(id)' <=> Outstanding(id)
  BY <1>1 DEF Outstanding
<1>5. AttemptInv' /\ HeldInv' /\ JoinedInv' /\ JoinIsReal'
  BY <1>1, <1>4, JoinsRest
<1>6. PacketInv'
  BY <1>1, <1>3, PacketsRest
<1>7. DoneInv' /\ ConfirmedIsDone'
  BY <1>1, <1>4, DoneRests
<1>8. QED BY <1>2, <1>3, <1>5, <1>6, <1>7 DEF RelaySocketInv

LEMMA JoinImmediatelyInv ==
  ASSUME RelaySocketInv, NEW q \in Callers, NEW c \in Channels, NEW a \in Attempts,
         JoinImmediately(q, c, a)
  PROVE  RelaySocketInv'
<1>1. /\ UNCHANGED <<socket, pendingJoin, send, closing, acks, member, closed, handed>>
      /\ socket = "up" /\ call[q].pc = "idle" /\ channelId' = c /\ wanted' = c
      /\ Usable(a) /\ call' = Waiting(q, c, call) /\ Fly(a, "direct", c, q)
      /\ pipe' = Append(pipe, Packet("join", c, a))
  BY DEF JoinImmediately, AskFor
<1>2. TypeOK /\ WireInv /\ attempt[a].pc = "free" /\ ~Outstanding(a)
  BY <1>1 DEF RelaySocketInv, Usable
<1>3. /\ attempt' \in [Attempts -> AttemptType]
      /\ attempt'[a].pc = "flying" /\ attempt'[a].kind = "direct" /\ attempt'[a].c = c
      /\ attempt'[a].by = q /\ attempt'[a].own = TRUE
      /\ \A b \in Attempts : b # a => attempt'[b] = attempt[b]
      /\ Flying' = Flying \cup {a}
  BY <1>1, <1>2, FlownAttempt
<1>4. /\ call' \in [Callers -> CallType]
      /\ call'[q].pc = "waiting" /\ call'[q].c = c /\ ~call'[q].joined
      /\ \A r \in Callers : r # q => call'[r] = call[r]
  BY <1>1, <1>2, WaitingCall DEF TypeOK
<1>5. /\ Packet("join", c, a) \in Packets /\ Packet("join", c, a).ev = "join"
      /\ Packet("join", c, a).c = c /\ Packet("join", c, a).id = a
  BY PacketBuilt
<1>6. pipe' \in Seq(Packets) /\ Unread' = Unread \cup {Packet("join", c, a)} /\ WireInv'
  BY <1>1, <1>2, <1>5, SentOn
<1>7. TypeOK'
  BY <1>1, <1>2, <1>3, <1>4, <1>6 DEF TypeOK
<1>8. \A id : Outstanding(id)' <=> Outstanding(id) \/ id = a
  <2>1. \A id : Outstanding(id)' <=> (\E p \in Unread' : p.id = id) \/ (\E k \in acks' : k.id = id)
    BY DEF Outstanding, Unread
  <2>2. QED BY <1>1, <1>5, <1>6, <2>1, Outstandings
<1>9. /\ a \notin Flying /\ Flying \subseteq Attempts /\ a \notin DirectFlying
      /\ DirectFlying' = DirectFlying \cup {a}
      /\ \A b \in DirectFlying : b # a /\ attempt'[b] = attempt[b]
  BY <1>2, <1>3 DEF Flying, DirectFlying
<1>10. AttemptInv'
  BY <1>1, <1>2, <1>3, <1>8, <1>9 DEF RelaySocketInv, AttemptInv
<1>11. /\ q \notin pendingJoin.waiters /\ pendingJoin.waiters \subseteq Callers
       /\ \A b \in DirectFlying : attempt[b].by # q
  BY <1>1, <1>2 DEF RelaySocketInv, HeldInv, TypeOK
<1>12. HeldInv'
  <2>1. \A r \in pendingJoin'.waiters : call'[r].pc = "waiting" /\ call'[r].c = pendingJoin'.c
    BY <1>1, <1>4, <1>11 DEF RelaySocketInv, HeldInv
  <2>2. \A b \in DirectFlying' :
          /\ attempt'[b].by \in Callers \ pendingJoin'.waiters
          /\ call'[attempt'[b].by].pc = "waiting" /\ call'[attempt'[b].by].c = attempt'[b].c
    BY <1>1, <1>3, <1>4, <1>9, <1>11 DEF RelaySocketInv, HeldInv
  <2>3. \A b, d \in DirectFlying' : attempt'[b].by = attempt'[d].by => b = d
    BY <1>3, <1>9, <1>11 DEF RelaySocketInv, HeldInv
  <2>4. \A r \in Callers : call'[r].pc = "waiting" =>
          r \in pendingJoin'.waiters \/ \E b \in DirectFlying' : attempt'[b].by = r
    BY <1>1, <1>3, <1>4, <1>9 DEF RelaySocketInv, HeldInv
  <2>5. QED BY <2>1, <2>2, <2>3, <2>4 DEF HeldInv
<1>13. JoinedInv'
  <2> SUFFICES ASSUME NEW b \in Flying', [id |-> b, reply |-> "ok"] \in acks'
               PROVE  IF attempt'[b].kind = "direct"
                        THEN call'[attempt'[b].by].accepted
                        ELSE pendingJoin'.c = attempt'[b].c =>
                               \A r \in pendingJoin'.waiters : call'[r].accepted
    BY DEF JoinedInv
  <2>1. [id |-> b, reply |-> "ok"] \in acks /\ [id |-> b, reply |-> "ok"].id = b
    BY <1>1
  <2>2. b # a
    BY <1>2, <2>1, Outstandings
  <2>3. b \in Flying /\ attempt'[b] = attempt[b]
    BY <1>3, <1>9, <2>2
  <2>4. CASE attempt[b].kind = "direct"
    <3>1. b \in DirectFlying
      BY <2>3, <2>4 DEF DirectFlying
    <3>2. attempt[b].by \in Callers /\ attempt[b].by # q
      BY <1>11, <3>1 DEF RelaySocketInv, HeldInv
    <3>3. QED BY <1>4, <2>1, <2>3, <2>4, <3>2 DEF RelaySocketInv, JoinedInv
  <2>5. CASE attempt[b].kind # "direct"
    BY <1>1, <1>4, <1>11, <2>1, <2>3, <2>5 DEF RelaySocketInv, JoinedInv
  <2>6. QED BY <2>4, <2>5
<1>14. PacketInv'
  <2>1. \A p \in Unread : p.ev = "join" => p.id \in Attempts /\ p.id # a
    BY <1>2, UnreadPackets, PacketFields, Outstandings
  <2>2. QED BY <1>1, <1>3, <1>5, <1>6, <2>1 DEF RelaySocketInv, PacketInv
<1>15. DoneInv' /\ ConfirmedIsDone'
  BY <1>1, <1>8, DoneRests
<1>16. JoinIsReal' /\ LeftStaysLeft' /\ HandedOverOnce'
  BY <1>1, <1>4 DEF RelaySocketInv, JoinIsReal, LeftStaysLeft, HandedOverOnce
<1>17. QED BY <1>6, <1>7, <1>10, <1>12, <1>13, <1>14, <1>15, <1>16 DEF RelaySocketInv

LEMMA JoinLaterInv ==
  ASSUME RelaySocketInv, NEW q \in Callers, NEW c \in Channels, JoinLater(q, c)
  PROVE  RelaySocketInv'
<1>1. /\ UNCHANGED <<socket, attempt, send, closing, pipe, acks, member, closed, handed>>
      /\ socket # "up" /\ call[q].pc = "idle" /\ channelId' = c /\ wanted' = c
  BY DEF JoinLater, AskFor, relay
<1>2. TypeOK /\ WireInv /\ HeldInv /\ JoinIsReal /\ acks = {} /\ pendingJoin.waiters \subseteq Callers
  BY <1>1 DEF RelaySocketInv, WireInv, TypeOK
<1>3. Flying' = Flying /\ DirectFlying' = DirectFlying
  BY <1>1 DEF Flying, DirectFlying
<1>4. q \notin pendingJoin.waiters /\ \A a \in DirectFlying : attempt[a].by # q
  BY <1>1, <1>2 DEF HeldInv
<1>5. /\ call' \in [Callers -> CallType]
      /\ pendingJoin' \in [c : Channels \cup {None}, waiters : SUBSET Callers]
      /\ HeldInv' /\ JoinIsReal'
  <2>1. CASE pendingJoin.c = c
    <3>1. pendingJoin' = [pendingJoin EXCEPT !.waiters = @ \cup {q}] /\ call' = Waiting(q, c, call)
      BY <2>1 DEF JoinLater
    <3>2. /\ pendingJoin' \in [c : Channels \cup {None}, waiters : SUBSET Callers]
          /\ pendingJoin'.c = c /\ pendingJoin'.waiters = pendingJoin.waiters \cup {q}
      BY <1>2, <2>1, <3>1 DEF TypeOK
    <3>3. /\ call' \in [Callers -> CallType]
          /\ call'[q].pc = "waiting" /\ call'[q].c = c /\ ~call'[q].joined
          /\ \A r \in Callers : r # q => call'[r] = call[r]
      BY <1>2, <3>1, WaitingCall DEF TypeOK
    <3>4. HeldInv'
      BY <1>1, <1>2, <1>3, <1>4, <2>1, <3>2, <3>3 DEF HeldInv
    <3>5. JoinIsReal'
      BY <1>2, <3>3 DEF JoinIsReal
    <3>6. QED BY <3>2, <3>3, <3>4, <3>5
  <2>2. CASE pendingJoin.c # c
    <3> DEFINE told == Told(pendingJoin.waiters, FALSE)
    <3>1. pendingJoin' = [c |-> c, waiters |-> {q}] /\ call' = Waiting(q, c, told)
      BY <2>2 DEF JoinLater
    <3>2. /\ pendingJoin' \in [c : Channels \cup {None}, waiters : SUBSET Callers]
          /\ pendingJoin'.c = c /\ pendingJoin'.waiters = {q}
      BY <3>1
    <3>3. /\ told \in [Callers -> CallType]
          /\ \A r \in Callers : r \notin pendingJoin.waiters => told[r] = call[r]
          /\ \A r \in Callers : r \in pendingJoin.waiters => told[r] = NoCall
      <4>1. told = [r \in Callers |-> IF r \notin pendingJoin.waiters THEN call[r] ELSE NoCall]
        BY DEF Told
      <4> HIDE DEF told
      <4>2. QED BY <1>2, <4>1, NoCallType DEF TypeOK
    <3> HIDE DEF told
    <3>4. /\ call' \in [Callers -> CallType]
          /\ call'[q].pc = "waiting" /\ call'[q].c = c /\ ~call'[q].joined
          /\ \A r \in Callers : r # q => call'[r] = told[r]
      BY <1>2, <3>1, <3>3, WaitingCall
    <3>5. \A r \in Callers : r # q =>
            IF r \in pendingJoin.waiters THEN call'[r] = NoCall ELSE call'[r] = call[r]
      BY <3>3, <3>4
    <3>6. HeldInv'
      <4>1. \A r \in pendingJoin'.waiters : call'[r].pc = "waiting" /\ call'[r].c = pendingJoin'.c
        BY <3>2, <3>4
      <4>2. \A b \in DirectFlying' :
              /\ attempt'[b].by \in Callers \ pendingJoin'.waiters
              /\ call'[attempt'[b].by].pc = "waiting" /\ call'[attempt'[b].by].c = attempt'[b].c
        BY <1>1, <1>2, <1>3, <1>4, <3>2, <3>5 DEF HeldInv
      <4>3. \A b, d \in DirectFlying' : attempt'[b].by = attempt'[d].by => b = d
        BY <1>1, <1>2, <1>3 DEF HeldInv
      <4>4. \A r \in Callers : call'[r].pc = "waiting" =>
              r \in pendingJoin'.waiters \/ \E b \in DirectFlying' : attempt'[b].by = r
        BY <1>1, <1>2, <1>3, <3>2, <3>5, NoCallType DEF HeldInv
      <4>5. QED BY <4>1, <4>2, <4>3, <4>4 DEF HeldInv
    <3>7. JoinIsReal'
      BY <1>2, <3>4, <3>5, NoCallType DEF JoinIsReal
    <3>8. QED BY <3>2, <3>4, <3>6, <3>7
  <2>3. QED BY <2>1, <2>2
<1>6. TypeOK'
  BY <1>1, <1>2, <1>5 DEF TypeOK
<1>7. Unread' = Unread /\ WireInv'
  BY <1>1, <1>2, WireRests
<1>8. \A id : Outstanding(id)' <=> Outstanding(id)
  BY <1>1 DEF Outstanding
<1>9. AttemptInv'
  BY <1>1, <1>3, <1>8 DEF RelaySocketInv, AttemptInv
<1>10. JoinedInv'
  BY <1>1, <1>2 DEF JoinedInv
<1>11. PacketInv'
  BY <1>1, <1>7, PacketsRest
<1>12. DoneInv' /\ ConfirmedIsDone'
  BY <1>1, <1>8, DoneRests
<1>13. LeftStaysLeft' /\ HandedOverOnce'
  BY <1>1 DEF RelaySocketInv, LeftStaysLeft, HandedOverOnce
<1>14. QED BY <1>5, <1>6, <1>7, <1>9, <1>10, <1>11, <1>12, <1>13 DEF RelaySocketInv

LEMMA SendChanged ==
  ASSUME NEW t \in SendType, NEW b \in BOOLEAN
  PROVE  /\ [t EXCEPT !.routed = b] \in SendType
         /\ [t EXCEPT !.routed = b].routed = b
         /\ [t EXCEPT !.routed = b].pc = t.pc /\ [t EXCEPT !.routed = b].sent = t.sent
         /\ [t EXCEPT !.pc = "idle", !.sent = TRUE] \in SendType
         /\ [t EXCEPT !.pc = "idle", !.sent = TRUE].pc = "idle"
         /\ t.routed => [t EXCEPT !.pc = "idle", !.sent = TRUE].routed
<1>1. /\ [t EXCEPT !.routed = b] \in SendType /\ [t EXCEPT !.routed = b].routed = b
      /\ [t EXCEPT !.routed = b].pc = t.pc /\ [t EXCEPT !.routed = b].sent = t.sent
  BY DEF SendType
<1>2. /\ [t EXCEPT !.pc = "idle", !.sent = TRUE] \in SendType
      /\ [t EXCEPT !.pc = "idle", !.sent = TRUE].pc = "idle"
      /\ t.routed => [t EXCEPT !.pc = "idle", !.sent = TRUE].routed
  BY DEF SendType
<1>3. QED BY <1>1, <1>2

LEMMA NoSendType ==
  /\ NoSend \in SendType /\ NoSend.pc = "idle" /\ ~NoSend.sent
  /\ [NoSend EXCEPT !.pc = "flying"] \in SendType
  /\ [NoSend EXCEPT !.pc = "flying"].pc = "flying"
  /\ ~[NoSend EXCEPT !.pc = "flying"].sent
  BY DEF NoSend, SendType

LEMMA SendMessageInv ==
  ASSUME RelaySocketInv, NEW s \in Sends, SendMessage(s) PROVE RelaySocketInv'
<1>1. /\ UNCHANGED <<socket, channelId, pendingJoin, attempt, call, closing, acks, member,
                     closed, wanted, handed>>
      /\ socket = "up" /\ ~Outstanding(s)
      /\ send' = [send EXCEPT ![s] = [NoSend EXCEPT !.pc = "flying"]]
      /\ pipe' = Append(pipe, Packet("message", None, s))
  BY DEF SendMessage
<1>2. TypeOK /\ WireInv
  BY DEF RelaySocketInv
<1>3. /\ Packet("message", None, s) \in Packets
      /\ Packet("message", None, s).ev = "message" /\ Packet("message", None, s).id = s
  BY MessageBuilt
<1>4. /\ pipe' \in Seq(Packets) /\ Unread' = Unread \cup {Packet("message", None, s)} /\ WireInv'
  BY <1>1, <1>2, <1>3, SentOn
<1>5. /\ send' \in [Sends -> SendType] /\ send'[s].pc = "flying" /\ ~send'[s].sent
      /\ \A t \in Sends : t # s => send'[t] = send[t]
  BY <1>1, <1>2, NoSendType DEF TypeOK
<1>6. TypeOK'
  BY <1>1, <1>2, <1>4, <1>5 DEF TypeOK
<1>7. \A id : Outstanding(id)' <=> Outstanding(id) \/ id = s
  <2>1. \A id : Outstanding(id)' <=> (\E p \in Unread' : p.id = id) \/ (\E k \in acks' : k.id = id)
    BY DEF Outstanding, Unread
  <2>2. QED BY <1>1, <1>3, <1>4, <2>1, Outstandings
<1>8. AttemptInv' /\ HeldInv' /\ JoinedInv' /\ JoinIsReal'
  BY <1>1, <1>7, JoinsRest
<1>9. PacketInv'
  BY <1>1, <1>3, <1>4, UnreadPackets, PacketFields, <1>2 DEF RelaySocketInv, PacketInv
<1>10. [id |-> s, reply |-> "ok"] \notin acks
  BY <1>1, Outstandings
<1>11. DoneInv' /\ ConfirmedIsDone'
  BY <1>1, <1>5, <1>7, <1>10 DEF RelaySocketInv, DoneInv, ConfirmedIsDone
<1>12. LeftStaysLeft' /\ HandedOverOnce'
  BY <1>1 DEF RelaySocketInv, LeftStaysLeft, HandedOverOnce
<1>13. QED BY <1>4, <1>6, <1>8, <1>9, <1>11, <1>12 DEF RelaySocketInv

LEMMA LeaveChannelInv == RelaySocketInv /\ LeaveChannel => RelaySocketInv'
<1> SUFFICES ASSUME RelaySocketInv, LeaveChannel PROVE RelaySocketInv'
  OBVIOUS
<1>1. /\ UNCHANGED <<socket, send, closing, acks, member, closed, handed>>
      /\ RejectJoins /\ channelId' = None /\ wanted' = None
      /\ \/ socket = "up" /\ pipe' = Append(pipe, Packet("leave", channelId, None))
         \/ pipe' = pipe
  BY DEF LeaveChannel
<1>2. TypeOK /\ WireInv
  BY DEF RelaySocketInv
<1>3. /\ Packet("leave", channelId, None) \in Packets
      /\ Packet("leave", channelId, None).ev = "leave"
  BY <1>2, LeaveBuilt DEF TypeOK
<1>4. /\ call' \in [Callers -> CallType] /\ attempt' \in [Attempts -> AttemptType]
      /\ pendingJoin' \in [c : Channels \cup {None}, waiters : SUBSET Callers]
      /\ \A a \in Attempts : attempt'[a].c = attempt[a].c
      /\ AttemptInv' /\ HeldInv' /\ JoinedInv' /\ JoinIsReal'
  BY <1>1, JoinsRejected
<1>5. /\ pipe' \in Seq(Packets) /\ WireInv'
      /\ \A p \in Unread' : p \in Unread \/ p.ev = "leave"
  <2>1. CASE socket = "up" /\ pipe' = Append(pipe, Packet("leave", channelId, None))
    BY <1>1, <1>2, <1>3, <2>1, SentOn
  <2>2. CASE pipe' = pipe
    BY <1>1, <1>2, <2>2, WireRests
  <2>3. QED BY <1>1, <2>1, <2>2
<1>6. TypeOK'
  BY <1>1, <1>2, <1>4, <1>5 DEF TypeOK
<1>7. Unread' \subseteq Packets
  BY <1>5 DEF Unread
<1>8. \A s \in Sends : Outstanding(s)' => Outstanding(s)
  BY <1>1, <1>2, <1>5, <1>7, FewerOutstanding
<1>9. PacketInv' /\ DoneInv' /\ ConfirmedIsDone'
  BY <1>1, <1>4, <1>5, <1>8, PacketsRest, DoneRests
<1>10. LeftStaysLeft' /\ HandedOverOnce'
  BY <1>1 DEF RelaySocketInv, LeftStaysLeft, HandedOverOnce
<1>11. QED BY <1>4, <1>5, <1>6, <1>9, <1>10 DEF RelaySocketInv

LEMMA CloseChannelInv == RelaySocketInv /\ CloseChannel => RelaySocketInv'
<1> SUFFICES ASSUME RelaySocketInv, CloseChannel PROVE RelaySocketInv'
  OBVIOUS
<1>1. /\ UNCHANGED <<socket, send, acks, member, closed, handed>>
      /\ RejectJoins /\ channelId' = None /\ wanted' = None
  BY DEF CloseChannel
<1>2. TypeOK /\ WireInv
  BY DEF RelaySocketInv
<1>3. /\ call' \in [Callers -> CallType] /\ attempt' \in [Attempts -> AttemptType]
      /\ pendingJoin' \in [c : Channels \cup {None}, waiters : SUBSET Callers]
      /\ \A a \in Attempts : attempt'[a].c = attempt[a].c
      /\ AttemptInv' /\ HeldInv' /\ JoinedInv' /\ JoinIsReal'
  BY <1>1, JoinsRejected
<1>4. LeftStaysLeft' /\ HandedOverOnce'
  BY <1>1 DEF RelaySocketInv, LeftStaysLeft, HandedOverOnce
<1>5. CASE socket = "up" /\ channelId # None
  <2>1. /\ ~Outstanding("close")
        /\ closing' = [NoClosing EXCEPT !.pc = "flying", !.c = channelId]
        /\ pipe' = Append(pipe, Packet("close", channelId, "close"))
        /\ channelId \in Channels
    BY <1>2, <1>5 DEF CloseChannel, TypeOK
  <2>2. /\ Packet("close", channelId, "close") \in Packets
        /\ Packet("close", channelId, "close").ev = "close"
        /\ Packet("close", channelId, "close").c = channelId
        /\ Packet("close", channelId, "close").id = "close"
    BY <2>1, PacketBuilt
  <2>3. /\ closing' \in ClosingType /\ closing'.c = channelId /\ ~closing'.confirmed
    BY <2>1 DEF ClosingType, NoClosing
  <2>4. /\ pipe' \in Seq(Packets)
        /\ Unread' = Unread \cup {Packet("close", channelId, "close")} /\ WireInv'
    BY <1>1, <1>2, <1>5, <2>1, <2>2, SentOn
  <2>5. TypeOK'
    BY <1>1, <1>2, <1>3, <2>3, <2>4 DEF TypeOK
  <2>6. \A p \in Unread : /\ p.ev = "join" => p.id \in Attempts
                          /\ p.ev # "close"
    BY <1>2, <2>1, UnreadPackets, PacketFields, Outstandings
  <2>7. PacketInv'
    BY <1>3, <2>2, <2>3, <2>4, <2>6 DEF RelaySocketInv, PacketInv
  <2>8. \A id : Outstanding(id)' <=> Outstanding(id) \/ id = "close"
    <3>1. \A id : Outstanding(id)' <=> (\E p \in Unread' : p.id = id) \/ (\E k \in acks' : k.id = id)
      BY DEF Outstanding, Unread
    <3>2. QED BY <1>1, <2>2, <2>4, <3>1, Outstandings
  <2>9. [id |-> "close", reply |-> "ok"] \notin acks
    BY <2>1, Outstandings
  <2>10. DoneInv' /\ ConfirmedIsDone'
    BY <1>1, <2>3, <2>8, <2>9 DEF RelaySocketInv, DoneInv, ConfirmedIsDone
  <2>11. QED BY <1>3, <1>4, <2>4, <2>5, <2>7, <2>10 DEF RelaySocketInv
<1>6. CASE ~(socket = "up" /\ channelId # None)
  <2>1. UNCHANGED <<closing, pipe>>
    BY <1>6 DEF CloseChannel
  <2>2. pipe' \in Seq(Packets) /\ Unread' = Unread /\ WireInv'
    BY <1>1, <1>2, <2>1, WireRests
  <2>3. TypeOK'
    BY <1>1, <1>2, <1>3, <2>1, <2>2 DEF TypeOK
  <2>4. \A s \in Sends : Outstanding(s)' => Outstanding(s)
    BY <1>1, <2>1 DEF Outstanding
  <2>5. PacketInv' /\ DoneInv' /\ ConfirmedIsDone'
    BY <1>1, <1>3, <2>1, <2>2, <2>4, PacketsRest, DoneRests
  <2>6. QED BY <1>3, <1>4, <2>2, <2>3, <2>5 DEF RelaySocketInv
<1>7. QED BY <1>5, <1>6

\* A connection that is gone leaves sends that are not sent, or were.
LEMMA SendsRejectedInv ==
  ASSUME RelaySocketInv, send' = SendsRejected, UNCHANGED <<closing, closed>>, ConnectionGone
  PROVE  send' \in [Sends -> SendType] /\ DoneInv' /\ ConfirmedIsDone'
<1>1. send' = [s \in Sends |-> IF send[s].pc = "flying" THEN NoSend ELSE send[s]]
  BY DEF SendsRejected
<1>2. send' \in [Sends -> SendType]
  BY <1>1, NoSendType DEF RelaySocketInv, TypeOK
<1>3. acks' = {} /\ \A id : ~Outstanding(id)'
  BY WireGone
<1>4. DoneInv'
  BY <1>3 DEF DoneInv
<1>5. ConfirmedIsDone'
  BY <1>1, NoSendType DEF RelaySocketInv, ConfirmedIsDone
<1>6. QED BY <1>2, <1>4, <1>5

LEMMA DisconnectInv == RelaySocketInv /\ Disconnect => RelaySocketInv'
<1> SUFFICES ASSUME RelaySocketInv, Disconnect PROVE RelaySocketInv'
  OBVIOUS
<1>1. /\ UNCHANGED <<closing, closed, handed>> /\ RejectJoins /\ ConnectionGone
      /\ channelId' = None /\ wanted' = None /\ socket' = "none" /\ send' = SendsRejected
      /\ member' = {}
  BY DEF Disconnect, ConnectionGone
<1>2. /\ call' \in [Callers -> CallType] /\ attempt' \in [Attempts -> AttemptType]
      /\ pendingJoin' \in [c : Channels \cup {None}, waiters : SUBSET Callers]
      /\ AttemptInv' /\ HeldInv' /\ JoinedInv' /\ JoinIsReal'
  BY <1>1, JoinsRejected
<1>3. pipe' \in Seq(Packets) /\ acks' = {} /\ WireInv' /\ PacketInv'
  BY <1>1, WireGone
<1>4. send' \in [Sends -> SendType] /\ DoneInv' /\ ConfirmedIsDone'
  BY <1>1, SendsRejectedInv
<1>5. TypeOK'
  BY <1>1, <1>2, <1>3, <1>4 DEF RelaySocketInv, TypeOK
<1>6. LeftStaysLeft' /\ HandedOverOnce'
  BY <1>1 DEF RelaySocketInv, LeftStaysLeft, HandedOverOnce
<1>7. QED BY <1>2, <1>3, <1>4, <1>5, <1>6 DEF RelaySocketInv

-----------------------------------------------------------------------------
(* Events of the transport *)

LEMMA TransportUpInv == RelaySocketInv /\ TransportUp => RelaySocketInv'
<1> SUFFICES ASSUME RelaySocketInv, TransportUp PROVE RelaySocketInv'
  OBVIOUS
<1>1. /\ UNCHANGED <<channelId, pendingJoin, call, send, closing, acks, member, closed,
                     wanted, handed>>
      /\ socket = "down" /\ socket' = "up"
  BY DEF TransportUp
<1>2. TypeOK /\ WireInv /\ pipe = <<>> /\ acks = {}
  BY <1>1 DEF RelaySocketInv, WireInv
<1>3. Unread = {}
  BY <1>2 DEF Unread
<1>4. \A b \in Flying : ~attempt[b].own
  BY <1>1 DEF RelaySocketInv, AttemptInv, Flying
<1>5. JoinedInv' /\ JoinIsReal' /\ LeftStaysLeft' /\ HandedOverOnce'
  BY <1>1, <1>2 DEF RelaySocketInv, JoinedInv, JoinIsReal, LeftStaysLeft, HandedOverOnce
<1>6. CASE channelId = None
  <2>1. attempt' = attempt /\ pipe' = pipe
    BY <1>6 DEF TransportUp
  <2>2. pipe' \in Seq(Packets) /\ Unread' = Unread /\ WireInv'
    BY <1>1, <1>2, <2>1, WireRests
  <2>3. TypeOK'
    BY <1>1, <1>2, <2>1, <2>2 DEF TypeOK
  <2>4. \A id : Outstanding(id)' <=> Outstanding(id)
    BY <1>1, <2>1 DEF Outstanding
  <2>5. AttemptInv' /\ HeldInv'
    BY <1>1, <2>1, <2>4, JoinsRest
  <2>6. PacketInv' /\ DoneInv' /\ ConfirmedIsDone'
    BY <1>1, <2>1, <2>2, <2>4, PacketsRest, DoneRests
  <2>7. QED BY <1>5, <2>2, <2>3, <2>5, <2>6 DEF RelaySocketInv
<1>7. CASE channelId # None
  <2> DEFINE kind == IF pendingJoin.c = channelId THEN "deferred" ELSE "auto"
  <2>1. PICK a \in Attempts : /\ Usable(a) /\ Fly(a, kind, channelId, None)
                              /\ pipe' = Append(pipe, Packet("join", channelId, a))
    BY <1>7 DEF TransportUp
  <2>2. channelId \in Channels /\ kind \in {"direct", "deferred", "auto"} /\ kind # "direct"
        /\ (kind = "auto" => pendingJoin.c # channelId)
    BY <1>2, <1>7 DEF TypeOK
  <2> HIDE DEF kind
  <2>3. attempt[a].pc = "free" /\ ~Outstanding(a)
    BY <2>1 DEF Usable
  <2>4. /\ attempt' \in [Attempts -> AttemptType]
        /\ attempt'[a].pc = "flying" /\ attempt'[a].kind = kind /\ attempt'[a].c = channelId
        /\ attempt'[a].own = TRUE
        /\ \A b \in Attempts : b # a => attempt'[b] = attempt[b]
        /\ Flying' = Flying \cup {a}
    <3>1. None \in Callers \cup {None}
      OBVIOUS
    <3>2. QED BY <1>2, <2>1, <2>2, <3>1, FlownAttempt DEF Fly
  <2>5. /\ Packet("join", channelId, a) \in Packets /\ Packet("join", channelId, a).ev = "join"
        /\ Packet("join", channelId, a).c = channelId /\ Packet("join", channelId, a).id = a
    BY <2>2, PacketBuilt
  <2>6. /\ pipe' = <<Packet("join", channelId, a)>> /\ pipe' \in Seq(Packets)
        /\ Len(pipe') = 1 /\ pipe'[1] = Packet("join", channelId, a)
    BY <1>2, <2>1, <2>5
  <2>7. Unread' = {Packet("join", channelId, a)}
    BY <2>6 DEF Unread
  <2>8. WireInv'
    BY <1>1, <1>2, <2>6 DEF WireInv
  <2>9. TypeOK'
    BY <1>1, <1>2, <2>4, <2>6 DEF TypeOK
  <2>10. \A id : Outstanding(id)' => id = a
    <3>1. \A id : Outstanding(id)' <=> (\E p \in Unread' : p.id = id) \/ (\E k \in acks' : k.id = id)
      BY DEF Outstanding, Unread
    <3>2. QED BY <1>1, <1>2, <2>5, <2>7, <3>1
  <2>11. AttemptInv'
    <3>1. \A b \in Flying : b \in Attempts /\ b # a /\ attempt'[b] = attempt[b]
      BY <2>3, <2>4 DEF Flying
    <3>2. QED BY <1>1, <1>4, <2>2, <2>3, <2>4, <2>10, <3>1 DEF RelaySocketInv, AttemptInv
  <2>12. HeldInv'
    <3>1. DirectFlying' = DirectFlying /\ \A b \in DirectFlying : attempt'[b] = attempt[b]
      BY <2>2, <2>3, <2>4 DEF DirectFlying, Flying
    <3>2. QED BY <1>1, <3>1 DEF RelaySocketInv, HeldInv
  <2>13. PacketInv'
    BY <2>4, <2>5, <2>7 DEF PacketInv
  <2>14. DoneInv' /\ ConfirmedIsDone'
    BY <1>1, <2>10, DoneRests
  <2>15. QED BY <1>5, <2>8, <2>9, <2>11, <2>12, <2>13, <2>14 DEF RelaySocketInv
<1>8. QED BY <1>6, <1>7

LEMMA TransportDownInv == RelaySocketInv /\ TransportDown => RelaySocketInv'
<1> SUFFICES ASSUME RelaySocketInv, TransportDown PROVE RelaySocketInv'
  OBVIOUS
<1> DEFINE qs == {attempt[a].by : a \in DirectFlying}
<1>1. /\ UNCHANGED <<channelId, pendingJoin, closing, closed, wanted, handed>>
      /\ socket' \in {"down", "stopped"} /\ call' = Told(qs, FALSE) /\ attempt' = Rejected
      /\ send' = SendsRejected /\ ConnectionGone /\ member' = {}
  BY DEF TransportDown, ConnectionGone
<1>2. TypeOK /\ AttemptInv /\ HeldInv /\ JoinIsReal
  BY DEF RelaySocketInv
<1>3. /\ attempt' \in [Attempts -> AttemptType]
      /\ \A a \in Attempts : /\ attempt'[a].pc # "flying"
                             /\ attempt'[a].c = attempt[a].c
                             /\ attempt'[a].pc # "free" => attempt[a].pc # "free"
  BY <1>1, <1>2, RejectedAttempts
<1>4. AttemptInv' /\ JoinedInv' /\ DirectFlying' = {}
  BY <1>2, <1>3, NoneFlying
<1>5. \A q \in Callers : call[q].pc = "waiting" => q \in pendingJoin.waiters \cup qs
  BY <1>2 DEF HeldInv
<1>6. \A q \in pendingJoin.waiters : q \in Callers /\ q \notin qs
  BY <1>2 DEF HeldInv, TypeOK
<1> HIDE DEF qs
<1>7. /\ call' \in [Callers -> CallType]
      /\ \A q \in Callers : q \notin qs => call'[q] = call[q]
      /\ \A q \in Callers : q \in qs => call'[q].pc = "idle" /\ ~call'[q].joined
  BY <1>1, <1>2, ToldOfFailure
<1>8. HeldInv'
  <2>1. \A q \in pendingJoin'.waiters : call'[q].pc = "waiting" /\ call'[q].c = pendingJoin'.c
    <3>1. \A q \in pendingJoin.waiters : call'[q] = call[q]
      BY <1>6, <1>7
    <3>2. \A q \in pendingJoin.waiters : call[q].pc = "waiting" /\ call[q].c = pendingJoin.c
      BY <1>2 DEF HeldInv
    <3>3. pendingJoin' = pendingJoin
      BY <1>1
    <3>4. QED BY <3>1, <3>2, <3>3
  <2>2. \A q \in Callers : call'[q].pc = "waiting" => q \in pendingJoin'.waiters
    BY <1>1, <1>5, <1>7
  <2>3. QED BY <1>4, <2>1, <2>2 DEF HeldInv
<1>9. JoinIsReal'
  BY <1>2, <1>7 DEF JoinIsReal
<1>10. pipe' \in Seq(Packets) /\ acks' = {} /\ WireInv' /\ PacketInv'
  BY <1>1, WireGone
<1>11. send' \in [Sends -> SendType] /\ DoneInv' /\ ConfirmedIsDone'
  BY <1>1, SendsRejectedInv
<1>12. TypeOK'
  BY <1>1, <1>2, <1>3, <1>7, <1>10, <1>11 DEF TypeOK
<1>13. LeftStaysLeft' /\ HandedOverOnce'
  BY <1>1 DEF RelaySocketInv, LeftStaysLeft, HandedOverOnce
<1>14. QED BY <1>4, <1>8, <1>9, <1>10, <1>11, <1>12, <1>13 DEF RelaySocketInv

-----------------------------------------------------------------------------
(* The end of an attempt *)

LEMMA ReactionInv ==
  ASSUME RelaySocketInv, NEW a \in Attempts, Reaction(a) PROVE RelaySocketInv'
<1>1. /\ UNCHANGED <<socket, channelId, send, closing, pipe, acks, member, closed, wanted, handed>>
      /\ attempt[a].pc = "failing" /\ Settle(a, FALSE)
      /\ attempt' = [attempt EXCEPT ![a] = Settled(a)]
  BY DEF Reaction, relay
<1>2. TypeOK /\ WireInv /\ AttemptInv /\ a \notin DirectFlying
  BY <1>1 DEF RelaySocketInv, DirectFlying, Flying
<1>3. /\ call' \in [Callers -> CallType]
      /\ pendingJoin' \in [c : Channels \cup {None}, waiters : SUBSET Callers]
      /\ pendingJoin'.c \in {None, pendingJoin.c}
      /\ HeldInv' /\ JoinedInv' /\ JoinIsReal'
  BY <1>1, <1>2, JoinSettled
<1>4. /\ attempt' \in [Attempts -> AttemptType]
      /\ \A b \in Attempts : attempt'[b].c = attempt[b].c
  BY <1>1, <1>2, AttemptLanded
<1>5. \A id : Outstanding(id)' <=> Outstanding(id)
  BY <1>1 DEF Outstanding
<1>6. AttemptInv'
  BY <1>1, <1>2, <1>3, <1>5, LandedInv
<1>7. Unread' = Unread /\ WireInv'
  BY <1>1, <1>2, WireRests
<1>8. TypeOK'
  BY <1>1, <1>2, <1>3, <1>4 DEF TypeOK
<1>9. PacketInv' /\ DoneInv' /\ ConfirmedIsDone'
  BY <1>1, <1>4, <1>5, <1>7, PacketsRest, DoneRests
<1>10. LeftStaysLeft' /\ HandedOverOnce'
  BY <1>1 DEF RelaySocketInv, LeftStaysLeft, HandedOverOnce
<1>11. QED BY <1>3, <1>6, <1>7, <1>8, <1>9, <1>10 DEF RelaySocketInv

\* finish() with TRUE for an attempt the relay acknowledged, or with FALSE
LEMMA Finished ==
  ASSUME RelaySocketInv, NEW a \in Attempts, a \in Flying,
         \/ Finish(a, TRUE) /\ [id |-> a, reply |-> "ok"] \in acks
         \/ Finish(a, FALSE),
         acks' \subseteq acks, socket' = socket,
         \A b \in Attempts : Outstanding(b)' => Outstanding(b)
  PROVE  /\ attempt' \in [Attempts -> AttemptType]
         /\ call' \in [Callers -> CallType]
         /\ pendingJoin' \in [c : Channels \cup {None}, waiters : SUBSET Callers]
         /\ \A b \in Attempts : attempt'[b].c = attempt[b].c
         /\ AttemptInv' /\ HeldInv' /\ JoinedInv' /\ JoinIsReal'
<1>1. TypeOK /\ AttemptInv /\ attempt' = [attempt EXCEPT ![a] = Settled(a)]
  BY DEF RelaySocketInv, Finish
<1>2. /\ attempt' \in [Attempts -> AttemptType]
      /\ \A b \in Attempts : attempt'[b].c = attempt[b].c
  BY <1>1, AttemptLanded
<1>3. /\ call' \in [Callers -> CallType]
      /\ pendingJoin' \in [c : Channels \cup {None}, waiters : SUBSET Callers]
      /\ pendingJoin'.c \in {None, pendingJoin.c}
      /\ HeldInv' /\ JoinedInv' /\ JoinIsReal'
  <2>1. CASE attempt[a].kind = "direct"
    <3>1. a \in DirectFlying
      BY <2>1 DEF DirectFlying
    <3>2. /\ pendingJoin' = pendingJoin
          /\ \/ call' = Told({attempt[a].by}, TRUE) /\ [id |-> a, reply |-> "ok"] \in acks
             \/ call' = Told({attempt[a].by}, FALSE)
      BY <2>1 DEF Finish
    <3>3. QED BY <1>1, <3>1, <3>2, DirectFinished DEF TypeOK
  <2>2. CASE attempt[a].kind # "direct"
    <3>1. a \notin DirectFlying
      BY <2>2 DEF DirectFlying
    <3>2. \/ Settle(a, TRUE) /\ a \in Flying /\ [id |-> a, reply |-> "ok"] \in acks
          \/ Settle(a, FALSE)
      BY <2>2 DEF Finish
    <3>3. QED BY <1>1, <3>1, <3>2, JoinSettled
  <2>3. QED BY <2>1, <2>2
<1>4. AttemptInv'
  BY <1>1, <1>3, LandedInv
<1>5. QED BY <1>2, <1>3, <1>4

\* Taking an acknowledgement
LEMMA Taken ==
  ASSUME RelaySocketInv, NEW k, Take(k)
  PROVE  k \in acks /\ acks' = acks \ {k} /\ acks' \subseteq acks /\ socket = "up"
  BY DEF Take, RelaySocketInv, WireInv

LEMMA JoinConfirmedInv ==
  ASSUME RelaySocketInv, NEW a \in Attempts, JoinConfirmed(a) PROVE RelaySocketInv'
<1>1. /\ UNCHANGED <<socket, channelId, send, closing, pipe, member, closed, wanted>>
      /\ Take([id |-> a, reply |-> "ok"])
  BY DEF JoinConfirmed
<1>2. TypeOK /\ WireInv /\ AttemptInv /\ HandedOverOnce
  BY DEF RelaySocketInv
<1>3. [id |-> a, reply |-> "ok"] \in acks /\ acks' \subseteq acks
  BY <1>1, Taken
<1>4. pipe' \in Seq(Packets) /\ Unread' = Unread /\ WireInv'
      /\ acks' \subseteq [id : Attempts \cup Sends \cup {"close"}, reply : {"ok", "bad"}]
  BY <1>1, <1>2, <1>3, WireRests
<1>5. /\ \A b \in Attempts : Outstanding(b)' => Outstanding(b)
      /\ \A s \in Sends : Outstanding(s)' => Outstanding(s)
  BY <1>1, <1>3 DEF Outstanding
<1>6. /\ attempt' \in [Attempts -> AttemptType]
      /\ call' \in [Callers -> CallType]
      /\ pendingJoin' \in [c : Channels \cup {None}, waiters : SUBSET Callers]
      /\ \A b \in Attempts : attempt'[b].c = attempt[b].c
      /\ AttemptInv' /\ HeldInv' /\ JoinedInv' /\ JoinIsReal'
  <2>1. CASE a \in Flying
    <3>1. Finish(a, TRUE)
      BY <2>1 DEF JoinConfirmed
    <3>2. QED BY <1>1, <1>3, <1>5, <2>1, <3>1, Finished
  <2>2. CASE a \notin Flying
    <3>1. UNCHANGED <<pendingJoin, attempt, call>>
      BY <2>2 DEF JoinConfirmed
    <3>2. QED BY <1>1, <1>2, <1>3, <1>5, <3>1, JoinsRest DEF TypeOK
  <2>3. QED BY <2>1, <2>2
<1>7. handed' \in 0 .. 1
  <2>1. CASE a \in Flying
    <3>1. handed' = Consumers(a)
      BY <2>1 DEF JoinConfirmed
    <3>2. Outstanding(a)
      BY <1>3, Outstandings
    <3>3. attempt[a].kind = "auto" => pendingJoin.c # attempt[a].c
      BY <1>2, <2>1, <3>2 DEF AttemptInv
    <3>4. QED BY <3>1, <3>3 DEF Consumers
  <2>2. CASE a \notin Flying
    BY <1>2, <2>2 DEF JoinConfirmed, HandedOverOnce, TypeOK
  <2>3. QED BY <2>1, <2>2
<1>8. TypeOK'
  BY <1>1, <1>2, <1>4, <1>6, <1>7 DEF TypeOK
<1>9. PacketInv' /\ DoneInv' /\ ConfirmedIsDone'
  BY <1>1, <1>3, <1>4, <1>5, <1>6, PacketsRest, DoneRests
<1>10. LeftStaysLeft' /\ HandedOverOnce'
  BY <1>1, <1>7 DEF RelaySocketInv, LeftStaysLeft, HandedOverOnce
<1>11. QED BY <1>4, <1>6, <1>8, <1>9, <1>10 DEF RelaySocketInv

\* abandonJoin(): at most a leave is sent, on a connection that is up.
LEMMA Abandoned ==
  ASSUME RelaySocketInv, NEW a \in Attempts, socket' = socket, acks' \subseteq acks,
         \/ Abandon(a, TRUE) /\ socket = "up"
         \/ Abandon(a, FALSE)
  PROVE  /\ channelId' \in {channelId, None}
         /\ pipe' \in Seq(Packets) /\ WireInv'
         /\ \A p \in Unread' : p \in Unread \/ p.ev = "leave"
         /\ \A b \in Attempts : Outstanding(b)' => Outstanding(b)
         /\ \A s \in Sends : Outstanding(s)' => Outstanding(s)
<1>1. TypeOK /\ WireInv /\ attempt[a].c \in Channels \cup {None}
  BY DEF RelaySocketInv, TypeOK, AttemptType
<1>2. /\ Packet("leave", attempt[a].c, None) \in Packets
      /\ Packet("leave", attempt[a].c, None).ev = "leave"
  BY <1>1, LeaveBuilt
<1>3. /\ channelId' \in {channelId, None}
      /\ \/ socket = "up" /\ pipe' = Append(pipe, Packet("leave", attempt[a].c, None))
         \/ pipe' = pipe
  BY DEF Abandon
<1>4. /\ pipe' \in Seq(Packets) /\ WireInv'
      /\ \A p \in Unread' : p \in Unread \/ p.ev = "leave"
  <2>1. CASE socket = "up" /\ pipe' = Append(pipe, Packet("leave", attempt[a].c, None))
    BY <1>1, <1>2, <2>1, SentOn
  <2>2. CASE pipe' = pipe
    BY <1>1, <2>2, WireRests
  <2>3. QED BY <1>3, <2>1, <2>2
<1>5. Unread' \subseteq Packets
  BY <1>4 DEF Unread
<1>6. QED BY <1>1, <1>3, <1>4, <1>5, FewerOutstanding

\* An attempt is given up: refused, timed out, or refused when nobody waits
\* for it any more.
LEMMA GivenUpInv ==
  ASSUME RelaySocketInv, NEW a \in Attempts, acks' \subseteq acks,
         \/ Abandon(a, TRUE) /\ socket = "up"
         \/ Abandon(a, FALSE),
         \/ a \in Flying /\ Finish(a, FALSE)
         \/ UNCHANGED <<attempt, call, pendingJoin>>,
         UNCHANGED <<socket, send, closing, member, closed, wanted, handed>>
  PROVE  RelaySocketInv'
<1>1. TypeOK
  BY DEF RelaySocketInv
<1>2. /\ channelId' \in {channelId, None}
      /\ pipe' \in Seq(Packets) /\ WireInv'
      /\ \A p \in Unread' : p \in Unread \/ p.ev = "leave"
      /\ \A b \in Attempts : Outstanding(b)' => Outstanding(b)
      /\ \A s \in Sends : Outstanding(s)' => Outstanding(s)
  BY Abandoned
<1>3. /\ attempt' \in [Attempts -> AttemptType]
      /\ call' \in [Callers -> CallType]
      /\ pendingJoin' \in [c : Channels \cup {None}, waiters : SUBSET Callers]
      /\ \A b \in Attempts : attempt'[b].c = attempt[b].c
      /\ AttemptInv' /\ HeldInv' /\ JoinedInv' /\ JoinIsReal'
  <2>1. CASE a \in Flying /\ Finish(a, FALSE)
    BY <1>2, <2>1, Finished
  <2>2. CASE UNCHANGED <<attempt, call, pendingJoin>>
    BY <1>1, <1>2, <2>2, JoinsRest DEF TypeOK
  <2>3. QED BY <2>1, <2>2
<1>4. TypeOK'
  BY <1>1, <1>2, <1>3 DEF TypeOK
<1>5. PacketInv' /\ DoneInv' /\ ConfirmedIsDone'
  BY <1>2, <1>3, PacketsRest, DoneRests
<1>6. LeftStaysLeft' /\ HandedOverOnce'
  BY <1>2 DEF RelaySocketInv, LeftStaysLeft, HandedOverOnce
<1>7. QED BY <1>2, <1>3, <1>4, <1>5, <1>6 DEF RelaySocketInv

LEMMA JoinRefusedInv ==
  ASSUME RelaySocketInv, NEW a \in Attempts, JoinRefused(a) PROVE RelaySocketInv'
<1>1. acks' \subseteq acks /\ socket = "up"
  BY Taken DEF JoinRefused
<1>2. QED BY <1>1, GivenUpInv DEF JoinRefused

LEMMA JoinTimesOutInv ==
  ASSUME RelaySocketInv, NEW a \in Attempts, JoinTimesOut(a) PROVE RelaySocketInv'
<1>1. a \in Flying /\ Finish(a, FALSE) /\ Abandon(a, attempt[a].own) /\ acks' \subseteq acks
      /\ UNCHANGED <<socket, send, closing, member, closed, wanted, handed>>
  BY DEF JoinTimesOut
<1>2. (Abandon(a, TRUE) /\ socket = "up") \/ Abandon(a, FALSE)
  BY <1>1 DEF RelaySocketInv, AttemptInv, Abandon
<1>3. QED BY <1>1, <1>2, GivenUpInv

-----------------------------------------------------------------------------
(* The watchdog *)

LEMMA DisownedAttempts ==
  ASSUME TypeOK, attempt' = [a \in Attempts |-> [attempt[a] EXCEPT !.own = FALSE]]
  PROVE  /\ attempt' \in [Attempts -> AttemptType]
         /\ \A a \in Attempts : /\ attempt'[a].pc = attempt[a].pc /\ attempt'[a].c = attempt[a].c
                                /\ attempt'[a].kind = attempt[a].kind
                                /\ attempt'[a].by = attempt[a].by
                                /\ ~attempt'[a].own
<1> DEFINE Disowned(t) == [t EXCEPT !.own = FALSE]
<1>1. ASSUME NEW t \in AttemptType
      PROVE  /\ Disowned(t) \in AttemptType
             /\ Disowned(t).pc = t.pc /\ Disowned(t).c = t.c /\ Disowned(t).kind = t.kind
             /\ Disowned(t).by = t.by /\ ~Disowned(t).own
  BY DEF AttemptType
<1>2. attempt' = [a \in Attempts |-> Disowned(attempt[a])]
  OBVIOUS
<1> HIDE DEF Disowned
<1>3. ASSUME NEW a \in Attempts PROVE attempt[a] \in AttemptType
  BY DEF TypeOK
<1>4. attempt' \in [Attempts -> AttemptType] /\ \A a \in Attempts : attempt'[a] = Disowned(attempt[a])
  BY <1>1, <1>2, <1>3
<1>5. QED BY <1>1, <1>3, <1>4

\* The waiters of the pending join are told that it failed.
LEMMA PendingFailed ==
  ASSUME RelaySocketInv, call' = Told(pendingJoin.waiters, FALSE), pendingJoin' = NoJoin,
         acks' \subseteq acks,
         \A a \in Attempts : /\ attempt'[a].pc = attempt[a].pc /\ attempt'[a].c = attempt[a].c
                             /\ attempt'[a].kind = attempt[a].kind
                             /\ attempt'[a].by = attempt[a].by
  PROVE  /\ call' \in [Callers -> CallType]
         /\ pendingJoin' \in [c : Channels \cup {None}, waiters : SUBSET Callers]
         /\ pendingJoin'.c = None /\ Flying' = Flying
         /\ HeldInv' /\ JoinedInv' /\ JoinIsReal'
<1>1. TypeOK /\ HeldInv /\ JoinedInv /\ JoinIsReal
  BY DEF RelaySocketInv
<1>2. /\ call' \in [Callers -> CallType]
      /\ pendingJoin' \in [c : Channels \cup {None}, waiters : SUBSET Callers]
      /\ pendingJoin'.c = None /\ pendingJoin'.waiters = {}
      /\ \A q \in Callers : q \notin pendingJoin.waiters => call'[q] = call[q]
      /\ \A q \in pendingJoin.waiters : call'[q].pc = "idle"
      /\ JoinIsReal'
  BY <1>1, PendingSettled
<1>3. Flying' = Flying /\ DirectFlying' = DirectFlying
  BY DEF Flying, DirectFlying
<1>4. \A a \in DirectFlying : a \in Attempts /\ a \in Flying /\ attempt[a].kind = "direct"
  BY DEF DirectFlying, Flying
<1>5. ASSUME NEW a \in DirectFlying
      PROVE  /\ attempt'[a].by = attempt[a].by /\ attempt'[a].c = attempt[a].c
             /\ attempt[a].by \in Callers /\ call'[attempt[a].by] = call[attempt[a].by]
  <2>1. attempt[a].by \in Callers \ pendingJoin.waiters
    BY <1>1 DEF HeldInv
  <2>2. QED BY <1>2, <1>4, <2>1
<1>6. HeldInv'
  <2>1. ASSUME NEW a \in DirectFlying'
        PROVE  /\ attempt'[a].by \in Callers \ pendingJoin'.waiters
               /\ call'[attempt'[a].by].pc = "waiting" /\ call'[attempt'[a].by].c = attempt'[a].c
    <3>1. a \in DirectFlying
      BY <1>3
    <3>2. call[attempt[a].by].pc = "waiting" /\ call[attempt[a].by].c = attempt[a].c
      BY <1>1, <3>1 DEF HeldInv
    <3>3. QED BY <1>2, <1>5, <3>1, <3>2
  <2>2. ASSUME NEW a \in DirectFlying', NEW b \in DirectFlying', attempt'[a].by = attempt'[b].by
        PROVE  a = b
    <3>1. a \in DirectFlying /\ b \in DirectFlying
      BY <1>3
    <3>2. attempt[a].by = attempt[b].by
      BY <1>5, <2>2, <3>1
    <3>3. QED BY <1>1, <3>1, <3>2 DEF HeldInv
  <2>3. ASSUME NEW q \in Callers, call'[q].pc = "waiting"
        PROVE  \E a \in DirectFlying' : attempt'[a].by = q
    <3>1. q \notin pendingJoin.waiters /\ call[q].pc = "waiting"
      BY <1>2, <2>3
    <3>2. PICK a \in DirectFlying : attempt[a].by = q
      BY <1>1, <3>1 DEF HeldInv
    <3>3. QED BY <1>3, <1>5, <3>2
  <2>4. QED BY <1>2, <2>1, <2>2, <2>3 DEF HeldInv
<1>7. JoinedInv'
  <2> SUFFICES ASSUME NEW a \in Flying', [id |-> a, reply |-> "ok"] \in acks',
                      attempt'[a].kind = "direct"
               PROVE  call'[attempt'[a].by].accepted
    BY <1>2 DEF JoinedInv
  <2>1. a \in DirectFlying
    BY <1>3 DEF DirectFlying
  <2>2. QED BY <1>1, <1>4, <1>5, <2>1 DEF JoinedInv
<1>8. QED BY <1>2, <1>3, <1>6, <1>7

LEMMA WatchdogInv == RelaySocketInv /\ Watchdog => RelaySocketInv'
<1> SUFFICES ASSUME RelaySocketInv, Watchdog PROVE RelaySocketInv'
  OBVIOUS
<1>1. /\ UNCHANGED <<send, closing, closed, handed>>
      /\ call' = Told(pendingJoin.waiters, FALSE) /\ pendingJoin' = NoJoin
  BY DEF Watchdog
<1>2. TypeOK /\ WireInv /\ AttemptInv
  BY DEF RelaySocketInv
<1>3. HandedOverOnce'
  BY <1>1 DEF RelaySocketInv, HandedOverOnce
<1>4. \A a \in Flying : a \in Attempts /\ attempt[a].c # None
  BY <1>2 DEF AttemptInv, Flying
<1>5. CASE channelId = pendingJoin.c
  <2>1. /\ channelId' = None /\ wanted' = None /\ socket' = "none"
        /\ attempt' = [a \in Attempts |-> [attempt[a] EXCEPT !.own = FALSE]]
        /\ ConnectionGone /\ member' = {}
    BY <1>5 DEF Watchdog, ConnectionGone
  <2>2. /\ attempt' \in [Attempts -> AttemptType]
        /\ \A a \in Attempts : /\ attempt'[a].pc = attempt[a].pc /\ attempt'[a].c = attempt[a].c
                               /\ attempt'[a].kind = attempt[a].kind
                               /\ attempt'[a].by = attempt[a].by
                               /\ ~attempt'[a].own
    BY <1>2, <2>1, DisownedAttempts
  <2>3. /\ pipe' \in Seq(Packets) /\ acks' = {} /\ WireInv' /\ PacketInv'
        /\ \A id : ~Outstanding(id)'
    BY <2>1, WireGone
  <2>4. /\ call' \in [Callers -> CallType]
        /\ pendingJoin' \in [c : Channels \cup {None}, waiters : SUBSET Callers]
        /\ Flying' = Flying
        /\ HeldInv' /\ JoinedInv' /\ JoinIsReal'
    BY <1>1, <2>2, <2>3, PendingFailed
  <2>5. TypeOK'
    BY <1>1, <1>2, <2>1, <2>2, <2>3, <2>4 DEF TypeOK
  <2>6. AttemptInv'
    BY <1>2, <1>4, <2>2, <2>3, <2>4 DEF AttemptInv
  <2>7. DoneInv' /\ ConfirmedIsDone'
    BY <1>1, <2>3, DoneRests
  <2>8. LeftStaysLeft'
    BY <2>1 DEF LeftStaysLeft
  <2>9. QED BY <1>3, <2>3, <2>4, <2>5, <2>6, <2>7, <2>8 DEF RelaySocketInv
<1>6. CASE channelId # pendingJoin.c
  <2>1. UNCHANGED <<channelId, wanted, socket, attempt, pipe, acks, member>>
    BY <1>6 DEF Watchdog
  <2>2. pipe' \in Seq(Packets) /\ Unread' = Unread /\ WireInv'
    BY <1>2, <2>1, WireRests
  <2>3. /\ call' \in [Callers -> CallType]
        /\ pendingJoin' \in [c : Channels \cup {None}, waiters : SUBSET Callers]
        /\ pendingJoin'.c = None /\ Flying' = Flying
        /\ HeldInv' /\ JoinedInv' /\ JoinIsReal'
    BY <1>1, <2>1, PendingFailed
  <2>4. TypeOK'
    BY <1>1, <1>2, <2>1, <2>2, <2>3 DEF TypeOK
  <2>5. \A id : Outstanding(id)' <=> Outstanding(id)
    BY <2>1 DEF Outstanding
  <2>6. AttemptInv'
    BY <1>2, <1>4, <2>1, <2>3, <2>5 DEF AttemptInv
  <2>7. PacketInv' /\ DoneInv' /\ ConfirmedIsDone'
    BY <1>1, <2>1, <2>2, <2>5, PacketsRest, DoneRests
  <2>8. LeftStaysLeft'
    BY <2>1 DEF RelaySocketInv, LeftStaysLeft
  <2>9. QED BY <1>3, <2>2, <2>3, <2>4, <2>6, <2>7, <2>8 DEF RelaySocketInv
<1>7. QED BY <1>5, <1>6

-----------------------------------------------------------------------------
(* Answers to messages and to a close *)

\* What a step that settles no join shares, whether or not it takes an
\* acknowledgement.
LEMMA OnlyAcksTaken ==
  ASSUME RelaySocketInv, acks' \subseteq acks,
         UNCHANGED <<socket, channelId, pendingJoin, attempt, call, pipe, member, closed,
                     wanted, handed>>
  PROVE  /\ pipe' \in Seq(Packets) /\ Unread' = Unread /\ WireInv'
         /\ acks' \subseteq [id : Attempts \cup Sends \cup {"close"}, reply : {"ok", "bad"}]
         /\ \A id : Outstanding(id)' => Outstanding(id)
         /\ AttemptInv' /\ HeldInv' /\ JoinedInv' /\ JoinIsReal'
         /\ LeftStaysLeft' /\ HandedOverOnce'
<1>1. TypeOK /\ WireInv
  BY DEF RelaySocketInv
<1>2. /\ pipe' \in Seq(Packets) /\ Unread' = Unread /\ WireInv'
      /\ acks' \subseteq [id : Attempts \cup Sends \cup {"close"}, reply : {"ok", "bad"}]
  BY <1>1, WireRests
<1>3. \A id : Outstanding(id)' => Outstanding(id)
  BY DEF Outstanding
<1>4. AttemptInv' /\ HeldInv' /\ JoinedInv' /\ JoinIsReal'
  BY <1>3, JoinsRest
<1>5. LeftStaysLeft' /\ HandedOverOnce'
  BY DEF RelaySocketInv, LeftStaysLeft, HandedOverOnce
<1>6. QED BY <1>2, <1>3, <1>4, <1>5

\* A send settles: with TRUE only if its acknowledgement says it was routed.
LEMMA SendSettledInv ==
  ASSUME RelaySocketInv, NEW s \in Sends, acks' \subseteq acks,
         \/ Answer(s, TRUE) /\ [id |-> s, reply |-> "ok"] \in acks /\ ~Outstanding(s)'
         \/ Answer(s, FALSE),
         UNCHANGED <<socket, channelId, pendingJoin, attempt, call, closing, pipe, member,
                     closed, wanted, handed>>
  PROVE  RelaySocketInv'
<1>1. /\ pipe' \in Seq(Packets) /\ Unread' = Unread /\ WireInv'
      /\ acks' \subseteq [id : Attempts \cup Sends \cup {"close"}, reply : {"ok", "bad"}]
      /\ \A id : Outstanding(id)' => Outstanding(id)
      /\ AttemptInv' /\ HeldInv' /\ JoinedInv' /\ JoinIsReal'
      /\ LeftStaysLeft' /\ HandedOverOnce'
  BY OnlyAcksTaken
<1>2. send \in [Sends -> SendType] /\ send[s] \in SendType
  BY DEF RelaySocketInv, TypeOK
<1>3. PICK t \in SendType : /\ send' = [send EXCEPT ![s] = t]
                            /\ \/ t = send[s]
                               \/ /\ t.pc = "idle" /\ t.routed
                                  /\ ~Outstanding(s)'
                               \/ t.pc = "idle" /\ ~t.sent
  <2>1. CASE send[s].pc = "idle"
    <3>1. send' = [send EXCEPT ![s] = send[s]]
      BY <1>2, <2>1 DEF Answer
    <3>2. QED BY <1>2, <3>1
  <2>2. CASE send[s].pc # "idle"
    <3>1. send[s].pc = "flying"
      BY <1>2, <2>2 DEF SendType
    <3>2. CASE Answer(s, TRUE) /\ [id |-> s, reply |-> "ok"] \in acks /\ ~Outstanding(s)'
      <4> DEFINE t == [send[s] EXCEPT !.pc = "idle", !.sent = TRUE]
      <4>1. send[s].routed
        BY <3>1, <3>2 DEF RelaySocketInv, DoneInv
      <4>2. t \in SendType /\ t.pc = "idle" /\ t.routed
        BY <1>2, <4>1 DEF SendType
      <4>3. send' = [send EXCEPT ![s] = t]
        BY <1>2, <2>2, <3>2 DEF Answer
      <4> HIDE DEF t
      <4>4. QED BY <3>2, <4>2, <4>3
    <3>3. CASE Answer(s, FALSE)
      <4>1. send' = [send EXCEPT ![s] = NoSend]
        BY <1>2, <2>2, <3>3 DEF Answer
      <4>2. QED BY <4>1, NoSendType
    <3>4. QED BY <3>2, <3>3
  <2>3. QED BY <2>1, <2>2
<1>4. send' \in [Sends -> SendType] /\ send'[s] = t /\ \A r \in Sends : r # s => send'[r] = send[r]
  BY <1>2, <1>3
<1>5. TypeOK'
  BY <1>1, <1>4 DEF RelaySocketInv, TypeOK
<1>6. PacketInv'
  BY <1>1, PacketsRest
<1>7. ASSUME NEW r \in Sends
      PROVE  /\ [id |-> r, reply |-> "ok"] \in acks' /\ send'[r].pc = "flying" => send'[r].routed
             /\ send'[r].sent => ~Outstanding(r)' /\ send'[r].routed
  BY <1>1, <1>3, <1>4 DEF RelaySocketInv, DoneInv, ConfirmedIsDone
<1>8. DoneInv' /\ ConfirmedIsDone'
  BY <1>7 DEF RelaySocketInv, DoneInv, ConfirmedIsDone
<1>9. QED BY <1>1, <1>5, <1>6, <1>8 DEF RelaySocketInv

LEMMA SendAnsweredInv ==
  ASSUME RelaySocketInv, NEW s \in Sends, NEW r \in {"ok", "bad"}, SendAnswered(s, r)
  PROVE  RelaySocketInv'
<1>1. /\ UNCHANGED <<socket, channelId, pendingJoin, attempt, call, closing, pipe, member,
                     closed, wanted, handed>>
      /\ Take([id |-> s, reply |-> r]) /\ Answer(s, r = "ok")
  BY DEF SendAnswered
<1>2. /\ [id |-> s, reply |-> r] \in acks /\ acks' = acks \ {[id |-> s, reply |-> r]}
      /\ acks' \subseteq acks
  BY <1>1, Taken
<1>3. Unread' = Unread /\ [id |-> s, reply |-> r].id = s
  BY <1>1 DEF Unread
<1>4. ~Outstanding(s)'
  <2>1. \A id : Outstanding(id)' <=> (\E p \in Unread' : p.id = id) \/ (\E k \in acks' : k.id = id)
    BY DEF Outstanding, Unread
  <2>2. QED BY <1>2, <1>3, <2>1 DEF RelaySocketInv, WireInv
<1>5. CASE r = "ok"
  <2>1. Answer(s, TRUE)
    BY <1>1, <1>5 DEF Answer
  <2>2. QED BY <1>1, <1>2, <1>4, <1>5, <2>1, SendSettledInv
<1>6. CASE r = "bad"
  <2>1. Answer(s, FALSE)
    BY <1>1, <1>6 DEF Answer
  <2>2. QED BY <1>1, <1>2, <2>1, SendSettledInv
<1>7. QED BY <1>5, <1>6

LEMMA SendTimesOutInv ==
  ASSUME RelaySocketInv, NEW s \in Sends, SendTimesOut(s) PROVE RelaySocketInv'
<1>1. /\ UNCHANGED <<socket, channelId, pendingJoin, attempt, call, closing, pipe, acks, member,
                     closed, wanted, handed>>
      /\ Answer(s, FALSE)
  BY DEF SendTimesOut, relay
<1>2. acks' \subseteq acks
  BY <1>1
<1>3. QED BY <1>1, <1>2, SendSettledInv

\* A close settles: with TRUE only if its acknowledgement says "terminated".
LEMMA CloseSettledInv ==
  ASSUME RelaySocketInv, acks' \subseteq acks, closing' \in ClosingType,
         \/ closing' = closing
         \/ closing'.pc = "idle" /\ (closing'.confirmed => closing'.c \in closed),
         UNCHANGED <<socket, channelId, pendingJoin, attempt, call, send, pipe, member, closed,
                     wanted, handed>>
  PROVE  RelaySocketInv'
<1>1. /\ pipe' \in Seq(Packets) /\ Unread' = Unread /\ WireInv'
      /\ acks' \subseteq [id : Attempts \cup Sends \cup {"close"}, reply : {"ok", "bad"}]
      /\ \A id : Outstanding(id)' => Outstanding(id)
      /\ AttemptInv' /\ HeldInv' /\ JoinedInv' /\ JoinIsReal'
      /\ LeftStaysLeft' /\ HandedOverOnce'
  BY OnlyAcksTaken
<1>2. TypeOK'
  BY <1>1 DEF RelaySocketInv, TypeOK
<1>3. PacketInv'
  BY <1>1 DEF RelaySocketInv, PacketInv
<1>4. DoneInv' /\ ConfirmedIsDone'
  BY <1>1 DEF RelaySocketInv, DoneInv, ConfirmedIsDone
<1>5. QED BY <1>1, <1>2, <1>3, <1>4 DEF RelaySocketInv

LEMMA NoClosingType == NoClosing \in ClosingType /\ NoClosing.pc = "idle" /\ ~NoClosing.confirmed
  BY DEF NoClosing, ClosingType

LEMMA CloseAnsweredInv ==
  ASSUME RelaySocketInv, NEW r \in {"ok", "bad"}, CloseAnswered(r) PROVE RelaySocketInv'
<1>1. /\ UNCHANGED <<socket, channelId, pendingJoin, attempt, call, send, pipe, member, closed,
                     wanted, handed>>
      /\ Take([id |-> "close", reply |-> r])
  BY DEF CloseAnswered
<1>2. [id |-> "close", reply |-> r] \in acks /\ acks' \subseteq acks
  BY <1>1, Taken
<1>3. closing \in ClosingType
  BY DEF RelaySocketInv, TypeOK
<1>4. CASE closing.pc = "idle"
  <2>1. closing' = closing
    BY <1>4 DEF CloseAnswered
  <2>2. QED BY <1>1, <1>2, <1>3, <2>1, CloseSettledInv
<1>5. CASE closing.pc # "idle" /\ r = "ok"
  <2>1. closing.pc = "flying" /\ closing.c \in closed
    BY <1>2, <1>3, <1>5 DEF ClosingType, RelaySocketInv, DoneInv
  <2>2. closing' = [closing EXCEPT !.pc = "idle", !.confirmed = TRUE]
    BY <1>5 DEF CloseAnswered
  <2>3. closing' \in ClosingType /\ closing'.pc = "idle" /\ closing'.c = closing.c
    BY <1>3, <2>2 DEF ClosingType
  <2>4. QED BY <1>1, <1>2, <2>1, <2>3, CloseSettledInv
<1>6. CASE closing.pc # "idle" /\ r # "ok"
  <2>1. closing' = NoClosing
    BY <1>6 DEF CloseAnswered
  <2>2. QED BY <1>1, <1>2, <2>1, NoClosingType, CloseSettledInv
<1>7. QED BY <1>4, <1>5, <1>6

LEMMA CloseTimesOutInv == RelaySocketInv /\ CloseTimesOut => RelaySocketInv'
<1> SUFFICES ASSUME RelaySocketInv, CloseTimesOut PROVE RelaySocketInv'
  OBVIOUS
<1>1. /\ UNCHANGED <<socket, channelId, pendingJoin, attempt, call, send, pipe, acks, member,
                     closed, wanted, handed>>
      /\ closing' = NoClosing
  BY DEF CloseTimesOut, relay
<1>2. acks' \subseteq acks
  BY <1>1
<1>3. QED BY <1>1, <1>2, NoClosingType, CloseSettledInv

-----------------------------------------------------------------------------
(* The relay *)

\* A packet is read and answered with r or not at all.
LEMMA RelayReads ==
  ASSUME RelaySocketInv, NEW ev, Read(ev), UNCHANGED socket, NEW r \in {"ok", "bad"},
         \A k \in acks' : k \in acks \/ (ev # "leave" /\ k = [id |-> Head(pipe).id, reply |-> r])
  PROVE  /\ pipe' \in Seq(Packets) /\ WireInv'
         /\ acks' \subseteq [id : Attempts \cup Sends \cup {"close"}, reply : {"ok", "bad"}]
         /\ Head(pipe) \in Unread /\ Head(pipe) \in Packets /\ Head(pipe).ev = ev
         /\ Unread' \subseteq Unread
         /\ \A id : Outstanding(id)' => Outstanding(id)
         /\ Outstanding(Head(pipe).id)
         /\ \A id, x : [id |-> id, reply |-> x] \in acks' =>
              [id |-> id, reply |-> x] \in acks \/ (id = Head(pipe).id /\ x = r)
<1>1. TypeOK /\ WireInv /\ pipe # <<>> /\ Head(pipe).ev = ev /\ pipe' = Tail(pipe)
  BY DEF RelaySocketInv, Read
<1>2. /\ pipe' \in Seq(Packets)
      /\ Head(pipe) \in Unread /\ Head(pipe) \in Packets
      /\ Unread' \subseteq Unread
      /\ acks' \subseteq [id : Attempts \cup Sends \cup {"close"}, reply : {"ok", "bad"}]
      /\ WireInv'
  BY <1>1, ReadOff
<1>3. Outstanding(Head(pipe).id)
  BY <1>2, Outstandings
<1>4. \A id : Outstanding(id)' <=> (\E p \in Unread' : p.id = id) \/ (\E k \in acks' : k.id = id)
  BY DEF Outstanding, Unread
<1>5. \A k \in acks' : k \in acks \/ k.id = Head(pipe).id
  OBVIOUS
<1>6. ASSUME NEW id, Outstanding(id)' PROVE Outstanding(id)
  <2>1. CASE \E p \in Unread' : p.id = id
    BY <1>2, <2>1, Outstandings
  <2>2. CASE \E k \in acks' : k.id = id
    BY <1>3, <1>5, <2>2, Outstandings
  <2>3. QED BY <1>4, <1>6, <2>1, <2>2
<1>7. \A id, x : [id |-> id, reply |-> x] \in acks' =>
        [id |-> id, reply |-> x] \in acks \/ (id = Head(pipe).id /\ x = r)
  OBVIOUS
<1>8. QED BY <1>1, <1>2, <1>3, <1>6, <1>7

\* A packet that is refused, or needs no answer, changes what is on its way
\* and nothing else.
LEMMA RelayRefuses ==
  ASSUME RelaySocketInv, NEW ev, Read(ev), UNCHANGED <<client, closed, wanted, handed>>,
         member' \subseteq Channels,
         \A k \in acks' :
           k \in acks \/ (ev # "leave" /\ k = [id |-> Head(pipe).id, reply |-> "bad"])
  PROVE  RelaySocketInv'
<1>1. UNCHANGED <<socket, channelId, pendingJoin, attempt, call, send, closing, closed,
                  wanted, handed>>
  BY DEF client
<1>2. /\ pipe' \in Seq(Packets) /\ WireInv'
      /\ acks' \subseteq [id : Attempts \cup Sends \cup {"close"}, reply : {"ok", "bad"}]
      /\ Unread' \subseteq Unread
      /\ \A id : Outstanding(id)' => Outstanding(id)
      /\ \A id, x : [id |-> id, reply |-> x] \in acks' =>
           [id |-> id, reply |-> x] \in acks \/ (id = Head(pipe).id /\ x = "bad")
  BY <1>1, RelayReads
<1>3. \A id : [id |-> id, reply |-> "ok"] \in acks' => [id |-> id, reply |-> "ok"] \in acks
  BY <1>2
<1>4. TypeOK'
  BY <1>1, <1>2 DEF RelaySocketInv, TypeOK
<1>5. AttemptInv' /\ HeldInv' /\ JoinedInv' /\ JoinIsReal'
  BY <1>1, <1>2, <1>3, JoinsRest
<1>6. PacketInv'
  BY <1>1, <1>2, PacketsRest
<1>7. DoneInv' /\ ConfirmedIsDone'
  BY <1>1, <1>2, <1>3, DoneRests
<1>8. LeftStaysLeft' /\ HandedOverOnce'
  BY <1>1 DEF RelaySocketInv, LeftStaysLeft, HandedOverOnce
<1>9. QED BY <1>2, <1>4, <1>5, <1>6, <1>7, <1>8 DEF RelaySocketInv

LEMMA Replied ==
  ASSUME NEW replies \in SUBSET {"ok", "bad"}, Reply(Head(pipe).id, replies)
  PROVE  \E r \in {"ok", "bad"} :
           /\ r \in replies \/ acks' = acks
           /\ \A k \in acks' : k \in acks \/ k = [id |-> Head(pipe).id, reply |-> r]
  BY DEF Reply

LEMMA RefusedWithBad ==
  ASSUME Reply(Head(pipe).id, {"bad"})
  PROVE  \A k \in acks' : k \in acks \/ k = [id |-> Head(pipe).id, reply |-> "bad"]
  BY DEF Reply

LEMMA RefuseJoinInv == RelaySocketInv /\ RefuseJoin => RelaySocketInv'
<1> SUFFICES ASSUME RelaySocketInv, RefuseJoin PROVE RelaySocketInv'
  OBVIOUS
<1>1. /\ Read("join") /\ Reply(Head(pipe).id, {"bad"})
      /\ UNCHANGED <<client, closed, wanted, handed>> /\ member' \subseteq Channels
  BY DEF RefuseJoin, RelaySocketInv, TypeOK
<1>2. QED BY <1>1, RefusedWithBad, RelayRefuses

LEMMA ReadLeaveInv == RelaySocketInv /\ ReadLeave => RelaySocketInv'
<1> SUFFICES ASSUME RelaySocketInv, ReadLeave PROVE RelaySocketInv'
  OBVIOUS
<1>1. /\ Read("leave") /\ acks' = acks
      /\ UNCHANGED <<client, closed, wanted, handed>> /\ member' \subseteq Channels
  BY DEF ReadLeave, RelaySocketInv, TypeOK
<1>2. QED BY <1>1, RelayRefuses

LEMMA CloseRead ==
  ASSUME RelaySocketInv, Read("close")
  PROVE  Head(pipe) \in Unread /\ Head(pipe).id = "close"
<1>1. pipe \in Seq(Packets) /\ pipe # <<>> /\ Head(pipe).ev = "close"
  BY DEF RelaySocketInv, TypeOK, Read
<1>2. Head(pipe) = pipe[1] /\ 1 \in 1 .. Len(pipe) /\ Head(pipe) \in Packets
  BY <1>1
<1>3. QED BY <1>1, <1>2, PacketFields DEF Unread

LEMMA RefuseCloseInv == RelaySocketInv /\ RefuseClose => RelaySocketInv'
<1> SUFFICES ASSUME RelaySocketInv, RefuseClose PROVE RelaySocketInv'
  OBVIOUS
<1>1. /\ Read("close") /\ Reply("close", {"bad"})
      /\ UNCHANGED <<client, closed, wanted, handed>> /\ member' \subseteq Channels
  BY DEF RefuseClose, RelaySocketInv, TypeOK
<1>2. Reply(Head(pipe).id, {"bad"})
  BY <1>1, CloseRead DEF Reply
<1>3. QED BY <1>1, <1>2, RefusedWithBad, RelayRefuses

\* Only the close in the air is told of the tombstone, and it asked for it.
LEMMA AcceptCloseInv == RelaySocketInv /\ AcceptClose => RelaySocketInv'
<1> SUFFICES ASSUME RelaySocketInv, AcceptClose PROVE RelaySocketInv'
  OBVIOUS
<1>1. /\ UNCHANGED <<socket, channelId, pendingJoin, attempt, call, send, closing, wanted, handed>>
      /\ Read("close") /\ Head(pipe).c \in member
      /\ closed' = closed \cup {Head(pipe).c} /\ member' = member \ {Head(pipe).c}
      /\ Reply("close", {"ok", "bad"})
  BY DEF AcceptClose, client
<1>2. Head(pipe) \in Unread /\ Head(pipe).id = "close"
  BY <1>1, CloseRead
<1>3. PICK r \in {"ok", "bad"} :
        \A k \in acks' : k \in acks \/ k = [id |-> Head(pipe).id, reply |-> r]
  <2>1. Reply(Head(pipe).id, {"ok", "bad"})
    BY <1>1, <1>2 DEF Reply
  <2>2. QED BY <2>1, Replied
<1>4. /\ pipe' \in Seq(Packets) /\ WireInv'
      /\ acks' \subseteq [id : Attempts \cup Sends \cup {"close"}, reply : {"ok", "bad"}]
      /\ Head(pipe).ev = "close"
      /\ Unread' \subseteq Unread
      /\ \A id : Outstanding(id)' => Outstanding(id)
      /\ \A id, x : [id |-> id, reply |-> x] \in acks' =>
           [id |-> id, reply |-> x] \in acks \/ (id = Head(pipe).id /\ x = r)
  BY <1>1, <1>3, RelayReads
<1>5. TypeOK'
  BY <1>1, <1>4 DEF RelaySocketInv, TypeOK
<1>6. \A id \in Attempts \cup Sends :
        [id |-> id, reply |-> "ok"] \in acks' => [id |-> id, reply |-> "ok"] \in acks
  BY <1>2, <1>4
<1>7. AttemptInv' /\ HeldInv' /\ JoinedInv' /\ JoinIsReal'
  BY <1>1, <1>4, <1>6, JoinsRest
<1>8. PacketInv'
  BY <1>1, <1>4, PacketsRest
<1>9. closing.pc = "flying" => closing.c \in closed'
  BY <1>1, <1>2, <1>4 DEF RelaySocketInv, PacketInv
<1>10. DoneInv' /\ ConfirmedIsDone'
  BY <1>1, <1>4, <1>6, <1>9 DEF RelaySocketInv, DoneInv, ConfirmedIsDone
<1>11. LeftStaysLeft' /\ HandedOverOnce'
  BY <1>1 DEF RelaySocketInv, LeftStaysLeft, HandedOverOnce
<1>12. QED BY <1>4, <1>5, <1>7, <1>8, <1>10, <1>11 DEF RelaySocketInv

\* Whoever waits for the channel is accepted as the relay answers.
LEMMA CallsAccepted ==
  ASSUME TypeOK, NEW c,
         call' = [q \in Callers |->
           [call[q] EXCEPT !.accepted = @ \/ (call[q].pc = "waiting" /\ call[q].c = c)]]
  PROVE  /\ call' \in [Callers -> CallType]
         /\ \A q \in Callers : /\ call'[q].pc = call[q].pc /\ call'[q].c = call[q].c
                               /\ call'[q].joined = call[q].joined
                               /\ call[q].accepted => call'[q].accepted
                               /\ call[q].pc = "waiting" /\ call[q].c = c => call'[q].accepted
<1> DEFINE With(k, b) == [k EXCEPT !.accepted = b]
<1> DEFINE Now(q) == call[q].accepted \/ (call[q].pc = "waiting" /\ call[q].c = c)
<1>1. ASSUME NEW k \in CallType, NEW b \in BOOLEAN
      PROVE  /\ With(k, b) \in CallType
             /\ With(k, b).pc = k.pc /\ With(k, b).c = k.c /\ With(k, b).joined = k.joined
             /\ With(k, b).accepted = b
  BY DEF CallType
<1>2. ASSUME NEW q \in Callers
      PROVE  call[q] \in CallType /\ Now(q) \in BOOLEAN /\ call'[q] = With(call[q], Now(q))
  <2>1. call[q] \in CallType
    BY DEF TypeOK
  <2>2. call[q].accepted \in BOOLEAN
    BY <2>1 DEF CallType
  <2>3. QED BY <2>1, <2>2
<1>3. call' = [q \in Callers |-> call'[q]]
  OBVIOUS
<1>4. \A q \in Callers : Now(q) <=> call[q].accepted \/ (call[q].pc = "waiting" /\ call[q].c = c)
  OBVIOUS
<1> HIDE DEF With, Now
<1>5. \A q \in Callers : call'[q] \in CallType
  BY <1>1, <1>2
<1>6. call' \in [Callers -> CallType]
  BY <1>3, <1>5
<1>7. ASSUME NEW q \in Callers
      PROVE  /\ call'[q].pc = call[q].pc /\ call'[q].c = call[q].c
             /\ call'[q].joined = call[q].joined
             /\ call'[q].accepted = Now(q)
  BY <1>1, <1>2
<1>8. QED BY <1>4, <1>6, <1>7

LEMMA AcceptJoinInv == RelaySocketInv /\ AcceptJoin => RelaySocketInv'
<1> SUFFICES ASSUME RelaySocketInv, AcceptJoin PROVE RelaySocketInv'
  OBVIOUS
<1> DEFINE c == Head(pipe).c
<1> DEFINE id == Head(pipe).id
<1>1. /\ UNCHANGED <<socket, channelId, pendingJoin, attempt, send, closing, closed, wanted,
                     handed>>
      /\ Read("join") /\ member' = member \cup ({c} \ closed) /\ Reply(id, {"ok", "bad"})
  BY DEF AcceptJoin
<1>2. call' = [q \in Callers |->
         [call[q] EXCEPT !.accepted = @ \/ (call[q].pc = "waiting" /\ call[q].c = c)]]
  BY DEF AcceptJoin
<1>3. TypeOK /\ PacketInv /\ HeldInv /\ JoinedInv /\ JoinIsReal
  BY DEF RelaySocketInv
<1>4. PICK r \in {"ok", "bad"} : \A k \in acks' : k \in acks \/ k = [id |-> id, reply |-> r]
  BY <1>1, Replied
<1>5. /\ pipe' \in Seq(Packets) /\ WireInv'
      /\ acks' \subseteq [id : Attempts \cup Sends \cup {"close"}, reply : {"ok", "bad"}]
      /\ Head(pipe) \in Unread /\ Head(pipe) \in Packets /\ Head(pipe).ev = "join"
      /\ Unread' \subseteq Unread
      /\ \A i : Outstanding(i)' => Outstanding(i)
      /\ \A i, x : [id |-> i, reply |-> x] \in acks' =>
           [id |-> i, reply |-> x] \in acks \/ (i = id /\ x = r)
  BY <1>1, <1>4, RelayReads
<1>6. c \in Channels /\ id \in Attempts /\ c = attempt[id].c
  BY <1>3, <1>5, PacketFields DEF PacketInv
<1> HIDE DEF c, id
<1>7. /\ call' \in [Callers -> CallType]
      /\ \A q \in Callers : /\ call'[q].pc = call[q].pc /\ call'[q].c = call[q].c
                            /\ call'[q].joined = call[q].joined
                            /\ call[q].accepted => call'[q].accepted
                            /\ call[q].pc = "waiting" /\ call[q].c = c => call'[q].accepted
  BY <1>2, <1>3, CallsAccepted
<1>8. TypeOK'
  BY <1>1, <1>3, <1>5, <1>6, <1>7 DEF TypeOK
<1>9. /\ Flying' = Flying /\ DirectFlying' = DirectFlying /\ Flying \subseteq Attempts
      /\ DirectFlying \subseteq Flying
  BY <1>1 DEF Flying, DirectFlying
<1>10. AttemptInv'
  BY <1>1, <1>5, <1>9 DEF RelaySocketInv, AttemptInv
<1>11. /\ pendingJoin.waiters \subseteq Callers
       /\ \A a \in DirectFlying : attempt[a].by \in Callers
  BY <1>3 DEF HeldInv, TypeOK
<1>12. HeldInv'
  BY <1>1, <1>3, <1>7, <1>9, <1>11 DEF HeldInv
<1>13. JoinedInv'
  <2> SUFFICES ASSUME NEW a \in Flying, [id |-> a, reply |-> "ok"] \in acks'
               PROVE  IF attempt[a].kind = "direct"
                        THEN call'[attempt[a].by].accepted
                        ELSE pendingJoin.c = attempt[a].c =>
                               \A q \in pendingJoin.waiters : call'[q].accepted
    BY <1>1, <1>9 DEF JoinedInv
  <2>1. CASE [id |-> a, reply |-> "ok"] \in acks
    <3>1. CASE attempt[a].kind = "direct"
      <4>1. attempt[a].by \in Callers
        BY <1>11, <3>1 DEF DirectFlying
      <4>2. QED BY <1>3, <1>7, <2>1, <3>1, <4>1 DEF JoinedInv
    <3>2. CASE attempt[a].kind # "direct"
      BY <1>3, <1>7, <1>11, <2>1, <3>2 DEF JoinedInv
    <3>3. QED BY <3>1, <3>2
  <2>2. CASE a = id
    <3>1. CASE attempt[a].kind = "direct"
      <4>1. a \in DirectFlying
        BY <3>1 DEF DirectFlying
      <4>2. QED BY <1>3, <1>6, <1>7, <2>2, <3>1, <4>1 DEF HeldInv
    <3>2. CASE attempt[a].kind # "direct"
      BY <1>3, <1>6, <1>7, <1>11, <2>2, <3>2 DEF HeldInv
    <3>3. QED BY <3>1, <3>2
  <2>3. QED BY <1>5, <2>1, <2>2
<1>14. JoinIsReal'
  BY <1>3, <1>7 DEF JoinIsReal
<1>15. PacketInv'
  BY <1>1, <1>5, PacketsRest
<1>16. \A i \in Sends \cup {"close"} :
         [id |-> i, reply |-> "ok"] \in acks' => [id |-> i, reply |-> "ok"] \in acks
  BY <1>5, <1>6
<1>17. DoneInv' /\ ConfirmedIsDone'
  BY <1>1, <1>5, <1>16, DoneRests
<1>18. LeftStaysLeft' /\ HandedOverOnce'
  BY <1>1 DEF RelaySocketInv, LeftStaysLeft, HandedOverOnce
<1>19. QED BY <1>5, <1>8, <1>10, <1>12, <1>13, <1>14, <1>15, <1>17, <1>18 DEF RelaySocketInv

\* A message that is routed marks the send it belongs to, which is not yet
\* settled with success.
LEMMA MessageRoutedInv ==
  ASSUME RelaySocketInv, Read("message"), Reply(Head(pipe).id, {"ok", "bad"}),
         send' = [send EXCEPT ![Head(pipe).id].routed = send[Head(pipe).id].pc = "flying"],
         UNCHANGED <<socket, channelId, pendingJoin, attempt, call, closing, member, closed,
                     wanted, handed>>
  PROVE  RelaySocketInv'
<1> DEFINE s == Head(pipe).id
<1>1. PICK r \in {"ok", "bad"} : \A k \in acks' : k \in acks \/ k = [id |-> s, reply |-> r]
  BY Replied
<1>2. /\ pipe' \in Seq(Packets) /\ WireInv'
      /\ acks' \subseteq [id : Attempts \cup Sends \cup {"close"}, reply : {"ok", "bad"}]
      /\ Head(pipe) \in Packets /\ Head(pipe).ev = "message"
      /\ Unread' \subseteq Unread
      /\ \A id : Outstanding(id)' => Outstanding(id)
      /\ Outstanding(s)
      /\ \A id, x : [id |-> id, reply |-> x] \in acks' =>
           [id |-> id, reply |-> x] \in acks \/ (id = s /\ x = r)
  BY <1>1, RelayReads
<1>3. s \in Sends
  BY <1>2, PacketFields
<1>4. /\ send' \in [Sends -> SendType]
      /\ send'[s].routed = (send[s].pc = "flying")
      /\ send'[s].pc = send[s].pc /\ send'[s].sent = send[s].sent
      /\ \A t \in Sends : t # s => send'[t] = send[t]
  <2> DEFINE b == send[s].pc = "flying"
  <2> DEFINE m == [send[s] EXCEPT !.routed = b]
  <2>1. b \in BOOLEAN /\ send \in [Sends -> SendType] /\ send[s] \in SendType
    BY <1>3 DEF RelaySocketInv, TypeOK
  <2>2. send' = [send EXCEPT ![s] = m]
    OBVIOUS
  <2> HIDE DEF b, s
  <2>3. m \in SendType /\ m.routed = b /\ m.pc = send[s].pc /\ m.sent = send[s].sent
    BY <2>1, SendChanged
  <2> HIDE DEF m
  <2>4. /\ send' \in [Sends -> SendType] /\ send'[s] = m
        /\ \A t \in Sends : t # s => send'[t] = send[t]
    BY <1>3, <2>1, <2>2, <2>3
  <2>5. send'[s].routed = b
    BY <2>3, <2>4
  <2> USE DEF b
  <2>6. QED BY <2>3, <2>4, <2>5
<1> HIDE DEF s
<1>5. TypeOK'
  BY <1>2, <1>4 DEF RelaySocketInv, TypeOK
<1>6. \A id \in Attempts \cup {"close"} :
        [id |-> id, reply |-> "ok"] \in acks' => [id |-> id, reply |-> "ok"] \in acks
  BY <1>2, <1>3
<1>7. AttemptInv' /\ HeldInv' /\ JoinedInv' /\ JoinIsReal'
  BY <1>2, <1>6, JoinsRest
<1>8. PacketInv'
  BY <1>2, PacketsRest
<1>9. ~send[s].sent
  BY <1>2, <1>3 DEF RelaySocketInv, DoneInv
<1>10. ASSUME NEW t \in Sends
       PROVE  /\ [id |-> t, reply |-> "ok"] \in acks' /\ send'[t].pc = "flying" => send'[t].routed
              /\ send'[t].sent => ~Outstanding(t)' /\ send'[t].routed
  <2>1. CASE t = s
    BY <1>4, <1>9, <2>1
  <2>2. CASE t # s
    BY <1>2, <1>4, <2>2 DEF RelaySocketInv, DoneInv, ConfirmedIsDone
  <2>3. QED BY <2>1, <2>2
<1>11. DoneInv' /\ ConfirmedIsDone'
  BY <1>6, <1>10 DEF RelaySocketInv, DoneInv, ConfirmedIsDone
<1>12. LeftStaysLeft' /\ HandedOverOnce'
  BY DEF RelaySocketInv, LeftStaysLeft, HandedOverOnce
<1>13. QED BY <1>2, <1>5, <1>7, <1>8, <1>11, <1>12 DEF RelaySocketInv

LEMMA RouteMessageInv == RelaySocketInv /\ RouteMessage => RelaySocketInv'
<1> SUFFICES ASSUME RelaySocketInv, RouteMessage PROVE RelaySocketInv'
  OBVIOUS
<1>1. /\ UNCHANGED <<socket, channelId, pendingJoin, attempt, call, closing, member, closed,
                     wanted, handed>>
      /\ Read("message")
      /\ \/ /\ send' = [send EXCEPT ![Head(pipe).id].routed = send[Head(pipe).id].pc = "flying"]
            /\ Reply(Head(pipe).id, {"ok", "bad"})
         \/ Reply(Head(pipe).id, {"bad"}) /\ UNCHANGED send
  BY DEF RouteMessage
<1>2. CASE Reply(Head(pipe).id, {"bad"}) /\ UNCHANGED send
  <2>1. UNCHANGED <<client, closed, wanted, handed>> /\ member' \subseteq Channels
    BY <1>1, <1>2 DEF client, RelaySocketInv, TypeOK
  <2>2. QED BY <1>1, <1>2, <2>1, RefusedWithBad, RelayRefuses
<1>3. QED BY <1>1, <1>2, MessageRoutedInv

-----------------------------------------------------------------------------
(* The theorems *)

LEMMA InitInv == Init => RelaySocketInv
<1> SUFFICES ASSUME Init PROVE RelaySocketInv
  OBVIOUS
<1>1. /\ FreeAttempt \in AttemptType /\ FreeAttempt.pc = "free" /\ NoCall \in CallType
      /\ NoCall.pc = "idle" /\ ~NoCall.joined /\ NoSend \in SendType /\ ~NoSend.sent
      /\ NoClosing \in ClosingType /\ ~NoClosing.confirmed /\ NoClosing.pc = "idle"
  BY DEF FreeAttempt, AttemptType, NoCall, CallType, NoSend, SendType, NoClosing, ClosingType
<1>2. TypeOK
  BY <1>1 DEF Init, TypeOK, NoJoin
<1>3. pipe = <<>> /\ acks = {} /\ Unread = {} /\ Flying = {} /\ DirectFlying = {}
  BY <1>1 DEF Init, Unread, Flying, DirectFlying
<1>4. WireInv /\ PacketInv /\ AttemptInv /\ JoinedInv
  BY <1>1, <1>3 DEF Init, WireInv, PacketInv, AttemptInv, JoinedInv
<1>5. HeldInv /\ JoinIsReal
  BY <1>1, <1>3 DEF Init, HeldInv, JoinIsReal, NoJoin
<1>6. DoneInv /\ ConfirmedIsDone
  BY <1>1, <1>3 DEF Init, DoneInv, ConfirmedIsDone
<1>7. HandedOverOnce /\ LeftStaysLeft
  BY DEF Init, HandedOverOnce, LeftStaysLeft
<1>8. QED BY <1>2, <1>4, <1>5, <1>6, <1>7 DEF RelaySocketInv

LEMMA StutterInv == RelaySocketInv /\ UNCHANGED vars => RelaySocketInv'
<1> SUFFICES ASSUME RelaySocketInv, UNCHANGED vars PROVE RelaySocketInv'
  OBVIOUS
<1>1. /\ UNCHANGED <<socket, channelId, pendingJoin, attempt, call, send, pipe, member, closed,
                     wanted, handed>>
      /\ acks' \subseteq acks /\ closing' = closing /\ closing \in ClosingType
  BY DEF vars, client, relay, RelaySocketInv, TypeOK
<1>2. QED BY <1>1, CloseSettledInv

LEMMA NextInv == RelaySocketInv /\ [Next]_vars => RelaySocketInv'
<1> SUFFICES ASSUME RelaySocketInv, [Next]_vars PROVE RelaySocketInv'
  OBVIOUS
<1>1. CASE Application
  <2>1. ASSUME NEW q \in Callers, NEW c \in Channels, JoinLater(q, c) PROVE RelaySocketInv'
    BY <2>1, JoinLaterInv
  <2>2. ASSUME NEW q \in Callers, NEW c \in Channels, NEW a \in Attempts, JoinImmediately(q, c, a)
        PROVE  RelaySocketInv'
    BY <2>2, JoinImmediatelyInv
  <2>3. QED BY <1>1, <2>1, <2>2, ConnectInv, SendMessageInv, CloseChannelInv, LeaveChannelInv,
                DisconnectInv DEF Application
<1>2. CASE TransportUp \/ TransportDown
  BY <1>2, TransportUpInv, TransportDownInv
<1>3. CASE \E a \in Attempts : Reaction(a)
  BY <1>3, ReactionInv
<1>4. CASE Timers
  BY <1>4, WatchdogInv, JoinTimesOutInv, SendTimesOutInv, CloseTimesOutInv DEF Timers
<1>5. CASE Acknowledgement
  BY <1>5, JoinConfirmedInv, JoinRefusedInv, SendAnsweredInv, CloseAnsweredInv DEF Acknowledgement
<1>6. CASE Relay
  BY <1>6, AcceptJoinInv, RefuseJoinInv, ReadLeaveInv, AcceptCloseInv, RefuseCloseInv,
     RouteMessageInv DEF Relay
<1>7. CASE UNCHANGED vars
  BY <1>7, StutterInv
<1>8. QED BY <1>1, <1>2, <1>3, <1>4, <1>5, <1>6, <1>7 DEF Next

\* Whatever the relay and the transport do, in every reachable state: the types
\* hold, packets and acknowledgements name each callback at most once, and the
\* bookkeeping of the joins, sends and the close agrees with what the relay did.
THEOREM RelaySocketInvariant == Spec => []RelaySocketInv
<1>1. Init => RelaySocketInv
  BY InitInv
<1>2. RelaySocketInv /\ [Next]_vars => RelaySocketInv'
  BY NextInv
<1>3. QED BY <1>1, <1>2, PTL DEF Spec

\* joinChannel() reports success only for a join the relay accepted while the
\* call was waiting, also when attempts of earlier connections are answered
\* late (settlePendingJoin(), finish()).
THEOREM JoinsAreReal == Spec => []JoinIsReal
<1>1. RelaySocketInv => JoinIsReal
  BY DEF RelaySocketInv
<1>2. QED BY <1>1, RelaySocketInvariant, PTL

\* The frames buffered at a join go to the waiters of the join or to the
\* listener of "reconnected", never to both.
THEOREM FramesHandedOverOnce == Spec => []HandedOverOnce
<1>1. RelaySocketInv => HandedOverOnce
  BY DEF RelaySocketInv
<1>2. QED BY <1>1, RelaySocketInvariant, PTL

\* A call that waits is held by exactly one promise, the pending join's or that
\* of one immediate attempt, and no promise is for a call that has its answer.
LEMMA HeldOnce == RelaySocketInv => WaitingIsHeld
<1> SUFFICES ASSUME RelaySocketInv, NEW q \in Callers
             PROVE  LET own == {a \in DirectFlying : attempt[a].by = q}
                    IN  IF call[q].pc = "waiting"
                          THEN Cardinality(own) = IF q \in pendingJoin.waiters THEN 0 ELSE 1
                          ELSE own = {} /\ q \notin pendingJoin.waiters
  BY DEF WaitingIsHeld
<1> DEFINE own == {a \in DirectFlying : attempt[a].by = q}
<1>1. HeldInv
  BY DEF RelaySocketInv
<1>2. CASE call[q].pc = "waiting" /\ q \in pendingJoin.waiters
  <2>1. own = {}
    BY <1>1, <1>2 DEF HeldInv
  <2>2. QED BY <1>2, <2>1, FS_EmptySet
<1>3. CASE call[q].pc = "waiting" /\ q \notin pendingJoin.waiters
  <2>1. PICK a \in DirectFlying : attempt[a].by = q
    BY <1>1, <1>3 DEF HeldInv
  <2>2. own = {a}
    BY <1>1, <2>1 DEF HeldInv
  <2>3. QED BY <1>3, <2>2, FS_Singleton
<1>4. CASE call[q].pc # "waiting"
  BY <1>1, <1>4 DEF HeldInv
<1>5. QED BY <1>2, <1>3, <1>4

\* No call of joinChannel() is forgotten or answered by two promises, however
\* joins, supersessions, reconnects and the watchdog interleave.
THEOREM WaitingCallsAreHeld == Spec => []WaitingIsHeld
<1>1. QED BY HeldOnce, RelaySocketInvariant, PTL

\* The client joins on its own only the channel the application last asked for
\* and has not left, closed, disconnected from or lost to the watchdog.
THEOREM LeftChannelsStayLeft == Spec => []LeftStaysLeft
<1>1. RelaySocketInv => LeftStaysLeft
  BY DEF RelaySocketInv
<1>2. QED BY <1>1, RelaySocketInvariant, PTL

\* closeChannel() answers true only when the tombstone exists, and sendMessage()
\* resolves only for a message the relay took.
THEOREM ConfirmationsAreDone == Spec => []ConfirmedIsDone
<1>1. RelaySocketInv => ConfirmedIsDone
  BY DEF RelaySocketInv
<1>2. QED BY <1>1, RelaySocketInvariant, PTL

=============================================================================
