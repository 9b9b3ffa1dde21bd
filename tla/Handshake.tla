------------------------------ MODULE Handshake ------------------------------
(***************************************************************************)
(* src/KeyExchange.ts with handleSynAck() of src/ConnectionManager.ts: the *)
(* PQP3 handshake between a dApp (originator) and a wallet (responder)     *)
(* over a relay that may lose, repeat, reorder, damage and make up frames. *)
(*                                                                         *)
(* Cryptography is perfect.  A pairing stands for the ML-KEM key pair and  *)
(* the QR-only capability of one initiate(), a scan for the encapsulation  *)
(* of one receiveQR(); the AEAD key is the pair of them, and a frame opens *)
(* only under its own key.  Pairing and scan numbers also serve as the     *)
(* stateGeneration of the two sides: 0 after a reset.                      *)
(***************************************************************************)
EXTENDS Naturals

CONSTANTS
  Tasks,        \* concurrent handler calls of one side
  None,
  MaxPairings,  \* bound on initiate() calls
  MaxScans      \* bound on receiveQR() calls

ASSUME HandshakeAssumption == MaxPairings \in Nat /\ MaxScans \in Nat

VARIABLES
  \* originator
  pairing,             \* the current initiate(), 0 after a reset
  secret,              \* keypair and capability are in memory
  awaitingSynAck,
  awaitingAckDelivery,
  oSession,            \* session, from the moment it is provisional
  keysExchanged,
  lastAck,             \* the session whose ACK is cached
  oTask,               \* handleSynAck() calls
  \* responder
  scan,                \* the current receiveQR(), 0 after a reset
  awaitingAck,
  rSession,
  rKeysExchanged,
  rTask,               \* receiveQR() and onAck() calls
  \* environment and history
  net,                 \* frames the relay may deliver, any number of times
  pairings,            \* number of initiate() calls so far
  scans,               \* number of receiveQR() calls so far
  confirmed,           \* history: pairings whose ACK the relay acknowledged
  reloaded             \* the originator was restored from storage

originator == <<pairing, secret, awaitingSynAck, awaitingAckDelivery, oSession,
                keysExchanged, lastAck, reloaded>>
responder == <<scan, awaitingAck, rSession, rKeysExchanged>>
counts == <<pairings, scans, confirmed>>
vars == <<originator, oTask, responder, rTask, net, counts>>

Session == [p : 1 .. MaxPairings, e : 1 .. MaxScans]

ASSUME NoneAssumption == None \notin Session

Frame == [type : {"SYNACK", "ACK"}, s : Session]

Damaged == [type |-> "damaged", s |-> None]

OriginatorTasks ==
  [pc : {"idle", "open", "seal", "reply", "sending", "closing"},
   p : 0 .. MaxPairings, f : Frame \cup {Damaged}]

ResponderTasks ==
  [pc : {"idle", "encaps", "open"}, e : 0 .. MaxScans,
   p : 0 .. MaxPairings, f : Frame \cup {Damaged}]

IdleO == [pc |-> "idle", p |-> 0, f |-> Damaged]
IdleR == [pc |-> "idle", e |-> 0, p |-> 0, f |-> Damaged]

TypeOK ==
  /\ pairing \in 0 .. MaxPairings
  /\ secret \in BOOLEAN
  /\ awaitingSynAck \in BOOLEAN
  /\ awaitingAckDelivery \in BOOLEAN
  /\ oSession \in Session \cup {None}
  /\ keysExchanged \in BOOLEAN
  /\ lastAck \in Session \cup {None}
  /\ oTask \in [Tasks -> OriginatorTasks]
  /\ scan \in 0 .. MaxScans
  /\ awaitingAck \in BOOLEAN
  /\ rSession \in Session \cup {None}
  /\ rKeysExchanged \in BOOLEAN
  /\ rTask \in [Tasks -> ResponderTasks]
  /\ net \subseteq Frame
  /\ pairings \in 0 .. MaxPairings
  /\ scans \in 0 .. MaxScans
  /\ confirmed \subseteq 1 .. MaxPairings
  /\ reloaded \in BOOLEAN

Init ==
  /\ pairing = 0 /\ secret = FALSE
  /\ awaitingSynAck = FALSE /\ awaitingAckDelivery = FALSE
  /\ oSession = None /\ keysExchanged = FALSE /\ lastAck = None
  /\ oTask = [h \in Tasks |-> IdleO]
  /\ scan = 0 /\ awaitingAck = FALSE
  /\ rSession = None /\ rKeysExchanged = FALSE
  /\ rTask = [h \in Tasks |-> IdleR]
  /\ net = {}
  /\ pairings = 0 /\ scans = 0
  /\ confirmed = {}
  /\ reloaded = FALSE

\* A frame handed to the relay is delivered some time, or lost.
Transmit(f) == net' \in {net, net \cup {f}}

SynAck(s) == [type |-> "SYNACK", s |-> s]
Ack(s) == [type |-> "ACK", s |-> s]

-----------------------------------------------------------------------------
(* Originator *)

\* resetInternal(); p is the next generation, 0 if there is none.
ResetOriginator(p, holdsSecret) ==
  /\ pairing' = p
  /\ secret' = holdsSecret
  /\ awaitingSynAck' = holdsSecret
  /\ awaitingAckDelivery' = FALSE
  /\ oSession' = None
  /\ keysExchanged' = FALSE
  /\ lastAck' = None
  /\ reloaded' = FALSE

\* getConnectionURI(): retire what there was, show a new QR.
Initiate ==
  /\ pairings < MaxPairings
  /\ pairings' = pairings + 1
  /\ ResetOriginator(pairings + 1, TRUE)
  /\ UNCHANGED <<oTask, responder, rTask, net, scans, confirmed>>

\* invalidateSessionWork(): the session is disconnected or terminated.
Abandon ==
  /\ pairing # 0
  /\ ResetOriginator(0, FALSE)
  /\ UNCHANGED <<oTask, responder, rTask, net, counts>>

\* A reload restores a completed session, but not the cached ACK.
Reload ==
  /\ keysExchanged
  /\ lastAck' = None
  /\ reloaded' = TRUE
  /\ oTask' = [h \in Tasks |-> IdleO]
  /\ UNCHANGED <<pairing, secret, awaitingSynAck, awaitingAckDelivery,
                 oSession, keysExchanged, responder, rTask, net, counts>>

Serving(h) == oTask[h].pc # "idle" /\ oTask[h].p = pairing

\* messageQueue runs one handler of a generation at a time.
MessageQueueFree == pairing # 0 /\ \A h \in Tasks : ~Serving(h)

SetO(h, r) == oTask' = [oTask EXCEPT ![h] = r]
MoveO(h, p) == SetO(h, [oTask[h] EXCEPT !.pc = p])
EndO(h) == SetO(h, IdleO)

Incoming(type) == {f \in net : f.type = type} \cup {Damaged}

\* onSynAck() takes the first SYNACK only.
Expecting == awaitingSynAck /\ secret

TakeSynAck(h, f) ==
  /\ MessageQueueFree
  /\ Expecting
  /\ oTask[h] = IdleO
  /\ awaitingSynAck' = FALSE
  /\ SetO(h, [pc |-> "open", p |-> pairing, f |-> f])
  /\ UNCHANGED <<pairing, secret, awaitingAckDelivery, oSession,
                 keysExchanged, lastAck, reloaded, responder, rTask, net,
                 pairings, scans, confirmed>>

\* A later SYNACK, whatever it holds, is answered with the cached ACK.
RepeatAck(f) ==
  /\ MessageQueueFree
  /\ ~Expecting
  /\ keysExchanged
  /\ lastAck # None
  /\ Transmit(Ack(lastAck))
  /\ UNCHANGED <<originator, oTask, responder, rTask, counts>>

\* A failed handler of the current generation wipes everything at once and
\* then awaits closeChannel(); a stale one just ends.
FailO(h) ==
  IF oTask[h].p = pairing
    THEN ResetOriginator(pairing, FALSE) /\ MoveO(h, "closing")
    ELSE EndO(h) /\ UNCHANGED originator

Verifies(h) == LET f == oTask[h].f IN f # Damaged /\ f.s.p = oTask[h].p

\* Mutant: the generation is not compared after an await.
AnyGeneration(h) == TRUE

CurrentO(h) == oTask[h].p = pairing /\ secret

HelloOpened(h) ==
  /\ oTask[h].pc = "open"
  /\ Verifies(h)
  /\ CurrentO(h)
  /\ MoveO(h, "seal")
  /\ UNCHANGED <<originator, responder, rTask, net, counts>>

HelloRejected(h) ==
  /\ oTask[h].pc = "open"
  /\ ~(Verifies(h) /\ CurrentO(h))
  /\ FailO(h)
  /\ UNCHANGED <<responder, rTask, net, counts>>

\* Mutant: the secrets are left to the garbage collector.
HelloSealedUnwiped(h) ==
  /\ oTask[h].pc = "seal"
  /\ CurrentO(h)
  /\ oSession' = oTask[h].f.s
  /\ lastAck' = oTask[h].f.s
  /\ awaitingAckDelivery' = TRUE
  /\ MoveO(h, "reply")
  /\ UNCHANGED <<pairing, secret, awaitingSynAck, keysExchanged, reloaded,
                 responder, rTask, net, counts>>

\* The session is provisional from here on; the secrets are gone.
HelloSealed(h) ==
  /\ oTask[h].pc = "seal"
  /\ CurrentO(h)
  /\ secret' = FALSE
  /\ oSession' = oTask[h].f.s
  /\ lastAck' = oTask[h].f.s
  /\ awaitingAckDelivery' = TRUE
  /\ MoveO(h, "reply")
  /\ UNCHANGED <<pairing, awaitingSynAck, keysExchanged, reloaded, responder,
                 rTask, net, counts>>

SealFails(h) ==
  /\ oTask[h].pc = "seal"
  /\ FailO(h)
  /\ UNCHANGED <<responder, rTask, net, counts>>

\* sendPlaintext()
SendAck(h) ==
  /\ oTask[h].pc = "reply"
  /\ IF Serving(h)
       THEN MoveO(h, "sending") /\ Transmit(Ack(oSession))
       ELSE EndO(h) /\ UNCHANGED net
  /\ UNCHANGED <<originator, responder, rTask, counts>>

\* Mutant: the ACK is forgotten once the relay has it.
AckForgotten(h) ==
  /\ oTask[h].pc = "sending"
  /\ Serving(h)
  /\ awaitingAckDelivery
  /\ awaitingAckDelivery' = FALSE
  /\ keysExchanged' = TRUE
  /\ lastAck' = None
  /\ confirmed' = confirmed \cup {pairing}
  /\ EndO(h)
  /\ UNCHANGED <<pairing, secret, awaitingSynAck, oSession, reloaded,
                 responder, rTask, net, pairings, scans>>

AckConfirmed(h) ==
  /\ oTask[h].pc = "sending"
  /\ Serving(h)
  /\ awaitingAckDelivery
  /\ awaitingAckDelivery' = FALSE
  /\ keysExchanged' = TRUE
  /\ confirmed' = confirmed \cup {pairing}
  /\ EndO(h)
  /\ UNCHANGED <<pairing, secret, awaitingSynAck, oSession, lastAck, reloaded,
                 responder, rTask, net, pairings, scans>>

\* Mutant: completion does not wait for the relay.
AckAssumed(h) ==
  /\ oTask[h].pc = "sending"
  /\ IF Serving(h)
       THEN keysExchanged' = TRUE /\ awaitingAckDelivery' = FALSE
       ELSE UNCHANGED <<keysExchanged, awaitingAckDelivery>>
  /\ EndO(h)
  /\ UNCHANGED <<pairing, secret, awaitingSynAck, oSession, lastAck, reloaded,
                 responder, rTask, net, counts>>

\* The relay did not acknowledge the ACK: awaits closeChannel(), the session
\* stays provisional until then.
AckUnconfirmed(h) ==
  /\ oTask[h].pc = "sending"
  /\ IF Serving(h) THEN MoveO(h, "closing") ELSE EndO(h)
  /\ UNCHANGED <<originator, responder, rTask, net, counts>>

\* handleSessionTerminated()
Closed(h) ==
  /\ oTask[h].pc = "closing"
  /\ EndO(h)
  /\ IF Serving(h) THEN ResetOriginator(0, FALSE) ELSE UNCHANGED originator
  /\ UNCHANGED <<responder, rTask, net, counts>>

-----------------------------------------------------------------------------
(* Responder *)

ResetResponder(e) ==
  /\ scan' = e
  /\ awaitingAck' = FALSE
  /\ rSession' = None
  /\ rKeysExchanged' = FALSE

SetR(h, r) == rTask' = [rTask EXCEPT ![h] = r]
EndR(h) == SetR(h, IdleR)

CurrentR(h) == rTask[h].e = scan

\* receiveQR() of any QR shown so far, up to its first await.
ReceiveQR(h, p) ==
  /\ scans < MaxScans
  /\ rTask[h] = IdleR
  /\ scans' = scans + 1
  /\ ResetResponder(scans + 1)
  /\ SetR(h, [pc |-> "encaps", e |-> scans + 1, p |-> p, f |-> Damaged])
  /\ UNCHANGED <<originator, oTask, net, pairings, confirmed>>

Encapsulated(h) ==
  /\ rTask[h].pc = "encaps"
  /\ CurrentR(h)
  /\ rSession' = [p |-> rTask[h].p, e |-> rTask[h].e]
  /\ awaitingAck' = TRUE
  /\ Transmit(SynAck([p |-> rTask[h].p, e |-> rTask[h].e]))
  /\ EndR(h)
  /\ UNCHANGED <<originator, oTask, scan, rKeysExchanged, counts>>

FailR(h) ==
  /\ EndR(h)
  /\ IF CurrentR(h) THEN ResetResponder(0) ELSE UNCHANGED responder

EncapsFails(h) ==
  /\ rTask[h].pc = "encaps"
  /\ FailR(h)
  /\ UNCHANGED <<originator, oTask, net, counts>>

\* The wallet sends its SYNACK again when it rejoins without an ACK.
RepeatSynAck ==
  /\ awaitingAck
  /\ Transmit(SynAck(rSession))
  /\ UNCHANGED <<originator, oTask, responder, rTask, counts>>

\* onAck() takes the first ACK only.
TakeAck(h, f) ==
  /\ awaitingAck
  /\ rTask[h] = IdleR
  /\ awaitingAck' = FALSE
  /\ SetR(h, [pc |-> "open", e |-> scan, p |-> 0, f |-> f])
  /\ UNCHANGED <<originator, oTask, scan, rSession, rKeysExchanged, net,
                 counts>>

\* Mutant: the key does not depend on the encapsulation.
AckOpensByPairing(h) ==
  CurrentR(h) /\ rTask[h].f # Damaged /\ rTask[h].f.s.p = rSession.p

AckOpens(h) == CurrentR(h) /\ rTask[h].f # Damaged /\ rTask[h].f.s = rSession

AckOpened(h) ==
  /\ rTask[h].pc = "open"
  /\ AckOpens(h)
  /\ rKeysExchanged' = TRUE
  /\ EndR(h)
  /\ UNCHANGED <<originator, oTask, scan, awaitingAck, rSession, net, counts>>

AckRejected(h) ==
  /\ rTask[h].pc = "open"
  /\ ~AckOpens(h)
  /\ FailR(h)
  /\ UNCHANGED <<originator, oTask, net, counts>>

\* The wallet drops the session.
Forget ==
  /\ scan # 0
  /\ ResetResponder(0)
  /\ UNCHANGED <<originator, oTask, rTask, net, counts>>

-----------------------------------------------------------------------------
OriginatorContinues(h) ==
  \/ HelloOpened(h)
  \/ HelloRejected(h)
  \/ HelloSealed(h)
  \/ SealFails(h)
  \/ SendAck(h)
  \/ AckConfirmed(h)
  \/ AckUnconfirmed(h)
  \/ Closed(h)

ResponderContinues(h) ==
  \/ Encapsulated(h)
  \/ EncapsFails(h)
  \/ AckOpened(h)
  \/ AckRejected(h)

Next ==
  \/ Initiate
  \/ Abandon
  \/ Reload
  \/ \E f \in Incoming("SYNACK") : RepeatAck(f)
  \/ RepeatSynAck
  \/ Forget
  \/ \E h \in Tasks :
       \/ \E f \in Incoming("SYNACK") : TakeSynAck(h, f)
       \/ OriginatorContinues(h)
       \/ \E p \in 1 .. pairings : ReceiveQR(h, p)
       \/ \E f \in Incoming("ACK") : TakeAck(h, f)
       \/ ResponderContinues(h)

Spec == Init /\ [][Next]_vars

\* Promises settle.  While the wallet lacks its ACK it goes on repeating its
\* SYNACK, and the relay does not lose every one of these exchanges.
RoundTrip ==
  /\ awaitingAck
  /\ SynAck(rSession) \in net
  /\ RepeatAck(SynAck(rSession))
  /\ Ack(lastAck) \in net'

Fairness ==
  /\ \A h \in Tasks :
       /\ WF_vars(OriginatorContinues(h))
       /\ WF_vars(ResponderContinues(h))
  /\ SF_vars(RoundTrip)
  /\ WF_vars(Ack(rSession) \in net /\ \E h \in Tasks : TakeAck(h, Ack(rSession)))

FairSpec == Spec /\ Fairness

-----------------------------------------------------------------------------
(* Properties *)

\* The ML-KEM secret key and the capability are in memory only while the
\* handshake that needs them is under way: not beside a session, not after a
\* failure, a reset or a reload.
SecretsWiped ==
  secret =>
    /\ oSession = None
    /\ awaitingSynAck \/ \E h \in Tasks :
         Serving(h) /\ oTask[h].pc \in {"open", "seal"}

\* A continuation of an older handshake never installs its session into a
\* newer one, on either side.
SessionIsCurrent ==
  /\ oSession # None => oSession.p = pairing
  /\ rSession # None => rSession.e = scan

\* The originator publishes completion only for a session it holds and whose
\* ACK the relay acknowledged (the comments in onSynAck and
\* confirmOriginatorAckDelivered).
CompletionIsConfirmed ==
  keysExchanged =>
    /\ oSession # None
    /\ pairing \in confirmed
    /\ ~awaitingAckDelivery

\* Both sides of one pairing hold the same key once the wallet has verified
\* an ACK, even if the wallet scanned the same QR more than once.
Agreement ==
  rKeysExchanged /\ oSession # None /\ oSession.p = rSession.p =>
    oSession = rSession

\* Of two sides that hold the same session only the originator is done.
HalfOpen ==
  keysExchanged /\ ~rKeysExchanged /\ rSession # None /\ rSession = oSession

\* A handshake whose ACK was lost converges: the cached ACK answers the
\* wallet's repeated SYNACK (the comment at lastAck).
Converges == HalfOpen /\ ~reloaded ~> ~HalfOpen \/ reloaded

\* "A reloaded dApp has a completed session and the wallet is no longer
\* awaiting an ACK" (the comment at lastAck): a wallet that still awaits one
\* would have to get it some time.
ReloadStrandsNoWallet == HalfOpen /\ reloaded ~> ~HalfOpen
=============================================================================
