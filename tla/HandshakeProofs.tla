-------------------------- MODULE HandshakeProofs --------------------------
(***************************************************************************)
(* Theorems about Handshake for every set of handler calls and every       *)
(* number of pairings and scans.  The argument is the inductive invariant  *)
(* HandshakeInv; there is one lemma per step.                              *)
(***************************************************************************)
EXTENDS Handshake, TLAPS

USE HandshakeAssumption, NoneAssumption

\* A number is issued once, and a handler works for one that was issued.
NumbersInv ==
  /\ pairing <= pairings
  /\ scan <= scans
  /\ \A h \in Tasks : oTask[h].pc # "idle" => oTask[h].p \in 1 .. pairings
  /\ \A h \in Tasks :
       /\ rTask[h].pc # "idle" => rTask[h].e \in 1 .. scans
       /\ rTask[h].pc = "encaps" => rTask[h].p \in 1 .. pairings

\* The serialized queue: one handler of a generation at a time.
QueueInv == \A h, g \in Tasks : Serving(h) /\ Serving(g) => h = g

\* What the originator's flags say of each other.
OriginatorInv ==
  /\ secret => oSession = None
  /\ awaitingAckDelivery => oSession # None /\ ~keysExchanged
  /\ lastAck # None => lastAck = oSession

\* How far the handler of the current generation has come.
HandlerInv ==
  \A h \in Tasks :
    /\ oTask[h].pc = "seal" => Verifies(h)
    /\ Serving(h) /\ oTask[h].pc \in {"reply", "sending"} =>
         oSession # None /\ lastAck = oSession

\* An ACK in the relay belongs to a pairing whose secrets are spent, and to
\* the only session that pairing ever had.
AckInv ==
  \A s \in Session : Ack(s) \in net =>
    /\ s.p <= pairings
    /\ s.p = pairing => ~secret /\ oSession \in {None, s}

\* A scan is encapsulated before anything else is done about it.
ScanInv ==
  /\ awaitingAck => rSession # None
  /\ \A h \in Tasks : rTask[h].pc = "encaps" /\ CurrentR(h) =>
       /\ ~awaitingAck /\ ~rKeysExchanged
       /\ \A g \in Tasks : rTask[g].pc # "idle" /\ CurrentR(g) => g = h

\* What an onAck() call works on came from the relay; what was verified is
\* an ACK the originator sent.
VerifiedInv ==
  /\ \A h \in Tasks : rTask[h].pc = "open" => rTask[h].f \in Incoming("ACK")
  /\ rKeysExchanged => rSession # None /\ Ack(rSession) \in net

\* The relay never carries the ACKs of two sessions of one pairing: whatever
\* the wallet scans again, onSynAck() answers one encapsulation.
OneAnswerPerPairing ==
  \A s, t \in Session :
    Ack(s) \in net /\ Ack(t) \in net /\ s.p = t.p => s = t

HandshakeInv ==
  /\ TypeOK
  /\ NumbersInv
  /\ QueueInv
  /\ OriginatorInv
  /\ HandlerInv
  /\ AckInv
  /\ ScanInv
  /\ VerifiedInv
  /\ SecretsWiped
  /\ SessionIsCurrent
  /\ CompletionIsConfirmed
  /\ OneAnswerPerPairing

-----------------------------------------------------------------------------
(* Handler calls *)

LEMMA IdleTasks ==
  /\ IdleO \in OriginatorTasks /\ IdleO.pc = "idle"
  /\ IdleR \in ResponderTasks /\ IdleR.pc = "idle"
  BY DEF IdleO, IdleR, OriginatorTasks, ResponderTasks

LEMMA MovedTask ==
  ASSUME NEW t \in OriginatorTasks,
         NEW x \in {"idle", "open", "seal", "reply", "sending", "closing"}
  PROVE  /\ [t EXCEPT !.pc = x] \in OriginatorTasks
         /\ [t EXCEPT !.pc = x].pc = x
         /\ [t EXCEPT !.pc = x].p = t.p
         /\ [t EXCEPT !.pc = x].f = t.f
  BY DEF OriginatorTasks

LEMMA SetTaskO ==
  ASSUME TypeOK, NEW h \in Tasks, NEW r \in OriginatorTasks, SetO(h, r)
  PROVE  /\ oTask' \in [Tasks -> OriginatorTasks]
         /\ oTask'[h] = r
         /\ \A g \in Tasks : g # h => oTask'[g] = oTask[g]
  BY DEF TypeOK, SetO

LEMMA MoveTaskO ==
  ASSUME TypeOK, NEW h \in Tasks,
         NEW x \in {"idle", "open", "seal", "reply", "sending", "closing"}, MoveO(h, x)
  PROVE  /\ oTask' \in [Tasks -> OriginatorTasks]
         /\ oTask'[h].pc = x
         /\ oTask'[h].p = oTask[h].p
         /\ oTask'[h].f = oTask[h].f
         /\ \A g \in Tasks : g # h => oTask'[g] = oTask[g]
<1>1. oTask[h] \in OriginatorTasks
  BY DEF TypeOK
<1>2. [oTask[h] EXCEPT !.pc = x] \in OriginatorTasks
  BY <1>1, MovedTask
<1>3. SetO(h, [oTask[h] EXCEPT !.pc = x])
  BY DEF MoveO
<1>4. /\ oTask' \in [Tasks -> OriginatorTasks]
      /\ oTask'[h] = [oTask[h] EXCEPT !.pc = x]
      /\ \A g \in Tasks : g # h => oTask'[g] = oTask[g]
  BY <1>2, <1>3, SetTaskO
<1>5. QED BY <1>1, <1>4, MovedTask

LEMMA EndTaskO ==
  ASSUME TypeOK, NEW h \in Tasks, EndO(h)
  PROVE  /\ oTask' \in [Tasks -> OriginatorTasks]
         /\ oTask'[h].pc = "idle"
         /\ \A g \in Tasks : g # h => oTask'[g] = oTask[g]
  BY IdleTasks, SetTaskO DEF EndO

LEMMA SetTaskR ==
  ASSUME TypeOK, NEW h \in Tasks, NEW r \in ResponderTasks, SetR(h, r)
  PROVE  /\ rTask' \in [Tasks -> ResponderTasks]
         /\ rTask'[h] = r
         /\ \A g \in Tasks : g # h => rTask'[g] = rTask[g]
  BY DEF TypeOK, SetR

LEMMA EndTaskR ==
  ASSUME TypeOK, NEW h \in Tasks, EndR(h)
  PROVE  /\ rTask' \in [Tasks -> ResponderTasks]
         /\ rTask'[h].pc = "idle"
         /\ \A g \in Tasks : g # h => rTask'[g] = rTask[g]
  BY IdleTasks, SetTaskR DEF EndR

-----------------------------------------------------------------------------
(* Frames *)

LEMMA Frames ==
  /\ Damaged \notin Frame
  /\ \A s \in Session :
       /\ Ack(s) \in Frame /\ SynAck(s) \in Frame
       /\ Ack(s).s = s /\ Ack(s) # SynAck(s)
       /\ \A t \in Session : Ack(t) # SynAck(s)
  /\ \A f \in Frame : f.s \in Session /\ (f.type = "ACK" => f = Ack(f.s))
<1>1. Damaged \notin Frame
  BY DEF Frame, Damaged
<1>2. ASSUME NEW s \in Session
      PROVE  /\ Ack(s) \in Frame /\ SynAck(s) \in Frame
             /\ Ack(s).s = s
             /\ Ack(s).type = "ACK" /\ SynAck(s).type = "SYNACK"
  BY DEF Frame, Ack, SynAck
<1>3. ASSUME NEW f \in Frame PROVE f.s \in Session /\ (f.type = "ACK" => f = Ack(f.s))
  BY DEF Frame, Ack
<1>4. QED BY <1>1, <1>2, <1>3

\* Only an ACK of the session s is new in the relay, if anything is.
LEMMA Transmitted ==
  ASSUME TypeOK, NEW s \in Session
  PROVE  /\ Transmit(SynAck(s)) =>
              /\ net' \subseteq Frame /\ net \subseteq net'
              /\ \A t \in Session : Ack(t) \in net' => Ack(t) \in net
         /\ Transmit(Ack(s)) =>
              /\ net' \subseteq Frame /\ net \subseteq net'
              /\ \A t \in Session : Ack(t) \in net' => Ack(t) \in net \/ t = s
<1>1. \A t \in Session : Ack(t) = Ack(s) => t = s
  BY Frames
<1>2. QED BY <1>1, Frames DEF TypeOK, Transmit

-----------------------------------------------------------------------------
(* One side rests while the other one moves *)

LEMMA OriginatorRests ==
  ASSUME HandshakeInv, UNCHANGED <<originator, oTask, pairings, confirmed>>,
         \A s \in Session : Ack(s) \in net' => Ack(s) \in net
  PROVE  /\ QueueInv' /\ OriginatorInv' /\ HandlerInv' /\ AckInv'
         /\ SecretsWiped' /\ CompletionIsConfirmed' /\ OneAnswerPerPairing'
         /\ (oSession # None => oSession.p = pairing)'
<1>1. UNCHANGED <<pairing, secret, awaitingSynAck, awaitingAckDelivery, oSession,
                  keysExchanged, lastAck, oTask, pairings, confirmed>>
  BY DEF originator
<1>2. QueueInv' /\ OriginatorInv' /\ HandlerInv' /\ SecretsWiped' /\ CompletionIsConfirmed'
  BY <1>1 DEF HandshakeInv, QueueInv, OriginatorInv, HandlerInv, SecretsWiped,
              CompletionIsConfirmed, Serving, Verifies
<1>3. AckInv' /\ OneAnswerPerPairing'
  BY <1>1 DEF HandshakeInv, AckInv, OneAnswerPerPairing
<1>4. (oSession # None => oSession.p = pairing)'
  BY <1>1 DEF HandshakeInv, SessionIsCurrent
<1>5. QED BY <1>2, <1>3, <1>4

LEMMA ResponderRests ==
  ASSUME HandshakeInv, UNCHANGED <<responder, rTask>>, net \subseteq net'
  PROVE  /\ ScanInv' /\ VerifiedInv'
         /\ (rSession # None => rSession.e = scan)'
<1>1. UNCHANGED <<scan, awaitingAck, rSession, rKeysExchanged, rTask>>
  BY DEF responder
<1>2. ScanInv'
  BY <1>1 DEF HandshakeInv, ScanInv, CurrentR
<1>3. VerifiedInv'
  BY <1>1 DEF HandshakeInv, VerifiedInv, Incoming
<1>4. (rSession # None => rSession.e = scan)'
  BY <1>1 DEF HandshakeInv, SessionIsCurrent
<1>5. QED BY <1>2, <1>3, <1>4

-----------------------------------------------------------------------------
(* The originator's steps *)

\* A reset for a generation that is new, none, or the same without secrets.
LEMMA ResetOriginatorInv ==
  ASSUME HandshakeInv, NEW p \in 0 .. MaxPairings, NEW w \in BOOLEAN,
         ResetOriginator(p, w), UNCHANGED confirmed,
         p \in {0, pairing} \/ p = pairings + 1, w => p = pairings + 1,
         pairings' = IF w THEN p ELSE pairings, pairings' \in 0 .. MaxPairings,
         p <= pairings', UNCHANGED <<responder, rTask, net, scans>>,
         oTask' \in [Tasks -> OriginatorTasks],
         \A h \in Tasks : /\ oTask'[h].pc # "idle" =>
                                 oTask[h].pc # "idle" /\ oTask'[h].p = oTask[h].p
                          /\ oTask'[h].pc \in {"seal", "reply", "sending"} =>
                                 oTask'[h] = oTask[h] /\ oTask[h].p # p
  PROVE  HandshakeInv'
<1>1. UNCHANGED <<scan, awaitingAck, rSession, rKeysExchanged>>
  BY DEF responder
<1>2. TypeOK'
  BY <1>1 DEF HandshakeInv, TypeOK, ResetOriginator
<1>3. NumbersInv'
  BY <1>1 DEF HandshakeInv, NumbersInv, ResetOriginator, TypeOK
<1>4. QueueInv'
  BY DEF HandshakeInv, NumbersInv, QueueInv, Serving, ResetOriginator, TypeOK
<1>5. OriginatorInv' /\ CompletionIsConfirmed'
  BY DEF OriginatorInv, CompletionIsConfirmed, ResetOriginator
<1>6. HandlerInv'
  BY DEF HandshakeInv, HandlerInv, Serving, Verifies, ResetOriginator
<1>7. AckInv'
  BY DEF HandshakeInv, AckInv, ResetOriginator, TypeOK, Session
<1>8. OneAnswerPerPairing'
  BY DEF HandshakeInv, OneAnswerPerPairing
<1>9. SecretsWiped'
  BY DEF SecretsWiped, ResetOriginator
<1>10. SessionIsCurrent'
  BY ResponderRests DEF ResetOriginator, SessionIsCurrent
<1>11. ScanInv' /\ VerifiedInv'
  BY ResponderRests
<1>12. QED BY <1>2, <1>3, <1>4, <1>5, <1>6, <1>7, <1>8, <1>9, <1>10, <1>11 DEF HandshakeInv

LEMMA InitiateInv == HandshakeInv /\ Initiate => HandshakeInv'
<1> SUFFICES ASSUME HandshakeInv, Initiate PROVE HandshakeInv'
  OBVIOUS
<1>1. pairings + 1 \in 0 .. MaxPairings
  BY DEF HandshakeInv, TypeOK, Initiate
<1>2. \A h \in Tasks : oTask[h].pc # "idle" => oTask[h].p # pairings + 1
  BY DEF HandshakeInv, NumbersInv, TypeOK
<1>3. /\ ResetOriginator(pairings + 1, TRUE)
      /\ pairings' = pairings + 1
      /\ UNCHANGED confirmed /\ UNCHANGED <<responder, rTask, net, scans>>
      /\ oTask' = oTask
  BY DEF Initiate
<1>4. oTask' \in [Tasks -> OriginatorTasks] /\ pairings + 1 <= pairings'
  BY <1>1, <1>3 DEF HandshakeInv, TypeOK
<1>5. QED BY <1>1, <1>2, <1>3, <1>4, ResetOriginatorInv

LEMMA AbandonInv == HandshakeInv /\ Abandon => HandshakeInv'
<1> SUFFICES ASSUME HandshakeInv, Abandon PROVE HandshakeInv'
  OBVIOUS
<1>1. \A h \in Tasks : oTask[h].pc # "idle" => oTask[h].p # 0
  BY DEF HandshakeInv, NumbersInv, TypeOK
<1>2. 0 \in 0 .. MaxPairings
  OBVIOUS
<1>3. pairings' = pairings /\ confirmed' = confirmed /\ scans' = scans
  BY DEF Abandon, counts
<1>4. pairings \in 0 .. MaxPairings /\ 0 <= pairings
  BY DEF HandshakeInv, TypeOK
<1>5. QED BY <1>1, <1>2, <1>3, <1>4, ResetOriginatorInv DEF HandshakeInv, TypeOK, Abandon

\* A handler ends whose generation is over, or whose work is done.
LEMMA EndTaskInv ==
  ASSUME HandshakeInv, NEW h \in Tasks, EndO(h), UNCHANGED originator,
         UNCHANGED <<responder, rTask, net, counts>>,
         Serving(h) => oTask[h].pc \notin {"open", "seal"}
  PROVE  HandshakeInv'
<1>1. UNCHANGED <<pairing, secret, awaitingSynAck, awaitingAckDelivery, oSession,
                  keysExchanged, lastAck, reloaded, scan, awaitingAck, rSession,
                  rKeysExchanged, rTask, net, pairings, scans, confirmed>>
  BY DEF originator, responder, counts
<1>2. /\ oTask' \in [Tasks -> OriginatorTasks]
      /\ oTask'[h].pc = "idle"
      /\ \A g \in Tasks : g # h => oTask'[g] = oTask[g]
  BY EndTaskO DEF HandshakeInv
<1>3. \A g \in Tasks : oTask'[g].pc # "idle" => g # h /\ oTask'[g] = oTask[g]
  BY <1>2
<1>4. TypeOK'
  BY <1>1, <1>2 DEF HandshakeInv, TypeOK
<1>5. NumbersInv'
  BY <1>1, <1>3 DEF HandshakeInv, NumbersInv
<1>6. QueueInv'
  BY <1>1, <1>3 DEF HandshakeInv, QueueInv, Serving
<1>7. HandlerInv'
  BY <1>1, <1>2, <1>3 DEF HandshakeInv, HandlerInv, Serving, Verifies
<1>8. SecretsWiped'
  BY <1>1, <1>2 DEF HandshakeInv, SecretsWiped, Serving
<1>9. OriginatorInv' /\ CompletionIsConfirmed' /\ AckInv' /\ OneAnswerPerPairing' /\ SessionIsCurrent'
  BY <1>1 DEF HandshakeInv, OriginatorInv, CompletionIsConfirmed, AckInv, OneAnswerPerPairing,
              SessionIsCurrent
<1>10. ScanInv' /\ VerifiedInv'
  BY ResponderRests
<1>11. QED BY <1>4, <1>5, <1>6, <1>7, <1>8, <1>9, <1>10 DEF HandshakeInv

\* A failed handler: of the current generation or of an older one.
LEMMA FailInv ==
  ASSUME HandshakeInv, NEW h \in Tasks, oTask[h].pc # "idle", FailO(h),
         UNCHANGED <<responder, rTask, net, counts>>
  PROVE  HandshakeInv'
<1>1. UNCHANGED <<pairings, scans, confirmed>>
  BY DEF counts
<1>2. TypeOK /\ pairing \in 0 .. MaxPairings /\ pairings \in 0 .. MaxPairings
  BY DEF HandshakeInv, TypeOK
<1>3. CASE oTask[h].p = pairing
  <2>1. ResetOriginator(pairing, FALSE) /\ MoveO(h, "closing")
    BY <1>3 DEF FailO
  <2>2. /\ oTask' \in [Tasks -> OriginatorTasks]
        /\ oTask'[h].pc = "closing"
        /\ oTask'[h].p = oTask[h].p
        /\ \A g \in Tasks : g # h => oTask'[g] = oTask[g]
    BY <1>2, <2>1, MoveTaskO
  <2>3. \A g \in Tasks : g # h /\ oTask[g].pc # "idle" => oTask[g].p # pairing
    BY <1>3 DEF HandshakeInv, QueueInv, Serving
  <2>4. pairing <= pairings
    BY DEF HandshakeInv, NumbersInv
  <2>5. \A g \in Tasks : /\ oTask'[g].pc # "idle" =>
                               oTask[g].pc # "idle" /\ oTask'[g].p = oTask[g].p
                         /\ oTask'[g].pc \in {"seal", "reply", "sending"} =>
                               oTask'[g] = oTask[g] /\ oTask[g].p # pairing
    BY <2>2, <2>3
  <2>6. QED BY <1>1, <1>2, <2>1, <2>2, <2>4, <2>5, ResetOriginatorInv
<1>4. CASE oTask[h].p # pairing
  <2>1. EndO(h) /\ UNCHANGED originator
    BY <1>4 DEF FailO
  <2>2. ~Serving(h)
    BY <1>4 DEF Serving
  <2>3. QED BY <2>1, <2>2, EndTaskInv
<1>5. QED BY <1>3, <1>4

\* A handler goes on to its next await; what it sends, if anything, is the
\* ACK of the session of its generation.
LEMMA MoveTaskInv ==
  ASSUME HandshakeInv, NEW h \in Tasks, NEW x \in {"seal", "sending", "closing"},
         MoveO(h, x), UNCHANGED originator, UNCHANGED <<responder, rTask, counts>>,
         net \subseteq net', net' \subseteq Frame,
         \A s \in Session : Ack(s) \in net' =>
            Ack(s) \in net \/ s = oSession,
         x = "seal" => Verifies(h) /\ oTask[h].pc = "open",
         x = "sending" => oTask[h].pc = "reply",
         x = "closing" => oTask[h].pc = "sending"
  PROVE  HandshakeInv'
<1>1. UNCHANGED <<pairing, secret, awaitingSynAck, awaitingAckDelivery, oSession,
                  keysExchanged, lastAck, reloaded, scan, awaitingAck, rSession,
                  rKeysExchanged, rTask, pairings, scans, confirmed>>
  BY DEF originator, responder, counts
<1>2. /\ oTask' \in [Tasks -> OriginatorTasks]
      /\ oTask'[h].pc = x /\ oTask'[h].p = oTask[h].p /\ oTask'[h].f = oTask[h].f
      /\ \A g \in Tasks : g # h => oTask'[g] = oTask[g]
  BY MoveTaskO DEF HandshakeInv
<1>3. oTask[h].pc # "idle"
  OBVIOUS
<1>4. TypeOK'
  BY <1>1, <1>2 DEF HandshakeInv, TypeOK
<1>5. NumbersInv'
  BY <1>1, <1>2, <1>3 DEF HandshakeInv, NumbersInv
<1>6. QueueInv'
  BY <1>1, <1>2, <1>3 DEF HandshakeInv, QueueInv, Serving
<1>7. HandlerInv'
  BY <1>1, <1>2 DEF HandshakeInv, HandlerInv, Serving, Verifies
<1>8. SecretsWiped'
  BY <1>1, <1>2 DEF HandshakeInv, SecretsWiped, Serving
<1>9. OriginatorInv' /\ CompletionIsConfirmed' /\ SessionIsCurrent'
  BY <1>1 DEF HandshakeInv, OriginatorInv, CompletionIsConfirmed, SessionIsCurrent
<1>10. ASSUME NEW s \in Session, s = oSession
       PROVE  /\ s # None /\ ~secret /\ s.p = pairing /\ s.p <= pairings
              /\ \A t \in Session : Ack(t) \in net /\ t.p = s.p => t = s
  <2>1. s # None
    OBVIOUS
  <2>2. s.p = pairing /\ ~secret
    BY <1>10, <2>1 DEF HandshakeInv, SessionIsCurrent, OriginatorInv
  <2>3. QED BY <1>10, <2>1, <2>2 DEF HandshakeInv, AckInv, NumbersInv
<1>11. AckInv' /\ OneAnswerPerPairing'
  BY <1>1, <1>10 DEF HandshakeInv, AckInv, OneAnswerPerPairing
<1>12. ScanInv' /\ VerifiedInv'
  BY ResponderRests
<1>13. QED BY <1>4, <1>5, <1>6, <1>7, <1>8, <1>9, <1>11, <1>12 DEF HandshakeInv

LEMMA TakeSynAckInv ==
  ASSUME HandshakeInv, NEW h \in Tasks, NEW f \in Incoming("SYNACK"), TakeSynAck(h, f)
  PROVE  HandshakeInv'
<1>1. /\ UNCHANGED <<pairing, secret, awaitingAckDelivery, oSession, keysExchanged, lastAck,
                     reloaded, scan, awaitingAck, rSession, rKeysExchanged, rTask, net,
                     pairings, scans, confirmed>>
      /\ awaitingSynAck' = FALSE
      /\ pairing # 0 /\ \A g \in Tasks : ~Serving(g)
  BY DEF TakeSynAck, responder, MessageQueueFree
<1>2. [pc |-> "open", p |-> pairing, f |-> f] \in OriginatorTasks
  BY DEF HandshakeInv, TypeOK, OriginatorTasks, Incoming
<1>3. /\ oTask' \in [Tasks -> OriginatorTasks]
      /\ oTask'[h].pc = "open" /\ oTask'[h].p = pairing
      /\ \A g \in Tasks : g # h => oTask'[g] = oTask[g]
  BY <1>2, SetTaskO DEF HandshakeInv, TakeSynAck
<1>4. TypeOK'
  BY <1>1, <1>3 DEF HandshakeInv, TypeOK
<1>5. pairing \in 1 .. pairings
  BY <1>1 DEF HandshakeInv, TypeOK, NumbersInv
<1>6. NumbersInv'
  BY <1>1, <1>3, <1>5 DEF HandshakeInv, NumbersInv
<1>7. QueueInv'
  BY <1>1, <1>3 DEF QueueInv, Serving
<1>8. HandlerInv'
  BY <1>1, <1>3 DEF HandshakeInv, HandlerInv, Serving, Verifies
<1>9. SecretsWiped'
  BY <1>1, <1>3 DEF HandshakeInv, SecretsWiped, Serving
<1>10. OriginatorInv' /\ CompletionIsConfirmed' /\ AckInv' /\ OneAnswerPerPairing'
       /\ SessionIsCurrent'
  BY <1>1 DEF HandshakeInv, OriginatorInv, CompletionIsConfirmed, AckInv, OneAnswerPerPairing,
              SessionIsCurrent
<1>11. ScanInv' /\ VerifiedInv'
  BY ResponderRests DEF TakeSynAck
<1>12. QED BY <1>4, <1>6, <1>7, <1>8, <1>9, <1>10, <1>11 DEF HandshakeInv

LEMMA HelloOpenedInv ==
  ASSUME HandshakeInv, NEW h \in Tasks, HelloOpened(h) PROVE HandshakeInv'
<1>1. net' = net /\ net \subseteq Frame
  BY DEF HelloOpened, HandshakeInv, TypeOK
<1>2. UNCHANGED originator
  BY DEF HelloOpened, MoveO
<1>3. QED BY <1>1, <1>2, MoveTaskInv DEF HelloOpened

LEMMA HelloSealedInv ==
  ASSUME HandshakeInv, NEW h \in Tasks, HelloSealed(h) PROVE HandshakeInv'
<1>1. /\ UNCHANGED <<pairing, awaitingSynAck, keysExchanged, reloaded, scan, awaitingAck,
                     rSession, rKeysExchanged, rTask, net, pairings, scans, confirmed>>
      /\ secret /\ oTask[h].pc = "seal" /\ oTask[h].p = pairing
      /\ secret' = FALSE /\ awaitingAckDelivery' = TRUE
      /\ oSession' = oTask[h].f.s /\ lastAck' = oSession'
  BY DEF HelloSealed, CurrentO, responder, counts
<1>2. /\ oTask' \in [Tasks -> OriginatorTasks]
      /\ oTask'[h].pc = "reply" /\ oTask'[h].p = oTask[h].p
      /\ \A g \in Tasks : g # h => oTask'[g] = oTask[g]
  BY MoveTaskO DEF HandshakeInv, HelloSealed
<1>3. oTask[h].f \in Frame \cup {Damaged}
  BY DEF HandshakeInv, TypeOK, OriginatorTasks
<1>4. oSession' \in Session /\ oSession' # None /\ oSession'.p = pairing
  BY <1>1, <1>3, Frames DEF HandshakeInv, HandlerInv, Verifies
<1>5. \A g \in Tasks : Serving(g) => g = h
  BY <1>1 DEF HandshakeInv, QueueInv, Serving
<1>6. ~keysExchanged
  BY <1>1 DEF HandshakeInv, OriginatorInv, CompletionIsConfirmed
<1>7. TypeOK'
  BY <1>1, <1>2, <1>4 DEF HandshakeInv, TypeOK
<1>8. NumbersInv'
  BY <1>1, <1>2 DEF HandshakeInv, NumbersInv
<1>9. QueueInv'
  BY <1>1, <1>2, <1>5 DEF QueueInv, Serving
<1>10. HandlerInv'
  BY <1>1, <1>2, <1>4, <1>5 DEF HandshakeInv, HandlerInv, Serving, Verifies
<1>11. OriginatorInv' /\ SecretsWiped' /\ CompletionIsConfirmed'
  BY <1>1, <1>4, <1>6 DEF OriginatorInv, SecretsWiped, CompletionIsConfirmed
<1>12. AckInv' /\ OneAnswerPerPairing'
  BY <1>1 DEF HandshakeInv, AckInv, OneAnswerPerPairing
<1>13. ScanInv' /\ VerifiedInv' /\ SessionIsCurrent'
  BY <1>1, <1>4, ResponderRests DEF SessionIsCurrent, HelloSealed
<1>14. QED BY <1>7, <1>8, <1>9, <1>10, <1>11, <1>12, <1>13 DEF HandshakeInv

LEMMA SendAckInv ==
  ASSUME HandshakeInv, NEW h \in Tasks, SendAck(h) PROVE HandshakeInv'
<1>1. CASE Serving(h)
  <2>1. oTask[h].pc = "reply" /\ MoveO(h, "sending") /\ Transmit(Ack(oSession))
    BY <1>1 DEF SendAck
  <2>2. oSession \in Session
    BY <1>1, <2>1 DEF HandshakeInv, HandlerInv, TypeOK
  <2>3. /\ net' \subseteq Frame /\ net \subseteq net'
        /\ \A t \in Session : Ack(t) \in net' => Ack(t) \in net \/ t = oSession
    BY <2>1, <2>2, Transmitted DEF HandshakeInv
  <2>4. QED BY <2>1, <2>3, MoveTaskInv DEF SendAck
<1>2. CASE ~Serving(h)
  BY <1>2, EndTaskInv DEF SendAck
<1>3. QED BY <1>1, <1>2

LEMMA AckConfirmedInv ==
  ASSUME HandshakeInv, NEW h \in Tasks, AckConfirmed(h) PROVE HandshakeInv'
<1>1. /\ UNCHANGED <<pairing, secret, awaitingSynAck, oSession, lastAck, reloaded, scan,
                     awaitingAck, rSession, rKeysExchanged, rTask, net, pairings, scans>>
      /\ Serving(h) /\ awaitingAckDelivery /\ oTask[h].pc = "sending"
      /\ awaitingAckDelivery' = FALSE /\ keysExchanged' = TRUE
      /\ confirmed' = confirmed \cup {pairing}
  BY DEF AckConfirmed, responder
<1>2. /\ oTask' \in [Tasks -> OriginatorTasks]
      /\ oTask'[h].pc = "idle"
      /\ \A g \in Tasks : g # h => oTask'[g] = oTask[g]
  BY EndTaskO DEF HandshakeInv, AckConfirmed
<1>3. \A g \in Tasks : oTask'[g].pc # "idle" => g # h /\ oTask'[g] = oTask[g]
  BY <1>2
<1>4. oSession # None
  BY <1>1 DEF HandshakeInv, OriginatorInv
<1>5. pairing \in 1 .. MaxPairings
  BY <1>1 DEF HandshakeInv, NumbersInv, Serving, TypeOK
<1>6. TypeOK'
  BY <1>1, <1>2, <1>5 DEF HandshakeInv, TypeOK
<1>7. NumbersInv' /\ QueueInv'
  BY <1>1, <1>3 DEF HandshakeInv, NumbersInv, QueueInv, Serving
<1>8. HandlerInv'
  BY <1>1, <1>2, <1>3 DEF HandshakeInv, HandlerInv, Serving, Verifies
<1>9. OriginatorInv' /\ SecretsWiped' /\ CompletionIsConfirmed'
  BY <1>1, <1>4 DEF HandshakeInv, OriginatorInv, SecretsWiped, CompletionIsConfirmed
<1>10. AckInv' /\ OneAnswerPerPairing' /\ SessionIsCurrent'
  BY <1>1 DEF HandshakeInv, AckInv, OneAnswerPerPairing, SessionIsCurrent
<1>11. ScanInv' /\ VerifiedInv'
  BY <1>1, ResponderRests DEF AckConfirmed
<1>12. QED BY <1>6, <1>7, <1>8, <1>9, <1>10, <1>11 DEF HandshakeInv

LEMMA AckUnconfirmedInv ==
  ASSUME HandshakeInv, NEW h \in Tasks, AckUnconfirmed(h) PROVE HandshakeInv'
<1>1. net' = net /\ net \subseteq Frame
  BY DEF AckUnconfirmed, HandshakeInv, TypeOK
<1>2. CASE Serving(h)
  BY <1>1, <1>2, MoveTaskInv DEF AckUnconfirmed
<1>3. CASE ~Serving(h)
  BY <1>3, EndTaskInv DEF AckUnconfirmed
<1>4. QED BY <1>2, <1>3

LEMMA ClosedInv ==
  ASSUME HandshakeInv, NEW h \in Tasks, Closed(h) PROVE HandshakeInv'
<1>1. CASE Serving(h)
  <2>1. /\ oTask' \in [Tasks -> OriginatorTasks]
        /\ oTask'[h].pc = "idle"
        /\ \A g \in Tasks : g # h => oTask'[g] = oTask[g]
    BY EndTaskO DEF HandshakeInv, Closed
  <2>2. \A g \in Tasks : oTask[g].pc # "idle" => oTask[g].p # 0
    BY DEF HandshakeInv, NumbersInv, TypeOK
  <2>3. \A g \in Tasks : /\ oTask'[g].pc # "idle" =>
                               oTask[g].pc # "idle" /\ oTask'[g].p = oTask[g].p
                         /\ oTask'[g].pc \in {"seal", "reply", "sending"} =>
                               oTask'[g] = oTask[g] /\ oTask[g].p # 0
    BY <2>1, <2>2
  <2>4. /\ ResetOriginator(0, FALSE) /\ UNCHANGED <<responder, rTask, net, scans>>
        /\ pairings' = pairings /\ confirmed' = confirmed
    BY <1>1 DEF Closed, counts
  <2>5. 0 \in 0 .. MaxPairings /\ pairings \in 0 .. MaxPairings /\ 0 <= pairings
    BY DEF HandshakeInv, TypeOK
  <2>6. QED BY <2>1, <2>3, <2>4, <2>5, ResetOriginatorInv
<1>2. CASE ~Serving(h)
  BY <1>2, EndTaskInv DEF Closed
<1>3. QED BY <1>1, <1>2

LEMMA ReloadInv == HandshakeInv /\ Reload => HandshakeInv'
<1> SUFFICES ASSUME HandshakeInv, Reload PROVE HandshakeInv'
  OBVIOUS
<1>1. /\ UNCHANGED <<pairing, secret, awaitingSynAck, awaitingAckDelivery, oSession,
                     keysExchanged, scan, awaitingAck, rSession, rKeysExchanged, rTask, net,
                     pairings, scans, confirmed>>
      /\ keysExchanged /\ lastAck' = None /\ reloaded' = TRUE
      /\ oTask' = [h \in Tasks |-> IdleO]
  BY DEF Reload, responder, counts
<1>2. /\ oTask' \in [Tasks -> OriginatorTasks]
      /\ \A h \in Tasks : oTask'[h].pc = "idle"
  BY <1>1, IdleTasks
<1>3. TypeOK'
  BY <1>1, <1>2 DEF HandshakeInv, TypeOK
<1>4. NumbersInv' /\ QueueInv' /\ HandlerInv'
  BY <1>1, <1>2 DEF HandshakeInv, NumbersInv, QueueInv, HandlerInv, Serving
<1>5. ~secret
  BY <1>1 DEF HandshakeInv, OriginatorInv, CompletionIsConfirmed
<1>6. OriginatorInv' /\ SecretsWiped' /\ CompletionIsConfirmed'
  BY <1>1, <1>5 DEF HandshakeInv, OriginatorInv, SecretsWiped, CompletionIsConfirmed
<1>7. AckInv' /\ OneAnswerPerPairing' /\ SessionIsCurrent'
  BY <1>1 DEF HandshakeInv, AckInv, OneAnswerPerPairing, SessionIsCurrent
<1>8. ScanInv' /\ VerifiedInv'
  BY <1>1, ResponderRests DEF Reload
<1>9. QED BY <1>3, <1>4, <1>6, <1>7, <1>8 DEF HandshakeInv

LEMMA RepeatAckInv ==
  ASSUME HandshakeInv, NEW f, RepeatAck(f) PROVE HandshakeInv'
<1>1. /\ UNCHANGED <<pairing, secret, awaitingSynAck, awaitingAckDelivery, oSession,
                     keysExchanged, lastAck, reloaded, oTask, scan, awaitingAck, rSession,
                     rKeysExchanged, rTask, pairings, scans, confirmed>>
      /\ lastAck # None /\ Transmit(Ack(lastAck))
  BY DEF RepeatAck, originator, responder, counts
<1>2. oSession = lastAck /\ oSession \in Session
  BY <1>1 DEF HandshakeInv, OriginatorInv, TypeOK
<1>3. /\ net' \subseteq Frame /\ net \subseteq net'
      /\ \A t \in Session : Ack(t) \in net' => Ack(t) \in net \/ t = oSession
  BY <1>1, <1>2, Transmitted DEF HandshakeInv
<1>4. TypeOK'
  BY <1>1, <1>3 DEF HandshakeInv, TypeOK
<1>5. NumbersInv' /\ QueueInv' /\ HandlerInv'
  BY <1>1 DEF HandshakeInv, NumbersInv, QueueInv, HandlerInv, Serving, Verifies
<1>6. OriginatorInv' /\ SecretsWiped' /\ CompletionIsConfirmed' /\ SessionIsCurrent'
  BY <1>1 DEF HandshakeInv, OriginatorInv, SecretsWiped, CompletionIsConfirmed, Serving,
              SessionIsCurrent
<1>7. oSession.p = pairing /\ ~secret /\ oSession.p <= pairings
  BY <1>1, <1>2 DEF HandshakeInv, SessionIsCurrent, OriginatorInv, NumbersInv
<1>8. AckInv' /\ OneAnswerPerPairing'
  BY <1>1, <1>2, <1>3, <1>7 DEF HandshakeInv, AckInv, OneAnswerPerPairing
<1>9. ScanInv' /\ VerifiedInv'
  BY <1>1, <1>3, ResponderRests DEF RepeatAck
<1>10. QED BY <1>4, <1>5, <1>6, <1>8, <1>9 DEF HandshakeInv

-----------------------------------------------------------------------------
(* The responder's steps *)

\* Every step of the responder leaves the originator's part as it is.
LEMMA ResponderInv ==
  ASSUME HandshakeInv, UNCHANGED <<originator, oTask, pairings, confirmed>>,
         \A s \in Session : Ack(s) \in net' => Ack(s) \in net,
         TypeOK', NumbersInv', ScanInv', VerifiedInv',
         rSession' # None => rSession'.e = scan'
  PROVE  HandshakeInv'
<1>1. SessionIsCurrent'
  BY OriginatorRests DEF SessionIsCurrent
<1>2. QED BY <1>1, OriginatorRests DEF HandshakeInv

LEMMA ReceiveQRInv ==
  ASSUME HandshakeInv, NEW h \in Tasks, NEW p \in 1 .. pairings, ReceiveQR(h, p)
  PROVE  HandshakeInv'
<1>1. /\ UNCHANGED <<pairing, secret, awaitingSynAck, awaitingAckDelivery, oSession,
                     keysExchanged, lastAck, reloaded, oTask, net, pairings, confirmed>>
      /\ scans < MaxScans /\ scans' = scans + 1 /\ scan' = scans + 1
      /\ awaitingAck' = FALSE /\ rSession' = None /\ rKeysExchanged' = FALSE
  BY DEF ReceiveQR, ResetResponder, originator
<1>2. scans' \in 0 .. MaxScans /\ p \in 1 .. MaxPairings /\ p \in 0 .. MaxPairings
  BY <1>1 DEF HandshakeInv, TypeOK
<1>3. [pc |-> "encaps", e |-> scans + 1, p |-> p, f |-> Damaged] \in ResponderTasks
  BY <1>1, <1>2 DEF ResponderTasks
<1>4. /\ rTask' \in [Tasks -> ResponderTasks]
      /\ rTask'[h].pc = "encaps" /\ rTask'[h].e = scans + 1 /\ rTask'[h].p = p
      /\ \A g \in Tasks : g # h => rTask'[g] = rTask[g]
  BY <1>3, SetTaskR DEF HandshakeInv, ReceiveQR
<1>5. TypeOK'
  BY <1>1, <1>2, <1>4 DEF HandshakeInv, TypeOK
<1>6. NumbersInv'
  BY <1>1, <1>4 DEF HandshakeInv, NumbersInv, TypeOK
<1>7. \A g \in Tasks : rTask'[g].pc # "idle" /\ g # h => rTask'[g].e # scan'
  BY <1>1, <1>4 DEF HandshakeInv, NumbersInv, TypeOK
<1>8. ScanInv'
  BY <1>1, <1>7 DEF ScanInv, CurrentR
<1>9. VerifiedInv'
  BY <1>1, <1>4 DEF HandshakeInv, VerifiedInv, Incoming
<1>10. QED BY <1>1, <1>5, <1>6, <1>8, <1>9, ResponderInv DEF ReceiveQR

LEMMA EncapsulatedInv ==
  ASSUME HandshakeInv, NEW h \in Tasks, Encapsulated(h) PROVE HandshakeInv'
<1> DEFINE s == [p |-> rTask[h].p, e |-> rTask[h].e]
<1>1. /\ UNCHANGED <<pairing, secret, awaitingSynAck, awaitingAckDelivery, oSession,
                     keysExchanged, lastAck, reloaded, oTask, scan, rKeysExchanged,
                     pairings, scans, confirmed>>
      /\ rTask[h].pc = "encaps" /\ rTask[h].e = scan
      /\ rSession' = s /\ awaitingAck' = TRUE
  BY DEF Encapsulated, CurrentR, originator, counts
<1>2. rTask[h].p \in 1 .. MaxPairings /\ rTask[h].e \in 1 .. MaxScans
  BY <1>1 DEF HandshakeInv, NumbersInv, TypeOK
<1>3. s \in Session /\ s.e = scan
  BY <1>1, <1>2 DEF Session
<1>4. s # None
  BY <1>3
<1>5. /\ net' \subseteq Frame /\ net \subseteq net'
      /\ \A t \in Session : Ack(t) \in net' => Ack(t) \in net
  BY <1>3, Transmitted DEF HandshakeInv, Encapsulated
<1> HIDE DEF s
<1>6. /\ rTask' \in [Tasks -> ResponderTasks]
      /\ rTask'[h].pc = "idle"
      /\ \A g \in Tasks : g # h => rTask'[g] = rTask[g]
  BY EndTaskR DEF HandshakeInv, Encapsulated
<1>7. TypeOK'
  BY <1>1, <1>3, <1>5, <1>6 DEF HandshakeInv, TypeOK
<1>8. NumbersInv'
  BY <1>1, <1>6 DEF HandshakeInv, NumbersInv
<1>9. /\ ~rKeysExchanged
      /\ \A g \in Tasks : rTask'[g].pc # "idle" => rTask'[g].e # scan
  BY <1>1, <1>6 DEF HandshakeInv, ScanInv, CurrentR
<1>10. ScanInv'
  BY <1>1, <1>4, <1>9 DEF ScanInv, CurrentR
<1>11. VerifiedInv'
  BY <1>1, <1>5, <1>6, <1>9 DEF HandshakeInv, VerifiedInv, Incoming
<1>12. QED BY <1>1, <1>3, <1>5, <1>7, <1>8, <1>10, <1>11, ResponderInv DEF Encapsulated

\* The wallet drops what it has, or only a handler of an older scan ends.
LEMMA ResetResponderInv ==
  ASSUME HandshakeInv, ResetResponder(0),
         UNCHANGED <<originator, oTask, net, counts>>,
         rTask' \in [Tasks -> ResponderTasks],
         \A g \in Tasks : rTask'[g].pc # "idle" => rTask'[g] = rTask[g]
  PROVE  HandshakeInv'
<1>1. /\ UNCHANGED <<pairing, secret, awaitingSynAck, awaitingAckDelivery, oSession,
                     keysExchanged, lastAck, reloaded, oTask, net, pairings, scans, confirmed>>
      /\ scan' = 0 /\ awaitingAck' = FALSE /\ rSession' = None /\ rKeysExchanged' = FALSE
  BY DEF ResetResponder, originator, counts
<1>2. 0 \in 0 .. MaxScans /\ 0 <= scans
  BY DEF HandshakeInv, TypeOK
<1>3. TypeOK'
  BY <1>1, <1>2 DEF HandshakeInv, TypeOK
<1>4. NumbersInv'
  BY <1>1, <1>2 DEF HandshakeInv, NumbersInv
<1>5. \A g \in Tasks : rTask'[g].pc # "idle" => rTask'[g].e # scan'
  BY <1>1 DEF HandshakeInv, NumbersInv, TypeOK
<1>6. ScanInv'
  BY <1>1, <1>5 DEF ScanInv, CurrentR
<1>7. VerifiedInv'
  BY <1>1 DEF HandshakeInv, VerifiedInv, Incoming
<1>8. QED BY <1>1, <1>3, <1>4, <1>6, <1>7, ResponderInv

LEMMA FailRInv ==
  ASSUME HandshakeInv, NEW h \in Tasks, FailR(h),
         UNCHANGED <<originator, oTask, net, counts>>
  PROVE  HandshakeInv'
<1>1. /\ rTask' \in [Tasks -> ResponderTasks]
      /\ rTask'[h].pc = "idle"
      /\ \A g \in Tasks : g # h => rTask'[g] = rTask[g]
  BY EndTaskR DEF HandshakeInv, FailR
<1>2. \A g \in Tasks : rTask'[g].pc # "idle" => rTask'[g] = rTask[g]
  BY <1>1
<1>3. CASE CurrentR(h)
  BY <1>1, <1>2, <1>3, ResetResponderInv DEF FailR
<1>4. CASE ~CurrentR(h)
  <2>1. UNCHANGED <<pairing, secret, awaitingSynAck, awaitingAckDelivery, oSession,
                    keysExchanged, lastAck, reloaded, oTask, scan, awaitingAck, rSession,
                    rKeysExchanged, net, pairings, scans, confirmed>>
    BY <1>4 DEF FailR, originator, responder, counts
  <2>2. TypeOK' /\ NumbersInv'
    BY <1>1, <1>2, <2>1 DEF HandshakeInv, TypeOK, NumbersInv
  <2>3. ScanInv' /\ VerifiedInv'
    BY <1>2, <2>1 DEF HandshakeInv, ScanInv, VerifiedInv, CurrentR, Incoming
  <2>4. rSession' # None => rSession'.e = scan'
    BY <2>1 DEF HandshakeInv, SessionIsCurrent
  <2>5. QED BY <2>1, <2>2, <2>3, <2>4, ResponderInv
<1>5. QED BY <1>3, <1>4

LEMMA TakeAckInv ==
  ASSUME HandshakeInv, NEW h \in Tasks, NEW f \in Incoming("ACK"), TakeAck(h, f)
  PROVE  HandshakeInv'
<1>1. /\ UNCHANGED <<pairing, secret, awaitingSynAck, awaitingAckDelivery, oSession,
                     keysExchanged, lastAck, reloaded, oTask, scan, rSession, rKeysExchanged,
                     net, pairings, scans, confirmed>>
      /\ awaitingAck /\ awaitingAck' = FALSE
  BY DEF TakeAck, originator, counts
<1>2. [pc |-> "open", e |-> scan, p |-> 0, f |-> f] \in ResponderTasks
  <2>1. 0 \in 0 .. MaxPairings
    OBVIOUS
  <2>2. QED BY <2>1 DEF HandshakeInv, TypeOK, ResponderTasks, Incoming
<1>3. /\ rTask' \in [Tasks -> ResponderTasks]
      /\ rTask'[h].pc = "open" /\ rTask'[h].e = scan /\ rTask'[h].f = f
      /\ \A g \in Tasks : g # h => rTask'[g] = rTask[g]
  BY <1>2, SetTaskR DEF HandshakeInv, TakeAck
<1>4. TypeOK'
  BY <1>1, <1>3 DEF HandshakeInv, TypeOK
<1>5. scan \in 1 .. scans
  BY <1>1 DEF HandshakeInv, ScanInv, SessionIsCurrent, NumbersInv, TypeOK, Session
<1>6. NumbersInv'
  BY <1>1, <1>3, <1>5 DEF HandshakeInv, NumbersInv
<1>7. ScanInv'
  BY <1>1, <1>3 DEF HandshakeInv, ScanInv, CurrentR
<1>8. VerifiedInv'
  BY <1>1, <1>3 DEF HandshakeInv, VerifiedInv, Incoming
<1>9. rSession' # None => rSession'.e = scan'
  BY <1>1 DEF HandshakeInv, SessionIsCurrent
<1>10. QED BY <1>1, <1>4, <1>6, <1>7, <1>8, <1>9, ResponderInv DEF TakeAck

LEMMA AckOpenedInv ==
  ASSUME HandshakeInv, NEW h \in Tasks, AckOpened(h) PROVE HandshakeInv'
<1>1. /\ UNCHANGED <<pairing, secret, awaitingSynAck, awaitingAckDelivery, oSession,
                     keysExchanged, lastAck, reloaded, oTask, scan, awaitingAck, rSession,
                     net, pairings, scans, confirmed>>
      /\ rTask[h].pc = "open" /\ rTask[h].f # Damaged /\ rTask[h].f.s = rSession
      /\ CurrentR(h) /\ rKeysExchanged' = TRUE
  BY DEF AckOpened, AckOpens, originator, counts
<1>2. /\ rTask' \in [Tasks -> ResponderTasks]
      /\ rTask'[h].pc = "idle"
      /\ \A g \in Tasks : g # h => rTask'[g] = rTask[g]
  BY EndTaskR DEF HandshakeInv, AckOpened
<1>3. \A g \in Tasks : rTask'[g].pc # "idle" => g # h /\ rTask'[g] = rTask[g]
  BY <1>2
<1>4. TypeOK' /\ NumbersInv'
  BY <1>1, <1>2, <1>3 DEF HandshakeInv, TypeOK, NumbersInv
<1>5. rTask[h].f \in net /\ rTask[h].f.type = "ACK"
  BY <1>1 DEF HandshakeInv, VerifiedInv, Incoming
<1>6. rSession # None /\ Ack(rSession) \in net
  BY <1>1, <1>5, Frames DEF HandshakeInv, TypeOK
<1>7. \A g \in Tasks : rTask'[g].pc = "encaps" => ~(rTask'[g].e = scan)
  BY <1>1, <1>3 DEF HandshakeInv, ScanInv, CurrentR
<1>8. ScanInv'
  BY <1>1, <1>6, <1>7 DEF ScanInv, CurrentR
<1>9. VerifiedInv'
  BY <1>1, <1>3, <1>6 DEF HandshakeInv, VerifiedInv, Incoming
<1>10. rSession' # None => rSession'.e = scan'
  BY <1>1 DEF HandshakeInv, SessionIsCurrent
<1>11. QED BY <1>1, <1>4, <1>8, <1>9, <1>10, ResponderInv DEF AckOpened

LEMMA RepeatSynAckInv == HandshakeInv /\ RepeatSynAck => HandshakeInv'
<1> SUFFICES ASSUME HandshakeInv, RepeatSynAck PROVE HandshakeInv'
  OBVIOUS
<1>1. /\ UNCHANGED <<pairing, secret, awaitingSynAck, awaitingAckDelivery, oSession,
                     keysExchanged, lastAck, reloaded, oTask, scan, awaitingAck, rSession,
                     rKeysExchanged, rTask, pairings, scans, confirmed>>
      /\ awaitingAck /\ Transmit(SynAck(rSession))
  BY DEF RepeatSynAck, originator, responder, counts
<1>2. rSession \in Session
  BY <1>1 DEF HandshakeInv, ScanInv, TypeOK
<1>3. /\ net' \subseteq Frame /\ net \subseteq net'
      /\ \A t \in Session : Ack(t) \in net' => Ack(t) \in net
  BY <1>1, <1>2, Transmitted DEF HandshakeInv
<1>4. TypeOK' /\ NumbersInv'
  BY <1>1, <1>3 DEF HandshakeInv, TypeOK, NumbersInv
<1>5. ScanInv' /\ VerifiedInv' /\ (rSession # None => rSession.e = scan)'
  BY <1>1, <1>3, ResponderRests DEF RepeatSynAck
<1>6. QED BY <1>1, <1>3, <1>4, <1>5, ResponderInv DEF RepeatSynAck

LEMMA ForgetInv == HandshakeInv /\ Forget => HandshakeInv'
<1> SUFFICES ASSUME HandshakeInv, Forget PROVE HandshakeInv'
  OBVIOUS
<1>1. rTask' = rTask /\ rTask' \in [Tasks -> ResponderTasks]
  BY DEF Forget, HandshakeInv, TypeOK
<1>2. QED BY <1>1, ResetResponderInv DEF Forget

-----------------------------------------------------------------------------
(* The invariant *)

LEMMA InitInv == Init => HandshakeInv
<1> SUFFICES ASSUME Init PROVE HandshakeInv
  OBVIOUS
<1>1. 0 \in 0 .. MaxPairings /\ 0 \in 0 .. MaxScans
  OBVIOUS
<1>2. TypeOK
  BY <1>1, IdleTasks DEF Init, TypeOK
<1>3. NumbersInv /\ QueueInv /\ HandlerInv /\ ScanInv /\ VerifiedInv
  BY IdleTasks DEF Init, NumbersInv, QueueInv, HandlerInv, ScanInv, VerifiedInv, Serving
<1>4. OriginatorInv /\ AckInv /\ SecretsWiped /\ SessionIsCurrent
      /\ CompletionIsConfirmed /\ OneAnswerPerPairing
  BY DEF Init, OriginatorInv, AckInv, SecretsWiped, SessionIsCurrent, CompletionIsConfirmed,
         OneAnswerPerPairing
<1>5. QED BY <1>2, <1>3, <1>4 DEF HandshakeInv

LEMMA OriginatorContinuesInv ==
  ASSUME HandshakeInv, NEW h \in Tasks, OriginatorContinues(h) PROVE HandshakeInv'
<1>1. CASE HelloOpened(h)
  BY <1>1, HelloOpenedInv
<1>2. CASE HelloRejected(h)
  BY <1>2, FailInv DEF HelloRejected
<1>3. CASE HelloSealed(h)
  BY <1>3, HelloSealedInv
<1>4. CASE SealFails(h)
  BY <1>4, FailInv DEF SealFails
<1>5. CASE SendAck(h)
  BY <1>5, SendAckInv
<1>6. CASE AckConfirmed(h)
  BY <1>6, AckConfirmedInv
<1>7. CASE AckUnconfirmed(h)
  BY <1>7, AckUnconfirmedInv
<1>8. CASE Closed(h)
  BY <1>8, ClosedInv
<1>9. QED BY <1>1, <1>2, <1>3, <1>4, <1>5, <1>6, <1>7, <1>8 DEF OriginatorContinues

LEMMA ResponderContinuesInv ==
  ASSUME HandshakeInv, NEW h \in Tasks, ResponderContinues(h) PROVE HandshakeInv'
<1>1. CASE Encapsulated(h)
  BY <1>1, EncapsulatedInv
<1>2. CASE EncapsFails(h)
  BY <1>2, FailRInv DEF EncapsFails
<1>3. CASE AckOpened(h)
  BY <1>3, AckOpenedInv
<1>4. CASE AckRejected(h)
  BY <1>4, FailRInv DEF AckRejected
<1>5. QED BY <1>1, <1>2, <1>3, <1>4 DEF ResponderContinues

LEMMA StutterInv == HandshakeInv /\ UNCHANGED vars => HandshakeInv'
<1> SUFFICES ASSUME HandshakeInv, UNCHANGED vars PROVE HandshakeInv'
  OBVIOUS
<1>1. /\ UNCHANGED <<originator, oTask, pairings, confirmed>> /\ net' = net
      /\ UNCHANGED <<responder, rTask, counts>>
  BY DEF vars, counts
<1>2. UNCHANGED <<pairing, secret, awaitingSynAck, awaitingAckDelivery, oSession,
                  keysExchanged, lastAck, reloaded, oTask, scan, awaitingAck, rSession,
                  rKeysExchanged, rTask, net, pairings, scans, confirmed>>
  BY <1>1 DEF originator, responder, counts
<1>3. TypeOK' /\ NumbersInv'
  BY <1>2 DEF HandshakeInv, TypeOK, NumbersInv
<1>4. ScanInv' /\ VerifiedInv' /\ (rSession # None => rSession.e = scan)'
  BY <1>1, ResponderRests
<1>5. QED BY <1>1, <1>3, <1>4, ResponderInv

LEMMA NextInv == HandshakeInv /\ [Next]_vars => HandshakeInv'
<1> SUFFICES ASSUME HandshakeInv, [Next]_vars PROVE HandshakeInv'
  OBVIOUS
<1>1. CASE Initiate
  BY <1>1, InitiateInv
<1>2. CASE Abandon
  BY <1>2, AbandonInv
<1>3. CASE Reload
  BY <1>3, ReloadInv
<1>4. CASE \E f \in Incoming("SYNACK") : RepeatAck(f)
  BY <1>4, RepeatAckInv
<1>5. CASE RepeatSynAck
  BY <1>5, RepeatSynAckInv
<1>6. CASE Forget
  BY <1>6, ForgetInv
<1>7. ASSUME NEW h \in Tasks, \E f \in Incoming("SYNACK") : TakeSynAck(h, f)
      PROVE  HandshakeInv'
  BY <1>7, TakeSynAckInv
<1>8. ASSUME NEW h \in Tasks, OriginatorContinues(h) PROVE HandshakeInv'
  BY <1>8, OriginatorContinuesInv
<1>9. ASSUME NEW h \in Tasks, \E p \in 1 .. pairings : ReceiveQR(h, p)
      PROVE  HandshakeInv'
  BY <1>9, ReceiveQRInv
<1>10. ASSUME NEW h \in Tasks, \E f \in Incoming("ACK") : TakeAck(h, f)
       PROVE  HandshakeInv'
  BY <1>10, TakeAckInv
<1>11. ASSUME NEW h \in Tasks, ResponderContinues(h) PROVE HandshakeInv'
  BY <1>11, ResponderContinuesInv
<1>12. CASE UNCHANGED vars
  BY <1>12, StutterInv
<1>13. QED
  BY <1>1, <1>2, <1>3, <1>4, <1>5, <1>6, <1>7, <1>8, <1>9, <1>10, <1>11, <1>12 DEF Next

\* Every state of the handshake is typed and satisfies the parts of the
\* invariant.
THEOREM HandshakeInvariant == Spec => []HandshakeInv
  BY InitInv, NextInv, PTL DEF Spec

\* The ML-KEM secret key and the capability are in memory only while the
\* handshake that needs them is under way: resetInternal() and onSynAck()
\* leave no path on which they outlive it.
THEOREM SecretsAreWiped == Spec => []SecretsWiped
<1>1. HandshakeInv => SecretsWiped
  BY DEF HandshakeInv
<1>2. QED BY <1>1, HandshakeInvariant, PTL

\* A continuation of onSynAck() or receiveQR() never installs its session
\* into a newer handshake.
THEOREM SessionsAreCurrent == Spec => []SessionIsCurrent
<1>1. HandshakeInv => SessionIsCurrent
  BY DEF HandshakeInv
<1>2. QED BY <1>1, HandshakeInvariant, PTL

\* keysExchanged is set for a session in place whose ACK the relay has
\* acknowledged, never for a provisional one.
THEOREM CompletionsAreConfirmed == Spec => []CompletionIsConfirmed
<1>1. HandshakeInv => CompletionIsConfirmed
  BY DEF HandshakeInv
<1>2. QED BY <1>1, HandshakeInvariant, PTL

\* Over all the frames the relay ever had, one pairing has the ACK of one
\* session.
THEOREM PairingsAreAnsweredOnce == Spec => []OneAnswerPerPairing
<1>1. HandshakeInv => OneAnswerPerPairing
  BY DEF HandshakeInv
<1>2. QED BY <1>1, HandshakeInvariant, PTL

\* Whatever is lost, repeated, reordered or scanned twice, a wallet that has
\* verified an ACK and a dApp in the same pairing hold the same key.
THEOREM SidesAgree == Spec => []Agreement
<1>1. HandshakeInv => Agreement
  <2> SUFFICES ASSUME HandshakeInv, rKeysExchanged, oSession # None,
                      oSession.p = rSession.p
               PROVE  oSession = rSession
    BY DEF Agreement
  <2>1. rSession \in Session /\ Ack(rSession) \in net
    BY DEF HandshakeInv, VerifiedInv, TypeOK
  <2>2. rSession.p = pairing
    BY DEF HandshakeInv, SessionIsCurrent
  <2>3. QED BY <2>1, <2>2 DEF HandshakeInv, AckInv
<1>2. QED BY <1>1, HandshakeInvariant, PTL

=============================================================================
