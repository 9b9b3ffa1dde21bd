---------------------------- MODULE SessionStream ----------------------------
(***************************************************************************)
(* The encrypted session of src/ConnectionManager.ts and the counters of   *)
(* src/KeyExchange.ts: how AEAD sequence numbers are reserved, checkpointed*)
(* in localStorage, put on the wire and acted upon, by pages that open,    *)
(* crash, pair, restore and retire sessions under one origin-wide lock.    *)
(*                                                                         *)
(* The lock is the exclusive holder that SessionOwnership implements.  The *)
(* relay may lose, repeat, reorder and make up frames.  An action is the   *)
(* code between two awaits; lifecycle calls that a newer generation        *)
(* overtakes have no further effect and are dropped when that happens.     *)
(***************************************************************************)
EXTENDS Naturals, Sequences

CONSTANTS
  Tabs,    \* pages of one origin
  Keys,    \* one AEAD key per pairing; bounds the number of pairings
  Jobs,    \* concurrent sends, receives and saves of one page
  None,    \* null
  MaxSeq   \* Number.MAX_SAFE_INTEGER

ASSUME StreamAssumption ==
  /\ None \notin Tabs \cup Keys
  /\ None \notin [key : Keys, send : 0 .. MaxSeq, recv : 0 .. MaxSeq]
  /\ MaxSeq \in Nat \ {0, 1}

VARIABLES
  lock,     \* the page that owns the session (SessionOwnership)
  stored,   \* the localStorage record: key and counters, or None
  open,     \* the page exists
  pend,     \* pendingRestore: the record the page last read
  restore,  \* where reconnectNow() stands
  pair,     \* where getConnectionURI() and its handshake stand
  key,      \* the key of the live KeyExchange
  send,     \* session.sendSeq
  recv,     \* session.recvSeq
  fails,    \* consecutiveDecryptFailures
  broken,   \* persistenceBroken
  job,      \* the asynchronous work of the page
  wire,     \* history: sequence numbers emitted under each key
  acted,    \* history: sequence numbers acted upon under each key
  life,     \* history: "new", "first" page, or "restored" by a later page
  dropped   \* history: keys the page has retired since it opened

session == <<key, send, recv, fails>>
lifecycle == <<open, pend, restore, pair>>
history == <<wire, acted, life, dropped>>
vars == <<lock, stored, lifecycle, session, broken, job, history>>

Counters == 0 .. MaxSeq

Record == [key : Keys, send : Counters, recv : Counters]

JobStates ==
  {"idle",
   "seal",     \* awaiting seal() in encryptMessage
   "unseal",   \* awaiting open() in decryptMessage
   "queued",   \* on the persistence queue
   "export",   \* awaiting the key export
   "write",    \* counters read, about to write the record
   "saved",    \* checkpointed, about to emit or to act
   "ack",      \* emitted, awaiting the relay's acknowledgement
   "closing"}  \* awaiting closeChannel() of a teardown

Job ==
  [kind : {"none", "send", "recv", "save"}, pc : JobStates,
   key : Keys \cup {None},  \* the SessionWorkContext
   seq : Counters, snap : Record \cup {None}]

Idle == [kind |-> "none", pc |-> "idle", key |-> None, seq |-> 0,
         snap |-> None]

TypeOK ==
  /\ lock \in Tabs \cup {None}
  /\ stored \in Record \cup {None}
  /\ open \in [Tabs -> BOOLEAN]
  /\ pend \in [Tabs -> Record \cup {None}]
  /\ restore \in [Tabs -> {"idle", "granted", "importing"}]
  /\ pair \in [Tabs -> {"idle", "granted", "resetting", "handshake"}]
  /\ key \in [Tabs -> Keys \cup {None}]
  /\ send \in [Tabs -> Counters]
  /\ recv \in [Tabs -> Counters]
  /\ fails \in [Tabs -> {0, 1}]
  /\ broken \in [Tabs -> BOOLEAN]
  /\ job \in [Tabs -> [Jobs -> Job]]
  /\ wire \in [Keys -> Seq(Counters)]
  /\ acted \in [Keys -> Seq(Counters)]
  /\ life \in [Keys -> {"new", "first", "restored"}]
  /\ dropped \in [Tabs -> SUBSET Keys]

Init ==
  /\ lock = None
  /\ stored = None
  /\ open = [t \in Tabs |-> FALSE]
  /\ pend = [t \in Tabs |-> None]
  /\ restore = [t \in Tabs |-> "idle"]
  /\ pair = [t \in Tabs |-> "idle"]
  /\ key = [t \in Tabs |-> None]
  /\ send = [t \in Tabs |-> 0]
  /\ recv = [t \in Tabs |-> 0]
  /\ fails = [t \in Tabs |-> 0]
  /\ broken = [t \in Tabs |-> FALSE]
  /\ job = [t \in Tabs |-> [j \in Jobs |-> Idle]]
  /\ wire = [k \in Keys |-> <<>>]
  /\ acted = [k \in Keys |-> <<>>]
  /\ life = [k \in Keys |-> "new"]
  /\ dropped = [t \in Tabs |-> {}]

-----------------------------------------------------------------------------
(* Storage and ownership *)

\* readStoredSession(): a record with a spent counter, an expired one or one
\* that cannot be read yields null; dropping it may fail.
Restorable(r) == r # None /\ r.send < MaxSeq /\ r.recv < MaxSeq

ReadStored(r) ==
  \/ Restorable(stored) /\ r = stored /\ UNCHANGED stored
  \/ r = None /\ stored' \in {None, stored}

\* removeStoredSession() and what it returns.
RemoveStored(removed) == stored' = IF removed THEN None ELSE stored

\* Mutant: the lock does not exclude other pages.
AcquireShared(t) == lock' = t

Acquire(t) == lock \in {None, t} /\ lock' = t

Release(t) == lock' = IF lock = t THEN None ELSE lock

\* Mutant: the lock is released even if the record is still there.
ReleaseAnyway(t, removed) == lock' = IF lock = t THEN None ELSE lock

\* A record that could not be invalidated keeps the lock for the page's life.
ReleaseIf(t, removed) == lock' = IF removed /\ lock = t THEN None ELSE lock

-----------------------------------------------------------------------------
(* Pages *)

SetSession(t, k, s, r) ==
  /\ key' = [key EXCEPT ![t] = k]
  /\ send' = [send EXCEPT ![t] = s]
  /\ recv' = [recv EXCEPT ![t] = r]
  /\ fails' = [fails EXCEPT ![t] = 0]

\* The constructor reads storage before it has any claim to the lock.
Open(t) ==
  /\ ~open[t]
  /\ open' = [open EXCEPT ![t] = TRUE]
  /\ \E r \in {stored, None} : ReadStored(r) /\ pend' = [pend EXCEPT ![t] = r]
  /\ UNCHANGED <<lock, restore, pair, session, broken, job, history>>

\* Close, reload or crash: the browser frees the lock, nothing else is saved.
Crash(t) ==
  /\ open[t]
  /\ open' = [open EXCEPT ![t] = FALSE]
  /\ Release(t)
  /\ pend' = [pend EXCEPT ![t] = None]
  /\ restore' = [restore EXCEPT ![t] = "idle"]
  /\ pair' = [pair EXCEPT ![t] = "idle"]
  /\ SetSession(t, None, 0, 0)
  /\ broken' = [broken EXCEPT ![t] = FALSE]
  /\ job' = [job EXCEPT ![t] = [j \in Jobs |-> Idle]]
  /\ dropped' = [dropped EXCEPT ![t] = {}]
  /\ UNCHANGED <<stored, wire, acted, life>>

\* invalidateSessionWork() with the session cleared.  getConnectionURI() does
\* not look at the generation again after its reset, so a reset goes on.
Invalidate(t) ==
  /\ SetSession(t, None, 0, 0)
  /\ pend' = [pend EXCEPT ![t] = None]
  /\ restore' = [restore EXCEPT ![t] = "idle"]
  /\ dropped' = [dropped EXCEPT ![t] = @ \cup ({key[t]} \ {None})]

CancelPairing(t) ==
  pair' = [pair EXCEPT ![t] = IF @ = "resetting" THEN @ ELSE "idle"]

\* handleSessionTerminated(), and the end of disconnect().
Retire(t) ==
  \E removed \in BOOLEAN :
    /\ Invalidate(t)
    /\ CancelPairing(t)
    /\ RemoveStored(removed)
    /\ ReleaseIf(t, removed)

\* The wallet closed the channel, a join found it closed, or disconnect() had
\* the relay close it; disconnect() runs in pages without a session too.
Disconnect(t) ==
  /\ open[t]
  /\ Retire(t)
  /\ UNCHANGED <<open, broken, job, wire, acted, life>>

\* resetForNewChannel() called on its own keeps the lock.
Reset(t) ==
  /\ open[t]
  /\ Invalidate(t)
  /\ CancelPairing(t)
  /\ \E removed \in BOOLEAN : RemoveStored(removed)
  /\ broken' = [broken EXCEPT ![t] = FALSE]
  /\ UNCHANGED <<lock, open, job, wire, acted, life>>

-----------------------------------------------------------------------------
(* reconnectNow() *)

RestoreAsk(t) ==
  /\ open[t]
  /\ restore[t] = "idle"
  /\ key[t] = None
  /\ pend[t] # None
  /\ Acquire(t)
  /\ restore' = [restore EXCEPT ![t] = "granted"]
  /\ UNCHANGED <<stored, open, pend, pair, session, broken, job, history>>

\* Mutant: hydrate what the constructor read.
RestoreUnrefreshed(t) ==
  /\ restore[t] = "granted"
  /\ restore' = [restore EXCEPT ![t] = "importing"]
  /\ CancelPairing(t)
  /\ SetSession(t, None, 0, 0)
  /\ UNCHANGED <<lock, stored, open, pend, broken, job, history>>

\* The lock is ours: what the constructor read may be stale, so read again.
RestoreRefresh(t) ==
  /\ restore[t] = "granted"
  /\ \E r \in {stored, None} :
       /\ r # None
       /\ ReadStored(r)
       /\ pend' = [pend EXCEPT ![t] = r]
  /\ restore' = [restore EXCEPT ![t] = "importing"]
  /\ CancelPairing(t)
  /\ SetSession(t, None, 0, 0)
  /\ UNCHANGED <<lock, open, broken, job, history>>

\* Nothing left to restore, or the record's key cannot be imported.  The
\* generation does not advance, so a getConnectionURI() of this page that
\* shares the lock goes on without it.
RestoreFails(t) ==
  /\ restore[t] # "idle"
  /\ restore' = [restore EXCEPT ![t] = "idle"]
  /\ pend' = [pend EXCEPT ![t] = None]
  /\ \E removed \in BOOLEAN : RemoveStored(removed) /\ ReleaseIf(t, removed)
  /\ UNCHANGED <<open, pair, session, broken, job, history>>

RestoreDone(t) ==
  /\ restore[t] = "importing"
  /\ restore' = [restore EXCEPT ![t] = "idle"]
  /\ pend' = [pend EXCEPT ![t] = None]
  /\ SetSession(t, pend[t].key, pend[t].send, pend[t].recv)
  /\ life' = [life EXCEPT ![pend[t].key] = "restored"]
  /\ UNCHANGED <<lock, stored, open, pair, broken, job, wire, acted, dropped>>

-----------------------------------------------------------------------------
(* getConnectionURI() and the handshake it waits for *)

PairAsk(t) ==
  /\ open[t]
  /\ pair[t] = "idle"
  /\ Acquire(t)
  /\ pair' = [pair EXCEPT ![t] = "granted"]
  /\ UNCHANGED <<stored, open, pend, restore, session, broken, job, history>>

\* An older channel must first be closed on the relay.
PairReset(t) ==
  /\ pair[t] = "granted"
  /\ pair' = [pair EXCEPT ![t] = "resetting"]
  /\ UNCHANGED <<lock, stored, open, pend, restore, session, broken, job,
                 history>>

PairResetFails(t) ==
  /\ pair[t] = "resetting"
  /\ pair' = [pair EXCEPT ![t] = "idle"]
  /\ UNCHANGED <<lock, stored, open, pend, restore, session, broken, job,
                 history>>

MayBegin(t) ==
  \/ pair[t] = "resetting"
  \/ pair[t] = "granted" /\ key[t] = None /\ pend[t] = None

PairBegin(t) ==
  /\ MayBegin(t)
  /\ Invalidate(t)
  /\ RemoveStored(TRUE)
  /\ pair' = [pair EXCEPT ![t] = "handshake"]
  /\ broken' = [broken EXCEPT ![t] = FALSE]
  /\ UNCHANGED <<lock, open, job, wire, acted, life>>

\* The old record could not be removed: give up, but keep the lock.
PairBeginFails(t) ==
  /\ MayBegin(t)
  /\ Invalidate(t)
  /\ stored' \in IF pair[t] = "resetting" THEN {None, stored} ELSE {stored}
  /\ pair' = [pair EXCEPT ![t] = "idle"]
  /\ broken' = [broken EXCEPT ![t] = @ /\ pair[t] # "resetting"]
  /\ UNCHANGED <<lock, open, job, wire, acted, life>>

\* The join failed, the URI could not be built.
PairFails(t) ==
  /\ pair[t] = "handshake"
  /\ pair' = [pair EXCEPT ![t] = "idle"]
  /\ Release(t)
  /\ UNCHANGED <<stored, open, pend, restore, session, broken, job, history>>

\* The handshake is complete: sequence 0 went to the hello messages.
PairDone(t, k) ==
  /\ pair[t] = "handshake"
  /\ life[k] = "new"
  /\ pair' = [pair EXCEPT ![t] = "idle"]
  /\ SetSession(t, k, 1, 1)
  /\ life' = [life EXCEPT ![k] = "first"]
  /\ UNCHANGED <<lock, stored, open, pend, restore, broken, job, wire, acted,
                 dropped>>

-----------------------------------------------------------------------------
(* Asynchronous work of a live session *)

\* isSessionWorkCurrent()
Current(t, j) == key[t] # None /\ job[t][j].key = key[t]

SetJob(t, j, r) == job' = [job EXCEPT ![t][j] = r]

MoveJob(t, j, p) == SetJob(t, j, [job[t][j] EXCEPT !.pc = p])

EndJob(t, j) == SetJob(t, j, Idle)

NewJob(t, kind, p, n) ==
  [kind |-> kind, pc |-> p, key |-> key[t], seq |-> n, snap |-> None]

\* Mutant: a failed task ends without a teardown.
GiveUpQuietly(t, j) == EndJob(t, j)

\* teardownPersistenceFailedSession() up to its await of closeChannel(); the
\* work of a retired generation merely ends.
GiveUp(t, j) ==
  SetJob(t, j, IF Current(t, j) THEN NewJob(t, job[t][j].kind, "closing", 0)
                                ELSE Idle)

\* outboundQueue and messageQueue run one task of a generation at a time.
QueueFree(t, kind) ==
  \A j \in Jobs : Current(t, j) => job[t][j].kind # kind

\* Mutant: saves interleave.
PersistenceUnqueued(t) == TRUE

\* Mutant: a save waits for all queued saves, itself included.
PersistenceWaitsForAll(t) ==
  \A j \in Jobs :
    Current(t, j) => job[t][j].pc \notin {"queued", "export", "write"}

\* So does persistenceQueue.
PersistenceFree(t) ==
  \A j \in Jobs : Current(t, j) => job[t][j].pc \notin {"export", "write"}

CanStart(t, j, kind) ==
  /\ key[t] # None
  /\ job[t][j] = Idle
  /\ QueueFree(t, kind)

\* Mutant: no check for the end of the counter, where sendSeq++ changes nothing.
ReserveUnchecked(t, j) ==
  /\ CanStart(t, j, "send")
  /\ SetJob(t, j, NewJob(t, "send", "seal", send[t]))
  /\ send' = [send EXCEPT ![t] = IF @ < MaxSeq THEN @ + 1 ELSE @]
  /\ UNCHANGED <<lock, stored, lifecycle, key, recv, fails, broken, history>>

\* encryptMessage() reserves its number before it awaits seal().
Reserve(t, j) ==
  /\ CanStart(t, j, "send")
  /\ send[t] < MaxSeq
  /\ SetJob(t, j, NewJob(t, "send", "seal", send[t]))
  /\ send' = [send EXCEPT ![t] = @ + 1]
  /\ UNCHANGED <<lock, stored, lifecycle, key, recv, fails, broken, history>>

Exhausted(t, j) ==
  /\ CanStart(t, j, "send")
  /\ send[t] = MaxSeq
  /\ SetJob(t, j, NewJob(t, "send", "closing", 0))
  /\ UNCHANGED <<lock, stored, lifecycle, session, broken, history>>

Sealed(t, j) ==
  /\ job[t][j].pc = "seal"
  /\ IF Current(t, j) THEN MoveJob(t, j, "queued") ELSE EndJob(t, j)
  /\ UNCHANGED <<lock, stored, lifecycle, session, broken, history>>

\* Mutant: the session survives a failed seal.
SealFailsQuietly(t, j) ==
  /\ job[t][j].pc = "seal"
  /\ EndJob(t, j)
  /\ UNCHANGED <<lock, stored, lifecycle, session, broken, history>>

\* The number is spent: the generation cannot send again.
SealFails(t, j) ==
  /\ job[t][j].pc = "seal"
  /\ GiveUp(t, j)
  /\ UNCHANGED <<lock, stored, lifecycle, session, broken, history>>

\* The tag only verifies under the next expected number.
Opens(t, n) == n = recv[t] /\ recv[t] < MaxSeq

\* The relay delivers a frame: any number of the peer's, or 0 for junk.
\* decryptMessage() picks the expected number before it awaits open(); a frame
\* that will not open is 0 from here on.
Deliver(t, j, n) ==
  /\ CanStart(t, j, "recv")
  /\ SetJob(t, j, NewJob(t, "recv", "unseal", IF Opens(t, n) THEN n ELSE 0))
  /\ UNCHANGED <<lock, stored, lifecycle, session, broken, history>>

\* Mutant: act before the checkpoint.
UnsealedUnsaved(t, j) ==
  /\ job[t][j].pc = "unseal"
  /\ Current(t, j)
  /\ job[t][j].seq # 0
  /\ recv' = [recv EXCEPT ![t] = @ + 1]
  /\ fails' = [fails EXCEPT ![t] = 0]
  /\ MoveJob(t, j, "saved")
  /\ UNCHANGED <<lock, stored, lifecycle, key, send, broken, history>>

Unsealed(t, j) ==
  /\ job[t][j].pc = "unseal"
  /\ Current(t, j)
  /\ job[t][j].seq # 0
  /\ recv' = [recv EXCEPT ![t] = @ + 1]
  /\ fails' = [fails EXCEPT ![t] = 0]
  /\ MoveJob(t, j, "queued")
  /\ UNCHANGED <<lock, stored, lifecycle, key, send, broken, history>>

\* The second failure in a row is a stream out of step: teardown.
UnsealFails(t, j) ==
  /\ job[t][j].pc = "unseal"
  /\ Current(t, j)
  /\ job[t][j].seq = 0
  /\ \/ /\ fails[t] = 0
        /\ fails' = [fails EXCEPT ![t] = 1]
        /\ EndJob(t, j)
     \/ /\ fails[t] = 1
        /\ GiveUp(t, j)
        /\ UNCHANGED fails
  /\ UNCHANGED <<lock, stored, lifecycle, key, send, recv, broken, history>>

UnsealStale(t, j) ==
  /\ job[t][j].pc = "unseal"
  /\ ~Current(t, j)
  /\ EndJob(t, j)
  /\ UNCHANGED <<lock, stored, lifecycle, session, broken, history>>

\* authorizeAccounts() checkpoints too.
Authorize(t, j) ==
  /\ key[t] # None
  /\ job[t][j] = Idle
  /\ SetJob(t, j, NewJob(t, "save", "queued", 0))
  /\ UNCHANGED <<lock, stored, lifecycle, session, broken, history>>

-----------------------------------------------------------------------------
(* persistSessionNow() *)

SaveBegin(t, j) ==
  /\ job[t][j].pc = "queued"
  /\ Current(t, j)
  /\ PersistenceFree(t)
  /\ IF lock = t /\ ~broken[t] THEN MoveJob(t, j, "export") ELSE GiveUp(t, j)
  /\ UNCHANGED <<lock, stored, lifecycle, session, broken, history>>

\* Retired while it waited on the queue or for the key export.
SaveStale(t, j) ==
  /\ job[t][j].pc \in {"queued", "export"}
  /\ ~Current(t, j)
  /\ EndJob(t, j)
  /\ UNCHANGED <<lock, stored, lifecycle, session, broken, history>>

\* exportPersisted() reads the counters once the key is exported.
SaveExport(t, j) ==
  /\ job[t][j].pc = "export"
  /\ Current(t, j)
  /\ SetJob(t, j, [job[t][j] EXCEPT
       !.pc = "write",
       !.snap = [key |-> key[t], send |-> send[t], recv |-> recv[t]]])
  /\ UNCHANGED <<lock, stored, lifecycle, session, broken, history>>

SaveExportFails(t, j) ==
  /\ job[t][j].pc = "export"
  /\ Current(t, j)
  /\ GiveUp(t, j)
  /\ UNCHANGED <<lock, stored, lifecycle, session, broken, history>>

MayWrite(t, j) == Current(t, j) /\ lock = t

SaveWrite(t, j) ==
  /\ job[t][j].pc = "write"
  /\ MayWrite(t, j)
  /\ stored' = job[t][j].snap
  /\ SetJob(t, j, [job[t][j] EXCEPT !.pc = "saved", !.snap = None])
  /\ UNCHANGED <<lock, lifecycle, session, broken, history>>

SaveRefused(t, j) ==
  /\ job[t][j].pc = "write"
  /\ ~MayWrite(t, j)
  /\ GiveUp(t, j)
  /\ UNCHANGED <<lock, stored, lifecycle, session, broken, history>>

\* setItem() throws.
SaveWriteFails(t, j) ==
  /\ job[t][j].pc = "write"
  /\ MayWrite(t, j)
  /\ broken' = [broken EXCEPT ![t] = TRUE]
  /\ \E removed \in BOOLEAN : RemoveStored(removed)
  /\ GiveUp(t, j)
  /\ UNCHANGED <<lock, lifecycle, session, history>>

-----------------------------------------------------------------------------
(* What follows a checkpoint *)

Saved(t, j, kind) == job[t][j].pc = "saved" /\ job[t][j].kind = kind

SavedStale(t, j) ==
  /\ job[t][j].pc = "saved"
  /\ ~Current(t, j)
  /\ EndJob(t, j)
  /\ UNCHANGED <<lock, stored, lifecycle, session, broken, history>>

SaveReturns(t, j) ==
  /\ Saved(t, j, "save")
  /\ Current(t, j)
  /\ EndJob(t, j)
  /\ UNCHANGED <<lock, stored, lifecycle, session, broken, history>>

Emit(t, j) ==
  /\ Saved(t, j, "send")
  /\ Current(t, j)
  /\ wire' = [wire EXCEPT ![key[t]] = Append(@, job[t][j].seq)]
  /\ MoveJob(t, j, "ack")
  /\ UNCHANGED <<lock, stored, lifecycle, session, broken, acted, life,
                 dropped>>

\* The socket is not connected: sendMessage() rejects at once.
EmitFails(t, j) ==
  /\ Saved(t, j, "send")
  /\ Current(t, j)
  /\ GiveUp(t, j)
  /\ UNCHANGED <<lock, stored, lifecycle, session, broken, history>>

Acked(t, j) ==
  /\ job[t][j].pc = "ack"
  /\ EndJob(t, j)
  /\ UNCHANGED <<lock, stored, lifecycle, session, broken, history>>

\* Whether the relay has the frame is unknown, and it cannot be sent again.
AckLost(t, j) ==
  /\ job[t][j].pc = "ack"
  /\ GiveUp(t, j)
  /\ UNCHANGED <<lock, stored, lifecycle, session, broken, history>>

\* handleDecryptedMessage(): a response or an unknown message, a WALLET_INFO
\* that saves without waiting, a TERMINATE that closes the channel.
ActUpon(t, j) ==
  acted' = [acted EXCEPT ![key[t]] = Append(@, job[t][j].seq)]

Act(t, j) ==
  /\ Saved(t, j, "recv")
  /\ Current(t, j)
  /\ ActUpon(t, j)
  /\ \/ EndJob(t, j)
     \/ SetJob(t, j, NewJob(t, "save", "queued", 0))
     \/ SetJob(t, j, NewJob(t, "recv", "closing", 0))
  /\ UNCHANGED <<lock, stored, lifecycle, session, broken, wire, life,
                 dropped>>

\* closeChannel() has returned, confirmed or not.
Close(t, j) ==
  /\ job[t][j].pc = "closing"
  /\ Current(t, j)
  /\ EndJob(t, j)
  /\ Retire(t)
  /\ UNCHANGED <<open, broken, wire, acted, life>>

CloseStale(t, j) ==
  /\ job[t][j].pc = "closing"
  /\ ~Current(t, j)
  /\ EndJob(t, j)
  /\ UNCHANGED <<lock, stored, lifecycle, session, broken, history>>

-----------------------------------------------------------------------------
Lifecycle(t) ==
  \/ Open(t)
  \/ Crash(t)
  \/ Disconnect(t)
  \/ Reset(t)
  \/ RestoreAsk(t)
  \/ PairAsk(t)

Restoring(t) ==
  \/ RestoreRefresh(t)
  \/ RestoreFails(t)
  \/ RestoreDone(t)

Pairing(t) ==
  \/ PairReset(t)
  \/ PairResetFails(t)
  \/ PairBegin(t)
  \/ PairBeginFails(t)
  \/ PairFails(t)
  \/ \E k \in Keys : PairDone(t, k)

StartJob(t, j) ==
  \/ Reserve(t, j)
  \/ Exhausted(t, j)
  \/ \E n \in Counters : Deliver(t, j, n)
  \/ Authorize(t, j)

Crypto(t, j) ==
  \/ Sealed(t, j)
  \/ SealFails(t, j)
  \/ Unsealed(t, j)
  \/ UnsealFails(t, j)
  \/ UnsealStale(t, j)

Save(t, j) ==
  \/ SaveBegin(t, j)
  \/ SaveStale(t, j)
  \/ SaveExport(t, j)
  \/ SaveExportFails(t, j)
  \/ SaveWrite(t, j)
  \/ SaveRefused(t, j)
  \/ SaveWriteFails(t, j)

AfterSave(t, j) ==
  \/ SavedStale(t, j)
  \/ SaveReturns(t, j)
  \/ Emit(t, j)
  \/ EmitFails(t, j)
  \/ Acked(t, j)
  \/ AckLost(t, j)
  \/ Act(t, j)
  \/ Close(t, j)
  \/ CloseStale(t, j)

Continue(t, j) == Crypto(t, j) \/ Save(t, j) \/ AfterSave(t, j)

Next ==
  \E t \in Tabs :
    \/ Lifecycle(t)
    \/ Restoring(t)
    \/ Pairing(t)
    \/ \E j \in Jobs : StartJob(t, j) \/ Continue(t, j)

Spec == Init /\ [][Next]_vars

\* Promises settle: WebCrypto answers, sendMessage() and closeChannel() time
\* out.  persistenceQueue is first in first out, so a save that is repeatedly
\* offered the queue is not passed over forever: strong fairness.
Fairness ==
  \A t \in Tabs, j \in Jobs :
    /\ WF_vars(Continue(t, j))
    /\ SF_vars(SaveBegin(t, j))

FairSpec == Spec /\ Fairness

-----------------------------------------------------------------------------
(* Properties *)

Increasing(s) == \A i, j \in DOMAIN s : i < j => s[i] < s[j]

\* No AES-GCM nonce is used for two ciphertexts that left the browser, by any
\* page, across crashes and restores (class comment of SessionOwnership and
\* the comment in sendEncryptedNow).
NonceNeverReused == \A k \in Keys : Increasing(wire[k])

\* No message of the wallet is acted upon twice, whatever the relay replays
\* and wherever the page crashed (the comment in handleRelayMessage).
ActedAtMostOnce == \A k \in Keys : Increasing(acted[k])

\* The durable record is always ahead of everything that left the page and of
\* everything the page acted upon.
CheckpointAhead ==
  stored # None =>
    /\ \A i \in DOMAIN wire[stored.key] : wire[stored.key][i] < stored.send
    /\ \A i \in DOMAIN acted[stored.key] : acted[stored.key][i] < stored.recv

\* A key runs in one page at most, and the page that runs a key a record can
\* restore holds the lock: no page can start a second copy of it.
SingleRunner ==
  \A t \in Tabs :
    key[t] # None =>
      /\ \A u \in Tabs \ {t} : key[u] # key[t]
      /\ stored # None /\ stored.key = key[t] => lock = t

\* The wallet accepts frames without gaps only.  In the first page of a
\* pairing every number is emitted in its turn, and acted upon in its turn.
GapFree ==
  \A k \in Keys :
    life[k] = "first" =>
      /\ \A i \in DOMAIN wire[k] : wire[k][i] = i
      /\ \A i \in DOMAIN acted[k] : acted[k][i] = i

\* A session one page has retired does not come back while that page lives,
\* even if its record could not be invalidated (handleSessionTerminated).
NoResurrection ==
  \A t, u \in Tabs : key[u] # None => key[u] \notin dropped[t]

-----------------------------------------------------------------------------
(* The inductive invariant *)

\* What a page may be doing at a time: a page that is not open does nothing,
\* one with a record to restore has not run a session yet, and a restore or a
\* handshake under way has no session beside it.
PageInv(t) ==
  /\ ~open[t] => pair[t] = "idle" /\ pend[t] = None
  /\ ~open[t] \/ pend[t] # None =>
       key[t] = None /\ \A j \in Jobs : job[t][j] = Idle
  /\ restore[t] # "idle" => lock = t /\ pend[t] # None
  /\ pair[t] = "handshake" => key[t] = None /\ pend[t] = None

\* Keys are fresh when a pairing mints them.
Unused(k) ==
  /\ stored # None => stored.key # k
  /\ wire[k] = <<>> /\ acted[k] = <<>>
  /\ \A t \in Tabs :
       /\ key[t] # k
       /\ pend[t] # None => pend[t].key # k
       /\ \A j \in Jobs : job[t][j].key # k

\* SingleRunner, and what it rests on: nobody runs the key of a record that
\* is being imported.
KeyInv ==
  /\ SingleRunner
  /\ \A k \in Keys : life[k] = "new" => Unused(k)
  /\ \A t, u \in Tabs : restore[t] = "importing" => key[u] # pend[t].key

Below(s, n) == \A i \in DOMAIN s : s[i] < n

\* The live counters, the record being imported and the stored record are all
\* ahead of what was emitted and acted upon.
CounterInv ==
  /\ \A t \in Tabs :
       /\ key[t] # None =>
            Below(wire[key[t]], send[t]) /\ Below(acted[key[t]], recv[t])
       /\ restore[t] = "importing" =>
            /\ Below(wire[pend[t].key], pend[t].send)
            /\ Below(acted[pend[t].key], pend[t].recv)
  /\ CheckpointAhead

\* A record covers a job whose own number it is ahead of.
Covers(r, x) ==
  /\ x.kind = "send" => x.seq < r.send
  /\ x.kind = "recv" => x.seq < r.recv

\* A send, seen against its session's counter s and what it emitted, w.
SendOk(x, s, w) ==
  /\ x.pc = "seal" => x.kind = "send"
  /\ x.kind = "send" /\ x.pc \in {"seal", "queued", "export", "write", "saved"}
       => x.seq < s /\ Below(w, x.seq)

\* A receive, against the session's counter r and what it acted upon, a.
RecvOk(x, r, a) ==
  /\ x.pc = "unseal" => x.kind = "recv"
  /\ x.pc = "unseal" /\ x.seq # 0 => x.seq = r /\ r < MaxSeq
  /\ x.kind = "recv" /\ x.pc \in {"queued", "export", "write", "saved"} =>
       x.seq < r /\ Below(a, x.seq)

\* A save that has read the counters.
SnapOk(x, s, r, w, a) ==
  x.pc = "write" =>
    /\ x.snap.send <= s /\ x.snap.recv <= r
    /\ Below(w, x.snap.send) /\ Below(a, x.snap.recv)
    /\ Covers(x.snap, x)

SnapOwn(x) == x.pc = "write" => x.snap # None /\ x.snap.key = x.key

StoredOk(x, rec) ==
  x.pc = "saved" /\ rec # None /\ rec.key = x.key => Covers(rec, x)

JobInv(t, j) ==
  /\ SnapOwn(job[t][j])
  /\ Current(t, j) =>
       /\ SendOk(job[t][j], send[t], wire[key[t]])
       /\ RecvOk(job[t][j], recv[t], acted[key[t]])
       /\ SnapOk(job[t][j], send[t], recv[t], wire[key[t]], acted[key[t]])
       /\ StoredOk(job[t][j], stored)

\* Two jobs of one session: one send and one receive at most, one save at a
\* time, and a save that started later covers the number of an earlier one.
Compatible(x, y) ==
  /\ x.kind = y.kind => x.kind = "save"
  /\ x.pc \in {"export", "write"} => y.pc \notin {"export", "write"}
  /\ x.pc = "saved" /\ y.pc = "write" => Covers(y.snap, x)

PairInv(t, i, j) ==
  i # j /\ Current(t, i) /\ Current(t, j) => Compatible(job[t][i], job[t][j])

StreamInv ==
  /\ TypeOK
  /\ \A t \in Tabs : PageInv(t)
  /\ KeyInv
  /\ CounterInv
  /\ \A t \in Tabs, j \in Jobs : JobInv(t, j)
  /\ \A t \in Tabs, i, j \in Jobs : PairInv(t, i, j)
  /\ NonceNeverReused
  /\ ActedAtMostOnce

-----------------------------------------------------------------------------
Runner(k) ==
  IF \E t \in Tabs : key[t] = k THEN CHOOSE t \in Tabs : key[t] = k ELSE None

\* Either direction of the session is a counter stream.
Outbound == INSTANCE CounterStream
              WITH user <- [k \in Keys |-> Runner(k)], used <- wire,
                   Numbers <- Counters
Inbound == INSTANCE CounterStream
             WITH user <- [k \in Keys |-> Runner(k)], used <- acted,
                  Numbers <- Counters

RefinesOutbound == Outbound!Spec
RefinesInbound == Inbound!Spec

\* A session that can no longer be checkpointed is retired or its page goes
\* away; it does not linger.
BrokenSessionEnds ==
  \A t \in Tabs : broken[t] /\ key[t] # None ~> key[t] = None \/ ~broken[t]

\* Every send, receive and save finishes: no queue blocks for good.
WorkFinishes ==
  \A t \in Tabs, j \in Jobs :
    job[t][j].pc # "idle" ~> job[t][j].pc = "idle"
=============================================================================
