# Formal model of QRL Connect

TLA+ modules about the library in `src/src` (the dApp side of a post-quantum
wallet connection), TLC configurations that check them on small instances, and
proofs for all instances.

## The system

| Part | State | Operations | Interacts with |
| --- | --- | --- | --- |
| `SessionOwnership.ts` | the Web Lock request, generation, whether this page owns the session | `acquire`, `release`, lock callback | the browser's lock manager, other pages of the origin |
| `KeyExchange.ts` | ML-KEM key pair, QR capability, session with counters, flags, cached ACK | `initiate`, `onSynAck`, `confirmOriginatorAckDelivered`, `receiveQR`, `onAck`, `encryptMessage`, `decryptMessage`, `exportPersisted`, `reset` | called by the connection manager; WebCrypto |
| `ConnectionManager.ts` | live key exchange, `pendingRestore`, three promise queues, failure count, `persistenceBroken`, status, wallet presence | `getConnectionURI`, `reconnect`, `resume`, `disconnect`, `resetForNewChannel`, sends, relay frames, checkpoints | all of the above, `localStorage`, the socket client |
| `SocketClient.ts` | transport, channel, pending join, pending sends | `connect`, `joinChannel`, `sendMessage`, `closeChannel`, `leaveChannel`, `disconnect` | the relay |
| `QRLConnectProvider.ts` | pending calls, the queue of approvals and its turn, request generation, lifecycle transition, orphans and their stored records | `request`, `getConnectionURI`, `newConnection`, `disconnect`, responses, `connection_lost`, `session_terminated` | the connection manager, `localStorage`, the application |
| `signing/typedData.ts` | none (a walk with a stack) | validation of a payload, digest | the provider's caller and the wallet |
| `ui/src/extension.ts` | session of a page with an injected wallet, requests and listeners under way | `connect`, `restore`, `disconnect`, `dispose`, wallet events | an EIP-1193 wallet |
| `ui/` (rest) | discovered providers, modal | provider discovery, pairing modal | the provider |
| `crypto/`, `PQCrypto.ts`, `utils/` | none | pure functions | |

The relay is untrusted and lossy. Pages of one origin share `localStorage` and
the Web Lock. Everything in a page is interleaved at `await`s.

What is hard: a page may crash, reload or be retired at any `await`; two pages
may want one stored session; an AES-GCM nonce is a counter that must survive
all of it without being used twice; frames are lost, repeated and reordered;
handlers of an old generation resume in a new one; storage and the relay may
fail in the middle of a teardown.

What makes each part correct:

- ownership: one owner; an answer to `acquire` that is true when given; a
  `release` is final; every call is answered;
- key exchange: no stale handshake installs a session; both sides agree; secrets
  are wiped; a half-open handshake converges;
- sessions: numbers are never reused, repeated or skipped; the record is ahead of
  the wire; one page runs a key; a retired session stays retired; queues do
  not block;
- socket client: every join, send and close settles, answers are true, buffered
  frames are handed over once, a channel that was left is not joined again;
- provider: every call is settled once; approvals take turns; no call crosses
  into another pairing; the wallet signs only for accounts it approved; a reload
  does not lose an answer;
- connection lifecycle: the status shown has its session; a channel is retired
  before the next pairing; what has ended is not joined again; a session that
  lost nothing is not given up; lifecycle calls end;
- typed data: what is accepted is well formed, acyclic and within the limits, what
  is rejected is not; the digest scheme fits the addresses of the payload;
- injected wallets: no session comes back after it was ended, none shows an outdated
  account, calls settle.

## Modules

| Module | What it is |
| --- | --- |
| `ExclusiveHolder` | what the lock promises: a set of at most one holder |
| `SessionOwnership` | `SessionOwnership.ts` over several pages, implements `ExclusiveHolder` |
| `SessionOwnershipProofs` | its theorems |
| `CounterStream` | what one direction of the stream promises: one user per key, growing numbers |
| `SessionStream` | sessions, records, counters and queues over several pages, implements `CounterStream` twice |
| `SessionStreamProofs` | its theorems |
| `Handshake` | both roles of the handshake over the relay |
| `HandshakeProofs` | its theorems |
| `RelaySocket` | `SocketClient.ts`, the transport below it and the relay behind it |
| `RelaySocketProofs` | its theorems |
| `Provider` | `QRLConnectProvider.ts` over several pages and reloads, with the connection manager as it sees it |
| `ProviderProofs` | its theorems |
| `ConnectionLifecycle` | `ConnectionManager.ts`: status, joins, restore, probe, teardown and retirement, against the socket, the relay and the wallet |
| `ConnectionLifecycleProofs` | its theorems |
| `TypedData` | `computeTypedDataDigest()` up to bytes and hashes, against definitions of what may be accepted |
| `TypedDataProofs` | its theorems |
| `ExtensionSession` | `createExtensionSession()` and the injected wallet behind it |
| `ExtensionSessionProofs` | its theorems |
| `MC*` | instances for TLC |

### SessionOwnership

A page has a generation, concurrent `acquire()` calls and at most one lock
request. The request is split into what the browser does (`DecideRequest`,
`RejectRequest`, `EndRequest`, `PageGone`) and what the callback does
(`CallbackRuns`, `CallbackEnds`). `AcquireCall`/`AcquireResume`/`AcquireReturn`
are the stretches of `acquire()` between its awaits; `ReleaseCall`,
`FinishRelease` and `ReleaseSettles` those of `release()`. `owned` is
`releaseOwnership !== null`, and `Holder` maps it to `ExclusiveHolder`.

### SessionStream

The lock is one variable here, granted at once: that is `ExclusiveHolder`, which
`SessionOwnership` is proved to implement. `stored` is the record in
`localStorage`. Per page: `pend` (`pendingRestore`), where `reconnectNow()` and
`getConnectionURI()` stand (`restore`, `pair`), the live session (`key`,
`send`, `recv`), `fails`, `broken`, and `job`: the sends, receives and saves
under way. A job carries the key it started under, which is the
`SessionWorkContext`; `Current` is `isSessionWorkCurrent()`. A send goes through
`Reserve`, `Sealed`, `SaveBegin`, `SaveExport`, `SaveWrite`, `Emit` and
`Acked`, a receive through `Deliver`, `Unsealed`, the same save, and `Act`;
every step has its failures, and a failure that spends a number goes through
`GiveUp` and `Close`. `wire`, `acted`, `life` and `dropped` are history.

Left out: `localStorage` that is not available at all (the manager then never
saves and never restores); the order of tasks in the persistence queue (any
queued save may be next); lifecycle calls that a newer generation has overtaken
(they have no effect, and are dropped at once); several concurrent
`getConnectionURI()` calls of one page. `Disconnect` starts after the relay has
answered, whatever it answered.

### Handshake

Cryptography is perfect: the AEAD key is the pair of a pairing and a scan, and a
frame opens only under its own key. `pairing` and `scan` are the generations of
the two sides. The relay holds a set of frames, each of which it may deliver
any number of times, or lose; `Damaged` is anything that does not open. The
originator's tasks are `handleSynAck()` calls, between whose awaits are
`TakeSynAck`, `HelloOpened`, `HelloSealed`, `SendAck` and `AckConfirmed`; the
responder's are `receiveQR()` and `onAck()`.

Left out: the local copies of public key and capability in `getConnectionURI()`,
which wipes its copy of the capability itself on every way out; `SecretsWiped` is
about what a `KeyExchange` keeps.

### RelaySocket

`socket` is the Socket.IO socket: none, `stopped` (closed by the relay, which
does not retry), `down` (retrying) or `up`. A join attempt is a
`joinChannelNow()` promise; its kind says who made it: an immediate
`joinChannel()`, or the connect handler for a deferred join or on its own
account. Attempts made by the connect handler are answered in a promise
reaction. An acknowledgement and a timer run that reaction before anything else,
so it is part of their action; after `leaveChannel()`, `closeChannel()`,
`disconnect()` and the disconnect handler, the application (or a listener of
`disconnected`) may call in before `Reaction`. `own` says that the attempt was
made on the present socket: the watchdog drops the socket and leaves attempts
behind. Packets reach the relay in order; acknowledgements come back in any
order, late, malformed or not at all. Timers have no clock: any that is set may
run out, except that the watchdog comes before the timers set after it.

Left out: `setPublicKey()` and the `seq` field (payload), validation of single
fields of an acknowledgement (one verdict, good or bad), and the forwarding of
events that change no state.

### Provider

`call` holds the calls of `request()`; `pc` says where the promise of each
stands: `queued` in `restrictedRequestQueue`, `joining` at the await of
`ensureChannelJoined()` (`unpaired` if that is known to answer false), `pending`
in `pendingRequests`, `authorizing` at the await of `authorizeAccounts()`
(`failing` when the accounts could not be stored and the session is being torn
down), `answered`, `refused`, `gone` with its page, or `late` once reported as
`late_response`. `turn` is the call that `restrictedRequestActive` stands for.
The request generation is kept as one bit per open call, `current`: a
cancellation clears it, and comparing generations is looking at it. `Send` is the
part of `performRequest()` after its await, run by whichever of `Request`,
`FinishRestricted` and `JoinSettles` gets there. The three lifecycle calls are
`BeginTransition` up to their await, then `Retire` and `OfferURI` or
`TransitionFails`. `Unload` and `Load` are a reload.

`conn` is the connection manager: its `link` stands for status, keys and
`pendingRestore`. What it may do between the calls of the provider (`Pair`,
`Restore`, `LinkMoves`, `WalletInfo`, `Checkpoint`, `ConnectionLost`,
`SessionTerminated`) is a contract, more permissive than the code: any link may
drop or recover at any time, a send may fail at any time, and frames in flight
are not followed. `SessionStream` says how sessions really move.

Left out: announcements (EIP-6963), the foreground listeners, the redirect
itself (a redirect is an `Unload`), the request counter at its limit, storage
that refuses a write, and the window in which a restored page knows an older
record than the one it then hydrates.

### ConnectionLifecycle

`manager` is what the connection manager shows and keeps: `status`, whether the
key exchange is absent, pairing or ready, `pendingRestore`, `walletPresent` and
the probe's timer. `socket` and `waiting` are the socket client as `RelaySocket`
shows it: one transport, at most one unanswered `join_channel`, and the calls
that wait for it; `waiting` may also hold `Lifecycle`, the one join that
`getConnectionURI()` or a retirement makes. `queue` is `messageQueue`: frames in
the order of their arrival, and a marker behind the frames of each answer, where
`joinAndSettle()` or `handleAutoReconnected()` resumes. `Copies` is the loop over
`bufferedMessages`, once for every call that shares the answer. `handling` and
`teardown` are where a frame's handler and a failed send stand, `restore` where
`reconnectNow()` stands, `life` where `getConnectionURI()`, `newConnection()` or
`disconnect()` stands (one at a time, which the provider sees to). `current` in
`life` and `restore` is the comparison of `sessionGeneration`. `relay` is the
relay's view of the channel and of the wallet, `closed` the tombstones; `offered`,
`waived` and `over` are history.

Each stretch between two awaits is an action: `RestoreBegins`,
`RestoreOvertaken`/`RecordRead`/`RecordGone`, `Hydrates` and its failures;
`RetireBegins`, `FlushEnds`, `CloseEnds`, `RetireEnds`; `LockGranted`, `Issue`,
`PairingJoined`, `Encoded`, with `JoinConflicts` for the one retry of a channel
that is taken. Work of a retired generation does nothing when it resumes, so it
is dropped at once (`WorkRetired`).

Left out, because another module has it: failures of storage and of the
checkpoint (`SessionStream`), attempts that outlive their socket (`RelaySocket`),
repeated SYNACKs and the handshake's own awaits (`Handshake`), reloads
(`Provider`, `SessionStream`). Left out altogether: the failure count behind
`connection_lost` and the timer of unresponsive wallets (they only emit an
event), and the time a `participants_changed` event spends on its way.

### TypedData

A payload is a type map (from structs to sequences of fields), a primary type and
values. A recursive function of the code is a walk with a stack here:
`collectDependencies()` is `Collect` and the steps that follow `path` and `next`
until a root is done; the walk over the values keeps the structs and arrays under
way in `frames`, each with its depth, and counts `budget` down. The walks are run
in the code's order: the domain, the primary type, and again for every type that
is hashed. Values are chosen when the walk comes to them, so every payload of
every type map is covered.

`VerdictIsRight` compares the verdict with definitions written independently of
the walk (a cycle, the longest path, reachability, what a field may be);
`SchemeFits` says that an `address` anywhere in the reachable types, and nothing
else, makes the scheme `v2`. That an accepted graph is within the depth limit is not
so, see Findings. Left out: bytes, hashes and encodings of atoms, the
syntax of names (one that is no identifier, reserved or too long, and a field whose
type is too long, is `unfit`; struct names are taken to be fit), and the wording of
errors.

### ExtensionSession

`state` is the public session, `run` the closure of `start()`, `flight`, `queued`
and `closing` the three pending requests, `requests` what was asked of the
provider with its outcome, and whether the closure that asked is still current
(`retire()` and the end of a revocation make it outdated; a probe is outdated by
the next accounts event too). `calls` maps a call to the request whose promise it
was given: concurrent `connect()` calls share one, and `disconnect()` supersedes
both. `events` are the wallet's announcements on their way. Promise reactions run
before the next event, reply or timer (`TasksRun`). `wallet` is what the user does:
lock, unlock, switch, grant, revoke.

Assumed of the wallet: events in order, every change of the visible accounts is
announced (EIP-1193). Left out: calls of the application made from within a
listener that `extension.ts` is calling.

## Runs

| Run | Instance | Shows |
| --- | --- | --- |
| `ownership` | 2 pages, one with 2 concurrent calls and 2 releases per lifetime, fairness | `HonestGrant`, `NoLateOwner`, refinement of `ExclusiveHolder`, `EveryCallIsAnswered` |
| `stream_tabs` | 2 pages, 1 key, 1 job per page, counters to 3 | `CheckpointAhead`, `SingleRunner`, `NoResurrection`, refinement of `CounterStream` both ways |
| `stream_page` | 1 page, 1 key, 2 jobs, counters to 3, fairness | `NonceNeverReused`, `GapFree`, `BrokenSessionEnds`, `WorkFinishes` |
| `handshake` | 2 pairings, 2 scans, 2 concurrent handlers per side, fairness | `SecretsWiped`, `SessionIsCurrent`, `CompletionIsConfirmed`, `Agreement`, `Converges` |
| `handshake_reload` | 1 pairing, 1 scan, fairness | expected violation, see Findings |
| `relay` | 1 channel, 2 callers, 2 attempts, 1 send, 2 unanswered and 2 travelling packets, fairness | `JoinIsReal`, `HandedOverOnce`, `WaitingIsHeld`, `LeftStaysLeft`, `ConfirmedIsDone`, `CallsAnswered` |
| `provider` | 1 page and its reloads, 2 calls, each of any of 4 methods, 1 account, 1 chain, 2 pairings, fairness | `ApprovalsOneAtATime`, `NoCrossing`, `SignedForApproved`, `AnswersAreKept`, `NoSecondAnswer`, `EveryCallSettles` |
| `provider_tabs` | 2 pages, 1 call, 1 pairing | expected violation, see Findings |
| `lifecycle` | 2 channels, 1 join beside the lifecycle's, 1 ciphertext beside the SYNACK, 2 bad frames, fairness | `StatusHasSession`, `OldChannelsRetired`, `EndedStaysEnded`, `ProbeIsForTheAbsent`, `CallsEnd` |
| `lifecycle_twice` | 1 channel, 2 joins, 2 ciphertexts | expected violation, see Findings |
| `extension` | 3 calls, 2 accounts, 1 event on its way when the wallet changes, fairness | `NoGhostSession`, `ShownIsCurrent`, `CallsSettle` |
| `typed` | 3 structs and the domain, some 24,000 type maps with each of the 4 as primary type, limits 4 types, 3 fields of a type, 6 fields, depth 2, nesting 1, arrays to 2, 8 values | `VerdictIsRight`, `SchemeFits` |

Type invariants are parts of the inductive invariants and proved, so they are not
part of the runs.

Why these bounds are enough to be interesting:

- Two pages are what it takes to race for a lock or a record. Two calls per page
  let a call join, overtake or be overtaken by another. `MaxReleases` bounds the
  generation counter; two let a release meet the draining of an earlier one.
- `MaxSeq` stands for `Number.MAX_SAFE_INTEGER`. 0 belongs to the handshake, so
  3 leaves two numbers to send and two to receive before the counter is spent:
  one before and one after a crash. Two jobs let a send meet a receive, two
  sends meet, and two saves meet. `stream_tabs` and `stream_page` split what
  one larger instance would check (two pages with two jobs have a million states
  already); the proofs have no such bound.
- `MaxUnanswered` bounds the packets that the relay has not acknowledged, `MaxPipe`
  those on their way; two are enough for an acknowledgement to come late or out of
  order. Two attempts let an old one meet a new one; two callers share, supersede and
  overtake each other. One channel is what a connection manager uses a socket
  client for (it makes a new client for a new channel); two channels were checked
  as well and hold, but take longer than they teach.
- Two calls are a call and one that waits for its turn, or an orphan and a call of
  the page that was loaded after it; two pairings are what a call can cross.
  One account is enough, since "none" and another one differ from it in the same
  way. The wallet may always answer that it did not switch, so one chain gives
  both outcomes of a switch; two chains were checked
  without liveness and hold.
- Two scans of one QR and two QRs are what `Agreement` and `SessionIsCurrent`
  need.
- Two channels are one that is retired and the one that replaces it, or one that is
  taken and the retry. `MaxFailures` is the constant of the code. One ciphertext
  can be lost, kept, repeated by a second join or opened; the queue may hold one
  item when another join is answered (`MaxQueue`), which is what it takes for a
  handler to be overtaken. The invariants are proved for any bounds.
- Three calls are a `connect()`, one that joins or supersedes it, and a third that
  comes while a revocation runs; two accounts are a switch.
- Three structs beside the domain make every graph of a depth above the limit, a
  cycle of length 3, a diamond and an unused type. The limits are small so that both
  sides of each are reached.

`CHECK_DEADLOCK FALSE` is used where the bounds (generations, pairings, numbers)
or the real system (nobody does anything) let everything stop.

### Fairness

`ownership`: promises settle and the browser decides, runs and ends lock
requests. `stream_page`: weak fairness of every continuation, since WebCrypto
settles and sends and closes time out (`MESSAGE_ACK_TIMEOUT_MS`,
`SEND_FLUSH_TIMEOUT_MS` in `SocketClient.ts`); strong fairness of `SaveBegin`,
since the queue is first in, first out, which the model does not track. Nobody
is obliged to send, crash or pair. `handshake`: continuations are weakly fair;
the relay does not lose every repetition of an exchange (strong fairness of
`RoundTrip`, weak fairness of the wallet taking its ACK): that is the condition
under which convergence can be asked for at all. `relay`: promise reactions
are weakly fair, timers strongly, since they run out whatever the transport does
meanwhile; nothing is asked of the relay or the transport. `provider`: promise
reactions run, `ensureChannelJoined()` and the storing of accounts settle (the
socket client bounds the one, as `relay` shows, and the queues of the session
the other, as `stream_page` shows), a session that cannot be stored is torn down,
and the timer of a sent call runs out. The wallet need not answer.
`lifecycle`: the browser decides about the lock and storage answers
(`Restoring`), the timers of a join run out (`JoinFails`, `Watchdog`), and a
lifecycle call goes on when what it awaits has settled (`LifecycleSteps`); the
relay, the wallet and the transport may do nothing for ever. `extension`: promise
reactions run, an answer that the wallet owes without its user arrives, and the
deadline of a revocation passes; a prompt may stay open.

## Proofs

`tlapm` checks, for every value of the constants:

- `SessionOwnershipProofs`: the inductive invariant `OwnershipInv`, mutual
  exclusion, honest grants, no late owner, and that `SessionOwnership`
  implements `ExclusiveHolder`. `OwnershipInv` ties each page's generation, the
  state of its request and the lock together: without it a callback that runs
  late could be that of a request the page has forgotten.
- `SessionStreamProofs`: the inductive invariant `StreamInv`, and from it
  `TypeOK`, `SingleRunner`, `CheckpointAhead`, `NonceNeverReused`,
  `ActedAtMostOnce`; `NoResurrection` by the further invariant `RetiredInv`,
  `GapFree` by `TurnInv`; and that both directions implement `CounterStream`.
- `HandshakeProofs`: the inductive invariant `HandshakeInv`, and from it
  `SecretsWiped`, `SessionIsCurrent`, `CompletionIsConfirmed` and `Agreement`; also
  that the relay never carries the ACKs of two sessions of one pairing.
- `RelaySocketProofs`: the inductive invariant `RelaySocketInv`, and from it
  `JoinIsReal`, `HandedOverOnce`, `WaitingIsHeld`, `LeftStaysLeft` and
  `ConfirmedIsDone`.
- `ProviderProofs`: for any number of pages the inductive invariant `ProviderInv`,
  and from it `ApprovalsOneAtATime` and `SignedForApproved`; for a page that has the
  storage to itself (`OneTab`: there is no other page, but any number of reloads) the
  inductive invariant `TabInv`, and from it `NoCrossing`, `AnswersAreKept` and
  `NoSecondAnswer`. With two tabs these three fail, see Findings.
- `ConnectionLifecycleProofs`: the inductive invariant `LifecycleInv`, and from it
  `StatusHasSession`, `OldChannelsRetired` and `EndedStaysEnded`; and by the further
  invariant `ProbeInv`, `ProbeIsForTheAbsent`.
- `ExtensionSessionProofs`: the inductive invariant `SessionInv`, and from it
  `NoGhostSession` and that every call that waits waits for a request that is
  under way (`CallsAreHeld`); and by the further invariant `ShowsInv`,
  `ShownIsCurrent`.
- `TypedDataProofs`: the inductive invariant `TypedDataInv`, and from it `VerdictIsRight`
  and `SchemeFits`, for every type map and all limits.

Assumptions: `None` is no page, key or record, and `MaxSeq` is a natural number
above 1 (`StreamAssumption`); the concurrent joins are finitely many and the
bounds natural numbers (`LifecycleAssumption`); `None` is no session either
(`NoneAssumption`); a callback of the socket client has one name, so that the names
of joins, messages and the close differ (`RelaySocketAssumption`); methods are
typed and there is a chain (`ProviderAssumption`); a list of accounts is not a mark of
another reply or the lack of one (`ListsAssumption`); the limits of typed data are
natural numbers, and at least one value may be encoded (`TypedDataAssumption`); the ones of `SessionOwnership`
and `ExtensionSession` are in those modules.

Why `StreamInv` has the parts it has:

- `KeyInv`: a second copy of a key could come from a record that another page is
  importing, or from a "fresh" key that somebody already holds.
- `CounterInv`: a record is only safe to restore if it is ahead of the wire, and
  so must be the live counters that the next record is taken from.
- `JobInv`: a job that waits for its checkpoint holds a number that is below the
  counter and above everything used; a save that has read the counters has read
  ones that are ahead of the wire; a job that has been saved is covered by
  whatever record of its key is stored.
- `PairInv`: the queues. Were there two saves at once, the later one could write
  an older snapshot over the number of a job already saved.
- `PageInv`: a page with a record to restore runs nothing, a restore holds the
  lock, a handshake has no session beside it.

The proof distinguishes quiet steps (the job ends, queues a save, or begins a
teardown), loud steps (counters move, numbers are used, a record is written:
one lemma each), and lifecycle steps (one lemma per part of the invariant).
`SingleRunner` is what keeps the loud steps of one page away from the jobs of
the others.

`GapFree` needs more than that numbers grow: in the first page of a pairing, a number
that has been taken must be used before the next one, or nothing may be used any more.
`TurnInv` says how far the counter is ahead of the wire at each point of a send, and of
what was acted upon at each point of a receive, and that the counter is level whenever
the queue is free. A send that fails with its number taken does not free the queue: it
leaves a teardown on it, behind which nobody sends. The counters of a page that
restores a session may have skipped, which is why the invariant is about the first.

Why `LifecycleInv` has the parts it has:

- `ColdInv`: after an end, and before the first pairing, nothing is left that could
  join: no waiting call, no queued marker, no restore that is still current. Without
  the last, a hydration under way would bring the session back.
- `QueueInv`: frames and joins in the queue belong to a key exchange, and calls
  that wait for a join to one that is ready; else a join that settles late could
  show CONNECTED, or arm the probe, for a pairing that is not its own.
- `LifeInv`: a pairing under way has a channel that nobody knows, so that its failure
  may forget it; a lifecycle call that waits for a join is at the await it says.
- `RetireInv`: once the tombstone is confirmed, or there was nothing to retire, the
  channel is given up and stays so until the next URI is issued.
- `StatusInv`: `StatusHasSession` with one more condition, that the hydration behind
  RECONNECTING was not overtaken.

The proof has one lemma per action. Those that reject the waiting joins
(`SocketDrops`, `JoinFails`, `Watchdog`, `ProbeFires`, `SendFails`,
`HandlerTeardown`) share `AbandonInv`, those that end the session `SessionEndsInv`.

`ProbeIsForTheAbsent` asks nothing of a manager without keys: a probe may outlive a
retirement, beside a presence that is no longer anybody's, and does no harm there.
`ProbeInv` adds what is needed when keys come back: never while a hydration that is
still current is under way. Most steps show no wallet, settle no join and start no
probe (`QuietProbe`); of the others, an answered join puts what will stop the probe
behind its frames (`AnswerEnds`, `CopyQueued`).

Why `HandshakeInv` has the parts it has. What `Agreement` needs is that a pairing has
one answer (`OneAnswerPerPairing`): an ACK in the relay, however old, is for the only
session its pairing ever had, so a wallet that verifies it cannot hold another key.
That holds because the secrets are spent when the answer is made:

- `NumbersInv`: generations and scans are issued once, and no handler works for one that
  was not issued; a frame of a later pairing cannot exist beforehand.
- `QueueInv` and `HandlerInv`: one handler of a generation at a time, and how far it has
  come; a second SYNACK that was being opened meanwhile finds the secrets gone.
- `OriginatorInv` and `AckInv`: an ACK of the current pairing in the relay means that
  the secrets are spent and the session, if any, is that of the ACK.
- `ScanInv` and `VerifiedInv`: the wallet's side. A scan is encapsulated before
  anything else is done about it, and what it verified came from the relay.

Why `RelaySocketInv` has the parts it has. Answers come late and out of order, so a
call's answer is true only if the acknowledgement is of the packet it waits for:

- `WireInv`: each callback is named by one packet on its way to the relay or by one
  acknowledgement on its way back, and by none once the connection is gone.
- `PacketInv`: the packet carries the channel of the attempt it is named for.
- `AttemptInv`: an attempt that can still be answered was made on the present socket.
  The watchdog drops a socket and leaves attempts behind, and these must not be
  mistaken for the new socket's.
- `HeldInv`: who waits for what, in both directions, which gives `WaitingIsHeld`.
- `JoinedInv` and `DoneInv`: what an acknowledgement on its way back says is so already
  (the relay took the join while the call waited, the tombstone exists, the message
  is routed).

Why `ProviderInv` has the parts it has:

- `CallsInv` (`Sound` of every call): a call has a pairing exactly from the moment it
  is sent, and an account it signs for, or that it would fall back to, was approved in
  that pairing.
- `LinkInv`, `RecordInv`: so was the account that the page shows and the one that is
  stored. A link belongs to the owner of the lock, and the record behind it is of
  its pairing; that keeps the approvals of one pairing from being stored, or restored,
  as those of another.
- `TurnInv`: the queue holds exactly the calls that wait, each once; another open call
  that needs an approval has the turn.
- `InflightInv`: only calls that the wallet may still answer have a record.

And `TabInv`:

- `SeenInv`: an unsent call that no cancellation has overtaken belongs to the pairing of
  its page, and no transition is under way.
- `ServedInv`: the pairing the wallet still serves is the one that is stored. So a
  reload cannot come up with another.
- `AwaitedInv`, `OrphansInv`: a call that waits has its record, one whose accounts are
  being stored has had its answer, and orphans are calls of pages that are gone. An
  orphan is therefore never a call that is settled.

Why `SessionInv` has the parts it has: a ghost session could only come from a
reply that is still taken for current, so `RequestInv` ties every current request
to the pending slot it fills, `SlotInv` the three slots to each other and to the
listeners, and `Held` the calls to the slots. For `ShowsInv` the last announcement on its way must
be true (`NewsInv`), and so must what the session shows or keeps (`ViewInv`), and every
reply that may still be shown (`ReplyInv`), unless an announcement is on its way.

Why `TypedDataInv` has the parts it has. `collectDependencies()` looks for a cycle only
on the path from its root, and does not go twice into a type:

- `PathInv`: the path is one of references, without repetition. So a type that is on it
  closes a cycle, and a path that is too long is one of the type map.
- `SeenInv`: a field that was looked at parses, and refers to a type that is done with
  (visited, and no longer on the path). This is what makes it right not to look again
  at a visited type.
- `DoneInv`: every set of done types has one that refers to none of them. A type that is
  left refers to done types only, so it can be added. Thus cycles are excluded without
  an induction over paths.
- `Known` and `ReachInv`: what is carried from one walk to the next. The types found are
  closed under reference, and in every closed set that holds the roots
  (`OnlyFrom`), hence exactly the reachable ones.
- `FramesInv`: a value that is encoded is of a type of the type map or an element of
  one. So an address among the values is one among the types, and the scheme is `v2`.

Only model-checked: the liveness properties (`EveryCallIsAnswered`, `BrokenSessionEnds`,
`WorkFinishes`, `Converges`, `CallsAnswered`, `EveryCallSettles`, `CallsEnd`,
`CallsSettle`), which are out of the prover's reach. Every other property of a passing
run is proved. What the three runs with an expected violation refute is in Findings.

## Findings

`handshake_reload`. The comment on `lastAck` in `KeyExchange.ts` says that the
cached ACK need not be persisted, because a reloaded dApp has a completed session
"and the wallet is no longer awaiting an ACK". Completion means that the relay
acknowledged the ACK, not that the wallet got it. If the wallet's transport drops
in between, the case the cache exists for, and the dApp page reloads, the wallet
repeats its SYNACK and never gets an answer.

`provider_tabs`. The records of pending approvals are shared by the tabs of an
origin. `getConnectionURI()` erases them all before it asks for the session, and
is then refused when another tab holds it. That tab's pairing goes on, but after
its redirect and reload the wallet's answer is not recognised and no
`late_response` is emitted. `newConnection()` and `disconnect()` erase first, too.

`lifecycle_twice`. Two overlapping calls of `joinAndSettle()` share one pending join
of the socket client, and each enqueues the frames of the shared answer. The second
copies do not open, since the receive counter has moved on. With two buffered frames
that makes two failures in a row, which "cannot happen on a healthy stream"
(`MAX_DECRYPT_FAILURES`), and the channel of a session that has lost nothing is
closed.

Also seen, and not counted as findings:

In the provider, a reload starts a new queue, so a second
approval can be sent while an earlier page's is still open at the wallet ("sent
only after the first one is answered or rejected", `CHANGELOG.md`, holds within
a page); a lifecycle call that fails leaves the pairing alive with its records
erased (`waived` in `Provider`); and `WALLET_INFO` arriving while accounts are
being stored makes `qrl_requestAccounts` resolve with an empty list.

Two more things happen in the provider only when two tabs share the storage, and are
why `NoCrossing` and `NoSecondAnswer` are claimed for one. A page that has loaded the
stored session but not restored it takes calls for it; when another tab has replaced
the pairing before the restore, they are sent in the new one. And a call that timed
out in a page that is then closed, which its caller was told, may be answered once more
as a `late_response` by a tab that had loaded its record before.

In the socket client, a refused or malformed acknowledgement abandons the channel
before anybody looks whether its attempt was settled long ago, and so can hit a
newer join of the same channel; and the watchdog of a deferred join drops the socket
but not the attempt already made on it, whose timer later abandons the channel of
the join that replaced it. `RelaySocket` has both, and its properties allow them.

In the connection manager, a frame whose handling began before a socket drop, or one
that the relay kept while the wallet was away, counts as a sign of the wallet:
the status becomes CONNECTED with the socket down or the wallet absent. A failed
automatic re-join leaves RECONNECTING in place until the next `resume()`. A join made
for a retirement swallows the frames the relay had kept, so that a close which is then
not confirmed leaves the session with a gap. A teardown whose close is not confirmed
lets the next URI be issued without a tombstone (`waived` in `ConnectionLifecycle`). A record that is
gone, or fails to hydrate, during a `disconnect()` that fails leaves an open socket
without a session.

In typed data, whether a type graph that is deeper than the limit is rejected depends
on the order in which its fields are written: `collectDependencies()` looks at the
length of its path, but does not go twice into a type, so a chain that is too long is
not seen when its end was visited before by a shorter way. With a limit of 2,
`A(C x, B[] y)`, `B(C x)`, `C(QRLDomain[] x)` is accepted, and with empty arrays gets
a digest; with the fields of `A` in the other order it is rejected. (`CHANGELOG.md`
speaks of deterministic limits; the recursion is bounded either way, and
`VerdictIsRight` claims only that what is rejected as too deep is so.) Also, a type
graph accepted from its roots can be too deep from a struct within and is then rejected while it is hashed; and the depth of values is bounded
more tightly than that of types, so that the deepest chains accepted by validation
never encode. Both reject what could have been rejected earlier; `VerdictIsRight`
states it so.

In injected wallets, a wallet that removes the grant while its `connect()` prompt is
open ends the session with the prompt still open.

Both getting to pair without the lock (a restore that finds the record gone
releases it under a concurrent `getConnectionURI()`; a `disconnect()` during its
reset does too) are modelled. They are harmless: the first checkpoint is refused
and the session ends, and the proofs cover them.

## Not modelled

- Cryptography, `PQCrypto.ts`, the encodings of typed data: pure functions, assumed to
  keep their promises.
- The pairing URI, Base45 and base64: pure codecs without state.
- Configuration, types, logging, address and platform helpers: no behaviour of their
  own.
- `show.ts`, `element.ts` and the discovery of providers in `ui/`: presentation; what
  they await is `Provider` or `ExtensionSession`. One thing was seen there: the promise
  of `show()` stays pending when its element is removed and `disconnect()` rejects.
- Announcements (EIP-6963), foreground listeners and redirects of the provider.
- The example, scripts, end-to-end tests and workflows.

`PROJECT.json` lists every part with its status.

## Plan

1. `Provider` takes its connection manager as a contract (`conn`); the events of
   `ConnectionLifecycle` should be shown to be ones that the contract allows.
2. Base45 and the lifetime of the modal, if a property of theirs turns out to be worth
   a run.
