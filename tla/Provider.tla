------------------------------ MODULE Provider ------------------------------
(***************************************************************************)
(* src/QRLConnectProvider.ts: the calls of request(), from the turn they   *)
(* wait for to the answer of the wallet, across lifecycle transitions and  *)
(* reloads of the page.  The connection manager appears as the provider    *)
(* sees it: a link, the account and the chain it reports, the record of    *)
(* the pairing, and the events it emits.                                   *)
(*                                                                         *)
(* Calls that are refused before any state changes (an unknown method, a   *)
(* transition under way, parameters that do not validate) are left out, as *)
(* are the methods that are answered from the state of the page.           *)
(***************************************************************************)
EXTENDS Naturals, Sequences, FiniteSets

CONSTANTS
  Pages,        \* browser tabs that share one storage
  MaxCalls,     \* bound on request() calls
  Accounts,
  Chains,
  None,
  Methods,      \* what the application may ask for
  MaxPairings   \* bound on pairings

Types == {"accounts", "sign", "switch", "read"}

ASSUME ProviderAssumption ==
  /\ MaxCalls \in Nat /\ MaxPairings \in Nat
  /\ None \notin Pages \cup Accounts \cup Chains
  /\ Chains # {}
  /\ Methods \subseteq
       [type : Types, account : Accounts \cup {None}, chain : Chains \cup {None}]

VARIABLES
  prov,        \* the provider of each page
  conn,        \* what its connection manager reports
  owner,       \* the page that holds the Web Lock of the session
  record,      \* the stored session
  inflight,    \* the persisted records of approval-bound calls
  call,        \* the calls, numbered in the order they are made
  aged,        \* calls sent more than REQUEST_TIMEOUT_MS ago
  open,        \* pairings the wallet and the relay still serve
  pairings,    \* how many there have been
  replied,     \* calls the wallet has answered
  \* history
  approved,    \* accounts the wallet approved, with the pairing
  waived       \* calls whose page was gone when the application gave up the pairing

wallet == <<open, pairings, replied>>
vars == <<prov, conn, owner, record, inflight, call, aged, wallet, approved, waived>>

Calls == 1 .. MaxCalls
Pairings == 1 .. MaxPairings

Established == {"away", "waiting", "connected"}
NoRecord == [pairing |-> 0, account |-> None, chain |-> None]
Unused == [pc |-> "free", page |-> None, m |-> None, current |-> FALSE, made |-> 0,
           sent |-> 0, prev |-> None, late |-> FALSE]
Unloaded == [loaded |-> FALSE, transition |-> "none", turn |-> 0, queue |-> <<>>,
             orphans |-> {}]
Unlinked(c) == [link |-> "none", pairing |-> 0, account |-> None, chain |-> c]

Open == {"queued", "joining", "unpaired", "pending", "authorizing", "failing"}
Settled(r) == call[r].pc \in {"answered", "refused", "late"}
Restricted(r) == call[r].m.type # "read"
Of(p) == {r \in Calls : call[r].page = p /\ call[r].pc \in Open}

Init ==
  /\ prov = [p \in Pages |-> Unloaded]
  /\ conn \in {[p \in Pages |-> Unlinked(c)] : c \in Chains}
  /\ owner = None
  /\ record = NoRecord
  /\ inflight = {}
  /\ call = [r \in Calls |-> Unused]
  /\ aged = {}
  /\ open = {}
  /\ pairings = 0
  /\ replied = {}
  /\ approved = {}
  /\ waived = {}

-----------------------------------------------------------------------------
(* Requests *)

\* The pairing an application means when it makes a call on page p.
PairingSeen(p) ==
  IF conn[p].link = "restorable" THEN record.pairing ELSE conn[p].pairing

\* validateRestrictedRequest(): a call that acts for an account names the one
\* that is authorized, and the chain it declares, if any, is the current one.
Valid(p, m) ==
  m.type = "sign" => /\ m.account # None /\ m.account = conn[p].account
                     /\ m.chain \in {None, conn[p].chain}

Put(r, c) == [call EXCEPT ![r] = c]

\* What remains to be known of a call that its page no longer waits for.
Closed(c, pc) ==
  [c EXCEPT !.pc = pc, !.current = FALSE, !.made = 0, !.prev = None, !.late = FALSE]

\* The second half of performRequest(): revalidate, enter pendingRequests,
\* persist the record and hand the call to sendJsonRpc(), which throws when
\* there are no session keys.
Send(p, r, c) ==
  IF Valid(p, c.m) /\ conn[p].pairing # 0
    THEN /\ call' = Put(r, [c EXCEPT !.pc = "pending", !.sent = conn[p].pairing])
         /\ inflight' = IF c.m.type = "read" THEN inflight ELSE inflight \cup {r}
    ELSE /\ call' = Put(r, Closed(c, "refused"))
         /\ UNCHANGED inflight

\* A read of accounts that needs no wallet.
Cached(p, m) ==
  m.type = "accounts" /\ conn[p].pairing # 0 /\ conn[p].account # None

\* performRequest() of a call of the current generation, up to its await.  A
\* page with nothing to restore is told so by ensureChannelJoined() at once.
Perform(p, r, c) ==
  \/ /\ conn[p].link = "connected"
     /\ Send(p, r, c)
  \/ /\ conn[p].link # "connected"
     /\ call' = Put(r, IF Cached(p, c.m) THEN Closed(c, "answered")
                       ELSE [c EXCEPT !.pc = IF PairingSeen(p) # 0 THEN "joining"
                                             ELSE "unpaired"])
     /\ UNCHANGED inflight

\* Mutant: a call takes the turn only when it is sent.
TurnTakenOnSend(p) ==
  prov[p].turn # 0 /\ call[prov[p].turn].pc \notin {"joining", "unpaired"}

\* restrictedRequestActive
TurnTaken(p) == prov[p].turn # 0

\* request(): an approval-bound call takes the turn or waits for it.
Request(p, r, m) ==
  LET c == [Unused EXCEPT !.page = p, !.m = m, !.current = TRUE, !.made = PairingSeen(p)] IN
  /\ prov[p].loaded /\ prov[p].transition = "none"
  /\ call[r].pc = "free" /\ \A q \in 1 .. r - 1 : call[q].pc # "free"
  /\ Valid(p, m)
  /\ \/ /\ m.type = "read"
        /\ Perform(p, r, c)
        /\ UNCHANGED prov
     \/ /\ m.type # "read" /\ ~TurnTaken(p)
        /\ prov' = [prov EXCEPT ![p].turn = r]
        /\ Perform(p, r, c)
     \/ /\ m.type # "read" /\ TurnTaken(p)
        /\ prov' = [prov EXCEPT ![p].queue = Append(@, r)]
        /\ call' = Put(r, [c EXCEPT !.pc = "queued"])
        /\ UNCHANGED inflight
  /\ UNCHANGED <<conn, owner, record, aged, wallet, approved, waived>>

\* Mutant: only a call that succeeds passes the turn on.
FinishOnSuccess(p) ==
  /\ prov[p].turn # 0 /\ call[prov[p].turn].pc = "answered"
  /\ IF prov[p].queue = <<>>
       THEN /\ prov' = [prov EXCEPT ![p].turn = 0]
            /\ UNCHANGED <<call, inflight>>
       ELSE LET r == Head(prov[p].queue) IN
            /\ prov' = [prov EXCEPT ![p].turn = r, ![p].queue = Tail(@)]
            /\ Perform(p, r, call[r])
  /\ UNCHANGED <<conn, owner, record, aged, wallet, approved, waived>>

\* finishRestrictedRequest(), the reaction to the promise of the call whose
\* turn it was.  The queue holds no call of an older generation, since a
\* cancellation empties it.
FinishRestricted(p) ==
  /\ prov[p].turn # 0 /\ Settled(prov[p].turn)
  /\ IF prov[p].queue = <<>>
       THEN /\ prov' = [prov EXCEPT ![p].turn = 0]
            /\ UNCHANGED <<call, inflight>>
       ELSE LET r == Head(prov[p].queue) IN
            /\ prov' = [prov EXCEPT ![p].turn = r, ![p].queue = Tail(@)]
            /\ Perform(p, r, call[r])
  /\ UNCHANGED <<conn, owner, record, aged, wallet, approved, waived>>

\* Mutant: the generation is not looked at again after the await.
JoinSettlesLate(p, r) ==
  /\ call[r].pc \in {"joining", "unpaired"} /\ call[r].page = p
  /\ \/ call[r].pc = "joining" /\ conn[p].pairing # 0 /\ Send(p, r, call[r])
     \/ /\ call' = Put(r, Closed(call[r], "refused"))
        /\ UNCHANGED inflight
  /\ UNCHANGED <<prov, conn, owner, record, aged, wallet, approved, waived>>

\* performRequest() resumes when ensureChannelJoined() has settled: with true
\* only if there was a session to join.
JoinSettles(p, r) ==
  /\ call[r].pc \in {"joining", "unpaired"} /\ call[r].page = p
  /\ \/ /\ call[r].pc = "joining" /\ conn[p].pairing # 0
        /\ call[r].current
        /\ Send(p, r, call[r])
     \/ /\ call' = Put(r, Closed(call[r], "refused"))
        /\ UNCHANGED inflight
  /\ UNCHANGED <<prov, conn, owner, record, aged, wallet, approved, waived>>

\* The promise of sendJsonRpc() rejects while the call is pending.
SendFails(p, r) ==
  /\ call[r].pc = "pending" /\ call[r].page = p /\ r \notin replied
  /\ call' = Put(r, Closed(call[r], "refused"))
  /\ inflight' = inflight \ {r}
  /\ replied' = replied \cup {r}    \* it never reached the wallet
  /\ UNCHANGED <<prov, conn, owner, record, aged, open, pairings, approved, waived>>

\* REQUEST_TIMEOUT_MS pass: the timer of a pending call fires, and the record
\* of any other is skipped by readInflight() from now on.
Expire(r) ==
  /\ call[r].sent # 0 /\ ~Settled(r) /\ r \notin aged
  /\ aged' = aged \cup {r}
  /\ inflight' = inflight \ {r}
  /\ call' = IF call[r].pc = "pending" THEN Put(r, Closed(call[r], "refused")) ELSE call
  /\ UNCHANGED <<prov, conn, owner, record, wallet, approved, waived>>

-----------------------------------------------------------------------------
(* Responses *)

\* handleJsonRpcResponse() for a call of this page.  A list of accounts is
\* provisional until authorizeAccounts() has persisted it.
RespondPending(p, r) ==
  LET m == call[r].m IN
  /\ call[r].pc = "pending" /\ call[r].page = p
  /\ \/ /\ m.type = "accounts"
        /\ \E a \in Accounts :
             /\ call' = Put(r, [call[r] EXCEPT !.pc = "authorizing", !.prev = conn[p].account])
             /\ conn' = [conn EXCEPT ![p].account = a]
             /\ approved' = approved \cup {<<conn[p].pairing, a>>}
        /\ UNCHANGED inflight
     \/ /\ m.type # "accounts"
        /\ m.type = "switch" => m.chain = conn[p].chain
        /\ call' = Put(r, Closed(call[r], "answered"))
        /\ inflight' = inflight \ {r}
        /\ UNCHANGED <<conn, approved>>
     \/ \* an error, a malformed list, a switch the wallet did not make
        /\ call' = Put(r, Closed(call[r], "refused"))
        /\ inflight' = inflight \ {r}
        /\ UNCHANGED <<conn, approved>>
  /\ UNCHANGED prov

\* handleJsonRpcResponse() for a call of an earlier page: every outcome but the
\* approval of accounts is reported at once.
RespondOrphan(p, r) ==
  /\ ~(call[r].pc = "pending" /\ call[r].page = p)
  /\ r \in prov[p].orphans
  /\ prov' = [prov EXCEPT ![p].orphans = @ \ {r}]
  /\ inflight' = inflight \ {r}
  /\ \/ /\ call[r].m.type = "accounts"
        /\ \E a \in Accounts :
             /\ call' = Put(r, [call[r] EXCEPT !.pc = "authorizing", !.page = p,
                                  !.late = TRUE, !.prev = conn[p].account])
             /\ conn' = [conn EXCEPT ![p].account = a]
             /\ approved' = approved \cup {<<conn[p].pairing, a>>}
     \/ /\ call' = Put(r, Closed(call[r], "late"))
        /\ UNCHANGED <<conn, approved>>

RespondUnknown(p, r) ==
  /\ ~(call[r].pc = "pending" /\ call[r].page = p)
  /\ r \notin prov[p].orphans
  /\ UNCHANGED <<prov, conn, inflight, call, approved>>

\* The wallet answers a call once, in the pairing it was sent in.
Response(p, r) ==
  /\ call[r].sent # 0 /\ r \notin replied
  /\ call[r].sent \in open /\ conn[p].pairing = call[r].sent
  /\ RespondPending(p, r) \/ RespondOrphan(p, r) \/ RespondUnknown(p, r)
  /\ replied' = replied \cup {r}
  /\ UNCHANGED <<owner, record, aged, open, pairings, waived>>

Outcome(r, pc) ==
  Put(r, Closed(call[r], IF call[r].late THEN "late" ELSE pc))

\* authorizeAccounts() resumes: the accounts are persisted, or the session is
\* no longer the one that was approved.
AuthorizeSettles(p, r) ==
  /\ call[r].page = p
  /\ \/ /\ call[r].pc = "authorizing" /\ conn[p].pairing = call[r].sent
        /\ record' = [record EXCEPT !.account = conn[p].account, !.chain = conn[p].chain]
        /\ call' = Outcome(r, "answered")
     \/ /\ call[r].pc \in {"authorizing", "failing"} /\ conn[p].pairing # call[r].sent
        /\ call' = Outcome(r, "refused")
        /\ UNCHANGED record
  /\ inflight' = inflight \ {r}
  /\ UNCHANGED <<prov, conn, owner, aged, wallet, approved, waived>>

\* The accounts cannot be persisted: they are taken back, and the session is
\* about to be torn down.
AuthorizeFails(p, r) ==
  /\ call[r].pc = "authorizing" /\ call[r].page = p
  /\ conn[p].pairing = call[r].sent
  /\ conn' = [conn EXCEPT ![p].account = call[r].prev]
  /\ call' = Put(r, [call[r] EXCEPT !.pc = "failing"])
  /\ UNCHANGED <<prov, owner, record, inflight, aged, wallet, approved, waived>>

-----------------------------------------------------------------------------
(* Cancellation and the lifecycle *)

Cancelled(p) == {r \in Of(p) : call[r].pc \in {"pending", "queued"}}

\* The pending and the queued calls are refused; requestGeneration moves on, so
\* that no other call of the page is current any more.
Cancel(p) ==
  call' = [r \in Calls |-> CASE r \in Cancelled(p) -> Closed(call[r], "refused")
                             [] r \in Of(p) \ Cancelled(p) -> [call[r] EXCEPT !.current = FALSE]
                             [] OTHER -> call[r]]

\* Mutant: the persisted record of a cancelled call is left behind.
CancelKeepingRecords(p) ==
  /\ Cancel(p)
  /\ prov' = [prov EXCEPT ![p].queue = <<>>]
  /\ UNCHANGED inflight

\* cancelAllRequests()
CancelAllRequests(p) ==
  /\ Cancel(p)
  /\ prov' = [prov EXCEPT ![p].queue = <<>>]
  /\ inflight' = inflight \ Cancelled(p)

\* "connection_lost": the socket failed too often, the pairing is kept.
ConnectionLost(p) ==
  /\ conn[p].link \in Established
  /\ conn' = [conn EXCEPT ![p].link = "away"]
  /\ CancelAllRequests(p)
  /\ UNCHANGED <<owner, record, aged, wallet, approved, waived>>

\* cancelAllRequests() and clearAllInflight()
CancelAndForget(p, transition) ==
  /\ Cancel(p)
  /\ prov' = [prov EXCEPT ![p].queue = <<>>, ![p].orphans = {},
                          ![p].transition = transition]
  /\ inflight' = {}

\* "session_terminated": the wallet, the relay or a failure ended the pairing.
SessionTerminated(p) ==
  /\ conn[p].link \in Established \cup {"offered"}
  /\ CancelAndForget(p, prov[p].transition)
  /\ conn' = [conn EXCEPT ![p] = Unlinked(conn[p].chain)]
  /\ record' = NoRecord
  /\ owner' = None
  /\ open' = open \ {conn[p].pairing}
  /\ UNCHANGED <<aged, pairings, replied, approved, waived>>

\* getConnectionURI(), newConnection() and disconnect(), up to their await.
\* A page that another page keeps from the session gives nothing up.
BeginTransition(p, t) ==
  /\ prov[p].loaded /\ prov[p].transition = "none"
  /\ CancelAndForget(p, t)
  /\ waived' = IF owner \in {p, None} THEN {r \in Calls : call[r].pc = "gone"} ELSE waived
  /\ UNCHANGED <<conn, owner, record, aged, wallet, approved>>

\* The connection manager closes the channel and forgets the session.  The URI
\* needs the lock first, and a channel has one dApp participant.
Retire(p) ==
  /\ prov[p].transition \in {"uri", "new", "disconnect"}
  /\ prov[p].transition = "uri" => owner \in {p, None}
  /\ \A q \in Pages \ {p} : conn[q].link \notin {"waiting", "connected"}
  /\ conn' = [conn EXCEPT ![p] = Unlinked(conn[p].chain)]
  /\ IF conn[p].link = "none"
       THEN UNCHANGED <<record, open>>
       ELSE record' = NoRecord /\ open' = open \ {PairingSeen(p)}
  /\ owner' = CASE prov[p].transition = "disconnect" /\ owner = p -> None
                [] prov[p].transition = "uri" -> p
                [] OTHER -> owner
  /\ prov' = [prov EXCEPT ![p].transition = IF @ = "disconnect" THEN "none" ELSE "fresh"]
  /\ UNCHANGED <<inflight, call, aged, pairings, replied, approved, waived>>

\* The channel of the new pairing is joined and its URI handed out.
OfferURI(p) ==
  /\ prov[p].transition = "fresh"
  /\ owner \in {p, None}
  /\ owner' = p
  /\ record' = NoRecord
  /\ conn' = [conn EXCEPT ![p] = [Unlinked(conn[p].chain) EXCEPT !.link = "offered"]]
  /\ prov' = [prov EXCEPT ![p].transition = "none"]
  /\ UNCHANGED <<inflight, call, aged, wallet, approved, waived>>

\* The promise rejects: the lock is elsewhere, the old channel cannot be retired
\* (the session then goes on), or the new one cannot be joined.
TransitionFails(p) ==
  /\ prov[p].transition # "none"
  /\ prov' = [prov EXCEPT ![p].transition = "none"]
  /\ owner' \in CASE prov[p].transition = "fresh" /\ owner = p -> {None}
                  [] prov[p].transition = "uri" /\ owner = None -> {None, p}
                  [] OTHER -> {owner}
  /\ UNCHANGED <<conn, record, inflight, call, aged, wallet, approved, waived>>

-----------------------------------------------------------------------------
(* The connection manager between the provider's calls *)

Pair(p) ==
  /\ conn[p].link = "offered" /\ pairings < MaxPairings
  /\ pairings' = pairings + 1
  /\ open' = open \cup {pairings + 1}
  /\ conn' = [conn EXCEPT ![p].link = "connected", ![p].pairing = pairings + 1]
  /\ record' = [pairing |-> pairings + 1, account |-> None, chain |-> conn[p].chain]
  /\ UNCHANGED <<prov, owner, inflight, call, aged, replied, approved, waived>>

\* reconnect() hydrates the stored session, or finds that there is none left.
Restore(p) ==
  /\ conn[p].link = "restorable" /\ owner \in {p, None}
  /\ IF record = NoRecord
       THEN /\ conn' = [conn EXCEPT ![p] = Unlinked(conn[p].chain)]
            /\ owner' = None
       ELSE /\ conn' = [conn EXCEPT ![p] = [link |-> "away", pairing |-> record.pairing,
                                account |-> record.account, chain |-> record.chain]]
            /\ owner' = p
  /\ UNCHANGED <<prov, record, inflight, call, aged, wallet, approved, waived>>

\* The socket joins and drops, the wallet comes and goes.
LinkMoves(p, l) ==
  /\ conn[p].link \in Established /\ l \in Established \ {conn[p].link}
  /\ l # "away" => conn[p].pairing \in open
  /\ conn' = [conn EXCEPT ![p].link = l]
  /\ UNCHANGED <<prov, owner, record, inflight, call, aged, wallet, approved, waived>>

\* Mutant: what the wallet reports is taken for an approval.
WalletInfoGrants(p, a, c) ==
  /\ conn[p].link \in Established /\ conn[p].pairing \in open
  /\ conn' = [conn EXCEPT ![p].account = a, ![p].chain = c]
  /\ UNCHANGED <<prov, owner, record, inflight, call, aged, wallet, approved, waived>>

\* WALLET_INFO may take an authorization away, never give one.
WalletInfo(p, a, c) ==
  /\ conn[p].link \in Established /\ conn[p].pairing \in open
  /\ conn' = [conn EXCEPT ![p].account = IF a = @ THEN @ ELSE None, ![p].chain = c]
  /\ conn' # conn
  /\ UNCHANGED <<prov, owner, record, inflight, call, aged, wallet, approved, waived>>

\* Every frame that is sent or received stores the session as it then is.
Checkpoint(p) ==
  /\ conn[p].pairing # 0 /\ owner = p
  /\ record' = [pairing |-> conn[p].pairing, account |-> conn[p].account, chain |-> conn[p].chain]
  /\ record' # record
  /\ UNCHANGED <<prov, conn, owner, inflight, call, aged, wallet, approved, waived>>

-----------------------------------------------------------------------------
(* Pages *)

\* Mutant: reading the records takes them out of the storage.
LoadConsuming(p) ==
  /\ ~prov[p].loaded
  /\ prov' = [prov EXCEPT ![p].loaded = TRUE, ![p].orphans = inflight]
  /\ conn' = [conn EXCEPT ![p] =
       IF record = NoRecord THEN Unlinked(@.chain)
       ELSE [link |-> "restorable", pairing |-> 0, account |-> record.account,
             chain |-> record.chain]]
  /\ inflight' = {}
  /\ UNCHANGED <<owner, record, call, aged, wallet, approved, waived>>

\* The constructors of the provider and of its connection manager.
Load(p) ==
  /\ ~prov[p].loaded
  /\ prov' = [prov EXCEPT ![p].loaded = TRUE, ![p].orphans = inflight]
  /\ conn' = [conn EXCEPT ![p] =
       IF record = NoRecord THEN Unlinked(@.chain)
       ELSE [link |-> "restorable", pairing |-> 0, account |-> record.account,
             chain |-> record.chain]]
  /\ UNCHANGED <<owner, record, inflight, call, aged, wallet, approved, waived>>

\* The page is closed, or left for the wallet: its callers are gone.
Unload(p) ==
  /\ prov[p].loaded
  /\ prov' = [prov EXCEPT ![p] = Unloaded]
  /\ conn' = [conn EXCEPT ![p] = Unlinked(@.chain)]
  /\ owner' = IF owner = p THEN None ELSE owner
  /\ call' = [r \in Calls |-> IF r \in Of(p) THEN Closed(call[r], "gone") ELSE call[r]]
  /\ UNCHANGED <<record, inflight, aged, wallet, approved, waived>>

Next ==
  \/ \E p \in Pages, r \in Calls, m \in Methods : Request(p, r, m)
  \/ \E p \in Pages, r \in Calls :
       \/ JoinSettles(p, r)
       \/ SendFails(p, r)
       \/ Response(p, r)
       \/ AuthorizeSettles(p, r)
       \/ AuthorizeFails(p, r)
  \/ \E r \in Calls : Expire(r)
  \/ \E p \in Pages :
       \/ FinishRestricted(p)
       \/ ConnectionLost(p)
       \/ SessionTerminated(p)
       \/ Retire(p)
       \/ OfferURI(p)
       \/ TransitionFails(p)
       \/ Pair(p)
       \/ Restore(p)
       \/ Checkpoint(p)
       \/ Load(p)
       \/ Unload(p)
  \/ \E p \in Pages, t \in {"uri", "new", "disconnect"} : BeginTransition(p, t)
  \/ \E p \in Pages, l \in Established : LinkMoves(p, l)
  \/ \E p \in Pages, a \in Accounts \cup {None}, c \in Chains : WalletInfo(p, a, c)

Spec == Init /\ [][Next]_vars

\* Promise reactions run, joins and exports settle, timers fire and a session
\* that cannot be persisted is torn down.  Nothing is assumed of the wallet, of
\* the application or of the link.
Fairness ==
  /\ \A p \in Pages :
       /\ WF_vars(FinishRestricted(p))
       /\ WF_vars(SessionTerminated(p) /\ \E r \in Calls : call[r].pc = "failing" /\ call[r].page = p)
       /\ \A r \in Calls :
            /\ WF_vars(JoinSettles(p, r))
            /\ WF_vars(AuthorizeSettles(p, r) \/ AuthorizeFails(p, r))
  /\ \A r \in Calls : WF_vars(Expire(r))

FairSpec == Spec /\ Fairness

-----------------------------------------------------------------------------
(* Properties *)

TabType ==
  [loaded : BOOLEAN, transition : {"none", "uri", "new", "disconnect", "fresh"},
   turn : 0 .. MaxCalls, queue : Seq(Calls), orphans : SUBSET Calls]

LinkType ==
  [link : {"none", "offered", "restorable"} \cup Established, pairing : 0 .. MaxPairings,
   account : Accounts \cup {None}, chain : Chains]

RecordType ==
  [pairing : 0 .. MaxPairings, account : Accounts \cup {None}, chain : Chains \cup {None}]

CallType ==
  [pc : {"free", "answered", "refused", "late", "gone"} \cup Open,
   page : Pages \cup {None}, m : Methods \cup {None}, current : BOOLEAN, made : 0 .. MaxPairings,
   sent : 0 .. MaxPairings, prev : Accounts \cup {None}, late : BOOLEAN]

\* Every variable has its type.
TypeOK ==
  /\ prov \in [Pages -> TabType]
  /\ conn \in [Pages -> LinkType]
  /\ owner \in Pages \cup {None}
  /\ record \in RecordType
  /\ inflight \subseteq Calls /\ aged \subseteq Calls /\ replied \subseteq Calls
  /\ waived \subseteq Calls
  /\ call \in [Calls -> CallType]
  /\ open \subseteq Pairings /\ pairings \in 0 .. MaxPairings
  /\ approved \subseteq Pairings \X Accounts

\* enqueueRestrictedRequest(), "Keep at most one approval-bound request active":
\* of the calls of a page, one at a time is on its way to an approval.
ApprovalsOneAtATime ==
  \A p \in Pages : \A q, r \in Of(p) :
    /\ Restricted(q) /\ ~call[q].late /\ call[q].pc # "queued"
    /\ Restricted(r) /\ ~call[r].late /\ call[r].pc # "queued"
    => q = r

\* requestGeneration, "could miss that request and let it cross into a later
\* channel": a call made in one pairing is never sent in another.
NoCrossing ==
  \A r \in Calls : call[r].sent # 0 => call[r].made \in {0, call[r].sent}

\* getAccounts() and validateRestrictedRequest(): the wallet is asked to sign
\* only for accounts that it approved in this pairing, whatever it reports,
\* whatever was stored, whichever call was waiting.
SignedForApproved ==
  \A r \in Calls :
    call[r].sent # 0 /\ call[r].m.type = "sign"
      => <<call[r].sent, call[r].m.account>> \in approved

\* A call that the page was reloaded away from, and that the wallet may still
\* answer.
Awaited(r) ==
  /\ call[r].pc = "gone" /\ Restricted(r)
  /\ call[r].sent \in open
  /\ r \notin replied \cup aged \cup waived

\* persistInflight(), "cannot orphan the wallet's answer": the records outlive
\* any number of reloads, for as long as the application keeps the pairing.
AnswersAreKept ==
  \A r \in Calls : Awaited(r) =>
    /\ r \in inflight
    /\ \A p \in Pages : prov[p].loaded => r \in prov[p].orphans

\* persistInflight() of the records alone, where several pages share them: when
\* no page is about to give the pairing up, an awaited call has its record.
RecordsAreKept ==
  (\A p \in Pages : prov[p].transition = "none")
    => \A r \in Calls : Awaited(r) => r \in inflight

\* settleInflight(): a call that was answered, refused or reported late is not
\* reported again, by this page or by a later one.
NoSecondAnswer == [][\A r \in Calls : Settled(r) => UNCHANGED call[r]]_vars

\* Every call of request() is settled, unless its page goes away first: no
\* lost answer, cancellation or lifecycle transition strands it, or the queue.
EveryCallSettles ==
  \A r \in Calls : call[r].pc \in Open ~> call[r].pc \notin Open
=============================================================================
