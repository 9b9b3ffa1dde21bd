-------------------------- MODULE ExtensionSession --------------------------
(***************************************************************************)
(* ui/src/extension.ts: createExtensionSession(), the session of a page    *)
(* with an injected wallet, and the wallet behind it.                      *)
(*                                                                         *)
(* A generation is not numbered: a request is "current" until retire() or  *)
(* the end of a revocation, a probe also until the next accounts event.    *)
(* The wallet delivers its events in order and its replies at any time.    *)
(* It announces every change of the accounts that the page may see, as     *)
(* EIP-1193 asks and the mock of ui/test/extension.test.ts does.           *)
(***************************************************************************)
EXTENDS Naturals, Sequences

CONSTANTS
  Calls,      \* concurrent calls of connect(), restore() and disconnect()
  Accounts,   \* account lists that are not empty
  None,
  MaxEvents   \* bound on the events on their way when the wallet changes

ASSUME ExtensionSessionAssumption ==
  /\ None \notin Calls \cup Accounts
  /\ MaxEvents \in Nat

VARIABLES
  state,      \* status, accounts, chainId and intent
  run,        \* the closure of start(): latestAccounts, awaitingReply ...
  flight, queued, closing,   \* PendingRequest, or NoRequest
  subscribed, disposed,
  calls,      \* the request whose promise a call waits for, named by its caller
  requests,   \* of the provider, whose outcome may still matter
  events,     \* accountsChanged events on their way
  wallet,     \* locked, and the accounts granted to this origin
  wanted      \* history: the last call asked for a session

slots == <<flight, queued, closing>>
vars == <<state, run, slots, subscribed, disposed, calls, requests, events, wallet, wanted>>

NoRequest == [op |-> None, by |-> None]

\* Lists of accounts: none, "invalid" or a member of Accounts.
Lists == Accounts \cup {"empty"}
Refusals == {"denied", "rejected", "failed", "invalid"}   \* 4100, 4001, others

\* A list of accounts is not the mark of something else.
ASSUME ListsAssumption ==
  /\ None # "empty"
  /\ \A a \in Lists : a \notin Refusals \cup {"due", "asked", "done"}
  /\ "empty" \notin Accounts

Sessions ==
  [status : {"idle", "pending", "connected", "locked", "rejected", "error", "disconnecting",
             "disconnected"},
   accounts : Lists, chain : BOOLEAN, intent : BOOLEAN]
Closures ==
  [op : {"connect", "restore"}, latest : Lists \cup {None}, revised : BOOLEAN,
   awaiting : BOOLEAN]
Pending(ops) == [op : ops, by : Calls] \cup {NoRequest}
Outcomes == {"due", "asked", "done"} \cup Lists \cup Refusals
Requests ==
  [op : {"connect", "restore", "probe", "disconnect"}, current : BOOLEAN, reply : Outcomes]

TypeOK ==
  /\ state \in Sessions
  /\ run \in Closures
  /\ flight \in Pending({"connect", "restore"})
  /\ queued \in Pending({"connect", "restore"})
  /\ closing \in Pending({"disconnect"})
  /\ subscribed \in BOOLEAN /\ disposed \in BOOLEAN /\ wanted \in BOOLEAN
  /\ calls \in [Calls -> Calls \cup {None}]
  /\ requests \subseteq Requests
  /\ events \in Seq(Lists \cup {"invalid"})
  /\ wallet \in [locked : BOOLEAN, grant : Accounts \cup {None}]

Init ==
  /\ state = [status |-> "idle", accounts |-> "empty", chain |-> FALSE, intent |-> FALSE]
  /\ run = [op |-> "restore", latest |-> None, revised |-> FALSE, awaiting |-> TRUE]
  /\ flight = NoRequest /\ queued = NoRequest /\ closing = NoRequest
  /\ subscribed = FALSE /\ disposed = FALSE
  /\ calls = [c \in Calls |-> None]
  /\ requests = {}
  /\ events = <<>>
  /\ wallet \in [locked : BOOLEAN, grant : Accounts \cup {None}]
  /\ wanted = FALSE

-----------------------------------------------------------------------------
Request(op, reply) == [op |-> op, current |-> TRUE, reply |-> reply]

\* What a retired request may still do is to reach the wallet: an open prompt,
\* a revocation that was not sent yet.
Outdated(rs) ==
  {[r EXCEPT !.current = FALSE] :
     r \in {r \in rs : \/ r.op = "connect" /\ r.reply = "asked"
                       \/ r.op = "disconnect" /\ r.reply \in {"due", "asked"}}}

\* The promises of these requests settle.
Settled(ids) == [c \in Calls |-> IF calls[c] \in ids THEN None ELSE calls[c]]

\* Promise reactions run before the next event, reply or timer.
QueuedDue == queued # NoRequest /\ closing = NoRequest
TasksRun == ~QueuedDue /\ \A r \in requests : r.reply # "due"

Ended(s) == [status |-> s, accounts |-> "empty", chain |-> FALSE, intent |-> FALSE]

\* retire() with the state that fail(), end() or dispose() shows
Retired(s) ==
  /\ state' = Ended(s)
  /\ requests' = Outdated(requests)
  /\ flight' = NoRequest /\ queued' = NoRequest
  /\ subscribed' = FALSE
  /\ calls' = Settled({flight.by, queued.by} \ {None})

Apply(list) ==
  state' = [state EXCEPT !.status = IF list = "empty" THEN "locked" ELSE "connected",
                         !.accounts = list]

-----------------------------------------------------------------------------
(* Calls of the application *)

\* start() without a revocation under way: listeners, then the request
Begin(op, id, waiting) ==
  /\ flight' = [op |-> op, by |-> id]
  /\ queued' = NoRequest
  /\ run' = [op |-> op, latest |-> None, revised |-> FALSE, awaiting |-> TRUE]
  /\ subscribed' = TRUE
  /\ state' = [Ended("pending") EXCEPT !.intent = TRUE]
  /\ requests' = Outdated(requests) \cup {Request(op, "due")}
  /\ calls' = waiting

MayCall(c) == ~disposed /\ calls[c] = None

\* connect() takes the place of a restore() that is under way.
Start(c, op) ==
  /\ MayCall(c) /\ closing = NoRequest
  /\ flight = NoRequest \/ (flight.op = "restore" /\ op = "connect")
  /\ \/ Begin(op, c, [Settled({flight.by, queued.by} \ {None}) EXCEPT ![c] = c])
     \/ Retired("error") /\ UNCHANGED run      \* the provider takes no listener
  /\ wanted' = TRUE
  /\ UNCHANGED <<closing, disposed, events, wallet>>

StartShared(c, op) ==
  /\ MayCall(c) /\ closing = NoRequest
  /\ flight.op = "connect" \/ (flight.op = "restore" /\ op = "restore")
  /\ calls' = [calls EXCEPT ![c] = flight.by]
  /\ wanted' = TRUE
  /\ UNCHANGED <<state, run, slots, subscribed, disposed, requests, events, wallet>>

\* During a revocation one call is queued, connect() before restore().
StartQueued(c, op) ==
  /\ MayCall(c) /\ closing # NoRequest
  /\ IF queued.op = "connect" \/ (queued.op = "restore" /\ op = "restore")
       THEN calls' = [calls EXCEPT ![c] = queued.by] /\ UNCHANGED queued
       ELSE /\ queued' = [op |-> op, by |-> c]
            /\ calls' = [Settled({queued.by} \ {None}) EXCEPT ![c] = c]
  /\ wanted' = TRUE
  /\ UNCHANGED <<state, run, flight, closing, subscribed, disposed, requests, events,
                 wallet>>

\* The provider may refuse the listeners now as well.
QueuedStarts ==
  /\ QueuedDue
  /\ \/ Begin(queued.op, queued.by, calls)
     \/ Retired("error") /\ UNCHANGED run
  /\ UNCHANGED <<closing, disposed, events, wallet, wanted>>

Disconnect(c) ==
  /\ MayCall(c) /\ closing = NoRequest
  /\ closing' = [op |-> "disconnect", by |-> c]
  /\ flight' = NoRequest /\ queued' = NoRequest
  /\ subscribed' = FALSE
  /\ state' = Ended("disconnecting")
  /\ requests' = Outdated(requests) \cup {Request("disconnect", "due")}
  /\ calls' = [Settled({flight.by, queued.by} \ {None}) EXCEPT ![c] = c]
  /\ wanted' = FALSE
  /\ UNCHANGED <<run, disposed, events, wallet>>

\* Mutant: a second disconnect() leaves the queued call to start later.
DisconnectKeepsQueue(c) ==
  /\ MayCall(c) /\ closing # NoRequest
  /\ calls' = [calls EXCEPT ![c] = closing.by]
  /\ wanted' = FALSE
  /\ UNCHANGED <<state, run, slots, subscribed, disposed, requests, events, wallet>>

\* A second disconnect() drops the queued call and shares the promise.
DisconnectAgain(c) ==
  /\ MayCall(c) /\ closing # NoRequest
  /\ queued' = NoRequest
  /\ calls' = [Settled({queued.by} \ {None}) EXCEPT ![c] = closing.by]
  /\ wanted' = FALSE
  /\ UNCHANGED <<state, run, flight, closing, subscribed, disposed, requests, events,
                 wallet>>

\* Mutant: the calls that wait for a revocation are left behind.
DisposeUnsettled ==
  /\ ~disposed
  /\ disposed' = TRUE
  /\ Retired("disconnected")
  /\ closing' = NoRequest
  /\ wanted' = FALSE
  /\ UNCHANGED <<run, events, wallet>>

Dispose ==
  /\ ~disposed
  /\ disposed' = TRUE
  /\ state' = Ended("disconnected")
  /\ requests' = Outdated(requests)
  /\ flight' = NoRequest /\ queued' = NoRequest /\ closing' = NoRequest
  /\ subscribed' = FALSE
  /\ calls' = Settled({flight.by, queued.by, closing.by} \ {None})
  /\ wanted' = FALSE
  /\ UNCHANGED <<run, events, wallet>>

-----------------------------------------------------------------------------
(* Replies and timers *)

\* The request, or revoke(), leaves in a promise reaction.
Asks(r) ==
  /\ r.reply = "due"
  /\ requests' = (requests \ {r}) \cup {[r EXCEPT !.reply = "asked"]}
  /\ UNCHANGED <<state, run, slots, subscribed, disposed, calls, events, wallet, wanted>>

Answered(r) == r.current /\ r.reply \notin {"due", "asked"} /\ TasksRun

\* A reply in flight of a probe whose accounts wait for the approval
Waits == run.op = "connect" /\ run.awaiting

\* Mutant: the reply wins over what an event has said since.
ReplyWins(r) ==
  /\ r.op \in {"connect", "restore"} /\ Answered(r) /\ r.reply \in Lists
  /\ Apply(r.reply)
  /\ run' = [run EXCEPT !.awaiting = FALSE]
  /\ flight' = NoRequest
  /\ calls' = Settled({flight.by})
  /\ requests' = requests \ {r}
  /\ UNCHANGED <<queued, closing, subscribed, disposed, events, wallet, wanted>>

\* The most recent event wins over the reply, whatever that says.
Replied(r) ==
  /\ r.op \in {"connect", "restore"} /\ Answered(r)
  /\ r.reply \in Lists \/ (r.reply = "invalid" /\ run.latest # None)
  /\ Apply(IF run.latest # None THEN run.latest ELSE r.reply)
  /\ run' = [run EXCEPT !.awaiting = FALSE]
  /\ flight' = NoRequest
  /\ calls' = Settled({flight.by})
  /\ requests' = requests \ {r}
  /\ UNCHANGED <<queued, closing, subscribed, disposed, events, wallet, wanted>>

\* A restore() that an event has overtaken only settles.
RestoreOvertaken(r) ==
  /\ r.op = "restore" /\ Answered(r)
  /\ r.reply \in Refusals \ {"invalid"} /\ run.revised
  /\ flight' = NoRequest
  /\ calls' = Settled({flight.by})
  /\ requests' = requests \ {r}
  /\ UNCHANGED <<state, run, queued, closing, subscribed, disposed, events, wallet, wanted>>

Refused(r) ==
  /\ r.op \in {"connect", "restore"} /\ Answered(r)
  /\ r.reply \in Refusals /\ (r.reply = "invalid" => run.latest = None)
  /\ r.op = "restore" => ~run.revised
  /\ Retired(IF r.op = "restore" /\ r.reply = "denied" THEN "disconnected"
             ELSE IF r.op = "connect" /\ r.reply = "rejected" THEN "rejected" ELSE "error")
  /\ UNCHANGED <<run, closing, disposed, events, wallet, wanted>>

\* probeEmptyAccounts(): only a missing grant ends the session.
Probed(r) ==
  /\ r.op = "probe" /\ Answered(r)
  /\ \/ /\ r.reply \in Lists
        /\ run' = [run EXCEPT !.latest = r.reply]
        /\ IF Waits THEN UNCHANGED state ELSE Apply(r.reply)
        /\ requests' = requests \ {r}
        /\ UNCHANGED <<flight, queued, subscribed, calls>>
     \/ r.reply = "denied" /\ Retired("disconnected") /\ UNCHANGED run
     \/ /\ r.reply \in Refusals \ {"denied"}
        /\ requests' = requests \ {r}
        /\ UNCHANGED <<state, run, flight, queued, subscribed, calls>>
  /\ UNCHANGED <<closing, disposed, events, wallet, wanted>>

\* finish(): the reply of the wallet or the deadline, whichever is first
Finish ==
  /\ state' = [state EXCEPT !.status = "disconnected"]
  /\ closing' = NoRequest
  /\ calls' = Settled({closing.by})
  /\ requests' = Outdated(requests)
  /\ UNCHANGED <<run, flight, queued, subscribed, disposed, events, wallet, wanted>>

Revoked == \E r \in requests : r.op = "disconnect" /\ Answered(r) /\ Finish

Deadline == closing # NoRequest /\ TasksRun /\ Finish

-----------------------------------------------------------------------------
(* Events *)

Probes(rs) == {r \in rs : r.op = "probe"}

\* An event without a listener is lost.
AccountsChanged ==
  /\ events # <<>> /\ TasksRun
  /\ events' = Tail(events)
  /\ LET list == Head(events)
     IN  \/ ~subscribed /\ UNCHANGED <<state, run, flight, queued, subscribed, calls, requests>>
         \/ subscribed /\ list = "invalid" /\ Retired("error") /\ UNCHANGED run
         \/ /\ subscribed /\ list # "invalid"
            /\ run' = [run EXCEPT !.latest = list, !.revised = TRUE]
            /\ IF Waits THEN UNCHANGED state ELSE Apply(list)
            /\ requests' = (requests \ Probes(requests))
                 \cup {r \in {Request("probe", "asked")} : list = "empty"}
            /\ UNCHANGED <<flight, queued, subscribed, calls>>
  /\ UNCHANGED <<closing, disposed, wallet, wanted>>

ChainChanged ==
  /\ subscribed /\ TasksRun
  /\ \/ /\ state' = [state EXCEPT !.chain = TRUE]
        /\ UNCHANGED <<flight, queued, subscribed, calls, requests>>
     \/ Retired("error")                         \* an invalid chain id
  /\ UNCHANGED <<run, closing, disposed, events, wallet, wanted>>

\* A permanent disconnect; code 1013 changes nothing.
Disconnected ==
  /\ subscribed /\ TasksRun
  /\ Retired("disconnected")
  /\ UNCHANGED <<run, closing, disposed, events, wallet, wanted>>

-----------------------------------------------------------------------------
(* The wallet *)

WalletChanges(w, es) ==
  /\ TasksRun /\ Len(events) < MaxEvents
  /\ wallet' = w
  /\ events' = events \o es
  /\ UNCHANGED <<state, run, slots, subscribed, disposed, calls, wanted>>

Visible(w) ==
  IF w.locked THEN "empty" ELSE IF w.grant = None THEN "denied" ELSE w.grant

Shown(w) == IF Visible(w) = "denied" THEN "empty" ELSE Visible(w)

\* An event for every change of what the page may see
News(w) == IF Shown(w) # Shown(wallet) THEN <<Shown(w)>> ELSE <<>>

\* The user locks, unlocks, changes the account or takes the grant away.
UserActs ==
  \E w \in [locked : BOOLEAN, grant : Accounts \cup {None}] :
    /\ w # wallet /\ (wallet.grant = None => w.grant = None)
    /\ WalletChanges(w, News(w))
    /\ UNCHANGED requests

InvalidEvent == WalletChanges(wallet, <<"invalid">>) /\ UNCHANGED requests

\* A reply to a retired request is ignored; what it did to the grant stays.
Replies(r, reply) ==
  requests' = (requests \ {r}) \cup {q \in {[r EXCEPT !.reply = reply]} : r.current}

Queried(r) ==
  /\ r.op \in {"restore", "probe"} /\ r.reply = "asked"
  /\ \E reply \in {Visible(wallet), "failed", "invalid"} : Replies(r, reply)
  /\ WalletChanges(wallet, <<>>)

\* qrl_requestAccounts waits for the unlock and, without a grant, for the user.
Approved(r) ==
  /\ r.op = "connect" /\ r.reply = "asked" /\ ~wallet.locked
  /\ \E a \in Accounts :
       /\ wallet.grant \in {None, a}
       /\ LET w == [wallet EXCEPT !.grant = a] IN WalletChanges(w, News(w))
       /\ Replies(r, a)

Declined(r) ==
  /\ r.op = "connect" /\ r.reply = "asked"
  /\ \E reply \in Refusals : Replies(r, reply)
  /\ WalletChanges(wallet, <<>>)

\* wallet_revokePermissions, done or refused
Revokes(r) ==
  /\ r.op = "disconnect" /\ r.reply = "asked"
  /\ Replies(r, "done")
  /\ \/ LET w == [wallet EXCEPT !.grant = None] IN WalletChanges(w, News(w))
     \/ WalletChanges(wallet, <<>>)

-----------------------------------------------------------------------------
Application ==
  \/ \E c \in Calls, op \in {"connect", "restore"} :
       Start(c, op) \/ StartShared(c, op) \/ StartQueued(c, op)
  \/ \E c \in Calls : Disconnect(c) \/ DisconnectAgain(c)
  \/ Dispose

Reactions ==
  \/ QueuedStarts
  \/ \E r \in requests : Asks(r)

Answers ==
  \E r \in requests : Replied(r) \/ RestoreOvertaken(r) \/ Refused(r)

Wallet ==
  \/ UserActs
  \/ InvalidEvent
  \/ \E r \in requests : Queried(r) \/ Approved(r) \/ Declined(r) \/ Revokes(r)

Next ==
  \/ Application
  \/ Reactions
  \/ Answers
  \/ \E r \in requests : Probed(r)
  \/ Revoked
  \/ Deadline
  \/ AccountsChanged
  \/ ChainChanged
  \/ Disconnected
  \/ Wallet

Spec == Init /\ [][Next]_vars

\* Promise reactions run, a reply arrives, the deadline passes.  Nothing is
\* asked of the wallet.
Fairness ==
  /\ WF_vars(Reactions)
  /\ WF_vars(Answers)
  /\ WF_vars(Deadline)

FairSpec == Spec /\ Fairness

-----------------------------------------------------------------------------
(* Properties *)

\* There is a session only if the last call asked for one: no event, late
\* reply or queued call brings back what disconnect(), dispose() or a failure
\* has ended; and only a session has listeners and shows accounts.
NoGhostSession ==
  /\ state.intent => wanted /\ ~disposed /\ closing = NoRequest
  /\ state.intent <=> state.status \in {"pending", "connected", "locked"}
  /\ state.intent <=> subscribed
  /\ state.accounts # "empty" <=> state.status = "connected"

\* When every announcement of the wallet has arrived, the session shows what the
\* wallet shows: never an older account, never a lock that is over, whatever
\* events, probes and replies overtook each other or are still under way.
ShownIsCurrent ==
  events = <<>> =>
    /\ state.status = "connected" => Visible(wallet) = state.accounts
    /\ state.status = "locked" => Visible(wallet) \notin Accounts

\* A call waits for a promise that a pending request will settle.
Held == \A c \in Calls : calls[c] \in {None, flight.by, queued.by, closing.by}

\* A prompt is open, and stays open for as long as the user likes.
Owed ==
  \E r \in requests : r.current /\ r.op \in {"connect", "restore"} /\ r.reply = "asked"

\* A call ends unless the wallet owes it an answer: disconnect() needs none, and
\* whatever retires a request settles the calls that share it.
CallsSettle == \A c \in Calls : calls[c] # None ~> calls[c] = None \/ Owed
=============================================================================
