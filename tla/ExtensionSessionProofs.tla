---------------------- MODULE ExtensionSessionProofs ----------------------
(***************************************************************************)
(* Theorems about ExtensionSession for every set of calls and of account   *)
(* lists and every number of events on their way.  The argument is the     *)
(* inductive invariant SessionInv, and NewsInv, ViewInv and ReplyInv about *)
(* what is shown; there is one lemma per group of steps.                   *)
(***************************************************************************)
EXTENDS ExtensionSession, TLAPS

USE ExtensionSessionAssumption

\* Whoever may still change the session stands for one that exists.
RequestInv ==
  \A r \in requests : r.current => IF r.op = "disconnect" THEN closing # NoRequest
                                                          ELSE state.intent

\* A call queued behind a revocation asks for a session, and is alone.
SlotInv ==
  /\ queued # NoRequest => wanted /\ ~disposed
  /\ closing # NoRequest \/ queued # NoRequest => flight = NoRequest

SessionInv ==
  /\ TypeOK
  /\ NoGhostSession
  /\ RequestInv
  /\ SlotInv
  /\ Held

LEMMA EndedSession ==
  ASSUME NEW s \in {"pending", "rejected", "error", "disconnecting", "disconnected"}
  PROVE  /\ Ended(s) \in Sessions
         /\ [Ended(s) EXCEPT !.intent = TRUE] \in Sessions
  BY DEF Ended, Sessions, Lists

LEMMA PendingRequests ==
  ASSUME NEW ops
  PROVE  /\ NoRequest \in Pending(ops)
         /\ \A op \in ops, c \in Calls : [op |-> op, by |-> c] \in Pending(ops) \ {NoRequest}
         /\ \A s \in Pending(ops) : s # NoRequest => s.op \in ops /\ s.by \in Calls
  BY DEF Pending, NoRequest

LEMMA EmptySlot ==
  /\ NoRequest \in Pending({"connect", "restore"})
  /\ NoRequest \in Pending({"disconnect"})
  /\ NoRequest.by = None
  BY PendingRequests DEF NoRequest

LEMMA UsedSlot ==
  ASSUME TypeOK
  PROVE  /\ flight # NoRequest => flight.by \in Calls
         /\ queued # NoRequest => queued.by \in Calls /\ queued.op \in {"connect", "restore"}
         /\ closing # NoRequest => closing.by \in Calls
  BY PendingRequests DEF TypeOK

LEMMA NewRequest ==
  ASSUME NEW op \in {"connect", "restore", "probe", "disconnect"}, NEW x \in {"due", "asked"}
  PROVE  /\ Request(op, x) \in Requests
         /\ Request(op, x).op = op
  BY DEF Request, Requests, Outcomes

LEMMA ChangedRequest ==
  ASSUME NEW r \in Requests
  PROVE  /\ [r EXCEPT !.current = FALSE] \in Requests
         /\ ~[r EXCEPT !.current = FALSE].current
         /\ \A x \in Outcomes : /\ [r EXCEPT !.reply = x] \in Requests
                                /\ [r EXCEPT !.reply = x].op = r.op
                                /\ [r EXCEPT !.reply = x].current = r.current
  BY DEF Requests

LEMMA OutdatedRequests ==
  ASSUME TypeOK
  PROVE  /\ Outdated(requests) \subseteq Requests
         /\ \A r \in Outdated(requests) : ~r.current
<1> SUFFICES ASSUME NEW o \in Outdated(requests) PROVE o \in Requests /\ ~o.current
  OBVIOUS
<1>1. PICK r \in requests : o = [r EXCEPT !.current = FALSE]
  BY DEF Outdated
<1>2. QED BY <1>1, ChangedRequest DEF TypeOK

LEMMA SettledCalls ==
  ASSUME TypeOK, NEW S
  PROVE  /\ Settled(S) \in [Calls -> Calls \cup {None}]
         /\ \A c \in Calls : Settled(S)[c] = IF calls[c] \in S THEN None ELSE calls[c]
  BY DEF TypeOK, Settled

LEMMA InitInv == Init => SessionInv
<1> SUFFICES ASSUME Init PROVE SessionInv
  OBVIOUS
<1>1. state \in Sessions /\ run \in Closures
  BY DEF Init, Sessions, Closures, Lists
<1>2. TypeOK
  <2>1. /\ flight \in Pending({"connect", "restore"})
        /\ queued \in Pending({"connect", "restore"})
        /\ closing \in Pending({"disconnect"})
    BY EmptySlot DEF Init
  <2>2. calls \in [Calls -> Calls \cup {None}] /\ requests \subseteq Requests
    BY DEF Init
  <2>3. events \in Seq(Lists \cup {"invalid"})
    BY DEF Init
  <2>4. subscribed \in BOOLEAN /\ disposed \in BOOLEAN /\ wanted \in BOOLEAN
    BY DEF Init
  <2>5. wallet \in [locked : BOOLEAN, grant : Accounts \cup {None}]
    BY DEF Init
  <2>6. QED BY <1>1, <2>1, <2>2, <2>3, <2>4, <2>5 DEF TypeOK
<1>3. NoGhostSession /\ RequestInv /\ SlotInv /\ Held
  BY DEF Init, NoGhostSession, RequestInv, SlotInv, Held
<1>4. QED BY <1>2, <1>3 DEF SessionInv

\* retire() leaves no session and nothing that could bring one back.
LEMMA RetiredInv ==
  ASSUME SessionInv, NEW s \in {"rejected", "error", "disconnected"}, Retired(s),
         run' \in Closures, events' \in Seq(Lists \cup {"invalid"}), wanted' \in BOOLEAN,
         UNCHANGED <<closing, disposed, wallet>>
  PROVE  SessionInv'
<1>1. TypeOK'
  BY EndedSession, EmptySlot, OutdatedRequests, SettledCalls DEF SessionInv, Retired, TypeOK
<1>2. NoGhostSession'
  BY DEF Retired, NoGhostSession, Ended
<1>3. RequestInv' /\ SlotInv'
  BY OutdatedRequests DEF SessionInv, Retired, RequestInv, SlotInv
<1>4. Held'
  BY SettledCalls DEF SessionInv, Held, Retired
<1>5. QED BY <1>1, <1>2, <1>3, <1>4 DEF SessionInv

\* start() without a revocation under way
LEMMA BeginInv ==
  ASSUME SessionInv, NEW op \in {"connect", "restore"}, NEW id \in Calls,
         NEW w \in [Calls -> Calls \cup {None}], \A c \in Calls : w[c] \in {None, id},
         Begin(op, id, w), wanted' = TRUE,
         closing = NoRequest, ~disposed, UNCHANGED <<closing, disposed, events, wallet>>
  PROVE  SessionInv'
<1>1. [op |-> op, by |-> id] \in Pending({"connect", "restore"}) \ {NoRequest}
  BY PendingRequests
<1>2. run' \in Closures
  BY DEF Begin, Closures
<1>3. requests' \subseteq Requests
  BY OutdatedRequests, NewRequest DEF SessionInv, Begin
<1>4. TypeOK'
  BY <1>1, <1>2, <1>3, EndedSession, EmptySlot DEF SessionInv, Begin, TypeOK
<1>5. NoGhostSession'
  BY DEF Begin, NoGhostSession, Ended
<1>6. RequestInv'
  BY OutdatedRequests, NewRequest DEF SessionInv, Begin, RequestInv, Ended
<1>7. SlotInv' /\ Held'
  BY DEF Begin, SlotInv, Held
<1>8. QED BY <1>4, <1>5, <1>6, <1>7 DEF SessionInv

LEMMA StartInv ==
  ASSUME SessionInv, NEW c \in Calls, NEW op \in {"connect", "restore"}, Start(c, op)
  PROVE  SessionInv'
<1> DEFINE w == [Settled({flight.by, queued.by} \ {None}) EXCEPT ![c] = c]
<1>1. CASE Begin(op, c, w)
  <2>1. w \in [Calls -> Calls \cup {None}]
    BY SettledCalls DEF SessionInv
  <2>2. \A d \in Calls : w[d] \in {None, c}
    BY SettledCalls, EmptySlot DEF SessionInv, Held, Start
  <2>3. QED
    BY <1>1, <2>1, <2>2, BeginInv DEF Start, MayCall
<1>2. CASE Retired("error") /\ UNCHANGED run
  BY <1>2, RetiredInv DEF Start, SessionInv, TypeOK
<1>3. QED BY <1>1, <1>2 DEF Start

LEMMA SharedInv ==
  ASSUME SessionInv, NEW c \in Calls, NEW op \in {"connect", "restore"}, StartShared(c, op)
  PROVE  SessionInv'
<1> USE DEF StartShared, slots
<1>1. flight.by \in Calls \cup {None}
  BY UsedSlot, EmptySlot DEF SessionInv, TypeOK
<1>2. TypeOK'
  BY <1>1 DEF SessionInv, TypeOK
<1>3. NoGhostSession' /\ RequestInv' /\ SlotInv'
  BY DEF SessionInv, NoGhostSession, RequestInv, SlotInv, MayCall
<1>4. Held'
  BY DEF SessionInv, Held, TypeOK
<1>5. QED BY <1>2, <1>3, <1>4 DEF SessionInv

LEMMA QueuedInv ==
  ASSUME SessionInv, NEW c \in Calls, NEW op \in {"connect", "restore"}, StartQueued(c, op)
  PROVE  SessionInv'
<1> USE DEF StartQueued
<1>1. queued.by \in Calls \cup {None}
  BY UsedSlot, EmptySlot DEF SessionInv, TypeOK
<1>2. TypeOK'
  <2>1. queued' \in Pending({"connect", "restore"})
    BY PendingRequests DEF SessionInv, TypeOK
  <2>2. calls' \in [Calls -> Calls \cup {None}]
    BY <1>1, SettledCalls DEF SessionInv, TypeOK
  <2>3. QED BY <2>1, <2>2 DEF SessionInv, TypeOK
<1>3. NoGhostSession' /\ RequestInv' /\ SlotInv'
  BY DEF SessionInv, NoGhostSession, RequestInv, SlotInv, MayCall
<1>4. Held'
  BY SettledCalls, EmptySlot DEF SessionInv, Held, TypeOK, SlotInv
<1>5. QED BY <1>2, <1>3, <1>4 DEF SessionInv

LEMMA QueuedStartsInv ==
  ASSUME SessionInv, QueuedStarts
  PROVE  SessionInv'
<1>1. queued.op \in {"connect", "restore"} /\ queued.by \in Calls
  BY UsedSlot DEF SessionInv, QueuedStarts, QueuedDue
<1>2. calls \in [Calls -> Calls \cup {None}] /\ \A c \in Calls : calls[c] \in {None, queued.by}
  BY EmptySlot DEF SessionInv, TypeOK, Held, SlotInv, QueuedStarts, QueuedDue
<1>3. CASE Begin(queued.op, queued.by, calls)
  BY <1>1, <1>2, <1>3, BeginInv DEF QueuedStarts, QueuedDue, SessionInv, SlotInv
<1>4. CASE Retired("error") /\ UNCHANGED run
  BY <1>4, RetiredInv DEF QueuedStarts, SessionInv, TypeOK
<1>5. QED BY <1>3, <1>4 DEF QueuedStarts

LEMMA DisconnectInv ==
  ASSUME SessionInv, NEW c \in Calls, Disconnect(c)
  PROVE  SessionInv'
<1> USE DEF Disconnect
<1>1. requests' \subseteq Requests
  BY OutdatedRequests, NewRequest DEF SessionInv
<1>2. closing' \in Pending({"disconnect"}) \ {NoRequest}
  BY PendingRequests
<1>3. TypeOK'
  BY <1>1, <1>2, EndedSession, EmptySlot, SettledCalls DEF SessionInv, TypeOK
<1>4. NoGhostSession'
  BY DEF NoGhostSession, Ended
<1>5. RequestInv'
  BY <1>2, OutdatedRequests, NewRequest DEF SessionInv, RequestInv
<1>6. SlotInv' /\ Held'
  BY SettledCalls, EmptySlot DEF SessionInv, SlotInv, Held
<1>7. QED BY <1>3, <1>4, <1>5, <1>6 DEF SessionInv

LEMMA DisconnectAgainInv ==
  ASSUME SessionInv, NEW c \in Calls, DisconnectAgain(c)
  PROVE  SessionInv'
<1> USE DEF DisconnectAgain
<1>1. closing.by \in Calls
  BY UsedSlot DEF SessionInv
<1>2. TypeOK'
  BY <1>1, EmptySlot, SettledCalls DEF SessionInv, TypeOK
<1>3. NoGhostSession' /\ RequestInv' /\ SlotInv'
  BY DEF SessionInv, NoGhostSession, RequestInv, SlotInv
<1>4. Held'
  BY SettledCalls, EmptySlot DEF SessionInv, Held, SlotInv
<1>5. QED BY <1>2, <1>3, <1>4 DEF SessionInv

LEMMA DisposeInv ==
  ASSUME SessionInv, Dispose
  PROVE  SessionInv'
<1> USE DEF Dispose
<1>1. TypeOK'
  BY EndedSession, EmptySlot, OutdatedRequests, SettledCalls DEF SessionInv, TypeOK
<1>2. NoGhostSession' /\ SlotInv'
  BY DEF NoGhostSession, Ended, SlotInv
<1>3. RequestInv'
  BY OutdatedRequests DEF SessionInv, RequestInv
<1>4. Held'
  BY SettledCalls DEF SessionInv, Held
<1>5. QED BY <1>1, <1>2, <1>3, <1>4 DEF SessionInv

\* A request leaves.
LEMMA AsksInv ==
  ASSUME SessionInv, NEW r \in requests, Asks(r)
  PROVE  SessionInv'
<1> USE DEF Asks, slots
<1> DEFINE q == [r EXCEPT !.reply = "asked"]
<1>1. q \in Requests /\ q.op = r.op /\ q.current = r.current
  BY ChangedRequest DEF SessionInv, TypeOK, Outcomes
<1>2. requests' = (requests \ {r}) \cup {q}
  OBVIOUS
<1> HIDE DEF q
<1>3. TypeOK'
  BY <1>1, <1>2 DEF SessionInv, TypeOK
<1>4. NoGhostSession' /\ SlotInv' /\ Held'
  BY DEF SessionInv, NoGhostSession, SlotInv, Held
<1>5. RequestInv'
  BY <1>1, <1>2 DEF SessionInv, RequestInv
<1>6. QED BY <1>3, <1>4, <1>5 DEF SessionInv

-----------------------------------------------------------------------------
(* What happens to the session *)

\* A session that exists is shown as locked or with its accounts.
LEMMA AppliedSession ==
  ASSUME SessionInv, state.intent, NEW list \in Lists, Apply(list)
  PROVE  /\ state' \in Sessions
         /\ state'.intent
         /\ state'.status \in {"connected", "locked"}
         /\ state'.accounts # "empty" <=> state'.status = "connected"
  BY DEF SessionInv, TypeOK, Sessions, Apply

\* A step in which the session goes on, or a request for one is answered, and
\* no call or request begins, keeps the invariant.
LEMMA ShownInv ==
  ASSUME SessionInv, state.intent,
         state' \in Sessions, state'.intent,
         state'.status \in {"pending", "connected", "locked"},
         state'.accounts # "empty" <=> state'.status = "connected",
         run' \in Closures, events' \in Seq(Lists \cup {"invalid"}),
         \A r \in requests' : r \in requests \/ (r \in Requests /\ r.op # "disconnect"),
         \/ UNCHANGED <<flight, calls>>
         \/ flight' = NoRequest /\ calls' = Settled({flight.by}),
         UNCHANGED <<queued, closing, subscribed, disposed, wallet, wanted>>
  PROVE  SessionInv'
<1>1. TypeOK'
  <2>1. flight' \in Pending({"connect", "restore"})
    BY EmptySlot DEF SessionInv, TypeOK
  <2>2. calls' \in [Calls -> Calls \cup {None}]
    BY SettledCalls DEF SessionInv, TypeOK
  <2>3. requests' \subseteq Requests
    BY DEF SessionInv, TypeOK
  <2>4. QED BY <2>1, <2>2, <2>3 DEF SessionInv, TypeOK
<1>2. NoGhostSession'
  BY DEF SessionInv, NoGhostSession
<1>3. RequestInv'
  BY DEF SessionInv, RequestInv
<1>4. SlotInv' /\ Held'
  BY SettledCalls, EmptySlot DEF SessionInv, SlotInv, Held
<1>5. QED BY <1>1, <1>2, <1>3, <1>4 DEF SessionInv

\* As long as a request is current there is a session, or one is asked for.
LEMMA AnsweredSession ==
  ASSUME SessionInv, NEW r \in requests, Answered(r), r.op # "disconnect"
  PROVE  state.intent
  BY DEF SessionInv, RequestInv, Answered

LEMMA RepliedInv ==
  ASSUME SessionInv, NEW r \in requests, Replied(r)
  PROVE  SessionInv'
<1>1. state.intent
  BY AnsweredSession DEF Replied
<1>2. run' \in Closures /\ run.latest \in Lists \cup {None}
  BY DEF SessionInv, TypeOK, Replied, Closures
<1> DEFINE list == IF run.latest # None THEN run.latest ELSE r.reply
<1>3. list \in Lists /\ Apply(list)
  BY <1>2 DEF Replied
<1> HIDE DEF list
<1>4. QED
  BY <1>1, <1>2, <1>3, AppliedSession, ShownInv DEF Replied, SessionInv, TypeOK

LEMMA OvertakenInv ==
  ASSUME SessionInv, NEW r \in requests, RestoreOvertaken(r)
  PROVE  SessionInv'
<1>1. state.intent
  BY AnsweredSession DEF RestoreOvertaken
<1>2. QED
  BY <1>1, ShownInv DEF RestoreOvertaken, SessionInv, TypeOK, NoGhostSession

LEMMA RefusedInv ==
  ASSUME SessionInv, NEW r \in requests, Refused(r)
  PROVE  SessionInv'
  BY RetiredInv DEF Refused, SessionInv, TypeOK

LEMMA ProbedInv ==
  ASSUME SessionInv, NEW r \in requests, Probed(r)
  PROVE  SessionInv'
<1>1. state.intent
  BY AnsweredSession DEF Probed
<1>2. CASE r.reply \in Lists /\ requests' = requests \ {r}
           /\ run' = [run EXCEPT !.latest = r.reply]
           /\ (IF Waits THEN UNCHANGED state ELSE Apply(r.reply))
           /\ UNCHANGED <<flight, queued, subscribed, calls>>
  <2>1. run' \in Closures
    BY <1>2 DEF SessionInv, TypeOK, Closures
  <2>2. QED
    BY <1>1, <1>2, <2>1, AppliedSession, ShownInv
       DEF Probed, SessionInv, TypeOK, NoGhostSession
<1>3. CASE Retired("disconnected") /\ UNCHANGED run
  BY <1>3, RetiredInv DEF Probed, SessionInv, TypeOK
<1>4. CASE requests' = requests \ {r}
           /\ UNCHANGED <<state, run, flight, queued, subscribed, calls>>
  BY <1>1, <1>4, ShownInv DEF Probed, SessionInv, TypeOK, NoGhostSession
<1>5. QED BY <1>2, <1>3, <1>4 DEF Probed

\* The end of a revocation
LEMMA FinishInv ==
  ASSUME SessionInv, closing # NoRequest, Finish
  PROVE  SessionInv'
<1> USE DEF Finish
<1>1. state' \in Sessions /\ ~state'.intent /\ state'.accounts = "empty"
      /\ state'.status = "disconnected"
  BY DEF SessionInv, TypeOK, NoGhostSession, Sessions
<1>2. TypeOK'
  BY <1>1, EmptySlot, OutdatedRequests, SettledCalls DEF SessionInv, TypeOK
<1>3. NoGhostSession'
  BY <1>1 DEF SessionInv, NoGhostSession
<1>4. RequestInv'
  BY OutdatedRequests DEF SessionInv, RequestInv
<1>5. SlotInv' /\ Held'
  BY SettledCalls, EmptySlot DEF SessionInv, SlotInv, Held
<1>6. QED BY <1>2, <1>3, <1>4, <1>5 DEF SessionInv

LEMMA RevokedInv ==
  ASSUME SessionInv, Revoked
  PROVE  SessionInv'
  BY FinishInv DEF Revoked, Answered, SessionInv, RequestInv

LEMMA DeadlineInv ==
  ASSUME SessionInv, Deadline
  PROVE  SessionInv'
  BY FinishInv DEF Deadline

LEMMA AccountsChangedInv ==
  ASSUME SessionInv, AccountsChanged
  PROVE  SessionInv'
<1> DEFINE list == Head(events)
<1>1. events' \in Seq(Lists \cup {"invalid"}) /\ list \in Lists \cup {"invalid"}
  BY DEF SessionInv, TypeOK, AccountsChanged
<1> HIDE DEF list
<1>2. CASE UNCHANGED <<state, run, flight, queued, subscribed, calls, requests>>
  BY <1>1, <1>2 DEF AccountsChanged, SessionInv, TypeOK, NoGhostSession, RequestInv,
                    SlotInv, Held
<1>3. CASE Retired("error") /\ UNCHANGED run
  BY <1>1, <1>3, RetiredInv DEF AccountsChanged, SessionInv, TypeOK
<1>4. CASE /\ subscribed /\ list # "invalid"
           /\ run' = [run EXCEPT !.latest = list, !.revised = TRUE]
           /\ IF Waits THEN UNCHANGED state ELSE Apply(list)
           /\ requests' = (requests \ Probes(requests))
                \cup {r \in {Request("probe", "asked")} : list = "empty"}
           /\ UNCHANGED <<flight, queued, subscribed, calls>>
  <2>1. run' \in Closures
    BY <1>1, <1>4 DEF SessionInv, TypeOK, Closures
  <2>2. state.intent
    BY <1>4 DEF SessionInv, NoGhostSession
  <2>3. /\ state' \in Sessions /\ state'.intent
        /\ state'.status \in {"pending", "connected", "locked"}
        /\ state'.accounts # "empty" <=> state'.status = "connected"
    BY <1>1, <1>4, <2>2, AppliedSession DEF SessionInv, TypeOK, NoGhostSession
  <2>4. \A r \in requests' : r \in requests \/ (r \in Requests /\ r.op # "disconnect")
    BY <1>4, NewRequest
  <2>5. QED
    BY <1>1, <1>4, <2>1, <2>2, <2>3, <2>4, ShownInv DEF AccountsChanged
<1>5. QED BY <1>2, <1>3, <1>4 DEF AccountsChanged, list

LEMMA ChainChangedInv ==
  ASSUME SessionInv, ChainChanged
  PROVE  SessionInv'
<1>1. CASE /\ state' = [state EXCEPT !.chain = TRUE]
           /\ UNCHANGED <<flight, queued, subscribed, calls, requests>>
  <2>1. state' \in Sessions /\ state'.intent /\ state'.status = state.status
        /\ state'.accounts = state.accounts /\ state.intent
    BY <1>1 DEF SessionInv, TypeOK, Sessions, ChainChanged, NoGhostSession
  <2>2. QED
    BY <1>1, <2>1, ShownInv DEF ChainChanged, SessionInv, TypeOK, NoGhostSession
<1>2. CASE Retired("error")
  BY <1>2, RetiredInv DEF ChainChanged, SessionInv, TypeOK
<1>3. QED BY <1>1, <1>2 DEF ChainChanged

LEMMA DisconnectedInv ==
  ASSUME SessionInv, Disconnected
  PROVE  SessionInv'
  BY RetiredInv DEF Disconnected, SessionInv, TypeOK

-----------------------------------------------------------------------------
(* The wallet touches nothing but requests, events and itself. *)

LEMMA WalletInv ==
  ASSUME SessionInv, NEW w, NEW es, WalletChanges(w, es),
         w \in [locked : BOOLEAN, grant : Accounts \cup {None}],
         es \in Seq(Lists \cup {"invalid"}),
         \/ UNCHANGED requests
         \/ \E r \in requests, x \in Outcomes : Replies(r, x)
  PROVE  SessionInv'
<1> USE DEF WalletChanges, slots
<1>1. /\ requests' \subseteq Requests
      /\ \A q \in requests' : q.current => \E r \in requests : r.current /\ r.op = q.op
  <2>1. CASE UNCHANGED requests
    BY <2>1 DEF SessionInv, TypeOK
  <2>2. ASSUME NEW r \in requests, NEW x \in Outcomes, Replies(r, x)
        PROVE  /\ requests' \subseteq Requests
               /\ \A q \in requests' : q.current => \E s \in requests : s.current /\ s.op = q.op
    <3>1. /\ [r EXCEPT !.reply = x] \in Requests
          /\ [r EXCEPT !.reply = x].op = r.op
      BY ChangedRequest DEF SessionInv, TypeOK
    <3>2. \A q \in requests' : q \in requests \/ (r.current /\ q = [r EXCEPT !.reply = x])
      BY <2>2 DEF Replies
    <3>3. QED BY <3>1, <3>2 DEF SessionInv, TypeOK
  <2>3. QED BY <2>1, <2>2
<1>2. events' \in Seq(Lists \cup {"invalid"})
  BY DEF SessionInv, TypeOK
<1>3. TypeOK'
  BY <1>1, <1>2 DEF SessionInv, TypeOK
<1>4. RequestInv'
  BY <1>1 DEF SessionInv, RequestInv
<1>5. NoGhostSession' /\ SlotInv' /\ Held'
  BY DEF SessionInv, NoGhostSession, SlotInv, Held
<1>6. QED BY <1>3, <1>4, <1>5 DEF SessionInv

LEMMA NewsAreLists ==
  ASSUME NEW w \in [locked : BOOLEAN, grant : Accounts \cup {None}]
  PROVE  /\ News(w) \in Seq(Lists \cup {"invalid"})
         /\ Visible(w) \in Outcomes
<1>1. Shown(w) \in Lists /\ Visible(w) \in Outcomes
  BY DEF Shown, Visible, Lists, Outcomes, Refusals
<1>2. CASE Shown(w) # Shown(wallet)
  <2>1. News(w) = <<Shown(w)>> /\ Shown(w) \in Lists \cup {"invalid"}
    BY <1>1, <1>2 DEF News
  <2>2. QED BY <1>1, <2>1
<1>3. CASE Shown(w) = Shown(wallet)
  <2>1. News(w) = <<>>
    BY <1>3 DEF News
  <2>2. QED BY <1>1, <2>1
<1>4. QED BY <1>2, <1>3

LEMMA WalletStepInv ==
  ASSUME SessionInv, Wallet
  PROVE  SessionInv'
<1>1. wallet \in [locked : BOOLEAN, grant : Accounts \cup {None}]
  BY DEF SessionInv, TypeOK
<1>2. <<>> \in Seq(Lists \cup {"invalid"}) /\ <<"invalid">> \in Seq(Lists \cup {"invalid"})
  OBVIOUS
<1>3. CASE UserActs
  BY <1>3, NewsAreLists, WalletInv DEF UserActs
<1>4. CASE InvalidEvent
  BY <1>1, <1>2, <1>4, WalletInv DEF InvalidEvent
<1>5. ASSUME NEW r \in requests, Queried(r) PROVE SessionInv'
  <2>1. {Visible(wallet), "failed", "invalid"} \subseteq Outcomes
    BY <1>1, NewsAreLists DEF Outcomes, Refusals
  <2>2. QED BY <1>1, <1>2, <1>5, <2>1, WalletInv DEF Queried
<1>6. ASSUME NEW r \in requests, Approved(r) PROVE SessionInv'
  <2>1. PICK a \in Accounts :
          LET w == [wallet EXCEPT !.grant = a] IN WalletChanges(w, News(w)) /\ Replies(r, a)
    BY <1>6 DEF Approved
  <2>2. /\ [wallet EXCEPT !.grant = a] \in [locked : BOOLEAN, grant : Accounts \cup {None}]
        /\ a \in Outcomes
    BY <1>1 DEF Outcomes, Lists
  <2>3. QED BY <2>1, <2>2, NewsAreLists, WalletInv
<1>7. ASSUME NEW r \in requests, Declined(r) PROVE SessionInv'
  BY <1>1, <1>2, <1>7, WalletInv DEF Declined, Outcomes
<1>8. ASSUME NEW r \in requests, Revokes(r) PROVE SessionInv'
  <2>1. [wallet EXCEPT !.grant = None] \in [locked : BOOLEAN, grant : Accounts \cup {None}]
    BY <1>1
  <2>2. "done" \in Outcomes
    BY DEF Outcomes
  <2>3. QED BY <1>1, <1>2, <1>8, <2>1, <2>2, NewsAreLists, WalletInv DEF Revokes
<1>9. QED BY <1>3, <1>4, <1>5, <1>6, <1>7, <1>8 DEF Wallet

-----------------------------------------------------------------------------
\* The invariant is inductive.
LEMMA NextInv == SessionInv /\ [Next]_vars => SessionInv'
<1> SUFFICES ASSUME SessionInv, [Next]_vars PROVE SessionInv'
  OBVIOUS
<1>1. CASE Application
  BY <1>1, StartInv, SharedInv, QueuedInv, DisconnectInv, DisconnectAgainInv, DisposeInv
     DEF Application
<1>2. CASE Reactions
  BY <1>2, QueuedStartsInv, AsksInv DEF Reactions
<1>3. CASE Answers
  BY <1>3, RepliedInv, OvertakenInv, RefusedInv DEF Answers
<1>4. ASSUME NEW r \in requests, Probed(r) PROVE SessionInv'
  BY <1>4, ProbedInv
<1>5. CASE Revoked \/ Deadline
  BY <1>5, RevokedInv, DeadlineInv
<1>6. CASE AccountsChanged \/ ChainChanged \/ Disconnected
  BY <1>6, AccountsChangedInv, ChainChangedInv, DisconnectedInv
<1>7. CASE Wallet
  BY <1>7, WalletStepInv
<1>8. CASE UNCHANGED vars
  BY <1>8 DEF vars, slots, SessionInv, TypeOK, NoGhostSession, RequestInv, SlotInv, Held
<1>9. QED BY <1>1, <1>2, <1>3, <1>4, <1>5, <1>6, <1>7, <1>8 DEF Next

\* The session of ui/src/extension.ts keeps the inductive invariant.
THEOREM SessionInvariant == Spec => []SessionInv
  BY InitInv, NextInv, PTL DEF Spec

\* No event, late reply or queued call brings back a session that
\* disconnect(), dispose() or a failure has ended.
THEOREM NoGhosts == Spec => []NoGhostSession
<1>1. SessionInv => NoGhostSession
  BY DEF SessionInv
<1>2. QED BY <1>1, SessionInvariant, PTL

\* Every call waits for a promise that the helper still holds.
THEOREM CallsAreHeld == Spec => []Held
<1>1. SessionInv => Held
  BY DEF SessionInv
<1>2. QED BY <1>1, SessionInvariant, PTL

-----------------------------------------------------------------------------
(* What is shown *)

\* An announcement is on its way.
NewsComing == \E i \in 1 .. Len(events) : events[i] # "invalid"

\* What the wallet shows, unless it has announced something since.
Latest(x) == NewsComing \/ x = Shown(wallet)

\* The last announcement on its way is true.
NewsInv ==
  \A i \in 1 .. Len(events) :
    events[i] # "invalid" /\ (\A j \in i + 1 .. Len(events) : events[j] = "invalid")
      => events[i] = Shown(wallet)

\* So is what a session shows, or keeps to show it after the approval.
ViewInv ==
  state.intent =>
    /\ state.status # "pending" => Latest(state.accounts)
    /\ run.latest # None => Latest(run.latest)
    /\ Waits => state.status = "pending"

\* So is a reply that may still be shown: an event makes an end of probes, and
\* is kept in the place of the reply of connect() or restore().
ReplyInv ==
  \A r \in requests :
    /\ r.current /\ r.op # "disconnect" /\ r.reply \in Lists
    /\ r.op = "probe" \/ run.latest = None
    => Latest(r.reply)

ShowsInv == NewsInv /\ ViewInv /\ ReplyInv

LEMMA InitShows == Init => ShowsInv
  BY DEF Init, ShowsInv, NewsInv, ViewInv, ReplyInv

\* Without a session nothing is shown, nor will be.
LEMMA EndShows ==
  ASSUME ShowsInv, ~state'.intent, UNCHANGED <<events, wallet>>,
         \A r \in requests' : ~r.current \/ r.op = "disconnect" \/ r.reply = "due"
  PROVE  ShowsInv'
<1>1. NewsInv' /\ ViewInv'
  BY DEF ShowsInv, NewsInv, ViewInv, Shown, Visible
<1>2. ReplyInv'
  BY ListsAssumption DEF ReplyInv
<1>3. QED BY <1>1, <1>2 DEF ShowsInv

\* Announcements and the wallet are left alone, the session goes on as it was,
\* and requests end or leave.
LEMMA RestShows ==
  ASSUME ShowsInv, UNCHANGED <<events, wallet>>,
         state'.intent = state.intent, state'.status = state.status,
         state'.accounts = state.accounts, UNCHANGED run,
         \A r \in requests' : r \in requests \/ ~r.current \/ r.reply \in {"due", "asked"}
  PROVE  ShowsInv'
<1>1. NewsInv' /\ ViewInv'
  BY DEF ShowsInv, NewsInv, ViewInv, Latest, NewsComing, Shown, Visible, Waits
<1>2. ReplyInv'
  BY ListsAssumption DEF ShowsInv, ReplyInv, Latest, NewsComing, Shown, Visible
<1>3. QED BY <1>1, <1>2 DEF ShowsInv

LEMMA BeginShows ==
  ASSUME SessionInv, ShowsInv, NEW op \in {"connect", "restore"}, NEW id, NEW w,
         Begin(op, id, w), UNCHANGED <<events, wallet>>
  PROVE  ShowsInv'
<1>1. state'.status = "pending" /\ run'.latest = None
  BY DEF Begin, Ended
<1>2. NewsInv' /\ ViewInv'
  BY <1>1 DEF ShowsInv, NewsInv, ViewInv, Shown, Visible
<1>3. \A r \in requests' : ~r.current \/ r.reply = "due"
  BY OutdatedRequests DEF SessionInv, Begin, Request
<1>4. ReplyInv'
  BY <1>3, ListsAssumption DEF ReplyInv
<1>5. QED BY <1>2, <1>4 DEF ShowsInv

LEMMA RetiredShows ==
  ASSUME SessionInv, ShowsInv, NEW s, Retired(s), UNCHANGED <<events, wallet>>
  PROVE  ShowsInv'
<1>1. ~state'.intent
  BY DEF Retired, Ended
<1>2. \A r \in requests' : ~r.current
  BY OutdatedRequests DEF SessionInv, Retired
<1>3. QED BY <1>1, <1>2, EndShows

LEMMA RepliedShows ==
  ASSUME SessionInv, ShowsInv, NEW r \in requests, Replied(r)
  PROVE  ShowsInv'
<1>1. r.op # "disconnect" /\ r.current /\ state.intent
  BY AnsweredSession DEF Replied, Answered
<1>2. PICK list \in Lists : list = IF run.latest # None THEN run.latest ELSE r.reply
  BY DEF Replied, SessionInv, TypeOK, Closures
<1>3. /\ Apply(list) /\ run' = [run EXCEPT !.awaiting = FALSE]
      /\ requests' = requests \ {r} /\ UNCHANGED <<events, wallet>>
  BY <1>2 DEF Replied
<1>4. Latest(list)
  BY <1>1, <1>2 DEF ShowsInv, ViewInv, ReplyInv
<1>5. state'.accounts = list
  BY <1>3 DEF SessionInv, TypeOK, Sessions, Apply
<1>6. run'.latest = run.latest /\ ~run'.awaiting
  BY <1>3 DEF SessionInv, TypeOK, Closures
<1>7. \A x : Latest(x) => NewsComing' \/ x = Shown(wallet)'
  BY <1>3 DEF Latest, NewsComing, Shown, Visible
<1>8. NewsInv'
  BY <1>3 DEF ShowsInv, NewsInv, Shown, Visible
<1>9. ViewInv'
  <2>1. run.latest # None => Latest(run.latest)
    BY <1>1 DEF ShowsInv, ViewInv
  <2>2. Latest(run.latest)' \/ run'.latest = None
    BY <1>6, <1>7, <2>1 DEF Latest
  <2>3. Latest(state.accounts)'
    BY <1>4, <1>5, <1>7 DEF Latest
  <2>4. QED BY <1>6, <2>2, <2>3 DEF ViewInv, Waits
<1>10. ReplyInv'
  <2>1. SUFFICES ASSUME NEW q \in requests,
                        q.current /\ q.op # "disconnect" /\ q.reply \in Lists,
                        q.op = "probe" \/ run.latest = None
                 PROVE  NewsComing' \/ q.reply = Shown(wallet)'
    BY <1>3, <1>6 DEF ReplyInv, Latest
  <2>2. Latest(q.reply)
    BY <2>1 DEF ShowsInv, ReplyInv
  <2>3. QED BY <1>7, <2>2
<1>11. QED BY <1>8, <1>9, <1>10 DEF ShowsInv

\* A session learns of a list from an event or a probe, and shows it unless it
\* waits for the approval.
LEMMA LearnShows ==
  ASSUME SessionInv, ShowsInv, state.intent, NEW list \in Lists, NewsInv', Latest(list)',
         run'.latest = list, run'.op = run.op, run'.awaiting = run.awaiting,
         IF Waits THEN UNCHANGED state ELSE Apply(list),
         \A r \in requests' :
           r.op = "probe" => r.reply = "asked" \/ (r \in requests /\ UNCHANGED <<events, wallet>>)
  PROVE  ShowsInv'
<1>1. list # None
  BY ListsAssumption DEF Lists
<1>2. ASSUME Waits PROVE ViewInv'
  <2>1. state.status = "pending" /\ UNCHANGED state
    BY <1>2 DEF ShowsInv, ViewInv
  <2>2. QED BY <2>1 DEF ShowsInv, ViewInv, Latest
<1>3. ASSUME ~Waits PROVE ViewInv'
  <2>1. state'.accounts = list /\ ~Waits'
    BY <1>3 DEF SessionInv, TypeOK, Sessions, Apply, Waits
  <2>2. QED BY <2>1 DEF ViewInv, Latest
<1>4. ReplyInv'
  BY <1>1, ListsAssumption DEF ShowsInv, ReplyInv, Latest, NewsComing, Shown, Visible
<1>5. QED BY <1>2, <1>3, <1>4 DEF ShowsInv

LEMMA ProbedShows ==
  ASSUME SessionInv, ShowsInv, NEW r \in requests, Probed(r)
  PROVE  ShowsInv'
<1>1. state.intent /\ r.op = "probe" /\ r.current /\ UNCHANGED <<events, wallet>>
  BY AnsweredSession DEF Probed, Answered
<1>2. CASE r.reply \in Lists /\ requests' = requests \ {r}
           /\ run' = [run EXCEPT !.latest = r.reply]
           /\ IF Waits THEN UNCHANGED state ELSE Apply(r.reply)
  <2>1. Latest(r.reply)
    BY <1>1, <1>2 DEF ShowsInv, ReplyInv
  <2>2. Latest(r.reply)' /\ NewsInv'
    BY <1>1, <2>1 DEF Latest, NewsComing, Shown, Visible, ShowsInv, NewsInv
  <2>3. run'.latest = r.reply /\ run'.op = run.op /\ run'.awaiting = run.awaiting
    BY <1>2 DEF SessionInv, TypeOK, Closures
  <2>4. PICK list \in Lists : list = r.reply
    BY <1>2
  <2>5. \A q \in requests' : q \in requests
    BY <1>2
  <2>6. Latest(list)'
    BY <2>2, <2>4 DEF Latest
  <2>7. IF Waits THEN UNCHANGED state ELSE Apply(list)
    BY <1>2, <2>4
  <2>8. QED BY <1>1, <2>2, <2>3, <2>4, <2>5, <2>6, <2>7, LearnShows
<1>3. CASE Retired("disconnected")
  BY <1>1, <1>3, RetiredShows
<1>4. CASE requests' = requests \ {r} /\ UNCHANGED <<state, run>>
  BY <1>1, <1>4, RestShows
<1>5. QED BY <1>2, <1>3, <1>4 DEF Probed

\* An event that is delivered was the last announcement, or another is coming.
LEMMA DeliveredNews ==
  ASSUME TypeOK, NewsInv, events # <<>>, events' = Tail(events), UNCHANGED wallet,
         NEW x, x = Head(events)
  PROVE  /\ NewsInv'
         /\ x # "invalid" => NewsComing' \/ x = Shown(wallet)'
<1>1. /\ events \in Seq(Lists \cup {"invalid"}) /\ Len(events) \in Nat \ {0}
      /\ Head(events) = events[1]
  BY DEF TypeOK
<1>2. /\ Len(events') = Len(events) - 1
      /\ \A i \in 1 .. Len(events') : events'[i] = events[i + 1]
  BY <1>1
<1>3. NewsInv'
  <2>1. SUFFICES ASSUME NEW i \in 1 .. Len(events'), events'[i] # "invalid",
                        \A j \in i + 1 .. Len(events') : events'[j] = "invalid"
                 PROVE  events'[i] = Shown(wallet)
    BY DEF NewsInv, Shown, Visible
  <2>2. i + 1 \in 1 .. Len(events) /\ events[i + 1] # "invalid"
    BY <1>1, <1>2, <2>1
  <2>3. ASSUME NEW j \in i + 2 .. Len(events) PROVE events[j] = "invalid"
    <3>1. j - 1 \in i + 1 .. Len(events') /\ j - 1 \in 1 .. Len(events') /\ (j - 1) + 1 = j
      BY <1>1, <1>2
    <3>2. QED BY <1>2, <2>1, <3>1
  <2>4. (i + 1) + 1 = i + 2
    OBVIOUS
  <2>5. events[i + 1] = Shown(wallet)
    BY <2>2, <2>3, <2>4 DEF NewsInv
  <2>6. QED BY <1>2, <2>5
<1>4. ASSUME x # "invalid", ~NewsComing'
      PROVE  x = Shown(wallet)
  <2>1. ASSUME NEW j \in 2 .. Len(events) PROVE events[j] = "invalid"
    <3>1. j - 1 \in 1 .. Len(events') /\ (j - 1) + 1 = j
      BY <1>1, <1>2
    <3>2. QED BY <1>2, <1>4, <3>1 DEF NewsComing
  <2>2. 1 \in 1 .. Len(events) /\ events[1] # "invalid" /\ 1 + 1 = 2
    BY <1>1, <1>4
  <2>3. QED BY <1>1, <2>1, <2>2 DEF NewsInv
<1>5. QED BY <1>3, <1>4 DEF Shown, Visible

LEMMA AccountsChangedShows ==
  ASSUME SessionInv, ShowsInv, AccountsChanged
  PROVE  ShowsInv'
<1>1. TypeOK /\ NewsInv /\ events # <<>> /\ events' = Tail(events) /\ UNCHANGED wallet
  BY DEF SessionInv, ShowsInv, AccountsChanged
<1>2. PICK list \in Lists \cup {"invalid"} : list = Head(events)
  BY <1>1 DEF TypeOK
<1>3. NewsInv' /\ (list # "invalid" => NewsComing' \/ list = Shown(wallet)')
  BY <1>1, <1>2, DeliveredNews
<1>4. CASE ~subscribed /\ UNCHANGED <<state, run, requests>>
  <2>1. ~state.intent /\ UNCHANGED <<state, run, requests>>
    BY <1>4 DEF SessionInv, NoGhostSession
  <2>2. ViewInv'
    BY <2>1 DEF ViewInv
  <2>3. ReplyInv'
    BY <2>1 DEF ReplyInv, SessionInv, RequestInv
  <2>4. QED BY <1>3, <2>2, <2>3 DEF ShowsInv
<1>5. CASE Retired("error")
  <2>1. ~state'.intent
    BY <1>5 DEF Retired, Ended
  <2>2. \A r \in requests' : ~r.current
    BY <1>5, OutdatedRequests DEF SessionInv, Retired
  <2>3. ViewInv' /\ ReplyInv'
    BY <2>1, <2>2 DEF ViewInv, ReplyInv
  <2>4. QED BY <1>3, <2>3 DEF ShowsInv
<1>6. CASE /\ subscribed /\ list # "invalid"
           /\ run' = [run EXCEPT !.latest = list, !.revised = TRUE]
           /\ IF Waits THEN UNCHANGED state ELSE Apply(list)
           /\ requests' = (requests \ Probes(requests))
                \cup {r \in {Request("probe", "asked")} : list = "empty"}
  <2>1. run'.latest = list /\ run'.op = run.op /\ run'.awaiting = run.awaiting
    BY <1>1, <1>6 DEF TypeOK, Closures
  <2>2. state.intent
    BY <1>6 DEF SessionInv, NoGhostSession
  <2>3. list \in Lists /\ Latest(list)'
    BY <1>3, <1>6 DEF Latest
  <2>4. \A r \in requests' : r.op = "probe" => r.reply = "asked"
    BY <1>6 DEF Probes, Request
  <2>5. IF Waits THEN UNCHANGED state ELSE Apply(list)
    BY <1>6
  <2>6. QED BY <1>3, <2>1, <2>2, <2>3, <2>4, <2>5, LearnShows
<1>7. QED BY <1>2, <1>4, <1>5, <1>6 DEF AccountsChanged

LEMMA FinishShows ==
  ASSUME SessionInv, ShowsInv, closing # NoRequest, Finish
  PROVE  ShowsInv'
<1>1. ~state'.intent /\ UNCHANGED <<events, wallet>>
  BY DEF Finish, SessionInv, TypeOK, NoGhostSession, Sessions
<1>2. \A r \in requests' : ~r.current
  BY OutdatedRequests DEF SessionInv, Finish
<1>3. QED BY <1>1, <1>2, EndShows

LEMMA AsksShows ==
  ASSUME SessionInv, ShowsInv, NEW r \in requests, Asks(r)
  PROVE  ShowsInv'
<1>1. [r EXCEPT !.reply = "asked"].reply = "asked"
  BY DEF SessionInv, TypeOK, Requests
<1>2. \A q \in requests' : q \in requests \/ q.reply = "asked"
  BY <1>1 DEF Asks
<1>3. QED BY <1>2, RestShows DEF Asks

LEMMA ApplicationShows ==
  ASSUME SessionInv, ShowsInv, Application
  PROVE  ShowsInv'
<1>1. ASSUME NEW c \in Calls, NEW op \in {"connect", "restore"}, Start(c, op)
      PROVE  ShowsInv'
  BY <1>1, BeginShows, RetiredShows DEF Start
<1>2. ASSUME NEW c \in Calls, NEW op \in {"connect", "restore"},
             StartShared(c, op) \/ StartQueued(c, op) \/ DisconnectAgain(c)
      PROVE  ShowsInv'
  BY <1>2, RestShows DEF StartShared, StartQueued, DisconnectAgain
<1>3. ASSUME NEW c \in Calls, Disconnect(c)
      PROVE  ShowsInv'
  <2>1. ~state'.intent /\ UNCHANGED <<events, wallet>>
    BY <1>3 DEF Disconnect, Ended
  <2>2. \A r \in requests' : ~r.current \/ r.op = "disconnect"
    BY <1>3, OutdatedRequests, NewRequest DEF Disconnect, SessionInv
  <2>3. QED BY <2>1, <2>2, EndShows
<1>4. CASE Dispose
  <2>1. ~state'.intent /\ UNCHANGED <<events, wallet>>
    BY <1>4 DEF Dispose, Ended
  <2>2. \A r \in requests' : ~r.current
    BY <1>4, OutdatedRequests DEF Dispose, SessionInv
  <2>3. QED BY <2>1, <2>2, EndShows
<1>5. QED BY <1>1, <1>2, <1>3, <1>4 DEF Application

LEMMA SessionShows ==
  ASSUME SessionInv, ShowsInv,
         \/ Reactions \/ Answers \/ (\E r \in requests : Probed(r)) \/ Revoked \/ Deadline
         \/ AccountsChanged \/ ChainChanged \/ Disconnected
  PROVE  ShowsInv'
<1>1. CASE QueuedStarts
  <2>1. queued.op \in {"connect", "restore"}
    BY <1>1, UsedSlot DEF SessionInv, QueuedStarts, QueuedDue
  <2>2. CASE Begin(queued.op, queued.by, calls)
    BY <1>1, <2>1, <2>2, BeginShows DEF QueuedStarts
  <2>3. CASE Retired("error") /\ UNCHANGED run
    BY <1>1, <2>3, RetiredShows DEF QueuedStarts
  <2>4. QED BY <1>1, <2>2, <2>3 DEF QueuedStarts
<1>2. ASSUME NEW r \in requests, RestoreOvertaken(r) PROVE ShowsInv'
  BY <1>2, RestShows DEF RestoreOvertaken
<1>3. ASSUME NEW r \in requests, Refused(r) PROVE ShowsInv'
  BY <1>3, RetiredShows DEF Refused
<1>4. CASE Revoked \/ Deadline
  BY <1>4, FinishShows DEF Revoked, Deadline, Answered, SessionInv, RequestInv
<1>5. CASE ChainChanged
  <2>1. CASE state' = [state EXCEPT !.chain = TRUE] /\ UNCHANGED requests
    <3>1. /\ state'.intent = state.intent /\ state'.status = state.status
          /\ state'.accounts = state.accounts
      BY <2>1 DEF SessionInv, TypeOK, Sessions
    <3>2. QED BY <1>5, <2>1, <3>1, RestShows DEF ChainChanged
  <2>2. CASE Retired("error")
    BY <1>5, <2>2, RetiredShows DEF ChainChanged
  <2>3. QED BY <1>5, <2>1, <2>2 DEF ChainChanged
<1>6. CASE Disconnected
  BY <1>6, RetiredShows DEF Disconnected
<1>7. QED
  BY <1>1, <1>2, <1>3, <1>4, <1>5, <1>6, AsksShows, RepliedShows, ProbedShows,
     AccountsChangedShows DEF Reactions, Answers

\* The wallet announces every change of what it shows.
LEMMA AnnouncedNews ==
  ASSUME TypeOK, NewsInv, NEW w, NEW es \in Seq({"invalid", Shown(w)}), Shown(w) # "invalid",
         es \in {<<>>, <<"invalid">>, <<Shown(w)>>},
         es = <<Shown(w)>> \/ Shown(w) = Shown(wallet),
         WalletChanges(w, es)
  PROVE  /\ NewsInv'
         /\ \A x : Latest(x) => NewsComing' \/ x = Shown(wallet)'
         /\ NewsComing' \/ Shown(w) = Shown(wallet)'
<1>1. events \in Seq(Lists \cup {"invalid"}) /\ Len(events) \in Nat
  BY DEF TypeOK
<1>2. wallet' = w /\ events' = events \o es
  BY DEF WalletChanges
<1>3. Shown(wallet)' = Shown(w)
  BY <1>2 DEF Shown, Visible
<1>4. CASE es = <<>>
  <2>1. UNCHANGED events
    BY <1>1, <1>2, <1>4
  <2>2. QED BY <1>3, <1>4, <2>1 DEF NewsInv, Latest, NewsComing
<1>5. CASE es # <<>>
  <2>1. PICK y \in {"invalid", Shown(w)} : es = <<y>>
    BY <1>5
  <2>2. /\ Len(events') = Len(events) + 1 /\ events'[Len(events) + 1] = y
        /\ \A i \in 1 .. Len(events) : events'[i] = events[i]
    BY <1>1, <1>2, <2>1
  <2>3. CASE y = Shown(w)
    <3>1. NewsComing'
      BY <1>1, <2>2, <2>3 DEF NewsComing
    <3>2. NewsInv'
      BY <1>1, <1>3, <2>2, <2>3 DEF NewsInv
    <3>3. QED BY <3>1, <3>2
  <2>4. CASE y = "invalid" /\ Shown(w) = Shown(wallet)
    <3>1. NewsInv'
      <4>1. SUFFICES ASSUME NEW i \in 1 .. Len(events'), events'[i] # "invalid",
                            \A j \in i + 1 .. Len(events') : events'[j] = "invalid"
                     PROVE  events'[i] = Shown(wallet)
        BY <1>3, <2>4 DEF NewsInv
      <4>2. i \in 1 .. Len(events)
        BY <1>1, <2>2, <2>4, <4>1
      <4>3. \A j \in i + 1 .. Len(events) : events[j] = "invalid"
        BY <1>1, <2>2, <4>1
      <4>4. QED BY <2>2, <4>1, <4>2, <4>3 DEF NewsInv
    <3>2. NewsComing => NewsComing'
      BY <1>1, <2>2 DEF NewsComing
    <3>3. QED BY <1>3, <2>4, <3>1, <3>2 DEF Latest
  <2>5. QED BY <2>1, <2>3, <2>4
<1>6. QED BY <1>4, <1>5

\* A step of the wallet that answers nothing, or answers with what it shows
\* or with no list.
LEMMA WalletShows ==
  ASSUME SessionInv, ShowsInv, NEW w, NEW es, WalletChanges(w, es), Shown(w) \in Lists,
         es \in {<<>>, <<"invalid">>, <<Shown(w)>>},
         es = <<Shown(w)>> \/ Shown(w) = Shown(wallet),
         \/ UNCHANGED requests
         \/ \E r \in requests, x \in Outcomes :
              Replies(r, x) /\ (x \in Lists => x = Shown(w))
  PROVE  ShowsInv'
<1>1. Shown(w) # "invalid" /\ es \in Seq({"invalid", Shown(w)})
  <2>1. Shown(w) # "invalid"
    BY ListsAssumption DEF Refusals
  <2>2. PICK y : y = Shown(w)
    OBVIOUS
  <2>3. /\ <<>> \in Seq({"invalid", y}) /\ <<"invalid">> \in Seq({"invalid", y})
        /\ <<y>> \in Seq({"invalid", y})
    OBVIOUS
  <2>4. QED BY <2>1, <2>2, <2>3
<1>2. /\ NewsInv'
      /\ \A x : Latest(x) => NewsComing' \/ x = Shown(wallet)'
      /\ NewsComing' \/ Shown(w) = Shown(wallet)'
  BY <1>1, AnnouncedNews DEF SessionInv, ShowsInv
<1>3. UNCHANGED <<state, run>>
  BY DEF WalletChanges
<1>4. ViewInv'
  BY <1>2, <1>3 DEF ShowsInv, ViewInv, Waits, Latest
<1>5. ASSUME NEW q \in requests'
      PROVE  q \in requests \/ (q.reply \in Lists => q.reply = Shown(w))
  <2>1. CASE UNCHANGED requests
    BY <1>5, <2>1
  <2>2. ASSUME NEW r \in requests, NEW x \in Outcomes,
               Replies(r, x) /\ (x \in Lists => x = Shown(w))
        PROVE  q \in requests \/ (q.reply \in Lists => q.reply = Shown(w))
    <3>1. q \in requests \/ q = [r EXCEPT !.reply = x]
      BY <1>5, <2>2 DEF Replies
    <3>2. [r EXCEPT !.reply = x].reply = x
      BY DEF SessionInv, TypeOK, Requests
    <3>3. QED BY <2>2, <3>1, <3>2
  <2>3. QED BY <2>1, <2>2
<1>6. ReplyInv'
  <2>1. SUFFICES ASSUME NEW q \in requests',
                        q.current /\ q.op # "disconnect" /\ q.reply \in Lists,
                        q.op = "probe" \/ run.latest = None
                 PROVE  NewsComing' \/ q.reply = Shown(wallet)'
    BY <1>3 DEF ReplyInv, Latest
  <2>2. q \in requests => Latest(q.reply)
    BY <2>1 DEF ShowsInv, ReplyInv
  <2>3. QED BY <1>2, <1>5, <2>1, <2>2
<1>7. QED BY <1>2, <1>4, <1>6 DEF ShowsInv

LEMMA ShownWallet ==
  ASSUME NEW w \in [locked : BOOLEAN, grant : Accounts \cup {None}]
  PROVE  /\ Shown(w) \in Lists
         /\ Visible(w) \in Outcomes
         /\ Visible(w) \in Lists => Shown(w) = Visible(w)
         /\ \A a \in Accounts : ~w.locked /\ w.grant = a => Shown(w) = a
         /\ News(w) \in {<<>>, <<Shown(w)>>}
         /\ News(w) = <<Shown(w)>> \/ Shown(w) = Shown(wallet)
<1>1. Shown(w) \in Lists /\ Visible(w) \in Outcomes
  BY DEF Shown, Visible, Lists, Outcomes, Refusals
<1>2. Visible(w) \in Lists => Shown(w) = Visible(w)
  BY ListsAssumption DEF Shown, Refusals
<1>3. \A a \in Accounts : ~w.locked /\ w.grant = a => Shown(w) = a
  BY <1>2, ListsAssumption, ExtensionSessionAssumption DEF Visible, Lists
<1>4. News(w) \in {<<>>, <<Shown(w)>>}
  BY DEF News
<1>5. News(w) = <<Shown(w)>> \/ Shown(w) = Shown(wallet)
  BY DEF News
<1>6. QED BY <1>1, <1>2, <1>3, <1>4, <1>5

LEMMA WalletStepShows ==
  ASSUME SessionInv, ShowsInv, Wallet
  PROVE  ShowsInv'
<1>1. wallet \in [locked : BOOLEAN, grant : Accounts \cup {None}]
  BY DEF SessionInv, TypeOK
<1>2. \A x \in Refusals \cup {"done"} : x \in Outcomes /\ x \notin Lists
  BY ListsAssumption DEF Outcomes
<1>3. CASE UserActs
  <2>1. PICK w \in [locked : BOOLEAN, grant : Accounts \cup {None}] :
          WalletChanges(w, News(w)) /\ UNCHANGED requests
    BY <1>3 DEF UserActs
  <2>2. QED BY <2>1, ShownWallet, WalletShows
<1>4. CASE InvalidEvent
  BY <1>1, <1>4, ShownWallet, WalletShows DEF InvalidEvent
<1>5. ASSUME NEW r \in requests, Queried(r) PROVE ShowsInv'
  <2>1. PICK x \in {Visible(wallet), "failed", "invalid"} :
          Replies(r, x) /\ WalletChanges(wallet, <<>>)
    BY <1>5 DEF Queried
  <2>2. x \in Outcomes /\ (x \in Lists => x = Shown(wallet))
    BY <1>1, <1>2, ShownWallet DEF Refusals
  <2>3. QED BY <1>1, <2>1, <2>2, ShownWallet, WalletShows
<1>6. ASSUME NEW r \in requests, Approved(r) PROVE ShowsInv'
  <2>1. PICK a \in Accounts :
          /\ ~wallet.locked
          /\ LET w == [wallet EXCEPT !.grant = a] IN WalletChanges(w, News(w))
          /\ Replies(r, a)
    BY <1>6 DEF Approved
  <2>2. PICK w \in [locked : BOOLEAN, grant : Accounts \cup {None}] :
          w = [wallet EXCEPT !.grant = a]
    BY <1>1
  <2>3. w.grant = a /\ ~w.locked /\ WalletChanges(w, News(w))
    BY <1>1, <2>1, <2>2
  <2>4. Shown(w) = a /\ a \in Outcomes
    BY <2>3, ShownWallet DEF Outcomes, Lists
  <2>5. QED BY <2>1, <2>3, <2>4, ShownWallet, WalletShows
<1>7. ASSUME NEW r \in requests, Declined(r) PROVE ShowsInv'
  <2>1. PICK x \in Refusals : Replies(r, x) /\ WalletChanges(wallet, <<>>)
    BY <1>7 DEF Declined
  <2>2. x \in Outcomes /\ x \notin Lists
    BY <1>2
  <2>3. QED BY <1>1, <2>1, <2>2, ShownWallet, WalletShows
<1>8. ASSUME NEW r \in requests, Revokes(r) PROVE ShowsInv'
  <2>1. PICK w \in [locked : BOOLEAN, grant : Accounts \cup {None}] :
          WalletChanges(w, News(w)) \/ (w = wallet /\ WalletChanges(w, <<>>))
    <3>1. [wallet EXCEPT !.grant = None] \in [locked : BOOLEAN, grant : Accounts \cup {None}]
      BY <1>1
    <3>2. QED BY <1>1, <1>8, <3>1 DEF Revokes
  <2>2. Replies(r, "done") /\ "done" \in Outcomes /\ "done" \notin Lists
    BY <1>2, <1>8 DEF Revokes
  <2>3. QED BY <2>1, <2>2, ShownWallet, WalletShows
<1>9. QED BY <1>3, <1>4, <1>5, <1>6, <1>7, <1>8 DEF Wallet

LEMMA NextShows == SessionInv /\ ShowsInv /\ [Next]_vars => ShowsInv'
<1> SUFFICES ASSUME SessionInv, ShowsInv, [Next]_vars PROVE ShowsInv'
  OBVIOUS
<1>1. CASE UNCHANGED vars
  BY <1>1 DEF vars, ShowsInv, NewsInv, ViewInv, ReplyInv, Latest, NewsComing, Shown, Visible,
              Waits
<1>2. QED
  BY <1>1, ApplicationShows, SessionShows, WalletStepShows DEF Next

\* Events, probes, replies and the approval may overtake each other: what is
\* shown, or kept to be shown, is what the wallet shows or is about to be
\* replaced.
THEOREM ShowsInvariant == Spec => []ShowsInv
  BY InitShows, NextShows, SessionInvariant, PTL DEF Spec

\* Once the announcements of the wallet have arrived, a session shows the
\* accounts that the wallet shows, and is locked only if it shows none.
THEOREM AccountsAreCurrent == Spec => []ShownIsCurrent
<1>1. SessionInv /\ ShowsInv => ShownIsCurrent
  <2> SUFFICES ASSUME SessionInv, ShowsInv, events = <<>>,
                      state.status \in {"connected", "locked"}
               PROVE  /\ state.status = "connected" => Visible(wallet) = state.accounts
                      /\ state.status = "locked" => Visible(wallet) \notin Accounts
    BY DEF ShownIsCurrent
  <2>1. state.intent /\ (state.accounts # "empty" <=> state.status = "connected")
    BY DEF SessionInv, NoGhostSession
  <2>2. ~NewsComing
    BY DEF NewsComing
  <2>3. state.accounts = Shown(wallet)
    BY <2>1, <2>2 DEF ShowsInv, ViewInv, Latest
  <2>4. Visible(wallet) \in Lists \cup {"denied"}
    BY DEF SessionInv, TypeOK, Visible, Lists
  <2>5. "denied" \notin Accounts /\ "empty" \notin Accounts
    BY ListsAssumption DEF Lists, Refusals
  <2>6. QED BY <2>1, <2>3, <2>4, <2>5 DEF Shown
<1>2. QED BY <1>1, SessionInvariant, ShowsInvariant, PTL
=============================================================================
