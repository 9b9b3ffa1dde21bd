---------------------------- MODULE ProviderProofs ----------------------------
(***************************************************************************)
(* Theorems about Provider for every number of calls and pairings, every   *)
(* set of methods, accounts and chains.  ProviderInv holds for any number  *)
(* of pages; TabInv, about what survives a cancellation or a reload, for a *)
(* page that has the storage to itself.                                    *)
(***************************************************************************)
EXTENDS Provider, TLAPS

USE ProviderAssumption

Unsent == {"queued", "joining", "unpaired"}
AtWallet == {"pending", "authorizing", "failing"}

\* A call is sent once it is at the wallet, and to a pairing in which the
\* accounts it relies on were approved.
Sound(c) ==
  /\ c.pc # "free" => c.m \in Methods /\ c.page \in Pages
  /\ c.pc \in Unsent \cup {"free"} => c.sent = 0
  /\ c.pc \in AtWallet => c.sent # 0
  /\ c.sent <= pairings
  /\ c.pc = "queued" => c.current
  /\ c.pc = "authorizing" /\ c.prev # None => <<c.sent, c.prev>> \in approved
  /\ c.sent # 0 /\ c.m.type = "sign" => <<c.sent, c.m.account>> \in approved

CallsInv == \A r \in Calls : Sound(call[r])

\* The queue of a page is the calls that wait for the turn, each once; any
\* other that needs an approval has the turn; a page that is gone has no calls.
TurnInv(p) ==
  /\ {prov[p].queue[i] : i \in 1 .. Len(prov[p].queue)} = {r \in Of(p) : call[r].pc = "queued"}
  /\ \A i, j \in 1 .. Len(prov[p].queue) : prov[p].queue[i] = prov[p].queue[j] => i = j
  /\ \A r \in Of(p) :
       Restricted(r) /\ ~call[r].late /\ call[r].pc # "queued" => prov[p].turn = r
  /\ ~prov[p].loaded => Of(p) = {}

\* Only the owner of the session has a link, and what it shows of the accounts
\* was approved in its pairing.
LinkInv(p) ==
  /\ conn[p].link \in Established \cup {"offered"} => owner = p
  /\ conn[p].pairing # 0 => conn[p].link \in Established
  /\ conn[p].pairing <= pairings
  /\ conn[p].link \in Established => record.pairing \in {0, conn[p].pairing}
  /\ conn[p].link = "offered" => conn[p].account = None
  /\ conn[p].pairing # 0 /\ conn[p].account # None =>
       <<conn[p].pairing, conn[p].account>> \in approved
  /\ prov[p].transition = "fresh" => conn[p].link = "none"
  /\ ~prov[p].loaded => prov[p].transition = "none" /\ conn[p].link = "none" /\ owner # p

\* So it is with what is stored.
RecordInv ==
  /\ record # NoRecord => record.chain \in Chains
  /\ record.pairing <= pairings
  /\ record.pairing # 0 /\ record.account # None =>
       <<record.pairing, record.account>> \in approved

\* Only calls the wallet may still answer have a record.
InflightInv == \A r \in inflight : call[r].pc \in AtWallet \cup {"gone"} /\ call[r].sent # 0

ProviderInv ==
  /\ TypeOK
  /\ CallsInv
  /\ \A p \in Pages : TurnInv(p)
  /\ \A p \in Pages : LinkInv(p)
  /\ RecordInv
  /\ InflightInv

-----------------------------------------------------------------------------
(* Calls *)

LEMMA ClosedCall ==
  ASSUME NEW c \in CallType, NEW x \in {"answered", "refused", "late", "gone"}
  PROVE  /\ Closed(c, x) \in CallType
         /\ Closed(c, x).pc = x /\ Closed(c, x).page = c.page /\ Closed(c, x).m = c.m
         /\ Closed(c, x).sent = c.sent /\ Closed(c, x).made = 0 /\ ~Closed(c, x).current
<1>1. 0 \in 0 .. MaxPairings
  BY ProviderAssumption
<1>2. None \in Accounts \cup {None}
  OBVIOUS
<1>3. x \in {"free", "answered", "refused", "late", "gone"} \cup Open
  OBVIOUS
<1>4. QED BY <1>1, <1>2, <1>3 DEF Closed, CallType

LEMMA ClosedSound ==
  ASSUME NEW c \in CallType, Sound(c), c.pc # "free",
         NEW x \in {"answered", "refused", "late", "gone"}
  PROVE  Sound(Closed(c, x))
<1>1. /\ Closed(c, x).pc = x /\ Closed(c, x).page = c.page /\ Closed(c, x).m = c.m
      /\ Closed(c, x).sent = c.sent
  BY ClosedCall
<1>2. QED BY <1>1 DEF Sound, Unsent, AtWallet

LEMMA SoundGrows ==
  ASSUME NEW c \in CallType, Sound(c), pairings \in Nat, pairings' \in Nat,
         pairings <= pairings', approved \subseteq approved'
  PROVE  Sound(c)'
<1>1. c.sent \in Nat
  BY DEF CallType
<1>2. QED BY <1>1 DEF Sound

LEMMA PutCall ==
  ASSUME TypeOK, NEW r \in Calls, NEW d \in CallType, call' = Put(r, d)
  PROVE  /\ call' \in [Calls -> CallType]
         /\ call'[r] = d
         /\ \A q \in Calls : q # r => call'[q] = call[q]
  BY DEF TypeOK, Put

LEMMA MovedCall ==
  ASSUME NEW c \in CallType,
         NEW x \in {"queued", "joining", "unpaired", "failing"}
  PROVE  /\ [c EXCEPT !.pc = x] \in CallType
         /\ [c EXCEPT !.pc = x].pc = x /\ [c EXCEPT !.pc = x].page = c.page
         /\ [c EXCEPT !.pc = x].m = c.m /\ [c EXCEPT !.pc = x].sent = c.sent
         /\ [c EXCEPT !.pc = x].current = c.current /\ [c EXCEPT !.pc = x].made = c.made
         /\ [c EXCEPT !.pc = x].late = c.late /\ [c EXCEPT !.pc = x].prev = c.prev
  BY DEF CallType, Open

LEMMA SentCall ==
  ASSUME NEW c \in CallType, NEW n \in 0 .. MaxPairings
  PROVE  LET d == [c EXCEPT !.pc = "pending", !.sent = n]
         IN  /\ d \in CallType
             /\ d.pc = "pending" /\ d.page = c.page /\ d.m = c.m /\ d.sent = n
             /\ d.current = c.current /\ d.made = c.made /\ d.late = c.late /\ d.prev = c.prev
  BY DEF CallType, Open

\* What becomes of call c of page p when performRequest() has gone as far as it
\* gets without waiting
Landed(p, c, d) ==
  /\ d \in CallType /\ Sound(d)
  /\ d.page = c.page /\ d.m = c.m /\ d.made \in {0, c.made}
  /\ d.pc \in {"pending", "joining", "unpaired", "refused", "answered"}
  /\ d.pc \in Open => d.made = c.made /\ d.late = c.late /\ d.current = c.current
  /\ IF d.pc = "pending" THEN d.sent = conn[p].pairing /\ d.sent # 0 ELSE d.sent = 0

Recorded(r, d) ==
  inflight' = IF d.pc = "pending" /\ d.m.type # "read" THEN inflight \cup {r} ELSE inflight

LEMMA SendLands ==
  ASSUME TypeOK, NEW p \in Pages, LinkInv(p), NEW r \in Calls, NEW c \in CallType,
         c.page \in Pages, c.m \in Methods, c.sent = 0, Send(p, r, c)
  PROVE  \E d \in CallType : call' = Put(r, d) /\ Landed(p, c, d) /\ Recorded(r, d)
<1>1. conn[p] \in LinkType
  BY DEF TypeOK
<1>2. conn[p].pairing \in 0 .. MaxPairings
  BY <1>1 DEF LinkType
<1>3. CASE Valid(p, c.m) /\ conn[p].pairing # 0
  <2> DEFINE n == conn[p].pairing
  <2> DEFINE d == [c EXCEPT !.pc = "pending", !.sent = n]
  <2>1. /\ d \in CallType
        /\ d.pc = "pending" /\ d.page = c.page /\ d.m = c.m /\ d.sent = n
        /\ d.current = c.current /\ d.made = c.made /\ d.late = c.late /\ d.prev = c.prev
    BY <1>2, SentCall
  <2>2. /\ call' = Put(r, d)
        /\ inflight' = IF c.m.type = "read" THEN inflight ELSE inflight \cup {r}
    BY <1>3 DEF Send
  <2>3. c.m.type = "sign" => <<n, c.m.account>> \in approved
    BY <1>3 DEF Valid, LinkInv
  <2>4. n <= pairings /\ n # 0
    BY <1>3 DEF LinkInv
  <2> HIDE DEF d, n
  <2>5. Sound(d)
    BY <2>1, <2>3, <2>4 DEF Sound, Unsent, AtWallet
  <2>6. Landed(p, c, d)
    BY <2>1, <2>4, <2>5 DEF Landed, n
  <2>7. QED BY <2>1, <2>2, <2>6 DEF Recorded
<1>4. CASE ~(Valid(p, c.m) /\ conn[p].pairing # 0)
  <2>1. call' = Put(r, Closed(c, "refused")) /\ inflight' = inflight
    BY <1>4 DEF Send
  <2>2. /\ Closed(c, "refused") \in CallType
        /\ Closed(c, "refused").pc = "refused" /\ Closed(c, "refused").page = c.page
        /\ Closed(c, "refused").m = c.m /\ Closed(c, "refused").sent = 0
        /\ Closed(c, "refused").made = 0
    BY ClosedCall
  <2>3. Sound(Closed(c, "refused"))
    BY <2>2 DEF Sound, Unsent, AtWallet, TypeOK
  <2>4. Landed(p, c, Closed(c, "refused")) /\ Recorded(r, Closed(c, "refused"))
    BY <2>1, <2>2, <2>3 DEF Landed, Recorded, Open
  <2>5. QED BY <2>1, <2>2, <2>4
<1>5. QED BY <1>3, <1>4

LEMMA PerformLands ==
  ASSUME TypeOK, NEW p \in Pages, LinkInv(p), NEW r \in Calls, NEW c \in CallType,
         c.page \in Pages, c.m \in Methods, c.sent = 0, Perform(p, r, c)
  PROVE  \E d \in CallType : call' = Put(r, d) /\ Landed(p, c, d) /\ Recorded(r, d)
<1>1. CASE conn[p].link = "connected"
  <2>1. Send(p, r, c)
    BY <1>1 DEF Perform
  <2>2. QED BY <2>1, SendLands
<1>2. CASE conn[p].link # "connected" /\ Cached(p, c.m)
  <2>1. call' = Put(r, Closed(c, "answered")) /\ inflight' = inflight
    BY <1>2 DEF Perform
  <2>2. /\ Closed(c, "answered") \in CallType
        /\ Closed(c, "answered").pc = "answered" /\ Closed(c, "answered").page = c.page
        /\ Closed(c, "answered").m = c.m /\ Closed(c, "answered").sent = 0
        /\ Closed(c, "answered").made = 0
    BY ClosedCall
  <2>3. Sound(Closed(c, "answered"))
    BY <2>2 DEF Sound, Unsent, AtWallet, TypeOK
  <2>4. Landed(p, c, Closed(c, "answered")) /\ Recorded(r, Closed(c, "answered"))
    BY <2>1, <2>2, <2>3 DEF Landed, Recorded, Open
  <2>5. QED BY <2>1, <2>2, <2>4
<1>3. CASE conn[p].link # "connected" /\ ~Cached(p, c.m)
  <2>1. PICK x \in {"joining", "unpaired"} : call' = Put(r, [c EXCEPT !.pc = x])
    <3>1. call' = Put(r, [c EXCEPT !.pc = IF PairingSeen(p) # 0 THEN "joining" ELSE "unpaired"])
      BY <1>3 DEF Perform
    <3>2. QED BY <3>1, Zenon
  <2>2. inflight' = inflight
    BY <1>3 DEF Perform
  <2>3. x \in {"queued", "joining", "unpaired", "failing"}
    OBVIOUS
  <2> DEFINE d == [c EXCEPT !.pc = x]
  <2>4. /\ d \in CallType /\ d.pc = x /\ d.page = c.page /\ d.m = c.m /\ d.sent = c.sent
        /\ d.current = c.current /\ d.made = c.made /\ d.late = c.late
    BY <2>3, MovedCall
  <2>5. call' = Put(r, d)
    BY <2>1
  <2> HIDE DEF d
  <2>6. Sound(d)
    BY <2>4 DEF Sound, Unsent, AtWallet, TypeOK
  <2>7. Landed(p, c, d) /\ Recorded(r, d)
    BY <2>2, <2>4, <2>6 DEF Landed, Recorded, Open
  <2>8. QED BY <2>4, <2>5, <2>7
<1>4. QED BY <1>1, <1>2, <1>3

-----------------------------------------------------------------------------
(* What a step that moves one call does to each part of the invariant *)

LEMMA CallsMove ==
  ASSUME TypeOK, CallsInv, NEW r \in Calls, NEW d \in CallType, call' = Put(r, d), Sound(d)',
         pairings' \in Nat, pairings <= pairings', approved \subseteq approved'
  PROVE  CallsInv'
<1>1. SUFFICES ASSUME NEW q \in Calls PROVE Sound(call[q])'
  BY DEF CallsInv
<1>2. call'[r] = d /\ (q # r => call'[q] = call[q])
  BY PutCall
<1>3. CASE q = r
  BY <1>2, <1>3 DEF Sound
<1>4. CASE q # r
  <2>1. PICK c \in CallType : c = call[q]
    BY DEF TypeOK
  <2>2. pairings \in Nat
    BY DEF TypeOK
  <2>3. Sound(c)
    BY <2>1 DEF CallsInv, Sound
  <2>4. Sound(c)'
    BY <2>2, <2>3, SoundGrows
  <2>5. QED BY <1>2, <1>4, <2>1, <2>4 DEF Sound
<1>5. QED BY <1>3, <1>4

LEMMA InflightMoves ==
  ASSUME TypeOK, InflightInv, NEW r \in Calls, NEW d \in CallType, call' = Put(r, d),
         inflight' \subseteq inflight \cup {r},
         r \in inflight' => d.pc \in AtWallet \cup {"gone"} /\ d.sent # 0
  PROVE  InflightInv' /\ inflight' \subseteq Calls
<1>1. call'[r] = d /\ \A q \in Calls : q # r => call'[q] = call[q]
  BY PutCall
<1>2. inflight \subseteq Calls
  BY DEF TypeOK
<1>3. QED BY <1>1, <1>2 DEF InflightInv, AtWallet

\* The call was not waiting for the turn and does not wait for it now.
LEMMA TurnMoves ==
  ASSUME TypeOK, \A p \in Pages : TurnInv(p),
         NEW r \in Calls, NEW d \in CallType, call' = Put(r, d),
         call[r].pc # "queued", d.pc # "queued",
         \A p \in Pages : prov'[p].queue = prov[p].queue /\ prov'[p].loaded = prov[p].loaded,
         \A p \in Pages : prov'[p].turn = prov[p].turn \/ prov[p].turn = 0,
         d.pc \in Open =>
           /\ d.page \in Pages /\ prov[d.page].loaded
           /\ d.late \/ d.m.type = "read" \/ prov'[d.page].turn = r
  PROVE  \A p \in Pages : TurnInv(p)'
<1>1. call'[r] = d /\ \A q \in Calls : q # r => call'[q] = call[q]
  BY PutCall
<1>2. TAKE p \in Pages
<1>3. /\ prov'[p].queue = prov[p].queue /\ prov'[p].loaded = prov[p].loaded
      /\ prov'[p].turn = prov[p].turn \/ prov[p].turn = 0
  OBVIOUS
<1>4. \A q \in Calls : q # r => (q \in Of(p)' <=> q \in Of(p))
  BY <1>1 DEF Of
<1>5. r \in Of(p)' => d.page = p /\ d.pc \in Open
  BY <1>1 DEF Of
<1>6. {q \in Of(p) : call[q].pc = "queued"}' = {q \in Of(p) : call[q].pc = "queued"}
  BY <1>1, <1>4 DEF Of
<1>7. /\ {prov[p].queue[i] : i \in 1 .. Len(prov[p].queue)}'
            = {prov[p].queue[i] : i \in 1 .. Len(prov[p].queue)}
      /\ \A i, j \in 1 .. Len(prov'[p].queue) : prov'[p].queue[i] = prov'[p].queue[j] => i = j
  BY <1>3 DEF TurnInv
<1>8. ASSUME NEW q \in Of(p)', Restricted(q)', ~call'[q].late, call'[q].pc # "queued"
      PROVE  prov'[p].turn = q
  <2>1. CASE q = r
    BY <1>1, <1>5, <1>8, <2>1 DEF Restricted
  <2>2. CASE q # r
    <3>1. q \in Calls /\ q \in Of(p)
      BY <1>4, <1>8, <2>2 DEF Of
    <3>2. call'[q] = call[q]
      BY <1>1, <2>2, <3>1
    <3>3. prov[p].turn = q
      BY <1>8, <3>1, <3>2 DEF TurnInv, Restricted
    <3>4. q # 0
      BY <3>1 DEF Calls
    <3>5. QED BY <1>3, <3>3, <3>4
  <2>3. QED BY <2>1, <2>2
<1>9. ~prov'[p].loaded => Of(p)' = {}
  BY <1>3, <1>4, <1>5 DEF TurnInv, Of
<1>10. QED BY <1>6, <1>7, <1>8, <1>9 DEF TurnInv

\* The call goes on in the page that made it, or comes to an end.
LEMMA TurnGoesOn ==
  ASSUME TypeOK, CallsInv, \A p \in Pages : TurnInv(p),
         \A p \in Pages : /\ prov'[p].queue = prov[p].queue /\ prov'[p].turn = prov[p].turn
                          /\ prov'[p].loaded = prov[p].loaded,
         NEW r \in Calls, NEW d \in CallType, call' = Put(r, d),
         call[r].pc # "queued", d.pc # "queued",
         d.pc \in Open => /\ call[r].pc \in Open /\ d.page = call[r].page
                         /\ d.m = call[r].m /\ d.late = call[r].late
  PROVE  \A p \in Pages : TurnInv(p)'
<1>1. call[r] \in CallType /\ Sound(call[r])
  BY DEF TypeOK, CallsInv
<1>2. ASSUME d.pc \in Open
      PROVE  /\ d.page \in Pages /\ prov[d.page].loaded
             /\ d.late \/ d.m.type = "read" \/ prov'[d.page].turn = r
  <2>1. d.page \in Pages /\ r \in Of(d.page)
    BY <1>1, <1>2 DEF Sound, Of, Open
  <2>2. QED BY <1>2, <2>1 DEF TurnInv, Restricted
<1>3. QED BY <1>2, TurnMoves

-----------------------------------------------------------------------------
(* What a step that moves no call does *)

LEMMA CallsRest ==
  ASSUME ProviderInv, UNCHANGED call, inflight' \subseteq inflight,
         pairings' \in Nat, pairings <= pairings', approved \subseteq approved',
         \A p \in Pages : /\ prov'[p].queue = prov[p].queue /\ prov'[p].turn = prov[p].turn
                          /\ prov[p].loaded => prov'[p].loaded
  PROVE  CallsInv' /\ InflightInv' /\ \A p \in Pages : TurnInv(p)'
<1>1. CallsInv'
  <2>1. SUFFICES ASSUME NEW q \in Calls PROVE Sound(call[q])'
    BY DEF CallsInv
  <2>2. PICK c \in CallType : c = call[q]
    BY DEF ProviderInv, TypeOK
  <2>3. pairings \in Nat
    BY DEF ProviderInv, TypeOK
  <2>4. Sound(c)
    BY <2>2 DEF ProviderInv, CallsInv, Sound
  <2>5. Sound(c)'
    BY <2>3, <2>4, SoundGrows
  <2>6. QED BY <2>2, <2>5 DEF Sound
<1>2. InflightInv'
  BY DEF ProviderInv, InflightInv
<1>3. ASSUME NEW p \in Pages
      PROVE  TurnInv(p)'
  <2>1. Of(p)' = Of(p) /\ \A r \in Of(p) : Restricted(r)' <=> Restricted(r)
    BY DEF Of, Restricted
  <2>2. TurnInv(p)
    BY DEF ProviderInv
  <2>3. /\ prov'[p].queue = prov[p].queue /\ prov'[p].turn = prov[p].turn
        /\ prov[p].loaded => prov'[p].loaded
    OBVIOUS
  <2>4. QED BY <2>1, <2>2, <2>3 DEF TurnInv
<1>4. QED BY <1>1, <1>2, <1>3

LEMMA LinkRests ==
  ASSUME TypeOK, NEW p \in Pages, LinkInv(p), conn'[p] = conn[p],
         prov'[p].transition = prov[p].transition, prov'[p].loaded = prov[p].loaded,
         pairings' \in Nat, pairings <= pairings', approved \subseteq approved',
         conn[p].link \in Established \cup {"offered"} => owner' = owner,
         conn[p].link \in Established => record'.pairing \in {0, record.pairing},
         owner' = p => owner = p \/ prov[p].loaded
  PROVE  LinkInv(p)'
<1>1. conn[p].pairing \in Nat /\ pairings \in Nat
  BY DEF TypeOK, LinkType
<1>2. QED BY <1>1 DEF LinkInv

\* The pages that a step does not touch
LEMMA OthersRest ==
  ASSUME ProviderInv, NEW p \in Pages,
         \A q \in Pages \ {p} :
           /\ conn'[q] = conn[q] /\ prov'[q] = prov[q]
           /\ conn[q].link \in Established \cup {"offered"} => owner' = owner
           /\ conn[q].link \in Established => record'.pairing \in {0, record.pairing},
         owner' \in {owner, None, p}, pairings' \in Nat, pairings <= pairings',
         approved \subseteq approved', LinkInv(p)'
  PROVE  \A q \in Pages : LinkInv(q)'
<1>1. SUFFICES ASSUME NEW q \in Pages, q # p PROVE LinkInv(q)'
  OBVIOUS
<1>2. TypeOK /\ LinkInv(q)
  BY DEF ProviderInv
<1>3. owner' = q => owner = q
  BY <1>1, ProviderAssumption
<1>4. /\ conn'[q] = conn[q] /\ prov'[q] = prov[q]
      /\ conn[q].link \in Established \cup {"offered"} => owner' = owner
      /\ conn[q].link \in Established => record'.pairing \in {0, record.pairing}
  BY <1>1
<1>5. QED BY <1>2, <1>3, <1>4, LinkRests

LEMMA LinkTypes ==
  ASSUME NEW c \in LinkType
  PROVE  /\ \A l \in {"none", "offered", "restorable"} \cup Established :
              /\ [c EXCEPT !.link = l] \in LinkType
              /\ [c EXCEPT !.link = l].link = l /\ [c EXCEPT !.link = l].pairing = c.pairing
              /\ [c EXCEPT !.link = l].account = c.account
         /\ \A a \in Accounts \cup {None} :
              /\ [c EXCEPT !.account = a] \in LinkType
              /\ [c EXCEPT !.account = a].link = c.link
              /\ [c EXCEPT !.account = a].pairing = c.pairing
              /\ [c EXCEPT !.account = a].account = a
         /\ Unlinked(c.chain) \in LinkType
         /\ Unlinked(c.chain).link = "none" /\ Unlinked(c.chain).pairing = 0
         /\ Unlinked(c.chain).account = None
  BY ProviderAssumption DEF LinkType, Unlinked

LEMMA NoRecordTypes ==
  NoRecord \in RecordType /\ NoRecord.pairing = 0 /\ NoRecord.account = None
BY ProviderAssumption DEF NoRecord, RecordType

LEMMA LinkMovesInv ==
  ASSUME ProviderInv, NEW p \in Pages, NEW l \in Established, LinkMoves(p, l)
  PROVE  ProviderInv'
<1>1. TypeOK /\ LinkInv(p) /\ RecordInv /\ conn[p] \in LinkType
  BY DEF ProviderInv, TypeOK
<1>2. /\ conn[p].link \in Established
      /\ conn' = [conn EXCEPT ![p].link = l]
      /\ UNCHANGED <<prov, owner, record, inflight, call, aged, open, pairings, replied,
                     approved, waived>>
  BY DEF LinkMoves, wallet
<1>3. conn' = [conn EXCEPT ![p] = [conn[p] EXCEPT !.link = l]]
  BY <1>1, <1>2 DEF TypeOK
<1>4. /\ [conn[p] EXCEPT !.link = l] \in LinkType
      /\ [conn[p] EXCEPT !.link = l].link = l
      /\ [conn[p] EXCEPT !.link = l].pairing = conn[p].pairing
      /\ [conn[p] EXCEPT !.link = l].account = conn[p].account
  BY <1>1, LinkTypes
<1>5. TypeOK'
  BY <1>1, <1>2, <1>3, <1>4 DEF TypeOK
<1>6. conn'[p].link = l /\ conn'[p].pairing = conn[p].pairing /\ conn'[p].account = conn[p].account
  BY <1>1, <1>3, <1>4 DEF TypeOK
<1>7. LinkInv(p)'
  BY <1>1, <1>2, <1>6 DEF LinkInv, Established
<1>8. \A q \in Pages \ {p} : conn'[q] = conn[q]
  BY <1>1, <1>3 DEF TypeOK
<1>9. pairings \in Nat
  BY <1>1 DEF TypeOK
<1>10. \A q \in Pages : LinkInv(q)'
  BY <1>2, <1>7, <1>8, <1>9, OthersRest
<1>11. CallsInv' /\ InflightInv' /\ \A q \in Pages : TurnInv(q)'
  BY <1>2, <1>9, CallsRest
<1>12. RecordInv'
  BY <1>1, <1>2 DEF RecordInv
<1>13. QED BY <1>5, <1>10, <1>11, <1>12 DEF ProviderInv

LEMMA WalletInfoInv ==
  ASSUME ProviderInv, NEW p \in Pages, NEW a \in Accounts \cup {None}, NEW c \in Chains,
         WalletInfo(p, a, c)
  PROVE  ProviderInv'
<1>1. TypeOK /\ LinkInv(p) /\ RecordInv /\ conn[p] \in LinkType
  BY DEF ProviderInv, TypeOK
<1>2. /\ conn[p].link \in Established
      /\ conn' = [conn EXCEPT ![p].account = IF a = @ THEN @ ELSE None, ![p].chain = c]
      /\ UNCHANGED <<prov, owner, record, inflight, call, aged, open, pairings, replied,
                     approved, waived>>
  BY DEF WalletInfo, wallet
<1>3. /\ conn' \in [Pages -> LinkType]
      /\ conn'[p].link = conn[p].link /\ conn'[p].pairing = conn[p].pairing
      /\ conn'[p].account \in {conn[p].account, None}
      /\ \A q \in Pages \ {p} : conn'[q] = conn[q]
  BY <1>1, <1>2 DEF TypeOK, LinkType
<1>4. TypeOK'
  BY <1>1, <1>2, <1>3 DEF TypeOK
<1>5. LinkInv(p)'
  BY <1>1, <1>2, <1>3 DEF LinkInv, Established
<1>6. pairings \in Nat
  BY <1>1 DEF TypeOK
<1>7. \A q \in Pages : LinkInv(q)'
  BY <1>2, <1>3, <1>5, <1>6, OthersRest
<1>8. CallsInv' /\ InflightInv' /\ \A q \in Pages : TurnInv(q)'
  BY <1>2, <1>6, CallsRest
<1>9. RecordInv'
  BY <1>1, <1>2 DEF RecordInv
<1>10. QED BY <1>4, <1>7, <1>8, <1>9 DEF ProviderInv

LEMMA CheckpointInv ==
  ASSUME ProviderInv, NEW p \in Pages, Checkpoint(p)
  PROVE  ProviderInv'
<1>1. TypeOK /\ LinkInv(p) /\ RecordInv /\ conn[p] \in LinkType /\ pairings \in Nat
  BY DEF ProviderInv, TypeOK
<1> DEFINE t == [pairing |-> conn[p].pairing, account |-> conn[p].account,
                 chain |-> conn[p].chain]
<1>2. /\ conn[p].pairing # 0 /\ record' = t
      /\ UNCHANGED <<prov, conn, owner, inflight, call, aged, open, pairings, replied,
                     approved, waived>>
  BY DEF Checkpoint, wallet
<1>3. /\ t \in RecordType /\ t.pairing = conn[p].pairing /\ t.account = conn[p].account
      /\ t.chain \in Chains
  BY <1>1 DEF RecordType, LinkType
<1> HIDE DEF t
<1>4. TypeOK'
  BY <1>1, <1>2, <1>3 DEF TypeOK
<1>5. LinkInv(p)'
  BY <1>1, <1>2, <1>3 DEF LinkInv
<1>6. \A q \in Pages \ {p} : conn[q].link \notin Established
  <2>1. TAKE q \in Pages \ {p}
  <2>2. LinkInv(q) /\ owner = p
    BY <1>1, <1>2 DEF ProviderInv, LinkInv
  <2>3. QED BY <2>2 DEF LinkInv
<1>7. \A q \in Pages : LinkInv(q)'
  BY <1>1, <1>2, <1>5, <1>6, OthersRest
<1>8. CallsInv' /\ InflightInv' /\ \A q \in Pages : TurnInv(q)'
  BY <1>1, <1>2, CallsRest
<1>9. RecordInv'
  BY <1>1, <1>2, <1>3 DEF RecordInv, LinkInv
<1>10. QED BY <1>4, <1>7, <1>8, <1>9 DEF ProviderInv

LEMMA TransitionFailsInv ==
  ASSUME ProviderInv, NEW p \in Pages, TransitionFails(p)
  PROVE  ProviderInv'
<1>1. TypeOK /\ LinkInv(p) /\ RecordInv /\ prov[p] \in TabType /\ pairings \in Nat
  BY DEF ProviderInv, TypeOK
<1>2. /\ prov[p].transition # "none"
      /\ prov' = [prov EXCEPT ![p].transition = "none"]
      /\ owner' \in CASE prov[p].transition = "fresh" /\ owner = p -> {None}
                      [] prov[p].transition = "uri" /\ owner = None -> {None, p}
                      [] OTHER -> {owner}
      /\ UNCHANGED <<conn, record, inflight, call, aged, open, pairings, replied,
                     approved, waived>>
  BY DEF TransitionFails, wallet
<1>3. \/ prov[p].transition = "fresh" /\ owner = p /\ owner' = None
      \/ owner = None /\ owner' \in {None, p}
      \/ owner' = owner
  BY <1>2
<1>4. /\ prov' \in [Pages -> TabType] /\ prov'[p].transition = "none"
      /\ prov'[p].loaded = prov[p].loaded /\ prov'[p].queue = prov[p].queue
      /\ prov'[p].turn = prov[p].turn /\ \A q \in Pages \ {p} : prov'[q] = prov[q]
  BY <1>1, <1>2 DEF TypeOK, TabType
<1>5. TypeOK'
  BY <1>1, <1>2, <1>3, <1>4 DEF TypeOK
<1>6. conn[p].link \in Established \cup {"offered"} => owner' = owner
  BY <1>1, <1>3, ProviderAssumption DEF LinkInv, Established
<1>7. prov[p].loaded
  BY <1>1, <1>2 DEF LinkInv
<1>8. LinkInv(p)'
  BY <1>1, <1>2, <1>4, <1>6, <1>7 DEF LinkInv
<1>9. \A q \in Pages \ {p} : conn[q].link \in Established \cup {"offered"} => owner' = owner
  <2>1. TAKE q \in Pages \ {p}
  <2>2. LinkInv(q)
    BY DEF ProviderInv
  <2>3. QED BY <1>3, <2>2, ProviderAssumption DEF LinkInv
<1>10. \A q \in Pages : LinkInv(q)'
  BY <1>1, <1>2, <1>3, <1>4, <1>8, <1>9, OthersRest
<1>11. CallsInv' /\ InflightInv' /\ \A q \in Pages : TurnInv(q)'
  BY <1>1, <1>2, <1>4, CallsRest
<1>12. RecordInv'
  BY <1>1, <1>2 DEF RecordInv
<1>13. QED BY <1>5, <1>10, <1>11, <1>12 DEF ProviderInv

LEMMA PairInv ==
  ASSUME ProviderInv, NEW p \in Pages, Pair(p)
  PROVE  ProviderInv'
<1>1. /\ TypeOK /\ LinkInv(p) /\ conn[p] \in LinkType
      /\ pairings \in Nat /\ MaxPairings \in Nat
  BY ProviderAssumption DEF ProviderInv, TypeOK
<1> DEFINE n == pairings + 1
           t == [pairing |-> n, account |-> None, chain |-> conn[p].chain]
<1>2. /\ conn[p].link = "offered" /\ pairings < MaxPairings
      /\ pairings' = n /\ open' = open \cup {n}
      /\ conn' = [conn EXCEPT ![p].link = "connected", ![p].pairing = n]
      /\ record' = t
      /\ UNCHANGED <<prov, owner, inflight, call, aged, replied, approved, waived>>
  BY DEF Pair
<1>3. n \in 0 .. MaxPairings /\ n \in Pairings /\ n # 0 /\ pairings <= n
  BY <1>1, <1>2 DEF Pairings
<1>4. t \in RecordType /\ t.pairing = n /\ t.account = None /\ t.chain \in Chains
  BY <1>1, <1>3 DEF RecordType, LinkType
<1> HIDE DEF t, n
<1>5. /\ conn' \in [Pages -> LinkType]
      /\ conn'[p].link = "connected" /\ conn'[p].pairing = n
      /\ conn'[p].account = conn[p].account
      /\ \A q \in Pages \ {p} : conn'[q] = conn[q]
  BY <1>1, <1>2, <1>3 DEF TypeOK, LinkType, Established
<1>6. TypeOK'
  BY <1>1, <1>2, <1>3, <1>4, <1>5 DEF TypeOK
<1>7. LinkInv(p)'
  BY <1>1, <1>2, <1>3, <1>4, <1>5 DEF LinkInv, Established
<1>8. \A q \in Pages \ {p} : conn[q].link \notin Established
  <2>1. TAKE q \in Pages \ {p}
  <2>2. LinkInv(q) /\ owner = p
    BY <1>1, <1>2 DEF ProviderInv, LinkInv
  <2>3. QED BY <2>2 DEF LinkInv
<1>9. \A q \in Pages : LinkInv(q)'
  BY <1>1, <1>2, <1>3, <1>5, <1>7, <1>8, OthersRest
<1>10. CallsInv' /\ InflightInv' /\ \A q \in Pages : TurnInv(q)'
  BY <1>1, <1>2, <1>3, CallsRest
<1>11. RecordInv'
  BY <1>2, <1>3, <1>4 DEF RecordInv
<1>12. QED BY <1>6, <1>9, <1>10, <1>11 DEF ProviderInv

LEMMA OfferURIInv ==
  ASSUME ProviderInv, NEW p \in Pages, OfferURI(p)
  PROVE  ProviderInv'
<1>1. /\ TypeOK /\ LinkInv(p) /\ conn[p] \in LinkType /\ prov[p] \in TabType
      /\ pairings \in Nat
  BY DEF ProviderInv, TypeOK
<1> DEFINE u == Unlinked(conn[p].chain)
           t == [u EXCEPT !.link = "offered"]
<1>2. /\ prov[p].transition = "fresh" /\ owner \in {p, None} /\ owner' = p
      /\ record' = NoRecord /\ conn' = [conn EXCEPT ![p] = t]
      /\ prov' = [prov EXCEPT ![p].transition = "none"]
      /\ UNCHANGED <<inflight, call, aged, open, pairings, replied, approved, waived>>
  BY DEF OfferURI, wallet
<1>3. u \in LinkType /\ u.pairing = 0 /\ u.account = None
  BY <1>1, LinkTypes
<1> HIDE DEF u
<1>4. t \in LinkType /\ t.link = "offered" /\ t.pairing = 0 /\ t.account = None
  BY <1>3, LinkTypes
<1> HIDE DEF t
<1>5. /\ conn' \in [Pages -> LinkType] /\ conn'[p] = t
      /\ \A q \in Pages \ {p} : conn'[q] = conn[q]
  BY <1>1, <1>2, <1>4 DEF TypeOK
<1>6. /\ prov' \in [Pages -> TabType] /\ prov'[p].transition = "none"
      /\ prov'[p].loaded = prov[p].loaded /\ prov'[p].queue = prov[p].queue
      /\ prov'[p].turn = prov[p].turn /\ \A q \in Pages \ {p} : prov'[q] = prov[q]
  BY <1>1, <1>2 DEF TypeOK, TabType
<1>7. TypeOK'
  BY <1>1, <1>2, <1>5, <1>6, NoRecordTypes DEF TypeOK
<1>8. LinkInv(p)'
  BY <1>1, <1>2, <1>4, <1>5, <1>6, NoRecordTypes DEF LinkInv, Established
<1>9. \A q \in Pages \ {p} : conn[q].link \notin Established \cup {"offered"}
  <2>1. TAKE q \in Pages \ {p}
  <2>2. LinkInv(q)
    BY DEF ProviderInv
  <2>3. QED BY <1>2, <2>2, ProviderAssumption DEF LinkInv
<1>10. \A q \in Pages : LinkInv(q)'
  BY <1>1, <1>2, <1>5, <1>6, <1>8, <1>9, OthersRest
<1>11. CallsInv' /\ InflightInv' /\ \A q \in Pages : TurnInv(q)'
  BY <1>1, <1>2, <1>6, CallsRest
<1>12. RecordInv'
  BY <1>1, <1>2, NoRecordTypes DEF RecordInv
<1>13. QED BY <1>7, <1>10, <1>11, <1>12 DEF ProviderInv

LEMMA RetireInv ==
  ASSUME ProviderInv, NEW p \in Pages, Retire(p)
  PROVE  ProviderInv'
<1>1. /\ TypeOK /\ LinkInv(p) /\ RecordInv /\ conn[p] \in LinkType /\ prov[p] \in TabType
      /\ pairings \in Nat
  BY DEF ProviderInv, TypeOK
<1> DEFINE u == Unlinked(conn[p].chain)
           x == IF prov[p].transition = "disconnect" THEN "none" ELSE "fresh"
<1>2. /\ prov[p].transition \in {"uri", "new", "disconnect"}
      /\ prov[p].transition = "uri" => owner \in {p, None}
      /\ conn' = [conn EXCEPT ![p] = u]
      /\ prov' = [prov EXCEPT ![p].transition = x]
      /\ owner' = CASE prov[p].transition = "disconnect" /\ owner = p -> None
                    [] prov[p].transition = "uri" -> p
                    [] OTHER -> owner
      /\ UNCHANGED <<inflight, call, aged, pairings, replied, approved, waived>>
  BY DEF Retire
<1>3. /\ record' \in {record, NoRecord} /\ open' \subseteq open
  BY DEF Retire
<1>4. u \in LinkType /\ u.link = "none" /\ u.pairing = 0 /\ u.account = None
  BY <1>1, LinkTypes
<1>5. x \in {"none", "fresh"}
  OBVIOUS
<1> HIDE DEF u, x
<1>6. /\ conn' \in [Pages -> LinkType] /\ conn'[p] = u
      /\ \A q \in Pages \ {p} : conn'[q] = conn[q]
  BY <1>1, <1>2, <1>4 DEF TypeOK
<1>7. /\ prov' \in [Pages -> TabType] /\ prov'[p].transition = x
      /\ prov'[p].loaded = prov[p].loaded /\ prov'[p].queue = prov[p].queue
      /\ prov'[p].turn = prov[p].turn /\ \A q \in Pages \ {p} : prov'[q] = prov[q]
  BY <1>1, <1>2, <1>5 DEF TypeOK, TabType
<1>8. \/ owner = p /\ owner' = None
      \/ owner \in {p, None} /\ owner' = p
      \/ owner' = owner
  BY <1>2
<1>9. TypeOK'
  BY <1>1, <1>2, <1>3, <1>6, <1>7, <1>8, NoRecordTypes DEF TypeOK
<1>10. prov[p].loaded
  BY <1>1, <1>2 DEF LinkInv
<1>11. LinkInv(p)'
  BY <1>1, <1>4, <1>6, <1>7, <1>10, <1>9 DEF LinkInv, Established, TypeOK
<1>12. \A q \in Pages \ {p} : conn[q].link \in Established \cup {"offered"} => owner' = owner
  <2>1. TAKE q \in Pages \ {p}
  <2>2. LinkInv(q)
    BY DEF ProviderInv
  <2>3. QED BY <1>8, <2>2, ProviderAssumption DEF LinkInv
<1>13. record'.pairing \in {0, record.pairing}
  BY <1>3, NoRecordTypes
<1>14. \A q \in Pages : LinkInv(q)'
  BY <1>1, <1>2, <1>6, <1>7, <1>8, <1>11, <1>12, <1>13, OthersRest
<1>15. CallsInv' /\ InflightInv' /\ \A q \in Pages : TurnInv(q)'
  BY <1>1, <1>2, <1>7, CallsRest
<1>16. RecordInv'
  BY <1>1, <1>2, <1>3, NoRecordTypes DEF RecordInv
<1>17. QED BY <1>9, <1>14, <1>15, <1>16 DEF ProviderInv

LEMMA RestoreInv ==
  ASSUME ProviderInv, NEW p \in Pages, Restore(p)
  PROVE  ProviderInv'
<1>1. /\ TypeOK /\ LinkInv(p) /\ RecordInv /\ conn[p] \in LinkType /\ record \in RecordType
      /\ pairings \in Nat
  BY DEF ProviderInv, TypeOK
<1>2. /\ conn[p].link = "restorable" /\ owner \in {p, None}
      /\ UNCHANGED <<prov, record, inflight, call, aged, open, pairings, replied, approved,
                     waived>>
  BY DEF Restore, wallet
<1>3. PICK t \in LinkType :
        /\ conn' = [conn EXCEPT ![p] = t]
        /\ \/ t.link = "none" /\ t.pairing = 0 /\ owner' = None
           \/ /\ t.link = "away" /\ t.pairing = record.pairing /\ t.account = record.account
              /\ owner' = p
  <2>1. CASE record = NoRecord
    <3>1. conn' = [conn EXCEPT ![p] = Unlinked(conn[p].chain)] /\ owner' = None
      BY <2>1 DEF Restore
    <3>2. /\ Unlinked(conn[p].chain) \in LinkType /\ Unlinked(conn[p].chain).link = "none"
          /\ Unlinked(conn[p].chain).pairing = 0
      BY <1>1, LinkTypes
    <3>3. QED BY <3>1, <3>2
  <2>2. CASE record # NoRecord
    <3> DEFINE t == [link |-> "away", pairing |-> record.pairing, account |-> record.account,
                     chain |-> record.chain]
    <3>1. conn' = [conn EXCEPT ![p] = t] /\ owner' = p
      BY <2>2 DEF Restore
    <3>2. /\ t \in LinkType /\ t.link = "away" /\ t.pairing = record.pairing
          /\ t.account = record.account
      BY <1>1, <2>2 DEF LinkType, RecordType, RecordInv, Established
    <3> HIDE DEF t
    <3>3. QED BY <3>1, <3>2
  <2>3. QED BY <2>1, <2>2
<1>4. /\ conn' \in [Pages -> LinkType] /\ conn'[p] = t
      /\ \A q \in Pages \ {p} : conn'[q] = conn[q]
  BY <1>1, <1>3 DEF TypeOK
<1>5. TypeOK'
  BY <1>1, <1>2, <1>3, <1>4 DEF TypeOK
<1>6. prov[p].loaded /\ prov[p].transition # "fresh"
  BY <1>1, <1>2 DEF LinkInv
<1>7. LinkInv(p)'
  BY <1>1, <1>2, <1>3, <1>4, <1>6 DEF LinkInv, RecordInv, Established
<1>8. \A q \in Pages \ {p} : conn[q].link \notin Established \cup {"offered"}
  <2>1. TAKE q \in Pages \ {p}
  <2>2. LinkInv(q)
    BY DEF ProviderInv
  <2>3. QED BY <1>2, <2>2, ProviderAssumption DEF LinkInv
<1>9. \A q \in Pages : LinkInv(q)'
  BY <1>1, <1>2, <1>3, <1>4, <1>7, <1>8, OthersRest
<1>10. CallsInv' /\ InflightInv' /\ \A q \in Pages : TurnInv(q)'
  BY <1>1, <1>2, CallsRest
<1>11. RecordInv'
  BY <1>1, <1>2 DEF RecordInv
<1>12. QED BY <1>5, <1>9, <1>10, <1>11 DEF ProviderInv

LEMMA LoadInv ==
  ASSUME ProviderInv, NEW p \in Pages, Load(p)
  PROVE  ProviderInv'
<1>1. /\ TypeOK /\ LinkInv(p) /\ RecordInv /\ conn[p] \in LinkType /\ record \in RecordType
      /\ prov[p] \in TabType /\ pairings \in Nat
  BY DEF ProviderInv, TypeOK
<1>2. /\ ~prov[p].loaded
      /\ prov' = [prov EXCEPT ![p].loaded = TRUE, ![p].orphans = inflight]
      /\ UNCHANGED <<owner, record, inflight, call, aged, open, pairings, replied, approved,
                     waived>>
  BY DEF Load, wallet
<1>3. PICK t \in LinkType : /\ conn' = [conn EXCEPT ![p] = t]
                            /\ t.link \in {"none", "restorable"} /\ t.pairing = 0
  <2>1. CASE record = NoRecord
    <3>1. conn' = [conn EXCEPT ![p] = Unlinked(conn[p].chain)]
      BY <1>1, <2>1 DEF Load, TypeOK
    <3>2. /\ Unlinked(conn[p].chain) \in LinkType /\ Unlinked(conn[p].chain).link = "none"
          /\ Unlinked(conn[p].chain).pairing = 0
      BY <1>1, LinkTypes
    <3>3. QED BY <3>1, <3>2
  <2>2. CASE record # NoRecord
    <3> DEFINE t == [link |-> "restorable", pairing |-> 0, account |-> record.account,
                     chain |-> record.chain]
    <3>1. conn' = [conn EXCEPT ![p] = t]
      BY <1>1, <2>2 DEF Load, TypeOK
    <3>2. t \in LinkType /\ t.link = "restorable" /\ t.pairing = 0
      BY <1>1, <2>2, ProviderAssumption DEF LinkType, RecordType, RecordInv, Established
    <3> HIDE DEF t
    <3>3. QED BY <3>1, <3>2
  <2>3. QED BY <2>1, <2>2
<1>4. /\ conn' \in [Pages -> LinkType] /\ conn'[p] = t
      /\ \A q \in Pages \ {p} : conn'[q] = conn[q]
  BY <1>1, <1>3 DEF TypeOK
<1>5. /\ prov' \in [Pages -> TabType] /\ prov'[p].transition = prov[p].transition
      /\ prov'[p].queue = prov[p].queue /\ prov'[p].turn = prov[p].turn
      /\ prov'[p].loaded /\ \A q \in Pages \ {p} : prov'[q] = prov[q]
  BY <1>1, <1>2 DEF TypeOK, TabType
<1>6. TypeOK'
  BY <1>1, <1>2, <1>4, <1>5 DEF TypeOK
<1>7. prov[p].transition = "none"
  BY <1>1, <1>2 DEF LinkInv
<1>8. LinkInv(p)'
  BY <1>1, <1>2, <1>3, <1>4, <1>5, <1>7 DEF LinkInv, Established
<1>9. \A q \in Pages : LinkInv(q)'
  BY <1>1, <1>2, <1>4, <1>5, <1>8, OthersRest
<1>10. CallsInv' /\ InflightInv' /\ \A q \in Pages : TurnInv(q)'
  BY <1>1, <1>2, <1>5, CallsRest
<1>11. RecordInv'
  BY <1>1, <1>2 DEF RecordInv
<1>12. QED BY <1>6, <1>9, <1>10, <1>11 DEF ProviderInv

-----------------------------------------------------------------------------
(* Steps that move one call *)

LEMMA LinksRest ==
  ASSUME ProviderInv, UNCHANGED <<conn, owner>>, record'.pairing = record.pairing,
         pairings' \in Nat, pairings <= pairings', approved \subseteq approved',
         \A p \in Pages : /\ prov'[p].transition = prov[p].transition
                          /\ prov'[p].loaded = prov[p].loaded
  PROVE  \A p \in Pages : LinkInv(p)'
<1>1. TAKE p \in Pages
<1>2. TypeOK /\ LinkInv(p)
  BY DEF ProviderInv
<1>3. prov'[p].transition = prov[p].transition /\ prov'[p].loaded = prov[p].loaded
  OBVIOUS
<1>4. conn'[p] = conn[p] /\ owner' = owner
  OBVIOUS
<1>5. QED BY <1>2, <1>3, <1>4, LinkRests

\* A call of any page is settled.
LEMMA Settles ==
  ASSUME ProviderInv, NEW r \in Calls, NEW x \in {"answered", "refused", "late"},
         call[r].pc \notin {"free", "queued"}, call' = Put(r, Closed(call[r], x)),
         inflight' \subseteq inflight \ {r}, UNCHANGED <<pairings, approved>>,
         \A p \in Pages : /\ prov'[p].queue = prov[p].queue /\ prov'[p].turn = prov[p].turn
                          /\ prov'[p].loaded = prov[p].loaded
  PROVE  /\ CallsInv' /\ InflightInv' /\ \A p \in Pages : TurnInv(p)'
         /\ call' \in [Calls -> CallType] /\ inflight' \subseteq Calls
<1>1. TypeOK /\ CallsInv /\ InflightInv /\ (\A p \in Pages : TurnInv(p)) /\ pairings \in Nat
  BY DEF ProviderInv, TypeOK
<1>2. PICK c \in CallType : c = call[r]
  BY <1>1 DEF TypeOK
<1>3. Sound(c) /\ c.pc # "free"
  BY <1>1, <1>2 DEF CallsInv, Sound
<1> DEFINE d == Closed(c, x)
<1>4. d \in CallType /\ d.pc = x /\ Sound(d)
  BY <1>3, ClosedCall, ClosedSound
<1>5. call' = Put(r, d)
  BY <1>2
<1> HIDE DEF d
<1>6. Sound(d)'
  BY <1>1, <1>4, SoundGrows
<1>7. CallsInv'
  BY <1>1, <1>4, <1>5, <1>6, CallsMove
<1>8. InflightInv' /\ inflight' \subseteq Calls
  BY <1>1, <1>4, <1>5, InflightMoves
<1>9. d.pc \notin Open /\ d.pc # "queued"
  BY <1>4 DEF Open
<1>10. \A p \in Pages : TurnInv(p)'
  BY <1>1, <1>4, <1>5, <1>9, TurnGoesOn
<1>11. call' \in [Calls -> CallType]
  BY <1>1, <1>4, <1>5, PutCall
<1>12. QED BY <1>7, <1>8, <1>10, <1>11

LEMMA SendFailsInv ==
  ASSUME ProviderInv, NEW p \in Pages, NEW r \in Calls, SendFails(p, r)
  PROVE  ProviderInv'
<1>1. TypeOK /\ RecordInv /\ pairings \in Nat
  BY DEF ProviderInv, TypeOK
<1>2. /\ call[r].pc = "pending" /\ call' = Put(r, Closed(call[r], "refused"))
      /\ inflight' = inflight \ {r} /\ replied' = replied \cup {r}
      /\ UNCHANGED <<prov, conn, owner, record, aged, open, pairings, approved, waived>>
  BY DEF SendFails
<1>3. /\ CallsInv' /\ InflightInv' /\ \A q \in Pages : TurnInv(q)'
      /\ call' \in [Calls -> CallType] /\ inflight' \subseteq Calls
  BY <1>2, Settles
<1>4. TypeOK'
  BY <1>1, <1>2, <1>3 DEF TypeOK
<1>5. \A q \in Pages : LinkInv(q)'
  BY <1>1, <1>2, LinksRest
<1>6. RecordInv'
  BY <1>1, <1>2 DEF RecordInv
<1>7. QED BY <1>3, <1>4, <1>5, <1>6 DEF ProviderInv

LEMMA ExpireInv ==
  ASSUME ProviderInv, NEW r \in Calls, Expire(r)
  PROVE  ProviderInv'
<1>1. TypeOK /\ RecordInv /\ pairings \in Nat
  BY DEF ProviderInv, TypeOK
<1>2. /\ aged' = aged \cup {r} /\ inflight' = inflight \ {r}
      /\ call' = IF call[r].pc = "pending" THEN Put(r, Closed(call[r], "refused")) ELSE call
      /\ UNCHANGED <<prov, conn, owner, record, open, pairings, replied, approved, waived>>
  BY DEF Expire, wallet
<1>3. /\ CallsInv' /\ InflightInv' /\ \A q \in Pages : TurnInv(q)'
      /\ call' \in [Calls -> CallType] /\ inflight' \subseteq Calls
  <2>1. CASE call[r].pc = "pending"
    <3>1. call' = Put(r, Closed(call[r], "refused"))
      BY <1>2, <2>1
    <3>2. QED BY <1>2, <2>1, <3>1, Settles
  <2>2. CASE call[r].pc # "pending"
    <3>1. CallsInv' /\ InflightInv' /\ \A q \in Pages : TurnInv(q)'
      BY <1>1, <1>2, <2>2, CallsRest
    <3>2. QED BY <1>1, <1>2, <2>2, <3>1 DEF TypeOK
  <2>3. QED BY <2>1, <2>2
<1>4. TypeOK'
  BY <1>1, <1>2, <1>3 DEF TypeOK
<1>5. \A q \in Pages : LinkInv(q)'
  BY <1>1, <1>2, LinksRest
<1>6. RecordInv'
  BY <1>1, <1>2 DEF RecordInv
<1>7. QED BY <1>3, <1>4, <1>5, <1>6 DEF ProviderInv

LEMMA JoinSettlesInv ==
  ASSUME ProviderInv, NEW p \in Pages, NEW r \in Calls, JoinSettles(p, r)
  PROVE  ProviderInv'
<1>1. /\ TypeOK /\ RecordInv /\ CallsInv /\ InflightInv /\ LinkInv(p)
      /\ (\A q \in Pages : TurnInv(q)) /\ pairings \in Nat
  BY DEF ProviderInv, TypeOK
<1>2. /\ call[r].pc \in {"joining", "unpaired"}
      /\ UNCHANGED <<prov, conn, owner, record, aged, open, pairings, replied, approved,
                     waived>>
  BY DEF JoinSettles, wallet
<1>3. /\ CallsInv' /\ InflightInv' /\ \A q \in Pages : TurnInv(q)'
      /\ call' \in [Calls -> CallType] /\ inflight' \subseteq Calls
  <2>1. CASE call' = Put(r, Closed(call[r], "refused")) /\ UNCHANGED inflight
    <3>1. r \notin inflight
      BY <1>1, <1>2 DEF InflightInv, AtWallet
    <3>2. QED BY <1>2, <2>1, <3>1, Settles
  <2>2. CASE Send(p, r, call[r])
    <3>1. PICK c \in CallType : c = call[r]
      BY <1>1 DEF TypeOK
    <3>2. Sound(c) /\ c.pc \in {"joining", "unpaired"}
      BY <1>1, <1>2, <3>1 DEF CallsInv, Sound
    <3>3. c.page \in Pages /\ c.m \in Methods /\ c.sent = 0
      BY <3>2 DEF Sound, Unsent
    <3>4. Send(p, r, c)
      BY <2>2, <3>1 DEF Send
    <3>5. PICK d \in CallType : call' = Put(r, d) /\ Landed(p, c, d) /\ Recorded(r, d)
      BY <1>1, <3>3, <3>4, SendLands
    <3>6. Sound(d)'
      BY <1>1, <1>2, <3>5, SoundGrows DEF Landed
    <3>7. CallsInv'
      BY <1>1, <1>2, <3>5, <3>6, CallsMove
    <3>8. /\ inflight' \subseteq inflight \cup {r}
          /\ r \in inflight' => d.pc \in AtWallet \cup {"gone"} /\ d.sent # 0
      BY <1>1, <3>1, <3>2, <3>5 DEF Recorded, Landed, AtWallet, InflightInv
    <3>9. InflightInv' /\ inflight' \subseteq Calls
      BY <1>1, <3>5, <3>8, InflightMoves
    <3>10. /\ call[r].pc \in Open /\ call[r].pc # "queued" /\ d.pc # "queued"
           /\ d.page = call[r].page /\ d.m = call[r].m
           /\ d.pc \in Open => d.late = call[r].late
      BY <3>1, <3>2, <3>5 DEF Landed, Open
    <3>11. \A q \in Pages : TurnInv(q)'
      BY <1>1, <1>2, <3>5, <3>10, TurnGoesOn
    <3>12. call' \in [Calls -> CallType]
      BY <1>1, <3>5, PutCall
    <3>13. QED BY <3>7, <3>9, <3>11, <3>12
  <2>3. QED BY <2>1, <2>2 DEF JoinSettles
<1>4. TypeOK'
  BY <1>1, <1>2, <1>3 DEF TypeOK
<1>5. \A q \in Pages : LinkInv(q)'
  BY <1>1, <1>2, LinksRest
<1>6. RecordInv'
  BY <1>1, <1>2 DEF RecordInv
<1>7. QED BY <1>3, <1>4, <1>5, <1>6 DEF ProviderInv

LEMMA AuthorizeSettlesInv ==
  ASSUME ProviderInv, NEW p \in Pages, NEW r \in Calls, AuthorizeSettles(p, r)
  PROVE  ProviderInv'
<1>1. /\ TypeOK /\ RecordInv /\ LinkInv(p) /\ CallsInv /\ pairings \in Nat
      /\ conn[p] \in LinkType /\ record \in RecordType
  BY DEF ProviderInv, TypeOK
<1>2. /\ call[r].pc \in {"authorizing", "failing"} /\ inflight' = inflight \ {r}
      /\ UNCHANGED <<prov, conn, owner, aged, open, pairings, replied, approved, waived>>
  BY DEF AuthorizeSettles, wallet
<1>3. PICK x \in {"answered", "refused", "late"} : call' = Put(r, Closed(call[r], x))
  <2>1. \/ call' = Outcome(r, "answered")
        \/ call' = Outcome(r, "refused")
    BY DEF AuthorizeSettles
  <2>2. CASE call' = Outcome(r, "answered")
    BY <2>2, Zenon DEF Outcome
  <2>3. CASE call' = Outcome(r, "refused")
    BY <2>3, Zenon DEF Outcome
  <2>4. QED BY <2>1, <2>2, <2>3
<1>4. /\ CallsInv' /\ InflightInv' /\ \A q \in Pages : TurnInv(q)'
      /\ call' \in [Calls -> CallType] /\ inflight' \subseteq Calls
  BY <1>2, <1>3, Settles
<1>5. \/ record' = record
      \/ /\ conn[p].pairing = call[r].sent /\ call[r].pc = "authorizing"
         /\ record' = [record EXCEPT !.account = conn[p].account, !.chain = conn[p].chain]
  BY DEF AuthorizeSettles
<1>6. record' \in RecordType /\ record'.pairing = record.pairing
  BY <1>1, <1>5 DEF RecordType, LinkType
<1>7. TypeOK'
  BY <1>1, <1>2, <1>4, <1>6 DEF TypeOK
<1>8. \A q \in Pages : LinkInv(q)'
  BY <1>1, <1>2, <1>6, LinksRest
<1>9. RecordInv'
  <2>1. CASE record' = record
    BY <1>1, <1>2, <2>1 DEF RecordInv
  <2>2. CASE /\ conn[p].pairing = call[r].sent /\ call[r].pc = "authorizing"
             /\ record' = [record EXCEPT !.account = conn[p].account, !.chain = conn[p].chain]
    <3>1. record'.account = conn[p].account /\ record'.chain \in Chains
      BY <1>1, <2>2 DEF RecordType, LinkType
    <3>2. conn[p].pairing # 0
      BY <1>1, <2>2 DEF CallsInv, Sound, AtWallet
    <3>3. record.pairing \in {0, conn[p].pairing}
      BY <1>1, <3>2 DEF LinkInv
    <3>4. QED BY <1>1, <1>2, <1>6, <3>1, <3>2, <3>3 DEF RecordInv, LinkInv
  <2>3. QED BY <1>5, <2>1, <2>2
<1>10. QED BY <1>4, <1>7, <1>8, <1>9 DEF ProviderInv

LEMMA ApprovedCall ==
  ASSUME NEW c \in CallType, NEW a \in Accounts \cup {None}
  PROVE  LET d == [c EXCEPT !.pc = "authorizing", !.prev = a]
         IN  /\ d \in CallType /\ d.pc = "authorizing" /\ d.prev = a
             /\ d.page = c.page /\ d.m = c.m /\ d.sent = c.sent /\ d.late = c.late
             /\ d.made = c.made
  BY DEF CallType, Open

Adopted(c, p, a) ==
  [c EXCEPT !.pc = "authorizing", !.page = p, !.late = TRUE, !.prev = a]

LEMMA AdoptedCall ==
  ASSUME NEW c \in CallType, NEW a \in Accounts \cup {None}, NEW p \in Pages
  PROVE  /\ Adopted(c, p, a) \in CallType /\ Adopted(c, p, a).pc = "authorizing"
         /\ Adopted(c, p, a).prev = a /\ Adopted(c, p, a).page = p
         /\ Adopted(c, p, a).m = c.m /\ Adopted(c, p, a).sent = c.sent
         /\ Adopted(c, p, a).made = c.made
         /\ Adopted(c, p, a).late
  BY DEF CallType, Open, Adopted

\* The account of a page is replaced by one that is approved in its pairing.
LEMMA AccountChanges ==
  ASSUME ProviderInv, NEW p \in Pages, NEW a \in Accounts \cup {None},
         conn' = [conn EXCEPT ![p].account = a], conn[p].link \in Established,
         UNCHANGED <<owner, pairings, record>>, approved \subseteq approved',
         a # None => <<conn[p].pairing, a>> \in approved',
         \A q \in Pages : /\ prov'[q].transition = prov[q].transition
                          /\ prov'[q].loaded = prov[q].loaded
  PROVE  conn' \in [Pages -> LinkType] /\ \A q \in Pages : LinkInv(q)'
<1>1. TypeOK /\ LinkInv(p) /\ conn[p] \in LinkType /\ pairings \in Nat
  BY DEF ProviderInv, TypeOK
<1>2. conn' = [conn EXCEPT ![p] = [conn[p] EXCEPT !.account = a]]
  BY <1>1 DEF TypeOK
<1>3. /\ [conn[p] EXCEPT !.account = a] \in LinkType
      /\ [conn[p] EXCEPT !.account = a].link = conn[p].link
      /\ [conn[p] EXCEPT !.account = a].pairing = conn[p].pairing
      /\ [conn[p] EXCEPT !.account = a].account = a
  BY <1>1, LinkTypes
<1>4. /\ conn' \in [Pages -> LinkType] /\ conn'[p].link = conn[p].link
      /\ conn'[p].pairing = conn[p].pairing /\ conn'[p].account = a
      /\ \A q \in Pages \ {p} : conn'[q] = conn[q]
  BY <1>1, <1>2, <1>3 DEF TypeOK
<1>5. LinkInv(p)'
  BY <1>1, <1>4 DEF LinkInv, Established
<1>6. ASSUME NEW q \in Pages, q # p
      PROVE  LinkInv(q)'
  <2>1. TypeOK /\ LinkInv(q)
    BY DEF ProviderInv
  <2>2. /\ conn'[q] = conn[q] /\ prov'[q].transition = prov[q].transition
        /\ prov'[q].loaded = prov[q].loaded
    BY <1>4, <1>6
  <2>3. QED BY <1>1, <2>1, <2>2, LinkRests
<1>7. QED BY <1>4, <1>5, <1>6

LEMMA AuthorizeFailsInv ==
  ASSUME ProviderInv, NEW p \in Pages, NEW r \in Calls, AuthorizeFails(p, r)
  PROVE  ProviderInv'
<1>1. /\ TypeOK /\ RecordInv /\ CallsInv /\ InflightInv /\ LinkInv(p)
      /\ (\A q \in Pages : TurnInv(q)) /\ pairings \in Nat
  BY DEF ProviderInv, TypeOK
<1>2. /\ call[r].pc = "authorizing" /\ conn[p].pairing = call[r].sent
      /\ conn' = [conn EXCEPT ![p].account = call[r].prev]
      /\ call' = Put(r, [call[r] EXCEPT !.pc = "failing"])
      /\ UNCHANGED <<prov, owner, record, inflight, aged, open, pairings, replied, approved,
                     waived>>
  BY DEF AuthorizeFails, wallet
<1>3. PICK c \in CallType : c = call[r]
  BY <1>1 DEF TypeOK
<1>4. Sound(c) /\ c.pc = "authorizing" /\ c.sent # 0
  BY <1>1, <1>2, <1>3 DEF CallsInv, Sound, AtWallet
<1>5. PICK d \in CallType : /\ d = [c EXCEPT !.pc = "failing"]
                           /\ d.pc = "failing" /\ d.page = c.page /\ d.m = c.m
                           /\ d.sent = c.sent /\ d.late = c.late
  BY MovedCall
<1>6. call' = Put(r, d)
  BY <1>2, <1>3, <1>5
<1>7. Sound(d)
  BY <1>4, <1>5 DEF Sound, Unsent, AtWallet
<1>8. Sound(d)'
  BY <1>1, <1>2, <1>5, <1>7, SoundGrows
<1>19. pairings' \in Nat /\ pairings <= pairings' /\ approved \subseteq approved'
  BY <1>1, <1>2
<1>9. CallsInv'
  BY <1>1, <1>6, <1>8, <1>19, CallsMove
<1>10. InflightInv' /\ inflight' \subseteq Calls
  BY <1>1, <1>2, <1>4, <1>5, <1>6, InflightMoves DEF AtWallet
<1>11. \A q \in Pages : TurnInv(q)'
  <2>1. call[r].pc \in Open /\ call[r].pc # "queued" /\ d.pc # "queued"
    BY <1>2, <1>5 DEF Open
  <2>2. QED BY <1>1, <1>2, <1>3, <1>5, <1>6, <2>1, TurnGoesOn
<1>12. call' \in [Calls -> CallType]
  BY <1>1, <1>5, <1>6, PutCall
<1>13. PICK a \in Accounts \cup {None} : a = c.prev
  BY DEF CallType
<1>14. /\ a # None => <<conn[p].pairing, a>> \in approved'
       /\ conn[p].link \in Established
       /\ conn' = [conn EXCEPT ![p].account = a]
  BY <1>1, <1>2, <1>3, <1>4, <1>13 DEF Sound, LinkInv
<1>15. conn' \in [Pages -> LinkType] /\ \A q \in Pages : LinkInv(q)'
  BY <1>2, <1>14, AccountChanges
<1>16. TypeOK'
  BY <1>1, <1>2, <1>10, <1>12, <1>15 DEF TypeOK
<1>17. RecordInv'
  BY <1>1, <1>2 DEF RecordInv
<1>18. QED BY <1>9, <1>10, <1>11, <1>15, <1>16, <1>17 DEF ProviderInv

\* An answer approves account a: call d is authorizing.
LEMMA Approves ==
  ASSUME ProviderInv, NEW p \in Pages, NEW r \in Calls, NEW c \in CallType, c = call[r],
         NEW a \in Accounts, NEW d \in CallType, c.sent # 0, conn[p].pairing = c.sent,
         d.pc = "authorizing", d.prev = conn[p].account, d.m = c.m, d.sent = c.sent,
         \/ c.pc = "pending" /\ d.page = c.page /\ d.late = c.late
         \/ d.page = p /\ d.late,
         call' = Put(r, d), conn' = [conn EXCEPT ![p].account = a],
         approved' = approved \cup {<<conn[p].pairing, a>>},
         inflight' \subseteq inflight,
         UNCHANGED <<owner, record, aged, open, pairings, waived>>, replied' = replied \cup {r},
         prov' \in [Pages -> TabType],
         \A q \in Pages :
           /\ prov'[q].queue = prov[q].queue /\ prov'[q].turn = prov[q].turn
           /\ prov'[q].loaded = prov[q].loaded /\ prov'[q].transition = prov[q].transition
  PROVE  ProviderInv'
<1>1. /\ TypeOK /\ RecordInv /\ CallsInv /\ InflightInv /\ LinkInv(p)
      /\ (\A q \in Pages : TurnInv(q)) /\ pairings \in Nat /\ conn[p] \in LinkType
  BY DEF ProviderInv, TypeOK
<1>2. Sound(c)
  BY <1>1 DEF CallsInv, Sound
<1>3. c.pc # "free" /\ c.pc # "queued" /\ c.page \in Pages /\ c.m \in Methods
  BY <1>2 DEF Sound, Unsent
<1>4. d.page \in Pages
  BY <1>3
<1>5. Sound(d)'
  <2>1. d.sent <= pairings /\ <<conn[p].pairing, a>> \in approved' /\ approved \subseteq approved'
    BY <1>2 DEF Sound
  <2>2. conn[p].account # None => <<d.sent, conn[p].account>> \in approved
    BY <1>1 DEF LinkInv
  <2>3. d.m.type = "sign" => <<d.sent, d.m.account>> \in approved
    BY <1>2 DEF Sound
  <2>4. QED BY <1>3, <1>4, <2>1, <2>2, <2>3 DEF Sound, Unsent, AtWallet
<1>6. CallsInv'
  BY <1>1, <1>5, CallsMove
<1>7. InflightInv' /\ inflight' \subseteq Calls
  BY <1>1, InflightMoves DEF AtWallet
<1>8. conn[p].link \in Established /\ prov[p].loaded
  BY <1>1 DEF LinkInv, Established
<1>9. \A q \in Pages : TurnInv(q)'
  <2>1. CASE c.pc = "pending" /\ d.page = c.page /\ d.late = c.late
    <3>1. call[r].pc \in Open
      BY <2>1 DEF Open
    <3>2. QED BY <1>1, <2>1, <3>1, TurnGoesOn
  <2>2. CASE d.page = p /\ d.late
    BY <1>1, <1>3, <1>8, <2>2, TurnMoves
  <2>3. QED BY <2>1, <2>2
<1>10. call' \in [Calls -> CallType]
  BY <1>1, PutCall
<1>11. conn' \in [Pages -> LinkType] /\ \A q \in Pages : LinkInv(q)'
  BY <1>8, AccountChanges
<1>12. approved' \subseteq Pairings \X Accounts
  <2>1. conn[p].pairing \in Pairings
    BY <1>1 DEF LinkType, Pairings
  <2>2. QED BY <1>1, <2>1 DEF TypeOK
<1>13. TypeOK'
  BY <1>1, <1>7, <1>10, <1>11, <1>12 DEF TypeOK
<1>14. RecordInv'
  BY <1>1 DEF RecordInv
<1>15. QED BY <1>6, <1>7, <1>9, <1>11, <1>13, <1>14 DEF ProviderInv

\* An answer settles the call.
LEMMA AnswerSettles ==
  ASSUME ProviderInv, NEW r \in Calls, NEW x \in {"answered", "refused", "late"},
         call[r].sent # 0, call' = Put(r, Closed(call[r], x)), inflight' = inflight \ {r},
         UNCHANGED <<conn, owner, record, aged, open, pairings, approved, waived>>,
         replied' = replied \cup {r}, prov' \in [Pages -> TabType],
         \A q \in Pages :
           /\ prov'[q].queue = prov[q].queue /\ prov'[q].turn = prov[q].turn
           /\ prov'[q].loaded = prov[q].loaded /\ prov'[q].transition = prov[q].transition
  PROVE  ProviderInv'
<1>1. TypeOK /\ RecordInv /\ pairings \in Nat
  BY DEF ProviderInv, TypeOK
<1>2. call[r].pc \notin {"free", "queued"}
  BY DEF ProviderInv, CallsInv, Sound, Unsent
<1>3. /\ CallsInv' /\ InflightInv' /\ \A q \in Pages : TurnInv(q)'
      /\ call' \in [Calls -> CallType] /\ inflight' \subseteq Calls
  BY <1>2, Settles
<1>4. TypeOK'
  BY <1>1, <1>3 DEF TypeOK
<1>5. \A q \in Pages : LinkInv(q)'
  BY <1>1, LinksRest
<1>6. RecordInv'
  BY <1>1 DEF RecordInv
<1>7. QED BY <1>3, <1>4, <1>5, <1>6 DEF ProviderInv

LEMMA ResponseInv ==
  ASSUME ProviderInv, NEW p \in Pages, NEW r \in Calls, Response(p, r)
  PROVE  ProviderInv'
<1>1. /\ TypeOK /\ RecordInv /\ pairings \in Nat /\ conn[p] \in LinkType /\ prov[p] \in TabType
  BY DEF ProviderInv, TypeOK
<1>2. /\ call[r].sent # 0 /\ conn[p].pairing = call[r].sent /\ replied' = replied \cup {r}
      /\ UNCHANGED <<owner, record, aged, open, pairings, waived>>
  BY DEF Response
<1>3. PICK c \in CallType : c = call[r]
  BY <1>1 DEF TypeOK
<1>4. conn[p].account \in Accounts \cup {None}
  BY <1>1 DEF LinkType
<1>5. CASE RespondPending(p, r)
  <2>1. call[r].pc = "pending" /\ call[r].page = p /\ UNCHANGED prov
    BY <1>5 DEF RespondPending
  <2>2. CASE \E a \in Accounts :
               /\ call' = Put(r, [call[r] EXCEPT !.pc = "authorizing", !.prev = conn[p].account])
               /\ conn' = [conn EXCEPT ![p].account = a]
               /\ approved' = approved \cup {<<conn[p].pairing, a>>}
               /\ inflight' = inflight
    <3>1. PICK a \in Accounts :
            /\ call' = Put(r, [call[r] EXCEPT !.pc = "authorizing", !.prev = conn[p].account])
            /\ conn' = [conn EXCEPT ![p].account = a]
            /\ approved' = approved \cup {<<conn[p].pairing, a>>}
            /\ inflight' = inflight
      BY <2>2
    <3>2. PICK d \in CallType :
            /\ d = [c EXCEPT !.pc = "authorizing", !.prev = conn[p].account]
            /\ d.pc = "authorizing" /\ d.prev = conn[p].account
            /\ d.page = c.page /\ d.m = c.m /\ d.sent = c.sent /\ d.late = c.late
      BY <1>4, ApprovedCall
    <3>3. call' = Put(r, d)
      BY <1>3, <3>1, <3>2
    <3>4. c.pc = "pending" /\ c.sent # 0 /\ conn[p].pairing = c.sent
      BY <1>2, <1>3, <2>1
    <3>5. prov' \in [Pages -> TabType] /\ inflight' \subseteq inflight
      BY <1>1, <2>1, <3>1 DEF TypeOK
    <3>6. /\ d.pc = "authorizing" /\ d.prev = conn[p].account /\ d.page = c.page
          /\ d.m = c.m /\ d.sent = c.sent /\ d.late = c.late
      BY <3>2
    <3>7. /\ conn' = [conn EXCEPT ![p].account = a]
          /\ approved' = approved \cup {<<conn[p].pairing, a>>}
      BY <3>1
    <3>8. QED BY <1>2, <1>3, <2>1, <3>3, <3>4, <3>5, <3>6, <3>7, Approves
  <2>3. CASE /\ \E x \in {"answered", "refused"} : call' = Put(r, Closed(call[r], x))
             /\ inflight' = inflight \ {r} /\ UNCHANGED <<conn, approved>>
    BY <1>1, <1>2, <2>1, <2>3, AnswerSettles DEF TypeOK
  <2>4. QED BY <1>5, <2>2, <2>3 DEF RespondPending
<1>6. CASE RespondOrphan(p, r)
  <2>1. prov' = [prov EXCEPT ![p].orphans = prov[p].orphans \ {r}] /\ inflight' = inflight \ {r}
    BY <1>6 DEF RespondOrphan
  <2>2. /\ prov' \in [Pages -> TabType]
        /\ \A q \in Pages :
             /\ prov'[q].queue = prov[q].queue /\ prov'[q].turn = prov[q].turn
             /\ prov'[q].loaded = prov[q].loaded /\ prov'[q].transition = prov[q].transition
    BY <1>1, <2>1 DEF TypeOK, TabType
  <2>3. CASE \E a \in Accounts :
               /\ call' = Put(r, [call[r] EXCEPT !.pc = "authorizing", !.page = p,
                                    !.late = TRUE, !.prev = conn[p].account])
               /\ conn' = [conn EXCEPT ![p].account = a]
               /\ approved' = approved \cup {<<conn[p].pairing, a>>}
    <3>1. PICK a \in Accounts :
            /\ call' = Put(r, [call[r] EXCEPT !.pc = "authorizing", !.page = p,
                                 !.late = TRUE, !.prev = conn[p].account])
            /\ conn' = [conn EXCEPT ![p].account = a]
            /\ approved' = approved \cup {<<conn[p].pairing, a>>}
      BY <2>3
    <3>2. PICK d : d = Adopted(c, p, conn[p].account)
      OBVIOUS
    <3>3. call' = Put(r, d)
      BY <1>3, <3>1, <3>2 DEF Adopted
    <3>4. c.sent # 0 /\ conn[p].pairing = c.sent
      BY <1>2, <1>3
    <3>5. inflight' \subseteq inflight
      BY <2>1
    <3>6. /\ d \in CallType /\ d.pc = "authorizing" /\ d.prev = conn[p].account
          /\ d.page = p /\ d.m = c.m /\ d.sent = c.sent /\ d.late
      BY <1>4, <3>2, AdoptedCall
    <3>7. /\ conn' = [conn EXCEPT ![p].account = a]
          /\ approved' = approved \cup {<<conn[p].pairing, a>>}
      BY <3>1
    <3>8. QED BY <1>2, <1>3, <2>2, <3>3, <3>4, <3>5, <3>6, <3>7, Approves
  <2>4. CASE call' = Put(r, Closed(call[r], "late")) /\ UNCHANGED <<conn, approved>>
    BY <1>1, <1>2, <2>1, <2>2, <2>4, AnswerSettles
  <2>5. QED BY <1>6, <2>3, <2>4 DEF RespondOrphan
<1>7. CASE RespondUnknown(p, r)
  <2>1. UNCHANGED <<prov, conn, inflight, call, approved>>
    BY <1>7 DEF RespondUnknown
  <2>2. CallsInv' /\ InflightInv' /\ \A q \in Pages : TurnInv(q)'
    BY <1>1, <1>2, <2>1, CallsRest
  <2>3. \A q \in Pages : LinkInv(q)'
    BY <1>1, <1>2, <2>1, LinksRest
  <2>4. TypeOK' /\ RecordInv'
    BY <1>1, <1>2, <2>1 DEF TypeOK, RecordInv
  <2>5. QED BY <2>2, <2>3, <2>4 DEF ProviderInv
<1>8. QED BY <1>5, <1>6, <1>7 DEF Response

-----------------------------------------------------------------------------
(* The turn *)

Asked(p, m, n) == [Unused EXCEPT !.page = p, !.m = m, !.current = TRUE, !.made = n]

LEMMA AskedCall ==
  ASSUME NEW p \in Pages, NEW m \in Methods, NEW n \in 0 .. MaxPairings
  PROVE  /\ Asked(p, m, n) \in CallType
         /\ Asked(p, m, n).pc = "free" /\ Asked(p, m, n).page = p /\ Asked(p, m, n).m = m
         /\ Asked(p, m, n).current /\ Asked(p, m, n).made = n /\ Asked(p, m, n).sent = 0
<1>1. 0 \in 0 .. MaxPairings /\ None \in Accounts \cup {None}
  BY ProviderAssumption
<1>2. QED BY <1>1 DEF Asked, Unused, CallType

LEMMA TurnRests ==
  ASSUME NEW p \in Pages, TurnInv(p), prov'[p] = prov[p], Of(p)' = Of(p),
         \A x \in Of(p) : call'[x] = call[x]
  PROVE  TurnInv(p)'
<1>1. {x \in Of(p) : call[x].pc = "queued"}' = {x \in Of(p) : call[x].pc = "queued"}
  OBVIOUS
<1>2. {prov[p].queue[i] : i \in 1 .. Len(prov[p].queue)}'
        = {prov[p].queue[i] : i \in 1 .. Len(prov[p].queue)}
  OBVIOUS
<1>3. /\ {prov[p].queue[i] : i \in 1 .. Len(prov[p].queue)}
            = {x \in Of(p) : call[x].pc = "queued"}
      /\ \A i, j \in 1 .. Len(prov[p].queue) : prov[p].queue[i] = prov[p].queue[j] => i = j
  BY DEF TurnInv
<1>4. \A i, j \in 1 .. Len(prov'[p].queue) : prov'[p].queue[i] = prov'[p].queue[j] => i = j
  BY <1>3
<1>5. ASSUME NEW x \in Of(p)', Restricted(x)', ~call'[x].late, call'[x].pc # "queued"
      PROVE  prov'[p].turn = x
  BY <1>5 DEF TurnInv, Restricted
<1>6. ~prov'[p].loaded => Of(p)' = {}
  BY DEF TurnInv
<1>7. QED BY <1>1, <1>2, <1>3, <1>4, <1>5, <1>6 DEF TurnInv

\* A call that is made while the turn is taken waits for it.
LEMMA TurnQueues ==
  ASSUME TypeOK, \A p \in Pages : TurnInv(p), NEW p \in Pages, prov[p].loaded,
         NEW r \in Calls, NEW d \in CallType, call[r].pc = "free", call' = Put(r, d),
         d.page = p, d.pc = "queued",
         prov' = [prov EXCEPT ![p].queue = Append(prov[p].queue, r)]
  PROVE  prov' \in [Pages -> TabType] /\ \A q \in Pages : TurnInv(q)'
<1>1. call'[r] = d /\ \A q \in Calls : q # r => call'[q] = call[q]
  BY PutCall
<1>2. prov[p] \in TabType /\ prov[p].queue \in Seq(Calls)
  BY DEF TypeOK, TabType
<1> DEFINE s == Append(prov[p].queue, r)
<1>3. s \in Seq(Calls) /\ Len(s) = Len(prov[p].queue) + 1 /\ s[Len(s)] = r
  BY <1>2
<1>4. \A i \in 1 .. Len(prov[p].queue) : s[i] = prov[p].queue[i]
  BY <1>2
<1>5. Len(prov[p].queue) \in Nat
  BY <1>2
<1>6. \A i \in 1 .. Len(s) : i \in 1 .. Len(prov[p].queue) \/ i = Len(s)
  BY <1>3, <1>5
<1> HIDE DEF s
<1>7. /\ prov' \in [Pages -> TabType] /\ prov'[p].queue = s /\ prov'[p].turn = prov[p].turn
      /\ prov'[p].loaded /\ \A q \in Pages \ {p} : prov'[q] = prov[q]
  BY <1>2, <1>3 DEF TypeOK, TabType, s
<1>8. ASSUME NEW q \in Pages, q # p
      PROVE  TurnInv(q)'
  <2>1. Of(q)' = Of(q) /\ \A x \in Of(q) : call'[x] = call[x]
    BY <1>1, <1>8 DEF Of, Open
  <2>2. TurnInv(q) /\ prov'[q] = prov[q]
    BY <1>7, <1>8
  <2>3. QED BY <2>1, <2>2, TurnRests
<1>9. TurnInv(p)
  OBVIOUS
<1>10. \A x : x \in Of(p)' <=> x \in Of(p) \/ x = r
  BY <1>1 DEF Of, Open
<1>11. r \notin Of(p) /\ \A x \in Of(p) : x \in Calls /\ call'[x] = call[x]
  BY <1>1 DEF Of, Open
<1>12. \A i \in 1 .. Len(prov[p].queue) : prov[p].queue[i] \in Of(p) /\ call[prov[p].queue[i]].pc = "queued"
  BY <1>9 DEF TurnInv
<1>13. \A x : x \in {s[i] : i \in 1 .. Len(s)} <=> x \in {y \in Of(p) : call[y].pc = "queued"}'
  <2>1. ASSUME NEW i \in 1 .. Len(s)
        PROVE  s[i] \in Of(p)' /\ call'[s[i]].pc = "queued"
    <3>1. CASE i \in 1 .. Len(prov[p].queue)
      BY <1>4, <1>10, <1>11, <1>12, <3>1
    <3>2. CASE i = Len(s)
      BY <1>1, <1>3, <1>10, <3>2
    <3>3. QED BY <1>6, <3>1, <3>2
  <2>2. ASSUME NEW x \in Of(p)', call'[x].pc = "queued"
        PROVE  \E i \in 1 .. Len(s) : s[i] = x
    <3>1. CASE x = r
      BY <1>3, <1>5, <3>1
    <3>2. CASE x # r
      <4>1. x \in Of(p) /\ call[x].pc = "queued"
        BY <1>10, <1>11, <2>2, <3>2
      <4>2. PICK i \in 1 .. Len(prov[p].queue) : prov[p].queue[i] = x
        BY <1>9, <4>1 DEF TurnInv
      <4>3. i \in 1 .. Len(s) /\ s[i] = x
        BY <1>3, <1>4, <1>5, <4>2
      <4>4. QED BY <4>3
    <3>3. QED BY <3>1, <3>2
  <2>3. QED BY <2>1, <2>2
<1>14. \A i, j \in 1 .. Len(s) : s[i] = s[j] => i = j
  <2>1. SUFFICES ASSUME NEW i \in 1 .. Len(s), NEW j \in 1 .. Len(s), s[i] = s[j]
                 PROVE  i = j
    OBVIOUS
  <2>2. CASE i \in 1 .. Len(prov[p].queue) /\ j \in 1 .. Len(prov[p].queue)
    BY <1>4, <1>9, <2>1, <2>2 DEF TurnInv
  <2>3. CASE i = Len(s) /\ j \in 1 .. Len(prov[p].queue)
    BY <1>3, <1>4, <1>11, <1>12, <2>1, <2>3
  <2>4. CASE j = Len(s) /\ i \in 1 .. Len(prov[p].queue)
    BY <1>3, <1>4, <1>11, <1>12, <2>1, <2>4
  <2>5. QED BY <1>6, <2>2, <2>3, <2>4
<1>15. \A x \in Of(p)' : Restricted(x)' /\ ~call'[x].late /\ call'[x].pc # "queued"
                           => prov'[p].turn = x
  BY <1>1, <1>7, <1>9, <1>10, <1>11 DEF TurnInv, Restricted
<1>16. TurnInv(p)'
  BY <1>7, <1>13, <1>14, <1>15 DEF TurnInv
<1>17. QED BY <1>7, <1>8, <1>16

\* The first call of the queue takes over from one that is settled.
LEMMA TurnPasses ==
  ASSUME TypeOK, \A p \in Pages : TurnInv(p), NEW p \in Pages,
         Settled(prov[p].turn), prov[p].queue # <<>>,
         NEW r \in Calls, r = Head(prov[p].queue), NEW d \in CallType,
         call' = Put(r, d), d.page = p, d.pc # "queued",
         prov' = [prov EXCEPT ![p].turn = r, ![p].queue = Tail(prov[p].queue)]
  PROVE  prov' \in [Pages -> TabType] /\ \A q \in Pages : TurnInv(q)'
<1>1. call'[r] = d /\ \A q \in Calls : q # r => call'[q] = call[q]
  BY PutCall
<1>2. prov[p] \in TabType /\ prov[p].queue \in Seq(Calls)
  BY DEF TypeOK, TabType
<1> DEFINE s == Tail(prov[p].queue)
           n == Len(prov[p].queue)
<1>3. /\ n \in Nat /\ n # 0 /\ r = prov[p].queue[1]
      /\ s \in Seq(Calls) /\ Len(s) = n - 1
      /\ \A i \in 1 .. Len(s) : s[i] = prov[p].queue[i + 1]
  BY <1>2
<1>4. r \in 0 .. MaxCalls
  BY DEF Calls
<1>5. /\ prov' \in [Pages -> TabType] /\ prov'[p].queue = s /\ prov'[p].turn = r
      /\ prov'[p].loaded = prov[p].loaded /\ \A q \in Pages \ {p} : prov'[q] = prov[q]
  BY <1>2, <1>3, <1>4 DEF TypeOK, TabType
<1> HIDE DEF s, n
<1>6. TurnInv(p)
  OBVIOUS
<1>7. \A i \in 1 .. n : prov[p].queue[i] \in Of(p) /\ call[prov[p].queue[i]].pc = "queued"
  BY <1>6 DEF TurnInv, n
<1>8. r \in Of(p) /\ call[r].pc = "queued" /\ call[r].page = p
  BY <1>3, <1>7 DEF Of
<1>9. ASSUME NEW q \in Pages, q # p
      PROVE  TurnInv(q)'
  <2>1. Of(q)' = Of(q) /\ \A x \in Of(q) : call'[x] = call[x]
    BY <1>1, <1>8, <1>9 DEF Of
  <2>2. TurnInv(q) /\ prov'[q] = prov[q]
    BY <1>5, <1>9
  <2>3. QED BY <2>1, <2>2, TurnRests
<1>10. \A x : x # r => (x \in Of(p)' <=> x \in Of(p))
  BY <1>1 DEF Of
<1>11. \A x \in Of(p) : x \in Calls /\ (x # r => call'[x] = call[x])
  BY <1>1 DEF Of
<1>12. \A i, j \in 1 .. n : prov[p].queue[i] = prov[p].queue[j] => i = j
  BY <1>6 DEF TurnInv, n
<1>13. \A i \in 1 .. Len(s) : i + 1 \in 1 .. n /\ s[i] = prov[p].queue[i + 1] /\ s[i] # r
  <2>1. TAKE i \in 1 .. Len(s)
  <2>2. i + 1 \in 1 .. n /\ i + 1 # 1 /\ 1 \in 1 .. n
    BY <1>3
  <2>3. QED BY <1>3, <1>12, <2>2
<1>14. \A x : x \in {s[i] : i \in 1 .. Len(s)} <=> x \in {y \in Of(p) : call[y].pc = "queued"}'
  <2>1. ASSUME NEW i \in 1 .. Len(s)
        PROVE  s[i] \in Of(p)' /\ call'[s[i]].pc = "queued"
    <3>1. s[i] # r /\ s[i] \in Of(p) /\ call[s[i]].pc = "queued"
      BY <1>7, <1>13
    <3>2. QED BY <1>10, <1>11, <3>1
  <2>2. ASSUME NEW x \in Of(p)', call'[x].pc = "queued"
        PROVE  \E i \in 1 .. Len(s) : s[i] = x
    <3>1. x # r
      BY <1>1, <2>2
    <3>2. x \in Of(p) /\ call[x].pc = "queued"
      BY <1>10, <1>11, <2>2, <3>1
    <3>3. PICK i \in 1 .. n : prov[p].queue[i] = x
      BY <1>6, <3>2 DEF TurnInv, n
    <3>4. i # 1
      BY <1>3, <3>1, <3>3
    <3>5. i - 1 \in 1 .. Len(s) /\ (i - 1) + 1 = i
      BY <1>3, <3>4
    <3>6. s[i - 1] = x
      BY <1>13, <3>3, <3>5
    <3>7. QED BY <3>5, <3>6
  <2>3. QED BY <2>1, <2>2
<1>15. \A i, j \in 1 .. Len(s) : s[i] = s[j] => i = j
  <2>1. SUFFICES ASSUME NEW i \in 1 .. Len(s), NEW j \in 1 .. Len(s), s[i] = s[j]
                 PROVE  i = j
    OBVIOUS
  <2>2. i + 1 = j + 1
    BY <1>12, <1>13, <2>1
  <2>3. QED BY <1>3, <2>2
<1>16. ASSUME NEW x \in Of(p)', Restricted(x)', ~call'[x].late, call'[x].pc # "queued"
       PROVE  x = r
  <2>1. SUFFICES ASSUME x # r PROVE FALSE
    OBVIOUS
  <2>2. x \in Of(p) /\ call'[x] = call[x]
    BY <1>10, <1>11, <2>1
  <2>3. prov[p].turn = x
    BY <1>6, <1>16, <2>2 DEF TurnInv, Restricted
  <2>4. call[x].pc \in Open
    BY <2>2 DEF Of
  <2>5. QED BY <2>3, <2>4 DEF Settled, Open
<1>17. ~prov'[p].loaded => Of(p)' = {}
  BY <1>5, <1>6, <1>8 DEF TurnInv
<1>18. TurnInv(p)'
  BY <1>5, <1>14, <1>15, <1>16, <1>17 DEF TurnInv
<1>19. QED BY <1>5, <1>9, <1>18

LEMMA Lands ==
  ASSUME ProviderInv, NEW p \in Pages, NEW r \in Calls, r \notin inflight,
         NEW c \in CallType, NEW d \in CallType, call' = Put(r, d), Landed(p, c, d),
         Recorded(r, d), UNCHANGED <<pairings, approved>>
  PROVE  /\ CallsInv' /\ InflightInv'
         /\ call' \in [Calls -> CallType] /\ inflight' \subseteq Calls
<1>1. TypeOK /\ CallsInv /\ InflightInv /\ pairings \in Nat
  BY DEF ProviderInv, TypeOK
<1>2. Sound(d)'
  BY <1>1, SoundGrows DEF Landed
<1>3. CallsInv'
  BY <1>1, <1>2, CallsMove
<1>4. /\ inflight' \subseteq inflight \cup {r}
      /\ r \in inflight' => d.pc \in AtWallet \cup {"gone"} /\ d.sent # 0
  BY DEF Recorded, Landed, AtWallet
<1>5. InflightInv' /\ inflight' \subseteq Calls
  BY <1>1, <1>4, InflightMoves
<1>6. call' \in [Calls -> CallType]
  BY <1>1, PutCall
<1>7. QED BY <1>3, <1>5, <1>6

LEMMA RequestInv ==
  ASSUME ProviderInv, NEW p \in Pages, NEW r \in Calls, NEW m \in Methods, Request(p, r, m)
  PROVE  ProviderInv'
<1>1. /\ TypeOK /\ RecordInv /\ CallsInv /\ InflightInv /\ LinkInv(p)
      /\ (\A q \in Pages : TurnInv(q)) /\ pairings \in Nat /\ prov[p] \in TabType
  BY DEF ProviderInv, TypeOK
<1>2. /\ prov[p].loaded /\ call[r].pc = "free"
      /\ UNCHANGED <<conn, owner, record, aged, open, pairings, replied, approved, waived>>
  BY DEF Request, wallet
<1>3. PICK n \in 0 .. MaxPairings : n = PairingSeen(p)
  BY <1>1 DEF PairingSeen, TypeOK, LinkType, RecordType
<1>4. PICK c : c = Asked(p, m, n)
  OBVIOUS
<1>5. /\ c \in CallType /\ c.pc = "free" /\ c.page = p /\ c.m = m /\ c.current /\ c.sent = 0
  BY <1>4, AskedCall
<1>6. \/ /\ m.type = "read" \/ ~TurnTaken(p)
         /\ prov' = IF m.type = "read" THEN prov ELSE [prov EXCEPT ![p].turn = r]
         /\ Perform(p, r, c)
      \/ /\ prov' = [prov EXCEPT ![p].queue = Append(prov[p].queue, r)]
         /\ call' = Put(r, [c EXCEPT !.pc = "queued"])
         /\ UNCHANGED inflight
  BY <1>3, <1>4 DEF Request, Asked
<1>7. r \notin inflight
  BY <1>1, <1>2 DEF InflightInv, AtWallet
<1>8. CASE /\ m.type = "read" \/ ~TurnTaken(p)
           /\ prov' = IF m.type = "read" THEN prov ELSE [prov EXCEPT ![p].turn = r]
           /\ Perform(p, r, c)
  <2>1. PICK d \in CallType : call' = Put(r, d) /\ Landed(p, c, d) /\ Recorded(r, d)
    BY <1>1, <1>5, <1>8, PerformLands
  <2>2. /\ CallsInv' /\ InflightInv'
        /\ call' \in [Calls -> CallType] /\ inflight' \subseteq Calls
    BY <1>2, <1>5, <1>7, <2>1, Lands
  <2>3. r \in 0 .. MaxCalls
    BY DEF Calls
  <2>4. /\ prov' \in [Pages -> TabType]
        /\ \A q \in Pages :
             /\ prov'[q].queue = prov[q].queue /\ prov'[q].loaded = prov[q].loaded
             /\ prov'[q].transition = prov[q].transition
        /\ \A q \in Pages : prov'[q].turn = prov[q].turn \/ prov[q].turn = 0
        /\ m.type = "read" \/ prov'[p].turn = r
    <3>1. CASE m.type = "read"
      BY <1>1, <1>8, <3>1 DEF TypeOK
    <3>2. CASE m.type # "read"
      <4>1. prov' = [prov EXCEPT ![p].turn = r] /\ prov[p].turn = 0
        BY <1>8, <3>2 DEF TurnTaken
      <4>2. QED BY <1>1, <2>3, <4>1 DEF TypeOK, TabType
    <3>3. QED BY <3>1, <3>2
  <2>5. /\ d.pc # "queued" /\ d.page = p /\ d.m = m
    BY <1>5, <2>1 DEF Landed
  <2>6. \A q \in Pages : TurnInv(q)'
    BY <1>1, <1>2, <2>1, <2>4, <2>5, TurnMoves
  <2>7. \A q \in Pages : LinkInv(q)'
    BY <1>1, <1>2, <2>4, LinksRest
  <2>8. TypeOK' /\ RecordInv'
    BY <1>1, <1>2, <2>2, <2>4 DEF TypeOK, RecordInv
  <2>9. QED BY <2>2, <2>6, <2>7, <2>8 DEF ProviderInv
<1>9. CASE /\ prov' = [prov EXCEPT ![p].queue = Append(prov[p].queue, r)]
           /\ call' = Put(r, [c EXCEPT !.pc = "queued"])
           /\ UNCHANGED inflight
  <2>1. PICK d \in CallType : /\ d = [c EXCEPT !.pc = "queued"]
                              /\ d.pc = "queued" /\ d.page = c.page /\ d.m = c.m
                              /\ d.sent = c.sent
    BY <1>5, MovedCall
  <2>2. call' = Put(r, d)
    BY <1>9, <2>1
  <2>3. d.pc = "queued" /\ d.page = p /\ d.m = m /\ d.sent = 0 /\ d.current
    BY <1>5, <2>1 DEF CallType
  <2>4. Sound(d)
    BY <1>1, <2>3 DEF Sound, Unsent, AtWallet
  <2>5. Sound(d)'
    BY <1>1, <1>2, <2>4, SoundGrows
  <2>6. CallsInv'
    BY <1>1, <1>2, <2>2, <2>5, CallsMove
  <2>7. InflightInv' /\ inflight' \subseteq Calls
    BY <1>1, <1>7, <1>9, <2>2, InflightMoves
  <2>8. prov' = [prov EXCEPT ![p].queue = Append(prov[p].queue, r)]
    BY <1>9
  <2>9. prov' \in [Pages -> TabType] /\ \A q \in Pages : TurnInv(q)'
    BY <1>1, <1>2, <2>2, <2>3, <2>8, TurnQueues
  <2>10. \A q \in Pages :
           prov'[q].loaded = prov[q].loaded /\ prov'[q].transition = prov[q].transition
    BY <1>1, <2>8 DEF TypeOK, TabType
  <2>11. \A q \in Pages : LinkInv(q)'
    BY <1>1, <1>2, <2>10, LinksRest
  <2>12. call' \in [Calls -> CallType]
    BY <1>1, <2>2, PutCall
  <2>13. TypeOK' /\ RecordInv'
    BY <1>1, <1>2, <2>7, <2>9, <2>12 DEF TypeOK, RecordInv
  <2>14. QED BY <2>6, <2>7, <2>9, <2>11, <2>13 DEF ProviderInv
<1>10. QED BY <1>6, <1>8, <1>9

LEMMA FinishRestrictedInv ==
  ASSUME ProviderInv, NEW p \in Pages, FinishRestricted(p)
  PROVE  ProviderInv'
<1>1. /\ TypeOK /\ RecordInv /\ CallsInv /\ InflightInv /\ LinkInv(p)
      /\ (\A q \in Pages : TurnInv(q)) /\ pairings \in Nat /\ prov[p] \in TabType
  BY DEF ProviderInv, TypeOK
<1>2. /\ prov[p].turn # 0 /\ Settled(prov[p].turn)
      /\ UNCHANGED <<conn, owner, record, aged, open, pairings, replied, approved, waived>>
  BY DEF FinishRestricted, wallet
<1>3. CASE prov[p].queue = <<>>
  <2>1. prov' = [prov EXCEPT ![p].turn = 0] /\ UNCHANGED <<call, inflight>>
    BY <1>3 DEF FinishRestricted
  <2>2. /\ prov' \in [Pages -> TabType] /\ prov'[p].queue = prov[p].queue
        /\ prov'[p].loaded = prov[p].loaded /\ prov'[p].transition = prov[p].transition
        /\ \A q \in Pages \ {p} : prov'[q] = prov[q]
    <3>1. 0 \in 0 .. MaxCalls
      BY ProviderAssumption
    <3>2. QED BY <1>1, <2>1, <3>1 DEF TypeOK, TabType
  <2>3. \A q \in Pages :
          prov'[q].loaded = prov[q].loaded /\ prov'[q].transition = prov[q].transition
    BY <2>2
  <2>4. \A q \in Pages : LinkInv(q)'
    BY <1>1, <1>2, <2>3, LinksRest
  <2>5. CallsInv' /\ InflightInv'
    BY <1>1, <1>2, <2>1 DEF CallsInv, InflightInv, Sound
  <2>6. ASSUME NEW q \in Pages
        PROVE  TurnInv(q)'
    <3>1. Of(q)' = Of(q) /\ \A x \in Of(q) : call'[x] = call[x]
      BY <2>1 DEF Of
    <3>2. CASE q # p
      <4>1. prov'[q] = prov[q] /\ TurnInv(q)
        BY <1>1, <2>2, <3>2
      <4>2. QED BY <3>1, <4>1, TurnRests
    <3>3. CASE q = p
      <4>1. ASSUME NEW x \in Of(p), Restricted(x), ~call[x].late, call[x].pc # "queued"
            PROVE  FALSE
        <5>1. prov[p].turn = x
          BY <1>1, <4>1 DEF TurnInv
        <5>2. call[x].pc \in Open
          BY <4>1 DEF Of
        <5>3. QED BY <1>2, <5>1, <5>2 DEF Settled, Open
      <4>2. ASSUME NEW x \in Of(p)', Restricted(x)', ~call'[x].late, call'[x].pc # "queued"
            PROVE  FALSE
        BY <2>1, <3>1, <3>3, <4>1, <4>2 DEF Restricted
      <4>3. TurnInv(p)
        BY <1>1
      <4>4. {x \in Of(p) : call[x].pc = "queued"}' = {x \in Of(p) : call[x].pc = "queued"}
        BY <3>1, <3>3
      <4>5. QED BY <2>2, <3>1, <3>3, <4>2, <4>3, <4>4 DEF TurnInv
    <3>4. QED BY <3>2, <3>3
  <2>7. TypeOK' /\ RecordInv'
    BY <1>1, <1>2, <2>1, <2>2 DEF TypeOK, RecordInv
  <2>8. QED BY <2>4, <2>5, <2>6, <2>7 DEF ProviderInv
<1>4. CASE prov[p].queue # <<>>
  <2> DEFINE q1 == Head(prov[p].queue)
  <2>1. /\ prov' = [prov EXCEPT ![p].turn = q1, ![p].queue = Tail(prov[p].queue)]
        /\ Perform(p, q1, call[q1])
    BY <1>4 DEF FinishRestricted
  <2>2. q1 \in Of(p) /\ call[q1].pc = "queued"
    <3>1. prov[p].queue \in Seq(Calls)
      BY <1>1 DEF TabType
    <3>2. 1 \in 1 .. Len(prov[p].queue) /\ q1 = prov[p].queue[1]
      BY <1>4, <3>1
    <3>3. QED BY <1>1, <3>2 DEF TurnInv
  <2>3. PICK r \in Calls : r = q1
    BY <2>2 DEF Of
  <2>4. PICK c \in CallType : c = call[r]
    BY <1>1 DEF TypeOK
  <2>5. call[r].page = p /\ call[r].pc = "queued"
    BY <2>2, <2>3 DEF Of
  <2>6. c.page = p /\ c.pc = "queued" /\ c.m \in Methods /\ c.sent = 0
    BY <1>1, <2>4, <2>5 DEF CallsInv, Sound, Unsent
  <2>7. Perform(p, r, c)
    BY <2>1, <2>3, <2>4 DEF Perform, Send
  <2>8. PICK d \in CallType : call' = Put(r, d) /\ Landed(p, c, d) /\ Recorded(r, d)
    BY <1>1, <2>6, <2>7, PerformLands
  <2>9. r \notin inflight
    BY <1>1, <2>5 DEF InflightInv, AtWallet
  <2>10. /\ CallsInv' /\ InflightInv'
         /\ call' \in [Calls -> CallType] /\ inflight' \subseteq Calls
    BY <1>2, <2>8, <2>9, Lands
  <2>11. d.page = p /\ d.pc # "queued"
    BY <2>6, <2>8 DEF Landed
  <2>12. prov' = [prov EXCEPT ![p].turn = r, ![p].queue = Tail(prov[p].queue)]
    BY <2>1, <2>3
  <2>13. r = Head(prov[p].queue)
    BY <2>3
  <2>14. prov' \in [Pages -> TabType] /\ \A q \in Pages : TurnInv(q)'
    BY <1>1, <1>2, <1>4, <2>8, <2>11, <2>12, <2>13, TurnPasses
  <2>15. \A q \in Pages :
           prov'[q].loaded = prov[q].loaded /\ prov'[q].transition = prov[q].transition
    BY <1>1, <2>12 DEF TypeOK, TabType
  <2>16. \A q \in Pages : LinkInv(q)'
    BY <1>1, <1>2, <2>15, LinksRest
  <2>17. TypeOK' /\ RecordInv'
    BY <1>1, <1>2, <2>10, <2>14 DEF TypeOK, RecordInv
  <2>18. QED BY <2>10, <2>14, <2>16, <2>17 DEF ProviderInv
<1>5. QED BY <1>3, <1>4

-----------------------------------------------------------------------------
(* Cancellation *)

Outdated(c) == [c EXCEPT !.current = FALSE]

LEMMA OutdatedCall ==
  ASSUME NEW c \in CallType
  PROVE  /\ Outdated(c) \in CallType
         /\ Outdated(c).pc = c.pc /\ Outdated(c).page = c.page /\ Outdated(c).m = c.m
         /\ Outdated(c).sent = c.sent /\ Outdated(c).late = c.late
         /\ Outdated(c).prev = c.prev /\ Outdated(c).made = c.made /\ ~Outdated(c).current
  BY DEF CallType, Outdated

LEMMA CancelledCalls ==
  ASSUME ProviderInv, NEW p \in Pages, Cancel(p), UNCHANGED <<pairings, approved>>,
         NEW r \in Calls
  PROVE  /\ call'[r] \in CallType /\ Sound(call[r])'
         /\ r \in Cancelled(p) =>
              call'[r].pc = "refused" /\ call'[r].page = p /\ call'[r].made = 0
         /\ r \in Of(p) => ~call'[r].current
         /\ r \notin Cancelled(p) =>
              /\ call'[r].pc = call[r].pc /\ call'[r].page = call[r].page
              /\ call'[r].m = call[r].m /\ call'[r].sent = call[r].sent
              /\ call'[r].late = call[r].late /\ call'[r].made = call[r].made
         /\ r \notin Of(p) => call'[r] = call[r]
<1>1. pairings \in Nat /\ call[r] \in CallType
  BY DEF ProviderInv, TypeOK
<1>2. PICK c \in CallType : c = call[r]
  BY <1>1
<1>3. Sound(c)
  BY <1>2 DEF ProviderInv, CallsInv, Sound
<1>4. CASE r \in Cancelled(p)
  <2>1. call'[r] = Closed(c, "refused")
    BY <1>2, <1>4 DEF Cancel
  <2>2. c.pc # "free" /\ c.page = p /\ r \in Of(p)
    BY <1>2, <1>4 DEF Cancelled, Of
  <2>3. PICK d \in CallType : d = Closed(c, "refused")
    BY ClosedCall
  <2>4. d.pc = "refused" /\ d.page = p /\ d.made = 0 /\ ~d.current
    BY <2>2, <2>3, ClosedCall
  <2>5. Sound(d)
    BY <1>3, <2>2, <2>3, ClosedSound DEF Sound
  <2>6. Sound(d)'
    BY <1>1, <2>5, SoundGrows
  <2>7. QED BY <1>4, <2>1, <2>2, <2>3, <2>4, <2>6 DEF Sound
<1>5. CASE r \in Of(p) \ Cancelled(p)
  <2>1. call'[r] = Outdated(c)
    BY <1>2, <1>5 DEF Cancel, Outdated
  <2>2. c.pc # "queued"
    BY <1>2, <1>5 DEF Cancelled
  <2>3. PICK d \in CallType : d = Outdated(c)
    BY OutdatedCall
  <2>4. /\ d.pc = c.pc /\ d.page = c.page /\ d.m = c.m /\ d.sent = c.sent
        /\ d.late = c.late /\ d.prev = c.prev /\ d.made = c.made /\ ~d.current
    BY <2>3, OutdatedCall
  <2>5. Sound(d)
    BY <1>3, <2>2, <2>4 DEF Sound
  <2>6. Sound(d)'
    BY <1>1, <2>5, SoundGrows
  <2>7. call'[r] = d
    BY <2>1, <2>3
  <2>8. ~call'[r].current
    BY <2>4, <2>7
  <2>9. Sound(call[r])'
    BY <2>6, <2>7 DEF Sound
  <2>10. /\ call'[r].pc = call[r].pc /\ call'[r].page = call[r].page
         /\ call'[r].m = call[r].m /\ call'[r].sent = call[r].sent
         /\ call'[r].late = call[r].late /\ call'[r].made = call[r].made
    BY <1>2, <2>4, <2>7
  <2>11. call'[r] \in CallType
    BY <2>7
  <2>12. r \in Of(p) /\ r \notin Cancelled(p)
    BY <1>5
  <2>13. QED BY <2>8, <2>9, <2>10, <2>11, <2>12 DEF Sound
<1>6. CASE r \notin Of(p)
  <2>1. call'[r] = c /\ r \notin Cancelled(p)
    BY <1>2, <1>6 DEF Cancel, Cancelled
  <2>2. Sound(c)'
    BY <1>1, <1>3, SoundGrows
  <2>3. QED BY <1>2, <1>6, <2>1, <2>2 DEF Sound
<1>7. QED BY <1>4, <1>5, <1>6

LEMMA Cancels ==
  ASSUME ProviderInv, NEW p \in Pages, Cancel(p), UNCHANGED <<pairings, approved>>,
         inflight' \subseteq inflight \ Cancelled(p), prov'[p].queue = <<>>,
         prov'[p].turn = prov[p].turn, prov'[p].loaded = prov[p].loaded,
         \A q \in Pages \ {p} : prov'[q] = prov[q]
  PROVE  /\ CallsInv' /\ InflightInv' /\ \A q \in Pages : TurnInv(q)'
         /\ call' \in [Calls -> CallType] /\ inflight' \subseteq Calls
<1>1. TypeOK /\ CallsInv /\ InflightInv /\ (\A q \in Pages : TurnInv(q))
  BY DEF ProviderInv
<1>2. CallsInv'
  <2>1. SUFFICES ASSUME NEW r \in Calls PROVE Sound(call[r])'
    BY DEF CallsInv
  <2>2. QED BY CancelledCalls
<1>3. call' \in [Calls -> CallType]
  <2>1. \A r \in Calls : call'[r] \in CallType
    BY CancelledCalls
  <2>2. call' = [r \in Calls |-> call'[r]]
    BY DEF Cancel
  <2>3. QED BY <2>1, <2>2
<1>4. inflight' \subseteq Calls
  BY <1>1 DEF TypeOK
<1>5. InflightInv'
  <2>1. SUFFICES ASSUME NEW r \in inflight'
                 PROVE  call'[r].pc \in AtWallet \cup {"gone"} /\ call'[r].sent # 0
    BY DEF InflightInv, AtWallet
  <2>2. r \in Calls /\ r \in inflight /\ r \notin Cancelled(p)
    BY <1>4, <2>1
  <2>3. call'[r].pc = call[r].pc /\ call'[r].sent = call[r].sent
    BY <2>2, CancelledCalls
  <2>4. QED BY <1>1, <2>2, <2>3 DEF InflightInv
<1>6. ASSUME NEW q \in Pages, q # p
      PROVE  TurnInv(q)'
  <2>1. ASSUME NEW x \in Calls
        PROVE  (x \in Of(q)' <=> x \in Of(q)) /\ (x \in Of(q) => call'[x] = call[x])
    <3>1. x \in Of(q) => x \notin Of(p)
      BY <1>6 DEF Of
    <3>2. call'[x].page = q => x \notin Of(p) \/ x \in Cancelled(p) \/ call[x].page = q
      BY <2>1, CancelledCalls
    <3>3. x \in Cancelled(p) => call'[x].page = p
      BY <2>1, CancelledCalls
    <3>4. x \notin Cancelled(p) => call'[x].page = call[x].page /\ call'[x].pc = call[x].pc
      BY <2>1, CancelledCalls
    <3>5. x \in Of(q) => call'[x] = call[x]
      BY <2>1, <3>1, CancelledCalls
    <3>6. x \in Cancelled(p) => x \in Of(p)
      BY DEF Cancelled
    <3>7. QED BY <1>6, <3>1, <3>3, <3>4, <3>5, <3>6 DEF Of
  <2>2. Of(q)' = Of(q) /\ \A x \in Of(q) : call'[x] = call[x]
    BY <2>1 DEF Of
  <2>3. QED BY <1>1, <1>6, <2>2, TurnRests
<1>7. TurnInv(p)'
  <2>1. ASSUME NEW x \in Of(p)'
        PROVE  /\ x \in Of(p) /\ call'[x].pc # "queued" /\ call[x].pc # "queued"
               /\ call'[x].m = call[x].m /\ call'[x].late = call[x].late
    <3>1. x \in Calls /\ call'[x].page = p /\ call'[x].pc \in Open
      BY <2>1 DEF Of
    <3>2. x \notin Cancelled(p)
      BY <3>1, CancelledCalls DEF Open
    <3>3. /\ call'[x].pc = call[x].pc /\ call'[x].page = call[x].page
          /\ call'[x].m = call[x].m /\ call'[x].late = call[x].late
      BY <3>1, <3>2, CancelledCalls
    <3>4. x \in Of(p)
      BY <3>1, <3>3 DEF Of
    <3>5. call[x].pc # "queued"
      BY <3>2, <3>4 DEF Cancelled
    <3>6. QED BY <3>3, <3>4, <3>5
  <2>2. {x \in Of(p) : call[x].pc = "queued"}' = {}
    BY <2>1
  <2>3. {prov[p].queue[i] : i \in 1 .. Len(prov[p].queue)}' = {}
    OBVIOUS
  <2>4. ASSUME NEW x \in Of(p)', Restricted(x)', ~call'[x].late, call'[x].pc # "queued"
        PROVE  prov'[p].turn = x
    BY <1>1, <2>1, <2>4 DEF TurnInv, Restricted
  <2>5. ~prov'[p].loaded => Of(p)' = {}
    BY <1>1, <2>1 DEF TurnInv
  <2>6. \A i, j \in 1 .. Len(prov'[p].queue) : prov'[p].queue[i] = prov'[p].queue[j] => i = j
    OBVIOUS
  <2>7. QED BY <2>2, <2>3, <2>4, <2>5, <2>6 DEF TurnInv
<1>8. QED BY <1>2, <1>3, <1>4, <1>5, <1>6, <1>7

LEMMA ConnectionLostInv ==
  ASSUME ProviderInv, NEW p \in Pages, ConnectionLost(p)
  PROVE  ProviderInv'
<1>1. /\ TypeOK /\ RecordInv /\ LinkInv(p) /\ pairings \in Nat /\ prov[p] \in TabType
      /\ conn[p] \in LinkType
  BY DEF ProviderInv, TypeOK
<1>2. /\ conn[p].link \in Established /\ conn' = [conn EXCEPT ![p].link = "away"]
      /\ Cancel(p) /\ prov' = [prov EXCEPT ![p].queue = <<>>]
      /\ inflight' = inflight \ Cancelled(p)
      /\ UNCHANGED <<owner, record, aged, open, pairings, replied, approved, waived>>
  BY DEF ConnectionLost, CancelAllRequests, wallet
<1>3. /\ prov' \in [Pages -> TabType] /\ prov'[p].queue = <<>>
      /\ prov'[p].turn = prov[p].turn /\ prov'[p].loaded = prov[p].loaded
      /\ prov'[p].transition = prov[p].transition
      /\ \A q \in Pages \ {p} : prov'[q] = prov[q]
  <2>1. <<>> \in Seq(Calls)
    OBVIOUS
  <2>2. prov' = [prov EXCEPT ![p].queue = <<>>]
    BY <1>2
  <2>3. QED BY <1>1, <2>1, <2>2 DEF TypeOK, TabType
<1>4. /\ CallsInv' /\ InflightInv' /\ \A q \in Pages : TurnInv(q)'
      /\ call' \in [Calls -> CallType] /\ inflight' \subseteq Calls
  BY <1>2, <1>3, Cancels
<1>5. /\ conn' \in [Pages -> LinkType] /\ conn'[p].link = "away"
      /\ conn'[p].pairing = conn[p].pairing /\ conn'[p].account = conn[p].account
      /\ \A q \in Pages \ {p} : conn'[q] = conn[q]
  <2>1. conn' = [conn EXCEPT ![p].link = "away"]
    BY <1>2
  <2>2. QED BY <1>1, <2>1 DEF TypeOK, LinkType, Established
<1>6. LinkInv(p)'
  BY <1>1, <1>2, <1>3, <1>5 DEF LinkInv, Established
<1>7. \A q \in Pages : LinkInv(q)'
  BY <1>1, <1>2, <1>3, <1>5, <1>6, OthersRest
<1>8. TypeOK' /\ RecordInv'
  BY <1>1, <1>2, <1>3, <1>4, <1>5 DEF TypeOK, RecordInv
<1>9. QED BY <1>4, <1>7, <1>8 DEF ProviderInv

LEMMA CancelAndForgetEffect ==
  ASSUME ProviderInv, NEW p \in Pages,
         NEW t \in {"none", "uri", "new", "disconnect", "fresh"}, CancelAndForget(p, t),
         UNCHANGED <<pairings, approved>>
  PROVE  /\ prov' \in [Pages -> TabType] /\ prov'[p].transition = t
         /\ prov'[p].loaded = prov[p].loaded
         /\ \A q \in Pages \ {p} : prov'[q] = prov[q]
         /\ CallsInv' /\ InflightInv' /\ \A q \in Pages : TurnInv(q)'
         /\ call' \in [Calls -> CallType] /\ inflight' \subseteq Calls
<1>1. TypeOK /\ prov[p] \in TabType
  BY DEF ProviderInv, TypeOK
<1>2. <<>> \in Seq(Calls) /\ {} \in SUBSET Calls
  OBVIOUS
<1>3. prov' = [prov EXCEPT ![p].queue = <<>>, ![p].orphans = {}, ![p].transition = t]
  BY DEF CancelAndForget
<1>4. /\ prov' \in [Pages -> TabType] /\ prov'[p].queue = <<>>
      /\ prov'[p].turn = prov[p].turn /\ prov'[p].loaded = prov[p].loaded
      /\ prov'[p].transition = t
      /\ \A q \in Pages \ {p} : prov'[q] = prov[q]
  BY <1>1, <1>2, <1>3 DEF TypeOK, TabType
<1>5. Cancel(p) /\ inflight' = {}
  BY DEF CancelAndForget
<1>6. /\ CallsInv' /\ InflightInv' /\ \A q \in Pages : TurnInv(q)'
      /\ call' \in [Calls -> CallType] /\ inflight' \subseteq Calls
  BY <1>4, <1>5, Cancels
<1>7. QED BY <1>4, <1>6

LEMMA BeginTransitionInv ==
  ASSUME ProviderInv, NEW p \in Pages, NEW t \in {"uri", "new", "disconnect"},
         BeginTransition(p, t)
  PROVE  ProviderInv'
<1>1. TypeOK /\ RecordInv /\ LinkInv(p) /\ pairings \in Nat
  BY DEF ProviderInv, TypeOK
<1>2. /\ prov[p].loaded /\ CancelAndForget(p, t)
      /\ UNCHANGED <<conn, owner, record, aged, open, pairings, replied, approved>>
  BY DEF BeginTransition, wallet
<1>3. waived' \subseteq Calls
  BY <1>1 DEF BeginTransition, TypeOK
<1>4. t \in {"none", "uri", "new", "disconnect", "fresh"} /\ t # "fresh"
  OBVIOUS
<1>5. /\ prov' \in [Pages -> TabType] /\ prov'[p].transition = t
      /\ prov'[p].loaded = prov[p].loaded
      /\ \A q \in Pages \ {p} : prov'[q] = prov[q]
      /\ CallsInv' /\ InflightInv' /\ \A q \in Pages : TurnInv(q)'
      /\ call' \in [Calls -> CallType] /\ inflight' \subseteq Calls
  BY <1>2, <1>4, CancelAndForgetEffect
<1>6. LinkInv(p)'
  BY <1>1, <1>2, <1>4, <1>5 DEF LinkInv
<1>7. \A q \in Pages : LinkInv(q)'
  BY <1>1, <1>2, <1>5, <1>6, OthersRest
<1>8. TypeOK' /\ RecordInv'
  BY <1>1, <1>2, <1>3, <1>5 DEF TypeOK, RecordInv
<1>9. QED BY <1>5, <1>7, <1>8 DEF ProviderInv

LEMMA SessionTerminatedInv ==
  ASSUME ProviderInv, NEW p \in Pages, SessionTerminated(p)
  PROVE  ProviderInv'
<1>1. /\ TypeOK /\ LinkInv(p) /\ pairings \in Nat /\ prov[p] \in TabType
      /\ conn[p] \in LinkType
  BY DEF ProviderInv, TypeOK
<1> DEFINE u == Unlinked(conn[p].chain)
<1>2. /\ conn[p].link \in Established \cup {"offered"}
      /\ conn' = [conn EXCEPT ![p] = u] /\ record' = NoRecord /\ owner' = None
      /\ open' \subseteq open
      /\ UNCHANGED <<aged, pairings, replied, approved, waived>>
  BY DEF SessionTerminated
<1>3. PICK t \in {"none", "uri", "new", "disconnect", "fresh"} : t = prov[p].transition
  BY <1>1 DEF TabType
<1>4. CancelAndForget(p, t)
  BY <1>3 DEF SessionTerminated, CancelAndForget
<1>5. /\ prov' \in [Pages -> TabType] /\ prov'[p].transition = prov[p].transition
      /\ prov'[p].loaded = prov[p].loaded
      /\ \A q \in Pages \ {p} : prov'[q] = prov[q]
      /\ CallsInv' /\ InflightInv' /\ \A q \in Pages : TurnInv(q)'
      /\ call' \in [Calls -> CallType] /\ inflight' \subseteq Calls
  BY <1>2, <1>3, <1>4, CancelAndForgetEffect
<1>6. u \in LinkType /\ u.link = "none" /\ u.pairing = 0 /\ u.account = None
  BY <1>1, LinkTypes
<1> HIDE DEF u
<1>7. /\ conn' \in [Pages -> LinkType] /\ conn'[p] = u
      /\ \A q \in Pages \ {p} : conn'[q] = conn[q]
  BY <1>1, <1>2, <1>6 DEF TypeOK
<1>8. LinkInv(p)'
  BY <1>1, <1>2, <1>5, <1>6, <1>7, ProviderAssumption DEF LinkInv, Established
<1>9. \A q \in Pages \ {p} : conn[q].link \notin Established \cup {"offered"}
  <2>1. TAKE q \in Pages \ {p}
  <2>2. LinkInv(q) /\ owner = p
    BY <1>1, <1>2 DEF ProviderInv, LinkInv
  <2>3. QED BY <2>2 DEF LinkInv
<1>10. \A q \in Pages : LinkInv(q)'
  BY <1>1, <1>2, <1>5, <1>7, <1>8, <1>9, OthersRest
<1>11. TypeOK' /\ RecordInv'
  BY <1>1, <1>2, <1>5, <1>7, NoRecordTypes DEF TypeOK, RecordInv
<1>12. QED BY <1>5, <1>10, <1>11 DEF ProviderInv

LEMMA UnloadedType ==
  /\ Unloaded \in TabType /\ ~Unloaded.loaded /\ Unloaded.transition = "none"
  /\ Unloaded.queue = <<>> /\ Unloaded.orphans = {}
BY ProviderAssumption DEF Unloaded, TabType

LEMMA UnloadInv ==
  ASSUME ProviderInv, NEW p \in Pages, Unload(p)
  PROVE  ProviderInv'
<1>1. /\ TypeOK /\ RecordInv /\ LinkInv(p) /\ CallsInv /\ InflightInv
      /\ (\A q \in Pages : TurnInv(q)) /\ pairings \in Nat /\ conn[p] \in LinkType
  BY DEF ProviderInv, TypeOK
<1> DEFINE u == Unlinked(conn[p].chain)
<1>2. /\ prov' = [prov EXCEPT ![p] = Unloaded] /\ conn' = [conn EXCEPT ![p] = u]
      /\ owner' = IF owner = p THEN None ELSE owner
      /\ call' = [r \in Calls |-> IF r \in Of(p) THEN Closed(call[r], "gone") ELSE call[r]]
      /\ UNCHANGED <<record, inflight, aged, open, pairings, replied, approved, waived>>
  BY <1>1 DEF Unload, wallet, TypeOK
<1>3. u \in LinkType /\ u.link = "none" /\ u.pairing = 0 /\ u.account = None
  BY <1>1, LinkTypes
<1> HIDE DEF u
<1>4. /\ conn' \in [Pages -> LinkType] /\ conn'[p] = u
      /\ \A q \in Pages \ {p} : conn'[q] = conn[q]
  BY <1>1, <1>2, <1>3 DEF TypeOK
<1>5. /\ prov' \in [Pages -> TabType] /\ prov'[p] = Unloaded
      /\ \A q \in Pages \ {p} : prov'[q] = prov[q]
  BY <1>1, <1>2, UnloadedType DEF TypeOK
<1>6. ASSUME NEW r \in Calls
      PROVE  /\ call'[r] \in CallType /\ Sound(call[r])'
             /\ r \in Of(p) => call'[r].pc = "gone" /\ call'[r].sent = call[r].sent
             /\ r \notin Of(p) => call'[r] = call[r]
  <2>1. PICK c \in CallType : c = call[r]
    BY <1>1 DEF TypeOK
  <2>2. Sound(c)
    BY <1>1, <2>1 DEF CallsInv, Sound
  <2>3. CASE r \in Of(p)
    <3>1. call'[r] = Closed(c, "gone")
      BY <1>2, <2>1, <2>3
    <3>2. c.pc # "free"
      BY <2>1, <2>3 DEF Of, Open
    <3>3. PICK d \in CallType : d = Closed(c, "gone")
      BY ClosedCall
    <3>4. d.pc = "gone" /\ d.sent = c.sent
      BY <3>3, ClosedCall
    <3>5. Sound(d)
      BY <2>2, <3>2, <3>3, ClosedSound DEF Sound
    <3>6. Sound(d)'
      BY <1>1, <1>2, <3>5, SoundGrows
    <3>7. QED BY <2>1, <2>3, <3>1, <3>3, <3>4, <3>6 DEF Sound
  <2>4. CASE r \notin Of(p)
    <3>1. call'[r] = c
      BY <1>2, <2>1, <2>4
    <3>2. Sound(c)'
      BY <1>1, <1>2, <2>2, SoundGrows
    <3>3. QED BY <2>1, <2>4, <3>1, <3>2 DEF Sound
  <2>5. QED BY <2>3, <2>4
<1>7. CallsInv'
  BY <1>6 DEF CallsInv
<1>8. call' \in [Calls -> CallType]
  <2>1. call' = [r \in Calls |-> call'[r]]
    BY <1>2
  <2>2. QED BY <1>6, <2>1
<1>9. InflightInv'
  <2>1. SUFFICES ASSUME NEW r \in inflight'
                 PROVE  call'[r].pc \in AtWallet \cup {"gone"} /\ call'[r].sent # 0
    BY DEF InflightInv, AtWallet
  <2>2. r \in Calls /\ call[r].pc \in AtWallet \cup {"gone"} /\ call[r].sent # 0
    BY <1>1, <1>2, <2>1 DEF TypeOK, InflightInv
  <2>3. QED BY <1>6, <2>2
<1>10. ASSUME NEW q \in Pages, q # p
       PROVE  TurnInv(q)'
  <2>1. ASSUME NEW x \in Calls
        PROVE  (x \in Of(q)' <=> x \in Of(q)) /\ (x \in Of(q) => call'[x] = call[x])
    <3>1. x \in Of(q) => x \notin Of(p)
      BY <1>10 DEF Of
    <3>2. x \in Of(q) => call'[x] = call[x]
      BY <1>6, <3>1
    <3>3. x \in Of(p) => x \notin Of(q)'
      BY <1>6 DEF Of, Open
    <3>4. x \notin Of(p) => (x \in Of(q)' <=> x \in Of(q))
      BY <1>6 DEF Of
    <3>5. QED BY <3>1, <3>2, <3>3, <3>4
  <2>2. Of(q)' = Of(q) /\ \A x \in Of(q) : call'[x] = call[x]
    BY <2>1 DEF Of
  <2>3. QED BY <1>1, <1>5, <1>10, <2>2, TurnRests
<1>11. TurnInv(p)'
  <2>1. \A x \in Calls : x \notin Of(p)'
    <3>1. TAKE x \in Calls
    <3>2. x \in Of(p) => x \notin Of(p)'
      BY <1>6 DEF Of, Open
    <3>3. x \notin Of(p) => x \notin Of(p)'
      BY <1>6 DEF Of
    <3>4. QED BY <3>2, <3>3
  <2>2. Of(p)' = {}
    BY <2>1 DEF Of
  <2>3. prov'[p].queue = <<>>
    BY <1>5, UnloadedType
  <2>4. QED BY <2>2, <2>3 DEF TurnInv
<1>12. LinkInv(p)'
  BY <1>1, <1>2, <1>3, <1>4, <1>5, UnloadedType, ProviderAssumption DEF LinkInv, Established
<1>13. \A q \in Pages \ {p} : conn[q].link \in Established \cup {"offered"} => owner' = owner
  <2>1. TAKE q \in Pages \ {p}
  <2>2. LinkInv(q)
    BY DEF ProviderInv
  <2>3. QED BY <1>2, <2>2 DEF LinkInv
<1>14. \A q \in Pages : LinkInv(q)'
  BY <1>1, <1>2, <1>4, <1>5, <1>12, <1>13, OthersRest
<1>15. TypeOK' /\ RecordInv'
  BY <1>1, <1>2, <1>4, <1>5, <1>8 DEF TypeOK, RecordInv
<1>16. QED BY <1>7, <1>9, <1>10, <1>11, <1>14, <1>15 DEF ProviderInv

-----------------------------------------------------------------------------
(* Theorems, for any number of pages *)

LEMMA UnusedType ==
  Unused \in CallType /\ Unused.pc = "free" /\ Unused.sent = 0
<1>1. 0 \in 0 .. MaxPairings /\ None \in Accounts \cup {None}
  BY ProviderAssumption
<1>2. QED BY <1>1 DEF Unused, CallType

LEMMA InitInv == Init => ProviderInv
<1> SUFFICES ASSUME Init PROVE ProviderInv
  OBVIOUS
<1>1. PICK c \in Chains : conn = [p \in Pages |-> Unlinked(c)]
  BY DEF Init
<1>2. /\ Unlinked(c) \in LinkType /\ Unlinked(c).link = "none" /\ Unlinked(c).pairing = 0
      /\ Unlinked(c).account = None
  BY ProviderAssumption DEF Unlinked, LinkType
<1>3. /\ prov = [p \in Pages |-> Unloaded] /\ owner = None /\ record = NoRecord
      /\ inflight = {} /\ call = [r \in Calls |-> Unused] /\ aged = {} /\ open = {}
      /\ pairings = 0 /\ replied = {} /\ approved = {} /\ waived = {}
  BY DEF Init
<1>4. 0 \in 0 .. MaxPairings
  BY ProviderAssumption
<1>5. TypeOK
  BY <1>1, <1>2, <1>3, <1>4, UnloadedType, UnusedType, NoRecordTypes DEF TypeOK
<1>6. CallsInv
  BY <1>3, UnusedType DEF CallsInv, Sound, Unsent, AtWallet
<1>7. ASSUME NEW p \in Pages
      PROVE  TurnInv(p)
  <2>1. Of(p) = {}
    BY <1>3, UnusedType DEF Of, Open
  <2>2. prov[p].queue = <<>>
    BY <1>3, UnloadedType
  <2>3. QED BY <2>1, <2>2 DEF TurnInv
<1>8. ASSUME NEW p \in Pages
      PROVE  LinkInv(p)
  <2>1. prov[p] = Unloaded /\ conn[p] = Unlinked(c) /\ owner # p
    BY <1>1, <1>3, ProviderAssumption
  <2>2. QED BY <1>2, <1>3, <2>1, UnloadedType DEF LinkInv, Established
<1>9. RecordInv /\ InflightInv
  BY <1>3, NoRecordTypes DEF RecordInv, InflightInv
<1>10. QED BY <1>5, <1>6, <1>7, <1>8, <1>9 DEF ProviderInv

LEMMA StutterInv == ASSUME ProviderInv, UNCHANGED vars PROVE ProviderInv'
<1>1. UNCHANGED <<prov, conn, owner, record, inflight, call, aged, open, pairings, replied,
                  approved, waived>>
  BY DEF vars, wallet
<1>2. TypeOK /\ RecordInv /\ pairings \in Nat
  BY DEF ProviderInv, TypeOK
<1>3. CallsInv' /\ InflightInv' /\ \A p \in Pages : TurnInv(p)'
  BY <1>1, <1>2, CallsRest
<1>4. \A p \in Pages : LinkInv(p)'
  BY <1>1, <1>2, LinksRest
<1>5. TypeOK' /\ RecordInv'
  BY <1>1, <1>2 DEF TypeOK, RecordInv
<1>6. QED BY <1>3, <1>4, <1>5 DEF ProviderInv

LEMMA NextInv == ASSUME ProviderInv, [Next]_vars PROVE ProviderInv'
<1>1. ASSUME NEW p \in Pages, NEW r \in Calls, NEW m \in Methods, Request(p, r, m)
      PROVE  ProviderInv'
  BY <1>1, RequestInv
<1>2. ASSUME NEW p \in Pages, NEW r \in Calls,
             \/ JoinSettles(p, r) \/ SendFails(p, r) \/ Response(p, r)
             \/ AuthorizeSettles(p, r) \/ AuthorizeFails(p, r)
      PROVE  ProviderInv'
  BY <1>2, JoinSettlesInv, SendFailsInv, ResponseInv, AuthorizeSettlesInv, AuthorizeFailsInv
<1>3. ASSUME NEW r \in Calls, Expire(r)
      PROVE  ProviderInv'
  BY <1>3, ExpireInv
<1>4. ASSUME NEW p \in Pages,
             \/ FinishRestricted(p) \/ ConnectionLost(p) \/ SessionTerminated(p) \/ Retire(p)
             \/ OfferURI(p) \/ TransitionFails(p) \/ Pair(p) \/ Restore(p) \/ Checkpoint(p)
             \/ Load(p) \/ Unload(p)
      PROVE  ProviderInv'
  BY <1>4, FinishRestrictedInv, ConnectionLostInv, SessionTerminatedInv, RetireInv,
     OfferURIInv, TransitionFailsInv, PairInv, RestoreInv, CheckpointInv, LoadInv, UnloadInv
<1>5. ASSUME NEW p \in Pages, NEW t \in {"uri", "new", "disconnect"}, BeginTransition(p, t)
      PROVE  ProviderInv'
  BY <1>5, BeginTransitionInv
<1>6. ASSUME NEW p \in Pages, NEW l \in Established, LinkMoves(p, l)
      PROVE  ProviderInv'
  BY <1>6, LinkMovesInv
<1>7. ASSUME NEW p \in Pages, NEW a \in Accounts \cup {None}, NEW c \in Chains,
             WalletInfo(p, a, c)
      PROVE  ProviderInv'
  BY <1>7, WalletInfoInv
<1>8. CASE UNCHANGED vars
  BY <1>8, StutterInv
<1>9. QED BY <1>1, <1>2, <1>3, <1>4, <1>5, <1>6, <1>7, <1>8 DEF Next

\* The inductive invariant of the provider, and with it the types of all that
\* request(), the responses, the cancellations and the reloads keep.
THEOREM ProviderInvariant == Spec => []ProviderInv
<1>1. QED BY InitInv, NextInv, PTL DEF Spec

\* enqueueRestrictedRequest(): of the calls of a page at most one is on its way
\* to an approval.
THEOREM OneApproval == Spec => []ApprovalsOneAtATime
<1>1. ProviderInv => ApprovalsOneAtATime
  BY DEF ProviderInv, TurnInv, ApprovalsOneAtATime
<1>2. QED BY <1>1, ProviderInvariant, PTL

\* validateRestrictedRequest(): the wallet is asked to sign only for accounts
\* that it approved in the pairing in which the call is sent.
THEOREM SignaturesAreApproved == Spec => []SignedForApproved
<1>1. ProviderInv => SignedForApproved
  BY DEF ProviderInv, CallsInv, Sound, SignedForApproved
<1>2. QED BY <1>1, ProviderInvariant, PTL

-----------------------------------------------------------------------------
(* What holds of a page that has the storage to itself *)

OneTab == \A p, q \in Pages : p = q

\* A call that is yet to be sent belongs to the pairing of its page, unless a
\* cancellation has overtaken it.
SeenInv(p) ==
  \A r \in Of(p) : call[r].pc \in Unsent /\ call[r].current =>
    prov[p].transition = "none" /\ call[r].made \in {0, PairingSeen(p)}

\* The one pairing that is still served is the one that is stored.
ServedInv(p) ==
  /\ conn[p].link \in Established => record.pairing = conn[p].pairing
  /\ prov[p].loaded /\ conn[p].link \in {"none", "offered"} => record = NoRecord
  /\ record # NoRecord => record.pairing # 0
  /\ open \subseteq {record.pairing}

\* A call that waits for the wallet has its record, one that waits for the
\* storage has its answer.
AwaitedInv ==
  \A r \in Calls : /\ call[r].pc = "pending" /\ Restricted(r) => r \in inflight
                   /\ call[r].pc \in {"authorizing", "failing"} => r \in replied

OrphansInv == \A p \in Pages : \A r \in prov[p].orphans : call[r].pc = "gone"

TabInv ==
  /\ ProviderInv
  /\ \A p \in Pages : SeenInv(p)
  /\ \A p \in Pages : ServedInv(p)
  /\ AwaitedInv
  /\ OrphansInv
  /\ NoCrossing
  /\ AnswersAreKept

CallsKept == AwaitedInv /\ OrphansInv /\ NoCrossing /\ AnswersAreKept

LEMMA NoCallMoves ==
  ASSUME TabInv, UNCHANGED <<call, inflight, aged, replied, waived>>,
         \A n \in open' : n \in open \/ n > pairings,
         \A p \in Pages : /\ prov'[p].orphans = prov[p].orphans
                          /\ prov'[p].loaded = prov[p].loaded
  PROVE  CallsKept'
<1>1. TypeOK /\ CallsInv /\ pairings \in Nat /\ \A r \in Calls : call[r] \in CallType
  BY DEF TabInv, ProviderInv, TypeOK
<1>2. AwaitedInv'
  BY DEF TabInv, AwaitedInv, Restricted
<1>3. OrphansInv'
  BY DEF TabInv, OrphansInv
<1>4. NoCrossing'
  BY DEF TabInv, NoCrossing
<1>5. AnswersAreKept'
  <2>1. SUFFICES ASSUME NEW r \in Calls, Awaited(r)'
                 PROVE  /\ r \in inflight'
                        /\ \A p \in Pages : prov'[p].loaded => r \in prov'[p].orphans
    BY DEF AnswersAreKept
  <2>2. call[r].sent \in Nat /\ call[r].sent <= pairings
    <3>1. call[r] \in CallType /\ Sound(call[r])
      BY <1>1 DEF CallsInv
    <3>2. call[r].sent \in 0 .. MaxPairings
      BY <3>1 DEF CallType
    <3>3. QED BY <3>1, <3>2 DEF Sound
  <2>3. call[r].sent \in open
    BY <1>1, <2>1, <2>2 DEF Awaited
  <2>4. Awaited(r)
    BY <2>1, <2>3 DEF Awaited, Restricted
  <2>5. QED BY <2>4 DEF TabInv, AnswersAreKept
<1>6. QED BY <1>2, <1>3, <1>4, <1>5 DEF CallsKept

LEMMA CallMoves ==
  ASSUME TabInv, NEW r \in Calls, NEW d \in CallType, call' = Put(r, d), d.pc # "gone",
         d.sent # 0 => d.made \in {0, d.sent},
         d.pc = "pending" /\ d.m.type # "read" => r \in inflight',
         d.pc \in {"authorizing", "failing"} => r \in replied',
         inflight \ {r} \subseteq inflight', replied \subseteq replied', aged \subseteq aged',
         UNCHANGED <<open, waived>>,
         \A p \in Pages : /\ prov'[p].orphans \in {prov[p].orphans, prov[p].orphans \ {r}}
                          /\ r \notin prov'[p].orphans
                          /\ prov'[p].loaded = prov[p].loaded
  PROVE  CallsKept'
<1>1. TypeOK
  BY DEF TabInv, ProviderInv
<1>2. call'[r] = d /\ \A q \in Calls : q # r => call'[q] = call[q]
  BY <1>1, PutCall
<1>3. AwaitedInv'
  <2>1. SUFFICES ASSUME NEW q \in Calls
                 PROVE  /\ call'[q].pc = "pending" /\ Restricted(q)' => q \in inflight'
                        /\ call'[q].pc \in {"authorizing", "failing"} => q \in replied'
    BY DEF AwaitedInv
  <2>2. CASE q = r
    BY <1>2, <2>2 DEF Restricted
  <2>3. CASE q # r
    BY <1>2, <2>3 DEF TabInv, AwaitedInv, Restricted
  <2>4. QED BY <2>2, <2>3
<1>4. OrphansInv'
  <2>1. SUFFICES ASSUME NEW p \in Pages, NEW q \in prov'[p].orphans
                 PROVE  call'[q].pc = "gone"
    BY DEF OrphansInv
  <2>2. q # r /\ q \in prov[p].orphans
    BY <2>1
  <2>3. q \in Calls
    BY <1>1, <2>2 DEF TypeOK, TabType
  <2>4. QED BY <1>2, <2>2, <2>3 DEF TabInv, OrphansInv
<1>5. NoCrossing'
  <2>1. SUFFICES ASSUME NEW q \in Calls, call'[q].sent # 0
                 PROVE  call'[q].made \in {0, call'[q].sent}
    BY DEF NoCrossing
  <2>2. CASE q = r
    BY <1>2, <2>1, <2>2
  <2>3. CASE q # r
    BY <1>2, <2>1, <2>3 DEF TabInv, NoCrossing
  <2>4. QED BY <2>2, <2>3
<1>6. AnswersAreKept'
  <2>1. SUFFICES ASSUME NEW q \in Calls, Awaited(q)'
                 PROVE  /\ q \in inflight'
                        /\ \A p \in Pages : prov'[p].loaded => q \in prov'[p].orphans
    BY DEF AnswersAreKept
  <2>2. q # r
    BY <1>2, <2>1 DEF Awaited
  <2>3. Awaited(q)
    BY <1>2, <2>1, <2>2 DEF Awaited, Restricted
  <2>4. q \in inflight /\ \A p \in Pages : prov[p].loaded => q \in prov[p].orphans
    BY <2>3 DEF TabInv, AnswersAreKept
  <2>5. QED BY <2>2, <2>4
<1>7. QED BY <1>3, <1>4, <1>5, <1>6 DEF CallsKept

\* The pairing of a page and its transition stay as they are.
LEMMA SeenRests ==
  ASSUME TabInv, UNCHANGED call,
         \A p \in Pages : /\ prov'[p].transition \in {"none", prov[p].transition}
                          /\ PairingSeen(p)' = PairingSeen(p)
  PROVE  \A p \in Pages : SeenInv(p)'
<1>1. TAKE p \in Pages
<1>2. Of(p)' = Of(p)
  BY DEF Of
<1>3. SeenInv(p) /\ PairingSeen(p)' = PairingSeen(p) /\ prov'[p].transition \in {"none", prov[p].transition}
  BY DEF TabInv
<1>4. QED BY <1>2, <1>3 DEF SeenInv

LEMMA SeenMoves ==
  ASSUME TabInv, NEW r \in Calls, NEW d \in CallType, call' = Put(r, d),
         \A p \in Pages : /\ prov'[p].transition = prov[p].transition
                          /\ PairingSeen(p)' = PairingSeen(p),
         d.pc \in Unsent /\ d.current =>
           prov[d.page].transition = "none" /\ d.made \in {0, PairingSeen(d.page)}
  PROVE  \A p \in Pages : SeenInv(p)'
<1>1. TAKE p \in Pages
<1>2. TypeOK /\ SeenInv(p)
  BY DEF TabInv, ProviderInv
<1>3. call'[r] = d /\ \A q \in Calls : q # r => call'[q] = call[q]
  BY <1>2, PutCall
<1>4. prov'[p].transition = prov[p].transition /\ PairingSeen(p)' = PairingSeen(p)
  OBVIOUS
<1>5. SUFFICES ASSUME NEW q \in Of(p)', call'[q].pc \in Unsent, call'[q].current
               PROVE  prov'[p].transition = "none" /\ call'[q].made \in {0, PairingSeen(p)'}
  BY DEF SeenInv, Unsent
<1>6. CASE q = r
  <2>1. d.page = p
    BY <1>3, <1>5, <1>6 DEF Of
  <2>2. QED BY <1>3, <1>4, <1>5, <1>6, <2>1
<1>7. CASE q # r
  <2>1. q \in Of(p) /\ call'[q] = call[q]
    BY <1>3, <1>5, <1>7 DEF Of
  <2>2. QED BY <1>2, <1>4, <1>5, <2>1 DEF SeenInv
<1>8. QED BY <1>6, <1>7

LEMMA ServedRests ==
  ASSUME TabInv, UNCHANGED open, record'.pairing = record.pairing,
         record' = NoRecord <=> record = NoRecord,
         \A p \in Pages : /\ conn'[p].link = conn[p].link /\ conn'[p].pairing = conn[p].pairing
                          /\ prov'[p].loaded = prov[p].loaded
  PROVE  \A p \in Pages : ServedInv(p)' /\ PairingSeen(p)' = PairingSeen(p)
<1>1. TAKE p \in Pages
<1>2. ServedInv(p) /\ open' = open
  BY DEF TabInv
<1>3. /\ conn'[p].link = conn[p].link /\ conn'[p].pairing = conn[p].pairing
      /\ prov'[p].loaded = prov[p].loaded
  OBVIOUS
<1>4. ServedInv(p)'
  BY <1>2, <1>3 DEF ServedInv
<1>5. QED BY <1>2, <1>3, <1>4 DEF PairingSeen

\* Steps of the connection manager

LEMMA LinkMovesTab ==
  ASSUME TabInv, NEW p \in Pages, NEW l \in Established, LinkMoves(p, l)
  PROVE  TabInv'
<1>1. ProviderInv /\ TypeOK /\ \A q \in Pages : ServedInv(q) /\ SeenInv(q)
  BY DEF TabInv, ProviderInv
<1>2. /\ conn[p].link \in Established /\ conn' = [conn EXCEPT ![p].link = l]
      /\ UNCHANGED <<prov, owner, record, inflight, call, aged, open, pairings, replied,
                     approved, waived>>
  BY DEF LinkMoves, wallet
<1>3. /\ conn'[p].link = l /\ conn'[p].pairing = conn[p].pairing
      /\ \A q \in Pages \ {p} : conn'[q] = conn[q]
  <2>1. conn' = [conn EXCEPT ![p].link = l]
    BY <1>2
  <2>2. QED BY <1>1, <2>1 DEF TypeOK, LinkType
<1>4. ProviderInv'
  BY <1>1, LinkMovesInv
<1>5. CallsKept'
  BY <1>2, NoCallMoves
<1>6. ASSUME NEW q \in Pages
      PROVE  ServedInv(q)' /\ PairingSeen(q)' = PairingSeen(q)
  BY <1>1, <1>2, <1>3 DEF ServedInv, NoRecord, PairingSeen, Established
<1>7. \A q \in Pages : SeenInv(q)'
  BY <1>2, <1>6, SeenRests
<1>8. QED BY <1>4, <1>5, <1>6, <1>7 DEF TabInv, CallsKept

LEMMA WalletInfoTab ==
  ASSUME TabInv, NEW p \in Pages, NEW a \in Accounts \cup {None}, NEW c \in Chains,
         WalletInfo(p, a, c)
  PROVE  TabInv'
<1>1. ProviderInv /\ TypeOK
  BY DEF TabInv, ProviderInv
<1>2. /\ conn' = [conn EXCEPT ![p].account = IF a = @ THEN @ ELSE None, ![p].chain = c]
      /\ UNCHANGED <<prov, owner, record, inflight, call, aged, open, pairings, replied,
                     approved, waived>>
  BY DEF WalletInfo, wallet
<1>3. \A q \in Pages : conn'[q].link = conn[q].link /\ conn'[q].pairing = conn[q].pairing
  <2>1. conn' = [conn EXCEPT ![p].account = IF a = @ THEN @ ELSE None, ![p].chain = c]
    BY <1>2
  <2>2. QED BY <1>1, <2>1 DEF TypeOK, LinkType
<1>4. ProviderInv'
  BY <1>1, WalletInfoInv
<1>5. CallsKept'
  BY <1>2, NoCallMoves
<1>6. \A q \in Pages : ServedInv(q)' /\ PairingSeen(q)' = PairingSeen(q)
  BY <1>2, <1>3, ServedRests
<1>7. \A q \in Pages : SeenInv(q)'
  BY <1>2, <1>6, SeenRests
<1>8. QED BY <1>4, <1>5, <1>6, <1>7 DEF TabInv, CallsKept

LEMMA CheckpointTab ==
  ASSUME OneTab, TabInv, NEW p \in Pages, Checkpoint(p)
  PROVE  TabInv'
<1>1. /\ ProviderInv /\ TypeOK /\ LinkInv(p) /\ ServedInv(p) /\ \A q \in Pages : q = p
  BY DEF TabInv, ProviderInv, OneTab
<1>2. /\ conn[p].pairing # 0
      /\ record' = [pairing |-> conn[p].pairing, account |-> conn[p].account,
                    chain |-> conn[p].chain]
      /\ UNCHANGED <<prov, conn, owner, inflight, call, aged, open, pairings, replied,
                     approved, waived>>
  BY DEF Checkpoint, wallet
<1>3. record'.pairing = conn[p].pairing /\ conn[p].link \in Established
  BY <1>1, <1>2 DEF LinkInv
<1>4. ProviderInv'
  BY <1>1, CheckpointInv
<1>5. CallsKept'
  BY <1>2, NoCallMoves
<1>6. ServedInv(p)' /\ PairingSeen(p)' = PairingSeen(p)
  BY <1>1, <1>2, <1>3 DEF ServedInv, NoRecord, PairingSeen, Established
<1>7. \A q \in Pages : SeenInv(q)'
  BY <1>1, <1>2, <1>6, SeenRests
<1>8. QED BY <1>1, <1>4, <1>5, <1>6, <1>7 DEF TabInv, CallsKept

LEMMA TransitionFailsTab ==
  ASSUME TabInv, NEW p \in Pages, TransitionFails(p)
  PROVE  TabInv'
<1>1. ProviderInv /\ TypeOK
  BY DEF TabInv, ProviderInv
<1>2. /\ prov' = [prov EXCEPT ![p].transition = "none"]
      /\ UNCHANGED <<conn, record, inflight, call, aged, open, pairings, replied, approved,
                     waived>>
  BY DEF TransitionFails, wallet
<1>3. \A q \in Pages : /\ prov'[q].transition \in {"none", prov[q].transition}
                       /\ prov'[q].loaded = prov[q].loaded
                       /\ prov'[q].orphans = prov[q].orphans
  BY <1>1, <1>2 DEF TypeOK, TabType
<1>4. ProviderInv'
  BY <1>1, TransitionFailsInv
<1>5. CallsKept'
  BY <1>2, <1>3, NoCallMoves
<1>6. \A q \in Pages : ServedInv(q)' /\ PairingSeen(q)' = PairingSeen(q)
  BY <1>2, <1>3, ServedRests
<1>7. \A q \in Pages : SeenInv(q)'
  BY <1>2, <1>3, <1>6, SeenRests
<1>8. QED BY <1>4, <1>5, <1>6, <1>7 DEF TabInv, CallsKept

LEMMA NothingServed ==
  ASSUME TabInv, NEW p \in Pages, prov[p].loaded, conn[p].link \in {"none", "offered"}
  PROVE  record = NoRecord /\ open = {}
<1>1. ServedInv(p) /\ open \subseteq Pairings
  BY DEF TabInv, ProviderInv, TypeOK
<1>2. record = NoRecord
  BY <1>1 DEF ServedInv
<1>3. QED BY <1>1, <1>2, NoRecordTypes DEF ServedInv, Pairings

LEMMA PairTab ==
  ASSUME OneTab, TabInv, NEW p \in Pages, Pair(p)
  PROVE  TabInv'
<1>1. /\ ProviderInv /\ TypeOK /\ LinkInv(p) /\ SeenInv(p) /\ \A q \in Pages : q = p
      /\ pairings \in Nat
  BY DEF TabInv, ProviderInv, OneTab, TypeOK
<1> DEFINE n == pairings + 1
<1>2. /\ conn[p].link = "offered" /\ open' = open \cup {n}
      /\ conn' = [conn EXCEPT ![p].link = "connected", ![p].pairing = n]
      /\ record' = [pairing |-> n, account |-> None, chain |-> conn[p].chain]
      /\ UNCHANGED <<prov, owner, inflight, call, aged, replied, approved, waived>>
  BY DEF Pair
<1>3. prov[p].loaded /\ conn[p].pairing = 0
  BY <1>1, <1>2 DEF LinkInv, Established
<1>4. open = {}
  BY <1>2, <1>3, NothingServed
<1>5. n > pairings /\ n # 0
  BY <1>1
<1> HIDE DEF n
<1>6. conn'[p].link = "connected" /\ conn'[p].pairing = n /\ record'.pairing = n
  <2>1. conn' = [conn EXCEPT ![p].link = "connected", ![p].pairing = n]
    BY <1>2
  <2>2. QED BY <1>1, <1>2, <2>1 DEF TypeOK, LinkType
<1>7. ProviderInv'
  BY <1>1, PairInv
<1>8. CallsKept'
  BY <1>2, <1>5, NoCallMoves
<1>9. ServedInv(p)'
  BY <1>2, <1>4, <1>5, <1>6 DEF ServedInv
<1>10. SeenInv(p)'
  <2>1. PairingSeen(p) = 0
    BY <1>2, <1>3 DEF PairingSeen
  <2>2. Of(p)' = Of(p)
    BY <1>2 DEF Of
  <2>3. QED BY <1>1, <1>2, <2>1, <2>2 DEF SeenInv
<1>11. QED BY <1>1, <1>7, <1>8, <1>9, <1>10 DEF TabInv, CallsKept

LEMMA NoneSeen ==
  ASSUME TabInv, NEW p \in Pages, prov[p].transition # "none", UNCHANGED call
  PROVE  SeenInv(p)'
<1>1. SeenInv(p)
  BY DEF TabInv
<1>2. Of(p)' = Of(p)
  BY DEF Of
<1>3. QED BY <1>1, <1>2 DEF SeenInv

LEMMA OfferURITab ==
  ASSUME OneTab, TabInv, NEW p \in Pages, OfferURI(p)
  PROVE  TabInv'
<1>1. /\ ProviderInv /\ TypeOK /\ LinkInv(p) /\ \A q \in Pages : q = p
  BY DEF TabInv, ProviderInv, OneTab
<1> DEFINE u == Unlinked(conn[p].chain)
           t == [u EXCEPT !.link = "offered"]
<1>2. /\ prov[p].transition = "fresh" /\ record' = NoRecord
      /\ conn' = [conn EXCEPT ![p] = t]
      /\ prov' = [prov EXCEPT ![p].transition = "none"]
      /\ UNCHANGED <<inflight, call, aged, open, pairings, replied, approved, waived>>
  BY DEF OfferURI, wallet
<1>3. t.link = "offered"
  BY DEF Unlinked
<1> HIDE DEF t
<1>4. conn'[p].link = "offered"
  BY <1>1, <1>2, <1>3 DEF TypeOK
<1>5. prov'[p].loaded = prov[p].loaded /\ prov'[p].orphans = prov[p].orphans
  BY <1>1, <1>2 DEF TypeOK, TabType
<1>6. prov[p].loaded /\ conn[p].link = "none"
  BY <1>1, <1>2 DEF LinkInv
<1>7. open = {}
  BY <1>6, NothingServed
<1>8. ProviderInv'
  BY <1>1, OfferURIInv
<1>9. CallsKept'
  BY <1>1, <1>2, <1>5, NoCallMoves
<1>10. ServedInv(p)'
  BY <1>2, <1>4, <1>7 DEF ServedInv, Established
<1>11. SeenInv(p)'
  BY <1>2, NoneSeen
<1>12. QED BY <1>1, <1>8, <1>9, <1>10, <1>11 DEF TabInv, CallsKept

LEMMA RetireTab ==
  ASSUME OneTab, TabInv, NEW p \in Pages, Retire(p)
  PROVE  TabInv'
<1>1. /\ ProviderInv /\ TypeOK /\ LinkInv(p) /\ ServedInv(p) /\ \A q \in Pages : q = p
      /\ conn[p] \in LinkType
  BY DEF TabInv, ProviderInv, OneTab, TypeOK
<1> DEFINE u == Unlinked(conn[p].chain)
           x == IF prov[p].transition = "disconnect" THEN "none" ELSE "fresh"
<1>2. /\ prov[p].transition \in {"uri", "new", "disconnect"}
      /\ conn' = [conn EXCEPT ![p] = u]
      /\ prov' = [prov EXCEPT ![p].transition = x]
      /\ UNCHANGED <<inflight, call, aged, pairings, replied, approved, waived>>
  BY DEF Retire
<1>3. u.link = "none"
  BY DEF Unlinked
<1> HIDE DEF u, x
<1>4. conn'[p].link = "none"
  BY <1>1, <1>2, <1>3 DEF TypeOK
<1>5. prov'[p].loaded = prov[p].loaded /\ prov'[p].orphans = prov[p].orphans
  BY <1>1, <1>2 DEF TypeOK, TabType
<1>6. prov[p].loaded
  BY <1>1, <1>2 DEF LinkInv
<1>7. record' = NoRecord /\ open' = {}
  <2>1. CASE conn[p].link = "none"
    <3>1. record = NoRecord /\ open = {}
      BY <1>6, <2>1, NothingServed
    <3>2. QED BY <2>1, <3>1 DEF Retire
  <2>2. CASE conn[p].link # "none"
    <3>1. record' = NoRecord /\ open' = open \ {PairingSeen(p)}
      BY <2>2 DEF Retire
    <3>2. CASE conn[p].link = "restorable"
      BY <1>1, <3>1, <3>2 DEF ServedInv, PairingSeen
    <3>3. CASE conn[p].link \in Established
      BY <1>1, <3>1, <3>3 DEF ServedInv, PairingSeen, Established
    <3>4. CASE conn[p].link = "offered"
      BY <1>6, <3>1, <3>4, NothingServed
    <3>5. QED BY <1>1, <2>2, <3>2, <3>3, <3>4 DEF LinkType
  <2>3. QED BY <2>1, <2>2
<1>8. ProviderInv'
  BY <1>1, RetireInv
<1>9. CallsKept'
  BY <1>1, <1>2, <1>5, <1>7, NoCallMoves
<1>10. ServedInv(p)'
  BY <1>4, <1>7 DEF ServedInv, Established
<1>11. SeenInv(p)'
  BY <1>2, NoneSeen
<1>12. QED BY <1>1, <1>8, <1>9, <1>10, <1>11 DEF TabInv, CallsKept

LEMMA RestoreTab ==
  ASSUME OneTab, TabInv, NEW p \in Pages, Restore(p)
  PROVE  TabInv'
<1>1. /\ ProviderInv /\ TypeOK /\ ServedInv(p) /\ \A q \in Pages : q = p
  BY DEF TabInv, ProviderInv, OneTab
<1>2. /\ conn[p].link = "restorable"
      /\ UNCHANGED <<prov, record, inflight, call, aged, open, pairings, replied, approved,
                     waived>>
  BY DEF Restore, wallet
<1>3. \/ record = NoRecord /\ conn'[p].link = "none" /\ conn'[p].pairing = 0
      \/ record # NoRecord /\ conn'[p].link = "away" /\ conn'[p].pairing = record.pairing
  BY <1>1 DEF Restore, TypeOK, Unlinked
<1>4. ServedInv(p)' /\ PairingSeen(p)' = PairingSeen(p)
  <2>1. CASE record = NoRecord /\ conn'[p].link = "none" /\ conn'[p].pairing = 0
    BY <1>1, <1>2, <2>1, NoRecordTypes DEF ServedInv, PairingSeen, Established
  <2>2. CASE record # NoRecord /\ conn'[p].link = "away" /\ conn'[p].pairing = record.pairing
    BY <1>1, <1>2, <2>2 DEF ServedInv, PairingSeen, Established, NoRecord
  <2>3. QED BY <1>3, <2>1, <2>2
<1>5. ProviderInv'
  BY <1>1, RestoreInv
<1>6. CallsKept'
  BY <1>2, NoCallMoves
<1>7. \A q \in Pages : SeenInv(q)'
  BY <1>1, <1>2, <1>4, SeenRests
<1>8. QED BY <1>1, <1>4, <1>5, <1>6, <1>7 DEF TabInv, CallsKept

LEMMA LoadTab ==
  ASSUME OneTab, TabInv, NEW p \in Pages, Load(p)
  PROVE  TabInv'
<1>1. /\ ProviderInv /\ TypeOK /\ TurnInv(p) /\ ServedInv(p) /\ CallsInv /\ InflightInv
      /\ \A q \in Pages : q = p
  BY DEF TabInv, ProviderInv, OneTab
<1>2. /\ ~prov[p].loaded
      /\ prov' = [prov EXCEPT ![p].loaded = TRUE, ![p].orphans = inflight]
      /\ UNCHANGED <<owner, record, inflight, call, aged, open, pairings, replied, approved,
                     waived>>
  BY DEF Load, wallet
<1>3. \/ record = NoRecord
      \/ record # NoRecord /\ conn'[p].link = "restorable"
  BY <1>1 DEF Load, TypeOK
<1>4. conn'[p].link \in {"none", "restorable"}
  BY <1>1 DEF Load, TypeOK, Unlinked
<1>5. prov'[p].loaded /\ prov'[p].orphans = inflight
  BY <1>1, <1>2 DEF TypeOK, TabType
<1>6. Of(p) = {}
  BY <1>1, <1>2 DEF TurnInv
<1>7. \A r \in inflight : call[r].pc = "gone"
  <2>1. TAKE r \in inflight
  <2>2. r \in Calls /\ call[r].pc \in AtWallet \cup {"gone"} /\ Sound(call[r])
    BY <1>1 DEF TypeOK, InflightInv, CallsInv
  <2>3. call[r].pc \in AtWallet => call[r].page = p /\ call[r].pc \in Open
    BY <1>1, <2>2 DEF Sound, AtWallet, Open
  <2>4. QED BY <1>6, <2>2, <2>3 DEF Of
<1>8. ProviderInv'
  BY <1>1, LoadInv
<1>9. ServedInv(p)'
  BY <1>1, <1>2, <1>3, <1>4, <1>5 DEF ServedInv, Established, NoRecord
<1>10. SeenInv(p)'
  <2>1. Of(p)' = {}
    BY <1>2, <1>6 DEF Of
  <2>2. QED BY <2>1 DEF SeenInv
<1>11. AwaitedInv'
  BY <1>2 DEF TabInv, AwaitedInv, Restricted
<1>12. OrphansInv'
  BY <1>1, <1>2, <1>5, <1>7 DEF OrphansInv
<1>13. NoCrossing'
  BY <1>2 DEF TabInv, NoCrossing
<1>14. AnswersAreKept'
  <2>1. SUFFICES ASSUME NEW r \in Calls, Awaited(r)' PROVE r \in inflight
    BY <1>1, <1>2, <1>5 DEF AnswersAreKept
  <2>2. Awaited(r)
    BY <1>2, <2>1 DEF Awaited, Restricted
  <2>3. QED BY <2>2 DEF TabInv, AnswersAreKept
<1>15. QED BY <1>1, <1>8, <1>9, <1>10, <1>11, <1>12, <1>13, <1>14 DEF TabInv

\* Steps of one call

LEMMA MovesTab ==
  ASSUME TabInv, NEW r \in Calls, NEW d \in CallType, call' = Put(r, d),
         d.pc \notin Unsent \cup {"gone"}, d.sent # 0 => d.made \in {0, d.sent},
         d.pc = "pending" /\ d.m.type # "read" => r \in inflight',
         d.pc \in {"authorizing", "failing"} => r \in replied',
         inflight \ {r} \subseteq inflight', replied \subseteq replied', aged \subseteq aged',
         UNCHANGED <<open, waived>>, record'.pairing = record.pairing,
         record' = NoRecord <=> record = NoRecord,
         \A p \in Pages : conn'[p].link = conn[p].link /\ conn'[p].pairing = conn[p].pairing,
         \A p \in Pages : /\ prov'[p].orphans \in {prov[p].orphans, prov[p].orphans \ {r}}
                          /\ r \notin prov'[p].orphans
                          /\ prov'[p].loaded = prov[p].loaded
                          /\ prov'[p].transition = prov[p].transition
  PROVE  /\ CallsKept'
         /\ \A p \in Pages : SeenInv(p)'
         /\ \A p \in Pages : ServedInv(p)'
<1>1. CallsKept'
  BY CallMoves
<1>2. \A p \in Pages : ServedInv(p)' /\ PairingSeen(p)' = PairingSeen(p)
  BY ServedRests
<1>3. \A p \in Pages : SeenInv(p)'
  BY <1>2, SeenMoves
<1>4. QED BY <1>1, <1>2, <1>3

LEMMA SettlesTab ==
  ASSUME TabInv, NEW r \in Calls, NEW x \in {"answered", "refused", "late"},
         call' = Put(r, Closed(call[r], x)),
         inflight \ {r} \subseteq inflight', replied \subseteq replied', aged \subseteq aged',
         UNCHANGED <<open, waived>>, record'.pairing = record.pairing,
         record' = NoRecord <=> record = NoRecord,
         \A p \in Pages : conn'[p].link = conn[p].link /\ conn'[p].pairing = conn[p].pairing,
         \A p \in Pages : /\ prov'[p].orphans \in {prov[p].orphans, prov[p].orphans \ {r}}
                          /\ r \notin prov'[p].orphans
                          /\ prov'[p].loaded = prov[p].loaded
                          /\ prov'[p].transition = prov[p].transition
  PROVE  /\ CallsKept'
         /\ \A p \in Pages : SeenInv(p)'
         /\ \A p \in Pages : ServedInv(p)'
<1>1. PICK c \in CallType : c = call[r]
  BY DEF TabInv, ProviderInv, TypeOK
<1>2. PICK d \in CallType : d = Closed(c, x)
  BY ClosedCall
<1>3. d.pc = x /\ d.made = 0
  BY <1>2, ClosedCall
<1>4. d.pc \notin Unsent \cup {"gone"} /\ d.pc # "pending" /\ d.pc \notin {"authorizing", "failing"}
  BY <1>3 DEF Unsent
<1>5. call' = Put(r, d)
  BY <1>1, <1>2
<1>6. QED BY <1>3, <1>4, <1>5, MovesTab

LEMMA LandsTab ==
  ASSUME TabInv, NEW p \in Pages, NEW r \in Calls, call[r].pc # "gone",
         NEW c \in CallType, NEW d \in CallType, call' = Put(r, d), Landed(p, c, d),
         Recorded(r, d), c.page = p, c.made \in {0, PairingSeen(p)},
         prov[p].transition = "none",
         UNCHANGED <<conn, record, open, aged, replied, waived>>,
         \A q \in Pages : /\ prov'[q].orphans = prov[q].orphans
                          /\ prov'[q].loaded = prov[q].loaded
                          /\ prov'[q].transition = prov[q].transition
  PROVE  /\ CallsKept'
         /\ \A q \in Pages : SeenInv(q)'
         /\ \A q \in Pages : ServedInv(q)'
<1>1. /\ d.page = p /\ d.made \in {0, c.made}
      /\ d.pc \in {"pending", "joining", "unpaired", "refused", "answered"}
      /\ IF d.pc = "pending" THEN d.sent = conn[p].pairing /\ d.sent # 0 ELSE d.sent = 0
  BY DEF Landed
<1>2. conn[p].pairing # 0 => PairingSeen(p) = conn[p].pairing
  BY DEF TabInv, ProviderInv, LinkInv, PairingSeen, Established
<1>3. d.sent # 0 => d.made \in {0, d.sent}
  BY <1>1, <1>2
<1>4. /\ d.pc = "pending" /\ d.m.type # "read" => r \in inflight'
      /\ inflight \ {r} \subseteq inflight'
  BY DEF Recorded
<1>5. \A q \in Pages : r \notin prov'[q].orphans
  BY DEF TabInv, OrphansInv
<1>6. d.pc # "gone" /\ d.pc \notin {"authorizing", "failing"}
  BY <1>1
<1>7. CallsKept'
  BY <1>3, <1>4, <1>5, <1>6, CallMoves
<1>8. \A q \in Pages : ServedInv(q)' /\ PairingSeen(q)' = PairingSeen(q)
  BY ServedRests
<1>9. d.made \in {0, PairingSeen(p)}
  BY <1>1
<1>10. \A q \in Pages : SeenInv(q)'
  BY <1>1, <1>8, <1>9, SeenMoves
<1>11. QED BY <1>7, <1>8, <1>10

LEMMA SendFailsTab ==
  ASSUME TabInv, NEW p \in Pages, NEW r \in Calls, SendFails(p, r)
  PROVE  TabInv'
<1>1. /\ call[r].pc = "pending" /\ call' = Put(r, Closed(call[r], "refused"))
      /\ inflight' = inflight \ {r} /\ replied' = replied \cup {r}
      /\ UNCHANGED <<prov, conn, owner, record, aged, open, pairings, approved, waived>>
  BY DEF SendFails
<1>2. ProviderInv'
  BY SendFailsInv DEF TabInv
<1>3. \A q \in Pages : r \notin prov'[q].orphans
  BY <1>1 DEF TabInv, OrphansInv
<1>4. /\ CallsKept' /\ (\A q \in Pages : SeenInv(q)') /\ \A q \in Pages : ServedInv(q)'
  BY <1>1, <1>3, SettlesTab
<1>5. QED BY <1>2, <1>4 DEF TabInv, CallsKept

LEMMA ExpireTab ==
  ASSUME TabInv, NEW r \in Calls, Expire(r)
  PROVE  TabInv'
<1>1. /\ aged' = aged \cup {r} /\ inflight' = inflight \ {r}
      /\ call' = IF call[r].pc = "pending" THEN Put(r, Closed(call[r], "refused")) ELSE call
      /\ UNCHANGED <<prov, conn, owner, record, open, pairings, replied, approved, waived>>
  BY DEF Expire, wallet
<1>2. ProviderInv'
  BY ExpireInv DEF TabInv
<1>3. CASE call[r].pc = "pending"
  <2>1. call' = Put(r, Closed(call[r], "refused"))
    BY <1>1, <1>3
  <2>2. \A q \in Pages : r \notin prov'[q].orphans
    BY <1>1, <1>3 DEF TabInv, OrphansInv
  <2>3. /\ CallsKept' /\ (\A q \in Pages : SeenInv(q)') /\ \A q \in Pages : ServedInv(q)'
    BY <1>1, <2>1, <2>2, SettlesTab
  <2>4. QED BY <1>2, <2>3 DEF TabInv, CallsKept
<1>4. CASE call[r].pc # "pending"
  <2>1. UNCHANGED call
    BY <1>1, <1>4
  <2>2. \A q \in Pages : ServedInv(q)' /\ PairingSeen(q)' = PairingSeen(q)
    BY <1>1, ServedRests
  <2>3. \A q \in Pages : SeenInv(q)'
    BY <1>1, <2>1, <2>2, SeenRests
  <2>4. AwaitedInv'
    BY <1>1, <1>4, <2>1 DEF TabInv, AwaitedInv, Restricted
  <2>5. OrphansInv' /\ NoCrossing'
    BY <1>1, <2>1 DEF TabInv, OrphansInv, NoCrossing
  <2>6. AnswersAreKept'
    <3>1. SUFFICES ASSUME NEW q \in Calls, Awaited(q)'
                   PROVE  /\ q \in inflight'
                          /\ \A p \in Pages : prov'[p].loaded => q \in prov'[p].orphans
      BY DEF AnswersAreKept
    <3>2. Awaited(q) /\ q # r
      BY <1>1, <2>1, <3>1 DEF Awaited, Restricted
    <3>3. QED BY <1>1, <3>2 DEF TabInv, AnswersAreKept
  <2>7. QED BY <1>2, <2>2, <2>3, <2>4, <2>5, <2>6 DEF TabInv
<1>5. QED BY <1>3, <1>4

LEMMA JoinSettlesTab ==
  ASSUME TabInv, NEW p \in Pages, NEW r \in Calls, JoinSettles(p, r)
  PROVE  TabInv'
<1>1. TypeOK /\ LinkInv(p) /\ CallsInv /\ InflightInv /\ SeenInv(p)
  BY DEF TabInv, ProviderInv
<1>2. /\ call[r].pc \in {"joining", "unpaired"} /\ call[r].page = p
      /\ UNCHANGED <<prov, conn, owner, record, aged, open, pairings, replied, approved,
                     waived>>
  BY DEF JoinSettles, wallet
<1>3. ProviderInv'
  BY JoinSettlesInv DEF TabInv
<1>4. \A q \in Pages : r \notin prov'[q].orphans
  BY <1>2 DEF TabInv, OrphansInv
<1>5. CASE call' = Put(r, Closed(call[r], "refused")) /\ UNCHANGED inflight
  <2>1. /\ CallsKept' /\ (\A q \in Pages : SeenInv(q)') /\ \A q \in Pages : ServedInv(q)'
    BY <1>2, <1>4, <1>5, SettlesTab
  <2>2. QED BY <1>3, <2>1 DEF TabInv, CallsKept
<1>6. CASE call[r].current /\ Send(p, r, call[r])
  <2>1. PICK c \in CallType : c = call[r]
    BY <1>1 DEF TypeOK
  <2>2. c.pc \in {"joining", "unpaired"} /\ c.page = p
    BY <1>2, <2>1
  <2>3. c.m \in Methods /\ c.sent = 0
    BY <1>1, <2>1, <2>2 DEF CallsInv, Sound, Unsent
  <2>4. r \in Of(p)
    BY <1>2 DEF Of, Open
  <2>5. prov[p].transition = "none" /\ c.made \in {0, PairingSeen(p)}
    BY <1>1, <1>2, <1>6, <2>1, <2>4 DEF SeenInv, Unsent
  <2>6. Send(p, r, c)
    BY <1>6, <2>1 DEF Send
  <2>7. PICK d \in CallType : call' = Put(r, d) /\ Landed(p, c, d) /\ Recorded(r, d)
    BY <1>1, <2>2, <2>3, <2>6, SendLands
  <2>8. /\ CallsKept' /\ (\A q \in Pages : SeenInv(q)') /\ \A q \in Pages : ServedInv(q)'
    BY <1>2, <2>2, <2>5, <2>7, LandsTab
  <2>9. QED BY <1>3, <2>8 DEF TabInv, CallsKept
<1>7. QED BY <1>5, <1>6 DEF JoinSettles

LEMMA RequestTab ==
  ASSUME TabInv, NEW p \in Pages, NEW r \in Calls, NEW m \in Methods, Request(p, r, m)
  PROVE  TabInv'
<1>1. TypeOK /\ LinkInv(p) /\ prov[p] \in TabType
  BY DEF TabInv, ProviderInv, TypeOK
<1>2. /\ prov[p].loaded /\ prov[p].transition = "none" /\ call[r].pc = "free"
      /\ UNCHANGED <<conn, owner, record, aged, open, pairings, replied, approved, waived>>
  BY DEF Request, wallet
<1>3. PICK n \in 0 .. MaxPairings : n = PairingSeen(p)
  BY <1>1 DEF PairingSeen, TypeOK, LinkType, RecordType
<1>4. PICK c : c = Asked(p, m, n)
  OBVIOUS
<1>5. /\ c \in CallType /\ c.pc = "free" /\ c.page = p /\ c.m = m /\ c.sent = 0 /\ c.made = n
  BY <1>4, AskedCall
<1>6. \/ /\ prov' = prov \/ prov' = [prov EXCEPT ![p].turn = r]
         /\ Perform(p, r, c)
      \/ /\ prov' = [prov EXCEPT ![p].queue = Append(prov[p].queue, r)]
         /\ call' = Put(r, [c EXCEPT !.pc = "queued"])
         /\ UNCHANGED inflight
  BY <1>3, <1>4 DEF Request, Asked
<1>7. ProviderInv'
  BY RequestInv DEF TabInv
<1>8. \A q \in Pages : /\ prov'[q].orphans = prov[q].orphans
                       /\ prov'[q].loaded = prov[q].loaded
                       /\ prov'[q].transition = prov[q].transition
  <2>1. \/ prov' = prov
        \/ prov' = [prov EXCEPT ![p].turn = r]
        \/ prov' = [prov EXCEPT ![p].queue = Append(prov[p].queue, r)]
    BY <1>6
  <2>2. CASE prov' = prov
    BY <2>2
  <2>3. CASE prov' = [prov EXCEPT ![p].turn = r]
    BY <1>1, <2>3 DEF TypeOK, TabType
  <2>4. CASE prov' = [prov EXCEPT ![p].queue = Append(prov[p].queue, r)]
    BY <1>1, <2>4 DEF TypeOK, TabType
  <2>5. QED BY <2>1, <2>2, <2>3, <2>4
<1>9. CASE Perform(p, r, c)
  <2>1. PICK d \in CallType : call' = Put(r, d) /\ Landed(p, c, d) /\ Recorded(r, d)
    BY <1>1, <1>5, <1>9, PerformLands
  <2>2. c.made \in {0, PairingSeen(p)}
    BY <1>3, <1>5
  <2>3. /\ CallsKept' /\ (\A q \in Pages : SeenInv(q)') /\ \A q \in Pages : ServedInv(q)'
    BY <1>2, <1>5, <1>8, <2>1, <2>2, LandsTab
  <2>4. QED BY <1>7, <2>3 DEF TabInv, CallsKept
<1>10. CASE call' = Put(r, [c EXCEPT !.pc = "queued"]) /\ UNCHANGED inflight
  <2>1. PICK d \in CallType : /\ d = [c EXCEPT !.pc = "queued"]
                              /\ d.pc = "queued" /\ d.page = c.page /\ d.m = c.m
                              /\ d.sent = c.sent /\ d.made = c.made
    BY <1>5, MovedCall
  <2>2. call' = Put(r, d)
    BY <1>10, <2>1
  <2>3. d.pc = "queued" /\ d.page = p /\ d.sent = 0 /\ d.made \in {0, PairingSeen(p)}
    BY <1>3, <1>5, <2>1
  <2>4. \A q \in Pages : r \notin prov'[q].orphans
    BY <1>2, <1>8 DEF TabInv, OrphansInv
  <2>5. CallsKept'
    BY <1>2, <1>8, <1>10, <2>2, <2>3, <2>4, CallMoves
  <2>6. \A q \in Pages : ServedInv(q)' /\ PairingSeen(q)' = PairingSeen(q)
    BY <1>2, <1>8, ServedRests
  <2>7. \A q \in Pages : SeenInv(q)'
    BY <1>2, <1>8, <2>2, <2>3, <2>6, SeenMoves
  <2>8. QED BY <1>7, <2>5, <2>6, <2>7 DEF TabInv, CallsKept
<1>11. QED BY <1>6, <1>9, <1>10

LEMMA FinishRestrictedTab ==
  ASSUME TabInv, NEW p \in Pages, FinishRestricted(p)
  PROVE  TabInv'
<1>1. /\ TypeOK /\ LinkInv(p) /\ CallsInv /\ TurnInv(p) /\ SeenInv(p) /\ prov[p] \in TabType
  BY DEF TabInv, ProviderInv, TypeOK
<1>2. UNCHANGED <<conn, owner, record, aged, open, pairings, replied, approved, waived>>
  BY DEF FinishRestricted, wallet
<1>3. ProviderInv'
  BY FinishRestrictedInv DEF TabInv
<1>4. CASE prov[p].queue = <<>>
  <2>1. prov' = [prov EXCEPT ![p].turn = 0] /\ UNCHANGED <<call, inflight>>
    BY <1>4 DEF FinishRestricted
  <2>2. \A q \in Pages : /\ prov'[q].orphans = prov[q].orphans
                         /\ prov'[q].loaded = prov[q].loaded
                         /\ prov'[q].transition = prov[q].transition
    BY <1>1, <2>1 DEF TypeOK, TabType
  <2>3. CallsKept'
    BY <1>2, <2>1, <2>2, NoCallMoves
  <2>4. \A q \in Pages : ServedInv(q)' /\ PairingSeen(q)' = PairingSeen(q)
    BY <1>2, <2>2, ServedRests
  <2>5. \A q \in Pages : SeenInv(q)'
    BY <2>1, <2>2, <2>4, SeenRests
  <2>6. QED BY <1>3, <2>3, <2>4, <2>5 DEF TabInv, CallsKept
<1>5. CASE prov[p].queue # <<>>
  <2> DEFINE q1 == Head(prov[p].queue)
  <2>1. /\ prov' = [prov EXCEPT ![p].turn = q1, ![p].queue = Tail(prov[p].queue)]
        /\ Perform(p, q1, call[q1])
    BY <1>5 DEF FinishRestricted
  <2>2. q1 \in Of(p) /\ call[q1].pc = "queued"
    <3>1. prov[p].queue \in Seq(Calls)
      BY <1>1 DEF TabType
    <3>2. 1 \in 1 .. Len(prov[p].queue) /\ q1 = prov[p].queue[1]
      BY <1>5, <3>1
    <3>3. QED BY <1>1, <3>2 DEF TurnInv
  <2>3. PICK r \in Calls : r = q1
    BY <2>2 DEF Of
  <2>4. PICK c \in CallType : c = call[r]
    BY <1>1 DEF TypeOK
  <2>5. r \in Of(p) /\ call[r].page = p /\ call[r].pc = "queued"
    BY <2>2, <2>3 DEF Of
  <2>6. c.page = p /\ c.m \in Methods /\ c.sent = 0
    BY <1>1, <2>4, <2>5 DEF CallsInv, Sound, Unsent
  <2>7. call[r].current
    BY <1>1, <2>5 DEF CallsInv, Sound
  <2>8. prov[p].transition = "none" /\ c.made \in {0, PairingSeen(p)}
    BY <1>1, <2>4, <2>5, <2>7 DEF SeenInv, Unsent
  <2>9. Perform(p, r, c)
    BY <2>1, <2>3, <2>4 DEF Perform, Send
  <2>10. PICK d \in CallType : call' = Put(r, d) /\ Landed(p, c, d) /\ Recorded(r, d)
    BY <1>1, <2>6, <2>9, PerformLands
  <2>11. prov' = [prov EXCEPT ![p].turn = r, ![p].queue = Tail(prov[p].queue)]
    BY <2>1, <2>3
  <2>12. \A q \in Pages : /\ prov'[q].orphans = prov[q].orphans
                          /\ prov'[q].loaded = prov[q].loaded
                          /\ prov'[q].transition = prov[q].transition
    BY <1>1, <2>11 DEF TypeOK, TabType
  <2>13. /\ CallsKept' /\ (\A q \in Pages : SeenInv(q)') /\ \A q \in Pages : ServedInv(q)'
    BY <1>2, <2>5, <2>6, <2>8, <2>10, <2>12, LandsTab
  <2>14. QED BY <1>3, <2>13 DEF TabInv, CallsKept
<1>6. QED BY <1>4, <1>5

LEMMA AuthorizeSettlesTab ==
  ASSUME TabInv, NEW p \in Pages, NEW r \in Calls, AuthorizeSettles(p, r)
  PROVE  TabInv'
<1>1. /\ TypeOK /\ LinkInv(p) /\ ServedInv(p) /\ CallsInv /\ record \in RecordType
  BY DEF TabInv, ProviderInv, TypeOK
<1>2. /\ call[r].pc \in {"authorizing", "failing"} /\ inflight' = inflight \ {r}
      /\ UNCHANGED <<prov, conn, owner, aged, open, pairings, replied, approved, waived>>
  BY DEF AuthorizeSettles, wallet
<1>3. PICK x \in {"answered", "refused", "late"} : call' = Put(r, Closed(call[r], x))
  <2>1. \/ call' = Outcome(r, "answered")
        \/ call' = Outcome(r, "refused")
    BY DEF AuthorizeSettles
  <2>2. CASE call' = Outcome(r, "answered")
    BY <2>2, Zenon DEF Outcome
  <2>3. CASE call' = Outcome(r, "refused")
    BY <2>3, Zenon DEF Outcome
  <2>4. QED BY <2>1, <2>2, <2>3
<1>4. ProviderInv'
  BY AuthorizeSettlesInv DEF TabInv
<1>5. record'.pairing = record.pairing /\ (record' = NoRecord <=> record = NoRecord)
  <2>1. \/ record' = record
        \/ /\ conn[p].pairing = call[r].sent /\ call[r].pc = "authorizing"
           /\ record' = [record EXCEPT !.account = conn[p].account, !.chain = conn[p].chain]
    BY DEF AuthorizeSettles
  <2>2. CASE record' = record
    BY <2>2
  <2>3. CASE /\ conn[p].pairing = call[r].sent /\ call[r].pc = "authorizing"
             /\ record' = [record EXCEPT !.account = conn[p].account, !.chain = conn[p].chain]
    <3>1. conn[p].pairing # 0
      BY <1>1, <2>3 DEF CallsInv, Sound, AtWallet
    <3>2. record.pairing # 0
      BY <1>1, <3>1 DEF LinkInv, ServedInv
    <3>3. record'.pairing = record.pairing
      BY <1>1, <2>3 DEF RecordType
    <3>4. QED BY <3>2, <3>3, NoRecordTypes
  <2>4. QED BY <2>1, <2>2, <2>3
<1>6. \A q \in Pages : r \notin prov'[q].orphans
  BY <1>2 DEF TabInv, OrphansInv
<1>7. /\ CallsKept' /\ (\A q \in Pages : SeenInv(q)') /\ \A q \in Pages : ServedInv(q)'
  BY <1>2, <1>3, <1>5, <1>6, SettlesTab
<1>8. QED BY <1>4, <1>7 DEF TabInv, CallsKept

LEMMA AuthorizeFailsTab ==
  ASSUME TabInv, NEW p \in Pages, NEW r \in Calls, AuthorizeFails(p, r)
  PROVE  TabInv'
<1>1. TypeOK /\ CallsInv
  BY DEF TabInv, ProviderInv
<1>2. /\ call[r].pc = "authorizing"
      /\ conn' = [conn EXCEPT ![p].account = call[r].prev]
      /\ call' = Put(r, [call[r] EXCEPT !.pc = "failing"])
      /\ UNCHANGED <<prov, owner, record, inflight, aged, open, pairings, replied, approved,
                     waived>>
  BY DEF AuthorizeFails, wallet
<1>3. PICK c \in CallType : c = call[r]
  BY <1>1 DEF TypeOK
<1>4. PICK d \in CallType : /\ d = [c EXCEPT !.pc = "failing"]
                           /\ d.pc = "failing" /\ d.sent = c.sent /\ d.made = c.made
  BY MovedCall
<1>5. call' = Put(r, d)
  BY <1>2, <1>3, <1>4
<1>6. /\ d.pc \notin Unsent \cup {"gone"} /\ d.pc # "pending"
      /\ d.sent # 0 => d.made \in {0, d.sent}
  BY <1>3, <1>4 DEF Unsent, TabInv, NoCrossing
<1>7. r \in replied /\ \A q \in Pages : r \notin prov'[q].orphans
  BY <1>2 DEF TabInv, AwaitedInv, OrphansInv
<1>8. \A q \in Pages : conn'[q].link = conn[q].link /\ conn'[q].pairing = conn[q].pairing
  <2>1. conn' = [conn EXCEPT ![p].account = call[r].prev]
    BY <1>2
  <2>2. QED BY <1>1, <2>1 DEF TypeOK, LinkType
<1>9. UNCHANGED <<prov, record, inflight, aged, open, replied, waived>>
  BY <1>2
<1>10. ProviderInv'
  BY AuthorizeFailsInv DEF TabInv
<1>11. /\ CallsKept' /\ (\A q \in Pages : SeenInv(q)') /\ \A q \in Pages : ServedInv(q)'
  BY <1>5, <1>6, <1>7, <1>8, <1>9, MovesTab
<1>12. QED BY <1>10, <1>11 DEF TabInv, CallsKept

LEMMA ApprovesTab ==
  ASSUME TabInv, NEW p \in Pages, NEW r \in Calls, NEW c \in CallType, c = call[r],
         NEW a \in Accounts, NEW d \in CallType,
         d.pc = "authorizing", d.sent = c.sent, d.made = c.made,
         call' = Put(r, d), conn' = [conn EXCEPT ![p].account = a],
         inflight \ {r} \subseteq inflight',
         UNCHANGED <<record, aged, open, waived>>, replied' = replied \cup {r},
         \A q \in Pages : /\ prov'[q].orphans \in {prov[q].orphans, prov[q].orphans \ {r}}
                          /\ r \notin prov'[q].orphans
                          /\ prov'[q].loaded = prov[q].loaded
                          /\ prov'[q].transition = prov[q].transition
  PROVE  /\ CallsKept'
         /\ \A q \in Pages : SeenInv(q)'
         /\ \A q \in Pages : ServedInv(q)'
<1>1. TypeOK
  BY DEF TabInv, ProviderInv
<1>2. \A q \in Pages : conn'[q].link = conn[q].link /\ conn'[q].pairing = conn[q].pairing
  BY <1>1 DEF TypeOK, LinkType
<1>3. /\ d.pc \notin Unsent \cup {"gone"} /\ d.pc # "pending"
      /\ d.sent # 0 => d.made \in {0, d.sent}
  BY DEF Unsent, TabInv, NoCrossing
<1>4. replied \subseteq replied' /\ r \in replied' /\ aged \subseteq aged'
  OBVIOUS
<1>5. QED BY <1>2, <1>3, <1>4, MovesTab

LEMMA ResponseTab ==
  ASSUME OneTab, TabInv, NEW p \in Pages, NEW r \in Calls, Response(p, r)
  PROVE  TabInv'
<1>1. TypeOK /\ prov[p] \in TabType /\ conn[p] \in LinkType /\ \A q \in Pages : q = p
  BY DEF TabInv, ProviderInv, TypeOK, OneTab
<1>2. /\ replied' = replied \cup {r}
      /\ UNCHANGED <<owner, record, aged, open, pairings, waived>>
  BY DEF Response
<1>3. ProviderInv'
  BY ResponseInv DEF TabInv
<1>4. PICK c \in CallType : c = call[r]
  BY <1>1 DEF TypeOK
<1>5. PICK b \in Accounts \cup {None} : b = conn[p].account
  BY <1>1 DEF LinkType
<1>6. CASE RespondPending(p, r)
  <2>1. call[r].pc = "pending" /\ UNCHANGED prov
    BY <1>6 DEF RespondPending
  <2>2. \A q \in Pages : r \notin prov'[q].orphans
    BY <2>1 DEF TabInv, OrphansInv
  <2>3. CASE \E a \in Accounts :
               /\ call' = Put(r, [call[r] EXCEPT !.pc = "authorizing", !.prev = conn[p].account])
               /\ conn' = [conn EXCEPT ![p].account = a]
               /\ inflight' = inflight
    <3>1. PICK a \in Accounts :
            /\ call' = Put(r, [call[r] EXCEPT !.pc = "authorizing", !.prev = conn[p].account])
            /\ conn' = [conn EXCEPT ![p].account = a]
            /\ inflight' = inflight
      BY <2>3
    <3>2. PICK d \in CallType : /\ d = [c EXCEPT !.pc = "authorizing", !.prev = b]
                               /\ d.pc = "authorizing" /\ d.sent = c.sent /\ d.made = c.made
      BY ApprovedCall
    <3>3. call' = Put(r, d)
      BY <1>4, <1>5, <3>1, <3>2
    <3>4. d.pc = "authorizing" /\ d.sent = c.sent /\ d.made = c.made
      BY <3>2
    <3>5. conn' = [conn EXCEPT ![p].account = a] /\ inflight \ {r} \subseteq inflight'
      BY <3>1
    <3>6. /\ CallsKept' /\ (\A q \in Pages : SeenInv(q)') /\ \A q \in Pages : ServedInv(q)'
      BY <1>2, <1>4, <2>1, <2>2, <3>3, <3>4, <3>5, ApprovesTab
    <3>7. QED BY <1>3, <3>6 DEF TabInv, CallsKept
  <2>4. CASE /\ \E x \in {"answered", "refused"} : call' = Put(r, Closed(call[r], x))
             /\ inflight' = inflight \ {r} /\ UNCHANGED conn
    <3>1. /\ CallsKept' /\ (\A q \in Pages : SeenInv(q)') /\ \A q \in Pages : ServedInv(q)'
      BY <1>2, <2>1, <2>2, <2>4, SettlesTab
    <3>2. QED BY <1>3, <3>1 DEF TabInv, CallsKept
  <2>5. QED BY <1>6, <2>3, <2>4 DEF RespondPending
<1>7. CASE RespondOrphan(p, r)
  <2>1. prov' = [prov EXCEPT ![p].orphans = prov[p].orphans \ {r}] /\ inflight' = inflight \ {r}
    BY <1>7 DEF RespondOrphan
  <2>2. \A q \in Pages : /\ prov'[q].orphans \in {prov[q].orphans, prov[q].orphans \ {r}}
                         /\ r \notin prov'[q].orphans
                         /\ prov'[q].loaded = prov[q].loaded
                         /\ prov'[q].transition = prov[q].transition
    <3>1. /\ prov'[p].orphans = prov[p].orphans \ {r} /\ prov'[p].loaded = prov[p].loaded
          /\ prov'[p].transition = prov[p].transition
      BY <1>1, <2>1 DEF TypeOK, TabType
    <3>2. QED BY <1>1, <3>1
  <2>3. CASE \E a \in Accounts :
               /\ call' = Put(r, [call[r] EXCEPT !.pc = "authorizing", !.page = p,
                                    !.late = TRUE, !.prev = conn[p].account])
               /\ conn' = [conn EXCEPT ![p].account = a]
    <3>1. PICK a \in Accounts :
            /\ call' = Put(r, [call[r] EXCEPT !.pc = "authorizing", !.page = p,
                                 !.late = TRUE, !.prev = conn[p].account])
            /\ conn' = [conn EXCEPT ![p].account = a]
      BY <2>3
    <3>2. PICK d : d = Adopted(c, p, b)
      OBVIOUS
    <3>3. call' = Put(r, d)
      BY <1>4, <1>5, <3>1, <3>2 DEF Adopted
    <3>4. /\ d \in CallType /\ d.pc = "authorizing" /\ d.sent = c.sent /\ d.made = c.made
      BY <3>2, AdoptedCall
    <3>5. conn' = [conn EXCEPT ![p].account = a] /\ inflight \ {r} \subseteq inflight'
      BY <2>1, <3>1
    <3>6. /\ CallsKept' /\ (\A q \in Pages : SeenInv(q)') /\ \A q \in Pages : ServedInv(q)'
      BY <1>2, <1>4, <2>2, <3>3, <3>4, <3>5, ApprovesTab
    <3>7. QED BY <1>3, <3>6 DEF TabInv, CallsKept
  <2>4. CASE call' = Put(r, Closed(call[r], "late")) /\ UNCHANGED conn
    <3>1. /\ CallsKept' /\ (\A q \in Pages : SeenInv(q)') /\ \A q \in Pages : ServedInv(q)'
      BY <1>2, <2>1, <2>2, <2>4, SettlesTab
    <3>2. QED BY <1>3, <3>1 DEF TabInv, CallsKept
  <2>5. QED BY <1>7, <2>3, <2>4 DEF RespondOrphan
<1>8. CASE RespondUnknown(p, r)
  <2>1. UNCHANGED <<prov, conn, inflight, call, approved>>
    BY <1>8 DEF RespondUnknown
  <2>2. \A q \in Pages : ServedInv(q)' /\ PairingSeen(q)' = PairingSeen(q)
    BY <1>2, <2>1, ServedRests
  <2>3. \A q \in Pages : SeenInv(q)'
    BY <1>2, <2>1, <2>2, SeenRests
  <2>4. AwaitedInv'
    BY <1>2, <2>1 DEF TabInv, AwaitedInv, Restricted
  <2>5. OrphansInv' /\ NoCrossing'
    BY <1>2, <2>1 DEF TabInv, OrphansInv, NoCrossing
  <2>6. AnswersAreKept'
    <3>1. SUFFICES ASSUME NEW q \in Calls, Awaited(q)'
                   PROVE  /\ q \in inflight'
                          /\ \A x \in Pages : prov'[x].loaded => q \in prov'[x].orphans
      BY DEF AnswersAreKept
    <3>2. Awaited(q)
      BY <1>2, <2>1, <3>1 DEF Awaited, Restricted
    <3>3. QED BY <2>1, <3>2 DEF TabInv, AnswersAreKept
  <2>7. QED BY <1>3, <2>2, <2>3, <2>4, <2>5, <2>6 DEF TabInv
<1>9. QED BY <1>6, <1>7, <1>8 DEF Response

\* Cancellation

LEMMA CancelsTab ==
  ASSUME OneTab, TabInv, NEW p \in Pages, Cancel(p), UNCHANGED <<pairings, approved, replied>>,
         prov'[p].orphans \subseteq prov[p].orphans
  PROVE  SeenInv(p)' /\ AwaitedInv' /\ OrphansInv' /\ NoCrossing'
<1>1. ProviderInv /\ TypeOK /\ CallsInv /\ \A q \in Pages : q = p
  BY DEF TabInv, ProviderInv, OneTab
<1>2. ASSUME NEW r \in Calls, r \notin Of(p)
      PROVE  call'[r].pc \notin Open
  <2>1. call'[r] = call[r]
    BY <1>1, <1>2, CancelledCalls
  <2>2. Sound(call[r])
    BY <1>1 DEF CallsInv
  <2>3. call[r].pc \in Open => call[r].page = p
    BY <1>1, <2>2 DEF Sound, Open
  <2>4. QED BY <1>2, <2>1, <2>3 DEF Of
<1>3. ASSUME NEW r \in Of(p)
      PROVE  ~call'[r].current /\ call'[r].pc # "pending"
  <2>1. r \in Calls
    BY DEF Of
  <2>2. ~call'[r].current
    BY <1>1, <2>1, CancelledCalls
  <2>3. CASE r \in Cancelled(p)
    <3>1. call'[r].pc = "refused"
      BY <1>1, <2>1, <2>3, CancelledCalls
    <3>2. QED BY <2>2, <3>1
  <2>4. CASE r \notin Cancelled(p)
    <3>1. call'[r].pc = call[r].pc
      BY <1>1, <2>1, <2>4, CancelledCalls
    <3>2. call[r].pc # "pending"
      BY <2>4 DEF Cancelled
    <3>3. QED BY <2>2, <3>1, <3>2
  <2>5. QED BY <2>3, <2>4
<1>4. SeenInv(p)'
  <2>1. ASSUME NEW r \in Of(p)'
        PROVE  ~call'[r].current
    <3>1. r \in Calls /\ call'[r].pc \in Open
      BY DEF Of
    <3>2. QED BY <1>2, <1>3, <3>1
  <2>2. QED BY <2>1 DEF SeenInv
<1>5. AwaitedInv'
  <2>1. SUFFICES ASSUME NEW r \in Calls
                 PROVE  /\ call'[r].pc # "pending"
                        /\ call'[r].pc \in {"authorizing", "failing"} => r \in replied
    BY DEF AwaitedInv
  <2>2. call'[r].pc # "pending"
    BY <1>2, <1>3 DEF Open
  <2>3. call'[r].pc \in {"authorizing", "failing"} => call[r].pc = call'[r].pc
    BY <1>1, CancelledCalls
  <2>4. QED BY <2>2, <2>3 DEF TabInv, AwaitedInv
<1>6. OrphansInv'
  <2>1. SUFFICES ASSUME NEW r \in prov'[p].orphans PROVE call'[r].pc = "gone"
    BY <1>1 DEF OrphansInv
  <2>2. r \in Calls /\ call[r].pc = "gone"
    BY <1>1, <2>1 DEF TypeOK, TabType, TabInv, OrphansInv
  <2>3. r \notin Of(p)
    BY <2>2 DEF Of, Open
  <2>4. QED BY <1>1, <2>2, <2>3, CancelledCalls
<1>7. NoCrossing'
  <2>1. SUFFICES ASSUME NEW r \in Calls, call'[r].sent # 0
                 PROVE  call'[r].made \in {0, call'[r].sent}
    BY DEF NoCrossing
  <2>2. CASE r \in Cancelled(p)
    BY <1>1, <2>2, CancelledCalls
  <2>3. CASE r \notin Cancelled(p)
    <3>1. call'[r].sent = call[r].sent /\ call'[r].made = call[r].made
      BY <1>1, <2>3, CancelledCalls
    <3>2. QED BY <2>1, <3>1 DEF TabInv, NoCrossing
  <2>4. QED BY <2>2, <2>3
<1>8. QED BY <1>4, <1>5, <1>6, <1>7

LEMMA GoneIsKept ==
  ASSUME TabInv, NEW p \in Pages, Cancel(p), UNCHANGED <<pairings, approved>>,
         NEW r \in Calls, call'[r].pc = "gone"
  PROVE  call[r].pc = "gone" /\ call'[r] = call[r] /\ r \notin Cancelled(p)
<1>1. ProviderInv
  BY DEF TabInv
<1>2. r \notin Cancelled(p)
  BY <1>1, CancelledCalls
<1>3. call[r].pc = "gone"
  BY <1>1, <1>2, CancelledCalls
<1>4. r \notin Of(p)
  BY <1>3 DEF Of, Open
<1>5. QED BY <1>1, <1>2, <1>3, <1>4, CancelledCalls

LEMMA ConnectionLostTab ==
  ASSUME OneTab, TabInv, NEW p \in Pages, ConnectionLost(p)
  PROVE  TabInv'
<1>1. /\ TypeOK /\ prov[p] \in TabType /\ conn[p] \in LinkType /\ ServedInv(p)
      /\ \A q \in Pages : q = p
  BY DEF TabInv, ProviderInv, TypeOK, OneTab
<1>2. /\ conn[p].link \in Established /\ conn' = [conn EXCEPT ![p].link = "away"]
      /\ Cancel(p) /\ prov' = [prov EXCEPT ![p].queue = <<>>]
      /\ inflight' = inflight \ Cancelled(p)
      /\ UNCHANGED <<owner, record, aged, open, pairings, replied, approved, waived>>
  BY DEF ConnectionLost, CancelAllRequests, wallet
<1>3. ProviderInv'
  BY ConnectionLostInv DEF TabInv
<1>4. prov'[p].orphans = prov[p].orphans /\ prov'[p].loaded = prov[p].loaded
  <2>1. prov' = [prov EXCEPT ![p].queue = <<>>]
    BY <1>2
  <2>2. QED BY <1>1, <2>1 DEF TypeOK, TabType
<1>5. conn'[p].link = "away" /\ conn'[p].pairing = conn[p].pairing
  <2>1. conn' = [conn EXCEPT ![p].link = "away"]
    BY <1>2
  <2>2. QED BY <1>1, <2>1 DEF TypeOK, LinkType
<1>6. SeenInv(p)' /\ AwaitedInv' /\ OrphansInv' /\ NoCrossing'
  BY <1>2, <1>4, CancelsTab
<1>7. ServedInv(p)'
  BY <1>1, <1>2, <1>5 DEF ServedInv, Established, NoRecord
<1>8. AnswersAreKept'
  <2>1. SUFFICES ASSUME NEW r \in Calls, Awaited(r)'
                 PROVE  r \in inflight' /\ (prov'[p].loaded => r \in prov'[p].orphans)
    BY <1>1 DEF AnswersAreKept
  <2>2. call'[r].pc = "gone"
    BY <2>1 DEF Awaited
  <2>3. call'[r] = call[r] /\ r \notin Cancelled(p)
    BY <1>2, <2>2, GoneIsKept
  <2>4. Awaited(r)
    BY <1>2, <2>1, <2>3 DEF Awaited, Restricted
  <2>5. QED BY <1>2, <1>4, <2>3, <2>4 DEF TabInv, AnswersAreKept
<1>9. QED BY <1>1, <1>3, <1>6, <1>7, <1>8 DEF TabInv

LEMMA SessionTerminatedTab ==
  ASSUME OneTab, TabInv, NEW p \in Pages, SessionTerminated(p)
  PROVE  TabInv'
<1>1. /\ TypeOK /\ prov[p] \in TabType /\ LinkInv(p) /\ ServedInv(p)
      /\ open \subseteq Pairings /\ \A q \in Pages : q = p
  BY DEF TabInv, ProviderInv, TypeOK, OneTab
<1>2. /\ conn[p].link \in Established \cup {"offered"}
      /\ conn' = [conn EXCEPT ![p] = Unlinked(conn[p].chain)] /\ record' = NoRecord
      /\ open' = open \ {conn[p].pairing}
      /\ Cancel(p)
      /\ prov' = [prov EXCEPT ![p].queue = <<>>, ![p].orphans = {},
                              ![p].transition = prov[p].transition]
      /\ UNCHANGED <<aged, pairings, replied, approved, waived>>
  BY DEF SessionTerminated, CancelAndForget
<1>3. ProviderInv'
  BY SessionTerminatedInv DEF TabInv
<1>4. prov'[p].orphans = {}
  <2>1. prov' = [prov EXCEPT ![p].queue = <<>>, ![p].orphans = {},
                             ![p].transition = prov[p].transition]
    BY <1>2
  <2>2. QED BY <1>1, <2>1 DEF TypeOK, TabType
<1>5. conn'[p].link = "none"
  <2>1. conn' = [conn EXCEPT ![p] = Unlinked(conn[p].chain)]
    BY <1>2
  <2>2. QED BY <1>1, <2>1 DEF TypeOK, Unlinked
<1>6. open' = {}
  <2>1. CASE conn[p].link \in Established
    BY <1>1, <1>2, <2>1 DEF ServedInv
  <2>2. CASE conn[p].link = "offered"
    <3>1. prov[p].loaded
      BY <1>1, <2>2 DEF LinkInv
    <3>2. QED BY <1>2, <2>2, <3>1, NothingServed
  <2>3. QED BY <1>2, <2>1, <2>2
<1>7. SeenInv(p)' /\ AwaitedInv' /\ OrphansInv' /\ NoCrossing'
  BY <1>2, <1>4, CancelsTab
<1>8. ServedInv(p)'
  BY <1>2, <1>5, <1>6 DEF ServedInv, Established
<1>9. AnswersAreKept'
  BY <1>6 DEF AnswersAreKept, Awaited
<1>10. QED BY <1>1, <1>3, <1>7, <1>8, <1>9 DEF TabInv

LEMMA BeginTransitionTab ==
  ASSUME OneTab, TabInv, NEW p \in Pages, NEW t \in {"uri", "new", "disconnect"},
         BeginTransition(p, t)
  PROVE  TabInv'
<1>1. /\ TypeOK /\ prov[p] \in TabType /\ ServedInv(p) /\ \A q \in Pages : q = p
  BY DEF TabInv, ProviderInv, TypeOK, OneTab
<1>2. /\ Cancel(p)
      /\ prov' = [prov EXCEPT ![p].queue = <<>>, ![p].orphans = {}, ![p].transition = t]
      /\ UNCHANGED <<conn, owner, record, aged, open, pairings, replied, approved>>
  BY DEF BeginTransition, CancelAndForget, wallet
<1>3. waived' = {r \in Calls : call[r].pc = "gone"}
  BY <1>1 DEF BeginTransition, TypeOK
<1>4. ProviderInv'
  BY BeginTransitionInv DEF TabInv
<1>5. prov'[p].orphans = {} /\ prov'[p].loaded = prov[p].loaded
  <2>1. prov' = [prov EXCEPT ![p].queue = <<>>, ![p].orphans = {}, ![p].transition = t]
    BY <1>2
  <2>2. QED BY <1>1, <2>1 DEF TypeOK, TabType
<1>6. SeenInv(p)' /\ AwaitedInv' /\ OrphansInv' /\ NoCrossing'
  BY <1>2, <1>5, CancelsTab
<1>7. ServedInv(p)'
  BY <1>1, <1>2, <1>5 DEF ServedInv, NoRecord
<1>8. AnswersAreKept'
  <2>1. SUFFICES ASSUME NEW r \in Calls, Awaited(r)' PROVE FALSE
    BY DEF AnswersAreKept
  <2>2. call'[r].pc = "gone" /\ r \notin waived'
    BY <2>1 DEF Awaited
  <2>3. call[r].pc = "gone"
    BY <1>2, <2>2, GoneIsKept
  <2>4. QED BY <1>3, <2>2, <2>3
<1>9. QED BY <1>1, <1>4, <1>6, <1>7, <1>8 DEF TabInv

LEMMA UnloadTab ==
  ASSUME OneTab, TabInv, NEW p \in Pages, Unload(p)
  PROVE  TabInv'
<1>1. /\ TypeOK /\ CallsInv /\ ServedInv(p) /\ open \subseteq Pairings
      /\ \A q \in Pages : q = p
  BY DEF TabInv, ProviderInv, TypeOK, OneTab
<1>2. /\ prov' = [prov EXCEPT ![p] = Unloaded]
      /\ conn' = [conn EXCEPT ![p] = Unlinked(conn[p].chain)]
      /\ call' = [r \in Calls |-> IF r \in Of(p) THEN Closed(call[r], "gone") ELSE call[r]]
      /\ UNCHANGED <<record, inflight, aged, open, pairings, replied, approved, waived>>
  BY <1>1 DEF Unload, wallet, TypeOK
<1>3. ProviderInv'
  BY UnloadInv DEF TabInv
<1>4. conn'[p].link = "none" /\ ~prov'[p].loaded /\ prov'[p].orphans = {}
  <2>1. conn'[p].link = "none"
    BY <1>1, <1>2 DEF TypeOK, Unlinked
  <2>2. prov'[p] = Unloaded
    BY <1>1, <1>2 DEF TypeOK
  <2>3. QED BY <2>1, <2>2, UnloadedType
<1>5. ASSUME NEW r \in Calls
      PROVE  /\ r \in Of(p) => /\ call'[r].pc = "gone" /\ call'[r].sent = call[r].sent
                               /\ call'[r].made = 0 /\ call'[r].m = call[r].m
             /\ r \notin Of(p) => call'[r] = call[r] /\ call'[r].pc \notin Open
  <2>1. PICK c \in CallType : c = call[r]
    BY <1>1 DEF TypeOK
  <2>2. Sound(c)
    BY <1>1, <2>1 DEF CallsInv, Sound
  <2>3. CASE r \in Of(p)
    <3>1. call'[r] = Closed(c, "gone")
      BY <1>2, <2>1, <2>3
    <3>2. QED BY <2>1, <2>3, <3>1, ClosedCall
  <2>4. CASE r \notin Of(p)
    <3>1. call'[r] = c
      BY <1>2, <2>1, <2>4
    <3>2. c.pc \in Open => c.page = p
      BY <1>1, <2>2 DEF Sound, Open
    <3>3. QED BY <2>1, <2>4, <3>1, <3>2 DEF Of
  <2>5. QED BY <2>3, <2>4
<1>6. \A r \in Calls : call'[r].pc \notin Open
  BY <1>5 DEF Open
<1>7. SeenInv(p)'
  <2>1. Of(p)' = {}
    BY <1>6 DEF Of
  <2>2. QED BY <2>1 DEF SeenInv
<1>8. ServedInv(p)'
  BY <1>1, <1>2, <1>4 DEF ServedInv, Established, NoRecord
<1>9. AwaitedInv'
  BY <1>6 DEF AwaitedInv, Open
<1>10. OrphansInv'
  BY <1>1, <1>4 DEF OrphansInv
<1>11. NoCrossing'
  <2>1. SUFFICES ASSUME NEW r \in Calls, call'[r].sent # 0
                 PROVE  call'[r].made \in {0, call'[r].sent}
    BY DEF NoCrossing
  <2>2. QED BY <1>5, <2>1 DEF TabInv, NoCrossing
<1>12. AnswersAreKept'
  <2>1. SUFFICES ASSUME NEW r \in Calls, Awaited(r)' PROVE r \in inflight
    BY <1>1, <1>2, <1>4 DEF AnswersAreKept
  <2>2. call'[r].sent \in open /\ r \notin replied \cup aged \cup waived
    BY <1>2, <2>1 DEF Awaited
  <2>3. CASE r \in Of(p)
    <3>1. call[r].sent # 0 /\ Restricted(r)
      BY <1>1, <1>5, <2>1, <2>2, <2>3 DEF Pairings, Awaited, Restricted
    <3>2. call[r].pc \notin Unsent
      BY <1>1, <3>1 DEF CallsInv, Sound
    <3>3. call[r].pc \notin {"authorizing", "failing"}
      BY <2>2 DEF TabInv, AwaitedInv
    <3>4. call[r].pc = "pending"
      BY <2>3, <3>2, <3>3 DEF Of, Open, Unsent
    <3>5. QED BY <3>1, <3>4 DEF TabInv, AwaitedInv
  <2>4. CASE r \notin Of(p)
    <3>1. call'[r] = call[r]
      BY <1>5, <2>4
    <3>2. Awaited(r)
      BY <1>2, <2>1, <3>1 DEF Awaited, Restricted
    <3>3. QED BY <3>2 DEF TabInv, AnswersAreKept
  <2>5. QED BY <2>3, <2>4
<1>13. QED BY <1>1, <1>3, <1>7, <1>8, <1>9, <1>10, <1>11, <1>12 DEF TabInv

LEMMA StutterTab == ASSUME TabInv, UNCHANGED vars PROVE TabInv'
<1>1. UNCHANGED <<prov, conn, owner, record, inflight, call, aged, open, pairings, replied,
                  approved, waived>>
  BY DEF vars, wallet
<1>2. ProviderInv'
  BY StutterInv DEF TabInv
<1>3. CallsKept'
  BY <1>1, NoCallMoves
<1>4. \A p \in Pages : ServedInv(p)' /\ PairingSeen(p)' = PairingSeen(p)
  BY <1>1, ServedRests
<1>5. \A p \in Pages : SeenInv(p)'
  BY <1>1, <1>4, SeenRests
<1>6. QED BY <1>2, <1>3, <1>4, <1>5 DEF TabInv, CallsKept

LEMMA InitTab == Init => TabInv
<1> SUFFICES ASSUME Init PROVE TabInv
  OBVIOUS
<1>1. PICK c \in Chains : conn = [p \in Pages |-> Unlinked(c)]
  BY DEF Init
<1>2. Unlinked(c).link = "none"
  BY DEF Unlinked
<1>3. /\ prov = [p \in Pages |-> Unloaded] /\ record = NoRecord /\ open = {}
      /\ call = [r \in Calls |-> Unused]
  BY DEF Init
<1>4. ProviderInv
  BY InitInv
<1>5. \A r \in Calls : call[r].pc = "free" /\ call[r].sent = 0
  BY <1>3, UnusedType
<1>6. \A p \in Pages : prov[p].orphans = {} /\ conn[p].link = "none"
  BY <1>1, <1>2, <1>3, UnloadedType
<1>7. ASSUME NEW p \in Pages
      PROVE  SeenInv(p) /\ ServedInv(p)
  <2>1. Of(p) = {}
    BY <1>5 DEF Of, Open
  <2>2. QED BY <1>3, <1>6, <2>1 DEF SeenInv, ServedInv, Established, NoRecord
<1>8. AwaitedInv /\ OrphansInv /\ NoCrossing /\ AnswersAreKept
  BY <1>5, <1>6 DEF AwaitedInv, OrphansInv, NoCrossing, AnswersAreKept, Awaited
<1>9. QED BY <1>4, <1>7, <1>8 DEF TabInv

LEMMA NextTab == ASSUME OneTab, TabInv, [Next]_vars PROVE TabInv'
<1>1. ASSUME NEW p \in Pages, NEW r \in Calls, NEW m \in Methods, Request(p, r, m)
      PROVE  TabInv'
  BY <1>1, RequestTab
<1>2. ASSUME NEW p \in Pages, NEW r \in Calls,
             \/ JoinSettles(p, r) \/ SendFails(p, r) \/ Response(p, r)
             \/ AuthorizeSettles(p, r) \/ AuthorizeFails(p, r)
      PROVE  TabInv'
  BY <1>2, JoinSettlesTab, SendFailsTab, ResponseTab, AuthorizeSettlesTab, AuthorizeFailsTab
<1>3. ASSUME NEW r \in Calls, Expire(r)
      PROVE  TabInv'
  BY <1>3, ExpireTab
<1>4. ASSUME NEW p \in Pages,
             \/ FinishRestricted(p) \/ ConnectionLost(p) \/ SessionTerminated(p) \/ Retire(p)
             \/ OfferURI(p) \/ TransitionFails(p) \/ Pair(p) \/ Restore(p) \/ Checkpoint(p)
             \/ Load(p) \/ Unload(p)
      PROVE  TabInv'
  BY <1>4, FinishRestrictedTab, ConnectionLostTab, SessionTerminatedTab, RetireTab,
     OfferURITab, TransitionFailsTab, PairTab, RestoreTab, CheckpointTab, LoadTab, UnloadTab
<1>5. ASSUME NEW p \in Pages, NEW t \in {"uri", "new", "disconnect"}, BeginTransition(p, t)
      PROVE  TabInv'
  BY <1>5, BeginTransitionTab
<1>6. ASSUME NEW p \in Pages, NEW l \in Established, LinkMoves(p, l)
      PROVE  TabInv'
  BY <1>6, LinkMovesTab
<1>7. ASSUME NEW p \in Pages, NEW a \in Accounts \cup {None}, NEW c \in Chains,
             WalletInfo(p, a, c)
      PROVE  TabInv'
  BY <1>7, WalletInfoTab
<1>8. CASE UNCHANGED vars
  BY <1>8, StutterTab
<1>9. QED BY <1>1, <1>2, <1>3, <1>4, <1>5, <1>6, <1>7, <1>8 DEF Next

\* What a step does to a call that is settled: it is no longer among the calls
\* of its page, and no orphan.
LEMMA SettledRests ==
  ASSUME TabInv, NEW r \in Calls, Settled(r), [Next]_vars
  PROVE  UNCHANGED call[r]
<1>1. ProviderInv /\ TypeOK /\ TabInv /\ OrphansInv
  BY DEF TabInv, ProviderInv
<1>2. call[r].pc \in {"answered", "refused", "late"}
  BY DEF Settled
<1>3. \A p \in Pages : r \notin Of(p)
  BY <1>2 DEF Of, Open
<1>4. ASSUME NEW q \in Calls, q # r, NEW d, call' = Put(q, d)
      PROVE  UNCHANGED call[r]
  BY <1>1, <1>4 DEF TypeOK, Put
<1>5. ASSUME NEW p \in Pages, NEW q \in Calls, NEW c, q # r,
             Perform(p, q, c) \/ Send(p, q, c)
      PROVE  UNCHANGED call[r]
  <2>1. \E d : call' = Put(q, d)
    BY <1>5 DEF Perform, Send
  <2>2. QED BY <1>4, <1>5, <2>1
<1>6. ASSUME NEW p \in Pages, Cancel(p)
      PROVE  UNCHANGED call[r]
  BY <1>3, <1>6 DEF Cancel, Cancelled
<1>7. ASSUME NEW p \in Pages, NEW q \in Calls, NEW m \in Methods, Request(p, q, m)
      PROVE  UNCHANGED call[r]
  <2>1. q # r
    BY <1>2, <1>7 DEF Request
  <2>2. \/ \E c : Perform(p, q, c)
        \/ \E d : call' = Put(q, d)
    BY <1>7 DEF Request
  <2>3. QED BY <1>4, <1>5, <2>1, <2>2
<1>8. ASSUME NEW p \in Pages, NEW q \in Calls, JoinSettles(p, q) \/ SendFails(p, q)
      PROVE  UNCHANGED call[r]
  <2>1. q # r
    BY <1>2, <1>8 DEF JoinSettles, SendFails
  <2>2. \/ \E c : Send(p, q, c)
        \/ \E d : call' = Put(q, d)
    BY <1>8 DEF JoinSettles, SendFails
  <2>3. QED BY <1>4, <1>5, <2>1, <2>2
<1>9. ASSUME NEW p \in Pages, NEW q \in Calls, Response(p, q)
      PROVE  UNCHANGED call[r]
  <2>1. CASE RespondUnknown(p, q)
    BY <2>1 DEF RespondUnknown
  <2>2. CASE RespondPending(p, q)
    <3>1. q # r /\ \E d : call' = Put(q, d)
      BY <1>2, <2>2 DEF RespondPending
    <3>2. QED BY <1>4, <3>1
  <2>3. CASE RespondOrphan(p, q)
    <3>1. q # r
      BY <1>1, <1>2, <2>3 DEF RespondOrphan, OrphansInv
    <3>2. \E d : call' = Put(q, d)
      BY <2>3 DEF RespondOrphan
    <3>3. QED BY <1>4, <3>1, <3>2
  <2>4. QED BY <1>9, <2>1, <2>2, <2>3 DEF Response
<1>10. ASSUME NEW p \in Pages, NEW q \in Calls, AuthorizeSettles(p, q) \/ AuthorizeFails(p, q)
       PROVE  UNCHANGED call[r]
  <2>1. q # r
    BY <1>2, <1>10 DEF AuthorizeSettles, AuthorizeFails
  <2>2. \E d : call' = Put(q, d)
    BY <1>10 DEF AuthorizeSettles, AuthorizeFails, Outcome
  <2>3. QED BY <1>4, <2>1, <2>2
<1>11. ASSUME NEW q \in Calls, Expire(q)
       PROVE  UNCHANGED call[r]
  <2>1. q # r /\ (UNCHANGED call \/ \E d : call' = Put(q, d))
    BY <1>11 DEF Expire
  <2>2. QED BY <1>4, <2>1
<1>12. ASSUME NEW p \in Pages, FinishRestricted(p)
       PROVE  UNCHANGED call[r]
  <2>1. CASE prov[p].queue = <<>>
    BY <1>12, <2>1 DEF FinishRestricted
  <2>2. CASE prov[p].queue # <<>>
    <3> DEFINE q == Head(prov[p].queue)
    <3>1. Perform(p, q, call[q])
      BY <1>12, <2>2 DEF FinishRestricted
    <3>2. q \in Calls /\ call[q].pc = "queued"
      <4>1. prov[p].queue \in Seq(Calls)
        BY <1>1 DEF TypeOK, TabType
      <4>2. 1 \in 1 .. Len(prov[p].queue) /\ q = prov[p].queue[1]
        BY <2>2, <4>1
      <4>3. QED BY <1>1, <4>1, <4>2 DEF ProviderInv, TurnInv, Of
    <3>3. q # r
      BY <1>2, <3>2
    <3>4. QED BY <1>5, <3>1, <3>2, <3>3
  <2>3. QED BY <2>1, <2>2
<1>13. ASSUME NEW p \in Pages,
              \/ ConnectionLost(p) \/ SessionTerminated(p)
              \/ \E t \in {"uri", "new", "disconnect"} : BeginTransition(p, t)
       PROVE  UNCHANGED call[r]
  BY <1>6, <1>13 DEF ConnectionLost, CancelAllRequests, SessionTerminated, BeginTransition,
                     CancelAndForget
<1>14. ASSUME NEW p \in Pages, Unload(p)
       PROVE  UNCHANGED call[r]
  BY <1>3, <1>14 DEF Unload
<1>15. ASSUME NEW p \in Pages,
              \/ Retire(p) \/ OfferURI(p) \/ TransitionFails(p) \/ Pair(p) \/ Restore(p)
              \/ Checkpoint(p) \/ Load(p)
              \/ \E l \in Established : LinkMoves(p, l)
              \/ \E a \in Accounts \cup {None}, c \in Chains : WalletInfo(p, a, c)
       PROVE  UNCHANGED call[r]
  BY <1>15 DEF Retire, OfferURI, TransitionFails, Pair, Restore, Checkpoint, Load, LinkMoves,
               WalletInfo
<1>16. CASE UNCHANGED vars
  BY <1>16 DEF vars
<1>17. QED
  BY <1>7, <1>8, <1>9, <1>10, <1>11, <1>12, <1>13, <1>14, <1>15, <1>16 DEF Next

-----------------------------------------------------------------------------
(* Theorems, for a page that has the storage to itself *)

\* The inductive invariant of calls, pairing and records.
THEOREM TabInvariant ==
  ASSUME OneTab
  PROVE  Spec => []TabInv
<1>1. TabInv /\ [Next]_vars => TabInv'
  BY NextTab
<1>2. QED BY <1>1, InitTab, PTL DEF Spec

\* cancelAllRequests() and requestGeneration: a call that waited while its
\* pairing was replaced is not sent in the next one.
THEOREM CallsStayInTheirPairing ==
  ASSUME OneTab
  PROVE  Spec => []NoCrossing
<1>1. TabInv => NoCrossing
  BY DEF TabInv
<1>2. QED BY <1>1, TabInvariant, PTL

\* persistInflight() and readInflight(): a call that the wallet may still
\* answer has its record, and every page that loads knows of it.
THEOREM AnswersSurviveReloads ==
  ASSUME OneTab
  PROVE  Spec => []AnswersAreKept
<1>1. TabInv => AnswersAreKept
  BY DEF TabInv
<1>2. QED BY <1>1, TabInvariant, PTL

\* settleInflight(): what was answered, refused or reported late stays so.
THEOREM NothingIsSettledTwice ==
  ASSUME OneTab
  PROVE  Spec => NoSecondAnswer
<1>1. TabInv /\ [Next]_vars => [\A r \in Calls : Settled(r) => UNCHANGED call[r]]_vars
  BY SettledRests
<1>2. QED BY <1>1, TabInvariant, PTL DEF Spec, NoSecondAnswer

=============================================================================
