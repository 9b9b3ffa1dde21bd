------------------------- MODULE SessionStreamProofs -------------------------
(*****************************************************************************)
(* Theorems about SessionStream for all values of its constants: the         *)
(* inductive invariant and the safety properties that follow from it, the    *)
(* fate of retired sessions, the step simulation of CounterStream in both    *)
(* directions, and the turn of the numbers in the first page of a pairing.   *)
(*****************************************************************************)
EXTENDS SessionStream, TLAPS

-----------------------------------------------------------------------------
(* The work of a live session keeps StreamInv.  A step is quiet if the job   *)
(* merely ends, queues a save or begins a teardown; those are proved at      *)
(* once. The others are loud: what they cannot disturb is proved once, what  *)
(* is left is proved per step.                                               *)

\* Of all jobs, at most job j of page t changes.
Alone(t, j) ==
  /\ job' \in [Tabs -> [Jobs -> Job]]
  /\ \A u \in Tabs \ {t} : job'[u] = job[u]
  /\ \A g \in Jobs \ {j} : job'[t][g] = job[t][g]

\* It only moves on to p.
Moved(t, j, p) ==
  /\ Alone(t, j)
  /\ job'[t][j].pc = p
  /\ job'[t][j].kind = job[t][j].kind
  /\ job'[t][j].key = job[t][j].key
  /\ job'[t][j].seq = job[t][j].seq
  /\ job'[t][j].snap = job[t][j].snap

\* It becomes a fresh job of the live session.
Begun(t, j, kind, p, n) ==
  /\ Alone(t, j)
  /\ job'[t][j].pc = p
  /\ job'[t][j].kind = kind
  /\ job'[t][j].key = key[t]
  /\ job'[t][j].seq = n

\* Its slot is free again.
Ended(t, j) == Alone(t, j) /\ job'[t][j] = Idle

\* It becomes a teardown if its session is live, and ends otherwise.
GaveUp(t, j) ==
  \/ Current(t, j) /\ Begun(t, j, job[t][j].kind, "closing", 0)
  \/ ~Current(t, j) /\ Ended(t, j)

\* An idle slot is a job.
LEMMA IdleIsJob == Idle \in Job
  BY StreamAssumption DEF Idle, Job, JobStates, Counters

\* Writing one job leaves the other jobs alone.
LEMMA SetJobAlone ==
  ASSUME TypeOK, NEW t \in Tabs, NEW j \in Jobs, NEW r \in Job,
         SetJob(t, j, r)
  PROVE  Alone(t, j) /\ job'[t][j] = r
  BY DEF TypeOK, SetJob, Alone

\* EndJob frees the slot.
LEMMA EndJobEnds ==
  ASSUME TypeOK, NEW t \in Tabs, NEW j \in Jobs, EndJob(t, j)
  PROVE  Ended(t, j)
  BY IdleIsJob, SetJobAlone DEF EndJob, Ended

\* MoveJob changes the pc of one job and nothing else of it.
LEMMA MoveJobMoves ==
  ASSUME TypeOK, NEW t \in Tabs, NEW j \in Jobs, NEW p \in JobStates,
         MoveJob(t, j, p)
  PROVE  Moved(t, j, p)
<1> DEFINE r == [job[t][j] EXCEPT !.pc = p]
<1>1. job[t][j] \in Job
  BY DEF TypeOK
<1>2. /\ r \in Job
      /\ r.pc = p
      /\ r.kind = job[t][j].kind
      /\ r.key = job[t][j].key
      /\ r.seq = job[t][j].seq
      /\ r.snap = job[t][j].snap
  BY <1>1 DEF Job
<1>3. SetJob(t, j, r)
  BY DEF MoveJob
<1> HIDE DEF r
<1>4. Alone(t, j) /\ job'[t][j] = r
  BY <1>2, <1>3, SetJobAlone
<1>5. QED BY <1>2, <1>4 DEF Moved

\* A new job starts under the key of the live session.
LEMMA NewJobBegins ==
  ASSUME TypeOK, NEW t \in Tabs, NEW j \in Jobs, key[t] # None,
         NEW kind \in {"send", "recv", "save"}, NEW p \in JobStates,
         NEW n \in Counters, SetJob(t, j, NewJob(t, kind, p, n))
  PROVE  Begun(t, j, kind, p, n)
<1>1. NewJob(t, kind, p, n) \in Job
  BY DEF TypeOK, NewJob, Job
<1>2. Alone(t, j) /\ job'[t][j] = NewJob(t, kind, p, n)
  BY <1>1, SetJobAlone
<1>3. QED BY <1>2 DEF Begun, NewJob

\* GiveUp starts the teardown of a live session and ends any other job.
LEMMA GiveUpGaveUp ==
  ASSUME TypeOK, NEW t \in Tabs, NEW j \in Jobs, GiveUp(t, j)
  PROVE  GaveUp(t, j)
<1>1. CASE Current(t, j)
  <2> DEFINE r == NewJob(t, job[t][j].kind, "closing", 0)
  <2>1. SetJob(t, j, r)
    BY <1>1 DEF GiveUp
  <2>2. r \in Job /\ r.pc = "closing" /\ r.kind = job[t][j].kind
        /\ r.key = key[t] /\ r.seq = 0
    BY <1>1, StreamAssumption DEF TypeOK, NewJob, Job, JobStates, Counters
  <2> HIDE DEF r
  <2>3. QED BY <1>1, <2>1, <2>2, SetJobAlone DEF GaveUp, Begun
<1>2. CASE ~Current(t, j)
  BY <1>2, IdleIsJob, SetJobAlone DEF GiveUp, GaveUp, Ended
<1>3. QED BY <1>1, <1>2

\* A step that makes no claim: no counter moves, nothing is emitted, acted
\* upon or saved, and the job ends, asks for a save, or begins a teardown.
Quiet(t, j) ==
  /\ UNCHANGED <<lock, lifecycle, key, send, recv, history>>
  /\ stored' \in {stored, None}
  /\ fails' \in [Tabs -> {0, 1}]
  /\ broken' \in [Tabs -> BOOLEAN]
  /\ \/ Ended(t, j)
     \/ /\ key[t] # None
        /\ Begun(t, j, "save", "queued", 0)
     \/ /\ key[t] # None
        /\ \E kind \in {"none", "send", "recv", "save"} :
             /\ Begun(t, j, kind, "closing", 0)
             /\ \A g \in Jobs \ {j} :
                  Current(t, g) /\ job[t][g].kind = kind => kind = "save"

\* A quiet step keeps the types.
LEMMA QuietType ==
  ASSUME TypeOK, NEW t \in Tabs, NEW j \in Jobs, Quiet(t, j)
  PROVE  TypeOK'
  BY DEF Quiet, TypeOK, Ended, Begun, Alone, lifecycle, history

\* A quiet step keeps PageInv: a page without a session gets no job.
LEMMA QuietPage ==
  ASSUME TypeOK, \A v \in Tabs : PageInv(v),
         NEW t \in Tabs, NEW j \in Jobs, Quiet(t, j)
  PROVE  \A v \in Tabs : PageInv(v)'
<1>1. ASSUME NEW v \in Tabs, key[v] = None,
             \A g \in Jobs : job[v][g] = Idle
      PROVE  \A g \in Jobs : job'[v][g] = Idle
  BY <1>1 DEF Quiet, Ended, Begun, Alone
<1>2. UNCHANGED <<lock, open, pend, restore, pair, key>>
  BY DEF Quiet, lifecycle
<1>3. QED BY <1>1, <1>2 DEF PageInv

\* A quiet step keeps KeyInv: a job only ever takes the key of its page.
LEMMA QuietKey ==
  ASSUME TypeOK, KeyInv, NEW t \in Tabs, NEW j \in Jobs, Quiet(t, j)
  PROVE  KeyInv'
<1> USE DEF Quiet, KeyInv, lifecycle, history
<1>1. SingleRunner'
  BY DEF SingleRunner
<1>2. ASSUME NEW k \in Keys, life'[k] = "new" PROVE Unused(k)'
  <2>1. Unused(k)
    BY <1>2
  <2>2. ASSUME NEW v \in Tabs, NEW g \in Jobs PROVE job'[v][g].key # k
    <3>1. job'[t][j].key \in {key[t], None}
      BY DEF Ended, Begun, Idle
    <3>2. CASE v = t /\ g = j
      BY <2>1, <3>1, <3>2, StreamAssumption DEF Unused
    <3>3. CASE v # t \/ g # j
      BY <2>1, <3>3 DEF Unused, Ended, Begun, Alone
    <3>4. QED BY <3>2, <3>3
  <2>3. /\ UNCHANGED <<pend, key, wire, acted>>
        /\ stored' \in {stored, None}
    OBVIOUS
  <2> HIDE DEF Quiet
  <2>4. QED BY <2>1, <2>2, <2>3 DEF Unused
<1>3. QED BY <1>1, <1>2

\* A quiet step keeps CounterInv: at most it removes the record.
LEMMA QuietCounter ==
  ASSUME CounterInv, NEW t \in Tabs, NEW j \in Jobs, Quiet(t, j)
  PROVE  CounterInv'
  BY DEF Quiet, CounterInv, CheckpointAhead, Below, lifecycle, history

\* A quiet step keeps JobInv: queued saves and teardowns carry no claim.
LEMMA QuietJob ==
  ASSUME TypeOK, \A v \in Tabs, i \in Jobs : JobInv(v, i),
         NEW t \in Tabs, NEW j \in Jobs, Quiet(t, j),
         NEW u \in Tabs, NEW g \in Jobs
  PROVE  JobInv(u, g)'
<1> USE DEF Quiet, lifecycle, history
<1>1. CASE u # t \/ g # j
  <2>1. job'[u][g] = job[u][g]
    BY <1>1 DEF Alone, Ended, Begun
  <2>2. QED BY <2>1 DEF JobInv, SnapOwn, Current, StoredOk
<1>2. CASE u = t /\ g = j
  BY <1>2, StreamAssumption
     DEF Ended, Begun, JobInv, SnapOwn, Current, SendOk, RecvOk, SnapOk,
         StoredOk, Idle
<1>3. QED BY <1>1, <1>2

\* A quiet step keeps PairInv.
LEMMA QuietPair ==
  ASSUME TypeOK, \A v \in Tabs, i, h \in Jobs : PairInv(v, i, h),
         NEW t \in Tabs, NEW j \in Jobs, Quiet(t, j),
         NEW u \in Tabs, NEW g \in Jobs, NEW h \in Jobs
  PROVE  PairInv(u, g, h)'
<1> USE DEF Quiet, lifecycle, history
<1>1. CASE u # t \/ (g # j /\ h # j)
  <2>1. job'[u][g] = job[u][g] /\ job'[u][h] = job[u][h]
    BY <1>1 DEF Alone, Ended, Begun
  <2>2. QED BY <2>1 DEF PairInv, Current
<1>2. CASE u = t /\ (g = j \/ h = j)
  BY <1>2, StreamAssumption
     DEF Ended, Begun, PairInv, Current, Compatible, Idle, Alone
<1>3. QED BY <1>1, <1>2

\* A step of a live session that may move its own counters, use numbers of
\* its own key and, under the lock, save its own record.
Loud(t, j) ==
  /\ key[t] # None
  /\ Alone(t, j)
  /\ job'[t][j].key \in {key[t], None}
  /\ UNCHANGED <<lock, lifecycle, key, life>>
  /\ \A k \in Keys \ {key[t]} : wire'[k] = wire[k] /\ acted'[k] = acted[k]
  /\ \A u \in Tabs \ {t} : send'[u] = send[u] /\ recv'[u] = recv[u]
  /\ \/ stored' = stored
     \/ stored' # None /\ stored'.key = key[t] /\ lock = t

\* A loud step keeps PageInv, since its page has a session.
LEMMA LoudPage ==
  ASSUME \A v \in Tabs : PageInv(v), NEW t \in Tabs, NEW j \in Jobs, Loud(t, j)
  PROVE  \A v \in Tabs : PageInv(v)'
<1>1. ASSUME NEW v \in Tabs, key[v] = None,
             \A g \in Jobs : job[v][g] = Idle
      PROVE  \A g \in Jobs : job'[v][g] = Idle
  BY <1>1 DEF Loud, Alone
<1>2. UNCHANGED <<lock, open, pend, restore, pair, key>>
  BY DEF Loud, lifecycle
<1>3. QED BY <1>1, <1>2 DEF PageInv

\* A loud step keeps KeyInv: the record it may write is of its own key.
LEMMA LoudKey ==
  ASSUME TypeOK, KeyInv, NEW t \in Tabs, NEW j \in Jobs, Loud(t, j)
  PROVE  KeyInv'
<1> USE DEF Loud, KeyInv, lifecycle
<1>1. SingleRunner'
  BY DEF SingleRunner
<1>2. ASSUME NEW k \in Keys, life'[k] = "new" PROVE Unused(k)'
  <2>1. Unused(k) /\ key[t] # k
    BY <1>2 DEF Unused
  <2>2. ASSUME NEW v \in Tabs, NEW g \in Jobs PROVE job'[v][g].key # k
    <3>1. CASE v = t /\ g = j
      BY <2>1, <3>1, StreamAssumption
    <3>2. CASE v # t \/ g # j
      BY <2>1, <3>2 DEF Unused, Alone
    <3>3. QED BY <3>1, <3>2
  <2>3. QED BY <2>1, <2>2 DEF Unused
<1>3. QED BY <1>1, <1>2

\* A loud step does not reach the jobs of other pages: SingleRunner says
\* that they run other keys.
LEMMA LoudOthers ==
  ASSUME TypeOK, KeyInv, \A v \in Tabs, i \in Jobs : JobInv(v, i),
         \A v \in Tabs, i, h \in Jobs : PairInv(v, i, h),
         NEW t \in Tabs, NEW j \in Jobs, Loud(t, j),
         NEW u \in Tabs \ {t}, NEW g \in Jobs, NEW h \in Jobs
  PROVE  JobInv(u, g)' /\ PairInv(u, g, h)'
<1>1. /\ job'[u] = job[u] /\ key' = key
      /\ send'[u] = send[u] /\ recv'[u] = recv[u]
  BY DEF Loud, Alone
<1>2. CASE key[u] = None
  BY <1>1, <1>2 DEF JobInv, SnapOwn, PairInv, Current
<1>3. CASE key[u] # None
  <2>1. key[u] \in Keys /\ key[u] # key[t]
    BY <1>3 DEF TypeOK, KeyInv, SingleRunner, Loud
  <2>2. wire'[key[u]] = wire[key[u]] /\ acted'[key[u]] = acted[key[u]]
    BY <2>1 DEF Loud
  <2>3. Current(u, g) => StoredOk(job[u][g], stored)'
    BY <1>1, <2>1 DEF Loud, StoredOk, Current, JobInv
  <2>4. JobInv(u, g)'
    BY <1>1, <2>1, <2>2, <2>3 DEF JobInv, Current
  <2>5. PairInv(u, g, h)'
    BY <1>1 DEF PairInv, Current
  <2>6. QED BY <2>4, <2>5
<1>4. QED BY <1>2, <1>3

\* What remains to be shown of a loud step.
LEMMA LoudInv ==
  ASSUME StreamInv, NEW t \in Tabs, NEW j \in Jobs, Loud(t, j),
         TypeOK', CounterInv', \A g \in Jobs : JobInv(t, g)',
         \A g \in Jobs \ {j} : PairInv(t, g, j)' /\ PairInv(t, j, g)',
         NonceNeverReused', ActedAtMostOnce'
  PROVE  StreamInv'
<1> USE DEF StreamInv
<1>1. \A v \in Tabs : PageInv(v)'
  BY LoudPage
<1>2. KeyInv'
  BY LoudKey
<1>3. ASSUME NEW u \in Tabs, NEW g \in Jobs PROVE JobInv(u, g)'
  BY <1>3, LoudOthers
<1>4. ASSUME NEW u \in Tabs, NEW g \in Jobs, NEW h \in Jobs
      PROVE  PairInv(u, g, h)'
  <2>1. CASE u # t
    BY <2>1, LoudOthers
  <2>2. CASE u = t /\ g # j /\ h # j
    BY <2>2 DEF PairInv, Current, Compatible, Loud, Alone
  <2>3. CASE u = t /\ g # h /\ (g = j \/ h = j)
    BY <2>3
  <2>4. CASE g = h
    BY <2>4 DEF PairInv
  <2>5. QED BY <2>1, <2>2, <2>3, <2>4
<1>5. QED BY <1>1, <1>2, <1>3, <1>4

\* A quiet step keeps the invariant.
LEMMA QuietInv ==
  ASSUME StreamInv, NEW t \in Tabs, NEW j \in Jobs, Quiet(t, j)
  PROVE  StreamInv'
<1> USE DEF StreamInv
<1>1. TypeOK' /\ (\A v \in Tabs : PageInv(v)') /\ KeyInv' /\ CounterInv'
  BY QuietType, QuietPage, QuietKey, QuietCounter
<1>2. \A u \in Tabs, g \in Jobs : JobInv(u, g)'
  BY QuietJob
<1>3. \A u \in Tabs, g, h \in Jobs : PairInv(u, g, h)'
  BY QuietPair
<1>4. NonceNeverReused' /\ ActedAtMostOnce'
  BY DEF Quiet, history, NonceNeverReused, ActedAtMostOnce
<1>5. QED BY <1>1, <1>2, <1>3, <1>4

\* A larger number is still above what was used.
LEMMA BelowMonotone ==
  ASSUME NEW s \in Seq(Counters), NEW m \in Counters, NEW n \in Counters,
         m <= n, Below(s, m)
  PROVE  Below(s, n)
<1>1. ASSUME NEW i \in DOMAIN s PROVE s[i] < n
  <2>1. s[i] \in Counters /\ s[i] < m
    BY <1>1 DEF Below
  <2>2. QED BY <2>1, StreamAssumption DEF Counters
<1>2. QED BY <1>1 DEF Below

\* Growing counters do not invalidate what a job relies on, except for a
\* receive that awaits open().
LEMMA OkMonotone ==
  ASSUME NEW x \in Job, NEW s \in Counters, NEW r \in Counters,
         NEW s2 \in Counters, NEW r2 \in Counters, s <= s2, r <= r2,
         NEW w, NEW a, SnapOwn(x)
  PROVE  /\ SnapOk(x, s, r, w, a) => SnapOk(x, s2, r2, w, a)
         /\ SendOk(x, s, w) => SendOk(x, s2, w)
         /\ x.pc # "unseal" /\ RecvOk(x, r, a) => RecvOk(x, r2, a)
<1>1. x.seq \in Counters
  BY DEF Job
<1>2. SendOk(x, s, w) => SendOk(x, s2, w)
  BY <1>1, StreamAssumption DEF SendOk, Counters
<1>3. x.pc # "unseal" /\ RecvOk(x, r, a) => RecvOk(x, r2, a)
  BY <1>1, StreamAssumption DEF RecvOk, Counters
<1>4. ASSUME x.pc = "write", SnapOk(x, s, r, w, a) PROVE SnapOk(x, s2, r2, w,
         a)
  <2>1. x.snap.send \in Counters /\ x.snap.recv \in Counters
    BY <1>4 DEF SnapOwn, Job, Record
  <2>2. x.snap.send <= s2 /\ x.snap.recv <= r2
    BY <1>4, <2>1, StreamAssumption DEF SnapOk, Counters
  <2>3. QED BY <1>4, <2>2 DEF SnapOk
<1>5. QED BY <1>2, <1>3, <1>4 DEF SnapOk

\* GiveUp is quiet when little else changes.
LEMMA GiveUpIsQuiet ==
  ASSUME StreamInv, NEW t \in Tabs, NEW j \in Jobs, GiveUp(t, j),
         UNCHANGED <<lock, lifecycle, key, send, recv, history>>,
         stored' \in {stored, None}, fails' = fails,
         broken' \in [Tabs -> BOOLEAN]
  PROVE  Quiet(t, j)
<1>1. GaveUp(t, j)
  BY GiveUpGaveUp DEF StreamInv
<1>2. fails' \in [Tabs -> {0, 1}]
  BY DEF StreamInv, TypeOK
<1>3. CASE Current(t, j)
  <2>1. key[t] # None /\ Begun(t, j, job[t][j].kind, "closing", 0)
    BY <1>1, <1>3 DEF GaveUp, Current
  <2>2. job[t][j].kind \in {"none", "send", "recv", "save"}
    BY DEF StreamInv, TypeOK, Job
  <2>3. ASSUME NEW g \in Jobs \ {j}, Current(t, g),
               job[t][g].kind = job[t][j].kind
        PROVE  job[t][j].kind = "save"
    BY <1>3, <2>3 DEF StreamInv, PairInv, Compatible
  <2>4. QED BY <1>2, <2>1, <2>2, <2>3 DEF Quiet
<1>4. CASE ~Current(t, j)
  BY <1>1, <1>2, <1>4 DEF GaveUp, Quiet
<1>5. QED BY <1>3, <1>4

\* So is EndJob.
LEMMA EndJobIsQuiet ==
  ASSUME StreamInv, NEW t \in Tabs, NEW j \in Jobs, EndJob(t, j),
         UNCHANGED <<lock, stored, lifecycle, key, send, recv, broken,
         history>>,
         fails' \in [Tabs -> {0, 1}]
  PROVE  Quiet(t, j)
  BY EndJobEnds DEF StreamInv, TypeOK, Quiet

\* A send with no number left keeps the invariant.
LEMMA ExhaustedInv ==
  ASSUME StreamInv, NEW t \in Tabs, NEW j \in Jobs, Exhausted(t, j)
  PROVE  StreamInv'
<1>1. key[t] # None /\ Begun(t, j, "send", "closing", 0)
  BY NewJobBegins, StreamAssumption
     DEF Exhausted, CanStart, StreamInv, JobStates, Counters
<1>2. \A g \in Jobs \ {j} : ~(Current(t, g) /\ job[t][g].kind = "send")
  BY DEF Exhausted, CanStart, QueueFree
<1>3. Quiet(t, j)
  BY <1>1, <1>2 DEF Exhausted, Quiet, StreamInv, TypeOK, session
<1>4. QED BY <1>3, QuietInv

\* authorizeAccounts() keeps the invariant.
LEMMA AuthorizeInv ==
  ASSUME StreamInv, NEW t \in Tabs, NEW j \in Jobs, Authorize(t, j)
  PROVE  StreamInv'
<1>1. key[t] # None /\ Begun(t, j, "save", "queued", 0)
  BY NewJobBegins, StreamAssumption
     DEF Authorize, StreamInv, JobStates, Counters
<1>2. Quiet(t, j)
  BY <1>1 DEF Authorize, Quiet, StreamInv, TypeOK, session
<1>3. QED BY <1>2, QuietInv

\* The steps after which a job no longer carries a number.
Stops(t, j) ==
  \/ SealFails(t, j)
  \/ UnsealFails(t, j)
  \/ UnsealStale(t, j)
  \/ SaveStale(t, j)
  \/ SaveExportFails(t, j)
  \/ SaveRefused(t, j)
  \/ SaveWriteFails(t, j)
  \/ SavedStale(t, j)
  \/ SaveReturns(t, j)
  \/ EmitFails(t, j)
  \/ Acked(t, j)
  \/ AckLost(t, j)
  \/ CloseStale(t, j)

\* The steps that end a job or begin a teardown keep the invariant.
LEMMA StopsInv ==
  ASSUME StreamInv, NEW t \in Tabs, NEW j \in Jobs, Stops(t, j)
  PROVE  StreamInv'
<1>1. broken \in [Tabs -> BOOLEAN] /\ fails \in [Tabs -> {0, 1}]
  BY DEF StreamInv, TypeOK
<1>2. CASE \/ SealFails(t, j) \/ SaveExportFails(t, j) \/ SaveRefused(t, j)
           \/ EmitFails(t, j) \/ AckLost(t, j)
  <2>1. GiveUp(t, j) /\ UNCHANGED <<lock, stored, lifecycle, session, broken,
                                    history>>
    BY <1>2 DEF SealFails, SaveExportFails, SaveRefused, EmitFails, AckLost
  <2>2. Quiet(t, j)
    BY <1>1, <2>1, GiveUpIsQuiet DEF session
  <2>3. QED BY <2>2, QuietInv
<1>3. CASE SaveWriteFails(t, j)
  <2>1. GiveUp(t, j) /\ UNCHANGED <<lock, lifecycle, session, history>>
    BY <1>3 DEF SaveWriteFails
  <2>2. stored' \in {stored, None} /\ broken' \in [Tabs -> BOOLEAN]
    BY <1>1, <1>3 DEF SaveWriteFails, RemoveStored
  <2>3. Quiet(t, j)
    BY <2>1, <2>2, GiveUpIsQuiet DEF session
  <2>4. QED BY <2>3, QuietInv
<1>4. CASE UnsealFails(t, j)
  <2>1. UNCHANGED <<lock, stored, lifecycle, key, send, recv, broken, history>>
    BY <1>4 DEF UnsealFails
  <2>2. CASE EndJob(t, j) /\ fails' = [fails EXCEPT ![t] = 1]
    BY <1>1, <2>1, <2>2, EndJobIsQuiet, QuietInv
  <2>3. CASE GiveUp(t, j) /\ fails' = fails
    BY <1>1, <2>1, <2>3, GiveUpIsQuiet, QuietInv
  <2>4. QED BY <1>4, <2>2, <2>3 DEF UnsealFails
<1>5. CASE \/ UnsealStale(t, j) \/ SaveStale(t, j) \/ SavedStale(t, j)
           \/ SaveReturns(t, j) \/ Acked(t, j) \/ CloseStale(t, j)
  <2>1. EndJob(t, j) /\ UNCHANGED <<lock, stored, lifecycle, session, broken,
                                    history>>
    BY <1>5 DEF UnsealStale, SaveStale, SavedStale, SaveReturns, Acked,
                CloseStale
  <2>2. Quiet(t, j)
    BY <1>1, <2>1, EndJobIsQuiet DEF session
  <2>3. QED BY <2>2, QuietInv
<1>6. QED BY <1>2, <1>3, <1>4, <1>5 DEF Stops

\* Reserving a number keeps the invariant: the counter grows past it.
LEMMA ReserveInv ==
  ASSUME StreamInv, NEW t \in Tabs, NEW j \in Jobs, Reserve(t, j)
  PROVE  StreamInv'
<1> USE DEF StreamInv
<1>1. /\ key[t] \in Keys /\ key[t] # None
      /\ send[t] \in Nat /\ send[t] \in Counters /\ send[t] < MaxSeq
      /\ job[t][j] = Idle
      /\ send' = [send EXCEPT ![t] = send[t] + 1]
      /\ UNCHANGED <<lock, stored, lifecycle, key, recv, fails, broken,
         history>>
  BY StreamAssumption DEF Reserve, CanStart, TypeOK, Counters
<1>2. Begun(t, j, "send", "seal", send[t])
  BY <1>1, NewJobBegins DEF Reserve, JobStates
<1>3. Alone(t, j) /\ job'[t][j].pc = "seal" /\ job'[t][j].kind = "send"
      /\ job'[t][j].key = key[t] /\ job'[t][j].seq = send[t]
  BY <1>2 DEF Begun
<1>4. \A g \in Jobs \ {j} : Current(t, g) => job[t][g].kind # "send"
  BY DEF Reserve, CanStart, QueueFree
<1>5. send'[t] = send[t] + 1 /\ send'[t] \in Counters
  BY <1>1, StreamAssumption DEF TypeOK, Counters
<1>6. Loud(t, j)
  BY <1>1, <1>3, <1>5 DEF Loud, history, TypeOK
<1>7. TypeOK'
  BY <1>1, <1>3, <1>5 DEF TypeOK, Alone, lifecycle, history
<1>8. CounterInv'
  <2>1. ASSUME NEW u \in Tabs, key[u] # None
        PROVE  Below(wire[key[u]], send'[u]) /\ Below(acted[key[u]], recv[u])
    <3>1. send[u] \in Counters /\ send'[u] \in Counters /\ send[u] <= send'[u]
          /\ wire[key[u]] \in Seq(Counters)
      BY <1>1, <1>5, <2>1, StreamAssumption DEF TypeOK, Counters
    <3>2. QED BY <2>1, <3>1, BelowMonotone DEF CounterInv
  <2>2. UNCHANGED <<stored, restore, pend, key, recv, wire, acted>>
    BY <1>1 DEF lifecycle, history
  <2>3. QED BY <2>1, <2>2 DEF CounterInv, CheckpointAhead
<1>9. ASSUME NEW g \in Jobs PROVE JobInv(t, g)'
  <2>1. CASE g = j
    BY <1>1, <1>3, <1>5, <2>1
       DEF TypeOK, CounterInv, JobInv, SnapOwn, Current, SendOk, RecvOk,
         SnapOk, StoredOk,
           history, Counters
  <2>2. CASE g # j
    <3>1. job[t][g] \in Job /\ send[t] <= send'[t] /\ recv[t] \in Counters
          /\ job'[t][g] = job[t][g] /\ SnapOwn(job[t][g])
      BY <1>1, <1>3, <1>5, <2>2, StreamAssumption
         DEF TypeOK, JobInv, Alone, Counters
    <3> recv[t] <= recv[t]
      BY <3>1, StreamAssumption DEF Counters
    <3>2. SnapOk(job[t][g], send[t], recv[t], wire[key[t]], acted[key[t]]) =>
            SnapOk(job[t][g], send'[t], recv[t], wire[key[t]], acted[key[t]])
      BY <1>1, <1>5, <3>1, OkMonotone
    <3>3. SendOk(job[t][g], send[t], wire[key[t]]) =>
            SendOk(job[t][g], send'[t], wire[key[t]])
      BY <1>1, <1>5, <3>1, OkMonotone
    <3>4. QED BY <1>1, <3>1, <3>2, <3>3 DEF JobInv, Current, history
  <2>3. QED BY <2>1, <2>2
<1>10. ASSUME NEW g \in Jobs \ {j} PROVE PairInv(t, g, j)' /\ PairInv(t, j, g)'
  BY <1>1, <1>3, <1>4 DEF Alone, PairInv, Current, Compatible
<1>11. NonceNeverReused' /\ ActedAtMostOnce'
  BY <1>1 DEF NonceNeverReused, ActedAtMostOnce, history
<1>12. QED BY <1>6, <1>7, <1>8, <1>9, <1>10, <1>11, LoudInv

\* What remains to be shown of a step that only changes one job.
LEMMA JobOnlyInv ==
  ASSUME StreamInv, NEW t \in Tabs, NEW j \in Jobs, key[t] # None,
         Alone(t, j), job'[t][j].key = key[t],
         UNCHANGED <<lock, stored, lifecycle, session, broken, history>>,
         JobInv(t, j)',
         \A g \in Jobs \ {j} : PairInv(t, g, j)' /\ PairInv(t, j, g)'
  PROVE  StreamInv'
<1> USE DEF StreamInv
<1>1. Loud(t, j)
  BY DEF Loud, session, history
<1>2. TypeOK'
  BY DEF TypeOK, Alone, lifecycle, session, history
<1>3. CounterInv' /\ NonceNeverReused' /\ ActedAtMostOnce'
  BY DEF CounterInv, CheckpointAhead, Below, NonceNeverReused,
         ActedAtMostOnce, lifecycle, session, history
<1>4. ASSUME NEW g \in Jobs PROVE JobInv(t, g)'
  <2>1. CASE g # j
    BY <2>1 DEF Alone, JobInv, Current, StoredOk, session, history
  <2>2. QED BY <2>1
<1>5. QED BY <1>1, <1>2, <1>3, <1>4, LoudInv

\* A delivered frame keeps the invariant.
LEMMA DeliverInv ==
  ASSUME StreamInv, NEW t \in Tabs, NEW j \in Jobs, NEW n \in Counters,
         Deliver(t, j, n)
  PROVE  StreamInv'
<1> DEFINE m == IF Opens(t, n) THEN n ELSE 0
<1>1. key[t] # None /\ job[t][j] = Idle /\ m \in Counters
      /\ UNCHANGED <<lock, stored, lifecycle, session, broken, history>>
      /\ (m # 0 => m = recv[t] /\ recv[t] < MaxSeq)
  BY StreamAssumption DEF Deliver, CanStart, Counters, Opens
<1>2. SetJob(t, j, NewJob(t, "recv", "unseal", m))
  BY DEF Deliver
<1> HIDE DEF m
<1>3. Begun(t, j, "recv", "unseal", m)
  BY <1>1, <1>2, NewJobBegins DEF StreamInv, JobStates
<1>4. \A g \in Jobs \ {j} : Current(t, g) => job[t][g].kind # "recv"
  BY DEF Deliver, CanStart, QueueFree
<1>5. JobInv(t, j)'
  BY <1>1, <1>3
     DEF Begun, JobInv, SnapOwn, Current, SendOk, RecvOk, SnapOk, StoredOk,
         session
<1>6. ASSUME NEW g \in Jobs \ {j} PROVE PairInv(t, g, j)' /\ PairInv(t, j, g)'
  BY <1>1, <1>3, <1>4
     DEF Begun, Alone, PairInv, Current, Compatible, session
<1>7. QED BY <1>1, <1>3, <1>5, <1>6, JobOnlyInv DEF Begun

\* A sealed message joins the persistence queue.
LEMMA SealedInv ==
  ASSUME StreamInv, NEW t \in Tabs, NEW j \in Jobs, Sealed(t, j)
  PROVE  StreamInv'
<1>1. job[t][j].pc = "seal"
      /\ UNCHANGED <<lock, stored, lifecycle, session, broken, history>>
  BY DEF Sealed
<1>2. CASE ~Current(t, j)
  <2>1. EndJob(t, j) /\ fails' \in [Tabs -> {0, 1}]
    BY <1>1, <1>2 DEF Sealed, StreamInv, TypeOK, session
  <2>2. QED BY <1>1, <2>1, EndJobIsQuiet, QuietInv DEF session
<1>3. CASE Current(t, j)
  <2>1. Moved(t, j, "queued")
    BY <1>3, MoveJobMoves DEF Sealed, StreamInv, JobStates
  <2>2. key[t] # None /\ job'[t][j].key = key[t]
    BY <1>3, <2>1 DEF Current, Moved
  <2>3. JobInv(t, j)
    BY DEF StreamInv
  <2>4. JobInv(t, j)'
    BY <1>1, <1>3, <2>1, <2>3
       DEF Moved, JobInv, SnapOwn, Current, SendOk, RecvOk, SnapOk, StoredOk,
           session, history
  <2>5. ASSUME NEW g \in Jobs \ {j}
        PROVE  PairInv(t, g, j)' /\ PairInv(t, j, g)'
    <3>1. PairInv(t, g, j) /\ PairInv(t, j, g)
      BY DEF StreamInv
    <3>2. QED
      BY <1>1, <2>1, <3>1
         DEF Moved, Alone, PairInv, Current, Compatible, session
  <2>6. QED BY <1>1, <2>1, <2>2, <2>4, <2>5, JobOnlyInv DEF Moved
<1>4. QED BY <1>2, <1>3

\* A save begins when no other save of the session is under way.
LEMMA SaveBeginInv ==
  ASSUME StreamInv, NEW t \in Tabs, NEW j \in Jobs, SaveBegin(t, j)
  PROVE  StreamInv'
<1>1. job[t][j].pc = "queued" /\ Current(t, j)
      /\ UNCHANGED <<lock, stored, lifecycle, session, broken, history>>
  BY DEF SaveBegin
<1>2. CASE ~(lock = t /\ ~broken[t])
  <2>1. GiveUp(t, j) /\ broken' \in [Tabs -> BOOLEAN]
    BY <1>1, <1>2 DEF SaveBegin, StreamInv, TypeOK
  <2>2. QED BY <1>1, <2>1, GiveUpIsQuiet, QuietInv DEF session
<1>3. CASE lock = t /\ ~broken[t]
  <2>1. Moved(t, j, "export")
    BY <1>3, MoveJobMoves DEF SaveBegin, StreamInv, JobStates
  <2>2. key[t] # None /\ job'[t][j].key = key[t]
    BY <1>1, <2>1 DEF Current, Moved
  <2>3. JobInv(t, j)
    BY DEF StreamInv
  <2>4. JobInv(t, j)'
    BY <1>1, <2>1, <2>3
       DEF Moved, JobInv, SnapOwn, Current, SendOk, RecvOk, SnapOk, StoredOk,
           session, history
  <2>5. ASSUME NEW g \in Jobs \ {j}
        PROVE  PairInv(t, g, j)' /\ PairInv(t, j, g)'
    <3>1. PairInv(t, g, j) /\ PairInv(t, j, g)
      BY DEF StreamInv
    <3>2. Current(t, g) => job[t][g].pc \notin {"export", "write"}
      BY DEF SaveBegin, PersistenceFree
    <3>3. QED
      BY <1>1, <2>1, <3>1, <3>2
         DEF Moved, Alone, PairInv, Current, Compatible, session
  <2>6. QED BY <1>1, <2>1, <2>2, <2>4, <2>5, JobOnlyInv DEF Moved
<1>4. QED BY <1>2, <1>3

\* A save reads counters that are ahead of all that was emitted and acted
\* upon, and of the number of every job that waits for its own save.
LEMMA SaveExportInv ==
  ASSUME StreamInv, NEW t \in Tabs, NEW j \in Jobs, SaveExport(t, j)
  PROVE  StreamInv'
<1> DEFINE snap == [key |-> key[t], send |-> send[t], recv |-> recv[t]]
           r == [job[t][j] EXCEPT !.pc = "write", !.snap = snap]
<1>1. /\ job[t][j] \in Job /\ job[t][j].pc = "export"
      /\ Current(t, j) /\ key[t] # None /\ key[t] \in Keys
      /\ job[t][j].key = key[t]
      /\ send[t] \in Counters /\ recv[t] \in Counters
      /\ UNCHANGED <<lock, stored, lifecycle, session, broken, history>>
  BY DEF SaveExport, StreamInv, TypeOK, Current
<1>2. /\ r \in Job /\ r.pc = "write" /\ r.kind = job[t][j].kind
      /\ r.key = key[t] /\ r.seq = job[t][j].seq
      /\ r.snap \in Record /\ r.snap.key = key[t]
      /\ r.snap.send = send[t] /\ r.snap.recv = recv[t]
  BY <1>1 DEF Job, JobStates, Record
<1>3. SetJob(t, j, r)
  BY DEF SaveExport
<1> HIDE DEF r, snap
<1>4. Alone(t, j) /\ job'[t][j] = r
  BY <1>2, <1>3, SetJobAlone DEF StreamInv
<1>5. Below(wire[key[t]], send[t]) /\ Below(acted[key[t]], recv[t])
  BY <1>1 DEF StreamInv, CounterInv
<1>6. \A g \in Jobs : JobInv(t, g)
  BY DEF StreamInv
<1>7. JobInv(t, j)'
  <2>1. r.snap # None
    BY <1>2, StreamAssumption DEF Record, Counters
  <2>2. SnapOk(r, send[t], recv[t], wire[key[t]], acted[key[t]])
    BY <1>1, <1>2, <1>5, <1>6, StreamAssumption
       DEF SnapOk, Covers, JobInv, SendOk, RecvOk, Counters
  <2>3. SendOk(r, send[t], wire[key[t]]) /\ RecvOk(r, recv[t], acted[key[t]])
    BY <1>1, <1>2, <1>6 DEF JobInv, SendOk, RecvOk
  <2>4. QED
    BY <1>1, <1>2, <1>4, <2>1, <2>2, <2>3
       DEF JobInv, SnapOwn, StoredOk, Current, session, history
<1>8. ASSUME NEW g \in Jobs \ {j} PROVE PairInv(t, g, j)' /\ PairInv(t, j, g)'
  <2>1. PairInv(t, g, j) /\ PairInv(t, j, g)
    BY DEF StreamInv
  <2>2. Current(t, g) /\ job[t][g].pc = "saved" => Covers(r.snap, job[t][g])
    BY <1>2, <1>6 DEF JobInv, SendOk, RecvOk, Covers
  <2>3. QED
    BY <1>1, <1>2, <1>4, <2>1, <2>2
       DEF Alone, PairInv, Current, Compatible, session
<1>9. QED BY <1>1, <1>2, <1>4, <1>7, <1>8, JobOnlyInv

\* A frame that opens advances the counter past its number.
LEMMA UnsealedInv ==
  ASSUME StreamInv, NEW t \in Tabs, NEW j \in Jobs, Unsealed(t, j)
  PROVE  StreamInv'
<1>1. /\ job[t][j].pc = "unseal" /\ job[t][j].seq # 0
      /\ Current(t, j) /\ key[t] # None /\ key[t] \in Keys
      /\ recv' = [recv EXCEPT ![t] = recv[t] + 1]
      /\ fails' = [fails EXCEPT ![t] = 0]
      /\ UNCHANGED <<lock, stored, lifecycle, key, send, broken, history>>
  BY DEF Unsealed, StreamInv, TypeOK, Current
<1>2. \A g \in Jobs : JobInv(t, g)
  BY DEF StreamInv
<1>3. job[t][j].kind = "recv" /\ job[t][j].seq = recv[t] /\ recv[t] < MaxSeq
  BY <1>1, <1>2 DEF JobInv, RecvOk
<1>4. /\ recv[t] \in Counters /\ recv'[t] \in Counters
      /\ recv'[t] = recv[t] + 1 /\ recv[t] <= recv'[t] /\ recv[t] < recv'[t]
  BY <1>1, <1>3, StreamAssumption DEF StreamInv, TypeOK, Counters
<1>5. Moved(t, j, "queued")
  BY MoveJobMoves DEF Unsealed, StreamInv, JobStates
<1>6. job'[t][j].key = key[t] /\ Alone(t, j)
  BY <1>1, <1>5 DEF Moved, Current
<1>7. Loud(t, j)
  BY <1>1, <1>4, <1>6 DEF Loud, history, StreamInv, TypeOK
<1>8. TypeOK'
  BY <1>1, <1>4, <1>6 DEF StreamInv, TypeOK, Alone, lifecycle, history
<1>9. CounterInv'
  <2>1. ASSUME NEW u \in Tabs, key[u] # None
        PROVE  Below(wire[key[u]], send[u]) /\ Below(acted[key[u]], recv'[u])
    <3>1. recv[u] \in Counters /\ recv'[u] \in Counters /\ recv[u] <= recv'[u]
          /\ acted[key[u]] \in Seq(Counters)
      BY <1>1, <1>4, <2>1, StreamAssumption DEF StreamInv, TypeOK, Counters
    <3>2. QED BY <2>1, <3>1, BelowMonotone DEF StreamInv, CounterInv
  <2>2. UNCHANGED <<stored, restore, pend, key, send, wire, acted>>
    BY <1>1 DEF lifecycle, history
  <2>3. QED BY <2>1, <2>2 DEF StreamInv, CounterInv, CheckpointAhead
<1>10. ASSUME NEW g \in Jobs PROVE JobInv(t, g)'
  <2>1. CASE g = j
    <3>1. Below(acted[key[t]], recv[t])
      BY <1>1 DEF StreamInv, CounterInv
    <3>2. QED
      BY <1>1, <1>2, <1>3, <1>4, <1>5, <2>1, <3>1
         DEF Moved, JobInv, SnapOwn, Current, SendOk, RecvOk, SnapOk, StoredOk,
             history
  <2>2. CASE g # j /\ ~Current(t, g)
    BY <1>1, <1>2, <1>6, <2>2 DEF Alone, JobInv, Current
  <2>3. CASE g # j /\ Current(t, g)
    <3>1. job[t][g].kind # "recv" /\ job[t][g].pc # "unseal"
      BY <1>1, <1>2, <1>3, <2>3
         DEF StreamInv, PairInv, Compatible, JobInv, RecvOk
    <3>2. /\ job[t][g] \in Job /\ send[t] \in Counters /\ send[t] <= send[t]
          /\ job'[t][g] = job[t][g] /\ SnapOwn(job[t][g])
      BY <1>2, <1>6, <2>3, StreamAssumption
         DEF StreamInv, TypeOK, JobInv, Alone, Counters
    <3>3. SnapOk(job[t][g], send[t], recv[t], wire[key[t]], acted[key[t]]) =>
            SnapOk(job[t][g], send[t], recv'[t], wire[key[t]], acted[key[t]])
      BY <1>4, <3>2, OkMonotone
    <3>4. RecvOk(job[t][g], recv[t], acted[key[t]]) =>
            RecvOk(job[t][g], recv'[t], acted[key[t]])
      BY <1>4, <3>1, <3>2, OkMonotone
    <3>5. QED
      BY <1>1, <1>2, <2>3, <3>2, <3>3, <3>4 DEF JobInv, Current, history
  <2>4. QED BY <2>1, <2>2, <2>3
<1>11. ASSUME NEW g \in Jobs \ {j} PROVE PairInv(t, g, j)' /\ PairInv(t, j, g)'
  <2>1. PairInv(t, g, j) /\ PairInv(t, j, g)
    BY DEF StreamInv
  <2>2. QED
    BY <1>1, <1>5, <2>1 DEF Moved, Alone, PairInv, Current, Compatible
<1>12. NonceNeverReused' /\ ActedAtMostOnce'
  BY <1>1 DEF StreamInv, NonceNeverReused, ActedAtMostOnce, history
<1>13. QED BY <1>7, <1>8, <1>9, <1>10, <1>11, <1>12, LoudInv

\* Writing the record keeps it ahead of everything, and it covers every job
\* that was saved before.
LEMMA SaveWriteInv ==
  ASSUME StreamInv, NEW t \in Tabs, NEW j \in Jobs, SaveWrite(t, j)
  PROVE  StreamInv'
<1> DEFINE x == job[t][j]
           r == [x EXCEPT !.pc = "saved", !.snap = None]
<1>1. /\ x \in Job /\ x.pc = "write" /\ x.key = key[t]
      /\ Current(t, j) /\ key[t] # None /\ key[t] \in Keys
      /\ lock = t /\ stored' = x.snap
      /\ UNCHANGED <<lock, lifecycle, session, broken, history>>
  BY DEF SaveWrite, MayWrite, StreamInv, TypeOK, Current
<1>2. \A g \in Jobs : JobInv(t, g)
  BY DEF StreamInv
<1>3. /\ x.snap \in Record /\ x.snap # None /\ x.snap.key = key[t]
      /\ SnapOk(x, send[t], recv[t], wire[key[t]], acted[key[t]])
  BY <1>1, <1>2 DEF JobInv, SnapOwn, Job
<1>4. r \in Job /\ r.pc = "saved" /\ r.kind = x.kind /\ r.key = x.key
      /\ r.seq = x.seq
  BY <1>1 DEF Job, JobStates
<1>5. SetJob(t, j, r)
  BY DEF SaveWrite
<1> HIDE DEF r
<1>6. Alone(t, j) /\ job'[t][j] = r
  BY <1>4, <1>5, SetJobAlone DEF StreamInv
<1>7. Loud(t, j)
  BY <1>1, <1>3, <1>4, <1>6 DEF Loud, session, history
<1>8. TypeOK'
  BY <1>1, <1>3, <1>6
     DEF StreamInv, TypeOK, Alone, lifecycle, session, history
<1>9. CounterInv'
  BY <1>1, <1>3
     DEF StreamInv, CounterInv, CheckpointAhead, SnapOk, Below, lifecycle,
         session, history
<1>10. ASSUME NEW g \in Jobs PROVE JobInv(t, g)'
  <2>1. CASE g = j
    <3>1. StoredOk(r, x.snap)
      BY <1>1, <1>3, <1>4 DEF StoredOk, SnapOk, Covers
    <3>2. SendOk(r, send[t], wire[key[t]]) /\ RecvOk(r, recv[t], acted[key[t]])
      BY <1>1, <1>2, <1>4 DEF JobInv, SendOk, RecvOk
    <3>3. QED
      BY <1>1, <1>4, <1>6, <2>1, <3>1, <3>2
         DEF JobInv, SnapOwn, SnapOk, Current, session, history
  <2>2. CASE g # j
    <3>1. Current(t, g) => StoredOk(job[t][g], x.snap)
      BY <1>1, <2>2 DEF StreamInv, PairInv, Compatible, StoredOk
    <3>2. QED
      BY <1>1, <1>2, <1>6, <2>2, <3>1
         DEF Alone, JobInv, Current, session, history
  <2>3. QED BY <2>1, <2>2
<1>11. ASSUME NEW g \in Jobs \ {j} PROVE PairInv(t, g, j)' /\ PairInv(t, j, g)'
  <2>1. PairInv(t, g, j) /\ PairInv(t, j, g)
    BY DEF StreamInv
  <2>2. Current(t, g) => job[t][g].pc \notin {"export", "write"}
    BY <1>1, <2>1 DEF PairInv, Compatible
  <2>3. QED
    BY <1>1, <1>4, <1>6, <2>1, <2>2
       DEF Alone, PairInv, Current, Compatible, session
<1>12. NonceNeverReused' /\ ActedAtMostOnce'
  BY <1>1 DEF StreamInv, NonceNeverReused, ActedAtMostOnce, history
<1>13. QED BY <1>7, <1>8, <1>9, <1>10, <1>11, <1>12, LoudInv

\* Appending a smaller number.
LEMMA AppendBelow ==
  ASSUME NEW s \in Seq(Counters), NEW m \in Counters, NEW n \in Counters,
         Below(s, n), m < n
  PROVE  Below(Append(s, m), n)
  BY DEF Below

\* Appending a number above all others.
LEMMA AppendIncreases ==
  ASSUME NEW s \in Seq(Counters), NEW m \in Counters, Increasing(s), Below(s,
         m)
  PROVE  Append(s, m) \in Seq(Counters) /\ Increasing(Append(s, m))
<1>1. ASSUME NEW a \in DOMAIN Append(s, m), NEW b \in DOMAIN Append(s, m),
         a < b
      PROVE  Append(s, m)[a] < Append(s, m)[b]
  BY <1>1 DEF Increasing, Below
<1>2. QED BY <1>1 DEF Increasing

\* Emitting a saved message keeps the invariant: its number is above all
\* that were emitted, and below the counter and every record of the key.
LEMMA EmitInv ==
  ASSUME StreamInv, NEW t \in Tabs, NEW j \in Jobs, Emit(t, j)
  PROVE  StreamInv'
<1> DEFINE x == job[t][j]
           w == Append(wire[key[t]], x.seq)
<1>1. /\ x \in Job /\ x.pc = "saved" /\ x.kind = "send" /\ x.key = key[t]
      /\ x.seq \in Counters
      /\ Current(t, j) /\ key[t] # None /\ key[t] \in Keys
      /\ wire[key[t]] \in Seq(Counters) /\ send[t] \in Counters
      /\ wire' = [wire EXCEPT ![key[t]] = w]
      /\ UNCHANGED <<lock, stored, lifecycle, session, broken, acted, life,
                     dropped>>
  BY DEF Emit, Saved, StreamInv, TypeOK, Current, Job
<1>2. \A g \in Jobs : JobInv(t, g)
  BY DEF StreamInv
<1>3. /\ x.seq < send[t] /\ Below(wire[key[t]], x.seq)
      /\ StoredOk(x, stored)
  BY <1>1, <1>2 DEF JobInv, SendOk
<1>4. w \in Seq(Counters) /\ Increasing(w) /\ wire'[key[t]] = w
  BY <1>1, <1>3, AppendIncreases DEF StreamInv, TypeOK, NonceNeverReused
<1>5. ASSUME NEW n \in Counters, Below(wire[key[t]], n), x.seq < n
      PROVE  Below(w, n)
  BY <1>1, <1>5, AppendBelow
<1> HIDE DEF w
<1>6. Moved(t, j, "ack")
  BY MoveJobMoves DEF Emit, StreamInv, JobStates
<1>7. Alone(t, j) /\ job'[t][j].key = key[t]
  BY <1>1, <1>6 DEF Moved
<1>8. Loud(t, j)
  BY <1>1, <1>7 DEF Loud, session, StreamInv, TypeOK
<1>9. TypeOK'
  BY <1>1, <1>4, <1>7 DEF StreamInv, TypeOK, Alone, lifecycle, session
<1>10. CounterInv'
  <2>1. ASSUME NEW u \in Tabs, key[u] # None
        PROVE  Below(wire'[key[u]], send[u]) /\ Below(acted[key[u]], recv[u])
    <3>1. Below(wire[key[u]], send[u]) /\ Below(acted[key[u]], recv[u])
      BY <2>1 DEF StreamInv, CounterInv
    <3>2. CASE u = t
      BY <1>1, <1>3, <1>4, <1>5, <3>1, <3>2
    <3>3. CASE u # t
      <4>1. key[u] # key[t] /\ key[u] \in Keys
        BY <1>1, <2>1, <3>3 DEF StreamInv, KeyInv, SingleRunner, TypeOK
      <4>2. QED BY <1>1, <3>1, <4>1 DEF StreamInv, TypeOK
    <3>4. QED BY <3>2, <3>3
  <2>2. ASSUME NEW u \in Tabs, restore[u] = "importing"
        PROVE  /\ Below(wire'[pend[u].key], pend[u].send)
               /\ Below(acted[pend[u].key], pend[u].recv)
    <3>1. pend[u].key # key[t] /\ pend[u] \in Record
      BY <2>2 DEF StreamInv, KeyInv, PageInv, TypeOK
    <3>2. wire'[pend[u].key] = wire[pend[u].key]
      BY <1>1, <3>1 DEF StreamInv, TypeOK, Record
    <3>3. QED BY <2>2, <3>2 DEF StreamInv, CounterInv
  <2>3. ASSUME stored # None
        PROVE  /\ Below(wire'[stored.key], stored.send)
               /\ Below(acted[stored.key], stored.recv)
    <3>1. stored.key \in Keys /\ stored.send \in Counters
          /\ Below(wire[stored.key], stored.send)
          /\ Below(acted[stored.key], stored.recv)
      BY <2>3 DEF StreamInv, CounterInv, CheckpointAhead, TypeOK, Record, Below
    <3>2. CASE stored.key = key[t]
      BY <1>1, <1>3, <1>4, <1>5, <2>3, <3>1, <3>2 DEF StoredOk, Covers
    <3>3. CASE stored.key # key[t]
      BY <1>1, <3>1, <3>3 DEF StreamInv, TypeOK
    <3>4. QED BY <3>2, <3>3
  <2>4. UNCHANGED <<stored, restore, pend, key, send, recv, acted>>
    BY <1>1 DEF lifecycle, session
  <2>5. CheckpointAhead'
    BY <2>3, <2>4 DEF CheckpointAhead, Below
  <2>6. QED BY <2>1, <2>2, <2>4, <2>5 DEF CounterInv
<1>11. ASSUME NEW g \in Jobs PROVE JobInv(t, g)'
  <2>1. CASE g = j
    BY <1>1, <1>2, <1>6, <2>1
       DEF Moved, JobInv, SnapOwn, Current, SendOk, RecvOk, SnapOk, StoredOk,
           session
  <2>2. CASE g # j /\ ~Current(t, g)
    BY <1>1, <1>2, <1>7, <2>2 DEF Alone, JobInv, Current, session
  <2>3. CASE g # j /\ Current(t, g)
    <3>1. Compatible(x, job[t][g])
      BY <1>1, <2>3 DEF StreamInv, PairInv
    <3>2. job'[t][g] = job[t][g]
      BY <1>7, <2>3 DEF Alone
    <3>3. SendOk(job[t][g], send[t], w)
      BY <1>1, <1>2, <2>3, <3>1 DEF Compatible, JobInv, SendOk
    <3>4. SnapOk(job[t][g], send[t], recv[t], w, acted[key[t]])
      <4>1. SUFFICES ASSUME job[t][g].pc = "write"
                     PROVE  Below(w, job[t][g].snap.send)
        BY <1>2, <2>3 DEF JobInv, SnapOk
      <4>2. x.seq < job[t][g].snap.send
        BY <1>1, <3>1, <4>1 DEF Compatible, Covers
      <4>3. job[t][g].snap.send \in Counters
        BY <1>2, <4>1 DEF JobInv, SnapOwn, StreamInv, TypeOK, Job, Record
      <4>4. Below(wire[key[t]], job[t][g].snap.send)
        BY <1>2, <2>3, <4>1 DEF JobInv, SnapOk
      <4>5. QED BY <1>5, <4>2, <4>3, <4>4
    <3>5. QED
      BY <1>1, <1>2, <1>4, <2>3, <3>2, <3>3, <3>4 DEF JobInv, Current, session
  <2>4. QED BY <2>1, <2>2, <2>3
<1>12. ASSUME NEW g \in Jobs \ {j} PROVE PairInv(t, g, j)' /\ PairInv(t, j, g)'
  <2>1. PairInv(t, g, j) /\ PairInv(t, j, g)
    BY DEF StreamInv
  <2>2. QED
    BY <1>1, <1>6, <2>1
       DEF Moved, Alone, PairInv, Current, Compatible, session
<1>13. NonceNeverReused' /\ ActedAtMostOnce'
  BY <1>1, <1>4 DEF StreamInv, TypeOK, NonceNeverReused, ActedAtMostOnce
<1>14. QED BY <1>8, <1>9, <1>10, <1>11, <1>12, <1>13, LoudInv

\* Acting upon a saved message keeps the invariant, likewise.
LEMMA ActInv ==
  ASSUME StreamInv, NEW t \in Tabs, NEW j \in Jobs, Act(t, j)
  PROVE  StreamInv'
<1> DEFINE x == job[t][j]
           a == Append(acted[key[t]], x.seq)
<1>1. /\ x \in Job /\ x.pc = "saved" /\ x.kind = "recv" /\ x.key = key[t]
      /\ x.seq \in Counters
      /\ Current(t, j) /\ key[t] # None /\ key[t] \in Keys
      /\ acted[key[t]] \in Seq(Counters) /\ recv[t] \in Counters
      /\ acted' = [acted EXCEPT ![key[t]] = a]
      /\ UNCHANGED <<lock, stored, lifecycle, session, broken, wire, life,
                     dropped>>
  BY DEF Act, ActUpon, Saved, StreamInv, TypeOK, Current, Job
<1>2. \A g \in Jobs : JobInv(t, g)
  BY DEF StreamInv
<1>3. /\ x.seq < recv[t] /\ Below(acted[key[t]], x.seq)
      /\ StoredOk(x, stored)
  BY <1>1, <1>2 DEF JobInv, RecvOk
<1>4. a \in Seq(Counters) /\ Increasing(a) /\ acted'[key[t]] = a
  BY <1>1, <1>3, AppendIncreases DEF StreamInv, TypeOK, ActedAtMostOnce
<1>5. ASSUME NEW n \in Counters, Below(acted[key[t]], n), x.seq < n
      PROVE  Below(a, n)
  BY <1>1, <1>5, AppendBelow
<1> HIDE DEF a
<1>6. \/ Ended(t, j)
      \/ Begun(t, j, "save", "queued", 0)
      \/ Begun(t, j, "recv", "closing", 0)
  BY <1>1, EndJobEnds, NewJobBegins, StreamAssumption
     DEF Act, StreamInv, JobStates, Counters
<1>7. Alone(t, j) /\ job'[t][j].key \in {key[t], None}
  BY <1>1, <1>6 DEF Ended, Begun, Idle
<1>8. Loud(t, j)
  BY <1>1, <1>7 DEF Loud, session, StreamInv, TypeOK
<1>9. TypeOK'
  BY <1>1, <1>4, <1>7 DEF StreamInv, TypeOK, Alone, lifecycle, session
<1>10. CounterInv'
  <2>1. ASSUME NEW u \in Tabs, key[u] # None
        PROVE  Below(wire[key[u]], send[u]) /\ Below(acted'[key[u]], recv[u])
    <3>1. Below(wire[key[u]], send[u]) /\ Below(acted[key[u]], recv[u])
      BY <2>1 DEF StreamInv, CounterInv
    <3>2. CASE u = t
      BY <1>1, <1>3, <1>4, <1>5, <3>1, <3>2
    <3>3. CASE u # t
      <4>1. key[u] # key[t] /\ key[u] \in Keys
        BY <1>1, <2>1, <3>3 DEF StreamInv, KeyInv, SingleRunner, TypeOK
      <4>2. QED BY <1>1, <3>1, <4>1 DEF StreamInv, TypeOK
    <3>4. QED BY <3>2, <3>3
  <2>2. ASSUME NEW u \in Tabs, restore[u] = "importing"
        PROVE  /\ Below(wire[pend[u].key], pend[u].send)
               /\ Below(acted'[pend[u].key], pend[u].recv)
    <3>1. pend[u].key # key[t] /\ pend[u] \in Record
      BY <2>2 DEF StreamInv, KeyInv, PageInv, TypeOK
    <3>2. acted'[pend[u].key] = acted[pend[u].key]
      BY <1>1, <3>1 DEF StreamInv, TypeOK, Record
    <3>3. QED BY <2>2, <3>2 DEF StreamInv, CounterInv
  <2>3. ASSUME stored # None
        PROVE  /\ Below(wire[stored.key], stored.send)
               /\ Below(acted'[stored.key], stored.recv)
    <3>1. stored.key \in Keys /\ stored.recv \in Counters
          /\ Below(wire[stored.key], stored.send)
          /\ Below(acted[stored.key], stored.recv)
      BY <2>3 DEF StreamInv, CounterInv, CheckpointAhead, TypeOK, Record, Below
    <3>2. CASE stored.key = key[t]
      BY <1>1, <1>3, <1>4, <1>5, <2>3, <3>1, <3>2 DEF StoredOk, Covers
    <3>3. CASE stored.key # key[t]
      BY <1>1, <3>1, <3>3 DEF StreamInv, TypeOK
    <3>4. QED BY <3>2, <3>3
  <2>4. UNCHANGED <<stored, restore, pend, key, send, recv, wire>>
    BY <1>1 DEF lifecycle, session
  <2>5. CheckpointAhead'
    BY <2>3, <2>4 DEF CheckpointAhead, Below
  <2>6. QED BY <2>1, <2>2, <2>4, <2>5 DEF CounterInv
<1>11. ASSUME NEW g \in Jobs PROVE JobInv(t, g)'
  <2>1. CASE g = j
    BY <1>1, <1>6, <2>1, StreamAssumption
       DEF Ended, Begun, Idle, JobInv, SnapOwn, Current, SendOk, RecvOk,
         SnapOk, StoredOk,
           session
  <2>2. CASE g # j /\ ~Current(t, g)
    BY <1>1, <1>2, <1>7, <2>2 DEF Alone, JobInv, Current, session
  <2>3. CASE g # j /\ Current(t, g)
    <3>1. Compatible(x, job[t][g])
      BY <1>1, <2>3 DEF StreamInv, PairInv
    <3>2. job'[t][g] = job[t][g]
      BY <1>7, <2>3 DEF Alone
    <3>3. RecvOk(job[t][g], recv[t], a)
      BY <1>1, <1>2, <2>3, <3>1 DEF Compatible, JobInv, RecvOk
    <3>4. SnapOk(job[t][g], send[t], recv[t], wire[key[t]], a)
      <4>1. SUFFICES ASSUME job[t][g].pc = "write"
                     PROVE  Below(a, job[t][g].snap.recv)
        BY <1>2, <2>3 DEF JobInv, SnapOk
      <4>2. x.seq < job[t][g].snap.recv
        BY <1>1, <3>1, <4>1 DEF Compatible, Covers
      <4>3. job[t][g].snap.recv \in Counters
        BY <1>2, <4>1 DEF JobInv, SnapOwn, StreamInv, TypeOK, Job, Record
      <4>4. Below(acted[key[t]], job[t][g].snap.recv)
        BY <1>2, <2>3, <4>1 DEF JobInv, SnapOk
      <4>5. QED BY <1>5, <4>2, <4>3, <4>4
    <3>5. QED
      BY <1>1, <1>2, <1>4, <2>3, <3>2, <3>3, <3>4 DEF JobInv, Current, session
  <2>4. QED BY <2>1, <2>2, <2>3
<1>12. ASSUME NEW g \in Jobs \ {j} PROVE PairInv(t, g, j)' /\ PairInv(t, j, g)'
  <2>1. PairInv(t, g, j) /\ PairInv(t, j, g)
    BY DEF StreamInv
  <2>2. QED
    BY <1>1, <1>6, <2>1, StreamAssumption
       DEF Ended, Begun, Idle, Alone, PairInv, Current, Compatible, session
<1>13. NonceNeverReused' /\ ActedAtMostOnce'
  BY <1>1, <1>4 DEF StreamInv, TypeOK, NonceNeverReused, ActedAtMostOnce
<1>14. QED BY <1>8, <1>9, <1>10, <1>11, <1>12, <1>13, LoudInv

-----------------------------------------------------------------------------
(* The steps that open, close, pair, restore and retire sessions keep        *)
(* StreamInv: one lemma per part of the invariant, one step per action.      *)

\* The steps that open, close, pair, restore and retire.
LifecycleStep(t) ==
  Lifecycle(t) \/ Restoring(t) \/ Pairing(t) \/ \E j \in Jobs : Close(t, j)

\* Jobs of page u are left or dropped, and if the session they belong to is
\* still the live one, nothing they rely on has changed.
Kept(u) ==
  /\ \A g \in Jobs : job'[u][g] \in {job[u][g], Idle}
  /\ \/ key'[u] = None
     \/ \A g \in Jobs : job[u][g].key # key'[u]
     \/ /\ key'[u] = key[u] /\ send'[u] = send[u] /\ recv'[u] = recv[u]
        /\ UNCHANGED <<wire, acted>>
  /\ stored' \in {stored, None}

\* Lifecycle steps keep the types.
LEMMA LifecycleType ==
  ASSUME TypeOK, \A v \in Tabs : PageInv(v),
         NEW t \in Tabs, LifecycleStep(t)
  PROVE  TypeOK'
<1> /\ 0 \in Counters /\ 1 \in Counters
    /\ \A v \in Tabs : restore[v] # "idle" => pend[v] \in Record
  BY StreamAssumption DEF TypeOK, PageInv, Counters
<1>1. CASE Open(t)
  BY <1>1, IdleIsJob
     DEF TypeOK, Open, ReadStored, Restorable, session, history, Job,
         JobStates, Record
<1>2. CASE Crash(t)
  BY <1>2, IdleIsJob
     DEF TypeOK, Crash, Release, SetSession, Job, JobStates, Record
<1>3. CASE Disconnect(t)
  BY <1>3, IdleIsJob
     DEF TypeOK, Disconnect, Retire, Invalidate, SetSession, CancelPairing,
         RemoveStored, ReleaseIf, Job, JobStates, Record
<1>4. CASE Reset(t)
  BY <1>4, IdleIsJob
     DEF TypeOK, Reset, Invalidate, SetSession, CancelPairing, RemoveStored,
         Job, JobStates, Record
<1>5. CASE RestoreAsk(t)
  BY <1>5, IdleIsJob
     DEF TypeOK, RestoreAsk, Acquire, session, history, Job, JobStates, Record
<1>6. CASE PairAsk(t)
  BY <1>6, IdleIsJob
     DEF TypeOK, PairAsk, Acquire, session, history, Job, JobStates, Record
<1>7. CASE RestoreRefresh(t)
  BY <1>7, IdleIsJob
     DEF TypeOK, RestoreRefresh, ReadStored, Restorable, CancelPairing,
         SetSession, history, Job, JobStates, Record
<1>8. CASE RestoreFails(t)
  BY <1>8, IdleIsJob
     DEF TypeOK, RestoreFails, RemoveStored, ReleaseIf, session, history, Job,
         JobStates, Record
<1>9. CASE RestoreDone(t)
  BY <1>9, IdleIsJob
     DEF TypeOK, RestoreDone, SetSession, Job, JobStates, Record
<1>10. CASE PairReset(t)
  BY <1>10, IdleIsJob
     DEF TypeOK, PairReset, session, history, Job, JobStates, Record
<1>11. CASE PairResetFails(t)
  BY <1>11, IdleIsJob
     DEF TypeOK, PairResetFails, session, history, Job, JobStates, Record
<1>12. CASE PairBegin(t)
  BY <1>12, IdleIsJob
     DEF TypeOK, PairBegin, MayBegin, Invalidate, SetSession, RemoveStored,
         Job, JobStates, Record
<1>13. CASE PairBeginFails(t)
  BY <1>13, IdleIsJob
     DEF TypeOK, PairBeginFails, MayBegin, Invalidate, SetSession, Job,
         JobStates, Record
<1>14. CASE PairFails(t)
  BY <1>14, IdleIsJob
     DEF TypeOK, PairFails, Release, session, history, Job, JobStates, Record
<1>15. CASE \E k \in Keys : PairDone(t, k)
  BY <1>15, IdleIsJob
     DEF TypeOK, PairDone, SetSession, Job, JobStates, Record
<1>16. CASE \E j \in Jobs : Close(t, j)
  BY <1>16, IdleIsJob
     DEF TypeOK, Close, Current, EndJob, SetJob, Retire, Invalidate,
         SetSession, CancelPairing, RemoveStored, ReleaseIf, Job, JobStates,
         Record
<1>17. QED
  BY <1>1, <1>2, <1>3, <1>4, <1>5, <1>6, <1>7, <1>8, <1>9, <1>10, <1>11, <1>12,
     <1>13, <1>14, <1>15, <1>16 DEF LifecycleStep, Lifecycle, Restoring,
         Pairing

\* Lifecycle steps keep PageInv.
LEMMA LifecyclePage ==
  ASSUME TypeOK, \A v \in Tabs : PageInv(v),
         NEW t \in Tabs, LifecycleStep(t)
  PROVE  \A u \in Tabs : PageInv(u)'
<1>1. CASE Open(t)
  BY <1>1, StreamAssumption
     DEF TypeOK, PageInv, Open, ReadStored, Restorable, session, history
<1>2. CASE Crash(t)
  BY <1>2, StreamAssumption
     DEF TypeOK, PageInv, Crash, Release, SetSession, Idle
<1>3. CASE Disconnect(t)
  BY <1>3, StreamAssumption
     DEF TypeOK, PageInv, Disconnect, Retire, Invalidate, SetSession,
         CancelPairing, RemoveStored, ReleaseIf
<1>4. CASE Reset(t)
  BY <1>4, StreamAssumption
     DEF TypeOK, PageInv, Reset, Invalidate, SetSession, CancelPairing,
         RemoveStored
<1>5. CASE RestoreAsk(t)
  BY <1>5, StreamAssumption
     DEF TypeOK, PageInv, RestoreAsk, Acquire, session, history
<1>6. CASE PairAsk(t)
  BY <1>6, StreamAssumption
     DEF TypeOK, PageInv, PairAsk, Acquire, session, history
<1>7. CASE RestoreRefresh(t)
  BY <1>7, StreamAssumption
     DEF TypeOK, PageInv, RestoreRefresh, ReadStored, Restorable,
         CancelPairing, SetSession, history
<1>8. CASE RestoreFails(t)
  BY <1>8, StreamAssumption
     DEF TypeOK, PageInv, RestoreFails, RemoveStored, ReleaseIf, session,
         history
<1>9. CASE RestoreDone(t)
  BY <1>9, StreamAssumption
     DEF TypeOK, PageInv, RestoreDone, SetSession
<1>10. CASE PairReset(t)
  BY <1>10, StreamAssumption
     DEF TypeOK, PageInv, PairReset, session, history
<1>11. CASE PairResetFails(t)
  BY <1>11, StreamAssumption
     DEF TypeOK, PageInv, PairResetFails, session, history
<1>12. CASE PairBegin(t)
  BY <1>12, StreamAssumption
     DEF TypeOK, PageInv, PairBegin, MayBegin, Invalidate, SetSession,
         RemoveStored
<1>13. CASE PairBeginFails(t)
  BY <1>13, StreamAssumption
     DEF TypeOK, PageInv, PairBeginFails, MayBegin, Invalidate, SetSession
<1>14. CASE PairFails(t)
  BY <1>14, StreamAssumption
     DEF TypeOK, PageInv, PairFails, Release, session, history
<1>15. CASE \E k \in Keys : PairDone(t, k)
  BY <1>15, StreamAssumption
     DEF TypeOK, PageInv, PairDone, SetSession
<1>16. CASE \E j \in Jobs : Close(t, j)
  BY <1>16, StreamAssumption
     DEF TypeOK, PageInv, Close, Current, EndJob, SetJob, Idle, Retire,
         Invalidate, SetSession, CancelPairing, RemoveStored, ReleaseIf
<1>17. QED
  BY <1>1, <1>2, <1>3, <1>4, <1>5, <1>6, <1>7, <1>8, <1>9, <1>10, <1>11, <1>12,
     <1>13, <1>14, <1>15, <1>16 DEF LifecycleStep, Lifecycle, Restoring,
         Pairing

\* Lifecycle steps keep SingleRunner: a record is imported under the lock, and
\* for as long as a page runs a stored key it keeps the lock.
LEMMA LifecycleRunner ==
  ASSUME TypeOK, \A v \in Tabs : PageInv(v), KeyInv,
         NEW t \in Tabs, LifecycleStep(t)
  PROVE  SingleRunner'
<1>1. CASE Open(t)
  BY <1>1, StreamAssumption
     DEF TypeOK, PageInv, KeyInv, SingleRunner, Unused, Record, Open,
         ReadStored, Restorable, session, history
<1>2. CASE Crash(t)
  BY <1>2, StreamAssumption
     DEF TypeOK, PageInv, KeyInv, SingleRunner, Unused, Record, Crash, Release,
         SetSession, Idle
<1>3. CASE Disconnect(t)
  BY <1>3, StreamAssumption
     DEF TypeOK, PageInv, KeyInv, SingleRunner, Unused, Record, Disconnect,
         Retire, Invalidate, SetSession, CancelPairing, RemoveStored, ReleaseIf
<1>4. CASE Reset(t)
  BY <1>4, StreamAssumption
     DEF TypeOK, PageInv, KeyInv, SingleRunner, Unused, Record, Reset,
         Invalidate, SetSession, CancelPairing, RemoveStored
<1>5. CASE RestoreAsk(t)
  BY <1>5, StreamAssumption
     DEF TypeOK, PageInv, KeyInv, SingleRunner, Unused, Record, RestoreAsk,
         Acquire, session, history
<1>6. CASE PairAsk(t)
  BY <1>6, StreamAssumption
     DEF TypeOK, PageInv, KeyInv, SingleRunner, Unused, Record, PairAsk,
         Acquire, session, history
<1>7. CASE RestoreRefresh(t)
  BY <1>7, StreamAssumption
     DEF TypeOK, PageInv, KeyInv, SingleRunner, Unused, Record, RestoreRefresh,
         ReadStored, Restorable, CancelPairing, SetSession, history
<1>8. CASE RestoreFails(t)
  BY <1>8, StreamAssumption
     DEF TypeOK, PageInv, KeyInv, SingleRunner, Unused, Record, RestoreFails,
         RemoveStored, ReleaseIf, session, history
<1>9. CASE RestoreDone(t)
  BY <1>9, StreamAssumption
     DEF TypeOK, PageInv, KeyInv, SingleRunner, Unused, Record, RestoreDone,
         SetSession
<1>10. CASE PairReset(t)
  BY <1>10, StreamAssumption
     DEF TypeOK, PageInv, KeyInv, SingleRunner, Unused, Record, PairReset,
         session, history
<1>11. CASE PairResetFails(t)
  BY <1>11, StreamAssumption
     DEF TypeOK, PageInv, KeyInv, SingleRunner, Unused, Record, PairResetFails,
         session, history
<1>12. CASE PairBegin(t)
  BY <1>12, StreamAssumption
     DEF TypeOK, PageInv, KeyInv, SingleRunner, Unused, Record, PairBegin,
         MayBegin, Invalidate, SetSession, RemoveStored
<1>13. CASE PairBeginFails(t)
  BY <1>13, StreamAssumption
     DEF TypeOK, PageInv, KeyInv, SingleRunner, Unused, Record, PairBeginFails,
         MayBegin, Invalidate, SetSession
<1>14. CASE PairFails(t)
  BY <1>14, StreamAssumption
     DEF TypeOK, PageInv, KeyInv, SingleRunner, Unused, Record, PairFails,
         Release, session, history
<1>15. CASE \E k \in Keys : PairDone(t, k)
  BY <1>15, StreamAssumption
     DEF TypeOK, PageInv, KeyInv, SingleRunner, Unused, Record, PairDone,
         SetSession
<1>16. CASE \E j \in Jobs : Close(t, j)
  BY <1>16, StreamAssumption
     DEF TypeOK, PageInv, KeyInv, SingleRunner, Unused, Record, Close, Current,
         EndJob, SetJob, Idle, Retire, Invalidate, SetSession, CancelPairing,
         RemoveStored, ReleaseIf
<1>17. QED
  BY <1>1, <1>2, <1>3, <1>4, <1>5, <1>6, <1>7, <1>8, <1>9, <1>10, <1>11, <1>12,
     <1>13, <1>14, <1>15, <1>16 DEF LifecycleStep, Lifecycle, Restoring,
         Pairing

\* Lifecycle steps keep unused keys unused.
LEMMA LifecycleUnused ==
  ASSUME TypeOK, \A v \in Tabs : PageInv(v), KeyInv,
         NEW t \in Tabs, LifecycleStep(t)
  PROVE  \A h \in Keys : (life[h] = "new" => Unused(h))'
<1>1. CASE Open(t)
  BY <1>1, StreamAssumption
     DEF TypeOK, PageInv, KeyInv, Unused, Record, Open, ReadStored, Restorable,
         session, history
<1>2. CASE Crash(t)
  BY <1>2, StreamAssumption
     DEF TypeOK, PageInv, KeyInv, Unused, Record, Crash, Release, SetSession,
         Idle
<1>3. CASE Disconnect(t)
  BY <1>3, StreamAssumption
     DEF TypeOK, PageInv, KeyInv, Unused, Record, Disconnect, Retire,
         Invalidate, SetSession, CancelPairing, RemoveStored, ReleaseIf
<1>4. CASE Reset(t)
  BY <1>4, StreamAssumption
     DEF TypeOK, PageInv, KeyInv, Unused, Record, Reset, Invalidate,
         SetSession, CancelPairing, RemoveStored
<1>5. CASE RestoreAsk(t)
  BY <1>5, StreamAssumption
     DEF TypeOK, PageInv, KeyInv, Unused, Record, RestoreAsk, Acquire, session,
         history
<1>6. CASE PairAsk(t)
  BY <1>6, StreamAssumption
     DEF TypeOK, PageInv, KeyInv, Unused, Record, PairAsk, Acquire, session,
         history
<1>7. CASE RestoreRefresh(t)
  BY <1>7, StreamAssumption
     DEF TypeOK, PageInv, KeyInv, Unused, Record, RestoreRefresh, ReadStored,
         Restorable, CancelPairing, SetSession, history
<1>8. CASE RestoreFails(t)
  BY <1>8, StreamAssumption
     DEF TypeOK, PageInv, KeyInv, Unused, Record, RestoreFails, RemoveStored,
         ReleaseIf, session, history
<1>9. CASE RestoreDone(t)
  BY <1>9, StreamAssumption
     DEF TypeOK, PageInv, KeyInv, Unused, Record, RestoreDone, SetSession
<1>10. CASE PairReset(t)
  BY <1>10, StreamAssumption
     DEF TypeOK, PageInv, KeyInv, Unused, Record, PairReset, session, history
<1>11. CASE PairResetFails(t)
  BY <1>11, StreamAssumption
     DEF TypeOK, PageInv, KeyInv, Unused, Record, PairResetFails, session,
         history
<1>12. CASE PairBegin(t)
  BY <1>12, StreamAssumption
     DEF TypeOK, PageInv, KeyInv, Unused, Record, PairBegin, MayBegin,
         Invalidate, SetSession, RemoveStored
<1>13. CASE PairBeginFails(t)
  BY <1>13, StreamAssumption
     DEF TypeOK, PageInv, KeyInv, Unused, Record, PairBeginFails, MayBegin,
         Invalidate, SetSession
<1>14. CASE PairFails(t)
  BY <1>14, StreamAssumption
     DEF TypeOK, PageInv, KeyInv, Unused, Record, PairFails, Release, session,
         history
<1>15. CASE \E k \in Keys : PairDone(t, k)
  BY <1>15, StreamAssumption
     DEF TypeOK, PageInv, KeyInv, Unused, Record, PairDone, SetSession
<1>16. CASE \E j \in Jobs : Close(t, j)
  BY <1>16, StreamAssumption
     DEF TypeOK, PageInv, KeyInv, Unused, Record, Close, Current, EndJob,
         SetJob, Idle, Retire, Invalidate, SetSession, CancelPairing,
         RemoveStored, ReleaseIf
<1>17. QED
  BY <1>1, <1>2, <1>3, <1>4, <1>5, <1>6, <1>7, <1>8, <1>9, <1>10, <1>11, <1>12,
     <1>13, <1>14, <1>15, <1>16 DEF LifecycleStep, Lifecycle, Restoring,
         Pairing

\* Lifecycle steps start no session under a key that is being imported.
LEMMA LifecycleImport ==
  ASSUME TypeOK, \A v \in Tabs : PageInv(v), KeyInv,
         NEW t \in Tabs, LifecycleStep(t)
  PROVE  \A u, v \in Tabs :
           (restore[u] = "importing" => key[v] # pend[u].key)'
<1>1. CASE Open(t)
  BY <1>1, StreamAssumption
     DEF TypeOK, PageInv, KeyInv, SingleRunner, Unused, Record, Open,
         ReadStored, Restorable, session, history
<1>2. CASE Crash(t)
  BY <1>2, StreamAssumption
     DEF TypeOK, PageInv, KeyInv, SingleRunner, Unused, Record, Crash, Release,
         SetSession, Idle
<1>3. CASE Disconnect(t)
  BY <1>3, StreamAssumption
     DEF TypeOK, PageInv, KeyInv, SingleRunner, Unused, Record, Disconnect,
         Retire, Invalidate, SetSession, CancelPairing, RemoveStored, ReleaseIf
<1>4. CASE Reset(t)
  BY <1>4, StreamAssumption
     DEF TypeOK, PageInv, KeyInv, SingleRunner, Unused, Record, Reset,
         Invalidate, SetSession, CancelPairing, RemoveStored
<1>5. CASE RestoreAsk(t)
  BY <1>5, StreamAssumption
     DEF TypeOK, PageInv, KeyInv, SingleRunner, Unused, Record, RestoreAsk,
         Acquire, session, history
<1>6. CASE PairAsk(t)
  BY <1>6, StreamAssumption
     DEF TypeOK, PageInv, KeyInv, SingleRunner, Unused, Record, PairAsk,
         Acquire, session, history
<1>7. CASE RestoreRefresh(t)
  BY <1>7, StreamAssumption
     DEF TypeOK, PageInv, KeyInv, SingleRunner, Unused, Record, RestoreRefresh,
         ReadStored, Restorable, CancelPairing, SetSession, history
<1>8. CASE RestoreFails(t)
  BY <1>8, StreamAssumption
     DEF TypeOK, PageInv, KeyInv, SingleRunner, Unused, Record, RestoreFails,
         RemoveStored, ReleaseIf, session, history
<1>9. CASE RestoreDone(t)
  BY <1>9, StreamAssumption
     DEF TypeOK, PageInv, KeyInv, SingleRunner, Unused, Record, RestoreDone,
         SetSession
<1>10. CASE PairReset(t)
  BY <1>10, StreamAssumption
     DEF TypeOK, PageInv, KeyInv, SingleRunner, Unused, Record, PairReset,
         session, history
<1>11. CASE PairResetFails(t)
  BY <1>11, StreamAssumption
     DEF TypeOK, PageInv, KeyInv, SingleRunner, Unused, Record, PairResetFails,
         session, history
<1>12. CASE PairBegin(t)
  BY <1>12, StreamAssumption
     DEF TypeOK, PageInv, KeyInv, SingleRunner, Unused, Record, PairBegin,
         MayBegin, Invalidate, SetSession, RemoveStored
<1>13. CASE PairBeginFails(t)
  BY <1>13, StreamAssumption
     DEF TypeOK, PageInv, KeyInv, SingleRunner, Unused, Record, PairBeginFails,
         MayBegin, Invalidate, SetSession
<1>14. CASE PairFails(t)
  BY <1>14, StreamAssumption
     DEF TypeOK, PageInv, KeyInv, SingleRunner, Unused, Record, PairFails,
         Release, session, history
<1>15. CASE \E k \in Keys : PairDone(t, k)
  BY <1>15, StreamAssumption
     DEF TypeOK, PageInv, KeyInv, SingleRunner, Unused, Record, PairDone,
         SetSession
<1>16. CASE \E j \in Jobs : Close(t, j)
  BY <1>16, StreamAssumption
     DEF TypeOK, PageInv, KeyInv, SingleRunner, Unused, Record, Close, Current,
         EndJob, SetJob, Idle, Retire, Invalidate, SetSession, CancelPairing,
         RemoveStored, ReleaseIf
<1>17. QED
  BY <1>1, <1>2, <1>3, <1>4, <1>5, <1>6, <1>7, <1>8, <1>9, <1>10, <1>11, <1>12,
     <1>13, <1>14, <1>15, <1>16 DEF LifecycleStep, Lifecycle, Restoring,
         Pairing

\* Lifecycle steps keep CounterInv: sessions start at the record's counters.
LEMMA LifecycleCounter ==
  ASSUME TypeOK, \A v \in Tabs : PageInv(v), KeyInv, CounterInv,
         NEW t \in Tabs, LifecycleStep(t)
  PROVE  CounterInv'
<1>1. CASE Open(t)
  BY <1>1, StreamAssumption
     DEF TypeOK, PageInv, KeyInv, Unused, CounterInv, CheckpointAhead, Below,
         Record, Open, ReadStored, Restorable, session, history
<1>2. CASE Crash(t)
  BY <1>2, StreamAssumption
     DEF TypeOK, PageInv, KeyInv, Unused, CounterInv, CheckpointAhead, Below,
         Record, Crash, Release, SetSession, Idle
<1>3. CASE Disconnect(t)
  BY <1>3, StreamAssumption
     DEF TypeOK, PageInv, KeyInv, Unused, CounterInv, CheckpointAhead, Below,
         Record, Disconnect, Retire, Invalidate, SetSession, CancelPairing,
         RemoveStored, ReleaseIf
<1>4. CASE Reset(t)
  BY <1>4, StreamAssumption
     DEF TypeOK, PageInv, KeyInv, Unused, CounterInv, CheckpointAhead, Below,
         Record, Reset, Invalidate, SetSession, CancelPairing, RemoveStored
<1>5. CASE RestoreAsk(t)
  BY <1>5, StreamAssumption
     DEF TypeOK, PageInv, KeyInv, Unused, CounterInv, CheckpointAhead, Below,
         Record, RestoreAsk, Acquire, session, history
<1>6. CASE PairAsk(t)
  BY <1>6, StreamAssumption
     DEF TypeOK, PageInv, KeyInv, Unused, CounterInv, CheckpointAhead, Below,
         Record, PairAsk, Acquire, session, history
<1>7. CASE RestoreRefresh(t)
  BY <1>7, StreamAssumption
     DEF TypeOK, PageInv, KeyInv, Unused, CounterInv, CheckpointAhead, Below,
         Record, RestoreRefresh, ReadStored, Restorable, CancelPairing,
         SetSession, history
<1>8. CASE RestoreFails(t)
  BY <1>8, StreamAssumption
     DEF TypeOK, PageInv, KeyInv, Unused, CounterInv, CheckpointAhead, Below,
         Record, RestoreFails, RemoveStored, ReleaseIf, session, history
<1>9. CASE RestoreDone(t)
  BY <1>9, StreamAssumption
     DEF TypeOK, PageInv, KeyInv, Unused, CounterInv, CheckpointAhead, Below,
         Record, RestoreDone, SetSession
<1>10. CASE PairReset(t)
  BY <1>10, StreamAssumption
     DEF TypeOK, PageInv, KeyInv, Unused, CounterInv, CheckpointAhead, Below,
         Record, PairReset, session, history
<1>11. CASE PairResetFails(t)
  BY <1>11, StreamAssumption
     DEF TypeOK, PageInv, KeyInv, Unused, CounterInv, CheckpointAhead, Below,
         Record, PairResetFails, session, history
<1>12. CASE PairBegin(t)
  BY <1>12, StreamAssumption
     DEF TypeOK, PageInv, KeyInv, Unused, CounterInv, CheckpointAhead, Below,
         Record, PairBegin, MayBegin, Invalidate, SetSession, RemoveStored
<1>13. CASE PairBeginFails(t)
  BY <1>13, StreamAssumption
     DEF TypeOK, PageInv, KeyInv, Unused, CounterInv, CheckpointAhead, Below,
         Record, PairBeginFails, MayBegin, Invalidate, SetSession
<1>14. CASE PairFails(t)
  BY <1>14, StreamAssumption
     DEF TypeOK, PageInv, KeyInv, Unused, CounterInv, CheckpointAhead, Below,
         Record, PairFails, Release, session, history
<1>15. CASE \E k \in Keys : PairDone(t, k)
  BY <1>15, StreamAssumption
     DEF TypeOK, PageInv, KeyInv, Unused, CounterInv, CheckpointAhead, Below,
         Record, PairDone, SetSession
<1>16. CASE \E j \in Jobs : Close(t, j)
  BY <1>16, StreamAssumption
     DEF TypeOK, PageInv, KeyInv, Unused, CounterInv, CheckpointAhead, Below,
         Record, Close, Current, EndJob, SetJob, Idle, Retire, Invalidate,
         SetSession, CancelPairing, RemoveStored, ReleaseIf
<1>17. QED
  BY <1>1, <1>2, <1>3, <1>4, <1>5, <1>6, <1>7, <1>8, <1>9, <1>10, <1>11, <1>12,
     <1>13, <1>14, <1>15, <1>16 DEF LifecycleStep, Lifecycle, Restoring,
         Pairing

\* What a lifecycle step does to the jobs of any page.
LEMMA LifecycleKept ==
  ASSUME TypeOK, \A v \in Tabs : PageInv(v), KeyInv,
         NEW t \in Tabs, LifecycleStep(t)
  PROVE  \A u \in Tabs : Kept(u)
<1>1. CASE Open(t)
  BY <1>1, StreamAssumption
     DEF TypeOK, PageInv, KeyInv, Unused, Kept, Record, Open, ReadStored,
         Restorable, session, history
<1>2. CASE Crash(t)
  BY <1>2, StreamAssumption
     DEF TypeOK, PageInv, KeyInv, Unused, Kept, Record, Crash, Release,
         SetSession, Idle
<1>3. CASE Disconnect(t)
  BY <1>3, StreamAssumption
     DEF TypeOK, PageInv, KeyInv, Unused, Kept, Record, Disconnect, Retire,
         Invalidate, SetSession, CancelPairing, RemoveStored, ReleaseIf
<1>4. CASE Reset(t)
  BY <1>4, StreamAssumption
     DEF TypeOK, PageInv, KeyInv, Unused, Kept, Record, Reset, Invalidate,
         SetSession, CancelPairing, RemoveStored
<1>5. CASE RestoreAsk(t)
  BY <1>5, StreamAssumption
     DEF TypeOK, PageInv, KeyInv, Unused, Kept, Record, RestoreAsk, Acquire,
         session, history
<1>6. CASE PairAsk(t)
  BY <1>6, StreamAssumption
     DEF TypeOK, PageInv, KeyInv, Unused, Kept, Record, PairAsk, Acquire,
         session, history
<1>7. CASE RestoreRefresh(t)
  BY <1>7, StreamAssumption
     DEF TypeOK, PageInv, KeyInv, Unused, Kept, Record, RestoreRefresh,
         ReadStored, Restorable, CancelPairing, SetSession, history
<1>8. CASE RestoreFails(t)
  BY <1>8, StreamAssumption
     DEF TypeOK, PageInv, KeyInv, Unused, Kept, Record, RestoreFails,
         RemoveStored, ReleaseIf, session, history
<1>9. CASE RestoreDone(t)
  <2>1. pend[t] # None /\ restore[t] # "idle"
    BY <1>9 DEF PageInv, RestoreDone
  <2>2. pend[t].key \in Keys /\ \A g \in Jobs : job[t][g].key = None
    BY <2>1 DEF TypeOK, PageInv, Record, Idle
  <2>3. /\ key' = [key EXCEPT ![t] = pend[t].key]
        /\ send' = [send EXCEPT ![t] = pend[t].send]
        /\ recv' = [recv EXCEPT ![t] = pend[t].recv]
        /\ UNCHANGED <<job, wire, acted, stored>>
    BY <1>9 DEF RestoreDone, SetSession
  <2>4. ASSUME NEW u \in Tabs PROVE Kept(u)
    BY <2>2, <2>3, StreamAssumption DEF TypeOK, Kept
  <2>5. QED BY <2>4
<1>10. CASE PairReset(t)
  BY <1>10, StreamAssumption
     DEF TypeOK, PageInv, KeyInv, Unused, Kept, Record, PairReset, session,
         history
<1>11. CASE PairResetFails(t)
  BY <1>11, StreamAssumption
     DEF TypeOK, PageInv, KeyInv, Unused, Kept, Record, PairResetFails,
         session, history
<1>12. CASE PairBegin(t)
  BY <1>12, StreamAssumption
     DEF TypeOK, PageInv, KeyInv, Unused, Kept, Record, PairBegin, MayBegin,
         Invalidate, SetSession, RemoveStored
<1>13. CASE PairBeginFails(t)
  BY <1>13, StreamAssumption
     DEF TypeOK, PageInv, KeyInv, Unused, Kept, Record, PairBeginFails,
         MayBegin, Invalidate, SetSession
<1>14. CASE PairFails(t)
  BY <1>14, StreamAssumption
     DEF TypeOK, PageInv, KeyInv, Unused, Kept, Record, PairFails, Release,
         session, history
<1>15. CASE \E k \in Keys : PairDone(t, k)
  BY <1>15, StreamAssumption
     DEF TypeOK, PageInv, KeyInv, Unused, Kept, Record, PairDone, SetSession
<1>16. CASE \E j \in Jobs : Close(t, j)
  BY <1>16, StreamAssumption
     DEF TypeOK, PageInv, KeyInv, Unused, Kept, Record, Close, Current, EndJob,
         SetJob, Idle, Retire, Invalidate, SetSession, CancelPairing,
         RemoveStored, ReleaseIf
<1>17. QED
  BY <1>1, <1>2, <1>3, <1>4, <1>5, <1>6, <1>7, <1>8, <1>9, <1>10, <1>11, <1>12,
     <1>13, <1>14, <1>15, <1>16 DEF LifecycleStep, Lifecycle, Restoring,
         Pairing

\* Such a step keeps JobInv and PairInv.
LEMMA KeptJobs ==
  ASSUME TypeOK, \A v \in Tabs, i \in Jobs : JobInv(v, i),
         \A v \in Tabs, i, h \in Jobs : PairInv(v, i, h),
         NEW u \in Tabs, Kept(u), NEW g \in Jobs, NEW h \in Jobs
  PROVE  JobInv(u, g)' /\ PairInv(u, g, h)'
<1>1. SnapOwn(job'[u][g])
  BY DEF Kept, JobInv, SnapOwn, Idle
<1>2. Current(u, g)' => StoredOk(job'[u][g], stored')
  BY StreamAssumption DEF Kept, JobInv, StoredOk, Current, Idle
<1>3. JobInv(u, g)'
  BY <1>1, <1>2, StreamAssumption DEF Kept, JobInv, Current, Idle
<1>4. PairInv(u, g, h)'
  BY StreamAssumption DEF Kept, PairInv, Current, Idle
<1>5. QED BY <1>3, <1>4

\* Lifecycle steps keep the invariant.
LEMMA LifecycleInv ==
  ASSUME StreamInv, NEW t \in Tabs, LifecycleStep(t)
  PROVE  StreamInv'
<1> USE DEF StreamInv
<1>1. TypeOK'
  BY LifecycleType
<1>2. \A u \in Tabs : PageInv(u)'
  BY LifecyclePage
<1>3. KeyInv'
  BY LifecycleRunner, LifecycleUnused, LifecycleImport DEF KeyInv
<1>4. CounterInv'
  BY LifecycleCounter
<1>5. \A u \in Tabs : Kept(u)
  BY LifecycleKept
<1>6. \A u \in Tabs, g \in Jobs : JobInv(u, g)'
  BY <1>5, KeptJobs
<1>7. \A u \in Tabs, g, h \in Jobs : PairInv(u, g, h)'
  BY <1>5, KeptJobs
<1>8. UNCHANGED <<wire, acted>>
  BY DEF LifecycleStep, Lifecycle, Restoring, Pairing, Open, Crash, Disconnect,
         Reset, RestoreAsk, PairAsk, RestoreRefresh, RestoreFails, RestoreDone,
         PairReset, PairResetFails, PairBegin, PairBeginFails, PairFails,
         PairDone, Close, history
<1>9. NonceNeverReused' /\ ActedAtMostOnce'
  BY <1>8 DEF NonceNeverReused, ActedAtMostOnce
<1>10. QED BY <1>1, <1>2, <1>3, <1>4, <1>6, <1>7, <1>9

-----------------------------------------------------------------------------
(* The inductive invariant *)

\* The initial state satisfies the invariant.
LEMMA InitInv == Init => StreamInv
<1> SUFFICES ASSUME Init PROVE StreamInv
  OBVIOUS
<1> USE DEF Init
<1>1. 0 \in Counters
  BY StreamAssumption DEF Counters
<1>2. TypeOK
  BY <1>1, IdleIsJob DEF TypeOK
<1>3. (\A t \in Tabs : PageInv(t)) /\ KeyInv /\ CounterInv
  BY StreamAssumption
     DEF PageInv, KeyInv, SingleRunner, Unused, CounterInv, CheckpointAhead,
         Idle
<1>4. /\ \A t \in Tabs, j \in Jobs : JobInv(t, j)
      /\ \A t \in Tabs, i, j \in Jobs : PairInv(t, i, j)
  BY DEF JobInv, PairInv, Current, SnapOwn, Idle
<1>5. NonceNeverReused /\ ActedAtMostOnce
  BY DEF NonceNeverReused, ActedAtMostOnce, Increasing
<1>6. QED BY <1>2, <1>3, <1>4, <1>5 DEF StreamInv

\* Every step keeps the invariant.
LEMMA StepInv == StreamInv /\ [Next]_vars => StreamInv'
<1> SUFFICES ASSUME StreamInv, [Next]_vars PROVE StreamInv'
  OBVIOUS
<1>1. ASSUME NEW t \in Tabs, Lifecycle(t) \/ Restoring(t) \/ Pairing(t)
      PROVE  StreamInv'
  BY <1>1, LifecycleInv DEF LifecycleStep
<1>2. ASSUME NEW t \in Tabs, NEW j \in Jobs, StartJob(t, j)
      PROVE  StreamInv'
  BY <1>2, ReserveInv, ExhaustedInv, DeliverInv, AuthorizeInv DEF StartJob
<1>3. ASSUME NEW t \in Tabs, NEW j \in Jobs, Continue(t, j)
      PROVE  StreamInv'
  <2>1. CASE Stops(t, j)
    BY <2>1, StopsInv
  <2>2. CASE Close(t, j)
    BY <2>2, LifecycleInv DEF LifecycleStep
  <2>3. CASE \/ Sealed(t, j) \/ Unsealed(t, j) \/ SaveBegin(t, j)
             \/ SaveExport(t, j) \/ SaveWrite(t, j) \/ Emit(t, j) \/ Act(t, j)
    BY <2>3, SealedInv, UnsealedInv, SaveBeginInv, SaveExportInv, SaveWriteInv,
       EmitInv, ActInv
  <2>4. QED
    BY <1>3, <2>1, <2>2, <2>3 DEF Continue, Crypto, Save, AfterSave, Stops
<1>4. CASE UNCHANGED vars
  BY <1>4
     DEF vars, session, lifecycle, history, StreamInv, TypeOK, PageInv, KeyInv,
         SingleRunner, Unused, CounterInv, CheckpointAhead, Below, JobInv,
         PairInv, Current, StoredOk, NonceNeverReused, ActedAtMostOnce
<1>5. QED BY <1>1, <1>2, <1>3, <1>4 DEF Next

\* Every reachable state satisfies the inductive invariant of
\* src/ConnectionManager.ts and src/KeyExchange.ts, for every number of pages,
\* pairings and concurrent jobs and every counter bound.
THEOREM StreamInvariant == Spec => []StreamInv
  BY InitInv, StepInv, PTL DEF Spec

\* TypeOK holds of every reachable state.
THEOREM Types == Spec => []TypeOK
<1>1. StreamInv => TypeOK
  BY DEF StreamInv
<1>2. QED BY <1>1, StreamInvariant, PTL

\* SingleRunner: under the origin lock, two pages never run one AEAD key
\* (acquire before every hydrate and pairing in src/ConnectionManager.ts).
THEOREM OneRunner == Spec => []SingleRunner
<1>1. StreamInv => SingleRunner
  BY DEF StreamInv, KeyInv
<1>2. QED BY <1>1, StreamInvariant, PTL

\* CheckpointAhead: the record in localStorage is ahead of all that was emitted
\* and acted upon (persistSession before emit in src/ConnectionManager.ts).
THEOREM RecordAhead == Spec => []CheckpointAhead
<1>1. StreamInv => CheckpointAhead
  BY DEF StreamInv, CounterInv
<1>2. QED BY <1>1, StreamInvariant, PTL

\* NonceNeverReused: no page, crash or restore emits a number twice under one
\* key (encryptMessage in src/KeyExchange.ts, sendEncryptedNow).
THEOREM NoncesUnique == Spec => []NonceNeverReused
<1>1. StreamInv => NonceNeverReused
  BY DEF StreamInv
<1>2. QED BY <1>1, StreamInvariant, PTL

\* ActedAtMostOnce: no message is acted upon twice, whatever the relay repeats
\* and wherever pages crash (handleRelayMessage in src/ConnectionManager.ts).
THEOREM MessagesOnce == Spec => []ActedAtMostOnce
<1>1. StreamInv => ActedAtMostOnce
  BY DEF StreamInv
<1>2. QED BY <1>1, StreamInvariant, PTL

\* NoResurrection, and what it rests on: a page that has retired a session
\* restores none, and the record of a retired session, if it is still there,
\* is out of the reach of other pages.
RetiredInv ==
  \A t \in Tabs :
    /\ dropped[t] # {} => open[t] /\ pend[t] = None
    /\ pair[t] = "handshake" /\ lock = t => stored = None
    /\ \A k \in dropped[t] :
         /\ life[k] # "new"
         /\ \A u \in Tabs : key[u] # k
         /\ stored # None /\ stored.key = k => lock = t
         /\ \A u \in Tabs : restore[u] = "importing" => pend[u].key # k

\* Lifecycle steps keep RetiredInv.
LEMMA LifecycleRetired ==
  ASSUME TypeOK, \A v \in Tabs : PageInv(v), KeyInv, RetiredInv,
         NEW t \in Tabs, LifecycleStep(t)
  PROVE  RetiredInv'
<1>1. CASE Open(t)
  BY <1>1, StreamAssumption
     DEF TypeOK, PageInv, KeyInv, SingleRunner, Unused, RetiredInv, Record,
         Open, ReadStored, Restorable, session, history
<1>2. CASE Crash(t)
  BY <1>2, StreamAssumption
     DEF TypeOK, PageInv, KeyInv, SingleRunner, Unused, RetiredInv, Record,
         Crash, Release, SetSession, Idle
<1>3. CASE Disconnect(t)
  BY <1>3, StreamAssumption
     DEF TypeOK, PageInv, KeyInv, SingleRunner, Unused, RetiredInv, Record,
         Disconnect, Retire, Invalidate, SetSession, CancelPairing,
         RemoveStored, ReleaseIf
<1>4. CASE Reset(t)
  BY <1>4, StreamAssumption
     DEF TypeOK, PageInv, KeyInv, SingleRunner, Unused, RetiredInv, Record,
         Reset, Invalidate, SetSession, CancelPairing, RemoveStored
<1>5. CASE RestoreAsk(t)
  BY <1>5, StreamAssumption
     DEF TypeOK, PageInv, KeyInv, SingleRunner, Unused, RetiredInv, Record,
         RestoreAsk, Acquire, session, history
<1>6. CASE PairAsk(t)
  BY <1>6, StreamAssumption
     DEF TypeOK, PageInv, KeyInv, SingleRunner, Unused, RetiredInv, Record,
         PairAsk, Acquire, session, history
<1>7. CASE RestoreRefresh(t)
  BY <1>7, StreamAssumption
     DEF TypeOK, PageInv, KeyInv, SingleRunner, Unused, RetiredInv, Record,
         RestoreRefresh, ReadStored, Restorable, CancelPairing, SetSession,
         history
<1>8. CASE RestoreFails(t)
  BY <1>8, StreamAssumption
     DEF TypeOK, PageInv, KeyInv, SingleRunner, Unused, RetiredInv, Record,
         RestoreFails, RemoveStored, ReleaseIf, session, history
<1>9. CASE RestoreDone(t)
  BY <1>9, StreamAssumption
     DEF TypeOK, PageInv, KeyInv, SingleRunner, Unused, RetiredInv, Record,
         RestoreDone, SetSession
<1>10. CASE PairReset(t)
  BY <1>10, StreamAssumption
     DEF TypeOK, PageInv, KeyInv, SingleRunner, Unused, RetiredInv, Record,
         PairReset, session, history
<1>11. CASE PairResetFails(t)
  BY <1>11, StreamAssumption
     DEF TypeOK, PageInv, KeyInv, SingleRunner, Unused, RetiredInv, Record,
         PairResetFails, session, history
<1>12. CASE PairBegin(t)
  BY <1>12, StreamAssumption
     DEF TypeOK, PageInv, KeyInv, SingleRunner, Unused, RetiredInv, Record,
         PairBegin, MayBegin, Invalidate, SetSession, RemoveStored
<1>13. CASE PairBeginFails(t)
  BY <1>13, StreamAssumption
     DEF TypeOK, PageInv, KeyInv, SingleRunner, Unused, RetiredInv, Record,
         PairBeginFails, MayBegin, Invalidate, SetSession
<1>14. CASE PairFails(t)
  BY <1>14, StreamAssumption
     DEF TypeOK, PageInv, KeyInv, SingleRunner, Unused, RetiredInv, Record,
         PairFails, Release, session, history
<1>15. CASE \E k \in Keys : PairDone(t, k)
  BY <1>15, StreamAssumption
     DEF TypeOK, PageInv, KeyInv, SingleRunner, Unused, RetiredInv, Record,
         PairDone, SetSession
<1>16. CASE \E j \in Jobs : Close(t, j)
  BY <1>16, StreamAssumption
     DEF TypeOK, PageInv, KeyInv, SingleRunner, Unused, RetiredInv, Record,
         Close, Current, EndJob, SetJob, Idle, Retire, Invalidate, SetSession,
         CancelPairing, RemoveStored, ReleaseIf
<1>17. QED
  BY <1>1, <1>2, <1>3, <1>4, <1>5, <1>6, <1>7, <1>8, <1>9, <1>10, <1>11, <1>12,
     <1>13, <1>14, <1>15, <1>16 DEF LifecycleStep, Lifecycle, Restoring,
         Pairing

\* So does the work of a session.
LEMMA JobRetired ==
  ASSUME StreamInv, RetiredInv, NEW t \in Tabs, NEW j \in Jobs,
         StartJob(t, j) \/ Continue(t, j), ~Close(t, j)
  PROVE  RetiredInv'
<1>1. UNCHANGED <<lock, open, pend, restore, pair, key, life, dropped>>
  BY DEF StartJob, Continue, Crypto, Save, AfterSave, Reserve, Exhausted,
         Deliver, Authorize, Sealed, SealFails, Unsealed, UnsealFails,
         UnsealStale, SaveBegin, SaveStale, SaveExport, SaveExportFails,
         SaveWrite, SaveRefused, SaveWriteFails, SavedStale, SaveReturns, Emit,
         EmitFails, Acked, AckLost, Act, CloseStale, lifecycle, session,
         history
<1>2. CASE SaveWrite(t, j)
  <2>1. stored'.key = key[t] /\ key[t] # None /\ lock = t
    BY <1>2 DEF SaveWrite, MayWrite, Current, StreamInv, JobInv, SnapOwn
  <2>2. QED BY <1>1, <2>1 DEF RetiredInv, StreamInv, PageInv
<1>3. CASE ~SaveWrite(t, j)
  <2>1. stored' \in {stored, None}
    BY <1>3
       DEF StartJob, Continue, Crypto, Save, AfterSave, Reserve, Exhausted,
           Deliver, Authorize, Sealed, SealFails, Unsealed, UnsealFails,
           UnsealStale, SaveBegin, SaveStale, SaveExport, SaveExportFails,
           SaveRefused, SaveWriteFails, SavedStale, SaveReturns, Emit,
           EmitFails, Acked, AckLost, Act, CloseStale, RemoveStored
  <2>2. QED BY <1>1, <2>1 DEF RetiredInv
<1>4. QED BY <1>2, <1>3

\* Every step keeps RetiredInv.
LEMMA StepRetired == StreamInv /\ RetiredInv /\ [Next]_vars => RetiredInv'
<1> SUFFICES ASSUME StreamInv, RetiredInv, [Next]_vars PROVE RetiredInv'
  OBVIOUS
<1>1. ASSUME NEW t \in Tabs, LifecycleStep(t) PROVE RetiredInv'
  BY <1>1, LifecycleRetired DEF StreamInv
<1>2. ASSUME NEW t \in Tabs, NEW j \in Jobs,
             StartJob(t, j) \/ Continue(t, j), ~Close(t, j)
      PROVE  RetiredInv'
  BY <1>2, JobRetired
<1>3. CASE UNCHANGED vars
  BY <1>3 DEF vars, lifecycle, session, history, RetiredInv
<1>4. QED BY <1>1, <1>2, <1>3 DEF Next, LifecycleStep

\* NoResurrection: a session that a page has retired runs in no page while
\* that page lives, even if removing its record failed (ReleaseIf keeps the
\* lock, handleSessionTerminated in src/ConnectionManager.ts).
THEOREM RetiredForGood == Spec => []NoResurrection
<1>1. Init => RetiredInv
  BY DEF Init, RetiredInv
<1>2. RetiredInv => NoResurrection
  BY DEF RetiredInv, NoResurrection
<1>3. QED BY <1>1, <1>2, StepRetired, StreamInvariant, PTL DEF Spec

\* Runner, for any assignment of keys to pages.
RunnerIn(f, k) ==
  IF \E t \in Tabs : f[t] = k THEN CHOOSE t \in Tabs : f[t] = k ELSE None

\* If a key has one runner at most, CHOOSE finds it.
LEMMA RunnerIs ==
  ASSUME NEW f, NEW k \in Keys,
         \A t, u \in Tabs : f[t] = k /\ f[u] = k => t = u
  PROVE  /\ \A t \in Tabs : f[t] = k => RunnerIn(f, k) = t
         /\ (\A t \in Tabs : f[t] # k) => RunnerIn(f, k) = None
<1>1. ASSUME NEW t \in Tabs, f[t] = k PROVE RunnerIn(f, k) = t
  <2>1. RunnerIn(f, k) = CHOOSE u \in Tabs : f[u] = k
    BY <1>1 DEF RunnerIn
  <2>2. \E u \in Tabs : f[u] = k
    BY <1>1
  <2>3. (CHOOSE u \in Tabs : f[u] = k) \in Tabs
        /\ f[CHOOSE u \in Tabs : f[u] = k] = k
    BY <2>2
  <2>4. QED BY <1>1, <2>1, <2>3
<1>2. QED BY <1>1 DEF RunnerIn

\* What a step may do to the live keys.
KeyMoves ==
  \/ key' = key
  \/ \E t \in Tabs : key' = [key EXCEPT ![t] = None]
  \/ \E t \in Tabs, k \in Keys :
       /\ key[t] = None
       /\ \A u \in Tabs : key[u] # k
       /\ key' = [key EXCEPT ![t] = k]

\* Every step moves keys as KeyMoves says, and none while it uses a number.
LEMMA StepMovesKeys ==
  ASSUME StreamInv, [Next]_vars
  PROVE  /\ KeyMoves
         /\ wire' # wire \/ acted' # acted => key' = key
<1>1. CASE \E t \in Tabs : RestoreDone(t)
  <2>1. PICK t \in Tabs : RestoreDone(t)
    BY <1>1
  <2>2. pend[t] \in Record /\ key[t] = None
    BY <2>1 DEF RestoreDone, StreamInv, TypeOK, PageInv
  <2>3. \A u \in Tabs : key[u] # pend[t].key
    BY <2>1 DEF RestoreDone, StreamInv, KeyInv
  <2>4. QED
    BY <2>1, <2>2, <2>3 DEF RestoreDone, SetSession, KeyMoves, Record
<1>2. CASE \E t \in Tabs, k \in Keys : PairDone(t, k)
  <2>1. PICK t \in Tabs, k \in Keys : PairDone(t, k)
    BY <1>2
  <2>2. key[t] = None /\ \A u \in Tabs : key[u] # k
    BY <2>1 DEF PairDone, StreamInv, PageInv, KeyInv, Unused
  <2>3. QED BY <2>1, <2>2 DEF PairDone, SetSession, KeyMoves
<1>3. CASE \E t \in Tabs : \/ Crash(t) \/ Disconnect(t) \/ Reset(t)
                           \/ RestoreRefresh(t) \/ PairBegin(t)
                           \/ PairBeginFails(t) \/ \E j \in Jobs : Close(t, j)
  BY <1>3
     DEF Crash, Disconnect, Reset, RestoreRefresh, PairBegin, PairBeginFails,
         Close, Retire, Invalidate, SetSession, KeyMoves, history
<1>4. CASE \E t \in Tabs, j \in Jobs :
             (StartJob(t, j) \/ Continue(t, j)) /\ ~Close(t, j)
  BY <1>4
     DEF StartJob, Continue, Crypto, Save, AfterSave, Reserve, Exhausted,
         Deliver, Authorize, Sealed, SealFails, Unsealed, UnsealFails,
         UnsealStale, SaveBegin, SaveStale, SaveExport, SaveExportFails,
         SaveWrite, SaveRefused, SaveWriteFails, SavedStale, SaveReturns, Emit,
         EmitFails, Acked, AckLost, Act, CloseStale, session, history, KeyMoves
<1>5. CASE \E t \in Tabs : \/ Open(t) \/ RestoreAsk(t) \/ PairAsk(t)
                           \/ RestoreFails(t) \/ PairReset(t)
                           \/ PairResetFails(t) \/ PairFails(t)
  BY <1>5
     DEF Open, RestoreAsk, PairAsk, RestoreFails, PairReset, PairResetFails,
         PairFails, session, KeyMoves, history
<1>6. CASE UNCHANGED vars
  BY <1>6 DEF vars, session, history, KeyMoves
<1>7. QED
  BY <1>1, <1>2, <1>3, <1>4, <1>5, <1>6
     DEF Next, Lifecycle, Restoring, Pairing, StartJob, Continue, AfterSave

\* The runners follow the keys: at most one key gets or loses its runner.
LEMMA RunnersMove ==
  ASSUME StreamInv, StreamInv', KeyMoves
  PROVE  LET run == [k \in Keys |-> Runner(k)]
         IN  \/ run' = run
             \/ \E k \in Keys : run[k] # None /\ run' = [run EXCEPT ![k] = None]
             \/ \E k \in Keys, t \in Tabs :
                  run[k] = None /\ run' = [run EXCEPT ![k] = t]
<1> DEFINE run == [k \in Keys |-> Runner(k)]
<1>1. /\ \A k \in Keys : Runner(k) = RunnerIn(key, k)
      /\ \A k \in Keys : Runner(k)' = RunnerIn(key', k)
  BY DEF Runner, RunnerIn
<1>2. key \in [Tabs -> Keys \cup {None}] /\ key' \in [Tabs -> Keys \cup {None}]
  BY DEF StreamInv, TypeOK
<1>3. ASSUME NEW k \in Keys
      PROVE  /\ \A t, u \in Tabs : key[t] = k /\ key[u] = k => t = u
             /\ \A t, u \in Tabs : key'[t] = k /\ key'[u] = k => t = u
  BY StreamAssumption DEF StreamInv, KeyInv, SingleRunner
<1>4. ASSUME NEW k \in Keys
      PROVE  /\ \A t \in Tabs : key[t] = k => Runner(k) = t
             /\ (\A t \in Tabs : key[t] # k) => Runner(k) = None
             /\ \A t \in Tabs : key'[t] = k => Runner(k)' = t
             /\ (\A t \in Tabs : key'[t] # k) => Runner(k)' = None
  BY <1>1, <1>3, RunnerIs
<1> HIDE DEF run
<1>5. CASE key' = key
  <2>1. \A k \in Keys : Runner(k)' = Runner(k)
    BY <1>1, <1>5
  <2>2. QED BY <2>1 DEF run
<1>6. ASSUME NEW t \in Tabs, NEW k \in Keys, key[t] = k,
             key' = [key EXCEPT ![t] = None]
      PROVE  run[k] # None /\ run' = [run EXCEPT ![k] = None]
  <2>1. Runner(k) = t
    BY <1>4, <1>6
  <2>2. Runner(k)' = None
    <3>1. ASSUME NEW u \in Tabs PROVE key'[u] # k
      BY <1>2, <1>3, <1>6, <3>1, StreamAssumption
    <3>2. QED BY <1>4, <3>1
  <2>3. ASSUME NEW h \in Keys, h # k PROVE Runner(h)' = Runner(h)
    <3>1. CASE \E u \in Tabs : key[u] = h
      BY <1>2, <1>4, <1>6, <2>3, <3>1
    <3>2. CASE \A u \in Tabs : key[u] # h
      BY <1>2, <1>4, <1>6, <2>3, <3>2, StreamAssumption
    <3>3. QED BY <3>1, <3>2
  <2>4. QED BY <2>1, <2>2, <2>3, StreamAssumption DEF run
<1>7. ASSUME NEW t \in Tabs, NEW k \in Keys, key[t] = None,
             \A u \in Tabs : key[u] # k, key' = [key EXCEPT ![t] = k]
      PROVE  run[k] = None /\ run' = [run EXCEPT ![k] = t]
  <2>1. Runner(k) = None /\ Runner(k)' = t
    BY <1>2, <1>4, <1>7
  <2>2. ASSUME NEW h \in Keys, h # k PROVE Runner(h)' = Runner(h)
    <3>1. CASE \E u \in Tabs : key[u] = h
      BY <1>2, <1>4, <1>7, <2>2, <3>1, StreamAssumption
    <3>2. CASE \A u \in Tabs : key[u] # h
      BY <1>2, <1>4, <1>7, <2>2, <3>2
    <3>3. QED BY <3>1, <3>2
  <2>3. QED BY <2>1, <2>2 DEF run
<1>8. CASE \E t \in Tabs : key' = [key EXCEPT ![t] = None]
  <2>1. PICK t \in Tabs : key' = [key EXCEPT ![t] = None]
    BY <1>8
  <2>2. CASE key[t] = None
    BY <1>2, <1>5, <2>1, <2>2
  <2>3. CASE key[t] # None
    <3>1. PICK k \in Keys : key[t] = k
      BY <1>2, <2>3
    <3>2. QED BY <1>6, <2>1, <3>1 DEF run
  <2>4. QED BY <2>2, <2>3
<1>9. CASE \E t \in Tabs, k \in Keys :
             /\ key[t] = None
             /\ \A u \in Tabs : key[u] # k
             /\ key' = [key EXCEPT ![t] = k]
  <2>1. PICK t \in Tabs, k \in Keys :
               /\ key[t] = None
               /\ \A u \in Tabs : key[u] # k
               /\ key' = [key EXCEPT ![t] = k]
    BY <1>9
  <2>2. run[k] = None /\ run' = [run EXCEPT ![k] = t]
    BY <1>7, <2>1
  <2>3. QED BY <2>2 DEF run
<1>10. QED BY <1>5, <1>8, <1>9 DEF KeyMoves, run

\* A step uses at most one number in either direction, above all before.
LEMMA StepUses ==
  ASSUME StreamInv, [Next]_vars
  PROVE  /\ \/ wire' = wire
            \/ \E t \in Tabs, n \in Counters :
                 /\ key[t] # None /\ key[t] \in Keys
                 /\ Below(wire[key[t]], n)
                 /\ wire' = [wire EXCEPT ![key[t]] = Append(@, n)]
         /\ \/ acted' = acted
            \/ \E t \in Tabs, n \in Counters :
                 /\ key[t] # None /\ key[t] \in Keys
                 /\ Below(acted[key[t]], n)
                 /\ acted' = [acted EXCEPT ![key[t]] = Append(@, n)]
<1>1. ASSUME NEW t \in Tabs, NEW j \in Jobs, Emit(t, j)
      PROVE  /\ key[t] # None /\ key[t] \in Keys
             /\ job[t][j].seq \in Counters
             /\ Below(wire[key[t]], job[t][j].seq)
             /\ wire' = [wire EXCEPT ![key[t]] = Append(@, job[t][j].seq)]
             /\ acted' = acted
  BY <1>1 DEF Emit, Saved, Current, StreamInv, TypeOK, Job, JobInv, SendOk
<1>2. ASSUME NEW t \in Tabs, NEW j \in Jobs, Act(t, j)
      PROVE  /\ key[t] # None /\ key[t] \in Keys
             /\ job[t][j].seq \in Counters
             /\ Below(acted[key[t]], job[t][j].seq)
             /\ acted' = [acted EXCEPT ![key[t]] = Append(@, job[t][j].seq)]
             /\ wire' = wire
  BY <1>2
     DEF Act, ActUpon, Saved, Current, StreamInv, TypeOK, Job, JobInv, RecvOk
<1>3. \/ \E t \in Tabs, j \in Jobs : Emit(t, j) \/ Act(t, j)
      \/ UNCHANGED <<wire, acted>>
  <2>1. ASSUME NEW t \in Tabs, Lifecycle(t) \/ Restoring(t) \/ Pairing(t)
        PROVE  UNCHANGED <<wire, acted>>
    BY <2>1
       DEF Lifecycle, Restoring, Pairing, Open, Crash, Disconnect, Reset,
           RestoreAsk, PairAsk, RestoreRefresh, RestoreFails, RestoreDone,
           PairReset, PairResetFails, PairBegin, PairBeginFails, PairFails,
           PairDone, history
  <2>2. ASSUME NEW t \in Tabs, NEW j \in Jobs, StartJob(t, j)
        PROVE  UNCHANGED <<wire, acted>>
    BY <2>2
       DEF StartJob, Reserve, Exhausted, Deliver, Authorize, history
  <2>3. ASSUME NEW t \in Tabs, NEW j \in Jobs,
               Continue(t, j), ~Emit(t, j), ~Act(t, j)
        PROVE  UNCHANGED <<wire, acted>>
    BY <2>3
       DEF Continue, Crypto, Save, AfterSave, Sealed, SealFails, Unsealed,
           UnsealFails, UnsealStale, SaveBegin, SaveStale, SaveExport,
           SaveExportFails, SaveWrite, SaveRefused, SaveWriteFails, SavedStale,
           SaveReturns, EmitFails, Acked, AckLost, Close, CloseStale, history
  <2>4. CASE UNCHANGED vars
    BY <2>4 DEF vars, history
  <2>5. QED BY <2>1, <2>2, <2>3, <2>4 DEF Next
<1>4. QED BY <1>1, <1>2, <1>3

\* The key of a live session has a runner.
LEMMA RunnerRuns ==
  ASSUME StreamInv, NEW t \in Tabs, key[t] \in Keys
  PROVE  Runner(key[t]) \in Tabs
<1>1. \E u \in Tabs : key[u] = key[t]
  OBVIOUS
<1>2. QED BY <1>1 DEF Runner

\* RefinesOutbound: outbound, the code implements a counter stream.  Each step
\* starts or stops one runner, uses one larger number, or does none of these.
THEOREM ImplementsOutbound == Spec => RefinesOutbound
<1> DEFINE run == [k \in Keys |-> Runner(k)]
<1>1. Init => Outbound!Init
  BY StreamAssumption DEF Init, Outbound!Init, Runner
<1>2. ASSUME StreamInv, StreamInv', [Next]_vars
      PROVE  [Outbound!Next]_<<run, wire>>
  <2> USE <1>2
  <2>1. CASE wire' = wire
    <3>1. \/ run' = run
          \/ \E k \in Keys : run[k] # None /\ run' = [run EXCEPT ![k] = None]
          \/ \E k \in Keys, t \in Tabs :
               run[k] = None /\ run' = [run EXCEPT ![k] = t]
      BY StepMovesKeys, RunnersMove
    <3>2. QED
      BY <2>1, <3>1 DEF Outbound!Next, Outbound!Start, Outbound!Stop
  <2>2. CASE wire' # wire
    <3>1. PICK t \in Tabs, n \in Counters :
             /\ key[t] # None /\ key[t] \in Keys
             /\ Below(wire[key[t]], n)
             /\ wire' = [wire EXCEPT ![key[t]] = Append(@, n)]
      BY <2>2, StepUses
    <3>2. run[key[t]] # None
      BY <3>1, RunnerRuns, StreamAssumption
    <3>3. run' = run
      BY <2>2, StepMovesKeys DEF Runner
    <3>4. Outbound!Use(key[t], n)
      BY <3>1, <3>2, <3>3 DEF Outbound!Use, Below
    <3>5. QED BY <3>1, <3>4 DEF Outbound!Next
  <2>3. QED BY <2>1, <2>2
<1>3. QED
  BY <1>1, <1>2, StreamInvariant, PTL
     DEF RefinesOutbound, Outbound!Spec, Outbound!vars, Spec

\* RefinesInbound: inbound, the code implements a counter stream too.
THEOREM ImplementsInbound == Spec => RefinesInbound
<1> DEFINE run == [k \in Keys |-> Runner(k)]
<1>1. Init => Inbound!Init
  BY StreamAssumption DEF Init, Inbound!Init, Runner
<1>2. ASSUME StreamInv, StreamInv', [Next]_vars
      PROVE  [Inbound!Next]_<<run, acted>>
  <2> USE <1>2
  <2>1. CASE acted' = acted
    <3>1. \/ run' = run
          \/ \E k \in Keys : run[k] # None /\ run' = [run EXCEPT ![k] = None]
          \/ \E k \in Keys, t \in Tabs :
               run[k] = None /\ run' = [run EXCEPT ![k] = t]
      BY StepMovesKeys, RunnersMove
    <3>2. QED
      BY <2>1, <3>1 DEF Inbound!Next, Inbound!Start, Inbound!Stop
  <2>2. CASE acted' # acted
    <3>1. PICK t \in Tabs, n \in Counters :
             /\ key[t] # None /\ key[t] \in Keys
             /\ Below(acted[key[t]], n)
             /\ acted' = [acted EXCEPT ![key[t]] = Append(@, n)]
      BY <2>2, StepUses
    <3>2. run[key[t]] # None
      BY <3>1, RunnerRuns, StreamAssumption
    <3>3. run' = run
      BY <2>2, StepMovesKeys DEF Runner
    <3>4. Inbound!Use(key[t], n)
      BY <3>1, <3>2, <3>3 DEF Inbound!Use, Below
    <3>5. QED BY <3>1, <3>4 DEF Inbound!Next
  <2>3. QED BY <2>1, <2>2
<1>3. QED
  BY <1>1, <1>2, StreamInvariant, PTL
     DEF RefinesInbound, Inbound!Spec, Inbound!vars, Spec
-----------------------------------------------------------------------------
(* GapFree: in the first page of a pairing the counters are in turn.         *)

\* A job of these states carries a number that was taken from the counter.
Holding == {"seal", "queued", "export", "write", "saved"}

\* A send carries the next number, the counter is one ahead of it.
SendTurn(x, s, w) ==
  x.kind = "send" =>
    /\ x.pc \in Holding => x.seq = Len(w) + 1 /\ s = Len(w) + 2
    /\ x.pc = "ack" => s = Len(w) + 1

\* So does a receive, once its frame has opened.
RecvTurn(x, r, a) ==
  x.kind = "recv" =>
    /\ x.pc = "unseal" => r = Len(a) + 1
    /\ x.pc \in Holding => x.seq = Len(a) + 1 /\ r = Len(a) + 2
    /\ x.pc # "ack"

\* While nobody sends the counter is in turn.  A number that is lost leaves a
\* teardown on the queue, behind which nobody sends.
SendsInTurn(t) ==
  /\ QueueFree(t, "send") => send[t] = Len(wire[key[t]]) + 1
  /\ \A j \in Jobs :
       Current(t, j) => SendTurn(job[t][j], send[t], wire[key[t]])

ReceivesInTurn(t) ==
  /\ QueueFree(t, "recv") => recv[t] = Len(acted[key[t]]) + 1
  /\ \A j \in Jobs :
       Current(t, j) => RecvTurn(job[t][j], recv[t], acted[key[t]])

TurnInv ==
  /\ GapFree
  /\ \A t \in Tabs :
       key[t] # None /\ life[key[t]] = "first" =>
         SendsInTurn(t) /\ ReceivesInTurn(t)

\* Appending the next number leaves no gap.
LEMMA AppendInTurn ==
  ASSUME NEW s \in Seq(Counters), NEW n \in Counters, n = Len(s) + 1,
         \A i \in DOMAIN s : s[i] = i
  PROVE  /\ \A i \in DOMAIN Append(s, n) : Append(s, n)[i] = i
         /\ Len(Append(s, n)) = Len(s) + 1
  OBVIOUS

\* A page whose session, jobs and history are left alone stays in turn.
LEMMA SameTurn ==
  ASSUME NEW u \in Tabs, SendsInTurn(u), ReceivesInTurn(u),
         key'[u] = key[u], send'[u] = send[u], recv'[u] = recv[u],
         job'[u] = job[u], wire'[key[u]] = wire[key[u]],
         acted'[key[u]] = acted[key[u]]
  PROVE  SendsInTurn(u)' /\ ReceivesInTurn(u)'
  BY DEF SendsInTurn, ReceivesInTurn, QueueFree, Current

\* Steps that start, end or hand over sessions keep TurnInv: a session that is
\* restored is no longer the first of its key.
LEMMA LifecycleTurn ==
  ASSUME StreamInv, TurnInv, NEW t \in Tabs, LifecycleStep(t)
  PROVE  TurnInv'
<1> USE DEF StreamInv
<1>1. UNCHANGED <<wire, acted>>
  BY DEF LifecycleStep, Lifecycle, Restoring, Pairing, Open, Crash, Disconnect,
         Reset, RestoreAsk, PairAsk, RestoreRefresh, RestoreFails, RestoreDone,
         PairReset, PairResetFails, PairBegin, PairBeginFails, PairFails,
         PairDone, Close, history
<1>2. ASSUME NEW u \in Tabs \ {t}
      PROVE  /\ key'[u] = key[u] /\ send'[u] = send[u] /\ recv'[u] = recv[u]
             /\ job'[u] = job[u]
  <2>1. CASE Lifecycle(t)
    BY <2>1 DEF TypeOK, Lifecycle, Open, Crash, Disconnect, Reset, RestoreAsk,
                PairAsk, Retire, Invalidate, SetSession, session
  <2>2. CASE Restoring(t)
    BY <2>2 DEF TypeOK, Restoring, RestoreRefresh, RestoreFails, RestoreDone,
                SetSession, session
  <2>3. CASE Pairing(t)
    <3>1. CASE PairBegin(t) \/ PairBeginFails(t)
      BY <3>1 DEF TypeOK, PairBegin, PairBeginFails, Invalidate, SetSession
    <3>2. CASE \E k \in Keys : PairDone(t, k)
      BY <3>2 DEF TypeOK, PairDone, SetSession
    <3>3. CASE PairReset(t) \/ PairResetFails(t) \/ PairFails(t)
      BY <3>3 DEF PairReset, PairResetFails, PairFails, session
    <3>4. QED BY <2>3, <3>1, <3>2, <3>3 DEF Pairing
  <2>4. CASE \E j \in Jobs : Close(t, j)
    BY <2>4 DEF TypeOK, Close, EndJob, SetJob, Retire, Invalidate, SetSession
  <2>5. QED BY <2>1, <2>2, <2>3, <2>4 DEF LifecycleStep
<1>3. ASSUME NEW u \in Tabs \ {t}, key'[u] # None, life'[key'[u]] = "first",
             life[key[u]] = "first"
      PROVE  SendsInTurn(u)' /\ ReceivesInTurn(u)'
  BY <1>1, <1>2, <1>3, SameTurn DEF TurnInv
<1>4. CASE RestoreDone(t)
  <2>1. pend[t] \in Record /\ pend[t].key \in Keys
    BY <1>4 DEF RestoreDone, PageInv, TypeOK, Record
  <2>2. /\ key'[t] = pend[t].key
        /\ life' = [life EXCEPT ![pend[t].key] = "restored"]
    BY <1>4 DEF RestoreDone, SetSession, TypeOK
  <2>3. \A k \in Keys : life'[k] = "first" => life[k] = "first"
    BY <2>1, <2>2 DEF TypeOK
  <2>4. life'[key'[t]] = "restored"
    BY <2>1, <2>2 DEF TypeOK
  <2>5. GapFree'
    BY <1>1, <2>3 DEF TurnInv, GapFree
  <2>6. \A u \in Tabs \ {t} : key[u] # None => key[u] \in Keys
    BY DEF TypeOK
  <2>7. QED BY <1>2, <1>3, <2>3, <2>4, <2>5, <2>6 DEF TurnInv
<1>5. CASE \E k \in Keys : PairDone(t, k)
  <2>1. PICK k \in Keys : PairDone(t, k)
    BY <1>5
  <2>2. wire[k] = <<>> /\ acted[k] = <<>> /\ (\A u \in Tabs : key[u] # k)
        /\ \A u \in Tabs, j \in Jobs : job[u][j].key # k
    BY <2>1 DEF PairDone, KeyInv, Unused
  <2>3. /\ life' = [life EXCEPT ![k] = "first"]
        /\ key'[t] = k /\ send'[t] = 1 /\ recv'[t] = 1 /\ job' = job
    BY <2>1 DEF PairDone, SetSession, TypeOK
  <2>4. GapFree'
    BY <1>1, <2>2, <2>3 DEF TurnInv, GapFree, TypeOK
  <2>5. SendsInTurn(t)' /\ ReceivesInTurn(t)'
    BY <1>1, <2>2, <2>3 DEF SendsInTurn, ReceivesInTurn, Current
  <2>6. \A u \in Tabs \ {t} : key[u] # None => life'[key[u]] = life[key[u]]
    BY <2>2, <2>3 DEF TypeOK
  <2>7. QED BY <1>2, <1>3, <2>4, <2>5, <2>6 DEF TurnInv
<1>6. CASE ~RestoreDone(t) /\ ~\E k \in Keys : PairDone(t, k)
  <2>1. life' = life
    BY <1>6 DEF LifecycleStep, Lifecycle, Restoring, Pairing, Open, Crash,
         Disconnect, Reset, RestoreAsk, PairAsk, RestoreRefresh, RestoreFails,
         PairReset, PairResetFails, PairBegin, PairBeginFails, PairFails, Close,
         history
  <2>2. \/ key'[t] = None
        \/ /\ key'[t] = key[t] /\ send'[t] = send[t] /\ recv'[t] = recv[t]
           /\ job'[t] = job[t]
    BY <1>6 DEF TypeOK, LifecycleStep, Lifecycle, Restoring, Pairing, Open,
         Crash, Disconnect, Reset, RestoreAsk, PairAsk, RestoreRefresh,
         RestoreFails, PairReset, PairResetFails, PairBegin, PairBeginFails,
         PairFails, Close, Retire, Invalidate, SetSession, session
  <2>3. GapFree'
    BY <1>1, <2>1 DEF TurnInv, GapFree
  <2>4. ASSUME key'[t] # None, life'[key'[t]] = "first"
        PROVE  SendsInTurn(t)' /\ ReceivesInTurn(t)'
    BY <1>1, <2>1, <2>2, <2>4, SameTurn DEF TurnInv
  <2>5. QED BY <1>2, <1>3, <2>1, <2>3, <2>4 DEF TurnInv
<1>7. QED BY <1>4, <1>5, <1>6

\* A step of job j that leaves the counter and what was emitted alone keeps
\* the sends in turn if the queue is not left with a number lost.
LEMMA SendsKept ==
  ASSUME NEW t \in Tabs, NEW j \in Jobs, Alone(t, j), SendsInTurn(t),
         key'[t] = key[t], send'[t] = send[t],
         wire'[key[t]] = wire[key[t]],
         Current(t, j)' => SendTurn(job'[t][j], send[t], wire[key[t]]),
         Current(t, j) /\ job[t][j].kind = "send" =>
           \/ Current(t, j)' /\ job'[t][j].kind = "send"
           \/ send[t] = Len(wire[key[t]]) + 1
  PROVE  SendsInTurn(t)'
<1>1. \A g \in Jobs \ {j} : job'[t][g] = job[t][g]
  BY DEF Alone
<1>2. QED BY <1>1 DEF SendsInTurn, QueueFree, Current

\* So it does with the receives.
LEMMA ReceivesKept ==
  ASSUME NEW t \in Tabs, NEW j \in Jobs, Alone(t, j), ReceivesInTurn(t),
         key'[t] = key[t], recv'[t] = recv[t],
         acted'[key[t]] = acted[key[t]],
         Current(t, j)' => RecvTurn(job'[t][j], recv[t], acted[key[t]]),
         Current(t, j) /\ job[t][j].kind = "recv" =>
           \/ Current(t, j)' /\ job'[t][j].kind = "recv"
           \/ recv[t] = Len(acted[key[t]]) + 1
  PROVE  ReceivesInTurn(t)'
<1>1. \A g \in Jobs \ {j} : job'[t][g] = job[t][g]
  BY DEF Alone
<1>2. QED BY <1>1 DEF ReceivesInTurn, QueueFree, Current

\* No counter moves, nothing is emitted or acted upon.
Still == UNCHANGED <<key, send, recv, wire, acted>>

\* A job that holds its number while it moves on keeps its page in turn.
LEMMA CarriedTurn ==
  ASSUME NEW t \in Tabs, NEW j \in Jobs, SendsInTurn(t), ReceivesInTurn(t), Still,
         Alone(t, j), Current(t, j), job'[t][j].key = job[t][j].key,
         job'[t][j].kind = job[t][j].kind, job'[t][j].seq = job[t][j].seq,
         job[t][j].pc \in Holding, job'[t][j].pc \in Holding
  PROVE  SendsInTurn(t)' /\ ReceivesInTurn(t)'
<1>1. SendTurn(job[t][j], send[t], wire[key[t]])
      /\ RecvTurn(job[t][j], recv[t], acted[key[t]])
  BY DEF SendsInTurn, ReceivesInTurn
<1>2. Current(t, j)'
  BY DEF Current, Still
<1>3. SendTurn(job'[t][j], send[t], wire[key[t]])
  BY <1>1 DEF SendTurn, Holding
<1>4. RecvTurn(job'[t][j], recv[t], acted[key[t]])
  BY <1>1 DEF RecvTurn, Holding
<1>5. SendsInTurn(t)'
  BY <1>2, <1>3, SendsKept DEF Still
<1>6. ReceivesInTurn(t)'
  BY <1>2, <1>4, ReceivesKept DEF Still
<1>7. QED BY <1>5, <1>6

\* So does a job that ends without a number: it is of a retired session, it is a
\* save, its number has been used, or it has not taken one.
LEMMA EndedTurn ==
  ASSUME StreamInv, NEW t \in Tabs, NEW j \in Jobs, SendsInTurn(t),
         ReceivesInTurn(t), Still, key[t] # None, Ended(t, j),
         \/ ~Current(t, j)
         \/ job[t][j].kind = "save"
         \/ job[t][j].pc \in {"ack", "unseal"}
  PROVE  SendsInTurn(t)' /\ ReceivesInTurn(t)'
<1>1. ~Current(t, j)'
  BY DEF Current, Ended, Idle, Still
<1>2. Current(t, j) => SendTurn(job[t][j], send[t], wire[key[t]])
                       /\ RecvTurn(job[t][j], recv[t], acted[key[t]])
  BY DEF SendsInTurn, ReceivesInTurn
<1>3. Current(t, j) /\ job[t][j].pc = "unseal" => job[t][j].kind = "recv"
  BY DEF StreamInv, JobInv, RecvOk
<1>4. Current(t, j) /\ job[t][j].kind = "send" => send[t] = Len(wire[key[t]]) + 1
  BY <1>2, <1>3 DEF SendTurn
<1>5. Current(t, j) /\ job[t][j].kind = "recv" => recv[t] = Len(acted[key[t]]) + 1
  BY <1>2, <1>3 DEF RecvTurn
<1>6. SendsInTurn(t)'
  BY <1>1, <1>4, SendsKept DEF Still, Ended
<1>7. ReceivesInTurn(t)'
  BY <1>1, <1>5, ReceivesKept DEF Still, Ended
<1>8. QED BY <1>6, <1>7

\* So does a job that begins without a number of its own, unless it takes the
\* place of a send or a receive of the session.
LEMMA BegunTurn ==
  ASSUME NEW t \in Tabs, NEW j \in Jobs, SendsInTurn(t), ReceivesInTurn(t), Still,
         NEW kind, NEW p, NEW n, Begun(t, j, kind, p, n), key[t] # None,
         Current(t, j) => job[t][j].kind \in {kind, "none", "save"},
         \/ p = "closing"
         \/ kind = "save"
         \/ kind = "recv" /\ p = "unseal" /\ QueueFree(t, "recv")
  PROVE  SendsInTurn(t)' /\ ReceivesInTurn(t)'
<1>1. Alone(t, j) /\ Current(t, j)' /\ job'[t][j].kind = kind /\ job'[t][j].pc = p
  BY DEF Begun, Current, Still
<1>2. SendTurn(job'[t][j], send[t], wire[key[t]])
  BY <1>1 DEF SendTurn, Holding
<1>3. RecvTurn(job'[t][j], recv[t], acted[key[t]])
  BY <1>1 DEF RecvTurn, Holding, ReceivesInTurn
<1>4. SendsInTurn(t)'
  BY <1>1, <1>2, SendsKept DEF Still
<1>5. ReceivesInTurn(t)'
  BY <1>1, <1>3, ReceivesKept DEF Still
<1>6. QED BY <1>4, <1>5

\* A task that gives up leaves a teardown on its queue, if its session lives.
LEMMA GaveUpTurn ==
  ASSUME StreamInv, NEW t \in Tabs, NEW j \in Jobs, SendsInTurn(t),
         ReceivesInTurn(t), Still, key[t] # None, GiveUp(t, j)
  PROVE  SendsInTurn(t)' /\ ReceivesInTurn(t)'
<1>1. GaveUp(t, j)
  BY GiveUpGaveUp DEF StreamInv
<1>2. CASE Current(t, j)
  BY <1>1, <1>2, BegunTurn DEF GaveUp
<1>3. CASE ~Current(t, j)
  BY <1>1, <1>3, EndedTurn DEF GaveUp
<1>4. QED BY <1>2, <1>3

\* A send that begins takes the next number.
LEMMA ReserveTurn ==
  ASSUME StreamInv, NEW t \in Tabs, NEW j \in Jobs, SendsInTurn(t),
         ReceivesInTurn(t), Reserve(t, j)
  PROVE  SendsInTurn(t)' /\ ReceivesInTurn(t)'
<1>1. /\ key[t] # None /\ key[t] \in Keys /\ job[t][j] = Idle
      /\ QueueFree(t, "send")
      /\ send[t] \in Counters /\ send'[t] = send[t] + 1
      /\ UNCHANGED <<key, recv, wire, acted>>
  BY DEF Reserve, CanStart, StreamInv, TypeOK, history
<1>2. Begun(t, j, "send", "seal", send[t])
  BY <1>1, NewJobBegins DEF Reserve, StreamInv, JobStates
<1>3. wire[key[t]] \in Seq(Counters) /\ send[t] = Len(wire[key[t]]) + 1
  BY <1>1 DEF SendsInTurn, StreamInv, TypeOK
<1>4. Len(wire[key[t]]) \in Nat
  BY <1>3
<1>5. Current(t, j)' /\ job'[t][j].kind = "send"
  BY <1>1, <1>2 DEF Begun, Current
<1>6. ~Current(t, j)
  BY <1>1 DEF Current, Idle
<1>7. SendTurn(job'[t][j], send'[t], wire[key[t]])
  BY <1>1, <1>2, <1>3, <1>4 DEF SendTurn, Holding, Begun
<1>8. \A g \in Jobs \ {j} : Current(t, g)' => job'[t][g].kind # "send"
  BY <1>1, <1>2 DEF QueueFree, Current, Begun, Alone
<1>9. SendsInTurn(t)'
  BY <1>1, <1>5, <1>7, <1>8 DEF SendsInTurn, QueueFree, SendTurn
<1>10. RecvTurn(job'[t][j], recv[t], acted[key[t]])
  BY <1>5 DEF RecvTurn
<1>11. ReceivesInTurn(t)'
  BY <1>1, <1>2, <1>6, <1>10, ReceivesKept DEF Begun
<1>12. QED BY <1>9, <1>11

\* A frame that has opened takes the next number.
LEMMA UnsealedTurn ==
  ASSUME StreamInv, NEW t \in Tabs, NEW j \in Jobs, SendsInTurn(t),
         ReceivesInTurn(t), Unsealed(t, j)
  PROVE  SendsInTurn(t)' /\ ReceivesInTurn(t)'
<1>1. /\ job[t][j].pc = "unseal" /\ job[t][j].seq # 0
      /\ Current(t, j) /\ key[t] # None /\ key[t] \in Keys
      /\ recv[t] \in Counters /\ recv'[t] = recv[t] + 1
      /\ UNCHANGED <<key, send, wire, acted>>
  BY DEF Unsealed, StreamInv, TypeOK, Current, history
<1>2. job[t][j].kind = "recv" /\ job[t][j].seq = recv[t]
  BY <1>1 DEF StreamInv, JobInv, RecvOk
<1>3. Moved(t, j, "queued")
  BY MoveJobMoves DEF Unsealed, StreamInv, JobStates
<1>4. acted[key[t]] \in Seq(Counters) /\ recv[t] = Len(acted[key[t]]) + 1
  BY <1>1, <1>2 DEF ReceivesInTurn, RecvTurn, StreamInv, TypeOK
<1>5. Len(acted[key[t]]) \in Nat
  BY <1>4
<1>6. Current(t, j)' /\ job'[t][j].kind = "recv"
  BY <1>1, <1>2, <1>3 DEF Moved, Current
<1>7. RecvTurn(job'[t][j], recv'[t], acted[key[t]])
  BY <1>1, <1>2, <1>3, <1>4, <1>5 DEF RecvTurn, Holding, Moved
<1>8. \A g \in Jobs \ {j} : Current(t, g)' => job'[t][g].kind # "recv"
  BY <1>1, <1>2, <1>3 DEF StreamInv, PairInv, Compatible, Current, Moved, Alone
<1>9. ReceivesInTurn(t)'
  BY <1>1, <1>6, <1>7, <1>8 DEF ReceivesInTurn, QueueFree, RecvTurn
<1>10. SendTurn(job'[t][j], send[t], wire[key[t]])
  BY <1>6 DEF SendTurn
<1>11. SendsInTurn(t)'
  BY <1>1, <1>2, <1>3, <1>6, <1>10, SendsKept DEF Moved
<1>12. QED BY <1>9, <1>11

\* A message that is emitted is the next one.
LEMMA EmitTurn ==
  ASSUME StreamInv, NEW t \in Tabs, NEW j \in Jobs, SendsInTurn(t),
         ReceivesInTurn(t), Emit(t, j), \A i \in DOMAIN wire[key[t]] : wire[key[t]][i] = i
  PROVE  /\ SendsInTurn(t)' /\ ReceivesInTurn(t)'
         /\ \A i \in DOMAIN wire'[key[t]] : wire'[key[t]][i] = i
<1> DEFINE x == job[t][j]
           w == wire[key[t]]
<1>1. /\ x \in Job /\ x.pc = "saved" /\ x.kind = "send" /\ x.seq \in Counters
      /\ Current(t, j) /\ key[t] # None /\ key[t] \in Keys
      /\ w \in Seq(Counters) /\ wire'[key[t]] = Append(w, x.seq)
      /\ UNCHANGED <<key, send, recv, acted>>
  BY DEF Emit, Saved, StreamInv, TypeOK, Current, Job, session
<1>2. x.seq = Len(w) + 1 /\ send[t] = Len(w) + 2
  BY <1>1 DEF SendsInTurn, SendTurn, Holding
<1>3. Len(w) \in Nat
  BY <1>1
<1> HIDE DEF w
<1>4. /\ \A i \in DOMAIN Append(w, x.seq) : Append(w, x.seq)[i] = i
      /\ Len(Append(w, x.seq)) = Len(w) + 1
  BY <1>1, <1>2, AppendInTurn DEF w
<1>5. Moved(t, j, "ack")
  BY MoveJobMoves DEF Emit, StreamInv, JobStates
<1>6. Current(t, j)' /\ job'[t][j].kind = "send" /\ job'[t][j].pc = "ack"
  BY <1>1, <1>5 DEF Moved, Current
<1>7. SendTurn(job'[t][j], send[t], Append(w, x.seq))
  BY <1>2, <1>3, <1>4, <1>6 DEF SendTurn, Holding
<1>8. \A g \in Jobs \ {j} : Current(t, g)' => job'[t][g].kind # "send"
  BY <1>1, <1>5 DEF StreamInv, PairInv, Compatible, Current, Moved, Alone
<1>9. SendsInTurn(t)'
  BY <1>1, <1>6, <1>7, <1>8 DEF SendsInTurn, QueueFree, SendTurn
<1>10. RecvTurn(job'[t][j], recv[t], acted[key[t]])
  BY <1>6 DEF RecvTurn
<1>11. ReceivesInTurn(t)'
  BY <1>1, <1>5, <1>6, <1>10, ReceivesKept DEF Moved
<1>12. QED BY <1>1, <1>4, <1>9, <1>11

\* So is a message that is acted upon.
LEMMA ActTurn ==
  ASSUME StreamInv, NEW t \in Tabs, NEW j \in Jobs, SendsInTurn(t),
         ReceivesInTurn(t), Act(t, j), \A i \in DOMAIN acted[key[t]] : acted[key[t]][i] = i
  PROVE  /\ SendsInTurn(t)' /\ ReceivesInTurn(t)'
         /\ \A i \in DOMAIN acted'[key[t]] : acted'[key[t]][i] = i
<1> DEFINE x == job[t][j]
           a == acted[key[t]]
<1>1. /\ x \in Job /\ x.pc = "saved" /\ x.kind = "recv" /\ x.seq \in Counters
      /\ Current(t, j) /\ key[t] # None /\ key[t] \in Keys
      /\ a \in Seq(Counters) /\ acted'[key[t]] = Append(a, x.seq)
      /\ UNCHANGED <<key, send, recv, wire>>
  BY DEF Act, ActUpon, Saved, StreamInv, TypeOK, Current, Job, session
<1>2. x.seq = Len(a) + 1 /\ recv[t] = Len(a) + 2
  BY <1>1 DEF ReceivesInTurn, RecvTurn, Holding
<1>3. Len(a) \in Nat
  BY <1>1
<1> HIDE DEF a
<1>4. /\ \A i \in DOMAIN Append(a, x.seq) : Append(a, x.seq)[i] = i
      /\ Len(Append(a, x.seq)) = Len(a) + 1
  BY <1>1, <1>2, AppendInTurn DEF a
<1>5. \/ Ended(t, j)
      \/ Begun(t, j, "save", "queued", 0)
      \/ Begun(t, j, "recv", "closing", 0)
  BY <1>1, EndJobEnds, NewJobBegins, StreamAssumption
     DEF Act, StreamInv, JobStates, Counters
<1>6. Alone(t, j) /\ job'[t][j].kind # "send"
      /\ (job'[t][j].kind = "recv" => job'[t][j].pc = "closing")
  BY <1>5 DEF Ended, Begun, Idle
<1>7. \A g \in Jobs \ {j} : Current(t, g)' => job'[t][g].kind # "recv"
  BY <1>1, <1>6 DEF StreamInv, PairInv, Compatible, Current, Alone
<1>8. recv'[t] = Len(Append(a, x.seq)) + 1
  BY <1>1, <1>2, <1>3, <1>4
<1>9. RecvTurn(job'[t][j], recv[t], Append(a, x.seq))
  BY <1>6 DEF RecvTurn, Holding
<1>10. ReceivesInTurn(t)'
  BY <1>1, <1>7, <1>8, <1>9 DEF ReceivesInTurn, QueueFree, RecvTurn
<1>11. SendsInTurn(t)'
  BY <1>1, <1>6, SendsKept DEF SendTurn
<1>12. QED BY <1>1, <1>4, <1>10, <1>11

\* The work of a session keeps TurnInv: only the page that runs a key uses
\* its numbers.
LEMMA JobTurn ==
  ASSUME StreamInv, TurnInv, NEW t \in Tabs, NEW j \in Jobs,
         StartJob(t, j) \/ Continue(t, j), ~Close(t, j)
  PROVE  TurnInv'
<1> DEFINE InTurn == SendsInTurn(t) /\ ReceivesInTurn(t)
           First == key[t] # None /\ life[key[t]] = "first"
<1>1. UNCHANGED <<key, life>>
  BY DEF StartJob, Continue, Crypto, Save, AfterSave, Reserve, Exhausted,
         Deliver, Authorize, Sealed, SealFails, Unsealed, UnsealFails,
         UnsealStale, SaveBegin, SaveStale, SaveExport, SaveExportFails,
         SaveWrite, SaveRefused, SaveWriteFails, SavedStale, SaveReturns, Emit,
         EmitFails, Acked, AckLost, Act, CloseStale, session, history
<1>2. ASSUME NEW u \in Tabs \ {t}
      PROVE  send'[u] = send[u] /\ recv'[u] = recv[u] /\ job'[u] = job[u]
  BY DEF StreamInv, TypeOK, StartJob, Continue, Crypto, Save, AfterSave,
         Reserve, Exhausted, Deliver, Authorize, Sealed, SealFails, Unsealed,
         UnsealFails, UnsealStale, SaveBegin, SaveStale, SaveExport,
         SaveExportFails, SaveWrite, SaveRefused, SaveWriteFails, SavedStale,
         SaveReturns, Emit, EmitFails, Acked, AckLost, Act, CloseStale,
         MoveJob, EndJob, GiveUp, SetJob, session
<1>3. ASSUME NEW k \in Keys, wire'[k] # wire[k] \/ acted'[k] # acted[k]
      PROVE  k = key[t]
  BY <1>3
     DEF StreamInv, TypeOK, StartJob, Continue, Crypto, Save, AfterSave,
         Reserve, Exhausted, Deliver, Authorize, Sealed, SealFails, Unsealed,
         UnsealFails, UnsealStale, SaveBegin, SaveStale, SaveExport,
         SaveExportFails, SaveWrite, SaveRefused, SaveWriteFails, SavedStale,
         SaveReturns, Emit, EmitFails, Acked, AckLost, Act, ActUpon,
         CloseStale, session, history
<1>4. ASSUME First, InTurn
      PROVE  /\ InTurn'
             /\ \A i \in DOMAIN wire'[key[t]] : wire'[key[t]][i] = i
             /\ \A i \in DOMAIN acted'[key[t]] : acted'[key[t]][i] = i
  <2>1. /\ key[t] # None /\ key[t] \in Keys
        /\ \A i \in DOMAIN wire[key[t]] : wire[key[t]][i] = i
        /\ \A i \in DOMAIN acted[key[t]] : acted[key[t]][i] = i
    BY <1>4 DEF TurnInv, GapFree, StreamInv, TypeOK
  <2>2. CASE Emit(t, j)
    BY <1>4, <2>1, <2>2, EmitTurn DEF Emit
  <2>3. CASE Act(t, j)
    BY <1>4, <2>1, <2>3, ActTurn DEF Act
  <2>4. CASE Reserve(t, j)
    BY <1>4, <2>1, <2>4, ReserveTurn DEF Reserve, history
  <2>5. CASE Unsealed(t, j)
    BY <1>4, <2>1, <2>5, UnsealedTurn DEF Unsealed, history
  <2>6. ASSUME Still, InTurn'
        PROVE  /\ InTurn'
               /\ \A i \in DOMAIN wire'[key[t]] : wire'[key[t]][i] = i
               /\ \A i \in DOMAIN acted'[key[t]] : acted'[key[t]][i] = i
    BY <2>1, <2>6 DEF Still
  <2>7. CASE \/ Exhausted(t, j) \/ Authorize(t, j)
             \/ \E n \in Counters : Deliver(t, j, n)
    <3>1. Still /\ ~Current(t, j)
      BY <2>1, <2>7 DEF Exhausted, Authorize, Deliver, CanStart, Current, Idle,
                        Still, session, history
    <3>2. CASE Exhausted(t, j)
      <4>1. Begun(t, j, "send", "closing", 0)
        BY <2>1, <3>2, NewJobBegins, StreamAssumption
           DEF Exhausted, StreamInv, JobStates, Counters
      <4>2. QED BY <1>4, <2>1, <2>6, <3>1, <4>1, BegunTurn
    <3>3. CASE Authorize(t, j)
      <4>1. Begun(t, j, "save", "queued", 0)
        BY <2>1, <3>3, NewJobBegins, StreamAssumption
           DEF Authorize, StreamInv, JobStates, Counters
      <4>2. QED BY <1>4, <2>1, <2>6, <3>1, <4>1, BegunTurn
    <3>4. CASE \E n \in Counters : Deliver(t, j, n)
      <4>1. PICK n \in Counters : Deliver(t, j, n)
        BY <3>4
      <4> DEFINE m == IF Opens(t, n) THEN n ELSE 0
      <4>2. m \in Counters /\ SetJob(t, j, NewJob(t, "recv", "unseal", m))
            /\ QueueFree(t, "recv")
        BY <4>1, StreamAssumption DEF Deliver, CanStart, Counters
      <4> HIDE DEF m
      <4>3. Begun(t, j, "recv", "unseal", m)
        BY <2>1, <4>2, NewJobBegins DEF StreamInv, JobStates
      <4>4. QED BY <1>4, <2>1, <2>6, <3>1, <4>2, <4>3, BegunTurn
    <3>5. QED BY <2>7, <3>2, <3>3, <3>4
  <2>8. CASE \/ Sealed(t, j) \/ SaveBegin(t, j)
             \/ SaveExport(t, j) \/ SaveWrite(t, j)
    <3>1. Still
      BY <2>8 DEF Sealed, SaveBegin, SaveExport, SaveWrite, Still, session,
                  history
    <3>2. CASE Sealed(t, j) /\ ~Current(t, j)
      <4>1. Ended(t, j)
        BY <3>2, EndJobEnds DEF Sealed, StreamInv
      <4>2. QED BY <1>4, <2>1, <2>6, <3>1, <3>2, <4>1, EndedTurn
    <3>3. CASE SaveBegin(t, j) /\ ~(lock = t /\ ~broken[t])
      <4>1. GiveUp(t, j)
        BY <3>3 DEF SaveBegin
      <4>2. QED BY <1>4, <2>1, <2>6, <3>1, <4>1, GaveUpTurn
    <3>4. CASE \/ Sealed(t, j) /\ Current(t, j)
               \/ SaveBegin(t, j) /\ lock = t /\ ~broken[t]
               \/ SaveExport(t, j) \/ SaveWrite(t, j)
      <4>1. Current(t, j) /\ job[t][j] \in Job /\ job[t][j].pc \in Holding
        BY <3>4 DEF Sealed, SaveBegin, SaveExport, SaveWrite, MayWrite, Holding,
                    StreamInv, TypeOK
      <4>2. PICK r : /\ SetJob(t, j, r) /\ r \in Job /\ r.pc \in Holding
                     /\ r.key = job[t][j].key /\ r.kind = job[t][j].kind
                     /\ r.seq = job[t][j].seq
        <5>1. CASE Sealed(t, j) \/ SaveBegin(t, j)
          <6> DEFINE r(p) == [job[t][j] EXCEPT !.pc = p]
          <6>1. \E p \in {"queued", "export"} : SetJob(t, j, r(p))
            <7>1. CASE Sealed(t, j)
              <8>1. SetJob(t, j, r("queued"))
                BY <4>1, <7>1 DEF Sealed, MoveJob
              <8>2. QED BY <8>1
            <7>2. CASE SaveBegin(t, j)
              <8>1. lock = t /\ ~broken[t]
                BY <3>4, <7>2
                   DEF Sealed, SaveBegin, SaveExport, SaveWrite
              <8>2. SetJob(t, j, r("export"))
                BY <7>2, <8>1 DEF SaveBegin, MoveJob
              <8>3. QED BY <8>2
            <7>3. QED BY <5>1, <7>1, <7>2
          <6>2. \A p \in {"queued", "export"} :
                  /\ r(p) \in Job /\ r(p).pc \in Holding
                  /\ r(p).key = job[t][j].key /\ r(p).kind = job[t][j].kind
                  /\ r(p).seq = job[t][j].seq
            BY <4>1 DEF Job, JobStates, Holding
          <6> HIDE DEF r
          <6>3. QED BY <6>1, <6>2
        <5>2. CASE SaveExport(t, j)
          <6> DEFINE r == [job[t][j] EXCEPT
                             !.pc = "write",
                             !.snap = [key |-> key[t], send |-> send[t],
                                       recv |-> recv[t]]]
          <6>1. r \in Job /\ r.pc \in Holding
                /\ r.key = job[t][j].key /\ r.kind = job[t][j].kind
                /\ r.seq = job[t][j].seq
            BY <2>1, <4>1 DEF Job, JobStates, Holding, Record, StreamInv, TypeOK
          <6>2. SetJob(t, j, r)
            BY <5>2 DEF SaveExport
          <6> HIDE DEF r
          <6>3. QED BY <6>1, <6>2
        <5>3. CASE SaveWrite(t, j)
          <6> DEFINE r == [job[t][j] EXCEPT !.pc = "saved", !.snap = None]
          <6>1. r \in Job /\ r.pc \in Holding
                /\ r.key = job[t][j].key /\ r.kind = job[t][j].kind
                /\ r.seq = job[t][j].seq
            BY <4>1 DEF Job, JobStates, Holding
          <6>2. SetJob(t, j, r)
            BY <5>3 DEF SaveWrite
          <6> HIDE DEF r
          <6>3. QED BY <6>1, <6>2
        <5>4. QED BY <3>4, <5>1, <5>2, <5>3
      <4>3. Alone(t, j) /\ job'[t][j] = r
        BY <4>2, SetJobAlone DEF StreamInv
      <4>4. InTurn'
        BY <1>4, <3>1, <4>1, <4>2, <4>3, CarriedTurn
      <4>5. QED BY <2>6, <3>1, <4>4
    <3>5. QED BY <2>8, <3>2, <3>3, <3>4
  <2>9. CASE Stops(t, j)
    <3>1. Still
      BY <2>9 DEF Stops, SealFails, UnsealFails, UnsealStale, SaveStale,
                  SaveExportFails, SaveRefused, SaveWriteFails, SavedStale,
                  SaveReturns, EmitFails, Acked, AckLost, CloseStale, Still,
                  session, history
    <3>2. CASE GiveUp(t, j)
      BY <1>4, <2>1, <2>6, <3>1, <3>2, GaveUpTurn
    <3>3. CASE ~GiveUp(t, j)
      <4>1. /\ EndJob(t, j)
            /\ \/ ~Current(t, j)
               \/ job[t][j].kind = "save"
               \/ job[t][j].pc \in {"ack", "unseal"}
        BY <2>9, <3>3
           DEF Stops, SealFails, UnsealFails, UnsealStale, SaveStale,
               SaveExportFails, SaveRefused, SaveWriteFails, SavedStale,
               SaveReturns, Saved, EmitFails, Acked, AckLost, CloseStale
      <4>2. Ended(t, j)
        BY <4>1, EndJobEnds DEF StreamInv
      <4>3. QED BY <1>4, <2>1, <2>6, <3>1, <4>1, <4>2, EndedTurn
    <3>4. QED BY <3>2, <3>3
  <2>10. QED BY <2>2, <2>3, <2>4, <2>5, <2>7, <2>8, <2>9
             DEF StartJob, Continue, Crypto, Save, AfterSave, Stops
<1>5. GapFree'
  <2>1. SUFFICES ASSUME NEW k \in Keys, life[k] = "first"
                 PROVE  /\ \A i \in DOMAIN wire'[k] : wire'[k][i] = i
                        /\ \A i \in DOMAIN acted'[k] : acted'[k][i] = i
    BY <1>1 DEF GapFree
  <2>2. CASE k = key[t]
    BY <1>4, <2>1, <2>2, StreamAssumption DEF TurnInv
  <2>3. CASE k # key[t]
    BY <1>3, <2>1, <2>3 DEF TurnInv, GapFree
  <2>4. QED BY <2>2, <2>3
<1>6. ASSUME NEW u \in Tabs \ {t}, key[u] # None, life[key[u]] = "first"
      PROVE  SendsInTurn(u)' /\ ReceivesInTurn(u)'
  <2>1. key[u] \in Keys /\ key[u] # key[t]
    BY <1>6 DEF StreamInv, TypeOK, KeyInv, SingleRunner
  <2>2. QED BY <1>1, <1>2, <1>3, <1>6, <2>1, SameTurn DEF TurnInv
<1>7. First => InTurn'
  BY <1>4 DEF TurnInv
<1>8. QED BY <1>1, <1>5, <1>6, <1>7 DEF TurnInv

\* Every step keeps TurnInv.
LEMMA StepTurn == StreamInv /\ TurnInv /\ [Next]_vars => TurnInv'
<1> SUFFICES ASSUME StreamInv, TurnInv, [Next]_vars PROVE TurnInv'
  OBVIOUS
<1>1. ASSUME NEW t \in Tabs, LifecycleStep(t) PROVE TurnInv'
  BY <1>1, LifecycleTurn
<1>2. ASSUME NEW t \in Tabs, NEW j \in Jobs,
             StartJob(t, j) \/ Continue(t, j), ~Close(t, j)
      PROVE  TurnInv'
  BY <1>2, JobTurn
<1>3. CASE UNCHANGED vars
  BY <1>3 DEF vars, lifecycle, session, history, TurnInv, GapFree, SendsInTurn,
              ReceivesInTurn, QueueFree, Current
<1>4. QED BY <1>1, <1>2, <1>3 DEF Next, LifecycleStep

\* The counters of the first page of a pairing are in turn (the queues and the
\* teardowns of src/ConnectionManager.ts around encryptMessage and
\* decryptMessage in src/KeyExchange.ts).
THEOREM TurnInvariant == Spec => []TurnInv
<1>1. Init => TurnInv
  BY DEF Init, TurnInv, GapFree
<1>2. QED BY <1>1, StepTurn, StreamInvariant, PTL DEF Spec

\* GapFree: in the first page of a pairing every number is emitted, and acted
\* upon, in its turn, whatever fails in between (the wallet takes no frame after
\* a gap; sendEncryptedNow and handleRelayMessage in src/ConnectionManager.ts).
THEOREM NoGaps == Spec => []GapFree
<1>1. TurnInv => GapFree
  BY DEF TurnInv
<1>2. QED BY <1>1, TurnInvariant, PTL
=============================================================================
