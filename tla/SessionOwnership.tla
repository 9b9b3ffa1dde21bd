-------------------------- MODULE SessionOwnership --------------------------
(***************************************************************************)
(* src/SessionOwnership.ts: exclusive ownership of one persisted AEAD      *)
(* session by one browser tab, through the Web Locks API.  Each tab runs   *)
(* one SessionOwnership object; its methods are asynchronous, so every     *)
(* await is a point where other calls of the same tab, the lock manager    *)
(* and other tabs may run.  An action is the code between two awaits.      *)
(***************************************************************************)
EXTENDS Naturals

CONSTANTS
  Tabs,         \* pages of one origin that share the lock name
  Callers,      \* concurrent acquire() calls one page may have pending
  None,         \* "no tab" / "no caller"
  MaxReleases   \* bound on the release() calls of a page lifetime

ASSUME OwnershipAssumption ==
  /\ None \notin Tabs
  /\ None \notin Callers
  /\ MaxReleases \in [Tabs -> Nat]

VARIABLES
  lock,       \* the browser's lock manager: the tab granted the lock
  gen,        \* ownershipGeneration
  owned,      \* the owned field
  request,    \* lockRequest: where the Web Locks request stands
  requestGen, \* the generation its callback captured (0 once it has run)
  fired,      \* the releaseLock resolver was called
  inFlight,   \* acquireInFlight, named by the call that started it
  draining,   \* releaseInFlight: where finishRelease() stands
  pc,         \* where each acquire() call stands
  callGen,    \* the generation each pending acquire() call captured
  wanted      \* history: acquire() was called since the last release()

vars == <<lock, gen, owned, request, requestGen, fired, inFlight, draining,
          pc, callGen, wanted>>

RequestStates ==
  {"none",     \* lockRequest is null
   "queued",   \* requested, the lock manager has not decided
   "granted",  \* lock granted, the callback has not run
   "denied",   \* not available, the callback has not run
   "held",     \* the callback owns the lock and awaits releaseLock
   "ending",   \* the callback returned, the browser still holds the lock
   "settled"}  \* the request promise has settled

CallStates ==
  {"idle",
   "waitRelease",  \* awaiting releaseInFlight
   "resumed",      \* that release finished, the call has yet to go on
   "waitGrant",    \* awaiting acquireInFlight
   "true",         \* resolved with true, its caller has yet to see it
   "false"}        \* resolved with false

TypeOK ==
  /\ lock \in Tabs \cup {None}
  /\ gen \in [Tabs -> Nat]
  /\ owned \in [Tabs -> BOOLEAN]
  /\ request \in [Tabs -> RequestStates]
  /\ requestGen \in [Tabs -> Nat]
  /\ fired \in [Tabs -> BOOLEAN]
  /\ inFlight \in [Tabs -> Callers \cup {None}]
  /\ draining \in [Tabs -> {"none", "wait", "done"}]
  /\ pc \in [Tabs -> [Callers -> CallStates]]
  /\ callGen \in [Tabs -> [Callers -> Nat]]
  /\ wanted \in [Tabs -> BOOLEAN]

Init ==
  /\ lock = None
  /\ gen = [t \in Tabs |-> 0]
  /\ owned = [t \in Tabs |-> FALSE]
  /\ request = [t \in Tabs |-> "none"]
  /\ requestGen = [t \in Tabs |-> 0]
  /\ fired = [t \in Tabs |-> FALSE]
  /\ inFlight = [t \in Tabs |-> None]
  /\ draining = [t \in Tabs |-> "none"]
  /\ pc = [t \in Tabs |-> [c \in Callers |-> "idle"]]
  /\ callGen = [t \in Tabs |-> [c \in Callers |-> 0]]
  /\ wanted = [t \in Tabs |-> FALSE]

-----------------------------------------------------------------------------
(* acquire() *)

\* The settled promise reaches every call that shares the attempt.
SettleGrant(t, answer) ==
  pc' = [pc EXCEPT ![t] =
           [c \in Callers |-> IF pc[t][c] = "waitGrant" THEN answer
                                                        ELSE pc[t][c]]]

AnswerCall(t, c, answer) == pc' = [pc EXCEPT ![t][c] = answer]

AlreadyOwner(t, c) ==
  /\ owned[t]
  /\ AnswerCall(t, c, "true")
  /\ UNCHANGED <<request, requestGen, inFlight>>

\* Share the attempt under way: wait on the promise its first call awaits.
JoinAttempt(t, c) ==
  /\ ~owned[t]
  /\ inFlight[t] # None
  /\ AnswerCall(t, c, pc[t][inFlight[t]])
  /\ UNCHANGED <<request, requestGen, inFlight>>

RequestLock(t, c) ==
  /\ request' = [request EXCEPT ![t] = "queued"]
  /\ requestGen' = [requestGen EXCEPT ![t] = gen[t]]
  /\ AnswerCall(t, c, "waitGrant")

\* locks.request() itself threw.
RequestThrows(t, c) ==
  /\ AnswerCall(t, c, "false")
  /\ UNCHANGED <<request, requestGen>>

StartAcquire(t, c) ==
  /\ ~owned[t]
  /\ inFlight[t] = None
  /\ inFlight' = [inFlight EXCEPT ![t] = c]
  /\ RequestLock(t, c) \/ RequestThrows(t, c)

\* What acquire() does once no release is draining.
Proceed(t, c) ==
  AlreadyOwner(t, c) \/ JoinAttempt(t, c) \/ StartAcquire(t, c)

AwaitRelease(t, c) ==
  /\ draining[t] # "none"
  /\ AnswerCall(t, c, "waitRelease")
  /\ UNCHANGED <<request, requestGen, inFlight>>

AcquireCall(t, c) ==
  /\ pc[t][c] = "idle"
  /\ callGen' = [callGen EXCEPT ![t][c] = gen[t]]
  /\ wanted' = [wanted EXCEPT ![t] = TRUE]
  /\ AwaitRelease(t, c) \/ (draining[t] = "none" /\ Proceed(t, c))
  /\ UNCHANGED <<lock, gen, owned, fired, draining>>

\* The await of releaseInFlight is over: a release() since the call cancels it.
CancelCall(t, c) ==
  /\ callGen[t][c] # gen[t]
  /\ AnswerCall(t, c, "false")
  /\ UNCHANGED <<request, requestGen, inFlight>>

AcquireResume(t, c) ==
  /\ pc[t][c] = "resumed"
  /\ \/ CancelCall(t, c)
     \/ callGen[t][c] = gen[t] /\ Proceed(t, c)
  /\ UNCHANGED <<lock, gen, owned, fired, draining, callGen, wanted>>

\* The caller sees the answer; the call that started the attempt clears it.
AcquireReturn(t, c) ==
  /\ pc[t][c] \in {"true", "false"}
  /\ AnswerCall(t, c, "idle")
  /\ inFlight' = [inFlight EXCEPT ![t] = IF @ = c THEN None ELSE @]
  /\ callGen' = [callGen EXCEPT ![t][c] = 0]  \* the call's frame is gone
  /\ UNCHANGED <<lock, gen, owned, request, requestGen, fired, draining,
                 wanted>>

-----------------------------------------------------------------------------
(* The browser's lock manager, mode "exclusive" with ifAvailable. *)

DecideRequest(t) ==
  /\ request[t] = "queued"
  /\ \/ /\ lock = None
        /\ lock' = t
        /\ request' = [request EXCEPT ![t] = "granted"]
     \/ /\ lock # None
        /\ request' = [request EXCEPT ![t] = "denied"]
        /\ UNCHANGED lock
  /\ UNCHANGED <<gen, owned, requestGen, fired, inFlight, draining, pc,
                 callGen, wanted>>

\* Mutant: the catch handler does not settle the grant.
RejectUnanswered(t) ==
  /\ request[t] = "queued"
  /\ request' = [request EXCEPT ![t] = "settled"]
  /\ requestGen' = [requestGen EXCEPT ![t] = 0]
  /\ UNCHANGED <<lock, gen, owned, fired, inFlight, draining, pc, callGen,
                 wanted>>

RejectRequest(t) ==
  /\ request[t] = "queued"
  /\ request' = [request EXCEPT ![t] = "settled"]
  /\ requestGen' = [requestGen EXCEPT ![t] = 0]
  /\ SettleGrant(t, "false")
  /\ UNCHANGED <<lock, gen, owned, fired, inFlight, draining, callGen,
                 wanted>>

\* The browser frees the lock and settles the request when the callback ends.
EndRequest(t) ==
  /\ request[t] = "ending"
  /\ request' = [request EXCEPT ![t] = "settled"]
  /\ lock' = None
  /\ fired' = [fired EXCEPT ![t] = FALSE]
  /\ UNCHANGED <<gen, owned, requestGen, inFlight, draining, pc, callGen,
                 wanted>>

-----------------------------------------------------------------------------
(* The lock callback. *)

CallbackTakes(t) == requestGen[t] = gen[t]

TakeOwnership(t) ==
  /\ request[t] = "granted"
  /\ CallbackTakes(t)
  /\ request' = [request EXCEPT ![t] = "held"]
  /\ owned' = [owned EXCEPT ![t] = TRUE]
  /\ SettleGrant(t, "true")

\* The grant is late: release() has advanced the generation.
DeclineGrant(t) ==
  /\ request[t] = "granted"
  /\ ~CallbackTakes(t)
  /\ request' = [request EXCEPT ![t] = "ending"]
  /\ SettleGrant(t, "false")
  /\ UNCHANGED owned

\* Mutant: the callback does not look at the lock it was given.
TakeUnavailable(t) ==
  /\ request[t] = "denied"
  /\ request' = [request EXCEPT ![t] = "held"]
  /\ owned' = [owned EXCEPT ![t] = TRUE]
  /\ SettleGrant(t, "true")

LockUnavailable(t) ==
  /\ request[t] = "denied"
  /\ request' = [request EXCEPT ![t] = "settled"]
  /\ SettleGrant(t, "false")
  /\ UNCHANGED owned

CallbackRuns(t) ==
  /\ TakeOwnership(t) \/ DeclineGrant(t) \/ LockUnavailable(t)
  /\ requestGen' = [requestGen EXCEPT ![t] = 0]
  /\ UNCHANGED <<lock, gen, fired, inFlight, draining, callGen, wanted>>

CallbackEnds(t) ==
  /\ request[t] = "held"
  /\ fired[t]
  /\ request' = [request EXCEPT ![t] = "ending"]
  /\ owned' = [owned EXCEPT ![t] = FALSE]
  /\ UNCHANGED <<lock, gen, requestGen, fired, inFlight, draining, pc,
                 callGen, wanted>>

-----------------------------------------------------------------------------
(* release() *)

\* finishRelease() without a lock request runs to its end at once.
ReleaseIdle(t) ==
  /\ draining[t] = "none"
  /\ request[t] = "none"
  /\ owned' = [owned EXCEPT ![t] = FALSE]
  /\ inFlight' = [inFlight EXCEPT ![t] = None]
  /\ draining' = [draining EXCEPT ![t] = "done"]
  /\ UNCHANGED fired

\* finishRelease() up to its await of the lock request.
BeginRelease(t) ==
  /\ draining[t] = "none"
  /\ request[t] # "none"
  /\ fired' = [fired EXCEPT ![t] = request[t] = "held"]
  /\ draining' = [draining EXCEPT ![t] = "wait"]
  /\ UNCHANGED <<owned, inFlight>>

JoinRelease(t) ==
  /\ draining[t] # "none"
  /\ UNCHANGED <<owned, fired, inFlight, draining>>

\* Mutant: a release() that joins one under way does not advance the
\* generation.
ReleaseJoinsQuietly(t) ==
  /\ gen[t] < MaxReleases[t]
  /\ gen' = [gen EXCEPT ![t] = IF draining[t] = "none" THEN @ + 1 ELSE @]
  /\ wanted' = [wanted EXCEPT ![t] = FALSE]
  /\ JoinRelease(t) \/ ReleaseIdle(t) \/ BeginRelease(t)
  /\ UNCHANGED <<lock, request, requestGen, pc, callGen>>

\* Mutant: release() never advances the generation.
ReleaseSameGeneration(t) ==
  /\ gen[t] < MaxReleases[t]
  /\ wanted' = [wanted EXCEPT ![t] = FALSE]
  /\ JoinRelease(t) \/ ReleaseIdle(t) \/ BeginRelease(t)
  /\ UNCHANGED <<lock, gen, request, requestGen, pc, callGen>>

ReleaseCall(t) ==
  /\ gen[t] < MaxReleases[t]
  /\ gen' = [gen EXCEPT ![t] = @ + 1]
  /\ wanted' = [wanted EXCEPT ![t] = FALSE]
  /\ JoinRelease(t) \/ ReleaseIdle(t) \/ BeginRelease(t)
  /\ UNCHANGED <<lock, request, requestGen, pc, callGen>>

FinishRelease(t) ==
  /\ draining[t] = "wait"
  /\ request[t] = "settled"
  /\ owned' = [owned EXCEPT ![t] = FALSE]
  /\ inFlight' = [inFlight EXCEPT ![t] = None]
  /\ request' = [request EXCEPT ![t] = "none"]
  /\ draining' = [draining EXCEPT ![t] = "done"]
  /\ UNCHANGED <<lock, gen, requestGen, fired, pc, callGen, wanted>>

\* The finally handler clears releaseInFlight and wakes the calls awaiting it.
ReleaseSettles(t) ==
  /\ draining[t] = "done"
  /\ draining' = [draining EXCEPT ![t] = "none"]
  /\ pc' = [pc EXCEPT ![t] =
              [c \in Callers |-> IF pc[t][c] = "waitRelease" THEN "resumed"
                                                             ELSE pc[t][c]]]
  /\ UNCHANGED <<lock, gen, owned, request, requestGen, fired, inFlight,
                 callGen, wanted>>

\* The page goes away (reload, crash, close) and the browser frees its lock;
\* the next page of that tab starts from a fresh object.
PageGone(t) ==
  /\ lock' = IF lock = t THEN None ELSE lock
  /\ gen' = [gen EXCEPT ![t] = 0]
  /\ owned' = [owned EXCEPT ![t] = FALSE]
  /\ request' = [request EXCEPT ![t] = "none"]
  /\ requestGen' = [requestGen EXCEPT ![t] = 0]
  /\ fired' = [fired EXCEPT ![t] = FALSE]
  /\ inFlight' = [inFlight EXCEPT ![t] = None]
  /\ draining' = [draining EXCEPT ![t] = "none"]
  /\ pc' = [pc EXCEPT ![t] = [c \in Callers |-> "idle"]]
  /\ callGen' = [callGen EXCEPT ![t] = [c \in Callers |-> 0]]
  /\ wanted' = [wanted EXCEPT ![t] = FALSE]

-----------------------------------------------------------------------------
\* The steps the browser's event loop and lock manager always take.
EventLoop(t) ==
  \/ DecideRequest(t)
  \/ RejectRequest(t)
  \/ EndRequest(t)
  \/ CallbackRuns(t)
  \/ CallbackEnds(t)
  \/ FinishRelease(t)
  \/ ReleaseSettles(t)

Continue(t, c) == AcquireResume(t, c) \/ AcquireReturn(t, c)

Next ==
  \E t \in Tabs :
    \/ \E c \in Callers : AcquireCall(t, c) \/ Continue(t, c)
    \/ ReleaseCall(t)
    \/ EventLoop(t)
    \/ PageGone(t)

Spec == Init /\ [][Next]_vars

Fairness ==
  \A t \in Tabs :
    /\ WF_vars(EventLoop(t))
    /\ \A c \in Callers : WF_vars(Continue(t, c))

FairSpec == Spec /\ Fairness

-----------------------------------------------------------------------------
(* Properties *)

\* At most one tab believes it owns the session, and it is the tab to which
\* the browser granted the lock (class comment of SessionOwnership).
MutualExclusion ==
  \A t \in Tabs : owned[t] => lock = t /\ \A u \in Tabs \ {t} : ~owned[u]

\* An acquire() that resolves true and that no release() has overtaken finds
\* the tab still owner: the grant it reports is not stale.
HonestGrant ==
  \A t \in Tabs, c \in Callers :
    pc[t][c] = "true" /\ callGen[t][c] = gen[t] => owned[t]

\* Once a teardown's release() is complete and nobody has called acquire()
\* since, the tab neither owns the session nor keeps the browser's lock, and
\* no request is left that could still take it (the comments at
\* ownershipGeneration and in release()).
NoLateOwner ==
  \A t \in Tabs :
    ~wanted[t] /\ draining[t] = "none" =>
      /\ ~owned[t]
      /\ lock # t
      /\ request[t] \in {"none", "settled"}

\* Where the Web Locks request of a tab stands, against the lock manager, the
\* owned field, the generation and the release that may be draining.
Undecided == {"queued", "granted", "denied"}

RequestInv(t) ==
  /\ lock = t <=> request[t] \in {"granted", "held", "ending"}
  /\ owned[t] <=> request[t] = "held"
  /\ request[t] = "held" => (fired[t] <=> draining[t] = "wait")
  /\ fired[t] => request[t] \in {"held", "ending"}
  /\ request[t] = "ending" => draining[t] = "wait"
  /\ draining[t] = "wait" => request[t] # "none"
  /\ draining[t] = "done" => request[t] = "none" /\ inFlight[t] = None
  /\ request[t] \in Undecided =>
       /\ requestGen[t] <= gen[t]
       /\ requestGen[t] = gen[t] <=> draining[t] = "none"
       /\ inFlight[t] # None
       /\ pc[t][inFlight[t]] = "waitGrant"
  /\ request[t] \in Undecided \cup {"held"} /\ draining[t] = "none" => wanted[t]

\* Where an acquire() call stands: it waits on a promise something will
\* settle, and only a release() since the call can make its answer stale.
CallInv(t, c) ==
  /\ callGen[t][c] <= gen[t]
  /\ pc[t][c] # "idle" /\ callGen[t][c] = gen[t] => wanted[t]
  /\ pc[t][c] = "true" /\ callGen[t][c] = gen[t] =>
       owned[t] /\ draining[t] = "none"
  /\ pc[t][c] = "waitRelease" => draining[t] # "none"
  /\ pc[t][c] = "resumed" /\ callGen[t][c] = gen[t] => draining[t] = "none"
  /\ pc[t][c] = "waitGrant" => request[t] \in Undecided
  /\ inFlight[t] = c =>
       \/ pc[t][c] = "false"
       \/ pc[t][c] = "waitGrant"
       \/ pc[t][c] = "true" /\ (owned[t] \/ draining[t] = "wait")

\* The inductive invariant of the module.
OwnershipInv ==
  /\ TypeOK
  /\ \A t \in Tabs : RequestInv(t)
  /\ \A t \in Tabs : \A c \in Callers : CallInv(t, c)

-----------------------------------------------------------------------------
\* Ownership, seen from outside, is an exclusive holder.
Holder == INSTANCE ExclusiveHolder WITH owners <- {t \in Tabs : owned[t]}

RefinesHolder == Holder!Spec

\* Every acquire() call is answered, whatever release() calls overtake it,
\* unless its page goes away (which also returns the call to idle); and every
\* release() completes: finishRelease() never waits for a lock request that
\* nothing will settle.
EveryCallIsAnswered ==
  \A t \in Tabs :
    /\ \A c \in Callers : pc[t][c] # "idle" ~> pc[t][c] = "idle"
    /\ draining[t] # "none" ~> draining[t] = "none"
=============================================================================
