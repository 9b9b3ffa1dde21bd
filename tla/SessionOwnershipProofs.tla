----------------------- MODULE SessionOwnershipProofs -----------------------
(***************************************************************************)
(* Theorems about SessionOwnership for every set of tabs and of concurrent *)
(* acquire() calls.  The argument is the inductive invariant OwnershipInv, *)
(* one lemma per step of the code; the safety properties and the step      *)
(* simulation of ExclusiveHolder follow from it.                           *)
(***************************************************************************)
EXTENDS SessionOwnership, TLAPS

USE OwnershipAssumption

\* The initial page states satisfy the invariant.
LEMMA InitInv == Init => OwnershipInv
  BY DEF Init, OwnershipInv, TypeOK, RequestInv, CallInv, Undecided,
         RequestStates, CallStates

\* The part of acquire() that follows any draining release keeps the
\* invariant, whether it is reached by the call or by its continuation.
LEMMA ProceedInv ==
  ASSUME OwnershipInv, NEW t \in Tabs, NEW c \in Callers,
         pc[t][c] \in {"idle", "resumed"}, draining[t] = "none",
         callGen' = [callGen EXCEPT ![t][c] = gen[t]],
         wanted' = [wanted EXCEPT ![t] = TRUE],
         UNCHANGED <<lock, gen, owned, fired, draining>>,
         Proceed(t, c)
  PROVE  OwnershipInv'
<1> USE DEF OwnershipInv, AnswerCall
<1>1. CASE AlreadyOwner(t, c)
  <2> USE DEF AlreadyOwner
  <2>1. TypeOK'
    BY <1>1 DEF TypeOK, RequestStates, CallStates
  <2>2. ASSUME NEW u \in Tabs PROVE RequestInv(u)'
    BY <1>1, <2>2 DEF TypeOK, RequestInv, CallInv, Undecided
  <2>3. ASSUME NEW u \in Tabs, NEW d \in Callers PROVE CallInv(u, d)'
    BY <1>1, <2>3 DEF TypeOK, RequestInv, CallInv, Undecided
  <2>4. QED BY <2>1, <2>2, <2>3
<1>2. CASE JoinAttempt(t, c)
  <2> USE DEF JoinAttempt
  <2>1. TypeOK'
    BY <1>2 DEF TypeOK, RequestStates, CallStates
  <2>2. ASSUME NEW u \in Tabs PROVE RequestInv(u)'
    BY <1>2, <2>2 DEF TypeOK, RequestInv, CallInv, Undecided
  <2>3. ASSUME NEW u \in Tabs, NEW d \in Callers PROVE CallInv(u, d)'
    BY <1>2, <2>3 DEF TypeOK, RequestInv, CallInv, Undecided
  <2>4. QED BY <2>1, <2>2, <2>3
<1>3. CASE StartAcquire(t, c) /\ RequestLock(t, c)
  <2> USE DEF StartAcquire, RequestLock
  <2>1. TypeOK'
    BY <1>3 DEF TypeOK, RequestStates, CallStates
  <2>2. ASSUME NEW u \in Tabs PROVE RequestInv(u)'
    BY <1>3, <2>2 DEF TypeOK, RequestInv, CallInv, Undecided
  <2>3. ASSUME NEW u \in Tabs, NEW d \in Callers PROVE CallInv(u, d)'
    BY <1>3, <2>3 DEF TypeOK, RequestInv, CallInv, Undecided
  <2>4. QED BY <2>1, <2>2, <2>3
<1>4. CASE StartAcquire(t, c) /\ RequestThrows(t, c)
  <2> USE DEF StartAcquire, RequestThrows
  <2>1. TypeOK'
    BY <1>4 DEF TypeOK, RequestStates, CallStates
  <2>2. ASSUME NEW u \in Tabs PROVE RequestInv(u)'
    BY <1>4, <2>2 DEF TypeOK, RequestInv, CallInv, Undecided
  <2>3. ASSUME NEW u \in Tabs, NEW d \in Callers PROVE CallInv(u, d)'
    BY <1>4, <2>3 DEF TypeOK, RequestInv, CallInv, Undecided
  <2>4. QED BY <2>1, <2>2, <2>3
<1>5. QED BY <1>1, <1>2, <1>3, <1>4 DEF Proceed, StartAcquire

\* The invariant survives an acquire() call.
LEMMA AcquireCallInv ==
  ASSUME OwnershipInv, NEW t \in Tabs, NEW c \in Callers, AcquireCall(t, c)
  PROVE  OwnershipInv'
<1>1. CASE AwaitRelease(t, c)
  <2> USE DEF OwnershipInv, AcquireCall, AwaitRelease, AnswerCall
  <2>1. TypeOK'
    BY <1>1 DEF TypeOK, RequestStates, CallStates
  <2>2. ASSUME NEW u \in Tabs PROVE RequestInv(u)'
    BY <1>1, <2>2 DEF TypeOK, RequestInv, CallInv, Undecided
  <2>3. ASSUME NEW u \in Tabs, NEW d \in Callers PROVE CallInv(u, d)'
    BY <1>1, <2>3 DEF TypeOK, RequestInv, CallInv, Undecided
  <2>4. QED BY <2>1, <2>2, <2>3
<1>2. CASE draining[t] = "none" /\ Proceed(t, c)
  BY <1>2, ProceedInv DEF AcquireCall
<1>3. QED BY <1>1, <1>2 DEF AcquireCall

\* The invariant survives the continuation of acquire() after a release.
LEMMA AcquireResumeInv ==
  ASSUME OwnershipInv, NEW t \in Tabs, NEW c \in Callers, AcquireResume(t, c)
  PROVE  OwnershipInv'
<1>1. CASE CancelCall(t, c)
  <2> USE DEF OwnershipInv, AcquireResume, CancelCall, AnswerCall
  <2>1. TypeOK'
    BY <1>1 DEF TypeOK, RequestStates, CallStates
  <2>2. ASSUME NEW u \in Tabs PROVE RequestInv(u)'
    BY <1>1, <2>2 DEF TypeOK, RequestInv, CallInv, Undecided
  <2>3. ASSUME NEW u \in Tabs, NEW d \in Callers PROVE CallInv(u, d)'
    BY <1>1, <2>3 DEF TypeOK, RequestInv, CallInv, Undecided
  <2>4. QED BY <2>1, <2>2, <2>3
<1>2. CASE callGen[t][c] = gen[t] /\ Proceed(t, c)
  <2>1. draining[t] = "none" /\ wanted[t]
    BY <1>2 DEF OwnershipInv, CallInv, AcquireResume
  <2>2. /\ callGen' = [callGen EXCEPT ![t][c] = gen[t]]
        /\ wanted' = [wanted EXCEPT ![t] = TRUE]
    BY <1>2, <2>1 DEF AcquireResume, OwnershipInv, TypeOK
  <2>3. QED BY <1>2, <2>1, <2>2, ProceedInv DEF AcquireResume
<1>3. QED BY <1>1, <1>2 DEF AcquireResume

\* The invariant survives the return of acquire() to its caller.
LEMMA AcquireReturnInv ==
  ASSUME OwnershipInv, NEW t \in Tabs, NEW c \in Callers, AcquireReturn(t, c)
  PROVE  OwnershipInv'
<1> USE DEF OwnershipInv, AcquireReturn, AnswerCall
<1>1. TypeOK'
  BY DEF TypeOK, RequestStates, CallStates
<1>2. ASSUME NEW u \in Tabs PROVE RequestInv(u)'
  BY <1>2 DEF TypeOK, RequestInv, CallInv, Undecided
<1>3. ASSUME NEW u \in Tabs, NEW d \in Callers PROVE CallInv(u, d)'
  BY <1>3 DEF TypeOK, RequestInv, CallInv, Undecided
<1>4. QED BY <1>1, <1>2, <1>3

\* The invariant survives the lock manager's decision.
LEMMA DecideRequestInv ==
  ASSUME OwnershipInv, NEW t \in Tabs, DecideRequest(t)
  PROVE  OwnershipInv'
<1> USE DEF OwnershipInv, DecideRequest
<1>1. TypeOK'
  BY DEF TypeOK, RequestStates, CallStates
<1>2. ASSUME NEW u \in Tabs PROVE RequestInv(u)'
  BY <1>2 DEF TypeOK, RequestInv, CallInv, Undecided
<1>3. ASSUME NEW u \in Tabs, NEW d \in Callers PROVE CallInv(u, d)'
  BY <1>3 DEF TypeOK, RequestInv, CallInv, Undecided
<1>4. QED BY <1>1, <1>2, <1>3

\* The invariant survives a rejected lock request.
LEMMA RejectRequestInv ==
  ASSUME OwnershipInv, NEW t \in Tabs, RejectRequest(t)
  PROVE  OwnershipInv'
<1> USE DEF OwnershipInv, RejectRequest, SettleGrant
<1>1. TypeOK'
  BY DEF TypeOK, RequestStates, CallStates
<1>2. ASSUME NEW u \in Tabs PROVE RequestInv(u)'
  BY <1>2 DEF TypeOK, RequestInv, CallInv, Undecided
<1>3. ASSUME NEW u \in Tabs, NEW d \in Callers PROVE CallInv(u, d)'
  BY <1>3 DEF TypeOK, RequestInv, CallInv, Undecided
<1>4. QED BY <1>1, <1>2, <1>3

\* The invariant survives the end of a lock request.
LEMMA EndRequestInv ==
  ASSUME OwnershipInv, NEW t \in Tabs, EndRequest(t)
  PROVE  OwnershipInv'
<1> USE DEF OwnershipInv, EndRequest
<1>1. TypeOK'
  BY DEF TypeOK, RequestStates, CallStates
<1>2. ASSUME NEW u \in Tabs PROVE RequestInv(u)'
  BY <1>2 DEF TypeOK, RequestInv, CallInv, Undecided
<1>3. ASSUME NEW u \in Tabs, NEW d \in Callers PROVE CallInv(u, d)'
  BY <1>3 DEF TypeOK, RequestInv, CallInv, Undecided
<1>4. QED BY <1>1, <1>2, <1>3

\* The invariant survives the lock callback's first step.
LEMMA CallbackRunsInv ==
  ASSUME OwnershipInv, NEW t \in Tabs, CallbackRuns(t)
  PROVE  OwnershipInv'
<1> USE DEF OwnershipInv, CallbackRuns, CallbackTakes, SettleGrant
<1>1. CASE TakeOwnership(t)
  <2> USE DEF TakeOwnership
  <2>1. TypeOK'
    BY <1>1 DEF TypeOK, RequestStates, CallStates
  <2>2. ASSUME NEW u \in Tabs PROVE RequestInv(u)'
    BY <1>1, <2>2 DEF TypeOK, RequestInv, CallInv, Undecided
  <2>3. ASSUME NEW u \in Tabs, NEW d \in Callers PROVE CallInv(u, d)'
    BY <1>1, <2>3 DEF TypeOK, RequestInv, CallInv, Undecided
  <2>4. QED BY <2>1, <2>2, <2>3
<1>2. CASE DeclineGrant(t)
  <2> USE DEF DeclineGrant
  <2>1. TypeOK'
    BY <1>2 DEF TypeOK, RequestStates, CallStates
  <2>2. ASSUME NEW u \in Tabs PROVE RequestInv(u)'
    BY <1>2, <2>2 DEF TypeOK, RequestInv, CallInv, Undecided
  <2>3. ASSUME NEW u \in Tabs, NEW d \in Callers PROVE CallInv(u, d)'
    BY <1>2, <2>3 DEF TypeOK, RequestInv, CallInv, Undecided
  <2>4. QED BY <2>1, <2>2, <2>3
<1>3. CASE LockUnavailable(t)
  <2> USE DEF LockUnavailable
  <2>1. TypeOK'
    BY <1>3 DEF TypeOK, RequestStates, CallStates
  <2>2. ASSUME NEW u \in Tabs PROVE RequestInv(u)'
    BY <1>3, <2>2 DEF TypeOK, RequestInv, CallInv, Undecided
  <2>3. ASSUME NEW u \in Tabs, NEW d \in Callers PROVE CallInv(u, d)'
    BY <1>3, <2>3 DEF TypeOK, RequestInv, CallInv, Undecided
  <2>4. QED BY <2>1, <2>2, <2>3
<1>4. QED BY <1>1, <1>2, <1>3

\* The invariant survives the lock callback's last step.
LEMMA CallbackEndsInv ==
  ASSUME OwnershipInv, NEW t \in Tabs, CallbackEnds(t)
  PROVE  OwnershipInv'
<1> USE DEF OwnershipInv, CallbackEnds
<1>1. TypeOK'
  BY DEF TypeOK, RequestStates, CallStates
<1>2. ASSUME NEW u \in Tabs PROVE RequestInv(u)'
  BY <1>2 DEF TypeOK, RequestInv, CallInv, Undecided
<1>3. ASSUME NEW u \in Tabs, NEW d \in Callers PROVE CallInv(u, d)'
  BY <1>3 DEF TypeOK, RequestInv, CallInv, Undecided
<1>4. QED BY <1>1, <1>2, <1>3

\* The invariant survives a release() call.
LEMMA ReleaseCallInv ==
  ASSUME OwnershipInv, NEW t \in Tabs, ReleaseCall(t)
  PROVE  OwnershipInv'
<1> USE DEF OwnershipInv, ReleaseCall
<1>1. CASE JoinRelease(t)
  <2> USE DEF JoinRelease
  <2>1. TypeOK'
    BY <1>1 DEF TypeOK, RequestStates, CallStates
  <2>2. ASSUME NEW u \in Tabs PROVE RequestInv(u)'
    BY <1>1, <2>2 DEF TypeOK, RequestInv, CallInv, Undecided
  <2>3. ASSUME NEW u \in Tabs, NEW d \in Callers PROVE CallInv(u, d)'
    BY <1>1, <2>3 DEF TypeOK, RequestInv, CallInv, Undecided
  <2>4. QED BY <2>1, <2>2, <2>3
<1>2. CASE ReleaseIdle(t)
  <2> USE DEF ReleaseIdle
  <2>1. TypeOK'
    BY <1>2 DEF TypeOK, RequestStates, CallStates
  <2>2. ASSUME NEW u \in Tabs PROVE RequestInv(u)'
    BY <1>2, <2>2 DEF TypeOK, RequestInv, CallInv, Undecided
  <2>3. ASSUME NEW u \in Tabs, NEW d \in Callers PROVE CallInv(u, d)'
    BY <1>2, <2>3 DEF TypeOK, RequestInv, CallInv, Undecided
  <2>4. QED BY <2>1, <2>2, <2>3
<1>3. CASE BeginRelease(t)
  <2> USE DEF BeginRelease
  <2>1. TypeOK'
    BY <1>3 DEF TypeOK, RequestStates, CallStates
  <2>2. ASSUME NEW u \in Tabs PROVE RequestInv(u)'
    BY <1>3, <2>2 DEF TypeOK, RequestInv, CallInv, Undecided
  <2>3. ASSUME NEW u \in Tabs, NEW d \in Callers PROVE CallInv(u, d)'
    BY <1>3, <2>3 DEF TypeOK, RequestInv, CallInv, Undecided
  <2>4. QED BY <2>1, <2>2, <2>3
<1>4. QED BY <1>1, <1>2, <1>3

\* The invariant survives the end of finishRelease().
LEMMA FinishReleaseInv ==
  ASSUME OwnershipInv, NEW t \in Tabs, FinishRelease(t)
  PROVE  OwnershipInv'
<1> USE DEF OwnershipInv, FinishRelease
<1>1. TypeOK'
  BY DEF TypeOK, RequestStates, CallStates
<1>2. ASSUME NEW u \in Tabs PROVE RequestInv(u)'
  BY <1>2 DEF TypeOK, RequestInv, CallInv, Undecided
<1>3. ASSUME NEW u \in Tabs, NEW d \in Callers PROVE CallInv(u, d)'
  BY <1>3 DEF TypeOK, RequestInv, CallInv, Undecided
<1>4. QED BY <1>1, <1>2, <1>3

\* The invariant survives the settling of release().
LEMMA ReleaseSettlesInv ==
  ASSUME OwnershipInv, NEW t \in Tabs, ReleaseSettles(t)
  PROVE  OwnershipInv'
<1> USE DEF OwnershipInv, ReleaseSettles
<1>1. TypeOK'
  BY DEF TypeOK, RequestStates, CallStates
<1>2. ASSUME NEW u \in Tabs PROVE RequestInv(u)'
  BY <1>2 DEF TypeOK, RequestInv, CallInv, Undecided
<1>3. ASSUME NEW u \in Tabs, NEW d \in Callers PROVE CallInv(u, d)'
  BY <1>3 DEF TypeOK, RequestInv, CallInv, Undecided
<1>4. QED BY <1>1, <1>2, <1>3

\* The invariant survives the loss of a page.
LEMMA PageGoneInv ==
  ASSUME OwnershipInv, NEW t \in Tabs, PageGone(t)
  PROVE  OwnershipInv'
<1> USE DEF OwnershipInv, PageGone
<1>1. TypeOK'
  BY DEF TypeOK, RequestStates, CallStates
<1>2. ASSUME NEW u \in Tabs PROVE RequestInv(u)'
  BY <1>2 DEF TypeOK, RequestInv, CallInv, Undecided
<1>3. ASSUME NEW u \in Tabs, NEW d \in Callers PROVE CallInv(u, d)'
  BY <1>3 DEF TypeOK, RequestInv, CallInv, Undecided
<1>4. QED BY <1>1, <1>2, <1>3

-----------------------------------------------------------------------------
\* The invariant holds in every reachable state, whatever the number of tabs
\* and calls and wherever releases and page losses fall.
THEOREM OwnershipInvariant == Spec => []OwnershipInv
<1>1. ASSUME OwnershipInv, [Next]_vars PROVE OwnershipInv'
  <2> USE <1>1
  <2>1. ASSUME NEW t \in Tabs, NEW c \in Callers,
               AcquireCall(t, c) \/ Continue(t, c)
        PROVE  OwnershipInv'
    BY <2>1, AcquireCallInv, AcquireResumeInv, AcquireReturnInv DEF Continue
  <2>2. ASSUME NEW t \in Tabs, ReleaseCall(t) \/ EventLoop(t) \/ PageGone(t)
        PROVE  OwnershipInv'
    BY <2>2, ReleaseCallInv, DecideRequestInv, RejectRequestInv,
       EndRequestInv, CallbackRunsInv, CallbackEndsInv, FinishReleaseInv,
       ReleaseSettlesInv, PageGoneInv DEF EventLoop
  <2>3. CASE UNCHANGED vars
    BY <2>3 DEF vars, OwnershipInv, TypeOK, RequestInv, CallInv
  <2>4. QED BY <2>1, <2>2, <2>3 DEF Next
<1>2. QED BY <1>1, InitInv, PTL DEF Spec

\* No two tabs ever own the persisted session together, and an owner holds
\* the browser's lock.
THEOREM OwnersExclude == Spec => []MutualExclusion
<1>1. OwnershipInv => MutualExclusion
  BY DEF OwnershipInv, RequestInv, MutualExclusion
<1>2. QED BY <1>1, OwnershipInvariant, PTL

\* acquire() never reports a grant that is already stale, unless a release()
\* has been called since.
THEOREM GrantsAreHonest == Spec => []HonestGrant
<1>1. OwnershipInv => HonestGrant
  BY DEF OwnershipInv, CallInv, HonestGrant
<1>2. QED BY <1>1, OwnershipInvariant, PTL

\* A completed teardown leaves no owner, no lock and no pending request.
THEOREM TeardownIsFinal == Spec => []NoLateOwner
<1>1. OwnershipInv => NoLateOwner
  BY DEF OwnershipInv, RequestInv, NoLateOwner, Undecided, TypeOK,
         RequestStates
<1>2. QED BY <1>1, OwnershipInvariant, PTL

\* SessionOwnership implements ExclusiveHolder: each of its steps takes
\* ownership when nobody has it, gives it up, or leaves it alone.
THEOREM ImplementsHolder == Spec => RefinesHolder
<1> DEFINE Own == {t \in Tabs : owned[t]}
<1>1. Init => Holder!Init
  BY DEF Init, Holder!Init
<1>2. ASSUME OwnershipInv, OwnershipInv', [Next]_vars
      PROVE  [Holder!Next]_Own
  <2> USE <1>2
  <2>1. ASSUME NEW t \in Tabs, owned' = [owned EXCEPT ![t] = FALSE]
        PROVE  [Holder!Next]_Own
    <3>1. Own' = Own \ {t}
      BY <2>1 DEF OwnershipInv, TypeOK
    <3>2. CASE t \in Own
      BY <3>1, <3>2 DEF Holder!Next, Holder!Drop
    <3>3. CASE t \notin Own
      BY <3>1, <3>3
    <3>4. QED BY <3>2, <3>3
  <2>2. ASSUME NEW t \in Tabs, request[t] = "granted",
               owned' = [owned EXCEPT ![t] = TRUE]
        PROVE  [Holder!Next]_Own
    <3>1. Own = {}
      BY <2>2 DEF OwnershipInv, RequestInv
    <3>2. Own' = {t}
      BY <2>2, <3>1 DEF OwnershipInv, TypeOK
    <3>3. QED BY <3>1, <3>2 DEF Holder!Next, Holder!Take
  <2>3. CASE UNCHANGED owned
    BY <2>3
  <2>4. \/ UNCHANGED owned
        \/ \E t \in Tabs : owned' = [owned EXCEPT ![t] = FALSE]
        \/ \E t \in Tabs : /\ request[t] = "granted"
                           /\ owned' = [owned EXCEPT ![t] = TRUE]
    BY DEF Next, vars, Continue, EventLoop, AcquireCall, AcquireResume,
           AcquireReturn, DecideRequest, RejectRequest, EndRequest,
           CallbackRuns, TakeOwnership, DeclineGrant, LockUnavailable,
           CallbackEnds, ReleaseCall, JoinRelease, ReleaseIdle, BeginRelease,
           FinishRelease, ReleaseSettles, PageGone
  <2>5. QED BY <2>1, <2>2, <2>3, <2>4
<1>3. QED
  BY <1>1, <1>2, OwnershipInvariant, PTL DEF Spec, RefinesHolder, Holder!Spec
=============================================================================
