---------------------------- MODULE CounterStream ----------------------------
(***************************************************************************)
(* What the library promises about one direction of an AEAD stream: every  *)
(* key has at most one user at a time, and whatever pages come and go, the *)
(* sequence numbers used under a key only grow, so none is used twice.     *)
(***************************************************************************)
EXTENDS Naturals, Sequences

CONSTANTS
  Keys, Tabs, None,
  Numbers  \* the sequence numbers, a set of naturals

VARIABLES
  user,  \* the page that runs each key, or None
  used   \* the sequence numbers used under each key, in order

vars == <<user, used>>

Init ==
  /\ user = [k \in Keys |-> None]
  /\ used = [k \in Keys |-> <<>>]

Start(k, t) ==
  /\ user[k] = None
  /\ user' = [user EXCEPT ![k] = t]
  /\ UNCHANGED used

Stop(k) ==
  /\ user[k] # None
  /\ user' = [user EXCEPT ![k] = None]
  /\ UNCHANGED used

Use(k, n) ==
  /\ user[k] # None
  /\ \A i \in DOMAIN used[k] : used[k][i] < n
  /\ used' = [used EXCEPT ![k] = Append(@, n)]
  /\ UNCHANGED user

Next ==
  \E k \in Keys :
    \/ \E t \in Tabs : Start(k, t)
    \/ Stop(k)
    \/ \E n \in Numbers : Use(k, n)

Spec == Init /\ [][Next]_vars
=============================================================================
