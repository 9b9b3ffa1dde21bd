--------------------------- MODULE ExclusiveHolder ---------------------------
(***************************************************************************)
(* What SessionOwnership promises to the rest of the library: of all the   *)
(* pages of one origin, at most one owns the persisted session at a time.  *)
(* A page becomes owner only when nobody is, and stops being owner by      *)
(* releasing or by going away.                                             *)
(***************************************************************************)
CONSTANT Tabs

VARIABLE owners

Init == owners = {}

Take(t) == owners = {} /\ owners' = {t}

Drop(t) == t \in owners /\ owners' = owners \ {t}

Next == \E t \in Tabs : Take(t) \/ Drop(t)

Spec == Init /\ [][Next]_owners
=============================================================================
