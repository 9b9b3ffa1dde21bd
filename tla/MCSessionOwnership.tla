------------------------- MODULE MCSessionOwnership -------------------------
(* One page whose calls overtake several of its releases, against one that *)
(* only goes away.                                                         *)
EXTENDS SessionOwnership, TLC

CONSTANTS t1, t2

Releases == t1 :> 2 @@ t2 :> 0
=============================================================================
