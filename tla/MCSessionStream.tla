--------------------------- MODULE MCSessionStream ---------------------------
(* Pages, keys and jobs are interchangeable: safety is checked up to them. *)
EXTENDS SessionStream, TLC

Symmetry == Permutations(Tabs) \cup Permutations(Keys) \cup Permutations(Jobs)
=============================================================================
