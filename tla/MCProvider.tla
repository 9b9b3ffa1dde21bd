----------------------------- MODULE MCProvider -----------------------------
(* One method of each kind. *)
EXTENDS Provider

CONSTANTS a1, c1

Method(t, a, c) == [type |-> t, account |-> a, chain |-> c]

OneOfEach ==
  {Method("accounts", None, None), Method("sign", a1, c1),
   Method("switch", None, c1), Method("read", None, None)}

\* What an approval across a reload takes.
OneSwitch == {Method("switch", None, c1)}
=============================================================================
