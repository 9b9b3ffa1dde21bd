----------------------------- MODULE MCTypedData -----------------------------
(* Ways in which the structs A, B and C, with up to two fields each, can refer *)
(* to each other, under a few domains.                                         *)
EXTENDS TypedData

CONSTANTS A, B, C

Of(name, base, dims) == [name |-> name, base |-> base, dims |-> dims]

Domains ==
  {<<Of("name", "plain", 0)>>,
   <<Of("name", "plain", 0), Of("verifyingContract", "address", 0)>>,
   <<Of("verifyingContract", "address", 0)>>,
   <<Of("name", A, 0)>>}

Options == {<<b, 0>> : b \in {A, B, C, "plain"}} \cup {<<B, 1>>, <<"address", 1>>}

One == {<<Of("x", o[1], o[2])>> : o \in Options}
Two == {<<Of("x", o[1], o[2]), Of("y", p[1], p[2])>> : o \in Options, p \in Options}

Odd == {<<>>, <<Of("x", "invalid", 0)>>, <<Of("x", "plain", 2)>>, <<Of("x", "address", 0)>>,
        <<Of("x", "plain", 0), Of("x", "plain", 0)>>, <<Of("unfit", "plain", 0)>>,
        <<Of("x", "plain", 0), Of("y", "plain", 0), Of("z", "plain", 0), Of("name", "plain", 0)>>,
        <<Of("x", QRLDomain, 0), Of("y", B, 0), Of("z", C, 0)>>}

TypeMapOf(d, a, b, c) ==
  [t \in Structs |-> CASE t = QRLDomain -> d [] t = A -> a [] t = B -> b [] t = C -> c]

\* Chains that are one type too long, beside shorter ways to the same types
Chains ==
  {TypeMapOf(<<Of("name", "plain", 0)>>, a, <<Of("x", C, 0)>>, <<Of("x", QRLDomain, 1)>>) :
     a \in Two}

Payloads ==
  {TypeMapOf(d, a, b, c) : d \in Domains, a \in Two \cup Odd, b \in One \cup Odd, c \in One}
    \cup {TypeMapOf(<<Of("name", "plain", 0)>>, a, b, c) :
            a \in One \cup Two, b \in Two, c \in One}
    \cup Chains
=============================================================================
