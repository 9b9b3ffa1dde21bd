------------------------------ MODULE TypedData ------------------------------
(***************************************************************************)
(* src/signing/typedData.ts: computeTypedDataDigest(), from the type map   *)
(* of a payload to the walk over its values.                               *)
(*                                                                         *)
(* A recursive function of the code is a walk with a stack.  A field is    *)
(* its base type and its array dimensions; "plain" is any atomic type but  *)
(* address, "invalid" whatever parseFieldType() rejects.  The values are   *)
(* chosen as the walk comes to them; bytes and hashes are left out.        *)
(***************************************************************************)
EXTENDS Naturals, Sequences, FiniteSets

CONSTANTS
  Structs,            \* names of struct types
  QRLDomain,
  Names,              \* of fields
  TypeMaps,           \* the type maps of the payloads
  MaxTypes, MaxFieldsPerType, MaxTotalFields,
  MaxTypeGraphDepth, MaxArrayNesting, MaxArrayLength, MaxEncodedValues

\* The name "unfit" is no identifier, or that of a field whose type is too long.
Fields == [name : Names \cup {"name", "verifyingContract", "unfit"},
           base : Structs \cup {"plain", "address", "invalid"}, dims : Nat]

ASSUME TypedDataAssumption ==
  /\ QRLDomain \in Structs
  /\ {"plain", "address", "invalid"} \cap Structs = {}
  /\ TypeMaps \subseteq [Structs -> Seq(Fields)]
  /\ {MaxTypes, MaxFieldsPerType, MaxTotalFields, MaxTypeGraphDepth, MaxArrayNesting,
      MaxArrayLength, MaxEncodedValues} \subseteq Nat
  /\ MaxEncodedValues > 0

VARIABLES
  types, primary,     \* of the payload
  pc,
  error,              \* the check that failed
  walk,               \* collectDependencies(): its root, for whom, at which depth
  path,
  next,               \* of a visited type, the field to be looked at next
  reachable,
  scheme,
  part,               \* the half of the payload that is hashed
  frames,             \* values under way: what is left of a struct or an array
  budget              \* remainingValues

payload == <<types, primary>>
vars == <<payload, pc, error, walk, path, next, reachable, scheme, part, frames, budget>>

NoWalk == [root |-> QRLDomain, for |-> "domain", depth |-> 0]

TypeOK ==
  /\ types \in [Structs -> Seq(Fields)] /\ primary \in Structs
  /\ pc \in {"types", "domain", "collect", "unused", "encode", "digest", "failed"}
  /\ error \in {"none", "types", "domain", "deep", "cyclic", "field", "unused", "value",
                "depth", "budget", "slot"}
  /\ walk \in [root : Structs, for : {"domain", "primary", "hash"}, depth : Nat]
  /\ path \in Seq(Structs)
  /\ next \in [Structs -> Nat]
  /\ reachable \subseteq Structs
  /\ scheme \in {"none", "v1", "v2"}
  /\ part \in {"domain", "message"}
  /\ frames \in Seq([todo : Seq(Fields), depth : Nat])
  /\ budget \in Nat

Init ==
  /\ types \in TypeMaps /\ primary \in Structs
  /\ pc = "types" /\ error = "none"
  /\ walk = NoWalk /\ path = <<>> /\ next = [t \in Structs |-> 0]
  /\ reachable = {} /\ scheme = "none"
  /\ part = "domain" /\ frames = <<>> /\ budget = MaxEncodedValues

Fail(e) ==
  /\ pc' = "failed" /\ error' = e
  /\ UNCHANGED <<payload, walk, path, next, reachable, scheme, part, frames, budget>>

-----------------------------------------------------------------------------
(* The type map *)

Elements(s) == {s[i] : i \in 1 .. Len(s)}

\* validateTypeMap(): no struct is empty or names a field twice, every name is an
\* identifier (those of the structs are), and there are not too many types or fields.
WellFormed ==
  /\ Cardinality(Structs) \in 1 .. MaxTypes
  /\ \A t \in Structs :
       /\ Len(types[t]) \in 1 .. MaxFieldsPerType
       /\ \A f \in Elements(types[t]) : f.name # "unfit"
       /\ \A i, j \in 1 .. Len(types[t]) : types[t][i].name = types[t][j].name => i = j
  /\ Cardinality({f \in Structs \X (1 .. MaxTotalFields + 1) : f[2] <= Len(types[f[1]])})
       <= MaxTotalFields

\* A domain has a name, and only reserved fields of their reserved types.
Reserved ==
  {[name |-> "name", base |-> "plain", dims |-> 0],
   [name |-> "verifyingContract", base |-> "address", dims |-> 0]}

DomainFits ==
  /\ primary # QRLDomain
  /\ Elements(types[QRLDomain]) \subseteq Reserved
  /\ \E f \in Elements(types[QRLDomain]) : f.name = "name"

Collect(root, for, depth) ==
  /\ pc' = "collect"
  /\ walk' = [root |-> root, for |-> for, depth |-> depth]
  /\ path' = <<root>>
  /\ next' = [t \in Structs |-> IF t = root THEN 1 ELSE 0]

CheckTypes ==
  /\ pc = "types"
  /\ IF WellFormed
       THEN /\ pc' = "domain"
            /\ UNCHANGED <<payload, error, walk, path, next, reachable, scheme, part, frames,
                           budget>>
       ELSE Fail("types")

CheckDomain ==
  /\ pc = "domain"
  /\ IF DomainFits
       THEN /\ Collect(QRLDomain, "domain", 0)
            /\ UNCHANGED <<payload, error, reachable, scheme, part, frames, budget>>
       ELSE Fail("domain")

-----------------------------------------------------------------------------
(* collectDependencies() *)

Top == path[Len(path)]
Field == types[Top][next[Top]]
Looking == pc = "collect" /\ next[Top] <= Len(types[Top])

\* Mutant: a type that was visited is not looked for on the path.
OnPathUnvisited(t) == t \in Elements(path) /\ next[t] = 0

OnPath(t) == t \in Elements(path)

TooDeep == Field.base \in Structs /\ Len(path) > MaxTypeGraphDepth

RejectDeep == Looking /\ TooDeep /\ Fail("deep")

RejectCycle == Looking /\ ~TooDeep /\ OnPath(Field.base) /\ Fail("cyclic")

Visit ==
  /\ Looking /\ ~TooDeep /\ ~OnPath(Field.base)
  /\ Field.base \in Structs /\ next[Field.base] = 0
  /\ path' = Append(path, Field.base)
  /\ next' = [next EXCEPT ![Field.base] = 1]
  /\ UNCHANGED <<payload, pc, error, walk, reachable, scheme, part, frames, budget>>

\* parseFieldType() comes after the visit of the base type.
ParseField ==
  /\ Looking /\ ~TooDeep /\ ~OnPath(Field.base)
  /\ Field.base \in Structs => next[Field.base] > 0
  /\ IF Field.base # "invalid" /\ Field.dims <= MaxArrayNesting
       THEN /\ next' = [next EXCEPT ![Top] = @ + 1]
            /\ UNCHANGED <<payload, pc, error, walk, path, reachable, scheme, part, frames,
                           budget>>
       ELSE Fail("field")

\* A type whose fields are done is left; its field in the type before is then
\* found visited.
Leave ==
  /\ pc = "collect" /\ Len(path) > 1
  /\ next[Top] > Len(types[Top])
  /\ path' = SubSeq(path, 1, Len(path) - 1)
  /\ UNCHANGED <<payload, pc, error, walk, next, reachable, scheme, part, frames, budget>>

Visited == {t \in Structs : next[t] > 0}

\* hashStruct() goes on when the type hash is known.
Collected ==
  /\ pc = "collect" /\ Len(path) = 1
  /\ next[Top] > Len(types[Top])
  /\ CASE walk.for = "domain" ->
            /\ reachable' = reachable \cup Visited
            /\ Collect(primary, "primary", 0)
            /\ UNCHANGED frames
       [] walk.for = "primary" ->
            /\ reachable' = reachable \cup Visited
            /\ pc' = "unused"
            /\ UNCHANGED <<walk, path, next, frames>>
       [] walk.for = "hash" ->
            /\ pc' = "encode"
            /\ frames' = Append(frames, [todo |-> types[walk.root], depth |-> walk.depth + 1])
            /\ UNCHANGED <<walk, path, next, reachable>>
  /\ UNCHANGED <<payload, error, scheme, part, budget>>

-----------------------------------------------------------------------------
(* schemeVersionForTypes() *)

\* Mutant: an array of addresses is not taken for an address type.
UsesBareAddress(t) == \E f \in Elements(types[t]) : f.base = "address" /\ f.dims = 0

UsesAddress(t) == \E f \in Elements(types[t]) : f.base = "address"

\* hashStructWithBudget(): the type hash comes first.  The frames are what is
\* left of the values around the struct.
HashStruct(name, depth, values, around) ==
  /\ budget >= values
  /\ Collect(name, "hash", depth)
  /\ frames' = around
  /\ budget' = budget - values
  /\ UNCHANGED <<payload, error, reachable>>

CheckUnused ==
  /\ pc = "unused"
  /\ IF reachable = Structs
       THEN /\ scheme' = IF \E t \in Structs : UsesAddress(t) THEN "v2" ELSE "v1"
            /\ HashStruct(QRLDomain, 0, 1, <<>>)
            /\ UNCHANGED part
       ELSE Fail("unused")

-----------------------------------------------------------------------------
(* encodeFieldWithBudget() *)

Frame == frames[Len(frames)]
Below == SubSeq(frames, 1, Len(frames) - 1)
Coming == Head(Frame.todo)
Taken == Append(Below, [Frame EXCEPT !.todo = Tail(@)])

Due == pc = "encode" /\ Frame.todo # <<>>

RejectNesting ==
  Due /\ Frame.depth > MaxTypeGraphDepth + MaxArrayNesting /\ Fail("depth")

Encodable == Due /\ Frame.depth <= MaxTypeGraphDepth + MaxArrayNesting

\* No value left in the budget, a value that does not fit its type, or an
\* address that does not fit the slot of the scheme
RejectValue ==
  /\ Encodable
  /\ \/ budget = 0 /\ Fail("budget")
     \/ budget > 0 /\ Fail("value")
     \/ /\ budget > 0 /\ Coming.dims = 0 /\ Coming.base = "address" /\ scheme = "v1"
        /\ Fail("slot")

EncodeAtom ==
  /\ Encodable /\ budget > 0
  /\ Coming.dims = 0
  /\ Coming.base = "plain" \/ (Coming.base = "address" /\ scheme = "v2")
  /\ frames' = Taken
  /\ budget' = budget - 1
  /\ UNCHANGED <<payload, pc, error, walk, path, next, reachable, scheme, part>>

EncodeArray ==
  /\ Encodable /\ budget > 0
  /\ Coming.dims > 0
  /\ \E n \in 0 .. MaxArrayLength :
       frames' = Append(Taken, [todo |-> [i \in 1 .. n |-> [Coming EXCEPT !.dims = @ - 1]],
                                depth |-> Frame.depth + 1])
  /\ budget' = budget - 1
  /\ UNCHANGED <<payload, pc, error, walk, path, next, reachable, scheme, part>>

\* A struct is one value as a field and one in hashStructWithBudget().
EncodeStruct ==
  /\ Encodable /\ budget > 0
  /\ Coming.dims = 0 /\ Coming.base \in Structs
  /\ IF budget >= 2
       THEN HashStruct(Coming.base, Frame.depth + 1, 2, Taken) /\ UNCHANGED <<scheme, part>>
       ELSE Fail("budget")

LeaveValue ==
  /\ pc = "encode" /\ Frame.todo = <<>>
  /\ Len(frames) > 1
  /\ frames' = Below
  /\ UNCHANGED <<payload, pc, error, walk, path, next, reachable, scheme, part, budget>>

\* The message is hashed after the domain, from what is left of the budget.
HalfHashed ==
  /\ pc = "encode" /\ Frame.todo = <<>>
  /\ Len(frames) = 1
  /\ CASE part = "domain" /\ budget = 0 -> Fail("budget")
       [] part = "domain" /\ budget > 0 ->
            part' = "message" /\ HashStruct(primary, 0, 1, <<>>) /\ UNCHANGED scheme
       [] part = "message" ->
            /\ pc' = "digest"
            /\ UNCHANGED <<payload, error, walk, path, next, reachable, scheme, part, frames,
                           budget>>

-----------------------------------------------------------------------------
Collecting ==
  \/ RejectDeep
  \/ RejectCycle
  \/ Visit
  \/ ParseField
  \/ Leave
  \/ Collected

Encoding ==
  \/ RejectNesting
  \/ RejectValue
  \/ EncodeAtom
  \/ EncodeArray
  \/ EncodeStruct
  \/ LeaveValue
  \/ HalfHashed

Next ==
  \/ CheckTypes
  \/ CheckDomain
  \/ Collecting
  \/ CheckUnused
  \/ Encoding

Spec == Init /\ [][Next]_vars

-----------------------------------------------------------------------------
(* Properties, against definitions of what the walks are to find out *)

Refs(t) == {f.base : f \in Elements(types[t])} \cap Structs

Closed(S) == \A t \in S : Refs(t) \subseteq S

Reachable ==
  {t \in Structs : \A S \in SUBSET Structs :
     Closed(S) /\ {QRLDomain, primary} \subseteq S => t \in S}

\* Every set of types has one that refers to none of them.
Acyclic == \A S \in SUBSET Structs : S # {} => \E t \in S : Refs(t) \cap S = {}

DeepPath ==
  \E p \in [1 .. MaxTypeGraphDepth + 2 -> Structs] :
    \A i \in 1 .. MaxTypeGraphDepth + 1 : p[i + 1] \in Refs(p[i])

Parses ==
  \A t \in Structs : \A f \in Elements(types[t]) :
    f.base # "invalid" /\ f.dims <= MaxArrayNesting

Accepted == scheme # "none"

\* Only payloads whose types refer to each other without a cycle, are all
\* reachable and all parse are accepted; and what the walk rejects one for is
\* so, whichever order it visits the types in.
VerdictIsRight ==
  /\ Accepted => Acyclic /\ Reachable = Structs /\ Parses
  /\ error = "cyclic" => ~Acyclic
  /\ error = "deep" => DeepPath
  /\ error = "field" => ~Parses
  /\ error = "unused" => Reachable # Structs

\* A payload is v2 exactly if an address type is reachable, array or not: an
\* address never meets a slot that is too small for it (the head of the file).
SchemeFits ==
  /\ Accepted => (scheme = "v2" <=> \E t \in Reachable : UsesAddress(t))
  /\ error # "slot"
=============================================================================
