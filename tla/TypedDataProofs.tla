--------------------------- MODULE TypedDataProofs ---------------------------
(*****************************************************************************)
(* Theorems about TypedData, for every type map, every order of fields and   *)
(* all limits: what the walks of collectDependencies() find out about the    *)
(* types of a payload is so, and an address finds a slot that fits.          *)
(*****************************************************************************)
EXTENDS TypedData, TLAPS

\* A type that is left with all its fields looked at.
Done == Visited \ Elements(path)

Parsed(f) == f.base # "invalid" /\ f.dims <= MaxArrayNesting

AllParsed(S) == \A t \in S : \A f \in Elements(types[t]) : Parsed(f)

\* Acyclic, of some types only.
AcyclicIn(T) == \A S \in SUBSET T : S # {} => \E t \in S : Refs(t) \cap S = {}

\* No set of types that holds the root and what its types refer to lacks one.
OnlyFrom(T, roots) ==
  \A S \in SUBSET Structs : Closed(S) /\ roots \subseteq S => T \subseteq S

\* The path leads from the root to the type looked at, each type by a field of
\* the one before.
PathInv ==
  /\ Len(path) > 0 /\ path[1] = walk.root
  /\ \A i, j \in 1 .. Len(path) : i < j => path[i] # path[j]
  /\ \A i \in 1 .. Len(path) - 1 : path[i + 1] \in Refs(path[i])
  /\ Elements(path) \subseteq Visited

\* The fields looked at parse, and refer to types that are done.
SeenInv ==
  \A t \in Visited : \A i \in 1 .. Len(types[t]) :
    i < next[t] =>
      Parsed(types[t][i]) /\ (types[t][i].base \in Structs => types[t][i].base \in Done)

\* Types that are done have all their fields looked at, and no cycle.
DoneInv ==
  /\ \A t \in Done : next[t] > Len(types[t])
  /\ AcyclicIn(Done)

WalkInv ==
  pc = "collect" =>
    PathInv /\ SeenInv /\ DoneInv /\ OnlyFrom(Visited, {walk.root})

\* What is known of a set of types when the walks from these roots are over.
Known(T, roots) ==
  Closed(T) /\ AcyclicIn(T) /\ AllParsed(T) /\ OnlyFrom(T, roots)

\* How far the walks have come.
ReachInv ==
  /\ Known(reachable, {QRLDomain, primary})
  /\ pc = "collect" /\ walk.for = "domain" => walk.root = QRLDomain
  /\ pc = "collect" /\ walk.for = "primary" =>
       walk.root = primary /\ QRLDomain \in reachable
  /\ pc = "unused" => {QRLDomain, primary} \subseteq reachable
  /\ pc \in {"encode", "digest"} \/ (pc = "collect" /\ walk.for = "hash") => Accepted
  /\ Accepted =>
       /\ reachable = Structs
       /\ scheme = "v2" <=> \E t \in Structs : UsesAddress(t)

AFrame == [todo : Seq(Fields), depth : Nat]

\* A value is of a type of the payload, or an element of such.
OfPayload(f) == \E t \in Structs : \E g \in Elements(types[t]) : g.base = f.base

AllOfPayload(s) == \A i \in 1 .. Len(s) : \A f \in Elements(s[i].todo) : OfPayload(f)

FramesInv ==
  /\ pc = "encode" => Len(frames) > 0
  /\ AllOfPayload(frames)

\* What the payload was rejected for.
ErrorInv ==
  /\ error = "cyclic" => ~Acyclic
  /\ error = "deep" => DeepPath
  /\ error = "field" => ~Parses
  /\ error = "unused" => Reachable # Structs
  /\ error # "slot"

TypedDataInv == TypeOK /\ WalkInv /\ ReachInv /\ FramesInv /\ ErrorInv

-----------------------------------------------------------------------------
(* Sets of types *)

\* A type that refers to types of T only may be added to T.
LEMMA AcyclicAdd ==
  ASSUME NEW T, AcyclicIn(T), Closed(T), NEW t, t \notin T, Refs(t) \subseteq T
  PROVE  AcyclicIn(T \cup {t})
<1> SUFFICES ASSUME NEW S \in SUBSET (T \cup {t}), S # {}
             PROVE  \E u \in S : Refs(u) \cap S = {}
  BY DEF AcyclicIn
<1>1. CASE S \cap T = {}
  <2>1. S = {t}
    BY <1>1
  <2>2. QED BY <2>1
<1>2. CASE S \cap T # {}
  <2>1. PICK u \in S \cap T : Refs(u) \cap (S \cap T) = {}
    BY <1>2 DEF AcyclicIn
  <2>2. Refs(u) \subseteq T
    BY <2>1 DEF Closed
  <2>3. QED BY <2>1, <2>2
<1>3. QED BY <1>1, <1>2

\* What two walks have found out holds of both their types together.
LEMMA KnownUnion ==
  ASSUME NEW A, NEW B, NEW R, NEW Q, Known(A, R), Known(B, Q)
  PROVE  Known(A \cup B, R \cup Q)
<1>1. Closed(A \cup B) /\ AllParsed(A \cup B) /\ OnlyFrom(A \cup B, R \cup Q)
  BY DEF Known, Closed, AllParsed, OnlyFrom
<1>2. ASSUME NEW S \in SUBSET (A \cup B), S # {}
      PROVE  \E t \in S : Refs(t) \cap S = {}
  <2>1. CASE S \cap A = {}
    <3>1. S \in SUBSET B
      BY <2>1
    <3>2. QED BY <1>2, <3>1 DEF Known, AcyclicIn
  <2>2. CASE S \cap A # {}
    <3>1. PICK t \in S \cap A : Refs(t) \cap (S \cap A) = {}
      BY <2>2 DEF Known, AcyclicIn
    <3>2. Refs(t) \subseteq A
      BY <3>1 DEF Known, Closed
    <3>3. QED BY <3>1, <3>2
  <2>3. QED BY <2>1, <2>2
<1>3. QED BY <1>1, <1>2 DEF Known, AcyclicIn

\* A type all of whose fields were looked at parses and refers to done types.
LEMMA SeenRefs ==
  ASSUME TypeOK, SeenInv, NEW t \in Visited, next[t] > Len(types[t])
  PROVE  Refs(t) \subseteq Done /\ \A f \in Elements(types[t]) : Parsed(f)
<1>1. t \in Structs /\ next[t] \in Nat /\ types[t] \in Seq(Fields)
  BY DEF TypeOK, Visited
<1>2. ASSUME NEW i \in 1 .. Len(types[t])
      PROVE  /\ Parsed(types[t][i])
             /\ types[t][i].base \in Structs => types[t][i].base \in Done
  BY <1>1, <1>2 DEF SeenInv
<1>3. QED BY <1>2 DEF Refs, Elements

\* All this depends on the payload only, which never changes.
LEMMA SameTypes ==
  ASSUME UNCHANGED payload
  PROVE  /\ \A S : Elements(S)' = Elements(S)
         /\ \A t : Refs(t)' = Refs(t) /\ UsesAddress(t)' = UsesAddress(t)
         /\ \A S : Closed(S)' = Closed(S)
         /\ \A T, R : Known(T, R)' = Known(T, R)
         /\ Acyclic' = Acyclic /\ DeepPath' = DeepPath /\ Parses' = Parses
         /\ Reachable' = Reachable
<1>1. types' = types /\ primary' = primary
  BY DEF payload
<1>2. ASSUME NEW t PROVE Refs(t)' = Refs(t)
  BY <1>1 DEF Refs, Elements
<1>3. ASSUME NEW t PROVE UsesAddress(t)' = UsesAddress(t)
  BY <1>1 DEF UsesAddress, Elements
<1>4. ASSUME NEW S PROVE Closed(S)' = Closed(S)
  BY <1>2 DEF Closed
<1>5. ASSUME NEW T PROVE AcyclicIn(T)' = AcyclicIn(T)
  BY <1>2 DEF AcyclicIn
<1>6. ASSUME NEW T PROVE AllParsed(T)' = AllParsed(T)
  BY <1>1 DEF AllParsed, Elements, Parsed
<1>7. ASSUME NEW T, NEW R PROVE OnlyFrom(T, R)' = OnlyFrom(T, R)
  BY <1>4 DEF OnlyFrom
<1>8. ASSUME NEW T, NEW R PROVE Known(T, R)' = Known(T, R)
  BY <1>4, <1>5, <1>6, <1>7 DEF Known
<1>9. Acyclic' = Acyclic
  BY <1>2 DEF Acyclic
<1>10. DeepPath' = DeepPath
  BY <1>2 DEF DeepPath
<1>11. Parses' = Parses
  BY <1>1 DEF Parses, Elements
<1>12. Reachable' = Reachable
  BY <1>1, <1>4 DEF Reachable
<1>13. \A S : Elements(S)' = Elements(S)
  BY DEF Elements
<1>14. QED BY <1>2, <1>3, <1>4, <1>8, <1>9, <1>10, <1>11, <1>12, <1>13

-----------------------------------------------------------------------------
(* The walks *)

\* While the payload does not fail, what it would have failed for is not asked.
LEMMA SameError ==
  ASSUME ErrorInv, UNCHANGED <<payload, error>>
  PROVE  ErrorInv'
  BY SameTypes DEF ErrorInv

\* What is known of the reachable types is known as long as they are the same.
LEMMA SameReach ==
  ASSUME ReachInv, UNCHANGED <<payload, reachable, scheme>>,
         pc' = "collect" => pc = "collect" /\ UNCHANGED walk,
         pc' # "unused",
         pc' \in {"encode", "digest"} =>
           pc \in {"encode", "digest"} \/ (pc = "collect" /\ walk.for = "hash")
  PROVE  ReachInv'
<1>1. primary' = primary /\ reachable' = reachable /\ Accepted' = Accepted
  BY DEF payload, Accepted
<1>2. Known(reachable, {QRLDomain, primary})'
  <2>1. Known(reachable, {QRLDomain, primary})
    BY DEF ReachInv
  <2>2. Known(reachable, {QRLDomain, primary})'
          = Known(reachable, {QRLDomain, primary})
    BY <1>1, SameTypes
  <2>3. QED BY <2>1, <2>2
<1>3. \A t : UsesAddress(t)' = UsesAddress(t)
  BY SameTypes
<1>4. QED BY <1>1, <1>2, <1>3 DEF ReachInv

LEMMA SameWalk ==
  ASSUME WalkInv, UNCHANGED <<payload, pc, walk, path, next>>
  PROVE  WalkInv'
<1>1. types' = types /\ path' = path /\ next' = next /\ walk' = walk /\ pc' = pc
  BY DEF payload
<1>2. Visited' = Visited /\ Done' = Done /\ Elements(path)' = Elements(path)
  BY <1>1 DEF Visited, Done, Elements
<1>3. PathInv => PathInv'
  BY <1>1, <1>2, SameTypes DEF PathInv, Elements
<1>4. SeenInv => SeenInv'
  BY <1>1, <1>2 DEF SeenInv, Parsed
<1>5. DoneInv => DoneInv'
  BY <1>1, <1>2, SameTypes DEF DoneInv, AcyclicIn
<1>6. OnlyFrom(Visited, {walk.root}) => OnlyFrom(Visited, {walk.root})'
  BY <1>1, <1>2, SameTypes DEF OnlyFrom
<1>7. QED BY <1>1, <1>3, <1>4, <1>5, <1>6 DEF WalkInv

LEMMA SameValues ==
  ASSUME NEW s, AllOfPayload(s), frames' = s, types' = types
  PROVE  AllOfPayload(frames)'
<1>1. \A f : OfPayload(f)' = OfPayload(f)
  BY DEF OfPayload, Elements
<1>2. \A i \in 1 .. Len(frames') : Elements(frames[i].todo)' = Elements(s[i].todo)
  BY DEF Elements
<1>3. QED BY <1>1, <1>2 DEF AllOfPayload

LEMMA SameFrames ==
  ASSUME FramesInv, UNCHANGED <<payload, frames>>, pc' = "encode" => pc = "encode"
  PROVE  FramesInv'
<1>1. types' = types /\ frames' = frames
  BY DEF payload
<1>2. AllOfPayload(frames)'
  BY <1>1, SameValues DEF FramesInv
<1>3. QED BY <1>1, <1>2 DEF FramesInv

\* A failure is remembered with its reason, and nothing goes on after it.
LEMMA FailInv ==
  ASSUME TypedDataInv, NEW e, Fail(e),
         e \in {"types", "domain", "deep", "cyclic", "field", "unused", "value", "depth",
                "budget"},
         e = "cyclic" => ~Acyclic,
         e = "deep" => DeepPath,
         e = "field" => ~Parses,
         e = "unused" => Reachable # Structs
  PROVE  TypedDataInv'
<1> USE DEF TypedDataInv, Fail, payload
<1>1. TypeOK'
  BY DEF TypeOK
<1>2. WalkInv'
  BY DEF WalkInv
<1>3. FramesInv'
  BY SameFrames
<1>4. ReachInv'
  BY SameReach
<1>5. ErrorInv'
  BY SameTypes DEF ErrorInv
<1>6. QED BY <1>1, <1>2, <1>3, <1>4, <1>5

\* A walk begins at its root, with nothing done.
LEMMA CollectWalk ==
  ASSUME NEW root \in Structs, NEW for, NEW depth, Collect(root, for, depth),
         types \in [Structs -> Seq(Fields)], UNCHANGED payload
  PROVE  WalkInv' /\ path' \in Seq(Structs) /\ next' \in [Structs -> Nat]
<1>1. /\ path' = <<root>> /\ walk'.root = root
      /\ next' = [t \in Structs |-> IF t = root THEN 1 ELSE 0]
  BY DEF Collect
<1>2. Visited' = {root} /\ Elements(path') = {root} /\ Len(path') = 1
  BY <1>1 DEF Visited, Elements
<1>3. Done' = {}
  BY <1>2 DEF Done, Elements
<1>4. PathInv'
  BY <1>1, <1>2 DEF PathInv, Elements
<1>5. SeenInv'
  BY <1>1, <1>2 DEF SeenInv
<1>6. DoneInv'
  BY <1>3 DEF DoneInv, AcyclicIn
<1>7. OnlyFrom(Visited, {walk.root})'
  BY <1>1, <1>2 DEF OnlyFrom
<1>8. QED BY <1>1, <1>4, <1>5, <1>6, <1>7 DEF WalkInv

\* The field looked at is one of the type at the end of the path.
LEMMA LookingAt ==
  ASSUME TypeOK, WalkInv, pc = "collect"
  PROVE  /\ Len(path) \in Nat \ {0} /\ Top \in Structs /\ Top \in Visited
         /\ Top \in Elements(path) /\ Top \notin Done
         /\ next[Top] \in Nat \ {0} /\ types[Top] \in Seq(Fields)
         /\ next[Top] <= Len(types[Top]) =>
              /\ next[Top] \in 1 .. Len(types[Top])
              /\ Field \in Fields /\ Field \in Elements(types[Top])
              /\ Field.base \in Structs => Field.base \in Refs(Top)
<1>1. PathInv /\ path \in Seq(Structs)
  BY DEF WalkInv, TypeOK
<1>2. Len(path) \in Nat \ {0}
  BY <1>1 DEF PathInv
<1>3. Top \in Structs /\ Top \in Elements(path)
  BY <1>1, <1>2 DEF Top, Elements
<1>4. Top \in Visited /\ Top \notin Done
  BY <1>1, <1>3 DEF PathInv, Done
<1>5. next[Top] \in Nat \ {0} /\ types[Top] \in Seq(Fields)
  BY <1>3, <1>4 DEF Visited, TypeOK
<1>6. ASSUME next[Top] <= Len(types[Top])
      PROVE  /\ next[Top] \in 1 .. Len(types[Top])
             /\ Field \in Fields /\ Field \in Elements(types[Top])
             /\ Field.base \in Structs => Field.base \in Refs(Top)
  <2>1. next[Top] \in 1 .. Len(types[Top])
    BY <1>5, <1>6
  <2>2. Field \in Fields /\ Field \in Elements(types[Top])
    BY <1>5, <2>1 DEF Field, Elements
  <2>3. QED BY <2>1, <2>2 DEF Refs
<1>7. QED BY <1>2, <1>3, <1>4, <1>5, <1>6

\* The path and the next type make a path that is too long.
LEMMA RejectDeepInv ==
  ASSUME TypedDataInv, RejectDeep PROVE TypedDataInv'
<1> USE DEF TypedDataInv
<1>1. /\ pc = "collect" /\ next[Top] <= Len(types[Top])
      /\ Field.base \in Structs /\ Len(path) > MaxTypeGraphDepth
      /\ Fail("deep") /\ path \in Seq(Structs) /\ PathInv
  BY DEF RejectDeep, Looking, TooDeep, TypeOK, WalkInv
<1>2. Len(path) \in Nat \ {0} /\ Field.base \in Refs(Top)
  BY <1>1, LookingAt
<1>3. MaxTypeGraphDepth \in Nat
  BY TypedDataAssumption
<1> DEFINE p == [i \in 1 .. MaxTypeGraphDepth + 2 |->
                   IF i <= Len(path) THEN path[i] ELSE Field.base]
<1>4. p \in [1 .. MaxTypeGraphDepth + 2 -> Structs]
  BY <1>1, <1>2, <1>3
<1>5. ASSUME NEW i \in 1 .. MaxTypeGraphDepth + 1 PROVE p[i + 1] \in Refs(p[i])
  <2>1. i \in 1 .. Len(path) /\ p[i] = path[i]
        /\ i + 1 \in 1 .. MaxTypeGraphDepth + 2
    BY <1>1, <1>2, <1>3
  <2>2. CASE i < Len(path)
    <3>1. p[i + 1] = path[i + 1] /\ i \in 1 .. Len(path) - 1
      BY <1>2, <2>1, <2>2
    <3>2. QED BY <1>1, <2>1, <3>1 DEF PathInv
  <2>3. CASE i = Len(path)
    <3>1. p[i] = Top
      BY <2>1, <2>3 DEF Top
    <3>2. ~(i + 1 <= Len(path))
      BY <1>2, <2>3
    <3>3. p[i + 1] = Field.base
      BY <2>1, <3>2
    <3>4. QED BY <1>2, <3>1, <3>3
  <2>4. QED BY <1>2, <2>1, <2>2, <2>3
<1> HIDE DEF p
<1>6. DeepPath
  BY <1>4, <1>5 DEF DeepPath
<1>7. QED BY <1>1, <1>6, FailInv

\* From the type on the path that the field names, the path is a cycle.
LEMMA RejectCycleInv ==
  ASSUME TypedDataInv, RejectCycle PROVE TypedDataInv'
<1> USE DEF TypedDataInv
<1>1. /\ pc = "collect" /\ next[Top] <= Len(types[Top])
      /\ Field.base \in Elements(path)
      /\ Fail("cyclic") /\ path \in Seq(Structs) /\ PathInv
  BY DEF RejectCycle, Looking, OnPath, TypeOK, WalkInv
<1>2. Len(path) \in Nat \ {0}
  BY <1>1, LookingAt
<1>3. PICK k \in 1 .. Len(path) : Field.base = path[k]
  BY <1>1 DEF Elements
<1>4. Field.base \in Refs(Top)
  BY <1>1, <1>2, <1>3, LookingAt
<1> DEFINE S == {path[i] : i \in k .. Len(path)}
<1>5. S \in SUBSET Structs /\ path[k] \in S
  BY <1>1, <1>2, <1>3
<1>6. ASSUME NEW t \in S PROVE Refs(t) \cap S # {}
  <2>1. PICK i \in k .. Len(path) : t = path[i]
    BY <1>6
  <2>2. CASE i < Len(path)
    <3>1. i \in 1 .. Len(path) - 1 /\ i + 1 \in k .. Len(path)
      BY <1>2, <1>3, <2>1, <2>2
    <3>2. path[i + 1] \in Refs(t)
      BY <1>1, <2>1, <3>1 DEF PathInv
    <3> path[i + 1] \in S
      BY <3>1
    <3>3. QED BY <3>2
  <2>3. CASE i = Len(path)
    <3>1. Field.base \in Refs(t)
      BY <1>4, <2>1, <2>3 DEF Top
    <3>2. QED BY <1>3, <1>5, <3>1
  <2>4. QED BY <1>2, <1>3, <2>1, <2>2, <2>3
<1> HIDE DEF S
<1>7. ~Acyclic
  BY <1>5, <1>6 DEF Acyclic
<1>8. QED BY <1>1, <1>7, FailInv

\* A type that is seen for the first time ends the path, and is not done.
LEMMA VisitInv ==
  ASSUME TypedDataInv, Visit PROVE TypedDataInv'
<1> USE DEF TypedDataInv
<1> DEFINE b == Field.base
<1>1. /\ pc = "collect" /\ next[Top] <= Len(types[Top])
      /\ b \in Structs /\ next[b] = 0 /\ b \notin Elements(path)
      /\ path' = Append(path, b) /\ next' = [next EXCEPT ![b] = 1]
      /\ UNCHANGED <<payload, pc, error, walk, reachable, scheme, part, frames, budget>>
      /\ types' = types /\ primary' = primary
      /\ path \in Seq(Structs) /\ next \in [Structs -> Nat]
      /\ PathInv /\ SeenInv /\ DoneInv /\ OnlyFrom(Visited, {walk.root})
  BY DEF Visit, Looking, OnPath, TypeOK, WalkInv, payload
<1>2. Len(path) \in Nat \ {0} /\ b \in Refs(Top) /\ Top \in Visited
  BY <1>1, LookingAt
<1> HIDE DEF b
<1>3. TypeOK'
  BY <1>1 DEF TypeOK
<1>4. /\ Visited' = Visited \cup {b} /\ b \notin Visited
      /\ \A t \in Visited : next'[t] = next[t]
      /\ next'[b] = 1
  BY <1>1 DEF Visited
<1>5. Len(path') = Len(path) + 1 /\ path'[Len(path) + 1] = b
      /\ \A i \in 1 .. Len(path) : path'[i] = path[i]
  BY <1>1, <1>2
<1>6. Elements(path)' = Elements(path) \cup {b}
  BY <1>2, <1>5 DEF Elements
<1>7. Done' = Done
  BY <1>4, <1>6 DEF Done
<1>8. PathInv'
  <2>1. path'[1] = walk'.root /\ Len(path') > 0
    BY <1>1, <1>2, <1>5 DEF PathInv
  <2>2. ASSUME NEW i \in 1 .. Len(path'), NEW j \in 1 .. Len(path'), i < j
        PROVE  path'[i] # path'[j]
    <3>1. i \in 1 .. Len(path)
      BY <1>2, <1>5, <2>2
    <3>2. CASE j = Len(path) + 1
      BY <1>1, <1>5, <3>1, <3>2 DEF Elements
    <3>3. CASE j # Len(path) + 1
      <4>1. j \in 1 .. Len(path)
        BY <1>2, <1>5, <3>3
      <4>2. QED BY <1>1, <1>5, <2>2, <3>1, <4>1 DEF PathInv
    <3>4. QED BY <3>2, <3>3
  <2>3. ASSUME NEW i \in 1 .. Len(path') - 1 PROVE path'[i + 1] \in Refs(path[i])
    <3>1. i \in 1 .. Len(path)
      BY <1>2, <1>5
    <3>2. CASE i = Len(path)
      BY <1>2, <1>5, <3>2 DEF Top
    <3>3. CASE i # Len(path)
      <4>1. i \in 1 .. Len(path) - 1 /\ i + 1 \in 1 .. Len(path)
        BY <1>2, <3>1, <3>3
      <4>2. QED BY <1>1, <1>5, <4>1 DEF PathInv
    <3>4. QED BY <3>2, <3>3
  <2>4. ASSUME NEW i \in 1 .. Len(path') - 1 PROVE path'[i + 1] \in Refs(path[i])'
    <3>1. i \in 1 .. Len(path)
      BY <1>2, <1>5
    <3>2. Refs(path[i])' = Refs(path[i])
      <4>1. path'[i] = path[i]
        BY <1>5, <3>1
      <4>2. QED BY <1>1, <4>1 DEF Refs, Elements
    <3>3. QED BY <2>3, <3>2
  <2>5. Elements(path)' \subseteq Visited'
    BY <1>1, <1>4, <1>6 DEF PathInv
  <2>6. QED BY <2>1, <2>2, <2>4, <2>5 DEF PathInv
<1>9. SeenInv'
  <2>1. SUFFICES ASSUME NEW t \in Visited', NEW i \in 1 .. Len(types[t]), i < next'[t]
                 PROVE  /\ Parsed(types[t][i])
                        /\ types[t][i].base \in Structs => types[t][i].base \in Done
    BY <1>1, <1>7 DEF SeenInv, Parsed
  <2>2. t # b
    BY <1>4, <2>1
  <2>3. QED BY <1>1, <1>4, <2>1, <2>2 DEF SeenInv
<1>10. DoneInv'
  <2>1. \A t \in Done : next'[t] = next[t]
    BY <1>4 DEF Done
  <2>2. AcyclicIn(Done)'
    BY <1>1, <1>7, SameTypes DEF DoneInv, AcyclicIn
  <2>3. QED BY <1>1, <1>7, <2>1, <2>2 DEF DoneInv
<1>11. OnlyFrom(Visited, {walk.root})'
  <2>1. SUFFICES ASSUME NEW S \in SUBSET Structs, Closed(S), walk.root \in S
                 PROVE  Visited' \subseteq S
    BY <1>1, SameTypes DEF OnlyFrom
  <2>2. Visited \subseteq S
    BY <1>1, <2>1 DEF OnlyFrom
  <2>3. b \in S
    BY <1>2, <2>1, <2>2 DEF Closed
  <2>4. QED BY <1>4, <2>2, <2>3
<1>12. WalkInv'
  BY <1>8, <1>9, <1>10, <1>11 DEF WalkInv
<1>13. ReachInv' /\ FramesInv' /\ ErrorInv'
  BY <1>1, SameReach, SameFrames, SameError, TypedDataAssumption DEF ReachInv
<1>14. QED BY <1>3, <1>12, <1>13

\* A field that parses, of a type that is done or of none, is done with.
LEMMA ParseFieldInv ==
  ASSUME TypedDataInv, ParseField PROVE TypedDataInv'
<1> USE DEF TypedDataInv
<1>1. /\ pc = "collect" /\ next[Top] <= Len(types[Top])
      /\ Field.base \notin Elements(path)
      /\ Field.base \in Structs => next[Field.base] > 0
      /\ path \in Seq(Structs) /\ next \in [Structs -> Nat]
      /\ PathInv /\ SeenInv /\ DoneInv /\ OnlyFrom(Visited, {walk.root})
  BY DEF ParseField, Looking, OnPath, TypeOK, WalkInv
<1>2. /\ Top \in Structs /\ Top \in Visited /\ Top \notin Done
      /\ next[Top] \in 1 .. Len(types[Top]) /\ Field \in Elements(types[Top])
      /\ types[Top] \in Seq(Fields) /\ next[Top] \in Nat \ {0}
  BY <1>1, LookingAt
<1>3. Field.base \in Structs => Field.base \in Done
  BY <1>1 DEF Done, Visited
<1>4. CASE ~Parsed(Field)
  <2>1. Fail("field")
    BY <1>4 DEF ParseField, Parsed
  <2>2. ~Parses
    BY <1>2, <1>4 DEF Parses, Parsed
  <2>3. QED BY <2>1, <2>2, FailInv
<1>5. CASE Parsed(Field)
  <2>1. /\ next' = [next EXCEPT ![Top] = next[Top] + 1]
        /\ UNCHANGED <<payload, pc, error, walk, path, reachable, scheme, part, frames,
                       budget>>
        /\ types' = types
    BY <1>5 DEF ParseField, Parsed, payload
  <2>2. TypeOK'
    BY <1>1, <1>2, <2>1 DEF TypeOK, payload
  <2>3. /\ Visited' = Visited
        /\ next'[Top] = next[Top] + 1
        /\ \A t \in Visited \ {Top} : next'[t] = next[t]
    BY <1>1, <1>2, <2>1 DEF Visited
  <2>4. Done' = Done
    BY <2>1, <2>3 DEF Done, Elements
  <2>5. PathInv'
    <3>1. PathInv /\ \A t : Refs(t)' = Refs(t)
      BY <1>1, <2>1, SameTypes
    <3>2. QED BY <2>1, <2>3, <3>1 DEF PathInv, Elements
  <2>6. SeenInv'
    <3>1. SUFFICES ASSUME NEW t \in Visited, NEW i \in 1 .. Len(types[t]), i < next'[t]
                   PROVE  /\ Parsed(types[t][i])
                          /\ types[t][i].base \in Structs => types[t][i].base \in Done
      BY <2>1, <2>3, <2>4 DEF SeenInv, Parsed
    <3>2. CASE t # Top \/ i < next[Top]
      <4>1. i < next[t]
        BY <2>3, <3>1, <3>2
      <4>2. QED BY <1>1, <3>1, <4>1 DEF SeenInv
    <3>3. CASE t = Top /\ i = next[Top]
      BY <1>3, <1>5, <3>3 DEF Field
    <3>4. QED BY <1>2, <2>3, <3>1, <3>2, <3>3
  <2>7. DoneInv'
    <3>1. \A t \in Done : next'[t] = next[t]
      BY <1>2, <2>3 DEF Done
    <3>2. AcyclicIn(Done)'
      BY <1>1, <2>1, <2>4, SameTypes DEF DoneInv, AcyclicIn
    <3>3. QED BY <1>1, <2>1, <2>4, <3>1, <3>2 DEF DoneInv
  <2>8. OnlyFrom(Visited, {walk.root})'
    BY <1>1, <2>1, <2>3, SameTypes DEF OnlyFrom, Closed
  <2>9. WalkInv'
    BY <2>5, <2>6, <2>7, <2>8 DEF WalkInv
  <2>10. ReachInv' /\ FramesInv' /\ ErrorInv'
    BY <1>1, <2>1, SameReach, SameFrames, SameError
  <2>11. QED BY <2>2, <2>9, <2>10
<1>6. QED BY <1>4, <1>5

\* A type is left for the one before when all it refers to is done: then it is
\* done, too.
LEMMA LeaveInv ==
  ASSUME TypedDataInv, Leave PROVE TypedDataInv'
<1> USE DEF TypedDataInv
<1>1. /\ pc = "collect" /\ Len(path) > 1 /\ next[Top] > Len(types[Top])
      /\ path' = SubSeq(path, 1, Len(path) - 1)
      /\ UNCHANGED <<payload, pc, error, walk, next, reachable, scheme, part, frames,
                     budget>>
      /\ types' = types
      /\ path \in Seq(Structs)
      /\ PathInv /\ SeenInv /\ DoneInv /\ OnlyFrom(Visited, {walk.root})
  BY DEF Leave, TypeOK, WalkInv, payload
<1>2. /\ Len(path) \in Nat \ {0, 1} /\ Top \in Visited /\ Top \notin Done
  BY <1>1, LookingAt
<1>3. /\ path' \in Seq(Structs) /\ Len(path') = Len(path) - 1
      /\ \A i \in 1 .. Len(path) - 1 : path'[i] = path[i]
  BY <1>1, <1>2
<1>4. TypeOK'
  BY <1>1, <1>3 DEF TypeOK, payload
<1>5. Elements(path)' = Elements(path) \ {Top}
  <2>1. \A i \in 1 .. Len(path) - 1 : path[i] # Top
    BY <1>1, <1>2 DEF PathInv, Top
  <2>2. \A i \in 1 .. Len(path) : i \in 1 .. Len(path) - 1 \/ path[i] = Top
    BY <1>2 DEF Top
  <2>3. Elements(path)' = {path[i] : i \in 1 .. Len(path) - 1}
    BY <1>3 DEF Elements
  <2>4. \A i \in 1 .. Len(path) - 1 : i \in 1 .. Len(path)
    BY <1>2
  <2>5. QED BY <2>1, <2>2, <2>3, <2>4 DEF Elements
<1>6. Top \in Elements(path)
  BY <1>1, LookingAt
<1>7. Visited' = Visited /\ Done' = Done \cup {Top}
  BY <1>1, <1>2, <1>5, <1>6 DEF Done, Visited
<1>8. PathInv'
  <2>1. \A t : Refs(t)' = Refs(t)
    BY <1>1, SameTypes
  <2>2. \A i \in 1 .. Len(path') : i \in 1 .. Len(path) - 1 /\ i \in 1 .. Len(path)
    BY <1>2, <1>3
  <2>3. \A i \in 1 .. Len(path') - 1 :
          i \in 1 .. Len(path) - 1 /\ i + 1 \in 1 .. Len(path) - 1
    BY <1>2, <1>3
  <2>4. Len(path') > 0 /\ path'[1] = walk'.root
    BY <1>1, <1>2, <1>3 DEF PathInv
  <2>5. \A i, j \in 1 .. Len(path') : i < j => path'[i] # path'[j]
    BY <1>1, <1>3, <2>2 DEF PathInv
  <2>6. \A i \in 1 .. Len(path') - 1 : path'[i + 1] \in Refs(path'[i])
    BY <1>1, <1>3, <2>3 DEF PathInv
  <2>7. \A i \in 1 .. Len(path') - 1 : path'[i + 1] \in Refs(path[i])'
    <3>1. SUFFICES ASSUME NEW i \in 1 .. Len(path') - 1
                   PROVE  path'[i + 1] \in Refs(path[i])'
      OBVIOUS
    <3>2. Refs(path[i])' = Refs(path'[i])
      BY <1>1 DEF Refs, Elements
    <3>3. QED BY <2>6, <3>2
  <2>8. Elements(path)' \subseteq Visited'
    BY <1>1, <1>5, <1>7 DEF PathInv
  <2>9. QED BY <2>4, <2>5, <2>7, <2>8 DEF PathInv
<1>9. SeenInv'
  BY <1>1, <1>7 DEF SeenInv, Parsed
<1>10. DoneInv'
  <2>1. Refs(Top) \subseteq Done
    BY <1>1, <1>2, SeenRefs
  <2>2. Closed(Done)
    BY <1>1, SeenRefs DEF Closed, DoneInv, Done
  <2>3. AcyclicIn(Done \cup {Top})
    BY <1>1, <1>2, <2>1, <2>2, AcyclicAdd DEF DoneInv
  <2>4. AcyclicIn(Done)'
    BY <1>1, <1>7, <2>3, SameTypes DEF AcyclicIn
  <2>5. \A t \in Done' : next'[t] > Len(types'[t])
    BY <1>1, <1>7 DEF DoneInv
  <2>6. QED BY <2>4, <2>5 DEF DoneInv
<1>11. OnlyFrom(Visited, {walk.root})'
  BY <1>1, <1>7, SameTypes DEF OnlyFrom, Closed
<1>12. WalkInv'
  BY <1>8, <1>9, <1>10, <1>11 DEF WalkInv
<1>13. ReachInv' /\ FramesInv' /\ ErrorInv'
  BY <1>1, SameReach, SameFrames, SameError
<1>14. QED BY <1>4, <1>12, <1>13

\* When the root is left, what was visited is closed, without a cycle, and
\* parses, and is reachable from the root.
LEMMA WalkOver ==
  ASSUME TypedDataInv, pc = "collect", Len(path) = 1, next[Top] > Len(types[Top])
  PROVE  Known(Visited, {walk.root}) /\ walk.root \in Visited
<1> USE DEF TypedDataInv
<1>1. PathInv /\ SeenInv /\ DoneInv /\ OnlyFrom(Visited, {walk.root})
      /\ path \in Seq(Structs)
  BY DEF WalkInv, TypeOK
<1>2. Top = walk.root /\ Top \in Visited /\ Top \notin Done /\ Elements(path) = {Top}
  BY <1>1, LookingAt DEF PathInv, Top, Elements
<1>3. Visited = Done \cup {Top}
  BY <1>2 DEF Done
<1>4. ASSUME NEW t \in Visited
      PROVE  Refs(t) \subseteq Done /\ \A f \in Elements(types[t]) : Parsed(f)
  BY <1>1, <1>3, SeenRefs DEF DoneInv
<1>5. Closed(Visited) /\ Closed(Done) /\ AllParsed(Visited)
  BY <1>3, <1>4 DEF Closed, AllParsed
<1>6. AcyclicIn(Visited)
  BY <1>1, <1>2, <1>3, <1>4, <1>5, AcyclicAdd DEF DoneInv
<1>7. QED BY <1>1, <1>2, <1>5, <1>6 DEF Known

\* What is known of one set of types is known of it after the step.
LEMMA KnownNext ==
  ASSUME NEW T, Known(T, {QRLDomain, primary}), UNCHANGED payload, reachable' = T
  PROVE  Known(reachable, {QRLDomain, primary})'
<1>1. primary' = primary
  BY DEF payload
<1>2. Closed(reachable)' /\ AllParsed(reachable)'
  BY SameTypes DEF Known, Closed, AllParsed, Elements, payload, Parsed
<1>3. AcyclicIn(reachable)'
  BY SameTypes DEF Known, AcyclicIn
<1>4. OnlyFrom(reachable, {QRLDomain, primary})'
  BY <1>1, SameTypes DEF Known, OnlyFrom
<1>5. QED BY <1>2, <1>3, <1>4 DEF Known

\* Values of the types of the payload, and one more.
LEMMA OneMore ==
  ASSUME NEW s \in Seq(AFrame), NEW a \in AFrame, AllOfPayload(s),
         \A f \in Elements(a.todo) : OfPayload(f)
  PROVE  /\ Append(s, a) \in Seq(AFrame) /\ Len(Append(s, a)) = Len(s) + 1
         /\ AllOfPayload(Append(s, a))
<1> HIDE DEF AFrame
<1>1. Append(s, a) \in Seq(AFrame) /\ Len(Append(s, a)) = Len(s) + 1
  OBVIOUS
<1>2. ASSUME NEW i \in 1 .. Len(Append(s, a))
      PROVE  (i \in 1 .. Len(s) /\ Append(s, a)[i] = s[i]) \/ Append(s, a)[i] = a
  OBVIOUS
<1>3. QED BY <1>1, <1>2 DEF AllOfPayload

LEMMA Prefix ==
  ASSUME NEW S, NEW s \in Seq(S), NEW n \in Nat, n <= Len(s)
  PROVE  /\ SubSeq(s, 1, n) \in Seq(S) /\ Len(SubSeq(s, 1, n)) = n
         /\ \A i \in 1 .. n : SubSeq(s, 1, n)[i] = s[i]
  OBVIOUS

\* All but the last.
LEMMA AllButLast ==
  ASSUME NEW s \in Seq(AFrame), Len(s) > 0, AllOfPayload(s)
  PROVE  /\ SubSeq(s, 1, Len(s) - 1) \in Seq(AFrame)
         /\ Len(SubSeq(s, 1, Len(s) - 1)) = Len(s) - 1
         /\ AllOfPayload(SubSeq(s, 1, Len(s) - 1))
         /\ Len(s) \in Nat \ {0} /\ s[Len(s)] \in AFrame
         /\ \A f \in Elements(s[Len(s)].todo) : OfPayload(f)
<1>1. Len(s) \in Nat \ {0} /\ Len(s) \in 1 .. Len(s)
  OBVIOUS
<1>2. s[Len(s)] \in AFrame
  BY <1>1
<1> DEFINE n == Len(s) - 1
<1>3. n \in Nat /\ n <= Len(s)
  BY <1>1
<1>4. \A i \in 1 .. n : i \in 1 .. Len(s)
  BY <1>1
<1> HIDE DEF n
<1>5. /\ SubSeq(s, 1, n) \in Seq(AFrame) /\ Len(SubSeq(s, 1, n)) = n
      /\ \A i \in 1 .. n : SubSeq(s, 1, n)[i] = s[i]
  BY <1>3, Prefix
<1>6. AllOfPayload(SubSeq(s, 1, n))
  BY <1>4, <1>5 DEF AllOfPayload
<1>7. \A f \in Elements(s[Len(s)].todo) : OfPayload(f)
  BY <1>1 DEF AllOfPayload
<1>8. QED BY <1>1, <1>2, <1>5, <1>6, <1>7 DEF n

LEMMA NextFrames ==
  ASSUME NEW s, AllOfPayload(s), frames' = s, types' = types, Len(frames') > 0
  PROVE  FramesInv'
<1>1. AllOfPayload(frames)'
  BY SameValues
<1>2. QED BY <1>1 DEF FramesInv

\* The end of a walk adds what it has found out to what was known.
LEMMA CollectedInv ==
  ASSUME TypedDataInv, Collected PROVE TypedDataInv'
<1> USE DEF TypedDataInv
<1>1. /\ pc = "collect" /\ Len(path) = 1 /\ next[Top] > Len(types[Top])
      /\ UNCHANGED <<payload, error, scheme, part, budget>>
      /\ types' = types /\ primary' = primary
      /\ walk.for \in {"domain", "primary", "hash"} /\ walk.root \in Structs
      /\ walk.depth \in Nat /\ primary \in Structs
      /\ types \in [Structs -> Seq(Fields)] /\ frames \in Seq(AFrame)
  BY DEF Collected, payload, TypeOK, AFrame
<1>2. Known(Visited, {walk.root}) /\ walk.root \in Visited
  BY <1>1, WalkOver
<1>3. Visited \subseteq Structs /\ reachable \subseteq Structs
  BY DEF Visited, TypeOK
<1>4. ErrorInv'
  BY <1>1, SameError
<1>5. ASSUME walk.root \in {QRLDomain, primary}, reachable' = reachable \cup Visited
      PROVE  Known(reachable, {QRLDomain, primary})'
  <2>1. Known(reachable, {QRLDomain, primary})
    BY DEF ReachInv
  <2>2. Known(reachable \cup Visited, {QRLDomain, primary} \cup {walk.root})
    BY <1>2, <2>1, KnownUnion
  <2>3. {QRLDomain, primary} \cup {walk.root} = {QRLDomain, primary}
    BY <1>5
  <2>4. Known(reachable \cup Visited, {QRLDomain, primary})
    BY <2>2, <2>3
  <2>5. QED BY <1>1, <1>5, <2>4, KnownNext
<1>6. ASSUME reachable' = reachable \cup Visited
      PROVE  Accepted' => /\ reachable' = Structs
                          /\ scheme' = "v2" <=> \E t \in Structs : UsesAddress(t)'
  BY <1>1, <1>3, <1>6, SameTypes DEF ReachInv, Accepted
<1>7. CASE walk.for = "domain"
  <2>1. /\ reachable' = reachable \cup Visited
        /\ Collect(primary, "primary", 0) /\ frames' = frames
    BY <1>7 DEF Collected
  <2>2. /\ WalkInv' /\ path' \in Seq(Structs) /\ next' \in [Structs -> Nat]
        /\ pc' = "collect" /\ walk' = [root |-> primary, for |-> "primary", depth |-> 0]
    BY <1>1, <2>1, CollectWalk DEF Collect
  <2>3. TypeOK'
    BY <1>1, <1>3, <2>1, <2>2 DEF TypeOK
  <2>4. walk.root = QRLDomain
    BY <1>1, <1>7 DEF ReachInv
  <2>5. ReachInv'
    BY <1>1, <1>2, <1>5, <1>6, <2>1, <2>2, <2>4 DEF ReachInv
  <2>6. FramesInv'
    BY <1>1, <2>1, <2>2, SameFrames
  <2>7. QED BY <1>4, <2>2, <2>3, <2>5, <2>6
<1>8. CASE walk.for = "primary"
  <2>1. /\ reachable' = reachable \cup Visited /\ pc' = "unused"
        /\ UNCHANGED <<walk, path, next, frames>>
    BY <1>8 DEF Collected
  <2>2. TypeOK' /\ WalkInv'
    BY <1>1, <1>3, <2>1 DEF TypeOK, WalkInv
  <2>3. walk.root = primary /\ QRLDomain \in reachable
    BY <1>1, <1>8 DEF ReachInv
  <2>4. ReachInv'
    BY <1>1, <1>2, <1>5, <1>6, <2>1, <2>3 DEF ReachInv
  <2>5. FramesInv'
    BY <1>1, <2>1, SameFrames
  <2>6. QED BY <1>4, <2>2, <2>4, <2>5
<1>9. CASE walk.for = "hash"
  <2> DEFINE fr == [todo |-> types[walk.root], depth |-> walk.depth + 1]
  <2>1. /\ pc' = "encode" /\ frames' = Append(frames, fr)
        /\ UNCHANGED <<walk, path, next, reachable>>
    BY <1>9 DEF Collected
  <2>2. fr \in AFrame /\ fr.todo = types[walk.root]
    BY <1>1 DEF AFrame
  <2> HIDE DEF fr
  <2>3. TypeOK' /\ WalkInv'
    BY <1>1, <2>1, <2>2 DEF TypeOK, WalkInv, AFrame
  <2>4. ReachInv'
    BY <1>1, <1>9, <2>1, SameReach
  <2>5. FramesInv'
    <3>1. \A f \in Elements(fr.todo) : OfPayload(f)
      BY <1>1, <2>2 DEF OfPayload
    <3>2. AllOfPayload(Append(frames, fr)) /\ Len(Append(frames, fr)) = Len(frames) + 1
      BY <1>1, <2>2, <3>1, OneMore DEF FramesInv
    <3>3. Len(frames) \in Nat
      BY <1>1
    <3>4. Len(frames') > 0
      BY <2>1, <3>2, <3>3
    <3>5. QED BY <1>1, <2>1, <3>2, <3>4, NextFrames
  <2>6. QED BY <1>4, <2>3, <2>4, <2>5
<1>10. QED BY <1>1, <1>7, <1>8, <1>9

-----------------------------------------------------------------------------
(* The scheme and the values *)

\* The type hash of a struct comes before its values.
LEMMA HashStructInv ==
  ASSUME TypeOK, ErrorInv, NEW name \in Structs, NEW depth \in Nat, NEW n \in Nat,
         NEW around \in Seq(AFrame),
         HashStruct(name, depth, n, around),
         scheme' \in {"none", "v1", "v2"}, part' \in {"domain", "message"},
         AllOfPayload(around)
  PROVE  TypeOK' /\ WalkInv' /\ FramesInv' /\ ErrorInv'
<1>1. /\ Collect(name, "hash", depth) /\ frames' = around
      /\ budget' = budget - n /\ budget >= n
      /\ UNCHANGED <<payload, error, reachable>>
      /\ types' = types /\ primary' = primary
      /\ types \in [Structs -> Seq(Fields)] /\ budget \in Nat
  BY DEF HashStruct, payload, TypeOK
<1>2. /\ WalkInv' /\ path' \in Seq(Structs) /\ next' \in [Structs -> Nat]
      /\ pc' = "collect" /\ walk' = [root |-> name, for |-> "hash", depth |-> depth]
  BY <1>1, CollectWalk DEF Collect
<1>3. TypeOK'
  BY <1>1, <1>2 DEF TypeOK, AFrame
<1>4. FramesInv'
  <2>1. AllOfPayload(frames)'
    BY <1>1, SameValues
  <2>2. QED BY <1>2, <2>1 DEF FramesInv
<1>5. ErrorInv'
  BY <1>1, SameError
<1>6. QED BY <1>2, <1>3, <1>4, <1>5

LEMMA NoFrames == <<>> \in Seq(AFrame) /\ AllOfPayload(<<>>) /\ 0 \in Nat /\ 1 \in Nat
  BY DEF AllOfPayload

\* While structs are hashed, nothing is found out about types.
LEMMA HashedReach ==
  ASSUME ReachInv, pc = "encode", UNCHANGED scheme, NEW name, NEW depth, NEW n, NEW around,
         HashStruct(name, depth, n, around)
  PROVE  ReachInv'
<1>1. pc' = "collect" /\ walk'.for = "hash" /\ UNCHANGED <<payload, reachable>>
      /\ primary' = primary /\ reachable' = reachable
  BY DEF HashStruct, Collect, payload
<1>2. Known(reachable, {QRLDomain, primary})'
  BY <1>1, KnownNext DEF ReachInv
<1>3. QED BY <1>1, <1>2, SameTypes DEF ReachInv, Accepted

\* Every type is reachable, or one is not.
LEMMA CheckUnusedInv ==
  ASSUME TypedDataInv, CheckUnused PROVE TypedDataInv'
<1> USE DEF TypedDataInv
<1>1. pc = "unused" /\ {QRLDomain, primary} \subseteq reachable
      /\ Known(reachable, {QRLDomain, primary}) /\ reachable \subseteq Structs
  BY DEF CheckUnused, ReachInv, TypeOK
<1>2. CASE reachable # Structs
  <2>1. Fail("unused")
    BY <1>2 DEF CheckUnused
  <2>2. Reachable \subseteq reachable
    BY <1>1 DEF Reachable, Known
  <2>3. QED BY <1>1, <1>2, <2>1, <2>2, FailInv
<1>3. CASE reachable = Structs
  <2>1. /\ scheme' = IF \E t \in Structs : UsesAddress(t) THEN "v2" ELSE "v1"
        /\ HashStruct(QRLDomain, 0, 1, <<>>) /\ part' = part
    BY <1>3 DEF CheckUnused
  <2>2. /\ pc' = "collect" /\ walk'.for = "hash" /\ walk'.root = QRLDomain
        /\ UNCHANGED <<payload, error, reachable>>
    BY <2>1 DEF HashStruct, Collect
  <2>3. TypeOK' /\ WalkInv' /\ FramesInv' /\ ErrorInv'
    <3>1. TypeOK /\ ErrorInv /\ scheme' \in {"none", "v1", "v2"}
          /\ part' \in {"domain", "message"} /\ QRLDomain \in Structs
      BY <2>1, TypedDataAssumption DEF TypeOK
    <3>2. QED BY <2>1, <3>1, NoFrames, HashStructInv
  <2>4. Known(reachable, {QRLDomain, primary})'
    BY <1>1, <2>2, KnownNext
  <2>5. scheme' # "none" /\ (scheme' = "v2" <=> \E t \in Structs : UsesAddress(t)')
    BY <2>1, <2>2, SameTypes
  <2>6. ReachInv'
    BY <1>3, <2>2, <2>4, <2>5 DEF ReachInv, Accepted
  <2>7. QED BY <2>3, <2>6
<1>4. QED BY <1>2, <1>3

\* What is left when a value is taken is still of the types of the payload.
LEMMA TakenFrames ==
  ASSUME TypedDataInv, Due
  PROVE  /\ Frame \in AFrame /\ Frame.depth \in Nat
         /\ Coming \in Fields /\ OfPayload(Coming)
         /\ Taken \in Seq(AFrame) /\ Len(Taken) \in Nat \ {0} /\ AllOfPayload(Taken)
<1>1. /\ Frame.todo # <<>> /\ AllOfPayload(frames)
      /\ frames \in Seq(AFrame) /\ Len(frames) > 0
  BY DEF TypedDataInv, Due, TypeOK, FramesInv, AFrame
<1>2. /\ Below \in Seq(AFrame) /\ Len(Below) = Len(frames) - 1 /\ AllOfPayload(Below)
      /\ Len(frames) \in Nat \ {0} /\ Frame \in AFrame
      /\ \A f \in Elements(Frame.todo) : OfPayload(f)
  BY <1>1, AllButLast DEF Below, Frame
<1>3. Frame.todo \in Seq(Fields) /\ Frame.depth \in Nat
  BY <1>2 DEF AFrame
<1>4. /\ Len(Frame.todo) \in Nat \ {0} /\ Tail(Frame.todo) \in Seq(Fields)
      /\ Coming = Frame.todo[1] /\ Coming \in Fields
  BY <1>1, <1>3 DEF Coming
<1>5. OfPayload(Coming)
  BY <1>2, <1>4 DEF Elements
<1>6. Elements(Tail(Frame.todo)) \subseteq Elements(Frame.todo)
  <2>1. ASSUME NEW i \in 1 .. Len(Tail(Frame.todo))
        PROVE  i + 1 \in 1 .. Len(Frame.todo) /\ Tail(Frame.todo)[i] = Frame.todo[i + 1]
    BY <1>3, <1>4
  <2>2. QED BY <2>1 DEF Elements
<1> DEFINE fr == [Frame EXCEPT !.todo = Tail(Frame.todo)]
<1>7. fr \in AFrame /\ fr.todo = Tail(Frame.todo)
  BY <1>2, <1>4 DEF AFrame
<1>8. Taken = Append(Below, fr)
  BY DEF Taken
<1> HIDE DEF fr
<1>9. \A f \in Elements(fr.todo) : OfPayload(f)
  BY <1>2, <1>6, <1>7
<1>10. /\ Taken \in Seq(AFrame) /\ AllOfPayload(Taken)
       /\ Len(Taken) = Len(Below) + 1
  BY <1>2, <1>7, <1>8, <1>9, OneMore
<1>11. Len(Taken) \in Nat \ {0}
  BY <1>2, <1>10
<1>12. QED BY <1>2, <1>3, <1>4, <1>5, <1>10, <1>11

\* While values are encoded, nothing is found out about types.
LEMMA EncodingInv ==
  ASSUME TypedDataInv, pc = "encode", pc' \in {"encode", "digest"},
         UNCHANGED <<payload, error, walk, path, next, reachable, scheme, part>>,
         budget' \in Nat, NEW s \in Seq(AFrame), frames' = s, Len(s) > 0, AllOfPayload(s)
  PROVE  TypedDataInv'
<1> USE DEF TypedDataInv
<1>1. TypeOK' /\ WalkInv'
  BY DEF TypeOK, WalkInv, payload, AFrame
<1>2. ReachInv' /\ ErrorInv'
  BY SameReach, SameError
<1>3. FramesInv'
  BY NextFrames DEF payload
<1>4. QED BY <1>1, <1>2, <1>3

\* An address finds a slot that fits: its type is one of the payload.
LEMMA RejectValueInv ==
  ASSUME TypedDataInv, RejectValue PROVE TypedDataInv'
<1> USE DEF TypedDataInv
<1>1. Due /\ pc = "encode"
  BY DEF RejectValue, Encodable, Due
<1>2. OfPayload(Coming)
  BY <1>1, TakenFrames
<1>3. Coming.base = "address" => scheme = "v2"
  BY <1>1, <1>2 DEF ReachInv, UsesAddress, OfPayload
<1>4. Fail("budget") \/ Fail("value")
  BY <1>3 DEF RejectValue
<1>5. QED BY <1>4, FailInv

LEMMA EncodeAtomInv ==
  ASSUME TypedDataInv, EncodeAtom PROVE TypedDataInv'
<1>1. Due /\ pc = "encode" /\ pc' = "encode" /\ frames' = Taken /\ budget' = budget - 1
      /\ budget > 0 /\ budget \in Nat
      /\ UNCHANGED <<payload, error, walk, path, next, reachable, scheme, part>>
  BY DEF EncodeAtom, Encodable, Due, TypedDataInv, TypeOK
<1>2. Taken \in Seq(AFrame) /\ Len(Taken) \in Nat \ {0} /\ AllOfPayload(Taken)
  BY <1>1, TakenFrames
<1>3. Len(Taken) > 0 /\ budget' \in Nat
  BY <1>1, <1>2
<1>4. QED BY <1>1, <1>2, <1>3, EncodingInv

\* The elements of an array are of its type.
LEMMA EncodeArrayInv ==
  ASSUME TypedDataInv, EncodeArray PROVE TypedDataInv'
<1> DEFINE element == [Coming EXCEPT !.dims = Coming.dims - 1]
           array(n) == [todo |-> [i \in 1 .. n |-> element], depth |-> Frame.depth + 1]
<1>1. Due /\ pc = "encode" /\ pc' = "encode" /\ budget' = budget - 1
      /\ budget > 0 /\ budget \in Nat /\ Coming.dims > 0
      /\ UNCHANGED <<payload, error, walk, path, next, reachable, scheme, part>>
  BY DEF EncodeArray, Encodable, Due, TypedDataInv, TypeOK
<1>2. PICK n \in 0 .. MaxArrayLength : frames' = Append(Taken, array(n))
  BY DEF EncodeArray
<1>3. /\ Frame.depth \in Nat /\ Coming \in Fields /\ OfPayload(Coming)
      /\ Taken \in Seq(AFrame) /\ Len(Taken) \in Nat \ {0} /\ AllOfPayload(Taken)
  BY <1>1, TakenFrames
<1>4. element \in Fields /\ element.base = Coming.base
  <2>1. Coming.dims \in Nat
    BY <1>3 DEF Fields
  <2>2. Coming.dims - 1 \in Nat
    BY <1>1, <2>1
  <2>3. QED BY <1>3, <2>2 DEF Fields
<1>5. n \in Nat
  BY TypedDataAssumption
<1> HIDE DEF element
<1> DEFINE elements == [i \in 1 .. n |-> element]
<1>6. elements \in Seq(Fields) /\ Len(elements) = n
  BY <1>4, <1>5
<1>7. array(n) \in AFrame /\ array(n).todo = elements
  BY <1>3, <1>6 DEF AFrame
<1>8. \A f \in Elements(array(n).todo) : OfPayload(f)
  BY <1>3, <1>4, <1>6, <1>7 DEF Elements, OfPayload
<1> HIDE DEF array
<1>9. /\ Append(Taken, array(n)) \in Seq(AFrame) /\ AllOfPayload(Append(Taken, array(n)))
      /\ Len(Append(Taken, array(n))) = Len(Taken) + 1
  BY <1>3, <1>7, <1>8, OneMore
<1>10. budget' \in Nat /\ Len(Append(Taken, array(n))) > 0
  BY <1>1, <1>3, <1>9
<1>11. QED BY <1>1, <1>2, <1>9, <1>10, EncodingInv

LEMMA EncodeStructInv ==
  ASSUME TypedDataInv, EncodeStruct PROVE TypedDataInv'
<1>1. Due /\ pc = "encode" /\ Coming.base \in Structs
  BY DEF EncodeStruct, Encodable, Due
<1>2. CASE Fail("budget")
  BY <1>2, FailInv
<1>3. CASE HashStruct(Coming.base, Frame.depth + 1, 2, Taken) /\ UNCHANGED <<scheme, part>>
  <2>1. Frame.depth \in Nat /\ Taken \in Seq(AFrame) /\ AllOfPayload(Taken)
    BY <1>1, TakenFrames
  <2>2. Frame.depth + 1 \in Nat /\ 2 \in Nat
    BY <2>1
  <2>3. TypeOK /\ ErrorInv /\ scheme' \in {"none", "v1", "v2"}
        /\ part' \in {"domain", "message"}
    BY <1>3 DEF TypedDataInv, TypeOK
  <2>4. TypeOK' /\ WalkInv' /\ FramesInv' /\ ErrorInv'
    BY <1>1, <1>3, <2>1, <2>2, <2>3, HashStructInv
  <2>5. ReachInv'
    BY <1>1, <1>3, HashedReach DEF TypedDataInv
  <2>6. QED BY <2>4, <2>5 DEF TypedDataInv
<1>4. QED BY <1>2, <1>3 DEF EncodeStruct

LEMMA LeaveValueInv ==
  ASSUME TypedDataInv, LeaveValue PROVE TypedDataInv'
<1>1. /\ pc = "encode" /\ pc' = "encode" /\ Len(frames) > 1 /\ frames' = Below
      /\ UNCHANGED <<payload, error, walk, path, next, reachable, scheme, part, budget>>
      /\ budget \in Nat /\ frames \in Seq(AFrame) /\ AllOfPayload(frames)
  BY DEF LeaveValue, TypedDataInv, TypeOK, AFrame, FramesInv
<1>2. Len(frames) > 0
  BY <1>1
<1>3. /\ Below \in Seq(AFrame) /\ Len(Below) = Len(frames) - 1 /\ AllOfPayload(Below)
  BY <1>1, <1>2, AllButLast DEF Below
<1>4. Len(Below) > 0
  BY <1>1, <1>3
<1>5. QED BY <1>1, <1>3, <1>4, EncodingInv

LEMMA HalfHashedInv ==
  ASSUME TypedDataInv, HalfHashed PROVE TypedDataInv'
<1>1. pc = "encode" /\ Len(frames) = 1
  BY DEF HalfHashed
<1>2. CASE Fail("budget")
  BY <1>2, FailInv
<1>3. CASE part' = "message" /\ HashStruct(primary, 0, 1, <<>>) /\ UNCHANGED scheme
  <2>1. TypeOK' /\ WalkInv' /\ FramesInv' /\ ErrorInv'
    <3>1. TypeOK /\ ErrorInv /\ scheme' \in {"none", "v1", "v2"}
          /\ part' \in {"domain", "message"} /\ primary \in Structs
      BY <1>3 DEF TypedDataInv, TypeOK
    <3>2. QED BY <1>3, <3>1, NoFrames, HashStructInv
  <2>2. ReachInv'
    BY <1>1, <1>3, HashedReach DEF TypedDataInv
  <2>3. QED BY <2>1, <2>2 DEF TypedDataInv
<1>4. CASE /\ pc' = "digest"
           /\ UNCHANGED <<payload, error, walk, path, next, reachable, scheme, part, frames,
                          budget>>
  <2>1. /\ frames' = frames /\ frames \in Seq(AFrame) /\ AllOfPayload(frames)
        /\ Len(frames) > 0 /\ budget' \in Nat
    BY <1>1, <1>4 DEF TypedDataInv, TypeOK, FramesInv, AFrame
  <2>2. QED BY <1>1, <1>4, <2>1, EncodingInv
<1>5. part \in {"domain", "message"} /\ (budget = 0 \/ budget > 0)
  <2>1. part \in {"domain", "message"} /\ budget \in Nat
    BY DEF TypedDataInv, TypeOK
  <2>2. QED BY <2>1
<1>6. CASE part = "message"
  BY <1>4, <1>6 DEF HalfHashed
<1>7. CASE part = "domain" /\ budget = 0
  BY <1>2, <1>7 DEF HalfHashed
<1>8. CASE part = "domain" /\ budget > 0
  BY <1>3, <1>8 DEF HalfHashed
<1>9. QED BY <1>5, <1>6, <1>7, <1>8

-----------------------------------------------------------------------------
(* Every payload *)

LEMMA InitTypedData == Init => TypedDataInv
<1> SUFFICES ASSUME Init PROVE TypedDataInv
  OBVIOUS
<1>1. TypeOK
  BY TypedDataAssumption DEF Init, TypeOK, NoWalk
<1>2. WalkInv /\ FramesInv /\ ErrorInv
  BY NoFrames DEF Init, WalkInv, FramesInv, ErrorInv
<1>3. ReachInv
  BY DEF Init, ReachInv, Known, Closed, AcyclicIn, AllParsed, OnlyFrom, Accepted
<1>4. QED BY <1>1, <1>2, <1>3 DEF TypedDataInv

LEMMA StepTypedData == TypedDataInv /\ [Next]_vars => TypedDataInv'
<1> SUFFICES ASSUME TypedDataInv, [Next]_vars PROVE TypedDataInv'
  OBVIOUS
<1>1. CASE CheckTypes
  <2>1. CASE Fail("types")
    BY <2>1, FailInv
  <2>2. CASE pc' = "domain" /\ UNCHANGED <<payload, error, walk, path, next, reachable,
                                           scheme, part, frames, budget>>
    <3>1. TypeOK' /\ WalkInv'
      BY <2>2 DEF TypedDataInv, TypeOK, WalkInv, payload
    <3>2. ReachInv' /\ FramesInv' /\ ErrorInv'
      BY <2>2, SameReach, SameFrames, SameError DEF TypedDataInv
    <3>3. QED BY <3>1, <3>2 DEF TypedDataInv
  <2>3. QED BY <1>1, <2>1, <2>2 DEF CheckTypes
<1>2. CASE CheckDomain
  <2>1. CASE Fail("domain")
    BY <2>1, FailInv
  <2>2. CASE Collect(QRLDomain, "domain", 0)
             /\ UNCHANGED <<payload, error, reachable, scheme, part, frames, budget>>
    <3>1. /\ WalkInv' /\ path' \in Seq(Structs) /\ next' \in [Structs -> Nat]
          /\ pc' = "collect" /\ walk' = [root |-> QRLDomain, for |-> "domain", depth |-> 0]
      BY <2>2, CollectWalk, TypedDataAssumption DEF Collect, TypedDataInv, TypeOK
    <3>2. TypeOK'
      BY <2>2, <3>1, TypedDataAssumption DEF TypedDataInv, TypeOK, payload
    <3>3. FramesInv' /\ ErrorInv'
      BY <2>2, <3>1, SameFrames, SameError DEF TypedDataInv
    <3>4. Known(reachable, {QRLDomain, primary})'
      BY <2>2, KnownNext DEF TypedDataInv, ReachInv
    <3>5. ReachInv'
      BY <2>2, <3>1, <3>4, SameTypes DEF TypedDataInv, ReachInv, Accepted
    <3>6. QED BY <3>1, <3>2, <3>3, <3>5 DEF TypedDataInv
  <2>3. QED BY <1>2, <2>1, <2>2 DEF CheckDomain
<1>3. CASE Collecting
  BY <1>3, RejectDeepInv, RejectCycleInv, VisitInv, ParseFieldInv, LeaveInv, CollectedInv
     DEF Collecting
<1>4. CASE CheckUnused
  BY <1>4, CheckUnusedInv
<1>5. CASE Encoding
  <2>1. CASE RejectNesting
    BY <2>1, FailInv DEF RejectNesting
  <2>2. QED
    BY <1>5, <2>1, RejectValueInv, EncodeAtomInv, EncodeArrayInv, EncodeStructInv,
       LeaveValueInv, HalfHashedInv DEF Encoding
<1>6. CASE UNCHANGED vars
  <2>1. UNCHANGED <<payload, pc, error, walk, path, next, reachable, scheme, part, frames,
                    budget>>
    BY <1>6 DEF vars
  <2>2. TypeOK'
    BY <2>1 DEF TypedDataInv, TypeOK, payload
  <2>3. WalkInv'
    BY <2>1, SameWalk DEF TypedDataInv
  <2>4. ReachInv'
    <3>1. Known(reachable, {QRLDomain, primary})'
      BY <2>1, KnownNext DEF TypedDataInv, ReachInv
    <3>2. primary' = primary
      BY <2>1 DEF payload
    <3>3. QED BY <2>1, <3>1, <3>2, SameTypes DEF TypedDataInv, ReachInv, Accepted
  <2>5. FramesInv' /\ ErrorInv'
    BY <2>1, SameFrames, SameError DEF TypedDataInv
  <2>6. QED BY <2>2, <2>3, <2>4, <2>5 DEF TypedDataInv
<1>7. QED BY <1>1, <1>2, <1>3, <1>4, <1>5, <1>6 DEF Next

\* The walks of collectDependencies() and hashStructWithBudget() keep their
\* books, for every payload (src/signing/typedData.ts).
THEOREM TypedDataInvariant == Spec => []TypedDataInv
  BY InitTypedData, StepTypedData, PTL DEF Spec

\* VerdictIsRight: a payload that is accepted has types that refer to each other
\* without a cycle, are all reachable from its domain and primary type, and
\* parse; one that is rejected as cyclic, too deep, malformed or with unused
\* types is so (collectDependencies and validatePayloadReachability).
THEOREM VerdictsAreRight == Spec => []VerdictIsRight
<1>1. TypedDataInv => VerdictIsRight
  <2> SUFFICES ASSUME TypedDataInv PROVE VerdictIsRight
    OBVIOUS
  <2>1. ASSUME Accepted PROVE Acyclic /\ Reachable = Structs /\ Parses
    <3>1. Known(Structs, {QRLDomain, primary})
      BY <2>1 DEF TypedDataInv, ReachInv
    <3>2. Acyclic
      BY <3>1 DEF Known, AcyclicIn, Acyclic
    <3>3. Reachable = Structs
      BY <3>1 DEF Known, OnlyFrom, Reachable
    <3>4. Parses
      BY <3>1 DEF Known, AllParsed, Parsed, Parses
    <3>5. QED BY <3>2, <3>3, <3>4
  <2>2. QED BY <2>1 DEF TypedDataInv, ErrorInv, VerdictIsRight
<1>2. QED BY <1>1, TypedDataInvariant, PTL

\* SchemeFits: the scheme is v2 exactly if an address type is reachable, and
\* an address never meets the slot of v1 (schemeVersionForTypes and the slot
\* check of encodeFieldWithBudget).
THEOREM SchemesFit == Spec => []SchemeFits
<1>1. VerdictIsRight /\ TypedDataInv => SchemeFits
  BY DEF VerdictIsRight, TypedDataInv, ReachInv, ErrorInv, SchemeFits
<1>2. QED BY <1>1, VerdictsAreRight, TypedDataInvariant, PTL
=============================================================================
