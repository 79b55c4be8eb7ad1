-------------------------- MODULE FieldLayoutProofs --------------------------
(***************************************************************************)
(* Proofs about FieldLayout, for contracts of any size, any kinds of       *)
(* fields and any layout the compiler may choose beyond MaxFlat fields.    *)
(***************************************************************************)
EXTENDS FieldLayout, SequenceTheorems, TLAPS

-----------------------------------------------------------------------------
(* Lemmas about the layout: where one index leads. *)

Found(sv) == QueryResult(Some(sv), FALSE)

\* The path of a field of a one-level contract is its position.
LEMMA FlatPath ==
  ASSUME NEW n \in 1..MaxFields, NEW f \in 1..n, n <= MaxFlat
  PROVE  Path[n][f] = <<f - 1>>
  BY LayoutAssumption

\* The path of a field of a two-level contract names its array and its place.
LEMMA DeepPath ==
  ASSUME NEW n \in 1..MaxFields, NEW f \in 1..n, n > MaxFlat
  PROVE  \E s \in DOMAIN Split[n] : \E i \in DOMAIN Split[n][s] :
           /\ s \in 1..Len(Split[n]) /\ i \in 1..Len(Split[n][s])
           /\ Path[n][f] = <<s - 1, i - 1>> /\ Split[n][s][i] = f
  <1>1. ~(n <= MaxFlat)
    BY LayoutAssumption
  <1>2. PICK s \in DOMAIN Split[n] : \E i \in DOMAIN Split[n][s] :
          Path[n][f] = <<s - 1, i - 1>> /\ Split[n][s][i] = f
    BY <1>1, LayoutAssumption
  <1>3. PICK i \in DOMAIN Split[n][s] : Path[n][f] = <<s - 1, i - 1>> /\ Split[n][s][i] = f
    BY <1>2
  <1>4. Split[n] \in Seq(Seq(1..n))
    BY <1>1, LayoutAssumption
  <1>5. s \in 1..Len(Split[n]) /\ Split[n][s] \in Seq(1..n)
    BY <1>4
  <1>6. i \in 1..Len(Split[n][s])
    BY <1>5
  <1> QED
    BY <1>3, <1>5, <1>6

LEMMA SplitShape ==
  ASSUME NEW n \in 1..MaxFields, n > MaxFlat
  PROVE  /\ n \in Nat /\ 1..n \subseteq 1..MaxFields
         /\ Split[n] \in Seq(Seq(1..n))
         /\ \A s \in 1..Len(Split[n]) : s \in DOMAIN Split[n] /\ Split[n][s] \in Seq(1..n)
  <1>1. ~(n <= MaxFlat) /\ n \in Nat /\ 1..n \subseteq 1..MaxFields
    BY LayoutAssumption
  <1>2. Split[n] \in Seq(Seq(1..n))
    BY <1>1, LayoutAssumption
  <1> QED
    BY <1>1, <1>2

\* In an array, the element at an index is what both readers get.
LEMMA ArrayElement ==
  ASSUME NEW N \in Nat, NEW g, NEW i \in 1..N
  PROVE  LET a == ArrayOf([j \in 1..N |-> g[j]])
         IN GetField(a, i - 1) = Ok(g[i]) /\ Descend(a, i - 1) = Found(g[i])
  <1> DEFINE R == {g[j] : j \in 1..N}
             s == [j \in 1..N |-> g[j]]
  <1>1. s \in Seq(R)
    <2>1. s \in [1..N -> R]
      OBVIOUS
    <2> QED
      BY <2>1
  <1>2. Len(s) = N
    BY <1>1
  <1>3. s[i] = g[i] /\ i - 1 < N /\ (i - 1) + 1 = i
    OBVIOUS
  <1> DEFINE a == ArrayOf(s)
  <1>4. a.tag = "Array" /\ a.arr = s
    BY DEF ArrayOf
  <1>5. HasIndex(a, i - 1) /\ ~HasKey(a, i - 1)
    BY <1>2, <1>3, <1>4 DEF HasIndex, HasKey
  <1> HIDE DEF s, a
  <1>6. GetField(a, i - 1) = Ok(g[i])
    BY <1>3, <1>4, <1>5 DEF GetField
  <1>7. Descend(a, i - 1) = Found(g[i])
    BY <1>3, <1>4, <1>5 DEF Descend, Found
  <1> QED
    BY <1>6, <1>7 DEF s, a

\* Past its end there is nothing, for both readers.
LEMMA MissingElement ==
  ASSUME NEW N \in Nat, NEW g, NEW i \in Nat, i >= N
  PROVE  LET a == ArrayOf([j \in 1..N |-> g[j]])
         IN GetField(a, i) = IndexOutOfBounds /\ Descend(a, i) = QueryResult(None, FALSE)
  <1> DEFINE R == {g[j] : j \in 1..N}
             s == [j \in 1..N |-> g[j]]
             a == ArrayOf(s)
  <1>1. s \in Seq(R)
    <2>1. s \in [1..N -> R]
      OBVIOUS
    <2> QED
      BY <2>1
  <1>2. Len(s) = N
    BY <1>1
  <1>3. a.tag = "Array" /\ a.arr = s
    BY DEF ArrayOf
  <1>4. ~HasIndex(a, i) /\ ~HasKey(a, i)
    BY <1>2, <1>3 DEF HasIndex, HasKey
  <1> HIDE DEF s, a
  <1>5. GetField(a, i) = IndexOutOfBounds
    BY <1>3, <1>4 DEF GetField
  <1>6. Descend(a, i) = QueryResult(None, FALSE)
    BY <1>3, <1>4 DEF Descend
  <1> QED
    BY <1>5, <1>6 DEF s, a

\* One index into a one-level state leads to the field, and to nothing past
\* the last field.
LEMMA FlatRoot ==
  ASSUME NEW n \in 1..MaxFields, NEW b, n <= MaxFlat, NEW f \in Nat \ {0}
  PROVE  LET r == Root(Version(n, b))
         IN IF f <= n THEN /\ GetField(r, f - 1) = Ok(FieldValue(f, b))
                           /\ Descend(r, f - 1) = Found(FieldValue(f, b))
                      ELSE /\ GetField(r, f - 1) = IndexOutOfBounds
                           /\ Descend(r, f - 1) = QueryResult(None, FALSE)
  <1> DEFINE g == [j \in 1..n |-> FieldValue(j, b)]
  <1>1. n \in Nat
    BY LayoutAssumption
  <1>2. Root(Version(n, b)) = ArrayOf([j \in 1..n |-> g[j]])
    BY DEF Root, Version
  <1>3. CASE f <= n
    <2>1. f \in 1..n /\ g[f] = FieldValue(f, b)
      BY <1>1, <1>3
    <2> HIDE DEF g
    <2> QED
      BY <1>1, <1>2, <1>3, <2>1, ArrayElement
  <1>4. CASE ~(f <= n)
    <2>1. f - 1 \in Nat /\ f - 1 >= n
      BY <1>1, <1>4
    <2> HIDE DEF g
    <2> QED
      BY <1>1, <1>2, <1>4, <2>1, MissingElement
  <1> QED
    BY <1>3, <1>4

\* One index into a two-level state leads to an array of fields or nowhere.
LEMMA DeepRoot ==
  ASSUME NEW n \in 1..MaxFields, NEW b, n > MaxFlat, NEW s \in Nat \ {0}
  PROVE  LET r == Root(Version(n, b))
         IN IF s <= Len(Split[n]) THEN /\ GetField(r, s - 1) = Ok(Segment(n, s, b))
                                       /\ Descend(r, s - 1) = Found(Segment(n, s, b))
                                  ELSE /\ GetField(r, s - 1) = IndexOutOfBounds
                                       /\ Descend(r, s - 1) = QueryResult(None, FALSE)
  <1> DEFINE N == Len(Split[n])
             g == [j \in 1..N |-> Segment(n, j, b)]
  <1>1. Split[n] \in Seq(Seq(1..n)) /\ ~(n <= MaxFlat)
    BY LayoutAssumption
  <1>2. N \in Nat /\ DOMAIN Split[n] = 1..N
    BY <1>1
  <1>3. Root(Version(n, b)) = ArrayOf([j \in 1..N |-> Segment(n, j, b)])
    BY <1>1, <1>2 DEF Root, Version
  <1>4. Root(Version(n, b)) = ArrayOf([j \in 1..N |-> g[j]])
    BY <1>3
  <1>5. CASE s <= N
    <2>1. s \in 1..N /\ g[s] = Segment(n, s, b)
      BY <1>2, <1>5
    <2> HIDE DEF g
    <2> QED
      BY <1>2, <1>4, <1>5, <2>1, ArrayElement
  <1>6. CASE ~(s <= N)
    <2>1. s - 1 \in Nat /\ s - 1 >= N
      BY <1>2, <1>6
    <2> HIDE DEF g
    <2> QED
      BY <1>2, <1>4, <1>6, <2>1, MissingElement
  <1> QED
    BY <1>5, <1>6

\* One index more leads to the field that was put there.
LEMMA SegmentElement ==
  ASSUME NEW n \in 1..MaxFields, NEW b, n > MaxFlat,
         NEW s \in DOMAIN Split[n], NEW i \in DOMAIN Split[n][s]
  PROVE  /\ GetField(Segment(n, s, b), i - 1) = Ok(FieldValue(Split[n][s][i], b))
         /\ Descend(Segment(n, s, b), i - 1) = Found(FieldValue(Split[n][s][i], b))
  <1> DEFINE N == Len(Split[n][s])
             g == [j \in 1..N |-> FieldValue(Split[n][s][j], b)]
  <1>1. Split[n] \in Seq(Seq(1..n))
    BY LayoutAssumption
  <1>2. Split[n][s] \in Seq(1..n)
    BY <1>1
  <1>3. N \in Nat /\ DOMAIN Split[n][s] = 1..N
    BY <1>2
  <1>4. Segment(n, s, b) = ArrayOf([j \in 1..N |-> FieldValue(Split[n][s][j], b)])
    BY <1>3 DEF Segment
  <1>5. Segment(n, s, b) = ArrayOf([j \in 1..N |-> g[j]])
    BY <1>4
  <1>6. i \in 1..N /\ g[i] = FieldValue(Split[n][s][i], b)
    BY <1>3
  <1> HIDE DEF g
  <1> QED
    BY <1>3, <1>5, <1>6, ArrayElement

\* Fields hold what their kind says, at every block.
LEMMA FieldValueConforms ==
  ASSUME NEW f \in 1..MaxFields, NEW b \in 1..MaxBlocks, kinds \in KindChoices
  PROVE  Conforms(FieldValue(f, b), kinds[f]) /\ kinds[f] \in Kinds
  <1>1. kinds[f] \in Kinds
    BY LayoutAssumption
  <1> QED
    BY <1>1, LayoutAssumption DEF FieldValue

\* An array of fields passes for no cell, map, set or merkle tree: no field is
\* a bare BoundedMerkleTree.
LEMMA SegmentIsNoField ==
  ASSUME NEW n \in 1..MaxFields, NEW b \in 1..MaxBlocks, n > MaxFlat,
         NEW s \in 1..Len(Split[n]), kinds \in KindChoices
  PROVE  /\ \A k \in {"cell", "counter", "map", "set", "merkle-tree"} :
              ~EagerOutcome(Ok(Segment(n, s, b)), k).ok
         /\ \A k \in {"cell", "counter"} : ~LazyOutcome(Found(Segment(n, s, b)), k).ok
  <1> DEFINE S == Segment(n, s, b)
             N == Len(Split[n][s])
  <1>1. S.tag = "Array"
    BY DEF Segment, ArrayOf
  <1>2. ~GetField(S, 0).ok \/ GetField(S, 0).val.tag # "BoundedMerkleTree"
    <2>2. s \in DOMAIN Split[n] /\ Split[n][s] \in Seq(1..n)
      BY SplitShape
    <2>3. CASE 1 \in DOMAIN Split[n][s]
      <3>1. Split[n][s][1] \in 1..n
        BY <2>2, <2>3
      <3>2. Split[n][s][1] \in 1..MaxFields
        BY <3>1, SplitShape
      <3> DEFINE v == FieldValue(Split[n][s][1], b)
      <3>3. GetField(S, 1 - 1) = Ok(v)
        BY <2>2, <2>3, SegmentElement
      <3>4. v.tag # "BoundedMerkleTree"
        <4>1. PICK k \in Kinds : Conforms(v, k)
          BY <3>2, FieldValueConforms
        <4> QED
          BY <4>1 DEF Conforms, Kinds
      <3> QED
        BY <3>3, <3>4 DEF Ok
    <2>4. CASE 1 \notin DOMAIN Split[n][s]
      <3>1. N \in Nat /\ DOMAIN Split[n][s] = 1..N
        BY <2>2
      <3>2. N = 0
        BY <3>1, <2>4
      <3> DEFINE g == [j \in 1..N |-> FieldValue(Split[n][s][j], b)]
      <3>3. S = ArrayOf([j \in 1..N |-> FieldValue(Split[n][s][j], b)])
        BY <3>1 DEF Segment
      <3>4. S = ArrayOf([j \in 1..N |-> g[j]])
        BY <3>3
      <3> HIDE DEF g, N, S
      <3>5. 0 \in Nat /\ 0 >= N
        BY <3>2
      <3>6. GetField(S, 0) = IndexOutOfBounds
        BY <3>1, <3>4, <3>5, MissingElement
      <3> QED
        BY <3>6 DEF IndexOutOfBounds, Err
    <2> QED
      BY <2>3, <2>4
  <1> HIDE DEF S
  <1>3. ~CellRead(S, Type).ok
    BY <1>1 DEF CellRead, CellValue, UnexpectedVariant, Err
  <1>4. ~EagerMapIter(S, Keys, Type).ok /\ ~EagerSetIter(S, Keys).ok
    BY <1>1 DEF EagerMapIter, EagerSetIter, UnexpectedVariant, Err
  <1>5. ~MerkleTree(S, Type).ok
    BY <1>2 DEF MerkleTree, UnexpectedVariant, Err
  <1>6. \A k \in {"cell", "counter", "map", "set", "merkle-tree"} : ~EagerOutcome(Ok(S), k).ok
    BY <1>3, <1>4, <1>5 DEF EagerOutcome, EagerCell, Ok
  <1>7. LazyCell(Found(S), Type) = CellRead(S, Type)
    BY <1>1 DEF LazyCell, DecodeStateValue, Found, QueryResult, Some, None, Ok
  <1>8. \A k \in {"cell", "counter"} : ~LazyOutcome(Found(S), k).ok
    BY <1>3, <1>7 DEF LazyOutcome
  <1> QED
    BY <1>6, <1>8 DEF S

\* How a path is used up, one element at a time.
LEMMA PathSteps ==
  ASSUME NEW a, NEW b
  PROVE  /\ <<a>> # << >> /\ Head(<<a>>) = a /\ Tail(<<a>>) = << >>
         /\ <<a, b>> # << >> /\ Head(<<a, b>>) = a /\ Tail(<<a, b>>) = <<b>>
  <1>1. /\ <<a>> # << >> /\ Head(<<a>>) = a /\ Tail(<<a>>) = << >>
        /\ <<a, b>> # << >> /\ Head(<<a, b>>) = a
    OBVIOUS
  <1>2. Tail(<<a, b>>) = <<b>>
    OBVIOUS
  <1> QED
    BY <1>1, <1>2

-----------------------------------------------------------------------------
(* The inductive invariant: how far a walk has got. *)

At(sv) == IF walk.mode = "eager" THEN Ok(sv) ELSE Found(sv)

Ahead(p) ==
  IF walk.mode = "lazy" /\ Keyed(kinds[walk.field]) THEN Append(p, walk.key[1]) ELSE p

WalkShape ==
  walk # NoWalk =>
    /\ walk = [phase |-> walk.phase, mode |-> walk.mode, field |-> walk.field,
                key |-> walk.key, known |-> walk.known, version |-> walk.version,
                at |-> walk.at, rest |-> walk.rest]
    /\ walk.version = Version(walk.version.fields, walk.version.block)
    /\ walk.version.fields \in 1..fields /\ walk.version.block \in 1..block
    /\ walk.mode = "eager" => handle = Some(walk.version)

\* On the right path: at the root, at the field's array, at the field, or at
\* the entry of the field that was asked for.
OwnWalk ==
  walk.phase = "walking" /\ InPlace =>
    LET n == walk.version.fields
        b == walk.version.block
        f == walk.field
    IN \/ walk.rest = Ahead(Path[bindings][f]) /\ walk.at = At(Root(walk.version))
       \/ \E s \in DOMAIN Split[n] : \E i \in DOMAIN Split[n][s] :
            /\ n > MaxFlat /\ Split[n][s][i] = f
            /\ walk.rest = Ahead(<<i - 1>>) /\ walk.at = At(Segment(n, s, b))
       \/ walk.rest = Ahead(<< >>) /\ walk.at = At(FieldValue(f, b))
       \/ /\ walk.rest = << >> /\ walk.mode = "lazy" /\ Keyed(kinds[f])
          /\ walk.at = Descend(FieldValue(f, b), walk.key[1])

Loud == /\ bindings <= MaxFlat
        /\ \/ kinds[walk.field] \in {"cell", "counter"}
           \/ walk.mode = "eager" /\ kinds[walk.field] \in {"map", "set", "merkle-tree"}

\* On a wrong path of one index: at the root, nowhere, or at an array of fields.
StrayWalk ==
  walk.phase = "walking" /\ ~InPlace /\ Loud =>
    LET n == walk.version.fields
        b == walk.version.block
    IN \/ walk.rest = <<walk.field - 1>> /\ walk.at = At(Root(walk.version))
       \/ /\ walk.rest = << >>
          /\ walk.at = IF walk.mode = "eager" THEN IndexOutOfBounds ELSE QueryResult(None, FALSE)
       \/ \E s \in 1..Len(Split[n]) :
            /\ n > MaxFlat
            /\ walk.rest = << >> /\ walk.at = At(Segment(n, s, b))

StrayDone == walk.phase = "done" /\ ~InPlace /\ Loud => ~walk.at.ok

IInv == TypeOK /\ WalkShape /\ OwnWalk /\ StrayWalk /\ OwnPlaceReadsOwn /\ StrayDone

\* A walk that is not under way satisfies the invariant.
LEMMA NoWalkInv ==
  ASSUME TypeOK, walk = NoWalk
  PROVE  IInv
  BY DEF IInv, WalkShape, OwnWalk, StrayWalk, OwnPlaceReadsOwn, StrayDone, NoWalk, Done

\* What the invariant says of a walk does not depend on the chain's progress.
LEMMA Elsewhere ==
  ASSUME IInv, TypeOK', UNCHANGED <<kinds, bindings, handle, walk>>,
         fields' >= fields, block' >= block
  PROVE  IInv'
  <1>0. /\ fields \in Int /\ fields' \in Int /\ block \in Int /\ block' \in Int
    BY DEF IInv, TypeOK
  <1>1. WalkShape'
    BY <1>0 DEF IInv, WalkShape, Version
  <1>2. InPlace' = InPlace /\ Done' = Done /\ Loud' = Loud
    BY DEF InPlace, Done, Loud
  <1>3. \A n, s, b : Segment(n, s, b)' = Segment(n, s, b)
    BY DEF Segment, FieldValue
  <1>4. \A v : Root(v)' = Root(v)
    BY DEF Root, Segment, FieldValue
  <1>5. \A f, b : FieldValue(f, b)' = FieldValue(f, b)
    BY DEF FieldValue
  <1>6. \A sv : At(sv)' = At(sv) /\ Ahead(sv)' = Ahead(sv)
    BY DEF At, Ahead
  <1>7. \A b : Own(b)' = Own(b)
    BY DEF Own, OwnEager, OwnLazy, FieldValue
  <1>8. OwnWalk'
    BY <1>2, <1>3, <1>4, <1>5, <1>6 DEF IInv, OwnWalk
  <1>9. StrayWalk'
    BY <1>2, <1>3, <1>4, <1>6 DEF IInv, StrayWalk
  <1>10. OwnPlaceReadsOwn' /\ StrayDone'
    BY <1>2, <1>7 DEF IInv, OwnPlaceReadsOwn, StrayDone
  <1> QED
    BY <1>1, <1>8, <1>9, <1>10 DEF IInv

\* A read begins at the root with its whole path ahead.
LEMMA StartKeepsInv ==
  ASSUME IInv, NEW f \in 1..bindings,
         StartRead(f) \/ \E key \in Keys : Query(f, key)
  PROVE  IInv'
  <1>1. /\ walk'.phase = "walking" /\ walk'.field = f /\ walk'.known = bindings
        /\ walk'.mode \in {"eager", "lazy"}
        /\ walk' = [phase |-> walk'.phase, mode |-> walk'.mode, field |-> walk'.field,
                    key |-> walk'.key, known |-> walk'.known, version |-> walk'.version,
                    at |-> walk'.at, rest |-> walk'.rest]
        /\ UNCHANGED <<kinds, fields, block, bindings, handle>>
    <2>1. CASE StartRead(f)
      BY <2>1 DEF StartRead, Walk
    <2>2. CASE \E key \in Keys : Query(f, key)
      <3>1. PICK key \in Keys : Query(f, key)
        BY <2>2
      <3> QED
        BY <3>1 DEF Query, Walk
    <2> QED
      BY <2>1, <2>2
  <1>2. /\ walk'.version = Version(walk'.version.fields, walk'.version.block)
        /\ walk'.version.fields \in 1..fields /\ walk'.version.block \in 1..block
        /\ walk'.mode = "eager" => handle = Some(walk'.version)
    <2>1. CASE StartRead(f)
      <3>1. walk'.version = handle[1] /\ handle # None /\ walk'.mode = "eager"
        BY <2>1 DEF StartRead, Walk
      <3> QED
        BY <3>1 DEF IInv, TypeOK, Version, Some
    <2>2. CASE \E key \in Keys : Query(f, key)
      <3>1. walk'.version = Version(fields, block) /\ walk'.mode = "lazy"
        BY <2>2 DEF Query, Walk
      <3>2. fields \in 1..fields /\ block \in 1..block
        BY LayoutAssumption DEF IInv, TypeOK
      <3> QED
        BY <3>1, <3>2 DEF Version
    <2> QED
      BY <2>1, <2>2
  <1>3. walk'.rest = Ahead(Path[bindings][f])' /\ walk'.at = At(Root(walk.version))'
    <2>1. CASE StartRead(f)
      BY <2>1 DEF StartRead, Walk, Ahead, At, Root, Segment, FieldValue
    <2>2. CASE \E key \in Keys : Query(f, key)
      <3>1. PICK key \in Keys : Query(f, key)
        BY <2>2
      <3>2. /\ walk'.mode = "lazy" /\ walk'.field = f /\ walk'.key = Some(key)
            /\ walk'.version = Version(fields, block)
            /\ walk'.at = QueryResult(Some(Root(Version(fields, block))), FALSE)
            /\ walk'.rest = IF Keyed(kinds[f]) THEN Append(Path[bindings][f], key)
                                               ELSE Path[bindings][f]
        BY <3>1 DEF Query, Walk
      <3>3. Root(walk.version)' = Root(Version(fields, block))
        BY <1>1, <3>2 DEF Root, Segment, FieldValue
      <3>4. walk'.key[1] = key
        BY <3>2 DEF Some
      <3> QED
        BY <1>1, <3>2, <3>3, <3>4 DEF Ahead, At, Found
    <2> QED
      BY <2>1, <2>2
  <1>4. TypeOK' /\ WalkShape'
    <2>1. walk' # NoWalk
      BY <1>1 DEF NoWalk
    <2>2. TypeOK'
      BY <1>1, <2>1 DEF IInv, TypeOK
    <2> QED
      BY <1>1, <1>2, <2>2 DEF WalkShape
  <1>5. OwnWalk'
    BY <1>1, <1>3 DEF OwnWalk
  <1>6. StrayWalk'
    <2>1. SUFFICES ASSUME Loud' PROVE walk'.rest = <<f - 1>>
      BY <1>1, <1>3 DEF StrayWalk
    <2>2. bindings \in 1..MaxFields /\ bindings <= MaxFlat
      BY <1>1, <2>1, LayoutAssumption DEF Loud, IInv, TypeOK
    <2>3. Path[bindings][f] = <<f - 1>>
      BY <2>2, FlatPath
    <2>4. walk'.mode = "lazy" => ~Keyed(kinds[f])
      BY <1>1, <2>1 DEF Loud, Keyed
    <2> QED
      BY <1>1, <1>3, <2>3, <2>4 DEF Ahead
  <1>7. OwnPlaceReadsOwn' /\ StrayDone'
    BY <1>1 DEF OwnPlaceReadsOwn, StrayDone, Done
  <1> QED
    BY <1>4, <1>5, <1>6, <1>7 DEF IInv

\* The versions and fields a walk is about are those the layout speaks of.
LEMMA WalkBounds ==
  ASSUME IInv, walk # NoWalk
  PROVE  /\ walk.version.fields \in 1..MaxFields /\ walk.version.block \in 1..MaxBlocks
         /\ walk.field \in 1..MaxFields /\ walk.field \in Nat \ {0}
         /\ bindings \in 1..MaxFields
         /\ walk.version = Version(walk.version.fields, walk.version.block)
         /\ kinds \in KindChoices
         /\ InPlace => walk.field \in 1..walk.version.fields
  BY LayoutAssumption DEF IInv, TypeOK, WalkShape, InPlace

\* Where an element of a path leads, for both readers at once.
Leads(sv, i, to) == GetField(sv, i) = Ok(to) /\ Descend(sv, i) = Found(to)

FirstLeads(n, b, f) ==
  \/ Path[n][f] = <<f - 1>> /\ Leads(Root(Version(n, b)), f - 1, FieldValue(f, b))
  \/ \E s \in DOMAIN Split[n] : \E i \in DOMAIN Split[n][s] :
       /\ n > MaxFlat /\ Split[n][s][i] = f
       /\ Path[n][f] = <<s - 1, i - 1>>
       /\ Leads(Root(Version(n, b)), s - 1, Segment(n, s, b))

LEMMA FirstStep ==
  ASSUME NEW n \in 1..MaxFields, NEW f \in 1..n, NEW b
  PROVE  FirstLeads(n, b, f)
  <1>0. n \in Nat /\ f \in Nat \ {0} /\ f <= n
    BY LayoutAssumption
  <1>1. CASE n <= MaxFlat
    <2>1. Path[n][f] = <<f - 1>>
      BY <1>1, FlatPath
    <2>2. Leads(Root(Version(n, b)), f - 1, FieldValue(f, b))
      BY <1>0, <1>1, FlatRoot DEF Leads
    <2> QED
      BY <2>1, <2>2 DEF FirstLeads
  <1>2. CASE n > MaxFlat
    <2>1. PICK s \in DOMAIN Split[n] : \E i \in DOMAIN Split[n][s] :
            /\ s \in 1..Len(Split[n]) /\ i \in 1..Len(Split[n][s])
            /\ Path[n][f] = <<s - 1, i - 1>> /\ Split[n][s][i] = f
      BY <1>2, DeepPath
    <2>2. s \in Nat \ {0} /\ s <= Len(Split[n])
      BY <1>2, <2>1, SplitShape
    <2>3. Leads(Root(Version(n, b)), s - 1, Segment(n, s, b))
      BY <1>2, <2>2, DeepRoot DEF Leads
    <2> QED
      BY <1>2, <2>1, <2>3 DEF FirstLeads
  <1> QED
    BY <1>0, <1>1, <1>2, LayoutAssumption

\* One index of a one-level contract, out of its place: it leads nowhere or to
\* an array of fields.
StrayLeads(n, b, f) ==
  \/ GetField(Root(Version(n, b)), f - 1) = IndexOutOfBounds
     /\ Descend(Root(Version(n, b)), f - 1) = QueryResult(None, FALSE)
  \/ \E s \in 1..Len(Split[n]) :
       n > MaxFlat /\ Leads(Root(Version(n, b)), f - 1, Segment(n, s, b))

LEMMA StrayStep ==
  ASSUME NEW n \in 1..MaxFields, NEW f \in Nat \ {0}, NEW b,
         ~(f <= n /\ Path[n][f] = <<f - 1>>)
  PROVE  StrayLeads(n, b, f)
  <1>0. n \in Nat
    BY LayoutAssumption
  <1>1. CASE n <= MaxFlat
    <2>1. ~(f <= n)
      <3>1. SUFFICES ASSUME f <= n PROVE FALSE
        OBVIOUS
      <3>2. f \in 1..n
        BY <1>0, <3>1
      <3>3. Path[n][f] = <<f - 1>>
        BY <1>1, <3>2, FlatPath
      <3> QED
        BY <3>1, <3>3
    <2> QED
      BY <1>1, <2>1, FlatRoot DEF StrayLeads
  <1>2. CASE n > MaxFlat
    <2>1. Len(Split[n]) \in Nat
      BY <1>2, SplitShape
    <2>2. CASE f <= Len(Split[n])
      <3>1. f \in 1..Len(Split[n])
        BY <2>1, <2>2
      <3>2. Leads(Root(Version(n, b)), f - 1, Segment(n, f, b))
        BY <1>2, <2>2, DeepRoot DEF Leads
      <3> QED
        BY <1>2, <3>1, <3>2 DEF StrayLeads
    <2>3. CASE ~(f <= Len(Split[n]))
      BY <1>2, <2>3, DeepRoot DEF StrayLeads
    <2> QED
      BY <2>2, <2>3
  <1> QED
    BY <1>0, <1>1, <1>2, LayoutAssumption

\* What both kinds of step leave alone, and where they start from.
LEMMA StepFrame ==
  ASSUME IInv, walk.phase = "walking",
         NEW next, NEW rest, walk' = [walk EXCEPT !.at = next, !.rest = rest],
         UNCHANGED <<kinds, fields, block, bindings, handle>>
  PROVE  /\ walk'.at = next /\ walk'.rest = rest
         /\ UNCHANGED <<walk.phase, walk.mode, walk.field, walk.key, walk.version>>
         /\ InPlace' = InPlace /\ Loud' = Loud /\ walk # NoWalk
         /\ TypeOK' /\ WalkShape' /\ OwnPlaceReadsOwn' /\ StrayDone'
         /\ \A n, s, b : Segment(n, s, b)' = Segment(n, s, b)
         /\ \A f, b : FieldValue(f, b)' = FieldValue(f, b)
         /\ \A x : At(x)' = At(x) /\ Ahead(x)' = Ahead(x)
  <1>0. walk # NoWalk
    BY DEF NoWalk
  <1>1. walk' = [phase |-> walk.phase, mode |-> walk.mode, field |-> walk.field,
                 key |-> walk.key, known |-> walk.known, version |-> walk.version,
                 at |-> next, rest |-> rest]
    BY <1>0 DEF IInv, WalkShape
  <1>2. /\ walk'.at = next /\ walk'.rest = rest
        /\ UNCHANGED <<walk.phase, walk.mode, walk.field, walk.key, walk.version, walk.known>>
    BY <1>1
  <1>3. walk' # NoWalk
    BY <1>2 DEF NoWalk
  <1>4. TypeOK'
    BY <1>0, <1>2, <1>3 DEF IInv, TypeOK
  <1>5. WalkShape'
    <2>1. /\ walk.version = Version(walk.version.fields, walk.version.block)
          /\ walk.version.fields \in 1..fields /\ walk.version.block \in 1..block
          /\ walk.mode = "eager" => handle = Some(walk.version)
      BY <1>0 DEF IInv, WalkShape
    <2> QED
      BY <1>1, <1>2, <2>1 DEF WalkShape
  <1>6. OwnPlaceReadsOwn' /\ StrayDone'
    BY <1>2 DEF OwnPlaceReadsOwn, StrayDone, Done
  <1>7. InPlace' = InPlace /\ Loud' = Loud
    BY <1>2 DEF InPlace, Loud
  <1>8. /\ \A n, s, b : Segment(n, s, b)' = Segment(n, s, b)
        /\ \A f, b : FieldValue(f, b)' = FieldValue(f, b)
    BY DEF Segment, FieldValue
  <1>9. \A x : At(x)' = At(x) /\ Ahead(x)' = Ahead(x)
    BY <1>2 DEF At, Ahead
  <1> QED
    BY <1>0, <1>2, <1>4, <1>5, <1>6, <1>7, <1>8, <1>9

\* Every step of a walk, with what the element ahead leads to by the lemmas.
LEMMA EagerStepKeepsInv ==
  ASSUME IInv, EagerStep
  PROVE  IInv'
  <1>0. PICK n, b, f :
          n = walk.version.fields /\ b = walk.version.block /\ f = walk.field
    OBVIOUS
  <1> DEFINE next == GetField(walk.at.val, Head(walk.rest))
             rest == IF next.ok THEN Tail(walk.rest) ELSE << >>
  <1>1. /\ walk.phase = "walking" /\ walk.mode = "eager" /\ walk.rest # << >>
        /\ walk' = [walk EXCEPT !.at = next, !.rest = rest]
        /\ UNCHANGED <<kinds, fields, block, bindings, handle>>
    BY DEF EagerStep
  <1> HIDE DEF next, rest
  <1>2. /\ walk'.at = next /\ walk'.rest = rest
        /\ UNCHANGED <<walk.phase, walk.mode, walk.field, walk.key, walk.version>>
        /\ InPlace' = InPlace /\ Loud' = Loud /\ walk # NoWalk
        /\ TypeOK' /\ WalkShape' /\ OwnPlaceReadsOwn' /\ StrayDone'
        /\ \A m, s, c : Segment(m, s, c)' = Segment(m, s, c)
        /\ \A g, c : FieldValue(g, c)' = FieldValue(g, c)
        /\ \A x : At(x)' = At(x) /\ Ahead(x)' = Ahead(x)
    BY <1>1, StepFrame
  <1>3. /\ n \in 1..MaxFields /\ f \in Nat \ {0} /\ bindings \in 1..MaxFields
        /\ walk.version = Version(n, b)
        /\ InPlace => f \in 1..n
        /\ f \in 1..bindings
    BY <1>0, <1>2, WalkBounds DEF IInv, TypeOK
  <1>4. \A x : At(x) = Ok(x) /\ Ahead(x) = x
    BY <1>1 DEF At, Ahead
  <1>5. \A x : Ok(x).ok /\ Ok(x).val = x
    BY DEF Ok
  <1>11. Ok(Root(walk.version)).val = Root(Version(n, b))
    <2>1. walk.version = Version(n, b)
      BY <1>3
    <2>2. Root(walk.version) = Root(Version(n, b))
      BY <2>1
    <2> QED
      BY <2>2 DEF Ok
  <1>6. OwnWalk'
    <2>1. SUFFICES ASSUME InPlace
                   PROVE \/ \E s \in DOMAIN Split[n] : \E i \in DOMAIN Split[n][s] :
                             /\ n > MaxFlat /\ Split[n][s][i] = f
                             /\ rest = <<i - 1>> /\ next = Ok(Segment(n, s, b))
                         \/ rest = << >> /\ next = Ok(FieldValue(f, b))
      BY <1>0, <1>2, <1>4 DEF OwnWalk
    <2>2. CASE walk.rest = Path[bindings][f] /\ walk.at = Ok(Root(walk.version))
      <3>1. Path[bindings][f] = Path[n][f] /\ f \in 1..n
        BY <1>0, <1>3, <2>1 DEF InPlace
      <3>2. FirstLeads(n, b, f)
        BY <1>3, <3>1, FirstStep
      <3>3. CASE /\ Path[n][f] = <<f - 1>>
                 /\ Leads(Root(Version(n, b)), f - 1, FieldValue(f, b))
        <4>1. Head(walk.rest) = f - 1 /\ Tail(walk.rest) = << >>
          BY <2>2, <3>1, <3>3, PathSteps
        <4>2. next = Ok(FieldValue(f, b))
          <5>1. walk.at.val = Root(Version(n, b))
            BY <1>11, <2>2
          <5> QED
            BY <5>1, <3>3, <4>1 DEF Leads, next
        <4> QED
          BY <1>5, <4>1, <4>2 DEF rest
      <3>4. CASE \E s \in DOMAIN Split[n] : \E i \in DOMAIN Split[n][s] :
                   /\ n > MaxFlat /\ Split[n][s][i] = f
                   /\ Path[n][f] = <<s - 1, i - 1>>
                   /\ Leads(Root(Version(n, b)), s - 1, Segment(n, s, b))
        <4>1. PICK s \in DOMAIN Split[n] : \E i \in DOMAIN Split[n][s] :
                   /\ n > MaxFlat /\ Split[n][s][i] = f
                   /\ Path[n][f] = <<s - 1, i - 1>>
                   /\ Leads(Root(Version(n, b)), s - 1, Segment(n, s, b))
          BY <3>4
        <4>2. PICK i \in DOMAIN Split[n][s] :
                   /\ n > MaxFlat /\ Split[n][s][i] = f
                   /\ Path[n][f] = <<s - 1, i - 1>>
                   /\ Leads(Root(Version(n, b)), s - 1, Segment(n, s, b))
          BY <4>1
        <4>3. Head(walk.rest) = s - 1 /\ Tail(walk.rest) = <<i - 1>>
          BY <2>2, <3>1, <4>2, PathSteps
        <4>4. next = Ok(Segment(n, s, b))
          <5>1. walk.at.val = Root(Version(n, b))
            BY <1>11, <2>2
          <5> QED
            BY <5>1, <4>2, <4>3 DEF Leads, next
        <4>5. rest = <<i - 1>>
          BY <1>5, <4>3, <4>4 DEF rest
        <4> QED
          BY <4>2, <4>4, <4>5
      <3> QED
        BY <3>2, <3>3, <3>4 DEF FirstLeads
    <2>3. CASE \E s \in DOMAIN Split[n] : \E i \in DOMAIN Split[n][s] :
                 /\ n > MaxFlat /\ Split[n][s][i] = f
                 /\ walk.rest = <<i - 1>> /\ walk.at = Ok(Segment(n, s, b))
      <3>1. PICK s \in DOMAIN Split[n] : \E i \in DOMAIN Split[n][s] :
                 /\ n > MaxFlat /\ Split[n][s][i] = f
                 /\ walk.rest = <<i - 1>> /\ walk.at = Ok(Segment(n, s, b))
        BY <2>3
      <3>2. PICK i \in DOMAIN Split[n][s] :
                 /\ n > MaxFlat /\ Split[n][s][i] = f
                 /\ walk.rest = <<i - 1>> /\ walk.at = Ok(Segment(n, s, b))
        BY <3>1
      <3>3. Head(walk.rest) = i - 1 /\ Tail(walk.rest) = << >>
        BY <3>2, PathSteps
      <3>4. GetField(Segment(n, s, b), i - 1) = Ok(FieldValue(f, b))
        BY <1>3, <3>2, SegmentElement
      <3>5. next = Ok(FieldValue(f, b))
        BY <1>5, <3>2, <3>3, <3>4 DEF next
      <3> QED
        BY <1>5, <3>3, <3>5 DEF rest
    <2> QED
      BY <1>0, <1>1, <1>4, <2>1, <2>2, <2>3 DEF IInv, OwnWalk
  <1>7. ~InPlace /\ Loud =>
          /\ rest = << >>
          /\ \/ next = IndexOutOfBounds
             \/ \E s \in 1..Len(Split[n]) : n > MaxFlat /\ next = Ok(Segment(n, s, b))
    <2>0. HAVE ~InPlace /\ Loud
    <2>1. walk.rest = <<f - 1>> /\ walk.at = Ok(Root(walk.version))
      BY <1>0, <1>1, <1>4, <2>0 DEF IInv, StrayWalk
    <2>2. Head(walk.rest) = f - 1 /\ Tail(walk.rest) = << >>
      BY <2>1, PathSteps
    <2>3. Path[bindings][f] = <<f - 1>>
      BY <1>3, <2>0, FlatPath DEF Loud
    <2>4. StrayLeads(n, b, f)
      BY <1>0, <1>3, <2>0, <2>3, StrayStep DEF InPlace
    <2>5. next = GetField(Root(Version(n, b)), f - 1)
      BY <1>11, <2>1, <2>2 DEF next
    <2>6. rest = << >>
      BY <2>2 DEF rest
    <2> QED
      BY <2>4, <2>5, <2>6 DEF StrayLeads, Leads
  <1>8. StrayWalk'
    <2>1. walk'.mode = "eager" /\ walk'.version.fields = n /\ walk'.version.block = b
      BY <1>0, <1>1, <1>2
    <2>2. \A s : At(Segment(n, s, b))' = Ok(Segment(n, s, b))
      BY <1>2, <1>4
    <2>3. SUFFICES ASSUME ~InPlace /\ Loud
                   PROVE  \/ /\ walk'.rest = << >>
                             /\ walk'.at = IndexOutOfBounds
                          \/ \E s \in 1..Len(Split[n]) :
                               /\ n > MaxFlat
                               /\ walk'.rest = << >> /\ walk'.at = At(Segment(n, s, b))'
      BY <1>2, <2>1 DEF StrayWalk
    <2>4. rest = << >> /\ walk'.rest = rest /\ walk'.at = next
      BY <1>2, <1>7, <2>3
    <2>5. CASE next = IndexOutOfBounds
      BY <2>4, <2>5
    <2>6. ASSUME NEW s \in 1..Len(Split[n]), n > MaxFlat, next = Ok(Segment(n, s, b))
          PROVE  walk'.at = At(Segment(n, s, b))'
      BY <2>2, <2>4, <2>6
    <2> QED
      BY <1>7, <2>3, <2>4, <2>5, <2>6
  <1> QED
    BY <1>2, <1>6, <1>8 DEF IInv

\* The key, if any, stays at the end of the path.
LEMMA AheadSteps ==
  ASSUME NEW S, NEW p \in Seq(S), p # << >>
  PROVE  Head(Ahead(p)) = Head(p) /\ Tail(Ahead(p)) = Ahead(Tail(p))
  BY HeadTailAppend DEF Ahead

LEMMA AheadTuples ==
  ASSUME NEW a, NEW c
  PROVE  /\ Head(Ahead(<<a>>)) = a /\ Tail(Ahead(<<a>>)) = Ahead(<< >>)
         /\ Head(Ahead(<<a, c>>)) = a /\ Tail(Ahead(<<a, c>>)) = Ahead(<<c>>)
  <1>1. <<a>> \in Seq({a, c}) /\ <<a>> # << >>
    OBVIOUS
  <1>2. <<a, c>> \in Seq({a, c}) /\ <<a, c>> # << >>
    OBVIOUS
  <1>3. Head(Ahead(<<a>>)) = Head(<<a>>) /\ Tail(Ahead(<<a>>)) = Ahead(Tail(<<a>>))
    BY <1>1, AheadSteps
  <1>4. Head(Ahead(<<a, c>>)) = Head(<<a, c>>) /\ Tail(Ahead(<<a, c>>)) = Ahead(Tail(<<a, c>>))
    BY <1>2, AheadSteps
  <1>5. /\ Head(<<a>>) = a /\ Tail(<<a>>) = << >>
        /\ Head(<<a, c>>) = a /\ Tail(<<a, c>>) = <<c>>
    BY PathSteps
  <1> QED
    BY <1>3, <1>4, <1>5, Zenon

LEMMA NodeStepKeepsInv ==
  ASSUME IInv, NodeStep
  PROVE  IInv'
  <1>0. PICK n, b, f :
          n = walk.version.fields /\ b = walk.version.block /\ f = walk.field
    OBVIOUS
  <1> DEFINE next == Descend(walk.at.value[1], Head(walk.rest))
             rest == IF next.value # None THEN Tail(walk.rest) ELSE << >>
  <1>1. /\ walk.phase = "walking" /\ walk.mode = "lazy" /\ walk.rest # << >>
        /\ walk' = [walk EXCEPT !.at = next, !.rest = rest]
        /\ UNCHANGED <<kinds, fields, block, bindings, handle>>
    BY DEF NodeStep
  <1> HIDE DEF next, rest
  <1>2. /\ walk'.at = next /\ walk'.rest = rest
        /\ UNCHANGED <<walk.phase, walk.mode, walk.field, walk.key, walk.version>>
        /\ InPlace' = InPlace /\ Loud' = Loud /\ walk # NoWalk
        /\ TypeOK' /\ WalkShape' /\ OwnPlaceReadsOwn' /\ StrayDone'
        /\ \A m, s, c : Segment(m, s, c)' = Segment(m, s, c)
        /\ \A g, c : FieldValue(g, c)' = FieldValue(g, c)
        /\ \A x : At(x)' = At(x) /\ Ahead(x)' = Ahead(x)
    BY <1>1, StepFrame
  <1>3. /\ n \in 1..MaxFields /\ f \in Nat \ {0} /\ bindings \in 1..MaxFields
        /\ walk.version = Version(n, b)
        /\ InPlace => f \in 1..n
        /\ f \in 1..bindings
    BY <1>0, <1>2, WalkBounds DEF IInv, TypeOK
  <1>4. \A x : At(x) = Found(x)
    BY <1>1 DEF At
  <1>5. \A x : Found(x).value # None /\ Found(x).value[1] = x
    BY DEF Found, QueryResult, Some, None
  <1>11. Found(Root(walk.version)).value[1] = Root(Version(n, b))
    <2>1. walk.version = Version(n, b)
      BY <1>3
    <2>2. Root(walk.version) = Root(Version(n, b))
      BY <2>1
    <2> QED
      BY <1>5, <2>2
  <1>6. OwnWalk'
    <2>1. SUFFICES ASSUME InPlace
                   PROVE \/ \E s \in DOMAIN Split[n] : \E i \in DOMAIN Split[n][s] :
                             /\ n > MaxFlat /\ Split[n][s][i] = f
                             /\ rest = Ahead(<<i - 1>>) /\ next = Found(Segment(n, s, b))
                         \/ rest = Ahead(<< >>) /\ next = Found(FieldValue(f, b))
                         \/ /\ rest = << >> /\ Keyed(kinds[f])
                            /\ next = Descend(FieldValue(f, b), walk.key[1])
      BY <1>0, <1>1, <1>2, <1>4 DEF OwnWalk
    <2>2. CASE walk.rest = Ahead(Path[bindings][f]) /\ walk.at = Found(Root(walk.version))
      <3>1. Path[bindings][f] = Path[n][f] /\ f \in 1..n
        BY <1>0, <1>3, <2>1 DEF InPlace
      <3>2. FirstLeads(n, b, f)
        BY <1>3, <3>1, FirstStep
      <3>3. CASE /\ Path[n][f] = <<f - 1>>
                 /\ Leads(Root(Version(n, b)), f - 1, FieldValue(f, b))
        <4>1. Head(walk.rest) = f - 1 /\ Tail(walk.rest) = Ahead(<< >>)
          <5>1. walk.rest = Ahead(<<f - 1>>)
            BY <2>2, <3>1, <3>3
          <5> QED
            BY <5>1, AheadTuples
        <4>2. next = Found(FieldValue(f, b))
          <5>1. walk.at.value[1] = Root(Version(n, b))
            BY <1>11, <2>2
          <5> QED
            BY <5>1, <3>3, <4>1 DEF Leads, next
        <4> QED
          BY <1>5, <4>1, <4>2 DEF rest
      <3>4. CASE \E s \in DOMAIN Split[n] : \E i \in DOMAIN Split[n][s] :
                   /\ n > MaxFlat /\ Split[n][s][i] = f
                   /\ Path[n][f] = <<s - 1, i - 1>>
                   /\ Leads(Root(Version(n, b)), s - 1, Segment(n, s, b))
        <4>1. PICK s \in DOMAIN Split[n] : \E i \in DOMAIN Split[n][s] :
                   /\ n > MaxFlat /\ Split[n][s][i] = f
                   /\ Path[n][f] = <<s - 1, i - 1>>
                   /\ Leads(Root(Version(n, b)), s - 1, Segment(n, s, b))
          BY <3>4
        <4>2. PICK i \in DOMAIN Split[n][s] :
                   /\ n > MaxFlat /\ Split[n][s][i] = f
                   /\ Path[n][f] = <<s - 1, i - 1>>
                   /\ Leads(Root(Version(n, b)), s - 1, Segment(n, s, b))
          BY <4>1
        <4>3. Head(walk.rest) = s - 1 /\ Tail(walk.rest) = Ahead(<<i - 1>>)
          <5>1. walk.rest = Ahead(<<s - 1, i - 1>>)
            BY <2>2, <3>1, <4>2
          <5> QED
            BY <5>1, AheadTuples
        <4>4. next = Found(Segment(n, s, b))
          <5>1. walk.at.value[1] = Root(Version(n, b))
            BY <1>11, <2>2
          <5> QED
            BY <5>1, <4>2, <4>3 DEF Leads, next
        <4>5. rest = Ahead(<<i - 1>>)
          BY <1>5, <4>3, <4>4 DEF rest
        <4> QED
          BY <4>2, <4>4, <4>5
      <3> QED
        BY <3>2, <3>3, <3>4 DEF FirstLeads
    <2>3. CASE \E s \in DOMAIN Split[n] : \E i \in DOMAIN Split[n][s] :
                 /\ n > MaxFlat /\ Split[n][s][i] = f
                 /\ walk.rest = Ahead(<<i - 1>>) /\ walk.at = Found(Segment(n, s, b))
      <3>1. PICK s \in DOMAIN Split[n] : \E i \in DOMAIN Split[n][s] :
                 /\ n > MaxFlat /\ Split[n][s][i] = f
                 /\ walk.rest = Ahead(<<i - 1>>) /\ walk.at = Found(Segment(n, s, b))
        BY <2>3
      <3>2. PICK i \in DOMAIN Split[n][s] :
                 /\ n > MaxFlat /\ Split[n][s][i] = f
                 /\ walk.rest = Ahead(<<i - 1>>) /\ walk.at = Found(Segment(n, s, b))
        BY <3>1
      <3>3. Head(walk.rest) = i - 1 /\ Tail(walk.rest) = Ahead(<< >>)
        BY <3>2, AheadTuples
      <3>4. Descend(Segment(n, s, b), i - 1) = Found(FieldValue(f, b))
        BY <1>3, <3>2, SegmentElement
      <3>5. next = Found(FieldValue(f, b))
        BY <1>5, <3>2, <3>3, <3>4 DEF next
      <3> QED
        BY <1>5, <3>3, <3>5 DEF rest
    <2>4. CASE walk.rest = Ahead(<< >>) /\ walk.at = Found(FieldValue(f, b))
      <3>1. Keyed(kinds[f]) /\ walk.rest = <<walk.key[1]>>
        BY <1>0, <1>1, <2>4 DEF Ahead
      <3>2. Head(walk.rest) = walk.key[1] /\ Tail(walk.rest) = << >>
        BY <3>1, PathSteps
      <3>3. next = Descend(FieldValue(f, b), walk.key[1])
        BY <1>5, <2>4, <3>2 DEF next
      <3> QED
        BY <3>1, <3>2, <3>3 DEF rest
    <2> QED
      BY <1>0, <1>1, <1>4, <2>1, <2>2, <2>3, <2>4 DEF IInv, OwnWalk
  <1>7. ~InPlace /\ Loud =>
          /\ rest = << >>
          /\ \/ next = QueryResult(None, FALSE)
             \/ \E s \in 1..Len(Split[n]) : n > MaxFlat /\ next = Found(Segment(n, s, b))
    <2>0. HAVE ~InPlace /\ Loud
    <2>1. walk.rest = <<f - 1>> /\ walk.at = Found(Root(walk.version))
      BY <1>0, <1>1, <1>4, <2>0 DEF IInv, StrayWalk
    <2>2. Head(walk.rest) = f - 1 /\ Tail(walk.rest) = << >>
      BY <2>1, PathSteps
    <2>3. Path[bindings][f] = <<f - 1>>
      BY <1>3, <2>0, FlatPath DEF Loud
    <2>4. StrayLeads(n, b, f)
      BY <1>0, <1>3, <2>0, <2>3, StrayStep DEF InPlace
    <2>5. next = Descend(Root(Version(n, b)), f - 1)
      BY <1>11, <2>1, <2>2 DEF next
    <2>6. rest = << >>
      BY <2>2 DEF rest
    <2> QED
      BY <2>4, <2>5, <2>6 DEF StrayLeads, Leads
  <1>8. StrayWalk'
    <2>1. walk'.mode = "lazy" /\ walk'.version.fields = n /\ walk'.version.block = b
      BY <1>0, <1>1, <1>2
    <2>2. \A s : At(Segment(n, s, b))' = Found(Segment(n, s, b))
      BY <1>2, <1>4
    <2>3. SUFFICES ASSUME ~InPlace /\ Loud
                   PROVE  \/ /\ walk'.rest = << >>
                             /\ walk'.at = QueryResult(None, FALSE)
                          \/ \E s \in 1..Len(Split[n]) :
                               /\ n > MaxFlat
                               /\ walk'.rest = << >> /\ walk'.at = At(Segment(n, s, b))'
      BY <1>2, <2>1 DEF StrayWalk
    <2>4. rest = << >> /\ walk'.rest = rest /\ walk'.at = next
      BY <1>2, <1>7, <2>3
    <2>5. CASE next = QueryResult(None, FALSE)
      BY <2>4, <2>5
    <2>6. ASSUME NEW s \in 1..Len(Split[n]), n > MaxFlat, next = Found(Segment(n, s, b))
          PROVE  walk'.at = At(Segment(n, s, b))'
      BY <2>2, <2>4, <2>6
    <2> QED
      BY <1>7, <2>3, <2>4, <2>5, <2>6
  <1> QED
    BY <1>2, <1>6, <1>8 DEF IInv

LEMMA AheadNonEmpty ==
  ASSUME NEW a, NEW c
  PROVE  Ahead(<<a>>) # << >> /\ Ahead(<<a, c>>) # << >>
  <1>1. ASSUME NEW S, NEW p \in Seq(S), p # << >>, NEW k
        PROVE  Append(p, k) # << >>
    <2>1. p \in Seq(S \cup {k}) /\ k \in S \cup {k}
      BY <1>1
    <2> QED
      BY <2>1, AppendProperties
  <1>2. <<a>> \in Seq({a, c}) /\ <<a>> # << >>
    OBVIOUS
  <1>3. <<a, c>> \in Seq({a, c}) /\ <<a, c>> # << >>
    OBVIOUS
  <1>4. Ahead(<<a>>) # << >>
    BY <1>1, <1>2 DEF Ahead
  <1>5. Ahead(<<a, c>>) # << >>
    BY <1>1, <1>3 DEF Ahead
  <1> QED
    BY <1>4, <1>5

\* A read comes to its end at its own field, or at something it rejects.
LEMMA FinishKeepsInv ==
  ASSUME IInv, Finish
  PROVE  IInv'
  <1>0. PICK n, b, f :
          n = walk.version.fields /\ b = walk.version.block /\ f = walk.field
    OBVIOUS
  <1> DEFINE out == IF walk.mode = "eager" THEN EagerOutcome(walk.at, kinds[walk.field])
                                           ELSE LazyOutcome(walk.at, kinds[walk.field])
  <1>1. /\ walk.phase = "walking" /\ walk.rest = << >>
        /\ walk' = [walk EXCEPT !.phase = "done", !.at = out]
        /\ UNCHANGED <<kinds, fields, block, bindings, handle>>
    BY DEF Finish
  <1> HIDE DEF out
  <1>2. walk # NoWalk
    BY <1>1 DEF NoWalk
  <1>3. walk' = [phase |-> "done", mode |-> walk.mode, field |-> walk.field,
                 key |-> walk.key, known |-> walk.known, version |-> walk.version,
                 at |-> out, rest |-> walk.rest]
    BY <1>1, <1>2 DEF IInv, WalkShape
  <1>4. /\ walk'.at = out /\ walk'.phase = "done"
        /\ UNCHANGED <<walk.mode, walk.field, walk.key, walk.version, walk.known>>
    BY <1>3
  <1>5. walk' # NoWalk
    BY <1>4 DEF NoWalk
  <1>6. /\ walk.version = Version(walk.version.fields, walk.version.block)
        /\ walk.version.fields \in 1..fields /\ walk.version.block \in 1..block
        /\ walk.mode = "eager" => handle = Some(walk.version)
        /\ walk.mode \in {"eager", "lazy"}
    BY <1>2 DEF IInv, WalkShape, TypeOK
  <1>7. TypeOK' /\ WalkShape'
    <2>1. TypeOK'
      BY <1>1, <1>2, <1>4, <1>5 DEF IInv, TypeOK
    <2>2. WalkShape'
      BY <1>1, <1>3, <1>4, <1>6 DEF WalkShape
    <2> QED
      BY <2>1, <2>2
  <1>8. OwnWalk' /\ StrayWalk'
    BY <1>4 DEF OwnWalk, StrayWalk
  <1>9. InPlace' = InPlace /\ Loud' = Loud
    BY <1>1, <1>4 DEF InPlace, Loud
  <1>10. /\ n \in 1..MaxFields /\ b \in 1..MaxBlocks
         /\ InPlace => f \in 1..n
         /\ kinds \in KindChoices
    BY <1>0, <1>2, WalkBounds
  <1>11. InPlace => out = Own(b)
    <2>0. HAVE InPlace
    <2>1. Path[bindings][f] = Path[n][f] /\ FirstLeads(n, b, f)
      BY <1>0, <1>10, <2>0, FirstStep DEF InPlace
    <2>2. Ahead(Path[bindings][f]) # << >>
      BY <2>1, AheadNonEmpty DEF FirstLeads
    <2>3. \/ walk.rest = Ahead(<< >>) /\ walk.at = At(FieldValue(f, b))
          \/ /\ walk.mode = "lazy" /\ Keyed(kinds[f])
             /\ walk.at = Descend(FieldValue(f, b), walk.key[1])
      BY <1>0, <1>1, <2>0, <2>2, AheadNonEmpty DEF IInv, OwnWalk
    <2>4. CASE walk.mode = "lazy" /\ Keyed(kinds[f])
      <3>1. Ahead(<< >>) # << >>
        BY <1>0, <2>4 DEF Ahead
      <3>2. walk.at = Descend(FieldValue(f, b), walk.key[1])
        BY <1>1, <2>3, <3>1
      <3> QED
        BY <1>0, <2>4, <3>2 DEF Own, OwnLazy, out
    <2>5. CASE walk.mode = "lazy" /\ ~Keyed(kinds[f])
      BY <1>0, <2>3, <2>5 DEF Own, OwnLazy, out, At, Found
    <2>6. CASE walk.mode = "eager"
      BY <1>0, <2>3, <2>6 DEF Own, OwnEager, out, At
    <2> QED
      BY <1>6, <2>4, <2>5, <2>6
  <1>12. OwnPlaceReadsOwn'
    <2>1. b = IF walk'.mode = "eager" THEN handle'[1].block ELSE walk'.version.block
      BY <1>0, <1>1, <1>4, <1>6 DEF Some
    <2>2. Own(b)' = Own(b)
      BY <1>1, <1>4 DEF Own, OwnEager, OwnLazy, FieldValue
    <2> QED
      BY <1>4, <1>9, <1>11, <2>1, <2>2 DEF OwnPlaceReadsOwn
  <1>13. ~InPlace /\ Loud => ~out.ok
    <2>0. HAVE ~InPlace /\ Loud
    <2>1. walk.rest # <<f - 1>>
      BY <1>1, PathSteps
    <2>2. CASE walk.at = IF walk.mode = "eager" THEN IndexOutOfBounds ELSE QueryResult(None, FALSE)
      <3>1. CASE walk.mode = "eager"
        BY <2>2, <3>1 DEF out, EagerOutcome, IndexOutOfBounds, Err
      <3>2. CASE walk.mode = "lazy"
        <4>1. kinds[walk.field] \in {"cell", "counter"}
          BY <2>0, <3>2 DEF Loud
        <4>2. walk.at = QueryResult(None, FALSE)
          BY <2>2, <3>2
        <4> QED
          BY <3>2, <4>1, <4>2 DEF out, LazyOutcome, LazyCell, DecodeStateValue, QueryResult, Err
      <3> QED
        BY <1>6, <3>1, <3>2
    <2>3. ASSUME NEW s \in 1..Len(Split[n]), n > MaxFlat, walk.at = At(Segment(n, s, b))
          PROVE  ~out.ok
      <3>1. /\ \A k \in {"cell", "counter", "map", "set", "merkle-tree"} :
                  ~EagerOutcome(Ok(Segment(n, s, b)), k).ok
            /\ \A k \in {"cell", "counter"} : ~LazyOutcome(Found(Segment(n, s, b)), k).ok
        BY <1>10, <2>3, SegmentIsNoField
      <3>2. CASE walk.mode = "eager"
        BY <2>0, <2>3, <3>1, <3>2 DEF Loud, At, out
      <3>3. CASE walk.mode = "lazy"
        BY <2>0, <2>3, <3>1, <3>3 DEF Loud, At, out
      <3> QED
        BY <1>6, <3>2, <3>3
    <2> QED
      BY <1>0, <1>1, <2>0, <2>1, <2>2, <2>3 DEF IInv, StrayWalk
  <1>14. StrayDone'
    BY <1>4, <1>9, <1>13 DEF StrayDone
  <1> QED
    BY <1>7, <1>8, <1>12, <1>14 DEF IInv

-----------------------------------------------------------------------------
(* The theorems. *)

LEMMA InvInit ==
  ASSUME Init
  PROVE  IInv
  <1>1. TypeOK
    BY LayoutAssumption DEF Init, TypeOK, None
  <1> QED
    BY <1>1, NoWalkInv DEF Init

LEMMA InvNext ==
  ASSUME IInv, [Next]_vars
  PROVE  IInv'
  <1>0. fields \in Nat /\ block \in Nat /\ MaxFields \in Nat /\ MaxBlocks \in Nat
    BY LayoutAssumption DEF IInv, TypeOK
  <1>1. CASE AppendField
    <2>1. TypeOK'
      BY <1>0, <1>1 DEF AppendField, IInv, TypeOK
    <2> QED
      BY <1>0, <1>1, <2>1, Elsewhere DEF AppendField
  <1>2. CASE CommitBlock
    <2>1. TypeOK'
      BY <1>0, <1>2 DEF CommitBlock, IInv, TypeOK
    <2> QED
      BY <1>0, <1>2, <2>1, Elsewhere DEF CommitBlock
  <1>3. CASE BuildBindings
    <2>1. TypeOK' /\ (walk = NoWalk)'
      BY <1>0, <1>3 DEF BuildBindings, IInv, TypeOK, None
    <2> QED
      BY <2>1, NoWalkInv, PTL
  <1>4. CASE Load
    <2>1. TypeOK' /\ (walk = NoWalk)'
      BY <1>0, <1>4 DEF Load, IInv, TypeOK, Some, Version
    <2> QED
      BY <2>1, NoWalkInv, PTL
  <1>5. CASE \E f \in 1..bindings : StartRead(f) \/ \E key \in Keys : Query(f, key)
    BY <1>5, StartKeepsInv
  <1>6. CASE EagerStep
    BY <1>6, EagerStepKeepsInv
  <1>7. CASE NodeStep
    BY <1>7, NodeStepKeepsInv
  <1>8. CASE Finish
    BY <1>8, FinishKeepsInv
  <1>9. CASE UNCHANGED vars
    <2>1. UNCHANGED <<kinds, fields, block, bindings, handle, walk>>
      BY <1>9 DEF vars
    <2>2. TypeOK'
      BY <2>1 DEF IInv, TypeOK
    <2> QED
      BY <1>0, <2>1, <2>2, Elsewhere
  <1> QED
    BY <1>1, <1>2, <1>3, <1>4, <1>5, <1>6, <1>7, <1>8, <1>9 DEF Next

\* An answer that is an answer is the field's own, or flat bindings found the
\* field out of its place, where StrayDone leaves them nothing but errors.
LEMMA InvImplies ==
  ASSUME IInv
  PROVE  FlatBindingsFailLoudly
  <1>1. SUFFICES ASSUME walk.phase = "done" /\ Loud /\ walk.at.ok
                 PROVE  InPlace /\ walk.at = Own(walk.version.block)
    BY DEF FlatBindingsFailLoudly, Done, Loud
  <1>2. InPlace
    BY <1>1 DEF IInv, StrayDone
  <1>3. walk # NoWalk
    BY <1>1 DEF NoWalk
  <1>4. walk.mode = "eager" => handle[1] = walk.version
    BY <1>3 DEF IInv, WalkShape, Some
  <1> QED
    BY <1>1, <1>2, <1>4 DEF IInv, OwnPlaceReadsOwn, Done

\* A read in progress is on its way to its field's place in the state it
\* started from, for every layout, index and block.
THEOREM InvHolds == Spec => []IInv
  <1>1. Init => IInv
    BY InvInit
  <1>2. IInv /\ [Next]_vars => IInv'
    BY InvNext
  <1> QED
    BY <1>1, <1>2, PTL DEF Spec

\* Versions, handles and reads are well formed: no handle is ahead of the chain
\* and no read outlives the bindings it was compiled from.
THEOREM LayoutTypes == Spec => []TypeOK
  <1>1. IInv => TypeOK
    BY DEF IInv
  <1> QED
    BY <1>1, InvHolds, PTL

\* For every layout of one or two levels, an accessor whose index is right
\* answers for its own field, at the one block of its handle or of its query.
THEOREM AccessorsReadTheirField == Spec => []OwnPlaceReadsOwn
  <1>1. IInv => OwnPlaceReadsOwn
    BY DEF IInv
  <1> QED
    BY <1>1, InvHolds, PTL

\* Bindings of a contract that fits in its root array report an error on every
\* state laid out otherwise, where the accessor's type can tell.
THEOREM FlatBindingsAreSafe == Spec => []FlatBindingsFailLoudly
  <1>1. IInv => FlatBindingsFailLoudly
    BY InvImplies
  <1> QED
    BY <1>1, InvHolds, PTL
=============================================================================
