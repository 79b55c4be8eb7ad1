--------------------------- MODULE DecodingProofs ---------------------------
(***************************************************************************)
(* Proofs about Decoding, for any types, values and widths of integers:    *)
(* what the generated decoders make of a value is that value.              *)
(***************************************************************************)
EXTENDS Decoding, TypeCollectorProofs, Induction, SequenceTheorems

-----------------------------------------------------------------------------
(* The recursive functions of the model exist. *)

IsEnds(f, widths, n) ==
  f = [i \in 0..n |-> IF i = 0 THEN 0 ELSE f[i - 1] + widths[i]]

\* Ends has its recursive function, for any length ...
LEMMA EndsExist ==
  ASSUME NEW widths
  PROVE  \A n \in Nat : \E f : IsEnds(f, widths, n)
<1> DEFINE T == {n \in Nat : \E f : IsEnds(f, widths, n)}
<1>1. 0 \in T
  <2> DEFINE f == [i \in 0..0 |-> 0]
  <2>1. f = [i \in 0..0 |-> IF i = 0 THEN 0 ELSE f[i - 1] + widths[i]]
    <3>1. \A i \in 0..0 : i = 0
      OBVIOUS
    <3> QED
      BY <3>1
  <2>2. IsEnds(f, widths, 0)
    BY <2>1, Zenon DEF IsEnds
  <2> QED
    BY <2>2
<1>2. ASSUME NEW n \in Nat, n \in T
      PROVE  n + 1 \in T
  <2>1. PICK f : IsEnds(f, widths, n)
    BY <1>2
  <2> DEFINE last == f[n] + widths[n + 1]
             g == [i \in 0..(n + 1) |-> IF i = n + 1 THEN last ELSE f[i]]
             h == [i \in 0..(n + 1) |-> IF i = 0 THEN 0 ELSE g[i - 1] + widths[i]]
  <2>2. ASSUME NEW i \in 0..(n + 1)
        PROVE  g[i] = h[i]
    <3>1. CASE i = n + 1
      <4>1. n + 1 # 0 /\ (n + 1) - 1 = n /\ n # n + 1 /\ n \in 0..(n + 1) /\ n + 1 \in 0..(n + 1)
        OBVIOUS
      <4>2. g[n + 1] = last /\ g[n] = f[n]
        BY <4>1, Zenon
      <4>3. h[n + 1] = g[n] + widths[n + 1]
        BY <4>1, Zenon
      <4> QED
        BY <3>1, <4>2, <4>3, Zenon
    <3>2. CASE i # n + 1
      <4>1. /\ i \in 0..n
            /\ i # 0 => i - 1 \in 0..(n + 1) /\ i - 1 # n + 1
        BY <3>2
      <4>2. f[i] = IF i = 0 THEN 0 ELSE f[i - 1] + widths[i]
        BY <2>1, <4>1, Zenon DEF IsEnds
      <4>3. g[i] = f[i] /\ (i # 0 => g[i - 1] = f[i - 1])
        BY <3>2, <4>1, Zenon
      <4>4. h[i] = IF i = 0 THEN 0 ELSE g[i - 1] + widths[i]
        BY Zenon
      <4> QED
        BY <4>2, <4>3, <4>4, Zenon
    <3> QED
      BY <3>1, <3>2
  <2>3. g = h
    <3>1. g = [i \in 0..(n + 1) |-> g[i]]
      OBVIOUS
    <3>2. h = [i \in 0..(n + 1) |-> h[i]]
      OBVIOUS
    <3> QED
      BY <2>2, <3>1, <3>2, Zenon
  <2>4. IsEnds(g, widths, n + 1)
    BY <2>3, Zenon DEF IsEnds
  <2> HIDE DEF g
  <2> QED
    BY <2>4
<1> HIDE DEF T
<1>3. \A n \in Nat : n \in T
  BY <1>1, <1>2, InductionOnNat
<1> QED
  BY <1>3, Zenon DEF T

\* ... so that Ends is what its definition says ...
LEMMA EndsAre ==
  ASSUME NEW widths, Len(widths) \in Nat
  PROVE  \A i \in 0..Len(widths) :
           Ends(widths)[i] = IF i = 0 THEN 0 ELSE Ends(widths)[i - 1] + widths[i]
<1> DEFINE f == CHOOSE g : IsEnds(g, widths, Len(widths))
<1>1. IsEnds(f, widths, Len(widths))
  BY EndsExist, Zenon
<1>2. Ends(widths) = f
  BY Zenon DEF Ends, IsEnds
<1> QED
  BY <1>1, <1>2, Zenon DEF IsEnds

NoCodecs == [n \in Nodes |-> ByteArrayCodec]
Level(inner) == [n \in Nodes |-> Codec(n, inner)]

IsCodecs(f, nesting) ==
  f = [k \in 0..nesting |-> IF k = 0 THEN NoCodecs ELSE Level(f[k - 1])]

\* ... and the codecs up to any nesting.
LEMMA CodecsExist == \A n \in Nat : \E f : IsCodecs(f, n)
<1> DEFINE T == {n \in Nat : \E f : IsCodecs(f, n)}
<1>1. 0 \in T
  <2> DEFINE f == [i \in 0..0 |-> NoCodecs]
  <2>1. f = [i \in 0..0 |-> IF i = 0 THEN NoCodecs ELSE Level(f[i - 1])]
    <3>1. \A i \in 0..0 : i = 0
      OBVIOUS
    <3> QED
      BY <3>1
  <2>2. IsCodecs(f, 0)
    BY <2>1, Zenon DEF IsCodecs
  <2> QED
    BY <2>2
<1>2. ASSUME NEW n \in Nat, n \in T
      PROVE  n + 1 \in T
  <2>1. PICK f : IsCodecs(f, n)
    BY <1>2
  <2> DEFINE last == Level(f[n])
             g == [i \in 0..(n + 1) |-> IF i = n + 1 THEN last ELSE f[i]]
             h == [i \in 0..(n + 1) |-> IF i = 0 THEN NoCodecs ELSE Level(g[i - 1])]
  <2>2. ASSUME NEW i \in 0..(n + 1)
        PROVE  g[i] = h[i]
    <3>1. CASE i = n + 1
      <4>1. n + 1 # 0 /\ (n + 1) - 1 = n /\ n # n + 1 /\ n \in 0..(n + 1) /\ n + 1 \in 0..(n + 1)
        OBVIOUS
      <4>2. g[n + 1] = last /\ g[n] = f[n]
        BY <4>1, Zenon
      <4>3. h[n + 1] = Level(g[n])
        BY <4>1, Zenon
      <4> QED
        BY <3>1, <4>2, <4>3, Zenon
    <3>2. CASE i # n + 1
      <4>1. /\ i \in 0..n
            /\ i # 0 => i - 1 \in 0..(n + 1) /\ i - 1 # n + 1
        BY <3>2
      <4>2. f[i] = IF i = 0 THEN NoCodecs ELSE Level(f[i - 1])
        BY <2>1, <4>1, Zenon DEF IsCodecs
      <4>3. g[i] = f[i] /\ (i # 0 => g[i - 1] = f[i - 1])
        BY <3>2, <4>1, Zenon
      <4>4. h[i] = IF i = 0 THEN NoCodecs ELSE Level(g[i - 1])
        BY Zenon
      <4> QED
        BY <4>2, <4>3, <4>4, Zenon
    <3> QED
      BY <3>1, <3>2
  <2>3. g = h
    <3>1. g = [i \in 0..(n + 1) |-> g[i]]
      OBVIOUS
    <3>2. h = [i \in 0..(n + 1) |-> h[i]]
      OBVIOUS
    <3> QED
      BY <2>2, <3>1, <3>2, Zenon
  <2>4. IsCodecs(g, n + 1)
    BY <2>3, Zenon DEF IsCodecs
  <2> HIDE DEF g
  <2> QED
    BY <2>4
<1> HIDE DEF T
<1>3. \A n \in Nat : n \in T
  BY <1>1, <1>2, InductionOnNat
<1> QED
  BY <1>3, Zenon DEF T

\* Codecs is the last of the levels its definition builds.
LEMMA CodecsAre ==
  ASSUME NEW nesting \in Nat
  PROVE  \E f : /\ Codecs(nesting) = f[nesting]
                /\ \A k \in 0..nesting : f[k] = IF k = 0 THEN NoCodecs ELSE Level(f[k - 1])
<1> DEFINE f == CHOOSE g : IsCodecs(g, nesting)
<1>1. IsCodecs(f, nesting)
  BY CodecsExist, Zenon
<1>2. Codecs(nesting) = f[nesting]
  BY Zenon DEF Codecs, IsCodecs, NoCodecs, Level
<1> QED
  BY <1>1, <1>2, Zenon DEF IsCodecs

-----------------------------------------------------------------------------
(* Splitting. *)

\* A sequence put behind another can be cut off again, and leaves it as it was.
LEMMA Concatenation ==
  ASSUME NEW S, NEW a \in Seq(S), NEW b \in Seq(S)
  PROVE  /\ a \o b \in Seq(S)
         /\ Len(a \o b) = Len(a) + Len(b)
         /\ SubSeq(a \o b, Len(a) + 1, Len(a) + Len(b)) = b
         /\ \A i, j \in Nat : 1 <= i /\ j <= Len(a) => SubSeq(a \o b, i, j) = SubSeq(a, i, j)
  OBVIOUS

\* Sequences put together are found again between the ends of their lengths.
LEMMA Slices ==
  ASSUME NEW S, NEW ss \in Seq(Seq(S)), NEW widths \in Seq(Nat), Len(widths) = Len(ss),
         \A i \in 1..Len(ss) : widths[i] = Len(ss[i])
  PROVE  /\ FlattenSeq(ss) \in Seq(S)
         /\ Ends(widths)[Len(ss)] = Len(FlattenSeq(ss))
         /\ \A i \in 1..Len(ss) :
              SubSeq(FlattenSeq(ss), Ends(widths)[i - 1] + 1, Ends(widths)[i]) = ss[i]
<1> DEFINE end == Ends(widths)
<1>1. \A i \in 0..Len(ss) : end[i] = IF i = 0 THEN 0 ELSE end[i - 1] + widths[i]
  BY EndsAre
<1> HIDE DEF end
<1>2. CASE ss = << >>
  <2>1. FlattenSeq(ss) = << >> /\ Len(ss) = 0 /\ << >> \in Seq(S)
    BY <1>2 DEF FlattenSeq
  <2>2. end[0] = 0
    BY <1>1, <2>1
  <2> QED
    BY <2>1, <2>2 DEF end
<1>3. CASE ss # << >>
  <2>1. PICK f : IsFlattening(f, ss, Len(ss)) /\ FlattenSeq(ss) = f[Len(ss)]
    BY <1>3, FlattenSeqIsFlattening, Zenon
  <2>2. \A i \in 1..Len(ss) : f[i] = IF i = 1 THEN ss[i] ELSE f[i - 1] \o ss[i]
    BY <2>1, Zenon DEF IsFlattening
  <2> DEFINE Split(n) == /\ f[n] \in Seq(S)
                         /\ end[n] = Len(f[n])
                         /\ \A i \in 1..n : /\ end[i - 1] \in Nat /\ end[i] \in Nat /\ end[i] <= end[n]
                                            /\ SubSeq(f[n], end[i - 1] + 1, end[i]) = ss[i]
             T == {n \in Nat : n \in 1..Len(ss) => Split(n)}
  <2>3. 0 \in T
    OBVIOUS
  <2>4. ASSUME NEW n \in Nat, n \in T
        PROVE  n + 1 \in T
    <3> SUFFICES ASSUME n + 1 \in 1..Len(ss)
                 PROVE  Split(n + 1)
      OBVIOUS
    <3> DEFINE b == ss[n + 1]
    <3>1. /\ b \in Seq(S) /\ Len(b) \in Nat
          /\ n + 1 # 0 /\ (n + 1) - 1 = n
          /\ n + 1 \in 0..Len(ss)
      OBVIOUS
    <3>2. end[n + 1] = end[n] + Len(b)
      BY <1>1, <3>1, Zenon
    <3>3. CASE n = 0
      <4>1. f[n + 1] = b
        BY <2>2, <3>3
      <4>2. end[n] = 0
        BY <1>1, <3>3
      <4>3. end[n + 1] = Len(b)
        BY <3>1, <3>2, <4>2
      <4>4. SubSeq(b, 1, Len(b)) = b
        BY <3>1
      <4> HIDE DEF b
      <4>5. ASSUME NEW i \in 1..(n + 1)
            PROVE  /\ end[i - 1] \in Nat /\ end[i] \in Nat /\ end[i] <= end[n + 1]
                   /\ SubSeq(f[n + 1], end[i - 1] + 1, end[i]) = ss[i]
        <5>1. i = n + 1 /\ i - 1 = n /\ 0 + 1 = 1
          BY <3>3
        <5>2. SubSeq(f[n + 1], end[i - 1] + 1, end[i]) = ss[i]
          BY <4>1, <4>2, <4>3, <4>4, <5>1, Zenon DEF b
        <5> QED
          BY <3>1, <4>2, <4>3, <5>1, <5>2
      <4> QED
        BY <3>1, <4>1, <4>3, <4>5
    <3>4. CASE n # 0
      <4> DEFINE a == f[n]
      <4>1. n \in 1..Len(ss) /\ n + 1 # 1
        BY <3>4
      <4>2. Split(n)
        BY <2>4, <4>1
      <4>3. a \in Seq(S) /\ Len(a) \in Nat /\ end[n] = Len(a)
        BY <4>2
      <4>4. f[n + 1] = a \o b
        BY <2>2, <3>1, <4>1, Zenon
      <4> HIDE DEF a, b
      <4>5. /\ a \o b \in Seq(S)
            /\ Len(a \o b) = Len(a) + Len(b)
            /\ SubSeq(a \o b, Len(a) + 1, Len(a) + Len(b)) = b
            /\ \A i, j \in Nat : 1 <= i /\ j <= Len(a) => SubSeq(a \o b, i, j) = SubSeq(a, i, j)
        BY <3>1, <4>3, Concatenation
      <4>6. ASSUME NEW i \in 1..(n + 1)
            PROVE  /\ end[i - 1] \in Nat /\ end[i] \in Nat /\ end[i] <= end[n + 1]
                   /\ SubSeq(f[n + 1], end[i - 1] + 1, end[i]) = ss[i]
        <5>1. CASE i = n + 1
          <6>1. SubSeq(f[n + 1], end[n] + 1, end[n + 1]) = ss[n + 1]
            BY <3>2, <4>3, <4>4, <4>5, Zenon DEF b
          <6>2. i - 1 = n
            BY <5>1
          <6>3. end[n] \in Nat /\ end[n + 1] \in Nat /\ end[n + 1] <= end[n + 1]
            BY <3>1, <3>2, <4>3
          <6> QED
            BY <5>1, <6>1, <6>2, <6>3, Zenon
        <5>2. CASE i # n + 1
          <6>1. i \in 1..n
            BY <5>2
          <6>2. /\ end[i - 1] \in Nat /\ end[i] \in Nat /\ end[i] <= end[n]
                /\ SubSeq(a, end[i - 1] + 1, end[i]) = ss[i]
            BY <4>2, <6>1, Zenon DEF a
          <6> DEFINE from == end[i - 1] + 1
                     to == end[i]
          <6>3. from \in Nat /\ 1 <= from
            <7>1. end[i - 1] \in Nat
              BY <6>2, Zenon
            <7> QED
              BY <7>1
          <6>4. to \in Nat /\ to <= Len(a)
            BY <4>3, <6>2, Zenon
          <6>5. SubSeq(a \o b, from, to) = SubSeq(a, from, to)
            <7> HIDE DEF from, to
            <7> QED
              BY <4>5, <6>3, <6>4, Zenon
          <6>6. to <= end[n + 1]
            <7> HIDE DEF to
            <7> QED
              BY <3>1, <3>2, <4>3, <6>4
          <6>7. SubSeq(f[n + 1], from, to) = ss[i]
            BY <4>4, <6>2, <6>5, Zenon
          <6> QED
            BY <6>2, <6>6, <6>7, Zenon
        <5> QED
          BY <5>1, <5>2
      <4>7. f[n + 1] \in Seq(S) /\ end[n + 1] = Len(f[n + 1])
        BY <3>2, <4>3, <4>4, <4>5
      <4> QED
        BY <4>6, <4>7
    <3> QED
      BY <3>3, <3>4
  <2>5. \A n \in Nat : n \in T
    <3> HIDE DEF T
    <3> QED
      BY <2>3, <2>4, InductionOnNat
  <2>6. Split(Len(ss))
    <3>1. Len(ss) \in Nat /\ Len(ss) \in 1..Len(ss)
      BY <1>3
    <3> QED
      BY <2>5, <3>1
  <2> QED
    BY <2>1, <2>6, Zenon DEF end
<1> QED
  BY <1>2, <1>3

-----------------------------------------------------------------------------
(* Primitive types and enums. *)

Unsigned == {"u8", "u16", "u32", "u64", "u128"}

\* The type chosen for a number holds it.
LEMMA SmallestFits ==
  ASSUME NEW types \in SUBSET Unsigned, NEW number \in Nat
  PROVE  \/ Smallest(types, number) = "Vec<u8>"
         \/ Smallest(types, number) \in types /\ number <= Largest[Smallest(types, number)]
<1> DEFINE fits == {t \in types : number <= Largest[t]}
<1>1. CASE fits = {}
  BY <1>1 DEF Smallest
<1>2. CASE fits # {}
  <2>1. \E t \in fits : \A u \in fits : Largest[t] <= Largest[u]
    <3>1. \A t \in Unsigned : Largest[t] \in Nat
      BY LargestAssumption DEF Unsigned
    <3>2. fits \subseteq Unsigned
      OBVIOUS
    <3> HIDE DEF fits
    <3>3. CASE "u8" \in fits
      BY <3>2, <3>3, LargestAssumption DEF Unsigned
    <3>4. CASE "u8" \notin fits /\ "u16" \in fits
      BY <3>2, <3>4, LargestAssumption DEF Unsigned
    <3>5. CASE "u8" \notin fits /\ "u16" \notin fits /\ "u32" \in fits
      BY <3>2, <3>5, LargestAssumption DEF Unsigned
    <3>6. CASE fits \subseteq {"u64", "u128"} /\ "u64" \in fits
      BY <3>6, LargestAssumption DEF Unsigned
    <3>7. CASE fits = {"u128"}
      BY <3>7, LargestAssumption DEF Unsigned
    <3> QED
      BY <1>2, <3>2, <3>3, <3>4, <3>5, <3>6, <3>7 DEF Unsigned
  <2> DEFINE t == CHOOSE t \in fits : \A u \in fits : Largest[t] <= Largest[u]
  <2>2. t \in fits
    BY <2>1
  <2>3. Smallest(types, number) = t
    BY <1>2 DEF Smallest
  <2> QED
    BY <2>2, <2>3
<1> QED
  BY <1>1, <1>2

\* The Rust type of a Uint holds its numbers.
LEMMA UintHolds ==
  ASSUME NEW n \in Nodes, Maxval[n].form \in {"number", "string"}
  PROVE  LET rust == UintTokens(Maxval[n])
         IN rust = "Vec<u8>" \/ (rust \in Unsigned /\ Maxval[n].value <= Largest[rust])
<1>1. Maxval[n].value \in Nat /\ DOMAIN Largest = Unsigned
  BY ValuesAssumption, LargestAssumption DEF Unsigned
<1>2. CASE Maxval[n].form = "number"
  <2>1. UintTokens(Maxval[n]) = Smallest(Unsigned, Maxval[n].value)
    BY <1>1, <1>2 DEF UintTokens
  <2> QED
    BY <1>1, <2>1, SmallestFits
<1>3. CASE Maxval[n].form = "string"
  <2>1. UintTokens(Maxval[n]) = Smallest({"u64", "u128"}, Maxval[n].value)
    BY <1>3 DEF UintTokens
  <2>2. {"u64", "u128"} \in SUBSET Unsigned
    BY DEF Unsigned
  <2> QED
    BY <1>1, <2>1, <2>2, SmallestFits
<1> QED
  BY <1>2, <1>3

\* A codec that, if it decodes at all, is right about the values of n.
Sound(codec, n) ==
  codec.decodes =>
    \A v \in Values[n] : /\ Encoded[n][v] \in Seq(Nat)
                         /\ codec.width = Len(Encoded[n][v])
                         /\ codec.decode[Encoded[n][v]] = {v}

\* The atoms of a leaf are as many as its Rust type takes, and in its range.
LEMMA LeafFits ==
  ASSUME NEW n \in Nodes, NEW v \in LeafValues(n)
  PROVE  LET rust == LeafTokens(n)
         IN /\ v \in Seq(Nat)
            /\ Len(v) = LeafWidth(rust)
            /\ rust = "bool" => v[1] \in {0, 1}
            /\ rust \in Unsigned => v[1] <= Largest[rust]
<1>1. \A m \in Nat : \A u \in [1..m -> Nat] : u \in Seq(Nat) /\ Len(u) = m
  OBVIOUS
<1>2. CASE Leaf[n] = "Boolean"
  <2>1. LeafTokens(n) = "bool" /\ v \in [1..1 -> {0, 1}]
    BY <1>2 DEF LeafTokens, LeafValues
  <2>2. v \in [1..1 -> Nat] /\ v[1] \in {0, 1}
    BY <2>1
  <2> QED
    BY <1>1, <2>1, <2>2 DEF LeafWidth, Unsigned
<1>3. CASE Leaf[n] = "Uint"
  <2>1. LeafTokens(n) = UintTokens(Maxval[n])
    BY <1>3 DEF LeafTokens
  <2>2. Maxval[n].form \in {"number", "string"} /\ v \in [1..1 -> 0..Maxval[n].value]
    BY <1>3 DEF LeafValues
  <2>3. Maxval[n].value \in Nat
    BY ValuesAssumption
  <2>4. v \in [1..1 -> Nat] /\ v[1] \in Nat /\ v[1] <= Maxval[n].value
    BY <2>2, <2>3
  <2>5. v \in Seq(Nat) /\ Len(v) = 1
    BY <1>1, <2>4
  <2> DEFINE rust == LeafTokens(n)
  <2>6. rust = "Vec<u8>" \/ (rust \in Unsigned /\ Maxval[n].value <= Largest[rust])
    BY <2>1, <2>2, UintHolds
  <2>7. \A t \in Unsigned : Largest[t] \in Nat
    BY LargestAssumption DEF Unsigned
  <2> HIDE DEF rust
  <2>8. rust \in Unsigned => v[1] <= Largest[rust]
    BY <2>3, <2>4, <2>6, <2>7 DEF Unsigned
  <2>9. rust # "bool" /\ rust # "EmbeddedGroupAffine"
    BY <2>6 DEF Unsigned
  <2> QED
    BY <2>5, <2>8, <2>9 DEF LeafWidth, rust
<1>4. CASE Leaf[n] = "Opaque" /\ TsType[n] = "JubjubPoint"
  <2>1. LeafTokens(n) = "EmbeddedGroupAffine" /\ v \in [1..2 -> Nat]
    BY <1>4 DEF LeafTokens, LeafValues, OpaqueTokens
  <2> QED
    BY <1>1, <2>1 DEF LeafWidth, Unsigned
<1>5. CASE Leaf[n] = "Opaque" /\ TsType[n] # "JubjubPoint"
  <2>1. LeafTokens(n) \in {"TransientFr", "Vec<u8>"} /\ v \in [1..1 -> Nat]
    BY <1>5 DEF LeafTokens, LeafValues, OpaqueTokens
  <2> QED
    BY <1>1, <2>1 DEF LeafWidth, Unsigned
<1>6. CASE Leaf[n] \in {"Field", "Bytes"}
  <2>1. LeafTokens(n) \in {"TransientFr", "Bytes"} /\ v \in [1..1 -> Nat]
    BY <1>6 DEF LeafTokens, LeafValues
  <2> QED
    BY <1>1, <2>1 DEF LeafWidth, Unsigned
<1>7. CASE Leaf[n] \notin {"Boolean", "Uint", "Opaque", "Field", "Bytes"}
  BY <1>7 DEF LeafValues
<1> QED
  BY <1>2, <1>3, <1>4, <1>5, <1>6, <1>7

\* The primitive types take what the chain holds for them, and give it back.
LEMMA LeafSound ==
  ASSUME NEW n \in Nodes, Sort[n] = "leaf"
  PROVE  Sound(LeafCodec(n), n)
<1> SUFFICES ASSUME NEW v \in Values[n]
             PROVE  /\ Encoded[n][v] \in Seq(Nat)
                    /\ LeafCodec(n).width = Len(Encoded[n][v])
                    /\ LeafCodec(n).decode[Encoded[n][v]] = {v}
  BY DEF Sound
<1>1. v \in LeafValues(n) /\ Encoded[n][v] = v
  BY ValuesAssumption DEF Alias
<1> DEFINE rust == LeafTokens(n)
<1>2. DOMAIN Largest = Unsigned
  BY LargestAssumption DEF Unsigned
<1>3. /\ v \in Seq(Nat)
      /\ Len(v) = LeafWidth(rust)
      /\ rust = "bool" => v[1] \in {0, 1}
      /\ rust \in DOMAIN Largest => v[1] <= Largest[rust]
  BY <1>1, <1>2, LeafFits
<1> HIDE DEF rust
<1>4. DecodeLeaf(rust, v) = {v}
  BY <1>3 DEF DecodeLeaf
<1>5. LeafCodec(n).width = LeafWidth(rust) /\ LeafCodec(n).decode[v] = DecodeLeaf(rust, v)
  BY <1>3 DEF LeafCodec, rust
<1> QED
  BY <1>1, <1>3, <1>4, <1>5

\* An enum that rustc accepts fits its byte, which tells its variants apart.
LEMMA EnumSound ==
  ASSUME Accepted, NEW n \in Nodes, Sort[n] = "enum", n \in Defined
  PROVE  Sound(EnumCodec(n), n)
<1> SUFFICES ASSUME NEW v \in Values[n]
             PROVE  /\ Encoded[n][v] \in Seq(Nat)
                    /\ EnumCodec(n).width = Len(Encoded[n][v])
                    /\ EnumCodec(n).decode[Encoded[n][v]] = {v}
  BY DEF Sound
<1> DEFINE m == Largest["u8"]
           k == Variants[n]
<1>1. v \in 1..k /\ Encoded[n][v] = <<v - 1>> /\ k \in Nat /\ m \in Nat
  BY ValuesAssumption, LargestAssumption DEF Alias
<1>2. \A i, j \in 1..k : Discriminant(i) = Discriminant(j) => i = j
  BY DEF Accepted
<1>3. \A i \in 1..k : Discriminant(i) = (i - 1) % (m + 1)
  BY DEF Discriminant
<1> HIDE DEF m, k
<1>4. k <= m + 1
  <2> SUFFICES ASSUME k > m + 1
               PROVE  FALSE
    BY <1>1
  <2>1. 1 \in 1..k /\ m + 2 \in 1..k /\ m + 2 # 1 /\ (m + 2) - 1 = m + 1
    BY <1>1
  <2>2. 0 % (m + 1) = 0 /\ (m + 1) % (m + 1) = 0
    BY <1>1
  <2>3. Discriminant(1) = 0 /\ Discriminant(m + 2) = 0
    BY <1>3, <2>1, <2>2
  <2> QED
    BY <1>2, <2>1, <2>3
<1>5. \A i \in 1..k : Discriminant(i) = i - 1
  <2>1. \A a \in 0..m : a % (m + 1) = a
    BY <1>1
  <2>2. \A i \in 1..k : i - 1 \in 0..m
    BY <1>1, <1>4
  <2> QED
    BY <1>3, <2>1, <2>2, Zenon
<1> DEFINE s == <<v - 1>>
<1>6. s \in Seq(Nat) /\ Len(s) = 1 /\ s[1] = v - 1 /\ v - 1 <= m
  BY <1>1, <1>4
<1> HIDE DEF s
<1>7. DecodeEnum(n, s) = {v}
  <2>1. ASSUME NEW i \in 1..k
        PROVE  s[1] = Discriminant(i) <=> i = v
    BY <1>1, <1>5, <1>6
  <2>2. \A j \in 1..(v - 1) : j \in 1..k /\ j # v
    BY <1>1
  <2>3. v \in DecodeEnum(n, s)
    BY <1>1, <1>6, <2>1, <2>2 DEF DecodeEnum, m, k
  <2>4. \A i \in DecodeEnum(n, s) : i = v
    BY <2>1, Zenon DEF DecodeEnum, k
  <2> QED
    BY <2>3, <2>4
<1>8. EnumCodec(n).width = 1 /\ EnumCodec(n).decode[s] = DecodeEnum(n, s)
  BY <1>6 DEF EnumCodec
<1> QED
  BY <1>1, <1>6, <1>7, <1>8 DEF s

-----------------------------------------------------------------------------
(* Composites. *)

\* A value and its atoms, put together from those of its elements.
MadeOf(v, atoms, elements) ==
  /\ v = [i \in DOMAIN elements |-> v[i]]
  /\ \A i \in DOMAIN elements : v[i] \in Values[elements[i]]
  /\ atoms = FlattenSeq([i \in DOMAIN elements |-> Encoded[elements[i]][v[i]]])

\* If the codecs of its elements are right, so is what a tuple makes of them.
LEMMA TupleSound ==
  ASSUME NEW elements \in Seq(Nodes), NEW inner,
         \A i \in DOMAIN elements : Sound(inner[elements[i]], elements[i]),
         TupleCodec(elements, inner).decodes,
         NEW v, NEW atoms, MadeOf(v, atoms, elements)
  PROVE  /\ atoms \in Seq(Nat)
         /\ TupleCodec(elements, inner).width = Len(atoms)
         /\ TupleCodec(elements, inner).decode[atoms] = {v}
<1> DEFINE D == DOMAIN elements
           ss == [i \in D |-> Encoded[elements[i]][v[i]]]
           widths == [i \in D |-> inner[elements[i]].width]
           end == EndsOf(elements, inner)
<1>1. D = 1..Len(elements) /\ Len(elements) \in Nat
  OBVIOUS
<1>2. \A i \in D : /\ ss[i] \in Seq(Nat)
                   /\ widths[i] = Len(ss[i])
                   /\ inner[elements[i]].decode[ss[i]] = {v[i]}
  <2>1. \A i \in D : inner[elements[i]].decodes
    BY DEF TupleCodec
  <2> QED
    BY <2>1, Zenon DEF Sound, MadeOf
<1>3. ss \in Seq(Seq(Nat)) /\ Len(ss) = Len(elements)
  <2>1. ss = [i \in 1..Len(elements) |-> ss[i]]
    BY <1>1
  <2>2. \A i \in 1..Len(elements) : ss[i] \in Seq(Nat)
    BY <1>1, <1>2, Zenon
  <2> HIDE DEF ss
  <2> QED
    BY <1>1, <2>1, <2>2
<1>4. widths \in Seq(Nat) /\ Len(widths) = Len(elements)
  <2>1. widths = [i \in 1..Len(elements) |-> widths[i]]
    BY <1>1
  <2>2. \A i \in 1..Len(elements) : widths[i] \in Nat
    <3>1. \A t \in Seq(Nat) : Len(t) \in Nat
      OBVIOUS
    <3> HIDE DEF ss, widths
    <3> QED
      BY <1>1, <1>2, <3>1
  <2> HIDE DEF widths
  <2> QED
    BY <1>1, <2>1, <2>2
<1>5. end = Ends(widths)
  BY Zenon DEF EndsOf
<1>6. atoms = FlattenSeq(ss) /\ v = [i \in D |-> v[i]]
  BY Zenon DEF MadeOf
<1> HIDE DEF ss, widths, end
<1>7. /\ atoms \in Seq(Nat)
      /\ end[Len(elements)] = Len(atoms)
      /\ \A i \in D : SubSeq(atoms, end[i - 1] + 1, end[i]) = ss[i]
  <2>1. \A i \in 1..Len(ss) : widths[i] = Len(ss[i])
    BY <1>1, <1>2, <1>3, Zenon
  <2>2. /\ FlattenSeq(ss) \in Seq(Nat)
        /\ Ends(widths)[Len(ss)] = Len(FlattenSeq(ss))
        /\ \A i \in 1..Len(ss) :
             SubSeq(FlattenSeq(ss), Ends(widths)[i - 1] + 1, Ends(widths)[i]) = ss[i]
    BY <1>3, <1>4, <2>1, Slices
  <2> QED
    BY <1>1, <1>3, <1>5, <1>6, <2>2, Zenon
<1> DEFINE part(i) == inner[elements[i]].decode[SubSeq(atoms, end[i - 1] + 1, end[i])]
           decoded == UNION {{<<i, u>> : u \in part(i)} : i \in D}
<1>8. \A i \in D : part(i) = {v[i]}
  BY <1>2, <1>7, Zenon
<1>9. decoded = {<<i, v[i]>> : i \in D}
  <2> HIDE DEF part
  <2> QED
    BY <1>8
<1> DEFINE result == [i \in D |-> (CHOOSE p \in decoded : p[1] = i)[2]]
<1>10. DecodeTuple(elements, inner, atoms) =
         IF Len(atoms) = end[Len(elements)] /\ {p[1] : p \in decoded} = D THEN {result} ELSE {}
  BY Zenon DEF DecodeTuple, end
<1> HIDE DEF decoded
<1>11. {p[1] : p \in decoded} = D
  <2>1. \A i \in D : <<i, v[i]>> \in decoded /\ <<i, v[i]>>[1] = i
    BY <1>9
  <2>2. \A p \in decoded : p[1] \in D
    BY <1>9
  <2> HIDE DEF D
  <2> QED
    BY <2>1, <2>2
<1>12. \A i \in D : (CHOOSE p \in decoded : p[1] = i) = <<i, v[i]>>
  BY <1>9
<1>13. result = v
  <2>1. ASSUME NEW i \in D
        PROVE  result[i] = v[i]
    <3>1. result[i] = (CHOOSE p \in decoded : p[1] = i)[2]
      BY Zenon
    <3>2. <<i, v[i]>>[2] = v[i]
      OBVIOUS
    <3> HIDE DEF result
    <3> QED
      BY <1>12, <3>1, <3>2, Zenon
  <2>2. result = [i \in D |-> result[i]]
    OBVIOUS
  <2> HIDE DEF result
  <2> QED
    BY <1>6, <2>1, <2>2, Zenon
<1>14. DecodeTuple(elements, inner, atoms) = {v}
  <2> HIDE DEF result
  <2> QED
    BY <1>7, <1>10, <1>11, <1>13, Zenon
<1>15. /\ TupleCodec(elements, inner).width = end[Len(elements)]
       /\ TupleCodec(elements, inner).decode[atoms] = DecodeTuple(elements, inner, atoms)
  BY <1>7 DEF TupleCodec, end
<1> QED
  BY <1>7, <1>14, <1>15, Zenon

-----------------------------------------------------------------------------
(* The types of a contract. *)

\* Every name in the tokens of n is one the generated code mentions.
InContract(n) == n \in Nodes /\ Named[n] \subseteq Mentioned

\* A definition is found under its own name.
LEMMA OwnDefinition ==
  ASSUME DefinedOnce, NEW n \in Defined
  PROVE  Definition(n) = n
<1>1. ASSUME NEW d \in Defined, Name[d] = Name[n]
      PROVE  d = n
  BY <1>1 DEF Defined, DefinedOnce
<1>2. n \in Defined /\ Name[n] = Name[n]
  OBVIOUS
<1>3. Definition(n) \in Defined /\ Name[Definition(n)] = Name[n]
  BY <1>2, Zenon DEF Definition
<1> QED
  BY <1>1, <1>3

\* The elements of a vector are those of its copies.
LEMMA ElementsArePart ==
  ASSUME NEW n \in Nodes
  PROVE  Elements(n) \in Seq({Parts[n][i] : i \in DOMAIN Parts[n]})
<1> DEFINE S == {Parts[n][i] : i \in DOMAIN Parts[n]}
           ss == [i \in 1..Copies[n] |-> Parts[n]]
<1>1. Parts[n] \in Seq(S) /\ Copies[n] \in Nat
  BY NodeAssumption, ValuesAssumption
<1> HIDE DEF S
<1>2. ss \in Seq(Seq(S))
  BY <1>1
<1>3. FlattenSeq(ss) \in Seq(S)
  BY <1>2, FlattenSeqType
<1> QED
  BY <1>1, <1>3 DEF Elements, S

\* With the definition of its own, the elements that a composite of the contract
\* is decoded by are its own, they are in the contract and nested less deeply.
LEMMA Inside ==
  ASSUME TypeOK, DefinedOnce, Mentioned \subseteq Defined,
         NEW n, InContract(n), Sort[n] \in {"struct", "wrapper"}
  PROVE  /\ Elements(n) \in Seq(Nodes)
         /\ Sort[n] = "struct" => Parts[Definition(n)] = Elements(n)
         /\ \A i \in DOMAIN Elements(n) : /\ InContract(Elements(n)[i])
                                          /\ Nesting[Elements(n)[i]] < Nesting[n]
         /\ \A i \in DOMAIN Parts[n] : /\ InContract(Parts[n][i])
                                       /\ Nesting[Parts[n][i]] < Nesting[n]
<1> DEFINE S == {Parts[n][i] : i \in DOMAIN Parts[n]}
<1>1. n \in Nodes /\ Named[n] \subseteq Mentioned
  BY DEF InContract
<1>2. Parts[n] \in Seq(Nodes) /\ S \subseteq Nodes
  BY <1>1, NodeAssumption
<1>3. \A e \in S : Nesting[e] < Nesting[n]
  BY <1>1, NestingAssumption
<1>4. \A e \in S : Named[e] \subseteq Mentioned
  <2>1. CASE Sort[n] = "struct"
    <3>1. n \in Defined
      BY <1>1, <2>1, NodeAssumption
    <3>2. S \subseteq Appearing
      BY <2>1, <3>1 DEF Appearing
    <3> QED
      BY <3>2 DEF Mentioned
  <2>2. CASE Sort[n] = "wrapper"
    <3>1. Named[n] = UNION {Named[Parts[n][i]] : i \in DOMAIN Parts[n]}
      BY <1>1, <2>2, NodeAssumption
    <3> QED
      BY <1>1, <3>1
  <2> QED
    BY <2>1, <2>2
<1>5. Sort[n] = "struct" => Parts[Definition(n)] = Elements(n)
  <2> SUFFICES ASSUME Sort[n] = "struct"
               PROVE  Parts[Definition(n)] = Elements(n)
    OBVIOUS
  <2>1. n \in Defined
    BY <1>1, NodeAssumption
  <2> QED
    BY <2>1, OwnDefinition DEF Elements
<1> HIDE DEF S
<1>6. Elements(n) \in Seq(S)
  BY <1>1, ElementsArePart DEF S
<1>7. Elements(n) \in Seq(Nodes)
  BY <1>2, <1>6, SeqMonotonic
<1>8. \A i \in DOMAIN Elements(n) : Elements(n)[i] \in S
  BY <1>6
<1>9. \A i \in DOMAIN Parts[n] : Parts[n][i] \in S
  BY DEF S
<1> QED
  BY <1>2, <1>3, <1>4, <1>5, <1>7, <1>8, <1>9 DEF InContract

\* The codec of a type is right if those one level below are.
LEMMA CodecSound ==
  ASSUME TypeOK, DefinedOnce, Accepted, Mentioned \subseteq Defined,
         NEW n, InContract(n), NEW inner,
         \A e \in Nodes : InContract(e) /\ Nesting[e] < Nesting[n] => Sound(inner[e], e)
  PROVE  Sound(Codec(n, inner), n)
<1>1. n \in Nodes /\ Sort[n] \in {"struct", "enum", "wrapper", "leaf"}
  BY NodeAssumption DEF InContract
<1>2. CASE Sort[n] = "leaf"
  <2>1. Codec(n, inner) = LeafCodec(n)
    BY <1>2 DEF Codec, Alias, IsByteArray
  <2> QED
    BY <1>1, <1>2, <2>1, LeafSound, Zenon
<1>3. CASE Sort[n] = "enum"
  <2>1. n \in Defined
    BY <1>1, <1>3, NodeAssumption DEF InContract
  <2>2. Codec(n, inner) = EnumCodec(n)
    BY <1>3, <2>1, OwnDefinition DEF Codec, Alias, IsByteArray
  <2> QED
    BY <1>1, <1>3, <2>1, <2>2, EnumSound, Zenon
<1>4. CASE Alias(n)
  <2> DEFINE e == Parts[n][1]
  <2>1. Sort[n] = "wrapper" /\ Wrap[n] = "alias"
    BY <1>4 DEF Alias
  <2>2. 1 \in DOMAIN Parts[n]
    BY <1>1, <2>1, NodeAssumption, WrapAssumption
  <2>3. InContract(e) /\ Nesting[e] < Nesting[n]
    BY <2>1, <2>2, Inside, Zenon
  <2>4. Sound(inner[e], e)
    BY <2>3, Zenon DEF InContract
  <2>5. \A v \in Values[n] : v \in Values[e] /\ Encoded[n][v] = Encoded[e][v]
    BY <1>1, <1>4, <2>1, ValuesAssumption
  <2>6. Codec(n, inner) = inner[e]
    BY <2>1 DEF Codec, Alias, IsByteArray
  <2> HIDE DEF e
  <2> QED
    BY <2>4, <2>5, <2>6, Zenon DEF Sound
<1>5. CASE Sort[n] = "wrapper" /\ ~Alias(n) /\ IsByteArray(n, inner)
  <2>1. Codec(n, inner) = ByteArrayCodec
    BY <1>5 DEF Codec
  <2>2. ~ByteArrayCodec.decodes
    BY DEF ByteArrayCodec
  <2> QED
    BY <2>1, <2>2, Zenon DEF Sound
<1>6. CASE Sort[n] \in {"struct", "wrapper"} /\ ~Alias(n) /\ ~IsByteArray(n, inner)
  <2> DEFINE elements == Elements(n)
  <2>1. /\ elements \in Seq(Nodes)
        /\ Sort[n] = "struct" => Parts[Definition(n)] = elements
        /\ \A i \in DOMAIN elements : InContract(elements[i]) /\ Nesting[elements[i]] < Nesting[n]
    BY <1>6, Inside, Zenon
  <2>2. Codec(n, inner) = TupleCodec(elements, inner)
    BY <1>6, <2>1 DEF Codec
  <2>3. \A i \in DOMAIN elements : Sound(inner[elements[i]], elements[i])
    BY <2>1, Zenon DEF InContract
  <2>4. ASSUME TupleCodec(elements, inner).decodes, NEW v \in Values[n]
        PROVE  /\ Encoded[n][v] \in Seq(Nat)
               /\ TupleCodec(elements, inner).width = Len(Encoded[n][v])
               /\ TupleCodec(elements, inner).decode[Encoded[n][v]] = {v}
    <3>1. MadeOf(v, Encoded[n][v], elements)
      BY <1>1, <1>6, ValuesAssumption DEF MadeOf
    <3> HIDE DEF elements
    <3>2. elements \in Seq(Nodes)
      BY <2>1, Zenon
    <3> QED
      BY <2>3, <2>4, <3>1, <3>2, TupleSound
  <2> QED
    BY <2>2, <2>4, Zenon DEF Sound
<1> QED
  BY <1>1, <1>2, <1>3, <1>4, <1>5, <1>6 DEF Alias, IsByteArray

\* Types nested up to k deep are decoded right with k levels.
LEMMA CodecsSound ==
  ASSUME TypeOK, DefinedOnce, Accepted, Mentioned \subseteq Defined,
         NEW n, InContract(n)
  PROVE  Sound(Codecs(Nesting[n])[n], n)
<1> DEFINE depth == Nesting[n]
<1>1. n \in Nodes /\ depth \in Nat /\ depth # 0 /\ \A e \in Nodes : Nesting[e] \in Nat /\ Nesting[e] # 0
  BY NestingAssumption DEF InContract
<1> HIDE DEF depth
<1>2. PICK f : /\ Codecs(depth) = f[depth]
               /\ \A k \in 0..depth : f[k] = IF k = 0 THEN NoCodecs ELSE Level(f[k - 1])
  BY <1>1, CodecsAre, Zenon
<1> DEFINE Right(k) == \A e \in Nodes : InContract(e) /\ Nesting[e] <= k => Sound(f[k][e], e)
           T == {k \in Nat : k \in 0..depth => Right(k)}
<1>3. 0 \in T
  <2>1. \A e \in Nodes : ~(Nesting[e] <= 0)
    BY <1>1
  <2> QED
    BY <2>1
<1>4. ASSUME NEW k \in Nat, k \in T
      PROVE  k + 1 \in T
  <2> SUFFICES ASSUME k + 1 \in 0..depth, NEW e \in Nodes, InContract(e), Nesting[e] <= k + 1
               PROVE  Sound(f[k + 1][e], e)
    OBVIOUS
  <2>1. k + 1 # 0 /\ (k + 1) - 1 = k /\ k \in 0..depth
    BY <1>1
  <2>2. f[k + 1][e] = Codec(e, f[k])
    <3>1. f[k + 1] = Level(f[k])
      BY <1>2, <2>1, Zenon
    <3> QED
      BY <3>1, Zenon DEF Level
  <2>3. ASSUME NEW d \in Nodes, InContract(d), Nesting[d] < Nesting[e]
        PROVE  Sound(f[k][d], d)
    <3>1. Nesting[d] <= k
      BY <1>1, <2>3
    <3> QED
      BY <1>4, <2>1, <2>3, <3>1
  <2> QED
    BY <2>2, <2>3, CodecSound, Zenon
<1>5. \A k \in Nat : k \in T
  <2> HIDE DEF T
  <2> QED
    BY <1>3, <1>4, InductionOnNat
<1>6. Right(depth)
  BY <1>1, <1>5
<1>7. Nesting[n] <= depth
  BY <1>1 DEF depth
<1> QED
  BY <1>1, <1>2, <1>6, <1>7, Zenon DEF depth

\* Bindings that compile decode every value of a contract to that same value,
\* if each of its types has its own definition and can be decoded.
THEOREM RoundTrip == Spec => []ValuesRoundTrip
<1>1. TypeOK /\ DefinedOnce => ValuesRoundTrip
  <2> SUFFICES ASSUME TypeOK, DefinedOnce, Accepted, Mentioned \subseteq Defined,
                      NEW i \in DOMAIN Roots(contract), Decodes(Roots(contract)[i]),
                      NEW v \in Values[Roots(contract)[i]]
               PROVE  LET n == Roots(contract)[i]
                      IN Decode(n, Encoded[n][v]) = {v}
    BY Zenon DEF ValuesRoundTrip
  <2> DEFINE n == Roots(contract)[i]
  <2>1. n \in Nodes
    <3>1. contract \in [ledger : Seq(Nodes), circuits : Seq(Nodes), witnesses : Seq(Nodes)]
      BY ContractAssumption DEF TypeOK
    <3>2. Roots(contract) \in Seq(Nodes)
      BY <3>1 DEF Roots
    <3> QED
      BY <3>2
  <2>2. n \in Appearing
    BY Zenon DEF Appearing
  <2>3. InContract(n)
    BY <2>1, <2>2 DEF InContract, Mentioned
  <2>4. Sound(Codecs(Nesting[n])[n], n)
    BY <2>3, CodecsSound, Zenon
  <2> QED
    BY <2>4, Zenon DEF Sound, Decode, Decodes
<1>2. QED
  BY <1>1, CollectorTypes, NamesAreDefinedOnce, PTL

-----------------------------------------------------------------------------
(* Distinct names. *)

Nominal == {n \in Nodes : Sort[n] \in {"struct", "enum"}}
DistinctNames == \A m, n \in Nominal : Name[m] = Name[n] => m = n

\* Only structs and enums are mentioned by name, however deep inside a type.
LEMMA NominalMentions ==
  ASSUME NEW n \in Nodes
  PROVE  Named[n] \subseteq Nominal
<1> DEFINE T == {k \in Nat : \A e \in Nodes : Nesting[e] <= k => Named[e] \subseteq Nominal}
<1>1. \A e \in Nodes : Nesting[e] \in Nat /\ Nesting[e] # 0
  BY NestingAssumption
<1>2. 0 \in T
  BY <1>1
<1>3. ASSUME NEW k \in Nat, k \in T
      PROVE  k + 1 \in T
  <2> SUFFICES ASSUME NEW e \in Nodes, Nesting[e] <= k + 1
               PROVE  Named[e] \subseteq Nominal
    OBVIOUS
  <2>1. CASE Sort[e] = "wrapper"
    <3>1. ASSUME NEW i \in DOMAIN Parts[e]
          PROVE  Named[Parts[e][i]] \subseteq Nominal
      <4>1. Parts[e][i] \in Nodes
        BY NodeAssumption
      <4>2. Nesting[Parts[e][i]] < Nesting[e]
        BY NestingAssumption
      <4>3. Nesting[Parts[e][i]] <= k
        BY <1>1, <4>1, <4>2
      <4> QED
        BY <1>3, <4>1, <4>3
    <3>2. Named[e] = UNION {Named[Parts[e][i]] : i \in DOMAIN Parts[e]}
      BY <2>1, NodeAssumption
    <3> QED
      BY <3>1, <3>2
  <2>2. CASE Sort[e] # "wrapper"
    BY <2>2, NodeAssumption DEF Nominal
  <2> QED
    BY <2>1, <2>2
<1>4. \A k \in Nat : k \in T
  <2> HIDE DEF T
  <2> QED
    BY <1>2, <1>3, InductionOnNat
<1> QED
  BY <1>1, <1>4

\* Only structs and enums are defined.
NominalDefs ==
  /\ Defined \subseteq Nominal
  /\ \A j \in DOMAIN agenda : IsPush(agenda, j) => agenda[j].node \in Nominal

\* At first nothing is defined or about to be.
LEMMA NominalInit == Init => NominalDefs
<1> SUFFICES ASSUME Init
             PROVE  NominalDefs
  OBVIOUS
<1>1. Roots(contract) \in Seq(Nodes)
  BY ContractAssumption DEF Init, Roots
<1>2. \A j \in DOMAIN agenda : agenda[j].do = "collect"
  BY <1>1 DEF Init, CollectAll, Collect
<1>3. Defined = {}
  BY DEF Init, Defined
<1> QED
  BY <1>2, <1>3 DEF NominalDefs, IsPush

\* A struct is pushed after it was collected as one, an enum at once.
LEMMA NominalStep == TypeOK /\ NominalDefs /\ [Next]_vars => NominalDefs'
<1> SUFFICES ASSUME TypeOK, NominalDefs, [Next]_vars
             PROVE  NominalDefs'
  OBVIOUS
<1>1. CASE UNCHANGED vars
  BY <1>1 DEF vars, NominalDefs, Defined, IsPush
<1>2. CASE Next
  <2> DEFINE n == Head(agenda).node
  <2>1. n \in Nodes /\ Head(agenda) = agenda[1] /\ Parts[n] \in Seq(Nodes)
    BY <1>2, StepShape, NodeAssumption
  <2>2. 1 \in DOMAIN agenda
    <3>1. agenda # << >>
      BY <1>2 DEF Next, CollectLeaf, CollectWrapper, AlreadyEmitted, CollectStruct,
                  PushStruct, CollectEnum, Collecting
    <3>2. agenda \in Seq(Entry)
      BY DEF TypeOK, Entry
    <3> QED
      BY <3>1, <3>2
  <2>3. ASSUME NEW s, Shifted(s), \A i \in 1..Len(s) : s[i].do = "push" => s[i].node \in Nominal
        PROVE  \A j \in DOMAIN agenda' : IsPush(agenda', j) => agenda'[j].node \in Nominal
    BY <2>3 DEF Shifted, NominalDefs, IsPush
  <2>4. \A i \in 1..Len(CollectAll(Parts[n])) : CollectAll(Parts[n])[i].do # "push"
    BY <2>1, CollectAllType
  <2>5. ASSUME defs' = Append(defs, n), n \in Nominal
        PROVE  (Defined \subseteq Nominal)'
    BY <2>1, <2>5, AppendDef DEF Defined, NominalDefs
  <2>6. CASE Shifted(<< >>) /\ UNCHANGED defs
    BY <2>3, <2>6 DEF NominalDefs, Defined
  <2>7. CASE Shifted(CollectAll(Parts[n])) /\ UNCHANGED defs
    BY <2>3, <2>4, <2>7 DEF NominalDefs, Defined
  <2>8. CASE Shifted(CollectAll(Parts[n]) \o <<Push(n)>>) /\ UNCHANGED defs /\ Sort[n] = "struct"
    <3> DEFINE s == CollectAll(Parts[n]) \o <<Push(n)>>
    <3>1. \A i \in 1..Len(s) : s[i].do = "push" => s[i].node = n
      <4>1. CollectAll(Parts[n]) \in Seq(Entry) /\ Push(n) \in Entry /\ Push(n).node = n
        BY <2>1, CollectAllType DEF Push, Entry
      <4> DEFINE p == CollectAll(Parts[n])
      <4>2. \A i \in 1..Len(s) : s[i] = Push(n) \/ (i \in 1..Len(p) /\ s[i] = p[i])
        <5> HIDE DEF p
        <5> QED
          BY <4>1 DEF p
      <4> QED
        BY <2>4, <4>1, <4>2
    <3> HIDE DEF s
    <3>2. \A i \in 1..Len(s) : s[i].do = "push" => s[i].node \in Nominal
      BY <2>1, <2>8, <3>1 DEF Nominal
    <3> QED
      BY <2>3, <2>8, <3>2 DEF NominalDefs, Defined, s
  <2>9. CASE Shifted(<< >>) /\ agenda[1].do = "push" /\ defs' = Append(defs, n)
    <3>1. n \in Nominal
      BY <2>1, <2>2, <2>9 DEF NominalDefs, IsPush
    <3> QED
      BY <2>3, <2>5, <2>9, <3>1 DEF NominalDefs
  <2>10. CASE Shifted(<< >>) /\ defs' = Append(defs, n) /\ Sort[n] = "enum"
    BY <2>1, <2>3, <2>5, <2>10 DEF NominalDefs, Nominal
  <2> QED
    BY <1>2, <2>6, <2>7, <2>8, <2>9, <2>10, StepShape
<1> QED
  BY <1>1, <1>2

\* What same names break is all there is to break: if no two structs or enums
\* share a name, every mentioned type has its own definition.
THEOREM DistinctNamesMirror ==
  ASSUME DistinctNames
  PROVE  Spec => []DefinitionsMirrorTypes
<1>1. TypeOK /\ NominalDefs /\ MentionsAreDefined => DefinitionsMirrorTypes
  <2> SUFFICES ASSUME TypeOK, NominalDefs, MentionsAreDefined, Done, NEW n \in Mentioned
               PROVE  n \in Defined
    BY DEF DefinitionsMirrorTypes
  <2>1. PICK d \in Defined : Name[d] = Name[n]
    BY DEF MentionsAreDefined
  <2>2. Appearing \subseteq Nodes
    <3>1. contract \in [ledger : Seq(Nodes), circuits : Seq(Nodes), witnesses : Seq(Nodes)]
      BY ContractAssumption DEF TypeOK
    <3>2. Roots(contract) \in Seq(Nodes)
      BY <3>1 DEF Roots
    <3>3. \A e \in Defined : Parts[e] \in Seq(Nodes)
      BY NodeAssumption DEF NominalDefs, Nominal
    <3> QED
      BY <3>2, <3>3 DEF Appearing
  <2>3. n \in Nominal
    BY <2>2, NominalMentions DEF Mentioned
  <2> QED
    BY <2>1, <2>3 DEF NominalDefs, DistinctNames
<1> QED
  BY <1>1, TypeInit, TypeStep, NominalInit, NominalStep, NoDanglingNames, PTL DEF Spec
=============================================================================
