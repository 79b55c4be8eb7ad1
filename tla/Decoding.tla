------------------------------ MODULE Decoding ------------------------------
(***************************************************************************)
(* The decoders of the generated definitions.  A type is turned into a     *)
(* Rust type (type_to_tokens), a struct decodes itself by splitting the    *)
(* atoms of its value by the alignments of its elements, an enum by        *)
(* matching a byte on its discriminants.  A struct or an enum is referred  *)
(* to by name, so what is decoded is what TypeCollector left defined under *)
(* that name.                                                              *)
(*                                                                         *)
(* An atom is a number: a uint of any size, the bytes of an array, one     *)
(* coordinate of a point.  A decoder returns a set: of the one value it    *)
(* decoded, or empty if it failed.                                         *)
(***************************************************************************)
EXTENDS TypeCollector, SequencesExt

CONSTANTS
  Leaf,      \* Leaf[n], for a leaf: "Boolean", "Field", "Uint", "Bytes", "Opaque", ...
  Maxval,    \* Maxval[n], for a Uint: the JSON form and the number
  TsType,    \* TsType[n], for an Opaque
  Wrap,      \* Wrap[n], for a wrapper: "alias", "vector" or "tuple"
  Copies,    \* Copies[n], for a wrapper: the length of a vector, 1 for the others
  Variants,  \* Variants[n], for an enum: how many
  Largest,   \* Largest[t]: the largest number of the Rust type t
  Nesting,   \* Nesting[n]: how many types, n included, are nested in each other
  Values,    \* Values[n]: what a contract stores, passes or returns at n
  Encoded    \* Encoded[n][v]: the atoms the chain holds for v

ASSUME LargestAssumption ==
  /\ Largest \in [{"u8", "u16", "u32", "u64", "u128"} -> Nat]
  /\ Largest["u8"] < Largest["u16"]  /\ Largest["u16"] < Largest["u32"]
  /\ Largest["u32"] < Largest["u64"] /\ Largest["u64"] < Largest["u128"]

\* An alias and a vector have one part.
ASSUME WrapAssumption ==
  /\ Wrap \in [Nodes -> {"alias", "vector", "tuple"}]
  /\ \A n \in Nodes : Sort[n] = "wrapper" /\ Wrap[n] # "tuple" => Len(Parts[n]) = 1

\* The types of contract-info.json are finite trees.
ASSUME NestingAssumption ==
  /\ Nesting \in [Nodes -> Nat \ {0}]
  /\ \A n \in Nodes : \A i \in DOMAIN Parts[n] : Nesting[Parts[n][i]] < Nesting[n]

-----------------------------------------------------------------------------
(* The mapping of types. *)

Smallest(types, number) ==
  LET fits == {t \in types : number <= Largest[t]}
  IN IF fits = {} THEN "Vec<u8>"
     ELSE CHOOSE t \in fits : \A u \in fits : Largest[t] <= Largest[u]

\* Wrong on purpose: the bounds of the types are one too high.
UintOffByOne(mv) == Smallest(DOMAIN Largest, mv.value - 1)

\* A JSON number gets the smallest type that holds it; a text is only told to
\* be of 64 or of 128 bits.
UintTokens(mv) ==
  CASE mv.form = "number" -> Smallest(DOMAIN Largest, mv.value)
    [] mv.form = "string" -> Smallest({"u64", "u128"}, mv.value)
    [] OTHER -> "u128"

OpaqueTokens(ts) ==
  CASE ts = "JubjubPoint" -> "EmbeddedGroupAffine"
    [] ts = "Scalar<BLS12-381>" -> "TransientFr"
    [] OTHER -> "Vec<u8>"

LeafTokens(n) ==
  CASE Leaf[n] = "Boolean" -> "bool"
    [] Leaf[n] = "Field" -> "TransientFr"
    [] Leaf[n] = "Uint" -> UintTokens(Maxval[n])
    [] Leaf[n] = "Bytes" -> "Bytes"
    [] Leaf[n] = "Opaque" -> OpaqueTokens(TsType[n])
    [] OTHER -> "Vec<u8>"

Alias(n) == Sort[n] = "wrapper" /\ Wrap[n] = "alias"

\* The element types of a composite, copies of a vector's element included.
Elements(n) ==
  IF Sort[n] = "wrapper" THEN FlattenSeq([i \in 1..Copies[n] |-> Parts[n]]) ELSE Parts[n]

-----------------------------------------------------------------------------
(* What the chain holds: the encoding by the compiled contract. *)

\* The atoms of a leaf.  Nothing tells those of a Contract, an unknown type or
\* a Uint whose maxval is neither a number nor a text.
LeafValues(n) ==
  CASE Leaf[n] = "Boolean" -> [1..1 -> {0, 1}]
    [] Leaf[n] = "Uint" /\ Maxval[n].form \in {"number", "string"} -> [1..1 -> 0..Maxval[n].value]
    [] Leaf[n] = "Opaque" /\ TsType[n] = "JubjubPoint" -> [1..2 -> Nat]
    [] Leaf[n] = "Opaque" /\ TsType[n] # "JubjubPoint" -> [1..1 -> Nat]
    [] Leaf[n] \in {"Field", "Bytes"} -> [1..1 -> Nat]
    [] OTHER -> {}

\* An enum is its index, an alias the type it abbreviates, a composite the atoms
\* of its elements in order.
ASSUME ValuesAssumption ==
  \A n \in Nodes :
    /\ Maxval[n].value \in Nat /\ Copies[n] \in Nat /\ Variants[n] \in Nat
    /\ \A v \in Values[n] :
         CASE Sort[n] = "leaf" -> v \in LeafValues(n) /\ Encoded[n][v] = v
           [] Sort[n] = "enum" -> v \in 1..Variants[n] /\ Encoded[n][v] = <<v - 1>>
           [] Alias(n) -> /\ v \in Values[Parts[n][1]]
                          /\ Encoded[n][v] = Encoded[Parts[n][1]][v]
           [] OTHER ->
                LET elements == Elements(n)
                IN /\ v = [i \in DOMAIN elements |-> v[i]]
                   /\ \A i \in DOMAIN elements : v[i] \in Values[elements[i]]
                   /\ Encoded[n][v] = FlattenSeq([i \in DOMAIN elements |-> Encoded[elements[i]][v[i]]])

-----------------------------------------------------------------------------
(* What the generated code decodes. *)

\* The definition the name of n refers to.
Definition(n) == CHOOSE d \in Defined : Name[d] = Name[n]

\* The primitive types: the right number of atoms, and a number in range.
LeafWidth(rust) == IF rust = "EmbeddedGroupAffine" THEN 2 ELSE 1

DecodeLeaf(rust, s) ==
  {v \in {s} : /\ Len(s) = LeafWidth(rust)
               /\ rust = "bool" => s[1] \in {0, 1}
               /\ rust \in DOMAIN Largest => s[1] <= Largest[rust]}

\* `i as u8` of the variant's position counted from zero.
Discriminant(i) == (i - 1) % (Largest["u8"] + 1)

\* A u8, matched on the arms in order.
DecodeEnum(d, s) ==
  {i \in 1..Variants[d] :
     /\ Len(s) = 1
     /\ s[1] <= Largest["u8"]
     /\ s[1] = Discriminant(i)
     /\ \A j \in 1..(i - 1) : s[1] # Discriminant(j)}

\* Where the elements end when their widths are put together.
Ends(widths) ==
  LET end[i \in 0..Len(widths)] == IF i = 0 THEN 0 ELSE end[i - 1] + widths[i]
  IN end

EndsOf(elements, inner) == Ends([i \in DOMAIN elements |-> inner[elements[i]].width])

\* The atoms are split by the widths of the elements, and none may be left.
DecodeTuple(elements, inner, s) ==
  LET end == EndsOf(elements, inner)
      decoded == UNION {{<<i, v>> : v \in inner[elements[i]].decode[SubSeq(s, end[i - 1] + 1, end[i])]} :
                          i \in DOMAIN elements}
  IN IF Len(s) = end[Len(elements)] /\ {p[1] : p \in decoded} = DOMAIN elements
     THEN {[i \in DOMAIN elements |-> (CHOOSE p \in decoded : p[1] = i)[2]]}
     ELSE {}

\* The impls of a Rust type: Aligned tells how many atoms it takes (width); if
\* it has a TryFrom<&ValueSlice> (decodes), that tells what they become.
LeafCodec(n) ==
  [rust |-> LeafTokens(n), decodes |-> TRUE, width |-> LeafWidth(LeafTokens(n)),
   decode |-> [s \in Seq(Nat) |-> DecodeLeaf(LeafTokens(n), s)]]
EnumCodec(d) ==
  [rust |-> "named", decodes |-> TRUE, width |-> 1,
   decode |-> [s \in Seq(Nat) |-> DecodeEnum(d, s)]]
TupleCodec(elements, inner) ==
  [rust |-> "composite", decodes |-> \A i \in DOMAIN elements : inner[elements[i]].decodes,
   width |-> EndsOf(elements, inner)[Len(elements)],
   decode |-> [s \in Seq(Nat) |-> DecodeTuple(elements, inner, s)]]

\* A [u8; N] is aligned as one atom, and no slice decodes to it: what Bytes<N>
\* is there for, which a Vector of Uint8 does not become.
ByteArrayCodec ==
  [rust |-> "composite", decodes |-> FALSE, width |-> 1, decode |-> [s \in Seq(Nat) |-> {}]]

IsByteArray(n, inner) ==
  Sort[n] = "wrapper" /\ Wrap[n] = "vector" /\ inner[Parts[n][1]].rust = "u8"

\* The impls of the Rust type of n, given those of its elements.
Codec(n, inner) ==
  CASE Sort[n] = "leaf" -> LeafCodec(n)
    [] Sort[n] = "enum" -> EnumCodec(Definition(n))
    [] Sort[n] = "struct" -> TupleCodec(Parts[Definition(n)], inner)
    [] Alias(n) -> inner[Parts[n][1]]
    [] IsByteArray(n, inner) -> ByteArrayCodec
    [] OTHER -> TupleCodec(Elements(n), inner)

\* The impls that types of up to this many levels come to.
Codecs(nesting) ==
  LET level[k \in 0..nesting] ==
        [n \in Nodes |-> IF k = 0 THEN ByteArrayCodec ELSE Codec(n, level[k - 1])]
  IN level[nesting]

\* What the atoms of a field, an argument or a result of type n decode to.
Decode(n, s) == Codecs(Nesting[n])[n].decode[s]

\* There is something to decode them with.
Decodes(n) == Codecs(Nesting[n])[n].decodes

\* rustc rejects an enum with the same discriminant twice, and a struct with an
\* element that its TryFrom<&ValueSlice> cannot decode.
Accepted ==
  \A d \in Defined :
    /\ Sort[d] = "enum" =>
         \A i, j \in 1..Variants[d] : Discriminant(i) = Discriminant(j) => i = j
    /\ Sort[d] = "struct" => Decodes(d)

-----------------------------------------------------------------------------
(* Property. *)

\* "Generated types implement midnight-ledger's native traits directly ...
\* Aligned declares the type's alignment (how many atoms it occupies and their
\* structure)" (docs/SPEC.md): bindings that compile decode every value a
\* contract can store in a field, pass or return to that same value, whatever
\* the nesting, when each type has its own definition (which same names
\* prevent, see DefinitionsMirrorTypes) and its Rust type can be decoded (which
\* a [u8; N], or a tuple of one, cannot).
ValuesRoundTrip ==
  Done /\ Accepted /\ Mentioned \subseteq Defined =>
    \A i \in DOMAIN Roots(contract) :
      LET n == Roots(contract)[i]
      IN Decodes(n) => \A v \in Values[n] : Decode(n, Encoded[n][v]) = {v}
=============================================================================
