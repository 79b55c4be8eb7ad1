--------------------------- MODULE MCTypeCollector ---------------------------
(***************************************************************************)
(* Types like those of the election fixture: a Maybe of a leaf and a Maybe *)
(* of a struct (same name, different structure), an enum, wrappers around  *)
(* them, and a struct that reaches the same types along several ways.  The *)
(* integer types are scaled down (u8 holds 0..3) so that uints of every    *)
(* size and an enum of more variants than a u8 counts fit.                 *)
(***************************************************************************)
EXTENDS Decoding

RECURSIVE Greatest(_), Samples(_), Encode(_, _)

MCRoots == {"maybe_word", "maybe_path", "path", "state", "phase", "states", "numbers", "pair",
            "tuple", "blob"}
MCNodes == MCRoots \cup {"octets", "small", "amount", "flag", "byte", "word", "text", "huge", "point"}

MCSort == [n \in MCNodes |->
  CASE n \in {"maybe_word", "maybe_path", "path", "pair", "blob"} -> "struct"
    [] n \in {"state", "phase"} -> "enum"
    [] n \in {"states", "numbers", "tuple", "octets", "small", "amount"} -> "wrapper"
    [] OTHER -> "leaf"]

MCName == [n \in MCNodes |->
  CASE n \in {"maybe_word", "maybe_path"} -> "Maybe"
    [] n = "path" -> "MerkleTreePath"
    [] n = "state" -> "State"
    [] n = "phase" -> "Phase"
    [] n = "pair" -> "Pair"
    [] n = "blob" -> "Blob"
    [] OTHER -> "-"]

MCParts == [n \in MCNodes |->
  CASE n = "maybe_word" -> <<"flag", "word">>
    [] n = "maybe_path" -> <<"flag", "path">>
    [] n = "path" -> <<"byte", "states">>
    [] n = "states" -> <<"state">>
    [] n = "numbers" -> <<"text", "huge", "point">>
    [] n = "pair" -> <<"path", "tuple">>
    [] n = "tuple" -> <<"maybe_word", "states", "path", "amount">>
    [] n = "blob" -> <<"flag", "octets">>
    [] n = "octets" -> <<"small">>
    [] n = "small" -> <<"byte">>
    [] n = "amount" -> <<"word">>
    [] OTHER -> << >>]

MCNamed == [n \in MCNodes |->
  CASE MCSort[n] \in {"struct", "enum"} -> {n}
    [] n = "states" -> {"state"}
    [] n = "tuple" -> {"maybe_word", "state", "path"}
    [] OTHER -> {}]

MCLargest == [t \in {"u8", "u16", "u32", "u64", "u128"} |->
  CASE t = "u8" -> 3 [] t = "u16" -> 5 [] t = "u32" -> 7 [] t = "u64" -> 9 [] OTHER -> 12]

MCLeaf == [n \in MCNodes |->
  CASE n = "flag" -> "Boolean" [] n = "point" -> "Opaque" [] OTHER -> "Uint"]

MCMaxval == [n \in MCNodes |->
  CASE n = "word" -> [form |-> "number", value |-> 4]
    [] n = "text" -> [form |-> "string", value |-> 10]
    [] n = "huge" -> [form |-> "number", value |-> 13]
    [] OTHER -> [form |-> "number", value |-> 3]]

MCTsType == [n \in MCNodes |-> "JubjubPoint"]
MCWrap == [n \in MCNodes |->
  CASE n \in {"small", "amount"} -> "alias" [] n \in {"states", "octets"} -> "vector" [] OTHER -> "tuple"]
MCCopies == [n \in MCNodes |-> IF MCWrap[n] = "vector" THEN 2 ELSE 1]
MCVariants == [n \in MCNodes |-> IF n = "phase" THEN 5 ELSE 4]

MCNesting == [n \in MCNodes |->
  CASE MCSort[n] \in {"leaf", "enum"} -> 1
    [] n \in {"maybe_word", "numbers", "states", "small", "amount"} -> 2
    [] n \in {"path", "octets"} -> 3
    [] n \in {"maybe_path", "tuple", "blob"} -> 4
    [] OTHER -> 5]

LeafSamples(n) ==
  CASE MCLeaf[n] = "Boolean" -> {<<0>>, <<1>>}
    [] MCLeaf[n] = "Uint" -> {<<0>>, <<MCMaxval[n].value>>}
    [] OTHER -> {<<0, 1>>, <<1, 0>>}

Greatest(n) ==
  CASE MCSort[n] = "leaf" -> CHOOSE v \in LeafSamples(n) : \A u \in LeafSamples(n) : u[1] <= v[1]
    [] MCSort[n] = "enum" -> MCVariants[n]
    [] Alias(n) -> Greatest(MCParts[n][1])
    [] OTHER -> [i \in DOMAIN Elements(n) |-> Greatest(Elements(n)[i])]

\* Values of n: all its elements at their greatest except for one, which takes
\* all its own samples.
Samples(n) ==
  CASE MCSort[n] = "leaf" -> LeafSamples(n)
    [] MCSort[n] = "enum" -> 1..MCVariants[n]
    [] Alias(n) -> Samples(MCParts[n][1])
    [] OTHER -> {Greatest(n)} \cup
         UNION {{[Greatest(n) EXCEPT ![i] = v] : v \in Samples(Elements(n)[i])} :
                  i \in DOMAIN Elements(n)}

Encode(n, v) ==
  CASE MCSort[n] = "leaf" -> v
    [] MCSort[n] = "enum" -> <<v - 1>>
    [] Alias(n) -> Encode(MCParts[n][1], v)
    [] OTHER -> FlattenSeq([i \in DOMAIN Elements(n) |-> Encode(Elements(n)[i], v[i])])

MCValues == [n \in MCNodes |-> Samples(n)]
MCEncoded == [n \in MCNodes |-> [v \in Samples(n) |-> Encode(n, v)]]

UpTo(k, S) == UNION {[1..m -> S] : m \in 0..k}

\* Up to two ledger types, one circuit type and one witness type.
AllContracts ==
  [ledger : UpTo(2, MCRoots), circuits : UpTo(1, MCRoots \ {"numbers", "phase"}),
   witnesses : UpTo(1, {"maybe_path", "octets"})]
FewContracts == [ledger : UpTo(1, MCRoots), circuits : {<< >>}, witnesses : UpTo(1, MCRoots)]
=============================================================================
