---------------------------- MODULE MCFieldLayout ----------------------------
(***************************************************************************)
(* A contract that grows to four fields where a state's root array holds   *)
(* two: both layouts, and both ways of cutting the second, occur.  The cut *)
(* puts the remainder first, as the compiled 16-field fixture does         *)
(* (tests/fixtures/compiled): [f1], [f2, f3], then [f1, f2], [f3, f4].     *)
(* Every value tells its field and block; lists, maps and sets have        *)
(* elements under the indices a wrong path goes through.                   *)
(***************************************************************************)
EXTENDS FieldLayout, TLC

MCSplit == 3 :> << <<1>>, <<2, 3>> >> @@ 4 :> << <<1, 2>>, <<3, 4>> >>

MCPath ==
  [n \in 1..MaxFields |->
    [f \in 1..n |->
      IF n <= MaxFlat THEN <<f - 1>>
      ELSE LET s == CHOOSE t \in DOMAIN MCSplit[n] : \E i \in DOMAIN MCSplit[n][t] : MCSplit[n][t][i] = f
           IN <<s - 1, (CHOOSE i \in DOMAIN MCSplit[n][s] : MCSplit[n][s][i] = f) - 1>>]]

\* 0 as a cell's content does not convert: field 2 holds it at block 1.
Content(f, b) == IF f = 2 /\ b = 1 THEN 0 ELSE 10 * f + b

MCStored(f, b, k) ==
  CASE k \in {"cell", "counter", "untyped"} -> Cell(Content(f, b))
    [] k = "map" -> MapOf(0 :> Cell(Content(f, b)) @@ b :> Cell(7))
    [] k = "set" -> MapOf(1 :> Null)
    [] k = "list" -> ArrayOf(<<Cell(Content(f, b)), Cell(8)>>)
    [] k = "merkle-tree" -> ArrayOf(<<MerkleTreeOf(f), Cell(Content(f, b)), MapOf(0 :> Null)>>)

\* The first field, which keeps its place longest, is of every kind; so is
\* one other at a time.
MCKinds == {k \in [1..MaxFields -> {"cell", "map", "set", "list", "merkle-tree", "untyped"}] :
              Cardinality({f \in 2..MaxFields : k[f] # "cell"}) <= 1}
              \cup {[f \in 1..MaxFields |-> "counter"]}

MCKeys == {0, 1}
MCType == 1..100
=============================================================================
