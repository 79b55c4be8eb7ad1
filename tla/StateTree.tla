------------------------------ MODULE StateTree ------------------------------
(***************************************************************************)
(* A contract's on-chain state and the eager, typed reads of it: the       *)
(* navigation helpers (nav.rs), the typed accessors (accessors.rs) and the *)
(* accessor bodies the code generator emits around them (ledger.rs).       *)
(*                                                                         *)
(* A StateValue is a record whose "tag" is its Rust variant.  Aligned      *)
(* values (cell contents and map keys) are naturals.  A Rust type is the   *)
(* set of aligned values its TryFrom<&ValueSlice> accepts, so a conversion *)
(* fails exactly on the values outside the set.  Array indices start at 0, *)
(* as in the code.                                                         *)
(***************************************************************************)
EXTENDS Naturals, Sequences, FiniteSets

Null == [tag |-> "Null"]
Cell(v) == [tag |-> "Cell", val |-> v]
MapOf(m) == [tag |-> "Map", map |-> m]
ArrayOf(s) == [tag |-> "Array", arr |-> s]
MerkleTreeOf(t) == [tag |-> "BoundedMerkleTree", tree |-> t]

\* Result<T, E> and Option<T>.
Ok(x) == [ok |-> TRUE, val |-> x]
Err(e) == [ok |-> FALSE, err |-> e]
None == << >>
Some(x) == <<x>>

UnexpectedVariant == Err("UnexpectedVariant")
IndexOutOfBounds == Err("IndexOutOfBounds")
Conversion == Err("Conversion")

-----------------------------------------------------------------------------
(* Navigation and conversion. *)

CellValue(sv) ==
  IF sv.tag = "Cell" THEN Ok(sv.val) ELSE UnexpectedVariant

Convert(v, T) == IF v \in T THEN Ok(v) ELSE Conversion

\* cell_value followed by TryFrom: every typed read ends with this pair.
CellRead(sv, T) ==
  LET av == CellValue(sv) IN IF av.ok THEN Convert(av.val, T) ELSE av

HasIndex(sv, i) == sv.tag = "Array" /\ i < Len(sv.arr)
HasKey(sv, k) == sv.tag = "Map" /\ k \in DOMAIN sv.map

\* Wrong on purpose (as every definition marked so, here and in the other
\* modules): a change to the code that a property must catch.  Here an index
\* past the end reads the last element.
GetFieldClamped(sv, i) ==
  IF sv.tag # "Array" \/ sv.arr = << >> THEN UnexpectedVariant
  ELSE Ok(sv.arr[IF i < Len(sv.arr) THEN i + 1 ELSE Len(sv.arr)])

GetField(sv, i) ==
  IF sv.tag # "Array" THEN UnexpectedVariant
  ELSE IF HasIndex(sv, i) THEN Ok(sv.arr[i + 1]) ELSE IndexOutOfBounds

-----------------------------------------------------------------------------
(* The eager accessors of one ledger field, whose StateValue is sv: lookups. *)

\* Some(Err(e)) is the error e: the caller sees the conversion failure.
SomeOf(r) == IF r.ok THEN Ok(Some(r.val)) ELSE r

EagerCell(sv, T) == CellRead(sv, T)

EagerMapGet(sv, k, T) ==
  IF sv.tag # "Map" THEN UnexpectedVariant
  ELSE IF HasKey(sv, k) THEN SomeOf(CellRead(sv.map[k], T)) ELSE Ok(None)

EagerSetContains(sv, k) ==
  IF sv.tag # "Map" THEN UnexpectedVariant ELSE Ok(HasKey(sv, k))

EagerListGet(sv, i, T) ==
  IF sv.tag # "Array" THEN UnexpectedVariant
  ELSE IF HasIndex(sv, i) THEN SomeOf(CellRead(sv.arr[i + 1], T)) ELSE Ok(None)

-----------------------------------------------------------------------------
(* The eager accessors that hand out a whole field.  An iterator is modelled *)
(* by everything it yields: per key, per member, or in order.                *)

EagerMapIter(sv, K, T) ==
  IF sv.tag # "Map" THEN UnexpectedVariant
  ELSE Ok([k \in DOMAIN sv.map |->
             IF k \in K THEN CellRead(sv.map[k], T) ELSE Conversion])

EagerSetIter(sv, K) ==
  IF sv.tag # "Map" THEN UnexpectedVariant
  ELSE Ok([k \in DOMAIN sv.map |-> Convert(k, K)])

EagerListIter(sv, T) ==
  IF sv.tag # "Array" THEN UnexpectedVariant
  ELSE Ok([i \in DOMAIN sv.arr |-> CellRead(sv.arr[i], T)])

\* MerkleTreeAccessor::from_state on [tree, first_free, history].
MerkleTree(sv, T) ==
  LET tree == GetField(sv, 0)
      free == GetField(sv, 1)
      firstFree == CellRead(free.val, T)
  IN IF ~tree.ok THEN tree
     ELSE IF tree.val.tag # "BoundedMerkleTree" THEN UnexpectedVariant
     ELSE IF ~free.ok THEN free
     ELSE IF ~firstFree.ok THEN firstFree
     ELSE Ok([tree |-> tree.val.tree, firstFree |-> firstFree.val])
=============================================================================
