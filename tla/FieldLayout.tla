----------------------------- MODULE FieldLayout -----------------------------
(***************************************************************************)
(* Where a ledger field lies and how generated bindings find it: the index *)
(* constants compiled into them, get_field and get_field_path through the  *)
(* arrays of a loaded state, and the same path sent to the node, while     *)
(* blocks go by and the contract is compiled again with more fields.       *)
(*                                                                         *)
(* Up to MaxFlat fields the state's root array holds the fields; beyond,   *)
(* it holds arrays of fields, and a field's index is a path.  Fields can   *)
(* only be appended (docs/SPEC.md), so field f is the same field in every  *)
(* version of the contract that has it.                                    *)
(***************************************************************************)
EXTENDS LazyReplies

CONSTANTS
  MaxFlat,           \* fields a one-level state can hold (15 in the compiler)
  MaxFields,         \* bound: fields the contract can grow to
  MaxBlocks,         \* bound: blocks that change the contract's values
  KindChoices,       \* the storage kinds the fields may have, field by field
  Stored(_, _, _),   \* Stored(f, b, k): what field f of kind k holds at block b
  Split,             \* Split[n]: the arrays of fields under the root, for n fields
  Path,              \* Path[n][f]: the "index" of f in contract-info.json
  Keys,              \* map keys, set members and list indices asked for
  Type               \* the aligned values the fields' Rust types accept

Kinds == {"cell", "counter", "untyped", "map", "set", "list", "merkle-tree"}

\* A value stored in a field of kind k has the shape of that kind.
Conforms(sv, k) ==
  CASE k \in {"cell", "counter"} -> sv.tag = "Cell"
    [] k \in {"map", "set"} -> sv.tag = "Map"
    [] k = "list" -> sv.tag = "Array"
    [] k = "merkle-tree" -> /\ sv.tag = "Array" /\ Len(sv.arr) = 3
                            /\ sv.arr[1].tag = "BoundedMerkleTree"
                            /\ sv.arr[2].tag = "Cell"
    [] OTHER -> sv.tag \in {"Null", "Cell", "Map", "Array"}

\* The path follows the arrays the compiler lays the fields out in.
ASSUME LayoutAssumption ==
  /\ MaxFlat \in Nat \ {0} /\ MaxFields \in Nat \ {0} /\ MaxBlocks \in Nat \ {0}
  /\ KindChoices \subseteq [1..MaxFields -> Kinds]
  /\ \A n \in 1..MaxFields :
       IF n <= MaxFlat THEN \A f \in 1..n : Path[n][f] = <<f - 1>>
       ELSE /\ Split[n] \in Seq(Seq(1..n))
            /\ \A f \in 1..n : \E s \in DOMAIN Split[n] :
                 \E i \in DOMAIN Split[n][s] :
                   Path[n][f] = <<s - 1, i - 1>> /\ Split[n][s][i] = f
  /\ \A f \in 1..MaxFields, b \in 1..MaxBlocks, k \in Kinds :
       Conforms(Stored(f, b, k), k)

VARIABLES
  kinds,     \* kinds[f]: the storage kind f has, once it is declared
  fields,    \* how many fields the contract has by now
  block,     \* how many blocks have changed its values
  bindings,  \* how many fields the running program's bindings know
  handle,    \* None, or the version and block of the state that was loaded
  walk       \* the read under way, or the last one made

vars == <<kinds, fields, block, bindings, handle, walk>>

NoWalk == [phase |-> "none"]
Version(n, b) == [fields |-> n, block |-> b]

-----------------------------------------------------------------------------
(* The contract on chain (external). *)

FieldValue(f, b) == Stored(f, b, kinds[f])

Segment(n, s, b) == ArrayOf([i \in DOMAIN Split[n][s] |-> FieldValue(Split[n][s][i], b)])

Root(v) ==
  IF v.fields <= MaxFlat
  THEN ArrayOf([f \in 1..v.fields |-> FieldValue(f, v.block)])
  ELSE ArrayOf([s \in DOMAIN Split[v.fields] |-> Segment(v.fields, s, v.block)])

-----------------------------------------------------------------------------
(* The accessors, once their field's StateValue has been reached. *)

EagerOutcome(r, k) ==
  IF ~r.ok THEN r
  ELSE CASE k \in {"cell", "counter"} -> EagerCell(r.val, Type)
         [] k = "map" -> EagerMapIter(r.val, Keys, Type)
         [] k = "set" -> EagerSetIter(r.val, Keys)
         [] k = "list" -> EagerListIter(r.val, Type)
         [] k = "merkle-tree" -> MerkleTree(r.val, Type)
         [] OTHER -> r

\* "Merkle trees don't support single-value lookup via the RPC."
HasLazyAccessor(k) == k # "merkle-tree"

Keyed(k) == k \in {"map", "set", "list"}

LazyOutcome(r, k) ==
  CASE k \in {"cell", "counter"} -> LazyCell(r, Type)
    [] k \in {"map", "list"} -> LazyEntry(r, Type)
    [] k = "set" -> LazyMember(r)
    [] OTHER -> DecodeStateValue(r)

\* What the accessor would say of the field itself, at a block.
OwnEager(f, b) == EagerOutcome(Ok(FieldValue(f, b)), kinds[f])

OwnLazy(f, b, key) ==
  LazyOutcome(IF Keyed(kinds[f]) THEN Descend(FieldValue(f, b), key)
                                 ELSE QueryResult(Some(FieldValue(f, b)), FALSE),
              kinds[f])

-----------------------------------------------------------------------------
Init ==
  /\ kinds \in KindChoices
  /\ fields \in 1..MaxFields
  /\ block = 1
  /\ bindings = fields
  /\ handle = None
  /\ walk = NoWalk

\* The contract is compiled and deployed again with one field more (external).
AppendField ==
  /\ fields < MaxFields
  /\ fields' = fields + 1
  /\ UNCHANGED <<kinds, block, bindings, handle, walk>>

\* A block changes the contract's values (external).
CommitBlock ==
  /\ block < MaxBlocks
  /\ block' = block + 1
  /\ UNCHANGED <<kinds, fields, bindings, handle, walk>>

\* Wrong on purpose: a read of the old program is kept.
BuildKeepingRead ==
  /\ bindings' = fields
  /\ handle' = None
  /\ UNCHANGED <<kinds, fields, block, walk>>

\* The program is built on the contract-info.json of the day and started.
BuildBindings ==
  /\ bindings' = fields
  /\ handle' = None
  /\ walk' = NoWalk
  /\ UNCHANGED <<kinds, fields, block>>

\* from_hex on the state as it is, or on one fetched before: the client may
\* talk to a deployment older or newer than its bindings.  Accessors borrow
\* from the handle, so none outlives it.
Load ==
  /\ \E n \in 1..fields, b \in 1..block : handle' = Some(Version(n, b))
  /\ walk' = NoWalk
  /\ UNCHANGED <<kinds, fields, block, bindings>>

Walk(mode, f, key, version, at, rest) ==
  [phase |-> "walking", mode |-> mode, field |-> f, key |-> key, known |-> bindings,
   version |-> version, at |-> at, rest |-> rest]

\* Wrong on purpose: the accessor fetches the state anew.
StartFreshRead(f) ==
  /\ handle # None
  /\ walk' = Walk("eager", f, None, Version(fields, block),
                  Ok(Root(Version(fields, block))), Path[bindings][f])
  /\ UNCHANGED <<kinds, fields, block, bindings, handle>>

\* An eager accessor is called: get_field is get_field_path on one index.
StartRead(f) ==
  /\ handle # None
  /\ walk' = Walk("eager", f, None, handle[1], Ok(Root(handle[1])), Path[bindings][f])
  /\ UNCHANGED <<kinds, fields, block, bindings, handle>>

\* A lazy accessor's query reaches the node: the field's path and, for maps,
\* sets and lists, one element more.
Query(f, key) ==
  /\ HasLazyAccessor(kinds[f])
  /\ LET now == Version(fields, block)
     IN walk' = Walk("lazy", f, Some(key), now, QueryResult(Some(Root(now)), FALSE),
                     IF Keyed(kinds[f]) THEN Append(Path[bindings][f], key)
                                        ELSE Path[bindings][f])
  /\ UNCHANGED <<kinds, fields, block, bindings, handle>>

\* One turn of get_field_path's loop; `?` leaves it at the first error.
EagerStep ==
  /\ walk.phase = "walking" /\ walk.mode = "eager" /\ walk.rest # << >>
  /\ LET next == GetField(walk.at.val, Head(walk.rest))
     IN walk' = [walk EXCEPT !.at = next,
                             !.rest = IF next.ok THEN Tail(walk.rest) ELSE << >>]
  /\ UNCHANGED <<kinds, fields, block, bindings, handle>>

\* The node follows one path element (external).
NodeStep ==
  /\ walk.phase = "walking" /\ walk.mode = "lazy" /\ walk.rest # << >>
  /\ LET next == Descend(walk.at.value[1], Head(walk.rest))
     IN walk' = [walk EXCEPT !.at = next,
                             !.rest = IF next.value # None THEN Tail(walk.rest) ELSE << >>]
  /\ UNCHANGED <<kinds, fields, block, bindings, handle>>

\* The accessor looks at what the path led to.
Finish ==
  /\ walk.phase = "walking" /\ walk.rest = << >>
  /\ walk' = [walk EXCEPT !.phase = "done",
       !.at = IF walk.mode = "eager" THEN EagerOutcome(walk.at, kinds[walk.field])
                                     ELSE LazyOutcome(walk.at, kinds[walk.field])]
  /\ UNCHANGED <<kinds, fields, block, bindings, handle>>

Next ==
  \/ AppendField \/ CommitBlock \/ BuildBindings \/ Load
  \/ \E f \in 1..bindings : StartRead(f) \/ \E key \in Keys : Query(f, key)
  \/ EagerStep \/ NodeStep \/ Finish

Spec == Init /\ [][Next]_vars

-----------------------------------------------------------------------------
(* Properties. *)

TypeOK ==
  /\ kinds \in KindChoices /\ fields \in 1..MaxFields /\ block \in 1..MaxBlocks
  /\ bindings \in 1..fields
  /\ handle # None =>
       /\ handle = Some(Version(handle[1].fields, handle[1].block))
       /\ handle[1].fields \in 1..fields /\ handle[1].block \in 1..block
  /\ walk # NoWalk =>
       /\ walk.phase \in {"walking", "done"} /\ walk.mode \in {"eager", "lazy"}
       /\ walk.known = bindings /\ walk.field \in 1..bindings

Done == walk.phase = "done"

Own(b) == IF walk.mode = "eager" THEN OwnEager(walk.field, b)
                                 ELSE OwnLazy(walk.field, b, walk.key[1])

\* The field has the index the bindings know in the state that was read.
InPlace == /\ walk.field <= walk.version.fields
           /\ Path[bindings][walk.field] = Path[walk.version.fields][walk.field]

\* Where the index is still right, an accessor answers for its own field and
\* none other, whichever level the arrays put it on: the eager one as of the
\* block its handle was loaded at, so that all answers of one handle belong to
\* one state, the lazy one as of the block the node answered from.
OwnPlaceReadsOwn ==
  Done /\ InPlace =>
    walk.at = Own(IF walk.mode = "eager" THEN handle[1].block ELSE walk.version.block)

\* Bindings of a contract with at most MaxFlat fields that meet a state laid
\* out otherwise (an older one, or one that outgrew its root array) report an
\* error or their own field's value: no typed cell, and no eagerly read map,
\* set or merkle tree, is ever taken from another field.
FlatBindingsFailLoudly ==
  Done /\ bindings <= MaxFlat
  /\ \/ kinds[walk.field] \in {"cell", "counter"}
     \/ walk.mode = "eager" /\ kinds[walk.field] \in {"map", "set", "merkle-tree"}
  /\ walk.at.ok
  => InPlace /\ walk.at = Own(walk.version.block)
=============================================================================
