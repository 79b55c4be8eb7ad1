---------------------------- MODULE ContractSchema ----------------------------
(***************************************************************************)
(* What the generated bindings know of a contract: its ledger fields, the  *)
(* storage kind and Rust type of each, and the reads a client may ask for. *)
(* A ledger is one committed state of the contract, field by field.        *)
(***************************************************************************)
EXTENDS StateTree

CONSTANTS
  Fields,      \* the ledger fields of contract-info.json
  Kind,        \* Kind[f]: the field's "storage"
  Type,        \* Type[f]: the aligned values the field's Rust type accepts
  Ops,         \* the reads clients ask for: a field, and a key or an index
  Ledgers,     \* the committed states the contract can be in
  MaxIndexKey  \* the largest index index_to_query_key encodes (u8::MAX)

\* Cells without a type ("untyped") are returned as raw StateValues.
Kinds == {"cell", "counter", "untyped", "map", "set", "list"}

\* The contract on chain is the one the bindings were generated from: every
\* field holds the variant its storage kind is stored as.  The values inside
\* (cell contents, map values, list elements) may still fail to convert.
Conforms(sv, kind) ==
  CASE kind \in {"cell", "counter"} -> sv.tag = "Cell"
    [] kind \in {"map", "set"} -> sv.tag = "Map"
    [] kind = "list" -> sv.tag = "Array"
    [] OTHER -> TRUE

ASSUME SchemaAssumption ==
  /\ Kind \in [Fields -> Kinds]
  /\ DOMAIN Type = Fields
  /\ Ops \subseteq [field : Fields, arg : Nat]
  /\ MaxIndexKey \in Nat
  /\ \A l \in Ledgers : /\ DOMAIN l = Fields
                        /\ \A f \in Fields : Conforms(l[f], Kind[f])

\* No StateValue stored on chain is the undecodable blob of LazyQuery.
ASSUME StoredValueAssumption ==
  \A l \in Ledgers, f \in Fields, k \in {o.arg : o \in Ops} :
    /\ l[f].tag # "Garbled"
    /\ HasKey(l[f], k) => l[f].map[k].tag # "Garbled"
    /\ HasIndex(l[f], k) => l[f].arr[k + 1].tag # "Garbled"

KindOf(o) == Kind[o.field]

(***************************************************************************)
(* The answer of the eager wrapper (Contract::from_hex, then the accessor  *)
(* of the field) loaded from ledger l.                                     *)
(***************************************************************************)
EagerRead(l, o) ==
  LET sv == l[o.field]
      T  == Type[o.field]
  IN CASE KindOf(o) \in {"cell", "counter"} -> EagerCell(sv, T)
       [] KindOf(o) = "map"  -> EagerMapGet(sv, o.arg, T)
       [] KindOf(o) = "set"  -> EagerSetContains(sv, o.arg)
       [] KindOf(o) = "list" -> EagerListGet(sv, o.arg, T)
       [] OTHER -> Ok(sv)
=============================================================================
