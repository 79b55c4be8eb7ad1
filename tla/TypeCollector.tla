---------------------------- MODULE TypeCollector ----------------------------
(***************************************************************************)
(* emit_data_types: one traversal of the types of a contract, in a fixed   *)
(* order, that emits a Rust definition for every struct and enum it meets. *)
(* The set of names already emitted is shared by the whole traversal and   *)
(* is the only thing that decides whether a type is emitted.               *)
(*                                                                         *)
(* The recursion of collect_types is unfolded into an agenda: a node still *)
(* to be collected, or a struct whose elements have been put before it and *)
(* whose definition is still to be pushed.  One step is one agenda entry.  *)
(*                                                                         *)
(* A node is a type of contract-info.json; two uses of one structure are   *)
(* the same node.                                                          *)
(***************************************************************************)
EXTENDS Naturals, Sequences, FiniteSets

CONSTANTS
  Nodes,      \* the types of the contract and the types inside them
  Sort,       \* Sort[n]: "struct", "enum", "wrapper" or "leaf"
  Name,       \* Name[n]: the name of a struct or an enum
  Parts,      \* Parts[n]: the element types of a struct, the types in a wrapper
  Named,      \* Named[n]: the structs and enums type_to_tokens mentions for n
  Contracts   \* the contracts: the ledger, circuit and witness types of each

\* A wrapper (alias, vector, tuple) mentions what its parts mention; a struct or
\* an enum is mentioned by its name alone.
ASSUME NodeAssumption ==
  /\ Sort \in [Nodes -> {"struct", "enum", "wrapper", "leaf"}]
  /\ Parts \in [Nodes -> Seq(Nodes)]
  /\ DOMAIN Name = Nodes
  /\ \A n \in Nodes :
       Named[n] = CASE Sort[n] \in {"struct", "enum"} -> {n}
                    [] Sort[n] = "wrapper" ->
                         UNION {Named[Parts[n][i]] : i \in DOMAIN Parts[n]}
                    [] OTHER -> {}

\* emit_data_types visits the ledger fields (value, cell, element and key type
\* of each), then the circuits, then the witnesses (arguments, then result).
ASSUME ContractAssumption ==
  Contracts \subseteq [ledger : Seq(Nodes), circuits : Seq(Nodes), witnesses : Seq(Nodes)]

VARIABLES
  contract,  \* the contract being expanded
  agenda,    \* what is left of the traversal, in order
  emitted,   \* EmitCtxt::emitted_types: names inserted so far
  defs       \* the definitions pushed to the output, in order

vars == <<contract, agenda, emitted, defs>>

Collect(n) == [do |-> "collect", node |-> n]
Push(n) == [do |-> "push", node |-> n]
CollectAll(s) == [i \in DOMAIN s |-> Collect(s[i])]

Roots(c) == c.ledger \o c.circuits \o c.witnesses

Defined == {defs[i] : i \in DOMAIN defs}
Entries == {agenda[i] : i \in DOMAIN agenda}

TypeOK ==
  /\ contract \in Contracts
  /\ agenda \in Seq([do : {"collect", "push"}, node : Nodes])
  /\ emitted \subseteq {Name[n] : n \in Nodes}
  /\ defs \in Seq(Nodes)

-----------------------------------------------------------------------------
Init ==
  /\ contract \in Contracts
  /\ agenda = CollectAll(Roots(contract))
  /\ emitted = {}
  /\ defs = << >>

\* The next agenda entry is a node of this sort to collect.
Collecting(sort) ==
  /\ agenda # << >>
  /\ Head(agenda).do = "collect"
  /\ Sort[Head(agenda).node] = sort

\* Boolean, Field, Uint, Bytes, Opaque, Contract, Unknown: nothing to emit.
CollectLeaf ==
  /\ Collecting("leaf")
  /\ agenda' = Tail(agenda)
  /\ UNCHANGED <<contract, emitted, defs>>

\* Wrong on purpose: only the first type of a tuple is looked into.
CollectFirstPart ==
  /\ Collecting("wrapper")
  /\ agenda' = CollectAll(SubSeq(Parts[Head(agenda).node], 1, 1)) \o Tail(agenda)
  /\ UNCHANGED <<contract, emitted, defs>>

\* Alias, Vector, Tuple: look inside.
CollectWrapper ==
  /\ Collecting("wrapper")
  /\ agenda' = CollectAll(Parts[Head(agenda).node]) \o Tail(agenda)
  /\ UNCHANGED <<contract, emitted, defs>>

\* emitted.insert(name) returned false.
AlreadyEmitted ==
  /\ \E sort \in {"struct", "enum"} : Collecting(sort)
  /\ Name[Head(agenda).node] \in emitted
  /\ agenda' = Tail(agenda)
  /\ UNCHANGED <<contract, emitted, defs>>

\* Wrong on purpose: the name of a struct is looked up but never recorded.
CollectStructUnrecorded ==
  /\ Collecting("struct")
  /\ LET n == Head(agenda).node
     IN /\ Name[n] \notin emitted
        /\ agenda' = CollectAll(Parts[n]) \o <<Push(n)>> \o Tail(agenda)
  /\ UNCHANGED <<contract, emitted, defs>>

\* The name is taken before the elements are collected, the definition pushed
\* after them.
CollectStruct ==
  /\ Collecting("struct")
  /\ LET n == Head(agenda).node
     IN /\ Name[n] \notin emitted
        /\ emitted' = emitted \cup {Name[n]}
        /\ agenda' = CollectAll(Parts[n]) \o <<Push(n)>> \o Tail(agenda)
  /\ UNCHANGED <<contract, defs>>

PushStruct ==
  /\ agenda # << >>
  /\ Head(agenda).do = "push"
  /\ defs' = Append(defs, Head(agenda).node)
  /\ agenda' = Tail(agenda)
  /\ UNCHANGED <<contract, emitted>>

\* Wrong on purpose: what is recorded is not the name.
CollectEnumByNode ==
  /\ Collecting("enum")
  /\ LET n == Head(agenda).node
     IN /\ Name[n] \notin emitted
        /\ emitted' = emitted \cup {n}
        /\ defs' = Append(defs, n)
  /\ agenda' = Tail(agenda)
  /\ UNCHANGED contract

CollectEnum ==
  /\ Collecting("enum")
  /\ LET n == Head(agenda).node
     IN /\ Name[n] \notin emitted
        /\ emitted' = emitted \cup {Name[n]}
        /\ defs' = Append(defs, n)
  /\ agenda' = Tail(agenda)
  /\ UNCHANGED contract

Next ==
  \/ CollectLeaf \/ CollectWrapper \/ AlreadyEmitted
  \/ CollectStruct \/ PushStruct \/ CollectEnum

Spec == Init /\ [][Next]_vars

-----------------------------------------------------------------------------
(* Properties. *)

Done == agenda = << >>

\* The types whose tokens appear in the output: those of the accessors, the
\* circuit types and the witnesses (the roots), and the elements of the
\* structs that were defined.
Appearing ==
  {Roots(contract)[i] : i \in DOMAIN Roots(contract)}
  \cup UNION {{Parts[d][i] : i \in DOMAIN Parts[d]} : d \in {n \in Defined : Sort[n] = "struct"}}

Mentioned == UNION {Named[n] : n \in Appearing}

\* rustc rejects two items with one name: a name is defined once, even when the
\* same struct is met again inside its own elements' types.
DefinedOnce ==
  \A i, j \in DOMAIN defs : Name[defs[i]] = Name[defs[j]] => i = j

\* No dangling name: when the traversal ends, every struct or enum name the
\* generated code mentions has a definition, wherever it is mentioned from.
MentionsAreDefined ==
  Done => \A n \in Mentioned : \E d \in Defined : Name[d] = Name[n]

\* "Structs and enums mirroring Compact type definitions" (midnight-bindgen's
\* crate documentation): each type the code mentions has its own definition.
DefinitionsMirrorTypes == Done => Mentioned \subseteq Defined
=============================================================================
