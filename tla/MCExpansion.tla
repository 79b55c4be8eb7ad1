----------------------------- MODULE MCExpansion -----------------------------
(***************************************************************************)
(* Names that fall together in every way the stages could make them: by    *)
(* their case, their separators, a suffix of a generated item, the name of *)
(* the contract; with the keywords that can be escaped and those that      *)
(* cannot.                                                                 *)
(***************************************************************************)
EXTENDS Expansion

Plain == {"vote", "type", "self", "new"}
Caps == [w \in Plain |->
  CASE w = "vote" -> "Vote" [] w = "type" -> "Type" [] w = "self" -> "Self" [] OTHER -> "New"]
Uppers == [w \in Plain |->
  CASE w = "vote" -> "VOTE" [] w = "type" -> "TYPE" [] w = "self" -> "SELF" [] OTHER -> "NEW"]
Others == {"_", "$", " ", "Call", "Calls", "Query", "Ledger"}
MCWords == Plain \cup {Caps[w] : w \in Plain} \cup {Uppers[w] : w \in Plain} \cup Others

MCCapital == [w \in MCWords |-> IF w \in Plain THEN Caps[w] ELSE w]
MCLower == [w \in MCWords |->
  IF \E p \in Plain : Caps[p] = w THEN CHOOSE p \in Plain : Caps[p] = w ELSE w]
MCUpper == [w \in MCWords |-> IF MCLower[w] \in Plain THEN Uppers[MCLower[w]] ELSE w]

MCKeywords == {<<"type">>, <<"self">>, <<"Self">>}
MCNotRaw == {<<"self">>, <<"Self">>, <<"_">>}

Vote == <<"vote">>
VoteType(sep) == <<"vote", sep, "type">>

UpTo(k, S) == UNION {[1..m -> S] : m \in 0..k}

\* How a contract is expanded, and under which name.  The macro's name is an
\* identifier, the tool's any string.
Uses == {<<"tool", <<"Vote">>>>, <<"tool", <<"vote", " ", "type">>>>, <<"tool", <<"type">>>>,
         <<"flat", <<"Ledger">>>>, <<"module", <<"Vote">>>>, <<"module", <<"Type">>>>}

Owner(sort, name, members) == [sort |-> sort, name |-> name, members |-> members]
Field(name) == [name |-> name, queryable |-> TRUE]
Of(use, fields, types, calls) ==
  [form |-> use[1], name |-> use[2], fields |-> fields, types |-> types, calls |-> calls]

FieldNames == {Vote, <<"Vote">>, <<"type">>, <<"self">>, <<"new">>, VoteType("_")}
TypeNames == {<<"Vote">>, <<"Vote", "Query">>, <<"Vote", "Call">>, <<"type">>, <<"Ledger">>}
CallNames == {Vote, <<"self">>, VoteType("_"), VoteType("$")}
MemberNames == {<<"type">>, <<"self">>, VoteType("_"), VoteType("$")}

\* The names of fields, types and calls.
ItemNames ==
  {Of(use, fields, types, calls) :
     use \in Uses,
     fields \in UpTo(2, {Field(f) : f \in FieldNames})
                \cup {<<[name |-> Vote, queryable |-> FALSE]>>, <<Field(VoteType("$"))>>},
     types \in UpTo(1, {Owner("struct", t, << >>) : t \in TypeNames}),
     calls \in UpTo(2, {Owner("circuit", x, << >>) : x \in CallNames})}

\* The names inside them.
MemberContracts ==
  {Of(use, << >>, <<Owner(sort, <<"Vote", "Call">>, elements)>>, <<Owner("witness", <<"type">>, arguments)>>) :
     use \in Uses, sort \in {"struct", "enum"},
     elements \in UpTo(2, MemberNames), arguments \in UpTo(2, MemberNames)}

AllContracts == ItemNames \cup MemberContracts

\* One field, under names that the tool can use.
FieldContracts ==
  {Of(use, <<Field(f)>>, << >>, calls) :
     use \in {<<"tool", <<"Vote">>>>, <<"flat", <<"Ledger">>>>, <<"module", <<"Vote">>>>},
     f \in FieldNames \cup {VoteType("$")},
     calls \in UpTo(1, {Owner("circuit", x, << >>) : x \in {Vote, VoteType("$")}})}
=============================================================================
