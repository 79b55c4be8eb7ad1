------------------------------ MODULE Expansion ------------------------------
(***************************************************************************)
(* From the names of a contract to the names of its bindings.  The stages  *)
(* of EmitCtxt::expand each emit items under identifiers made from Compact *)
(* names, in one of two ways: make_ident replaces what Rust does not allow *)
(* and escapes keywords, format_ident! does neither and panics.  What the  *)
(* stages emitted is then printed by the tool or wrapped in a module by    *)
(* the macro, and judged by rustc.                                         *)
(*                                                                         *)
(* A name is a sequence of words and separators.  Only what the items are  *)
(* called matters here, not what is in them.                               *)
(***************************************************************************)
EXTENDS Naturals, Sequences, SequencesExt

CONSTANTS
  Capital,    \* Capital[w]: the word with its first letter in upper case
  Upper,      \* Upper[w]: the word in upper case
  Lower,      \* Lower[w]: the word without the capital it may start with
  Keywords,   \* the names rustc reserves
  NotRaw,     \* those of them that r# cannot escape, and the name "_"
  Contracts   \* what is expanded: see ContractAssumption

Words == DOMAIN Capital
NamesOver(W) == Seq(W) \ {<< >>}

ASSUME WordAssumption == {Capital, Upper, Lower} \subseteq [Words -> Words]

\* The words that the templates add to names.
Added == {"FIELD_", "Call", "Return", "Calls", "Query", "new", "from_hex"}

\* A keyword is one word, none of those added, and Self is the only one with a
\* capital.
ASSUME KeywordAssumption ==
  \A k \in Keywords : /\ \E w \in Words \ Added : k = <<w>>
                      /\ \A w \in Words : k = <<Capital[w]>> => k = <<"Self">>

Sorts == {"struct", "enum", "circuit", "witness"}

\* form: the command line tool, contract!("path") or contract!(Name, "path").
\* A field is queryable unless it is a Merkle tree.  The types are those that
\* collect_types emits, one for each name; the calls are the circuits, then
\* the witnesses.  Members are elements, variants or arguments.
ASSUME ContractAssumption ==
  \A c \in Contracts :
    /\ c.form \in {"tool", "flat", "module"}
    /\ c.name \in NamesOver(Words)
    /\ \A i \in DOMAIN c.fields : /\ c.fields[i].name \in NamesOver(Words)
                                  /\ c.fields[i].queryable \in BOOLEAN
    /\ \A i, j \in DOMAIN c.types : c.types[i].name = c.types[j].name => i = j
    /\ \A owner \in {c.types[i] : i \in DOMAIN c.types} \cup {c.calls[i] : i \in DOMAIN c.calls} :
         /\ owner.sort \in Sorts
         /\ owner.name \in NamesOver(Words)
         /\ owner.members \in Seq(NamesOver(Words))

VARIABLES
  contract,  \* the contract and how it is expanded
  stage,     \* the stage that is next, or how the expansion ended
  items      \* the named items emitted so far

vars == <<contract, stage, items>>

-----------------------------------------------------------------------------
(* Identifiers. *)

Separators == {"_", "-", "$"}
Invalid == {"-", "$", " "}

Sanitize(name) == [i \in DOMAIN name |-> IF name[i] \in Invalid THEN "_" ELSE name[i]]
ToUpper(name) == [i \in DOMAIN name |-> Upper[name[i]]]

\* A separator is dropped and the word after it, or at the start, capitalised.
ToPascal(name) ==
  FlattenSeq([i \in DOMAIN name |->
    IF name[i] \in Separators THEN << >>
    ELSE IF i = 1 \/ name[i - 1] \in Separators THEN <<Capital[name[i]]>>
    ELSE <<name[i]>>])

\* A capital, of which a word has one at most, is set off by a separator.
ToSnake(name) ==
  FlattenSeq([i \in DOMAIN name |->
    IF name[i] \in {"$", "-"} THEN <<"_">>
    ELSE IF Lower[name[i]] # name[i] /\ i > 1 THEN <<"_", Lower[name[i]]>>
    ELSE <<Lower[name[i]]>>])

\* An identifier, in a scope, made of the thing "of", which no other item of
\* the scope is made of.
Item(scope, ident, raw, of) == [scope |-> scope, ident |-> ident, raw |-> raw, of |-> of]

\* Wrong on purpose: reserved names are left as they are.
MakeIdentUnescaped(scope, name, of) == Item(scope, Sanitize(name), FALSE, of)

MakeIdent(scope, name, of) == Item(scope, Sanitize(name), Sanitize(name) \in Keywords, of)

\* Ident::new_raw panics.
MakeIdentPanics(name) == Sanitize(name) \in NotRaw

FormatIdent(scope, ident, of) == Item(scope, ident, FALSE, of)

\* Ident::new panics.
FormatIdentPanics(ident) == ident = << >> \/ \E i \in DOMAIN ident : ident[i] \in Invalid

-----------------------------------------------------------------------------
(* The stages. *)

Names(owners) == {owners[i].name : i \in DOMAIN owners}

Init ==
  /\ contract \in Contracts
  /\ stage = "constants"
  /\ items = {}

\* One stage: it panics on one of its names, or emits its items.
Emit(this, next, panics, new) ==
  /\ stage = this
  /\ stage' = IF panics THEN "panicked" ELSE next
  /\ items' = IF panics THEN items ELSE items \cup new
  /\ UNCHANGED contract

\* FIELD_X for every field.
Constant(f) == <<"FIELD_">> \o ToUpper(f)

ConstantItems ==
  {FormatIdent(<<"values">>, Constant(contract.fields[i].name), <<"field", i>>) : i \in DOMAIN contract.fields}

EmitConstants ==
  Emit("constants", "data types", \E f \in Names(contract.fields) : FormatIdentPanics(Constant(f)), ConstantItems)

\* The elements of a struct and the arguments of a call are made, the variants
\* of an enum are formatted.
Members(owner, of) ==
  {IF owner.sort = "enum" THEN FormatIdent(<<"members", of>>, ToPascal(owner.members[k]), <<"member", k>>)
   ELSE MakeIdent(<<"members", of>>, owner.members[k], <<"member", k>>) : k \in DOMAIN owner.members}

MembersPanic(owner) ==
  \E k \in DOMAIN owner.members :
    IF owner.sort = "enum" THEN FormatIdentPanics(ToPascal(owner.members[k]))
    ELSE MakeIdentPanics(owner.members[k])

TypeItems ==
  UNION {{MakeIdent(<<"types">>, contract.types[i].name, <<"type", i>>)}
         \cup Members(contract.types[i], <<"type", i>>) : i \in DOMAIN contract.types}

EmitDataTypes ==
  Emit("data types", "circuits",
    \E i \in DOMAIN contract.types :
      MakeIdentPanics(contract.types[i].name) \/ MembersPanic(contract.types[i]),
    TypeItems)

\* XCall and XReturn for every circuit and witness, and the enum Calls over
\* them all, if there are any.
Call(x) == ToPascal(x) \o <<"Call">>
Return(x) == ToPascal(x) \o <<"Return">>

CallItems(calls) ==
  UNION {LET x == contract.calls[i].name
         IN {FormatIdent(<<"types">>, Call(x), <<"call", i>>),
             FormatIdent(<<"types">>, Return(x), <<"return", i>>),
             FormatIdent(<<"Calls">>, ToPascal(x), <<"call", i>>),
             FormatIdent(<<"types">>, <<"Calls">>, <<"calls">>)}
            \cup Members(contract.calls[i], <<"call", i>>) : i \in calls}

CallsPanic ==
  \E i \in DOMAIN contract.calls :
    FormatIdentPanics(ToPascal(contract.calls[i].name)) \/ MembersPanic(contract.calls[i])

\* Wrong on purpose: of the calls that would get one name, only the first.
EmitEachCallOnce ==
  Emit("circuits", "wrapper", CallsPanic,
    CallItems({i \in DOMAIN contract.calls :
      \A j \in 1..(i - 1) : Call(contract.calls[j].name) # Call(contract.calls[i].name)}))

EmitCircuitTypes == Emit("circuits", "wrapper", CallsPanic, CallItems(DOMAIN contract.calls))

\* The constructors of a wrapper and a method for each of these fields.
Methods(scope, constructors, fields) ==
  {FormatIdent(scope, <<c>>, <<"constructor", c>>) : c \in constructors}
  \cup {MakeIdent(scope, contract.fields[i].name, <<"field", i>>) : i \in fields}

\* The struct named after the contract, with a method for every field.
WrapperItems ==
  {FormatIdent(<<"types">>, contract.name, <<"wrapper">>)}
  \cup Methods(<<"methods">>, {"new", "from_hex"}, DOMAIN contract.fields)

EmitWrapper ==
  Emit("wrapper", "lazy wrapper",
    FormatIdentPanics(contract.name) \/ \E f \in Names(contract.fields) : MakeIdentPanics(f),
    WrapperItems)

\* XQuery, in a module of its own that is re-exported with a glob.
Query == contract.name \o <<"Query">>

LazyItems ==
  {FormatIdent(<<"__lazy_query">>, Query, <<"query">>)}
  \cup Methods(<<"query methods">>, {"new"}, {i \in DOMAIN contract.fields : contract.fields[i].queryable})

EmitLazyWrapper ==
  Emit("lazy wrapper", IF contract.form = "tool" THEN "print" ELSE "macro", FALSE, LazyItems)

-----------------------------------------------------------------------------
(* What becomes of the items. *)

Bare(item) == item.ident \in Keywords /\ ~item.raw
ParseError == \E item \in items : Bare(item)
Duplicates == \E x, y \in items : x # y /\ x.scope = y.scope /\ x.ident = y.ident

\* tokens_to_string expects the tokens to parse.
WriteTokens == Emit("print", "rustc", ParseError, {})

\* contract!: a module named after the contract, or none.
ModuleItems ==
  IF contract.form = "module" THEN {FormatIdent(<<"crate">>, ToSnake(contract.name), <<"module">>)} ELSE {}

ExpandMacro == Emit("macro", "rustc", FALSE, ModuleItems)

\* A keyword or a name given twice in one scope is an error.
Accept ==
  /\ stage = "rustc"
  /\ ~ParseError /\ ~Duplicates
  /\ stage' = "accepted"
  /\ UNCHANGED <<contract, items>>

\* Errors for other reasons are possible as well: a type may be called like one
\* that the templates use.
Reject ==
  /\ stage = "rustc"
  /\ stage' = "rejected"
  /\ UNCHANGED <<contract, items>>

Next ==
  \/ EmitConstants \/ EmitDataTypes \/ EmitCircuitTypes \/ EmitWrapper \/ EmitLazyWrapper
  \/ WriteTokens \/ ExpandMacro \/ Accept \/ Reject

Spec == Init /\ [][Next]_vars

-----------------------------------------------------------------------------
(* Properties. *)

\* What the items of this scope and name were made of.
Found(scope, ident) == {item.of : item \in {x \in items : x.scope = <<scope>> /\ x.ident = ident}}

\* What a user of the bindings gets for an identifier in a scope.  The items of
\* the module hide those of the glob.
Resolve(scope, ident) ==
  IF scope = "types" /\ Found("types", ident) = {} THEN Found("__lazy_query", ident)
  ELSE Found(scope, ident)

\* No expansion is silently wrong: if rustc accepts the bindings, every name
\* that the crate's documentation promises ("FIELD_THRESHOLD", "Structs and
\* enums mirroring Compact type definitions", "{Name}Query<P>", "*Call structs
\* and *Return type aliases") stands for the thing it was made from, however
\* the names of fields, types, calls and the contract fall together.  The
\* promise excludes a type that is itself called {Name}Query: it hides the lazy
\* wrapper without an error.
AcceptedNamesResolve ==
  stage = "accepted" /\ Query \notin {Sanitize(t) : t \in Names(contract.types)} =>
    /\ \A i \in DOMAIN contract.fields :
         LET f == contract.fields[i]
         IN /\ Resolve("values", Constant(f.name)) = {<<"field", i>>}
            /\ Resolve("methods", Sanitize(f.name)) = {<<"field", i>>}
            /\ f.queryable => Resolve("query methods", Sanitize(f.name)) = {<<"field", i>>}
    /\ \A i \in DOMAIN contract.types :
         Resolve("types", Sanitize(contract.types[i].name)) = {<<"type", i>>}
    /\ \A i \in DOMAIN contract.calls :
         LET x == contract.calls[i].name
         IN /\ Resolve("types", Call(x)) = {<<"call", i>>}
            /\ Resolve("types", Return(x)) = {<<"return", i>>}
            /\ Resolve("Calls", ToPascal(x)) = {<<"call", i>>}
    /\ Resolve("types", contract.name) = {<<"wrapper">>}
    /\ Resolve("types", Query) = {<<"query">>}

\* "Rust reserved keywords are emitted using raw identifier syntax"
\* (docs/SPEC.md): whatever a contract's fields, types, calls and members are
\* called, no item is named by an unescaped keyword, except for the variant
\* Self and for the name that the user gave the contract.
KeywordsAreEscaped ==
  \A item \in items :
    Bare(item) => item.ident = <<"Self">> \/ item.of \in {<<"wrapper">>, <<"module">>}

\* "Since `$` is not valid in Rust identifiers, the code generator replaces it
\* with `_`", "Rust reserved keywords are emitted using raw identifier syntax"
\* (docs/SPEC.md): no Compact name makes the generator panic.
NamesNeverPanic == stage # "panicked"
=============================================================================
