--------------------------- MODULE ExpansionProofs ---------------------------
(***************************************************************************)
(* Proofs about Expansion, for any words, keywords and contracts: an       *)
(* accepted expansion is right, and keywords are escaped.                  *)
(***************************************************************************)
EXTENDS Expansion, Induction, SequenceTheorems

-----------------------------------------------------------------------------
(* Names. *)

\* A chunk of ToPascal(name): what the i-th word turns into.
Chunk(name, i) ==
  IF name[i] \in Separators THEN << >>
  ELSE IF i = 1 \/ name[i - 1] \in Separators THEN <<Capital[name[i]]>>
  ELSE <<name[i]>>

Chunks(name) == [i \in DOMAIN name |-> Chunk(name, i)]

StartsWithCapital(s) == \E w \in Words : s[1] = Capital[w]

\* A word or separator of a name becomes nothing, the word capitalised, or the word.
LEMMA ChunkCases ==
  ASSUME NEW name \in Seq(Words), NEW i \in 1..Len(name)
  PROVE  /\ Chunk(name, i) \in Seq(Words)
         /\ name[i] \in Separators => Chunk(name, i) = << >>
         /\ name[i] \notin Separators /\ (i = 1 \/ name[i - 1] \in Separators) =>
              Chunk(name, i) = <<Capital[name[i]]>>
         /\ Chunk(name, i) \in {<< >>, <<Capital[name[i]]>>, <<name[i]>>}
<1>1. /\ << >> \in Seq(Words)
      /\ <<name[i]>> \in Seq(Words)
      /\ <<Capital[name[i]]>> \in Seq(Words)
  BY WordAssumption
<1>2. CASE name[i] \in Separators
  <2>1. Chunk(name, i) = << >>
    BY <1>2, Zenon DEF Chunk
  <2> QED
    BY <1>1, <1>2, <2>1, Zenon
<1>3. CASE name[i] \notin Separators /\ (i = 1 \/ name[i - 1] \in Separators)
  <2>1. Chunk(name, i) = <<Capital[name[i]]>>
    BY <1>3, Zenon DEF Chunk
  <2> QED
    BY <1>1, <1>3, <2>1, Zenon
<1>4. CASE name[i] \notin Separators /\ ~(i = 1 \/ name[i - 1] \in Separators)
  <2>1. Chunk(name, i) = <<name[i]>>
    BY <1>4, Zenon DEF Chunk
  <2> QED
    BY <1>1, <1>4, <2>1, Zenon
<1> QED
  BY <1>2, <1>3, <1>4

\* At the start and after a separator only a separator or a capital may come.
LEMMA CapitalChunk ==
  ASSUME NEW name \in Seq(Words), NEW i \in 1..Len(name), i = 1 \/ name[i - 1] \in Separators
  PROVE  /\ Chunk(name, i) \in Seq(Words)
         /\ Chunk(name, i) = << >> => name[i] \in Separators
         /\ Chunk(name, i) # << >> => StartsWithCapital(Chunk(name, i))
<1>1. name[i] \in Words /\ <<Capital[name[i]]>>[1] = Capital[name[i]] /\ <<Capital[name[i]]>> # << >>
  OBVIOUS
<1>2. CASE name[i] \in Separators
  BY <1>2, ChunkCases, Zenon
<1>3. CASE name[i] \notin Separators
  <2>1. Chunk(name, i) = <<Capital[name[i]]>>
    BY <1>3, ChunkCases, Zenon
  <2>2. StartsWithCapital(Chunk(name, i))
    BY <1>1, <2>1, Zenon DEF StartsWithCapital
  <2> QED
    BY <1>1, <2>1, <2>2, ChunkCases, Zenon
<1> QED
  BY <1>2, <1>3

\* A name in PascalCase is made of words, and the first one has a capital.
LEMMA PascalCase ==
  ASSUME NEW name \in Seq(Words)
  PROVE  /\ ToPascal(name) \in Seq(Words)
         /\ ToPascal(name) # << >> => StartsWithCapital(ToPascal(name))
<1> DEFINE ss == Chunks(name)
<1>1. ToPascal(name) = FlattenSeq(ss)
  BY DEF ToPascal, Chunks, Chunk
<1>2. /\ ss \in Seq(Seq(Words))
      /\ Len(ss) = Len(name)
      /\ \A i \in 1..Len(name) : ss[i] = Chunk(name, i)
  <2>1. DOMAIN name = 1..Len(name) /\ Len(name) \in Nat
    OBVIOUS
  <2>2. \A i \in 1..Len(name) : Chunk(name, i) \in Seq(Words)
    BY ChunkCases, Zenon
  <2> QED
    BY <2>1, <2>2 DEF Chunks
<1> HIDE DEF ss
<1>3. CASE ss = << >>
  BY <1>1, <1>3 DEF FlattenSeq
<1>4. CASE ss # << >>
  <2>1. PICK f : IsFlattening(f, ss, Len(ss)) /\ FlattenSeq(ss) = f[Len(ss)]
    BY <1>2, <1>4, FlattenSeqIsFlattening, Zenon
  <2>2. \A i \in 1..Len(ss) : f[i] = IF i = 1 THEN ss[i] ELSE f[i - 1] \o ss[i]
    BY <2>1, Zenon DEF IsFlattening
  <2> DEFINE Right(n) == /\ f[n] \in Seq(Words)
                         /\ f[n] = << >> => name[n] \in Separators
                         /\ f[n] # << >> => StartsWithCapital(f[n])
             T == {n \in Nat : n \in 1..Len(ss) => Right(n)}
  <2>3. 0 \in T
    OBVIOUS
  <2>4. ASSUME NEW n \in Nat, n \in T
        PROVE  n + 1 \in T
    <3> SUFFICES ASSUME n + 1 \in 1..Len(ss)
                 PROVE  Right(n + 1)
      OBVIOUS
    <3>1. /\ n + 1 \in 1..Len(name)
          /\ ss[n + 1] = Chunk(name, n + 1)
          /\ name[n + 1] \in Words
      BY <1>2
    <3>2. CASE n = 0
      <4>1. f[n + 1] = Chunk(name, n + 1)
        BY <2>2, <3>1, <3>2
      <4> QED
        BY <3>1, <3>2, <4>1, CapitalChunk
    <3>3. CASE n # 0
      <4>1. n + 1 # 1 /\ (n + 1) - 1 = n /\ n \in 1..Len(ss)
        BY <3>3, <1>2
      <4>2. f[n + 1] = f[n] \o Chunk(name, n + 1)
        BY <2>2, <3>1, <4>1, Zenon
      <4>3. Right(n)
        BY <2>4, <4>1
      <4>4. Chunk(name, n + 1) \in Seq(Words)
        BY <3>1, ChunkCases
      <4>5. CASE f[n] = << >>
        <5>1. f[n + 1] = Chunk(name, n + 1)
          BY <4>2, <4>4, <4>5
        <5>2. name[n] \in Separators
          BY <4>3, <4>5
        <5>3. n + 1 = 1 \/ name[(n + 1) - 1] \in Separators
          BY <4>1, <5>2
        <5> QED
          BY <3>1, <5>1, <5>3, CapitalChunk, Zenon
      <4>6. CASE f[n] # << >>
        <5> DEFINE a == f[n]
                   b == Chunk(name, n + 1)
        <5>2. a \in Seq(Words) /\ b \in Seq(Words) /\ a # << >> /\ f[n + 1] = a \o b
          BY <4>2, <4>3, <4>4, <4>6
        <5> HIDE DEF a, b
        <5>3. a \o b \in Seq(Words) /\ a \o b # << >> /\ (a \o b)[1] = a[1]
          BY <5>2
        <5>1. f[n + 1] \in Seq(Words) /\ f[n + 1] # << >> /\ f[n + 1][1] = f[n][1]
          BY <5>2, <5>3 DEF a
        <5> QED
          BY <4>3, <4>6, <5>1 DEF StartsWithCapital
      <4> QED
        BY <4>5, <4>6
    <3> QED
      BY <3>2, <3>3
  <2>5. \A n \in Nat : n \in T
    <3> HIDE DEF T
    <3> QED
      BY <2>3, <2>4, InductionOnNat
  <2>6. Len(ss) \in Nat /\ Len(ss) \in 1..Len(ss)
    BY <1>2, <1>4
  <2> QED
    BY <1>1, <2>1, <2>5, <2>6
<1> QED
  BY <1>3, <1>4

\* A word added to a name makes it longer and is its last.
LEMMA AddedWord ==
  ASSUME NEW W, NEW s \in Seq(W), NEW a
  PROVE  /\ Len(s) \in Nat
         /\ Len(s \o <<a>>) = Len(s) + 1
         /\ (s \o <<a>>)[Len(s) + 1] = a
<1> DEFINE V == W \cup {a}
<1>1. s \in Seq(V) /\ <<a>> \in Seq(V)
  BY SeqMonotonic
<1> QED
  BY <1>1

\* Equal names end in the same word.
LEMMA LastWord ==
  ASSUME NEW W, NEW s \in Seq(W), NEW t \in Seq(W), NEW a, NEW b, s \o <<a>> = t \o <<b>>
  PROVE  a = b
  BY AddedWord

-----------------------------------------------------------------------------
(* What has been emitted. *)

AllItems ==
  ConstantItems \cup TypeItems \cup CallItems(DOMAIN contract.calls)
  \cup WrapperItems \cup LazyItems \cup ModuleItems

Finished == {"rustc", "accepted", "rejected"}
AfterLazy == Finished \cup {"print", "macro"}
AfterWrapper == AfterLazy \cup {"lazy wrapper"}
AfterCircuits == AfterWrapper \cup {"wrapper"}
AfterTypes == AfterCircuits \cup {"circuits"}
AfterConstants == AfterTypes \cup {"data types"}

\* Each stage that has passed has left all its items, there are no others, and
\* what was accepted has no duplicates.
IInv ==
  /\ contract \in Contracts
  /\ stage \in AfterConstants \cup {"constants", "panicked"}
  /\ items \subseteq AllItems
  /\ stage \in AfterConstants => ConstantItems \subseteq items
  /\ stage \in AfterTypes => TypeItems \subseteq items
  /\ stage \in AfterCircuits => CallItems(DOMAIN contract.calls) \subseteq items
  /\ stage \in AfterWrapper => WrapperItems \subseteq items
  /\ stage \in AfterLazy => LazyItems \subseteq items
  /\ stage = "accepted" => ~Duplicates

\* What a stage emits depends on the contract only, which never changes.
LEMMA ItemsOfTheContract ==
  ASSUME contract' = contract
  PROVE  /\ ConstantItems' = ConstantItems
         /\ TypeItems' = TypeItems
         /\ CallItems(DOMAIN contract.calls)' = CallItems(DOMAIN contract.calls)
         /\ WrapperItems' = WrapperItems
         /\ LazyItems' = LazyItems
         /\ AllItems' = AllItems
<1>1. ConstantItems' = ConstantItems
  BY Zenon DEF ConstantItems
<1>2. TypeItems' = TypeItems
  BY Zenon DEF TypeItems
<1>3. CallItems(DOMAIN contract.calls)' = CallItems(DOMAIN contract.calls)
  BY Zenon DEF CallItems
<1>4. WrapperItems' = WrapperItems
  BY Zenon DEF WrapperItems, Methods
<1>5. LazyItems' = LazyItems
  BY Zenon DEF LazyItems, Methods, Query
<1>6. ModuleItems' = ModuleItems
  BY Zenon DEF ModuleItems
<1> QED
  BY <1>1, <1>2, <1>3, <1>4, <1>5, <1>6, Zenon DEF AllItems

\* Each stage adds its own items and keeps those of the stages before.
LEMMA IInvHolds == Spec => []IInv
<1> USE DEF Finished, AfterLazy, AfterWrapper, AfterCircuits, AfterTypes, AfterConstants
<1>1. Init => IInv
  BY DEF Init, IInv
<1>2. IInv /\ [Next]_vars => IInv'
  <2> SUFFICES ASSUME IInv, [Next]_vars
               PROVE  IInv'
    OBVIOUS
  <2>1. contract' = contract
    BY DEF Next, vars, Emit, EmitConstants, EmitDataTypes, EmitCircuitTypes, EmitWrapper,
           EmitLazyWrapper, WriteTokens, ExpandMacro, Accept, Reject
  <2>2. /\ ConstantItems' = ConstantItems
        /\ TypeItems' = TypeItems
        /\ CallItems(DOMAIN contract.calls)' = CallItems(DOMAIN contract.calls)
        /\ WrapperItems' = WrapperItems
        /\ LazyItems' = LazyItems
        /\ AllItems' = AllItems
    BY <2>1, ItemsOfTheContract, Zenon
  <2>3. /\ ConstantItems \subseteq AllItems
        /\ TypeItems \subseteq AllItems
        /\ CallItems(DOMAIN contract.calls) \subseteq AllItems
        /\ WrapperItems \subseteq AllItems
        /\ LazyItems \subseteq AllItems
        /\ ModuleItems \subseteq AllItems
    BY Zenon DEF AllItems
  <2>4. CASE EmitConstants
    BY <2>1, <2>2, <2>3, <2>4 DEF IInv, EmitConstants, Emit
  <2>5. CASE EmitDataTypes
    BY <2>1, <2>2, <2>3, <2>5 DEF IInv, EmitDataTypes, Emit
  <2>6. CASE EmitCircuitTypes
    BY <2>1, <2>2, <2>3, <2>6 DEF IInv, EmitCircuitTypes, Emit
  <2>7. CASE EmitWrapper
    BY <2>1, <2>2, <2>3, <2>7 DEF IInv, EmitWrapper, Emit
  <2>8. CASE EmitLazyWrapper
    BY <2>1, <2>2, <2>3, <2>8 DEF IInv, EmitLazyWrapper, Emit
  <2>9. CASE WriteTokens
    BY <2>1, <2>2, <2>3, <2>9 DEF IInv, WriteTokens, Emit
  <2>10. CASE ExpandMacro
    BY <2>1, <2>2, <2>3, <2>10 DEF IInv, ExpandMacro, Emit
  <2>11. CASE Accept
    BY <2>1, <2>2, <2>11 DEF IInv, Accept, Duplicates
  <2>12. CASE Reject
    BY <2>1, <2>2, <2>12 DEF IInv, Reject
  <2>13. CASE UNCHANGED vars
    BY <2>1, <2>2, <2>13 DEF IInv, vars, Duplicates
  <2> QED
    BY <2>4, <2>5, <2>6, <2>7, <2>8, <2>9, <2>10, <2>11, <2>12, <2>13 DEF Next
<1>3. QED
  BY <1>1, <1>2, PTL DEF Spec

-----------------------------------------------------------------------------
(* Accepted expansions. *)

\* Without duplicates, an item is all that is found under its name.
LEMMA FoundAlone ==
  ASSUME ~Duplicates, NEW scope, NEW ident, NEW raw, NEW of,
         Item(<<scope>>, ident, raw, of) \in items
  PROVE  Found(scope, ident) = {of}
<1> DEFINE it == Item(<<scope>>, ident, raw, of)
<1>1. it \in items /\ it.scope = <<scope>> /\ it.ident = ident /\ it.of = of
  BY DEF Item
<1> HIDE DEF it
<1>2. \A x \in items : x.scope = <<scope>> /\ x.ident = ident => x = it
  BY <1>1, Zenon DEF Duplicates
<1> QED
  BY <1>1, <1>2, Zenon DEF Found

\* The names of a contract are sequences of words, and not empty.
LEMMA ContractNames ==
  ASSUME contract \in Contracts
  PROVE  /\ contract.name \in Seq(Words) /\ contract.name # << >>
         /\ \A i \in DOMAIN contract.fields :
              contract.fields[i].name \in Seq(Words) /\ contract.fields[i].name # << >>
         /\ \A i \in DOMAIN contract.types :
              /\ contract.types[i].name \in Seq(Words)
              /\ contract.types[i].members \in Seq(NamesOver(Words))
         /\ \A i \in DOMAIN contract.calls :
              /\ contract.calls[i].name \in Seq(Words)
              /\ contract.calls[i].members \in Seq(NamesOver(Words))
  BY ContractAssumption DEF NamesOver

\* Constructors and methods are in the scope of their wrapper.
LEMMA MethodScope ==
  ASSUME NEW scope, NEW constructors, NEW fields, NEW x \in Methods(scope, constructors, fields)
  PROVE  x.scope = scope
  BY DEF Methods, FormatIdent, MakeIdent, Item

\* Nothing hides the lazy wrapper: whatever an item of the module's own scope
\* is made of, it is not called Query.
LEMMA QueryIsFree ==
  ASSUME contract \in Contracts, items \subseteq AllItems,
         Query \notin {Sanitize(t) : t \in Names(contract.types)}
  PROVE  Found("types", Query) = {}
<1> SUFFICES ASSUME NEW x \in AllItems, x.scope = <<"types">>, x.ident = Query
             PROVE  FALSE
  BY Zenon DEF Found
<1> USE DEF FormatIdent, MakeIdent, Item
<1>1. CASE x \in ConstantItems
  BY <1>1 DEF ConstantItems
<1>2. ASSUME NEW owner, NEW of, x \in Members(owner, of)
      PROVE  FALSE
  <2>1. x.scope = <<"members", of>>
    BY <1>2 DEF Members
  <2> QED
    BY <2>1
<1>3. CASE x \in TypeItems
  <2>1. PICK i \in DOMAIN contract.types :
          x \in {MakeIdent(<<"types">>, contract.types[i].name, <<"type", i>>)}
                \cup Members(contract.types[i], <<"type", i>>)
    BY <1>3, Zenon DEF TypeItems
  <2>2. x = MakeIdent(<<"types">>, contract.types[i].name, <<"type", i>>)
    BY <1>2, <2>1, Zenon
  <2>3. x.ident = Sanitize(contract.types[i].name)
    BY <2>2
  <2> QED
    BY <2>3, Zenon DEF Names
<1>4. CASE x \in CallItems(DOMAIN contract.calls)
  <2>1. PICK i \in DOMAIN contract.calls :
          \/ x = FormatIdent(<<"types">>, Call(contract.calls[i].name), <<"call", i>>)
          \/ x = FormatIdent(<<"types">>, Return(contract.calls[i].name), <<"return", i>>)
          \/ x = FormatIdent(<<"Calls">>, ToPascal(contract.calls[i].name), <<"call", i>>)
          \/ x = FormatIdent(<<"types">>, <<"Calls">>, <<"calls">>)
          \/ x \in Members(contract.calls[i], <<"call", i>>)
    <3> HIDE DEF FormatIdent, MakeIdent, Item
    <3> QED
      BY <1>4, Zenon DEF CallItems
  <2> DEFINE name == ToPascal(contract.calls[i].name)
  <2>2. name \in Seq(Words) /\ contract.name \in Seq(Words) /\ << >> \in Seq(Words)
    BY ContractNames, PascalCase
  <2>3. x.ident \in {name \o <<"Call">>, name \o <<"Return">>, << >> \o <<"Calls">>}
    <3>1. x.scope # <<"Calls">>
      OBVIOUS
    <3> QED
      BY <1>2, <2>1, <3>1 DEF Call, Return
  <2> HIDE DEF name
  <2>4. x.ident = contract.name \o <<"Query">>
    BY DEF Query
  <2>5. CASE x.ident = name \o <<"Call">>
    BY <2>2, <2>4, <2>5, LastWord
  <2>6. CASE x.ident = name \o <<"Return">>
    BY <2>2, <2>4, <2>6, LastWord
  <2>7. CASE x.ident = << >> \o <<"Calls">>
    BY <2>2, <2>4, <2>7, LastWord
  <2> QED
    BY <2>3, <2>5, <2>6, <2>7
<1>5. CASE x \in WrapperItems
  <2>1. x.ident = contract.name
    <3>1. x.scope = <<"types">> /\ <<"types">> # <<"methods">>
      OBVIOUS
    <3>2. x \notin Methods(<<"methods">>, {"new", "from_hex"}, DOMAIN contract.fields)
      BY <3>1, MethodScope, Zenon
    <3> QED
      BY <1>5, <3>2 DEF WrapperItems
  <2>2. Len(contract.name) \in Nat /\ Len(Query) = Len(contract.name) + 1
    BY ContractNames, AddedWord DEF Query
  <2> QED
    BY <2>1, <2>2
<1>6. CASE x \in LazyItems
  <2>1. x.scope = <<"types">> /\ <<"types">> # <<"query methods">> /\ <<"types">> # <<"__lazy_query">>
    OBVIOUS
  <2>2. x \notin Methods(<<"query methods">>, {"new"}, {i \in DOMAIN contract.fields : contract.fields[i].queryable})
    BY <2>1, MethodScope, Zenon
  <2>3. x = FormatIdent(<<"__lazy_query">>, Query, <<"query">>)
    <3> HIDE DEF FormatIdent, Item
    <3> QED
      BY <1>6, <2>2, Zenon DEF LazyItems
  <2> QED
    BY <2>1, <2>3
<1>7. CASE x \in ModuleItems
  BY <1>7 DEF ModuleItems
<1> QED
  BY <1>1, <1>3, <1>4, <1>5, <1>6, <1>7, Zenon DEF AllItems

\* In accepted bindings a formatted name stands for what it was made from ...
LEMMA FormattedResolves ==
  ASSUME ~Duplicates, NEW scope, NEW ident, NEW of, FormatIdent(<<scope>>, ident, of) \in items
  PROVE  Found(scope, ident) = {of} /\ Resolve(scope, ident) = {of}
<1>1. Found(scope, ident) = {of}
  BY FoundAlone, Zenon DEF FormatIdent
<1> QED
  BY <1>1, Zenon DEF Resolve

\* ... and so does one made by make_ident.
LEMMA MadeResolves ==
  ASSUME ~Duplicates, NEW scope, NEW name, NEW of, MakeIdent(<<scope>>, name, of) \in items
  PROVE  Resolve(scope, Sanitize(name)) = {of}
<1>1. Found(scope, Sanitize(name)) = {of}
  BY FoundAlone, Zenon DEF MakeIdent
<1> QED
  BY <1>1, Zenon DEF Resolve

\* Every call has its struct, its return type and its variant of Calls.
LEMMA CallItemsOf ==
  ASSUME NEW i \in DOMAIN contract.calls
  PROVE  LET x == contract.calls[i].name
         IN /\ FormatIdent(<<"types">>, Call(x), <<"call", i>>) \in CallItems(DOMAIN contract.calls)
            /\ FormatIdent(<<"types">>, Return(x), <<"return", i>>) \in CallItems(DOMAIN contract.calls)
            /\ FormatIdent(<<"Calls">>, ToPascal(x), <<"call", i>>) \in CallItems(DOMAIN contract.calls)
<1> DEFINE call(j) == FormatIdent(<<"types">>, Call(contract.calls[j].name), <<"call", j>>)
           return(j) == FormatIdent(<<"types">>, Return(contract.calls[j].name), <<"return", j>>)
           variant(j) == FormatIdent(<<"Calls">>, ToPascal(contract.calls[j].name), <<"call", j>>)
           calls == FormatIdent(<<"types">>, <<"Calls">>, <<"calls">>)
           emitted(j) == {call(j), return(j), variant(j), calls} \cup Members(contract.calls[j], <<"call", j>>)
<1>1. CallItems(DOMAIN contract.calls) = UNION {emitted(j) : j \in DOMAIN contract.calls}
  BY Zenon DEF CallItems
<1> HIDE DEF call, return, variant, calls
<1>2. {call(i), return(i), variant(i)} \subseteq CallItems(DOMAIN contract.calls)
  BY <1>1
<1> QED
  BY <1>2, Zenon DEF call, return, variant

\* No expansion is silently wrong: once rustc has accepted the bindings, each
\* promised name stands for what it was made from.
THEOREM NamesResolve == Spec => []AcceptedNamesResolve
<1>1. IInv => AcceptedNamesResolve
  <2> SUFFICES ASSUME IInv, stage = "accepted",
                      Query \notin {Sanitize(t) : t \in Names(contract.types)}
               PROVE  AcceptedNamesResolve
    BY Zenon DEF AcceptedNamesResolve
  <2>1. /\ contract \in Contracts /\ items \subseteq AllItems /\ ~Duplicates
        /\ ConstantItems \subseteq items
        /\ TypeItems \subseteq items
        /\ CallItems(DOMAIN contract.calls) \subseteq items
        /\ WrapperItems \subseteq items
        /\ LazyItems \subseteq items
    BY DEF IInv, Finished, AfterLazy, AfterWrapper, AfterCircuits, AfterTypes, AfterConstants
  <2>2. ASSUME NEW i \in DOMAIN contract.fields
        PROVE  LET f == contract.fields[i]
               IN /\ Resolve("values", Constant(f.name)) = {<<"field", i>>}
                  /\ Resolve("methods", Sanitize(f.name)) = {<<"field", i>>}
                  /\ f.queryable => Resolve("query methods", Sanitize(f.name)) = {<<"field", i>>}
    <3> DEFINE f == contract.fields[i]
    <3>1. FormatIdent(<<"values">>, Constant(f.name), <<"field", i>>) \in items
      BY <2>1, Zenon DEF ConstantItems
    <3>2. MakeIdent(<<"methods">>, f.name, <<"field", i>>) \in items
      BY <2>1, Zenon DEF WrapperItems, Methods
    <3>3. f.queryable => MakeIdent(<<"query methods">>, f.name, <<"field", i>>) \in items
      BY <2>1, Zenon DEF LazyItems, Methods
    <3> QED
      BY <2>1, <3>1, <3>2, <3>3, FormattedResolves, MadeResolves
  <2>3. ASSUME NEW i \in DOMAIN contract.types
        PROVE  Resolve("types", Sanitize(contract.types[i].name)) = {<<"type", i>>}
    <3> DEFINE made(j) == MakeIdent(<<"types">>, contract.types[j].name, <<"type", j>>)
               emitted(j) == {made(j)} \cup Members(contract.types[j], <<"type", j>>)
    <3>1. TypeItems = UNION {emitted(j) : j \in DOMAIN contract.types}
      BY Zenon DEF TypeItems
    <3> HIDE DEF made
    <3>2. made(i) \in items
      BY <2>1, <3>1
    <3> QED
      BY <2>1, <3>2, MadeResolves, Zenon DEF made
  <2>4. ASSUME NEW i \in DOMAIN contract.calls
        PROVE  LET x == contract.calls[i].name
               IN /\ Resolve("types", Call(x)) = {<<"call", i>>}
                  /\ Resolve("types", Return(x)) = {<<"return", i>>}
                  /\ Resolve("Calls", ToPascal(x)) = {<<"call", i>>}
    <3> DEFINE x == contract.calls[i].name
    <3>1. /\ FormatIdent(<<"types">>, Call(x), <<"call", i>>) \in items
          /\ FormatIdent(<<"types">>, Return(x), <<"return", i>>) \in items
          /\ FormatIdent(<<"Calls">>, ToPascal(x), <<"call", i>>) \in items
      BY <2>1, CallItemsOf, Zenon
    <3> QED
      BY <2>1, <3>1, FormattedResolves
  <2>5. Resolve("types", contract.name) = {<<"wrapper">>}
    <3>1. FormatIdent(<<"types">>, contract.name, <<"wrapper">>) \in items
      BY <2>1, Zenon DEF WrapperItems
    <3> QED
      BY <2>1, <3>1, FormattedResolves, Zenon
  <2>6. Resolve("types", Query) = {<<"query">>}
    <3>1. FormatIdent(<<"__lazy_query">>, Query, <<"query">>) \in items
      BY <2>1, Zenon DEF LazyItems
    <3>2. Found("types", Query) = {}
      BY <2>1, QueryIsFree, Zenon
    <3> QED
      BY <2>1, <3>1, <3>2, FormattedResolves, Zenon DEF Resolve
  <2> QED
    BY <2>2, <2>3, <2>4, <2>5, <2>6, Zenon DEF AcceptedNamesResolve
<1>2. QED
  BY <1>1, IInvHolds, PTL

-----------------------------------------------------------------------------
(* Keywords. *)

\* make_ident escapes every keyword.
LEMMA MadeIsNotBare ==
  ASSUME NEW scope, NEW name, NEW of
  PROVE  ~Bare(MakeIdent(scope, name, of))
  BY DEF Bare, MakeIdent, Item

\* Only Self is a keyword among the names in PascalCase.
LEMMA PascalKeyword ==
  ASSUME NEW name \in Seq(Words), ToPascal(name) \in Keywords
  PROVE  ToPascal(name) = <<"Self">>
<1>1. PICK w \in Words : ToPascal(name) = <<w>>
  BY KeywordAssumption
<1>2. ToPascal(name) # << >> /\ <<w>>[1] = w
  BY <1>1
<1>3. PICK v \in Words : ToPascal(name)[1] = Capital[v]
  BY <1>2, PascalCase DEF StartsWithCapital
<1>4. ToPascal(name) = <<Capital[v]>>
  BY <1>1, <1>2, <1>3, Zenon
<1> QED
  BY <1>4, KeywordAssumption

\* No keyword ends with a word that the templates add.
LEMMA AddedIsNoKeyword ==
  ASSUME NEW s \in Seq(Words), NEW a \in Added
  PROVE  s \o <<a>> \notin Keywords
<1> SUFFICES ASSUME s \o <<a>> \in Keywords
             PROVE  FALSE
  OBVIOUS
<1>1. PICK w \in Words \ Added : s \o <<a>> = <<w>>
  BY KeywordAssumption, Zenon
<1>2. /\ Len(s) \in Nat
      /\ Len(s \o <<a>>) = Len(s) + 1
      /\ (s \o <<a>>)[Len(s) + 1] = a
  BY AddedWord, Zenon
<1>3. Len(<<w>>) = 1 /\ <<w>>[1] = w
  OBVIOUS
<1>4. a = w
  BY <1>1, <1>2, <1>3
<1> QED
  BY <1>1, <1>4

\* Members are bare only if they are a variant Self.
LEMMA BareMember ==
  ASSUME NEW owner, owner.members \in Seq(NamesOver(Words)), NEW of,
         NEW x \in Members(owner, of), Bare(x)
  PROVE  x.ident = <<"Self">>
<1>1. PICK k \in DOMAIN owner.members :
        x = IF owner.sort = "enum" THEN FormatIdent(<<"members", of>>, ToPascal(owner.members[k]), <<"member", k>>)
            ELSE MakeIdent(<<"members", of>>, owner.members[k], <<"member", k>>)
  BY Zenon DEF Members
<1>2. x = FormatIdent(<<"members", of>>, ToPascal(owner.members[k]), <<"member", k>>)
  BY <1>1, MadeIsNotBare, Zenon
<1>3. x.ident = ToPascal(owner.members[k])
  BY <1>2 DEF FormatIdent, Item
<1>4. owner.members[k] \in Seq(Words)
  BY DEF NamesOver
<1> QED
  BY <1>3, <1>4, PascalKeyword, Zenon DEF Bare

\* Whatever the names of a contract are, no item of its bindings is named by an
\* unescaped keyword, the variant Self and the user's own name aside.
THEOREM KeywordsEscaped == Spec => []KeywordsAreEscaped
<1>1. IInv => KeywordsAreEscaped
  <2> SUFFICES ASSUME IInv, NEW x \in AllItems, Bare(x)
               PROVE  x.ident = <<"Self">> \/ x.of \in {<<"wrapper">>, <<"module">>}
    BY Zenon DEF KeywordsAreEscaped, IInv
  <2>1. contract \in Contracts
    BY DEF IInv
  <2>2. x.ident \in Keywords
    BY DEF Bare
  <2>3. << >> \in Seq(Words) /\ {"FIELD_", "Call", "Return", "Calls", "Query", "new", "from_hex"} = Added
    BY DEF Added
  <2>4. \A a \in Added : x.ident # <<a>>
    <3>1. \A a \in Added : << >> \o <<a>> = <<a>>
      OBVIOUS
    <3> QED
      BY <2>2, <2>3, <3>1, AddedIsNoKeyword, Zenon
  <2>5. ASSUME NEW scope, NEW fields, NEW constructors \in SUBSET Added,
               x \in Methods(scope, constructors, fields)
        PROVE  FALSE
    <3>1. PICK c \in constructors : x = FormatIdent(scope, <<c>>, <<"constructor", c>>)
      BY <2>5, MadeIsNotBare, Zenon DEF Methods
    <3> QED
      BY <2>4, <3>1 DEF FormatIdent, Item
  <2>6. CASE x \in ConstantItems
    <3>1. PICK i \in DOMAIN contract.fields :
            x = FormatIdent(<<"values">>, Constant(contract.fields[i].name), <<"field", i>>)
      BY <2>6, Zenon DEF ConstantItems
    <3> DEFINE f == contract.fields[i].name
    <3>2. f \in Seq(Words) /\ f # << >>
      BY <2>1, ContractNames
    <3>3. x.ident = <<"FIELD_">> \o ToUpper(f)
      BY <3>1 DEF FormatIdent, Item, Constant
    <3>4. ToUpper(f) \in Seq(Words) /\ ToUpper(f) # << >>
      BY <3>2, WordAssumption DEF ToUpper
    <3> HIDE DEF f
    <3>5. PICK w \in Words : <<"FIELD_">> \o ToUpper(f) = <<w>>
      BY <2>2, <3>3, KeywordAssumption
    <3> DEFINE u == ToUpper(f)
    <3>6. <<"FIELD_">> \in Seq(Words \cup {"FIELD_"}) /\ u \in Seq(Words \cup {"FIELD_"})
      BY <3>4, SeqMonotonic
    <3>7. Len(<<"FIELD_">> \o u) = 1 + Len(u) /\ Len(u) \in Nat /\ Len(u) # 0
      <4> HIDE DEF u
      <4> QED
        BY <3>4, <3>6 DEF u
    <3> QED
      BY <3>5, <3>7
  <2>7. CASE x \in TypeItems
    <3>1. PICK i \in DOMAIN contract.types :
            x \in {MakeIdent(<<"types">>, contract.types[i].name, <<"type", i>>)}
                  \cup Members(contract.types[i], <<"type", i>>)
      BY <2>7, Zenon DEF TypeItems
    <3>2. x \in Members(contract.types[i], <<"type", i>>)
      BY <3>1, MadeIsNotBare, Zenon
    <3> QED
      BY <2>1, <3>2, ContractNames, BareMember, Zenon
  <2>8. CASE x \in CallItems(DOMAIN contract.calls)
    <3>1. PICK i \in DOMAIN contract.calls :
            \/ x = FormatIdent(<<"types">>, Call(contract.calls[i].name), <<"call", i>>)
            \/ x = FormatIdent(<<"types">>, Return(contract.calls[i].name), <<"return", i>>)
            \/ x = FormatIdent(<<"Calls">>, ToPascal(contract.calls[i].name), <<"call", i>>)
            \/ x = FormatIdent(<<"types">>, <<"Calls">>, <<"calls">>)
            \/ x \in Members(contract.calls[i], <<"call", i>>)
      BY <2>8, Zenon DEF CallItems
    <3> DEFINE name == contract.calls[i].name
    <3>2. name \in Seq(Words) /\ contract.calls[i].members \in Seq(NamesOver(Words))
      BY <2>1, ContractNames, Zenon
    <3>3. ToPascal(name) \in Seq(Words)
      BY <3>2, PascalCase
    <3>4. Call(name) \notin Keywords /\ Return(name) \notin Keywords
      BY <2>3, <3>3, AddedIsNoKeyword DEF Call, Return
    <3>5. CASE x \in Members(contract.calls[i], <<"call", i>>)
      BY <3>2, <3>5, BareMember, Zenon
    <3>6. CASE x = FormatIdent(<<"Calls">>, ToPascal(name), <<"call", i>>)
      <4>1. x.ident = ToPascal(name)
        BY <3>6 DEF FormatIdent, Item
      <4> QED
        BY <2>2, <3>2, <4>1, PascalKeyword
    <3>7. x.ident \notin {Call(name), Return(name), <<"Calls">>}
      BY <2>2, <2>3, <2>4, <3>4
    <3> HIDE DEF name
    <3>8. CASE x = FormatIdent(<<"types">>, Call(name), <<"call", i>>)
      BY <3>7, <3>8 DEF FormatIdent, Item
    <3>9. CASE x = FormatIdent(<<"types">>, Return(name), <<"return", i>>)
      BY <3>7, <3>9 DEF FormatIdent, Item
    <3>10. CASE x = FormatIdent(<<"types">>, <<"Calls">>, <<"calls">>)
      BY <3>7, <3>10 DEF FormatIdent, Item
    <3> QED
      BY <3>1, <3>5, <3>6, <3>8, <3>9, <3>10, Zenon DEF name
  <2>9. CASE x \in WrapperItems
    <3>1. {"new", "from_hex"} \in SUBSET Added
      BY <2>3
    <3>2. x = FormatIdent(<<"types">>, contract.name, <<"wrapper">>)
      BY <2>5, <2>9, <3>1, Zenon DEF WrapperItems
    <3> QED
      BY <3>2 DEF FormatIdent, Item
  <2>10. CASE x \in LazyItems
    <3>1. {"new"} \in SUBSET Added /\ "Query" \in Added
      BY <2>3
    <3>2. x = FormatIdent(<<"__lazy_query">>, Query, <<"query">>)
      BY <2>5, <2>10, <3>1, Zenon DEF LazyItems
    <3>3. x.ident = contract.name \o <<"Query">>
      BY <3>2 DEF FormatIdent, Item, Query
    <3> QED
      BY <2>1, <2>2, <3>1, <3>3, ContractNames, AddedIsNoKeyword, Zenon
  <2>11. CASE x \in ModuleItems
    BY <2>11 DEF ModuleItems, FormatIdent, Item
  <2> QED
    BY <2>6, <2>7, <2>8, <2>9, <2>10, <2>11, Zenon DEF AllItems
<1>2. QED
  BY <1>1, IInvHolds, PTL
=============================================================================
