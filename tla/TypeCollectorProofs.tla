------------------------- MODULE TypeCollectorProofs -------------------------
(***************************************************************************)
(* Proofs about TypeCollector, for every contract and every set of types:  *)
(* the definitions have distinct names, and no mentioned name lacks one.   *)
(* The invariant counts a struct whose definition is still on the agenda   *)
(* as defined, and what is still to be collected as promised.              *)
(***************************************************************************)
EXTENDS TypeCollector, TLAPS

Entry == [do : {"collect", "push"}, node : Nodes]

\* A collect_types step replaces the first agenda entry by a sequence.
LEMMA Replace ==
  ASSUME NEW a \in Seq(Entry), a # << >>, NEW s \in Seq(Entry), NEW b, b = s \o Tail(a)
  PROVE  /\ b \in Seq(Entry)
         /\ Len(b) = Len(s) + Len(a) - 1
         /\ \A i \in 1..Len(s) : b[i] = s[i]
         /\ \A i \in (Len(s) + 1)..Len(b) : b[i] = a[i - Len(s) + 1]
PROOF
<1>1. Tail(a) \in Seq(Entry) /\ Len(Tail(a)) = Len(a) - 1
  OBVIOUS
<1>2. \A i \in 1..Len(Tail(a)) : Tail(a)[i] = a[i + 1]
  OBVIOUS
<1>3. b \in Seq(Entry) /\ Len(b) = Len(s) + Len(Tail(a))
  BY <1>1
<1>4. \A i \in 1..Len(s) : b[i] = s[i]
  BY <1>1
<1>5. \A i \in (Len(s) + 1)..Len(b) : b[i] = Tail(a)[i - Len(s)]
  BY <1>1, <1>3
<1>6. ASSUME NEW i \in (Len(s) + 1)..Len(b) PROVE b[i] = a[i - Len(s) + 1]
  <2>1. i - Len(s) \in 1..Len(Tail(a)) /\ (i - Len(s)) + 1 = i - Len(s) + 1
    BY <1>1, <1>3
  <2> QED BY <1>2, <1>5, <2>1
<1> QED BY <1>1, <1>3, <1>4, <1>6

LEMMA CollectAllType ==
  ASSUME NEW p \in Seq(Nodes)
  PROVE  /\ CollectAll(p) \in Seq(Entry)
         /\ Len(CollectAll(p)) = Len(p)
         /\ \A i \in 1..Len(p) : /\ CollectAll(p)[i] = Collect(p[i])
                                /\ CollectAll(p)[i].do = "collect"
                                /\ CollectAll(p)[i].node = p[i]
PROOF
<1>1. DOMAIN p = 1..Len(p) /\ \A i \in 1..Len(p) : Collect(p[i]) \in Entry
  BY DEF Collect, Entry
<1>2. \A x : Collect(x).do = "collect" /\ Collect(x).node = x
  BY DEF Collect
<1>3. \A i \in 1..Len(p) : CollectAll(p)[i] = Collect(p[i])
  BY <1>1 DEF CollectAll
<1>4. CollectAll(p) \in Seq(Entry) /\ Len(CollectAll(p)) = Len(p)
  BY <1>1 DEF CollectAll
<1> QED BY <1>2, <1>3, <1>4

-----------------------------------------------------------------------------
LEMMA TypeInit == Init => TypeOK
PROOF
<1> SUFFICES ASSUME Init PROVE TypeOK
  OBVIOUS
<1>1. Roots(contract) \in Seq(Nodes)
  BY ContractAssumption DEF Init, Roots
<1>2. CollectAll(Roots(contract)) \in Seq(Entry)
  BY <1>1, CollectAllType
<1> QED BY <1>2 DEF Init, TypeOK, Entry

\* The head of the agenda is an entry about a node.
LEMMA HeadType ==
  ASSUME TypeOK, agenda # << >>
  PROVE  /\ Head(agenda) \in Entry /\ Head(agenda).node \in Nodes
         /\ Head(agenda) = agenda[1] /\ 1 \in DOMAIN agenda
         /\ Parts[Head(agenda).node] \in Seq(Nodes)
PROOF
<1>1. agenda \in Seq(Entry)
  BY DEF TypeOK, Entry
<1>2. Head(agenda) = agenda[1] /\ 1 \in DOMAIN agenda /\ agenda[1] \in Entry
  BY <1>1
<1> QED BY <1>2, NodeAssumption DEF Entry

LEMMA TypeStep == TypeOK /\ [Next]_vars => TypeOK'
PROOF
<1> SUFFICES ASSUME TypeOK, [Next]_vars PROVE TypeOK'
  OBVIOUS
<1>1. agenda \in Seq(Entry)
  BY DEF TypeOK, Entry
<1>2. CASE CollectLeaf \/ AlreadyEmitted
  <2>1. agenda # << >> /\ agenda' = Tail(agenda) /\ UNCHANGED <<contract, emitted, defs>>
    BY <1>2 DEF CollectLeaf, AlreadyEmitted, Collecting
  <2> QED BY <1>1, <2>1 DEF TypeOK, Entry
<1>3. CASE CollectWrapper
  <2>1. agenda # << >>
    BY <1>3 DEF CollectWrapper, Collecting
  <2>2. agenda' \in Seq(Entry)
    BY <1>1, <1>3, <2>1, HeadType, CollectAllType, Replace DEF CollectWrapper
  <2> QED BY <1>3, <2>2 DEF CollectWrapper, TypeOK, Entry
<1>4. CASE CollectStruct
  <2> DEFINE n == Head(agenda).node
             s == CollectAll(Parts[n]) \o <<Push(n)>>
  <2>1. agenda # << >> /\ n \in Nodes /\ Parts[n] \in Seq(Nodes)
    BY <1>4, HeadType DEF CollectStruct, Collecting
  <2>2. s \in Seq(Entry)
    <3>1. CollectAll(Parts[n]) \in Seq(Entry)
      BY <2>1, CollectAllType
    <3>2. <<Push(n)>> \in Seq(Entry)
      BY <2>1 DEF Push, Entry
    <3> QED BY <3>1, <3>2
  <2>3. agenda' = s \o Tail(agenda)
    BY <1>1, <1>4, <2>1, <2>2 DEF CollectStruct
  <2>4. agenda' \in Seq(Entry)
    BY <1>1, <2>1, <2>2, <2>3, Replace
  <2> QED BY <1>4, <2>1, <2>4 DEF CollectStruct, TypeOK, Entry
<1>5. CASE PushStruct
  BY <1>1, <1>5, HeadType DEF PushStruct, TypeOK, Entry
<1>6. CASE CollectEnum
  BY <1>1, <1>6, HeadType DEF CollectEnum, Collecting, TypeOK, Entry
<1>7. CASE UNCHANGED vars
  BY <1>7 DEF vars, TypeOK
<1> QED BY <1>2, <1>3, <1>4, <1>5, <1>6, <1>7 DEF Next

\* The agenda and the output hold types of the contract, and the set of emitted
\* names holds names of types.
THEOREM CollectorTypes == Spec => []TypeOK
PROOF BY TypeInit, TypeStep, PTL DEF Spec

-----------------------------------------------------------------------------
(* What a step does to the agenda: s comes first, the rest moves along. *)

Shifted(s) ==
  /\ agenda \in Seq(Entry) /\ agenda # << >> /\ s \in Seq(Entry)
  /\ agenda' \in Seq(Entry)
  /\ \A i \in DOMAIN agenda' :
       \/ i \in 1..Len(s) /\ agenda'[i] = s[i]
       \/ /\ i > Len(s) /\ i - Len(s) + 1 \in DOMAIN agenda \ {1}
          /\ agenda'[i] = agenda[i - Len(s) + 1]
  /\ \A i \in 1..Len(s) : i \in DOMAIN agenda' /\ agenda'[i] = s[i]
  /\ \A j \in DOMAIN agenda \ {1} :
       j + Len(s) - 1 \in DOMAIN agenda' /\ agenda'[j + Len(s) - 1] = agenda[j]

LEMMA ReplaceShifts ==
  ASSUME TypeOK, agenda # << >>, NEW s \in Seq(Entry), agenda' = s \o Tail(agenda)
  PROVE  Shifted(s)
PROOF
<1>1. agenda \in Seq(Entry)
  BY DEF TypeOK, Entry
<1>2. /\ agenda' \in Seq(Entry)
      /\ Len(agenda') = Len(s) + Len(agenda) - 1
      /\ \A i \in 1..Len(s) : agenda'[i] = s[i]
      /\ \A i \in (Len(s) + 1)..Len(agenda') : agenda'[i] = agenda[i - Len(s) + 1]
  BY <1>1, Replace
<1>3. /\ Len(s) \in Nat /\ Len(agenda) \in Nat /\ Len(agenda) >= 1
      /\ DOMAIN agenda = 1..Len(agenda) /\ DOMAIN agenda' = 1..Len(agenda')
  BY <1>1, <1>2
<1>4. ASSUME NEW i \in DOMAIN agenda'
      PROVE  \/ i \in 1..Len(s) /\ agenda'[i] = s[i]
             \/ /\ i > Len(s) /\ i - Len(s) + 1 \in DOMAIN agenda \ {1}
                /\ agenda'[i] = agenda[i - Len(s) + 1]
  BY <1>2, <1>3
<1>5. ASSUME NEW j \in DOMAIN agenda \ {1}
      PROVE  j + Len(s) - 1 \in DOMAIN agenda' /\ agenda'[j + Len(s) - 1] = agenda[j]
  <2>1. j + Len(s) - 1 \in (Len(s) + 1)..Len(agenda')
    BY <1>2, <1>3
  <2>2. (j + Len(s) - 1) - Len(s) + 1 = j
    BY <1>3
  <2> QED BY <1>2, <1>3, <2>1, <2>2
<1>6. \A i \in 1..Len(s) : i \in DOMAIN agenda' /\ agenda'[i] = s[i]
  BY <1>2, <1>3
<1> QED BY <1>1, <1>2, <1>4, <1>5, <1>6 DEF Shifted

\* Dropping the first entry replaces it by nothing.
LEMMA TailShifts ==
  ASSUME TypeOK, agenda # << >>, agenda' = Tail(agenda)
  PROVE  Shifted(<< >>)
PROOF
<1>1. << >> \in Seq(Entry) /\ agenda' = << >> \o Tail(agenda)
  BY DEF TypeOK, Entry
<1> QED BY <1>1, ReplaceShifts

\* What each action does, in these terms.
LEMMA StepShape ==
  ASSUME TypeOK, Next
  PROVE  LET n == Head(agenda).node
         IN  /\ n \in Nodes /\ Head(agenda) = agenda[1] /\ contract' = contract
             /\ \/ /\ Shifted(<< >>) /\ UNCHANGED <<emitted, defs>>
                   /\ agenda[1].do = "collect"
                   /\ \A m \in Named[n] : Name[m] \in emitted
                \/ /\ Shifted(CollectAll(Parts[n])) /\ UNCHANGED <<emitted, defs>>
                   /\ agenda[1].do = "collect" /\ Sort[n] = "wrapper"
                \/ /\ Shifted(CollectAll(Parts[n]) \o <<Push(n)>>) /\ UNCHANGED defs
                   /\ agenda[1].do = "collect" /\ Sort[n] = "struct"
                   /\ Name[n] \notin emitted /\ emitted' = emitted \cup {Name[n]}
                \/ /\ Shifted(<< >>) /\ UNCHANGED emitted
                   /\ agenda[1].do = "push" /\ defs' = Append(defs, n)
                \/ /\ Shifted(<< >>) /\ defs' = Append(defs, n)
                   /\ agenda[1].do = "collect" /\ Sort[n] = "enum"
                   /\ Name[n] \notin emitted /\ emitted' = emitted \cup {Name[n]}
PROOF
<1> DEFINE n == Head(agenda).node
<1>1. agenda # << >>
  BY DEF Next, CollectLeaf, CollectWrapper, AlreadyEmitted, CollectStruct, PushStruct,
         CollectEnum, Collecting
<1>2. n \in Nodes /\ Head(agenda) = agenda[1] /\ Parts[n] \in Seq(Nodes)
  BY <1>1, HeadType
<1>3. /\ CollectAll(Parts[n]) \in Seq(Entry) /\ <<Push(n)>> \in Seq(Entry)
      /\ CollectAll(Parts[n]) \o <<Push(n)>> \in Seq(Entry)
  <2>1. CollectAll(Parts[n]) \in Seq(Entry)
    BY <1>2, CollectAllType
  <2>2. <<Push(n)>> \in Seq(Entry)
    BY <1>2 DEF Push, Entry
  <2> QED BY <2>1, <2>2
<1>4. contract' = contract
  BY DEF Next, CollectLeaf, CollectWrapper, AlreadyEmitted, CollectStruct, PushStruct,
         CollectEnum
<1>5. CASE CollectLeaf
  <2>1. Named[n] = {}
    BY <1>2, <1>5, NodeAssumption DEF CollectLeaf, Collecting
  <2> QED BY <1>1, <1>2, <1>4, <1>5, <2>1, TailShifts DEF CollectLeaf, Collecting
<1>6. CASE AlreadyEmitted
  <2>1. Named[n] = {n}
    BY <1>2, <1>6, NodeAssumption DEF AlreadyEmitted, Collecting
  <2> QED BY <1>1, <1>2, <1>4, <1>6, <2>1, TailShifts DEF AlreadyEmitted, Collecting
<1>7. CASE CollectWrapper
  <2>1. Shifted(CollectAll(Parts[n]))
    BY <1>1, <1>3, <1>7, ReplaceShifts DEF CollectWrapper
  <2> QED BY <1>2, <1>4, <1>7, <2>1 DEF CollectWrapper, Collecting
<1>8. CASE CollectStruct
  <2>1. agenda' = (CollectAll(Parts[n]) \o <<Push(n)>>) \o Tail(agenda)
    BY <1>1, <1>3, <1>8 DEF CollectStruct, TypeOK, Entry
  <2>2. Shifted(CollectAll(Parts[n]) \o <<Push(n)>>)
    BY <1>1, <1>3, <2>1, ReplaceShifts
  <2> QED BY <1>2, <1>4, <1>8, <2>2 DEF CollectStruct, Collecting
<1>9. CASE PushStruct
  BY <1>1, <1>2, <1>4, <1>9, TailShifts DEF PushStruct
<1>10. CASE CollectEnum
  BY <1>1, <1>2, <1>4, <1>10, TailShifts DEF CollectEnum, Collecting
<1> QED BY <1>5, <1>6, <1>7, <1>8, <1>9, <1>10 DEF Next

-----------------------------------------------------------------------------
(* No name is defined, or about to be defined, twice. *)

IsPush(a, i) == a[i].do = "push"
PushName(a, i) == Name[a[i].node]

Unique ==
  /\ \A i, j \in DOMAIN defs : Name[defs[i]] = Name[defs[j]] => i = j
  /\ \A i, j \in DOMAIN agenda :
       IsPush(agenda, i) /\ IsPush(agenda, j) /\ PushName(agenda, i) = PushName(agenda, j) => i = j
  /\ \A i \in DOMAIN defs, j \in DOMAIN agenda :
       IsPush(agenda, j) => Name[defs[i]] # PushName(agenda, j)
  /\ \A i \in DOMAIN defs : Name[defs[i]] \in emitted
  /\ \A j \in DOMAIN agenda : IsPush(agenda, j) => PushName(agenda, j) \in emitted

\* Appending a definition.
LEMMA AppendDef ==
  ASSUME TypeOK, NEW n \in Nodes, defs' = Append(defs, n)
  PROVE  /\ DOMAIN defs' = DOMAIN defs \cup {Len(defs) + 1}
         /\ Len(defs) + 1 \notin DOMAIN defs
         /\ defs'[Len(defs) + 1] = n
         /\ \A i \in DOMAIN defs : defs'[i] = defs[i]
PROOF BY DEF TypeOK

\* A step that puts only collect entries in front keeps the pushes apart, and
\* every push entry it leaves was there before, beyond the first position.
LEMMA OldPushes ==
  ASSUME NEW s, Shifted(s), \A i \in 1..Len(s) : s[i].do = "collect", NEW j \in DOMAIN agenda', IsPush(agenda', j)
  PROVE  /\ j - Len(s) + 1 \in DOMAIN agenda \ {1}
         /\ IsPush(agenda, j - Len(s) + 1) /\ PushName(agenda', j) = PushName(agenda, j - Len(s) + 1)
PROOF BY DEF Shifted, IsPush, PushName

LEMMA UniqueStep == TypeOK /\ Unique /\ [Next]_vars => Unique'
PROOF
<1> SUFFICES ASSUME TypeOK, Unique, [Next]_vars PROVE Unique'
  OBVIOUS
<1>1. CASE UNCHANGED vars
  BY <1>1 DEF vars, Unique, IsPush, PushName
<1>2. CASE Next
  <2> DEFINE n == Head(agenda).node
             p == CollectAll(Parts[n])
  <2>1. n \in Nodes /\ n = agenda[1].node
    BY <1>2, StepShape
  <2>2. Parts[n] \in Seq(Nodes)
    BY <2>1, NodeAssumption
  <2>3. p \in Seq(Entry) /\ \A i \in 1..Len(p) : p[i].do = "collect"
    BY <2>2, CollectAllType
  <2>4. ASSUME NEW s \in Seq(Entry), Shifted(s), \A i \in 1..Len(s) : s[i].do = "collect"
        PROVE  /\ \A i, j \in DOMAIN agenda' :
                    IsPush(agenda', i) /\ IsPush(agenda', j)
                      /\ PushName(agenda', i) = PushName(agenda', j) => i = j
               /\ \A j \in DOMAIN agenda' : IsPush(agenda', j) =>
                    \E k \in DOMAIN agenda \ {1} :
                      IsPush(agenda, k) /\ PushName(agenda', j) = PushName(agenda, k)
    <3>1. Len(s) \in Nat /\ DOMAIN agenda' \subseteq Nat
      BY <2>4 DEF Shifted
    <3>2. \A j \in DOMAIN agenda' : IsPush(agenda', j) =>
            /\ j - Len(s) + 1 \in DOMAIN agenda \ {1}
            /\ IsPush(agenda, j - Len(s) + 1)
            /\ PushName(agenda', j) = PushName(agenda, j - Len(s) + 1)
      BY <2>4, OldPushes
    <3>3. ASSUME NEW i \in DOMAIN agenda', NEW j \in DOMAIN agenda',
                 IsPush(agenda', i), IsPush(agenda', j), PushName(agenda', i) = PushName(agenda', j)
          PROVE  i = j
      <4>1. i - Len(s) + 1 = j - Len(s) + 1
        BY <3>2, <3>3 DEF Unique
      <4> QED BY <3>1, <4>1
    <3> QED BY <3>2, <3>3
  <2>5. << >> \in Seq(Entry) /\ \A i \in 1..Len(<< >>) : << >>[i].do = "collect"
    OBVIOUS
  <2>6. CASE Shifted(<< >>) /\ UNCHANGED <<emitted, defs>>
    BY <2>4, <2>5, <2>6 DEF Unique
  <2>7. CASE Shifted(p) /\ UNCHANGED <<emitted, defs>>
    BY <2>3, <2>4, <2>7 DEF Unique
  <2>8. CASE /\ Shifted(p \o <<Push(n)>>) /\ UNCHANGED defs
             /\ Name[n] \notin emitted /\ emitted' = emitted \cup {Name[n]}
    <3> DEFINE s == p \o <<Push(n)>>
    <3>1. /\ Len(s) = Len(p) + 1 /\ Len(s) \in Nat /\ s[Len(s)] = Push(n)
          /\ \A i \in 1..(Len(s) - 1) : s[i].do = "collect"
      BY <2>3 DEF Push, Entry
    <3>2. DOMAIN agenda' \subseteq Nat
      BY <2>8 DEF Shifted
    <3>3. \A j \in DOMAIN agenda' : IsPush(agenda', j) =>
            \/ j = Len(s) /\ PushName(agenda', j) = Name[n]
            \/ /\ j - Len(s) + 1 \in DOMAIN agenda \ {1}
               /\ IsPush(agenda, j - Len(s) + 1)
               /\ PushName(agenda', j) = PushName(agenda, j - Len(s) + 1)
      <4> SUFFICES ASSUME NEW j \in DOMAIN agenda', agenda'[j].do = "push"
                   PROVE  \/ j = Len(s) /\ PushName(agenda', j) = Name[n]
                          \/ /\ j - Len(s) + 1 \in DOMAIN agenda \ {1}
                             /\ IsPush(agenda, j - Len(s) + 1)
                             /\ PushName(agenda', j) = PushName(agenda, j - Len(s) + 1)
        BY DEF IsPush
      <4>1. CASE j \in 1..Len(s) /\ agenda'[j] = s[j]
        <5>1. j = Len(s)
          BY <3>1, <4>1
        <5>2. Push(n).node = n
          BY DEF Push
        <5> QED BY <3>1, <4>1, <5>1, <5>2 DEF PushName
      <4>2. CASE /\ j - Len(s) + 1 \in DOMAIN agenda \ {1}
                 /\ agenda'[j] = agenda[j - Len(s) + 1]
        BY <4>2 DEF IsPush, PushName
      <4> QED BY <2>8, <4>1, <4>2 DEF Shifted
    <3>4. \A j \in DOMAIN agenda : IsPush(agenda, j) => PushName(agenda, j) # Name[n]
      BY <2>8 DEF Unique
    <3>5. ASSUME NEW i \in DOMAIN agenda', NEW j \in DOMAIN agenda',
                 IsPush(agenda', i), IsPush(agenda', j), PushName(agenda', i) = PushName(agenda', j)
          PROVE  i = j
      <4>1. CASE i = Len(s) \/ j = Len(s)
        BY <3>1, <3>2, <3>3, <3>4, <3>5, <4>1
      <4>2. CASE i # Len(s) /\ j # Len(s)
        <5>1. i - Len(s) + 1 = j - Len(s) + 1
          BY <3>3, <3>5, <4>2 DEF Unique
        <5> QED BY <3>1, <3>2, <5>1
      <4> QED BY <4>1, <4>2
    <3>6. \A i \in DOMAIN defs, j \in DOMAIN agenda' :
            IsPush(agenda', j) => Name[defs[i]] # PushName(agenda', j)
      BY <2>8, <3>3 DEF Unique
    <3> QED BY <2>8, <3>3, <3>5, <3>6 DEF Unique
  <2>9. CASE /\ Shifted(<< >>) /\ UNCHANGED emitted
             /\ agenda[1].do = "push" /\ defs' = Append(defs, n)
    <3>1. 1 \in DOMAIN agenda /\ IsPush(agenda, 1) /\ PushName(agenda, 1) = Name[n]
      BY <2>1, <2>9 DEF Shifted, IsPush, PushName
    <3>2. \A i \in DOMAIN defs : Name[defs[i]] # Name[n]
      BY <3>1 DEF Unique
    <3>3. \A k \in DOMAIN agenda \ {1} : IsPush(agenda, k) => PushName(agenda, k) # Name[n]
      BY <3>1 DEF Unique
    <3>4. Name[n] \in emitted
      BY <3>1 DEF Unique
    <3>5. /\ DOMAIN defs' = DOMAIN defs \cup {Len(defs) + 1}
          /\ defs'[Len(defs) + 1] = n /\ \A i \in DOMAIN defs : defs'[i] = defs[i]
      BY <2>1, <2>9, AppendDef
    <3>6. \A j \in DOMAIN agenda' : IsPush(agenda', j) =>
            /\ PushName(agenda', j) # Name[n] /\ PushName(agenda', j) \in emitted
            /\ \A i \in DOMAIN defs : Name[defs[i]] # PushName(agenda', j)
      BY <2>4, <2>5, <2>9, <3>3 DEF Unique
    <3>7. \A i, j \in DOMAIN agenda' :
            IsPush(agenda', i) /\ IsPush(agenda', j)
              /\ PushName(agenda', i) = PushName(agenda', j) => i = j
      BY <2>4, <2>5, <2>9
    <3> QED BY <2>9, <3>2, <3>4, <3>5, <3>6, <3>7 DEF Unique
  <2>10. CASE /\ Shifted(<< >>) /\ defs' = Append(defs, n)
              /\ Name[n] \notin emitted /\ emitted' = emitted \cup {Name[n]}
    <3>1. \A k \in DOMAIN agenda : IsPush(agenda, k) => PushName(agenda, k) # Name[n]
      BY <2>10 DEF Unique
    <3>2. \A i \in DOMAIN defs : Name[defs[i]] # Name[n]
      BY <2>10 DEF Unique
    <3>3. /\ DOMAIN defs' = DOMAIN defs \cup {Len(defs) + 1}
          /\ defs'[Len(defs) + 1] = n /\ \A i \in DOMAIN defs : defs'[i] = defs[i]
      BY <2>1, <2>10, AppendDef
    <3>4. \A j \in DOMAIN agenda' : IsPush(agenda', j) =>
            /\ PushName(agenda', j) # Name[n] /\ PushName(agenda', j) \in emitted
            /\ \A i \in DOMAIN defs : Name[defs[i]] # PushName(agenda', j)
      BY <2>4, <2>5, <2>10, <3>1 DEF Unique
    <3>5. \A i, j \in DOMAIN agenda' :
            IsPush(agenda', i) /\ IsPush(agenda', j)
              /\ PushName(agenda', i) = PushName(agenda', j) => i = j
      BY <2>4, <2>5, <2>10
    <3> QED BY <2>10, <3>2, <3>3, <3>4, <3>5 DEF Unique
  <2> QED BY <1>2, <2>6, <2>7, <2>8, <2>9, <2>10, StepShape
<1> QED BY <1>1, <1>2 DEF Next

LEMMA UniqueInit == Init => Unique
PROOF
<1> SUFFICES ASSUME Init PROVE Unique
  OBVIOUS
<1>1. Roots(contract) \in Seq(Nodes)
  BY ContractAssumption DEF Init, Roots
<1>2. \A i \in DOMAIN agenda : agenda[i].do = "collect"
  <2>1. /\ agenda = CollectAll(Roots(contract)) /\ agenda \in Seq(Entry)
        /\ Len(agenda) = Len(Roots(contract))
    BY <1>1, CollectAllType DEF Init
  <2>2. DOMAIN agenda = 1..Len(Roots(contract))
    BY <2>1
  <2> QED BY <1>1, <2>1, <2>2, CollectAllType
<1> QED BY <1>2 DEF Init, Unique, IsPush

\* For every contract: two generated structs or enums never share a name.
THEOREM NamesAreDefinedOnce == Spec => []DefinedOnce
PROOF
<1>1. Unique => DefinedOnce
  BY DEF Unique, DefinedOnce
<1> QED BY <1>1, TypeInit, TypeStep, UniqueInit, UniqueStep, PTL DEF Spec

-----------------------------------------------------------------------------
(* Every mentioned name is in e, the emitted names, or promised by what is *)
(* on the agenda a.                                                        *)

Promised(a, e, x) ==
  \/ x \in e
  \/ \E i \in DOMAIN a : /\ a[i].do = "collect"
                       /\ \E m \in Named[a[i].node] : Name[m] = x

Covered(a, e, n) == \A m \in Named[n] : Promised(a, e, Name[m])
CoveredParts(a, e, n) == \A k \in DOMAIN Parts[n] : Covered(a, e, Parts[n][k])

Closed ==
  /\ \A i \in DOMAIN Roots(contract) : Covered(agenda, emitted, Roots(contract)[i])
  /\ \A i \in DOMAIN defs :
       Sort[defs[i]] = "struct" => CoveredParts(agenda, emitted, defs[i])
  /\ \A j \in DOMAIN agenda :
       IsPush(agenda, j) => CoveredParts(agenda, emitted, agenda[j].node)
  /\ \A x \in emitted :
       \/ \E i \in DOMAIN defs : Name[defs[i]] = x
       \/ \E j \in DOMAIN agenda : IsPush(agenda, j) /\ PushName(agenda, j) = x

\* A step breaks no promise: what the first entry promised is emitted, or
\* promised by what replaces it.
LEMMA PromisesAreKept ==
  ASSUME TypeOK, Next, NEW x, Promised(agenda, emitted, x)
  PROVE  Promised(agenda', emitted', x)
PROOF
<1> DEFINE n == Head(agenda).node
           p == CollectAll(Parts[n])
<1>1. /\ n \in Nodes /\ n = agenda[1].node /\ Parts[n] \in Seq(Nodes)
      /\ p \in Seq(Entry) /\ Len(p) = Len(Parts[n])
      /\ \A k \in 1..Len(p) : p[k].do = "collect" /\ p[k].node = Parts[n][k]
  <2>1. n \in Nodes /\ n = agenda[1].node
    BY StepShape
  <2>2. Parts[n] \in Seq(Nodes)
    BY <2>1, NodeAssumption
  <2> QED BY <2>1, <2>2, CollectAllType
<1>2. PICK s : Shifted(s) /\ emitted \subseteq emitted'
  BY StepShape
<1>3. CASE x \in emitted
  BY <1>2, <1>3 DEF Promised
<1>4. ASSUME NEW i \in DOMAIN agenda, i # 1, agenda[i].do = "collect",
             NEW m \in Named[agenda[i].node], Name[m] = x
      PROVE  Promised(agenda', emitted', x)
  BY <1>2, <1>4 DEF Shifted, Promised
<1>5. ASSUME agenda[1].do = "collect", NEW m \in Named[n], Name[m] = x
      PROVE  Promised(agenda', emitted', x)
  <2>1. CASE Name[m] \in emitted'
    BY <1>5, <2>1 DEF Promised
  <2>2. CASE Shifted(p) /\ Sort[n] = "wrapper"
    <3>1. Named[n] = UNION {Named[Parts[n][k]] : k \in DOMAIN Parts[n]}
      BY <1>1, <2>2, NodeAssumption
    <3>2. PICK k \in DOMAIN Parts[n] : m \in Named[Parts[n][k]]
      BY <1>5, <3>1
    <3>3. k \in 1..Len(p)
      BY <1>1, <3>2
    <3>4. k \in DOMAIN agenda' /\ agenda'[k] = p[k]
      BY <2>2, <3>3 DEF Shifted
    <3> QED BY <1>1, <1>5, <3>2, <3>3, <3>4 DEF Promised
  <2>3. CASE Sort[n] \in {"struct", "enum"} /\ emitted' = emitted \cup {Name[n]}
    <3>1. Named[n] = {n}
      BY <1>1, <2>3, NodeAssumption
    <3> QED BY <1>5, <2>3, <3>1 DEF Promised
  <2> QED BY <1>5, <2>1, <2>2, <2>3, StepShape
<1> QED BY <1>1, <1>3, <1>4, <1>5 DEF Promised

LEMMA ClosedStep == TypeOK /\ Closed /\ [Next]_vars => Closed'
PROOF
<1> SUFFICES ASSUME TypeOK, Closed, [Next]_vars PROVE Closed'
  OBVIOUS
<1>1. CASE UNCHANGED vars
  BY <1>1 DEF vars, Closed
<1>2. CASE Next
  <2> DEFINE n == Head(agenda).node
             p == CollectAll(Parts[n])
             q == p \o <<Push(n)>>
             CoveredNow(x) == CoveredParts(agenda', emitted', x)
             Held(x) == \/ \E i \in DOMAIN defs' : Name[defs'[i]] = x
                        \/ \E j \in DOMAIN agenda' :
                             IsPush(agenda', j) /\ PushName(agenda', j) = x
  <2>1. n \in Nodes /\ n = agenda[1].node /\ contract' = contract
    BY <1>2, StepShape
  <2>2. /\ Parts[n] \in Seq(Nodes) /\ p \in Seq(Entry) /\ Len(p) = Len(Parts[n])
        /\ \A k \in 1..Len(p) : p[k].do = "collect" /\ p[k].node = Parts[n][k]
    <3>1. Parts[n] \in Seq(Nodes)
      BY <2>1, NodeAssumption
    <3> QED BY <3>1, CollectAllType
  <2>3. /\ \A x : Covered(agenda, emitted, x) => Covered(agenda', emitted', x)
        /\ \A x : CoveredParts(agenda, emitted, x) => CoveredNow(x)
    BY <1>2, PromisesAreKept DEF Covered, CoveredParts
  <2>4. \A i \in DOMAIN Roots(contract') : Covered(agenda', emitted', Roots(contract')[i])
    BY <2>1, <2>3 DEF Closed
  <2>5. /\ \A i \in DOMAIN defs : Sort[defs[i]] = "struct" => CoveredNow(defs[i])
        /\ \A j \in DOMAIN agenda : IsPush(agenda, j) => CoveredNow(agenda[j].node)
    BY <2>3 DEF Closed
  <2>6. ASSUME NEW s, Shifted(s), \A k \in 1..Len(s) : s[k].do = "collect"
        PROVE  /\ \A j \in DOMAIN agenda' : IsPush(agenda', j) => CoveredNow(agenda'[j].node)
               /\ \A j \in DOMAIN agenda \ {1} :
                    IsPush(agenda, j) => Held(PushName(agenda, j))
    <3>1. \A j \in DOMAIN agenda' : IsPush(agenda', j) =>
            /\ j - Len(s) + 1 \in DOMAIN agenda /\ IsPush(agenda, j - Len(s) + 1)
            /\ agenda'[j] = agenda[j - Len(s) + 1]
      BY <2>6 DEF Shifted, IsPush
    <3>2. \A j \in DOMAIN agenda' : IsPush(agenda', j) => CoveredNow(agenda'[j].node)
      BY <2>5, <3>1
    <3>3. \A j \in DOMAIN agenda \ {1} :
            j + Len(s) - 1 \in DOMAIN agenda' /\ agenda'[j + Len(s) - 1] = agenda[j]
      BY <2>6 DEF Shifted
    <3>4. \A j \in DOMAIN agenda \ {1} : IsPush(agenda, j) => Held(PushName(agenda, j))
      BY <3>3 DEF IsPush, PushName
    <3> QED BY <3>2, <3>4
  <2>7. \A k \in 1..Len(<< >>) : << >>[k].do = "collect"
    OBVIOUS
  <2>8. CASE /\ \/ Shifted(<< >>) \/ Shifted(p)
             /\ agenda[1].do = "collect" /\ UNCHANGED <<emitted, defs>>
    <3>1. /\ \A j \in DOMAIN agenda' : IsPush(agenda', j) => CoveredNow(agenda'[j].node)
          /\ \A j \in DOMAIN agenda \ {1} : IsPush(agenda, j) => Held(PushName(agenda, j))
      BY <2>2, <2>6, <2>7, <2>8
    <3>2. ~IsPush(agenda, 1)
      BY <2>8 DEF IsPush
    <3>3. \A x \in emitted' : Held(x)
      BY <2>8, <3>1, <3>2 DEF Closed
    <3> QED BY <2>4, <2>5, <2>8, <3>1, <3>3 DEF Closed
  <2>9. CASE /\ Shifted(q) /\ UNCHANGED defs /\ agenda[1].do = "collect"
             /\ emitted' = emitted \cup {Name[n]}
    <3>1. /\ Len(q) = Len(p) + 1 /\ Len(q) \in Nat /\ q[Len(q)] = Push(n)
          /\ \A k \in 1..Len(p) : q[k] = p[k]
      BY <2>2 DEF Push, Entry
    <3>2. Push(n).do = "push" /\ Push(n).node = n
      BY DEF Push
    <3>3. Len(q) \in DOMAIN agenda' /\ agenda'[Len(q)] = Push(n)
      BY <2>9, <3>1 DEF Shifted
    <3>4. CoveredNow(n)
      <4> SUFFICES ASSUME NEW k \in DOMAIN Parts[n], NEW m \in Named[Parts[n][k]]
                   PROVE  Promised(agenda', emitted', Name[m])
        BY DEF CoveredParts, Covered
      <4>1. k \in 1..Len(p) /\ p[k].do = "collect" /\ p[k].node = Parts[n][k]
        BY <2>2
      <4>2. k \in DOMAIN agenda' /\ agenda'[k] = p[k]
        BY <2>9, <3>1, <4>1 DEF Shifted
      <4> QED BY <4>1, <4>2 DEF Promised
    <3>5. ASSUME NEW j \in DOMAIN agenda', IsPush(agenda', j)
          PROVE  CoveredNow(agenda'[j].node)
      <4>1. CASE j \in 1..Len(q) /\ agenda'[j] = q[j]
        <5>1. CASE j = Len(q)
          BY <3>1, <3>2, <3>4, <4>1, <5>1
        <5>2. CASE j # Len(q)
          <6>1. j \in 1..Len(p)
            BY <2>2, <3>1, <4>1, <5>2
          <6> QED BY <2>2, <3>1, <3>5, <4>1, <6>1 DEF IsPush
        <5> QED BY <5>1, <5>2
      <4>2. CASE /\ j - Len(q) + 1 \in DOMAIN agenda
                 /\ agenda'[j] = agenda[j - Len(q) + 1]
        BY <2>5, <3>5, <4>2 DEF IsPush
      <4> QED BY <2>9, <4>1, <4>2 DEF Shifted
    <3>6. \A j \in DOMAIN agenda \ {1} : IsPush(agenda, j) => Held(PushName(agenda, j))
      <4>1. \A j \in DOMAIN agenda \ {1} :
              j + Len(q) - 1 \in DOMAIN agenda' /\ agenda'[j + Len(q) - 1] = agenda[j]
        BY <2>9 DEF Shifted
      <4> QED BY <4>1 DEF IsPush, PushName
    <3>7. ~IsPush(agenda, 1)
      BY <2>9 DEF IsPush
    <3>8. Held(Name[n])
      BY <3>2, <3>3 DEF IsPush, PushName
    <3>9. \A x \in emitted' : Held(x)
      BY <2>9, <3>6, <3>7, <3>8 DEF Closed
    <3> QED BY <2>4, <2>5, <2>9, <3>5, <3>9 DEF Closed
  <2>10. CASE /\ Shifted(<< >>) /\ defs' = Append(defs, n)
              /\ \/ agenda[1].do = "push" /\ UNCHANGED emitted
                 \/ /\ agenda[1].do = "collect" /\ Sort[n] = "enum"
                    /\ emitted' = emitted \cup {Name[n]}
    <3>1. /\ DOMAIN defs' = DOMAIN defs \cup {Len(defs) + 1}
          /\ defs'[Len(defs) + 1] = n /\ \A i \in DOMAIN defs : defs'[i] = defs[i]
      BY <2>1, <2>10, AppendDef
    <3>2. /\ \A j \in DOMAIN agenda' : IsPush(agenda', j) => CoveredNow(agenda'[j].node)
          /\ \A j \in DOMAIN agenda \ {1} : IsPush(agenda, j) => Held(PushName(agenda, j))
      BY <2>6, <2>7, <2>10
    <3>3. Sort[n] = "struct" => CoveredNow(n)
      <4>1. 1 \in DOMAIN agenda
        BY <2>10 DEF Shifted
      <4> QED BY <2>1, <2>5, <2>10, <4>1 DEF IsPush
    <3>4. Held(Name[n])
      BY <3>1
    <3>5. IsPush(agenda, 1) => PushName(agenda, 1) = Name[n]
      BY <2>1 DEF PushName
    <3>6. \A i \in DOMAIN defs : Held(Name[defs[i]])
      BY <3>1
    <3>7. \A x \in emitted' : Held(x)
      BY <2>10, <3>2, <3>4, <3>5, <3>6 DEF Closed
    <3> QED BY <2>4, <2>5, <3>1, <3>2, <3>3, <3>7 DEF Closed
  <2> QED BY <1>2, <2>8, <2>9, <2>10, StepShape
<1> QED BY <1>1, <1>2

LEMMA ClosedInit == Init => Closed
PROOF
<1> SUFFICES ASSUME Init PROVE Closed
  OBVIOUS
<1> DEFINE r == Roots(contract)
<1>1. r \in Seq(Nodes)
  BY ContractAssumption DEF Init, Roots
<1>2. /\ agenda = CollectAll(r) /\ agenda \in Seq(Entry) /\ Len(agenda) = Len(r)
      /\ \A i \in 1..Len(r) : agenda[i].do = "collect" /\ agenda[i].node = r[i]
  BY <1>1, CollectAllType DEF Init
<1>3. DOMAIN agenda = 1..Len(r) /\ DOMAIN r = 1..Len(r)
  BY <1>1, <1>2
<1>4. \A i \in DOMAIN r : Covered(agenda, emitted, r[i])
  BY <1>2, <1>3 DEF Covered, Promised
<1> QED BY <1>2, <1>3, <1>4 DEF Init, Closed, IsPush

LEMMA ClosedIsEnough == TypeOK /\ Closed => MentionsAreDefined
PROOF
<1> SUFFICES ASSUME TypeOK, Closed, Done, NEW m \in Mentioned
             PROVE  \E d \in Defined : Name[d] = Name[m]
  BY DEF MentionsAreDefined
<1>1. PICK n \in Appearing : m \in Named[n]
  BY DEF Mentioned
<1>2. DOMAIN agenda = {}
  BY DEF Done
<1>3. Covered(agenda, emitted, n)
  BY DEF Appearing, Closed, CoveredParts, Defined
<1>4. Name[m] \in emitted
  BY <1>1, <1>2, <1>3 DEF Covered, Promised
<1> QED BY <1>2, <1>4 DEF Closed, Defined

\* For every contract: when the traversal ends, whatever struct or enum name the
\* generated code mentions is defined, although types are skipped by name.
THEOREM NoDanglingNames == Spec => []MentionsAreDefined
PROOF BY TypeInit, TypeStep, ClosedInit, ClosedStep, ClosedIsEnough, PTL DEF Spec
=============================================================================
