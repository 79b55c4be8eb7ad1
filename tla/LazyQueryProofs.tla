--------------------------- MODULE LazyQueryProofs ---------------------------
(***************************************************************************)
(* Proofs about LazyQuery, for any number of callers, fields, keys and     *)
(* ledgers.  The argument: a reply is computed from a ledger in the window *)
(* of its call (IInv), and what the accessors make of such a reply is the  *)
(* eager answer for that ledger or a failure (Agreement).                  *)
(***************************************************************************)
EXTENDS LazyQuery, TLAPS

\* Whatever its storage kind, a field read from the node's reply for a ledger
\* is the field the eager accessor reads from that ledger.
LEMMA ExactAgreement ==
  ASSUME NEW l \in Ledgers, NEW o \in Ops
  PROVE  Outcome(o, Ok(<<NodeReply(l, o)>>)) = EagerRead(l, o)
PROOF
<1> DEFINE sv == l[o.field]
           r  == NodeReply(l, o)
           T  == Type[o.field]
<1>1. /\ o.field \in Fields
      /\ o.arg \in Nat
      /\ KindOf(o) \in Kinds
      /\ Conforms(sv, KindOf(o))
  BY SchemaAssumption DEF KindOf
<1>2. /\ sv.tag # "Garbled"
      /\ HasKey(sv, o.arg) => sv.map[o.arg].tag # "Garbled"
      /\ HasIndex(sv, o.arg) => sv.arr[o.arg + 1].tag # "Garbled"
  BY <1>1, StoredValueAssumption
<1>3. Outcome(o, Ok(<<r>>)) =
        CASE KindOf(o) \in {"cell", "counter"} -> LazyCell(r, T)
          [] KindOf(o) \in {"map", "list"} -> LazyEntry(r, T)
          [] KindOf(o) = "set" -> LazyMember(r)
          [] OTHER -> DecodeStateValue(r)
  BY DEF Outcome, Ok
<1>4. CASE KindOf(o) \in {"cell", "counter"}
  <2>1. r = [value |-> <<sv>>, error |-> FALSE]
    BY <1>4 DEF NodeReply, QueryResult, Some
  <2>2. DecodeStateValue(r) = Ok(sv)
    BY <2>1, <1>2 DEF DecodeStateValue, None, Ok
  <2> QED BY <1>3, <1>4, <2>2 DEF LazyCell, EagerRead, EagerCell, Ok
<1>5. CASE KindOf(o) \in {"map", "set"}
  <2>1. sv.tag = "Map"
    BY <1>1, <1>5 DEF Conforms
  <2>2. EagerRead(l, o) = IF KindOf(o) = "map" THEN EagerMapGet(sv, o.arg, T)
                                               ELSE EagerSetContains(sv, o.arg)
    BY <1>5 DEF EagerRead
  <2>3. CASE HasKey(sv, o.arg)
    <3>1. r = [value |-> <<sv.map[o.arg]>>, error |-> FALSE]
      BY <1>5, <2>3 DEF NodeReply, Descend, QueryResult, Some
    <3>2. DecodeStateValue(r) = Ok(sv.map[o.arg])
      BY <3>1, <1>2, <2>3 DEF DecodeStateValue, None, Ok
    <3>3. CASE KindOf(o) = "map"
      <4>1. LazyEntry(r, T) = SomeOf(CellRead(sv.map[o.arg], T))
        BY <3>1, <3>2 DEF LazyEntry, LazyCell, None, Ok
      <4>2. EagerMapGet(sv, o.arg, T) = SomeOf(CellRead(sv.map[o.arg], T))
        BY <2>1, <2>3 DEF EagerMapGet
      <4> QED BY <1>3, <2>2, <3>3, <4>1, <4>2
    <3>4. CASE KindOf(o) = "set"
      <4>1. (r.value # None) = TRUE
        BY <3>1 DEF None
      <4>2. LazyMember(r) = Ok(TRUE)
        BY <4>1 DEF LazyMember
      <4>3. EagerSetContains(sv, o.arg) = Ok(TRUE)
        BY <2>1, <2>3 DEF EagerSetContains, HasKey
      <4> QED BY <1>3, <2>2, <3>4, <4>2, <4>3
    <3> QED BY <1>5, <3>3, <3>4
  <2>4. CASE ~HasKey(sv, o.arg)
    <3>1. r = [value |-> << >>, error |-> FALSE]
      BY <1>5, <2>1, <2>4 DEF NodeReply, Descend, QueryResult, None, HasIndex
    <3>3. CASE KindOf(o) = "map"
      <4>1. LazyEntry(r, T) = Ok(None)
        BY <3>1 DEF LazyEntry, None
      <4>2. EagerMapGet(sv, o.arg, T) = Ok(None)
        BY <2>1, <2>4 DEF EagerMapGet
      <4> QED BY <1>3, <2>2, <3>3, <4>1, <4>2
    <3>4. CASE KindOf(o) = "set"
      <4>1. (r.value # None) = FALSE
        BY <3>1 DEF None
      <4>2. LazyMember(r) = Ok(FALSE)
        BY <4>1 DEF LazyMember
      <4>3. EagerSetContains(sv, o.arg) = Ok(FALSE)
        BY <2>1, <2>4 DEF EagerSetContains, HasKey
      <4> QED BY <1>3, <2>2, <3>4, <4>2, <4>3
    <3> QED BY <1>5, <3>3, <3>4
  <2> QED BY <2>3, <2>4
<1>6. CASE KindOf(o) = "list"
  <2>1. sv.tag = "Array" /\ ~HasKey(sv, o.arg)
    BY <1>1, <1>6 DEF Conforms, HasKey
  <2>2. CASE HasIndex(sv, o.arg)
    <3>1. r = [value |-> <<sv.arr[o.arg + 1]>>, error |-> FALSE]
      BY <1>6, <2>1, <2>2 DEF NodeReply, Descend, QueryResult, Some
    <3>2. DecodeStateValue(r) = Ok(sv.arr[o.arg + 1])
      BY <3>1, <1>2, <2>2 DEF DecodeStateValue, None, Ok
    <3> QED BY <1>3, <1>6, <2>1, <2>2, <3>1, <3>2
            DEF LazyEntry, LazyCell, EagerRead, EagerListGet, None, Ok
  <2>3. CASE ~HasIndex(sv, o.arg)
    <3>1. r = [value |-> << >>, error |-> FALSE]
      BY <1>6, <2>1, <2>3 DEF NodeReply, Descend, QueryResult, None
    <3> QED BY <1>3, <1>6, <2>1, <2>3, <3>1
            DEF LazyEntry, EagerRead, EagerListGet, None, Ok
  <2> QED BY <2>2, <2>3
<1>7. CASE KindOf(o) = "untyped"
  <2>1. r = [value |-> <<sv>>, error |-> FALSE]
    BY <1>7 DEF NodeReply, QueryResult, Some
  <2>2. DecodeStateValue(r) = Ok(sv)
    BY <2>1, <1>2 DEF DecodeStateValue, None, Ok
  <2> QED BY <1>3, <1>7, <2>2 DEF EagerRead
<1> QED BY <1>1, <1>4, <1>5, <1>6, <1>7 DEF Kinds

\* Whatever the provider returns for a read of a ledger, the accessor reports
\* the eager answer for that ledger or a failure; only a set query that the RPC
\* answered with an error is reported as an absence.
LEMMA Agreement ==
  ASSUME NEW l \in Ledgers, NEW o \in Ops, NEW rep \in ProviderReplies(l, o)
  PROVE  \/ Outcome(o, rep) \in Failures \cup {EagerRead(l, o)}
         \/ /\ KindOf(o) = "set" /\ "set" \in PathErrorKinds
            /\ Outcome(o, rep) = Ok(FALSE)
PROOF
<1> DEFINE r == NodeReply(l, o)
<1>1. o.field \in Fields /\ KindOf(o) \in Kinds
  BY SchemaAssumption DEF KindOf
<1>2. CASE rep = Ok(<<r>>)
  BY <1>2, ExactAgreement
<1>3. CASE rep = Ok(<<PathError>>) /\ KindOf(o) \in PathErrorKinds
  <2>1. PathError = [value |-> << >>, error |-> TRUE]
    BY DEF PathError, QueryResult, None
  <2>2. DecodeStateValue(PathError) = Err("QueryFailed")
    BY <2>1 DEF DecodeStateValue
  <2>3. Err("QueryFailed") \in Failures /\ ~Err("QueryFailed").ok
    BY DEF Failures, Err
  <2>4. CASE KindOf(o) = "set"
    <3>1. (PathError.value # None) = FALSE
      BY <2>1 DEF None
    <3>2. LazyMember(PathError) = Ok(FALSE)
      BY <3>1 DEF LazyMember
    <3>3. Outcome(o, rep) = LazyMember(PathError)
      BY <1>3, <2>4 DEF Outcome, Ok
    <3> QED BY <1>3, <2>4, <3>2, <3>3
  <2>5. CASE KindOf(o) # "set"
    <3>1. /\ LazyCell(PathError, Type[o.field]) = Err("QueryFailed")
          /\ LazyEntry(PathError, Type[o.field]) = Err("QueryFailed")
      BY <2>1, <2>2, <2>3 DEF LazyCell, LazyEntry, SomeOf
    <3>2. Outcome(o, rep) = Err("QueryFailed")
      BY <1>1, <1>3, <2>2, <2>5, <3>1 DEF Outcome, Ok, Kinds
    <3> QED BY <2>3, <3>2
  <2> QED BY <2>4, <2>5
<1>4. CASE rep = Ok(<<Garble(r)>>)
  <2>1. CASE r.value = None
    BY <1>4, <2>1, ExactAgreement DEF Garble
  <2>2. CASE r.value # None
    <3> DEFINE g == Garble(r)
    <3>1. /\ r = [value |-> r.value, error |-> FALSE]
          /\ g.value = <<Garbled>> /\ g.error = FALSE
      BY <1>1, <2>2 DEF Garble, Some, None, NodeReply, Descend, QueryResult, PathError
    <3>2. DecodeStateValue(g) = Err("Deserialize")
      BY <3>1 DEF DecodeStateValue, None, Garbled
    <3>3. Err("Deserialize") \in Failures /\ ~Err("Deserialize").ok
      BY DEF Failures, Err
    <3>4. CASE KindOf(o) = "set"
      <4>1. (g.value # None) = TRUE /\ (r.value # None) = TRUE
        BY <2>2, <3>1 DEF None
      <4>2. LazyMember(g) = LazyMember(r)
        BY <4>1 DEF LazyMember
      <4>3. /\ Outcome(o, rep) = LazyMember(g)
            /\ Outcome(o, Ok(<<r>>)) = LazyMember(r)
        BY <1>4, <3>4 DEF Outcome, Ok
      <4> QED BY <4>2, <4>3, ExactAgreement
    <3>5. CASE KindOf(o) # "set"
      <4>1. /\ LazyCell(g, Type[o.field]) = Err("Deserialize")
            /\ LazyEntry(g, Type[o.field]) = Err("Deserialize")
        BY <3>1, <3>2, <3>3 DEF LazyCell, LazyEntry, SomeOf, None
      <4>2. Outcome(o, rep) = Err("Deserialize")
        BY <1>1, <1>4, <3>2, <3>5, <4>1 DEF Outcome, Ok, Kinds
      <4> QED BY <3>3, <4>2
    <3> QED BY <3>4, <3>5
  <2> QED BY <2>1, <2>2
<1>5. CASE rep = Ok(<< >>)
  BY <1>5 DEF Outcome, Ok, Panicked, Failures, Err
<1>6. CASE rep = Err("Provider")
  BY <1>6 DEF Outcome, Failures, Err
<1> QED BY <1>2, <1>3, <1>4, <1>5, <1>6 DEF ProviderReplies

-----------------------------------------------------------------------------
(* Type correctness. *)

\* Committing a ledger leaves the earlier ones in place.
LEMMA CommitKeepsHistory ==
  ASSUME chain \in Seq(Ledgers), NEW l \in Ledgers, chain' = Append(chain, l)
  PROVE  /\ chain' \in Seq(Ledgers)
         /\ Len(chain') = Len(chain) + 1
         /\ \A v \in 1..Len(chain) : chain'[v] = chain[v]
PROOF OBVIOUS

\* The ledger the node evaluates a query on is one of the contract's states.
LEMMA LedgerType == TypeOK => Len(chain) \in Nat /\ Ledger \in Ledgers
PROOF
<1> SUFFICES ASSUME TypeOK PROVE Len(chain) \in Nat /\ Ledger \in Ledgers
  OBVIOUS
<1>1. chain \in Seq(Ledgers) /\ Len(chain) \in 1..MaxBlocks
  BY DEF TypeOK
<1> QED BY <1>1, ProviderAssumption DEF Ledger

LEMMA TypeInit == Init => TypeOK
PROOF
<1> SUFFICES ASSUME Init PROVE TypeOK
  OBVIOUS
<1>1. PICK l \in Ledgers : chain = <<l>>
  BY DEF Init
<1>2. chain \in Seq(Ledgers) /\ Len(chain) = 1
  BY <1>1
<1> QED BY <1>2, ProviderAssumption DEF Init, TypeOK

LEMMA TypeStep == TypeOK /\ [Next]_vars => TypeOK'
PROOF
<1> SUFFICES ASSUME TypeOK, [Next]_vars PROVE TypeOK'
  OBVIOUS
<1> USE DEF TypeOK
<1>0. Len(chain) \in Nat /\ Len(chain) \in 1..Len(chain) /\ 1 \in 1..Len(chain)
  BY ProviderAssumption
<1>1. CASE CommitBlock
  <2>1. PICK l \in Ledgers : chain' = Append(chain, l)
    BY <1>1 DEF CommitBlock
  <2>2. chain' \in Seq(Ledgers) /\ Len(chain') = Len(chain) + 1
    BY <2>1, CommitKeepsHistory
  <2>3. Len(chain') \in 1..MaxBlocks
    BY <1>0, <1>1, <2>2, ProviderAssumption DEF CommitBlock
  <2>4. since' \in [Callers -> 1..Len(chain')]
    BY <1>0, <1>1, <2>2 DEF CommitBlock
  <2> QED BY <1>1, <2>2, <2>3, <2>4 DEF CommitBlock
<1>2. ASSUME NEW c \in Callers, NEW o \in Ops, SendQuery(c, o) PROVE TypeOK'
  BY <1>0, <1>2 DEF SendQuery
<1>3. ASSUME NEW c \in Callers, NEW o \in Ops, FailToBuildPath(c, o) PROVE TypeOK'
  BY <1>0, <1>3 DEF FailToBuildPath
<1>4. ASSUME NEW c \in Callers, ProviderAnswers(c) PROVE TypeOK'
  BY <1>4 DEF ProviderAnswers
<1>5. ASSUME NEW c \in Callers, Resume(c) PROVE TypeOK'
  BY <1>5 DEF Resume
<1>6. ASSUME NEW c \in Callers, TakeResult(c) PROVE TypeOK'
  BY <1>0, <1>6 DEF TakeResult
<1>7. CASE UNCHANGED vars
  BY <1>7 DEF vars
<1> QED BY <1>1, <1>2, <1>3, <1>4, <1>5, <1>6, <1>7 DEF Next, Call

\* Variables keep their types: a call in progress always has a read of its own,
\* and was made at a committed version.
THEOREM TypeCorrect == Spec => []TypeOK
PROOF BY TypeInit, TypeStep, PTL DEF Spec

-----------------------------------------------------------------------------
(* The inductive invariant: where the replies and the outcomes come from.  *)

FromWindow(c) ==
  \E v \in Window(c) : reply[c] \in ProviderReplies(chain[v], op[c])

Progress(c) ==
  /\ phase[c] \in {"idle", "waiting"} => reply[c] = Pending
  /\ phase[c] = "answered" => FromWindow(c)
  /\ phase[c] = "done" =>
       \/ reply[c] = Pending /\ result[c] = Panicked
       \/ FromWindow(c) /\ result[c] = Outcome(op[c], reply[c])

IInv == TypeOK /\ \A c \in Callers : Progress(c)

\* A caller's progress is not disturbed by the steps of the other callers.
LEMMA OthersKeepProgress ==
  ASSUME NEW d \in Callers, Progress(d), UNCHANGED chain,
         phase'[d] = phase[d], op'[d] = op[d], since'[d] = since[d],
         reply'[d] = reply[d], result'[d] = result[d]
  PROVE  Progress(d)'
PROOF BY DEF Progress, FromWindow, Window

\* Nor by a block: the window only grows, and keeps its ledgers.
LEMMA CommitKeepsProgress ==
  ASSUME TypeOK, CommitBlock, NEW d \in Callers, Progress(d)
  PROVE  Progress(d)'
PROOF
<1>1. PICK l \in Ledgers : chain' = Append(chain, l)
  BY DEF CommitBlock
<1>2. /\ Len(chain') = Len(chain) + 1
      /\ \A v \in 1..Len(chain) : chain'[v] = chain[v]
  BY <1>1, CommitKeepsHistory DEF TypeOK
<1>3. UNCHANGED <<phase, op, since, reply, result>>
  BY DEF CommitBlock
<1>4. since[d] \in 1..Len(chain) /\ Len(chain) \in Nat
  BY LedgerType DEF TypeOK
<1>5. FromWindow(d) => FromWindow(d)'
  <2> SUFFICES ASSUME FromWindow(d) PROVE FromWindow(d)'
    OBVIOUS
  <2>1. PICK v \in since[d]..Len(chain) : reply[d] \in ProviderReplies(chain[v], op[d])
    BY DEF FromWindow, Window
  <2>2. v \in 1..Len(chain) /\ v \in since[d]..Len(chain')
    BY <1>2, <1>4
  <2>3. reply'[d] \in ProviderReplies(chain'[v], op'[d])
    BY <1>2, <1>3, <2>1, <2>2
  <2> QED BY <1>3, <2>2, <2>3 DEF FromWindow, Window
<1> QED BY <1>3, <1>5 DEF Progress

LEMMA IInvInit == Init => IInv
PROOF BY TypeInit DEF Init, IInv, Progress

LEMMA IInvStep == IInv /\ [Next]_vars => IInv'
PROOF
<1> SUFFICES ASSUME IInv, [Next]_vars PROVE IInv'
  OBVIOUS
<1>1. TypeOK /\ TypeOK' /\ \A d \in Callers : Progress(d)
  BY TypeStep DEF IInv
<1>2. CASE CommitBlock
  BY <1>1, <1>2, CommitKeepsProgress DEF IInv
<1>3. ASSUME NEW c \in Callers, NEW o \in Ops, SendQuery(c, o) PROVE IInv'
  <2>1. Progress(c)'
    BY <1>1, <1>3 DEF SendQuery, Progress, TypeOK
  <2>2. \A d \in Callers \ {c} : Progress(d)'
    BY <1>1, <1>3, OthersKeepProgress DEF SendQuery, TypeOK
  <2> QED BY <1>1, <2>1, <2>2 DEF IInv
<1>4. ASSUME NEW c \in Callers, NEW o \in Ops, FailToBuildPath(c, o) PROVE IInv'
  <2>1. Progress(c)'
    BY <1>1, <1>4 DEF FailToBuildPath, Progress, TypeOK
  <2>2. \A d \in Callers \ {c} : Progress(d)'
    BY <1>1, <1>4, OthersKeepProgress DEF FailToBuildPath, TypeOK
  <2> QED BY <1>1, <2>1, <2>2 DEF IInv
<1>5. ASSUME NEW c \in Callers, ProviderAnswers(c) PROVE IInv'
  <2>1. /\ phase'[c] = "answered"
        /\ reply'[c] \in ProviderReplies(chain'[Len(chain)], op'[c])
        /\ since'[c] = since[c] /\ chain' = chain
    BY <1>1, <1>5 DEF ProviderAnswers, TypeOK, Ledger
  <2>2. Len(chain) \in since[c]..Len(chain)
    BY <1>1, LedgerType DEF TypeOK
  <2>3. Progress(c)'
    BY <2>1, <2>2 DEF Progress, FromWindow, Window
  <2>4. \A d \in Callers \ {c} : Progress(d)'
    BY <1>1, <1>5, OthersKeepProgress DEF ProviderAnswers, TypeOK
  <2> QED BY <1>1, <2>3, <2>4 DEF IInv
<1>6. ASSUME NEW c \in Callers, Resume(c) PROVE IInv'
  <2>1. phase[c] = "answered" /\ FromWindow(c)
    BY <1>1, <1>6 DEF Resume, Progress
  <2>2. /\ phase'[c] = "done" /\ result'[c] = Outcome(op[c], reply[c])
        /\ UNCHANGED <<chain, op, since, reply>>
    BY <1>6, <2>1 DEF Resume, TypeOK, IInv
  <2>3. Progress(c)'
    BY <2>1, <2>2 DEF Progress, FromWindow, Window
  <2>4. \A d \in Callers \ {c} : Progress(d)'
    BY <1>1, <1>6, OthersKeepProgress DEF Resume, TypeOK
  <2> QED BY <1>1, <2>3, <2>4 DEF IInv
<1>7. ASSUME NEW c \in Callers, TakeResult(c) PROVE IInv'
  <2>1. Progress(c)'
    BY <1>1, <1>7 DEF TakeResult, Progress, TypeOK
  <2>2. \A d \in Callers \ {c} : Progress(d)'
    BY <1>1, <1>7, OthersKeepProgress DEF TakeResult, TypeOK
  <2> QED BY <1>1, <2>1, <2>2 DEF IInv
<1>8. CASE UNCHANGED vars
  <2>1. \A d \in Callers : Progress(d)'
    BY <1>1, <1>8, OthersKeepProgress DEF vars
  <2> QED BY <1>1, <2>1 DEF IInv
<1> QED BY <1>2, <1>3, <1>4, <1>5, <1>6, <1>7, <1>8 DEF Next, Call

LEMMA IInvReads == IInv => ReadsCommittedState
PROOF
<1> SUFFICES ASSUME IInv, NEW c \in Callers, phase[c] = "done"
             PROVE  \/ result[c] \in Failures \cup EagerAnswers(c)
                    \/ KindOf(op[c]) = "set" /\ result[c] = Ok(FALSE)
  BY DEF ReadsCommittedState
<1>1. /\ chain \in Seq(Ledgers) /\ Len(chain) \in Nat
      /\ since[c] \in 1..Len(chain) /\ op[c] \in Ops
  BY LedgerType DEF IInv, TypeOK
<1>2. CASE result[c] = Panicked
  BY <1>2 DEF Panicked, Failures
<1>3. CASE FromWindow(c) /\ result[c] = Outcome(op[c], reply[c])
  <2>1. PICK v \in Window(c) : reply[c] \in ProviderReplies(chain[v], op[c])
    BY <1>3 DEF FromWindow
  <2>2. v \in 1..Len(chain) /\ chain[v] \in Ledgers
    BY <1>1 DEF Window
  <2>3. \/ result[c] \in Failures \cup {EagerRead(chain[v], op[c])}
        \/ KindOf(op[c]) = "set" /\ result[c] = Ok(FALSE)
    BY <1>1, <1>3, <2>1, <2>2, Agreement
  <2> QED BY <2>1, <2>3 DEF EagerAnswers
<1> QED BY <1>2, <1>3 DEF IInv, Progress

\* Any number of callers reading any fields while blocks arrive: what a lazy
\* read reports about the ledger is what the eager wrapper would have reported
\* for a state committed between the call and the return.
THEOREM LazyReadsAreCommittedState == Spec => []ReadsCommittedState
PROOF BY IInvInit, IInvStep, IInvReads, PTL DEF Spec

LEMMA IInvAgrees == IInv => EagerAndLazyAgree
PROOF
<1> SUFFICES ASSUME IInv, NEW c \in Callers, NEW v \in 1..Len(chain),
                    phase[c] = "done", reply[c] = Ok(<<NodeReply(chain[v], op[c])>>)
             PROVE  result[c] = EagerRead(chain[v], op[c])
  BY DEF EagerAndLazyAgree
<1>1. op[c] \in Ops /\ chain[v] \in Ledgers
  BY DEF IInv, TypeOK
<1>2. reply[c] # Pending
  BY DEF Pending, Ok, Err
<1>3. result[c] = Outcome(op[c], reply[c])
  BY <1>2 DEF IInv, Progress
<1> QED BY <1>1, <1>3, ExactAgreement

\* The two wrappers agree on every field, key and index.
THEOREM WrappersAgree == Spec => []EagerAndLazyAgree
PROOF BY IInvInit, IInvStep, IInvAgrees, PTL DEF Spec

-----------------------------------------------------------------------------
(* Refinement: the node's evaluation of the query is the instant of the read. *)

LEMMA AtomicInit == Init => Atomic!Init
PROOF
<1> SUFFICES ASSUME Init PROVE Atomic!Init
  OBVIOUS
<1> QED BY DEF Init, Atomic!Init, NoOp, Atomic!NoOp, Pending, Atomic!Unanswered,
               Err, Atomic!Err

LEMMA SameOutcomes ==
  /\ Failures = Atomic!Failures
  /\ \A l, o : EagerRead(l, o) = Atomic!EagerRead(l, o)
PROOF
<1>1. Failures = Atomic!Failures
  BY DEF Failures, Atomic!Failures, Err, Atomic!Err
<1>2. ASSUME NEW l, NEW o PROVE EagerRead(l, o) = Atomic!EagerRead(l, o)
  BY DEF EagerRead, Atomic!EagerRead, KindOf, Atomic!KindOf, EagerCell, Atomic!EagerCell,
         EagerMapGet, Atomic!EagerMapGet, EagerSetContains, Atomic!EagerSetContains,
         EagerListGet, Atomic!EagerListGet, CellRead, Atomic!CellRead,
         CellValue, Atomic!CellValue, Convert, Atomic!Convert, SomeOf, Atomic!SomeOf,
         HasKey, Atomic!HasKey, HasIndex, Atomic!HasIndex, Ok, Atomic!Ok, Err, Atomic!Err,
         Some, Atomic!Some, None, Atomic!None, Conversion, Atomic!Conversion,
         UnexpectedVariant, Atomic!UnexpectedVariant
<1> QED BY <1>1, <1>2

\* The abstract status and answer of a caller.
Status(p) ==
  CASE p = "idle" -> "idle" [] p = "waiting" -> "open"
    [] p = "answered" -> "fixed" [] OTHER -> "returned"
Statuses == [c \in Callers |-> Status(phase[c])]
AnswerOf(c) == IF phase[c] = "answered" THEN Outcome(op[c], reply[c]) ELSE result[c]
Answers == [c \in Callers |-> AnswerOf(c)]

\* A step that moves one caller's phase, op and result moves its status and its
\* answer, and nobody else's.
LEMMA MovesOneCaller ==
  ASSUME NEW c \in Callers,
         \A d \in Callers \ {c} : /\ phase'[d] = phase[d] /\ op'[d] = op[d]
                                 /\ reply'[d] = reply[d] /\ result'[d] = result[d]
  PROVE  /\ Statuses' = [Statuses EXCEPT ![c] = Status(phase'[c])]
         /\ Answers' = [Answers EXCEPT ![c] = AnswerOf(c)']
PROOF
<1>1. Statuses' = [Statuses EXCEPT ![c] = Status(phase'[c])]
  BY DEF Statuses
<1>2. \A d \in Callers \ {c} : AnswerOf(d)' = AnswerOf(d)
  BY DEF AnswerOf
<1>3. Answers' = [Answers EXCEPT ![c] = AnswerOf(c)']
  BY <1>2 DEF Answers
<1> QED BY <1>1, <1>3

LEMMA AtomicStep ==
  ASSUME "set" \notin PathErrorKinds, TypeOK, [Next]_vars
  PROVE  [Atomic!Next]_(Atomic!vars)
PROOF
<1> USE DEF Statuses, Status, Answers
<1>1. CASE CommitBlock
  <2>1. Atomic!Commit
    BY <1>1 DEF CommitBlock, Atomic!Commit
  <2> QED BY <2>1 DEF Atomic!Next
<1>2. ASSUME NEW c \in Callers, NEW o \in Ops, SendQuery(c, o) PROVE Atomic!Next
  <2>1. Atomic!Ask(c, o)
    BY <1>2, MovesOneCaller DEF SendQuery, TypeOK, Atomic!Ask, AnswerOf
  <2> QED BY <2>1 DEF Atomic!Next
<1>3. ASSUME NEW c \in Callers, NEW o \in Ops, FailToBuildPath(c, o) PROVE Atomic!Next
  <2>1. Panicked \in Atomic!Failures
    BY SameOutcomes DEF Panicked, Failures
  <2>2. Atomic!Refuse(c, o)
    BY <1>3, <2>1, MovesOneCaller DEF FailToBuildPath, TypeOK, Atomic!Refuse, AnswerOf
  <2> QED BY <2>2 DEF Atomic!Next
<1>4. ASSUME NEW c \in Callers, ProviderAnswers(c) PROVE Atomic!Next
  <2>1. op[c] \in Ops /\ Ledger \in Ledgers
    BY <1>4, LedgerType DEF ProviderAnswers, TypeOK
  <2>2. PICK r \in ProviderReplies(Ledger, op[c]) : reply' = [reply EXCEPT ![c] = r]
    BY <1>4 DEF ProviderAnswers
  <2>3. Outcome(op[c], r) \in Failures \cup {EagerRead(Ledger, op[c])}
    BY <2>1, Agreement
  <2>4. AnswerOf(c)' \in Atomic!Failures \cup {Atomic!EagerRead(chain[Len(chain)], op[c])}
    BY <1>4, <2>2, <2>3, SameOutcomes DEF ProviderAnswers, TypeOK, AnswerOf, Ledger
  <2>5. Atomic!Fix(c)
    BY <1>4, <2>4, MovesOneCaller DEF ProviderAnswers, TypeOK, Atomic!Fix, AnswerOf
  <2> QED BY <2>5 DEF Atomic!Next
<1>5. ASSUME NEW c \in Callers, Resume(c) PROVE Atomic!Next
  <2>1. phase[c] = "answered" /\ phase'[c] = "done" /\ AnswerOf(c)' = AnswerOf(c)
    BY <1>5 DEF Resume, TypeOK, AnswerOf
  <2>2. Answers' = Answers
    BY <1>5, <2>1, MovesOneCaller DEF Resume, TypeOK
  <2>3. Atomic!Return(c)
    BY <1>5, <2>1, <2>2, MovesOneCaller DEF Resume, TypeOK, Atomic!Return, AnswerOf
  <2> QED BY <2>3 DEF Atomic!Next
<1>6. ASSUME NEW c \in Callers, TakeResult(c) PROVE Atomic!Next
  <2>1. Atomic!Forget(c)
    BY <1>6, MovesOneCaller
       DEF TakeResult, TypeOK, Atomic!Forget, AnswerOf, NoOp, Atomic!NoOp,
           Pending, Atomic!Unanswered, Err, Atomic!Err
  <2> QED BY <2>1 DEF Atomic!Next
<1>7. CASE UNCHANGED vars
  BY <1>7 DEF vars, Atomic!vars
<1> QED BY <1>1, <1>2, <1>3, <1>4, <1>5, <1>6, <1>7 DEF Next, Call

\* If the RPC does not answer set queries with a per-path error, lazy reads are
\* atomic reads of the contract: they implement LedgerReads.
THEOREM LazyReadsAreAtomic ==
  ASSUME "set" \notin PathErrorKinds
  PROVE  Spec => ImplementsAtomicReads
PROOF
<1>1. TypeOK /\ [Next]_vars => [Atomic!Next]_(Atomic!vars)
  BY AtomicStep
<1> QED BY <1>1, TypeInit, TypeStep, AtomicInit, PTL
        DEF Spec, ImplementsAtomicReads, Atomic!Spec
=============================================================================
