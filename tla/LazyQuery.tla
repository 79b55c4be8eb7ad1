------------------------------ MODULE LazyQuery ------------------------------
(***************************************************************************)
(* The generated {Name}Query<P> wrapper: async accessors that read one     *)
(* ledger field, map entry, set member or list element over the node's     *)
(* query_contract_state RPC, while the contract's state moves on.          *)
(*                                                                         *)
(* The handle keeps no state between calls (every accessor takes &self),   *)
(* so a call is: build the query path, await the provider, decode.  The    *)
(* provider and the chain are external; the provider is modelled by the    *)
(* StateQueryProvider trait and the uses the accessors make of its result. *)
(***************************************************************************)
EXTENDS ContractSchema, LazyReplies

CONSTANTS
  Callers,         \* tasks that issue lazy reads, one at a time each
  MaxBlocks,       \* bound: ledgers committed during a behaviour
  Faults,          \* what the provider may do instead of answering
  PathErrorKinds   \* storage kinds whose queries the RPC may answer with an error

ASSUME ProviderAssumption ==
  /\ Faults \subseteq {"fail", "empty", "garble"}
  /\ PathErrorKinds \subseteq Kinds
  /\ MaxBlocks \in Nat \ {0}

VARIABLES
  chain,   \* the ledgers committed so far, oldest first
  phase,   \* phase[c]: idle, waiting (in .await), answered, done
  op,      \* op[c]: the read caller c last asked for
  since,   \* since[c]: how many ledgers were committed when it asked
  reply,   \* reply[c]: Result<Vec<StateQueryResult>> of the provider
  result   \* result[c]: the outcome of the accessor

vars == <<chain, phase, op, since, reply, result>>

NoOp == [field |-> "none", arg |-> 0]
Pending == Err("Pending")
Panicked == Err("Panicked")
Failures == {Err(e) : e \in {"Provider", "QueryFailed", "Deserialize", "Panicked"}}

Ledger == chain[Len(chain)]

TypeOK ==
  /\ chain \in Seq(Ledgers) /\ Len(chain) \in 1..MaxBlocks
  /\ phase \in [Callers -> {"idle", "waiting", "answered", "done"}]
  /\ op \in [Callers -> Ops \cup {NoOp}]
  /\ \A c \in Callers : phase[c] # "idle" => op[c] \in Ops
  /\ since \in [Callers -> 1..Len(chain)]
  /\ DOMAIN reply = Callers /\ DOMAIN result = Callers

-----------------------------------------------------------------------------
(* The provider (external). *)

\* Map, set and list accessors push one element onto the field's path.
NodeReply(l, o) ==
  IF KindOf(o) \in {"map", "set", "list"}
  THEN Descend(l[o.field], o.arg)
  ELSE QueryResult(Some(l[o.field]), FALSE)

Garble(r) == IF r.value = None THEN r ELSE [r EXCEPT !.value = Some(Garbled)]

ProviderReplies(l, o) ==
  {Ok(<<NodeReply(l, o)>>)}
  \cup (IF KindOf(o) \in PathErrorKinds THEN {Ok(<<PathError>>)} ELSE {})
  \cup (IF "garble" \in Faults THEN {Ok(<<Garble(NodeReply(l, o))>>)} ELSE {})
  \cup (IF "empty" \in Faults THEN {Ok(<< >>)} ELSE {})
  \cup (IF "fail" \in Faults THEN {Err("Provider")} ELSE {})

-----------------------------------------------------------------------------
(* The accessors. *)

\* The code after the .await; results[0] panics when there is no element.
Outcome(o, results) ==
  IF ~results.ok THEN Err("Provider")
  ELSE IF results.val = << >> THEN Panicked
  ELSE LET r == results.val[1]
           T == Type[o.field]
       IN CASE KindOf(o) \in {"cell", "counter"} -> LazyCell(r, T)
            [] KindOf(o) \in {"map", "list"} -> LazyEntry(r, T)
            [] KindOf(o) = "set" -> LazyMember(r)
            [] OTHER -> DecodeStateValue(r)

\* index_to_query_key on a list index that does not fit in a u8.
PathPanics(o) == KindOf(o) = "list" /\ o.arg > MaxIndexKey

-----------------------------------------------------------------------------
Init ==
  /\ \E l \in Ledgers : chain = <<l>>
  /\ phase = [c \in Callers |-> "idle"]
  /\ op = [c \in Callers |-> NoOp]
  /\ since = [c \in Callers |-> 1]
  /\ reply = [c \in Callers |-> Pending]
  /\ result = [c \in Callers |-> Pending]

\* A block changes the contract's state (external).
CommitBlock ==
  /\ Len(chain) < MaxBlocks
  /\ \E l \in Ledgers : chain' = Append(chain, l)
  /\ UNCHANGED <<phase, op, since, reply, result>>

\* Wrong on purpose: the handle keeps one query and forgets to replace it.
SendStaleQuery(c, o) ==
  /\ phase[c] = "idle"
  /\ ~PathPanics(o)
  /\ phase' = [phase EXCEPT ![c] = "waiting"]
  /\ since' = [since EXCEPT ![c] = Len(chain)]
  /\ UNCHANGED <<chain, op, reply, result>>

\* First poll of the accessor's future: the path is built and sent.
SendQuery(c, o) ==
  /\ phase[c] = "idle"
  /\ ~PathPanics(o)
  /\ phase' = [phase EXCEPT ![c] = "waiting"]
  /\ op' = [op EXCEPT ![c] = o]
  /\ since' = [since EXCEPT ![c] = Len(chain)]
  /\ UNCHANGED <<chain, reply, result>>

FailToBuildPath(c, o) ==
  /\ phase[c] = "idle"
  /\ PathPanics(o)
  /\ phase' = [phase EXCEPT ![c] = "done"]
  /\ op' = [op EXCEPT ![c] = o]
  /\ since' = [since EXCEPT ![c] = Len(chain)]
  /\ result' = [result EXCEPT ![c] = Panicked]
  /\ UNCHANGED <<chain, reply>>

\* The provider answers from the ledger of this instant, or fails (external).
ProviderAnswers(c) ==
  /\ phase[c] = "waiting"
  /\ \E r \in ProviderReplies(Ledger, op[c]) : reply' = [reply EXCEPT ![c] = r]
  /\ phase' = [phase EXCEPT ![c] = "answered"]
  /\ UNCHANGED <<chain, op, since, result>>

\* Wrong on purpose: a failed request is sent again, as often as it takes.
ResumeRetrying(c) ==
  /\ phase[c] = "answered"
  /\ IF reply[c].ok
     THEN /\ result' = [result EXCEPT ![c] = Outcome(op[c], reply[c])]
          /\ phase' = [phase EXCEPT ![c] = "done"]
     ELSE /\ phase' = [phase EXCEPT ![c] = "waiting"]
          /\ UNCHANGED result
  /\ UNCHANGED <<chain, op, since, reply>>

\* The executor polls the future again: everything after the .await.
Resume(c) ==
  /\ phase[c] = "answered"
  /\ result' = [result EXCEPT ![c] = Outcome(op[c], reply[c])]
  /\ phase' = [phase EXCEPT ![c] = "done"]
  /\ UNCHANGED <<chain, op, since, reply>>

\* The caller takes the outcome and is free to call again.
TakeResult(c) ==
  /\ phase[c] = "done"
  /\ phase' = [phase EXCEPT ![c] = "idle"]
  /\ op' = [op EXCEPT ![c] = NoOp]
  /\ since' = [since EXCEPT ![c] = 1]
  /\ reply' = [reply EXCEPT ![c] = Pending]
  /\ result' = [result EXCEPT ![c] = Pending]
  /\ UNCHANGED chain

Call(c, o) == SendQuery(c, o) \/ FailToBuildPath(c, o)

Next ==
  \/ CommitBlock
  \/ \E c \in Callers : \/ \E o \in Ops : Call(c, o)
                        \/ ProviderAnswers(c)
                        \/ Resume(c)
                        \/ TakeResult(c)

Spec == Init /\ [][Next]_vars

\* The provider eventually settles each request and the executor eventually
\* polls a future that is ready.  Nothing forces callers or blocks to go on.
Fairness == \A c \in Callers : WF_vars(ProviderAnswers(c)) /\ WF_vars(Resume(c))

FairSpec == Spec /\ Fairness

-----------------------------------------------------------------------------
(* Properties. *)

\* The versions of the ledger a read of c may report: those committed from
\* its call to now.
Window(c) == since[c]..Len(chain)

EagerAnswers(c) == {EagerRead(chain[v], op[c]) : v \in Window(c)}

\* A lazy read that returns a value, an absence or a decoding error returns
\* what the eager wrapper would have returned for a state the contract really
\* had between the call and its return: transport failures are never turned
\* into ledger contents.  A negative set answer is judged on its own below.
ReadsCommittedState ==
  \A c \in Callers : phase[c] = "done" =>
    \/ result[c] \in Failures \cup EagerAnswers(c)
    \/ KindOf(op[c]) = "set" /\ result[c] = Ok(FALSE)

\* The eager and the lazy wrapper, generated by different templates and
\* decoding different data, agree on every field, key and index: when the
\* provider answers the query from a ledger, the outcome is the eager one.
EagerAndLazyAgree ==
  \A c \in Callers, v \in 1..Len(chain) :
    phase[c] = "done" /\ reply[c] = Ok(<<NodeReply(chain[v], op[c])>>)
      => result[c] = EagerRead(chain[v], op[c])

\* "Set membership returns `true` if the key exists" (docs/SPEC.md): a caller
\* that is told a key is not a member can rely on it.
SetAbsenceIsGenuine ==
  \A c \in Callers :
    phase[c] = "done" /\ KindOf(op[c]) = "set" /\ result[c] = Ok(FALSE)
      => Ok(FALSE) \in EagerAnswers(c)

\* "List access returns `None` for out-of-bounds indices" (docs/SPEC.md), as
\* the eager accessor does: it does not unwind the caller's task.
OutOfBoundsListReadIsNone ==
  \A c \in Callers :
    phase[c] = "done" /\ KindOf(op[c]) = "list" /\ EagerAnswers(c) = {Ok(None)}
      => result[c] \in {Ok(None)} \cup (Failures \ {Panicked})

\* Every read that was sent comes to an end, however blocks and the other
\* callers interleave with it: the accessors neither retry nor wait twice.
CallsSettle == \A c \in Callers : phase[c] = "waiting" ~> phase[c] = "done"

-----------------------------------------------------------------------------
(* The transport implements atomic reads: a read takes effect when the node *)
(* evaluates it, and its answer is what the accessor will make of the reply. *)
Atomic == INSTANCE LedgerReads WITH
  status <- [c \in Callers |->
              CASE phase[c] = "idle" -> "idle"
                [] phase[c] = "waiting" -> "open"
                [] phase[c] = "answered" -> "fixed"
                [] OTHER -> "returned"],
  asked  <- op,
  answer <- [c \in Callers |->
              IF phase[c] = "answered" THEN Outcome(op[c], reply[c]) ELSE result[c]]

\* Lazy reads are atomic reads of the contract (where the RPC does not answer
\* set queries with a per-path error).
ImplementsAtomicReads == Atomic!Spec
=============================================================================
