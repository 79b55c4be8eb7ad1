----------------------------- MODULE LedgerReads -----------------------------
(***************************************************************************)
(* What a typed read of a contract promises, whatever transport serves it: *)
(* between the call and its return there is one instant at which the       *)
(* answer is fixed, and the answer is what the eager wrapper loaded at     *)
(* that instant would have returned, or a failure that is not an answer.   *)
(***************************************************************************)
EXTENDS ContractSchema

CONSTANTS Callers, MaxBlocks

VARIABLES chain,   \* the ledgers committed so far, oldest first
          status,  \* status[c]: how far caller c's read has come
          asked,   \* asked[c]: the read it asked for
          answer   \* answer[c]: the outcome, once fixed

vars == <<chain, status, asked, answer>>

\* Outcomes that say nothing about the ledger.  "Panicked" is the unwinding
\* of the calling task rather than an Err.
Failures == {Err(e) : e \in {"Provider", "QueryFailed", "Deserialize", "Panicked"}}

Unanswered == Err("Pending")
NoOp == [field |-> "none", arg |-> 0]

Init ==
  /\ \E l \in Ledgers : chain = <<l>>
  /\ status = [c \in Callers |-> "idle"]
  /\ asked = [c \in Callers |-> NoOp]
  /\ answer = [c \in Callers |-> Unanswered]

Commit ==
  /\ Len(chain) < MaxBlocks
  /\ \E l \in Ledgers : chain' = Append(chain, l)
  /\ UNCHANGED <<status, asked, answer>>

Ask(c, o) ==
  /\ status[c] = "idle"
  /\ status' = [status EXCEPT ![c] = "open"]
  /\ asked' = [asked EXCEPT ![c] = o]
  /\ UNCHANGED <<chain, answer>>

\* A call may fail before it ever looks at the ledger.
Refuse(c, o) ==
  /\ status[c] = "idle"
  /\ status' = [status EXCEPT ![c] = "returned"]
  /\ asked' = [asked EXCEPT ![c] = o]
  /\ \E r \in Failures : answer' = [answer EXCEPT ![c] = r]
  /\ UNCHANGED chain

\* The instant the read takes effect.
Fix(c) ==
  /\ status[c] = "open"
  /\ status' = [status EXCEPT ![c] = "fixed"]
  /\ \E r \in Failures \cup {EagerRead(chain[Len(chain)], asked[c])} :
       answer' = [answer EXCEPT ![c] = r]
  /\ UNCHANGED <<chain, asked>>

Return(c) ==
  /\ status[c] = "fixed"
  /\ status' = [status EXCEPT ![c] = "returned"]
  /\ UNCHANGED <<chain, asked, answer>>

Forget(c) ==
  /\ status[c] = "returned"
  /\ status' = [status EXCEPT ![c] = "idle"]
  /\ asked' = [asked EXCEPT ![c] = NoOp]
  /\ answer' = [answer EXCEPT ![c] = Unanswered]
  /\ UNCHANGED chain

Next ==
  \/ Commit
  \/ \E c \in Callers : \/ \E o \in Ops : Ask(c, o) \/ Refuse(c, o)
                        \/ Fix(c) \/ Return(c) \/ Forget(c)

Spec == Init /\ [][Next]_vars
=============================================================================
