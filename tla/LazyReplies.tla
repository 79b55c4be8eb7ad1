----------------------------- MODULE LazyReplies -----------------------------
(***************************************************************************)
(* One result of the node's query_contract_state RPC and what the lazy     *)
(* accessors make of it.                                                   *)
(***************************************************************************)
EXTENDS StateTree

-----------------------------------------------------------------------------
(* The node (external): each path element is an array index or a map key,  *)
(* "depending on the StateValue variant at each level".                    *)

QueryResult(value, error) == [value |-> value, error |-> error]
PathError == QueryResult(None, TRUE)
Garbled == [tag |-> "Garbled"]   \* a string no StateValue serializes to

Descend(sv, k) ==
  IF HasKey(sv, k) THEN QueryResult(Some(sv.map[k]), FALSE)
  ELSE IF HasIndex(sv, k) THEN QueryResult(Some(sv.arr[k + 1]), FALSE)
  ELSE IF sv.tag \in {"Map", "Array"} THEN QueryResult(None, FALSE)
  ELSE PathError

-----------------------------------------------------------------------------
(* The accessors. *)

\* Wrong on purpose: the per-path error is not looked at.
DecodeIgnoringErrors(r) ==
  IF r.value = None THEN Err("NoValue") ELSE Ok(r.value[1])

DecodeStateValue(r) ==
  IF r.error THEN Err("QueryFailed")
  ELSE IF r.value = None THEN Err("NoValue")
  ELSE IF r.value[1].tag = "Garbled" THEN Err("Deserialize")
  ELSE Ok(r.value[1])

\* decode, cell_value, try_from: cells and counters.
LazyCell(r, T) ==
  LET sv == DecodeStateValue(r) IN IF sv.ok THEN CellRead(sv.val, T) ELSE sv

\* Wrong on purpose: a missing value is an absence whether or not the RPC
\* reported an error.
EntryIgnoringErrors(r, T) ==
  IF r.value = None THEN Ok(None) ELSE SomeOf(LazyCell(r, T))

\* Wrong on purpose: the check for an absent key is forgotten.
EntryWithoutAbsence(r, T) == SomeOf(LazyCell(r, T))

\* Map values and list elements: no value and no error means not there.
LazyEntry(r, T) ==
  IF r.value = None /\ ~r.error THEN Ok(None) ELSE SomeOf(LazyCell(r, T))

\* Members are stored with a Null value, which is not decoded.
LazyMember(r) == Ok(r.value # None)
=============================================================================
