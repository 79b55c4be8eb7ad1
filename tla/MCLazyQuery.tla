----------------------------- MODULE MCLazyQuery -----------------------------
(***************************************************************************)
(* A contract with one field of each storage kind.  Values 0..2 convert to *)
(* the fields' types, 9 does not.  MaxIndexKey stands for 255: index 2 is  *)
(* the first the u8 key encoding refuses.                                  *)
(***************************************************************************)
EXTENDS LazyQuery, TLC

CONSTANTS c1, c2

MCCallers == {c1, c2}
MCFields == {"authority", "round", "raw", "jobs", "committed", "items"}
MCKind == [authority |-> "cell", round |-> "counter", raw |-> "untyped",
           jobs |-> "map", committed |-> "set", items |-> "list"]
MCType == [f \in MCFields |-> 0..2]

Read(f, k) == [field |-> f, arg |-> k]

\* Every kind, with keys that are always, sometimes and never present.
MCOps == {Read("authority", 0), Read("round", 0), Read("raw", 0), Read("jobs", 0),
          Read("jobs", 1), Read("committed", 1), Read("items", 1), Read("items", 2)}

\* For the runs that look at one kind at a time.
SetOps == {Read("committed", k) : k \in 0..2}
ListOps == {Read("items", k) : k \in 0..3}

Genesis == [authority |-> Cell(1), round |-> Cell(0), raw |-> Null,
            jobs |-> MapOf([k \in {0} |-> Cell(1)]),
            committed |-> MapOf([k \in {0} |-> Null]),
            items |-> ArrayOf(<<Cell(0)>>)]

\* Entries added, a value overwritten.
Grown == [authority |-> Cell(2), round |-> Cell(1), raw |-> Cell(1),
          jobs |-> MapOf([k \in {0, 1} |-> Cell(k)]),
          committed |-> MapOf([k \in {0, 1} |-> Null]),
          items |-> ArrayOf(<<Cell(0), Cell(2)>>)]

\* Entries removed, and contents that do not convert or are not cells.
Odd == [authority |-> Cell(9), round |-> Cell(2), raw |-> MapOf([k \in {} |-> Null]),
        jobs |-> MapOf([k \in {1} |-> Null]),
        committed |-> MapOf([k \in {1} |-> Null]),
        items |-> ArrayOf(<<Cell(9), Cell(9)>>)]

MCLedgers == {Genesis, Grown, Odd}
TwoLedgers == {Genesis, Grown}

AllFaults == {"fail", "empty", "garble"}
NoFaults == {}
ButSets == Kinds \ {"set"}
NoKind == {}

Symmetry == Permutations(MCCallers)
=============================================================================
