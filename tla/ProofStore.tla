------------------------------ MODULE ProofStore ------------------------------
(***************************************************************************)
(* ProofStore of safa-core/src/audit.rs: a bounded map, under a mutex,     *)
(* from action ids to records.  A record is its timestamp here, in whole   *)
(* seconds of the wall clock as timestamp_now cuts it; the verdicts are in *)
(* HandleAction.                                                           *)
(***************************************************************************)
EXTENDS Naturals, FiniteSets, Functions

CONSTANT MaxRecords    \* max_entries

VARIABLE records

StoreInit == records = [i \in {} |-> 0]

\* Mutant: any record may go, as the first of an unordered map would.
EvictableAny == DOMAIN records

\* The records with the smallest timestamp: min_by takes any one of them.
Evictable == {i \in DOMAIN records : \A j \in DOMAIN records : records[i] <= records[j]}

Full == Cardinality(DOMAIN records) >= MaxRecords

\* insert, with id i new to the map.
Insert(i, second) ==
    LET With(kept) == [j \in kept \cup {i} |-> IF j = i THEN second ELSE records[j]]
    IN  \/ ~Full /\ records' = With(DOMAIN records)
        \/ Full /\ \E old \in Evictable : records' = With(DOMAIN records \ {old})

Holds(i) == i \in DOMAIN records
================================================================================
