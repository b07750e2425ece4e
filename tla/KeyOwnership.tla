----------------------------- MODULE KeyOwnership -----------------------------
(***************************************************************************)
(* What an idempotency cache promises its callers, whatever its size and   *)
(* its shards: a key is free, in flight or done, and one that was reserved *)
(* becomes free, or is reserved again, only once its reservation is a TTL  *)
(* old or the key is removed.  IdempotencyCache implements this; Daemon    *)
(* builds on it.                                                           *)
(***************************************************************************)
EXTENDS Naturals

CONSTANTS
    Keys,     \* idempotency keys
    TTL,      \* ttl, in ticks of the clock
    MaxTime   \* bound on the clock (model checking only)

VARIABLES
    now,          \* the monotonic clock
    status,       \* status[k]
    reservedAt    \* reservedAt[k]: when k was reserved last, 0 while it is free

ownership == <<now, status, reservedAt>>

Statuses == {"free", "in_flight", "done"}

Init ==
    /\ now = 0
    /\ status = [k \in Keys |-> "free"]
    /\ reservedAt = [k \in Keys |-> 0]

Age(k) == now - reservedAt[k]

Expirable(k) == status[k] # "free" /\ Age(k) >= TTL

\* Mutant: a key that is done may be had again.
AvailableWhenDone(k) == status[k] \in {"free", "done"} \/ Expirable(k)

Available(k) == status[k] = "free" \/ Expirable(k)

\* The caller is answered New.
Reserve(k) ==
    /\ Available(k)
    /\ status' = [status EXCEPT ![k] = "in_flight"]
    /\ reservedAt' = [reservedAt EXCEPT ![k] = now]
    /\ UNCHANGED now

\* complete: it is not asked who owns the key, or whether anyone does.
Commit(k) ==
    /\ status' = IF status[k] = "free" THEN status ELSE [status EXCEPT ![k] = "done"]
    /\ UNCHANGED <<now, reservedAt>>

\* The keys in S are free.
Release(S) ==
    /\ status' = [k \in Keys |-> IF k \in S THEN "free" ELSE status[k]]
    /\ reservedAt' = [k \in Keys |-> IF k \in S THEN 0 ELSE reservedAt[k]]
    /\ UNCHANGED now

\* A purge, of as many expired entries as it finds.
Expire(S) == (\A k \in S : Expirable(k)) /\ Release(S)

Remove(k) == Release({k})

Tick ==
    /\ now < MaxTime
    /\ now' = now + 1
    /\ UNCHANGED <<status, reservedAt>>

Next ==
    \/ Tick
    \/ \E k \in Keys : Reserve(k) \/ Commit(k) \/ Remove(k)
    \/ \E S \in SUBSET Keys : Expire(S)

Spec == Init /\ [][Next]_ownership
================================================================================
