--------------------------- MODULE IdempotencyCache ---------------------------
(***************************************************************************)
(* IdempotencyCache of safa-core/src/idempotency.rs as the handlers of the *)
(* daemon drive it.  The entries live in a sharded map: retain and len     *)
(* visit the shards one at a time, each under its own lock, and only the   *)
(* entry() operation at the end of check_or_insert holds a lock across its *)
(* test and its update.  Every step of this module is one such critical    *)
(* section.                                                                *)
(*                                                                         *)
(* A thread that was answered New owns the key: it runs the action and     *)
(* ends with complete(), or is dropped before it gets there.  A thread     *)
(* that was answered Full calls remove() (safa-daemon/src/server.rs, the   *)
(* Full arm of handle_action).                                             *)
(***************************************************************************)
EXTENDS Integers, FiniteSets

CONSTANTS
    Keys,         \* idempotency keys (validated UUIDs)
    Threads,      \* concurrent handlers
    Results,      \* response bodies
    NoResult,     \* None, the result of an entry in flight
    NumShards,    \* shards of the DashMap
    ShardOf,      \* ShardOf[k]: the shard that holds key k
    MaxEntries,   \* max_entries
    TTL,          \* ttl, in ticks of the clock
    MaxTime       \* bound on the clock (model checking only)

ASSUME CacheAssumption ==
    /\ IsFiniteSet(Keys) /\ IsFiniteSet(Threads)
    /\ NoResult \notin Results
    /\ NumShards \in Nat \ {0}
    /\ ShardOf \in [Keys -> 1..NumShards]
    /\ MaxEntries \in Nat \ {0}
    /\ TTL \in Nat \ {0}
    /\ MaxTime \in Nat

VARIABLES
    now,       \* the monotonic clock
    entries,   \* entries[k]: the CacheEntry of k, or NoEntry
    pc,        \* pc[t]: where thread t is
    key,       \* key[t]: the key t was called with
    asOf,      \* asOf[t]: the instant purge_expired sampled
    shard,     \* shard[t]: the next shard retain or len will visit
    count,     \* count[t]: the sum len has accumulated
    since,     \* since[t]: when t's reservation was made, if t is an owner
    robbed     \* history: the owners whose entry was deleted by remove()

cacheVars == <<now, entries, pc, key, asOf, shard, count, since, robbed>>

NoEntry == [present |-> FALSE]

Entry == [present : {TRUE}, createdAt : Nat, inFlight : BOOLEAN, result : Results \cup {NoResult}]

PCs == {"idle", "purge", "len", "entry", "owner", "full", "cached", "conflict"}

TypeOK ==
    /\ now \in Nat
    /\ entries \in [Keys -> Entry \cup {NoEntry}]
    /\ pc \in [Threads -> PCs]
    /\ key \in [Threads -> Keys]
    /\ asOf \in [Threads -> Nat]
    /\ shard \in [Threads -> 1..NumShards]
    /\ count \in [Threads -> Nat]
    /\ since \in [Threads -> Nat]
    /\ robbed \in SUBSET Threads

Present(k) == entries[k].present

Reserved(t) == [present |-> TRUE, createdAt |-> t, inFlight |-> TRUE, result |-> NoResult]

Init ==
    /\ now = 0
    /\ entries = [k \in Keys |-> NoEntry]
    /\ pc = [t \in Threads |-> "idle"]
    /\ key \in [Threads -> Keys]
    /\ asOf = [t \in Threads |-> 0]
    /\ shard = [t \in Threads |-> 1]
    /\ count = [t \in Threads |-> 0]
    /\ since = [t \in Threads |-> 0]
    /\ robbed = {}

\* check_or_insert is called; purge_expired samples the clock.
Begin(t, k) ==
    /\ pc[t] = "idle"
    /\ key' = [key EXCEPT ![t] = k]
    /\ asOf' = [asOf EXCEPT ![t] = now]
    /\ pc' = [pc EXCEPT ![t] = "purge"]
    /\ UNCHANGED <<now, entries, shard, count, since, robbed>>

\* Mutant: the purge drops entries a tick too soon.
StaleEarly(k, t) == Present(k) /\ asOf[t] - entries[k].createdAt >= TTL - 1

\* retain drops the entry: its age at the sampled instant has reached ttl.
Stale(k, t) == Present(k) /\ asOf[t] - entries[k].createdAt >= TTL

\* Visit shard[t] and move to the next one, or to pc next after the last.
NextShard(t, next) ==
    IF shard[t] = NumShards
    THEN shard' = [shard EXCEPT ![t] = 1] /\ pc' = [pc EXCEPT ![t] = next]
    ELSE shard' = [shard EXCEPT ![t] = @ + 1] /\ UNCHANGED pc

PurgeShard(t) ==
    /\ pc[t] = "purge"
    /\ entries' = [k \in Keys |->
                     IF ShardOf[k] = shard[t] /\ Stale(k, t) THEN NoEntry ELSE entries[k]]
    /\ NextShard(t, "len")
    /\ UNCHANGED <<now, key, asOf, count, since, robbed>>

LenShard(t) ==
    /\ pc[t] = "len"
    /\ count' = [count EXCEPT ![t] =
                   @ + Cardinality({k \in Keys : Present(k) /\ ShardOf[k] = shard[t]})]
    /\ NextShard(t, "entry")
    /\ UNCHANGED <<now, entries, key, asOf, since, robbed>>

\* Mutant: one entry too many.
AtCapacityLate(t) == count[t] > MaxEntries

\* The snapshot taken before the entry lock.
AtCapacity(t) == count[t] >= MaxEntries

\* Mutant: an entry is overwritten a tick too soon.
ExpiredEarly(k) == now - entries[k].createdAt >= TTL - 1

Expired(k) == now - entries[k].createdAt > TTL

\* ABSENT -> IN_FLIGHT, or an expired entry overwritten in place: t is the owner.
TakeOwnership(t) ==
    /\ pc[t] = "entry"
    /\ IF Present(key[t]) THEN Expired(key[t]) ELSE ~AtCapacity(t)
    /\ entries' = [entries EXCEPT ![key[t]] = Reserved(now)]
    /\ since' = [since EXCEPT ![t] = now]
    /\ pc' = [pc EXCEPT ![t] = "owner"]
    /\ UNCHANGED robbed

\* The answers that leave the map alone.
Decline(t) ==
    /\ pc[t] = "entry"
    /\ \/ /\ ~Present(key[t])
          /\ AtCapacity(t)
          /\ pc' = [pc EXCEPT ![t] = "full"]
       \/ /\ Present(key[t])
          /\ ~Expired(key[t])
          /\ pc' = [pc EXCEPT ![t] =
                      IF ~entries[key[t]].inFlight /\ entries[key[t]].result # NoResult
                      THEN "cached" ELSE "conflict"]
    /\ UNCHANGED <<entries, since, robbed>>

\* The match on entry(key), one critical section; the locals of check_or_insert
\* are gone after it.
CheckEntry(t) ==
    /\ TakeOwnership(t) \/ Decline(t)
    /\ count' = [count EXCEPT ![t] = 0]
    /\ asOf' = [asOf EXCEPT ![t] = 0]
    /\ UNCHANGED <<now, key, shard>>

\* t no longer runs the action.
Disown(t) ==
    /\ pc' = [pc EXCEPT ![t] = "idle"]
    /\ since' = [since EXCEPT ![t] = 0]
    /\ robbed' = robbed \ {t}

\* complete(key, result): whatever entry the key has now becomes DONE.
Complete(t, r) ==
    /\ pc[t] = "owner"
    /\ entries' = IF Present(key[t])
                  THEN [entries EXCEPT ![key[t]].inFlight = FALSE, ![key[t]].result = r]
                  ELSE entries
    /\ Disown(t)
    /\ UNCHANGED <<now, key, asOf, shard, count>>

\* The owner's future is dropped before it completes the key.
Abandon(t) ==
    /\ pc[t] = "owner"
    /\ Disown(t)
    /\ UNCHANGED <<now, entries, key, asOf, shard, count>>

\* remove(key), which handle_action calls when it was answered Full.
RemoveAfterFull(t) ==
    /\ pc[t] = "full"
    /\ entries' = [entries EXCEPT ![key[t]] = NoEntry]
    /\ robbed' = robbed \cup
                   {o \in Threads : pc[o] = "owner" /\ key[o] = key[t] /\ Present(key[t])}
    /\ pc' = [pc EXCEPT ![t] = "idle"]
    /\ UNCHANGED <<now, key, asOf, shard, count, since>>

\* Mutant: the key is removed whenever the answer was not New.
LeaveAndRemove(t) ==
    /\ pc[t] \in {"cached", "conflict"}
    /\ entries' = [entries EXCEPT ![key[t]] = NoEntry]
    /\ pc' = [pc EXCEPT ![t] = "idle"]
    /\ UNCHANGED <<now, key, asOf, shard, count, since, robbed>>

\* A replayed or conflicting request is answered.
Leave(t) ==
    /\ pc[t] \in {"cached", "conflict"}
    /\ pc' = [pc EXCEPT ![t] = "idle"]
    /\ UNCHANGED <<now, entries, key, asOf, shard, count, since, robbed>>

Tick ==
    /\ now < MaxTime
    /\ now' = now + 1
    /\ UNCHANGED <<entries, pc, key, asOf, shard, count, since, robbed>>

Step(t) ==
    \/ \E k \in Keys : Begin(t, k)
    \/ PurgeShard(t)
    \/ LenShard(t)
    \/ CheckEntry(t)
    \/ \E r \in Results : Complete(t, r)
    \/ Abandon(t)
    \/ RemoveAfterFull(t)
    \/ Leave(t)

Next == Tick \/ \E t \in Threads : Step(t)

Spec == Init /\ [][Next]_cacheVars

-------------------------------------------------------------------------------
(* Properties *)

Owner(t) == pc[t] = "owner"

\* An owner whose reservation the TTL still protects.
Protected(t) == Owner(t) /\ now - since[t] < TTL

\* Exactly one execution owns a key: two requests never hold the same key while
\* both reservations are younger than the TTL, unless remove() deleted the
\* reservation of one of them (I1 and I2 of check_or_insert, and the one way
\* the callers void them).
ExclusiveOwnership ==
    \A s, t \in Threads :
        s # t /\ Protected(s) /\ Protected(t) /\ key[s] = key[t] =>
            s \in robbed \/ t \in robbed

\* A protected owner's reservation is in the map, with the owner's own instant:
\* a retry that arrives meanwhile finds it.
ReservationHeld ==
    \A t \in Threads :
        Protected(t) /\ t \notin robbed =>
            Present(key[t]) /\ entries[key[t]].createdAt = since[t]

\* What makes the two inductive: the clock bounds every sampled instant.
CacheInv ==
    /\ ExclusiveOwnership
    /\ ReservationHeld
    /\ \A t \in Threads : asOf[t] <= now /\ since[t] <= now
    /\ \A t \in robbed : Owner(t)

Size == Cardinality({k \in Keys : Present(k)})

\* The capacity test uses a snapshot taken before the entry lock, so the map can
\* grow past max_entries, but by no more than the other concurrent callers.
BoundedOvershoot == Size <= MaxEntries + Cardinality(Threads) - 1

Done(k) == Present(k) /\ ~entries[k].inFlight

\* An owner whose reservation is expired or deleted: its complete(), which checks
\* no ownership, may hit an entry that is someone else's.
Dispossessed(t) == Owner(t) /\ (~Protected(t) \/ t \in robbed)

\* DONE is final: while it is younger than the TTL a completed entry keeps its
\* result, so every retry replays the same body.  What can change it is a
\* remove() after Full, the completion of a dispossessed owner, and, if such a
\* completion made the entry DONE too early, the completion of its true owner.
DoneIsFinal ==
    [][\A k \in Keys :
          /\ Done(k) /\ now - entries[k].createdAt < TTL
          /\ \A t \in Threads : Owner(t) /\ key[t] = k => Dispossessed(t)
          => \/ entries'[k] = entries[k]
             \/ \E t \in Threads : /\ key[t] = k /\ pc'[t] = "idle"
                                   /\ Dispossessed(t) \/ pc[t] = "full"]_cacheVars

\* The abstract key: the result and the shard it is in are left out.
StatusOf(k) ==
    IF ~Present(k) THEN "free" ELSE IF entries[k].inFlight THEN "in_flight" ELSE "done"

ReservedAtOf(k) == IF Present(k) THEN entries[k].createdAt ELSE 0

Ownership == INSTANCE KeyOwnership WITH
    status     <- [k \in Keys |-> StatusOf(k)],
    reservedAt <- [k \in Keys |-> ReservedAtOf(k)]

\* The sharded map, with its purge by an old instant, its capacity test by an old
\* length and its completion of any entry, keeps the promise of KeyOwnership: it
\* never gives a key away that was neither removed nor reserved a TTL ago.
ImplementsOwnership == Ownership!Spec
================================================================================
