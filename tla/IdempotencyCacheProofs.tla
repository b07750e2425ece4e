------------------------ MODULE IdempotencyCacheProofs ------------------------
(* Proofs about IdempotencyCache, for every number of keys, threads and      *)
(* shards, every capacity and every TTL.                                     *)
EXTENDS IdempotencyCache, FiniteSetTheorems, TLAPS

\* len adds a natural number per shard.
LEMMA ShardSize ==
    \A S \in SUBSET Keys : Cardinality(S) \in Nat
  BY FS_Subset, FS_CardinalityType, CacheAssumption

\* A step of retain or len leaves its thread at a shard and at a known place.
LEMMA NextShardType ==
    ASSUME TypeOK, NEW t \in Threads, NEW next \in PCs, NextShard(t, next)
    PROVE  shard' \in [Threads -> 1..NumShards] /\ pc' \in [Threads -> PCs]
  BY CacheAssumption DEF TypeOK, NextShard

\* Types of all variables.
LEMMA TypePreserved ==
    ASSUME TypeOK, [Next]_cacheVars
    PROVE  TypeOK'
<1>1. CASE UNCHANGED cacheVars
  BY <1>1 DEF cacheVars, TypeOK
<1>2. CASE Tick
  BY <1>2 DEF Tick, TypeOK
<1>3. ASSUME NEW t \in Threads, NEW k \in Keys, Begin(t, k)
      PROVE  TypeOK'
  BY <1>3 DEF Begin, TypeOK, PCs
<1>4. ASSUME NEW t \in Threads, PurgeShard(t)
      PROVE  TypeOK'
  <2>1. entries' \in [Keys -> Entry \cup {NoEntry}]
    BY <1>4 DEF PurgeShard, TypeOK
  <2>2. shard' \in [Threads -> 1..NumShards] /\ pc' \in [Threads -> PCs]
    BY <1>4, NextShardType DEF PurgeShard, PCs
  <2> QED
    BY <1>4, <2>1, <2>2 DEF PurgeShard, TypeOK
<1>5. ASSUME NEW t \in Threads, LenShard(t)
      PROVE  TypeOK'
  <2> DEFINE S == {k \in Keys : Present(k) /\ ShardOf[k] = shard[t]}
  <2>1. Cardinality(S) \in Nat
    BY ShardSize
  <2>2. shard' \in [Threads -> 1..NumShards] /\ pc' \in [Threads -> PCs]
    BY <1>5, NextShardType DEF LenShard, PCs
  <2>3. count' = [count EXCEPT ![t] = @ + Cardinality(S)]
    BY <1>5 DEF LenShard
  <2> HIDE DEF S
  <2>4. count' \in [Threads -> Nat]
    BY <2>1, <2>3 DEF TypeOK
  <2> QED
    BY <1>5, <2>2, <2>4 DEF LenShard, TypeOK
<1>6. ASSUME NEW t \in Threads, CheckEntry(t)
      PROVE  TypeOK'
  <2>1. CASE TakeOwnership(t)
    <3>1. Reserved(now) \in Entry
      BY DEF TypeOK, Reserved, Entry
    <3> QED
      BY <1>6, <2>1, <3>1 DEF CheckEntry, TakeOwnership, TypeOK, PCs
  <2>2. CASE Decline(t)
    BY <1>6, <2>2 DEF CheckEntry, Decline, TypeOK, PCs
  <2> QED
    BY <1>6, <2>1, <2>2 DEF CheckEntry
<1>7. ASSUME NEW t \in Threads, NEW r \in Results, Complete(t, r)
      PROVE  TypeOK'
  <2>1. entries' \in [Keys -> Entry \cup {NoEntry}]
    <3> DEFINE e == [entries[key[t]] EXCEPT !.inFlight = FALSE, !.result = r]
    <3>1. CASE Present(key[t])
      <4>1. key[t] \in Keys /\ entries[key[t]] \in Entry
        BY <3>1 DEF TypeOK, Present, NoEntry
      <4>2. e \in Entry
        BY <4>1 DEF Entry
      <4>3. entries' = [entries EXCEPT ![key[t]] = e]
        BY <1>7, <3>1, <4>1 DEF Complete, TypeOK
      <4> QED
        BY <4>1, <4>2, <4>3 DEF TypeOK
    <3>2. CASE ~Present(key[t])
      BY <1>7, <3>2 DEF Complete, TypeOK
    <3> QED
      BY <3>1, <3>2
  <2> QED
    BY <1>7, <2>1 DEF Complete, Disown, TypeOK, PCs
<1>8. ASSUME NEW t \in Threads, Abandon(t) \/ Leave(t)
      PROVE  TypeOK'
  BY <1>8 DEF Abandon, Leave, Disown, TypeOK, PCs
<1>9. ASSUME NEW t \in Threads, RemoveAfterFull(t)
      PROVE  TypeOK'
  BY <1>9 DEF RemoveAfterFull, TypeOK, PCs
<1> QED
  BY <1>1, <1>2, <1>3, <1>4, <1>5, <1>6, <1>7, <1>8, <1>9 DEF Next, Step

-------------------------------------------------------------------------------
IInv == TypeOK /\ CacheInv

LEMMA InitIInv == Init => IInv
  BY CacheAssumption
  DEF Init, IInv, TypeOK, CacheInv, ExclusiveOwnership, ReservationHeld, Protected, Owner, PCs

\* What a step leaves alone for the owner u.
Untouched(u) ==
    /\ Owner(u)
    /\ key'[u] = key[u]
    /\ since'[u] = since[u]
    /\ u \in robbed' <=> u \in robbed

\* A step that makes no owner, takes no reservation away and keeps the clock
\* disturbs nothing the invariant speaks of.
LEMMA Undisturbed ==
    ASSUME IInv, TypeOK',
           now' = now,
           \A u \in Threads : Owner(u)' => Untouched(u),
           \A u \in Threads : Protected(u) /\ u \notin robbed =>
               entries'[key[u]].present /\ entries'[key[u]].createdAt = entries[key[u]].createdAt,
           \A u \in Threads : asOf'[u] <= now /\ since'[u] <= now,
           \A u \in robbed' : Owner(u)'
    PROVE  CacheInv'
<1>1. \A u \in Threads : Protected(u)' => Protected(u) /\ Untouched(u)
  BY DEF Protected, Untouched
<1>2. ExclusiveOwnership'
  BY <1>1 DEF IInv, CacheInv, ExclusiveOwnership, Untouched
<1>3. ReservationHeld'
  BY <1>1 DEF IInv, CacheInv, ReservationHeld, Present, Untouched
<1> QED
  BY <1>2, <1>3 DEF CacheInv

LEMMA CachePreserved ==
    ASSUME IInv, TypeOK', [Next]_cacheVars
    PROVE  CacheInv'
<1> USE DEF IInv
<1>1. CASE UNCHANGED cacheVars
  BY <1>1 DEF cacheVars, CacheInv, ExclusiveOwnership, ReservationHeld, Protected, Present, Owner
\* Time only takes protection away.
<1>2. CASE Tick
  <2>1. \A t \in Threads : Protected(t)' => Protected(t)
    BY <1>2, CacheAssumption DEF Tick, TypeOK, Protected, Owner
  <2> QED
    BY <1>2, <2>1 DEF Tick, TypeOK, CacheInv, ExclusiveOwnership, ReservationHeld, Present, Owner
<1>3. ASSUME NEW t \in Threads, NEW k \in Keys, Begin(t, k)
      PROVE  CacheInv'
  <2>1. \A u \in Threads : Owner(u)' => Untouched(u)
    BY <1>3 DEF Begin, TypeOK, Owner, Untouched, PCs
  <2>2. \A u \in Threads : asOf'[u] <= now /\ since'[u] <= now
    BY <1>3 DEF Begin, TypeOK, CacheInv
  <2>3. \A u \in robbed' : Owner(u)'
    BY <1>3 DEF Begin, TypeOK, CacheInv, Owner
  <2> QED
    BY <1>3, <2>1, <2>2, <2>3, Undisturbed DEF Begin, CacheInv, ReservationHeld, Present
\* The purge samples the clock early, so what it drops is past its protection.
<1>4. ASSUME NEW t \in Threads, PurgeShard(t)
      PROVE  CacheInv'
  <2>1. \A u \in Threads : Owner(u)' => Untouched(u)
    BY <1>4 DEF PurgeShard, NextShard, TypeOK, Owner, Untouched, PCs
  <2>2. ASSUME NEW u \in Threads, Protected(u), u \notin robbed
        PROVE  entries'[key[u]] = entries[key[u]]
    <3>1. /\ key[u] \in Keys
          /\ entries[key[u]].createdAt = since[u]
          /\ now - since[u] < TTL /\ asOf[t] <= now
          /\ now \in Nat /\ asOf[t] \in Nat /\ since[u] \in Nat /\ TTL \in Nat
      BY <2>2, CacheAssumption DEF TypeOK, CacheInv, ReservationHeld, Protected
    <3>2. ~Stale(key[u], t)
      BY <3>1 DEF Stale
    <3> QED
      BY <1>4, <3>1, <3>2 DEF PurgeShard
  <2>3. \A u \in Threads : Protected(u) /\ u \notin robbed =>
          entries'[key[u]].present /\ entries'[key[u]].createdAt = entries[key[u]].createdAt
    BY <2>2 DEF CacheInv, ReservationHeld, Present
  <2>4. now' = now /\ \A u \in Threads : asOf'[u] <= now /\ since'[u] <= now
    BY <1>4 DEF PurgeShard, CacheInv
  <2>5. \A u \in robbed' : Owner(u)'
    BY <1>4 DEF PurgeShard, NextShard, TypeOK, CacheInv, Owner
  <2> QED
    BY <2>1, <2>3, <2>4, <2>5, Undisturbed
<1>5. ASSUME NEW t \in Threads, LenShard(t)
      PROVE  CacheInv'
  <2>1. \A u \in Threads : Owner(u)' => Untouched(u)
    BY <1>5 DEF LenShard, NextShard, TypeOK, Owner, Untouched, PCs
  <2>2. UNCHANGED <<now, since, robbed, entries, asOf>>
    BY <1>5 DEF LenShard
  <2>3. \A u \in robbed' : Owner(u)'
    BY <1>5 DEF LenShard, NextShard, TypeOK, CacheInv, Owner
  <2> QED
    BY <2>1, <2>2, <2>3, Undisturbed DEF CacheInv, ReservationHeld, Present
<1>6. ASSUME NEW t \in Threads, CheckEntry(t)
      PROVE  CacheInv'
  <2> USE DEF CheckEntry
  <2>1. CASE TakeOwnership(t)
    \* No protected owner of this key still has its reservation.
    <3>1. ASSUME NEW u \in Threads, u # t, Protected(u), key[u] = key[t], u \notin robbed
          PROVE  FALSE
      <4>1. Present(key[t]) /\ entries[key[t]].createdAt = since[u]
        BY <3>1 DEF CacheInv, ReservationHeld
      <4>2. ~Expired(key[t])
        BY <3>1, <4>1, CacheAssumption DEF Expired, Protected, TypeOK
      <4> QED
        BY <2>1, <4>1, <4>2 DEF TakeOwnership
    <3>2. /\ key[t] \in Keys
          /\ UNCHANGED <<now, key, robbed>>
          /\ entries' = [entries EXCEPT ![key[t]] = Reserved(now)]
          /\ since' = [since EXCEPT ![t] = now]
          /\ asOf' = [asOf EXCEPT ![t] = 0]
          /\ pc' = [pc EXCEPT ![t] = "owner"]
      BY <1>6, <2>1 DEF TakeOwnership, TypeOK
    <3>3. \A u \in Threads \ {t} : Protected(u)' <=> Protected(u)
      BY <3>2 DEF TypeOK, Protected, Owner
    <3>4. \A u \in Threads \ {t} : Protected(u) /\ u \notin robbed => key[u] # key[t]
      BY <3>1
    <3>5. ExclusiveOwnership'
      BY <3>2, <3>3, <3>4 DEF CacheInv, ExclusiveOwnership
    <3>6. ReservationHeld'
      BY <3>2, <3>3, <3>4 DEF CacheInv, ReservationHeld, Present, Reserved, TypeOK
    <3>7. \A u \in Threads : asOf'[u] <= now' /\ since'[u] <= now'
      BY <3>2 DEF CacheInv, TypeOK
    <3>8. \A u \in robbed' : Owner(u)'
      BY <3>2 DEF CacheInv, TypeOK, Owner
    <3> QED
      BY <3>5, <3>6, <3>7, <3>8 DEF CacheInv
  <2>2. CASE Decline(t)
    <3>1. \A u \in Threads : Owner(u)' => Untouched(u)
      BY <1>6, <2>2 DEF Decline, TypeOK, Owner, Untouched, PCs
    <3>2. UNCHANGED <<now, since, robbed, entries>> /\ \A u \in Threads : asOf'[u] <= now
      BY <1>6, <2>2 DEF Decline, CacheInv, TypeOK
    <3>3. \A u \in robbed' : Owner(u)'
      BY <1>6, <2>2 DEF Decline, TypeOK, CacheInv, Owner
    <3> QED
      BY <3>1, <3>2, <3>3, Undisturbed DEF CacheInv, ReservationHeld, Present
  <2> QED
    BY <1>6, <2>1, <2>2
\* complete() may hit someone else's entry, but leaves its instant alone.
<1>7. ASSUME NEW t \in Threads, NEW r \in Results, Complete(t, r)
      PROVE  CacheInv'
  <2>1. \A u \in Threads : Owner(u)' => Untouched(u)
    BY <1>7 DEF Complete, Disown, TypeOK, Owner, Untouched, PCs
  <2>2. ASSUME NEW k \in Keys, Present(k)
        PROVE  entries'[k].present /\ entries'[k].createdAt = entries[k].createdAt
    BY <1>7, <2>2 DEF Complete, TypeOK, Present, Entry, NoEntry
  <2>3. \A u \in Threads : Protected(u) /\ u \notin robbed =>
          entries'[key[u]].present /\ entries'[key[u]].createdAt = entries[key[u]].createdAt
    BY <2>2 DEF TypeOK, CacheInv, ReservationHeld
  <2>4. now' = now /\ \A u \in Threads : asOf'[u] <= now /\ since'[u] <= now
    BY <1>7 DEF Complete, Disown, CacheInv, TypeOK
  <2>5. \A u \in robbed' : Owner(u)'
    BY <1>7 DEF Complete, Disown, TypeOK, CacheInv, Owner
  <2> QED
    BY <2>1, <2>3, <2>4, <2>5, Undisturbed
<1>8. ASSUME NEW t \in Threads, Abandon(t) \/ Leave(t)
      PROVE  CacheInv'
  <2>1. \A u \in Threads : Owner(u)' => Untouched(u)
    BY <1>8 DEF Abandon, Leave, Disown, TypeOK, Owner, Untouched, PCs
  <2>2. UNCHANGED <<now, entries, asOf>> /\ \A u \in Threads : since'[u] <= now
    BY <1>8 DEF Abandon, Leave, Disown, CacheInv, TypeOK
  <2>3. \A u \in robbed' : Owner(u)'
    BY <1>8 DEF Abandon, Leave, Disown, TypeOK, CacheInv, Owner
  <2> QED
    BY <2>1, <2>2, <2>3, Undisturbed DEF CacheInv, ReservationHeld, Present
\* remove() deletes a reservation and marks the owners it takes it from.
<1>9. ASSUME NEW t \in Threads, RemoveAfterFull(t)
      PROVE  CacheInv'
  <2>1. \A u \in Threads : /\ Owner(u)' => Owner(u)
                           /\ Protected(u)' => Protected(u)
                           /\ u \in robbed => u \in robbed'
    BY <1>9 DEF RemoveAfterFull, TypeOK, Owner, Protected, PCs
  <2>2. ExclusiveOwnership'
    BY <1>9, <2>1 DEF RemoveAfterFull, CacheInv, ExclusiveOwnership
  <2>3. ASSUME NEW u \in Threads, Protected(u)', u \notin robbed'
        PROVE  key[u] # key[t]
    BY <1>9, <2>1, <2>3 DEF RemoveAfterFull, CacheInv, ReservationHeld, Protected, Owner
  <2>4. ReservationHeld'
    BY <1>9, <2>1, <2>3 DEF RemoveAfterFull, CacheInv, ReservationHeld, Present, TypeOK
  <2>5. \A u \in robbed' : Owner(u)'
    BY <1>9 DEF RemoveAfterFull, TypeOK, CacheInv, Owner
  <2> QED
    BY <1>9, <2>2, <2>4, <2>5 DEF RemoveAfterFull, CacheInv
<1> QED
  BY <1>1, <1>2, <1>3, <1>4, <1>5, <1>6, <1>7, <1>8, <1>9 DEF Next, Step

LEMMA IInvInvariant == Spec => []IInv
<1>1. IInv /\ [Next]_cacheVars => IInv'
  BY TypePreserved, CachePreserved DEF IInv
<1> QED
  BY InitIInv, <1>1, PTL DEF Spec

\* The variables keep their types.
THEOREM TypeCorrect == Spec => []TypeOK
<1>1. IInv => TypeOK
  BY DEF IInv
<1> QED
  BY IInvInvariant, <1>1, PTL

\* At most one protected execution per key, however many requests race for it,
\* except where remove() took the reservation away.
THEOREM Exclusion == Spec => []ExclusiveOwnership
<1>1. IInv => ExclusiveOwnership
  BY DEF IInv, CacheInv
<1> QED
  BY IInvInvariant, <1>1, PTL

\* Until the TTL has passed nobody but remove() takes a reservation away: a
\* purge, a check, a completion or a dropped request leaves it in the map.
THEOREM ReservationPersists == Spec => []ReservationHeld
<1>1. IInv => ReservationHeld
  BY DEF IInv, CacheInv
<1> QED
  BY IInvInvariant, <1>1, PTL
-------------------------------------------------------------------------------
(* A completed entry is final *)

\* What can change a completed entry within its TTL is not a purge, which judges it by
\* an instant that is not in the future, nor a check, which finds it unexpired.
LEMMA CompletedChanges ==
    ASSUME IInv, [Next]_cacheVars,
           NEW k \in Keys, Done(k), now - entries[k].createdAt < TTL, entries'[k] # entries[k],
           \A t \in Threads : Owner(t) /\ key[t] = k => Dispossessed(t)
    PROVE  \E t \in Threads : key[t] = k /\ pc'[t] = "idle" /\ (Dispossessed(t) \/ pc[t] = "full")
<1> USE CacheAssumption DEF IInv, Done
<1>1. Present(k) /\ entries[k].createdAt \in Nat /\ now \in Nat
  <2>1. entries[k] \in Entry
    BY DEF TypeOK, Present, NoEntry
  <2> QED
    BY <2>1 DEF TypeOK, Entry
<1>2. ASSUME NEW t \in Threads, PurgeShard(t)
      PROVE  FALSE
  <2>1. asOf[t] \in Nat /\ asOf[t] <= now
    BY DEF TypeOK, CacheInv
  <2>2. ~Stale(k, t)
    BY <1>1, <2>1 DEF Stale
  <2> QED
    BY <1>2, <2>2 DEF PurgeShard
<1>3. ASSUME NEW t \in Threads, CheckEntry(t)
      PROVE  FALSE
  <2>1. ~Expired(k)
    BY <1>1 DEF Expired
  <2>2. TakeOwnership(t) => key[t] # k
    BY <1>1, <2>1 DEF TakeOwnership
  <2> QED
    BY <1>3, <2>2 DEF CheckEntry, TakeOwnership, Decline, TypeOK
<1>4. ASSUME NEW t \in Threads, NEW r \in Results, Complete(t, r)
      PROVE  key[t] = k /\ pc'[t] = "idle" /\ Dispossessed(t)
  BY <1>4 DEF Complete, Disown, Owner, TypeOK
<1>5. ASSUME NEW t \in Threads, RemoveAfterFull(t)
      PROVE  key[t] = k /\ pc'[t] = "idle" /\ pc[t] = "full"
  BY <1>5 DEF RemoveAfterFull, TypeOK
<1> QED
  BY <1>2, <1>3, <1>4, <1>5
  DEF Next, Step, Begin, LenShard, Abandon, Leave, Disown, Tick, cacheVars

\* A completed key replays its response until the TTL, whatever the other requests
\* do, but for remove() after Full and the completion of an owner that lost its key.
THEOREM CompletedIsFinal == Spec => DoneIsFinal
<1> DEFINE Final ==
      \A k \in Keys :
          /\ Done(k) /\ now - entries[k].createdAt < TTL
          /\ \A t \in Threads : Owner(t) /\ key[t] = k => Dispossessed(t)
          => \/ entries'[k] = entries[k]
             \/ \E t \in Threads : /\ key[t] = k /\ pc'[t] = "idle"
                                   /\ Dispossessed(t) \/ pc[t] = "full"
<1>1. ASSUME IInv, [Next]_cacheVars
      PROVE  Final
  BY <1>1, CompletedChanges
<1>2. IInv /\ [Next]_cacheVars => [Final]_cacheVars
  <2> HIDE DEF Final
  <2> QED
    BY <1>1
<1> QED
  BY IInvInvariant, <1>2, PTL DEF Spec, DoneIsFinal

-------------------------------------------------------------------------------
(* Overshoot *)

PresentKeys == {k \in Keys : Present(k)}

\* The entries len has yet to visit for t.
Ahead(t) == {k \in Keys : Present(k) /\ ShardOf[k] >= shard[t]}

\* What t's count comes to if nothing changes before it is used; a thread that has
\* not begun to count would count them all.
Reckoned(t) ==
    IF pc[t] = "len" THEN count[t] + Cardinality(Ahead(t))
    ELSE IF pc[t] = "entry" THEN count[t]
    ELSE Size

Reckoners(x) == {t \in Threads : Reckoned(t) <= x}

\* The locals of len are reset between two calls.
ResetInv ==
    \A t \in Threads : /\ pc[t] \notin {"len", "entry"} => count[t] = 0
                       /\ pc[t] \notin {"purge", "len"} => shard[t] = 1

\* The more threads think that there is room, the fewer entries there are.  For the
\* bound x = MaxEntries - 1 the Reckoners are those that may still insert; larger
\* bounds are those which a removal of x - MaxEntries + 1 entries lowers to it.
RoomInv ==
    \A x \in Nat : x >= MaxEntries - 1 => Size + Cardinality(Reckoners(x)) <= x + Cardinality(Threads)

LEMMA Finite ==
    /\ \A S \in SUBSET Keys : IsFiniteSet(S) /\ Cardinality(S) \in Nat
    /\ \A S \in SUBSET Threads : /\ IsFiniteSet(S) /\ Cardinality(S) \in Nat
                                 /\ Cardinality(S) <= Cardinality(Threads)
  BY FS_Subset, FS_CardinalityType, CacheAssumption

LEMMA ReckonedType ==
    ASSUME TypeOK
    PROVE  Size \in Nat /\ \A t \in Threads : Reckoned(t) \in Nat
<1>1. Size \in Nat /\ \A t \in Threads : Cardinality(Ahead(t)) \in Nat
  BY Finite DEF Size, Ahead
<1> QED
  BY <1>1 DEF TypeOK, Reckoned

LEMMA ResetPreserved ==
    ASSUME TypeOK, ResetInv, [Next]_cacheVars
    PROVE  ResetInv'
<1> USE DEF ResetInv, TypeOK
<1>1. ASSUME NEW t \in Threads, PurgeShard(t) \/ LenShard(t)
      PROVE  ResetInv'
  BY <1>1, CacheAssumption DEF PurgeShard, LenShard, NextShard
<1>2. ASSUME NEW t \in Threads, CheckEntry(t)
      PROVE  ResetInv'
  BY <1>2 DEF CheckEntry, TakeOwnership, Decline
<1>3. ASSUME NEW t \in Threads, NEW k \in Keys, Begin(t, k)
      PROVE  ResetInv'
  BY <1>3 DEF Begin
<1>4. ASSUME NEW t \in Threads, Abandon(t) \/ Leave(t) \/ RemoveAfterFull(t)
      PROVE  ResetInv'
  BY <1>4 DEF Abandon, Leave, RemoveAfterFull, Disown
<1>5. ASSUME NEW t \in Threads, NEW r \in Results, Complete(t, r)
      PROVE  ResetInv'
  BY <1>5 DEF Complete, Disown
<1>6. CASE Tick \/ UNCHANGED cacheVars
  BY <1>6 DEF Tick, cacheVars
<1> QED
  BY <1>1, <1>2, <1>3, <1>4, <1>5, <1>6 DEF Next, Step

\* Entries go away, by as many as the size tells, and every thread reckons with as
\* many less at most, or with all that are left.
LEMMA RoomAfterRemoval ==
    ASSUME TypeOK, TypeOK', RoomInv, NEW d \in Nat, Size' = Size - d,
           \A t \in Threads : Reckoned(t)' >= Reckoned(t) - d \/ Reckoned(t)' >= Size'
    PROVE  RoomInv'
<1> SUFFICES ASSUME NEW x \in Nat, x >= MaxEntries - 1
             PROVE  Size' + Cardinality(Reckoners(x)') <= x + Cardinality(Threads)
  BY DEF RoomInv
<1>1. /\ Size \in Nat /\ Size' \in Nat
      /\ \A t \in Threads : Reckoned(t) \in Nat /\ Reckoned(t)' \in Nat
  <2>1. Size' \in Nat /\ \A t \in Threads : Cardinality(Ahead(t)') \in Nat
    BY Finite DEF Size, Ahead
  <2> QED
    BY <2>1, ReckonedType DEF TypeOK, Reckoned
<1>2. /\ Cardinality(Reckoners(x)') \in Nat /\ Cardinality(Reckoners(x + d)) \in Nat
      /\ Cardinality(Threads) \in Nat
      /\ Cardinality(Reckoners(x)') <= Cardinality(Threads)
  BY Finite DEF Reckoners
<1>3. CASE x >= Size'
  BY <1>1, <1>2, <1>3
<1>4. CASE x < Size'
  <2>1. Reckoners(x)' \subseteq Reckoners(x + d)
    BY <1>1, <1>4 DEF Reckoners
  <2>2. Cardinality(Reckoners(x)') <= Cardinality(Reckoners(x + d))
    BY <2>1, Finite, FS_Subset DEF Reckoners
  <2>3. Size + Cardinality(Reckoners(x + d)) <= x + d + Cardinality(Threads)
    BY CacheAssumption DEF RoomInv
  <2> QED
    BY <1>1, <1>2, <2>2, <2>3
<1> QED
  BY <1>1, <1>3, <1>4

LEMMA SizeAfterRemoval ==
    ASSUME PresentKeys' \subseteq PresentKeys
    PROVE  /\ Cardinality(PresentKeys \ PresentKeys') \in Nat
           /\ Size' = Size - Cardinality(PresentKeys \ PresentKeys')
<1> DEFINE gone == PresentKeys \ PresentKeys'
<1>1. PresentKeys' = PresentKeys \ gone /\ gone = PresentKeys \cap gone
  OBVIOUS
<1>2. Size = Cardinality(PresentKeys) /\ Size' = Cardinality(PresentKeys')
  BY DEF Size, PresentKeys
<1>3. IsFiniteSet(PresentKeys) /\ Cardinality(gone) \in Nat
  BY Finite DEF PresentKeys
<1>4. Cardinality(PresentKeys \ gone) = Cardinality(PresentKeys) - Cardinality(PresentKeys \cap gone)
  BY <1>3, FS_Difference
<1> QED
  BY <1>1, <1>2, <1>3, <1>4

\* What t reckons with shrinks no faster than the map.
LEMMA ReckonedLess ==
    ASSUME TypeOK, NEW t \in Threads, PresentKeys' \subseteq PresentKeys,
           UNCHANGED <<pc[t], count[t], shard[t]>>
    PROVE  Reckoned(t)' >= Reckoned(t) - Cardinality(PresentKeys \ PresentKeys')
<1> DEFINE gone == PresentKeys \ PresentKeys'
<1>1. Cardinality(gone) \in Nat /\ IsFiniteSet(gone)
  BY Finite DEF PresentKeys
<1>2. Size' = Size - Cardinality(gone) /\ Size \in Nat
  BY SizeAfterRemoval, ReckonedType
<1>3. Cardinality(Ahead(t)') >= Cardinality(Ahead(t)) - Cardinality(gone)
  <2>1. Ahead(t)' = Ahead(t) \ gone
    BY DEF Ahead, PresentKeys
  <2>2. IsFiniteSet(Ahead(t)) /\ Cardinality(Ahead(t)) \in Nat
    BY Finite DEF Ahead
  <2>3. /\ Cardinality(Ahead(t) \ gone) = Cardinality(Ahead(t)) - Cardinality(Ahead(t) \cap gone)
        /\ Cardinality(Ahead(t) \cap gone) \in Nat
        /\ Cardinality(Ahead(t) \cap gone) <= Cardinality(gone)
    BY <1>1, <2>2, FS_Difference, FS_Intersection, FS_CardinalityType
  <2> QED
    BY <1>1, <2>1, <2>2, <2>3
<1>4. /\ Cardinality(Ahead(t)) \in Nat /\ Cardinality(Ahead(t)') \in Nat
  BY Finite DEF Ahead
<1>5. pc'[t] = pc[t] /\ count'[t] = count[t] /\ count[t] \in Nat
  BY DEF TypeOK
<1> HIDE DEF gone
<1>6. Reckoned(t)' >= Reckoned(t) - Cardinality(gone)
  BY <1>1, <1>2, <1>3, <1>4, <1>5 DEF Reckoned
<1> QED
  BY <1>6 DEF gone

\* A step that adds no entry, and after which a thread is where it was or reckons with
\* every entry there is.
LEMMA RoomIfNoneAdded ==
    ASSUME TypeOK, TypeOK', RoomInv, PresentKeys' \subseteq PresentKeys,
           \A t \in Threads : \/ UNCHANGED <<pc[t], count[t], shard[t]>>
                              \/ Reckoned(t)' >= Size'
    PROVE  RoomInv'
  BY SizeAfterRemoval, ReckonedLess, RoomAfterRemoval

\* Whoever adds an entry reckoned with room, and does so no longer.
LEMMA RoomAfterInsertion ==
    ASSUME TypeOK, TypeOK', RoomInv,
           NEW t \in Threads, Reckoned(t) <= MaxEntries - 1,
           Size' = Size + 1, Reckoned(t)' >= Size',
           \A u \in Threads \ {t} : Reckoned(u)' >= Reckoned(u)
    PROVE  RoomInv'
<1> SUFFICES ASSUME NEW x \in Nat, x >= MaxEntries - 1
             PROVE  Size' + Cardinality(Reckoners(x)') <= x + Cardinality(Threads)
  BY DEF RoomInv
<1>1. /\ Size \in Nat /\ Size' \in Nat
      /\ \A u \in Threads : Reckoned(u) \in Nat /\ Reckoned(u)' \in Nat
  <2>1. Size' \in Nat /\ \A u \in Threads : Cardinality(Ahead(u)') \in Nat
    BY Finite DEF Size, Ahead
  <2> QED
    BY <2>1, ReckonedType DEF TypeOK, Reckoned
<1>2. /\ Cardinality(Reckoners(x)') \in Nat /\ Cardinality(Reckoners(x)) \in Nat
      /\ IsFiniteSet(Reckoners(x)) /\ Cardinality(Threads) \in Nat
      /\ Cardinality(Reckoners(x)') <= Cardinality(Threads)
  BY Finite DEF Reckoners
<1>3. CASE x >= Size'
  BY <1>1, <1>2, <1>3
<1>4. CASE x < Size'
  <2>1. t \in Reckoners(x) /\ Reckoners(x)' \subseteq Reckoners(x) \ {t}
    BY <1>1, <1>4, CacheAssumption DEF Reckoners
  <2>2. /\ IsFiniteSet(Reckoners(x) \ {t})
        /\ Cardinality(Reckoners(x) \ {t}) = Cardinality(Reckoners(x)) - 1
    BY <1>2, <2>1, FS_RemoveElement
  <2>3. Cardinality(Reckoners(x)') <= Cardinality(Reckoners(x)) - 1
    BY <2>1, <2>2, FS_Subset
  <2>4. Size + Cardinality(Reckoners(x)) <= x + Cardinality(Threads)
    BY DEF RoomInv
  <2> QED
    BY <1>1, <1>2, <2>3, <2>4
<1> QED
  BY <1>1, <1>3, <1>4

\* len moves an entry of the shard it visits from those ahead to those counted.
LEMMA LenKeepsReckoning ==
    ASSUME TypeOK, NEW t \in Threads, LenShard(t)
    PROVE  Reckoned(t)' = Reckoned(t)
<1> DEFINE here == {k \in Keys : Present(k) /\ ShardOf[k] = shard[t]}
<1> USE CacheAssumption
<1>1. /\ IsFiniteSet(here) /\ Cardinality(here) \in Nat
      /\ IsFiniteSet(Ahead(t)') /\ Cardinality(Ahead(t)') \in Nat
  BY Finite DEF Ahead
<1>2. /\ pc[t] = "len" /\ count'[t] = count[t] + Cardinality(here) /\ count[t] \in Nat
      /\ UNCHANGED entries /\ shard[t] \in 1..NumShards
      /\ \A k \in Keys : ShardOf[k] \in 1..NumShards
  BY DEF LenShard, TypeOK
<1>3. CASE shard[t] = NumShards
  <2>1. pc'[t] = "entry"
    BY <1>3 DEF LenShard, NextShard, TypeOK
  <2>2. Ahead(t) = here
    BY <1>2, <1>3 DEF Ahead
  <2> QED
    BY <1>2, <2>1, <2>2 DEF Reckoned
<1>4. CASE shard[t] # NumShards
  <2>1. pc'[t] = "len" /\ shard'[t] = shard[t] + 1
    BY <1>2, <1>4 DEF LenShard, NextShard, TypeOK
  <2>2. Ahead(t) = here \cup Ahead(t)' /\ here \cap Ahead(t)' = {}
    <3>1. \A k \in Keys : Present(k)' <=> Present(k)
      BY <1>2 DEF Present
    <3> QED
      BY <1>2, <2>1, <3>1 DEF Ahead
  <2> HIDE DEF here
  <2>3. Cardinality(Ahead(t)) = Cardinality(here) + Cardinality(Ahead(t)')
    <3>1. Cardinality(here \cup Ahead(t)')
            = Cardinality(here) + Cardinality(Ahead(t)') - Cardinality(here \cap Ahead(t)')
      BY <1>1, FS_Union
    <3>2. Cardinality(here \cap Ahead(t)') = 0
      BY <2>2, FS_EmptySet
    <3>3. Cardinality(here \cup Ahead(t)') = Cardinality(here) + Cardinality(Ahead(t)')
      BY <1>1, <3>1, <3>2
    <3> QED
      BY <2>2, <3>3
  <2> QED
    BY <1>1, <1>2, <2>1, <2>3 DEF Reckoned
<1> QED
  BY <1>3, <1>4

LEMMA RoomPreserved ==
    ASSUME TypeOK, TypeOK', ResetInv, RoomInv, [Next]_cacheVars
    PROVE  RoomInv'
<1> DEFINE Still(t) == UNCHANGED <<pc[t], count[t], shard[t]>>
<1>1. ASSUME NEW t \in Threads, PurgeShard(t)
      PROVE  RoomInv'
  <2>1. PresentKeys' \subseteq PresentKeys
    BY <1>1 DEF PurgeShard, PresentKeys, Present, NoEntry
  <2>2. \A u \in Threads \ {t} : Still(u)
    BY <1>1 DEF PurgeShard, NextShard, TypeOK
  <2>3. Reckoned(t)' >= Size'
    <3>1. pc'[t] \in {"purge", "len"} /\ count'[t] = 0 /\ (pc'[t] = "len" => shard'[t] = 1)
      BY <1>1, CacheAssumption DEF PurgeShard, NextShard, TypeOK, ResetInv
    <3>2. shard'[t] = 1 => Ahead(t)' = PresentKeys'
      BY CacheAssumption DEF Ahead, PresentKeys
    <3>3. Size' = Cardinality(PresentKeys') /\ Size' \in Nat
      BY Finite DEF Size, PresentKeys
    <3> QED
      BY <3>1, <3>2, <3>3 DEF Reckoned
  <2> QED
    BY <2>1, <2>2, <2>3, RoomIfNoneAdded
<1>2. ASSUME NEW t \in Threads, LenShard(t)
      PROVE  RoomInv'
  <2>1. UNCHANGED entries /\ \A u \in Threads \ {t} : Still(u)
    BY <1>2 DEF LenShard, NextShard, TypeOK
  <2>2. PresentKeys' = PresentKeys /\ Size' = Size /\ Size \in Nat
    BY <2>1, Finite DEF PresentKeys, Present, Size
  <2>3. \A u \in Threads : Reckoned(u)' = Reckoned(u) /\ Reckoned(u) \in Nat
    BY <1>2, <2>1, LenKeepsReckoning, ReckonedType DEF Reckoned, Ahead, Present, Size
  <2> QED
    BY <2>2, <2>3, RoomAfterRemoval
<1>3. ASSUME NEW t \in Threads, CheckEntry(t), ~Present(key[t]), TakeOwnership(t)
      PROVE  RoomInv'
  <2>1. /\ key[t] \in Keys /\ pc[t] = "entry" /\ pc'[t] = "owner"
        /\ count[t] <= MaxEntries - 1
        /\ PresentKeys' = PresentKeys \cup {key[t]} /\ key[t] \notin PresentKeys
        /\ \A u \in Threads \ {t} : Still(u)
    BY <1>3, CacheAssumption
    DEF CheckEntry, TakeOwnership, AtCapacity, TypeOK, PresentKeys, Present, Reserved
  <2>2. /\ Size = Cardinality(PresentKeys) /\ Size' = Cardinality(PresentKeys')
        /\ IsFiniteSet(PresentKeys) /\ Size \in Nat
    BY Finite DEF PresentKeys, Size
  <2>3. Size' = Size + 1
    BY <2>1, <2>2, FS_AddElement
  <2>4. Reckoned(t) <= MaxEntries - 1 /\ Reckoned(t)' >= Size'
    BY <2>1, <2>2, <2>3 DEF Reckoned
  <2>5. ASSUME NEW u \in Threads \ {t}
        PROVE  Reckoned(u)' >= Reckoned(u)
    <3>1. Ahead(u) \subseteq Ahead(u)' /\ IsFiniteSet(Ahead(u)')
      BY <2>1, Finite DEF Ahead, PresentKeys
    <3>2. /\ Cardinality(Ahead(u)) <= Cardinality(Ahead(u)')
          /\ Cardinality(Ahead(u)) \in Nat /\ Cardinality(Ahead(u)') \in Nat
      BY <3>1, Finite, FS_Subset DEF Ahead
    <3>3. pc'[u] = pc[u] /\ count'[u] = count[u] /\ count[u] \in Nat
      BY <2>1 DEF TypeOK
    <3> QED
      BY <2>2, <2>3, <3>2, <3>3 DEF Reckoned
  <2> QED
    BY <2>3, <2>4, <2>5, RoomAfterInsertion
<1>4. ASSUME NEW t \in Threads, CheckEntry(t), Present(key[t]) \/ ~TakeOwnership(t)
      PROVE  RoomInv'
  <2>1. /\ PresentKeys' = PresentKeys /\ \A u \in Threads \ {t} : Still(u)
        /\ pc'[t] \notin {"len", "entry"}
    BY <1>4 DEF CheckEntry, TakeOwnership, Decline, TypeOK, PresentKeys, Present, Reserved
  <2>2. Reckoned(t)' >= Size'
    BY <2>1, Finite DEF Reckoned, Size
  <2> QED
    BY <2>1, <2>2, RoomIfNoneAdded
<1>5. ASSUME NEW t \in Threads,
             \/ \E k \in Keys : Begin(t, k)
             \/ \E r \in Results : Complete(t, r)
             \/ Abandon(t) \/ Leave(t) \/ RemoveAfterFull(t)
      PROVE  RoomInv'
  <2>1. /\ PresentKeys' \subseteq PresentKeys /\ \A u \in Threads \ {t} : Still(u)
        /\ pc'[t] \notin {"len", "entry"}
    <3>1. PresentKeys' \subseteq PresentKeys
      BY <1>5 DEF Begin, Complete, Abandon, Leave, RemoveAfterFull, TypeOK, PresentKeys, Present,
                  NoEntry
    <3> QED
      BY <1>5, <3>1 DEF Begin, Complete, Abandon, Leave, RemoveAfterFull, Disown, TypeOK
  <2>2. Reckoned(t)' >= Size'
    BY <2>1, Finite DEF Reckoned, Size
  <2> QED
    BY <2>1, <2>2, RoomIfNoneAdded
<1>6. CASE Tick \/ UNCHANGED cacheVars
  BY <1>6, RoomIfNoneAdded DEF Tick, cacheVars, PresentKeys, Present
<1> QED
  BY <1>1, <1>2, <1>3, <1>4, <1>5, <1>6 DEF Next, Step

\* The map outgrows max_entries by fewer entries than there are concurrent requests.
THEOREM Overshoot == Spec => []BoundedOvershoot
<1>1. Init => TypeOK /\ ResetInv /\ RoomInv
  <2>1. Init => Size = 0
    <3>1. Init => {k \in Keys : Present(k)} = {}
      BY DEF Init, Present, NoEntry
    <3> QED
      BY <3>1, FS_EmptySet DEF Size
  <2>2. ASSUME NEW x \in Nat
        PROVE  Cardinality(Reckoners(x)) \in Nat /\ Cardinality(Reckoners(x)) <= Cardinality(Threads)
    BY Finite DEF Reckoners
  <2>3. Init => RoomInv
    BY <2>1, <2>2, Finite DEF RoomInv
  <2> QED
    BY <2>3, InitIInv DEF Init, IInv, ResetInv
<1>2. TypeOK /\ ResetInv /\ RoomInv /\ [Next]_cacheVars => (TypeOK /\ ResetInv /\ RoomInv)'
  BY TypePreserved, ResetPreserved, RoomPreserved
<1>3. TypeOK /\ RoomInv => BoundedOvershoot
  <2>1. /\ Cardinality(Reckoners(MaxEntries - 1)) \in Nat /\ Cardinality(Threads) \in Nat
    BY Finite DEF Reckoners
  <2> QED
    BY <2>1, ReckonedType, CacheAssumption DEF RoomInv, BoundedOvershoot
<1> QED
  BY <1>1, <1>2, <1>3, PTL DEF Spec

-------------------------------------------------------------------------------
\* An abstract key changes where its entry does.
LEMMA AbstractUnchanged ==
    ASSUME UNCHANGED <<now, entries>>
    PROVE  UNCHANGED Ownership!ownership
  BY DEF Ownership!ownership, StatusOf, ReservedAtOf, Present

LEMMA AbstractInit == Init => Ownership!Init
  BY DEF Init, Ownership!Init, StatusOf, ReservedAtOf, Present, NoEntry

\* What a purge drops is a TTL old by now, as it was when the clock was sampled.
LEMMA PurgeIsExpire ==
    ASSUME IInv, NEW t \in Threads, PurgeShard(t)
    PROVE  \E S \in SUBSET Keys : Ownership!Expire(S)
<1> DEFINE S == {k \in Keys : ShardOf[k] = shard[t] /\ Stale(k, t)}
<1>1. ASSUME NEW k \in S
      PROVE  Ownership!Expirable(k)
  <2>1. k \in Keys /\ Present(k) /\ asOf[t] - entries[k].createdAt >= TTL
    BY DEF Stale
  <2>2. entries[k] \in Entry
    BY <2>1 DEF IInv, TypeOK, Present, NoEntry
  <2>3. /\ entries[k].present /\ entries[k].createdAt \in Nat
        /\ asOf[t] - entries[k].createdAt >= TTL
        /\ now \in Nat /\ asOf[t] \in Nat /\ asOf[t] <= now /\ TTL \in Nat
    BY <2>1, <2>2, CacheAssumption DEF IInv, TypeOK, CacheInv, Present, Entry
  <2>4. ReservedAtOf(k) = entries[k].createdAt
    BY <2>3 DEF ReservedAtOf, Present
  <2>5. StatusOf(k) # "free"
    BY <2>3 DEF StatusOf, Present
  <2> QED
    BY <2>3, <2>4, <2>5 DEF Ownership!Expirable, Ownership!Age
<1>2. \A k \in Keys : entries'[k] = IF k \in S THEN NoEntry ELSE entries[k]
  BY <1>1 DEF PurgeShard
<1>3. now' = now
  BY DEF PurgeShard
<1> HIDE DEF S
<1>4. Ownership!Release(S)
  BY <1>2, <1>3 DEF Ownership!Release, StatusOf, ReservedAtOf, Present, NoEntry
<1>5. S \in SUBSET Keys
  BY DEF S
<1> QED
  BY <1>1, <1>4, <1>5 DEF Ownership!Expire

\* An entry that is absent, or too old for the occupied arm, may be had.
LEMMA TakeIsReserve ==
    ASSUME IInv, NEW t \in Threads, CheckEntry(t), TakeOwnership(t)
    PROVE  Ownership!Reserve(key[t])
<1>1. key[t] \in Keys /\ now \in Nat /\ TTL \in Nat /\ entries \in [Keys -> Entry \cup {NoEntry}]
  BY CacheAssumption DEF IInv, TypeOK
<1>2. Ownership!Available(key[t])
  <2>1. CASE Present(key[t])
    <3>1. entries[key[t]] \in Entry
      BY <1>1, <2>1 DEF Present, NoEntry
    <3>2. now - entries[key[t]].createdAt > TTL /\ entries[key[t]].createdAt \in Nat
      BY <2>1, <3>1 DEF TakeOwnership, Expired, Entry
    <3> QED
      BY <1>1, <2>1, <3>2
      DEF Ownership!Available, Ownership!Expirable, Ownership!Age, StatusOf, ReservedAtOf
  <2>2. CASE ~Present(key[t])
    BY <1>1, <2>2 DEF Ownership!Available, StatusOf
  <2> QED
    BY <2>1, <2>2
<1>3. entries' = [entries EXCEPT ![key[t]] = Reserved(now)] /\ now' = now
  BY DEF TakeOwnership, CheckEntry
<1> QED
  BY <1>1, <1>2, <1>3 DEF Ownership!Reserve, StatusOf, ReservedAtOf, Present, Reserved

\* complete() turns whatever entry the key has to done, and leaves its instant.
LEMMA CompleteIsCommit ==
    ASSUME IInv, NEW t \in Threads, NEW r \in Results, Complete(t, r)
    PROVE  Ownership!Commit(key[t])
<1> DEFINE e == [entries[key[t]] EXCEPT !.inFlight = FALSE, !.result = r]
<1>1. key[t] \in Keys /\ entries \in [Keys -> Entry \cup {NoEntry}] /\ now' = now
  BY DEF IInv, TypeOK, Complete
<1>2. CASE Present(key[t])
  <2>1. entries[key[t]] \in Entry
    BY <1>1, <1>2 DEF Present, NoEntry
  <2>2. e.present /\ ~e.inFlight /\ e.createdAt = entries[key[t]].createdAt
    BY <2>1 DEF Entry
  <2>3. entries' = [entries EXCEPT ![key[t]] = e]
    BY <1>1, <1>2 DEF Complete
  <2> HIDE DEF e
  <2> QED
    BY <1>1, <1>2, <2>2, <2>3 DEF Ownership!Commit, StatusOf, ReservedAtOf, Present
<1>3. CASE ~Present(key[t])
  BY <1>1, <1>3 DEF Complete, Ownership!Commit, StatusOf, ReservedAtOf, Present
<1> QED
  BY <1>2, <1>3

\* Every step of the map is a step of the abstract key ownership, or none.
LEMMA StepRefines ==
    ASSUME IInv, [Next]_cacheVars
    PROVE  [Ownership!Next]_Ownership!ownership
<1>1. CASE UNCHANGED cacheVars
  BY <1>1, AbstractUnchanged DEF cacheVars
<1>2. CASE Tick
  BY <1>2 DEF Tick, Ownership!Next, Ownership!Tick, StatusOf, ReservedAtOf, Present
<1>3. ASSUME NEW t \in Threads, PurgeShard(t)
      PROVE  Ownership!Next
  BY <1>3, PurgeIsExpire DEF Ownership!Next
<1>4. ASSUME NEW t \in Threads, CheckEntry(t)
      PROVE  [Ownership!Next]_Ownership!ownership
  <2>1. CASE TakeOwnership(t)
    BY <1>4, <2>1, TakeIsReserve DEF Ownership!Next, IInv, TypeOK
  <2>2. CASE Decline(t)
    BY <1>4, <2>2, AbstractUnchanged DEF CheckEntry, Decline
  <2> QED
    BY <1>4, <2>1, <2>2 DEF CheckEntry
<1>5. ASSUME NEW t \in Threads, NEW r \in Results, Complete(t, r)
      PROVE  Ownership!Next
  BY <1>5, CompleteIsCommit DEF Ownership!Next, IInv, TypeOK
<1>6. ASSUME NEW t \in Threads, RemoveAfterFull(t)
      PROVE  Ownership!Next
  <2>1. key[t] \in Keys /\ entries' = [entries EXCEPT ![key[t]] = NoEntry] /\ now' = now
    BY <1>6 DEF RemoveAfterFull, IInv, TypeOK
  <2>2. Ownership!Remove(key[t])
    BY <2>1 DEF Ownership!Remove, Ownership!Release, IInv, TypeOK,
                StatusOf, ReservedAtOf, Present, NoEntry
  <2> QED
    BY <2>1, <2>2 DEF Ownership!Next
<1>7. ASSUME NEW t \in Threads,
             \/ \E k \in Keys : Begin(t, k)
             \/ LenShard(t) \/ Abandon(t) \/ Leave(t)
      PROVE  UNCHANGED Ownership!ownership
  BY <1>7, AbstractUnchanged DEF Begin, LenShard, Abandon, Leave
<1> QED
  BY <1>1, <1>2, <1>3, <1>4, <1>5, <1>6, <1>7 DEF Next, Step

\* The sharded map implements the abstract ownership: whatever the shards, the
\* races of purges, lengths and completions, a key is never given away that was
\* neither removed nor reserved a TTL ago.
THEOREM OwnershipRefinement == Spec => ImplementsOwnership
  BY AbstractInit, StepRefines, IInvInvariant, PTL DEF Spec, Ownership!Spec, ImplementsOwnership
================================================================================
