------------------------------- MODULE GateProofs -------------------------------
(* Proofs about the two gates of a request: ReplayCacheBinding, for every set of *)
(* headers and keys, every limit, tolerance, timestamp and wall clock; and       *)
(* RateLimiterQuota, for every number of agents, every quota, every window and   *)
(* every resolution of the clock.                                                *)
EXTENDS ReplayCacheBinding, RateLimiterQuota, FiniteSetTheorems, TLAPS

-------------------------------------------------------------------------------
(* The replay cache *)

\* The other headers that a history b remembers at t or later.
Since(b, h, t) == {g \in Headers \ {h} : \E k \in Keys : b[g][k] # Never /\ b[g][k] >= t}

\* What the cache holds of some headers is when, and under which key, they were
\* bound; none is later; and what is younger than the ttl is in the cache, or was
\* followed by as many others as it has room for.
Remembered ==
    /\ \A h \in DOMAIN seen :
          /\ seen[h].at <= now
          /\ bound[h][seen[h].key] = seen[h].at
          /\ \A k \in Keys : bound[h][k] <= seen[h].at
    /\ \A h \in Headers, k \in Keys :
          bound[h][k] # Never =>
              /\ bound[h][k] <= now
              /\ \/ now - bound[h][k] >= Tolerance
                 \/ Cardinality(Since(bound, h, bound[h][k])) >= MaxHeaders
                 \/ h \in DOMAIN seen

\* A refusal, and why it was justified, are of the past.
Refused == \A r \in refusals : r.at <= now

BindingInv == TypeOK /\ Remembered /\ Refused /\ RefusalIsJustified

-------------------------------------------------------------------------------
\* What an accepted request leaves in the cache: its own entry, new or as it was,
\* and of the others some that were kept, as they were.
LEMMA AfterAccept ==
    ASSUME TypeOK, NEW h \in Headers, NEW k \in Keys, Accept(h, k)
    PROVE  /\ DOMAIN seen' \subseteq Kept \cup {h}
           /\ h \in DOMAIN seen'
           /\ \A g \in DOMAIN seen' : g \in Kept => seen'[g] = seen[g]
           /\ h \notin Kept => seen'[h] = [key |-> k, at |-> now]
<1>1. CASE Remember(h, k)
  <2>1. PICK S \in Survivors :
          seen' = [g \in S \cup {h} |-> IF g = h THEN [key |-> k, at |-> now] ELSE seen[g]]
    BY <1>1 DEF Remember
  <2>2. S \subseteq Kept
    BY DEF Survivors
  <2> QED
    BY <1>1, <2>1, <2>2 DEF Remember
<1>2. CASE Recognise(h, k)
  BY <1>2 DEF Recognise, Purged
<1> QED
  BY <1>1, <1>2 DEF Accept

\* What a refused one leaves.
LEMMA AfterRefusal ==
    ASSUME TypeOK, NEW h \in Headers, NEW k \in Keys, RefuseReplay(h, k)
    PROVE  /\ h \in Kept /\ seen[h].key # k
           /\ DOMAIN seen' = Kept
           /\ \A g \in Kept : seen'[g] = seen[g]
  BY DEF RefuseReplay, Contradict, Purged

\* What is kept was in the cache, and less than a ttl ago.
LEMMA KeptIsYoung ==
    \A h \in Kept : h \in DOMAIN seen /\ now - seen[h].at < Tolerance
  BY DEF Kept

\* What was in the cache and is not kept is as old as the ttl.
LEMMA DroppedIsOld ==
    \A h \in DOMAIN seen : h \notin Kept => ~(now - seen[h].at < Tolerance)
  BY DEF Kept

\* The history remembers what was accepted now, and what it remembered before.
LEMMA AfterDelivery ==
    ASSUME TypeOK, NEW p \in passed, Deliver(p)
    PROVE  /\ p.headers \in Headers /\ p.key \in Keys /\ Accept(p.headers, p.key)
           /\ now' = now /\ now \in Nat /\ refusals' = refusals
           /\ \A g \in Headers \ {p.headers} : bound'[g] = bound[g]
           /\ p.headers \in Kept => bound' = bound
           /\ p.headers \notin Kept =>
                 /\ bound'[p.headers][p.key] = now
                 /\ \A j \in Keys \ {p.key} : bound'[p.headers][j] = bound[p.headers][j]
<1>1. p.headers \in Headers /\ p.key \in Keys
  BY DEF TypeOK
<1> QED
  BY <1>1 DEF Deliver, TypeOK

LEMMA TypePreserved ==
    ASSUME TypeOK, [Next]_vars
    PROVE  TypeOK'
<1>1. CASE UNCHANGED vars
  BY <1>1 DEF vars, TypeOK
<1>2. CASE Tick
  BY <1>2 DEF Tick, Advance, TypeOK
<1>3. CASE SetClock
  BY <1>3, EnvelopeAssumption DEF SetClock, TypeOK
<1>4. ASSUME NEW x \in Handlers, NEW h \in Headers, NEW k \in Keys, Verify(x, h, k)
      PROVE  TypeOK'
  BY <1>4 DEF Verify, TypeOK
<1>5. ASSUME NEW p \in passed, Deliver(p)
      PROVE  TypeOK'
  <2> DEFINE h == p.headers
             k == p.key
  <2>1. h \in Headers /\ k \in Keys /\ Accept(h, k)
    BY <1>5, AfterDelivery
  <2>2. now' = now /\ wall' = wall /\ refusals' = refusals /\ passed' = passed \ {p}
    BY <1>5 DEF Deliver
  <2>3. DOMAIN seen' \subseteq Headers
    BY <2>1, AfterAccept, KeptIsYoung DEF TypeOK
  <2>4. \A g \in DOMAIN seen' : seen'[g] \in Seen
    <3> SUFFICES ASSUME NEW g \in DOMAIN seen'
                 PROVE  seen'[g] \in Seen
      OBVIOUS
    <3>1. CASE g \in Kept
      BY <2>1, <3>1, AfterAccept, KeptIsYoung DEF TypeOK
    <3>2. CASE g \notin Kept
      <4>1. g = h /\ seen'[h] = [key |-> k, at |-> now]
        BY <2>1, <3>2, AfterAccept
      <4>2. now \in Nat
        BY DEF TypeOK
      <4> HIDE DEF h, k
      <4> QED
        BY <2>1, <4>1, <4>2 DEF Seen
    <3> QED
      BY <3>1, <3>2
  <2>5. bound' \in [Headers -> [Keys -> Int]]
    <3>1. /\ bound \in [Headers -> [Keys -> Int]] /\ now \in Int
          /\ bound' = bound \/ bound' = [bound EXCEPT ![h][k] = now]
      BY <1>5 DEF Deliver, TypeOK
    <3> HIDE DEF h, k
    <3> QED
      BY <2>1, <3>1
  <2> QED
    BY <2>2, <2>3, <2>4, <2>5 DEF TypeOK
<1>6. ASSUME NEW p \in passed, Bounce(p)
      PROVE  TypeOK'
  <2>1. p.headers \in Headers /\ p.key \in Keys /\ RefuseReplay(p.headers, p.key)
    BY <1>6 DEF Bounce, TypeOK
  <2>2. /\ DOMAIN seen' = Kept
        /\ \A g \in Kept : seen'[g] = seen[g]
    BY <2>1, AfterRefusal
  <2>3. refusals' \subseteq [headers : Headers, key : Keys, at : Nat]
    BY <1>6, <2>1 DEF Bounce, TypeOK
  <2>4. now' = now /\ wall' = wall /\ bound' = bound /\ passed' = passed \ {p}
    BY <1>6 DEF Bounce
  <2> QED
    BY <2>2, <2>3, <2>4, KeptIsYoung DEF TypeOK
<1> QED
  BY <1>1, <1>2, <1>3, <1>4, <1>5, <1>6 DEF Next

-------------------------------------------------------------------------------
LEMMA SinceFinite ==
    ASSUME NEW b, NEW h, NEW t
    PROVE  IsFiniteSet(Since(b, h, t)) /\ Cardinality(Since(b, h, t)) \in Nat
<1>1. Since(b, h, t) \in SUBSET Headers
  BY DEF Since
<1> QED
  BY <1>1, ReplayAssumption, FS_Subset, FS_CardinalityType

\* The others that were remembered since t only become more.
LEMMA SinceGrows ==
    ASSUME TypeOK, Remembered, NEW p \in passed, Deliver(p), NEW h, NEW t \in Int
    PROVE  Cardinality(Since(bound', h, t)) >= Cardinality(Since(bound, h, t))
<1>1. ASSUME NEW g \in Headers, NEW k \in Keys, bound[g][k] # Never, bound[g][k] >= t
      PROVE  bound'[g][k] # Never /\ bound'[g][k] >= t
  <2>1. CASE bound'[g][k] = bound[g][k]
    BY <1>1, <2>1
  <2>2. CASE bound'[g][k] = now
    <3>1. bound[g][k] <= now /\ bound[g][k] \in Int /\ now \in Nat
      BY <1>1 DEF Remembered, TypeOK
    <3> QED
      BY <1>1, <2>2, <3>1 DEF Never
  <2> QED
    BY <2>1, <2>2, AfterDelivery
<1>2. Since(bound, h, t) \in SUBSET Since(bound', h, t)
  BY <1>1 DEF Since
<1>3. Cardinality(Since(bound, h, t)) <= Cardinality(Since(bound', h, t))
  BY <1>2, SinceFinite, FS_Subset
<1> QED
  BY <1>3, SinceFinite

\* Whom an insertion leaves out: nobody, or at the limit one of the oldest, and
\* then the others and the new one were remembered since.
LEMMA Pushed ==
    ASSUME TypeOK, Remembered, NEW p \in passed, Deliver(p), NEW old \in Kept,
           old \notin DOMAIN seen'
    PROVE  Cardinality(Since(bound', old, seen[old].at)) >= MaxHeaders
<1> DEFINE h == p.headers
           k == p.key
<1>1. h \in Headers /\ k \in Keys /\ Accept(h, k)
  BY AfterDelivery
<1>2. ~Recognise(h, k)
  BY DEF Recognise, Purged
<1>3. Remember(h, k)
  BY <1>1, <1>2 DEF Accept
<1>4. PICK S \in Survivors :
        seen' = [g \in S \cup {h} |-> IF g = h THEN [key |-> k, at |-> now] ELSE seen[g]]
  BY <1>3 DEF Remember
<1>5. old \notin S /\ h \notin Kept /\ h # old
  BY <1>3, <1>4 DEF Remember
<1>6. Cardinality(Kept) >= MaxHeaders
  BY <1>5 DEF Survivors
<1>7. \A g \in Kept : seen[old].at <= seen[g].at
  <2>1. PICK x \in {x \in Kept : \A g \in Kept : seen[x].at <= seen[g].at} : S = Kept \ {x}
    BY <1>6 DEF Survivors
  <2> QED
    BY <1>5, <2>1
<1>8. \A g \in Kept : g \in Headers /\ g \in DOMAIN seen /\ seen[g] \in Seen
  BY KeptIsYoung DEF TypeOK
<1>9. ASSUME NEW g \in Kept \ {old}
      PROVE  g \in Since(bound', old, seen[old].at)
  <2>1. /\ seen[g].key \in Keys /\ seen[g].at \in Nat
        /\ bound[g][seen[g].key] = seen[g].at
    BY <1>8 DEF Remembered, Seen
  <2>2. bound'[g] = bound[g]
    BY <1>5, <1>8, AfterDelivery
  <2>3. seen[g].at # Never
    BY <2>1 DEF Never
  <2> QED
    BY <1>7, <1>8, <2>1, <2>2, <2>3 DEF Since
<1>10. h \in Since(bound', old, seen[old].at)
  <2>1. bound'[h][k] = now /\ now \in Nat
    BY <1>5, AfterDelivery
  <2>2. seen[old].at <= now /\ seen[old].at \in Nat
    BY <1>8 DEF Remembered, Seen
  <2>3. now # Never /\ now >= seen[old].at
    BY <2>1, <2>2 DEF Never
  <2> HIDE DEF h, k
  <2> QED
    BY <1>1, <1>5, <2>1, <2>3 DEF Since
<1> HIDE DEF h, k
<1>11. IsFiniteSet(Kept) /\ Cardinality(Kept) \in Nat
  BY <1>8, ReplayAssumption, FS_Subset, FS_CardinalityType
<1> DEFINE rest == Kept \ {old}
           young == rest \cup {h}
<1>12. IsFiniteSet(rest) /\ Cardinality(rest) = Cardinality(Kept) - 1 /\ h \notin rest
  BY <1>5, <1>11, FS_RemoveElement
<1>13. young \in SUBSET Since(bound', old, seen[old].at)
  BY <1>9, <1>10
<1> HIDE DEF rest
<1>14. Cardinality(young) = Cardinality(rest) + 1
  BY <1>12, FS_AddElement
<1> HIDE DEF young
<1>15. Cardinality(young) <= Cardinality(Since(bound', old, seen[old].at))
  BY <1>13, SinceFinite, FS_Subset
<1>16. MaxHeaders \in Nat /\ Cardinality(Since(bound', old, seen[old].at)) \in Nat
  BY ReplayAssumption, SinceFinite
<1> QED
  BY <1>6, <1>11, <1>12, <1>14, <1>15, <1>16

\* Those remembered since a time are among those remembered since an earlier one.
LEMMA SinceEarlier ==
    ASSUME NEW b \in [Headers -> [Keys -> Int]], NEW h, NEW s \in Int, NEW t \in Int, s <= t
    PROVE  Cardinality(Since(b, h, s)) >= Cardinality(Since(b, h, t))
<1>1. Since(b, h, t) \in SUBSET Since(b, h, s)
  BY DEF Since
<1>2. Cardinality(Since(b, h, t)) <= Cardinality(Since(b, h, s))
  BY <1>1, SinceFinite, FS_Subset
<1> QED
  BY <1>2, SinceFinite

\* An entry that is gone by age leaves bindings that are as old.
LEMMA OldBinding ==
    ASSUME TypeOK, Remembered, NEW h \in DOMAIN seen, h \notin Kept, NEW k \in Keys
    PROVE  now - bound[h][k] >= Tolerance
<1>1. ~(now - seen[h].at < Tolerance)
  BY DroppedIsOld
<1>2. seen[h].at \in Nat /\ bound[h][k] \in Int /\ now \in Nat /\ bound[h][k] <= seen[h].at
  BY DEF TypeOK, Seen, Remembered
<1> QED
  BY <1>1, <1>2, ReplayAssumption

\* What the cache holds after a request was accepted.
LEMMA EntriesRemembered ==
    ASSUME TypeOK, Remembered, NEW p \in passed, Deliver(p), NEW g \in DOMAIN seen'
    PROVE  /\ seen'[g].at <= now
           /\ bound'[g][seen'[g].key] = seen'[g].at
           /\ \A j \in Keys : bound'[g][j] <= seen'[g].at
<1> DEFINE h == p.headers
           k == p.key
<1>1. h \in Headers /\ k \in Keys /\ Accept(h, k) /\ now \in Nat
  BY AfterDelivery
<1>2. CASE g \in Kept
  <2>1. g \in Headers /\ g \in DOMAIN seen /\ seen'[g] = seen[g]
    BY <1>1, <1>2, AfterAccept, KeptIsYoung DEF TypeOK
  <2>2. bound'[g] = bound[g]
    BY <1>2, <2>1, AfterDelivery
  <2> QED
    BY <2>1, <2>2 DEF Remembered
<1>3. CASE g \notin Kept
  <2>1. g = h /\ seen'[g] = [key |-> k, at |-> now]
    BY <1>1, <1>3, AfterAccept
  <2>2. bound'[g][k] = now /\ \A j \in Keys \ {k} : bound'[g][j] = bound[g][j]
    BY <1>3, <2>1, AfterDelivery
  <2>3. \A j \in Keys : bound[g][j] <= now
    <3>1. \A j \in Keys : bound[g][j] = Never \/ bound[g][j] <= now
      BY <1>1, <2>1 DEF Remembered
    <3> QED
      BY <1>1, <3>1 DEF Never
  <2>4. \A j \in Keys : bound'[g][j] <= now
    BY <1>1, <2>2, <2>3
  <2> HIDE DEF h, k
  <2> QED
    BY <1>1, <2>1, <2>2, <2>4
<1> QED
  BY <1>2, <1>3

\* What the history then says of any headers.
LEMMA BindingsRemembered ==
    ASSUME TypeOK, TypeOK', Remembered, NEW p \in passed, Deliver(p),
           NEW g \in Headers, NEW j \in Keys, bound'[g][j] # Never
    PROVE  /\ bound'[g][j] <= now
           /\ \/ now - bound'[g][j] >= Tolerance
              \/ Cardinality(Since(bound', g, bound'[g][j])) >= MaxHeaders
              \/ g \in DOMAIN seen'
<1> DEFINE h == p.headers
           k == p.key
<1>1. h \in Headers /\ k \in Keys /\ Accept(h, k) /\ now \in Nat
  BY AfterDelivery
<1>2. bound'[g][j] <= now
  <2>1. CASE bound'[g][j] = bound[g][j]
    BY <2>1 DEF Remembered
  <2>2. CASE bound'[g][j] = now
    BY <1>1, <2>2
  <2> QED
    BY <2>1, <2>2, AfterDelivery
<1>3. CASE g = h
  BY <1>1, <1>2, <1>3, AfterAccept
<1>4. CASE g # h
  <2>1. bound'[g][j] = bound[g][j] /\ bound[g][j] \in Int
    BY <1>4, AfterDelivery DEF TypeOK
  <2>2. CASE now - bound[g][j] >= Tolerance
    BY <1>2, <2>1, <2>2
  <2>3. CASE Cardinality(Since(bound, g, bound[g][j])) >= MaxHeaders
    <3>1. Cardinality(Since(bound', g, bound[g][j])) >= Cardinality(Since(bound, g, bound[g][j]))
      BY <2>1, SinceGrows
    <3>2. /\ Cardinality(Since(bound', g, bound[g][j])) \in Nat
          /\ Cardinality(Since(bound, g, bound[g][j])) \in Nat /\ MaxHeaders \in Nat
      BY SinceFinite, ReplayAssumption
    <3>3. Cardinality(Since(bound', g, bound[g][j])) >= MaxHeaders
      BY <2>3, <3>1, <3>2
    <3> QED
      BY <1>2, <2>1, <3>3
  <2>4. CASE g \in DOMAIN seen /\ g \notin Kept
    BY <1>2, <2>1, <2>4, OldBinding
  <2>5. CASE g \in Kept /\ g \notin DOMAIN seen'
    <3>1. Cardinality(Since(bound', g, seen[g].at)) >= MaxHeaders
      BY <2>5, Pushed
    <3>2. g \in DOMAIN seen /\ seen[g].at \in Nat /\ bound[g][j] <= seen[g].at
      BY <2>5, KeptIsYoung DEF TypeOK, Seen, Remembered
    <3>3. bound' \in [Headers -> [Keys -> Int]]
      BY DEF TypeOK
    <3>4. Cardinality(Since(bound', g, bound[g][j])) >= Cardinality(Since(bound', g, seen[g].at))
      BY <2>1, <3>2, <3>3, SinceEarlier
    <3>5. /\ Cardinality(Since(bound', g, bound[g][j])) \in Nat
          /\ Cardinality(Since(bound', g, seen[g].at)) \in Nat /\ MaxHeaders \in Nat
      BY SinceFinite, ReplayAssumption
    <3>6. Cardinality(Since(bound', g, bound[g][j])) >= MaxHeaders
      BY <3>1, <3>4, <3>5
    <3> QED
      BY <1>2, <2>1, <3>6
  <2>6. CASE g \in DOMAIN seen'
    BY <1>2, <2>6
  <2>7. bound[g][j] # Never
    BY <2>1
  <2>8. \/ now - bound[g][j] >= Tolerance
        \/ Cardinality(Since(bound, g, bound[g][j])) >= MaxHeaders
        \/ g \in DOMAIN seen
    BY <2>7 DEF Remembered
  <2> QED
    BY <2>2, <2>3, <2>4, <2>5, <2>6, <2>8
<1> QED
  BY <1>3, <1>4

LEMMA RememberedPreserved ==
    ASSUME TypeOK, TypeOK', Remembered, [Next]_vars
    PROVE  Remembered'
<1>1. CASE UNCHANGED <<now, seen, bound>>
  BY <1>1 DEF Remembered
<1>2. CASE Tick
  <2>1. now' = now + 1 /\ seen' = seen /\ bound' = bound /\ now \in Nat
    BY <1>2 DEF Tick, Advance, TypeOK
  <2>2. \A h \in DOMAIN seen : seen[h].at \in Nat
    BY DEF TypeOK, Seen
  <2>3. \A h \in Headers, k \in Keys : bound[h][k] \in Int
    BY DEF TypeOK
  <2>4. \A h \in DOMAIN seen : seen[h].at <= now + 1
    BY <2>1, <2>2 DEF Remembered
  <2>5. ASSUME NEW h \in Headers, NEW k \in Keys, bound[h][k] # Never
        PROVE  /\ bound[h][k] <= now + 1
               /\ now - bound[h][k] >= Tolerance => now + 1 - bound[h][k] >= Tolerance
    <3>1. bound[h][k] \in Int /\ bound[h][k] <= now
      BY <2>3, <2>5 DEF Remembered
    <3>2. Tolerance \in Nat
      BY ReplayAssumption
    <3> QED
      BY <2>1, <3>1, <3>2
  <2>6. \A h \in Headers, k \in Keys :
          bound[h][k] # Never =>
              /\ bound[h][k] <= now + 1
              /\ \/ now + 1 - bound[h][k] >= Tolerance
                 \/ Cardinality(Since(bound, h, bound[h][k])) >= MaxHeaders
                 \/ h \in DOMAIN seen
    BY <2>5 DEF Remembered
  <2>7. \A h \in DOMAIN seen :
          /\ bound[h][seen[h].key] = seen[h].at
          /\ \A k \in Keys : bound[h][k] <= seen[h].at
    BY DEF Remembered
  <2>8. \A h \in DOMAIN seen' :
          /\ seen'[h].at <= now'
          /\ bound'[h][seen'[h].key] = seen'[h].at
          /\ \A k \in Keys : bound'[h][k] <= seen'[h].at
    BY <2>1, <2>4, <2>7
  <2>9. ASSUME NEW h \in Headers, NEW k \in Keys, bound'[h][k] # Never
        PROVE  /\ bound'[h][k] <= now'
               /\ \/ now' - bound'[h][k] >= Tolerance
                  \/ Cardinality(Since(bound', h, bound'[h][k])) >= MaxHeaders
                  \/ h \in DOMAIN seen'
    <3>1. bound'[h][k] = bound[h][k] /\ bound[h][k] # Never /\ now' = now + 1 /\ seen' = seen
      BY <2>1, <2>9
    <3>2. Since(bound', h, bound'[h][k]) = Since(bound, h, bound[h][k])
      BY <2>1 DEF Since
    <3>3. bound'[h][k] <= now'
      BY <2>6, <3>1
    <3>4. \/ now' - bound'[h][k] >= Tolerance
          \/ Cardinality(Since(bound, h, bound[h][k])) >= MaxHeaders
          \/ h \in DOMAIN seen'
      <4>1. /\ now \in Nat /\ bound[h][k] \in Int /\ Tolerance \in Nat /\ MaxHeaders \in Nat
            /\ Cardinality(Since(bound, h, bound[h][k])) \in Nat
        BY <2>1, <2>3, ReplayAssumption, SinceFinite
      <4> QED
        BY <2>6, <3>1, <4>1
    <3> QED
      BY <3>2, <3>3, <3>4
  <2> QED
    BY <2>8, <2>9 DEF Remembered
<1>3. CASE SetClock
  BY <1>1, <1>3 DEF SetClock
<1>4. ASSUME NEW x \in Handlers, NEW h \in Headers, NEW k \in Keys, Verify(x, h, k)
      PROVE  Remembered'
  BY <1>1, <1>4 DEF Verify
<1>5. ASSUME NEW p \in passed, Deliver(p)
      PROVE  Remembered'
  <2>1. now' = now
    BY <1>5, AfterDelivery
  <2>2. \A g \in DOMAIN seen' :
          /\ seen'[g].at <= now
          /\ bound'[g][seen'[g].key] = seen'[g].at
          /\ \A j \in Keys : bound'[g][j] <= seen'[g].at
    BY <1>5, EntriesRemembered
  <2>3. \A g \in Headers, j \in Keys :
          bound'[g][j] # Never =>
              /\ bound'[g][j] <= now
              /\ \/ now - bound'[g][j] >= Tolerance
                 \/ Cardinality(Since(bound', g, bound'[g][j])) >= MaxHeaders
                 \/ g \in DOMAIN seen'
    BY <1>5, BindingsRemembered
  <2> QED
    BY <2>1, <2>2, <2>3 DEF Remembered
<1>6. ASSUME NEW p \in passed, Bounce(p)
      PROVE  Remembered'
  <2>1. p.headers \in Headers /\ p.key \in Keys /\ RefuseReplay(p.headers, p.key)
    BY <1>6 DEF Bounce, TypeOK
  <2>2. /\ now' = now /\ bound' = bound
        /\ DOMAIN seen' = Kept
        /\ \A g \in Kept : seen'[g] = seen[g]
    BY <1>6, <2>1, AfterRefusal DEF Bounce
  <2>3. ASSUME NEW g \in DOMAIN seen'
        PROVE  /\ seen'[g].at <= now
               /\ bound'[g][seen'[g].key] = seen'[g].at
               /\ \A j \in Keys : bound'[g][j] <= seen'[g].at
    BY <2>2, <2>3, KeptIsYoung DEF Remembered
  <2>4. ASSUME NEW g \in Headers, NEW j \in Keys, bound[g][j] # Never
        PROVE  /\ bound[g][j] <= now
               /\ \/ now - bound[g][j] >= Tolerance
                  \/ Cardinality(Since(bound, g, bound[g][j])) >= MaxHeaders
                  \/ g \in DOMAIN seen'
    BY <2>2, <2>4, OldBinding DEF Remembered
  <2> QED
    BY <2>2, <2>3, <2>4 DEF Remembered
<1> QED
  BY <1>1, <1>2, <1>3, <1>4, <1>5, <1>6 DEF Next, vars

LEMMA RefusalsPreserved ==
    ASSUME TypeOK, TypeOK', Remembered, Refused, RefusalIsJustified, [Next]_vars
    PROVE  Refused' /\ RefusalIsJustified'
<1> USE ReplayAssumption DEF Never
<1>1. CASE UNCHANGED <<now, bound, refusals>>
  BY <1>1 DEF Refused, RefusalIsJustified
<1>2. CASE Tick
  <2>1. ASSUME NEW r \in refusals
        PROVE  r.at <= now + 1
    BY <2>1 DEF Refused, TypeOK
  <2> QED
    BY <1>2, <2>1 DEF Tick, Advance, Refused, RefusalIsJustified
<1>3. CASE SetClock
  BY <1>1, <1>3 DEF SetClock
<1>4. ASSUME NEW x \in Handlers, NEW h \in Headers, NEW k \in Keys, Verify(x, h, k)
      PROVE  Refused' /\ RefusalIsJustified'
  BY <1>1, <1>4 DEF Verify
<1>5. ASSUME NEW p \in passed, Deliver(p)
      PROVE  Refused' /\ RefusalIsJustified'
  <2>1. now' = now /\ refusals' = refusals /\ now \in Nat
    BY <1>5, AfterDelivery
  <2>2. \A g \in Headers, j \in Keys : bound'[g][j] # bound[g][j] => bound'[g][j] = now
    BY <1>5, AfterDelivery
  <2>3. ASSUME NEW r \in refusals
        PROVE  \E other \in Keys \ {r.key} :
                  /\ bound'[r.headers][other] # Never
                  /\ r.at - bound'[r.headers][other] < Tolerance
    <3>1. PICK other \in Keys \ {r.key} :
            bound[r.headers][other] # Never /\ r.at - bound[r.headers][other] < Tolerance
      BY DEF RefusalIsJustified
    <3>2. r.headers \in Headers /\ r.at \in Nat /\ r.at <= now
      BY DEF TypeOK, Refused
    <3>3. CASE bound'[r.headers][other] = bound[r.headers][other]
      BY <3>1, <3>3
    <3>4. CASE bound'[r.headers][other] = now
      <4>1. now # Never /\ r.at - now < Tolerance
        BY <2>1, <3>2
      <4> QED
        BY <3>4, <4>1
    <3> QED
      BY <2>2, <3>2, <3>3, <3>4
  <2> QED
    BY <2>1, <2>3 DEF Refused, RefusalIsJustified
<1>6. ASSUME NEW p \in passed, Bounce(p)
      PROVE  Refused' /\ RefusalIsJustified'
  <2> DEFINE h == p.headers
             k == p.key
  <2>1. h \in Headers /\ k \in Keys /\ RefuseReplay(h, k)
    BY <1>6 DEF Bounce, TypeOK
  <2>2. now' = now /\ bound' = bound /\ now \in Nat
    BY <1>6 DEF Bounce, TypeOK
  <2>3. h \in Kept /\ seen[h].key # k
    BY <2>1, AfterRefusal
  <2>4. /\ seen[h] \in Seen /\ now - seen[h].at < Tolerance
        /\ bound[h][seen[h].key] = seen[h].at
    BY <2>3, KeptIsYoung DEF TypeOK, Remembered
  <2>5. refusals' = {[headers |-> h, key |-> k, at |-> now]}
    BY <1>6 DEF Bounce
  <2> HIDE DEF h, k
  <2>6. /\ seen[h].key \in Keys \ {k}
        /\ bound[h][seen[h].key] # Never
        /\ now - bound[h][seen[h].key] < Tolerance
    BY <2>3, <2>4 DEF Seen
  <2> QED
    BY <2>2, <2>5, <2>6 DEF Refused, RefusalIsJustified
<1> QED
  BY <1>1, <1>2, <1>3, <1>4, <1>5, <1>6 DEF Next, vars

LEMMA BindingInvInit == Init => BindingInv
  BY DEF Init, ReplayInit, BindingInv, TypeOK, Remembered, Refused, RefusalIsJustified, Never

LEMMA BindingInvPreserved == BindingInv /\ [Next]_vars => BindingInv'
  BY TypePreserved, RememberedPreserved, RefusalsPreserved DEF BindingInv

\* The types of the cache, of the requests on their way to it and of the histories.
THEOREM TypeCorrect == Spec => []TypeOK
<1>1. BindingInv => TypeOK
  BY DEF BindingInv
<1> QED
  BY <1>1, BindingInvInit, BindingInvPreserved, PTL DEF Spec

\* Nothing is refused that was not accepted under another key less than a ttl
\* before: DifferentIdempotencyKey is never a false alarm.
THEOREM NoFalseAlarm == Spec => []RefusalIsJustified
<1>1. BindingInv => RefusalIsJustified
  BY DEF BindingInv
<1> QED
  BY <1>1, BindingInvInit, BindingInvPreserved, PTL DEF Spec

-------------------------------------------------------------------------------
\* A step binds headers to a key only if no young binding to another is in the
\* cache, or so many others were remembered since that it had no room.
LEMMA BindingStep ==
    ASSUME BindingInv, [Next]_vars, NEW h \in Headers, NEW k \in Keys,
           bound'[h][k] # bound[h][k], NEW other \in Keys \ {k}
    PROVE  \/ bound[h][other] = Never
           \/ now - bound[h][other] >= Tolerance
           \/ Cardinality(RememberedSince(h, bound[h][other])) >= MaxHeaders
<1> USE DEF BindingInv
<1>1. CASE bound' = bound
  BY <1>1
<1>2. ASSUME NEW p \in passed, Deliver(p)
      PROVE  \/ bound[h][other] = Never
             \/ now - bound[h][other] >= Tolerance
             \/ Cardinality(RememberedSince(h, bound[h][other])) >= MaxHeaders
  <2>1. h \notin Kept
    BY <1>2, AfterDelivery
  <2>2. CASE h \in DOMAIN seen
    BY <2>1, <2>2, OldBinding
  <2>3. CASE h \notin DOMAIN seen
    <3>1. RememberedSince(h, bound[h][other]) = Since(bound, h, bound[h][other])
      BY DEF RememberedSince, Since
    <3> QED
      BY <2>3, <3>1 DEF Remembered
  <2> QED
    BY <2>2, <2>3
<1>3. bound' = bound \/ \E p \in passed : Deliver(p)
  BY DEF Next, vars, Tick, SetClock, Verify, Bounce
<1> QED
  BY <1>1, <1>2, <1>3

\* A request stays bound to the key it was first accepted under for a ttl, or until
\* the headers remembered since fill the cache.
THEOREM Binding == Spec => BoundToFirstKey
<1>1. BindingInv /\ [Next]_vars =>
        [\A h \in Headers, k \in Keys :
            bound'[h][k] # bound[h][k] =>
                \A other \in Keys \ {k} :
                    \/ bound[h][other] = Never
                    \/ now - bound[h][other] >= Tolerance
                    \/ Cardinality(RememberedSince(h, bound[h][other])) >= MaxHeaders]_vars
  BY BindingStep
<1> QED
  BY <1>1, BindingInvInit, BindingInvPreserved, PTL DEF Spec, BoundToFirstKey

-------------------------------------------------------------------------------
(* The rate limiter: sums over stretches of time *)

\* Adding one at a point adds one to a sum.  (The limiter has a Bump of its own.)
LEMMA AddOne ==
    ASSUME NEW S, NEW f \in [S -> Nat], NEW x \in S, IsFiniteSet(Units(f)),
           NEW g, g = [f EXCEPT ![x] = @ + 1]
    PROVE  IsFiniteSet(Units(g)) /\ Total(g) = Total(f) + 1
<1> DEFINE unit == <<x, f[x] + 1>>
<1>1. /\ DOMAIN f = S /\ DOMAIN g = S /\ f[x] \in Nat /\ g[x] = f[x] + 1
      /\ \A y \in S : y # x => g[y] = f[y]
  OBVIOUS
<1>2. /\ \A y, n : <<y, n>> \in Units(f) <=> y \in S /\ n \in 1..f[y]
      /\ \A y, n : <<y, n>> \in Units(g) <=> y \in S /\ n \in 1..g[y]
  BY <1>1 DEF Units
<1>3. \A u \in Units(f) \cup Units(g) : \E y, n : u = <<y, n>>
  BY DEF Units
<1>4. 1..(f[x] + 1) = (1..f[x]) \cup {f[x] + 1} /\ f[x] + 1 \notin 1..f[x]
  BY <1>1
<1>5. Units(g) = Units(f) \cup {unit} /\ unit \notin Units(f)
  <2>1. ASSUME NEW y, NEW n
        PROVE  <<y, n>> \in Units(g) <=> (<<y, n>> \in Units(f) \/ <<y, n>> = unit)
    <3>1. CASE y = x
      BY <3>1, <1>1, <1>2, <1>4
    <3>2. CASE y # x
      BY <3>2, <1>1, <1>2
    <3> QED
      BY <3>1, <3>2
  <2>2. unit \notin Units(f)
    BY <1>2, <1>4
  <2>3. ASSUME NEW u \in Units(g) PROVE u \in Units(f) \/ u = unit
    <3>1. PICK y, n : u = <<y, n>>
      BY <1>3
    <3> QED
      BY <2>1, <3>1
  <2>4. ASSUME NEW u \in Units(f) PROVE u \in Units(g)
    <3>1. PICK y, n : u = <<y, n>>
      BY <1>3
    <3> QED
      BY <2>1, <3>1
  <2>5. unit \in Units(g)
    BY <2>1
  <2> HIDE DEF unit
  <2> QED
    BY <2>2, <2>3, <2>4, <2>5
<1> HIDE DEF unit
<1>6. /\ IsFiniteSet(Units(f) \cup {unit})
      /\ Cardinality(Units(f) \cup {unit}) = Cardinality(Units(f)) + 1
  BY <1>5, FS_AddElement
<1> QED
  BY <1>5, <1>6 DEF Total

\* The part of f from s up to, but not including, e, and its sum.
Part(f, s, e) == Units([t \in {u \in Times : s <= u /\ u < e} |-> f[t]])

Sum(f, s, e) == Cardinality(Part(f, s, e))

Counts(f) == f \in [Times -> Nat] /\ IsFiniteSet(Units(f))

LEMMA PartIs ==
    ASSUME NEW f, NEW s, NEW e
    PROVE  /\ \A t, n : <<t, n>> \in Part(f, s, e) <=>
                           t \in Times /\ s <= t /\ t < e /\ n \in 1..f[t]
           /\ \A x \in Part(f, s, e) : \E t, n : x = <<t, n>>
  BY DEF Part, Units

LEMMA SumType ==
    ASSUME NEW f, Counts(f), NEW s, NEW e
    PROVE  IsFiniteSet(Part(f, s, e)) /\ Sum(f, s, e) \in Nat
<1>1. Part(f, s, e) \subseteq Units(f)
  BY DEF Part, Units, Counts
<1>2. IsFiniteSet(Part(f, s, e))
  BY <1>1, FS_Subset DEF Counts
<1> QED
  BY <1>2, FS_CardinalityType DEF Sum

\* A stretch that takes in all that f has in another sums to no less.
LEMMA Contained ==
    ASSUME NEW f, Counts(f), NEW s \in Int, NEW e \in Int, NEW s2 \in Int, NEW e2 \in Int,
           \A t \in Times : s <= t /\ t < e /\ f[t] # 0 => s2 <= t /\ t < e2
    PROVE  Sum(f, s, e) <= Sum(f, s2, e2)
<1>1. \A t \in Times : \A n : n \in 1..f[t] => f[t] # 0
  BY DEF Counts
<1>2. Part(f, s, e) \subseteq Part(f, s2, e2)
  <2> SUFFICES ASSUME NEW x \in Part(f, s, e) PROVE x \in Part(f, s2, e2)
    OBVIOUS
  <2>1. PICK t, n : x = <<t, n>>
    BY PartIs
  <2>2. t \in Times /\ s <= t /\ t < e /\ n \in 1..f[t]
    BY <2>1, PartIs
  <2>3. s2 <= t /\ t < e2
    BY <1>1, <2>2
  <2> QED
    BY <2>1, <2>2, <2>3, PartIs
<1>3. IsFiniteSet(Part(f, s2, e2))
  BY SumType
<1> QED
  BY <1>2, <1>3, FS_Subset DEF Sum

\* A sum over two stretches that meet.
LEMMA Split ==
    ASSUME NEW f, Counts(f), NEW s \in Int, NEW m \in Int, NEW e \in Int
    PROVE  Sum(f, s, e) <= Sum(f, s, m) + Sum(f, m, e)
<1> DEFINE before == Part(f, s, m)
           after == Part(f, m, e)
<1>1. Part(f, s, e) \subseteq before \cup after
  <2> SUFFICES ASSUME NEW x \in Part(f, s, e) PROVE x \in before \/ x \in after
    OBVIOUS
  <2>1. PICK t, n : x = <<t, n>>
    BY PartIs
  <2>2. t \in Times /\ s <= t /\ t < e /\ n \in 1..f[t]
    BY <2>1, PartIs
  <2>3. t < m \/ m <= t
    BY <2>2 DEF Times
  <2> QED
    BY <2>1, <2>2, <2>3, PartIs
<1>2. IsFiniteSet(before) /\ IsFiniteSet(after) /\ IsFiniteSet(before \cap after)
  BY SumType, FS_Intersection
<1>3. /\ IsFiniteSet(before \cup after)
      /\ Cardinality(before \cup after)
           = Cardinality(before) + Cardinality(after) - Cardinality(before \cap after)
  BY <1>2, FS_Union
<1>4. Cardinality(Part(f, s, e)) <= Cardinality(before \cup after)
  BY <1>1, <1>3, FS_Subset
<1>5. /\ Cardinality(before) \in Nat /\ Cardinality(after) \in Nat
      /\ Cardinality(before \cap after) \in Nat /\ Cardinality(Part(f, s, e)) \in Nat
  BY <1>2, SumType, FS_CardinalityType
<1> QED
  BY <1>3, <1>4, <1>5 DEF Sum

LEMMA Nothing ==
    ASSUME NEW f, Counts(f), NEW s \in Int, NEW e \in Int,
           \A t \in Times : s <= t /\ t < e => f[t] = 0
    PROVE  Sum(f, s, e) = 0
<1>1. Part(f, s, e) = {}
  <2> SUFFICES ASSUME NEW x \in Part(f, s, e) PROVE FALSE
    OBVIOUS
  <2>1. PICK t, n : x = <<t, n>>
    BY PartIs
  <2>2. t \in Times /\ s <= t /\ t < e /\ n \in 1..f[t]
    BY <2>1, PartIs
  <2> QED
    BY <2>2
<1> QED
  BY <1>1, FS_EmptySet DEF Sum

\* g has one more than f, at x.
Adds(f, g, x) ==
    /\ Counts(g)
    /\ g[x] = f[x] + 1 /\ \A t \in Times : t # x => g[t] = f[t]
    /\ \A s, e \in Int :
          Sum(g, s, e) = IF s <= x /\ x < e THEN Sum(f, s, e) + 1 ELSE Sum(f, s, e)

LEMMA OneMore ==
    ASSUME NEW f, Counts(f), NEW x \in Times, NEW g, g = [f EXCEPT ![x] = @ + 1]
    PROVE  Adds(f, g, x)
<1>1. /\ g \in [Times -> Nat] /\ g[x] = f[x] + 1
      /\ \A t \in Times : t # x => g[t] = f[t]
  BY DEF Counts
<1>2. Counts(g)
  BY <1>1, AddOne DEF Counts
<1>3. ASSUME NEW s \in Int, NEW e \in Int
      PROVE  Sum(g, s, e) = IF s <= x /\ x < e THEN Sum(f, s, e) + 1 ELSE Sum(f, s, e)
  <2> DEFINE span == {u \in Times : s <= u /\ u < e}
             F == [t \in span |-> f[t]]
             G == [t \in span |-> g[t]]
  <2>1. Part(f, s, e) = Units(F) /\ Part(g, s, e) = Units(G)
    BY DEF Part
  <2>2. IsFiniteSet(Units(F))
    BY <2>1, SumType
  <2>3. CASE s <= x /\ x < e
    <3>1. x \in span /\ F \in [span -> Nat] /\ G = [F EXCEPT ![x] = @ + 1]
      BY <1>1, <2>3 DEF Counts
    <3> HIDE DEF span, F, G
    <3>2. Total(G) = Total(F) + 1
      BY <2>2, <3>1, AddOne
    <3> QED
      BY <2>1, <2>3, <3>2 DEF Sum, Total
  <2>4. CASE ~(s <= x /\ x < e)
    <3>1. F = G
      BY <1>1, <2>4
    <3> QED
      BY <2>1, <2>4, <3>1 DEF Sum
  <2> QED
    BY <2>3, <2>4
<1> QED
  BY <1>1, <1>2, <1>3 DEF Adds

LEMMA SumAfter ==
    ASSUME NEW f, NEW g, NEW x \in Int, Adds(f, g, x), NEW s \in Int, NEW e \in Int
    PROVE  /\ s <= x /\ x < e => Sum(g, s, e) = Sum(f, s, e) + 1
           /\ ~(s <= x /\ x < e) => Sum(g, s, e) = Sum(f, s, e)
  BY DEF Adds

-------------------------------------------------------------------------------
(* The rate limiter: what it promises over time *)

\* The state of a limiter of quota M and window W ticks at time t, with what it admitted:
\* nothing after the window's end or in the future; since the window's start, what the
\* counter says up to the quota; and in the stretch of a window's length that ends where
\* this one starts, no more than the quota.
Honest(w, f, t, M, W) ==
    /\ w.start <= t
    /\ \A u \in Times : u > t \/ u >= w.start + W => f[u] = 0
    /\ Sum(f, w.start, t + 1) = IF w.count > M THEN M ELSE w.count
    /\ \A s \in Times : s <= w.start /\ w.start < s + W => Sum(f, s, w.start) <= M
    /\ \A s \in Times : Sum(f, s, s + W) <= 2 * M

LEMMA TimesAreNat == Times \subseteq Nat
  BY ClockAssumption DEF Times

\* A stretch goes on after t, but there is nothing in it.
LEMMA NothingLater ==
    ASSUME NEW f, Counts(f), NEW s \in Int, NEW e \in Int, NEW t \in Nat,
           \A u \in Times : u > t => f[u] = 0
    PROVE  Sum(f, s, e) <= Sum(f, s, t + 1)
<1>1. \A u \in Times : s <= u /\ u < e /\ f[u] # 0 => s <= u /\ u < t + 1
  BY TimesAreNat
<1>2. t + 1 \in Int
  OBVIOUS
<1> QED
  BY <1>1, <1>2, Contained

\* Time passes.
LEMMA HonestLater ==
    ASSUME NEW w \in Window, NEW f, Counts(f), NEW t \in Nat, NEW M \in Nat \ {0},
           NEW W \in Nat \ {0}, Honest(w, f, t, M, W)
    PROVE  Honest(w, f, t + 1, M, W)
<1>1. w.start \in Nat /\ w.count \in Nat
  BY DEF Window
<1>2. \A u \in Times : u > t => f[u] = 0
  BY DEF Honest
<1>3. Sum(f, w.start, t + 2) <= Sum(f, w.start, t + 1)
  <2>1. \A u \in Times : w.start <= u /\ u < t + 2 /\ f[u] # 0 => w.start <= u /\ u < t + 1
    BY <1>1, <1>2, TimesAreNat
  <2> QED
    BY <1>1, <2>1, Contained
<1>4. Sum(f, w.start, t + 1) <= Sum(f, w.start, t + 2)
  <2>1. \A u \in Times : w.start <= u /\ u < t + 1 /\ f[u] # 0 => w.start <= u /\ u < t + 2
    BY <1>1, TimesAreNat
  <2> QED
    BY <1>1, <2>1, Contained
<1>5. Sum(f, w.start, t + 1) \in Nat /\ Sum(f, w.start, t + 2) \in Nat
  BY SumType
<1>6. Sum(f, w.start, (t + 1) + 1) = Sum(f, w.start, t + 1)
  BY <1>3, <1>4, <1>5
<1> QED
  BY <1>1, <1>2, <1>6, TimesAreNat DEF Honest

\* A request is refused, and counted.
LEMMA HonestRefused ==
    ASSUME NEW w \in Window, NEW f, NEW t \in Nat, NEW M \in Nat \ {0},
           NEW W \in Nat \ {0}, Honest(w, f, t, M, W),
           NEW v \in Window, v.start = w.start, v.count > M, v.count <= w.count + 1
    PROVE  Honest(v, f, t, M, W)
<1>1. w.count \in Nat /\ v.count \in Nat
  BY DEF Window
<1>2. (IF v.count > M THEN M ELSE v.count) = IF w.count > M THEN M ELSE w.count
  BY <1>1
<1> QED
  BY <1>2 DEF Honest

\* A request is admitted to the window.
LEMMA HonestAdmitted ==
    ASSUME NEW w \in Window, NEW f, Counts(f), NEW t \in Times, NEW M \in Nat \ {0},
           NEW W \in Nat \ {0}, Honest(w, f, t, M, W), t < w.start + W,
           NEW v \in Window, v.start = w.start, v.count = w.count + 1, v.count <= M,
           NEW g, g = [f EXCEPT ![t] = @ + 1]
    PROVE  Honest(v, g, t, M, W)
<1>1. w.start \in Nat /\ w.count \in Nat /\ t \in Nat /\ w.start <= t
  BY TimesAreNat DEF Honest, Window
<1>2. Adds(f, g, t)
  BY OneMore
<1>3. Counts(g) /\ \A u \in Times : u > t \/ u >= w.start + W => g[u] = 0
  BY <1>1, <1>2, TimesAreNat DEF Adds, Honest
<1>4. Sum(g, w.start, t + 1) = v.count
  <2>1. Sum(g, w.start, t + 1) = Sum(f, w.start, t + 1) + 1
    BY <1>1, <1>2, SumAfter
  <2>2. Sum(f, w.start, t + 1) = w.count
    BY <1>1 DEF Honest
  <2> QED
    BY <2>1, <2>2
<1>5. ASSUME NEW s \in Times
      PROVE  Sum(g, s, w.start) = Sum(f, s, w.start)
  <2>1. s \in Nat
    BY TimesAreNat
  <2> QED
    BY <1>1, <1>2, <2>1, SumAfter
<1>6. ASSUME NEW s \in Times
      PROVE  Sum(g, s, s + W) <= 2 * M
  <2>1. s \in Nat /\ s \in Int /\ s + W \in Int /\ t + 1 \in Int /\ w.start \in Int /\ Counts(g)
    BY <1>1, <1>3, TimesAreNat
  <2>2. CASE ~(s <= t /\ t < s + W)
    <3>1. Sum(g, s, s + W) = Sum(f, s, s + W)
      BY <1>1, <1>2, <2>1, <2>2, SumAfter
    <3> QED
      BY <3>1 DEF Honest
  \* What this window admitted is all there is of it.
  <2>3. CASE s <= t /\ t < s + W /\ s >= w.start
    <3>1. \A u \in Times : s <= u /\ u < s + W /\ g[u] # 0 => w.start <= u /\ u < t + 1
      BY <1>1, <1>3, <2>1, <2>3, TimesAreNat
    <3>2. Sum(g, s, s + W) <= Sum(g, w.start, t + 1)
      BY <2>1, <3>1, Contained
    <3>3. Sum(g, s, s + W) \in Nat
      BY <1>3, SumType
    <3> QED
      BY <1>1, <1>4, <3>2, <3>3
  \* It straddles the start: at most the quota on either side.
  <2>4. CASE s <= t /\ t < s + W /\ s < w.start
    <3>1. Sum(g, s, s + W) <= Sum(g, s, w.start) + Sum(g, w.start, s + W)
      BY <2>1, Split
    <3>2. Sum(g, w.start, s + W) <= Sum(g, w.start, t + 1)
      BY <1>1, <1>3, <2>1, NothingLater
    <3>3. Sum(g, s, w.start) <= M
      <4>1. w.start < s + W /\ s <= w.start
        BY <1>1, <2>1, <2>4
      <4>2. Sum(f, s, w.start) <= M
        BY <4>1 DEF Honest
      <4> QED
        BY <1>5, <4>2
    <3>4. /\ Sum(g, s, s + W) \in Nat /\ Sum(g, s, w.start) \in Nat
          /\ Sum(g, w.start, s + W) \in Nat
      BY <1>3, SumType
    <3> QED
      BY <1>1, <1>4, <3>1, <3>2, <3>3, <3>4
  <2> QED
    BY <1>1, <2>1, <2>2, <2>3, <2>4
<1>7. Sum(g, v.start, t + 1) = IF v.count > M THEN M ELSE v.count
  BY <1>4 DEF Window
<1>8. \A s \in Times : s <= v.start /\ v.start < s + W => Sum(g, s, v.start) <= M
  BY <1>5 DEF Honest
<1> QED
  BY <1>1, <1>3, <1>6, <1>7, <1>8 DEF Honest

\* A request is admitted that finds the window over, and starts another.
LEMMA HonestRestarted ==
    ASSUME NEW w \in Window, NEW f, Counts(f), NEW t \in Times, NEW M \in Nat \ {0},
           NEW W \in Nat \ {0}, Honest(w, f, t, M, W), w.start + W <= t,
           NEW v \in Window, v.start = t, v.count = 1,
           NEW g, g = [f EXCEPT ![t] = @ + 1]
    PROVE  Honest(v, g, t, M, W)
<1>1. /\ w.start \in Nat /\ w.count \in Nat /\ t \in Nat
      /\ \A u \in Times : u > t \/ u >= w.start + W => f[u] = 0
      /\ Sum(f, w.start, t + 1) <= M
  BY TimesAreNat DEF Honest, Window
<1>2. Adds(f, g, t)
  BY OneMore
<1>3. \A u \in Times : u > t \/ u >= t + W => g[u] = 0
  BY <1>1, <1>2, TimesAreNat DEF Adds
<1>4. Sum(g, t, t + 1) = 1
  <2>1. \A u \in Times : t <= u /\ u < t + 1 => f[u] = 0
    BY <1>1, TimesAreNat
  <2>2. Sum(f, t, t + 1) = 0
    BY <1>1, <2>1, Nothing
  <2> QED
    BY <1>1, <1>2, <2>2, SumAfter
\* What was admitted in less than a window before t was of the one window before.
<1>5. ASSUME NEW s \in Times, t < s + W, NEW e \in Int
      PROVE  Sum(f, s, e) <= M
  <2>1. s \in Nat
    BY TimesAreNat
  <2>2. \A u \in Times : s <= u /\ u < e /\ f[u] # 0 => w.start <= u /\ u < t + 1
    BY <1>1, <1>5, <2>1, TimesAreNat
  <2>3. Sum(f, s, e) <= Sum(f, w.start, t + 1)
    BY <1>1, <2>1, <2>2, Contained
  <2>4. Sum(f, s, e) \in Nat /\ Sum(f, w.start, t + 1) \in Nat
    BY SumType
  <2> QED
    BY <1>1, <2>3, <2>4
<1>6. ASSUME NEW s \in Times, t < s + W
      PROVE  Sum(g, s, t) <= M
  <2>1. s \in Nat
    BY TimesAreNat
  <2>2. Sum(g, s, t) = Sum(f, s, t)
    BY <1>1, <1>2, <2>1, SumAfter
  <2> QED
    BY <1>1, <1>5, <1>6, <2>2
<1>7. ASSUME NEW s \in Times
      PROVE  Sum(g, s, s + W) <= 2 * M
  <2>1. s \in Nat /\ s + W \in Int
    BY TimesAreNat
  <2>2. CASE ~(s <= t /\ t < s + W)
    <3>1. Sum(g, s, s + W) = Sum(f, s, s + W)
      BY <1>1, <1>2, <2>1, <2>2, SumAfter
    <3> QED
      BY <3>1 DEF Honest
  <2>3. CASE s <= t /\ t < s + W
    <3>1. Sum(f, s, s + W) <= M
      BY <1>5, <2>1, <2>3
    <3>2. Sum(g, s, s + W) = Sum(f, s, s + W) + 1
      BY <1>1, <1>2, <2>1, <2>3, SumAfter
    <3>3. Sum(f, s, s + W) \in Nat
      BY SumType
    <3> QED
      BY <3>1, <3>2, <3>3
  <2> QED
    BY <2>2, <2>3
<1>8. Sum(g, v.start, t + 1) = IF v.count > M THEN M ELSE v.count
  BY <1>4
<1>9. v.start <= t /\ \A u \in Times : u > t \/ u >= v.start + W => g[u] = 0
  BY <1>1, <1>3
<1>10. \A s \in Times : s <= v.start /\ v.start < s + W => Sum(g, s, v.start) <= M
  BY <1>6
<1> QED
  BY <1>7, <1>8, <1>9, <1>10 DEF Honest

-------------------------------------------------------------------------------
\* So many whole seconds have passed exactly when their ticks have.
LEMMA WholeSeconds ==
    ASSUME NEW d \in Nat, NEW n \in Nat, NEW T \in Nat \ {0}
    PROVE  d \div T >= n <=> d >= n * T
<1> DEFINE q == d \div T
           r == d - q * T
<1>1. q \in Nat
  OBVIOUS
<1>2. q \in Nat /\ r \in Nat /\ r < T /\ d = q * T + r
  BY <1>1
<1> HIDE DEF q, r
<1>3. ASSUME NEW x \in Nat, NEW y \in Nat, x >= y PROVE x * T >= y * T
  <2>1. x = y + (x - y) /\ x - y \in Nat
    BY <1>3
  <2>2. x * T = y * T + (x - y) * T
    BY <2>1
  <2>3. (x - y) * T \in Nat /\ y * T \in Nat
    BY <2>1
  <2> QED
    BY <2>2, <2>3
<1>4. q >= n => d >= n * T
  <2>1. q * T \in Nat /\ n * T \in Nat
    BY <1>2
  <2> QED
    BY <1>2, <1>3, <2>1
<1>5. ~(q >= n) => ~(d >= n * T)
  <2> SUFFICES ASSUME ~(q >= n) PROVE ~(d >= n * T)
    OBVIOUS
  <2>1. n >= q + 1 /\ q + 1 \in Nat
    BY <1>2
  <2>2. n * T >= (q + 1) * T
    BY <1>3, <2>1
  <2>3. (q + 1) * T = q * T + T /\ q * T \in Nat /\ n * T \in Nat
    BY <1>2
  <2> QED
    BY <1>2, <2>2, <2>3
<1> QED
  BY <1>4, <1>5 DEF q

QuotaInv ==
    /\ QuotaTypeOK
    /\ \A a \in Agents :
          /\ IsFiniteSet(Units(admitted[a]))
          /\ Honest(window[a], admitted[a], now, MaxPerWindow[a], WindowTicks(a))

\* What the lemmas about Honest ask for.
LEMMA QuotaFacts ==
    ASSUME QuotaInv, NEW a \in Agents
    PROVE  /\ window[a] \in Window /\ window[a].start \in Nat /\ window[a].count \in Nat
           /\ Counts(admitted[a]) /\ now \in Times /\ now \in Nat
           /\ MaxPerWindow[a] \in Nat \ {0} /\ WindowTicks(a) \in Nat \ {0}
           /\ Honest(window[a], admitted[a], now, MaxPerWindow[a], WindowTicks(a))
<1>1. /\ WindowSecs[a] \in Nat \ {0} /\ TicksPerSec \in Nat \ {0} /\ MaxPerWindow[a] \in Nat \ {0}
  BY RateAssumption
<1>2. WindowSecs[a] * TicksPerSec \in Nat \ {0}
  BY <1>1
<1>3. window[a] \in Window /\ admitted[a] \in [Times -> Nat] /\ now \in Times
  BY DEF QuotaInv, QuotaTypeOK, Window
<1> QED
  BY <1>1, <1>2, <1>3, TimesAreNat DEF QuotaInv, Counts, Window, WindowTicks

LEMMA OverInTicks ==
    ASSUME QuotaInv, NEW a \in Agents
    PROVE  WindowOver(a) <=> window[a].start + WindowTicks(a) <= now
<1> DEFINE d == now - window[a].start
<1>1. WindowSecs[a] \in Nat /\ TicksPerSec \in Nat \ {0}
  BY RateAssumption
<1>2. d \in Nat /\ now \in Nat /\ window[a].start \in Nat
  BY QuotaFacts DEF Honest
<1>3. d \div TicksPerSec >= WindowSecs[a] <=> d >= WindowSecs[a] * TicksPerSec
  BY <1>1, <1>2, WholeSeconds
<1>4. WindowSecs[a] * TicksPerSec \in Nat
  BY <1>1
<1> QED
  BY <1>2, <1>3, <1>4 DEF WindowOver, ElapsedSecs, WindowTicks

\* Whatever happens to the window of a and to what was admitted of it, the others stay.
LEMMA OneAgentMoves ==
    ASSUME QuotaInv, NEW a \in Agents, NEW v \in Window, NEW g, Counts(g), now' = now,
           window' = [window EXCEPT ![a] = v], admitted' = [admitted EXCEPT ![a] = g],
           Honest(v, g, now, MaxPerWindow[a], WindowTicks(a))
    PROVE  QuotaInv'
<1>1. QuotaTypeOK
  BY DEF QuotaInv
<1>2. QuotaTypeOK'
  BY <1>1 DEF QuotaTypeOK, Window, Counts
<1>3. ASSUME NEW b \in Agents
      PROVE  /\ IsFiniteSet(Units(admitted'[b]))
             /\ Honest(window'[b], admitted'[b], now, MaxPerWindow[b], WindowTicks(b))
  <2>1. CASE b = a
    <3>1. window'[b] = v /\ admitted'[b] = g
      BY <1>1, <2>1 DEF QuotaTypeOK
    <3> QED
      BY <2>1, <3>1 DEF Counts
  <2>2. CASE b # a
    <3>1. window'[b] = window[b] /\ admitted'[b] = admitted[b]
      BY <1>1, <2>2 DEF QuotaTypeOK
    <3> QED
      BY <3>1 DEF QuotaInv
  <2> QED
    BY <2>1, <2>2
<1> QED
  BY <1>2, <1>3 DEF QuotaInv

LEMMA QuotaPreserved ==
    ASSUME QuotaInv, [QuotaNext]_(quotaVars)
    PROVE  QuotaInv'
<1>1. CASE UNCHANGED quotaVars
  BY <1>1 DEF quotaVars, QuotaInv, QuotaTypeOK
<1>2. CASE QuotaTick
  <2>1. now' = now + 1 /\ now < MaxTime /\ UNCHANGED <<window, admitted>>
    BY <1>2 DEF QuotaTick, Advance
  <2>2. QuotaTypeOK'
    <3>1. now \in Times /\ MaxTime \in Nat /\ QuotaTypeOK
      BY ClockAssumption DEF QuotaInv, QuotaTypeOK
    <3>2. now' \in Times
      BY <2>1, <3>1 DEF Times
    <3> QED
      BY <2>1, <3>1, <3>2 DEF QuotaTypeOK
  <2>3. ASSUME NEW a \in Agents
        PROVE  /\ IsFiniteSet(Units(admitted[a]))
               /\ Honest(window[a], admitted[a], now + 1, MaxPerWindow[a], WindowTicks(a))
    BY QuotaFacts, HonestLater DEF Counts
  <2> QED
    BY <2>1, <2>2, <2>3 DEF QuotaInv
<1>3. ASSUME NEW a \in Agents, Accepted(a)
      PROVE  QuotaInv'
  <2> DEFINE w == window[a]
             f == admitted[a]
             g == [f EXCEPT ![now] = @ + 1]
  <2>1. /\ now' = now /\ admitted' = [admitted EXCEPT ![a] = g]
        /\ \/ WindowOver(a) /\ window' = [window EXCEPT ![a] = [start |-> now, count |-> 1]]
           \/ /\ ~WindowOver(a)
              /\ window' = [window EXCEPT ![a].count = Bump(a)]
              /\ window'[a].count <= MaxPerWindow[a]
    BY <1>3 DEF Accepted, Admit
  <2>2. Counts(g)
    BY QuotaFacts, OneMore DEF Adds
  <2>3. CASE WindowOver(a) /\ window' = [window EXCEPT ![a] = [start |-> now, count |-> 1]]
    <3> DEFINE v == [start |-> now, count |-> 1]
    <3>1. v \in Window /\ v.start = now /\ v.count = 1
      BY QuotaFacts DEF Window
    <3>2. w.start + WindowTicks(a) <= now
      BY <2>3, OverInTicks
    <3> HIDE DEF v
    <3>3. Honest(v, g, now, MaxPerWindow[a], WindowTicks(a))
      BY <3>1, <3>2, QuotaFacts, HonestRestarted
    <3> HIDE DEF g
    <3> QED
      BY <2>1, <2>2, <2>3, <3>1, <3>3, OneAgentMoves DEF v
  <2>4. CASE /\ ~WindowOver(a)
             /\ window' = [window EXCEPT ![a].count = Bump(a)]
             /\ window'[a].count <= MaxPerWindow[a]
    <3> DEFINE v == [w EXCEPT !.count = Bump(a)]
    <3>1. /\ v \in Window /\ v.start = w.start /\ v.count = Bump(a)
          /\ window' = [window EXCEPT ![a] = v] /\ window'[a] = v
      <4>1. w \in Window /\ Bump(a) \in Nat /\ window \in [Agents -> Window]
        BY QuotaFacts DEF Window, QuotaInv, QuotaTypeOK, Bump
      <4> QED
        BY <2>4, <4>1 DEF Window
    <3>2. v.count = w.count + 1 /\ v.count <= MaxPerWindow[a]
      <4>1. v.count <= MaxPerWindow[a]
        BY <2>4, <3>1
      <4>2. window[a].count \in Nat /\ MaxPerWindow[a] \in Nat
        BY QuotaFacts
      <4>3. v.count = IF window[a].count > MaxPerWindow[a] THEN window[a].count
                                                           ELSE window[a].count + 1
        BY <3>1 DEF Bump
      <4> HIDE DEF v
      <4> QED
        BY <4>1, <4>2, <4>3
    <3>3. now < w.start + WindowTicks(a)
      BY <2>4, QuotaFacts, OverInTicks
    <3> HIDE DEF v
    <3>4. Honest(v, g, now, MaxPerWindow[a], WindowTicks(a))
      BY <3>1, <3>2, <3>3, QuotaFacts, HonestAdmitted
    <3> HIDE DEF g
    <3> QED
      BY <2>1, <2>2, <3>1, <3>4, OneAgentMoves
  <2> QED
    BY <2>1, <2>3, <2>4
<1>4. ASSUME NEW a \in Agents, Limited(a)
      PROVE  QuotaInv'
  <2> DEFINE w == window[a]
             f == admitted[a]
             v == [w EXCEPT !.count = Bump(a)]
  <2>1. /\ UNCHANGED <<now, admitted>>
        /\ window' = [window EXCEPT ![a].count = Bump(a)]
        /\ window'[a].count > MaxPerWindow[a]
    BY <1>4 DEF Limited, Refuse
  <2>2. /\ v \in Window /\ v.start = w.start /\ v.count = Bump(a)
        /\ window' = [window EXCEPT ![a] = v] /\ window'[a] = v
    BY <2>1, QuotaFacts DEF Window, QuotaInv, QuotaTypeOK, Bump
  <2>3. v.count > MaxPerWindow[a] /\ v.count <= w.count + 1
    BY <2>1, <2>2, QuotaFacts DEF Bump
  <2> HIDE DEF v
  <2>4. Honest(v, f, now, MaxPerWindow[a], WindowTicks(a))
    BY <2>2, <2>3, QuotaFacts, HonestRefused
  <2>5. admitted' = [admitted EXCEPT ![a] = f]
    BY <2>1 DEF QuotaInv, QuotaTypeOK
  <2> QED
    BY <2>1, <2>2, <2>4, <2>5, QuotaFacts, OneAgentMoves
<1> QED
  BY <1>1, <1>2, <1>3, <1>4 DEF QuotaNext

LEMMA QuotaBegins == QuotaInit => QuotaInv
<1> SUFFICES ASSUME QuotaInit PROVE QuotaInv
  OBVIOUS
<1>1. /\ now = 0 /\ 0 \in Times
      /\ window = [a \in Agents |-> [start |-> 0, count |-> 0]]
      /\ admitted = [a \in Agents |-> [t \in Times |-> 0]]
  BY ClockAssumption DEF QuotaInit, RateInit, Times
<1>2. QuotaTypeOK
  BY <1>1 DEF QuotaTypeOK, Window
<1>3. ASSUME NEW a \in Agents
      PROVE  /\ IsFiniteSet(Units(admitted[a]))
             /\ Honest(window[a], admitted[a], now, MaxPerWindow[a], WindowTicks(a))
  <2> DEFINE f == admitted[a]
  <2>1. f \in [Times -> Nat] /\ \A t \in Times : f[t] = 0
    BY <1>1
  <2>2. Units(f) = {}
    BY <2>1 DEF Units
  <2>3. Counts(f)
    BY <2>1, <2>2, FS_EmptySet DEF Counts
  <2>4. \A s, e \in Int : Sum(f, s, e) = 0
    BY <2>1, <2>3, Nothing
  <2>5. window[a].start = 0 /\ window[a].count = 0
    BY <1>1
  <2>6. MaxPerWindow[a] \in Nat \ {0} /\ WindowTicks(a) \in Nat
    <3>1. WindowSecs[a] \in Nat /\ TicksPerSec \in Nat /\ MaxPerWindow[a] \in Nat \ {0}
      BY RateAssumption
    <3> QED
      BY <3>1 DEF WindowTicks
  <2> HIDE DEF f
  <2>7. ASSUME NEW M \in Nat \ {0}, NEW W \in Nat
        PROVE  Honest(window[a], f, 0, M, W)
    <3>1. \A s \in Times : Sum(f, s, s + W) = 0 /\ Sum(f, s, 0) = 0
      BY <2>4, TimesAreNat
    <3>2. Sum(f, 0, 0 + 1) = 0
      BY <2>4
    <3> QED
      BY <2>1, <2>5, <3>1, <3>2 DEF Honest
  <2> QED
    BY <1>1, <2>3, <2>6, <2>7 DEF Counts, f
<1> QED
  BY <1>2, <1>3 DEF QuotaInv

\* A total of the specification is a sum of these proofs.
LEMMA AdmittedIs == \A a, s, e : AdmittedIn(a, s, e) = Sum(admitted[a], s, e)
BY DEF AdmittedIn, Total, Sum, Part

\* The windows and the history of what was admitted keep their types.
THEOREM QuotaTypes == QuotaSpec => []QuotaTypeOK
<1>1. QuotaInv => QuotaTypeOK
  BY DEF QuotaInv
<1> QED
  BY <1>1, QuotaBegins, QuotaPreserved, PTL DEF QuotaSpec

\* In no stretch of a window's length are more than two quotas admitted, however the
\* requests fall.
THEOREM TwoQuotas == QuotaSpec => []SlidingQuota
<1>1. QuotaInv => SlidingQuota
  BY AdmittedIs DEF QuotaInv, Honest, SlidingQuota
<1> QED
  BY <1>1, QuotaBegins, QuotaPreserved, PTL DEF QuotaSpec

\* Who is limited was admitted a whole quota since the window started.
THEOREM FairRefusal == QuotaSpec => []NoEarlyRefusal
<1>1. QuotaInv => NoEarlyRefusal
  BY AdmittedIs DEF QuotaInv, Honest, NoEarlyRefusal
<1> QED
  BY <1>1, QuotaBegins, QuotaPreserved, PTL DEF QuotaSpec
================================================================================
