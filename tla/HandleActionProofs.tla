-------------------------- MODULE HandleActionProofs ---------------------------
(* Proofs about HandleAction, for every number of handlers, keys, shards and  *)
(* requests, whatever requests come and however full the stores are.          *)
EXTENDS HandleAction, FiniteSetTheorems, TLAPS

\* The stages of a handler that runs an action.
Acting == {"actuate", "await", "prove", "count", "finish"}

Types ==
    /\ now \in Nat
    /\ entries \in [Keys -> Cache!Entry \cup {Cache!NoEntry}]
    /\ pc \in [Callers -> Cache!PCs]
    /\ key \in [Callers -> Keys]
    /\ asOf \in [Callers -> Nat]
    /\ since \in [Callers -> Nat]
    /\ stage \in [Callers -> Stages]
    /\ req \in [Callers -> Requests \cup {NoRequest}]
    /\ action \in [Callers -> Nat]
    /\ outcome \in [Callers -> ProofVerdicts]
    /\ lastAction \in 0..MaxActions
    /\ proofs \in [1..lastAction -> ProofVerdicts \cup {"none"}]
    /\ \A e \in effects : e.id \in 1..lastAction /\ e.key \in Keys /\ e.reserved \in Nat

\* The handler's stage agrees with the place it is at in the cache; it has an
\* action_id exactly while it acts, and its key is its request's.
Sync(h) ==
    /\ stage[h] \in {"idle", "replay", "rate", "check"} => pc[h] = "idle"
    /\ stage[h] = "cache" => pc[h] # "idle"
    /\ stage[h] \in Acting => pc[h] = "owner" /\ action[h] \in 1..lastAction
    /\ stage[h] \notin Acting => action[h] = 0
    /\ stage[h] # "idle" => req[h] \in Requests
    /\ stage[h] = "cache" \/ stage[h] \in Acting => key[h] = req[h].key

Control == Types /\ \A h \in Callers : Sync(h)

LEMMA RequestKey == \A r \in Requests : r.key \in Keys
  BY HandlerAssumption DEF Request

LEMMA InitControl == Init => Control
  BY HandlerAssumption
  DEF Init, Cache!Init, Control, Types, Sync, Acting, Stages, Cache!PCs, ProofVerdicts

-------------------------------------------------------------------------------
(* What the steps of the cache do *)

\* A step of check_or_insert: it moves the handler on, keeps its key, and only the
\* purge and the taking of a key change an entry.
LEMMA CheckSteps ==
    ASSUME Types, NEW h \in Callers, Check(h)
    PROVE  /\ UNCHANGED <<now, key, gateVars, stage, req, runVars, history>>
           /\ \A g \in Callers : g # h => pc'[g] = pc[g] /\ since'[g] = since[g] /\ asOf'[g] = asOf[g]
           /\ pc[h] \in {"purge", "len", "entry"}
           /\ pc'[h] \in {"purge", "len", "entry", "owner", "full", "cached", "conflict"}
           /\ pc' \in [Callers -> Cache!PCs]
           /\ asOf' \in [Callers -> Nat] /\ asOf'[h] \in {asOf[h], 0}
           /\ \/ pc'[h] # "owner" /\ since' = since
              \/ Cache!TakeOwnership(h)
<1>1. CASE Cache!PurgeShard(h)
  BY <1>1 DEF Check, Cache!PurgeShard, Cache!NextShard, Types, Cache!PCs
<1>2. CASE Cache!LenShard(h)
  BY <1>2 DEF Check, Cache!LenShard, Cache!NextShard, Types, Cache!PCs
<1>3. CASE Cache!CheckEntry(h)
  <2>1. CASE Cache!TakeOwnership(h)
    BY <1>3, <2>1 DEF Check, Cache!CheckEntry, Cache!TakeOwnership, Types, Cache!PCs
  <2>2. CASE Cache!Decline(h)
    BY <1>3, <2>2 DEF Check, Cache!CheckEntry, Cache!Decline, Types, Cache!PCs
  <2> QED
    BY <1>3, <2>1, <2>2 DEF Cache!CheckEntry
<1> QED
  BY <1>1, <1>2, <1>3 DEF Check

LEMMA CheckEntries ==
    ASSUME Types, NEW h \in Callers, Check(h)
    PROVE  /\ entries' \in [Keys -> Cache!Entry \cup {Cache!NoEntry}]
           /\ since' \in [Callers -> Nat]
           /\ \/ \A k \in Keys : \/ entries'[k] = entries[k]
                                 \/ Cache!Stale(k, h) /\ entries'[k] = Cache!NoEntry
              \/ Cache!TakeOwnership(h)
<1>1. CASE Cache!PurgeShard(h)
  BY <1>1 DEF Cache!PurgeShard, Types
<1>2. CASE Cache!LenShard(h)
  BY <1>2 DEF Cache!LenShard, Types
<1>3. CASE Cache!CheckEntry(h)
  <2>1. CASE Cache!TakeOwnership(h)
    <3>1. Cache!Reserved(now) \in Cache!Entry
      BY DEF Types, Cache!Reserved, Cache!Entry
    <3> QED
      BY <2>1, <3>1 DEF Cache!TakeOwnership, Types
  <2>2. CASE Cache!Decline(h)
    BY <1>3, <2>2 DEF Cache!CheckEntry, Cache!Decline, Types
  <2> QED
    BY <1>3, <2>1, <2>2 DEF Cache!CheckEntry
<1> QED
  BY <1>1, <1>2, <1>3 DEF Check

\* complete() keeps the instant of the entry and changes no other.
LEMMA CompleteEntries ==
    ASSUME Types, NEW h \in Callers, NEW r \in Answers, Cache!Complete(h, r)
    PROVE  /\ entries' \in [Keys -> Cache!Entry \cup {Cache!NoEntry}]
           /\ \A k \in Keys :
                 \/ entries'[k] = entries[k] /\ (k # key[h] \/ ~entries[k].present)
                 \/ /\ k = key[h] /\ entries[k].present /\ entries'[k].present
                    /\ entries'[k].createdAt = entries[k].createdAt
                    /\ entries'[k].inFlight = FALSE /\ entries'[k].result = r
<1> DEFINE e == [entries[key[h]] EXCEPT !.inFlight = FALSE, !.result = r]
<1>1. key[h] \in Keys
  BY DEF Types
<1>2. CASE Cache!Present(key[h])
  <2>1. entries[key[h]] \in Cache!Entry /\ entries[key[h]].present
    BY <1>1, <1>2 DEF Types, Cache!Present, Cache!NoEntry
  <2>2. e \in Cache!Entry
    BY <2>1 DEF Cache!Entry
  <2>3. entries' = [entries EXCEPT ![key[h]] = e]
    BY <1>2, <2>1 DEF Cache!Complete, Types
  <2>4. /\ e.present /\ e.createdAt = entries[key[h]].createdAt
        /\ e.inFlight = FALSE /\ e.result = r
    BY <2>1 DEF Cache!Entry
  <2> HIDE DEF e
  <2> QED
    BY <1>1, <2>1, <2>2, <2>3, <2>4 DEF Types
<1>3. CASE ~Cache!Present(key[h])
  BY <1>1, <1>3 DEF Cache!Complete, Cache!Present, Types
<1> QED
  BY <1>2, <1>3

-------------------------------------------------------------------------------
(* Types and control *)

\* A handler that a step does not touch stays in sync.
LEMMA OthersInSync ==
    ASSUME Control, NEW g \in Callers, lastAction' \in Nat, lastAction <= lastAction',
           stage'[g] = stage[g], pc'[g] = pc[g], action'[g] = action[g],
           req'[g] = req[g], key'[g] = key[g]
    PROVE  Sync(g)'
  BY DEF Control, Types, Sync

LEMMA AnswerType ==
    ASSUME Control, NEW h \in Callers, stage[h] = "finish"
    PROVE  [id |-> action[h], verdict |-> outcome[h]] \in Answers
<1>1. action[h] \in 1..MaxActions
  BY HandlerAssumption DEF Control, Types, Sync, Acting
<1> QED
  BY <1>1 DEF Control, Types, Answers

LEMMA ControlPreserved ==
    ASSUME Control, [Next]_vars
    PROVE  Control'
<1> USE DEF Control
<1>1. CASE UNCHANGED vars
  BY <1>1 DEF vars, cacheVars, gateVars, runVars, history, Types, Sync
<1>2. CASE Tick
  <2>1. UNCHANGED <<entries, pc, key, asOf, since, stage, req, runVars>> /\ now' \in Nat
    BY <1>2 DEF Tick, Cache!Tick, Types
  <2> QED
    BY <2>1 DEF runVars, Types, Sync
<1>3. ASSUME NEW h \in Callers, NEW r \in Requests, Arrive(h, r)
      PROVE  Control'
  <2>1. Types'
    BY <1>3 DEF Arrive, Go, cacheVars, runVars, Types, Stages
  <2>2. \A g \in Callers : g # h => Sync(g)'
    BY <1>3, OthersInSync DEF Arrive, Go, cacheVars, runVars, Types
  <2>3. Sync(h)'
    BY <1>3 DEF Arrive, Go, cacheVars, runVars, Types, Sync, Acting
  <2> QED
    BY <2>1, <2>2, <2>3
<1>4. ASSUME NEW h \in Callers, CheckReplay(h) \/ CheckRate(h)
      PROVE  Control'
  <2>1. /\ UNCHANGED <<now, cacheVars, lastAction, proofs, effects>>
        /\ stage[h] \in {"replay", "rate"}
        /\ \/ Go(h, "rate") /\ UNCHANGED <<req, action, outcome>>
           \/ Go(h, "check") /\ UNCHANGED <<req, action, outcome>>
           \/ End(h)
    <3>1. CASE CheckReplay(h)
      BY <3>1 DEF CheckReplay
    <3>2. CASE CheckRate(h)
      BY <3>2 DEF CheckRate
    <3> QED
      BY <1>4, <3>1, <3>2
  <2>2. Types'
    <3>1. stage' \in [Callers -> Stages]
      BY <2>1 DEF Go, End, Types, Stages
    <3>2. /\ req' \in [Callers -> Requests \cup {NoRequest}]
          /\ action' \in [Callers -> Nat]
          /\ outcome' \in [Callers -> ProofVerdicts]
      <4>1. CASE UNCHANGED <<req, action, outcome>>
        BY <4>1 DEF Types
      <4>2. CASE End(h)
        BY <4>2 DEF End, Types, ProofVerdicts
      <4> QED
        BY <2>1, <4>1, <4>2
    <3> QED
      BY <2>1, <3>1, <3>2 DEF cacheVars, Types
  <2>3. \A g \in Callers : g # h => Sync(g)'
    BY <2>1, OthersInSync DEF Go, End, cacheVars, Types
  <2>4. Sync(h)'
    BY <2>1 DEF Go, End, cacheVars, Types, Sync, Acting
  <2> QED
    BY <2>2, <2>3, <2>4
<1>5. ASSUME NEW h \in Callers, BeginCheck(h)
      PROVE  Control'
  <2>1. req[h].key \in Keys
    BY <1>5, RequestKey DEF BeginCheck, Sync
  <2>2. Types'
    BY <1>5, <2>1 DEF BeginCheck, Go, Cache!Begin, runVars, Types, Stages, Cache!PCs
  <2>3. \A g \in Callers : g # h => Sync(g)'
    BY <1>5, OthersInSync DEF BeginCheck, Go, Cache!Begin, runVars, Types
  <2>4. Sync(h)'
    BY <1>5 DEF BeginCheck, Go, Cache!Begin, runVars, Types, Sync, Acting
  <2> QED
    BY <2>2, <2>3, <2>4
<1>6. ASSUME NEW h \in Callers, Check(h)
      PROVE  Control'
  <2>1. Types'
    BY <1>6, CheckSteps, CheckEntries DEF runVars, Types
  <2>2. \A g \in Callers : g # h => Sync(g)'
    BY <1>6, CheckSteps, OthersInSync DEF runVars, Types
  <2>3. stage[h] = "cache"
    BY <1>6 DEF Check
  <2>4. Sync(h)'
    BY <1>6, <2>3, CheckSteps DEF runVars, Sync, Acting
  <2> QED
    BY <2>1, <2>2, <2>4
<1>7. ASSUME NEW h \in Callers, Replayed(h)
      PROVE  Control'
  <2>1. Types'
    BY <1>7 DEF Replayed, End, Go, Cache!Leave, Types, Stages, Cache!PCs, ProofVerdicts
  <2>2. \A g \in Callers : g # h => Sync(g)'
    BY <1>7, OthersInSync DEF Replayed, End, Go, Cache!Leave, Types
  <2>3. Sync(h)'
    BY <1>7 DEF Replayed, End, Go, Cache!Leave, Types, Sync, Acting
  <2> QED
    BY <2>1, <2>2, <2>3
<1>8. ASSUME NEW h \in Callers, TurnedAway(h)
      PROVE  Control'
  <2>1. Types'
    BY <1>8 DEF TurnedAway, End, Go, Cache!RemoveAfterFull, Types, Stages, Cache!PCs, ProofVerdicts
  <2>2. \A g \in Callers : g # h => Sync(g)'
    BY <1>8, OthersInSync DEF TurnedAway, End, Go, Cache!RemoveAfterFull, Types
  <2>3. Sync(h)'
    BY <1>8 DEF TurnedAway, End, Go, Cache!RemoveAfterFull, Types, Sync, Acting
  <2> QED
    BY <2>1, <2>2, <2>3
<1>9. ASSUME NEW h \in Callers, RejectMalformed(h) \/ Finish(h)
      PROVE  Control'
  <2>1. PICK r \in Answers : Cache!Complete(h, r) /\ End(h) /\ UNCHANGED <<lastAction, proofs, effects>>
    <3>1. [id |-> 0, verdict |-> "BadRequest"] \in Answers
      BY DEF Answers
    <3> QED
      BY <1>9, <3>1, AnswerType DEF RejectMalformed, Finish
  <2>2. entries' \in [Keys -> Cache!Entry \cup {Cache!NoEntry}]
    BY <2>1, CompleteEntries
  <2>3. Types'
    BY <2>1, <2>2 DEF End, Go, Cache!Complete, Cache!Disown, Types, Stages, Cache!PCs, ProofVerdicts
  <2>4. \A g \in Callers : g # h => Sync(g)'
    BY <2>1, OthersInSync DEF End, Go, Cache!Complete, Cache!Disown, Types
  <2>5. Sync(h)'
    BY <2>1 DEF End, Go, Cache!Complete, Cache!Disown, Types, Sync, Acting
  <2> QED
    BY <2>3, <2>4, <2>5
<1>10. ASSUME NEW h \in Callers, RejectInvalid(h) \/ DryRun(h) \/ Reserve(h)
      PROVE  Control'
  <2>1. /\ DrawId(h) /\ Owns(h) /\ UNCHANGED <<now, cacheVars, req, effects>>
        /\ \/ \E v \in ProofVerdicts : Result(h, v)
           \/ Go(h, "actuate") /\ UNCHANGED outcome
    <3>1. CASE RejectInvalid(h)
      BY <3>1 DEF RejectInvalid, ProofVerdicts
    <3>2. CASE DryRun(h)
      BY <3>2 DEF DryRun, ProofVerdicts
    <3>3. CASE Reserve(h)
      BY <3>3 DEF Reserve, ProofVerdicts
    <3> QED
      BY <1>10, <3>1, <3>2, <3>3
  <2>2. /\ lastAction' = lastAction + 1 /\ lastAction' \in 0..MaxActions
        /\ lastAction' \in Nat /\ lastAction \in Nat /\ lastAction <= lastAction'
    BY <2>1, HandlerAssumption DEF DrawId, Types
  <2>3. proofs' \in [1..lastAction' -> ProofVerdicts \cup {"none"}]
    BY <2>1, <2>2 DEF DrawId, Types
  <2>4. \A e \in effects' : e.id \in 1..lastAction' /\ e.key \in Keys /\ e.reserved \in Nat
    BY <2>1, <2>2 DEF Types
  <2>5. Types'
    <3>1. stage' \in [Callers -> Stages] /\ outcome' \in [Callers -> ProofVerdicts]
      <4>1. stage \in [Callers -> Stages] /\ outcome \in [Callers -> ProofVerdicts]
        BY DEF Types
      <4>2. CASE \E v \in ProofVerdicts : Result(h, v)
        BY <4>1, <4>2 DEF Result, Go, Stages
      <4>3. CASE ~ \E v \in ProofVerdicts : Result(h, v)
        BY <2>1, <4>1, <4>3 DEF Go, Stages
      <4> QED
        BY <4>2, <4>3
    <3>2. action' \in [Callers -> Nat]
      <4>1. lastAction + 1 \in Nat /\ action \in [Callers -> Nat]
        BY <2>2 DEF Types
      <4>2. action' = [action EXCEPT ![h] = lastAction + 1]
        BY <2>1 DEF DrawId
      <4> QED
        BY <4>1, <4>2
    <3>3. UNCHANGED <<now, entries, pc, key, asOf, since, req>>
      BY <2>1 DEF cacheVars
    <3> QED
      BY <2>2, <2>3, <2>4, <3>1, <3>2, <3>3 DEF Types
  <2>6. \A g \in Callers : g # h => Sync(g)'
    BY <2>1, <2>2, OthersInSync DEF DrawId, Result, Go, cacheVars, Types
  <2>7. Sync(h)'
    BY <2>1, <2>2 DEF DrawId, Owns, Result, Go, cacheVars, Types, Sync, Acting
  <2> QED
    BY <2>5, <2>6, <2>7
<1>11. ASSUME NEW h \in Callers, RunFile(h) \/ StartAwaited(h) \/ EndAwaited(h)
      PROVE  Control'
  <2>1. /\ stage[h] \in {"actuate", "await"}
        /\ UNCHANGED <<now, cacheVars, req, action, lastAction, proofs>>
        /\ effects' \in {effects, effects \cup {Effect(h)}}
        /\ \/ \E v \in ProofVerdicts : Result(h, v)
           \/ Go(h, "await") /\ UNCHANGED outcome
    BY <1>11 DEF RunFile, StartAwaited, EndAwaited, ProofVerdicts, Failures
  <2>2. req[h].key \in Keys /\ action[h] \in 1..lastAction /\ since[h] \in Nat
    BY <2>1, RequestKey DEF Sync, Acting, Types
  <2>3. \A e \in effects' : e.id \in 1..lastAction' /\ e.key \in Keys /\ e.reserved \in Nat
    BY <2>1, <2>2 DEF Types, Effect
  <2>4. Types'
    <3>1. stage' \in [Callers -> Stages] /\ outcome' \in [Callers -> ProofVerdicts]
      <4>1. stage \in [Callers -> Stages] /\ outcome \in [Callers -> ProofVerdicts]
        BY DEF Types
      <4>2. CASE \E v \in ProofVerdicts : Result(h, v)
        BY <4>1, <4>2 DEF Result, Go, Stages
      <4>3. CASE ~ \E v \in ProofVerdicts : Result(h, v)
        BY <2>1, <4>1, <4>3 DEF Go, Stages
      <4> QED
        BY <4>2, <4>3
    <3>2. UNCHANGED <<now, entries, pc, key, asOf, since, req, action, lastAction, proofs>>
      BY <2>1 DEF cacheVars
    <3> QED
      BY <2>3, <3>1, <3>2 DEF Types
  <2>5. \A g \in Callers : g # h => Sync(g)'
    BY <2>1, OthersInSync DEF Result, Go, cacheVars, Types
  <2>6. Sync(h)'
    BY <2>1 DEF Result, Go, cacheVars, Types, Sync, Acting
  <2> QED
    BY <2>4, <2>5, <2>6
<1>12. ASSUME NEW h \in Callers, Drop(h)
      PROVE  Control'
  <2>1. Types'
    BY <1>12 DEF Drop, End, Go, Cache!Abandon, Cache!Disown, Types, Stages, Cache!PCs, ProofVerdicts
  <2>2. \A g \in Callers : g # h => Sync(g)'
    BY <1>12, OthersInSync DEF Drop, End, Go, Cache!Abandon, Cache!Disown, Types
  <2>3. Sync(h)'
    BY <1>12 DEF Drop, End, Go, Cache!Abandon, Cache!Disown, Types, Sync, Acting
  <2> QED
    BY <2>1, <2>2, <2>3
<1>13. ASSUME NEW h \in Callers, Prove(h) \/ CountDomain(h)
      PROVE  Control'
  <2>1. /\ stage[h] \in {"prove", "count"}
        /\ UNCHANGED <<now, cacheVars, req, action, outcome, lastAction, effects>>
        /\ Go(h, "count") \/ Go(h, "finish")
        /\ proofs' \in {proofs, [proofs EXCEPT ![action[h]] = outcome[h]]}
    BY <1>13 DEF Prove, Record, CountDomain
  <2>2. Types'
    BY <2>1 DEF Go, cacheVars, Types, Stages
  <2>3. \A g \in Callers : g # h => Sync(g)'
    BY <2>1, OthersInSync DEF Go, cacheVars, Types
  <2>4. Sync(h)'
    BY <2>1 DEF Go, cacheVars, Types, Sync, Acting
  <2> QED
    BY <2>2, <2>3, <2>4
<1> QED
  BY <1>1, <1>2, <1>3, <1>4, <1>5, <1>6, <1>7, <1>8, <1>9, <1>10, <1>11, <1>12, <1>13
  DEF Next, Work

-------------------------------------------------------------------------------
(* One effect per key *)

Owner(h) == pc[h] = "owner"

RemovedSince(k, t) == \E r \in removed : r.key = k /\ t <= r.at

\* The reservation of k made at t is in the map, while the TTL protects it, unless the
\* key was removed since.
Held(k, t) ==
    ~RemovedSince(k, t) /\ now - t < TTL => entries[k].present /\ entries[k].createdAt = t

HeldBy(h) == Held(key[h], since[h])

Apart(k, s, t) == s - t >= TTL \/ t - s >= TTL \/ RemovedBetween(k, s, t)

\* The reservation of an owner, and the one an action was done under, is kept; and
\* those of one key are a TTL apart: of two owners, of an owner and an action that is
\* not its own, and of two actions.
ClaimsInv ==
    /\ \A h \in Callers : asOf[h] <= now
    /\ \A r \in removed : r.at \in Nat /\ r.at <= now
    /\ \A h \in Callers : Owner(h) => since[h] <= now /\ HeldBy(h)
    /\ \A e \in effects : e.reserved <= now /\ Held(e.key, e.reserved)
    /\ \A g, h \in Callers :
          g # h /\ Owner(g) /\ Owner(h) /\ key[g] = key[h] => Apart(key[g], since[g], since[h])
    /\ \A h \in Callers, e \in effects :
          Owner(h) /\ key[h] = e.key /\ e.id # action[h] => Apart(e.key, since[h], e.reserved)
    /\ OneEffectPerKey

LEMMA AgesGrow ==
    ASSUME NEW t \in Nat, NEW m \in Nat, NEW n \in Nat, t <= m, m <= n
    PROVE  t <= n /\ \A ttl \in Nat : n - t < ttl => m - t < ttl
  OBVIOUS

\* What is apart stays apart.
LEMMA ApartStays ==
    ASSUME removed \subseteq removed', NEW k, NEW s, NEW t, Apart(k, s, t)
    PROVE  Apart(k, s, t)'
  BY DEF Apart, RemovedBetween

\* A step that makes no owner and does no action, and takes only entries out that are
\* past their TTL or that it reports as removed, disturbs none of it.
LEMMA ClaimsUndisturbed ==
    ASSUME Control, Control', ClaimsInv,
           now <= now', removed \subseteq removed', effects' = effects,
           \A r \in removed' : r \in removed \/ r.at = now,
           \A h \in Callers : asOf'[h] <= now',
           \A h \in Callers : Owner(h)' =>
               /\ Owner(h) /\ key'[h] = key[h] /\ since'[h] = since[h]
               /\ action'[h] = action[h] \/ action[h] = 0,
           \A k \in Keys : entries[k].present =>
               \/ entries'[k].present /\ entries'[k].createdAt = entries[k].createdAt
               \/ now - entries[k].createdAt >= TTL
               \/ \E r \in removed' : r.key = k /\ r.at = now
    PROVE  ClaimsInv'
<1>1. /\ now \in Nat /\ now' \in Nat /\ TTL \in Nat
      /\ \A h \in Callers : key[h] \in Keys /\ since[h] \in Nat
      /\ \A e \in effects : e.key \in Keys /\ e.reserved \in Nat /\ e.id # 0
  BY HandlerAssumption DEF Control, Types
<1>2. ASSUME NEW k \in Keys, NEW t \in Nat, t <= now, Held(k, t)
      PROVE  t <= now' /\ (~RemovedSince(k, t)' /\ now' - t < TTL =>
                               entries'[k].present /\ entries'[k].createdAt = t)
  <2>1. t <= now' /\ \A ttl \in Nat : now' - t < ttl => now - t < ttl
    BY <1>1, <1>2, AgesGrow, Zenon
  <2>2. ASSUME ~RemovedSince(k, t)', now' - t < TTL
        PROVE  entries'[k].present /\ entries'[k].createdAt = t
    <3>1. now - t < TTL
      BY <1>1, <2>1, <2>2, Zenon
    <3>2. ~RemovedSince(k, t) /\ ~ \E r \in removed' : r.key = k /\ r.at = now
      BY <1>2, <2>2 DEF RemovedSince
    <3>3. entries[k].present /\ entries[k].createdAt = t
      BY <1>2, <3>1, <3>2 DEF Held
    <3>4. ~(now - entries[k].createdAt >= TTL)
      BY <1>1, <3>1, <3>3
    <3> QED
      BY <3>2, <3>3, <3>4
  <2> QED
    BY <2>1, <2>2
<1>3. ASSUME NEW h \in Callers, Owner(h)'
      PROVE  since'[h] <= now' /\ HeldBy(h)'
  <2>1. /\ key[h] \in Keys /\ since[h] \in Nat /\ since[h] <= now /\ Held(key[h], since[h])
        /\ key'[h] = key[h] /\ since'[h] = since[h]
    BY <1>1, <1>3 DEF ClaimsInv, HeldBy
  <2> QED
    BY <1>2, <2>1 DEF HeldBy, Held, RemovedSince
<1>4. \A e \in effects' : e.reserved <= now' /\ Held(e.key, e.reserved)'
  BY <1>1, <1>2 DEF ClaimsInv, Held, RemovedSince
<1>5. ASSUME NEW g \in Callers, NEW h \in Callers,
             g # h, Owner(g)', Owner(h)', key'[g] = key'[h]
      PROVE  Apart(key[g], since[g], since[h])' /\ key'[g] = key[g]
             /\ since'[g] = since[g] /\ since'[h] = since[h]
  <2>1. Apart(key[g], since[g], since[h])
    BY <1>5 DEF ClaimsInv
  <2>2. /\ key'[g] = key[g] /\ since'[g] = since[g] /\ since'[h] = since[h]
    BY <1>5
  <2> QED
    BY <2>1, <2>2, ApartStays DEF Apart, RemovedBetween
<1>6. ASSUME NEW h \in Callers, NEW e \in effects',
             Owner(h)', key'[h] = e.key, e.id # action'[h]
      PROVE  Apart(e.key, since[h], e.reserved)' /\ since'[h] = since[h]
  <2>1. Apart(e.key, since[h], e.reserved) /\ since'[h] = since[h]
    BY <1>1, <1>6 DEF ClaimsInv
  <2> QED
    BY <2>1, ApartStays DEF Apart, RemovedBetween
<1>7. OneEffectPerKey'
  BY DEF ClaimsInv, OneEffectPerKey, RemovedBetween
<1>8. \A r \in removed' : r.at \in Nat /\ r.at <= now'
  BY <1>1 DEF ClaimsInv
<1> QED
  BY <1>3, <1>4, <1>5, <1>6, <1>7, <1>8 DEF ClaimsInv, HeldBy, Held, Owner

\* An action is done by an owner that has an id, in the stages that act.
LEMMA ActingOwns ==
    ASSUME Control, NEW h \in Callers, stage[h] \in {"actuate", "await"}
    PROVE  /\ Owner(h) /\ key[h] = req[h].key /\ key[h] \in Keys
           /\ action[h] \in Nat /\ action[h] # 0 /\ since[h] \in Nat
  BY HandlerAssumption DEF Control, Types, Sync, Acting, Owner

\* Mapping the claims of a handler to those of the action it does.
LEMMA ClaimsEffect ==
    ASSUME Control, ClaimsInv, NEW h \in Callers, stage[h] \in {"actuate", "await"},
           UNCHANGED <<now, cacheVars, action, removed>>,
           effects' = effects \cup {Effect(h)}
    PROVE  ClaimsInv'
<1>1. /\ Owner(h) /\ key[h] = req[h].key /\ since[h] \in Nat
      /\ since[h] <= now /\ Held(key[h], since[h])
  BY ActingOwns DEF ClaimsInv, HeldBy
<1>2. /\ Effect(h).key = key[h] /\ Effect(h).reserved = since[h] /\ Effect(h).id = action[h]
  BY <1>1 DEF Effect
<1> DEFINE new == Effect(h)
<1>3. effects' = effects \cup {new}
  OBVIOUS
<1> HIDE DEF new
<1>4. new.key = key[h] /\ new.reserved = since[h] /\ new.id = action[h]
  BY <1>2 DEF new
<1>5. \A k, s, t : Apart(k, s, t) => Apart(k, t, s)
  BY DEF Apart, RemovedBetween
<1>6. /\ \A g \in Callers : asOf'[g] <= now'
      /\ \A r \in removed' : r.at \in Nat /\ r.at <= now'
      /\ \A g \in Callers : Owner(g)' => since'[g] <= now' /\ HeldBy(g)'
  BY DEF cacheVars, ClaimsInv, HeldBy, Held, RemovedSince, Owner
<1>7. \A f, g \in Callers :
         f # g /\ Owner(f)' /\ Owner(g)' /\ key'[f] = key'[g] => Apart(key[f], since[f], since[g])'
  BY DEF cacheVars, ClaimsInv, Apart, RemovedBetween, Owner
<1>8. \A e \in effects' : e.reserved <= now' /\ Held(e.key, e.reserved)'
  BY <1>1, <1>3, <1>4 DEF cacheVars, ClaimsInv, Held, RemovedSince
<1>9. ASSUME NEW g \in Callers, NEW e \in effects', Owner(g), key[g] = e.key, e.id # action[g]
      PROVE  Apart(e.key, since[g], e.reserved)
  BY <1>1, <1>3, <1>4, <1>9 DEF ClaimsInv
<1>10. ASSUME NEW e \in effects', NEW f \in effects', e.key = f.key, e.id # f.id
       PROVE  Apart(e.key, e.reserved, f.reserved)
  <2>1. CASE e \in effects /\ f \in effects
    BY <1>10, <2>1 DEF ClaimsInv, OneEffectPerKey, Apart
  <2>2. CASE e = new
    BY <1>1, <1>3, <1>4, <1>10, <2>2 DEF ClaimsInv
  <2>3. CASE f = new
    BY <1>1, <1>3, <1>4, <1>5, <1>10, <2>3 DEF ClaimsInv
  <2> QED
    BY <1>3, <2>1, <2>2, <2>3
<1>11. OneEffectPerKey'
  BY <1>10 DEF OneEffectPerKey, Apart, RemovedBetween
<1>12. \A g \in Callers, e \in effects' :
          Owner(g)' /\ key'[g] = e.key /\ e.id # action'[g] => Apart(e.key, since[g], e.reserved)'
  BY <1>9 DEF cacheVars, Owner, Apart, RemovedBetween
<1> QED
  BY <1>6, <1>7, <1>8, <1>11, <1>12 DEF ClaimsInv

\* A key is taken only if every claim to it is past its TTL or was removed.
LEMMA ClaimsTaken ==
    ASSUME Control, Control', ClaimsInv, NEW h \in Callers, Check(h), Cache!TakeOwnership(h)
    PROVE  ClaimsInv'
<1> USE HandlerAssumption DEF Control, Types
<1>1. /\ key[h] \in Keys /\ action[h] = 0 /\ ~Owner(h)
      /\ UNCHANGED <<now, key, action, effects, removed>>
      /\ entries' = [entries EXCEPT ![key[h]] = Cache!Reserved(now)]
      /\ since' = [since EXCEPT ![h] = now]
      /\ pc' = [pc EXCEPT ![h] = "owner"]
  BY CheckSteps DEF Check, Cache!TakeOwnership, Sync, Acting, Owner, runVars, history
<1>2. ASSUME NEW g \in Callers
      PROVE  asOf'[g] <= now'
  <2>1. asOf'[g] \in {asOf[g], 0} /\ now' = now
    BY CheckSteps
  <2> QED
    BY <2>1 DEF ClaimsInv
<1>3. /\ Cache!Reserved(now).present /\ Cache!Reserved(now).createdAt = now
  BY DEF Cache!Reserved
\* What is held is present, so the entry can only be overwritten after its TTL.
<1>4. ASSUME NEW t \in Nat, t <= now, Held(key[h], t)
      PROVE  Apart(key[h], now, t)
  <2>1. CASE RemovedSince(key[h], t)
    BY <1>4, <2>1 DEF ClaimsInv, RemovedSince, RemovedBetween, Apart
  <2>2. CASE ~RemovedSince(key[h], t) /\ now - t < TTL
    <3>1. entries[key[h]].present /\ entries[key[h]].createdAt = t
      BY <1>4, <2>2 DEF Held
    <3>2. now - entries[key[h]].createdAt > TTL
      BY <3>1 DEF Cache!TakeOwnership, Cache!Present, Cache!Expired
    <3> QED
      BY <2>2, <3>1, <3>2
  <2>3. CASE ~(now - t < TTL)
    BY <2>3 DEF Apart
  <2> QED
    BY <2>1, <2>2, <2>3
<1>5. ASSUME NEW k \in Keys, NEW t \in Nat, t <= now, Held(k, t)
      PROVE  Held(k, t)'
  <2>1. CASE k = key[h]
    <3>1. CASE RemovedSince(k, t)
      BY <1>1, <3>1 DEF Held, RemovedSince
    <3>2. CASE ~RemovedSince(k, t) /\ now - t < TTL
      <4>1. entries[key[h]].present /\ entries[key[h]].createdAt = t
        BY <1>5, <2>1, <3>2 DEF Held
      <4>2. now - entries[key[h]].createdAt > TTL
        BY <4>1 DEF Cache!TakeOwnership, Cache!Present, Cache!Expired
      <4> QED
        BY <3>2, <4>1, <4>2
    <3>3. CASE ~(now - t < TTL)
      BY <1>1, <3>3 DEF Held
    <3> QED
      BY <3>1, <3>2, <3>3
  <2>2. CASE k # key[h]
    BY <1>1, <1>5, <2>2 DEF Held, RemovedSince
  <2> QED
    BY <2>1, <2>2
<1>6. Held(key[h], now)'
  BY <1>1, <1>3 DEF Held
<1>7. \A g \in Callers : g # h => (Owner(g)' <=> Owner(g)) /\ since'[g] = since[g]
  BY <1>1 DEF Owner
<1>8. since'[h] = now /\ Owner(h)'
  BY <1>1 DEF Owner
<1>9. \A g \in Callers : Owner(g)' => since'[g] <= now'
  BY <1>1, <1>7, <1>8 DEF ClaimsInv
<1>10. ASSUME NEW g \in Callers, Owner(g)'
       PROVE  HeldBy(g)'
  <2>1. CASE g = h
    BY <1>1, <1>6, <1>8, <2>1 DEF Held, HeldBy, RemovedSince
  <2>2. CASE g # h
    <3>1. Owner(g) /\ since[g] \in Nat /\ since[g] <= now /\ Held(key[g], since[g])
      BY <1>7, <1>10, <2>2 DEF ClaimsInv, HeldBy
    <3>2. \A k \in Keys, t \in Nat : t <= now /\ Held(k, t) =>
             (~(\E r \in removed' : r.key = k /\ t <= r.at) /\ now' - t < TTL =>
                  entries'[k].present /\ entries'[k].createdAt = t)
      BY <1>5 DEF Held, RemovedSince
    <3>3. ~(\E r \in removed' : r.key = key[g] /\ since[g] <= r.at) /\ now' - since[g] < TTL =>
             entries'[key[g]].present /\ entries'[key[g]].createdAt = since[g]
      BY <3>1, <3>2
    <3>4. key'[g] = key[g] /\ since'[g] = since[g]
      BY <1>1, <1>7, <2>2
    <3> QED
      BY <3>3, <3>4 DEF HeldBy, Held, RemovedSince
  <2> QED
    BY <2>1, <2>2
<1>11. \A e \in effects' : e.reserved <= now' /\ Held(e.key, e.reserved)'
  BY <1>1, <1>5 DEF ClaimsInv
<1>12. ASSUME NEW f \in Callers, NEW g \in Callers, f # g, Owner(f)', Owner(g)', key[f] = key[g]
       PROVE  Apart(key[f], since'[f], since'[g])
  <2>1. CASE f # h /\ g # h
    BY <1>7, <1>12, <2>1 DEF ClaimsInv
  <2>2. CASE f = h
    BY <1>4, <1>7, <1>8, <1>12, <2>2 DEF ClaimsInv, HeldBy
  <2>3. CASE g = h
    <3>1. Apart(key[g], since'[g], since'[f])
      BY <1>4, <1>7, <1>8, <1>12, <2>3 DEF ClaimsInv, HeldBy
    <3> QED
      BY <1>12, <3>1 DEF Apart, RemovedBetween
  <2> QED
    BY <2>1, <2>2, <2>3
<1>13. ASSUME NEW g \in Callers, NEW e \in effects, Owner(g)', key[g] = e.key, e.id # action[g]
       PROVE  Apart(e.key, since'[g], e.reserved)
  <2>1. CASE g = h
    BY <1>4, <1>8, <1>13, <2>1 DEF ClaimsInv
  <2>2. CASE g # h
    BY <1>7, <1>13, <2>2 DEF ClaimsInv
  <2> QED
    BY <2>1, <2>2
<1>14. \A f, g \in Callers :
          f # g /\ Owner(f)' /\ Owner(g)' /\ key'[f] = key'[g] => Apart(key[f], since[f], since[g])'
  BY <1>1, <1>12 DEF Apart, RemovedBetween
<1>15. \A g \in Callers, e \in effects' :
          Owner(g)' /\ key'[g] = e.key /\ e.id # action'[g] => Apart(e.key, since[g], e.reserved)'
  BY <1>1, <1>13 DEF Apart, RemovedBetween
<1>16. OneEffectPerKey' /\ \A r \in removed' : r.at \in Nat /\ r.at <= now'
  BY <1>1 DEF ClaimsInv, OneEffectPerKey, RemovedBetween
<1> QED
  BY <1>2, <1>9, <1>10, <1>11, <1>14, <1>15, <1>16 DEF ClaimsInv

\* The steps that leave the cache, the effects and what was removed alone.
LEMMA ClaimsApart ==
    ASSUME Control, Control', ClaimsInv,
           UNCHANGED <<now, cacheVars, effects, removed>>,
           \A h \in Callers : Owner(h) => action'[h] = action[h] \/ action[h] = 0
    PROVE  ClaimsInv'
<1>1. now <= now' /\ \A h \in Callers : asOf'[h] <= now'
  BY DEF cacheVars, ClaimsInv, Control, Types
<1>2. \A h \in Callers : Owner(h)' => /\ Owner(h) /\ key'[h] = key[h] /\ since'[h] = since[h]
                                      /\ action'[h] = action[h] \/ action[h] = 0
  BY DEF cacheVars, Owner
<1>3. \A k \in Keys : entries[k].present =>
         entries'[k].present /\ entries'[k].createdAt = entries[k].createdAt
  BY DEF cacheVars
<1> QED
  BY <1>1, <1>2, <1>3, ClaimsUndisturbed

LEMMA ClaimsPreserved ==
    ASSUME Control, Control', ClaimsInv, [Next]_vars
    PROVE  ClaimsInv'
<1>1. CASE UNCHANGED vars
  BY <1>1, ClaimsApart DEF vars, runVars, history
<1>2. CASE Tick
  <2>1. /\ now' = now + 1 /\ now \in Nat
        /\ UNCHANGED <<entries, pc, key, asOf, since, action, effects, removed>>
    BY <1>2 DEF Tick, Cache!Tick, runVars, history, Control, Types
  <2>2. now <= now' /\ \A h \in Callers : asOf'[h] <= now'
    BY <2>1 DEF ClaimsInv, Control, Types
  <2>3. \A h \in Callers : Owner(h)' => /\ Owner(h) /\ key'[h] = key[h] /\ since'[h] = since[h]
                                        /\ action'[h] = action[h] \/ action[h] = 0
    BY <2>1 DEF Owner
  <2> QED
    BY <2>1, <2>2, <2>3, ClaimsUndisturbed
<1>3. ASSUME NEW h \in Callers, NEW r \in Requests, Arrive(h, r)
      PROVE  ClaimsInv'
  BY <1>3, ClaimsApart DEF Arrive, runVars, history
<1>4. ASSUME NEW h \in Callers, CheckReplay(h) \/ CheckRate(h)
      PROVE  ClaimsInv'
  <2>1. /\ UNCHANGED <<now, cacheVars, effects, removed>> /\ stage[h] \in {"replay", "rate"}
        /\ UNCHANGED action \/ action' = [action EXCEPT ![h] = 0]
    BY <1>4 DEF CheckReplay, CheckRate, End, history
  <2>2. \A g \in Callers : Owner(g) => action'[g] = action[g] \/ action[g] = 0
    BY <2>1 DEF Control, Types, Sync, Owner
  <2> QED
    BY <2>1, <2>2, ClaimsApart
<1>5. ASSUME NEW h \in Callers, BeginCheck(h)
      PROVE  ClaimsInv'
  <2>1. /\ UNCHANGED <<now, entries, since, action, effects, removed>> /\ pc[h] = "idle"
        /\ pc' = [pc EXCEPT ![h] = "purge"] /\ asOf' = [asOf EXCEPT ![h] = now]
        /\ \A g \in Callers : g # h => key'[g] = key[g]
    BY <1>5 DEF BeginCheck, Cache!Begin, runVars, history, Control, Types
  <2>2. now <= now' /\ \A g \in Callers : asOf'[g] <= now'
    BY <2>1 DEF ClaimsInv, Control, Types
  <2>3. \A g \in Callers : Owner(g)' => /\ Owner(g) /\ key'[g] = key[g] /\ since'[g] = since[g]
                                        /\ action'[g] = action[g] \/ action[g] = 0
    BY <2>1 DEF Control, Types, Owner
  <2> QED
    BY <2>1, <2>2, <2>3, ClaimsUndisturbed
<1>6. ASSUME NEW h \in Callers, Check(h), ~Cache!TakeOwnership(h)
      PROVE  ClaimsInv'
  <2>1. /\ UNCHANGED <<now, key, action, effects, removed>>
        /\ pc[h] # "owner" /\ pc'[h] # "owner" /\ since' = since
        /\ \A g \in Callers : g # h => pc'[g] = pc[g] /\ asOf'[g] = asOf[g]
        /\ asOf'[h] \in {asOf[h], 0}
    BY <1>6, CheckSteps DEF runVars, history, Control
  <2>2. now <= now' /\ now \in Nat
    BY <2>1 DEF Control, Types
  <2>3. ASSUME NEW g \in Callers
        PROVE  asOf'[g] <= now'
    <3>1. asOf[g] <= now /\ 0 <= now /\ now' = now
      BY <2>1, <2>2 DEF ClaimsInv
    <3>2. asOf'[g] \in {asOf[g], 0}
      BY <2>1
    <3> QED
      BY <3>1, <3>2
  <2>4. \A g \in Callers : Owner(g)' => /\ Owner(g) /\ key'[g] = key[g] /\ since'[g] = since[g]
                                        /\ action'[g] = action[g] \/ action[g] = 0
    BY <2>1 DEF Owner
  <2>5. ASSUME NEW k \in Keys, entries[k].present, entries'[k] # entries[k]
        PROVE  now - entries[k].createdAt >= TTL
    <3>1. Cache!Stale(k, h)
      BY <1>6, <2>5, CheckEntries DEF Control
    <3>2. asOf[h] - entries[k].createdAt >= TTL /\ asOf[h] <= now
      BY <3>1 DEF Cache!Stale, ClaimsInv
    <3>3. /\ entries[k].createdAt \in Nat /\ asOf[h] \in Nat /\ now \in Nat /\ TTL \in Nat
      <4>1. entries[k] \in Cache!Entry
        BY <2>5 DEF Control, Types, Cache!NoEntry
      <4> QED
        BY <4>1, HandlerAssumption DEF Control, Types, Cache!Entry
    <3> QED
      BY <3>2, <3>3
  <2>6. \A k \in Keys : entries[k].present =>
           \/ entries'[k].present /\ entries'[k].createdAt = entries[k].createdAt
           \/ now - entries[k].createdAt >= TTL
    BY <2>5
  <2> QED
    BY <2>1, <2>2, <2>3, <2>4, <2>6, ClaimsUndisturbed
<1>7. ASSUME NEW h \in Callers, Check(h), Cache!TakeOwnership(h)
      PROVE  ClaimsInv'
  BY <1>7, ClaimsTaken
\* The steps by which a handler leaves the cache.
<1>8. ASSUME NEW h \in Callers,
             End(h), pc' = [pc EXCEPT ![h] = "idle"],
             UNCHANGED <<now, key, asOf, effects>>, removed \subseteq removed',
             \A r \in removed' : r \in removed \/ r.at = now,
             \A g \in Callers : g # h => since'[g] = since[g],
             \A k \in Keys : entries[k].present =>
                 \/ entries'[k].present /\ entries'[k].createdAt = entries[k].createdAt
                 \/ \E r \in removed' : r.key = k /\ r.at = now
      PROVE  ClaimsInv'
  <2>1. now <= now' /\ \A g \in Callers : asOf'[g] <= now'
    BY <1>8 DEF ClaimsInv, Control, Types
  <2>2. \A g \in Callers : Owner(g)' => /\ Owner(g) /\ key'[g] = key[g] /\ since'[g] = since[g]
                                        /\ action'[g] = action[g] \/ action[g] = 0
    BY <1>8 DEF End, Control, Types, Owner
  <2> QED
    BY <1>8, <2>1, <2>2, ClaimsUndisturbed
<1>9. ASSUME NEW h \in Callers, Replayed(h)
      PROVE  ClaimsInv'
  BY <1>8, <1>9 DEF Replayed, Cache!Leave, history
<1>10. ASSUME NEW h \in Callers, TurnedAway(h)
       PROVE  ClaimsInv'
  <2>1. /\ End(h) /\ pc' = [pc EXCEPT ![h] = "idle"] /\ UNCHANGED <<now, key, asOf, since, effects>>
        /\ entries' = [entries EXCEPT ![key[h]] = Cache!NoEntry]
        /\ removed' = IF entries[key[h]].present
                      THEN removed \cup {[key |-> key[h], at |-> now]} ELSE removed
    BY <1>10 DEF TurnedAway, Cache!RemoveAfterFull, Cache!Present
  <2> DEFINE gone == [key |-> key[h], at |-> now]
  <2>2. gone.key = key[h] /\ gone.at = now
    OBVIOUS
  <2>3. removed' = IF entries[key[h]].present THEN removed \cup {gone} ELSE removed
    BY <2>1
  <2> HIDE DEF gone
  <2>4. removed \subseteq removed' /\ \A r \in removed' : r \in removed \/ r.at = now
    BY <2>2, <2>3
  <2>5. ASSUME NEW k \in Keys, entries[k].present
        PROVE  \/ entries'[k].present /\ entries'[k].createdAt = entries[k].createdAt
               \/ \E r \in removed' : r.key = k /\ r.at = now
    <3>1. CASE k = key[h]
      BY <2>2, <2>3, <2>5, <3>1
    <3>2. CASE k # key[h]
      BY <2>1, <2>5, <3>2 DEF Control, Types
    <3> QED
      BY <3>1, <3>2
  <2>6. \A g \in Callers : g # h => since'[g] = since[g]
    BY <2>1
  <2> QED
    BY <1>8, <2>1, <2>4, <2>5, <2>6
<1>11. ASSUME NEW h \in Callers, RejectMalformed(h) \/ Finish(h)
       PROVE  ClaimsInv'
  <2>1. PICK r \in Answers : Cache!Complete(h, r) /\ End(h) /\ UNCHANGED <<effects, removed>>
    <3>1. [id |-> 0, verdict |-> "BadRequest"] \in Answers
      BY DEF Answers
    <3> QED
      BY <1>11, <3>1, AnswerType DEF RejectMalformed, Finish, history
  <2>2. \A k \in Keys : entries[k].present =>
           entries'[k].present /\ entries'[k].createdAt = entries[k].createdAt
    BY <2>1, CompleteEntries DEF Control
  <2>3. /\ UNCHANGED <<now, key, asOf>> /\ pc' = [pc EXCEPT ![h] = "idle"]
        /\ since' = [since EXCEPT ![h] = 0]
    BY <2>1 DEF Cache!Complete, Cache!Disown
  <2> QED
    BY <1>8, <2>1, <2>2, <2>3 DEF Control, Types
<1>12. ASSUME NEW h \in Callers, Drop(h)
       PROVE  ClaimsInv'
  <2>1. /\ End(h) /\ pc' = [pc EXCEPT ![h] = "idle"] /\ since' = [since EXCEPT ![h] = 0]
        /\ UNCHANGED <<now, entries, key, asOf, effects, removed>>
    BY <1>12 DEF Drop, Cache!Abandon, Cache!Disown
  <2> QED
    BY <1>8, <2>1 DEF Control, Types
<1>13. ASSUME NEW h \in Callers, RejectInvalid(h) \/ DryRun(h) \/ Reserve(h)
       PROVE  ClaimsInv'
  <2>1. /\ UNCHANGED <<now, cacheVars, effects, removed>> /\ stage[h] = "cache"
        /\ action' = [action EXCEPT ![h] = lastAction + 1]
    BY <1>13 DEF RejectInvalid, DryRun, Reserve, Owns, DrawId, history
  <2>2. \A g \in Callers : Owner(g) => action'[g] = action[g] \/ action[g] = 0
    BY <2>1 DEF Control, Types, Sync, Acting
  <2> QED
    BY <2>1, <2>2, ClaimsApart
<1>14. ASSUME NEW h \in Callers, RunFile(h) \/ StartAwaited(h) \/ EndAwaited(h)
       PROVE  ClaimsInv'
  <2>1. /\ stage[h] \in {"actuate", "await"} /\ UNCHANGED <<now, cacheVars, action, removed>>
        /\ effects' = effects \/ effects' = effects \cup {Effect(h)}
    BY <1>14 DEF RunFile, StartAwaited, EndAwaited, history
  <2> QED
    BY <2>1, ClaimsApart, ClaimsEffect
<1>15. ASSUME NEW h \in Callers, Prove(h) \/ CountDomain(h)
       PROVE  ClaimsInv'
  BY <1>15, ClaimsApart DEF Prove, CountDomain, history
<1> QED
  BY <1>1, <1>2, <1>3, <1>4, <1>5, <1>6, <1>7, <1>9, <1>10, <1>11, <1>12, <1>13, <1>14, <1>15
  DEF Next, Work

\* A key acts once per TTL, whatever the handlers, the failures and the drops, unless
\* a handler that found the cache full removed it between the two actions.
THEOREM OneEffect == Spec => []OneEffectPerKey
<1>1. Init => ClaimsInv
  BY DEF Init, Cache!Init, ClaimsInv, OneEffectPerKey, Owner
<1>2. Control /\ ClaimsInv /\ [Next]_vars => Control' /\ ClaimsInv'
  BY ControlPreserved, ClaimsPreserved
<1>3. ClaimsInv => OneEffectPerKey
  BY DEF ClaimsInv
<1> QED
  BY <1>1, <1>2, <1>3, InitControl, PTL DEF Spec
-------------------------------------------------------------------------------
(* Proofs of actions, and who loses track *)

\* An id is one handler's.
IdsDiffer == \A g, h \in Callers : g # h /\ action[g] # 0 => action[g] # action[h]

\* Its proof is there once it was proved, and not before.
Unproved == {"actuate", "await", "prove"}

Proved == {"count", "finish"}

ProvedInTime ==
    /\ \A h \in Callers : stage[h] \in Unproved => proofs[action[h]] = "none"
    /\ \A h \in Callers : stage[h] \in Proved => proofs[action[h]] = outcome[h]

\* An entry that is done holds an answer that was proved.
AnswerProved(k) ==
    Cache!Done(k) =>
        /\ entries[k].result \in Answers
        /\ entries[k].result.id # 0 =>
              /\ entries[k].result.id \in 1..lastAction
              /\ proofs[entries[k].result.id] = entries[k].result.verdict

\* The two halves of OnlyDropsLoseTrack.
KeyTracked(k) ==
    Cache!Present(k) /\ entries[k].inFlight =>
        \/ \E h \in Callers : pc[h] = "owner" /\ key[h] = k
        \/ \E d \in dropped : d.key = k

EffectTracked(e) ==
    \/ proofs[e.id] # "none"
    \/ \E h \in Callers : action[h] = e.id
    \/ \E d \in dropped : d.id = e.id

TrackInv ==
    /\ IdsDiffer
    /\ ProvedInTime
    /\ \A k \in Keys : AnswerProved(k) /\ KeyTracked(k)
    /\ \A e \in effects : EffectTracked(e)

LEMMA InitTrack == Init => TrackInv
  BY DEF Init, Cache!Init, TrackInv, IdsDiffer, ProvedInTime, AnswerProved, KeyTracked,
         Unproved, Proved, Cache!Done, Cache!Present, Cache!NoEntry

\* A step that neither draws an id nor proves an action, by which no owner leaves: it
\* may free a key, or take it.
LEMMA TrackUndisturbed ==
    ASSUME Control, TrackInv,
           UNCHANGED <<action, proofs, lastAction>>, dropped \subseteq dropped',
           \A e \in effects' : e \in effects \/ \E h \in Callers : action[h] = e.id,
           \A h \in Callers : stage'[h] \in Unproved => stage[h] \in Unproved,
           \A h \in Callers : stage'[h] \in Proved => stage[h] \in Proved /\ outcome'[h] = outcome[h],
           \A h \in Callers : Owner(h) => Owner(h)' /\ key'[h] = key[h],
           \A k \in Keys : \/ entries'[k] = entries[k] \/ ~entries'[k].present
                           \/ entries'[k].inFlight /\ \E h \in Callers : Owner(h)' /\ key'[h] = k
    PROVE  TrackInv'
<1>1. IdsDiffer'
  BY DEF TrackInv, IdsDiffer
<1>2. ProvedInTime'
  BY DEF TrackInv, ProvedInTime
<1>3. ASSUME NEW k \in Keys
      PROVE  AnswerProved(k)'
  <2>1. CASE entries'[k] = entries[k]
    BY <2>1 DEF TrackInv, AnswerProved, Cache!Done, Cache!Present
  <2>2. CASE ~entries'[k].present \/ entries'[k].inFlight
    BY <2>2 DEF AnswerProved, Cache!Done, Cache!Present
  <2> QED
    BY <2>1, <2>2
<1>4. ASSUME NEW k \in Keys
      PROVE  KeyTracked(k)'
  <2>1. CASE entries'[k] = entries[k]
    BY <2>1 DEF TrackInv, KeyTracked, Cache!Present, Owner
  <2>2. CASE ~entries'[k].present
    BY <2>2 DEF KeyTracked, Cache!Present
  <2>3. CASE \E h \in Callers : Owner(h)' /\ key'[h] = k
    BY <2>3 DEF KeyTracked, Owner
  <2> QED
    BY <2>1, <2>2, <2>3
<1>5. ASSUME NEW e \in effects'
      PROVE  EffectTracked(e)'
  BY <1>5 DEF TrackInv, EffectTracked
<1> QED
  BY <1>1, <1>2, <1>3, <1>4, <1>5 DEF TrackInv

\* A handler ends that has an answer for its key: one without an id, or proved.
LEMMA TrackCompleted ==
    ASSUME Control, TrackInv, NEW h \in Callers, NEW r \in Answers,
           Cache!Complete(h, r), End(h), UNCHANGED <<lastAction, proofs, effects, dropped>>,
           r.id # 0 => r.id \in 1..lastAction /\ proofs[r.id] = r.verdict,
           action[h] # 0 => proofs[action[h]] # "none"
    PROVE  TrackInv'
<1>1. /\ key' = key /\ action' = [action EXCEPT ![h] = 0]
      /\ stage' = [stage EXCEPT ![h] = "idle"] /\ outcome' = [outcome EXCEPT ![h] = "ServiceUnavailable"]
      /\ \A g \in Callers : g # h => pc'[g] = pc[g]
  BY DEF Cache!Complete, Cache!Disown, End, Go, Control, Types
<1>2. \A k \in Keys :
         \/ entries'[k] = entries[k] /\ (k # key[h] \/ ~entries[k].present)
         \/ /\ k = key[h] /\ entries[k].present /\ entries'[k].present
            /\ entries'[k].createdAt = entries[k].createdAt
            /\ entries'[k].inFlight = FALSE /\ entries'[k].result = r
  BY CompleteEntries DEF Control
<1>3. IdsDiffer'
  BY <1>1 DEF TrackInv, IdsDiffer, Control, Types
<1>4. ProvedInTime'
  BY <1>1 DEF TrackInv, ProvedInTime, Unproved, Proved, Control, Types
<1>5. ASSUME NEW k \in Keys
      PROVE  AnswerProved(k)' /\ KeyTracked(k)'
  <2>1. CASE entries'[k] = entries[k] /\ ~entries[k].present
    BY <2>1 DEF AnswerProved, KeyTracked, Cache!Done, Cache!Present
  <2>2. CASE entries'[k] = entries[k] /\ k # key[h]
    <3>1. AnswerProved(k) /\ KeyTracked(k)
      BY DEF TrackInv
    <3>2. AnswerProved(k)'
      BY <2>2, <3>1 DEF AnswerProved, Cache!Done, Cache!Present
    <3>3. KeyTracked(k)'
      BY <1>1, <2>2, <3>1 DEF KeyTracked, Cache!Present
    <3> QED
      BY <3>2, <3>3
  <2>3. CASE entries'[k].inFlight = FALSE /\ entries'[k].result = r
    BY <2>3 DEF AnswerProved, KeyTracked, Cache!Done, Cache!Present
  <2> QED
    BY <1>2, <2>1, <2>2, <2>3
<1>6. ASSUME NEW e \in effects'
      PROVE  EffectTracked(e)'
  <2>1. e \in effects /\ EffectTracked(e) /\ e.id # 0
    BY <1>6 DEF TrackInv, Control, Types
  <2>2. \A g \in Callers : g # h => action'[g] = action[g]
    BY <1>1 DEF Control, Types
  <2> QED
    BY <2>1, <2>2 DEF EffectTracked
<1> QED
  BY <1>3, <1>4, <1>5, <1>6 DEF TrackInv

\* A drop is how a key stays in flight, and an action goes unproved.
LEMMA TrackDropped ==
    ASSUME Control, TrackInv, NEW h \in Callers, Drop(h)
    PROVE  TrackInv'
<1>1. /\ UNCHANGED <<entries, key, lastAction, proofs, effects>>
      /\ action' = [action EXCEPT ![h] = 0]
      /\ stage' = [stage EXCEPT ![h] = "idle"] /\ outcome' = [outcome EXCEPT ![h] = "ServiceUnavailable"]
      /\ dropped' = dropped \cup {[id |-> action[h], key |-> key[h]]}
      /\ \A g \in Callers : g # h => pc'[g] = pc[g]
  BY DEF Drop, Cache!Abandon, Cache!Disown, End, Go, Control, Types
<1> DEFINE lost == [id |-> action[h], key |-> key[h]]
<1>2. \E d \in dropped' : d.id = action[h] /\ d.key = key[h]
  <2>1. lost \in dropped' /\ lost.id = action[h] /\ lost.key = key[h]
    BY <1>1
  <2> QED
    BY <2>1
<1> HIDE DEF lost
<1>3. IdsDiffer'
  BY <1>1 DEF TrackInv, IdsDiffer, Control, Types
<1>4. ProvedInTime'
  BY <1>1 DEF TrackInv, ProvedInTime, Unproved, Proved, Control, Types
<1>5. ASSUME NEW k \in Keys
      PROVE  AnswerProved(k)' /\ KeyTracked(k)'
  <2>1. AnswerProved(k) /\ KeyTracked(k)
    BY DEF TrackInv
  <2>2. AnswerProved(k)'
    BY <1>1, <2>1 DEF AnswerProved, Cache!Done, Cache!Present
  <2>3. KeyTracked(k)'
    BY <1>1, <1>2, <2>1 DEF KeyTracked, Cache!Present
  <2> QED
    BY <2>2, <2>3
<1>6. ASSUME NEW e \in effects'
      PROVE  EffectTracked(e)'
  <2>1. e \in effects /\ EffectTracked(e)
    BY <1>1, <1>6 DEF TrackInv
  <2>2. \A g \in Callers : g # h => action'[g] = action[g]
    BY <1>1 DEF Control, Types
  <2> QED
    BY <1>1, <1>2, <2>1, <2>2 DEF EffectTracked
<1> QED
  BY <1>3, <1>4, <1>5, <1>6 DEF TrackInv

\* A new id is no one's, and is not proved.
LEMMA TrackDrawn ==
    ASSUME Control, TrackInv, NEW h \in Callers, Owns(h), DrawId(h),
           UNCHANGED <<cacheVars, effects, history>>,
           stage'[h] \in Unproved, \A g \in Callers : g # h => stage'[g] = stage[g] /\ outcome'[g] = outcome[g]
    PROVE  TrackInv'
<1>1. /\ lastAction \in Nat /\ lastAction' = lastAction + 1
      /\ action[h] = 0 /\ action' = [action EXCEPT ![h] = lastAction + 1]
      /\ \A i \in 1..lastAction : proofs'[i] = proofs[i]
      /\ proofs'[lastAction + 1] = "none"
  <2>1. lastAction \in Nat
    BY HandlerAssumption DEF Control, Types
  <2>2. action[h] = 0
    BY DEF Owns, Control, Sync, Acting
  <2>3. /\ lastAction' = lastAction + 1 /\ action' = [action EXCEPT ![h] = lastAction + 1]
        /\ proofs' = [i \in 1..(lastAction + 1) |-> IF i <= lastAction THEN proofs[i] ELSE "none"]
    BY DEF DrawId
  <2> QED
    BY <2>1, <2>2, <2>3
<1>2. \A g \in Callers : action[g] = 0 \/ action[g] \in 1..lastAction
  BY DEF Control, Sync
<1>3. action'[h] = lastAction + 1 /\ \A g \in Callers : g # h => action'[g] = action[g]
  BY <1>1 DEF Control, Types
<1>4. IdsDiffer'
  BY <1>1, <1>2, <1>3 DEF TrackInv, IdsDiffer
<1>5. \A g \in Callers : stage[g] \in Unproved \cup Proved => action[g] \in 1..lastAction
  BY DEF Control, Sync, Acting, Unproved, Proved
<1>6. ProvedInTime'
  BY <1>1, <1>3, <1>5 DEF TrackInv, ProvedInTime, Unproved, Proved
<1>7. ASSUME NEW k \in Keys
      PROVE  AnswerProved(k)' /\ KeyTracked(k)'
  <2>1. AnswerProved(k) /\ KeyTracked(k)
    BY DEF TrackInv
  <2>2. AnswerProved(k)'
    BY <1>1, <2>1 DEF cacheVars, AnswerProved, Cache!Done, Cache!Present
  <2>3. KeyTracked(k)'
    BY <2>1 DEF cacheVars, history, KeyTracked, Cache!Present
  <2> QED
    BY <2>2, <2>3
<1>8. ASSUME NEW e \in effects'
      PROVE  EffectTracked(e)'
  <2>1. e \in effects /\ EffectTracked(e) /\ e.id \in 1..lastAction /\ e.id # 0
    BY <1>8 DEF TrackInv, Control, Types
  <2> QED
    BY <1>1, <1>3, <2>1 DEF EffectTracked, history
<1> QED
  BY <1>4, <1>6, <1>7, <1>8 DEF TrackInv

\* What is proved was not, so no answer told of it yet.
LEMMA TrackProved ==
    ASSUME Control, TrackInv, NEW h \in Callers, Prove(h)
    PROVE  TrackInv'
<1>1. /\ UNCHANGED <<entries, pc, key, action, outcome, lastAction, effects, dropped>>
      /\ stage[h] = "prove" /\ stage'[h] \in Proved
      /\ \A g \in Callers : g # h => stage'[g] = stage[g]
      /\ proofs' = [proofs EXCEPT ![action[h]] = outcome[h]]
  BY DEF Prove, Record, Go, cacheVars, history, Proved, Control, Types
<1>2. /\ action[h] \in 1..lastAction /\ action[h] # 0 /\ outcome[h] # "none"
      /\ proofs[action[h]] = "none"
  <2>1. action[h] \in 1..lastAction /\ action[h] # 0
    BY <1>1 DEF Control, Types, Sync, Acting
  <2>2. outcome[h] # "none"
    BY DEF Control, Types, ProofVerdicts
  <2>3. proofs[action[h]] = "none"
    BY <1>1 DEF TrackInv, ProvedInTime, Unproved
  <2> QED
    BY <2>1, <2>2, <2>3
<1>3. /\ proofs'[action[h]] = outcome[h]
      /\ \A i \in 1..lastAction : i # action[h] => proofs'[i] = proofs[i]
  BY <1>1, <1>2 DEF Control, Types
<1>4. IdsDiffer /\ IdsDiffer'
  BY <1>1 DEF TrackInv, IdsDiffer
<1>5. \A g \in Callers : g # h => action[g] # action[h]
  BY <1>2, <1>4 DEF IdsDiffer
<1>6. \A g \in Callers : stage[g] \in Unproved \cup Proved => action[g] \in 1..lastAction
  BY DEF Control, Sync, Acting, Unproved, Proved
<1>7. ProvedInTime'
  BY <1>1, <1>3, <1>5, <1>6 DEF TrackInv, ProvedInTime, Unproved, Proved
<1>8. ASSUME NEW k \in Keys
      PROVE  AnswerProved(k)' /\ KeyTracked(k)'
  <2>1. AnswerProved(k) /\ KeyTracked(k)
    BY DEF TrackInv
  <2>2. ASSUME Cache!Done(k), entries[k].result.id # 0
        PROVE  entries[k].result.id # action[h]
    <3>1. /\ entries[k].result \in Answers
          /\ proofs[entries[k].result.id] = entries[k].result.verdict
      BY <2>1, <2>2 DEF AnswerProved
    <3>2. entries[k].result.verdict # "none"
      BY <3>1 DEF Answers, ProofVerdicts
    <3> QED
      BY <1>2, <3>1, <3>2
  <2>3. AnswerProved(k)'
    BY <1>1, <1>3, <2>1, <2>2 DEF AnswerProved, Cache!Done, Cache!Present
  <2>4. KeyTracked(k)'
    BY <1>1, <2>1 DEF KeyTracked, Cache!Present
  <2> QED
    BY <2>3, <2>4
<1>9. ASSUME NEW e \in effects'
      PROVE  EffectTracked(e)'
  <2>1. e \in effects /\ EffectTracked(e) /\ e.id \in 1..lastAction
    BY <1>1, <1>9 DEF TrackInv, Control, Types
  <2> QED
    BY <1>1, <1>2, <1>3, <2>1 DEF EffectTracked
<1> QED
  BY <1>4, <1>7, <1>8, <1>9 DEF TrackInv
LEMMA TrackPreserved ==
    ASSUME Control, Control', TrackInv, [Next]_vars
    PROVE  TrackInv'
\* The steps that leave the ids, the proofs and the effects alone.
<1>1. ASSUME NEW h \in Callers,
             UNCHANGED <<entries, action, proofs, lastAction, effects, dropped>>,
             \A g \in Callers : g # h => stage'[g] = stage[g] /\ outcome'[g] = outcome[g],
             stage'[h] \notin Unproved \cup Proved,
             \A g \in Callers : Owner(g) => Owner(g)' /\ key'[g] = key[g]
      PROVE  TrackInv'
  BY <1>1, TrackUndisturbed
<1>2. CASE UNCHANGED vars \/ Tick
  <2>1. UNCHANGED <<entries, pc, key, stage, action, outcome, proofs, lastAction, effects, dropped>>
    BY <1>2 DEF vars, cacheVars, Tick, Cache!Tick, runVars, history
  <2> QED
    BY <2>1, TrackUndisturbed DEF Owner
<1>3. ASSUME NEW h \in Callers, NEW r \in Requests, Arrive(h, r)
      PROVE  TrackInv'
  <2>1. /\ UNCHANGED <<entries, pc, key, action, outcome, proofs, lastAction, effects, dropped>>
        /\ \A g \in Callers : g # h => stage'[g] = stage[g]
        /\ stage'[h] \notin Unproved \cup Proved
    BY <1>3 DEF Arrive, Go, cacheVars, runVars, history, Unproved, Proved, Control, Types
  <2> QED
    BY <1>1, <2>1 DEF Owner
<1>4. ASSUME NEW h \in Callers, CheckReplay(h) \/ CheckRate(h)
      PROVE  TrackInv'
  <2>1. /\ UNCHANGED <<cacheVars, lastAction, proofs, effects, history>> /\ stage[h] \in {"replay", "rate"}
        /\ \/ Go(h, "rate") /\ UNCHANGED <<req, action, outcome>>
           \/ Go(h, "check") /\ UNCHANGED <<req, action, outcome>>
           \/ End(h)
    <3>1. CASE CheckReplay(h)
      BY <3>1 DEF CheckReplay
    <3>2. CASE CheckRate(h)
      BY <3>2 DEF CheckRate
    <3> QED
      BY <1>4, <3>1, <3>2
  <2>2. action[h] = 0
    BY <2>1 DEF Control, Sync, Acting
  <2>3. UNCHANGED action
    BY <2>1, <2>2 DEF End, Control, Types
  <2>4. /\ \A g \in Callers : g # h => stage'[g] = stage[g] /\ outcome'[g] = outcome[g]
        /\ stage'[h] \notin Unproved \cup Proved
    BY <2>1 DEF Go, End, Unproved, Proved, Control, Types
  <2> QED
    BY <1>1, <2>1, <2>3, <2>4 DEF cacheVars, history, Owner
<1>5. ASSUME NEW h \in Callers, BeginCheck(h)
      PROVE  TrackInv'
  <2>1. /\ UNCHANGED <<entries, action, outcome, proofs, lastAction, effects, dropped>>
        /\ \A g \in Callers : g # h => stage'[g] = stage[g] /\ pc'[g] = pc[g] /\ key'[g] = key[g]
        /\ stage'[h] \notin Unproved \cup Proved /\ pc[h] = "idle"
    BY <1>5 DEF BeginCheck, Cache!Begin, Go, runVars, history, Unproved, Proved, Control, Types
  <2> QED
    BY <1>1, <2>1 DEF Owner
<1>6. ASSUME NEW h \in Callers, Check(h)
      PROVE  TrackInv'
  <2>1. /\ UNCHANGED <<key, stage, action, outcome, proofs, lastAction, effects, dropped>>
        /\ \A g \in Callers : g # h => pc'[g] = pc[g]
        /\ pc[h] # "owner"
    BY <1>6, CheckSteps DEF runVars, history, Control
  <2>2. ASSUME NEW k \in Keys
        PROVE  \/ entries'[k] = entries[k] \/ ~entries'[k].present
               \/ entries'[k].inFlight /\ \E g \in Callers : Owner(g)' /\ key'[g] = k
    <3>1. CASE Cache!TakeOwnership(h)
      <4>1. /\ entries' = [entries EXCEPT ![key[h]] = Cache!Reserved(now)]
            /\ Owner(h)' /\ key'[h] = key[h]
        BY <2>1, <3>1 DEF Cache!TakeOwnership, Owner, Control, Types
      <4>2. Cache!Reserved(now).inFlight
        BY DEF Cache!Reserved
      <4> QED
        BY <4>1, <4>2 DEF Control, Types
    <3>2. CASE ~Cache!TakeOwnership(h)
      BY <1>6, <3>2, CheckEntries DEF Control, Cache!NoEntry
    <3> QED
      BY <3>1, <3>2
  <2>3. \A g \in Callers : Owner(g) => Owner(g)' /\ key'[g] = key[g]
    BY <2>1 DEF Owner
  <2> QED
    BY <2>1, <2>2, <2>3, TrackUndisturbed
<1>7. ASSUME NEW h \in Callers, Replayed(h) \/ TurnedAway(h)
      PROVE  TrackInv'
  <2>1. /\ UNCHANGED <<key, lastAction, proofs, effects, dropped>> /\ End(h)
        /\ pc' = [pc EXCEPT ![h] = "idle"] /\ pc[h] # "owner" /\ stage[h] = "cache"
        /\ entries' = entries \/ entries' = [entries EXCEPT ![key[h]] = Cache!NoEntry]
    BY <1>7 DEF Replayed, TurnedAway, Cache!Leave, Cache!RemoveAfterFull, history
  <2>2. action[h] = 0
    BY <2>1 DEF Control, Sync, Acting
  <2>3. UNCHANGED action
    BY <2>1, <2>2 DEF End, Control, Types
  <2>4. /\ \A g \in Callers : g # h => stage'[g] = stage[g] /\ outcome'[g] = outcome[g]
        /\ stage'[h] = "idle"
    BY <2>1 DEF Go, End, Control, Types
  <2>5. \A k \in Keys : entries'[k] = entries[k] \/ ~entries'[k].present
    BY <2>1 DEF Control, Types, Cache!NoEntry
  <2>6. \A g \in Callers : Owner(g) => Owner(g)' /\ key'[g] = key[g]
    BY <2>1 DEF Owner, Control, Types
  <2>7. /\ \A g \in Callers : stage'[g] \in Unproved => stage[g] \in Unproved
        /\ \A g \in Callers : stage'[g] \in Proved => stage[g] \in Proved /\ outcome'[g] = outcome[g]
    BY <2>4 DEF Unproved, Proved
  <2> QED
    BY <2>1, <2>3, <2>5, <2>6, <2>7, TrackUndisturbed
<1>8. ASSUME NEW h \in Callers, RejectMalformed(h)
      PROVE  TrackInv'
  <2> DEFINE r == [id |-> 0, verdict |-> "BadRequest"]
  <2>1. r \in Answers /\ r.id = 0
    BY DEF Answers
  <2>2. Cache!Complete(h, r) /\ End(h) /\ UNCHANGED <<lastAction, proofs, effects, dropped>>
    BY <1>8 DEF RejectMalformed, history
  <2>3. action[h] = 0
    BY <1>8 DEF RejectMalformed, Owns, Control, Sync, Acting
  <2> HIDE DEF r
  <2> QED
    BY <2>1, <2>2, <2>3, TrackCompleted
<1>9. ASSUME NEW h \in Callers, Finish(h)
      PROVE  TrackInv'
  <2> DEFINE r == [id |-> action[h], verdict |-> outcome[h]]
  <2>1. stage[h] = "finish"
    BY <1>9 DEF Finish
  <2>2. r \in Answers
    BY <2>1, AnswerType
  <2>3. r.id = action[h] /\ r.verdict = outcome[h]
    OBVIOUS
  <2>4. Cache!Complete(h, r) /\ End(h) /\ UNCHANGED <<lastAction, proofs, effects, dropped>>
    BY <1>9 DEF Finish, history
  <2> HIDE DEF r
  <2>5. action[h] \in 1..lastAction /\ outcome[h] # "none"
    BY <2>1 DEF Control, Types, Sync, Acting, ProofVerdicts
  <2>6. proofs[action[h]] = outcome[h]
    BY <2>1 DEF TrackInv, ProvedInTime, Proved
  <2> QED
    BY <2>2, <2>3, <2>4, <2>5, <2>6, TrackCompleted
<1>10. ASSUME NEW h \in Callers, RejectInvalid(h) \/ DryRun(h) \/ Reserve(h)
       PROVE  TrackInv'
  <2>1. /\ Owns(h) /\ DrawId(h) /\ UNCHANGED <<cacheVars, effects, history>>
        /\ \/ \E v \in ProofVerdicts : Result(h, v)
           \/ Go(h, "actuate") /\ UNCHANGED outcome
    <3>1. CASE RejectInvalid(h)
      BY <3>1 DEF RejectInvalid, ProofVerdicts
    <3>2. CASE DryRun(h)
      BY <3>2 DEF DryRun, ProofVerdicts
    <3>3. CASE Reserve(h)
      BY <3>3 DEF Reserve, ProofVerdicts
    <3> QED
      BY <1>10, <3>1, <3>2, <3>3
  <2>2. /\ stage'[h] \in Unproved
        /\ \A g \in Callers : g # h => stage'[g] = stage[g] /\ outcome'[g] = outcome[g]
    BY <2>1 DEF Result, Go, Unproved, Control, Types
  <2> QED
    BY <2>1, <2>2, TrackDrawn
<1>11. ASSUME NEW h \in Callers, RunFile(h) \/ StartAwaited(h) \/ EndAwaited(h)
       PROVE  TrackInv'
  <2>1. /\ stage[h] \in {"actuate", "await"} /\ UNCHANGED <<cacheVars, action, lastAction, proofs, history>>
        /\ effects' \in {effects, effects \cup {Effect(h)}}
        /\ \/ \E v \in ProofVerdicts : Result(h, v)
           \/ Go(h, "await") /\ UNCHANGED outcome
    BY <1>11 DEF RunFile, StartAwaited, EndAwaited, ProofVerdicts, Failures
  <2>2. /\ stage[h] \in Unproved /\ stage'[h] \in Unproved /\ stage'[h] \notin Proved
        /\ \A g \in Callers : g # h => stage'[g] = stage[g] /\ outcome'[g] = outcome[g]
    BY <2>1 DEF Result, Go, Unproved, Proved, Control, Types
  <2>3. Effect(h).id = action[h]
    BY DEF Effect
  <2>4. \A e \in effects' : e \in effects \/ \E g \in Callers : action[g] = e.id
    BY <2>1, <2>3
  <2>5. /\ \A g \in Callers : stage'[g] \in Unproved => stage[g] \in Unproved
        /\ \A g \in Callers : stage'[g] \in Proved => stage[g] \in Proved /\ outcome'[g] = outcome[g]
    BY <2>2
  <2> QED
    BY <2>1, <2>4, <2>5, TrackUndisturbed DEF cacheVars, history, Owner
<1>12. ASSUME NEW h \in Callers, Drop(h)
       PROVE  TrackInv'
  BY <1>12, TrackDropped
<1>13. ASSUME NEW h \in Callers, Prove(h)
       PROVE  TrackInv'
  BY <1>13, TrackProved
<1>14. ASSUME NEW h \in Callers, CountDomain(h)
       PROVE  TrackInv'
  <2>1. /\ UNCHANGED <<cacheVars, action, outcome, proofs, lastAction, effects, history>>
        /\ stage[h] \in Proved /\ stage'[h] \in Proved /\ stage'[h] \notin Unproved
        /\ \A g \in Callers : g # h => stage'[g] = stage[g]
    BY <1>14 DEF CountDomain, Go, Proved, Unproved, Control, Types
  <2>2. /\ \A g \in Callers : stage'[g] \in Unproved => stage[g] \in Unproved
        /\ \A g \in Callers : stage'[g] \in Proved => stage[g] \in Proved /\ outcome'[g] = outcome[g]
    BY <2>1
  <2> QED
    BY <2>1, <2>2, TrackUndisturbed DEF cacheVars, history, Owner
<1> QED
  BY <1>2, <1>3, <1>4, <1>5, <1>6, <1>7, <1>8, <1>9, <1>10, <1>11, <1>12, <1>13, <1>14
  DEF Next, Work

LEMMA Tracking == Spec => []TrackInv
<1>1. Control /\ TrackInv /\ [Next]_vars => Control' /\ TrackInv'
  BY ControlPreserved, TrackPreserved
<1> QED
  BY <1>1, InitControl, InitTrack, PTL DEF Spec

\* A key is in flight without a handler, or an action done without a proof, only
\* where a handler was dropped in its await.
THEOREM OnlyDrops == Spec => []OnlyDropsLoseTrack
<1>1. TrackInv => OnlyDropsLoseTrack
  BY DEF TrackInv, KeyTracked, EffectTracked, OnlyDropsLoseTrack
<1> QED
  BY <1>1, Tracking, PTL

-------------------------------------------------------------------------------
(* What the other steps of a handler leave alone *)

Provable == {i \in DOMAIN proofs : proofs[i] = "Authorized"}

Counting == {h \in Callers : stage[h] = "count"}

\* Only h moves.
Alone(h) ==
    \A g \in Callers \ {h} :
        stage'[g] = stage[g] /\ req'[g] = req[g] /\ action'[g] = action[g] /\ since'[g] = since[g]

\* A new id has no proof yet.
LEMMA DrawIdProvesNothing ==
    ASSUME Control, NEW h \in Callers, DrawId(h)
    PROVE  /\ Provable' = Provable /\ ProvedIds' = ProvedIds
           /\ \A g \in Callers \ {h} : action'[g] = action[g]
<1>1. lastAction \in Nat /\ DOMAIN proofs = 1..lastAction
  BY HandlerAssumption DEF Control, Types
<1>2. /\ DOMAIN proofs' = 1..(lastAction + 1)
      /\ \A i \in 1..lastAction : proofs'[i] = proofs[i]
      /\ proofs'[lastAction + 1] = "none"
  BY <1>1 DEF DrawId
<1>3. lastAction + 1 \notin ProvedIds' /\ lastAction + 1 \notin Provable'
  BY <1>2 DEF ProvedIds, Provable
<1> QED
  BY <1>1, <1>2, <1>3 DEF ProvedIds, Provable, DrawId, Control, Types

\* All steps of a handler but the three that move a sum: nothing is charged, counted or
\* proved, and what reaches the outside world is what was about to.
Plain(h) ==
    /\ UNCHANGED <<used, counters, records>>
    /\ ProvedIds' = ProvedIds
    /\ stage[h] # "count" /\ stage'[h] \notin {"count", "actuate"}
    /\ Provable' = Provable
    /\ \A e \in effects' : e \in effects \/ (stage[h] = "actuate" /\ e = Effect(h))

\* The value of f at h is set.
Sets(f, fNext, h) == \E x : fNext = [f EXCEPT ![h] = x]

LEMMA MovesAlone ==
    ASSUME Types, NEW h \in Callers,
           UNCHANGED stage \/ Sets(stage, stage', h),
           UNCHANGED req \/ Sets(req, req', h),
           UNCHANGED action \/ Sets(action, action', h),
           UNCHANGED since \/ Sets(since, since', h)
    PROVE  Alone(h)
<1> SUFFICES ASSUME NEW g \in Callers \ {h}
             PROVE  stage'[g] = stage[g] /\ req'[g] = req[g] /\ action'[g] = action[g] /\ since'[g] = since[g]
  BY DEF Alone
<1>1. stage'[g] = stage[g]
  BY DEF Types, Sets
<1>2. req'[g] = req[g]
  BY DEF Types, Sets
<1>3. action'[g] = action[g]
  BY DEF Types, Sets
<1>4. since'[g] = since[g]
  BY DEF Types, Sets
<1> QED
  BY <1>1, <1>2, <1>3, <1>4

LEMMA EndMoves ==
    ASSUME Types, NEW h \in Callers, End(h), UNCHANGED since \/ Sets(since, since', h)
    PROVE  Alone(h) /\ stage'[h] = "idle"
<1>1. Sets(stage, stage', h) /\ Sets(req, req', h) /\ Sets(action, action', h)
  BY DEF End, Go, Sets
<1>2. stage'[h] = "idle"
  BY DEF End, Go, Types
<1> QED
  BY <1>1, <1>2, MovesAlone

LEMMA GoMoves ==
    ASSUME Types, NEW h \in Callers, NEW s, Go(h, s), UNCHANGED <<req, action, since>>
    PROVE  Alone(h) /\ stage'[h] = s
<1>1. Sets(stage, stage', h)
  BY DEF Go, Sets
<1>2. stage'[h] = s
  BY DEF Go, Types
<1> QED
  BY <1>1, <1>2, MovesAlone

LEMMA PlainSteps ==
    ASSUME Control, NEW h \in Callers,
           \/ \E r \in Requests : Arrive(h, r)
           \/ Work(h) /\ ~Reserve(h) /\ ~Prove(h) /\ ~CountDomain(h)
           \/ Drop(h)
    PROVE  Plain(h) /\ Alone(h)
<1> Types
  BY DEF Control
<1> DEFINE Quiet == UNCHANGED <<used, records, proofs, counters, effects>>
<1>a. ASSUME Quiet, stage[h] # "count", stage'[h] \notin {"count", "actuate"}
      PROVE  Plain(h)
  BY <1>a DEF Plain, Provable, ProvedIds
<1>1. ASSUME NEW r \in Requests, Arrive(h, r)
      PROVE  Plain(h) /\ Alone(h)
  <2>1. Quiet /\ UNCHANGED <<action, since>> /\ stage[h] = "idle" /\ Sets(req, req', h)
    BY <1>1 DEF Arrive, cacheVars, runVars, Sets
  <2>2. PICK s \in {"rate", "replay"} : Go(h, s)
    BY <1>1 DEF Arrive
  <2>3. Sets(stage, stage', h) /\ stage'[h] = s
    BY <2>2 DEF Go, Sets, Types
  <2>4. Alone(h)
    BY <2>1, <2>3, MovesAlone
  <2> QED
    BY <1>a, <2>1, <2>3, <2>4
<1>2. CASE CheckReplay(h) \/ CheckRate(h)
  <2>1. /\ Quiet /\ UNCHANGED since /\ stage[h] \in {"replay", "rate"}
        /\ \/ Go(h, "rate") /\ UNCHANGED <<req, action>>
           \/ Go(h, "check") /\ UNCHANGED <<req, action>>
           \/ End(h)
    <3>1. CASE CheckReplay(h)
      BY <3>1 DEF CheckReplay, cacheVars
    <3>2. CASE CheckRate(h)
      BY <3>2 DEF CheckRate, cacheVars
    <3> QED
      BY <1>2, <3>1, <3>2
  <2>2. Alone(h) /\ stage'[h] \in {"rate", "check", "idle"}
    BY <2>1, EndMoves, GoMoves
  <2> QED
    BY <1>a, <2>1, <2>2
<1>3. CASE BeginCheck(h)
  <2>1. Quiet /\ UNCHANGED <<req, action, since>> /\ stage[h] = "check" /\ Go(h, "cache")
    BY <1>3 DEF BeginCheck, Cache!Begin, runVars
  <2> QED
    BY <1>a, <2>1, GoMoves
<1>4. CASE Check(h)
  <2>1. /\ Quiet /\ UNCHANGED <<stage, req, action>> /\ stage[h] = "cache"
        /\ \A g \in Callers : g # h => since'[g] = since[g]
    BY <1>4, CheckSteps DEF Check, runVars
  <2>2. Alone(h)
    BY <2>1 DEF Alone
  <2> QED
    BY <1>a, <2>1, <2>2
<1>5. CASE Replayed(h) \/ TurnedAway(h)
  <2>1. Quiet /\ UNCHANGED since /\ stage[h] = "cache" /\ End(h)
    BY <1>5 DEF Replayed, TurnedAway, Cache!Leave, Cache!RemoveAfterFull
  <2> QED
    BY <1>a, <2>1, EndMoves
<1>6. CASE RejectMalformed(h) \/ Finish(h) \/ Drop(h)
  <2>1. /\ Quiet /\ stage[h] \in {"cache", "finish", "await"}
        /\ End(h) /\ since' = [since EXCEPT ![h] = 0]
    BY <1>6 DEF RejectMalformed, Finish, Drop, Owns, Cache!Complete, Cache!Abandon, Cache!Disown
  <2>2. Sets(since, since', h)
    BY <2>1 DEF Sets
  <2> QED
    BY <1>a, <2>1, <2>2, EndMoves
<1>7. CASE RejectInvalid(h) \/ DryRun(h)
  <2>1. /\ UNCHANGED <<since, used, records, counters, effects, req>> /\ stage[h] = "cache"
        /\ DrawId(h) /\ Go(h, "prove")
    BY <1>7 DEF RejectInvalid, DryRun, Result, Owns, cacheVars
  <2>2. Provable' = Provable /\ ProvedIds' = ProvedIds
    BY <2>1, DrawIdProvesNothing
  <2>3. Sets(stage, stage', h) /\ Sets(action, action', h) /\ stage'[h] = "prove"
    BY <2>1 DEF Go, DrawId, Sets, Types
  <2>4. Alone(h)
    BY <2>1, <2>3, MovesAlone
  <2> QED
    BY <2>1, <2>2, <2>3, <2>4 DEF Plain
<1>8. CASE RunFile(h) \/ StartAwaited(h) \/ EndAwaited(h)
  <2>1. /\ UNCHANGED <<since, used, counters, req, action, records, proofs>>
        /\ Go(h, "prove") \/ Go(h, "await")
        /\ \/ stage[h] = "actuate" /\ effects' \in {effects, effects \cup {Effect(h)}}
           \/ stage[h] = "await" /\ UNCHANGED effects
    BY <1>8 DEF RunFile, StartAwaited, EndAwaited, Result, cacheVars
  <2>2. Alone(h) /\ stage'[h] \in {"prove", "await"}
    BY <2>1, GoMoves
  <2> HIDE DEF Quiet
  <2>3. Provable' = Provable /\ ProvedIds' = ProvedIds
    BY <2>1 DEF Provable, ProvedIds
  <2>4. \A e \in effects' : e \in effects \/ (stage[h] = "actuate" /\ e = Effect(h))
    BY <2>1
  <2> QED
    BY <2>1, <2>2, <2>3, <2>4 DEF Plain
<1> HIDE DEF Quiet
<1> QED
  BY <1>1, <1>2, <1>3, <1>4, <1>5, <1>6, <1>7, <1>8 DEF Work

-------------------------------------------------------------------------------
(* The store of proofs *)

\* The store holds every proof that was stored, while there is room for all.
StoreInv == DOMAIN records = ProvedIds \/ Cardinality(ProvedIds) > MaxRecords

LEMMA ProvedFinite == Control => IsFiniteSet(ProvedIds)
<1> SUFFICES ASSUME Control PROVE IsFiniteSet(ProvedIds)
  OBVIOUS
<1>1. lastAction \in Nat /\ ProvedIds \subseteq 1..lastAction
  BY HandlerAssumption DEF Control, Types, ProvedIds
<1>2. IsFiniteSet(1..lastAction)
  BY <1>1, FS_Interval
<1> QED
  BY <1>1, <1>2, FS_Subset

\* A proof more: it is added to the store, or evicts another from a full one.
LEMMA StoreProved ==
    ASSUME Control, TrackInv, StoreInv, NEW h \in Callers, Prove(h)
    PROVE  StoreInv'
<1> DEFINE i == action[h]
<1>1. /\ proofs' = [proofs EXCEPT ![i] = outcome[h]] /\ stage[h] = "prove"
      /\ \E second \in Seconds : Store!Insert(i, second)
  BY DEF Prove, Record
<1>2. i \in 1..lastAction /\ proofs[i] = "none" /\ outcome[h] # "none"
  BY <1>1 DEF TrackInv, ProvedInTime, Unproved, Control, Types, Sync, Acting, ProofVerdicts
<1>3. ProvedIds' = ProvedIds \cup {i} /\ i \notin ProvedIds
  BY <1>1, <1>2 DEF ProvedIds, Control, Types
<1> HIDE DEF i
<1>4. /\ IsFiniteSet(ProvedIds) /\ Cardinality(ProvedIds') = Cardinality(ProvedIds) + 1
      /\ Cardinality(ProvedIds) \in Nat
  BY <1>3, ProvedFinite, FS_AddElement, FS_CardinalityType
<1>5. CASE Cardinality(ProvedIds) >= MaxRecords
  <2>1. Cardinality(ProvedIds') > MaxRecords
    BY <1>4, <1>5, HandlerAssumption
  <2> QED
    BY <2>1 DEF StoreInv
<1>6. CASE ~(Cardinality(ProvedIds) >= MaxRecords)
  <2>1. ~(Cardinality(ProvedIds) > MaxRecords)
    BY <1>4, <1>6, HandlerAssumption
  <2>2. DOMAIN records = ProvedIds
    BY <2>1 DEF StoreInv
  <2>3. ~Store!Full
    BY <1>6, <2>2 DEF Store!Full, Cardinality, Store!Cardinality
  <2>4. DOMAIN records' = DOMAIN records \cup {i}
    BY <1>1, <2>3 DEF Store!Insert
  <2> QED
    BY <1>3, <2>2, <2>4 DEF StoreInv
<1> QED
  BY <1>5, <1>6

LEMMA StorePreserved ==
    ASSUME Control, TrackInv, StoreInv, [Next]_vars
    PROVE  StoreInv'
<1>1. ASSUME UNCHANGED records, ProvedIds' = ProvedIds
      PROVE  StoreInv'
  BY <1>1 DEF StoreInv
<1>2. CASE Tick \/ UNCHANGED vars
  BY <1>1, <1>2 DEF Tick, vars, runVars, ProvedIds
<1>3. ASSUME NEW h \in Callers, Plain(h)
      PROVE  StoreInv'
  BY <1>1, <1>3 DEF Plain
<1>4. ASSUME NEW h \in Callers, Reserve(h)
      PROVE  StoreInv'
  <2>1. UNCHANGED records /\ DrawId(h)
    BY <1>4 DEF Reserve
  <2>2. ProvedIds' = ProvedIds
    BY <2>1, DrawIdProvesNothing
  <2> QED
    BY <1>1, <2>1, <2>2
<1>5. ASSUME NEW h \in Callers, CountDomain(h)
      PROVE  StoreInv'
  BY <1>1, <1>5 DEF CountDomain, ProvedIds
<1> QED
  BY <1>2, <1>3, <1>4, <1>5, PlainSteps, StoreProved DEF Next, Work

\* A stored answer that names an action has its proof, with the same verdict, and the
\* store holds it as long as no more proofs were stored than it keeps.
THEOREM ProvedAnswers == Spec => []AnswersAreProved
<1>1. Init => StoreInv
  BY DEF Init, Store!StoreInit, StoreInv, ProvedIds
<1>2. Control /\ TrackInv /\ StoreInv /\ [Next]_vars => Control' /\ TrackInv' /\ StoreInv'
  BY ControlPreserved, TrackPreserved, StorePreserved
<1>3. Control /\ TrackInv /\ StoreInv => AnswersAreProved
  <2> SUFFICES ASSUME Control, TrackInv, StoreInv, NEW k \in Keys,
                      Cache!Done(k), entries[k].result.id # 0
               PROVE  /\ proofs[entries[k].result.id] = entries[k].result.verdict
                      /\ \/ Store!Holds(entries[k].result.id)
                         \/ Cardinality(ProvedIds) > MaxRecords
    BY DEF AnswersAreProved
  <2>1. /\ entries[k].result \in Answers
        /\ entries[k].result.id \in 1..lastAction
        /\ proofs[entries[k].result.id] = entries[k].result.verdict
    BY DEF TrackInv, AnswerProved
  <2>2. entries[k].result.verdict # "none"
    BY <2>1 DEF Answers, ProofVerdicts
  <2>3. entries[k].result.id \in ProvedIds
    BY <2>1, <2>2 DEF ProvedIds, Control, Types
  <2> QED
    BY <2>1, <2>3 DEF StoreInv, Store!Holds
<1> QED
  BY <1>1, <1>2, <1>3, InitControl, InitTrack, PTL DEF Spec

-------------------------------------------------------------------------------
(* Sums *)

\* What of the agent a is done or about to be.
Claimed(a) ==
    {e \in effects : e.agent = a}
      \cup {Effect(h) : h \in {g \in Callers : stage[g] = "actuate" /\ req[g].agent = a}}

ChargeUnits(S) == Units([x \in S |-> x.magnitude])

PaidInv ==
    \A a \in Agents :
        /\ IsFiniteSet(ChargeUnits(Claimed(a)))
        /\ used[a] \in Nat
        /\ Charge(Claimed(a)) <= used[a]
        /\ used[a] <= MaxCapacity[a]

LEMMA SmallerCharge ==
    ASSUME NEW S, NEW T, S \subseteq T, IsFiniteSet(ChargeUnits(T))
    PROVE  IsFiniteSet(ChargeUnits(S)) /\ Charge(S) <= Charge(T)
<1>1. ChargeUnits(S) \subseteq ChargeUnits(T)
  BY DEF ChargeUnits, Units
<1> QED
  BY <1>1, FS_Subset DEF Charge, Total, ChargeUnits

LEMMA ChargeOneMore ==
    ASSUME NEW S, NEW x, x.magnitude \in Nat, IsFiniteSet(ChargeUnits(S))
    PROVE  /\ IsFiniteSet(ChargeUnits(S \cup {x}))
           /\ Charge(S \cup {x}) <= Charge(S) + x.magnitude
<1> DEFINE new == {x} \X (1..x.magnitude)
           all == ChargeUnits(S) \cup new
<1>1. IsFiniteSet(new) /\ Cardinality(new) = x.magnitude
  <2>1. IsFiniteSet({x}) /\ Cardinality({x}) = 1
    BY FS_Singleton
  <2>2. IsFiniteSet(1..x.magnitude) /\ Cardinality(1..x.magnitude) = x.magnitude
    <3> DEFINE n == x.magnitude
    <3>1. n \in Nat
      OBVIOUS
    <3> HIDE DEF n
    <3>2. IsFiniteSet(1..n) /\ Cardinality(1..n) = IF 1 > n THEN 0 ELSE n - 1 + 1
      BY <3>1, FS_Interval
    <3>3. Cardinality(1..n) = n
      BY <3>1, <3>2
    <3> QED
      BY <3>2, <3>3 DEF n
  <2>3. IsFiniteSet(new) /\ Cardinality(new) = Cardinality({x}) * Cardinality(1..x.magnitude)
    BY <2>1, <2>2, FS_Product
  <2> QED
    BY <2>1, <2>2, <2>3
<1>2. ChargeUnits(S \cup {x}) \subseteq all
  BY DEF ChargeUnits, Units
<1>3. /\ IsFiniteSet(all) /\ Cardinality(all) \in Nat
      /\ Cardinality(all) = Cardinality(ChargeUnits(S)) + Cardinality(new)
                              - Cardinality(ChargeUnits(S) \cap new)
      /\ Cardinality(ChargeUnits(S) \cap new) \in Nat /\ Cardinality(ChargeUnits(S)) \in Nat
  BY <1>1, FS_Union, FS_Intersection, FS_CardinalityType
<1>4. IsFiniteSet(ChargeUnits(S \cup {x})) /\ Cardinality(ChargeUnits(S \cup {x})) <= Cardinality(all)
  BY <1>2, <1>3, FS_Subset
<1>5. Cardinality(ChargeUnits(S \cup {x})) \in Nat
  BY <1>4, FS_CardinalityType
<1> QED
  BY <1>1, <1>3, <1>4, <1>5 DEF Charge, Total, ChargeUnits

LEMMA ChargeType ==
    ASSUME NEW S, IsFiniteSet(ChargeUnits(S))
    PROVE  Charge(S) \in Nat
  BY FS_CardinalityType DEF Charge, Total, ChargeUnits

\* No claim is added.
LEMMA PaidUndisturbed ==
    ASSUME PaidInv, UNCHANGED used, \A a \in Agents : Claimed(a)' \subseteq Claimed(a)
    PROVE  PaidInv'
<1> SUFFICES ASSUME NEW a \in Agents
             PROVE  /\ IsFiniteSet(ChargeUnits(Claimed(a)')) /\ Charge(Claimed(a)') <= used[a]
  BY DEF PaidInv, ChargeUnits, Charge, Total
<1>1. IsFiniteSet(ChargeUnits(Claimed(a))) /\ Charge(Claimed(a)) <= used[a] /\ used[a] \in Nat
  BY DEF PaidInv
<1>2. IsFiniteSet(ChargeUnits(Claimed(a)')) /\ Charge(Claimed(a)') <= Charge(Claimed(a))
  BY <1>1, SmallerCharge
<1> QED
  BY <1>1, <1>2, ChargeType

LEMMA PaidReserved ==
    ASSUME Control, PaidInv, NEW h \in Callers, Reserve(h), used \in [Agents -> Nat]
    PROVE  PaidInv' /\ used' \in [Agents -> Nat]
<1> DEFINE r == req[h]
           new == Effect(h)'
<1>1. /\ r \in Requests /\ r.agent \in Agents /\ r.magnitude \in Nat
      /\ UNCHANGED <<since, req, effects>> /\ \A g \in Callers \ {h} : action'[g] = action[g]
  BY HandlerAssumption, ConstantsAssumption
  DEF Reserve, Owns, DrawId, cacheVars, Request, Control, Types, Sync
<1>2. CASE ~HasRoom(r)
  <2>1. UNCHANGED used /\ stage' = [stage EXCEPT ![h] = "prove"]
    BY <1>2 DEF Reserve, Result, Go
  <2>2. \A a \in Agents : Claimed(a)' \subseteq Claimed(a)
    BY <1>1, <2>1 DEF Claimed, Effect, Control, Types
  <2> QED
    BY <2>1, <2>2, PaidUndisturbed
<1>3. CASE HasRoom(r)
  <2>1. /\ used' = [used EXCEPT ![r.agent] = @ + r.magnitude]
        /\ stage' = [stage EXCEPT ![h] = "actuate"]
    BY <1>3 DEF Reserve, Go
  <2>2. new.magnitude = r.magnitude
    BY <1>1 DEF Effect
  <2>3. /\ \A a \in Agents : a # r.agent => Claimed(a)' \subseteq Claimed(a)
        /\ \A a \in Agents : a = r.agent => Claimed(a)' \subseteq Claimed(a) \cup {new}
    <3>1. \A g \in Callers \ {h} : stage'[g] = stage[g] /\ Effect(g)' = Effect(g)
      BY <1>1, <2>1 DEF Effect, Control, Types
    <3>2. req' = req /\ effects' = effects /\ req[h].agent = r.agent
      BY <1>1
    <3> HIDE DEF r
    <3> QED
      BY <3>1, <3>2 DEF Claimed
  <2> HIDE DEF r, new
  <2>4. ASSUME NEW a \in Agents
        PROVE  /\ IsFiniteSet(ChargeUnits(Claimed(a)')) /\ Charge(Claimed(a)') <= used'[a]
               /\ used'[a] \in Nat /\ used'[a] <= MaxCapacity[a]
    <3>1. /\ IsFiniteSet(ChargeUnits(Claimed(a))) /\ Charge(Claimed(a)) <= used[a]
          /\ used[a] \in Nat /\ used[a] <= MaxCapacity[a] /\ Charge(Claimed(a)) \in Nat
      BY ChargeType DEF PaidInv
    <3>2. CASE a # r.agent
      <4>1. IsFiniteSet(ChargeUnits(Claimed(a)')) /\ Charge(Claimed(a)') <= Charge(Claimed(a))
        BY <2>3, <3>1, <3>2, SmallerCharge
      <4>2. used'[a] = used[a] /\ Charge(Claimed(a)') \in Nat
        BY <2>1, <3>2, <4>1, ChargeType
      <4> QED
        BY <3>1, <4>1, <4>2
    <3>3. CASE a = r.agent
      <4>1. /\ IsFiniteSet(ChargeUnits(Claimed(a) \cup {new}))
            /\ Charge(Claimed(a) \cup {new}) <= Charge(Claimed(a)) + r.magnitude
        BY <1>1, <2>2, <3>1, ChargeOneMore
      <4>2. /\ IsFiniteSet(ChargeUnits(Claimed(a)'))
            /\ Charge(Claimed(a)') <= Charge(Claimed(a) \cup {new})
        BY <2>3, <3>3, <4>1, SmallerCharge
      <4>3. used'[a] = used[a] + r.magnitude /\ used[a] + r.magnitude <= MaxCapacity[a]
        BY <1>1, <1>3, <2>1, <3>3 DEF HasRoom
      <4>4. Charge(Claimed(a)') \in Nat /\ Charge(Claimed(a) \cup {new}) \in Nat
        BY <4>1, <4>2, ChargeType
      <4> QED
        BY <1>1, <3>1, <4>1, <4>2, <4>3, <4>4
    <3> QED
      BY <3>2, <3>3
  <2>5. PaidInv'
    BY <2>4, Zenon DEF PaidInv, ChargeUnits, Charge, Total
  <2>6. used' \in [Agents -> Nat]
    BY <1>1, <2>1
  <2> QED
    BY <2>5, <2>6
<1> QED
  BY <1>2, <1>3

LEMMA PaidPreserved ==
    ASSUME Control, PaidInv, used \in [Agents -> Nat], [Next]_vars
    PROVE  PaidInv' /\ used' \in [Agents -> Nat]
<1>1. CASE Tick \/ UNCHANGED vars
  <2>1. UNCHANGED <<used, effects, stage, req, action, since>>
    BY <1>1 DEF Tick, Cache!Tick, vars, cacheVars, runVars
  <2> QED
    BY <2>1, PaidUndisturbed DEF Claimed, Effect
<1>2. ASSUME NEW h \in Callers, Plain(h), Alone(h)
      PROVE  PaidInv' /\ used' \in [Agents -> Nat]
  <2>1. \A a \in Agents : Claimed(a)' \subseteq Claimed(a)
    BY <1>2 DEF Plain, Alone, Claimed, Effect
  <2> QED
    BY <1>2, <2>1, PaidUndisturbed DEF Plain
<1>3. ASSUME NEW h \in Callers, Prove(h) \/ CountDomain(h)
      PROVE  PaidInv' /\ used' \in [Agents -> Nat]
  <2>1. /\ UNCHANGED <<used, effects, req, action, since>>
        /\ \A g \in Callers : stage'[g] = "actuate" => stage[g] = "actuate"
    BY <1>3 DEF Prove, CountDomain, cacheVars, Go, Control, Types
  <2> QED
    BY <2>1, PaidUndisturbed DEF Claimed, Effect
<1> QED
  BY <1>1, <1>2, <1>3, PlainSteps, PaidReserved DEF Next, Work

\* Whatever fails, is dropped or runs beside it, no action is done that was not charged
\* first, and no agent is charged more than its budget.
THEOREM Paid == Spec => []EffectsArePaid
<1>1. Init => PaidInv /\ used \in [Agents -> Nat]
  <2> SUFFICES ASSUME Init PROVE PaidInv /\ used \in [Agents -> Nat]
    OBVIOUS
  <2>1. \A a \in Agents : Claimed(a) = {}
    BY DEF Init, Claimed
  <2>2. ChargeUnits({}) = {}
    BY DEF ChargeUnits, Units
  <2>3. IsFiniteSet(ChargeUnits({})) /\ Charge({}) = 0
    BY <2>2, FS_EmptySet DEF Charge, Total, ChargeUnits
  <2>4. used \in [Agents -> Nat] /\ \A a \in Agents : used[a] = 0 /\ MaxCapacity[a] \in Nat
    BY ConstantsAssumption DEF Init
  <2>5. ASSUME NEW a \in Agents
        PROVE  /\ IsFiniteSet(ChargeUnits(Claimed(a))) /\ Charge(Claimed(a)) = 0
               /\ used[a] = 0 /\ MaxCapacity[a] \in Nat
    <3>1. Claimed(a) = {}
      BY <2>1
    <3> QED
      BY <2>3, <2>4, <3>1
  <2> QED
    BY <2>4, <2>5 DEF PaidInv
<1>2. /\ Control /\ PaidInv /\ used \in [Agents -> Nat] /\ [Next]_vars
      => Control' /\ PaidInv' /\ (used \in [Agents -> Nat])'
  BY PaidPreserved, ControlPreserved
<1>3. PaidInv => EffectsArePaid
  BY DEF PaidInv, EffectsArePaid, Claimed
<1> QED
  BY <1>1, <1>2, <1>3, InitControl, PTL DEF Spec

-------------------------------------------------------------------------------
\* Adding one at a point adds one to a sum.
LEMMA Bump ==
    ASSUME NEW S, NEW f \in [S -> Nat], NEW x \in S, IsFiniteSet(Units(f)),
           NEW g, g = [f EXCEPT ![x] = @ + 1]
    PROVE  IsFiniteSet(Units(g)) /\ Total(g) = Total(f) + 1
<1> DEFINE unit == <<x, f[x] + 1>>
<1>1. /\ DOMAIN f = S /\ DOMAIN g = S /\ f[x] \in Nat /\ g[x] = f[x] + 1
      /\ \A y \in S : y # x => g[y] = f[y]
  OBVIOUS
<1>2. /\ \A y, n : <<y, n>> \in Units(f) <=> y \in S /\ n \in 1..f[y]
      /\ \A y, n : <<y, n>> \in Units(g) <=> y \in S /\ n \in 1..g[y]
  BY <1>1 DEF Units
<1>3. \A u \in Units(f) \cup Units(g) : \E y, n : u = <<y, n>>
  BY DEF Units
<1>4. 1..(f[x] + 1) = (1..f[x]) \cup {f[x] + 1} /\ f[x] + 1 \notin 1..f[x]
  BY <1>1
<1>5. Units(g) = Units(f) \cup {unit} /\ unit \notin Units(f)
  <2>1. ASSUME NEW y, NEW n
        PROVE  <<y, n>> \in Units(g) <=> (<<y, n>> \in Units(f) \/ <<y, n>> = unit)
    <3>1. CASE y = x
      BY <3>1, <1>1, <1>2, <1>4
    <3>2. CASE y # x
      BY <3>2, <1>1, <1>2
    <3> QED
      BY <3>1, <3>2
  <2>2. unit \notin Units(f)
    BY <1>2, <1>4
  <2>3. ASSUME NEW u \in Units(g) PROVE u \in Units(f) \/ u = unit
    <3>1. PICK y, n : u = <<y, n>>
      BY <1>3
    <3> QED
      BY <2>1, <3>1
  <2>4. ASSUME NEW u \in Units(f) PROVE u \in Units(g)
    <3>1. PICK y, n : u = <<y, n>>
      BY <1>3
    <3> QED
      BY <2>1, <3>1
  <2>5. unit \in Units(g)
    BY <2>1
  <2> HIDE DEF unit
  <2> QED
    BY <2>2, <2>3, <2>4, <2>5
<1> HIDE DEF unit
<1>6. /\ IsFiniteSet(Units(f) \cup {unit})
      /\ Cardinality(Units(f) \cup {unit}) = Cardinality(Units(f)) + 1
  BY <1>5, FS_AddElement
<1> QED
  BY <1>5, <1>6 DEF Total

\* Of a handler between the two updates, the proof is told and the counter is not yet.
CountInv ==
    /\ counters \in [Domains -> Nat]
    /\ IsFiniteSet(Units(counters)) /\ IsFiniteSet(Counting)
    /\ Total(counters) + Cardinality(Counting) = Cardinality(Provable)

LEMMA ProvableFinite == Control => IsFiniteSet(Provable)
<1> SUFFICES ASSUME Control PROVE IsFiniteSet(Provable)
  OBVIOUS
<1>1. lastAction \in Nat /\ Provable \subseteq 1..lastAction
  BY HandlerAssumption DEF Control, Types, Provable
<1>2. IsFiniteSet(1..lastAction)
  BY <1>1, FS_Interval
<1> QED
  BY <1>1, <1>2, FS_Subset

LEMMA CountUndisturbed ==
    ASSUME CountInv, UNCHANGED counters, Counting' = Counting, Provable' = Provable
    PROVE  CountInv'
  BY DEF CountInv, Total, Units

LEMMA CountProved ==
    ASSUME Control, TrackInv, CountInv, NEW h \in Callers, Prove(h)
    PROVE  CountInv'
<1> DEFINE i == action[h]
<1>1. /\ UNCHANGED counters /\ stage[h] = "prove"
      /\ proofs' = [proofs EXCEPT ![i] = outcome[h]]
      /\ stage' = [stage EXCEPT ![h] = IF outcome[h] = "Authorized" THEN "count" ELSE "finish"]
  BY DEF Prove, Record, Go
<1>2. i \in 1..lastAction /\ proofs[i] = "none"
  BY <1>1 DEF TrackInv, ProvedInTime, Unproved, Control, Sync, Acting
<1>3. /\ DOMAIN proofs' = 1..lastAction /\ DOMAIN proofs = 1..lastAction
      /\ proofs'[i] = outcome[h]
      /\ \A j \in 1..lastAction : j # i => proofs'[j] = proofs[j]
  BY <1>1, <1>2 DEF Control, Types
<1>4. /\ stage'[h] = IF outcome[h] = "Authorized" THEN "count" ELSE "finish"
      /\ \A g \in Callers : g # h => stage'[g] = stage[g]
  BY <1>1 DEF Control, Types
<1> HIDE DEF i
<1>5. CASE outcome[h] # "Authorized"
  <2>1. Provable' = Provable
    BY <1>2, <1>3, <1>5 DEF Provable
  <2>2. Counting' = Counting
    BY <1>1, <1>4, <1>5 DEF Counting
  <2> QED
    BY <1>1, <2>1, <2>2, CountUndisturbed
<1>6. CASE outcome[h] = "Authorized"
  <2>1. Provable' = Provable \cup {i} /\ i \notin Provable
    BY <1>2, <1>3, <1>6 DEF Provable
  <2>2. Counting' = Counting \cup {h} /\ h \notin Counting
    BY <1>1, <1>4, <1>6 DEF Counting
  <2>3. IsFiniteSet(Provable) /\ Cardinality(Provable') = Cardinality(Provable) + 1
    BY <2>1, ProvableFinite, FS_AddElement
  <2>4. IsFiniteSet(Counting') /\ Cardinality(Counting') = Cardinality(Counting) + 1
    BY <2>2, FS_AddElement DEF CountInv
  <2>5. Cardinality(Counting) \in Nat /\ Cardinality(Provable) \in Nat /\ Total(counters) \in Nat
    BY <2>3, FS_CardinalityType DEF CountInv, Total
  <2>6. /\ counters \in [Domains -> Nat] /\ IsFiniteSet(Units(counters))
        /\ Total(counters) + Cardinality(Counting) = Cardinality(Provable)
    BY DEF CountInv
  <2>7. Total(counters) + Cardinality(Counting') = Cardinality(Provable')
    BY <2>3, <2>4, <2>5, <2>6
  <2> QED
    BY <1>1, <2>4, <2>6, <2>7 DEF CountInv, Total, Units
<1> QED
  BY <1>5, <1>6

LEMMA CountCounted ==
    ASSUME Control, CountInv, NEW h \in Callers, CountDomain(h)
    PROVE  CountInv'
<1>1. /\ UNCHANGED proofs /\ stage[h] = "count"
      /\ counters' = [counters EXCEPT ![req[h].domain] = @ + 1]
      /\ stage' = [stage EXCEPT ![h] = "finish"]
  BY DEF CountDomain, Go
<1>2. req[h].domain \in Domains
  BY <1>1, HandlerAssumption DEF Control, Sync, Request
<1>3. /\ counters \in [Domains -> Nat] /\ IsFiniteSet(Units(counters)) /\ IsFiniteSet(Counting)
      /\ Total(counters) + Cardinality(Counting) = Cardinality(Provable)
  BY DEF CountInv
<1>4. counters' \in [Domains -> Nat]
  BY <1>1, <1>2, <1>3
<1>5. IsFiniteSet(Units(counters')) /\ Total(counters') = Total(counters) + 1
  BY <1>1, <1>2, <1>3, Bump
<1>6. Counting' = Counting \ {h} /\ h \in Counting
  BY <1>1 DEF Counting, Control, Types
<1>7. IsFiniteSet(Counting') /\ Cardinality(Counting') = Cardinality(Counting) - 1
  BY <1>3, <1>6, FS_RemoveElement
<1>8. Provable' = Provable
  BY <1>1 DEF Provable
<1>9. Cardinality(Counting) \in Nat /\ Total(counters) \in Nat
  BY <1>3, FS_CardinalityType DEF Total
<1>10. Total(counters') + Cardinality(Counting') = Cardinality(Provable')
  BY <1>3, <1>5, <1>7, <1>8, <1>9
<1> QED
  BY <1>4, <1>5, <1>7, <1>10 DEF CountInv, Total, Units

LEMMA CountPreserved ==
    ASSUME Control, TrackInv, CountInv, [Next]_vars
    PROVE  CountInv'
<1>1. CASE Tick \/ UNCHANGED vars
  <2>1. UNCHANGED <<counters, stage, proofs>>
    BY <1>1 DEF Tick, vars, runVars
  <2>2. Counting' = Counting /\ Provable' = Provable
    BY <2>1 DEF Counting, Provable
  <2> QED
    BY <2>1, <2>2, CountUndisturbed
<1>2. ASSUME NEW h \in Callers, Plain(h), Alone(h)
      PROVE  CountInv'
  <2>1. Counting' = Counting
    BY <1>2 DEF Plain, Alone, Counting
  <2> QED
    BY <1>2, <2>1, CountUndisturbed DEF Plain
<1>3. ASSUME NEW h \in Callers, Reserve(h)
      PROVE  CountInv'
  <2>1. /\ UNCHANGED counters /\ DrawId(h) /\ stage[h] = "cache"
        /\ \E s \in {"actuate", "prove"} : stage' = [stage EXCEPT ![h] = s]
    BY <1>3 DEF Reserve, Owns, Result, Go
  <2>2. Counting' = Counting
    BY <2>1 DEF Counting, Control, Types
  <2>3. Provable' = Provable
    BY <2>1, DrawIdProvesNothing
  <2> QED
    BY <2>1, <2>2, <2>3, CountUndisturbed
<1> QED
  BY <1>1, <1>2, <1>3, PlainSteps, CountProved, CountCounted DEF Next, Work

\* No authorized action escapes the domain counters, and nothing else gets into them.
THEOREM Counted == Spec => []CountersMatchProofs
<1>1. Init => CountInv
  <2> SUFFICES ASSUME Init PROVE CountInv
    OBVIOUS
  <2>1. Counting = {} /\ Provable = {}
    BY DEF Init, Counting, Provable
  <2>2. Units(counters) = {} /\ counters \in [Domains -> Nat]
    BY DEF Init, Units
  <2>3. IsFiniteSet({}) /\ Cardinality({}) = 0
    BY FS_EmptySet
  <2> QED
    BY <2>1, <2>2, <2>3 DEF CountInv, Total
<1>2. Control /\ TrackInv /\ CountInv /\ [Next]_vars => Control' /\ TrackInv' /\ CountInv'
  BY ControlPreserved, TrackPreserved, CountPreserved
<1>3. CountInv => CountersMatchProofs
  BY DEF CountInv, CountersMatchProofs, Counting, Provable
<1> QED
  BY <1>1, <1>2, <1>3, InitControl, InitTrack, PTL DEF Spec
================================================================================
