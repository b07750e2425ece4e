------------------------------ MODULE ReplayCache ------------------------------
(***************************************************************************)
(* The cache of signed requests of safa-daemon/src/server.rs               *)
(* (ReplayCacheState, check_signed_replay).  It knows a request by the     *)
(* text "agent_id.timestamp.signature_hex" of its headers, as sent.  The   *)
(* cache is under one mutex, so a call is one step.                        *)
(***************************************************************************)
EXTENDS Clock, FiniteSets

CONSTANTS
    Headers,        \* the texts that signed requests carry
    Keys,           \* idempotency keys
    Tolerance,      \* TIMESTAMP_TOLERANCE_SECS, which is the ttl of the cache
    MaxHeaders      \* REPLAY_CACHE_MAX_ENTRIES

ASSUME ReplayAssumption ==
    /\ IsFiniteSet(Headers)
    /\ Tolerance \in Nat \ {0}
    /\ MaxHeaders \in Nat \ {0}

\* The clock is Instant::now, in seconds.
VARIABLE seen    \* the entries, a function from the headers it remembers

Seen == [key : Keys, at : Nat]

ReplayInit == seen = [h \in {} |-> {}]

\* Mutant: the cache forgets a second too soon.
KeptBriefly == {h \in DOMAIN seen : now - seen[h].at < Tolerance - 1}

\* purge_expired
Kept == {h \in DOMAIN seen : now - seen[h].at < Tolerance}

Purged == [h \in Kept |-> seen[h]]

\* Mutant: the newest entry goes.
SurvivorsOldest ==
    IF Cardinality(Kept) >= MaxHeaders
    THEN {Kept \ {new} : new \in {h \in Kept : \A g \in Kept : seen[h].at >= seen[g].at}}
    ELSE {Kept}

\* The entries an insertion may keep: all of them, or at the limit all but one
\* with the smallest seen_at.
Survivors ==
    IF Cardinality(Kept) >= MaxHeaders
    THEN {Kept \ {old} : old \in {h \in Kept : \A g \in Kept : seen[h].at <= seen[g].at}}
    ELSE {Kept}

\* ReplayCheck::New: remember h under k.
Remember(h, k) ==
    /\ h \notin Kept
    /\ \E S \in Survivors :
          seen' = [g \in S \cup {h} |-> IF g = h THEN [key |-> k, at |-> now] ELSE seen[g]]

\* ReplayCheck::SameIdempotencyKey: a retry; seen_at is not refreshed.
Recognise(h, k) ==
    /\ h \in Kept
    /\ seen[h].key = k
    /\ seen' = Purged

\* Mutant: whatever was seen before is a replay.
ContradictAny(h, k) ==
    /\ h \in Kept
    /\ seen' = Purged

\* ReplayCheck::DifferentIdempotencyKey
Contradict(h, k) ==
    /\ h \in Kept
    /\ seen[h].key # k
    /\ seen' = Purged

\* check_signed_replay returns Ok, or the 403 of a replay.
Accept(h, k) == Remember(h, k) \/ Recognise(h, k)

RefuseReplay(h, k) == Contradict(h, k)
================================================================================
