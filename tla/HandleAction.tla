----------------------------- MODULE HandleAction -----------------------------
(***************************************************************************)
(* POST /ama/action: handle_action of safa-daemon/src/server.rs with the   *)
(* pipeline it calls (process_action and actuate of                        *)
(* safa-core/src/pipeline.rs), run by concurrent handlers over the state   *)
(* they share.  It composes IdempotencyCache, RateLimiter, ReplayCache and *)
(* ProofStore, whose steps are steps of a handler here, and the capacity   *)
(* budget, which SlimeAuthorizer shows may be taken to be indivisible.     *)
(*                                                                         *)
(* A handler runs without suspending except while it awaits a subprocess   *)
(* or an HTTP exchange: only there can the 30 s TimeoutLayer, or a client  *)
(* that disconnects, drop it.                                              *)
(***************************************************************************)
EXTENDS Authorizer, Totals

CONSTANTS
    Requests,       \* well-formed requests that clients send, any number of times
    Keys,           \* idempotency keys
    Headers,        \* the identity headers of signed requests, see ReplayCache
    Unsigned,       \* those of a request to an agent without a secret
    NoRequest,      \* what an idle handler holds
    NoResult,       \* see IdempotencyCache
    MaxActions,     \* bound on the actions started (model checking only)
    MaxTime,        \* bound on the clock (model checking only)
    NumShards, ShardOf, MaxEntries, TTL,              \* see IdempotencyCache
    MaxPerWindow, WindowSecs, TicksPerSec,            \* see RateLimiter
    Tolerance, MaxHeaders,                            \* see ReplayCache
    Seconds,        \* what the wall clock may show, at any time (it can be set)
    MaxRecords      \* see ProofStore

(***************************************************************************)
(* What the body of a request turns out to be: not JSON, a request that    *)
(* the validation steps of process_action refuse, a dry run, an action     *)
(* that runs synchronously (file_write, file_read), or one that is awaited *)
(* (shell_exec, http_request).                                             *)
(***************************************************************************)
Bodies == {"malformed", "invalid", "dry_run", "file", "awaited"}

Request == [agent : Agents, key : Keys, headers : Headers \cup {Unsigned},
            body : Bodies, domain : Domains, magnitude : Magnitudes]

\* Two proof verdicts of a run, and those of the errors that end it.
ProofVerdicts == {"Authorized", "Impossible", "ValidationError", "ServiceUnavailable"}

\* Responses that are cached; a body that is not JSON is answered without an id.
Answers == [id : 1..MaxActions, verdict : ProofVerdicts] \cup [id : {0}, verdict : {"BadRequest"}]

ASSUME HandlerAssumption ==
    /\ Requests \subseteq Request
    /\ NoRequest \notin Requests
    /\ Unsigned \notin Headers
    /\ TTL \in Nat \ {0}
    /\ MaxActions \in Nat
    /\ MaxRecords \in Nat \ {0}
    /\ Seconds \subseteq Nat

VARIABLES
    now,                                                      \* the clock
    entries, pc, key, asOf, shard, count, since, robbed,      \* IdempotencyCache
    window,                                                   \* RateLimiter
    seen,                                                     \* ReplayCache
    used,        \* used[a]: capacity charged to agent a
    stage,       \* stage[h]: what handler h does next
    req,         \* req[h]: its request
    action,      \* action[h]: its action_id, 0 before it has one
    outcome,     \* outcome[h]: the result of its action, as a proof verdict
    lastAction,  \* the ids drawn so far (each Uuid::new_v4 is new)
    records,     \* proof_store, see ProofStore
    proofs,      \* history: proofs[i], the verdict that was stored of action i
    counters,    \* domain_counters[d]
    effects,     \* history: the actions that reached the outside world
    removed,     \* history: the keys that remove() deleted from the map, and when
    dropped      \* history: the actions whose handler was dropped

cacheVars == <<entries, pc, key, asOf, shard, count, since, robbed>>
gateVars == <<window, seen>>
runVars == <<used, action, outcome, lastAction, records, proofs, counters, effects>>
history == <<removed, dropped>>
vars == <<now, cacheVars, gateVars, stage, req, runVars, history>>

Cache == INSTANCE IdempotencyCache WITH Threads <- Callers, Results <- Answers
Rate == INSTANCE RateLimiter
Replay == INSTANCE ReplayCache
Store == INSTANCE ProofStore

Stages == {"idle", "replay", "rate", "check", "cache", "actuate", "await", "prove", "count", "finish"}

TypeOK ==
    /\ Cache!TypeOK
    /\ window \in [Agents -> Rate!Window]
    /\ DOMAIN seen \subseteq Headers
    /\ used \in [Agents -> Nat]
    /\ stage \in [Callers -> Stages]
    /\ req \in [Callers -> Requests \cup {NoRequest}]
    /\ action \in [Callers -> 0..MaxActions]
    /\ outcome \in [Callers -> ProofVerdicts]
    /\ lastAction \in 0..MaxActions
    /\ DOMAIN records \subseteq 1..lastAction
    /\ proofs \in [1..lastAction -> ProofVerdicts \cup {"none"}]
    /\ counters \in [Domains -> Nat]
    /\ effects \subseteq [id : 1..lastAction, key : Keys, agent : Agents,
                          magnitude : Magnitudes, reserved : 0..MaxTime]
    /\ removed \subseteq [key : Keys, at : 0..MaxTime]
    /\ dropped \subseteq [id : 1..lastAction, key : Keys]

Init ==
    /\ Cache!Init
    /\ Rate!RateInit
    /\ Replay!ReplayInit
    /\ Store!StoreInit
    /\ used = [a \in Agents |-> 0]
    /\ stage = [h \in Callers |-> "idle"]
    /\ req = [h \in Callers |-> NoRequest]
    /\ action = [h \in Callers |-> 0]
    /\ outcome = [h \in Callers |-> "ServiceUnavailable"]
    /\ lastAction = 0
    /\ proofs = [i \in {} |-> "none"]
    /\ counters = [d \in Domains |-> 0]
    /\ effects = {}
    /\ removed = {}
    /\ dropped = {}

-------------------------------------------------------------------------------
(* Admission: steps 0 to 3 of handle_action *)

Go(h, s) == stage' = [stage EXCEPT ![h] = s]

\* The handler returns its response, or is dropped, and its locals are gone.
End(h) ==
    /\ Go(h, "idle")
    /\ req' = [req EXCEPT ![h] = NoRequest]
    /\ action' = [action EXCEPT ![h] = 0]
    /\ outcome' = [outcome EXCEPT ![h] = "ServiceUnavailable"]

\* A request reaches a free handler; its agent is known, its headers parse and
\* verify_identity is satisfied, at whatever second the wall clock showed (a request
\* that fails those tests is answered and touches no state).
Arrive(h, r) ==
    /\ stage[h] = "idle"
    /\ req' = [req EXCEPT ![h] = r]
    /\ Go(h, IF r.headers = Unsigned THEN "rate" ELSE "replay")
    /\ UNCHANGED <<now, cacheVars, gateVars, runVars, history>>

\* check_signed_replay: go on, or 403.
CheckReplay(h) ==
    /\ stage[h] = "replay"
    /\ LET e == req[h].headers
           k == req[h].key
       IN  \/ Replay!Accept(e, k) /\ Go(h, "rate") /\ UNCHANGED <<req, action, outcome>>
           \/ Replay!RefuseReplay(e, k) /\ End(h)
    /\ UNCHANGED <<now, cacheVars, window, used, lastAction, records, proofs, counters, effects,
                   history>>

\* check_rate_limit: go on, or 429.
CheckRate(h) ==
    /\ stage[h] = "rate"
    /\ \/ Rate!Admit(req[h].agent) /\ Go(h, "check") /\ UNCHANGED <<req, action, outcome>>
       \/ Rate!Refuse(req[h].agent) /\ End(h)
    /\ UNCHANGED <<now, cacheVars, seen, used, lastAction, records, proofs, counters, effects,
                   history>>

-------------------------------------------------------------------------------
(* The idempotency check: step 4 *)

BeginCheck(h) ==
    /\ stage[h] = "check"
    /\ Cache!Begin(h, req[h].key)
    /\ Go(h, "cache")
    /\ UNCHANGED <<gateVars, req, runVars, history>>

\* check_or_insert goes on, one critical section at a time.
Check(h) ==
    /\ stage[h] = "cache"
    /\ Cache!PurgeShard(h) \/ Cache!LenShard(h) \/ Cache!CheckEntry(h)
    /\ UNCHANGED <<gateVars, stage, req, runVars, history>>

\* Mutant: a request whose key is in flight waits for the other to end.
ReplayedWhenDone(h) ==
    /\ stage[h] = "cache"
    /\ entries[key[h]].present => ~entries[key[h]].inFlight
    /\ Cache!Leave(h)
    /\ End(h)
    /\ UNCHANGED <<gateVars, used, lastAction, records, proofs, counters, effects, history>>

\* Cached or InFlight: the stored body or 409.
Replayed(h) ==
    /\ stage[h] = "cache"
    /\ Cache!Leave(h)
    /\ End(h)
    /\ UNCHANGED <<gateVars, used, lastAction, records, proofs, counters, effects, history>>

\* Full: remove the key and answer 503.
TurnedAway(h) ==
    /\ stage[h] = "cache"
    /\ Cache!RemoveAfterFull(h)
    /\ removed' = IF Cache!Present(key[h])
                   THEN removed \cup {[key |-> key[h], at |-> now]} ELSE removed
    /\ End(h)
    /\ UNCHANGED <<gateVars, used, lastAction, records, proofs, counters, effects, dropped>>

-------------------------------------------------------------------------------
(* The action: steps 5 to 7 *)

\* Mutant: the InFlight arm goes on like the New arm.
OwnsInFlight(h) == stage[h] = "cache" /\ pc[h] \in {"owner", "conflict"}

Owns(h) == stage[h] = "cache" /\ pc[h] = "owner"

\* The body is not JSON: the error is committed, no action_id is drawn.
RejectMalformed(h) ==
    /\ Owns(h)
    /\ req[h].body = "malformed"
    /\ Cache!Complete(h, [id |-> 0, verdict |-> "BadRequest"])
    /\ End(h)
    /\ UNCHANGED <<gateVars, used, lastAction, records, proofs, counters, effects, history>>

\* Draw an action_id and enter process_action.
DrawId(h) ==
    /\ lastAction < MaxActions
    /\ lastAction' = lastAction + 1
    /\ action' = [action EXCEPT ![h] = lastAction + 1]
    /\ proofs' = [i \in 1..(lastAction + 1) |-> IF i <= lastAction THEN proofs[i] ELSE "none"]

\* Mutant: the response is committed without a proof.
ResultWithoutProof(h, v) ==
    /\ outcome' = [outcome EXCEPT ![h] = v]
    /\ Go(h, "finish")

\* process_action returns v: a proof is due next.
Result(h, v) ==
    /\ outcome' = [outcome EXCEPT ![h] = v]
    /\ Go(h, "prove")

\* The checks of fields and typed values that refuse a body read nothing but the
\* request and the configuration: they are a property of the body.
Refused(r) == r.body = "invalid"

\* Adapter, magnitude, fields, canonical form or mapping are refused.
RejectInvalid(h) ==
    /\ Owns(h)
    /\ Refused(req[h])
    /\ DrawId(h)
    /\ Result(h, "ValidationError")
    /\ UNCHANGED <<now, cacheVars, gateVars, req, used, records, counters, effects, history>>

HasRoom(r) ==
    /\ PolicyAdmits(r.agent, r.domain, r.magnitude)
    /\ used[r.agent] + r.magnitude <= MaxCapacity[r.agent]

\* check_only: a verdict and nothing else.
DryRun(h) ==
    /\ Owns(h)
    /\ req[h].body = "dry_run"
    /\ DrawId(h)
    /\ Result(h, IF HasRoom(req[h]) THEN "Authorized" ELSE "Impossible")
    /\ UNCHANGED <<now, cacheVars, gateVars, req, used, records, counters, effects, history>>

\* Mutant: the budget is tested and not charged.
ReserveNothing(h) ==
    /\ Owns(h)
    /\ req[h].body \in {"file", "awaited"}
    /\ DrawId(h)
    /\ \/ HasRoom(req[h]) /\ Go(h, "actuate") /\ UNCHANGED outcome
       \/ ~HasRoom(req[h]) /\ Result(h, "Impossible")
    /\ UNCHANGED <<now, cacheVars, gateVars, req, used, records, counters, effects, history>>

\* try_reserve: the budget is charged before anything is done.
Reserve(h) ==
    /\ Owns(h)
    /\ req[h].body \in {"file", "awaited"}
    /\ DrawId(h)
    /\ \/ /\ HasRoom(req[h])
          /\ used' = [used EXCEPT ![req[h].agent] = @ + req[h].magnitude]
          /\ Go(h, "actuate")
          /\ UNCHANGED outcome
       \/ /\ ~HasRoom(req[h])
          /\ Result(h, "Impossible")
          /\ UNCHANGED used
    /\ UNCHANGED <<now, cacheVars, gateVars, req, records, counters, effects, history>>

\* The action reaches the outside world on behalf of h.
Effect(h) == [id |-> action[h], key |-> req[h].key, agent |-> req[h].agent,
              magnitude |-> req[h].magnitude, reserved |-> since[h]]

\* An action may fail with either error, having reached the outside world or not.
Failures == {"ServiceUnavailable", "ValidationError"}

\* A file action runs to its end in one go (FileActuator has its steps).
RunFile(h) ==
    /\ stage[h] = "actuate"
    /\ req[h].body = "file"
    /\ \/ effects' = effects \cup {Effect(h)} /\ Result(h, "Authorized")
       \/ /\ effects' \in {effects, effects \cup {Effect(h)}}
          /\ \E v \in Failures : Result(h, v)
    /\ UNCHANGED <<now, cacheVars, gateVars, req, used, action, lastAction, records, proofs, counters,
                   history>>

\* A subprocess is spawned or an HTTP request sent, which may come to nothing, and
\* the handler awaits the outcome.
StartAwaited(h) ==
    /\ stage[h] = "actuate"
    /\ req[h].body = "awaited"
    /\ effects' \in {effects, effects \cup {Effect(h)}}
    /\ Go(h, "await")
    /\ UNCHANGED <<now, cacheVars, gateVars, req, used, action, outcome, lastAction, records,
                   proofs, counters, history>>

\* It ends, well or badly, or its own 15 s timeout ends it.
EndAwaited(h) ==
    /\ stage[h] = "await"
    /\ \/ Effect(h) \in effects /\ Result(h, "Authorized")
       \/ \E v \in Failures : Result(h, v)
    /\ UNCHANGED <<now, cacheVars, gateVars, req, used, action, lastAction, records, proofs,
                   counters, effects, history>>

\* The TimeoutLayer's deadline passes (the client is answered 503), or the client
\* is gone: the future is dropped where it stands and no more of it runs.
Drop(h) ==
    /\ stage[h] = "await"
    /\ Cache!Abandon(h)
    /\ dropped' = dropped \cup {[id |-> action[h], key |-> key[h]]}
    /\ End(h)
    /\ UNCHANGED <<gateVars, used, lastAction, records, proofs, counters, effects, removed>>

\* ProofStore::insert, with the second that timestamp_now read.
Record(h) ==
    /\ proofs' = [proofs EXCEPT ![action[h]] = outcome[h]]
    /\ \E second \in Seconds : Store!Insert(action[h], second)

\* Mutants of Prove: only successes are proved; denials are counted.
ProveSuccess(h) ==
    /\ stage[h] = "prove"
    /\ IF outcome[h] = "Authorized"
       THEN Record(h) /\ Go(h, "count")
       ELSE UNCHANGED <<records, proofs>> /\ Go(h, "finish")
    /\ UNCHANGED <<now, cacheVars, gateVars, req, used, action, outcome, lastAction, counters,
                   effects, history>>

ProveAndCount(h) ==
    /\ stage[h] = "prove"
    /\ Record(h)
    /\ Go(h, "count")
    /\ UNCHANGED <<now, cacheVars, gateVars, req, used, action, outcome, lastAction, counters,
                   effects, history>>

\* The proof is stored before the response, whatever the outcome.
Prove(h) ==
    /\ stage[h] = "prove"
    /\ Record(h)
    /\ Go(h, IF outcome[h] = "Authorized" THEN "count" ELSE "finish")
    /\ UNCHANGED <<now, cacheVars, gateVars, req, used, action, outcome, lastAction, counters,
                   effects, history>>

\* increment_domain_counter: authorized actions, dry runs included.
CountDomain(h) ==
    /\ stage[h] = "count"
    /\ counters' = [counters EXCEPT ![req[h].domain] = @ + 1]
    /\ Go(h, "finish")
    /\ UNCHANGED <<now, cacheVars, gateVars, req, used, action, outcome, lastAction, records,
                   proofs, effects, history>>

\* complete(key, response), and the response.
Finish(h) ==
    /\ stage[h] = "finish"
    /\ Cache!Complete(h, [id |-> action[h], verdict |-> outcome[h]])
    /\ End(h)
    /\ UNCHANGED <<gateVars, used, lastAction, records, proofs, counters, effects, history>>

Tick ==
    /\ Cache!Tick
    /\ UNCHANGED <<gateVars, stage, req, runVars, history>>

-------------------------------------------------------------------------------
(* A handler's own steps: everything but a request arriving and a drop. *)
Work(h) ==
    \/ CheckReplay(h) \/ CheckRate(h)
    \/ BeginCheck(h) \/ Check(h) \/ Replayed(h) \/ TurnedAway(h)
    \/ RejectMalformed(h) \/ RejectInvalid(h) \/ DryRun(h) \/ Reserve(h)
    \/ RunFile(h) \/ StartAwaited(h) \/ EndAwaited(h)
    \/ Prove(h) \/ CountDomain(h) \/ Finish(h)

Next ==
    \/ Tick
    \/ \E h \in Callers :
          \/ \E r \in Requests : Arrive(h, r)
          \/ Work(h)
          \/ Drop(h)

Spec == Init /\ [][Next]_vars

(***************************************************************************)
(* A handler is a task of a multi-threaded runtime and blocks on nothing   *)
(* but the await, which its timeout ends: it keeps running.  Requests need *)
(* not arrive, nothing need be dropped, and the clock may stop.            *)
(***************************************************************************)
FairSpec == Spec /\ \A h \in Callers : WF_vars(Work(h))

-------------------------------------------------------------------------------
(* Properties *)

\* A handler that found the cache full removed k between s and t.
RemovedBetween(k, s, t) ==
    \E r \in removed : r.key = k /\ (r.at \in s..t \/ r.at \in t..s)

\* A key acts once: two actions of one key come from reservations at least a TTL
\* apart, or the key was removed between the two.
OneEffectPerKey ==
    \A e, f \in effects :
        e.key = f.key /\ e.id # f.id =>
            \/ e.reserved - f.reserved >= TTL
            \/ f.reserved - e.reserved >= TTL
            \/ RemovedBetween(e.key, e.reserved, f.reserved)

\* What the test of concurrent submissions says of the program without that
\* exception: "Action must execute exactly once".
ExactlyOnce ==
    \A e, f \in effects :
        e.key = f.key /\ e.id # f.id =>
            \/ e.reserved - f.reserved >= TTL
            \/ f.reserved - e.reserved >= TTL

Charge(S) == Total([x \in S |-> x.magnitude])

\* Nothing is done unpaid: for every agent the actions that reached the outside
\* world, with those about to, fit in what was charged, and that in the budget.
\* A drop or a failure refunds nothing.
EffectsArePaid ==
    \A a \in Agents :
        LET done == {e \in effects : e.agent = a}
            due  == {Effect(h) : h \in {g \in Callers : stage[g] = "actuate" /\ req[g].agent = a}}
        IN  Charge(done \cup due) <= used[a] /\ used[a] <= MaxCapacity[a]

ProvedIds == {i \in DOMAIN proofs : proofs[i] # "none"}

\* A body that a retry can be answered with was proved first, with the same
\* verdict, and the proof endpoint still finds its action_id, unless more proofs were
\* stored than the store keeps.
AnswersAreProved ==
    \A k \in Keys :
        Cache!Done(k) /\ entries[k].result.id # 0 =>
            /\ proofs[entries[k].result.id] = entries[k].result.verdict
            /\ Store!Holds(entries[k].result.id) \/ Cardinality(ProvedIds) > MaxRecords

\* The domain counters tell as many authorized actions as were ever proved, but for
\* the handlers between the two updates.
CountersMatchProofs ==
    Total(counters) + Cardinality({h \in Callers : stage[h] = "count"})
    = Cardinality({i \in DOMAIN proofs : proofs[i] = "Authorized"})

\* A key is left in flight, and an action without a proof, by a drop and by
\* nothing else.
OnlyDropsLoseTrack ==
    /\ \A k \in Keys :
          Cache!Present(k) /\ entries[k].inFlight =>
              \/ \E h \in Callers : pc[h] = "owner" /\ key[h] = k
              \/ \E d \in dropped : d.key = k
    /\ \A e \in effects :
          \/ proofs[e.id] # "none"
          \/ \E h \in Callers : action[h] = e.id
          \/ \E d \in dropped : d.id = e.id

\* What handle_action says of the program: all terminal outcomes, timeouts
\* included, go to DONE.  A key in flight is the key of a running handler.
InFlightIsRunning ==
    \A k \in Keys :
        Cache!Present(k) /\ entries[k].inFlight => \E h \in Callers : pc[h] = "owner" /\ key[h] = k

\* Every request that reaches a handler ends, in a response or in a drop: a
\* handler never waits for another.
RequestsEnd == \A h \in Callers : stage[h] # "idle" ~> stage[h] = "idle"
================================================================================
