# SAFA in TLA+

Specifications, model-checking configurations and machine-checked proofs for
SAFA, a daemon that stands between AI agents and the machine they act on. An
agent posts an action; SAFA decides whether the agent may do it, does it, and
answers with an id under which the verdict can be looked up. What SAFA promises
is mostly about *how often* and *how much*: an idempotency key acts once, an
agent's budget is never overspent, a rate limit holds, a signed request stays with
the key it came with, a file is never half written, an answer comes from where
the allowlist allows it. Most of it is decided by concurrent handlers over
in-memory state, which is what is modelled here, with the processes, files,
servers, restarts and configuration files around them.

## 1. The system

One process, a multi-threaded async runtime, one handler per request.

| Component | Code | State | Operations |
|---|---|---|---|
| Capacity authorizer | `safa-core/src/slime.rs` | one atomic counter per agent, immutable policies | `try_reserve`, `check_only` |
| Idempotency cache | `safa-core/src/idempotency.rs` | sharded map key → (created_at, in_flight, result) | `check_or_insert`, `complete`, `remove`, `purge_expired`, `len` |
| Rate limiter | `safa-daemon/src/server.rs` `check_rate_limit` | per agent, under a mutex: window start, count | one call per request |
| Replay cache | `server.rs` `ReplayCacheState`, `safa-core/src/identity.rs` | map header text → (key, seen_at), under a mutex | `check_signed_replay` |
| Request handler | `server.rs` `handle_action` | domain counters; uses all of the above | `POST /ama/action` |
| Pipeline | `safa-core/src/pipeline.rs` | none | validate, canonicalize, map, authorize, actuate |
| File actuator, boot sweep | `safa-core/src/actuator/file.rs`, `safa-daemon/src/main.rs` | the workspace | `file_write`, `file_read`, `cleanup_orphan_temps` |
| Shell actuator | `actuator/shell.rs` | child process, two pipes | `shell_exec` |
| HTTP actuator, allowlist | `actuator/http.rs`, `newtypes.rs` | one exchange | `http_request`, `AllowlistedUrl::new`, `glob_match` |
| Proof store, audit | `safa-core/src/audit.rs` | bounded map id → record, under a mutex | `insert`, `get` |
| Admission | `server.rs` `build_router`, `main.rs` | 8 permits, their queue, 30 s deadline | tower layers, graceful shutdown |
| Configuration | `safa-core/src/config.rs`, `server.rs` `AppState::new` | read once | `load`, `from_toml_str` |
| Mapping, schema, other typed fields, errors | `mapper.rs`, `schema.rs`, `canonical.rs`, `newtypes.rs`, `errors.rs` | none | pure functions |
| Manifest, read-only endpoints | `manifest.rs`, `server.rs` | none | reads |

How they interact: a request waits for one of eight permits, then passes the
replay cache (if its agent has a secret), the rate limiter, and the idempotency
cache; the handler that is answered `New` owns its key, parses the body, draws an
action id, validates, reserves capacity, runs the actuator, stores a proof, bumps
a domain counter and completes the key with its response. Every shared structure
has its own lock or atomic; no lock is held from one step to the next, and the
only suspension of a handler that has touched state is the await of a subprocess
or HTTP exchange. All of this state dies with the process; the workspace and the
configuration files do not.

What is hard about it:

- The handlers interleave between any two of those steps, and inside
  `try_reserve` (load, then compare-exchange) and `check_or_insert` (purge and
  length walk the shards, then one entry lock).
- A handler can be *dropped* at its await by the deadline or a vanished client,
  and a request can leave the line for a permit.
- Entries expire by a clock that other handlers sample at other moments; proofs
  are evicted, and signed requests are tested for freshness, by a wall clock that
  can be set back.
- Bounded tables are at their limit: cache full, eviction, window straddling.
- Actions fail half way; the process dies between two system calls, and a second
  daemon sweeps the workspace of a running one.
- A subprocess forks, leaves its group, ignores signals, keeps pipes; a server
  redirects, answers from another address, or stops in the middle of a body.
- Configuration files are read twice and may be edited between.

`PROJECT.json` lists each hazard at its line, with the properties that answer it.

## 2. Modules

| Module | Models | Composes |
|---|---|---|
| `Authorizer` | vocabulary of the capacity specifications, `check_policy` | |
| `CapacityBudget` | abstract: an indivisible budget | `Authorizer` |
| `SlimeAuthorizer` | the counter, one atomic instruction per action | refines `CapacityBudget` |
| `KeyOwnership` | abstract: a key is free, in flight or done | |
| `IdempotencyCache` | the sharded map, one critical section per action | refines `KeyOwnership` |
| `Clock`, `Totals` | vocabulary: the clock of the two gates, sums | |
| `RateLimiter`, `RateLimiterQuota` | the call; the call with any client and a history | `Clock`, `Totals` |
| `ReplayCache`, `ReplayCacheBinding` | the call; the call with any client and histories | `Clock` |
| `ProofStore` | the bounded map of proofs, one insertion | |
| `HandleAction` | handler and pipeline over all of the above | instances of `IdempotencyCache`, `RateLimiter`, `ReplayCache`, `ProofStore`; `Authorizer`, `Totals` |
| `Daemon` | admission, shutdown, crash and restart around short handlers | instances of `KeyOwnership`, `ProofStore`; `Totals` |
| `AtomicFiles` | abstract: files written and read at one instant or not at all | |
| `FileActuator` | file system calls, crash, restart, second daemon | refines `AtomicFiles` |
| `ShellActuator` | one subprocess call: processes, pipes, signals, timeout | |
| `HttpActuator` | one HTTP call, and the allowlist | |
| `Actuate` | the dispatch to the two awaited actuators, and their fairness | `ShellActuator`, `HttpActuator` |
| `Boot` | reading, checking and hashing of the configuration, under edits | |
| `MC...` | instances for TLC | |
| `SlimeAuthorizerProofs`, `IdempotencyCacheProofs`, `GateProofs` (the two gates), `HandleActionProofs`, `DaemonProofs`, `FileActuatorProofs`, `ActuateProofs`, `BootProofs` | theorems | |

`RateLimiter`, `ReplayCache` and `ProofStore` define the effect of one call on
their variable and nothing else, so that `HandleAction` and `Daemon` can use them
as parts of their steps; the `...Quota` and `...Binding` modules close the first
two with a clock and any client. A sum (`Total`) is the cardinality of a set of
units, which the provers' library can reason about; `MCGates` compares it
with the sum of the community modules.

The layers rest on each other. `SlimeAuthorizer` implements `CapacityBudget`, so
`HandleAction` reserves in one step. The handlers of `HandleAction` touch the map
of keys by the actions of an instance of `IdempotencyCache` and in no other way, so
they follow its protocol by construction; it implements `KeyOwnership`
(`ImplementsOwnership`, proved), so `Daemon`, which has more around the handlers,
has just the ownership of keys inside.

### State and actions against the code

**SlimeAuthorizer.** `capacity[a]` is `P0Authorizer.capacity`; `pc`, `call` and
`current` are the locals of a call. `CheckPolicy`, `Load`, `CasSucceed`,
`CasFail`, `Return` follow `try_reserve` and `check_only` instruction by
instruction; `CasFail` is enabled whatever the counter holds because
`compare_exchange_weak` may fail spuriously. `MaxWord` stands for `u64::MAX`, so
`checked_add` is a test. `granted` is a history of what was authorized.

**IdempotencyCache.** `entries` is the `DashMap`. `Begin` samples the instant
`purge_expired` uses; `PurgeShard` and `LenShard` visit one shard each; `CheckEntry`
is the `match` on `entry(key)`. Note the two different age tests of the code:
`retain` drops at `age >= ttl` (sampled instant), the occupied arm renews at
`age > ttl` (current instant). `Complete` writes to whatever entry the key has,
as the code does. `RemoveAfterFull` is the `Full` arm of `handle_action`, the
only caller of `remove` that can run (the other, for an unknown agent, follows a
test that makes it unreachable). `Abandon` is the drop of the owner's future.
`robbed` is a history. `KeyOwnership` leaves out the shards, the size and the
results: a key that was reserved becomes free, or is reserved again, only when its
reservation is a TTL old or the key is removed.

**ReplayCache.** The cache knows a request by the text of its headers
(`Headers`), as the code does, and not by what they say once decoded. `Kept` is
`purge_expired`, `Survivors` are the entries an insertion may keep: at the limit one
with the smallest `seen_at` goes, and ties are the hash map's to break.
`ReplayCacheBinding` adds the clients: `EnvelopeOf` and `Timestamp` say what headers
decode to, `Verify` is the timestamp test of `verify_identity` against a wall clock
that `SetClock` may move, and a request that passed it comes to the cache, whose
clock is `Instant`, any time later (`Deliver`, `Bounce`). `bound` and `refusals` are
histories.

**HandleAction.** A handler `h` walks through `stage[h]`; the stages are the
numbered steps of `handle_action` and, from `Reserve` on, of `process_action`. A
step that touches shared state is an action of its own. `Requests` are
well-formed requests of known agents; those that fail the header tests are
answered before any state is touched and are not modelled. The body is one of
malformed JSON, refused by validation (with the one verdict `ValidationError` for
all such refusals), dry run, file action, awaited action. `Drop` is the deadline
or the client's disappearance and is enabled only at the await, because tokio
drops a future where it is suspended. The capacity budget is one step here, which
`SlimeAuthorizer` and `BudgetRefinement` justify. `records` is the proof store, with
its eviction, and each insertion takes any second of `Seconds` as its stamp; `proofs`
is a history of the verdicts that were stored. `removed` is a history of the
deletions by `remove()`, with their times.

**Daemon.** `free` and `queue` are the semaphore of `ConcurrencyLimitLayer`.
axum's `Router::layer` gives each route eight permits of its own, and they are
acquired in `poll_ready`, outside the 30 s `TimeoutLayer`: a request in line has
no deadline. tokio's semaphore is first come, first served, hence `NextIn`.
`HangUp` is the drop of a future, in line or in its await, and gives back what the
future holds. A handler is `Begin` (the key and the charge in one), the await,
`Stamp` (`timestamp_now`, evaluated before the store is locked), `Prove`,
`Finish`; `FindFull` and `TurnAway` are the `Full` arm with its `remove`. A
client's rate limit, signature and headers are the choice of `Answer`. `Stamp`
takes any second: the wall clock is set forward and back. `Signal` and `Exit` are
graceful shutdown, `Crash` and `Start` the process; memory is `Fresh` after both.
`forgot`, `acts`, `inserted` and `starts` are histories.

**ProofStore.** `records` keeps the second of each record. `Evictable` are those
with the smallest second; `min_by` over a hash map takes any of them.

**FileActuator.** `files` and `temps` are directory entries; a descriptor is a
copy of the version it opened, since files are only ever replaced by `rename`.
`Crash` kills the process at any step; `Walk`, `RemoveTemp`, `RemoveTarget`,
`Bind` are `main`, of a restart or of a second daemon beside a running one. `Walk`
reads the whole workspace at one instant, where the code reads a directory at a time;
what it listed may be gone or replaced by the time it is removed. `failed` is a
history of the writes that were answered with an error.
Crashes are of the process: the code never calls `fsync`, and power loss is not
modelled. Symbolic links, permissions and directory creation are the failure
branch of `CheckTarget`. `AtomicFiles` leaves out the temporary files, the actions
and the system calls: a write puts its whole text at its path at one instant between
its call and its answer, or fails and never does; a read shows the start of a text
that was at its path at one instant between its call and its answer. The instants
are the rename and the open. How much of a text a read shows is left open up to the
limit, because a replacement between stat and open makes it show less than it could;
which of the two lengths it then reports is the business of `ReadDescribesItsFile`.

**ShellActuator.** `pc` is where `shell_exec` stands: before the spawn, in the
`join!` of two drains and the child's end, in the two seconds of grace, in the
final `wait`. The other side is the operating system, modelled from what the code
asks of it: `Fork`, `Escape` (leaving the group), `IgnoreTerm`, `CloseStream`,
`Write`, `Exit` may be done by any process at any time. A stream ends when nobody
holds a descriptor of it and its buffer is empty, which is why `Joined` may wait
for a descendant after the child is gone. `Drop` leaves the processes running: the
child is spawned without `kill_on_drop`.

**HttpActuator.** What follows `https://` is a sequence of `Pieces`: parts of host
names, the dot and the marks at which host, port and path end. `Matches` is
`glob_match`, for any pattern: one that ends before the host name, such as `*` or
`https://*`, is the empty prefix. `Permitted` is `AllowlistedUrl::new` (the first
entry that matches decides, also when it does not have the method). `Spelt` is how
the client library spells a URL: the host name in lower case, without the default
port, with a path that is not empty and has no dot segments. The code asks the list
about that spelling at the end, which is why an exact pattern without a path refuses
itself, with "redirect target not in allowlist". `place` is the library's final URL
and `peer` the address that answered, which may be other than the one `Resolve`
checked. `ReadChunk` is the loop over `chunk()` with `append_bounded_bytes`,
`Decode` is `from_utf8` of what was kept, with characters of one or two bytes or
bytes that are no text: text cut inside a character is answered "not valid UTF-8".
The library, the resolver and the server are external, modelled from what the code
asks of them.

**Actuate.** `kind` is the canonical action; only the actuator it names moves.

**Boot.** `dir` is the directory `agents/`; a file's contents are the capacity,
the rate, the domain keys with their policies, and the secret, or `Garbage`.
`LoadFile` is `from_toml_str` and the duplicate test of `load_agent_configs`, in
the order of the directory, which is none; `ListAgain` and `HashFile` are the
second reading, in path order. `Policies` has every function that the hash map's
order can leave when keys of one file collide (`_` is read as `.`). `fine` stands
for the four other files, the workspace and the binaries, which pass or fail
together. `Edit` changes a file at any moment. `Manifest` is what
`from_agent_config` publishes.

Definitions commented as mutants are plausible errors in the definition that
follows; they are used by no specification and record which mistake each
property catches (`PROJECT.json`, "mutants").

## 3. What is checked

| Run | Instance | States | Shows |
|---|---|---|---|
| `slime_authorizer` | 3 callers, 1 agent, word 0..4 | 0.25 million | `WithinCapacity`, `NoLostReservation`, `ImplementsBudget`, `EveryCallIsAnswered` |
| `idempotency_cache` | 2 threads, 3 keys in 2 shards, room for 1, TTL 2, clock to 3 | 0.8 million | `ExclusiveOwnership`, `ReservationHeld`, `BoundedOvershoot`, `DoneIsFinal`, `ImplementsOwnership` |
| `gates` | the replay cache: 3 signed requests, 2 keys, 1 on its way, room for 2, tolerance 2, clock to 4, wall clock set back; the limiter: 2 agents, 2 ticks per second, clock to 6 | 2.5 million | `RefusalIsJustified`, `BoundToFirstKey`, `SlidingQuota`, `NoEarlyRefusal` |
| `handle_action` | 2 handlers, 2 keys, room for 1, 4 admissions, TTL 2, clock to 2 | 1.7 million | `OneEffectPerKey`, `EffectsArePaid`, `OnlyDropsLoseTrack` |
| `handle_action_mixed` | 2 handlers, 2 agents, every body, one signed request under two keys, room for 1 proof, time stands still | 0.1 million | `AnswersAreProved`, `CountersMatchProofs`, `RequestsEnd` |
| `daemon` | 3 clients, 1 key, 2 permits, budget 2, room for 2 proofs, 2 starts | 0.25 million | `PermitsAccounted`, `OncePerMemory`, `BudgetPerStart`, `RecentProofsAreKept`, `QueueDrains`, `ShutdownCompletes` |
| `file_actuator` | 2 handlers, 2 writes, any reads, 2 targets, 2 texts | 0.5 million | `FailuresLeaveNoTrace`, `NoOrphans`, `ReadDescribesItsFile`, `DurableUntilReplaced`, `ImplementsAtomicFiles` |
| `awaited_actions` | a child and 2 descendants, pipes of 2; 16 URLs, 5 entries, 2 redirects, bodies of 5 against a cap of 3 | 0.9 million | `GroupIsDead`, `OutputIsComplete`, `TheListDecides`, `BodyIsFaithful`, `ActuationEnds` |
| `boot` | 3 files, 7 contents and Garbage, 4 sections, 2 starts, 2 edits | 1.4 million | `BootIsRepeatable`, `HashAttests`, `EveryActionIsGoverned` |

Three more runs, `executes_exactly_once`, `in_flight_is_running` and
`replay_spelling`, end in a violation and document disagreements listed below.

Deadlock is checked except where the system may stop: the one call of
`awaited_actions` ends for good, a `daemon` may have used up its starts, and a
`boot` its starts and edits. In `HandleAction` a handler can always take another
request, which the limiter refuses once the window is used up.

### Bounds

- *Two handlers* (three for the counter) are what it takes for a check and an
  act to be separated by another's act; a third handler in the counter lets two
  lose to one.
- *Room for one cache entry* makes every second key meet the limit; three keys
  and two threads make the overshoot of one visible, and would show one of two.
- *Two shards* let a purge and a length be interrupted between shards.
- *Clocks* run past the TTL (window, tolerance) once or more, so that expiry,
  renewal in place and the equality case happen. The clock stops at `MaxTime`
  without stopping the handlers.
- `MaxActions` of `HandleAction` equals the sum of the agents' admissions in the
  one window that fits before `MaxTime`, so it never stops a handler. The agent of
  `handle_action` has no secret; in `handle_action_mixed` a second agent signs. A
  proof store of one forgets at the second proof; the order of seconds, which
  decides what it forgets, is varied in `daemon`.
- `gates`: the two gates share nothing but the clock, so each is looked at by
  itself, from one of two initial states. Three requests overflow room for two;
  between the two tests of one, others are accepted, time passes and the wall clock
  is set.
- `Daemon`: three clients and two permits give a line of one and, when permits
  are held by requests that finish, of two; three actions overflow a store of two
  and a budget of two; two starts are a crash or a shutdown, and what is left
  after it. `MaxActions` leaves `Answer` enabled, so no handler is stuck.
- `MaxActions` of `FileActuator` bounds writes; reads, crashes and restarts are
  unbounded.
- `ShellActuator` has three processes (a child, one that stays in the group, one
  that leaves it), a pipe that one chunk can fill, and a chunk that the cap cuts.
- `HttpActuator`: the allowlist has an entry whose star follows a host name, one
  whose star follows a slash, an exact one before a wide one, one that is
  shadowed, and a `*` for one method; the hosts are listed, extended by a label or by
  letters, or no one's; the paths empty, listed, longer, with dot segments, a query or
  a fragment; a host in capitals, a default port. A body of five bytes passes the cap
  of three in every split into chunks.
- `Boot`: the contents cover a valid file, keys that collide, the secret replaced
  from the environment, a short one, a duplicate agent, a limit above the
  capacity, a domain without an action, and one that does not parse; two edits can
  change a file and change it back.
- Symmetry is over handlers or threads (`idempotency_cache`, `handle_action`,
  `file_actuator`), and over requests and keys in `gates`, where each envelope
  has one spelling and all have one timestamp; it is used in no run with a liveness
  property.

### Fairness

`SlimeAuthorizer`: weak fairness of a caller's own instructions (synchronous
code on an OS thread) and strong fairness of the successful exchange (a weak
compare-exchange on an unchanged value does not fail spuriously for ever).
Nothing is assumed about who wins. `HandleAction`: weak fairness of each
handler's own steps; an await ends because every actuator has its own timeout
(`ActuationEnds`). `Daemon`: weak fairness of the admission of whoever is first,
which tokio's semaphore wakes, of each handler's steps, and of the exit of a
server without connections. Requests need not come, nothing need be dropped, no
signal need arrive, the clock may stop. `Actuate`: weak fairness of the timers,
of the handler once a future is ready, and of the kernel for a child it was told
to kill; none for the programs, which may hang, and none for the drains. The HTTP
half of `ActuationEnds` says little: the timeout is a step that an exchange can
always take, so that it ends is the timeout's doing and asks nothing of the server.

### Disagreements between the code and what is said of it

- `executes_exactly_once`: the `Full` arm of `handle_action` (`server.rs:603`)
  calls `remove` on a key that another handler may have reserved since, which
  `idempotency.rs:132` warns against; the same action can then run twice within
  the TTL, against the test's "Action must execute exactly once"
  (`p1_idempotency.rs:54`). In the trace the length that a handler reads is the
  key's own old entry, which another handler purges; the first then finds the key
  vacant and is answered `Full`, the second reserves it, the first removes that
  reservation, and a third request reserves it again. Everything else that would
  break exclusivity is excluded by `OneEffectPerKey` and `ExclusiveOwnership`, which
  except only keys that were removed in this way.
- `in_flight_is_running`: a dropped handler leaves its key in flight until the
  TTL, against "All terminal outcomes (denial, timeout, failure) go to DONE"
  (`server.rs:723`). `OnlyDropsLoseTrack` says that nothing else does.
- `replay_spelling`: the replay cache knows a signature by its text, which is decoded
  without regard to case, so one envelope in two spellings is two requests to it,
  against "reject exact replay of a signed envelope when it arrives under a different
  Idempotency-Key" (`server.rs:568-570`).

What is said of the replay cache goes further than the code in two more ways, and of
the proof store in one:

- At its limit the cache forgets a request younger than its TTL, against "the exact
  match above still fires whenever a replay presents the same (agent_id, timestamp,
  signature_hex)" (`server.rs:107-112`).
- A request signed by a clock that is ahead passes the timestamp test for up to twice
  the tolerance, while the cache remembers it for one; then it is accepted under
  another key, against "This prevents replay attacks while allowing reasonable clock
  skew" (`identity.rs:8-9`). A wall clock that is set back has the same effect.
- The proof store is documented with "TTL-based eviction" (`audit.rs:64`) and has
  none: a record stays until others push it out.

What does hold is `BoundToFirstKey`: the text as sent stays with its key for a TTL,
unless as many others as fill the cache were remembered since; and
`RecentProofsAreKept`: a proof is found while fewer than the store has room for
outrank it. A cached answer may name an id whose proof is gone; `AnswersAreProved`
says that it was stored, with the verdict of the answer.

### Accepted behaviour worth knowing

A key is global, not per agent, and not bound to the body; a cached error is
replayed with status 200; a refund never happens. The tests say so, and the
models follow the code. Other places where the code and a reader's expectation
may part, noted while modelling:

- A request in line for a permit has no deadline, though `p1_queue.rs:7` says
  "Overflow fails closed (timeout, not hang)". `QueueDrains` holds nevertheless.
- Domain keys of one file, or of the `[slime]` section, that differ only in `_`
  and `.` name one domain, and which policy stays depends on a hash map: two starts
  can publish two manifests (`manifest.rs:7` speaks of a deterministic fingerprint).
  `BootIsRepeatable` excepts this and nothing else; that the section needs the
  exception too was found by the attempt to prove it with files only.
- The domains that `/ama/status` lists (`config.rs:592`) come in the order of a
  hash map. Agents whose ids differ only in case, `_` and `-` share the name of
  one environment variable for their secrets (`config.rs:353`). `manifest.rs:123`
  takes an agent id to be ASCII while `config.rs:281` accepts any letter.
- An argument template such as `x={{0}}` is counted as a placeholder
  (`pipeline.rs:118`) and not substituted (`pipeline.rs:225`).
- An exact allowlist pattern without a path refuses its own URL, as above.
- The list is asked about the URL of the request and about the last one of its
  redirects; those in between were sent their requests by then. `TheListDecides`
  speaks of the answer. An address is checked before the request and after the
  response, so a name that changes its address is noticed once it was spoken to.
- A handler that outlives its reservation completes the entry of whoever reserved the
  key after it. `DoneIsFinal` excepts this.
- The sweep deletes every file named `*.ama.*.tmp`, an agent's own included.
  `DurableUntilReplaced` excepts these names.
- A domain is served although no agent has a policy for it that is enabled; the
  tests of a start ask for a policy only (`EveryActionIsGoverned`).

## 4. What is proved

The proof modules extend the component's module; every theorem holds for all
values of the constants under the named assumptions: `ConstantsAssumption` (the
budgets fit the counter's word, magnitudes are positive), `CacheAssumption`
(finitely many keys and threads, each key in one shard, positive TTL and capacity),
`ClockAssumption` (some bound), `RateAssumption` (limits and windows are positive),
`ReplayAssumption`, `EnvelopeAssumption` (headers decode to an envelope, which has a
timestamp), `HandlerAssumption`, `DaemonAssumption` (finitely many
clients, a permit, a positive TTL, room for a proof), `FileAssumption`,
`KindsAssumption` (nothing and a directory are no file and no text),
`ShellAssumption` (a positive pipe size, a child), `HttpAssumption` (URLs and patterns
are made of the pieces; any pattern goes), `SpellingAssumption` (so are the URLs as
the client library spells them: `Spelt` walks the segments with a fold, and what a
fold computes is beyond the prover), `BootAssumption` (finitely many files, in an
order).

Every safety property and every action property of a passing run is proved, and
the three refinements.

`SlimeAuthorizerProofs`

- `TypeCorrect`, `CapacityBound` (`WithinCapacity`), `ReservationsCounted`
  (`NoLostReservation`). `WithinCapacity` alone is not inductive: the exchange
  publishes a sum computed earlier. The invariant adds that a caller at the
  exchange holds a `current` whose sum fits; the exchange succeeds only if the
  counter still equals `current`, so the sum published is the one tested.
- `BudgetRefinement`: `Spec => ImplementsBudget`. A call is decided at the step
  that fixes its verdict; each step is mapped to `Invoke`, `Grant`, `Deny`,
  `Return` or a stutter of `CapacityBudget`. The invariant supplies that a winning
  exchange is granted by the policy and by the room *at that instant*.

`IdempotencyCacheProofs`

- `TypeCorrect`, `Exclusion` (`ExclusiveOwnership`), `ReservationPersists`
  (`ReservationHeld`). The two are proved together with the bound of every
  sampled instant by the clock (`CacheInv`): a purge with an old instant judges
  every reservation younger than it is, so it cannot drop a protected one, and a
  second owner would need the entry to be absent or expired.
- `OwnershipRefinement` (`ImplementsOwnership`): a shard's purge is an `Expire`
  of the keys it drops, the match on the entry a `Reserve` or a stutter,
  `Complete` a `Commit`, `RemoveAfterFull` a `Remove`. It needs of the invariant
  that no sampled instant is in the future.
- `CompletedIsFinal` (`DoneIsFinal`), an action property: of the steps that could
  touch a done entry, a purge and a renewal need it past its TTL (again because no
  sampled instant is in the future), and the others are those the property excepts.
- `Overshoot` (`BoundedOvershoot`). A length is summed shard by shard while others
  insert and remove, so what a thread has counted may be more or less than what is
  there now. `RoomInv` reckons for each thread the size that it would find if
  nothing more happened (what it counted, and what is in the shards to come), and
  says for every bound `x` from `MaxEntries - 1` on: the entries there are, and the
  threads whose reckoning is at most `x`, are together at most `x` plus the number
  of threads. The bounds above `MaxEntries - 1` are what makes it inductive: a
  removal of `d` entries lowers reckonings by up to `d`, and turns the statement for
  `x + d` into that for `x`. A thread that inserts leaves the set it is counted in.

`HandleActionProofs`

- `OneEffect` (`OneEffectPerKey`). Two actions are compared long after either
  reservation is gone, so the invariant (`ClaimsInv`) speaks of *claims*: the
  reservation of an owner, and the one each action was done under, is in the map
  while the TTL protects it and the key was not removed; claims of one key are a TTL
  apart, between two owners, an owner and an action that is not its own, and two
  actions. `Control` says that a handler's stage agrees with its place in the cache,
  and its key with its request's. Taking a key is the only step that makes a claim
  from nothing, and it needs the entry absent or past its TTL.
- `OnlyDrops` (`OnlyDropsLoseTrack`) from `TrackInv`: ids are one handler's, an id
  has no proof before its handler proves it and the handler's outcome afterwards, and
  an entry that is done has an answer that was proved. That a proof is never
  overwritten follows from the first two.
- `ProvedAnswers` (`AnswersAreProved`) from `TrackInv` and `StoreInv`: until more
  proofs were stored than there is room for, the store holds all of them, because
  ids are new and so an insertion below the limit evicts none.
- `Paid` (`EffectsArePaid`). The sum is over what was done and over what is about to
  be, which was charged already (`Claimed`, `PaidInv`): the reservation is the only
  step that adds to it, and it adds to `used` what it adds to the sum, within the
  budget; every other step moves an effect from one set to the other or drops it.
- `Counted` (`CountersMatchProofs`), from `CountInv`: the counters and the handlers
  between the proof and the counter are together as many as the authorized proofs.
  It needs that an id has no proof before its handler proves it (`TrackInv`).

`GateProofs`, the two gates that a request passes before its key is looked up

- Of the replay cache: `TypeCorrect`; `NoFalseAlarm` (`RefusalIsJustified`) and
  `Binding` (`BoundToFirstKey`), from `Remembered`: what an entry records is the last
  acceptance of its headers, and what was accepted less than a TTL ago is in the cache
  or was followed by as many others as the cache has room for. The second half is
  what an eviction preserves: it takes an entry with the smallest `seen_at`, so the
  others and the new one are all later. The wall clock and the timestamps do not
  enter, so the theorems hold for all of them; what they do not bound is listed among
  the disagreements above.
- Of the rate limiter: `QuotaTypes`; `TwoQuotas` (`SlidingQuota`) and `FairRefusal`
  (`NoEarlyRefusal`), from `Honest`, which says of every agent: nothing was admitted
  after its window's end; since the window's start, what its counter says, up to the
  quota; and in any stretch of a window's length that contains the start, no more
  than the quota before it. The last is what a restart needs: the old window's
  admissions become what lies before the new start, and whatever began earlier than
  a window's length ago no longer reaches it. Beneath it are lemmas about sums over
  stretches of time, and one that a whole number of seconds has passed exactly when
  its ticks have (`as_secs` drops the fraction).

`DaemonProofs`

- `TypeCorrect`.
- `Memory` (`OncePerMemory`): an action of `k` is tried only by a step that finds
  `k` free or lets go of its old reservation; the invariant `MemoryInv` counts one
  for a key that is remembered.
- `Spending` (`BudgetPerStart`), from `SpendInv`: what was done before this start is
  within the budgets of the starts before it, and what is done since is within what
  was charged since; a start finds a whole budget unspent, and what was charged and
  never done is lost with the process.
- `Permitted` (`PermitsAccounted`): `LineInv` says that the queue has no
  repetition and is the set of waiting requests; then each kind of end (answer,
  removal, hang-up in line or with a permit, crash) moves one request and one
  permit together.
- `RecentProofs` (`RecentProofsAreKept`): ids are drawn in increasing order, and
  no two handlers hold one (`IdsInv`); every record is an insertion with its second
  (`StoreInv`); and a record that is missing has at least `MaxRecords` insertions
  ranked above it (`KeptInv`): at its eviction those were the others in the store
  and the new one, and later insertions only add to them.

`FileActuatorProofs`

- `TypeCorrect`, `WholeTargets` (`TargetsAreWhole`, which no run checks because
  `ImplementsAtomicFiles` says more), `TruthfulAnswers` (`FailuresLeaveNoTrace`),
  `Swept` (`NoOrphans`), `Durable` (`DurableUntilReplaced`), `ReadsDescribe`
  (`ReadDescribesItsFile`). A call's
  locals agree with its place (`LocalInv`); each temporary file belongs to the call
  that created it or to none (`TempsInv`); what is at a target is whole
  (`FilesInv`), and what was not renamed is at none (`UnwrittenInv`); what was
  answered with an error has nobody who could rename it, and its temporary file is
  gone or given up (`FailedInv`), which needs that no temporary file is there before
  its writer (`FreshInv`); a temporary
  file without a call is on some walk's list or was given up (`OrphanInv`); a
  descriptor's version is the path's unless a rename came between (`ReadInv`).
- `FilesAreAtomic`: `Spec => ImplementsAtomicFiles`. A target is seen as its text,
  which it is because it is whole; each step is mapped to a step of `AtomicFiles`
  or a stutter: the rename to `Put`, the open to `Get` or `Miss`, the removal of a
  target to `Sweep`, a crash to `Lose`. Besides the invariant above it needs that
  no directory is written over or swept (`SolidInv`): it was none when it was
  checked or listed, and nothing turns into one.

`ActuateProofs`

- `TypeCorrect` (what is retained stays within the cap); `GroupKilled`
  (`GroupIsDead`), with an invariant that an answer ends the call and that every
  member of the group was born: a fork starts a process that is not a member yet,
  and makes it one only if its parent is one, which runs no more; `CompleteOutput`
  (`OutputIsComplete`): what was written is what was retained, dropped over the
  cap, or still in the pipe.
- `ListDecides` (`TheListDecides`), for every allowlist, wide patterns included, and
  all URLs. Its core is a lemma about the glob (`FixesHost`): a pattern whose star
  follows a host name matches only URLs of that very host, whatever comes after it.
- `FaithfulBody` (`BodyIsFaithful`): after every chunk the buffer holds the body
  up to the cap, and is marked cut exactly beyond it.

`BootProofs`

- `Governed` (`EveryActionIsGoverned`): each agent loaded so far has limits within
  its capacity whichever of its colliding keys stays, and the two comparisons with
  `domains.toml` hold once they were made.
- `Repeatable` (`BootIsRepeatable`) and `Attested` (`HashAttests`). `Serves` says in
  terms of the files alone whether a start that nobody disturbs will serve, and
  `Determined` what can be seen of it. `RepeatInv` says that the outcome remembered
  of the last start is determined by the files as they are, and that an undisturbed
  start is at a stage that they determine: the agents loaded so far are those of the
  files read so far, in whichever order; the hash so far has each file in its place;
  a refusal was due. The rest is that two outcomes determined by the same files are
  the same: a hash that has each file in its place is the only one, and so is a
  manifest, unless keys collide.

Only model-checked: liveness (`EveryCallIsAnswered`, `RequestsEnd`,
`ActuationEnds`, `QueueDrains`, `ShutdownCompletes`), which rests on fairness and on
what is ENABLED, both beyond the installed provers.

## 5. What is not modelled, and why

- Cryptography (TLS, HMAC, SHA-256), parsing and rendering (JSON, TOML, headers),
  and the audit log: no state, or output only. A signature is taken as valid.
- The validated strings of `newtypes.rs` other than URLs (workspace paths,
  arguments, intent ids), whose checks are character tests without state; and the
  normalisation of paths through symbolic links, which the file model takes as
  done.
- Read-only endpoints: health, version, status, manifest and proof lookups read
  the state and change nothing.
- Which addresses are private: `Resolve` and `Verify` choose. Of a URL's spelling,
  percent-encoding and international host names, and hosts written as addresses in
  other notations.
- The shard locks of `DashMap` as locks: a step of `IdempotencyCache` is one critical
  section, so a lock that one call takes twice, which `idempotency.rs:71` warns of,
  would not show. The code takes none under another.
- In `ShellActuator`: the reuse of a pid after the child is reaped, and a child
  without a pid, which tokio reports only after it was waited for. A descendant
  that leaves the group is modelled; nothing kills it, in the model or the code.
  Output is counted in bytes: a cut inside a character is part of the choice of an
  unavailable answer.
- In `Daemon`: a connection that never completes a request, which would hold a
  graceful shutdown; the replay cache and the limiter, which `Answer` covers.
- Recovery from poisoned mutexes: it needs a panic inside a critical section
  that has none.
- In `HandleAction`, the timestamp test: a signed request is taken to have passed it
  at some second of the wall clock. `ReplayCacheBinding` has both clocks.
- Power loss: the code never asks for durability beyond the process.

## 6. Plan

Done: every part that keeps state, and the proofs above. What would come next:

1. A refinement of `Daemon`'s short handlers by those of `HandleAction`.
2. Characters wider than a byte in `ShellActuator`, and calls that share a pid
   space.
3. Path containment as operators against a reference, if the code comes to
   resolve links itself.
