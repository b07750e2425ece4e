--------------------------- MODULE ReplayCacheBinding ---------------------------
(***************************************************************************)
(* ReplayCache with its clients: signed requests that come any number of   *)
(* times, under any key, and pass the timestamp test of verify_identity    *)
(* (safa-core/src/identity.rs) before they come to the cache.  The test    *)
(* reads the wall clock, which can be set; the cache reads Instant, which  *)
(* cannot.  Signatures are valid.  How long is a request bound to the key  *)
(* it came with?                                                           *)
(***************************************************************************)
EXTENDS ReplayCache

CONSTANTS
    Handlers,       \* requests that may be between the two tests at once
    Envelopes,      \* what is signed: an agent, a timestamp and a body
    EnvelopeOf,     \* EnvelopeOf[h]: what the headers h say once decoded; hex digits
                    \* have two cases, so an envelope has several spellings
    Timestamp,      \* Timestamp[e]: the X-Agent-Timestamp of e
    Settings        \* the seconds to which somebody may set the wall clock

ASSUME EnvelopeAssumption ==
    /\ EnvelopeOf \in [Headers -> Envelopes]
    /\ Timestamp \in [Envelopes -> Nat]
    /\ Settings \subseteq Nat

VARIABLES
    wall,      \* SystemTime::now, in seconds
    passed,    \* the requests that passed the first test and not yet the second
    bound,     \* history: bound[h][k], when h was last remembered under k
    refusals   \* history: the last request that was refused

vars == <<now, wall, passed, seen, bound, refusals>>

Never == -1

TypeOK ==
    /\ now \in Nat
    /\ wall \in Nat
    /\ passed \subseteq [handler : Handlers, headers : Headers, key : Keys]
    /\ DOMAIN seen \subseteq Headers
    /\ \A h \in DOMAIN seen : seen[h] \in Seen
    /\ bound \in [Headers -> [Keys -> Int]]
    /\ refusals \subseteq [headers : Headers, key : Keys, at : Nat]

Init ==
    /\ now = 0
    /\ wall = 0
    /\ passed = {}
    /\ ReplayInit
    /\ bound = [h \in Headers |-> [k \in Keys |-> Never]]
    /\ refusals = {}

Tick ==
    /\ Advance
    /\ wall' = wall + 1
    /\ UNCHANGED <<passed, seen, bound, refusals>>

SetClock ==
    /\ wall' \in Settings
    /\ UNCHANGED <<now, passed, seen, bound, refusals>>

\* now_secs.abs_diff(timestamp) <= TIMESTAMP_TOLERANCE_SECS
Fresh(h) ==
    LET t == Timestamp[EnvelopeOf[h]] IN wall - t <= Tolerance /\ t - wall <= Tolerance

\* verify_identity is satisfied; otherwise the request is answered 403 and gone.
Verify(x, h, k) ==
    /\ \A p \in passed : p.handler # x
    /\ Fresh(h)
    /\ passed' = passed \cup {[handler |-> x, headers |-> h, key |-> k]}
    /\ UNCHANGED <<now, wall, seen, bound, refusals>>

\* The request goes on.
Deliver(p) ==
    /\ Accept(p.headers, p.key)
    /\ bound' = IF p.headers \in Kept THEN bound ELSE [bound EXCEPT ![p.headers][p.key] = now]
    /\ passed' = passed \ {p}
    /\ UNCHANGED <<now, wall, refusals>>

\* It is answered 403.
Bounce(p) ==
    /\ RefuseReplay(p.headers, p.key)
    /\ refusals' = {[headers |-> p.headers, key |-> p.key, at |-> now]}
    /\ passed' = passed \ {p}
    /\ UNCHANGED <<now, wall, bound>>

Next ==
    \/ Tick
    \/ SetClock
    \/ \E x \in Handlers, h \in Headers, k \in Keys : Verify(x, h, k)
    \/ \E p \in passed : Deliver(p) \/ Bounce(p)

Spec == Init /\ [][Next]_vars

-------------------------------------------------------------------------------
(* Properties *)

\* The other headers that were remembered at t or later.
RememberedSince(h, t) ==
    {g \in Headers \ {h} : \E k \in Keys : bound[g][k] # Never /\ bound[g][k] >= t}

\* A request comes to be remembered under a second key only a full ttl after the
\* first, or when the headers remembered since the first fill the cache without it:
\* neither retries under its own key, nor refusals, nor the wall clock make it
\* forgotten sooner, and the limit takes nothing that is younger than what it keeps.
BoundToFirstKey ==
    [][\A h \in Headers, k \in Keys :
          bound'[h][k] # bound[h][k] =>
              \A other \in Keys \ {k} :
                  \/ bound[h][other] = Never
                  \/ now - bound[h][other] >= Tolerance
                  \/ Cardinality(RememberedSince(h, bound[h][other])) >= MaxHeaders]_vars

\* No false alarm: a request is refused only if its headers were accepted under a
\* different key, less than a ttl ago.
RefusalIsJustified ==
    \A r \in refusals :
        \E other \in Keys \ {r.key} :
            /\ bound[r.headers][other] # Never
            /\ r.at - bound[r.headers][other] < Tolerance

\* What handle_action says of the cache: "reject exact replay of a signed envelope
\* when it arrives under a different Idempotency-Key".  An envelope is remembered
\* under a second key, however it is spelt, only a ttl after the first.
EnvelopeHasOneKey ==
    [][\A h \in Headers, k \in Keys :
          bound'[h][k] # bound[h][k] =>
              \A g \in Headers, other \in Keys \ {k} :
                  \/ EnvelopeOf[g] # EnvelopeOf[h]
                  \/ bound[g][other] = Never
                  \/ now - bound[g][other] >= Tolerance]_vars
================================================================================
