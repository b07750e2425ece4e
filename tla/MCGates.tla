-------------------------------- MODULE MCGates --------------------------------
(* Small instances of ReplayCacheBinding and RateLimiterQuota, the two gates of a   *)
(* request.  They share nothing but the clock, so a run of the one stands still     *)
(* while the other is looked at.                                                    *)
EXTENDS ReplayCacheBinding, RateLimiterQuota, FiniteSetsExt, TLC

CONSTANTS
    h1, h2, h3, k1, k2, x1, a1, a2,
    ReplayTime      \* bound on the clock of the replay cache

-------------------------------------------------------------------------------
(* The replay cache: each envelope has one spelling, and all were signed at 0, so   *)
(* headers and keys are alike.                                                      *)

OneSpelling == [h \in Headers |-> h]

SignedAtZero == [e \in Envelopes |-> 0]

HeaderSymmetry == Permutations(Headers) \cup Permutations(Keys)

-------------------------------------------------------------------------------
(* The rate limiter: two agents with different limits, two ticks per second. *)

MCMaxPerWindow == a1 :> 2 @@ a2 :> 1

MCWindowSecs == a1 :> 1 @@ a2 :> 2

\* The totals of the properties are sums.
ASSUME TotalIsSum ==
    \A f \in [1..3 -> 0..2] : Total(f) = MapThenSumSet(LAMBDA x : f[x], 1..3)

-------------------------------------------------------------------------------
VARIABLE gate

gatesVars == <<gate, vars, quotaVars>>

GatesInit == gate \in {"replay", "rate"} /\ Init /\ QuotaInit

GatesNext ==
    \/ /\ gate = "replay"
       /\ Next /\ now' <= ReplayTime
       /\ UNCHANGED <<gate, window, admitted>>
    \/ /\ gate = "rate"
       /\ QuotaNext
       /\ UNCHANGED <<gate, wall, passed, seen, bound, refusals>>

GatesSpec == GatesInit /\ [][GatesNext]_gatesVars
================================================================================
