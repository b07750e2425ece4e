--------------------------- MODULE RateLimiterQuota ---------------------------
(***************************************************************************)
(* RateLimiter with a clock, requests at any time, and a history of the    *)
(* requests it admitted: what the limiter promises over time.  Its         *)
(* specification is QuotaSpec, so that one module can extend this one and  *)
(* ReplayCacheBinding.                                                     *)
(***************************************************************************)
EXTENDS RateLimiter, Totals

VARIABLE admitted  \* history: admitted[a][t], the requests of a admitted at time t

quotaVars == <<now, window, admitted>>

Times == 0..MaxTime

QuotaTypeOK ==
    /\ now \in Times
    /\ window \in [Agents -> Window]
    /\ admitted \in [Agents -> [Times -> Nat]]

QuotaInit ==
    /\ now = 0
    /\ RateInit
    /\ admitted = [a \in Agents |-> [t \in Times |-> 0]]

QuotaTick ==
    /\ Advance
    /\ UNCHANGED <<window, admitted>>

Accepted(a) ==
    /\ Admit(a)
    /\ admitted' = [admitted EXCEPT ![a][now] = @ + 1]
    /\ UNCHANGED now

Limited(a) ==
    /\ Refuse(a)
    /\ UNCHANGED <<now, admitted>>

QuotaNext == QuotaTick \/ \E a \in Agents : Accepted(a) \/ Limited(a)

QuotaSpec == QuotaInit /\ [][QuotaNext]_quotaVars

-------------------------------------------------------------------------------
(* Properties *)

WindowTicks(a) == WindowSecs[a] * TicksPerSec

\* Requests of a admitted from time s up to, but not including, time e.
AdmittedIn(a, s, e) == Total([t \in {u \in Times : s <= u /\ u < e} |-> admitted[a][t]])

\* However the requests fall, any stretch of one window's length sees at most
\* twice the quota: a fixed window that restarts at the first request after it
\* ended can be straddled once, never twice.
SlidingQuota ==
    \A a \in Agents, s \in Times : AdmittedIn(a, s, s + WindowTicks(a)) <= 2 * MaxPerWindow[a]

\* Nobody is limited early: when the counter has passed the quota, the quota has
\* really been admitted since the window started, refusals not counted.
NoEarlyRefusal ==
    \A a \in Agents :
        window[a].count > MaxPerWindow[a] =>
            AdmittedIn(a, window[a].start, now + 1) = MaxPerWindow[a]

================================================================================
