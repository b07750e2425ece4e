------------------------------ MODULE RateLimiter ------------------------------
(***************************************************************************)
(* check_rate_limit of safa-daemon/src/server.rs: one fixed window per     *)
(* agent, reset lazily by the first request that finds it over.  The       *)
(* window and its counter are under one mutex, so a call is one step.      *)
(***************************************************************************)
EXTENDS Clock

CONSTANTS
    Agents,         \* agents with a limiter
    MaxPerWindow,   \* MaxPerWindow[a]: rate_limit_per_window
    WindowSecs,     \* WindowSecs[a]: rate_limit_window_secs
    TicksPerSec     \* ticks of the clock in a second

\* AgentConfig::from_toml_str refuses a limit or a window of zero.
ASSUME RateAssumption ==
    /\ MaxPerWindow \in [Agents -> Nat \ {0}]
    /\ WindowSecs \in [Agents -> Nat \ {0}]
    /\ TicksPerSec \in Nat \ {0}

\* The clock is monotonic and counts ticks.
VARIABLE window    \* window[a]: RateLimitState of agent a

Window == [start : Nat, count : Nat]

RateInit == window = [a \in Agents |-> [start |-> now, count |-> 0]]

\* Duration::as_secs drops the fraction of a second.
ElapsedSecs(a) == (now - window[a].start) \div TicksPerSec

WindowOver(a) == ElapsedSecs(a) >= WindowSecs[a]

\* The counter goes on counting refused requests.  Only count <= max is ever
\* asked of it, so the model stops it at max + 1.
Bump(a) == IF window[a].count > MaxPerWindow[a] THEN window[a].count ELSE window[a].count + 1

\* Mutants of Admit: it tests the value before the increment; it starts a new
\* window without a new count.
AdmitOneMore(a) ==
    \/ /\ WindowOver(a)
       /\ window' = [window EXCEPT ![a] = [start |-> now, count |-> 1]]
    \/ /\ ~WindowOver(a)
       /\ window' = [window EXCEPT ![a].count = Bump(a)]
       /\ window[a].count <= MaxPerWindow[a]

AdmitKeepsCount(a) ==
    \/ /\ WindowOver(a)
       /\ window' = [window EXCEPT ![a].start = now]
    \/ /\ ~WindowOver(a)
       /\ window' = [window EXCEPT ![a].count = Bump(a)]
       /\ window'[a].count <= MaxPerWindow[a]

\* check_rate_limit returns true: a new window, or room in the current one.
Admit(a) ==
    \/ /\ WindowOver(a)
       /\ window' = [window EXCEPT ![a] = [start |-> now, count |-> 1]]
    \/ /\ ~WindowOver(a)
       /\ window' = [window EXCEPT ![a].count = Bump(a)]
       /\ window'[a].count <= MaxPerWindow[a]

\* It returns false; the request has been counted all the same.
Refuse(a) ==
    /\ ~WindowOver(a)
    /\ window' = [window EXCEPT ![a].count = Bump(a)]
    /\ window'[a].count > MaxPerWindow[a]
================================================================================
