------------------------------ MODULE Authorizer ------------------------------
(***************************************************************************)
(* The vocabulary shared by the capacity specifications: the agents, the   *)
(* domain policies their authorizers were built with, and the calls of the *)
(* SlimeAuthorizer trait (safa-core/src/slime.rs).                         *)
(***************************************************************************)
EXTENDS Integers

CONSTANTS
    Callers,       \* request handlers that hold a reference to an authorizer
    Agents,        \* keys of AgentRegistry.agents
    Domains,       \* domain ids a request may be mapped to
    Policies,      \* Policies[a]: the domains map of agent a's authorizer
    MaxCapacity,   \* MaxCapacity[a]: max_capacity of agent a's authorizer
    Magnitudes,    \* magnitudes a validated request may carry
    MaxWord        \* the largest value of the counter's integer type (u64::MAX)

Ops == {"try_reserve", "check_only"}

Verdicts == {"Authorized", "Impossible"}

DomainPolicy == [enabled : BOOLEAN, maxMagnitude : Nat]

Calls == [op : Ops, agent : Agents, domain : Domains, magnitude : Magnitudes]

\* What a caller between two calls holds.
NoCall == [op |-> "none"]

(***************************************************************************)
(* validate_magnitude admits 1..1000, so a reservation is never empty; a   *)
(* max_capacity is a u64 like the counter.                                 *)
(***************************************************************************)
ASSUME ConstantsAssumption ==
    /\ MaxWord \in Nat
    /\ MaxCapacity \in [Agents -> 0..MaxWord]
    /\ Magnitudes \subseteq (Nat \ {0})
    /\ \A a \in Agents : /\ DOMAIN Policies[a] \subseteq Domains
                         /\ \A d \in DOMAIN Policies[a] : Policies[a][d] \in DomainPolicy

\* check_policy: the domain is known, enabled, and allows this magnitude.
PolicyAdmits(a, d, m) ==
    /\ d \in DOMAIN Policies[a]
    /\ Policies[a][d].enabled
    /\ m <= Policies[a][d].maxMagnitude
================================================================================
