--------------------------- MODULE SlimeAuthorizer ---------------------------
(***************************************************************************)
(* P0Authorizer and AgentRegistry of safa-core/src/slime.rs.  Each agent   *)
(* has one atomic capacity counter.  try_reserve loads it, adds with an    *)
(* overflow check, and publishes the sum with compare_exchange_weak in a   *)
(* loop; check_only (a dry run) loads it once.  An action of this module   *)
(* makes at most one access to the counter; what a caller computes from    *)
(* its own copy happens in the same step as the access it follows.         *)
(***************************************************************************)
EXTENDS Authorizer

VARIABLES
    capacity,   \* capacity[a]: the AtomicU64 of agent a's authorizer
    pc,         \* pc[c]: where caller c is in try_reserve / check_only
    call,       \* call[c]: the arguments of the call c is making
    current,    \* current[c]: the value c loaded
    verdict,    \* verdict[c]: the SlimeVerdict c is about to return
    granted     \* granted[a]: history, the sum of the magnitudes of the
                \* reservations that were answered Authorized

vars == <<capacity, pc, call, current, verdict, granted>>

PCs == {"idle", "policy", "load", "cas", "done"}

Word == 0..MaxWord

TypeOK ==
    /\ capacity \in [Agents -> Word]
    /\ pc \in [Callers -> PCs]
    /\ call \in [Callers -> Calls \cup {NoCall}]
    /\ \A c \in Callers : pc[c] # "idle" => call[c] \in Calls
    /\ current \in [Callers -> Word]
    /\ verdict \in [Callers -> Verdicts]
    /\ granted \in [Agents -> Nat]

Agent(c) == call[c].agent

\* Mutants of Fits: a wrapping addition, a budget never filled.
FitsWrapping(a, cur, m) == (cur + m) % (MaxWord + 1) <= MaxCapacity[a]
FitsStrictly(a, cur, m) == cur + m <= MaxWord /\ cur + m < MaxCapacity[a]

\* current.checked_add(magnitude) is Some(new) and new <= max_capacity.
Fits(a, cur, m) ==
    /\ cur + m <= MaxWord
    /\ cur + m <= MaxCapacity[a]

Init ==
    /\ capacity = [a \in Agents |-> 0]
    /\ pc = [c \in Callers |-> "idle"]
    /\ call = [c \in Callers |-> NoCall]
    /\ current = [c \in Callers |-> 0]
    /\ verdict = [c \in Callers |-> "Impossible"]
    /\ granted = [a \in Agents |-> 0]

Invoke(c) ==
    /\ pc[c] = "idle"
    /\ \E k \in Calls : call' = [call EXCEPT ![c] = k]
    /\ pc' = [pc EXCEPT ![c] = "policy"]
    /\ UNCHANGED <<capacity, current, verdict, granted>>

\* Answer the call with v: the early returns and the last line of both methods.
Answer(c, v) ==
    /\ verdict' = [verdict EXCEPT ![c] = v]
    /\ pc' = [pc EXCEPT ![c] = "done"]

CheckPolicy(c) ==
    /\ pc[c] = "policy"
    /\ IF PolicyAdmits(Agent(c), call[c].domain, call[c].magnitude)
       THEN pc' = [pc EXCEPT ![c] = "load"] /\ UNCHANGED verdict
       ELSE Answer(c, "Impossible")
    /\ UNCHANGED <<capacity, call, current, granted>>

\* The atomic load, and what follows from the loaded value alone.
Load(c) ==
    /\ pc[c] = "load"
    /\ current' = [current EXCEPT ![c] = capacity[Agent(c)]]
    /\ IF ~Fits(Agent(c), current'[c], call[c].magnitude)
       THEN Answer(c, "Impossible")
       ELSE IF call[c].op = "check_only"
            THEN Answer(c, "Authorized")
            ELSE pc' = [pc EXCEPT ![c] = "cas"] /\ UNCHANGED verdict
    /\ UNCHANGED <<capacity, call, granted>>

\* Mutant: a plain store in place of the compare-exchange.
StoreBlindly(c) ==
    /\ pc[c] = "cas"
    /\ capacity' = [capacity EXCEPT ![Agent(c)] = current[c] + call[c].magnitude]
    /\ granted' = [granted EXCEPT ![Agent(c)] = @ + call[c].magnitude]
    /\ Answer(c, "Authorized")
    /\ UNCHANGED <<call, current>>

\* compare_exchange_weak finds the loaded value and replaces it.
CasSucceed(c) ==
    /\ pc[c] = "cas"
    /\ capacity[Agent(c)] = current[c]
    /\ capacity' = [capacity EXCEPT ![Agent(c)] = current[c] + call[c].magnitude]
    /\ granted' = [granted EXCEPT ![Agent(c)] = @ + call[c].magnitude]
    /\ Answer(c, "Authorized")
    /\ UNCHANGED <<call, current>>

\* Mutant: the exchange is retried without loading the counter again.
RetryStale(c) ==
    /\ pc[c] = "cas"
    /\ UNCHANGED vars

\* It fails: another caller won, or the weak form failed spuriously, which it
\* may do whatever the counter holds.
CasFail(c) ==
    /\ pc[c] = "cas"
    /\ pc' = [pc EXCEPT ![c] = "load"]
    /\ UNCHANGED <<capacity, call, current, verdict, granted>>

\* The call returns and its locals are gone.
Return(c) ==
    /\ pc[c] = "done"
    /\ pc' = [pc EXCEPT ![c] = "idle"]
    /\ call' = [call EXCEPT ![c] = NoCall]
    /\ current' = [current EXCEPT ![c] = 0]
    /\ verdict' = [verdict EXCEPT ![c] = "Impossible"]
    /\ UNCHANGED <<capacity, granted>>

Next ==
    \E c \in Callers :
        \/ Invoke(c)
        \/ CheckPolicy(c)
        \/ Load(c)
        \/ CasSucceed(c)
        \/ CasFail(c)
        \/ Return(c)

Spec == Init /\ [][Next]_vars

(***************************************************************************)
(* The methods are synchronous code on an OS thread, so a caller that has  *)
(* a step to take takes it (weak fairness); a weak compare-exchange that   *)
(* is retried on an unchanged value does not fail spuriously for ever      *)
(* (strong fairness of the successful exchange).  Nothing is assumed about *)
(* a caller making a call, or about which of several callers wins.         *)
(***************************************************************************)
Fairness ==
    \A c \in Callers :
        /\ WF_vars(CheckPolicy(c))
        /\ WF_vars(Load(c))
        /\ SF_vars(CasSucceed(c))
        /\ WF_vars(CasFail(c))

FairSpec == Spec /\ Fairness

-------------------------------------------------------------------------------
(* Properties *)

\* No interleaving of reservations takes an agent past its max_capacity: the
\* test and the update of try_reserve act as one although they are not.
WithinCapacity == \A a \in Agents : capacity[a] <= MaxCapacity[a]

\* No reservation is lost or charged twice: the counter is the sum of all the
\* magnitudes that were authorized, so two callers that loaded the same value
\* cannot both publish their sum.
NoLostReservation == \A a \in Agents : capacity[a] = granted[a]

\* The strengthening of WithinCapacity that every step preserves: a caller
\* about to exchange holds a sum that fits.
CapacityInv ==
    /\ WithinCapacity
    /\ NoLostReservation
    /\ \A c \in Callers :
          pc[c] = "cas" =>
              /\ call[c].op = "try_reserve"
              /\ PolicyAdmits(Agent(c), call[c].domain, call[c].magnitude)
              /\ Fits(Agent(c), current[c], call[c].magnitude)
    /\ \A c \in Callers :
          pc[c] = "load" => PolicyAdmits(Agent(c), call[c].domain, call[c].magnitude)

\* The loop of try_reserve ends: each lost race is someone else's reservation,
\* and a bounded budget has room for finitely many of them.
EveryCallIsAnswered ==
    \A c \in Callers : (pc[c] \in {"policy", "load", "cas"}) ~> (pc[c] = "done")

-------------------------------------------------------------------------------
(* Refinement *)

\* A call is decided at the step that fixes its verdict: the policy check, the
\* load that finds no room (or answers a dry run), or the winning exchange.
OutcomeOf(c) ==
    CASE pc[c] = "idle" -> "idle"
      [] pc[c] = "done" -> verdict[c]
      [] OTHER          -> "pending"

Budget == INSTANCE CapacityBudget
              WITH used <- capacity, outcome <- [c \in Callers |-> OutcomeOf(c)]

\* The compare-exchange loop implements the indivisible budget: verdicts are
\* those of some order of the calls taken one at a time.
ImplementsBudget == Budget!Spec
================================================================================
