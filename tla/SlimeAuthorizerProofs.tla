------------------------- MODULE SlimeAuthorizerProofs -------------------------
(* Proofs about SlimeAuthorizer, for every set of callers and agents, every *)
(* policy and every budget.                                                 *)
EXTENDS SlimeAuthorizer, TLAPS

\* A call that fits leaves a sum that is a word and within the budget.
LEMMA FitsBounds ==
    ASSUME NEW a \in Agents, NEW cur \in Word, NEW m \in Magnitudes, Fits(a, cur, m)
    PROVE  /\ cur + m \in Word
           /\ cur + m <= MaxCapacity[a]
  BY ConstantsAssumption DEF Fits, Word

\* The words of the calls: what a caller that is not idle holds.
LEMMA CallFields ==
    ASSUME TypeOK, NEW c \in Callers, pc[c] # "idle"
    PROVE  /\ call[c] \in Calls
           /\ Agent(c) \in Agents
           /\ call[c].magnitude \in Magnitudes
           /\ call[c].magnitude \in Nat
  BY ConstantsAssumption DEF TypeOK, Calls, Agent

-------------------------------------------------------------------------------
\* The inductive invariant.  The type of the counter needs CapacityInv: only a
\* caller whose sum fits may publish it.
IInv == TypeOK /\ CapacityInv

LEMMA InitIInv == Init => IInv
  BY ConstantsAssumption
  DEF Init, IInv, TypeOK, CapacityInv, WithinCapacity, NoLostReservation, PCs, Verdicts, Word

\* Every action except the two that move the counter's value leaves the types
\* alone.
LEMMA TypePreserved ==
    ASSUME IInv, [Next]_vars
    PROVE  TypeOK'
<1>1. CASE UNCHANGED vars
  BY <1>1 DEF vars, IInv, TypeOK
<1>2. ASSUME NEW c \in Callers, Invoke(c)
      PROVE  TypeOK'
  BY <1>2 DEF IInv, TypeOK, Invoke, PCs
<1>3. ASSUME NEW c \in Callers, CheckPolicy(c)
      PROVE  TypeOK'
  BY <1>3 DEF IInv, TypeOK, CheckPolicy, Answer, PCs, Verdicts
<1>4. ASSUME NEW c \in Callers, Load(c)
      PROVE  TypeOK'
  <2>1. Agent(c) \in Agents
    BY <1>4, CallFields DEF IInv, Load
  <2>2. current' \in [Callers -> Word]
    BY <1>4, <2>1 DEF IInv, TypeOK, Load
  <2>3. pc' \in [Callers -> PCs] /\ verdict' \in [Callers -> Verdicts]
    BY <1>4 DEF IInv, TypeOK, Load, Answer, PCs, Verdicts
  <2>4. \A d \in Callers : pc'[d] # "idle" => pc[d] # "idle"
    BY <1>4 DEF IInv, TypeOK, Load, Answer
  <2> QED
    BY <1>4, <2>2, <2>3, <2>4 DEF IInv, TypeOK, Load
<1>5. ASSUME NEW c \in Callers, CasSucceed(c)
      PROVE  TypeOK'
  <2>1. /\ call[c] \in Calls
        /\ Agent(c) \in Agents
        /\ call[c].magnitude \in Magnitudes
        /\ call[c].magnitude \in Nat
    BY <1>5, CallFields DEF IInv, CasSucceed
  <2>2. current[c] + call[c].magnitude \in Word
    BY <1>5, <2>1, FitsBounds DEF IInv, TypeOK, CapacityInv, CasSucceed
  <2>3. capacity' \in [Agents -> Word] /\ granted' \in [Agents -> Nat]
    BY <1>5, <2>1, <2>2 DEF IInv, TypeOK, CasSucceed
  <2> QED
    BY <1>5, <2>3 DEF IInv, TypeOK, CasSucceed, Answer, PCs, Verdicts
<1>6. ASSUME NEW c \in Callers, CasFail(c)
      PROVE  TypeOK'
  BY <1>6 DEF IInv, TypeOK, CasFail, PCs
<1>7. ASSUME NEW c \in Callers, Return(c)
      PROVE  TypeOK'
  BY <1>7, ConstantsAssumption DEF IInv, TypeOK, Return, PCs, Verdicts, Word
<1> QED
  BY <1>1, <1>2, <1>3, <1>4, <1>5, <1>6, <1>7 DEF Next

\* The budget itself: the interesting step is the successful exchange, which
\* knows from its guard that the counter still holds what the caller loaded.
LEMMA CapacityPreserved ==
    ASSUME IInv, [Next]_vars
    PROVE  CapacityInv'
<1> USE DEF IInv
<1>1. CASE UNCHANGED vars
  BY <1>1 DEF vars, CapacityInv, WithinCapacity, NoLostReservation, Agent
<1>2. ASSUME NEW c \in Callers, Invoke(c)
      PROVE  CapacityInv'
  BY <1>2 DEF TypeOK, Invoke, CapacityInv, WithinCapacity, NoLostReservation, Agent
<1>3. ASSUME NEW c \in Callers, CheckPolicy(c)
      PROVE  CapacityInv'
  BY <1>3 DEF TypeOK, CheckPolicy, Answer, CapacityInv, WithinCapacity, NoLostReservation, Agent
<1>4. ASSUME NEW c \in Callers, Load(c)
      PROVE  CapacityInv'
  <2>1. call[c].op # "check_only" => call[c].op = "try_reserve"
    BY <1>4, CallFields DEF Load, Calls, Ops
  <2> QED
    BY <1>4, <2>1 DEF TypeOK, Load, Answer, CapacityInv, WithinCapacity, NoLostReservation, Agent
<1>5. ASSUME NEW c \in Callers, CasSucceed(c)
      PROVE  CapacityInv'
  <2>1. Agent(c) \in Agents /\ call[c].magnitude \in Magnitudes
    BY <1>5, CallFields DEF CasSucceed
  <2>2. current[c] + call[c].magnitude <= MaxCapacity[Agent(c)]
    BY <1>5, <2>1, FitsBounds DEF TypeOK, CapacityInv, CasSucceed
  <2>3. WithinCapacity' /\ NoLostReservation'
    BY <1>5, <2>1, <2>2 DEF TypeOK, CasSucceed, CapacityInv, WithinCapacity, NoLostReservation
  <2> QED
    BY <1>5, <2>3 DEF TypeOK, CasSucceed, Answer, CapacityInv, Agent
<1>6. ASSUME NEW c \in Callers, CasFail(c)
      PROVE  CapacityInv'
  BY <1>6 DEF TypeOK, CasFail, CapacityInv, WithinCapacity, NoLostReservation, Agent
<1>7. ASSUME NEW c \in Callers, Return(c)
      PROVE  CapacityInv'
  BY <1>7 DEF TypeOK, Return, CapacityInv, WithinCapacity, NoLostReservation, Agent
<1> QED
  BY <1>1, <1>2, <1>3, <1>4, <1>5, <1>6, <1>7 DEF Next

LEMMA IInvInvariant == Spec => []IInv
<1>1. IInv /\ [Next]_vars => IInv'
  BY TypePreserved, CapacityPreserved DEF IInv
<1> QED
  BY InitIInv, <1>1, PTL DEF Spec

\* The variables keep their types; in particular the 64-bit counter never
\* leaves its range, whatever the budget.
THEOREM TypeCorrect == Spec => []TypeOK
<1>1. IInv => TypeOK
  BY DEF IInv
<1> QED
  BY IInvInvariant, <1>1, PTL

\* No interleaving of try_reserve calls takes an agent past its max_capacity.
THEOREM CapacityBound == Spec => []WithinCapacity
<1>1. IInv => WithinCapacity
  BY DEF IInv, CapacityInv
<1> QED
  BY IInvInvariant, <1>1, PTL

\* The counter is exactly the sum of the authorized magnitudes: the
\* compare-exchange loop loses no reservation and charges none twice.
THEOREM ReservationsCounted == Spec => []NoLostReservation
<1>1. IInv => NoLostReservation
  BY DEF IInv, CapacityInv
<1> QED
  BY IInvInvariant, <1>1, PTL

-------------------------------------------------------------------------------
(* Refinement of CapacityBudget *)

LEMMA InitRefines == Init => Budget!Init
  BY DEF Init, Budget!Init, OutcomeOf, NoCall, Budget!NoCall

\* The instance sees the same calls, policies and verdicts.
LEMMA SameVocabulary ==
    /\ Budget!Calls = Calls
    /\ Budget!NoCall = NoCall
    /\ Budget!Verdicts = Verdicts
    /\ \A a, d, m : Budget!PolicyAdmits(a, d, m) <=> PolicyAdmits(a, d, m)
  BY DEF Calls, Budget!Calls, Ops, Budget!Ops, NoCall, Budget!NoCall, Verdicts, Budget!Verdicts,
         PolicyAdmits, Budget!PolicyAdmits

\* A caller's step changes its own outcome and no other.
LEMMA OutcomeStep ==
    ASSUME TypeOK, NEW c \in Callers,
           \E v : pc' = [pc EXCEPT ![c] = v],
           verdict' = verdict \/ \E v : verdict' = [verdict EXCEPT ![c] = v]
    PROVE  [d \in Callers |-> OutcomeOf(d)]'
             = [[d \in Callers |-> OutcomeOf(d)] EXCEPT ![c] = OutcomeOf(c)']
<1>1. \A d \in Callers \ {c} : OutcomeOf(d)' = OutcomeOf(d)
  BY DEF TypeOK, OutcomeOf
<1> QED
  BY <1>1

\* A reservation that finds room is granted by the budget, and one that does
\* not is denied by it: the overflow check never decides on its own, because
\* a budget is itself a word.
LEMMA FitsIsRoom ==
    ASSUME TypeOK, NEW c \in Callers, pc[c] # "idle",
           PolicyAdmits(Agent(c), call[c].domain, call[c].magnitude)
    PROVE  Budget!Granted(call[c]) <=> Fits(Agent(c), capacity[Agent(c)], call[c].magnitude)
<1>1. /\ Agent(c) \in Agents
      /\ call[c].magnitude \in Nat
  BY CallFields
<1>2. capacity[Agent(c)] \in Nat /\ MaxCapacity[Agent(c)] \in 0..MaxWord /\ MaxWord \in Nat
  BY <1>1, ConstantsAssumption DEF TypeOK, Word
<1> QED
  BY <1>1, <1>2, SameVocabulary DEF Fits, Budget!Granted, Budget!HasRoom, Agent

\* Each step of the loop is a step of the budget or changes nothing it sees.
LEMMA StepRefines ==
    ASSUME IInv, IInv', [Next]_vars
    PROVE  [Budget!Next]_(Budget!vars)
<1> USE DEF IInv
<1>1. CASE UNCHANGED vars
  BY <1>1 DEF vars, Budget!vars, OutcomeOf
<1>2. ASSUME NEW c \in Callers, Invoke(c)
      PROVE  Budget!Invoke(c)
  <2>1. OutcomeOf(c) = "idle" /\ OutcomeOf(c)' = "pending"
    BY <1>2 DEF TypeOK, Invoke, OutcomeOf
  <2> QED
    BY <1>2, <2>1, OutcomeStep, SameVocabulary DEF Invoke, Budget!Invoke
<1>3. ASSUME NEW c \in Callers, CheckPolicy(c)
      PROVE  Budget!Deny(c) \/ UNCHANGED Budget!vars
  <2>1. OutcomeOf(c) = "pending"
    BY <1>3 DEF CheckPolicy, OutcomeOf
  <2>2. CASE PolicyAdmits(Agent(c), call[c].domain, call[c].magnitude)
    BY <1>3, <2>2 DEF TypeOK, CheckPolicy, OutcomeOf, Budget!vars
  <2>3. CASE ~PolicyAdmits(Agent(c), call[c].domain, call[c].magnitude)
    <3>1. OutcomeOf(c)' = "Impossible"
      BY <1>3, <2>3 DEF TypeOK, CheckPolicy, Answer, OutcomeOf
    <3>2. ~Budget!Granted(call[c])
      BY <2>3, SameVocabulary DEF Budget!Granted, Agent
    <3> QED
      BY <1>3, <2>1, <2>3, <3>1, <3>2, OutcomeStep DEF CheckPolicy, Answer, Budget!Deny
  <2> QED
    BY <2>2, <2>3
<1>4. ASSUME NEW c \in Callers, Load(c)
      PROVE  Budget!Deny(c) \/ Budget!Grant(c) \/ UNCHANGED Budget!vars
  <2> DEFINE fits == Fits(Agent(c), capacity[Agent(c)], call[c].magnitude)
  <2>1. OutcomeOf(c) = "pending" /\ current'[c] = capacity[Agent(c)]
    BY <1>4 DEF TypeOK, Load, OutcomeOf
  <2>2. Budget!Granted(call[c]) <=> fits
    BY <1>4, FitsIsRoom DEF Load, CapacityInv
  <2>3. CASE ~fits
    <3>1. Answer(c, "Impossible")
      BY <1>4, <2>1, <2>3 DEF Load
    <3>2. OutcomeOf(c)' = "Impossible"
      BY <3>1 DEF TypeOK, Answer, OutcomeOf
    <3> QED
      BY <1>4, <2>1, <2>2, <2>3, <3>1, <3>2, OutcomeStep DEF Load, Answer, Budget!Deny
  <2>4. CASE fits /\ call[c].op = "check_only"
    <3>1. Answer(c, "Authorized")
      BY <1>4, <2>1, <2>4 DEF Load
    <3>2. OutcomeOf(c)' = "Authorized"
      BY <3>1 DEF TypeOK, Answer, OutcomeOf
    <3> QED
      BY <1>4, <2>1, <2>2, <2>4, <3>1, <3>2, OutcomeStep DEF Load, Answer, Budget!Grant
  <2>5. CASE fits /\ call[c].op # "check_only"
    BY <1>4, <2>1, <2>5 DEF TypeOK, Load, OutcomeOf, Budget!vars
  <2> QED
    BY <2>3, <2>4, <2>5
<1>5. ASSUME NEW c \in Callers, CasSucceed(c)
      PROVE  Budget!Grant(c)
  <2>1. OutcomeOf(c) = "pending" /\ OutcomeOf(c)' = "Authorized"
    BY <1>5 DEF TypeOK, CasSucceed, Answer, OutcomeOf
  <2>2. Budget!Granted(call[c]) /\ call[c].op = "try_reserve"
    BY <1>5, FitsIsRoom DEF CasSucceed, CapacityInv
  <2>3. capacity' = [capacity EXCEPT ![call[c].agent] = @ + call[c].magnitude]
    BY <1>5 DEF CasSucceed, Agent
  <2> QED
    BY <1>5, <2>1, <2>2, <2>3, OutcomeStep DEF CasSucceed, Answer, Budget!Grant
<1>6. ASSUME NEW c \in Callers, CasFail(c)
      PROVE  UNCHANGED Budget!vars
  BY <1>6 DEF TypeOK, CasFail, OutcomeOf, Budget!vars
<1>7. ASSUME NEW c \in Callers, Return(c)
      PROVE  Budget!Return(c)
  <2>1. OutcomeOf(c) \in Verdicts /\ OutcomeOf(c)' = "idle"
    BY <1>7 DEF TypeOK, Return, OutcomeOf
  <2> QED
    BY <1>7, <2>1, OutcomeStep, SameVocabulary DEF Return, Budget!Return
<1> QED
  BY <1>1, <1>2, <1>3, <1>4, <1>5, <1>6, <1>7 DEF Next, Budget!Next

\* The authorizer of the code implements the indivisible budget.
THEOREM BudgetRefinement == Spec => ImplementsBudget
<1>1. IInv /\ IInv' /\ [Next]_vars => [Budget!Next]_(Budget!vars)
  BY StepRefines
<1> QED
  BY InitRefines, IInvInvariant, <1>1, PTL DEF Spec, ImplementsBudget, Budget!Spec
================================================================================
