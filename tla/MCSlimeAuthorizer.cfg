CONSTANTS
    c1 = c1
    c2 = c2
    c3 = c3
    a1 = a1
    a2 = a2
    Callers = {c1, c2, c3}
    Agents = {a1}
    Domains <- MCDomains
    Policies <- MCPolicies
    MaxCapacity <- MCMaxCapacity
    Magnitudes <- MCTwoMagnitudes
    MaxWord = 4
SPECIFICATION FairSpec
INVARIANTS
    WithinCapacity
    NoLostReservation
PROPERTIES
    ImplementsBudget
    EveryCallIsAnswered
