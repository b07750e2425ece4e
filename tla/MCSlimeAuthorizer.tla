-------------------------- MODULE MCSlimeAuthorizer --------------------------
(* A small instance of SlimeAuthorizer: one enabled domain, one disabled, and *)
(* one that the policies do not name.  The counter's type is only just wide   *)
(* enough for the budget, so that an addition can overflow it.                *)
EXTENDS SlimeAuthorizer, TLC

CONSTANTS c1, c2, c3, a1, a2

MCPolicies ==
    [a \in Agents |->
        ("on"  :> [enabled |-> TRUE,  maxMagnitude |-> 2]) @@
        ("off" :> [enabled |-> FALSE, maxMagnitude |-> 3])]

MCDomains == {"on", "off", "absent"}

MCMaxCapacity == [a \in Agents |-> 3]

MCTwoMagnitudes == {1, 2}
================================================================================
