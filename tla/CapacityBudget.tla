---------------------------- MODULE CapacityBudget ----------------------------
(***************************************************************************)
(* What an authorizer promises its callers, whatever the interleaving of   *)
(* its atomic instructions: every call takes effect in one indivisible     *)
(* step.  A reservation is granted exactly when the policy admits it and   *)
(* the budget still has room at that instant; a granted reservation is     *)
(* charged in full, and a denied one or a dry run charges nothing.         *)
(***************************************************************************)
EXTENDS Authorizer

VARIABLES
    used,      \* used[a]: capacity charged to agent a in this session
    call,      \* call[c]: the call c is making
    outcome    \* outcome[c]: "idle", "pending", or the verdict of call[c]

vars == <<used, call, outcome>>

HasRoom(a, m) == used[a] + m <= MaxCapacity[a]

Granted(k) == PolicyAdmits(k.agent, k.domain, k.magnitude) /\ HasRoom(k.agent, k.magnitude)

Init ==
    /\ used = [a \in Agents |-> 0]
    /\ call = [c \in Callers |-> NoCall]
    /\ outcome = [c \in Callers |-> "idle"]

Invoke(c) ==
    /\ outcome[c] = "idle"
    /\ \E k \in Calls : call' = [call EXCEPT ![c] = k]
    /\ outcome' = [outcome EXCEPT ![c] = "pending"]
    /\ UNCHANGED used

Grant(c) ==
    /\ outcome[c] = "pending"
    /\ Granted(call[c])
    /\ outcome' = [outcome EXCEPT ![c] = "Authorized"]
    /\ used' = IF call[c].op = "try_reserve"
               THEN [used EXCEPT ![call[c].agent] = @ + call[c].magnitude]
               ELSE used
    /\ UNCHANGED call

Deny(c) ==
    /\ outcome[c] = "pending"
    /\ ~Granted(call[c])
    /\ outcome' = [outcome EXCEPT ![c] = "Impossible"]
    /\ UNCHANGED <<used, call>>

Return(c) ==
    /\ outcome[c] \in Verdicts
    /\ outcome' = [outcome EXCEPT ![c] = "idle"]
    /\ call' = [call EXCEPT ![c] = NoCall]
    /\ UNCHANGED used

Next == \E c \in Callers : Invoke(c) \/ Grant(c) \/ Deny(c) \/ Return(c)

Spec == Init /\ [][Next]_vars
================================================================================
