---------------------------- MODULE MCHandleAction ----------------------------
(* Small instances of HandleAction. *)
EXTENDS HandleAction, TLC

CONSTANTS h1, h2, a1, a2, k1, k2, e1

\* a1 has no secret, a2 signs.
MCPolicies == a1 :> ("on" :> [enabled |-> TRUE, maxMagnitude |-> 2])

MixedPolicies == MCPolicies @@ a2 :> ("on" :> [enabled |-> TRUE, maxMagnitude |-> 1])

MCMaxCapacity == a1 :> 3

MixedMaxCapacity == a1 :> 3 @@ a2 :> 1

OneShard == [k \in Keys |-> 1]

Req(a, k, e, b, m) ==
    [agent |-> a, key |-> k, headers |-> e, body |-> b, domain |-> "on", magnitude |-> m]

\* Two keys, actions of both sorts.
Effectful == {Req(a1, k1, Unsigned, "awaited", 2), Req(a1, k2, Unsigned, "file", 1)}

\* Every other sort of body; the signed request is also delivered under another key.
Mixed == {Req(a1, k1, Unsigned, "malformed", 1), Req(a1, k1, Unsigned, "invalid", 1),
          Req(a1, k2, Unsigned, "dry_run", 2),
          Req(a2, k1, e1, "awaited", 1), Req(a2, k2, e1, "awaited", 1)}

(* No window ends within MaxTime, so at most MaxPerWindow actions start: with     *)
(* MaxActions equal to the sum of it that bound never stops a handler.            *)
MCFour == a1 :> 4

MixedPerWindow == a1 :> 1 @@ a2 :> 1

MCWindowSecs == a1 :> 9

MixedWindowSecs == a1 :> 9 @@ a2 :> 9

HandlerSymmetry == Permutations(Callers)
================================================================================
