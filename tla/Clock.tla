---------------------------------- MODULE Clock ---------------------------------
(***************************************************************************)
(* The clock that the two gates of a request, RateLimiter and ReplayCache, *)
(* read.  Its unit is theirs to say.                                       *)
(***************************************************************************)
EXTENDS Integers

CONSTANT MaxTime   \* bound on the clock (model checking only)

ASSUME ClockAssumption == MaxTime \in Nat

VARIABLE now

Advance ==
    /\ now < MaxTime
    /\ now' = now + 1
================================================================================
