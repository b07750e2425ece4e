---------------------------- MODULE MCFileActuator ----------------------------
(* A short and a long text, a plain target and one named like a temporary file. *)
EXTENDS FileActuator, TLC

CONSTANTS h1, h2, p1, p2, short, long

MCLen == short :> 1 @@ long :> 2

HandlerSymmetry == Permutations(Callers)
================================================================================
