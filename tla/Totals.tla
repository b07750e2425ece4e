--------------------------------- MODULE Totals ---------------------------------
(***************************************************************************)
(* Sums of natural numbers, as cardinalities.  A sum over a set is         *)
(* elsewhere a recursion over the set, about which nothing can be proved   *)
(* without induction; of cardinalities the library knows what it takes.    *)
(***************************************************************************)
EXTENDS Integers, FiniteSets

\* As many units of each x as f[x] says.
Units(f) == UNION {{x} \X (1..f[x]) : x \in DOMAIN f}

\* The sum of f[x] over all x.
Total(f) == Cardinality(Units(f))
================================================================================
