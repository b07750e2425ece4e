-------------------------- MODULE MCIdempotencyCache --------------------------
(* Small instances of IdempotencyCache. *)
EXTENDS IdempotencyCache, TLC

CONSTANTS k1, k2, k3, t1, t2, t3

\* The keys spread over two shards, so that a purge or a len is interrupted.
MCShardOf == [k \in Keys |-> IF k = k1 THEN 1 ELSE 2]

OneShard == [k \in Keys |-> 1]

ThreadSymmetry == Permutations(Threads)
================================================================================
