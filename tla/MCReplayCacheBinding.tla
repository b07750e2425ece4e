------------------------- MODULE MCReplayCacheBinding -------------------------
(* A small instance of ReplayCacheBinding: two spellings of one envelope. *)
EXTENDS ReplayCacheBinding

CONSTANTS h1, h2, k1, k2, x1

TwoSpellings == [h \in Headers |-> h1]

SignedAtZero == [e \in Envelopes |-> 0]
================================================================================
