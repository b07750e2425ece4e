------------------------------- MODULE MCDaemon -------------------------------
(* A small instance of Daemon. *)
EXTENDS Daemon, TLC

CONSTANTS c1, c2, c3, k1
================================================================================
