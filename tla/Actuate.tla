-------------------------------- MODULE Actuate --------------------------------
(***************************************************************************)
(* The actions that a handler awaits: actuate of safa-core/src/pipeline.rs *)
(* dispatches on the canonical action to shell_exec or to http_request,    *)
(* each under a timeout of its own.                                        *)
(***************************************************************************)
EXTENDS ShellActuator, HttpActuator

VARIABLE kind    \* the canonical action

actuateVars == <<vars, httpVars, kind>>

Kinds == {"shell_exec", "http_request"}

ActuateInit == Init /\ HttpInit /\ kind \in Kinds

\* A step of the actuator that was dispatched to.
Shell(A) == kind = "shell_exec" /\ A /\ UNCHANGED <<httpVars, kind>>
Http(A) == kind = "http_request" /\ A /\ UNCHANGED <<vars, kind>>

ActuateNext == Shell(Next) \/ Http(HttpNext)

ActuateSpec == ActuateInit /\ [][ActuateNext]_actuateVars

(***************************************************************************)
(* Timers fire, the executor polls a future that is ready, and the kernel  *)
(* ends a killed process.  Nothing is assumed of the programs that an      *)
(* intent runs (they may hang, fork, ignore SIGTERM or keep a pipe, and no *)
(* read need happen) or of a server: a call of http_request goes on at the *)
(* latest when its timeout has passed.                                     *)
(***************************************************************************)
ActuateFairSpec ==
    /\ ActuateSpec
    /\ WF_actuateVars(Shell(Spawn \/ SpawnFails))
    /\ WF_actuateVars(Shell(Collect \/ Terminate))
    /\ WF_actuateVars(Shell(KillGroup))
    /\ WF_actuateVars(Shell(Reap))
    /\ WF_actuateVars(Shell(Die(Child)))
    /\ WF_actuateVars(Http(HttpRequest))

-------------------------------------------------------------------------------
(* Properties *)

\* An awaited action ends, whatever it met: a child that ignores SIGTERM or hangs,
\* a descendant that keeps a pipe open; redirects without end, a server that is
\* silent in the middle of a body.
ActuationEnds ==
    <>(IF kind = "shell_exec" THEN pc \in {"returned", "dropped"}
                              ELSE hpc \in {"returned", "dropped"})
===============================================================================
