----------------------------- MODULE ShellActuator -----------------------------
(***************************************************************************)
(* One call of shell_exec, safa-core/src/actuator/shell.rs, beside the     *)
(* processes it gives rise to: the child, which leads a process group of   *)
(* its own, and its descendants.                                           *)
(*                                                                         *)
(* The calls of different actions share nothing, as long as the kernel     *)
(* does not reuse a pid while a call holds it; a process never gets an     *)
(* earlier one's pid here.                                                 *)
(***************************************************************************)
EXTENDS Naturals, FiniteSetsExt

CONSTANTS
    NumProcs,    \* bound on the processes of a call (model checking only)
    PipeSize,    \* what the kernel buffers of a stream
    MaxOutput,   \* max_output_bytes
    MaxWritten   \* bound on what is written to a stream (model checking only)

ASSUME ShellAssumption ==
    /\ NumProcs \in Nat \ {0}
    /\ PipeSize \in Nat \ {0}
    /\ MaxOutput \in Nat
    /\ MaxWritten \in Nat

Procs == 1..NumProcs
Child == 1
Streams == {"stdout", "stderr"}

\* A signalled process is "killed", and runs no more, until the kernel is done
\* with it.
ProcStates == {"unborn", "running", "killed", "gone"}

\* An answer carries the child's own end, the timeout's made-up one, or an error.
Outcomes == {"exited", "timed_out", "unavailable"}

\* What shell_exec does next: its awaits are "join", "grace" and "reap".
PCs == {"spawn", "join", "grace", "reap", "returned", "dropped"}

VARIABLES
    pc,
    outcome,     \* "none" until shell_exec returns
    state,       \* state[p]
    group,       \* the processes of the child's process group
    ignores,     \* the processes that outlive a SIGTERM
    writers,     \* writers[s]: the processes with a descriptor of stream s
    pipe,        \* pipe[s]: bytes in the kernel's buffer
    retained,    \* retained[s]: bytes kept by drain_bounded_output
    truncated,   \* truncated[s]: it dropped some
    written      \* history: all that was written to s

call == <<pc, outcome>>
processes == <<state, group, ignores>>
output == <<retained, truncated>>
vars == <<call, processes, writers, pipe, output, written>>

TypeOK ==
    /\ pc \in PCs
    /\ outcome \in Outcomes \cup {"none"}
    /\ state \in [Procs -> ProcStates]
    /\ group \subseteq Procs
    /\ ignores \subseteq Procs
    /\ writers \in [Streams -> SUBSET Procs]
    /\ pipe \in [Streams -> 0..PipeSize]
    /\ retained \in [Streams -> 0..MaxOutput]
    /\ truncated \in [Streams -> BOOLEAN]
    /\ written \in [Streams -> Nat]

Init ==
    /\ pc = "spawn"
    /\ outcome = "none"
    /\ state = [p \in Procs |-> "unborn"]
    /\ group = {}
    /\ ignores = {}
    /\ writers = [s \in Streams |-> {}]
    /\ pipe = [s \in Streams |-> 0]
    /\ retained = [s \in Streams |-> 0]
    /\ truncated = [s \in Streams |-> FALSE]
    /\ written = [s \in Streams |-> 0]

-------------------------------------------------------------------------------
(* The processes: what the kernel lets an intent's program do *)

Running(p) == state[p] = "running"

\* A process forks; its child has its group, its dispositions and its pipes.
Fork(p, q) ==
    /\ Running(p)
    /\ state[q] = "unborn"
    /\ state' = [state EXCEPT ![q] = "running"]
    /\ group' = IF p \in group THEN group \cup {q} ELSE group
    /\ ignores' = IF p \in ignores THEN ignores \cup {q} ELSE ignores
    /\ writers' = [s \in Streams |-> IF p \in writers[s] THEN writers[s] \cup {q} ELSE writers[s]]
    /\ UNCHANGED <<call, pipe, output, written>>

\* A descendant leaves the group (setsid, as a daemon does; its leader cannot).
Escape(p) ==
    /\ Running(p)
    /\ p \in group \ {Child}
    /\ group' = group \ {p}
    /\ UNCHANGED <<call, state, ignores, writers, pipe, output, written>>

IgnoreTerm(p) ==
    /\ Running(p)
    /\ p \notin ignores
    /\ ignores' = ignores \cup {p}
    /\ UNCHANGED <<call, state, group, writers, pipe, output, written>>

CloseStream(p, s) ==
    /\ Running(p)
    /\ p \in writers[s]
    /\ writers' = [writers EXCEPT ![s] = @ \ {p}]
    /\ UNCHANGED <<call, processes, pipe, output, written>>

\* The handles of the pipes are locals of shell_exec.
ReadersOpen == pc \in {"join", "grace", "reap"}

\* A write blocks while the buffer is full.
Write(p, s) ==
    /\ Running(p)
    /\ p \in writers[s]
    /\ ReadersOpen
    /\ pipe[s] < PipeSize
    /\ written[s] < MaxWritten
    /\ pipe' = [pipe EXCEPT ![s] = @ + 1]
    /\ written' = [written EXCEPT ![s] = @ + 1]
    /\ UNCHANGED <<call, processes, writers, output>>

\* The kernel closes the descriptors of a process that ends.
End(p) ==
    /\ state' = [state EXCEPT ![p] = "gone"]
    /\ writers' = [s \in Streams |-> writers[s] \ {p}]
    /\ UNCHANGED <<call, group, ignores, pipe, output, written>>

Exit(p) == Running(p) /\ End(p)
Die(p) == state[p] = "killed" /\ End(p)

\* The processes of S are killed.
Kill(S) == state' = [p \in Procs |-> IF p \in S /\ Running(p) THEN "killed" ELSE state[p]]

-------------------------------------------------------------------------------
(* shell_exec *)

\* spawn, with setpgid(0, 0) in the child, or the error of either.
Spawn ==
    /\ pc = "spawn"
    /\ pc' = "join"
    /\ state' = [state EXCEPT ![Child] = "running"]
    /\ group' = {Child}
    /\ writers' = [s \in Streams |-> {Child}]
    /\ UNCHANGED <<outcome, ignores, pipe, output, written>>

Return(o) == pc' = "returned" /\ outcome' = o

SpawnFails ==
    /\ pc = "spawn"
    /\ Return("unavailable")
    /\ UNCHANGED <<processes, writers, pipe, output, written>>

\* One read of drain_bounded_output: it reads on past the cap, dropping bytes.
Drain(s) ==
    /\ pc = "join"
    /\ \E n \in 1..pipe[s] :
          LET kept == Min({MaxOutput - retained[s], n})
          IN  /\ pipe' = [pipe EXCEPT ![s] = @ - n]
              /\ retained' = [retained EXCEPT ![s] = @ + kept]
              /\ truncated' = [truncated EXCEPT ![s] = @ \/ kept < n]
    /\ UNCHANGED <<call, processes, writers, written>>

\* Mutant: only the child's end is awaited.
ChildEnded == state[Child] = "gone"

\* join!: the child is reaped and both streams are read to their end, which
\* comes when no process holds a descriptor of them.
Joined ==
    /\ state[Child] = "gone"
    /\ \A s \in Streams : pipe[s] = 0 /\ writers[s] = {}

\* The captured output and exit code; or a read error, or output that is not UTF-8.
Collect ==
    /\ pc = "join"
    /\ Joined
    /\ Return("exited") \/ Return("unavailable")
    /\ UNCHANGED <<processes, writers, pipe, output, written>>

\* The timeout passes (it polls the join first): SIGTERM to the group.
Terminate ==
    /\ pc = "join"
    /\ ~Joined
    /\ pc' = "grace"
    /\ Kill(group \ ignores)
    /\ UNCHANGED <<outcome, group, ignores, writers, pipe, output, written>>

\* Mutants: SIGKILL goes to the child alone; SIGTERM is sent twice.
KillChild ==
    /\ pc = "grace"
    /\ pc' = "reap"
    /\ Kill({Child})
    /\ UNCHANGED <<outcome, group, ignores, writers, pipe, output, written>>

TerminateAgain ==
    /\ pc = "grace"
    /\ pc' = "reap"
    /\ Kill(group \ ignores)
    /\ UNCHANGED <<outcome, group, ignores, writers, pipe, output, written>>

\* After the two seconds of grace: SIGKILL to the group.
KillGroup ==
    /\ pc = "grace"
    /\ pc' = "reap"
    /\ Kill(group)
    /\ UNCHANGED <<outcome, group, ignores, writers, pipe, output, written>>

\* child.wait(): the child is reaped, and the captured output forgotten.
Reap ==
    /\ pc = "reap"
    /\ state[Child] = "gone"
    /\ Return("timed_out")
    /\ retained' = [s \in Streams |-> 0]
    /\ truncated' = [s \in Streams |-> FALSE]
    /\ UNCHANGED <<processes, writers, pipe, written>>

\* The future is dropped at an await.  The child was not spawned with
\* kill_on_drop: nothing is signalled any more.
Drop ==
    /\ ReadersOpen
    /\ pc' = "dropped"
    /\ UNCHANGED <<outcome, processes, writers, pipe, output, written>>

-------------------------------------------------------------------------------
ShellExec ==
    \/ Spawn \/ SpawnFails
    \/ \E s \in Streams : Drain(s)
    \/ Collect \/ Terminate \/ KillGroup \/ Reap

Process(p) ==
    \/ \E q \in Procs : Fork(p, q)
    \/ Escape(p) \/ IgnoreTerm(p) \/ Exit(p) \/ Die(p)
    \/ \E s \in Streams : CloseStream(p, s) \/ Write(p, s)

Next == ShellExec \/ Drop \/ \E p \in Procs : Process(p)

Spec == Init /\ [][Next]_vars

-------------------------------------------------------------------------------
(* Properties *)

\* The kill sequence ends the group: once SIGKILL is sent, and so when an action
\* is answered as killed, nothing in the child's process group runs or will run,
\* whatever was forked, and ignored SIGTERM, in between.
GroupIsDead ==
    pc = "reap" \/ outcome = "timed_out" => \A p \in group : ~Running(p)

\* An answer with an exit code tells the whole output: all that anyone in the
\* action wrote, up to the cap, is in it, and it is marked cut exactly if more
\* was written than the cap.
OutputIsComplete ==
    outcome = "exited" =>
        \A s \in Streams :
            /\ retained[s] = Min({written[s], MaxOutput})
            /\ truncated[s] <=> written[s] > MaxOutput
================================================================================
