----------------------------- MODULE ActuateProofs -----------------------------
(* Proofs about Actuate: of a subprocess, for any number of processes, any cap *)
(* and any size of the pipes; of an HTTP exchange, for any URLs, any allowlist *)
(* and any limits.                                                             *)
EXTENDS Actuate, WellFoundedInduction, SequenceTheorems, TLAPS

-------------------------------------------------------------------------------
(* An actuator takes its own steps, whether the action is its own or not. *)

LEMMA ActuatorSteps ==
    ASSUME [ActuateNext]_actuateVars
    PROVE  [Next]_vars /\ [HttpNext]_httpVars
  BY DEF ActuateNext, actuateVars, Shell, Http

LEMMA ActuatorsStart == ActuateInit => Init /\ HttpInit
  BY DEF ActuateInit

\* What drain_bounded_output keeps of a chunk.
LEMMA MinOfTwo ==
    ASSUME NEW a \in Nat, NEW b \in Nat
    PROVE  /\ Min({a, b}) \in Nat
           /\ Min({a, b}) <= a
           /\ Min({a, b}) <= b
<1>1. \E x \in {a, b} : \A y \in {a, b} : x <= y
  <2>1. CASE a <= b
    BY <2>1
  <2>2. CASE b <= a
    BY <2>2
  <2> QED
    BY <2>1, <2>2
<1> QED
  BY <1>1 DEF Min

LEMMA ChildIsProc == Child \in Procs
  BY ShellAssumption DEF Child, Procs

-------------------------------------------------------------------------------
LEMMA InitType == Init => TypeOK
  BY ShellAssumption DEF Init, TypeOK, PCs, ProcStates

\* The steps of the processes keep the types.
LEMMA ProcessType ==
    ASSUME TypeOK, NEW p \in Procs, Process(p)
    PROVE  TypeOK'
<1>1. ASSUME NEW q \in Procs, Fork(p, q)
      PROVE  TypeOK'
  BY <1>1 DEF TypeOK, Fork, Running, ProcStates, call, output
<1>2. CASE Escape(p)
  BY <1>2 DEF TypeOK, Escape, call, output
<1>3. CASE IgnoreTerm(p)
  BY <1>3 DEF TypeOK, IgnoreTerm, call, output
<1>4. CASE Exit(p) \/ Die(p)
  BY <1>4 DEF TypeOK, Exit, Die, End, ProcStates, call, output
<1>5. ASSUME NEW s \in Streams, CloseStream(p, s)
      PROVE  TypeOK'
  BY <1>5 DEF TypeOK, CloseStream, call, processes, output
<1>6. ASSUME NEW s \in Streams, Write(p, s)
      PROVE  TypeOK'
  BY <1>6, ShellAssumption DEF TypeOK, Write, call, processes, output
<1> QED
  BY <1>1, <1>2, <1>3, <1>4, <1>5, <1>6 DEF Process

\* A signal changes nothing but what runs.
LEMMA KillType ==
    ASSUME TypeOK, NEW S, Kill(S)
    PROVE  state' \in [Procs -> ProcStates]
  BY DEF TypeOK, Kill, ProcStates

LEMMA DrainType ==
    ASSUME TypeOK, NEW s \in Streams, Drain(s)
    PROVE  TypeOK'
<1>1. PICK n \in 1..pipe[s] :
          /\ pipe' = [pipe EXCEPT ![s] = @ - n]
          /\ retained' = [retained EXCEPT ![s] = @ + Min({MaxOutput - retained[s], n})]
          /\ truncated' = [truncated EXCEPT ![s] = @ \/ Min({MaxOutput - retained[s], n}) < n]
  BY DEF Drain
<1>2. /\ pipe[s] \in 0..PipeSize
      /\ retained[s] \in 0..MaxOutput
      /\ n \in Nat
      /\ MaxOutput - retained[s] \in Nat
  BY ShellAssumption DEF TypeOK
<1>3. retained[s] + Min({MaxOutput - retained[s], n}) \in 0..MaxOutput
  <2> DEFINE k == Min({MaxOutput - retained[s], n})
  <2>1. k \in Nat /\ k <= MaxOutput - retained[s]
    BY <1>2, MinOfTwo
  <2> HIDE DEF k
  <2>2. retained[s] + k \in 0..MaxOutput
    BY <1>2, <2>1, ShellAssumption
  <2> QED
    BY <2>2 DEF k
<1>4. pipe[s] - n \in 0..PipeSize
  BY <1>1, <1>2, ShellAssumption
<1>5. retained' \in [Streams -> 0..MaxOutput] /\ pipe' \in [Streams -> 0..PipeSize]
  BY <1>1, <1>3, <1>4 DEF TypeOK
<1>6. truncated' \in [Streams -> BOOLEAN]
  BY <1>1 DEF TypeOK
<1> QED
  BY <1>5, <1>6 DEF TypeOK, Drain, call, processes

\* The steps of shell_exec keep the types.
LEMMA ShellExecType ==
    ASSUME TypeOK, ShellExec
    PROVE  TypeOK'
<1>1. CASE Spawn
  BY <1>1, ChildIsProc DEF TypeOK, Spawn, PCs, ProcStates, output
<1>2. CASE SpawnFails \/ Collect
  BY <1>2 DEF TypeOK, SpawnFails, Collect, Return, PCs, Outcomes, processes, output
<1>3. ASSUME NEW s \in Streams, Drain(s)
      PROVE  TypeOK'
  BY <1>3, DrainType
<1>4. CASE Terminate \/ KillGroup
  <2>1. state' \in [Procs -> ProcStates]
    BY <1>4, KillType DEF Terminate, KillGroup
  <2> QED
    BY <1>4, <2>1 DEF TypeOK, Terminate, KillGroup, PCs, output
<1>5. CASE Reap
  BY <1>5, ShellAssumption DEF TypeOK, Reap, Return, PCs, Outcomes, processes
<1> QED
  BY <1>1, <1>2, <1>3, <1>4, <1>5 DEF ShellExec

\* TypeOK holds for every number of processes and every cap: what is retained
\* of a stream never exceeds max_output_bytes.
THEOREM TypeCorrect == ActuateSpec => []TypeOK
<1>1. TypeOK /\ [Next]_vars => TypeOK'
  <2> SUFFICES ASSUME TypeOK, [Next]_vars
               PROVE  TypeOK'
    OBVIOUS
  <2>1. CASE ShellExec
    BY <2>1, ShellExecType
  <2>2. CASE Drop
    BY <2>2 DEF TypeOK, Drop, PCs, processes, output
  <2>3. ASSUME NEW p \in Procs, Process(p)
        PROVE  TypeOK'
    BY <2>3, ProcessType
  <2>4. CASE UNCHANGED vars
    BY <2>4 DEF TypeOK, vars, call, processes, output
  <2> QED
    BY <2>1, <2>2, <2>3, <2>4 DEF Next
<1>2. TypeOK /\ [ActuateNext]_actuateVars => TypeOK'
  BY <1>1, ActuatorSteps
<1> QED
  BY <1>2, InitType, ActuatorsStart, PTL DEF ActuateSpec

-------------------------------------------------------------------------------
(* The kill sequence ends the group.                                       *)

\* GroupIsDead is inductive beside two facts: an answer ends the call, and the
\* members of the group were born, so that no fork can start one of them.
KilledInv ==
    /\ GroupIsDead
    /\ outcome # "none" => pc = "returned"
    /\ \A p \in group : state[p] # "unborn"

\* A process forks into the group only from the group.
LEMMA ProcessKeepsGroupDead ==
    ASSUME TypeOK, KilledInv, NEW p \in Procs, Process(p)
    PROVE  KilledInv'
<1>1. ASSUME NEW q \in Procs, Fork(p, q)
      PROVE  KilledInv'
  <2>1. /\ state' = [state EXCEPT ![q] = "running"]
        /\ group' = IF p \in group THEN group \cup {q} ELSE group
        /\ UNCHANGED <<pc, outcome>>
        /\ state[p] = "running" /\ state[q] = "unborn"
    BY <1>1 DEF Fork, Running, call
  <2>2. ASSUME pc = "reap" \/ outcome = "timed_out", NEW r \in group'
        PROVE  state'[r] # "running"
    <3>1. p \notin group
      BY <2>1, <2>2 DEF KilledInv, GroupIsDead, Running
    <3>2. group' = group
      BY <2>1, <3>1
    <3>3. r # q
      BY <2>1, <2>2, <3>2 DEF KilledInv
    <3> QED
      BY <2>1, <2>2, <3>2, <3>3 DEF TypeOK, KilledInv, GroupIsDead, Running
  <2>3. \A r \in group' : state'[r] # "unborn"
    BY <2>1 DEF TypeOK, KilledInv
  <2> QED
    BY <2>1, <2>2, <2>3 DEF KilledInv, GroupIsDead, Running
<1>2. CASE Escape(p)
  BY <1>2 DEF TypeOK, KilledInv, GroupIsDead, Running, Escape, call
<1>3. CASE IgnoreTerm(p)
  BY <1>3 DEF TypeOK, KilledInv, GroupIsDead, Running, IgnoreTerm, call
<1>4. CASE Exit(p) \/ Die(p)
  BY <1>4 DEF TypeOK, KilledInv, GroupIsDead, Running, Exit, Die, End, call
<1>5. ASSUME NEW s \in Streams, CloseStream(p, s) \/ Write(p, s)
      PROVE  KilledInv'
  BY <1>5 DEF KilledInv, GroupIsDead, Running, CloseStream, Write, call, processes
<1> QED
  BY <1>1, <1>2, <1>3, <1>4, <1>5 DEF Process

\* GroupIsDead holds whatever the processes do between the two signals.
THEOREM GroupKilled == ActuateSpec => []GroupIsDead
<1>1. Init => KilledInv
  BY DEF Init, KilledInv, GroupIsDead
<1>2. TypeOK /\ KilledInv /\ [Next]_vars => KilledInv'
  <2> SUFFICES ASSUME TypeOK, KilledInv, [Next]_vars
               PROVE  KilledInv'
    OBVIOUS
  <2>1. CASE Spawn
    BY <2>1, ChildIsProc DEF TypeOK, KilledInv, GroupIsDead, Spawn
  <2>2. CASE SpawnFails \/ Collect
    BY <2>2 DEF KilledInv, GroupIsDead, SpawnFails, Collect, Return, processes
  <2>3. CASE Terminate
    <3>1. \A p \in group : state'[p] # "unborn"
      BY <2>3 DEF TypeOK, KilledInv, Terminate, Kill, Running
    <3> QED
      BY <2>3, <3>1 DEF KilledInv, GroupIsDead, Terminate
  <2>4. ASSUME NEW s \in Streams, Drain(s)
        PROVE  KilledInv'
    BY <2>4 DEF KilledInv, GroupIsDead, Running, Drain, call, processes
  <2>5. CASE KillGroup
    <3>1. \A p \in group : state'[p] \notin {"unborn", "running"}
      BY <2>5 DEF TypeOK, KilledInv, KillGroup, Kill, Running
    <3> QED
      BY <2>5, <3>1 DEF KilledInv, GroupIsDead, Running, KillGroup
  <2>6. CASE Reap
    BY <2>6 DEF KilledInv, GroupIsDead, Running, Reap, Return, processes
  <2>7. CASE Drop
    BY <2>7 DEF KilledInv, GroupIsDead, Running, Drop, ReadersOpen, processes
  <2>8. ASSUME NEW p \in Procs, Process(p)
        PROVE  KilledInv'
    BY <2>8, ProcessKeepsGroupDead
  <2>9. CASE UNCHANGED vars
    BY <2>9 DEF KilledInv, GroupIsDead, Running, vars, call, processes
  <2> QED
    BY <2>1, <2>2, <2>3, <2>4, <2>5, <2>6, <2>7, <2>8, <2>9 DEF Next, ShellExec
<1>3. KilledInv => GroupIsDead
  BY DEF KilledInv
<1>4. TypeOK /\ KilledInv /\ [ActuateNext]_actuateVars => KilledInv'
  BY <1>2, ActuatorSteps
<1> QED
  BY <1>1, <1>3, <1>4, ActuatorsStart, TypeCorrect, PTL DEF ActuateSpec

-------------------------------------------------------------------------------
(* Captured output                                                         *)

LEMMA SmallerOfTwo ==
    ASSUME NEW a \in Int, NEW b \in Int
    PROVE  Min({a, b}) = IF a <= b THEN a ELSE b
<1>1. \A x \in {a, b} : (\A y \in {a, b} : x <= y) => x = IF a <= b THEN a ELSE b
  OBVIOUS
<1>2. \E x \in {a, b} : \A y \in {a, b} : x <= y
  <2>1. CASE a <= b
    BY <2>1
  <2>2. CASE b <= a
    BY <2>2
  <2> QED
    BY <2>1, <2>2
<1> QED
  BY <1>1, <1>2 DEF Min

\* Of what was written to a stream, some is in its pipe, and the rest was read: kept
\* up to the cap, and marked cut beyond it.
Captured(w, p, r, t) ==
    /\ p <= w
    /\ r = IF w - p <= MaxOutput THEN w - p ELSE MaxOutput
    /\ t <=> w - p > MaxOutput

OutputInv ==
    /\ pc \in {"spawn", "join", "grace"} =>
          \A s \in Streams : Captured(written[s], pipe[s], retained[s], truncated[s])
    /\ outcome = "exited" =>
          /\ pc = "returned"
          /\ \A s \in Streams : pipe[s] = 0 /\ Captured(written[s], 0, retained[s], truncated[s])
    /\ outcome # "none" => pc = "returned"

\* A read takes n bytes from the pipe; a write puts one there.
LEMMA ReadCaptures ==
    ASSUME NEW w \in Nat, NEW p \in Nat, NEW r \in 0..MaxOutput, NEW t \in BOOLEAN,
           Captured(w, p, r, t), NEW n \in 1..p
    PROVE  LET kept == Min({MaxOutput - r, n})
           IN  Captured(w, p - n, r + kept, t \/ kept < n)
<1>1. MaxOutput \in Nat /\ n \in Nat /\ r \in Nat
  BY ShellAssumption
<1>2. Min({MaxOutput - r, n}) = IF MaxOutput - r <= n THEN MaxOutput - r ELSE n
  BY <1>1, SmallerOfTwo
<1>3. p - n <= w
  BY <1>1 DEF Captured
<1>4. CASE w - p <= MaxOutput
  BY <1>1, <1>2, <1>3, <1>4 DEF Captured
<1>5. CASE w - p > MaxOutput
  BY <1>1, <1>2, <1>3, <1>5 DEF Captured
<1> QED
  BY <1>1, <1>4, <1>5

LEMMA WriteCaptures ==
    ASSUME NEW w \in Nat, NEW p \in Nat, NEW r, NEW t, Captured(w, p, r, t)
    PROVE  Captured(w + 1, p + 1, r, t)
<1>1. (w + 1) - (p + 1) = w - p /\ p + 1 <= w + 1
  BY DEF Captured
<1> QED
  BY <1>1 DEF Captured

LEMMA OutputPreserved ==
    ASSUME TypeOK, OutputInv, [Next]_vars
    PROVE  OutputInv'
<1>1. CASE UNCHANGED vars
  BY <1>1 DEF vars, call, output, OutputInv
<1>2. ASSUME NEW s \in Streams, Drain(s)
      PROVE  OutputInv'
  <2>1. PICK n \in 1..pipe[s] :
          /\ pipe' = [pipe EXCEPT ![s] = @ - n]
          /\ retained' = [retained EXCEPT ![s] = @ + Min({MaxOutput - retained[s], n})]
          /\ truncated' = [truncated EXCEPT ![s] = @ \/ Min({MaxOutput - retained[s], n}) < n]
    BY <1>2 DEF Drain
  <2>2. pc = "join" /\ UNCHANGED <<pc, outcome, written>>
    BY <1>2 DEF Drain, call
  <2>3. Captured(written[s], pipe[s] - n, retained[s] + Min({MaxOutput - retained[s], n}),
                 truncated[s] \/ Min({MaxOutput - retained[s], n}) < n)
    BY <2>2, ReadCaptures DEF TypeOK, OutputInv
  <2>4. Captured(written'[s], pipe'[s], retained'[s], truncated'[s])
    BY <2>1, <2>2, <2>3 DEF TypeOK
  <2>5. \A q \in Streams \ {s} :
           pipe'[q] = pipe[q] /\ retained'[q] = retained[q] /\ truncated'[q] = truncated[q]
    BY <2>1 DEF TypeOK
  <2> QED
    BY <2>2, <2>4, <2>5 DEF OutputInv
<1>3. ASSUME NEW p \in Procs, NEW s \in Streams, Write(p, s)
      PROVE  OutputInv'
  <2>1. /\ ReadersOpen /\ UNCHANGED <<pc, outcome, retained, truncated>>
        /\ pipe' = [pipe EXCEPT ![s] = @ + 1]
        /\ written' = [written EXCEPT ![s] = @ + 1]
    BY <1>3 DEF Write, call, output
  <2>2. Captured(written[s], pipe[s], retained[s], truncated[s]) =>
          Captured(written'[s], pipe'[s], retained[s], truncated[s])
    BY <2>1, WriteCaptures DEF TypeOK
  <2>3. \A q \in Streams \ {s} : pipe'[q] = pipe[q] /\ written'[q] = written[q]
    BY <2>1 DEF TypeOK
  <2>4. outcome = "none"
    BY <2>1 DEF OutputInv, ReadersOpen
  <2> QED
    BY <2>1, <2>2, <2>3, <2>4 DEF OutputInv
<1>4. ASSUME NEW p \in Procs, ~\E s \in Streams : Write(p, s), Process(p)
      PROVE  OutputInv'
  <2>1. UNCHANGED <<pc, outcome, pipe, retained, truncated, written>>
    BY <1>4 DEF Process, Fork, Escape, IgnoreTerm, Exit, Die, End, CloseStream, call, output
  <2> QED
    BY <2>1 DEF OutputInv
<1>5. CASE Collect
  BY <1>5 DEF Collect, Return, Joined, OutputInv, output
<1>6. CASE Spawn \/ Terminate
  BY <1>6 DEF Spawn, Terminate, OutputInv, output
<1>7. CASE SpawnFails \/ KillGroup \/ Drop
  BY <1>7 DEF SpawnFails, KillGroup, Drop, Return, OutputInv, output, ReadersOpen
<1>8. CASE Reap
  BY <1>8 DEF Reap, Return, OutputInv
<1> QED
  BY <1>1, <1>2, <1>3, <1>4, <1>5, <1>6, <1>7, <1>8 DEF Next, ShellExec

\* An answer with an exit code holds all that was written to either stream, up to the
\* cap, and says whether it was cut.
THEOREM CompleteOutput == ActuateSpec => []OutputIsComplete
<1>1. ActuateInit => OutputInv
  BY ShellAssumption DEF ActuateInit, Init, OutputInv, Captured
<1>2. TypeOK /\ OutputInv /\ [ActuateNext]_actuateVars => OutputInv'
  BY OutputPreserved, ActuatorSteps
<1>3. TypeOK /\ OutputInv => OutputIsComplete
  <2> SUFFICES ASSUME TypeOK, OutputInv, outcome = "exited", NEW s \in Streams
               PROVE  /\ retained[s] = Min({written[s], MaxOutput})
                      /\ truncated[s] <=> written[s] > MaxOutput
    BY DEF OutputIsComplete
  <2>1. Captured(written[s], 0, retained[s], truncated[s])
    BY DEF OutputInv
  <2>2. written[s] \in Nat /\ MaxOutput \in Nat
    BY ShellAssumption DEF TypeOK
  <2>3. Min({written[s], MaxOutput}) = IF written[s] <= MaxOutput THEN written[s] ELSE MaxOutput
    BY <2>2, SmallerOfTwo
  <2> QED
    BY <2>1, <2>2, <2>3 DEF Captured
<1> QED
  BY <1>1, <1>2, <1>3, TypeCorrect, PTL DEF ActuateSpec

-------------------------------------------------------------------------------
(* Host names                                                              *)

\* n is where the host name at the head of u has ended.
EndsAt(u, n) ==
    /\ n \in 1..(Len(u) + 1)
    /\ n # Len(u) + 1 => u[n] \in Boundaries
    /\ \A i \in 1..(n - 1) : u[i] \notin Boundaries

LEMMA HostEnd ==
    ASSUME NEW u \in Seq(Pieces), NEW n, EndsAt(u, n)
    PROVE  Host(u) = SubSeq(u, 1, n - 1)
<1> DEFINE ends == {i \in DOMAIN u : u[i] \in Boundaries} \cup {Len(u) + 1}
<1>1. Len(u) \in Nat /\ DOMAIN u = 1..Len(u)
  BY LenProperties
<1>2. n \in ends /\ \A m \in ends : n <= m
  BY <1>1 DEF EndsAt
<1>3. \A m \in ends : m \in Int
  BY <1>1
<1> HIDE DEF ends
<1>4. Min(ends) = n
  <2>1. \A m \in ends : (\A y \in ends : m <= y) => m = n
    BY <1>2, <1>3
  <2> QED
    BY <1>2, <2>1 DEF Min
<1> QED
  BY <1>4 DEF Host, Before, ends

LEMMA LeastNumber ==
    ASSUME NEW S \in SUBSET Nat, S # {}
    PROVE  \E n \in S : \A m \in S : n <= m
<1> DEFINE less == OpToRel(<, Nat)
<1>1. IsWellFoundedOn(less, Nat)
  BY NatLessThanWellFounded
<1>2. \A x, y \in Nat : x < y => <<x, y>> \in less
  BY DEF OpToRel
<1> HIDE DEF less
<1>3. PICK n \in S : \A m \in S : ~(<<m, n>> \in less)
  BY <1>1, WFMin
<1>4. \A m \in S : ~(m < n)
  BY <1>2, <1>3
<1> QED
  BY <1>4

LEMMA HostEnds ==
    ASSUME NEW u \in Seq(Pieces)
    PROVE  \E n : EndsAt(u, n)
<1> DEFINE ends == {i \in DOMAIN u : u[i] \in Boundaries} \cup {Len(u) + 1}
<1>1. Len(u) \in Nat /\ DOMAIN u = 1..Len(u)
  BY LenProperties
<1>2. ends \in SUBSET Nat /\ ends # {}
  BY <1>1
<1>3. PICK n \in ends : \A m \in ends : n <= m
  BY <1>2, LeastNumber
<1>4. \A i \in 1..(n - 1) : u[i] \notin Boundaries
  BY <1>1, <1>3
<1> QED
  BY <1>1, <1>4 DEF EndsAt

\* A prefix shares its places with what it is a prefix of.
LEMMA PrefixAgrees ==
    ASSUME NEW p \in Seq(Pieces), NEW u \in Seq(Pieces), IsPrefix(p, u)
    PROVE  Len(p) <= Len(u) /\ \A i \in 1..Len(p) : p[i] = u[i]
<1>1. Len(p) \in Nat /\ Len(u) \in Nat /\ Len(p) <= Len(u)
  BY LenProperties DEF IsPrefix
<1>2. (\A i \in 1..Len(p) : p[i] \in Pieces) /\ \A i \in 1..Len(p) : u[i] \in Pieces
  BY <1>1, ElementOfSeq
<1>3. \A i \in 1..Len(p) : SubSeq(p, 1, Len(p))[i] = p[i]
  BY <1>1, <1>2, SubSeqProperties
<1>4. \A i \in 1..Len(p) : SubSeq(u, 1, Len(p))[i] = u[i]
  BY <1>1, <1>2, SubSeqProperties
<1> QED
  BY <1>1, <1>3, <1>4 DEF IsPrefix

\* Sequences that agree at their heads have the same head.
LEMMA HeadsAgree ==
    ASSUME NEW p \in Seq(Pieces), NEW u \in Seq(Pieces), NEW n \in Nat,
           n <= Len(p), n <= Len(u), \A i \in 1..n : p[i] = u[i]
    PROVE  SubSeq(p, 1, n) = SubSeq(u, 1, n)
<1>1. (\A i \in 1..n : p[i] \in Pieces) /\ \A i \in 1..n : u[i] \in Pieces
  BY LenProperties, ElementOfSeq
<1>2. /\ SubSeq(p, 1, n) \in Seq(Pieces) /\ Len(SubSeq(p, 1, n)) = n
      /\ \A i \in 1..n : SubSeq(p, 1, n)[i] = p[i]
  BY <1>1, SubSeqProperties
<1>3. /\ SubSeq(u, 1, n) \in Seq(Pieces) /\ Len(SubSeq(u, 1, n)) = n
      /\ \A i \in 1..n : SubSeq(u, 1, n)[i] = u[i]
  BY <1>1, SubSeqProperties
<1> QED
  BY <1>2, <1>3, SeqEqual

\* What is matched by a pattern that says where its host name ends has that host.
LEMMA MatchFixesHost ==
    ASSUME NEW e, e.prefix \in Seq(Pieces), NEW u \in Seq(Pieces), Matches(e, u), FixesHost(e)
    PROVE  Host(u) = Host(e.prefix)
<1> DEFINE p == e.prefix
<1>1. CASE ~e.wild
  BY <1>1 DEF Matches
<1>2. CASE e.wild
  <2>1. PICK n : EndsAt(p, n)
    BY HostEnds
  <2>2. /\ Len(p) <= Len(u) /\ Len(p) \in Nat /\ Len(u) \in Nat
        /\ \A i \in 1..Len(p) : p[i] = u[i]
    BY <1>2, PrefixAgrees, LenProperties DEF Matches
  <2>3. DOMAIN u = 1..Len(u) /\ DOMAIN p = 1..Len(p)
    BY LenProperties
  <2>4. n \in 1..(Len(p) + 1) /\ n - 1 \in Nat /\ n - 1 <= Len(p) /\ n - 1 <= Len(u)
    BY <2>1, <2>2 DEF EndsAt
  <2>5. EndsAt(u, n)
    <3>1. n \in 1..(Len(u) + 1)
      BY <2>2, <2>4
    <3>2. \A i \in 1..(n - 1) : u[i] \notin Boundaries
      BY <2>1, <2>2, <2>4 DEF EndsAt
    <3>3. CASE n <= Len(p)
      <4>1. p[n] \in Boundaries /\ u[n] = p[n]
        BY <2>1, <2>2, <2>4, <3>3 DEF EndsAt
      <4> QED
        BY <3>1, <3>2, <4>1 DEF EndsAt
    <3>4. CASE n = Len(p) + 1
      <4>1. p # <<>> /\ Last(p) \in InHost
        BY <1>2, <2>1, <2>2, <2>3, <3>4 DEF EndsAt, FixesHost
      <4>2. n # Len(u) + 1 => u[n] \in Boundaries
        BY <1>2, <2>2, <2>3, <3>1, <3>4, <4>1 DEF Matches
      <4> QED
        BY <3>1, <3>2, <4>2 DEF EndsAt
    <3> QED
      BY <2>2, <2>4, <3>3, <3>4
  <2>6. \A i \in 1..(n - 1) : p[i] = u[i]
    BY <2>2, <2>4
  <2> HIDE DEF p
  <2>7. p \in Seq(Pieces)
    BY DEF p
  <2>8. SubSeq(p, 1, n - 1) = SubSeq(u, 1, n - 1)
    BY <2>4, <2>6, <2>7, HeadsAgree
  <2>9. Host(p) = SubSeq(p, 1, n - 1) /\ Host(u) = SubSeq(u, 1, n - 1)
    BY <2>1, <2>5, <2>7, HostEnd
  <2> QED
    BY <2>8, <2>9 DEF p
<1> QED
  BY <1>1, <1>2

\* What the list permits, its deciding entry allows for the method and at its host.
LEMMA PermittedHost ==
    ASSUME NEW u \in Seq(Pieces), NEW m, Permitted(u, m)
    PROVE  \E i \in DOMAIN Allowlist :
              /\ Decides(i, u) /\ m \in Allowlist[i].methods
              /\ FixesHost(Allowlist[i]) => Host(u) = Host(Allowlist[i].prefix)
<1>1. PICK i \in DOMAIN Allowlist : Decides(i, u) /\ m \in Allowlist[i].methods
  BY DEF Permitted
<1>2. Matches(Allowlist[i], u) /\ Allowlist[i].prefix \in Seq(Pieces)
  BY <1>1, HttpAssumption DEF Decides
<1> QED
  BY <1>1, <1>2, MatchFixesHost

LEMMA SpeltType ==
    ASSUME NEW u \in Urls
    PROVE  u \in Seq(Pieces) /\ Spelt(u) \in Seq(Pieces)
  BY HttpAssumption, SpellingAssumption DEF Spellings

-------------------------------------------------------------------------------
(* The exchange                                                            *)

\* Until it is answered a call is for what the list permits; the client library is
\* where the request sent it, unless it was redirected; and a body is read only from
\* a public address, at a place that is the request's or is permitted.
ListInv ==
    /\ url \in Seq(Pieces) /\ place \in Seq(Pieces)
    /\ hops \in Nat
    /\ hpc \in {"resolve", "send", "verify", "body"} =>
          /\ Permitted(url, method)
          /\ hops = 0 => place = Spelt(url)
    /\ hpc = "body" => peer = "public" /\ ~Unlisted
    /\ answer = "response" => peer = "public" /\ Permitted(url, method) /\ ~Unlisted
    /\ answer = "redirect_error" => hops > 0 \/ Spelt(url) # url
    /\ answer # "none" => hpc = "returned"

LEMMA ListPreserved ==
    ASSUME ListInv, [HttpNext]_httpVars
    PROVE  ListInv'
<1> USE HttpAssumption DEF HttpReturn
<1>1. CASE UNCHANGED httpVars
  BY <1>1 DEF httpVars, request, response, ListInv, Unlisted
<1>2. ASSUME NEW u \in Urls, NEW m \in Methods, Canonicalize(u, m)
      PROVE  ListInv'
  <2>1. u \in Seq(Pieces) /\ Spelt(u) \in Seq(Pieces)
    BY SpeltType
  <2> QED
    BY <1>2, <2>1 DEF Canonicalize, ListInv
<1>3. CASE Resolve
  BY <1>3 DEF Resolve, ListInv, Unlisted, request, response
<1>4. CASE Redirect
  <2>1. place' \in Seq(Pieces)
    BY <1>4, SpellingAssumption DEF Redirect, ListInv
  <2>2. hops' \in Nat /\ (hops' = hops + 1 \/ hpc' = "returned")
    BY <1>4 DEF Redirect, ListInv
  <2>3. hops' = hops + 1 => hops' > 0 /\ hops' # 0
    BY DEF ListInv
  <2> QED
    BY <1>4, <2>1, <2>2, <2>3 DEF Redirect, ListInv, request
<1>5. CASE Respond
  BY <1>5 DEF Respond, ListInv, request, response
<1>6. CASE Verify
  BY <1>6 DEF Verify, ListInv, Unlisted, request, response
<1>7. CASE ReadChunk \/ EndBody
  BY <1>7 DEF ReadChunk, EndBody, Decode, ListInv, Unlisted, request, response
<1>8. CASE TimeOut \/ HttpDrop
  BY <1>8 DEF TimeOut, HttpDrop, InHttp, ListInv, Unlisted, request, response
<1> QED
  BY <1>1, <1>2, <1>3, <1>4, <1>5, <1>6, <1>7, <1>8 DEF HttpNext, HttpRequest

\* For any patterns: an answer comes from a public address, from where the deciding
\* entry allows the method, and from that entry's host if its pattern says where the host
\* name ends; and no call is refused for a redirect it did not meet, unless the client
\* library spells its URL otherwise.
THEOREM ListDecides == ActuateSpec => []TheListDecides
<1>1. ActuateInit => ListInv
  BY EmptySeq DEF ActuateInit, HttpInit, ListInv
<1>2. ListInv /\ [ActuateNext]_actuateVars => ListInv'
  BY ListPreserved, ActuatorSteps
<1>3. ListInv => TheListDecides
  <2> SUFFICES ASSUME ListInv
               PROVE  TheListDecides
    OBVIOUS
  <2>1. ASSUME answer = "response"
        PROVE  Permitted(place, method)
    BY <2>1 DEF ListInv, Unlisted
  <2> QED
    BY <2>1, PermittedHost DEF ListInv, TheListDecides
<1> QED
  BY <1>1, <1>2, <1>3, PTL DEF ActuateSpec

\* What was read of a body is kept up to the cap, and marked cut beyond it.
Kept(w, r, c) ==
    /\ r = IF w <= MaxResponse THEN w ELSE MaxResponse
    /\ c <=> w > MaxResponse

\* It is read on only while nothing was cut off; and only a cut makes text no text.
BodyInv ==
    /\ sent \in Nat /\ cut \in BOOLEAN
    /\ Kept(sent, received, cut)
    /\ hpc \notin {"returned", "dropped"} => ~cut
    /\ answer # "none" => hpc = "returned"
    /\ answer = "not_text" /\ width # 0 => cut

LEMMA CapIsNumber == MaxResponse \in Nat
  BY HttpAssumption

\* A chunk is read whole, or its rest is cut off.
LEMMA ChunkCaptures ==
    ASSUME NEW w \in Nat, NEW r, NEW n \in Nat \ {0},
           r = w, w <= MaxResponse
    PROVE  LET kept == Min({MaxResponse - r, n})
           IN  /\ r + kept = IF w + n <= MaxResponse THEN w + n ELSE MaxResponse
               /\ kept < n <=> w + n > MaxResponse
<1>1. Min({MaxResponse - r, n}) = IF MaxResponse - r <= n THEN MaxResponse - r ELSE n
  BY CapIsNumber, SmallerOfTwo
<1> QED
  BY <1>1, CapIsNumber

LEMMA BodyPreserved ==
    ASSUME BodyInv, [HttpNext]_httpVars
    PROVE  BodyInv'
<1> USE CapIsNumber DEF HttpReturn, Kept
<1>1. CASE UNCHANGED httpVars
  BY <1>1 DEF httpVars, body, BodyInv
<1>2. ASSUME NEW u \in Urls, NEW m \in Methods, Canonicalize(u, m)
      PROVE  BodyInv'
  BY <1>2 DEF Canonicalize, BodyInv, body
<1>3. CASE Resolve \/ Redirect \/ TimeOut \/ HttpDrop
  BY <1>3 DEF Resolve, Redirect, TimeOut, HttpDrop, InHttp, BodyInv, body
<1>4. CASE Respond
  BY <1>4 DEF Respond, BodyInv
<1>5. CASE Verify
  BY <1>5 DEF Verify, BodyInv, body
<1>6. CASE ReadChunk
  <2>1. PICK n \in 1..(MaxSent - sent) :
          /\ sent' = sent + n
          /\ received' = received + Min({MaxResponse - received, n})
          /\ cut' = Overflows(n, Min({MaxResponse - received, n}))
          /\ IF Overflows(n, Min({MaxResponse - received, n}))
                THEN Decode(received + Min({MaxResponse - received, n}), TRUE)
                ELSE UNCHANGED <<hpc, answer>>
    BY <1>6 DEF ReadChunk
  <2>2. /\ hpc = "body" /\ answer = "none" /\ ~cut /\ width' = width
        /\ n \in Nat \ {0} /\ sent \in Nat /\ received = sent /\ sent <= MaxResponse
    BY <1>6 DEF ReadChunk, BodyInv
  <2> DEFINE kept == Min({MaxResponse - received, n})
  <2>3. /\ received + kept = IF sent + n <= MaxResponse THEN sent + n ELSE MaxResponse
        /\ kept < n <=> sent + n > MaxResponse
    BY <2>2, ChunkCaptures
  <2>4. sent' = sent + n /\ received' = received + kept /\ cut' = (kept < n)
    BY <2>1 DEF Overflows
  <2> HIDE DEF kept
  <2>5. sent' \in Nat
    BY <2>2, <2>4
  <2>6. cut' \in BOOLEAN /\ (cut' <=> sent + n > MaxResponse)
    <3>1. (kept < n) \in BOOLEAN
      OBVIOUS
    <3>2. cut' \in BOOLEAN
      BY <2>4, <3>1, Zenon
    <3>3. cut' <=> kept < n
      BY <2>4, Zenon
    <3> QED
      BY <2>3, <3>2, <3>3, Zenon
  <2>7. Kept(sent', received', cut')
    BY <2>3, <2>4, <2>6
  <2>8. CASE cut'
    BY <2>1, <2>2, <2>5, <2>6, <2>7, <2>8 DEF Decode, BodyInv
  <2>9. CASE ~cut'
    BY <2>1, <2>2, <2>5, <2>6, <2>7, <2>9 DEF BodyInv
  <2> QED
    BY <2>8, <2>9
<1>7. CASE EndBody
  <2>1. UNCHANGED body /\ hpc = "body" /\ answer = "none" /\ ~cut /\ received = sent
    BY <1>7 DEF EndBody, BodyInv
  <2>2. hpc' = "returned" /\ answer' \in {"response", "not_text", "unavailable"}
    BY <1>7 DEF EndBody, Decode
  <2>3. answer' = "not_text" => width = 0
    BY <1>7, <2>1 DEF EndBody, Decode
  <2> QED
    BY <2>1, <2>2, <2>3 DEF BodyInv, body
<1> QED
  BY <1>1, <1>2, <1>3, <1>4, <1>5, <1>6, <1>7 DEF HttpNext, HttpRequest

\* An answer holds the body up to the cap and says whether there was more; text is
\* found not to be text only if it was cut.
THEOREM FaithfulBody == ActuateSpec => []BodyIsFaithful
<1>1. ActuateInit => BodyInv
  <2> SUFFICES ASSUME HttpInit
               PROVE  BodyInv
    BY DEF ActuateInit
  <2>1. /\ hpc = "canonicalize" /\ answer = "none"
        /\ sent = 0 /\ received = 0 /\ cut = FALSE
    BY DEF HttpInit
  <2>2. ~(0 > MaxResponse) /\ 0 <= MaxResponse /\ 0 \in Nat
    BY CapIsNumber
  <2>3. Kept(sent, received, cut)
    BY <2>1, <2>2 DEF Kept
  <2> QED
    BY <2>1, <2>2, <2>3 DEF BodyInv
<1>2. BodyInv /\ [ActuateNext]_actuateVars => BodyInv'
  BY BodyPreserved, ActuatorSteps
<1>3. BodyInv => BodyIsFaithful
  <2> SUFFICES ASSUME BodyInv
               PROVE  BodyIsFaithful
    OBVIOUS
  <2>1. Min({sent, MaxResponse}) = IF sent <= MaxResponse THEN sent ELSE MaxResponse
    BY SmallerOfTwo, CapIsNumber DEF BodyInv
  <2> QED
    BY <2>1 DEF BodyInv, Kept, BodyIsFaithful
<1> QED
  BY <1>1, <1>2, <1>3, PTL DEF ActuateSpec
================================================================================
