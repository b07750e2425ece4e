------------------------------ MODULE AtomicFiles ------------------------------
(***************************************************************************)
(* What file_write and file_read promise, whatever temporary files, system *)
(* calls and failures they are made of: a write puts all of its text at    *)
(* its path at one instant between its call and its answer, or it fails    *)
(* and puts nothing there, ever; a read shows the start of a text that was *)
(* at its path at one instant between its call and its answer.  A crash    *)
(* loses the calls and keeps the files.  FileActuator implements this.     *)
(***************************************************************************)
EXTENDS Naturals

CONSTANTS
    Callers,      \* handlers
    Paths,        \* target paths
    TempLike,     \* targets that the boot sweep takes for temporary files
    Contents,     \* texts that agents write
    Len,          \* Len[c]: bytes of text c
    NoFile,       \* nothing at a path
    Directory,    \* not a regular file
    MaxRead       \* max_bytes of a read

VARIABLES
    holds,     \* holds[p]: what is at path p
    call,      \* call[c]: how far the call of handler c is
    target,    \* target[c]: its path
    data       \* data[c]: what it writes, or what it was shown

atomicVars == <<holds, call, target, data>>

Init ==
    /\ holds \in [Paths -> {NoFile, Directory}]
    /\ call = [c \in Callers |-> "none"]
    /\ target = [c \in Callers |-> NoFile]
    /\ data = [c \in Callers |-> NoFile]

Move(c, from, to) == call[c] = from /\ call' = [call EXCEPT ![c] = to]

Write(c, p, t) ==
    /\ Move(c, "none", "writing")
    /\ target' = [target EXCEPT ![c] = p]
    /\ data' = [data EXCEPT ![c] = t]
    /\ UNCHANGED holds

\* The instant of a write that succeeds; a directory is not written over.
Put(c) ==
    /\ Move(c, "writing", "wrote")
    /\ holds[target[c]] # Directory
    /\ holds' = [holds EXCEPT ![target[c]] = data[c]]
    /\ UNCHANGED <<target, data>>

GiveUp(c) == Move(c, "writing", "failed") /\ UNCHANGED <<holds, target, data>>

Read(c, p) ==
    /\ Move(c, "none", "reading")
    /\ target' = [target EXCEPT ![c] = p]
    /\ UNCHANGED <<holds, data>>

\* The first bytes of t, as many as a read may return.
Shown(t) == {[text |-> t, shown |-> n] : n \in {m \in 0..Len[t] : m <= MaxRead}}

\* The instant of a read that succeeds.
Get(c) ==
    /\ Move(c, "reading", "got")
    /\ holds[target[c]] \in Contents
    /\ \E d \in Shown(holds[target[c]]) : data' = [data EXCEPT ![c] = d]
    /\ UNCHANGED <<holds, target>>

Miss(c) == Move(c, "reading", "missed") /\ UNCHANGED <<holds, target, data>>

Return(c) ==
    /\ \E s \in {"wrote", "failed", "got", "missed"} : Move(c, s, "none")
    /\ target' = [target EXCEPT ![c] = NoFile]
    /\ data' = [data EXCEPT ![c] = NoFile]
    /\ UNCHANGED holds

\* The process dies.
Lose ==
    /\ call' = [c \in Callers |-> "none"]
    /\ target' = [c \in Callers |-> NoFile]
    /\ data' = [c \in Callers |-> NoFile]
    /\ UNCHANGED holds

\* The boot sweep removes what is named like a temporary file.
Sweep(p) ==
    /\ holds[p] # Directory
    /\ holds' = [holds EXCEPT ![p] = NoFile]
    /\ UNCHANGED <<call, target, data>>

Next ==
    \/ \E c \in Callers :
          \/ \E p \in Paths, t \in Contents : Write(c, p, t)
          \/ Put(c) \/ GiveUp(c)
          \/ \E p \in Paths : Read(c, p)
          \/ Get(c) \/ Miss(c)
          \/ Return(c)
    \/ Lose
    \/ \E p \in TempLike : Sweep(p)

Spec == Init /\ [][Next]_atomicVars
================================================================================
