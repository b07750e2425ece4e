-------------------------- MODULE FileActuatorProofs --------------------------
(* Proofs about FileActuator, for every number of handlers, every set of      *)
(* targets and texts, and every number of writes, crashes and restarts.       *)
EXTENDS FileActuator, TLAPS

Writing == {"check", "create", "write", "rename", "discard", "written", "failed"}

\* A handler has an action, of its own, as long as it is in file_write.
Locals ==
    /\ \A c \in Callers : pc[c] \in Writing => action[c] \in 1..lastAction /\ text[c] \in Contents
    /\ \A c \in Callers : pc[c] \in Writing \cup {"stat", "open"} => path[c] \in Paths
    /\ \A c, d \in Callers :
          pc[c] \in Writing /\ pc[d] \in Writing /\ action[c] = action[d] => c = d

\* What a reader is about to open is no directory.
Openable == \A c \in Callers : pc[c] = "open" => files[path[c]] \in Version \cup {NoFile}

LocalInv == TypeOK /\ Locals /\ Openable

-------------------------------------------------------------------------------
(* Types and locals *)

\* The step of one handler leaves the others where they are.
LEMMA Goes ==
    ASSUME TypeOK, NEW c \in Callers, NEW s \in PCs, Go(c, s)
    PROVE  /\ pc' \in [Callers -> PCs]
           /\ pc'[c] = s
           /\ \A d \in Callers \ {c} : pc'[d] = pc[d]
  BY DEF TypeOK, Go

LEMMA BeginWriteLocals ==
    ASSUME LocalInv, NEW c \in Callers, NEW p \in Paths, NEW t \in Contents, BeginWrite(c, p, t)
    PROVE  LocalInv'
<1> USE FileAssumption DEF LocalInv
<1>1. /\ pc' \in [Callers -> PCs] /\ pc'[c] = "check"
      /\ \A d \in Callers \ {c} : pc'[d] = pc[d]
  BY Goes DEF BeginWrite, PCs
<1>2. TypeOK'
  <2>1. lastAction' \in 0..MaxActions /\ action' \in [Callers -> 0..MaxActions]
    <3>1. lastAction + 1 \in 0..MaxActions
      BY DEF BeginWrite, TypeOK
    <3> QED
      BY <3>1 DEF BeginWrite, TypeOK
  <2>2. path' \in [Callers -> Paths \cup {NoFile}] /\ text' \in [Callers -> Contents \cup {NoFile}]
    BY DEF BeginWrite, TypeOK
  <2> QED
    BY <1>1, <2>1, <2>2 DEF BeginWrite, TypeOK, diskVars, bootVars, history
<1>3. Locals'
  <2>1. /\ lastAction \in Nat /\ lastAction' = lastAction + 1
        /\ action'[c] = lastAction + 1 /\ text'[c] = t /\ path'[c] = p
        /\ \A d \in Callers \ {c} : action'[d] = action[d] /\ text'[d] = text[d] /\ path'[d] = path[d]
    BY DEF BeginWrite, TypeOK
  <2>2. \A d \in Callers \ {c} : pc[d] \in Writing => action[d] \in 1..lastAction
    BY DEF Locals
  <2> QED
    BY <1>1, <2>1, <2>2 DEF Locals, Writing
<1>4. Openable'
  BY <1>1 DEF BeginWrite, Openable, TypeOK, diskVars
<1> QED
  BY <1>2, <1>3, <1>4

\* The steps of file_write from then on, whatever they do to the disk.
LEMMA WriteStepLocals ==
    ASSUME LocalInv, NEW c \in Callers,
           CheckTarget(c) \/ CreateTemp(c) \/ WriteTemp(c) \/ Discard(c)
    PROVE  LocalInv'
<1> USE FileAssumption DEF LocalInv
<1>1. /\ pc[c] \in {"check", "create", "write", "discard"}
      /\ UNCHANGED <<files, path, action, text, total, got, lastAction, up, boot, listed, raced>>
  BY DEF CheckTarget, CreateTemp, WriteTemp, Discard, Fail, diskVars, callVars, bootVars, history
<1>2. PICK s \in {"create", "failed", "write", "discard", "rename"} : Go(c, s)
  BY DEF CheckTarget, CreateTemp, WriteTemp, Discard, Fail
<1>3. /\ pc' \in [Callers -> PCs] /\ pc'[c] = s
      /\ \A d \in Callers \ {c} : pc'[d] = pc[d]
  BY <1>2, Goes DEF PCs
<1>4. action[c] \in Actions /\ text[c] \in Contents
  BY <1>1 DEF Locals, Writing, TypeOK, Actions
<1>5. temps' \in [Actions -> Version \cup {NoFile}]
  <2>1. CASE CreateTemp(c)
    <3>1. [action |-> action[c], text |-> text[c], written |-> 0] \in Version
      BY <1>4 DEF Version
    <3> QED
      BY <2>1, <3>1 DEF CreateTemp, TypeOK
  <2>2. CASE WriteTemp(c)
    <3>1. PICK n \in 0..Len[text[c]] :
            temps' = IF temps[action[c]] = NoFile THEN temps
                     ELSE [temps EXCEPT ![action[c]].written = n]
      BY <2>2 DEF WriteTemp
    <3>2. temps[action[c]] # NoFile => [temps[action[c]] EXCEPT !.written = n] \in Version
      BY <1>4 DEF TypeOK, Version
    <3> QED
      BY <1>4, <3>1, <3>2 DEF TypeOK
  <2>3. CASE CheckTarget(c) \/ Discard(c)
    BY <2>3 DEF CheckTarget, Discard, Fail, diskVars, TypeOK
  <2> QED
    BY <2>1, <2>2, <2>3
<1>6. leaked' \subseteq Actions /\ failed' \subseteq Actions
  BY <1>4 DEF CheckTarget, CreateTemp, WriteTemp, Discard, Fail, history, TypeOK
<1>7. TypeOK'
  BY <1>1, <1>3, <1>5, <1>6 DEF TypeOK
<1>8. Locals'
  BY <1>1, <1>3 DEF Locals, Writing
<1>9. Openable'
  BY <1>1, <1>2, <1>3 DEF Openable
<1> QED
  BY <1>7, <1>8, <1>9

LEMMA RenameLocals ==
    ASSUME LocalInv, NEW c \in Callers, Rename(c)
    PROVE  LocalInv'
<1> USE FileAssumption DEF LocalInv
<1>1. /\ pc[c] = "rename"
      /\ UNCHANGED <<path, action, text, total, got, lastAction, up, boot, listed, leaked, failed>>
  BY DEF Rename, callVars, bootVars
<1>2. PICK s \in {"written", "discard"} : Go(c, s)
  BY DEF Rename
<1>3. /\ pc' \in [Callers -> PCs] /\ pc'[c] = s
      /\ \A d \in Callers \ {c} : pc'[d] = pc[d]
  BY <1>2, Goes DEF PCs
<1>4. action[c] \in Actions /\ path[c] \in Paths
  BY <1>1 DEF Locals, Writing, TypeOK, Actions
<1>5. /\ files' \in [Paths -> Version \cup {NoFile, Directory}]
      /\ temps' \in [Actions -> Version \cup {NoFile}]
      /\ raced' \subseteq Callers
      /\ \A p \in Paths : files'[p] = files[p] \/ files'[p] \in Version
  BY <1>4 DEF Rename, TypeOK, diskVars, Replaces
<1>6. TypeOK'
  BY <1>1, <1>3, <1>5 DEF TypeOK
<1>7. Locals'
  BY <1>1, <1>3 DEF Locals, Writing
<1>8. Openable'
  BY <1>1, <1>2, <1>3, <1>5 DEF Openable, Locals
<1> QED
  BY <1>6, <1>7, <1>8

LEMMA ReadStepLocals ==
    ASSUME LocalInv, NEW c \in Callers,
           (\E p \in Paths : BeginRead(c, p)) \/ Stat(c) \/ OpenAndRead(c)
    PROVE  LocalInv'
<1> USE FileAssumption DEF LocalInv
<1>1. /\ pc[c] \in {"idle", "stat", "open"}
      /\ UNCHANGED <<diskVars, action, text, lastAction, bootVars, history>>
  BY DEF BeginRead, Stat, OpenAndRead
<1>2. PICK s \in {"stat", "open", "read", "unread"} : Go(c, s)
  BY DEF BeginRead, Stat, OpenAndRead
<1>3. /\ pc' \in [Callers -> PCs] /\ pc'[c] = s
      /\ \A d \in Callers \ {c} : pc'[d] = pc[d]
  BY <1>2, Goes DEF PCs
<1>4. /\ path' \in [Callers -> Paths \cup {NoFile}]
      /\ s \in {"stat", "open"} => path'[c] \in Paths
      /\ \A d \in Callers \ {c} : path'[d] = path[d]
  BY <1>2 DEF BeginRead, Stat, OpenAndRead, TypeOK, Locals, Go
<1>5. total' \in [Callers -> Nat]
  <2>1. CASE Stat(c)
    <3>1. files[path[c]] \notin {NoFile, Directory} => files[path[c]].written \in Nat
      BY <2>1 DEF Stat, TypeOK, Locals, Version
    <3> QED
      BY <2>1, <3>1 DEF Stat, TypeOK
  <2> QED
    BY <2>1 DEF BeginRead, OpenAndRead, TypeOK
<1>6. got' \in [Callers -> Version \cup {NoFile}]
  BY DEF BeginRead, Stat, OpenAndRead, TypeOK, Openable
<1>7. TypeOK'
  BY <1>1, <1>3, <1>4, <1>5, <1>6 DEF TypeOK, diskVars, bootVars, history
<1>8. Locals'
  BY <1>1, <1>3, <1>4 DEF Locals, Writing
<1>9. Openable'
  <2>1. pc'[c] = "open" => path'[c] = path[c] /\ files[path[c]] \in Version \cup {NoFile}
    BY <1>2, <1>3 DEF BeginRead, Stat, OpenAndRead, Go, TypeOK, Locals
  <2> QED
    BY <1>1, <1>3, <1>4, <2>1 DEF Openable, diskVars
<1> QED
  BY <1>7, <1>8, <1>9

LEMMA ReturnLocals ==
    ASSUME LocalInv, NEW c \in Callers, Return(c)
    PROVE  LocalInv'
<1> USE FileAssumption DEF LocalInv
<1>1. /\ pc' \in [Callers -> PCs] /\ pc'[c] = "idle"
      /\ \A d \in Callers \ {c} : pc'[d] = pc[d]
  BY Goes DEF Return, PCs
<1>2. /\ path' \in [Callers -> Paths \cup {NoFile}]
      /\ action' \in [Callers -> 0..MaxActions]
      /\ text' \in [Callers -> Contents \cup {NoFile}]
      /\ total' \in [Callers -> Nat]
      /\ got' \in [Callers -> Version \cup {NoFile}]
  BY DEF Return, TypeOK
<1>3. \A d \in Callers \ {c} : action'[d] = action[d] /\ text'[d] = text[d] /\ path'[d] = path[d]
  BY DEF Return, TypeOK
<1>4. /\ UNCHANGED <<files, temps, lastAction, up, boot, listed, leaked, failed>>
      /\ raced' \subseteq Callers
  BY DEF Return, diskVars, bootVars, TypeOK
<1>5. TypeOK'
  BY <1>1, <1>2, <1>4 DEF TypeOK
<1>6. Locals' /\ Openable'
  BY <1>1, <1>3, <1>4 DEF Locals, Openable, Writing
<1> QED
  BY <1>5, <1>6

LEMMA CrashLocals ==
    ASSUME LocalInv, Crash
    PROVE  LocalInv'
<1> USE FileAssumption DEF LocalInv
<1>1. TypeOK'
  <2>1. leaked' \subseteq Actions /\ failed' \subseteq Actions
    BY DEF Crash, TypeOK
  <2>2. /\ pc' \in [Callers -> PCs] /\ path' \in [Callers -> Paths \cup {NoFile}]
        /\ action' \in [Callers -> 0..MaxActions] /\ text' \in [Callers -> Contents \cup {NoFile}]
    BY DEF Crash, PCs
  <2>3. total' \in [Callers -> Nat] /\ got' \in [Callers -> Version \cup {NoFile}] /\ raced' \subseteq Callers
    BY DEF Crash
  <2> QED
    BY <2>1, <2>2, <2>3 DEF Crash, TypeOK, diskVars
<1>2. Locals' /\ Openable'
  BY DEF Crash, Locals, Openable, Writing
<1> QED
  BY <1>1, <1>2

LEMMA BootLocals ==
    ASSUME LocalInv,
           Walk \/ Bind \/ (\E i \in Actions : RemoveTemp(i)) \/ (\E p \in Paths : RemoveTarget(p))
    PROVE  LocalInv'
<1> USE FileAssumption DEF LocalInv
<1>1. UNCHANGED <<pc, path, action, text, total, got, lastAction>>
  BY DEF Walk, Bind, RemoveTemp, RemoveTarget, callVars
<1>2. /\ files' \in [Paths -> Version \cup {NoFile, Directory}]
      /\ \A p \in Paths : files'[p] \in {files[p], NoFile}
      /\ temps' \in [Actions -> Version \cup {NoFile}]
  BY DEF Walk, Bind, RemoveTemp, RemoveTarget, diskVars, TypeOK
<1>3. /\ up' \in BOOLEAN /\ boot' \in {"none", "sweep"}
      /\ listed' \subseteq Paths \cup Actions
      /\ raced' \subseteq Callers /\ leaked' \subseteq Actions /\ failed' \subseteq Actions
  BY DEF Walk, Bind, RemoveTemp, RemoveTarget, history, TypeOK, Candidates, Replaces
<1>4. TypeOK'
  BY <1>1, <1>2, <1>3 DEF TypeOK
<1>5. Locals'
  BY <1>1 DEF Locals
<1>6. Openable'
  <2> SUFFICES ASSUME NEW c \in Callers, pc[c] = "open"
               PROVE  files'[path[c]] \in Version \cup {NoFile}
    BY <1>1 DEF Openable
  <2>1. path[c] \in Paths /\ files[path[c]] \in Version \cup {NoFile}
    BY DEF Locals, Openable
  <2> QED
    BY <1>2, <2>1
<1> QED
  BY <1>4, <1>5, <1>6

LEMMA LocalInvInit == Init => LocalInv
<1> SUFFICES ASSUME Init
             PROVE  LocalInv
  OBVIOUS
<1> USE FileAssumption
<1>1. /\ files \in [Paths -> Version \cup {NoFile, Directory}]
      /\ temps \in [Actions -> Version \cup {NoFile}]
      /\ pc \in [Callers -> PCs] /\ \A c \in Callers : pc[c] = "idle"
  BY DEF Init, PCs
<1>2. /\ action \in [Callers -> 0..MaxActions] /\ lastAction \in 0..MaxActions
      /\ total \in [Callers -> Nat] /\ got \in [Callers -> Version \cup {NoFile}]
      /\ path \in [Callers -> Paths \cup {NoFile}] /\ text \in [Callers -> Contents \cup {NoFile}]
  BY DEF Init
<1>3. TypeOK
  BY <1>1, <1>2 DEF Init, TypeOK
<1>4. Locals /\ Openable
  BY <1>1 DEF Locals, Openable, Writing
<1> QED
  BY <1>3, <1>4 DEF LocalInv

LEMMA LocalInvPreserved ==
    ASSUME LocalInv, [Next]_vars
    PROVE  LocalInv'
<1>1. CASE UNCHANGED vars
  BY <1>1 DEF vars, LocalInv, TypeOK, Locals, Openable
<1>2. CASE Next
  BY <1>2, BeginWriteLocals, WriteStepLocals, RenameLocals, ReadStepLocals, ReturnLocals,
     CrashLocals, BootLocals DEF Next, Work
<1> QED
  BY <1>1, <1>2

\* The types of the workspace, the calls and the sweep.
THEOREM TypeCorrect == Spec => []TypeOK
<1>1. LocalInv /\ [Next]_vars => LocalInv'
  BY LocalInvPreserved
<1>2. LocalInv => TypeOK
  BY DEF LocalInv
<1> QED
  BY <1>1, <1>2, LocalInvInit, PTL DEF Spec

-------------------------------------------------------------------------------
(* Targets *)

\* The temporary file of a writer is its own, and all of its text at the rename.
TempsInv ==
    \A c \in Callers :
        /\ pc[c] \in {"write", "rename"} /\ temps[action[c]] # NoFile =>
              temps[action[c]].action = action[c] /\ temps[action[c]].text = text[c]
        /\ pc[c] = "rename" /\ temps[action[c]] # NoFile =>
              temps[action[c]].written = Len[text[c]]
        /\ pc[c] = "written" => temps[action[c]] = NoFile

\* A regular file is all of a text, written by an action that was started ...
FilesInv ==
    \A p \in Paths :
        files[p] \in {NoFile, Directory} \/ (Whole(files[p]) /\ files[p].action <= lastAction)

\* ... and is not of a writer that has yet to rename its file, or has failed.
UnwrittenInv ==
    \A c \in Callers, p \in Paths :
        pc[c] \in Writing \ {"written"} =>
            files[p] \in {NoFile, Directory} \/ files[p].action # action[c]

\* A temporary file is not there before its writer creates it.
FreshInv ==
    /\ \A i \in Actions : lastAction < i => temps[i] = NoFile
    /\ \A c \in Callers : pc[c] = "check" => temps[action[c]] = NoFile

\* A write that was answered with an error is over: no handler goes on with it, no
\* target shows it, and its temporary file is gone or given up.
FailedInv ==
    \A i \in failed :
        /\ i <= lastAction
        /\ \A c \in Callers : pc[c] \in Writing \ {"failed"} => action[c] # i
        /\ \A p \in Paths : files[p] \in {NoFile, Directory} \/ files[p].action # i
        /\ temps[i] = NoFile \/ i \in leaked

DiskInv == LocalInv /\ TempsInv /\ FilesInv /\ UnwrittenInv /\ FreshInv /\ FailedInv

\* What one handler does to temps concerns its own temporary file.
LEMMA OwnTemp ==
    ASSUME LocalInv, NEW c \in Callers, pc[c] \in Writing, NEW d \in Callers \ {c},
           pc[d] \in Writing
    PROVE  action[d] # action[c] /\ action[d] \in Actions /\ action[c] \in Actions
  BY FileAssumption DEF LocalInv, Locals, TypeOK, Actions

LEMMA TempsPreserved ==
    ASSUME DiskInv, LocalInv', [Next]_vars
    PROVE  TempsInv'
<1> USE DEF DiskInv
<1>1. CASE UNCHANGED vars
  BY <1>1 DEF vars, TempsInv
<1>2. ASSUME NEW c \in Callers, NEW p \in Paths, NEW t \in Contents, BeginWrite(c, p, t)
      PROVE  TempsInv'
  <2>1. /\ temps' = temps /\ pc'[c] = "check"
        /\ \A d \in Callers \ {c} : /\ pc'[d] = pc[d] /\ action'[d] = action[d]
                                     /\ text'[d] = text[d]
    BY <1>2 DEF BeginWrite, LocalInv, TypeOK, diskVars, Go
  <2> QED
    BY <2>1 DEF TempsInv
<1>3. ASSUME NEW c \in Callers, CheckTarget(c) \/ Stat(c) \/ OpenAndRead(c) \/ Return(c)
             \/ \E p \in Paths : BeginRead(c, p)
      PROVE  TempsInv'
  <2>1. temps' = temps
    BY <1>3 DEF CheckTarget, Fail, Stat, OpenAndRead, Return, BeginRead, diskVars
  <2>2. /\ pc'[c] \notin {"write", "rename", "written"}
        /\ \A d \in Callers \ {c} : /\ pc'[d] = pc[d] /\ action'[d] = action[d]
                                     /\ text'[d] = text[d]
    BY <1>3 DEF CheckTarget, Fail, Stat, OpenAndRead, Return, BeginRead, LocalInv, TypeOK, Go, callVars
  <2> QED
    BY <2>1, <2>2 DEF TempsInv
<1>4. ASSUME NEW c \in Callers, CreateTemp(c) \/ WriteTemp(c) \/ Rename(c) \/ Discard(c)
      PROVE  TempsInv'
  <2>1. /\ action' = action /\ text' = text
        /\ pc[c] \in {"create", "write", "rename", "discard"}
        /\ \A d \in Callers \ {c} : pc'[d] = pc[d]
    BY <1>4 DEF CreateTemp, WriteTemp, Rename, Discard, Fail, callVars, LocalInv, TypeOK, Go
  <2>2. action[c] \in Actions /\ text[c] \in Contents
    BY <2>1, FileAssumption DEF LocalInv, Locals, Writing, TypeOK, Actions
  <2>3. \A i \in Actions \ {action[c]} : temps'[i] = temps[i]
    BY <1>4, <2>2 DEF CreateTemp, WriteTemp, Rename, Discard, Fail, diskVars, LocalInv, TypeOK
  <2>4. \A d \in Callers \ {c} : pc[d] \in {"write", "rename", "written"} =>
            temps'[action[d]] = temps[action[d]]
    BY <2>1, <2>3, OwnTemp DEF Writing
  <2>5. /\ pc'[c] \in {"write", "rename"} /\ temps'[action[c]] # NoFile =>
              temps'[action[c]].action = action[c] /\ temps'[action[c]].text = text[c]
        /\ pc'[c] = "rename" /\ temps'[action[c]] # NoFile =>
              temps'[action[c]].written = Len[text[c]]
        /\ pc'[c] = "written" => temps'[action[c]] = NoFile
    <3>1. CASE CreateTemp(c)
      BY <2>2, <3>1 DEF CreateTemp, LocalInv, TypeOK, Go
    <3>2. CASE WriteTemp(c)
      <4>1. PICK n \in 0..Len[text[c]] :
              /\ temps' = IF temps[action[c]] = NoFile THEN temps
                          ELSE [temps EXCEPT ![action[c]].written = n]
              /\ (n = Len[text[c]] /\ Go(c, "rename")) \/ Go(c, "discard")
        BY <3>2 DEF WriteTemp
      <4>2. pc[c] = "write" /\ pc'[c] \in {"rename", "discard"}
            /\ (pc'[c] = "rename" => n = Len[text[c]])
        BY <3>2, <4>1 DEF WriteTemp, Go, LocalInv, TypeOK
      <4>3. CASE temps[action[c]] = NoFile
        BY <4>1, <4>2, <4>3
      <4>4. CASE temps[action[c]] # NoFile
        <5>1. temps'[action[c]] = [temps[action[c]] EXCEPT !.written = n]
          BY <2>2, <4>1, <4>4 DEF LocalInv, TypeOK
        <5>2. temps[action[c]] \in Version
          BY <2>2, <4>4 DEF LocalInv, TypeOK
        <5>3. temps[action[c]].action = action[c] /\ temps[action[c]].text = text[c]
          BY <4>2, <4>4 DEF TempsInv
        <5> QED
          BY <4>2, <5>1, <5>2, <5>3 DEF Version
      <4> QED
        BY <4>3, <4>4
    <3>3. CASE Rename(c) \/ Discard(c)
      BY <2>2, <3>3 DEF Rename, Discard, Fail, LocalInv, TypeOK, Go
    <3> QED
      BY <1>4, <3>1, <3>2, <3>3
  <2> QED
    BY <2>1, <2>4, <2>5 DEF TempsInv
<1>5. CASE Crash
  BY <1>5 DEF Crash, TempsInv
<1>6. CASE Walk \/ Bind \/ (\E i \in Actions : RemoveTemp(i)) \/ \E p \in Paths : RemoveTarget(p)
  <2>1. UNCHANGED <<pc, action, text>>
    BY <1>6 DEF Walk, Bind, RemoveTemp, RemoveTarget, callVars
  <2>2. \A i \in Actions : temps'[i] = temps[i] \/ temps'[i] = NoFile
    BY <1>6 DEF Walk, Bind, RemoveTemp, RemoveTarget, diskVars, LocalInv, TypeOK
  <2>3. \A c \in Callers : pc[c] \in Writing => action[c] \in Actions
    BY FileAssumption DEF LocalInv, Locals, TypeOK, Actions
  <2> QED
    BY <2>1, <2>2, <2>3 DEF TempsInv, Writing
<1> QED
  BY <1>1, <1>2, <1>3, <1>4, <1>5, <1>6 DEF Next, Work

\* The steps but Rename put nothing at a target.
LEMMA OnlyRenameWrites ==
    ASSUME LocalInv, [Next]_vars, ~\E c \in Callers : Rename(c)
    PROVE  \A p \in Paths : files'[p] = files[p] \/ files'[p] = NoFile
  BY DEF Next, Work, vars, LocalInv, TypeOK, BeginWrite, CheckTarget, CreateTemp, WriteTemp, Discard, Fail,
         BeginRead, Stat, OpenAndRead, Return, Crash, Walk, Bind, RemoveTemp, RemoveTarget, diskVars

\* A rename puts its own file there, which is whole.
LEMMA RenameWrites ==
    ASSUME DiskInv, NEW c \in Callers, Rename(c)
    PROVE  \A p \in Paths :
              \/ files'[p] = files[p]
              \/ /\ p = path[c] /\ pc'[c] = "written"
                 /\ files'[p] = temps[action[c]] /\ Whole(files'[p])
                 /\ files'[p].action = action[c]
<1>1. pc[c] = "rename"
  BY DEF Rename
<1>2. temps[action[c]] # NoFile =>
         Whole(temps[action[c]]) /\ temps[action[c]].action = action[c]
  BY <1>1 DEF DiskInv, TempsInv, Whole
<1>3. \A p \in Paths :
         \/ files'[p] = files[p]
         \/ temps[action[c]] # NoFile /\ p = path[c] /\ Go(c, "written") /\ files'[p] = temps[action[c]]
  BY DEF Rename, DiskInv, LocalInv, TypeOK, diskVars
<1> QED
  BY <1>2, <1>3 DEF Go, DiskInv, LocalInv, TypeOK

LEMMA ActionsGrow ==
    ASSUME LocalInv, [Next]_vars
    PROVE  lastAction <= lastAction' /\ lastAction \in Nat /\ lastAction' \in Nat
<1>1. lastAction' = lastAction \/ lastAction' = lastAction + 1
  BY DEF Next, Work, vars, BeginWrite, CheckTarget, CreateTemp, WriteTemp, Discard, Fail, Rename,
         BeginRead, Stat, OpenAndRead, Return, Crash, Walk, Bind, RemoveTemp, RemoveTarget, callVars
<1> QED
  BY <1>1, FileAssumption DEF LocalInv, TypeOK

LEMMA FilesPreserved ==
    ASSUME DiskInv, LocalInv', [Next]_vars
    PROVE  FilesInv'
<1> SUFFICES ASSUME NEW p \in Paths, files'[p] \notin {NoFile, Directory}
             PROVE  Whole(files'[p]) /\ files'[p].action <= lastAction'
  BY DEF FilesInv, Whole
<1>1. lastAction <= lastAction' /\ lastAction \in Nat /\ lastAction' \in Nat
  BY ActionsGrow DEF DiskInv
<1>2. CASE files'[p] = files[p]
  <2>1. Whole(files[p]) /\ files[p].action <= lastAction /\ files[p].action \in Nat
    BY <1>2 DEF DiskInv, FilesInv, LocalInv, TypeOK, Version, Actions
  <2> QED
    BY <1>1, <1>2, <2>1
<1>3. CASE \E c \in Callers : Rename(c) /\ files'[p] # files[p]
  <2>1. PICK c \in Callers : Rename(c) /\ files'[p] # files[p]
    BY <1>3
  <2>2. Whole(files'[p]) /\ files'[p].action = action[c]
    BY <2>1, RenameWrites
  <2>3. action[c] \in 1..lastAction
    BY <2>1 DEF Rename, DiskInv, LocalInv, Locals, Writing
  <2> QED
    BY <1>1, <2>2, <2>3
<1> QED
  BY <1>2, <1>3, OnlyRenameWrites DEF DiskInv

LEMMA UnwrittenPreserved ==
    ASSUME DiskInv, LocalInv', [Next]_vars
    PROVE  UnwrittenInv'
<1> SUFFICES ASSUME NEW d \in Callers, NEW p \in Paths, pc'[d] \in Writing \ {"written"},
                    files'[p] \notin {NoFile, Directory}
             PROVE  files'[p].action # action'[d]
  BY DEF UnwrittenInv
<1>1. CASE pc[d] \in Writing \ {"written"} /\ action'[d] = action[d]
  <2>1. CASE files'[p] = files[p]
    BY <1>1, <2>1 DEF DiskInv, UnwrittenInv
  <2>2. CASE \E c \in Callers : Rename(c) /\ files'[p] # files[p]
    <3>1. PICK c \in Callers : Rename(c) /\ files'[p] # files[p]
      BY <2>2
    <3>2. files'[p].action = action[c] /\ pc'[c] = "written" /\ pc[c] \in Writing
      BY <3>1, RenameWrites DEF Rename, Writing
    <3>3. action[d] # action[c]
      BY <1>1, <3>2, OwnTemp DEF DiskInv
    <3> QED
      BY <1>1, <3>2, <3>3
  <2> QED
    BY <2>1, <2>2, OnlyRenameWrites DEF DiskInv
<1>2. ASSUME NEW q \in Paths, NEW t \in Contents, BeginWrite(d, q, t)
      PROVE  files'[p].action # action'[d]
  <2>1. files' = files /\ action'[d] = lastAction + 1
    BY <1>2 DEF BeginWrite, DiskInv, LocalInv, TypeOK, diskVars
  <2>2. files[p].action <= lastAction /\ files[p].action \in Nat /\ lastAction \in Nat
    BY <2>1, FileAssumption DEF DiskInv, FilesInv, LocalInv, TypeOK, Version, Actions
  <2> QED
    BY <2>1, <2>2
<1>3. \/ pc[d] \in Writing \ {"written"} /\ action'[d] = action[d]
      \/ \E q \in Paths, t \in Contents : BeginWrite(d, q, t)
  <2>1. CASE UNCHANGED vars
    BY <2>1 DEF vars
  <2>2. CASE Crash
    BY <2>2 DEF Crash, Writing
  <2>3. CASE Walk \/ Bind \/ (\E i \in Actions : RemoveTemp(i)) \/ \E q \in Paths : RemoveTarget(q)
    BY <2>3 DEF Walk, Bind, RemoveTemp, RemoveTarget, callVars
  <2>4. ASSUME NEW c \in Callers, Work(c), c # d
        PROVE  pc'[d] = pc[d] /\ action'[d] = action[d]
    BY <2>4 DEF Work, BeginWrite, CheckTarget, CreateTemp, WriteTemp, Discard, Fail, Rename,
         BeginRead, Stat, OpenAndRead, Return, callVars, Go, DiskInv, LocalInv, TypeOK
  <2>5. CASE \E p_1 \in Paths : BeginRead(d, p_1) \/ Stat(d) \/ OpenAndRead(d) \/ Return(d) \/ Rename(d)
    BY <2>5 DEF BeginRead, Stat, OpenAndRead, Return, Rename, Go, Writing, callVars,
         DiskInv, LocalInv, TypeOK
  <2>6. CASE CheckTarget(d) \/ CreateTemp(d) \/ WriteTemp(d) \/ Discard(d)
    BY <2>6 DEF CheckTarget, CreateTemp, WriteTemp, Discard, Fail, callVars, Writing
  <2> QED
    BY <2>1, <2>2, <2>3, <2>4, <2>5, <2>6 DEF Next, Work
<1> QED
  BY <1>1, <1>2, <1>3

\* A write goes on where it was, or is a new one.
LEMMA WritesGoOn ==
    ASSUME LocalInv, [Next]_vars, NEW d \in Callers, pc'[d] \in Writing
    PROVE  \/ pc[d] \in Writing /\ action'[d] = action[d]
           \/ action'[d] = lastAction + 1 /\ pc'[d] = "check" /\ temps' = temps
<1>1. CASE UNCHANGED vars
  BY <1>1 DEF vars
<1>2. CASE Crash
  BY <1>2 DEF Crash, Writing
<1>3. CASE Walk \/ Bind \/ (\E i \in Actions : RemoveTemp(i)) \/ \E q \in Paths : RemoveTarget(q)
  BY <1>3 DEF Walk, Bind, RemoveTemp, RemoveTarget, callVars
<1>4. ASSUME NEW c \in Callers, Work(c), c # d
      PROVE  pc'[d] = pc[d] /\ action'[d] = action[d]
  BY <1>4 DEF Work, BeginWrite, CheckTarget, CreateTemp, WriteTemp, Discard, Fail, Rename,
       BeginRead, Stat, OpenAndRead, Return, callVars, Go, LocalInv, TypeOK
<1>5. CASE (\E p \in Paths : BeginRead(d, p)) \/ Stat(d) \/ OpenAndRead(d) \/ Return(d)
  BY <1>5 DEF BeginRead, Stat, OpenAndRead, Return, Go, Writing, LocalInv, TypeOK
<1>6. CASE CheckTarget(d) \/ CreateTemp(d) \/ WriteTemp(d) \/ Discard(d) \/ Rename(d)
  BY <1>6 DEF CheckTarget, CreateTemp, WriteTemp, Discard, Fail, Rename, callVars, Writing
<1>7. CASE \E p \in Paths, t \in Contents : BeginWrite(d, p, t)
  BY <1>7 DEF BeginWrite, Go, LocalInv, TypeOK, diskVars
<1> QED
  BY <1>1, <1>2, <1>3, <1>4, <1>5, <1>6, <1>7 DEF Next, Work

\* A write does not come back to its beginning, nor from its end.
LEMMA WritesGoOnwards ==
    ASSUME LocalInv, [Next]_vars, NEW d \in Callers, pc[d] \in Writing, pc'[d] \in Writing
    PROVE  (pc'[d] = "check" => pc[d] = "check") /\ (pc[d] = "failed" => pc'[d] = "failed")
<1>1. CASE UNCHANGED vars
  BY <1>1 DEF vars
<1>2. CASE Crash
  BY <1>2 DEF Crash, Writing
<1>3. CASE Walk \/ Bind \/ (\E i \in Actions : RemoveTemp(i)) \/ \E q \in Paths : RemoveTarget(q)
  BY <1>3 DEF Walk, Bind, RemoveTemp, RemoveTarget
<1>4. ASSUME NEW c \in Callers, Work(c), c # d
      PROVE  pc'[d] = pc[d]
  BY <1>4 DEF Work, BeginWrite, CheckTarget, CreateTemp, WriteTemp, Discard, Fail, Rename,
       BeginRead, Stat, OpenAndRead, Return, Go, LocalInv, TypeOK
<1>5. CASE \/ \E p \in Paths : BeginRead(d, p)
           \/ \E p \in Paths, t \in Contents : BeginWrite(d, p, t)
  BY <1>5 DEF BeginRead, BeginWrite, Writing
<1>6. CASE Stat(d) \/ OpenAndRead(d) \/ Return(d)
  BY <1>6 DEF Stat, OpenAndRead, Return, Go, Writing, LocalInv, TypeOK
<1>7. CASE CheckTarget(d) \/ CreateTemp(d) \/ WriteTemp(d) \/ Discard(d) \/ Rename(d)
  BY <1>7 DEF CheckTarget, CreateTemp, WriteTemp, Discard, Fail, Rename, Go, LocalInv, TypeOK
<1> QED
  BY <1>1, <1>2, <1>3, <1>4, <1>5, <1>6, <1>7 DEF Next, Work

\* Only its writer makes or changes a temporary file, and not before it created it.
LEMMA TempsGrow ==
    ASSUME LocalInv, [Next]_vars, NEW i \in Actions
    PROVE  \/ temps'[i] = temps[i] \/ temps'[i] = NoFile
           \/ \E c \in Callers : pc[c] \in {"create", "write"} /\ action[c] = i
<1>1. CASE UNCHANGED vars
  BY <1>1 DEF vars
<1>2. ASSUME NEW c \in Callers, CreateTemp(c) \/ WriteTemp(c)
      PROVE  temps'[i] = temps[i] \/ (action[c] = i /\ pc[c] \in {"create", "write"})
  BY <1>2 DEF CreateTemp, WriteTemp, LocalInv, TypeOK
<1>3. ASSUME NEW c \in Callers, Rename(c) \/ Discard(c)
      PROVE  temps'[i] = temps[i] \/ temps'[i] = NoFile
  BY <1>3 DEF Rename, Discard, Fail, diskVars, LocalInv, TypeOK
<1>4. ASSUME NEW c \in Callers,
             CheckTarget(c) \/ Stat(c) \/ OpenAndRead(c) \/ Return(c)
             \/ (\E p \in Paths : BeginRead(c, p)) \/ \E p \in Paths, t \in Contents : BeginWrite(c, p, t)
      PROVE  temps' = temps
  BY <1>4 DEF CheckTarget, Fail, Stat, OpenAndRead, Return, BeginRead, BeginWrite, diskVars
<1>5. CASE Crash \/ Walk \/ Bind \/ (\E j \in Actions : RemoveTemp(j)) \/ \E p \in Paths : RemoveTarget(p)
  BY <1>5 DEF Crash, Walk, Bind, RemoveTemp, RemoveTarget, diskVars, LocalInv, TypeOK
<1> QED
  BY <1>1, <1>2, <1>3, <1>4, <1>5 DEF Next, Work

LEMMA FreshPreserved ==
    ASSUME DiskInv, LocalInv', [Next]_vars
    PROVE  FreshInv'
<1>1. lastAction <= lastAction' /\ lastAction \in Nat /\ lastAction' \in Nat
  BY ActionsGrow DEF DiskInv
<1>2. \A c \in Callers : pc[c] \in Writing => action[c] \in 1..lastAction
  BY DEF DiskInv, LocalInv, Locals
<1>3. ASSUME NEW i \in Actions, lastAction' < i
      PROVE  temps'[i] = NoFile
  <2>1. i \in Nat /\ lastAction < i
    BY <1>1, <1>3, FileAssumption DEF Actions
  <2>2. temps[i] = NoFile /\ ~ \E c \in Callers : pc[c] \in {"create", "write"} /\ action[c] = i
    BY <1>1, <1>2, <2>1 DEF DiskInv, FreshInv, Writing
  <2> QED
    BY <2>2, TempsGrow DEF DiskInv
<1>4. ASSUME NEW c \in Callers, pc'[c] = "check"
      PROVE  temps'[action'[c]] = NoFile
  <2>1. action'[c] \in Actions
    BY <1>4, FileAssumption DEF LocalInv, Locals, TypeOK, Actions, Writing
  <2>2. CASE action'[c] = lastAction + 1 /\ temps' = temps
    <3>1. lastAction < action'[c]
      BY <1>1, <2>2
    <3> QED
      BY <2>1, <2>2, <3>1 DEF DiskInv, FreshInv
  <2>3. CASE pc[c] \in Writing /\ action'[c] = action[c]
    <3>1. pc[c] = "check"
      BY <1>4, <2>3, WritesGoOnwards DEF DiskInv, Writing
    <3>2. temps[action[c]] = NoFile
      BY <3>1 DEF DiskInv, FreshInv
    <3>3. ~ \E d \in Callers : pc[d] \in {"create", "write"} /\ action[d] = action[c]
      BY <3>1, OwnTemp DEF DiskInv, Writing
    <3> QED
      BY <2>1, <2>3, <3>2, <3>3, TempsGrow DEF DiskInv
  <2> QED
    BY <1>4, <2>2, <2>3, WritesGoOn DEF DiskInv, Writing
<1> QED
  BY <1>3, <1>4 DEF FreshInv

\* An error is the answer of CheckTarget or of Discard.
LEMMA FailedGrows ==
    ASSUME [Next]_vars, NEW i \in failed'
    PROVE  \/ i \in failed
           \/ \E c \in Callers :
                 i = action[c] /\ (CheckTarget(c) \/ Discard(c)) /\ Go(c, "failed")
<1>1. CASE UNCHANGED failed
  BY <1>1
<1>2. ASSUME NEW c \in Callers, CheckTarget(c) \/ Discard(c)
      PROVE  UNCHANGED failed \/ (failed' = failed \cup {action[c]} /\ Go(c, "failed"))
  BY <1>2 DEF CheckTarget, Discard, Fail
<1>3. UNCHANGED failed \/ \E c \in Callers : CheckTarget(c) \/ Discard(c)
  BY DEF Next, Work, vars, BeginWrite, CreateTemp, WriteTemp, Rename, BeginRead, Stat,
         OpenAndRead, Return, Crash, Walk, Bind, RemoveTemp, RemoveTarget, history
<1> QED
  BY <1>1, <1>2, <1>3

LEMMA FailedPreserved ==
    ASSUME DiskInv, LocalInv', [Next]_vars
    PROVE  FailedInv'
<1> SUFFICES ASSUME NEW i \in failed'
             PROVE  /\ i <= lastAction'
                    /\ \A c \in Callers : pc'[c] \in Writing \ {"failed"} => action'[c] # i
                    /\ \A p \in Paths : files'[p] \in {NoFile, Directory} \/ files'[p].action # i
                    /\ temps'[i] = NoFile \/ i \in leaked'
  BY DEF FailedInv
<1>1. lastAction <= lastAction' /\ lastAction \in Nat /\ lastAction' \in Nat
  BY ActionsGrow DEF DiskInv
<1>2. i \in Actions /\ i \in Nat
  BY FileAssumption DEF LocalInv, TypeOK, Actions
<1>3. leaked \subseteq leaked'
  BY DEF Next, Work, vars, BeginWrite, CheckTarget, CreateTemp, WriteTemp, Discard, Fail, Rename, BeginRead,
         Stat, OpenAndRead, Return, Crash, Walk, Bind, RemoveTemp, RemoveTarget, history
<1>4. CASE i \in failed
  <2>1. /\ i <= lastAction
        /\ \A c \in Callers : pc[c] \in Writing \ {"failed"} => action[c] # i
        /\ \A p \in Paths : files[p] \in {NoFile, Directory} \/ files[p].action # i
        /\ temps[i] = NoFile \/ i \in leaked
    BY <1>4 DEF DiskInv, FailedInv
  <2>2. i <= lastAction'
    BY <1>1, <1>2, <2>1
  <2>3. ASSUME NEW c \in Callers, pc'[c] \in Writing \ {"failed"}
        PROVE  action'[c] # i
    <3>1. CASE pc[c] \in Writing /\ action'[c] = action[c]
      BY <2>1, <2>3, <3>1, WritesGoOnwards DEF DiskInv
    <3>2. CASE action'[c] = lastAction + 1
      BY <1>1, <1>2, <2>1, <3>2
    <3> QED
      BY <2>3, <3>1, <3>2, WritesGoOn DEF DiskInv
  <2>4. ASSUME NEW p \in Paths, files'[p] \notin {NoFile, Directory}
        PROVE  files'[p].action # i
    <3>1. CASE files'[p] = files[p]
      BY <2>1, <2>4, <3>1
    <3>2. ASSUME NEW c \in Callers, Rename(c), files'[p] # files[p]
          PROVE  files'[p].action # i
      <4>1. files'[p].action = action[c] /\ pc[c] = "rename"
        BY <3>2, RenameWrites DEF Rename
      <4> QED
        BY <2>1, <4>1 DEF Writing
    <3> QED
      BY <2>4, <3>1, <3>2, OnlyRenameWrites DEF DiskInv
  <2>5. temps'[i] = NoFile \/ i \in leaked'
    <3>1. ~ \E c \in Callers : pc[c] \in {"create", "write"} /\ action[c] = i
      BY <2>1 DEF Writing
    <3> QED
      BY <1>2, <1>3, <2>1, <3>1, TempsGrow DEF DiskInv
  <2> QED
    BY <2>2, <2>3, <2>4, <2>5
<1>5. ASSUME NEW c \in Callers, i = action[c], CheckTarget(c) \/ Discard(c), Go(c, "failed")
      PROVE  /\ i <= lastAction'
             /\ \A d \in Callers : pc'[d] \in Writing \ {"failed"} => action'[d] # i
             /\ \A p \in Paths : files'[p] \in {NoFile, Directory} \/ files'[p].action # i
             /\ temps'[i] = NoFile \/ i \in leaked'
  <2>1. /\ pc[c] \in {"check", "discard"} /\ UNCHANGED <<files, action, lastAction>>
        /\ pc'[c] = "failed" /\ \A d \in Callers \ {c} : pc'[d] = pc[d]
    BY <1>5 DEF CheckTarget, Discard, Fail, Go, diskVars, callVars, DiskInv, LocalInv, TypeOK
  <2>2. i \in 1..lastAction
    BY <1>5, <2>1 DEF DiskInv, LocalInv, Locals, Writing
  <2>3. \A d \in Callers \ {c} : pc[d] \in Writing => action[d] # i
    BY <1>5, <2>1, OwnTemp DEF DiskInv, Writing
  <2>4. \A p \in Paths : files[p] \in {NoFile, Directory} \/ files[p].action # i
    BY <1>5, <2>1 DEF DiskInv, UnwrittenInv, Writing
  <2>5. temps'[i] = NoFile \/ i \in leaked'
    <3>1. CASE CheckTarget(c)
      BY <1>5, <3>1 DEF CheckTarget, Fail, diskVars, DiskInv, FreshInv
    <3>2. CASE Discard(c)
      BY <1>2, <1>5, <3>2 DEF Discard, Fail, DiskInv, LocalInv, TypeOK
    <3> QED
      BY <1>5, <3>1, <3>2
  <2> QED
    BY <1>1, <1>2, <2>1, <2>2, <2>3, <2>4, <2>5
<1> QED
  BY <1>4, <1>5, FailedGrows

LEMMA DiskInvInit == Init => DiskInv
  BY LocalInvInit
  DEF Init, DiskInv, TempsInv, FilesInv, UnwrittenInv, FreshInv, FailedInv, Writing

LEMMA DiskInvPreserved == DiskInv /\ [Next]_vars => DiskInv'
<1> SUFFICES ASSUME DiskInv, [Next]_vars
             PROVE  DiskInv'
  OBVIOUS
<1>1. LocalInv'
  BY LocalInvPreserved DEF DiskInv
<1> QED
  BY <1>1, TempsPreserved, FilesPreserved, UnwrittenPreserved, FreshPreserved, FailedPreserved
  DEF DiskInv

\* No target shows a part of a write, whatever failed or died on the way.
THEOREM WholeTargets == Spec => []TargetsAreWhole
<1>1. DiskInv => TargetsAreWhole
  BY DEF DiskInv, FilesInv, TargetsAreWhole
<1> QED
  BY <1>1, DiskInvInit, DiskInvPreserved, PTL DEF Spec

\* A write that was answered with an error is at no target, then and for ever, and its
\* temporary file is gone or was given up; one that succeeds leaves none.
THEOREM TruthfulAnswers == Spec => []FailuresLeaveNoTrace
<1>1. DiskInv => FailuresLeaveNoTrace
  BY DEF DiskInv, FailedInv, TempsInv, FailuresLeaveNoTrace
<1> QED
  BY <1>1, DiskInvInit, DiskInvPreserved, PTL DEF Spec

-------------------------------------------------------------------------------
(* What the sweep may remove *)

\* It has listed temporary files, and targets that are named like them.
ListedInv == listed \cap Paths \subseteq TempLike

\* A temporary file that no write is still to deal with was given up; or nothing is
\* served, and the sweep is still to come or to remove it.
OrphanInv ==
    \A i \in Actions :
        temps[i] # NoFile =>
            \/ i \in leaked
            \/ \E c \in Callers : Using(c, i)
            \/ ~up /\ (boot = "none" \/ i \in listed)

SweepInv == DiskInv /\ ListedInv /\ OrphanInv

LEMMA ListedPreserved ==
    ASSUME ListedInv, [Next]_vars
    PROVE  ListedInv'
<1>1. listed' \subseteq listed \/ listed' = Candidates
  BY DEF Next, Work, vars, BeginWrite, CheckTarget, CreateTemp, WriteTemp, Discard, Fail, Rename,
         BeginRead, Stat, OpenAndRead, Return, Crash, Walk, Bind, RemoveTemp, RemoveTarget, bootVars
<1>2. Candidates \cap Paths \subseteq TempLike
  BY FileAssumption DEF Candidates, Actions
<1> QED
  BY <1>1, <1>2 DEF ListedInv

\* A handler that works leaves no temporary file behind that it has not given up.
LEMMA WorkOrphans ==
    ASSUME SweepInv, NEW c \in Callers, Work(c)
    PROVE  OrphanInv'
<1> USE DEF SweepInv, DiskInv
<1>1. UNCHANGED <<up, boot, listed>> /\ leaked \subseteq leaked'
  BY DEF Work, BeginWrite, CheckTarget, CreateTemp, WriteTemp, Discard, Fail, Rename, BeginRead, Stat,
         OpenAndRead, Return, bootVars, history
<1>2. \A d \in Callers \ {c} : pc'[d] = pc[d] /\ action'[d] = action[d]
  BY DEF Work, BeginWrite, CheckTarget, CreateTemp, WriteTemp, Discard, Fail, Rename, BeginRead, Stat,
         OpenAndRead, Return, callVars, Go, LocalInv, TypeOK
<1>3. \A i \in Actions : (\E d \in Callers \ {c} : Using(d, i)) => \E d \in Callers : Using(d, i)'
  BY <1>2 DEF Using
<1>4. CASE (\E p \in Paths, t \in Contents : BeginWrite(c, p, t)) \/ CheckTarget(c)
            \/ (\E p \in Paths : BeginRead(c, p)) \/ Stat(c) \/ OpenAndRead(c) \/ Return(c)
  <2>1. temps' = temps /\ pc[c] \notin {"write", "rename", "discard"}
    BY <1>4 DEF BeginWrite, CheckTarget, Fail, BeginRead, Stat, OpenAndRead, Return, diskVars
  <2> QED
    BY <1>1, <1>3, <2>1 DEF OrphanInv, Using
<1>5. CASE CreateTemp(c) \/ WriteTemp(c) \/ Rename(c) \/ Discard(c)
  <2>1. /\ action' = action
        /\ pc[c] \in {"create", "write", "rename", "discard"}
    BY <1>5 DEF CreateTemp, WriteTemp, Rename, Discard, Fail, callVars
  <2>2. action[c] \in Actions
    BY <2>1, FileAssumption DEF LocalInv, Locals, Writing, TypeOK, Actions
  <2>3. \A i \in Actions \ {action[c]} : temps'[i] = temps[i]
    BY <1>5, <2>2 DEF CreateTemp, WriteTemp, Rename, Discard, Fail, diskVars, LocalInv, TypeOK
  <2>4. \/ pc'[c] \in {"write", "rename", "discard"}
        \/ temps'[action[c]] = NoFile
        \/ action[c] \in leaked'
    BY <1>5, <2>2 DEF CreateTemp, WriteTemp, Rename, Discard, Fail, LocalInv, TypeOK, Go
  <2>5. ASSUME NEW i \in Actions, temps'[i] # NoFile
        PROVE  \/ i \in leaked'
               \/ \E d \in Callers : Using(d, i)'
               \/ ~up' /\ (boot' = "none" \/ i \in listed')
    <3>1. CASE i = action[c]
      <4>1. pc'[c] \in {"write", "rename", "discard"} => Using(c, i)'
        BY <2>1, <3>1 DEF Using
      <4> QED
        BY <2>4, <2>5, <3>1, <4>1
    <3>2. CASE i # action[c]
      <4>1. temps[i] # NoFile /\ ~Using(c, i)
        BY <2>3, <2>5, <3>2 DEF Using
      <4> QED
        BY <1>1, <1>3, <4>1 DEF OrphanInv
    <3> QED
      BY <3>1, <3>2
  <2> QED
    BY <2>5 DEF OrphanInv
<1> QED
  BY <1>4, <1>5 DEF Work

LEMMA OrphansPreserved ==
    ASSUME SweepInv, [Next]_vars
    PROVE  OrphanInv'
<1>1. CASE UNCHANGED vars
  BY <1>1 DEF vars, SweepInv, OrphanInv, Using
<1>2. CASE Crash
  BY <1>2 DEF Crash, SweepInv, OrphanInv, diskVars
<1>3. CASE Walk
  <2>1. UNCHANGED <<temps, pc, action, up>> /\ leaked \subseteq leaked'
    BY <1>3 DEF Walk, diskVars, callVars
  <2>2. \A i \in Actions : temps[i] # NoFile => i \in leaked' \/ i \in listed'
    BY <1>3 DEF Walk, Candidates
  <2> QED
    BY <2>1, <2>2 DEF SweepInv, OrphanInv, Using
<1>4. CASE Bind
  <2>1. UNCHANGED <<temps, pc, action, leaked>> /\ listed = {} /\ boot = "sweep"
    BY <1>4 DEF Bind, diskVars, callVars, history
  <2> QED
    BY <2>1 DEF SweepInv, OrphanInv, Using
<1>5. ASSUME NEW j \in Actions, RemoveTemp(j)
      PROVE  OrphanInv'
  <2>1. /\ UNCHANGED <<pc, action, up, boot>> /\ listed' = listed \ {j}
        /\ leaked \subseteq leaked'
        /\ \A i \in Actions \ {j} : temps'[i] = temps[i]
        /\ temps'[j] = NoFile \/ j \in leaked'
    BY <1>5 DEF RemoveTemp, callVars, SweepInv, DiskInv, LocalInv, TypeOK
  <2> QED
    BY <2>1 DEF SweepInv, OrphanInv, Using
<1>6. ASSUME NEW p \in Paths, RemoveTarget(p)
      PROVE  OrphanInv'
  <2>1. UNCHANGED <<temps, pc, action, up, boot, leaked>> /\ listed' = listed \ {p}
    BY <1>6 DEF RemoveTarget, callVars
  <2>2. p \notin Actions
    BY FileAssumption DEF Actions
  <2> QED
    BY <2>1, <2>2 DEF SweepInv, OrphanInv, Using
<1> QED
  BY <1>1, <1>2, <1>3, <1>4, <1>5, <1>6, WorkOrphans DEF Next

LEMMA SweepInvInit == Init => SweepInv
  BY DiskInvInit DEF Init, SweepInv, ListedInv, OrphanInv

LEMMA SweepInvPreserved == SweepInv /\ [Next]_vars => SweepInv'
  BY DiskInvPreserved, ListedPreserved, OrphansPreserved DEF SweepInv

\* While the daemon serves, every temporary file is in use, or was given up by a
\* removal, a walk or a process that failed under a sweep.
THEOREM Swept == Spec => []NoOrphans
<1>1. SweepInv => NoOrphans
  <2> SUFFICES ASSUME SweepInv, up, NEW i \in Actions, temps[i] # NoFile
               PROVE  i \in leaked \/ \E c \in Callers : Using(c, i)
    BY DEF NoOrphans
  <2> QED
    BY DEF SweepInv, OrphanInv
<1> QED
  BY <1>1, SweepInvInit, SweepInvPreserved, PTL DEF Spec

-------------------------------------------------------------------------------
(* What may change at a path *)

LEMMA OnlySweepRemoves ==
    ASSUME LocalInv, [Next]_vars, ~\E c \in Callers : Rename(c), NEW p \in Paths
    PROVE  files'[p] = files[p] \/ (files'[p] = NoFile /\ p \in listed)
  BY DEF Next, Work, vars, LocalInv, TypeOK, BeginWrite, CheckTarget, CreateTemp, WriteTemp, Discard, Fail,
         BeginRead, Stat, OpenAndRead, Return, Crash, Walk, Bind, RemoveTemp, RemoveTarget, diskVars

\* A file lasts until a write that succeeds replaces it, or the sweep takes it for a
\* temporary file.
THEOREM Durable == Spec => DurableUntilReplaced
<1>1. SweepInv /\ [Next]_vars =>
        [\A p \in Paths :
            files'[p] # files[p] =>
                \/ \E c \in Callers : /\ pc[c] # "written" /\ pc'[c] = "written"
                                      /\ path[c] = p /\ files'[p] = temps[action[c]]
                \/ p \in TempLike /\ files'[p] = NoFile]_vars
  <2> SUFFICES ASSUME SweepInv, [Next]_vars, NEW p \in Paths, files'[p] # files[p]
               PROVE  \/ \E c \in Callers : /\ pc[c] # "written" /\ pc'[c] = "written"
                                            /\ path[c] = p /\ files'[p] = temps[action[c]]
                      \/ p \in TempLike /\ files'[p] = NoFile
    OBVIOUS
  <2>1. CASE \E c \in Callers : Rename(c)
    <3>1. PICK c \in Callers : Rename(c)
      BY <2>1
    <3>2. pc[c] # "written" /\ pc'[c] = "written" /\ path[c] = p /\ files'[p] = temps[action[c]]
      BY <3>1, RenameWrites DEF SweepInv, Rename
    <3> QED
      BY <3>2
  <2>2. CASE ~\E c \in Callers : Rename(c)
    BY <2>2, OnlySweepRemoves DEF SweepInv, DiskInv, ListedInv
  <2> QED
    BY <2>1, <2>2
<1> QED
  BY <1>1, SweepInvInit, SweepInvPreserved, PTL DEF Spec, DurableUntilReplaced

-------------------------------------------------------------------------------
(* Reads *)

\* Between its stat and its open a reader's file is the one it asked about, unless
\* somebody replaced it.
ReadInv ==
    \A c \in Callers :
        pc[c] = "open" /\ c \notin raced =>
            files[path[c]] \in Version /\ files[path[c]].written = total[c]

DescribedInv == LocalInv /\ ReadInv /\ ReadDescribesItsFile

\* Whoever changes a file marks those who are about to open it.
LEMMA ChangesAreMarked ==
    ASSUME LocalInv, [Next]_vars, NEW c \in Callers, pc[c] = "open", pc'[c] = "open", c \notin raced'
    PROVE  files'[path[c]] = files[path[c]] /\ path'[c] = path[c] /\ total'[c] = total[c]
              /\ c \notin raced
<1> USE DEF LocalInv, TypeOK
<1>1. path[c] \in Paths
  BY DEF Locals
<1>2. CASE UNCHANGED vars
  BY <1>2 DEF vars
<1>3. ASSUME NEW d \in Callers, Rename(d)
      PROVE  files'[path[c]] = files[path[c]] /\ path'[c] = path[c] /\ total'[c] = total[c]
                /\ c \notin raced
  BY <1>1, <1>3 DEF Rename, Replaces, callVars, diskVars
<1>4. ASSUME NEW p \in Paths, RemoveTarget(p)
      PROVE  files'[path[c]] = files[path[c]] /\ path'[c] = path[c] /\ total'[c] = total[c]
                /\ c \notin raced
  BY <1>1, <1>4 DEF RemoveTarget, Replaces, callVars
<1>5. ASSUME NEW d \in Callers, Work(d), ~Rename(d)
      PROVE  files'[path[c]] = files[path[c]] /\ path'[c] = path[c] /\ total'[c] = total[c]
                /\ c \notin raced
  BY <1>5 DEF Work, BeginWrite, CheckTarget, CreateTemp, WriteTemp, Discard, Fail, BeginRead, Stat,
         OpenAndRead, Return, diskVars, callVars, history, Go
<1>6. CASE Walk \/ Bind \/ \E i \in Actions : RemoveTemp(i)
  BY <1>6 DEF Walk, Bind, RemoveTemp, diskVars, callVars, history
<1>7. CASE Crash
  BY <1>7 DEF Crash
<1> QED
  BY <1>2, <1>3, <1>4, <1>5, <1>6, <1>7 DEF Next

\* Only its stat takes a reader to its open, and only its open to the end.
LEMMA ReadersAdvance ==
    ASSUME LocalInv, [Next]_vars, NEW c \in Callers
    PROVE  /\ pc'[c] = "open" => pc[c] = "open" \/ Stat(c)
           /\ pc'[c] = "read" => pc[c] = "read" \/ OpenAndRead(c)
<1> USE DEF LocalInv, TypeOK
<1>1. CASE UNCHANGED vars
  BY <1>1 DEF vars
<1>2. ASSUME NEW d \in Callers \ {c}, Work(d)
      PROVE  pc'[c] = pc[c]
  BY <1>2 DEF Work, BeginWrite, CheckTarget, CreateTemp, WriteTemp, Discard, Fail, Rename, BeginRead,
         Stat, OpenAndRead, Return, Go
<1>3. CASE Work(c)
  BY <1>3 DEF Work, BeginWrite, CheckTarget, CreateTemp, WriteTemp, Discard, Fail, Rename, BeginRead,
         Stat, OpenAndRead, Return, Go
<1>4. CASE Walk \/ Bind \/ (\E i \in Actions : RemoveTemp(i)) \/ \E p \in Paths : RemoveTarget(p)
  BY <1>4 DEF Walk, Bind, RemoveTemp, RemoveTarget
<1>5. CASE Crash
  BY <1>5 DEF Crash
<1> QED
  BY <1>1, <1>2, <1>3, <1>4, <1>5 DEF Next

LEMMA ReadInvPreserved ==
    ASSUME LocalInv, ReadInv, [Next]_vars
    PROVE  ReadInv'
<1> SUFFICES ASSUME NEW c \in Callers, pc'[c] = "open", c \notin raced'
             PROVE  files'[path'[c]] \in Version /\ files'[path'[c]].written = total'[c]
  BY DEF ReadInv
<1>1. CASE pc[c] = "open"
  BY <1>1, ChangesAreMarked DEF ReadInv
<1>2. CASE Stat(c)
  <2>1. files' = files /\ path' = path /\ path[c] \in Paths
    BY <1>2 DEF Stat, diskVars, LocalInv, Locals
  <2>2. files[path[c]] \notin {NoFile, Directory} /\ total'[c] = files[path[c]].written
    BY <1>2 DEF Stat, Go, LocalInv, TypeOK
  <2> QED
    BY <2>1, <2>2 DEF LocalInv, TypeOK
<1> QED
  BY <1>1, <1>2, ReadersAdvance

\* A length that is read in full is not cut, and one that is cut is not read in full.
LEMMA CutIsTold ==
    ASSUME TypeOK, NEW c \in Callers
    PROVE  ~Truncated(c) <=> ReadSize(c) = total[c]
  BY FileAssumption DEF Truncated, ReadSize, TypeOK

LEMMA DescribedPreserved ==
    ASSUME DescribedInv, LocalInv', [Next]_vars
    PROVE  ReadDescribesItsFile'
<1> USE DEF DescribedInv
<1> SUFFICES ASSUME NEW c \in Callers, pc'[c] = "read", c \notin raced'
             PROVE  total'[c] = got'[c].written
  <2>1. \A c \in Callers : ~Truncated(c)' <=> ReadSize(c)' = total'[c]
    BY CutIsTold, FileAssumption DEF LocalInv, Truncated, ReadSize, TypeOK
  <2> QED
    BY <2>1 DEF ReadDescribesItsFile
<1>1. CASE pc[c] = "read"
  <2> DEFINE Same == total'[c] = total[c] /\ got'[c] = got[c] /\ c \notin raced
  <2>1. ASSUME UNCHANGED vars
        PROVE  Same
    BY <2>1 DEF vars
  <2>2. ASSUME NEW d \in Callers \ {c}, Work(d)
        PROVE  Same
    BY <2>2 DEF Work, BeginWrite, CheckTarget, CreateTemp, WriteTemp, Discard, Fail, Rename, BeginRead,
         Stat, OpenAndRead, Return, callVars, history, LocalInv, TypeOK
  <2>3. ~Work(c)
    BY <1>1 DEF Work, BeginWrite, CheckTarget, CreateTemp, WriteTemp, Discard, Fail, Rename, BeginRead,
         Stat, OpenAndRead, Return, LocalInv, TypeOK, Go
  <2>4. ASSUME Walk \/ Bind \/ (\E i \in Actions : RemoveTemp(i)) \/ \E p \in Paths : RemoveTarget(p)
        PROVE  Same
    BY <2>4 DEF Walk, Bind, RemoveTemp, RemoveTarget, callVars, history
  <2>5. ~Crash
    BY DEF Crash
  <2>6. Same
    BY <2>1, <2>2, <2>3, <2>4, <2>5 DEF Next
  <2> QED
    BY <1>1, <2>6 DEF ReadDescribesItsFile
<1>2. CASE OpenAndRead(c)
  <2>1. /\ pc[c] = "open" /\ raced' = raced /\ total' = total
        /\ got'[c] = files[path[c]]
    BY <1>2 DEF OpenAndRead, Go, history, LocalInv, TypeOK
  <2> QED
    BY <2>1 DEF ReadInv
<1> QED
  BY <1>1, <1>2, ReadersAdvance

\* A read tells the length and the truncation of the very file it returns, unless the
\* target was replaced between its stat and its open.
THEOREM ReadsDescribe == Spec => []ReadDescribesItsFile
<1>1. Init => DescribedInv
  BY LocalInvInit DEF Init, DescribedInv, ReadInv, ReadDescribesItsFile
<1>2. DescribedInv /\ [Next]_vars => DescribedInv'
  <2> SUFFICES ASSUME DescribedInv, [Next]_vars
               PROVE  DescribedInv'
    OBVIOUS
  <2>1. LocalInv'
    BY LocalInvPreserved DEF DescribedInv
  <2> QED
    BY <2>1, ReadInvPreserved, DescribedPreserved DEF DescribedInv
<1>3. DescribedInv => ReadDescribesItsFile
  BY DEF DescribedInv
<1> QED
  BY <1>1, <1>2, <1>3, PTL DEF Spec

-------------------------------------------------------------------------------
(* The files are atomic *)

\* No write is under way to a directory, and no sweep is to remove one.
SolidInv ==
    /\ \A c \in Callers : pc[c] \in {"create", "write", "rename"} => files[path[c]] # Directory
    /\ \A p \in listed \cap Paths : files[p] # Directory

AtomicInv == SweepInv /\ SolidInv

LEMMA RenamedIsFile ==
    ASSUME SweepInv, NEW c \in Callers, Rename(c), NEW p \in Paths
    PROVE  /\ files'[p] # files[p] => pc'[c] = "written" /\ p = path[c]
           /\ pc'[c] = "written" => files'[path[c]] = temps[action[c]]
           /\ pc'[c] = "written" => temps[action[c]] \in Version
           /\ pc'[c] = "written" => Whole(temps[action[c]]) /\ temps[action[c]].text = text[c]
<1> USE DEF SweepInv, DiskInv
<1>1. pc[c] = "rename" /\ action[c] \in Actions /\ path[c] \in Paths /\ text[c] \in Contents
  BY FileAssumption DEF Rename, LocalInv, Locals, Writing, TypeOK, Actions
<1>2. pc'[c] = "written" =>
        temps[action[c]] # NoFile /\ files' = [files EXCEPT ![path[c]] = temps[action[c]]]
  BY DEF Rename, Go, LocalInv, TypeOK
<1>3. pc'[c] # "written" => files' = files
  BY DEF Rename, Go, LocalInv, TypeOK, diskVars
<1>4. pc'[c] = "written" => temps[action[c]] \in Version
  BY <1>1, <1>2 DEF LocalInv, TypeOK
<1>5. pc'[c] = "written" => Whole(temps[action[c]]) /\ temps[action[c]].text = text[c]
  BY <1>1, <1>2 DEF TempsInv, Whole
<1> QED
  BY <1>1, <1>2, <1>3, <1>4, <1>5 DEF LocalInv, TypeOK

\* Nothing turns into a directory.
LEMMA NoNewDirectory ==
    ASSUME SweepInv, [Next]_vars, NEW p \in Paths, files'[p] = Directory
    PROVE  files[p] = Directory
<1>1. CASE \E c \in Callers : Rename(c)
  BY <1>1, RenamedIsFile, KindsAssumption
<1>2. CASE ~\E c \in Callers : Rename(c)
  BY <1>2, OnlySweepRemoves, KindsAssumption DEF SweepInv, DiskInv
<1> QED
  BY <1>1, <1>2
LEMMA SolidPreserved ==
    ASSUME AtomicInv, [Next]_vars
    PROVE  SolidInv'
<1> USE DEF AtomicInv
<1>1. ASSUME NEW c \in Callers, pc'[c] \in {"create", "write", "rename"}
      PROVE  path[c] \in Paths /\ path'[c] = path[c] /\ files[path[c]] # Directory
  <2> DEFINE Kept == pc[c] \in {"create", "write", "rename"} /\ path'[c] = path[c]
             Checked == pc[c] = "check" /\ path' = path /\ files[path[c]] # Directory
  <2>1. CASE UNCHANGED vars
    BY <1>1, <2>1 DEF vars, SolidInv, SweepInv, DiskInv, LocalInv, Locals, Writing
  <2>2. CASE Next
    <3>1. ASSUME NEW d \in Callers \ {c}, Work(d)
          PROVE  pc'[c] = pc[c] /\ path'[c] = path[c]
      BY <3>1 DEF Work, BeginWrite, CheckTarget, CreateTemp, WriteTemp, Discard, Fail, Rename, BeginRead,
           Stat, OpenAndRead, Return, Go, callVars, SweepInv, DiskInv, LocalInv, TypeOK
    <3>2. ASSUME Work(c)
          PROVE  Kept \/ Checked
      BY <1>1, <3>2 DEF Work, BeginWrite, CheckTarget, CreateTemp, WriteTemp, Discard, Fail, Rename,
           BeginRead, Stat, OpenAndRead, Return, Go, callVars, SweepInv, DiskInv, LocalInv, TypeOK
    <3>3. ASSUME Walk \/ Bind \/ (\E i \in Actions : RemoveTemp(i)) \/ \E p \in Paths : RemoveTarget(p)
          PROVE  Kept
      BY <1>1, <3>3 DEF Walk, Bind, RemoveTemp, RemoveTarget, callVars
    <3>4. ~Crash
      BY <1>1 DEF Crash
    <3>5. Kept \/ Checked
      BY <1>1, <2>2, <3>1, <3>2, <3>3, <3>4 DEF Next
    <3> HIDE DEF Kept, Checked
    <3>6. path[c] \in Paths
      BY <3>5 DEF Kept, Checked, SweepInv, DiskInv, LocalInv, Locals, Writing
    <3> QED
      BY <3>5, <3>6 DEF Kept, Checked, SolidInv
  <2> QED
    BY <2>1, <2>2
<1>2. ASSUME NEW p \in listed' \cap Paths
      PROVE  files[p] # Directory
  <2>1. listed' \subseteq listed \/ listed' = Candidates
    BY DEF Next, Work, vars, BeginWrite, CheckTarget, CreateTemp, WriteTemp, Discard, Fail, Rename,
           BeginRead, Stat, OpenAndRead, Return, Crash, Walk, Bind, RemoveTemp, RemoveTarget, bootVars
  <2>2. p \in Candidates => files[p] # Directory
    BY FileAssumption DEF Candidates, Actions
  <2> QED
    BY <2>1, <2>2 DEF SolidInv
<1> QED
  BY <1>1, <1>2, NoNewDirectory DEF SolidInv

LEMMA AtomicInvInit == Init => AtomicInv
  BY SweepInvInit DEF Init, AtomicInv, SolidInv

LEMMA AtomicInvPreserved == AtomicInv /\ [Next]_vars => AtomicInv'
  BY SweepInvPreserved, SolidPreserved DEF AtomicInv

\* A step of c leaves the calls of the others as they were seen.
LEMMA OthersCalls ==
    ASSUME TypeOK, NEW c \in Callers, Work(c)
    PROVE  \A d \in Callers \ {c} :
              Call'[d] = Call[d] /\ Data'[d] = Data[d] /\ path'[d] = path[d]
<1>1. \A d \in Callers \ {c} :
        /\ pc'[d] = pc[d] /\ path'[d] = path[d] /\ text'[d] = text[d]
        /\ total'[d] = total[d] /\ got'[d] = got[d]
  BY DEF Work, BeginWrite, CheckTarget, CreateTemp, WriteTemp, Discard, Fail, Rename, BeginRead, Stat,
         OpenAndRead, Return, callVars, Go, TypeOK
<1> QED
  BY <1>1 DEF Call, CallOf, Data, DataOf, ReadSize

\* Hence what it does to its own is what it does to them all.
LEMMA OneCall ==
    ASSUME TypeOK, NEW c \in Callers, Work(c)
    PROVE  /\ Call' = [Call EXCEPT ![c] = CallOf(c)']
           /\ Data' = [Data EXCEPT ![c] = DataOf(c)']
           /\ Call[c] = CallOf(c) /\ Data[c] = DataOf(c)
<1>1. \A d \in Callers \ {c} : Call'[d] = Call[d] /\ Data'[d] = Data[d]
  BY OthersCalls
<1>2. Call'[c] = CallOf(c)' /\ Data'[c] = DataOf(c)'
  BY DEF Call, Data
<1>3. DOMAIN Call = Callers /\ DOMAIN Data = Callers /\ DOMAIN Call' = Callers /\ DOMAIN Data' = Callers
  BY DEF Call, Data
<1>4. Call = [d \in Callers |-> Call[d]] /\ Data = [d \in Callers |-> Data[d]]
  BY DEF Call, Data
<1>5. Call' = [d \in Callers |-> Call'[d]] /\ Data' = [d \in Callers |-> Data'[d]]
  BY DEF Call, Data
<1>6. Call' = [Call EXCEPT ![c] = CallOf(c)'] /\ Data' = [Data EXCEPT ![c] = DataOf(c)']
  BY <1>1, <1>2, <1>3, <1>4, <1>5
<1> QED
  BY <1>6 DEF Call, Data

LEMMA HeldStays ==
    ASSUME files' = files
    PROVE  Held' = Held
  BY DEF Held, HeldAt

\* The file of a target is whole: it is seen as its text.
LEMMA HeldText ==
    ASSUME FilesInv, NEW p \in Paths
    PROVE  Held[p] = IF files[p] \in {NoFile, Directory} THEN files[p] ELSE files[p].text
  BY DEF FilesInv, Held, HeldAt
\* What a step of c takes its call from and to.
LEMMA WriteSteps ==
    ASSUME TypeOK, NEW c \in Callers
    PROVE  /\ \A p \in Paths, t \in Contents : BeginWrite(c, p, t) =>
                 /\ pc[c] = "idle" /\ pc'[c] = "check" /\ text'[c] = t
                 /\ files' = files /\ path' = [path EXCEPT ![c] = p]
           /\ CheckTarget(c) \/ CreateTemp(c) \/ WriteTemp(c) =>
                 /\ pc[c] \in {"check", "create", "write"}
                 /\ pc'[c] \in {"create", "write", "rename", "discard", "failed"}
                 /\ UNCHANGED <<files, path, text>>
           /\ Rename(c) =>
                 /\ pc[c] = "rename" /\ pc'[c] \in {"written", "discard"}
                 /\ pc'[c] = "written" => files' = [files EXCEPT ![path[c]] = temps[action[c]]]
                 /\ pc'[c] = "discard" => files' = files
                 /\ UNCHANGED <<path, text>>
           /\ Discard(c) =>
                 /\ pc[c] = "discard" /\ pc'[c] = "failed" /\ UNCHANGED <<files, path, text>>
  BY DEF TypeOK, BeginWrite, CheckTarget, CreateTemp, WriteTemp, Rename, Discard, Fail, Go, diskVars, callVars

LEMMA BeginWriteRefines ==
    ASSUME TypeOK, NEW c \in Callers, NEW p \in Paths, NEW t \in Contents, BeginWrite(c, p, t)
    PROVE  Atomic!Write(c, p, t)
<1>1. /\ pc[c] = "idle" /\ pc'[c] = "check" /\ text'[c] = t
      /\ files' = files /\ path' = [path EXCEPT ![c] = p]
  BY WriteSteps
<1>2. CallOf(c) = "none" /\ CallOf(c)' = "writing" /\ DataOf(c)' = t
  BY <1>1 DEF CallOf, DataOf
<1>3. /\ Call' = [Call EXCEPT ![c] = CallOf(c)'] /\ Data' = [Data EXCEPT ![c] = DataOf(c)']
      /\ Call[c] = CallOf(c)
  BY OneCall DEF Work
<1>4. Held' = Held
  BY <1>1, HeldStays
<1> QED
  BY <1>1, <1>2, <1>3, <1>4 DEF Atomic!Write, Atomic!Move

LEMMA WritingRefines ==
    ASSUME TypeOK, NEW c \in Callers,
           CheckTarget(c) \/ CreateTemp(c) \/ WriteTemp(c) \/ Discard(c)
    PROVE  Atomic!GiveUp(c) \/ UNCHANGED Atomic!atomicVars
<1>1. /\ pc[c] \in {"check", "create", "write", "discard"}
      /\ pc'[c] \in {"create", "write", "rename", "discard", "failed"}
      /\ UNCHANGED <<files, path, text>>
  BY WriteSteps
<1>2. /\ CallOf(c) = "writing"
      /\ CallOf(c)' = IF pc'[c] = "failed" THEN "failed" ELSE "writing"
      /\ DataOf(c)' = DataOf(c)
  BY <1>1 DEF CallOf, DataOf
<1>3. /\ Call' = [Call EXCEPT ![c] = CallOf(c)'] /\ Data' = [Data EXCEPT ![c] = DataOf(c)']
      /\ Call[c] = CallOf(c) /\ Data[c] = DataOf(c)
  BY OneCall DEF Work
<1>4. Held' = Held
  BY <1>1, HeldStays
<1>5. Data' = Data
  BY <1>2, <1>3 DEF Data
<1>6. CASE pc'[c] = "failed"
  BY <1>1, <1>2, <1>3, <1>4, <1>5, <1>6 DEF Atomic!GiveUp, Atomic!Move
<1>7. CASE pc'[c] # "failed"
  <2>1. Call' = Call
    BY <1>2, <1>3, <1>7 DEF Call
  <2> QED
    BY <1>1, <1>4, <1>5, <2>1 DEF Atomic!atomicVars
<1> QED
  BY <1>6, <1>7

\* The rename is the instant at which the write happens.
LEMMA RenameRefines ==
    ASSUME AtomicInv, NEW c \in Callers, Rename(c)
    PROVE  Atomic!Put(c) \/ UNCHANGED Atomic!atomicVars
<1> USE DEF AtomicInv, SweepInv, DiskInv, LocalInv
<1>1. /\ pc[c] = "rename" /\ pc'[c] \in {"written", "discard"} /\ UNCHANGED <<path, text>>
      /\ pc'[c] = "discard" => files' = files
      /\ pc'[c] = "written" => files' = [files EXCEPT ![path[c]] = temps[action[c]]]
  BY WriteSteps
<1>2. /\ CallOf(c) = "writing"
      /\ CallOf(c)' = IF pc'[c] = "written" THEN "wrote" ELSE "writing"
      /\ DataOf(c)' = text[c] /\ DataOf(c) = text[c]
  BY <1>1 DEF CallOf, DataOf
<1>3. /\ Call' = [Call EXCEPT ![c] = CallOf(c)'] /\ Data' = [Data EXCEPT ![c] = DataOf(c)']
      /\ Call[c] = CallOf(c) /\ Data[c] = DataOf(c)
  BY OneCall DEF Work
<1>4. Data' = Data
  BY <1>2, <1>3 DEF Data
<1>5. CASE pc'[c] = "discard"
  <2>1. Call' = Call
    BY <1>2, <1>3, <1>5 DEF Call
  <2>2. Held' = Held
    BY <1>1, <1>5, HeldStays
  <2> QED
    BY <1>1, <1>4, <2>1, <2>2 DEF Atomic!atomicVars
<1>6. CASE pc'[c] = "written"
  <2>1. path[c] \in Paths /\ text[c] \in Contents
    BY <1>1 DEF Locals, Writing
  <2>2. Held[path[c]] # Directory
    <3>1. files[path[c]] # Directory
      BY <1>1 DEF SolidInv
    <3>2. files[path[c]] \in Version => files[path[c]].text # Directory
      BY KindsAssumption DEF Version
    <3> QED
      BY <2>1, <3>1, <3>2, HeldText, KindsAssumption DEF TypeOK
  <2>3. Held' = [Held EXCEPT ![path[c]] = text[c]]
    <3>1. /\ temps[action[c]] \notin {NoFile, Directory}
          /\ Whole(temps[action[c]]) /\ temps[action[c]].text = text[c]
      BY <1>6, <2>1, RenamedIsFile, KindsAssumption
    <3>2. \A p \in Paths \ {path[c]} : files'[p] = files[p] /\ HeldAt(p)' = HeldAt(p)
      <4>1. \A p \in Paths \ {path[c]} : files'[p] = files[p]
        BY <1>1, <1>6 DEF TypeOK
      <4> QED
        BY <4>1 DEF HeldAt
    <3>3. files'[path[c]] = temps[action[c]]
      BY <1>1, <1>6, <2>1 DEF TypeOK
    <3>4. HeldAt(path[c])' = text[c]
      BY <1>1, <3>1, <3>3 DEF HeldAt, Whole
    <3> QED
      BY <1>1, <2>1, <3>2, <3>4 DEF Held
  <2> QED
    BY <1>1, <1>2, <1>3, <1>4, <1>6, <2>2, <2>3 DEF Atomic!Put, Atomic!Move
<1> QED
  BY <1>1, <1>5, <1>6
LEMMA BeginReadRefines ==
    ASSUME TypeOK, NEW c \in Callers, NEW p \in Paths, BeginRead(c, p)
    PROVE  Atomic!Read(c, p)
<1>1. /\ pc[c] = "idle" /\ pc'[c] = "stat" /\ text' = text
      /\ files' = files /\ path' = [path EXCEPT ![c] = p]
  BY DEF BeginRead, Go, TypeOK, diskVars
<1>2. CallOf(c) = "none" /\ CallOf(c)' = "reading" /\ DataOf(c)' = DataOf(c)
  BY <1>1 DEF CallOf, DataOf
<1>3. /\ Call' = [Call EXCEPT ![c] = CallOf(c)'] /\ Data' = [Data EXCEPT ![c] = DataOf(c)']
      /\ Call[c] = CallOf(c) /\ Data[c] = DataOf(c)
  BY OneCall DEF Work
<1>4. Data' = Data
  BY <1>2, <1>3 DEF Data
<1>5. Held' = Held
  BY <1>1, HeldStays
<1> QED
  BY <1>1, <1>2, <1>3, <1>4, <1>5 DEF Atomic!Read, Atomic!Move

LEMMA StatRefines ==
    ASSUME TypeOK, NEW c \in Callers, Stat(c)
    PROVE  Atomic!Miss(c) \/ UNCHANGED Atomic!atomicVars
<1>1. /\ pc[c] = "stat" /\ pc'[c] \in {"open", "unread"} /\ UNCHANGED <<files, path, text>>
  BY DEF Stat, Go, TypeOK, diskVars
<1>2. /\ CallOf(c) = "reading"
      /\ CallOf(c)' = IF pc'[c] = "unread" THEN "missed" ELSE "reading"
      /\ DataOf(c)' = DataOf(c)
  BY <1>1 DEF CallOf, DataOf
<1>3. /\ Call' = [Call EXCEPT ![c] = CallOf(c)'] /\ Data' = [Data EXCEPT ![c] = DataOf(c)']
      /\ Call[c] = CallOf(c) /\ Data[c] = DataOf(c)
  BY OneCall DEF Work
<1>4. Held' = Held /\ Data' = Data
  BY <1>1, <1>2, <1>3, HeldStays DEF Data
<1>5. CASE pc'[c] = "unread"
  BY <1>1, <1>2, <1>3, <1>4, <1>5 DEF Atomic!Miss, Atomic!Move
<1>6. CASE pc'[c] = "open"
  <2>1. Call' = Call
    BY <1>2, <1>3, <1>6 DEF Call
  <2> QED
    BY <1>1, <1>4, <2>1 DEF Atomic!atomicVars
<1> QED
  BY <1>1, <1>5, <1>6

\* The open is the instant at which the read happens: it shows the start of the text
\* that is there then, if not always as much of it as it could.
LEMMA OpenRefines ==
    ASSUME AtomicInv, NEW c \in Callers, OpenAndRead(c)
    PROVE  Atomic!Get(c) \/ Atomic!Miss(c)
<1> USE DEF AtomicInv, SweepInv, DiskInv, LocalInv
<1>1. /\ pc[c] = "open" /\ pc'[c] \in {"read", "unread"}
      /\ UNCHANGED <<files, path, text, total>>
  BY DEF OpenAndRead, Go, TypeOK, diskVars
<1>2. /\ CallOf(c) = "reading"
      /\ CallOf(c)' = IF pc'[c] = "read" THEN "got" ELSE "missed"
  BY <1>1 DEF CallOf
<1>3. /\ Call' = [Call EXCEPT ![c] = CallOf(c)'] /\ Data' = [Data EXCEPT ![c] = DataOf(c)']
      /\ Call[c] = CallOf(c) /\ Data[c] = DataOf(c)
  BY OneCall DEF Work
<1>4. Held' = Held
  BY <1>1, HeldStays
<1>5. CASE pc'[c] = "unread"
  <2>1. DataOf(c)' = DataOf(c)
    BY <1>1, <1>5 DEF DataOf
  <2>2. Data' = Data
    BY <1>3, <2>1 DEF Data
  <2> QED
    BY <1>1, <1>2, <1>3, <1>4, <1>5, <2>2 DEF Atomic!Miss, Atomic!Move
<1>6. CASE pc'[c] = "read"
  <2> DEFINE v == files[path[c]]
  <2>1. path[c] \in Paths /\ v \in Version /\ v.written >= ReadSize(c) /\ got'[c] = v
    BY <1>1, <1>6 DEF OpenAndRead, Go, TypeOK, Locals, Openable
  <2>2. v.text \in Contents /\ v.written = Len[v.text]
    BY <2>1, KindsAssumption DEF FilesInv, Whole, Version
  <2>3. Held[path[c]] = v.text
    BY <2>1, HeldText, KindsAssumption
  <2>4. DataOf(c)' = [text |-> v.text, shown |-> ReadSize(c)]
    BY <1>1, <1>6, <2>1 DEF DataOf, ReadSize
  <2>5. ReadSize(c) \in 0..Len[v.text] /\ ReadSize(c) <= MaxRead
    <3>1. total[c] \in Nat /\ MaxRead \in Nat /\ Len[v.text] \in Nat
      BY <2>2, FileAssumption DEF TypeOK
    <3> QED
      BY <2>1, <2>2, <3>1 DEF ReadSize
  <2> HIDE DEF v
  <2>6. DataOf(c)' \in Atomic!Shown(v.text)
    BY <2>4, <2>5 DEF Atomic!Shown
  <2>7. Held[path[c]] \in Contents /\ DataOf(c)' \in Atomic!Shown(Held[path[c]])
    BY <2>2, <2>3, <2>6
  <2> QED
    BY <1>1, <1>2, <1>3, <1>4, <1>6, <2>7 DEF Atomic!Get, Atomic!Move
<1> QED
  BY <1>1, <1>5, <1>6

LEMMA ReturnRefines ==
    ASSUME TypeOK, NEW c \in Callers, Return(c)
    PROVE  Atomic!Return(c)
<1>1. /\ pc[c] \in {"written", "failed", "read", "unread"} /\ pc'[c] = "idle" /\ text'[c] = NoFile
      /\ files' = files /\ path' = [path EXCEPT ![c] = NoFile]
  BY DEF Return, Go, TypeOK, diskVars
<1>2. /\ CallOf(c) \in {"wrote", "failed", "got", "missed"}
      /\ CallOf(c)' = "none" /\ DataOf(c)' = NoFile
  BY <1>1 DEF CallOf, DataOf
<1>3. /\ Call' = [Call EXCEPT ![c] = CallOf(c)'] /\ Data' = [Data EXCEPT ![c] = DataOf(c)']
      /\ Call[c] = CallOf(c)
  BY OneCall DEF Work
<1>4. Held' = Held
  BY <1>1, HeldStays
<1> QED
  BY <1>1, <1>2, <1>3, <1>4 DEF Atomic!Return, Atomic!Move

LEMMA CrashRefines ==
    ASSUME TypeOK, Crash
    PROVE  Atomic!Lose
<1>1. /\ files' = files /\ path' = [c \in Callers |-> NoFile]
      /\ \A c \in Callers : pc'[c] = "idle" /\ text'[c] = NoFile
  BY DEF Crash, diskVars
<1>2. \A c \in Callers : CallOf(c)' = "none" /\ DataOf(c)' = NoFile
  BY <1>1 DEF CallOf, DataOf
<1>3. Call' = [c \in Callers |-> "none"] /\ Data' = [c \in Callers |-> NoFile]
  BY <1>2 DEF Call, Data
<1>4. Held' = Held
  BY <1>1, HeldStays
<1> QED
  BY <1>1, <1>3, <1>4 DEF Atomic!Lose

\* Nothing of a call is seen to change in a step that leaves its locals alone.
LEMMA CallsStay ==
    ASSUME UNCHANGED <<pc, callVars>>
    PROVE  UNCHANGED <<Call, Data, path>>
  BY DEF callVars, Call, CallOf, Data, DataOf, ReadSize

LEMMA RemoveTargetRefines ==
    ASSUME AtomicInv, NEW p \in Paths, RemoveTarget(p)
    PROVE  \/ p \in TempLike /\ Atomic!Sweep(p)
           \/ UNCHANGED Atomic!atomicVars
<1> USE DEF AtomicInv, SweepInv, DiskInv
<1>1. /\ p \in listed \cap Paths /\ UNCHANGED <<Call, Data, path>>
      /\ files' = [files EXCEPT ![p] = NoFile] \/ files' = files
  BY CallsStay DEF RemoveTarget
<1>2. p \in TempLike /\ files[p] # Directory
  BY <1>1 DEF ListedInv, SolidInv
<1>3. CASE files' = files
  BY <1>1, <1>3, HeldStays DEF Atomic!atomicVars
<1>4. CASE files' = [files EXCEPT ![p] = NoFile]
  <2>1. Held[p] # Directory
    <3>1. files[p] \in Version => files[p].text # Directory
      BY KindsAssumption DEF Version
    <3> QED
      BY <1>2, <3>1, HeldText, KindsAssumption DEF LocalInv, TypeOK
  <2>2. files'[p] = NoFile /\ \A q \in Paths \ {p} : files'[q] = files[q]
    BY <1>4 DEF LocalInv, TypeOK
  <2>3. HeldAt(p)' = NoFile /\ \A q \in Paths \ {p} : HeldAt(q)' = HeldAt(q)
    BY <2>2 DEF HeldAt
  <2>4. Held' = [Held EXCEPT ![p] = NoFile]
    BY <2>3 DEF Held
  <2> QED
    BY <1>1, <1>2, <2>1, <2>4 DEF Atomic!Sweep
<1> QED
  BY <1>1, <1>3, <1>4

LEMMA StepIsAtomic ==
    ASSUME AtomicInv, [Next]_vars
    PROVE  [Atomic!Next]_Atomic!atomicVars
<1> USE DEF AtomicInv, SweepInv, DiskInv, LocalInv
<1>1. CASE UNCHANGED vars
  <2>1. UNCHANGED <<pc, callVars>> /\ files' = files
    BY <1>1 DEF vars, callVars
  <2> QED
    BY <2>1, CallsStay, HeldStays DEF Atomic!atomicVars
<1>2. ASSUME NEW c \in Callers, Work(c)
      PROVE  [Atomic!Next]_Atomic!atomicVars
  <2>1. CASE \E p \in Paths, t \in Contents : BeginWrite(c, p, t)
    BY <2>1, BeginWriteRefines DEF Atomic!Next
  <2>2. CASE CheckTarget(c) \/ CreateTemp(c) \/ WriteTemp(c) \/ Discard(c)
    BY <2>2, WritingRefines DEF Atomic!Next
  <2>3. CASE Rename(c)
    BY <2>3, RenameRefines DEF Atomic!Next
  <2>4. CASE \E p \in Paths : BeginRead(c, p)
    BY <2>4, BeginReadRefines DEF Atomic!Next
  <2>5. CASE Stat(c)
    BY <2>5, StatRefines DEF Atomic!Next
  <2>6. CASE OpenAndRead(c)
    BY <2>6, OpenRefines DEF Atomic!Next
  <2>7. CASE Return(c)
    BY <2>7, ReturnRefines DEF Atomic!Next
  <2> QED
    BY <1>2, <2>1, <2>2, <2>3, <2>4, <2>5, <2>6, <2>7 DEF Work
<1>3. CASE Crash
  BY <1>3, CrashRefines DEF Atomic!Next
<1>4. CASE Walk \/ Bind \/ \E i \in Actions : RemoveTemp(i)
  <2>1. UNCHANGED <<pc, callVars>> /\ files' = files
    BY <1>4 DEF Walk, Bind, RemoveTemp, diskVars
  <2> QED
    BY <2>1, CallsStay, HeldStays DEF Atomic!atomicVars
<1>5. ASSUME NEW p \in Paths, RemoveTarget(p)
      PROVE  [Atomic!Next]_Atomic!atomicVars
  BY <1>5, RemoveTargetRefines DEF Atomic!Next
<1> QED
  BY <1>1, <1>2, <1>3, <1>4, <1>5 DEF Next

LEMMA InitIsAtomic == Init => Atomic!Init
<1> SUFFICES ASSUME Init
             PROVE  Atomic!Init
  OBVIOUS
<1>1. /\ files \in [Paths -> {NoFile, Directory}] /\ path = [c \in Callers |-> NoFile]
      /\ \A c \in Callers : pc[c] = "idle" /\ text[c] = NoFile
  BY DEF Init
<1>2. Held \in [Paths -> {NoFile, Directory}]
  BY <1>1 DEF Held, HeldAt
<1>3. \A c \in Callers : CallOf(c) = "none" /\ DataOf(c) = NoFile
  BY <1>1 DEF CallOf, DataOf
<1>4. Call = [c \in Callers |-> "none"] /\ Data = [c \in Callers |-> NoFile]
  BY <1>3 DEF Call, Data
<1> QED
  BY <1>1, <1>2, <1>4 DEF Atomic!Init

\* Temporary files, renames, failed removals, crashes and sweeps are not to be told
\* from calls that happen at one instant or not at all.
THEOREM FilesAreAtomic == Spec => ImplementsAtomicFiles
  BY InitIsAtomic, StepIsAtomic, AtomicInvInit, AtomicInvPreserved, PTL
  DEF Spec, Atomic!Spec, ImplementsAtomicFiles
===============================================================================
