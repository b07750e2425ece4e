----------------------------- MODULE FileActuator -----------------------------
(***************************************************************************)
(* file_write, file_read and cleanup_orphan_temps of                       *)
(* safa-core/src/actuator/file.rs over one workspace, run by the handlers  *)
(* of a daemon that may crash and be restarted (safa-daemon/src/main.rs).  *)
(* A write fills a temporary file named after its action and renames it    *)
(* over the target; a rename replaces a directory entry, so a descriptor   *)
(* opened before keeps reading what it opened.  A step is one group of     *)
(* system calls between which another process can be seen to act.          *)
(*                                                                         *)
(* main cleans up before it binds its port, so a second daemon that is     *)
(* started beside a running one cleans up too, then fails to bind and      *)
(* ends.  A crash is of the process, not of the disk: the code never syncs.*)
(***************************************************************************)
EXTENDS Integers, FiniteSets

CONSTANTS
    Callers,      \* handlers
    Paths,        \* target paths, canonical and free of symbolic links
    TempLike,     \* targets whose own name has the form *.ama.*.tmp
    Contents,     \* texts that agents write
    Len,          \* Len[c]: bytes of text c
    NoFile,       \* nothing at a path
    Directory,    \* not a regular file
    MaxRead,      \* max_bytes of a read
    MaxActions    \* bound on the writes started (model checking only)

ASSUME FileAssumption ==
    /\ TempLike \subseteq Paths
    /\ Paths \cap Nat = {}
    /\ Len \in [Contents -> Nat]
    /\ MaxRead \in Nat
    /\ MaxActions \in Nat

VARIABLES
    files,     \* files[p]: what is at path p
    temps,     \* temps[i]: the temporary file of action i
    pc,        \* pc[c]: where handler c is
    path,      \* path[c]: its target
    action,    \* action[c]: the action it writes for
    text,      \* text[c]: the text it writes
    total,     \* total[c]: total_bytes, the length the stat of a read returned
    got,       \* got[c]: the file a read opened
    lastAction,
    up,        \* the daemon serves requests
    boot,      \* a main that is starting: "none", or "sweep"
    listed,    \* what its walk found and it has still to remove
    raced,     \* history: readers whose target was replaced since their stat
    leaked,    \* history: actions whose temporary file was given up
    failed     \* history: actions whose write was answered with an error

vars == <<files, temps, pc, path, action, text, total, got, lastAction, up, boot, listed,
          raced, leaked, failed>>

Actions == 1..MaxActions

\* A regular file: whose action wrote it, which text, and how much of it.
Version == [action : Actions, text : Contents, written : Nat]

ASSUME KindsAssumption ==
    /\ NoFile # Directory
    /\ {NoFile, Directory} \cap Version = {}
    /\ {NoFile, Directory} \cap Contents = {}

Whole(v) == v.written = Len[v.text]

PCs == {"idle", "check", "create", "write", "rename", "discard", "written", "failed",
        "stat", "open", "read", "unread"}

TypeOK ==
    /\ files \in [Paths -> Version \cup {NoFile, Directory}]
    /\ temps \in [Actions -> Version \cup {NoFile}]
    /\ pc \in [Callers -> PCs]
    /\ path \in [Callers -> Paths \cup {NoFile}]
    /\ action \in [Callers -> 0..MaxActions]
    /\ text \in [Callers -> Contents \cup {NoFile}]
    /\ total \in [Callers -> Nat]
    /\ got \in [Callers -> Version \cup {NoFile}]
    /\ lastAction \in 0..MaxActions
    /\ up \in BOOLEAN
    /\ boot \in {"none", "sweep"}
    /\ listed \subseteq Paths \cup Actions
    /\ raced \subseteq Callers
    /\ leaked \subseteq Actions
    /\ failed \subseteq Actions

Init ==
    /\ files \in [Paths -> {NoFile, Directory}]
    /\ temps = [i \in Actions |-> NoFile]
    /\ pc = [c \in Callers |-> "idle"]
    /\ path = [c \in Callers |-> NoFile]
    /\ action = [c \in Callers |-> 0]
    /\ text = [c \in Callers |-> NoFile]
    /\ total = [c \in Callers |-> 0]
    /\ got = [c \in Callers |-> NoFile]
    /\ lastAction = 0
    /\ up = FALSE
    /\ boot = "none"
    /\ listed = {}
    /\ raced = {}
    /\ leaked = {}
    /\ failed = {}

Go(c, s) == pc' = [pc EXCEPT ![c] = s]

\* The write of c ends in an error.
Fail(c) == Go(c, "failed") /\ failed' = failed \cup {action[c]}

diskVars == <<files, temps>>
callVars == <<path, action, text, total, got, lastAction>>
bootVars == <<up, boot, listed>>
history == <<raced, leaked, failed>>

-------------------------------------------------------------------------------
(* file_write *)

BeginWrite(c, p, t) ==
    /\ up /\ pc[c] = "idle" /\ lastAction < MaxActions
    /\ lastAction' = lastAction + 1
    /\ action' = [action EXCEPT ![c] = lastAction + 1]
    /\ path' = [path EXCEPT ![c] = p]
    /\ text' = [text EXCEPT ![c] = t]
    /\ Go(c, "check")
    /\ UNCHANGED <<diskVars, total, got, bootVars, history>>

\* verify_no_symlinks, the test for a regular file, and the parent directories:
\* any of them may fail.
CheckTarget(c) ==
    /\ pc[c] = "check"
    /\ \/ files[path[c]] # Directory /\ Go(c, "create") /\ UNCHANGED failed
       \/ Fail(c)
    /\ UNCHANGED <<diskVars, callVars, bootVars, raced, leaked>>

\* open with create_new: no file of that name may exist.
CreateTemp(c) ==
    /\ pc[c] = "create"
    /\ \/ /\ temps[action[c]] = NoFile
          /\ temps' = [temps EXCEPT ![action[c]] =
                         [action |-> action[c], text |-> text[c], written |-> 0]]
          /\ Go(c, "write")
       \/ Go(c, "discard") /\ UNCHANGED temps
    /\ UNCHANGED <<files, callVars, bootVars, history>>

\* Mutant: write, which may write a part, in place of write_all.
WritePart(c) ==
    /\ pc[c] = "write"
    /\ \E n \in 0..Len[text[c]] :
          temps' = IF temps[action[c]] = NoFile THEN temps
                   ELSE [temps EXCEPT ![action[c]].written = n]
    /\ Go(c, "rename") \/ Go(c, "discard")
    /\ UNCHANGED <<files, callVars, bootVars, history>>

\* write_all writes everything, or fails after a part; if the file has been
\* unlinked meanwhile, the descriptor is still good.
WriteTemp(c) ==
    /\ pc[c] = "write"
    /\ \E n \in 0..Len[text[c]] :
          /\ temps' = IF temps[action[c]] = NoFile THEN temps
                      ELSE [temps EXCEPT ![action[c]].written = n]
          /\ \/ n = Len[text[c]] /\ Go(c, "rename")
             \/ Go(c, "discard")
    /\ UNCHANGED <<files, callVars, bootVars, history>>

\* A reader of p that is between its stat and its open will open another file.
Replaces(p) == {c \in Callers : pc[c] = "open" /\ path[c] = p}

\* Mutant: a step that can fail follows the rename.
RenameThenFail(c) ==
    /\ pc[c] = "rename"
    /\ temps[action[c]] # NoFile
    /\ files' = [files EXCEPT ![path[c]] = temps[action[c]]]
    /\ temps' = [temps EXCEPT ![action[c]] = NoFile]
    /\ raced' = raced \cup Replaces(path[c])
    /\ Fail(c) \/ (Go(c, "written") /\ UNCHANGED failed)
    /\ UNCHANGED <<callVars, bootVars, leaked>>

Rename(c) ==
    /\ pc[c] = "rename"
    /\ \/ /\ temps[action[c]] # NoFile
          /\ files' = [files EXCEPT ![path[c]] = temps[action[c]]]
          /\ temps' = [temps EXCEPT ![action[c]] = NoFile]
          /\ raced' = raced \cup Replaces(path[c])
          /\ Go(c, "written")
       \/ Go(c, "discard") /\ UNCHANGED <<diskVars, raced>>
    /\ UNCHANGED <<callVars, bootVars, leaked, failed>>

\* Mutant: an early return without it.
DiscardNothing(c) ==
    /\ pc[c] = "discard"
    /\ Fail(c)
    /\ UNCHANGED <<diskVars, callVars, bootVars, raced, leaked>>

\* remove_file after a failure; its own failure is ignored.
Discard(c) ==
    /\ pc[c] = "discard"
    /\ \/ temps' = [temps EXCEPT ![action[c]] = NoFile] /\ UNCHANGED leaked
       \/ /\ temps[action[c]] # NoFile
          /\ leaked' = leaked \cup {action[c]}
          /\ UNCHANGED temps
    /\ Fail(c)
    /\ UNCHANGED <<files, callVars, bootVars, raced>>

-------------------------------------------------------------------------------
(* file_read *)

BeginRead(c, p) ==
    /\ up /\ pc[c] = "idle"
    /\ path' = [path EXCEPT ![c] = p]
    /\ Go(c, "stat")
    /\ UNCHANGED <<diskVars, action, text, total, got, lastAction, bootVars, history>>

\* verify_no_symlinks, exists and symlink_metadata; the length is taken here.
Stat(c) ==
    /\ pc[c] = "stat"
    /\ \/ /\ files[path[c]] \notin {NoFile, Directory}
          /\ total' = [total EXCEPT ![c] = files[path[c]].written]
          /\ Go(c, "open")
       \/ Go(c, "unread") /\ UNCHANGED total
    /\ UNCHANGED <<diskVars, path, action, text, got, lastAction, bootVars, history>>

ReadSize(c) == IF total[c] < MaxRead THEN total[c] ELSE MaxRead

\* File::open and read_exact on what it opened: too short a file is an error, and
\* so is a cut that is not UTF-8.
OpenAndRead(c) ==
    /\ pc[c] = "open"
    /\ \/ /\ files[path[c]] # NoFile
          /\ files[path[c]].written >= ReadSize(c)
          /\ got' = [got EXCEPT ![c] = files[path[c]]]
          /\ Go(c, "read")
       \/ Go(c, "unread") /\ UNCHANGED got
    /\ UNCHANGED <<diskVars, path, action, text, total, lastAction, bootVars, history>>

\* Mutant: off by one.
TruncatedAtLimit(c) == total[c] >= MaxRead

\* truncated, as the result of a read says it.
Truncated(c) == total[c] > MaxRead

-------------------------------------------------------------------------------
\* Either call returns, and its locals are gone.
Return(c) ==
    /\ pc[c] \in {"written", "failed", "read", "unread"}
    /\ Go(c, "idle")
    /\ path' = [path EXCEPT ![c] = NoFile]
    /\ action' = [action EXCEPT ![c] = 0]
    /\ text' = [text EXCEPT ![c] = NoFile]
    /\ total' = [total EXCEPT ![c] = 0]
    /\ got' = [got EXCEPT ![c] = NoFile]
    /\ raced' = raced \ {c}
    /\ UNCHANGED <<diskVars, lastAction, bootVars, leaked, failed>>

\* The temporary file of c's action is on the disk and c is still to deal with it.
Using(c, i) == action[c] = i /\ pc[c] \in {"write", "rename", "discard"}

\* The process is killed.  What a second daemon's walk has not listed by then is
\* not removed before the next start.
Crash ==
    /\ up
    /\ up' = FALSE
    /\ pc' = [c \in Callers |-> "idle"]
    /\ path' = [c \in Callers |-> NoFile]
    /\ action' = [c \in Callers |-> 0]
    /\ text' = [c \in Callers |-> NoFile]
    /\ total' = [c \in Callers |-> 0]
    /\ got' = [c \in Callers |-> NoFile]
    /\ raced' = {}
    /\ leaked' = IF boot = "none" THEN leaked
                 ELSE leaked \cup {i \in Actions \ listed : \E c \in Callers : Using(c, i)}
    /\ UNCHANGED <<diskVars, lastAction, boot, listed, failed>>

-------------------------------------------------------------------------------
(* main: clean up, then bind *)

\* Mutant: any file will do.
AllFiles ==
    {i \in Actions : temps[i] # NoFile} \cup {p \in Paths : files[p] \notin {NoFile, Directory}}

\* Names that contain .ama. and end in .tmp.
Candidates ==
    {i \in Actions : temps[i] # NoFile} \cup {p \in TempLike : files[p] \notin {NoFile, Directory}}

\* walkdir: an error anywhere and nothing is removed.  It goes directory by directory,
\* at one instant here: nobody writes meanwhile but a daemon that is already up, and
\* whether such a write is listed or missed depends on the directory it is in, as it
\* depends here on when it comes.
Walk ==
    /\ boot = "none"
    /\ boot' = "sweep"
    /\ \/ listed' = Candidates /\ UNCHANGED leaked
       \/ /\ listed' = {}
          /\ leaked' = leaked \cup {i \in Actions : temps[i] # NoFile}
    /\ UNCHANGED <<diskVars, pc, callVars, up, raced, failed>>

RemoveTemp(i) ==
    /\ boot = "sweep" /\ i \in listed \cap Actions
    /\ \/ temps' = [temps EXCEPT ![i] = NoFile] /\ UNCHANGED leaked
       \/ leaked' = leaked \cup {i} /\ UNCHANGED temps
    /\ listed' = listed \ {i}
    /\ UNCHANGED <<files, pc, callVars, up, boot, raced, failed>>

RemoveTarget(p) ==
    /\ boot = "sweep" /\ p \in listed \cap Paths
    /\ \/ files' = [files EXCEPT ![p] = NoFile] /\ raced' = raced \cup Replaces(p)
       \/ UNCHANGED <<files, raced>>
    /\ listed' = listed \ {p}
    /\ UNCHANGED <<temps, pc, callVars, up, boot, leaked, failed>>

\* It binds the port and serves, or finds the port taken and ends.
Bind ==
    /\ boot = "sweep" /\ listed = {}
    /\ boot' = "none"
    /\ up' = TRUE
    /\ UNCHANGED <<diskVars, pc, callVars, listed, history>>

Work(c) ==
    \/ \E p \in Paths, t \in Contents : BeginWrite(c, p, t)
    \/ CheckTarget(c) \/ CreateTemp(c) \/ WriteTemp(c) \/ Rename(c) \/ Discard(c)
    \/ \E p \in Paths : BeginRead(c, p)
    \/ Stat(c) \/ OpenAndRead(c)
    \/ Return(c)

Next ==
    \/ \E c \in Callers : Work(c)
    \/ Crash
    \/ Walk \/ Bind
    \/ \E i \in Actions : RemoveTemp(i)
    \/ \E p \in Paths : RemoveTarget(p)

Spec == Init /\ [][Next]_vars

-------------------------------------------------------------------------------
(* Properties *)

\* A target never shows a part of a write, whatever failed or crashed under way.
TargetsAreWhole ==
    \A p \in Paths : files[p] \in {NoFile, Directory} \/ Whole(files[p])

\* The answer of a write is the truth.  One that was answered with an error is at no
\* target and never will be, whatever happens to the daemon since; its temporary file
\* is gone, or was given up because removing it failed too.  One that succeeds leaves no
\* temporary file.
FailuresLeaveNoTrace ==
    /\ \A i \in failed :
          /\ \A p \in Paths : files[p] \in {NoFile, Directory} \/ files[p].action # i
          /\ temps[i] = NoFile \/ i \in leaked
    /\ \A c \in Callers : pc[c] = "written" => temps[action[c]] = NoFile

\* While the daemon serves, a temporary file belongs to a write in progress: a
\* crash leaves none behind the next start.  The exceptions are a removal or a
\* walk that failed, and a crash under a second daemon's sweep.
NoOrphans ==
    up => \A i \in Actions :
             temps[i] # NoFile => i \in leaked \/ \E c \in Callers : Using(c, i)

\* What is at a path changes by the rename of a write that then succeeds, or by
\* the sweep if the agent itself chose a name of the temporary form.
DurableUntilReplaced ==
    [][\A p \in Paths :
          files'[p] # files[p] =>
              \/ \E c \in Callers : /\ pc[c] # "written" /\ pc'[c] = "written"
                                    /\ path[c] = p /\ files'[p] = temps[action[c]]
              \/ p \in TempLike /\ files'[p] = NoFile]_vars

\* A read tells the length and the truncation of the file whose bytes it
\* returns, unless the target was replaced between its stat and its open.
ReadDescribesItsFile ==
    \A c \in Callers :
        pc[c] = "read" /\ c \notin raced =>
            /\ total[c] = got[c].written
            /\ ~Truncated(c) <=> ReadSize(c) = got[c].written

\* What a path holds for those who cannot see temporary files or actions.
HeldAt(p) ==
    IF files[p] \in {NoFile, Directory} THEN files[p]
    ELSE IF Whole(files[p]) THEN files[p].text ELSE <<"part of", files[p].text>>

\* A write has happened once it is written, a read once it is read.
CallOf(c) ==
    CASE pc[c] \in {"check", "create", "write", "rename", "discard"} -> "writing"
      [] pc[c] \in {"stat", "open"} -> "reading"
      [] pc[c] = "idle"    -> "none"
      [] pc[c] = "written" -> "wrote"
      [] pc[c] = "failed"  -> "failed"
      [] pc[c] = "read"    -> "got"
      [] OTHER             -> "missed"

DataOf(c) ==
    IF pc[c] = "read" THEN [text |-> got[c].text, shown |-> ReadSize(c)] ELSE text[c]

Held == [p \in Paths |-> HeldAt(p)]
Call == [c \in Callers |-> CallOf(c)]
Data == [c \in Callers |-> DataOf(c)]

Atomic == INSTANCE AtomicFiles WITH holds <- Held, call <- Call, target <- path, data <- Data

\* The temporary file and the rename make a write happen at once or never, and a
\* read show one text: handlers, crashes and sweeps cannot tell them from calls
\* that are indivisible.
ImplementsAtomicFiles == Atomic!Spec
================================================================================
