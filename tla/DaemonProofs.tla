----------------------------- MODULE DaemonProofs -----------------------------
(* Proofs about Daemon, for every number of connections, keys, permits,       *)
(* records and starts, every budget and every TTL.                            *)
EXTENDS Daemon, FiniteSetTheorems, SequenceTheorems, TLAPS

-------------------------------------------------------------------------------
(* The line *)

\* Who steps out of a sequence of people leaves the others in their order.
LEMMA StepsOut ==
    ASSUME NEW q \in Seq(Clients), NEW i \in DOMAIN q
    PROVE  /\ RemoveAt(q, i) \in Seq(Clients)
           /\ Len(RemoveAt(q, i)) = Len(q) - 1
           /\ \A j \in 1..(Len(q) - 1) :
                 RemoveAt(q, i)[j] = IF j < i THEN q[j] ELSE q[j + 1]
<1> DEFINE before == SubSeq(q, 1, i - 1)
           after == SubSeq(q, i + 1, Len(q))
<1>1. i \in 1..Len(q) /\ Len(q) \in Nat /\ \A j \in 1..Len(q) : q[j] \in Clients
  BY LenProperties, ElementOfSeq
<1>2. /\ before \in Seq(Clients)
      /\ Len(before) = i - 1
      /\ \A j \in 1..(i - 1) : before[j] = q[j]
  <2>1. \A j \in 1..(i - 1) : q[j] \in Clients
    BY <1>1
  <2> QED
    BY <1>1, <2>1, SubSeqProperties
<1>3. /\ after \in Seq(Clients)
      /\ Len(after) = Len(q) - i
      /\ \A j \in 1..(Len(q) - i) : after[j] = q[i + j]
  <2>1. \A j \in (i + 1)..Len(q) : q[j] \in Clients
    BY <1>1
  <2> HIDE DEF before
  <2>2. /\ after \in Seq(Clients)
        /\ Len(after) = IF i + 1 <= Len(q) THEN Len(q) - (i + 1) + 1 ELSE 0
        /\ \A j \in 1..(Len(q) - (i + 1) + 1) : after[j] = q[(i + 1) + j - 1]
    BY <1>1, <2>1, SubSeqProperties
  <2> QED
    BY <1>1, <2>2
<1> HIDE DEF before, after
<1>4. /\ before \o after \in Seq(Clients)
      /\ Len(before \o after) = Len(q) - 1
      /\ \A j \in 1..(Len(q) - 1) :
            (before \o after)[j] = IF j <= i - 1 THEN before[j] ELSE after[j - (i - 1)]
  <2>1. /\ before \o after \in Seq(Clients)
        /\ Len(before \o after) = Len(before) + Len(after)
        /\ \A j \in 1..(Len(before) + Len(after)) :
              (before \o after)[j] = IF j <= Len(before) THEN before[j] ELSE after[j - Len(before)]
    BY <1>2, <1>3, ConcatProperties
  <2>2. Len(before) = i - 1 /\ Len(before) + Len(after) = Len(q) - 1
    BY <1>1, <1>2, <1>3
  <2> QED
    BY <2>1, <2>2
<1>5. RemoveAt(q, i) = before \o after
  BY DEF RemoveAt, before, after
<1>6. ASSUME NEW j \in 1..(Len(q) - 1)
      PROVE  (before \o after)[j] = IF j < i THEN q[j] ELSE q[j + 1]
  <2>1. i \in Int /\ j \in Int
    BY <1>1
  <2>2. CASE j < i
    <3>1. j <= i - 1 /\ j \in 1..(i - 1)
      BY <2>1, <2>2
    <3> QED
      BY <1>2, <1>4, <2>2, <3>1
  <2>3. CASE ~(j < i)
    <3>1. j - (i - 1) \in 1..(Len(q) - i) /\ i + (j - (i - 1)) = j + 1 /\ ~(j <= i - 1)
      BY <1>1, <2>1, <2>3
    <3>2. after[j - (i - 1)] = q[j + 1]
      BY <1>3, <3>1
    <3> QED
      BY <1>4, <2>3, <3>1, <3>2
  <2> QED
    BY <2>2, <2>3
<1> QED
  BY <1>4, <1>5, <1>6

-------------------------------------------------------------------------------
(* Types *)

LEMMA InitType == Init => TypeOK
  BY DaemonAssumption, EmptySeq
  DEF Init, TypeOK, Own!Init, Own!Statuses, Store!StoreInit, Phases, Stages

\* What the handler's last step leaves of a request.
LEMMA ForgetType ==
    ASSUME TypeOK, NEW c \in Clients, Forget(c)
    PROVE  /\ stage' \in [Clients -> Stages]
           /\ wants' \in [Clients -> Keys \cup {NoKey}]
           /\ action' \in [Clients -> Nat]
           /\ stamp' \in [Clients -> Nat]
  BY DEF TypeOK, Forget, Go, Stages

LEMMA LeaveType ==
    ASSUME TypeOK, NEW c \in Clients, Leave(c)
    PROVE  /\ stage' \in [Clients -> Stages]
           /\ wants' \in [Clients -> Keys \cup {NoKey}]
           /\ action' \in [Clients -> Nat]
           /\ stamp' \in [Clients -> Nat]
           /\ free' \in Nat /\ UNCHANGED <<phase, queue>>
<1>1. Forget(c) /\ free' = free + 1 /\ UNCHANGED <<phase, queue>>
  BY DEF Leave
<1>2. /\ stage' \in [Clients -> Stages]
      /\ wants' \in [Clients -> Keys \cup {NoKey}]
      /\ action' \in [Clients -> Nat]
      /\ stamp' \in [Clients -> Nat]
  BY <1>1, ForgetType
<1>3. free \in Nat
  BY DEF TypeOK
<1> QED
  BY <1>1, <1>2, <1>3

LEMMA ReleaseType ==
    ASSUME TypeOK, NEW S, Own!Release(S)
    PROVE  /\ now' \in Nat
           /\ status' \in [Keys -> Own!Statuses]
           /\ reservedAt' \in [Keys -> Nat]
  BY DEF TypeOK, Own!Release, Own!Statuses

LEMMA FreshType ==
    ASSUME TypeOK, Fresh
    PROVE  /\ status' \in [Keys -> Own!Statuses]
           /\ reservedAt' \in [Keys -> Nat]
           /\ records' \in [DOMAIN records' -> Nat]
           /\ inserted' \in Seq([id : Nat, second : Nat])
           /\ spent' \in 0..Budget
           /\ free' \in Nat
  BY DaemonAssumption, EmptySeq DEF TypeOK, Fresh, Own!Statuses

LEMMA LostType ==
    ASSUME TypeOK, NEW S, Lost(S)
    PROVE  forgot' \in [Keys -> Nat]
  BY DEF TypeOK, Lost

\* A new record, beside the old ones or in the place of one that may go.
InsertedBeside(kept, i, second) ==
    /\ records' = [j \in kept \cup {i} |-> IF j = i THEN second ELSE records[j]]
    /\ \/ kept = DOMAIN records
       \/ Store!Full /\ \E old \in Store!Evictable : kept = DOMAIN records \ {old}

LEMMA InsertShape ==
    ASSUME NEW i \in Nat, NEW second \in Nat, Store!Insert(i, second)
    PROVE  \E kept \in SUBSET DOMAIN records : InsertedBeside(kept, i, second)
<1>1. CASE ~Store!Full
  BY <1>1 DEF Store!Insert, InsertedBeside
<1>2. CASE Store!Full
  <2>1. PICK old \in Store!Evictable :
          records' = [j \in (DOMAIN records \ {old}) \cup {i} |->
                        IF j = i THEN second ELSE records[j]]
    BY <1>2 DEF Store!Insert
  <2> QED
    BY <1>2, <2>1 DEF InsertedBeside
<1> QED
  BY <1>1, <1>2

LEMMA InsertType ==
    ASSUME TypeOK, NEW i \in Nat, NEW second \in Nat, Store!Insert(i, second)
    PROVE  records' \in [DOMAIN records' -> Nat]
<1>1. PICK kept \in SUBSET DOMAIN records : InsertedBeside(kept, i, second)
  BY InsertShape
<1>2. \A j \in kept : records[j] \in Nat
  BY DEF TypeOK
<1> QED
  BY <1>1, <1>2 DEF InsertedBeside

LEMMA TypePreserved ==
    ASSUME TypeOK, [Next]_vars
    PROVE  TypeOK'
<1> USE DEF keyVars, admission, requests, proofVars, effects
<1>1. CASE UNCHANGED vars
  BY <1>1 DEF vars, TypeOK
<1>2. ASSUME NEW c \in Clients, NEW k \in Keys, Connect(c, k)
      PROVE  TypeOK'
  <2>1. queue' \in Seq(Clients)
    BY <1>2, AppendProperties DEF Connect, TypeOK
  <2> QED
    BY <1>2, <2>1 DEF Connect, Go, TypeOK, Stages
<1>3. ASSUME NEW c \in Clients, Admit(c)
      PROVE  TypeOK'
  <2>1. queue' \in Seq(Clients)
    BY <1>3, StepsOut DEF Admit, TypeOK
  <2>2. free' \in Nat
    BY <1>3 DEF Admit, TypeOK
  <2>3. stage' \in [Clients -> Stages]
    BY <1>3 DEF Admit, Go, TypeOK, Stages, Holding
  <2> QED
    BY <1>3, <2>1, <2>2, <2>3 DEF Admit, TypeOK
<1>4. ASSUME NEW c \in Clients, HangUp(c)
      PROVE  TypeOK'
  <2>1. queue' \in Seq(Clients) /\ free' \in Nat
    BY <1>4, StepsOut DEF HangUp, StepOut, TypeOK
  <2>2. Forget(c)
    BY <1>4 DEF HangUp
  <2> QED
    BY <1>4, <2>1, <2>2, ForgetType DEF HangUp, TypeOK
<1>5. ASSUME NEW c \in Clients, Answer(c)
      PROVE  TypeOK'
  BY <1>5, LeaveType DEF Answer, TypeOK
<1>6. ASSUME NEW c \in Clients, Begin(c)
      PROVE  TypeOK'
  <2>1. /\ now' \in Nat
        /\ status' \in [Keys -> Own!Statuses]
        /\ reservedAt' \in [Keys -> Nat]
    BY <1>6 DEF Begin, Own!Reserve, Own!Statuses, TypeOK
  <2>2. acts' \in [Keys -> Nat] /\ forgot' \in [Keys -> Nat]
    <3>1. acts' = [acts EXCEPT ![wants[c]] = @ + 1] \/ acts' = acts
      BY <1>6 DEF Begin
    <3>2. forgot' = [forgot EXCEPT ![wants[c]] = @ + 1] \/ forgot' = forgot
      BY <1>6 DEF Begin
    <3>3. ASSUME NEW f \in [Keys -> Nat], NEW k
          PROVE  [f EXCEPT ![k] = @ + 1] \in [Keys -> Nat]
      <4>1. CASE k \in Keys
        BY <4>1
      <4>2. CASE k \notin Keys
        BY <4>2
      <4> QED
        BY <4>1, <4>2
    <3>4. acts \in [Keys -> Nat] /\ forgot \in [Keys -> Nat]
      BY DEF TypeOK
    <3>5. acts' \in [Keys -> Nat]
      BY <3>1, <3>3, <3>4
    <3>6. forgot' \in [Keys -> Nat]
      BY <3>2, <3>3, <3>4
    <3> QED
      BY <3>5, <3>6
  <2>3. spent' \in 0..Budget
    <3>1. (spent < Budget /\ spent' = spent + 1) \/ spent' = spent
      BY <1>6 DEF Begin
    <3>2. spent \in 0..Budget /\ Budget \in Nat
      BY DaemonAssumption DEF TypeOK
    <3> QED
      BY <3>1, <3>2
  <2>4. lastAction' \in Nat /\ action' \in [Clients -> Nat]
    <3>1. lastAction' = lastAction + 1 /\ action' = [action EXCEPT ![c] = lastAction + 1]
      BY <1>6 DEF Begin
    <3>2. lastAction \in Nat /\ action \in [Clients -> Nat]
      BY DEF TypeOK
    <3> QED
      BY <3>1, <3>2
  <2>5. stage' \in [Clients -> Stages]
    BY <1>6 DEF Begin, Go, TypeOK, Stages, Holding
  <2> QED
    BY <1>6, <2>1, <2>2, <2>3, <2>4, <2>5 DEF Begin, TypeOK
<1>7. ASSUME NEW c \in Clients, FindFull(c) \/ EndAction(c)
      PROVE  TypeOK'
  BY <1>7 DEF FindFull, EndAction, Go, TypeOK, Stages, Holding
<1>8. ASSUME NEW c \in Clients, TurnAway(c)
      PROVE  TypeOK'
  <2>1. Own!Release({wants[c]}) /\ Lost({wants[c]}) /\ Leave(c)
    BY <1>8 DEF TurnAway, Own!Remove
  <2>2. now' \in Nat /\ status' \in [Keys -> Own!Statuses] /\ reservedAt' \in [Keys -> Nat]
    BY <2>1, ReleaseType
  <2> QED
    BY <1>8, <2>1, <2>2, LeaveType, LostType DEF TurnAway, TypeOK
<1>9. ASSUME NEW c \in Clients, Stamp(c)
      PROVE  TypeOK'
  <2>1. stamp' \in [Clients -> Nat]
    BY <1>9, DaemonAssumption DEF Stamp, TypeOK
  <2> QED
    BY <1>9, <2>1 DEF Stamp, Go, TypeOK, Stages, Holding
<1>10. ASSUME NEW c \in Clients, Prove(c)
       PROVE  TypeOK'
  <2>1. action[c] \in Nat /\ stamp[c] \in Nat
    BY DEF TypeOK
  <2>2. records' \in [DOMAIN records' -> Nat]
    BY <1>10, <2>1, InsertType DEF Prove
  <2>3. inserted' \in Seq([id : Nat, second : Nat])
    BY <1>10, <2>1, AppendProperties DEF Prove, TypeOK
  <2> QED
    BY <1>10, <2>2, <2>3 DEF Prove, Go, TypeOK, Stages, Holding
<1>11. ASSUME NEW c \in Clients, Finish(c)
       PROVE  TypeOK'
  <2>1. now' \in Nat /\ status' \in [Keys -> Own!Statuses] /\ reservedAt' \in [Keys -> Nat]
    BY <1>11 DEF Finish, Own!Commit, Own!Statuses, TypeOK
  <2> QED
    BY <1>11, <2>1, LeaveType DEF Finish, TypeOK
<1>12. CASE Purge
  BY <1>12, ReleaseType, LostType DEF Purge, Own!Expire, TypeOK
<1>13. CASE Start
  <2>1. phase' \in Phases /\ starts' \in Nat
    BY <1>13 DEF Start, Phases, TypeOK
  <2> QED
    BY <1>13, <2>1, FreshType DEF Start, TypeOK
<1>14. CASE Signal
  BY <1>14 DEF Signal, Phases, TypeOK
<1>15. CASE Exit
  BY <1>15, FreshType, LostType DEF Exit, Phases, TypeOK
<1>16. CASE Crash
  <2>1. /\ queue' \in Seq(Clients)
        /\ stage' \in [Clients -> Stages]
        /\ wants' \in [Clients -> Keys \cup {NoKey}]
        /\ action' \in [Clients -> Nat]
        /\ stamp' \in [Clients -> Nat]
    BY <1>16, EmptySeq DEF Crash, NoRequests, Stages
  <2> QED
    BY <1>16, <2>1, FreshType, LostType DEF Crash, Phases, TypeOK
<1>17. CASE Tick
  BY <1>17 DEF Tick, Own!Tick, TypeOK
<1> QED
  BY <1>1, <1>2, <1>3, <1>4, <1>5, <1>6, <1>7, <1>8, <1>9, <1>10, <1>11, <1>12,
     <1>13, <1>14, <1>15, <1>16, <1>17 DEF Next, Handle

\* The variables keep their types.
THEOREM TypeCorrect == Spec => []TypeOK
  BY InitType, TypePreserved, PTL DEF Spec

-------------------------------------------------------------------------------
(* A process that does not run has no requests and knows no keys. *)

Quiet ==
    \/ Running
    \/ /\ \A c \in Clients : stage[c] = "idle"
       /\ \A k \in Keys : status[k] = "free"

LEMMA InitQuiet == Init => Quiet
  BY DEF Init, Quiet, Own!Init

LEMMA QuietPreserved ==
    ASSUME TypeOK, Quiet, [Next]_vars
    PROVE  Quiet'
<1> USE DEF keyVars, admission, requests, proofVars, effects, Running
<1>1. CASE UNCHANGED vars
  BY <1>1 DEF vars, Quiet
\* Requests have been let in by a process that has run since.
<1>2. ASSUME NEW c \in Clients, stage[c] # "idle", phase' = phase
      PROVE  Quiet'
  BY <1>2 DEF Quiet
<1>3. ASSUME NEW c \in Clients, NEW k \in Keys, Connect(c, k)
      PROVE  Quiet'
  BY <1>3 DEF Connect, Accepts, Quiet
<1>4. ASSUME NEW c \in Clients, Admit(c) \/ Handle(c) \/ HangUp(c)
      PROVE  Quiet'
  <2>1. stage[c] # "idle"
    BY <1>4 DEF Admit, HangUp, Handle, Answer, Begin, FindFull, TurnAway, EndAction, Stamp, Prove, Finish
  <2>2. phase' = phase
    BY <1>4 DEF Admit, HangUp, Handle, Answer, Begin, FindFull, TurnAway, EndAction, Stamp, Prove,
                Finish, Leave
  <2> QED
    BY <1>2, <2>1, <2>2
<1>5. CASE Purge
  BY <1>5 DEF Purge, Quiet
<1>6. CASE Start
  BY <1>6 DEF Start, Quiet
<1>7. CASE Signal
  BY <1>7 DEF Signal, Quiet
<1>8. CASE Exit
  BY <1>8 DEF Exit, Fresh, Quiet
<1>9. CASE Crash
  BY <1>9 DEF Crash, Fresh, NoRequests, Quiet
<1>10. CASE Tick
  BY <1>10 DEF Tick, Own!Tick, Quiet
<1> QED
  BY <1>1, <1>3, <1>4, <1>5, <1>6, <1>7, <1>8, <1>9, <1>10 DEF Next

-------------------------------------------------------------------------------
(* How often a key acts *)

\* The daemon remembers of a key that it acted once since it was forgotten last.
Remembered(k) == IF status[k] = "free" THEN 0 ELSE 1

MemoryInv == \A k \in Keys : acts[k] <= forgot[k] + Remembered(k)

LEMMA InitMemory == Init => MemoryInv
  BY DEF Init, MemoryInv, Remembered, Own!Init

\* What is forgotten is counted.
LEMMA LostIsCounted ==
    ASSUME TypeOK, MemoryInv, NEW S, Own!Release(S), Lost(S), acts' = acts
    PROVE  MemoryInv'
<1>1. ASSUME NEW k \in Keys
      PROVE  acts'[k] <= forgot'[k] + Remembered(k)'
  <2>1. acts[k] \in Nat /\ forgot[k] \in Nat /\ acts[k] <= forgot[k] + Remembered(k)
    BY DEF TypeOK, MemoryInv
  <2>2. status'[k] = IF k \in S THEN "free" ELSE status[k]
    BY DEF Own!Release
  <2>3. forgot'[k] = IF k \in S /\ status[k] # "free" THEN forgot[k] + 1 ELSE forgot[k]
    BY DEF Lost
  <2> QED
    BY <2>1, <2>2, <2>3 DEF Remembered
<1> QED
  BY <1>1 DEF MemoryInv

LEMMA MemoryPreserved ==
    ASSUME TypeOK, Quiet, MemoryInv, [Next]_vars
    PROVE  MemoryInv'
<1> USE DEF keyVars, admission, requests, proofVars, effects
<1>1. ASSUME UNCHANGED <<acts, forgot, status>>
      PROVE  MemoryInv'
  BY <1>1 DEF MemoryInv, Remembered
<1>2. ASSUME NEW c \in Clients, Begin(c)
      PROVE  MemoryInv'
  <2> DEFINE k == wants[c]
  <2>1. /\ Own!Available(k)
        /\ status' = [status EXCEPT ![k] = "in_flight"]
        /\ forgot' = IF Own!Expirable(k) THEN [forgot EXCEPT ![k] = @ + 1] ELSE forgot
        /\ acts' = acts \/ acts' = [acts EXCEPT ![k] = @ + 1]
    BY <1>2 DEF Begin, Own!Reserve
  <2>2. status[k] = "free" \/ Own!Expirable(k)
    BY <2>1 DEF Own!Available
  <2>3. ASSUME NEW j \in Keys
        PROVE  acts'[j] <= forgot'[j] + Remembered(j)'
    <3>1. acts[j] \in Nat /\ forgot[j] \in Nat /\ acts[j] <= forgot[j] + Remembered(j)
      BY DEF TypeOK, MemoryInv
    <3>2. CASE j # k
      BY <2>1, <3>1, <3>2 DEF Remembered, TypeOK
    <3>3. CASE j = k
      <4>1. Remembered(j)' = 1 /\ acts'[j] <= acts[j] + 1
        BY <2>1, <3>1, <3>3 DEF Remembered, TypeOK
      <4>2. CASE status[k] = "free"
        <5>1. forgot' = forgot
          BY <2>1, <4>2 DEF Own!Expirable
        <5>2. acts[j] <= forgot[j]
          BY <3>1, <3>3, <4>2 DEF Remembered
        <5>3. acts'[j] \in Nat
          BY <2>1, <3>1, <3>3 DEF TypeOK
        <5> QED
          BY <3>1, <4>1, <5>1, <5>2, <5>3
      <4>3. CASE Own!Expirable(k)
        <5>1. forgot'[j] = forgot[j] + 1
          BY <2>1, <3>1, <3>3, <4>3 DEF TypeOK
        <5>2. acts[j] <= forgot[j] + 1
          BY <3>1 DEF Remembered
        <5>3. acts'[j] \in Nat
          BY <2>1, <3>1, <3>3 DEF TypeOK
        <5> QED
          BY <3>1, <4>1, <5>1, <5>2, <5>3
      <4> QED
        BY <2>2, <4>2, <4>3
    <3> QED
      BY <3>2, <3>3
  <2> QED
    BY <2>3 DEF MemoryInv
<1>3. ASSUME NEW c \in Clients, TurnAway(c)
      PROVE  MemoryInv'
  BY <1>3, LostIsCounted DEF TurnAway, Own!Remove
\* A key that is free stays so: nobody asks whose it is.
<1>4. ASSUME NEW c \in Clients, Finish(c)
      PROVE  MemoryInv'
  <2>1. \A k \in Keys : status'[k] = "free" <=> status[k] = "free"
    BY <1>4 DEF Finish, Own!Commit, TypeOK
  <2> QED
    BY <1>4, <2>1 DEF Finish, MemoryInv, Remembered
<1>5. CASE Purge
  BY <1>5, LostIsCounted DEF Purge, Own!Expire
\* Nothing is lost that was not lost before.
<1>6. CASE Start
  <2>1. \A k \in Keys : status[k] = "free"
    BY <1>6 DEF Start, Quiet, Running
  <2>2. \A k \in Keys : status'[k] = "free"
    BY <1>6 DEF Start, Fresh
  <2> QED
    BY <1>6, <2>1, <2>2 DEF Start, MemoryInv, Remembered
<1>7. CASE Exit \/ Crash
  <2>1. acts' = acts /\ Lost(Keys) /\ \A k \in Keys : status'[k] = "free"
    BY <1>7 DEF Exit, Crash, Fresh
  <2>2. ASSUME NEW k \in Keys
        PROVE  acts'[k] <= forgot'[k] + Remembered(k)'
    <3>1. acts[k] \in Nat /\ forgot[k] \in Nat /\ acts[k] <= forgot[k] + Remembered(k)
      BY DEF TypeOK, MemoryInv
    <3>2. forgot'[k] = IF status[k] # "free" THEN forgot[k] + 1 ELSE forgot[k]
      BY <2>1 DEF Lost
    <3> QED
      BY <2>1, <3>1, <3>2 DEF Remembered
  <2> QED
    BY <2>2 DEF MemoryInv
<1>8. ASSUME NEW c \in Clients,
             \/ \E k \in Keys : Connect(c, k)
             \/ Admit(c) \/ HangUp(c) \/ Answer(c) \/ FindFull(c) \/ EndAction(c)
             \/ Stamp(c) \/ Prove(c)
      PROVE  MemoryInv'
  BY <1>1, <1>8 DEF Connect, Admit, HangUp, Answer, FindFull, EndAction, Stamp, Prove
<1>9. CASE Signal \/ Tick \/ UNCHANGED vars
  BY <1>1, <1>9 DEF Signal, Tick, Own!Tick, vars
<1> QED
  BY <1>2, <1>3, <1>4, <1>5, <1>6, <1>7, <1>8, <1>9 DEF Next, Handle

\* Whatever restarts, drops, purges and evictions come between: a key is tried no
\* more than once for each time the daemon lost its memory of it, and once more.
THEOREM Memory == Spec => []OncePerMemory
<1>1. Init => TypeOK /\ Quiet /\ MemoryInv
  BY InitType, InitQuiet, InitMemory
<1>2. (TypeOK /\ Quiet /\ MemoryInv) /\ [Next]_vars => (TypeOK /\ Quiet /\ MemoryInv)'
  BY TypePreserved, QuietPreserved, MemoryPreserved
<1>3. TypeOK /\ MemoryInv => OncePerMemory
  BY DEF TypeOK, MemoryInv, OncePerMemory, Remembered
<1> QED
  BY <1>1, <1>2, <1>3, PTL DEF Spec

-------------------------------------------------------------------------------
(* How often the agent acts *)

\* Adding one at a point adds one to a sum.
LEMMA Bump ==
    ASSUME NEW S, NEW f \in [S -> Nat], NEW x \in S, IsFiniteSet(Units(f)),
           NEW g, g = [f EXCEPT ![x] = @ + 1]
    PROVE  IsFiniteSet(Units(g)) /\ Total(g) = Total(f) + 1
<1> DEFINE unit == <<x, f[x] + 1>>
<1>1. /\ DOMAIN f = S /\ DOMAIN g = S /\ f[x] \in Nat /\ g[x] = f[x] + 1
      /\ \A y \in S : y # x => g[y] = f[y]
  OBVIOUS
<1>2. /\ \A y, n : <<y, n>> \in Units(f) <=> y \in S /\ n \in 1..f[y]
      /\ \A y, n : <<y, n>> \in Units(g) <=> y \in S /\ n \in 1..g[y]
  BY <1>1 DEF Units
<1>3. \A u \in Units(f) \cup Units(g) : \E y, n : u = <<y, n>>
  BY DEF Units
<1>4. 1..(f[x] + 1) = (1..f[x]) \cup {f[x] + 1} /\ f[x] + 1 \notin 1..f[x]
  BY <1>1
<1>5. Units(g) = Units(f) \cup {unit} /\ unit \notin Units(f)
  <2>1. ASSUME NEW y, NEW n
        PROVE  <<y, n>> \in Units(g) <=> (<<y, n>> \in Units(f) \/ <<y, n>> = unit)
    <3>1. CASE y = x
      BY <3>1, <1>1, <1>2, <1>4
    <3>2. CASE y # x
      BY <3>2, <1>1, <1>2
    <3> QED
      BY <3>1, <3>2
  <2>2. unit \notin Units(f)
    BY <1>2, <1>4
  <2>3. ASSUME NEW u \in Units(g) PROVE u \in Units(f) \/ u = unit
    <3>1. PICK y, n : u = <<y, n>>
      BY <1>3
    <3> QED
      BY <2>1, <3>1
  <2>4. ASSUME NEW u \in Units(f) PROVE u \in Units(g)
    <3>1. PICK y, n : u = <<y, n>>
      BY <1>3
    <3> QED
      BY <2>1, <3>1
  <2>5. unit \in Units(g)
    BY <2>1
  <2> HIDE DEF unit
  <2> QED
    BY <2>2, <2>3, <2>4, <2>5
<1> HIDE DEF unit
<1>6. /\ IsFiniteSet(Units(f) \cup {unit})
      /\ Cardinality(Units(f) \cup {unit}) = Cardinality(Units(f)) + 1
  BY <1>5, FS_AddElement
<1> QED
  BY <1>5, <1>6 DEF Total

\* What was done before this start is within the budgets of the starts before it; what
\* is done since is within what was charged since.
SpendInv ==
    /\ IsFiniteSet(Units(acts))
    /\ Running => starts # 0 /\ Total(acts) + Budget <= Budget * starts + spent
    /\ ~Running => Total(acts) <= Budget * starts

LEMMA OneStartMore == \A n \in Nat : Budget * n \in Nat /\ Budget * (n + 1) = Budget * n + Budget
  BY DaemonAssumption

LEMMA ActsType == TypeOK /\ SpendInv => Total(acts) \in Nat
  BY FS_CardinalityType DEF SpendInv, Total

LEMMA InitSpend == Init => SpendInv
<1> SUFFICES ASSUME Init PROVE SpendInv
  OBVIOUS
<1>1. Units(acts) = {} /\ ~Running /\ starts = 0
  BY DEF Init, Units, Running
<1>2. Budget * 0 = 0
  BY DaemonAssumption
<1> QED
  BY <1>1, <1>2, FS_EmptySet DEF SpendInv, Total

LEMMA SpendPreserved ==
    ASSUME TypeOK, Quiet, SpendInv, [Next]_vars
    PROVE  SpendInv'
<1> USE DEF keyVars, admission, requests, proofVars, effects
<1>1. /\ IsFiniteSet(Units(acts)) /\ Total(acts) \in Nat /\ Budget \in Nat
      /\ starts \in Nat /\ spent \in 0..Budget
      /\ Running => starts # 0 /\ Total(acts) + Budget <= Budget * starts + spent
      /\ ~Running => Total(acts) <= Budget * starts
  BY ActsType, DaemonAssumption DEF SpendInv, TypeOK
<1>2. ASSUME UNCHANGED <<acts, spent, starts>>, Running' <=> Running
      PROVE  SpendInv'
  BY <1>2 DEF SpendInv, Total, Units
<1>3. ASSUME NEW c \in Clients, Begin(c)
      PROVE  SpendInv'
  <2> DEFINE k == wants[c]
  <2>1. /\ UNCHANGED <<phase, starts>> /\ stage[c] = "check"
        /\ \/ spent < Budget /\ spent' = spent + 1 /\ acts' = [acts EXCEPT ![k] = @ + 1]
           \/ UNCHANGED <<spent, acts>>
    BY <1>3 DEF Begin
  <2>2. Running /\ Running'
    BY <2>1 DEF Quiet, Running
  <2>3. CASE UNCHANGED <<spent, acts>>
    BY <1>2, <2>1, <2>2, <2>3
  <2>4. CASE spent' = spent + 1 /\ acts' = [acts EXCEPT ![k] = @ + 1]
    <3>1. acts \in [Keys -> Nat]
      BY DEF TypeOK
    <3>2. IsFiniteSet(Units(acts')) /\ Total(acts') \in Nat /\ Total(acts') <= Total(acts) + 1
      <4>1. CASE k \in Keys
        <5>1. IsFiniteSet(Units(acts')) /\ Total(acts') = Total(acts) + 1
          BY <1>1, <2>4, <3>1, <4>1, Bump
        <5> QED
          BY <1>1, <5>1
      <4>2. CASE k \notin Keys
        <5>1. acts' = acts
          BY <2>4, <3>1, <4>2
        <5> QED
          BY <1>1, <5>1
      <4> QED
        BY <4>1, <4>2
    <3>3. Budget * starts \in Nat
      BY <1>1, OneStartMore
    <3>4. starts' # 0 /\ Total(acts') + Budget <= Budget * starts' + spent'
      BY <1>1, <2>1, <2>2, <2>4, <3>2, <3>3
    <3> QED
      BY <2>2, <3>2, <3>4 DEF SpendInv, Total, Units
  <2> QED
    BY <2>1, <2>3, <2>4
<1>4. CASE Start
  <2>1. UNCHANGED acts /\ starts' = starts + 1 /\ spent' = 0 /\ ~Running /\ Running'
    BY <1>4 DEF Start, Fresh, Running
  <2>2. Budget * starts \in Nat /\ Budget * starts' = Budget * starts + Budget
    BY <1>1, <2>1, OneStartMore
  <2>3. starts' # 0 /\ Total(acts) + Budget <= Budget * starts' + spent'
    BY <1>1, <2>1, <2>2
  <2> QED
    BY <1>1, <2>1, <2>3 DEF SpendInv, Total, Units
<1>5. CASE Exit \/ Crash
  <2>1. UNCHANGED <<acts, starts>> /\ Running /\ ~Running'
    BY <1>5 DEF Exit, Crash, Running
  <2>2. Budget * starts \in Nat
    BY <1>1, OneStartMore
  <2>3. Total(acts) <= Budget * starts'
    BY <1>1, <2>1, <2>2
  <2> QED
    BY <1>1, <2>1, <2>3 DEF SpendInv, Total, Units
<1>6. ASSUME NEW c \in Clients,
             \/ \E k \in Keys : Connect(c, k)
             \/ Admit(c) \/ HangUp(c) \/ Answer(c) \/ FindFull(c) \/ TurnAway(c) \/ EndAction(c)
             \/ Stamp(c) \/ Prove(c) \/ Finish(c)
      PROVE  SpendInv'
  <2>1. UNCHANGED <<acts, spent, starts, phase>>
    BY <1>6 DEF Connect, Admit, HangUp, Answer, FindFull, TurnAway, EndAction, Stamp, Prove, Finish,
                Leave
  <2> QED
    BY <1>2, <2>1 DEF Running
<1>7. CASE Purge \/ Signal \/ Tick \/ UNCHANGED vars
  <2>1. UNCHANGED <<acts, spent, starts>> /\ (Running' <=> Running)
    BY <1>7 DEF Purge, Signal, Tick, vars, Running
  <2> QED
    BY <1>2, <2>1
<1> QED
  BY <1>3, <1>4, <1>5, <1>6, <1>7 DEF Next, Handle

\* Over the life of the daemon the agent acts no more than its budget for each start,
\* however its requests end.
THEOREM Spending == Spec => []BudgetPerStart
<1>1. Init => TypeOK /\ Quiet /\ SpendInv
  BY InitType, InitQuiet, InitSpend
<1>2. (TypeOK /\ Quiet /\ SpendInv) /\ [Next]_vars => (TypeOK /\ Quiet /\ SpendInv)'
  BY TypePreserved, QuietPreserved, SpendPreserved
<1>3. TypeOK /\ SpendInv => BudgetPerStart
  <2> SUFFICES ASSUME TypeOK, SpendInv PROVE BudgetPerStart
    OBVIOUS
  <2>1. /\ Total(acts) \in Nat /\ Budget * starts \in Nat /\ spent \in 0..Budget /\ Budget \in Nat
    BY ActsType, OneStartMore, DaemonAssumption DEF TypeOK
  <2> QED
    BY <2>1 DEF SpendInv, BudgetPerStart
<1> QED
  BY <1>1, <1>2, <1>3, PTL DEF Spec

-------------------------------------------------------------------------------
(* Permits *)

Holders == {c \in Clients : stage[c] \in Holding}

LEMMA HoldersFinite == IsFiniteSet(Holders) /\ Cardinality(Holders) \in Nat
  BY DaemonAssumption, FS_Subset, FS_CardinalityType DEF Holders

\* One request moves on: past the queue, out of the daemon, or neither.
LEMMA HolderEnters ==
    ASSUME TypeOK, NEW c \in Clients, NEW s \in Holding, Go(c, s), stage[c] \notin Holding
    PROVE  Cardinality(Holders') = Cardinality(Holders) + 1
<1>1. Holders' = Holders \cup {c} /\ c \notin Holders
  BY DEF Holders, Go, TypeOK
<1> QED
  BY <1>1, HoldersFinite, FS_AddElement

LEMMA HolderLeaves ==
    ASSUME TypeOK, NEW c \in Clients, Go(c, "idle"), stage[c] \in Holding
    PROVE  Cardinality(Holders') = Cardinality(Holders) - 1
<1>1. Holders' = Holders \ {c} /\ c \in Holders
  BY DEF Holders, Go, TypeOK, Holding
<1> QED
  BY <1>1, HoldersFinite, FS_RemoveElement

LEMMA HolderStays ==
    ASSUME TypeOK, NEW c \in Clients, NEW s, Go(c, s), stage[c] \in Holding <=> s \in Holding
    PROVE  Holders' = Holders
  BY DEF Holders, Go, TypeOK

\* The line is the requests that wait, each in it once.
LineInv ==
    /\ \A c \in Clients : stage[c] = "queued" <=> \E i \in DOMAIN queue : queue[i] = c
    /\ \A i, j \in DOMAIN queue : queue[i] = queue[j] => i = j

LEMMA LineStays ==
    ASSUME TypeOK, LineInv, NEW c \in Clients, NEW s,
           Go(c, s), stage[c] # "queued", s # "queued", queue' = queue
    PROVE  LineInv'
  BY DEF LineInv, Go, TypeOK

LEMMA LineGrows ==
    ASSUME TypeOK, LineInv, NEW c \in Clients,
           Go(c, "queued"), stage[c] # "queued", queue' = Append(queue, c)
    PROVE  LineInv'
<1>1. /\ queue \in Seq(Clients) /\ Len(queue) \in Nat
      /\ DOMAIN queue = 1..Len(queue)
      /\ queue' \in Seq(Clients)
      /\ DOMAIN queue' = 1..(Len(queue) + 1)
      /\ \A i \in 1..Len(queue) : queue'[i] = queue[i]
      /\ queue'[Len(queue) + 1] = c
  BY AppendProperties, LenProperties DEF TypeOK
<1>2. \A i \in DOMAIN queue : queue[i] # c
  BY DEF LineInv
<1>3. \A i \in DOMAIN queue' : i \in DOMAIN queue \/ i = Len(queue) + 1
  BY <1>1
<1>4. ASSUME NEW d \in Clients
      PROVE  stage'[d] = "queued" <=> \E i \in DOMAIN queue' : queue'[i] = d
  <2>1. CASE d = c
    <3>1. Len(queue) + 1 \in DOMAIN queue'
      BY <1>1
    <3>2. stage'[d] = "queued"
      BY <2>1 DEF Go, TypeOK
    <3> QED
      BY <1>1, <2>1, <3>1, <3>2
  <2>2. CASE d # c
    <3>1. stage'[d] = stage[d]
      BY <2>2 DEF Go, TypeOK
    <3>2. (\E i \in DOMAIN queue' : queue'[i] = d) <=> \E i \in DOMAIN queue : queue[i] = d
      BY <1>1, <1>3, <2>2
    <3> QED
      BY <3>1, <3>2 DEF LineInv
  <2> QED
    BY <2>1, <2>2
<1>5. ASSUME NEW i \in DOMAIN queue', NEW j \in DOMAIN queue', queue'[i] = queue'[j]
      PROVE  i = j
  BY <1>1, <1>2, <1>3, <1>5 DEF LineInv
<1> QED
  BY <1>4, <1>5 DEF LineInv

LEMMA LineShrinks ==
    ASSUME TypeOK, LineInv, NEW c \in Clients, NEW s, NEW i \in DOMAIN queue,
           Go(c, s), s # "queued", queue[i] = c, queue' = RemoveAt(queue, i)
    PROVE  LineInv'
<1> DEFINE Old(j) == IF j < i THEN j ELSE j + 1
<1>1. /\ DOMAIN queue = 1..Len(queue) /\ Len(queue) \in Nat
      /\ DOMAIN queue' = 1..(Len(queue) - 1)
      /\ \A j \in DOMAIN queue' : queue'[j] = queue[Old(j)]
  <2>1. queue \in Seq(Clients) /\ i \in DOMAIN queue
    BY DEF TypeOK
  <2>2. DOMAIN queue = 1..Len(queue) /\ Len(queue) \in Nat
    BY <2>1, LenProperties
  <2>3. /\ queue' \in Seq(Clients)
        /\ Len(queue') = Len(queue) - 1
        /\ \A j \in 1..(Len(queue) - 1) : queue'[j] = IF j < i THEN queue[j] ELSE queue[j + 1]
    BY <2>1, StepsOut
  <2>4. DOMAIN queue' = 1..(Len(queue) - 1)
    BY <2>3, LenProperties
  <2>5. \A j \in DOMAIN queue' : queue'[j] = queue[Old(j)]
    BY <2>3, <2>4
  <2> QED
    BY <2>2, <2>4, <2>5
\* The places that are left.
<1>2. /\ \A j \in DOMAIN queue' : Old(j) \in DOMAIN queue /\ Old(j) # i
      /\ \A j, k \in DOMAIN queue' : Old(j) = Old(k) => j = k
      /\ \A m \in DOMAIN queue : m # i => \E j \in DOMAIN queue' : Old(j) = m
  <2>1. ASSUME NEW m \in DOMAIN queue, m # i
        PROVE  \E j \in DOMAIN queue' : Old(j) = m
    <3>1. CASE m < i
      <4>1. m \in DOMAIN queue' /\ Old(m) = m
        BY <1>1, <2>1, <3>1
      <4> QED
        BY <4>1
    <3>2. CASE ~(m < i)
      <4>1. m \in Int /\ i \in Int /\ m > i
        BY <1>1, <2>1, <3>2
      <4>2. m - 1 \in DOMAIN queue' /\ ~(m - 1 < i)
        BY <1>1, <4>1
      <4>3. Old(m - 1) = m
        BY <4>1, <4>2
      <4> QED
        BY <4>2, <4>3
    <3> QED
      BY <3>1, <3>2
  <2>2. \A j \in DOMAIN queue' : Old(j) \in DOMAIN queue /\ Old(j) # i
    BY <1>1
  <2>3. \A j, k \in DOMAIN queue' : Old(j) = Old(k) => j = k
    BY <1>1
  <2> QED
    BY <2>1, <2>2, <2>3
<1> HIDE DEF Old
<1>3. ASSUME NEW d \in Clients
      PROVE  stage'[d] = "queued" <=> \E j \in DOMAIN queue' : queue'[j] = d
  <2>1. CASE d = c
    <3>1. stage'[d] # "queued"
      BY <2>1 DEF Go, TypeOK
    <3>2. \A j \in DOMAIN queue' : queue'[j] # d
      BY <1>1, <1>2, <2>1 DEF LineInv
    <3> QED
      BY <3>1, <3>2
  <2>2. CASE d # c
    <3>1. stage'[d] = stage[d]
      BY <2>2 DEF Go, TypeOK
    <3>2. (\E j \in DOMAIN queue' : queue'[j] = d) <=> \E m \in DOMAIN queue : queue[m] = d
      BY <1>1, <1>2, <2>2
    <3> QED
      BY <3>1, <3>2 DEF LineInv
  <2> QED
    BY <2>1, <2>2
<1>4. ASSUME NEW j \in DOMAIN queue', NEW k \in DOMAIN queue', queue'[j] = queue'[k]
      PROVE  j = k
  <2>1. queue[Old(j)] = queue[Old(k)] /\ Old(j) \in DOMAIN queue /\ Old(k) \in DOMAIN queue
    BY <1>1, <1>2, <1>4
  <2>2. Old(j) = Old(k)
    BY <2>1 DEF LineInv
  <2> QED
    BY <1>2, <2>2
<1> QED
  BY <1>3, <1>4 DEF LineInv

PermitInv == free + Cardinality(Holders) = Permits /\ LineInv

LEMMA PermitInvIs == PermitInv <=> PermitsAccounted
  BY DEF PermitInv, LineInv, PermitsAccounted, Holders

\* A request that leaves gives its permit back.
LEMMA PermitReturned ==
    ASSUME TypeOK, PermitInv, NEW c \in Clients, stage[c] \in Holding, Leave(c)
    PROVE  PermitInv'
<1>1. Go(c, "idle") /\ free' = free + 1 /\ queue' = queue
  BY DEF Leave, Forget
<1>2. Cardinality(Holders') = Cardinality(Holders) - 1
  BY <1>1, HolderLeaves
<1>3. LineInv'
  BY <1>1, LineStays DEF PermitInv, Holding
<1>4. free \in Nat /\ Permits \in Nat /\ Cardinality(Holders) \in Nat
  BY HoldersFinite, DaemonAssumption DEF TypeOK
<1> QED
  BY <1>1, <1>2, <1>3, <1>4 DEF PermitInv

\* A request that goes on keeps it.
LEMMA PermitKept ==
    ASSUME TypeOK, PermitInv, NEW c \in Clients, NEW s \in Holding,
           stage[c] \in Holding, Go(c, s), UNCHANGED <<free, queue>>
    PROVE  PermitInv'
<1>1. Holders' = Holders
  BY HolderStays
<1>2. LineInv'
  BY LineStays DEF PermitInv, Holding
<1> QED
  BY <1>1, <1>2 DEF PermitInv

\* A process that has just started has all its permits, and nobody in line.
LEMMA PermitFresh ==
    ASSUME TypeOK, free' = Permits, \A c \in Clients : stage'[c] = "idle", LineInv'
    PROVE  PermitInv'
<1>1. Holders' = {}
  BY DEF Holders, Holding
<1>2. Cardinality(Holders') = 0
  BY <1>1, FS_EmptySet
<1> QED
  BY <1>2, DaemonAssumption DEF PermitInv

LEMMA InitPermits == Init => PermitInv
<1> SUFFICES ASSUME Init PROVE PermitInv
  OBVIOUS
<1>1. Holders = {}
  BY DEF Init, Holders, Holding
<1>2. Cardinality(Holders) = 0 /\ free = Permits
  BY <1>1, FS_EmptySet DEF Init
<1>3. LineInv
  BY DEF Init, LineInv
<1> QED
  BY <1>2, <1>3, DaemonAssumption DEF PermitInv

LEMMA PermitsPreserved ==
    ASSUME TypeOK, Quiet, PermitInv, [Next]_vars
    PROVE  PermitInv'
<1> USE DEF keyVars, admission, requests, proofVars, effects
<1>0. free \in Nat /\ Permits \in Nat /\ Cardinality(Holders) \in Nat
  BY HoldersFinite, DaemonAssumption DEF TypeOK
<1>1. ASSUME UNCHANGED <<free, queue, stage>>
      PROVE  PermitInv'
  BY <1>1 DEF PermitInv, Holders, LineInv
<1>2. ASSUME NEW c \in Clients, NEW k \in Keys, Connect(c, k)
      PROVE  PermitInv'
  <2>1. Go(c, "queued") /\ stage[c] = "idle" /\ queue' = Append(queue, c) /\ free' = free
    BY <1>2 DEF Connect
  <2>2. Holders' = Holders
    BY <2>1, HolderStays DEF Holding
  <2>3. LineInv'
    BY <2>1, LineGrows DEF PermitInv
  <2> QED
    BY <2>1, <2>2, <2>3 DEF PermitInv
<1>3. ASSUME NEW c \in Clients, Admit(c)
      PROVE  PermitInv'
  <2>1. /\ Go(c, "check") /\ stage[c] = "queued" /\ free > 0 /\ free' = free - 1
        /\ NextIn \in DOMAIN queue /\ queue[NextIn] = c /\ queue' = RemoveAt(queue, NextIn)
    BY <1>3 DEF Admit
  <2>2. Cardinality(Holders') = Cardinality(Holders) + 1
    BY <2>1, HolderEnters DEF Holding
  <2>3. LineInv'
    BY <2>1, LineShrinks DEF PermitInv
  <2> QED
    BY <1>0, <2>1, <2>2, <2>3 DEF PermitInv
<1>4. ASSUME NEW c \in Clients, HangUp(c)
      PROVE  PermitInv'
  <2>1. Go(c, "idle")
    BY <1>4 DEF HangUp, Forget
  <2>2. CASE stage[c] = "queued" /\ StepOut(c) /\ free' = free
    <3>1. Holders' = Holders
      BY <2>1, <2>2, HolderStays DEF Holding
    <3>2. LineInv'
      BY <2>1, <2>2, LineShrinks DEF StepOut, PermitInv
    <3> QED
      BY <2>2, <3>1, <3>2 DEF PermitInv
  <2>3. CASE stage[c] = "await" /\ free' = free + 1 /\ queue' = queue
    <3>1. Cardinality(Holders') = Cardinality(Holders) - 1
      BY <2>1, <2>3, HolderLeaves DEF Holding
    <3>2. LineInv'
      BY <2>1, <2>3, LineStays DEF PermitInv
    <3> QED
      BY <1>0, <2>3, <3>1, <3>2 DEF PermitInv
  <2> QED
    BY <1>4, <2>2, <2>3 DEF HangUp
<1>5. ASSUME NEW c \in Clients, Answer(c) \/ TurnAway(c) \/ Finish(c)
      PROVE  PermitInv'
  <2>1. stage[c] \in Holding /\ Leave(c)
    BY <1>5 DEF Answer, TurnAway, Finish, Holding
  <2> QED
    BY <2>1, PermitReturned
<1>6. ASSUME NEW c \in Clients,
             Begin(c) \/ FindFull(c) \/ EndAction(c) \/ Stamp(c) \/ Prove(c)
      PROVE  PermitInv'
  <2>1. /\ stage[c] \in Holding /\ UNCHANGED <<free, queue>>
        /\ \E s \in Holding : Go(c, s)
    BY <1>6 DEF Begin, FindFull, EndAction, Stamp, Prove, Holding
  <2> QED
    BY <2>1, PermitKept
<1>7. CASE Start
  <2>1. UNCHANGED <<queue, stage>> /\ free' = Permits
    BY <1>7 DEF Start, Fresh
  <2>2. \A c \in Clients : stage'[c] = "idle"
    BY <1>7, <2>1 DEF Start, Quiet, Running
  <2>3. LineInv'
    BY <2>1 DEF PermitInv, LineInv
  <2> QED
    BY <2>1, <2>2, <2>3, PermitFresh
<1>8. CASE Exit
  <2>1. UNCHANGED <<queue, stage>> /\ free' = Permits /\ \A c \in Clients : stage'[c] = "idle"
    BY <1>8 DEF Exit, Fresh
  <2>2. LineInv'
    BY <2>1 DEF PermitInv, LineInv
  <2> QED
    BY <2>1, <2>2, PermitFresh
<1>9. CASE Crash
  <2>1. /\ queue' = <<>> /\ free' = Permits
        /\ \A c \in Clients : stage'[c] = "idle"
    BY <1>9 DEF Crash, Fresh, NoRequests
  <2>2. LineInv'
    BY <2>1 DEF LineInv
  <2> QED
    BY <2>1, <2>2, PermitFresh
<1>10. CASE Purge \/ Signal \/ Tick \/ UNCHANGED vars
  BY <1>1, <1>10 DEF Purge, Signal, Tick, vars
<1> QED
  BY <1>2, <1>3, <1>4, <1>5, <1>6, <1>7, <1>8, <1>9, <1>10 DEF Next, Handle

\* However requests end (answered, refused, in line, by the deadline or with their
\* client), no permit is lost or given twice, and nobody stands in line for nothing.
THEOREM Permitted == Spec => []PermitsAccounted
<1>1. Init => TypeOK /\ Quiet /\ PermitInv
  BY InitType, InitQuiet, InitPermits
<1>2. (TypeOK /\ Quiet /\ PermitInv) /\ [Next]_vars => (TypeOK /\ Quiet /\ PermitInv)'
  BY TypePreserved, QuietPreserved, PermitsPreserved
<1>3. PermitInv => PermitsAccounted
  BY PermitInvIs
<1> QED
  BY <1>1, <1>2, <1>3, PTL DEF Spec

-------------------------------------------------------------------------------
(* Proofs of actions *)

\* An action_id names one action: it is on its way to the store, or was inserted.
IdsInv ==
    /\ \A c \in Clients : action[c] <= lastAction
    /\ \A c \in Clients : stage[c] \in {"await", "prove", "insert"} => action[c] # 0
    /\ \A c, d \in Clients : action[c] = action[d] /\ action[c] # 0 => c = d
    /\ \A i \in DOMAIN inserted : inserted[i].id \in 1..lastAction
    /\ \A i \in DOMAIN inserted : \A c \in Clients : action[c] # inserted[i].id
    /\ \A i, j \in DOMAIN inserted : inserted[i].id = inserted[j].id => i = j

LEMMA InitIds == Init => IdsInv
  BY DEF Init, IdsInv

\* No id is drawn, and ids go only by being forgotten.
LEMMA IdsGo ==
    ASSUME TypeOK, IdsInv, lastAction' = lastAction, inserted' = inserted \/ inserted' = <<>>,
           \A c \in Clients : action'[c] = action[c] \/ action'[c] = 0,
           \A c \in Clients : stage'[c] \in {"await", "prove", "insert"} =>
               action'[c] = action[c] /\ action[c] # 0
    PROVE  IdsInv'
<1>1. \A i \in DOMAIN inserted' : i \in DOMAIN inserted /\ inserted'[i] = inserted[i]
  OBVIOUS
<1>2. lastAction \in Nat
  BY DEF TypeOK
<1>3. /\ \A c \in Clients : action'[c] <= lastAction'
      /\ \A c, d \in Clients : action'[c] = action'[d] /\ action'[c] # 0 => c = d
  BY <1>2 DEF IdsInv
<1>4. \A i \in DOMAIN inserted' : inserted'[i].id \in 1..lastAction'
  BY <1>1 DEF IdsInv
<1>5. \A i \in DOMAIN inserted' : \A c \in Clients : action'[c] # inserted'[i].id
  BY <1>1, <1>2, <1>4 DEF IdsInv
<1>6. \A i, j \in DOMAIN inserted' : inserted'[i].id = inserted'[j].id => i = j
  BY <1>1 DEF IdsInv
<1> QED
  BY <1>3, <1>4, <1>5, <1>6 DEF IdsInv

LEMMA IdsPreserved ==
    ASSUME TypeOK, IdsInv, [Next]_vars
    PROVE  IdsInv'
<1> USE DEF keyVars, admission, requests, proofVars, effects
<1>1. ASSUME UNCHANGED <<action, lastAction, inserted, stage>>
      PROVE  IdsInv'
  BY <1>1 DEF IdsInv
<1>2. ASSUME NEW c \in Clients, NEW s \in Stages, Go(c, s),
             s \in {"await", "prove", "insert"} => action[c] # 0,
             UNCHANGED <<action, lastAction, inserted>>
      PROVE  IdsInv'
  BY <1>2, IdsGo DEF Go, TypeOK, IdsInv
<1>3. ASSUME NEW c \in Clients, Forget(c), UNCHANGED <<lastAction, inserted>>
      PROVE  IdsInv'
  BY <1>3, IdsGo DEF Forget, Go, TypeOK, IdsInv
<1>4. ASSUME NEW c \in Clients,
             \/ \E k \in Keys : Connect(c, k)
             \/ Admit(c) \/ FindFull(c)
      PROVE  IdsInv'
  <2>1. \E s \in {"queued", "check", "full"} : Go(c, s)
    BY <1>4 DEF Connect, Admit, FindFull
  <2>2. UNCHANGED <<action, lastAction, inserted>>
    BY <1>4 DEF Connect, Admit, FindFull
  <2> QED
    BY <1>2, <2>1, <2>2 DEF Stages, Holding
<1>5. ASSUME NEW c \in Clients, EndAction(c) \/ Stamp(c)
      PROVE  IdsInv'
  <2>1. \E s \in {"prove", "insert"} : Go(c, s)
    BY <1>5 DEF EndAction, Stamp
  <2>2. UNCHANGED <<action, lastAction, inserted>> /\ action[c] # 0
    BY <1>5 DEF EndAction, Stamp, IdsInv
  <2> QED
    BY <1>2, <2>1, <2>2 DEF Stages, Holding
<1>6. ASSUME NEW c \in Clients, HangUp(c) \/ Answer(c) \/ TurnAway(c) \/ Finish(c)
      PROVE  IdsInv'
  BY <1>3, <1>6 DEF HangUp, Answer, TurnAway, Finish, Leave
\* The id is new, so it is nobody's and on no record.
<1>7. ASSUME NEW c \in Clients, Begin(c)
      PROVE  IdsInv'
  <2>1. /\ lastAction' = lastAction + 1 /\ lastAction \in Nat
        /\ action' = [action EXCEPT ![c] = lastAction + 1]
        /\ inserted' = inserted
        /\ Go(c, "await") \/ Go(c, "prove")
    BY <1>7 DEF Begin, TypeOK
  <2>2. \A d \in Clients : action'[d] = IF d = c THEN lastAction + 1 ELSE action[d]
    BY <2>1 DEF TypeOK
  <2>3. \A d \in Clients : action[d] \in Nat /\ action[d] <= lastAction
    BY DEF TypeOK, IdsInv
  <2>4. \A d \in Clients : action'[d] <= lastAction'
    BY <2>1, <2>2, <2>3
  <2>5. \A d \in Clients : stage'[d] \in {"await", "prove", "insert"} => action'[d] # 0
    BY <2>1, <2>2 DEF Go, TypeOK, IdsInv
  <2>6. \A d, e \in Clients : action'[d] = action'[e] /\ action'[d] # 0 => d = e
    BY <2>1, <2>2, <2>3 DEF IdsInv
  <2>7. \A i \in DOMAIN inserted : inserted[i].id \in 1..lastAction'
    BY <2>1 DEF IdsInv
  <2>8. \A i \in DOMAIN inserted : \A d \in Clients : action'[d] # inserted[i].id
    BY <2>1, <2>2 DEF IdsInv
  <2>9. \A i, j \in DOMAIN inserted : inserted[i].id = inserted[j].id => i = j
    BY DEF IdsInv
  <2> QED
    BY <2>1, <2>4, <2>5, <2>6, <2>7, <2>8, <2>9 DEF IdsInv
\* The id leaves its request for the store.
<1>8. ASSUME NEW c \in Clients, Prove(c)
      PROVE  IdsInv'
  <2> DEFINE r == [id |-> action[c], second |-> stamp[c]]
  <2>1. /\ lastAction' = lastAction /\ lastAction \in Nat
        /\ action' = [action EXCEPT ![c] = 0]
        /\ inserted' = Append(inserted, r)
        /\ Go(c, "commit") /\ action[c] # 0 /\ action[c] \in Nat /\ stamp[c] \in Nat
    BY <1>8 DEF Prove, TypeOK, IdsInv
  <2>2. r \in [id : Nat, second : Nat] /\ r.id = action[c]
    BY <2>1
  <2> HIDE DEF r
  <2>3. /\ DOMAIN inserted = 1..Len(inserted) /\ Len(inserted) \in Nat
        /\ DOMAIN inserted' = 1..(Len(inserted) + 1)
        /\ \A i \in 1..Len(inserted) : inserted'[i] = inserted[i]
        /\ inserted'[Len(inserted) + 1] = r
    BY <2>1, <2>2, AppendProperties, LenProperties DEF TypeOK
  <2>4. \A i \in DOMAIN inserted' : i \in DOMAIN inserted \/ i = Len(inserted) + 1
    BY <2>3
  <2>5. \A d \in Clients : action'[d] = IF d = c THEN 0 ELSE action[d]
    BY <2>1 DEF TypeOK
  <2>6. \A i \in DOMAIN inserted' : inserted'[i].id \in 1..lastAction'
    BY <2>1, <2>2, <2>3, <2>4 DEF IdsInv
  <2>7. \A i \in DOMAIN inserted' : \A d \in Clients : action'[d] # inserted'[i].id
    BY <2>1, <2>2, <2>3, <2>4, <2>5, <2>6 DEF IdsInv
  <2>8. \A i, j \in DOMAIN inserted' : inserted'[i].id = inserted'[j].id => i = j
    BY <2>2, <2>3, <2>4 DEF IdsInv
  <2>9. /\ \A d \in Clients : action'[d] <= lastAction'
        /\ \A d \in Clients : stage'[d] \in {"await", "prove", "insert"} => action'[d] # 0
        /\ \A d, e \in Clients : action'[d] = action'[e] /\ action'[d] # 0 => d = e
    BY <2>1, <2>5 DEF IdsInv, Go, TypeOK
  <2> QED
    BY <2>6, <2>7, <2>8, <2>9 DEF IdsInv
<1>9. CASE Start \/ Exit
  BY <1>9, IdsGo DEF Start, Exit, Fresh, IdsInv
<1>10. CASE Crash
  BY <1>10, IdsGo DEF Crash, Fresh, NoRequests
<1>11. CASE Purge \/ Signal \/ Tick \/ UNCHANGED vars
  BY <1>1, <1>11 DEF Purge, Signal, Tick, vars
<1> QED
  BY <1>4, <1>5, <1>6, <1>7, <1>8, <1>9, <1>10, <1>11 DEF Next, Handle

\* Every record in the store is one that was inserted.
StoreInv ==
    \A i \in DOMAIN records : \E n \in DOMAIN inserted :
        inserted[n].id = i /\ inserted[n].second = records[i]

\* The records that are newer than the n-th in one sense or the other, and itself.
Newer(n) ==
    {m \in DOMAIN inserted : m >= n \/ inserted[m].second >= inserted[n].second}

KeptInv ==
    \A n \in DOMAIN inserted :
        ~Store!Holds(inserted[n].id) => Cardinality(Newer(n)) > MaxRecords

ProofInv == IdsInv /\ StoreInv /\ KeptInv

LEMMA InsertedType ==
    ASSUME TypeOK
    PROVE  /\ Len(inserted) \in Nat
           /\ DOMAIN inserted = 1..Len(inserted)
           /\ \A n \in DOMAIN inserted : inserted[n].id \in Nat /\ inserted[n].second \in Nat
           /\ IsFiniteSet(DOMAIN inserted)
<1>1. Len(inserted) \in Nat /\ DOMAIN inserted = 1..Len(inserted)
  BY LenProperties DEF TypeOK
<1>2. \A n \in 1..Len(inserted) : inserted[n] \in [id : Nat, second : Nat]
  BY ElementOfSeq DEF TypeOK
<1>3. IsFiniteSet(1..Len(inserted))
  BY <1>1, FS_Interval
<1> QED
  BY <1>1, <1>2, <1>3

\* The inserted records that the store still holds are as many as it holds.
LEMMA HeldRecords ==
    ASSUME TypeOK, StoreInv
    PROVE  LET Held == {n \in DOMAIN inserted : inserted[n].id \in DOMAIN records}
           IN  IsFiniteSet(Held) /\ Cardinality(DOMAIN records) <= Cardinality(Held)
<1> DEFINE Held == {n \in DOMAIN inserted : inserted[n].id \in DOMAIN records}
           IdOf == [n \in Held |-> inserted[n].id]
<1>1. IsFiniteSet(Held)
  BY InsertedType, FS_Subset
<1>2. IdOf \in Surjection(Held, DOMAIN records)
  <2>1. IdOf \in [Held -> DOMAIN records]
    OBVIOUS
  <2>2. ASSUME NEW i \in DOMAIN records
        PROVE  \E n \in Held : IdOf[n] = i
    BY DEF StoreInv
  <2> QED
    BY <2>1, <2>2 DEF Surjection
<1> HIDE DEF Held, IdOf
<1>3. Cardinality(DOMAIN records) <= Cardinality(Held)
  BY <1>1, <1>2, FS_Surjection
<1> QED
  BY <1>1, <1>3 DEF Held

\* A record that is evicted is not newer than any other in the store: what is left
\* of these, the new one and itself are more than the store may hold.
LEMMA EvictedIsOld ==
    ASSUME TypeOK, IdsInv, StoreInv,
           NEW r \in [id : Nat, second : Nat], inserted' = Append(inserted, r), Store!Full,
           NEW n \in DOMAIN inserted, inserted[n].id \in Store!Evictable
    PROVE  Cardinality(Newer(n)') > MaxRecords
<1> DEFINE Held == {m \in DOMAIN inserted : inserted[m].id \in DOMAIN records}
           last == Len(inserted) + 1
<1>1. /\ Len(inserted) \in Nat
      /\ DOMAIN inserted = 1..Len(inserted)
      /\ DOMAIN inserted' = 1..last
      /\ \A m \in DOMAIN inserted : inserted'[m] = inserted[m]
  <2>1. inserted \in Seq([id : Nat, second : Nat])
    BY DEF TypeOK
  <2>2. /\ inserted' \in Seq([id : Nat, second : Nat])
        /\ Len(inserted') = last
        /\ \A m \in 1..Len(inserted) : inserted'[m] = inserted[m]
    BY <2>1, AppendProperties
  <2> QED
    BY <2>2, InsertedType, LenProperties
<1>2. IsFiniteSet(Held) /\ Cardinality(DOMAIN records) <= Cardinality(Held)
  BY HeldRecords
<1>3. IsFiniteSet(DOMAIN records) /\ Cardinality(DOMAIN records) >= MaxRecords
  <2>1. DOMAIN records \subseteq {inserted[m].id : m \in DOMAIN inserted}
    BY DEF StoreInv
  <2>2. DOMAIN records \subseteq 1..lastAction
    BY <2>1 DEF IdsInv
  <2>3. IsFiniteSet(1..lastAction)
    <3>1. lastAction \in Int /\ 1 \in Int
      BY DEF TypeOK
    <3> QED
      BY <3>1, FS_Interval
  <2>4. IsFiniteSet(DOMAIN records)
    BY <2>2, <2>3, FS_Subset
  <2> QED
    BY <2>4, Zenon DEF Store!Full, Store!Cardinality, Cardinality
<1>4. ASSUME NEW m \in Held
      PROVE  inserted[m].second >= inserted[n].second
  <2>1. inserted[m].second = records[inserted[m].id]
    BY DEF StoreInv, IdsInv
  <2>2. inserted[n].second = records[inserted[n].id]
    BY DEF Store!Evictable, StoreInv, IdsInv
  <2>3. records[inserted[n].id] <= records[inserted[m].id]
    BY DEF Store!Evictable
  <2> QED
    BY <2>1, <2>2, <2>3, InsertedType
<1>5. Held \cup {last} \subseteq Newer(n)'
  <2>1. last \in DOMAIN inserted' /\ last >= n
    BY <1>1
  <2>2. \A m \in Held : m \in DOMAIN inserted' /\ inserted'[m].second >= inserted'[n].second
    BY <1>1, <1>4
  <2> QED
    BY <2>1, <2>2 DEF Newer
<1>6. last \notin Held
  BY <1>1
<1>7. IsFiniteSet(Newer(n)')
  <2>1. IsFiniteSet(1..last)
    BY <1>1, FS_Interval
  <2> QED
    BY <1>1, <2>1, FS_Subset DEF Newer
<1> HIDE DEF Held, last
<1>8. Cardinality(Held \cup {last}) = Cardinality(Held) + 1 /\ IsFiniteSet(Held \cup {last})
  BY <1>2, <1>6, FS_AddElement
<1>9. Cardinality(Held \cup {last}) <= Cardinality(Newer(n)')
  BY <1>5, <1>7, FS_Subset
<1>10. /\ Cardinality(Held) \in Nat /\ Cardinality(Newer(n)') \in Nat
       /\ Cardinality(DOMAIN records) \in Nat /\ MaxRecords \in Nat
  BY <1>2, <1>3, <1>7, FS_CardinalityType, DaemonAssumption
<1> QED
  BY <1>2, <1>3, <1>8, <1>9, <1>10

LEMMA InsertKeepsProofs ==
    ASSUME TypeOK, ProofInv, NEW c \in Clients, Prove(c)
    PROVE  StoreInv' /\ KeptInv'
<1> DEFINE r == [id |-> action[c], second |-> stamp[c]]
           last == Len(inserted) + 1
<1>1. /\ Store!Insert(action[c], stamp[c])
      /\ inserted' = Append(inserted, r)
      /\ r \in [id : Nat, second : Nat]
      /\ r.id = action[c] /\ r.second = stamp[c]
      /\ \A n \in DOMAIN inserted : inserted[n].id # r.id
  BY DEF Prove, TypeOK, ProofInv, IdsInv
<1> HIDE DEF r
<1>2. /\ Len(inserted) \in Nat
      /\ DOMAIN inserted = 1..Len(inserted)
      /\ DOMAIN inserted' = 1..last
      /\ \A n \in DOMAIN inserted : inserted'[n] = inserted[n]
      /\ inserted'[last] = r
  <2>1. inserted \in Seq([id : Nat, second : Nat])
    BY DEF TypeOK
  <2>2. /\ inserted' \in Seq([id : Nat, second : Nat])
        /\ Len(inserted') = last
        /\ \A n \in 1..Len(inserted) : inserted'[n] = inserted[n]
        /\ inserted'[last] = r
    BY <1>1, <2>1, AppendProperties
  <2> QED
    BY <2>2, InsertedType, LenProperties
\* What is kept is all, or all but one that may go.
<1>3. PICK kept \in SUBSET DOMAIN records :
        /\ records' = [i \in kept \cup {r.id} |-> IF i = r.id THEN r.second ELSE records[i]]
        /\ \/ kept = DOMAIN records
           \/ Store!Full /\ \E old \in Store!Evictable : kept = DOMAIN records \ {old}
  <2>1. action[c] \in Nat /\ stamp[c] \in Nat
    BY DEF TypeOK
  <2>2. PICK kept \in SUBSET DOMAIN records : InsertedBeside(kept, action[c], stamp[c])
    BY <1>1, <2>1, InsertShape
  <2> QED
    BY <1>1, <2>2 DEF InsertedBeside
<1>4. StoreInv'
  <2>1. ASSUME NEW i \in DOMAIN records'
        PROVE  \E n \in DOMAIN inserted' : inserted'[n].id = i /\ inserted'[n].second = records'[i]
    <3>1. CASE i = r.id
      <4>1. last \in DOMAIN inserted' /\ records'[i] = r.second
        BY <1>2, <1>3, <3>1
      <4> QED
        BY <1>2, <3>1, <4>1
    <3>2. CASE i # r.id
      <4>1. i \in DOMAIN records /\ records'[i] = records[i]
        BY <1>3, <3>2
      <4>2. PICK n \in DOMAIN inserted : inserted[n].id = i /\ inserted[n].second = records[i]
        BY <4>1 DEF ProofInv, StoreInv
      <4>3. n \in DOMAIN inserted' /\ inserted'[n] = inserted[n]
        BY <1>2
      <4> QED
        BY <4>1, <4>2, <4>3
    <3> QED
      BY <3>1, <3>2
  <2> QED
    BY <2>1 DEF StoreInv
<1>5. ASSUME NEW n \in DOMAIN inserted', ~Store!Holds(inserted[n].id)'
      PROVE  Cardinality(Newer(n)') > MaxRecords
  <2>1. n \in DOMAIN inserted /\ inserted'[n] = inserted[n]
    <3>1. n # last
      BY <1>2, <1>3, <1>5 DEF Store!Holds
    <3> QED
      BY <1>2, <3>1
  <2>2. CASE inserted[n].id \notin DOMAIN records
    <3>1. Cardinality(Newer(n)) > MaxRecords
      BY <2>1, <2>2 DEF ProofInv, KeptInv, Store!Holds
    <3>2. Newer(n) \subseteq Newer(n)'
      BY <1>2, <2>1 DEF Newer
    <3>3. IsFiniteSet(Newer(n)')
      <4>1. IsFiniteSet(1..last)
        BY <1>2, FS_Interval
      <4> QED
        BY <1>2, <4>1, FS_Subset DEF Newer
    <3>4. /\ Cardinality(Newer(n)) <= Cardinality(Newer(n)')
          /\ Cardinality(Newer(n)) \in Nat /\ Cardinality(Newer(n)') \in Nat
      BY <3>2, <3>3, FS_Subset, FS_CardinalityType
    <3> QED
      BY <3>1, <3>4, DaemonAssumption
  <2>3. CASE inserted[n].id \in DOMAIN records
    <3>1. inserted[n].id \notin kept
      BY <1>3, <1>5, <2>1 DEF Store!Holds
    <3>2. Store!Full /\ inserted[n].id \in Store!Evictable
      BY <1>3, <2>3, <3>1
    <3> QED
      BY <1>1, <2>1, <3>2, EvictedIsOld DEF ProofInv
  <2> QED
    BY <2>2, <2>3
<1> QED
  BY <1>4, <1>5 DEF KeptInv

LEMMA StorePreserved ==
    ASSUME TypeOK, ProofInv, [Next]_vars
    PROVE  StoreInv' /\ KeptInv'
<1>1. ASSUME UNCHANGED <<records, inserted>>
      PROVE  StoreInv' /\ KeptInv'
  BY <1>1 DEF ProofInv, StoreInv, KeptInv, Newer, Store!Holds
<1>2. ASSUME Fresh
      PROVE  StoreInv' /\ KeptInv'
  BY <1>2 DEF Fresh, StoreInv, KeptInv
<1>3. ASSUME NEW c \in Clients,
             \/ \E k \in Keys : Connect(c, k)
             \/ Admit(c) \/ HangUp(c) \/ Answer(c) \/ Begin(c) \/ FindFull(c) \/ TurnAway(c)
             \/ EndAction(c) \/ Stamp(c) \/ Finish(c)
      PROVE  UNCHANGED <<records, inserted>>
  BY <1>3 DEF Connect, Admit, HangUp, Answer, Begin, FindFull, TurnAway, EndAction, Stamp, Finish,
              proofVars
<1>4. CASE Purge \/ Signal \/ Tick \/ UNCHANGED vars
  BY <1>1, <1>4 DEF Purge, Signal, Tick, vars, proofVars
<1>5. CASE Start \/ Exit \/ Crash
  BY <1>2, <1>5 DEF Start, Exit, Crash
<1> QED
  BY <1>1, <1>3, <1>4, <1>5, InsertKeepsProofs DEF Next, Handle

LEMMA ProofsPreserved ==
    ASSUME TypeOK, ProofInv, [Next]_vars
    PROVE  ProofInv'
  BY IdsPreserved, StorePreserved DEF ProofInv

\* A proof is lost to none but newer ones: to those inserted after it, or that bear
\* its second or a later one, whatever the wall clock does.
THEOREM RecentProofs == Spec => []RecentProofsAreKept
<1>1. Init => TypeOK /\ ProofInv
  BY InitType, InitIds DEF Init, ProofInv, StoreInv, KeptInv, Store!StoreInit
<1>2. (TypeOK /\ ProofInv) /\ [Next]_vars => (TypeOK /\ ProofInv)'
  BY TypePreserved, ProofsPreserved
<1>3. TypeOK /\ ProofInv => RecentProofsAreKept
  <2>1. ASSUME TypeOK, ProofInv, NEW n \in DOMAIN inserted, Cardinality(Newer(n)) <= MaxRecords
        PROVE  Store!Holds(inserted[n].id)
    <3>1. IsFiniteSet(Newer(n))
      BY <2>1, InsertedType, FS_Subset DEF Newer
    <3>2. Cardinality(Newer(n)) \in Nat /\ MaxRecords \in Nat
      BY <3>1, FS_CardinalityType, DaemonAssumption
    <3>3. ~(Cardinality(Newer(n)) > MaxRecords)
      BY <2>1, <3>2
    <3> QED
      BY <2>1, <3>3 DEF ProofInv, KeptInv
  <2> QED
    BY <2>1 DEF RecentProofsAreKept, Newer
<1> QED
  BY <1>1, <1>2, <1>3, PTL DEF Spec

===============================================================================
