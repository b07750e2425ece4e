-------------------------------- MODULE Daemon --------------------------------
(***************************************************************************)
(* The daemon around its handlers: admission (build_router of              *)
(* safa-daemon/src/server.rs), graceful shutdown (main), and a process     *)
(* that dies or is started anew with nothing but an empty memory.          *)
(*                                                                         *)
(* The layers give the route of POST /ama/action eight permits of its own. *)
(* A request waits for one before its 30 s deadline starts to run, in the  *)
(* order of arrival.  What it does with its permit is a handler of         *)
(* HandleAction in few steps, over the key ownership that the idempotency  *)
(* cache implements, the capacity of one agent and the bounded proof store.*)
(***************************************************************************)
EXTENDS Totals, Sequences, SequencesExt

CONSTANTS
    Clients,      \* connections
    Keys,         \* idempotency keys
    NoKey,        \* the key of a client without a request
    Permits,      \* concurrency_limit
    Budget,       \* max_capacity of the agent, in actions
    TTL,          \* ttl of the idempotency cache
    MaxRecords,   \* max_entries of the proof store
    MaxTime,      \* bound on the clock (model checking only)
    MaxSecond,    \* bound on what the wall clock shows (model checking only)
    MaxActions,   \* bound on the actions started (model checking only)
    MaxStarts     \* bound on the starts of the process (model checking only)

ASSUME DaemonAssumption ==
    /\ NoKey \notin Keys
    /\ IsFiniteSet(Clients)
    /\ Permits \in Nat \ {0}
    /\ Budget \in Nat
    /\ TTL \in Nat \ {0}
    /\ MaxRecords \in Nat \ {0}
    /\ MaxTime \in Nat /\ MaxSecond \in Nat /\ MaxActions \in Nat /\ MaxStarts \in Nat

VARIABLES
    now, status, reservedAt,   \* see KeyOwnership
    records,                   \* see ProofStore
    phase,       \* of the process
    free,        \* permits nobody holds
    queue,       \* the clients that wait for a permit, in the order they came
    stage,       \* stage[c]: what happens next to the request of client c
    wants,       \* wants[c]: its key
    action,      \* action[c]: its action_id, 0 while it has no record to write
    stamp,       \* stamp[c]: the timestamp of that record
    spent,       \* the agent's capacity counter
    lastAction,  \* the ids drawn so far
    inserted,    \* history: the records inserted since the process started, in order
    acts,        \* history: acts[k]: how often an action of key k was tried
    forgot,      \* history: forgot[k]: how often k became free, or was taken over
    starts       \* history: how often the process was started

keyVars == <<now, status, reservedAt>>
admission == <<phase, free, queue>>
requests == <<stage, wants, action, stamp>>
proofVars == <<records, inserted>>
effects == <<acts, spent, lastAction>>
vars == <<keyVars, admission, requests, proofVars, effects, forgot, starts>>

Own == INSTANCE KeyOwnership
Store == INSTANCE ProofStore

Phases == {"down", "serving", "draining", "stopped"}

Holding == {"check", "full", "await", "prove", "insert", "commit"}

Stages == {"idle", "queued"} \cup Holding

TypeOK ==
    /\ now \in Nat
    /\ status \in [Keys -> Own!Statuses]
    /\ reservedAt \in [Keys -> Nat]
    /\ records \in [DOMAIN records -> Nat]
    /\ inserted \in Seq([id : Nat, second : Nat])
    /\ phase \in Phases
    /\ free \in Nat
    /\ queue \in Seq(Clients)
    /\ stage \in [Clients -> Stages]
    /\ wants \in [Clients -> Keys \cup {NoKey}]
    /\ action \in [Clients -> Nat]
    /\ stamp \in [Clients -> Nat]
    /\ spent \in 0..Budget
    /\ lastAction \in Nat
    /\ acts \in [Keys -> Nat]
    /\ forgot \in [Keys -> Nat]
    /\ starts \in Nat

\* A process that has just started: AppState::new.
Fresh ==
    /\ status' = [k \in Keys |-> "free"]
    /\ reservedAt' = [k \in Keys |-> 0]
    /\ records' = [i \in {} |-> 0]
    /\ inserted' = <<>>
    /\ spent' = 0
    /\ free' = Permits

NoRequests ==
    /\ queue' = <<>>
    /\ stage' = [c \in Clients |-> "idle"]
    /\ wants' = [c \in Clients |-> NoKey]
    /\ action' = [c \in Clients |-> 0]
    /\ stamp' = [c \in Clients |-> 0]

Init ==
    /\ Own!Init
    /\ Store!StoreInit
    /\ phase = "down"
    /\ free = Permits
    /\ queue = <<>>
    /\ stage = [c \in Clients |-> "idle"]
    /\ wants = [c \in Clients |-> NoKey]
    /\ action = [c \in Clients |-> 0]
    /\ stamp = [c \in Clients |-> 0]
    /\ spent = 0
    /\ lastAction = 0
    /\ inserted = <<>>
    /\ acts = [k \in Keys |-> 0]
    /\ forgot = [k \in Keys |-> 0]
    /\ starts = 0

Running == phase \in {"serving", "draining"}

-------------------------------------------------------------------------------
(* Admission *)

Go(c, s) == stage' = [stage EXCEPT ![c] = s]

\* Mutant: connections are accepted until the process has stopped.
AcceptsWhileDraining == Running

\* with_graceful_shutdown: no connection is accepted after the signal.
Accepts == phase = "serving"

\* A request with key k comes in on connection c: the service is polled, which
\* puts it in line for a permit.
Connect(c, k) ==
    /\ Accepts
    /\ stage[c] = "idle"
    /\ queue' = Append(queue, c)
    /\ Go(c, "queued")
    /\ wants' = [wants EXCEPT ![c] = k]
    /\ UNCHANGED <<keyVars, phase, free, action, stamp, proofVars, effects, forgot, starts>>

\* Mutant: permits go to the request that came last.
NextInLast == Len(queue)

\* Permits are given in the order of the requests: the place in line of the next.
NextIn == 1

Admit(c) ==
    /\ stage[c] = "queued"
    /\ free > 0
    /\ NextIn \in DOMAIN queue /\ queue[NextIn] = c
    /\ free' = free - 1
    /\ queue' = RemoveAt(queue, NextIn)
    /\ Go(c, "check")
    /\ UNCHANGED <<keyVars, phase, wants, action, stamp, proofVars, effects, forgot, starts>>

\* c leaves the line, wherever it stands.
StepOut(c) == \E i \in DOMAIN queue : queue[i] = c /\ queue' = RemoveAt(queue, i)

\* The locals of a request are gone.
Forget(c) ==
    /\ Go(c, "idle")
    /\ wants' = [wants EXCEPT ![c] = NoKey]
    /\ action' = [action EXCEPT ![c] = 0]
    /\ stamp' = [stamp EXCEPT ![c] = 0]

\* The response is sent; the permit goes back with the response future.
Leave(c) ==
    /\ Forget(c)
    /\ free' = free + 1
    /\ UNCHANGED <<phase, queue>>

\* Mutant: the permit is given back by the handler's last line, which a dropped
\* future does not reach.
HangUpWithPermit(c) ==
    /\ \/ stage[c] = "queued" /\ StepOut(c)
       \/ stage[c] = "await" /\ UNCHANGED queue
    /\ Forget(c)
    /\ UNCHANGED <<keyVars, phase, free, proofVars, effects, forgot, starts>>

\* Mutant: a dropped future gives its charge back.
HangUpRefunded(c) ==
    /\ \/ /\ stage[c] = "queued" /\ StepOut(c)
          /\ UNCHANGED <<free, spent>>
       \/ /\ stage[c] = "await" /\ free' = free + 1 /\ spent' = spent - 1
          /\ UNCHANGED queue
    /\ Forget(c)
    /\ UNCHANGED <<keyVars, phase, proofVars, acts, lastAction, forgot, starts>>

\* The client hangs up, in the queue or while its handler awaits the action, or,
\* in the latter case, the deadline passes: the future is dropped, with its place
\* in the queue or its permit.  The key stays in flight.
HangUp(c) ==
    /\ \/ stage[c] = "queued" /\ StepOut(c) /\ UNCHANGED free
       \/ stage[c] = "await" /\ free' = free + 1 /\ UNCHANGED queue
    /\ Forget(c)
    /\ UNCHANGED <<keyVars, phase, proofVars, effects, forgot, starts>>

-------------------------------------------------------------------------------
(* The handler *)

\* Answered before the action is tried: headers, signature, rate limit, a replayed
\* response, or a key in flight.
Answer(c) ==
    /\ stage[c] = "check"
    /\ Leave(c)
    /\ UNCHANGED <<keyVars, proofVars, effects, forgot, starts>>

\* The key is c's; then the charge and an action, or a denial.
Begin(c) ==
    LET k == wants[c]
    IN  /\ stage[c] = "check"
        /\ lastAction < MaxActions
        /\ Own!Reserve(k)
        /\ forgot' = IF Own!Expirable(k) THEN [forgot EXCEPT ![k] = @ + 1] ELSE forgot
        /\ lastAction' = lastAction + 1
        /\ action' = [action EXCEPT ![c] = lastAction + 1]
        /\ \/ /\ spent < Budget
              /\ spent' = spent + 1
              /\ acts' = [acts EXCEPT ![k] = @ + 1]
              /\ Go(c, "await")
           \/ /\ spent = Budget
              /\ Go(c, "prove")
              /\ UNCHANGED <<spent, acts>>
        /\ UNCHANGED <<admission, wants, stamp, proofVars, starts>>

\* The cache was found full, without the key ...
FindFull(c) ==
    /\ stage[c] = "check"
    /\ status[wants[c]] = "free"
    /\ Go(c, "full")
    /\ UNCHANGED <<keyVars, admission, wants, action, stamp, proofVars, effects, forgot, starts>>

\* Keys that the cache lets go of.
Lost(S) == forgot' = [k \in Keys |-> IF k \in S /\ status[k] # "free" THEN forgot[k] + 1 ELSE forgot[k]]

\* ... and the key is removed, though it may be another's by now.
TurnAway(c) ==
    /\ stage[c] = "full"
    /\ Own!Remove(wants[c])
    /\ Lost({wants[c]})
    /\ Leave(c)
    /\ UNCHANGED <<proofVars, effects, starts>>

\* The action ends, or its own timeout ends it.
EndAction(c) ==
    /\ stage[c] = "await"
    /\ Go(c, "prove")
    /\ UNCHANGED <<keyVars, admission, wants, action, stamp, proofVars, effects, forgot, starts>>

\* timestamp_now, before the store is locked: whatever second the wall clock shows,
\* which is set forward and back.
Stamp(c) ==
    /\ stage[c] = "prove"
    /\ \E second \in 0..MaxSecond : stamp' = [stamp EXCEPT ![c] = second]
    /\ Go(c, "insert")
    /\ UNCHANGED <<keyVars, admission, wants, action, proofVars, effects, forgot, starts>>

Prove(c) ==
    /\ stage[c] = "insert"
    /\ Store!Insert(action[c], stamp[c])
    /\ inserted' = Append(inserted, [id |-> action[c], second |-> stamp[c]])
    /\ Go(c, "commit")
    /\ action' = [action EXCEPT ![c] = 0]
    /\ stamp' = [stamp EXCEPT ![c] = 0]
    /\ UNCHANGED <<keyVars, admission, wants, effects, forgot, starts>>

Finish(c) ==
    /\ stage[c] = "commit"
    /\ Own!Commit(wants[c])
    /\ Leave(c)
    /\ UNCHANGED <<proofVars, effects, forgot, starts>>

\* A purge, in the name of any request.
Purge ==
    /\ Running
    /\ \E S \in SUBSET Keys \ {{}} : Own!Expire(S) /\ Lost(S)
    /\ UNCHANGED <<admission, requests, proofVars, effects, starts>>

-------------------------------------------------------------------------------
(* The process and the clocks *)

Start ==
    /\ phase \in {"down", "stopped"}
    /\ starts < MaxStarts
    /\ phase' = "serving"
    /\ starts' = starts + 1
    /\ Fresh
    /\ UNCHANGED <<now, queue, requests, acts, lastAction, forgot>>

\* SIGTERM or Ctrl+C: no connection is accepted from here on.
Signal ==
    /\ phase = "serving"
    /\ phase' = "draining"
    /\ UNCHANGED <<keyVars, free, queue, requests, proofVars, effects, forgot, starts>>

\* serve() returns once every connection is closed, and main with it.
Exit ==
    /\ phase = "draining"
    /\ \A c \in Clients : stage[c] = "idle"
    /\ phase' = "stopped"
    /\ Lost(Keys)
    /\ Fresh
    /\ UNCHANGED <<now, queue, requests, acts, lastAction, starts>>

\* The process dies, and everything it knew with it.
Crash ==
    /\ Running
    /\ phase' = "down"
    /\ Lost(Keys)
    /\ Fresh
    /\ NoRequests
    /\ UNCHANGED <<now, acts, lastAction, starts>>

Tick ==
    /\ Own!Tick
    /\ UNCHANGED <<admission, requests, proofVars, effects, forgot, starts>>

-------------------------------------------------------------------------------
Handle(c) ==
    \/ Answer(c) \/ Begin(c) \/ FindFull(c) \/ TurnAway(c)
    \/ EndAction(c) \/ Stamp(c) \/ Prove(c) \/ Finish(c)

Next ==
    \/ \E c \in Clients :
          \/ \E k \in Keys : Connect(c, k)
          \/ Admit(c) \/ Handle(c) \/ HangUp(c)
    \/ Purge \/ Start \/ Signal \/ Exit \/ Crash \/ Tick

Spec == Init /\ [][Next]_vars

(***************************************************************************)
(* A freed permit wakes the first in line, a handler runs on and its await *)
(* ends (each actuator has a timeout), and a server with no connections    *)
(* left exits.  Clients may keep coming and keep hanging up, the process   *)
(* may die or not, and no signal need arrive.                              *)
(***************************************************************************)
FairSpec ==
    /\ Spec
    /\ WF_vars(\E c \in Clients : Admit(c))
    /\ \A c \in Clients : WF_vars(Handle(c))
    /\ WF_vars(Exit)

-------------------------------------------------------------------------------
(* Properties *)

\* Every permit is free or held by a request past the queue, whichever way requests
\* end (answered, refused, dropped by the deadline or the client), so none leaks and
\* the limit holds; and the line is the requests that wait, each in it once.
PermitsAccounted ==
    /\ free + Cardinality({c \in Clients : stage[c] \in Holding}) = Permits
    /\ \A c \in Clients : stage[c] = "queued" <=> \E i \in DOMAIN queue : queue[i] = c
    /\ \A i, j \in DOMAIN queue : queue[i] = queue[j] => i = j

\* Across restarts, drops, expiries and evictions a key is tried no more than once for
\* each time the daemon lost its memory of it, and once more: there is no other
\* way to run an action twice.
OncePerMemory == \A k \in Keys : acts[k] <= forgot[k] + 1

\* What is charged is forgotten only with the process: over its life the agent acts
\* no more than its budget for each start.
BudgetPerStart == Total(acts) <= Budget * starts

\* The proof of an action is found for as long as fewer than max_entries records
\* were inserted after it or bear its second or a later one, however the wall clock
\* is set meanwhile.
RecentProofsAreKept ==
    \A i \in DOMAIN inserted :
        Cardinality({j \in DOMAIN inserted :
                        j >= i \/ inserted[j].second >= inserted[i].second}) <= MaxRecords
            => Store!Holds(inserted[i].id)

\* A request that waits for a permit gets one, or goes: it is not overtaken for ever.
QueueDrains == \A c \in Clients : stage[c] = "queued" ~> stage[c] # "queued"

\* A shutdown ends, whatever was in flight and in line when the signal came.
ShutdownCompletes == phase = "draining" ~> phase # "draining"
================================================================================
