--------------------------- MODULE Notifications ----------------------------
(***************************************************************************)
(* The order-notifications queue and its worker                            *)
(* (src/src/modules/notifications/order-notification.processor.ts).        *)
(*                                                                         *)
(* BullMQ holds the jobs in Redis, so they outlive the processes; each     *)
(* process of the application runs one worker.  What BullMQ does with a job*)
(* is modelled from the options of notifications.constants.ts: a worker    *)
(* takes a job under a lease, and a job whose lease lapses is run again.   *)
(***************************************************************************)
EXTENDS Integers

CONSTANTS
    Jobs,      \* the confirmation jobs, one for each confirmed order
    Workers,   \* the processes of the application
    None,      \* no worker, no job
    Attempts,  \* attempts of a job (5 in the code)
    MaxStalls  \* how often a job may lose its worker before it is given up

ASSUME NoneAssumption == None \notin Jobs \cup Workers
ASSUME AttemptsAssumption == Attempts \in Nat \ {0} /\ MaxStalls \in Nat

VARIABLES
    state,   \* where each job is
    lease,   \* the worker that holds the lock of an active job
    made,    \* job.attemptsMade: the failed attempts so far
    stalls,  \* how often the job was found without a worker
    doing,   \* the job each worker runs
    stage,   \* how far the worker's process() has come
    sent,    \* how often the notification of each job went out
    log      \* what onFailed last reported of each job

vars == <<state, lease, made, stalls, doing, stage, sent, log>>

-----------------------------------------------------------------------------
States == {"absent", "waiting", "active", "delayed", "done", "failed"}
Stages == {"idle", "running", "returned", "threw"}
Reports == {"nothing", "willRetry", "permanent"}

Settled(j) == state[j] \in {"done", "failed"}

Leave(w) ==
    /\ doing' = [doing EXCEPT ![w] = None]
    /\ stage' = [stage EXCEPT ![w] = "idle"]

Move(j, to) ==
    /\ state' = [state EXCEPT ![j] = to]
    /\ lease' = [lease EXCEPT ![j] = None]

\* Variant of the operator below with a mistake in it, as are the others called
\* variants: the last but one attempt counts as the last.
VerdictEarly(n) == IF n + 1 >= Attempts THEN "permanent" ELSE "willRetry"

\* onFailed: what is logged of a job with n failed attempts.
Verdict(n) == IF n >= Attempts THEN "permanent" ELSE "willRetry"

Init ==
    /\ state = [j \in Jobs |-> "absent"]
    /\ lease = [j \in Jobs |-> None]
    /\ made = [j \in Jobs |-> 0]
    /\ stalls = [j \in Jobs |-> 0]
    /\ doing = [w \in Workers |-> None]
    /\ stage = [w \in Workers |-> "idle"]
    /\ sent = [j \in Jobs |-> 0]
    /\ log = [j \in Jobs |-> "nothing"]

-----------------------------------------------------------------------------
\* notificationsQueue.add of a confirmed purchase.
Add(j) ==
    /\ state[j] = "absent"
    /\ state' = [state EXCEPT ![j] = "waiting"]
    /\ UNCHANGED <<lease, made, stalls, doing, stage, sent, log>>

\* A worker takes a job and process() starts the call to the provider.
Take(w, j) ==
    /\ doing[w] = None
    /\ state[j] = "waiting"
    /\ state' = [state EXCEPT ![j] = "active"]
    /\ lease' = [lease EXCEPT ![j] = w]
    /\ doing' = [doing EXCEPT ![w] = j]
    /\ stage' = [stage EXCEPT ![w] = "running"]
    /\ UNCHANGED <<made, stalls, sent, log>>

\* Variant: a failure of the provider is swallowed.
ProcessSwallowing(w) ==
    /\ stage[w] = "running"
    /\ stage' = [stage EXCEPT ![w] = "returned"]
    /\ \/ sent' = [sent EXCEPT ![doing[w]] = @ + 1]
       \/ UNCHANGED sent
    /\ UNCHANGED <<state, lease, made, stalls, doing, log>>

\* process() after its delay: the notification goes out, or it throws.  A job of
\* another name is ignored, and Add, the only caller of the queue, adds none.
Process(w) ==
    /\ stage[w] = "running"
    /\ \/ /\ sent' = [sent EXCEPT ![doing[w]] = @ + 1]
          /\ stage' = [stage EXCEPT ![w] = "returned"]
       \/ /\ stage' = [stage EXCEPT ![w] = "threw"]
          /\ UNCHANGED sent
    /\ UNCHANGED <<state, lease, made, stalls, doing, log>>

\* Variant: a job that went out is put back into the queue.
CompleteAgain(w) ==
    LET j == doing[w]
    IN  /\ stage[w] = "returned"
        /\ lease[j] = w
        /\ Leave(w)
        /\ Move(j, IF sent[j] > 1 THEN "done" ELSE "waiting")
        /\ UNCHANGED <<made, stalls, sent, log>>

\* removeOnComplete; a worker that has lost its lease changes nothing.
Complete(w) ==
    LET j == doing[w]
    IN  /\ stage[w] = "returned"
        /\ Leave(w)
        /\ \/ lease[j] = w /\ Move(j, "done")
           \/ lease[j] # w /\ UNCHANGED <<state, lease>>
        /\ UNCHANGED <<made, stalls, sent, log>>

\* Variant: a failed attempt does not count.
MadeUncounted(j) == made[j]

MadeNow(j) == made[j] + 1

\* Variant: one attempt too many.
AttemptsLeftLate(n) == n <= Attempts

AttemptsLeft(n) == n < Attempts

\* An attempt failed: back off and try again, or keep the job as failed
\* (removeOnFail: false); then onFailed reports it.
Fail(w) ==
    LET j == doing[w]
        n == MadeNow(j)
    IN  /\ stage[w] = "threw"
        /\ Leave(w)
        /\ \/ /\ lease[j] = w
              /\ made' = [made EXCEPT ![j] = n]
              /\ \/ AttemptsLeft(n) /\ Move(j, "delayed")
                 \/ ~AttemptsLeft(n) /\ Move(j, "failed")
              /\ log' = [log EXCEPT ![j] = Verdict(n)]
           \/ lease[j] # w /\ UNCHANGED <<state, lease, made, log>>
        /\ UNCHANGED <<stalls, sent>>

\* The backoff of a delayed job is over.
Promote(j) ==
    /\ state[j] = "delayed"
    /\ state' = [state EXCEPT ![j] = "waiting"]
    /\ UNCHANGED <<lease, made, stalls, doing, stage, sent, log>>

\* A job without a lease is run again, or given up as failed; onFailed hears
\* of that too, with the attempts made so far.
Stalled(j) ==
    /\ state[j] = "active"
    /\ lease[j] = None
    /\ stalls' = [stalls EXCEPT ![j] = @ + 1]
    /\ \/ /\ stalls[j] < MaxStalls
          /\ Move(j, "waiting")
          /\ UNCHANGED log
       \/ /\ stalls[j] >= MaxStalls
          /\ Move(j, "failed")
          /\ log' = [log EXCEPT ![j] = Verdict(made[j])]
    /\ UNCHANGED <<made, doing, stage, sent>>

\* A process dies in the middle of a job and is restarted.
Crash(w) ==
    /\ doing[w] # None
    /\ Leave(w)
    /\ lease' = [j \in Jobs |-> IF lease[j] = w THEN None ELSE lease[j]]
    /\ UNCHANGED <<state, made, stalls, sent, log>>

\* A process too busy to renew its lease goes on running the job.
LeaseLapses(j) ==
    /\ lease[j] # None
    /\ lease' = [lease EXCEPT ![j] = None]
    /\ UNCHANGED <<state, made, stalls, doing, stage, sent, log>>

-----------------------------------------------------------------------------
Work(w) ==
    \/ \E j \in Jobs : Take(w, j)
    \/ Process(w) \/ Complete(w) \/ Fail(w)

Queue(j) == Promote(j) \/ Stalled(j)

Next ==
    \/ \E j \in Jobs : Add(j) \/ Queue(j) \/ LeaseLapses(j)
    \/ \E w \in Workers : Work(w) \/ Crash(w)

Spec == Init /\ [][Next]_vars

\* Workers keep running jobs and the queue keeps its timers; nothing makes an
\* order come in or a process fail.
FairSpec ==
    /\ Spec
    /\ \A w \in Workers : WF_vars(Work(w))
    /\ \A j \in Jobs : WF_vars(Queue(j))

-----------------------------------------------------------------------------
(* Properties. *)

\* Types; in particular no job is attempted more often than its options say.
TypeOK ==
    /\ state \in [Jobs -> States]
    /\ lease \in [Jobs -> Workers \cup {None}]
    /\ made \in [Jobs -> 0..Attempts]
    /\ stalls \in [Jobs -> 0..(MaxStalls + 1)]
    /\ doing \in [Workers -> Jobs \cup {None}]
    /\ stage \in [Workers -> Stages]
    /\ sent \in [Jobs -> Nat]
    /\ log \in [Jobs -> Reports]

\* A job that left the queue as done was sent: no failed attempt is taken for
\* a success, not even one of a worker that had lost the job to another.
DoneMeansSent == \A j \in Jobs : state[j] = "done" => sent[j] > 0

\* A customer is notified twice only if the job lost its worker in between.
OneNoticePerRun == \A j \in Jobs : sent[j] <= 1 + stalls[j]

\* A job that was reported as permanently failed did fail in every attempt it
\* had, is kept as failed and is not run again.
PermanentMeansExhausted ==
    \A j \in Jobs :
        log[j] = "permanent" => state[j] = "failed" /\ made[j] = Attempts

\* Every job is settled in the end, sent or kept as failed, although any
\* attempt may fail and any process may die or lose the job it runs.
EveryJobSettles == \A j \in Jobs : state[j] # "absent" ~> Settled(j)
=============================================================================
