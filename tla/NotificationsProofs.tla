------------------------- MODULE NotificationsProofs -------------------------
(***************************************************************************)
(* Theorems about the notification queue for any number of jobs, workers,  *)
(* attempts and stalls.                                                    *)
(***************************************************************************)
EXTENDS Notifications, FiniteSetTheorems, TLAPS

-----------------------------------------------------------------------------
(* Types, leases and attempts. *)

\* A worker has a job exactly while it is not idle.
Busy == \A w \in Workers : doing[w] = None <=> stage[w] = "idle"

\* A lease is held on an active job, by a worker that runs it.
Leased == \A j \in Jobs : lease[j] # None => state[j] = "active" /\ doing[lease[j]] = j

\* A job that may still run has attempts and stalls left.
Spared ==
    \A j \in Jobs : state[j] # "failed" =>
        /\ state[j] # "done" => made[j] < Attempts
        /\ stalls[j] <= MaxStalls

QInv == TypeOK /\ Busy /\ Leased /\ Spared

\* The empty queue.
LEMMA InitQInv == Init => QInv
BY NoneAssumption, AttemptsAssumption
   DEF Init, QInv, TypeOK, Busy, Leased, Spared, States, Stages, Reports

\* A worker that is at work has a job.
LEMMA AtWork ==
    ASSUME QInv, NEW w \in Workers, stage[w] # "idle"
    PROVE  doing[w] \in Jobs
BY DEF QInv, TypeOK, Busy

\* What the actions of the queue do to types, leases and attempts.
LEMMA QueueQInv ==
    ASSUME QInv, NEW j \in Jobs, Add(j) \/ Queue(j) \/ LeaseLapses(j)
    PROVE  QInv'
<1> USE NoneAssumption, AttemptsAssumption DEF QInv, TypeOK, Busy, Leased, Spared
<1>1. CASE Add(j)
  BY <1>1 DEF Add, States
<1>2. CASE Promote(j)
  BY <1>2 DEF Promote, States
<1>3. CASE Stalled(j)
  <2>1. Verdict(made[j]) \in Reports
    BY DEF Verdict, Reports
  <2>2. state[j] = "active" /\ lease[j] = None /\ stalls[j] <= MaxStalls /\ stalls[j] \in Nat
    BY <1>3 DEF Stalled
  <2> QED
    BY <1>3, <2>1, <2>2 DEF Stalled, Move, States
<1>4. CASE LeaseLapses(j)
  BY <1>4 DEF LeaseLapses
<1> QED
  BY <1>1, <1>2, <1>3, <1>4 DEF Queue

\* What the steps of a worker do to them.
LEMMA WorkQInv ==
    ASSUME QInv, NEW w \in Workers, Work(w) \/ Crash(w)
    PROVE  QInv'
<1> USE NoneAssumption, AttemptsAssumption DEF QInv, TypeOK, Busy, Leased, Spared
<1>1. ASSUME NEW j \in Jobs, Take(w, j) PROVE QInv'
  BY <1>1 DEF Take, States, Stages
<1>2. CASE Process(w)
  <2>1. doing[w] \in Jobs /\ sent[doing[w]] + 1 \in Nat
    BY <1>2, AtWork DEF Process
  <2> QED
    BY <1>2, <2>1 DEF Process, Stages
<1>3. CASE Complete(w)
  <2>1. doing[w] \in Jobs
    BY <1>3, AtWork DEF Complete
  <2> QED
    BY <1>3, <2>1 DEF Complete, Leave, Move, States, Stages
<1>4. CASE Fail(w)
  <2>1. doing[w] \in Jobs
    BY <1>4, AtWork DEF Fail
  <2>2. Verdict(MadeNow(doing[w])) \in Reports
    BY DEF Verdict, Reports
  <2>3. CASE lease[doing[w]] # w
    BY <1>4, <2>1, <2>3 DEF Fail, Leave, Stages
  <2>4. CASE lease[doing[w]] = w
    <3>1. /\ state[doing[w]] = "active"
          /\ made[doing[w]] < Attempts /\ made[doing[w]] \in Nat
      BY <2>1, <2>4
    <3> QED
      BY <1>4, <2>1, <2>2, <2>4, <3>1 DEF Fail, Leave, Move, MadeNow, AttemptsLeft, States, Stages
  <2> QED
    BY <2>3, <2>4
<1>5. CASE Crash(w)
  BY <1>5 DEF Crash, Leave, Stages
<1> QED
  BY <1>1, <1>2, <1>3, <1>4, <1>5 DEF Work

LEMMA NextQInv == QInv /\ [Next]_vars => QInv'
<1> SUFFICES ASSUME QInv, [Next]_vars PROVE QInv'
  OBVIOUS
<1>1. CASE UNCHANGED vars
  BY <1>1 DEF vars, QInv, TypeOK, Busy, Leased, Spared
<1> QED
  BY <1>1, QueueQInv, WorkQInv DEF Next

LEMMA QInvariance == Spec => []QInv
BY InitQInv, NextQInv, PTL DEF Spec

\* Types; in particular no job is attempted or given another worker more often
\* than its options say, whatever workers lose and however they race.
THEOREM QueueTypeCorrect == Spec => []TypeOK
<1>1. QInv => TypeOK
  BY DEF QInv
<1> QED
  BY <1>1, QInvariance, PTL

-----------------------------------------------------------------------------
(* What was sent. *)

\* A process() that returned has sent the notification of its job.
Delivered == \A w \in Workers : stage[w] = "returned" => sent[doing[w]] > 0

LEMMA NextDelivered ==
    ASSUME QInv, Delivered, DoneMeansSent, [Next]_vars
    PROVE  Delivered' /\ DoneMeansSent'
<1> USE DEF Delivered, DoneMeansSent, QInv, TypeOK
<1>1. CASE UNCHANGED vars
  BY <1>1 DEF vars
<1>2. ASSUME NEW j \in Jobs, Add(j) \/ Queue(j) \/ LeaseLapses(j)
      PROVE  Delivered' /\ DoneMeansSent'
  BY <1>2 DEF Add, Queue, Promote, Stalled, Move, LeaseLapses
<1>3. ASSUME NEW w \in Workers, NEW j \in Jobs, Take(w, j)
      PROVE  Delivered' /\ DoneMeansSent'
  BY <1>3 DEF Take
<1>4. ASSUME NEW w \in Workers, Process(w) PROVE Delivered' /\ DoneMeansSent'
  <2>1. doing[w] \in Jobs
    BY <1>4, AtWork DEF Process
  <2>2. /\ \A j \in Jobs : sent'[j] >= sent[j] /\ sent'[j] \in Nat
        /\ stage'[w] = "returned" => sent'[doing[w]] > 0
        /\ state' = state /\ doing' = doing
        /\ \A v \in Workers : v # w => stage'[v] = stage[v]
    BY <1>4, <2>1 DEF Process
  <2>3. \A v \in Workers : stage[v] = "returned" => doing[v] \in Jobs
    BY AtWork
  <2> QED
    BY <2>2, <2>3
<1>5. ASSUME NEW w \in Workers, Complete(w) PROVE Delivered' /\ DoneMeansSent'
  BY <1>5, AtWork DEF Complete, Leave, Move
<1>6. ASSUME NEW w \in Workers, Fail(w) \/ Crash(w) PROVE Delivered' /\ DoneMeansSent'
  BY <1>6, AtWork DEF Fail, Crash, Leave, Move
<1> QED
  BY <1>1, <1>2, <1>3, <1>4, <1>5, <1>6 DEF Next, Work

\* A job that left the queue as done was sent, also when workers lost it to one
\* another.
THEOREM DoneAlwaysSent == Spec => []DoneMeansSent
<1>1. Init => Delivered /\ DoneMeansSent
  BY DEF Init, Delivered, DoneMeansSent
<1>2. QInv /\ Delivered /\ DoneMeansSent /\ [Next]_vars => (Delivered /\ DoneMeansSent)'
  BY NextDelivered
<1> QED
  BY <1>1, <1>2, QInvariance, PTL DEF Spec

\* The workers that may still send the notification of j, or have it tried again.
Trying(j) == {w \in Workers : doing[w] = j /\ stage[w] \in {"running", "threw"}}

\* The run that a job which no worker has is still going to get.
Due(j) == IF state[j] \in {"absent", "waiting", "delayed"} THEN 1 ELSE 0

\* Each notice that went out or still may is owed to the first run of its job or
\* to a run that a stall has brought.
Account == \A j \in Jobs : sent[j] + Cardinality(Trying(j)) + Due(j) <= 1 + stalls[j]

LEMMA Tried ==
    ASSUME IsFiniteSet(Workers), NEW j
    PROVE  /\ IsFiniteSet(Trying(j)) /\ Cardinality(Trying(j)) \in Nat
           /\ IsFiniteSet(Trying(j)') /\ Cardinality(Trying(j)') \in Nat
<1>1. Trying(j) \in SUBSET Workers /\ Trying(j)' \in SUBSET Workers
  BY DEF Trying
<1>2. IsFiniteSet(Trying(j)) /\ IsFiniteSet(Trying(j)')
  BY <1>1, FS_Subset
<1> QED
  BY <1>2, FS_CardinalityType

\* A worker that gives up or goes away tries no more.
LEMMA Dropped ==
    ASSUME IsFiniteSet(Workers), QInv, NEW w \in Workers, Leave(w), NEW j \in Jobs
    PROVE  /\ Trying(j)' = Trying(j) \ {w}
           /\ w \in Trying(j) => Cardinality(Trying(j)') = Cardinality(Trying(j)) - 1
           /\ Cardinality(Trying(j)') <= Cardinality(Trying(j))
<1>1. Trying(j)' = Trying(j) \ {w}
  BY NoneAssumption DEF Trying, Leave, QInv, TypeOK
<1>2. w \in Trying(j) => Cardinality(Trying(j)') = Cardinality(Trying(j)) - 1
  BY <1>1, Tried, FS_RemoveElement
<1>3. Cardinality(Trying(j)') <= Cardinality(Trying(j))
  <2>1. CASE w \in Trying(j)
    BY <1>2, <2>1, Tried
  <2>2. CASE w \notin Trying(j)
    <3>1. Trying(j)' = Trying(j)
      BY <1>1, <2>2
    <3> QED
      BY <3>1, Tried
  <2> QED
    BY <2>1, <2>2
<1> QED
  BY <1>1, <1>2, <1>3

LEMMA NextAccount ==
    ASSUME IsFiniteSet(Workers), QInv, Account, [Next]_vars
    PROVE  Account'
<1> USE DEF Account, QInv, TypeOK
<1>1. ASSUME UNCHANGED <<doing, stage>>, NEW j \in Jobs PROVE Trying(j)' = Trying(j)
  BY <1>1 DEF Trying
<1>2. \A j \in Jobs : Due(j) \in 0..1 /\ Due(j)' \in 0..1
  BY DEF Due
<1>3. CASE UNCHANGED vars
  BY <1>1, <1>3 DEF vars, Due
<1>4. ASSUME NEW i \in Jobs, Add(i) \/ Queue(i) \/ LeaseLapses(i) PROVE Account'
  <2>1. UNCHANGED <<doing, stage, sent>>
    BY <1>4 DEF Add, Queue, Promote, Stalled, LeaseLapses
  <2>2. ASSUME NEW j \in Jobs
        PROVE  \/ Due(j)' = Due(j) /\ stalls'[j] >= stalls[j]
               \/ stalls'[j] = stalls[j] + 1
    BY <1>4 DEF Add, Queue, Promote, Stalled, Move, LeaseLapses, Due
  <2> SUFFICES ASSUME NEW j \in Jobs
               PROVE  sent'[j] + Cardinality(Trying(j)') + Due(j)' <= 1 + stalls'[j]
    OBVIOUS
  <2>3. Trying(j)' = Trying(j) /\ sent'[j] = sent[j]
    BY <1>1, <2>1
  <2>4. /\ sent[j] \in Int /\ stalls[j] \in Int /\ stalls'[j] \in Int
        /\ sent[j] + Cardinality(Trying(j)) + Due(j) <= 1 + stalls[j]
    BY <1>4, QueueQInv, AttemptsAssumption
  <2> QED
    BY <1>2, <2>2, <2>3, <2>4, Tried
<1>5. ASSUME NEW w \in Workers, NEW i \in Jobs, Take(w, i) PROVE Account'
  <2> SUFFICES ASSUME NEW j \in Jobs
               PROVE  sent'[j] + Cardinality(Trying(j)') + Due(j)' <= 1 + stalls'[j]
    OBVIOUS
  <2>1. sent' = sent /\ stalls' = stalls
    BY <1>5 DEF Take
  <2>2. CASE j = i
    <3>1. Trying(j)' = Trying(j) \cup {w} /\ w \notin Trying(j)
      BY <1>5, <2>2, NoneAssumption DEF Take, Trying
    <3>2. Cardinality(Trying(j)') = Cardinality(Trying(j)) + 1
      BY <3>1, Tried, FS_AddElement
    <3>3. Due(j) = 1 /\ Due(j)' = 0
      BY <1>5, <2>2 DEF Take, Due
    <3> QED
      BY <2>1, <3>2, <3>3, Tried, AttemptsAssumption
  <2>3. CASE j # i
    <3>1. Trying(j)' = Trying(j) /\ Due(j)' = Due(j)
      BY <1>5, <2>3, NoneAssumption DEF Take, Trying, Due
    <3> QED
      BY <2>1, <3>1
  <2> QED
    BY <2>2, <2>3
<1>6. ASSUME NEW w \in Workers, Process(w) PROVE Account'
  <2> SUFFICES ASSUME NEW j \in Jobs
               PROVE  sent'[j] + Cardinality(Trying(j)') + Due(j)' <= 1 + stalls'[j]
    OBVIOUS
  <2>1. stalls' = stalls /\ Due(j)' = Due(j)
    BY <1>6 DEF Process, Due
  <2>2. CASE sent' = sent
    <3>1. Trying(j)' = Trying(j)
      BY <1>6, <2>2, AtWork DEF Process, Trying
    <3> QED
      BY <2>1, <2>2, <3>1
  <2>3. CASE j # doing[w]
    <3>1. Trying(j)' = Trying(j) /\ sent'[j] = sent[j]
      BY <1>6, <2>3 DEF Process, Trying
    <3> QED
      BY <2>1, <3>1
  <2>4. CASE j = doing[w] /\ sent' # sent
    <3>1. sent'[j] = sent[j] + 1 /\ stage' = [stage EXCEPT ![w] = "returned"]
      BY <1>6, <2>4 DEF Process
    <3>2. Trying(j)' = Trying(j) \ {w} /\ w \in Trying(j)
      BY <1>6, <2>4, <3>1 DEF Process, Trying
    <3>3. Cardinality(Trying(j)') = Cardinality(Trying(j)) - 1
      BY <3>2, Tried, FS_RemoveElement
    <3> QED
      BY <1>2, <2>1, <3>1, <3>3, Tried, AttemptsAssumption
  <2> QED
    BY <2>2, <2>3, <2>4
<1>7. ASSUME NEW w \in Workers, Complete(w) \/ Fail(w) \/ Crash(w) PROVE Account'
  <2> SUFFICES ASSUME NEW j \in Jobs
               PROVE  sent'[j] + Cardinality(Trying(j)') + Due(j)' <= 1 + stalls'[j]
    OBVIOUS
  <2>1. Leave(w) /\ sent' = sent /\ stalls' = stalls
    BY <1>7 DEF Complete, Fail, Crash
  <2>2. CASE Due(j)' <= Due(j)
    BY <1>2, <2>1, <2>2, Dropped, Tried, AttemptsAssumption
  <2>3. CASE Due(j)' > Due(j)
    <3>1. Fail(w) /\ j = doing[w]
      BY <1>2, <1>7, <2>3, AtWork DEF Complete, Fail, Crash, Move, Due
    <3>2. w \in Trying(j)
      BY <3>1 DEF Fail, Trying
    <3> QED
      BY <1>2, <2>1, <3>2, Dropped, Tried, AttemptsAssumption
  <2> QED
    BY <1>2, <2>2, <2>3
<1> QED
  BY <1>3, <1>4, <1>5, <1>6, <1>7 DEF Next, Work

\* A customer is notified no more often than one time and once for each stall,
\* for any number of workers that lose and finish jobs in any order.
THEOREM OneNoticeAlways ==
    ASSUME IsFiniteSet(Workers)
    PROVE  Spec => []OneNoticePerRun
<1>1. Init => Account
  <2> SUFFICES ASSUME Init, NEW j \in Jobs
               PROVE  sent[j] + Cardinality(Trying(j)) + Due(j) <= 1 + stalls[j]
    BY DEF Account
  <2>1. Trying(j) = {} /\ Due(j) = 1 /\ sent[j] = 0 /\ stalls[j] = 0
    BY DEF Init, Trying, Due
  <2> QED
    BY <2>1, FS_EmptySet
<1>2. QInv /\ Account /\ [Next]_vars => Account'
  BY NextAccount
<1>3. QInv /\ Account => OneNoticePerRun
  <2> SUFFICES ASSUME QInv, Account, NEW j \in Jobs PROVE sent[j] <= 1 + stalls[j]
    BY DEF OneNoticePerRun
  <2>1. /\ sent[j] \in Nat /\ stalls[j] \in Nat /\ Due(j) \in 0..1
        /\ sent[j] + Cardinality(Trying(j)) + Due(j) <= 1 + stalls[j]
    BY AttemptsAssumption DEF QInv, TypeOK, Account, Due
  <2> QED
    BY <2>1, Tried
<1> QED
  BY <1>1, <1>2, <1>3, QInvariance, PTL DEF Spec

-----------------------------------------------------------------------------
(* What was reported. *)

\* A job that was reported as permanently failed did fail in every attempt it
\* had, is kept as failed and is not run again.
THEOREM PermanentAlwaysExhausted == Spec => []PermanentMeansExhausted
<1>1. Init => PermanentMeansExhausted
  BY DEF Init, PermanentMeansExhausted
<1>2. ASSUME QInv, PermanentMeansExhausted, [Next]_vars PROVE PermanentMeansExhausted'
  <2> USE DEF PermanentMeansExhausted, QInv, TypeOK
  <2>1. CASE UNCHANGED vars
    BY <1>2, <2>1 DEF vars
  <2>2. ASSUME NEW j \in Jobs, Add(j) \/ Promote(j) \/ LeaseLapses(j)
        PROVE  PermanentMeansExhausted'
    BY <1>2, <2>2 DEF Add, Promote, LeaseLapses
  <2>3. ASSUME NEW j \in Jobs, Stalled(j) PROVE PermanentMeansExhausted'
    <3>1. state[j] = "active" /\ Verdict(made[j]) # "permanent"
      BY <1>2, <2>3, AttemptsAssumption DEF Stalled, Spared, Verdict
    <3> QED
      BY <1>2, <2>3, <3>1 DEF Stalled, Move
  <2>4. ASSUME NEW w \in Workers, NEW j \in Jobs, Take(w, j) PROVE PermanentMeansExhausted'
    BY <1>2, <2>4 DEF Take
  <2>5. ASSUME NEW w \in Workers, Process(w) \/ Crash(w) PROVE PermanentMeansExhausted'
    BY <1>2, <2>5 DEF Process, Crash
  <2>6. ASSUME NEW w \in Workers, Complete(w) \/ Fail(w) PROVE PermanentMeansExhausted'
    <3> DEFINE i == doing[w]
    <3>1. i \in Jobs
      BY <1>2, <2>6, AtWork DEF Complete, Fail
    <3>2. lease[i] = w => state[i] = "active" /\ made[i] < Attempts /\ made[i] \in Nat
      BY <1>2, <3>1, NoneAssumption, AttemptsAssumption DEF Leased, Spared
    <3>3. CASE Complete(w)
      BY <1>2, <3>1, <3>2, <3>3 DEF Complete, Move
    <3>4. CASE Fail(w)
      BY <1>2, <3>1, <3>2, <3>4, AttemptsAssumption
         DEF Fail, Move, MadeNow, AttemptsLeft, Verdict
    <3> QED
      BY <2>6, <3>3, <3>4
  <2> QED
    BY <1>2, <2>1, <2>2, <2>3, <2>4, <2>5, <2>6 DEF Next, Work, Queue
<1> QED
  BY <1>1, <1>2, QInvariance, PTL DEF Spec

-----------------------------------------------------------------------------
(* Every job is settled in the end, if workers and timers go on. *)

\* The runs that a job has left: each ends in a failed attempt, a stall or the
\* job's success.
Life(j) == (Attempts - made[j]) + (MaxStalls + 1 - stalls[j])

\* Where a job is in its run.
Place(j) ==
    CASE state[j] = "absent" -> 5
      [] state[j] = "delayed" -> 4
      [] state[j] = "waiting" -> 3
      [] state[j] = "active" -> IF lease[j] = None THEN 0
                                ELSE IF stage[lease[j]] = "running" THEN 2 ELSE 1

\* How far a job is from being settled.
Distance(j) == IF Settled(j) THEN 0 ELSE 6 * Life(j) + Place(j)

\* It is a natural number, and nought when the job is settled.
Measured ==
    \A j \in Jobs : /\ Distance(j) \in 0..(6 * (Attempts + MaxStalls + 1) + 5)
                    /\ Distance(j) = 0 <=> Settled(j)

\* The steps that timers, the queue and the worker in charge take for a job.
Served(j) ==
    \/ Queue(j)
    \/ \E w \in Workers :
          \/ Take(w, j)
          \/ lease[j] = w /\ (Process(w) \/ Complete(w) \/ Fail(w))

\* Nothing takes a job back, and each step taken for it brings it nearer.
Nearer ==
    \A j \in Jobs :
        /\ Distance(j)' <= Distance(j)
        /\ Served(j) => Distance(j)' < Distance(j)

LEMMA LifeIsNat ==
    ASSUME QInv, NEW j \in Jobs
    PROVE  /\ Life(j) \in 0..Attempts + MaxStalls + 1
           /\ ~Settled(j) => Life(j) > 0
           /\ ~Settled(j) => Place(j) \in 0..5
<1>1. /\ made[j] \in 0..Attempts /\ stalls[j] \in 0..(MaxStalls + 1)
      /\ Attempts \in Nat /\ MaxStalls \in Nat
      /\ ~Settled(j) => made[j] < Attempts
  BY AttemptsAssumption DEF QInv, TypeOK, Spared, Settled
<1>2. ~Settled(j) => state[j] \in {"absent", "delayed", "waiting", "active"}
  BY DEF QInv, TypeOK, States, Settled
<1>3. ~Settled(j) => Place(j) \in 0..5
  BY <1>2 DEF Place
<1> QED
  BY <1>1, <1>3 DEF Life

LEMMA DistanceIsNat == QInv => Measured
<1> SUFFICES ASSUME QInv, NEW j \in Jobs
             PROVE  /\ Distance(j) \in 0..(6 * (Attempts + MaxStalls + 1) + 5)
                    /\ Distance(j) = 0 <=> Settled(j)
  BY DEF Measured
<1>1. Attempts + MaxStalls + 1 \in Nat
  BY AttemptsAssumption
<1>2. PICK n \in Nat : n = Attempts + MaxStalls + 1
  BY <1>1
<1>3. Life(j) \in 0..n /\ (~Settled(j) => Life(j) > 0) /\ (~Settled(j) => Place(j) \in 0..5)
  BY <1>2, LifeIsNat
<1>4. Distance(j) \in 0..(6 * n + 5) /\ (Distance(j) = 0 <=> Settled(j))
  BY <1>3 DEF Distance
<1> QED
  BY <1>2, <1>4

\* A job that nothing is done with stays where it is, or loses its worker.
LEMMA StillNoFarther ==
    ASSUME QInv, QInv', NEW j \in Jobs,
           state'[j] = state[j], made'[j] = made[j], stalls'[j] = stalls[j],
           \/ lease'[j] = None
           \/ lease'[j] = lease[j] /\ stage'[lease[j]] = stage[lease[j]]
    PROVE  Distance(j)' <= Distance(j)
<1>1. /\ Settled(j)' <=> Settled(j)
      /\ Life(j)' = Life(j)
  BY DEF Settled, Life
<1>2. ~Settled(j) => Place(j)' <= Place(j)
  BY DEF Place, Settled, QInv, TypeOK, States
<1>3. Life(j) \in Nat /\ (~Settled(j) => Place(j) \in Nat)
  BY LifeIsNat, AttemptsAssumption
<1>4. ~Settled(j) => Place(j)' \in Nat
  BY <1>1 DEF Place, Settled, QInv, TypeOK, States
<1> QED
  BY <1>1, <1>2, <1>3, <1>4 DEF Distance

\* What the queue does for a job brings it nearer.
LEMMA QueueNearer ==
    ASSUME QInv, NEW j \in Jobs, Queue(j)
    PROVE  Distance(j)' < Distance(j)
<1>1. /\ made[j] \in 0..Attempts /\ stalls[j] \in 0..MaxStalls
      /\ Attempts \in Nat /\ MaxStalls \in Nat
      /\ state \in [Jobs -> States] /\ stalls \in [Jobs -> 0..(MaxStalls + 1)]
      /\ lease \in [Jobs -> Workers \cup {None}]
    BY AttemptsAssumption DEF QInv, TypeOK, Spared, Queue, Promote, Stalled
<1>2. Life(j) \in Nat \ {0} /\ ~Settled(j)
  <2>1. ~Settled(j)
    BY DEF Queue, Promote, Stalled, Settled
  <2> QED
    BY <2>1, LifeIsNat, AttemptsAssumption
<1>3. CASE Promote(j)
  <2>1. state[j] = "delayed" /\ state'[j] = "waiting" /\ Life(j)' = Life(j)
    BY <1>1, <1>3 DEF Promote, Life
  <2>2. Place(j) = 4 /\ Place(j)' = 3 /\ ~Settled(j)'
    BY <2>1 DEF Place, Settled
  <2> QED
    BY <1>2, <2>1, <2>2 DEF Distance
<1>4. CASE Stalled(j)
  <2>1. state[j] = "active" /\ lease[j] = None /\ state'[j] \in {"waiting", "failed"}
    BY <1>1, <1>4 DEF Stalled, Move
  <2>2. Place(j) = 0
    BY <2>1 DEF Place
  <2>3. Life(j)' = Life(j) - 1
    BY <1>1, <1>4 DEF Stalled, Life
  <2>4. Settled(j)' \/ Place(j)' = 3
    BY <2>1 DEF Settled, Place
  <2> QED
    BY <1>2, <2>2, <2>3, <2>4 DEF Distance
<1> QED
  BY <1>3, <1>4 DEF Queue

\* What the worker in charge of a job does brings it nearer.
LEMMA WorkNearer ==
    ASSUME QInv, NEW j \in Jobs, NEW w \in Workers,
           Take(w, j) \/ (lease[j] = w /\ (Process(w) \/ Complete(w) \/ Fail(w)))
    PROVE  Distance(j)' < Distance(j)
<1>1. /\ made[j] \in 0..Attempts /\ stalls[j] \in 0..(MaxStalls + 1)
      /\ Attempts \in Nat /\ MaxStalls \in Nat /\ w # None
      /\ state \in [Jobs -> States] /\ lease \in [Jobs -> Workers \cup {None}]
      /\ made \in [Jobs -> 0..Attempts] /\ stage \in [Workers -> Stages]
  BY AttemptsAssumption, NoneAssumption DEF QInv, TypeOK
<1>2. lease[j] = w => state[j] = "active" /\ doing[w] = j
  BY <1>1 DEF QInv, Leased
<1>3. ~Settled(j) /\ Life(j) \in Nat \ {0}
  <2>1. ~Settled(j)
    BY <1>2 DEF Take, Settled
  <2> QED
    BY <1>1, <2>1, LifeIsNat
<1>4. CASE Take(w, j)
  <2>1. /\ state[j] = "waiting" /\ state'[j] = "active"
        /\ lease'[j] = w /\ stage'[w] = "running" /\ Life(j)' = Life(j)
    BY <1>1, <1>4 DEF Take, Life
  <2>2. Place(j) = 3 /\ Place(j)' = 2 /\ ~Settled(j)'
    BY <1>1, <2>1 DEF Place, Settled
  <2> QED
    BY <1>3, <2>1, <2>2 DEF Distance
<1>5. CASE lease[j] = w /\ Process(w)
  <2>1. /\ state[j] = "active" /\ state'[j] = "active" /\ lease'[j] = w
        /\ stage[w] = "running" /\ stage'[w] # "running" /\ Life(j)' = Life(j)
    BY <1>1, <1>2, <1>5 DEF Process, Life
  <2>2. Place(j) = 2 /\ Place(j)' = 1 /\ ~Settled(j)'
    BY <1>1, <1>5, <2>1 DEF Place, Settled
  <2> QED
    BY <1>3, <2>1, <2>2 DEF Distance
<1>6. CASE lease[j] = w /\ Complete(w)
  <2>1. state'[j] = "done"
    BY <1>1, <1>2, <1>6 DEF Complete, Move
  <2>2. Settled(j)' /\ Place(j) \in Nat
    BY <1>3, <2>1, LifeIsNat DEF Settled
  <2> QED
    BY <1>3, <2>2 DEF Distance
<1>7. CASE lease[j] = w /\ Fail(w)
  <2>1. /\ stage[w] = "threw" /\ made'[j] = made[j] + 1 /\ stalls'[j] = stalls[j]
        /\ state'[j] \in {"delayed", "failed"}
    BY <1>1, <1>2, <1>7 DEF Fail, Move, MadeNow
  <2>2. Place(j) = 1
    BY <1>1, <1>2, <1>7, <2>1 DEF Place
  <2>3. Life(j)' = Life(j) - 1
    BY <1>1, <2>1 DEF Life
  <2>4. Settled(j)' \/ Place(j)' = 4
    BY <2>1 DEF Settled, Place
  <2> QED
    BY <1>3, <2>2, <2>3, <2>4 DEF Distance
<1> QED
  BY <1>4, <1>5, <1>6, <1>7

\* A worker does nothing to a job that it is not in charge of.
LEMMA OthersStay ==
    ASSUME QInv, NEW w \in Workers, Work(w) \/ Crash(w), NEW j \in Jobs,
           ~Take(w, j), lease[j] # w \/ Crash(w)
    PROVE  /\ state'[j] = state[j] /\ made'[j] = made[j] /\ stalls'[j] = stalls[j]
           /\ \/ lease'[j] = None
              \/ lease'[j] = lease[j] /\ stage'[lease[j]] = stage[lease[j]]
<1>1. /\ lease \in [Jobs -> Workers \cup {None}] /\ stage \in [Workers -> Stages]
      /\ state \in [Jobs -> States] /\ made \in [Jobs -> 0..Attempts] /\ w # None
      /\ stalls \in [Jobs -> 0..(MaxStalls + 1)]
      /\ doing \in [Workers -> Jobs \cup {None}]
  BY NoneAssumption DEF QInv, TypeOK
<1>2. CASE Crash(w)
  BY <1>1, <1>2 DEF Crash, Leave
<1>3. ASSUME NEW i \in Jobs, Take(w, i), lease[j] # w
      PROVE  /\ state'[j] = state[j] /\ made'[j] = made[j] /\ stalls'[j] = stalls[j]
             /\ \/ lease'[j] = None
                \/ lease'[j] = lease[j] /\ stage'[lease[j]] = stage[lease[j]]
  <2>1. i # j
    BY <1>3
  <2>2. /\ lease'[j] = lease[j] /\ state'[j] = state[j]
        /\ made' = made /\ stalls' = stalls
        /\ \A v \in Workers : v # w => stage'[v] = stage[v]
    BY <1>1, <1>3, <2>1 DEF Take
  <2> QED
    BY <1>1, <1>3, <2>2
<1>4. CASE lease[j] # w /\ Process(w)
  BY <1>1, <1>4 DEF Process
<1>5. CASE lease[j] # w /\ (Complete(w) \/ Fail(w))
  <2>1. CASE lease[doing[w]] = w
    <3>1. doing[w] # j /\ doing[w] \in Jobs
      BY <1>5, <2>1, AtWork DEF Complete, Fail
    <3> QED
      BY <1>1, <1>5, <2>1, <3>1 DEF Complete, Fail, Leave, Move
  <2>2. CASE lease[doing[w]] # w
    BY <1>1, <1>5, <2>2 DEF Complete, Fail, Leave
  <2> QED
    BY <2>1, <2>2
<1> QED
  BY <1>2, <1>3, <1>4, <1>5 DEF Work

LEMMA NextNearer == QInv /\ QInv' /\ [Next]_vars => Nearer
<1> SUFFICES ASSUME QInv, QInv', [Next]_vars, NEW j \in Jobs
             PROVE  /\ Distance(j)' <= Distance(j)
                    /\ Served(j) => Distance(j)' < Distance(j)
  BY DEF Nearer
<1>1. PICK n \in Nat : Distance(j) \in 0..n /\ Distance(j)' \in 0..n
  <2>1. Measured'
    BY DistanceIsNat, PTL
  <2>2. PICK n \in Nat : n = 6 * (Attempts + MaxStalls + 1) + 5
    BY AttemptsAssumption
  <2> QED
    BY <2>1, <2>2, DistanceIsNat DEF Measured
<1>2. CASE Served(j)
  <2>1. Distance(j)' < Distance(j)
    BY <1>2, QueueNearer, WorkNearer DEF Served
  <2> QED
    BY <1>1, <2>1
<1>3. CASE ~Served(j)
  <2> SUFFICES Distance(j)' <= Distance(j)
    BY <1>3
  <2>1. CASE UNCHANGED vars
    <3>1. UNCHANGED <<state, lease, made, stalls, stage>>
      BY <2>1 DEF vars
    <3> QED
      BY <3>1, StillNoFarther
  <2>2. CASE Add(j)
    <3>1. /\ state[j] = "absent" /\ state'[j] = "waiting"
          /\ UNCHANGED <<made, stalls>>
      BY <2>2 DEF Add, QInv, TypeOK
    <3>2. /\ Place(j) = 5 /\ Place(j)' = 3 /\ ~Settled(j) /\ ~Settled(j)'
          /\ Life(j)' = Life(j)
      BY <3>1 DEF Place, Settled, Life
    <3>3. Life(j) \in Nat
      BY LifeIsNat, AttemptsAssumption
    <3> QED
      BY <3>2, <3>3 DEF Distance
  <2>3. ASSUME NEW i \in Jobs, (i # j /\ (Add(i) \/ Queue(i))) \/ LeaseLapses(i)
        PROVE  Distance(j)' <= Distance(j)
    <3>1. /\ state'[j] = state[j] /\ made'[j] = made[j] /\ stalls'[j] = stalls[j]
          /\ stage' = stage
          /\ lease'[j] = None \/ lease'[j] = lease[j]
      BY <2>3 DEF Add, Queue, Promote, Stalled, Move, LeaseLapses, QInv, TypeOK
    <3> QED
      BY <3>1, StillNoFarther
  <2>4. ASSUME NEW w \in Workers, Work(w) \/ Crash(w)
        PROVE  Distance(j)' <= Distance(j)
    <3>1. ~Take(w, j) /\ (lease[j] # w \/ Crash(w))
      <4>1. CASE lease[j] = w /\ Work(w)
        <5>1. doing[w] = j /\ j # None /\ w # None
          BY <4>1, NoneAssumption DEF QInv, Leased
        <5>2. Process(w) \/ Complete(w) \/ Fail(w)
          BY <4>1, <5>1 DEF Work, Take
        <5> QED
          BY <1>3, <4>1, <5>2 DEF Served
      <4> QED
        BY <1>3, <2>4, <4>1 DEF Served
    <3> QED
      BY <2>4, <3>1, OthersStay, StillNoFarther
  <2> QED
    BY <1>3, <2>1, <2>2, <2>3, <2>4 DEF Next, Served
<1> QED
  BY <1>2, <1>3

\* Whatever attempts fail and whatever workers die or lose their jobs, a job takes
\* a bounded number of steps to be settled: no failure, stall or worker that comes
\* back late puts it further off.  That the steps are taken is fairness, which TLC
\* checks.
THEOREM JobsComeNearer == Spec => []Measured /\ [][Nearer]_vars
BY DistanceIsNat, QInvariance, NextNearer, PTL DEF Spec
=============================================================================
