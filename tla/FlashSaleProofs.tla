-------------------------- MODULE FlashSaleProofs ---------------------------
(***************************************************************************)
(* Theorems about the flash-sale engine for any users, events, stock and   *)
(* prices, and any number of requests.                                     *)
(***************************************************************************)
EXTENDS FlashSale, SumProofs, FiniteSetTheorems, TLAPS

-----------------------------------------------------------------------------
(* Types. *)

\* What a request knows at each point of purchase(): its arguments, the error
\* it will rethrow, the order that beat it, and how often it may still poll.
Progress ==
    \A r \in Requests :
        /\ pc[r] # "idle" => call[r] \in Calls
        /\ pc[r] \in {"release", "fail"} => failure[r] \in Refusals
        /\ pc[r] \in {"conflict", "enqueue"} => Taken(r)
        /\ pc[r] \notin {"poll", "answered"} => polls[r] = 0
        /\ pc[r] = "poll" => polls[r] < Attempts

TInv == TypeOK /\ Progress

\* The tables as they are at the start.
LEMMA InitTInv == Init => TInv
<1> SUFFICES ASSUME Init PROVE TInv
  OBVIOUS
<1>1. TypeOK
  BY UsersAssumption, RequestsAssumption
     DEF Init, TypeOK, Phases, Steps
<1>2. Progress
  BY DEF Init, Progress
<1> QED
  BY <1>1, <1>2 DEF TInv

\* A request that has been made names a user, an event and a key, and the order
\* they lead to is one or none.
LEMMA Known ==
    ASSUME TInv, NEW r \in Requests, pc[r] # "idle"
    PROVE  /\ call[r] \in Calls
           /\ call[r].user \in Users
           /\ call[r].event \in Events
           /\ call[r].key \in Keys
           /\ <<call[r].event, call[r].key>> \in Events \X Keys
           /\ OrderOf(r) \in Orders \cup {NoOrder}
           /\ Taken(r) => [status |-> "ok", order |-> OrderOf(r)] \in Answers
<1>1. call[r] \in Calls
  BY DEF TInv, Progress
<1>2. /\ call[r].user \in Users
      /\ call[r].event \in Events
      /\ call[r].key \in Keys
  BY <1>1 DEF Calls
<1>3. OrderOf(r) \in Orders \cup {NoOrder}
  BY <1>2 DEF TInv, TypeOK, OrderOf
<1> QED
  BY <1>1, <1>2, <1>3 DEF Taken, Answers

\* An order that is written is one, and no order there was disappears.
LEMMA Written ==
    ASSUME TInv, NEW r \in Requests, pc[r] # "idle",
           NEW status \in {"CONFIRMED", "FAILED"},
           WriteOrder(r, status), call' = call
    PROVE  /\ orders' \in [Events \X Keys -> Orders \cup {NoOrder}]
           /\ Taken(r)'
           /\ \A s \in Requests : pc[s] # "idle" /\ Taken(s) => Taken(s)'
<1> DEFINE new == [user |-> call[r].user, status |-> status]
<1>1. new \in Orders /\ new # NoOrder
  BY Known DEF Orders, NoOrder
<1>2. orders' = [orders EXCEPT ![<<call[r].event, call[r].key>>] = new]
  BY DEF WriteOrder
<1> HIDE DEF new
<1>3. orders' \in [Events \X Keys -> Orders \cup {NoOrder}]
  BY <1>1, <1>2 DEF TInv, TypeOK
<1>4. ASSUME NEW s \in Requests, pc[s] # "idle", s = r \/ Taken(s)
      PROVE  Taken(s)'
  <2>1. /\ call[s].event \in Events /\ call[s].key \in Keys
        /\ call[r].event \in Events /\ call[r].key \in Keys
    BY <1>4, Known
  <2> QED
    BY <1>1, <1>2, <1>4, <2>1 DEF TInv, TypeOK, Taken, OrderOf
<1> QED
  BY <1>3, <1>4

\* Find answers with an order that is there, or goes on.
LEMMA FindTInv == ASSUME TInv, NEW r \in Requests, Find(r) PROVE TInv'
<1> USE DEF Find, Goto, Answer, AnswerWithOrder, database
<1>1. TypeOK'
  <2>1. Taken(r) => [status |-> "ok", order |-> OrderOf(r)] \in Answers
    BY Known
  <2>2. reply' \in [Requests -> Answers \cup {NoAnswer}]
    BY <2>1 DEF TInv, TypeOK, Taken
  <2>3. pc' \in [Requests -> Steps]
    BY DEF TInv, TypeOK, Steps
  <2> QED
    BY <2>2, <2>3 DEF TInv, TypeOK
<1>2. Progress'
  BY DEF TInv, TypeOK, Progress, Taken, OrderOf
<1> QED
  BY <1>1, <1>2 DEF TInv

\* Check refuses or goes on.
LEMMA CheckTInv == ASSUME TInv, NEW r \in Requests, Check(r) PROVE TInv'
<1> USE DEF Check, Goto, Answer, Refused, database
<1>1. TypeOK'
  BY DEF TInv, TypeOK, Steps, Answers, Refusals
<1>2. Progress'
  BY DEF TInv, TypeOK, Progress, Taken, OrderOf
<1> QED
  BY <1>1, <1>2 DEF TInv

\* Reserve takes a unit or goes on to poll, for which it has all its attempts.
LEMMA ReserveTInv == ASSUME TInv, NEW r \in Requests, Reserve(r) PROVE TInv'
<1> USE RequestsAssumption DEF Reserve, Goto
<1>1. TypeOK'
  BY Known DEF TInv, TypeOK, Steps
<1>2. Progress'
  BY DEF TInv, TypeOK, Progress, Taken, OrderOf
<1> QED
  BY <1>1, <1>2 DEF TInv

\* Poll never counts past its attempts.
LEMMA PollTInv == ASSUME TInv, NEW r \in Requests, Poll(r) PROVE TInv'
<1> USE RequestsAssumption
     DEF Poll, LastPoll, Answer, AnswerWithOrder, Refused, database
<1>1. reply' \in [Requests -> Answers \cup {NoAnswer}]
  <2>1. Refused("soldOut") \in Answers
    BY DEF Answers, Refusals
  <2>2. Taken(r) => [status |-> "ok", order |-> OrderOf(r)] \in Answers
    BY Known
  <2> QED
    BY <2>1, <2>2 DEF TInv, TypeOK, Taken
<1>2. polls' \in [Requests -> 0..Attempts]
  BY DEF TInv, TypeOK, Progress
<1>3. pc' \in [Requests -> Steps]
  BY DEF TInv, TypeOK, Steps
<1>4. TypeOK'
  BY <1>1, <1>2, <1>3 DEF TInv, TypeOK
<1>5. Progress'
  BY DEF TInv, TypeOK, Progress, Taken, OrderOf
<1> QED
  BY <1>4, <1>5 DEF TInv

\* Debit charges the wallet, or notes the error to rethrow.
LEMMA DebitTInv == ASSUME TInv, NEW r \in Requests, Debit(r) PROVE TInv'
<1> USE DEF Debit
<1>1. /\ pc' \in [Requests -> Steps]
      /\ UNCHANGED <<phase, remaining, orders, jobs, call, polls, reply>>
  BY DEF TInv, TypeOK, Steps, Goto
<1>2. failure' \in [Requests -> Refusals \cup {"none"}]
  BY DEF TInv, TypeOK, Refusals
<1>3. balance' \in [Users -> Int] /\ paid' \subseteq Users \X Events \X Keys
  <2>1. CASE Pay(r)
    <3>1. /\ call[r].user \in Users
          /\ call[r].event \in Events
          /\ call[r].key \in Keys
      BY Known
    <3> QED
      BY <2>1, <3>1, EventsAssumption DEF TInv, TypeOK, Pay
  <2>2. CASE UNCHANGED <<balance, paid>>
    BY <2>2 DEF TInv, TypeOK
  <2> QED
    BY <2>1, <2>2
<1>4. TypeOK'
  BY <1>1, <1>2, <1>3 DEF TInv, TypeOK
<1>5. Progress'
  BY DEF TInv, TypeOK, Progress, Taken, OrderOf, Goto, Refusals
<1> QED
  BY <1>4, <1>5 DEF TInv

\* Release gives a unit back.
LEMMA ReleaseTInv == ASSUME TInv, NEW r \in Requests, Release(r) PROVE TInv'
<1> USE DEF Release, ReleaseUnit, Goto
<1>1. remaining' \in [Events -> Int]
  <2>1. call[r].event \in Events /\ remaining \in [Events -> Int]
    BY Known DEF TInv, TypeOK
  <2> QED
    BY <2>1
<1>2. TypeOK'
  BY <1>1 DEF TInv, TypeOK, Steps
<1>3. Progress'
  BY DEF TInv, TypeOK, Progress, Taken, OrderOf
<1> QED
  BY <1>2, <1>3 DEF TInv

\* Fail writes a FAILED order, or finds another one.
LEMMA FailTInv == ASSUME TInv, NEW r \in Requests, Fail(r) PROVE TInv'
<1>1. /\ pc[r] = "fail"
      /\ UNCHANGED <<phase, remaining, balance, paid, jobs, call, overlapped, failure, polls>>
  BY DEF Fail
<1>2. CASE ~Taken(r)
  <2>1. WriteOrder(r, "FAILED") /\ Answer(r, Refused(failure[r]))
    BY <1>2 DEF Fail
  <2>2. Refused(failure[r]) \in Answers
    BY <1>1 DEF TInv, Progress, Answers, Refused
  <2>3. TypeOK'
    BY <1>1, <2>1, <2>2, Written DEF TInv, TypeOK, Steps, Answer
  <2>4. Progress'
    BY <1>1, <2>1, Written DEF TInv, TypeOK, Progress, Answer
  <2> QED
    BY <2>3, <2>4 DEF TInv
<1>3. CASE Taken(r)
  <2>1. Goto(r, "conflict") /\ UNCHANGED <<orders, reply>>
    BY <1>3 DEF Fail
  <2>2. TypeOK'
    BY <1>1, <2>1 DEF TInv, TypeOK, Steps, Goto
  <2>3. Progress'
    BY <1>1, <1>3, <2>1 DEF TInv, TypeOK, Progress, Goto, Taken, OrderOf
  <2> QED
    BY <2>2, <2>3 DEF TInv
<1> QED
  BY <1>2, <1>3

\* Confirm writes a CONFIRMED order, or finds another one.
LEMMA ConfirmTInv == ASSUME TInv, NEW r \in Requests, Confirm(r) PROVE TInv'
<1>1. /\ pc[r] = "confirm"
      /\ UNCHANGED <<phase, remaining, balance, paid, jobs, call, overlapped, failure, polls,
                     reply>>
  BY DEF Confirm
<1>2. CASE ~Taken(r)
  <2>1. WriteOrder(r, "CONFIRMED") /\ Goto(r, "enqueue")
    BY <1>2 DEF Confirm
  <2>2. TypeOK'
    BY <1>1, <2>1, Written DEF TInv, TypeOK, Steps, Goto
  <2>3. Progress'
    BY <1>1, <2>1, Written DEF TInv, TypeOK, Progress, Goto
  <2> QED
    BY <2>2, <2>3 DEF TInv
<1>3. CASE Taken(r)
  <2>1. Goto(r, "conflict") /\ UNCHANGED orders
    BY <1>3 DEF Confirm
  <2>2. TypeOK'
    BY <1>1, <2>1 DEF TInv, TypeOK, Steps, Goto
  <2>3. Progress'
    BY <1>1, <1>3, <2>1 DEF TInv, TypeOK, Progress, Goto, Taken, OrderOf
  <2> QED
    BY <2>2, <2>3 DEF TInv
<1> QED
  BY <1>2, <1>3

\* Conflict gives a unit back and answers with the order that is there.
LEMMA ConflictTInv == ASSUME TInv, NEW r \in Requests, Conflict(r) PROVE TInv'
<1> USE DEF Conflict, ReleaseUnit, Answer, AnswerWithOrder
<1>1. remaining' \in [Events -> Int]
  <2>1. call[r].event \in Events /\ remaining \in [Events -> Int]
    BY Known DEF TInv, TypeOK
  <2> QED
    BY <2>1
<1>2. reply' \in [Requests -> Answers \cup {NoAnswer}]
  BY Known DEF TInv, TypeOK, Progress
<1>3. TypeOK'
  BY <1>1, <1>2 DEF TInv, TypeOK, Steps
<1>4. Progress'
  BY DEF TInv, TypeOK, Progress, Taken, OrderOf
<1> QED
  BY <1>3, <1>4 DEF TInv

\* Enqueue adds a job, or none, and answers with the order just written.
LEMMA EnqueueTInv == ASSUME TInv, NEW r \in Requests, Enqueue(r) PROVE TInv'
<1> USE DEF Enqueue, Answer, AnswerWithOrder
<1>1. jobs' \in [Events \X Keys -> Nat]
  <2> DEFINE x == <<call[r].event, call[r].key>>
  <2>1. x \in Events \X Keys /\ jobs \in [Events \X Keys -> Nat]
    BY Known DEF TInv, TypeOK
  <2>2. jobs' = [jobs EXCEPT ![x] = jobs[x] + 1] \/ jobs' = jobs
    OBVIOUS
  <2> HIDE DEF x
  <2>3. jobs[x] + 1 \in Nat
    BY <2>1
  <2> QED
    BY <2>1, <2>2, <2>3
<1>2. reply' \in [Requests -> Answers \cup {NoAnswer}]
  BY Known DEF TInv, TypeOK, Progress
<1>3. TypeOK'
  BY <1>1, <1>2 DEF TInv, TypeOK, Steps
<1>4. Progress'
  BY DEF TInv, TypeOK, Progress, Taken, OrderOf
<1> QED
  BY <1>3, <1>4 DEF TInv

\* Every step of the system preserves types and progress.
LEMMA NextTInv == TInv /\ [Next]_vars => TInv'
<1> SUFFICES ASSUME TInv, [Next]_vars PROVE TInv'
  OBVIOUS
<1>1. CASE UNCHANGED vars
  BY <1>1 DEF vars, TInv, TypeOK, Progress, Taken, OrderOf
<1>2. ASSUME NEW e \in Events, CreateEvent(e) \/ Tick(e) PROVE TInv'
  <2>1. TypeOK'
    BY <1>2, EventsAssumption DEF TInv, TypeOK, CreateEvent, Tick, Phases
  <2>2. Progress'
    BY <1>2 DEF TInv, Progress, CreateEvent, Tick, Taken, OrderOf
  <2> QED
    BY <2>1, <2>2 DEF TInv
<1>3. ASSUME NEW u \in Users, TopUp(u) \/ Spend(u) PROVE TInv'
  BY <1>3 DEF TInv, TypeOK, Progress, TopUp, Spend, Taken, OrderOf
<1>4. ASSUME NEW r \in Requests, NEW u \in Users, NEW e \in Events, NEW k \in Keys,
             Call(r, u, e, k)
      PROVE  TInv'
  <2>1. TypeOK'
    BY <1>4 DEF TInv, TypeOK, Call, Calls, Goto, Steps, database
  <2>2. Progress'
    BY <1>4 DEF TInv, TypeOK, Progress, Call, Calls, Goto, database, Taken, OrderOf
  <2> QED
    BY <2>1, <2>2 DEF TInv
<1>5. ASSUME NEW r \in Requests, Step(r) PROVE TInv'
  BY <1>5, FindTInv, CheckTInv, ReserveTInv, PollTInv, DebitTInv, ReleaseTInv,
     FailTInv, ConfirmTInv, ConflictTInv, EnqueueTInv DEF Step
<1>6. ASSUME NEW r \in Requests, Crash(r) PROVE TInv'
  <2>1. TypeOK'
    BY <1>6 DEF TInv, TypeOK, Crash, Answer, Answers, Refused, Refusals, Steps, database
  <2>2. Progress'
    BY <1>6 DEF TInv, TypeOK, Progress, Crash, InFlight, Answer, database, Taken, OrderOf
  <2> QED
    BY <2>1, <2>2 DEF TInv
<1> QED
  BY <1>1, <1>2, <1>3, <1>4, <1>5, <1>6 DEF Next

\* Every variable always holds what the schema and the service put there.
THEOREM SaleTypeCorrect == Spec => []TypeOK
<1>1. TInv => TypeOK
  BY DEF TInv
<1> QED
  BY <1>1, InitTInv, NextTInv, PTL DEF Spec

-----------------------------------------------------------------------------
(* Stock, of an event no key of which has been in flight twice at once. *)

FinitelyMany == IsFiniteSet(Requests) /\ IsFiniteSet(Keys)

\* Request r is about an event whose duplicates never overlapped.
Calm(r) == pc[r] # "idle" /\ call[r].event \notin overlapped

\* No two requests with one key of such an event are in flight.
Alone ==
    \A r, s \in Requests :
        /\ Calm(r) /\ InFlight(r) /\ InFlight(s)
        /\ call[r].event = call[s].event /\ call[r].key = call[s].key
        => r = s

\* There a request past Find finds no order for its key, so none loses a race.
Unordered ==
    \A r \in Requests : Calm(r) =>
        /\ pc[r] \in {"check", "reserve", "poll", "debit", "release", "fail", "confirm"}
              => ~Taken(r)
        /\ pc[r] # "conflict"

\* An event that has not been created has no orders, and nobody past Check.
Untouched ==
    \A e \in Events : phase[e] = "absent" =>
        /\ \A k \in Keys : orders[<<e, k>>] = NoOrder
        /\ \A r \in Requests :
              pc[r] \in {"reserve", "poll", "debit", "release", "fail", "confirm"}
                 => call[r].event # e

Units == NoUnitInvented /\ \A e \in Events : remaining[e] >= 0

SInv == TInv /\ Alone /\ Unordered /\ Untouched /\ Units

\* A step of a request leaves the other requests, the calls and the phases alone.
LEMMA Mine ==
    ASSUME TInv, NEW r \in Requests, Step(r) \/ Crash(r)
    PROVE  /\ call' = call /\ phase' = phase /\ overlapped' = overlapped
           /\ InFlight(r)
           /\ \A s \in Requests : s # r => pc'[s] = pc[s]
           /\ pc'[r] # "idle"
<1> USE DEF TInv, TypeOK, InFlight, Goto, Answer, AnswerWithOrder, database
<1>1. ASSUME Step(r)
      PROVE  /\ call' = call /\ phase' = phase /\ overlapped' = overlapped
             /\ pc[r] \notin {"idle", "answered"}
             /\ \E step \in Steps \ {"idle"} : pc' = [pc EXCEPT ![r] = step]
  <2> USE DEF Steps
  <2>1. CASE Find(r) \/ Check(r) \/ Reserve(r)
    BY <2>1 DEF Find, Check, Reserve
  <2>2. CASE Poll(r)
    BY <2>2 DEF Poll
  <2>3. CASE Debit(r) \/ Release(r) \/ Fail(r)
    BY <2>3 DEF Debit, Release, Fail
  <2>4. CASE Confirm(r) \/ Conflict(r) \/ Enqueue(r)
    BY <2>4 DEF Confirm, Conflict, Enqueue
  <2> QED
    BY <1>1, <2>1, <2>2, <2>3, <2>4 DEF Step
<1>2. CASE Step(r)
  BY <1>1, <1>2
<1>3. CASE Crash(r)
  BY <1>3 DEF Crash
<1> QED
  BY <1>2, <1>3

\* A new request is the only one with its key or its event is noted; no other
\* step puts one in flight.
LEMMA NextAlone ==
    ASSUME TInv, Alone, [Next]_vars
    PROVE  Alone'
<1> USE DEF Alone, InFlight, Calm
<1>1. CASE UNCHANGED <<pc, call, overlapped>>
  BY <1>1
<1>2. ASSUME NEW r \in Requests, NEW u \in Users, NEW e \in Events, NEW k \in Keys,
             Call(r, u, e, k)
      PROVE  Alone'
  <2>1. /\ call'[r].key = k /\ call'[r].event = e
        /\ \A s \in Requests : s # r => call'[s] = call[s] /\ pc'[s] = pc[s]
        /\ overlapped \subseteq overlapped'
        /\ e \notin overlapped' => \A s \in Requests :
              ~(InFlight(s) /\ call[s].event = e /\ call[s].key = k)
    BY <1>2 DEF Call, Goto, TInv, TypeOK
  <2> QED
    BY <2>1
<1>3. ASSUME NEW r \in Requests, Step(r) \/ Crash(r) PROVE Alone'
  BY <1>3, Mine
<1> QED
  BY <1>1, <1>2, <1>3 DEF Next, vars, CreateEvent, Tick, TopUp, Spend

\* An order is written for one key only, and the request that writes it is the
\* only one in flight with that key.
LEMMA NextUnordered ==
    ASSUME TInv, Alone, Unordered, [Next]_vars
    PROVE  Unordered'
<1> USE DEF Calm
<1>1. CASE UNCHANGED <<pc, call, orders, overlapped>>
  BY <1>1 DEF Unordered, Taken, OrderOf
<1>2. ASSUME NEW r \in Requests, NEW u \in Users, NEW e \in Events, NEW k \in Keys,
             Call(r, u, e, k)
      PROVE  Unordered'
  BY <1>2 DEF Call, Goto, database, TInv, TypeOK, Unordered, Taken, OrderOf
<1>3. ASSUME NEW r \in Requests, Step(r) \/ Crash(r), UNCHANGED orders PROVE Unordered'
  <2>1. \A s \in Requests : s # r =>
           call'[s] = call[s] /\ pc'[s] = pc[s] /\ (Taken(s)' <=> Taken(s))
    BY <1>3, Mine DEF Taken, OrderOf
  <2>2. Taken(r)' <=> Taken(r)
    BY <1>3, Mine DEF Taken, OrderOf
  <2>3. Calm(r) =>
        /\ pc'[r] \in {"check", "reserve", "poll", "debit", "release", "fail", "confirm"}
              => ~Taken(r)
        /\ pc'[r] # "conflict"
    <3> USE DEF TInv, TypeOK, Unordered, Taken
    <3>1. CASE Find(r) \/ Check(r) \/ Reserve(r)
      BY <3>1 DEF Find, Check, Reserve, Goto, Answer, AnswerWithOrder
    <3>2. CASE Poll(r)
      BY <3>2 DEF Poll, Answer, AnswerWithOrder
    <3>3. CASE Debit(r) \/ Release(r)
      BY <3>3 DEF Debit, Release, Goto
    <3>4. CASE Fail(r) \/ Confirm(r) \/ Conflict(r) \/ Enqueue(r)
      BY <3>4 DEF Fail, Confirm, Conflict, Enqueue, Answer, AnswerWithOrder, Goto
    <3>5. CASE Crash(r)
      BY <3>5 DEF Crash, Answer
    <3> QED
      BY <1>3, <3>1, <3>2, <3>3, <3>4, <3>5 DEF Step
  <2>4. call' = call /\ overlapped' = overlapped /\ pc[r] # "idle"
    BY <1>3, Mine DEF InFlight
  <2> QED
    BY <2>1, <2>2, <2>3, <2>4 DEF Unordered
<1>4. ASSUME NEW r \in Requests, NEW status \in {"CONFIRMED", "FAILED"},
             NEW step \in {"answered", "enqueue"},
             pc[r] \in {"fail", "confirm"}, pc' = [pc EXCEPT ![r] = step],
             WriteOrder(r, status), call' = call, overlapped' = overlapped
      PROVE  Unordered'
  <2>1. ASSUME NEW s \in Requests, s # r, InFlight(s), Calm(s)
        PROVE  OrderOf(s)' = OrderOf(s)
    <3> DEFINE new == [user |-> call[r].user, status |-> status]
    <3>1. orders' = [orders EXCEPT ![<<call[r].event, call[r].key>>] = new]
      BY <1>4 DEF WriteOrder
    <3> HIDE DEF new
    <3>2. <<call[s].event, call[s].key>> # <<call[r].event, call[r].key>>
      BY <1>4, <2>1 DEF Alone, InFlight
    <3>3. <<call[s].event, call[s].key>> \in Events \X Keys
      BY <2>1, Known DEF InFlight
    <3> QED
      BY <1>4, <3>1, <3>2, <3>3 DEF TInv, TypeOK, OrderOf
  <2> QED
    BY <1>4, <2>1 DEF TInv, TypeOK, Unordered, Taken, InFlight
<1>5. ASSUME NEW r \in Requests, Step(r) PROVE Unordered'
  <2>1. CASE Fail(r)
    BY <2>1, <1>3, <1>4, <1>5 DEF Fail, Answer, Unordered
  <2>2. CASE Confirm(r)
    BY <2>2, <1>3, <1>4, <1>5 DEF Confirm, Goto, Unordered
  <2>3. CASE ~Fail(r) /\ ~Confirm(r)
    BY <2>3, <1>3, <1>5 DEF Step, Find, Check, Reserve, Poll, Debit, Release,
                            Conflict, Enqueue, database
  <2> QED
    BY <2>1, <2>2, <2>3
<1>6. ASSUME NEW r \in Requests, Crash(r) PROVE Unordered'
  BY <1>3, <1>6 DEF Crash, database
<1> QED
  BY <1>1, <1>2, <1>5, <1>6 DEF Next, vars, CreateEvent, Tick, TopUp, Spend

\* The window is checked before a unit is reserved, so only an event that has
\* been created gets orders.
LEMMA NextUntouched ==
    ASSUME TInv, Untouched, [Next]_vars
    PROVE  Untouched'
<1>1. CASE UNCHANGED <<pc, call, orders, phase>>
  BY <1>1 DEF Untouched
<1>2. ASSUME NEW e \in Events, CreateEvent(e) \/ Tick(e) PROVE Untouched'
  BY <1>2 DEF CreateEvent, Tick, TInv, TypeOK, Untouched
<1>3. ASSUME NEW r \in Requests, NEW u \in Users, NEW e \in Events, NEW k \in Keys,
             Call(r, u, e, k)
      PROVE  Untouched'
  BY <1>3 DEF Call, Goto, database, TInv, TypeOK, Untouched
<1>4. ASSUME NEW r \in Requests, Step(r) \/ Crash(r) PROVE Untouched'
  <2> SUFFICES ASSUME NEW e \in Events, phase[e] = "absent"
               PROVE  /\ \A k \in Keys : orders'[<<e, k>>] = NoOrder
                      /\ pc'[r] \in {"reserve", "poll", "debit", "release", "fail", "confirm"}
                            => call[r].event # e
    BY <1>4, Mine DEF Untouched
  <2>1. CASE UNCHANGED orders
    <3>1. pc'[r] \in {"reserve", "poll", "debit", "release", "fail", "confirm"}
             => call[r].event # e
      <4> USE DEF TInv, TypeOK, Untouched
      <4>1. CASE Find(r) \/ Check(r) \/ Reserve(r)
        BY <4>1 DEF Find, Check, Reserve, Goto, Answer, AnswerWithOrder
      <4>2. CASE Poll(r)
        BY <4>2 DEF Poll, Answer, AnswerWithOrder
      <4>3. CASE Debit(r) \/ Release(r)
        BY <4>3 DEF Debit, Release, Goto
      <4>4. CASE Fail(r) \/ Confirm(r) \/ Conflict(r) \/ Enqueue(r)
        BY <4>4 DEF Fail, Confirm, Conflict, Enqueue, Answer, AnswerWithOrder, Goto
      <4>5. CASE Crash(r)
        BY <4>5 DEF Crash, Answer
      <4> QED
        BY <1>4, <4>1, <4>2, <4>3, <4>4, <4>5 DEF Step
    <3> QED
      BY <2>1, <3>1 DEF Untouched
  <2>2. CASE orders' # orders
    <3>1. /\ pc[r] \in {"fail", "confirm"}
          /\ pc'[r] \in {"answered", "enqueue"}
          /\ \E status \in {"CONFIRMED", "FAILED"} : WriteOrder(r, status)
      <4>1. CASE Fail(r) \/ Confirm(r)
        BY <2>2, <4>1 DEF Fail, Confirm, Answer, Goto, TInv, TypeOK
      <4> QED
        BY <1>4, <2>2, <4>1 DEF Step, Find, Check, Reserve, Poll, Debit, Release,
                                Conflict, Enqueue, Crash, database
    <3>2. call[r].event # e
      BY <3>1 DEF Untouched
    <3>3. ASSUME NEW k \in Keys PROVE orders'[<<e, k>>] = orders[<<e, k>>]
      <4>1. PICK status \in {"CONFIRMED", "FAILED"} : WriteOrder(r, status)
        BY <3>1
      <4> DEFINE new == [user |-> call[r].user, status |-> status]
      <4>2. orders' = [orders EXCEPT ![<<call[r].event, call[r].key>>] = new]
        BY <4>1 DEF WriteOrder
      <4> HIDE DEF new
      <4>3. <<e, k>> \in Events \X Keys
        OBVIOUS
      <4> QED
        BY <3>2, <4>2, <4>3 DEF TInv, TypeOK
    <3> QED
      BY <3>1, <3>3 DEF Untouched
  <2> QED
    BY <2>1, <2>2
<1> QED
  BY <1>1, <1>2, <1>3, <1>4 DEF Next, vars, TopUp, Spend

\* Both sets that are counted are finite.
LEMMA Countable ==
    ASSUME FinitelyMany, NEW e
    PROVE  /\ IsFiniteSet(Holding(e)) /\ Cardinality(Holding(e)) \in Nat
           /\ IsFiniteSet(Confirmed(e)) /\ Cardinality(Confirmed(e)) \in Nat
<1>1. Holding(e) \in SUBSET Requests /\ Confirmed(e) \in SUBSET Keys
  BY DEF Holding, Confirmed
<1>2. IsFiniteSet(Holding(e)) /\ IsFiniteSet(Confirmed(e))
  BY <1>1, FS_Subset DEF FinitelyMany
<1> QED
  BY <1>2, FS_CardinalityType

\* A step that takes no unit, gives none back and sells none.
LEMMA UnitsKept ==
    ASSUME FinitelyMany, TInv, Units, overlapped \subseteq overlapped',
           remaining' = remaining, orders' = orders,
           \A e \in Events : phase'[e] # "absent" => phase[e] # "absent",
           \A r \in Requests : pc'[r] \in {"debit", "release", "confirm"} =>
               pc[r] \in {"debit", "release", "confirm"} /\ call'[r] = call[r]
    PROVE  Units'
<1> SUFFICES ASSUME NEW e \in Events \ overlapped, phase[e] # "absent"
             PROVE  remaining[e] + Cardinality(Holding(e)') + Cardinality(Confirmed(e)') <= Stock[e]
  BY DEF Units, NoUnitInvented
<1>1. Confirmed(e)' = Confirmed(e)
  BY DEF Confirmed
<1>2. Holding(e)' \in SUBSET Holding(e)
  BY DEF Holding
<1>3. /\ Cardinality(Holding(e)') \in Nat
      /\ Cardinality(Holding(e)') <= Cardinality(Holding(e))
  BY <1>2, Countable, FS_Subset, FS_CardinalityType
<1>4. remaining[e] + Cardinality(Holding(e)) + Cardinality(Confirmed(e)) <= Stock[e]
  BY DEF Units, NoUnitInvented
<1> QED
  BY <1>1, <1>3, <1>4, Countable, EventsAssumption DEF TInv, TypeOK

\* A new event has all its units for sale, and none held or sold.
LEMMA CreateUnits ==
    ASSUME FinitelyMany, TInv, Untouched, Units, NEW e \in Events, CreateEvent(e)
    PROVE  Units'
<1> SUFFICES ASSUME NEW d \in Events
             PROVE  /\ d \notin overlapped /\ phase'[d] # "absent" =>
                          remaining'[d] + Cardinality(Holding(d)') + Cardinality(Confirmed(d)')
                             <= Stock[d]
                    /\ remaining'[d] >= 0
  BY DEF Units, NoUnitInvented, CreateEvent
<1> USE DEF TInv, TypeOK, CreateEvent
<1>1. Holding(d)' = Holding(d) /\ Confirmed(d)' = Confirmed(d)
  BY DEF Holding, Confirmed
<1>2. CASE d = e
  <2>1. Holding(e) = {} /\ Confirmed(e) = {}
    BY DEF Untouched, Holding, Confirmed, NoOrder
  <2>2. Cardinality(Holding(d)') = 0 /\ Cardinality(Confirmed(d)') = 0
    BY <1>1, <1>2, <2>1, FS_EmptySet
  <2>3. remaining'[d] = Stock[d] /\ Stock[d] \in Nat
    BY <1>2, EventsAssumption
  <2> QED
    BY <2>2, <2>3
<1>3. CASE d # e
  BY <1>1, <1>3 DEF Units, NoUnitInvented
<1> QED
  BY <1>2, <1>3

\* The unit taken is one there was, and from now on it is held.
LEMMA ReserveUnits ==
    ASSUME FinitelyMany, TInv, Units, NEW r \in Requests, Reserve(r)
    PROVE  Units'
<1> DEFINE c == call[r].event
<1>1. /\ pc[r] = "reserve" /\ c \in Events
      /\ UNCHANGED <<phase, orders, call, overlapped>>
  BY Known DEF Reserve
<1>2. CASE remaining' = remaining
  <2>1. pc' = [pc EXCEPT ![r] = "poll"]
    BY <1>1, <1>2 DEF Reserve, Goto, TInv, TypeOK
  <2> QED
    BY <1>1, <1>2, <2>1, UnitsKept DEF TInv, TypeOK
<1>3. CASE remaining' # remaining
  <2>1. /\ pc' = [pc EXCEPT ![r] = "debit"]
        /\ remaining[c] > 0
        /\ remaining' = [remaining EXCEPT ![c] = @ - 1]
    BY <1>3 DEF Reserve, UnitLeft, Goto
  <2> SUFFICES ASSUME NEW d \in Events
               PROVE  /\ d \notin overlapped /\ phase[d] # "absent" =>
                            remaining'[d] + Cardinality(Holding(d)') + Cardinality(Confirmed(d)')
                               <= Stock[d]
                      /\ remaining'[d] >= 0
    BY <1>1 DEF Units, NoUnitInvented
  <2>2. Confirmed(d)' = Confirmed(d)
    BY <1>1 DEF Confirmed
  <2>3. remaining[d] \in Int /\ Stock[d] \in Nat
    BY EventsAssumption DEF TInv, TypeOK
  <2>4. CASE d = c
    <3>1. Holding(d)' = Holding(d) \cup {r} /\ r \notin Holding(d)
      BY <1>1, <2>1, <2>4 DEF Holding, TInv, TypeOK
    <3>2. Cardinality(Holding(d)') = Cardinality(Holding(d)) + 1
      BY <3>1, Countable, FS_AddElement
    <3>3. remaining'[d] = remaining[d] - 1
      BY <2>1, <2>4 DEF TInv, TypeOK
    <3> QED
      BY <2>1, <2>2, <2>3, <2>4, <3>2, <3>3, Countable DEF Units, NoUnitInvented
  <2>5. CASE d # c
    <3>1. Holding(d)' = Holding(d) /\ remaining'[d] = remaining[d]
      BY <1>1, <2>1, <2>5 DEF Holding, TInv, TypeOK
    <3> QED
      BY <2>2, <3>1 DEF Units, NoUnitInvented
  <2> QED
    BY <2>4, <2>5
<1> QED
  BY <1>2, <1>3

\* The unit given back is the one that was held.
LEMMA ReleaseUnits ==
    ASSUME FinitelyMany, TInv, Units, NEW r \in Requests, Release(r)
    PROVE  Units'
<1> DEFINE c == call[r].event
<1>1. /\ pc[r] = "release" /\ c \in Events
      /\ UNCHANGED <<phase, orders, call, overlapped>>
      /\ pc' = [pc EXCEPT ![r] = "fail"]
      /\ remaining' = [remaining EXCEPT ![c] = @ + 1]
  BY Known DEF Release, ReleaseUnit, Goto
<1> SUFFICES ASSUME NEW d \in Events
             PROVE  /\ d \notin overlapped /\ phase[d] # "absent" =>
                          remaining'[d] + Cardinality(Holding(d)') + Cardinality(Confirmed(d)')
                             <= Stock[d]
                    /\ remaining'[d] >= 0
  BY <1>1 DEF Units, NoUnitInvented
<1>2. Confirmed(d)' = Confirmed(d)
  BY <1>1 DEF Confirmed
<1>3. remaining[d] \in Int /\ Stock[d] \in Nat
  BY EventsAssumption DEF TInv, TypeOK
<1>4. CASE d = c
  <2>1. Holding(d)' = Holding(d) \ {r} /\ r \in Holding(d)
    BY <1>1, <1>4 DEF Holding, TInv, TypeOK
  <2>2. Cardinality(Holding(d)') = Cardinality(Holding(d)) - 1
    BY <2>1, Countable, FS_RemoveElement
  <2>3. remaining'[d] = remaining[d] + 1
    BY <1>1, <1>4 DEF TInv, TypeOK
  <2> QED
    BY <1>2, <1>3, <2>2, <2>3, Countable DEF Units, NoUnitInvented
<1>5. CASE d # c
  <2>1. Holding(d)' = Holding(d) /\ remaining'[d] = remaining[d]
    BY <1>1, <1>5 DEF Holding, TInv, TypeOK
  <2> QED
    BY <1>2, <2>1 DEF Units, NoUnitInvented
<1> QED
  BY <1>4, <1>5

\* What an order that is written does to the orders that are confirmed.
LEMMA Sold ==
    ASSUME FinitelyMany, TInv, NEW r \in Requests, pc[r] # "idle", ~Taken(r),
           NEW status \in {"CONFIRMED", "FAILED"}, WriteOrder(r, status),
           NEW d \in Events
    PROVE  Confirmed(d)' = IF status = "CONFIRMED" /\ d = call[r].event
                             THEN Confirmed(d) \cup {call[r].key}
                             ELSE Confirmed(d)
<1> DEFINE new == [user |-> call[r].user, status |-> status]
<1>1. /\ call[r].event \in Events /\ call[r].key \in Keys
      /\ orders[<<call[r].event, call[r].key>>] = NoOrder
  BY Known DEF Taken, OrderOf
<1>2. NoOrder.status = "none" /\ new.status = status
  BY DEF NoOrder
<1>3. orders' = [orders EXCEPT ![<<call[r].event, call[r].key>>] = new]
  BY DEF WriteOrder
<1> HIDE DEF new
<1>4. \A k \in Keys : orders'[<<d, k>>] =
         IF d = call[r].event /\ k = call[r].key THEN new ELSE orders[<<d, k>>]
  <2> SUFFICES ASSUME NEW k \in Keys
               PROVE  orders'[<<d, k>>] =
                        IF d = call[r].event /\ k = call[r].key THEN new ELSE orders[<<d, k>>]
    OBVIOUS
  <2>1. <<d, k>> \in Events \X Keys
    OBVIOUS
  <2> QED
    BY <1>3, <2>1 DEF TInv, TypeOK
<1> QED
  BY <1>1, <1>2, <1>4 DEF Confirmed

\* The end of a purchase of one event leaves the units of the others alone.
LEMMA Elsewhere ==
    ASSUME FinitelyMany, TInv, NEW r \in Requests, Fail(r) \/ Confirm(r) \/ Conflict(r),
           NEW d \in Events, d # call[r].event
    PROVE  /\ remaining'[d] = remaining[d]
           /\ Holding(d)' = Holding(d)
           /\ Confirmed(d)' = Confirmed(d)
<1>1. remaining'[d] = remaining[d]
  BY DEF Fail, Confirm, Conflict, ReleaseUnit, TInv, TypeOK
<1>2. Holding(d)' = Holding(d)
  BY DEF Fail, Confirm, Conflict, Goto, Answer, AnswerWithOrder, Holding, TInv, TypeOK
<1>3. CASE orders' = orders
  BY <1>1, <1>2, <1>3 DEF Confirmed
<1>4. CASE orders' # orders
  <2>1. pc[r] # "idle" /\ ~Taken(r)
        /\ \E status \in {"CONFIRMED", "FAILED"} : WriteOrder(r, status)
    BY <1>4 DEF Fail, Confirm, Conflict
  <2> QED
    BY <1>1, <1>2, <2>1, Sold
<1> QED
  BY <1>3, <1>4

\* A FAILED order sells no unit.
LEMMA FailUnits ==
    ASSUME FinitelyMany, TInv, Unordered, Units, NEW r \in Requests, Fail(r)
    PROVE  Units'
<1>1. pc[r] = "fail" /\ UNCHANGED <<phase, remaining, call, overlapped>>
  BY DEF Fail
<1> SUFFICES ASSUME NEW d \in Events \ overlapped, phase[d] # "absent"
             PROVE  remaining[d] + Cardinality(Holding(d)') + Cardinality(Confirmed(d)') <= Stock[d]
  BY <1>1 DEF Units, NoUnitInvented
<1>2. CASE d = call[r].event
  <2>1. /\ ~Taken(r)
        /\ pc' = [pc EXCEPT ![r] = "answered"]
        /\ WriteOrder(r, "FAILED")
    BY <1>1, <1>2 DEF Fail, Unordered, Calm, Answer
  <2>2. Confirmed(d)' = Confirmed(d)
    BY <1>1, <2>1, Sold
  <2>3. Holding(d)' = Holding(d)
    BY <1>1, <2>1 DEF Holding, TInv, TypeOK
  <2> QED
    BY <2>2, <2>3 DEF Units, NoUnitInvented
<1>3. CASE d # call[r].event
  BY <1>3, Elsewhere DEF Units, NoUnitInvented
<1> QED
  BY <1>2, <1>3

\* The unit sold is the one that was held.
LEMMA ConfirmUnits ==
    ASSUME FinitelyMany, TInv, Unordered, Units, NEW r \in Requests, Confirm(r)
    PROVE  Units'
<1>1. pc[r] = "confirm" /\ UNCHANGED <<phase, remaining, call, overlapped>>
  BY DEF Confirm
<1> SUFFICES ASSUME NEW d \in Events \ overlapped, phase[d] # "absent"
             PROVE  remaining[d] + Cardinality(Holding(d)') + Cardinality(Confirmed(d)') <= Stock[d]
  BY <1>1 DEF Units, NoUnitInvented
<1>2. remaining[d] + Cardinality(Holding(d)) + Cardinality(Confirmed(d)) <= Stock[d]
  BY DEF Units, NoUnitInvented
<1>3. remaining[d] \in Int /\ Stock[d] \in Nat
  BY EventsAssumption DEF TInv, TypeOK
<1>4. CASE d = call[r].event
  <2>1. /\ ~Taken(r)
        /\ pc' = [pc EXCEPT ![r] = "enqueue"]
        /\ WriteOrder(r, "CONFIRMED")
    BY <1>1, <1>4 DEF Confirm, Unordered, Calm, Goto
  <2>2. Holding(d)' = Holding(d) \ {r} /\ r \in Holding(d)
    BY <1>1, <1>4, <2>1 DEF Holding, TInv, TypeOK
  <2>3. Cardinality(Holding(d)') = Cardinality(Holding(d)) - 1
    BY <2>2, Countable, FS_RemoveElement
  <2>4. Confirmed(d)' = Confirmed(d) \cup {call[r].key}
    BY <1>1, <1>4, <2>1, Sold
  <2>5. \/ Cardinality(Confirmed(d)') = Cardinality(Confirmed(d)) + 1
        \/ Cardinality(Confirmed(d)') = Cardinality(Confirmed(d))
    BY <2>4, Countable, FS_AddElement
  <2> QED
    BY <1>2, <1>3, <2>3, <2>5, Countable
<1>5. CASE d # call[r].event
  BY <1>2, <1>5, Elsewhere
<1> QED
  BY <1>4, <1>5

\* Only a request about an event whose duplicates overlapped loses a race.
LEMMA ConflictUnits ==
    ASSUME FinitelyMany, TInv, Unordered, Units, NEW r \in Requests, Conflict(r)
    PROVE  Units'
<1>1. /\ call[r].event \in overlapped /\ call[r].event \in Events
      /\ UNCHANGED <<phase, overlapped>>
  BY Known DEF Conflict, Unordered, Calm
<1>2. \A d \in Events : remaining'[d] >= 0
  BY <1>1 DEF Conflict, ReleaseUnit, Units, TInv, TypeOK
<1>3. \A d \in Events \ overlapped :
         /\ remaining'[d] = remaining[d]
         /\ Holding(d)' = Holding(d)
         /\ Confirmed(d)' = Confirmed(d)
  BY <1>1, Elsewhere
<1> QED
  BY <1>1, <1>2, <1>3 DEF Units, NoUnitInvented

\* Every step keeps the account of the units.
LEMMA NextUnits ==
    ASSUME FinitelyMany, TInv, Unordered, Untouched, Units, [Next]_vars
    PROVE  Units'
<1>1. CASE UNCHANGED vars
  BY <1>1, UnitsKept DEF vars
<1>2. ASSUME NEW e \in Events, CreateEvent(e) \/ Tick(e) PROVE Units'
  <2>1. CASE CreateEvent(e)
    BY <2>1, CreateUnits
  <2>2. CASE Tick(e)
    BY <2>2, UnitsKept DEF Tick, TInv, TypeOK
  <2> QED
    BY <1>2, <2>1, <2>2
<1>3. ASSUME NEW u \in Users, TopUp(u) \/ Spend(u) PROVE Units'
  BY <1>3, UnitsKept DEF TopUp, Spend
<1>4. ASSUME NEW r \in Requests, NEW u \in Users, NEW e \in Events, NEW k \in Keys,
             Call(r, u, e, k)
      PROVE  Units'
  <2>1. overlapped \subseteq overlapped' /\ UNCHANGED <<remaining, orders, phase>>
    BY <1>4 DEF Call, database
  <2>2. \A s \in Requests : pc'[s] \in {"debit", "release", "confirm"} =>
           pc[s] \in {"debit", "release", "confirm"} /\ call'[s] = call[s]
    BY <1>4 DEF Call, Goto, TInv, TypeOK
  <2> QED
    BY <2>1, <2>2, UnitsKept
<1>5. ASSUME NEW r \in Requests, Step(r) PROVE Units'
  <2>1. CASE Find(r) \/ Check(r) \/ Poll(r)
    BY <2>1, UnitsKept DEF Find, Check, Poll, Goto, Answer, AnswerWithOrder, database, TInv, TypeOK
  <2>2. CASE Debit(r) \/ Enqueue(r)
    BY <2>2, UnitsKept DEF Debit, Enqueue, Goto, Answer, AnswerWithOrder, TInv, TypeOK
  <2> QED
    BY <1>5, <2>1, <2>2, ReserveUnits, ReleaseUnits, FailUnits, ConfirmUnits, ConflictUnits
       DEF Step
<1>6. ASSUME NEW r \in Requests, Crash(r) PROVE Units'
  BY <1>6, UnitsKept DEF Crash, Answer, database, TInv, TypeOK
<1> QED
  BY <1>1, <1>2, <1>3, <1>4, <1>5, <1>6 DEF Next

\* The account of the units, and what it rests on, is always right.
LEMMA StockAccount ==
    ASSUME FinitelyMany
    PROVE  Spec => []SInv
<1>1. Init => SInv
  <2> SUFFICES ASSUME Init PROVE SInv
    OBVIOUS
  <2>1. Alone /\ Unordered /\ Untouched
    BY DEF Init, Alone, Calm, InFlight, Unordered, Untouched
  <2>2. Units
    BY DEF Init, Units, NoUnitInvented
  <2> QED
    BY <2>1, <2>2, InitTInv DEF SInv
<1>2. SInv /\ [Next]_vars => SInv'
  BY NextTInv, NextAlone, NextUnordered, NextUntouched, NextUnits DEF SInv
<1> QED
  BY <1>1, <1>2, PTL DEF Spec

\* No fault, crash or race brings a unit to an event of which no key was ever in
\* flight twice at once, whatever happens to the other events.
THEOREM UnitsConserved ==
    ASSUME FinitelyMany
    PROVE  Spec => []NoUnitInvented
<1>1. SInv => NoUnitInvented
  BY DEF SInv, Units
<1> QED
  BY <1>1, StockAccount, PTL

\* Every client sends a key again only after an answer.
CarefulClients == Careful = Keys

\* Careful clients never have a key in flight twice.
LEMMA NeverOverlapped ==
    ASSUME CarefulClients
    PROVE  Spec => [](overlapped = {})
<1>1. Init => overlapped = {}
  BY DEF Init
<1>2. overlapped = {} /\ [Next]_vars => (overlapped = {})'
  <2> SUFFICES ASSUME overlapped = {}, [Next]_vars PROVE overlapped' = {}
    OBVIOUS
  <2>1. ASSUME NEW r \in Requests, NEW u \in Users, NEW e \in Events, NEW k \in Keys,
               Call(r, u, e, k)
        PROVE  overlapped' = {}
    BY <2>1 DEF Call, CarefulClients
  <2>2. ASSUME NEW r \in Requests, Step(r) PROVE overlapped' = overlapped
    BY <2>2 DEF Step, Find, Check, Reserve, Poll, Debit, Release, Fail, Confirm,
                Conflict, Enqueue
  <2> QED
    BY <2>1, <2>2 DEF Next, vars, CreateEvent, Tick, TopUp, Spend, Crash
<1> QED
  BY <1>1, <1>2, PTL DEF Spec

\* While clients send a key again only after an answer, no event confirms more
\* orders than it has units, whatever fails.
THEOREM NeverOversold ==
    ASSUME CarefulClients, FinitelyMany
    PROVE  Spec => []NoOversell
<1>1. SInv /\ overlapped = {} => NoOversell
  <2> SUFFICES ASSUME SInv, overlapped = {}, NEW e \in Events
               PROVE  Cardinality(Confirmed(e)) <= Stock[e]
    BY DEF NoOversell
  <2>1. remaining[e] \in Int /\ remaining[e] >= 0 /\ Stock[e] \in Nat
    BY EventsAssumption DEF SInv, TInv, TypeOK, Units
  <2>2. CASE phase[e] = "absent"
    <3>1. Confirmed(e) = {}
      BY <2>2 DEF SInv, Untouched, Confirmed, NoOrder
    <3> QED
      BY <2>1, <3>1, FS_EmptySet
  <2>3. CASE phase[e] # "absent"
    <3>1. remaining[e] + Cardinality(Holding(e)) + Cardinality(Confirmed(e)) <= Stock[e]
      BY <2>3 DEF SInv, Units, NoUnitInvented
    <3> QED
      BY <2>1, <3>1, Countable
  <2> QED
    BY <2>2, <2>3
<1> QED
  BY <1>1, StockAccount, NeverOverlapped, PTL

-----------------------------------------------------------------------------
(* Orders and charges, whatever clients send and whatever fails. *)

\* A step of a request writes no order, or one where there was none.
LEMMA Writer ==
    ASSUME TInv, NEW r \in Requests, Step(r) \/ Crash(r), orders' # orders
    PROVE  /\ ~Taken(r)
           /\ \/ pc[r] = "fail" /\ WriteOrder(r, "FAILED")
              \/ pc[r] = "confirm" /\ WriteOrder(r, "CONFIRMED")
           /\ paid' = paid
<1>1. Fail(r) \/ Confirm(r)
  BY DEF Step, Find, Check, Reserve, Poll, Debit, Release, Conflict, Enqueue, Crash, database
<1> QED
  BY <1>1 DEF Fail, Confirm

\* The unique constraint: an order that is there is never replaced.
LEMMA OrdersStay ==
    ASSUME TInv, [Next]_vars, NEW e \in Events, NEW k \in Keys, orders[<<e, k>>] # NoOrder
    PROVE  orders'[<<e, k>>] = orders[<<e, k>>]
<1>1. ASSUME NEW r \in Requests, Step(r) \/ Crash(r), orders' # orders
      PROVE  orders'[<<e, k>>] = orders[<<e, k>>]
  <2>1. PICK status \in {"CONFIRMED", "FAILED"} : WriteOrder(r, status)
    BY <1>1, Writer
  <2> DEFINE new == [user |-> call[r].user, status |-> status]
  <2>2. orders' = [orders EXCEPT ![<<call[r].event, call[r].key>>] = new]
    BY <2>1 DEF WriteOrder
  <2> HIDE DEF new
  <2>3. <<call[r].event, call[r].key>> # <<e, k>>
    <3>1. orders[<<call[r].event, call[r].key>>] = NoOrder
      BY <1>1, Writer DEF Taken, OrderOf
    <3> QED
      BY <3>1
  <2>4. <<e, k>> \in Events \X Keys
    OBVIOUS
  <2> QED
    BY <2>2, <2>3, <2>4 DEF TInv, TypeOK
<1> QED
  BY <1>1 DEF Next, vars, CreateEvent, Tick, TopUp, Spend, Call, database

\* Whoever is about to write a CONFIRMED order has paid.
PaidFirst ==
    \A r \in Requests :
        pc[r] = "confirm" => <<call[r].user, call[r].event, call[r].key>> \in paid

PInv == TInv /\ PaidFirst /\ ConfirmedIsPaid

\* No charge is ever taken back.
LEMMA ChargesStay ==
    ASSUME [Next]_vars
    PROVE  paid \subseteq paid'
<1>1. ASSUME NEW r \in Requests, Step(r) PROVE paid \subseteq paid'
  BY <1>1 DEF Step, Find, Check, Reserve, Poll, Debit, Pay, Release, Fail, Confirm,
              Conflict, Enqueue, database
<1> QED
  BY <1>1 DEF Next, vars, CreateEvent, Tick, TopUp, Spend, Call, Crash, database

\* Only a debit that went through leads to the CONFIRMED order.
LEMMA NextPaidFirst ==
    ASSUME TInv, PaidFirst, [Next]_vars
    PROVE  PaidFirst'
<1>1. CASE UNCHANGED <<pc, call, paid>>
  BY <1>1 DEF PaidFirst
<1>2. ASSUME NEW r \in Requests, NEW u \in Users, NEW e \in Events, NEW k \in Keys,
             Call(r, u, e, k)
      PROVE  PaidFirst'
  BY <1>2 DEF Call, Goto, database, TInv, TypeOK, PaidFirst
<1>3. ASSUME NEW r \in Requests, Step(r) \/ Crash(r) PROVE PaidFirst'
  <2>1. pc'[r] = "confirm" => <<call[r].user, call[r].event, call[r].key>> \in paid'
    <3> USE DEF TInv, TypeOK
    <3>1. CASE Debit(r)
      BY <3>1 DEF Debit, Pay, Goto
    <3>2. CASE Find(r) \/ Check(r) \/ Reserve(r) \/ Poll(r)
      BY <3>2 DEF Find, Check, Reserve, Poll, Goto, Answer, AnswerWithOrder
    <3>3. CASE Release(r) \/ Fail(r) \/ Confirm(r) \/ Conflict(r) \/ Enqueue(r) \/ Crash(r)
      BY <3>3 DEF Release, Fail, Confirm, Conflict, Enqueue, Crash, Goto, Answer, AnswerWithOrder
    <3> QED
      BY <1>3, <3>1, <3>2, <3>3 DEF Step
  <2> QED
    BY <1>3, <2>1, Mine, ChargesStay DEF PaidFirst
<1> QED
  BY <1>1, <1>2, <1>3 DEF Next, vars, CreateEvent, Tick, TopUp, Spend

\* A CONFIRMED order is written for the user who has paid.
LEMMA NextConfirmedIsPaid ==
    ASSUME PInv, [Next]_vars
    PROVE  ConfirmedIsPaid'
<1> SUFFICES ASSUME NEW e \in Events, NEW k \in Keys,
                    orders'[<<e, k>>].status = "CONFIRMED"
             PROVE  <<orders'[<<e, k>>].user, e, k>> \in paid'
  BY DEF ConfirmedIsPaid, Confirmed
<1>1. CASE orders'[<<e, k>>] = orders[<<e, k>>]
  BY <1>1, ChargesStay DEF PInv, ConfirmedIsPaid, Confirmed
<1>2. ASSUME NEW r \in Requests, Step(r) \/ Crash(r), orders' # orders,
             orders'[<<e, k>>] # orders[<<e, k>>]
      PROVE  <<orders'[<<e, k>>].user, e, k>> \in paid'
  <2>1. PICK status \in {"CONFIRMED", "FAILED"} :
           /\ WriteOrder(r, status)
           /\ status = "CONFIRMED" => pc[r] = "confirm"
    BY <1>2, Writer DEF PInv
  <2> DEFINE new == [user |-> call[r].user, status |-> status]
  <2>2. orders' = [orders EXCEPT ![<<call[r].event, call[r].key>>] = new]
    BY <2>1 DEF WriteOrder
  <2>3. new.status = status /\ new.user = call[r].user
    OBVIOUS
  <2> HIDE DEF new
  <2>4. <<e, k>> \in Events \X Keys
    OBVIOUS
  <2>5. <<e, k>> = <<call[r].event, call[r].key>> /\ orders'[<<e, k>>] = new
    BY <1>2, <2>2, <2>4 DEF PInv, TInv, TypeOK
  <2>6. pc[r] = "confirm" /\ e = call[r].event /\ k = call[r].key
    BY <2>1, <2>3, <2>5
  <2>7. <<call[r].user, call[r].event, call[r].key>> \in paid
    BY <2>6 DEF PInv, PaidFirst
  <2> QED
    BY <1>2, <2>3, <2>5, <2>6, <2>7, ChargesStay
<1> QED
  BY <1>1, <1>2 DEF Next, vars, CreateEvent, Tick, TopUp, Spend, Call, database

\* Every confirmed order has been paid for by its user, with any overlap of
\* repeated keys, lost acknowledgements and crashes.
THEOREM NoFreeOrder == Spec => []ConfirmedIsPaid
<1>1. Init => PInv
  <2> SUFFICES ASSUME Init PROVE PInv
    OBVIOUS
  <2>1. PaidFirst
    BY DEF Init, PaidFirst
  <2>2. ConfirmedIsPaid
    BY DEF Init, ConfirmedIsPaid, Confirmed, NoOrder
  <2> QED
    BY <2>1, <2>2, InitTInv DEF PInv
<1>2. PInv /\ [Next]_vars => PInv'
  BY NextTInv, NextPaidFirst, NextConfirmedIsPaid DEF PInv
<1>3. PInv => ConfirmedIsPaid
  BY DEF PInv
<1> QED
  BY <1>1, <1>2, <1>3, PTL DEF Spec

\* What was answered, to the requests that have an answer.
AInv ==
    /\ TInv
    /\ \A r \in Requests :
          /\ pc[r] # "answered" => reply[r] = NoAnswer
          /\ reply[r].status = "ok" => Taken(r) /\ reply[r].order = OrderOf(r)

\* An answer names the order there is, and from then on neither changes.
LEMMA NextAnswers ==
    ASSUME AInv, [Next]_vars
    PROVE  AInv'
<1> USE DEF AInv
<1>1. TInv'
  BY NextTInv
<1>2. ASSUME NEW s \in Requests, pc[s] # "idle", Taken(s), call'[s] = call[s]
      PROVE  Taken(s)' /\ OrderOf(s)' = OrderOf(s)
  <2>1. call[s].event \in Events /\ call[s].key \in Keys
    BY <1>2, Known
  <2>2. orders[<<call[s].event, call[s].key>>] # NoOrder
    BY <1>2 DEF Taken, OrderOf
  <2>3. orders'[<<call[s].event, call[s].key>>] = orders[<<call[s].event, call[s].key>>]
    BY <2>1, <2>2, OrdersStay
  <2> QED
    BY <1>2, <2>2, <2>3 DEF Taken, OrderOf
<1>3. CASE UNCHANGED <<pc, call, reply, orders>>
  BY <1>1, <1>3 DEF Taken, OrderOf
<1>4. ASSUME NEW r \in Requests, NEW u \in Users, NEW e \in Events, NEW k \in Keys,
             Call(r, u, e, k)
      PROVE  AInv'
  <2>1. /\ UNCHANGED <<orders, reply>>
        /\ pc[r] = "idle" /\ pc'[r] = "find"
        /\ \A s \in Requests : s # r => call'[s] = call[s] /\ pc'[s] = pc[s]
    BY <1>4 DEF Call, Goto, database, TInv, TypeOK
  <2>2. reply[r] = NoAnswer /\ NoAnswer.status # "ok"
    BY <2>1 DEF NoAnswer
  <2>3. \A s \in Requests : s # r => OrderOf(s)' = OrderOf(s)
    BY <2>1 DEF OrderOf
  <2> QED
    BY <1>1, <2>1, <2>2, <2>3 DEF Taken
<1>5. ASSUME NEW r \in Requests, Step(r) \/ Crash(r) PROVE AInv'
  <2>1. ASSUME NEW s \in Requests, s # r
        PROVE  /\ pc'[s] # "answered" => reply'[s] = NoAnswer
               /\ reply'[s].status = "ok" => Taken(s)' /\ reply'[s].order = OrderOf(s)'
    <3>1. reply'[s] = reply[s]
      BY <1>5, <2>1 DEF Step, Find, Check, Reserve, Poll, Debit, Release, Fail, Confirm,
                        Conflict, Enqueue, Crash, Answer, AnswerWithOrder, TInv, TypeOK
    <3>2. pc[s] = "idle" => reply[s].status # "ok"
      BY DEF NoAnswer
    <3> QED
      BY <1>2, <1>5, <2>1, <3>1, <3>2, Mine
  <2>2. \/ pc'[r] # "answered" /\ reply' = reply
        \/ reply'[r].status # "ok" /\ pc'[r] = "answered"
        \/ /\ orders' = orders /\ Taken(r) /\ pc'[r] = "answered"
           /\ reply'[r] = [status |-> "ok", order |-> OrderOf(r)]
    <3> USE DEF TInv, TypeOK
    <3>1. CASE Find(r) \/ Check(r) \/ Reserve(r)
      BY <3>1 DEF Find, Check, Reserve, Goto, Answer, AnswerWithOrder, Refused, Taken, database
    <3>2. CASE Poll(r)
      BY <3>2 DEF Poll, Answer, AnswerWithOrder, Refused, Taken, database
    <3>3. CASE Debit(r) \/ Release(r) \/ Confirm(r)
      BY <3>3 DEF Debit, Release, Confirm, Goto
    <3>4. CASE Fail(r)
      <4>1. failure[r] # "ok" /\ pc[r] = "fail"
        BY <3>4 DEF Fail, Progress, Refusals
      <4> QED
        BY <3>4, <4>1 DEF Fail, Goto, Answer, Refused
    <3>5. CASE Conflict(r) \/ Enqueue(r)
      BY <3>5 DEF Conflict, Enqueue, Answer, AnswerWithOrder, Progress
    <3>6. CASE Crash(r)
      BY <3>6 DEF Crash, Answer, Refused
    <3> QED
      BY <1>5, <3>1, <3>2, <3>3, <3>4, <3>5, <3>6 DEF Step
  <2>3. /\ pc'[r] # "answered" => reply'[r] = NoAnswer
        /\ reply'[r].status = "ok" => Taken(r)' /\ reply'[r].order = OrderOf(r)'
    <3>1. call' = call /\ InFlight(r)
      BY <1>5, Mine
    <3>2. reply[r] = NoAnswer
      BY <3>1 DEF InFlight
    <3> QED
      BY <2>2, <3>1, <3>2 DEF Taken, OrderOf, NoAnswer
  <2> QED
    BY <1>1, <2>1, <2>3
<1> QED
  BY <1>3, <1>4, <1>5 DEF Next, vars, CreateEvent, Tick, TopUp, Spend

\* An order reported to a client is the one that is stored, then and ever after.
THEOREM AnswersStayTrue == Spec => []AnswersMatchOrders
<1>1. Init => AInv
  BY InitTInv DEF Init, AInv, NoAnswer
<1>2. AInv /\ [Next]_vars => AInv'
  BY NextAnswers
<1>3. AInv => AnswersMatchOrders
  BY DEF AInv, AnswersMatchOrders
<1> QED
  BY <1>1, <1>2, <1>3, PTL DEF Spec

\* Where the confirmation job of an order comes from: the one request that wrote
\* it, until which there is none.
Heralds ==
    \A r \in Requests : pc[r] = "enqueue" =>
        /\ OrderOf(r).status = "CONFIRMED"
        /\ jobs[<<call[r].event, call[r].key>>] = 0
        /\ \A s \in Requests :
              pc[s] = "enqueue" /\ call[s].event = call[r].event /\ call[s].key = call[r].key
                 => s = r

JInv == TInv /\ Heralds /\ OneJobPerOrder

\* A step that writes no order and adds no job.
LEMMA JobsKept ==
    ASSUME JInv, TInv', orders' = orders, jobs' = jobs,
           \A r \in Requests : pc'[r] = "enqueue" => pc[r] = "enqueue" /\ call'[r] = call[r]
    PROVE  JInv'
<1>1. Heralds'
  BY DEF JInv, Heralds, OrderOf
<1>2. OneJobPerOrder'
  BY DEF JInv, OneJobPerOrder
<1> QED
  BY <1>1, <1>2 DEF JInv

\* The order that is written had none before it, so it has no job yet.
LEMMA WriteJobs ==
    ASSUME JInv, TInv', NEW r \in Requests, pc[r] # "idle", ~Taken(r),
           NEW status \in {"CONFIRMED", "FAILED"}, WriteOrder(r, status),
           NEW step, step = "enqueue" => status = "CONFIRMED",
           pc' = [pc EXCEPT ![r] = step], call' = call, jobs' = jobs
    PROVE  JInv'
<1> DEFINE x == <<call[r].event, call[r].key>>
           new == [user |-> call[r].user, status |-> status]
<1>1. /\ call[r].event \in Events /\ call[r].key \in Keys
      /\ x \in Events \X Keys
      /\ orders[x] = NoOrder
      /\ orders' = [orders EXCEPT ![x] = new]
      /\ new.status = status
  BY Known DEF JInv, Taken, OrderOf, WriteOrder
<1>2. jobs[x] = 0
  <2>1. jobs[x] \in Nat /\ jobs[x] <= 1
    BY <1>1 DEF JInv, OneJobPerOrder, TInv, TypeOK
  <2>2. jobs[x] # 1
    BY <1>1 DEF JInv, OneJobPerOrder, NoOrder
  <2> QED
    BY <2>1, <2>2
<1>3. \A s \in Requests : pc[s] = "enqueue" => <<call[s].event, call[s].key>> # x
  BY <1>1 DEF JInv, Heralds, OrderOf, NoOrder
<1>4. \A s \in Requests : pc[s] = "enqueue" =>
         <<call[s].event, call[s].key>> \in Events \X Keys
  BY Known DEF JInv
<1>5. /\ orders'[x] = new
      /\ \A y \in Events \X Keys : y # x => orders'[y] = orders[y]
  <2> HIDE DEF x, new
  <2> QED
    BY <1>1 DEF JInv, TInv, TypeOK
<1>6. OneJobPerOrder'
  <2> SUFFICES ASSUME NEW e \in Events, NEW k \in Keys
               PROVE  /\ jobs[<<e, k>>] <= 1
                      /\ jobs[<<e, k>>] = 1 => orders'[<<e, k>>].status = "CONFIRMED"
    BY DEF OneJobPerOrder
  <2>1. CASE <<e, k>> = x
    <3>1. jobs[<<e, k>>] = 0
      BY <1>2, <2>1
    <3> QED
      BY <3>1
  <2>2. CASE <<e, k>> # x
    <3>1. orders'[<<e, k>>] = orders[<<e, k>>]
      BY <1>5, <2>2
    <3> QED
      BY <3>1 DEF JInv, OneJobPerOrder
  <2> QED
    BY <2>1, <2>2
<1>7. ASSUME NEW s \in Requests, pc'[s] = "enqueue"
      PROVE  /\ OrderOf(s)'.status = "CONFIRMED"
             /\ jobs[<<call[s].event, call[s].key>>] = 0
             /\ \A t \in Requests :
                   pc'[t] = "enqueue" /\ call[t].event = call[s].event /\ call[t].key = call[s].key
                      => t = s
  <2>1. \A t \in Requests : pc'[t] = IF t = r THEN step ELSE pc[t]
    BY DEF JInv, TInv, TypeOK
  <2>2. CASE s = r
    <3>1. OrderOf(s)'.status = "CONFIRMED"
      <4>1. OrderOf(s)' = orders'[x]
        BY <2>2 DEF OrderOf
      <4>2. status = "CONFIRMED"
        BY <1>7, <2>1, <2>2
      <4> QED
        BY <1>1, <1>5, <4>1, <4>2
    <3> QED
      BY <1>2, <1>3, <2>1, <2>2, <3>1
  <2>3. CASE s # r
    <3>1. pc[s] = "enqueue"
      BY <1>7, <2>1, <2>3
    <3>2. OrderOf(s)' = OrderOf(s)
      BY <1>3, <1>4, <1>5, <3>1 DEF OrderOf
    <3>3. \A t \in Requests :
             t = r => ~(call[t].event = call[s].event /\ call[t].key = call[s].key)
      BY <1>3, <3>1
    <3> QED
      BY <2>1, <3>1, <3>2, <3>3 DEF JInv, Heralds
  <2> QED
    BY <2>2, <2>3
<1>8. Heralds'
  BY <1>7 DEF Heralds
<1> QED
  BY <1>6, <1>8 DEF JInv

\* Only the request that wrote the order adds its job, and only once.
LEMMA EnqueueJobs ==
    ASSUME JInv, TInv', NEW r \in Requests, Enqueue(r)
    PROVE  JInv'
<1> DEFINE x == <<call[r].event, call[r].key>>
<1>1. /\ pc[r] = "enqueue" /\ x \in Events \X Keys
      /\ UNCHANGED <<orders, call>>
      /\ pc' = [pc EXCEPT ![r] = "answered"]
      /\ jobs[x] = 0 /\ orders[x].status = "CONFIRMED"
  BY Known DEF Enqueue, AnswerWithOrder, Answer, JInv, Heralds, OrderOf
<1>2. \/ jobs' = jobs
      \/ jobs' = [jobs EXCEPT ![x] = jobs[x] + 1]
  BY DEF Enqueue
<1>3. \A s \in Requests : pc'[s] = "enqueue" =>
         pc[s] = "enqueue" /\ <<call[s].event, call[s].key>> # x
  BY <1>1 DEF JInv, Heralds, TInv, TypeOK
<1>4. \A s \in Requests : pc[s] = "enqueue" =>
         <<call[s].event, call[s].key>> \in Events \X Keys
  BY Known DEF JInv
<1>5. \A y \in Events \X Keys : jobs'[y] = jobs[y] \/ (y = x /\ jobs'[y] = 1)
  <2> HIDE DEF x
  <2> QED
    BY <1>1, <1>2 DEF JInv, TInv, TypeOK
<1>6. OneJobPerOrder'
  <2> SUFFICES ASSUME NEW e \in Events, NEW k \in Keys
               PROVE  /\ jobs'[<<e, k>>] <= 1
                      /\ jobs'[<<e, k>>] = 1 => orders[<<e, k>>].status = "CONFIRMED"
    BY <1>1 DEF OneJobPerOrder
  <2>1. CASE jobs'[<<e, k>>] = jobs[<<e, k>>]
    BY <2>1 DEF JInv, OneJobPerOrder
  <2>2. CASE <<e, k>> = x /\ jobs'[<<e, k>>] = 1
    BY <1>1, <2>2
  <2> QED
    BY <1>5, <2>1, <2>2
<1>7. Heralds'
  <2>1. \A s \in Requests : pc'[s] = "enqueue" =>
           jobs'[<<call[s].event, call[s].key>>] = jobs[<<call[s].event, call[s].key>>]
    BY <1>3, <1>4, <1>5
  <2> QED
    BY <1>1, <1>3, <2>1 DEF JInv, Heralds, OrderOf
<1> QED
  BY <1>6, <1>7 DEF JInv

\* A confirmation is queued at most once for an order, and for none that failed,
\* with any overlap of repeated keys and any faults.
THEOREM JobsNeverDoubled == Spec => []OneJobPerOrder
<1>1. Init => JInv
  <2> SUFFICES ASSUME Init PROVE JInv
    OBVIOUS
  <2>1. Heralds /\ OneJobPerOrder
    BY DEF Init, Heralds, OneJobPerOrder
  <2> QED
    BY <2>1, InitTInv DEF JInv
<1>2. ASSUME JInv, [Next]_vars PROVE JInv'
  <2>1. TInv /\ TInv'
    BY <1>2, NextTInv DEF JInv
  <2>2. CASE UNCHANGED vars
    BY <1>2, <2>1, <2>2, JobsKept DEF vars
  <2>3. ASSUME NEW e \in Events, CreateEvent(e) \/ Tick(e) PROVE JInv'
    BY <1>2, <2>1, <2>3, JobsKept DEF CreateEvent, Tick
  <2>4. ASSUME NEW u \in Users, TopUp(u) \/ Spend(u) PROVE JInv'
    BY <1>2, <2>1, <2>4, JobsKept DEF TopUp, Spend
  <2>5. ASSUME NEW r \in Requests, NEW u \in Users, NEW e \in Events, NEW k \in Keys,
               Call(r, u, e, k)
        PROVE  JInv'
    BY <1>2, <2>1, <2>5, JobsKept DEF Call, Goto, database, TInv, TypeOK
  <2>6. ASSUME NEW r \in Requests, Step(r) PROVE JInv'
    <3> USE DEF Goto, Answer, AnswerWithOrder, database
    <3>1. CASE Find(r) \/ Check(r) \/ Reserve(r)
      BY <1>2, <2>1, <3>1, JobsKept DEF Find, Check, Reserve, TInv, TypeOK
    <3>2. CASE Poll(r) \/ Debit(r) \/ Release(r) \/ Conflict(r)
      BY <1>2, <2>1, <3>2, JobsKept DEF Poll, Debit, Release, Conflict, TInv, TypeOK
    <3>3. CASE Fail(r)
      <4>1. CASE ~Taken(r)
        BY <1>2, <2>1, <3>3, <4>1, WriteJobs DEF Fail
      <4>2. CASE Taken(r)
        BY <1>2, <2>1, <3>3, <4>2, JobsKept DEF Fail, TInv, TypeOK
      <4> QED
        BY <4>1, <4>2
    <3>4. CASE Confirm(r)
      <4>1. CASE ~Taken(r)
        BY <1>2, <2>1, <3>4, <4>1, WriteJobs DEF Confirm
      <4>2. CASE Taken(r)
        BY <1>2, <2>1, <3>4, <4>2, JobsKept DEF Confirm, TInv, TypeOK
      <4> QED
        BY <4>1, <4>2
    <3> QED
      BY <1>2, <2>1, <2>6, <3>1, <3>2, <3>3, <3>4, EnqueueJobs DEF Step
  <2>7. ASSUME NEW r \in Requests, Crash(r) PROVE JInv'
    BY <1>2, <2>1, <2>7, JobsKept DEF Crash, Answer, database, TInv, TypeOK
  <2> QED
    BY <1>2, <2>2, <2>3, <2>4, <2>5, <2>6, <2>7 DEF Next
<1>3. JInv => OneJobPerOrder
  BY DEF JInv
<1> QED
  BY <1>1, <1>2, <1>3, PTL DEF Spec

-----------------------------------------------------------------------------
(* The sale while nothing fails and every client either can pay for all that *)
(* it may ask for, and spends that money on nothing else, or sends a key     *)
(* again only after an answer.  Duplicates may then overlap freely, and a    *)
(* debit is refused only to a request that is alone with its key.            *)

NoFaults == Fragile = {}

FiniteSale == FinitelyMany /\ IsFiniteSet(Events)

\* What each purchase costs, and what a user has not been charged for yet of all
\* that the client may ask for.
Costs == [x \in Events \X Keys |-> Price[x[1]]]
Unpaid(u) == {x \in Events \X KeysOf[u] : <<u, x[1], x[2]>> \notin paid}

Wealthy(u) == u \notin Spenders /\ Opening[u] >= SumFunctionOnSet(Costs, Events \X KeysOf[u])

FundedClients == \A u \in Users : KeysOf[u] \subseteq Careful \/ Wealthy(u)

\* A request is made with a key of its user.
Sent == \A r \in Requests : pc[r] # "idle" => call[r].key \in KeysOf[call[r].user]

\* A careful key is in flight once.
Singly ==
    \A r, s \in Requests :
        InFlight(r) /\ InFlight(s) /\ call[r].key = call[s].key /\ call[r].key \in Careful
           => r = s

\* So the request that sends it finds no order after Find, and loses no race.
Unraced ==
    \A r \in Requests : pc[r] # "idle" /\ call[r].key \in Careful =>
        /\ pc[r] \in {"check", "reserve", "poll", "debit", "release", "fail", "confirm"}
              => ~Taken(r)
        /\ pc[r] # "conflict"

\* A client that sends a key twice at once has the money for all that remains.
Solvent ==
    \A u \in Users : Wealthy(u) => balance[u] >= SumFunctionOnSet(Costs, Unpaid(u))

\* So only a request that is alone with its key is refused the debit, and has
\* not been charged.
Poor ==
    \A r \in Requests : pc[r] \in {"release", "fail"} =>
        /\ call[r].key \in Careful
        /\ <<call[r].user, call[r].event, call[r].key>> \notin paid

\* The purchases that have taken a unit of e and not yet settled it: here a
\* request that loses a race has one too.
Keeping(e) ==
    {r \in Requests : pc[r] \in {"debit", "release", "confirm", "conflict"} /\ call[r].event = e}

\* Every unit is for sale, kept or sold.
Account ==
    \A e \in Events :
        /\ remaining[e] >= 0
        /\ phase[e] # "absent" =>
              remaining[e] + Cardinality(Keeping(e)) + Cardinality(Confirmed(e)) = Stock[e]

CInv == TInv /\ Untouched /\ Sent /\ Singly /\ Unraced /\ Solvent /\ Poor /\ Account

\* Requests are made with a key of their user, and none changes its key.
LEMMA NextSent ==
    ASSUME TInv, Sent, [Next]_vars
    PROVE  Sent'
<1>1. CASE UNCHANGED <<pc, call>>
  BY <1>1 DEF Sent
<1>2. ASSUME NEW r \in Requests, NEW u \in Users, NEW e \in Events, NEW k \in Keys,
             Call(r, u, e, k)
      PROVE  Sent'
  BY <1>2 DEF Call, Goto, TInv, TypeOK, Sent
<1>3. ASSUME NEW r \in Requests, Step(r) \/ Crash(r) PROVE Sent'
  BY <1>3, Mine DEF Sent, InFlight
<1> QED
  BY <1>1, <1>2, <1>3 DEF Next, vars, CreateEvent, Tick, TopUp, Spend

\* A careful client sends a key only when no request with it is in flight.
LEMMA NextSingly ==
    ASSUME TInv, Singly, [Next]_vars
    PROVE  Singly'
<1> USE DEF Singly, InFlight
<1>1. CASE UNCHANGED <<pc, call>>
  BY <1>1
<1>2. ASSUME NEW r \in Requests, NEW u \in Users, NEW e \in Events, NEW k \in Keys,
             Call(r, u, e, k)
      PROVE  Singly'
  <2>1. /\ call'[r].key = k
        /\ \A s \in Requests : s # r => call'[s] = call[s] /\ pc'[s] = pc[s]
        /\ k \in Careful => \A s \in Requests : InFlight(s) => call[s].key # k
    BY <1>2 DEF Call, Goto, TInv, TypeOK
  <2> QED
    BY <2>1
<1>3. ASSUME NEW r \in Requests, Step(r) \/ Crash(r) PROVE Singly'
  BY <1>3, Mine
<1> QED
  BY <1>1, <1>2, <1>3 DEF Next, vars, CreateEvent, Tick, TopUp, Spend

\* Only a request with the same key writes the order of a key.
LEMMA NextUnraced ==
    ASSUME TInv, Singly, Unraced, [Next]_vars
    PROVE  Unraced'
<1>1. CASE UNCHANGED <<pc, call, orders>>
  BY <1>1 DEF Unraced, Taken, OrderOf
<1>2. ASSUME NEW r \in Requests, NEW u \in Users, NEW e \in Events, NEW k \in Keys,
             Call(r, u, e, k)
      PROVE  Unraced'
  BY <1>2 DEF Call, Goto, database, TInv, TypeOK, Unraced, Taken, OrderOf
<1>3. ASSUME NEW r \in Requests, Step(r) \/ Crash(r), UNCHANGED orders PROVE Unraced'
  <2>1. \A s \in Requests : s # r =>
           call'[s] = call[s] /\ pc'[s] = pc[s] /\ (Taken(s)' <=> Taken(s))
    BY <1>3, Mine DEF Taken, OrderOf
  <2>2. Taken(r)' <=> Taken(r)
    BY <1>3, Mine DEF Taken, OrderOf
  <2>3. call[r].key \in Careful =>
        /\ pc'[r] \in {"check", "reserve", "poll", "debit", "release", "fail", "confirm"}
              => ~Taken(r)
        /\ pc'[r] # "conflict"
    <3> USE DEF TInv, TypeOK, Unraced, Taken
    <3>1. CASE Find(r) \/ Check(r) \/ Reserve(r)
      BY <3>1 DEF Find, Check, Reserve, Goto, Answer, AnswerWithOrder
    <3>2. CASE Poll(r)
      BY <3>2 DEF Poll, Answer, AnswerWithOrder
    <3>3. CASE Debit(r) \/ Release(r)
      BY <3>3 DEF Debit, Release, Goto
    <3>4. CASE Fail(r) \/ Confirm(r) \/ Conflict(r) \/ Enqueue(r)
      BY <3>4 DEF Fail, Confirm, Conflict, Enqueue, Answer, AnswerWithOrder, Goto
    <3>5. CASE Crash(r)
      BY <3>5 DEF Crash, Answer
    <3> QED
      BY <1>3, <3>1, <3>2, <3>3, <3>4, <3>5 DEF Step
  <2>4. call' = call /\ pc[r] # "idle"
    BY <1>3, Mine DEF InFlight
  <2> QED
    BY <2>1, <2>2, <2>3, <2>4 DEF Unraced
<1>4. ASSUME NEW r \in Requests, Step(r) \/ Crash(r), orders' # orders PROVE Unraced'
  <2>1. /\ pc[r] \in {"fail", "confirm"}
        /\ pc'[r] \in {"answered", "enqueue"}
    <3>1. Fail(r) \/ Confirm(r)
      BY <1>4 DEF Step, Find, Check, Reserve, Poll, Debit, Release, Conflict, Enqueue, Crash,
                  database
    <3> QED
      BY <1>4, <3>1 DEF Fail, Confirm, Answer, Goto, TInv, TypeOK
  <2>2. PICK status \in {"CONFIRMED", "FAILED"} : WriteOrder(r, status)
    BY <1>4, Writer
  <2>3. call' = call /\ \A s \in Requests : s # r => pc'[s] = pc[s]
    BY <1>4, Mine
  <2>4. ASSUME NEW s \in Requests, s # r, InFlight(s), call[s].key \in Careful
        PROVE  OrderOf(s)' = OrderOf(s)
    <3> DEFINE new == [user |-> call[r].user, status |-> status]
    <3>1. orders' = [orders EXCEPT ![<<call[r].event, call[r].key>>] = new]
      BY <2>2 DEF WriteOrder
    <3> HIDE DEF new
    <3>2. <<call[s].event, call[s].key>> # <<call[r].event, call[r].key>>
      BY <2>1, <2>4 DEF Singly, InFlight
    <3>3. <<call[s].event, call[s].key>> \in Events \X Keys
      BY <2>4, Known DEF InFlight
    <3> QED
      BY <2>3, <3>1, <3>2, <3>3 DEF TInv, TypeOK, OrderOf
  <2> QED
    BY <2>1, <2>3, <2>4 DEF Unraced, Taken, InFlight
<1> QED
  BY <1>1, <1>2, <1>3, <1>4 DEF Next, vars, CreateEvent, Tick, TopUp, Spend

-----------------------------------------------------------------------------
\* What is unpaid is finite, and what it costs is a natural number.
LEMMA Bills ==
    ASSUME FiniteSale
    PROVE  /\ IsFiniteSet(Events \X Keys)
           /\ \A x \in Events \X Keys : Costs[x] = Price[x[1]] /\ Costs[x] \in Nat
<1>1. IsFiniteSet(Events \X Keys)
  BY FS_Product DEF FiniteSale, FinitelyMany
<1>2. \A x \in Events \X Keys : Costs[x] = Price[x[1]] /\ Costs[x] \in Nat
  BY EventsAssumption DEF Costs
<1> QED
  BY <1>1, <1>2

LEMMA UnpaidBills ==
    ASSUME FiniteSale, NEW u \in Users
    PROVE  /\ IsFiniteSet(Unpaid(u))
           /\ \A x \in Unpaid(u) : Costs[x] \in Nat
           /\ SumFunctionOnSet(Costs, Unpaid(u)) \in Nat
<1>1. Unpaid(u) \in SUBSET (Events \X Keys)
  BY UsersAssumption DEF Unpaid
<1>2. IsFiniteSet(Unpaid(u))
  BY <1>1, Bills, FS_Subset
<1>3. \A x \in Unpaid(u) : Costs[x] \in Nat
  BY <1>1, Bills
<1> QED
  BY <1>2, <1>3, SumIsNat

\* What a debit does: nothing, or one charge more, which the wallet could pay.
LEMMA Paying ==
    ASSUME TInv, NEW r \in Requests, pc[r] # "idle", Pay(r)
    PROVE  \/ UNCHANGED <<balance, paid>>
           \/ /\ <<call[r].user, call[r].event, call[r].key>> \notin paid
              /\ paid' = paid \cup {<<call[r].user, call[r].event, call[r].key>>}
              /\ balance[call[r].user] >= Price[call[r].event]
              /\ balance'[call[r].user] = balance[call[r].user] - Price[call[r].event]
              /\ \A u \in Users : u # call[r].user => balance'[u] = balance[u]
<1>1. call[r].user \in Users
  BY Known
<1> QED
  BY <1>1 DEF Pay, TInv, TypeOK

\* A charge takes as much from what is owed as from the wallet.
LEMMA PayingSolvent ==
    ASSUME FiniteSale, TInv, Sent, Solvent, NEW r \in Requests, pc[r] # "idle", Pay(r)
    PROVE  Solvent'
<1>1. /\ call[r].user \in Users /\ call[r].event \in Events /\ call[r].key \in Keys
      /\ call[r].key \in KeysOf[call[r].user]
  BY Known DEF Sent
<1>2. CASE UNCHANGED <<balance, paid>>
  BY <1>2 DEF Solvent, Wealthy, Unpaid
<1>3. CASE ~UNCHANGED <<balance, paid>>
  <2>0. PICK who \in Users, x \in Events \X Keys :
           who = call[r].user /\ x = <<call[r].event, call[r].key>>
    BY <1>1
  <2>1. /\ <<who, x[1], x[2]>> \notin paid
        /\ paid' = paid \cup {<<who, x[1], x[2]>>}
        /\ balance'[who] = balance[who] - Price[x[1]]
        /\ \A u \in Users : u # who => balance'[u] = balance[u]
    BY <1>3, <2>0, Paying
  <2>2. x \in Events \X KeysOf[who] /\ x \in Events \X Keys
    BY <1>1, <2>0
  <2>3. x \in Unpaid(who)
    BY <2>1, <2>2 DEF Unpaid
  <2>4. Unpaid(who)' = Unpaid(who) \ {x}
    <3>1. \A y \in Events \X KeysOf[who] :
             <<who, y[1], y[2]>> \in paid' <=> <<who, y[1], y[2]>> \in paid \/ y = x
      BY <2>1, <2>2
    <3> QED
      BY <3>1 DEF Unpaid
  <2>5. \A u \in Users : u # who => Unpaid(u)' = Unpaid(u)
    BY <2>1 DEF Unpaid
  <2>6. Costs[x] = Price[x[1]] /\ Costs[x] \in Nat
    BY <2>2, Bills
  <2> SUFFICES ASSUME NEW u \in Users, Wealthy(u)
               PROVE  balance'[u] >= SumFunctionOnSet(Costs, Unpaid(u)')
    BY DEF Solvent, Wealthy, Costs
  <2>7. balance[u] >= SumFunctionOnSet(Costs, Unpaid(u))
    BY DEF Solvent
  <2>8. CASE u # who
    BY <2>1, <2>5, <2>7, <2>8
  <2>9. CASE u = who
    <3>1. SumFunctionOnSet(Costs, Unpaid(who))
             = Costs[x] + SumFunctionOnSet(Costs, Unpaid(who) \ {x})
      BY <1>1, <2>3, UnpaidBills, SumTakeOut
    <3>2. SumFunctionOnSet(Costs, Unpaid(who) \ {x}) \in Nat
      <4>1. IsFiniteSet(Unpaid(who) \ {x})
        BY <1>1, UnpaidBills, FS_RemoveElement
      <4> QED
        BY <1>1, <4>1, UnpaidBills, SumIsNat
    <3>3. balance[who] \in Int /\ Price[x[1]] \in Nat
      BY <2>6 DEF TInv, TypeOK
    <3> DEFINE rest == SumFunctionOnSet(Costs, Unpaid(who) \ {x})
    <3>4. balance[who] >= Costs[x] + rest
      BY <2>7, <2>9, <3>1
    <3>5. balance'[who] >= rest
      <4> HIDE DEF rest
      <4> QED
        BY <2>1, <2>6, <3>2, <3>3, <3>4 DEF rest
    <3> QED
      BY <2>4, <2>9, <3>5
  <2> QED
    BY <2>8, <2>9
<1> QED
  BY <1>2, <1>3

\* The money of a wealthy user only arrives, or leaves for what was owed.
LEMMA NextSolvent ==
    ASSUME NoFaults, FiniteSale, TInv, Sent, Solvent, [Next]_vars
    PROVE  Solvent'
<1>1. CASE UNCHANGED <<balance, paid>>
  BY <1>1 DEF Solvent, Wealthy, Unpaid
<1>2. ASSUME NEW v \in Users, TopUp(v) \/ Spend(v) PROVE Solvent'
  <2> SUFFICES ASSUME NEW u \in Users, Wealthy(u)
               PROVE  balance'[u] >= SumFunctionOnSet(Costs, Unpaid(u)')
    BY DEF Solvent, Wealthy, Costs
  <2>1. Unpaid(u)' = Unpaid(u)
    BY <1>2 DEF TopUp, Spend, Unpaid
  <2>2. balance[u] >= SumFunctionOnSet(Costs, Unpaid(u))
    BY DEF Solvent
  <2>3. balance'[u] >= balance[u] /\ balance[u] \in Int /\ balance'[u] \in Int
    BY <1>2 DEF Wealthy, TopUp, Spend, TInv, TypeOK
  <2>4. SumFunctionOnSet(Costs, Unpaid(u)) \in Nat
    BY UnpaidBills
  <2> QED
    BY <2>1, <2>2, <2>3, <2>4
<1>3. ASSUME NEW r \in Requests, Debit(r) PROVE Solvent'
  <2>1. pc[r] = "debit" /\ (Pay(r) \/ UNCHANGED <<balance, paid>>)
    BY <1>3 DEF Debit
  <2> QED
    BY <1>1, <2>1, PayingSolvent
<1>4. ASSUME NEW r \in Requests, Step(r), ~Debit(r) PROVE UNCHANGED <<balance, paid>>
  BY <1>4 DEF Step, Find, Check, Reserve, Poll, Release, Fail, Confirm, Conflict, Enqueue,
              database
<1> QED
  BY <1>1, <1>2, <1>3, <1>4 DEF Next, vars, CreateEvent, Tick, Call, Crash, database

\* Of the requests that are refused the debit none can be of a user with money.
LEMMA NextPoor ==
    ASSUME NoFaults, FiniteSale, FundedClients, TInv, Sent, Singly, Solvent, Poor, [Next]_vars
    PROVE  Poor'
<1>1. CASE UNCHANGED <<pc, call, paid>>
  BY <1>1 DEF Poor
<1>2. ASSUME NEW r \in Requests, NEW u \in Users, NEW e \in Events, NEW k \in Keys,
             Call(r, u, e, k)
      PROVE  Poor'
  BY <1>2 DEF Call, Goto, database, TInv, TypeOK, Poor
<1>3. ASSUME NEW r \in Requests, Debit(r) PROVE Poor'
  <2>1. /\ pc[r] = "debit" /\ call' = call
        /\ \/ Pay(r) /\ pc' = [pc EXCEPT ![r] = "confirm"]
           \/ /\ CannotPay(r) /\ pc' = [pc EXCEPT ![r] = "release"]
              /\ UNCHANGED <<balance, paid>>
    BY <1>3 DEF Debit, Goto, NoFaults
  <2>2. /\ call[r].user \in Users /\ call[r].event \in Events /\ call[r].key \in Keys
        /\ call[r].key \in KeysOf[call[r].user]
    BY <2>1, Known DEF Sent
  <2>3. CASE Pay(r) /\ pc' = [pc EXCEPT ![r] = "confirm"]
    <3> SUFFICES ASSUME NEW s \in Requests, pc'[s] \in {"release", "fail"}
                 PROVE  /\ call[s].key \in Careful
                        /\ <<call[s].user, call[s].event, call[s].key>> \notin paid'
      BY <2>1 DEF Poor
    <3>1. s # r /\ pc[s] \in {"release", "fail"}
      BY <2>3 DEF TInv, TypeOK
    <3>2. /\ call[s].key \in Careful
          /\ <<call[s].user, call[s].event, call[s].key>> \notin paid
      BY <3>1 DEF Poor
    <3>3. call[s].key # call[r].key
      BY <2>1, <3>1, <3>2 DEF Singly, InFlight
    <3>4. paid' \subseteq paid \cup {<<call[r].user, call[r].event, call[r].key>>}
      BY <2>1, <2>3, Paying
    <3> QED
      BY <3>2, <3>3, <3>4
  <2>4. CASE CannotPay(r) /\ pc' = [pc EXCEPT ![r] = "release"] /\ UNCHANGED <<balance, paid>>
    <3> DEFINE who == call[r].user
               x == <<call[r].event, call[r].key>>
    <3>1. <<who, x[1], x[2]>> \notin paid /\ balance[who] < Price[x[1]]
      BY <2>4 DEF CannotPay
    <3>2. x \in Unpaid(who) /\ Costs[x] = Price[x[1]] /\ Costs[x] \in Nat
      BY <2>2, <3>1, Bills DEF Unpaid
    <3>3. Costs[x] <= SumFunctionOnSet(Costs, Unpaid(who))
      BY <2>2, <3>2, UnpaidBills, SumIsNat
    <3>4. ~Wealthy(who)
      <4>1. balance[who] \in Int /\ SumFunctionOnSet(Costs, Unpaid(who)) \in Nat
        BY <2>2, UnpaidBills DEF TInv, TypeOK
      <4>2. Wealthy(who) => balance[who] >= SumFunctionOnSet(Costs, Unpaid(who))
        BY <2>2 DEF Solvent
      <4> DEFINE sum == SumFunctionOnSet(Costs, Unpaid(who))
      <4>3. balance[who] < Costs[x] /\ Costs[x] <= sum /\ Costs[x] \in Nat /\ sum \in Nat
        BY <3>1, <3>2, <3>3, <4>1
      <4> HIDE DEF sum, x
      <4> QED
        BY <4>1, <4>2, <4>3 DEF sum
    <3>5. call[r].key \in Careful
      BY <2>2, <3>4 DEF FundedClients
    <3>6. \A s \in Requests : pc'[s] \in {"release", "fail"} =>
             s = r \/ pc[s] \in {"release", "fail"}
      BY <2>4 DEF TInv, TypeOK
    <3> QED
      BY <2>1, <2>4, <3>1, <3>5, <3>6 DEF Poor
  <2> QED
    BY <2>1, <2>3, <2>4
<1>4. ASSUME NEW r \in Requests, Step(r), ~Debit(r) PROVE Poor'
  <2>1. call' = call /\ paid' = paid
    BY <1>4 DEF Step, Find, Check, Reserve, Poll, Release, Fail, Confirm, Conflict, Enqueue,
                database
  <2>2. pc'[r] \in {"release", "fail"} => pc[r] \in {"release", "fail"}
    <3> USE DEF TInv, TypeOK
    <3>1. CASE Find(r) \/ Check(r) \/ Reserve(r) \/ Poll(r)
      BY <3>1 DEF Find, Check, Reserve, Poll, Goto, Answer, AnswerWithOrder
    <3>2. CASE Release(r) \/ Fail(r) \/ Confirm(r) \/ Conflict(r) \/ Enqueue(r)
      BY <3>2 DEF Release, Fail, Confirm, Conflict, Enqueue, Goto, Answer, AnswerWithOrder
    <3> QED
      BY <1>4, <3>1, <3>2 DEF Step
  <2> QED
    BY <1>4, <2>1, <2>2, Mine DEF Poor
<1> QED
  BY <1>1, <1>2, <1>3, <1>4
     DEF Next, vars, CreateEvent, Tick, TopUp, Spend, Crash, NoFaults

LEMMA CountableKeeping ==
    ASSUME FinitelyMany, NEW e
    PROVE  IsFiniteSet(Keeping(e)) /\ Cardinality(Keeping(e)) \in Nat
<1>1. Keeping(e) \in SUBSET Requests
  BY DEF Keeping
<1>2. IsFiniteSet(Keeping(e))
  BY <1>1, FS_Subset DEF FinitelyMany
<1> QED
  BY <1>2, FS_CardinalityType

\* A step that takes no unit, gives none back and sells none.
LEMMA AccountKept ==
    ASSUME TInv, Account, remaining' = remaining, orders' = orders, phase' = phase,
           \A r \in Requests :
              /\ pc'[r] \in {"debit", "release", "confirm", "conflict"}
                    <=> pc[r] \in {"debit", "release", "confirm", "conflict"}
              /\ pc[r] \in {"debit", "release", "confirm", "conflict"}
                    => call'[r] = call[r]
    PROVE  Account'
<1>1. \A e \in Events : Confirmed(e)' = Confirmed(e) /\ Keeping(e)' = Keeping(e)
  BY DEF Confirmed, Keeping
<1> QED
  BY <1>1 DEF Account

\* A new event has all its units for sale, and none kept or sold.
LEMMA CreateAccount ==
    ASSUME FinitelyMany, TInv, Untouched, Account, NEW e \in Events, CreateEvent(e)
    PROVE  Account'
<1> SUFFICES ASSUME NEW d \in Events
             PROVE  /\ phase'[d] # "absent" =>
                          remaining'[d] + Cardinality(Keeping(d)') + Cardinality(Confirmed(d)')
                             = Stock[d]
                    /\ remaining'[d] >= 0
  BY DEF Account
<1> USE DEF TInv, TypeOK, CreateEvent
<1>1. Keeping(d)' = Keeping(d) /\ Confirmed(d)' = Confirmed(d)
  BY DEF Keeping, Confirmed
<1>2. CASE d = e
  <2>1. Confirmed(e) = {}
    BY DEF Untouched, Confirmed, NoOrder
  <2>2. Keeping(e) = {}
    <3> SUFFICES ASSUME NEW r \in Requests, pc[r] \in {"debit", "release", "confirm", "conflict"},
                        call[r].event = e
                 PROVE  FALSE
      BY DEF Keeping
    <3>1. pc[r] = "conflict"
      BY DEF Untouched
    <3>2. Taken(r) /\ call[r].key \in Keys
      BY <3>1, Known DEF Progress
    <3> QED
      BY <3>2 DEF Untouched, Taken, OrderOf
  <2>3. Cardinality(Keeping(d)') = 0 /\ Cardinality(Confirmed(d)') = 0
    BY <1>1, <1>2, <2>1, <2>2, FS_EmptySet
  <2>4. remaining'[d] = Stock[d] /\ Stock[d] \in Nat
    BY <1>2, EventsAssumption
  <2> QED
    BY <2>3, <2>4
<1>3. CASE d # e
  BY <1>1, <1>3 DEF Account
<1> QED
  BY <1>2, <1>3

\* The unit taken is one there was, and from now on it is kept.
LEMMA ReserveAccount ==
    ASSUME FinitelyMany, TInv, Account, NEW r \in Requests, Reserve(r)
    PROVE  Account'
<1>1. /\ pc[r] = "reserve" /\ call[r].event \in Events
      /\ UNCHANGED <<phase, orders, call>>
  BY Known DEF Reserve
<1>2. CASE remaining' = remaining
  <2>1. pc' = [pc EXCEPT ![r] = "poll"]
    BY <1>1, <1>2 DEF Reserve, Goto, TInv, TypeOK
  <2> QED
    BY <1>1, <1>2, <2>1, AccountKept DEF TInv, TypeOK
<1>3. CASE remaining' # remaining
  <2>1. PICK c \in Events :
           /\ c = call[r].event
           /\ remaining[c] > 0
           /\ remaining' = [remaining EXCEPT ![c] = @ - 1]
    BY <1>1, <1>3 DEF Reserve, UnitLeft
  <2>2. pc' = [pc EXCEPT ![r] = "debit"]
    BY <1>3 DEF Reserve, Goto
  <2> SUFFICES ASSUME NEW d \in Events
               PROVE  /\ phase[d] # "absent" =>
                            remaining'[d] + Cardinality(Keeping(d)') + Cardinality(Confirmed(d)')
                               = Stock[d]
                      /\ remaining'[d] >= 0
    BY <1>1 DEF Account
  <2>3. Confirmed(d)' = Confirmed(d)
    BY <1>1 DEF Confirmed
  <2>4. remaining[d] \in Int /\ remaining[d] >= 0
    BY DEF TInv, TypeOK, Account
  <2>5. CASE d = c
    <3>1. Keeping(d)' = Keeping(d) \cup {r} /\ r \notin Keeping(d)
      BY <1>1, <2>1, <2>2, <2>5 DEF Keeping, TInv, TypeOK
    <3>2. Cardinality(Keeping(d)') = Cardinality(Keeping(d)) + 1
      BY <3>1, CountableKeeping, FS_AddElement
    <3>3. remaining'[d] = remaining[d] - 1
      BY <2>1, <2>5 DEF TInv, TypeOK
    <3> QED
      BY <2>1, <2>3, <2>4, <2>5, <3>2, <3>3, CountableKeeping, Countable DEF Account
  <2>6. CASE d # c
    <3>1. Keeping(d)' = Keeping(d) /\ remaining'[d] = remaining[d]
      BY <1>1, <2>1, <2>2, <2>6 DEF Keeping, TInv, TypeOK
    <3> QED
      BY <2>3, <3>1 DEF Account
  <2> QED
    BY <2>5, <2>6
<1> QED
  BY <1>2, <1>3

\* The unit given back, after a refused debit or a lost race, is one that was
\* kept.
LEMMA GiveBackAccount ==
    ASSUME FinitelyMany, TInv, Account, NEW r \in Requests, Release(r) \/ Conflict(r)
    PROVE  Account'
<1>1. /\ pc[r] \in {"release", "conflict"} /\ call[r].event \in Events
      /\ UNCHANGED <<phase, orders, call>>
  BY Known DEF Release, Conflict
<1>2. PICK step \in {"fail", "answered"} : pc' = [pc EXCEPT ![r] = step]
  BY DEF Release, Conflict, Goto, Answer, AnswerWithOrder
<1>3. PICK c \in Events : c = call[r].event /\ remaining' = [remaining EXCEPT ![c] = @ + 1]
  BY <1>1 DEF Release, Conflict, ReleaseUnit
<1> SUFFICES ASSUME NEW d \in Events
             PROVE  /\ phase[d] # "absent" =>
                          remaining'[d] + Cardinality(Keeping(d)') + Cardinality(Confirmed(d)')
                             = Stock[d]
                    /\ remaining'[d] >= 0
  BY <1>1 DEF Account
<1>4. Confirmed(d)' = Confirmed(d)
  BY <1>1 DEF Confirmed
<1>5. remaining[d] \in Int /\ remaining[d] >= 0
  BY DEF TInv, TypeOK, Account
<1>6. CASE d = c
  <2>1. Keeping(d)' = Keeping(d) \ {r} /\ r \in Keeping(d)
    BY <1>1, <1>2, <1>3, <1>6 DEF Keeping, TInv, TypeOK
  <2>2. Cardinality(Keeping(d)') = Cardinality(Keeping(d)) - 1
    BY <2>1, CountableKeeping, FS_RemoveElement
  <2>3. remaining'[d] = remaining[d] + 1
    BY <1>3, <1>6 DEF TInv, TypeOK
  <2> QED
    BY <1>4, <1>5, <2>2, <2>3, CountableKeeping, Countable DEF Account
<1>7. CASE d # c
  <2>1. Keeping(d)' = Keeping(d) /\ remaining'[d] = remaining[d]
    BY <1>1, <1>2, <1>3, <1>7 DEF Keeping, TInv, TypeOK
  <2> QED
    BY <1>4, <2>1 DEF Account
<1> QED
  BY <1>6, <1>7

\* A debit is refused only to a request that is alone with its key: its FAILED
\* order is written, and sells no unit.
LEMMA FailAccount ==
    ASSUME FinitelyMany, TInv, Unraced, Poor, Account, NEW r \in Requests, Fail(r)
    PROVE  Account'
<1>1. pc[r] = "fail" /\ UNCHANGED <<phase, remaining, call>>
  BY DEF Fail
<1>2. ~Taken(r)
  BY <1>1 DEF Poor, Unraced
<1>3. pc' = [pc EXCEPT ![r] = "answered"] /\ WriteOrder(r, "FAILED")
  BY <1>2 DEF Fail, Answer
<1>4. \A d \in Events : Confirmed(d)' = Confirmed(d)
  BY <1>1, <1>2, <1>3, Sold
<1>5. \A d \in Events : Keeping(d)' = Keeping(d)
  BY <1>1, <1>3 DEF Keeping, TInv, TypeOK
<1> QED
  BY <1>1, <1>4, <1>5 DEF Account

\* The unit sold is the one that was kept; who loses the race keeps it on.
LEMMA ConfirmAccount ==
    ASSUME FinitelyMany, TInv, Account, NEW r \in Requests, Confirm(r)
    PROVE  Account'
<1>1. /\ pc[r] = "confirm" /\ UNCHANGED <<phase, remaining, call>>
      /\ call[r].key \in Keys
  BY Known DEF Confirm
<1>2. CASE Taken(r)
  <2>1. pc' = [pc EXCEPT ![r] = "conflict"] /\ orders' = orders
    BY <1>2 DEF Confirm, Goto
  <2> QED
    BY <1>1, <2>1, AccountKept DEF TInv, TypeOK
<1>3. CASE ~Taken(r)
  <2>1. pc' = [pc EXCEPT ![r] = "enqueue"] /\ WriteOrder(r, "CONFIRMED")
    BY <1>3 DEF Confirm, Goto
  <2> SUFFICES ASSUME NEW d \in Events
               PROVE  /\ phase[d] # "absent" =>
                            remaining[d] + Cardinality(Keeping(d)') + Cardinality(Confirmed(d)')
                               = Stock[d]
                      /\ remaining[d] >= 0
    BY <1>1 DEF Account
  <2>2. remaining[d] \in Int /\ remaining[d] >= 0
    BY DEF TInv, TypeOK, Account
  <2>3. CASE d = call[r].event
    <3>1. Keeping(d)' = Keeping(d) \ {r} /\ r \in Keeping(d)
      BY <1>1, <2>1, <2>3 DEF Keeping, TInv, TypeOK
    <3>2. Cardinality(Keeping(d)') = Cardinality(Keeping(d)) - 1
      BY <3>1, CountableKeeping, FS_RemoveElement
    <3>3. Confirmed(d)' = Confirmed(d) \cup {call[r].key}
      BY <1>1, <1>3, <2>1, <2>3, Sold
    <3>4. call[r].key \notin Confirmed(d)
      BY <1>3, <2>3 DEF Confirmed, Taken, OrderOf, NoOrder
    <3>5. Cardinality(Confirmed(d)') = Cardinality(Confirmed(d)) + 1
      BY <3>3, <3>4, Countable, FS_AddElement
    <3> QED
      BY <2>2, <3>2, <3>5, CountableKeeping, Countable DEF Account
  <2>4. CASE d # call[r].event
    <3>1. Keeping(d)' = Keeping(d)
      BY <1>1, <2>1, <2>4 DEF Keeping, TInv, TypeOK
    <3>2. Confirmed(d)' = Confirmed(d)
      BY <1>1, <1>3, <2>1, <2>4, Sold
    <3> QED
      BY <3>1, <3>2 DEF Account
  <2> QED
    BY <2>3, <2>4
<1> QED
  BY <1>2, <1>3

\* Every step keeps the account of the units.
LEMMA NextAccount ==
    ASSUME NoFaults, FinitelyMany, TInv, Untouched, Unraced, Poor, Account, [Next]_vars
    PROVE  Account'
<1>1. CASE UNCHANGED vars
  BY <1>1, AccountKept DEF vars
<1>2. ASSUME NEW e \in Events, CreateEvent(e) \/ Tick(e) PROVE Account'
  <2>1. CASE CreateEvent(e)
    BY <2>1, CreateAccount
  <2>2. CASE Tick(e)
    <3>1. \A d \in Events : phase'[d] # "absent" => phase[d] # "absent"
      BY <2>2 DEF Tick, TInv, TypeOK
    <3>2. \A d \in Events : /\ Keeping(d)' = Keeping(d)
                            /\ Confirmed(d)' = Confirmed(d)
                            /\ remaining'[d] = remaining[d]
      BY <2>2 DEF Tick, Keeping, Confirmed
    <3> QED
      BY <3>1, <3>2 DEF Account
  <2> QED
    BY <1>2, <2>1, <2>2
<1>3. ASSUME NEW u \in Users, TopUp(u) \/ Spend(u) PROVE Account'
  BY <1>3, AccountKept DEF TopUp, Spend
<1>4. ASSUME NEW r \in Requests, NEW u \in Users, NEW e \in Events, NEW k \in Keys,
             Call(r, u, e, k)
      PROVE  Account'
  <2>1. UNCHANGED <<remaining, orders, phase>>
    BY <1>4 DEF Call, database
  <2>2. \A s \in Requests :
           /\ pc'[s] \in {"debit", "release", "confirm", "conflict"}
                 <=> pc[s] \in {"debit", "release", "confirm", "conflict"}
           /\ pc[s] \in {"debit", "release", "confirm", "conflict"} => call'[s] = call[s]
    BY <1>4 DEF Call, Goto, TInv, TypeOK
  <2> QED
    BY <2>1, <2>2, AccountKept
<1>5. ASSUME NEW r \in Requests, Step(r) PROVE Account'
  <2>1. CASE Find(r) \/ Check(r) \/ Poll(r)
    BY <2>1, AccountKept DEF Find, Check, Poll, Goto, Answer, AnswerWithOrder, database, TInv, TypeOK
  <2>2. CASE Debit(r) \/ Enqueue(r)
    BY <2>2, AccountKept DEF Debit, Enqueue, Goto, Answer, AnswerWithOrder, TInv, TypeOK
  <2> QED
    BY <1>5, <2>1, <2>2, ReserveAccount, GiveBackAccount, FailAccount, ConfirmAccount DEF Step
<1> QED
  BY <1>1, <1>2, <1>3, <1>4, <1>5 DEF Next, Crash, NoFaults

\* What has not been paid at the start is everything.
LEMMA InitSolvent ==
    ASSUME Init
    PROVE  Solvent
<1>1. \A u \in Users : Unpaid(u) = Events \X KeysOf[u] /\ balance[u] = Opening[u]
  BY DEF Init, Unpaid
<1> QED
  BY <1>1 DEF Solvent, Wealthy

\* The account of the units, and what it rests on, is always right.
LEMMA CleanSale ==
    ASSUME NoFaults, FundedClients, FiniteSale
    PROVE  Spec => []CInv
<1>1. Init => CInv
  <2> SUFFICES ASSUME Init PROVE CInv
    OBVIOUS
  <2>1. Untouched /\ Sent /\ Singly /\ Unraced /\ Poor
    BY DEF Init, InFlight, Untouched, Sent, Singly, Unraced, Poor
  <2>2. Account
    BY DEF Init, Account
  <2> QED
    BY <2>1, <2>2, InitTInv, InitSolvent DEF CInv
<1>2. CInv /\ [Next]_vars => CInv'
  <2> SUFFICES ASSUME CInv, [Next]_vars PROVE CInv'
    OBVIOUS
  <2>1. /\ TInv /\ Untouched /\ Sent /\ Singly /\ Unraced /\ Solvent /\ Poor /\ Account
        /\ FinitelyMany
    BY DEF CInv, FiniteSale
  <2>2. TInv' /\ Untouched' /\ Sent' /\ Singly' /\ Unraced'
    BY <2>1, NextTInv, NextUntouched, NextSent, NextSingly, NextUnraced
  <2>3. Solvent' /\ Poor'
    BY <2>1, NextSolvent, NextPoor
  <2>4. Account'
    BY <2>1, NextAccount
  <2> QED
    BY <2>2, <2>3, <2>4 DEF CInv
<1> QED
  BY <1>1, <1>2, PTL DEF Spec

\* While nothing fails, and whoever sends a key twice at once can pay for it,
\* every unit is for sale or sold once nothing is in flight: the compensations
\* of refused debits and of lost races give back exactly what was taken.
THEOREM UnitsSettled ==
    ASSUME NoFaults, FundedClients, FiniteSale
    PROVE  Spec => []StockSettled
<1>1. CInv => StockSettled
  <2> SUFFICES ASSUME CInv, \A r \in Requests : ~InFlight(r),
                      NEW e \in Events, phase[e] # "absent"
               PROVE  remaining[e] + Cardinality(Confirmed(e)) = Stock[e]
    BY DEF StockSettled
  <2>1. Keeping(e) = {}
    BY DEF Keeping, InFlight
  <2>2. Cardinality(Keeping(e)) = 0
    BY <2>1, FS_EmptySet
  <2>3. remaining[e] \in Int /\ FinitelyMany
    BY DEF CInv, TInv, TypeOK, FiniteSale
  <2> QED
    BY <2>2, <2>3, Countable DEF CInv, Account
<1> QED
  BY <1>1, CleanSale, PTL

\* Nor are then more orders confirmed than there were units, although duplicates
\* overlap.
THEOREM DuplicatesDoNotOversell ==
    ASSUME NoFaults, FundedClients, FiniteSale
    PROVE  Spec => []NoOversell
<1>1. CInv => NoOversell
  <2> SUFFICES ASSUME CInv, NEW e \in Events
               PROVE  Cardinality(Confirmed(e)) <= Stock[e]
    BY DEF NoOversell
  <2>1. /\ remaining[e] \in Int /\ remaining[e] >= 0 /\ Stock[e] \in Nat /\ FinitelyMany
    BY EventsAssumption DEF CInv, TInv, TypeOK, Account, FiniteSale
  <2>2. CASE phase[e] = "absent"
    <3>1. Confirmed(e) = {}
      BY <2>2 DEF CInv, Untouched, Confirmed, NoOrder
    <3> QED
      BY <2>1, <3>1, FS_EmptySet
  <2>3. CASE phase[e] # "absent"
    <3>1. remaining[e] + Cardinality(Keeping(e)) + Cardinality(Confirmed(e)) = Stock[e]
      BY <2>3 DEF CInv, Account
    <3> QED
      BY <2>1, <3>1, Countable, CountableKeeping
  <2> QED
    BY <2>2, <2>3
<1> QED
  BY <1>1, CleanSale, PTL

-----------------------------------------------------------------------------
(* Charges, orders and the shop, when moreover no two clients share a key. *)

OwnKeys == \A u, v \in Users : u # v => KeysOf[u] \cap KeysOf[v] = {}

\* A user is charged for a key of the user's client.
OwnCharges ==
    \A u \in Users, e \in Events, k \in Keys : <<u, e, k>> \in paid => k \in KeysOf[u]

\* Only a request with a careful key fails.
FailuresAreCareful ==
    \A e \in Events, k \in Keys : orders[<<e, k>>].status = "FAILED" => k \in Careful

NoDebt == \A u \in Users : balance[u] >= 0

RInv ==
    /\ CInv /\ PInv
    /\ OwnCharges
    /\ FailuresAreCareful
    /\ NoDebt
    /\ NoChargeWithoutStock

\* Charges are made for the keys of requests.
LEMMA NextOwnCharges ==
    ASSUME NoFaults, TInv, Sent, OwnCharges, [Next]_vars
    PROVE  OwnCharges'
<1>1. CASE paid' = paid
  BY <1>1 DEF OwnCharges
<1>2. ASSUME NEW r \in Requests, Step(r), paid' # paid PROVE OwnCharges'
  <2>1. pc[r] = "debit" /\ Pay(r)
    BY <1>2 DEF Step, Find, Check, Reserve, Poll, Debit, Release, Fail, Confirm, Conflict,
                Enqueue, database
  <2>2. paid' = paid \cup {<<call[r].user, call[r].event, call[r].key>>}
    BY <1>2, <2>1, Paying
  <2>3. call[r].key \in KeysOf[call[r].user]
    BY <2>1 DEF Sent
  <2> QED
    BY <2>2, <2>3 DEF OwnCharges
<1> QED
  BY <1>1, <1>2 DEF Next, vars, CreateEvent, Tick, TopUp, Spend, Call, Crash, database, NoFaults

\* An order is FAILED only by a request that was refused the debit.
LEMMA NextFailuresAreCareful ==
    ASSUME TInv, Poor, FailuresAreCareful, [Next]_vars
    PROVE  FailuresAreCareful'
<1>1. CASE orders' = orders
  BY <1>1 DEF FailuresAreCareful
<1>2. ASSUME NEW r \in Requests, Step(r) \/ Crash(r), orders' # orders
      PROVE  FailuresAreCareful'
  <2>1. PICK status \in {"CONFIRMED", "FAILED"} :
           /\ WriteOrder(r, status)
           /\ status = "FAILED" => call[r].key \in Careful
    BY <1>2, Writer DEF Poor
  <2> DEFINE new == [user |-> call[r].user, status |-> status]
  <2>2. orders' = [orders EXCEPT ![<<call[r].event, call[r].key>>] = new]
    BY <2>1 DEF WriteOrder
  <2>3. new.status = status
    OBVIOUS
  <2> HIDE DEF new
  <2> SUFFICES ASSUME NEW e \in Events, NEW k \in Keys, orders'[<<e, k>>].status = "FAILED"
               PROVE  k \in Careful
    BY DEF FailuresAreCareful
  <2>4. <<e, k>> \in Events \X Keys
    OBVIOUS
  <2>5. \/ orders'[<<e, k>>] = orders[<<e, k>>]
        \/ orders'[<<e, k>>] = new /\ <<e, k>> = <<call[r].event, call[r].key>>
    BY <2>2, <2>4 DEF TInv, TypeOK
  <2>6. CASE orders'[<<e, k>>] = orders[<<e, k>>]
    BY <2>6 DEF FailuresAreCareful
  <2>7. CASE orders'[<<e, k>>] = new /\ <<e, k>> = <<call[r].event, call[r].key>>
    BY <2>1, <2>3, <2>7
  <2> QED
    BY <2>5, <2>6, <2>7
<1> QED
  BY <1>1, <1>2 DEF Next, vars, CreateEvent, Tick, TopUp, Spend, Call, database

\* The wallet refuses what would bring it below zero.
LEMMA NextNoDebt ==
    ASSUME NoFaults, TInv, NoDebt, [Next]_vars
    PROVE  NoDebt'
<1>1. CASE balance' = balance
  BY <1>1 DEF NoDebt
<1>2. ASSUME NEW u \in Users, TopUp(u) \/ Spend(u) PROVE NoDebt'
  BY <1>2 DEF TopUp, Spend, NoDebt, TInv, TypeOK
<1>3. ASSUME NEW r \in Requests, Step(r), balance' # balance PROVE NoDebt'
  <2>1. pc[r] = "debit" /\ Pay(r)
    BY <1>3 DEF Step, Find, Check, Reserve, Poll, Debit, Release, Fail, Confirm, Conflict,
                Enqueue, database
  <2>2. PICK who \in Users, e \in Events : who = call[r].user /\ e = call[r].event
    BY <2>1, Known
  <2>3. /\ balance[who] >= Price[e]
        /\ balance'[who] = balance[who] - Price[e]
        /\ \A u \in Users : u # who => balance'[u] = balance[u]
    BY <1>3, <2>1, <2>2, Paying
  <2>4. balance[who] \in Int /\ Price[e] \in Nat
    BY EventsAssumption DEF TInv, TypeOK
  <2> QED
    BY <2>3, <2>4 DEF NoDebt
<1> QED
  BY <1>1, <1>2, <1>3 DEF Next, vars, CreateEvent, Tick, Call, Crash, database, NoFaults

\* A charge that is new finds no order: whoever wrote one with this key was the
\* same user, who had paid.
LEMMA NewCharge ==
    ASSUME OwnKeys, RInv, NEW r \in Requests, pc[r] = "debit",
           <<call[r].user, call[r].event, call[r].key>> \notin paid
    PROVE  OrderOf(r) = NoOrder
<1>1. PICK u \in Users, e \in Events, k \in Keys :
         u = call[r].user /\ e = call[r].event /\ k = call[r].key
  BY Known DEF RInv, CInv
<1>2. k \in KeysOf[u]
  BY <1>1 DEF RInv, CInv, Sent
<1> SUFFICES ASSUME Taken(r) PROVE FALSE
  BY DEF Taken
<1>3. k \notin Careful
  BY <1>1 DEF RInv, CInv, Unraced
<1>4. orders[<<e, k>>] \in Orders /\ OrderOf(r) = orders[<<e, k>>]
  BY <1>1, Known DEF Taken, OrderOf, RInv, CInv
<1>5. orders[<<e, k>>].status # "FAILED"
  BY <1>3 DEF RInv, FailuresAreCareful
<1>6. PICK v \in Users : v = orders[<<e, k>>].user /\ orders[<<e, k>>].status = "CONFIRMED"
  BY <1>4, <1>5 DEF Orders
<1>7. <<v, e, k>> \in paid
  BY <1>6 DEF RInv, PInv, ConfirmedIsPaid, Confirmed
<1>8. v = u
  BY <1>2, <1>7 DEF OwnKeys, RInv, OwnCharges
<1> QED
  BY <1>1, <1>7, <1>8

\* For a key that failed nobody was charged.
LEMMA FailUnpaid ==
    ASSUME OwnKeys, RInv, NEW r \in Requests, pc[r] = "fail", NEW v \in Users
    PROVE  <<v, call[r].event, call[r].key>> \notin paid
<1>1. PICK u \in Users, e \in Events, k \in Keys :
         u = call[r].user /\ e = call[r].event /\ k = call[r].key
  BY Known DEF RInv, CInv
<1>2. k \in KeysOf[u]
  BY <1>1 DEF RInv, CInv, Sent
<1>3. <<u, e, k>> \notin paid
  BY <1>1 DEF RInv, CInv, Poor
<1> QED
  BY <1>1, <1>2, <1>3 DEF OwnKeys, RInv, OwnCharges

\* A charge has its order, or a request on its way to write it.
Served(u, e, k) ==
    \/ orders[<<e, k>>] = [user |-> u, status |-> "CONFIRMED"]
    \/ /\ orders[<<e, k>>] = NoOrder
       /\ \E r \in Requests :
             pc[r] = "confirm" /\ call[r] = [user |-> u, event |-> e, key |-> k]

LEMMA ChargesServed ==
    /\ NoChargeWithoutStock <=>
          \A u \in Users, e \in Events, k \in Keys : <<u, e, k>> \in paid => Served(u, e, k)
    /\ NoChargeWithoutStock' <=>
          \A u \in Users, e \in Events, k \in Keys :
             <<u, e, k>> \in paid' => Served(u, e, k)'
BY DEF NoChargeWithoutStock, Served

\* A step that charges nobody, writes no order and keeps those who are about to.
LEMMA ChargesKept ==
    ASSUME NoChargeWithoutStock, paid' = paid, orders' = orders,
           \A r \in Requests : pc[r] = "confirm" /\ OrderOf(r) = NoOrder =>
              pc'[r] = "confirm" /\ call'[r] = call[r]
    PROVE  NoChargeWithoutStock'
<1> SUFFICES ASSUME NEW u \in Users, NEW e \in Events, NEW k \in Keys, <<u, e, k>> \in paid'
             PROVE  Served(u, e, k)'
  BY ChargesServed
<1>1. Served(u, e, k)
  BY ChargesServed
<1>2. CASE orders[<<e, k>>] = [user |-> u, status |-> "CONFIRMED"]
  BY <1>2 DEF Served
<1>3. CASE /\ orders[<<e, k>>] = NoOrder
           /\ \E r \in Requests :
                 pc[r] = "confirm" /\ call[r] = [user |-> u, event |-> e, key |-> k]
  <2>1. PICK r \in Requests :
           pc[r] = "confirm" /\ call[r] = [user |-> u, event |-> e, key |-> k]
    BY <1>3
  <2>2. OrderOf(r) = NoOrder
    BY <1>3, <2>1 DEF OrderOf
  <2> QED
    BY <1>3, <2>1, <2>2 DEF Served
<1> QED
  BY <1>1, <1>2, <1>3 DEF Served

\* A charge is made on the way to its order.
LEMMA DebitCharges ==
    ASSUME NoFaults, OwnKeys, RInv, NEW r \in Requests, Debit(r)
    PROVE  NoChargeWithoutStock'
<1>1. /\ pc[r] = "debit" /\ UNCHANGED <<call, orders>>
      /\ \A s \in Requests : s # r => pc'[s] = pc[s]
  BY DEF Debit, Goto, RInv, CInv, TInv, TypeOK
<1>2. CASE paid' = paid
  BY <1>1, <1>2, ChargesKept DEF RInv
<1>3. CASE paid' # paid
  <2>1. Pay(r) /\ pc'[r] = "confirm"
    BY <1>3 DEF Debit, Goto, NoFaults, RInv, CInv, TInv, TypeOK
  <2>2. /\ <<call[r].user, call[r].event, call[r].key>> \notin paid
        /\ paid' = paid \cup {<<call[r].user, call[r].event, call[r].key>>}
    BY <1>1, <1>3, <2>1, Paying DEF RInv, CInv
  <2>3. call[r] \in Calls /\ OrderOf(r) = NoOrder
    BY <1>1, <2>2, Known, NewCharge DEF RInv, CInv
  <2> SUFFICES ASSUME NEW u \in Users, NEW e \in Events, NEW k \in Keys, <<u, e, k>> \in paid'
               PROVE  Served(u, e, k)'
    BY ChargesServed
  <2>4. CASE <<u, e, k>> \in paid
    <3>1. Served(u, e, k)
      BY <2>4, ChargesServed DEF RInv
    <3>2. ASSUME NEW s \in Requests, pc[s] = "confirm" PROVE pc'[s] = "confirm"
      BY <1>1, <3>2
    <3> QED
      BY <1>1, <3>1, <3>2 DEF Served
  <2>5. CASE <<u, e, k>> = <<call[r].user, call[r].event, call[r].key>>
    <3>1. call[r] = [user |-> u, event |-> e, key |-> k]
      BY <2>3, <2>5 DEF Calls
    <3> QED
      BY <1>1, <2>1, <2>3, <2>5, <3>1 DEF OrderOf, Served
  <2> QED
    BY <2>2, <2>4, <2>5
<1> QED
  BY <1>2, <1>3

\* The order that is written is the charged user's, or a failure that was not
\* charged.
LEMMA OrderCharges ==
    ASSUME OwnKeys, RInv, NEW r \in Requests, Step(r), orders' # orders
    PROVE  NoChargeWithoutStock'
<1>1. /\ ~Taken(r)
      /\ \/ pc[r] = "fail" /\ WriteOrder(r, "FAILED")
         \/ pc[r] = "confirm" /\ WriteOrder(r, "CONFIRMED")
      /\ paid' = paid
  BY Writer DEF RInv, CInv
<1>2. call' = call /\ \A s \in Requests : s # r => pc'[s] = pc[s]
  BY Mine DEF RInv, CInv
<1>3. PICK who \in Users, d \in Events, j \in Keys :
         who = call[r].user /\ d = call[r].event /\ j = call[r].key
  BY <1>1, Known DEF RInv, CInv
<1>4. PICK status \in {"CONFIRMED", "FAILED"} :
         /\ WriteOrder(r, status)
         /\ status = "CONFIRMED" => pc[r] = "confirm"
         /\ status = "FAILED" => pc[r] = "fail"
  BY <1>1
<1>5. PICK new : new = [user |-> who, status |-> status]
  OBVIOUS
<1>6. orders' = [orders EXCEPT ![<<d, j>>] = new]
  BY <1>3, <1>4, <1>5 DEF WriteOrder
<1> SUFFICES ASSUME NEW u \in Users, NEW e \in Events, NEW k \in Keys, <<u, e, k>> \in paid'
             PROVE  Served(u, e, k)'
  BY ChargesServed
<1>7. <<e, k>> \in Events \X Keys /\ <<u, e, k>> \in paid /\ Served(u, e, k)
  BY <1>1, ChargesServed DEF RInv
<1>8. CASE e = d /\ k = j
  <2>1. pc[r] # "fail"
    BY <1>3, <1>7, <1>8, FailUnpaid
  <2>2. status = "CONFIRMED"
    BY <1>4, <2>1
  <2>3. orders'[<<e, k>>] = new
    BY <1>6, <1>7, <1>8 DEF RInv, CInv, TInv, TypeOK
  <2>4. k \in KeysOf[u] /\ k \in KeysOf[who]
    BY <1>1, <1>3, <1>7, <1>8 DEF RInv, CInv, OwnCharges, Sent
  <2>5. u = who
    BY <2>4 DEF OwnKeys
  <2> QED
    BY <1>5, <2>2, <2>3, <2>5 DEF Served
<1>9. CASE ~(e = d /\ k = j)
  <2>1. orders'[<<e, k>>] = orders[<<e, k>>]
    BY <1>6, <1>7, <1>9 DEF RInv, CInv, TInv, TypeOK
  <2>2. ASSUME NEW s \in Requests, pc[s] = "confirm",
               call[s] = [user |-> u, event |-> e, key |-> k]
        PROVE  pc'[s] = "confirm" /\ call'[s] = [user |-> u, event |-> e, key |-> k]
    <3>1. s # r
      BY <1>3, <1>9, <2>2
    <3> QED
      BY <1>2, <2>2, <3>1
  <2> QED
    BY <1>7, <2>1, <2>2 DEF Served
<1> QED
  BY <1>8, <1>9

LEMMA NextCharges ==
    ASSUME NoFaults, OwnKeys, RInv, [Next]_vars
    PROVE  NoChargeWithoutStock'
<1> USE DEF RInv, CInv
<1>1. CASE UNCHANGED <<paid, orders, pc, call>>
  BY <1>1, ChargesKept
<1>2. ASSUME NEW r \in Requests, NEW u \in Users, NEW e \in Events, NEW k \in Keys,
             Call(r, u, e, k)
      PROVE  NoChargeWithoutStock'
  BY <1>2, ChargesKept DEF Call, Goto, database, TInv, TypeOK
<1>3. ASSUME NEW r \in Requests, Step(r), ~Debit(r), orders' = orders
      PROVE  NoChargeWithoutStock'
  <2>1. paid' = paid
    BY <1>3 DEF Step, Find, Check, Reserve, Poll, Release, Fail, Confirm, Conflict, Enqueue,
                database
  <2>2. ~(pc[r] = "confirm" /\ OrderOf(r) = NoOrder)
    <3> SUFFICES ASSUME pc[r] = "confirm", ~Taken(r) PROVE FALSE
      BY DEF Taken
    <3>1. Confirm(r)
      BY <1>3 DEF Step, Find, Check, Reserve, Poll, Release, Fail, Conflict, Enqueue
    <3>2. WriteOrder(r, "CONFIRMED") /\ call' = call
      BY <3>1 DEF Confirm
    <3> QED
      BY <1>3, <3>2, Written DEF Taken, OrderOf
  <2>3. \A s \in Requests : s # r => pc'[s] = pc[s] /\ call'[s] = call[s]
    BY <1>3, Mine
  <2> QED
    BY <1>3, <2>1, <2>2, <2>3, ChargesKept
<1>4. ASSUME NEW r \in Requests, Step(r) PROVE NoChargeWithoutStock'
  BY <1>3, <1>4, DebitCharges, OrderCharges
<1> QED
  BY <1>1, <1>2, <1>4 DEF Next, vars, CreateEvent, Tick, TopUp, Spend, Crash, NoFaults

\* The charges, the orders and what they rest on are always right.
LEMMA CleanCharges ==
    ASSUME NoFaults, FundedClients, FiniteSale, OwnKeys
    PROVE  Spec => []RInv
<1>1. Init => RInv
  <2> SUFFICES ASSUME Init PROVE RInv
    OBVIOUS
  <2>1. OwnCharges /\ FailuresAreCareful /\ NoChargeWithoutStock
    BY DEF Init, OwnCharges, FailuresAreCareful, NoChargeWithoutStock, NoOrder
  <2>2. NoDebt
    BY UsersAssumption, RequestsAssumption DEF Init, NoDebt
  <2>3. PaidFirst
    BY DEF Init, PaidFirst
  <2>4. ConfirmedIsPaid
    BY DEF Init, ConfirmedIsPaid, Confirmed, NoOrder
  <2>5. Untouched /\ Sent /\ Singly /\ Unraced /\ Poor
    BY DEF Init, InFlight, Untouched, Sent, Singly, Unraced, Poor
  <2>6. Account
    BY DEF Init, Account
  <2> QED
    BY <2>1, <2>2, <2>3, <2>4, <2>5, <2>6, InitTInv, InitSolvent DEF RInv, CInv, PInv
<1>2. CInv /\ CInv' /\ RInv /\ [Next]_vars => RInv'
  <2> SUFFICES ASSUME CInv', RInv, [Next]_vars PROVE RInv'
    OBVIOUS
  <2>1. TInv /\ Sent /\ Poor /\ PaidFirst /\ PInv
    BY DEF RInv, CInv, PInv
  <2>2. PInv'
    BY <2>1, NextTInv, NextPaidFirst, NextConfirmedIsPaid DEF PInv
  <2>3. OwnCharges' /\ FailuresAreCareful' /\ NoDebt'
    BY <2>1, NextOwnCharges, NextFailuresAreCareful, NextNoDebt DEF RInv
  <2> QED
    BY <2>2, <2>3, NextCharges DEF RInv
<1> QED
  BY <1>1, <1>2, CleanSale, PTL DEF Spec

\* While nothing fails, clients share no keys, and whoever sends a key twice at
\* once can pay for it, every charge has its confirmed order, or a request on its
\* way to write it.
THEOREM ChargedIsServed ==
    ASSUME NoFaults, FundedClients, FiniteSale, OwnKeys
    PROVE  Spec => []NoChargeWithoutStock
<1>1. RInv => NoChargeWithoutStock
  BY DEF RInv
<1> QED
  BY <1>1, CleanCharges, PTL

-----------------------------------------------------------------------------
(* The shop: its money is what the wallets hold and what is charged for      *)
(* orders not yet written, its sales are the confirmed orders.               *)

\* The charges of u whose order is not written yet.
Due(u) == {x \in Events \X Keys : <<u, x[1], x[2]>> \in paid /\ orders[x] = NoOrder}

FundsOf(u) == balance[u] + SumFunctionOnSet(Costs, Due(u))

LEMMA FundsAre == RInv => ShopFunds = [u \in Users |-> FundsOf(u)]
<1> SUFFICES ASSUME RInv, NEW u \in Users
             PROVE  {x \in Events \X Keys : UnderWay(u, x[1], x[2])} = Due(u)
  BY DEF ShopFunds, FundsOf, Costs
<1> SUFFICES ASSUME NEW e \in Events, NEW k \in Keys
             PROVE  UnderWay(u, e, k) <=> <<u, e, k>> \in paid /\ orders[<<e, k>>] = NoOrder
  BY DEF Due
<1>1. NoOrder # [user |-> u, status |-> "CONFIRMED"]
  BY DEF NoOrder
<1> QED
  BY <1>1 DEF UnderWay, RInv, NoChargeWithoutStock

LEMMA DueSum ==
    ASSUME FiniteSale, NEW u \in Users
    PROVE  /\ IsFiniteSet(Due(u))
           /\ \A x \in Due(u) : Costs[x] \in Nat
           /\ SumFunctionOnSet(Costs, Due(u)) \in Nat
<1>1. Due(u) \in SUBSET (Events \X Keys)
  BY DEF Due
<1>2. IsFiniteSet(Due(u))
  BY <1>1, Bills, FS_Subset
<1>3. \A x \in Due(u) : Costs[x] \in Nat
  BY <1>1, Bills
<1> QED
  BY <1>2, <1>3, SumIsNat

\* A step that neither moves money nor writes an order is none of the shop's.
LEMMA ShopKept ==
    ASSUME RInv, RInv', UNCHANGED <<balance, paid, orders>>
    PROVE  UNCHANGED Store!shopVars
<1>1. \A u \in Users : FundsOf(u)' = FundsOf(u)
  BY DEF FundsOf, Due, Costs
<1>2. ShopFunds = [u \in Users |-> FundsOf(u)]
  BY FundsAre
<1>3. (ShopFunds = [u \in Users |-> FundsOf(u)])'
  BY FundsAre, PTL
<1>4. Sales' = Sales
  BY DEF Sales, Confirmed
<1> QED
  BY <1>1, <1>2, <1>3, <1>4 DEF Store!shopVars

\* The shop's money before and after a step, user by user.
LEMMA FundsBothWays ==
    ASSUME FiniteSale, RInv, RInv'
    PROVE  /\ ShopFunds = [u \in Users |-> FundsOf(u)]
           /\ (ShopFunds = [u \in Users |-> FundsOf(u)])'
           /\ \A u \in Users : FundsOf(u) \in Int /\ balance[u] \in Int
<1>1. (ShopFunds = [u \in Users |-> FundsOf(u)])'
  BY FundsAre, PTL
<1>2. ASSUME NEW u \in Users
      PROVE  FundsOf(u) \in Int /\ balance[u] \in Int
  <2>1. balance[u] \in Int
    BY DEF RInv, CInv, TInv, TypeOK
  <2>2. SumFunctionOnSet(Costs, Due(u)) \in Nat
    BY DueSum
  <2> DEFINE sum == SumFunctionOnSet(Costs, Due(u))
  <2>3. FundsOf(u) = balance[u] + sum
    BY DEF FundsOf
  <2> HIDE DEF sum
  <2> QED
    BY <2>1, <2>2, <2>3 DEF sum
<1> QED
  BY <1>1, <1>2, FundsAre

\* Money that comes or goes outside the sale does so at the shop.
LEMMA MoneyElsewhere ==
    ASSUME FiniteSale, RInv, RInv', NEW u \in Users, NEW n \in Int,
           balance' = [balance EXCEPT ![u] = @ + n], UNCHANGED <<paid, orders>>
    PROVE  /\ ShopFunds' = [ShopFunds EXCEPT ![u] = @ + n]
           /\ Sales' = Sales
<1>1. \A v \in Users : Due(v)' = Due(v)
  BY DEF Due
<1>2. ASSUME NEW v \in Users
      PROVE  FundsOf(v)' = IF v = u THEN FundsOf(v) + n ELSE FundsOf(v)
  <2> DEFINE sum == SumFunctionOnSet(Costs, Due(v))
  <2>1. FundsOf(v) = balance[v] + sum /\ FundsOf(v)' = balance'[v] + sum
    BY <1>1 DEF FundsOf, Costs
  <2>2. balance'[v] = IF v = u THEN balance[v] + n ELSE balance[v]
    BY DEF RInv, CInv, TInv, TypeOK
  <2>3. sum \in Nat /\ balance[v] \in Int
    BY DueSum, FundsBothWays
  <2> HIDE DEF sum
  <2> QED
    BY <2>1, <2>2, <2>3
<1>3. ShopFunds' = [ShopFunds EXCEPT ![u] = @ + n]
  <2>1. ShopFunds = [v \in Users |-> FundsOf(v)]
    BY FundsBothWays
  <2>2. ShopFunds' = [v \in Users |-> FundsOf(v)']
    BY FundsBothWays
  <2> QED
    BY <1>2, <2>1, <2>2
<1>4. Sales' = Sales
  BY DEF Sales, Confirmed
<1> QED
  BY <1>3, <1>4

\* Money that arrives is a deposit at the shop.
LEMMA TopUpShop ==
    ASSUME FiniteSale, RInv, RInv', NEW u \in Users, TopUp(u)
    PROVE  Store!TopUp(u)
<1>0. PICK n \in Int : n = 1
  OBVIOUS
<1>1. /\ balance' = [balance EXCEPT ![u] = @ + n]
      /\ UNCHANGED <<paid, orders>>
  BY <1>0 DEF TopUp
<1>2. ShopFunds' = [ShopFunds EXCEPT ![u] = @ + n] /\ Sales' = Sales
  BY <1>1, MoneyElsewhere
<1> QED
  BY <1>0, <1>2 DEF Store!TopUp

\* A payment for something else is one that the shop's customer can afford: what
\* is due to the shop only adds to the wallet.
LEMMA SpendShop ==
    ASSUME FiniteSale, RInv, RInv', NEW u \in Users, Spend(u)
    PROVE  Store!Spend(u)
<1>0. PICK n \in Int : n = -1
  OBVIOUS
<1>1. /\ balance[u] > 0
      /\ balance' = [balance EXCEPT ![u] = @ + n]
      /\ UNCHANGED <<paid, orders>>
  <2>1. balance[u] > 0 /\ balance' = [balance EXCEPT ![u] = @ - 1]
        /\ UNCHANGED <<paid, orders>>
    BY DEF Spend
  <2>2. balance[u] \in Int
    BY DEF RInv, CInv, TInv, TypeOK
  <2>3. balance[u] - 1 = balance[u] + n
    BY <1>0, <2>2
  <2> QED
    BY <2>1, <2>3
<1>2. ShopFunds' = [ShopFunds EXCEPT ![u] = @ + n] /\ Sales' = Sales
  BY <1>1, MoneyElsewhere
<1>3. ShopFunds[u] \in Int /\ ShopFunds[u] > 0
  <2> DEFINE sum == SumFunctionOnSet(Costs, Due(u))
  <2>1. FundsOf(u) = balance[u] + sum
    BY DEF FundsOf, Costs
  <2>2. sum \in Nat /\ balance[u] \in Int /\ ShopFunds[u] = FundsOf(u)
    BY DueSum, FundsBothWays
  <2> HIDE DEF sum
  <2> QED
    BY <1>1, <2>1, <2>2
<1>4. ShopFunds[u] + n = ShopFunds[u] - 1
  BY <1>0, <1>3
<1>5. u \in Spenders
  BY DEF Spend
<1> QED
  BY <1>2, <1>3, <1>4, <1>5 DEF Store!Spend

\* A charge moves money from the wallet to what is due: to the shop nothing has
\* happened yet.
LEMMA DebitShop ==
    ASSUME FiniteSale, OwnKeys, NoFaults, RInv, RInv', NEW r \in Requests, Debit(r)
    PROVE  UNCHANGED Store!shopVars
<1>1. pc[r] = "debit" /\ orders' = orders /\ (Pay(r) \/ UNCHANGED <<balance, paid>>)
  BY DEF Debit
<1>2. CASE UNCHANGED <<balance, paid>>
  BY <1>1, <1>2, ShopKept
<1>3. CASE ~UNCHANGED <<balance, paid>>
  <2>1. PICK who \in Users, x \in Events \X Keys :
           who = call[r].user /\ x = <<call[r].event, call[r].key>>
    BY <1>1, Known DEF RInv, CInv
  <2>2. /\ <<who, x[1], x[2]>> \notin paid
        /\ paid' = paid \cup {<<who, x[1], x[2]>>}
        /\ balance'[who] = balance[who] - Price[x[1]]
        /\ \A u \in Users : u # who => balance'[u] = balance[u]
    BY <1>1, <1>3, <2>1, Paying DEF RInv, CInv
  <2>3. orders[x] = NoOrder
    BY <1>1, <2>1, <2>2, NewCharge DEF OrderOf
  <2>4. \A u \in Users, y \in Events \X Keys :
           <<u, y[1], y[2]>> \in paid' <=> <<u, y[1], y[2]>> \in paid \/ (u = who /\ y = x)
    BY <2>2
  <2>5. Due(who)' = Due(who) \cup {x} /\ x \notin Due(who)
    BY <1>1, <2>2, <2>3, <2>4 DEF Due
  <2>6. \A u \in Users : u # who => Due(u)' = Due(u)
    BY <1>1, <2>4 DEF Due
  <2>7. ASSUME NEW u \in Users
        PROVE  FundsOf(u)' = FundsOf(u)
    <3>1. CASE u # who
      BY <2>2, <2>6, <3>1 DEF FundsOf, Costs
    <3>2. CASE u = who
      <4>1. Costs[x] = Price[x[1]] /\ Costs[x] \in Nat
        BY Bills
      <4>2. SumFunctionOnSet(Costs, Due(who) \cup {x}) = SumFunctionOnSet(Costs, Due(who)) + Costs[x]
        BY <2>5, <4>1, DueSum, SumAddOne
      <4>3. balance[who] \in Int /\ SumFunctionOnSet(Costs, Due(who)) \in Nat
        BY DueSum, FundsBothWays
      <4> DEFINE sum == SumFunctionOnSet(Costs, Due(who))
                 more == SumFunctionOnSet(Costs, Due(who) \cup {x})
      <4>4. FundsOf(who) = balance[who] + sum /\ FundsOf(who)' = balance'[who] + more
        BY <2>5 DEF FundsOf, Costs
      <4> HIDE DEF sum, more
      <4>5. balance[who] + sum = balance'[who] + more
        BY <2>2, <4>1, <4>2, <4>3 DEF sum, more
      <4> QED
        BY <3>2, <4>4, <4>5
    <3> QED
      BY <3>1, <3>2
  <2>8. ShopFunds' = ShopFunds
    BY <2>7, FundsBothWays
  <2>9. Sales' = Sales
    BY <1>1 DEF Sales, Confirmed
  <2> QED
    BY <2>8, <2>9 DEF Store!shopVars
<1> QED
  BY <1>2, <1>3

\* What an order that is written leaves as it was: the other orders.
LEMMA WrittenOnly ==
    ASSUME TInv, NEW r \in Requests, pc[r] # "idle", NEW status, WriteOrder(r, status)
    PROVE  \E x \in Events \X Keys :
              /\ x = <<call[r].event, call[r].key>>
              /\ orders'[x] = [user |-> call[r].user, status |-> status]
              /\ \A y \in Events \X Keys : y # x => orders'[y] = orders[y]
<1>1. PICK x \in Events \X Keys : x = <<call[r].event, call[r].key>>
  BY Known
<1>2. PICK new : new = [user |-> call[r].user, status |-> status]
  OBVIOUS
<1>3. orders' = [orders EXCEPT ![x] = new]
  BY <1>1, <1>2 DEF WriteOrder
<1>4. orders'[x] = new /\ \A y \in Events \X Keys : y # x => orders'[y] = orders[y]
  BY <1>3 DEF TInv, TypeOK
<1> QED
  BY <1>1, <1>2, <1>4

\* A purchase that failed was not charged, and sells nothing.
LEMMA FailShop ==
    ASSUME FiniteSale, OwnKeys, RInv, RInv', NEW r \in Requests, Fail(r)
    PROVE  UNCHANGED Store!shopVars
<1>1. pc[r] = "fail" /\ UNCHANGED <<balance, paid>>
  BY DEF Fail
<1>2. ~Taken(r)
  BY <1>1 DEF RInv, CInv, Poor, Unraced
<1>3. WriteOrder(r, "FAILED")
  BY <1>2 DEF Fail
<1>4. PICK x \in Events \X Keys :
         /\ x = <<call[r].event, call[r].key>>
         /\ orders'[x] = [user |-> call[r].user, status |-> "FAILED"]
         /\ \A y \in Events \X Keys : y # x => orders'[y] = orders[y]
  BY <1>1, <1>3, WrittenOnly DEF RInv, CInv
<1>5. /\ orders[x] = NoOrder
      /\ \A u \in Users : <<u, x[1], x[2]>> \notin paid
  BY <1>1, <1>2, <1>4, FailUnpaid DEF Taken, OrderOf
<1>6. ASSUME NEW u \in Users
      PROVE  FundsOf(u)' = FundsOf(u)
  <2>1. Due(u)' = Due(u)
    BY <1>1, <1>4, <1>5 DEF Due
  <2> QED
    BY <1>1, <2>1 DEF FundsOf, Costs
<1>7. ShopFunds' = ShopFunds
  BY <1>6, FundsBothWays
<1>8. Sales' = Sales
  <2>1. orders[x].status # "CONFIRMED" /\ orders'[x].status # "CONFIRMED"
    BY <1>4, <1>5 DEF NoOrder
  <2>2. ASSUME NEW e \in Events
        PROVE  Confirmed(e)' = Confirmed(e) /\ \A k \in Confirmed(e) : orders'[<<e, k>>] = orders[<<e, k>>]
    <3>1. ASSUME NEW k \in Keys
          PROVE  \/ orders'[<<e, k>>] = orders[<<e, k>>]
                 \/ <<e, k>> = x
      <4>1. <<e, k>> \in Events \X Keys
        OBVIOUS
      <4> QED
        BY <1>4, <4>1
    <3> QED
      BY <2>1, <3>1 DEF Confirmed
  <2> DEFINE sold(e) == {<<orders[<<e, k>>].user, e, k>> : k \in Confirmed(e)}
             then(e) == {<<orders'[<<e, k>>].user, e, k>> : k \in Confirmed(e)'}
  <2>3. \A e \in Events : then(e) = sold(e)
    BY <2>2
  <2>4. Sales = UNION {sold(e) : e \in Events} /\ Sales' = UNION {then(e) : e \in Events}
    BY DEF Sales
  <2> HIDE DEF sold, then
  <2> QED
    BY <2>3, <2>4
<1> QED
  BY <1>7, <1>8 DEF Store!shopVars

\* The confirmed orders of an event and the units of it that the shop has sold
\* are as many.
LEMMA SoldAreConfirmed ==
    ASSUME FinitelyMany, NEW e \in Events
    PROVE  /\ Cardinality(Store!SoldOf(e)) \in Nat
           /\ Cardinality(Store!SoldOf(e)) <= Cardinality(Confirmed(e))
<1> DEFINE f == [k \in Confirmed(e) |-> <<orders[<<e, k>>].user, e, k>>]
<1>1. f \in [Confirmed(e) -> Store!SoldOf(e)]
  BY DEF Store!SoldOf, Sales
<1>2. \A t \in Store!SoldOf(e) : \E k \in Confirmed(e) : f[k] = t
  <2> SUFFICES ASSUME NEW t \in Sales, t[2] = e
               PROVE  \E k \in Confirmed(e) : f[k] = t
    BY DEF Store!SoldOf
  <2>1. PICK d \in Events : \E k \in Confirmed(d) : t = <<orders[<<d, k>>].user, d, k>>
    BY DEF Sales
  <2> QED
    BY <2>1
<1>3. f \in Surjection(Confirmed(e), Store!SoldOf(e))
  BY <1>1, <1>2 DEF Surjection
<1>4. IsFiniteSet(Confirmed(e))
  BY Countable
<1> HIDE DEF f
<1> QED
  BY <1>3, <1>4, FS_Surjection, FS_CardinalityType

\* Both modules count alike.
LEMMA SameCount ==
    ASSUME NEW S
    PROVE  Store!Cardinality(S) = Cardinality(S)
BY DEF Store!Cardinality, Cardinality

\* Before an order is confirmed its unit is one of those in stock, the shop has
\* sold fewer.
LEMMA UnitInStock ==
    ASSUME FinitelyMany, RInv, NEW r \in Requests, pc[r] = "confirm",
           NEW e \in Events, e = call[r].event
    PROVE  Cardinality(Store!SoldOf(e)) < Stock[e]
<1>1. phase[e] # "absent"
  BY DEF RInv, CInv, Untouched
<1>2. remaining[e] + Cardinality(Keeping(e)) + Cardinality(Confirmed(e)) = Stock[e]
  BY <1>1 DEF RInv, CInv, Account
<1>3. remaining[e] \in Int /\ remaining[e] >= 0
  BY DEF RInv, CInv, Account, TInv, TypeOK
<1>4. Cardinality(Keeping(e)) # 0
  <2>1. r \in Keeping(e)
    BY DEF Keeping
  <2> QED
    BY <2>1, CountableKeeping, FS_EmptySet
<1> QED
  BY <1>2, <1>3, <1>4, SoldAreConfirmed, Countable, CountableKeeping

\* The CONFIRMED order is the sale: the unit, the charge and the order at once.
LEMMA ConfirmShop ==
    ASSUME FiniteSale, OwnKeys, RInv, RInv', NEW r \in Requests, Confirm(r)
    PROVE  [Store!Next]_Store!shopVars
<1>1. pc[r] = "confirm" /\ UNCHANGED <<balance, paid>>
  BY DEF Confirm
<1>2. CASE Taken(r)
  <2>1. orders' = orders
    BY <1>2 DEF Confirm
  <2> QED
    BY <1>1, <2>1, ShopKept
<1>3. CASE ~Taken(r)
  <2>1. WriteOrder(r, "CONFIRMED")
    BY <1>3 DEF Confirm
  <2>2. PICK who \in Users, d \in Events, j \in Keys :
           /\ who = call[r].user /\ d = call[r].event /\ j = call[r].key
    BY <1>1, Known DEF RInv, CInv
  <2>3. PICK x \in Events \X Keys : x = <<d, j>>
    OBVIOUS
  <2>4. /\ orders'[x] = [user |-> who, status |-> "CONFIRMED"]
        /\ \A y \in Events \X Keys : y # x => orders'[y] = orders[y]
    <3>1. \E y \in Events \X Keys :
             /\ y = <<d, j>>
             /\ orders'[y] = [user |-> who, status |-> "CONFIRMED"]
             /\ \A z \in Events \X Keys : z # y => orders'[z] = orders[z]
      BY <1>1, <2>1, <2>2, WrittenOnly DEF RInv, CInv
    <3> QED
      BY <2>3, <3>1
  <2>5. orders[x] = NoOrder /\ <<who, x[1], x[2]>> \in paid
    BY <1>1, <1>3, <2>2, <2>3 DEF Taken, OrderOf, RInv, PInv, PaidFirst
  <2>6. \A u \in Users : <<u, x[1], x[2]>> \in paid => u = who
    <3>1. j \in KeysOf[who]
      BY <1>1, <2>2 DEF RInv, CInv, Sent
    <3>2. ASSUME NEW u \in Users, <<u, d, j>> \in paid
          PROVE  u = who
      BY <3>1, <3>2 DEF OwnKeys, RInv, OwnCharges
    <3> QED
      BY <2>3, <3>2
  <2>7. x \in Due(who) /\ Due(who)' = Due(who) \ {x}
    <3>1. orders'[x] # NoOrder
      BY <2>4 DEF NoOrder
    <3> QED
      BY <1>1, <2>4, <2>5, <3>1 DEF Due
  <2>8. \A u \in Users : u # who => Due(u)' = Due(u)
    BY <1>1, <2>4, <2>6 DEF Due
  <2>9. Costs[x] = Price[d] /\ Costs[x] \in Nat
    BY <2>3, Bills
  <2> DEFINE sum == SumFunctionOnSet(Costs, Due(who))
             less == SumFunctionOnSet(Costs, Due(who) \ {x})
  <2>10. sum = Costs[x] + less
    BY <2>7, DueSum, SumTakeOut
  <2>11. sum \in Nat /\ less \in Nat
    <3>1. IsFiniteSet(Due(who) \ {x})
      BY DueSum, FS_RemoveElement
    <3> QED
      BY <3>1, DueSum, SumIsNat
  <2>12. FundsOf(who) = balance[who] + sum /\ FundsOf(who)' = balance[who] + less
    BY <1>1, <2>7 DEF FundsOf, Costs
  <2>13. \A u \in Users : u # who => FundsOf(u)' = FundsOf(u)
    BY <1>1, <2>8 DEF FundsOf, Costs
  <2>14. balance[who] \in Int /\ balance[who] >= 0
    BY FundsBothWays DEF RInv, NoDebt
  <2> HIDE DEF sum, less
  <2>15. Price[d] <= FundsOf(who) /\ FundsOf(who)' = FundsOf(who) - Price[d]
    <3>1. PICK p \in Nat : p = Price[d]
      BY <2>9
    <3>2. PICK b \in Int : b = balance[who] /\ b >= 0
      BY <2>14
    <3>3. FundsOf(who) = b + sum /\ FundsOf(who)' = b + less /\ sum = p + less
      BY <2>9, <2>10, <2>12, <3>1, <3>2
    <3> QED
      BY <2>11, <3>1, <3>2, <3>3
  <2>16. /\ Price[d] <= ShopFunds[who]
         /\ ShopFunds' = [ShopFunds EXCEPT ![who] = @ - Price[d]]
    <3>1. ShopFunds = [u \in Users |-> FundsOf(u)]
      BY FundsBothWays
    <3>2. ShopFunds' = [u \in Users |-> FundsOf(u)']
      BY FundsBothWays
    <3> QED
      BY <2>13, <2>15, <3>1, <3>2
  <2>17. \A e \in Events, k \in Keys :
            orders'[<<e, k>>] = IF e = d /\ k = j THEN [user |-> who, status |-> "CONFIRMED"]
                                                  ELSE orders[<<e, k>>]
    <3> SUFFICES ASSUME NEW e \in Events, NEW k \in Keys
                 PROVE  orders'[<<e, k>>] =
                          IF e = d /\ k = j THEN [user |-> who, status |-> "CONFIRMED"]
                                            ELSE orders[<<e, k>>]
      OBVIOUS
    <3>1. <<e, k>> \in Events \X Keys
      OBVIOUS
    <3> QED
      BY <2>3, <2>4, <3>1
  <2>18. \A e \in Events : Confirmed(e)' = IF e = d THEN Confirmed(e) \cup {j} ELSE Confirmed(e)
    BY <2>17 DEF Confirmed
  <2>19. j \notin Confirmed(d)
    BY <2>3, <2>5 DEF Confirmed, NoOrder
  <2>20. Sales' = Sales \cup {<<who, d, j>>}
    <3> DEFINE sold(e) == {<<orders[<<e, k>>].user, e, k>> : k \in Confirmed(e)}
               then(e) == {<<orders'[<<e, k>>].user, e, k>> : k \in Confirmed(e)'}
    <3>1. ASSUME NEW e \in Events, e # d
          PROVE  then(e) = sold(e)
      <4>1. \A k \in Confirmed(e) : orders'[<<e, k>>] = orders[<<e, k>>]
        BY <2>17, <3>1 DEF Confirmed
      <4>2. Confirmed(e)' = Confirmed(e)
        BY <2>18, <3>1
      <4> QED
        BY <4>1, <4>2
    <3>2. then(d) = sold(d) \cup {<<who, d, j>>}
      <4>1. \A k \in Confirmed(d) : orders'[<<d, k>>] = orders[<<d, k>>]
        BY <2>17, <2>19 DEF Confirmed
      <4>2. Confirmed(d)' = Confirmed(d) \cup {j}
        BY <2>18
      <4>3. orders'[<<d, j>>].user = who
        BY <2>17
      <4> QED
        BY <4>1, <4>2, <4>3
    <3>3. Sales = UNION {sold(e) : e \in Events} /\ Sales' = UNION {then(e) : e \in Events}
      BY DEF Sales
    <3> HIDE DEF sold, then
    <3> QED
      BY <3>1, <3>2, <3>3
  <2>21. \A v \in Users : <<v, d, j>> \notin Sales
    <3> SUFFICES ASSUME NEW v \in Users, <<v, d, j>> \in Sales PROVE FALSE
      OBVIOUS
    <3>1. PICK e \in Events : \E k \in Confirmed(e) :
                                 <<v, d, j>> = <<orders[<<e, k>>].user, e, k>>
      BY DEF Sales
    <3> QED
      BY <2>19, <3>1
  <2>22. Cardinality(Store!SoldOf(d)) < Stock[d]
    BY <1>1, <2>2, UnitInStock DEF FiniteSale
  <2>23. Store!Sell(who, d, j)
    BY <2>16, <2>20, <2>21, <2>22, SameCount DEF Store!Sell
  <2> QED
    BY <2>23 DEF Store!Next
<1> QED
  BY <1>2, <1>3

\* Every step of the engine is a step of the shop, or none.
LEMMA NextShop ==
    ASSUME NoFaults, FiniteSale, OwnKeys, RInv, RInv', [Next]_vars
    PROVE  [Store!Next]_Store!shopVars
<1>1. CASE UNCHANGED <<balance, paid, orders>>
  BY <1>1, ShopKept
<1>2. ASSUME NEW u \in Users, TopUp(u) \/ Spend(u) PROVE Store!Next
  BY <1>2, TopUpShop, SpendShop DEF Store!Next
<1>3. ASSUME NEW r \in Requests, Step(r)
      PROVE  [Store!Next]_Store!shopVars
  <2>1. CASE Debit(r)
    BY <2>1, DebitShop
  <2>2. CASE Fail(r)
    BY <2>2, FailShop
  <2>3. CASE Confirm(r)
    BY <2>3, ConfirmShop
  <2>4. CASE ~Debit(r) /\ ~Fail(r) /\ ~Confirm(r)
    <3>1. UNCHANGED <<balance, paid, orders>>
      BY <1>3, <2>4 DEF Step, Find, Check, Reserve, Poll, Release, Conflict, Enqueue, database
    <3> QED
      BY <1>1, <3>1
  <2> QED
    BY <2>1, <2>2, <2>3, <2>4
<1> QED
  BY <1>1, <1>2, <1>3
     DEF Next, vars, CreateEvent, Tick, Call, Crash, NoFaults, database

\* At the start the shop's money is the wallets'.
LEMMA InitShop ==
    ASSUME Init, RInv
    PROVE  Store!Init
<1>1. \A u \in Users : Due(u) = {}
  BY DEF Init, Due
<1>2. SumFunctionOnSet(Costs, {}) = 0
  BY SumEmpty
<1>3. ASSUME NEW u \in Users PROVE FundsOf(u) = Opening[u]
  <2>1. FundsOf(u) = balance[u] + 0 /\ balance[u] = Opening[u]
    BY <1>1, <1>2 DEF FundsOf, Init
  <2>2. Opening[u] \in Int
    BY UsersAssumption, RequestsAssumption
  <2> QED
    BY <2>1, <2>2
<1>4. ShopFunds = Opening
  <2>1. Opening = [u \in Users |-> Opening[u]]
    BY UsersAssumption
  <2> QED
    BY <1>3, <2>1, FundsAre
<1>5. Sales = {}
  BY DEF Init, Sales, Confirmed, NoOrder
<1> QED
  BY <1>4, <1>5 DEF Store!Init

\* While nothing fails, clients share no keys, and whoever sends a key twice at
\* once can pay for it, the engine implements the shop: whatever the order of the
\* reservations, debits, compensations, conflicts and answers, the charge, the
\* unit and the order come together, once for each key.
THEOREM FlashSaleImplementsShop ==
    ASSUME NoFaults, FundedClients, FiniteSale, OwnKeys
    PROVE  Spec => ImplementsShop
<1>1. RInv /\ RInv' /\ [Next]_vars => [Store!Next]_Store!shopVars
  BY NextShop
<1>2. Init /\ RInv => Store!Init
  BY InitShop
<1> QED
  BY <1>1, <1>2, CleanCharges, PTL DEF Spec, ImplementsShop, Store!Spec

-----------------------------------------------------------------------------
(* Every purchase comes to its answer, if it moves. *)

\* How many statements a request has before it at most: it polls no more often
\* than Attempts allows, and compensates at most twice.
Distance(r) ==
    CASE pc[r] = "idle" -> 8 + Attempts
      [] pc[r] = "find" -> 7 + Attempts
      [] pc[r] = "check" -> 6 + Attempts
      [] pc[r] = "reserve" -> 5 + Attempts
      [] pc[r] = "poll" -> 1 + Attempts - polls[r]
      [] pc[r] = "debit" -> 4
      [] pc[r] = "release" -> 3
      [] pc[r] \in {"fail", "confirm"} -> 2
      [] pc[r] \in {"conflict", "enqueue"} -> 1
      [] pc[r] = "answered" -> 0

\* Nothing takes a request back, and its own statements bring it nearer.
Nearer ==
    \A r \in Requests :
        /\ Distance(r)' <= Distance(r)
        /\ Step(r) => Distance(r)' < Distance(r)

\* It is a natural number, and nought when the request has its answer.
Measured ==
    \A r \in Requests : /\ Distance(r) \in 0..8 + Attempts
                        /\ Distance(r) = 0 <=> pc[r] = "answered"

LEMMA DistanceIsNat == TInv => Measured
<1> SUFFICES ASSUME TInv, NEW r \in Requests
             PROVE  /\ Distance(r) \in 0..8 + Attempts
                    /\ Distance(r) = 0 <=> pc[r] = "answered"
  BY DEF Measured
<1>1. polls[r] \in 0..Attempts /\ Attempts \in Nat /\ pc[r] \in Steps
  BY RequestsAssumption DEF TInv, TypeOK
<1>2. /\ pc[r] = "idle" => Distance(r) = 8 + Attempts
      /\ pc[r] = "find" => Distance(r) = 7 + Attempts
      /\ pc[r] = "check" => Distance(r) = 6 + Attempts
      /\ pc[r] = "reserve" => Distance(r) = 5 + Attempts
      /\ pc[r] = "poll" => Distance(r) = 1 + Attempts - polls[r]
  BY DEF Distance
<1>3. /\ pc[r] = "debit" => Distance(r) = 4
      /\ pc[r] = "release" => Distance(r) = 3
      /\ pc[r] \in {"fail", "confirm"} => Distance(r) = 2
      /\ pc[r] \in {"conflict", "enqueue"} => Distance(r) = 1
      /\ pc[r] = "answered" => Distance(r) = 0
  BY DEF Distance
<1>4. pc[r] # "answered" => Distance(r) \in 1..8 + Attempts
  BY <1>1, <1>2, <1>3 DEF Steps
<1> QED
  BY <1>1, <1>3, <1>4

LEMMA StepNearer ==
    ASSUME TInv, TInv', NEW r \in Requests, Step(r)
    PROVE  Distance(r)' < Distance(r)
<1>1. /\ polls[r] \in 0..Attempts /\ polls'[r] \in 0..Attempts
      /\ Attempts \in Nat \ {0}
  BY RequestsAssumption DEF TInv, TypeOK
<1>2. pc \in [Requests -> Steps] /\ polls \in [Requests -> 0..Attempts]
  BY DEF TInv, TypeOK
<1> USE DEF Goto, Answer, AnswerWithOrder
<1>3. CASE Find(r) \/ Check(r)
  <2>1. \/ pc[r] = "find" /\ pc'[r] \in {"check", "answered"}
        \/ pc[r] = "check" /\ pc'[r] \in {"reserve", "answered"}
    BY <1>2, <1>3 DEF Find, Check
  <2> QED
    BY <1>1, <2>1 DEF Distance
<1>4. CASE Reserve(r)
  <2>1. pc[r] = "reserve" /\ pc'[r] \in {"debit", "poll"}
    BY <1>2, <1>4 DEF Reserve
  <2> QED
    BY <1>1, <2>1 DEF Distance
<1>5. CASE Poll(r)
  <2>1. /\ pc[r] = "poll"
        /\ pc'[r] = "answered" \/ (pc'[r] = "poll" /\ polls'[r] = polls[r] + 1)
    BY <1>2, <1>5 DEF Poll
  <2> QED
    BY <1>1, <2>1 DEF Distance
<1>6. CASE Debit(r) \/ Release(r)
  <2>1. \/ pc[r] = "debit" /\ pc'[r] \in {"confirm", "release"}
        \/ pc[r] = "release" /\ pc'[r] = "fail"
    BY <1>2, <1>6 DEF Debit, Release
  <2> QED
    BY <1>1, <2>1 DEF Distance
<1>7. CASE Fail(r) \/ Confirm(r) \/ Conflict(r) \/ Enqueue(r)
  <2>1. \/ pc[r] \in {"fail", "confirm"} /\ pc'[r] \in {"conflict", "enqueue", "answered"}
        \/ pc[r] \in {"conflict", "enqueue"} /\ pc'[r] = "answered"
    BY <1>2, <1>7 DEF Fail, Confirm, Conflict, Enqueue
  <2> QED
    BY <1>1, <2>1 DEF Distance
<1> QED
  BY <1>3, <1>4, <1>5, <1>6, <1>7 DEF Step

LEMMA NextNearer == TInv /\ TInv' /\ [Next]_vars => Nearer
<1> SUFFICES ASSUME TInv, TInv', [Next]_vars, NEW r \in Requests
             PROVE  /\ Distance(r)' <= Distance(r)
                    /\ Step(r) => Distance(r)' < Distance(r)
  BY DEF Nearer
<1>1. /\ Distance(r) \in 0..8 + Attempts /\ Attempts \in Nat
      /\ Distance(r)' \in 0..8 + Attempts
  <2>1. Measured'
    BY DistanceIsNat, PTL
  <2> QED
    BY <2>1, DistanceIsNat, RequestsAssumption DEF Measured
<1>2. CASE Step(r)
  BY <1>1, <1>2, StepNearer
<1>3. CASE pc'[r] = pc[r] /\ polls'[r] = polls[r] /\ ~Step(r)
  <2>1. Distance(r)' = Distance(r)
    BY <1>3 DEF Distance
  <2> QED
    BY <1>1, <1>3, <2>1
<1>4. CASE pc'[r] = "answered" /\ ~Step(r)
  <2>1. Distance(r)' = 0
    BY <1>4 DEF Distance
  <2> QED
    BY <1>1, <1>4, <2>1
<1>5. CASE pc[r] = "idle" /\ pc'[r] = "find" /\ ~Step(r)
  <2>1. Distance(r) = 8 + Attempts /\ Distance(r)' = 7 + Attempts
    BY <1>5 DEF Distance
  <2> QED
    BY <1>1, <1>5, <2>1
<1>6. \/ Step(r)
      \/ pc'[r] = pc[r] /\ polls'[r] = polls[r]
      \/ pc'[r] = "answered"
      \/ pc[r] = "idle" /\ pc'[r] = "find"
  <2>1. CASE \/ UNCHANGED vars
             \/ \E e \in Events : CreateEvent(e) \/ Tick(e)
             \/ \E u \in Users : TopUp(u) \/ Spend(u)
    BY <2>1 DEF vars, CreateEvent, Tick, TopUp, Spend
  <2>2. CASE \E s \in Requests, u \in Users, e \in Events, k \in Keys : Call(s, u, e, k)
    BY <2>2 DEF Call, Goto, TInv, TypeOK
  <2>3. ASSUME NEW s \in Requests, Step(s), s # r
        PROVE  pc'[r] = pc[r] /\ polls'[r] = polls[r]
    <3>1. pc'[r] = pc[r]
      BY <2>3, Mine
    <3>2. polls'[r] = polls[r]
      BY <2>3 DEF Step, Find, Check, Reserve, Poll, Debit, Release, Fail, Confirm, Conflict,
                  Enqueue, TInv, TypeOK
    <3> QED
      BY <3>1, <3>2
  <2>4. CASE \E s \in Requests : Crash(s)
    BY <2>4 DEF Crash, Answer, TInv, TypeOK
  <2> QED
    BY <2>1, <2>2, <2>3, <2>4 DEF Next
<1> QED
  BY <1>2, <1>3, <1>4, <1>5, <1>6

\* Whatever overlaps, is refused, raced or compensated, a request has at most
\* 8 + Attempts steps from its call to its answer: none of the retries, polls and
\* releases of purchase() can go round for ever.  That the steps are taken is
\* fairness, which TLC checks.
THEOREM PurchasesComeNearer ==
    Spec => []Measured /\ [][Nearer]_vars
<1> QED
  BY DistanceIsNat, InitTInv, NextTInv, NextNearer, PTL DEF Spec
=============================================================================
