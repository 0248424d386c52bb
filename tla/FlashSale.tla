------------------------------ MODULE FlashSale ------------------------------
(***************************************************************************)
(* The flash-sale engine (src/src/modules/flash-sale/flash-sale.service.ts)*)
(* over the tables FlashSaleEvent and Order, the wallet service and the    *)
(* notification queue.                                                     *)
(*                                                                         *)
(* A request is one POST /flash-sale/purchase.  Every statement it sends   *)
(* to the database runs in a transaction of its own, so requests interleave*)
(* between any two of them; reserving a unit, paying and writing the order *)
(* are three such steps, and the code undoes them by hand when one fails.  *)
(* Only Conflict has two statements in one step: it gives a unit back and  *)
(* reads an order again, which nothing in between could change.            *)
(*                                                                         *)
(* WalletService.purchaseDeduct is one step here: Wallet.tla shows that    *)
(* the wallet implements AccountBook.tla, in which a purchase is atomic    *)
(* and applied once for each reference.                                    *)
(***************************************************************************)
EXTENDS Integers, FiniteSetsExt

CONSTANTS
    Users,
    Events,
    Keys,        \* idempotency keys, chosen by clients
    Requests,    \* the purchase calls
    Stock,       \* Stock[e]: totalStock of the event
    Price,       \* Price[e]: price of the event's product
    Opening,     \* Opening[u]: balance of the user's wallet at the start
    MaxBalance,  \* MaxBalance[u]: bound on what deposits bring the wallet to
    Attempts,    \* polls for a concurrent duplicate's order (5 in the code)
    KeysOf,      \* KeysOf[u]: the keys the user's client sends
    Careful,     \* keys that are sent again only after an answer
    Spenders,    \* the users who also transfer money to others
    Fragile      \* the requests whose process or connections may fail

ASSUME UsersAssumption ==
    /\ Opening \in [Users -> Nat]
    /\ MaxBalance \in [Users -> Nat]
    /\ KeysOf \in [Users -> SUBSET Keys]
    /\ Careful \subseteq Keys
    /\ Spenders \subseteq Users
ASSUME EventsAssumption ==
    /\ Stock \in [Events -> Nat \ {0}]
    /\ Price \in [Events -> Nat]
ASSUME RequestsAssumption ==
    /\ Fragile \subseteq Requests
    /\ Attempts \in Nat \ {0}

VARIABLES
    phase,      \* absent, or where now lies against startsAt and endsAt
    remaining,  \* FlashSaleEvent.remaining
    orders,     \* the Order row of each (event, key), unique by constraint
    balance,    \* Wallet.balance of each user
    paid,       \* PURCHASE rows: <<user, event, key>>, unique by constraint
    jobs,       \* order-confirmation jobs added for each (event, key)
    pc,         \* where each request is
    call,       \* what each request asked for
    overlapped, \* history: the events a key of which was in flight twice at once
    failure,    \* the error a request will rethrow once it has compensated
    polls,      \* polls made so far by a request that found no stock
    reply       \* the answer of each request

vars == <<phase, remaining, orders, balance, paid, jobs,
          pc, call, overlapped, failure, polls, reply>>

database == <<phase, remaining, orders, balance, paid, jobs>>

-----------------------------------------------------------------------------
(* Data. *)

Phases == {"absent", "upcoming", "open", "closed"}
Calls == [user : Users, event : Events, key : Keys]
NoCall == [user |-> "none"]
Orders == [user : Users, status : {"CONFIRMED", "FAILED"}]
NoOrder == [status |-> "none"]
\* HTTP 404, 400 (inactive event, insufficient balance), 409 and 500.
Refusals == {"notFound", "inactive", "insufficient", "soldOut", "failed"}
NoAnswer == [status |-> "none"]
Answers == [status : {"ok"}, order : Orders] \cup [status : Refusals]
Steps == {"idle", "find", "check", "reserve", "poll", "debit", "release",
          "fail", "confirm", "conflict", "enqueue", "answered"}

Refused(why) == [status |-> why]

OrderOf(r) == orders[<<call[r].event, call[r].key>>]

\* Variant of the operator below with a mistake in it, as are the others called
\* variants: no unique constraint.
NeverTaken(r) == FALSE

\* The unique constraint on (flashSaleEventId, idempotencyKey) would fire.
Taken(r) == OrderOf(r) # NoOrder

InFlight(r) == pc[r] \notin {"idle", "answered"}

-----------------------------------------------------------------------------
(* Pieces of a step. *)

Goto(r, step) == pc' = [pc EXCEPT ![r] = step]

Answer(r, a) ==
    /\ pc' = [pc EXCEPT ![r] = "answered"]
    /\ reply' = [reply EXCEPT ![r] = a]

AnswerWithOrder(r) == Answer(r, [status |-> "ok", order |-> OrderOf(r)])

\* releaseUnit: remaining + 1, unconditionally.
ReleaseUnit(r) ==
    remaining' = [remaining EXCEPT ![call[r].event] = @ + 1]

WriteOrder(r, status) ==
    orders' = [orders EXCEPT ![<<call[r].event, call[r].key>>] =
                 [user |-> call[r].user, status |-> status]]

-----------------------------------------------------------------------------
Init ==
    /\ phase = [e \in Events |-> "absent"]
    /\ remaining = [e \in Events |-> 0]
    /\ orders = [x \in Events \X Keys |-> NoOrder]
    /\ balance = Opening
    /\ paid = {}
    /\ jobs = [x \in Events \X Keys |-> 0]
    /\ pc = [r \in Requests |-> "idle"]
    /\ call = [r \in Requests |-> NoCall]
    /\ overlapped = {}
    /\ failure = [r \in Requests |-> "none"]
    /\ polls = [r \in Requests |-> 0]
    /\ reply = [r \in Requests |-> NoAnswer]

\* createEvent.  The validators saw dates that lay ahead, but the row is written
\* later: by then the window may have opened, or even closed.
CreateEvent(e) ==
    /\ phase[e] = "absent"
    /\ \E now \in Phases \ {"absent"} : phase' = [phase EXCEPT ![e] = now]
    /\ remaining' = [remaining EXCEPT ![e] = Stock[e]]
    /\ UNCHANGED <<orders, balance, paid, jobs, pc, call, overlapped, failure, polls, reply>>

\* The clock passes startsAt, then endsAt.
Tick(e) ==
    /\ \/ phase[e] = "upcoming" /\ phase' = [phase EXCEPT ![e] = "open"]
       \/ phase[e] = "open" /\ phase' = [phase EXCEPT ![e] = "closed"]
    /\ UNCHANGED <<remaining, orders, balance, paid, jobs, pc, call, overlapped, failure, polls, reply>>

\* The user's other calls to the wallet service, in portions of one: money
\* arrives,
TopUp(u) ==
    /\ balance[u] < MaxBalance[u]
    /\ balance' = [balance EXCEPT ![u] = @ + 1]
    /\ UNCHANGED <<phase, remaining, orders, paid, jobs, pc, call, overlapped, failure, polls, reply>>

\* or is transferred to others, never more than there is.
Spend(u) ==
    /\ u \in Spenders
    /\ balance[u] > 0
    /\ balance' = [balance EXCEPT ![u] = @ - 1]
    /\ UNCHANGED <<phase, remaining, orders, paid, jobs, pc, call, overlapped, failure, polls, reply>>

-----------------------------------------------------------------------------
(* purchase(), in the order of its statements. *)

Call(r, u, e, k) ==
    /\ pc[r] = "idle"
    /\ k \in KeysOf[u]
    /\ k \in Careful => \A s \in Requests : InFlight(s) => call[s].key # k
    /\ call' = [call EXCEPT ![r] = [user |-> u, event |-> e, key |-> k]]
    /\ overlapped' = IF \E s \in Requests : InFlight(s) /\ call[s].event = e /\ call[s].key = k
                       THEN overlapped \cup {e} ELSE overlapped
    /\ Goto(r, "find")
    /\ UNCHANGED <<database, failure, polls, reply>>

\* findExistingOrder: a key already used for this event is answered with its
\* order, whoever placed it.
Find(r) ==
    /\ pc[r] = "find"
    /\ \/ OrderOf(r) # NoOrder /\ AnswerWithOrder(r)
       \/ OrderOf(r) = NoOrder /\ Goto(r, "check") /\ UNCHANGED reply
    /\ UNCHANGED <<database, call, overlapped, failure, polls>>

\* The event must exist and now must lie in its window.
Check(r) ==
    LET at == phase[call[r].event]
    IN  /\ pc[r] = "check"
        /\ \/ at = "absent" /\ Answer(r, Refused("notFound"))
           \/ at \in {"upcoming", "closed"} /\ Answer(r, Refused("inactive"))
           \/ at = "open" /\ Goto(r, "reserve") /\ UNCHANGED reply
        /\ UNCHANGED <<database, call, overlapped, failure, polls>>

\* Variant: the condition is remaining >= 0.
UnitLeftOrNone(e) == remaining[e] >= 0

UnitLeft(e) == remaining[e] > 0

\* reserveUnit: UPDATE ... SET remaining = remaining - 1 WHERE remaining > 0.
Reserve(r) ==
    LET e == call[r].event
    IN  /\ pc[r] = "reserve"
        /\ \/ /\ UnitLeft(e)
              /\ remaining' = [remaining EXCEPT ![e] = @ - 1]
              /\ Goto(r, "debit")
           \/ /\ ~UnitLeft(e)
              /\ Goto(r, "poll")
              /\ UNCHANGED remaining
        /\ UNCHANGED <<phase, orders, balance, paid, jobs, call, overlapped, failure, polls, reply>>

\* Variant: one poll too many.
LastPollLate(r) == polls[r] + 1 > Attempts

LastPoll(r) == polls[r] + 1 >= Attempts

\* pollForExistingOrder: no stock, but perhaps a duplicate of this request
\* took the unit and is about to write the order.
Poll(r) ==
    /\ pc[r] = "poll"
    /\ \/ /\ OrderOf(r) # NoOrder
          /\ AnswerWithOrder(r)
          /\ UNCHANGED polls
       \/ /\ OrderOf(r) = NoOrder
          /\ polls' = [polls EXCEPT ![r] = @ + 1]
          /\ \/ ~LastPoll(r) /\ UNCHANGED <<pc, reply>>
             \/ LastPoll(r) /\ Answer(r, Refused("soldOut"))
    /\ UNCHANGED <<database, call, overlapped, failure>>

\* Variant: nothing recognises a charge that was made before.
PayEachTime(r) ==
    LET c == call[r]
    IN  /\ balance[c.user] >= Price[c.event]
        /\ balance' = [balance EXCEPT ![c.user] = @ - Price[c.event]]
        /\ paid' = paid \cup {<<c.user, c.event, c.key>>}

\* Variant: the reference alone, whoever pays, makes a charge a repetition.
PayOncePerReference(r) ==
    LET c == call[r]
        repeated == \E u \in Users : <<u, c.event, c.key>> \in paid
    IN  \/ repeated /\ UNCHANGED <<balance, paid>>
        \/ /\ ~repeated
           /\ balance[c.user] >= Price[c.event]
           /\ balance' = [balance EXCEPT ![c.user] = @ - Price[c.event]]
           /\ paid' = paid \cup {<<c.user, c.event, c.key>>}

\* purchaseDeduct: once for each reference flash-sale:{event}:{key} and wallet.
Pay(r) ==
    LET c == call[r]
        charge == <<c.user, c.event, c.key>>
    IN  \/ charge \in paid /\ UNCHANGED <<balance, paid>>
        \/ /\ charge \notin paid
           /\ balance[c.user] >= Price[c.event]
           /\ balance' = [balance EXCEPT ![c.user] = @ - Price[c.event]]
           /\ paid' = paid \cup {charge}

\* Variant: want of money is no error, the debit waits.
CannotPayWaiting(r) == FALSE

\* Variant: a repeated charge is an error, as the unique constraint alone would
\* make it.
CannotPayAgain(r) ==
    LET c == call[r]
    IN  <<c.user, c.event, c.key>> \in paid \/ balance[c.user] < Price[c.event]

CannotPay(r) ==
    LET c == call[r]
    IN  <<c.user, c.event, c.key>> \notin paid /\ balance[c.user] < Price[c.event]

\* Any error of the wallet leads to the compensation, also one after which
\* the charge stands: a commit whose acknowledgement was lost.
Debit(r) ==
    /\ pc[r] = "debit"
    /\ \/ Pay(r) /\ Goto(r, "confirm") /\ UNCHANGED failure
       \/ /\ CannotPay(r)
          /\ Goto(r, "release")
          /\ failure' = [failure EXCEPT ![r] = "insufficient"]
          /\ UNCHANGED <<balance, paid>>
       \/ /\ r \in Fragile
          /\ Pay(r) \/ UNCHANGED <<balance, paid>>
          /\ Goto(r, "release")
          /\ failure' = [failure EXCEPT ![r] = "failed"]
    /\ UNCHANGED <<phase, remaining, orders, jobs, call, overlapped, polls, reply>>

Release(r) ==
    /\ pc[r] = "release"
    /\ ReleaseUnit(r)
    /\ Goto(r, "fail")
    /\ UNCHANGED <<phase, orders, balance, paid, jobs, call, overlapped, failure, polls, reply>>

\* Variant: the unit is released with the FAILED order, not only on a conflict.
FailReleasing(r) ==
    /\ pc[r] = "fail"
    /\ ~Taken(r)
    /\ WriteOrder(r, "FAILED")
    /\ ReleaseUnit(r)
    /\ Answer(r, Refused(failure[r]))
    /\ UNCHANGED <<phase, balance, paid, jobs, call, overlapped, failure, polls>>

\* finalizeOrder with FAILED: the order is recorded and the error rethrown,
\* unless a duplicate has written an order for the key.
Fail(r) ==
    /\ pc[r] = "fail"
    /\ \/ /\ ~Taken(r)
          /\ WriteOrder(r, "FAILED")
          /\ Answer(r, Refused(failure[r]))
       \/ /\ Taken(r)
          /\ Goto(r, "conflict")
          /\ UNCHANGED <<orders, reply>>
    /\ UNCHANGED <<phase, remaining, balance, paid, jobs, call, overlapped, failure, polls>>

\* finalizeOrder with CONFIRMED: the unit is sold.
Confirm(r) ==
    /\ pc[r] = "confirm"
    /\ \/ /\ ~Taken(r)
          /\ WriteOrder(r, "CONFIRMED")
          /\ Goto(r, "enqueue")
       \/ /\ Taken(r)
          /\ Goto(r, "conflict")
          /\ UNCHANGED orders
    /\ UNCHANGED <<phase, remaining, balance, paid, jobs, call, overlapped, failure, polls, reply>>

\* Variant: the loser of a race keeps its unit.
ConflictKeepingUnit(r) ==
    /\ pc[r] = "conflict"
    /\ AnswerWithOrder(r)
    /\ UNCHANGED <<database, call, overlapped, failure, polls>>

\* Variant: the loser of a race enqueues a job too.
ConflictThenEnqueue(r) ==
    /\ pc[r] = "conflict"
    /\ ReleaseUnit(r)
    /\ Goto(r, "enqueue")
    /\ UNCHANGED <<phase, orders, balance, paid, jobs, call, overlapped, failure, polls, reply>>

\* onConflict, the same for both outcomes: release a unit, then answer with
\* the order that is there.
Conflict(r) ==
    /\ pc[r] = "conflict"
    /\ ReleaseUnit(r)
    /\ AnswerWithOrder(r)
    /\ UNCHANGED <<phase, orders, balance, paid, jobs, call, overlapped, failure, polls>>

\* Variant: a confirmed purchase ends without a job.
EnqueueNothing(r) ==
    /\ pc[r] = "enqueue"
    /\ AnswerWithOrder(r)
    /\ UNCHANGED <<database, call, overlapped, failure, polls>>

\* notificationsQueue.add; an error is logged and the purchase stands.
Enqueue(r) ==
    /\ pc[r] = "enqueue"
    /\ \/ jobs' = [jobs EXCEPT ![<<call[r].event, call[r].key>>] = @ + 1]
       \/ r \in Fragile /\ UNCHANGED jobs
    /\ AnswerWithOrder(r)
    /\ UNCHANGED <<phase, remaining, orders, balance, paid, call, overlapped, failure, polls>>

\* The process dies or the database refuses a statement: what this request
\* has written so far stays, the rest of purchase() is never run.
Crash(r) ==
    /\ r \in Fragile
    /\ InFlight(r)
    /\ Answer(r, Refused("failed"))
    /\ UNCHANGED <<database, call, overlapped, failure, polls>>

-----------------------------------------------------------------------------
Step(r) ==
    \/ Find(r) \/ Check(r) \/ Reserve(r) \/ Poll(r) \/ Debit(r) \/ Release(r)
    \/ Fail(r) \/ Confirm(r) \/ Conflict(r) \/ Enqueue(r)

Next ==
    \/ \E e \in Events : CreateEvent(e) \/ Tick(e)
    \/ \E u \in Users : TopUp(u) \/ Spend(u)
    \/ \E r \in Requests, u \in Users, e \in Events, k \in Keys : Call(r, u, e, k)
    \/ \E r \in Requests : Step(r)
    \/ \E r \in Requests : Crash(r)

Spec == Init /\ [][Next]_vars

\* The server finishes what it started; clients, the clock and faults are free.
FairSpec == Spec /\ \A r \in Requests : WF_vars(Step(r))

-----------------------------------------------------------------------------
(* Properties. *)

\* Types: every variable holds what the schema and the service put there.
TypeOK ==
    /\ phase \in [Events -> Phases]
    /\ remaining \in [Events -> Int]
    /\ orders \in [Events \X Keys -> Orders \cup {NoOrder}]
    /\ balance \in [Users -> Int]
    /\ paid \subseteq Users \X Events \X Keys
    /\ jobs \in [Events \X Keys -> Nat]
    /\ pc \in [Requests -> Steps]
    /\ call \in [Requests -> Calls \cup {NoCall}]
    /\ overlapped \subseteq Events
    /\ failure \in [Requests -> Refusals \cup {"none"}]
    /\ polls \in [Requests -> 0..Attempts]
    /\ reply \in [Requests -> Answers \cup {NoAnswer}]

Confirmed(e) == {k \in Keys : orders[<<e, k>>].status = "CONFIRMED"}

\* No more orders are confirmed than the event had units: the purpose of the
\* conditional UPDATE and of giving each reserved unit back exactly once.
NoOversell == \A e \in Events : Cardinality(Confirmed(e)) <= Stock[e]

\* The purchases that have taken a unit of e and not yet settled it.
Holding(e) ==
    {r \in Requests : pc[r] \in {"debit", "release", "confirm"} /\ call[r].event = e}

\* Whatever crashes and whatever acknowledgement is lost, an event whose
\* duplicates never overlapped has no unit too many: what is for sale, held by
\* a purchase under way and sold is never more than there was.
NoUnitInvented ==
    \A e \in Events \ overlapped :
        phase[e] # "absent" =>
           remaining[e] + Cardinality(Holding(e)) + Cardinality(Confirmed(e)) <= Stock[e]

\* A customer who was charged for a key owns its confirmed order, or the
\* request that will write that order is on its way.
NoChargeWithoutStock ==
    \A u \in Users, e \in Events, k \in Keys : <<u, e, k>> \in paid =>
        \/ orders[<<e, k>>] = [user |-> u, status |-> "CONFIRMED"]
        \/ /\ orders[<<e, k>>] = NoOrder
           /\ \E r \in Requests :
                 pc[r] = "confirm" /\ call[r] = [user |-> u, event |-> e, key |-> k]

\* Nobody owns a unit that was not paid for, whatever faults and duplicates
\* happened between the debit and the order.
ConfirmedIsPaid ==
    \A e \in Events : \A k \in Confirmed(e) : <<orders[<<e, k>>].user, e, k>> \in paid

\* A confirmation is queued at most once for an order, and for none that
\* failed: losers of a race enqueue nothing.
OneJobPerOrder ==
    \A e \in Events, k \in Keys :
        /\ jobs[<<e, k>>] <= 1
        /\ jobs[<<e, k>>] = 1 => orders[<<e, k>>].status = "CONFIRMED"

\* An order reported to a client is the one that is stored, then and later: a
\* failed order never turns into a confirmed one behind the client's back.
AnswersMatchOrders ==
    \A r \in Requests : reply[r].status = "ok" => reply[r].order = OrderOf(r)

\* When nothing is in flight every unit is either for sale or sold: no unit
\* was lost by a failed purchase or a lost race, and none was invented.
StockSettled ==
    (\A r \in Requests : ~InFlight(r)) =>
        \A e \in Events :
            phase[e] # "absent" =>
               remaining[e] + Cardinality(Confirmed(e)) = Stock[e]

\* Every purchase call is answered.
EveryPurchaseAnswered ==
    \A r \in Requests : InFlight(r) ~> pc[r] = "answered"

\* Every confirmed order gets its confirmation job.
ConfirmedIsNotified ==
    \A e \in Events, k \in Keys :
        orders[<<e, k>>].status = "CONFIRMED" ~> jobs[<<e, k>>] = 1

-----------------------------------------------------------------------------
(* The flash sale implements the shop. *)

\* A charge whose order is still to be written by a request on its way.
UnderWay(u, e, k) ==
    /\ <<u, e, k>> \in paid
    /\ orders[<<e, k>>] = NoOrder
    /\ \E r \in Requests : pc[r] = "confirm" /\ call[r] = [user |-> u, event |-> e, key |-> k]

\* The shop takes the money when it sells, so what is under way is still there.
ShopFunds ==
    [u \in Users |-> balance[u] +
        SumFunctionOnSet([x \in Events \X Keys |-> Price[x[1]]],
                         {x \in Events \X Keys : UnderWay(u, x[1], x[2])})]

Sales == UNION {{<<orders[<<e, k>>].user, e, k>> : k \in Confirmed(e)} : e \in Events}

Store == INSTANCE Shop WITH funds <- ShopFunds, sold <- Sales

\* Every step of the engine is one atomic sale, money that comes or goes, or
\* nothing: the charge, the unit and the order come together, once for each key.
ImplementsShop == Store!Spec
=============================================================================
