------------------------------- MODULE Wallet -------------------------------
(***************************************************************************)
(* The wallet service (src/src/modules/wallet/wallet.service.ts) over its  *)
(* PostgreSQL tables and its Redis idempotency cache.                      *)
(*                                                                         *)
(* A request is one HTTP call, or one purchaseDeduct call of the flash     *)
(* sale; it makes one call in its life, and a client's retry is another    *)
(* request that carries the same key.  The steps of a request are the      *)
(* points at which the event loop or the database can switch to another    *)
(* one: the Redis lookup, the reads before the locks, each SELECT ... FOR  *)
(* UPDATE, the commit, the Redis write.  The writes of a transaction are   *)
(* invisible and its rows are locked until it commits, so they are one     *)
(* step with the commit.                                                   *)
(*                                                                         *)
(* A user has one wallet (Wallet.userId is unique), so wallets stand for   *)
(* their users too.  Wallets are numbers because the code locks them in    *)
(* the order of their ids.                                                 *)
(***************************************************************************)
EXTENDS Integers, Sequences, FiniteSetsExt

CONSTANTS
    Wallets,     \* ids of the wallets that may ever exist
    Requests,    \* the calls clients make
    Keys,        \* idempotency keys and purchase references
    Amounts,     \* sums of money a call may name (IsPositive in the DTOs)
    MaxBalance,  \* the largest value of a DECIMAL(18,2) column
    Opening,     \* the wallets present at the start, with their first deposit
    Fragile,     \* the requests whose process or connections may fail
    Free,        \* the lock of a row nobody holds
    Founder      \* the reference of the opening deposits

ASSUME WalletsAssumption == Wallets \subseteq Nat
ASSUME AmountsAssumption == Amounts \subseteq Nat \ {0}
ASSUME MaxBalanceAssumption == MaxBalance \in Nat
ASSUME OpeningAssumption ==
    /\ DOMAIN Opening \subseteq Wallets
    /\ \A w \in DOMAIN Opening : Opening[w] \in 0..MaxBalance
ASSUME NamesAssumption ==
    /\ Fragile \subseteq Requests
    /\ Free \notin Requests
    /\ Founder \notin Requests \cup Keys
    /\ Requests \cap Keys = {}

VARIABLES
    opened,   \* the wallets that exist (rows of Wallet)
    balance,  \* Wallet.balance
    ledger,   \* the LedgerEntry rows of each wallet, in commit order
    cache,    \* Redis: wallet:transfer:{user}:{key} -> the cached answer
    lock,     \* the transaction that holds the row lock of each wallet
    pc,       \* where each request is
    call,     \* what each request asked for
    snap,     \* the balances a transaction read with SELECT ... FOR UPDATE
    reply     \* the answer a request gave, or is about to give

vars == <<opened, balance, ledger, cache, lock, pc, call, snap, reply>>

-----------------------------------------------------------------------------
(* Data. *)

EntryTypes == {"DEPOSIT", "PURCHASE", "TRANSFER_OUT", "TRANSFER_IN"}
Refs == Keys \cup Requests \cup {Founder}

Entries == [type : EntryTypes, amount : Int, after : Int, ref : Refs]

\* A deposit and a purchase concern one wallet: their "to" is the wallet itself.
Calls == [op : {"deposit", "purchase", "transfer"}, wallet : Wallets,
          to : Wallets, amount : Amounts, ref : Keys \cup Requests]

NoCall == [op |-> "none"]

\* HTTP 404, 400 (twice) and 500.
Refusals == {"notFound", "selfTransfer", "insufficient", "failed"}

Results == [status : {"ok"}, from : Wallets, to : Wallets,
            amount : Int, balance : Int]
Answers == Results \cup [status : Refusals]
NoAnswer == [status |-> "none"]

Refused(why) == [status |-> why]

Phases == {"idle", "lookup", "begin", "locking", "committed", "answered"}

\* The type of the row by which a call is recognised when it is repeated.
TypeOf(op) ==
    IF op = "deposit" THEN "DEPOSIT"
    ELSE IF op = "purchase" THEN "PURCHASE" ELSE "TRANSFER_OUT"

Entry(type, amount, after, ref) ==
    [type |-> type, amount |-> amount, after |-> after, ref |-> ref]

\* findUnique on (walletId, referenceId, type).
Rows(w, type, ref) ==
    {i \in DOMAIN ledger[w] : ledger[w][i].type = type /\ ledger[w][i].ref = ref}
Recorded(w, type, ref) == Rows(w, type, ref) # {}
RowOf(w, type, ref) == ledger[w][CHOOSE i \in Rows(w, type, ref) : TRUE]

\* Variant of the operator below with a mistake in it, as are the others called
\* variants: a replay reports the balance of now.
ReplayCurrentBalance(c) ==
    LET row == RowOf(c.wallet, TypeOf(c.op), c.ref)
    IN  [status |-> "ok", from |-> c.wallet, to |-> c.to,
         amount |-> -row.amount, balance |-> balance[c.wallet]]

\* Variant: a replay leaves the balance out.
ReplayWithoutBalance(c) ==
    LET row == RowOf(c.wallet, TypeOf(c.op), c.ref)
    IN  [status |-> "ok", from |-> c.wallet, to |-> c.to, amount |-> -row.amount]

\* The answer that an existing row gives a repeated call.
Replay(c) ==
    LET row == RowOf(c.wallet, TypeOf(c.op), c.ref)
    IN  [status |-> "ok", from |-> c.wallet, to |-> c.to,
         amount |-> -row.amount, balance |-> row.after]

-----------------------------------------------------------------------------
(* Row locks. *)

Needed(r) == {call[r].wallet, call[r].to}
Held(r) == {w \in Wallets : lock[w] = r}

\* Variant: the rows are locked in any order.
NextLockUnordered(r, w) == w \in Needed(r) \ Held(r)

\* Transfers sort the two ids and lock the smaller one first.
NextLock(r, w) ==
    /\ w \in Needed(r) \ Held(r)
    /\ \A v \in Needed(r) \ Held(r) : w <= v

Ready(r) == pc[r] = "locking" /\ Held(r) = Needed(r)

\* Variant: the recipient's balance is the one checked.
ShortRecipient(r) == snap[r][call[r].to] < call[r].amount

\* The balance check, on the locked row of the wallet that pays.
Short(r) == snap[r][call[r].wallet] < call[r].amount

\* Commit and rollback both drop the locks of the transaction.
Released(r) == [w \in Wallets |-> IF lock[w] = r THEN Free ELSE lock[w]]
NoSnapshot == [w \in Wallets |-> 0]

EndTransaction(r) ==
    /\ lock' = Released(r)
    /\ snap' = [snap EXCEPT ![r] = NoSnapshot]

Answer(r, a) ==
    /\ pc' = [pc EXCEPT ![r] = "answered"]
    /\ reply' = [reply EXCEPT ![r] = a]

\* The transaction aborts, whatever it wrote is undone and the caller is told.
Abort(r, why) ==
    /\ EndTransaction(r)
    /\ Answer(r, Refused(why))
    /\ UNCHANGED <<opened, balance, ledger, cache, call>>

\* The transaction commits with these balances and ledgers.
Commit(r, newBalance, newLedger, a) ==
    /\ EndTransaction(r)
    /\ balance' = newBalance
    /\ ledger' = newLedger
    /\ pc' = [pc EXCEPT ![r] = "committed"]
    /\ reply' = [reply EXCEPT ![r] = a]
    /\ UNCHANGED <<opened, cache, call>>

-----------------------------------------------------------------------------
Init ==
    /\ opened = DOMAIN Opening
    /\ balance = [w \in Wallets |-> IF w \in DOMAIN Opening THEN Opening[w] ELSE 0]
    /\ ledger = [w \in Wallets |->
          IF w \in DOMAIN Opening /\ Opening[w] > 0
            THEN <<Entry("DEPOSIT", Opening[w], Opening[w], Founder)>>
            ELSE <<>>]
    /\ cache = [x \in Wallets \X Keys |-> NoAnswer]
    /\ lock = [w \in Wallets |-> Free]
    /\ pc = [r \in Requests |-> "idle"]
    /\ call = [r \in Requests |-> NoCall]
    /\ snap = [r \in Requests |-> NoSnapshot]
    /\ reply = [r \in Requests |-> NoAnswer]

\* AuthService.register creates the wallet with the user, balance 0.
ProvisionWallet(w) ==
    /\ w \notin opened
    /\ opened' = opened \cup {w}
    /\ UNCHANGED <<balance, ledger, cache, lock, pc, call, snap, reply>>

-----------------------------------------------------------------------------
(* Calls. *)

\* The randomUUID() of a deposit names that one call and no other.
CallDeposit(r, w, n) ==
    /\ pc[r] = "idle"
    /\ call' = [call EXCEPT ![r] = [op |-> "deposit", wallet |-> w, to |-> w,
                                    amount |-> n, ref |-> r]]
    /\ pc' = [pc EXCEPT ![r] = "begin"]
    /\ UNCHANGED <<opened, balance, ledger, cache, lock, snap, reply>>

CallPurchase(r, w, n, k) ==
    /\ pc[r] = "idle"
    /\ call' = [call EXCEPT ![r] = [op |-> "purchase", wallet |-> w, to |-> w,
                                    amount |-> n, ref |-> k]]
    /\ pc' = [pc EXCEPT ![r] = "begin"]
    /\ UNCHANGED <<opened, balance, ledger, cache, lock, snap, reply>>

CallTransfer(r, w, v, n, k) ==
    /\ pc[r] = "idle"
    /\ call' = [call EXCEPT ![r] = [op |-> "transfer", wallet |-> w, to |-> v,
                                    amount |-> n, ref |-> k]]
    /\ \/ /\ v = w
          /\ Answer(r, Refused("selfTransfer"))
       \/ /\ v # w
          /\ pc' = [pc EXCEPT ![r] = "lookup"]
          /\ UNCHANGED reply
    /\ UNCHANGED <<opened, balance, ledger, cache, lock, snap>>

\* redis.get: a hit ends the call, whatever else this request asks for.
Lookup(r) ==
    LET hit == cache[<<call[r].wallet, call[r].ref>>]
    IN  /\ pc[r] = "lookup"
        /\ \/ hit # NoAnswer /\ Answer(r, hit)
           \/ /\ hit = NoAnswer
              /\ pc' = [pc EXCEPT ![r] = "begin"]
              /\ UNCHANGED reply
        /\ UNCHANGED <<opened, balance, ledger, cache, lock, call, snap>>

\* The reads a transaction makes before it locks: the wallets must exist, and
\* a transfer whose key is already recorded is answered from the ledger.
Begin(r) ==
    LET c == call[r]
        known == Needed(r) \subseteq opened
        repeated == c.op = "transfer" /\ Recorded(c.wallet, "TRANSFER_OUT", c.ref)
    IN  /\ pc[r] = "begin"
        /\ \/ ~known /\ Answer(r, Refused("notFound"))
           \/ /\ known /\ repeated
              /\ pc' = [pc EXCEPT ![r] = "committed"]
              /\ reply' = [reply EXCEPT ![r] = Replay(c)]
           \/ /\ known /\ ~repeated
              /\ pc' = [pc EXCEPT ![r] = "locking"]
              /\ UNCHANGED reply
        /\ UNCHANGED <<opened, balance, ledger, cache, lock, call, snap>>

\* Variant: both rows are read with the first lock, the second before its own.
ReadBoth(r, w) ==
    [v \in Wallets |-> IF Held(r) = {} /\ v \in Needed(r) THEN balance[v] ELSE snap[r][v]]

\* What r knows of the balances when it has read row w.
Read(r, w) == [snap[r] EXCEPT ![w] = balance[w]]

\* SELECT ... FOR UPDATE returns when no other transaction holds the row, and
\* returns the row as last committed.
LockRow(r, w) ==
    /\ pc[r] = "locking"
    /\ NextLock(r, w)
    /\ lock[w] = Free
    /\ lock' = [lock EXCEPT ![w] = r]
    /\ snap' = [snap EXCEPT ![r] = Read(r, w)]
    /\ UNCHANGED <<opened, balance, ledger, cache, pc, call, reply>>

-----------------------------------------------------------------------------
(* The write phase of each transaction, under its locks. *)

\* A balance past the column's precision aborts the transaction.
ApplyDeposit(r) ==
    LET c == call[r]
        after == snap[r][c.wallet] + c.amount
    IN  /\ Ready(r)
        /\ c.op = "deposit"
        /\ \/ after > MaxBalance /\ Abort(r, "failed")
           \/ /\ after <= MaxBalance
              /\ Commit(r, [balance EXCEPT ![c.wallet] = after],
                    [ledger EXCEPT ![c.wallet] =
                       Append(@, Entry("DEPOSIT", c.amount, after, c.ref))],
                    [status |-> "ok", from |-> c.wallet, to |-> c.wallet,
                     amount |-> c.amount, balance |-> after])

ApplyPurchase(r) ==
    LET c == call[r]
        after == snap[r][c.wallet] - c.amount
        repeated == Recorded(c.wallet, "PURCHASE", c.ref)
    IN  /\ Ready(r)
        /\ c.op = "purchase"
        /\ \/ repeated /\ Commit(r, balance, ledger, Replay(c))
           \/ ~repeated /\ Short(r) /\ Abort(r, "insufficient")
           \/ /\ ~repeated /\ ~Short(r)
              /\ Commit(r, [balance EXCEPT ![c.wallet] = after],
                    [ledger EXCEPT ![c.wallet] =
                       Append(@, Entry("PURCHASE", -c.amount, after, c.ref))],
                    [status |-> "ok", from |-> c.wallet, to |-> c.wallet,
                     amount |-> c.amount, balance |-> after])

\* Variant: no unique constraint.
KeyNeverTaken(c) == FALSE

\* The unique constraint on (walletId, referenceId, type), for both rows.
KeyTaken(c) ==
    \/ Recorded(c.wallet, "TRANSFER_OUT", c.ref)
    \/ Recorded(c.to, "TRANSFER_IN", c.ref)

ApplyTransfer(r) ==
    LET c == call[r]
        out == snap[r][c.wallet] - c.amount
        in == snap[r][c.to] + c.amount
        stored == in <= MaxBalance /\ ~KeyTaken(c)
    IN  /\ Ready(r)
        /\ c.op = "transfer"
        /\ \/ Short(r) /\ Abort(r, "insufficient")
           \/ ~Short(r) /\ ~stored /\ Abort(r, "failed")
           \/ /\ ~Short(r) /\ stored
              /\ Commit(r, [balance EXCEPT ![c.wallet] = out, ![c.to] = in],
                    [ledger EXCEPT
                       ![c.wallet] = Append(@, Entry("TRANSFER_OUT", -c.amount, out, c.ref)),
                       ![c.to] = Append(@, Entry("TRANSFER_IN", c.amount, in, c.ref))],
                    [status |-> "ok", from |-> c.wallet, to |-> c.to,
                     amount |-> c.amount, balance |-> out])

\* After the commit: a transfer is cached for its retries (redis.set), then
\* the caller is answered.
Respond(r) ==
    LET c == call[r]
    IN  /\ pc[r] = "committed"
        /\ pc' = [pc EXCEPT ![r] = "answered"]
        /\ cache' = IF c.op = "transfer"
                      THEN [cache EXCEPT ![<<c.wallet, c.ref>>] = reply[r]]
                      ELSE cache
        /\ UNCHANGED <<opened, balance, ledger, lock, call, snap, reply>>

-----------------------------------------------------------------------------
(* Faults. *)

\* A transaction timeout, a lost connection, a Redis error or a crash of the
\* process: the open transaction is rolled back, and one that has committed
\* stays committed although the caller is told of a failure.
Interrupt(r) ==
    /\ r \in Fragile
    /\ pc[r] \notin {"idle", "answered"}
    /\ Abort(r, "failed")

\* The cached answer reaches its TTL, or Redis drops it.
Evict(w, k) ==
    /\ cache[<<w, k>>] # NoAnswer
    /\ cache' = [cache EXCEPT ![<<w, k>>] = NoAnswer]
    /\ UNCHANGED <<opened, balance, ledger, lock, pc, call, snap, reply>>

-----------------------------------------------------------------------------
\* What a request does by itself, once called.
Step(r) ==
    \/ Lookup(r)
    \/ Begin(r)
    \/ \E w \in Wallets : LockRow(r, w)
    \/ ApplyDeposit(r)
    \/ ApplyPurchase(r)
    \/ ApplyTransfer(r)
    \/ Respond(r)

Next ==
    \/ \E w \in Wallets : ProvisionWallet(w)
    \/ \E r \in Requests, w \in Wallets, n \in Amounts :
          \/ CallDeposit(r, w, n)
          \/ \E k \in Keys : CallPurchase(r, w, n, k)
          \/ \E v \in Wallets, k \in Keys : CallTransfer(r, w, v, n, k)
    \/ \E r \in Requests : Step(r)
    \/ \E r \in Requests : Interrupt(r)
    \/ \E w \in Wallets, k \in Keys : Evict(w, k)

Spec == Init /\ [][Next]_vars

\* Node and PostgreSQL keep serving a request that can move; nothing makes a
\* client call, a process fail or a cached answer expire.
FairSpec == Spec /\ \A r \in Requests : WF_vars(Step(r))

-----------------------------------------------------------------------------
(* Properties. *)

\* Types: every variable holds what the schema and the service put there.
TypeOK ==
    /\ opened \subseteq Wallets
    /\ balance \in [Wallets -> Int]
    /\ ledger \in [Wallets -> Seq(Entries)]
    /\ cache \in [Wallets \X Keys -> Results \cup {NoAnswer}]
    /\ lock \in [Wallets -> Requests \cup {Free}]
    /\ pc \in [Requests -> Phases]
    /\ call \in [Requests -> Calls \cup {NoCall}]
    /\ snap \in [Requests -> [Wallets -> Int]]
    /\ reply \in [Requests -> Answers \cup {NoAnswer}]

\* A balance is never negative and never past its column, now or in any row
\* of the audit trail, however calls on the same wallets interleave.
NoOverdraft ==
    \A w \in Wallets :
        /\ balance[w] \in 0..MaxBalance
        /\ \A i \in DOMAIN ledger[w] : ledger[w][i].after \in 0..MaxBalance

\* The balance after row i of a trail; 0 before the first row.
After(trail, i) == IF i = 0 THEN 0 ELSE trail[i].after

Chained(trail) ==
    \A i \in DOMAIN trail : After(trail, i) = After(trail, i - 1) + trail[i].amount

\* The trail of a wallet can be replayed: each row's balanceAfter is the one
\* before it plus its amount, and the last one is the current balance.  Two
\* writers that computed from the same balance would break the chain.
RunningBalance ==
    \A w \in Wallets :
        Chained(ledger[w]) /\ balance[w] = After(ledger[w], Len(ledger[w]))

\* What the rows of a trail brought in from outside and took out of the system.
Net(trail) ==
    SumFunctionOnSet([i \in DOMAIN trail |-> trail[i].amount],
                     {i \in DOMAIN trail : trail[i].type \in {"DEPOSIT", "PURCHASE"}})

\* Money is neither made nor lost by transfers: all balances together are what
\* was deposited less what was spent.
MoneyConserved ==
    SumFunctionOnSet(balance, Wallets)
       = SumFunctionOnSet([w \in Wallets |-> Net(ledger[w])], Wallets)

\* No key is ever charged, paid or credited twice to one wallet, whichever of
\* the cache, the pre-lock read and the unique constraint a repeat slips by.
NoDoubleSpend ==
    \A w \in Wallets : \A i, j \in DOMAIN ledger[w] :
        /\ ledger[w][i].type = ledger[w][j].type
        /\ ledger[w][i].ref = ledger[w][j].ref
        => i = j

\* Row i of the wallet of c is the one that answer a reports for call c.
Reports(a, w, type, ref) ==
    \E i \in Rows(w, type, ref) :
        /\ a.from = w
        /\ a.balance = ledger[w][i].after
        /\ a.amount \in {ledger[w][i].amount, -ledger[w][i].amount}

\* A caller told of success, first or on a replay from the cache or the
\* ledger, was told the amount and the balance of the row committed for that
\* call's key, and so was everything the cache still holds.
AnswersBackedByLedger ==
    /\ \A r \in Requests :
          reply[r].status = "ok" =>
             Reports(reply[r], call[r].wallet, TypeOf(call[r].op), call[r].ref)
    /\ \A w \in Wallets, k \in Keys :
          cache[<<w, k>>] # NoAnswer => Reports(cache[<<w, k>>], w, "TRANSFER_OUT", k)

\* r waits for a row that s has locked.
WaitsFor(r, s) ==
    /\ pc[r] = "locking"
    /\ \E w \in Wallets : NextLock(r, w) /\ lock[w] = s

\* No circle of transactions waits for one another's rows, whatever the
\* directions of the transfers: the reason for the fixed lock order.
NoLockCycle ==
    \A S \in (SUBSET Requests) \ {{}} : \E r \in S : ~ \E s \in S : WaitsFor(r, s)

\* A call is refused for want of money only if, at that moment, its wallet
\* holds less than it asked for: the check is on the locked, current balance.
RefusalIsCurrent ==
    [][\A r \in Requests :
          /\ reply[r] # Refused("insufficient")
          /\ reply'[r] = Refused("insufficient")
          => balance[call[r].wallet] < call[r].amount]_vars

\* Every call is answered: none waits for a lock for ever.
EveryCallAnswered ==
    \A r \in Requests : pc[r] # "idle" ~> pc[r] = "answered"

\* What the README says of two calls that carry one key at the same time: the
\* loser of the race is not given an error but the winner's result.
LoserGetsWinnersResult ==
    [][\A r \in Requests :
          /\ pc[r] = "locking" /\ pc'[r] = "answered"
          /\ call[r].op = "transfer"
          /\ Recorded(call[r].wallet, "TRANSFER_OUT", call[r].ref)
          => reply'[r].status = "ok"]_vars

\* What the API says of a repeated key: it returns the original result.  So a
\* transfer answered with success names a wallet that its key has credited.
RecipientWasCredited ==
    \A r \in Requests :
        /\ call[r].op = "transfer"
        /\ pc[r] = "answered" /\ reply[r].status = "ok"
        => Recorded(reply[r].to, "TRANSFER_IN", call[r].ref)

-----------------------------------------------------------------------------
(* The wallet implements the account book. *)

\* The effects recorded since the start.
Applied ==
    UNION {{[type |-> ledger[w][i].type, account |-> w, ref |-> ledger[w][i].ref] :
              i \in {j \in DOMAIN ledger[w] : ledger[w][j].ref # Founder}} :
           w \in Wallets}

Book == INSTANCE AccountBook WITH
    Accounts <- Wallets, funds <- balance, applied <- Applied

\* Every step of the service is one atomic operation of the book, or changes
\* nothing there: callers see deposits, purchases and transfers in one order,
\* never below zero and each key once.
ImplementsBook == Book!Spec
=============================================================================
