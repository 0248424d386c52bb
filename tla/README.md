# Verification of the wallet and flash-sale backend

TLA+ models of the NestJS backend in `src/`: wallets with transfers, a
flash-sale engine, sessions, a notification worker and the pipeline of guards
and filters in front of them, over PostgreSQL, Redis and BullMQ. The models are
checked with TLC; the theorems about all of these are
checked with the TLA+ proof system. Source paths below are
relative to the repository; line numbers of every definition are in
`PROJECT.json` under `map`.

## The system

| Component | State | Operations | Interacts with |
|---|---|---|---|
| Wallet service (`src/modules/wallet/wallet.service.ts`) | tables `Wallet`, `LedgerEntry`; Redis `wallet:transfer:{user}:{key}` | `provisionWallet`, `deposit`, `purchaseDeduct`, `transfer`, `getMe`, `verifyInvariant` | called by the controllers, by `AuthService.register` and by the flash sale |
| Flash-sale engine (`src/modules/flash-sale/flash-sale.service.ts`) | tables `FlashSaleEvent`, `Order` | `createEvent`, `getEvent`, `purchase` | debits the wallet, adds jobs to the queue |
| Accounts and sessions (`src/auth/auth.service.ts`) | table `User`; Redis `refresh:{user}:{jti}` | `register`, `login`, `refresh`, `logout` | provisions the wallet |
| Notifications (`src/modules/notifications`) | BullMQ queue in Redis | `process`, `onFailed` | jobs come from the flash sale |
| Access control (`src/auth/guards`, `src/auth/strategies`) | role in the access token | `RolesGuard`, `JwtStrategy`, Bull Board middleware | reads tokens that `AuthService` signs; in front of the controllers |
| HTTP edge (controllers, `src/common`, `src/health`, `src/app.module.ts`) | rate-limit counters in Redis | routes, validators, error filter, throttler, health check, correlation ids | calls the services |
| Settings (`src/config`, `src/auth/utils/ttl.util.ts`) | environment, read once | `validate`, `ttlToSeconds` | lifetimes of tokens and keys, limits |

Every HTTP request runs as its own chain of awaits in one or several Node
processes. Two requests can interleave at each await; what orders them is
PostgreSQL (row locks, unique constraints, single-statement updates at READ
COMMITTED) and Redis (single commands). A process can die between any two
awaits and a client can repeat any call.

What is hard here, and the properties that answer it:

* **Wallet.** Two transactions on one row, opposite transfers, one key sent
  several times by way of the cache, the pre-lock lookup and the constraint,
  faults around the commit. Correct means: balances never negative
  (`NoOverdraft`), each wallet's trail chains to its balance
  (`RunningBalance`), transfers conserve money
  (`MoneyConserved`), a key has one effect (`NoDoubleSpend`), answers agree
  with the ledger (`AnswersBackedByLedger`), refusals are justified
  (`RefusalIsCurrent`), no circle of waiting (`NoLockCycle`,
  `EveryCallAnswered`), a statement can be followed and an audit errs only when
  money moved (`StatementAgrees`, `AlarmMeansMovement`), and all of it together:
  the service behaves as an atomic account book (`ImplementsBook`).
* **Flash sale.** Reserving, paying and writing the order are three separate
  transactions, undone by hand. Correct means: no oversell, no charge without
  stock, every unit accounted for, one job for each order, answers that stay
  true; when nothing fails, an atomic shop (`ImplementsShop`).
* **Sessions.** Each operation is several Redis commands and SQL statements.
  Correct means: sessions end together when a token is reused
  (`RevokedTogether`) and nobody is taken for a thief without cause
  (`SingleUseNeverRevoked`), a token is exchanged once by a client that waits
  (`CarefulRotatedOnce`), and such a client's logout is final (`LogoutIsFinal`).
  A key and its token get their lifetimes from two readers of one setting.
* **Notifications.** Attempts, lost leases and restarts. Correct means: every
  job is settled, none is lost silently or reported as permanently failed while
  it has attempts left.
* **Gateway.** Roles change while calls are under way and tokens keep the old
  ones; Bull Board has a check of its own; two generators name a request; dates
  are compared with a clock that moves; the health check is asked when the stores
  it asks are down.

## Modules

| Module | What it is |
|---|---|
| `AccountBook` | abstract specification of the wallets: each deposit, purchase and transfer is one atomic step, made once for each key |
| `Wallet` | the wallet service, statement by statement where statements can interleave |
| `WalletReaders` | `Wallet` with `getMe` and `verifyInvariant` reading beside it |
| `Shop` | abstract specification of the flash sale: charge, unit and order in one atomic step |
| `FlashSale` | the flash-sale engine; a debit is one atomic step, as `ImplementsBook` entitles it to be |
| `Durations` | how `ttlToSeconds` and jsonwebtoken read a lifetime |
| `Sessions` | accounts and refresh-token sessions, with lifetimes from `Durations` |
| `Notifications` | the queue and its worker |
| `Gateway` | the way of a request from the logger to the error filter, with the roles in tokens and table |
| `SumProofs` | theorems about sums over finite sets, for the properties that add up money |
| `WalletProofs`, `WalletBookProofs`, `WalletReadersProofs`, `FlashSaleProofs`, `SessionsProofs`, `NotificationsProofs`, `GatewayProofs` | theorems about `Wallet`, `WalletReaders`, `FlashSale`, `Sessions`, `Notifications` and `Gateway` |
| `MCWallet`, `MCWalletReaders`, `MCFlashSale`, `MCSessions`, `MCNotifications`, `MCGateway` | constants for TLC |

`WalletReaders` EXTENDS `Wallet`, `Sessions` EXTENDS `Durations`; `Wallet` and
`FlashSale` instantiate their abstract specifications under a refinement
mapping. Several definitions are preceded by a *variant*, the same operator with
a plausible mistake in it. No specification uses a variant; each is the mutation
with which a property was seen to fail (`mutants` in `PROJECT.json`).

### Wallet

`opened`, `balance` and `ledger` are the tables, `cache` the Redis keys, `lock`
the row locks. A request `r` goes through `pc[r]`: `lookup` (Redis), `begin`
(the reads before the locks), `locking` (one `LockRow` for each `SELECT ... FOR
UPDATE`), `committed`, `answered`. The writes of a transaction are one step with
its commit (`ApplyDeposit`, `ApplyPurchase`, `ApplyTransfer`): until then
nobody sees them and the rows are locked, so nothing can come between. The
reads of `Begin` are one step because wallets are never deleted and a wallet
found by the first read is still there at the last. `Interrupt` is every fault:
the transaction timeout, a lost connection, a Redis error, a crash; before the
commit it rolls back, after it only the caller is deceived. `Evict` drops a
cached answer.

Wallets stand for users (one each). Money is in whole units; `MaxBalance` is
the bound of `DECIMAL(18,2)`. Whether a repeated key comes with other arguments
is up to the client, so calls are free to differ.

### WalletReaders

One reader beside the calls of `Wallet`, for any wallet in `Watched`.
`ReadBalance` is the first query of either operation; `ShowEntries` is the
second of `getMe` with its answer, `SumEntries` the second of `verifyInvariant`
with its verdict, and any number of commits may come between. Reads change
nothing, so one reader at a time shows all that several could see. The entries
are ordered by `createdAt`, taken to follow the order of the commits because the
row is locked when an entry is written. `limit` is not validated by the
controller: a negative one makes Prisma take rows from the other end, which
`Latest` does too.

### FlashSale

One action for each statement of `purchase()`: `Find`, `Check`, `Reserve`,
`Poll`, `Debit`, `Release`, `Fail`, `Confirm`, `Conflict`, `Enqueue`. `failure`
is the error that the `catch` block holds on to while it compensates. `Debit`
includes the case that the charge was committed but its acknowledgement lost;
`Crash` ends a request at any statement. `TopUp` and `Spend` stand for the
user's other calls to the wallet, deposits and transfers, between any two of
these; only `Spenders` transfer money out. `Careful` is the set of keys that
clients send again only after an answer; all other keys may be in flight several
times at once. `Conflict` merges two statements of `finalizeOrder`, giving a unit
back and reading the order again: an order that is there never changes (the
code neither updates nor deletes orders), so nothing between them could make a
difference to the answer.
`overlapped` is history: the events for which that has happened.

`ImplementsShop` maps the engine to `Shop`: a unit counts as sold when its order
is CONFIRMED, and money of a charge whose order is still on its way counts as
still there, so the step that writes the order is the sale. Deposits and
transfers are the shop's own, the latter of `Spenders` only: money that leaves the
wallet of anyone else has bought something. Everything else,
reservations, polls, compensations, failed orders, is a stutter.

### Sessions

One action for each Redis command or SQL statement of `register`, `login`,
`refresh` and `logout`. A token stands for its jti. `earlier` and `late`
are history: the sessions a user had when a refresh came, and the requests whose
token ran out between its verification (`auth.service.ts:78`) and `redis.get`
(`:81`). The code answers such a request as a reuse, though the comment at `:83`
speaks of rotated and forged tokens only; `SingleUseNeverRevoked` says so too.
`WipeSessions` and `EndSession` may take effect and still be answered with an
error. `ttl` is
JWT_REFRESH_TTL, chosen at the start and kept. With a setting that
`ttlToSeconds` refuses, or one of zero, which Redis refuses, `IssueTokenPair`
fails after everything before it has been done. A key expires no earlier than
its token if `TtlToSeconds` is no less than `JwtSeconds`, as the token is signed
first; otherwise at any time. Clients only send tokens an answer gave them. Whether a password
matches is left open. Users are never deleted by the code, so the "User no
longer exists" branch of `refresh` is not taken.

### Notifications

`process()` and `onFailed()` are the code's; taking a job, its lease, the
delayed set and the treatment of stalled jobs are BullMQ's, modelled from the
options the code gives it and marked external. `Process` either sends or throws;
its branch for a job of an unknown name is left out, as only confirmations are ever
added. Bull Board's button that retries a failed job by hand is not modelled.
A job given up because it stalled too often is logged by `onFailed` as one that
"will retry" (`Stalled`); `PermanentMeansExhausted` is about the jobs reported as
permanently failed and says nothing of these.
`LeaseLapses` is a process too busy to renew the lock of its job, which goes on
working on it. The delays themselves are left out; with five attempts there are
four of them (2, 4, 8 and 16 seconds; the README's 32 is never waited).

### Durations

A setting is a number with a unit. `TtlToSeconds` is the table of `ttl.util.ts`,
`Parsable` its pattern, `JwtSeconds` jsonwebtoken's reading (external): the two
agree on `s`, `m`, `h` and `d`, not on a number alone, which is seconds for one
and milliseconds for the other, and only the library knows `w` and `y`.

### Gateway

One action for each stretch between two awaits: `RefuseBody` (Nest's body parser),
`Arrive` (pino's id, then the correlation middleware), `VisitBoard` (the Bull
Board middleware, outside Nest's pipeline), `Throttle`, `Admit` (guards, then
pipes), and the handler: `Register`, `ReadRole` and `Sign` for the calls that
issue tokens, `CreateEvent`, `Probe` and `Report` for the health check, `Serve`
for all others, `Fail` for what a service throws, which `Throw` turns into the
answer of `HttpExceptionFilter`. `Routes` is the table of all routes with guards,
limits, and statuses. A token is the user, the role and the time it carries.
`SetRole` is the UPDATE by which the README makes an administrator; `lost`,
`windows` and the `asked` of a request are history. Tokens are never forged, all
clients are behind one address (so one counter for each route), and the window of
a counter may end at any moment.

The order of what runs before the code of the repository is Nest's, and taken from
it: the body parser, then pino, then the middlewares of `AppModule` and of the
modules it imports. A request that the body parser refuses (400, 413, or 500 for
an error the filter does not know) has no id, no header with one, and an error
whose `correlationId` is "unknown" (`http-exception.filter.ts:29`).

`Outages` says at which ticks the database and Redis are down. `Throttle` needs
Redis except on the health route, and throws without it. The three probes of the
health check run side by side, each asks its store at a moment of its own, and
`catch` turns an error into "down"; the answer waits for all three. The models have
no hanging call: that a probe comes back at all is up to the client
library, and nothing here says that the health check is always answered. Every other service call may throw at any time.

## Runs

| Run | Instance | What it shows |
|---|---|---|
| `wallet_safety` | 2 wallets (one registered later), 3 requests of any kind, 2 shared keys, amounts 1 and 2, faults everywhere | types, no overdraft, trails, conservation, no double effect, honest answers and refusals, no waiting circle, refinement of `AccountBook` |
| `wallet_readers` | 2 wallets (one registered later), 2 requests, 1 key, a reader, fairness | statements can be followed, alarms mean movement, every call is answered |
| `wallet_loser`, `wallet_replay` | no faults, 2 requests with one key | **violated**: see findings |
| `flash_any` | 2 users sharing 2 keys, both transferring money out, 3 requests, 1 unit, all faults | orders are paid, one job each, answers stay true; no unit invented where no duplicates overlapped |
| `flash_funded` | no faults, duplicates in flight only of a user who can pay and transfers nothing, 2 units | refinement of `Shop`, no oversell, no unit lost, every call answered, every order notified |
| `flash_oversell`, `flash_charge` | no faults, duplicates in flight of a user whose money is short | **violated**: see findings |
| `sessions_any` | 2 users, 4 requests, 3 tokens, 3 settings of the lifetime, expiry and faults | revocations are complete and justified, a careful client rotates once and logs out for good |
| `sessions_twice` | 1 user, no faults | **violated**: see findings |
| `notifications` | 2 jobs, 2 workers, 5 attempts, 1 stall | every job settled, none lost or reported as permanently failed too early |
| `gateway` | 1 user, 2 requests on 6 routes, 4 moments, an outage of each store | rights end with their tokens, one id for each request, windows of events, a health check that tells what was down |

Why the bounds are enough. The locks, constraints and compensations relate two
requests that meet; a third is there to come in between (the one that changes
the balance, takes the freed unit, sends the key again). Two wallets suffice for
opposite transfers; `wallet_readers` has one that registers late, and two commits
between the queries of a reader, one more than its smallest limit shows. Two keys
tell a repeat from a new call. `MaxBalance` = 3 is passed by a deposit of 2, so
the column's limit is met; in `FlashSale` it only bounds the deposits, at what the
keys of the user can buy (in `flash_any` at one purchase). The polls are cut from 5 to 2: a first that is not the
last, and the last. One unit of stock makes every race a race for the last unit;
`flash_funded` has two so that a request can succeed beside a conflict.
`flash_oversell` needs four requests: two duplicates, one that takes the unit in
between and one that takes the unit too many. The settings of `sessions_any` are
one on which the readers agree, one on which they do not, and one that fails. In
`gateway` one request obtains a token and the other uses it; its six routes have
one for each guard, handler and limit (the default limit is cut to 1, so that it
is met), the token lives 2 of the 4 moments, the database is down at the second and
Redis at the third (so a health check can see either, both or none), and the dates
are past, present or future by the time they are validated, or unreadable.

Runs end when every request has been answered, so deadlock is not checked; that
nothing gets stuck before is what the liveness properties say. Symmetry is used
in safety runs only, over requests and, where no assumption of the instance
tells them apart, keys and tokens.

Fairness. `ReadersSpec` and the `FairSpec` of `FlashSale` have weak fairness of
each request's own steps: Node and the database keep running a request that can
move. A request waiting for a row is not able to move, and no strong fairness
is assumed: each wallet call locks a row once, so finitely many requests cannot
keep a row from another for ever. Clients, readers, the clock, faults and expiry
are not fair. In `Notifications` the workers and BullMQ's timers are fair,
failures, lost leases and crashes are not bounded except by the attempts and
stalls.

## Findings

* `flash_oversell`: two requests with one key reserve a unit each (the second
  takes it after a release or when two are left), both fail to pay, both release. The one that
  loses the race to write the FAILED order releases again in `onConflict`. The
  stock now has a unit too many, and with it two orders of a one-unit event are
  confirmed. The other callers of `finalizeOrder` do not release first, which is
  why `NoUnitInvented` (events without overlapping duplicates) and `flash_funded`
  (duplicates can pay) hold.
* `flash_charge`: of two duplicates the first cannot pay and writes FAILED; the
  money arrives, the second pays, finds the FAILED order, gives the unit back
  and answers with FAILED. The customer is charged for an order that failed.
* `wallet_loser`: a transfer that loses a race to its own duplicate is answered
  with an error (a 400 for the balance, or a 500 for the uncaught constraint
  violation), not with the winner's result. No money is moved twice.
* `wallet_replay`: a key that is sent again with another recipient is answered
  with success, the amount of the first transfer and the wallet of the second
  recipient, who got nothing. The documents promise the original result.
* `sessions_twice`: two refreshes of one token that overlap both succeed.

What the models show beside these. The Bull Board middleware wants the scheme
spelt `Bearer` with one space after it, where the guards take any case and any
space; its comment (`bull-board-admin.middleware.ts:9-12`) says that it protects
the board "the same way". The difference only ever refuses more (`RightsExpire`
covers the board). A token that runs out between its verification and the look-up
of its session is answered as a reuse, and all sessions of its user end. A refresh
whose answer was lost counts as a reuse when it is repeated; a session issued while
its user's sessions are being revoked survives, and so does one issued by a refresh
that overlaps a logout; an access token keeps its role until it expires, whatever
the table says.

## Proofs

`WalletProofs` proves, for any finite or infinite sets of wallets, requests and
keys, any amounts and any column bound, from the assumptions named in `Wallet`
(ids are naturals, amounts are positive, opening balances fit, names differ):

* `Invariance`: `Spec => []IInv`;
* `TypeCorrect`, `NeverOverdrawn`, `TrailReplays`: `TypeOK`, `NoOverdraft` and
  `RunningBalance` always hold;
* `RefusalsAreCurrent`: the action property `RefusalIsCurrent`;
* `NeverDeadlocked`, `ServiceNeverStands`: `NoLockCycle`, and that while calls are
  under way one of them waits for no row, with wallets whose ids are bounded;
* `CallsComeNearer`: a call has at most seven steps from its start to its answer,
  each of its own brings it nearer and none of another's takes it back.

The argument. `NoOverdraft` and `RunningBalance` are not inductive: the write
phase computes from `snap`, the balances as they were read under the locks. The
invariant therefore adds that a row is locked only by a transaction in its
locking phase that needs it (`LocksHeld`), and that what a transaction read
under a lock it holds is the current balance (`SnapshotIsCurrent`), which every
commit preserves because it writes only rows it has locked itself. `CallsMade`
keeps a transfer from naming one wallet twice, without which its two writes
would be to one row; `ResultsReady` keeps refusals out of the cache. The new row
of a commit follows from the last one (`AppendChain`), one lemma for each kind
of step carries the rest. `RefusalIsCurrent` follows from `SnapshotIsCurrent`
alone. `NoLockCycle` is the lock order: a transaction that is locking holds only
rows below those it still needs (`LockOrder`, inductive on top of `IInv`), so of a
set of requests that all wait for each other the one that waits for the greatest
row waits for a request that needs a greater one still; the greatest is picked
by the well-foundedness of the naturals. A transaction that waits, waits for one
that is under way (`LocksHeld`), so if all waited they would be such a set. What a
call has before it is measured by `Distance`, with the locks it still lacks.

`FlashSaleProofs` proves, for any users, events, stock, prices, keys and
requests, from the assumptions named in `FlashSale` (stock is positive, prices
and opening balances are naturals):

* `SaleTypeCorrect`: `TypeOK`;
* `NoFreeOrder`, `AnswersStayTrue`, `JobsNeverDoubled`: `ConfirmedIsPaid`,
  `AnswersMatchOrders` and `OneJobPerOrder`, with any overlap of repeated keys
  and any faults;
* `UnitsConserved`: `NoUnitInvented`, with any faults, when there are finitely
  many keys and requests (the property counts them);
* `NeverOversold`: `NoOversell`, under the further hypothesis `CarefulClients`:
  every key is sent again only after an answer. Finding `flash_oversell` shows
  that it is needed;
* `UnitsSettled`, `DuplicatesDoNotOversell`: `StockSettled` and `NoOversell`, with
  any number of duplicates in flight, when nothing fails (`NoFaults`), the sale is
  finite (`FiniteSale`) and a user whose keys may be in flight twice has money for
  all that the keys can buy and transfers none of it (`FundedClients`);
* `ChargedIsServed`, `FlashSaleImplementsShop`: `NoChargeWithoutStock` and
  `ImplementsShop`, the refinement of `Shop`, when besides no two users share keys
  (`OwnKeys`);
* `PurchasesComeNearer`: a purchase has at most 8 + `Attempts` steps from its call
  to its answer, and nothing takes it back, with any overlap and any faults.

`flash_funded` is an instance of these four hypotheses; `flash_oversell` and
`flash_charge` violate `FundedClients` alone and with it two of these properties.

The argument. Types need `Progress`, what a request knows at each point of
`purchase()`. An order that is there is never replaced (`OrdersStay`, the unique
constraint), which makes an answer that named it true for ever; the request that
writes a CONFIRMED order has paid (`PaidFirst`) and is the only one that will
queue its job (`Heralds`). Stock is not inductive by itself: `Conflict` gives a
unit back without asking whether the request still has one. For an event not in
`overlapped` a key is in flight once (`Alone`), so the order of a request that
has got past `Find` cannot appear behind its back and `Conflict` is never reached
(`Unordered`), whatever goes on at other events (`Elsewhere`); and no one is past
`Check` for an event that does not exist yet (`Untouched`), so `CreateEvent`
starts from nothing held or sold. Then each step moves a unit between the three
places that `NoUnitInvented` adds up, or loses it in a crash. With careful clients
`overlapped` stays empty.

When duplicates overlap, the argument is about money. A client that may do so
always has enough for everything it has not paid for yet (`Solvent`, a sum over
unpaid keys that a debit lowers by as much as the wallet), so the only requests
whose debit is refused are those alone with their key (`Poor`), and a FAILED order
never meets a request in flight (`Unraced`). Whoever reaches `Conflict` thus still
keeps the unit it gives back, and what is for sale, kept by requests in flight
(`Keeping`) and sold is the stock exactly (`Account`). Nothing in flight then
leaves nothing kept. For the refinement, a charge without its order has a request
on its way to write it (the invariant behind `ChargedIsServed`), so the money the
mapping calls still there is a sum of prices over those charges (`Due`): a debit
moves money from the wallet to that sum, a confirmation takes it out and is the
sale, and everything else stutters.

`WalletBookProofs` proves, from the same assumptions as `WalletProofs`:

* `EachKeyOnce`: `NoDoubleSpend`;
* `WalletImplementsBook`: `Spec => ImplementsBook`, the refinement of
  `AccountBook` (its initial states and every step);
* `AnswersInLedger`: `AnswersBackedByLedger`;
* `TransfersConserve`: `MoneyConserved`, for finitely many wallets (it adds up
  their balances);
* `RecipientsWereCredited`: `RecipientWasCredited`, of behaviours in which no key of
  a wallet is sent with two recipients (`OneRecipient`). Finding `wallet_replay`
  violates that alone.

The argument. By `SnapshotIsCurrent` a step either leaves balances and trails
alone or is one of three commits computed from current balances (`NextBooks`),
and each adds to a trail a row of a kind it does not have (`Extends`): the
constraint or the lookup under the lock says so for transfers and purchases; for
a deposit it is `Fresh`, that a random reference is in no row before its deposit
commits. `Found` adds that locked wallets exist, which makes each commit one
operation of the book, and all other steps a stutter or `Open`. Rows are only
added, so what backs an answer backs it for ever (`BackedStays`); a hit repeats
an answer that was backed, a replay reads its row. Of the three commits a deposit
and a purchase change one balance and the `Net` of one new row by the same amount;
a transfer changes two balances by opposite amounts and adds two rows that `Net`
leaves out, so both sums of `MoneyConserved` move together. A row that a transfer
left in its sender's trail goes back to a request whose recipient was credited
(`Sender`); a replay has that request's key, so with `OneRecipient` its recipient.

`WalletReadersProofs` proves, for any wallets, calls and limits:

* `StatementsAgree`: `StatementAgrees`;
* `AlarmsAreMovement`: `AlarmMeansMovement`.

A reader takes only stuttering steps of the wallets, so their invariant holds
beside it; trails only grow at their ends (`TrailsGrow`), so the balance read
first stays that of its row (`ReadInv`), and what is shown is a stretch of a
chained trail in reverse (`LatestRows`). The amounts of a chained trail add up to
the balance of its last row (`ChainSum`), so an audit that finds another sum has
read another trail.

`SumProofs` has what these proofs and those of the flash sale need of the
community operator `SumFunctionOnSet`, which is defined by recursion over subsets:
that the recursion has a solution, that the sum is a number, that it depends on
its terms only and that any term may be taken out first (`SumTakeOut`). The usual
induction over finite sets is out of this prover's reach; each lemma takes
instead a smallest subset for which it fails (`SmallestSubset`) and shows that a
smaller one fails too.

`SessionsProofs` proves, for any users, tokens, requests and settings:

* `KeyOutlivesToken`: for every setting both readers take, the key lives at least
  as long as the token;
* `SessionsTypeCorrect`, `LogoutAlwaysFinal`: `TypeOK` and the action property
  `LogoutIsFinal`;
* `RegisteredOnceAlways`, `SingleUseNeverRevokedAlways`, `RevokedTogetherAlways`,
  `CarefulRotatedOnceAlways`: `RegisteredOnce`, `SingleUseNeverRevoked`,
  `RevokedTogether` and `CarefulRotatedOnce`.

The argument. What every step keeps is said once (`Kept`): owners stay, a session
that has ended stays ended, answers and calls stay. What a call may have done so
far is one invariant for each property. A registration that succeeded has its
user in the table, so the next one fails (`Registrations`). A session that has
ended was ended by its age, by a call that carried its token, or by a revocation
that some other reuse began (`Endings`); its age is the token's only because
`KeyOutlivesToken`, so a first use that finds no session was late or follows a
reuse (`Misused`). A logout that was answered has ended its session (`LoggedOut`). A revocation under way has listed every old session that is
still there (`Sweeps`). A token that has been rotated has no session, and a
client that waits cannot be between the read and the deletion twice
(`Rotations`).

`NotificationsProofs` proves, for any jobs, workers, attempts and stalls:

* `QueueTypeCorrect`, `DoneAlwaysSent`, `PermanentAlwaysExhausted`: `TypeOK`,
  `DoneMeansSent` and `PermanentMeansExhausted`;
* `OneNoticeAlways`: `OneNoticePerRun`, for finitely many workers (the argument
  counts them);
* `JobsComeNearer`: every step taken for a job brings it nearer to being settled,
  and no crash, stall or late worker takes it back.

The argument. A lease is held on an active job by a worker that runs it
(`Leased`), and a job that may still run has attempts and stalls left (`Spared`),
so a stalled job is never reported as out of attempts. Notices are counted by an
account: those sent, the workers that still may send (`Trying`) and the run a
waiting job is due are never more than one and the stalls (`Account`); a failed
attempt gives back the place that its retry takes.

`GatewayProofs` proves all that the run `gateway` checks, for any users, requests,
routes called, limits, lifetimes and dates: `TypesAlwaysHold`,
`TokensAlwaysTellRoles`, `RightsAlwaysExpire`, `IdsAlwaysAgree`,
`EventsAlwaysHaveWindow` and `HealthAlwaysTells`, the latter for any outages.

The argument. A user's last moment in a role only moves forward (`RolesMove`), so
what a token told when it was signed stays true (`Told`), and so does what a call
has read before it signs (`Reading`), whatever `SetRole` does in between. A
request stands still while others move (`OneRequest`), so a window, an id or an
admission found good at one step is good at the next (`WindowInv`, `IdInv`,
`HealthInv`). What a probe has found was so at a moment since its call came in, and
stays so as the clock moves on (`WitnessedStays`). `GatewayAssumption` keeps the ids pino makes apart from the absent
header, without which the middleware would make a second one.

Every safety invariant, action property and refinement that a passing run checks
is stated by one of these theorems. Only model-checked is liveness:
`EveryCallAnswered`, `EveryPurchaseAnswered`, `ConfirmedIsNotified` and
`EveryJobSettles` need fairness, and with it ENABLED, which the prover cannot
reason about. The half that needs neither is proved: `CallsComeNearer`,
`PurchasesComeNearer` and `JobsComeNearer` say that nothing goes round for ever,
`ServiceNeverStands` that calls never all wait for one another. That the runs
marked violated have a counterexample is TLC's word too.

## Not modelled

`getEvent` (one read of one row). The seed and the scripts (development data).
The wiring of client libraries in `src/prisma` and `src/redis`, but for
`isHealthy`: their failures are the faults of the models, and calls that hang are
not in them. That a failed update of a transaction leaves nothing behind is
PostgreSQL's rollback, one step in `Wallet` and not checked. Of the validation only the dates of an event and
that any other body may be refused; of the configuration only the limits and
JWT_REFRESH_TTL. Wording, layout and levels of logs and answers. The `version`
column is written and never read. Timestamps and the replay flag of an answer are
left out. The pool of database connections is not modelled: a request that runs
out of time waiting for one is an `Interrupt`. The key under which the throttler
counts and the length of its window are its library's.

## Plan

1. *Done:* all the modules above with their runs; theorems for all the safety
   properties, action properties and refinements they check, and for the measures
   behind the liveness properties.
2. *Left:* that the atomic debit of `FlashSale` is an operation of `AccountBook`
   under a mapping of its charges and top-ups to effects.
