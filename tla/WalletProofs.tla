---------------------------- MODULE WalletProofs ----------------------------
(***************************************************************************)
(* Theorems about the wallet service for any number of wallets, requests   *)
(* and keys, and any amounts.                                              *)
(***************************************************************************)
EXTENDS Wallet, WellFoundedInduction, TLAPS

-----------------------------------------------------------------------------
(* The inductive invariant. *)

\* A request under way has asked for something; a transfer carries a key, and
\* goes on only between two different wallets.
CallsMade ==
    \A r \in Requests : pc[r] # "idle" =>
        /\ call[r] \in Calls
        /\ pc[r] = "lookup" => call[r].op = "transfer"
        /\ call[r].op = "transfer" => call[r].ref \in Keys
        /\ call[r].op = "transfer" /\ pc[r] # "answered" =>
              call[r].wallet # call[r].to

\* A committed transaction has its result.
ResultsReady == \A r \in Requests : pc[r] = "committed" => reply[r] \in Results

\* Only transactions in their locking phase hold rows, and only their own.
LocksHeld ==
    \A w \in Wallets : lock[w] # Free =>
        pc[lock[w]] = "locking" /\ w \in Needed(lock[w])

\* What a transaction read under a lock is still there: nobody writes a row
\* that somebody else has locked.
SnapshotIsCurrent ==
    \A r \in Requests, w \in Wallets : lock[w] = r => snap[r][w] = balance[w]

IInv ==
    /\ TypeOK
    /\ CallsMade
    /\ ResultsReady
    /\ LocksHeld
    /\ SnapshotIsCurrent
    /\ NoOverdraft
    /\ RunningBalance

-----------------------------------------------------------------------------
(* Facts about trails and rows. *)

\* A row computed from the last one extends the chain.
LEMMA AppendChain ==
    ASSUME NEW trail \in Seq(Entries), NEW row \in Entries,
           Chained(trail),
           row.after = After(trail, Len(trail)) + row.amount
    PROVE  /\ Append(trail, row) \in Seq(Entries)
           /\ Chained(Append(trail, row))
           /\ After(Append(trail, row), Len(Append(trail, row))) = row.after
<1> DEFINE longer == Append(trail, row)
<1>1. /\ longer \in Seq(Entries)
      /\ Len(longer) = Len(trail) + 1
      /\ longer[Len(trail) + 1] = row
      /\ \A i \in 1..Len(trail) : longer[i] = trail[i]
      /\ DOMAIN longer = 1..(Len(trail) + 1)
      /\ DOMAIN trail = 1..Len(trail)
      /\ Len(trail) \in Nat
  OBVIOUS
<1> HIDE DEF longer
<1>2. \A i \in 0..Len(trail) : After(longer, i) = After(trail, i)
  BY <1>1 DEF After
<1>3. ASSUME NEW i \in DOMAIN longer
      PROVE  After(longer, i) = After(longer, i - 1) + longer[i].amount
  <2>1. CASE i \in 1..Len(trail)
    <3>1. i - 1 \in 0..Len(trail) /\ i \in 0..Len(trail)
      BY <2>1, <1>1
    <3>2. After(trail, i) = After(trail, i - 1) + trail[i].amount
      BY <2>1, <1>1 DEF Chained
    <3> QED
      BY <3>1, <3>2, <1>1, <1>2, <2>1
  <2>2. CASE i = Len(trail) + 1
    <3>1. After(longer, i) = row.after
      BY <2>2, <1>1 DEF After
    <3>2. After(longer, i - 1) = After(trail, Len(trail))
      BY <2>2, <1>1, <1>2
    <3> QED
      BY <3>1, <3>2, <2>2, <1>1
  <2> QED
    BY <2>1, <2>2, <1>1
<1>4. After(longer, Len(longer)) = row.after
  BY <1>1 DEF After
<1> QED
  BY <1>1, <1>3, <1>4 DEF Chained, longer

\* The answer read from a recorded row is a result.
LEMMA ReplayIsResult ==
    ASSUME TypeOK, NEW c \in Calls, Recorded(c.wallet, TypeOf(c.op), c.ref)
    PROVE  Replay(c) \in Results
<1> DEFINE i == CHOOSE j \in Rows(c.wallet, TypeOf(c.op), c.ref) : TRUE
<1>1. i \in Rows(c.wallet, TypeOf(c.op), c.ref)
  BY DEF Recorded
<1>2. c.wallet \in Wallets /\ c.to \in Wallets
  BY DEF Calls
<1>3. ledger[c.wallet] \in Seq(Entries)
  BY <1>2 DEF TypeOK
<1>4. i \in DOMAIN ledger[c.wallet]
  BY <1>1 DEF Rows
<1> HIDE DEF i
<1>5. ledger[c.wallet][i] \in Entries
  BY <1>3, <1>4
<1>6. ledger[c.wallet][i].amount \in Int /\ ledger[c.wallet][i].after \in Int
  BY <1>5 DEF Entries
<1>7. RowOf(c.wallet, TypeOf(c.op), c.ref) = ledger[c.wallet][i]
  BY DEF RowOf, i
<1> QED
  BY <1>2, <1>6, <1>7 DEF Replay, Results

-----------------------------------------------------------------------------
(* The invariant holds at the start and is preserved by every action. *)

\* The tables as they are at the start satisfy the invariant.
LEMMA InitIInv == Init => IInv
<1> SUFFICES ASSUME Init PROVE IInv
  OBVIOUS
<1> USE DEF Init
<1>1. ASSUME NEW w \in Wallets
      PROVE  /\ balance[w] \in 0..MaxBalance
             /\ ledger[w] \in Seq(Entries)
             /\ \A i \in DOMAIN ledger[w] : ledger[w][i].after \in 0..MaxBalance
             /\ Chained(ledger[w])
             /\ balance[w] = After(ledger[w], Len(ledger[w]))
  <2>1. CASE w \in DOMAIN Opening /\ Opening[w] > 0
    <3> DEFINE row == Entry("DEPOSIT", Opening[w], Opening[w], Founder)
    <3>1. /\ Opening[w] \in 0..MaxBalance
          /\ row \in Entries
          /\ row.after = Opening[w] /\ row.amount = Opening[w]
      BY <2>1, OpeningAssumption, MaxBalanceAssumption
         DEF Entry, Entries, EntryTypes, Refs
    <3>2. ledger[w] = <<row>> /\ balance[w] = Opening[w]
      BY <2>1
    <3> HIDE DEF row
    <3>3. /\ <<row>> \in Seq(Entries) /\ Len(<<row>>) = 1
          /\ DOMAIN <<row>> = {1} /\ <<row>>[1] = row
      BY <3>1
    <3> QED
      BY <3>1, <3>2, <3>3, MaxBalanceAssumption DEF Chained, After
  <2>2. CASE ~(w \in DOMAIN Opening /\ Opening[w] > 0)
    <3>1. ledger[w] = <<>>
      BY <2>2
    <3>2. balance[w] = 0
      BY <2>2, OpeningAssumption, MaxBalanceAssumption
    <3>3. <<>> \in Seq(Entries) /\ Len(<<>>) = 0 /\ DOMAIN <<>> = {}
      OBVIOUS
    <3> QED
      BY <3>1, <3>2, <3>3, MaxBalanceAssumption DEF Chained, After
  <2> QED
    BY <2>1, <2>2
<1>2. TypeOK
  <2>1. opened \subseteq Wallets
    BY OpeningAssumption
  <2>2. balance \in [Wallets -> Int]
    <3>1. balance = [w \in Wallets |-> balance[w]]
      OBVIOUS
    <3> HIDE DEF Init
    <3>2. \A w \in Wallets : balance[w] \in Int
      BY <1>1, MaxBalanceAssumption
    <3> QED
      BY <3>1, <3>2
  <2>3. ledger \in [Wallets -> Seq(Entries)]
    BY <1>1
  <2>4. snap \in [Requests -> [Wallets -> Int]]
    BY DEF NoSnapshot
  <2> QED
    BY <2>1, <2>2, <2>3, <2>4 DEF TypeOK, Phases
<1>3. CallsMade /\ ResultsReady
  BY DEF CallsMade, ResultsReady
<1>4. LocksHeld /\ SnapshotIsCurrent
  BY NamesAssumption DEF LocksHeld, SnapshotIsCurrent
<1>5. NoOverdraft /\ RunningBalance
  BY <1>1 DEF NoOverdraft, RunningBalance
<1> QED
  BY <1>2, <1>3, <1>4, <1>5 DEF IInv

\* The books are what balance and ledger hold: an action that leaves both
\* alone preserves what is said of them.
LEMMA BooksUnchanged ==
    ASSUME IInv, UNCHANGED <<balance, ledger>>
    PROVE  NoOverdraft' /\ RunningBalance'
BY DEF IInv, NoOverdraft, RunningBalance

\* ProvisionWallet adds a wallet without touching any book or lock.
LEMMA ProvisionStep ==
    ASSUME IInv, NEW w \in Wallets, ProvisionWallet(w)
    PROVE  IInv'
<1> USE DEF IInv, ProvisionWallet
<1>1. TypeOK'
  BY DEF TypeOK
<1>2. CallsMade' /\ ResultsReady'
  BY DEF CallsMade, ResultsReady
<1>3. LocksHeld' /\ SnapshotIsCurrent'
  BY DEF LocksHeld, SnapshotIsCurrent, Needed
<1>4. NoOverdraft' /\ RunningBalance'
  BY BooksUnchanged
<1> QED
  BY <1>1, <1>2, <1>3, <1>4

\* A request that has made no call holds no lock.
LEMMA IdleHoldsNothing ==
    ASSUME IInv, NEW r \in Requests, pc[r] # "locking"
    PROVE  \A w \in Wallets : lock[w] # r
BY NamesAssumption DEF IInv, LocksHeld

\* What the three calls have in common.
LEMMA CallStep ==
    ASSUME IInv, NEW r \in Requests, pc[r] = "idle",
           NEW c \in Calls, c.op = "transfer" => c.ref \in Keys,
           NEW phase \in {"begin", "lookup", "answered"},
           phase = "lookup" => c.op = "transfer",
           c.op = "transfer" /\ phase # "answered" => c.wallet # c.to,
           call' = [call EXCEPT ![r] = c],
           pc' = [pc EXCEPT ![r] = phase],
           reply' \in [Requests -> Answers \cup {NoAnswer}],
           \A s \in Requests \ {r} : reply'[s] = reply[s],
           UNCHANGED <<opened, balance, ledger, cache, lock, snap>>
    PROVE  IInv'
<1> USE DEF IInv
<1>1. TypeOK'
  BY DEF TypeOK, Phases
<1>2. CallsMade'
  BY DEF TypeOK, CallsMade
<1>3. ResultsReady'
  BY DEF TypeOK, ResultsReady
<1>4. LocksHeld'
  <2> SUFFICES ASSUME NEW w \in Wallets, lock[w] # Free
               PROVE  pc'[lock[w]] = "locking" /\ w \in Needed(lock[w])'
    BY DEF LocksHeld
  <2>1. lock[w] \in Requests /\ lock[w] # r
    BY IdleHoldsNothing DEF TypeOK
  <2> QED
    BY <2>1 DEF TypeOK, LocksHeld, Needed
<1>5. SnapshotIsCurrent'
  BY DEF SnapshotIsCurrent
<1>6. NoOverdraft' /\ RunningBalance'
  BY BooksUnchanged
<1> QED
  BY <1>1, <1>2, <1>3, <1>4, <1>5, <1>6

\* A request that holds no lock moves on without touching the books.
LEMMA MoveStep ==
    ASSUME IInv, NEW r \in Requests, pc[r] \notin {"idle", "locking", "answered"},
           NEW phase \in Phases \ {"idle", "lookup"},
           pc' = [pc EXCEPT ![r] = phase],
           reply' \in [Requests -> Answers \cup {NoAnswer}],
           \A s \in Requests \ {r} : reply'[s] = reply[s],
           phase = "committed" => reply'[r] \in Results,
           cache' \in [Wallets \X Keys -> Results \cup {NoAnswer}],
           UNCHANGED <<opened, balance, ledger, lock, call, snap>>
    PROVE  IInv'
<1> USE DEF IInv
<1>1. TypeOK'
  BY DEF TypeOK
<1>2. CallsMade'
  BY DEF TypeOK, CallsMade
<1>3. ResultsReady'
  BY DEF TypeOK, ResultsReady
<1>4. LocksHeld'
  <2> SUFFICES ASSUME NEW w \in Wallets, lock[w] # Free
               PROVE  pc'[lock[w]] = "locking" /\ w \in Needed(lock[w])'
    BY DEF LocksHeld
  <2>1. lock[w] \in Requests /\ lock[w] # r
    BY IdleHoldsNothing DEF TypeOK
  <2> QED
    BY <2>1 DEF TypeOK, LocksHeld, Needed
<1>5. SnapshotIsCurrent'
  BY DEF SnapshotIsCurrent
<1>6. NoOverdraft' /\ RunningBalance'
  BY BooksUnchanged
<1> QED
  BY <1>1, <1>2, <1>3, <1>4, <1>5, <1>6

\* Lookup answers with what the cache holds, or moves on.
LEMMA LookupStep ==
    ASSUME IInv, NEW r \in Requests, Lookup(r)
    PROVE  IInv'
<1> DEFINE hit == cache[<<call[r].wallet, call[r].ref>>]
<1>1. /\ pc[r] = "lookup"
      /\ UNCHANGED <<opened, balance, ledger, cache, lock, call, snap>>
  BY DEF Lookup
<1>2. call[r].wallet \in Wallets /\ call[r].ref \in Keys
  BY <1>1 DEF IInv, CallsMade, Calls
<1>3. hit \in Results \cup {NoAnswer}
  BY <1>2 DEF IInv, TypeOK
<1>4. CASE hit # NoAnswer /\ Answer(r, hit)
  <2>1. hit \in Results
    BY <1>3, <1>4
  <2> HIDE DEF hit
  <2> QED
    BY <1>1, <1>4, <2>1, MoveStep DEF Answer, Answers, Phases, IInv, TypeOK
<1>5. CASE pc' = [pc EXCEPT ![r] = "begin"] /\ UNCHANGED reply
  BY <1>1, <1>5, MoveStep DEF Phases, IInv, TypeOK
<1> QED
  BY <1>4, <1>5 DEF Lookup

\* Begin refuses, replays a recorded transfer, or moves on to the locks.
LEMMA BeginStep ==
    ASSUME IInv, NEW r \in Requests, Begin(r)
    PROVE  IInv'
<1>1. /\ pc[r] = "begin"
      /\ UNCHANGED <<opened, balance, ledger, cache, lock, call, snap>>
  BY DEF Begin
<1>2. call[r] \in Calls
  BY <1>1 DEF IInv, CallsMade
<1>3. CASE Answer(r, Refused("notFound"))
  BY <1>1, <1>3, MoveStep DEF Answer, Answers, Refused, Refusals, Phases, IInv, TypeOK
<1>4. CASE /\ call[r].op = "transfer"
           /\ Recorded(call[r].wallet, "TRANSFER_OUT", call[r].ref)
           /\ pc' = [pc EXCEPT ![r] = "committed"]
           /\ reply' = [reply EXCEPT ![r] = Replay(call[r])]
  <2>1. Replay(call[r]) \in Results
    BY <1>2, <1>4, ReplayIsResult DEF IInv, TypeOf
  <2> QED
    BY <1>1, <1>4, <2>1, MoveStep DEF Answers, Phases, IInv, TypeOK
<1>5. CASE pc' = [pc EXCEPT ![r] = "locking"] /\ UNCHANGED reply
  BY <1>1, <1>5, MoveStep DEF Phases, IInv, TypeOK
<1> QED
  BY <1>3, <1>4, <1>5 DEF Begin

\* Respond puts a result into the cache, and only a result.
LEMMA RespondStep ==
    ASSUME IInv, NEW r \in Requests, Respond(r)
    PROVE  IInv'
<1>1. /\ pc[r] = "committed"
      /\ pc' = [pc EXCEPT ![r] = "answered"]
      /\ UNCHANGED <<opened, balance, ledger, lock, call, snap, reply>>
  BY DEF Respond
<1>2. reply[r] \in Results
  BY <1>1 DEF IInv, ResultsReady
<1>3. cache' \in [Wallets \X Keys -> Results \cup {NoAnswer}]
  BY <1>2 DEF Respond, IInv, TypeOK
<1> QED
  BY <1>1, <1>3, MoveStep DEF Phases, IInv, TypeOK

\* Evict only empties a place of the cache.
LEMMA EvictStep ==
    ASSUME IInv, NEW w \in Wallets, NEW k \in Keys, Evict(w, k)
    PROVE  IInv'
<1> USE DEF IInv, Evict
<1>1. TypeOK'
  BY DEF TypeOK
<1>2. CallsMade' /\ ResultsReady'
  BY DEF CallsMade, ResultsReady
<1>3. LocksHeld' /\ SnapshotIsCurrent'
  BY DEF LocksHeld, SnapshotIsCurrent, Needed
<1>4. NoOverdraft' /\ RunningBalance'
  BY BooksUnchanged
<1> QED
  BY <1>1, <1>2, <1>3, <1>4

\* LockRow takes a free row and reads its balance of that moment.
LEMMA LockRowStep ==
    ASSUME IInv, NEW r \in Requests, NEW w \in Wallets, LockRow(r, w)
    PROVE  IInv'
<1> USE DEF IInv, LockRow, Read
<1>1. TypeOK'
  BY DEF TypeOK
<1>2. CallsMade' /\ ResultsReady'
  BY DEF CallsMade, ResultsReady
<1>3. LocksHeld'
  BY DEF TypeOK, LocksHeld, Needed, NextLock
<1>4. SnapshotIsCurrent'
  <2> SUFFICES ASSUME NEW s \in Requests, NEW v \in Wallets, lock'[v] = s
               PROVE  snap'[s][v] = balance[v]
    BY DEF SnapshotIsCurrent
  <2>1. CASE v = w
    BY <2>1 DEF TypeOK
  <2>2. CASE v # w
    <3>1. lock[v] = s
      BY <2>2 DEF TypeOK
    <3>2. snap'[s][v] = snap[s][v]
      BY <2>2 DEF TypeOK
    <3> QED
      BY <3>1, <3>2 DEF SnapshotIsCurrent
  <2> QED
    BY <2>1, <2>2
<1>5. NoOverdraft' /\ RunningBalance'
  BY BooksUnchanged
<1> QED
  BY <1>1, <1>2, <1>3, <1>4, <1>5

\* A rollback leaves the books alone and drops the locks of one request.
LEMMA AbortStep ==
    ASSUME IInv, NEW r \in Requests, pc[r] # "idle",
           NEW why \in Refusals, Abort(r, why)
    PROVE  IInv'
<1> USE DEF IInv, Abort, EndTransaction, Answer
<1>1. TypeOK'
  BY DEF TypeOK, Phases, Released, NoSnapshot, Answers, Refused
<1>2. CallsMade'
  BY DEF TypeOK, CallsMade
<1>3. ResultsReady'
  BY DEF TypeOK, ResultsReady
<1>4. LocksHeld'
  <2> SUFFICES ASSUME NEW w \in Wallets, lock'[w] # Free
               PROVE  (pc[lock[w]] = "locking" /\ w \in Needed(lock[w]))'
    BY DEF LocksHeld
  <2>1. lock'[w] = lock[w] /\ lock[w] # r /\ lock[w] \in Requests
    BY DEF Released, TypeOK
  <2> QED
    BY <2>1 DEF TypeOK, LocksHeld, Needed
<1>5. SnapshotIsCurrent'
  <2> SUFFICES ASSUME NEW s \in Requests, NEW w \in Wallets, lock'[w] = s
               PROVE  snap'[s][w] = balance'[w]
    BY DEF SnapshotIsCurrent
  <2>1. lock[w] = s /\ s # r
    BY NamesAssumption DEF Released
  <2>2. snap'[s] = snap[s]
    BY <2>1 DEF TypeOK
  <2> QED
    BY <2>1, <2>2 DEF SnapshotIsCurrent
<1>6. NoOverdraft' /\ RunningBalance'
  BY BooksUnchanged
<1> QED
  BY <1>1, <1>2, <1>3, <1>4, <1>5, <1>6

\* A commit whose new books are in order, and differ from the old ones only in
\* rows the transaction has locked.
LEMMA CommitStep ==
    ASSUME IInv, NEW r \in Requests, Ready(r),
           NEW newBalance \in [Wallets -> 0..MaxBalance],
           NEW newLedger \in [Wallets -> Seq(Entries)],
           NEW a \in Results,
           \A w \in Wallets \ Needed(r) : newBalance[w] = balance[w],
           \A w \in Wallets :
              /\ \A i \in DOMAIN newLedger[w] : newLedger[w][i].after \in 0..MaxBalance
              /\ Chained(newLedger[w])
              /\ newBalance[w] = After(newLedger[w], Len(newLedger[w])),
           Commit(r, newBalance, newLedger, a)
    PROVE  IInv'
<1> USE DEF IInv, Commit, EndTransaction
<1>1. pc[r] = "locking" /\ Held(r) = Needed(r)
  BY DEF Ready
<1>2. TypeOK'
  <2>1. balance' \in [Wallets -> Int]
    BY MaxBalanceAssumption
  <2> QED
    BY <2>1 DEF TypeOK, Phases, Released, NoSnapshot, Answers
<1>3. CallsMade'
  BY <1>1 DEF TypeOK, CallsMade
<1>4. ResultsReady'
  BY DEF TypeOK, ResultsReady
<1>5. LocksHeld'
  <2> SUFFICES ASSUME NEW w \in Wallets, lock'[w] # Free
               PROVE  (pc[lock[w]] = "locking" /\ w \in Needed(lock[w]))'
    BY DEF LocksHeld
  <2>1. lock'[w] = lock[w] /\ lock[w] # r /\ lock[w] \in Requests
    BY DEF Released, TypeOK
  <2> QED
    BY <2>1 DEF TypeOK, LocksHeld, Needed
<1>6. SnapshotIsCurrent'
  <2> SUFFICES ASSUME NEW s \in Requests, NEW w \in Wallets, lock'[w] = s
               PROVE  snap'[s][w] = balance'[w]
    BY DEF SnapshotIsCurrent
  <2>1. lock[w] = s /\ s # r
    BY NamesAssumption DEF Released
  <2>2. w \notin Needed(r)
    BY <1>1, <2>1 DEF Held
  <2>3. snap'[s] = snap[s] /\ balance'[w] = balance[w]
    BY <2>1, <2>2 DEF TypeOK
  <2> QED
    BY <2>1, <2>3 DEF SnapshotIsCurrent
<1>7. NoOverdraft' /\ RunningBalance'
  BY DEF NoOverdraft, RunningBalance
<1> QED
  BY <1>2, <1>3, <1>4, <1>5, <1>6, <1>7

\* The row that an amount gives.
LEMMA EntryFields ==
    ASSUME NEW type \in EntryTypes, NEW amount \in Int,
           NEW n \in 0..MaxBalance, NEW ref \in Refs
    PROVE  /\ Entry(type, amount, n, ref) \in Entries
           /\ Entry(type, amount, n, ref).amount = amount
           /\ Entry(type, amount, n, ref).after = n
BY MaxBalanceAssumption DEF Entry, Entries

\* A row appended to the trail of w that follows from its balance.
LEMMA Bookkeeping ==
    ASSUME IInv, NEW w \in Wallets, NEW row \in Entries,
           row.after \in 0..MaxBalance, row.after = balance[w] + row.amount
    PROVE  /\ Append(ledger[w], row) \in Seq(Entries)
           /\ \A i \in DOMAIN Append(ledger[w], row) :
                 Append(ledger[w], row)[i].after \in 0..MaxBalance
           /\ Chained(Append(ledger[w], row))
           /\ row.after = After(Append(ledger[w], row), Len(Append(ledger[w], row)))
<1> DEFINE trail == Append(ledger[w], row)
<1>1. /\ ledger[w] \in Seq(Entries)
      /\ Chained(ledger[w])
      /\ balance[w] = After(ledger[w], Len(ledger[w]))
      /\ \A i \in DOMAIN ledger[w] : ledger[w][i].after \in 0..MaxBalance
  BY DEF IInv, TypeOK, RunningBalance, NoOverdraft
<1>2. ASSUME NEW i \in DOMAIN trail
      PROVE  trail[i].after \in 0..MaxBalance
  <2>1. (i \in DOMAIN ledger[w] /\ trail[i] = ledger[w][i]) \/ trail[i] = row
    BY <1>1
  <2> QED
    BY <1>1, <2>1
<1>3. /\ trail \in Seq(Entries)
      /\ Chained(trail)
      /\ After(trail, Len(trail)) = row.after
  BY <1>1, AppendChain
<1> QED
  BY <1>2, <1>3

\* Facts about a transaction that is about to write.
LEMMA ReadyFacts ==
    ASSUME IInv, NEW r \in Requests, Ready(r)
    PROVE  /\ call[r] \in Calls /\ pc[r] # "idle"
           /\ call[r].wallet \in Wallets /\ call[r].to \in Wallets
           /\ call[r].amount \in Nat /\ call[r].amount > 0
           /\ call[r].ref \in Refs
           /\ call[r].op = "transfer" => call[r].wallet # call[r].to
           /\ balance[call[r].wallet] \in 0..MaxBalance
           /\ balance[call[r].to] \in 0..MaxBalance
           /\ snap[r][call[r].wallet] = balance[call[r].wallet]
           /\ snap[r][call[r].to] = balance[call[r].to]
<1>1. pc[r] = "locking" /\ Held(r) = Needed(r)
  BY DEF Ready
<1>2. call[r] \in Calls
  BY <1>1 DEF IInv, CallsMade
<1>3. /\ call[r].wallet \in Wallets /\ call[r].to \in Wallets
      /\ call[r].amount \in Amounts /\ call[r].ref \in Refs
  BY <1>2 DEF Calls, Refs
<1>4. call[r].amount \in Nat /\ call[r].amount > 0
  <2>1. call[r].amount \in Nat /\ call[r].amount # 0
    BY <1>3, AmountsAssumption
  <2> QED
    BY <2>1
<1>5. lock[call[r].wallet] = r /\ lock[call[r].to] = r
  BY <1>1 DEF Held, Needed
<1> QED
  BY <1>1, <1>2, <1>3, <1>4, <1>5
     DEF IInv, CallsMade, SnapshotIsCurrent, NoOverdraft

\* What the invariant says of the books, in the form CommitStep asks for.
LEMMA BooksInOrder ==
    ASSUME IInv
    PROVE  /\ balance \in [Wallets -> 0..MaxBalance]
           /\ ledger \in [Wallets -> Seq(Entries)]
           /\ \A w \in Wallets :
                 /\ \A i \in DOMAIN ledger[w] : ledger[w][i].after \in 0..MaxBalance
                 /\ Chained(ledger[w])
                 /\ balance[w] = After(ledger[w], Len(ledger[w]))
BY DEF IInv, TypeOK, NoOverdraft, RunningBalance

\* A commit that appends one row to one wallet's trail.
LEMMA OneRowStep ==
    ASSUME IInv, NEW r \in Requests, Ready(r),
           NEW n \in 0..MaxBalance, NEW type \in EntryTypes, NEW amount \in Int,
           n = balance[call[r].wallet] + amount,
           NEW a \in Results,
           Commit(r, [balance EXCEPT ![call[r].wallet] = n],
                  [ledger EXCEPT ![call[r].wallet] =
                     Append(@, Entry(type, amount, n, call[r].ref))], a)
    PROVE  IInv'
<1> DEFINE w == call[r].wallet
           row == Entry(type, amount, n, call[r].ref)
           trail == Append(ledger[w], row)
           newBalance == [balance EXCEPT ![w] = n]
           newLedger == [ledger EXCEPT ![w] = trail]
<1>1. w \in Wallets /\ call[r].ref \in Refs
  BY ReadyFacts
<1>2. row \in Entries /\ row.amount = amount /\ row.after = n
  BY <1>1, EntryFields
<1>3. Commit(r, newBalance, newLedger, a)
  OBVIOUS
<1> HIDE DEF row
<1>4. /\ trail \in Seq(Entries)
      /\ \A i \in DOMAIN trail : trail[i].after \in 0..MaxBalance
      /\ Chained(trail)
      /\ n = After(trail, Len(trail))
  BY <1>1, <1>2, Bookkeeping
<1> HIDE DEF trail
<1>5. /\ newBalance \in [Wallets -> 0..MaxBalance]
      /\ newLedger \in [Wallets -> Seq(Entries)]
      /\ \A v \in Wallets \ Needed(r) : newBalance[v] = balance[v]
  BY <1>1, <1>4, BooksInOrder DEF Needed
<1>6. \A v \in Wallets :
         /\ \A i \in DOMAIN newLedger[v] : newLedger[v][i].after \in 0..MaxBalance
         /\ Chained(newLedger[v])
         /\ newBalance[v] = After(newLedger[v], Len(newLedger[v]))
  BY <1>1, <1>4, BooksInOrder
<1> HIDE DEF newBalance, newLedger
<1> QED
  BY <1>3, <1>5, <1>6, CommitStep

\* The write phase of a deposit.
LEMMA DepositStep ==
    ASSUME IInv, NEW r \in Requests, ApplyDeposit(r)
    PROVE  IInv'
<1> DEFINE c == call[r]
           after == snap[r][c.wallet] + c.amount
           a == [status |-> "ok", from |-> c.wallet, to |-> c.wallet,
                 amount |-> c.amount, balance |-> after]
<1>1. Ready(r)
  BY DEF ApplyDeposit
<1>2. CASE Abort(r, "failed")
  BY <1>1, <1>2, ReadyFacts, AbortStep DEF Refusals
<1>3. CASE /\ after <= MaxBalance
           /\ Commit(r, [balance EXCEPT ![c.wallet] = after],
                 [ledger EXCEPT ![c.wallet] =
                    Append(@, Entry("DEPOSIT", c.amount, after, c.ref))], a)
  <2>1. after \in 0..MaxBalance /\ after = balance[c.wallet] + c.amount
    <3>1. /\ snap[r][c.wallet] = balance[c.wallet]
          /\ balance[c.wallet] \in 0..MaxBalance /\ c.amount \in Nat
      BY <1>1, ReadyFacts
    <3>2. after <= MaxBalance
      BY <1>3
    <3> QED
      BY <3>1, <3>2, MaxBalanceAssumption
  <2>2. a \in Results /\ "DEPOSIT" \in EntryTypes /\ c.amount \in Int
    BY <1>1, <2>1, ReadyFacts, MaxBalanceAssumption DEF Results, EntryTypes
  <2> HIDE DEF a, after
  <2> QED
    BY <1>1, <1>3, <2>1, <2>2, OneRowStep
<1> QED
  BY <1>2, <1>3 DEF ApplyDeposit

\* The write phase of purchaseDeduct: a replay, a refusal or one new row.
LEMMA PurchaseStep ==
    ASSUME IInv, NEW r \in Requests, ApplyPurchase(r)
    PROVE  IInv'
<1> DEFINE c == call[r]
           after == snap[r][c.wallet] - c.amount
           a == [status |-> "ok", from |-> c.wallet, to |-> c.wallet,
                 amount |-> c.amount, balance |-> after]
<1>1. Ready(r) /\ c.op = "purchase"
  BY DEF ApplyPurchase
<1>2. CASE Recorded(c.wallet, "PURCHASE", c.ref) /\ Commit(r, balance, ledger, Replay(c))
  <2>1. Replay(c) \in Results
    BY <1>1, <1>2, ReadyFacts, ReplayIsResult DEF IInv, TypeOf
  <2> QED
    BY <1>1, <1>2, <2>1, BooksInOrder, CommitStep
<1>3. CASE Abort(r, "insufficient")
  BY <1>1, <1>3, ReadyFacts, AbortStep DEF Refusals
<1>4. CASE /\ ~Short(r)
           /\ Commit(r, [balance EXCEPT ![c.wallet] = after],
                 [ledger EXCEPT ![c.wallet] =
                    Append(@, Entry("PURCHASE", -c.amount, after, c.ref))], a)
  <2>1. after \in 0..MaxBalance /\ after = balance[c.wallet] + (-c.amount)
    <3>1. /\ snap[r][c.wallet] = balance[c.wallet]
          /\ balance[c.wallet] \in 0..MaxBalance /\ c.amount \in Nat
      BY <1>1, ReadyFacts
    <3>2. ~(snap[r][c.wallet] < c.amount)
      BY <1>4 DEF Short
    <3> QED
      BY <3>1, <3>2, MaxBalanceAssumption
  <2>2. a \in Results /\ "PURCHASE" \in EntryTypes /\ -c.amount \in Int
    BY <1>1, <2>1, ReadyFacts, MaxBalanceAssumption DEF Results, EntryTypes
  <2> HIDE DEF a, after
  <2> QED
    BY <1>1, <1>4, <2>1, <2>2, OneRowStep
<1> QED
  BY <1>2, <1>3, <1>4 DEF ApplyPurchase

\* A commit that appends one row to the trail of each of two wallets.
LEMMA TwoRowsStep ==
    ASSUME IInv, NEW r \in Requests, Ready(r), call[r].wallet # call[r].to,
           NEW n \in 0..MaxBalance, NEW type \in EntryTypes, NEW amount \in Int,
           n = balance[call[r].wallet] + amount,
           NEW m \in 0..MaxBalance, NEW kind \in EntryTypes, NEW sum \in Int,
           m = balance[call[r].to] + sum,
           NEW a \in Results,
           Commit(r, [balance EXCEPT ![call[r].wallet] = n, ![call[r].to] = m],
                  [ledger EXCEPT
                     ![call[r].wallet] = Append(@, Entry(type, amount, n, call[r].ref)),
                     ![call[r].to] = Append(@, Entry(kind, sum, m, call[r].ref))], a)
    PROVE  IInv'
<1> DEFINE w == call[r].wallet
           v == call[r].to
           debit == Entry(type, amount, n, call[r].ref)
           credit == Entry(kind, sum, m, call[r].ref)
           sent == Append(ledger[w], debit)
           received == Append(ledger[v], credit)
           newBalance == [balance EXCEPT ![w] = n, ![v] = m]
           newLedger == [ledger EXCEPT ![w] = sent, ![v] = received]
<1>1. w \in Wallets /\ v \in Wallets /\ w # v /\ call[r].ref \in Refs
  BY ReadyFacts
<1>2. /\ debit \in Entries /\ debit.amount = amount /\ debit.after = n
      /\ credit \in Entries /\ credit.amount = sum /\ credit.after = m
  BY <1>1, EntryFields
<1>3. Commit(r, newBalance, newLedger, a)
  BY <1>1, BooksInOrder
<1> HIDE DEF debit, credit
<1>4. /\ sent \in Seq(Entries)
      /\ \A i \in DOMAIN sent : sent[i].after \in 0..MaxBalance
      /\ Chained(sent)
      /\ n = After(sent, Len(sent))
  BY <1>1, <1>2, Bookkeeping
<1>5. /\ received \in Seq(Entries)
      /\ \A i \in DOMAIN received : received[i].after \in 0..MaxBalance
      /\ Chained(received)
      /\ m = After(received, Len(received))
  BY <1>1, <1>2, Bookkeeping
<1> HIDE DEF sent, received
<1>6. /\ newBalance \in [Wallets -> 0..MaxBalance]
      /\ newLedger \in [Wallets -> Seq(Entries)]
      /\ \A u \in Wallets \ Needed(r) : newBalance[u] = balance[u]
  BY <1>1, <1>4, <1>5, BooksInOrder DEF Needed
<1>7. \A u \in Wallets :
         /\ \A i \in DOMAIN newLedger[u] : newLedger[u][i].after \in 0..MaxBalance
         /\ Chained(newLedger[u])
         /\ newBalance[u] = After(newLedger[u], Len(newLedger[u]))
  BY <1>1, <1>4, <1>5, BooksInOrder
<1> HIDE DEF newBalance, newLedger
<1> QED
  BY <1>3, <1>6, <1>7, CommitStep

\* The write phase of a transfer: a refusal or one row for each wallet.
LEMMA TransferStep ==
    ASSUME IInv, NEW r \in Requests, ApplyTransfer(r)
    PROVE  IInv'
<1> DEFINE c == call[r]
           out == snap[r][c.wallet] - c.amount
           in == snap[r][c.to] + c.amount
           a == [status |-> "ok", from |-> c.wallet, to |-> c.to,
                 amount |-> c.amount, balance |-> out]
<1>1. Ready(r) /\ c.op = "transfer"
  BY DEF ApplyTransfer
<1>2. CASE Abort(r, "insufficient")
  BY <1>1, <1>2, ReadyFacts, AbortStep DEF Refusals
<1>3. CASE Abort(r, "failed")
  BY <1>1, <1>3, ReadyFacts, AbortStep DEF Refusals
<1>4. CASE /\ ~Short(r) /\ in <= MaxBalance
           /\ Commit(r, [balance EXCEPT ![c.wallet] = out, ![c.to] = in],
                 [ledger EXCEPT
                    ![c.wallet] = Append(@, Entry("TRANSFER_OUT", -c.amount, out, c.ref)),
                    ![c.to] = Append(@, Entry("TRANSFER_IN", c.amount, in, c.ref))], a)
  <2>1. /\ c.wallet \in Wallets /\ c.to \in Wallets /\ c.wallet # c.to
        /\ c.amount \in Int /\ -c.amount \in Int
        /\ "TRANSFER_OUT" \in EntryTypes /\ "TRANSFER_IN" \in EntryTypes
    BY <1>1, ReadyFacts DEF EntryTypes
  <2>2. /\ out \in 0..MaxBalance /\ out = balance[c.wallet] + (-c.amount)
        /\ in \in 0..MaxBalance /\ in = balance[c.to] + c.amount
    <3>1. /\ snap[r][c.wallet] = balance[c.wallet] /\ snap[r][c.to] = balance[c.to]
          /\ balance[c.wallet] \in 0..MaxBalance /\ balance[c.to] \in 0..MaxBalance
          /\ c.amount \in Nat
      BY <1>1, ReadyFacts
    <3>2. ~(snap[r][c.wallet] < c.amount) /\ in <= MaxBalance
      BY <1>4 DEF Short
    <3> QED
      BY <3>1, <3>2, MaxBalanceAssumption
  <2>3. a \in Results
    BY <2>1, <2>2, MaxBalanceAssumption DEF Results
  <2> HIDE DEF a, out, in
  <2> QED
    BY <1>1, <1>4, <2>1, <2>2, <2>3, TwoRowsStep
<1> QED
  BY <1>2, <1>3, <1>4 DEF ApplyTransfer

\* A new deposit changes nothing but its own request.
LEMMA CallDepositStep ==
    ASSUME IInv, NEW r \in Requests, NEW w \in Wallets, NEW n \in Amounts,
           CallDeposit(r, w, n)
    PROVE  IInv'
<1> DEFINE c == [op |-> "deposit", wallet |-> w, to |-> w, amount |-> n, ref |-> r]
<1>1. c \in Calls /\ c.op = "deposit"
  BY DEF Calls
<1>2. /\ pc[r] = "idle" /\ call' = [call EXCEPT ![r] = c]
      /\ pc' = [pc EXCEPT ![r] = "begin"]
      /\ UNCHANGED <<opened, balance, ledger, cache, lock, snap, reply>>
  BY DEF CallDeposit
<1> HIDE DEF c
<1> QED
  BY <1>1, <1>2, CallStep DEF IInv, TypeOK

\* A new purchase changes nothing but its own request.
LEMMA CallPurchaseStep ==
    ASSUME IInv, NEW r \in Requests, NEW w \in Wallets, NEW n \in Amounts,
           NEW k \in Keys, CallPurchase(r, w, n, k)
    PROVE  IInv'
<1> DEFINE c == [op |-> "purchase", wallet |-> w, to |-> w, amount |-> n, ref |-> k]
<1>1. c \in Calls /\ c.op = "purchase"
  BY DEF Calls
<1>2. /\ pc[r] = "idle" /\ call' = [call EXCEPT ![r] = c]
      /\ pc' = [pc EXCEPT ![r] = "begin"]
      /\ UNCHANGED <<opened, balance, ledger, cache, lock, snap, reply>>
  BY DEF CallPurchase
<1> HIDE DEF c
<1> QED
  BY <1>1, <1>2, CallStep DEF IInv, TypeOK

\* A new transfer changes nothing but its own request.
LEMMA CallTransferStep ==
    ASSUME IInv, NEW r \in Requests, NEW w \in Wallets, NEW v \in Wallets,
           NEW n \in Amounts, NEW k \in Keys, CallTransfer(r, w, v, n, k)
    PROVE  IInv'
<1> DEFINE c == [op |-> "transfer", wallet |-> w, to |-> v, amount |-> n, ref |-> k]
<1>1. c \in Calls /\ c.op = "transfer" /\ c.ref \in Keys /\ c.wallet = w /\ c.to = v
  BY DEF Calls
<1>2. /\ pc[r] = "idle" /\ call' = [call EXCEPT ![r] = c]
      /\ UNCHANGED <<opened, balance, ledger, cache, lock, snap>>
  BY DEF CallTransfer
<1> HIDE DEF c
<1>3. CASE Answer(r, Refused("selfTransfer"))
  <2>1. Refused("selfTransfer") \in Answers
    BY DEF Answers, Refused, Refusals
  <2> QED
    BY <1>1, <1>2, <1>3, <2>1, CallStep DEF Answer, IInv, TypeOK
<1>4. CASE v # w /\ pc' = [pc EXCEPT ![r] = "lookup"] /\ UNCHANGED reply
  BY <1>1, <1>2, <1>4, CallStep DEF IInv, TypeOK
<1> QED
  BY <1>3, <1>4 DEF CallTransfer

\* A fault is a rollback.
LEMMA InterruptStep ==
    ASSUME IInv, NEW r \in Requests, Interrupt(r)
    PROVE  IInv'
BY AbortStep DEF Interrupt, Refusals

\* Whatever a request does by itself preserves the invariant.
LEMMA StepIInv ==
    ASSUME IInv, NEW r \in Requests, Step(r)
    PROVE  IInv'
BY LookupStep, BeginStep, LockRowStep, DepositStep, PurchaseStep,
   TransferStep, RespondStep DEF Step

\* Every step of the service preserves the invariant.
LEMMA NextIInv == IInv /\ [Next]_vars => IInv'
<1> SUFFICES ASSUME IInv, [Next]_vars PROVE IInv'
  OBVIOUS
<1>1. CASE UNCHANGED vars
  BY <1>1 DEF vars, IInv, TypeOK, CallsMade, ResultsReady, LocksHeld, Needed,
              SnapshotIsCurrent, NoOverdraft, RunningBalance
<1>2. CASE \E w \in Wallets : ProvisionWallet(w)
  BY <1>2, ProvisionStep
<1>3. CASE \E r \in Requests, w \in Wallets, n \in Amounts :
             \/ CallDeposit(r, w, n)
             \/ \E k \in Keys : CallPurchase(r, w, n, k)
             \/ \E v \in Wallets, k \in Keys : CallTransfer(r, w, v, n, k)
  BY <1>3, CallDepositStep, CallPurchaseStep, CallTransferStep
<1>4. CASE \E r \in Requests : Step(r)
  BY <1>4, StepIInv
<1>5. CASE \E r \in Requests : Interrupt(r)
  BY <1>5, InterruptStep
<1>6. CASE \E w \in Wallets, k \in Keys : Evict(w, k)
  BY <1>6, EvictStep
<1> QED
  BY <1>1, <1>2, <1>3, <1>4, <1>5, <1>6 DEF Next

-----------------------------------------------------------------------------
(* The theorems. *)

\* The invariant holds of every behaviour of the service.
THEOREM Invariance == Spec => []IInv
BY InitIInv, NextIInv, PTL DEF Spec

\* Every variable always holds what the schema and the service put there.
THEOREM TypeCorrect == Spec => []TypeOK
<1>1. IInv => TypeOK
  BY DEF IInv
<1> QED
  BY <1>1, Invariance, PTL

\* However many calls interleave, fail or are repeated, no wallet is ever
\* overdrawn and no row of its trail shows it overdrawn.
THEOREM NeverOverdrawn == Spec => []NoOverdraft
<1>1. IInv => NoOverdraft
  BY DEF IInv
<1> QED
  BY <1>1, Invariance, PTL

\* The audit trail of every wallet can always be replayed to its balance: no
\* update is lost and none goes unrecorded.
THEOREM TrailReplays == Spec => []RunningBalance
<1>1. IInv => RunningBalance
  BY DEF IInv
<1> QED
  BY <1>1, Invariance, PTL

-----------------------------------------------------------------------------
(* Refusals. *)

\* Request s turns its caller away for want of money.
TurnsAway(s) ==
    reply[s] # Refused("insufficient") /\ reply'[s] = Refused("insufficient")

\* An answer to r with anything else turns nobody away.
LEMMA OtherAnswer ==
    ASSUME TypeOK, NEW r \in Requests, NEW s \in Requests, NEW a,
           a # Refused("insufficient"), reply' = [reply EXCEPT ![r] = a]
    PROVE  ~TurnsAway(s)
BY DEF TypeOK, TurnsAway

\* A refusal for want of money is no result, so no replay of one.
LEMMA RefusedIsNoResult ==
    /\ Refused("insufficient") \notin Results
    /\ \A why \in Refusals \ {"insufficient"} : Refused(why) # Refused("insufficient")
<1>1. Refused("insufficient") \notin Results
  <2>1. Refused("insufficient").status = "insufficient"
    BY DEF Refused
  <2>2. \A a \in Results : a.status = "ok"
    BY DEF Results
  <2> QED
    BY <2>1, <2>2
<1>2. ASSUME NEW why \in Refusals \ {"insufficient"}
      PROVE  Refused(why) # Refused("insufficient")
  <2>1. Refused(why).status = why /\ Refused("insufficient").status = "insufficient"
    BY DEF Refused
  <2> QED
    BY <2>1
<1> QED
  BY <1>1, <1>2

\* The two transactions that check a balance check the one under their lock.
LEMMA ShortIsCurrent ==
    ASSUME IInv, NEW r \in Requests, Ready(r), Short(r)
    PROVE  balance[call[r].wallet] < call[r].amount
BY ReadyFacts DEF Short

\* Whatever a request does by itself, it turns nobody away who could pay.
LEMMA StepRefusal ==
    ASSUME IInv, NEW r \in Requests, Step(r), NEW s \in Requests, TurnsAway(s)
    PROVE  balance[call[s].wallet] < call[s].amount
<1> USE DEF IInv
<1>1. CASE Lookup(r)
  <2> DEFINE hit == cache[<<call[r].wallet, call[r].ref>>]
  <2>1. call[r].wallet \in Wallets /\ call[r].ref \in Keys
    BY <1>1 DEF Lookup, CallsMade, Calls
  <2>2. hit \in Results \cup {NoAnswer}
    BY <2>1 DEF TypeOK
  <2>3. \/ reply' = reply
        \/ hit # NoAnswer /\ reply' = [reply EXCEPT ![r] = hit]
    BY <1>1 DEF Lookup, Answer
  <2> HIDE DEF hit
  <2> QED
    BY <2>2, <2>3, OtherAnswer, RefusedIsNoResult DEF TurnsAway
<1>2. CASE Begin(r)
  <2>1. CASE reply' = [reply EXCEPT ![r] = Refused("notFound")]
    BY <2>1, OtherAnswer, RefusedIsNoResult DEF Refusals
  <2>2. CASE /\ call[r].op = "transfer"
             /\ Recorded(call[r].wallet, "TRANSFER_OUT", call[r].ref)
             /\ reply' = [reply EXCEPT ![r] = Replay(call[r])]
    <3>1. call[r] \in Calls
      BY <1>2 DEF Begin, CallsMade
    <3>2. Replay(call[r]) \in Results
      BY <2>2, <3>1, ReplayIsResult DEF TypeOf
    <3> QED
      BY <2>2, <3>2, OtherAnswer, RefusedIsNoResult
  <2>3. CASE UNCHANGED reply
    BY <2>3 DEF TurnsAway
  <2> QED
    BY <1>2, <2>1, <2>2, <2>3 DEF Begin, Answer
<1>3. CASE (\E w \in Wallets : LockRow(r, w)) \/ Respond(r)
  BY <1>3 DEF LockRow, Respond, TurnsAway
<1>4. CASE ApplyDeposit(r) \/ ApplyPurchase(r) \/ ApplyTransfer(r)
  <2>1. Ready(r) /\ call[r] \in Calls
    BY <1>4, ReadyFacts DEF ApplyDeposit, ApplyPurchase, ApplyTransfer
  <2>2. CASE Abort(r, "failed")
    BY <2>2, OtherAnswer, RefusedIsNoResult DEF Refusals, Abort, Answer
  <2>3. CASE Short(r) /\ Abort(r, "insufficient")
    <3>1. s = r
      BY <2>3 DEF Abort, Answer, TypeOK, TurnsAway
    <3> QED
      BY <2>1, <2>3, <3>1, ShortIsCurrent
  <2>4. ASSUME NEW b, NEW l, NEW a, a.status = "ok", Commit(r, b, l, a)
        PROVE  balance[call[s].wallet] < call[s].amount
    <3>1. a # Refused("insufficient")
      BY <2>4 DEF Refused
    <3>2. reply' = [reply EXCEPT ![r] = a]
      BY <2>4 DEF Commit
    <3> QED
      BY <3>1, <3>2, OtherAnswer
  <2>5. CASE ApplyDeposit(r)
    <3> DEFINE n == snap[r][call[r].wallet] + call[r].amount
               a == [status |-> "ok", from |-> call[r].wallet, to |-> call[r].wallet,
                     amount |-> call[r].amount, balance |-> n]
    <3>1. Abort(r, "failed") \/ \E b, l : Commit(r, b, l, a)
      BY <2>5 DEF ApplyDeposit
    <3>2. a.status = "ok"
      OBVIOUS
    <3> HIDE DEF a
    <3> QED
      BY <3>1, <3>2, <2>2, <2>4
  <2>6. CASE ApplyPurchase(r)
    <3> DEFINE n == snap[r][call[r].wallet] - call[r].amount
               a == [status |-> "ok", from |-> call[r].wallet, to |-> call[r].wallet,
                     amount |-> call[r].amount, balance |-> n]
               old == Replay(call[r])
    <3>1. \/ Short(r) /\ Abort(r, "insufficient")
          \/ \E b, l : Commit(r, b, l, a)
          \/ \E b, l : Commit(r, b, l, old)
      BY <2>6 DEF ApplyPurchase
    <3>2. a.status = "ok" /\ old.status = "ok"
      BY DEF Replay
    <3> HIDE DEF a, old
    <3> QED
      BY <3>1, <3>2, <2>3, <2>4
  <2>7. CASE ApplyTransfer(r)
    <3> DEFINE n == snap[r][call[r].wallet] - call[r].amount
               a == [status |-> "ok", from |-> call[r].wallet, to |-> call[r].to,
                     amount |-> call[r].amount, balance |-> n]
    <3>1. \/ Short(r) /\ Abort(r, "insufficient")
          \/ Abort(r, "failed")
          \/ \E b, l : Commit(r, b, l, a)
      BY <2>7 DEF ApplyTransfer
    <3>2. a.status = "ok"
      OBVIOUS
    <3> HIDE DEF a
    <3> QED
      BY <3>1, <3>2, <2>2, <2>3, <2>4
  <2> QED
    BY <1>4, <2>5, <2>6, <2>7
<1> QED
  BY <1>1, <1>2, <1>3, <1>4 DEF Step

\* Whoever is told that the money is short was short of it at that moment: the
\* check never uses a balance from before the lock.
THEOREM RefusalsAreCurrent == Spec => RefusalIsCurrent
<1>1. ASSUME IInv, [Next]_vars, NEW s \in Requests, TurnsAway(s)
      PROVE  balance[call[s].wallet] < call[s].amount
  <2>1. CASE UNCHANGED vars
    BY <1>1, <2>1 DEF vars, TurnsAway
  <2>2. CASE \E w \in Wallets : ProvisionWallet(w)
    BY <1>1, <2>2 DEF ProvisionWallet, TurnsAway
  <2>3. CASE \E r \in Requests, w \in Wallets, n \in Amounts :
               CallDeposit(r, w, n) \/ \E k \in Keys : CallPurchase(r, w, n, k)
    BY <1>1, <2>3 DEF CallDeposit, CallPurchase, TurnsAway
  <2>4. CASE \E r \in Requests, w, v \in Wallets, n \in Amounts, k \in Keys :
               CallTransfer(r, w, v, n, k)
    <3>1. PICK r \in Requests :
             \/ reply' = [reply EXCEPT ![r] = Refused("selfTransfer")]
             \/ UNCHANGED reply
      BY <2>4 DEF CallTransfer, Answer
    <3> QED
      BY <1>1, <3>1, OtherAnswer, RefusedIsNoResult DEF IInv, Refusals, TurnsAway
  <2>5. CASE \E r \in Requests : Step(r)
    BY <1>1, <2>5, StepRefusal
  <2>6. CASE \E r \in Requests : Interrupt(r)
    BY <1>1, <2>6, OtherAnswer, RefusedIsNoResult
       DEF IInv, Refusals, Interrupt, Abort, Answer
  <2>7. CASE \E w \in Wallets, k \in Keys : Evict(w, k)
    BY <1>1, <2>7 DEF Evict, TurnsAway
  <2> QED
    BY <1>1, <2>1, <2>2, <2>3, <2>4, <2>5, <2>6, <2>7 DEF Next
<1>2. IInv /\ [Next]_vars =>
        [\A r \in Requests :
            /\ reply[r] # Refused("insufficient")
            /\ reply'[r] = Refused("insufficient")
            => balance[call[r].wallet] < call[r].amount]_vars
  BY <1>1 DEF TurnsAway
<1> QED
  BY <1>2, Invariance, PTL DEF Spec, RefusalIsCurrent

-----------------------------------------------------------------------------
(* No circle of transactions waits for one another's rows: the reason for the
   fixed lock order. *)

\* Each transaction has locked rows only below those it has still to lock.
LockOrder ==
    \A r \in Requests : pc[r] = "locking" =>
        \A w, v \in Wallets :
            w \in Held(r) /\ v \in Needed(r) \ Held(r) => w < v

\* Request s goes on with the locks and the call it had, or starts with none.
KeepsLocks(s) ==
    pc'[s] = "locking" =>
        \/ /\ pc[s] = "locking"
           /\ call'[s] = call[s]
           /\ \A w \in Wallets : lock'[w] = s <=> lock[w] = s
        \/ \A w \in Wallets : lock'[w] # s

\* The order depends only on what KeepsLocks speaks of.
LEMMA OrderKept ==
    ASSUME LockOrder, \A s \in Requests : KeepsLocks(s)
    PROVE  LockOrder'
BY DEF LockOrder, KeepsLocks, Held, Needed

\* A call, a lookup, a read before the locks and an answer move no lock.
LEMMA MoveKeepsLocks ==
    ASSUME IInv, NEW r \in Requests, pc[r] # "locking",
           NEW phase, pc' = [pc EXCEPT ![r] = phase],
           UNCHANGED lock,
           \A s \in Requests \ {r} : call'[s] = call[s],
           NEW s \in Requests
    PROVE  KeepsLocks(s)
<1>1. CASE s = r
  BY <1>1, IdleHoldsNothing DEF KeepsLocks
<1>2. CASE s # r
  BY <1>2 DEF KeepsLocks, IInv, TypeOK
<1> QED
  BY <1>1, <1>2

\* The end of a transaction drops its locks and no other's.
LEMMA EndKeepsLocks ==
    ASSUME IInv, NEW r \in Requests, EndTransaction(r),
           NEW phase, phase # "locking", pc' = [pc EXCEPT ![r] = phase],
           UNCHANGED call, NEW s \in Requests
    PROVE  KeepsLocks(s)
<1>1. CASE s = r
  BY <1>1 DEF KeepsLocks, IInv, TypeOK
<1>2. CASE s # r
  BY <1>2, NamesAssumption DEF KeepsLocks, EndTransaction, Released, IInv, TypeOK
<1> QED
  BY <1>1, <1>2

\* A transaction locks the smallest of the rows it needs next.
LEMMA LockRowInOrder ==
    ASSUME IInv, LockOrder, NEW r \in Requests, NEW w \in Wallets, LockRow(r, w)
    PROVE  LockOrder'
<1>1. /\ NextLock(r, w) /\ lock[w] = Free /\ w \in Needed(r) \ Held(r)
      /\ lock' = [lock EXCEPT ![w] = r]
      /\ UNCHANGED <<pc, call>> /\ pc[r] = "locking"
  BY DEF LockRow, NextLock
<1> SUFFICES ASSUME NEW s \in Requests, pc[s] = "locking", NEW u \in Wallets, NEW v \in Wallets,
                    lock'[u] = s, v \in Needed(s), lock'[v] # s
             PROVE  u < v
  BY <1>1 DEF LockOrder, Held, Needed
<1>2. CASE s # r
  <2>1. lock[u] = s /\ lock[v] # s
    BY <1>1, <1>2, NamesAssumption DEF IInv, TypeOK
  <2> QED
    BY <2>1 DEF LockOrder, Held
<1>3. CASE s = r
  <2>1. v # w /\ lock[v] # r
    BY <1>1, <1>3 DEF IInv, TypeOK
  <2>2. w <= v /\ w \in Nat /\ v \in Nat
    BY <1>1, <1>3, <2>1, WalletsAssumption DEF NextLock, Held
  <2>3. CASE u = w
    BY <2>1, <2>2, <2>3
  <2>4. CASE u # w
    <3>1. lock[u] = r
      BY <1>1, <1>3, <2>4 DEF IInv, TypeOK
    <3> QED
      BY <3>1, <2>1, <1>1, <1>3 DEF LockOrder, Held
  <2> QED
    BY <2>3, <2>4
<1> QED
  BY <1>2, <1>3

\* Every step of a request keeps the order of its locks.
LEMMA StepInOrder ==
    ASSUME IInv, LockOrder, NEW r \in Requests, Step(r)
    PROVE  LockOrder'
<1>1. CASE Lookup(r) \/ Begin(r) \/ Respond(r)
  <2>1. PICK phase : pc' = [pc EXCEPT ![r] = phase]
    BY <1>1 DEF Lookup, Begin, Respond, Answer
  <2>2. pc[r] # "locking" /\ UNCHANGED <<lock, call>>
    BY <1>1 DEF Lookup, Begin, Respond
  <2> QED
    BY <2>1, <2>2, MoveKeepsLocks, OrderKept
<1>2. CASE \E w \in Wallets : LockRow(r, w)
  BY <1>2, LockRowInOrder
<1>3. CASE ApplyDeposit(r) \/ ApplyPurchase(r) \/ ApplyTransfer(r)
  <2>1. \/ \E why : Abort(r, why)
        \/ \E b, l, a : Commit(r, b, l, a)
    BY <1>3 DEF ApplyDeposit, ApplyPurchase, ApplyTransfer
  <2>2. PICK phase \in {"answered", "committed"} :
           pc' = [pc EXCEPT ![r] = phase] /\ EndTransaction(r) /\ UNCHANGED call
    BY <2>1 DEF Abort, Commit, Answer
  <2> QED
    BY <2>2, EndKeepsLocks, OrderKept
<1> QED
  BY <1>1, <1>2, <1>3 DEF Step

\* Every step of the service keeps the order of all locks.
LEMMA NextInOrder == IInv /\ LockOrder /\ [Next]_vars => LockOrder'
<1> SUFFICES ASSUME IInv, LockOrder, [Next]_vars PROVE LockOrder'
  OBVIOUS
<1>1. CASE \/ UNCHANGED vars
           \/ \E w \in Wallets : ProvisionWallet(w)
           \/ \E w \in Wallets, k \in Keys : Evict(w, k)
  <2>1. UNCHANGED <<pc, call, lock>>
    BY <1>1 DEF vars, ProvisionWallet, Evict
  <2> QED
    BY <2>1 DEF LockOrder, Held, Needed
<1>2. CASE \E r \in Requests, w \in Wallets, n \in Amounts :
             \/ CallDeposit(r, w, n)
             \/ \E k \in Keys : CallPurchase(r, w, n, k)
             \/ \E v \in Wallets, k \in Keys : CallTransfer(r, w, v, n, k)
  <2>1. PICK r \in Requests :
           /\ pc[r] = "idle"
           /\ \E phase : pc' = [pc EXCEPT ![r] = phase]
           /\ \E c : call' = [call EXCEPT ![r] = c]
           /\ UNCHANGED lock
    BY <1>2 DEF CallDeposit, CallPurchase, CallTransfer, Answer
  <2>2. \A s \in Requests \ {r} : call'[s] = call[s]
    BY <2>1 DEF IInv, TypeOK
  <2> QED
    BY <2>1, <2>2, MoveKeepsLocks, OrderKept
<1>3. CASE \E r \in Requests : Step(r)
  BY <1>3, StepInOrder
<1>4. CASE \E r \in Requests : Interrupt(r)
  <2>1. PICK r \in Requests :
           /\ pc' = [pc EXCEPT ![r] = "answered"]
           /\ EndTransaction(r) /\ UNCHANGED call
    BY <1>4 DEF Interrupt, Abort, Answer
  <2> QED
    BY <2>1, EndKeepsLocks, OrderKept
<1> QED
  BY <1>1, <1>2, <1>3, <1>4 DEF Next

\* A set of transactions that all wait for one another would have one that
\* waits for the largest row; its holder waits for a larger one.
LEMMA OrderBreaksCycles ==
    ASSUME NEW N \in Nat, Wallets \subseteq 0..N, LockOrder
    PROVE  NoLockCycle
<1> SUFFICES ASSUME NEW S, S \subseteq Requests, S # {},
                    \A r \in S : \E s \in S : WaitsFor(r, s)
             PROVE  FALSE
  BY DEF NoLockCycle
<1> DEFINE Awaited(w) == /\ w \in Wallets
                         /\ \E r, s \in S : NextLock(r, w) /\ lock[w] = s
           T == {n \in 0..N : Awaited(N - n)}
<1>1. T # {}
  <2>1. PICK r \in S : \E s \in S : WaitsFor(r, s)
    OBVIOUS
  <2>2. PICK s \in S, w \in Wallets : NextLock(r, w) /\ lock[w] = s
    BY <2>1 DEF WaitsFor
  <2>3. N - w \in 0..N /\ N - (N - w) = w
    OBVIOUS
  <2> QED
    BY <2>2, <2>3
<1>2. T \subseteq Nat
  OBVIOUS
<1>3. PICK n \in T : \A m \in T : ~ (<<m, n>> \in OpToRel(<, Nat))
  <2> HIDE DEF T
  <2> QED
    BY <1>1, <1>2, NatLessThanWellFounded, WFMin
<1>4. \A m \in T : ~ (m < n)
  BY <1>2, <1>3 DEF OpToRel
<1>5. PICK s \in S : lock[N - n] = s /\ N - n \in Wallets
  OBVIOUS
<1>6. PICK v \in Wallets : NextLock(s, v) /\ pc[s] = "locking" /\ \E t \in S : lock[v] = t
  BY DEF WaitsFor
<1>7. N - n \in Held(s) /\ v \in Needed(s) \ Held(s)
  BY <1>5, <1>6 DEF Held, NextLock
<1>8. N - n < v
  BY <1>5, <1>6, <1>7 DEF LockOrder
<1>9. N - v \in 0..N /\ N - (N - v) = v /\ N - v < n
  BY <1>8
<1>10. N - v \in T
  BY <1>6, <1>9
<1> QED
  BY <1>4, <1>9, <1>10

\* However many calls of whatever kind meet, with any faults, the transactions
\* never wait for one another in a circle (wallets are finitely many).
THEOREM NeverDeadlocked ==
    ASSUME NEW N \in Nat, Wallets \subseteq 0..N
    PROVE  Spec => []NoLockCycle
<1>1. Init => LockOrder
  BY DEF Init, LockOrder
<1>2. IInv /\ LockOrder /\ [Next]_vars => LockOrder'
  BY NextInOrder
<1>3. LockOrder => NoLockCycle
  BY OrderBreaksCycles
<1> QED
  BY <1>1, <1>2, <1>3, Invariance, PTL DEF Spec

-----------------------------------------------------------------------------
(* Every call comes to its answer, if requests that can move do. *)

\* The guards of Step(r): r waits for no row.
Movable(r) ==
    \/ pc[r] \in {"lookup", "begin", "committed"}
    \/ Ready(r)
    \/ pc[r] = "locking" /\ \E w \in Wallets : NextLock(r, w) /\ lock[w] = Free

UnderWay == {r \in Requests : pc[r] \notin {"idle", "answered"}}

\* Unless all requests have been answered, one of them is not waiting.
SomeoneMoves == UnderWay # {} => \E r \in UnderWay : Movable(r)

\* A transaction that lacks a row has a row to lock next.
LEMMA SomethingNext ==
    ASSUME IInv, NEW r \in Requests, pc[r] = "locking", ~Ready(r)
    PROVE  \E w \in Wallets : NextLock(r, w)
<1>1. call[r].wallet \in Wallets /\ call[r].to \in Wallets
  BY DEF IInv, CallsMade, Calls
<1>2. call[r].wallet \in Nat /\ call[r].to \in Nat
  BY <1>1, WalletsAssumption
<1>3. Held(r) \subseteq Needed(r)
  BY NamesAssumption DEF IInv, LocksHeld, Held
<1>4. call[r].wallet \notin Held(r) \/ call[r].to \notin Held(r)
  BY <1>3 DEF Ready, Needed
<1>5. CASE call[r].wallet <= call[r].to
  BY <1>1, <1>2, <1>4, <1>5 DEF NextLock, Needed
<1>6. CASE call[r].to <= call[r].wallet
  BY <1>1, <1>2, <1>4, <1>6 DEF NextLock, Needed
<1> QED
  BY <1>2, <1>5, <1>6

\* If all that are under way waited, they would wait for one another.
LEMMA NobodyWaitsForNobody == IInv /\ NoLockCycle => SomeoneMoves
<1> SUFFICES ASSUME IInv, NoLockCycle, UnderWay # {},
                    \A r \in UnderWay : ~Movable(r)
             PROVE  FALSE
  BY DEF SomeoneMoves
<1>1. UnderWay \in (SUBSET Requests) \ {{}}
  BY DEF UnderWay
<1>2. ASSUME NEW r \in UnderWay
      PROVE  \E s \in UnderWay : WaitsFor(r, s)
  <2>1. r \in Requests /\ pc[r] = "locking" /\ ~Ready(r)
    BY DEF UnderWay, Movable, IInv, TypeOK, Phases
  <2>2. PICK w \in Wallets : NextLock(r, w)
    BY <2>1, SomethingNext
  <2>3. lock[w] # Free
    BY <2>1, <2>2 DEF Movable
  <2>4. lock[w] \in Requests /\ pc[lock[w]] = "locking"
    BY <2>3 DEF IInv, TypeOK, LocksHeld
  <2> QED
    BY <2>1, <2>2, <2>4 DEF UnderWay, WaitsFor
<1> QED
  BY <1>1, <1>2 DEF NoLockCycle

\* Whatever transfers cross, some request under way is always able to take its
\* next step: the service never stands still with calls unanswered.
THEOREM ServiceNeverStands ==
    ASSUME NEW N \in Nat, Wallets \subseteq 0..N
    PROVE  Spec => []SomeoneMoves
BY NeverDeadlocked, Invariance, NobodyWaitsForNobody, PTL

\* The rows that r has still to lock, counted.
Missing(r) ==
    (IF lock[call[r].wallet] = r THEN 0 ELSE 1)
      + (IF call[r].to = call[r].wallet \/ lock[call[r].to] = r THEN 0 ELSE 1)

\* How many steps of its own a call has before it.
Distance(r) ==
    CASE pc[r] = "idle" -> 7
      [] pc[r] = "lookup" -> 6
      [] pc[r] = "begin" -> 5
      [] pc[r] = "locking" -> 2 + Missing(r)
      [] pc[r] = "committed" -> 1
      [] pc[r] = "answered" -> 0

\* It is a natural number, and nought when the call has its answer.
Measured ==
    \A r \in Requests : /\ Distance(r) \in 0..7
                        /\ Distance(r) = 0 <=> pc[r] = "answered"

\* Nothing takes a call back, and its own steps bring it nearer.
Nearer ==
    \A r \in Requests :
        /\ Distance(r)' <= Distance(r)
        /\ Step(r) => Distance(r)' < Distance(r)

LEMMA DistanceIsNat == IInv => Measured
<1> SUFFICES ASSUME IInv, NEW r \in Requests
             PROVE  /\ Distance(r) \in 0..7
                    /\ Distance(r) = 0 <=> pc[r] = "answered"
  BY DEF Measured
<1>1. Missing(r) \in 0..2
  BY DEF Missing
<1>2. /\ pc[r] = "idle" => Distance(r) = 7
      /\ pc[r] = "lookup" => Distance(r) = 6
      /\ pc[r] = "begin" => Distance(r) = 5
      /\ pc[r] = "locking" => Distance(r) = 2 + Missing(r)
      /\ pc[r] = "committed" => Distance(r) = 1
      /\ pc[r] = "answered" => Distance(r) = 0
  BY DEF Distance
<1>3. pc[r] \in {"idle", "lookup", "begin", "locking", "committed", "answered"}
  BY DEF IInv, TypeOK, Phases
<1>4. pc[r] # "answered" => Distance(r) \in 1..7
  BY <1>1, <1>2, <1>3
<1> QED
  BY <1>2, <1>4

\* A lock that is taken is one less missing.
LEMMA LockRowNearer ==
    ASSUME IInv, NEW r \in Requests, NEW w \in Wallets, LockRow(r, w)
    PROVE  Distance(r)' < Distance(r)
<1>1. /\ pc[r] = "locking" /\ pc'[r] = "locking" /\ call' = call
      /\ lock' = [lock EXCEPT ![w] = r] /\ lock \in [Wallets -> Requests \cup {Free}]
      /\ w \in {call[r].wallet, call[r].to} /\ lock[w] # r
  BY NamesAssumption DEF LockRow, NextLock, Needed, Held, IInv, TypeOK
<1>2. call[r].wallet \in Wallets /\ call[r].to \in Wallets
  BY <1>1 DEF IInv, CallsMade, Calls
<1>3. Missing(r)' < Missing(r)
  BY <1>1, <1>2 DEF Missing
<1>4. Missing(r) \in 0..2 /\ Missing(r)' \in 0..2
  BY DEF Missing
<1> QED
  BY <1>1, <1>3, <1>4 DEF Distance

LEMMA StepNearer ==
    ASSUME IInv, NEW r \in Requests, Step(r)
    PROVE  Distance(r)' < Distance(r)
<1>1. pc \in [Requests -> Phases]
  BY DEF IInv, TypeOK
<1>2. CASE \E w \in Wallets : LockRow(r, w)
  BY <1>2, LockRowNearer
<1>3. CASE ~ \E w \in Wallets : LockRow(r, w)
  <2>1. \/ pc[r] = "lookup" /\ pc'[r] \in {"begin", "answered"}
        \/ pc[r] = "begin" /\ pc'[r] \in {"locking", "committed", "answered"}
        \/ pc[r] = "locking" /\ pc'[r] \in {"committed", "answered"}
        \/ pc[r] = "committed" /\ pc'[r] = "answered"
    <3>1. CASE Lookup(r) \/ Begin(r) \/ Respond(r)
      BY <1>1, <3>1 DEF Lookup, Begin, Respond, Answer
    <3>2. CASE ApplyDeposit(r) \/ ApplyPurchase(r) \/ ApplyTransfer(r)
      BY <1>1, <3>2 DEF ApplyDeposit, ApplyPurchase, ApplyTransfer, Ready, Abort, Answer, Commit
    <3> QED
      BY <1>3, <3>1, <3>2 DEF Step
  <2>2. Missing(r) \in 0..2 /\ Missing(r)' \in 0..2
    BY DEF Missing
  <2> QED
    BY <2>1, <2>2 DEF Distance
<1> QED
  BY <1>2, <1>3

\* A request leaves the place, the call and the locks of every other alone.
LEMMA OthersStay ==
    ASSUME IInv, NEW s \in Requests, Step(s) \/ Interrupt(s), NEW r \in Requests, r # s
    PROVE  /\ pc'[r] = pc[r] /\ call' = call
           /\ \A w \in Wallets : lock'[w] = r <=> lock[w] = r
<1> USE DEF IInv, TypeOK
<1>1. CASE Lookup(s) \/ Begin(s) \/ Respond(s)
  BY <1>1 DEF Lookup, Begin, Respond, Answer
<1>2. CASE \E w \in Wallets : LockRow(s, w)
  BY <1>2, NamesAssumption DEF LockRow
<1>3. CASE EndTransaction(s) /\ call' = call /\ \E phase : pc' = [pc EXCEPT ![s] = phase]
  BY <1>3, NamesAssumption DEF EndTransaction, Released
<1>4. CASE ApplyDeposit(s) \/ ApplyPurchase(s) \/ ApplyTransfer(s) \/ Interrupt(s)
  <2>1. (\E why : Abort(s, why)) \/ (\E b, l, a : Commit(s, b, l, a))
    BY <1>4 DEF ApplyDeposit, ApplyPurchase, ApplyTransfer, Interrupt
  <2> QED
    BY <1>3, <2>1 DEF Abort, Commit, Answer
<1> QED
  BY <1>1, <1>2, <1>4 DEF Step

LEMMA NextNearer == IInv /\ IInv' /\ [Next]_vars => Nearer
<1> SUFFICES ASSUME IInv, IInv', [Next]_vars, NEW r \in Requests
             PROVE  /\ Distance(r)' <= Distance(r)
                    /\ Step(r) => Distance(r)' < Distance(r)
  BY DEF Nearer
<1>1. Distance(r) \in 0..7 /\ Distance(r)' \in 0..7
  <2>1. Measured'
    BY DistanceIsNat, PTL
  <2> QED
    BY <2>1, DistanceIsNat DEF Measured
<1>2. CASE Step(r)
  BY <1>1, <1>2, StepNearer
<1>3. ASSUME pc'[r] = pc[r], call'[r] = call[r],
             \A w \in Wallets : lock'[w] = r <=> lock[w] = r
      PROVE  Distance(r)' = Distance(r)
  <2>1. CASE pc[r] # "locking"
    BY <1>3, <2>1 DEF Distance
  <2>2. CASE pc[r] = "locking"
    <3>1. call[r].wallet \in Wallets /\ call[r].to \in Wallets
      BY <2>2 DEF IInv, CallsMade, Calls
    <3>2. Missing(r)' = Missing(r)
      BY <1>3, <3>1 DEF Missing
    <3> QED
      BY <1>3, <2>2, <3>2 DEF Distance
  <2> QED
    BY <2>1, <2>2
<1>4. CASE ~Step(r)
  <2> SUFFICES Distance(r)' <= Distance(r)
    BY <1>4
  <2>1. CASE \/ UNCHANGED vars
             \/ \E w \in Wallets : ProvisionWallet(w)
             \/ \E w \in Wallets, k \in Keys : Evict(w, k)
    <3>1. UNCHANGED <<pc, call, lock>>
      BY <2>1 DEF vars, ProvisionWallet, Evict
    <3> QED
      BY <1>1, <1>3, <3>1
  <2>2. CASE \E s \in Requests : s # r /\ (Step(s) \/ Interrupt(s))
    BY <1>1, <1>3, <2>2, OthersStay
  <2>3. CASE Interrupt(r)
    <3>1. Distance(r)' = 0
      BY <2>3 DEF Interrupt, Abort, Answer, Distance, IInv, TypeOK
    <3> QED
      BY <1>1, <3>1
  <2>4. CASE \E s \in Requests, w \in Wallets, n \in Amounts :
               \/ CallDeposit(s, w, n)
               \/ \E k \in Keys : CallPurchase(s, w, n, k)
               \/ \E v \in Wallets, k \in Keys : CallTransfer(s, w, v, n, k)
    <3>1. PICK s \in Requests :
             /\ pc[s] = "idle" /\ lock' = lock
             /\ \E phase \in {"lookup", "begin", "answered"} : pc' = [pc EXCEPT ![s] = phase]
             /\ \E c : call' = [call EXCEPT ![s] = c]
      BY <2>4 DEF CallDeposit, CallPurchase, CallTransfer, Answer
    <3>2. CASE s = r
      <4>1. Distance(r) = 7
        BY <3>1, <3>2 DEF Distance
      <4> QED
        BY <1>1, <4>1
    <3>3. CASE s # r
      <4>1. pc'[r] = pc[r] /\ call'[r] = call[r]
        BY <3>1, <3>3 DEF IInv, TypeOK
      <4> QED
        BY <1>1, <1>3, <3>1, <4>1
    <3> QED
      BY <3>2, <3>3
  <2> QED
    BY <1>4, <2>1, <2>2, <2>3, <2>4 DEF Next
<1> QED
  BY <1>1, <1>2, <1>4

\* Whatever meets, is refused or is rolled back, a call has at most seven steps
\* from its start to its answer; the order of others' steps adds none.  That the
\* steps are taken is fairness, which TLC checks.
THEOREM CallsComeNearer == Spec => []Measured /\ [][Nearer]_vars
BY DistanceIsNat, Invariance, NextNearer, PTL DEF Spec
=============================================================================
