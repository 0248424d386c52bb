-------------------------- MODULE WalletBookProofs ---------------------------
(***************************************************************************)
(* The wallet service implements the account book, no key has two effects, *)
(* and what callers are told is in the ledger, for any number of requests, *)
(* wallets and keys.                                                       *)
(***************************************************************************)
EXTENDS WalletProofs, SumProofs

-----------------------------------------------------------------------------
(* What one step does to the books. *)

\* What a deposit, a purchase and a transfer that succeed leave in the tables.
DepositWrites(r) ==
    LET c == call[r]
        after == balance[c.wallet] + c.amount
    IN  /\ c.op = "deposit"
        /\ after <= MaxBalance
        /\ balance' = [balance EXCEPT ![c.wallet] = after]
        /\ ledger' = [ledger EXCEPT ![c.wallet] =
                        Append(@, Entry("DEPOSIT", c.amount, after, c.ref))]

PurchaseWrites(r) ==
    LET c == call[r]
        after == balance[c.wallet] - c.amount
    IN  /\ c.op = "purchase"
        /\ c.amount <= balance[c.wallet]
        /\ ~Recorded(c.wallet, "PURCHASE", c.ref)
        /\ balance' = [balance EXCEPT ![c.wallet] = after]
        /\ ledger' = [ledger EXCEPT ![c.wallet] =
                        Append(@, Entry("PURCHASE", -c.amount, after, c.ref))]

TransferWrites(r) ==
    LET c == call[r]
        out == balance[c.wallet] - c.amount
        in == balance[c.to] + c.amount
    IN  /\ c.op = "transfer"
        /\ c.amount <= balance[c.wallet]
        /\ in <= MaxBalance
        /\ ~KeyTaken(c)
        /\ balance' = [balance EXCEPT ![c.wallet] = out, ![c.to] = in]
        /\ ledger' = [ledger EXCEPT
              ![c.wallet] = Append(@, Entry("TRANSFER_OUT", -c.amount, out, c.ref)),
              ![c.to] = Append(@, Entry("TRANSFER_IN", c.amount, in, c.ref))]

Writes(r) ==
    /\ Ready(r)
    /\ pc' = [pc EXCEPT ![r] = "committed"]
    /\ UNCHANGED <<opened, call>>
    /\ DepositWrites(r) \/ PurchaseWrites(r) \/ TransferWrites(r)

\* Only a commit under its locks writes, and only from current balances.
LEMMA StepBooks ==
    ASSUME IInv, NEW r \in Requests, Step(r)
    PROVE  UNCHANGED <<balance, ledger>> \/ Writes(r)
<1>1. CASE Lookup(r) \/ Begin(r) \/ (\E w \in Wallets : LockRow(r, w)) \/ Respond(r)
  BY <1>1 DEF Lookup, Begin, LockRow, Respond
<1>2. CASE ApplyDeposit(r)
  <2>1. CASE Abort(r, "failed")
    BY <2>1 DEF Abort
  <2>2. CASE ~Abort(r, "failed")
    <3>1. snap[r][call[r].wallet] = balance[call[r].wallet]
      BY <1>2, ReadyFacts DEF ApplyDeposit
    <3> QED
      BY <1>2, <2>2, <3>1 DEF ApplyDeposit, Commit, Writes, DepositWrites
  <2> QED
    BY <2>1, <2>2
<1>3. CASE ApplyPurchase(r)
  <2>1. /\ snap[r][call[r].wallet] = balance[call[r].wallet]
        /\ balance[call[r].wallet] \in Int /\ call[r].amount \in Int
    <3>1. Ready(r)
      BY <1>3 DEF ApplyPurchase
    <3>2. /\ snap[r][call[r].wallet] = balance[call[r].wallet]
          /\ balance[call[r].wallet] \in 0..MaxBalance /\ call[r].amount \in Nat
      BY <3>1, ReadyFacts
    <3> QED
      BY <3>2, MaxBalanceAssumption
  <2>2. CASE Abort(r, "insufficient")
    BY <2>2 DEF Abort
  <2>3. CASE Commit(r, balance, ledger, Replay(call[r]))
    BY <2>3 DEF Commit
  <2>4. CASE ~Abort(r, "insufficient") /\ ~Commit(r, balance, ledger, Replay(call[r]))
    <3>1. /\ Ready(r) /\ call[r].op = "purchase" /\ ~Short(r)
          /\ ~Recorded(call[r].wallet, "PURCHASE", call[r].ref)
          /\ \E a : Commit(r,
                [balance EXCEPT ![call[r].wallet] = snap[r][call[r].wallet] - call[r].amount],
                [ledger EXCEPT ![call[r].wallet] = Append(@,
                   Entry("PURCHASE", -call[r].amount,
                         snap[r][call[r].wallet] - call[r].amount, call[r].ref))], a)
      BY <1>3, <2>4 DEF ApplyPurchase
    <3>2. call[r].amount <= balance[call[r].wallet]
      BY <2>1, <3>1 DEF Short
    <3> QED
      BY <2>1, <3>1, <3>2 DEF Commit, Writes, PurchaseWrites
  <2> QED
    BY <2>2, <2>3, <2>4
<1>4. CASE ApplyTransfer(r)
  <2>1. /\ snap[r][call[r].wallet] = balance[call[r].wallet]
        /\ snap[r][call[r].to] = balance[call[r].to]
        /\ balance[call[r].wallet] \in Int /\ call[r].amount \in Int
    <3>1. Ready(r)
      BY <1>4 DEF ApplyTransfer
    <3>2. /\ snap[r][call[r].wallet] = balance[call[r].wallet]
          /\ snap[r][call[r].to] = balance[call[r].to]
          /\ balance[call[r].wallet] \in 0..MaxBalance /\ call[r].amount \in Nat
      BY <3>1, ReadyFacts
    <3> QED
      BY <3>2, MaxBalanceAssumption
  <2>2. CASE Abort(r, "insufficient") \/ Abort(r, "failed")
    BY <2>2 DEF Abort
  <2>3. CASE ~Abort(r, "insufficient") /\ ~Abort(r, "failed")
    <3> DEFINE c == call[r]
               out == snap[r][c.wallet] - c.amount
               in == snap[r][c.to] + c.amount
    <3>1. /\ Ready(r) /\ c.op = "transfer" /\ ~Short(r) /\ ~KeyTaken(c) /\ in <= MaxBalance
          /\ \E a : Commit(r,
                [balance EXCEPT ![c.wallet] = out, ![c.to] = in],
                [ledger EXCEPT
                   ![c.wallet] = Append(@, Entry("TRANSFER_OUT", -c.amount, out, c.ref)),
                   ![c.to] = Append(@, Entry("TRANSFER_IN", c.amount, in, c.ref))], a)
      BY <1>4, <2>3 DEF ApplyTransfer
    <3>2. /\ c.amount <= balance[c.wallet]
          /\ out = balance[c.wallet] - c.amount /\ in = balance[c.to] + c.amount
      BY <2>1, <3>1 DEF Short
    <3> HIDE DEF out, in
    <3> QED
      BY <3>1, <3>2 DEF Commit, Writes, TransferWrites
  <2> QED
    BY <2>2, <2>3
<1> QED
  BY <1>1, <1>2, <1>3, <1>4 DEF Step

LEMMA NextBooks ==
    ASSUME IInv, [Next]_vars
    PROVE  UNCHANGED <<balance, ledger>> \/ \E r \in Requests : Writes(r)
<1>1. CASE \E r \in Requests : Step(r)
  BY <1>1, StepBooks
<1>2. CASE \/ UNCHANGED vars
           \/ \E w \in Wallets : ProvisionWallet(w)
           \/ \E r \in Requests : Interrupt(r)
           \/ \E w \in Wallets, k \in Keys : Evict(w, k)
  BY <1>2 DEF vars, ProvisionWallet, Interrupt, Abort, Evict
<1>3. CASE \E r \in Requests, w \in Wallets, n \in Amounts :
             \/ CallDeposit(r, w, n)
             \/ \E k \in Keys : CallPurchase(r, w, n, k)
             \/ \E v \in Wallets, k \in Keys : CallTransfer(r, w, v, n, k)
  BY <1>3 DEF CallDeposit, CallPurchase, CallTransfer
<1> QED
  BY <1>1, <1>2, <1>3 DEF Next

-----------------------------------------------------------------------------
(* What one step does to a request. *)

\* Accounts stay open; a call stays what it was, names itself if it is a
\* deposit, and comes to its locks only with its wallets open.
Moves(s) ==
    /\ pc[s] # "idle" => call'[s] = call[s] /\ pc'[s] # "idle"
    /\ pc[s] = "idle" /\ pc'[s] # "idle" /\ call'[s].op = "deposit" => call'[s].ref = s
    /\ pc[s] \in {"committed", "answered"} => pc'[s] \in {"committed", "answered"}
    /\ pc'[s] = "locking" =>
          /\ pc[s] # "idle"
          /\ pc[s] = "locking" \/ Needed(s) \subseteq opened

LEMMA StepMoves ==
    ASSUME IInv, NEW r \in Requests, Step(r), NEW s \in Requests
    PROVE  Moves(s) /\ opened' = opened
<1> USE DEF IInv, TypeOK
<1>1. CASE Lookup(r)
  BY <1>1 DEF Lookup, Answer, Moves
<1>2. CASE Begin(r)
  BY <1>2 DEF Begin, Answer, Moves
<1>3. CASE \E w \in Wallets : LockRow(r, w)
  BY <1>3 DEF LockRow, Moves
<1>4. CASE ApplyDeposit(r)
  BY <1>4 DEF ApplyDeposit, Ready, Abort, Answer, Commit, Moves
<1>5. CASE ApplyPurchase(r)
  BY <1>5 DEF ApplyPurchase, Ready, Abort, Answer, Commit, Moves
<1>6. CASE ApplyTransfer(r)
  BY <1>6 DEF ApplyTransfer, Ready, Abort, Answer, Commit, Moves
<1>7. CASE Respond(r)
  BY <1>7 DEF Respond, Moves
<1> QED
  BY <1>1, <1>2, <1>3, <1>4, <1>5, <1>6, <1>7 DEF Step

LEMMA NextMoves ==
    ASSUME IInv, [Next]_vars, NEW s \in Requests
    PROVE  Moves(s) /\ opened \subseteq opened'
<1> USE DEF IInv, TypeOK
<1>1. CASE \E r \in Requests : Step(r)
  BY <1>1, StepMoves
<1>2. CASE \/ UNCHANGED vars
           \/ \E w \in Wallets : ProvisionWallet(w)
           \/ \E w \in Wallets, k \in Keys : Evict(w, k)
  BY <1>2 DEF vars, ProvisionWallet, Evict, Moves
<1>3. CASE \E r \in Requests : Interrupt(r)
  BY <1>3 DEF Interrupt, Abort, Answer, Moves
<1>4. CASE \E r \in Requests, w \in Wallets, n \in Amounts :
             \/ CallDeposit(r, w, n)
             \/ \E k \in Keys : CallPurchase(r, w, n, k)
             \/ \E v \in Wallets, k \in Keys : CallTransfer(r, w, v, n, k)
  <2>1. PICK r \in Requests, w \in Wallets, n \in Amounts :
             \/ CallDeposit(r, w, n)
             \/ \E k \in Keys : CallPurchase(r, w, n, k)
             \/ \E v \in Wallets, k \in Keys : CallTransfer(r, w, v, n, k)
    BY <1>4
  <2>2. CASE CallDeposit(r, w, n)
    BY <2>2 DEF CallDeposit, Moves
  <2>3. CASE \E k \in Keys : CallPurchase(r, w, n, k)
    BY <2>3 DEF CallPurchase, Moves
  <2>4. CASE \E v \in Wallets, k \in Keys : CallTransfer(r, w, v, n, k)
    BY <2>4 DEF CallTransfer, Answer, Moves
  <2> QED
    BY <2>1, <2>2, <2>3, <2>4
<1> QED
  BY <1>1, <1>2, <1>3, <1>4 DEF Next

-----------------------------------------------------------------------------
(* Each effect once. *)

Has(trail, type, ref) == \E i \in DOMAIN trail : trail[i].type = type /\ trail[i].ref = ref

Unique(trail) ==
    \A i, j \in DOMAIN trail :
        trail[i].type = trail[j].type /\ trail[i].ref = trail[j].ref => i = j

\* The reference of a deposit names its request, and there is no such row until
\* the deposit commits.
Fresh ==
    \A r \in Requests :
        /\ pc[r] # "idle" /\ call[r].op = "deposit" => call[r].ref = r
        /\ pc[r] \notin {"committed", "answered"} =>
              \A w \in Wallets : ~Has(ledger[w], "DEPOSIT", r)

\* A transaction locks only rows it has found.
Found == \A r \in Requests : pc[r] = "locking" => Needed(r) \subseteq opened

KInv == IInv /\ Fresh /\ Found /\ \A w \in Wallets : Unique(ledger[w])

\* A trail and the row appended to it.
LEMMA Appended ==
    ASSUME NEW trail \in Seq(Entries), NEW row
    PROVE  /\ \A i \in DOMAIN trail :
                 i \in DOMAIN Append(trail, row) /\ Append(trail, row)[i] = trail[i]
           /\ \A i \in DOMAIN Append(trail, row) :
                 i \in DOMAIN trail \/ (i = Len(trail) + 1 /\ Append(trail, row)[i] = row)
           /\ Len(trail) + 1 \in DOMAIN Append(trail, row)
           /\ Append(trail, row)[Len(trail) + 1] = row
OBVIOUS

\* A row of a kind the trail does not have keeps its rows different.
LEMMA AppendUnique ==
    ASSUME NEW trail \in Seq(Entries), NEW row, Unique(trail),
           ~Has(trail, row.type, row.ref)
    PROVE  Unique(Append(trail, row))
<1> DEFINE longer == Append(trail, row)
<1>1. /\ \A i \in DOMAIN longer :
            \/ i \in DOMAIN trail /\ longer[i] = trail[i]
            \/ i = Len(trail) + 1 /\ longer[i] = row
  BY Appended
<1> HIDE DEF longer
<1>2. Unique(longer)
  BY <1>1 DEF Unique, Has
<1> QED
  BY <1>2 DEF longer

\* What a commit does to the trail of w: nothing, or one row of a kind the trail
\* does not have yet, with the reference of the call.
Extends(r, w) ==
    \/ ledger'[w] = ledger[w]
    \/ \E row \in Entries :
          /\ ledger'[w] = Append(ledger[w], row)
          /\ ~Has(ledger[w], row.type, row.ref)
          /\ row.ref = call[r].ref
          /\ row.type = "DEPOSIT" => call[r].op = "deposit"

LEMMA WritesExtend ==
    ASSUME KInv, NEW r \in Requests, Writes(r), NEW w \in Wallets
    PROVE  Extends(r, w)
<1> DEFINE c == call[r]
<1>1. /\ c.wallet \in Wallets /\ c.to \in Wallets /\ c.ref \in Refs
      /\ c.amount \in Int /\ -c.amount \in Int
      /\ balance[c.wallet] \in Int /\ balance[c.to] \in Int
      /\ ledger \in [Wallets -> Seq(Entries)]
      /\ c.op = "transfer" => c.wallet # c.to
      /\ pc[r] = "locking"
  BY ReadyFacts, MaxBalanceAssumption DEF Writes, KInv, IInv, TypeOK, Ready
<1>2. \A v \in Wallets, type \in EntryTypes : Recorded(v, type, c.ref) <=> Has(ledger[v], type, c.ref)
  BY DEF Recorded, Rows, Has
<1>3. \A type \in EntryTypes, amount \in Int, after \in Int :
         /\ Entry(type, amount, after, c.ref) \in Entries
         /\ Entry(type, amount, after, c.ref).type = type
         /\ Entry(type, amount, after, c.ref).ref = c.ref
  BY <1>1 DEF Entry, Entries
<1>4. CASE DepositWrites(r)
  <2> DEFINE after == balance[c.wallet] + c.amount
             row == Entry("DEPOSIT", c.amount, after, c.ref)
  <2>1. c.op = "deposit" /\ ledger' = [ledger EXCEPT ![c.wallet] = Append(@, row)]
    BY <1>4 DEF DepositWrites
  <2>2. row \in Entries /\ row.type = "DEPOSIT" /\ row.ref = c.ref
    <3>1. after \in Int /\ "DEPOSIT" \in EntryTypes
      BY <1>1 DEF EntryTypes
    <3> HIDE DEF after
    <3> QED
      BY <1>1, <1>3, <3>1
  <2>3. c.ref = r /\ ~Has(ledger[c.wallet], "DEPOSIT", r)
    BY <1>1, <2>1 DEF KInv, Fresh
  <2> HIDE DEF row
  <2> QED
    BY <1>1, <2>1, <2>2, <2>3 DEF Extends
<1>5. CASE PurchaseWrites(r)
  <2> DEFINE after == balance[c.wallet] - c.amount
             row == Entry("PURCHASE", -c.amount, after, c.ref)
  <2>1. /\ ~Has(ledger[c.wallet], "PURCHASE", c.ref)
        /\ ledger' = [ledger EXCEPT ![c.wallet] = Append(@, row)]
    BY <1>1, <1>2, <1>5 DEF PurchaseWrites, EntryTypes
  <2>2. row \in Entries /\ row.type = "PURCHASE" /\ row.ref = c.ref
    <3>1. after \in Int /\ "PURCHASE" \in EntryTypes
      BY <1>1 DEF EntryTypes
    <3> HIDE DEF after
    <3> QED
      BY <1>1, <1>3, <3>1
  <2> HIDE DEF row
  <2> QED
    BY <1>1, <2>1, <2>2 DEF Extends
<1>6. CASE TransferWrites(r)
  <2> DEFINE out == balance[c.wallet] - c.amount
             in == balance[c.to] + c.amount
             debit == Entry("TRANSFER_OUT", -c.amount, out, c.ref)
             credit == Entry("TRANSFER_IN", c.amount, in, c.ref)
  <2>1. /\ ~Has(ledger[c.wallet], "TRANSFER_OUT", c.ref)
        /\ ~Has(ledger[c.to], "TRANSFER_IN", c.ref)
        /\ c.wallet # c.to
        /\ ledger' = [ledger EXCEPT ![c.wallet] = Append(@, debit), ![c.to] = Append(@, credit)]
    BY <1>1, <1>2, <1>6 DEF TransferWrites, KeyTaken, EntryTypes
  <2>2. /\ debit \in Entries /\ debit.type = "TRANSFER_OUT" /\ debit.ref = c.ref
        /\ credit \in Entries /\ credit.type = "TRANSFER_IN" /\ credit.ref = c.ref
    <3>1. /\ out \in Int /\ in \in Int
          /\ "TRANSFER_OUT" \in EntryTypes /\ "TRANSFER_IN" \in EntryTypes
      BY <1>1 DEF EntryTypes
    <3> HIDE DEF out, in
    <3> QED
      BY <1>1, <1>3, <3>1
  <2> HIDE DEF debit, credit
  <2>3. CASE w = c.wallet
    BY <1>1, <2>1, <2>2, <2>3 DEF Extends
  <2>4. CASE w = c.to
    BY <1>1, <2>1, <2>2, <2>4 DEF Extends
  <2>5. CASE w \notin {c.wallet, c.to}
    BY <1>1, <2>1, <2>5 DEF Extends
  <2> QED
    BY <2>3, <2>4, <2>5
<1> QED
  BY <1>4, <1>5, <1>6 DEF Writes

\* Every step keeps the rows of a trail different and the new deposits fresh.
LEMMA NextKInv ==
    ASSUME KInv, [Next]_vars
    PROVE  KInv'
<1>1. IInv /\ IInv'
  BY NextIInv DEF KInv
<1>2. \A s \in Requests : Moves(s) /\ opened \subseteq opened'
  BY <1>1, NextMoves
<1>3. ledger \in [Wallets -> Seq(Entries)]
  BY <1>1 DEF IInv, TypeOK
<1>4. Found'
  <2> SUFFICES ASSUME NEW s \in Requests, pc'[s] = "locking"
               PROVE  Needed(s)' \subseteq opened'
    BY DEF Found
  <2>1. call'[s] = call[s] /\ Needed(s) \subseteq opened
    BY <1>2 DEF Moves, KInv, Found
  <2>2. Needed(s)' = Needed(s)
    BY <2>1 DEF Needed
  <2> QED
    BY <1>2, <2>1, <2>2
<1>5. ASSUME NEW s \in Requests, pc'[s] # "idle", call'[s].op = "deposit"
      PROVE  call'[s].ref = s
  BY <1>2, <1>5 DEF Moves, KInv, Fresh
<1>6. CASE UNCHANGED <<balance, ledger>>
  <2>1. Fresh'
    BY <1>2, <1>5, <1>6 DEF Moves, KInv, Fresh
  <2> QED
    BY <1>1, <1>4, <1>6, <2>1 DEF KInv
<1>7. ASSUME NEW r \in Requests, Writes(r) PROVE KInv'
  <2>1. \A w \in Wallets : Extends(r, w)
    BY <1>7, WritesExtend
  <2>2. ASSUME NEW w \in Wallets PROVE Unique(ledger'[w])
    BY <1>3, <2>1, AppendUnique DEF Extends, KInv
  <2>3. ASSUME NEW s \in Requests, pc'[s] \notin {"committed", "answered"}, NEW w \in Wallets
        PROVE  ~Has(ledger'[w], "DEPOSIT", s)
    <3>1. pc'[r] = "committed" /\ pc[r] # "idle"
      BY <1>1, <1>7 DEF Writes, Ready, IInv, TypeOK
    <3>2. s # r /\ ~Has(ledger[w], "DEPOSIT", s)
      BY <1>2, <2>3, <3>1 DEF Moves, KInv, Fresh
    <3>3. CASE ledger'[w] = ledger[w]
      BY <3>2, <3>3
    <3>4. ASSUME NEW row \in Entries, ledger'[w] = Append(ledger[w], row),
                 row.ref = call[r].ref, row.type = "DEPOSIT" => call[r].op = "deposit"
          PROVE  ~Has(ledger'[w], "DEPOSIT", s)
      <4>1. row.type = "DEPOSIT" => row.ref # s
        BY <3>1, <3>2, <3>4 DEF KInv, Fresh
      <4>2. ledger[w] \in Seq(Entries)
        BY <1>3
      <4> QED
        BY <3>2, <3>4, <4>1, <4>2, Appended DEF Has
    <3> QED
      BY <2>1, <3>3, <3>4 DEF Extends
  <2> QED
    BY <1>1, <1>4, <1>5, <2>2, <2>3 DEF KInv, Fresh
<1> QED
  BY <1>1, <1>6, <1>7, NextBooks

\* At the start a trail holds its founding row or none.
LEMMA InitKInv == Init => KInv
<1> SUFFICES ASSUME Init PROVE KInv
  OBVIOUS
<1>1. \A w \in Wallets :
         \/ ledger[w] = <<>>
         \/ \E n \in Int : ledger[w] = <<Entry("DEPOSIT", n, n, Founder)>>
  BY OpeningAssumption, MaxBalanceAssumption DEF Init
<1>2. ASSUME NEW w \in Wallets
      PROVE  /\ Unique(ledger[w])
             /\ \A i \in DOMAIN ledger[w] : ledger[w][i].ref = Founder
  <2>1. CASE ledger[w] = <<>>
    BY <2>1 DEF Unique
  <2>2. ASSUME NEW n \in Int, ledger[w] = <<Entry("DEPOSIT", n, n, Founder)>>
        PROVE  /\ Unique(ledger[w])
               /\ \A i \in DOMAIN ledger[w] : ledger[w][i].ref = Founder
    <3>1. DOMAIN ledger[w] = {1} /\ ledger[w][1].ref = Founder
      BY <2>2 DEF Entry
    <3> QED
      BY <3>1 DEF Unique
  <2> QED
    BY <1>1, <2>1, <2>2
<1>3. Fresh
  BY <1>2, NamesAssumption DEF Init, Fresh, Has
<1> QED
  BY <1>2, <1>3, InitIInv DEF KInv, Init, Found

LEMMA KInvariance == Spec => []KInv
BY InitKInv, NextKInv, PTL DEF Spec

\* No key is ever charged, paid or credited twice to one wallet, whichever of the
\* cache, the first read and the unique constraint a repeat slips by.
THEOREM EachKeyOnce == Spec => []NoDoubleSpend
<1>1. KInv => NoDoubleSpend
  BY DEF KInv, Unique, NoDoubleSpend
<1> QED
  BY <1>1, KInvariance, PTL

-----------------------------------------------------------------------------
(* The service implements the account book. *)

\* The effects that the rows of the trail of w record.
Made(trail, w) ==
    {[type |-> trail[i].type, account |-> w, ref |-> trail[i].ref] :
        i \in {j \in DOMAIN trail : trail[j].ref # Founder}}

LEMMA AppliedIsMade ==
    /\ Applied = UNION {Made(ledger[w], w) : w \in Wallets}
    /\ Applied' = UNION {Made(ledger'[w], w) : w \in Wallets}
BY DEF Applied, Made

\* A row adds its effect to those of its trail.
LEMMA MadeAppend ==
    ASSUME NEW trail \in Seq(Entries), NEW row, row.ref # Founder, NEW w
    PROVE  Made(Append(trail, row), w) = Made(trail, w) \cup {Book!Effect(row.type, w, row.ref)}
<1> DEFINE longer == Append(trail, row)
<1>1. /\ \A i \in DOMAIN trail : i \in DOMAIN longer /\ longer[i] = trail[i]
      /\ \A i \in DOMAIN longer :
            \/ i \in DOMAIN trail
            \/ i = Len(trail) + 1 /\ longer[i] = row
      /\ Len(trail) + 1 \in DOMAIN longer
      /\ longer[Len(trail) + 1] = row
  BY Appended
<1> HIDE DEF longer
<1>2. Made(longer, w) = Made(trail, w) \cup {Book!Effect(row.type, w, row.ref)}
  BY <1>1 DEF Made, Book!Effect
<1> QED
  BY <1>2 DEF longer

\* An effect whose row is missing has not been applied.
LEMMA NotApplied ==
    ASSUME NEW w \in Wallets, NEW type, NEW ref, ~Has(ledger[w], type, ref)
    PROVE  Book!Effect(type, w, ref) \notin Applied
<1>1. \A v \in Wallets : Book!Effect(type, w, ref) \notin Made(ledger[v], v)
  BY DEF Made, Has, Book!Effect
<1> QED
  BY <1>1, AppliedIsMade

\* One new row applies one effect.
LEMMA OneEffect ==
    ASSUME KInv, NEW w \in Wallets, NEW row, row.ref # Founder,
           ledger' = [ledger EXCEPT ![w] = Append(@, row)]
    PROVE  Applied' = Applied \cup {Book!Effect(row.type, w, row.ref)}
<1>1. ledger \in [Wallets -> Seq(Entries)]
  BY DEF KInv, IInv, TypeOK
<1>2. Made(ledger'[w], w) = Made(ledger[w], w) \cup {Book!Effect(row.type, w, row.ref)}
  <2>1. ledger'[w] = Append(ledger[w], row) /\ ledger[w] \in Seq(Entries)
    BY <1>1
  <2>2. Made(Append(ledger[w], row), w)
           = Made(ledger[w], w) \cup {Book!Effect(row.type, w, row.ref)}
    BY <2>1, MadeAppend
  <2> QED
    BY <2>1, <2>2
<1>3. \A v \in Wallets : v # w => Made(ledger'[v], v) = Made(ledger[v], v)
  BY <1>1
<1> QED
  BY <1>2, <1>3, AppliedIsMade

\* Two new rows, in two trails, apply two.
LEMMA TwoEffects ==
    ASSUME KInv, NEW w \in Wallets, NEW v \in Wallets, w # v,
           NEW debit, debit.ref # Founder, NEW credit, credit.ref # Founder,
           ledger' = [ledger EXCEPT ![w] = Append(@, debit), ![v] = Append(@, credit)]
    PROVE  Applied' = Applied \cup {Book!Effect(debit.type, w, debit.ref),
                                    Book!Effect(credit.type, v, credit.ref)}
<1>1. ledger \in [Wallets -> Seq(Entries)]
  BY DEF KInv, IInv, TypeOK
<1>2. Made(ledger'[w], w) = Made(ledger[w], w) \cup {Book!Effect(debit.type, w, debit.ref)}
  <2>1. ledger'[w] = Append(ledger[w], debit) /\ ledger[w] \in Seq(Entries)
    BY <1>1
  <2>2. Made(Append(ledger[w], debit), w)
           = Made(ledger[w], w) \cup {Book!Effect(debit.type, w, debit.ref)}
    BY <2>1, MadeAppend
  <2> QED
    BY <2>1, <2>2
<1>3. Made(ledger'[v], v) = Made(ledger[v], v) \cup {Book!Effect(credit.type, v, credit.ref)}
  <2>1. ledger'[v] = Append(ledger[v], credit) /\ ledger[v] \in Seq(Entries)
    BY <1>1
  <2>2. Made(Append(ledger[v], credit), v)
           = Made(ledger[v], v) \cup {Book!Effect(credit.type, v, credit.ref)}
    BY <2>1, MadeAppend
  <2> QED
    BY <2>1, <2>2
<1>4. \A u \in Wallets \ {w, v} : Made(ledger'[u], u) = Made(ledger[u], u)
  BY <1>1
<1> DEFINE before(u) == Made(ledger[u], u)
           then(u) == Made(ledger'[u], u)
           e == Book!Effect(debit.type, w, debit.ref)
           f == Book!Effect(credit.type, v, credit.ref)
<1>5. /\ then(w) = before(w) \cup {e} /\ then(v) = before(v) \cup {f}
      /\ \A u \in Wallets : u # w /\ u # v => then(u) = before(u)
  BY <1>2, <1>3, <1>4
<1>6. /\ Applied = UNION {before(u) : u \in Wallets}
      /\ Applied' = UNION {then(u) : u \in Wallets}
  BY AppliedIsMade
<1> HIDE DEF before, then, e, f
<1>7. ASSUME NEW x
      PROVE  (\E u \in Wallets : x \in then(u)) <=> (\E u \in Wallets : x \in before(u)) \/ x \in {e, f}
  BY <1>5
<1>8. /\ \A x : x \in Applied <=> \E u \in Wallets : x \in before(u)
      /\ \A x : x \in Applied' <=> \E u \in Wallets : x \in then(u)
  BY <1>6
<1>9. Applied' = Applied \cup {e, f}
  BY <1>7, <1>8
<1> QED
  BY <1>9 DEF e, f

\* A commit that writes is one operation of the book.
LEMMA WritesImplement ==
    ASSUME KInv, NEW r \in Requests, Writes(r)
    PROVE  Book!Next
<1> DEFINE c == call[r]
<1>1. /\ c.wallet \in Wallets /\ c.to \in Wallets
      /\ c.ref \in Refs /\ c.ref # Founder
      /\ c.amount \in Amounts /\ c.amount \in Int
      /\ balance \in [Wallets -> Int]
      /\ c.op = "transfer" => c.wallet # c.to
      /\ c.wallet \in opened /\ c.to \in opened
      /\ opened' = opened
  <2>1. Ready(r) /\ pc[r] = "locking" /\ c \in Calls
    BY ReadyFacts DEF Writes, Ready, KInv
  <2>2. c.ref \in Keys \cup Requests /\ c.amount \in Amounts
    BY <2>1 DEF Calls
  <2>3. Needed(r) \subseteq opened
    BY <2>1 DEF KInv, Found
  <2> QED
    BY <2>1, <2>2, <2>3, ReadyFacts, NamesAssumption
       DEF Needed, Writes, KInv, IInv, TypeOK
<1>2. \A v \in Wallets, type \in EntryTypes :
         ~Recorded(v, type, c.ref) => Book!Effect(type, v, c.ref) \notin Applied
  <2>1. \A v \in Wallets, type \in EntryTypes : Recorded(v, type, c.ref) <=> Has(ledger[v], type, c.ref)
    BY DEF Recorded, Rows, Has
  <2> QED
    BY <2>1, NotApplied
<1>3. \A type, amount, after : /\ Entry(type, amount, after, c.ref).type = type
                               /\ Entry(type, amount, after, c.ref).ref = c.ref
  BY DEF Entry
<1>4. CASE DepositWrites(r)
  <2> DEFINE row == Entry("DEPOSIT", c.amount, balance[c.wallet] + c.amount, c.ref)
  <2>1. row.type = "DEPOSIT" /\ row.ref = c.ref
    BY <1>3
  <2>2. ledger' = [ledger EXCEPT ![c.wallet] = Append(@, row)]
    BY <1>4 DEF DepositWrites
  <2> HIDE DEF row
  <2>3. Applied' = Applied \cup {Book!Effect("DEPOSIT", c.wallet, c.ref)}
    BY <1>1, <2>1, <2>2, OneEffect
  <2>4. ~Has(ledger[c.wallet], "DEPOSIT", c.ref)
    BY <1>1, <1>4 DEF DepositWrites, KInv, Fresh, Writes, Ready
  <2>5. Book!Effect("DEPOSIT", c.wallet, c.ref) \notin Applied
    BY <1>1, <2>4, NotApplied
  <2>6. Book!Deposit(c.wallet, c.amount, c.ref)
    BY <1>1, <1>4, <2>3, <2>5 DEF Book!Deposit, DepositWrites
  <2> QED
    BY <1>1, <2>6 DEF Book!Next
<1>5. CASE PurchaseWrites(r)
  <2> DEFINE row == Entry("PURCHASE", -c.amount, balance[c.wallet] - c.amount, c.ref)
  <2>1. row.type = "PURCHASE" /\ row.ref = c.ref
    BY <1>3
  <2>2. ledger' = [ledger EXCEPT ![c.wallet] = Append(@, row)]
    BY <1>5 DEF PurchaseWrites
  <2> HIDE DEF row
  <2>3. Applied' = Applied \cup {Book!Effect("PURCHASE", c.wallet, c.ref)}
    BY <1>1, <2>1, <2>2, OneEffect
  <2>4. Book!Effect("PURCHASE", c.wallet, c.ref) \notin Applied
    BY <1>1, <1>2, <1>5 DEF PurchaseWrites, EntryTypes
  <2>5. Book!Purchase(c.wallet, c.amount, c.ref)
    BY <1>1, <1>5, <2>3, <2>4 DEF Book!Purchase, PurchaseWrites
  <2> QED
    BY <1>1, <2>5 DEF Book!Next
<1>6. CASE TransferWrites(r)
  <2> DEFINE debit == Entry("TRANSFER_OUT", -c.amount, balance[c.wallet] - c.amount, c.ref)
             credit == Entry("TRANSFER_IN", c.amount, balance[c.to] + c.amount, c.ref)
             out == Book!Effect("TRANSFER_OUT", c.wallet, c.ref)
             in == Book!Effect("TRANSFER_IN", c.to, c.ref)
  <2>1. /\ debit.type = "TRANSFER_OUT" /\ debit.ref = c.ref
        /\ credit.type = "TRANSFER_IN" /\ credit.ref = c.ref
    BY <1>3
  <2>2. /\ ledger' = [ledger EXCEPT ![c.wallet] = Append(@, debit), ![c.to] = Append(@, credit)]
        /\ c.wallet # c.to
    BY <1>1, <1>6 DEF TransferWrites
  <2> HIDE DEF debit, credit
  <2>3. Applied' = Applied \cup {out, in}
    <3>1. debit.ref # Founder /\ credit.ref # Founder
      BY <1>1, <2>1
    <3>2. Applied' = Applied \cup {Book!Effect(debit.type, c.wallet, debit.ref),
                                   Book!Effect(credit.type, c.to, credit.ref)}
      BY <1>1, <2>2, <3>1, TwoEffects
    <3> QED
      BY <2>1, <3>2
  <2>4. {out, in} \cap Applied = {}
    BY <1>1, <1>2, <1>6 DEF TransferWrites, KeyTaken, EntryTypes
  <2>5. balance' = [balance EXCEPT ![c.wallet] = @ - c.amount, ![c.to] = @ + c.amount]
    BY <1>1, <1>6, <2>2 DEF TransferWrites
  <2>6. Book!Transfer(c.wallet, c.to, c.amount, c.ref)
    <3> HIDE DEF out, in
    <3>1. /\ c.wallet \in opened /\ c.to \in opened /\ c.wallet # c.to
          /\ c.amount <= balance[c.wallet]
          /\ balance[c.to] + c.amount <= MaxBalance
      BY <1>1, <1>6, <2>2 DEF TransferWrites
    <3> QED
      BY <1>1, <2>3, <2>4, <2>5, <3>1 DEF Book!Transfer, out, in
  <2> QED
    BY <1>1, <2>6 DEF Book!Next
<1> QED
  BY <1>4, <1>5, <1>6 DEF Writes

\* A step that writes nothing opens an account or changes nothing in the book.
LEMMA NextImplements ==
    ASSUME KInv, [Next]_vars
    PROVE  [Book!Next]_Book!bookVars
<1>1. ASSUME UNCHANGED <<balance, ledger>> PROVE Applied' = Applied
  BY <1>1, AppliedIsMade
<1>2. ASSUME UNCHANGED <<opened, balance, ledger>> PROVE UNCHANGED Book!bookVars
  BY <1>1, <1>2 DEF Book!bookVars
<1>3. ASSUME NEW w \in Wallets, ProvisionWallet(w) PROVE Book!Next
  BY <1>1, <1>3 DEF ProvisionWallet, Book!Next, Book!Open
<1>4. ASSUME NEW r \in Requests, Step(r) PROVE [Book!Next]_Book!bookVars
  <2>1. opened' = opened
    BY <1>4, StepMoves DEF KInv
  <2> QED
    BY <1>2, <1>4, <2>1, StepBooks, WritesImplement DEF KInv
<1>5. CASE \/ UNCHANGED vars
           \/ \E r \in Requests : Interrupt(r)
           \/ \E w \in Wallets, k \in Keys : Evict(w, k)
  BY <1>2, <1>5 DEF vars, Interrupt, Abort, Evict
<1>6. CASE \E r \in Requests, w \in Wallets, n \in Amounts :
             \/ CallDeposit(r, w, n)
             \/ \E k \in Keys : CallPurchase(r, w, n, k)
             \/ \E v \in Wallets, k \in Keys : CallTransfer(r, w, v, n, k)
  BY <1>2, <1>6 DEF CallDeposit, CallPurchase, CallTransfer
<1> QED
  BY <1>3, <1>4, <1>5, <1>6 DEF Next

\* The book is opened with the wallets there are and no effect applied.
LEMMA InitImplements == Init => Book!Init
<1> SUFFICES ASSUME Init PROVE Book!Init
  OBVIOUS
<1>1. ASSUME NEW w \in Wallets PROVE Made(ledger[w], w) = {}
  <2>1. \A i \in DOMAIN ledger[w] : ledger[w][i].ref = Founder
    BY DEF Init, Entry
  <2> QED
    BY <2>1 DEF Made
<1>2. Applied = {}
  BY <1>1, AppliedIsMade
<1> QED
  BY <1>2 DEF Init, Book!Init

\* Every behaviour of the service is one of the account book: deposits, purchases
\* and transfers in one order, never below zero, each key once.
THEOREM WalletImplementsBook == Spec => ImplementsBook
<1>1. KInv /\ [Next]_vars => [Book!Next]_Book!bookVars
  BY NextImplements
<1> QED
  BY <1>1, InitImplements, KInvariance, PTL DEF Spec, ImplementsBook, Book!Spec

-----------------------------------------------------------------------------
(* What callers are told is in the ledger. *)

\* Answer a reports a row of this kind in the trail of w.
Backed(a, trail, w, type, ref) ==
    \E i \in DOMAIN trail :
        /\ trail[i].type = type /\ trail[i].ref = ref
        /\ a.from = w
        /\ a.balance = trail[i].after
        /\ a.amount \in {trail[i].amount, -trail[i].amount}

BackedReply(a, c) ==
    a.status = "ok" => Backed(a, ledger[c.wallet], c.wallet, TypeOf(c.op), c.ref)

\* Successes are backed by rows, in answers and in the cache, and nobody has an
\* answer before its transaction has ended.
BInv ==
    /\ KInv
    /\ \A r \in Requests :
          /\ pc[r] \notin {"committed", "answered"} => reply[r] = NoAnswer
          /\ BackedReply(reply[r], call[r])
    /\ \A w \in Wallets, k \in Keys :
          cache[<<w, k>>] # NoAnswer => Backed(cache[<<w, k>>], ledger[w], w, "TRANSFER_OUT", k)

\* The rows there are stay, so what was backed stays backed.
LEMMA BackedStays ==
    ASSUME KInv, [Next]_vars, NEW w \in Wallets, NEW a, NEW type, NEW ref,
           Backed(a, ledger[w], w, type, ref)
    PROVE  Backed(a, ledger'[w], w, type, ref)
<1>1. ledger[w] \in Seq(Entries)
  BY DEF KInv, IInv, TypeOK
<1>2. CASE ledger'[w] = ledger[w]
  BY <1>2
<1>3. ASSUME NEW row, ledger'[w] = Append(ledger[w], row)
      PROVE  Backed(a, ledger'[w], w, type, ref)
  BY <1>1, <1>3, Appended DEF Backed
<1> QED
  BY <1>2, <1>3, NextBooks, WritesExtend DEF KInv, Extends

\* A replay reports the row it was read from.
LEMMA ReplayBacked ==
    ASSUME NEW c, Recorded(c.wallet, TypeOf(c.op), c.ref)
    PROVE  Backed(Replay(c), ledger[c.wallet], c.wallet, TypeOf(c.op), c.ref)
<1> DEFINE i == CHOOSE j \in Rows(c.wallet, TypeOf(c.op), c.ref) : TRUE
<1>1. i \in Rows(c.wallet, TypeOf(c.op), c.ref)
  BY DEF Recorded
<1>2. RowOf(c.wallet, TypeOf(c.op), c.ref) = ledger[c.wallet][i]
  BY DEF RowOf
<1> HIDE DEF i
<1> QED
  BY <1>1, <1>2 DEF Rows, Replay, Backed

\* An answer computed with a row is backed by it.
LEMMA AppendBacked ==
    ASSUME NEW trail \in Seq(Entries), NEW w, NEW a, NEW type, NEW ref, NEW amount, NEW after,
           a.from = w, a.balance = after, a.amount \in {amount, -amount}
    PROVE  Backed(a, Append(trail, Entry(type, amount, after, ref)), w, type, ref)
<1> DEFINE row == Entry(type, amount, after, ref)
           longer == Append(trail, row)
<1>1. row.type = type /\ row.ref = ref /\ row.amount = amount /\ row.after = after
  BY DEF Entry
<1> HIDE DEF row
<1>2. Len(trail) + 1 \in DOMAIN longer /\ longer[Len(trail) + 1] = row
  BY Appended
<1> HIDE DEF longer
<1>3. Backed(a, longer, w, type, ref)
  BY <1>1, <1>2 DEF Backed
<1> QED
  BY <1>3 DEF longer, row

\* What a request is told by one of its steps.
LEMMA StepBacked ==
    ASSUME BInv, NEW r \in Requests, Step(r)
    PROVE  /\ pc'[r] \notin {"committed", "answered"} => reply'[r] = reply[r]
           /\ reply'[r].status = "ok" =>
                 Backed(reply'[r], ledger'[call[r].wallet], call[r].wallet,
                        TypeOf(call[r].op), call[r].ref)
<1>1. /\ reply \in [Requests -> Answers \cup {NoAnswer}]
      /\ ledger \in [Wallets -> Seq(Entries)]
      /\ pc \in [Requests -> Phases]
  BY DEF BInv, KInv, IInv, TypeOK
<1>2. reply[r].status = "ok" =>
         Backed(reply[r], ledger[call[r].wallet], call[r].wallet, TypeOf(call[r].op), call[r].ref)
  BY DEF BInv, BackedReply
<1>3. ASSUME NEW why \in Refusals, Answer(r, Refused(why)) PROVE
         pc'[r] = "answered" /\ reply'[r].status # "ok"
  BY <1>1, <1>3 DEF Answer, Refused, Refusals
<1>4. CASE Lookup(r)
  <2> DEFINE hit == cache[<<call[r].wallet, call[r].ref>>]
  <2>1. ledger' = ledger /\ pc[r] = "lookup"
    BY <1>4 DEF Lookup
  <2>2. /\ call[r].wallet \in Wallets /\ call[r].ref \in Keys
        /\ TypeOf(call[r].op) = "TRANSFER_OUT"
    BY <2>1 DEF BInv, KInv, IInv, CallsMade, Calls, TypeOf
  <2>3. CASE hit # NoAnswer /\ Answer(r, hit)
    <3>1. Backed(hit, ledger[call[r].wallet], call[r].wallet, "TRANSFER_OUT", call[r].ref)
      BY <2>2, <2>3 DEF BInv
    <3> QED
      BY <1>1, <2>1, <2>2, <2>3, <3>1 DEF Answer
  <2>4. CASE reply' = reply
    BY <1>2, <2>1, <2>4
  <2> QED
    BY <1>4, <2>3, <2>4 DEF Lookup
<1>5. CASE Begin(r)
  <2>1. ledger' = ledger
    BY <1>5 DEF Begin
  <2>2. CASE Answer(r, Refused("notFound"))
    BY <1>3, <2>2 DEF Refusals
  <2>3. CASE /\ call[r].op = "transfer" /\ Recorded(call[r].wallet, "TRANSFER_OUT", call[r].ref)
             /\ pc' = [pc EXCEPT ![r] = "committed"]
             /\ reply' = [reply EXCEPT ![r] = Replay(call[r])]
    BY <1>1, <2>1, <2>3, ReplayBacked DEF TypeOf
  <2>4. CASE reply' = reply
    BY <1>2, <2>1, <2>4
  <2> QED
    BY <1>5, <2>2, <2>3, <2>4 DEF Begin
<1>6. CASE \E w \in Wallets : LockRow(r, w)
  BY <1>2, <1>6 DEF LockRow
<1>7. CASE Respond(r)
  BY <1>2, <1>7 DEF Respond
<1>8. CASE ApplyDeposit(r)
  <2> DEFINE c == call[r]
             after == snap[r][c.wallet] + c.amount
             a == [status |-> "ok", from |-> c.wallet, to |-> c.wallet,
                   amount |-> c.amount, balance |-> after]
  <2>1. c.wallet \in Wallets /\ TypeOf(c.op) = "DEPOSIT"
    BY <1>8, ReadyFacts DEF ApplyDeposit, TypeOf, BInv, KInv
  <2>2. CASE Abort(r, "failed")
    BY <1>3, <2>2 DEF Abort, Refusals
  <2>3. CASE Commit(r, [balance EXCEPT ![c.wallet] = after],
                    [ledger EXCEPT ![c.wallet] =
                       Append(@, Entry("DEPOSIT", c.amount, after, c.ref))], a)
    <3>1. a.from = c.wallet /\ a.balance = after /\ a.amount = c.amount
      OBVIOUS
    <3> HIDE DEF a, after
    <3>2. /\ reply'[r] = a
          /\ ledger'[c.wallet] = Append(ledger[c.wallet], Entry("DEPOSIT", c.amount, after, c.ref))
          /\ pc'[r] = "committed"
      BY <1>1, <2>1, <2>3 DEF Commit
    <3>3. Backed(a, Append(ledger[c.wallet], Entry("DEPOSIT", c.amount, after, c.ref)),
                 c.wallet, "DEPOSIT", c.ref)
      <4>1. ledger[c.wallet] \in Seq(Entries)
        BY <1>1, <2>1
      <4> QED
        BY <3>1, <4>1, AppendBacked
    <3> QED
      BY <2>1, <3>2, <3>3
  <2> QED
    BY <1>8, <2>2, <2>3 DEF ApplyDeposit
<1>9. CASE ApplyPurchase(r)
  <2> DEFINE c == call[r]
             after == snap[r][c.wallet] - c.amount
             a == [status |-> "ok", from |-> c.wallet, to |-> c.wallet,
                   amount |-> c.amount, balance |-> after]
  <2>1. c.wallet \in Wallets /\ TypeOf(c.op) = "PURCHASE" /\ c.amount \in Int
    <3>1. Ready(r) /\ c.op = "purchase"
      BY <1>9 DEF ApplyPurchase
    <3> QED
      BY <3>1, ReadyFacts DEF TypeOf, BInv, KInv
  <2>2. CASE Abort(r, "insufficient")
    BY <1>3, <2>2 DEF Abort, Refusals
  <2>3. CASE Recorded(c.wallet, "PURCHASE", c.ref) /\ Commit(r, balance, ledger, Replay(c))
    BY <1>1, <2>1, <2>3, ReplayBacked DEF Commit
  <2>4. CASE Commit(r, [balance EXCEPT ![c.wallet] = after],
                    [ledger EXCEPT ![c.wallet] =
                       Append(@, Entry("PURCHASE", -c.amount, after, c.ref))], a)
    <3>1. a.from = c.wallet /\ a.balance = after /\ a.amount \in {-c.amount, -(-c.amount)}
      BY <2>1
    <3> HIDE DEF a, after
    <3>2. /\ reply'[r] = a
          /\ ledger'[c.wallet] = Append(ledger[c.wallet], Entry("PURCHASE", -c.amount, after, c.ref))
          /\ pc'[r] = "committed"
      BY <1>1, <2>1, <2>4 DEF Commit
    <3>3. Backed(a, Append(ledger[c.wallet], Entry("PURCHASE", -c.amount, after, c.ref)),
                 c.wallet, "PURCHASE", c.ref)
      <4>1. ledger[c.wallet] \in Seq(Entries)
        BY <1>1, <2>1
      <4> QED
        BY <3>1, <4>1, AppendBacked
    <3> QED
      BY <2>1, <3>2, <3>3
  <2> QED
    BY <1>9, <2>2, <2>3, <2>4 DEF ApplyPurchase
<1>10. CASE ApplyTransfer(r)
  <2> DEFINE c == call[r]
             out == snap[r][c.wallet] - c.amount
             in == snap[r][c.to] + c.amount
             debit == Entry("TRANSFER_OUT", -c.amount, out, c.ref)
             credit == Entry("TRANSFER_IN", c.amount, in, c.ref)
             a == [status |-> "ok", from |-> c.wallet, to |-> c.to,
                   amount |-> c.amount, balance |-> out]
  <2>1. /\ c.wallet \in Wallets /\ TypeOf(c.op) = "TRANSFER_OUT" /\ c.amount \in Int
        /\ c.wallet # c.to
    <3>1. Ready(r) /\ c.op = "transfer"
      BY <1>10 DEF ApplyTransfer
    <3> QED
      BY <3>1, ReadyFacts DEF TypeOf, BInv, KInv
  <2>2. CASE Abort(r, "insufficient") \/ Abort(r, "failed")
    BY <1>3, <2>2 DEF Abort, Refusals
  <2>3. CASE Commit(r, [balance EXCEPT ![c.wallet] = out, ![c.to] = in],
                    [ledger EXCEPT ![c.wallet] = Append(@, debit),
                                   ![c.to] = Append(@, credit)], a)
    <3>1. a.from = c.wallet /\ a.balance = out /\ a.amount \in {-c.amount, -(-c.amount)}
      BY <2>1
    <3> HIDE DEF a, out, in, credit
    <3>2. /\ reply'[r] = a
          /\ ledger'[c.wallet] = Append(ledger[c.wallet], debit)
          /\ pc'[r] = "committed"
      <4> HIDE DEF debit
      <4> QED
        BY <1>1, <2>1, <2>3 DEF Commit
    <3>3. Backed(a, Append(ledger[c.wallet], debit),
                 c.wallet, "TRANSFER_OUT", c.ref)
      <4>1. ledger[c.wallet] \in Seq(Entries)
        BY <1>1, <2>1
      <4> QED
        BY <3>1, <4>1, AppendBacked DEF debit
    <3> QED
      BY <2>1, <3>2, <3>3
  <2> QED
    BY <1>10, <2>2, <2>3 DEF ApplyTransfer
<1> QED
  BY <1>4, <1>5, <1>6, <1>7, <1>8, <1>9, <1>10 DEF Step

\* A step of r leaves calls, and the answers of others, alone.
LEMMA StepMine ==
    ASSUME KInv, NEW r \in Requests, Step(r) \/ Interrupt(r), NEW s \in Requests, s # r
    PROVE  call' = call /\ reply'[s] = reply[s]
<1> USE DEF KInv, IInv, TypeOK, Answer, Abort, Commit
<1>1. CASE Lookup(r) \/ Begin(r) \/ (\E w \in Wallets : LockRow(r, w)) \/ Respond(r)
  BY <1>1 DEF Lookup, Begin, LockRow, Respond
<1>2. CASE ApplyDeposit(r)
  BY <1>2 DEF ApplyDeposit
<1>3. CASE ApplyPurchase(r)
  BY <1>3 DEF ApplyPurchase
<1>4. CASE ApplyTransfer(r)
  BY <1>4 DEF ApplyTransfer
<1>5. CASE Interrupt(r)
  BY <1>5 DEF Interrupt
<1> QED
  BY <1>1, <1>2, <1>3, <1>4, <1>5 DEF Step

\* Every success told is backed after every step.
LEMMA NextReplies ==
    ASSUME BInv, [Next]_vars, NEW s \in Requests
    PROVE  /\ pc'[s] \notin {"committed", "answered"} => reply'[s] = NoAnswer
           /\ reply'[s].status = "ok" =>
                 Backed(reply'[s], ledger'[call'[s].wallet], call'[s].wallet,
                        TypeOf(call'[s].op), call'[s].ref)
<1>1. KInv /\ IInv /\ Moves(s)
  BY NextMoves DEF BInv, KInv
<1>2. ASSUME reply'[s] = reply[s], pc[s] = "idle" \/ call'[s] = call[s]
      PROVE  /\ pc'[s] \notin {"committed", "answered"} => reply'[s] = NoAnswer
             /\ reply'[s].status = "ok" =>
                   Backed(reply'[s], ledger'[call'[s].wallet], call'[s].wallet,
                          TypeOf(call'[s].op), call'[s].ref)
  <2>1. pc[s] = "idle" => reply[s].status # "ok"
    BY DEF BInv, NoAnswer
  <2>2. pc[s] # "idle" => call[s].wallet \in Wallets
    BY <1>1 DEF IInv, CallsMade, Calls
  <2> QED
    BY <1>1, <1>2, <2>1, <2>2, BackedStays DEF Moves, BInv, BackedReply
<1>3. ASSUME NEW why \in Refusals, Answer(s, Refused(why))
      PROVE  pc'[s] = "answered" /\ reply'[s].status # "ok"
  BY <1>1, <1>3 DEF Answer, Refused, Refusals, IInv, TypeOK
<1>4. ASSUME NEW r \in Requests, Step(r) \/ Interrupt(r), r # s
      PROVE  reply'[s] = reply[s] /\ call'[s] = call[s]
  BY <1>1, <1>4, StepMine
<1>5. CASE Step(s)
  <2>1. call' = call
    BY <1>5 DEF Step, Lookup, Begin, LockRow, ApplyDeposit, ApplyPurchase, ApplyTransfer,
                Respond, Abort, Commit
  <2>2. pc[s] \notin {"committed", "answered"} => reply[s] = NoAnswer
    BY DEF BInv
  <2> QED
    BY <1>1, <1>5, <2>1, <2>2, StepBacked DEF Moves
<1>6. CASE Interrupt(s)
  BY <1>3, <1>6 DEF Interrupt, Abort, Refusals
<1>7. CASE \/ UNCHANGED vars
           \/ \E w \in Wallets : ProvisionWallet(w)
           \/ \E w \in Wallets, k \in Keys : Evict(w, k)
  BY <1>2, <1>7 DEF vars, ProvisionWallet, Evict
<1>8. CASE \E r \in Requests, w \in Wallets, n \in Amounts :
             \/ CallDeposit(r, w, n)
             \/ \E k \in Keys : CallPurchase(r, w, n, k)
             \/ \E v \in Wallets, k \in Keys : CallTransfer(r, w, v, n, k)
  <2>1. PICK r \in Requests, w \in Wallets, n \in Amounts :
             \/ CallDeposit(r, w, n)
             \/ \E k \in Keys : CallPurchase(r, w, n, k)
             \/ \E v \in Wallets, k \in Keys : CallTransfer(r, w, v, n, k)
    BY <1>8
  <2>2. \/ reply' = reply
        \/ Answer(r, Refused("selfTransfer"))
    BY <2>1 DEF CallDeposit, CallPurchase, CallTransfer
  <2>3. pc[s] = "idle" \/ call'[s] = call[s]
    BY <1>1, <2>1 DEF CallDeposit, CallPurchase, CallTransfer, IInv, TypeOK
  <2>4. CASE Answer(r, Refused("selfTransfer")) /\ r = s
    BY <1>3, <2>4 DEF Refusals
  <2>5. CASE Answer(r, Refused("selfTransfer")) /\ r # s
    <3>1. reply'[s] = reply[s]
      BY <1>1, <2>5 DEF Answer, IInv, TypeOK
    <3> QED
      BY <1>2, <2>3, <3>1
  <2> QED
    BY <1>2, <2>2, <2>3, <2>4, <2>5
<1> QED
  BY <1>2, <1>4, <1>5, <1>6, <1>7, <1>8 DEF Next

\* Every answer in the cache is backed after every step.
LEMMA NextCached ==
    ASSUME BInv, [Next]_vars, NEW w \in Wallets, NEW k \in Keys, cache'[<<w, k>>] # NoAnswer
    PROVE  Backed(cache'[<<w, k>>], ledger'[w], w, "TRANSFER_OUT", k)
<1>1. KInv /\ cache \in [Wallets \X Keys -> Results \cup {NoAnswer}]
  BY DEF BInv, KInv, IInv, TypeOK
<1>2. CASE cache'[<<w, k>>] = cache[<<w, k>>]
  BY <1>1, <1>2, BackedStays DEF BInv
<1>3. ASSUME NEW r \in Requests, Respond(r), call[r].op = "transfer"
      PROVE  Backed(cache'[<<w, k>>], ledger'[w], w, "TRANSFER_OUT", k)
  <2>1. cache' = [cache EXCEPT ![<<call[r].wallet, call[r].ref>>] = reply[r]] /\ ledger' = ledger
    BY <1>3 DEF Respond
  <2>2. reply[r].status = "ok"
    BY <1>1, <1>3 DEF Respond, KInv, IInv, ResultsReady, Results
  <2>3. Backed(reply[r], ledger[call[r].wallet], call[r].wallet, "TRANSFER_OUT", call[r].ref)
    BY <1>3, <2>2 DEF BInv, BackedReply, TypeOf
  <2>4. <<w, k>> \in Wallets \X Keys
    OBVIOUS
  <2>5. CASE <<w, k>> = <<call[r].wallet, call[r].ref>>
    <3>1. w = call[r].wallet /\ k = call[r].ref /\ cache'[<<w, k>>] = reply[r]
      BY <1>1, <2>1, <2>4, <2>5
    <3> QED
      BY <2>1, <2>3, <3>1
  <2>6. CASE <<w, k>> # <<call[r].wallet, call[r].ref>>
    <3>1. cache'[<<w, k>>] = cache[<<w, k>>]
      BY <1>1, <2>1, <2>4, <2>6
    <3> QED
      BY <1>2, <3>1
  <2> QED
    BY <2>5, <2>6
<1>4. ASSUME NEW v \in Wallets, NEW j \in Keys, Evict(v, j)
      PROVE  cache'[<<w, k>>] = cache[<<w, k>>]
  <2>1. <<w, k>> \in Wallets \X Keys
    OBVIOUS
  <2> QED
    BY <1>1, <1>4, <2>1 DEF Evict
<1>5. CASE cache' = cache
  BY <1>2, <1>5
<1>6. ASSUME NEW r \in Requests, Step(r)
      PROVE  cache' = cache \/ (Respond(r) /\ call[r].op = "transfer")
  BY <1>6 DEF Step, Lookup, Begin, LockRow, ApplyDeposit, ApplyPurchase, ApplyTransfer,
              Respond, Abort, Commit
<1>7. ASSUME ~ \E r \in Requests : Step(r), ~ \E v \in Wallets, j \in Keys : Evict(v, j)
      PROVE  cache' = cache
  BY <1>7 DEF Next, vars, ProvisionWallet, CallDeposit, CallPurchase, CallTransfer,
              Interrupt, Abort
<1> QED
  BY <1>2, <1>3, <1>4, <1>5, <1>6, <1>7

\* Nobody has an answer at the start.
LEMMA InitBInv == Init => BInv
<1> SUFFICES ASSUME Init PROVE BInv
  OBVIOUS
<1>1. \A r \in Requests : reply[r] = NoAnswer
  BY DEF Init
<1>2. \A w \in Wallets, k \in Keys : cache[<<w, k>>] = NoAnswer
  BY DEF Init
<1>3. \A r \in Requests : BackedReply(reply[r], call[r])
  BY <1>1 DEF BackedReply, NoAnswer
<1> QED
  BY <1>1, <1>2, <1>3, InitKInv DEF BInv

LEMMA NextBInv == BInv /\ [Next]_vars => BInv'
BY NextKInv, NextReplies, NextCached DEF BInv, BackedReply

\* A caller told of success, first or on a replay from the cache or the ledger,
\* was told the amount and the balance of the row its key committed, and so was
\* everything the cache still holds.
THEOREM AnswersInLedger == Spec => []AnswersBackedByLedger
<1>1. BInv => AnswersBackedByLedger
  BY DEF BInv, BackedReply, Backed, AnswersBackedByLedger, Reports, Rows
<1> QED
  BY <1>1, InitBInv, NextBInv, PTL DEF Spec

-----------------------------------------------------------------------------
(* Transfers neither make nor lose money. *)

FromOutside(trail) == {i \in DOMAIN trail : trail[i].type \in {"DEPOSIT", "PURCHASE"}}

\* What a row adds to the net of its trail.
Share(row) == IF row.type \in {"DEPOSIT", "PURCHASE"} THEN row.amount ELSE 0

LEMMA NetIsInt ==
    ASSUME NEW trail \in Seq(Entries)
    PROVE  /\ Net(trail) \in Int
           /\ IsFiniteSet(FromOutside(trail))
           /\ \A i \in DOMAIN trail : trail[i].amount \in Int
<1>1. Len(trail) \in Nat /\ DOMAIN trail = 1..Len(trail)
  OBVIOUS
<1>2. \A i \in DOMAIN trail : trail[i].amount \in Int
  <2>1. \A i \in DOMAIN trail : trail[i] \in Entries
    BY <1>1
  <2> QED
    BY <2>1 DEF Entries
<1>3. IsFiniteSet(1..Len(trail))
  BY <1>1, FS_Interval
<1>4. IsFiniteSet(FromOutside(trail))
  BY <1>1, <1>3, FS_Subset DEF FromOutside
<1> DEFINE f == [i \in DOMAIN trail |-> trail[i].amount]
<1>5. \A i \in FromOutside(trail) : f[i] \in Int
  BY <1>2 DEF FromOutside
<1> HIDE DEF f
<1>6. SumFunctionOnSet(f, FromOutside(trail)) \in Int
  BY <1>4, <1>5, SumIsInt
<1> QED
  BY <1>2, <1>4, <1>6 DEF Net, FromOutside, f

LEMMA NetOfAppend ==
    ASSUME NEW trail \in Seq(Entries), NEW row \in Entries
    PROVE  Net(Append(trail, row)) = Net(trail) + Share(row)
<1> DEFINE longer == Append(trail, row)
           n == Len(trail) + 1
           f == [i \in DOMAIN trail |-> trail[i].amount]
           k == [i \in DOMAIN longer |-> longer[i].amount]
           S == FromOutside(trail)
           T == FromOutside(longer)
<1>1. /\ n \notin DOMAIN trail /\ DOMAIN longer = DOMAIN trail \cup {n}
      /\ longer[n] = row /\ \A i \in DOMAIN trail : longer[i] = trail[i]
  OBVIOUS
<1>2. /\ IsFiniteSet(S) /\ row.amount \in Int
      /\ \A i \in DOMAIN trail : trail[i].amount \in Int
  BY NetIsInt DEF Entries
<1> HIDE DEF longer, n
<1>3. /\ \A i \in S : k[i] = f[i] /\ k[i] \in Int
      /\ k[n] = row.amount /\ n \notin S
      /\ T = IF row.type \in {"DEPOSIT", "PURCHASE"} THEN S \cup {n} ELSE S
  BY <1>1, <1>2 DEF FromOutside
<1>4. Net(longer) = SumFunctionOnSet(k, T) /\ Net(trail) = SumFunctionOnSet(f, S)
  BY DEF Net, FromOutside
<1> HIDE DEF f, k, S, T
<1>5. SumFunctionOnSet(k, S) = Net(trail)
  BY <1>2, <1>3, <1>4, SumAgrees
<1>6. CASE row.type \in {"DEPOSIT", "PURCHASE"}
  <2>1. SumFunctionOnSet(k, S \cup {n}) = SumFunctionOnSet(k, S) + k[n]
    BY <1>2, <1>3, SumAddOne
  <2> QED
    BY <1>3, <1>4, <1>5, <1>6, <2>1 DEF Share, longer
<1>7. CASE row.type \notin {"DEPOSIT", "PURCHASE"}
  <2>1. Net(trail) \in Int
    BY NetIsInt
  <2> QED
    BY <1>3, <1>4, <1>5, <1>7, <2>1 DEF Share, longer
<1> QED
  BY <1>6, <1>7

Nets == [w \in Wallets |-> Net(ledger[w])]

\* One row moves its wallet and the nets by the same amount.
LEMMA OneRowConserves ==
    ASSUME KInv, IsFiniteSet(Wallets), MoneyConserved,
           NEW w \in Wallets, NEW row \in Entries, Share(row) = row.amount,
           NEW n \in Int, n = balance[w] + row.amount,
           balance' = [balance EXCEPT ![w] = n],
           ledger' = [ledger EXCEPT ![w] = Append(@, row)]
    PROVE  MoneyConserved'
<1>1. /\ balance \in [Wallets -> Int] /\ ledger \in [Wallets -> Seq(Entries)]
      /\ row.amount \in Int
  BY DEF KInv, IInv, TypeOK, Entries
<1>2. \A v \in Wallets : Nets[v] \in Int /\ balance[v] \in Int
  BY <1>1, NetIsInt DEF Nets
<1>3. Nets'[w] = Nets[w] + row.amount
  <2>1. Nets'[w] = Net(Append(ledger[w], row))
    BY <1>1 DEF Nets
  <2>2. Net(Append(ledger[w], row)) = Net(ledger[w]) + row.amount
    BY <1>1, NetOfAppend
  <2> QED
    BY <2>1, <2>2 DEF Nets
<1> DEFINE new == balance'
<1>4. /\ \A v \in Wallets \ {w} : Nets'[v] = Nets[v] /\ new[v] = balance[v]
      /\ new[w] = n
  BY <1>1 DEF Nets
<1> HIDE DEF new
<1>5. \A v \in Wallets : Nets'[v] \in Int /\ new[v] \in Int
  <2>1. Nets[w] + row.amount \in Int
    BY <1>1, <1>2
  <2> QED
    BY <1>2, <1>3, <1>4, <2>1
<1>6. SumFunctionOnSet(Nets', Wallets) = SumFunctionOnSet(Nets, Wallets) - Nets[w] + Nets'[w]
  BY <1>2, <1>4, <1>5, SumChangeOne
<1>7. SumFunctionOnSet(new, Wallets) = SumFunctionOnSet(balance, Wallets) - balance[w] + n
  BY <1>2, <1>4, <1>5, SumChangeOne
<1>8. SumFunctionOnSet(Nets, Wallets) \in Int
  BY <1>2, SumIsInt
<1>9. SumFunctionOnSet(balance, Wallets) = SumFunctionOnSet(Nets, Wallets)
  BY DEF MoneyConserved, Nets
<1>10. SumFunctionOnSet(balance', Wallets) = SumFunctionOnSet(Nets', Wallets)
  BY <1>1, <1>2, <1>3, <1>6, <1>7, <1>8, <1>9 DEF new
<1> QED
  BY <1>10 DEF MoneyConserved, Nets

\* The two rows of a transfer move no net, and what one wallet loses the other gets.
LEMMA TwoRowsConserve ==
    ASSUME KInv, IsFiniteSet(Wallets), MoneyConserved,
           NEW w \in Wallets, NEW v \in Wallets, w # v,
           NEW debit \in Entries, Share(debit) = 0,
           NEW credit \in Entries, Share(credit) = 0,
           NEW out \in Int, NEW in \in Int, out + in = balance[w] + balance[v],
           balance' = [balance EXCEPT ![w] = out, ![v] = in],
           ledger' = [ledger EXCEPT ![w] = Append(@, debit), ![v] = Append(@, credit)]
    PROVE  MoneyConserved'
<1>1. /\ balance \in [Wallets -> Int] /\ ledger \in [Wallets -> Seq(Entries)]
  BY DEF KInv, IInv, TypeOK
<1>2. \A u \in Wallets : Nets[u] \in Int /\ balance[u] \in Int
  BY <1>1, NetIsInt DEF Nets
<1>3. Net(Append(ledger[w], debit)) = Net(ledger[w])
  <2>1. Net(Append(ledger[w], debit)) = Net(ledger[w]) + 0
    BY <1>1, NetOfAppend
  <2> QED
    BY <1>2, <2>1 DEF Nets
<1>4. Net(Append(ledger[v], credit)) = Net(ledger[v])
  <2>1. Net(Append(ledger[v], credit)) = Net(ledger[v]) + 0
    BY <1>1, NetOfAppend
  <2> QED
    BY <1>2, <2>1 DEF Nets
<1>5. ASSUME NEW u \in Wallets
      PROVE  Net(ledger'[u]) = Net(ledger[u])
  <2>1. CASE u = w
    BY <1>1, <1>3, <2>1
  <2>2. CASE u = v
    BY <1>1, <1>4, <2>2
  <2>3. CASE u # w /\ u # v
    BY <1>1, <2>3
  <2> QED
    BY <2>1, <2>2, <2>3
<1>6. Nets' = Nets
  BY <1>5 DEF Nets
<1> DEFINE between == [balance EXCEPT ![w] = out]
           new == balance'
<1>7. /\ \A u \in Wallets : between[u] \in Int /\ new[u] \in Int
      /\ \A u \in Wallets \ {w} : between[u] = balance[u]
      /\ \A u \in Wallets \ {v} : new[u] = between[u]
      /\ between[w] = out /\ new[v] = in
  BY <1>1
<1> HIDE DEF between, new
<1>8. SumFunctionOnSet(between, Wallets)
         = SumFunctionOnSet(balance, Wallets) - balance[w] + out
  <2>1. \A u \in Wallets : balance[u] \in Int /\ between[u] \in Int
    BY <1>2, <1>7
  <2>2. SumFunctionOnSet(between, Wallets)
           = SumFunctionOnSet(balance, Wallets) - balance[w] + between[w]
    BY <1>7, <2>1, SumChangeOne
  <2> QED
    BY <1>7, <2>2
<1>9. SumFunctionOnSet(new, Wallets)
         = SumFunctionOnSet(between, Wallets) - balance[v] + in
  <2>1. between[v] = balance[v]
    BY <1>7
  <2> QED
    BY <1>7, <2>1, SumChangeOne
<1>10. SumFunctionOnSet(balance, Wallets) \in Int
  BY <1>2, SumIsInt
<1>11. SumFunctionOnSet(balance', Wallets) = SumFunctionOnSet(balance, Wallets)
  <2> DEFINE total == SumFunctionOnSet(balance, Wallets)
  <2>1. total \in Int /\ balance[w] \in Int /\ balance[v] \in Int
    BY <1>2, <1>10
  <2>2. SumFunctionOnSet(new, Wallets) = total - balance[w] + out - balance[v] + in
    BY <1>8, <1>9, <2>1
  <2> HIDE DEF total
  <2>3. total - balance[w] + out - balance[v] + in = total
    BY <2>1
  <2> QED
    BY <2>2, <2>3 DEF new, total
<1>12. SumFunctionOnSet(balance, Wallets) = SumFunctionOnSet(Nets, Wallets)
  BY DEF MoneyConserved, Nets
<1>13. SumFunctionOnSet(balance', Wallets) = SumFunctionOnSet(Nets', Wallets)
  BY <1>6, <1>11, <1>12
<1> QED
  BY <1>13 DEF MoneyConserved, Nets

LEMMA WritesConserve ==
    ASSUME KInv, IsFiniteSet(Wallets), MoneyConserved, NEW r \in Requests, Writes(r)
    PROVE  MoneyConserved'
<1> DEFINE c == call[r]
<1>1. /\ c.wallet \in Wallets /\ c.to \in Wallets /\ c.ref \in Refs
      /\ c.amount \in Int /\ -c.amount \in Int
      /\ balance[c.wallet] \in Int /\ balance[c.to] \in Int
      /\ c.op = "transfer" => c.wallet # c.to
  BY ReadyFacts, MaxBalanceAssumption DEF Writes, KInv, Ready
<1>2. \A type \in EntryTypes, amount \in Int, after \in Int :
         /\ Entry(type, amount, after, c.ref) \in Entries
         /\ Entry(type, amount, after, c.ref).type = type
         /\ Entry(type, amount, after, c.ref).amount = amount
  BY <1>1 DEF Entry, Entries
<1>3. /\ "DEPOSIT" \in EntryTypes /\ "PURCHASE" \in EntryTypes
      /\ "TRANSFER_OUT" \in EntryTypes /\ "TRANSFER_IN" \in EntryTypes
  BY DEF EntryTypes
<1>4. CASE DepositWrites(r)
  <2> DEFINE after == balance[c.wallet] + c.amount
             row == Entry("DEPOSIT", c.amount, after, c.ref)
  <2>1. /\ after \in Int
        /\ balance' = [balance EXCEPT ![c.wallet] = after]
        /\ ledger' = [ledger EXCEPT ![c.wallet] = Append(@, row)]
    BY <1>1, <1>4 DEF DepositWrites
  <2>2. after = balance[c.wallet] + c.amount
    OBVIOUS
  <2> HIDE DEF after
  <2>3. row \in Entries /\ row.amount = c.amount /\ Share(row) = row.amount
    BY <1>1, <1>2, <1>3, <2>1 DEF Share
  <2> HIDE DEF row
  <2> QED
    BY <1>1, <2>1, <2>2, <2>3, OneRowConserves
<1>5. CASE PurchaseWrites(r)
  <2> DEFINE after == balance[c.wallet] - c.amount
             row == Entry("PURCHASE", -c.amount, after, c.ref)
  <2>1. /\ after \in Int /\ after = balance[c.wallet] + (-c.amount)
        /\ balance' = [balance EXCEPT ![c.wallet] = after]
        /\ ledger' = [ledger EXCEPT ![c.wallet] = Append(@, row)]
    BY <1>1, <1>5 DEF PurchaseWrites
  <2> HIDE DEF after
  <2>2. row \in Entries /\ row.amount = -c.amount /\ Share(row) = row.amount
    BY <1>1, <1>2, <1>3, <2>1 DEF Share
  <2> HIDE DEF row
  <2> QED
    BY <1>1, <2>1, <2>2, OneRowConserves
<1>6. CASE TransferWrites(r)
  <2> DEFINE out == balance[c.wallet] - c.amount
             in == balance[c.to] + c.amount
             debit == Entry("TRANSFER_OUT", -c.amount, out, c.ref)
             credit == Entry("TRANSFER_IN", c.amount, in, c.ref)
  <2>1. /\ c.wallet # c.to
        /\ balance' = [balance EXCEPT ![c.wallet] = out, ![c.to] = in]
        /\ ledger' = [ledger EXCEPT ![c.wallet] = Append(@, debit), ![c.to] = Append(@, credit)]
    BY <1>1, <1>6 DEF TransferWrites
  <2>2. out \in Int /\ in \in Int /\ out + in = balance[c.wallet] + balance[c.to]
    BY <1>1
  <2> HIDE DEF out, in
  <2>3. /\ debit \in Entries /\ Share(debit) = 0
        /\ credit \in Entries /\ Share(credit) = 0
    BY <1>1, <1>2, <1>3, <2>2 DEF Share
  <2> HIDE DEF debit, credit
  <2> QED
    BY <1>1, <2>1, <2>2, <2>3, TwoRowsConserve
<1> QED
  BY <1>4, <1>5, <1>6 DEF Writes

LEMMA InitConserves ==
    ASSUME IsFiniteSet(Wallets), Init
    PROVE  MoneyConserved
<1>1. ASSUME NEW w \in Wallets
      PROVE  balance[w] = Net(ledger[w])
  <2>1. /\ \A f : SumFunctionOnSet(f, {}) = 0
        /\ <<>> \in Seq(Entries)
    BY SumEmpty
  <2>2. Net(<<>>) = 0
    <3>1. {i \in DOMAIN <<>> : <<>>[i].type \in {"DEPOSIT", "PURCHASE"}} = {}
      OBVIOUS
    <3> QED
      BY <2>1, <3>1 DEF Net
  <2>3. CASE w \in DOMAIN Opening /\ Opening[w] > 0
    <3> DEFINE row == Entry("DEPOSIT", Opening[w], Opening[w], Founder)
    <3>1. Opening[w] \in Int
      BY <2>3, OpeningAssumption, MaxBalanceAssumption
    <3>2. row \in Entries /\ Share(row) = Opening[w]
      BY <3>1 DEF Entry, Entries, EntryTypes, Refs, Share
    <3>3. balance[w] = Opening[w] /\ ledger[w] = Append(<<>>, row)
      BY <2>3 DEF Init
    <3> HIDE DEF row
    <3>4. Net(Append(<<>>, row)) = Net(<<>>) + Share(row)
      BY <2>1, <3>2, NetOfAppend
    <3> QED
      BY <2>2, <3>1, <3>2, <3>3, <3>4
  <2>4. CASE ~(w \in DOMAIN Opening /\ Opening[w] > 0)
    <3>1. ledger[w] = <<>>
      BY <2>4 DEF Init
    <3>2. balance[w] = 0
      <4>1. CASE w \in DOMAIN Opening
        <5>1. Opening[w] \in 0..MaxBalance
          BY <4>1, OpeningAssumption
        <5> QED
          BY <2>4, <4>1, <5>1, MaxBalanceAssumption DEF Init
      <4>2. CASE w \notin DOMAIN Opening
        BY <4>2 DEF Init
      <4> QED
        BY <4>1, <4>2
    <3> QED
      BY <2>2, <3>1, <3>2
  <2> QED
    BY <2>3, <2>4
<1>2. \A w \in Wallets : balance[w] = Nets[w]
  BY <1>1 DEF Nets
<1>3. SumFunctionOnSet(balance, Wallets) = SumFunctionOnSet(Nets, Wallets)
  BY <1>2, SumAgrees
<1> QED
  BY <1>3 DEF MoneyConserved, Nets

\* Whatever transfers cross, fail or are retried, all balances together are what
\* deposits brought in less what purchases took (wallets are finitely many).
THEOREM TransfersConserve ==
    ASSUME IsFiniteSet(Wallets)
    PROVE  Spec => []MoneyConserved
<1>1. KInv /\ MoneyConserved /\ [Next]_vars => MoneyConserved'
  <2> SUFFICES ASSUME KInv, MoneyConserved, [Next]_vars
               PROVE  MoneyConserved'
    OBVIOUS
  <2>1. CASE UNCHANGED <<balance, ledger>>
    BY <2>1 DEF MoneyConserved
  <2>2. ASSUME NEW r \in Requests, Writes(r)
        PROVE  MoneyConserved'
    BY <2>2, WritesConserve
  <2> QED
    BY <2>1, <2>2, NextBooks DEF KInv
<1> QED
  BY <1>1, InitConserves, KInvariance, PTL DEF Spec

-----------------------------------------------------------------------------
(* Recipients, as long as no key names two of them. *)

\* Clients keep a key of a wallet for one recipient.
OneRecipient ==
    \A r, s \in Requests :
        /\ call[r].op = "transfer" /\ call[s].op = "transfer"
        /\ call[r].wallet = call[s].wallet /\ call[r].ref = call[s].ref
        => call[r].to = call[s].to

\* The wallet that answer a names was credited with this reference.
Credited(a, ref) == a.to \in Wallets /\ Has(ledger[a.to], "TRANSFER_IN", ref)

\* A transfer out of w with this key was asked for, and its recipient credited.
Sender(w, k) ==
    \E s \in Requests :
        /\ pc[s] # "idle" /\ call[s].op = "transfer"
        /\ call[s].wallet = w /\ call[s].ref = k
        /\ Credited(call[s], k)

\* Whoever is, or may yet be, told of a transfer is told of one that arrived.
RecipientInv ==
    /\ BInv
    /\ \A w \in Wallets, k \in Keys : Has(ledger[w], "TRANSFER_OUT", k) => Sender(w, k)
    /\ \A r \in Requests :
          call[r].op = "transfer" /\ reply[r].status = "ok" => Credited(reply[r], call[r].ref)
    /\ \A w \in Wallets, k \in Keys :
          cache[<<w, k>>] # NoAnswer => Credited(cache[<<w, k>>], k)

\* A wallet that was credited stays so.
LEMMA CreditedStays ==
    ASSUME KInv, [Next]_vars, NEW a, NEW ref, Credited(a, ref)
    PROVE  Credited(a, ref)'
<1>1. PICK w \in Wallets : w = a.to
  BY DEF Credited
<1>2. ledger[w] \in Seq(Entries) /\ Has(ledger[w], "TRANSFER_IN", ref)
  BY <1>1 DEF KInv, IInv, TypeOK, Credited
<1>3. CASE ledger'[w] = ledger[w]
  BY <1>1, <1>2, <1>3 DEF Credited
<1>4. ASSUME NEW row, ledger'[w] = Append(ledger[w], row)
      PROVE  Has(ledger'[w], "TRANSFER_IN", ref)
  BY <1>2, <1>4, Appended DEF Has
<1> QED
  BY <1>1, <1>3, <1>4, NextBooks, WritesExtend DEF KInv, Extends, Credited

\* A row that ends a trail is in it.
LEMMA AppendHas ==
    ASSUME NEW trail \in Seq(Entries), NEW row
    PROVE  /\ Has(Append(trail, row), row.type, row.ref)
           /\ \A type, ref : Has(Append(trail, row), type, ref) =>
                 Has(trail, type, ref) \/ (type = row.type /\ ref = row.ref)
BY Appended DEF Has

\* A transfer leaves a row in both trails, and no other commit takes money out
\* of a wallet in a transfer's name.
LEMMA WritesCredit ==
    ASSUME KInv, NEW r \in Requests, Writes(r)
    PROVE  /\ call[r].op = "transfer" => Has(ledger'[call[r].to], "TRANSFER_IN", call[r].ref)
           /\ \A w \in Wallets, k \in Keys :
                 Has(ledger'[w], "TRANSFER_OUT", k) /\ ~Has(ledger[w], "TRANSFER_OUT", k) =>
                    call[r].op = "transfer" /\ call[r].wallet = w /\ call[r].ref = k
<1> DEFINE c == call[r]
<1>1. /\ c.wallet \in Wallets /\ c.to \in Wallets /\ ledger \in [Wallets -> Seq(Entries)]
      /\ c.op = "transfer" => c.wallet # c.to
  BY ReadyFacts DEF Writes, KInv, IInv, TypeOK
<1>2. \A type, amount, after, ref :
         /\ Entry(type, amount, after, ref).type = type
         /\ Entry(type, amount, after, ref).ref = ref
  BY DEF Entry
<1>3. ASSUME NEW row, row.type # "TRANSFER_OUT", c.op # "transfer",
             ledger' = [ledger EXCEPT ![c.wallet] = Append(@, row)],
             NEW w \in Wallets, NEW k \in Keys, Has(ledger'[w], "TRANSFER_OUT", k)
      PROVE  Has(ledger[w], "TRANSFER_OUT", k)
  <2>1. CASE w = c.wallet
    <3>1. ledger'[w] = Append(ledger[w], row) /\ ledger[w] \in Seq(Entries)
      BY <1>1, <1>3, <2>1
    <3> QED
      BY <1>3, <3>1, AppendHas
  <2>2. CASE w # c.wallet
    BY <1>1, <1>3, <2>2
  <2> QED
    BY <2>1, <2>2
<1>4. CASE DepositWrites(r)
  <2> DEFINE row == Entry("DEPOSIT", c.amount, balance[c.wallet] + c.amount, c.ref)
  <2>1. c.op # "transfer" /\ ledger' = [ledger EXCEPT ![c.wallet] = Append(@, row)]
    BY <1>4 DEF DepositWrites
  <2>2. row.type = "DEPOSIT"
    BY <1>2
  <2> HIDE DEF row
  <2> QED
    BY <1>3, <2>1, <2>2
<1>5. CASE PurchaseWrites(r)
  <2> DEFINE row == Entry("PURCHASE", -c.amount, balance[c.wallet] - c.amount, c.ref)
  <2>1. c.op # "transfer" /\ ledger' = [ledger EXCEPT ![c.wallet] = Append(@, row)]
    BY <1>5 DEF PurchaseWrites
  <2>2. row.type = "PURCHASE"
    BY <1>2
  <2> HIDE DEF row
  <2> QED
    BY <1>3, <2>1, <2>2
<1>6. CASE TransferWrites(r)
  <2> DEFINE debit == Entry("TRANSFER_OUT", -c.amount, balance[c.wallet] - c.amount, c.ref)
             credit == Entry("TRANSFER_IN", c.amount, balance[c.to] + c.amount, c.ref)
  <2>1. /\ c.op = "transfer"
        /\ ledger' = [ledger EXCEPT ![c.wallet] = Append(@, debit),
                                    ![c.to] = Append(@, credit)]
        /\ debit.type = "TRANSFER_OUT" /\ debit.ref = c.ref
        /\ credit.type = "TRANSFER_IN" /\ credit.ref = c.ref
    BY <1>2, <1>6 DEF TransferWrites
  <2> HIDE DEF debit, credit
  <2>2. /\ ledger'[c.wallet] = Append(ledger[c.wallet], debit)
        /\ ledger'[c.to] = Append(ledger[c.to], credit)
        /\ \A w \in Wallets : w \notin {c.wallet, c.to} => ledger'[w] = ledger[w]
        /\ ledger[c.wallet] \in Seq(Entries) /\ ledger[c.to] \in Seq(Entries)
    BY <1>1, <2>1
  <2>3. Has(ledger'[c.to], "TRANSFER_IN", c.ref)
    <3>1. Has(Append(ledger[c.to], credit), credit.type, credit.ref)
      BY <2>2, AppendHas
    <3> QED
      BY <2>1, <2>2, <3>1
  <2>4. ASSUME NEW w \in Wallets, NEW k \in Keys,
               Has(ledger'[w], "TRANSFER_OUT", k), ~Has(ledger[w], "TRANSFER_OUT", k)
        PROVE  c.wallet = w /\ c.ref = k
    <3>1. CASE w = c.wallet
      <4>1. Has(Append(ledger[w], debit), "TRANSFER_OUT", k)
        BY <2>2, <2>4, <3>1
      <4>2. ledger[w] \in Seq(Entries)
        BY <2>2, <3>1
      <4>3. k = debit.ref
        BY <2>4, <4>1, <4>2, AppendHas
      <4> QED
        BY <2>1, <3>1, <4>3
    <3>2. CASE w = c.to
      <4>1. Has(Append(ledger[w], credit), "TRANSFER_OUT", k)
        BY <2>2, <2>4, <3>2
      <4>2. ledger[w] \in Seq(Entries)
        BY <2>2, <3>2
      <4>3. credit.type = "TRANSFER_OUT"
        BY <2>4, <4>1, <4>2, AppendHas
      <4> QED
        BY <2>1, <4>3
    <3> QED
      BY <2>2, <2>4, <3>1, <3>2
  <2> QED
    BY <2>1, <2>3, <2>4
<1> QED
  BY <1>4, <1>5, <1>6 DEF Writes

\* Every row that a transfer left in its sender's trail has its sender.
LEMMA NextSenders ==
    ASSUME RecipientInv, [Next]_vars, NEW w \in Wallets, NEW k \in Keys,
           Has(ledger'[w], "TRANSFER_OUT", k)
    PROVE  Sender(w, k)'
<1>1. KInv /\ IInv /\ \A s \in Requests : Moves(s)
  BY NextMoves DEF RecipientInv, BInv, KInv
<1>2. CASE Has(ledger[w], "TRANSFER_OUT", k)
  <2>1. PICK s \in Requests :
           /\ pc[s] # "idle" /\ call[s].op = "transfer"
           /\ call[s].wallet = w /\ call[s].ref = k
           /\ Credited(call[s], k)
    BY <1>2 DEF RecipientInv, Sender
  <2>2. PICK c : c = call[s] /\ c = call'[s]
    BY <1>1, <2>1 DEF Moves
  <2>3. Credited(c, k)'
    BY <1>1, <2>1, <2>2, CreditedStays
  <2> QED
    BY <1>1, <2>1, <2>2, <2>3 DEF Sender, Moves, Credited
<1>3. CASE ~Has(ledger[w], "TRANSFER_OUT", k)
  <2>1. PICK r \in Requests : Writes(r)
    BY <1>1, <1>3, NextBooks
  <2>2. /\ call[r].op = "transfer" /\ call[r].wallet = w /\ call[r].ref = k
        /\ Has(ledger'[call[r].to], "TRANSFER_IN", k)
    BY <1>1, <1>3, <2>1, WritesCredit
  <2>3. call' = call /\ call[r].to \in Wallets /\ pc'[r] # "idle"
    BY <1>1, <2>1, ReadyFacts DEF Writes, IInv, TypeOK
  <2> QED
    BY <2>2, <2>3 DEF Sender, Credited
<1> QED
  BY <1>2, <1>3

\* A replay from the ledger names the recipient of the transfer that is there.
LEMMA ReplayCredited ==
    ASSUME RecipientInv, OneRecipient, NEW r \in Requests, pc[r] # "idle",
           call[r].op = "transfer", Recorded(call[r].wallet, "TRANSFER_OUT", call[r].ref)
    PROVE  Credited(Replay(call[r]), call[r].ref)
<1>1. call[r].wallet \in Wallets /\ call[r].ref \in Keys
  BY DEF RecipientInv, BInv, KInv, IInv, CallsMade, Calls
<1>2. Sender(call[r].wallet, call[r].ref)
  BY <1>1 DEF RecipientInv, Recorded, Rows, Has
<1>3. Credited(call[r], call[r].ref)
  BY <1>2 DEF Sender, OneRecipient, Credited
<1> QED
  BY <1>3 DEF Credited, Replay

\* What a transfer is told by one of its steps.
LEMMA StepCredited ==
    ASSUME RecipientInv, OneRecipient, NEW r \in Requests, Step(r),
           call[r].op = "transfer", reply'[r].status = "ok"
    PROVE  \/ reply'[r] = reply[r]
           \/ \E a : a = reply'[r] /\ Credited(a, call[r].ref)
           \/ reply'[r].to \in Wallets /\ Has(ledger'[reply'[r].to], "TRANSFER_IN", call[r].ref)
<1>1. /\ reply \in [Requests -> Answers \cup {NoAnswer}]
      /\ ledger \in [Wallets -> Seq(Entries)]
  BY DEF RecipientInv, BInv, KInv, IInv, TypeOK
<1>2. ASSUME NEW why \in Refusals PROVE ~Answer(r, Refused(why))
  BY <1>1, <1>2 DEF Answer, Refused, Refusals
<1>3. CASE Lookup(r)
  <2> DEFINE hit == cache[<<call[r].wallet, call[r].ref>>]
  <2>1. call[r].wallet \in Wallets /\ call[r].ref \in Keys
    BY <1>3 DEF Lookup, RecipientInv, BInv, KInv, IInv, CallsMade, Calls
  <2>2. hit # NoAnswer => Credited(hit, call[r].ref)
    BY <2>1 DEF RecipientInv
  <2> HIDE DEF hit
  <2>3. reply' = reply \/ (hit # NoAnswer /\ reply'[r] = hit)
    BY <1>1, <1>3 DEF Lookup, Answer, hit
  <2> QED
    BY <2>2, <2>3
<1>4. CASE Begin(r)
  <2>1. \/ reply' = reply
        \/ /\ Recorded(call[r].wallet, "TRANSFER_OUT", call[r].ref) /\ pc[r] # "idle"
           /\ reply' = [reply EXCEPT ![r] = Replay(call[r])]
    BY <1>2, <1>4 DEF Begin, Refusals
  <2> QED
    BY <1>1, <2>1, ReplayCredited
<1>5. CASE (\E w \in Wallets : LockRow(r, w)) \/ Respond(r)
  BY <1>5 DEF LockRow, Respond
<1>6. CASE ApplyDeposit(r) \/ ApplyPurchase(r)
  BY <1>6 DEF ApplyDeposit, ApplyPurchase
<1>7. CASE ApplyTransfer(r)
  <2> DEFINE c == call[r]
             out == snap[r][c.wallet] - c.amount
             in == snap[r][c.to] + c.amount
             debit == Entry("TRANSFER_OUT", -c.amount, out, c.ref)
             credit == Entry("TRANSFER_IN", c.amount, in, c.ref)
             a == [status |-> "ok", from |-> c.wallet, to |-> c.to,
                   amount |-> c.amount, balance |-> out]
  <2>1. c.wallet \in Wallets /\ c.to \in Wallets /\ c.wallet # c.to
    BY <1>7, ReadyFacts DEF ApplyTransfer, RecipientInv, BInv, KInv
  <2>2. ~Abort(r, "insufficient") /\ ~Abort(r, "failed")
    BY <1>2 DEF Abort, Refusals
  <2>3. Commit(r, [balance EXCEPT ![c.wallet] = out, ![c.to] = in],
                  [ledger EXCEPT ![c.wallet] = Append(@, debit),
                                 ![c.to] = Append(@, credit)], a)
    BY <1>7, <2>2 DEF ApplyTransfer
  <2>4. credit.type = "TRANSFER_IN" /\ credit.ref = c.ref /\ a.to = c.to
    BY DEF Entry
  <2> HIDE DEF a, out, in, debit, credit
  <2>5. reply'[r] = a /\ ledger'[c.to] = Append(ledger[c.to], credit)
    BY <1>1, <2>1, <2>3 DEF Commit
  <2>6. Has(Append(ledger[c.to], credit), credit.type, credit.ref)
    BY <1>1, <2>1, AppendHas
  <2> QED
    BY <2>1, <2>4, <2>5, <2>6
<1> QED
  BY <1>3, <1>4, <1>5, <1>6, <1>7 DEF Step

\* Every transfer told of after a step was credited.
LEMMA NextCredited ==
    ASSUME RecipientInv, OneRecipient, BInv', [Next]_vars, NEW s \in Requests,
           call'[s].op = "transfer", reply'[s].status = "ok"
    PROVE  Credited(reply[s], call[s].ref)'
<1>1. KInv /\ IInv /\ Moves(s)
  BY NextMoves DEF RecipientInv, BInv, KInv
<1>2. ASSUME NEW a, NEW ref, Credited(a, ref), a = reply'[s], ref = call'[s].ref
      PROVE  Credited(reply[s], call[s].ref)'
  <2>1. Credited(a, ref)'
    BY <1>1, <1>2, CreditedStays
  <2> QED
    BY <1>2, <2>1 DEF Credited
<1>3. CASE reply'[s] = reply[s]
  <2>1. pc[s] # "idle"
    BY <1>3 DEF RecipientInv, BInv, NoAnswer
  <2>2. call'[s] = call[s]
    BY <1>1, <2>1 DEF Moves
  <2>3. Credited(reply[s], call[s].ref)
    BY <1>3, <2>2 DEF RecipientInv
  <2> QED
    BY <1>2, <1>3, <2>2, <2>3
<1>4. CASE Step(s) /\ reply'[s] # reply[s]
  <2>1. call'[s] = call[s]
    <3>1. pc[s] # "idle"
      BY <1>4 DEF Step, Lookup, Begin, LockRow, ApplyDeposit, ApplyPurchase, ApplyTransfer,
                  Respond, Ready
    <3> QED
      BY <1>1, <3>1 DEF Moves
  <2>2. \/ \E a : a = reply'[s] /\ Credited(a, call[s].ref)
        \/ reply'[s].to \in Wallets /\ Has(ledger'[reply'[s].to], "TRANSFER_IN", call[s].ref)
    BY <1>4, <2>1, StepCredited
  <2> QED
    BY <1>2, <2>1, <2>2 DEF Credited
<1>5. ASSUME NEW r \in Requests, NEW why \in Refusals, Answer(r, Refused(why))
      PROVE  reply'[s] = reply[s]
  BY <1>1, <1>5 DEF Answer, Refused, Refusals, IInv, TypeOK
<1>6. ASSUME NEW r \in Requests, Step(r), r # s PROVE reply'[s] = reply[s]
  BY <1>1, <1>6, StepMine
<1>7. CASE \E r \in Requests : Interrupt(r)
  BY <1>3, <1>5, <1>7 DEF Interrupt, Abort, Refusals
<1>8. CASE \/ UNCHANGED vars
           \/ \E w \in Wallets : ProvisionWallet(w)
           \/ \E w \in Wallets, k \in Keys : Evict(w, k)
  BY <1>3, <1>8 DEF vars, ProvisionWallet, Evict
<1>9. CASE \E r \in Requests, w \in Wallets, n \in Amounts :
             \/ CallDeposit(r, w, n)
             \/ \E k \in Keys : CallPurchase(r, w, n, k)
             \/ \E v \in Wallets, k \in Keys : CallTransfer(r, w, v, n, k)
  <2>1. \/ reply' = reply
        \/ \E r \in Requests : Answer(r, Refused("selfTransfer"))
    BY <1>9 DEF CallDeposit, CallPurchase, CallTransfer
  <2> QED
    BY <1>3, <1>5, <2>1 DEF Refusals
<1> QED
  BY <1>3, <1>4, <1>6, <1>7, <1>8, <1>9 DEF Next, Refusals

\* Every answer in the cache after a step names a wallet that was credited.
LEMMA NextCachedCredited ==
    ASSUME RecipientInv, [Next]_vars, NEW w \in Wallets, NEW k \in Keys,
           cache'[<<w, k>>] # NoAnswer
    PROVE  Credited(cache[<<w, k>>], k)'
<1>1. KInv /\ cache \in [Wallets \X Keys -> Results \cup {NoAnswer}] /\ <<w, k>> \in Wallets \X Keys
  BY DEF RecipientInv, BInv, KInv, IInv, TypeOK
<1>2. ASSUME NEW a, Credited(a, k), a = cache'[<<w, k>>]
      PROVE  Credited(cache[<<w, k>>], k)'
  <2>1. Credited(a, k)'
    BY <1>1, <1>2, CreditedStays
  <2> QED
    BY <1>2, <2>1 DEF Credited
<1>3. CASE cache'[<<w, k>>] = cache[<<w, k>>]
  BY <1>2, <1>3 DEF RecipientInv
<1>4. ASSUME NEW r \in Requests, Respond(r), cache' # cache,
             cache'[<<w, k>>] # cache[<<w, k>>]
      PROVE  Credited(cache[<<w, k>>], k)'
  <2>1. /\ call[r].op = "transfer"
        /\ cache' = [cache EXCEPT ![<<call[r].wallet, call[r].ref>>] = reply[r]]
    BY <1>4 DEF Respond
  <2>2. reply[r].status = "ok"
    BY <1>1, <1>4 DEF Respond, KInv, IInv, ResultsReady, Results
  <2>3. Credited(reply[r], call[r].ref)
    BY <2>1, <2>2 DEF RecipientInv
  <2>4. <<w, k>> = <<call[r].wallet, call[r].ref>> /\ cache'[<<w, k>>] = reply[r]
    BY <1>1, <1>4, <2>1
  <2>5. k = call[r].ref
    BY <2>4
  <2> QED
    BY <1>2, <2>3, <2>4, <2>5
<1>5. ASSUME NEW v \in Wallets, NEW j \in Keys, Evict(v, j)
      PROVE  cache'[<<w, k>>] = cache[<<w, k>>]
  BY <1>1, <1>5 DEF Evict
<1>6. ASSUME NEW r \in Requests, Step(r) PROVE cache' = cache \/ Respond(r)
  BY <1>6 DEF Step, Lookup, Begin, LockRow, ApplyDeposit, ApplyPurchase, ApplyTransfer,
              Respond, Abort, Commit
<1>7. ASSUME ~ \E r \in Requests : Step(r), ~ \E v \in Wallets, j \in Keys : Evict(v, j)
      PROVE  cache' = cache
  BY <1>7 DEF Next, vars, ProvisionWallet, CallDeposit, CallPurchase, CallTransfer,
              Interrupt, Abort
<1> QED
  BY <1>3, <1>4, <1>5, <1>6, <1>7

\* As long as clients keep a key of a wallet for one recipient, a transfer that is
\* answered with success, first or on a replay from the cache or the ledger, names
\* a wallet that its key has credited.
THEOREM RecipientsWereCredited ==
    Spec /\ []OneRecipient => []RecipientWasCredited
<1>1. Init => RecipientInv
  <2> SUFFICES ASSUME Init PROVE RecipientInv
    OBVIOUS
  <2>1. BInv
    BY InitBInv
  <2>2. ASSUME NEW w \in Wallets, NEW k \in Keys PROVE ~Has(ledger[w], "TRANSFER_OUT", k)
    <3>1. \/ ledger[w] = <<>>
          \/ \E n \in Int : ledger[w] = <<Entry("DEPOSIT", n, n, Founder)>>
      BY OpeningAssumption, MaxBalanceAssumption DEF Init
    <3>2. ASSUME NEW n \in Int, ledger[w] = <<Entry("DEPOSIT", n, n, Founder)>>
          PROVE  ~Has(ledger[w], "TRANSFER_OUT", k)
      <4>1. DOMAIN ledger[w] = {1} /\ ledger[w][1].type = "DEPOSIT"
        BY <3>2 DEF Entry
      <4> QED
        BY <4>1 DEF Has
    <3> QED
      BY <3>1, <3>2 DEF Has
  <2> QED
    BY <2>1, <2>2 DEF Init, RecipientInv, NoCall
<1>2. RecipientInv /\ OneRecipient /\ [Next]_vars => RecipientInv'
  <2> SUFFICES ASSUME RecipientInv, OneRecipient, [Next]_vars PROVE RecipientInv'
    OBVIOUS
  <2>1. BInv'
    BY NextBInv DEF RecipientInv
  <2>2. ASSUME NEW w \in Wallets, NEW k \in Keys, Has(ledger'[w], "TRANSFER_OUT", k)
        PROVE  Sender(w, k)'
    BY <2>2, NextSenders
  <2>3. ASSUME NEW r \in Requests, call'[r].op = "transfer", reply'[r].status = "ok"
        PROVE  Credited(reply[r], call[r].ref)'
    BY <2>1, <2>3, NextCredited
  <2>4. ASSUME NEW w \in Wallets, NEW k \in Keys, cache'[<<w, k>>] # NoAnswer
        PROVE  Credited(cache[<<w, k>>], k)'
    BY <2>4, NextCachedCredited
  <2> QED
    BY <2>1, <2>2, <2>3, <2>4 DEF RecipientInv
<1>3. RecipientInv => RecipientWasCredited
  BY DEF RecipientInv, RecipientWasCredited, Credited, Has, Recorded, Rows
<1> QED
  BY <1>1, <1>2, <1>3, PTL DEF Spec
=============================================================================
