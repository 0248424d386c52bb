-------------------------- MODULE WalletReadersProofs --------------------------
(***************************************************************************)
(* A theorem about getMe beside any number of calls of the wallet service, *)
(* for any wallets, limits and amounts.                                    *)
(***************************************************************************)
EXTENDS WalletReaders, WalletBookProofs

-----------------------------------------------------------------------------
(* The wallets under the readers. *)

\* A reader leaves the wallets alone, so they keep the invariant of the service.
LEMMA WalletsUnderReaders == ReadersSpec => []KInv
<1>1. ReadersInit => Init
  BY DEF ReadersInit
<1>2. [ReadersNext]_readerVars => [Next]_vars
  BY DEF ReadersNext, readerVars, ReadBalance, ShowEntries, SumEntries, Return
<1> QED
  BY <1>1, <1>2, KInvariance, PTL DEF ReadersSpec, Spec

\* A trail keeps its rows and grows at its end.
LEMMA TrailsGrow ==
    ASSUME KInv, KInv', [Next]_vars, NEW w \in Wallets
    PROVE  /\ Len(ledger[w]) \in Nat /\ Len(ledger'[w]) \in Nat
           /\ Len(ledger[w]) <= Len(ledger'[w])
           /\ \A i \in 1..Len(ledger[w]) : ledger'[w][i] = ledger[w][i]
<1>1. ledger[w] \in Seq(Entries) /\ ledger'[w] \in Seq(Entries)
  BY DEF KInv, IInv, TypeOK
<1>2. CASE ledger'[w] = ledger[w]
  BY <1>1, <1>2
<1>3. ASSUME NEW row \in Entries, ledger'[w] = Append(ledger[w], row)
      PROVE  /\ Len(ledger[w]) <= Len(ledger'[w])
             /\ \A i \in 1..Len(ledger[w]) : ledger'[w][i] = ledger[w][i]
  BY <1>1, <1>3
<1>4. ledger'[w] = ledger[w] \/ \E row \in Entries : ledger'[w] = Append(ledger[w], row)
  <2>1. CASE UNCHANGED <<balance, ledger>>
    BY <2>1
  <2>2. ASSUME NEW r \in Requests, Writes(r)
        PROVE  ledger'[w] = ledger[w] \/ \E row \in Entries : ledger'[w] = Append(ledger[w], row)
    BY <2>2, WritesExtend DEF Extends
  <2> QED
    BY <2>1, <2>2, NextBooks DEF KInv
<1> QED
  BY <1>1, <1>2, <1>3, <1>4

-----------------------------------------------------------------------------
(* What a statement shows. *)

\* The rows of a statement are neighbours in the trail, newest first, and reach
\* down to row "rows" if the limit allows for those above it.
LEMMA LatestRows ==
    ASSUME NEW trail \in Seq(Entries), NEW limit \in Int
    PROVE  \E last \in 0..Len(trail) :
              /\ Len(Latest(trail, limit)) \in 0..last
              /\ \A i \in 1..Len(Latest(trail, limit)) :
                    Latest(trail, limit)[i] = trail[last - i + 1]
              /\ limit > 0 =>
                    /\ last = Len(trail)
                    /\ \/ Len(Latest(trail, limit)) = last
                       \/ Len(Latest(trail, limit)) >= limit
<1> DEFINE n == Len(trail)
           first == IF limit < 0 THEN 1 ELSE IF limit < n THEN n - limit + 1 ELSE 1
           last == IF 0 <= limit \/ n < -limit THEN n ELSE -limit
           rows == SubSeq(trail, first, last)
<1>1. n \in Nat /\ first \in 1..(n + 1) /\ last \in 0..n
  OBVIOUS
<1>2. /\ Len(rows) = IF first <= last THEN last - first + 1 ELSE 0
      /\ \A i \in 1..Len(rows) : rows[i] = trail[first + i - 1]
  BY <1>1
<1>3. Latest(trail, limit) = [i \in 1..Len(rows) |-> rows[(Len(rows) - i) + 1]]
  BY DEF Latest, Reverse
<1>4. limit > 0 => last = n /\ (first = 1 \/ last - first + 1 = limit)
  BY <1>1
<1> HIDE DEF n, first, last, rows
<1>5. Len(rows) \in Nat /\ Len(Latest(trail, limit)) = Len(rows)
  BY <1>1, <1>2, <1>3
<1>6. ASSUME NEW i \in 1..Len(rows)
      PROVE  Latest(trail, limit)[i] = trail[last - i + 1]
  <2>1. (Len(rows) - i) + 1 \in 1..Len(rows) /\ Len(rows) = last - first + 1
    BY <1>1, <1>2, <1>5
  <2>2. Latest(trail, limit)[i] = rows[(Len(rows) - i) + 1]
    BY <1>3
  <2>3. first + ((Len(rows) - i) + 1) - 1 = last - i + 1
    BY <1>1, <2>1
  <2> QED
    BY <1>2, <2>1, <2>2, <2>3
<1> QED
  BY <1>1, <1>2, <1>4, <1>5, <1>6 DEF n

\* The amounts of a trail that can be replayed add up to its last balance.
LEMMA ChainSum ==
    ASSUME NEW trail \in Seq(Entries), Chained(trail)
    PROVE  SumOf(trail) = After(trail, Len(trail))
<1> DEFINE n == Len(trail)
           f == [i \in DOMAIN trail |-> trail[i].amount]
           sum(m) == SumFunctionOnSet(f, 1..m)
           D == {m \in 0..n : sum(m) # After(trail, m)}
<1>1. n \in Nat /\ DOMAIN trail = 1..n
  OBVIOUS
<1>2. \A i \in 1..n : f[i] = trail[i].amount /\ f[i] \in Int
  BY <1>1, NetIsInt
<1>3. SumOf(trail) = sum(n)
  BY <1>1 DEF SumOf
<1> HIDE DEF n, f
<1>4. ASSUME D # {}
      PROVE  FALSE
  <2>1. D \subseteq Nat
    BY <1>1
  <2>2. PICK m \in D : \A j \in D : ~ (<<j, m>> \in OpToRel(<, Nat))
    <3> HIDE DEF D
    <3> QED
      BY <1>4, <2>1, NatLessThanWellFounded, WFMin
  <2>3. m \in Nat /\ m <= n /\ sum(m) # After(trail, m)
    BY <1>1
  <2>4. m # 0
    <3>1. 1..0 = {} /\ After(trail, 0) = 0
      BY DEF After
    <3>2. sum(0) = 0
      BY <3>1, SumEmpty
    <3> QED
      BY <2>3, <3>1, <3>2
  <2>5. PICK k \in Nat : k = m - 1 /\ m = k + 1 /\ k < m /\ m \in 1..n
    BY <1>1, <2>3, <2>4
  <2>6. sum(k) = After(trail, k)
    <3>1. <<k, m>> \in OpToRel(<, Nat)
      BY <2>3, <2>5 DEF OpToRel
    <3>2. k \in 0..n
      BY <1>1, <2>5
    <3>3. k \notin D
      <4> HIDE DEF D
      <4> QED
        BY <2>2, <3>1
    <3> QED
      BY <3>2, <3>3
  <2>7. sum(m) = sum(k) + f[m]
    <3>1. /\ 1..m = (1..k) \cup {m} /\ m \notin 1..k
          /\ \A i \in 1..k : i \in 1..n
      BY <1>1, <2>5
    <3>2. IsFiniteSet(1..k)
      BY FS_Interval
    <3>3. \A i \in 1..k : f[i] \in Int
      BY <1>2, <3>1
    <3>4. f[m] \in Int
      BY <1>2, <2>5
    <3>5. SumFunctionOnSet(f, (1..k) \cup {m}) = SumFunctionOnSet(f, 1..k) + f[m]
      BY <3>1, <3>2, <3>3, <3>4, SumAddOne
    <3> QED
      BY <3>1, <3>5
  <2>8. After(trail, m) = After(trail, k) + f[m]
    <3>1. After(trail, m) = After(trail, m - 1) + trail[m].amount
      BY <1>1, <2>5 DEF Chained
    <3> QED
      BY <1>2, <2>5, <3>1
  <2> QED
    BY <2>3, <2>6, <2>7, <2>8
<1>5. n \in 0..n
  BY <1>1
<1>6. sum(n) = After(trail, n)
  BY <1>4, <1>5
<1> QED
  BY <1>3, <1>6 DEF n

\* A read that is half done holds the balance of a row of its trail; what is above
\* that row has been committed since.
ReadInv ==
    /\ reading.step = "balance" =>
          /\ reading.wallet \in Wallets
          /\ reading.rows \in 0..Len(ledger[reading.wallet])
          /\ reading.balance = After(ledger[reading.wallet], reading.rows)
    /\ StatementAgrees
    /\ AlarmMeansMovement

\* Of a trail whose row "rows" has this balance, a statement shows a chain in which
\* that row stands below those committed since.
LEMMA ShownAgrees ==
    ASSUME NEW trail \in Seq(Entries), Chained(trail), NEW limit \in Int,
           NEW rows \in 0..Len(trail)
    PROVE  LET shown == Latest(trail, limit)
               since == Len(trail) - rows
           IN  /\ \A i \in 1..(Len(shown) - 1) :
                     shown[i].after = shown[i + 1].after + shown[i].amount
               /\ limit > since /\ rows > 0 =>
                     /\ Len(shown) > since
                     /\ shown[since + 1].after = After(trail, rows)
<1> DEFINE shown == Latest(trail, limit)
<1>1. PICK last \in 0..Len(trail) :
         /\ Len(shown) \in 0..last
         /\ \A i \in 1..Len(shown) : shown[i] = trail[last - i + 1]
         /\ limit > 0 => last = Len(trail) /\ (Len(shown) = last \/ Len(shown) >= limit)
  BY LatestRows
<1>2. Len(trail) \in Nat /\ DOMAIN trail = 1..Len(trail)
  OBVIOUS
<1>3. last \in Nat /\ last <= Len(trail) /\ Len(shown) \in Nat /\ Len(shown) <= last
  <2>1. last \in Nat /\ last <= Len(trail)
    BY <1>2
  <2>2. Len(shown) \in 0..last
    BY <1>1
  <2> QED
    BY <2>1, <2>2
<1>4. rows \in Nat /\ rows <= Len(trail)
  BY <1>2
<1> DEFINE n == Len(trail)
           m == Len(shown)
<1>5. /\ n \in Nat /\ DOMAIN trail = 1..n
      /\ last \in Nat /\ last <= n /\ m \in Nat /\ m <= last
      /\ \A i \in 1..m : shown[i] = trail[last - i + 1]
      /\ rows \in Nat /\ rows <= n
      /\ limit > 0 => last = n /\ (m = last \/ m >= limit)
  BY <1>1, <1>2, <1>3, <1>4
<1> HIDE DEF shown, n, m
<1>6. ASSUME NEW i \in 1..(m - 1)
      PROVE  shown[i].after = shown[i + 1].after + shown[i].amount
  <2>1. /\ i \in 1..m /\ i + 1 \in 1..m
        /\ last - i + 1 \in 1..n /\ last - i + 1 - 1 = last - i
        /\ last - i # 0 /\ last - i + 1 # 0 /\ last - (i + 1) + 1 = last - i
    BY <1>5
  <2>2. shown[i] = trail[last - i + 1] /\ shown[i + 1] = trail[last - i]
    BY <1>5, <2>1
  <2>3. After(trail, last - i + 1) = After(trail, last - i) + trail[last - i + 1].amount
    <3>1. PICK j \in DOMAIN trail : j = last - i + 1 /\ j - 1 = last - i
      BY <1>5, <2>1
    <3>2. After(trail, j) = After(trail, j - 1) + trail[j].amount
      BY DEF Chained
    <3> QED
      BY <3>1, <3>2
  <2> QED
    BY <2>1, <2>2, <2>3 DEF After
<1>7. ASSUME limit > n - rows, rows > 0
      PROVE  m > n - rows /\ shown[n - rows + 1].after = After(trail, rows)
  <2>1. last = n /\ m > n - rows
    BY <1>5, <1>7
  <2>2. n - rows + 1 \in 1..m /\ last - (n - rows + 1) + 1 = rows
    BY <1>5, <2>1
  <2>3. shown[n - rows + 1] = trail[rows]
    BY <1>5, <2>2
  <2> QED
    BY <1>7, <2>1, <2>3 DEF After
<1> QED
  BY <1>6, <1>7 DEF shown, n, m

LEMMA ReadersStep ==
    ASSUME KInv, KInv', ReadInv, [ReadersNext]_readerVars
    PROVE  ReadInv'
<1> USE DEF ReadInv
<1>1. \A w \in Wallets :
         /\ ledger[w] \in Seq(Entries) /\ Chained(ledger[w]) /\ Len(ledger[w]) \in Nat
         /\ balance[w] = After(ledger[w], Len(ledger[w]))
  BY DEF KInv, IInv, TypeOK, RunningBalance
<1>2. CASE [Next]_vars /\ UNCHANGED reading
  <2>1. StatementAgrees' /\ AlarmMeansMovement'
    BY <1>2 DEF StatementAgrees, AlarmMeansMovement
  <2>2. ASSUME reading.step = "balance"
        PROVE  /\ reading.rows \in 0..Len(ledger'[reading.wallet])
               /\ reading.balance = After(ledger'[reading.wallet], reading.rows)
    <3>1. /\ Len(ledger[reading.wallet]) \in Nat /\ Len(ledger'[reading.wallet]) \in Nat
          /\ Len(ledger[reading.wallet]) <= Len(ledger'[reading.wallet])
          /\ \A i \in 1..Len(ledger[reading.wallet]) :
                ledger'[reading.wallet][i] = ledger[reading.wallet][i]
      BY <1>2, <2>2, TrailsGrow
    <3> QED
      BY <2>2, <3>1 DEF After
  <2> QED
    BY <1>2, <2>1, <2>2
<1>3. ASSUME NEW w \in Wallets, ReadBalance(w)
      PROVE  ReadInv'
  BY <1>1, <1>3 DEF ReadBalance, StatementAgrees, AlarmMeansMovement, vars
<1>4. ASSUME NEW limit \in Limits, ShowEntries(limit)
      PROVE  ReadInv'
  <2> DEFINE trail == ledger[reading.wallet]
             since == Len(trail) - reading.rows
             shown == Latest(trail, limit)
  <2>1. /\ reading.step = "balance"
        /\ reading' = [step |-> "statement", balance |-> reading.balance,
                       rows |-> reading.rows, limit |-> limit,
                       entries |-> shown, since |-> since]
    BY <1>4 DEF ShowEntries
  <2>2. limit \in Int
    BY LimitsAssumption
  <2>3. /\ \A i \in 1..(Len(shown) - 1) :
              shown[i].after = shown[i + 1].after + shown[i].amount
        /\ limit > since /\ reading.rows > 0 =>
              /\ Len(shown) > since
              /\ shown[since + 1].after = reading.balance
    BY <1>1, <2>1, <2>2, ShownAgrees
  <2> HIDE DEF shown, since
  <2> QED
    BY <2>1, <2>3 DEF StatementAgrees, AlarmMeansMovement
<1>5. CASE SumEntries
  <2> DEFINE trail == ledger[reading.wallet]
             matches == reading.balance = SumOf(trail)
             since == Len(trail) - reading.rows
  <2>1. /\ reading.step = "balance"
        /\ reading' = [step |-> "verdict", matches |-> matches, since |-> since]
    BY <1>5 DEF SumEntries
  <2>2. /\ reading.wallet \in Wallets
        /\ reading.rows \in 0..Len(trail)
        /\ reading.balance = After(trail, reading.rows)
    BY <2>1
  <2>3. SumOf(trail) = After(trail, Len(trail)) /\ Len(trail) \in Nat
    BY <1>1, <2>2, ChainSum
  <2>4. matches \/ since > 0
    <3>1. CASE reading.rows = Len(trail)
      BY <2>2, <2>3, <3>1
    <3>2. CASE reading.rows # Len(trail)
      BY <2>2, <2>3, <3>2
    <3> QED
      BY <3>1, <3>2
  <2> HIDE DEF matches, since
  <2> QED
    BY <2>1, <2>4 DEF StatementAgrees, AlarmMeansMovement
<1>6. CASE Return
  BY <1>6 DEF Return, NoReading, StatementAgrees, AlarmMeansMovement
<1> QED
  BY <1>2, <1>3, <1>4, <1>5, <1>6 DEF ReadersNext, readerVars, vars

LEMMA ReadInvariance == ReadersSpec => []ReadInv
<1>1. ReadersInit => ReadInv
  BY DEF ReadersInit, NoReading, ReadInv, StatementAgrees, AlarmMeansMovement
<1>2. KInv /\ KInv' /\ ReadInv /\ [ReadersNext]_readerVars => ReadInv'
  BY ReadersStep
<1> QED
  BY <1>1, <1>2, WalletsUnderReaders, PTL DEF ReadersSpec

\* WalletService.getMe: whatever is committed between its two queries, the rows it
\* shows have no gap and the balance it shows is that of the row below those
\* committed since, for any limit.
THEOREM StatementsAgree == ReadersSpec => []StatementAgrees
<1>1. ReadInv => StatementAgrees
  BY DEF ReadInv
<1> QED
  BY <1>1, ReadInvariance, PTL

\* WalletService.verifyInvariant: the audit compares a balance with the sum of the
\* entries in two queries; it never reports a wallet as broken unless an entry was
\* committed between the two.
THEOREM AlarmsAreMovement == ReadersSpec => []AlarmMeansMovement
<1>1. ReadInv => AlarmMeansMovement
  BY DEF ReadInv
<1> QED
  BY <1>1, ReadInvariance, PTL
=============================================================================
