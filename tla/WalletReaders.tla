---------------------------- MODULE WalletReaders -----------------------------
(***************************************************************************)
(* The two operations of the wallet service that only read: getMe, which   *)
(* shows a user the balance and the latest entries, and verifyInvariant,   *)
(* which compares a wallet's balance with the sum of its entries.  Each    *)
(* makes two queries outside any transaction, and any number of commits    *)
(* can come in between.                                                    *)
(*                                                                         *)
(* verifyInvariant reads all balances with one query and then checks each  *)
(* wallet by itself, so what it says of a wallet is said by following that *)
(* wallet alone.  Entries are listed by createdAt, which is drawn while    *)
(* the row is locked: the order is that of the commits.                    *)
(***************************************************************************)
EXTENDS Wallet, SequencesExt

CONSTANTS
    Watched,  \* the wallets that are looked at
    Limits    \* the values of the query parameter limit, and the default

ASSUME LimitsAssumption == Limits \subseteq Int

VARIABLE reading  \* the read-only call under way

readerVars == <<vars, reading>>

NoReading == [step |-> "none"]

\* Variant of the operator below with a mistake in it: the order is ascending.
LatestAscending(trail, limit) ==
    IF limit < 0 THEN trail ELSE SubSeq(trail, 1, IF limit < Len(trail) THEN limit ELSE Len(trail))

\* The rows of a trail that "ORDER BY createdAt DESC" with "take: limit" returns:
\* the latest ones, or for a negative limit the earliest ones, newest first.
Latest(trail, limit) ==
    LET n == Len(trail)
        first == IF limit < 0 THEN 1 ELSE IF limit < n THEN n - limit + 1 ELSE 1
        last == IF 0 <= limit \/ n < -limit THEN n ELSE -limit
    IN  Reverse(SubSeq(trail, first, last))

SumOf(trail) == SumFunctionOnSet([i \in DOMAIN trail |-> trail[i].amount], DOMAIN trail)

-----------------------------------------------------------------------------
ReadersInit == Init /\ reading = NoReading

\* The first query of either call; without a wallet the caller gets a 404.
\* "rows" is history: the entries there were at that moment.
ReadBalance(w) ==
    /\ reading = NoReading
    /\ w \in opened \cap Watched
    /\ reading' = [step |-> "balance", wallet |-> w, balance |-> balance[w],
                   rows |-> Len(ledger[w])]
    /\ UNCHANGED vars

\* The second query of getMe, and its answer.
ShowEntries(limit) ==
    /\ reading.step = "balance"
    /\ reading' = [step |-> "statement", balance |-> reading.balance,
                   rows |-> reading.rows, limit |-> limit,
                   entries |-> Latest(ledger[reading.wallet], limit),
                   since |-> Len(ledger[reading.wallet]) - reading.rows]
    /\ UNCHANGED vars

\* The second query of verifyInvariant, and its verdict.
SumEntries ==
    LET trail == ledger[reading.wallet]
    IN  /\ reading.step = "balance"
        /\ reading' = [step |-> "verdict", matches |-> reading.balance = SumOf(trail),
                       since |-> Len(trail) - reading.rows]
        /\ UNCHANGED vars

\* The call has been answered.
Return ==
    /\ reading.step \in {"statement", "verdict"}
    /\ reading' = NoReading
    /\ UNCHANGED vars

ReadersNext ==
    \/ Next /\ UNCHANGED reading
    \/ \E w \in Wallets : ReadBalance(w)
    \/ \E limit \in Limits : ShowEntries(limit)
    \/ SumEntries
    \/ Return

ReadersSpec ==
    /\ ReadersInit /\ [][ReadersNext]_readerVars
    /\ \A r \in Requests : WF_vars(Step(r))

-----------------------------------------------------------------------------
(* Properties. *)

\* A statement can be followed by its reader although its two queries see
\* different moments: the rows shown have no gap, the balance shown is that of
\* the row below those committed in between, and only these stand above it.
StatementAgrees ==
    reading.step = "statement" =>
        LET shown == reading.entries
        IN  /\ \A i \in 1..(Len(shown) - 1) :
                  shown[i].after = shown[i + 1].after + shown[i].amount
            /\ reading.limit > reading.since /\ reading.rows > 0 =>
                  /\ Len(shown) > reading.since
                  /\ shown[reading.since + 1].after = reading.balance

\* The audit reports a broken wallet only if an entry was committed between its
\* two queries: no interleaving of deposits, purchases and transfers breaks one.
AlarmMeansMovement ==
    reading.step = "verdict" => reading.matches \/ reading.since > 0
=============================================================================
