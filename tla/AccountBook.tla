----------------------------- MODULE AccountBook -----------------------------
(***************************************************************************)
(* What the wallet promises its callers, without locks, transactions,      *)
(* caches or processes: a book of accounts in which money moves in single  *)
(* atomic steps, never below zero, and in which an effect identified by    *)
(* (type, account, reference) is applied at most once.  Wallet.tla         *)
(* implements this specification.                                          *)
(***************************************************************************)
EXTENDS Integers

CONSTANTS
    Accounts,    \* the accounts that may ever be opened
    Amounts,     \* the sums a caller may move
    Refs,        \* references an effect is identified by
    MaxBalance,  \* the largest balance the book can store
    Opening      \* a function from the accounts open at the start to their funds

VARIABLES
    opened,   \* the accounts that exist
    funds,    \* the money in each account
    applied   \* the effects applied since the start

bookVars == <<opened, funds, applied>>

Effect(type, a, ref) == [type |-> type, account |-> a, ref |-> ref]

Init ==
    /\ opened = DOMAIN Opening
    /\ funds = [a \in Accounts |->
                  IF a \in DOMAIN Opening THEN Opening[a] ELSE 0]
    /\ applied = {}

Open(a) ==
    /\ a \notin opened
    /\ opened' = opened \cup {a}
    /\ UNCHANGED <<funds, applied>>

Deposit(a, n, ref) ==
    /\ a \in opened
    /\ Effect("DEPOSIT", a, ref) \notin applied
    /\ funds[a] + n <= MaxBalance
    /\ funds' = [funds EXCEPT ![a] = @ + n]
    /\ applied' = applied \cup {Effect("DEPOSIT", a, ref)}
    /\ UNCHANGED opened

Purchase(a, n, ref) ==
    /\ a \in opened
    /\ Effect("PURCHASE", a, ref) \notin applied
    /\ n <= funds[a]
    /\ funds' = [funds EXCEPT ![a] = @ - n]
    /\ applied' = applied \cup {Effect("PURCHASE", a, ref)}
    /\ UNCHANGED opened

Transfer(a, b, n, ref) ==
    LET effects == {Effect("TRANSFER_OUT", a, ref), Effect("TRANSFER_IN", b, ref)}
    IN  /\ {a, b} \subseteq opened
        /\ a # b
        /\ effects \cap applied = {}
        /\ n <= funds[a]
        /\ funds[b] + n <= MaxBalance
        /\ funds' = [funds EXCEPT ![a] = @ - n, ![b] = @ + n]
        /\ applied' = applied \cup effects
        /\ UNCHANGED opened

Next ==
    \/ \E a \in Accounts : Open(a)
    \/ \E a \in Accounts, n \in Amounts, ref \in Refs :
          \/ Deposit(a, n, ref)
          \/ Purchase(a, n, ref)
          \/ \E b \in Accounts : Transfer(a, b, n, ref)

Spec == Init /\ [][Next]_bookVars
==============================================================================
