-------------------------------- MODULE Shop ---------------------------------
(***************************************************************************)
(* What the flash sale promises, without requests, retries, compensations  *)
(* or polls: a shop in which the charge, the unit and the order are one    *)
(* atomic step, made once for each key, while there are units and money.   *)
(* FlashSale.tla implements this specification as long as no fault happens *)
(* and duplicates in flight are of users who can pay.                      *)
(***************************************************************************)
EXTENDS Integers, FiniteSets

CONSTANTS
    Users,
    Events,
    Keys,       \* names a purchase, once for each event
    Stock,      \* Stock[e]: units of the event
    Price,      \* Price[e]: what one unit costs
    Opening,    \* Opening[u]: money of the user at the start
    Spenders    \* the users who also transfer money to others

VARIABLES
    funds,  \* the money of each user
    sold    \* <<user, event, key>> of every unit sold

shopVars == <<funds, sold>>

SoldOf(e) == {x \in sold : x[2] = e}

Init ==
    /\ funds = Opening
    /\ sold = {}

\* Money comes and goes outside the shop.
TopUp(u) ==
    /\ funds' = [funds EXCEPT ![u] = @ + 1]
    /\ UNCHANGED sold

Spend(u) ==
    /\ u \in Spenders
    /\ funds[u] > 0
    /\ funds' = [funds EXCEPT ![u] = @ - 1]
    /\ UNCHANGED sold

Sell(u, e, k) ==
    /\ Cardinality(SoldOf(e)) < Stock[e]
    /\ \A v \in Users : <<v, e, k>> \notin sold
    /\ Price[e] <= funds[u]
    /\ funds' = [funds EXCEPT ![u] = @ - Price[e]]
    /\ sold' = sold \cup {<<u, e, k>>}

Next ==
    \/ \E u \in Users : TopUp(u) \/ Spend(u)
    \/ \E u \in Users, e \in Events, k \in Keys : Sell(u, e, k)

Spec == Init /\ [][Next]_shopVars
=============================================================================
