------------------------------ MODULE MCWallet ------------------------------
(***************************************************************************)
(* Small instances of Wallet for TLC.                                      *)
(***************************************************************************)
EXTENDS Wallet, TLC

CONSTANTS k1, k2, r1, r2, r3

\* Two wallets, one of a user who registers while calls are under way: transfers
\* in both directions meet on the same two rows.
MCOpeningLate == 1 :> 2
MCOpening == 1 :> 2 @@ 2 :> 1
MCOpeningThree == 1 :> 2 @@ 2 :> 1 @@ 3 :> 0

Symmetry == Permutations(Requests) \cup Permutations(Keys)
=============================================================================
