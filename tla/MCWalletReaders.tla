-------------------------- MODULE MCWalletReaders ---------------------------
(***************************************************************************)
(* A small instance of WalletReaders for TLC.                              *)
(***************************************************************************)
EXTENDS WalletReaders

CONSTANTS k1, r1, r2, r3

\* One wallet; the other registers while calls are under way.
MCOpening == 1 :> 1

MCLimits == {-1, 1, 2}
=============================================================================
