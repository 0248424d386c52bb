---------------------------- MODULE MCFlashSale -----------------------------
(***************************************************************************)
(* Small instances of FlashSale for TLC.                                   *)
(***************************************************************************)
EXTENDS FlashSale, TLC

CONSTANTS alice, bob, e1, k1, k2, k3, r1, r2, r3, r4

MCStock == e1 :> 1
MCStockTwo == e1 :> 2
MCPrice == e1 :> 1

\* alice cannot pay before money arrives.
MCPoor == alice :> 0 @@ bob :> 1
MCPoorAlice == alice :> 0 @@ bob :> 2
\* alice can pay for every key she may send, bob cannot yet.
MCFunded == alice :> 2 @@ bob :> 0

\* What the wallets hold at most.
MCOneEach == alice :> 1 @@ bob :> 1
MCTwoForAlice == alice :> 2 @@ bob :> 1
MCTwoForBob == alice :> 1 @@ bob :> 2

\* Both clients may send either key, or each client has keys of its own.
MCSharedKeys == alice :> {k1, k2} @@ bob :> {k1, k2}
MCOwnKeys == alice :> {k1} @@ bob :> {k2}
MCAliceTwoKeys == alice :> {k1, k3} @@ bob :> {k2}
MCBobTwoKeys == alice :> {k1} @@ bob :> {k2, k3}

Symmetry == Permutations(Requests)
=============================================================================
