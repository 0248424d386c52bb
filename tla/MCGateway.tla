----------------------------- MODULE MCGateway ------------------------------
(***************************************************************************)
(* A small instance of Gateway for TLC.                                    *)
(***************************************************************************)
EXTENDS Gateway, TLC

CONSTANTS ann, bob, r1, r2, r3

\* Each store is down for a while, not both at once.
MCOutages == [store \in {"db", "redis"} |-> IF store = "db" THEN {1} ELSE {2}]

Symmetry == Permutations(Requests)
=============================================================================
