----------------------------- MODULE MCSessions -----------------------------
(***************************************************************************)
(* Small instances of Sessions for TLC.                                    *)
(***************************************************************************)
EXTENDS Sessions, TLC

CONSTANTS ann, bob, t1, t2, t3, r1, r2, r3, r4

\* The documented setting, one without a unit and one ttlToSeconds refuses.
MCLifetimes == {[amount |-> 7, unit |-> "d"], [amount |-> 900, unit |-> "none"],
                [amount |-> 1, unit |-> "w"]}
MCLifetime == {[amount |-> 7, unit |-> "d"]}

Symmetry == Permutations(Requests) \cup Permutations(Tokens)
=============================================================================
