---------------------------- MODULE MCHoleMerge ----------------------------
(* Model values for HoleMerge: one slot a bucket and a first table of      *)
(* 2 + 2 buckets, small enough for seven sources to fill it and overflow   *)
(* the denylist, and enough of them for three tables and a merge.          *)
EXTENDS HoleMerge, TLC

CONSTANTS a1, a2, a3, a4, b1, b2, b3

MCSources == {a1, a2, a3, a4, b1, b2, b3}

(* Sources are only compared: those of each group are interchangeable.     *)
MCSymmetry ==
    {p @@ q : <<p, q>> \in Permutations({a1, a2, a3, a4}) \X Permutations({b1, b2, b3})}
=============================================================================
