----------------------------- MODULE MCAdjSlot -----------------------------
(* Model values for AdjSlot: one slot a bucket and a first table of the    *)
(* code's proportions, 4 + 2 buckets, so that two colliding keys crowd a   *)
(* table and seven edges go through every stage of the chain: two merges,  *)
(* and a halving that hands keys back, included.                           *)
EXTENDS AdjSlot, TLC

CONSTANTS a1, a2, a3, a4, b1, b2, b3

MCKeys == {a1, a2, a3, a4, b1, b2, b3}

(* Keys are only compared: those of each group are interchangeable.        *)
MCSymmetry ==
    {p @@ q : <<p, q>> \in Permutations({a1, a2, a3, a4}) \X Permutations({b1, b2, b3})}

(* The program is not followed past a key stored twice.                    *)
NoneDoubled == doubled = {}
=============================================================================
