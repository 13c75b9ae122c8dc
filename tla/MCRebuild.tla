----------------------------- MODULE MCRebuild -----------------------------
(***************************************************************************)
(* Six keys over tables of two slots a bucket.  Three share a bucket of    *)
(* each layer whatever the length.  The fourth is with them in layer1 and, *)
(* in a halved table only, in layer2; the fifth in layer2 and, in a halved *)
(* table only, in layer1; the sixth comes to them in a halved layer1.  So  *)
(* buckets overflow in every move, and the insertions that follow succeed  *)
(* at once, succeed after kicks out of either layer, or fail.  Every       *)
(* placing of the keys in the old tables is tried.                         *)
(***************************************************************************)
EXTENDS Rebuild, TLC

CONSTANTS k1, k2, k3, k4, k5, k6

MCKeys == {k1, k2, k3, k4, k5, k6}
MCHash1 == [k \in MCKeys |-> IF k \in {k5, k6} THEN 6 ELSE 0]
MCHash2 == [k \in MCKeys |-> IF k = k4 THEN 2 ELSE IF k = k6 THEN 1 ELSE 0]
MCSymmetry == Permutations({k1, k2, k3})
=============================================================================
