-------------------------- MODULE MCWeightedSlots ---------------------------
(* Model values for WeightedSlots: one slot a bucket, 2 + 2 buckets, one   *)
(* inline edge; a source with edges enough for three tables and a merge,   *)
(* another that fills the denylist they share, and an edge inserted any    *)
(* number of times with a weight of three values.                          *)
EXTENDS WeightedSlots, TLC

CONSTANTS s1, s2, d1, d2, d3, d4, d5, d6, d7

MCEdges == ({s1} \X {d1, d2, d3, d4, d5, d6, d7}) \cup ({s2} \X {d1, d2, d3})

MCRepeated == {<<s1, d1>>}

MCSymmetry == {p @@ q : <<p, q>> \in Permutations({d2, d3}) \X Permutations({d4, d5, d6, d7})}
=============================================================================
