------------------------------ MODULE MCCuckoo ------------------------------
(* Model values for Cuckoo.  Four keys share a bucket in both layers; one  *)
(* of the others can leave that bucket of layer1 for the second bucket of  *)
(* layer2, and three share only the bucket of layer2 with them.  Insertions*)
(* find room in either layer, succeed after one kick or after several, and *)
(* give up with the key they started from or with another one in hand.     *)
EXTENDS Cuckoo

MCKeys == 1 .. 8
MCHash1 == [k \in MCKeys |-> IF k <= 5 THEN 2 * k ELSE 2 * k + 1]
MCHash2 == [k \in MCKeys |-> IF k = 5 THEN 2 * k + 1 ELSE 2 * k]
=============================================================================
