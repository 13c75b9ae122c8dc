----------------------------- MODULE Multigraph -----------------------------
(***************************************************************************)
(* What the weighted build promises: a counter for every edge, the number  *)
(* of times it was inserted as far as a count_type holds it (BobHash.h).   *)
(***************************************************************************)
EXTENDS Naturals

CONSTANTS
    Edges,
    Wrap        \* number of values of a count_type

VARIABLE count

Init == count = [e \in Edges |-> 0]
Insert(e) == count' = [count EXCEPT ![e] = (@ + 1) % Wrap]
Next == \E e \in Edges : Insert(e)

Spec == Init /\ [][Next]_count
=============================================================================
