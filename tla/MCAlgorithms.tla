---------------------------- MODULE MCAlgorithms ----------------------------
(***************************************************************************)
(* Four vertices.  The unweighted algorithms run on every graph of at most *)
(* MaxEdges edges, loops included; the searches for distances on every     *)
(* graph of at most MaxWeighted edges of weight 1 or 3, so that two short  *)
(* edges beat a long one.                                                  *)
(***************************************************************************)
EXTENDS Algorithms

CONSTANTS MaxEdges, MaxWeighted

Unweighted == {[e \in es |-> 1] : es \in UNION {kSubset(k, Node \X Node) : k \in 0 .. MaxEdges}}

Weighted ==
  UNION {[es -> {1, 3}] :
           es \in UNION {kSubset(k, {e \in Node \X Node : e[1] # e[2]}) : k \in 0 .. MaxWeighted}}

MCNode == 1 .. 4
MCGraphs(j) == IF j = "sssp" THEN Weighted ELSE Unweighted

\* The vertices are interchangeable but for the scan order of the searches.
MCSources(j) == IF j = "sssp" THEN Node ELSE {1}
=============================================================================
