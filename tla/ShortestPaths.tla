--------------------------- MODULE ShortestPaths ---------------------------
(***************************************************************************)
(* The array form of Dijkstra's algorithm, written out in every test_sssp  *)
(* function over the vertices topk[0 .. num - 1].  test_sssp and           *)
(* test_sssp_new relax the edges of the vertex just settled (qen.src = k); *)
(* test_sssp_hole, test_sssp_wind and the copy in TestAlgorithm.cpp ask    *)
(* for the edges of the source again (qen.src = vs), so that they miss     *)
(* every path of two edges: no shortest distances, although src/README.md  *)
(* (line 52) offers that code as SSSP.                                     *)
(***************************************************************************)
EXTENDS Digraph

VARIABLES relax,        \* Whose edges are relaxed: "k" or "vs".
          flag,         \* The vertices settled.
          dist,         \* The distances.
          ii            \* The counter of the outer loop.
ssspVars == <<relax, flag, dist, ii>>

Num == Cardinality(Node)

SsspIdle == relax = "k" /\ flag = {} /\ dist = [x \in Node |-> 0] /\ ii = Num

\* The loop that fills flag and dist before the search.
SsspInit ==
  /\ relax \in {"k", "vs"}
  /\ flag = {src}
  /\ dist = [x \in Node |-> IF x = src THEN 0
                            ELSE IF query(src, x) # 0 THEN query(src, x)
                            ELSE Infinity]
  /\ ii = 1

\* Mutant: the scan keeps the last vertex, whatever its distance.
NearestLast == Max(Node \ flag)

\* The scan for the least distance: the first of the least ones in topk order.
Nearest ==
  CHOOSE k \in Node \ flag :
    \A x \in Node \ flag : dist[k] < dist[x] \/ (dist[k] = dist[x] /\ k <= x)

\* The loop that relaxes; a distance is only lowered for a vertex not settled.
Relaxed(from, min, settled) ==
  [x \in Node |->
     IF x \notin settled /\ query(from, x) # 0 /\ min + query(from, x) < dist[x]
     THEN min + query(from, x) ELSE dist[x]]

\* One turn of the outer loop, which stops at a vertex that is out of reach.
Settle ==
  /\ ii < Num
  /\ LET k == Nearest
     IN  /\ flag' = flag \cup {k}
         /\ IF dist[k] = Infinity
            THEN ii' = Num /\ UNCHANGED dist
            ELSE /\ ii' = ii + 1
                 /\ dist' = Relaxed(IF relax = "k" THEN k ELSE src, dist[k], flag')
  /\ UNCHANGED relax

-----------------------------------------------------------------------------
ShortestTypeOK ==
  /\ flag \subseteq Node
  /\ dist \in [Node -> 0 .. Infinity]
  /\ ii \in 1 .. Num

\* No search ever holds a distance below the true one. One that relaxes from the
\* vertex just settled has the true distance of every settled vertex, and after
\* its Num - 1 turns that of the one that is left. Of the searches that relax
\* from the source again only the first half is claimed: what they end with is
\* not the distance wherever a path of two edges is shorter.
DistancesExact ==
  flag # {} =>
    /\ \A x \in Node : dist[x] >= Distance(src, x)
    /\ relax = "k" =>
         \A x \in Node : x \in flag \/ ii = Num => dist[x] = Distance(src, x)
=============================================================================
