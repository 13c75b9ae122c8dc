------------------------------ MODULE Digraph ------------------------------
(***************************************************************************)
(* The graph the benchmark algorithms of main.cpp and TestAlgorithm.cpp    *)
(* run on, as they see it through a store: query(Edge) and GetNeighbors.   *)
(* HoleMerge, WindBell and WeightedSlots say what the stores do; here an   *)
(* edge is stored or not, with its weight (1 in the unweighted stores).    *)
(* The algorithms only read it.  The second half defines, from simple      *)
(* paths alone, what they ought to compute.                                *)
(***************************************************************************)
EXTENDS Integers, Sequences, FiniteSets, FiniteSetsExt, SequencesExt

CONSTANT Node               \* The vertices, numbered 1 .. n as mp numbers them.

VARIABLES graph,            \* The stored edges, each with its weight.
          src               \* The vertex the algorithm was called for.

\* A set of Paths may be empty: no distance is shorter than Infinity, the INF
\* of the code (2147483647, or ~0 in the weighted build).
Infinity == 10000

\* holemerge::query and Chandelier::query_edge: the weight, 0 when absent.
query(u, v) == IF <<u, v>> \in DOMAIN graph THEN graph[<<u, v>>] ELSE 0

\* GetNeighbors lists each successor once, in the order of the tables: every
\* reader below takes the set in any order.
GetNeighbors(u) == {v \in Node : <<u, v>> \in DOMAIN graph}

-----------------------------------------------------------------------------
\* The sequences of distinct vertices, and those that are paths from u to v.
Routes == SetToAllKPermutations(Node) \ {<<>>}

Paths(u, v) ==
  {p \in Routes : /\ p[1] = u
                  /\ Last(p) = v
                  /\ \A i \in 1 .. Len(p) - 1 : query(p[i], p[i + 1]) # 0}

Hops(p) == Len(p) - 1

\* The weight of a path.
Length(p) == MapThenSumSet(LAMBDA i : query(p[i], p[i + 1]), 1 .. Hops(p))

Distance(u, v) == Min({Length(p) : p \in Paths(u, v)} \cup {Infinity})

Level(u, v) == Min({Hops(p) : p \in Paths(u, v)} \cup {Infinity})

\* The paths of fewest edges, which betweenness counts.
Shortest(u, v) == {p \in Paths(u, v) : Hops(p) = Level(u, v)}

Reachable(u) == {v \in Node : Paths(u, v) # {}}

\* The strongly connected component of v.
Component(v) == {u \in Reachable(v) : v \in Reachable(u)}

\* The way from s to v and back.
Detour(s, v) == Level(s, v) + Level(v, s)

OnShortestCycle(s, v) ==
  /\ v \in Component(s)
  /\ \A u \in Component(s) \ {s} : Detour(s, v) <= Detour(s, u)
=============================================================================
