----------------------------- MODULE Centrality -----------------------------
(***************************************************************************)
(* Betweenness (ours_Bc, wind_Bc, Bc), the local clustering coefficient    *)
(* (ours_Lcc, wind_Lcc, Lcc) and the triangles through a vertex            *)
(* (holemerge::query_triangles).                                           *)
(*                                                                         *)
(* The loop of the betweenness code over the sources is taken at one       *)
(* source, src: the turns share CB only, and add to it.  A distance of 0   *)
(* stands for "not seen" there, so the source counts as not seen when a    *)
(* cycle comes back to it.  delta and CB are doubles: they are counted in  *)
(* units of 1/Unit and a quotient is rounded down to a unit.               *)
(***************************************************************************)
EXTENDS Digraph

CONSTANT Unit           \* One, in the scale of delta and CB.

VARIABLES bq,           \* The queue Q.
          order,        \* The stack S: the vertices taken from Q, in order.
          hops,         \* The map dist of the code.
          sigma,        \* The number of shortest paths.
          prev,         \* The predecessors, in the order they were pushed.
          delta,        \* The dependencies, in units.
          CB            \* The betweenness, in units.
bcVars == <<bq, order, hops, sigma, prev, delta, CB>>

VARIABLES lcc,          \* The pair t, d of each vertex: lcc is t / (d * (d - 1)).
          cnt           \* The result of query_triangles; -1 before the call.
localVars == <<lcc, cnt>>

Zero == [v \in Node |-> 0]

BcIdle == /\ bq = <<>> /\ order = <<>> /\ hops = Zero /\ sigma = Zero
          /\ prev = [v \in Node |-> <<>>] /\ delta = Zero /\ CB = Zero

BcInit == /\ bq = <<src>> /\ order = <<>> /\ hops = Zero
          /\ sigma = [Zero EXCEPT ![src] = 1]
          /\ prev = [v \in Node |-> <<>>] /\ delta = Zero /\ CB = Zero

\* A distance of 0 means the vertex has not been reached yet.
NotSeen(b, v) == b.hops[v] = 0

\* Mutant: only the predecessor that finds a vertex first is counted.
ReachFirstOnly(b, u, v) ==
  IF NotSeen(b, v)
  THEN [b EXCEPT !.hops[v] = b.hops[u] + 1, !.bq = Append(@, v),
                 !.sigma[v] = @ + b.sigma[u], !.prev[v] = Append(@, u)]
  ELSE b

\* The body of the loop over the neighbours of u.
Reach(b, u, v) ==
  LET seen == IF NotSeen(b, v)
              THEN [b EXCEPT !.hops[v] = b.hops[u] + 1, !.bq = Append(@, v)]
              ELSE b
  IN  IF seen.hops[v] = seen.hops[u] + 1
      THEN [seen EXCEPT !.sigma[v] = @ + seen.sigma[u], !.prev[v] = Append(@, u)]
      ELSE seen

\* One turn of the first while loop.
BcVisit ==
  /\ bq # <<>>
  /\ order' = Append(order, Head(bq))
  /\ \E vs \in SetToSeqs(GetNeighbors(Head(bq))) :
       LET b == FoldLeft(LAMBDA acc, v : Reach(acc, Head(bq), v),
                         [bq |-> Tail(bq), hops |-> hops, sigma |-> sigma, prev |-> prev],
                         vs)
       IN  bq' = b.bq /\ hops' = b.hops /\ sigma' = b.sigma /\ prev' = b.prev
  /\ UNCHANGED <<delta, CB>>

\* What u owes to its successor v.
Share(d, u, v) == (sigma[u] * (Unit + d[v])) \div sigma[v]

\* One turn of the second while loop: the newest vertex of S gives each of its
\* predecessors its share, and CB[v] grows once for each of them but src.
BcAccumulate ==
  /\ bq = <<>> /\ order # <<>>
  /\ LET v == Last(order)
     IN  /\ delta' = FoldLeft(LAMBDA d, u : [d EXCEPT ![u] = @ + Share(d, u, v)],
                              delta, prev[v])
         /\ CB' = [CB EXCEPT ![v] =
                     @ + delta[v] * Len(SelectSeq(prev[v], LAMBDA u : u # src))]
  /\ order' = Front(order)
  /\ UNCHANGED <<bq, hops, sigma, prev>>

-----------------------------------------------------------------------------
LocalIdle == lcc = [v \in Node |-> <<0, 0>>] /\ cnt = -1

\* The set the code builds from both ends of every edge it read.
inAndOutNeighbors(v) ==
  {u \in Node : <<u, v>> \in DOMAIN graph \/ <<v, u>> \in DOMAIN graph}

\* Mutant: the edges of u to itself are counted too.
AroundWithLoops(v) == {e \in DOMAIN graph : /\ e[1] \in inAndOutNeighbors(v)
                                            /\ v \in inAndOutNeighbors(e[2])}

\* The edges counted for v: w == u is skipped.
Around(v) == {e \in DOMAIN graph : /\ e[1] \in inAndOutNeighbors(v)
                                   /\ e[2] # e[1]
                                   /\ v \in inAndOutNeighbors(e[2])}

\* One turn of the loop over V; a vertex of one neighbour is passed over.
Lcc ==
  /\ lcc[src] = <<0, 0>>
  /\ LET d == Cardinality(inAndOutNeighbors(src))
     IN  d > 1 /\ lcc' = [lcc EXCEPT ![src] = <<Cardinality(Around(src)), d>>]
  /\ UNCHANGED cnt

\* query_triangles: two rounds of successors, then the closing query.
query_triangles ==
  /\ cnt = -1
  /\ cnt' = Cardinality({e \in DOMAIN graph :
                           /\ e[1] \in GetNeighbors(src)
                           /\ e[2] # e[1] /\ e[1] # src /\ e[2] # src
                           /\ query(e[2], src) # 0})
  /\ UNCHANGED lcc

-----------------------------------------------------------------------------
CentralityTypeOK ==
  /\ bq \in Seq(Node) /\ order \in Seq(Node)
  /\ hops \in [Node -> Nat] /\ sigma \in [Node -> Nat]
  /\ prev \in [Node -> Seq(Node)]
  /\ delta \in [Node -> Nat] /\ CB \in [Node -> Nat]
  /\ lcc \in [Node -> Nat \X Nat] /\ cnt \in Int

\* The share of the shortest paths from src that go through v, over the ends t.
Dependency(v) ==
  MapThenSumSet(
    LAMBDA t : (Unit * Cardinality({p \in Shortest(src, t) : v \in ToSet(p)}))
               \div Cardinality(Shortest(src, t)),
    Reachable(src) \ {v, src})

\* What the code gets right of Brandes' algorithm, in graphs without a loop at
\* src. The first phase counts the hops and the shortest paths to every vertex but
\* the source, also when a cycle brings the source back into the queue. The
\* second leaves each vertex its dependency, unless it lies on a shortest cycle
\* through src: the source is then in S twice and gives its predecessors a share
\* each time, which Brandes never does. CB is not claimed: it grows by delta[v]
\* for every predecessor of v but src, not once, and also for v = src on a cycle,
\* so it is not the betweenness.
DependenciesExact ==
  src \notin GetNeighbors(src) /\ sigma # Zero /\ bq = <<>> =>
    \A v \in Reachable(src) \ {src} :
      /\ hops[v] = Level(src, v)
      /\ sigma[v] = Cardinality(Shortest(src, v))
      /\ order = <<>> /\ ~ OnShortestCycle(src, v) => delta[v] = Dependency(v)

\* A clustering coefficient is at most 1 (the code prints a warning otherwise),
\* loops or not; without loops at v its numerator counts the edges between the
\* neighbours of v. The triangles of a vertex are the paths of two edges from
\* it that an edge closes.
LocalCountsExact ==
  /\ \A v \in Node :
       LET t == lcc[v][1]
           d == lcc[v][2]
       IN  d # 0 =>
             /\ t <= d * (d - 1)
             /\ v \notin GetNeighbors(v) =>
                  t = Cardinality({p \in Routes : /\ Len(p) = 2
                                                  /\ query(p[1], p[2]) # 0
                                                  /\ ToSet(p) \subseteq inAndOutNeighbors(v)})
  /\ cnt # -1 =>
       cnt = Cardinality({p \in UNION {Paths(src, v) : v \in Node} :
                            Len(p) = 3 /\ query(p[3], src) # 0})
=============================================================================
