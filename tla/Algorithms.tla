----------------------------- MODULE Algorithms -----------------------------
(***************************************************************************)
(* The benchmark drivers: each fills a store with a graph and runs one of  *)
(* the algorithms on it.  No run changes the graph, and the variables of   *)
(* the algorithms that do not run keep their idle values.                  *)
(***************************************************************************)
EXTENDS Traversal, ShortestPaths, Centrality

CONSTANTS Graphs(_),    \* The graphs an algorithm is run on.
          Sources(_)    \* The vertices it is called for.

VARIABLE job            \* The algorithm that runs.

Jobs == {"bfs", "tarjan", "sssp", "bc", "local"}

vars == <<graph, src, job, bfsVars, tarjanVars, ssspVars, bcVars, localVars>>

Init ==
  /\ job \in Jobs
  /\ graph \in Graphs(job)
  /\ src \in Sources(job)
  /\ IF job = "bfs" THEN BfsInit ELSE BfsIdle
  /\ IF job = "tarjan" THEN TarjanInit ELSE TarjanIdle
  /\ IF job = "sssp" THEN SsspInit ELSE SsspIdle
  /\ IF job = "bc" THEN BcInit ELSE BcIdle
  /\ LocalIdle

Next ==
  \/ /\ job = "bfs" /\ BfsNext
     /\ UNCHANGED <<graph, src, job, tarjanVars, ssspVars, bcVars, localVars>>
  \/ /\ job = "tarjan" /\ TarjanNext
     /\ UNCHANGED <<graph, src, job, bfsVars, ssspVars, bcVars, localVars>>
  \/ /\ job = "sssp" /\ Settle
     /\ UNCHANGED <<graph, src, job, bfsVars, tarjanVars, bcVars, localVars>>
  \/ /\ job = "bc" /\ (BcVisit \/ BcAccumulate)
     /\ UNCHANGED <<graph, src, job, bfsVars, tarjanVars, ssspVars, localVars>>
  \/ /\ job = "local" /\ (Lcc \/ query_triangles)
     /\ UNCHANGED <<graph, src, job, bfsVars, tarjanVars, ssspVars, bcVars>>

Spec == Init /\ [][Next]_vars

\* The types of the algorithms' variables.
TypeOK == TraversalTypeOK /\ ShortestTypeOK /\ CentralityTypeOK
=============================================================================
