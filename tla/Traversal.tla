----------------------------- MODULE Traversal -----------------------------
(***************************************************************************)
(* The two traversals of the benchmarks.                                   *)
(*                                                                         *)
(* hole_Bfs, wind_Bfs (main.cpp) and Bfs (TestAlgorithm.cpp) are one code: *)
(* a vertex is marked when it enters the queue, and listed in bfs_node.    *)
(*                                                                         *)
(* CuckooGraph_tarjan and wind_tarjan are one code too: one vector low     *)
(* stands for Tarjan's number and for his low link (dfn is a local of the  *)
(* call), and a neighbour that is on the stack lends its low link, not its *)
(* number.  The calls are a stack of frames here, and every step of a call *)
(* takes one neighbour.                                                    *)
(***************************************************************************)
EXTENDS Digraph

VARIABLES q,            \* The queue.
          visited,      \* The vertices marked.
          bfs_node      \* The vertices listed, in order.
bfsVars == <<q, visited, bfs_node>>

VARIABLES next,         \* The vertex tarjan_algorithm is at.
          frames,       \* The open calls: the vertex, its dfn, what it has left.
          index,        \* The numbers given out.
          low,          \* The vector low; -1 before the first visit.
          instack,      \* The vertices of stk.
          stk,          \* The vertices of no component yet, the newest last.
          scc_list      \* The components closed so far, as sets.
tarjanVars == <<next, frames, index, low, instack, stk, scc_list>>

-----------------------------------------------------------------------------
BfsIdle == q = <<>> /\ visited = {} /\ bfs_node = <<>>

BfsInit == q = <<src>> /\ visited = {src} /\ bfs_node = <<src>>

\* Mutant: the mark is set when a vertex leaves the queue.
BfsVisitMarkLate ==
  /\ q # <<>>
  /\ Len(bfs_node) <= Cardinality(Node)
  /\ visited' = visited \cup {Head(q)}
  /\ \E order \in SetToSeqs(GetNeighbors(Head(q)) \ visited) :
       /\ q' = Tail(q) \o order
       /\ bfs_node' = bfs_node \o order

\* One turn of the while loop: the head's unmarked neighbours, in the order
\* GetNeighbors lists them, are marked, queued and listed.
BfsVisit ==
  /\ q # <<>>
  /\ LET fresh == GetNeighbors(Head(q)) \ visited
     IN  /\ visited' = visited \cup fresh
         /\ \E order \in SetToSeqs(fresh) :
              /\ q' = Tail(q) \o order
              /\ bfs_node' = bfs_node \o order

BfsNext == BfsVisit

-----------------------------------------------------------------------------
TarjanIdle ==
  /\ next = Cardinality(Node) + 1
  /\ frames = <<>> /\ index = 0 /\ low = [v \in Node |-> -1]
  /\ instack = {} /\ stk = <<>> /\ scc_list = <<>>

TarjanInit ==
  /\ next = 1
  /\ frames = <<>> /\ index = 0 /\ low = [v \in Node |-> -1]
  /\ instack = {} /\ stk = <<>> /\ scc_list = <<>>

\* The first lines of tarjan(v), called with the frames below.
Call(v, below) ==
  /\ frames' = Append(below, [v |-> v, dfn |-> index, left |-> GetNeighbors(v)])
  /\ low' = [low EXCEPT ![v] = index]
  /\ index' = index + 1
  /\ stk' = Append(stk, v)
  /\ instack' = instack \cup {v}
  /\ UNCHANGED scc_list

\* tarjan_algorithm: the next vertex, called for when it has no number.
TarjanRoot ==
  /\ frames = <<>>
  /\ next <= Cardinality(Node)
  /\ next' = next + 1
  /\ IF low[next] = -1
     THEN Call(next, <<>>)
     ELSE UNCHANGED <<frames, index, low, instack, stk, scc_list>>

Lowered(v, u) == [low EXCEPT ![v] = Min({low[v], low[u]})]

\* Mutant: a vertex of a closed component lends its low link too.
LendsAlways(u) == low[u] # -1

\* The branch for a neighbour that has a number: only one that is on the stack.
Lends(u) == u \in instack

\* The call on top takes one of the neighbours it has left.
TarjanLook ==
  /\ frames # <<>>
  /\ LET top == Last(frames)
         rest(u) == Append(Front(frames), [top EXCEPT !.left = @ \ {u}])
     IN  \E u \in top.left :
           \/ low[u] = -1 /\ Call(u, rest(u))
           \/ /\ low[u] # -1
              /\ frames' = rest(u)
              /\ low' = IF Lends(u) THEN Lowered(top.v, u) ELSE low
              /\ UNCHANGED <<index, instack, stk, scc_list>>
  /\ UNCHANGED next

\* Mutant: the loop that pops a component leaves the marks of instack.
TarjanReturnKeepsMarks ==
  /\ frames # <<>>
  /\ Last(frames).left = {}
  /\ LET v == Last(frames).v
         at == CHOOSE i \in DOMAIN stk : stk[i] = v
     IN  IF low[v] = Last(frames).dfn
         THEN /\ stk' = SubSeq(stk, 1, at - 1)
              /\ scc_list' = Append(scc_list, {stk[i] : i \in at .. Len(stk)})
         ELSE UNCHANGED <<stk, scc_list>>
  /\ frames' = Front(frames)
  /\ low' = IF frames' = <<>> THEN low ELSE Lowered(Last(frames').v, Last(frames).v)
  /\ UNCHANGED <<next, index, instack>>

\* The call on top has no neighbour left: a vertex whose low link is its own
\* number closes a component, everything above it on stk; then the caller takes
\* the low link.
TarjanReturn ==
  /\ frames # <<>>
  /\ Last(frames).left = {}
  /\ LET v == Last(frames).v
         at == CHOOSE i \in DOMAIN stk : stk[i] = v
         popped == {stk[i] : i \in at .. Len(stk)}
     IN  IF low[v] = Last(frames).dfn
         THEN /\ stk' = SubSeq(stk, 1, at - 1)
              /\ instack' = instack \ popped
              /\ scc_list' = Append(scc_list, popped)
         ELSE UNCHANGED <<stk, instack, scc_list>>
  /\ frames' = Front(frames)
  /\ low' = IF frames' = <<>> THEN low ELSE Lowered(Last(frames').v, Last(frames).v)
  /\ UNCHANGED <<next, index>>

TarjanNext == TarjanRoot \/ TarjanLook \/ TarjanReturn

TarjanDone == frames = <<>> /\ next > Cardinality(Node)

-----------------------------------------------------------------------------
TraversalTypeOK ==
  /\ visited \subseteq Node
  /\ q \in Seq(Node) /\ bfs_node \in Seq(Node)
  /\ low \in [Node -> -1 .. Cardinality(Node)]
  /\ instack = ToSet(stk)

\* The list of a breadth-first search: every vertex it lists is reachable and
\* listed once, the distances from the source never go down along the list,
\* and a reachable vertex that is not listed yet is at the end of a path of such
\* vertices from a queued one. When the queue is empty the list is therefore the
\* reachable set (node_num is its size).
LevelOrder ==
  /\ IsInjective(bfs_node)
  /\ \A i \in DOMAIN bfs_node : bfs_node[i] \in Reachable(src)
  /\ \A i, j \in DOMAIN bfs_node :
       i < j => Level(src, bfs_node[i]) <= Level(src, bfs_node[j])
  /\ bfs_node # <<>> =>
       \A v \in Reachable(src) \ ToSet(bfs_node) :
         \E u \in ToSet(q) : \E p \in Paths(u, v) : ToSet(Tail(p)) \cap ToSet(bfs_node) = {}

\* Tarjan's list: every set in it is a strongly connected component, whole, at
\* the moment it is closed, although low[u] is used where Tarjan uses the
\* number of u; a component only reaches components closed before it; and when
\* the algorithm ends the list holds every vertex.
ComponentsExact ==
  /\ \A i \in DOMAIN scc_list :
       /\ \A v \in scc_list[i] : Component(v) = scc_list[i]
       /\ \A v \in scc_list[i] :
            Reachable(v) \subseteq UNION {scc_list[j] : j \in 1 .. i}
  /\ TarjanDone /\ index # 0 => UNION ToSet(scc_list) = Node
=============================================================================
