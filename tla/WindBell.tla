------------------------------ MODULE WindBell ------------------------------
(***************************************************************************)
(* The Wind-Bell index of WindBell.h: a matrix of chandeliers, doubly      *)
(* linked lists of edge nodes.  Two row hashes of the source and two       *)
(* column hashes of the destination give an edge four candidate cells; it  *)
(* is hung at the head of the shortest, and when the longest is more than  *)
(* twice that, the tail of the longest is taken off and placed anew, up to *)
(* three times.                                                            *)
(*                                                                         *)
(* Both builds are modelled: CuckooGraph/WindBell.h, which deletes edges,  *)
(* and CuckooGraph_weighted/WindBell.h, which counts the insertions of an  *)
(* edge in its node.  A pointer is a node or Null; a node that is freed    *)
(* may be allocated again.                                                 *)
(*                                                                         *)
(* A weight is an unsigned number that wraps.  The insertion that wraps it *)
(* to 0 takes the edge for absent and hangs a second node for it, so an    *)
(* edge has one node, and its count, only up to Wrap - 1 insertions.       *)
(*                                                                         *)
(* delete_edge makes the back pointer of the next node point to that node  *)
(* itself (WindBell.h:329, 365).  As long as nobody follows such a pointer *)
(* the lists are exact; following one leaves links to a freed or moved     *)
(* node, after which the behaviour is undefined and the model stops.       *)
(***************************************************************************)
EXTENDS Integers, FiniteSets, Sequences, SequencesExt

CONSTANTS
    Node,          \* addresses of chain objects
    Null,          \* nullptr
    Edge,          \* the edges in use, as <<src, dst>>
    Len2,          \* rows and columns of the matrix (len)
    RowOf,         \* the two row hashes of a source
    ColOf,         \* the two column hashes of a destination
    KickAt,        \* a longer list may give its tail away (10)
    MaxKicks,      \* placements of one insertion after the first (3)
    Wrap,          \* number of values of a weight (count_type)
    MaxInserts     \* bound: insertions of one edge

Vertex == {e[1] : e \in Edge} \cup {e[2] : e \in Edge}

ASSUME WindAssumption ==
    /\ {Len2, KickAt, MaxKicks, MaxInserts} \subseteq Nat \ {0}
    /\ Wrap \in Nat /\ Wrap > 1
    /\ Null \notin Node /\ IsFiniteSet(Node)
    /\ Edge \subseteq Nat \X Nat
    /\ \A v \in Vertex : {RowOf[v], ColOf[v]} \subseteq [1 .. 2 -> 1 .. Len2]

Cells == (1 .. Len2) \X (1 .. Len2)
NoHand == [node |-> Null, num |-> 0]
NoEdge == <<0, 0>>

VARIABLES
    weighted,  \* which of the two builds runs; never changes
    wind,      \* the matrix: heap of nodes, pointer_head, pointer_tail, counter
    live,      \* allocated nodes
    hand,      \* the node insert_new has to place, and its num
    broken,    \* history: a back pointer that points to its own node was followed
    inserted   \* history: insertions of each edge since its deletion

vars == <<weighted, wind, live, hand, broken, inserted>>

-----------------------------------------------------------------------------
(* The candidate cells of an edge, at index i * col + j.                   *)
Candidate(e) == [x \in 0 .. 3 |-> <<RowOf[e[1]][x \div 2 + 1], ColOf[e[2]][(x % 2) + 1]>>]

(* min and max: the first index with the smallest, the largest counter.    *)
MinIndex(cnt) == CHOOSE x \in DOMAIN cnt :
    \A y \in DOMAIN cnt : cnt[x] < cnt[y] \/ (cnt[x] = cnt[y] /\ x <= y)
MaxIndex(cnt) == CHOOSE x \in DOMAIN cnt :
    \A y \in DOMAIN cnt : cnt[x] > cnt[y] \/ (cnt[x] = cnt[y] /\ x <= y)

(* The nodes a loop over pointer_chand meets; a freed node ends the loop.  *)
Walk(w, c) ==
    LET from[turns \in 0 .. Cardinality(Node)] == [n \in Node \cup {Null} |->
            IF n = Null \/ turns = 0 THEN <<>>
            ELSE IF n \notin live THEN <<n>>
            ELSE <<n>> \o from[turns - 1][w.heap[n].next]]
    IN  from[Cardinality(Node)][w.head[c]]

(* The order in which query_edge, query_edge_ins and delete_edge search.    *)
SearchOrder(w, e) ==
    LET mn == MinIndex([x \in 0 .. 3 |-> w.counter[Candidate(e)[x]]])
        all == <<mn, 0, 1, 2, 3>>
    IN  [k \in 1 .. 5 |-> Candidate(e)[all[k]]]

Hits(w, c, e) == {n \in Range(Walk(w, c)) : n \in live /\ w.heap[n].edge = e}
Found(w, e) == \E k \in 1 .. 5 : Hits(w, SearchOrder(w, e)[k], e) # {}

(* Where the search ends, at the first node that has the edge.             *)
FoundAt(w, e) == CHOOSE k \in 1 .. 5 :
    /\ Hits(w, SearchOrder(w, e)[k], e) # {}
    /\ \A j \in 1 .. k - 1 : Hits(w, SearchOrder(w, e)[j], e) = {}
FoundCell(w, e) == SearchOrder(w, e)[FoundAt(w, e)]
FoundNode(w, e) ==
    LET l == Walk(w, FoundCell(w, e))
    IN  l[CHOOSE p \in DOMAIN l : /\ w.heap[l[p]].edge = e
                                  /\ \A q \in 1 .. p - 1 : w.heap[l[q]].edge # e]

(* What query_edge says of an edge: with weights, the weight of that node. *)
query_edge(w, e) == Found(w, e) /\ (weighted => w.heap[FoundNode(w, e)].weight # 0)

(* query_edge_ins: the first node found counts.                            *)
Counted(w, e) ==
    IF Found(w, e) THEN [w EXCEPT !.heap[FoundNode(w, e)].weight = (@ + 1) % Wrap] ELSE w

(* Mutant: only the first of the two rows.                                 *)
RowsOfOneHash(s) == {RowOf[s][1]}

(* The rows a scan for successors goes through: one when both hashes agree. *)
RowsScanned(s) == IF RowOf[s][1] = RowOf[s][2] THEN {RowOf[s][2]} ELSE {RowOf[s][1], RowOf[s][2]}
ColsScanned(d) == IF ColOf[d][1] = ColOf[d][2] THEN {ColOf[d][2]} ELSE {ColOf[d][1], ColOf[d][2]}

(* What a scan of some cells meets: cell, position and edge of each node.   *)
Met(w, cells) == UNION {
    LET l == Walk(w, c) IN {<<c, k, w.heap[l[k]].edge>> : k \in DOMAIN l} : c \in cells}

(* GetNeighbors, query_success and query_successor: the nodes emitted.     *)
query_successor(w, s) == {p \in Met(w, RowsScanned(s) \X (1 .. Len2)) : p[3][1] = s}
query_precursor(w, d) == {p \in Met(w, (1 .. Len2) \X ColsScanned(d)) : p[3][2] = d}

(* Mutant: without the test that the neighbours and the vertex differ.     *)
ClosesLoops(w, s, a, b, e) == e \in Edge /\ query_edge(w, e)

(* Two neighbours of s close a triangle.                                   *)
Closes(w, s, a, b, e) == a # s /\ b # s /\ a # b /\ e \in Edge /\ query_edge(w, e)

(* query_triangles: successors against predecessors.                       *)
query_triangles(w, s) ==
    LET pre == query_precursor(w, s)
        closes(p, q) == Closes(w, s, p[3][2], q[3][1], <<p[3][2], q[3][1]>>)
    IN  Cardinality({pq \in query_successor(w, s) \X pre : closes(pq[1], pq[2])})

(* query_triangle_new: successors of successors that lead back.            *)
query_triangle_new(w, s) ==
    Cardinality(UNION {
        {<<p, q>> : q \in {q \in query_successor(w, p[3][2]) :
            Closes(w, s, p[3][2], q[3][2], <<q[3][2], s>>)}}
        : p \in query_successor(w, s)})

-----------------------------------------------------------------------------
EmptyNode == [edge |-> NoEdge, next |-> Null, prev |-> Null, weight |-> 1]

Init ==
    /\ weighted \in BOOLEAN
    /\ wind = [heap |-> [n \in Node |-> EmptyNode],
               head |-> [c \in Cells |-> Null], tail |-> [c \in Cells |-> Null],
               counter |-> [c \in Cells |-> 0]]
    /\ live = {} /\ hand = NoHand
    /\ broken = FALSE
    /\ inserted = [e \in Edge |-> 0]

(* A node is hung at the head of a cell.                                   *)
Pushed(w, c, n) ==
    LET old == w.head[c]
    IN  [w EXCEPT !.heap = IF old = Null THEN [@ EXCEPT ![n].next = Null]
                           ELSE [@ EXCEPT ![n].next = old, ![old].prev = n],
                  !.tail[c] = IF old = Null THEN n ELSE @,
                  !.head[c] = n, !.counter[c] = @ + 1]

(* The tail of a cell is taken off.                                        *)
Popped(w, c) ==
    LET p == w.heap[w.tail[c]].prev
    IN  [w EXCEPT !.tail[c] = p,
                  !.head[c] = IF p = Null THEN Null ELSE @,
                  !.heap = IF p = Null THEN @ ELSE [@ EXCEPT ![p].next = Null],
                  !.counter[c] = @ - 1]

(* A back pointer that is wrong, for a node where it matters.              *)
SelfLinked(w, c, n) == w.head[c] # n /\ w.heap[n].prev = n

(* Mutant: a kick to any shorter list, and one kick too many.              *)
KickDueOnceMore(cnt, num) ==
    LET least == cnt[MinIndex(cnt)]  most == cnt[MaxIndex(cnt)]
    IN  most > KickAt /\ least < most /\ num <= MaxKicks

(* The longest list gives its tail away.                                   *)
KickDue(cnt, num) ==
    LET least == cnt[MinIndex(cnt)]  most == cnt[MaxIndex(cnt)]
    IN  most > KickAt /\ least * 2 < most /\ num < MaxKicks

(* Mutant: the tail goes back to the heap instead of to another cell.      *)
PlaceDropping(w, n, num) ==
    LET e == w.heap[n].edge
        cnt == [x \in 0 .. 3 |-> w.counter[Candidate(e)[x]]]
        mn == MinIndex(cnt)  mx == MaxIndex(cnt)  c == Candidate(e)[mx]
        w1 == Pushed(w, Candidate(e)[mn], n)
        kick == KickDue(cnt, num)
    IN  /\ wind' = IF kick THEN Popped(w1, c) ELSE w1
        /\ hand' = NoHand
        /\ broken' = (broken \/ (kick /\ SelfLinked(w1, c, w1.tail[c])))

(* The common part of insert and insert_new.  The counters are those       *)
(* before the node is hung.                                                *)
Place(w, n, num) ==
    LET e == w.heap[n].edge
        cnt == [x \in 0 .. 3 |-> w.counter[Candidate(e)[x]]]
        mn == MinIndex(cnt)  mx == MaxIndex(cnt)  c == Candidate(e)[mx]
        w1 == Pushed(w, Candidate(e)[mn], n)
        kick == KickDue(cnt, num)
    IN  /\ wind' = IF kick THEN Popped(w1, c) ELSE w1
        /\ hand' = IF kick THEN [node |-> w1.tail[c], num |-> num + 1] ELSE NoHand
        /\ broken' = (broken \/ (kick /\ SelfLinked(w1, c, w1.tail[c])))

Idle == hand = NoHand /\ ~broken

(* The test of insert: without weights query_edge, with weights the value  *)
(* that query_edge_ins returns, the weight it has just counted.            *)
Absent(w, e) ==
    Found(w, e) => weighted /\ Counted(w, e).heap[FoundNode(w, e)].weight = 0

(* insert hangs a node of the caller's, with null pointers, for an edge     *)
(* that is not there or whose weight has just wrapped.                      *)
InsertNew(e, n) ==
    /\ Idle /\ Absent(wind, e) /\ inserted[e] < MaxInserts /\ n \notin live
    /\ Place([Counted(wind, e) EXCEPT !.heap[n] = [EmptyNode EXCEPT !.edge = e]], n, 0)
    /\ live' = live \cup {n}
    /\ inserted' = [inserted EXCEPT ![e] = @ + 1]
    /\ UNCHANGED weighted

(* insert of an edge that is there; without weights nothing happens.       *)
InsertAgain(e) ==
    /\ Idle /\ ~Absent(wind, e) /\ weighted /\ inserted[e] < MaxInserts
    /\ wind' = Counted(wind, e)
    /\ inserted' = [inserted EXCEPT ![e] = @ + 1]
    /\ UNCHANGED <<weighted, live, hand, broken>>

(* insert_new: the next placement of the same insertion.                   *)
InsertMoved ==
    /\ hand # NoHand /\ ~broken
    /\ Place(wind, hand.node, hand.num)
    /\ UNCHANGED <<weighted, live, inserted>>

(* Mutant: the tail pointer is left when the last node goes.               *)
UnlinkedKeepTail(w, c, n) ==
    LET nx == w.heap[n].next  pv == w.heap[n].prev
        h1 == IF w.head[c] = n THEN w.heap ELSE [w.heap EXCEPT ![pv].next = nx]
        h2 == IF nx = Null THEN h1 ELSE [h1 EXCEPT ![nx].prev = nx]
    IN  [w EXCEPT !.heap = h2, !.head[c] = IF @ = n THEN nx ELSE @,
                  !.counter[c] = @ - 1]

(* The pointer surgery of delete_edge, as written.                         *)
Unlinked(w, c, n) ==
    LET nx == w.heap[n].next  pv == w.heap[n].prev
        h1 == IF w.head[c] = n THEN w.heap ELSE [w.heap EXCEPT ![pv].next = nx]
        h2 == IF nx = Null THEN h1 ELSE [h1 EXCEPT ![nx].prev = nx]
    IN  [w EXCEPT !.heap = h2, !.head[c] = IF @ = n THEN nx ELSE @,
                  !.tail[c] = IF nx = Null THEN pv ELSE @,
                  !.counter[c] = @ - 1]

(* delete_edge of an edge that is found (only the unweighted build).       *)
Delete(e) ==
    /\ Idle /\ ~weighted /\ Found(wind, e)
    /\ LET c == FoundCell(wind, e)  n == FoundNode(wind, e)
       IN  /\ wind' = [Unlinked(wind, c, n) EXCEPT !.heap[n] = EmptyNode]
           /\ live' = live \ {n}
           /\ broken' = SelfLinked(wind, c, n)
    /\ inserted' = [inserted EXCEPT ![e] = 0]
    /\ UNCHANGED <<weighted, hand>>

Next ==
    \/ \E e \in Edge, n \in Node : InsertNew(e, n)
    \/ \E e \in Edge : InsertAgain(e)
    \/ InsertMoved
    \/ \E e \in Edge : Delete(e)

Spec == Init /\ [][Next]_vars

-----------------------------------------------------------------------------
(* Types; an insertion places at most MaxKicks nodes after its own.        *)
TypeOK ==
    /\ weighted \in BOOLEAN /\ broken \in BOOLEAN
    /\ wind.heap \in [Node -> [edge : Edge \cup {NoEdge}, next : Node \cup {Null},
                               prev : Node \cup {Null}, weight : 0 .. Wrap - 1]]
    /\ wind.head \in [Cells -> Node \cup {Null}] /\ wind.tail \in [Cells -> Node \cup {Null}]
    /\ wind.counter \in [Cells -> 0 .. Cardinality(Node)]
    /\ live \subseteq Node /\ hand.node \in live \cup {Null} /\ hand.num \in 0 .. MaxKicks
    /\ inserted \in [Edge -> 0 .. MaxInserts]

(* The edges whose insertions a weight can count; Wrap insertions leave    *)
(* two nodes of one edge.                                                  *)
Countable == {e \in Edge : inserted[e] < Wrap}

(* Kicks and deletions keep each list exact: it ends at pointer_tail, its  *)
(* length is counter, which insert balances by, it holds no freed node,    *)
(* and each node but the first points back to the one before it or, after  *)
(* a deletion in front of it, to itself; also when an edge has two nodes   *)
(* (WindBell.h:158-182, 316-339).                                          *)
ListsExact == ~broken => \A c \in Cells :
    LET l == Walk(wind, c)
    IN  /\ Len(l) = wind.counter[c]
        /\ l # <<>> => l[Len(l)] = wind.tail[c] /\ wind.heap[l[Len(l)]].next = Null
        /\ Range(l) \subseteq live
        /\ \A i \in 2 .. Len(l) : wind.heap[l[i]].prev \in {l[i - 1], l[i]}

(* Kicks lose, duplicate and misplace no edge, and move its weight along:  *)
(* every edge inserted and not deleted has one node, which hangs in one of *)
(* its four cells unless it is in hand, and whose weight counts the        *)
(* insertions in the weighted build (WindBell.h:131-243, weighted 138-339).*)
(* Only for an edge inserted less than Wrap times: then insert takes it    *)
(* for absent (weighted 144) and hangs a second node.  What happens to     *)
(* that edge does not disturb the others.                                  *)
EdgesInPlace == ~broken => \A e \in Countable :
    LET nodes == {n \in live : wind.heap[n].edge = e}
        places == {p \in Met(wind, Cells) : p[3] = e}
    IN  /\ Cardinality(nodes) = IF inserted[e] > 0 THEN 1 ELSE 0
        /\ \A n \in nodes : weighted => wind.heap[n].weight = inserted[e]
        /\ \A n \in nodes : IF n = hand.node THEN places = {} ELSE Cardinality(places) = 1
        /\ \A p \in places : p[1] \in {Candidate(e)[x] : x \in 0 .. 3}

(* The scans of rows and columns find each neighbour once, whichever cell  *)
(* its edge was kicked to and also when hashes coincide, unless its edge   *)
(* was inserted Wrap times (WindBell.h:384-488).                           *)
NeighborsOnce == Idle => \A v \in Vertex :
    LET outs == {e \in Countable : e[1] = v /\ inserted[e] > 0}
        ins == {e \in Countable : e[2] = v /\ inserted[e] > 0}
        suc == {p \in query_successor(wind, v) : p[3] \in Countable}
        pre == {p \in query_precursor(wind, v) : p[3] \in Countable}
    IN  /\ {p[3] : p \in suc} = outs /\ Cardinality(suc) = Cardinality(outs)
        /\ {p[3] : p \in pre} = ins /\ Cardinality(pre) = Cardinality(ins)

(* The two triangle counts agree with the cycles of length three through a *)
(* vertex, which they meet by different lists, as long as no edge was      *)
(* inserted Wrap times (WindBell.h:484-520).                               *)
TrianglesExact == Idle /\ Countable = Edge => \A v \in Vertex :
    LET is(e) == e \in Edge /\ inserted[e] > 0
        cycle(a, b) == a # v /\ b # v /\ a # b /\ is(<<v, a>>) /\ is(<<a, b>>) /\ is(<<b, v>>)
        real == {ab \in Vertex \X Vertex : cycle(ab[1], ab[2])}
    IN  /\ query_triangles(wind, v) = Cardinality(real)
        /\ query_triangle_new(wind, v) = Cardinality(real)

(* What test_wind_del_err asserts after each delete_edge: the edge is not  *)
(* found.  A walk that meets a freed node may find anything                *)
(* (main.cpp:8192).                                                        *)
DeletedIsGone == \A e \in Edge : inserted[e] = 0 =>
    \A x \in 0 .. 3 : Range(Walk(wind, Candidate(e)[x])) \subseteq live
=============================================================================
