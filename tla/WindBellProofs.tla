--------------------------- MODULE WindBellProofs ---------------------------
(***************************************************************************)
(* Proofs about WindBell for any number of nodes, any matrix, any hash     *)
(* rows and columns, and any set of edges.                                 *)
(*                                                                         *)
(* The inductive invariant IInv says that, unless a wrong back pointer was *)
(* followed, there are lists L of nodes, one for each cell, that the       *)
(* pointers spell out (Hung); the nodes in use and the edges of the graph  *)
(* belong to each other, one to one for the edges whose weight has not     *)
(* wrapped (Loaded).  A walk over a cell then yields its list (WalkIs),    *)
(* and what the scans and searches meet follows.                           *)
(***************************************************************************)
EXTENDS WindBell, FiniteSetTheorems, FunctionTheorems, SequenceTheorems, WellFoundedInduction, TLAPS

(* Every set of natural numbers that is not empty has a least element.     *)
LEMMA LeastNat ==
  ASSUME NEW T \in SUBSET Nat, T # {}
  PROVE  \E m \in T : \A k \in T : m <= k
  <1> DEFINE U == {0 .. t : t \in T}
  <1>1. U \subseteq FiniteSubsetsOf(Nat) /\ U # {}
    <2>1. \A t \in T : 0 .. t \in SUBSET Nat /\ IsFiniteSet(0 .. t)
      BY FS_Interval
    <2> QED  BY <2>1 DEF FiniteSubsetsOf
  <1>2. IsWellFoundedOn(StrictSubsetOrdering(Nat), FiniteSubsetsOf(Nat))
    BY FS_StrictSubsetOrderingWellFounded
  <1>3. \E X \in U : \A Y \in U : <<Y, X>> \notin StrictSubsetOrdering(Nat)
    BY <1>1, <1>2, WFMin
  <1>4. PICK m \in T : \A k \in T : <<0 .. k, 0 .. m>> \notin StrictSubsetOrdering(Nat)
    BY <1>3
  <1>5. ASSUME NEW k \in T, k < m
        PROVE  FALSE
    <2>1. /\ 0 .. k \in SUBSET Nat /\ 0 .. m \in SUBSET Nat
          /\ 0 .. k \subseteq 0 .. m /\ m \in 0 .. m /\ m \notin 0 .. k
      BY <1>5
    <2> QED  BY <2>1, <1>4 DEF StrictSubsetOrdering
  <1> QED  BY <1>5

(* One turn of the loop over pointer_chand from each node, f being what    *)
(* the turns after it meet.                                                *)
Turn(w, f, t) ==
  [n \in Node \cup {Null} |->
     IF n = Null \/ t = 0 THEN <<>>
     ELSE IF n \notin live THEN <<n>>
     ELSE <<n>> \o f[t - 1][w.heap[n].next]]

(* f unrolls the loop m times.                                             *)
Unrolls(w, f, m) == f = [t \in 0 .. m |-> Turn(w, f, t)]

(* There is such a function for every number of turns.                     *)
LEMMA UnrolledOnce ==
  ASSUME NEW w, NEW m \in Nat, NEW f, Unrolls(w, f, m)
  PROVE  \E g : Unrolls(w, g, m + 1)
  <1> DEFINE g == [t \in 0 .. m + 1 |-> IF t <= m THEN f[t] ELSE Turn(w, f, m + 1)]
  <1>1. \A t \in 0 .. m : f[t] = Turn(w, f, t)
    BY DEF Unrolls
  <1>2. ASSUME NEW t \in 0 .. m + 1
        PROVE  g[t] = Turn(w, g, t)
    <2>1. g[t] = Turn(w, f, t)
      BY <1>1, <1>2
    <2>2. t # 0 => g[t - 1] = f[t - 1]
      BY <1>2
    <2> HIDE DEF g
    <2>3. Turn(w, g, t) = Turn(w, f, t)
      BY <2>2 DEF Turn
    <2> QED  BY <2>1, <2>3
  <1>3. g = [t \in 0 .. m + 1 |-> g[t]]
    OBVIOUS
  <1> HIDE DEF g
  <1>4. g = [t \in 0 .. m + 1 |-> Turn(w, g, t)]
    BY <1>2, <1>3
  <1> QED  BY <1>4 DEF Unrolls

(* So there is one for any number of turns.                                *)
LEMMA Unrolled ==
  ASSUME NEW w, NEW m \in Nat
  PROVE  \E f : Unrolls(w, f, m)
  <1> DEFINE T == {k \in Nat : ~ \E f : Unrolls(w, f, k)}
  <1>1. SUFFICES ASSUME T # {}
                 PROVE  FALSE
    OBVIOUS
  <1>2. PICK k \in T : \A j \in T : k <= j
    BY <1>1, LeastNat
  <1>3. CASE k = 0
    <2> DEFINE g == [t \in 0 .. 0 |-> [n \in Node \cup {Null} |-> <<>>]]
    <2>1. \A t \in 0 .. 0 : Turn(w, g, t) = [n \in Node \cup {Null} |-> <<>>]
      BY DEF Turn
    <2>2. Unrolls(w, g, 0)
      BY <2>1 DEF Unrolls
    <2> QED  BY <1>2, <1>3, <2>2
  <1>4. CASE k # 0
    <2>1. k - 1 \in Nat /\ k - 1 \notin T /\ (k - 1) + 1 = k
      BY <1>2, <1>4
    <2>2. PICK f : Unrolls(w, f, k - 1)
      BY <2>1
    <2>3. \E g : Unrolls(w, g, k)
      BY <2>1, <2>2, UnrolledOnce
    <2> QED  BY <1>2, <2>3
  <1> QED  BY <1>3, <1>4

(* So the walk takes turns as the loop does.                               *)
LEMMA WalkTurns ==
  ASSUME NEW w
  PROVE  \E f : /\ Unrolls(w, f, Cardinality(Node))
                /\ \A c : Walk(w, c) = f[Cardinality(Node)][w.head[c]]
  <1> DEFINE g == CHOOSE f : Unrolls(w, f, Cardinality(Node))
  <1>1. Cardinality(Node) \in Nat
    BY WindAssumption, FS_CardinalityType
  <1>2. Unrolls(w, g, Cardinality(Node))
    BY <1>1, Unrolled
  <1>3. \A c : Walk(w, c) = g[Cardinality(Node)][w.head[c]]
    BY DEF Walk, Unrolls, Turn
  <1> QED  BY <1>2, <1>3

(* l is the chain of cell c.                                               *)
Chained(w, lv, c, l) ==
  /\ l \in Seq(lv)
  /\ w.counter[c] = Len(l)
  /\ w.head[c] = IF Len(l) = 0 THEN Null ELSE l[1]
  /\ Len(l) > 0 => w.tail[c] = l[Len(l)]
  /\ \A i \in 1 .. Len(l) : w.heap[l[i]].next = IF i = Len(l) THEN Null ELSE l[i + 1]
  /\ \A i \in 2 .. Len(l) : w.heap[l[i]].prev \in {l[i - 1], l[i]}

(* No node is in the list twice.                                           *)
Distinct(l) == \A i, j \in 1 .. Len(l) : l[i] = l[j] => i = j

(* A list of distinct nodes is no longer than there are nodes.             *)
LEMMA ListLength ==
  ASSUME NEW l \in Seq(Node), Distinct(l)
  PROVE  Len(l) <= Cardinality(Node) /\ Len(l) \in Nat /\ Cardinality(Node) \in Nat
  <1>1. PICK k \in Nat : k = Len(l)
    BY LenProperties
  <1>2. l \in Injection(1 .. k, Node)
    BY <1>1, LenProperties DEF Injection, IsInjective, Distinct
  <1>3. Cardinality(1 .. k) = k
    BY FS_Interval
  <1> QED  BY <1>1, <1>2, <1>3, WindAssumption, FS_Injection, FS_CardinalityType

(* A walk along a list meets its nodes in order.                           *)
LEMMA WalkIs ==
  ASSUME NEW w, NEW c, NEW l, live \subseteq Node, Chained(w, live, c, l), Distinct(l)
  PROVE  Walk(w, c) = l
  <1>1. /\ l \in Seq(Node) /\ Len(l) \in Nat /\ Cardinality(Node) \in Nat
        /\ Len(l) <= Cardinality(Node)
        /\ \A i \in 1 .. Len(l) : l[i] \in live /\ l[i] \in Node /\ l[i] # Null
    <2>1. l \in Seq(live)
      BY DEF Chained
    <2>2. l \in Seq(Node)
      BY <2>1, SeqMonotonic
    <2> QED  BY <2>1, <2>2, ListLength, ElementOfSeq, WindAssumption
  <1>2. PICK f : /\ Unrolls(w, f, Cardinality(Node))
                 /\ Walk(w, c) = f[Cardinality(Node)][w.head[c]]
    BY WalkTurns
  <1>3. PICK N \in Nat : N = Cardinality(Node)
    BY <1>1
  <1>4. PICK k \in Nat : k = Len(l)
    BY <1>1
  <1>5. \A t \in 0 .. N : f[t] = Turn(w, f, t)
    BY <1>2, <1>3 DEF Unrolls
  <1> DEFINE at(i) == IF i <= k THEN l[i] ELSE Null
             Rest(j) == \A i \in 1 .. k + 1, t \in 0 .. N :
                           i + j = k + 1 /\ t + k = N + j => f[t][at(i)] = SubSeq(l, i, k)
             Bad == {j \in Nat : ~ Rest(j)}
  <1>6. Rest(0)
    <2> SUFFICES ASSUME NEW i \in 1 .. k + 1, NEW t \in 0 .. N, i + 0 = k + 1
                 PROVE  f[t][at(i)] = SubSeq(l, i, k)
      OBVIOUS
    <2>1. at(i) = Null
      OBVIOUS
    <2>2. f[t][at(i)] = <<>>
      BY <1>5, <2>1 DEF Turn
    <2> QED  BY <2>2, SubSeqEmpty
  <1>7. ASSUME NEW j \in Nat, j # 0, Rest(j - 1)
        PROVE  Rest(j)
    <2> SUFFICES ASSUME NEW i \in 1 .. k + 1, NEW t \in 0 .. N, i + j = k + 1, t + k = N + j
                 PROVE  f[t][at(i)] = SubSeq(l, i, k)
      OBVIOUS
    <2>1. /\ i \in 1 .. k /\ i + 1 \in 1 .. k + 1 /\ t # 0 /\ t - 1 \in 0 .. N
          /\ (i + 1) + (j - 1) = k + 1 /\ (t - 1) + k = N + (j - 1)
      <3>1. k <= N
        BY <1>1, <1>3, <1>4
      <3> HIDE DEF Rest, at
      <3> QED  BY <3>1, <1>7
    <2>2. at(i) = l[i] /\ l[i] \in Node /\ l[i] \in live /\ l[i] # Null
      BY <2>1, <1>1, <1>4
    <2>3. w.heap[l[i]].next = at(i + 1)
      BY <2>1, <1>1, <1>4 DEF Chained
    <2>4. f[t - 1][at(i + 1)] = SubSeq(l, i + 1, k)
      BY <2>1, <1>7
    <2> HIDE DEF at
    <2>5. f[t][l[i]] = <<l[i]>> \o f[t - 1][w.heap[l[i]].next]
      BY <1>5, <2>1, <2>2 DEF Turn
    <2>6. SubSeq(l, i, k) = <<l[i]>> \o SubSeq(l, i + 1, k)
      BY <2>1, <1>1, <1>4, SubSeqRecursiveFirst
    <2> QED  BY <2>2, <2>3, <2>4, <2>5, <2>6
  <1> HIDE DEF Rest
  <1>8. Rest(k)
    <2>1. SUFFICES ASSUME Bad # {}
                   PROVE  FALSE
      OBVIOUS
    <2>2. PICK j \in Bad : \A i \in Bad : j <= i
      BY <2>1, LeastNat
    <2>3. j # 0 /\ j - 1 \in Nat /\ j - 1 \notin Bad
      BY <2>2, <1>6
    <2> QED  BY <2>2, <2>3, <1>7
  <1>9. f[N][at(1)] = SubSeq(l, 1, k)
    <2>1. 1 \in 1 .. k + 1 /\ N \in 0 .. N /\ 1 + k = k + 1 /\ N + k = N + k
      OBVIOUS
    <2> HIDE DEF at
    <2> QED  BY <1>8, <2>1 DEF Rest
  <1>10. at(1) = w.head[c] /\ SubSeq(l, 1, k) = l
    BY <1>1, <1>4, SubSeqFull DEF Chained
  <1> QED  BY <1>2, <1>3, <1>9, <1>10

-----------------------------------------------------------------------------
(* Nodes on lists.                                                         *)

CellsOf(e) == {Candidate(e)[x] : x \in 0 .. 3}

(* Lists, whose heap, heads, tails and counters may be out of step.        *)
Winds ==
  [heap : [Node -> [edge : Edge \cup {NoEdge}, next : Node \cup {Null},
                    prev : Node \cup {Null}, weight : Nat]],
   head : [Cells -> Node \cup {Null}], tail : [Cells -> Node \cup {Null}],
   counter : [Cells -> Nat]]

(* No node is on two lists, or on one twice.                               *)
Apart(L) ==
  \A c, d \in Cells : \A i \in 1 .. Len(L[c]), j \in 1 .. Len(L[d]) :
     L[c][i] = L[d][j] => c = d /\ i = j

(* L holds the chain of each cell; every node in use but h is in one chain *)
(* once, and the chain is that of a cell its edge may be in.               *)
Hung(w, lv, h, L) ==
  /\ L \in [Cells -> Seq(Node)]
  /\ \A c \in Cells : Chained(w, lv, c, L[c])
  /\ Apart(L)
  /\ \A c \in Cells : \A i \in 1 .. Len(L[c]) :
        L[c][i] # h /\ c \in CellsOf(w.heap[L[c][i]].edge)
  /\ \A n \in lv : n = h \/ \E c \in Cells : \E i \in 1 .. Len(L[c]) : L[c][i] = n

(* Two matrices whose nodes carry the same edges and weights.              *)
SameLoad(v, w) ==
  \A m \in Node : v.heap[m].edge = w.heap[m].edge /\ v.heap[m].weight = w.heap[m].weight

-----------------------------------------------------------------------------
(* Sequences.                                                              *)

(* A node in front of a list.                                              *)
LEMMA AddedFirst ==
  ASSUME NEW S, NEW l \in Seq(S), NEW n \in S
  PROVE  /\ <<n>> \o l \in Seq(S) /\ Len(<<n>> \o l) = Len(l) + 1 /\ Len(l) \in Nat
         /\ (<<n>> \o l)[1] = n
         /\ \A i \in 2 .. Len(l) + 1 : (<<n>> \o l)[i] = l[i - 1]
  <1>1. <<n>> \in Seq(S) /\ Len(<<n>>) = 1 /\ <<n>>[1] = n
    OBVIOUS
  <1> QED  BY <1>1, ConcatProperties, LenProperties

(* A list without its node at position p.                                  *)
Without(l, p) == SubSeq(l, 1, p - 1) \o SubSeq(l, p + 1, Len(l))

(* The nodes after position p move up by one.                              *)
LEMMA WithoutOne ==
  ASSUME NEW S, NEW l \in Seq(S), NEW p \in 1 .. Len(l)
  PROVE  /\ Without(l, p) \in Seq(S) /\ Len(Without(l, p)) = Len(l) - 1 /\ Len(l) \in Nat
         /\ \A i \in 1 .. Len(l) - 1 : Without(l, p)[i] = IF i < p THEN l[i] ELSE l[i + 1]
  <1>1. PICK k \in Nat : k = Len(l)
    BY LenProperties
  <1>2. \A i \in 1 .. k : l[i] \in S
    BY <1>1, ElementOfSeq
  <1> DEFINE a == SubSeq(l, 1, p - 1)
             b == SubSeq(l, p + 1, k)
  <1>3. /\ a \in Seq(S) /\ Len(a) = p - 1
        /\ \A i \in 1 .. p - 1 : a[i] = l[i]
    <2>1. p - 1 \in Int /\ 1 \in Int /\ \A i \in 1 .. p - 1 : l[i] \in S
      BY <1>1, <1>2
    <2>2. /\ SubSeq(l, 1, p - 1) \in Seq(S)
          /\ Len(SubSeq(l, 1, p - 1)) = IF 1 <= p - 1 THEN (p - 1) - 1 + 1 ELSE 0
          /\ \A i \in 1 .. (p - 1) - 1 + 1 : SubSeq(l, 1, p - 1)[i] = l[1 + i - 1]
      BY <2>1, SubSeqProperties
    <2> QED  BY <2>2, <1>1
  <1>4. /\ b \in Seq(S) /\ Len(b) = k - p
        /\ \A i \in 1 .. k - p : b[i] = l[p + i]
    <2>1. p + 1 \in Int /\ k \in Int /\ \A i \in p + 1 .. k : l[i] \in S
      BY <1>1, <1>2
    <2>2. /\ SubSeq(l, p + 1, k) \in Seq(S)
          /\ Len(SubSeq(l, p + 1, k)) = IF p + 1 <= k THEN k - (p + 1) + 1 ELSE 0
          /\ \A i \in 1 .. k - (p + 1) + 1 : SubSeq(l, p + 1, k)[i] = l[(p + 1) + i - 1]
      BY <2>1, SubSeqProperties
    <2> QED  BY <2>2, <1>1
  <1> HIDE DEF a, b
  <1>5. /\ a \o b \in Seq(S) /\ Len(a \o b) = Len(a) + Len(b)
        /\ \A i \in 1 .. Len(a) + Len(b) : (a \o b)[i] = IF i <= Len(a) THEN a[i] ELSE b[i - Len(a)]
    BY <1>3, <1>4, ConcatProperties
  <1>6. Len(a \o b) = k - 1 /\ p \in 1 .. k
    BY <1>1, <1>3, <1>4, <1>5
  <1>7. \A i \in 1 .. k - 1 : (a \o b)[i] = IF i < p THEN l[i] ELSE l[i + 1]
    <2> SUFFICES ASSUME NEW i \in 1 .. k - 1
                 PROVE  (a \o b)[i] = IF i < p THEN l[i] ELSE l[i + 1]
      OBVIOUS
    <2>1. (a \o b)[i] = IF i <= p - 1 THEN a[i] ELSE b[i - (p - 1)]
      BY <1>3, <1>4, <1>5, <1>6
    <2>2. CASE i < p
      BY <2>1, <2>2, <1>3, <1>6
    <2>3. CASE i >= p
      <3>1. i - (p - 1) \in 1 .. k - p /\ p + (i - (p - 1)) = i + 1
        BY <2>3, <1>6
      <3> QED  BY <2>1, <2>3, <3>1, <1>4, <1>6
    <2> QED  BY <2>2, <2>3, <1>6
  <1>8. Without(l, p) = a \o b
    BY <1>1 DEF Without, a, b
  <1> QED  BY <1>1, <1>5, <1>6, <1>7, <1>8

-----------------------------------------------------------------------------
(* What the pointer operations do.                                         *)

(* A list whose links were not written is still the list of its cell.      *)
LEMMA ChainedSame ==
  ASSUME NEW w, NEW v, NEW S, NEW R, NEW c, NEW l, Chained(w, S, c, l), l \in Seq(R),
         v.counter[c] = w.counter[c], v.head[c] = w.head[c], v.tail[c] = w.tail[c],
         \A i \in 1 .. Len(l) : v.heap[l[i]].next = w.heap[l[i]].next,
         \A i \in 2 .. Len(l) : v.heap[l[i]].prev = w.heap[l[i]].prev
  PROVE  Chained(v, R, c, l)
  BY DEF Chained

(* The parts of a matrix and their types.                                  *)
LEMMA WindsFields ==
  ASSUME NEW w \in Winds
  PROVE  /\ w = [heap |-> w.heap, head |-> w.head, tail |-> w.tail, counter |-> w.counter]
         /\ \A n \in Node : /\ w.heap[n].next \in Node \cup {Null}
                            /\ w.heap[n].prev \in Node \cup {Null}
                            /\ w.heap[n].edge \in Edge \cup {NoEdge}
                            /\ w.heap[n].weight \in Nat
         /\ \A c \in Cells : /\ w.head[c] \in Node \cup {Null} /\ w.tail[c] \in Node \cup {Null}
                             /\ w.counter[c] \in Nat
  BY DEF Winds

(* A node is hung at the head.                                             *)
LEMMA PushedIs ==
  ASSUME NEW w \in Winds, NEW c \in Cells, NEW n \in Node, w.head[c] # n
  PROVE  LET v == Pushed(w, c, n)  old == w.head[c]
         IN  /\ v \in Winds /\ SameLoad(v, w)
             /\ v.head = [w.head EXCEPT ![c] = n]
             /\ v.counter = [w.counter EXCEPT ![c] = w.counter[c] + 1]
             /\ v.tail = [w.tail EXCEPT ![c] = IF old = Null THEN n ELSE w.tail[c]]
             /\ v.heap[n].next = old
             /\ \A m \in Node : m # n => v.heap[m].next = w.heap[m].next
             /\ \A m \in Node : m # old => v.heap[m].prev = w.heap[m].prev
             /\ old # Null => v.heap[old].prev = n
  <1> DEFINE old == w.head[c]
             hp == IF old = Null THEN [w.heap EXCEPT ![n].next = Null]
                   ELSE [w.heap EXCEPT ![n].next = old, ![old].prev = n]
             v == Pushed(w, c, n)
  <1>1. /\ v.heap = hp /\ v.head = [w.head EXCEPT ![c] = n]
        /\ v.tail = [w.tail EXCEPT ![c] = IF old = Null THEN n ELSE w.tail[c]]
        /\ v.counter = [w.counter EXCEPT ![c] = w.counter[c] + 1]
        /\ v \in [heap : {hp}, head : {v.head}, tail : {v.tail}, counter : {v.counter}]
    BY DEF Winds, Pushed
  <1>2. old \in Node \cup {Null} /\ Null \notin Node /\ old # n
    BY WindsFields, WindAssumption
  <1>3. /\ w.heap \in [Node -> [edge : Edge \cup {NoEdge}, next : Node \cup {Null},
                                prev : Node \cup {Null}, weight : Nat]]
        /\ w.head \in [Cells -> Node \cup {Null}] /\ w.tail \in [Cells -> Node \cup {Null}]
        /\ w.counter \in [Cells -> Nat]
    BY DEF Winds
  <1>4. /\ hp \in [Node -> [edge : Edge \cup {NoEdge}, next : Node \cup {Null},
                            prev : Node \cup {Null}, weight : Nat]]
        /\ hp[n].next = old
        /\ \A m \in Node : m # n => hp[m].next = w.heap[m].next
        /\ \A m \in Node : m # old => hp[m].prev = w.heap[m].prev
        /\ old # Null => hp[old].prev = n
        /\ \A m \in Node : hp[m].edge = w.heap[m].edge /\ hp[m].weight = w.heap[m].weight
    <2>1. CASE old = Null
      BY <2>1, <1>2, <1>3
    <2>2. CASE old # Null
      BY <2>2, <1>2, <1>3
    <2> QED  BY <2>1, <2>2
  <1> HIDE DEF hp, v, old
  <1>5. v \in Winds
    <2>1. v.head \in [Cells -> Node \cup {Null}] /\ v.tail \in [Cells -> Node \cup {Null}]
      BY <1>1, <1>2, <1>3
    <2>2. v.counter \in [Cells -> Nat]
      BY <1>1, <1>3
    <2> QED  BY <1>1, <1>4, <2>1, <2>2 DEF Winds
  <1> QED  BY <1>1, <1>4, <1>5 DEF v, old, SameLoad

(* The tail is taken off.                                                  *)
LEMMA PoppedIs ==
  ASSUME NEW w \in Winds, NEW c \in Cells, w.counter[c] > 0, w.tail[c] \in Node
  PROVE  LET v == Popped(w, c)  p == w.heap[w.tail[c]].prev
         IN  /\ v \in Winds /\ SameLoad(v, w)
             /\ v.tail = [w.tail EXCEPT ![c] = p]
             /\ v.counter = [w.counter EXCEPT ![c] = w.counter[c] - 1]
             /\ v.head = [w.head EXCEPT ![c] = IF p = Null THEN Null ELSE w.head[c]]
             /\ p # Null => v.heap[p].next = Null
             /\ \A m \in Node : m # p => v.heap[m].next = w.heap[m].next
             /\ \A m \in Node : v.heap[m].prev = w.heap[m].prev
  <1> DEFINE p == w.heap[w.tail[c]].prev
             hp == IF p = Null THEN w.heap ELSE [w.heap EXCEPT ![p].next = Null]
             v == Popped(w, c)
  <1>1. /\ v.heap = hp
        /\ v.head = [w.head EXCEPT ![c] = IF p = Null THEN Null ELSE w.head[c]]
        /\ v.tail = [w.tail EXCEPT ![c] = p]
        /\ v.counter = [w.counter EXCEPT ![c] = w.counter[c] - 1]
        /\ v \in [heap : {hp}, head : {v.head}, tail : {v.tail}, counter : {v.counter}]
    BY DEF Winds, Popped
  <1>2. p \in Node \cup {Null} /\ Null \notin Node
    BY WindsFields, WindAssumption
  <1>3. /\ w.heap \in [Node -> [edge : Edge \cup {NoEdge}, next : Node \cup {Null},
                                prev : Node \cup {Null}, weight : Nat]]
        /\ w.head \in [Cells -> Node \cup {Null}] /\ w.tail \in [Cells -> Node \cup {Null}]
        /\ w.counter \in [Cells -> Nat]
    BY DEF Winds
  <1> HIDE DEF p
  <1>4. /\ hp \in [Node -> [edge : Edge \cup {NoEdge}, next : Node \cup {Null},
                            prev : Node \cup {Null}, weight : Nat]]
        /\ p # Null => hp[p].next = Null
        /\ \A m \in Node : m # p => hp[m].next = w.heap[m].next
        /\ \A m \in Node : hp[m].prev = w.heap[m].prev
        /\ \A m \in Node : hp[m].edge = w.heap[m].edge /\ hp[m].weight = w.heap[m].weight
    <2>1. CASE p = Null
      BY <2>1, <1>2, <1>3
    <2>2. CASE p # Null
      BY <2>2, <1>2, <1>3
    <2> QED  BY <2>1, <2>2
  <1> HIDE DEF hp, v
  <1>5. v \in Winds
    <2>1. v.head \in [Cells -> Node \cup {Null}] /\ v.tail \in [Cells -> Node \cup {Null}]
      BY <1>1, <1>2, <1>3
    <2>2. v.counter \in [Cells -> Nat]
      BY <1>1, <1>3
    <2> QED  BY <1>1, <1>4, <2>1, <2>2 DEF Winds
  <1> QED  BY <1>1, <1>4, <1>5 DEF v, p, SameLoad

(* A node is unlinked and freed.                                           *)
Freed(w, c, n) == [Unlinked(w, c, n) EXCEPT !.heap[n] = EmptyNode]

(* The links that delete_edge writes are those of the two neighbours.      *)
LEMMA FreedIs ==
  ASSUME NEW w \in Winds, NEW c \in Cells, NEW n \in Node, w.counter[c] > 0
  PROVE  LET v == Freed(w, c, n)  nx == w.heap[n].next  pv == w.heap[n].prev
         IN  /\ v \in Winds
             /\ v.head = [w.head EXCEPT ![c] = IF w.head[c] = n THEN nx ELSE w.head[c]]
             /\ v.tail = [w.tail EXCEPT ![c] = IF nx = Null THEN pv ELSE w.tail[c]]
             /\ v.counter = [w.counter EXCEPT ![c] = w.counter[c] - 1]
             /\ \A m \in Node \ {n} :
                  /\ v.heap[m].edge = w.heap[m].edge /\ v.heap[m].weight = w.heap[m].weight
                  /\ v.heap[m].next = IF w.head[c] # n /\ m = pv THEN nx ELSE w.heap[m].next
                  /\ v.heap[m].prev = IF m = nx THEN nx ELSE w.heap[m].prev
  <1> DEFINE nx == w.heap[n].next
             pv == w.heap[n].prev
             h1 == IF w.head[c] = n THEN w.heap ELSE [w.heap EXCEPT ![pv].next = nx]
             h2 == IF nx = Null THEN h1 ELSE [h1 EXCEPT ![nx].prev = nx]
             hp == [h2 EXCEPT ![n] = EmptyNode]
             v == Freed(w, c, n)
             Nodes == [edge : Edge \cup {NoEdge}, next : Node \cup {Null},
                       prev : Node \cup {Null}, weight : Nat]
  <1>1. /\ v.heap = hp
        /\ v.head = [w.head EXCEPT ![c] = IF w.head[c] = n THEN nx ELSE w.head[c]]
        /\ v.tail = [w.tail EXCEPT ![c] = IF nx = Null THEN pv ELSE w.tail[c]]
        /\ v.counter = [w.counter EXCEPT ![c] = w.counter[c] - 1]
        /\ v \in [heap : {hp}, head : {v.head}, tail : {v.tail}, counter : {v.counter}]
    BY DEF Winds, Freed, Unlinked
  <1>2. nx \in Node \cup {Null} /\ pv \in Node \cup {Null} /\ Null \notin Node
    BY WindsFields, WindAssumption
  <1>3. /\ w.heap \in [Node -> Nodes]
        /\ w.head \in [Cells -> Node \cup {Null}] /\ w.tail \in [Cells -> Node \cup {Null}]
        /\ w.counter \in [Cells -> Nat]
    BY DEF Winds
  <1> HIDE DEF nx, pv
  <1>4. /\ h1 \in [Node -> Nodes]
        /\ \A m \in Node : /\ h1[m].edge = w.heap[m].edge /\ h1[m].weight = w.heap[m].weight
                           /\ h1[m].next = IF w.head[c] # n /\ m = pv THEN nx ELSE w.heap[m].next
                           /\ h1[m].prev = w.heap[m].prev
    <2>1. CASE w.head[c] = n
      BY <2>1, <1>3
    <2>2. CASE w.head[c] # n
      <3>1. h1 = [w.heap EXCEPT ![pv].next = nx]
        BY <2>2
      <3>2. h1 \in [Node -> Nodes]
        BY <3>1, <1>2, <1>3
      <3>3. \A m \in Node : /\ h1[m].edge = w.heap[m].edge /\ h1[m].weight = w.heap[m].weight
                            /\ h1[m].next = IF m = pv THEN nx ELSE w.heap[m].next
                            /\ h1[m].prev = w.heap[m].prev
        BY <3>1, <1>2, <1>3
      <3> QED  BY <2>2, <3>2, <3>3
    <2> QED  BY <2>1, <2>2
  <1> HIDE DEF h1
  <1>5. /\ h2 \in [Node -> Nodes]
        /\ \A m \in Node : /\ h2[m].edge = h1[m].edge /\ h2[m].weight = h1[m].weight
                           /\ h2[m].next = h1[m].next
                           /\ h2[m].prev = IF m = nx THEN nx ELSE h1[m].prev
    <2>1. CASE nx = Null
      BY <2>1, <1>2, <1>4
    <2>2. CASE nx # Null
      BY <2>2, <1>2, <1>4
    <2> QED  BY <2>1, <2>2
  <1> HIDE DEF h2
  <1>6. EmptyNode \in Nodes
    BY DEF EmptyNode
  <1>7. hp \in [Node -> Nodes] /\ \A m \in Node \ {n} : hp[m] = h2[m]
    BY <1>5, <1>6
  <1> HIDE DEF hp, v
  <1>8. v \in Winds
    BY <1>1, <1>2, <1>3, <1>7 DEF Winds
  <1>9. \A m \in Node \ {n} :
           /\ v.heap[m].edge = w.heap[m].edge /\ v.heap[m].weight = w.heap[m].weight
           /\ v.heap[m].next = IF w.head[c] # n /\ m = pv THEN nx ELSE w.heap[m].next
           /\ v.heap[m].prev = IF m = nx THEN nx ELSE w.heap[m].prev
    BY <1>1, <1>4, <1>5, <1>7
  <1> QED  BY <1>1, <1>8, <1>9 DEF v, nx, pv

(* The other nodes keep their edges and weights.                           *)
LEMMA FreedLoad ==
  ASSUME NEW w \in Winds, NEW c \in Cells, NEW n \in Node, w.counter[c] > 0
  PROVE  /\ Freed(w, c, n) \in Winds
         /\ Freed(w, c, n).counter = [w.counter EXCEPT ![c] = w.counter[c] - 1]
         /\ \A m \in Node \ {n} :
               /\ Freed(w, c, n).heap[m].edge = w.heap[m].edge
               /\ Freed(w, c, n).heap[m].weight = w.heap[m].weight
  <1> DEFINE v == Freed(w, c, n)
             nx == w.heap[n].next
             pv == w.heap[n].prev
  <1>1. /\ v \in Winds
        /\ v.head = [w.head EXCEPT ![c] = IF w.head[c] = n THEN nx ELSE w.head[c]]
        /\ v.tail = [w.tail EXCEPT ![c] = IF nx = Null THEN pv ELSE w.tail[c]]
        /\ v.counter = [w.counter EXCEPT ![c] = w.counter[c] - 1]
        /\ \A m \in Node \ {n} :
             /\ v.heap[m].edge = w.heap[m].edge /\ v.heap[m].weight = w.heap[m].weight
             /\ v.heap[m].next = IF w.head[c] # n /\ m = pv THEN nx ELSE w.heap[m].next
             /\ v.heap[m].prev = IF m = nx THEN nx ELSE w.heap[m].prev
    BY FreedIs
  <1> HIDE DEF v, nx, pv
  <1>2. /\ v \in Winds
        /\ v.counter = [w.counter EXCEPT ![c] = w.counter[c] - 1]
        /\ \A m \in Node \ {n} : v.heap[m].edge = w.heap[m].edge /\ v.heap[m].weight = w.heap[m].weight
    BY <1>1
  <1> QED  BY <1>2 DEF v

-----------------------------------------------------------------------------
(* What they do to the lists.                                              *)

(* The members of the lists.                                               *)
LEMMA ListFacts ==
  ASSUME NEW w, NEW lv \in SUBSET Node, NEW h, NEW L, Hung(w, lv, h, L), NEW c \in Cells
  PROVE  /\ L[c] \in Seq(lv) /\ L[c] \in Seq(Node) /\ Len(L[c]) \in Nat /\ Distinct(L[c])
         /\ \A i \in 1 .. Len(L[c]) :
              /\ L[c][i] \in lv /\ L[c][i] \in Node /\ L[c][i] # Null /\ L[c][i] # h
              /\ c \in CellsOf(w.heap[L[c][i]].edge)
         /\ Chained(w, lv, c, L[c]) /\ Apart(L)
  <1>1. Chained(w, lv, c, L[c]) /\ L[c] \in Seq(lv) /\ L[c] \in Seq(Node)
    BY DEF Hung, Chained
  <1>2. Distinct(L[c]) /\ Apart(L)
    BY DEF Hung, Distinct, Apart
  <1>3. \A i \in 1 .. Len(L[c]) : L[c][i] # h /\ c \in CellsOf(w.heap[L[c][i]].edge)
    BY DEF Hung
  <1> QED  BY <1>1, <1>2, <1>3, LenProperties, ElementOfSeq, WindAssumption

(* The same of all cells, when no node is in hand.                         *)
LEMMA AllListFacts ==
  ASSUME NEW w, NEW lv \in SUBSET Node, NEW L, Hung(w, lv, Null, L)
  PROVE  \A d \in Cells : /\ Chained(w, lv, d, L[d]) /\ L[d] \in Seq(lv)
                          /\ L[d] \in Seq(Node) /\ Len(L[d]) \in Nat /\ Distinct(L[d])
                          /\ \A i \in 1 .. Len(L[d]) :
                                /\ L[d][i] \in lv /\ L[d][i] \in Node /\ L[d][i] # Null
                                /\ d \in CellsOf(w.heap[L[d][i]].edge)
  <1> SUFFICES ASSUME NEW d \in Cells
               PROVE  /\ Chained(w, lv, d, L[d]) /\ L[d] \in Seq(lv)
                      /\ L[d] \in Seq(Node) /\ Len(L[d]) \in Nat /\ Distinct(L[d])
                      /\ \A i \in 1 .. Len(L[d]) :
                            /\ L[d][i] \in lv /\ L[d][i] \in Node /\ L[d][i] # Null
                            /\ d \in CellsOf(w.heap[L[d][i]].edge)
    OBVIOUS
  <1>1. Chained(w, lv, d, L[d]) /\ L[d] \in Seq(lv) /\ L[d] \in Seq(Node) /\ Len(L[d]) \in Nat
    BY LenProperties DEF Hung, Chained
  <1>2. Distinct(L[d])
    BY DEF Hung, Distinct, Apart
  <1>3. \A i \in 1 .. Len(L[d]) : L[d][i] # Null /\ d \in CellsOf(w.heap[L[d][i]].edge)
    BY DEF Hung
  <1> QED  BY <1>1, <1>2, <1>3, ElementOfSeq

(* Hanging the node in hand at the head of one of its cells.               *)
LEMMA HungPushed ==
  ASSUME NEW w \in Winds, NEW lv \in SUBSET Node, NEW h \in lv, NEW L, Hung(w, lv, h, L),
         NEW c \in Cells, c \in CellsOf(w.heap[h].edge)
  PROVE  LET v == Pushed(w, c, h)
         IN  /\ Hung(v, lv, Null, [L EXCEPT ![c] = <<h>> \o L[c]])
             /\ v \in Winds /\ SameLoad(v, w)
  <1> DEFINE v == Pushed(w, c, h)
             l == L[c]
             m == <<h>> \o l
             M == [L EXCEPT ![c] = m]
             old == w.head[c]
  <1>1. /\ l \in Seq(lv) /\ Len(l) \in Nat /\ Chained(w, lv, c, l)
        /\ \A i \in 1 .. Len(l) : l[i] \in lv /\ l[i] \in Node /\ l[i] # Null /\ l[i] # h
        /\ Apart(L)
    BY ListFacts
  <1>2. /\ old = IF Len(l) = 0 THEN Null ELSE l[1]
        /\ old # h /\ h \in Node /\ h # Null
    BY <1>1, WindAssumption DEF Chained
  <1>3. /\ v \in Winds /\ SameLoad(v, w)
        /\ v.head = [w.head EXCEPT ![c] = h]
        /\ v.counter = [w.counter EXCEPT ![c] = w.counter[c] + 1]
        /\ v.tail = [w.tail EXCEPT ![c] = IF old = Null THEN h ELSE w.tail[c]]
        /\ v.heap[h].next = old
        /\ \A x \in Node : x # h => v.heap[x].next = w.heap[x].next
        /\ \A x \in Node : x # old => v.heap[x].prev = w.heap[x].prev
        /\ old # Null => v.heap[old].prev = h
    BY <1>2, PushedIs
  <1>4. /\ m \in Seq(lv) /\ m \in Seq(Node) /\ Len(m) = Len(l) + 1 /\ m[1] = h
        /\ \A i \in 2 .. Len(l) + 1 : m[i] = l[i - 1]
    <2> HIDE DEF l
    <2>1. /\ m \in Seq(lv) /\ Len(m) = Len(l) + 1 /\ m[1] = h
          /\ \A i \in 2 .. Len(l) + 1 : m[i] = l[i - 1]
      BY <1>1, AddedFirst
    <2> QED  BY <2>1, SeqMonotonic
  <1>5. /\ M \in [Cells -> Seq(Node)] /\ M[c] = m /\ \A d \in Cells : d # c => M[d] = L[d]
    BY <1>4 DEF Hung
  <1>6. w.head \in [Cells -> Node \cup {Null}] /\ w.tail \in [Cells -> Node \cup {Null}]
        /\ w.counter \in [Cells -> Nat]
    BY DEF Winds
  <1> HIDE DEF v, M, m
  <1>7. ASSUME NEW d \in Cells, d # c
        PROVE  Chained(v, lv, d, L[d])
    <2>1. /\ L[d] \in Seq(lv) /\ Chained(w, lv, d, L[d]) /\ Len(L[d]) \in Nat
          /\ \A i \in 1 .. Len(L[d]) : L[d][i] \in Node /\ L[d][i] # Null /\ L[d][i] # h
      BY ListFacts
    <2>2. \A i \in 1 .. Len(L[d]) : L[d][i] # old
      <3>1. Len(l) > 0 => 1 \in 1 .. Len(l)
        BY <1>1
      <3> QED  BY <1>1, <1>2, <1>7, <2>1, <3>1 DEF Apart
    <2>3. v.head[d] = w.head[d] /\ v.tail[d] = w.tail[d] /\ v.counter[d] = w.counter[d]
      BY <1>3, <1>6, <1>7
    <2>4. \A i \in 1 .. Len(L[d]) : /\ v.heap[L[d][i]].next = w.heap[L[d][i]].next
                                     /\ v.heap[L[d][i]].prev = w.heap[L[d][i]].prev
      BY <1>3, <2>1, <2>2
    <2>5. \A i \in 2 .. Len(L[d]) : v.heap[L[d][i]].prev = w.heap[L[d][i]].prev
      BY <2>1, <2>4
    <2> HIDE DEF l, old
    <2> QED  BY <2>1, <2>3, <2>4, <2>5, ChainedSame
  <1>8. Chained(v, lv, c, m)
    <2>1. v.head[c] = h /\ v.counter[c] = Len(m) /\ v.tail[c] = m[Len(m)]
      <3>1. w.counter[c] = Len(l) /\ (Len(l) > 0 => w.tail[c] = l[Len(l)])
        BY <1>1 DEF Chained
      <3>2. v.head[c] = h /\ v.counter[c] = Len(m)
        BY <1>3, <1>4, <1>6, <3>1
      <3>3. v.tail[c] = m[Len(m)]
        <4>1. CASE Len(l) = 0
          BY <4>1, <1>2, <1>3, <1>4, <1>6
        <4>2. CASE Len(l) # 0
          <5>1. old # Null /\ v.tail[c] = l[Len(l)] /\ Len(m) \in 2 .. Len(l) + 1
            BY <4>2, <3>1, <1>1, <1>2, <1>3, <1>4, <1>6
          <5> QED  BY <5>1, <1>1, <1>4
        <4> QED  BY <4>1, <4>2
      <3> QED  BY <3>2, <3>3
    <2>2. \A i \in 1 .. Len(m) : v.heap[m[i]].next = IF i = Len(m) THEN Null ELSE m[i + 1]
      <3> SUFFICES ASSUME NEW i \in 1 .. Len(m)
                   PROVE  v.heap[m[i]].next = IF i = Len(m) THEN Null ELSE m[i + 1]
        OBVIOUS
      <3>1. CASE i = 1
        BY <3>1, <1>1, <1>2, <1>3, <1>4
      <3>2. CASE i # 1
        <4>1. i - 1 \in 1 .. Len(l) /\ m[i] = l[i - 1] /\ (i < Len(m) => m[i + 1] = l[i])
          <5>1. i - 1 \in 1 .. Len(l) /\ i \in 2 .. Len(l) + 1
            BY <3>2, <1>1, <1>4
          <5>2. i < Len(m) => i + 1 \in 2 .. Len(l) + 1 /\ (i + 1) - 1 = i
            BY <5>1, <1>1, <1>4
          <5> HIDE DEF l
          <5> QED  BY <5>1, <5>2, <1>4
        <4>2. w.heap[l[i - 1]].next = IF i - 1 = Len(l) THEN Null ELSE l[(i - 1) + 1]
          BY <4>1, <1>1 DEF Chained
        <4>3. v.heap[l[i - 1]].next = w.heap[l[i - 1]].next
          BY <4>1, <1>1, <1>3
        <4> QED  BY <4>1, <4>2, <4>3, <1>1, <1>4
      <3> QED  BY <3>1, <3>2
    <2>3. \A i \in 2 .. Len(m) : v.heap[m[i]].prev \in {m[i - 1], m[i]}
      <3> SUFFICES ASSUME NEW i \in 2 .. Len(m)
                   PROVE  v.heap[m[i]].prev \in {m[i - 1], m[i]}
        OBVIOUS
      <3>1. i - 1 \in 1 .. Len(l) /\ m[i] = l[i - 1]
        BY <1>1, <1>4
      <3>2. CASE i = 2
        BY <3>1, <3>2, <1>1, <1>2, <1>3, <1>4
      <3>3. CASE i # 2
        <4>1. i - 1 \in 2 .. Len(l) /\ m[i - 1] = l[(i - 1) - 1]
          BY <3>1, <3>3, <1>1, <1>4
        <4>2. w.heap[l[i - 1]].prev \in {l[(i - 1) - 1], l[i - 1]}
          BY <4>1, <1>1 DEF Chained
        <4>3. l[i - 1] # old
          <5>1. Len(l) > 0 /\ 1 \in 1 .. Len(l) /\ i - 1 \in 1 .. Len(l) /\ i - 1 # 1
            BY <3>1, <4>1, <1>1
          <5> QED  BY <5>1, <1>1, <1>2 DEF Apart
        <4> QED  BY <3>1, <4>1, <4>2, <4>3, <1>1, <1>3
      <3> QED  BY <3>2, <3>3
    <2> QED  BY <1>4, <1>1, <2>1, <2>2, <2>3 DEF Chained
  <1>9. \A d \in Cells : Chained(v, lv, d, M[d])
    BY <1>5, <1>7, <1>8
  <1>10. \A d \in Cells : \A i \in 1 .. Len(M[d]) :
            \/ d = c /\ i = 1 /\ M[d][i] = h
            \/ d = c /\ i - 1 \in 1 .. Len(L[d]) /\ M[d][i] = L[d][i - 1]
            \/ d # c /\ i \in 1 .. Len(L[d]) /\ M[d][i] = L[d][i]
    BY <1>1, <1>4, <1>5
  <1>11. Apart(M)
    <2> SUFFICES ASSUME NEW d \in Cells, NEW e \in Cells, NEW i \in 1 .. Len(M[d]),
                        NEW j \in 1 .. Len(M[e]), M[d][i] = M[e][j]
                 PROVE  d = e /\ i = j
      BY DEF Apart
    <2>1. \A x \in Cells : \A k \in 1 .. Len(L[x]) : L[x][k] # h
      BY DEF Hung
    <2>2. \A x, y \in Cells : \A k \in 1 .. Len(L[x]), o \in 1 .. Len(L[y]) :
             L[x][k] = L[y][o] => x = y /\ k = o
      BY <1>1 DEF Apart
    <2>3. i \in Int /\ j \in Int
      OBVIOUS
    <2>4. /\ \/ d = c /\ i = 1 /\ M[d][i] = h
             \/ d = c /\ i - 1 \in 1 .. Len(L[d]) /\ M[d][i] = L[d][i - 1]
             \/ d # c /\ i \in 1 .. Len(L[d]) /\ M[d][i] = L[d][i]
          /\ \/ e = c /\ j = 1 /\ M[e][j] = h
             \/ e = c /\ j - 1 \in 1 .. Len(L[e]) /\ M[e][j] = L[e][j - 1]
             \/ e # c /\ j \in 1 .. Len(L[e]) /\ M[e][j] = L[e][j]
      BY <1>10
    <2> HIDE DEF l, old
    <2>5. CASE d = c /\ e = c
      <3>1. i = 1 <=> j = 1
        BY <2>1, <2>4, <2>5
      <3>2. i # 1 => i - 1 = j - 1
        BY <2>1, <2>2, <2>4, <2>5, <3>1
      <3> QED  BY <2>3, <2>5, <3>1, <3>2
    <2>6. CASE d # c /\ e # c
      BY <2>2, <2>4, <2>6
    <2>7. CASE ~ (d = c <=> e = c)
      BY <2>1, <2>2, <2>4, <2>7
    <2> QED  BY <2>5, <2>6, <2>7
  <1>12. \A d \in Cells : \A i \in 1 .. Len(M[d]) :
            M[d][i] # Null /\ d \in CellsOf(v.heap[M[d][i]].edge)
    <2> SUFFICES ASSUME NEW d \in Cells, NEW i \in 1 .. Len(M[d])
                 PROVE  M[d][i] # Null /\ d \in CellsOf(v.heap[M[d][i]].edge)
      OBVIOUS
    <2>1. \A x \in Cells : \A k \in 1 .. Len(L[x]) :
             L[x][k] \in Node /\ L[x][k] # Null /\ x \in CellsOf(w.heap[L[x][k]].edge)
      BY ListFacts
    <2>2. M[d][i] \in Node /\ M[d][i] # Null /\ d \in CellsOf(w.heap[M[d][i]].edge)
      <3>1. CASE d = c /\ i = 1 /\ M[d][i] = h
        BY <3>1, <1>2
      <3>2. CASE d = c /\ i - 1 \in 1 .. Len(L[d]) /\ M[d][i] = L[d][i - 1]
        BY <3>2, <2>1
      <3>3. CASE d # c /\ i \in 1 .. Len(L[d]) /\ M[d][i] = L[d][i]
        BY <3>3, <2>1
      <3> QED  BY <1>10, <3>1, <3>2, <3>3
    <2> QED  BY <2>2, <1>3 DEF SameLoad
  <1>13. \A n \in lv : \E d \in Cells : \E i \in 1 .. Len(M[d]) : M[d][i] = n
    <2> SUFFICES ASSUME NEW n \in lv
                 PROVE  \E d \in Cells : \E i \in 1 .. Len(M[d]) : M[d][i] = n
      OBVIOUS
    <2>1. CASE n = h
      BY <2>1, <1>1, <1>4, <1>5
    <2>2. CASE n # h
      <3>0. PICK d \in Cells : \E i \in 1 .. Len(L[d]) : L[d][i] = n
        BY <2>2 DEF Hung
      <3>1. PICK i \in 1 .. Len(L[d]) : L[d][i] = n
        BY <3>0
      <3>2. CASE d # c
        BY <3>1, <3>2, <1>5
      <3>3. CASE d = c
        <4>1. i + 1 \in 1 .. Len(M[c]) /\ M[c][i + 1] = n
          BY <3>1, <3>3, <1>1, <1>4, <1>5
        <4> QED  BY <4>1
      <3> QED  BY <3>2, <3>3
    <2> QED  BY <2>1, <2>2
  <1>14. Hung(v, lv, Null, M)
    BY <1>5, <1>9, <1>11, <1>12, <1>13 DEF Hung
  <1> QED  BY <1>3, <1>14 DEF v, M, m

(* The list of a cell once the node at position p is gone from it: what    *)
(* the neighbours, the head and the tail have to be.                       *)
LEMMA ChainedWithout ==
  ASSUME NEW w, NEW v, NEW S, NEW c, NEW l, NEW k \in Nat, k = Len(l), NEW p \in 1 .. k,
         Chained(w, S, c, l), Distinct(l),
         v.counter[c] = k - 1,
         v.head[c] = IF k = 1 THEN Null ELSE IF p = 1 THEN l[2] ELSE l[1],
         k > 1 => v.tail[c] = IF p = k THEN l[k - 1] ELSE l[k],
         \A i \in 1 .. k : i # p =>
            v.heap[l[i]].next = IF i # p - 1 THEN w.heap[l[i]].next
                                ELSE IF p = k THEN Null ELSE l[p + 1],
         \A i \in 2 .. k : i # p /\ i # p + 1 => v.heap[l[i]].prev = w.heap[l[i]].prev,
         p # 1 /\ p < k => v.heap[l[p + 1]].prev \in {l[p - 1], l[p + 1]}
  PROVE  Chained(v, S \ {l[p]}, c, Without(l, p))
  <1> DEFINE m == Without(l, p)
  <1>1. l \in Seq(S) /\ \A i \in 1 .. k : l[i] \in S
    BY ElementOfSeq DEF Chained
  <1>2. /\ m \in Seq(S) /\ Len(m) = k - 1
        /\ \A i \in 1 .. k - 1 : m[i] = IF i < p THEN l[i] ELSE l[i + 1]
    BY <1>1, WithoutOne
  <1>3. \A i \in 1 .. k : i # p => l[i] # l[p]
    BY DEF Distinct
  <1> HIDE DEF m
  <1>4. m \in Seq(S \ {l[p]})
    <2>1. \A i \in 1 .. k - 1 : m[i] \in S \ {l[p]}
      BY <1>1, <1>2, <1>3
    <2>2. m \in [1 .. k - 1 -> S \ {l[p]}]
      BY <2>1, <1>2, LenProperties
    <2>3. k - 1 \in Nat
      OBVIOUS
    <2> QED  BY <2>2, <2>3, SeqDef
  <1>5. v.counter[c] = Len(m) /\ v.head[c] = IF Len(m) = 0 THEN Null ELSE m[1]
    BY <1>2
  <1>6. Len(m) > 0 => v.tail[c] = m[Len(m)]
    BY <1>2
  <1>7. \A i \in 1 .. Len(m) : v.heap[m[i]].next = IF i = Len(m) THEN Null ELSE m[i + 1]
    <2> SUFFICES ASSUME NEW i \in 1 .. k - 1
                 PROVE  v.heap[m[i]].next = IF i = k - 1 THEN Null ELSE m[i + 1]
      BY <1>2
    <2>1. \A j \in 1 .. k : w.heap[l[j]].next = IF j = k THEN Null ELSE l[j + 1]
      BY DEF Chained
    <2>2. i < k - 1 => i + 1 \in 1 .. k - 1 /\ m[i + 1] = IF i + 1 < p THEN l[i + 1] ELSE l[i + 2]
      BY <1>2
    <2>3. CASE i < p - 1
      <3>1. /\ i \in 1 .. k /\ i # p /\ i # p - 1 /\ i # k /\ i < k - 1 /\ i < p /\ i + 1 < p
            /\ m[i] = l[i] /\ m[i + 1] = l[i + 1]
        BY <2>2, <2>3, <1>2
      <3>2. v.heap[l[i]].next = w.heap[l[i]].next /\ w.heap[l[i]].next = l[i + 1]
        BY <3>1, <2>1
      <3> QED  BY <3>1, <3>2
    <2>4. CASE i = p - 1
      <3>1. /\ i \in 1 .. k /\ i # p /\ i < p /\ m[i] = l[i] /\ (i = k - 1 <=> p = k)
            /\ p = i + 1 /\ (i < k - 1 => m[i + 1] = l[p + 1])
        BY <2>2, <2>4, <1>2
      <3>2. v.heap[l[i]].next = IF p = k THEN Null ELSE l[p + 1]
        BY <3>1, <2>4
      <3> QED  BY <3>1, <3>2
    <2>5. CASE i >= p
      <3>1. m[i] = l[i + 1] /\ i + 1 \in 1 .. k /\ i + 1 # p /\ i + 1 # p - 1 /\ (i + 1) + 1 = i + 2
        BY <2>5, <1>2
      <3> QED  BY <3>1, <2>1, <2>2, <2>5
    <2> QED  BY <2>3, <2>4, <2>5
  <1>8. \A i \in 2 .. Len(m) : v.heap[m[i]].prev \in {m[i - 1], m[i]}
    <2> SUFFICES ASSUME NEW i \in 2 .. k - 1
                 PROVE  v.heap[m[i]].prev \in {m[i - 1], m[i]}
      BY <1>2
    <2>1. \A j \in 2 .. k : w.heap[l[j]].prev \in {l[j - 1], l[j]}
      BY DEF Chained
    <2>2. i - 1 \in 1 .. k - 1 /\ m[i - 1] = IF i - 1 < p THEN l[i - 1] ELSE l[i]
      BY <1>2
    <2>3. CASE i < p
      BY <2>1, <2>2, <2>3, <1>2
    <2>4. CASE i = p
      BY <2>2, <2>4, <1>2
    <2>5. CASE i > p
      <3>1. m[i] = l[i + 1] /\ i + 1 \in 2 .. k /\ i + 1 # p /\ i + 1 # p + 1 /\ (i + 1) - 1 = i
        BY <2>5, <1>2
      <3> QED  BY <3>1, <2>1, <2>2, <2>5
    <2> QED  BY <2>3, <2>4, <2>5
  <1>9. Chained(v, S \ {l[p]}, c, m)
    BY <1>4, <1>5, <1>6, <1>7, <1>8 DEF Chained
  <1> QED  BY <1>9 DEF m

(* What an operation on one cell leaves alone.                             *)
OthersKept(w, v, L, c) ==
  \A d \in Cells : d # c =>
     /\ v.counter[d] = w.counter[d] /\ v.head[d] = w.head[d] /\ v.tail[d] = w.tail[d]
     /\ \A i \in 1 .. Len(L[d]) : /\ v.heap[L[d][i]].next = w.heap[L[d][i]].next
                                  /\ v.heap[L[d][i]].prev = w.heap[L[d][i]].prev

(* The nodes of S keep their edges.                                        *)
EdgesKept(w, v, S) == \A x \in S : v.heap[x].edge = w.heap[x].edge

(* A node leaves its list, to be in hand or to be freed.                   *)
LEMMA HungWithout ==
  ASSUME NEW w, NEW v, NEW lv \in SUBSET Node, NEW L, Hung(w, lv, Null, L),
         NEW c \in Cells, NEW p \in 1 .. Len(L[c]), NEW n, n = L[c][p],
         Chained(v, lv \ {n}, c, Without(L[c], p)),
         OthersKept(w, v, L, c), EdgesKept(w, v, lv \ {n}),
         NEW lv2, NEW h, lv \ {n} \subseteq lv2, lv2 \subseteq lv, h \in {n, Null}, n \in lv2 => h = n
  PROVE  Hung(v, lv2, h, [L EXCEPT ![c] = Without(L[c], p)])
  <1> DEFINE m == Without(L[c], p)
             M == [L EXCEPT ![c] = m]
  <1>1. /\ L[c] \in Seq(Node) /\ Len(L[c]) \in Nat /\ Apart(L) /\ L \in [Cells -> Seq(Node)]
        /\ \A d \in Cells : /\ Chained(w, lv, d, L[d]) /\ L[d] \in Seq(lv)
                            /\ \A i \in 1 .. Len(L[d]) :
                                  /\ L[d][i] \in lv /\ L[d][i] \in Node /\ L[d][i] # Null
                                  /\ d \in CellsOf(w.heap[L[d][i]].edge)
    <2>1. L \in [Cells -> Seq(Node)] /\ Apart(L)
      BY DEF Hung
    <2> QED  BY <2>1, AllListFacts
  <1>2. /\ m \in Seq(Node) /\ Len(m) = Len(L[c]) - 1
        /\ \A i \in 1 .. Len(L[c]) - 1 : m[i] = IF i < p THEN L[c][i] ELSE L[c][i + 1]
    BY <1>1, WithoutOne
  <1>3. M \in [Cells -> Seq(Node)] /\ M[c] = m /\ \A d \in Cells : d # c => M[d] = L[d]
    BY <1>1, <1>2
  <1> HIDE DEF m, M
  <1> DEFINE was(d, i) == IF d = c /\ i >= p THEN i + 1 ELSE i
  <1>4. \A d \in Cells : \A i \in 1 .. Len(M[d]) :
           was(d, i) \in 1 .. Len(L[d]) /\ M[d][i] = L[d][was(d, i)] /\ ~ (d = c /\ was(d, i) = p)
    BY <1>1, <1>2, <1>3
  <1>5. \A d \in Cells : \A i \in 1 .. Len(M[d]) : M[d][i] \in lv \ {n}
    <2> SUFFICES ASSUME NEW d \in Cells, NEW i \in 1 .. Len(M[d])
                 PROVE  M[d][i] \in lv \ {n}
      OBVIOUS
    <2>1. PICK j \in 1 .. Len(L[d]) : M[d][i] = L[d][j] /\ ~ (d = c /\ j = p)
      <3> HIDE DEF was
      <3> QED  BY <1>4
    <2>2. L[d][j] \in lv /\ L[d][j] # n
      BY <2>1, <1>1 DEF Apart
    <2> QED  BY <2>1, <2>2
  <1>6. \A d \in Cells : Chained(v, lv2, d, M[d])
    <2>1. Chained(v, lv2, c, m)
      <3>1. m \in Seq(lv2)
        <4>1. m \in Seq(lv \ {n})
          BY DEF m, Chained
        <4> QED  BY <4>1, SeqMonotonic
      <3>2. Chained(v, lv \ {n}, c, m)
        BY DEF m
      <3> QED  BY <3>1, <3>2 DEF Chained
    <2>2. ASSUME NEW d \in Cells, d # c
          PROVE  Chained(v, lv2, d, L[d])
      <3>1. \A i \in 1 .. Len(L[d]) : L[d][i] \in lv2
        BY <1>3, <1>5, <2>2
      <3>2. L[d] \in Seq(lv2)
        <4>1. L[d] \in [1 .. Len(L[d]) -> lv2] /\ Len(L[d]) \in Nat
          BY <1>1, <3>1, LenProperties
        <4> QED  BY <4>1, SeqDef
      <3>3. \A i \in 2 .. Len(L[d]) : v.heap[L[d][i]].prev = w.heap[L[d][i]].prev
        <4>1. \A i \in 2 .. Len(L[d]) : i \in 1 .. Len(L[d])
          OBVIOUS
        <4> QED  BY <2>2, <4>1 DEF OthersKept
      <3>4. /\ v.counter[d] = w.counter[d] /\ v.head[d] = w.head[d] /\ v.tail[d] = w.tail[d]
            /\ \A i \in 1 .. Len(L[d]) : v.heap[L[d][i]].next = w.heap[L[d][i]].next
        BY <2>2 DEF OthersKept
      <3> QED  BY <1>1, <3>2, <3>3, <3>4, ChainedSame
    <2> QED  BY <1>3, <2>1, <2>2
  <1>7. Apart(M)
    <2> SUFFICES ASSUME NEW d \in Cells, NEW e \in Cells, NEW i \in 1 .. Len(M[d]),
                        NEW j \in 1 .. Len(M[e]), M[d][i] = M[e][j]
                 PROVE  d = e /\ i = j
      BY DEF Apart
    <2> HIDE DEF was
    <2>1. PICK x \in 1 .. Len(L[d]) : M[d][i] = L[d][x] /\ x = was(d, i)
      BY <1>4
    <2>2. PICK y \in 1 .. Len(L[e]) : M[e][j] = L[e][y] /\ y = was(e, j)
      BY <1>4
    <2>3. d = e /\ x = y
      <3>1. L[d][x] = L[e][y] /\ Apart(L)
        BY <2>1, <2>2, <1>1
      <3> QED  BY <3>1 DEF Apart
    <2> USE DEF was
    <2> QED  BY <2>1, <2>2, <2>3
  <1>8. \A d \in Cells : \A i \in 1 .. Len(M[d]) :
           M[d][i] # h /\ d \in CellsOf(v.heap[M[d][i]].edge)
    <2> SUFFICES ASSUME NEW d \in Cells, NEW i \in 1 .. Len(M[d])
                 PROVE  M[d][i] # h /\ d \in CellsOf(v.heap[M[d][i]].edge)
      OBVIOUS
    <2>1. PICK j \in 1 .. Len(L[d]) : M[d][i] = L[d][j]
      <3> HIDE DEF was
      <3> QED  BY <1>4
    <2>2. M[d][i] \in lv \ {n} /\ M[d][i] # Null /\ d \in CellsOf(w.heap[M[d][i]].edge)
      BY <1>1, <1>5, <2>1
    <2> QED  BY <2>2 DEF EdgesKept
  <1>9. \A x \in lv2 : x = h \/ \E d \in Cells : \E i \in 1 .. Len(M[d]) : M[d][i] = x
    <2> SUFFICES ASSUME NEW x \in lv2, x # h
                 PROVE  \E d \in Cells : \E i \in 1 .. Len(M[d]) : M[d][i] = x
      OBVIOUS
    <2>1. x # n /\ x # Null /\ x \in lv
      BY WindAssumption
    <2>2. PICK d \in Cells : \E i \in 1 .. Len(L[d]) : L[d][i] = x
      BY <2>1 DEF Hung
    <2>3. PICK i \in 1 .. Len(L[d]) : L[d][i] = x
      BY <2>2
    <2>4. CASE d # c
      BY <2>3, <2>4, <1>3
    <2>5. CASE d = c /\ i < p
      <3>1. i \in 1 .. Len(M[c]) /\ M[c][i] = x
        BY <2>3, <2>5, <1>1, <1>2, <1>3
      <3> QED  BY <3>1
    <2>6. CASE d = c /\ i > p
      <3>1. i - 1 \in 1 .. Len(M[c]) /\ M[c][i - 1] = x
        BY <2>3, <2>6, <1>1, <1>2, <1>3
      <3> QED  BY <3>1
    <2> QED  BY <2>1, <2>3, <2>4, <2>5, <2>6
  <1>10. Hung(v, lv2, h, M)
    BY <1>3, <1>6, <1>7, <1>8, <1>9 DEF Hung
  <1> QED  BY <1>10 DEF m, M

(* The tail of a list, which does not point back to itself, comes in hand. *)
LEMMA HungPopped ==
  ASSUME NEW w \in Winds, NEW lv \in SUBSET Node, NEW L, Hung(w, lv, Null, L),
         NEW c \in Cells, Len(L[c]) >= 2, ~ SelfLinked(w, c, w.tail[c])
  PROVE  LET v == Popped(w, c)
         IN  /\ v \in Winds /\ SameLoad(v, w) /\ w.tail[c] \in lv
             /\ Hung(v, lv, w.tail[c], [L EXCEPT ![c] = Without(L[c], Len(L[c]))])
  <1> DEFINE v == Popped(w, c)
             l == L[c]
             k == Len(l)
             t == w.tail[c]
             q == w.heap[t].prev
  <1>1. \A d \in Cells : /\ Chained(w, lv, d, L[d]) /\ L[d] \in Seq(lv)
                         /\ Len(L[d]) \in Nat /\ Distinct(L[d])
                         /\ \A i \in 1 .. Len(L[d]) :
                               L[d][i] \in lv /\ L[d][i] \in Node /\ L[d][i] # Null
    BY AllListFacts
  <1>2. /\ t = l[k] /\ t \in lv /\ t \in Node /\ w.head[c] = l[1] /\ w.counter[c] = k
        /\ k \in Nat /\ k >= 2
        /\ q \in {l[k - 1], l[k]}
    BY <1>1 DEF Chained
  <1>3. q = l[k - 1] /\ q \in Node /\ q # Null
    <2>1. l[1] # l[k]
      BY <1>1, <1>2 DEF Distinct
    <2>2. q # t
      BY <2>1, <1>2 DEF SelfLinked
    <2> QED  BY <2>2, <1>1, <1>2
  <1>4. /\ v \in Winds /\ SameLoad(v, w)
        /\ v.tail = [w.tail EXCEPT ![c] = q]
        /\ v.counter = [w.counter EXCEPT ![c] = w.counter[c] - 1]
        /\ v.head = [w.head EXCEPT ![c] = IF q = Null THEN Null ELSE w.head[c]]
        /\ q # Null => v.heap[q].next = Null
        /\ \A m \in Node : m # q => v.heap[m].next = w.heap[m].next
        /\ \A m \in Node : v.heap[m].prev = w.heap[m].prev
    <2>1. w.counter[c] > 0 /\ w.tail[c] \in Node
      BY <1>2
    <2> QED  BY <2>1, PoppedIs
  <1>5. w.head \in [Cells -> Node \cup {Null}] /\ w.tail \in [Cells -> Node \cup {Null}]
        /\ w.counter \in [Cells -> Nat]
    BY DEF Winds
  <1> HIDE DEF v, t, q
  <1>6. Chained(v, lv \ {l[k]}, c, Without(l, k))
    <2>1. v.counter[c] = k - 1 /\ v.head[c] = l[1] /\ v.tail[c] = l[k - 1]
      BY <1>2, <1>3, <1>4, <1>5
    <2>2. \A i \in 1 .. k : i # k => v.heap[l[i]].next = IF i # k - 1 THEN w.heap[l[i]].next ELSE Null
      <3> SUFFICES ASSUME NEW i \in 1 .. k, i # k
                   PROVE  v.heap[l[i]].next = IF i # k - 1 THEN w.heap[l[i]].next ELSE Null
        OBVIOUS
      <3>1. CASE i = k - 1
        BY <3>1, <1>3, <1>4
      <3>2. CASE i # k - 1
        <4>1. l[i] # q /\ l[i] \in Node
          BY <3>2, <1>1, <1>2, <1>3 DEF Distinct
        <4> QED  BY <3>2, <4>1, <1>4
      <3> QED  BY <3>1, <3>2
    <2>3. \A i \in 2 .. k : v.heap[l[i]].prev = w.heap[l[i]].prev
      BY <1>1, <1>4
    <2>4. Chained(w, lv, c, l) /\ Distinct(l) /\ k \in Nat /\ k \in 1 .. k /\ k # 1
      BY <1>1, <1>2
    <2> HIDE DEF l
    <2>5. PICK j \in Nat : j = k
      BY <2>4
    <2>6. Chained(v, lv \ {l[j]}, c, Without(l, j))
      <3>1. /\ j = Len(l) /\ j \in 1 .. j /\ j # 1 /\ v.counter[c] = j - 1
            /\ v.head[c] = IF j = 1 THEN Null ELSE IF j = 1 THEN l[2] ELSE l[1]
            /\ j > 1 => v.tail[c] = IF j = j THEN l[j - 1] ELSE l[j]
            /\ \A i \in 1 .. j : i # j =>
                  v.heap[l[i]].next = IF i # j - 1 THEN w.heap[l[i]].next
                                      ELSE IF j = j THEN Null ELSE l[j + 1]
            /\ \A i \in 2 .. j : i # j /\ i # j + 1 => v.heap[l[i]].prev = w.heap[l[i]].prev
            /\ j # 1 /\ j < j => v.heap[l[j + 1]].prev \in {l[j - 1], l[j + 1]}
        BY <2>1, <2>2, <2>3, <2>4, <2>5
      <3> QED  BY <3>1, <2>4, ChainedWithout
    <2> QED  BY <2>5, <2>6
  <1>7. OthersKept(w, v, L, c)
    <2> SUFFICES ASSUME NEW d \in Cells, d # c
                 PROVE  /\ v.counter[d] = w.counter[d] /\ v.head[d] = w.head[d]
                        /\ v.tail[d] = w.tail[d]
                        /\ \A i \in 1 .. Len(L[d]) :
                              /\ v.heap[L[d][i]].next = w.heap[L[d][i]].next
                              /\ v.heap[L[d][i]].prev = w.heap[L[d][i]].prev
      BY DEF OthersKept
    <2>1. v.counter[d] = w.counter[d] /\ v.head[d] = w.head[d] /\ v.tail[d] = w.tail[d]
      BY <1>4, <1>5
    <2>2. \A i \in 1 .. Len(L[d]) : L[d][i] \in Node /\ L[d][i] # q
      <3>1. k - 1 \in 1 .. Len(L[c])
        BY <1>2
      <3>2. Apart(L)
        BY DEF Hung
      <3> QED  BY <3>1, <3>2, <1>1, <1>3 DEF Apart
    <2> QED  BY <2>1, <2>2, <1>4
  <1>8. EdgesKept(w, v, lv \ {t})
    BY <1>4 DEF SameLoad, EdgesKept
  <1>9. Hung(v, lv, t, [L EXCEPT ![c] = Without(L[c], k)])
    <2>1. /\ t = L[c][k] /\ k \in 1 .. Len(L[c]) /\ Chained(v, lv \ {t}, c, Without(L[c], k))
          /\ lv \ {t} \subseteq lv /\ lv \subseteq lv /\ t \in {t, Null} /\ (t \in lv => t = t)
      BY <1>2, <1>6
    <2> HIDE DEF k, l
    <2> QED  BY <2>1, <1>7, <1>8, HungWithout
  <1> QED  BY <1>2, <1>4, <1>9 DEF v, t

(* A node whose back pointer is right, or that is first, is deleted.       *)
LEMMA HungFreed ==
  ASSUME NEW w \in Winds, NEW lv \in SUBSET Node, NEW L, Hung(w, lv, Null, L),
         NEW c \in Cells, NEW p \in 1 .. Len(L[c]), NEW n, n = L[c][p], ~ SelfLinked(w, c, n)
  PROVE  LET v == Freed(w, c, n)
         IN  /\ v \in Winds
             /\ Hung(v, lv \ {n}, Null, [L EXCEPT ![c] = Without(L[c], p)])
             /\ \A x \in lv \ {n} : /\ v.heap[x].edge = w.heap[x].edge
                                    /\ v.heap[x].weight = w.heap[x].weight
  <1> DEFINE v == Freed(w, c, n)
             l == L[c]
             k == Len(l)
             nx == w.heap[n].next
             pv == w.heap[n].prev
  <1>1. \A d \in Cells : /\ Chained(w, lv, d, L[d]) /\ L[d] \in Seq(lv)
                         /\ Len(L[d]) \in Nat /\ Distinct(L[d])
                         /\ \A i \in 1 .. Len(L[d]) :
                               L[d][i] \in lv /\ L[d][i] \in Node /\ L[d][i] # Null
    BY AllListFacts
  <1>2. /\ n \in lv /\ n \in Node /\ w.head[c] = l[1] /\ w.counter[c] = k
        /\ k \in Nat /\ k >= 1 /\ p \in 1 .. k
        /\ w.tail[c] = l[k]
        /\ nx = IF p = k THEN Null ELSE l[p + 1]
        /\ p # 1 => pv \in {l[p - 1], l[p]}
    <2>1. /\ Chained(w, lv, c, l) /\ k \in Nat /\ p \in 1 .. k
          /\ n \in lv /\ n \in Node /\ n = l[p]
      BY <1>1
    <2> HIDE DEF l
    <2>2. p # 1 => p \in 2 .. k
      BY <2>1
    <2> QED  BY <2>1, <2>2 DEF Chained
  <1>3. (w.head[c] = n <=> p = 1) /\ (p # 1 => pv = l[p - 1])
    <2>1. l[1] = n <=> p = 1
      BY <1>1, <1>2 DEF Distinct
    <2> QED  BY <2>1, <1>2 DEF SelfLinked
  <1>4. /\ v \in Winds
        /\ v.head = [w.head EXCEPT ![c] = IF w.head[c] = n THEN nx ELSE w.head[c]]
        /\ v.tail = [w.tail EXCEPT ![c] = IF nx = Null THEN pv ELSE w.tail[c]]
        /\ v.counter = [w.counter EXCEPT ![c] = w.counter[c] - 1]
        /\ \A m \in Node \ {n} :
             /\ v.heap[m].edge = w.heap[m].edge /\ v.heap[m].weight = w.heap[m].weight
             /\ v.heap[m].next = IF w.head[c] # n /\ m = pv THEN nx ELSE w.heap[m].next
             /\ v.heap[m].prev = IF m = nx THEN nx ELSE w.heap[m].prev
    <2>1. w.counter[c] > 0 /\ n \in Node
      BY <1>2
    <2> QED  BY <2>1, FreedIs
  <1>5. w.head \in [Cells -> Node \cup {Null}] /\ w.tail \in [Cells -> Node \cup {Null}]
        /\ w.counter \in [Cells -> Nat]
    BY DEF Winds
  <1> HIDE DEF v, nx, pv
  <1>6. \A i \in 1 .. k : i # p => l[i] \in Node \ {n}
    BY <1>1, <1>2 DEF Distinct
  <1>7. Chained(v, lv \ {l[p]}, c, Without(l, p))
    <2>1. v.counter[c] = k - 1
      BY <1>2, <1>4, <1>5
    <2>2. v.head[c] = IF k = 1 THEN Null ELSE IF p = 1 THEN l[2] ELSE l[1]
      <3>1. v.head[c] = IF p = 1 THEN nx ELSE l[1]
        BY <1>2, <1>3, <1>4, <1>5
      <3>2. (k = 1 => p = 1 /\ p = k) /\ (k # 1 /\ p = 1 => p # k /\ p + 1 = 2)
        <4>1. p \in 1 .. k /\ k \in Nat
          BY <1>2
        <4> HIDE DEF k, l
        <4> QED  BY <4>1
      <3> QED  BY <3>1, <3>2, <1>2
    <2>3. k > 1 => v.tail[c] = IF p = k THEN l[k - 1] ELSE l[k]
      <3>1. p < k => l[p + 1] # Null
        BY <1>1, <1>2
      <3> QED  BY <3>1, <1>2, <1>3, <1>4, <1>5
    <2>4. \A i \in 1 .. k : i # p =>
            v.heap[l[i]].next = IF i # p - 1 THEN w.heap[l[i]].next
                                ELSE IF p = k THEN Null ELSE l[p + 1]
      <3> SUFFICES ASSUME NEW i \in 1 .. k, i # p
                   PROVE  v.heap[l[i]].next = IF i # p - 1 THEN w.heap[l[i]].next
                                              ELSE IF p = k THEN Null ELSE l[p + 1]
        OBVIOUS
      <3>1. v.heap[l[i]].next = IF p # 1 /\ l[i] = pv THEN nx ELSE w.heap[l[i]].next
        BY <1>3, <1>4, <1>6
      <3>2. p # 1 => (l[i] = pv <=> i = p - 1)
        BY <1>1, <1>2, <1>3 DEF Distinct
      <3> QED  BY <3>1, <3>2, <1>2
    <2>5. \A i \in 2 .. k : i # p /\ i # p + 1 => v.heap[l[i]].prev = w.heap[l[i]].prev
      <3> SUFFICES ASSUME NEW i \in 2 .. k, i # p, i # p + 1
                   PROVE  v.heap[l[i]].prev = w.heap[l[i]].prev
        OBVIOUS
      <3>1. i \in 1 .. k /\ l[i] # nx
        BY <1>1, <1>2 DEF Distinct
      <3> QED  BY <3>1, <1>4, <1>6
    <2>6. p # 1 /\ p < k => v.heap[l[p + 1]].prev \in {l[p - 1], l[p + 1]}
      <3> SUFFICES ASSUME p < k
                   PROVE  v.heap[l[p + 1]].prev = l[p + 1]
        OBVIOUS
      <3>1. p + 1 \in 1 .. k /\ p + 1 # p /\ nx = l[p + 1]
        BY <1>2
      <3> QED  BY <3>1, <1>4, <1>6
    <2>7. Chained(w, lv, c, l) /\ Distinct(l) /\ k \in Nat
      BY <1>1, <1>2
    <2> HIDE DEF l
    <2>8. PICK j \in Nat : j = k
      BY <2>7
    <2>9. p \in 1 .. j
      BY <1>2, <2>8
    <2> QED  BY <2>1, <2>2, <2>3, <2>4, <2>5, <2>6, <2>7, <2>8, <2>9, ChainedWithout
  <1>8. OthersKept(w, v, L, c)
    <2> SUFFICES ASSUME NEW d \in Cells, d # c
                 PROVE  /\ v.counter[d] = w.counter[d] /\ v.head[d] = w.head[d]
                        /\ v.tail[d] = w.tail[d]
                        /\ \A i \in 1 .. Len(L[d]) :
                              /\ v.heap[L[d][i]].next = w.heap[L[d][i]].next
                              /\ v.heap[L[d][i]].prev = w.heap[L[d][i]].prev
      BY DEF OthersKept
    <2>1. v.counter[d] = w.counter[d] /\ v.head[d] = w.head[d] /\ v.tail[d] = w.tail[d]
      BY <1>4, <1>5
    <2>2. \A i \in 1 .. Len(L[d]), j \in 1 .. Len(L[c]) : L[d][i] # L[c][j]
      <3>1. Apart(L)
        BY DEF Hung
      <3> QED  BY <3>1 DEF Apart
    <2>3. ASSUME NEW i \in 1 .. Len(L[d])
          PROVE  /\ v.heap[L[d][i]].next = w.heap[L[d][i]].next
                 /\ v.heap[L[d][i]].prev = w.heap[L[d][i]].prev
      <3>1. L[d][i] \in Node \ {n} /\ L[d][i] # Null
        BY <2>2, <1>1
      <3>2. L[d][i] # nx
        <4>1. p = k \/ p + 1 \in 1 .. k
          BY <1>2
        <4> QED  BY <4>1, <3>1, <2>2, <1>2
      <3>3. w.head[c] # n => L[d][i] # pv
        <4>1. p # 1 => p - 1 \in 1 .. k
          BY <1>2
        <4> QED  BY <4>1, <2>2, <1>3
      <3> QED  BY <3>1, <3>2, <3>3, <1>4
    <2> QED  BY <2>1, <2>3
  <1>9. \A x \in lv \ {n} : v.heap[x].edge = w.heap[x].edge /\ v.heap[x].weight = w.heap[x].weight
    BY <1>4
  <1>10. Hung(v, lv \ {n}, Null, [L EXCEPT ![c] = Without(L[c], p)])
    <2>1. /\ Chained(v, lv \ {n}, c, Without(L[c], p)) /\ EdgesKept(w, v, lv \ {n})
          /\ lv \ {n} \subseteq lv \ {n} /\ lv \ {n} \subseteq lv /\ Null \in {n, Null}
          /\ n \notin lv \ {n}
      BY <1>2, <1>7, <1>9 DEF EdgesKept
    <2> HIDE DEF k, l
    <2> QED  BY <2>1, <1>8, HungWithout
  <1> QED  BY <1>4, <1>9, <1>10 DEF v

-----------------------------------------------------------------------------
(* Counters and cells.                                                     *)

(* min and max return an index of the array, of a least or largest counter. *)
LEMMA MinMax ==
  ASSUME NEW cnt \in [0 .. 3 -> Nat]
  PROVE  /\ MinIndex(cnt) \in 0 .. 3 /\ MaxIndex(cnt) \in 0 .. 3
         /\ \A y \in 0 .. 3 : cnt[MinIndex(cnt)] <= cnt[y] /\ cnt[y] <= cnt[MaxIndex(cnt)]
  <1> DEFINE low(x) == \A y \in DOMAIN cnt : cnt[x] < cnt[y] \/ (cnt[x] = cnt[y] /\ x <= y)
             high(x) == \A y \in DOMAIN cnt : cnt[x] > cnt[y] \/ (cnt[x] = cnt[y] /\ x <= y)
  <1>1. /\ DOMAIN cnt = 0 .. 3 /\ 0 .. 3 = {0, 1, 2, 3}
        /\ cnt[0] \in Nat /\ cnt[1] \in Nat /\ cnt[2] \in Nat /\ cnt[3] \in Nat
    OBVIOUS
  <1>2. \E x \in 0 .. 3 : low(x)
    <2>1. PICK a \in {0, 1} : \A y \in {0, 1} : cnt[a] < cnt[y] \/ (cnt[a] = cnt[y] /\ a <= y)
      BY <1>1
    <2>2. PICK b \in {2, 3} : \A y \in {2, 3} : cnt[b] < cnt[y] \/ (cnt[b] = cnt[y] /\ b <= y)
      BY <1>1
    <2>3. CASE cnt[a] <= cnt[b]
      <3>1. low(a)
        BY <1>1, <2>1, <2>2, <2>3
      <3> QED  BY <3>1, <1>1
    <2>4. CASE cnt[b] < cnt[a]
      <3>1. low(b)
        BY <1>1, <2>1, <2>2, <2>4
      <3> QED  BY <3>1, <1>1
    <2> QED  BY <1>1, <2>1, <2>2, <2>3, <2>4
  <1>3. \E x \in 0 .. 3 : high(x)
    <2>1. PICK a \in {0, 1} : \A y \in {0, 1} : cnt[a] > cnt[y] \/ (cnt[a] = cnt[y] /\ a <= y)
      BY <1>1
    <2>2. PICK b \in {2, 3} : \A y \in {2, 3} : cnt[b] > cnt[y] \/ (cnt[b] = cnt[y] /\ b <= y)
      BY <1>1
    <2>3. CASE cnt[a] >= cnt[b]
      <3>1. high(a)
        BY <1>1, <2>1, <2>2, <2>3
      <3> QED  BY <3>1, <1>1
    <2>4. CASE cnt[b] > cnt[a]
      <3>1. high(b)
        BY <1>1, <2>1, <2>2, <2>4
      <3> QED  BY <3>1, <1>1
    <2> QED  BY <1>1, <2>1, <2>2, <2>3, <2>4
  <1>4. /\ MinIndex(cnt) = CHOOSE x \in DOMAIN cnt : low(x)
        /\ MaxIndex(cnt) = CHOOSE x \in DOMAIN cnt : high(x)
    BY DEF MinIndex, MaxIndex
  <1>5. /\ MinIndex(cnt) \in 0 .. 3 /\ low(MinIndex(cnt))
        /\ MaxIndex(cnt) \in 0 .. 3 /\ high(MaxIndex(cnt))
    <2> HIDE DEF low, high
    <2> QED  BY <1>1, <1>2, <1>3, <1>4
  <1>6. ASSUME NEW y \in 0 .. 3
        PROVE  cnt[MinIndex(cnt)] <= cnt[y] /\ cnt[y] <= cnt[MaxIndex(cnt)]
    <2>1. PICK a \in 0 .. 3 : a = MinIndex(cnt)
      BY <1>5
    <2>2. PICK b \in 0 .. 3 : b = MaxIndex(cnt)
      BY <1>5
    <2>3. low(a) /\ high(b) /\ cnt[a] \in Nat /\ cnt[b] \in Nat /\ cnt[y] \in Nat
      BY <1>5, <2>1, <2>2
    <2> QED  BY <2>1, <2>2, <2>3, <1>1
  <1> QED  BY <1>5, <1>6

(* The candidates of an edge are cells of the matrix.                      *)
LEMMA CandidateCells ==
  ASSUME NEW e \in Edge
  PROVE  /\ \A x \in 0 .. 3 : Candidate(e)[x] \in Cells /\ Candidate(e)[x] \in CellsOf(e)
         /\ CellsOf(e) \subseteq Cells
  <1>1. e[1] \in Vertex /\ e[2] \in Vertex
    BY DEF Vertex
  <1>2. /\ RowOf[e[1]] \in [1 .. 2 -> 1 .. Len2]
        /\ ColOf[e[2]] \in [1 .. 2 -> 1 .. Len2]
    BY <1>1, WindAssumption
  <1>3. \A x \in 0 .. 3 : Candidate(e)[x] \in Cells
    <2> SUFFICES ASSUME NEW x \in 0 .. 3
                 PROVE  <<RowOf[e[1]][x \div 2 + 1], ColOf[e[2]][(x % 2) + 1]>> \in Cells
      BY DEF Candidate
    <2>1. x \div 2 + 1 \in 1 .. 2 /\ (x % 2) + 1 \in 1 .. 2
      OBVIOUS
    <2>2. RowOf[e[1]][x \div 2 + 1] \in 1 .. Len2 /\ ColOf[e[2]][(x % 2) + 1] \in 1 .. Len2
      BY <2>1, <1>2
    <2> QED  BY <2>2 DEF Cells
  <1> QED  BY <1>3 DEF CellsOf

(* When the longest list gives its tail away, it is not the one that was   *)
(* just hung to, and has more than one node.                               *)
LEMMA KickCells ==
  ASSUME NEW cnt \in [0 .. 3 -> Nat], NEW num \in 0 .. MaxKicks, KickDue(cnt, num)
  PROVE  /\ cnt[MinIndex(cnt)] < cnt[MaxIndex(cnt)] /\ cnt[MaxIndex(cnt)] >= 2
         /\ num + 1 \in 0 .. MaxKicks
  <1>1. /\ KickAt \in Nat /\ KickAt # 0 /\ MaxKicks \in Nat
    BY WindAssumption
  <1>2. cnt[MinIndex(cnt)] \in Nat /\ cnt[MaxIndex(cnt)] \in Nat
    BY MinMax
  <1> QED  BY <1>1, <1>2 DEF KickDue

(* One placement: the lists are exact again, the node that was in hand is  *)
(* on one of its cells, and the tail that was taken off is in hand.        *)
LEMMA Placed ==
  ASSUME NEW w \in Winds, NEW lv \in SUBSET Node, NEW n \in lv, NEW L, Hung(w, lv, n, L),
         w.heap[n].edge \in Edge, NEW num \in 0 .. MaxKicks, broken = FALSE, Place(w, n, num)
  PROVE  /\ wind' \in Winds /\ SameLoad(wind', w) /\ broken' \in BOOLEAN
         /\ \A c \in Cells : wind'.counter[c] <= Cardinality(Node)
         /\ \/ hand' = NoHand
            \/ /\ hand'.node \in lv /\ hand'.num \in 0 .. MaxKicks
               /\ hand' = [node |-> hand'.node, num |-> hand'.num]
         /\ ~ broken' => \E M : Hung(wind', lv, hand'.node, M)
  <1> DEFINE e == w.heap[n].edge
             cnt == [x \in 0 .. 3 |-> w.counter[Candidate(e)[x]]]
             a == Candidate(e)[MinIndex(cnt)]
             b == Candidate(e)[MaxIndex(cnt)]
             w1 == Pushed(w, a, n)
             t == w1.tail[b]
             M1 == [L EXCEPT ![a] = <<n>> \o L[a]]
  <1>1. /\ wind' = IF KickDue(cnt, num) THEN Popped(w1, b) ELSE w1
        /\ hand' = IF KickDue(cnt, num) THEN [node |-> t, num |-> num + 1] ELSE NoHand
        /\ broken' = (KickDue(cnt, num) /\ SelfLinked(w1, b, t))
    BY DEF Place
  <1>2. cnt \in [0 .. 3 -> Nat]
    BY CandidateCells, WindsFields
  <1> HIDE DEF cnt
  <1>3. /\ a \in Cells /\ b \in Cells /\ a \in CellsOf(e)
        /\ cnt[MinIndex(cnt)] = w.counter[a] /\ cnt[MaxIndex(cnt)] = w.counter[b]
    <2>1. MinIndex(cnt) \in 0 .. 3 /\ MaxIndex(cnt) \in 0 .. 3
      BY <1>2, MinMax
    <2> HIDE DEF e
    <2>2. e \in Edge
      BY DEF e
    <2> QED  BY <2>1, <2>2, CandidateCells DEF cnt
  <1> HIDE DEF a, b
  <1>4. w1 \in Winds /\ SameLoad(w1, w) /\ Hung(w1, lv, Null, M1)
    BY <1>3, HungPushed
  <1> HIDE DEF w1, M1
  <1>5. \A d \in Cells : /\ w1.counter[d] = Len(M1[d]) /\ Len(M1[d]) \in Nat
                         /\ Len(M1[d]) <= Cardinality(Node) /\ Cardinality(Node) \in Nat
    <2> SUFFICES ASSUME NEW d \in Cells
                 PROVE  /\ w1.counter[d] = Len(M1[d]) /\ Len(M1[d]) \in Nat
                        /\ Len(M1[d]) <= Cardinality(Node) /\ Cardinality(Node) \in Nat
      OBVIOUS
    <2>1. Chained(w1, lv, d, M1[d]) /\ M1[d] \in Seq(Node) /\ Distinct(M1[d])
      BY <1>4, AllListFacts
    <2>2. w1.counter[d] = Len(M1[d])
      BY <2>1 DEF Chained
    <2> QED  BY <2>1, <2>2, ListLength
  <1>6. CASE ~ KickDue(cnt, num)
    <2>1. wind' = w1 /\ hand' = NoHand /\ broken' = FALSE /\ hand'.node = Null
      BY <1>1, <1>6 DEF NoHand
    <2>2. Hung(wind', lv, hand'.node, M1)
      BY <2>1, <1>4
    <2> QED  BY <2>1, <2>2, <1>4, <1>5
  <1>7. CASE KickDue(cnt, num)
    <2>1. w.counter[a] < w.counter[b] /\ w.counter[b] >= 2 /\ num + 1 \in 0 .. MaxKicks
      BY <1>2, <1>3, <1>7, KickCells
    <2>2. a # b /\ w1.counter[b] = w.counter[b]
      <3>1. w.counter[a] \in Nat /\ w.counter[b] \in Nat
        BY <1>3, WindsFields
      <3>2. a # b
        BY <2>1, <3>1
      <3>3. w1.counter = [w.counter EXCEPT ![a] = w.counter[a] + 1]
        BY DEF w1, Pushed, Winds
      <3> QED  BY <3>2, <3>3, <1>3 DEF Winds
    <2>3. Len(M1[b]) >= 2 /\ w1.counter[b] > 0
      BY <2>1, <2>2, <1>3, <1>5
    <2>4. t \in lv
      <3>1. Chained(w1, lv, b, M1[b])
        BY <1>3, <1>4, AllListFacts
      <3>2. M1[b][Len(M1[b])] \in lv
        <4>1. \A i \in 1 .. Len(M1[b]) : M1[b][i] \in lv
          BY <1>3, <1>4, AllListFacts
        <4>2. Len(M1[b]) \in 1 .. Len(M1[b])
          BY <2>3, <1>3, <1>5
        <4> QED  BY <4>1, <4>2
      <3> QED  BY <2>3, <3>1, <3>2 DEF Chained
    <2>5. /\ Popped(w1, b) \in Winds /\ SameLoad(Popped(w1, b), w1)
          /\ Popped(w1, b).counter = [w1.counter EXCEPT ![b] = w1.counter[b] - 1]
      BY <2>3, <2>4, <1>3, <1>4, PoppedIs DEF t
    <2>6. /\ wind' = Popped(w1, b) /\ hand' = [node |-> t, num |-> num + 1] /\ hand'.node = t
          /\ broken' <=> SelfLinked(w1, b, t)
      BY <1>1, <1>7
    <2>7. broken' \in BOOLEAN
      BY <1>1
    <2>8. SameLoad(wind', w)
      BY <2>5, <2>6, <1>4 DEF SameLoad
    <2>9. \A c \in Cells : wind'.counter[c] <= Cardinality(Node)
      <3>1. w1.counter \in [Cells -> Nat]
        BY <1>4 DEF Winds
      <3> QED  BY <2>5, <2>6, <3>1, <1>3, <1>5
    <2>10. ASSUME ~ broken'
           PROVE  \E M : Hung(wind', lv, hand'.node, M)
      <3>1. ~ SelfLinked(w1, b, t)
        BY <2>6, <2>10
      <3>2. Hung(Popped(w1, b), lv, t, [M1 EXCEPT ![b] = Without(M1[b], Len(M1[b]))])
        BY <2>3, <3>1, <1>3, <1>4, HungPopped DEF t
      <3> QED  BY <2>6, <3>2
    <2>11. hand'.num = num + 1
      BY <2>6
    <2> HIDE DEF t
    <2> QED  BY <2>1, <2>4, <2>5, <2>6, <2>7, <2>8, <2>9, <2>10, <2>11
  <1> QED  BY <1>6, <1>7

-----------------------------------------------------------------------------
(* Searching.                                                              *)

(* The loops over pointer_chand meet the nodes of the list.                *)
LEMMA WalkList ==
  ASSUME live \in SUBSET Node, NEW h, NEW L, Hung(wind, live, h, L), NEW c \in Cells
  PROVE  Walk(wind, c) = L[c]
  <1>1. Chained(wind, live, c, L[c]) /\ Distinct(L[c])
    BY ListFacts
  <1> QED  BY <1>1, WalkIs

(* The search goes through all cells of the edge and no other.             *)
LEMMA SearchedCells ==
  ASSUME NEW w \in Winds, NEW e \in Edge
  PROVE  /\ \A k \in 1 .. 5 : SearchOrder(w, e)[k] \in CellsOf(e)
         /\ \A c \in CellsOf(e) : \E k \in 1 .. 5 : SearchOrder(w, e)[k] = c
  <1> DEFINE cnt == [x \in 0 .. 3 |-> w.counter[Candidate(e)[x]]]
             mn == MinIndex(cnt)
             all == <<mn, 0, 1, 2, 3>>
  <1>1. cnt \in [0 .. 3 -> Nat]
    BY CandidateCells, WindsFields
  <1>2. mn \in 0 .. 3
    BY <1>1, MinMax
  <1>3. \A k \in 1 .. 5 : SearchOrder(w, e)[k] = Candidate(e)[all[k]]
    BY DEF SearchOrder
  <1> HIDE DEF mn
  <1>4. /\ \A k \in 1 .. 5 : all[k] \in 0 .. 3
        /\ \A x \in 0 .. 3 : x + 2 \in 1 .. 5 /\ all[x + 2] = x
    BY <1>2
  <1> HIDE DEF all
  <1> QED  BY <1>3, <1>4 DEF CellsOf

(* An edge is found exactly when a node in use has it, and then at a node  *)
(* that has it.                                                            *)
LEMMA Queried ==
  ASSUME wind \in Winds, live \in SUBSET Node, NEW L, Hung(wind, live, Null, L), NEW e \in Edge
  PROVE  /\ Found(wind, e) <=> \E n \in live : wind.heap[n].edge = e
         /\ Found(wind, e) =>
              /\ FoundCell(wind, e) \in Cells
              /\ FoundNode(wind, e) \in live /\ wind.heap[FoundNode(wind, e)].edge = e
              /\ \E p \in 1 .. Len(L[FoundCell(wind, e)]) :
                    FoundNode(wind, e) = L[FoundCell(wind, e)][p]
  <1> DEFINE S(k) == SearchOrder(wind, e)[k]
             H(k) == Hits(wind, S(k), e)
  <1>1. \A k \in 1 .. 5 : S(k) \in CellsOf(e) /\ S(k) \in Cells
    BY SearchedCells, CandidateCells
  <1>2. \A c \in CellsOf(e) : \E k \in 1 .. 5 : S(k) = c
    BY SearchedCells
  <1>3. \A d \in Cells : /\ L[d] \in Seq(live) /\ Len(L[d]) \in Nat
                         /\ \A i \in 1 .. Len(L[d]) :
                               L[d][i] \in live /\ d \in CellsOf(wind.heap[L[d][i]].edge)
    BY AllListFacts
  <1> HIDE DEF S
  <1>4. \A k \in 1 .. 5 : \A n : n \in H(k) <=>
           (n \in live /\ wind.heap[n].edge = e /\ \E i \in 1 .. Len(L[S(k)]) : n = L[S(k)][i])
    <2> SUFFICES ASSUME NEW k \in 1 .. 5
                 PROVE  \A n : n \in H(k) <=>
                          (n \in live /\ wind.heap[n].edge = e
                           /\ \E i \in 1 .. Len(L[S(k)]) : n = L[S(k)][i])
      OBVIOUS
    <2>1. Walk(wind, S(k)) = L[S(k)]
      BY <1>1, WalkList
    <2>2. DOMAIN L[S(k)] = 1 .. Len(L[S(k)])
      BY <1>1, <1>3, LenProperties
    <2> QED  BY <2>1, <2>2 DEF Hits, Range
  <1>5. ASSUME NEW n \in live, wind.heap[n].edge = e
        PROVE  \E k \in 1 .. 5 : H(k) # {}
    <2>1. n # Null
      BY WindAssumption
    <2>2. PICK d \in Cells : \E i \in 1 .. Len(L[d]) : L[d][i] = n
      BY <2>1 DEF Hung
    <2>3. d \in CellsOf(e)
      BY <2>2, <1>3, <1>5
    <2>4. PICK k \in 1 .. 5 : S(k) = d
      BY <2>3, <1>2
    <2>5. n \in H(k)
      <3> HIDE DEF H
      <3> QED  BY <2>2, <2>4, <1>4, <1>5
    <2> QED  BY <2>5
  <1> HIDE DEF H
  <1>6. Found(wind, e) <=> \E k \in 1 .. 5 : H(k) # {}
    BY DEF Found, H, S
  <1>7. Found(wind, e) <=> \E n \in live : wind.heap[n].edge = e
    BY <1>4, <1>5, <1>6
  <1>8. ASSUME Found(wind, e)
        PROVE  FoundAt(wind, e) \in 1 .. 5 /\ H(FoundAt(wind, e)) # {}
    <2> DEFINE T == {k \in 1 .. 5 : H(k) # {}}
               first(k) == H(k) # {} /\ \A j \in 1 .. k - 1 : H(j) = {}
    <2>1. T \in SUBSET Nat /\ T # {}
      BY <1>6, <1>8
    <2>2. PICK m \in T : \A k \in T : m <= k
      BY <2>1, LeastNat
    <2>3. m \in 1 .. 5 /\ first(m)
      BY <2>2
    <2>4. FoundAt(wind, e) = CHOOSE k \in 1 .. 5 : first(k)
      BY DEF FoundAt, H, S
    <2> HIDE DEF first
    <2>5. FoundAt(wind, e) \in 1 .. 5 /\ first(FoundAt(wind, e))
      BY <2>3, <2>4
    <2> QED  BY <2>5 DEF first
  <1>9. ASSUME Found(wind, e)
        PROVE  FoundCell(wind, e) \in Cells /\ FoundNode(wind, e) \in H(FoundAt(wind, e))
    <2>1. FoundCell(wind, e) = S(FoundAt(wind, e)) /\ FoundAt(wind, e) \in 1 .. 5
      BY <1>8, <1>9 DEF FoundCell, S
    <2>2. PICK c \in Cells : c = FoundCell(wind, e)
      BY <2>1, <1>1
    <2>3. PICK l : l = L[c]
      OBVIOUS
    <2>4. /\ Walk(wind, c) = l /\ DOMAIN l = 1 .. Len(l) /\ Len(l) \in Nat
          /\ \A i \in 1 .. Len(l) : l[i] \in live
      BY <2>3, <1>3, WalkList, LenProperties
    <2> DEFINE has(p) == wind.heap[l[p]].edge = e
               first(p) == has(p) /\ \A q \in 1 .. p - 1 : wind.heap[l[q]].edge # e
               T == {p \in 1 .. Len(l) : has(p)}
    <2>5. T \in SUBSET Nat /\ T # {}
      <3>1. PICK n : n \in H(FoundAt(wind, e))
        BY <1>8, <1>9
      <3>2. wind.heap[n].edge = e /\ \E i \in 1 .. Len(L[c]) : n = L[c][i]
        BY <3>1, <2>1, <2>2, <1>4
      <3> QED  BY <3>2, <2>3
    <2>6. PICK m \in T : \A p \in T : m <= p
      BY <2>5, LeastNat
    <2>7. m \in 1 .. Len(l) /\ first(m)
      <3>1. m \in 1 .. Len(l) /\ has(m)
        BY <2>6
      <3>2. \A q \in 1 .. m - 1 : q \in 1 .. Len(l) /\ ~ (m <= q)
        BY <3>1, <2>4
      <3> QED  BY <3>1, <3>2, <2>6
    <2>8. FoundNode(wind, e) = l[CHOOSE p \in 1 .. Len(l) : first(p)]
      BY <2>2, <2>4 DEF FoundNode
    <2> HIDE DEF first
    <2>9. PICK p \in 1 .. Len(l) : first(p) /\ FoundNode(wind, e) = l[p]
      BY <2>7, <2>8
    <2> USE DEF first
    <2>10. FoundNode(wind, e) \in live /\ wind.heap[FoundNode(wind, e)].edge = e
      BY <2>9, <2>4
    <2>11. \E i \in 1 .. Len(L[S(FoundAt(wind, e))]) : FoundNode(wind, e) = L[S(FoundAt(wind, e))][i]
      BY <2>1, <2>2, <2>3, <2>9
    <2> QED  BY <2>1, <2>10, <2>11, <1>1, <1>4
  <1>10. ASSUME Found(wind, e)
         PROVE  /\ FoundNode(wind, e) \in live /\ wind.heap[FoundNode(wind, e)].edge = e
                /\ \E p \in 1 .. Len(L[FoundCell(wind, e)]) :
                      FoundNode(wind, e) = L[FoundCell(wind, e)][p]
    <2>1. FoundCell(wind, e) = S(FoundAt(wind, e)) /\ FoundAt(wind, e) \in 1 .. 5
      BY <1>8, <1>10 DEF FoundCell, S
    <2>2. FoundNode(wind, e) \in H(FoundAt(wind, e))
      BY <1>9, <1>10
    <2> QED  BY <2>1, <2>2, <1>4
  <1> QED  BY <1>7, <1>9, <1>10

-----------------------------------------------------------------------------
(* A node for every edge that was inserted and not deleted; only one, its  *)
(* weight the number of insertions, while that is less than Wrap, as it    *)
(* always is without weights.                                              *)
Loaded ==
  /\ \A n \in live : wind.heap[n].edge \in Edge /\ inserted[wind.heap[n].edge] > 0
  /\ \A m, n \in live :
        wind.heap[m].edge \in Countable /\ wind.heap[m].edge = wind.heap[n].edge => m = n
  /\ \A e \in Edge : inserted[e] > 0 => \E n \in live : wind.heap[n].edge = e
  /\ weighted => \A n \in live : wind.heap[n].edge \in Countable =>
                    wind.heap[n].weight = inserted[wind.heap[n].edge]
  /\ ~ weighted => \A e \in Edge : inserted[e] <= 1

(* No more nodes on a list than there are; weights wrap.                   *)
Bounded ==
  /\ \A c \in Cells : wind.counter[c] <= Cardinality(Node)
  /\ \A n \in Node : wind.heap[n].weight \in 0 .. Wrap - 1

(* The node in hand is in use.                                             *)
Held == \/ hand = NoHand
        \/ /\ hand.node \in live /\ hand.num \in 0 .. MaxKicks
           /\ hand = [node |-> hand.node, num |-> hand.num]

(* The inductive invariant.                                                *)
IInv ==
  /\ weighted \in BOOLEAN /\ broken \in BOOLEAN
  /\ wind \in Winds /\ Bounded
  /\ live \in SUBSET Node
  /\ Held
  /\ inserted \in [Edge -> 0 .. MaxInserts]
  /\ Loaded
  /\ ~ broken => \E L : Hung(wind, live, hand.node, L)

(* A count wraps to 0 after the last value.                                *)
LEMMA WrapAround ==
  ASSUME NEW x \in 0 .. Wrap - 1
  PROVE  (x + 1) % Wrap = IF x = Wrap - 1 THEN 0 ELSE x + 1
  <1>1. Wrap \in Nat /\ Wrap > 1 /\ x + 1 \in 0 .. Wrap /\ (x + 1 = Wrap <=> x = Wrap - 1)
    BY WindAssumption
  <1> QED  BY <1>1

(* Counting changes the weight of one node and no list.                    *)
LEMMA CountedIs ==
  ASSUME wind \in Winds, Bounded, live \in SUBSET Node, NEW L, Hung(wind, live, Null, L),
         NEW e \in Edge
  PROVE  LET v == Counted(wind, e)  n == FoundNode(wind, e)
         IN  /\ v \in Winds /\ Hung(v, live, Null, L) /\ v.counter = wind.counter
             /\ \A m \in Node :
                  /\ v.heap[m].edge = wind.heap[m].edge
                  /\ v.heap[m].weight = IF ~ (Found(wind, e) /\ m = n) THEN wind.heap[m].weight
                                        ELSE IF wind.heap[n].weight = Wrap - 1 THEN 0
                                        ELSE wind.heap[n].weight + 1
                  /\ v.heap[m].weight \in 0 .. Wrap - 1
  <1> DEFINE v == Counted(wind, e)
             n == FoundNode(wind, e)
             more == (wind.heap[n].weight + 1) % Wrap
  <1>1. Found(wind, e) => n \in Node
    BY Queried
  <1>2. CASE ~ Found(wind, e)
    <2>1. v = wind
      BY <1>2 DEF Counted
    <2> QED  BY <2>1, <1>2 DEF Bounded
  <1>3. CASE Found(wind, e)
    <2>1. wind.heap[n].weight \in 0 .. Wrap - 1 /\ n \in Node
      BY <1>1, <1>3 DEF Bounded
    <2>2. v = [wind EXCEPT !.heap[n].weight = more]
      BY <1>3 DEF Counted
    <2> HIDE DEF n, v
    <2>3. more = IF wind.heap[n].weight = Wrap - 1 THEN 0 ELSE wind.heap[n].weight + 1
      BY <2>1, WrapAround
    <2> HIDE DEF more
    <2>4. more \in 0 .. Wrap - 1 /\ more \in Nat
      BY <2>1, <2>3, WindAssumption
    <2>5. /\ v.heap = [wind.heap EXCEPT ![n].weight = more]
          /\ v.head = wind.head /\ v.tail = wind.tail /\ v.counter = wind.counter
          /\ v \in [heap : {v.heap}, head : {v.head}, tail : {v.tail}, counter : {v.counter}]
      BY <2>2 DEF Winds
    <2>6. /\ wind.heap \in [Node -> [edge : Edge \cup {NoEdge}, next : Node \cup {Null},
                                     prev : Node \cup {Null}, weight : Nat]]
          /\ wind.head \in [Cells -> Node \cup {Null}] /\ wind.tail \in [Cells -> Node \cup {Null}]
          /\ wind.counter \in [Cells -> Nat]
      BY DEF Winds
    <2>7. /\ v.heap \in [Node -> [edge : Edge \cup {NoEdge}, next : Node \cup {Null},
                                  prev : Node \cup {Null}, weight : Nat]]
          /\ \A m \in Node :
               /\ v.heap[m].edge = wind.heap[m].edge
               /\ v.heap[m].next = wind.heap[m].next
               /\ v.heap[m].prev = wind.heap[m].prev
               /\ v.heap[m].weight = IF m = n THEN more ELSE wind.heap[m].weight
      BY <2>1, <2>4, <2>5, <2>6
    <2>8. v \in Winds
      BY <2>5, <2>6, <2>7 DEF Winds
    <2>9. Hung(v, live, Null, L)
      <3>1. \A d \in Cells : /\ Chained(wind, live, d, L[d]) /\ L[d] \in Seq(live)
                             /\ Len(L[d]) \in Nat
                             /\ \A i \in 1 .. Len(L[d]) :
                                   /\ L[d][i] \in Node /\ L[d][i] # Null
                                   /\ d \in CellsOf(wind.heap[L[d][i]].edge)
        BY AllListFacts
      <3>2. ASSUME NEW d \in Cells
            PROVE  Chained(v, live, d, L[d])
        <4>1. \A i \in 2 .. Len(L[d]) : v.heap[L[d][i]].prev = wind.heap[L[d][i]].prev
          BY <3>1, <2>7
        <4>2. \A i \in 1 .. Len(L[d]) : v.heap[L[d][i]].next = wind.heap[L[d][i]].next
          BY <3>1, <2>7
        <4> QED  BY <3>1, <4>1, <4>2, <2>5, ChainedSame
      <3>3. \A d \in Cells : \A i \in 1 .. Len(L[d]) :
               L[d][i] # Null /\ d \in CellsOf(v.heap[L[d][i]].edge)
        BY <3>1, <2>7
      <3> QED  BY <3>2, <3>3 DEF Hung
    <2>10. \A m \in Node : v.heap[m].weight \in 0 .. Wrap - 1
      BY <2>4, <2>7 DEF Bounded
    <2> QED  BY <1>3, <2>3, <2>5, <2>7, <2>8, <2>9, <2>10 DEF v, n
  <1> QED  BY <1>2, <1>3

(* In the empty matrix all lists are empty.                                *)
LEMMA InitInv ==
  Init => IInv
  <1> SUFFICES ASSUME Init
               PROVE  IInv
    OBVIOUS
  <1>1. /\ EmptyNode \in [edge : Edge \cup {NoEdge}, next : Node \cup {Null},
                          prev : Node \cup {Null}, weight : Nat]
        /\ EmptyNode.weight = 1 /\ 1 \in 0 .. Wrap - 1
    BY WindAssumption DEF EmptyNode
  <1>2. wind \in Winds
    <2>1. /\ [n \in Node |-> EmptyNode]
               \in [Node -> [edge : Edge \cup {NoEdge}, next : Node \cup {Null},
                             prev : Node \cup {Null}, weight : Nat]]
          /\ [c \in Cells |-> Null] \in [Cells -> Node \cup {Null}]
          /\ [c \in Cells |-> 0] \in [Cells -> Nat]
      BY <1>1
    <2> QED  BY <2>1 DEF Init, Winds
  <1>3. /\ \A n \in Node : wind.heap[n] = EmptyNode
        /\ \A c \in Cells : wind.head[c] = Null /\ wind.counter[c] = 0
    BY DEF Init
  <1>4. Bounded
    <2>1. Cardinality(Node) \in Nat
      BY WindAssumption, FS_CardinalityType
    <2> QED  BY <2>1, <1>1, <1>3 DEF Bounded
  <1>5. Loaded
    BY DEF Init, Loaded
  <1>6. inserted \in [Edge -> 0 .. MaxInserts]
    BY WindAssumption DEF Init
  <1>7. Hung(wind, live, hand.node, [c \in Cells |-> <<>>])
    <2> DEFINE M == [c \in Cells |-> <<>>]
    <2>1. \A c \in Cells : M[c] = <<>> /\ Len(M[c]) = 0 /\ M[c] \in Seq(Node) /\ M[c] \in Seq(live)
      OBVIOUS
    <2>2. M \in [Cells -> Seq(Node)]
      BY <2>1
    <2> HIDE DEF M
    <2>3. \A c \in Cells : Chained(wind, live, c, M[c])
      BY <2>1, <1>3 DEF Chained
    <2>4. Apart(M)
      BY <2>1 DEF Apart
    <2>5. live = {}
      BY DEF Init
    <2>6. Hung(wind, live, hand.node, M)
      BY <2>1, <2>2, <2>3, <2>4, <2>5 DEF Hung
    <2> QED  BY <2>6 DEF M
  <1>8. Held
    BY DEF Init, Held
  <1> QED  BY <1>2, <1>4, <1>5, <1>6, <1>7, <1>8 DEF Init, IInv

(* A node of the caller's, with the edge, is hung.  If the search found a  *)
(* node of the edge, that node's weight has wrapped, and the edge is no    *)
(* longer one whose insertions count.                                      *)
LEMMA StepNew ==
  ASSUME IInv, NEW e \in Edge, NEW n \in Node, InsertNew(e, n)
  PROVE  IInv'
  <1> DEFINE node == [EmptyNode EXCEPT !.edge = e]
             u == Counted(wind, e)
             w == [u EXCEPT !.heap[n] = node]
             o == FoundNode(wind, e)
  <1>1. /\ wind \in Winds /\ Bounded /\ live \in SUBSET Node /\ Loaded
        /\ inserted \in [Edge -> 0 .. MaxInserts] /\ weighted \in BOOLEAN
        /\ hand.node = Null /\ broken = FALSE /\ n \notin live
        /\ Absent(wind, e) /\ inserted[e] < MaxInserts /\ \E L : Hung(wind, live, hand.node, L)
    BY DEF IInv, InsertNew, Idle, NoHand
  <1>2. PICK L : Hung(wind, live, Null, L)
    BY <1>1
  <1>3. /\ Place(w, n, 0) /\ live' = live \cup {n} /\ weighted' = weighted
        /\ inserted' = [inserted EXCEPT ![e] = inserted[e] + 1]
    BY <1>1 DEF InsertNew
  <1>4. /\ node \in [edge : Edge \cup {NoEdge}, next : Node \cup {Null},
                     prev : Node \cup {Null}, weight : Nat]
        /\ node.edge = e /\ node.weight = 1 /\ 1 \in 0 .. Wrap - 1
        /\ 0 \in 0 .. MaxKicks
    BY WindAssumption DEF EmptyNode
  <1>5. /\ u \in Winds /\ Hung(u, live, Null, L) /\ u.counter = wind.counter
        /\ \A m \in Node :
             /\ u.heap[m].edge = wind.heap[m].edge
             /\ u.heap[m].weight = IF ~ (Found(wind, e) /\ m = o) THEN wind.heap[m].weight
                                   ELSE IF wind.heap[o].weight = Wrap - 1 THEN 0
                                   ELSE wind.heap[o].weight + 1
             /\ u.heap[m].weight \in 0 .. Wrap - 1
    BY <1>1, <1>2, CountedIs
  <1>6. /\ Found(wind, e) <=> \E m \in live : wind.heap[m].edge = e
        /\ Found(wind, e) => /\ o \in live /\ o \in Node /\ wind.heap[o].edge = e
                             /\ weighted /\ u.heap[o].weight = 0
    BY <1>1, <1>2, Queried DEF Absent
  <1> HIDE DEF node, u, o
  <1>7. /\ w \in Winds /\ w.heap = [u.heap EXCEPT ![n] = node]
        /\ w.head = u.head /\ w.tail = u.tail /\ w.counter = u.counter
    BY <1>4, <1>5 DEF Winds
  <1> HIDE DEF w
  <1>8. w.heap[n] = node /\ \A m \in Node : m # n => w.heap[m] = u.heap[m]
    BY <1>5, <1>7 DEF Winds
  <1>9. Hung(w, live', n, L)
    <2>1. \A d \in Cells : /\ Chained(u, live, d, L[d]) /\ L[d] \in Seq(live)
                           /\ Len(L[d]) \in Nat
                           /\ \A i \in 1 .. Len(L[d]) :
                                 /\ L[d][i] \in live /\ L[d][i] \in Node
                                 /\ d \in CellsOf(u.heap[L[d][i]].edge)
      BY <1>1, <1>5, AllListFacts
    <2>2. \A d \in Cells : \A i \in 1 .. Len(L[d]) :
             L[d][i] # n /\ w.heap[L[d][i]] = u.heap[L[d][i]]
      BY <2>1, <1>1, <1>8
    <2>3. ASSUME NEW d \in Cells
          PROVE  Chained(w, live', d, L[d])
      <3>1. L[d] \in Seq(live')
        BY <2>1, <1>3, SeqMonotonic
      <3>2. \A i \in 2 .. Len(L[d]) : w.heap[L[d][i]].prev = u.heap[L[d][i]].prev
        BY <2>1, <2>2
      <3>3. \A i \in 1 .. Len(L[d]) : w.heap[L[d][i]].next = u.heap[L[d][i]].next
        BY <2>2
      <3> QED  BY <2>1, <3>1, <3>2, <3>3, <1>7, ChainedSame
    <2>4. \A d \in Cells : \A i \in 1 .. Len(L[d]) :
             L[d][i] # n /\ d \in CellsOf(w.heap[L[d][i]].edge)
      BY <2>1, <2>2
    <2>5. \A m \in live' : m = n \/ \E c \in Cells : \E i \in 1 .. Len(L[c]) : L[c][i] = m
      BY <1>1, <1>3, <1>5, WindAssumption DEF Hung
    <2> QED  BY <1>5, <2>3, <2>4, <2>5 DEF Hung
  <1>10. /\ wind' \in Winds /\ SameLoad(wind', w) /\ broken' \in BOOLEAN
         /\ \A c \in Cells : wind'.counter[c] <= Cardinality(Node)
         /\ \/ hand' = NoHand
            \/ /\ hand'.node \in live' /\ hand'.num \in 0 .. MaxKicks
               /\ hand' = [node |-> hand'.node, num |-> hand'.num]
         /\ ~ broken' => \E M : Hung(wind', live', hand'.node, M)
    <2>1. /\ live' \in SUBSET Node /\ n \in live' /\ w.heap[n].edge \in Edge
          /\ 0 \in 0 .. MaxKicks /\ broken = FALSE
      BY <1>1, <1>3, <1>4, <1>8
    <2>2. PICK S \in SUBSET Node : S = live'
      BY <2>1
    <2> QED  BY <2>1, <2>2, <1>3, <1>7, <1>9, Placed
  <1>11. \A m \in Node : /\ wind'.heap[m].edge = IF m = n THEN e ELSE wind.heap[m].edge
                         /\ wind'.heap[m].weight = IF m = n THEN 1 ELSE u.heap[m].weight
    BY <1>4, <1>5, <1>8, <1>10 DEF SameLoad
  <1>12. Bounded'
    BY <1>4, <1>5, <1>10, <1>11 DEF Bounded
  <1>13. /\ inserted' \in [Edge -> 0 .. MaxInserts] /\ inserted[e] \in Nat
         /\ \A f \in Edge : inserted'[f] = IF f = e THEN inserted[e] + 1 ELSE inserted[f]
    BY <1>1, <1>3, WindAssumption
  <1>14. Found(wind, e) => e \notin Countable'
    <2> SUFFICES ASSUME Found(wind, e)
                 PROVE  ~ (inserted[e] + 1 < Wrap)
      BY <1>13 DEF Countable
    <2>1. Wrap \in Nat /\ Wrap > 1 /\ wind.heap[o].weight \in 0 .. Wrap - 1
      BY <1>1, <1>6, WindAssumption DEF Bounded
    <2>2. wind.heap[o].weight = Wrap - 1
      BY <2>1, <1>5, <1>6
    <2>3. inserted[e] < Wrap => inserted[e] = Wrap - 1
      BY <2>2, <1>1, <1>6 DEF Loaded, Countable
    <2> QED  BY <2>1, <2>3, <1>13
  <1>15. \A f \in Edge : f # e => (f \in Countable' <=> f \in Countable)
    BY <1>13 DEF Countable
  <1>16. Loaded'
    <2>1. \A m \in live' : wind'.heap[m].edge \in Edge /\ inserted'[wind'.heap[m].edge] > 0
      BY <1>1, <1>3, <1>11, <1>13 DEF Loaded
    <2>2. \A l, m \in live' :
             wind'.heap[l].edge \in Countable' /\ wind'.heap[l].edge = wind'.heap[m].edge => l = m
      <3> SUFFICES ASSUME NEW l \in live', NEW m \in live', wind'.heap[l].edge \in Countable',
                          wind'.heap[l].edge = wind'.heap[m].edge
                   PROVE  l = m
        OBVIOUS
      <3>1. \A x \in live' : x = n \/ (x \in live /\ x \in Node /\ x # n)
        BY <1>1, <1>3
      <3>2. CASE wind'.heap[l].edge = e
        <4>1. \A x \in live' : wind'.heap[x].edge = e => x = n
          BY <3>1, <3>2, <1>6, <1>11, <1>14
        <4> QED  BY <4>1, <3>2
      <3>3. CASE wind'.heap[l].edge # e
        <4>1. /\ l \in live /\ m \in live /\ wind.heap[l].edge = wind.heap[m].edge
              /\ wind.heap[l].edge = wind'.heap[l].edge
          BY <3>1, <3>3, <1>11
        <4>2. wind.heap[l].edge \in Edge
          BY <4>1, <1>1 DEF Loaded
        <4>3. wind.heap[l].edge \in Countable
          BY <4>1, <4>2, <3>3, <1>15
        <4> QED  BY <4>1, <4>3, <1>1 DEF Loaded
      <3> QED  BY <3>2, <3>3
    <2>3. \A f \in Edge : inserted'[f] > 0 => \E m \in live' : wind'.heap[m].edge = f
      BY <1>1, <1>3, <1>11, <1>13 DEF Loaded
    <2>4. weighted' => \A m \in live' : wind'.heap[m].edge \in Countable' =>
                          wind'.heap[m].weight = inserted'[wind'.heap[m].edge]
      <3> SUFFICES ASSUME weighted, NEW m \in live', wind'.heap[m].edge \in Countable'
                   PROVE  wind'.heap[m].weight = inserted'[wind'.heap[m].edge]
        BY <1>3
      <3>1. CASE m = n
        <4>1. wind'.heap[m].edge = e /\ wind'.heap[m].weight = 1
          BY <3>1, <1>11
        <4>2. inserted[e] = 0
          <5>1. ~ \E x \in live : wind.heap[x].edge = e
            BY <4>1, <1>6, <1>14
          <5> QED  BY <5>1, <1>1, <1>13 DEF Loaded
        <4> QED  BY <4>1, <4>2, <1>13
      <3>2. CASE m # n
        <4>1. /\ m \in live /\ m \in Node /\ wind'.heap[m].edge = wind.heap[m].edge
              /\ wind.heap[m].edge \in Edge
          BY <3>2, <1>1, <1>3, <1>11 DEF Loaded
        <4>2. wind.heap[m].edge # e
          BY <4>1, <1>6, <1>14
        <4>3. m # o \/ ~ Found(wind, e)
          BY <4>2, <1>6
        <4>4. wind'.heap[m].weight = wind.heap[m].weight
          BY <4>1, <4>3, <3>2, <1>5, <1>11
        <4>5. wind.heap[m].edge \in Countable
          BY <4>1, <4>2, <1>15
        <4> QED  BY <4>1, <4>2, <4>4, <4>5, <1>1, <1>13 DEF Loaded
      <3> QED  BY <3>1, <3>2
    <2>5. ~ weighted' => \A f \in Edge : inserted'[f] <= 1
      <3> SUFFICES ASSUME ~ weighted
                   PROVE  \A f \in Edge : inserted'[f] <= 1
        BY <1>3
      <3>1. inserted[e] = 0
        <4>1. ~ Found(wind, e)
          BY <1>6
        <4> QED  BY <4>1, <1>1, <1>6, <1>13 DEF Loaded
      <3> QED  BY <3>1, <1>1, <1>13 DEF Loaded
    <2> QED  BY <2>1, <2>2, <2>3, <2>4, <2>5 DEF Loaded
  <1>17. Held' /\ live' \in SUBSET Node
    BY <1>1, <1>3, <1>10 DEF Held
  <1> QED  BY <1>1, <1>3, <1>10, <1>12, <1>13, <1>16, <1>17 DEF IInv

(* The next placement.                                                     *)
LEMMA StepMoved ==
  ASSUME IInv, InsertMoved
  PROVE  IInv'
  <1>1. /\ wind \in Winds /\ Bounded /\ live \in SUBSET Node /\ Loaded
        /\ inserted \in [Edge -> 0 .. MaxInserts] /\ weighted \in BOOLEAN
        /\ broken = FALSE /\ hand.node \in live /\ hand.num \in 0 .. MaxKicks
        /\ Place(wind, hand.node, hand.num) /\ live' = live
        /\ weighted' = weighted /\ inserted' = inserted
        /\ \E L : Hung(wind, live, hand.node, L)
    BY DEF IInv, Held, InsertMoved
  <1>2. PICK L : Hung(wind, live, hand.node, L)
    BY <1>1
  <1>3. wind.heap[hand.node].edge \in Edge
    BY <1>1 DEF Loaded
  <1>4. /\ wind' \in Winds /\ SameLoad(wind', wind) /\ broken' \in BOOLEAN
        /\ \A c \in Cells : wind'.counter[c] <= Cardinality(Node)
        /\ \/ hand' = NoHand
           \/ /\ hand'.node \in live /\ hand'.num \in 0 .. MaxKicks
              /\ hand' = [node |-> hand'.node, num |-> hand'.num]
        /\ ~ broken' => \E M : Hung(wind', live, hand'.node, M)
    BY <1>1, <1>2, <1>3, Placed
  <1>5. \A m \in Node : /\ wind'.heap[m].edge = wind.heap[m].edge
                        /\ wind'.heap[m].weight = wind.heap[m].weight
    BY <1>4 DEF SameLoad
  <1>6. Bounded'
    BY <1>1, <1>4, <1>5 DEF Bounded
  <1>7. Loaded'
    <2>1. \A m \in live : /\ wind'.heap[m].edge = wind.heap[m].edge
                          /\ wind'.heap[m].weight = wind.heap[m].weight
      BY <1>1, <1>5
    <2> QED  BY <2>1, <1>1 DEF Loaded, Countable
  <1>8. Held'
    BY <1>1, <1>4 DEF Held
  <1> QED  BY <1>1, <1>4, <1>6, <1>7, <1>8 DEF IInv

(* The node of an edge that is inserted again counts.                      *)
LEMMA StepAgain ==
  ASSUME IInv, NEW e \in Edge, InsertAgain(e)
  PROVE  IInv'
  <1> DEFINE n == FoundNode(wind, e)
  <1>1. /\ wind \in Winds /\ Bounded /\ live \in SUBSET Node /\ Loaded
        /\ inserted \in [Edge -> 0 .. MaxInserts] /\ weighted = TRUE /\ Held
        /\ hand.node = Null /\ broken = FALSE
        /\ ~ Absent(wind, e) /\ inserted[e] < MaxInserts
        /\ \E L : Hung(wind, live, hand.node, L)
        /\ weighted' = weighted /\ live' = live /\ hand' = hand /\ broken' = broken
        /\ inserted' = [inserted EXCEPT ![e] = inserted[e] + 1]
        /\ wind' = Counted(wind, e)
    BY DEF IInv, InsertAgain, Idle, NoHand
  <1>2. PICK L : Hung(wind, live, Null, L)
    BY <1>1
  <1>3. Found(wind, e) /\ wind'.heap[n].weight # 0
    BY <1>1 DEF Absent
  <1>4. n \in live /\ n \in Node /\ wind.heap[n].edge = e
    BY <1>1, <1>2, <1>3, Queried
  <1>5. /\ wind' \in Winds /\ Hung(wind', live, Null, L) /\ wind'.counter = wind.counter
        /\ \A m \in Node :
             /\ wind'.heap[m].edge = wind.heap[m].edge
             /\ wind'.heap[m].weight = IF ~ (Found(wind, e) /\ m = n) THEN wind.heap[m].weight
                                       ELSE IF wind.heap[n].weight = Wrap - 1 THEN 0
                                       ELSE wind.heap[n].weight + 1
             /\ wind'.heap[m].weight \in 0 .. Wrap - 1
    <2>1. /\ Counted(wind, e) \in Winds /\ Hung(Counted(wind, e), live, Null, L)
          /\ Counted(wind, e).counter = wind.counter
          /\ \A m \in Node :
               /\ Counted(wind, e).heap[m].edge = wind.heap[m].edge
               /\ Counted(wind, e).heap[m].weight =
                     IF ~ (Found(wind, e) /\ m = n) THEN wind.heap[m].weight
                     ELSE IF wind.heap[n].weight = Wrap - 1 THEN 0
                     ELSE wind.heap[n].weight + 1
               /\ Counted(wind, e).heap[m].weight \in 0 .. Wrap - 1
      BY <1>1, <1>2, CountedIs
    <2> QED  BY <2>1, <1>1
  <1> HIDE DEF n
  <1>6. \A m \in live : /\ wind'.heap[m].edge = wind.heap[m].edge
                        /\ m # n => wind'.heap[m].weight = wind.heap[m].weight
                        /\ m = n => wind'.heap[m].weight = wind.heap[n].weight + 1
    BY <1>1, <1>3, <1>4, <1>5
  <1>7. Bounded'
    BY <1>1, <1>5 DEF Bounded
  <1>8. /\ inserted' \in [Edge -> 0 .. MaxInserts] /\ \A f \in Edge : inserted[f] \in Nat
        /\ \A f \in Edge : inserted'[f] = IF f = e THEN inserted[e] + 1 ELSE inserted[f]
    BY <1>1, WindAssumption
  <1>9. \A f \in Edge : f \in Countable' => f \in Countable
    BY <1>8, WindAssumption DEF Countable
  <1>10. Loaded'
    <2>1. \A m \in live : wind.heap[m].edge \in Edge /\ inserted[wind.heap[m].edge] > 0
      BY <1>1 DEF Loaded
    <2>2. \A m \in live : wind'.heap[m].edge \in Edge /\ inserted'[wind'.heap[m].edge] > 0
      BY <2>1, <1>6, <1>8
    <2>3. \A l, m \in live :
             wind'.heap[l].edge \in Countable' /\ wind'.heap[l].edge = wind'.heap[m].edge => l = m
      <3>1. \A l \in live : wind'.heap[l].edge \in Countable' => wind.heap[l].edge \in Countable
        BY <2>1, <1>6, <1>9
      <3> QED  BY <3>1, <1>1, <1>6 DEF Loaded
    <2>4. \A f \in Edge : inserted'[f] > 0 => \E m \in live : wind'.heap[m].edge = f
      BY <1>1, <1>4, <1>6, <1>8 DEF Loaded
    <2>5. \A m \in live : wind'.heap[m].edge \in Countable' =>
                             wind'.heap[m].weight = inserted'[wind'.heap[m].edge]
      <3> SUFFICES ASSUME NEW m \in live, wind'.heap[m].edge \in Countable'
                   PROVE  wind'.heap[m].weight = inserted'[wind'.heap[m].edge]
        OBVIOUS
      <3>1. wind.heap[m].edge \in Countable /\ wind.heap[m].edge \in Edge
        BY <2>1, <1>6, <1>9
      <3>2. wind.heap[m].weight = inserted[wind.heap[m].edge]
        BY <3>1, <1>1 DEF Loaded
      <3>3. wind.heap[m].edge = e => m = n
        BY <3>1, <1>1, <1>4 DEF Loaded
      <3> QED  BY <3>1, <3>2, <3>3, <1>4, <1>6, <1>8
    <2> QED  BY <2>2, <2>3, <2>4, <2>5, <1>1 DEF Loaded
  <1>11. Held'
    BY <1>1 DEF Held
  <1>12. \E M : Hung(wind', live', hand'.node, M)
    BY <1>1, <1>5
  <1> QED  BY <1>1, <1>5, <1>7, <1>8, <1>10, <1>11, <1>12 DEF IInv

(* The node of an edge is unlinked and freed.                              *)
LEMMA StepDelete ==
  ASSUME IInv, NEW e \in Edge, Delete(e)
  PROVE  IInv'
  <1> DEFINE c == FoundCell(wind, e)
             n == FoundNode(wind, e)
  <1>1. /\ wind \in Winds /\ Bounded /\ live \in SUBSET Node /\ Loaded
        /\ inserted \in [Edge -> 0 .. MaxInserts] /\ weighted = FALSE /\ Held
        /\ hand = NoHand /\ hand.node = Null /\ broken = FALSE /\ Found(wind, e)
        /\ \E L : Hung(wind, live, hand.node, L)
        /\ weighted' = weighted /\ hand' = hand
        /\ inserted' = [inserted EXCEPT ![e] = 0]
    BY DEF IInv, Delete, Idle, NoHand
  <1>2. wind' = Freed(wind, c, n) /\ live' = live \ {n} /\ broken' = SelfLinked(wind, c, n)
    BY DEF Delete, Freed
  <1>3. PICK L : Hung(wind, live, Null, L)
    BY <1>1
  <1>4. n \in live /\ n \in Node /\ wind.heap[n].edge = e /\ c \in Cells
    BY <1>1, <1>3, Queried
  <1>5. PICK p \in 1 .. Len(L[c]) : n = L[c][p]
    BY <1>1, <1>3, Queried
  <1> HIDE DEF n, c
  <1>6. wind.counter[c] > 0 /\ wind.counter \in [Cells -> Nat]
    <2>1. Chained(wind, live, c, L[c]) /\ Len(L[c]) \in Nat
      BY <1>1, <1>3, <1>4, AllListFacts
    <2>2. wind.counter[c] = Len(L[c]) /\ Len(L[c]) > 0
      BY <2>1, <1>5 DEF Chained
    <2> QED  BY <2>2, <1>1 DEF Winds
  <1>7. /\ wind' \in Winds
        /\ wind'.counter = [wind.counter EXCEPT ![c] = wind.counter[c] - 1]
        /\ \A m \in Node \ {n} : /\ wind'.heap[m].edge = wind.heap[m].edge
                                 /\ wind'.heap[m].weight = wind.heap[m].weight
    <2>1. wind \in Winds /\ c \in Cells /\ n \in Node /\ wind.counter[c] > 0
      BY <1>1, <1>4, <1>6
    <2>2. /\ Freed(wind, c, n) \in Winds
          /\ Freed(wind, c, n).counter = [wind.counter EXCEPT ![c] = wind.counter[c] - 1]
          /\ \A m \in Node \ {n} :
                /\ Freed(wind, c, n).heap[m].edge = wind.heap[m].edge
                /\ Freed(wind, c, n).heap[m].weight = wind.heap[m].weight
      BY <2>1, FreedLoad
    <2> QED  BY <2>2, <1>2
  <1>8. wind'.heap[n].weight = 1
    <2>1. Unlinked(wind, c, n).heap \in [Node -> [edge : Edge \cup {NoEdge}, next : Node \cup {Null},
                                                  prev : Node \cup {Null}, weight : Nat]]
      <3> DEFINE nx == wind.heap[n].next
                 pv == wind.heap[n].prev
                 h1 == IF wind.head[c] = n THEN wind.heap ELSE [wind.heap EXCEPT ![pv].next = nx]
                 h2 == IF nx = Null THEN h1 ELSE [h1 EXCEPT ![nx].prev = nx]
                 Nodes == [edge : Edge \cup {NoEdge}, next : Node \cup {Null},
                           prev : Node \cup {Null}, weight : Nat]
      <3>1. Unlinked(wind, c, n).heap = h2
        BY <1>1 DEF Unlinked, Winds
      <3>2. wind.heap \in [Node -> Nodes] /\ nx \in Node \cup {Null}
        BY <1>1, <1>4 DEF Winds
      <3> HIDE DEF nx, pv
      <3>3. h1 \in [Node -> Nodes]
        BY <3>2
      <3> HIDE DEF h1
      <3>4. h2 \in [Node -> Nodes]
        BY <3>2, <3>3
      <3> QED  BY <3>1, <3>4
    <2>2. Freed(wind, c, n).heap[n] = EmptyNode
      <3>1. Unlinked(wind, c, n) \in [heap : {Unlinked(wind, c, n).heap}, head : {Unlinked(wind, c, n).head},
                                      tail : {Unlinked(wind, c, n).tail}, counter : {Unlinked(wind, c, n).counter}]
        BY <1>1 DEF Unlinked, Winds
      <3> QED  BY <2>1, <3>1, <1>4 DEF Freed
    <2> QED  BY <2>2, <1>2 DEF EmptyNode
  <1>9. Bounded'
    <2>1. Cardinality(Node) \in Nat /\ 1 \in 0 .. Wrap - 1
      BY WindAssumption, FS_CardinalityType
    <2>2. \A d \in Cells : wind'.counter[d] <= Cardinality(Node)
      BY <2>1, <1>1, <1>4, <1>6, <1>7 DEF Bounded
    <2>3. \A m \in Node : wind'.heap[m].weight \in 0 .. Wrap - 1
      BY <2>1, <1>1, <1>7, <1>8 DEF Bounded
    <2> QED  BY <2>2, <2>3 DEF Bounded
  <1>10. inserted' \in [Edge -> 0 .. MaxInserts]
         /\ \A f \in Edge : inserted'[f] = IF f = e THEN 0 ELSE inserted[f]
    BY <1>1, WindAssumption
  <1>11. Loaded'
    <2>1. \A m \in live' : /\ m \in live /\ m # n
                           /\ wind'.heap[m].edge = wind.heap[m].edge
                           /\ wind'.heap[m].weight = wind.heap[m].weight
      BY <1>1, <1>2, <1>7
    <2>0. /\ \A f \in Edge : inserted[f] <= 1 /\ f \in Countable
          /\ \A l, m \in live : wind.heap[l].edge = wind.heap[m].edge => l = m
      <3>1. \A f \in Edge : inserted[f] <= 1 /\ inserted[f] \in Nat
        BY <1>1, WindAssumption DEF Loaded
      <3>2. \A f \in Edge : f \in Countable
        BY <3>1, WindAssumption DEF Countable
      <3> QED  BY <3>1, <3>2, <1>1 DEF Loaded
    <2>2. \A m \in live : wind.heap[m].edge = e <=> m = n
      BY <2>0, <1>4
    <2>3. \A m \in live' : wind'.heap[m].edge \in Edge /\ inserted'[wind'.heap[m].edge] > 0
      BY <2>1, <2>2, <1>1, <1>10 DEF Loaded
    <2>4. \A l, m \in live' : wind'.heap[l].edge = wind'.heap[m].edge => l = m
      BY <2>0, <2>1
    <2>5. \A f \in Edge : inserted'[f] > 0 => \E m \in live' : wind'.heap[m].edge = f
      <3> SUFFICES ASSUME NEW f \in Edge, inserted'[f] > 0
                   PROVE  \E m \in live' : wind'.heap[m].edge = f
        OBVIOUS
      <3>1. f # e /\ inserted[f] > 0
        BY <1>10
      <3>2. PICK m \in live : wind.heap[m].edge = f
        BY <3>1, <1>1 DEF Loaded
      <3>3. m \in live'
        BY <3>1, <3>2, <1>2, <1>4
      <3> QED  BY <3>2, <3>3, <2>1
    <2>6. \A f \in Edge : inserted'[f] <= 1
      BY <2>0, <1>10
    <2> QED  BY <2>3, <2>4, <2>5, <2>6, <1>1 DEF Loaded
  <1>12. broken' \in BOOLEAN
    BY <1>2 DEF SelfLinked
  <1>13. ~ broken' => \E M : Hung(wind', live', hand'.node, M)
    <2> SUFFICES ASSUME ~ broken'
                 PROVE  \E M : Hung(wind', live', hand'.node, M)
      OBVIOUS
    <2>1. ~ SelfLinked(wind, c, n)
      BY <1>2
    <2>2. Hung(Freed(wind, c, n), live \ {n}, Null, [L EXCEPT ![c] = Without(L[c], p)])
      BY <2>1, <1>1, <1>3, <1>4, <1>5, HungFreed
    <2> QED  BY <2>2, <1>1, <1>2
  <1>14. Held' /\ live' \in SUBSET Node
    BY <1>1, <1>2 DEF Held
  <1> QED  BY <1>1, <1>7, <1>9, <1>10, <1>11, <1>12, <1>13, <1>14 DEF IInv

(* A stuttering step.                                                      *)
LEMMA SameInv ==
  ASSUME IInv, UNCHANGED vars
  PROVE  IInv'
  <1>1. /\ weighted' = weighted /\ wind' = wind /\ live' = live /\ hand' = hand
        /\ broken' = broken /\ inserted' = inserted
    BY DEF vars
  <1> QED  BY <1>1 DEF IInv, Bounded, Held, Loaded, Countable

(* Every step preserves the invariant.                                     *)
LEMMA StepInv ==
  IInv /\ [Next]_vars => IInv'
  <1> SUFFICES ASSUME IInv, [Next]_vars
               PROVE  IInv'
    OBVIOUS
  <1>1. ASSUME NEW e \in Edge, NEW n \in Node, InsertNew(e, n)
        PROVE  IInv'
    BY <1>1, StepNew
  <1>2. ASSUME NEW e \in Edge, InsertAgain(e)
        PROVE  IInv'
    BY <1>2, StepAgain
  <1>3. CASE InsertMoved
    BY <1>3, StepMoved
  <1>4. ASSUME NEW e \in Edge, Delete(e)
        PROVE  IInv'
    BY <1>4, StepDelete
  <1>5. CASE UNCHANGED vars
    BY <1>5, SameInv
  <1> QED  BY <1>1, <1>2, <1>3, <1>4, <1>5 DEF Next

(* So it holds in every state.                                             *)
LEMMA AlwaysInv ==
  Spec => []IInv
  BY InitInv, StepInv, PTL DEF Spec

-----------------------------------------------------------------------------
(* What the invariant says.                                                *)

(* The types follow from the parts of the invariant.                       *)
LEMMA InvTypeOK ==
  IInv => TypeOK
  <1> SUFFICES ASSUME IInv
               PROVE  TypeOK
    OBVIOUS
  <1>1. wind \in Winds /\ Bounded /\ live \in SUBSET Node /\ Held
    BY DEF IInv
  <1>2. /\ wind.heap \in [Node -> [edge : Edge \cup {NoEdge}, next : Node \cup {Null},
                                   prev : Node \cup {Null}, weight : Nat]]
        /\ wind.head \in [Cells -> Node \cup {Null}] /\ wind.tail \in [Cells -> Node \cup {Null}]
        /\ wind.counter \in [Cells -> Nat]
    BY <1>1 DEF Winds
  <1>3. wind.heap \in [Node -> [edge : Edge \cup {NoEdge}, next : Node \cup {Null},
                                prev : Node \cup {Null}, weight : 0 .. Wrap - 1]]
    <2>1. \A n \in Node : wind.heap[n] \in [edge : Edge \cup {NoEdge}, next : Node \cup {Null},
                                            prev : Node \cup {Null}, weight : 0 .. Wrap - 1]
      BY <1>1, <1>2 DEF Bounded
    <2> QED  BY <2>1, <1>2
  <1>4. wind.counter \in [Cells -> 0 .. Cardinality(Node)]
    <2>1. Cardinality(Node) \in Nat
      BY WindAssumption, FS_CardinalityType
    <2> QED  BY <2>1, <1>1, <1>2 DEF Bounded
  <1>5. hand.node \in live \cup {Null} /\ hand.num \in 0 .. MaxKicks
    BY <1>1, WindAssumption DEF Held, NoHand
  <1> QED  BY <1>1, <1>2, <1>3, <1>4, <1>5 DEF IInv, TypeOK

(* Each walk is the list that L holds for the cell.                        *)
LEMMA InvListsExact ==
  IInv => ListsExact
  <1> SUFFICES ASSUME IInv, ~ broken, NEW c \in Cells
               PROVE  LET l == Walk(wind, c)
                      IN  /\ Len(l) = wind.counter[c]
                          /\ l # <<>> => l[Len(l)] = wind.tail[c] /\ wind.heap[l[Len(l)]].next = Null
                          /\ Range(l) \subseteq live
                          /\ \A i \in 2 .. Len(l) : wind.heap[l[i]].prev \in {l[i - 1], l[i]}
    BY DEF ListsExact
  <1>1. live \in SUBSET Node
    BY DEF IInv
  <1>2. PICK L : Hung(wind, live, hand.node, L)
    BY DEF IInv
  <1>3. PICK l : l = L[c]
    OBVIOUS
  <1>4. /\ Walk(wind, c) = l /\ Chained(wind, live, c, l) /\ l \in Seq(live) /\ Len(l) \in Nat
        /\ \A i \in 1 .. Len(l) : l[i] \in live
    BY <1>1, <1>2, <1>3, WalkList, ListFacts
  <1>5. l # <<>> => Len(l) > 0 /\ Len(l) \in 1 .. Len(l)
    BY <1>4, EmptySeq
  <1>6. l # <<>> => l[Len(l)] = wind.tail[c] /\ wind.heap[l[Len(l)]].next = Null
    BY <1>4, <1>5 DEF Chained
  <1>7. DOMAIN l = 1 .. Len(l)
    BY <1>4, LenProperties
  <1>8. Range(l) \subseteq live
    BY <1>4, <1>7 DEF Range
  <1>9. Len(l) = wind.counter[c] /\ \A i \in 2 .. Len(l) : wind.heap[l[i]].prev \in {l[i - 1], l[i]}
    BY <1>4 DEF Chained
  <1> QED  BY <1>4, <1>6, <1>8, <1>9

(* What a scan meets.                                                      *)
LEMMA MetIs ==
  ASSUME live \in SUBSET Node, NEW h, NEW L, Hung(wind, live, h, L), NEW C \in SUBSET Cells
  PROVE  \A p : p \in Met(wind, C) <=>
            \E c \in C : \E k \in 1 .. Len(L[c]) : p = <<c, k, wind.heap[L[c][k]].edge>>
  <1>1. \A c \in C : /\ Walk(wind, c) = L[c] /\ DOMAIN L[c] = 1 .. Len(L[c])
    <2> SUFFICES ASSUME NEW c \in C
                 PROVE  Walk(wind, c) = L[c] /\ DOMAIN L[c] = 1 .. Len(L[c])
      OBVIOUS
    <2>1. Walk(wind, c) = L[c]
      BY WalkList
    <2>2. L[c] \in Seq(live)
      BY ListFacts
    <2> QED  BY <2>1, <2>2, LenProperties
  <1>2. Met(wind, C) = UNION {{<<c, k, wind.heap[L[c][k]].edge>> : k \in 1 .. Len(L[c])} : c \in C}
    BY <1>1 DEF Met
  <1> QED  BY <1>2

(* The node of a countable edge is in one list, at one position, or in     *)
(* hand.                                                                   *)
LEMMA InvEdgesInPlace ==
  IInv => EdgesInPlace
  <1> SUFFICES ASSUME IInv, ~ broken, NEW e \in Countable
               PROVE  LET nodes == {n \in live : wind.heap[n].edge = e}
                          places == {p \in Met(wind, Cells) : p[3] = e}
                      IN  /\ Cardinality(nodes) = IF inserted[e] > 0 THEN 1 ELSE 0
                          /\ \A n \in nodes : weighted => wind.heap[n].weight = inserted[e]
                          /\ \A n \in nodes : IF n = hand.node THEN places = {} ELSE Cardinality(places) = 1
                          /\ \A p \in places : p[1] \in {Candidate(e)[x] : x \in 0 .. 3}
    BY DEF EdgesInPlace
  <1> DEFINE nodes == {n \in live : wind.heap[n].edge = e}
             places == {p \in Met(wind, Cells) : p[3] = e}
  <1>1. live \in SUBSET Node /\ Loaded /\ e \in Edge
    BY DEF IInv, Countable
  <1>2. PICK L : Hung(wind, live, hand.node, L)
    BY DEF IInv
  <1>3. \A c \in Cells : \A i \in 1 .. Len(L[c]) :
           L[c][i] \in live /\ L[c][i] # hand.node /\ c \in CellsOf(wind.heap[L[c][i]].edge)
    BY <1>1, <1>2, ListFacts
  <1>4. \A p : p \in places <=> \E c \in Cells : \E k \in 1 .. Len(L[c]) :
                                   p = <<c, k, e>> /\ wind.heap[L[c][k]].edge = e
    <2>1. \A p : p \in Met(wind, Cells) <=>
            \E c \in Cells : \E k \in 1 .. Len(L[c]) : p = <<c, k, wind.heap[L[c][k]].edge>>
      BY <1>1, <1>2, MetIs
    <2> QED  BY <2>1
  <1>5. Cardinality(nodes) = IF inserted[e] > 0 THEN 1 ELSE 0
    <2>1. CASE inserted[e] > 0
      <3>1. PICK n \in live : wind.heap[n].edge = e
        BY <1>1, <2>1 DEF Loaded
      <3>2. nodes = {n}
        BY <3>1, <1>1 DEF Loaded
      <3> QED  BY <3>2, <2>1, FS_Singleton
    <2>2. CASE ~ (inserted[e] > 0)
      <3>1. nodes = {}
        BY <1>1, <2>2 DEF Loaded
      <3> QED  BY <3>1, <2>2, FS_EmptySet
    <2> QED  BY <2>1, <2>2
  <1>6. \A n \in nodes : weighted => wind.heap[n].weight = inserted[e]
    BY <1>1 DEF Loaded
  <1> HIDE DEF places
  <1>7. ASSUME NEW n \in nodes
        PROVE  IF n = hand.node THEN places = {} ELSE Cardinality(places) = 1
    <2>1. \A c \in Cells : \A i \in 1 .. Len(L[c]) : wind.heap[L[c][i]].edge = e => L[c][i] = n
      BY <1>1, <1>3 DEF Loaded
    <2>2. CASE n = hand.node
      BY <2>1, <2>2, <1>3, <1>4
    <2>3. CASE n # hand.node
      <3>1. PICK c \in Cells : \E i \in 1 .. Len(L[c]) : L[c][i] = n
        BY <2>3, <1>2 DEF Hung
      <3>2. PICK i \in 1 .. Len(L[c]) : L[c][i] = n
        BY <3>1
      <3>3. \A d \in Cells : \A j \in 1 .. Len(L[d]) : L[d][j] = n => d = c /\ j = i
        <4>1. Apart(L)
          BY <1>2 DEF Hung
        <4> QED  BY <4>1, <3>2 DEF Apart
      <3>4. places = {<<c, i, e>>}
        BY <2>1, <3>2, <3>3, <1>4
      <3> QED  BY <3>4, <2>3, FS_Singleton
    <2> QED  BY <2>2, <2>3
  <1>8. \A p \in places : p[1] \in {Candidate(e)[x] : x \in 0 .. 3}
    BY <1>3, <1>4 DEF CellsOf
  <1> QED  BY <1>5, <1>6, <1>7, <1>8 DEF places

-----------------------------------------------------------------------------
(* Counting.                                                               *)

(* A function that is one to one and onto a finite set.                    *)
LEMMA SameCount ==
  ASSUME NEW S, NEW T, IsFiniteSet(T), NEW f \in [S -> T],
         \A a, b \in S : f[a] = f[b] => a = b, \A t \in T : \E a \in S : f[a] = t
  PROVE  Cardinality(S) = Cardinality(T)
  <1> DEFINE g == [t \in T |-> CHOOSE a \in S : f[a] = t]
  <1>1. \A t \in T : g[t] \in S /\ f[g[t]] = t
    OBVIOUS
  <1>2. \A a \in S : g[f[a]] = a
    BY <1>1
  <1>3. g \in [T -> S]
    BY <1>1
  <1> HIDE DEF g
  <1>4. /\ \A t, u \in T : g[t] = g[u] => t = u
        /\ \A a \in S : \E t \in T : g[t] = a
    BY <1>1, <1>2
  <1>5. g \in Bijection(T, S)
    BY <1>3, <1>4, Fun_IsBij
  <1> QED  BY <1>5, FS_Bijection DEF ExistsBijection

(* The entries of S, one for each edge of D.                               *)
Entries(S, D) ==
  /\ \A p \in S : p[3] \in D
  /\ \A p, q \in S : p[3] = q[3] => p = q
  /\ \A e \in D : \E p \in S : p[3] = e

(* Then there are as many entries as edges.                                *)
LEMMA EntriesCount ==
  ASSUME NEW S, NEW D, Entries(S, D), IsFiniteSet(D)
  PROVE  {p[3] : p \in S} = D /\ Cardinality(S) = Cardinality(D)
  <1> DEFINE f == [p \in S |-> p[3]]
  <1>1. f \in [S -> D]
    BY DEF Entries
  <1>2. /\ \A a, b \in S : f[a] = f[b] => a = b
        /\ \A t \in D : \E a \in S : f[a] = t
    BY DEF Entries
  <1> HIDE DEF f
  <1>3. Cardinality(S) = Cardinality(D)
    BY <1>1, <1>2, SameCount
  <1> QED  BY <1>3 DEF Entries

(* The values of a function on a finite set.                               *)
LEMMA FiniteValues ==
  ASSUME NEW S, IsFiniteSet(S), NEW f, NEW T, \A t \in T : \E x \in S : f[x] = t
  PROVE  IsFiniteSet(T)
  <1> DEFINE U == {x \in S : f[x] \in T}
             g == [x \in U |-> f[x]]
  <1>1. IsFiniteSet(U)
    BY FS_Subset
  <1>2. g \in Surjection(U, T)
    BY DEF Surjection
  <1> QED  BY <1>1, <1>2, FS_Surjection

(* Whether an edge is in the graph; those that are are finitely many.      *)
Present == {e \in Edge : inserted[e] > 0}

(* Each of them has a node of its own.                                     *)
LEMMA PresentFinite ==
  ASSUME IInv
  PROVE  IsFiniteSet(Present)
  <1>1. live \in SUBSET Node /\ Loaded
    BY DEF IInv
  <1>2. IsFiniteSet(live)
    BY <1>1, WindAssumption, FS_Subset
  <1> DEFINE f == [n \in live |-> wind.heap[n].edge]
  <1>3. \A e \in Present : \E n \in live : f[n] = e
    BY <1>1 DEF Present, Loaded
  <1> HIDE DEF f
  <1> QED  BY <1>2, <1>3, FiniteValues

(* Between two insertions, query_edge tells whether an edge is in the      *)
(* graph, as long as its weight counts.                                    *)
LEMMA QueryIsPresent ==
  ASSUME IInv, Idle, NEW e \in Countable
  PROVE  query_edge(wind, e) <=> e \in Present
  <1>1. wind \in Winds /\ live \in SUBSET Node /\ Loaded /\ hand.node = Null /\ ~ broken
    BY DEF IInv, Idle, NoHand
  <1>2. PICK L : Hung(wind, live, Null, L)
    BY <1>1 DEF IInv
  <1>3. e \in Edge
    BY DEF Countable
  <1>4. /\ Found(wind, e) <=> \E n \in live : wind.heap[n].edge = e
        /\ Found(wind, e) => /\ FoundNode(wind, e) \in live
                             /\ wind.heap[FoundNode(wind, e)].edge = e
    BY <1>1, <1>2, <1>3, Queried
  <1>5. Found(wind, e) <=> e \in Present
    BY <1>1, <1>3, <1>4 DEF Loaded, Present
  <1>6. Found(wind, e) /\ weighted => wind.heap[FoundNode(wind, e)].weight # 0
    BY <1>1, <1>4 DEF Loaded
  <1> QED  BY <1>5, <1>6 DEF query_edge

(* A scan of all cells of some countable edges meets each of them once.    *)
LEMMA ScanOnce ==
  ASSUME IInv, Idle, NEW C \in SUBSET Cells, NEW D \in SUBSET Countable,
         \A e \in D : CellsOf(e) \subseteq C
  PROVE  /\ Entries({p \in Met(wind, C) : p[3] \in D}, D \cap Present)
         /\ \A p \in Met(wind, C) : p[3] \in Edge
  <1>1. wind \in Winds /\ live \in SUBSET Node /\ Loaded /\ hand.node = Null /\ ~ broken
    BY DEF IInv, Idle, NoHand
  <1>2. PICK L : Hung(wind, live, Null, L)
    BY <1>1 DEF IInv
  <1>3. \A c \in Cells : \A i \in 1 .. Len(L[c]) :
           L[c][i] \in live /\ c \in CellsOf(wind.heap[L[c][i]].edge)
    BY <1>1, <1>2, AllListFacts
  <1> DEFINE S == {p \in Met(wind, C) : p[3] \in D}
             M == Met(wind, C)
  <1>4. \A p : p \in M <=>
            \E c \in C : \E k \in 1 .. Len(L[c]) : p = <<c, k, wind.heap[L[c][k]].edge>>
    BY <1>1, <1>2, MetIs
  <1> HIDE DEF M
  <1>5. \A p \in M : p[3] \in Edge /\ p[3] \in Present
    <2> SUFFICES ASSUME NEW p \in M
                 PROVE  p[3] \in Edge /\ p[3] \in Present
      OBVIOUS
    <2>1. PICK c \in C : \E k \in 1 .. Len(L[c]) : p = <<c, k, wind.heap[L[c][k]].edge>>
      BY <1>4
    <2>2. PICK k \in 1 .. Len(L[c]) : p = <<c, k, wind.heap[L[c][k]].edge>>
      BY <2>1
    <2>3. L[c][k] \in live /\ p[3] = wind.heap[L[c][k]].edge
      BY <2>2, <1>3
    <2> QED  BY <2>3, <1>1 DEF Loaded, Present
  <1>6. \A p, q \in M : p[3] \in D /\ p[3] = q[3] => p = q
    <2> SUFFICES ASSUME NEW p \in M, NEW q \in M, p[3] \in D, p[3] = q[3]
                 PROVE  p = q
      OBVIOUS
    <2>1. PICK c \in C : \E k \in 1 .. Len(L[c]) : p = <<c, k, wind.heap[L[c][k]].edge>>
      BY <1>4
    <2>2. PICK k \in 1 .. Len(L[c]) : p = <<c, k, wind.heap[L[c][k]].edge>>
      BY <2>1
    <2>3. PICK d \in C : \E j \in 1 .. Len(L[d]) : q = <<d, j, wind.heap[L[d][j]].edge>>
      BY <1>4
    <2>4. PICK j \in 1 .. Len(L[d]) : q = <<d, j, wind.heap[L[d][j]].edge>>
      BY <2>3
    <2>5. L[c][k] = L[d][j]
      <3>1. L[c][k] \in live /\ L[d][j] \in live
        BY <1>3
      <3>2. /\ wind.heap[L[c][k]].edge = wind.heap[L[d][j]].edge
            /\ wind.heap[L[c][k]].edge \in Countable
        BY <2>2, <2>4
      <3> QED  BY <3>1, <3>2, <1>1 DEF Loaded
    <2>6. c = d /\ k = j
      <3>1. Apart(L) /\ c \in Cells /\ d \in Cells
        BY <1>2 DEF Hung
      <3> QED  BY <3>1, <2>5 DEF Apart
    <2> QED  BY <2>2, <2>4, <2>6
  <1>7. \A e \in D \cap Present : \E p \in M : p[3] = e
    <2> SUFFICES ASSUME NEW e \in D, e \in Present
                 PROVE  \E p \in M : p[3] = e
      OBVIOUS
    <2>1. PICK n \in live : wind.heap[n].edge = e
      BY <1>1 DEF Loaded, Present, Countable
    <2>2. n # Null
      BY <1>1, WindAssumption
    <2>3. PICK c \in Cells : \E k \in 1 .. Len(L[c]) : L[c][k] = n
      BY <2>2, <1>2 DEF Hung
    <2>4. PICK k \in 1 .. Len(L[c]) : L[c][k] = n
      BY <2>3
    <2>5. c \in C
      BY <2>1, <2>4, <1>3
    <2>6. <<c, k, wind.heap[L[c][k]].edge>> \in M
      BY <2>5, <1>4
    <2> QED  BY <2>1, <2>4, <2>6
  <1>8. S = {p \in M : p[3] \in D}
    BY DEF M
  <1> HIDE DEF S
  <1>9. Entries(S, D \cap Present)
    BY <1>5, <1>6, <1>7, <1>8 DEF Entries
  <1> QED  BY <1>5, <1>9 DEF S, M

(* The countable edges out of and into a vertex that are in the graph.     *)
Outs(v) == {e \in Countable : e[1] = v /\ inserted[e] > 0}
Ins(v) == {e \in Countable : e[2] = v /\ inserted[e] > 0}

(* The countable edges that the scans meet.                                *)
Successors(v) == {p \in query_successor(wind, v) : p[3] \in Countable}
Precursors(v) == {p \in query_precursor(wind, v) : p[3] \in Countable}

(* The rows scanned for a source hold all cells of its edges, the columns  *)
(* scanned for a destination all cells of the edges into it.               *)
LEMMA Neighbors ==
  ASSUME IInv, Idle, NEW v \in Vertex
  PROVE  /\ Entries(Successors(v), Outs(v)) /\ Entries(Precursors(v), Ins(v))
         /\ \A p \in query_successor(wind, v) \cup query_precursor(wind, v) : p[3] \in Edge
  <1> DEFINE R == RowsScanned(v) \X (1 .. Len2)
             P == (1 .. Len2) \X ColsScanned(v)
             D == {e \in Countable : e[1] = v}
             F == {e \in Countable : e[2] = v}
  <1>1. RowOf[v] \in [1 .. 2 -> 1 .. Len2] /\ ColOf[v] \in [1 .. 2 -> 1 .. Len2]
    BY WindAssumption
  <1>2. /\ \A i \in 1 .. 2 : RowOf[v][i] \in RowsScanned(v) /\ ColOf[v][i] \in ColsScanned(v)
        /\ RowsScanned(v) \subseteq 1 .. Len2 /\ ColsScanned(v) \subseteq 1 .. Len2
    <2>1. /\ RowOf[v][1] \in 1 .. Len2 /\ RowOf[v][2] \in 1 .. Len2
          /\ ColOf[v][1] \in 1 .. Len2 /\ ColOf[v][2] \in 1 .. Len2 /\ 1 .. 2 = {1, 2}
      BY <1>1
    <2> QED  BY <2>1 DEF RowsScanned, ColsScanned
  <1>3. R \in SUBSET Cells /\ P \in SUBSET Cells
    BY <1>2 DEF Cells
  <1>4. \A e \in Edge : \A x \in 0 .. 3 : \E i, j \in 1 .. 2 :
           Candidate(e)[x] = <<RowOf[e[1]][i], ColOf[e[2]][j]>>
    <2> SUFFICES ASSUME NEW e \in Edge, NEW x \in 0 .. 3
                 PROVE  \E i, j \in 1 .. 2 : Candidate(e)[x] = <<RowOf[e[1]][i], ColOf[e[2]][j]>>
      OBVIOUS
    <2>1. x \div 2 + 1 \in 1 .. 2 /\ (x % 2) + 1 \in 1 .. 2
      OBVIOUS
    <2>2. Candidate(e)[x] = <<RowOf[e[1]][x \div 2 + 1], ColOf[e[2]][(x % 2) + 1]>>
      BY DEF Candidate
    <2> QED  BY <2>1, <2>2
  <1>5. \A e \in Edge : \A c \in CellsOf(e) :
           c \in Cells /\ \E i, j \in 1 .. 2 : c = <<RowOf[e[1]][i], ColOf[e[2]][j]>>
    BY <1>4, CandidateCells DEF CellsOf
  <1>6. \A e \in D : CellsOf(e) \subseteq R
    BY <1>2, <1>5 DEF Cells, Countable
  <1>7. \A e \in F : CellsOf(e) \subseteq P
    BY <1>2, <1>5 DEF Cells, Countable
  <1>8. D \in SUBSET Countable /\ F \in SUBSET Countable
    OBVIOUS
  <1>9. D \cap Present = Outs(v) /\ F \cap Present = Ins(v)
    BY DEF Present, Outs, Ins, Countable
  <1> HIDE DEF R, P
  <1>10. /\ Entries({p \in Met(wind, R) : p[3] \in D}, Outs(v))
         /\ \A p \in Met(wind, R) : p[3] \in Edge
    <2> HIDE DEF D
    <2> QED  BY <1>3, <1>6, <1>8, <1>9, ScanOnce
  <1>11. /\ Entries({p \in Met(wind, P) : p[3] \in F}, Ins(v))
         /\ \A p \in Met(wind, P) : p[3] \in Edge
    <2> HIDE DEF F
    <2> QED  BY <1>3, <1>7, <1>8, <1>9, ScanOnce
  <1>12. Successors(v) = {p \in Met(wind, R) : p[3] \in D}
    BY DEF Successors, query_successor, R
  <1>13. Precursors(v) = {p \in Met(wind, P) : p[3] \in F}
    BY DEF Precursors, query_precursor, P
  <1>14. \A p \in query_successor(wind, v) \cup query_precursor(wind, v) : p[3] \in Edge
    BY <1>10, <1>11 DEF query_successor, query_precursor, R, P
  <1> QED  BY <1>10, <1>11, <1>12, <1>13, <1>14

(* The scans list the neighbours, as many entries as edges.                *)
LEMMA InvNeighborsOnce ==
  IInv => NeighborsOnce
  <1> SUFFICES ASSUME IInv, Idle, NEW v \in Vertex
               PROVE  LET outs == {e \in Countable : e[1] = v /\ inserted[e] > 0}
                          ins == {e \in Countable : e[2] = v /\ inserted[e] > 0}
                          suc == {p \in query_successor(wind, v) : p[3] \in Countable}
                          pre == {p \in query_precursor(wind, v) : p[3] \in Countable}
                      IN  /\ {p[3] : p \in suc} = outs /\ Cardinality(suc) = Cardinality(outs)
                          /\ {p[3] : p \in pre} = ins /\ Cardinality(pre) = Cardinality(ins)
    BY DEF NeighborsOnce
  <1>1. IsFiniteSet(Outs(v)) /\ IsFiniteSet(Ins(v))
    <2>1. Outs(v) \in SUBSET Present /\ Ins(v) \in SUBSET Present
      BY DEF Outs, Ins, Present, Countable
    <2> QED  BY <2>1, PresentFinite, FS_Subset
  <1>2. Entries(Successors(v), Outs(v)) /\ Entries(Precursors(v), Ins(v))
    BY Neighbors
  <1>3. {p[3] : p \in Successors(v)} = Outs(v) /\ Cardinality(Successors(v)) = Cardinality(Outs(v))
    BY <1>1, <1>2, EntriesCount
  <1>4. {p[3] : p \in Precursors(v)} = Ins(v) /\ Cardinality(Precursors(v)) = Cardinality(Ins(v))
    BY <1>1, <1>2, EntriesCount
  <1> QED  BY <1>3, <1>4 DEF Outs, Ins, Successors, Precursors

(* When all edges are countable, the scans meet no others.                 *)
LEMMA AllCountable ==
  ASSUME IInv, Idle, Countable = Edge, NEW v \in Vertex
  PROVE  /\ Entries(query_successor(wind, v), Outs(v)) /\ Entries(query_precursor(wind, v), Ins(v))
         /\ \A e \in Edge : query_edge(wind, e) <=> e \in Present
  <1>1. query_successor(wind, v) = Successors(v) /\ query_precursor(wind, v) = Precursors(v)
    BY Neighbors DEF Successors, Precursors
  <1> QED  BY <1>1, Neighbors, QueryIsPresent

(* The pairs of vertices that close a cycle of length three with v.        *)
Cycles(v) == {ab \in Vertex \X Vertex :
    /\ ab[1] # v /\ ab[2] # v /\ ab[1] # ab[2]
    /\ <<v, ab[1]>> \in Present /\ ab \in Present /\ <<ab[2], v>> \in Present}

(* They are edges of the graph.                                            *)
LEMMA CyclesFinite ==
  ASSUME IInv, NEW v
  PROVE  IsFiniteSet(Cycles(v))
  BY PresentFinite, FS_Subset DEF Cycles

(* An edge is the pair of its two ends.                                    *)
LEMMA EdgePair ==
  ASSUME NEW e \in Edge
  PROVE  e = <<e[1], e[2]>> /\ e[1] \in Vertex /\ e[2] \in Vertex
  BY WindAssumption DEF Vertex

(* Each cycle is met as one pair of an entry for a successor and one for a *)
(* predecessor.                                                            *)
LEMMA TrianglesCount ==
  ASSUME IInv, Idle, Countable = Edge, NEW v \in Vertex
  PROVE  query_triangles(wind, v) = Cardinality(Cycles(v))
  <1> DEFINE suc == query_successor(wind, v)
             pre == query_precursor(wind, v)
             good(p, q) == Closes(wind, v, p[3][2], q[3][1], <<p[3][2], q[3][1]>>)
             S == {pq \in suc \X pre : good(pq[1], pq[2])}
             f == [pq \in S |-> <<pq[1][3][2], pq[2][3][1]>>]
  <1>1. Entries(suc, Outs(v)) /\ Entries(pre, Ins(v))
    BY AllCountable
  <1>2. query_triangles(wind, v) = Cardinality(S)
    BY DEF query_triangles
  <1> HIDE DEF suc, pre
  <1>3. \A p \in suc : /\ p[3] \in Present /\ p[3] \in Edge /\ p[3][1] = v
                       /\ p[3] = <<v, p[3][2]>> /\ p[3][2] \in Vertex
    BY <1>1, EdgePair DEF Entries, Outs, Present
  <1>4. \A q \in pre : /\ q[3] \in Present /\ q[3] \in Edge /\ q[3][2] = v
                       /\ q[3] = <<q[3][1], v>> /\ q[3][1] \in Vertex
    BY <1>1, EdgePair DEF Entries, Ins, Present
  <1>5. \A p, q : good(p, q) <=> /\ p[3][2] # v /\ q[3][1] # v /\ p[3][2] # q[3][1]
                                 /\ <<p[3][2], q[3][1]>> \in Present
    BY AllCountable DEF Closes, Present
  <1> HIDE DEF good
  <1>6. \A pq \in S : f[pq] \in Cycles(v)
    <2> SUFFICES ASSUME NEW p \in suc, NEW q \in pre, good(p, q)
                 PROVE  <<p[3][2], q[3][1]>> \in Cycles(v)
      OBVIOUS
    <2> QED  BY <1>3, <1>4, <1>5 DEF Cycles
  <1>7. \A x, y \in S : f[x] = f[y] => x = y
    <2> SUFFICES ASSUME NEW x \in S, NEW y \in S, f[x] = f[y]
                 PROVE  x = y
      OBVIOUS
    <2>1. /\ x = <<x[1], x[2]>> /\ y = <<y[1], y[2]>>
          /\ x[1] \in suc /\ y[1] \in suc /\ x[2] \in pre /\ y[2] \in pre
          /\ x[1][3][2] = y[1][3][2] /\ x[2][3][1] = y[2][3][1]
      OBVIOUS
    <2>2. x[1][3] = y[1][3] /\ x[2][3] = y[2][3]
      BY <2>1, <1>3, <1>4
    <2>3. x[1] = y[1] /\ x[2] = y[2]
      BY <2>1, <2>2, <1>1 DEF Entries
    <2> QED  BY <2>1, <2>3
  <1>8. \A ab \in Cycles(v) : \E pq \in S : f[pq] = ab
    <2> SUFFICES ASSUME NEW ab \in Cycles(v)
                 PROVE  \E pq \in S : f[pq] = ab
      OBVIOUS
    <2>1. PICK a \in Vertex : \E b \in Vertex : ab = <<a, b>>
      BY DEF Cycles
    <2>2. PICK b \in Vertex : ab = <<a, b>>
      BY <2>1
    <2>3. /\ a # v /\ b # v /\ a # b
          /\ <<v, a>> \in Present /\ <<a, b>> \in Present /\ <<b, v>> \in Present
      BY <2>2 DEF Cycles
    <2>4. <<v, a>> \in Outs(v) /\ <<b, v>> \in Ins(v)
      BY <2>3 DEF Outs, Ins, Present
    <2>5. PICK p \in suc : p[3] = <<v, a>>
      BY <2>4, <1>1 DEF Entries
    <2>6. PICK q \in pre : q[3] = <<b, v>>
      BY <2>4, <1>1 DEF Entries
    <2>7. p[3][2] = a /\ q[3][1] = b
      BY <2>5, <2>6
    <2>8. good(p, q)
      BY <2>3, <2>7, <1>5
    <2>9. <<p, q>> \in S
      BY <2>8
    <2> QED  BY <2>7, <2>9, <2>2
  <1>9. f \in [S -> Cycles(v)]
    BY <1>6
  <1> HIDE DEF f, S
  <1> QED  BY <1>2, <1>7, <1>8, <1>9, CyclesFinite, SameCount

(* Each cycle is met as one pair of an entry for a successor and one for a *)
(* successor of that.                                                      *)
LEMMA TriangleNewCount ==
  ASSUME IInv, Idle, Countable = Edge, NEW v \in Vertex
  PROVE  query_triangle_new(wind, v) = Cardinality(Cycles(v))
  <1> DEFINE suc(u) == query_successor(wind, u)
             good(p, q) == Closes(wind, v, p[3][2], q[3][2], <<q[3][2], v>>)
             S == UNION {{<<p, q>> : q \in {q \in suc(p[3][2]) : good(p, q)}} : p \in suc(v)}
             f == [pq \in S |-> <<pq[1][3][2], pq[2][3][2]>>]
  <1>1. \A u \in Vertex : Entries(suc(u), Outs(u))
    BY AllCountable
  <1>2. query_triangle_new(wind, v) = Cardinality(S)
    BY DEF query_triangle_new
  <1> HIDE DEF suc
  <1>3. \A u \in Vertex : \A p \in suc(u) :
           /\ p[3] \in Present /\ p[3] \in Edge /\ p[3][1] = u
           /\ p[3] = <<u, p[3][2]>> /\ p[3][2] \in Vertex
    BY <1>1, EdgePair DEF Entries, Outs, Present
  <1>4. \A p, q : good(p, q) <=> /\ p[3][2] # v /\ q[3][2] # v /\ p[3][2] # q[3][2]
                                 /\ <<q[3][2], v>> \in Present
    BY AllCountable DEF Closes, Present
  <1> HIDE DEF good
  <1>5. \A x : x \in S <=> \E p \in suc(v) : \E q \in suc(p[3][2]) : x = <<p, q>> /\ good(p, q)
    OBVIOUS
  <1> HIDE DEF S
  <1>6. \A x \in S : /\ x = <<x[1], x[2]>> /\ x[1] \in suc(v) /\ x[2] \in suc(x[1][3][2])
                     /\ good(x[1], x[2]) /\ x[1][3][2] \in Vertex
    BY <1>3, <1>5
  <1>7. \A x \in S : f[x] \in Cycles(v)
    <2> SUFFICES ASSUME NEW x \in S
                 PROVE  <<x[1][3][2], x[2][3][2]>> \in Cycles(v)
      OBVIOUS
    <2>1. PICK p \in suc(v) : p = x[1]
      BY <1>6
    <2>2. PICK q \in suc(p[3][2]) : q = x[2]
      BY <1>6, <2>1
    <2>3. good(p, q) /\ p[3][2] \in Vertex
      BY <1>6, <2>1, <2>2
    <2>4. <<v, p[3][2]>> \in Present /\ <<p[3][2], q[3][2]>> \in Present /\ q[3][2] \in Vertex
      BY <2>3, <1>3
    <2> QED  BY <2>1, <2>2, <2>3, <2>4, <1>4 DEF Cycles
  <1>8. \A x, y \in S : f[x] = f[y] => x = y
    <2> SUFFICES ASSUME NEW x \in S, NEW y \in S, f[x] = f[y]
                 PROVE  x = y
      OBVIOUS
    <2>1. x[1][3][2] = y[1][3][2] /\ x[2][3][2] = y[2][3][2]
      OBVIOUS
    <2>2. PICK a \in Vertex : a = x[1][3][2]
      BY <1>6
    <2>3. x[1] \in suc(v) /\ y[1] \in suc(v) /\ x[2] \in suc(a) /\ y[2] \in suc(a)
      BY <2>1, <2>2, <1>6
    <2>4. x[1][3] = y[1][3] /\ x[2][3] = y[2][3]
      BY <2>1, <2>3, <1>3
    <2>5. x[1] = y[1] /\ x[2] = y[2]
      BY <2>3, <2>4, <1>1 DEF Entries
    <2> QED  BY <2>5, <1>6
  <1>9. \A ab \in Cycles(v) : \E x \in S : f[x] = ab
    <2> SUFFICES ASSUME NEW ab \in Cycles(v)
                 PROVE  \E x \in S : f[x] = ab
      OBVIOUS
    <2>1. PICK a \in Vertex : \E b \in Vertex : ab = <<a, b>>
      BY DEF Cycles
    <2>2. PICK b \in Vertex : ab = <<a, b>>
      BY <2>1
    <2>3. /\ a # v /\ b # v /\ a # b /\ a \in Vertex
          /\ <<v, a>> \in Present /\ <<a, b>> \in Present /\ <<b, v>> \in Present
      BY <2>2 DEF Cycles
    <2>4. <<v, a>> \in Outs(v) /\ <<a, b>> \in Outs(a)
      BY <2>3 DEF Outs, Present
    <2>5. PICK p \in suc(v) : p[3] = <<v, a>>
      BY <2>4, <1>1 DEF Entries
    <2>6. PICK q \in suc(a) : q[3] = <<a, b>>
      BY <2>3, <2>4, <1>1 DEF Entries
    <2>7. p[3][2] = a /\ q[3][2] = b
      BY <2>5, <2>6
    <2>8. good(p, q)
      BY <2>3, <2>7, <1>4
    <2>9. <<p, q>> \in S
      BY <2>7, <2>8, <1>5
    <2> QED  BY <2>7, <2>9, <2>2
  <1>10. f \in [S -> Cycles(v)]
    BY <1>7
  <1> HIDE DEF f
  <1> QED  BY <1>2, <1>8, <1>9, <1>10, CyclesFinite, SameCount

(* Both counts are the number of cycles.                                   *)
LEMMA InvTrianglesExact ==
  IInv => TrianglesExact
  <1> SUFFICES ASSUME IInv, Idle, Countable = Edge, NEW v \in Vertex
               PROVE  LET is(e) == e \in Edge /\ inserted[e] > 0
                          cycle(a, b) == a # v /\ b # v /\ a # b /\ is(<<v, a>>) /\ is(<<a, b>>) /\ is(<<b, v>>)
                          real == {ab \in Vertex \X Vertex : cycle(ab[1], ab[2])}
                      IN  /\ query_triangles(wind, v) = Cardinality(real)
                          /\ query_triangle_new(wind, v) = Cardinality(real)
    BY DEF TrianglesExact
  <1> DEFINE is(e) == e \in Edge /\ inserted[e] > 0
             cycle(a, b) == a # v /\ b # v /\ a # b /\ is(<<v, a>>) /\ is(<<a, b>>) /\ is(<<b, v>>)
             real == {ab \in Vertex \X Vertex : cycle(ab[1], ab[2])}
  <1>1. \A ab \in Vertex \X Vertex : ab = <<ab[1], ab[2]>>
    OBVIOUS
  <1>2. real = Cycles(v)
    BY <1>1 DEF Cycles, Present
  <1> HIDE DEF real
  <1>3. query_triangles(wind, v) = Cardinality(real) /\ query_triangle_new(wind, v) = Cardinality(real)
    BY <1>2, TrianglesCount, TriangleNewCount
  <1> QED  BY <1>3 DEF real

-----------------------------------------------------------------------------
(* Types, for any number of nodes, cells and edges: hand holds a node in   *)
(* use or none, and an insertion places at most MaxKicks nodes after its   *)
(* own (WindBell.h:135-243).                                               *)
THEOREM TypeCorrect == Spec => []TypeOK
  BY AlwaysInv, InvTypeOK, PTL

(* Kicks and deletions keep each list exact as long as no back pointer     *)
(* that points to its own node was followed: it ends at pointer_tail, is   *)
(* as long as counter says and holds no freed node (WindBell.h:158-182,    *)
(* 316-339).                                                               *)
THEOREM ListsStayExact == Spec => []ListsExact
  BY AlwaysInv, InvListsExact, PTL

(* Every edge inserted and not deleted, and less than Wrap times, has one  *)
(* node, in one of its four cells once or in hand, with the weight of its  *)
(* insertions, whatever happens to edges that were inserted more often     *)
(* (WindBell.h:131-243, weighted 138-339).                                 *)
THEOREM EdgesStayInPlace == Spec => []EdgesInPlace
  BY AlwaysInv, InvEdgesInPlace, PTL

(* A scan of the rows of a source or the columns of a destination meets    *)
(* each neighbour exactly once, however the hashes fall together, unless   *)
(* its edge was inserted Wrap times (WindBell.h:384-488).                  *)
THEOREM NeighborsMetOnce == Spec => []NeighborsOnce
  BY AlwaysInv, InvNeighborsOnce, PTL

(* Both triangle queries count the cycles of length three through a        *)
(* vertex, as long as no edge was inserted Wrap times                      *)
(* (WindBell.h:484-520).                                                   *)
THEOREM TrianglesCounted == Spec => []TrianglesExact
  BY AlwaysInv, InvTrianglesExact, PTL
=============================================================================
