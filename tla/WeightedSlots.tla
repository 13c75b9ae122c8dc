---------------------------- MODULE WeightedSlots ---------------------------
(***************************************************************************)
(* The adjacency of the weighted build: class bSlot of                     *)
(* CuckooGraph_weighted/main.cpp (569-1108), several sources with the one  *)
(* sblacklist they share.  An edge carries the number of its insertions: a *)
(* key of a table is a pair <<dst, weight>>, and so is an inline slot; an  *)
(* insert first looks for the edge, to add 1 to its weight where it lies,  *)
(* and stores <<dst, 1>> when it is nowhere.  There is no deletion.        *)
(*                                                                         *)
(* The slots of a source that has none yet are those of a bSlot with       *)
(* pt = 0: how holemerge finds a place for it is HoleMerge!Insert, whose   *)
(* code the two builds share.                                              *)
(***************************************************************************)
EXTENDS TableOps

CONSTANTS
    Edges,         \* bound: the edges <<src, dst>> that may be inserted
    Lt, U1, U2, Sbl,    \* as in AdjSlot
    Wrap,          \* number of values of a weight (count_type)
    Repeated,      \* bound: the edges inserted more than once
    MaxLen2        \* bound: no merge makes a second layer longer

ASSUME WeightedAssumption ==
    /\ {Bup, U1, U2, Lt, Sbl} \subseteq Nat \ {0}
    /\ U1 % 2 = 0 /\ U2 % 2 = 0
    /\ Wrap \in Nat /\ Wrap > 1
    /\ Repeated \subseteq Edges /\ MaxLen2 \in Nat
ASSUME EdgesAssumption == IsFiniteSet(Edges) /\ \A e \in Edges : e = <<e[1], e[2]>>

VARIABLES
    hold,        \* the bSlot of every source
    sblacklist,  \* denylisted edges <<src, dst, weight>> of all sources
    inserted     \* history: the edges inserted

vars == <<hold, sblacklist, inserted>>

Sources == {e[1] : e \in Edges}
Dsts    == {e[2] : e \in Edges}
Weights == 0 .. Wrap - 1
Pairs   == Dsts \X Weights

(* A null pointer is not a table.                                          *)
ASSUME NullAssumption ==
    NoTable \notin [len1 : Nat, len2 : Nat, keys : SUBSET Pairs, num : Int]

EmptySlot == [pt |-> 0, inl |-> {}, slot |-> EmptyChain]

-----------------------------------------------------------------------------
DstsOf(P) == {p[1] : p \in P}

(* The denylisted edges of s, and the denylist with those of s replaced.   *)
Own(s) == {<<x[2], x[3]>> : x \in {y \in sblacklist : y[1] = s}}
Replacing(s, P) ==
    {y \in sblacklist : y[1] # s} \cup {<<s, p[1], p[2]>> : p \in P}

DenyFull == Cardinality(sblacklist) >= Sbl

(* Where a lookup goes.                                                    *)
LooksAt(s) ==
    IF hold[s].pt >= 0 THEN hold[s].inl ELSE KeysOf(hold[s].slot) \cup Own(s)

(* query: the first weight that is not 0 (an edge lies in one place,       *)
(* NeighborsExact, so that the order does not matter), or 0.               *)
Query(e) ==
    LET ws == {p[2] : p \in {q \in LooksAt(e[1]) : q[1] = e[2]}} \ {0}
    IN  IF ws = {} THEN 0 ELSE CHOOSE w \in ws : TRUE

(* GetNeighbors: the sequence of destinations it emits, as a set and as a  *)
(* number of them.                                                         *)
Neighbors(s) == DstsOf(IF hold[s].pt = 0 THEN {} ELSE LooksAt(s))
Emitted(s) ==
    LET h == hold[s]
        n(i) == IF h.slot[i] = NoTable THEN 0 ELSE Cardinality(h.slot[i].keys)
    IN  IF h.pt < 0 THEN n(0) + n(1) + n(2) + Cardinality(Own(s))
        ELSE Cardinality(h.inl)

Init ==
    /\ hold = [s \in Sources |-> EmptySlot]
    /\ sblacklist = {}
    /\ inserted = {}

-----------------------------------------------------------------------------
Bumped(P, d) ==
    {IF p[1] = d THEN <<d, (p[2] + 1) % Wrap>> ELSE p : p \in P}

BumpedChain(c, d) ==
    [i \in I |-> IF c[i] = NoTable THEN NoTable
                 ELSE Holding(c[i], Bumped(c[i].keys, d), c[i].num)]

(* Mutant: an edge whose weight wrapped to 0 is taken for absent.          *)
HoldsWeighted(e) == Query(e) # 0

(* query_insert finds the edge by its destination, whatever its weight.    *)
Holds(e) == e[2] \in DstsOf(LooksAt(e[1]))

(* query_insert: the weight goes up where the edge lies.                   *)
Again(e) ==
    LET s == e[1]
        h == hold[s]
    IN
    /\ e \in Repeated /\ Holds(e)
    /\ IF h.pt >= 0
       THEN hold' = [hold EXCEPT ![s].inl = Bumped(@, e[2])] /\ UNCHANGED sblacklist
       ELSE IF e[2] \in DstsOf(KeysOf(h.slot))
       THEN hold' = [hold EXCEPT ![s].slot = BumpedChain(@, e[2])] /\ UNCHANGED sblacklist
       ELSE sblacklist' = Replacing(s, Bumped(Own(s), e[2])) /\ UNCHANGED hold
    /\ UNCHANGED inserted

(* A new edge: the pair k goes into the slot of s; the slot and the        *)
(* denylisted edges of s afterwards.                                       *)
Becomes(s, h, P) ==
    hold' = [hold EXCEPT ![s] = h] /\ sblacklist' = Replacing(s, P)

Chained(s, c) == [hold[s] EXCEPT !.slot = c]

(* Mutant: one inline slot too many.                                       *)
InsertInlineOneMore(s, k) ==
    /\ hold[s].pt \in 0 .. Lt
    /\ Becomes(s, [hold[s] EXCEPT !.pt = @ + 1, !.inl = @ \cup {k}], Own(s))

(* The slot is claimed, or a hole among the inline ones is found.          *)
InsertInline(s, k) ==
    /\ hold[s].pt \in 0 .. Lt - 1
    /\ Becomes(s, [hold[s] EXCEPT !.pt = @ + 1, !.inl = @ \cup {k}], Own(s))

(* The inline edges, with their weights, and the new one go to a table.    *)
InsertConverts(s, k) ==
    /\ hold[s].pt = Lt
    /\ \E p \in Pour(NewTable(U1, U2), hold[s].inl \cup {k}) :
          Becomes(s, [pt |-> -1, inl |-> {}, slot |-> [EmptyChain EXCEPT ![0] = p[1]]],
                  Own(s) \cup p[2])

(* The last table below the rate takes it: what it hands back is           *)
(* denylisted, or, with a full denylist, nothing may come back.            *)
InsertStored(s, k) ==
    /\ hold[s].pt < 0
    /\ \E i \in HighestBelowRate(hold[s].slot) : \E p \in Pour(hold[s].slot[i], {k}) :
          /\ DenyFull => p[2] = {}
          /\ Becomes(s, Chained(s, [hold[s].slot EXCEPT ![i] = p[1]]), Own(s) \cup p[2])

(* Mutant: the pair handed back is carried with the weight of the new one. *)
CarriedAsNew(s, k) ==
    LET c == hold[s].slot IN
    IF HighestBelowRate(c) = {} THEN {<<c, k>>}
    ELSE IF ~ DenyFull THEN {}
    ELSE LET i == CHOOSE i \in HighestBelowRate(c) : TRUE
         IN  UNION {{<<[c EXCEPT ![i] = p[1]], <<v[1], k[2]>> >> : v \in p[2]} :
                       p \in Pour(c[i], {k})}

(* The chain to be expanded and the pair carried there: the new one, or    *)
(* the one a failed attempt with a full denylist handed back.              *)
Carried(s, k) ==
    LET c == hold[s].slot IN
    IF HighestBelowRate(c) = {} THEN {<<c, k>>}
    ELSE IF ~ DenyFull THEN {}
    ELSE LET i == CHOOSE i \in HighestBelowRate(c) : TRUE
         IN  UNION {{<<[c EXCEPT ![i] = p[1]], v>> : v \in p[2]} : p \in Pour(c[i], {k})}

(* A second or third table takes the denylisted edges of s, and then x.    *)
InsertExpands(s, k) ==
    /\ hold[s].pt < 0
    /\ \E i \in {1, 2} : \E x \in Carried(s, k) :
          /\ Live(hold[s].slot) = 0 .. i - 1
          /\ LET new == IF i = 1 THEN HalfOf(x[1][0])
                        ELSE NewTable(x[1][1].len1, x[1][1].len2)
             IN  \E p \in Pour(new, Own(s) \cup {x[2]}) :
                    Becomes(s, Chained(s, [x[1] EXCEPT ![i] = p[1]]), p[2])

(* merge carries the weights; edges that come back are denylisted first.   *)
Merged(c) == MergeTables(c[0], c[1], c[2])

(* Three tables become one of twice the length and a new second one.       *)
InsertMerges(s, k) ==
    /\ hold[s].pt < 0 /\ Live(hold[s].slot) = I
    /\ hold[s].slot[0].len2 * 2 <= MaxLen2
    /\ \E x \in Carried(s, k) : \E m \in Merged(x[1]) :
       \E p \in Pour(HalfOf(m[1]), Own(s) \cup m[2] \cup {x[2]}) :
          Becomes(s, Chained(s, [i \in I |-> IF i = 0 THEN m[1] ELSE IF i = 1 THEN p[1]
                                             ELSE NoTable]), p[2])

InsertNew(s, k) ==
    \/ InsertInline(s, k) \/ InsertConverts(s, k) \/ InsertStored(s, k)
    \/ InsertExpands(s, k) \/ InsertMerges(s, k)

First(e) ==
    /\ ~ Holds(e)
    /\ InsertNew(e[1], <<e[2], 1>>)
    /\ inserted' = inserted \cup {e}

Next == \E e \in Edges : Again(e) \/ First(e)

Spec == Init /\ [][Next]_vars

-----------------------------------------------------------------------------
TypeOK ==
    /\ \A s \in Sources :
          /\ hold[s].pt \in -1 .. Lt
          /\ hold[s].inl \subseteq Pairs
          /\ \A i \in Live(hold[s].slot) :
                /\ hold[s].slot[i].keys \subseteq Pairs
                /\ hold[s].slot[i].num = Cardinality(hold[s].slot[i].keys)
    /\ \A x \in sblacklist : <<x[1], x[2]>> \in Edges /\ x[3] \in Weights
    /\ inserted \subseteq Edges

(* However often an edge was moved between inline slots, tables and the    *)
(* denylist, by whichever source's insertions, its weight goes with it:    *)
(* query gives the number of its insertions, and an insertion changes no   *)
(* other edge.                                                             *)
M == INSTANCE Multigraph WITH count <- [e \in Edges |-> Query(e)]
ImplementsMultigraph == M!Spec

(* An edge is stored once, its weight wrapped to 0 or not: GetNeighbors    *)
(* emits every edge inserted, and emits it once.                           *)
NeighborsExact ==
    \A s \in Sources :
        /\ Neighbors(s) = {d \in Dsts : <<s, d>> \in inserted}
        /\ Emitted(s) = Cardinality(Neighbors(s))
=============================================================================
