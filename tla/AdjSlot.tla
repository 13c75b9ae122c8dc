------------------------------ MODULE AdjSlot ------------------------------
(***************************************************************************)
(* The adjacency of one source vertex: class bSlot of CuckooGraph/main.cpp *)
(* (621-1429).  Up to Lt successors lie inline; the next one turns the     *)
(* slot into a chain of up to three cuckoo tables that grows by a table at *)
(* a time, is merged when all three are full, and shrinks when deletions   *)
(* leave it sparse.  Keys a table hands back go to sblacklist, one vector  *)
(* for all sources whose size decides how each of them grows.              *)
(*                                                                         *)
(* The entries of the other sources in sblacklist are an environment that  *)
(* changes their number; del is followed by post_del of the owning         *)
(* holemerge (2321-2329), which empties an overlong sblacklist.            *)
(***************************************************************************)
EXTENDS TableOps

CONSTANTS
    Keys,          \* destination vertices (nonzero)
    Lt,            \* successors kept inline (lt)
    U1, U2,        \* layer lengths of the first table (u1, u2)
    Sbl,           \* denylist size from which a failed insert expands (sbl)
    MaxOthers,     \* bound: denylist entries of other sources
    MaxLen2        \* bound: no merge makes a second layer longer

ASSUME SizeAssumption ==
    /\ {Bup, U1, U2, Lt, Sbl} \subseteq Nat \ {0}
    /\ U1 % 2 = 0 /\ U2 % 2 = 0
    /\ MinC2 \in Nat /\ MinC2 > U2
    /\ {MaxOthers, MaxLen2} \subseteq Nat
ASSUME KeysFinite == IsFiniteSet(Keys)

Tables == [len1 : Nat, len2 : Nat, keys : SUBSET Keys, num : Nat]
(* A null pointer is not a table.                                          *)
ASSUME NullAssumption ==
    NoTable \notin [len1 : Nat, len2 : Nat, keys : SUBSET Keys, num : Int]

VARIABLES
    pt,        \* inline successors, or -1 when the slot holds tables
    inl,       \* the inline successors
    slot,      \* the three table pointers
    deny,      \* sblacklist: destinations of this source
    others,    \* sblacklist: number of entries of other sources
    phase,     \* "idle", or "post" between a del and the end of post_del
    result,    \* what the running del returned, 0 outside of one
    edges,     \* history: destinations inserted and not deleted since
    doubled    \* history: keys left in two tables by a failed insert

vars == <<pt, inl, slot, deny, others, phase, result, edges, doubled>>

-----------------------------------------------------------------------------
Stored == KeysOf(slot)

(* query: inline slots, or the tables and then the denylist.               *)
Query(k) == IF pt >= 0 THEN k \in inl ELSE k \in Stored \cup deny

(* What the successor enumerations emit, and how many times they emit.     *)
Successors == IF pt < 0 THEN Stored \cup deny ELSE IF pt = 0 THEN {} ELSE inl
Emitted ==
    LET n(i) == IF slot[i] = NoTable THEN 0 ELSE Cardinality(slot[i].keys)
    IN  IF pt < 0 THEN n(0) + n(1) + n(2) + Cardinality(deny)
        ELSE IF pt = 0 THEN 0 ELSE Cardinality(inl)

(* d: the denylisted edges of this source at the time.                     *)
DenyFull(d) == Cardinality(d) + others >= Sbl

-----------------------------------------------------------------------------
Init ==
    /\ pt = 0 /\ inl = {} /\ slot = EmptyChain
    /\ deny = {} /\ others = 0
    /\ phase = "idle" /\ result = 0
    /\ edges = {} /\ doubled = {}

(* Mutant: one inline slot too many.                                       *)
InsertInlineOneMore(k, d) ==
    /\ 0 <= pt /\ pt <= Lt /\ k \notin inl
    /\ inl' = inl \cup {k} /\ pt' = pt + 1
    /\ deny' = d
    /\ UNCHANGED slot

(* The first edges of the source: the slot is claimed, or a hole is found. *)
InsertInline(k, d) ==
    /\ 0 <= pt /\ pt < Lt /\ k \notin inl
    /\ inl' = inl \cup {k}
    /\ pt' = pt + 1
    /\ deny' = d
    /\ UNCHANGED slot

(* One edge too many: all of them move to a first table.                   *)
InsertConverts(k, d) ==
    /\ pt = Lt /\ k \notin inl
    /\ \E p \in Pour(NewTable(U1, U2), inl \cup {k}) :
          /\ slot' = [slot EXCEPT ![0] = p[1]]
          /\ deny' = d \cup p[2]
    /\ inl' = {}
    /\ pt' = -1

(* A table below the rate takes the edge while the denylist has room for   *)
(* what it may hand back.                                                  *)
InsertRoomy(k, d) ==
    /\ pt < 0 /\ k \notin Stored \cup d /\ ~ DenyFull(d)
    /\ \E i \in HighestBelowRate(slot) : \E p \in Pour(slot[i], {k}) :
          /\ slot' = [slot EXCEPT ![i] = p[1]]
          /\ deny' = d \cup p[2]
    /\ UNCHANGED <<pt, inl>>

(* With a full denylist a single attempt is made and must succeed.         *)
InsertAttempted(k, d) ==
    /\ pt < 0 /\ k \notin Stored \cup d /\ DenyFull(d)
    /\ \E i \in HighestBelowRate(slot) : \E p \in Pour(slot[i], {k}) :
          /\ p[2] = {}
          /\ slot' = [slot EXCEPT ![i] = p[1]]
    /\ deny' = d
    /\ UNCHANGED <<pt, inl>>

(* What is expanded, and with which key, when no table took k: the chain   *)
(* as it was, or, with a full denylist, as a failed attempt left it.       *)
ToExpand(k, d) ==
    IF HighestBelowRate(slot) = {} THEN {<<slot, k>>}
    ELSE IF ~ DenyFull(d) THEN {}
    ELSE LET i == CHOOSE i \in HighestBelowRate(slot) : TRUE
         IN  UNION {{<<[slot EXCEPT ![i] = p[1]], victim>> : victim \in p[2]} :
                       p \in Pour(slot[i], {k})}

(* No table is left but denylisted edges may be: a new first table.        *)
ExpandFirst(k, d) ==
    /\ pt < 0 /\ k \notin Stored \cup d /\ Live(slot) = {}
    /\ slot' = [slot EXCEPT ![0] = Holding(NewTable(U1, U2), {k}, 1)]
    /\ deny' = d
    /\ UNCHANGED <<pt, inl>>

(* Mutant: the denylisted edges are copied, not moved, to the new table.   *)
ExpandNextCopies(k, d) ==
    /\ pt < 0 /\ k \notin Stored \cup d
    /\ \E i \in {1, 2} : \E x \in ToExpand(k, d) :
          /\ Live(slot) = 0 .. i - 1
          /\ LET new == IF i = 1 THEN HalfOf(x[1][0]) ELSE NewTable(x[1][1].len1, x[1][1].len2)
             IN  \E p \in Pour(new, d \cup {x[2]}) :
                    slot' = [x[1] EXCEPT ![i] = p[1]] /\ deny' = d \cup p[2]
    /\ UNCHANGED <<pt, inl>>

(* A second or a third table: the denylisted edges of the source, then the *)
(* edge itself, go to the new table.                                       *)
ExpandNext(k, d) ==
    /\ pt < 0 /\ k \notin Stored \cup d
    /\ \E i \in {1, 2} : \E x \in ToExpand(k, d) :
          /\ Live(slot) = 0 .. i - 1
          /\ LET new == IF i = 1 THEN HalfOf(x[1][0]) ELSE NewTable(x[1][1].len1, x[1][1].len2)
             IN  \E p \in Pour(new, d \cup {x[2]}) :
                    /\ slot' = [x[1] EXCEPT ![i] = p[1]]
                    /\ deny' = p[2]
    /\ UNCHANGED <<pt, inl>>

(* What the tables of a merge hold is moved key by key into one.           *)
DisjointTables(s) == \A i, j \in Live(slot) : i # j => s[i].keys \cap s[j].keys = {}

(* All three tables are merged into one of twice the length of the first;  *)
(* denylisted edges, those the merge handed back too, go to a new second.  *)
ExpandMerge(k, d) ==
    /\ pt < 0 /\ k \notin Stored \cup d /\ Live(slot) = I
    /\ slot[0].len2 * 2 <= MaxLen2 /\ DisjointTables(slot)
    /\ \E x \in ToExpand(k, d) :
       \E m \in MergeTables(x[1][0], x[1][1], x[1][2]) :
       \E p \in Pour(HalfOf(m[1]), d \cup m[2] \cup {x[2]}) :
          /\ slot' = [i \in I |-> IF i = 0 THEN m[1] ELSE IF i = 1 THEN p[1] ELSE NoTable]
          /\ deny' = p[2]
    /\ UNCHANGED <<pt, inl>>

InsertChained(k, d) ==
    \/ InsertRoomy(k, d) \/ InsertAttempted(k, d)
    \/ ExpandFirst(k, d) \/ ExpandNext(k, d) \/ ExpandMerge(k, d)

InsertNew(k, d) == InsertInline(k, d) \/ InsertConverts(k, d) \/ InsertChained(k, d)

(* insert of an edge that query does not find; others change nothing.      *)
Insert(k) ==
    /\ phase = "idle"
    /\ ~ Query(k)
    /\ InsertNew(k, deny)
    /\ edges' = edges \cup {k}
    /\ UNCHANGED <<others, phase, result, doubled>>

-----------------------------------------------------------------------------
DelInline(k) ==
    /\ pt > 0 /\ k \in inl
    /\ inl' = inl \ {k}
    /\ pt' = pt - 1
    /\ result' = IF pt = 1 THEN -1 ELSE 1
    /\ UNCHANGED <<slot, deny, doubled>>

(* The chain after k left the first table that holds it.                   *)
After(k) ==
    LET holds == {i \in Live(slot) : k \in slot[i].keys}
        i == CHOOSE i \in holds : \A j \in holds : i <= j
    IN  [slot EXCEPT ![i] = Without(@, k)]

(* k leaves its table and nothing is rearranged.                           *)
DelKeeps(k) ==
    LET s == After(k) IN
    /\ \/ Live(slot) = {0} /\ s[0].num > 0 /\ ~ (s[0].len2 >= MinC2 /\ Sparse(s))
       \/ Live(slot) = {0, 1} /\ s[1].num > 0 /\ ~ Sparse(s)
       \/ Live(slot) = I /\ s[Small(s)].num > 0 /\ ~ Sparse(s)
    /\ slot' = s
    /\ result' = 1
    /\ UNCHANGED <<pt, inl, deny, doubled>>

(* Mutant: the denylist is not looked at.                                  *)
DelLastUnchecked(k) ==
    /\ Live(slot) = {0} /\ After(k)[0].num = 0
    /\ slot' = EmptyChain /\ pt' = 0 /\ result' = -1
    /\ UNCHANGED <<inl, deny, doubled>>

(* The only table is empty now.  With no edge denylisted the slot is free  *)
(* for another source.                                                     *)
DelLast(k) ==
    LET s == After(k) IN
    /\ Live(slot) = {0} /\ s[0].num = 0
    /\ slot' = EmptyChain
    /\ IF deny # {} THEN pt' = pt /\ result' = 1 ELSE pt' = 0 /\ result' = -1
    /\ UNCHANGED <<inl, deny, doubled>>

(* The only table is sparse: it is halved.                                 *)
DelHalves(k) ==
    LET s == After(k) IN
    /\ Live(slot) = {0} /\ s[0].num > 0 /\ s[0].len2 >= MinC2 /\ Sparse(s)
    /\ \E p \in CompressTable(s[0]) :
          /\ slot' = [s EXCEPT ![0] = p[1]]
          /\ deny' = deny \cup p[2]
    /\ result' = 1
    /\ UNCHANGED <<pt, inl, doubled>>

(* The second of two tables, or the smaller of the last two of three, is   *)
(* empty: it is dropped.                                                   *)
DelDrops(k) ==
    LET s == After(k) IN
    /\ \/ /\ Live(slot) = {0, 1} /\ s[1].num = 0
          /\ slot' = [s EXCEPT ![1] = NoTable]
       \/ /\ Live(slot) = I /\ s[Small(s)].num = 0
          /\ slot' = [s EXCEPT ![1] = s[Big(s)], ![2] = NoTable]
    /\ result' = 1
    /\ UNCHANGED <<pt, inl, deny, doubled>>

(* Two sparse tables: the second is emptied into the first.                *)
DelShrinksTwo(k) ==
    LET s == After(k) IN
    /\ Live(slot) = {0, 1} /\ s[1].num > 0 /\ Sparse(s)
    /\ s[0].keys \cap s[1].keys = {}
    /\ \E p \in Pour(s[0], s[1].keys) :
          /\ slot' = [s EXCEPT ![0] = p[1], ![1] = NoTable]
          /\ deny' = deny \cup p[2]
    /\ result' = 1
    /\ UNCHANGED <<pt, inl, doubled>>

(* Three sparse tables: the smaller of the last two is spread over the     *)
(* others.                                                                 *)
DelShrinksThree(k) ==
    LET s == After(k)
        sm == s[Small(s)]
    IN
    /\ Live(slot) = I /\ sm.num > 0 /\ Sparse(s)
    /\ sm.keys \cap (s[0].keys \cup s[Big(s)].keys) = {}
    /\ \E r \in Redistribute(sm, s[0], s[Big(s)]) :
          /\ slot' = [s EXCEPT ![0] = r[1], ![1] = r[2], ![2] = NoTable]
          /\ deny' = deny \cup r[3]
          /\ doubled' = doubled \cup StoredTwice(r)
    /\ result' = 1
    /\ UNCHANGED <<pt, inl>>

(* k is in no table: all its denylist entries go.  When nothing else of    *)
(* the source is left del reports the slot empty, but src and pt stay.     *)
DelDenied(k) ==
    /\ k \in deny
    /\ deny' = deny \ {k}
    /\ result' = IF deny = {k} /\ Live(slot) = {} THEN -1 ELSE 1
    /\ UNCHANGED <<pt, inl, slot, doubled>>

DelFound(k) ==
    \/ DelInline(k)
    \/ /\ pt < 0 /\ k \in Stored
       /\ \/ DelKeeps(k) \/ DelLast(k) \/ DelHalves(k) \/ DelDrops(k)
          \/ DelShrinksTwo(k) \/ DelShrinksThree(k)
    \/ /\ pt < 0 /\ k \notin Stored /\ DelDenied(k)

(* del of an edge of this source, followed by post_del.                    *)
Del(k) ==
    /\ phase = "idle"
    /\ DelFound(k)
    /\ edges' = edges \ {k}
    /\ phase' = "post"
    /\ UNCHANGED others

(* post_del erased the entry k before it inserts k.  A source with edges   *)
(* in the denylist has its other edges in tables (EnumeratedOnce).         *)
PostReinsert(k) ==
    IF k \in Stored
    THEN deny' = deny \ {k} /\ UNCHANGED <<pt, inl, slot>>
    ELSE InsertChained(k, deny \ {k})

(* An iteration of post_del takes an entry out of an overlong denylist and *)
(* inserts it again: one of another source, or one of this.                *)
PostDel ==
    /\ phase = "post"
    /\ Cardinality(deny) + others > Sbl
    /\ \/ /\ others > 0
          /\ others' = others - 1
          /\ UNCHANGED <<pt, inl, slot, deny>>
       \/ /\ \E k \in deny : PostReinsert(k)
          /\ UNCHANGED others
    /\ UNCHANGED <<phase, result, edges, doubled>>

PostDone ==
    /\ phase = "post"
    /\ Cardinality(deny) + others <= Sbl
    /\ phase' = "idle"
    /\ result' = 0
    /\ UNCHANGED <<pt, inl, slot, deny, others, edges, doubled>>

(* Other sources insert and delete.                                        *)
OthersMove ==
    /\ phase = "idle"
    /\ others' \in 0 .. MaxOthers
    /\ others' # others
    /\ UNCHANGED <<pt, inl, slot, deny, phase, result, edges, doubled>>

Next ==
    \/ \E k \in Keys : Insert(k) \/ Del(k)
    \/ PostDel \/ PostDone \/ OthersMove

Spec == Init /\ [][Next]_vars

-----------------------------------------------------------------------------
TypeOK ==
    /\ pt \in -1 .. Lt
    /\ inl \in SUBSET Keys
    /\ slot \in [I -> Tables \cup {NoTable}]
    /\ deny \in SUBSET Keys
    /\ others \in 0 .. MaxOthers
    /\ phase \in {"idle", "post"}
    /\ result \in {-1, 0, 1}
    /\ edges \in SUBSET Keys
    /\ doubled \in SUBSET Keys

(* Whatever the tables hand back, however the chain grows, is merged,      *)
(* halved and emptied into each other, query finds exactly the edges that  *)
(* were inserted and not deleted: as long as no redistribution stored a    *)
(* key twice (main.cpp:1347, 1371).                                        *)
NoEdgeLost == doubled = {} => {k \in Keys : Query(k)} = edges

(* Whatever was moved between tables and denylist, the enumerations emit   *)
(* every edge once: none is in two tables, or in a table and the denylist. *)
EnumeratedOnce ==
    doubled = {} => Successors = edges /\ Emitted = Cardinality(edges)

(* The counters the growth and shrink thresholds read agree with the       *)
(* contents after every merge, halving, redistribution and failed insert.  *)
NumsExact ==
    doubled = {} => \A i \in Live(slot) : slot[i].num = Cardinality(slot[i].keys)

(* The chain has no gap below a table, and the second and third table are  *)
(* half as long as the first: insert dereferences slot[0] and slot[1]      *)
(* without a check (872, 901), and merge walks l1 / 2 buckets of both      *)
(* (763, 788): on a longer table it would drop keys, on a shorter one read *)
(* past the end.  Lengths stay even where they are halved.                 *)
ChainShape ==
    /\ Live(slot) \in {{}, {0}, {0, 1}, I}
    /\ \A i \in Live(slot) :
          /\ slot[i].len1 >= 1 /\ slot[i].len2 >= 1
          /\ i > 0 => /\ 2 * slot[i].len1 = slot[0].len1
                      /\ 2 * slot[i].len2 = slot[0].len2

(* holemerge erases a denylisted slot for which del returned -1 (2313) and *)
(* the owning table stops counting it (1667): no edge may be left in it.   *)
EmptiedMeansEmpty ==
    [][phase = "idle" /\ phase' = "post" /\ result' = -1 /\ doubled' = {}
          => edges' = {}]_vars

(* test_hole_del_err asserts !query(e) right after del(e) (3145, 3154).    *)
DeletedIsGone == \A k \in Keys : Query(k) => k \in edges
=============================================================================
