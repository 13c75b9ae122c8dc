------------------------------ MODULE TableOps ------------------------------
(***************************************************************************)
(* Cuckoo tables as their owners see them: a shape, a set of keys and the  *)
(* counter num.  Pour gives the outcomes of inserting a set of new keys    *)
(* one after the other, each insertion being a step of KeyTable, which     *)
(* Cuckoo implements; the bulk moves of the code are such sequences.  Both *)
(* levels use it: the tables of one source (keys are destinations) and     *)
(* those of the graph (keys are sources).                                  *)
(***************************************************************************)
EXTENDS Integers, FiniteSets

CONSTANTS
    Bup,        \* slots of a bucket (bup)
    MinC2,      \* a table whose second layer is shorter is not halved (minc2)
    NoTable     \* a null pointer in a chain

(* A chain: the three table pointers of a bSlot or of a holemerge.         *)
I == 0 .. 2
EmptyChain == [i \in I |-> NoTable]
Live(s) == {i \in I : s[i] # NoTable}
KeysOf(s) == UNION {s[i].keys : i \in Live(s)}

NewTable(l1, l2) == [len1 |-> l1, len2 |-> l2, keys |-> {}, num |-> 0]
(* The table t with other contents.                                        *)
Holding(t, keys, num) ==
    [len1 |-> t.len1, len2 |-> t.len2, keys |-> keys, num |-> num]

(* Mutant: a new table as long as the one it follows.                      *)
NotHalfOf(t) == NewTable(t.len1, t.len2)

HalfOf(t) == NewTable(t.len1 \div 2, t.len2 \div 2)

Cap(t) == (t.len1 + t.len2) * Bup

(* num < capacity * rate, with rate 0.9.                                   *)
BelowRateAt(n, t) == 10 * n < 9 * Cap(t)
BelowRate(t) == BelowRateAt(t.num, t)

(* The table an insertion goes to: the last of the chain below the rate.   *)
HighestBelowRate(s) ==
    LET roomy == {i \in Live(s) : BelowRate(s[i])}
    IN  {i \in roomy : \A j \in roomy : j <= i}

(* num / capacity over the tables of a chain < cthres, with cthres 0.35.   *)
SumNum(s) == LET n(i) == IF s[i] = NoTable THEN 0 ELSE s[i].num
             IN  n(0) + n(1) + n(2)
SumCap(s) == LET c(i) == IF s[i] = NoTable THEN 0 ELSE Cap(s[i])
             IN  c(0) + c(1) + c(2)
Sparse(s) == 20 * SumNum(s) < 7 * SumCap(s)

(* The smaller of the second and third table, and the other one.           *)
Small(s) == IF s[2].num > s[1].num THEN 1 ELSE 2
Big(s)   == 3 - Small(s)

Without(t, k) == Holding(t, t.keys \ {k}, t.num - 1)

(* Inserting the keys of M, none of which t holds, in some order: the      *)
(* tables and handed back keys <<t', R>>.  Each failed insertion hands one *)
(* key back (the new one or a stored one) and leaves num alone, so that at *)
(* most |M| come back, and none before the table held 2 * Bup keys.        *)
Pour(t, M) ==
    LET held == t.keys \cup M
        size(R) == Cardinality(held) - Cardinality(R)
    IN  {<<Holding(t, held \ R, t.num + Cardinality(M) - Cardinality(R)), R>> :
            R \in {R \in SUBSET held : /\ Cardinality(R) <= Cardinality(M)
                                       /\ size(R) <= Cap(t)
                                       /\ R # {} => size(R) >= 2 * Bup}}

TwiceOf(t) ==
    [len1 |-> t.len1 * 2, len2 |-> t.len2 * 2, keys |-> t.keys, num |-> t.num]

(* Mutant: the third table is not walked.                                  *)
MergeSkipsThird(c0, c1, c2) ==
    Pour(TwiceOf(c0), c1.keys)

(* merge(c0, c1, c2): a table of twice the length of c0.  The keys of c0   *)
(* are split over the two buckets each bucket becomes; those of c1 and c2  *)
(* are put in the bucket they hash to or, when it is full, inserted.       *)
MergeTables(c0, c1, c2) ==
    Pour(TwiceOf(c0), c1.keys \cup c2.keys)

(* Mutant: num is kept although keys were handed back (no --asum).         *)
CompressKeepsNum(c1) ==
    {<<Holding(p[1], p[1].keys, c1.num), p[2]>> : p \in Pour(HalfOf(c1), c1.keys)}

(* compress(c1): a table of half the length.  num counts down for each key *)
(* handed back.                                                            *)
CompressTable(c1) ==
    {<<Holding(p[1], p[1].keys, c1.num - Cardinality(p[2])), p[2]>> :
        p \in Pour(HalfOf(c1), c1.keys)}

(* Moving the keys of sm into t0 while it is below the rate and into tb    *)
(* from then on.  Where the insertion of a key x into t0 fails, the code   *)
(* inserts x into tb although t0 may have stored it and handed another key *)
(* back, which is forgotten.  moved are the keys that went into t0, failed *)
(* such x, and forgotten the keys t0 handed back for them.                 *)
Moves(sm, t0) ==
    {o \in [moved : SUBSET sm.keys, failed : SUBSET sm.keys,
            forgotten : SUBSET (t0.keys \cup sm.keys)] :
       LET n == t0.num + Cardinality(o.moved) IN
       /\ o.moved \cap o.failed = {}
       /\ o.forgotten \subseteq t0.keys \cup o.moved \cup o.failed
       /\ Cardinality(o.forgotten) = Cardinality(o.failed)
       /\ o.moved # {} => BelowRateAt(n - 1, t0)
       /\ o.moved \cup o.failed # sm.keys => ~ BelowRateAt(n, t0)
       /\ o.failed # {} => \E m \in t0.num .. n : BelowRateAt(m, t0) /\ m >= 2 * Bup}

AfterMoves(t0, o) ==
    Holding(t0, (t0.keys \cup o.moved \cup o.failed) \ o.forgotten,
            t0.num + Cardinality(o.moved))

(* Outcomes <<t0', tb', R>>, R being what tb handed back.                  *)
Redistribute(sm, t0, tb) ==
    UNION {{<<AfterMoves(t0, o), p[1], p[2]>> : p \in Pour(tb, sm.keys \ o.moved)} :
              o \in Moves(sm, t0)}

(* The keys a redistribution left in two places.                           *)
StoredTwice(r) == r[1].keys \cap (r[2].keys \cup r[3])
=============================================================================
