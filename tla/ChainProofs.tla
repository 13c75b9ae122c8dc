----------------------------- MODULE ChainProofs -----------------------------
(***************************************************************************)
(* What the operators of TableOps preserve, and what the owner of a chain  *)
(* of tables and a denylist does to the keys in them.  Each insertion,     *)
(* merge, halving or redistribution accounts for every key it was given: a *)
(* key is in a table or was handed back, never both, and num counts the    *)
(* keys.  Each rearrangement of a chain keeps every key in one place.      *)
(***************************************************************************)
EXTENDS TableOps, FiniteSetTheorems, TLAPS

(***************************************************************************)
(* One or two tables.                                                      *)
(***************************************************************************)

Records(K) == [len1 : Nat, len2 : Nat, keys : SUBSET K, num : Nat]

(* A table of keys of K whose counter is right.                            *)
Exact(t, K) == t \in Records(K) /\ t.num = Cardinality(t.keys)

-----------------------------------------------------------------------------
LEMMA DifferenceSize ==
  ASSUME NEW S, IsFiniteSet(S), NEW R \in SUBSET S
  PROVE  /\ IsFiniteSet(S \ R)
         /\ Cardinality(S \ R) = Cardinality(S) - Cardinality(R)
         /\ Cardinality(S) \in Nat /\ Cardinality(R) \in Nat
         /\ Cardinality(S \ R) \in Nat
  <1>1. IsFiniteSet(R) /\ IsFiniteSet(S \ R)
    BY FS_Subset
  <1>2. Cardinality(S \ R) = Cardinality(S) - Cardinality(S \cap R)
    BY FS_Difference
  <1>3. S \cap R = R
    OBVIOUS
  <1> QED  BY <1>1, <1>2, <1>3, FS_CardinalityType

LEMMA UnionSize ==
  ASSUME NEW S, NEW T, IsFiniteSet(S), IsFiniteSet(T), S \cap T = {}
  PROVE  /\ IsFiniteSet(S \cup T)
         /\ Cardinality(S \cup T) = Cardinality(S) + Cardinality(T)
         /\ Cardinality(S) \in Nat /\ Cardinality(T) \in Nat
  <1>1. /\ IsFiniteSet(S \cup T)
        /\ Cardinality(S \cup T) = Cardinality(S) + Cardinality(T) - Cardinality(S \cap T)
    BY FS_Union
  <1>2. Cardinality(S \cap T) = 0
    BY FS_EmptySet
  <1> QED  BY <1>1, <1>2, FS_CardinalityType

(* Insertions of new keys account for all keys, and num stays exact.       *)
LEMMA PourAccounts ==
  ASSUME NEW K, IsFiniteSet(K), NEW t, Exact(t, K),
         NEW M \in SUBSET K, M \cap t.keys = {}, NEW p \in Pour(t, M)
  PROVE  /\ Exact(p[1], K)
         /\ p[1].len1 = t.len1 /\ p[1].len2 = t.len2
         /\ p[2] \in SUBSET K
         /\ p[1].keys \cup p[2] = t.keys \cup M
         /\ p[1].keys \cap p[2] = {}
         /\ Cardinality(p[2]) <= Cardinality(M)
         /\ p[1].num = t.num + Cardinality(M) - Cardinality(p[2])
  <1> DEFINE held == t.keys \cup M
  <1>1. PICK R \in SUBSET held :
          /\ Cardinality(R) <= Cardinality(M)
          /\ p = <<Holding(t, held \ R, t.num + Cardinality(M) - Cardinality(R)), R>>
    BY DEF Pour
  <1>2. t \in Records(K) /\ t.num = Cardinality(t.keys)
    BY DEF Exact
  <1>3. IsFiniteSet(t.keys) /\ IsFiniteSet(M)
    BY <1>2, FS_Subset DEF Records
  <1>4. IsFiniteSet(held) /\ Cardinality(held) = t.num + Cardinality(M)
    BY <1>2, <1>3, UnionSize
  <1> HIDE DEF held
  <1>5. /\ Cardinality(held \ R) = Cardinality(held) - Cardinality(R)
        /\ Cardinality(held \ R) \in Nat /\ Cardinality(R) \in Nat
    BY <1>4, DifferenceSize
  <1>6. /\ p[1].keys = held \ R /\ p[2] = R
        /\ p[1].num = t.num + Cardinality(M) - Cardinality(R)
        /\ p[1].len1 = t.len1 /\ p[1].len2 = t.len2
        /\ p[1] = Holding(t, held \ R, p[1].num)
    BY <1>1, <1>2 DEF Records, Holding
  <1>7. p[1].num = Cardinality(held \ R) /\ p[1].num \in Nat
    <2>1. t.num \in Nat /\ Cardinality(M) \in Nat
      BY <1>2, <1>3, FS_CardinalityType DEF Records
    <2>2. Cardinality(held \ R) = t.num + Cardinality(M) - Cardinality(R)
      BY <1>4, <1>5, <2>1
    <2> QED  BY <1>5, <1>6, <2>2
  <1>8. held \ R \in SUBSET K
    BY <1>2 DEF Records, held
  <1>9. Holding(t, held \ R, p[1].num) \in Records(K)
    BY <1>2, <1>7, <1>8 DEF Records, Holding
  <1>10. Exact(p[1], K)
    BY <1>6, <1>7, <1>9 DEF Exact
  <1> QED  BY <1>1, <1>6, <1>8, <1>10, <1>2 DEF Records, held

(* Sets of one size, one in the other, are equal.                          *)
LEMMA SameSize ==
  ASSUME NEW T, IsFiniteSet(T), NEW S \in SUBSET T, Cardinality(S) = Cardinality(T)
  PROVE  S = T
  BY FS_Subset

(* A set of at most one element has no other than the one it has.          *)
LEMMA OnlyElement ==
  ASSUME NEW S, IsFiniteSet(S), Cardinality(S) <= 1, NEW x \in S
  PROVE  S = {x}
  <1>1. {x} \in SUBSET S /\ IsFiniteSet({x}) /\ Cardinality({x}) = 1
    BY FS_Singleton
  <1>2. Cardinality({x}) <= Cardinality(S) /\ Cardinality(S) \in Nat
    BY <1>1, FS_Subset, FS_CardinalityType
  <1> QED  BY <1>1, <1>2, SameSize

-----------------------------------------------------------------------------
(* Halving keeps every key of a table, in it or handed back.               *)
LEMMA CompressAccounts ==
  ASSUME NEW K, IsFiniteSet(K), NEW c1, Exact(c1, K), NEW p \in CompressTable(c1)
  PROVE  /\ Exact(p[1], K)
         /\ p[2] \in SUBSET K
         /\ p[1].keys \cup p[2] = c1.keys
         /\ p[1].keys \cap p[2] = {}
  <1> DEFINE half == HalfOf(c1)
  <1>1. /\ c1 \in Records(K) /\ c1.num = Cardinality(c1.keys)
        /\ c1.keys \in SUBSET K /\ c1.num \in Nat
    BY DEF Exact, Records
  <1>2. half \in Records(K) /\ half.keys = {} /\ half.num = 0
    BY <1>1 DEF Records, HalfOf, NewTable
  <1>3. Exact(half, K)
    BY <1>2, FS_EmptySet DEF Exact
  <1>4. PICK q \in Pour(half, c1.keys) :
          p = <<Holding(q[1], q[1].keys, c1.num - Cardinality(q[2])), q[2]>>
    BY DEF CompressTable
  <1> HIDE DEF half
  <1>5. /\ Exact(q[1], K) /\ q[2] \in SUBSET K
        /\ q[1].keys \cup q[2] = c1.keys /\ q[1].keys \cap q[2] = {}
        /\ q[1].num = half.num + Cardinality(c1.keys) - Cardinality(q[2])
    BY <1>1, <1>2, <1>3, PourAccounts
  <1>6. Cardinality(q[2]) \in Nat
    BY <1>5, FS_Subset, FS_CardinalityType
  <1>7. c1.num - Cardinality(q[2]) = q[1].num
    BY <1>1, <1>2, <1>5, <1>6
  <1>8. p = <<Holding(q[1], q[1].keys, q[1].num), q[2]>>
    BY <1>4, <1>7
  <1>9. q[1] \in Records(K)
    BY <1>5 DEF Exact
  <1>10. Holding(q[1], q[1].keys, q[1].num) = q[1]
    BY <1>9 DEF Records, Holding
  <1> QED  BY <1>5, <1>8, <1>10

(* Merging keeps every key of three tables that share none.                *)
LEMMA MergeAccounts ==
  ASSUME NEW K, IsFiniteSet(K),
         NEW c0, Exact(c0, K), NEW c1, Exact(c1, K), NEW c2, Exact(c2, K),
         c0.keys \cap (c1.keys \cup c2.keys) = {}, NEW p \in MergeTables(c0, c1, c2)
  PROVE  /\ Exact(p[1], K)
         /\ p[2] \in SUBSET K
         /\ p[1].keys \cup p[2] = c0.keys \cup c1.keys \cup c2.keys
         /\ p[1].keys \cap p[2] = {}
  <1>1. Exact(TwiceOf(c0), K) /\ TwiceOf(c0).keys = c0.keys
    BY DEF Exact, Records, TwiceOf
  <1>2. c1.keys \cup c2.keys \in SUBSET K
    BY DEF Exact, Records
  <1>3. p \in Pour(TwiceOf(c0), c1.keys \cup c2.keys)
    BY DEF MergeTables
  <1>4. (c1.keys \cup c2.keys) \cap TwiceOf(c0).keys = {}
    BY <1>1
  <1>5. /\ Exact(p[1], K) /\ p[2] \in SUBSET K
        /\ p[1].keys \cup p[2] = TwiceOf(c0).keys \cup (c1.keys \cup c2.keys)
        /\ p[1].keys \cap p[2] = {}
    BY <1>1, <1>2, <1>3, <1>4, PourAccounts
  <1> QED  BY <1>1, <1>5

(* A redistribution keeps the counters of both tables right, and every key *)
(* unless it stores one twice: as many keys are forgotten as are stored in *)
(* both tables or handed back, so none of the one means none of the other. *)
LEMMA RedistributeAccounts ==
  ASSUME NEW K, IsFiniteSet(K),
         NEW sm, Exact(sm, K), NEW t0, Exact(t0, K), NEW tb, Exact(tb, K),
         sm.keys \cap (t0.keys \cup tb.keys) = {}, NEW r \in Redistribute(sm, t0, tb)
  PROVE  /\ Exact(r[1], K) /\ Exact(r[2], K)
         /\ r[3] \in SUBSET K
         /\ r[2].keys \cap r[3] = {}
         /\ StoredTwice(r) \in SUBSET K
         /\ StoredTwice(r) = {} =>
              r[1].keys \cup r[2].keys \cup r[3] = sm.keys \cup t0.keys \cup tb.keys
  <1>1. PICK o \in Moves(sm, t0) : \E p \in Pour(tb, sm.keys \ o.moved) :
          r = <<AfterMoves(t0, o), p[1], p[2]>>
    BY DEF Redistribute
  <1>2. PICK p \in Pour(tb, sm.keys \ o.moved) :
          r = <<AfterMoves(t0, o), p[1], p[2]>>
    BY <1>1
  <1>3. /\ o.moved \in SUBSET sm.keys /\ o.failed \in SUBSET sm.keys
        /\ o.moved \cap o.failed = {}
        /\ o.forgotten \subseteq t0.keys \cup o.moved \cup o.failed
        /\ Cardinality(o.forgotten) = Cardinality(o.failed)
    BY DEF Moves
  <1>4. /\ sm.keys \in SUBSET K /\ t0.keys \in SUBSET K /\ tb.keys \in SUBSET K
        /\ t0 \in Records(K) /\ t0.num = Cardinality(t0.keys) /\ t0.num \in Nat
    BY DEF Exact, Records
  <1>5. /\ Exact(p[1], K) /\ p[2] \in SUBSET K
        /\ p[1].keys \cup p[2] = tb.keys \cup (sm.keys \ o.moved)
        /\ p[1].keys \cap p[2] = {}
    BY <1>3, <1>4, PourAccounts
  <1> DEFINE taken == t0.keys \cup o.moved \cup o.failed
             left  == taken \ o.forgotten
             count == t0.num + Cardinality(o.moved)
  <1>6. AfterMoves(t0, o) = Holding(t0, left, count)
    BY DEF AfterMoves
  <1>7. /\ IsFiniteSet(t0.keys) /\ IsFiniteSet(o.moved) /\ IsFiniteSet(o.failed)
        /\ IsFiniteSet(t0.keys \cup o.moved)
    BY <1>3, <1>4, FS_Subset, FS_Union
  <1>8. Cardinality(t0.keys \cup o.moved) = Cardinality(t0.keys) + Cardinality(o.moved)
    BY <1>3, <1>7, UnionSize
  <1>9. /\ IsFiniteSet(taken)
        /\ Cardinality(taken) = Cardinality(t0.keys \cup o.moved) + Cardinality(o.failed)
    BY <1>3, <1>7, UnionSize
  <1>10. Cardinality(left) = Cardinality(taken) - Cardinality(o.forgotten)
    BY <1>3, <1>9, DifferenceSize
  <1>11. Cardinality(o.moved) \in Nat /\ Cardinality(o.failed) \in Nat
    BY <1>7, FS_CardinalityType
  <1>12. left \in SUBSET K
    BY <1>3, <1>4
  <1>13. Exact(Holding(t0, left, count), K)
    <2> HIDE DEF left, taken
    <2>1. Cardinality(left) = count /\ count \in Nat
      BY <1>3, <1>4, <1>8, <1>9, <1>10, <1>11
    <2> HIDE DEF count
    <2>2. Holding(t0, left, count) \in Records(K)
      BY <1>4, <1>12, <2>1 DEF Records, Holding
    <2> QED  BY <2>1, <2>2 DEF Exact, Holding
  <1>14. r[1].keys = left /\ r[2] = p[1] /\ r[3] = p[2] /\ r[1] = Holding(t0, left, count)
    BY <1>2, <1>6 DEF Holding
  <1>15. ASSUME StoredTwice(r) = {}
         PROVE  r[1].keys \cup r[2].keys \cup r[3] = sm.keys \cup t0.keys \cup tb.keys
    <2>1. left \cap (p[1].keys \cup p[2]) = {}
      BY <1>14, <1>15 DEF StoredTwice
    <2>2. o.failed \subseteq p[1].keys \cup p[2]
      BY <1>3, <1>5
    <2>3. o.failed \in SUBSET o.forgotten
      BY <2>1, <2>2
    <2>4. IsFiniteSet(o.forgotten)
      BY <1>3, <1>9, FS_Subset
    <2>5. o.failed = o.forgotten
      BY <1>3, <2>3, <2>4, SameSize
    <2>6. left = t0.keys \cup o.moved
      BY <1>3, <2>5
    <2> QED  BY <1>3, <1>5, <1>14, <2>6
  <1>16. StoredTwice(r) \in SUBSET K
    BY <1>12, <1>14 DEF StoredTwice
  <1> QED  BY <1>5, <1>13, <1>14, <1>15, <1>16

-----------------------------------------------------------------------------
(***************************************************************************)
(* A chain of tables and its denylist.                                     *)
(***************************************************************************)

(* Tables whose counter may be wrong, and the null pointer.                *)
Loose(K) == [len1 : Nat, len2 : Nat, keys : SUBSET K, num : Int]
Nullable(K) == IsFiniteSet(K) /\ NoTable \notin Loose(K)

LooseChain(s, K) == s \in [I -> Loose(K) \cup {NoTable}]
ExactChain(s, K) == LooseChain(s, K) /\ \A i \in Live(s) : Exact(s[i], K)

(* The keys behind the pointer i of a chain.                               *)
KeysAt(s, i) == IF s[i] = NoTable THEN {} ELSE s[i].keys

Put(s, i, t) == [s EXCEPT ![i] = t]
TwoTables(t0, t1) == [i \in I |-> IF i = 0 THEN t0 ELSE IF i = 1 THEN t1 ELSE NoTable]

(* No key is in two tables.                                                *)
Separate(s) ==
    /\ KeysAt(s, 0) \cap KeysAt(s, 1) = {}
    /\ KeysAt(s, 0) \cap KeysAt(s, 2) = {}
    /\ KeysAt(s, 1) \cap KeysAt(s, 2) = {}

(* The keys X are split over the chain s and the denylist d, and every     *)
(* table counts its own.                                                   *)
Split(s, d, X, K) ==
    /\ ExactChain(s, K) /\ d \in SUBSET K
    /\ Separate(s) /\ KeysOf(s) \cap d = {}
    /\ KeysOf(s) \cup d = X

-----------------------------------------------------------------------------

(* A table that counts its keys is a table, and not the null pointer.      *)
LEMMA ExactIsLoose ==
  ASSUME NEW K, Nullable(K), NEW t, Exact(t, K)
  PROVE  /\ t \in Loose(K) /\ t # NoTable
         /\ t.keys \in SUBSET K /\ t.num \in Nat /\ t.len1 \in Nat /\ t.len2 \in Nat
  <1>1. t \in Records(K)
    BY DEF Exact
  <1>2. t \in Loose(K)
    BY <1>1 DEF Records, Loose
  <1> QED  BY <1>1, <1>2 DEF Nullable, Records

(* The keys of a chain are those behind its three pointers.                *)
LEMMA ChainKeysAt ==
  ASSUME NEW K, NEW s, LooseChain(s, K)
  PROVE  /\ KeysOf(s) = KeysAt(s, 0) \cup KeysAt(s, 1) \cup KeysAt(s, 2)
         /\ KeysOf(s) \in SUBSET K
         /\ \A i \in I : KeysAt(s, i) \in SUBSET K
  BY DEF LooseChain, KeysOf, Live, KeysAt, I, Loose

(* The tables of a chain, by the pointers that are not null.               *)
LEMMA LiveTables ==
  ASSUME NEW K, NEW s, ExactChain(s, K)
  PROVE  \A i \in I : IF i \in Live(s) THEN Exact(s[i], K) /\ KeysAt(s, i) = s[i].keys
                                       ELSE s[i] = NoTable /\ KeysAt(s, i) = {}
  BY DEF ExactChain, Live, KeysAt

(* A table is put behind a pointer.                                        *)
LEMMA PutExact ==
  ASSUME NEW K, Nullable(K), NEW s, ExactChain(s, K), NEW i \in I, NEW t, Exact(t, K)
  PROVE  /\ ExactChain(Put(s, i, t), K)
         /\ Live(Put(s, i, t)) = Live(s) \cup {i}
         /\ \A j \in I : KeysAt(Put(s, i, t), j) = IF j = i THEN t.keys ELSE KeysAt(s, j)
  <1> DEFINE s2 == Put(s, i, t)
  <1>1. t \in Loose(K) /\ t # NoTable /\ NoTable \notin Loose(K) /\ LooseChain(s, K)
    BY ExactIsLoose DEF Nullable, ExactChain
  <1>2. LooseChain(s2, K) /\ Live(s2) = Live(s) \cup {i}
    BY <1>1 DEF LooseChain, Live, Put
  <1>3. \A j \in I : s2[j] = IF j = i THEN t ELSE s[j]
    BY <1>1 DEF LooseChain, Put
  <1> HIDE DEF s2
  <1>4. ExactChain(s2, K)
    BY <1>2, <1>3 DEF ExactChain, Live
  <1>5. \A j \in I : KeysAt(s2, j) = IF j = i THEN t.keys ELSE KeysAt(s, j)
    BY <1>1, <1>3 DEF KeysAt
  <1> QED  BY <1>2, <1>4, <1>5 DEF s2

(* A pointer is made null.                                                 *)
LEMMA DropExact ==
  ASSUME NEW K, NEW s, ExactChain(s, K), NEW i \in I
  PROVE  /\ ExactChain(Put(s, i, NoTable), K)
         /\ Live(Put(s, i, NoTable)) = Live(s) \ {i}
         /\ \A j \in I : KeysAt(Put(s, i, NoTable), j) = IF j = i THEN {} ELSE KeysAt(s, j)
  <1> DEFINE s2 == Put(s, i, NoTable)
  <1>1. LooseChain(s, K)
    BY DEF ExactChain
  <1>2. LooseChain(s2, K) /\ Live(s2) = Live(s) \ {i}
    BY <1>1 DEF LooseChain, Live, Put
  <1>3. \A j \in I : s2[j] = IF j = i THEN NoTable ELSE s[j]
    BY <1>1 DEF LooseChain, Put
  <1> HIDE DEF s2
  <1>4. ExactChain(s2, K)
    BY <1>2, <1>3 DEF ExactChain, Live
  <1>5. \A j \in I : KeysAt(s2, j) = IF j = i THEN {} ELSE KeysAt(s, j)
    BY <1>3 DEF KeysAt
  <1> QED  BY <1>2, <1>4, <1>5 DEF s2

(* A chain of null pointers holds no key and counts right.                 *)
LEMMA NullChain ==
  ASSUME NEW K
  PROVE  /\ ExactChain(EmptyChain, K) /\ Live(EmptyChain) = {} /\ KeysOf(EmptyChain) = {}
         /\ Separate(EmptyChain)
  BY DEF EmptyChain, ExactChain, LooseChain, Live, KeysOf, Separate, KeysAt, I

(* A new table counts its keys: none.                                      *)
LEMMA NewExact ==
  ASSUME NEW K, NEW l1 \in Nat, NEW l2 \in Nat
  PROVE  Exact(NewTable(l1, l2), K) /\ NewTable(l1, l2).keys = {}
  BY FS_EmptySet DEF Exact, Records, NewTable

(* So does the new table of half the lengths that compress and merge       *)
(* create.                                                                 *)
LEMMA HalfExact ==
  ASSUME NEW K, NEW t, Exact(t, K)
  PROVE  Exact(HalfOf(t), K) /\ HalfOf(t).keys = {}
  <1>1. t.len1 \div 2 \in Nat /\ t.len2 \div 2 \in Nat
    BY DEF Exact, Records
  <1> QED  BY <1>1, NewExact DEF HalfOf

(* A table that counts no key holds none: what is deleted at num = 0 is    *)
(* empty.                                                                  *)
LEMMA ZeroHolds ==
  ASSUME NEW K, IsFiniteSet(K), NEW t, Exact(t, K), t.num = 0
  PROVE  t.keys = {}
  BY FS_Subset, FS_EmptySet DEF Exact, Records

(* A table whose del found the key still counts its keys.                  *)
LEMMA WithoutExact ==
  ASSUME NEW K, IsFiniteSet(K), NEW t, Exact(t, K), NEW k \in t.keys
  PROVE  Exact(Without(t, k), K) /\ Without(t, k).keys = t.keys \ {k}
  <1>1. t.keys \in SUBSET K /\ t.num = Cardinality(t.keys) /\ t \in Records(K)
    BY DEF Exact, Records
  <1>2. IsFiniteSet(t.keys)
    BY <1>1, FS_Subset
  <1>3. /\ Cardinality(t.keys \ {k}) = Cardinality(t.keys) - 1
        /\ Cardinality(t.keys \ {k}) \in Nat
    BY <1>2, FS_RemoveElement, FS_CardinalityType
  <1> QED  BY <1>1, <1>3 DEF Exact, Records, Without, Holding

(* A chain of two tables.                                                  *)
LEMMA TwoExact ==
  ASSUME NEW K, Nullable(K), NEW t0, Exact(t0, K), NEW t1, Exact(t1, K)
  PROVE  LET s2 == TwoTables(t0, t1)
         IN  /\ ExactChain(s2, K) /\ Live(s2) = {0, 1}
             /\ KeysAt(s2, 0) = t0.keys /\ KeysAt(s2, 1) = t1.keys /\ KeysAt(s2, 2) = {}
             /\ KeysOf(s2) = t0.keys \cup t1.keys
  <1> DEFINE s2 == TwoTables(t0, t1)
  <1>1. t0 \in Loose(K) /\ t0 # NoTable /\ t1 \in Loose(K) /\ t1 # NoTable
    BY ExactIsLoose
  <1>2. /\ LooseChain(s2, K) /\ Live(s2) = {0, 1}
        /\ s2[0] = t0 /\ s2[1] = t1 /\ s2[2] = NoTable
    BY <1>1 DEF TwoTables, LooseChain, Live, I
  <1> HIDE DEF s2
  <1>3. ExactChain(s2, K)
    BY <1>2 DEF ExactChain
  <1>4. KeysAt(s2, 0) = t0.keys /\ KeysAt(s2, 1) = t1.keys /\ KeysAt(s2, 2) = {}
    BY <1>1, <1>2 DEF KeysAt
  <1>5. KeysOf(s2) = t0.keys \cup t1.keys
    BY <1>2, <1>4, ChainKeysAt
  <1> QED  BY <1>2, <1>3, <1>4, <1>5 DEF s2

(* A full chain, spelled out over its three tables.                        *)
LEMMA ThreeExact ==
  ASSUME NEW K, NEW s, ExactChain(s, K), Live(s) = I
  PROVE  /\ Exact(s[0], K) /\ Exact(s[1], K) /\ Exact(s[2], K)
         /\ KeysAt(s, 0) = s[0].keys /\ KeysAt(s, 1) = s[1].keys /\ KeysAt(s, 2) = s[2].keys
         /\ KeysOf(s) = s[0].keys \cup s[1].keys \cup s[2].keys
  <1>1. /\ Exact(s[0], K) /\ Exact(s[1], K) /\ Exact(s[2], K)
        /\ KeysAt(s, 0) = s[0].keys /\ KeysAt(s, 1) = s[1].keys /\ KeysAt(s, 2) = s[2].keys
    BY LiveTables DEF I
  <1>2. KeysOf(s) = KeysAt(s, 0) \cup KeysAt(s, 1) \cup KeysAt(s, 2)
    BY ChainKeysAt DEF ExactChain
  <1> QED  BY <1>1, <1>2

(* Assigning the pointers one by one makes the chain of two tables.        *)
LEMMA Assigned ==
  ASSUME NEW K, NEW s, LooseChain(s, K), NEW t0, NEW t1
  PROVE  [s EXCEPT ![0] = t0, ![1] = t1, ![2] = NoTable] = TwoTables(t0, t1)
  <1> DEFINE f == [s EXCEPT ![0] = t0, ![1] = t1, ![2] = NoTable]
             g == TwoTables(t0, t1)
  <1>1. \A i \in I : i = 0 \/ i = 1 \/ i = 2
    BY DEF I
  <1>2. s \in [I -> Loose(K) \cup {NoTable}]
    BY DEF LooseChain
  <1>3. f = [i \in I |-> f[i]] /\ g = [i \in I |-> g[i]]
    BY <1>2 DEF TwoTables
  <1>4. ASSUME NEW i \in I
        PROVE  f[i] = g[i]
    BY <1>1, <1>2 DEF TwoTables
  <1> HIDE DEF f, g
  <1>5. f = g
    BY <1>3, <1>4
  <1> QED  BY <1>5 DEF f, g

(* The assignment L2 = t1; L3 = NULL, spelled out over the three pointers. *)
LEMMA AssignedKept ==
  ASSUME NEW K, NEW s, LooseChain(s, K), NEW t1
  PROVE  [s EXCEPT ![1] = t1, ![2] = NoTable] = TwoTables(s[0], t1)
  <1> DEFINE f == [s EXCEPT ![1] = t1, ![2] = NoTable]
             g == TwoTables(s[0], t1)
  <1>1. \A i \in I : i = 0 \/ i = 1 \/ i = 2
    BY DEF I
  <1>2. s \in [I -> Loose(K) \cup {NoTable}]
    BY DEF LooseChain
  <1>3. f = [i \in I |-> f[i]] /\ g = [i \in I |-> g[i]]
    BY <1>2 DEF TwoTables
  <1>4. ASSUME NEW i \in I
        PROVE  f[i] = g[i]
    BY <1>1, <1>2 DEF TwoTables
  <1> HIDE DEF f, g
  <1>5. f = g
    BY <1>3, <1>4
  <1> QED  BY <1>5 DEF f, g

(* The smaller of the second and third table is one of them, the larger    *)
(* the other.                                                              *)
LEMMA SmallAndBig ==
  ASSUME NEW s
  PROVE  \/ Small(s) = 1 /\ Big(s) = 2
         \/ Small(s) = 2 /\ Big(s) = 1
  BY DEF Small, Big

-----------------------------------------------------------------------------
(* Insertion into a chain.                                                 *)

(* A new key is poured into one of the tables, which may hand one back.    *)
LEMMA PouredIn ==
  ASSUME NEW K, Nullable(K), NEW s, NEW d, NEW X, Split(s, d, X, K),
         NEW i \in Live(s), NEW k \in K, k \notin X, NEW p \in Pour(s[i], {k})
  PROVE  Split([s EXCEPT ![i] = p[1]], d \cup p[2], X \cup {k}, K)
  <1> DEFINE s2 == Put(s, i, p[1])
  <1>1. /\ ExactChain(s, K) /\ d \in SUBSET K /\ Separate(s)
        /\ KeysOf(s) \cap d = {} /\ KeysOf(s) \cup d = X /\ IsFiniteSet(K)
        /\ LooseChain(s, K)
    BY DEF Split, Nullable, ExactChain
  <1>2. i \in I /\ Exact(s[i], K) /\ KeysAt(s, i) = s[i].keys
    BY <1>1, LiveTables DEF Live
  <1>3. KeysOf(s) = KeysAt(s, 0) \cup KeysAt(s, 1) \cup KeysAt(s, 2)
    BY <1>1, ChainKeysAt
  <1>4. (i = 0 \/ i = 1 \/ i = 2) /\ 0 \in I /\ 1 \in I /\ 2 \in I
    BY <1>2 DEF I
  <1>5. {k} \in SUBSET K /\ {k} \cap s[i].keys = {}
    BY <1>1, <1>2, <1>3, <1>4
  <1>6. /\ Exact(p[1], K) /\ p[2] \in SUBSET K
        /\ p[1].keys \cup p[2] = s[i].keys \cup {k}
        /\ p[1].keys \cap p[2] = {}
    BY <1>1, <1>2, <1>5, PourAccounts
  <1>7. /\ ExactChain(s2, K)
        /\ \A j \in I : KeysAt(s2, j) = IF j = i THEN p[1].keys ELSE KeysAt(s, j)
    BY <1>1, <1>2, <1>6, PutExact
  <1> HIDE DEF s2
  <1>8. KeysOf(s2) = KeysAt(s2, 0) \cup KeysAt(s2, 1) \cup KeysAt(s2, 2)
    BY <1>7, ChainKeysAt DEF ExactChain
  <1>9. Separate(s2)
    BY <1>1, <1>2, <1>3, <1>4, <1>6, <1>7 DEF Separate
  <1>10. KeysOf(s2) \cap (d \cup p[2]) = {}
    BY <1>1, <1>2, <1>3, <1>4, <1>6, <1>7, <1>8 DEF Separate
  <1>11. KeysOf(s2) \cup (d \cup p[2]) = X \cup {k}
    BY <1>1, <1>2, <1>3, <1>4, <1>6, <1>7, <1>8
  <1>12. Split(s2, d \cup p[2], X \cup {k}, K)
    BY <1>1, <1>6, <1>7, <1>9, <1>10, <1>11 DEF Split
  <1> QED  BY <1>12 DEF s2, Put

(* A new table takes the denylist and a new key.                           *)
LEMMA NextTakes ==
  ASSUME NEW K, Nullable(K), NEW s, NEW d, NEW X, Split(s, d, X, K),
         NEW i \in I, i \notin Live(s), NEW k \in K, k \notin X,
         NEW new, Exact(new, K), new.keys = {}, NEW p \in Pour(new, d \cup {k})
  PROVE  Split([s EXCEPT ![i] = p[1]], p[2], X \cup {k}, K)
  <1> DEFINE s2 == Put(s, i, p[1])
  <1>1. /\ ExactChain(s, K) /\ d \in SUBSET K /\ Separate(s)
        /\ KeysOf(s) \cap d = {} /\ KeysOf(s) \cup d = X /\ IsFiniteSet(K)
        /\ LooseChain(s, K)
    BY DEF Split, Nullable, ExactChain
  <1>2. KeysAt(s, i) = {}
    BY DEF KeysAt, Live
  <1>3. KeysOf(s) = KeysAt(s, 0) \cup KeysAt(s, 1) \cup KeysAt(s, 2)
    BY <1>1, ChainKeysAt
  <1>4. (i = 0 \/ i = 1 \/ i = 2) /\ 0 \in I /\ 1 \in I /\ 2 \in I
    BY DEF I
  <1>5. d \cup {k} \in SUBSET K /\ (d \cup {k}) \cap new.keys = {}
    BY <1>1
  <1>6. /\ Exact(p[1], K) /\ p[2] \in SUBSET K
        /\ p[1].keys \cup p[2] = new.keys \cup (d \cup {k})
        /\ p[1].keys \cap p[2] = {}
    BY <1>1, <1>5, PourAccounts
  <1>7. /\ ExactChain(s2, K)
        /\ \A j \in I : KeysAt(s2, j) = IF j = i THEN p[1].keys ELSE KeysAt(s, j)
    BY <1>1, <1>6, PutExact
  <1> HIDE DEF s2
  <1>8. KeysOf(s2) = KeysAt(s2, 0) \cup KeysAt(s2, 1) \cup KeysAt(s2, 2)
    BY <1>7, ChainKeysAt DEF ExactChain
  <1>9. p[1].keys \cup p[2] = d \cup {k} /\ (d \cup {k}) \cap KeysOf(s) = {}
    BY <1>1, <1>6
  <1>10. Separate(s2)
    BY <1>1, <1>2, <1>3, <1>4, <1>7, <1>9 DEF Separate
  <1>11. KeysOf(s2) = KeysOf(s) \cup p[1].keys
    BY <1>2, <1>3, <1>4, <1>7, <1>8
  <1>12. KeysOf(s2) \cap p[2] = {} /\ KeysOf(s2) \cup p[2] = X \cup {k}
    BY <1>1, <1>6, <1>9, <1>11
  <1>13. Split(s2, p[2], X \cup {k}, K)
    BY <1>6, <1>7, <1>10, <1>12 DEF Split
  <1> QED  BY <1>13 DEF s2, Put

(* Three tables become one, and what did not fit goes to a second with the *)
(* denylist and a new key.                                                 *)
LEMMA MergeTakes ==
  ASSUME NEW K, Nullable(K), NEW s, NEW d, NEW X, Split(s, d, X, K), Live(s) = I,
         NEW k \in K, k \notin X, NEW m \in MergeTables(s[0], s[1], s[2]),
         NEW p \in Pour(HalfOf(m[1]), d \cup m[2] \cup {k})
  PROVE  Split(TwoTables(m[1], p[1]), p[2], X \cup {k}, K)
  <1> DEFINE s2 == TwoTables(m[1], p[1])
             M  == d \cup m[2] \cup {k}
  <1>1. /\ ExactChain(s, K) /\ d \in SUBSET K /\ Separate(s)
        /\ KeysOf(s) \cap d = {} /\ KeysOf(s) \cup d = X /\ IsFiniteSet(K)
    BY DEF Split, Nullable
  <1>2. /\ Exact(s[0], K) /\ Exact(s[1], K) /\ Exact(s[2], K)
        /\ KeysAt(s, 0) = s[0].keys /\ KeysAt(s, 1) = s[1].keys /\ KeysAt(s, 2) = s[2].keys
        /\ KeysOf(s) = s[0].keys \cup s[1].keys \cup s[2].keys
    BY <1>1, ThreeExact
  <1>3. s[0].keys \cap (s[1].keys \cup s[2].keys) = {}
    BY <1>1, <1>2 DEF Separate
  <1>4. /\ Exact(m[1], K) /\ m[2] \in SUBSET K
        /\ m[1].keys \cup m[2] = KeysOf(s) /\ m[1].keys \cap m[2] = {}
    BY <1>1, <1>2, <1>3, MergeAccounts
  <1>5. Exact(HalfOf(m[1]), K) /\ HalfOf(m[1]).keys = {}
    BY <1>4, HalfExact
  <1>6. M \in SUBSET K /\ M \cap HalfOf(m[1]).keys = {}
    BY <1>1, <1>4, <1>5
  <1> HIDE DEF M
  <1>7. /\ Exact(p[1], K) /\ p[2] \in SUBSET K
        /\ p[1].keys \cup p[2] = HalfOf(m[1]).keys \cup M
        /\ p[1].keys \cap p[2] = {}
    BY <1>1, <1>5, <1>6, PourAccounts DEF M
  <1>8. /\ ExactChain(s2, K) /\ KeysOf(s2) = m[1].keys \cup p[1].keys
        /\ KeysAt(s2, 0) = m[1].keys /\ KeysAt(s2, 1) = p[1].keys /\ KeysAt(s2, 2) = {}
    BY <1>4, <1>7, TwoExact
  <1> HIDE DEF s2
  <1>9. p[1].keys \cup p[2] = d \cup m[2] \cup {k}
    BY <1>5, <1>7 DEF M
  <1>10. (d \cup m[2] \cup {k}) \cap m[1].keys = {}
    BY <1>1, <1>4
  <1>11. KeysOf(s2) \cup p[2] = X \cup {k}
    BY <1>1, <1>4, <1>8, <1>9
  <1>12. Separate(s2) /\ KeysOf(s2) \cap p[2] = {}
    BY <1>7, <1>8, <1>9, <1>10 DEF Separate
  <1>13. Split(s2, p[2], X \cup {k}, K)
    BY <1>7, <1>8, <1>11, <1>12 DEF Split
  <1> QED  BY <1>13 DEF s2

-----------------------------------------------------------------------------
(* Deletion from a chain, and what it rearranges.                          *)

(* A key is taken out of the table it is in.                               *)
LEMMA TakenOut ==
  ASSUME NEW K, Nullable(K), NEW s, NEW d, NEW X, Split(s, d, X, K),
         NEW i \in Live(s), NEW k \in s[i].keys
  PROVE  /\ Split([s EXCEPT ![i] = Without(s[i], k)], d, X \ {k}, K)
         /\ Live([s EXCEPT ![i] = Without(s[i], k)]) = Live(s)
  <1> DEFINE t  == Without(s[i], k)
             s2 == Put(s, i, t)
  <1>1. /\ ExactChain(s, K) /\ d \in SUBSET K /\ Separate(s)
        /\ KeysOf(s) \cap d = {} /\ KeysOf(s) \cup d = X /\ IsFiniteSet(K)
        /\ LooseChain(s, K)
    BY DEF Split, Nullable, ExactChain
  <1>2. i \in I /\ Exact(s[i], K) /\ KeysAt(s, i) = s[i].keys
    BY <1>1, LiveTables DEF Live
  <1>3. KeysOf(s) = KeysAt(s, 0) \cup KeysAt(s, 1) \cup KeysAt(s, 2)
    BY <1>1, ChainKeysAt
  <1>4. (i = 0 \/ i = 1 \/ i = 2) /\ 0 \in I /\ 1 \in I /\ 2 \in I
    BY <1>2 DEF I
  <1>5. Exact(t, K) /\ t.keys = s[i].keys \ {k}
    BY <1>1, <1>2, WithoutExact
  <1> HIDE DEF t
  <1>6. /\ ExactChain(s2, K) /\ Live(s2) = Live(s) \cup {i}
        /\ \A j \in I : KeysAt(s2, j) = IF j = i THEN t.keys ELSE KeysAt(s, j)
    BY <1>1, <1>2, <1>5, PutExact
  <1> HIDE DEF s2
  <1>7. KeysOf(s2) = KeysAt(s2, 0) \cup KeysAt(s2, 1) \cup KeysAt(s2, 2)
    BY <1>6, ChainKeysAt DEF ExactChain
  <1>8. Separate(s2)
    BY <1>1, <1>2, <1>4, <1>5, <1>6 DEF Separate
  <1>9. KeysOf(s2) = KeysOf(s) \ {k}
    BY <1>1, <1>2, <1>3, <1>4, <1>5, <1>6, <1>7 DEF Separate
  <1>10. k \in KeysOf(s)
    BY <1>2, <1>3, <1>4
  <1>11. KeysOf(s2) \cap d = {} /\ KeysOf(s2) \cup d = X \ {k}
    BY <1>1, <1>9, <1>10
  <1>12. Split(s2, d, X \ {k}, K) /\ Live(s2) = Live(s)
    BY <1>1, <1>6, <1>8, <1>11 DEF Split
  <1> QED  BY <1>12 DEF s2, t, Put

(* The only table is empty and dropped.                                    *)
LEMMA LastDropped ==
  ASSUME NEW K, Nullable(K), NEW s, NEW d, NEW X, Split(s, d, X, K),
         Live(s) = {0}, s[0].num = 0
  PROVE  Split(EmptyChain, d, X, K)
  <1>1. /\ ExactChain(s, K) /\ d \in SUBSET K /\ KeysOf(s) \cup d = X
        /\ IsFiniteSet(K) /\ LooseChain(s, K)
    BY DEF Split, Nullable, ExactChain
  <1>2. /\ Exact(s[0], K) /\ KeysAt(s, 0) = s[0].keys
        /\ KeysAt(s, 1) = {} /\ KeysAt(s, 2) = {}
    BY <1>1, LiveTables DEF I
  <1>3. KeysOf(s) = {}
    BY <1>1, <1>2, ZeroHolds, ChainKeysAt
  <1> QED  BY <1>1, <1>3, NullChain DEF Split

(* The only table is halved.                                               *)
LEMMA TableHalved ==
  ASSUME NEW K, Nullable(K), NEW s, NEW d, NEW X, Split(s, d, X, K),
         Live(s) = {0}, NEW p \in CompressTable(s[0])
  PROVE  Split([s EXCEPT ![0] = p[1]], d \cup p[2], X, K)
  <1> DEFINE s2 == Put(s, 0, p[1])
  <1>1. /\ ExactChain(s, K) /\ d \in SUBSET K /\ KeysOf(s) \cap d = {}
        /\ KeysOf(s) \cup d = X /\ IsFiniteSet(K) /\ LooseChain(s, K)
    BY DEF Split, Nullable, ExactChain
  <1>2. /\ Exact(s[0], K) /\ KeysAt(s, 0) = s[0].keys
        /\ KeysAt(s, 1) = {} /\ KeysAt(s, 2) = {}
    BY <1>1, LiveTables DEF I
  <1>3. /\ Exact(p[1], K) /\ p[2] \in SUBSET K
        /\ p[1].keys \cup p[2] = s[0].keys /\ p[1].keys \cap p[2] = {}
    BY <1>1, <1>2, CompressAccounts
  <1>4. 0 \in I /\ 1 \in I /\ 2 \in I
    BY DEF I
  <1>5. /\ ExactChain(s2, K)
        /\ \A j \in I : KeysAt(s2, j) = IF j = 0 THEN p[1].keys ELSE KeysAt(s, j)
    BY <1>1, <1>3, <1>4, PutExact
  <1> HIDE DEF s2
  <1>6. KeysAt(s2, 0) = p[1].keys /\ KeysAt(s2, 1) = {} /\ KeysAt(s2, 2) = {}
    BY <1>2, <1>4, <1>5
  <1>7. KeysOf(s2) = p[1].keys /\ KeysOf(s) = s[0].keys
    <2>1. LooseChain(s2, K)
      BY <1>5 DEF ExactChain
    <2>2. KeysOf(s2) = KeysAt(s2, 0) \cup KeysAt(s2, 1) \cup KeysAt(s2, 2)
      BY <2>1, ChainKeysAt
    <2>3. KeysOf(s) = KeysAt(s, 0) \cup KeysAt(s, 1) \cup KeysAt(s, 2)
      BY <1>1, ChainKeysAt
    <2> QED  BY <1>2, <1>6, <2>2, <2>3
  <1>8. Split(s2, d \cup p[2], X, K)
    BY <1>1, <1>3, <1>5, <1>6, <1>7 DEF Split, Separate
  <1> QED  BY <1>8 DEF s2, Put

(* The second of two tables is empty and dropped.                          *)
LEMMA SecondDropped ==
  ASSUME NEW K, Nullable(K), NEW s, NEW d, NEW X, Split(s, d, X, K),
         Live(s) = {0, 1}, s[1].num = 0
  PROVE  Split([s EXCEPT ![1] = NoTable], d, X, K)
  <1> DEFINE s2 == Put(s, 1, NoTable)
  <1>1. /\ ExactChain(s, K) /\ d \in SUBSET K /\ Separate(s) /\ KeysOf(s) \cap d = {}
        /\ KeysOf(s) \cup d = X /\ IsFiniteSet(K) /\ LooseChain(s, K)
    BY DEF Split, Nullable, ExactChain
  <1>2. Exact(s[1], K) /\ KeysAt(s, 1) = s[1].keys
    BY <1>1, LiveTables DEF I
  <1>3. KeysAt(s, 1) = {}
    BY <1>1, <1>2, ZeroHolds
  <1>4. 0 \in I /\ 1 \in I /\ 2 \in I
    BY DEF I
  <1>5. /\ ExactChain(s2, K)
        /\ \A j \in I : KeysAt(s2, j) = IF j = 1 THEN {} ELSE KeysAt(s, j)
    BY <1>1, <1>4, DropExact
  <1> HIDE DEF s2
  <1>6. \A j \in I : KeysAt(s2, j) = KeysAt(s, j)
    BY <1>3, <1>5
  <1>7. /\ KeysOf(s2) = KeysAt(s2, 0) \cup KeysAt(s2, 1) \cup KeysAt(s2, 2)
        /\ KeysOf(s) = KeysAt(s, 0) \cup KeysAt(s, 1) \cup KeysAt(s, 2)
    BY <1>1, <1>5, ChainKeysAt DEF ExactChain
  <1>8. KeysOf(s2) = KeysOf(s) /\ Separate(s2)
    BY <1>1, <1>4, <1>6, <1>7 DEF Separate
  <1>9. Split(s2, d, X, K)
    BY <1>1, <1>5, <1>8 DEF Split
  <1> QED  BY <1>9 DEF s2, Put

(* The second of two tables is poured into the first.                      *)
LEMMA SecondPoured ==
  ASSUME NEW K, Nullable(K), NEW s, NEW d, NEW X, Split(s, d, X, K),
         Live(s) = {0, 1}, NEW p \in Pour(s[0], s[1].keys)
  PROVE  Split([s EXCEPT ![0] = p[1], ![1] = NoTable], d \cup p[2], X, K)
  <1> DEFINE s1 == Put(s, 0, p[1])
             s2 == Put(s1, 1, NoTable)
  <1>1. /\ ExactChain(s, K) /\ d \in SUBSET K /\ Separate(s) /\ KeysOf(s) \cap d = {}
        /\ KeysOf(s) \cup d = X /\ IsFiniteSet(K) /\ LooseChain(s, K)
    BY DEF Split, Nullable, ExactChain
  <1>2. /\ Exact(s[0], K) /\ KeysAt(s, 0) = s[0].keys
        /\ Exact(s[1], K) /\ KeysAt(s, 1) = s[1].keys /\ KeysAt(s, 2) = {}
    BY <1>1, LiveTables DEF I
  <1>3. s[1].keys \in SUBSET K /\ s[1].keys \cap s[0].keys = {}
    BY <1>1, <1>2 DEF Exact, Records, Separate
  <1>4. /\ Exact(p[1], K) /\ p[2] \in SUBSET K
        /\ p[1].keys \cup p[2] = s[0].keys \cup s[1].keys /\ p[1].keys \cap p[2] = {}
    BY <1>1, <1>2, <1>3, PourAccounts
  <1>5. 0 \in I /\ 1 \in I /\ 2 \in I
    BY DEF I
  <1>6. /\ ExactChain(s1, K)
        /\ \A j \in I : KeysAt(s1, j) = IF j = 0 THEN p[1].keys ELSE KeysAt(s, j)
    BY <1>1, <1>4, <1>5, PutExact
  <1> HIDE DEF s1
  <1>7. /\ ExactChain(s2, K)
        /\ \A j \in I : KeysAt(s2, j) = IF j = 1 THEN {} ELSE KeysAt(s1, j)
    BY <1>5, <1>6, DropExact
  <1> HIDE DEF s2
  <1>8. KeysAt(s2, 0) = p[1].keys /\ KeysAt(s2, 1) = {} /\ KeysAt(s2, 2) = {}
    BY <1>2, <1>5, <1>6, <1>7
  <1>9. KeysOf(s2) = p[1].keys /\ KeysOf(s) = s[0].keys \cup s[1].keys
    <2>1. LooseChain(s2, K)
      BY <1>7 DEF ExactChain
    <2>2. KeysOf(s2) = KeysAt(s2, 0) \cup KeysAt(s2, 1) \cup KeysAt(s2, 2)
      BY <2>1, ChainKeysAt
    <2>3. KeysOf(s) = KeysAt(s, 0) \cup KeysAt(s, 1) \cup KeysAt(s, 2)
      BY <1>1, ChainKeysAt
    <2> QED  BY <1>2, <1>8, <2>2, <2>3
  <1>10. Split(s2, d \cup p[2], X, K)
    BY <1>1, <1>4, <1>7, <1>8, <1>9 DEF Split, Separate
  <1>11. s2 = [s EXCEPT ![0] = p[1], ![1] = NoTable]
    BY DEF s2, s1, Put
  <1> QED  BY <1>10, <1>11

(* The smaller of the last two of three tables is empty and dropped.       *)
LEMMA SmallerDropped ==
  ASSUME NEW K, Nullable(K), NEW s, NEW d, NEW X, Split(s, d, X, K),
         Live(s) = I, s[Small(s)].num = 0
  PROVE  Split([s EXCEPT ![1] = s[Big(s)], ![2] = NoTable], d, X, K)
  <1> DEFINE s2 == TwoTables(s[0], s[Big(s)])
  <1>1. /\ ExactChain(s, K) /\ d \in SUBSET K /\ Separate(s) /\ KeysOf(s) \cap d = {}
        /\ KeysOf(s) \cup d = X /\ IsFiniteSet(K) /\ LooseChain(s, K)
    BY DEF Split, Nullable, ExactChain
  <1>2. /\ Exact(s[0], K) /\ Exact(s[1], K) /\ Exact(s[2], K)
        /\ KeysAt(s, 0) = s[0].keys /\ KeysAt(s, 1) = s[1].keys /\ KeysAt(s, 2) = s[2].keys
        /\ KeysOf(s) = s[0].keys \cup s[1].keys \cup s[2].keys
    BY <1>1, ThreeExact
  <1>3. \/ Small(s) = 1 /\ Big(s) = 2
        \/ Small(s) = 2 /\ Big(s) = 1
    BY SmallAndBig
  <1>4. s[Small(s)].keys = {} /\ Exact(s[Big(s)], K)
    BY <1>1, <1>2, <1>3, ZeroHolds
  <1>5. /\ ExactChain(s2, K) /\ KeysOf(s2) = s[0].keys \cup s[Big(s)].keys
        /\ KeysAt(s2, 0) = s[0].keys /\ KeysAt(s2, 1) = s[Big(s)].keys /\ KeysAt(s2, 2) = {}
    BY <1>2, <1>4, TwoExact
  <1>6. [s EXCEPT ![1] = s[Big(s)], ![2] = NoTable] = s2
    BY <1>1, AssignedKept
  <1> HIDE DEF s2
  <1>7. KeysOf(s2) = KeysOf(s) /\ Separate(s2)
    BY <1>1, <1>2, <1>3, <1>4, <1>5 DEF Separate
  <1>8. Split(s2, d, X, K)
    BY <1>1, <1>5, <1>7 DEF Split
  <1> QED  BY <1>6, <1>8

(* The smaller of the last two of three tables is spread over the others,  *)
(* and no key is stored twice.                                             *)
LEMMA SmallerSpread ==
  ASSUME NEW K, Nullable(K), NEW s, NEW d, NEW X, Split(s, d, X, K), Live(s) = I,
         NEW r \in Redistribute(s[Small(s)], s[0], s[Big(s)]), StoredTwice(r) = {}
  PROVE  Split([s EXCEPT ![0] = r[1], ![1] = r[2], ![2] = NoTable], d \cup r[3], X, K)
  <1> DEFINE sm == s[Small(s)]
             tb == s[Big(s)]
             s2 == TwoTables(r[1], r[2])
  <1>1. /\ ExactChain(s, K) /\ d \in SUBSET K /\ Separate(s) /\ KeysOf(s) \cap d = {}
        /\ KeysOf(s) \cup d = X /\ IsFiniteSet(K) /\ LooseChain(s, K)
        /\ r \in Redistribute(sm, s[0], tb)
    BY DEF Split, Nullable, ExactChain
  <1>2. /\ Exact(s[0], K) /\ Exact(s[1], K) /\ Exact(s[2], K)
        /\ KeysAt(s, 0) = s[0].keys /\ KeysAt(s, 1) = s[1].keys /\ KeysAt(s, 2) = s[2].keys
        /\ KeysOf(s) = s[0].keys \cup s[1].keys \cup s[2].keys
    BY <1>1, ThreeExact
  <1>3. \/ Small(s) = 1 /\ Big(s) = 2
        \/ Small(s) = 2 /\ Big(s) = 1
    BY SmallAndBig
  <1>4. [s EXCEPT ![0] = r[1], ![1] = r[2], ![2] = NoTable] = s2
    BY <1>1, Assigned
  <1> HIDE DEF sm, tb
  <1>5. /\ Exact(sm, K) /\ Exact(tb, K)
        /\ KeysOf(s) = sm.keys \cup s[0].keys \cup tb.keys
        /\ sm.keys \cap (s[0].keys \cup tb.keys) = {}
    BY <1>1, <1>2, <1>3 DEF sm, tb, Separate
  <1>6. /\ Exact(r[1], K) /\ Exact(r[2], K) /\ r[3] \in SUBSET K
        /\ r[2].keys \cap r[3] = {}
        /\ r[1].keys \cup r[2].keys \cup r[3] = sm.keys \cup s[0].keys \cup tb.keys
    BY <1>1, <1>2, <1>5, RedistributeAccounts
  <1>7. r[1].keys \cap (r[2].keys \cup r[3]) = {}
    BY DEF StoredTwice
  <1>8. /\ ExactChain(s2, K) /\ KeysOf(s2) = r[1].keys \cup r[2].keys
        /\ KeysAt(s2, 0) = r[1].keys /\ KeysAt(s2, 1) = r[2].keys /\ KeysAt(s2, 2) = {}
    BY <1>6, TwoExact
  <1> HIDE DEF s2
  <1>9. KeysOf(s2) \cup r[3] = KeysOf(s)
    BY <1>5, <1>6, <1>8
  <1>10. Separate(s2) /\ KeysOf(s2) \cap r[3] = {}
    BY <1>6, <1>7, <1>8 DEF Separate
  <1>11. KeysOf(s2) \cap (d \cup r[3]) = {} /\ KeysOf(s2) \cup (d \cup r[3]) = X
    BY <1>1, <1>9, <1>10
  <1>12. Split(s2, d \cup r[3], X, K)
    BY <1>1, <1>6, <1>8, <1>10, <1>11 DEF Split
  <1> QED  BY <1>4, <1>12

-----------------------------------------------------------------------------
(* Lengths.  Tables are doubled and halved; that halving never meets an    *)
(* odd length, or goes below the first table's, is a matter of the powers  *)
(* of two.  Lengths(a, b) are those that doubling makes of <<a, b>>: the   *)
(* pairs that are in every set with <<a, b>> closed under doubling.        *)

LengthPairs == Nat \X Nat
LengthsOf(t) == <<t.len1, t.len2>>
Doubled(l) == <<2 * l[1], 2 * l[2]>>

ClosedFrom(S, l) == l \in S /\ \A x \in S : Doubled(x) \in S
Lengths(a, b) == {l \in LengthPairs : \A S \in SUBSET LengthPairs : ClosedFrom(S, <<a, b>>) => l \in S}

(* The tables fill the chain from the front, the first has one of the      *)
(* lengths and the others half of its.                                     *)
Shaped(s, a, b) ==
    /\ Live(s) \in {{}, {0}, {0, 1}, I}
    /\ 0 \in Live(s) => LengthsOf(s[0]) \in Lengths(a, b)
    /\ \A i \in Live(s) : i > 0 => Doubled(LengthsOf(s[i])) = LengthsOf(s[0])

(* Doubling a pair of lengths doubles each of them.                        *)
LEMMA DoubledPair ==
  ASSUME NEW l \in LengthPairs
  PROVE  /\ Doubled(l) \in LengthPairs
         /\ Doubled(l)[1] = 2 * l[1] /\ Doubled(l)[2] = 2 * l[2]
  BY DEF LengthPairs, Doubled

(* The lengths of the first table are among the lengths of a chain.        *)
LEMMA FirstLength ==
  ASSUME NEW a \in Nat, NEW b \in Nat
  PROVE  <<a, b>> \in Lengths(a, b)
  BY DEF Lengths, ClosedFrom, LengthPairs

(* The lengths of a chain are closed under the doubling of merge.          *)
LEMMA DoubledLength ==
  ASSUME NEW a, NEW b, NEW l \in Lengths(a, b)
  PROVE  Doubled(l) \in Lengths(a, b)
  <1>1. l \in LengthPairs /\ Doubled(l) \in LengthPairs
    BY DoubledPair DEF Lengths
  <1>2. ASSUME NEW S \in SUBSET LengthPairs, ClosedFrom(S, <<a, b>>)
        PROVE  Doubled(l) \in S
    BY <1>2 DEF Lengths, ClosedFrom
  <1> QED  BY <1>1, <1>2 DEF Lengths

(* Every length but the first is double another one.                       *)
LEMMA HalvedLength ==
  ASSUME NEW a \in Nat, NEW b \in Nat, NEW l \in Lengths(a, b), l # <<a, b>>
  PROVE  \E h \in Lengths(a, b) : l = Doubled(h)
  <1> DEFINE S == {x \in Lengths(a, b) : x = <<a, b>> \/ \E h \in Lengths(a, b) : x = Doubled(h)}
  <1>1. S \in SUBSET LengthPairs
    BY DEF Lengths
  <1>2. <<a, b>> \in S
    BY FirstLength
  <1>3. ASSUME NEW x \in S
        PROVE  Doubled(x) \in S
    BY DoubledLength
  <1> HIDE DEF S
  <1>4. ClosedFrom(S, <<a, b>>)
    BY <1>2, <1>3 DEF ClosedFrom
  <1>5. l \in S
    BY <1>1, <1>4 DEF Lengths
  <1> QED  BY <1>5 DEF S

(* Doubling an even length keeps it even and positive.                     *)
LEMMA EvenLength ==
  ASSUME NEW a \in Nat \ {0}, NEW b \in Nat \ {0}, a % 2 = 0, b % 2 = 0,
         NEW l \in Lengths(a, b)
  PROVE  \E h \in LengthPairs : h[1] > 0 /\ h[2] > 0 /\ l = Doubled(h)
  <1> DEFINE S == {x \in LengthPairs : \E h \in LengthPairs : h[1] > 0 /\ h[2] > 0 /\ x = Doubled(h)}
  <1>1. S \in SUBSET LengthPairs
    OBVIOUS
  <1>2. <<a, b>> \in S
    <2>1. /\ a \div 2 \in Nat /\ a \div 2 > 0 /\ a = 2 * (a \div 2)
          /\ b \div 2 \in Nat /\ b \div 2 > 0 /\ b = 2 * (b \div 2)
      OBVIOUS
    <2> DEFINE h == <<a \div 2, b \div 2>>
    <2>2. h \in LengthPairs /\ h[1] > 0 /\ h[2] > 0 /\ <<a, b>> = Doubled(h)
      BY <2>1 DEF LengthPairs, Doubled
    <2>3. <<a, b>> \in LengthPairs
      BY DEF LengthPairs
    <2> HIDE DEF h
    <2> QED  BY <2>2, <2>3
  <1>3. ASSUME NEW x \in S
        PROVE  Doubled(x) \in S
    <2>1. PICK h \in LengthPairs : h[1] > 0 /\ h[2] > 0 /\ x = Doubled(h)
      OBVIOUS
    <2>2. x \in LengthPairs /\ x[1] > 0 /\ x[2] > 0
      BY <2>1, DoubledPair DEF LengthPairs
    <2>3. Doubled(x) \in LengthPairs
      BY <2>2, DoubledPair
    <2> QED  BY <2>2, <2>3
  <1> HIDE DEF S
  <1>4. ClosedFrom(S, <<a, b>>)
    BY <1>2, <1>3 DEF ClosedFrom
  <1>5. l \in S
    BY <1>1, <1>4 DEF Lengths
  <1> QED  BY <1>5 DEF S

-----------------------------------------------------------------------------
(* What the tables of a chain are, whatever their counters say.            *)

(* Whatever its counter, a table that keys are poured into keeps its       *)
(* lengths, and the keys it refuses are keys.                              *)
LEMMA PourLoose ==
  ASSUME NEW K, IsFiniteSet(K), NEW t \in Loose(K), NEW M \in SUBSET K, NEW p \in Pour(t, M)
  PROVE  p[1] \in Loose(K) /\ p[2] \in SUBSET K /\ LengthsOf(p[1]) = LengthsOf(t)
  <1> DEFINE held == t.keys \cup M
  <1>1. t.keys \in SUBSET K /\ t.len1 \in Nat /\ t.len2 \in Nat /\ t.num \in Int
    BY DEF Loose
  <1>2. PICK R \in SUBSET held :
          p = <<Holding(t, held \ R, t.num + Cardinality(M) - Cardinality(R)), R>>
    BY DEF Pour
  <1>3. held \ R \in SUBSET K /\ R \in SUBSET K
    BY <1>1
  <1>4. Cardinality(M) \in Nat /\ Cardinality(R) \in Nat
    BY <1>3, FS_Subset, FS_CardinalityType
  <1> HIDE DEF held
  <1>5. t.num + Cardinality(M) - Cardinality(R) \in Int
    BY <1>1, <1>4
  <1> QED  BY <1>1, <1>2, <1>3, <1>5 DEF Loose, Holding, LengthsOf

(* The table compress returns has half the lengths.                        *)
LEMMA CompressLoose ==
  ASSUME NEW K, IsFiniteSet(K), NEW c \in Loose(K), NEW p \in CompressTable(c)
  PROVE  p[1] \in Loose(K) /\ p[2] \in SUBSET K /\ LengthsOf(p[1]) = LengthsOf(HalfOf(c))
  <1>1. /\ c.keys \in SUBSET K /\ c.len1 \in Nat /\ c.len2 \in Nat /\ c.num \in Int
        /\ HalfOf(c) \in Loose(K)
    BY DEF Loose, HalfOf, NewTable
  <1>2. PICK q \in Pour(HalfOf(c), c.keys) :
          p = <<Holding(q[1], q[1].keys, c.num - Cardinality(q[2])), q[2]>>
    BY DEF CompressTable
  <1>3. q[1] \in Loose(K) /\ q[2] \in SUBSET K /\ LengthsOf(q[1]) = LengthsOf(HalfOf(c))
    BY <1>1, PourLoose
  <1>4. c.num - Cardinality(q[2]) \in Int
    BY <1>1, <1>3, FS_Subset, FS_CardinalityType
  <1>5. p[1] = Holding(q[1], q[1].keys, c.num - Cardinality(q[2])) /\ p[2] = q[2]
    BY <1>2
  <1>6. p[1] \in Loose(K) /\ LengthsOf(p[1]) = LengthsOf(q[1])
    BY <1>3, <1>4, <1>5 DEF Loose, Holding, LengthsOf
  <1> QED  BY <1>3, <1>5, <1>6

(* The table merge returns has the lengths of the first one, doubled.      *)
LEMMA MergeLoose ==
  ASSUME NEW K, IsFiniteSet(K), NEW c0 \in Loose(K), NEW c1 \in Loose(K), NEW c2 \in Loose(K),
         NEW p \in MergeTables(c0, c1, c2)
  PROVE  p[1] \in Loose(K) /\ p[2] \in SUBSET K /\ LengthsOf(p[1]) = Doubled(LengthsOf(c0))
  <1>1. TwiceOf(c0) \in Loose(K) /\ c1.keys \cup c2.keys \in SUBSET K
    BY DEF Loose, TwiceOf
  <1>2. LengthsOf(TwiceOf(c0)) = Doubled(LengthsOf(c0))
    BY DEF Loose, TwiceOf, LengthsOf, Doubled
  <1>3. p \in Pour(TwiceOf(c0), c1.keys \cup c2.keys)
    BY DEF MergeTables
  <1> QED  BY <1>1, <1>2, <1>3, PourLoose

(* A redistribution leaves two tables of the lengths they had.             *)
LEMMA RedistributeLoose ==
  ASSUME NEW K, IsFiniteSet(K), NEW sm \in Loose(K), NEW t0 \in Loose(K), NEW tb \in Loose(K),
         NEW r \in Redistribute(sm, t0, tb)
  PROVE  /\ r[1] \in Loose(K) /\ r[2] \in Loose(K) /\ r[3] \in SUBSET K
         /\ StoredTwice(r) \in SUBSET K
         /\ LengthsOf(r[1]) = LengthsOf(t0) /\ LengthsOf(r[2]) = LengthsOf(tb)
  <1>1. PICK o \in Moves(sm, t0) : \E p \in Pour(tb, sm.keys \ o.moved) :
          r = <<AfterMoves(t0, o), p[1], p[2]>>
    BY DEF Redistribute
  <1>2. PICK p \in Pour(tb, sm.keys \ o.moved) :
          r = <<AfterMoves(t0, o), p[1], p[2]>>
    BY <1>1
  <1>3. /\ o.moved \in SUBSET sm.keys /\ o.failed \in SUBSET sm.keys
        /\ sm.keys \in SUBSET K /\ t0.keys \in SUBSET K
        /\ t0.len1 \in Nat /\ t0.len2 \in Nat /\ t0.num \in Int
    BY DEF Moves, Loose
  <1>4. Cardinality(o.moved) \in Nat
    BY <1>3, FS_Subset, FS_CardinalityType
  <1>5. AfterMoves(t0, o) \in Loose(K) /\ LengthsOf(AfterMoves(t0, o)) = LengthsOf(t0)
    BY <1>3, <1>4 DEF AfterMoves, Holding, Loose, LengthsOf
  <1>6. p[1] \in Loose(K) /\ p[2] \in SUBSET K /\ LengthsOf(p[1]) = LengthsOf(tb)
    BY <1>3, PourLoose
  <1>7. r[1] = AfterMoves(t0, o) /\ r[2] = p[1] /\ r[3] = p[2]
    BY <1>2
  <1>8. r[1].keys \in SUBSET K
    BY <1>5, <1>7 DEF Loose
  <1>9. StoredTwice(r) \in SUBSET K
    BY <1>8 DEF StoredTwice
  <1> QED  BY <1>5, <1>6, <1>7, <1>9

(* Half of a length that doubling made.                                    *)
LEMMA HalfLoose ==
  ASSUME NEW K, NEW a \in Nat \ {0}, NEW b \in Nat \ {0}, a % 2 = 0, b % 2 = 0,
         NEW t \in Loose(K), LengthsOf(t) \in Lengths(a, b)
  PROVE  HalfOf(t) \in Loose(K) /\ Doubled(LengthsOf(HalfOf(t))) = LengthsOf(t)
  <1>1. PICK h \in LengthPairs : LengthsOf(t) = Doubled(h)
    BY EvenLength
  <1>2. t.len1 \in Nat /\ t.len2 \in Nat /\ h[1] \in Nat /\ h[2] \in Nat
    BY DEF Loose, LengthPairs
  <1>3. t.len1 = 2 * h[1] /\ t.len2 = 2 * h[2]
    BY <1>1 DEF LengthsOf, Doubled
  <1>4. t.len1 \div 2 = h[1] /\ t.len2 \div 2 = h[2]
    BY <1>2, <1>3
  <1> QED  BY <1>2, <1>3, <1>4 DEF HalfOf, NewTable, Loose, LengthsOf, Doubled

(* A table longer than the first can be halved.                            *)
LEMMA LongerHalved ==
  ASSUME NEW K, NEW a \in Nat, NEW b \in Nat, NEW t \in Loose(K),
         LengthsOf(t) \in Lengths(a, b), t.len2 > b
  PROVE  LengthsOf(HalfOf(t)) \in Lengths(a, b)
  <1>1. t.len1 \in Nat /\ t.len2 \in Nat
    BY DEF Loose
  <1>2. LengthsOf(t) # <<a, b>>
    BY <1>1 DEF LengthsOf
  <1>3. PICK h \in Lengths(a, b) : LengthsOf(t) = Doubled(h)
    BY <1>2, HalvedLength
  <1>4. h \in LengthPairs /\ h[1] \in Nat /\ h[2] \in Nat
    BY DEF Lengths, LengthPairs
  <1>5. t.len1 = 2 * h[1] /\ t.len2 = 2 * h[2]
    BY <1>3 DEF LengthsOf, Doubled
  <1>6. t.len1 \div 2 = h[1] /\ t.len2 \div 2 = h[2]
    BY <1>4, <1>5
  <1>7. LengthsOf(HalfOf(t)) = <<h[1], h[2]>>
    BY <1>6 DEF HalfOf, NewTable, LengthsOf
  <1>8. h = <<h[1], h[2]>>
    BY <1>4 DEF LengthPairs
  <1> QED  BY <1>7, <1>8

-----------------------------------------------------------------------------
(* What each rearrangement makes of the shape of a chain.                  *)

WellShaped(s, a, b, K) == LooseChain(s, K) /\ Shaped(s, a, b)

(* A chain without tables has the shape.                                   *)
LEMMA NullShaped ==
  ASSUME NEW K, NEW a, NEW b
  PROVE  WellShaped(EmptyChain, a, b, K)
  BY NullChain DEF ExactChain, WellShaped, Shaped

(* Storing a table behind a pointer makes that pointer live and leaves the *)
(* others.                                                                 *)
LEMMA PutLoose ==
  ASSUME NEW K, Nullable(K), NEW s, LooseChain(s, K), NEW i \in I, NEW t \in Loose(K)
  PROVE  /\ LooseChain(Put(s, i, t), K) /\ Live(Put(s, i, t)) = Live(s) \cup {i}
         /\ \A j \in I : Put(s, i, t)[j] = IF j = i THEN t ELSE s[j]
  BY DEF LooseChain, Live, Put, Nullable

(* A table is replaced by one as long.                                     *)
LEMMA SameLength ==
  ASSUME NEW K, Nullable(K), NEW a, NEW b, NEW s, WellShaped(s, a, b, K),
         NEW i \in Live(s), NEW t \in Loose(K), LengthsOf(t) = LengthsOf(s[i])
  PROVE  /\ WellShaped([s EXCEPT ![i] = t], a, b, K)
         /\ Live([s EXCEPT ![i] = t]) = Live(s)
  <1> DEFINE s2 == Put(s, i, t)
  <1>1. i \in I /\ LooseChain(s, K)
    BY DEF Live, WellShaped
  <1>2. /\ LooseChain(s2, K) /\ Live(s2) = Live(s) \cup {i}
        /\ \A j \in I : s2[j] = IF j = i THEN t ELSE s[j]
    BY <1>1, PutLoose
  <1> HIDE DEF s2
  <1>3. Live(s2) = Live(s) /\ 0 \in I
    BY <1>2 DEF I
  <1>4. \A j \in Live(s) : LengthsOf(s2[j]) = LengthsOf(s[j])
    BY <1>2 DEF Live
  <1>5. \A j \in Live(s) : j > 0 => 0 \in Live(s)
    BY DEF WellShaped, Shaped, I
  <1>6. Shaped(s2, a, b)
    BY <1>3, <1>4, <1>5 DEF WellShaped, Shaped
  <1>7. WellShaped(s2, a, b, K) /\ Live(s2) = Live(s)
    BY <1>2, <1>3, <1>6 DEF WellShaped
  <1> QED  BY <1>7 DEF s2, Put

(* A first table, or another in place of the only one.                     *)
LEMMA OnlyShaped ==
  ASSUME NEW K, Nullable(K), NEW a, NEW b, NEW s, LooseChain(s, K), Live(s) \subseteq {0},
         NEW t \in Loose(K), LengthsOf(t) \in Lengths(a, b)
  PROVE  WellShaped([s EXCEPT ![0] = t], a, b, K)
  <1> DEFINE s2 == Put(s, 0, t)
  <1>1. 0 \in I
    BY DEF I
  <1>2. /\ LooseChain(s2, K) /\ Live(s2) = Live(s) \cup {0}
        /\ s2[0] = t
    BY <1>1, PutLoose
  <1> HIDE DEF s2
  <1>3. Live(s2) = {0}
    BY <1>2
  <1>4. WellShaped(s2, a, b, K)
    BY <1>2, <1>3 DEF WellShaped, Shaped
  <1> QED  BY <1>4 DEF s2, Put

(* A second or third table half as long as the first.                      *)
LEMMA NextShaped ==
  ASSUME NEW K, Nullable(K), NEW a, NEW b, NEW s, WellShaped(s, a, b, K),
         NEW i \in {1, 2}, Live(s) = 0 .. i - 1,
         NEW t \in Loose(K), Doubled(LengthsOf(t)) = LengthsOf(s[0])
  PROVE  WellShaped([s EXCEPT ![i] = t], a, b, K)
  <1> DEFINE s2 == Put(s, i, t)
  <1>1. i \in I /\ LooseChain(s, K) /\ 0 \in I /\ 0 \in Live(s) /\ i # 0
    BY DEF I, WellShaped
  <1>2. /\ LooseChain(s2, K) /\ Live(s2) = Live(s) \cup {i}
        /\ \A j \in I : s2[j] = IF j = i THEN t ELSE s[j]
    BY <1>1, PutLoose
  <1> HIDE DEF s2
  <1>3. Live(s2) \in {{}, {0}, {0, 1}, I}
    BY <1>2 DEF I
  <1>4. s2[0] = s[0]
    BY <1>1, <1>2
  <1>5. \A j \in Live(s2) : j > 0 => Doubled(LengthsOf(s2[j])) = LengthsOf(s[0])
    BY <1>2 DEF Live, WellShaped, Shaped
  <1>6. WellShaped(s2, a, b, K)
    BY <1>1, <1>2, <1>3, <1>4, <1>5 DEF WellShaped, Shaped
  <1> QED  BY <1>6 DEF s2, Put

(* A table and one of half its lengths have the shape.                     *)
LEMMA TwoShaped ==
  ASSUME NEW K, Nullable(K), NEW a, NEW b, NEW t0 \in Loose(K), NEW t1 \in Loose(K),
         LengthsOf(t0) \in Lengths(a, b), Doubled(LengthsOf(t1)) = LengthsOf(t0)
  PROVE  WellShaped(TwoTables(t0, t1), a, b, K)
  <1> DEFINE s2 == TwoTables(t0, t1)
  <1>1. t0 # NoTable /\ t1 # NoTable
    BY DEF Nullable
  <1>2. LooseChain(s2, K) /\ Live(s2) = {0, 1} /\ s2[0] = t0 /\ s2[1] = t1
    BY <1>1 DEF TwoTables, LooseChain, Live, I
  <1> HIDE DEF s2
  <1>3. WellShaped(s2, a, b, K)
    BY <1>2 DEF WellShaped, Shaped
  <1> QED  BY <1>3 DEF s2

(* The second of two tables goes.                                          *)
LEMMA FirstShaped ==
  ASSUME NEW K, NEW a, NEW b, NEW s, WellShaped(s, a, b, K), Live(s) = {0, 1}
  PROVE  /\ WellShaped([s EXCEPT ![1] = NoTable], a, b, K)
         /\ Live([s EXCEPT ![1] = NoTable]) = {0}
  <1> DEFINE s2 == Put(s, 1, NoTable)
  <1>1. LooseChain(s, K) /\ LengthsOf(s[0]) \in Lengths(a, b)
    BY DEF WellShaped, Shaped
  <1>2. LooseChain(s2, K) /\ Live(s2) = {0} /\ s2[0] = s[0]
    BY <1>1 DEF LooseChain, Live, Put, I
  <1> HIDE DEF s2
  <1>3. WellShaped(s2, a, b, K) /\ Live(s2) = {0}
    BY <1>1, <1>2 DEF WellShaped, Shaped
  <1> QED  BY <1>3 DEF s2, Put

(* Lengths that doubling made are positive.                                *)
LEMMA ShapedPositive ==
  ASSUME NEW K, NEW a \in Nat \ {0}, NEW b \in Nat \ {0}, a % 2 = 0, b % 2 = 0,
         NEW s, WellShaped(s, a, b, K), NEW i \in Live(s)
  PROVE  /\ s[i].len1 >= 1 /\ s[i].len2 >= 1
         /\ i > 0 => 2 * s[i].len1 = s[0].len1 /\ 2 * s[i].len2 = s[0].len2
  <1>1. 0 \in Live(s) /\ s[0] \in Loose(K) /\ s[i] \in Loose(K)
    BY DEF WellShaped, Shaped, LooseChain, Live, I
  <1>2. PICK h \in LengthPairs : h[1] > 0 /\ h[2] > 0 /\ LengthsOf(s[0]) = Doubled(h)
    BY <1>1, EvenLength DEF WellShaped, Shaped
  <1>3. h[1] \in Nat /\ h[2] \in Nat
    BY DEF LengthPairs
  <1>4. s[0].len1 = 2 * h[1] /\ s[0].len2 = 2 * h[2]
    BY <1>2 DEF LengthsOf, Doubled
  <1>5. /\ s[i].len1 \in Nat /\ s[i].len2 \in Nat
    BY <1>1 DEF Loose
  <1>6. ASSUME i > 0
        PROVE  2 * s[i].len1 = s[0].len1 /\ 2 * s[i].len2 = s[0].len2
    BY <1>6 DEF WellShaped, Shaped, LengthsOf, Doubled
  <1>7. i = 0 \/ i > 0
    BY DEF Live, I
  <1> QED  BY <1>2, <1>3, <1>4, <1>5, <1>6, <1>7

(* What the shape says of each table of a chain.                           *)
LEMMA LooseTable ==
  ASSUME NEW K, NEW a, NEW b, NEW s, WellShaped(s, a, b, K), NEW i \in Live(s)
  PROVE  /\ i \in I /\ s[i] \in Loose(K) /\ s[i].keys \in SUBSET K
         /\ i = 0 => LengthsOf(s[0]) \in Lengths(a, b)
         /\ i > 0 => Doubled(LengthsOf(s[i])) = LengthsOf(s[0])
  BY DEF WellShaped, Shaped, LooseChain, Live, Loose

(* Keys are poured into a table.                                           *)
LEMMA PouredShaped ==
  ASSUME NEW K, Nullable(K), NEW a, NEW b, NEW s, WellShaped(s, a, b, K),
         NEW i \in Live(s), NEW M \in SUBSET K, NEW p \in Pour(s[i], M)
  PROVE  /\ WellShaped([s EXCEPT ![i] = p[1]], a, b, K)
         /\ Live([s EXCEPT ![i] = p[1]]) = Live(s) /\ p[2] \in SUBSET K
  <1>1. s[i] \in Loose(K)
    BY LooseTable
  <1>2. /\ p[1] \in Loose(K) /\ p[2] \in SUBSET K
        /\ LengthsOf(p[1]) = LengthsOf(s[i])
    BY <1>1, PourLoose DEF Nullable
  <1> QED  BY <1>2, SameLength

(* The new table of an expansion is half as long as the first.             *)
NewOf(s) ==
    IF Live(s) = {0} THEN HalfOf(s[0]) ELSE NewTable(s[1].len1, s[1].len2)

(* The table an insertion adds to a chain of one or two tables is half the *)
(* first.                                                                  *)
LEMMA NewHalf ==
  ASSUME NEW K, NEW a \in Nat \ {0}, NEW b \in Nat \ {0}, a % 2 = 0, b % 2 = 0,
         NEW s, WellShaped(s, a, b, K), Live(s) = {0} \/ Live(s) = {0, 1}
  PROVE  /\ NewOf(s) \in Loose(K) /\ Doubled(LengthsOf(NewOf(s))) = LengthsOf(s[0])
         /\ Exact(NewOf(s), K) /\ NewOf(s).keys = {}
  <1>1. CASE Live(s) = {0}
    <2>1. s[0] \in Loose(K) /\ LengthsOf(s[0]) \in Lengths(a, b)
      BY <1>1, LooseTable
    <2>2. HalfOf(s[0]) \in Loose(K) /\ Doubled(LengthsOf(HalfOf(s[0]))) = LengthsOf(s[0])
      BY <2>1, HalfLoose
    <2>3. s[0].len1 \div 2 \in Nat /\ s[0].len2 \div 2 \in Nat
      BY <2>1 DEF Loose
    <2>4. Exact(HalfOf(s[0]), K) /\ HalfOf(s[0]).keys = {}
      BY <2>3, NewExact DEF HalfOf
    <2> QED  BY <1>1, <2>2, <2>4 DEF NewOf
  <1>2. CASE Live(s) = {0, 1}
    <2> DEFINE new == NewTable(s[1].len1, s[1].len2)
    <2>1. s[1] \in Loose(K) /\ Doubled(LengthsOf(s[1])) = LengthsOf(s[0])
      <3>1. 1 \in Live(s) /\ 1 > 0
        BY <1>2
      <3> QED  BY <3>1, LooseTable
    <2>2. s[1].len1 \in Nat /\ s[1].len2 \in Nat
      BY <2>1 DEF Loose
    <2>3. Exact(new, K) /\ new.keys = {}
      BY <2>2, NewExact
    <2>4. new \in Loose(K) /\ LengthsOf(new) = LengthsOf(s[1])
      BY <2>2 DEF Loose, NewTable, LengthsOf
    <2>5. NewOf(s) = new
      BY <1>2 DEF NewOf
    <2> HIDE DEF new
    <2> QED  BY <2>1, <2>3, <2>4, <2>5
  <1> QED  BY <1>1, <1>2

(* The merged table and the new half table behind it have the shape.       *)
LEMMA MergedShaped ==
  ASSUME NEW K, Nullable(K),
         NEW a \in Nat \ {0}, NEW b \in Nat \ {0}, a % 2 = 0, b % 2 = 0,
         NEW s, WellShaped(s, a, b, K), Live(s) = I, NEW d \in SUBSET K, NEW k \in K,
         NEW m \in MergeTables(s[0], s[1], s[2]),
         NEW p \in Pour(HalfOf(m[1]), d \cup m[2] \cup {k})
  PROVE  /\ WellShaped(TwoTables(m[1], p[1]), a, b, K)
         /\ p[2] \in SUBSET K
  <1>1. /\ s[0] \in Loose(K) /\ s[1] \in Loose(K) /\ s[2] \in Loose(K)
        /\ LengthsOf(s[0]) \in Lengths(a, b)
    BY LooseTable DEF I
  <1>2. /\ m[1] \in Loose(K) /\ m[2] \in SUBSET K
        /\ LengthsOf(m[1]) = Doubled(LengthsOf(s[0]))
    BY <1>1, MergeLoose DEF Nullable
  <1>3. LengthsOf(m[1]) \in Lengths(a, b)
    BY <1>1, <1>2, DoubledLength
  <1>4. HalfOf(m[1]) \in Loose(K) /\ Doubled(LengthsOf(HalfOf(m[1]))) = LengthsOf(m[1])
    BY <1>2, <1>3, HalfLoose
  <1>5. d \cup m[2] \cup {k} \in SUBSET K
    BY <1>2
  <1>6. /\ p[1] \in Loose(K) /\ p[2] \in SUBSET K
        /\ LengthsOf(p[1]) = LengthsOf(HalfOf(m[1]))
    BY <1>4, <1>5, PourLoose DEF Nullable
  <1>7. Doubled(LengthsOf(p[1])) = LengthsOf(m[1])
    BY <1>4, <1>6
  <1> QED  BY <1>2, <1>3, <1>6, <1>7, TwoShaped

(* A table longer than the first one was is halved.                        *)
LEMMA HalvedShaped ==
  ASSUME NEW K, Nullable(K), NEW a \in Nat, NEW b \in Nat,
         NEW s, WellShaped(s, a, b, K), Live(s) = {0},
         NEW c \in Nat, c > b, s[0].len2 >= c, NEW p \in CompressTable(s[0])
  PROVE  WellShaped([s EXCEPT ![0] = p[1]], a, b, K) /\ p[2] \in SUBSET K
  <1>1. s[0] \in Loose(K) /\ LengthsOf(s[0]) \in Lengths(a, b)
    BY LooseTable
  <1>2. s[0].len2 > b
    <2>1. s[0].len2 \in Nat
      BY <1>1 DEF Loose
    <2> QED  BY <2>1
  <1>3. LengthsOf(HalfOf(s[0])) \in Lengths(a, b)
    BY <1>1, <1>2, LongerHalved
  <1>4. /\ p[1] \in Loose(K) /\ p[2] \in SUBSET K
        /\ LengthsOf(p[1]) = LengthsOf(HalfOf(s[0]))
    BY <1>1, CompressLoose DEF Nullable
  <1>5. LooseChain(s, K)
    BY DEF WellShaped
  <1>6. WellShaped([s EXCEPT ![0] = p[1]], a, b, K)
    BY <1>3, <1>4, <1>5, OnlyShaped
  <1> QED  BY <1>4, <1>6

(* Pouring keys into the first table keeps the shape.                      *)
LEMMA FirstPoured ==
  ASSUME NEW K, Nullable(K), NEW a, NEW b, NEW s, WellShaped(s, a, b, K),
         0 \in Live(s), NEW M \in SUBSET K, NEW p \in Pour(s[0], M)
  PROVE  /\ WellShaped(Put(s, 0, p[1]), a, b, K)
         /\ Live(Put(s, 0, p[1])) = Live(s) /\ p[2] \in SUBSET K
  BY PouredShaped DEF Put

(* The second of two tables is poured into the first, and goes.            *)
LEMMA ShrunkTwoShaped ==
  ASSUME NEW K, Nullable(K), NEW a, NEW b, NEW s, WellShaped(s, a, b, K),
         Live(s) = {0, 1}, NEW p \in Pour(s[0], s[1].keys)
  PROVE  WellShaped([s EXCEPT ![0] = p[1], ![1] = NoTable], a, b, K) /\ p[2] \in SUBSET K
  <1> DEFINE s1 == Put(s, 0, p[1])
  <1>1. s[1].keys \in SUBSET K /\ 0 \in Live(s)
    BY LooseTable
  <1>2. WellShaped(s1, a, b, K) /\ Live(s1) = Live(s) /\ p[2] \in SUBSET K
    <2> DEFINE M == s[1].keys
    <2>1. M \in SUBSET K /\ p \in Pour(s[0], M) /\ 0 \in Live(s)
      BY <1>1
    <2> HIDE DEF M
    <2> QED  BY <2>1, FirstPoured
  <1> HIDE DEF s1
  <1>3. WellShaped([s1 EXCEPT ![1] = NoTable], a, b, K)
    BY <1>2, FirstShaped
  <1>4. [s EXCEPT ![0] = p[1], ![1] = NoTable] = [s1 EXCEPT ![1] = NoTable]
    BY DEF s1, Put
  <1> QED  BY <1>2, <1>3, <1>4

(* What the second and third table are to the first.                       *)
LEMMA LastTables ==
  ASSUME NEW K, NEW a, NEW b, NEW s, WellShaped(s, a, b, K), Live(s) = I
  PROVE  /\ LooseChain(s, K) /\ s[0] \in Loose(K) /\ LengthsOf(s[0]) \in Lengths(a, b)
         /\ s[Big(s)] \in Loose(K) /\ s[Small(s)] \in Loose(K)
         /\ Doubled(LengthsOf(s[Big(s)])) = LengthsOf(s[0])
  <1>1. Big(s) \in {1, 2} /\ Small(s) \in {1, 2}
    BY SmallAndBig
  <1>2. Big(s) \in Live(s) /\ Big(s) > 0 /\ Small(s) \in Live(s) /\ 0 \in Live(s)
    BY <1>1 DEF I
  <1> QED  BY <1>2, LooseTable DEF WellShaped

(* Deleting the smaller of the last two tables keeps the shape.            *)
LEMMA DroppedShaped ==
  ASSUME NEW K, Nullable(K), NEW a, NEW b, NEW s, WellShaped(s, a, b, K), Live(s) = I
  PROVE  WellShaped([s EXCEPT ![1] = s[Big(s)], ![2] = NoTable], a, b, K)
  <1> DEFINE two == TwoTables(s[0], s[Big(s)])
  <1>1. /\ LooseChain(s, K) /\ s[0] \in Loose(K) /\ LengthsOf(s[0]) \in Lengths(a, b)
        /\ s[Big(s)] \in Loose(K) /\ Doubled(LengthsOf(s[Big(s)])) = LengthsOf(s[0])
    BY LastTables
  <1>2. [s EXCEPT ![1] = s[Big(s)], ![2] = NoTable] = two
    BY <1>1, AssignedKept
  <1>3. WellShaped(two, a, b, K)
    BY <1>1, TwoShaped
  <1> HIDE DEF two
  <1> QED  BY <1>2, <1>3

(* So does spreading its keys over the two that stay.                      *)
LEMMA SpreadShaped ==
  ASSUME NEW K, Nullable(K), NEW a, NEW b, NEW s, WellShaped(s, a, b, K), Live(s) = I,
         NEW r \in Redistribute(s[Small(s)], s[0], s[Big(s)])
  PROVE  /\ WellShaped([s EXCEPT ![0] = r[1], ![1] = r[2], ![2] = NoTable], a, b, K)
         /\ r[3] \in SUBSET K /\ StoredTwice(r) \in SUBSET K
  <1> DEFINE two == TwoTables(r[1], r[2])
  <1>1. /\ LooseChain(s, K) /\ s[0] \in Loose(K) /\ LengthsOf(s[0]) \in Lengths(a, b)
        /\ s[Big(s)] \in Loose(K) /\ s[Small(s)] \in Loose(K)
        /\ Doubled(LengthsOf(s[Big(s)])) = LengthsOf(s[0])
    BY LastTables
  <1>2. /\ r[1] \in Loose(K) /\ r[2] \in Loose(K) /\ r[3] \in SUBSET K
        /\ StoredTwice(r) \in SUBSET K
        /\ LengthsOf(r[1]) = LengthsOf(s[0]) /\ LengthsOf(r[2]) = LengthsOf(s[Big(s)])
    BY <1>1, RedistributeLoose DEF Nullable
  <1>3. [s EXCEPT ![0] = r[1], ![1] = r[2], ![2] = NoTable] = two
    BY <1>1, Assigned
  <1>4. LengthsOf(r[1]) \in Lengths(a, b) /\ Doubled(LengthsOf(r[2])) = LengthsOf(r[1])
    BY <1>1, <1>2
  <1>5. WellShaped(two, a, b, K)
    BY <1>2, <1>4, TwoShaped
  <1> HIDE DEF two
  <1> QED  BY <1>2, <1>3, <1>5

=============================================================================
