--------------------------- MODULE RebuildProofs ---------------------------
(***************************************************************************)
(* Proofs about Rebuild: for every set of keys, hash functions, bucket     *)
(* size, even lengths and number of kicks, merge, compress and expand put  *)
(* each key where query looks for it or on the denylist, once, and what    *)
(* they do to a table as a whole is what TableOps tells its owners.        *)
(***************************************************************************)
EXTENDS Rebuild, FiniteSetTheorems, FunctionTheorems, TLAPS

(* What CuckooProofs says of the new table.  A table twice as long counts  *)
(* its keys in num.  In a halved one num is not kept up to date until the  *)
(* end; what stands for it is the count of the keys that neither wait in   *)
(* mq nor are in hand nor were denied (asum).                              *)
T == INSTANCE CuckooProofs WITH Len1 <- 2 * Len1, Len2 <- 2 * Len2
H == INSTANCE CuckooProofs WITH
       Len1 <- Len1 \div 2, Len2 <- Len2 \div 2,
       num <- asum - Cardinality(mq) - (IF pc = "kick" THEN 1 ELSE 0)

(* The keys of a layer.                                                    *)
ContentsOf(layer) == UNION {layer[b] : b \in DOMAIN layer}
InTable == ContentsOf(layer1) \cup ContentsOf(layer2)

(* A layer of l buckets, none overfull, whose keys lie where they hash to. *)
Placed(layer, h, l) ==
  /\ layer \in [0 .. l - 1 -> SUBSET Keys]
  /\ \A b \in 0 .. l - 1 : /\ \A k \in layer[b] : h[k] % l = b
                           /\ Cardinality(layer[b]) <= Bup

(* The keys of a layer that a move pours into the first table's, and all   *)
(* it finds there.                                                         *)
Others(layer) == KeysAt(1, layer) \cup KeysAt(2, layer)
MovingAt(layer) == KeysAt(0, layer) \cup Others(layer)

(* The keys that may meet a full bucket.                                   *)
MayWait(layer) == IF op = "compress" THEN KeysAt(0, layer) ELSE Others(layer)

(* The key the kick loop carries.                                          *)
Hand == IF pc = "kick" THEN {ins} ELSE {}

-----------------------------------------------------------------------------
(* The inductive invariant.                                                *)

(* What a move starts from.                                                *)
Given ==
  /\ op \in Operations
  /\ place \in [Keys -> {Nowhere} \cup (TablesOf(op) \X {1, 2})]
  /\ \A b \in DOMAIN Old1(0) : Cardinality(Old1(0)[b]) <= Bup
  /\ \A b \in DOMAIN Old2(0) : Cardinality(Old2(0)[b]) <= Bup
  /\ stage \in {"layer1", "layer2", "pour", "done"}

(* Before the queue is poured: no insertion has run.                       *)
NoInsertYet ==
  /\ pc = "idle" /\ item = NoKey /\ ins = NoKey /\ mykick = NoKey
  /\ times = 0 /\ flag = TRUE
  /\ denied = {} /\ asum = Cardinality(KeysIn(0))

(* Between the two layers the keys of the first are placed or wait.        *)
HalfWay ==
  /\ Placed(layer1, Hash1, NewLen(Len1))
  /\ mq \subseteq MayWait(1)
  /\ ContentsOf(layer1) = MovingAt(1) \ mq
  /\ num = IF op = "compress" THEN 0
           ELSE Cardinality(KeysIn(0)) + Cardinality(Others(1)) - Cardinality(mq)

(* Each key is in the table, waits, was denied or is in hand.              *)
Shared ==
  /\ Moving = InTable \cup mq \cup denied \cup Hand
  /\ InTable \cap (mq \cup denied \cup Hand) = {}
  /\ mq \cap (denied \cup Hand) = {} /\ denied \cap Hand = {}

(* No more keys wait, are in hand or denied than found a bucket full, and  *)
(* the first was denied by a crowded table.                                *)
Bounded ==
  /\ Cardinality(mq) + Cardinality(denied) + Cardinality(Hand)
        <= Cardinality(IF op = "compress" THEN KeysIn(0) ELSE Moving \ KeysIn(0))
  /\ denied # {} => Cardinality(InTable) >= 2 * Bup

Pouring ==
  /\ IF op = "compress" THEN H!IInv ELSE T!IInv
  /\ asum \in Int
  /\ Shared /\ Bounded

Inv ==
  /\ Given
  /\ stage = "layer1" => /\ NoInsertYet /\ mq = {}
                         /\ num = IF op = "compress" THEN 0 ELSE Cardinality(KeysIn(0))
  /\ stage = "layer2" => NoInsertYet /\ HalfWay
  /\ stage \in {"pour", "done"} => Pouring
  /\ stage = "done" => mq = {} /\ pc = "idle" /\ num = Cardinality(InTable)

-----------------------------------------------------------------------------
(* Facts about numbers and finite sets.                                    *)

(* The instances count as this module does.                                *)
LEMMA SameCounting ==
  ASSUME NEW S
  PROVE  /\ T!Cardinality(S) = Cardinality(S) /\ H!Cardinality(S) = Cardinality(S)
         /\ Ops!Cardinality(S) = Cardinality(S)
  BY DEF Cardinality, T!Cardinality, H!Cardinality, Ops!Cardinality

(* The instances have the same finite sets.                                *)
LEMMA SameFinite ==
  ASSUME NEW S
  PROVE  /\ T!IsFiniteSet(S) <=> IsFiniteSet(S)
         /\ H!IsFiniteSet(S) <=> IsFiniteSet(S)
  BY DEF IsFiniteSet, T!IsFiniteSet, H!IsFiniteSet

(* Every set of keys is finite.                                            *)
LEMMA SomeKeys ==
  ASSUME NEW S \in SUBSET Keys
  PROVE  IsFiniteSet(S) /\ Cardinality(S) \in Nat
  BY KeysAssumption, FS_Subset, FS_CardinalityType

(* Two sets of keys that share none are counted one after the other.       *)
LEMMA DisjointSize ==
  ASSUME NEW S \in SUBSET Keys, NEW R \in SUBSET Keys, S \cap R = {}
  PROVE  Cardinality(S \cup R) = Cardinality(S) + Cardinality(R)
  <1>1. /\ IsFiniteSet(S) /\ Cardinality(S) \in Nat
        /\ IsFiniteSet(R) /\ Cardinality(R) \in Nat
    BY SomeKeys
  <1>2. Cardinality(S \cup R) = Cardinality(S) + Cardinality(R) - Cardinality(S \cap R)
    BY <1>1, FS_Union
  <1>3. Cardinality(S \cap R) = 0
    BY FS_EmptySet
  <1> QED  BY <1>1, <1>2, <1>3

(* A part of a set of keys, and what is left without it.                   *)
LEMMA PartSize ==
  ASSUME NEW S \in SUBSET Keys, NEW R \in SUBSET S
  PROVE  /\ Cardinality(R) <= Cardinality(S)
         /\ Cardinality(S \ R) = Cardinality(S) - Cardinality(R)
  <1>1. R \in SUBSET Keys /\ S \ R \in SUBSET Keys /\ (S \ R) \cap R = {} /\ (S \ R) \cup R = S
    OBVIOUS
  <1>2. Cardinality(S) = Cardinality(S \ R) + Cardinality(R)
    BY <1>1, DisjointSize
  <1> QED  BY <1>1, <1>2, SomeKeys

(* A number is its remainder above a multiple.                             *)
LEMMA Remainder ==
  ASSUME NEW a \in Nat, NEW m \in Nat \ {0}
  PROVE  a % m \in 0 .. m - 1 /\ \E c \in Nat : a = c * m + (a % m)
  <1> DEFINE q == a \div m
             r == a % m
  <1>1. r \in 0 .. m - 1
    OBVIOUS
  <1>2. a = m * q + r
    OBVIOUS
  <1>3. q \in Nat
    OBVIOUS
  <1> HIDE DEF q, r
  <1>4. a = q * m + r
    BY <1>1, <1>2, <1>3
  <1>5. \E c \in Nat : a = c * m + r
    BY <1>3, <1>4
  <1> QED  BY <1>1, <1>5 DEF r

(* A multiple of m is at least as far from m as its factor from 1.         *)
LEMMA Multiples ==
  ASSUME NEW e \in Int, NEW m \in Nat \ {0}
  PROVE  (e >= 2 => e * m >= 2 * m) /\ (e <= -1 => e * m <= -m)
  <1>1. \A x \in Nat : x * m \in Nat
    OBVIOUS
  <1>2. CASE e >= 2
    <2>1. (e - 2) * m \in Nat
      BY <1>1, <1>2
    <2>2. (e - 2) * m = e * m - 2 * m
      OBVIOUS
    <2> QED  BY <2>1, <2>2, <1>2
  <1>3. CASE e <= -1
    <2>1. (-1 - e) * m \in Nat
      BY <1>1, <1>3
    <2>2. (-1 - e) * m = -m - e * m
      OBVIOUS
    <2> QED  BY <2>1, <2>2, <1>3
  <1> QED  BY <1>2, <1>3

(* Doubling a layer leaves a key's bucket number as it is, or adds the old *)
(* length.                                                                 *)
LEMMA DoubledRemainder ==
  ASSUME NEW a \in Nat, NEW m \in Nat \ {0}
  PROVE  /\ a % m \in 0 .. m - 1 /\ a % (2 * m) \in 0 .. 2 * m - 1
         /\ a % (2 * m) < m => a % (2 * m) = a % m
         /\ a % (2 * m) >= m => a % (2 * m) = (a % m) + m
  <1> DEFINE s == a % m
             t == a % (2 * m)
  <1>1. s \in 0 .. m - 1 /\ \E c \in Nat : a = c * m + s
    BY Remainder
  <1>2. t \in 0 .. 2 * m - 1 /\ \E c \in Nat : a = c * (2 * m) + t
    <2> DEFINE mm == 2 * m
    <2>1. mm \in Nat \ {0}
      OBVIOUS
    <2> HIDE DEF mm
    <2>2. a % mm \in 0 .. mm - 1 /\ \E c \in Nat : a = c * mm + (a % mm)
      BY <2>1, Remainder
    <2> QED  BY <2>2 DEF mm
  <1> HIDE DEF s, t
  <1>3. s \in 0 .. m - 1 /\ t \in 0 .. 2 * m - 1
    BY <1>1, <1>2
  <1>4. PICK c \in Nat : a = c * m + s
    BY <1>1
  <1>5. PICK d \in Nat : a = d * (2 * m) + t
    BY <1>2
  <1> DEFINE e == c - 2 * d
  <1>6. e \in Int
    OBVIOUS
  <1>7. (c - 2 * d) * m = c * m - d * (2 * m)
    OBVIOUS
  <1>8. c * m \in Int /\ d * (2 * m) \in Int
    OBVIOUS
  <1>9. t - s = e * m
    BY <1>3, <1>4, <1>5, <1>7, <1>8
  <1> HIDE DEF e
  <1>10. t - s > -m /\ t - s < 2 * m
    BY <1>3
  <1>11. (e >= 2 => e * m >= 2 * m) /\ (e <= -1 => e * m <= -m)
    BY <1>6, Multiples
  <1>12. ~ (e >= 2) /\ ~ (e <= -1)
    <2> DEFINE p == e * m
    <2>1. (e >= 2 => p >= 2 * m) /\ (e <= -1 => p <= -m) /\ t - s = p
      BY <1>11, <1>9
    <2> HIDE DEF p
    <2> QED  BY <2>1, <1>3, <1>10
  <1>13. e = 0 \/ e = 1
    BY <1>6, <1>12
  <1>14. t = s \/ t = s + m
    <2>1. CASE e = 0
      BY <2>1, <1>3, <1>9
    <2>2. CASE e = 1
      BY <2>2, <1>3, <1>9
    <2> QED  BY <1>13, <2>1, <2>2
  <1> QED  BY <1>3, <1>14 DEF s, t

-----------------------------------------------------------------------------
(* Facts about one layer.                                                  *)

(* The buckets and the contents of a layer are finite sets of keys.        *)
LEMMA LayerTypes ==
  ASSUME NEW l \in Nat \ {0}, NEW h \in [Keys -> Nat], NEW layer, Placed(layer, h, l)
  PROVE  /\ DOMAIN layer = 0 .. l - 1
         /\ ContentsOf(layer) \in SUBSET Keys
         /\ \A b \in 0 .. l - 1 : /\ layer[b] \in SUBSET Keys /\ IsFiniteSet(layer[b])
                                  /\ Cardinality(layer[b]) \in 0 .. Bup
         /\ \A k \in Keys : k \in ContentsOf(layer) <=> k \in layer[h[k] % l]
         /\ \A k \in Keys : h[k] % l \in 0 .. l - 1
  <1>1. DOMAIN layer = 0 .. l - 1 /\ \A b \in 0 .. l - 1 : layer[b] \in SUBSET Keys
    BY DEF Placed
  <1>2. ContentsOf(layer) \in SUBSET Keys
    BY <1>1 DEF ContentsOf
  <1>3. \A b \in 0 .. l - 1 : IsFiniteSet(layer[b]) /\ Cardinality(layer[b]) \in Nat
    BY <1>1, SomeKeys
  <1>4. \A b \in 0 .. l - 1 : Cardinality(layer[b]) \in 0 .. Bup
    BY <1>3, ShapeAssumption DEF Placed
  <1>5. \A k \in Keys : h[k] % l \in 0 .. l - 1
    BY Remainder
  <1>6. \A k \in Keys : k \in ContentsOf(layer) <=> k \in layer[h[k] % l]
    BY <1>1, <1>5 DEF ContentsOf, Placed
  <1> QED  BY <1>1, <1>2, <1>3, <1>4, <1>5, <1>6

(* A function into a set is one into a larger set.                         *)
LEMMA WiderRange ==
  ASSUME NEW S, NEW R, NEW U, NEW f \in [S -> R], \A i \in R : i \in U
  PROVE  f \in [S -> U]
  OBVIOUS

(* No more keys than slots.                                                *)
LEMMA Capacity ==
  ASSUME NEW l \in Nat \ {0}, NEW h \in [Keys -> Nat], NEW layer, Placed(layer, h, l)
  PROVE  Cardinality(ContentsOf(layer)) <= l * Bup
  <1> DEFINE B == 0 .. l - 1
             C == ContentsOf(layer)
             Slot(b) == CHOOSE f \in [layer[b] -> 1 .. Bup] :
                           \A x, y \in layer[b] : f[x] = f[y] => x = y
             F == [k \in C |-> <<h[k] % l, Slot(h[k] % l)[k]>>]
  <1>1. ASSUME NEW b \in B
        PROVE  /\ Slot(b) \in [layer[b] -> 1 .. Bup]
               /\ \A x, y \in layer[b] : Slot(b)[x] = Slot(b)[y] => x = y
    <2> DEFINE n == Cardinality(layer[b])
    <2>1. IsFiniteSet(layer[b]) /\ n \in 0 .. Bup
      BY LayerTypes
    <2>2. ExistsBijection(layer[b], 1 .. n)
      BY <2>1, FS_CardinalityType, Fun_ExistsBijSymmetric
    <2>3. PICK f \in Bijection(layer[b], 1 .. n) : TRUE
      BY <2>2 DEF ExistsBijection
    <2>4. f \in [layer[b] -> 1 .. n] /\ \A x, y \in layer[b] : f[x] = f[y] => x = y
      BY <2>3 DEF Bijection, Injection, IsInjective
    <2>5. f \in [layer[b] -> 1 .. Bup]
      <3>1. \A i \in 1 .. n : i \in 1 .. Bup
        BY <2>1, ShapeAssumption
      <3>2. f \in [layer[b] -> 1 .. n]
        BY <2>4
      <3> QED  BY <3>1, <3>2, WiderRange
    <2>6. \E g \in [layer[b] -> 1 .. Bup] : \A x, y \in layer[b] : g[x] = g[y] => x = y
      BY <2>4, <2>5
    <2> HIDE DEF n
    <2> QED  BY <2>6
  <1>2. \A k \in C : k \in Keys /\ h[k] % l \in B /\ k \in layer[h[k] % l]
    BY LayerTypes
  <1> HIDE DEF Slot
  <1>3. F \in [C -> B \X (1 .. Bup)]
    BY <1>1, <1>2
  <1>4. \A j, k \in C : F[j] = F[k] => j = k
    <2> SUFFICES ASSUME NEW j \in C, NEW k \in C, F[j] = F[k] PROVE j = k
      OBVIOUS
    <2>1. h[j] % l = h[k] % l /\ Slot(h[j] % l)[j] = Slot(h[k] % l)[k]
      OBVIOUS
    <2> QED  BY <2>1, <1>1, <1>2
  <1>5. F \in Injection(C, B \X (1 .. Bup))
    BY <1>3, <1>4, Fun_IsInj
  <1>6. /\ IsFiniteSet(B) /\ Cardinality(B) = l
        /\ IsFiniteSet(1 .. Bup) /\ Cardinality(1 .. Bup) = Bup
    <2>1. Bup \in Nat \ {0} /\ l - 1 \in Int
      BY ShapeAssumption
    <2>2. IsFiniteSet(B) /\ Cardinality(B) = (l - 1) - 0 + 1
      BY <2>1, FS_Interval
    <2>3. IsFiniteSet(1 .. Bup) /\ Cardinality(1 .. Bup) = Bup - 1 + 1
      BY <2>1, FS_Interval
    <2> QED  BY <2>1, <2>2, <2>3
  <1>7. IsFiniteSet(B \X (1 .. Bup)) /\ Cardinality(B \X (1 .. Bup)) = l * Bup
    <2> HIDE DEF B
    <2> QED  BY <1>6, FS_Product
  <1> QED  BY <1>5, <1>7, FS_Injection

-----------------------------------------------------------------------------
(* What the loops over a layer keep.                                       *)

(* A bucket takes the keys meant for it, but no more than it has room for, *)
(* and the rest wait.                                                      *)
LEMMA FilledKeeps ==
  ASSUME NEW l \in Nat \ {0}, NEW h \in [Keys -> Nat], NEW layer, Placed(layer, h, l),
         NEW M \in SUBSET Keys, M \cap ContentsOf(layer) = {},
         NEW to, \A k \in M : to[k] = h[k] % l,
         NEW r \in Filled(layer, M, to)
  PROVE  /\ Placed(r[1], h, l)
         /\ r[2] \in SUBSET M
         /\ ContentsOf(r[1]) = ContentsOf(layer) \cup (M \ r[2])
  <1> DEFINE B == 0 .. l - 1
             Meant(b) == {k \in M : to[k] = b}
             Room(b) == Bup - Cardinality(layer[b])
             Over(b) == IF Cardinality(Meant(b)) > Room(b)
                        THEN Cardinality(Meant(b)) - Room(b) ELSE 0
  <1>1. DOMAIN layer = B
    BY LayerTypes
  <1>2. PICK R \in SUBSET M :
          /\ \A b \in DOMAIN layer : Cardinality(R \cap Meant(b)) = Over(b)
          /\ r = <<[b \in DOMAIN layer |-> layer[b] \cup (Meant(b) \ R)], R>>
    BY DEF Filled
  <1> DEFINE new == [b \in B |-> layer[b] \cup (Meant(b) \ R)]
  <1>3. r[1] = new /\ r[2] = R
    BY <1>1, <1>2
  <1>4. \A b \in B : layer[b] \in SUBSET Keys /\ Meant(b) \in SUBSET Keys
    BY LayerTypes
  <1>5. new \in [B -> SUBSET Keys]
    BY <1>4
  <1>6. \A b \in B : \A k \in new[b] : h[k] % l = b
    BY <1>4 DEF Placed
  <1>7. ASSUME NEW b \in B PROVE Cardinality(new[b]) <= Bup
    <2>1. /\ Meant(b) \in SUBSET Keys /\ layer[b] \in SUBSET Keys
          /\ R \cap Meant(b) \in SUBSET Meant(b) /\ Meant(b) \ R \in SUBSET Keys
          /\ Meant(b) \ R = Meant(b) \ (R \cap Meant(b))
      BY <1>4
    <2>2. layer[b] \cap (Meant(b) \ R) = {}
      BY <1>1 DEF ContentsOf
    <2>3. Cardinality(new[b]) = Cardinality(layer[b]) + Cardinality(Meant(b) \ R)
      <3>1. new[b] = layer[b] \cup (Meant(b) \ R)
        OBVIOUS
      <3> QED  BY <3>1, <2>1, <2>2, DisjointSize
    <2>4. Cardinality(Meant(b) \ R) = Cardinality(Meant(b)) - Cardinality(R \cap Meant(b))
      BY <2>1, PartSize
    <2>5. Cardinality(R \cap Meant(b)) = Over(b)
      BY <1>1, <1>2
    <2>6. Cardinality(layer[b]) \in 0 .. Bup /\ Cardinality(Meant(b)) \in Nat /\ Bup \in Nat
      BY <2>1, LayerTypes, SomeKeys, ShapeAssumption
    <2> HIDE DEF new, Meant
    <2> QED  BY <2>3, <2>4, <2>5, <2>6
  <1>8. ContentsOf(new) = ContentsOf(layer) \cup (M \ R)
    <2>1. DOMAIN new = B
      OBVIOUS
    <2>2. ASSUME NEW k \in M \ R PROVE \E b \in B : k \in new[b]
      <3>1. k \in Meant(h[k] % l) /\ h[k] % l \in B
        BY LayerTypes
      <3> QED  BY <3>1
    <2>3. ASSUME NEW b \in B, NEW k \in new[b] PROVE k \in layer[b] \cup (M \ R)
      OBVIOUS
    <2>4. \A b \in B : layer[b] \subseteq new[b]
      OBVIOUS
    <2> HIDE DEF new
    <2> QED  BY <1>1, <2>1, <2>2, <2>3, <2>4 DEF ContentsOf
  <1> QED  BY <1>3, <1>5, <1>6, <1>7, <1>8 DEF Placed

(* The layer of a table whose keys lie where they hash to.                 *)
Buckets(K, h, l) == [b \in 0 .. l - 1 |-> {k \in K : h[k] % l = b}]

(* Each copy of a bucket keeps the keys that hash to it.                   *)
LEMMA DoubledKeeps ==
  ASSUME NEW l \in Nat \ {0}, NEW h \in [Keys -> Nat], NEW K \in SUBSET Keys,
         \A b \in 0 .. l - 1 : Cardinality(Buckets(K, h, l)[b]) <= Bup
  PROVE  LET new == Doubled(Buckets(K, h, l), l, h)
         IN  Placed(new, h, 2 * l) /\ ContentsOf(new) = K
  <1> DEFINE old == Buckets(K, h, l)
             new == Doubled(old, l, h)
             B == 0 .. 2 * l - 1
             base(b) == IF b < l THEN b ELSE b - l
  <1>1. new = [b \in B |-> IF b < l THEN {k \in old[b] : h[k] % (2 * l) = b}
                           ELSE old[b - l] \ {k \in old[b - l] : h[k] % (2 * l) = b - l}]
    BY DEF Doubled
  <1>2. \A b \in B : base(b) \in 0 .. l - 1
    OBVIOUS
  <1>3. \A c \in 0 .. l - 1 : old[c] = {k \in K : h[k] % l = c}
    BY DEF Buckets
  <1>4. \A k \in Keys : /\ h[k] % l \in 0 .. l - 1 /\ h[k] % (2 * l) \in B
                        /\ h[k] % (2 * l) < l => h[k] % (2 * l) = h[k] % l
                        /\ h[k] % (2 * l) >= l => h[k] % (2 * l) = (h[k] % l) + l
    BY DoubledRemainder
  <1>5. ASSUME NEW b \in B PROVE new[b] = {k \in K : h[k] % (2 * l) = b}
    <2> HIDE DEF old, new
    <2>1. CASE b < l
      <3>1. new[b] = {k \in old[b] : h[k] % (2 * l) = b} /\ b \in 0 .. l - 1
        BY <1>1, <2>1
      <3>2. \A k \in K : h[k] % (2 * l) = b => h[k] % l = b
        BY <2>1, <1>4
      <3> QED  BY <3>1, <3>2, <1>3
    <2>2. CASE b >= l
      <3>1. new[b] = old[b - l] \ {k \in old[b - l] : h[k] % (2 * l) = b - l}
        BY <1>1, <2>2
      <3>2. b - l \in 0 .. l - 1
        BY <2>2
      <3>3. ASSUME NEW k \in K
            PROVE  h[k] % (2 * l) = b <=> h[k] % l = b - l /\ h[k] % (2 * l) # b - l
        <4> DEFINE s == h[k] % l
                   t == h[k] % (2 * l)
        <4>1. s \in 0 .. l - 1 /\ t \in B /\ (t < l => t = s) /\ (t >= l => t = s + l)
          BY <1>4
        <4> HIDE DEF s, t
        <4>2. t = b <=> s = b - l /\ t # b - l
          BY <4>1, <2>2
        <4> QED  BY <4>2 DEF s, t
      <3> QED  BY <3>1, <3>2, <3>3, <1>3
    <2> QED  BY <2>1, <2>2
  <1>6. \A b \in B : Cardinality(new[b]) <= Bup
    <2> SUFFICES ASSUME NEW b \in B PROVE Cardinality(new[b]) <= Bup
      OBVIOUS
    <2>1. old[base(b)] \in SUBSET Keys /\ Cardinality(old[base(b)]) <= Bup
      BY <1>2, <1>3
    <2>2. new[b] \in SUBSET old[base(b)]
      BY <1>1, <1>2
    <2>3. Cardinality(new[b]) <= Cardinality(old[base(b)])
      BY <2>1, <2>2, PartSize
    <2>4. /\ Cardinality(new[b]) \in Nat /\ Cardinality(old[base(b)]) \in Nat /\ Bup \in Nat
      BY <2>1, <2>2, SomeKeys, ShapeAssumption
    <2> HIDE DEF new, old, base
    <2> QED  BY <2>1, <2>3, <2>4
  <1>7. DOMAIN new = B /\ new \in [B -> SUBSET Keys]
    <2>1. DOMAIN new = B /\ new = [b \in B |-> new[b]]
      BY <1>1
    <2>2. \A b \in B : new[b] \in SUBSET Keys
      BY <1>5
    <2> HIDE DEF new
    <2> QED  BY <2>1, <2>2
  <1> HIDE DEF new
  <1>8. Placed(new, h, 2 * l)
    BY <1>5, <1>6, <1>7 DEF Placed
  <1>9. ContentsOf(new) = K
    BY <1>4, <1>5, <1>7 DEF ContentsOf
  <1> QED  BY <1>8, <1>9 DEF new

LowerHalf(old, l) == [b \in 0 .. l \div 2 - 1 |-> old[b]]
UpperKeys(old, l) == UNION {old[b] : b \in l \div 2 .. l - 1}
CameFrom(old, l, k) == CHOOSE b \in l \div 2 .. l - 1 : k \in old[b]

(* The upper half of the buckets is poured onto the lower, bucket by       *)
(* bucket: where a key comes from tells where it goes.                     *)
LEMMA HalvedKeeps ==
  ASSUME NEW l \in Nat \ {0}, l % 2 = 0, NEW h \in [Keys -> Nat], NEW K \in SUBSET Keys,
         \A b \in 0 .. l - 1 : Cardinality(Buckets(K, h, l)[b]) <= Bup
  PROVE  LET old == Buckets(K, h, l)
             half == l \div 2
             low == LowerHalf(old, l)
             upper == UpperKeys(old, l)
         IN  /\ half \in Nat \ {0} /\ l = 2 * half
             /\ Placed(low, h, half) /\ ContentsOf(low) = K \ upper
             /\ upper \in SUBSET K
             /\ \A k \in upper : CameFrom(old, l, k) - half = h[k] % half
  <1> DEFINE old == Buckets(K, h, l)
             half == l \div 2
             low == [b \in 0 .. half - 1 |-> old[b]]
             upper == UNION {old[b] : b \in half .. l - 1}
             from(k) == CHOOSE b \in half .. l - 1 : k \in old[b]
  <1>1. half \in Nat \ {0} /\ l = 2 * half
    OBVIOUS
  <1> HIDE DEF half
  <1>2. \A b \in 0 .. l - 1 : old[b] = {k \in K : h[k] % l = b}
    BY DEF Buckets
  <1>3. \A k \in Keys : /\ h[k] % half \in 0 .. half - 1 /\ h[k] % l \in 0 .. l - 1
                        /\ h[k] % l < half => h[k] % l = h[k] % half
                        /\ h[k] % l >= half => h[k] % l = (h[k] % half) + half
    BY <1>1, DoubledRemainder
  <1>4. \A b \in 0 .. half - 1 : b \in 0 .. l - 1 /\ low[b] = old[b]
    BY <1>1
  <1>5. \A b \in half .. l - 1 : b \in 0 .. l - 1
    BY <1>1
  <1> HIDE DEF old
  <1>6. \A k \in K : k \in upper <=> h[k] % l >= half
    <2> SUFFICES ASSUME NEW k \in K PROVE k \in upper <=> h[k] % l >= half
      OBVIOUS
    <2>1. h[k] % l >= half => h[k] % l \in half .. l - 1 /\ k \in old[h[k] % l]
      BY <1>1, <1>2, <1>3
    <2>2. \A b \in half .. l - 1 : k \in old[b] => h[k] % l >= half
      BY <1>1, <1>2, <1>5
    <2> QED  BY <2>1, <2>2
  <1>7. upper \in SUBSET K
    BY <1>2, <1>5
  <1>8. low \in [0 .. half - 1 -> SUBSET Keys]
    BY <1>2, <1>4
  <1>9. Placed(low, h, half)
    <2>1. \A b \in 0 .. half - 1 : \A k \in low[b] : h[k] % half = b
      BY <1>1, <1>2, <1>3, <1>4
    <2>2. \A b \in 0 .. half - 1 : Cardinality(low[b]) <= Bup
      BY <1>4 DEF old
    <2> QED  BY <1>8, <2>1, <2>2 DEF Placed
  <1>10. ContentsOf(low) = K \ upper
    <2>1. ASSUME NEW b \in 0 .. half - 1, NEW k \in low[b] PROVE k \in K \ upper
      BY <1>1, <1>2, <1>3, <1>4, <1>6
    <2>2. ASSUME NEW k \in K \ upper PROVE \E b \in 0 .. half - 1 : k \in low[b]
      <3>1. h[k] % l \in 0 .. half - 1
        BY <1>1, <1>3, <1>6
      <3> QED  BY <3>1, <1>2, <1>4
    <2>3. DOMAIN low = 0 .. half - 1
      OBVIOUS
    <2> HIDE DEF low, upper
    <2> QED  BY <2>1, <2>2, <2>3 DEF ContentsOf
  <1>11. ASSUME NEW k \in upper PROVE from(k) - half = h[k] % half
    <2>1. k \in K /\ h[k] % l \in half .. l - 1
      BY <1>1, <1>3, <1>6, <1>7
    <2>2. \A b \in half .. l - 1 : k \in old[b] <=> b = h[k] % l
      BY <2>1, <1>2, <1>5
    <2>3. from(k) = h[k] % l
      BY <2>1, <2>2
    <2> HIDE DEF from
    <2> QED  BY <2>1, <2>3, <1>1, <1>3
  <1>12. /\ low = LowerHalf(old, l) /\ upper = UpperKeys(old, l)
         /\ \A k : from(k) = CameFrom(old, l, k)
    BY DEF half, old, LowerHalf, UpperKeys, CameFrom
  <1> HIDE DEF low, upper, from
  <1> QED  BY <1>1, <1>7, <1>9, <1>10, <1>11, <1>12 DEF half, old

(* A key was in one table and one layer; an expansion or a compression has *)
(* one table and a merge of two has no third.                              *)
LEMMA WherePlaced ==
  ASSUME Given, NEW i \in {1, 2}
  PROVE  /\ KeysAt(0, i) \in SUBSET Keys /\ KeysAt(1, i) \in SUBSET Keys
         /\ KeysAt(2, i) \in SUBSET Keys
         /\ KeysAt(0, i) \cap KeysAt(1, i) = {} /\ KeysAt(0, i) \cap KeysAt(2, i) = {}
         /\ KeysAt(1, i) \cap KeysAt(2, i) = {}
         /\ op \in {"expand", "compress"} => KeysAt(1, i) = {}
         /\ op # "merge3" => KeysAt(2, i) = {}
         /\ Others(i) \in SUBSET Keys /\ MovingAt(i) \in SUBSET Keys
  <1>1. /\ KeysAt(0, i) \in SUBSET Keys /\ KeysAt(1, i) \in SUBSET Keys
        /\ KeysAt(2, i) \in SUBSET Keys
    BY DEF KeysAt
  <1>2. \A k \in Keys : place[k] = <<>> \/ \E t \in TablesOf(op), j \in {1, 2} : place[k] = <<t, j>>
    BY DEF Given, Nowhere
  <1>3. op \in {"expand", "compress"} => TablesOf(op) = {0}
    BY DEF TablesOf
  <1>4. op \in {"expand", "compress", "merge2"} => 2 \notin TablesOf(op)
    BY DEF TablesOf
  <1>5. op # "merge3" => KeysAt(2, i) = {}
    BY <1>2, <1>4 DEF Given, Operations, KeysAt
  <1>6. op \in {"expand", "compress"} => KeysAt(1, i) = {}
    BY <1>2, <1>3 DEF KeysAt
  <1>7. /\ KeysAt(0, i) \cap KeysAt(1, i) = {} /\ KeysAt(0, i) \cap KeysAt(2, i) = {}
        /\ KeysAt(1, i) \cap KeysAt(2, i) = {}
    BY DEF KeysAt
  <1> QED  BY <1>1, <1>5, <1>6, <1>7 DEF Others, MovingAt

(* The loops over a layer leave every key of it in the bucket of the new   *)
(* layer it hashes to, or waiting.                                         *)
LEMMA MovedKeeps ==
  ASSUME Given, NEW i \in {1, 2}, NEW l \in Nat \ {0}, l % 2 = 0, NEW h \in [Keys -> Nat],
         \A b \in 0 .. l - 1 : Cardinality(Buckets(KeysAt(0, i), h, l)[b]) <= Bup,
         NEW r \in Moved(Buckets(KeysAt(0, i), h, l), l, i, h)
  PROVE  /\ Placed(r[1], h, NewLen(l))
         /\ r[2] \in SUBSET MayWait(i)
         /\ ContentsOf(r[1]) = MovingAt(i) \ r[2]
  <1> DEFINE K0 == KeysAt(0, i)
             K1 == KeysAt(1, i)
             K2 == KeysAt(2, i)
             old == Buckets(K0, h, l)
             to == [k \in Keys |-> h[k] % (2 * l)]
             start == Doubled(old, l, h)
  <1>1. /\ K0 \in SUBSET Keys /\ K1 \in SUBSET Keys /\ K2 \in SUBSET Keys
        /\ K0 \cap K1 = {} /\ K0 \cap K2 = {} /\ K1 \cap K2 = {}
        /\ op \in {"expand", "compress"} => K1 = {}
        /\ op # "merge3" => K2 = {}
        /\ Others(i) = K1 \cup K2 /\ MovingAt(i) = K0 \cup K1 \cup K2
    BY WherePlaced DEF Others, MovingAt
  <1>2. op \in Operations
    BY DEF Given
  <1>3. 2 * l \in Nat \ {0}
    OBVIOUS
  <1>4. Placed(start, h, 2 * l) /\ ContentsOf(start) = K0
    BY <1>1, DoubledKeeps
  <1>5. \A k \in Keys : to[k] = h[k] % (2 * l)
    OBVIOUS
  <1>10. \A b \in 0 .. l - 1 : Cardinality(Buckets(K0, h, l)[b]) <= Bup
    OBVIOUS
  <1> HIDE DEF start, to, K0, K1, K2
  <1>6. CASE op = "expand"
    <2>1. r = <<start, {}>>
      BY <1>6 DEF Moved, start, K0
    <2>2. MayWait(i) = K1 \cup K2 /\ NewLen(l) = 2 * l
      BY <1>1, <1>6 DEF MayWait, NewLen
    <2> QED  BY <2>1, <2>2, <1>1, <1>4, <1>6
  <1>7. CASE op = "merge2"
    <2>1. r \in Filled(start, K1, to)
      BY <1>7 DEF Moved, start, to, K0, K1
    <2>2. K1 \cap ContentsOf(start) = {} /\ \A k \in K1 : to[k] = h[k] % (2 * l)
      BY <1>1, <1>4, <1>5
    <2>3. /\ Placed(r[1], h, 2 * l) /\ r[2] \in SUBSET K1
          /\ ContentsOf(r[1]) = ContentsOf(start) \cup (K1 \ r[2])
      BY <2>1, <2>2, <1>1, <1>3, <1>4, FilledKeeps
    <2>4. MayWait(i) = K1 \cup K2 /\ NewLen(l) = 2 * l
      BY <1>1, <1>7 DEF MayWait, NewLen
    <2> QED  BY <2>3, <2>4, <1>1, <1>4, <1>7
  <1>8. CASE op = "merge3"
    <2>1. PICK f \in Filled(start, K1, to) :
            r \in {<<s[1], f[2] \cup s[2]>> : s \in Filled(f[1], K2, to)}
      BY <1>8 DEF Moved, start, to, K0, K1, K2
    <2>2. PICK s \in Filled(f[1], K2, to) : r = <<s[1], f[2] \cup s[2]>>
      BY <2>1
    <2>3. K1 \cap ContentsOf(start) = {} /\ \A k \in K1 : to[k] = h[k] % (2 * l)
      BY <1>1, <1>4, <1>5
    <2>4. /\ Placed(f[1], h, 2 * l) /\ f[2] \in SUBSET K1
          /\ ContentsOf(f[1]) = ContentsOf(start) \cup (K1 \ f[2])
      BY <2>1, <2>3, <1>1, <1>3, <1>4, FilledKeeps
    <2>5. K2 \cap ContentsOf(f[1]) = {} /\ \A k \in K2 : to[k] = h[k] % (2 * l)
      BY <2>4, <1>1, <1>4, <1>5
    <2>6. /\ Placed(s[1], h, 2 * l) /\ s[2] \in SUBSET K2
          /\ ContentsOf(s[1]) = ContentsOf(f[1]) \cup (K2 \ s[2])
      BY <2>2, <2>4, <2>5, <1>1, <1>3, FilledKeeps
    <2>7. MayWait(i) = K1 \cup K2 /\ NewLen(l) = 2 * l
      BY <1>1, <1>8 DEF MayWait, NewLen
    <2>8. r[1] = s[1] /\ r[2] = f[2] \cup s[2]
      BY <2>2
    <2> QED  BY <2>4, <2>6, <2>7, <2>8, <1>1, <1>4
  <1>9. CASE op = "compress"
    <2> DEFINE half == l \div 2
               low == LowerHalf(old, l)
               upper == UpperKeys(old, l)
               down == [k \in upper |-> CameFrom(old, l, k) - half]
    <2>1. /\ half \in Nat \ {0}
          /\ Placed(low, h, half) /\ ContentsOf(low) = K0 \ upper
          /\ upper \in SUBSET K0
          /\ \A k \in upper : CameFrom(old, l, k) - half = h[k] % half
      BY <1>1, <1>10, HalvedKeeps
    <2>2. r \in Filled(low, upper, down)
      BY <1>9 DEF Moved, K0, LowerHalf, UpperKeys, CameFrom
    <2> HIDE DEF low, upper, half
    <2>3. \A k \in upper : down[k] = h[k] % half
      BY <2>1
    <2> HIDE DEF down
    <2>4. /\ Placed(r[1], h, half) /\ r[2] \in SUBSET upper
          /\ ContentsOf(r[1]) = ContentsOf(low) \cup (upper \ r[2])
      <3>1. upper \cap ContentsOf(low) = {} /\ upper \in SUBSET Keys
        BY <2>1, <1>1
      <3>2. half \in Nat \ {0} /\ Placed(low, h, half)
        BY <2>1
      <3> QED  BY <3>1, <3>2, <2>2, <2>3, FilledKeeps
    <2>5. MayWait(i) = K0 /\ NewLen(l) = half
      BY <1>9 DEF MayWait, NewLen, K0, half
    <2>6. MovingAt(i) = K0
      BY <1>1, <1>9
    <2>7. ContentsOf(r[1]) = K0 \ r[2]
      BY <2>1, <2>4
    <2> QED  BY <2>1, <2>4, <2>5, <2>6, <2>7
  <1> QED  BY <1>2, <1>6, <1>7, <1>8, <1>9 DEF Operations

-----------------------------------------------------------------------------
(* The insertions, by what CuckooProofs says of them.                      *)

(* Both instances are of tables as CuckooProofs assumes them.              *)
LEMMA Shapes ==
  /\ T!IsFiniteSet(Keys) /\ H!IsFiniteSet(Keys) /\ NoKey \notin Keys
  /\ Bup \in Nat \ {0} /\ KickTimes \in Nat
  /\ Len1 \in Nat \ {0} /\ Len2 \in Nat \ {0} /\ Len1 % 2 = 0 /\ Len2 % 2 = 0
  /\ (2 * Len1) \in Nat \ {0} /\ (2 * Len2) \in Nat \ {0}
  /\ (Len1 \div 2) \in Nat \ {0} /\ (Len2 \div 2) \in Nat \ {0}
  /\ Hash1 \in [Keys -> Nat] /\ Hash2 \in [Keys -> Nat]
  <1>1. T!IsFiniteSet(Keys) /\ H!IsFiniteSet(Keys)
    BY KeysAssumption, SameFinite
  <1>2. /\ Bup \in Nat \ {0} /\ KickTimes \in Nat
        /\ Len1 \in Nat \ {0} /\ Len2 \in Nat \ {0} /\ Len1 % 2 = 0 /\ Len2 % 2 = 0
    BY ShapeAssumption
  <1>3. /\ (2 * Len1) \in Nat \ {0} /\ (2 * Len2) \in Nat \ {0}
        /\ (Len1 \div 2) \in Nat \ {0} /\ (Len2 \div 2) \in Nat \ {0}
    BY <1>2
  <1> QED  BY <1>1, <1>2, <1>3, KeysAssumption, HashAssumption

(* The instances' contents of the table are the keys in it.                *)
LEMMA SameContents ==
  /\ T!Stored = InTable /\ H!Stored = InTable
  /\ T!Stored1 = ContentsOf(layer1) /\ T!Stored2 = ContentsOf(layer2)
  /\ H!Stored1 = ContentsOf(layer1) /\ H!Stored2 = ContentsOf(layer2)
  BY DEF InTable, ContentsOf, T!Stored, T!Stored1, T!Stored2, T!Contents,
         H!Stored, H!Stored1, H!Stored2, H!Contents

(* An idle new table, its layers with the keys of the old ones.            *)
NewTableOK(l1, l2) ==
  /\ Placed(layer1, Hash1, l1) /\ Placed(layer2, Hash2, l2)
  /\ ContentsOf(layer1) \cap ContentsOf(layer2) = {}
  /\ pc = "idle" /\ item = NoKey /\ ins = NoKey /\ mykick = NoKey
  /\ times = 0 /\ flag = TRUE

(* Such a table is one CuckooProofs can start from.                        *)
LEMMA TwiceStarts ==
  NewTableOK(2 * Len1, 2 * Len2) /\ num = Cardinality(InTable) => T!IInv
  <1> SUFFICES ASSUME NewTableOK(2 * Len1, 2 * Len2), num = Cardinality(InTable)
               PROVE  T!IInv
    OBVIOUS
  <1> USE DEF NewTableOK
  <1>1. /\ ContentsOf(layer1) \in SUBSET Keys /\ ContentsOf(layer2) \in SUBSET Keys
        /\ \A b \in 0 .. 2 * Len1 - 1 : Cardinality(layer1[b]) <= Bup
        /\ \A b \in 0 .. 2 * Len2 - 1 : Cardinality(layer2[b]) <= Bup
    <2>1. (2 * Len1) \in Nat \ {0} /\ (2 * Len2) \in Nat \ {0}
      BY Shapes
    <2>2. Hash1 \in [Keys -> Nat] /\ Hash2 \in [Keys -> Nat]
      BY Shapes
    <2>3. ContentsOf(layer1) \in SUBSET Keys /\ ContentsOf(layer2) \in SUBSET Keys
      BY <2>1, <2>2, LayerTypes
    <2> QED  BY <2>3 DEF Placed
  <1>2. InTable \in SUBSET Keys /\ num \in Nat
    BY <1>1, SomeKeys DEF InTable
  <1>3. T!TypeOK
    <2>1. layer1 \in [T!Bucket1 -> SUBSET Keys] /\ layer2 \in [T!Bucket2 -> SUBSET Keys]
      BY DEF Placed, T!Bucket1, T!Bucket2
    <2>2. times \in 0 .. KickTimes /\ flag \in BOOLEAN
      BY Shapes
    <2> QED  BY <2>1, <2>2, <1>2 DEF T!TypeOK
  <1>4. T!EveryKeyFound
    BY DEF T!EveryKeyFound, T!Pos1, T!Pos2, T!Bucket1, T!Bucket2, Placed
  <1>5. T!NoSecondCopy
    BY <1>2, Shapes, SameContents DEF T!NoSecondCopy
  <1>6. T!NumIsSize
    BY SameContents, SameCounting DEF T!NumIsSize
  <1>7. T!BucketsBounded
    BY <1>1, SameCounting DEF T!BucketsBounded, T!Bucket1, T!Bucket2
  <1>8. T!VictimBucketFull /\ T!ItemKept
    BY DEF T!VictimBucketFull, T!ItemKept
  <1> QED  BY <1>3, <1>4, <1>5, <1>6, <1>7, <1>8 DEF T!IInv

(* A halved one, too, with the count of asum.                              *)
LEMMA HalfStarts ==
  NewTableOK(Len1 \div 2, Len2 \div 2) /\ asum - Cardinality(mq) = Cardinality(InTable)
    /\ asum \in Nat /\ mq \in SUBSET Keys => H!IInv
  <1> SUFFICES ASSUME NewTableOK(Len1 \div 2, Len2 \div 2),
                      asum - Cardinality(mq) = Cardinality(InTable),
                      asum \in Nat, mq \in SUBSET Keys
               PROVE  H!IInv
    OBVIOUS
  <1> USE DEF NewTableOK
  <1>1. /\ ContentsOf(layer1) \in SUBSET Keys /\ ContentsOf(layer2) \in SUBSET Keys
        /\ \A b \in 0 .. Len1 \div 2 - 1 : Cardinality(layer1[b]) <= Bup
        /\ \A b \in 0 .. Len2 \div 2 - 1 : Cardinality(layer2[b]) <= Bup
    <2>1. (Len1 \div 2) \in Nat \ {0} /\ (Len2 \div 2) \in Nat \ {0}
      BY Shapes
    <2>2. Hash1 \in [Keys -> Nat] /\ Hash2 \in [Keys -> Nat]
      BY Shapes
    <2>3. ContentsOf(layer1) \in SUBSET Keys /\ ContentsOf(layer2) \in SUBSET Keys
      BY <2>1, <2>2, LayerTypes
    <2> QED  BY <2>3 DEF Placed
  <1>2. InTable \in SUBSET Keys /\ Cardinality(InTable) \in Nat /\ Cardinality(mq) \in Nat
    BY <1>1, SomeKeys DEF InTable
  <1> DEFINE n == asum - Cardinality(mq) - (IF pc = "kick" THEN 1 ELSE 0)
  <1>3. n = Cardinality(InTable) /\ n \in Int
    BY <1>2
  <1> HIDE DEF n
  <1>4. H!TypeOK
    <2>1. layer1 \in [H!Bucket1 -> SUBSET Keys] /\ layer2 \in [H!Bucket2 -> SUBSET Keys]
      BY DEF Placed, H!Bucket1, H!Bucket2
    <2>2. times \in 0 .. KickTimes /\ flag \in BOOLEAN
      BY Shapes
    <2> QED  BY <2>1, <2>2, <1>3 DEF H!TypeOK, n
  <1>5. H!EveryKeyFound
    BY DEF H!EveryKeyFound, H!Pos1, H!Pos2, H!Bucket1, H!Bucket2, Placed
  <1>6. H!NoSecondCopy
    BY <1>2, Shapes, SameContents DEF H!NoSecondCopy
  <1>7. H!NumIsSize
    BY <1>3, SameContents, SameCounting DEF H!NumIsSize, n
  <1>8. H!BucketsBounded
    BY <1>1, SameCounting DEF H!BucketsBounded, H!Bucket1, H!Bucket2
  <1>9. H!VictimBucketFull /\ H!ItemKept
    BY DEF H!VictimBucketFull, H!ItemKept
  <1> QED  BY <1>4, <1>5, <1>6, <1>7, <1>8, <1>9 DEF H!IInv

(* What an insertion, an iteration of the kick loop and its end do to the  *)
(* keys of the new table.                                                  *)
Inserted(k) ==
  /\ k \notin InTable
  /\ \/ pc' = "idle" /\ InTable' = InTable \cup {k}
     \/ pc' = "kick" /\ InTable' = InTable /\ ins' = k
Kicked ==
  \/ pc' = "idle" /\ InTable' = InTable \cup {ins}
  \/ pc' = "kick" /\ InTable' \cup {ins'} = InTable \cup {ins}
GivenUp == pc' = "idle" /\ InTable' = InTable /\ mykick' = ins

(* What CuckooProofs says of a table of the lengths l1 and l2.             *)
TableFacts(l1, l2) ==
  /\ Placed(layer1, Hash1, l1) /\ Placed(layer2, Hash2, l2)
  /\ ContentsOf(layer1) \cap ContentsOf(layer2) = {}
  /\ InTable \in SUBSET Keys
  /\ pc \in {"idle", "kick"}
  /\ pc = "kick" => ins \in Keys \ InTable /\ Cardinality(InTable) >= 2 * Bup

(* A doubled table.                                                        *)
LEMMA TwiceFacts ==
  T!IInv => TableFacts(2 * Len1, 2 * Len2) /\ num = Cardinality(InTable)
  <1> SUFFICES ASSUME T!IInv
               PROVE  TableFacts(2 * Len1, 2 * Len2) /\ num = Cardinality(InTable)
    OBVIOUS
  <1> USE DEF T!IInv
  <1>1. /\ layer1 \in [0 .. 2 * Len1 - 1 -> SUBSET Keys]
        /\ layer2 \in [0 .. 2 * Len2 - 1 -> SUBSET Keys]
    BY DEF T!TypeOK, T!Bucket1, T!Bucket2
  <1>2. Placed(layer1, Hash1, 2 * Len1)
    BY <1>1, SameCounting
    DEF T!EveryKeyFound, T!BucketsBounded, T!Pos1, T!Bucket1, Placed
  <1>3. Placed(layer2, Hash2, 2 * Len2)
    BY <1>1, SameCounting
    DEF T!EveryKeyFound, T!BucketsBounded, T!Pos2, T!Bucket2, Placed
  <1>4. ContentsOf(layer1) \cap ContentsOf(layer2) = {} /\ ins \notin InTable
    BY SameContents DEF T!NoSecondCopy
  <1>5. InTable \in SUBSET Keys
    BY <1>1 DEF InTable, ContentsOf
  <1>6. num = Cardinality(InTable)
    BY SameContents, SameCounting DEF T!NumIsSize
  <1>7. pc \in {"idle", "kick"} /\ (pc = "kick" => ins \in Keys)
    BY DEF T!TypeOK
  <1>8. pc = "kick" => num >= 2 * Bup
    BY DEF T!ItemKept
  <1> QED  BY <1>2, <1>3, <1>4, <1>5, <1>6, <1>7, <1>8 DEF TableFacts

(* A halved one.                                                           *)
LEMMA HalvedFacts ==
  H!IInv => TableFacts(Len1 \div 2, Len2 \div 2) /\ (asum - Cardinality(mq) - (IF pc = "kick" THEN 1 ELSE 0)) = Cardinality(InTable)
  <1> SUFFICES ASSUME H!IInv
               PROVE  TableFacts(Len1 \div 2, Len2 \div 2) /\ (asum - Cardinality(mq) - (IF pc = "kick" THEN 1 ELSE 0)) = Cardinality(InTable)
    OBVIOUS
  <1> USE DEF H!IInv
  <1>1. /\ layer1 \in [0 .. Len1 \div 2 - 1 -> SUBSET Keys]
        /\ layer2 \in [0 .. Len2 \div 2 - 1 -> SUBSET Keys]
    BY DEF H!TypeOK, H!Bucket1, H!Bucket2
  <1>2. Placed(layer1, Hash1, Len1 \div 2)
    BY <1>1, SameCounting
    DEF H!EveryKeyFound, H!BucketsBounded, H!Pos1, H!Bucket1, Placed
  <1>3. Placed(layer2, Hash2, Len2 \div 2)
    BY <1>1, SameCounting
    DEF H!EveryKeyFound, H!BucketsBounded, H!Pos2, H!Bucket2, Placed
  <1>4. ContentsOf(layer1) \cap ContentsOf(layer2) = {} /\ ins \notin InTable
    BY SameContents DEF H!NoSecondCopy
  <1>5. InTable \in SUBSET Keys
    BY <1>1 DEF InTable, ContentsOf
  <1>6. (asum - Cardinality(mq) - (IF pc = "kick" THEN 1 ELSE 0)) = Cardinality(InTable)
    BY SameContents, SameCounting DEF H!NumIsSize
  <1>7. pc \in {"idle", "kick"} /\ (pc = "kick" => ins \in Keys)
    BY DEF H!TypeOK
  <1>8. pc = "kick" => (asum - Cardinality(mq) - (IF pc = "kick" THEN 1 ELSE 0)) >= 2 * Bup
    BY DEF H!ItemKept
  <1> QED  BY <1>2, <1>3, <1>4, <1>5, <1>6, <1>7, <1>8 DEF TableFacts

-----------------------------------------------------------------------------
(* An insertion into a doubled table.                                      *)
LEMMA TwiceInserts ==
  ASSUME T!IInv, NEW k \in Keys, Twice!InsertPlaced(k) \/ Twice!InsertCrowded(k)
  PROVE  T!IInv' /\ Inserted(k)
  <1>1. CASE Twice!InsertPlaced(k)
    <2>1. T!InsertPlaced(k)
      BY <1>1 DEF Twice!InsertPlaced, T!InsertPlaced, Twice!Query, T!Query,
         Twice!InBucket, T!InBucket, Twice!LayerInsertResult, T!LayerInsertResult,
         Twice!WithKey, T!WithKey, Twice!Pos1, T!Pos1, Twice!Pos2, T!Pos2,
         Twice!Cardinality, T!Cardinality
    <2>2. T!IInv' /\ k \notin T!Stored /\ T!Stored' = T!Stored \cup {k}
      BY <2>1, Shapes, T!InsertPlacedStep
    <2>3. pc' = "idle"
      BY <1>1 DEF Twice!InsertPlaced
    <2>4. T!Stored = InTable /\ T!Stored' = InTable'
      BY DEF InTable, ContentsOf, T!Stored, T!Stored1, T!Stored2, T!Contents
    <2> QED  BY <2>2, <2>3, <2>4 DEF Inserted
  <1>2. CASE Twice!InsertCrowded(k)
    <2>1. T!InsertCrowded(k)
      BY <1>2 DEF Twice!InsertCrowded, T!InsertCrowded, Twice!Query, T!Query,
         Twice!InBucket, T!InBucket, Twice!LayerInsertResult, T!LayerInsertResult,
         Twice!Pos1, T!Pos1, Twice!Pos2, T!Pos2, Twice!Cardinality, T!Cardinality
    <2>2. T!IInv' /\ k \notin T!Stored /\ T!Stored' = T!Stored
      BY <2>1, Shapes, T!InsertCrowdedStep
    <2>3. pc' = "kick" /\ ins' = k
      BY <1>2 DEF Twice!InsertCrowded
    <2>4. T!Stored = InTable /\ T!Stored' = InTable'
      BY DEF InTable, ContentsOf, T!Stored, T!Stored1, T!Stored2, T!Contents
    <2> QED  BY <2>2, <2>3, <2>4 DEF Inserted
  <1> QED  BY <1>1, <1>2

(* An insertion of a waiting key into a halved one: the key counts as in   *)
(* the table or in hand from then on.                                      *)
LEMMA HalvedInserts ==
  ASSUME H!IInv, NEW k \in mq, mq \in SUBSET Keys, asum \in Int,
         Half!InsertPlaced(k) \/ Half!InsertCrowded(k), mq' = mq \ {k}, asum' = asum
  PROVE  H!IInv' /\ Inserted(k)
  <1>1. Cardinality(mq) \in Nat /\ Cardinality(mq') = Cardinality(mq) - 1 /\ k \in Keys
    <2>1. IsFiniteSet(mq) /\ Cardinality(mq) \in Nat
      BY SomeKeys
    <2> QED  BY <2>1, FS_RemoveElement
  <1>2. CASE Half!InsertPlaced(k)
    <2>1. pc = "idle" /\ pc' = "idle"
      BY <1>2 DEF Half!InsertPlaced
    <2>2. asum' - Cardinality(mq') - (IF pc' = "kick" THEN 1 ELSE 0)
            = asum - Cardinality(mq) - (IF pc = "kick" THEN 1 ELSE 0) + 1
      BY <1>1, <2>1
    <2>3. H!InsertPlaced(k)
      BY <1>2, <2>2 DEF Half!InsertPlaced, H!InsertPlaced, Half!Query, H!Query,
         Half!InBucket, H!InBucket, Half!LayerInsertResult, H!LayerInsertResult,
         Half!WithKey, H!WithKey, Half!Pos1, H!Pos1, Half!Pos2, H!Pos2,
         Half!Cardinality, H!Cardinality
    <2>4. H!IInv' /\ k \notin H!Stored /\ H!Stored' = H!Stored \cup {k}
      BY <1>1, <2>3, Shapes, H!InsertPlacedStep
    <2>5. H!Stored = InTable /\ H!Stored' = InTable'
      BY DEF InTable, ContentsOf, H!Stored, H!Stored1, H!Stored2, H!Contents
    <2> QED  BY <2>1, <2>4, <2>5 DEF Inserted
  <1>3. CASE Half!InsertCrowded(k)
    <2>1. pc = "idle" /\ pc' = "kick" /\ ins' = k
      BY <1>3 DEF Half!InsertCrowded
    <2>2. asum' - Cardinality(mq') - (IF pc' = "kick" THEN 1 ELSE 0)
            = asum - Cardinality(mq) - (IF pc = "kick" THEN 1 ELSE 0)
      BY <1>1, <2>1
    <2>3. H!InsertCrowded(k)
      BY <1>3, <2>2 DEF Half!InsertCrowded, H!InsertCrowded, Half!Query, H!Query,
         Half!InBucket, H!InBucket, Half!LayerInsertResult, H!LayerInsertResult,
         Half!Pos1, H!Pos1, Half!Pos2, H!Pos2, Half!Cardinality, H!Cardinality
    <2>4. H!IInv' /\ k \notin H!Stored /\ H!Stored' = H!Stored
      BY <1>1, <2>3, Shapes, H!InsertCrowdedStep
    <2>5. H!Stored = InTable /\ H!Stored' = InTable'
      BY DEF InTable, ContentsOf, H!Stored, H!Stored1, H!Stored2, H!Contents
    <2> QED  BY <2>1, <2>4, <2>5 DEF Inserted
  <1> QED  BY <1>2, <1>3

(* An iteration of the kick loop.                                          *)
LEMMA TwiceKicks ==
  ASSUME T!IInv, Twice!KickFrom1 \/ Twice!KickFrom2
  PROVE  T!IInv' /\ Kicked
  <1>1. T!KickFrom1 \/ T!KickFrom2
    BY DEF Twice!KickFrom1, T!KickFrom1, Twice!KickFrom2, T!KickFrom2,
       Twice!LayerInsertResult, T!LayerInsertResult, Twice!Replaced, T!Replaced,
       Twice!WithKey, T!WithKey, Twice!KickSettled, T!KickSettled,
       Twice!KickContinues, T!KickContinues, Twice!Pos1, T!Pos1, Twice!Pos2, T!Pos2,
       Twice!Cardinality, T!Cardinality
  <1>2. /\ T!IInv'
        /\ \/ pc' = "idle" /\ T!Stored' = T!Stored \cup {ins}
           \/ pc' = "kick" /\ T!Stored' \cup {ins'} = T!Stored \cup {ins}
    <2>1. CASE T!KickFrom1
      BY <2>1, Shapes, T!KickFrom1Step
    <2>2. CASE T!KickFrom2
      BY <2>2, Shapes, T!KickFrom2Step
    <2> QED  BY <1>1, <2>1, <2>2
  <1>3. T!Stored = InTable /\ T!Stored' = InTable'
    BY DEF InTable, ContentsOf, T!Stored, T!Stored1, T!Stored2, T!Contents
  <1> QED  BY <1>2, <1>3 DEF Kicked

(* With flag: the victim is never in its bucket of the other layer, so the *)
(* loop ends by placing it, which counts it.                               *)
LEMMA HalvedKicksFrom1 ==
  ASSUME H!IInv, Half!KickFrom1, asum' = asum, mq' = mq, mq \in SUBSET Keys, asum \in Int
  PROVE  H!KickFrom1
  <1> DEFINE Spare(v) == Half!LayerInsertResult(layer2, Half!Pos2(v), v)
             count == asum - Cardinality(mq) - (IF pc = "kick" THEN 1 ELSE 0)
             countNext == asum' - Cardinality(mq') - (IF pc' = "kick" THEN 1 ELSE 0)
  <1>1. pc = "kick" /\ times > 0 /\ flag /\ mykick' = mykick
    BY DEF Half!KickFrom1
  <1>2. PICK v \in layer1[Half!Pos1(ins)] :
          /\ layer1' = Half!Replaced(layer1, Half!Pos1(ins), v, ins)
          /\ IF Spare(v) = 1
             THEN layer2' = Half!WithKey(layer2, Half!Pos2(v), v)
             ELSE UNCHANGED layer2
          /\ IF Spare(v) # 0 THEN Half!KickSettled(Spare(v)) ELSE Half!KickContinues(v)
    BY DEF Half!KickFrom1
  <1>3. /\ H!Pos1(ins) = Half!Pos1(ins) /\ H!Pos2(ins) = Half!Pos2(ins)
        /\ H!Pos1(v) = Half!Pos1(v) /\ H!Pos2(v) = Half!Pos2(v)
    BY DEF H!Pos1, Half!Pos1, H!Pos2, Half!Pos2
  <1>4. H!LayerInsertResult(layer2, H!Pos2(v), v) = Spare(v)
    BY <1>3 DEF H!LayerInsertResult, Half!LayerInsertResult, H!Cardinality, Half!Cardinality
  <1>5. Spare(v) # -1
    <2>1. v \in layer1[H!Pos1(ins)]
      BY <1>2, <1>3
    <2>2. H!LayerInsertResult(layer2, H!Pos2(v), v) # -1
      BY <2>1, <1>1, Shapes, H!KickFrom1Moves
    <2> QED  BY <2>2, <1>4
  <1>6. Spare(v) \in {0, 1}
    BY <1>5 DEF Half!LayerInsertResult
  <1>7. Cardinality(mq) \in Nat
    BY SomeKeys
  <1> HIDE DEF Spare
  <1>8. CASE Spare(v) = 1
    <2>1. /\ pc' = "idle" /\ item' = NoKey /\ ins' = NoKey /\ times' = 0 /\ flag' = TRUE
      BY <1>2, <1>8 DEF Half!KickSettled
    <2>2. countNext = count + 1
      BY <2>1, <1>1, <1>7
    <2>3. H!KickSettled(Spare(v))
      BY <2>1, <2>2, <1>8 DEF H!KickSettled
    <2>4. /\ layer1' = H!Replaced(layer1, H!Pos1(ins), v, ins)
          /\ layer2' = H!WithKey(layer2, H!Pos2(v), v)
      BY <1>2, <1>3, <1>8 DEF H!Replaced, Half!Replaced, H!WithKey, Half!WithKey
    <2>5. v \in layer1[H!Pos1(ins)]
      BY <1>2, <1>3
    <2> QED  BY <2>3, <2>4, <2>5, <1>1, <1>4, <1>8 DEF H!KickFrom1
  <1>9. CASE Spare(v) = 0
    <2>1. ins' = v /\ times' = times - 1 /\ flag' = ~ flag /\ pc' = pc /\ item' = item
      BY <1>2, <1>9 DEF Half!KickContinues
    <2>2. countNext = count
      BY <2>1, <1>1, <1>7
    <2>3. H!KickContinues(v)
      BY <2>1, <2>2 DEF H!KickContinues
    <2>4. /\ layer1' = H!Replaced(layer1, H!Pos1(ins), v, ins)
          /\ layer2' = layer2
      BY <1>2, <1>3, <1>9 DEF H!Replaced, Half!Replaced
    <2>5. v \in layer1[H!Pos1(ins)]
      BY <1>2, <1>3
    <2> QED  BY <2>3, <2>4, <2>5, <1>1, <1>4, <1>9 DEF H!KickFrom1
  <1> QED  BY <1>6, <1>8, <1>9

(* With ~ flag: the victim is never in its bucket of the other layer, so the *)
(* loop ends by placing it, which counts it.                               *)
LEMMA HalvedKicksFrom2 ==
  ASSUME H!IInv, Half!KickFrom2, asum' = asum, mq' = mq, mq \in SUBSET Keys, asum \in Int
  PROVE  H!KickFrom2
  <1> DEFINE Spare(v) == Half!LayerInsertResult(layer1, Half!Pos1(v), v)
             count == asum - Cardinality(mq) - (IF pc = "kick" THEN 1 ELSE 0)
             countNext == asum' - Cardinality(mq') - (IF pc' = "kick" THEN 1 ELSE 0)
  <1>1. pc = "kick" /\ times > 0 /\ ~ flag /\ mykick' = mykick
    BY DEF Half!KickFrom2
  <1>2. PICK v \in layer2[Half!Pos2(ins)] :
          /\ layer2' = Half!Replaced(layer2, Half!Pos2(ins), v, ins)
          /\ IF Spare(v) = 1
             THEN layer1' = Half!WithKey(layer1, Half!Pos1(v), v)
             ELSE UNCHANGED layer1
          /\ IF Spare(v) # 0 THEN Half!KickSettled(Spare(v)) ELSE Half!KickContinues(v)
    BY DEF Half!KickFrom2
  <1>3. /\ H!Pos1(ins) = Half!Pos1(ins) /\ H!Pos2(ins) = Half!Pos2(ins)
        /\ H!Pos1(v) = Half!Pos1(v) /\ H!Pos2(v) = Half!Pos2(v)
    BY DEF H!Pos1, Half!Pos1, H!Pos2, Half!Pos2
  <1>4. H!LayerInsertResult(layer1, H!Pos1(v), v) = Spare(v)
    BY <1>3 DEF H!LayerInsertResult, Half!LayerInsertResult, H!Cardinality, Half!Cardinality
  <1>5. Spare(v) # -1
    <2>1. v \in layer2[H!Pos2(ins)]
      BY <1>2, <1>3
    <2>2. H!LayerInsertResult(layer1, H!Pos1(v), v) # -1
      BY <2>1, <1>1, Shapes, H!KickFrom2Moves
    <2> QED  BY <2>2, <1>4
  <1>6. Spare(v) \in {0, 1}
    BY <1>5 DEF Half!LayerInsertResult
  <1>7. Cardinality(mq) \in Nat
    BY SomeKeys
  <1> HIDE DEF Spare
  <1>8. CASE Spare(v) = 1
    <2>1. /\ pc' = "idle" /\ item' = NoKey /\ ins' = NoKey /\ times' = 0 /\ flag' = TRUE
      BY <1>2, <1>8 DEF Half!KickSettled
    <2>2. countNext = count + 1
      BY <2>1, <1>1, <1>7
    <2>3. H!KickSettled(Spare(v))
      BY <2>1, <2>2, <1>8 DEF H!KickSettled
    <2>4. /\ layer2' = H!Replaced(layer2, H!Pos2(ins), v, ins)
          /\ layer1' = H!WithKey(layer1, H!Pos1(v), v)
      BY <1>2, <1>3, <1>8 DEF H!Replaced, Half!Replaced, H!WithKey, Half!WithKey
    <2>5. v \in layer2[H!Pos2(ins)]
      BY <1>2, <1>3
    <2> QED  BY <2>3, <2>4, <2>5, <1>1, <1>4, <1>8 DEF H!KickFrom2
  <1>9. CASE Spare(v) = 0
    <2>1. ins' = v /\ times' = times - 1 /\ flag' = ~ flag /\ pc' = pc /\ item' = item
      BY <1>2, <1>9 DEF Half!KickContinues
    <2>2. countNext = count
      BY <2>1, <1>1, <1>7
    <2>3. H!KickContinues(v)
      BY <2>1, <2>2 DEF H!KickContinues
    <2>4. /\ layer2' = H!Replaced(layer2, H!Pos2(ins), v, ins)
          /\ layer1' = layer1
      BY <1>2, <1>3, <1>9 DEF H!Replaced, Half!Replaced
    <2>5. v \in layer2[H!Pos2(ins)]
      BY <1>2, <1>3
    <2> QED  BY <2>3, <2>4, <2>5, <1>1, <1>4, <1>9 DEF H!KickFrom2
  <1> QED  BY <1>6, <1>8, <1>9

(* A kick in the halved table, with num kept by asum.                      *)
LEMMA HalvedKicks ==
  ASSUME H!IInv, Half!KickFrom1 \/ Half!KickFrom2, asum' = asum, mq' = mq,
         mq \in SUBSET Keys, asum \in Int
  PROVE  H!IInv' /\ Kicked
  <1>1. H!KickFrom1 \/ H!KickFrom2
    BY HalvedKicksFrom1, HalvedKicksFrom2
  <1>2. /\ H!IInv'
        /\ \/ pc' = "idle" /\ H!Stored' = H!Stored \cup {ins}
           \/ pc' = "kick" /\ H!Stored' \cup {ins'} = H!Stored \cup {ins}
    <2>1. CASE H!KickFrom1
      BY <2>1, Shapes, H!KickFrom1Step
    <2>2. CASE H!KickFrom2
      BY <2>2, Shapes, H!KickFrom2Step
    <2> QED  BY <1>1, <2>1, <2>2
  <1>3. H!Stored = InTable /\ H!Stored' = InTable'
    BY DEF InTable, ContentsOf, H!Stored, H!Stored1, H!Stored2, H!Contents
  <1> QED  BY <1>2, <1>3 DEF Kicked

(* A failed insertion.                                                     *)
LEMMA TwiceGivesUp ==
  ASSUME T!IInv, Twice!GiveUp
  PROVE  T!IInv' /\ pc = "kick" /\ GivenUp
  <1>1. T!GiveUp
    BY DEF Twice!GiveUp, T!GiveUp
  <1>2. T!IInv' /\ pc' = "idle" /\ T!Stored' = T!Stored /\ mykick' = ins
    BY <1>1, Shapes, T!GiveUpStep
  <1>3. T!Stored = InTable /\ T!Stored' = InTable'
    BY DEF InTable, ContentsOf, T!Stored, T!Stored1, T!Stored2, T!Contents
  <1> QED  BY <1>1, <1>2, <1>3 DEF GivenUp, T!GiveUp

(* The kick loop of the halved table ends; the key in hand leaves asum.    *)
LEMMA HalvedGivesUp ==
  ASSUME H!IInv, Twice!GiveUp, asum' = asum - 1, mq' = mq, mq \in SUBSET Keys, asum \in Int
  PROVE  H!IInv' /\ pc = "kick" /\ GivenUp
  <1>1. pc = "kick" /\ pc' = "idle" /\ Cardinality(mq) \in Nat
    BY SomeKeys DEF Twice!GiveUp
  <1>2. asum' - Cardinality(mq') - (IF pc' = "kick" THEN 1 ELSE 0)
          = asum - Cardinality(mq) - (IF pc = "kick" THEN 1 ELSE 0)
    BY <1>1
  <1>3. H!GiveUp
    BY <1>2 DEF Twice!GiveUp, H!GiveUp
  <1>4. H!IInv' /\ pc' = "idle" /\ H!Stored' = H!Stored /\ mykick' = ins
    BY <1>3, Shapes, H!GiveUpStep
  <1>5. H!Stored = InTable /\ H!Stored' = InTable'
    BY DEF InTable, ContentsOf, H!Stored, H!Stored1, H!Stored2, H!Contents
  <1> QED  BY <1>1, <1>4, <1>5 DEF GivenUp

-----------------------------------------------------------------------------
(* What the keys of the old tables add up to.                              *)

(* The keys that move are those of the first table and the others, each in *)
(* one layer.                                                              *)
LEMMA AllMoving ==
  ASSUME Given
  PROVE  /\ Moving = MovingAt(1) \cup MovingAt(2) /\ MovingAt(1) \cap MovingAt(2) = {}
         /\ KeysIn(0) = KeysAt(0, 1) \cup KeysAt(0, 2)
         /\ Moving \ KeysIn(0) = Others(1) \cup Others(2) /\ Others(1) \cap Others(2) = {}
         /\ KeysIn(0) \cap (Others(1) \cup Others(2)) = {}
         /\ Moving \in SUBSET Keys /\ KeysIn(0) \in SUBSET Moving
         /\ Others(1) \in SUBSET Keys /\ Others(2) \in SUBSET Keys
         /\ op = "compress" => Others(1) = {} /\ Others(2) = {} /\ Moving = KeysIn(0)
  <1>1. \A k \in Keys : place[k] = <<>> \/ \E t \in TablesOf(op), j \in {1, 2} : place[k] = <<t, j>>
    BY DEF Given, Nowhere
  <1>2. 0 \in TablesOf(op) /\ TablesOf(op) \subseteq {0, 1, 2}
    BY DEF Given, Operations, TablesOf
  <1>3. \A k \in Keys : k \in Moving <=> \E t \in {0, 1, 2}, j \in {1, 2} : place[k] = <<t, j>>
    <2> SUFFICES ASSUME NEW k \in Keys
                 PROVE  k \in Moving <=> \E t \in {0, 1, 2}, j \in {1, 2} : place[k] = <<t, j>>
      OBVIOUS
    <2>1. k \in Moving <=> \E t \in TablesOf(op) : place[k] \in {<<t, 1>>, <<t, 2>>}
      BY DEF Moving, KeysIn
    <2>2. ASSUME NEW t \in {0, 1, 2}, NEW j \in {1, 2}, place[k] = <<t, j>>
          PROVE  t \in TablesOf(op)
      <3>1. PICK u \in TablesOf(op), i \in {1, 2} : place[k] = <<u, i>>
        BY <1>1, <2>2
      <3> QED  BY <3>1, <2>2
    <2> QED  BY <2>1, <2>2, <1>2
  <1>4. Moving \in SUBSET Keys /\ MovingAt(1) \in SUBSET Keys /\ MovingAt(2) \in SUBSET Keys
    BY WherePlaced DEF Moving, KeysIn
  <1>5. Moving = MovingAt(1) \cup MovingAt(2)
    <2>1. \A k \in Keys : k \in Moving <=> k \in MovingAt(1) \cup MovingAt(2)
      BY <1>3 DEF MovingAt, Others, KeysAt
    <2> QED  BY <2>1, <1>4
  <1>6. MovingAt(1) \cap MovingAt(2) = {} /\ Others(1) \cap Others(2) = {}
    BY DEF MovingAt, Others, KeysAt
  <1>7. KeysIn(0) = KeysAt(0, 1) \cup KeysAt(0, 2)
    BY DEF KeysIn, KeysAt
  <1>8. KeysIn(0) \cap (Others(1) \cup Others(2)) = {}
    BY <1>7 DEF Others, KeysAt
  <1>9. Moving \ KeysIn(0) = Others(1) \cup Others(2) /\ KeysIn(0) \in SUBSET Moving
    BY <1>5, <1>7, <1>8 DEF MovingAt
  <1>10. op = "compress" => Others(1) = {} /\ Others(2) = {}
    BY WherePlaced DEF Others
  <1>11. Others(1) \in SUBSET Keys /\ Others(2) \in SUBSET Keys
    BY WherePlaced
  <1> QED  BY <1>4, <1>5, <1>6, <1>7, <1>8, <1>9, <1>10, <1>11

(* The keys that move are those of the three tables.                       *)
LEMMA AllMovingSize ==
  ASSUME Given
  PROVE  /\ Cardinality(Moving) = Cardinality(KeysIn(0)) + Cardinality(Others(1))
                                    + Cardinality(Others(2))
         /\ Cardinality(KeysIn(0)) \in Nat
         /\ Cardinality(Others(1)) \in Nat /\ Cardinality(Others(2)) \in Nat
  <1> DEFINE P == Others(1)
             Q == Others(2)
             Z == KeysIn(0)
  <1>1. /\ P \in SUBSET Keys /\ Q \in SUBSET Keys /\ P \cap Q = {} /\ Z \in SUBSET Keys
        /\ Z \cap (P \cup Q) = {} /\ Moving = Z \cup (P \cup Q) /\ P \cup Q \in SUBSET Keys
    BY AllMoving
  <1> HIDE DEF P, Q, Z
  <1>2. Cardinality(P \cup Q) = Cardinality(P) + Cardinality(Q)
    BY <1>1, DisjointSize
  <1>3. Cardinality(Moving) = Cardinality(Z) + Cardinality(P \cup Q)
    BY <1>1, DisjointSize
  <1>4. Cardinality(Z) \in Nat /\ Cardinality(P) \in Nat /\ Cardinality(Q) \in Nat
    BY <1>1, SomeKeys
  <1> QED  BY <1>2, <1>3, <1>4 DEF P, Q, Z

(* The old tables stay what they are.                                      *)
LEMMA GivenKept ==
  ASSUME Given, op' = op, place' = place, stage' \in {"layer1", "layer2", "pour", "done"}
  PROVE  /\ Given' /\ Moving' = Moving /\ KeysIn(0)' = KeysIn(0)
         /\ Others(1)' = Others(1) /\ Others(2)' = Others(2)
         /\ MovingAt(1)' = MovingAt(1) /\ MovingAt(2)' = MovingAt(2)
         /\ MayWait(1)' = MayWait(1) /\ MayWait(2)' = MayWait(2)
         /\ NewLen(Len1)' = NewLen(Len1) /\ NewLen(Len2)' = NewLen(Len2)
  <1>1. TablesOf(op)' = TablesOf(op) /\ Old1(0)' = Old1(0) /\ Old2(0)' = Old2(0)
    BY DEF TablesOf, Old1, Old2, LenOf, KeysAt
  <1>2. Given'
    BY <1>1 DEF Given
  <1>3. Moving' = Moving /\ KeysIn(0)' = KeysIn(0)
    BY <1>1 DEF Moving, KeysIn
  <1> QED  BY <1>2, <1>3 DEF Others, MovingAt, MayWait, NewLen, KeysAt

-----------------------------------------------------------------------------
(* The steps keep the inductive invariant.                                 *)

LEMMA InitHolds == Init => Inv
  <1> SUFFICES ASSUME Init PROVE Inv
    OBVIOUS
  <1>1. 0 \in TablesOf(op)
    BY DEF Init, Operations, TablesOf
  <1>2. Given
    BY <1>1 DEF Init, Given
  <1>3. NoInsertYet
    BY DEF Init, NoInsertYet
  <1> QED  BY <1>2, <1>3 DEF Init, Inv

(* The first table's layers, bucket by bucket.                             *)
LEMMA OldBuckets ==
  ASSUME Given
  PROVE  /\ Old1(0) = Buckets(KeysAt(0, 1), Hash1, Len1)
         /\ Old2(0) = Buckets(KeysAt(0, 2), Hash2, Len2)
         /\ \A b \in 0 .. Len1 - 1 : Cardinality(Buckets(KeysAt(0, 1), Hash1, Len1)[b]) <= Bup
         /\ \A b \in 0 .. Len2 - 1 : Cardinality(Buckets(KeysAt(0, 2), Hash2, Len2)[b]) <= Bup
  <1>1. /\ Old1(0) = Buckets(KeysAt(0, 1), Hash1, Len1)
        /\ Old2(0) = Buckets(KeysAt(0, 2), Hash2, Len2)
    BY DEF Old1, Old2, LenOf, Buckets
  <1>2. DOMAIN Old1(0) = 0 .. Len1 - 1 /\ DOMAIN Old2(0) = 0 .. Len2 - 1
    BY <1>1 DEF Buckets
  <1> QED  BY <1>1, <1>2 DEF Given

(* The loops over the first layer.                                         *)
LEMMA MoveLayer1Keeps ==
  ASSUME Inv, MoveLayer1
  PROVE  Inv'
  <1>1. /\ Given /\ NoInsertYet /\ mq = {} /\ stage' = "layer2"
        /\ num = IF op = "compress" THEN 0 ELSE Cardinality(KeysIn(0))
    BY DEF Inv, MoveLayer1
  <1>2. PICK r \in Moved(Old1(0), Len1, 1, Hash1) :
          layer1' = r[1] /\ mq' = r[2] /\ num' = Counted(1, r[2])
    BY DEF MoveLayer1
  <1>3. /\ Placed(r[1], Hash1, NewLen(Len1)) /\ r[2] \in SUBSET MayWait(1)
        /\ ContentsOf(r[1]) = MovingAt(1) \ r[2]
    BY <1>1, <1>2, Shapes, OldBuckets, MovedKeeps
  <1>4. op' = op /\ place' = place
    BY DEF MoveLayer1
  <1>5. /\ Given' /\ KeysIn(0)' = KeysIn(0) /\ Others(1)' = Others(1)
        /\ MovingAt(1)' = MovingAt(1) /\ MayWait(1)' = MayWait(1)
        /\ NewLen(Len1)' = NewLen(Len1)
    BY <1>1, <1>4, GivenKept
  <1>6. NoInsertYet'
    BY <1>1, <1>5 DEF NoInsertYet, MoveLayer1
  <1>7. num' = IF op = "compress" THEN 0
               ELSE Cardinality(KeysIn(0)) + Cardinality(Others(1)) - Cardinality(mq')
    BY <1>1, <1>2 DEF Counted, Others
  <1>8. HalfWay'
    <2>1. Placed(layer1, Hash1, NewLen(Len1))'
      BY <1>2, <1>3, <1>5 DEF Placed
    <2>2. ContentsOf(layer1)' = ContentsOf(r[1])
      BY <1>2 DEF ContentsOf
    <2> QED  BY <2>1, <2>2, <1>2, <1>3, <1>4, <1>5, <1>7 DEF HalfWay
  <1> QED  BY <1>1, <1>5, <1>6, <1>8 DEF Inv

(* The loops over the second layer, after which mq is poured.              *)
LEMMA MoveLayer2Keeps ==
  ASSUME Inv, MoveLayer2
  PROVE  Inv'
  <1>1. /\ Given /\ NoInsertYet /\ HalfWay /\ stage' = "pour"
    BY DEF Inv, MoveLayer2
  <1>2. PICK r \in Moved(Old2(0), Len2, 2, Hash2) :
          layer2' = r[1] /\ mq' = mq \cup r[2] /\ num' = Counted(2, r[2])
    BY DEF MoveLayer2
  <1>3. /\ Placed(r[1], Hash2, NewLen(Len2)) /\ r[2] \in SUBSET MayWait(2)
        /\ ContentsOf(r[1]) = MovingAt(2) \ r[2]
    BY <1>1, <1>2, Shapes, OldBuckets, MovedKeeps
  <1>4. /\ op' = op /\ place' = place /\ layer1' = layer1
        /\ asum' = asum /\ denied' = denied /\ pc' = pc
    BY DEF MoveLayer2
  <1>5. /\ Given' /\ KeysIn(0)' = KeysIn(0) /\ Moving' = Moving
        /\ NewLen(Len1)' = NewLen(Len1) /\ NewLen(Len2)' = NewLen(Len2)
    BY <1>1, <1>4, GivenKept
  <1>6. /\ Placed(layer1, Hash1, NewLen(Len1)) /\ mq \in SUBSET MayWait(1)
        /\ ContentsOf(layer1) = MovingAt(1) \ mq
    BY <1>1 DEF HalfWay
  <1>7. /\ ContentsOf(layer1)' = ContentsOf(layer1) /\ ContentsOf(layer2)' = ContentsOf(r[1])
        /\ InTable' = ContentsOf(layer1) \cup ContentsOf(r[1])
    BY <1>2, <1>4 DEF InTable, ContentsOf
  <1>8. /\ Moving = MovingAt(1) \cup MovingAt(2) /\ MovingAt(1) \cap MovingAt(2) = {}
        /\ Moving \in SUBSET Keys /\ KeysIn(0) \in SUBSET Moving
        /\ op = "compress" => Moving = KeysIn(0)
    BY <1>1, AllMoving
  <1>9. MayWait(1) \in SUBSET MovingAt(1) /\ MayWait(2) \in SUBSET MovingAt(2)
    BY DEF MayWait, MovingAt
  <1>10. mq' \in SUBSET Moving /\ mq \cap r[2] = {} /\ InTable' = Moving \ mq'
    BY <1>2, <1>3, <1>6, <1>7, <1>8, <1>9
  <1>11. ContentsOf(layer1) \cap ContentsOf(r[1]) = {}
    BY <1>3, <1>6, <1>8
  <1>12. /\ Cardinality(InTable') = Cardinality(Moving) - Cardinality(mq')
         /\ Cardinality(mq') = Cardinality(mq) + Cardinality(r[2])
         /\ Cardinality(mq) \in Nat /\ Cardinality(r[2]) \in Nat
    <2>1. mq \in SUBSET Keys /\ r[2] \in SUBSET Keys
      BY <1>3, <1>6, <1>8, <1>9
    <2>2. Cardinality(mq') = Cardinality(mq) + Cardinality(r[2])
      BY <2>1, <1>2, <1>10, DisjointSize
    <2>3. Cardinality(InTable') = Cardinality(Moving) - Cardinality(mq')
      BY <1>8, <1>10, PartSize
    <2> QED  BY <2>1, <2>2, <2>3, SomeKeys
  <1>13. NewTableOK(NewLen(Len1), NewLen(Len2))'
    <2>1. (/\ pc = "idle" /\ item = NoKey /\ ins = NoKey /\ mykick = NoKey
           /\ times = 0 /\ flag = TRUE)'
      BY <1>1 DEF NoInsertYet, MoveLayer2
    <2>2. Placed(layer1', Hash1, NewLen(Len1)') /\ Placed(layer2', Hash2, NewLen(Len2)')
      BY <1>2, <1>3, <1>4, <1>5, <1>6
    <2> QED  BY <2>1, <2>2, <1>7, <1>11 DEF NewTableOK, Placed
  <1>14. /\ Cardinality(Moving) = Cardinality(KeysIn(0)) + Cardinality(Others(1))
                                    + Cardinality(Others(2))
         /\ Cardinality(KeysIn(0)) \in Nat
         /\ Cardinality(Others(1)) \in Nat /\ Cardinality(Others(2)) \in Nat
    BY <1>1, AllMovingSize
  <1>15. ASSUME op # "compress" PROVE T!IInv'
    <2>1. num' = Cardinality(InTable')
      <3>1. num = Cardinality(KeysIn(0)) + Cardinality(Others(1)) - Cardinality(mq)
        BY <1>1, <1>15 DEF HalfWay
      <3>2. num' = num + Cardinality(Others(2)) - Cardinality(r[2])
        BY <1>2, <1>15 DEF Counted, Others
      <3> QED  BY <3>1, <3>2, <1>12, <1>14
    <2>2. NewTableOK(2 * Len1, 2 * Len2)'
      BY <1>4, <1>13, <1>15 DEF NewLen, NewTableOK, Placed
    <2>3. (NewTableOK(2 * Len1, 2 * Len2) /\ num = Cardinality(InTable) => T!IInv)'
      BY TwiceStarts, PTL
    <2> QED  BY <2>1, <2>2, <2>3
  <1>16. ASSUME op = "compress" PROVE H!IInv'
    <2>1. asum' = Cardinality(Moving)
      BY <1>1, <1>4, <1>8, <1>16 DEF NoInsertYet
    <2>2. asum' - Cardinality(mq') = Cardinality(InTable') /\ asum' \in Nat
      BY <2>1, <1>8, <1>12, <1>14, <1>16
    <2>3. NewTableOK(Len1 \div 2, Len2 \div 2)'
      BY <1>4, <1>13, <1>16 DEF NewLen, NewTableOK, Placed
    <2>4. (NewTableOK(Len1 \div 2, Len2 \div 2) /\ asum - Cardinality(mq) = Cardinality(InTable)
              /\ asum \in Nat /\ mq \in SUBSET Keys => H!IInv)'
      BY HalfStarts, PTL
    <2>5. mq' \in SUBSET Keys
      BY <1>8, <1>10
    <2> QED  BY <2>2, <2>3, <2>4, <2>5
  <1>17. Hand' = {} /\ denied' = {} /\ asum' \in Int
    BY <1>1, <1>4, <1>14 DEF NoInsertYet, Hand
  <1>18. Shared'
    BY <1>5, <1>10, <1>17 DEF Shared
  <1>19. Bounded'
    <2> DEFINE Limit == IF op = "compress" THEN KeysIn(0) ELSE Moving \ KeysIn(0)
    <2>1. mq' \in SUBSET Limit /\ Limit \in SUBSET Keys
      <3>1. Moving \ KeysIn(0) = Others(1) \cup Others(2) /\ Moving \in SUBSET Keys
        BY <1>1, AllMoving
      <3>2. KeysIn(0) = KeysAt(0, 1) \cup KeysAt(0, 2) /\ KeysIn(0) \in SUBSET Keys
        BY <1>1, AllMoving
      <3> QED  BY <3>1, <3>2, <1>2, <1>3, <1>6 DEF MayWait
    <2>2. Cardinality(mq') <= Cardinality(Limit) /\ Cardinality(mq') \in Nat
      BY <2>1, PartSize, SomeKeys
    <2>3. Limit' = Limit
      BY <1>4, <1>5
    <2> HIDE DEF Limit
    <2>4. Cardinality(mq') + Cardinality(denied') + Cardinality(Hand') <= Cardinality(Limit')
      BY <2>2, <2>3, <1>17, FS_EmptySet
    <2> QED  BY <2>4, <1>17 DEF Bounded, Limit
  <1>20. Pouring'
    BY <1>4, <1>15, <1>16, <1>17, <1>18, <1>19 DEF Pouring
  <1> QED  BY <1>1, <1>5, <1>20 DEF Inv

(* The facts of the table, whichever it is.                                *)
TableKept == IF op = "compress" THEN H!IInv ELSE T!IInv

(* The table that is being filled is a table of the new lengths.           *)
LEMMA KeptFacts == TableKept => TableFacts(NewLen(Len1), NewLen(Len2))
  BY TwiceFacts, HalvedFacts DEF TableKept, NewLen

(* Its count, which compress has in asum.                                  *)
LEMMA KeptCount ==
  TableKept => /\ op # "compress" => num = Cardinality(InTable)
               /\ op = "compress" /\ pc = "idle" /\ mq = {} /\ asum \in Int =>
                    asum = Cardinality(InTable)
  <1>1. op # "compress" /\ TableKept => num = Cardinality(InTable)
    BY TwiceFacts DEF TableKept
  <1>2. ASSUME op = "compress", TableKept, pc = "idle", mq = {}, asum \in Int
        PROVE  asum = Cardinality(InTable)
    <2>1. asum - Cardinality(mq) - (IF pc = "kick" THEN 1 ELSE 0) = Cardinality(InTable)
      BY <1>2, HalvedFacts DEF TableKept
    <2>2. Cardinality(mq) = 0
      BY <1>2, FS_EmptySet
    <2> QED  BY <2>1, <2>2, <1>2
  <1> QED  BY <1>1, <1>2

(* The sets a pouring step divides the moving keys into.                   *)
LEMMA SharedSets ==
  ASSUME Given, Pouring
  PROVE  /\ mq \in SUBSET Keys /\ denied \in SUBSET Keys /\ InTable \in SUBSET Keys
         /\ Hand \in SUBSET Keys /\ Moving \in SUBSET Keys
         /\ Cardinality(mq) \in Nat /\ Cardinality(denied) \in Nat
         /\ Cardinality(InTable) \in Nat /\ Cardinality(Hand) \in Nat
         /\ Cardinality(Hand) = IF pc = "kick" THEN 1 ELSE 0
  <1>1. Moving \in SUBSET Keys
    BY AllMoving
  <1>2. /\ mq \in SUBSET Keys /\ denied \in SUBSET Keys /\ InTable \in SUBSET Keys
        /\ Hand \in SUBSET Keys
    BY <1>1 DEF Pouring, Shared
  <1>3. Cardinality(Hand) = IF pc = "kick" THEN 1 ELSE 0
    BY FS_Singleton, FS_EmptySet DEF Hand
  <1> QED  BY <1>1, <1>2, <1>3, SomeKeys

(* The table stays as good as it was, keys only change places, and no more *)
(* of them wait or are denied.                                             *)
LEMMA PourNextKeeps ==
  ASSUME Inv, PourNext
  PROVE  Inv'
  <1>1. /\ Given /\ Pouring /\ stage = "pour" /\ stage' = "pour" /\ pc = "idle"
        /\ op' = op /\ place' = place /\ asum' = asum /\ denied' = denied
    BY DEF Inv, PourNext
  <1>2. PICK k \in mq :
          /\ mq' = mq \ {k}
          /\ \/ op # "compress" /\ (Twice!InsertPlaced(k) \/ Twice!InsertCrowded(k))
             \/ op = "compress" /\ (Half!InsertPlaced(k) \/ Half!InsertCrowded(k))
    BY DEF PourNext
  <1>3. /\ mq \in SUBSET Keys /\ denied \in SUBSET Keys /\ InTable \in SUBSET Keys
        /\ Moving \in SUBSET Keys
        /\ Cardinality(mq) \in Nat /\ Cardinality(denied) \in Nat
        /\ Cardinality(InTable) \in Nat /\ Cardinality(Hand) = 0
    BY <1>1, SharedSets
  <1>4. k \in Keys /\ Cardinality(mq') = Cardinality(mq) - 1
    <2>1. IsFiniteSet(mq)
      BY <1>3, SomeKeys
    <2> QED  BY <2>1, <1>2, <1>3, FS_RemoveElement
  <1>5. TableKept' /\ Inserted(k)
    <2>1. CASE op # "compress"
      BY <2>1, <1>1, <1>2, <1>4, TwiceInserts DEF Pouring, TableKept
    <2>2. CASE op = "compress"
      BY <2>2, <1>1, <1>2, <1>3, HalvedInserts DEF Pouring, TableKept
    <2> QED  BY <2>1, <2>2
  <1>6. Given' /\ Moving' = Moving /\ KeysIn(0)' = KeysIn(0)
    BY <1>1, GivenKept
  <1>7. Hand = {} /\ Hand' = IF pc' = "kick" THEN {ins'} ELSE {}
    BY <1>1 DEF Hand
  <1>8. Shared'
    <2>1. /\ Moving = InTable \cup mq \cup denied
          /\ InTable \cap (mq \cup denied) = {} /\ mq \cap denied = {}
      BY <1>1, <1>7 DEF Pouring, Shared
    <2>2. CASE pc' = "idle" /\ InTable' = InTable \cup {k}
      <3>1. Hand' = {}
        BY <2>2, <1>7
      <3> QED  BY <2>1, <2>2, <3>1, <1>1, <1>2, <1>6 DEF Shared
    <2>3. CASE pc' = "kick" /\ InTable' = InTable /\ ins' = k
      <3>1. Hand' = {k}
        BY <2>3, <1>7
      <3> QED  BY <2>1, <2>3, <3>1, <1>1, <1>2, <1>6 DEF Shared
    <2> QED  BY <2>2, <2>3, <1>5 DEF Inserted
  <1>9. Bounded'
    <2>1. Cardinality(Hand') \in {0, 1}
      BY <1>7, FS_Singleton, FS_EmptySet
    <2>2. InTable' \in SUBSET Keys /\ InTable \in SUBSET InTable'
      BY <1>3, <1>4, <1>5 DEF Inserted
    <2>3. Cardinality(InTable) <= Cardinality(InTable') /\ Cardinality(InTable') \in Nat
      BY <2>2, PartSize, SomeKeys
    <2> DEFINE limit == Cardinality(IF op = "compress" THEN KeysIn(0) ELSE Moving \ KeysIn(0))
    <2>4. limit \in Nat /\ limit' = limit
      <3>1. KeysIn(0) \in SUBSET Keys
        BY DEF KeysIn
      <3>2. (IF op = "compress" THEN KeysIn(0) ELSE Moving \ KeysIn(0)) \in SUBSET Keys
        BY <3>1, <1>3
      <3> QED  BY <3>2, <1>1, <1>6, SomeKeys
    <2>5. /\ Cardinality(mq) + Cardinality(denied) + Cardinality(Hand) <= limit
          /\ denied # {} => Cardinality(InTable) >= 2 * Bup
      BY <1>1 DEF Pouring, Bounded
    <2> HIDE DEF limit
    <2>6. Cardinality(mq') + Cardinality(denied') + Cardinality(Hand') <= limit'
      BY <2>1, <2>4, <2>5, <1>1, <1>3, <1>4
    <2>7. denied' # {} => Cardinality(InTable') >= 2 * Bup
      BY <2>3, <2>5, <1>1, <1>3, ShapeAssumption
    <2> QED  BY <2>6, <2>7 DEF Bounded, limit
  <1>10. Pouring'
    BY <1>1, <1>5, <1>8, <1>9 DEF Pouring, TableKept
  <1> QED  BY <1>1, <1>6, <1>10 DEF Inv

(* One kick: the key in hand changes, the keys stay shared out.            *)
LEMMA PourKicksKeeps ==
  ASSUME Inv, PourKicks
  PROVE  Inv'
  <1>1. /\ Given /\ Pouring /\ stage = "pour" /\ stage' = "pour"
        /\ op' = op /\ place' = place /\ asum' = asum /\ denied' = denied /\ mq' = mq
    BY DEF Inv, PourKicks
  <1>2. /\ mq \in SUBSET Keys /\ denied \in SUBSET Keys /\ InTable \in SUBSET Keys
        /\ Moving \in SUBSET Keys
        /\ Cardinality(mq) \in Nat /\ Cardinality(denied) \in Nat
        /\ Cardinality(InTable) \in Nat
        /\ Cardinality(Hand) = IF pc = "kick" THEN 1 ELSE 0
    BY <1>1, SharedSets
  <1>3. TableKept' /\ Kicked /\ pc = "kick"
    <2>1. CASE op # "compress"
      BY <2>1, <1>1, TwiceKicks
      DEF Pouring, TableKept, PourKicks, Twice!KickFrom1, Twice!KickFrom2
    <2>2. CASE op = "compress"
      <3>1. H!IInv /\ asum \in Int /\ (Half!KickFrom1 \/ Half!KickFrom2)
        BY <2>2, <1>1 DEF Pouring, PourKicks
      <3>2. H!IInv' /\ Kicked
        BY <3>1, <1>1, <1>2, HalvedKicks
      <3>3. pc = "kick"
        BY <3>1 DEF Half!KickFrom1, Half!KickFrom2
      <3> QED  BY <2>2, <3>2, <3>3, <1>1 DEF TableKept
    <2> QED  BY <2>1, <2>2
  <1>4. Given' /\ Moving' = Moving /\ KeysIn(0)' = KeysIn(0)
    BY <1>1, GivenKept
  <1>5. TableFacts(NewLen(Len1), NewLen(Len2))'
    <2>1. (TableKept => TableFacts(NewLen(Len1), NewLen(Len2)))'
      BY KeptFacts, PTL
    <2> QED  BY <2>1, <1>3
  <1>6. Hand = {ins} /\ Hand' = IF pc' = "kick" THEN {ins'} ELSE {}
    BY <1>3 DEF Hand
  <1>7. /\ InTable' \in SUBSET Keys
        /\ pc' = "kick" => ins' \notin InTable' /\ Cardinality(InTable') >= 2 * Bup
    BY <1>5 DEF TableFacts
  <1>8. Shared'
    <2>1. /\ Moving = InTable \cup mq \cup denied \cup {ins}
          /\ InTable \cap (mq \cup denied \cup {ins}) = {}
          /\ mq \cap (denied \cup {ins}) = {} /\ denied \cap {ins} = {}
      BY <1>1, <1>6 DEF Pouring, Shared
    <2>2. CASE pc' = "idle" /\ InTable' = InTable \cup {ins}
      <3>1. Hand' = {}
        BY <2>2, <1>6
      <3> QED  BY <2>1, <2>2, <3>1, <1>1, <1>4 DEF Shared
    <2>3. CASE pc' = "kick" /\ InTable' \cup {ins'} = InTable \cup {ins}
      <3>1. Hand' = {ins'} /\ ins' \notin InTable' /\ ins' \in InTable \cup {ins}
        BY <2>3, <1>6, <1>7
      <3>2. Moving = InTable' \cup mq' \cup denied' \cup {ins'}
        BY <2>1, <2>3, <1>1
      <3>3. InTable' \cap (mq' \cup denied') = {}
        BY <2>1, <2>3, <1>1
      <3>4. ins' \notin mq' /\ ins' \notin denied'
        BY <2>1, <3>1, <1>1
      <3>5. mq' \cap denied' = {}
        BY <2>1, <1>1
      <3>6. Moving' = InTable' \cup mq' \cup denied' \cup Hand'
        BY <3>1, <3>2, <1>4
      <3>7. /\ InTable' \cap (mq' \cup denied' \cup Hand') = {}
            /\ mq' \cap (denied' \cup Hand') = {} /\ denied' \cap Hand' = {}
        BY <3>1, <3>3, <3>4, <3>5
      <3> QED  BY <3>6, <3>7 DEF Shared
    <2> QED  BY <2>2, <2>3, <1>3 DEF Kicked
  <1>9. Bounded'
    <2>1. Cardinality(Hand') \in {0, 1} /\ Cardinality(Hand) = 1
      BY <1>2, <1>3, <1>6, FS_Singleton, FS_EmptySet
    <2> DEFINE limit == Cardinality(IF op = "compress" THEN KeysIn(0) ELSE Moving \ KeysIn(0))
    <2>2. limit \in Nat /\ limit' = limit
      <3>1. KeysIn(0) \in SUBSET Keys
        BY DEF KeysIn
      <3>2. (IF op = "compress" THEN KeysIn(0) ELSE Moving \ KeysIn(0)) \in SUBSET Keys
        BY <3>1, <1>2
      <3> QED  BY <3>2, <1>1, <1>4, SomeKeys
    <2>3. /\ Cardinality(mq) + Cardinality(denied) + Cardinality(Hand) <= limit
          /\ denied # {} => Cardinality(InTable) >= 2 * Bup
      BY <1>1 DEF Pouring, Bounded
    <2> HIDE DEF limit
    <2>4. Cardinality(mq') + Cardinality(denied') + Cardinality(Hand') <= limit'
      BY <2>1, <2>2, <2>3, <1>1, <1>2
    <2>5. denied' # {} => Cardinality(InTable') >= 2 * Bup
      <3>1. CASE pc' = "kick"
        BY <3>1, <1>7
      <3>2. CASE pc' = "idle" /\ InTable' = InTable \cup {ins}
        <4>1. InTable \in SUBSET InTable'
          BY <3>2
        <4>2. Cardinality(InTable) <= Cardinality(InTable') /\ Cardinality(InTable') \in Nat
          BY <4>1, <1>7, PartSize, SomeKeys
        <4> QED  BY <4>2, <2>3, <1>1, <1>2, ShapeAssumption
      <3> QED  BY <3>1, <3>2, <1>3 DEF Kicked
    <2> QED  BY <2>4, <2>5 DEF Bounded, limit
  <1>10. Pouring'
    BY <1>1, <1>3, <1>8, <1>9 DEF Pouring, TableKept
  <1> QED  BY <1>1, <1>4, <1>10 DEF Inv

(* The key in hand at the end of the kicks goes to the denylist.           *)
LEMMA PourDeniesKeeps ==
  ASSUME Inv, PourDenies
  PROVE  Inv'
  <1>1. /\ Given /\ Pouring /\ stage = "pour" /\ stage' = "pour"
        /\ op' = op /\ place' = place /\ asum' = asum - 1 /\ mq' = mq
        /\ denied' = denied \cup {mykick'} /\ Twice!GiveUp
    BY DEF Inv, PourDenies
  <1>2. /\ mq \in SUBSET Keys /\ denied \in SUBSET Keys /\ InTable \in SUBSET Keys
        /\ Moving \in SUBSET Keys
        /\ Cardinality(mq) \in Nat /\ Cardinality(denied) \in Nat
        /\ Cardinality(Hand) = IF pc = "kick" THEN 1 ELSE 0
    BY <1>1, SharedSets
  <1>3. TableKept' /\ pc = "kick" /\ GivenUp /\ asum \in Int
    <2>1. CASE op # "compress"
      BY <2>1, <1>1, TwiceGivesUp DEF Pouring, TableKept
    <2>2. CASE op = "compress"
      <3>1. H!IInv /\ asum \in Int
        BY <2>2, <1>1 DEF Pouring
      <3> QED  BY <2>2, <3>1, <1>1, <1>2, HalvedGivesUp DEF TableKept
    <2> QED  BY <2>1, <2>2, <1>1 DEF Pouring
  <1>4. Given' /\ Moving' = Moving /\ KeysIn(0)' = KeysIn(0)
    BY <1>1, GivenKept
  <1>5. Hand = {ins} /\ Hand' = {} /\ denied' = denied \cup {ins} /\ InTable' = InTable
    BY <1>1, <1>3 DEF Hand, GivenUp
  <1>6. Cardinality(InTable) >= 2 * Bup
    BY <1>1, <1>3, KeptFacts DEF Pouring, TableKept, TableFacts
  <1>7. /\ Moving = InTable \cup mq \cup denied \cup {ins}
        /\ InTable \cap (mq \cup denied \cup {ins}) = {}
        /\ mq \cap (denied \cup {ins}) = {} /\ denied \cap {ins} = {}
    BY <1>1, <1>5 DEF Pouring, Shared
  <1>8. Shared'
    BY <1>1, <1>4, <1>5, <1>7 DEF Shared
  <1>9. Bounded'
    <2>1. Cardinality(denied') = Cardinality(denied) + 1
      <3>1. IsFiniteSet(denied) /\ ins \notin denied
        BY <1>2, <1>7, SomeKeys
      <3> QED  BY <3>1, <1>5, FS_AddElement
    <2>2. Cardinality(Hand) = 1 /\ Cardinality(Hand') = 0
      BY <1>2, <1>3, <1>5, FS_EmptySet
    <2> DEFINE limit == Cardinality(IF op = "compress" THEN KeysIn(0) ELSE Moving \ KeysIn(0))
    <2>3. limit' = limit /\ Cardinality(mq) + Cardinality(denied) + Cardinality(Hand) <= limit
      BY <1>1, <1>4 DEF Pouring, Bounded
    <2> HIDE DEF limit
    <2>4. Cardinality(mq') + Cardinality(denied') + Cardinality(Hand') <= limit'
      BY <2>1, <2>2, <2>3, <1>1, <1>2
    <2> QED  BY <2>4, <1>5, <1>6 DEF Bounded, limit
  <1>10. Pouring'
    BY <1>1, <1>3, <1>8, <1>9 DEF Pouring, TableKept
  <1> QED  BY <1>1, <1>4, <1>10 DEF Inv

(* Nothing but num changes, and that only where it was not kept.           *)
LEMMA StillKept ==
  ASSUME TableKept, op' = op, mq' = mq, asum' = asum, op # "compress" => num' = num,
         UNCHANGED <<layer1, layer2, mykick, pc, item, ins, times, flag>>
  PROVE  TableKept'
  <1>1. CASE op # "compress"
    <2>1. UNCHANGED T!vars
      BY <1>1 DEF T!vars
    <2>2. T!IInv
      BY <1>1 DEF TableKept
    <2>3. T!IInv'
      BY <2>1, <2>2, Shapes, T!NextIInv
    <2> QED  BY <2>3, <1>1 DEF TableKept
  <1>2. CASE op = "compress"
    <2>1. UNCHANGED H!vars
      BY <1>2 DEF H!vars
    <2>2. H!IInv
      BY <1>2 DEF TableKept
    <2>3. H!IInv'
      BY <2>1, <2>2, Shapes, H!NextIInv
    <2> QED  BY <2>3, <1>2 DEF TableKept
  <1> QED  BY <1>1, <1>2

(* The queue is empty: the move is done, and compress sets num.            *)
LEMMA PourEndsKeeps ==
  ASSUME Inv, PourEnds
  PROVE  Inv'
  <1>1. /\ Given /\ Pouring /\ stage = "pour" /\ stage' = "done" /\ pc = "idle" /\ mq = {}
        /\ num' = IF op = "compress" THEN asum ELSE num
        /\ UNCHANGED <<op, place, mq, asum, denied,
                       layer1, layer2, mykick, pc, item, ins, times, flag>>
    BY DEF Inv, PourEnds
  <1>2. TableKept /\ TableKept'
    BY <1>1, StillKept DEF Pouring, TableKept
  <1>3. Given' /\ Moving' = Moving /\ KeysIn(0)' = KeysIn(0)
    BY <1>1, GivenKept
  <1>4. InTable' = InTable /\ Hand' = Hand
    BY <1>1 DEF InTable, ContentsOf, Hand
  <1>5. Shared' /\ Bounded'
    BY <1>1, <1>3, <1>4 DEF Pouring, Shared, Bounded
  <1>6. Pouring'
    BY <1>1, <1>2, <1>5 DEF Pouring, TableKept
  <1>7. num' = Cardinality(InTable')
    <2>1. op # "compress" => num = Cardinality(InTable)
      BY <1>2, KeptCount
    <2>2. op = "compress" => asum = Cardinality(InTable)
      BY <1>1, <1>2, KeptCount DEF Pouring
    <2> QED  BY <2>1, <2>2, <1>1, <1>4
  <1> QED  BY <1>1, <1>3, <1>6, <1>7 DEF Inv

(* A step that changes nothing.                                            *)
LEMMA IdleKeeps ==
  ASSUME Inv, UNCHANGED vars
  PROVE  Inv'
  <1>1. /\ stage' = stage
        /\ UNCHANGED <<op, place, mq, asum, denied, num,
                       layer1, layer2, mykick, pc, item, ins, times, flag>>
    BY DEF vars, tableVars
  <1>2. /\ Given' /\ KeysIn(0)' = KeysIn(0) /\ Moving' = Moving
        /\ Others(1)' = Others(1) /\ MovingAt(1)' = MovingAt(1) /\ MayWait(1)' = MayWait(1)
        /\ NewLen(Len1)' = NewLen(Len1)
    <2>1. Given /\ stage \in {"layer1", "layer2", "pour", "done"}
      BY DEF Inv, Given
    <2> QED  BY <1>1, <2>1, GivenKept
  <1>3. InTable' = InTable /\ Hand' = Hand /\ ContentsOf(layer1)' = ContentsOf(layer1)
    BY <1>1 DEF InTable, ContentsOf, Hand
  <1>4. NoInsertYet => NoInsertYet'
    BY <1>1, <1>2 DEF NoInsertYet
  <1>5. HalfWay => HalfWay'
    BY <1>1, <1>2, <1>3 DEF HalfWay, Placed
  <1>6. Pouring => Pouring'
    <2> SUFFICES ASSUME Pouring PROVE Pouring'
      OBVIOUS
    <2>1. TableKept'
      BY <1>1, StillKept DEF Pouring, TableKept
    <2> QED  BY <2>1, <1>1, <1>2, <1>3 DEF Pouring, TableKept, Shared, Bounded
  <1> QED  BY <1>1, <1>2, <1>3, <1>4, <1>5, <1>6 DEF Inv

(* The inductive invariant holds in every state of a move.                 *)
LEMMA InvariantHolds == Spec => []Inv
  <1>1. Inv /\ [Next]_vars => Inv'
    BY MoveLayer1Keeps, MoveLayer2Keeps, PourNextKeeps, PourKicksKeeps, PourDeniesKeeps,
       PourEndsKeeps, IdleKeeps DEF Next
  <1> QED  BY <1>1, InitHolds, PTL DEF Spec

-----------------------------------------------------------------------------
(* What a finished move leaves.                                            *)

LEMMA Lengths ==
  ASSUME op \in Operations
  PROVE  /\ NewLen(Len1) \in Nat \ {0} /\ NewLen(Len2) \in Nat \ {0}
         /\ op # "compress" => NewLen(Len1) = Len1 * 2 /\ NewLen(Len2) = Len2 * 2
         /\ op = "compress" => NewLen(Len1) = Len1 \div 2 /\ NewLen(Len2) = Len2 \div 2
  BY Shapes DEF NewLen

(* What the invariant says of a move that is done.                         *)
LEMMA Finished ==
  ASSUME Inv, stage = "done"
  PROVE  /\ Given /\ TableFacts(NewLen(Len1), NewLen(Len2))
         /\ Moving = InTable \cup denied /\ InTable \cap denied = {}
         /\ Moving \in SUBSET Keys /\ InTable \in SUBSET Keys /\ denied \in SUBSET Keys
         /\ num = Cardinality(InTable) /\ num = Cardinality(Moving) - Cardinality(denied)
         /\ Cardinality(denied)
              <= Cardinality(IF op = "compress" THEN KeysIn(0) ELSE Moving \ KeysIn(0))
         /\ denied # {} => num >= 2 * Bup
         /\ num <= (NewLen(Len1) + NewLen(Len2)) * Bup
  <1>1. /\ Given /\ Pouring /\ mq = {} /\ pc = "idle" /\ num = Cardinality(InTable)
    BY DEF Inv
  <1>2. TableFacts(NewLen(Len1), NewLen(Len2))
    BY <1>1, KeptFacts DEF Pouring, TableKept
  <1>3. /\ denied \in SUBSET Keys /\ InTable \in SUBSET Keys /\ Moving \in SUBSET Keys
        /\ Cardinality(denied) \in Nat /\ Cardinality(InTable) \in Nat
        /\ Cardinality(mq) = 0 /\ Cardinality(Hand) = 0 /\ Hand = {}
    BY <1>1, SharedSets, FS_EmptySet DEF Hand
  <1>4. Moving = InTable \cup denied /\ InTable \cap denied = {}
    BY <1>1, <1>3 DEF Pouring, Shared
  <1>5. num = Cardinality(Moving) - Cardinality(denied)
    BY <1>1, <1>3, <1>4, DisjointSize
  <1>6. /\ Cardinality(denied)
             <= Cardinality(IF op = "compress" THEN KeysIn(0) ELSE Moving \ KeysIn(0))
        /\ denied # {} => num >= 2 * Bup
    <2> DEFINE limit == Cardinality(IF op = "compress" THEN KeysIn(0) ELSE Moving \ KeysIn(0))
    <2>1. /\ Cardinality(mq) + Cardinality(denied) + Cardinality(Hand) <= limit
          /\ denied # {} => Cardinality(InTable) >= 2 * Bup
      BY <1>1 DEF Pouring, Bounded
    <2> HIDE DEF limit
    <2>2. Cardinality(denied) <= limit
      BY <2>1, <1>3
    <2> QED  BY <2>1, <2>2, <1>1 DEF limit
  <1>7. num <= (NewLen(Len1) + NewLen(Len2)) * Bup
    <2> DEFINE l1 == NewLen(Len1)
               l2 == NewLen(Len2)
    <2>1. l1 \in Nat \ {0} /\ l2 \in Nat \ {0} /\ Bup \in Nat
      BY <1>1, Lengths, ShapeAssumption DEF Given
    <2>2. Placed(layer1, Hash1, l1) /\ Placed(layer2, Hash2, l2)
      BY <1>2 DEF TableFacts
    <2> HIDE DEF l1, l2
    <2>3. /\ Cardinality(ContentsOf(layer1)) <= l1 * Bup
          /\ Cardinality(ContentsOf(layer2)) <= l2 * Bup
      BY <2>1, <2>2, Capacity, HashAssumption
    <2>4. ContentsOf(layer1) \in SUBSET Keys /\ ContentsOf(layer2) \in SUBSET Keys
      BY <1>3 DEF InTable
    <2>5. num = Cardinality(ContentsOf(layer1)) + Cardinality(ContentsOf(layer2))
      BY <2>4, <1>1, <1>2, DisjointSize DEF InTable, TableFacts
    <2>6. /\ Cardinality(ContentsOf(layer1)) \in Nat /\ Cardinality(ContentsOf(layer2)) \in Nat
      BY <2>4, SomeKeys
    <2>7. (l1 + l2) * Bup = l1 * Bup + l2 * Bup
      BY <2>1
    <2>8. l1 * Bup \in Nat /\ l2 * Bup \in Nat
      BY <2>1
    <2>9. num <= l1 * Bup + l2 * Bup
      BY <2>3, <2>5, <2>6, <2>8
    <2> QED  BY <2>7, <2>9 DEF l1, l2
  <1> QED  BY <1>1, <1>2, <1>3, <1>4, <1>5, <1>6, <1>7

(* An outcome of inserting the keys of M into t.                           *)
LEMMA IsPour ==
  ASSUME NEW t, NEW M, NEW R \in SUBSET (t.keys \cup M),
         Cardinality(R) <= Cardinality(M),
         Cardinality(t.keys \cup M) - Cardinality(R) <= (t.len1 + t.len2) * Bup,
         R # {} => Cardinality(t.keys \cup M) - Cardinality(R) >= 2 * Bup
  PROVE  <<[len1 |-> t.len1, len2 |-> t.len2, keys |-> (t.keys \cup M) \ R,
            num |-> t.num + Cardinality(M) - Cardinality(R)], R>> \in Ops!Pour(t, M)
  BY SameCounting DEF Ops!Pour, Ops!Holding, Ops!Cap

-----------------------------------------------------------------------------
(* However the slots are ordered and whatever is kicked out, a merge, an   *)
(* expansion or a compression (main.cpp:444-497, 744-812, 1199-1211) loses *)
(* no key, stores none twice and puts each in a bucket query looks at, or  *)
(* hands it to the denylist.                                               *)
THEOREM EveryKeyPlaced == Spec => []KeysPlaced
  <1>1. Inv => KeysPlaced
    <2> SUFFICES ASSUME Inv, stage = "done" PROVE KeysPlaced
      BY DEF KeysPlaced
    <2> DEFINE at(k) == {<<1, b>> : b \in {b \in DOMAIN layer1 : k \in layer1[b]}}
                        \cup {<<2, b>> : b \in {b \in DOMAIN layer2 : k \in layer2[b]}}
               found(k) == {<<1, Hash1[k] % NewLen(Len1)>>, <<2, Hash2[k] % NewLen(Len2)>>}
    <2>1. /\ Moving = InTable \cup denied /\ InTable \cap denied = {}
          /\ TableFacts(NewLen(Len1), NewLen(Len2)) /\ op \in Operations
      BY Finished DEF Given
    <2>2. /\ Placed(layer1, Hash1, NewLen(Len1)) /\ Placed(layer2, Hash2, NewLen(Len2))
          /\ ContentsOf(layer1) \cap ContentsOf(layer2) = {}
      BY <2>1 DEF TableFacts
    <2>3. /\ \A k \in Keys, b \in DOMAIN layer1 : k \in layer1[b] => b = Hash1[k] % NewLen(Len1)
          /\ \A k \in Keys, b \in DOMAIN layer2 : k \in layer2[b] => b = Hash2[k] % NewLen(Len2)
      BY <2>2 DEF Placed
    <2>4. ASSUME NEW k \in Keys, k \in InTable
          PROVE  Cardinality(at(k)) = 1 /\ at(k) \subseteq found(k)
      <3>1. CASE k \in ContentsOf(layer1)
        <4>1. at(k) = {<<1, Hash1[k] % NewLen(Len1)>>}
          BY <3>1, <2>2, <2>3 DEF ContentsOf
        <4> QED  BY <4>1, FS_Singleton
      <3>2. CASE k \in ContentsOf(layer2)
        <4>1. at(k) = {<<2, Hash2[k] % NewLen(Len2)>>}
          BY <3>2, <2>2, <2>3 DEF ContentsOf
        <4> QED  BY <4>1, FS_Singleton
      <3> QED  BY <3>1, <3>2, <2>4 DEF InTable
    <2>5. ASSUME NEW k \in Keys, k \notin InTable PROVE at(k) = {}
      BY <2>5 DEF InTable, ContentsOf
    <2> HIDE DEF at, found
    <2>6. \A k \in Keys :
            IF k \in Moving \ denied
            THEN Cardinality(at(k)) = 1 /\ at(k) \subseteq found(k)
            ELSE at(k) = {} /\ (k \in denied => k \in Moving)
      BY <2>1, <2>4, <2>5
    <2> QED  BY <2>6 DEF KeysPlaced, at, found
  <1> QED  BY <1>1, InvariantHolds, PTL

(* What the owners of the tables reckon with is what the bulk moves do:    *)
(* each is one of the outcomes TableOps gives, with no more keys denied    *)
(* than were poured, none unless the table was crowded, and num the number *)
(* of keys left.                                                           *)
THEOREM OutcomeReckonedWith == Spec => []OutcomeIsPour
  <1>1. Inv => OutcomeIsPour
    <2> SUFFICES ASSUME Inv, stage = "done" PROVE OutcomeIsPour
      BY DEF OutcomeIsPour
    <2> DEFINE c == [len1 |-> NewLen(Len1), len2 |-> NewLen(Len2), num |-> num,
                     keys |-> InTable]
               K0 == KeysIn(0)
               M == Moving \ K0
    <2>1. /\ Given /\ op \in Operations
          /\ Moving = InTable \cup denied /\ InTable \cap denied = {}
          /\ Moving \in SUBSET Keys /\ denied \in SUBSET Keys /\ InTable \in SUBSET Keys
          /\ num = Cardinality(InTable) /\ num = Cardinality(Moving) - Cardinality(denied)
          /\ denied # {} => num >= 2 * Bup
          /\ num <= (NewLen(Len1) + NewLen(Len2)) * Bup
      BY Finished DEF Given
    <2>2. /\ K0 \in SUBSET Moving /\ M \in SUBSET Keys /\ K0 \cup M = Moving
          /\ op = "compress" => Moving = K0
      BY <2>1, AllMoving
    <2>3. /\ Cardinality(K0) \in Nat /\ Cardinality(M) \in Nat /\ Cardinality(denied) \in Nat
          /\ Cardinality(Moving) = Cardinality(K0) + Cardinality(M)
      <3>1. Cardinality(M) = Cardinality(Moving) - Cardinality(K0)
        BY <2>1, <2>2, PartSize
      <3> QED  BY <3>1, <2>1, <2>2, SomeKeys
    <2>4. /\ Ops!TwiceOf(AsTable(0)) = [len1 |-> Len1 * 2, len2 |-> Len2 * 2, keys |-> K0,
                                        num |-> Cardinality(K0)]
          /\ Ops!HalfOf(AsTable(0)) = [len1 |-> Len1 \div 2, len2 |-> Len2 \div 2, keys |-> {},
                                       num |-> 0]
          /\ AsTable(0).keys = K0 /\ AsTable(0).num = Cardinality(K0)
      BY DEF Ops!TwiceOf, Ops!HalfOf, Ops!NewTable, AsTable, LenOf
    <2>5. /\ op # "compress" => Cardinality(denied) <= Cardinality(M)
          /\ op = "compress" => Cardinality(denied) <= Cardinality(K0)
      BY Finished
    <2>6. /\ op # "compress" => NewLen(Len1) = Len1 * 2 /\ NewLen(Len2) = Len2 * 2
          /\ op = "compress" => NewLen(Len1) = Len1 \div 2 /\ NewLen(Len2) = Len2 \div 2
      BY <2>1, Lengths
    <2>7. ASSUME op # "compress" PROVE <<c, denied>> \in Ops!Pour(Ops!TwiceOf(AsTable(0)), M)
      <3> DEFINE t == Ops!TwiceOf(AsTable(0))
      <3>1. /\ t.keys = K0 /\ t.len1 = NewLen(Len1) /\ t.len2 = NewLen(Len2)
            /\ t.num = Cardinality(K0)
        BY <2>4, <2>6, <2>7
      <3>2. /\ t.keys \cup M = Moving /\ denied \in SUBSET (t.keys \cup M)
            /\ (t.keys \cup M) \ denied = InTable
        BY <3>1, <2>1, <2>2
      <3>3. Cardinality(t.keys \cup M) - Cardinality(denied) = num
        BY <3>2, <2>1
      <3>4. t.num + Cardinality(M) - Cardinality(denied) = num
        BY <3>1, <2>1, <2>3
      <3> HIDE DEF t, M, K0
      <3>5. <<[len1 |-> t.len1, len2 |-> t.len2, keys |-> (t.keys \cup M) \ denied,
               num |-> t.num + Cardinality(M) - Cardinality(denied)], denied>>
              \in Ops!Pour(t, M)
        BY <3>1, <3>2, <3>3, <2>1, <2>5, <2>7, IsPour
      <3>6. c = [len1 |-> t.len1, len2 |-> t.len2, keys |-> (t.keys \cup M) \ denied,
                 num |-> t.num + Cardinality(M) - Cardinality(denied)]
        BY <3>1, <3>2, <3>4
      <3> HIDE DEF c
      <3> QED  BY <3>5, <3>6 DEF t
    <2> DEFINE Reckoned ==
                 CASE op = "merge3" -> Ops!MergeTables(AsTable(0), AsTable(1), AsTable(2))
                   [] op = "merge2" -> Ops!Pour(Ops!TwiceOf(AsTable(0)), KeysIn(1))
                   [] op = "compress" -> Ops!CompressTable(AsTable(0))
                   [] op = "expand" -> {<<Ops!TwiceOf(AsTable(0)), {}>>}
    <2>14. ASSUME <<c, denied>> \in Reckoned PROVE OutcomeIsPour
      <3> HIDE DEF Reckoned
      <3>1. num = Cardinality(c.keys) /\ <<c, denied>> \in Reckoned
        BY <2>1, <2>14
      <3> QED  BY <3>1 DEF OutcomeIsPour, InTable, ContentsOf, Reckoned
    <2>8. \A k \in Keys, t, u \in {0, 1, 2} : k \in KeysIn(t) /\ k \in KeysIn(u) => t = u
      BY DEF KeysIn
    <2>9. \A t : KeysIn(t) \in SUBSET Keys
      BY DEF KeysIn
    <2>10. CASE op = "merge3"
      <3>1. TablesOf(op) = {0, 1, 2}
        BY <2>10 DEF TablesOf
      <3>2. M = KeysIn(1) \cup KeysIn(2)
        BY <3>1, <2>8, <2>9 DEF Moving
      <3>3. Ops!MergeTables(AsTable(0), AsTable(1), AsTable(2))
              = Ops!Pour(Ops!TwiceOf(AsTable(0)), KeysIn(1) \cup KeysIn(2))
        BY DEF Ops!MergeTables, AsTable
      <3>4. <<c, denied>> \in Ops!MergeTables(AsTable(0), AsTable(1), AsTable(2))
        BY <3>2, <3>3, <2>7, <2>10
      <3> HIDE DEF c
      <3> QED  BY <3>4, <2>10, <2>14
    <2>11. CASE op = "merge2"
      <3>1. TablesOf(op) = {0, 1}
        BY <2>11 DEF TablesOf
      <3>2. M = KeysIn(1)
        BY <3>1, <2>8, <2>9 DEF Moving
      <3>3. <<c, denied>> \in Ops!Pour(Ops!TwiceOf(AsTable(0)), KeysIn(1))
        BY <3>2, <2>7, <2>11
      <3> HIDE DEF c
      <3> QED  BY <3>3, <2>11, <2>14
    <2>12. CASE op = "expand"
      <3>1. Moving = K0 /\ M = {}
        BY <2>12 DEF TablesOf, Moving
      <3>2. denied = {}
        <4>1. Cardinality(denied) = 0 /\ IsFiniteSet(denied)
          BY <3>1, <2>1, <2>3, <2>5, <2>12, FS_EmptySet, SomeKeys
        <4> QED  BY <4>1, FS_EmptySet
      <3>3. InTable = K0 /\ num = Cardinality(K0)
        BY <3>1, <3>2, <2>1
      <3>4. c = Ops!TwiceOf(AsTable(0))
        BY <3>3, <2>4, <2>6, <2>12
      <3> HIDE DEF c
      <3> QED  BY <3>2, <3>4, <2>12, <2>14
    <2>13. CASE op = "compress"
      <3> DEFINE t == Ops!HalfOf(AsTable(0))
                 p == <<[len1 |-> t.len1, len2 |-> t.len2, keys |-> (t.keys \cup K0) \ denied,
                         num |-> t.num + Cardinality(K0) - Cardinality(denied)], denied>>
      <3>1. /\ t.keys = {} /\ t.len1 = NewLen(Len1) /\ t.len2 = NewLen(Len2)
            /\ t.num = 0
        BY <2>4, <2>6, <2>13
      <3>2. /\ t.keys \cup K0 = Moving /\ denied \in SUBSET (t.keys \cup K0)
            /\ (t.keys \cup K0) \ denied = InTable
        BY <3>1, <2>1, <2>2, <2>13
      <3>3. Cardinality(t.keys \cup K0) - Cardinality(denied) = num
        BY <3>2, <2>1
      <3> HIDE DEF t, M, K0
      <3>4. p \in Ops!Pour(t, K0)
        BY <3>1, <3>2, <3>3, <2>1, <2>5, <2>13, IsPour
      <3>5. /\ p[1].len1 = NewLen(Len1) /\ p[1].len2 = NewLen(Len2)
            /\ p[1].keys = InTable /\ p[2] = denied
        BY <3>1, <3>2
      <3> HIDE DEF p
      <3>6. AsTable(0).num - Cardinality(p[2]) = num
        BY <3>5, <2>1, <2>2, <2>4, <2>13
      <3>7. <<c, denied>>
              = <<Ops!Holding(p[1], p[1].keys, AsTable(0).num - Cardinality(p[2])), p[2]>>
        BY <3>5, <3>6 DEF Ops!Holding
      <3> HIDE DEF c
      <3>8. <<c, denied>> \in Ops!CompressTable(AsTable(0))
        BY <3>4, <3>7, <2>4, SameCounting DEF Ops!CompressTable, t
      <3> QED  BY <3>8, <2>13, <2>14
    <2> QED  BY <2>1, <2>10, <2>11, <2>12, <2>13 DEF Operations
  <1> QED  BY <1>1, InvariantHolds, PTL

=============================================================================
