---------------------------- MODULE CuckooProofs ----------------------------
(***************************************************************************)
(* Proofs about Cuckoo for every set of keys, bucket size, pair of layer   *)
(* lengths, bound of the kick loop and pair of hash functions.             *)
(***************************************************************************)
EXTENDS Cuckoo, FiniteSetTheorems, TLAPS

(* What the loop keeps true beside the properties: the argument of insert  *)
(* is in the table or in hand, and the table was crowded when it started.  *)
ItemKept ==
    pc = "kick" => /\ item \in Stored \cup {ins}
                   /\ num >= 2 * Bup

(* The inductive invariant.                                                *)
IInv ==
    /\ TypeOK
    /\ EveryKeyFound
    /\ NoSecondCopy
    /\ NumIsSize
    /\ VictimBucketFull
    /\ BucketsBounded
    /\ ItemKept

-----------------------------------------------------------------------------
(* Facts about one layer.                                                  *)

(* A hash modulo the length of a layer is the number of one of its buckets. *)
LEMMA ModRange == ASSUME NEW a \in Nat, NEW n \in Nat \ {0}
                  PROVE  a % n \in 0 .. n - 1
  OBVIOUS

LEMMA PosRange == ASSUME NEW k \in Keys
                  PROVE  Pos1(k) \in Bucket1 /\ Pos2(k) \in Bucket2
  BY ModRange, HashAssumption, ShapeAssumption DEF Pos1, Pos2, Bucket1, Bucket2

(* Adding a key to a bucket adds it to the contents of the layer.          *)
LEMMA WithKeyContents ==
  ASSUME NEW layer, NEW B, layer \in [B -> SUBSET Keys], NEW b \in B, NEW k \in Keys
  PROVE  /\ WithKey(layer, b, k) \in [B -> SUBSET Keys]
         /\ Contents(WithKey(layer, b, k)) = Contents(layer) \cup {k}
  BY DEF WithKey, Contents

(* Removing a key that lies in one bucket only removes it from the layer.  *)
LEMMA WithoutKeyContents ==
  ASSUME NEW layer, NEW B, layer \in [B -> SUBSET Keys], NEW b \in B, NEW k \in layer[b],
         \A c \in B : k \in layer[c] => c = b
  PROVE  /\ WithoutKey(layer, b, k) \in [B -> SUBSET Keys]
         /\ Contents(WithoutKey(layer, b, k)) = Contents(layer) \ {k}
  BY DEF Contents, WithoutKey

(* Replacing a victim exchanges it with the new key in the contents.       *)
LEMMA ReplacedContents ==
  ASSUME NEW layer, NEW B, layer \in [B -> SUBSET Keys], NEW b \in B,
         NEW v \in layer[b], NEW k \in Keys, k # v,
         \A c \in B : v \in layer[c] => c = b
  PROVE  /\ Replaced(layer, b, v, k) \in [B -> SUBSET Keys]
         /\ Contents(Replaced(layer, b, v, k)) = (Contents(layer) \ {v}) \cup {k}
  BY DEF Contents, Replaced

-----------------------------------------------------------------------------
(* Facts about cardinalities.                                              *)

LEMMA CardinalityAdd ==
  ASSUME NEW S, IsFiniteSet(S), NEW k, k \notin S
  PROVE  IsFiniteSet(S \cup {k}) /\ Cardinality(S \cup {k}) = Cardinality(S) + 1
  BY FS_AddElement

LEMMA CardinalityRemove ==
  ASSUME NEW S, IsFiniteSet(S), NEW k \in S
  PROVE  IsFiniteSet(S \ {k}) /\ Cardinality(S \ {k}) = Cardinality(S) - 1
  BY FS_RemoveElement

(* Exchanging a member for a key that is not one keeps the size.           *)
LEMMA CardinalitySwap ==
  ASSUME NEW S, IsFiniteSet(S), NEW v \in S, NEW k, k \notin S
  PROVE  Cardinality((S \ {v}) \cup {k}) = Cardinality(S)
  <1>1. IsFiniteSet(S \ {v}) /\ Cardinality(S \ {v}) = Cardinality(S) - 1
    BY CardinalityRemove
  <1>2. Cardinality((S \ {v}) \cup {k}) = Cardinality(S \ {v}) + 1
    BY <1>1, CardinalityAdd
  <1>3. Cardinality(S) \in Nat
    BY FS_CardinalityType
  <1> QED  BY <1>1, <1>2, <1>3

(* A bucket that takes a key had a free slot and does not outgrow it.      *)
LEMMA TakenInBounds ==
  ASSUME NEW layer, NEW B, layer \in [B -> SUBSET Keys], NEW b \in B, NEW k \in Keys,
         \A c \in B : Cardinality(layer[c]) <= Bup,
         LayerInsertResult(layer, b, k) = 1
  PROVE  \A c \in B : Cardinality(WithKey(layer, b, k)[c]) <= Bup
  <1>1. IsFiniteSet(layer[b]) /\ Cardinality(layer[b]) \in Nat
    BY KeysAssumption, FS_Subset, FS_CardinalityType
  <1>2. k \notin layer[b] /\ Cardinality(layer[b]) < Bup
    BY DEF LayerInsertResult
  <1>3. Cardinality(layer[b] \cup {k}) = Cardinality(layer[b]) + 1
    BY <1>1, <1>2, CardinalityAdd
  <1>4. Cardinality(layer[b] \cup {k}) <= Bup
    BY <1>1, <1>2, <1>3, ShapeAssumption
  <1> QED  BY <1>4 DEF WithKey

(* Overwriting a slot keeps the size of every bucket.                      *)
LEMMA ReplacedSize ==
  ASSUME NEW layer, NEW B, layer \in [B -> SUBSET Keys], NEW b \in B, NEW v \in layer[b],
         NEW k \in Keys, k \notin layer[b]
  PROVE  \A c \in B : Cardinality(Replaced(layer, b, v, k)[c]) = Cardinality(layer[c])
  <1>1. IsFiniteSet(layer[b])
    BY KeysAssumption, FS_Subset
  <1>2. Cardinality((layer[b] \ {v}) \cup {k}) = Cardinality(layer[b])
    BY <1>1, CardinalitySwap
  <1> QED  BY <1>2 DEF Replaced

-----------------------------------------------------------------------------
(* Facts about a state.                                                    *)

(* The contents of the table are a finite set of keys, and so is a bucket. *)
LEMMA StoredFinite ==
  ASSUME TypeOK
  PROVE  /\ Stored \subseteq Keys
         /\ IsFiniteSet(Stored)
         /\ Cardinality(Stored) \in Nat
         /\ \A b \in Bucket1 : /\ IsFiniteSet(layer1[b])
                               /\ Cardinality(layer1[b]) \in Nat
         /\ \A b \in Bucket2 : /\ IsFiniteSet(layer2[b])
                               /\ Cardinality(layer2[b]) \in Nat
  <1>1. Stored \subseteq Keys
    BY DEF TypeOK, Stored, Stored1, Stored2, Contents
  <1>2. /\ \A b \in Bucket1 : layer1[b] \subseteq Keys
        /\ \A b \in Bucket2 : layer2[b] \subseteq Keys
    BY DEF TypeOK
  <1>3. \A S : S \subseteq Keys => IsFiniteSet(S) /\ Cardinality(S) \in Nat
    BY KeysAssumption, FS_Subset, FS_CardinalityType
  <1> QED  BY <1>1, <1>2, <1>3

(* A key lies in a layer exactly when the bucket it hashes to holds it.    *)
LEMMA QueryExact ==
  ASSUME TypeOK, EveryKeyFound, NEW k \in Keys
  PROVE  /\ k \in Stored1 <=> k \in layer1[Pos1(k)]
         /\ k \in Stored2 <=> k \in layer2[Pos2(k)]
         /\ Query(k) <=> k \in Stored
  BY PosRange DEF TypeOK, EveryKeyFound, Query, InBucket, Stored, Stored1, Stored2, Contents

(* A bucket that turns a key down is full.                                 *)
LEMMA TurnedDown ==
  ASSUME TypeOK, BucketsBounded
  PROVE  /\ \A b \in Bucket1, k \in Keys :
               LayerInsertResult(layer1, b, k) = 0 =>
                  k \notin layer1[b] /\ Cardinality(layer1[b]) = Bup
         /\ \A b \in Bucket2, k \in Keys :
               LayerInsertResult(layer2, b, k) = 0 =>
                  k \notin layer2[b] /\ Cardinality(layer2[b]) = Bup
  BY StoredFinite, ShapeAssumption DEF BucketsBounded, LayerInsertResult

(* A table with a full bucket in each layer holds 2 * Bup keys.            *)
LEMMA TwoFullBuckets ==
  ASSUME TypeOK, NoSecondCopy, NEW p \in Bucket1, NEW q \in Bucket2,
         Cardinality(layer1[p]) = Bup, Cardinality(layer2[q]) = Bup
  PROVE  Cardinality(Stored) >= 2 * Bup
  <1> DEFINE U == layer1[p] \cup layer2[q]
  <1>1. layer1[p] \cap layer2[q] = {}
    BY DEF TypeOK, NoSecondCopy, Stored1, Stored2, Contents
  <1>2. IsFiniteSet(layer1[p]) /\ IsFiniteSet(layer2[q])
    BY StoredFinite
  <1>3. Cardinality(U) = Bup + Bup
    <2>1. Cardinality(U) = Cardinality(layer1[p]) + Cardinality(layer2[q])
                              - Cardinality(layer1[p] \cap layer2[q])
      BY <1>2, FS_Union
    <2>2. Cardinality(layer1[p] \cap layer2[q]) = 0
      BY <1>1, FS_EmptySet
    <2> QED  BY <2>1, <2>2, ShapeAssumption
  <1>4. U \subseteq Stored
    BY DEF TypeOK, Stored, Stored1, Stored2, Contents
  <1>5. Cardinality(U) <= Cardinality(Stored)
    BY <1>4, StoredFinite, FS_Subset
  <1> QED  BY <1>3, <1>5, StoredFinite, ShapeAssumption

-----------------------------------------------------------------------------
(* The inductive invariant.                                                *)

LEMMA InitIInv == Init => IInv
  <1> SUFFICES ASSUME Init PROVE IInv
    OBVIOUS
  <1>1. Stored = {} /\ Stored1 = {} /\ Stored2 = {}
    BY DEF Init, Stored, Stored1, Stored2, Contents
  <1>2. Cardinality({}) = 0
    BY FS_EmptySet
  <1> QED
    BY <1>1, <1>2, KeysAssumption, ShapeAssumption
    DEF Init, IInv, TypeOK, EveryKeyFound, NoSecondCopy, NumIsSize,
        VictimBucketFull, BucketsBounded, ItemKept

(* An insertion that finds room stores its key, once, in a bucket query    *)
(* looks at.                                                               *)
LEMMA InsertPlacedStep ==
  ASSUME IInv, NEW k \in Keys, InsertPlaced(k)
  PROVE  IInv' /\ k \notin Stored /\ Stored' = Stored \cup {k}
  <1> USE DEF IInv
  <1>1. k \notin Stored1 /\ k \notin Stored2 /\ k \notin Stored
    BY QueryExact DEF InsertPlaced, Query, InBucket
  <1>2. CASE LayerInsertResult(layer1, Pos1(k), k) = 1
             /\ layer1' = WithKey(layer1, Pos1(k), k) /\ layer2' = layer2
    <2>1. layer1' \in [Bucket1 -> SUBSET Keys] /\ Stored1' = Stored1 \cup {k}
      BY <1>2, PosRange, WithKeyContents DEF TypeOK, Stored1
    <2>2. Stored2' = Stored2
      BY <1>2 DEF Stored2
    <2>3. Stored' = Stored \cup {k}
      BY <2>1, <2>2 DEF Stored
    <2>4. TypeOK'
      BY <1>2, <2>1 DEF TypeOK, InsertPlaced
    <2>5. EveryKeyFound'
      BY <1>2, PosRange DEF TypeOK, EveryKeyFound, WithKey, Pos1, Pos2
    <2>6. NoSecondCopy'
      BY <2>1, <2>2, <2>3, <1>1, KeysAssumption
      DEF NoSecondCopy, TypeOK, InsertPlaced
    <2>7. NumIsSize'
      BY <2>3, <1>1, StoredFinite, CardinalityAdd DEF NumIsSize, InsertPlaced
    <2>8. BucketsBounded'
      BY <1>2, PosRange, TakenInBounds DEF BucketsBounded, TypeOK
    <2>9. VictimBucketFull' /\ ItemKept'
      BY DEF VictimBucketFull, ItemKept, InsertPlaced
    <2> QED  BY <1>1, <2>3, <2>4, <2>5, <2>6, <2>7, <2>8, <2>9
  <1>3. CASE LayerInsertResult(layer2, Pos2(k), k) = 1
             /\ layer2' = WithKey(layer2, Pos2(k), k) /\ layer1' = layer1
    <2>1. layer2' \in [Bucket2 -> SUBSET Keys] /\ Stored2' = Stored2 \cup {k}
      BY <1>3, PosRange, WithKeyContents DEF TypeOK, Stored2
    <2>2. Stored1' = Stored1
      BY <1>3 DEF Stored1
    <2>3. Stored' = Stored \cup {k}
      BY <2>1, <2>2 DEF Stored
    <2>4. TypeOK'
      BY <1>3, <2>1 DEF TypeOK, InsertPlaced
    <2>5. EveryKeyFound'
      BY <1>3, PosRange DEF TypeOK, EveryKeyFound, WithKey, Pos1, Pos2
    <2>6. NoSecondCopy'
      BY <2>1, <2>2, <2>3, <1>1, KeysAssumption
      DEF NoSecondCopy, TypeOK, InsertPlaced
    <2>7. NumIsSize'
      BY <2>3, <1>1, StoredFinite, CardinalityAdd DEF NumIsSize, InsertPlaced
    <2>8. BucketsBounded'
      BY <1>3, PosRange, TakenInBounds DEF BucketsBounded, TypeOK
    <2>9. VictimBucketFull' /\ ItemKept'
      BY DEF VictimBucketFull, ItemKept, InsertPlaced
    <2> QED  BY <1>1, <2>3, <2>4, <2>5, <2>6, <2>7, <2>8, <2>9
  <1> QED  BY <1>2, <1>3 DEF InsertPlaced

(* Entering the kick loop moves nothing; both buckets of the key are full. *)
LEMMA InsertCrowdedStep ==
  ASSUME IInv, NEW k \in Keys, InsertCrowded(k)
  PROVE  IInv' /\ k \notin Stored /\ Stored' = Stored
  <1> USE DEF IInv
  <1>1. k \notin Stored
    BY QueryExact DEF InsertCrowded
  <1>2. Stored1' = Stored1 /\ Stored2' = Stored2 /\ Stored' = Stored
    BY DEF InsertCrowded, Stored, Stored1, Stored2
  <1>3. Cardinality(layer1[Pos1(k)]) = Bup /\ Cardinality(layer2[Pos2(k)]) = Bup
    BY TurnedDown, PosRange DEF InsertCrowded
  <1>4. Cardinality(Stored) >= 2 * Bup
    BY <1>3, TwoFullBuckets, PosRange
  <1>5. TypeOK'
    BY ShapeAssumption DEF TypeOK, InsertCrowded
  <1>6. EveryKeyFound' /\ BucketsBounded' /\ NumIsSize' /\ NoSecondCopy'
    BY <1>1, <1>2
    DEF EveryKeyFound, BucketsBounded, NumIsSize, NoSecondCopy, InsertCrowded, Pos1, Pos2
  <1>7. VictimBucketFull' /\ ItemKept'
    BY <1>2, <1>3, <1>4 DEF VictimBucketFull, ItemKept, NumIsSize, InsertCrowded, Pos1, Pos2
  <1> QED  BY <1>1, <1>2, <1>5, <1>6, <1>7

(* An iteration that takes its victim from layer1: one lemma says where    *)
(* the keys are afterwards, whichever way the victim went.                 *)
LEMMA KickFrom1Moves ==
  ASSUME IInv, pc = "kick", flag, NEW victim \in layer1[Pos1(ins)]
  PROVE  LET moved == Replaced(layer1, Pos1(ins), victim, ins) IN
         /\ victim \in Keys /\ victim # ins /\ victim \in Stored1
         /\ ins \notin layer1[Pos1(ins)]
         /\ moved \in [Bucket1 -> SUBSET Keys]
         /\ Contents(moved) = (Stored1 \ {victim}) \cup {ins}
         /\ \A b \in Bucket1 : /\ Cardinality(moved[b]) = Cardinality(layer1[b])
                               /\ \A k \in moved[b] : Pos1(k) = b
         /\ LayerInsertResult(layer2, Pos2(victim), victim) # -1
  <1> USE DEF IInv
  <1>1. ins \in Keys /\ Pos1(ins) \in Bucket1 /\ victim \in Keys
    BY PosRange DEF TypeOK
  <1>2. ins \notin Stored1 /\ ins \notin layer1[Pos1(ins)]
    BY <1>1, QueryExact DEF NoSecondCopy, Stored
  <1>3. victim \in Stored1 /\ victim # ins
    BY <1>1, <1>2 DEF Stored1, Contents, TypeOK
  <1>4. \A c \in Bucket1 : victim \in layer1[c] => c = Pos1(ins)
    BY <1>1 DEF EveryKeyFound
  <1>5. /\ Replaced(layer1, Pos1(ins), victim, ins) \in [Bucket1 -> SUBSET Keys]
        /\ Contents(Replaced(layer1, Pos1(ins), victim, ins)) = (Stored1 \ {victim}) \cup {ins}
    BY <1>1, <1>3, <1>4, ReplacedContents DEF TypeOK, Stored1
  <1>6. \A b \in Bucket1 :
           Cardinality(Replaced(layer1, Pos1(ins), victim, ins)[b]) = Cardinality(layer1[b])
    BY <1>1, <1>2, ReplacedSize DEF TypeOK
  <1>7. \A b \in Bucket1 : \A k \in Replaced(layer1, Pos1(ins), victim, ins)[b] : Pos1(k) = b
    BY <1>1 DEF EveryKeyFound, Replaced, TypeOK
  <1>8. LayerInsertResult(layer2, Pos2(victim), victim) # -1
    <2>1. victim \notin layer2[Pos2(victim)]
      BY <1>1, <1>3, QueryExact DEF NoSecondCopy
    <2> QED  BY <2>1 DEF LayerInsertResult
  <1> QED  BY <1>1, <1>2, <1>3, <1>5, <1>6, <1>7, <1>8

LEMMA KickFrom2Moves ==
  ASSUME IInv, pc = "kick", ~ flag, NEW victim \in layer2[Pos2(ins)]
  PROVE  LET moved == Replaced(layer2, Pos2(ins), victim, ins) IN
         /\ victim \in Keys /\ victim # ins /\ victim \in Stored2
         /\ ins \notin layer2[Pos2(ins)]
         /\ moved \in [Bucket2 -> SUBSET Keys]
         /\ Contents(moved) = (Stored2 \ {victim}) \cup {ins}
         /\ \A b \in Bucket2 : /\ Cardinality(moved[b]) = Cardinality(layer2[b])
                               /\ \A k \in moved[b] : Pos2(k) = b
         /\ LayerInsertResult(layer1, Pos1(victim), victim) # -1
  <1> USE DEF IInv
  <1>1. ins \in Keys /\ Pos2(ins) \in Bucket2 /\ victim \in Keys
    BY PosRange DEF TypeOK
  <1>2. ins \notin Stored2 /\ ins \notin layer2[Pos2(ins)]
    BY <1>1, QueryExact DEF NoSecondCopy, Stored
  <1>3. victim \in Stored2 /\ victim # ins
    BY <1>1, <1>2 DEF Stored2, Contents, TypeOK
  <1>4. \A c \in Bucket2 : victim \in layer2[c] => c = Pos2(ins)
    BY <1>1 DEF EveryKeyFound
  <1>5. /\ Replaced(layer2, Pos2(ins), victim, ins) \in [Bucket2 -> SUBSET Keys]
        /\ Contents(Replaced(layer2, Pos2(ins), victim, ins)) = (Stored2 \ {victim}) \cup {ins}
    BY <1>1, <1>3, <1>4, ReplacedContents DEF TypeOK, Stored2
  <1>6. \A b \in Bucket2 :
           Cardinality(Replaced(layer2, Pos2(ins), victim, ins)[b]) = Cardinality(layer2[b])
    BY <1>1, <1>2, ReplacedSize DEF TypeOK
  <1>7. \A b \in Bucket2 : \A k \in Replaced(layer2, Pos2(ins), victim, ins)[b] : Pos2(k) = b
    BY <1>1 DEF EveryKeyFound, Replaced, TypeOK
  <1>8. LayerInsertResult(layer1, Pos1(victim), victim) # -1
    <2>1. victim \notin layer1[Pos1(victim)]
      BY <1>1, <1>3, QueryExact DEF NoSecondCopy
    <2> QED  BY <2>1 DEF LayerInsertResult
  <1> QED  BY <1>1, <1>2, <1>3, <1>5, <1>6, <1>7, <1>8

(* An iteration with flag ends the call with the key in hand stored, or puts *)
(* its victim in hand: no key is lost either way.                          *)
LEMMA KickFrom1Step ==
  ASSUME IInv, KickFrom1
  PROVE  /\ IInv'
         /\ \/ pc' = "idle" /\ Stored' = Stored \cup {ins} /\ num' = num + 1
            \/ /\ pc' = "kick" /\ item' = item /\ num' = num
               /\ Stored' \cup {ins'} = Stored \cup {ins}
         /\ mykick' = mykick
  <1> PICK victim \in layer1[Pos1(ins)] :
         LET f == LayerInsertResult(layer2, Pos2(victim), victim) IN
         /\ layer1' = Replaced(layer1, Pos1(ins), victim, ins)
         /\ IF f = 1
            THEN layer2' = WithKey(layer2, Pos2(victim), victim)
            ELSE UNCHANGED layer2
         /\ IF f # 0 THEN KickSettled(f) ELSE KickContinues(victim)
    BY DEF KickFrom1
  <1> DEFINE f == LayerInsertResult(layer2, Pos2(victim), victim)
  <1>1. /\ victim \in Keys /\ victim # ins /\ victim \in Stored1
        /\ layer1' \in [Bucket1 -> SUBSET Keys]
        /\ Stored1' = (Stored1 \ {victim}) \cup {ins}
        /\ \A b \in Bucket1 : /\ Cardinality(layer1'[b]) = Cardinality(layer1[b])
                              /\ \A k \in layer1'[b] : Pos1(k) = b
        /\ f # -1
    BY KickFrom1Moves DEF KickFrom1, Stored1
  <1>2. Pos2(victim) \in Bucket2 /\ f \in {-1, 0, 1}
    BY <1>1, PosRange DEF LayerInsertResult
  <1>3. /\ victim \notin Stored2 /\ ins \notin Stored /\ pc = "kick"
        /\ ins \in Keys /\ item \in Keys /\ mykick' = mykick
    BY <1>1 DEF IInv, NoSecondCopy, TypeOK, KickFrom1
  <1>4. \A k : Pos1(k)' = Pos1(k) /\ Pos2(k)' = Pos2(k)
    BY DEF Pos1, Pos2
  <1>5. CASE f = 1
    <2>1. /\ layer2' = WithKey(layer2, Pos2(victim), victim)
          /\ num' = num + 1 /\ pc' = "idle" /\ item' = NoKey /\ ins' = NoKey
          /\ times' = 0 /\ flag' = TRUE
      BY <1>5 DEF KickSettled
    <2>2. layer2' \in [Bucket2 -> SUBSET Keys] /\ Stored2' = Stored2 \cup {victim}
      BY <1>1, <1>2, <2>1, WithKeyContents DEF IInv, TypeOK, Stored2
    <2>3. Stored' = Stored \cup {ins}
      BY <1>1, <2>2 DEF Stored
    <2>4. TypeOK'
      BY <1>1, <1>3, <2>1, <2>2, ShapeAssumption DEF IInv, TypeOK
    <2>5. EveryKeyFound'
      BY <1>1, <1>2, <1>4, <2>1 DEF IInv, TypeOK, EveryKeyFound, WithKey
    <2>6. NoSecondCopy'
      <3>1. Stored1' \cap Stored2' = {}
        BY <1>1, <1>3, <2>2 DEF IInv, NoSecondCopy, Stored
      <3>2. Stored' \subseteq Keys
        BY <1>1, <2>2 DEF Stored, Stored1, Stored2, Contents
      <3> QED  BY <3>1, <3>2, <2>1, KeysAssumption DEF NoSecondCopy
    <2>7. NumIsSize'
      BY <1>3, <2>1, <2>3, StoredFinite, CardinalityAdd DEF IInv, NumIsSize
    <2>8. BucketsBounded'
      <3>1. \A b \in Bucket2 : Cardinality(layer2'[b]) <= Bup
        BY <1>1, <1>2, <1>5, <2>1, TakenInBounds DEF IInv, BucketsBounded, TypeOK
      <3> QED  BY <1>1, <3>1 DEF IInv, BucketsBounded
    <2>9. VictimBucketFull' /\ ItemKept'
      BY <2>1 DEF VictimBucketFull, ItemKept
    <2> QED  BY <1>3, <2>1, <2>3, <2>4, <2>5, <2>6, <2>7, <2>8, <2>9 DEF IInv
  <1>6. CASE f = 0
    <2>1. /\ layer2' = layer2 /\ num' = num /\ pc' = "kick" /\ item' = item
          /\ ins' = victim /\ times' = times - 1 /\ flag' = ~ flag
      BY <1>3, <1>6 DEF KickContinues
    <2>2. Stored2' = Stored2
      BY <2>1 DEF Stored2
    <2>3. Stored' = (Stored \ {victim}) \cup {ins} /\ victim \in Stored
      BY <1>1, <1>3, <2>2 DEF Stored
    <2>4. TypeOK'
      <3>1. times' \in 0 .. KickTimes
        BY <2>1, ShapeAssumption DEF IInv, TypeOK, KickFrom1
      <3>2. flag' \in BOOLEAN /\ num' \in Int /\ mykick' \in Keys \cup {NoKey}
        BY <1>3, <2>1 DEF IInv, TypeOK
      <3>3. layer1' \in [Bucket1 -> SUBSET Keys] /\ layer2' \in [Bucket2 -> SUBSET Keys]
        BY <1>1, <2>1 DEF IInv, TypeOK
      <3> QED  BY <1>1, <1>3, <2>1, <3>1, <3>2, <3>3 DEF TypeOK
    <2>5. EveryKeyFound'
      BY <1>1, <1>4, <2>1 DEF IInv, EveryKeyFound
    <2>6. NoSecondCopy'
      BY <1>1, <1>3, <2>1, <2>2, <2>3 DEF IInv, NoSecondCopy, Stored
    <2>7. NumIsSize'
      BY <1>3, <2>1, <2>3, StoredFinite, CardinalitySwap DEF IInv, NumIsSize
    <2>8. BucketsBounded'
      BY <1>1, <2>1 DEF IInv, BucketsBounded
    <2>9. VictimBucketFull'
      <3>1. Cardinality(layer2[Pos2(victim)]) = Bup
        BY <1>1, <1>2, <1>6, TurnedDown DEF IInv
      <3> QED  BY <1>4, <2>1, <3>1 DEF VictimBucketFull, KickFrom1
    <2>10. ItemKept'
      BY <1>3, <2>1, <2>3 DEF IInv, ItemKept
    <2> QED
      BY <1>3, <2>1, <2>3, <2>4, <2>5, <2>6, <2>7, <2>8, <2>9, <2>10 DEF IInv
  <1> QED  BY <1>1, <1>2, <1>5, <1>6

(* An iteration from layer2 ends the call with the key in hand stored, or puts *)
(* its victim in hand: no key is lost either way.                          *)
LEMMA KickFrom2Step ==
  ASSUME IInv, KickFrom2
  PROVE  /\ IInv'
         /\ \/ pc' = "idle" /\ Stored' = Stored \cup {ins} /\ num' = num + 1
            \/ /\ pc' = "kick" /\ item' = item /\ num' = num
               /\ Stored' \cup {ins'} = Stored \cup {ins}
         /\ mykick' = mykick
  <1> PICK victim \in layer2[Pos2(ins)] :
         LET f == LayerInsertResult(layer1, Pos1(victim), victim) IN
         /\ layer2' = Replaced(layer2, Pos2(ins), victim, ins)
         /\ IF f = 1
            THEN layer1' = WithKey(layer1, Pos1(victim), victim)
            ELSE UNCHANGED layer1
         /\ IF f # 0 THEN KickSettled(f) ELSE KickContinues(victim)
    BY DEF KickFrom2
  <1> DEFINE f == LayerInsertResult(layer1, Pos1(victim), victim)
  <1>1. /\ victim \in Keys /\ victim # ins /\ victim \in Stored2
        /\ layer2' \in [Bucket2 -> SUBSET Keys]
        /\ Stored2' = (Stored2 \ {victim}) \cup {ins}
        /\ \A b \in Bucket2 : /\ Cardinality(layer2'[b]) = Cardinality(layer2[b])
                              /\ \A k \in layer2'[b] : Pos2(k) = b
        /\ f # -1
    BY KickFrom2Moves DEF KickFrom2, Stored2
  <1>2. Pos1(victim) \in Bucket1 /\ f \in {-1, 0, 1}
    BY <1>1, PosRange DEF LayerInsertResult
  <1>3. /\ victim \notin Stored1 /\ ins \notin Stored /\ pc = "kick"
        /\ ins \in Keys /\ item \in Keys /\ mykick' = mykick
    BY <1>1 DEF IInv, NoSecondCopy, TypeOK, KickFrom2
  <1>4. \A k : Pos1(k)' = Pos1(k) /\ Pos2(k)' = Pos2(k)
    BY DEF Pos1, Pos2
  <1>5. CASE f = 1
    <2>1. /\ layer1' = WithKey(layer1, Pos1(victim), victim)
          /\ num' = num + 1 /\ pc' = "idle" /\ item' = NoKey /\ ins' = NoKey
          /\ times' = 0 /\ flag' = TRUE
      BY <1>5 DEF KickSettled
    <2>2. layer1' \in [Bucket1 -> SUBSET Keys] /\ Stored1' = Stored1 \cup {victim}
      BY <1>1, <1>2, <2>1, WithKeyContents DEF IInv, TypeOK, Stored1
    <2>3. Stored' = Stored \cup {ins}
      BY <1>1, <2>2 DEF Stored
    <2>4. TypeOK'
      BY <1>1, <1>3, <2>1, <2>2, ShapeAssumption DEF IInv, TypeOK
    <2>5. EveryKeyFound'
      BY <1>1, <1>2, <1>4, <2>1 DEF IInv, TypeOK, EveryKeyFound, WithKey
    <2>6. NoSecondCopy'
      <3>1. Stored1' \cap Stored2' = {}
        BY <1>1, <1>3, <2>2 DEF IInv, NoSecondCopy, Stored
      <3>2. Stored' \subseteq Keys
        BY <1>1, <2>2 DEF Stored, Stored1, Stored2, Contents
      <3> QED  BY <3>1, <3>2, <2>1, KeysAssumption DEF NoSecondCopy
    <2>7. NumIsSize'
      BY <1>3, <2>1, <2>3, StoredFinite, CardinalityAdd DEF IInv, NumIsSize
    <2>8. BucketsBounded'
      <3>1. \A b \in Bucket1 : Cardinality(layer1'[b]) <= Bup
        BY <1>1, <1>2, <1>5, <2>1, TakenInBounds DEF IInv, BucketsBounded, TypeOK
      <3> QED  BY <1>1, <3>1 DEF IInv, BucketsBounded
    <2>9. VictimBucketFull' /\ ItemKept'
      BY <2>1 DEF VictimBucketFull, ItemKept
    <2> QED  BY <1>3, <2>1, <2>3, <2>4, <2>5, <2>6, <2>7, <2>8, <2>9 DEF IInv
  <1>6. CASE f = 0
    <2>1. /\ layer1' = layer1 /\ num' = num /\ pc' = "kick" /\ item' = item
          /\ ins' = victim /\ times' = times - 1 /\ flag' = ~ flag
      BY <1>3, <1>6 DEF KickContinues
    <2>2. Stored1' = Stored1
      BY <2>1 DEF Stored1
    <2>3. Stored' = (Stored \ {victim}) \cup {ins} /\ victim \in Stored
      BY <1>1, <1>3, <2>2 DEF Stored
    <2>4. TypeOK'
      <3>1. times' \in 0 .. KickTimes
        BY <2>1, ShapeAssumption DEF IInv, TypeOK, KickFrom2
      <3>2. flag' \in BOOLEAN /\ num' \in Int /\ mykick' \in Keys \cup {NoKey}
        BY <1>3, <2>1 DEF IInv, TypeOK
      <3>3. layer1' \in [Bucket1 -> SUBSET Keys] /\ layer2' \in [Bucket2 -> SUBSET Keys]
        BY <1>1, <2>1 DEF IInv, TypeOK
      <3> QED  BY <1>1, <1>3, <2>1, <3>1, <3>2, <3>3 DEF TypeOK
    <2>5. EveryKeyFound'
      BY <1>1, <1>4, <2>1 DEF IInv, EveryKeyFound
    <2>6. NoSecondCopy'
      BY <1>1, <1>3, <2>1, <2>2, <2>3 DEF IInv, NoSecondCopy, Stored
    <2>7. NumIsSize'
      BY <1>3, <2>1, <2>3, StoredFinite, CardinalitySwap DEF IInv, NumIsSize
    <2>8. BucketsBounded'
      BY <1>1, <2>1 DEF IInv, BucketsBounded
    <2>9. VictimBucketFull'
      <3>1. Cardinality(layer1[Pos1(victim)]) = Bup
        BY <1>1, <1>2, <1>6, TurnedDown DEF IInv
      <3> QED  BY <1>4, <2>1, <3>1 DEF VictimBucketFull, KickFrom2
    <2>10. ItemKept'
      BY <1>3, <2>1, <2>3 DEF IInv, ItemKept
    <2> QED
      BY <1>3, <2>1, <2>3, <2>4, <2>5, <2>6, <2>7, <2>8, <2>9, <2>10 DEF IInv
  <1> QED  BY <1>1, <1>2, <1>5, <1>6

(* Exhausting the loop hands the key in hand to mykick.                    *)
LEMMA GiveUpStep ==
  ASSUME IInv, GiveUp
  PROVE  /\ IInv'
         /\ pc' = "idle" /\ Stored' = Stored /\ num' = num /\ mykick' = ins
  <1> USE DEF IInv
  <1>1. Stored1' = Stored1 /\ Stored2' = Stored2 /\ Stored' = Stored
    BY DEF GiveUp, Stored, Stored1, Stored2
  <1>2. NoKey \notin Stored
    BY StoredFinite, KeysAssumption
  <1>3. TypeOK'
    BY DEF TypeOK, GiveUp
  <1>4. EveryKeyFound' /\ NoSecondCopy' /\ NumIsSize' /\ BucketsBounded'
    BY <1>1, <1>2
    DEF EveryKeyFound, NoSecondCopy, NumIsSize, BucketsBounded, GiveUp, Pos1, Pos2
  <1>5. VictimBucketFull' /\ ItemKept'
    BY DEF VictimBucketFull, ItemKept, GiveUp
  <1> QED  BY <1>1, <1>3, <1>4, <1>5 DEF GiveUp

(* del removes the only copy of its key and counts it down.                *)
LEMMA DelStep ==
  ASSUME IInv, NEW k \in Keys, Del(k)
  PROVE  IInv' /\ k \in Stored /\ Stored' = Stored \ {k}
  <1> USE DEF IInv
  <1>1. CASE k \in layer1[Pos1(k)] /\ layer1' = WithoutKey(layer1, Pos1(k), k)
             /\ layer2' = layer2
    <2>1. k \in Stored1 /\ k \notin Stored2 /\ k \in Stored
      BY <1>1, QueryExact DEF NoSecondCopy, Stored
    <2>2. \A c \in Bucket1 : k \in layer1[c] => c = Pos1(k)
      BY DEF EveryKeyFound
    <2>3. layer1' \in [Bucket1 -> SUBSET Keys] /\ Stored1' = Stored1 \ {k}
      <3>1. layer1 \in [Bucket1 -> SUBSET Keys] /\ Pos1(k) \in Bucket1
        BY PosRange DEF TypeOK
      <3>2. k \in layer1[Pos1(k)]
        BY <1>1
      <3>3. /\ WithoutKey(layer1, Pos1(k), k) \in [Bucket1 -> SUBSET Keys]
            /\ Contents(WithoutKey(layer1, Pos1(k), k)) = Contents(layer1) \ {k}
        BY <2>2, <3>1, <3>2, WithoutKeyContents
      <3> QED  BY <1>1, <3>3 DEF Stored1
    <2>4. Stored2' = Stored2 /\ Stored' = Stored \ {k}
      BY <1>1, <2>1, <2>3 DEF Stored2, Stored
    <2>5. \A c \in Bucket1 : /\ layer1'[c] \subseteq layer1[c]
                             /\ Cardinality(layer1'[c]) <= Cardinality(layer1[c])
      <3>1. \A c \in Bucket1 : layer1'[c] \subseteq layer1[c]
        BY <1>1 DEF TypeOK, WithoutKey
      <3> QED  BY <3>1, StoredFinite, FS_Subset
    <2>6. TypeOK'
      BY <1>1, <2>3 DEF TypeOK, Del
    <2>7. EveryKeyFound'
      BY <1>1, <2>5 DEF EveryKeyFound, Pos1, Pos2
    <2>8. NoSecondCopy'
      BY <2>3, <2>4 DEF NoSecondCopy, Del
    <2>9. NumIsSize'
      BY <2>1, <2>4, StoredFinite, CardinalityRemove DEF NumIsSize, Del
    <2>10. BucketsBounded'
      <3>1. \A c \in Bucket1 : Cardinality(layer1'[c]) \in Nat
        BY <2>6, StoredFinite, <2>3, KeysAssumption, FS_Subset, FS_CardinalityType
      <3> QED  BY <1>1, <2>5, <3>1, StoredFinite, ShapeAssumption DEF BucketsBounded
    <2>11. VictimBucketFull' /\ ItemKept'
      BY DEF VictimBucketFull, ItemKept, Del
    <2> QED  BY <2>1, <2>4, <2>6, <2>7, <2>8, <2>9, <2>10, <2>11
  <1>2. CASE k \in layer2[Pos2(k)] /\ layer2' = WithoutKey(layer2, Pos2(k), k)
             /\ layer1' = layer1
    <2>1. k \in Stored2 /\ k \notin Stored1 /\ k \in Stored
      BY <1>2, QueryExact DEF NoSecondCopy, Stored
    <2>2. \A c \in Bucket2 : k \in layer2[c] => c = Pos2(k)
      BY DEF EveryKeyFound
    <2>3. layer2' \in [Bucket2 -> SUBSET Keys] /\ Stored2' = Stored2 \ {k}
      <3>1. layer2 \in [Bucket2 -> SUBSET Keys] /\ Pos2(k) \in Bucket2
        BY PosRange DEF TypeOK
      <3>2. k \in layer2[Pos2(k)]
        BY <1>2
      <3>3. /\ WithoutKey(layer2, Pos2(k), k) \in [Bucket2 -> SUBSET Keys]
            /\ Contents(WithoutKey(layer2, Pos2(k), k)) = Contents(layer2) \ {k}
        BY <2>2, <3>1, <3>2, WithoutKeyContents
      <3> QED  BY <1>2, <3>3 DEF Stored2
    <2>4. Stored1' = Stored1 /\ Stored' = Stored \ {k}
      BY <1>2, <2>1, <2>3 DEF Stored1, Stored
    <2>5. \A c \in Bucket2 : /\ layer2'[c] \subseteq layer2[c]
                             /\ Cardinality(layer2'[c]) <= Cardinality(layer2[c])
      <3>1. \A c \in Bucket2 : layer2'[c] \subseteq layer2[c]
        BY <1>2 DEF TypeOK, WithoutKey
      <3> QED  BY <3>1, StoredFinite, FS_Subset
    <2>6. TypeOK'
      BY <1>2, <2>3 DEF TypeOK, Del
    <2>7. EveryKeyFound'
      BY <1>2, <2>5 DEF EveryKeyFound, Pos1, Pos2
    <2>8. NoSecondCopy'
      BY <2>3, <2>4 DEF NoSecondCopy, Del
    <2>9. NumIsSize'
      BY <2>1, <2>4, StoredFinite, CardinalityRemove DEF NumIsSize, Del
    <2>10. BucketsBounded'
      <3>1. \A c \in Bucket2 : Cardinality(layer2'[c]) \in Nat
        BY <2>6, StoredFinite, <2>3, KeysAssumption, FS_Subset, FS_CardinalityType
      <3> QED  BY <1>2, <2>5, <3>1, StoredFinite, ShapeAssumption DEF BucketsBounded
    <2>11. VictimBucketFull' /\ ItemKept'
      BY DEF VictimBucketFull, ItemKept, Del
    <2> QED  BY <2>1, <2>4, <2>6, <2>7, <2>8, <2>9, <2>10, <2>11
  <1> QED  BY <1>1, <1>2 DEF Del

(* Every step preserves the invariant.                                     *)
LEMMA NextIInv == IInv /\ [Next]_vars => IInv'
  <1> SUFFICES ASSUME IInv, [Next]_vars PROVE IInv'
    OBVIOUS
  <1>1. ASSUME NEW k \in Keys, InsertPlaced(k) PROVE IInv'
    BY <1>1, InsertPlacedStep
  <1>2. ASSUME NEW k \in Keys, InsertCrowded(k) PROVE IInv'
    BY <1>2, InsertCrowdedStep
  <1>3. ASSUME NEW k \in Keys, Del(k) PROVE IInv'
    BY <1>3, DelStep
  <1>4. CASE KickFrom1
    BY <1>4, KickFrom1Step
  <1>5. CASE KickFrom2
    BY <1>5, KickFrom2Step
  <1>6. CASE GiveUp
    BY <1>6, GiveUpStep
  <1>7. CASE UNCHANGED vars
    BY <1>7
    DEF vars, IInv, TypeOK, EveryKeyFound, NoSecondCopy, NumIsSize, VictimBucketFull,
        BucketsBounded, ItemKept, Pos1, Pos2, Stored, Stored1, Stored2
  <1> QED  BY <1>1, <1>2, <1>3, <1>4, <1>5, <1>6, <1>7 DEF Next, KickLoop

LEMMA InvariantHolds == Spec => []IInv
  BY InitIInv, NextIInv, PTL DEF Spec

-----------------------------------------------------------------------------
(* The variables keep their types: in particular the key in hand and the   *)
(* key of the running insertion are keys exactly while the loop runs.      *)
THEOREM TypeCorrect == Spec => []TypeOK
  BY InvariantHolds, PTL DEF IInv

(* Query, which looks at two buckets, finds every key that is anywhere in  *)
(* the table: no sequence of kicks (Cuckoo.h:282-322) misplaces a key.     *)
THEOREM QueriesComplete == Spec => []EveryKeyFound
  BY InvariantHolds, PTL DEF IInv

(* No key is stored twice, whatever is inserted, kicked and deleted, so    *)
(* the single removal of del (Cuckoo.h:340-351) removes the key.           *)
THEOREM NeverDuplicated == Spec => []NoSecondCopy
  BY InvariantHolds, PTL DEF IInv

(* num counts the stored keys exactly: the load thresholds of bSlot and    *)
(* mergehash1, which read num only, act on the true load.                  *)
THEOREM NumExact == Spec => []NumIsSize
  BY InvariantHolds, PTL DEF IInv

(* The kick loop takes its victims from full buckets only, so the slot a   *)
(* rand() picks is never empty and key 0 is never kicked into a layer.     *)
THEOREM VictimsAreKeys == Spec => []VictimBucketFull
  BY InvariantHolds, PTL DEF IInv

-----------------------------------------------------------------------------
(* Refinement: the steps of the table map to steps of KeyTable.            *)

(* The abstract contents: the table as it was before the running insert.   *)
Held == IF pc = "kick" THEN (Stored \cup {ins}) \ {item} ELSE Stored

LEMMA InitMaps == Init => KT!Init
  BY DEF Init, KT!Init, Stored, Stored1, Stored2, Contents

LEMMA StepMaps ==
  ASSUME IInv, [Next]_vars
  PROVE  [KT!Next]_(KT!tableVars)
  <1> USE DEF KT!tableVars
  <1>1. ASSUME NEW k \in Keys, InsertPlaced(k)
        PROVE  KT!Insert(k)
    <2>1. k \notin Stored /\ Stored' = Stored \cup {k}
      BY <1>1, InsertPlacedStep
    <2>2. pc = "idle" /\ pc' = "idle" /\ num' = num + 1 /\ mykick' = mykick
      BY <1>1 DEF InsertPlaced
    <2> QED  BY <2>1, <2>2 DEF KT!Insert
  <1>2. ASSUME NEW k \in Keys, InsertCrowded(k)
        PROVE  UNCHANGED KT!tableVars
    <2>1. k \notin Stored /\ Stored' = Stored
      BY <1>2, InsertCrowdedStep
    <2>2. /\ pc = "idle" /\ pc' = "kick" /\ item' = k /\ ins' = k
          /\ num' = num /\ mykick' = mykick
      BY <1>2 DEF InsertCrowded
    <2> QED  BY <2>1, <2>2
  <1>3. ASSUME NEW k \in Keys, Del(k)
        PROVE  KT!Del(k)
    <2>1. k \in Stored /\ Stored' = Stored \ {k}
      BY <1>3, DelStep
    <2>2. pc = "idle" /\ pc' = "idle" /\ num' = num - 1 /\ mykick' = mykick
      BY <1>3 DEF Del
    <2> QED  BY <2>1, <2>2 DEF KT!Del
  <1>4. ASSUME KickFrom1 \/ KickFrom2
        PROVE  KT!Insert(item) \/ UNCHANGED KT!tableVars
    <2>1. /\ pc = "kick" /\ item \in Stored \cup {ins} /\ mykick' = mykick
          /\ \/ pc' = "idle" /\ Stored' = Stored \cup {ins} /\ num' = num + 1
             \/ /\ pc' = "kick" /\ item' = item /\ num' = num
                /\ Stored' \cup {ins'} = Stored \cup {ins}
      BY <1>4, KickFrom1Step, KickFrom2Step DEF KickFrom1, KickFrom2, IInv, ItemKept
    <2>2. CASE pc' = "idle" /\ Stored' = Stored \cup {ins} /\ num' = num + 1
      BY <2>1, <2>2 DEF KT!Insert
    <2>3. CASE pc' = "kick" /\ item' = item /\ num' = num
               /\ Stored' \cup {ins'} = Stored \cup {ins}
      BY <2>1, <2>3
    <2> QED  BY <2>1, <2>2, <2>3
  <1>5. ASSUME GiveUp
        PROVE  KT!InsertFails(item)
    <2>1. /\ pc = "kick" /\ item \in Stored \cup {ins} /\ num >= 2 * Bup
          /\ ins \in Keys /\ ins \notin Stored
      BY <1>5 DEF GiveUp, IInv, ItemKept, TypeOK, NoSecondCopy
    <2>2. pc' = "idle" /\ Stored' = Stored /\ num' = num /\ mykick' = ins
      BY <1>5, GiveUpStep
    <2>3. /\ ins \in Held \cup {item} /\ item \notin Held
          /\ Held' = (Held \cup {item}) \ {ins}
      BY <2>1, <2>2 DEF Held
    <2>4. \E victim \in Held \cup {item} :
             Held' = (Held \cup {item}) \ {victim} /\ mykick' = victim
      BY <2>2, <2>3
    <2> QED  BY <2>1, <2>2, <2>3, <2>4 DEF KT!InsertFails, Held
  <1>6. ASSUME UNCHANGED vars
        PROVE  UNCHANGED KT!tableVars
    BY <1>6 DEF vars, Stored, Stored1, Stored2, Contents
  <1>7. item \in Keys \/ pc = "idle"
    BY DEF IInv, TypeOK
  <1> QED
    BY <1>1, <1>2, <1>3, <1>4, <1>5, <1>6, <1>7
    DEF Next, KickLoop, KT!Next, KickFrom1, KickFrom2, GiveUp

(* The two-layer table with its kick loop implements the table its owners  *)
(* rely on: an insertion stores its key or hands back exactly one key in   *)
(* mykick, loses none, and fails only when 2 * Bup keys are stored.        *)
THEOREM Refinement == Spec => ImplementsKeyTable
  <1>1. Init => KT!Init
    BY InitMaps
  <1>2. IInv /\ [Next]_vars => [KT!Next]_(KT!tableVars)
    BY StepMaps
  <1> QED  BY <1>1, <1>2, InvariantHolds, PTL DEF Spec, ImplementsKeyTable, KT!Spec

=============================================================================
