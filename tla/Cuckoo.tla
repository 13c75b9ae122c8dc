------------------------------- MODULE Cuckoo -------------------------------
(***************************************************************************)
(* One S-CHT: class Cuckoo of CuckooGraph/Cuckoo.h.  Two layers of         *)
(* buckets, each bucket an array of Bup keys searched as a whole, so a     *)
(* bucket is the set of its nonzero keys.  A key lives in one bucket of    *)
(* each layer, given by the layer's hash modulo its length.  insert tries  *)
(* both buckets and then runs the kick loop, one action per iteration:     *)
(* the program's only nondeterminism is rand(), which picks the slot of a  *)
(* full bucket whose key is kicked out.                                    *)
(*                                                                         *)
(* insert is called for keys that are not in the table: every caller       *)
(* queries first (CuckooGraph/main.cpp:828) or moves keys out of tables,   *)
(* inline slots and denylists that are disjoint from the target.           *)
(***************************************************************************)
EXTENDS Integers, FiniteSets

CONSTANTS
    Keys,         \* vertex identifiers (nonzero: 0 marks an empty slot)
    NoKey,        \* the initial value of mykick
    Bup,          \* slots of a bucket (bup)
    Len1, Len2,   \* buckets of the two layers
    KickTimes,    \* iterations of the kick loop (kicktimes)
    Hash1, Hash2  \* mmhash(., seed1) and mmhash(., seed2)

ASSUME KeysAssumption == IsFiniteSet(Keys) /\ NoKey \notin Keys
ASSUME ShapeAssumption ==
    /\ Bup \in Nat \ {0}
    /\ Len1 \in Nat \ {0}
    /\ Len2 \in Nat \ {0}
    /\ KickTimes \in Nat
ASSUME HashAssumption == Hash1 \in [Keys -> Nat] /\ Hash2 \in [Keys -> Nat]

VARIABLES
    layer1, layer2,  \* bucket number -> keys of the bucket
    num,             \* keys counted in the table
    mykick,          \* global: the key a failed insert could not place
    pc,              \* "idle", or "kick" inside the loop of insert
    item,            \* the argument of the insert that is running
    ins,             \* the key in hand: not in any bucket while kicking
    times,           \* iterations left
    flag             \* TRUE: the next victim is taken from layer1

vars == <<layer1, layer2, num, mykick, pc, item, ins, times, flag>>

-----------------------------------------------------------------------------
Bucket1 == 0 .. Len1 - 1
Bucket2 == 0 .. Len2 - 1

Pos1(k) == Hash1[k] % Len1
Pos2(k) == Hash2[k] % Len2

(* Mutant: the last slot of a bucket is never used.                        *)
LastSlotUnused(layer, b, k) ==
    IF k \in layer[b] THEN -1
    ELSE IF Cardinality(layer[b]) < Bup - 1 THEN 1 ELSE 0

(* Layer::insert on the bucket b of a layer: -1 when the bucket holds the  *)
(* key already, 1 when a free slot took it, 0 when the bucket is full.     *)
LayerInsertResult(layer, b, k) ==
    IF k \in layer[b] THEN -1
    ELSE IF Cardinality(layer[b]) < Bup THEN 1 ELSE 0

(* Mutant: the neighbouring bucket is written.                             *)
WithKeyNextDoor(layer, b, k) ==
    [layer EXCEPT ![(b + 1) % Cardinality(DOMAIN layer)] = @ \cup {k}]

WithKey(layer, b, k) == [layer EXCEPT ![b] = @ \cup {k}]

WithoutKey(layer, b, k) == [layer EXCEPT ![b] = @ \ {k}]

(* Mutant: the victim stays where it was.                                  *)
VictimStays(layer, b, victim, k) == [layer EXCEPT ![b] = @ \cup {k}]

(* Overwriting the slot of a victim with the key in hand.                  *)
Replaced(layer, b, victim, k) ==
    [layer EXCEPT ![b] = (@ \ {victim}) \cup {k}]

InBucket(layer, b, k) == k \in layer[b]

(* query looks at the two buckets of the key and nowhere else.             *)
Query(k) == InBucket(layer1, Pos1(k), k) \/ InBucket(layer2, Pos2(k), k)

(* Everything that lies in some bucket, findable or not.                   *)
Contents(layer) == UNION {layer[b] : b \in DOMAIN layer}

Stored1 == Contents(layer1)
Stored2 == Contents(layer2)
Stored  == Stored1 \cup Stored2

-----------------------------------------------------------------------------
Init ==
    /\ layer1 = [b \in Bucket1 |-> {}]
    /\ layer2 = [b \in Bucket2 |-> {}]
    /\ num = 0
    /\ mykick = NoKey
    /\ pc = "idle"
    /\ item = NoKey
    /\ ins = NoKey
    /\ times = 0
    /\ flag = TRUE

(* insert when one of the key's two buckets has room.                      *)
InsertPlaced(k) ==
    /\ pc = "idle"
    /\ ~ Query(k)
    /\ \/ /\ LayerInsertResult(layer1, Pos1(k), k) = 1
          /\ layer1' = WithKey(layer1, Pos1(k), k)
          /\ UNCHANGED layer2
       \/ /\ LayerInsertResult(layer1, Pos1(k), k) = 0
          /\ LayerInsertResult(layer2, Pos2(k), k) = 1
          /\ layer2' = WithKey(layer2, Pos2(k), k)
          /\ UNCHANGED layer1
    /\ num' = num + 1
    /\ UNCHANGED <<mykick, pc, item, ins, times, flag>>

(* insert when both buckets are full: the kick loop is entered.            *)
InsertCrowded(k) ==
    /\ pc = "idle"
    /\ ~ Query(k)
    /\ LayerInsertResult(layer1, Pos1(k), k) = 0
    /\ LayerInsertResult(layer2, Pos2(k), k) = 0
    /\ pc' = "kick"
    /\ item' = k
    /\ ins' = k
    /\ times' = KickTimes
    /\ flag' = TRUE
    /\ UNCHANGED <<layer1, layer2, num, mykick>>

(* Mutant: a key placed by the loop is not counted.                        *)
KickUncounted(result) ==
    /\ pc' = "idle" /\ item' = NoKey /\ ins' = NoKey
    /\ times' = 0 /\ flag' = TRUE
    /\ UNCHANGED num

(* The victim found room in the other layer (or was there): insert returns.*)
KickSettled(result) ==
    /\ num' = IF result = 1 THEN num + 1 ELSE num
    /\ pc' = "idle"
    /\ item' = NoKey
    /\ ins' = NoKey
    /\ times' = 0
    /\ flag' = TRUE

(* Mutants: the loop does not count its iterations; it counts one too many *)
(* down.                                                                   *)
KickForever(victim) ==
    ins' = victim /\ flag' = ~ flag /\ UNCHANGED <<times, num, pc, item>>
KickCountsTwice(victim) ==
    ins' = victim /\ times' = times - 2 /\ flag' = ~ flag /\ UNCHANGED <<num, pc, item>>

(* The victim's bucket in the other layer is full: it is in hand now.      *)
KickContinues(victim) ==
    /\ ins' = victim
    /\ times' = times - 1
    /\ flag' = ~ flag
    /\ UNCHANGED <<num, pc, item>>

(* An iteration with flag: the key in hand takes a slot of its bucket in   *)
(* layer1, the victim goes to layer2.                                      *)
KickFrom1 ==
    /\ pc = "kick" /\ times > 0 /\ flag
    /\ \E victim \in layer1[Pos1(ins)] :
          LET f == LayerInsertResult(layer2, Pos2(victim), victim) IN
          /\ layer1' = Replaced(layer1, Pos1(ins), victim, ins)
          /\ IF f = 1
             THEN layer2' = WithKey(layer2, Pos2(victim), victim)
             ELSE UNCHANGED layer2
          /\ IF f # 0 THEN KickSettled(f) ELSE KickContinues(victim)
    /\ UNCHANGED mykick

(* An iteration without flag: the same with the layers exchanged.          *)
KickFrom2 ==
    /\ pc = "kick" /\ times > 0 /\ ~ flag
    /\ \E victim \in layer2[Pos2(ins)] :
          LET f == LayerInsertResult(layer1, Pos1(victim), victim) IN
          /\ layer2' = Replaced(layer2, Pos2(ins), victim, ins)
          /\ IF f = 1
             THEN layer1' = WithKey(layer1, Pos1(victim), victim)
             ELSE UNCHANGED layer1
          /\ IF f # 0 THEN KickSettled(f) ELSE KickContinues(victim)
    /\ UNCHANGED mykick

(* Mutant: the key insert was called with is reported, not the one in hand.*)
GiveUpOnItem ==
    /\ pc = "kick" /\ times = 0
    /\ mykick' = item
    /\ pc' = "idle" /\ item' = NoKey /\ ins' = NoKey /\ flag' = TRUE
    /\ UNCHANGED <<layer1, layer2, num, times>>

(* The loop is exhausted: insert leaves the key in hand in mykick and      *)
(* returns false.  num is not touched: one key came in and one went out.   *)
GiveUp ==
    /\ pc = "kick" /\ times = 0
    /\ mykick' = ins
    /\ pc' = "idle"
    /\ item' = NoKey
    /\ ins' = NoKey
    /\ flag' = TRUE
    /\ UNCHANGED <<layer1, layer2, num, times>>

(* del tries layer1 and, only when the key is not there, layer2.           *)
Del(k) ==
    /\ pc = "idle"
    /\ \/ /\ k \in layer1[Pos1(k)]
          /\ layer1' = WithoutKey(layer1, Pos1(k), k)
          /\ UNCHANGED layer2
       \/ /\ k \notin layer1[Pos1(k)]
          /\ k \in layer2[Pos2(k)]
          /\ layer2' = WithoutKey(layer2, Pos2(k), k)
          /\ UNCHANGED layer1
    /\ num' = num - 1
    /\ UNCHANGED <<mykick, pc, item, ins, times, flag>>

KickLoop == KickFrom1 \/ KickFrom2 \/ GiveUp

Next ==
    \/ \E k \in Keys : InsertPlaced(k) \/ InsertCrowded(k) \/ Del(k)
    \/ KickLoop

(* The loop runs on the calling thread: it is never abandoned half way.    *)
Spec == Init /\ [][Next]_vars /\ WF_vars(KickLoop)

-----------------------------------------------------------------------------
TypeOK ==
    /\ layer1 \in [Bucket1 -> SUBSET Keys]
    /\ layer2 \in [Bucket2 -> SUBSET Keys]
    /\ num \in Int
    /\ mykick \in Keys \cup {NoKey}
    /\ pc \in {"idle", "kick"}
    /\ item \in Keys \cup {NoKey}
    /\ ins \in Keys \cup {NoKey}
    /\ times \in 0 .. KickTimes
    /\ flag \in BOOLEAN
    /\ (pc = "kick") => item \in Keys /\ ins \in Keys
    /\ (pc = "idle") => item = NoKey /\ ins = NoKey

(* Kicking a key from layer to layer never leaves it in a bucket that      *)
(* query, which hashes again, does not look at.                            *)
EveryKeyFound ==
    /\ \A b \in Bucket1 : \A k \in layer1[b] : Pos1(k) = b
    /\ \A b \in Bucket2 : \A k \in layer2[b] : Pos2(k) = b

(* No key is in both layers, and the key in hand is in neither: a second   *)
(* copy would survive del, which removes one.                              *)
NoSecondCopy ==
    /\ Stored1 \cap Stored2 = {}
    /\ ins \notin Stored

(* num is the number of keys in the table whenever insert and del return.  *)
(* In the loop the key in hand stands for the one not yet counted.  The    *)
(* owner expands, shrinks and deletes the table by num alone.              *)
NumIsSize ==
    num = Cardinality(Stored)

(* The loop can only run where a full bucket was met in both layers, and   *)
(* the bucket it is about to take a victim from is full, so that no        *)
(* iteration kicks out an empty slot (key 0).                              *)
VictimBucketFull ==
    pc = "kick" =>
        /\ flag => Cardinality(layer1[Pos1(ins)]) = Bup
        /\ ~ flag => Cardinality(layer2[Pos2(ins)]) = Bup

BucketsBounded ==
    /\ \A b \in Bucket1 : Cardinality(layer1[b]) <= Bup
    /\ \A b \in Bucket2 : Cardinality(layer2[b]) <= Bup

(* insert always returns: the kick loop ends, by success or by giving up.  *)
InsertReturns == (pc = "kick") ~> (pc = "idle")

-----------------------------------------------------------------------------
(* While insert runs its key has not arrived for the caller yet: the       *)
(* contents are those before the call.                                     *)
KT == INSTANCE KeyTable WITH
    stored <- IF pc = "kick" THEN (Stored \cup {ins}) \ {item} ELSE Stored,
    Crowd  <- 2 * Bup

(* The buckets, layers and kicks implement the table its owners rely on.   *)
ImplementsKeyTable == KT!Spec
=============================================================================
