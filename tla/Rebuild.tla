------------------------------ MODULE Rebuild ------------------------------
(***************************************************************************)
(* The bulk moves of the cuckoo tables, bucket by bucket: merge (of three  *)
(* tables and of two), compress, and mergehash1::expand.  They do not hash *)
(* every key again: a doubled bucket is copied to both its halves and then *)
(* thinned out, a halved one is poured onto its lower half by its number,  *)
(* and what does not fit waits in the queue mq for Cuckoo::insert, whose   *)
(* kick loop is the one of module Cuckoo.                                  *)
(*                                                                         *)
(* TableOps gives the owners of the tables a much coarser picture (Pour);  *)
(* the properties below say that this picture is the right one.            *)
(***************************************************************************)
EXTENDS Integers, FiniteSets

CONSTANTS Keys, NoKey, Bup, KickTimes, Hash1, Hash2,
          Len1, Len2,   \* The lengths of the first table; both even.
          MinC2         \* compress is called when len2 >= MinC2.

ASSUME KeysAssumption == IsFiniteSet(Keys) /\ NoKey \notin Keys
ASSUME ShapeAssumption ==
  /\ {Bup, Len1, Len2} \subseteq Nat \ {0} /\ {KickTimes, MinC2} \subseteq Nat
  /\ Len1 % 2 = 0 /\ Len2 % 2 = 0
ASSUME HashAssumption == Hash1 \in [Keys -> Nat] /\ Hash2 \in [Keys -> Nat]

VARIABLES op,           \* Which of the moves is made.
          place,        \* Where each key was: <<table, layer>>, or Nowhere.
          stage,        \* The loop the move is at.
          mq,           \* The keys that found their bucket full.
          asum,         \* The count compress keeps by itself.
          denied        \* What the move handed to the denylist.

\* The new table c, as in Cuckoo.
VARIABLES layer1, layer2, num, mykick, pc, item, ins, times, flag

tableVars == <<layer1, layer2, num, mykick, pc, item, ins, times, flag>>
vars == <<op, place, stage, mq, asum, denied, tableVars>>

Twice == INSTANCE Cuckoo WITH Len1 <- 2 * Len1, Len2 <- 2 * Len2
Half == INSTANCE Cuckoo WITH Len1 <- Len1 \div 2, Len2 <- Len2 \div 2
Ops == INSTANCE TableOps WITH NoTable <- NoKey

Nowhere == <<>>
Operations == {"merge3", "merge2", "compress", "expand"}

-----------------------------------------------------------------------------
\* The lengths of the three tables: c1 and c2 are half of c0 in merge3, and the
\* second table of merge2 is as long as the first.
LenOf(l, table) == IF table = 0 \/ op = "merge2" THEN l ELSE l \div 2

\* The keys of a table, and the buckets of a layer of it.
KeysIn(table) == {k \in Keys : place[k] \in {<<table, 1>>, <<table, 2>>}}
KeysAt(table, layer) == {k \in Keys : place[k] = <<table, layer>>}

Old1(table) == [b \in 0 .. LenOf(Len1, table) - 1 |->
                  {k \in KeysAt(table, 1) : Hash1[k] % LenOf(Len1, table) = b}]
Old2(table) == [b \in 0 .. LenOf(Len2, table) - 1 |->
                  {k \in KeysAt(table, 2) : Hash2[k] % LenOf(Len2, table) = b}]

AsTable(table) == [len1 |-> LenOf(Len1, table), len2 |-> LenOf(Len2, table),
                   keys |-> KeysIn(table), num |-> Cardinality(KeysIn(table))]

TablesOf(o) == CASE o = "merge3" -> 0 .. 2 [] o = "merge2" -> 0 .. 1 [] OTHER -> {0}

\* Tables with no bucket overfull; compress is called on sparse ones only.
Init ==
  /\ op \in Operations
  /\ place \in [Keys -> {Nowhere} \cup (TablesOf(op) \X {1, 2})]
  /\ \A t \in TablesOf(op) :
       /\ \A b \in DOMAIN Old1(t) : Cardinality(Old1(t)[b]) <= Bup
       /\ \A b \in DOMAIN Old2(t) : Cardinality(Old2(t)[b]) <= Bup
  /\ op = "compress" => Len2 >= MinC2 /\ 20 * Cardinality(KeysIn(0)) < 7 * Ops!Cap(AsTable(0))
  /\ stage = "layer1" /\ mq = {} /\ denied = {}
  /\ layer1 = <<>> /\ layer2 = <<>>
  /\ num = IF op = "compress" THEN 0 ELSE Cardinality(KeysIn(0))
  /\ asum = Cardinality(KeysIn(0))
  /\ mykick = NoKey /\ pc = "idle" /\ item = NoKey /\ ins = NoKey
  /\ times = 0 /\ flag = TRUE

-----------------------------------------------------------------------------
\* Mutant: a copy is thinned out in its lower half only.
DoubledUnthinned(old, l, h) ==
  [b \in 0 .. 2 * l - 1 |->
     IF b < l THEN {k \in old[b] : h[k] % (2 * l) = b} ELSE old[b - l]]

\* Both copies of a bucket, each key kept in the lower one if it hashes there
\* and in the upper one if not.
Doubled(old, l, h) ==
  LET low(b) == {k \in old[b] : h[k] % (2 * l) = b}
  IN  [b \in 0 .. 2 * l - 1 |-> IF b < l THEN low(b) ELSE old[b - l] \ low(b - l)]

\* Putting the keys of M into the buckets of to, in any order of the slots: the
\* layer and the keys that met a full bucket.
Filled(layer, M, to) ==
  LET meant(b) == {k \in M : to[k] = b}
      room(b) == Bup - Cardinality(layer[b])
      over(b) == IF Cardinality(meant(b)) > room(b) THEN Cardinality(meant(b)) - room(b) ELSE 0
  IN  {<<[b \in DOMAIN layer |-> layer[b] \cup (meant(b) \ R)], R>> :
         R \in {S \in SUBSET M : \A b \in DOMAIN layer : Cardinality(S \cap meant(b)) = over(b)}}

\* The outcomes of the loops over one layer of the new table: doubling takes c1
\* bucket by bucket and then c2, halving takes the upper buckets of c1.
Moved(old, l, layer, h) ==
  LET to == [k \in Keys |-> h[k] % (2 * l)]
      start == Doubled(old, l, h)
      upper == UNION {old[b] : b \in l \div 2 .. l - 1}
  IN  CASE op = "expand" -> {<<start, {}>>}
        [] op = "merge2" -> Filled(start, KeysAt(1, layer), to)
        [] op = "merge3" ->
             UNION {{<<s[1], r[2] \cup s[2]>> : s \in Filled(r[1], KeysAt(2, layer), to)} :
                       r \in Filled(start, KeysAt(1, layer), to)}
        [] op = "compress" ->
             Filled([b \in 0 .. l \div 2 - 1 |-> old[b]], upper,
                    [k \in upper |-> (CHOOSE b \in l \div 2 .. l - 1 : k \in old[b]) - l \div 2])

\* Doubling counts the keys as it places them; halving leaves num for the end.
Counted(layer, mqNew) ==
  IF op = "compress" THEN num
  ELSE num + Cardinality(KeysAt(1, layer) \cup KeysAt(2, layer)) - Cardinality(mqNew)

MoveLayer1 ==
  /\ stage = "layer1"
  /\ \E r \in Moved(Old1(0), Len1, 1, Hash1) :
       layer1' = r[1] /\ mq' = r[2] /\ num' = Counted(1, r[2])
  /\ stage' = "layer2"
  /\ UNCHANGED <<op, place, asum, denied, layer2, mykick, pc, item, ins, times, flag>>

MoveLayer2 ==
  /\ stage = "layer2"
  /\ \E r \in Moved(Old2(0), Len2, 2, Hash2) :
       layer2' = r[1] /\ mq' = mq \cup r[2] /\ num' = Counted(2, r[2])
  /\ stage' = "pour"
  /\ UNCHANGED <<op, place, asum, denied, layer1, mykick, pc, item, ins, times, flag>>

\* The loop over mq: c->insert(mq.front()), with its kicks. The keys are taken in
\* any order, which covers every order of the slots they came from.
PourNext ==
  /\ stage = "pour" /\ pc = "idle"
  /\ \E k \in mq :
       /\ mq' = mq \ {k}
       /\ \/ op # "compress" /\ (Twice!InsertPlaced(k) \/ Twice!InsertCrowded(k))
          \/ op = "compress" /\ (Half!InsertPlaced(k) \/ Half!InsertCrowded(k))
  /\ UNCHANGED <<op, place, stage, asum, denied>>

PourKicks ==
  /\ stage = "pour"
  /\ \/ op # "compress" /\ (Twice!KickFrom1 \/ Twice!KickFrom2)
     \/ op = "compress" /\ (Half!KickFrom1 \/ Half!KickFrom2)
  /\ UNCHANGED <<op, place, stage, mq, asum, denied>>

\* Mutant: the key that was being inserted is put on the denylist.
PourDeniesItem ==
  /\ stage = "pour"
  /\ Twice!GiveUp
  /\ denied' = denied \cup {item}
  /\ asum' = asum - 1
  /\ UNCHANGED <<op, place, stage, mq>>

\* A failed insertion: what it left in mykick goes to the denylist. (GiveUp does
\* not depend on the lengths.)
PourDenies ==
  /\ stage = "pour"
  /\ Twice!GiveUp
  /\ denied' = denied \cup {mykick'}
  /\ asum' = asum - 1
  /\ UNCHANGED <<op, place, stage, mq>>

PourEnds ==
  /\ stage = "pour" /\ pc = "idle" /\ mq = {}
  /\ stage' = "done"
  /\ num' = IF op = "compress" THEN asum ELSE num
  /\ UNCHANGED <<op, place, mq, asum, denied,
                 layer1, layer2, mykick, pc, item, ins, times, flag>>

Next == MoveLayer1 \/ MoveLayer2 \/ PourNext \/ PourKicks \/ PourDenies \/ PourEnds

Spec == Init /\ [][Next]_vars

-----------------------------------------------------------------------------
NewLen(l) == IF op = "compress" THEN l \div 2 ELSE 2 * l

Moving == UNION {KeysIn(t) : t \in TablesOf(op)}

\* After a merge, an expansion or a compression every key that was in one of
\* the tables is in exactly one bucket of the new one, a bucket its hash selects
\* (so that query finds it), or on the denylist; nothing else is.
KeysPlaced ==
  stage = "done" =>
    LET at(k) == {<<1, b>> : b \in {b \in DOMAIN layer1 : k \in layer1[b]}}
                 \cup {<<2, b>> : b \in {b \in DOMAIN layer2 : k \in layer2[b]}}
        found(k) == {<<1, Hash1[k] % NewLen(Len1)>>, <<2, Hash2[k] % NewLen(Len2)>>}
    IN  \A k \in Keys :
          IF k \in Moving \ denied
          THEN Cardinality(at(k)) = 1 /\ at(k) \subseteq found(k)
          ELSE at(k) = {} /\ (k \in denied => k \in Moving)

\* The keys, the count and the denylist are an outcome the owner reckons with:
\* Pour for a merge, the halved table of CompressTable for a compression, with
\* num the number of keys left; an expansion keeps every key.
OutcomeIsPour ==
  stage = "done" =>
    LET c == [len1 |-> NewLen(Len1), len2 |-> NewLen(Len2), num |-> num,
              keys |-> (UNION {layer1[b] : b \in DOMAIN layer1})
                       \cup (UNION {layer2[b] : b \in DOMAIN layer2})]
    IN  /\ num = Cardinality(c.keys)
        /\ <<c, denied>> \in
             CASE op = "merge3" -> Ops!MergeTables(AsTable(0), AsTable(1), AsTable(2))
               [] op = "merge2" -> Ops!Pour(Ops!TwiceOf(AsTable(0)), KeysIn(1))
               [] op = "compress" -> Ops!CompressTable(AsTable(0))
               [] op = "expand" -> {<<Ops!TwiceOf(AsTable(0)), {}>>}
=============================================================================
