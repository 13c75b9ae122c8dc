-------------------------- MODULE HoleMergeProofs --------------------------
(***************************************************************************)
(* Proofs about HoleMerge for every finite set of sources and every value  *)
(* of the sizes and thresholds.                                            *)
(***************************************************************************)
EXTENDS HoleMerge, ChainProofs

(* What holds whatever was mislaid.                                        *)
Kind ==
    /\ WellShaped(link, L1, L2, Sources)
    /\ {blacklist, holds, present, uncounted, doubled} \subseteq SUBSET Sources
    /\ phase \in {"idle", "post"}

(* Every bSlot is in one place and counted there.                          *)
InOnePlace == Split(link, blacklist, Placed, Sources)

(* The inductive invariant.                                                *)
IInv == Kind /\ (NothingMislaid => InOnePlace)

-----------------------------------------------------------------------------

(* The null pointer is no table of bSlots.                                 *)
LEMMA NullSources == Nullable(Sources)
  BY SourcesFinite, NullAssumption DEF Nullable, Loose

(* The lengths of the first L-CHT are positive and even, and compress      *)
(* stops above them.                                                       *)
LEMMA Sizes ==
  /\ L1 \in Nat \ {0} /\ L2 \in Nat \ {0} /\ L1 % 2 = 0 /\ L2 % 2 = 0
  /\ MinC2 \in Nat /\ MinC2 > L2
  BY ShapeAssumption

(* The pointer that is not null says how many there are.                   *)
LEMMA TablesCount ==
  ASSUME NEW S \in {{}, {0}, {0, 1}, I}
  PROVE  /\ Cardinality(S) = 0 <=> S = {}
         /\ Cardinality(S) = 1 <=> S = {0}
         /\ Cardinality(S) = 2 <=> S = {0, 1}
         /\ Cardinality(S) = 3 <=> S = I
  <1>1. Cardinality({}) = 0
    BY FS_EmptySet
  <1>2. Cardinality({0}) = 1
    BY FS_Singleton
  <1>3. Cardinality({0, 1}) = 2
    <2>1. IsFiniteSet({0}) /\ Cardinality({0}) = 1
      BY FS_Singleton
    <2>2. Cardinality({0} \cup {1}) = 2
      BY <2>1, FS_AddElement
    <2>3. {0, 1} = {0} \cup {1}
      OBVIOUS
    <2> QED  BY <2>2, <2>3
  <1>4. Cardinality(I) = 3
    <2>1. 0 \in Int /\ 2 \in Int /\ 2 - 0 + 1 = 3 /\ ~ 0 > 2
      OBVIOUS
    <2>2. Cardinality(0 .. 2) = 2 - 0 + 1
      BY <2>1, FS_Interval
    <2> QED  BY <2>1, <2>2 DEF I
  <1>5. 1 \notin {0} /\ {0} # {0, 1} /\ 2 \in I /\ 2 \notin {0} /\ 2 \notin {0, 1} /\ 0 \in I
    BY DEF I
  <1>6. CASE S = {}
    BY <1>1, <1>5, <1>6
  <1>7. CASE S = {0}
    BY <1>2, <1>5, <1>7
  <1>8. CASE S = {0, 1}
    BY <1>3, <1>5, <1>8
  <1>9. CASE S = I
    BY <1>4, <1>5, <1>9
  <1> QED  BY <1>6, <1>7, <1>8, <1>9

(* How many tables the chain has tells which pointers are live.            *)
LEMMA TablesAre ==
  ASSUME NEW s, WellShaped(s, L1, L2, Sources), Live(s) = Live(link)
  PROVE  /\ Tables = 0 <=> Live(s) = {}
         /\ Tables = 1 <=> Live(s) = {0}
         /\ Tables = 2 <=> Live(s) = {0, 1}
         /\ Tables = 3 <=> Live(s) = I
  BY TablesCount DEF WellShaped, Shaped, Tables

-----------------------------------------------------------------------------
(* Insertion.                                                              *)

(* The insertion of a source that has no bSlot.                            *)
Placing(s) == InsertFirst(s) \/ InsertRoomy(s) \/ InsertExpands(s) \/ InsertMerges(s)

(* The first table, with its source.                                       *)
First(s) == Holding(NewTable(L1, L2), {s}, 1)

(* The first table an insertion creates holds the source and nothing else. *)
LEMMA FirstIs ==
  ASSUME NEW s \in Sources
  PROVE  /\ First(s) \in Loose(Sources) /\ LengthsOf(First(s)) \in Lengths(L1, L2)
         /\ Exact(First(s), Sources) /\ First(s).keys = {s}
  <1>1. Cardinality({s}) = 1
    BY FS_Singleton
  <1>2. L1 \in Nat /\ L2 \in Nat /\ <<L1, L2>> \in Lengths(L1, L2)
    BY Sizes, FirstLength
  <1> QED  BY <1>1, <1>2 DEF First, Loose, Exact, Records, Holding, NewTable, LengthsOf

(* An expansion, its new table named.                                      *)
LEMMA ExpandsInto ==
  ASSUME Kind, NEW s \in Sources, InsertExpands(s)
  PROVE  /\ s \notin Placed /\ Tables \in {1, 2} /\ Tables \notin Live(link)
         /\ Live(link) = 0 .. Tables - 1
         /\ Live(link) = {0} \/ Live(link) = {0, 1}
         /\ \E p \in Pour(NewOf(link), blacklist \cup {s}) :
               link' = [link EXCEPT ![Tables] = p[1]] /\ blacklist' = p[2]
  <1>1. s \notin Placed /\ Tables \in {1, 2}
    BY DEF InsertExpands, MustExpand
  <1>2. /\ Tables = 1 <=> Live(link) = {0}
        /\ Tables = 2 <=> Live(link) = {0, 1}
    BY TablesAre DEF Kind
  <1>3. NewOf(link) = IF Tables = 1 THEN HalfOf(link[0])
                      ELSE NewTable(link[1].len1, link[1].len2)
    BY <1>2 DEF NewOf
  <1>4. Tables \notin Live(link) /\ Live(link) = 0 .. Tables - 1
    <2>1. {0} = 0 .. 1 - 1 /\ {0, 1} = 0 .. 2 - 1 /\ 1 \notin {0} /\ 2 \notin {0, 1}
      OBVIOUS
    <2> QED  BY <1>1, <1>2, <2>1
  <1>5. \E p \in Pour(NewOf(link), blacklist \cup {s}) :
           link' = [link EXCEPT ![Tables] = p[1]] /\ blacklist' = p[2]
    BY <1>3 DEF InsertExpands
  <1> QED  BY <1>1, <1>2, <1>4, <1>5

(* Placing a new bSlot keeps the shape of the chain, at every number of    *)
(* tables.                                                                 *)
LEMMA PlacingShaped ==
  ASSUME Kind, NEW s \in Sources, Placing(s)
  PROVE  WellShaped(link', L1, L2, Sources) /\ blacklist' \in SUBSET Sources
  <1>1. /\ WellShaped(link, L1, L2, Sources) /\ blacklist \in SUBSET Sources
        /\ LooseChain(link, Sources) /\ {s} \in SUBSET Sources
    BY DEF Kind, WellShaped
  <1>2. CASE InsertFirst(s)
    <2>1. Live(link) = {}
      BY <1>1, <1>2, TablesAre DEF InsertFirst
    <2>2. link' = [link EXCEPT ![0] = First(s)] /\ blacklist' = blacklist
      BY <1>2 DEF InsertFirst, First
    <2> QED  BY <1>1, <2>1, <2>2, FirstIs, NullSources, OnlyShaped
  <1>3. CASE InsertRoomy(s)
    <2>1. PICK i \in HighestBelowRate(link) : \E p \in Pour(link[i], {s}) :
            link' = [link EXCEPT ![i] = p[1]] /\ blacklist' = blacklist \cup p[2]
      BY <1>3 DEF InsertRoomy
    <2>2. PICK p \in Pour(link[i], {s}) :
            link' = [link EXCEPT ![i] = p[1]] /\ blacklist' = blacklist \cup p[2]
      BY <2>1
    <2>3. i \in Live(link)
      BY DEF HighestBelowRate
    <2>4. WellShaped([link EXCEPT ![i] = p[1]], L1, L2, Sources) /\ p[2] \in SUBSET Sources
      BY <1>1, <2>3, NullSources, PouredShaped
    <2> QED  BY <1>1, <2>2, <2>4
  <1>4. CASE InsertExpands(s)
    <2>1. /\ Tables \in {1, 2} /\ Live(link) = 0 .. Tables - 1
          /\ Live(link) = {0} \/ Live(link) = {0, 1}
          /\ \E p \in Pour(NewOf(link), blacklist \cup {s}) :
               link' = [link EXCEPT ![Tables] = p[1]] /\ blacklist' = p[2]
      BY <1>4, ExpandsInto
    <2>2. PICK p \in Pour(NewOf(link), blacklist \cup {s}) :
            link' = [link EXCEPT ![Tables] = p[1]] /\ blacklist' = p[2]
      BY <2>1
    <2>3. blacklist \cup {s} \in SUBSET Sources
      BY <1>1
    <2>4. NewOf(link) \in Loose(Sources) /\ Doubled(LengthsOf(NewOf(link))) = LengthsOf(link[0])
      BY <1>1, <2>1, Sizes, NewHalf
    <2>5. /\ p[1] \in Loose(Sources) /\ p[2] \in SUBSET Sources
          /\ LengthsOf(p[1]) = LengthsOf(NewOf(link))
      BY <2>3, <2>4, SourcesFinite, PourLoose
    <2>6. WellShaped([link EXCEPT ![Tables] = p[1]], L1, L2, Sources)
      BY <1>1, <2>1, <2>4, <2>5, NullSources, NextShaped
    <2> QED  BY <2>2, <2>5, <2>6
  <1>5. CASE InsertMerges(s)
    <2>1. PICK m \in Merged : \E p \in Pour(HalfOf(m[1]), blacklist \cup m[2] \cup {s}) :
            /\ link' = TwoTables(m[1], p[1])
            /\ blacklist' = p[2]
      BY <1>5 DEF InsertMerges, TwoTables
    <2>2. PICK p \in Pour(HalfOf(m[1]), blacklist \cup m[2] \cup {s}) :
            /\ link' = TwoTables(m[1], p[1])
            /\ blacklist' = p[2]
      BY <2>1
    <2>3. Live(link) = I /\ m \in MergeTables(link[0], link[1], link[2])
      BY <1>1, <1>5, TablesAre DEF InsertMerges, Merged
    <2>4. s \in Sources /\ p \in Pour(HalfOf(m[1]), blacklist \cup m[2] \cup {s})
      OBVIOUS
    <2>5. WellShaped(TwoTables(m[1], p[1]), L1, L2, Sources) /\ p[2] \in SUBSET Sources
      BY <1>1, <2>3, <2>4, Sizes, NullSources, MergedShaped
    <2> QED  BY <2>2, <2>5
  <1> QED  BY <1>2, <1>3, <1>4, <1>5 DEF Placing

(* The new source gets one place, all others keep theirs.                  *)
LEMMA PlacingSplit ==
  ASSUME Kind, InOnePlace, NEW s \in Sources, Placing(s)
  PROVE  Split(link', blacklist', Placed \cup {s}, Sources)
  <1>1. /\ WellShaped(link, L1, L2, Sources) /\ blacklist \in SUBSET Sources
        /\ Split(link, blacklist, Placed, Sources)
    BY DEF Kind, InOnePlace
  <1>2. CASE InsertFirst(s)
    <2>1. Live(link) = {} /\ s \notin Placed
      BY <1>1, <1>2, TablesAre DEF InsertFirst
    <2>2. link' = Put(link, 0, First(s)) /\ blacklist' = blacklist
      BY <1>2 DEF InsertFirst, First, Put
    <2>3. ExactChain(link, Sources) /\ 0 \in I /\ 1 \in I /\ 2 \in I
      BY <1>1 DEF Split, I
    <2>4. \A j \in I : KeysAt(link, j) = {}
      BY <2>1 DEF KeysAt, Live
    <2>5. /\ ExactChain(link', Sources)
          /\ \A j \in I : KeysAt(link', j) = IF j = 0 THEN {s} ELSE KeysAt(link, j)
      BY <2>2, <2>3, FirstIs, NullSources, PutExact
    <2>6. /\ KeysAt(link', 0) = {s} /\ KeysAt(link', 1) = {} /\ KeysAt(link', 2) = {}
      BY <2>3, <2>4, <2>5
    <2>7. KeysOf(link') = {s}
      <3>1. LooseChain(link', Sources)
        BY <2>5 DEF ExactChain
      <3>2. KeysOf(link') = KeysAt(link', 0) \cup KeysAt(link', 1) \cup KeysAt(link', 2)
        BY <3>1, ChainKeysAt
      <3> QED  BY <2>6, <3>2
    <2>8. KeysOf(link) = {}
      BY <2>1 DEF KeysOf
    <2>9. blacklist' = Placed /\ s \notin blacklist'
      BY <2>1, <2>2, <2>8 DEF Placed, InTables
    <2> QED  BY <1>1, <2>2, <2>5, <2>6, <2>7, <2>9 DEF Split, Separate
  <1>3. CASE InsertRoomy(s)
    <2>1. PICK i \in HighestBelowRate(link) : \E p \in Pour(link[i], {s}) :
            link' = [link EXCEPT ![i] = p[1]] /\ blacklist' = blacklist \cup p[2]
      BY <1>3 DEF InsertRoomy
    <2>2. PICK p \in Pour(link[i], {s}) :
            link' = [link EXCEPT ![i] = p[1]] /\ blacklist' = blacklist \cup p[2]
      BY <2>1
    <2>3. i \in Live(link) /\ s \notin Placed
      BY <1>3 DEF HighestBelowRate, InsertRoomy
    <2> QED  BY <1>1, <2>2, <2>3, NullSources, PouredIn
  <1>4. CASE InsertExpands(s)
    <2>1. /\ s \notin Placed /\ Tables \in {1, 2} /\ Tables \notin Live(link)
          /\ Live(link) = {0} \/ Live(link) = {0, 1}
          /\ \E p \in Pour(NewOf(link), blacklist \cup {s}) :
               link' = [link EXCEPT ![Tables] = p[1]] /\ blacklist' = p[2]
      BY <1>4, ExpandsInto
    <2>2. PICK p \in Pour(NewOf(link), blacklist \cup {s}) :
            link' = [link EXCEPT ![Tables] = p[1]] /\ blacklist' = p[2]
      BY <2>1
    <2>3. Exact(NewOf(link), Sources) /\ NewOf(link).keys = {}
      <3>1. WellShaped(link, L1, L2, Sources) /\ (Live(link) = {0} \/ Live(link) = {0, 1})
        BY <1>1, <2>1
      <3> QED  BY <3>1, Sizes, NewHalf
    <2>4. Tables \in I
      BY <2>1 DEF I
    <2>5. Split([link EXCEPT ![Tables] = p[1]], p[2], Placed \cup {s}, Sources)
      BY <1>1, <2>1, <2>3, <2>4, NullSources, NextTakes
    <2> QED  BY <2>2, <2>5
  <1>5. CASE InsertMerges(s)
    <2>1. PICK m \in Merged : \E p \in Pour(HalfOf(m[1]), blacklist \cup m[2] \cup {s}) :
            /\ link' = TwoTables(m[1], p[1])
            /\ blacklist' = p[2]
      BY <1>5 DEF InsertMerges, TwoTables
    <2>2. PICK p \in Pour(HalfOf(m[1]), blacklist \cup m[2] \cup {s}) :
            /\ link' = TwoTables(m[1], p[1])
            /\ blacklist' = p[2]
      BY <2>1
    <2>3. Live(link) = I /\ s \notin Placed /\ m \in MergeTables(link[0], link[1], link[2])
      BY <1>1, <1>5, TablesAre DEF InsertMerges, MustExpand, Merged
    <2>4. Split(TwoTables(m[1], p[1]), p[2], Placed \cup {s}, Sources)
      BY <1>1, <2>3, NullSources, MergeTakes
    <2> QED  BY <2>2, <2>4
  <1> QED  BY <1>2, <1>3, <1>4, <1>5 DEF Placing

(* An insertion: of a source that has a bSlot, or of one placed now.       *)
LEMMA InsertIs ==
  ASSUME NEW s \in Sources, Insert(s)
  PROVE  /\ \/ s \in Placed /\ link' = link /\ blacklist' = blacklist
            \/ s \notin Placed /\ Placing(s)
         /\ holds' = holds \cup {s} /\ present' = present \cup {s}
         /\ phase' = phase /\ uncounted' = uncounted /\ doubled' = doubled
  BY DEF Insert, InsertExisting, Placing, InsertFirst, InsertRoomy, InsertExpands,
         InsertMerges, MustExpand

(* An insertion keeps the types and the shape.                             *)
LEMMA InsertKind ==
  ASSUME Kind, NEW s \in Sources, Insert(s)
  PROVE  Kind'
  <1>1. WellShaped(link', L1, L2, Sources) /\ blacklist' \in SUBSET Sources
    <2>1. CASE link' = link /\ blacklist' = blacklist
      BY <2>1 DEF Kind
    <2>2. CASE Placing(s)
      BY <2>2, PlacingShaped
    <2> QED  BY <2>1, <2>2, InsertIs
  <1> QED  BY <1>1, InsertIs DEF Kind

(* An insertion puts its source in one place and leaves every other where  *)
(* it is or moves it to one.                                               *)
LEMMA InsertSplit ==
  ASSUME Kind, InOnePlace, NEW s \in Sources, Insert(s)
  PROVE  Split(link', blacklist', Placed \cup {s}, Sources)
  <1>1. CASE s \in Placed /\ link' = link /\ blacklist' = blacklist
    <2>1. Placed \cup {s} = Placed
      BY <1>1
    <2> QED  BY <1>1, <2>1 DEF InOnePlace
  <1>2. CASE Placing(s)
    BY <1>2, PlacingSplit
  <1> QED  BY <1>1, <1>2, InsertIs

-----------------------------------------------------------------------------
(* Deletion.                                                               *)

(* The table that counts one down.                                         *)
TableOf(s) == CHOOSE i \in Live(link) : s \in link[i].keys

(* main_del finds a stored source in the table it deletes it from.         *)
LEMMA TableOfHolds ==
  ASSUME NEW s \in InTables
  PROVE  TableOf(s) \in Live(link) /\ s \in link[TableOf(s)].keys
  <1>1. \E i \in Live(link) : s \in link[i].keys
    BY DEF InTables, KeysOf
  <1> QED  BY <1>1 DEF TableOf

(* Freeing a bSlot, and counting one down without freeing it, keep the     *)
(* shape.                                                                  *)
LEMMA CountedDown ==
  ASSUME Kind, NEW s \in InTables
  PROVE  /\ WellShaped(Freed(s), L1, L2, Sources) /\ Live(Freed(s)) = Live(link)
         /\ WellShaped(Kept(s), L1, L2, Sources) /\ Live(Kept(s)) = Live(link)
  <1> DEFINE i == TableOf(s)
             t == Without(link[i], s)
             u == Holding(link[i], link[i].keys, link[i].num - 1)
  <1>1. WellShaped(link, L1, L2, Sources) /\ i \in Live(link)
    BY TableOfHolds DEF Kind
  <1>2. Freed(s) = [link EXCEPT ![i] = t] /\ Kept(s) = [link EXCEPT ![i] = u]
    BY DEF Freed, Kept, TableOf
  <1>3. link[i] \in Loose(Sources)
    BY <1>1, LooseTable
  <1>4. t \in Loose(Sources) /\ LengthsOf(t) = LengthsOf(link[i])
    BY <1>3 DEF Without, Holding, Loose, LengthsOf
  <1>5. u \in Loose(Sources) /\ LengthsOf(u) = LengthsOf(link[i])
    BY <1>3 DEF Holding, Loose, LengthsOf
  <1> HIDE DEF i, t, u
  <1>6. /\ WellShaped([link EXCEPT ![i] = t], L1, L2, Sources)
        /\ Live([link EXCEPT ![i] = t]) = Live(link)
    BY <1>1, <1>4, NullSources, SameLength
  <1>7. /\ WellShaped([link EXCEPT ![i] = u], L1, L2, Sources)
        /\ Live([link EXCEPT ![i] = u]) = Live(link)
    BY <1>1, <1>5, NullSources, SameLength
  <1> QED  BY <1>2, <1>6, <1>7

(* Freeing the bSlot of a source takes it out of its only place.           *)
LEMMA FreedSplit ==
  ASSUME Kind, InOnePlace, NEW s \in InTables
  PROVE  Split(Freed(s), blacklist, Placed \ {s}, Sources)
  <1> DEFINE i == TableOf(s)
  <1>1. i \in Live(link) /\ s \in link[i].keys
    BY TableOfHolds
  <1>2. Freed(s) = [link EXCEPT ![i] = Without(link[i], s)]
    BY DEF Freed, TableOf
  <1>3. Split(link, blacklist, Placed, Sources)
    BY DEF InOnePlace
  <1> HIDE DEF i
  <1>4. Split([link EXCEPT ![i] = Without(link[i], s)], blacklist, Placed \ {s}, Sources)
    BY <1>1, <1>3, NullSources, TakenOut
  <1> QED  BY <1>2, <1>4

(* The six ways to go on keep the shape of the chain ...                   *)
LEMMA RearrangedShaped ==
  ASSUME Kind, NEW c, WellShaped(c, L1, L2, Sources), Live(c) = Live(link), Rearranged(c)
  PROVE  /\ WellShaped(link', L1, L2, Sources) /\ blacklist' \in SUBSET Sources
         /\ doubled' \in SUBSET Sources /\ doubled \subseteq doubled'
  <1>1. /\ blacklist \in SUBSET Sources /\ doubled \in SUBSET Sources
        /\ LooseChain(c, Sources)
    BY DEF Kind, WellShaped
  <1>2. CASE DropsOnly(c)
    BY <1>1, <1>2, NullShaped DEF DropsOnly
  <1>3. CASE DropsSmallest(c)
    <2>1. doubled' = doubled /\ blacklist' = blacklist
      BY <1>3 DEF DropsSmallest
    <2>2. CASE Tables = 2 /\ link' = [c EXCEPT ![1] = NoTable]
      <3>1. Live(c) = {0, 1}
        BY <2>2, TablesAre
      <3> QED  BY <1>1, <2>1, <2>2, <3>1, FirstShaped
    <2>3. CASE Tables = 3 /\ link' = [c EXCEPT ![1] = c[Big(c)], ![2] = NoTable]
      <3>1. Live(c) = I
        BY <2>3, TablesAre
      <3> QED  BY <1>1, <2>1, <2>3, <3>1, NullSources, DroppedShaped
    <2> QED  BY <1>3, <2>2, <2>3 DEF DropsSmallest
  <1>4. CASE Halves(c)
    <2>1. PICK p \in CompressTable(c[0]) :
            link' = [c EXCEPT ![0] = p[1]] /\ blacklist' = blacklist \cup p[2]
      BY <1>4 DEF Halves, Compressed
    <2>2. Live(c) = {0} /\ c[0].len2 >= MinC2 /\ doubled' = doubled
      BY <1>4, TablesAre DEF Halves
    <2>3. WellShaped([c EXCEPT ![0] = p[1]], L1, L2, Sources) /\ p[2] \in SUBSET Sources
      BY <2>2, Sizes, NullSources, HalvedShaped
    <2> QED  BY <1>1, <2>1, <2>2, <2>3
  <1>5. CASE ShrinksTwo(c)
    <2>1. PICK p \in Pour(c[0], c[1].keys) :
            link' = [c EXCEPT ![0] = p[1], ![1] = NoTable] /\ blacklist' = blacklist \cup p[2]
      BY <1>5 DEF ShrinksTwo
    <2>2. Live(c) = {0, 1} /\ doubled' = doubled
      BY <1>5, TablesAre DEF ShrinksTwo
    <2> QED  BY <1>1, <2>1, <2>2, NullSources, ShrunkTwoShaped
  <1>6. CASE ShrinksThree(c)
    <2>1. PICK r \in Redistribute(c[Small(c)], c[0], c[Big(c)]) :
            /\ link' = [c EXCEPT ![0] = r[1], ![1] = r[2], ![2] = NoTable]
            /\ blacklist' = blacklist \cup r[3]
            /\ doubled' = doubled \cup StoredTwice(r)
      BY <1>6 DEF ShrinksThree
    <2>2. Live(c) = I
      BY <1>6, TablesAre DEF ShrinksThree
    <2> QED  BY <1>1, <2>1, <2>2, NullSources, SpreadShaped
  <1>7. CASE LeavesChain(c)
    BY <1>1, <1>7 DEF LeavesChain
  <1> QED  BY <1>2, <1>3, <1>4, <1>5, <1>6, <1>7 DEF Rearranged

(* ... and every bSlot in its one place, unless one is stored twice.       *)
LEMMA RearrangedSplit ==
  ASSUME Kind, NEW c, WellShaped(c, L1, L2, Sources), Live(c) = Live(link),
         NEW X, Split(c, blacklist, X, Sources), Rearranged(c), doubled' = {}
  PROVE  Split(link', blacklist', X, Sources)
  <1>1. CASE DropsOnly(c)
    <2>1. Live(c) = {0} /\ c[0].num = 0 /\ link' = EmptyChain /\ blacklist' = blacklist
      BY <1>1, TablesAre DEF DropsOnly
    <2> QED  BY <2>1, NullSources, LastDropped
  <1>2. CASE DropsSmallest(c)
    <2>1. CASE Tables = 2 /\ c[1].num = 0 /\ link' = [c EXCEPT ![1] = NoTable]
      <3>1. Live(c) = {0, 1} /\ blacklist' = blacklist
        BY <1>2, <2>1, TablesAre DEF DropsSmallest
      <3> QED  BY <2>1, <3>1, NullSources, SecondDropped
    <2>2. CASE /\ Tables = 3 /\ c[Small(c)].num = 0
               /\ link' = [c EXCEPT ![1] = c[Big(c)], ![2] = NoTable]
      <3>1. Live(c) = I /\ blacklist' = blacklist
        BY <1>2, <2>2, TablesAre DEF DropsSmallest
      <3> QED  BY <2>2, <3>1, NullSources, SmallerDropped
    <2> QED  BY <1>2, <2>1, <2>2 DEF DropsSmallest
  <1>3. CASE Halves(c)
    <2>1. PICK p \in CompressTable(c[0]) :
            link' = [c EXCEPT ![0] = p[1]] /\ blacklist' = blacklist \cup p[2]
      BY <1>3 DEF Halves, Compressed
    <2>2. Live(c) = {0}
      BY <1>3, TablesAre DEF Halves
    <2> QED  BY <2>1, <2>2, NullSources, TableHalved
  <1>4. CASE ShrinksTwo(c)
    <2>1. PICK p \in Pour(c[0], c[1].keys) :
            link' = [c EXCEPT ![0] = p[1], ![1] = NoTable] /\ blacklist' = blacklist \cup p[2]
      BY <1>4 DEF ShrinksTwo
    <2>2. Live(c) = {0, 1}
      BY <1>4, TablesAre DEF ShrinksTwo
    <2> QED  BY <2>1, <2>2, NullSources, SecondPoured
  <1>5. CASE ShrinksThree(c)
    <2>1. PICK r \in Redistribute(c[Small(c)], c[0], c[Big(c)]) :
            /\ link' = [c EXCEPT ![0] = r[1], ![1] = r[2], ![2] = NoTable]
            /\ blacklist' = blacklist \cup r[3]
            /\ doubled' = doubled \cup StoredTwice(r)
      BY <1>5 DEF ShrinksThree
    <2>2. Live(c) = I /\ StoredTwice(r) = {}
      BY <1>5, <2>1, TablesAre DEF ShrinksThree
    <2> QED  BY <2>1, <2>2, NullSources, SmallerSpread
  <1>6. CASE LeavesChain(c)
    BY <1>6 DEF LeavesChain
  <1> QED  BY <1>1, <1>2, <1>3, <1>4, <1>5, <1>6 DEF Rearranged

(* A deletion keeps the types and the shape, and never forgets a misplaced *)
(* source.                                                                 *)
LEMMA DelKind ==
  ASSUME Kind, NEW s \in Sources, Del(s)
  PROVE  Kind' /\ uncounted \subseteq uncounted' /\ doubled \subseteq doubled'
  <1>1. /\ holds' = holds \ {s} /\ present' = present \ {s}
        /\ phase' \in {"idle", "post"}
    BY DEF Del, PostPhase
  <1>2. /\ WellShaped(link', L1, L2, Sources) /\ blacklist' \in SUBSET Sources
        /\ uncounted' \in SUBSET Sources /\ doubled' \in SUBSET Sources
        /\ uncounted \subseteq uncounted' /\ doubled \subseteq doubled'
    <2>1. CASE DelHollow(s) \/ DelDenied(s)
      BY <2>1 DEF DelHollow, DelDenied, Kind
    <2>2. CASE DelFreed(s)
      <3>1. s \in InTables /\ Rearranged(Freed(s)) /\ uncounted' = uncounted
        BY <2>2 DEF DelFreed
      <3>2. /\ WellShaped(link', L1, L2, Sources) /\ blacklist' \in SUBSET Sources
            /\ doubled' \in SUBSET Sources /\ doubled \subseteq doubled'
        BY <3>1, CountedDown, RearrangedShaped
      <3> QED  BY <3>1, <3>2 DEF Kind
    <2>3. CASE DelKept(s)
      <3>1. s \in InTables /\ Rearranged(Kept(s)) /\ uncounted' = uncounted \cup {s}
        BY <2>3 DEF DelKept
      <3>2. /\ WellShaped(link', L1, L2, Sources) /\ blacklist' \in SUBSET Sources
            /\ doubled' \in SUBSET Sources /\ doubled \subseteq doubled'
        BY <3>1, CountedDown, RearrangedShaped
      <3> QED  BY <3>1, <3>2 DEF Kind
    <2> QED  BY <2>1, <2>2, <2>3 DEF Del
  <1> QED  BY <1>1, <1>2 DEF Kind

(* A deletion takes its own bSlot away or leaves it, and moves the others. *)
LEMMA DelSplit ==
  ASSUME Kind, InOnePlace, NEW s \in Sources, Del(s), NothingMislaid'
  PROVE  \E X \in {Placed, Placed \ {s}} : Split(link', blacklist', X, Sources)
  <1>1. Split(link, blacklist, Placed, Sources) /\ uncounted' = {} /\ doubled' = {}
    BY DEF InOnePlace, NothingMislaid
  <1>2. CASE DelHollow(s)
    BY <1>1, <1>2 DEF DelHollow
  <1>3. CASE DelDenied(s)
    <2>1. s \in blacklist \ InTables /\ blacklist' = blacklist \ {s} /\ link' = link
      BY <1>3 DEF DelDenied
    <2>2. Split(link', blacklist', Placed \ {s}, Sources)
      BY <1>1, <2>1 DEF Split, InTables, Placed
    <2> QED  BY <2>2
  <1>4. CASE DelFreed(s)
    <2>1. s \in InTables /\ Rearranged(Freed(s))
      BY <1>4 DEF DelFreed
    <2>2. /\ WellShaped(Freed(s), L1, L2, Sources) /\ Live(Freed(s)) = Live(link)
          /\ Split(Freed(s), blacklist, Placed \ {s}, Sources)
      BY <2>1, CountedDown, FreedSplit
    <2>3. Split(link', blacklist', Placed \ {s}, Sources)
      BY <1>1, <2>1, <2>2, RearrangedSplit
    <2> QED  BY <2>3
  <1>5. CASE DelKept(s)
    BY <1>1, <1>5 DEF DelKept
  <1> QED  BY <1>2, <1>3, <1>4, <1>5 DEF Del

-----------------------------------------------------------------------------
(* post_del.                                                               *)

(* An iteration takes s out of the denylist: no table is below the rate,   *)
(* the one that is has the source, or takes it.                            *)
LEMMA PostDelIs ==
  ASSUME PostDel
  PROVE  \E s \in blacklist :
           \/ /\ HighestBelowRate(link) = {}
              /\ link' = link /\ blacklist' = blacklist \ {s}
           \/ \E i \in HighestBelowRate(link) : \E p \in Pour(link[i], {s}) :
                /\ s \notin link[i].keys
                /\ link' = [link EXCEPT ![i] = p[1]]
                /\ blacklist' = (blacklist \ {s}) \cup p[2]
  <1>1. PICK s \in blacklist : \E g \in GivenBack(s) :
          link' = g[1] /\ blacklist' = (blacklist \ {s}) \cup g[2]
    BY DEF PostDel
  <1>2. PICK g \in GivenBack(s) :
          link' = g[1] /\ blacklist' = (blacklist \ {s}) \cup g[2]
    BY <1>1
  <1>3. CASE HighestBelowRate(link) = {}
    <2>1. g = <<link, {}>>
      BY <1>3 DEF GivenBack
    <2> QED  BY <1>2, <1>3, <2>1
  <1>4. CASE HighestBelowRate(link) # {}
    <2> DEFINE i == CHOOSE i \in HighestBelowRate(link) : TRUE
    <2>1. i \in HighestBelowRate(link)
      BY <1>4
    <2>2. /\ s \notin link[i].keys
          /\ \E p \in Pour(link[i], {s}) : g = <<[link EXCEPT ![i] = p[1]], p[2]>>
      BY <1>4 DEF GivenBack
    <2> HIDE DEF i
    <2>3. PICK p \in Pour(link[i], {s}) : g = <<[link EXCEPT ![i] = p[1]], p[2]>>
      BY <2>2
    <2>4. link' = [link EXCEPT ![i] = p[1]] /\ blacklist' = (blacklist \ {s}) \cup p[2]
      BY <1>2, <2>3
    <2> QED  BY <2>1, <2>2, <2>4
  <1> QED  BY <1>3, <1>4

(* A pass of post_del keeps the types and the shape.                       *)
LEMMA PostDelKind ==
  ASSUME Kind, PostDel
  PROVE  Kind'
  <1>1. /\ WellShaped(link, L1, L2, Sources) /\ blacklist \in SUBSET Sources
        /\ LooseChain(link, Sources)
    BY DEF Kind, WellShaped
  <1>2. PICK s \in blacklist :
           \/ /\ HighestBelowRate(link) = {}
              /\ link' = link /\ blacklist' = blacklist \ {s}
           \/ \E i \in HighestBelowRate(link) : \E p \in Pour(link[i], {s}) :
                /\ s \notin link[i].keys
                /\ link' = [link EXCEPT ![i] = p[1]]
                /\ blacklist' = (blacklist \ {s}) \cup p[2]
    BY PostDelIs
  <1>3. WellShaped(link', L1, L2, Sources) /\ blacklist' \in SUBSET Sources
    <2>1. CASE link' = link /\ blacklist' = blacklist \ {s}
      BY <1>1, <2>1
    <2>2. CASE \E i \in HighestBelowRate(link) : \E p \in Pour(link[i], {s}) :
                /\ s \notin link[i].keys
                /\ link' = [link EXCEPT ![i] = p[1]]
                /\ blacklist' = (blacklist \ {s}) \cup p[2]
      <3>1. PICK i \in HighestBelowRate(link) : \E p \in Pour(link[i], {s}) :
              /\ link' = [link EXCEPT ![i] = p[1]]
              /\ blacklist' = (blacklist \ {s}) \cup p[2]
        BY <2>2
      <3>2. PICK p \in Pour(link[i], {s}) :
              /\ link' = [link EXCEPT ![i] = p[1]]
              /\ blacklist' = (blacklist \ {s}) \cup p[2]
        BY <3>1
      <3>3. i \in Live(link) /\ {s} \in SUBSET Sources
        BY <1>1 DEF HighestBelowRate
      <3>4. WellShaped([link EXCEPT ![i] = p[1]], L1, L2, Sources) /\ p[2] \in SUBSET Sources
        BY <1>1, <3>3, NullSources, PouredShaped
      <3> QED  BY <1>1, <3>2, <3>4
    <2> QED  BY <1>2, <2>1, <2>2
  <1>4. /\ holds' = holds /\ present' = present /\ uncounted' = uncounted
        /\ doubled' = doubled /\ phase' \in {"idle", "post"}
    BY DEF PostDel, PostPhase
  <1> QED  BY <1>3, <1>4 DEF Kind

(* With a table below the rate every bSlot stays; without, one is lost.    *)
LEMMA PostDelSplit ==
  ASSUME Kind, InOnePlace, PostDel
  PROVE  \E X : /\ Split(link', blacklist', X, Sources)
                /\ HighestBelowRate(link) # {} => X = Placed
  <1>1. Split(link, blacklist, Placed, Sources)
    BY DEF InOnePlace
  <1>2. PICK s \in blacklist :
           \/ /\ HighestBelowRate(link) = {}
              /\ link' = link /\ blacklist' = blacklist \ {s}
           \/ \E i \in HighestBelowRate(link) : \E p \in Pour(link[i], {s}) :
                /\ s \notin link[i].keys
                /\ link' = [link EXCEPT ![i] = p[1]]
                /\ blacklist' = (blacklist \ {s}) \cup p[2]
    BY PostDelIs
  <1>3. s \in Sources /\ s \notin InTables /\ s \in Placed
    BY <1>1 DEF Split, InTables, Placed
  <1>4. Split(link, blacklist \ {s}, Placed \ {s}, Sources)
    BY <1>1, <1>3 DEF Split, InTables, Placed
  <1>5. CASE /\ HighestBelowRate(link) = {}
             /\ link' = link /\ blacklist' = blacklist \ {s}
    BY <1>4, <1>5
  <1>6. CASE \E i \in HighestBelowRate(link) : \E p \in Pour(link[i], {s}) :
              /\ s \notin link[i].keys
              /\ link' = [link EXCEPT ![i] = p[1]]
              /\ blacklist' = (blacklist \ {s}) \cup p[2]
    <2>1. PICK i \in HighestBelowRate(link) : \E p \in Pour(link[i], {s}) :
            /\ link' = [link EXCEPT ![i] = p[1]]
            /\ blacklist' = (blacklist \ {s}) \cup p[2]
      BY <1>6
    <2>2. PICK p \in Pour(link[i], {s}) :
            /\ link' = [link EXCEPT ![i] = p[1]]
            /\ blacklist' = (blacklist \ {s}) \cup p[2]
      BY <2>1
    <2>3. i \in Live(link) /\ s \notin Placed \ {s} /\ (Placed \ {s}) \cup {s} = Placed
      BY <1>3 DEF HighestBelowRate
    <2>4. Split([link EXCEPT ![i] = p[1]], (blacklist \ {s}) \cup p[2],
                (Placed \ {s}) \cup {s}, Sources)
      BY <1>3, <1>4, <2>3, NullSources, PouredIn
    <2>5. Split(link', blacklist', Placed, Sources)
      BY <2>2, <2>3, <2>4
    <2> QED  BY <2>5
  <1> QED  BY <1>2, <1>5, <1>6

-----------------------------------------------------------------------------
(* The inductive invariant holds.                                          *)

(* What is split over the chain and the denylist is what is placed.        *)
LEMMA SplitIsPlaced ==
  ASSUME NEW X, Split(link', blacklist', X, Sources)
  PROVE  X = Placed' /\ InOnePlace'
  BY DEF Split, InOnePlace, Placed, InTables

(* What was mislaid stays recorded.                                        *)
LEMMA StepKind ==
  ASSUME Kind, [Next]_vars
  PROVE  Kind' /\ uncounted \subseteq uncounted' /\ doubled \subseteq doubled'
  <1>1. ASSUME NEW s \in Sources, Insert(s)
        PROVE  Kind' /\ uncounted \subseteq uncounted' /\ doubled \subseteq doubled'
    BY <1>1, InsertKind, InsertIs
  <1>2. ASSUME NEW s \in Sources, Del(s)
        PROVE  Kind' /\ uncounted \subseteq uncounted' /\ doubled \subseteq doubled'
    BY <1>2, DelKind
  <1>3. CASE DelOther
    BY <1>3 DEF DelOther, Kind
  <1>4. CASE PostDel
    BY <1>4, PostDelKind DEF PostDel
  <1>5. CASE UNCHANGED vars
    BY <1>5 DEF vars, Kind
  <1> QED  BY <1>1, <1>2, <1>3, <1>4, <1>5 DEF Next

(* A step after which nothing is misplaced leaves every bSlot in one       *)
(* place.                                                                  *)
LEMMA StepOnePlace ==
  ASSUME IInv, [Next]_vars, NothingMislaid'
  PROVE  InOnePlace'
  <1>1. Kind /\ InOnePlace
    BY StepKind DEF IInv, NothingMislaid
  <1>2. ASSUME NEW s \in Sources, Insert(s)
        PROVE  InOnePlace'
    BY <1>1, <1>2, InsertSplit, SplitIsPlaced
  <1>3. ASSUME NEW s \in Sources, Del(s)
        PROVE  InOnePlace'
    BY <1>1, <1>3, DelSplit, SplitIsPlaced
  <1>4. CASE DelOther \/ UNCHANGED vars
    BY <1>1, <1>4 DEF DelOther, vars, InOnePlace, Placed, InTables
  <1>5. CASE PostDel
    BY <1>1, <1>5, PostDelSplit, SplitIsPlaced
  <1> QED  BY <1>2, <1>3, <1>4, <1>5 DEF Next

(* The invariant holds of an empty graph.                                  *)
LEMMA InitIInv == Init => IInv
  <1> SUFFICES ASSUME Init
               PROVE  IInv
    OBVIOUS
  <1>1. WellShaped(link, L1, L2, Sources)
    BY NullShaped DEF Init
  <1>2. Kind
    BY <1>1 DEF Init, Kind
  <1>3. Placed = {}
    BY NullChain DEF Init, Placed, InTables
  <1>4. Split(link, blacklist, {}, Sources)
    BY NullChain DEF Init, Split
  <1> QED  BY <1>2, <1>3, <1>4 DEF IInv, InOnePlace

(* Every step keeps the invariant.                                         *)
LEMMA NextIInv == IInv /\ [Next]_vars => IInv'
  BY StepKind, StepOnePlace DEF IInv

(* A step of insert, del or post_del leaves a chain of at most three       *)
(* tables whose lengths fit together; and every bSlot, none of which was   *)
(* mislaid, has one place and is counted by the table it is in.            *)
THEOREM MergeInvariant == Spec => []IInv
  BY InitIInv, NextIInv, PTL DEF Spec

-----------------------------------------------------------------------------
(* The chain of L-CHTs has no gap, and its later tables are half as long   *)
(* as the first, which merge (1868, 1896) relies on: whatever was mislaid, *)
(* whatever the counters say.                                              *)
THEOREM MergeChainShape == Spec => []ChainShape
  <1>1. IInv => ChainShape
    <2> SUFFICES ASSUME IInv
                 PROVE  ChainShape
      OBVIOUS
    <2>1. WellShaped(link, L1, L2, Sources)
      BY DEF IInv, Kind
    <2>2. Live(link) \in {{}, {0}, {0, 1}, I}
      BY <2>1 DEF WellShaped, Shaped
    <2>3. \A i \in Live(link) :
            /\ link[i].len1 >= 1 /\ link[i].len2 >= 1
            /\ i > 0 => 2 * link[i].len1 = link[0].len1 /\ 2 * link[i].len2 = link[0].len2
      BY <2>1, Sizes, ShapedPositive
    <2> QED  BY <2>2, <2>3 DEF ChainShape
  <1> QED  BY <1>1, MergeInvariant, PTL

(* The counters del compares with 0 and the thresholds (2128-2219) agree   *)
(* with the contents of their tables while no bSlot was mislaid.           *)
THEOREM MergeNumsExact == Spec => []NumsExact
  <1>1. IInv => NumsExact
    BY DEF IInv, InOnePlace, Split, ExactChain, Exact, NumsExact
  <1> QED  BY <1>1, MergeInvariant, PTL

(* No source has two bSlots, in two tables or in a table and the denylist, *)
(* while none was mislaid: query may stop at the first it finds.           *)
THEOREM MergeOneSlot == Spec => []OneSlotPerSource
  <1>1. IInv => OneSlotPerSource
    <2> SUFFICES ASSUME IInv, NothingMislaid
                 PROVE  /\ \A i, j \in Live(link) : i # j => link[i].keys \cap link[j].keys = {}
                        /\ InTables \cap blacklist = {}
      BY DEF OneSlotPerSource
    <2>1. Split(link, blacklist, Placed, Sources)
      BY DEF IInv, InOnePlace
    <2>2. \A i \in Live(link) : i \in I /\ KeysAt(link, i) = link[i].keys
      BY DEF Live, KeysAt
    <2>3. \A i, j \in I : i # j => KeysAt(link, i) \cap KeysAt(link, j) = {}
      BY <2>1 DEF Split, Separate, I
    <2> QED  BY <2>1, <2>2, <2>3 DEF Split, InTables
  <1> QED  BY <1>1, MergeInvariant, PTL

(* While no bSlot was mislaid the variables have their types; a table that *)
(* counts a bSlot twice down may get below 0.                              *)
THEOREM MergeTypeOK == Spec => [](NothingMislaid => TypeOK)
  <1>1. IInv => (NothingMislaid => TypeOK)
    <2> SUFFICES ASSUME IInv, NothingMislaid
                 PROVE  TypeOK
      OBVIOUS
    <2>1. ExactChain(link, Sources)
      BY DEF IInv, InOnePlace, Split
    <2>2. link \in [I -> Records(Sources) \cup {NoTable}]
      BY <2>1 DEF ExactChain, LooseChain, Exact, Live
    <2> QED  BY <2>2 DEF IInv, Kind, TypeOK, Records
  <1> QED  BY <1>1, MergeInvariant, PTL

-----------------------------------------------------------------------------
(* A step that leaves the other bSlots in place loses no source.           *)
LEMMA StepKeepsSources ==
  ASSUME IInv, NoSourceLost, PostHasRoom, [Next]_vars
  PROVE  NoSourceLost'
  <1> SUFFICES ASSUME NothingMislaid', NEW x \in Sources
               PROVE  (x \in Placed' /\ x \in holds') <=> x \in present'
    BY DEF NoSourceLost, Found
  <1>1. /\ Kind /\ InOnePlace /\ NothingMislaid
        /\ (x \in Placed /\ x \in holds) <=> x \in present
    BY StepKind DEF IInv, NothingMislaid, NoSourceLost, Found
  <1>2. ASSUME NEW s \in Sources, Insert(s)
        PROVE  (x \in Placed' /\ x \in holds') <=> x \in present'
    <2>1. Placed' = Placed \cup {s}
      BY <1>1, <1>2, InsertSplit, SplitIsPlaced
    <2> QED  BY <1>1, <1>2, <2>1, InsertIs
  <1>3. ASSUME NEW s \in Sources, Del(s)
        PROVE  (x \in Placed' /\ x \in holds') <=> x \in present'
    <2>1. Placed' \in {Placed, Placed \ {s}}
      BY <1>1, <1>3, DelSplit, SplitIsPlaced
    <2>2. holds' = holds \ {s} /\ present' = present \ {s}
      BY <1>3 DEF Del
    <2> QED  BY <1>1, <2>1, <2>2
  <1>4. CASE DelOther \/ UNCHANGED vars
    BY <1>1, <1>4 DEF DelOther, vars, Placed, InTables
  <1>5. CASE PostDel
    <2>1. HighestBelowRate(link) # {}
      BY <1>1, <1>5 DEF PostDel, PostHasRoom
    <2>2. Placed' = Placed
      BY <1>1, <1>5, <2>1, PostDelSplit, SplitIsPlaced
    <2> QED  BY <1>1, <1>5, <2>2 DEF PostDel
  <1> QED  BY <1>2, <1>3, <1>4, <1>5 DEF Next

(* Room in a table whenever post_del looks for it is all that the graph    *)
(* needs to lose no source with edges and to resurrect none.               *)
THEOREM MergeNoSourceLost == Spec /\ []PostHasRoom => []NoSourceLost
  <1>1. Init => NoSourceLost
    BY DEF Init, NoSourceLost, Found
  <1>2. IInv /\ NoSourceLost /\ PostHasRoom /\ [Next]_vars => NoSourceLost'
    BY StepKeepsSources
  <1> QED  BY <1>1, <1>2, MergeInvariant, PTL DEF Spec
=============================================================================
