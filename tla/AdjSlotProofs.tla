--------------------------- MODULE AdjSlotProofs ---------------------------
(***************************************************************************)
(* Proofs about AdjSlot for every finite set of keys and every value of    *)
(* the sizes and thresholds.                                               *)
(***************************************************************************)
EXTENDS AdjSlot, ChainProofs

(* The keys behind the pointer i of a chain.                               *)
At(s, i) == IF s[i] = NoTable THEN {} ELSE s[i].keys

(* A chain of tables whose counters are right.                             *)
ChainExact(s) ==
    /\ s \in [I -> Tables \cup {NoTable}]
    /\ \A i \in Live(s) : Exact(s[i], Keys)

(* No key is in two tables.                                                *)
TablesApart(s) ==
    /\ At(s, 0) \cap At(s, 1) = {}
    /\ At(s, 0) \cap At(s, 2) = {}
    /\ At(s, 1) \cap At(s, 2) = {}

(* No key is in two tables, or in a table and the denylist.                *)
Apart(s, d) == TablesApart(s) /\ KeysOf(s) \cap d = {}

(* The slot is in one of its two forms.                                    *)
Form ==
    /\ pt >= 0 => Live(slot) = {} /\ deny = {} /\ pt = Cardinality(inl)
    /\ pt < 0 => inl = {}

(* Until a redistribution doubles a key, the edges are split over the      *)
(* places they can be in.                                                  *)
Accounted ==
    doubled = {} => /\ Apart(slot, deny)
                    /\ pt >= 0 => edges = inl
                    /\ pt < 0 => edges = Stored \cup deny

(* The inductive invariant.                                                *)
IInv == TypeOK /\ ChainExact(slot) /\ Form /\ Accounted

-----------------------------------------------------------------------------
(* Facts about chains.                                                     *)

LEMMA TablesAreRecords == Tables = Records(Keys)
  BY DEF Tables, Records

LEMMA ExactIsTable ==
  ASSUME NEW t, Exact(t, Keys)
  PROVE  t \in Tables /\ t # NoTable
  <1>1. t \in Tables
    BY TablesAreRecords DEF Exact
  <1>2. t \in [len1 : Nat, len2 : Nat, keys : SUBSET Keys, num : Int]
    BY <1>1 DEF Tables
  <1> QED  BY <1>1, <1>2, NullAssumption

LEMMA KeysOfAt ==
  ASSUME NEW s, ChainExact(s)
  PROVE  KeysOf(s) = At(s, 0) \cup At(s, 1) \cup At(s, 2)
  BY DEF ChainExact, KeysOf, Live, At, I

LEMMA ChainKeys ==
  ASSUME NEW s, ChainExact(s)
  PROVE  /\ KeysOf(s) \in SUBSET Keys
         /\ \A i \in I : At(s, i) \in SUBSET Keys
  BY DEF ChainExact, KeysOf, Live, At, Tables

(* A table is put behind a pointer.                                        *)
LEMMA PutTable ==
  ASSUME NEW s, ChainExact(s), NEW i \in I, NEW t, Exact(t, Keys)
  PROVE  LET s2 == [s EXCEPT ![i] = t]
         IN  /\ ChainExact(s2)
             /\ Live(s2) = Live(s) \cup {i}
             /\ \A j \in I : At(s2, j) = IF j = i THEN t.keys ELSE At(s, j)
  <1>1. t \in Tables /\ t # NoTable
    BY ExactIsTable
  <1> QED  BY <1>1 DEF ChainExact, Live, At

(* A pointer is made null.                                                 *)
LEMMA DropTable ==
  ASSUME NEW s, ChainExact(s), NEW i \in I
  PROVE  LET s2 == [s EXCEPT ![i] = NoTable]
         IN  /\ ChainExact(s2)
             /\ Live(s2) = Live(s) \ {i}
             /\ \A j \in I : At(s2, j) = IF j = i THEN {} ELSE At(s, j)
  BY DEF ChainExact, Live, At

(* A chain without tables holds no key.                                    *)
LEMMA NoTables ==
  ASSUME NEW s, ChainExact(s), Live(s) = {}
  PROVE  KeysOf(s) = {} /\ \A i \in I : At(s, i) = {}
  BY DEF ChainExact, KeysOf, Live, At

LEMMA EmptyChainHolds ==
  /\ ChainExact(EmptyChain) /\ Live(EmptyChain) = {} /\ KeysOf(EmptyChain) = {}
  /\ TablesApart(EmptyChain)
  BY DEF EmptyChain, ChainExact, Live, KeysOf, TablesApart, At, I

(* A new table holds nothing.                                              *)
LEMMA NewIsExact ==
  ASSUME NEW l1 \in Nat, NEW l2 \in Nat
  PROVE  Exact(NewTable(l1, l2), Keys) /\ NewTable(l1, l2).keys = {}
  BY FS_EmptySet DEF Exact, Records, NewTable

LEMMA HalfIsExact ==
  ASSUME NEW t, Exact(t, Keys)
  PROVE  Exact(HalfOf(t), Keys) /\ HalfOf(t).keys = {}
  <1>1. t.len1 \div 2 \in Nat /\ t.len2 \div 2 \in Nat
    BY DEF Exact, Records
  <1> QED  BY <1>1, NewIsExact DEF HalfOf

(* An exact table with num = 0 is empty.                                   *)
LEMMA ZeroIsEmpty ==
  ASSUME NEW t, Exact(t, Keys), t.num = 0
  PROVE  t.keys = {}
  BY KeysFinite, FS_Subset, FS_EmptySet DEF Exact, Records

LEMMA WithoutIsExact ==
  ASSUME NEW t, Exact(t, Keys), NEW k \in t.keys
  PROVE  Exact(Without(t, k), Keys) /\ Without(t, k).keys = t.keys \ {k}
  <1>1. t.keys \in SUBSET Keys /\ t.num = Cardinality(t.keys) /\ t \in Records(Keys)
    BY DEF Exact, Records
  <1>2. IsFiniteSet(t.keys)
    BY <1>1, KeysFinite, FS_Subset
  <1>3. /\ Cardinality(t.keys \ {k}) = Cardinality(t.keys) - 1
        /\ Cardinality(t.keys \ {k}) \in Nat
    BY <1>2, FS_RemoveElement, FS_CardinalityType
  <1> QED  BY <1>1, <1>3 DEF Exact, Records, Without, Holding

-----------------------------------------------------------------------------
(* Insertion into a chain.                                                 *)

(* A key that is in no table is poured into one of them: it and all others *)
(* are still somewhere, and once if they were.                             *)
LEMMA PourIntoChain ==
  ASSUME NEW s, ChainExact(s), NEW i \in Live(s), NEW k \in Keys, k \notin KeysOf(s),
         NEW p \in Pour(s[i], {k})
  PROVE  LET s2 == [s EXCEPT ![i] = p[1]]
         IN  /\ ChainExact(s2) /\ Live(s2) = Live(s)
             /\ p[2] \in SUBSET Keys /\ Cardinality(p[2]) <= 1
             /\ KeysOf(s) \cup {k} = KeysOf(s2) \cup p[2]
             /\ TablesApart(s) => TablesApart(s2) /\ KeysOf(s2) \cap p[2] = {}
  <1> DEFINE s2 == [s EXCEPT ![i] = p[1]]
  <1>1. /\ i \in I /\ s[i] # NoTable /\ Exact(s[i], Keys) /\ At(s, i) = s[i].keys
        /\ {k} \in SUBSET Keys
    BY DEF Live, ChainExact, At
  <1>2. KeysOf(s) = At(s, 0) \cup At(s, 1) \cup At(s, 2)
    BY KeysOfAt
  <1>3. {k} \cap s[i].keys = {}
    BY <1>1, <1>2 DEF I
  <1>4. /\ Exact(p[1], Keys) /\ p[2] \in SUBSET Keys
        /\ p[1].keys \cup p[2] = s[i].keys \cup {k}
        /\ p[1].keys \cap p[2] = {}
        /\ Cardinality(p[2]) <= Cardinality({k})
    BY <1>1, <1>3, KeysFinite, PourAccounts
  <1>5. /\ ChainExact(s2) /\ Live(s2) = Live(s) \cup {i}
        /\ \A j \in I : At(s2, j) = IF j = i THEN p[1].keys ELSE At(s, j)
    BY <1>1, <1>4, PutTable
  <1> HIDE DEF s2
  <1>6. KeysOf(s2) = At(s2, 0) \cup At(s2, 1) \cup At(s2, 2)
    BY <1>5, KeysOfAt
  <1>7. Cardinality(p[2]) <= 1
    BY <1>4, FS_Singleton
  <1>8. i = 0 \/ i = 1 \/ i = 2
    BY <1>1 DEF I
  <1>9. 0 \in I /\ 1 \in I /\ 2 \in I
    BY DEF I
  <1>10. KeysOf(s) \cup {k} = KeysOf(s2) \cup p[2]
    BY <1>1, <1>2, <1>4, <1>5, <1>6, <1>8, <1>9
  <1>11. ASSUME TablesApart(s)
         PROVE  TablesApart(s2) /\ KeysOf(s2) \cap p[2] = {}
    BY <1>1, <1>2, <1>4, <1>5, <1>6, <1>8, <1>9, <1>11 DEF TablesApart
  <1>12. Live(s2) = Live(s)
    BY <1>5
  <1>13. /\ ChainExact(s2) /\ Live(s2) = Live(s)
         /\ p[2] \in SUBSET Keys /\ Cardinality(p[2]) <= 1
         /\ KeysOf(s) \cup {k} = KeysOf(s2) \cup p[2]
         /\ TablesApart(s) => TablesApart(s2) /\ KeysOf(s2) \cap p[2] = {}
    BY ONLY <1>4, <1>5, <1>7, <1>10, <1>11, <1>12
  <1> QED  BY ONLY <1>13 DEF s2

(* Expansion starts from a chain and a key that together hold what the     *)
(* chain and the new key did.                                              *)
LEMMA ToExpandAccounts ==
  ASSUME ChainExact(slot), NEW k \in Keys, k \notin Stored, NEW d, NEW x \in ToExpand(k, d)
  PROVE  /\ ChainExact(x[1]) /\ Live(x[1]) = Live(slot) /\ x[2] \in Keys
         /\ KeysOf(x[1]) \cup {x[2]} = Stored \cup {k}
         /\ TablesApart(slot) => TablesApart(x[1]) /\ x[2] \notin KeysOf(x[1])
  <1>1. CASE HighestBelowRate(slot) = {}
    <2>1. x[1] = slot /\ x[2] = k
      BY <1>1 DEF ToExpand
    <2> QED  BY <2>1 DEF Stored
  <1>2. CASE HighestBelowRate(slot) # {}
    <2> DEFINE i == CHOOSE i \in HighestBelowRate(slot) : TRUE
    <2>1. i \in Live(slot)
      BY <1>2 DEF HighestBelowRate
    <2>2. PICK p \in Pour(slot[i], {k}) : \E victim \in p[2] :
            x = <<[slot EXCEPT ![i] = p[1]], victim>>
      BY <1>2 DEF ToExpand
    <2> HIDE DEF i
    <2> DEFINE s2 == [slot EXCEPT ![i] = p[1]]
    <2>3. /\ ChainExact(s2) /\ Live(s2) = Live(slot)
          /\ p[2] \in SUBSET Keys /\ Cardinality(p[2]) <= 1
          /\ Stored \cup {k} = KeysOf(s2) \cup p[2]
          /\ TablesApart(slot) => TablesApart(s2) /\ KeysOf(s2) \cap p[2] = {}
      BY <2>1, PourIntoChain DEF Stored
    <2>4. x[1] = s2 /\ x[2] \in p[2]
      BY <2>2
    <2> HIDE DEF s2
    <2>5. p[2] = {x[2]}
      BY <2>3, <2>4, KeysFinite, FS_Subset, OnlyElement
    <2> QED  BY <2>3, <2>4, <2>5
  <1> QED  BY <1>1, <1>2

(* What an insertion of k does to a chain and the denylisted edges d.      *)
Inserted(s, d, k, s2, d2) ==
    /\ ChainExact(s2)
    /\ d2 \in SUBSET Keys
    /\ KeysOf(s2) \cup d2 = KeysOf(s) \cup d \cup {k}
    /\ Apart(s, d) => Apart(s2, d2)

LEMMA TakenByTable ==
  ASSUME ChainExact(slot), NEW d \in SUBSET Keys, NEW k \in Keys, k \notin Stored \cup d,
         NEW i \in HighestBelowRate(slot), NEW p \in Pour(slot[i], {k})
  PROVE  Inserted(slot, d, k, [slot EXCEPT ![i] = p[1]], d \cup p[2])
  <1> DEFINE s2 == [slot EXCEPT ![i] = p[1]]
  <1>1. i \in Live(slot) /\ k \notin KeysOf(slot)
    BY DEF HighestBelowRate, Stored
  <1>2. /\ ChainExact(s2) /\ p[2] \in SUBSET Keys
        /\ KeysOf(slot) \cup {k} = KeysOf(s2) \cup p[2]
        /\ TablesApart(slot) => TablesApart(s2) /\ KeysOf(s2) \cap p[2] = {}
    BY <1>1, PourIntoChain
  <1> HIDE DEF s2
  <1>3. Inserted(slot, d, k, s2, d \cup p[2])
    BY <1>1, <1>2 DEF Inserted, Apart, Stored
  <1> QED  BY <1>3 DEF s2

LEMMA FirstTable ==
  ASSUME ChainExact(slot), NEW d \in SUBSET Keys, NEW k \in Keys, k \notin Stored \cup d,
         Live(slot) = {}
  PROVE  Inserted(slot, d, k, [slot EXCEPT ![0] = Holding(NewTable(U1, U2), {k}, 1)], d)
  <1> DEFINE t  == Holding(NewTable(U1, U2), {k}, 1)
             s2 == [slot EXCEPT ![0] = t]
  <1>1. Exact(t, Keys) /\ t.keys = {k}
    <2>1. Cardinality({k}) = 1
      BY FS_Singleton
    <2> QED  BY <2>1, SizeAssumption DEF Exact, Records, Holding, NewTable
  <1>2. 0 \in I /\ 1 \in I /\ 2 \in I
    BY DEF I
  <1> HIDE DEF t
  <1>3. /\ ChainExact(s2)
        /\ \A j \in I : At(s2, j) = IF j = 0 THEN t.keys ELSE At(slot, j)
    <2>1. t \in Tables /\ t # NoTable
      BY <1>1, ExactIsTable
    <2> QED  BY <1>1, <1>2, <2>1 DEF ChainExact, Live, At
  <1>4. KeysOf(slot) = {} /\ \A j \in I : At(slot, j) = {}
    BY NoTables
  <1> HIDE DEF s2
  <1>5. KeysOf(s2) = At(s2, 0) \cup At(s2, 1) \cup At(s2, 2)
    BY <1>3, KeysOfAt
  <1>6. At(s2, 0) = {k} /\ At(s2, 1) = {} /\ At(s2, 2) = {}
    BY <1>1, <1>2, <1>3, <1>4
  <1>7. Inserted(slot, d, k, s2, d)
    BY <1>3, <1>4, <1>5, <1>6 DEF Inserted, Apart, TablesApart, Stored
  <1> QED  BY <1>7 DEF s2, t

(* The denylisted edges and the one left over go to a new table.           *)
LEMMA NextTable ==
  ASSUME ChainExact(slot), NEW d \in SUBSET Keys, NEW k \in Keys, k \notin Stored \cup d,
         NEW i \in {1, 2}, Live(slot) = 0 .. i - 1, NEW x \in ToExpand(k, d),
         NEW new, Exact(new, Keys), new.keys = {}, NEW p \in Pour(new, d \cup {x[2]})
  PROVE  Inserted(slot, d, k, [x[1] EXCEPT ![i] = p[1]], p[2])
  <1> DEFINE s2 == [x[1] EXCEPT ![i] = p[1]]
  <1>1. /\ ChainExact(x[1]) /\ Live(x[1]) = Live(slot) /\ x[2] \in Keys
        /\ KeysOf(x[1]) \cup {x[2]} = Stored \cup {k}
        /\ TablesApart(slot) => TablesApart(x[1]) /\ x[2] \notin KeysOf(x[1])
    BY ToExpandAccounts
  <1>2. d \cup {x[2]} \in SUBSET Keys /\ (d \cup {x[2]}) \cap new.keys = {}
    BY <1>1
  <1>3. /\ Exact(p[1], Keys) /\ p[2] \in SUBSET Keys
        /\ p[1].keys \cup p[2] = new.keys \cup (d \cup {x[2]})
        /\ p[1].keys \cap p[2] = {}
    BY <1>2, KeysFinite, PourAccounts
  <1>4. i \in I /\ i \notin Live(x[1]) /\ 0 \in I /\ 1 \in I /\ 2 \in I
    BY <1>1 DEF I
  <1>5. At(x[1], i) = {}
    BY <1>4 DEF At, Live
  <1>6. /\ ChainExact(s2)
        /\ \A j \in I : At(s2, j) = IF j = i THEN p[1].keys ELSE At(x[1], j)
    BY <1>1, <1>3, <1>4, PutTable
  <1> HIDE DEF s2
  <1>7. /\ KeysOf(s2) = At(s2, 0) \cup At(s2, 1) \cup At(s2, 2)
        /\ KeysOf(x[1]) = At(x[1], 0) \cup At(x[1], 1) \cup At(x[1], 2)
    BY <1>1, <1>6, KeysOfAt
  <1>8. KeysOf(s2) = KeysOf(x[1]) \cup p[1].keys
    BY <1>4, <1>5, <1>6, <1>7
  <1>9. KeysOf(s2) \cup p[2] = KeysOf(slot) \cup d \cup {k}
    BY <1>1, <1>3, <1>8 DEF Stored
  <1>10. ASSUME Apart(slot, d)
         PROVE  Apart(s2, p[2])
    <2>1. TablesApart(x[1]) /\ (d \cup {x[2]}) \cap KeysOf(x[1]) = {}
      BY <1>1, <1>10 DEF Apart, Stored
    <2>2. (p[1].keys \cup p[2]) \cap KeysOf(x[1]) = {}
      BY <1>3, <2>1
    <2>3. KeysOf(s2) \cap p[2] = {}
      BY <1>3, <1>8, <2>2
    <2>4. TablesApart(s2)
      BY <1>4, <1>6, <1>7, <2>1, <2>2 DEF TablesApart
    <2> QED  BY <2>3, <2>4 DEF Apart
  <1>11. Inserted(slot, d, k, s2, p[2])
    BY <1>3, <1>6, <1>9, <1>10 DEF Inserted
  <1> QED  BY <1>11 DEF s2

(* A chain of two tables.                                                  *)
LEMMA TwoCounted ==
  ASSUME NEW t0, Exact(t0, Keys), NEW t1, Exact(t1, Keys)
  PROVE  LET s2 == [i \in I |-> IF i = 0 THEN t0 ELSE IF i = 1 THEN t1 ELSE NoTable]
         IN  /\ ChainExact(s2) /\ Live(s2) = {0, 1}
             /\ At(s2, 0) = t0.keys /\ At(s2, 1) = t1.keys /\ At(s2, 2) = {}
             /\ KeysOf(s2) = t0.keys \cup t1.keys
  <1> DEFINE s2 == [i \in I |-> IF i = 0 THEN t0 ELSE IF i = 1 THEN t1 ELSE NoTable]
  <1>1. t0 \in Tables /\ t0 # NoTable /\ t1 \in Tables /\ t1 # NoTable
    BY ExactIsTable
  <1>2. /\ ChainExact(s2) /\ Live(s2) = {0, 1}
        /\ At(s2, 0) = t0.keys /\ At(s2, 1) = t1.keys /\ At(s2, 2) = {}
    BY <1>1 DEF ChainExact, Live, At, I
  <1> HIDE DEF s2
  <1>3. KeysOf(s2) = At(s2, 0) \cup At(s2, 1) \cup At(s2, 2)
    BY <1>2, KeysOfAt
  <1>4. KeysOf(s2) = t0.keys \cup t1.keys
    BY <1>2, <1>3
  <1> QED  BY <1>2, <1>4 DEF s2

(* Assigning the pointers one by one makes the chain of two tables.        *)
LEMMA AssignedThree ==
  ASSUME NEW s, ChainExact(s), NEW t0, NEW t1
  PROVE  [s EXCEPT ![0] = t0, ![1] = t1, ![2] = NoTable]
           = [i \in I |-> IF i = 0 THEN t0 ELSE IF i = 1 THEN t1 ELSE NoTable]
  <1> DEFINE f == [s EXCEPT ![0] = t0, ![1] = t1, ![2] = NoTable]
             g == [i \in I |-> IF i = 0 THEN t0 ELSE IF i = 1 THEN t1 ELSE NoTable]
  <1>1. \A i \in I : i = 0 \/ i = 1 \/ i = 2
    BY DEF I
  <1>2. s \in [I -> Tables \cup {NoTable}]
    BY DEF ChainExact
  <1>3. f = [i \in I |-> f[i]] /\ g = [i \in I |-> g[i]]
    BY <1>2
  <1>4. ASSUME NEW i \in I
        PROVE  f[i] = g[i]
    BY <1>1, <1>2
  <1> HIDE DEF f, g
  <1>5. f = g
    BY <1>3, <1>4
  <1> QED  BY <1>5 DEF f, g

LEMMA AssignedTwo ==
  ASSUME NEW s, ChainExact(s), NEW t1
  PROVE  [s EXCEPT ![1] = t1, ![2] = NoTable]
           = [i \in I |-> IF i = 0 THEN s[0] ELSE IF i = 1 THEN t1 ELSE NoTable]
  <1> DEFINE f == [s EXCEPT ![1] = t1, ![2] = NoTable]
             g == [i \in I |-> IF i = 0 THEN s[0] ELSE IF i = 1 THEN t1 ELSE NoTable]
  <1>1. \A i \in I : i = 0 \/ i = 1 \/ i = 2
    BY DEF I
  <1>2. s \in [I -> Tables \cup {NoTable}]
    BY DEF ChainExact
  <1>3. f = [i \in I |-> f[i]] /\ g = [i \in I |-> g[i]]
    BY <1>2
  <1>4. ASSUME NEW i \in I
        PROVE  f[i] = g[i]
    BY <1>1, <1>2
  <1> HIDE DEF f, g
  <1>5. f = g
    BY <1>3, <1>4
  <1> QED  BY <1>5 DEF f, g

LEMMA FullChain ==
  ASSUME NEW s, ChainExact(s), Live(s) = I
  PROVE  /\ Exact(s[0], Keys) /\ Exact(s[1], Keys) /\ Exact(s[2], Keys)
         /\ At(s, 0) = s[0].keys /\ At(s, 1) = s[1].keys /\ At(s, 2) = s[2].keys
  BY DEF ChainExact, Live, At, I

(* Three tables become one, and what did not fit goes to a second.         *)
LEMMA MergedTables ==
  ASSUME ChainExact(slot), NEW d \in SUBSET Keys, NEW k \in Keys, k \notin Stored \cup d,
         Live(slot) = I, DisjointTables(slot), NEW x \in ToExpand(k, d),
         NEW m \in MergeTables(x[1][0], x[1][1], x[1][2]),
         NEW p \in Pour(HalfOf(m[1]), d \cup m[2] \cup {x[2]})
  PROVE  Inserted(slot, d, k,
                  [i \in I |-> IF i = 0 THEN m[1] ELSE IF i = 1 THEN p[1] ELSE NoTable],
                  p[2])
  <1> DEFINE s2 == [i \in I |-> IF i = 0 THEN m[1] ELSE IF i = 1 THEN p[1] ELSE NoTable]
             M  == d \cup m[2] \cup {x[2]}
  <1>1. TablesApart(slot)
    BY FullChain DEF DisjointTables, TablesApart, I
  <1>2. /\ ChainExact(x[1]) /\ Live(x[1]) = I /\ x[2] \in Keys
        /\ KeysOf(x[1]) \cup {x[2]} = Stored \cup {k}
        /\ TablesApart(x[1]) /\ x[2] \notin KeysOf(x[1])
    BY <1>1, ToExpandAccounts
  <1>3. /\ Exact(x[1][0], Keys) /\ Exact(x[1][1], Keys) /\ Exact(x[1][2], Keys)
        /\ At(x[1], 0) = x[1][0].keys /\ At(x[1], 1) = x[1][1].keys
        /\ At(x[1], 2) = x[1][2].keys
    BY <1>2, FullChain
  <1>4. KeysOf(x[1]) = x[1][0].keys \cup x[1][1].keys \cup x[1][2].keys
    BY <1>2, <1>3, KeysOfAt
  <1>5. x[1][0].keys \cap (x[1][1].keys \cup x[1][2].keys) = {}
    BY <1>2, <1>3 DEF TablesApart
  <1>6. /\ Exact(m[1], Keys) /\ m[2] \in SUBSET Keys
        /\ m[1].keys \cup m[2] = KeysOf(x[1]) /\ m[1].keys \cap m[2] = {}
    BY <1>3, <1>4, <1>5, KeysFinite, MergeAccounts
  <1>7. Exact(HalfOf(m[1]), Keys) /\ HalfOf(m[1]).keys = {}
    BY <1>6, HalfIsExact
  <1>8. M \in SUBSET Keys /\ M \cap HalfOf(m[1]).keys = {}
    BY <1>2, <1>6, <1>7
  <1> HIDE DEF M
  <1>9. /\ Exact(p[1], Keys) /\ p[2] \in SUBSET Keys
        /\ p[1].keys \cup p[2] = HalfOf(m[1]).keys \cup M
        /\ p[1].keys \cap p[2] = {}
    BY <1>7, <1>8, KeysFinite, PourAccounts DEF M
  <1>10. /\ ChainExact(s2) /\ KeysOf(s2) = m[1].keys \cup p[1].keys
         /\ At(s2, 0) = m[1].keys /\ At(s2, 1) = p[1].keys /\ At(s2, 2) = {}
    BY <1>6, <1>9, TwoCounted
  <1> HIDE DEF s2
  <1>11. p[1].keys \cup p[2] = d \cup m[2] \cup {x[2]}
    BY <1>7, <1>9 DEF M
  <1>12. KeysOf(s2) \cup p[2] = KeysOf(slot) \cup d \cup {k}
    BY <1>2, <1>6, <1>10, <1>11 DEF Stored
  <1>13. ASSUME Apart(slot, d)
         PROVE  Apart(s2, p[2])
    <2>1. d \cap m[1].keys = {}
      BY <1>2, <1>6, <1>13 DEF Apart, Stored
    <2>2. (p[1].keys \cup p[2]) \cap m[1].keys = {}
      BY <1>2, <1>6, <1>11, <2>1
    <2> QED  BY <1>9, <1>10, <2>2 DEF Apart, TablesApart
  <1>14. Inserted(slot, d, k, s2, p[2])
    BY <1>9, <1>10, <1>12, <1>13 DEF Inserted
  <1> QED  BY <1>14 DEF s2

(* Whatever way a chain takes an edge, no edge is lost or doubled.         *)
LEMMA InsertChainedAccounts ==
  ASSUME ChainExact(slot), NEW d \in SUBSET Keys, NEW k \in Keys, InsertChained(k, d)
  PROVE  /\ Inserted(slot, d, k, slot', deny')
         /\ pt < 0 /\ UNCHANGED <<pt, inl>>
  <1>1. CASE InsertRoomy(k, d)
    <2>1. k \notin Stored \cup d /\ pt < 0 /\ UNCHANGED <<pt, inl>>
      BY <1>1 DEF InsertRoomy
    <2>2. PICK i \in HighestBelowRate(slot) : \E p \in Pour(slot[i], {k}) :
             slot' = [slot EXCEPT ![i] = p[1]] /\ deny' = d \cup p[2]
      BY <1>1 DEF InsertRoomy
    <2>3. PICK p \in Pour(slot[i], {k}) :
             slot' = [slot EXCEPT ![i] = p[1]] /\ deny' = d \cup p[2]
      BY <2>2
    <2>4. Inserted(slot, d, k, [slot EXCEPT ![i] = p[1]], d \cup p[2])
      BY <2>1, TakenByTable
    <2> QED  BY <2>1, <2>3, <2>4
  <1>2. CASE InsertAttempted(k, d)
    <2>1. PICK i \in HighestBelowRate(slot) : \E p \in Pour(slot[i], {k}) :
             p[2] = {} /\ slot' = [slot EXCEPT ![i] = p[1]]
      BY <1>2 DEF InsertAttempted
    <2>2. PICK p \in Pour(slot[i], {k}) :
             p[2] = {} /\ slot' = [slot EXCEPT ![i] = p[1]]
      BY <2>1
    <2>3. k \notin Stored \cup d /\ deny' = d /\ pt < 0 /\ UNCHANGED <<pt, inl>>
      BY <1>2 DEF InsertAttempted
    <2>4. Inserted(slot, d, k, [slot EXCEPT ![i] = p[1]], d \cup p[2])
      BY <2>3, TakenByTable
    <2>5. d \cup p[2] = d
      BY <2>2
    <2> QED  BY <2>2, <2>3, <2>4, <2>5
  <1>3. CASE ExpandFirst(k, d)
    BY <1>3, FirstTable DEF ExpandFirst
  <1>4. CASE ExpandNext(k, d)
    <2>1. k \notin Stored \cup d /\ pt < 0 /\ UNCHANGED <<pt, inl>>
      BY <1>4 DEF ExpandNext
    <2> DEFINE New(i, x) == IF i = 1 THEN HalfOf(x[1][0])
                            ELSE NewTable(x[1][1].len1, x[1][1].len2)
    <2>2. PICK i \in {1, 2}, x \in ToExpand(k, d) :
            /\ Live(slot) = 0 .. i - 1
            /\ \E p \in Pour(New(i, x), d \cup {x[2]}) :
                  slot' = [x[1] EXCEPT ![i] = p[1]] /\ deny' = p[2]
      BY <1>4 DEF ExpandNext
    <2>3. ChainExact(x[1]) /\ Live(x[1]) = 0 .. i - 1
      BY <2>1, <2>2, ToExpandAccounts
    <2>4. Exact(New(i, x), Keys) /\ New(i, x).keys = {}
      <3>1. CASE i = 1
        <4>1. 0 \in Live(x[1])
          BY <2>3, <3>1
        <4>2. Exact(x[1][0], Keys)
          BY <2>3, <4>1 DEF ChainExact
        <4> QED  BY <3>1, <4>2, HalfIsExact
      <3>2. CASE i = 2
        <4>1. 1 \in Live(x[1])
          BY <2>3, <3>2
        <4>2. x[1][1].len1 \in Nat /\ x[1][1].len2 \in Nat
          BY <2>3, <4>1 DEF ChainExact, Exact, Records
        <4> QED  BY <3>2, <4>2, NewIsExact
      <3> QED  BY <3>1, <3>2
    <2> HIDE DEF New
    <2>5. PICK p \in Pour(New(i, x), d \cup {x[2]}) :
             slot' = [x[1] EXCEPT ![i] = p[1]] /\ deny' = p[2]
      BY <2>2
    <2>6. Inserted(slot, d, k, [x[1] EXCEPT ![i] = p[1]], p[2])
      BY <2>1, <2>2, <2>4, NextTable
    <2> QED  BY <2>1, <2>5, <2>6
  <1>5. CASE ExpandMerge(k, d)
    <2> DEFINE Chain(m, p) == [i \in I |-> IF i = 0 THEN m[1]
                                           ELSE IF i = 1 THEN p[1] ELSE NoTable]
    <2>1. /\ k \notin Stored \cup d /\ pt < 0 /\ UNCHANGED <<pt, inl>>
          /\ Live(slot) = I /\ DisjointTables(slot)
      BY <1>5 DEF ExpandMerge
    <2>2. PICK x \in ToExpand(k, d) :
          \E m \in MergeTables(x[1][0], x[1][1], x[1][2]) :
          \E p \in Pour(HalfOf(m[1]), d \cup m[2] \cup {x[2]}) :
             slot' = Chain(m, p) /\ deny' = p[2]
      BY <1>5 DEF ExpandMerge
    <2>3. PICK m \in MergeTables(x[1][0], x[1][1], x[1][2]) :
          \E p \in Pour(HalfOf(m[1]), d \cup m[2] \cup {x[2]}) :
             slot' = Chain(m, p) /\ deny' = p[2]
      BY <2>2
    <2>4. PICK p \in Pour(HalfOf(m[1]), d \cup m[2] \cup {x[2]}) :
             slot' = Chain(m, p) /\ deny' = p[2]
      BY <2>3
    <2>5. Inserted(slot, d, k, Chain(m, p), p[2])
      BY <2>1, MergedTables
    <2> QED  BY <2>1, <2>4, <2>5
  <1> QED  BY <1>1, <1>2, <1>3, <1>4, <1>5 DEF InsertChained

-----------------------------------------------------------------------------
(* Deletion from a chain.                                                  *)

(* What a deletion of k does to a chain and the denylist.                  *)
Removed(s, d, k, s2, d2) ==
    /\ ChainExact(s2)
    /\ d2 \in SUBSET Keys
    /\ Apart(s, d) => /\ Apart(s2, d2)
                      /\ KeysOf(s2) \cup d2 = (KeysOf(s) \cup d) \ {k}

LEMMA AfterRemoves ==
  ASSUME ChainExact(slot), NEW k \in Stored
  PROVE  /\ ChainExact(After(k)) /\ Live(After(k)) = Live(slot)
         /\ TablesApart(slot) => /\ TablesApart(After(k))
                                 /\ KeysOf(After(k)) = Stored \ {k}
  <1> DEFINE holds == {i \in Live(slot) : k \in slot[i].keys}
             first == CHOOSE i \in holds : \A j \in holds : i <= j
             t     == Without(slot[first], k)
             s2    == [slot EXCEPT ![first] = t]
  <1>1. holds \subseteq I /\ holds # {}
    BY DEF Stored, KeysOf, Live
  <1>2. \E i \in holds : \A j \in holds : i <= j
    <2>1. CASE 0 \in holds
      BY <1>1, <2>1 DEF I
    <2>2. CASE 0 \notin holds /\ 1 \in holds
      BY <1>1, <2>2 DEF I
    <2>3. CASE 0 \notin holds /\ 1 \notin holds
      BY <1>1, <2>3 DEF I
    <2> QED  BY <2>1, <2>2, <2>3
  <1>3. first \in holds
    BY <1>2
  <1>4. first \in I /\ first \in Live(slot) /\ k \in slot[first].keys
    BY <1>1, <1>3
  <1>5. After(k) = s2
    BY <1>4 DEF After, Live
  <1> HIDE DEF first
  <1>6. Exact(t, Keys) /\ t.keys = slot[first].keys \ {k} /\ At(slot, first) = slot[first].keys
    BY <1>4, WithoutIsExact DEF ChainExact, At, Live
  <1> HIDE DEF t
  <1>7. /\ ChainExact(s2) /\ Live(s2) = Live(slot) \cup {first}
        /\ \A j \in I : At(s2, j) = IF j = first THEN t.keys ELSE At(slot, j)
    BY <1>4, <1>6, PutTable
  <1> HIDE DEF s2
  <1>8. /\ KeysOf(s2) = At(s2, 0) \cup At(s2, 1) \cup At(s2, 2)
        /\ Stored = At(slot, 0) \cup At(slot, 1) \cup At(slot, 2)
    BY <1>7, KeysOfAt DEF Stored
  <1>9. first = 0 \/ first = 1 \/ first = 2
    BY <1>4 DEF I
  <1>10. 0 \in I /\ 1 \in I /\ 2 \in I
    BY DEF I
  <1>11. ASSUME TablesApart(slot)
         PROVE  TablesApart(s2) /\ KeysOf(s2) = Stored \ {k}
    BY <1>4, <1>6, <1>7, <1>8, <1>9, <1>10, <1>11 DEF TablesApart
  <1> QED  BY <1>4, <1>5, <1>7, <1>11

(* Moving the contents of the tables of After(k), and handing some back,   *)
(* is a deletion of k.                                                     *)
LEMMA RearrangedRemoves ==
  ASSUME ChainExact(slot), NEW k \in Stored, NEW d \in SUBSET Keys,
         NEW s2, ChainExact(s2), NEW R \in SUBSET Keys,
         TablesApart(After(k)) => /\ TablesApart(s2) /\ KeysOf(s2) \cap R = {}
                                  /\ KeysOf(s2) \cup R = KeysOf(After(k))
  PROVE  Removed(slot, d, k, s2, d \cup R)
  <1>1. TablesApart(slot) => TablesApart(After(k)) /\ KeysOf(After(k)) = Stored \ {k}
    BY AfterRemoves
  <1> QED  BY <1>1 DEF Removed, Apart, Stored

LEMMA SmallBig ==
  ASSUME NEW s, ChainExact(s), Live(s) = I
  PROVE  \/ Small(s) = 1 /\ Big(s) = 2
         \/ Small(s) = 2 /\ Big(s) = 1
  BY DEF Small, Big

(* One table: halved.                                                      *)
LEMMA HalvedRemoves ==
  ASSUME ChainExact(slot), NEW k \in Stored, NEW d \in SUBSET Keys,
         Live(slot) = {0}, NEW p \in CompressTable(After(k)[0])
  PROVE  Removed(slot, d, k, [After(k) EXCEPT ![0] = p[1]], d \cup p[2])
  <1> DEFINE s  == After(k)
             s2 == [s EXCEPT ![0] = p[1]]
  <1>1. ChainExact(s) /\ Live(s) = {0}
    BY AfterRemoves
  <1>2. 0 \in I /\ 1 \in I /\ 2 \in I
    BY DEF I
  <1> HIDE DEF s
  <1>3. /\ Exact(s[0], Keys) /\ At(s, 0) = s[0].keys
        /\ At(s, 1) = {} /\ At(s, 2) = {}
    BY <1>1, <1>2 DEF ChainExact, At, Live
  <1>4. /\ Exact(p[1], Keys) /\ p[2] \in SUBSET Keys
        /\ p[1].keys \cup p[2] = s[0].keys /\ p[1].keys \cap p[2] = {}
    BY <1>3, KeysFinite, CompressAccounts DEF s
  <1>5. /\ ChainExact(s2)
        /\ \A j \in I : At(s2, j) = IF j = 0 THEN p[1].keys ELSE At(s, j)
    <2>1. p[1] \in Tables /\ p[1] # NoTable
      BY <1>4, ExactIsTable
    <2> QED  BY <1>1, <1>4, <1>2, <2>1 DEF ChainExact, Live, At
  <1> HIDE DEF s2
  <1>6. /\ KeysOf(s2) = At(s2, 0) \cup At(s2, 1) \cup At(s2, 2)
        /\ KeysOf(s) = At(s, 0) \cup At(s, 1) \cup At(s, 2)
    BY <1>1, <1>5, KeysOfAt
  <1>7. TablesApart(s2) /\ KeysOf(s2) \cap p[2] = {} /\ KeysOf(s2) \cup p[2] = KeysOf(s)
    BY <1>2, <1>3, <1>4, <1>5, <1>6 DEF TablesApart
  <1>8. Removed(slot, d, k, s2, d \cup p[2])
    BY <1>4, <1>5, <1>7, RearrangedRemoves DEF s
  <1> QED  BY <1>8 DEF s2, s

(* Two tables: the second is dropped because it is empty.                  *)
LEMMA DroppedRemoves ==
  ASSUME ChainExact(slot), NEW k \in Stored, NEW d \in SUBSET Keys,
         Live(slot) = {0, 1}, After(k)[1].num = 0
  PROVE  Removed(slot, d, k, [After(k) EXCEPT ![1] = NoTable], d)
  <1> DEFINE s  == After(k)
             s2 == [s EXCEPT ![1] = NoTable]
  <1>1. ChainExact(s) /\ Live(s) = {0, 1} /\ s[1].num = 0
    BY AfterRemoves
  <1>2. 0 \in I /\ 1 \in I /\ 2 \in I
    BY DEF I
  <1> HIDE DEF s
  <1>3. Exact(s[1], Keys) /\ At(s, 1) = s[1].keys
    BY <1>1 DEF ChainExact, At, Live
  <1>4. At(s, 1) = {}
    BY <1>1, <1>3, ZeroIsEmpty
  <1>5. /\ ChainExact(s2)
        /\ \A j \in I : At(s2, j) = IF j = 1 THEN {} ELSE At(s, j)
    BY <1>1, <1>2, DropTable
  <1> HIDE DEF s2
  <1>6. /\ KeysOf(s2) = At(s2, 0) \cup At(s2, 1) \cup At(s2, 2)
        /\ KeysOf(s) = At(s, 0) \cup At(s, 1) \cup At(s, 2)
    BY <1>1, <1>5, KeysOfAt
  <1>7. /\ KeysOf(s2) = KeysOf(s)
        /\ TablesApart(s) => TablesApart(s2)
    BY <1>2, <1>4, <1>5, <1>6 DEF TablesApart
  <1>8. Removed(slot, d, k, s2, d \cup {})
    BY <1>5, <1>7, RearrangedRemoves DEF s
  <1>9. d \cup {} = d
    OBVIOUS
  <1> QED  BY <1>8, <1>9 DEF s2, s

(* Two tables: the second is emptied into the first.                       *)
LEMMA ShrunkTwoRemoves ==
  ASSUME ChainExact(slot), NEW k \in Stored, NEW d \in SUBSET Keys,
         Live(slot) = {0, 1}, After(k)[0].keys \cap After(k)[1].keys = {},
         NEW p \in Pour(After(k)[0], After(k)[1].keys)
  PROVE  Removed(slot, d, k, [After(k) EXCEPT ![0] = p[1], ![1] = NoTable], d \cup p[2])
  <1> DEFINE s  == After(k)
             s1 == [s EXCEPT ![0] = p[1]]
             s2 == [s1 EXCEPT ![1] = NoTable]
  <1>1. /\ ChainExact(s) /\ Live(s) = {0, 1} /\ s[0].keys \cap s[1].keys = {}
        /\ p \in Pour(s[0], s[1].keys)
    BY AfterRemoves
  <1>2. 0 \in I /\ 1 \in I /\ 2 \in I
    BY DEF I
  <1>3. [After(k) EXCEPT ![0] = p[1], ![1] = NoTable] = s2
    BY <1>2
  <1> HIDE DEF s
  <1>4. /\ Exact(s[0], Keys) /\ At(s, 0) = s[0].keys
        /\ Exact(s[1], Keys) /\ At(s, 1) = s[1].keys /\ At(s, 2) = {}
    BY <1>1, <1>2 DEF ChainExact, At, Live
  <1>5. s[1].keys \in SUBSET Keys /\ s[1].keys \cap s[0].keys = {}
    BY <1>1, <1>4 DEF Exact, Records
  <1>6. /\ Exact(p[1], Keys) /\ p[2] \in SUBSET Keys
        /\ p[1].keys \cup p[2] = s[0].keys \cup s[1].keys /\ p[1].keys \cap p[2] = {}
    BY <1>1, <1>4, <1>5, KeysFinite, PourAccounts
  <1>7. /\ ChainExact(s1)
        /\ \A j \in I : At(s1, j) = IF j = 0 THEN p[1].keys ELSE At(s, j)
    <2>1. p[1] \in Tables /\ p[1] # NoTable
      BY <1>6, ExactIsTable
    <2> QED  BY <1>1, <1>6, <1>2, <2>1 DEF ChainExact, Live, At
  <1> HIDE DEF s1
  <1>8. /\ ChainExact(s2)
        /\ \A j \in I : At(s2, j) = IF j = 1 THEN {} ELSE At(s1, j)
    BY <1>2, <1>7, DropTable
  <1> HIDE DEF s2
  <1>9. /\ KeysOf(s2) = At(s2, 0) \cup At(s2, 1) \cup At(s2, 2)
        /\ KeysOf(s) = At(s, 0) \cup At(s, 1) \cup At(s, 2)
    BY <1>1, <1>8, KeysOfAt
  <1>10. At(s2, 0) = p[1].keys /\ At(s2, 1) = {} /\ At(s2, 2) = {}
    BY <1>2, <1>4, <1>7, <1>8
  <1>11. TablesApart(s2) /\ KeysOf(s2) \cap p[2] = {} /\ KeysOf(s2) \cup p[2] = KeysOf(s)
    BY <1>4, <1>6, <1>9, <1>10 DEF TablesApart
  <1>12. Removed(slot, d, k, s2, d \cup p[2])
    BY <1>6, <1>8, <1>11, RearrangedRemoves DEF s
  <1> QED  BY <1>3, <1>12

(* Three tables: the smaller of the last two is dropped because it is      *)
(* empty.                                                                  *)
LEMMA DroppedOfThreeRemoves ==
  ASSUME ChainExact(slot), NEW k \in Stored, NEW d \in SUBSET Keys,
         Live(slot) = I, After(k)[Small(After(k))].num = 0
  PROVE  Removed(slot, d, k,
                 [After(k) EXCEPT ![1] = After(k)[Big(After(k))], ![2] = NoTable], d)
  <1> DEFINE s  == After(k)
             s2 == [i \in I |-> IF i = 0 THEN s[0] ELSE IF i = 1 THEN s[Big(s)] ELSE NoTable]
  <1>1. ChainExact(s) /\ Live(s) = I /\ s[Small(s)].num = 0
    BY AfterRemoves
  <1>2. [s EXCEPT ![1] = s[Big(s)], ![2] = NoTable] = s2
    BY <1>1, AssignedTwo
  <1> HIDE DEF s
  <1>3. /\ Exact(s[0], Keys) /\ Exact(s[1], Keys) /\ Exact(s[2], Keys)
        /\ At(s, 0) = s[0].keys /\ At(s, 1) = s[1].keys /\ At(s, 2) = s[2].keys
    BY <1>1, FullChain
  <1>4. KeysOf(s) = s[0].keys \cup s[1].keys \cup s[2].keys
    BY <1>1, <1>3, KeysOfAt
  <1>5. \/ Small(s) = 1 /\ Big(s) = 2
        \/ Small(s) = 2 /\ Big(s) = 1
    BY <1>1, SmallBig
  <1>6. s[Small(s)].keys = {} /\ Exact(s[Big(s)], Keys)
    BY <1>1, <1>3, <1>5, ZeroIsEmpty
  <1>7. /\ ChainExact(s2) /\ KeysOf(s2) = s[0].keys \cup s[Big(s)].keys
        /\ At(s2, 0) = s[0].keys /\ At(s2, 1) = s[Big(s)].keys /\ At(s2, 2) = {}
    BY <1>3, <1>6, TwoCounted
  <1> HIDE DEF s2
  <1>8. /\ KeysOf(s2) = KeysOf(s)
        /\ TablesApart(s) => TablesApart(s2)
    BY <1>3, <1>4, <1>5, <1>6, <1>7 DEF TablesApart
  <1>9. Removed(slot, d, k, s2, d \cup {})
    BY <1>7, <1>8, RearrangedRemoves DEF s
  <1>10. d \cup {} = d
    OBVIOUS
  <1> QED  BY <1>2, <1>9, <1>10 DEF s

(* Three tables: the smaller of the last two is spread over the others.    *)
LEMMA ShrunkThreeRemoves ==
  ASSUME ChainExact(slot), NEW k \in Stored, NEW d \in SUBSET Keys, Live(slot) = I,
         After(k)[Small(After(k))].keys
           \cap (After(k)[0].keys \cup After(k)[Big(After(k))].keys) = {},
         NEW r \in Redistribute(After(k)[Small(After(k))], After(k)[0],
                                After(k)[Big(After(k))])
  PROVE  LET s2 == [After(k) EXCEPT ![0] = r[1], ![1] = r[2], ![2] = NoTable]
         IN  /\ ChainExact(s2) /\ d \cup r[3] \in SUBSET Keys
             /\ StoredTwice(r) \in SUBSET Keys
             /\ StoredTwice(r) = {} => Removed(slot, d, k, s2, d \cup r[3])
  <1> DEFINE s  == After(k)
             sm == s[Small(s)]
             tb == s[Big(s)]
             s2 == [i \in I |-> IF i = 0 THEN r[1] ELSE IF i = 1 THEN r[2] ELSE NoTable]
  <1>1. /\ ChainExact(s) /\ Live(s) = I
        /\ sm.keys \cap (s[0].keys \cup tb.keys) = {}
        /\ r \in Redistribute(sm, s[0], tb)
    BY AfterRemoves
  <1>2. [s EXCEPT ![0] = r[1], ![1] = r[2], ![2] = NoTable] = s2
    BY <1>1, AssignedThree
  <1> HIDE DEF s
  <1>3. /\ Exact(s[0], Keys) /\ Exact(s[1], Keys) /\ Exact(s[2], Keys)
        /\ At(s, 0) = s[0].keys /\ At(s, 1) = s[1].keys /\ At(s, 2) = s[2].keys
    BY <1>1, FullChain
  <1>4. KeysOf(s) = s[0].keys \cup s[1].keys \cup s[2].keys
    BY <1>1, <1>3, KeysOfAt
  <1>5. \/ Small(s) = 1 /\ Big(s) = 2
        \/ Small(s) = 2 /\ Big(s) = 1
    BY <1>1, SmallBig
  <1> HIDE DEF sm, tb
  <1>6. /\ Exact(sm, Keys) /\ Exact(tb, Keys)
        /\ KeysOf(s) = sm.keys \cup s[0].keys \cup tb.keys
    BY <1>1, <1>3, <1>4, <1>5 DEF sm, tb
  <1>7. /\ Exact(r[1], Keys) /\ Exact(r[2], Keys) /\ r[3] \in SUBSET Keys
        /\ r[2].keys \cap r[3] = {} /\ StoredTwice(r) \in SUBSET Keys
        /\ StoredTwice(r) = {} =>
              r[1].keys \cup r[2].keys \cup r[3] = sm.keys \cup s[0].keys \cup tb.keys
    <2>1. /\ IsFiniteSet(Keys) /\ Exact(sm, Keys) /\ Exact(s[0], Keys) /\ Exact(tb, Keys)
          /\ sm.keys \cap (s[0].keys \cup tb.keys) = {} /\ r \in Redistribute(sm, s[0], tb)
      BY <1>1, <1>3, <1>6, KeysFinite
    <2> QED  BY ONLY <2>1, RedistributeAccounts
  <1>8. /\ ChainExact(s2) /\ KeysOf(s2) = r[1].keys \cup r[2].keys
        /\ At(s2, 0) = r[1].keys /\ At(s2, 1) = r[2].keys /\ At(s2, 2) = {}
    BY <1>7, TwoCounted
  <1> HIDE DEF s2
  <1>9. ASSUME StoredTwice(r) = {}
        PROVE  Removed(slot, d, k, s2, d \cup r[3])
    <2>1. KeysOf(s2) \cup r[3] = KeysOf(s)
      BY <1>6, <1>7, <1>8, <1>9
    <2>2. TablesApart(s2) /\ KeysOf(s2) \cap r[3] = {}
      BY <1>7, <1>8, <1>9 DEF TablesApart, StoredTwice
    <2> QED  BY <1>7, <1>8, <2>1, <2>2, RearrangedRemoves DEF s
  <1> QED  BY <1>2, <1>7, <1>8, <1>9 DEF s, sm, tb

(* The only table of the slot is empty.                                    *)
LEMMA LastRemoves ==
  ASSUME ChainExact(slot), NEW k \in Stored, NEW d \in SUBSET Keys,
         Live(slot) = {0}, After(k)[0].num = 0
  PROVE  Removed(slot, d, k, EmptyChain, d)
  <1> DEFINE s == After(k)
  <1>1. ChainExact(s) /\ Live(s) = {0} /\ s[0].num = 0
    BY AfterRemoves
  <1> HIDE DEF s
  <1>2. /\ Exact(s[0], Keys) /\ At(s, 0) = s[0].keys /\ At(s, 1) = {} /\ At(s, 2) = {}
    BY <1>1 DEF ChainExact, At, Live, I
  <1>3. KeysOf(s) = {}
    BY <1>1, <1>2, ZeroIsEmpty, KeysOfAt
  <1>4. Removed(slot, d, k, EmptyChain, d \cup {})
    BY <1>3, EmptyChainHolds, RearrangedRemoves DEF s
  <1>5. d \cup {} = d
    OBVIOUS
  <1> QED  BY <1>4, <1>5

(* Whatever a deletion in a chain moves or drops, it takes k away and      *)
(* nothing else, unless it doubles a key; and when it frees the slot or    *)
(* reports it empty, nothing is left in the slot.                          *)
LEMMA DelChainedAccounts ==
  ASSUME ChainExact(slot), deny \in SUBSET Keys, doubled \in SUBSET Keys,
         NEW k \in Keys, pt \in Int, pt < 0, DelFound(k)
  PROVE  /\ ChainExact(slot') /\ deny' \in SUBSET Keys
         /\ doubled' \in SUBSET Keys /\ doubled \subseteq doubled'
         /\ doubled' = {} => Removed(slot, deny, k, slot', deny')
         /\ inl' = inl
         /\ \/ pt' = pt
            \/ pt' = 0 /\ Live(slot') = {} /\ deny' = {}
         /\ \/ result' = 1
            \/ result' = -1 /\ Live(slot') = {} /\ deny' = {}
  <1> DEFINE s == After(k)
  <1>1. CASE k \in Stored /\ DelKeeps(k)
    <2>1. /\ slot' = s /\ result' = 1 /\ UNCHANGED <<pt, inl, deny, doubled>>
      BY <1>1 DEF DelKeeps
    <2>2. ChainExact(s) /\ Removed(slot, deny, k, s, deny)
      BY <1>1, AfterRemoves DEF Removed, Apart, Stored
    <2> QED  BY <2>1, <2>2
  <1>2. CASE k \in Stored /\ DelLast(k)
    <2>1. /\ Live(slot) = {0} /\ s[0].num = 0 /\ slot' = EmptyChain
          /\ UNCHANGED <<inl, deny, doubled>>
          /\ \/ pt' = pt /\ result' = 1
             \/ pt' = 0 /\ result' = -1 /\ deny = {}
      BY <1>2 DEF DelLast
    <2>2. Removed(slot, deny, k, EmptyChain, deny)
      BY <1>2, <2>1, LastRemoves
    <2> QED  BY <2>1, <2>2, EmptyChainHolds
  <1>3. CASE k \in Stored /\ DelHalves(k)
    <2>1. PICK p \in CompressTable(s[0]) :
            slot' = [s EXCEPT ![0] = p[1]] /\ deny' = deny \cup p[2]
      BY <1>3 DEF DelHalves
    <2>2. Live(slot) = {0} /\ result' = 1 /\ UNCHANGED <<pt, inl, doubled>>
      BY <1>3 DEF DelHalves
    <2>3. Removed(slot, deny, k, [s EXCEPT ![0] = p[1]], deny \cup p[2])
      BY <1>3, <2>2, HalvedRemoves
    <2>4. Removed(slot, deny, k, slot', deny')
      BY <2>1, <2>3
    <2>5. ChainExact(slot') /\ deny' \in SUBSET Keys
      BY <2>4 DEF Removed
    <2> HIDE DEF s
    <2> QED  BY <2>2, <2>4, <2>5
  <1>4. CASE k \in Stored /\ DelDrops(k)
    <2>1. result' = 1 /\ UNCHANGED <<pt, inl, deny, doubled>>
      BY <1>4 DEF DelDrops
    <2>2. CASE /\ Live(slot) = {0, 1} /\ s[1].num = 0
               /\ slot' = [s EXCEPT ![1] = NoTable]
      <3>1. Removed(slot, deny, k, slot', deny)
        BY <1>4, <2>2, DroppedRemoves
      <3> QED  BY <2>1, <3>1 DEF Removed
    <2>3. CASE /\ Live(slot) = I /\ s[Small(s)].num = 0
               /\ slot' = [s EXCEPT ![1] = s[Big(s)], ![2] = NoTable]
      <3>1. Removed(slot, deny, k, slot', deny)
        BY <1>4, <2>3, DroppedOfThreeRemoves
      <3> QED  BY <2>1, <3>1 DEF Removed
    <2> QED  BY <1>4, <2>2, <2>3 DEF DelDrops
  <1>5. CASE k \in Stored /\ DelShrinksTwo(k)
    <2>1. PICK p \in Pour(s[0], s[1].keys) :
            slot' = [s EXCEPT ![0] = p[1], ![1] = NoTable] /\ deny' = deny \cup p[2]
      BY <1>5 DEF DelShrinksTwo
    <2>2. /\ Live(slot) = {0, 1} /\ s[0].keys \cap s[1].keys = {}
          /\ result' = 1 /\ UNCHANGED <<pt, inl, doubled>>
      BY <1>5 DEF DelShrinksTwo
    <2>3. Removed(slot, deny, k, slot', deny')
      BY <1>5, <2>1, <2>2, ShrunkTwoRemoves
    <2>4. ChainExact(slot') /\ deny' \in SUBSET Keys
      BY <2>3 DEF Removed
    <2> HIDE DEF s
    <2> QED  BY <2>2, <2>3, <2>4
  <1>6. CASE k \in Stored /\ DelShrinksThree(k)
    <2>1. PICK r \in Redistribute(s[Small(s)], s[0], s[Big(s)]) :
            /\ slot' = [s EXCEPT ![0] = r[1], ![1] = r[2], ![2] = NoTable]
            /\ deny' = deny \cup r[3]
            /\ doubled' = doubled \cup StoredTwice(r)
      BY <1>6 DEF DelShrinksThree
    <2>2. /\ Live(slot) = I /\ s[Small(s)].keys \cap (s[0].keys \cup s[Big(s)].keys) = {}
          /\ result' = 1 /\ UNCHANGED <<pt, inl>>
      BY <1>6 DEF DelShrinksThree
    <2>3. /\ ChainExact(slot') /\ deny' \in SUBSET Keys /\ StoredTwice(r) \in SUBSET Keys
          /\ StoredTwice(r) = {} => Removed(slot, deny, k, slot', deny')
      BY <1>6, <2>1, <2>2, ShrunkThreeRemoves
    <2>4. doubled \subseteq doubled' /\ StoredTwice(r) \subseteq doubled'
      BY <2>1
    <2>5. doubled' \in SUBSET Keys
      BY <2>1, <2>3
    <2> HIDE DEF s
    <2> QED  BY <2>2, <2>3, <2>4, <2>5
  <1>7. CASE k \notin Stored /\ DelDenied(k)
    <2>1. /\ deny' = deny \ {k} /\ UNCHANGED <<pt, inl, slot, doubled>>
          /\ \/ result' = 1
             \/ result' = -1 /\ deny = {k} /\ Live(slot) = {}
      BY <1>7 DEF DelDenied
    <2>2. Removed(slot, deny, k, slot, deny \ {k})
      BY <1>7 DEF Removed, Apart, Stored
    <2> QED  BY <2>1, <2>2
  <1>8. ~ DelInline(k)
    BY DEF DelInline
  <1>9. \/ /\ k \in Stored
           /\ \/ DelKeeps(k) \/ DelLast(k) \/ DelHalves(k) \/ DelDrops(k)
              \/ DelShrinksTwo(k) \/ DelShrinksThree(k)
        \/ k \notin Stored /\ DelDenied(k)
    BY <1>8 DEF DelFound
  <1> QED  BY <1>1, <1>2, <1>3, <1>4, <1>5, <1>6, <1>7, <1>9

-----------------------------------------------------------------------------
(* The invariant holds.                                                    *)

LEMMA InitInv == Init => IInv
  <1> SUFFICES ASSUME Init PROVE IInv
    OBVIOUS
  <1>1. /\ pt = 0 /\ inl = {} /\ slot = EmptyChain /\ deny = {} /\ others = 0
        /\ phase = "idle" /\ result = 0 /\ edges = {} /\ doubled = {}
    BY DEF Init
  <1>2. Lt \in Nat /\ MaxOthers \in Nat
    BY SizeAssumption
  <1>3. ChainExact(slot) /\ Live(slot) = {} /\ KeysOf(slot) = {} /\ TablesApart(slot)
    BY <1>1, EmptyChainHolds
  <1>4. TypeOK
    BY <1>1, <1>2, <1>3 DEF TypeOK, ChainExact
  <1>5. Form
    BY <1>1, <1>3, FS_EmptySet DEF Form
  <1>6. Accounted
    BY <1>1, <1>3 DEF Accounted, Apart, Stored
  <1> QED  BY <1>3, <1>4, <1>5, <1>6 DEF IInv

(* An inserted edge is added where query looks for it.                     *)
LEMMA InsertKeepsInv ==
  ASSUME IInv, NEW k \in Keys, Insert(k)
  PROVE  IInv'
  <1>1. /\ TypeOK /\ ChainExact(slot) /\ Form /\ Accounted
    BY DEF IInv
  <1>2. /\ pt \in -1 .. Lt /\ inl \in SUBSET Keys /\ deny \in SUBSET Keys
        /\ slot \in [I -> Tables \cup {NoTable}] /\ edges \in SUBSET Keys
        /\ Lt \in Nat
    BY <1>1, SizeAssumption DEF TypeOK
  <1>3. /\ ~ Query(k) /\ InsertNew(k, deny) /\ edges' = edges \cup {k}
        /\ UNCHANGED <<others, phase, result, doubled>>
    BY DEF Insert
  <1>4. IsFiniteSet(inl)
    BY <1>2, KeysFinite, FS_Subset
  <1>5. CASE InsertInline(k, deny)
    <2>1. /\ 0 <= pt /\ pt < Lt /\ k \notin inl /\ inl' = inl \cup {k}
          /\ pt' = pt + 1 /\ deny' = deny /\ slot' = slot
      BY <1>5 DEF InsertInline
    <2>2. Live(slot) = {} /\ deny = {} /\ pt = Cardinality(inl)
      BY <1>1, <2>1 DEF Form
    <2>3. pt' = Cardinality(inl')
      BY <1>4, <2>1, <2>2, FS_AddElement
    <2>4. TypeOK'
      BY <1>1, <1>2, <1>3, <2>1 DEF TypeOK
    <2>5. Form'
      BY <1>2, <2>1, <2>2, <2>3 DEF Form
    <2>6. Accounted'
      BY <1>1, <1>2, <1>3, <2>1 DEF Accounted
    <2> QED  BY <1>1, <2>1, <2>4, <2>5, <2>6 DEF IInv
  <1>6. CASE InsertConverts(k, deny)
    <2> DEFINE new == NewTable(U1, U2)
    <2>1. PICK p \in Pour(new, inl \cup {k}) :
            slot' = [slot EXCEPT ![0] = p[1]] /\ deny' = deny \cup p[2]
      BY <1>6 DEF InsertConverts
    <2>2. pt = Lt /\ inl' = {} /\ pt' = -1
      BY <1>6 DEF InsertConverts
    <2>3. Live(slot) = {} /\ deny = {}
      BY <1>1, <1>2, <2>2 DEF Form
    <2>4. Exact(new, Keys) /\ new.keys = {}
      BY SizeAssumption, NewIsExact
    <2> HIDE DEF new
    <2>5. inl \cup {k} \in SUBSET Keys /\ (inl \cup {k}) \cap new.keys = {}
      BY <1>2, <2>4
    <2>6. /\ Exact(p[1], Keys) /\ p[2] \in SUBSET Keys
          /\ p[1].keys \cup p[2] = inl \cup {k} /\ p[1].keys \cap p[2] = {}
      BY <2>4, <2>5, KeysFinite, PourAccounts
    <2>7. 0 \in I /\ 1 \in I /\ 2 \in I
      BY DEF I
    <2>8. /\ ChainExact(slot')
          /\ \A j \in I : At(slot', j) = IF j = 0 THEN p[1].keys ELSE At(slot, j)
      <3>1. p[1] \in Tables /\ p[1] # NoTable
        BY <2>6, ExactIsTable
      <3> QED  BY <1>1, <2>1, <2>6, <2>7, <3>1 DEF ChainExact, Live, At
    <2>9. At(slot', 0) = p[1].keys /\ At(slot', 1) = {} /\ At(slot', 2) = {}
      BY <1>1, <2>3, <2>7, <2>8, NoTables
    <2>10. KeysOf(slot') = At(slot', 0) \cup At(slot', 1) \cup At(slot', 2)
      BY <2>8, KeysOfAt
    <2>11. deny' = p[2]
      BY <2>1, <2>3
    <2>12. TypeOK'
      BY <1>1, <1>2, <1>3, <2>2, <2>6, <2>8, <2>11 DEF TypeOK, ChainExact
    <2>13. Form'
      BY <2>2 DEF Form
    <2>14. Accounted'
      <3>1. Apart(slot', deny')
        BY <2>6, <2>9, <2>10, <2>11 DEF Apart, TablesApart
      <3>2. doubled = {} => edges' = KeysOf(slot') \cup deny'
        BY <1>1, <1>2, <1>3, <2>2, <2>6, <2>9, <2>10, <2>11 DEF Accounted
      <3> QED  BY <1>3, <2>2, <3>1, <3>2 DEF Accounted, Stored
    <2> QED  BY <2>8, <2>12, <2>13, <2>14 DEF IInv
  <1>7. CASE InsertChained(k, deny)
    <2>1. Inserted(slot, deny, k, slot', deny') /\ pt < 0 /\ UNCHANGED <<pt, inl>>
      BY <1>1, <1>2, <1>7, InsertChainedAccounts
    <2>2. /\ ChainExact(slot') /\ deny' \in SUBSET Keys
          /\ KeysOf(slot') \cup deny' = Stored \cup deny \cup {k}
          /\ Apart(slot, deny) => Apart(slot', deny')
      BY <2>1 DEF Inserted, Stored
    <2>3. TypeOK'
      BY <1>1, <1>2, <1>3, <2>1, <2>2 DEF TypeOK, ChainExact
    <2>4. Form'
      BY <1>1, <1>2, <2>1 DEF Form
    <2>5. Accounted'
      BY <1>1, <1>2, <1>3, <2>1, <2>2 DEF Accounted, Stored
    <2> QED  BY <2>2, <2>3, <2>4, <2>5 DEF IInv
  <1> QED  BY <1>3, <1>5, <1>6, <1>7 DEF InsertNew

(* A deleted edge leaves the only place it is in; a slot reported empty    *)
(* is.                                                                     *)
LEMMA DelKeepsInv ==
  ASSUME IInv, NEW k \in Keys, Del(k)
  PROVE  /\ IInv'
         /\ result' = -1 /\ doubled' = {} => edges' = {}
  <1>1. /\ TypeOK /\ ChainExact(slot) /\ Form /\ Accounted
    BY DEF IInv
  <1>2. /\ pt \in -1 .. Lt /\ inl \in SUBSET Keys /\ deny \in SUBSET Keys
        /\ slot \in [I -> Tables \cup {NoTable}] /\ edges \in SUBSET Keys
        /\ doubled \in SUBSET Keys /\ Lt \in Nat /\ pt \in Int
    BY <1>1, SizeAssumption DEF TypeOK
  <1>3. DelFound(k) /\ edges' = edges \ {k} /\ phase' = "post" /\ others' = others
    BY DEF Del
  <1>4. CASE pt >= 0
    <2>1. /\ pt > 0 /\ k \in inl /\ inl' = inl \ {k} /\ pt' = pt - 1
          /\ result' = (IF pt = 1 THEN -1 ELSE 1)
          /\ UNCHANGED <<slot, deny, doubled>>
      BY <1>2, <1>3, <1>4 DEF DelFound, DelInline
    <2>2. Live(slot) = {} /\ deny = {} /\ pt = Cardinality(inl)
      BY <1>1, <1>4 DEF Form
    <2>3. IsFiniteSet(inl) /\ IsFiniteSet(inl')
      BY <1>2, <2>1, KeysFinite, FS_Subset
    <2>4. pt' = Cardinality(inl')
      BY <2>1, <2>2, <2>3, FS_RemoveElement
    <2>5. TypeOK'
      BY <1>1, <1>2, <1>3, <2>1 DEF TypeOK
    <2>6. Form'
      BY <1>2, <2>1, <2>2, <2>4 DEF Form
    <2>7. Accounted'
      BY <1>1, <1>2, <1>3, <2>1 DEF Accounted
    <2>8. ASSUME result' = -1, doubled' = {}
          PROVE  edges' = {}
      <3>1. pt' = 0
        BY <1>2, <2>1, <2>8
      <3>2. inl' = {}
        BY <2>3, <2>4, <3>1, FS_EmptySet
      <3> QED  BY <1>1, <1>3, <1>4, <2>1, <2>8, <3>2 DEF Accounted
    <2> QED  BY <1>1, <2>1, <2>5, <2>6, <2>7, <2>8 DEF IInv
  <1>5. CASE pt < 0
    <2>1. /\ ChainExact(slot') /\ deny' \in SUBSET Keys
          /\ doubled' \in SUBSET Keys /\ doubled \subseteq doubled'
          /\ doubled' = {} => Removed(slot, deny, k, slot', deny')
          /\ inl' = inl
          /\ \/ pt' = pt
             \/ pt' = 0 /\ Live(slot') = {} /\ deny' = {}
          /\ \/ result' = 1
             \/ result' = -1 /\ Live(slot') = {} /\ deny' = {}
      BY <1>1, <1>2, <1>3, <1>5, DelChainedAccounts
    <2>2. inl' = {}
      BY <1>1, <1>5, <2>1 DEF Form
    <2>3. TypeOK'
      BY <1>1, <1>2, <1>3, <2>1, <2>2 DEF TypeOK, ChainExact
    <2>4. Form'
      BY <1>2, <1>5, <2>1, <2>2, FS_EmptySet DEF Form
    <2>5. ASSUME doubled' = {}
          PROVE  Apart(slot', deny') /\ edges' = KeysOf(slot') \cup deny'
      <3>1. Apart(slot, deny) /\ edges = KeysOf(slot) \cup deny
        BY <1>1, <1>5, <2>1, <2>5 DEF Accounted, Stored
      <3> QED  BY <1>3, <2>1, <2>5, <3>1 DEF Removed
    <2>6. ASSUME Live(slot') = {}, deny' = {}, doubled' = {}
          PROVE  edges' = {}
      BY <2>1, <2>5, <2>6, NoTables
    <2>7. Accounted'
      BY <1>2, <1>5, <2>1, <2>2, <2>5, <2>6 DEF Accounted, Stored
    <2> QED  BY <2>1, <2>3, <2>4, <2>6, <2>7 DEF IInv
  <1> QED  BY <1>2, <1>4, <1>5

LEMMA PostDelKeepsInv ==
  ASSUME IInv, PostDel
  PROVE  IInv'
  <1>1. /\ TypeOK /\ ChainExact(slot) /\ Form /\ Accounted
    BY DEF IInv
  <1>2. /\ pt \in -1 .. Lt /\ deny \in SUBSET Keys /\ others \in 0 .. MaxOthers
        /\ Lt \in Nat /\ MaxOthers \in Nat
    BY <1>1, SizeAssumption DEF TypeOK
  <1>3. UNCHANGED <<phase, result, edges, doubled>>
    BY DEF PostDel
  <1>4. CASE /\ others > 0 /\ others' = others - 1
             /\ UNCHANGED <<pt, inl, slot, deny>>
    BY <1>1, <1>2, <1>3, <1>4 DEF IInv, TypeOK, Form, Accounted, Stored
  <1>5. CASE (\E k \in deny : PostReinsert(k)) /\ UNCHANGED others
    <2>1. PICK k \in deny : PostReinsert(k)
      BY <1>5
    <2>2. k \in Keys /\ pt < 0 /\ inl = {} /\ deny \ {k} \in SUBSET Keys
      BY <1>1, <1>2 DEF Form
    <2>3. CASE k \in Stored
      <3>1. deny' = deny \ {k} /\ UNCHANGED <<pt, inl, slot>>
        BY <2>1, <2>3 DEF PostReinsert
      <3>2. doubled # {}
        BY <1>1, <2>3 DEF Accounted, Apart, Stored
      <3>3. TypeOK'
        BY <1>1, <1>3, <1>5, <2>2, <3>1 DEF TypeOK
      <3>4. Form' /\ Accounted'
        BY <1>1, <1>3, <2>2, <3>1, <3>2 DEF Form, Accounted
      <3> QED  BY <1>1, <3>1, <3>3, <3>4 DEF IInv
    <2>4. CASE k \notin Stored
      <3>1. InsertChained(k, deny \ {k})
        BY <2>1, <2>4 DEF PostReinsert
      <3>2. Inserted(slot, deny \ {k}, k, slot', deny') /\ UNCHANGED <<pt, inl>>
        BY <1>1, <2>2, <3>1, InsertChainedAccounts
      <3>3. /\ ChainExact(slot') /\ deny' \in SUBSET Keys
            /\ KeysOf(slot') \cup deny' = Stored \cup deny
            /\ Apart(slot, deny) => Apart(slot', deny')
        BY <3>2 DEF Inserted, Stored, Apart
      <3>4. TypeOK'
        BY <1>1, <1>3, <1>5, <3>2, <3>3 DEF TypeOK, ChainExact
      <3>5. Form'
        BY <2>2, <3>2, <1>2 DEF Form
      <3>6. Accounted'
        BY <1>1, <1>2, <1>3, <2>2, <3>2, <3>3 DEF Accounted, Stored
      <3> QED  BY <3>3, <3>4, <3>5, <3>6 DEF IInv
    <2> QED  BY <2>3, <2>4
  <1> QED  BY <1>4, <1>5 DEF PostDel

LEMMA NextKeepsInv == IInv /\ [Next]_vars => IInv'
  <1> SUFFICES ASSUME IInv, [Next]_vars PROVE IInv'
    OBVIOUS
  <1>1. ASSUME NEW k \in Keys, Insert(k) PROVE IInv'
    BY <1>1, InsertKeepsInv
  <1>2. ASSUME NEW k \in Keys, Del(k) PROVE IInv'
    BY <1>2, DelKeepsInv
  <1>3. CASE PostDel
    BY <1>3, PostDelKeepsInv
  <1>4. CASE PostDone
    <2>1. UNCHANGED <<pt, inl, slot, deny, others, edges, doubled>>
          /\ phase' = "idle" /\ result' = 0
      BY <1>4 DEF PostDone
    <2> QED  BY <2>1 DEF IInv, TypeOK, Form, Accounted, Stored
  <1>5. CASE OthersMove
    <2>1. UNCHANGED <<pt, inl, slot, deny, phase, result, edges, doubled>>
          /\ others' \in 0 .. MaxOthers
      BY <1>5 DEF OthersMove
    <2> QED  BY <2>1 DEF IInv, TypeOK, Form, Accounted, Stored
  <1>6. CASE UNCHANGED vars
    BY <1>6 DEF vars, IInv, TypeOK, Form, Accounted, Stored
  <1> QED  BY <1>1, <1>2, <1>3, <1>4, <1>5, <1>6 DEF Next

(* The invariant holds in every state of every behaviour.                  *)
THEOREM AdjInvariant == Spec => []IInv
  <1>1. Init => IInv
    BY InitInv
  <1>2. IInv /\ [Next]_vars => IInv'
    BY NextKeepsInv
  <1> QED  BY <1>1, <1>2, PTL DEF Spec

(* Every variable keeps its type: no counter underflows and no merge,      *)
(* halving or deletion leaves a malformed table behind a pointer.          *)
THEOREM AdjTypeOK == Spec => []TypeOK
  <1>1. IInv => TypeOK
    BY DEF IInv
  <1> QED  BY <1>1, AdjInvariant, PTL

(* query finds exactly the edges inserted and not deleted, as long as no   *)
(* redistribution stored a key twice.                                      *)
THEOREM AdjNoEdgeLost == Spec => []NoEdgeLost
  <1>1. IInv => NoEdgeLost
    <2> SUFFICES ASSUME IInv, doubled = {}
                 PROVE  {k \in Keys : Query(k)} = edges
      BY DEF NoEdgeLost
    <2>1. /\ pt \in -1 .. Lt /\ Lt \in Nat /\ edges \in SUBSET Keys
          /\ pt >= 0 => edges = inl
          /\ pt < 0 => edges = Stored \cup deny
      BY SizeAssumption DEF IInv, TypeOK, Accounted
    <2>2. CASE pt >= 0
      BY <2>1, <2>2 DEF Query
    <2>3. CASE pt < 0
      BY <2>1, <2>3 DEF Query
    <2> QED  BY <2>1, <2>2, <2>3
  <1> QED  BY <1>1, AdjInvariant, PTL

(* The counters the growth and shrink thresholds read count the contents.  *)
THEOREM AdjNumsExact == Spec => []NumsExact
  <1>1. IInv => NumsExact
    BY DEF IInv, ChainExact, Exact, NumsExact
  <1> QED  BY <1>1, AdjInvariant, PTL

(* The enumerations of successors emit every edge, and each one once.      *)
THEOREM AdjEnumeratedOnce == Spec => []EnumeratedOnce
  <1>1. ASSUME IInv, doubled = {}
        PROVE  Successors = edges /\ Emitted = Cardinality(edges)
    <2>1. /\ pt \in -1 .. Lt /\ Lt \in Nat /\ inl \in SUBSET Keys /\ deny \in SUBSET Keys
          /\ pt >= 0 => edges = inl /\ pt = Cardinality(inl)
          /\ pt < 0 => edges = Stored \cup deny
          /\ ChainExact(slot) /\ Apart(slot, deny)
      BY <1>1, SizeAssumption DEF IInv, TypeOK, Accounted, Form
    <2>2. IsFiniteSet(inl) /\ IsFiniteSet(deny)
      BY <2>1, KeysFinite, FS_Subset
    <2>3. CASE pt >= 0
      <3>1. pt = 0 => inl = {}
        BY <2>1, <2>2, <2>3, FS_EmptySet
      <3> QED  BY <2>1, <2>3, <3>1, FS_EmptySet DEF Successors, Emitted
    <2>4. CASE pt < 0
      <3> DEFINE A == At(slot, 0)
                 B == At(slot, 1)
                 C == At(slot, 2)
      <3>1. 0 \in I /\ 1 \in I /\ 2 \in I
        BY DEF I
      <3>2. A \in SUBSET Keys /\ B \in SUBSET Keys /\ C \in SUBSET Keys
        BY <2>1, <3>1, ChainKeys
      <3>3. IsFiniteSet(A) /\ IsFiniteSet(B) /\ IsFiniteSet(C) /\ IsFiniteSet(A \cup B)
            /\ IsFiniteSet(A \cup B \cup C)
        BY <3>2, KeysFinite, FS_Subset, FS_Union
      <3>4. A \cap B = {} /\ (A \cup B) \cap C = {} /\ (A \cup B \cup C) \cap deny = {}
            /\ Stored = A \cup B \cup C
        BY <2>1, KeysOfAt DEF Apart, TablesApart, Stored
      <3>5. Emitted = Cardinality(A) + Cardinality(B) + Cardinality(C) + Cardinality(deny)
        BY <2>4, FS_EmptySet DEF Emitted, At
      <3> HIDE DEF A, B, C
      <3>6. /\ Cardinality(A \cup B) = Cardinality(A) + Cardinality(B)
            /\ Cardinality(A \cup B \cup C) = Cardinality(A \cup B) + Cardinality(C)
        BY <3>3, <3>4, UnionSize
      <3>7. Cardinality((A \cup B \cup C) \cup deny)
              = Cardinality(A \cup B \cup C) + Cardinality(deny)
        BY <2>2, <3>3, <3>4, UnionSize
      <3>8. edges = (A \cup B \cup C) \cup deny
        BY <2>1, <2>4, <3>4
      <3>9. Emitted = Cardinality(edges)
        BY <3>5, <3>6, <3>7, <3>8
      <3>10. Successors = edges
        BY <2>1, <2>4 DEF Successors
      <3> QED  BY <3>9, <3>10
    <2> QED  BY <2>1, <2>3, <2>4
  <1>2. IInv => EnumeratedOnce
    BY <1>1 DEF EnumeratedOnce
  <1> QED  BY <1>2, AdjInvariant, PTL

(* A deletion that reports the slot empty leaves no edge of the source, in *)
(* the slot or in the denylist: holemerge may forget it.                   *)
THEOREM AdjEmptiedMeansEmpty == Spec => EmptiedMeansEmpty
  <1>1. ASSUME IInv, [Next]_vars
        PROVE  phase = "idle" /\ phase' = "post" /\ result' = -1 /\ doubled' = {}
                 => edges' = {}
    <2> SUFFICES ASSUME phase = "idle", phase' = "post", result' = -1, doubled' = {}
                 PROVE  edges' = {}
      OBVIOUS
    <2>1. ~ (\E k \in Keys : Insert(k)) /\ ~ PostDel /\ ~ PostDone /\ ~ OthersMove
      BY DEF Insert, PostDel, PostDone, OthersMove
    <2>2. ~ UNCHANGED vars
      BY DEF vars
    <2>3. PICK k \in Keys : Del(k)
      BY <1>1, <2>1, <2>2 DEF Next
    <2> QED  BY <1>1, <2>3, DelKeepsInv
  <1> QED  BY <1>1, AdjInvariant, PTL DEF Spec, EmptiedMeansEmpty

-----------------------------------------------------------------------------
(***************************************************************************)
(* The tables keep their shape, however often the chain is grown, merged,  *)
(* halved and shrunk.                                                      *)
(***************************************************************************)

(* The inductive invariant: inline successors and tables exclude each      *)
(* other, and the lengths of the tables fit together.                      *)
ShapeInv ==
    /\ WellShaped(slot, U1, U2, Keys)
    /\ inl \in SUBSET Keys /\ deny \in SUBSET Keys
    /\ pt \in Int /\ (pt >= 0 => Live(slot) = {})

-----------------------------------------------------------------------------

(* The null pointer is no table of destinations.                           *)
LEMMA NullKeys == Nullable(Keys)
  BY KeysFinite, NullAssumption DEF Nullable, Loose

(* The lengths of the first S-CHT are positive and even, and compress      *)
(* stops above them.                                                       *)
LEMMA Sizes ==
  /\ U1 \in Nat \ {0} /\ U2 \in Nat \ {0} /\ U1 % 2 = 0 /\ U2 % 2 = 0
  /\ MinC2 \in Nat /\ MinC2 > U2
  BY SizeAssumption

(* A new first table of any keys.                                          *)
LEMMA FirstIs ==
  /\ NewTable(U1, U2) \in Loose(Keys) /\ LengthsOf(NewTable(U1, U2)) \in Lengths(U1, U2)
  /\ \A k \in Keys : /\ Holding(NewTable(U1, U2), {k}, 1) \in Loose(Keys)
                     /\ LengthsOf(Holding(NewTable(U1, U2), {k}, 1)) \in Lengths(U1, U2)
  <1>1. U1 \in Nat /\ U2 \in Nat /\ <<U1, U2>> \in Lengths(U1, U2)
    BY Sizes, FirstLength
  <1> QED  BY <1>1 DEF Loose, Holding, NewTable, LengthsOf

-----------------------------------------------------------------------------
(* Insertion.                                                              *)

(* The kick of the highest table below the rate keeps the shape.           *)
LEMMA ToExpandShaped ==
  ASSUME WellShaped(slot, U1, U2, Keys), NEW k \in Keys, NEW d, NEW x \in ToExpand(k, d)
  PROVE  WellShaped(x[1], U1, U2, Keys) /\ Live(x[1]) = Live(slot) /\ x[2] \in Keys
  <1>1. CASE HighestBelowRate(slot) = {}
    BY <1>1 DEF ToExpand
  <1>2. CASE HighestBelowRate(slot) # {}
    <2> DEFINE i == CHOOSE i \in HighestBelowRate(slot) : TRUE
    <2>1. i \in Live(slot)
      BY <1>2 DEF HighestBelowRate
    <2>2. PICK p \in Pour(slot[i], {k}) : \E victim \in p[2] :
            x = <<[slot EXCEPT ![i] = p[1]], victim>>
      BY <1>2 DEF ToExpand
    <2> HIDE DEF i
    <2>3. /\ WellShaped([slot EXCEPT ![i] = p[1]], U1, U2, Keys)
          /\ Live([slot EXCEPT ![i] = p[1]]) = Live(slot) /\ p[2] \in SUBSET Keys
      BY <2>1, NullKeys, PouredShaped
    <2> QED  BY <2>2, <2>3
  <1> QED  BY <1>1, <1>2

(* An insertion into the tables keeps the shape, at every number of        *)
(* tables.                                                                 *)
LEMMA InsertChainedShaped ==
  ASSUME WellShaped(slot, U1, U2, Keys), NEW d \in SUBSET Keys, NEW k \in Keys,
         InsertChained(k, d)
  PROVE  /\ WellShaped(slot', U1, U2, Keys) /\ deny' \in SUBSET Keys
         /\ pt < 0 /\ pt' = pt /\ inl' = inl
  <1>1. pt < 0 /\ pt' = pt /\ inl' = inl
    BY DEF InsertChained, InsertRoomy, InsertAttempted, ExpandFirst, ExpandNext, ExpandMerge
  <1>2. CASE InsertRoomy(k, d) \/ InsertAttempted(k, d)
    <2>1. PICK i \in HighestBelowRate(slot) : \E p \in Pour(slot[i], {k}) :
            slot' = [slot EXCEPT ![i] = p[1]] /\ deny' \in {d, d \cup p[2]}
      BY <1>2 DEF InsertRoomy, InsertAttempted
    <2>2. PICK p \in Pour(slot[i], {k}) :
            slot' = [slot EXCEPT ![i] = p[1]] /\ deny' \in {d, d \cup p[2]}
      BY <2>1
    <2>3. i \in Live(slot) /\ {k} \in SUBSET Keys
      BY DEF HighestBelowRate
    <2>4. WellShaped([slot EXCEPT ![i] = p[1]], U1, U2, Keys) /\ p[2] \in SUBSET Keys
      <3> DEFINE M == {k}
      <3>1. p \in Pour(slot[i], M) /\ M \in SUBSET Keys
        BY <2>3
      <3> HIDE DEF M
      <3> QED  BY <2>3, <3>1, NullKeys, PouredShaped
    <2> QED  BY <1>1, <2>2, <2>4
  <1>3. CASE ExpandFirst(k, d)
    <2> DEFINE t == Holding(NewTable(U1, U2), {k}, 1)
    <2>1. slot' = [slot EXCEPT ![0] = t] /\ Live(slot) \subseteq {0} /\ deny' = d
      BY <1>3 DEF ExpandFirst
    <2>2. t \in Loose(Keys) /\ LengthsOf(t) \in Lengths(U1, U2) /\ LooseChain(slot, Keys)
      BY FirstIs DEF WellShaped
    <2> HIDE DEF t
    <2>3. WellShaped([slot EXCEPT ![0] = t], U1, U2, Keys)
      BY <2>1, <2>2, NullKeys, OnlyShaped
    <2> QED  BY <1>1, <2>1, <2>3
  <1>4. CASE ExpandNext(k, d)
    <2>1. PICK i \in {1, 2} : \E x \in ToExpand(k, d) :
            /\ Live(slot) = 0 .. i - 1
            /\ \E p \in Pour(IF i = 1 THEN HalfOf(x[1][0])
                             ELSE NewTable(x[1][1].len1, x[1][1].len2), d \cup {x[2]}) :
                  slot' = [x[1] EXCEPT ![i] = p[1]] /\ deny' = p[2]
      BY <1>4 DEF ExpandNext
    <2>2. PICK x \in ToExpand(k, d) :
            /\ Live(slot) = 0 .. i - 1
            /\ \E p \in Pour(IF i = 1 THEN HalfOf(x[1][0])
                             ELSE NewTable(x[1][1].len1, x[1][1].len2), d \cup {x[2]}) :
                  slot' = [x[1] EXCEPT ![i] = p[1]] /\ deny' = p[2]
      BY <2>1
    <2>3. /\ WellShaped(x[1], U1, U2, Keys) /\ Live(x[1]) = 0 .. i - 1
          /\ d \cup {x[2]} \in SUBSET Keys
      BY <2>2, ToExpandShaped
    <2>4. (i = 1 /\ Live(x[1]) = {0}) \/ (i = 2 /\ Live(x[1]) = {0, 1})
      <3>1. {0} = 0 .. 1 - 1 /\ {0, 1} = 0 .. 2 - 1
        OBVIOUS
      <3> QED  BY <2>3, <3>1
    <2>5. NewOf(x[1]) = IF i = 1 THEN HalfOf(x[1][0])
                        ELSE NewTable(x[1][1].len1, x[1][1].len2)
      <3>1. 1 \in {0, 1} /\ 1 \notin {0}
        OBVIOUS
      <3> QED  BY <2>4, <3>1 DEF NewOf
    <2>6. PICK p \in Pour(NewOf(x[1]), d \cup {x[2]}) :
            slot' = [x[1] EXCEPT ![i] = p[1]] /\ deny' = p[2]
      BY <2>2, <2>5
    <2>7. /\ NewOf(x[1]) \in Loose(Keys)
          /\ Doubled(LengthsOf(NewOf(x[1]))) = LengthsOf(x[1][0])
      BY <2>3, <2>4, Sizes, NewHalf
    <2>8. /\ p[1] \in Loose(Keys) /\ p[2] \in SUBSET Keys
          /\ LengthsOf(p[1]) = LengthsOf(NewOf(x[1]))
      BY <2>3, <2>7, KeysFinite, PourLoose
    <2>9. WellShaped([x[1] EXCEPT ![i] = p[1]], U1, U2, Keys)
      BY <2>3, <2>7, <2>8, NullKeys, NextShaped
    <2> QED  BY <1>1, <2>6, <2>8, <2>9
  <1>5. CASE ExpandMerge(k, d)
    <2>1. Live(slot) = I
      BY <1>5 DEF ExpandMerge
    <2>2. PICK x \in ToExpand(k, d) :
          \E m \in MergeTables(x[1][0], x[1][1], x[1][2]) :
          \E p \in Pour(HalfOf(m[1]), d \cup m[2] \cup {x[2]}) :
            /\ slot' = TwoTables(m[1], p[1])
            /\ deny' = p[2]
      BY <1>5 DEF ExpandMerge, TwoTables
    <2>3. PICK m \in MergeTables(x[1][0], x[1][1], x[1][2]) :
          \E p \in Pour(HalfOf(m[1]), d \cup m[2] \cup {x[2]}) :
            /\ slot' = TwoTables(m[1], p[1])
            /\ deny' = p[2]
      BY <2>2
    <2>4. PICK p \in Pour(HalfOf(m[1]), d \cup m[2] \cup {x[2]}) :
            /\ slot' = TwoTables(m[1], p[1])
            /\ deny' = p[2]
      BY <2>3
    <2> DEFINE s == x[1]
               z == x[2]
    <2>5. WellShaped(s, U1, U2, Keys) /\ Live(s) = I /\ z \in Keys
      BY <2>1, ToExpandShaped
    <2>6. m \in MergeTables(s[0], s[1], s[2]) /\ p \in Pour(HalfOf(m[1]), d \cup m[2] \cup {z})
      OBVIOUS
    <2> HIDE DEF s, z
    <2>7. WellShaped(TwoTables(m[1], p[1]), U1, U2, Keys) /\ p[2] \in SUBSET Keys
      BY <2>5, <2>6, Sizes, NullKeys, MergedShaped
    <2> QED  BY <1>1, <2>4, <2>7
  <1> QED  BY <1>2, <1>3, <1>4, <1>5 DEF InsertChained

(* An insertion keeps the shape, also when it leaves the inline slots.     *)
LEMMA InsertKeeps ==
  ASSUME ShapeInv, NEW k \in Keys, Insert(k)
  PROVE  ShapeInv'
  <1>1. /\ WellShaped(slot, U1, U2, Keys) /\ inl \in SUBSET Keys /\ deny \in SUBSET Keys
        /\ pt \in Int /\ (pt >= 0 => Live(slot) = {}) /\ Lt \in Nat
    BY SizeAssumption DEF ShapeInv
  <1>2. CASE InsertInline(k, deny)
    BY <1>1, <1>2 DEF InsertInline, ShapeInv
  <1>3. CASE InsertConverts(k, deny)
    <2>1. PICK p \in Pour(NewTable(U1, U2), inl \cup {k}) :
            slot' = [slot EXCEPT ![0] = p[1]] /\ deny' = deny \cup p[2]
      BY <1>3 DEF InsertConverts
    <2>2. Live(slot) \subseteq {0} /\ inl' = {} /\ pt' = -1
      BY <1>1, <1>3 DEF InsertConverts
    <2>3. inl \cup {k} \in SUBSET Keys /\ LooseChain(slot, Keys)
      BY <1>1 DEF WellShaped
    <2>4. /\ p[1] \in Loose(Keys) /\ p[2] \in SUBSET Keys
          /\ LengthsOf(p[1]) \in Lengths(U1, U2)
      BY <2>3, FirstIs, KeysFinite, PourLoose
    <2>5. WellShaped([slot EXCEPT ![0] = p[1]], U1, U2, Keys)
      BY <2>2, <2>3, <2>4, NullKeys, OnlyShaped
    <2> QED  BY <1>1, <2>1, <2>2, <2>4, <2>5 DEF ShapeInv
  <1>4. CASE InsertChained(k, deny)
    <2>1. /\ WellShaped(slot', U1, U2, Keys) /\ deny' \in SUBSET Keys
          /\ pt < 0 /\ pt' = pt /\ inl' = inl
      BY <1>1, <1>4, InsertChainedShaped
    <2> QED  BY <1>1, <2>1 DEF ShapeInv
  <1> QED  BY <1>2, <1>3, <1>4 DEF Insert, InsertNew

-----------------------------------------------------------------------------
(* Deletion.                                                               *)

(* Deleting a stored key keeps the shape.                                  *)
LEMMA AfterShaped ==
  ASSUME WellShaped(slot, U1, U2, Keys), NEW k \in Stored
  PROVE  WellShaped(After(k), U1, U2, Keys) /\ Live(After(k)) = Live(slot)
  <1> DEFINE holds == {i \in Live(slot) : k \in slot[i].keys}
             i == CHOOSE i \in holds : \A j \in holds : i <= j
             t == Without(slot[i], k)
  <1>1. \E j \in holds : TRUE
    BY DEF Stored, KeysOf
  <1>2. \A j \in holds : j = 0 \/ j = 1 \/ j = 2
    BY DEF Live, I
  <1>3. \E j \in holds : \A l \in holds : j <= l
    BY <1>1, <1>2
  <1>4. i \in Live(slot)
    BY <1>3
  <1>5. After(k) = [slot EXCEPT ![i] = t]
    BY DEF After
  <1> HIDE DEF i, holds
  <1>6. slot[i] \in Loose(Keys)
    BY <1>4, LooseTable
  <1>7. t \in Loose(Keys) /\ LengthsOf(t) = LengthsOf(slot[i])
    BY <1>6 DEF Without, Holding, Loose, LengthsOf
  <1> HIDE DEF t
  <1>8. /\ WellShaped([slot EXCEPT ![i] = t], U1, U2, Keys)
        /\ Live([slot EXCEPT ![i] = t]) = Live(slot)
    BY <1>4, <1>7, NullKeys, SameLength
  <1> QED  BY <1>5, <1>8

(* A deletion, with all it deletes or halves, keeps the shape.             *)
LEMMA DelKeepsShape ==
  ASSUME ShapeInv, NEW k \in Keys, Del(k)
  PROVE  ShapeInv'
  <1>1. /\ WellShaped(slot, U1, U2, Keys) /\ inl \in SUBSET Keys /\ deny \in SUBSET Keys
        /\ pt \in Int /\ (pt >= 0 => Live(slot) = {})
    BY DEF ShapeInv
  <1>2. CASE DelInline(k)
    BY <1>1, <1>2 DEF DelInline, ShapeInv
  <1>3. CASE pt < 0 /\ DelDenied(k)
    BY <1>1, <1>3 DEF DelDenied, ShapeInv
  <1>4. ASSUME pt < 0, k \in Stored,
               DelKeeps(k) \/ DelLast(k) \/ DelHalves(k) \/ DelDrops(k)
                 \/ DelShrinksTwo(k) \/ DelShrinksThree(k)
        PROVE  ShapeInv'
    <2> DEFINE s == After(k)
    <2>1. WellShaped(s, U1, U2, Keys) /\ Live(s) = Live(slot)
      BY <1>1, <1>4, AfterShaped
    <2> HIDE DEF s
    <2> SUFFICES /\ WellShaped(slot', U1, U2, Keys) /\ deny' \in SUBSET Keys /\ inl' = inl
                 /\ pt' = pt \/ (pt' = 0 /\ Live(slot') = {})
      BY <1>1, <1>4 DEF ShapeInv
    <2>2. CASE DelKeeps(k)
      BY <1>1, <2>1, <2>2 DEF DelKeeps, s
    <2>3. CASE DelLast(k)
      <3>1. slot' = EmptyChain /\ pt' \in {pt, 0} /\ inl' = inl /\ deny' = deny
        BY <2>3 DEF DelLast
      <3>2. Live(EmptyChain) = {}
        BY NullChain
      <3> QED  BY <1>1, <3>1, <3>2, NullShaped
    <2>4. CASE DelHalves(k)
      <3>1. /\ pt' = pt /\ inl' = inl /\ Live(s) = {0} /\ s[0].len2 >= MinC2
            /\ \E p \in CompressTable(s[0]) :
                  slot' = [s EXCEPT ![0] = p[1]] /\ deny' = deny \cup p[2]
        BY <2>1, <2>4 DEF DelHalves, s
      <3>2. PICK p \in CompressTable(s[0]) :
              slot' = [s EXCEPT ![0] = p[1]] /\ deny' = deny \cup p[2]
        BY <3>1
      <3>3. WellShaped([s EXCEPT ![0] = p[1]], U1, U2, Keys) /\ p[2] \in SUBSET Keys
        BY <2>1, <3>1, Sizes, NullKeys, HalvedShaped
      <3> QED  BY <1>1, <3>1, <3>2, <3>3
    <2>5. CASE DelDrops(k)
      <3>1. /\ pt' = pt /\ inl' = inl /\ deny' = deny
            /\ \/ Live(s) = {0, 1} /\ slot' = [s EXCEPT ![1] = NoTable]
               \/ Live(s) = I /\ slot' = [s EXCEPT ![1] = s[Big(s)], ![2] = NoTable]
        BY <2>1, <2>5 DEF DelDrops, s
      <3>2. CASE Live(s) = {0, 1} /\ slot' = [s EXCEPT ![1] = NoTable]
        BY <1>1, <2>1, <3>1, <3>2, FirstShaped
      <3>3. CASE Live(s) = I /\ slot' = [s EXCEPT ![1] = s[Big(s)], ![2] = NoTable]
        BY <1>1, <2>1, <3>1, <3>3, NullKeys, DroppedShaped
      <3> QED  BY <3>1, <3>2, <3>3
    <2>6. CASE DelShrinksTwo(k)
      <3>1. /\ pt' = pt /\ inl' = inl /\ Live(s) = {0, 1}
            /\ \E p \in Pour(s[0], s[1].keys) :
                  slot' = [s EXCEPT ![0] = p[1], ![1] = NoTable] /\ deny' = deny \cup p[2]
        BY <2>1, <2>6 DEF DelShrinksTwo, s
      <3>2. PICK p \in Pour(s[0], s[1].keys) :
              slot' = [s EXCEPT ![0] = p[1], ![1] = NoTable] /\ deny' = deny \cup p[2]
        BY <3>1
      <3> QED  BY <1>1, <2>1, <3>1, <3>2, NullKeys, ShrunkTwoShaped
    <2>7. CASE DelShrinksThree(k)
      <3>1. /\ pt' = pt /\ inl' = inl /\ Live(s) = I
            /\ \E r \in Redistribute(s[Small(s)], s[0], s[Big(s)]) :
                  /\ slot' = [s EXCEPT ![0] = r[1], ![1] = r[2], ![2] = NoTable]
                  /\ deny' = deny \cup r[3]
        BY <2>1, <2>7 DEF DelShrinksThree, s
      <3>2. PICK r \in Redistribute(s[Small(s)], s[0], s[Big(s)]) :
              /\ slot' = [s EXCEPT ![0] = r[1], ![1] = r[2], ![2] = NoTable]
              /\ deny' = deny \cup r[3]
        BY <3>1
      <3> QED  BY <1>1, <2>1, <3>1, <3>2, NullKeys, SpreadShaped
    <2> QED  BY <1>4, <2>2, <2>3, <2>4, <2>5, <2>6, <2>7
  <1> QED  BY <1>2, <1>3, <1>4 DEF Del, DelFound

-----------------------------------------------------------------------------

(* A pass over the shared denylist keeps the shape.                        *)
LEMMA PostDelKeepsShape ==
  ASSUME ShapeInv, PostDel
  PROVE  ShapeInv'
  <1>1. /\ WellShaped(slot, U1, U2, Keys) /\ inl \in SUBSET Keys /\ deny \in SUBSET Keys
        /\ pt \in Int /\ (pt >= 0 => Live(slot) = {})
    BY DEF ShapeInv
  <1>2. CASE UNCHANGED <<pt, inl, slot, deny>>
    BY <1>2 DEF ShapeInv
  <1>3. ASSUME NEW k \in deny, PostReinsert(k)
        PROVE  ShapeInv'
    <2>1. CASE UNCHANGED <<pt, inl, slot>> /\ deny' = deny \ {k}
      BY <1>1, <2>1 DEF ShapeInv
    <2>2. CASE InsertChained(k, deny \ {k})
      <3>1. k \in Keys /\ deny \ {k} \in SUBSET Keys
        BY <1>1
      <3>2. /\ WellShaped(slot', U1, U2, Keys) /\ deny' \in SUBSET Keys
            /\ pt < 0 /\ pt' = pt /\ inl' = inl
        BY <1>1, <2>2, <3>1, InsertChainedShaped
      <3> QED  BY <1>1, <3>2 DEF ShapeInv
    <2> QED  BY <1>3, <2>1, <2>2 DEF PostReinsert
  <1> QED  BY <1>2, <1>3 DEF PostDel

(* Every step keeps the shape.                                             *)
LEMMA StepKeepsShape == ShapeInv /\ [Next]_vars => ShapeInv'
  <1> SUFFICES ASSUME ShapeInv, [Next]_vars
               PROVE  ShapeInv'
    OBVIOUS
  <1>1. CASE PostDone \/ OthersMove \/ UNCHANGED vars
    BY <1>1 DEF PostDone, OthersMove, vars, ShapeInv
  <1> QED  BY <1>1, InsertKeeps, DelKeepsShape, PostDelKeepsShape DEF Next

(* The chain of S-CHTs of a source has no gap, and its later tables are    *)
(* half as long as the first, lengths being even wherever one is halved:   *)
(* what the unchecked dereferences of insert (872, 901) and the walks of   *)
(* merge (763, 788) rely on.                                               *)
THEOREM AdjChainShape == Spec => []ChainShape
  <1>1. Init => ShapeInv
    <2> SUFFICES ASSUME Init
                 PROVE  ShapeInv
      OBVIOUS
    <2>1. WellShaped(EmptyChain, U1, U2, Keys) /\ Live(EmptyChain) = {}
      BY NullShaped, NullChain
    <2> QED  BY <2>1 DEF Init, ShapeInv
  <1>2. ShapeInv => ChainShape
    <2> SUFFICES ASSUME ShapeInv
                 PROVE  ChainShape
      OBVIOUS
    <2>1. WellShaped(slot, U1, U2, Keys)
      BY DEF ShapeInv
    <2>2. Live(slot) \in {{}, {0}, {0, 1}, I}
      BY <2>1 DEF WellShaped, Shaped
    <2>3. \A i \in Live(slot) :
            /\ slot[i].len1 >= 1 /\ slot[i].len2 >= 1
            /\ i > 0 => 2 * slot[i].len1 = slot[0].len1 /\ 2 * slot[i].len2 = slot[0].len2
      BY <2>1, Sizes, ShapedPositive
    <2> QED  BY <2>2, <2>3 DEF ChainShape
  <1> QED  BY <1>1, <1>2, StepKeepsShape, PTL DEF Spec

=============================================================================
