--------------------------- MODULE WeightedProofs ---------------------------
(***************************************************************************)
(* Proofs about WeightedSlots: whatever the number of edges, tables and    *)
(* repetitions, a source stores each of its edges once with the number of  *)
(* its insertions, so that the slots and their denylist are the abstract   *)
(* store of counters Multigraph.                                           *)
(***************************************************************************)
EXTENDS WeightedSlots, ChainProofs

(* No destination is stored with two weights.                              *)
OncePerDst(P) == \A p, q \in P : p[1] = q[1] => p = q

Slots == [pt : -1 .. Lt, inl : SUBSET Pairs, slot : [I -> Loose(Pairs) \cup {NoTable}]]

Kinds ==
    /\ hold \in [Sources -> Slots]
    /\ sblacklist \in SUBSET (Sources \X Dsts \X Weights)
    /\ inserted \in SUBSET Edges

(* The bSlot h with the denylisted pairs P stores the pairs X: pt counts   *)
(* inline edges, and then nothing is denylisted; or each pair is in one    *)
(* table or denylisted.                                                    *)
Stores(h, P, X) ==
    /\ h \in Slots /\ P \in SUBSET Pairs
    /\ IF h.pt >= 0
       THEN h.slot = EmptyChain /\ P = {} /\ h.inl = X /\ h.pt = Cardinality(X)
       ELSE Split(h.slot, P, X, Pairs)

Form(s) == Stores(hold[s], Own(s), LooksAt(s))

(* A lookup of s meets the edges inserted, each once.                      *)
Recorded(s) ==
    /\ LooksAt(s) \in SUBSET Pairs
    /\ OncePerDst(LooksAt(s))
    /\ DstsOf(LooksAt(s)) = {d \in Dsts : <<s, d>> \in inserted}

IInv == Kinds /\ \A s \in Sources : Form(s) /\ Recorded(s)

-----------------------------------------------------------------------------
(* Pairs of a destination and a weight.                                    *)

(* There are finitely many, and a chain of tables of them can be told from *)
(* null pointers.                                                          *)
LEMMA PairsNullable == Nullable(Pairs)
  <1>1. IsFiniteSet(Dsts)
    <2> DEFINE f == [e \in Edges |-> e[2]]
    <2>1. f \in Surjection(Edges, Dsts)
      BY DEF Surjection, Dsts
    <2> QED  BY <2>1, EdgesAssumption, FS_Surjection DEF ExistsSurjection
  <1>2. IsFiniteSet(Weights)
    BY WeightedAssumption, FS_Interval DEF Weights
  <1>3. IsFiniteSet(Pairs)
    BY <1>1, <1>2, FS_Product DEF Pairs
  <1> QED  BY <1>3, NullAssumption DEF Nullable, Loose

(* The source and the destination of an edge.                              *)
LEMMA EdgeParts ==
  ASSUME NEW e \in Edges
  PROVE  e[1] \in Sources /\ e[2] \in Dsts /\ e = <<e[1], e[2]>>
  BY EdgesAssumption DEF Sources, Dsts

(* The weight of a first insertion.                                        *)
LEMMA FirstPair ==
  ASSUME NEW d \in Dsts
  PROVE  <<d, 1>> \in Pairs /\ 1 % Wrap = 1 /\ 0 \in Weights
  BY WeightedAssumption DEF Pairs, Weights

(* With one weight for a destination there are as many pairs as            *)
(* destinations.                                                           *)
LEMMA AsManyDsts ==
  ASSUME NEW P \in SUBSET Pairs, OncePerDst(P)
  PROVE  IsFiniteSet(P) /\ Cardinality(DstsOf(P)) = Cardinality(P)
  <1>1. IsFiniteSet(P)
    BY PairsNullable, FS_Subset DEF Nullable
  <1> DEFINE f == [p \in P |-> p[1]]
  <1>2. f \in Bijection(P, DstsOf(P))
    BY DEF Bijection, Injection, Surjection, IsInjective, OncePerDst, DstsOf
  <1> QED  BY <1>1, <1>2, FS_Bijection DEF ExistsBijection

(* query_insert adds 1 to the weight of d and to no other.                 *)
LEMMA BumpedIs ==
  ASSUME NEW P \in SUBSET Pairs, OncePerDst(P), NEW d \in Dsts
  PROVE  /\ Bumped(P, d) \in SUBSET Pairs /\ OncePerDst(Bumped(P, d))
         /\ DstsOf(Bumped(P, d)) = DstsOf(P)
         /\ \A w \in Weights : <<d, w>> \in P => <<d, (w + 1) % Wrap>> \in Bumped(P, d)
         /\ \A p \in Pairs : p[1] # d => (p \in Bumped(P, d) <=> p \in P)
  <1> DEFINE Up(p) == IF p[1] = d THEN <<d, (p[2] + 1) % Wrap>> ELSE p
  <1>1. ASSUME NEW p \in P
        PROVE  Up(p) \in Pairs /\ Up(p)[1] = p[1] /\ (p[1] # d => Up(p) = p)
    <2>1. p[1] \in Dsts /\ p[2] \in Nat /\ p = <<p[1], p[2]>>
      BY <1>1 DEF Pairs, Weights
    <2>2. (p[2] + 1) % Wrap \in Weights
      BY <2>1, WeightedAssumption DEF Weights
    <2> QED  BY <1>1, <2>1, <2>2 DEF Pairs
  <1>2. Bumped(P, d) = {Up(p) : p \in P}
    BY DEF Bumped
  <1> HIDE DEF Up
  <1>3. Bumped(P, d) \in SUBSET Pairs
    BY <1>1, <1>2
  <1>4. OncePerDst(Bumped(P, d)) /\ DstsOf(Bumped(P, d)) = DstsOf(P)
    BY <1>1, <1>2 DEF OncePerDst, DstsOf
  <1>5. ASSUME NEW w \in Weights, <<d, w>> \in P
        PROVE  <<d, (w + 1) % Wrap>> \in Bumped(P, d)
    BY <1>2, <1>5 DEF Up
  <1>6. ASSUME NEW p \in Pairs, p[1] # d
        PROVE  p \in Bumped(P, d) <=> p \in P
    BY <1>1, <1>2, <1>6
  <1> QED  BY <1>3, <1>4, <1>5, <1>6

(* It leaves alone what has no edge to d.                                  *)
LEMMA BumpedNot ==
  ASSUME NEW P \in SUBSET Pairs, NEW d, d \notin DstsOf(P)
  PROVE  Bumped(P, d) = P
  BY DEF Bumped, DstsOf

(* Pairs kept in several places may be bumped place by place.              *)
LEMMA BumpedUnion ==
  ASSUME NEW P, NEW Q, NEW d
  PROVE  Bumped(P \cup Q, d) = Bumped(P, d) \cup Bumped(Q, d)
  BY DEF Bumped

(* Parts of what is stored once stay apart.                                *)
LEMMA BumpedApart ==
  ASSUME NEW X \in SUBSET Pairs, OncePerDst(X), NEW d \in Dsts,
         NEW P \in SUBSET X, NEW Q \in SUBSET X, P \cap Q = {}
  PROVE  Bumped(P, d) \cap Bumped(Q, d) = {}
  <1>1. OncePerDst(P) /\ OncePerDst(Q) /\ P \in SUBSET Pairs /\ Q \in SUBSET Pairs
    BY DEF OncePerDst
  <1>2. DstsOf(Bumped(P, d)) = DstsOf(P) /\ DstsOf(Bumped(Q, d)) = DstsOf(Q)
    BY <1>1, BumpedIs
  <1>3. DstsOf(P) \cap DstsOf(Q) = {}
    BY DEF DstsOf, OncePerDst
  <1>4. \A p : p \in Bumped(P, d) => p[1] \in DstsOf(P)
    BY <1>2 DEF DstsOf
  <1>5. \A p : p \in Bumped(Q, d) => p[1] \in DstsOf(Q)
    BY <1>2 DEF DstsOf
  <1> QED  BY <1>3, <1>4, <1>5

(* What is stored once can be counted by its destinations.                 *)
LEMMA BumpedSize ==
  ASSUME NEW P \in SUBSET Pairs, OncePerDst(P), NEW d \in Dsts
  PROVE  Cardinality(Bumped(P, d)) = Cardinality(P)
  <1>1. /\ Bumped(P, d) \in SUBSET Pairs /\ OncePerDst(Bumped(P, d))
        /\ DstsOf(Bumped(P, d)) = DstsOf(P)
    BY BumpedIs
  <1> QED  BY <1>1, AsManyDsts

-----------------------------------------------------------------------------
(* The slots and the denylist.                                             *)

(* The denylisted pairs of a source.                                       *)
LEMMA OwnIs ==
  ASSUME Kinds, NEW s \in Sources
  PROVE  /\ Own(s) \in SUBSET Pairs
         /\ \A p \in Pairs : p \in Own(s) <=> <<s, p[1], p[2]>> \in sblacklist
  <1>1. \A x \in sblacklist : /\ x[1] \in Sources /\ x[2] \in Dsts /\ x[3] \in Weights
                              /\ x = <<x[1], x[2], x[3]>>
    BY DEF Kinds
  <1>2. Own(s) \in SUBSET Pairs
    BY <1>1 DEF Own, Pairs
  <1>3. ASSUME NEW p \in Pairs, p \in Own(s)
        PROVE  <<s, p[1], p[2]>> \in sblacklist
    <2>1. PICK x \in sblacklist : x[1] = s /\ p = <<x[2], x[3]>>
      BY <1>3 DEF Own
    <2>2. x = <<s, p[1], p[2]>>
      BY <1>1, <2>1
    <2> QED  BY <2>2
  <1>4. ASSUME NEW p \in Pairs, <<s, p[1], p[2]>> \in sblacklist
        PROVE  p \in Own(s)
    <2>1. PICK x \in sblacklist : x = <<s, p[1], p[2]>>
      BY <1>4
    <2>2. x[1] = s /\ <<x[2], x[3]>> = p
      BY <2>1 DEF Pairs
    <2>3. Own(s) = {<<y[2], y[3]>> : y \in {z \in sblacklist : z[1] = s}}
      BY DEF Own
    <2> QED  BY <2>2, <2>3
  <1> QED  BY <1>2, <1>3, <1>4

(* Nothing replaced: the denylist stays.                                   *)
LEMMA ReplacingOwn ==
  ASSUME Kinds, NEW s \in Sources
  PROVE  Replacing(s, Own(s)) = sblacklist
  <1>1. \A x \in sblacklist : /\ x[1] \in Sources /\ x[2] \in Dsts /\ x[3] \in Weights
                              /\ x = <<x[1], x[2], x[3]>>
    BY DEF Kinds
  <1> DEFINE mine == {x \in sblacklist : x[1] = s}
             back == {<<s, p[1], p[2]>> : p \in Own(s)}
  <1>2. ASSUME NEW x \in mine
        PROVE  x \in back
    <2>1. <<x[2], x[3]>> \in Own(s) /\ x = <<s, x[2], x[3]>>
      BY <1>1 DEF Own
    <2> QED  BY <2>1
  <1>3. ASSUME NEW z \in back
        PROVE  z \in mine
    <2>1. PICK p \in Own(s) : z = <<s, p[1], p[2]>>
      OBVIOUS
    <2>2. PICK x \in sblacklist : x[1] = s /\ p = <<x[2], x[3]>>
      BY DEF Own
    <2>3. z = x
      BY <1>1, <2>1, <2>2
    <2> QED  BY <2>2, <2>3
  <1>4. back = mine
    BY <1>2, <1>3
  <1> HIDE DEF back
  <1> QED  BY <1>4 DEF Replacing, back

(* A step gives one source another slot and other denylisted edges, and    *)
(* takes nothing from another source.                                      *)
LEMMA BecomesIs ==
  ASSUME Kinds, NEW s \in Sources, NEW h \in Slots, NEW P \in SUBSET Pairs, Becomes(s, h, P)
  PROVE  /\ hold' \in [Sources -> Slots]
         /\ sblacklist' \in SUBSET (Sources \X Dsts \X Weights)
         /\ hold'[s] = h /\ Own(s)' = P
         /\ \A u \in Sources : u # s => hold'[u] = hold[u] /\ Own(u)' = Own(u)
  <1>1. hold' = [hold EXCEPT ![s] = h] /\ sblacklist' = Replacing(s, P)
    BY DEF Becomes
  <1>2. /\ hold' \in [Sources -> Slots] /\ hold'[s] = h
        /\ \A u \in Sources : u # s => hold'[u] = hold[u]
    BY <1>1 DEF Kinds
  <1>3. \A x \in sblacklist : /\ x[1] \in Sources /\ x[2] \in Dsts /\ x[3] \in Weights
                              /\ x = <<x[1], x[2], x[3]>>
    BY DEF Kinds
  <1>4. \A p \in P : p[1] \in Dsts /\ p[2] \in Weights /\ p = <<p[1], p[2]>>
    BY DEF Pairs
  <1>5. sblacklist' = {y \in sblacklist : y[1] # s} \cup {<<s, p[1], p[2]>> : p \in P}
    BY <1>1 DEF Replacing
  <1>6. sblacklist' \in SUBSET (Sources \X Dsts \X Weights)
    BY <1>4, <1>5 DEF Kinds
  <1>7. Own(s)' = P
    <2>1. {y \in sblacklist' : y[1] = s} = {<<s, p[1], p[2]>> : p \in P}
      BY <1>5
    <2>2. Own(s)' = {<<y[2], y[3]>> : y \in {z \in sblacklist' : z[1] = s}}
      BY DEF Own
    <2>3. ASSUME NEW p \in P
          PROVE  p \in Own(s)'
      <3>1. PICK y \in sblacklist' : y[1] = s /\ y = <<s, p[1], p[2]>>
        BY <1>5
      <3>2. <<y[2], y[3]>> = p
        BY <1>4, <3>1
      <3> QED  BY <2>2, <3>1, <3>2
    <2>4. ASSUME NEW q \in Own(s)'
          PROVE  q \in P
      <3>1. PICK y \in {<<s, p[1], p[2]>> : p \in P} : q = <<y[2], y[3]>>
        BY <2>1, <2>2
      <3>2. PICK p \in P : y = <<s, p[1], p[2]>>
        BY <3>1
      <3>3. q = p
        BY <1>4, <3>1, <3>2
      <3> QED  BY <3>2, <3>3
    <2> QED  BY <2>3, <2>4
  <1>8. ASSUME NEW u \in Sources, u # s
        PROVE  Own(u)' = Own(u)
    BY <1>3, <1>5, <1>8 DEF Own
  <1> QED  BY <1>2, <1>6, <1>7, <1>8

(* What is stored is what a lookup meets.                                  *)
LEMMA StoredIsMet ==
  ASSUME NEW h, NEW P, NEW X, Stores(h, P, X)
  PROVE  X = (IF h.pt >= 0 THEN h.inl ELSE KeysOf(h.slot) \cup P)
  BY DEF Stores, Split

(* After a step a lookup of s meets what is stored now, and a lookup of    *)
(* another source what it met before.                                      *)
LEMMA StepIs ==
  ASSUME Kinds, \A u \in Sources : Form(u), inserted' \in SUBSET Edges,
         NEW s \in Sources, NEW h, NEW P, NEW X, Becomes(s, h, P), Stores(h, P, X)
  PROVE  /\ Kinds' /\ \A u \in Sources : Form(u)'
         /\ LooksAt(s)' = X
         /\ \A u \in Sources : u # s => LooksAt(u)' = LooksAt(u)
  <1>1. h \in Slots /\ P \in SUBSET Pairs
    BY DEF Stores
  <1>2. /\ hold' \in [Sources -> Slots]
        /\ sblacklist' \in SUBSET (Sources \X Dsts \X Weights)
        /\ hold'[s] = h /\ Own(s)' = P
        /\ \A u \in Sources : u # s => hold'[u] = hold[u] /\ Own(u)' = Own(u)
    BY <1>1, BecomesIs
  <1>3. Kinds'
    BY <1>2 DEF Kinds
  <1>4. LooksAt(s)' = X
    BY <1>2, StoredIsMet DEF LooksAt
  <1>5. ASSUME NEW u \in Sources, u # s
        PROVE  LooksAt(u)' = LooksAt(u)
    BY <1>2, <1>5 DEF LooksAt
  <1>6. ASSUME NEW u \in Sources
        PROVE  Form(u)'
    <2>1. CASE u = s
      BY <1>2, <1>4, <2>1 DEF Form, Stores
    <2>2. CASE u # s
      BY <1>2, <1>5, <2>2 DEF Form, Stores
    <2> QED  BY <2>1, <2>2
  <1> QED  BY <1>3, <1>4, <1>5, <1>6

-----------------------------------------------------------------------------
(* Insertion of a new pair.                                                *)

(* The bSlot of a source, in words.                                        *)
LEMMA HoldIs ==
  ASSUME IInv, NEW s \in Sources
  PROVE  /\ hold[s] \in Slots /\ Own(s) \in SUBSET Pairs
         /\ LooksAt(s) \in SUBSET Pairs /\ OncePerDst(LooksAt(s))
         /\ hold[s].pt >= 0 => /\ hold[s].slot = EmptyChain /\ Own(s) = {}
                               /\ hold[s].inl = LooksAt(s)
                               /\ hold[s].pt = Cardinality(LooksAt(s))
         /\ hold[s].pt < 0 => Split(hold[s].slot, Own(s), LooksAt(s), Pairs)
  <1>1. Stores(hold[s], Own(s), LooksAt(s)) /\ Recorded(s)
    BY DEF IInv, Form
  <1>2. hold[s].pt \in Int
    BY <1>1 DEF Stores, Slots
  <1> QED  BY <1>1, <1>2 DEF Stores, Recorded

(* The slot holds one more inline pair.                                    *)
LEMMA InlineStores ==
  ASSUME IInv, NEW s \in Sources, NEW k \in Pairs, k \notin LooksAt(s), InsertInline(s, k)
  PROVE  \E h, P : Becomes(s, h, P) /\ Stores(h, P, LooksAt(s) \cup {k})
  <1> DEFINE h == [hold[s] EXCEPT !.pt = @ + 1, !.inl = @ \cup {k}]
  <1>1. hold[s].pt \in 0 .. Lt - 1 /\ Becomes(s, h, Own(s))
    BY DEF InsertInline
  <1>2. /\ hold[s] \in Slots /\ hold[s].slot = EmptyChain /\ Own(s) = {}
        /\ hold[s].inl = LooksAt(s) /\ hold[s].pt = Cardinality(LooksAt(s))
        /\ LooksAt(s) \in SUBSET Pairs
    BY <1>1, HoldIs
  <1>3. IsFiniteSet(LooksAt(s))
    BY <1>2, PairsNullable, FS_Subset DEF Nullable
  <1>4. Cardinality(LooksAt(s) \cup {k}) = hold[s].pt + 1
    BY <1>2, <1>3, FS_AddElement
  <1>5. hold[s].pt + 1 \in 0 .. Lt /\ Lt \in Nat
    BY <1>1, WeightedAssumption
  <1>6. /\ h \in Slots /\ h.pt = hold[s].pt + 1 /\ h.slot = EmptyChain
        /\ h.inl = LooksAt(s) \cup {k}
    <2>n. PICK n : n = hold[s].pt + 1
      OBVIOUS
    <2>x. PICK X : X = LooksAt(s) \cup {k}
      OBVIOUS
    <2>1. n \in -1 .. Lt /\ X \in SUBSET Pairs
      BY <1>2, <1>5, <2>n, <2>x
    <2>2. h = [hold[s] EXCEPT !.pt = n, !.inl = X]
      BY <1>2, <2>n, <2>x
    <2> HIDE DEF h
    <2>3. h \in Slots /\ h.pt = n /\ h.inl = X /\ h.slot = hold[s].slot
      BY <1>2, <2>1, <2>2 DEF Slots
    <2> QED  BY <1>2, <2>n, <2>x, <2>3
  <1> HIDE DEF h
  <1>7. Stores(h, Own(s), LooksAt(s) \cup {k})
    BY <1>2, <1>4, <1>5, <1>6 DEF Stores
  <1> QED  BY <1>1, <1>7

(* A bSlot of tables.                                                      *)
LEMMA TablesStore ==
  ASSUME NEW h, NEW c, NEW P, NEW X, Split(c, P, X, Pairs),
         h = [pt |-> -1, inl |-> {}, slot |-> c]
  PROVE  Stores(h, P, X)
  <1>1. c \in [I -> Loose(Pairs) \cup {NoTable}] /\ P \in SUBSET Pairs
    BY DEF Split, ExactChain, LooseChain
  <1>2. -1 \in -1 .. Lt /\ ~(-1 >= 0)
    BY WeightedAssumption
  <1>3. h \in Slots /\ h.pt = -1 /\ h.slot = c
    BY <1>1, <1>2 DEF Slots
  <1> QED  BY <1>1, <1>2, <1>3 DEF Stores

(* The inline pairs and the new one are in the first table or denylisted.  *)
LEMMA ConvertsStores ==
  ASSUME IInv, NEW s \in Sources, NEW k \in Pairs, k \notin LooksAt(s), InsertConverts(s, k)
  PROVE  \E h, P : Becomes(s, h, P) /\ Stores(h, P, LooksAt(s) \cup {k})
  <1>1. PICK p \in Pour(NewTable(U1, U2), hold[s].inl \cup {k}) :
          Becomes(s, [pt |-> -1, inl |-> {}, slot |-> [EmptyChain EXCEPT ![0] = p[1]]],
                  Own(s) \cup p[2])
    BY DEF InsertConverts
  <1>2. U1 \in Nat /\ U2 \in Nat /\ Lt \in Nat /\ hold[s].pt = Lt
    BY WeightedAssumption DEF InsertConverts
  <1>3. Own(s) = {} /\ hold[s].inl = LooksAt(s) /\ LooksAt(s) \in SUBSET Pairs
    BY <1>2, HoldIs
  <1>4. Exact(NewTable(U1, U2), Pairs) /\ NewTable(U1, U2).keys = {}
    BY <1>2, NewExact
  <1>5. Split(EmptyChain, LooksAt(s), LooksAt(s), Pairs) /\ 0 \in I /\ 0 \notin Live(EmptyChain)
    BY <1>3, NullChain DEF Split, I
  <1>6. Split([EmptyChain EXCEPT ![0] = p[1]], p[2], LooksAt(s) \cup {k}, Pairs)
    BY <1>1, <1>3, <1>4, <1>5, PairsNullable, NextTakes
  <1>7. PICK h : h = [pt |-> -1, inl |-> {}, slot |-> [EmptyChain EXCEPT ![0] = p[1]]]
    OBVIOUS
  <1>8. Stores(h, p[2], LooksAt(s) \cup {k})
    BY <1>6, <1>7, TablesStore
  <1>9. Becomes(s, h, p[2])
    BY <1>1, <1>3, <1>7
  <1> QED  BY <1>8, <1>9

(* The rest of the bSlot stays when its tables change.                     *)
LEMMA ChainedStores ==
  ASSUME NEW s \in Sources, hold[s] \in Slots, hold[s].pt < 0,
         NEW c, NEW P, NEW X, Split(c, P, X, Pairs)
  PROVE  Stores(Chained(s, c), P, X)
  <1>1. c \in [I -> Loose(Pairs) \cup {NoTable}] /\ P \in SUBSET Pairs
    BY DEF Split, ExactChain, LooseChain
  <1>2. hold[s].pt \in -1 .. Lt /\ ~(hold[s].pt >= 0)
    BY WeightedAssumption DEF Slots
  <1>3. Chained(s, c) \in Slots /\ Chained(s, c).pt = hold[s].pt /\ Chained(s, c).slot = c
    BY <1>1 DEF Chained, Slots
  <1> QED  BY <1>1, <1>2, <1>3 DEF Stores

(* The new pair goes to a table below the rate.                            *)
LEMMA StoredStores ==
  ASSUME IInv, NEW s \in Sources, NEW k \in Pairs, k \notin LooksAt(s), InsertStored(s, k)
  PROVE  \E h, P : Becomes(s, h, P) /\ Stores(h, P, LooksAt(s) \cup {k})
  <1>1. PICK i \in HighestBelowRate(hold[s].slot) : \E p \in Pour(hold[s].slot[i], {k}) :
          Becomes(s, Chained(s, [hold[s].slot EXCEPT ![i] = p[1]]), Own(s) \cup p[2])
    BY DEF InsertStored
  <1>2. PICK p \in Pour(hold[s].slot[i], {k}) :
          Becomes(s, Chained(s, [hold[s].slot EXCEPT ![i] = p[1]]), Own(s) \cup p[2])
    BY <1>1
  <1>3. /\ hold[s].pt < 0 /\ hold[s] \in Slots /\ Split(hold[s].slot, Own(s), LooksAt(s), Pairs)
    BY HoldIs DEF InsertStored
  <1>4. i \in Live(hold[s].slot)
    BY DEF HighestBelowRate
  <1>5. Split([hold[s].slot EXCEPT ![i] = p[1]], Own(s) \cup p[2], LooksAt(s) \cup {k}, Pairs)
    BY <1>3, <1>4, PairsNullable, PouredIn
  <1>6. Stores(Chained(s, [hold[s].slot EXCEPT ![i] = p[1]]), Own(s) \cup p[2], LooksAt(s) \cup {k})
    BY <1>3, <1>5, ChainedStores
  <1> QED  BY <1>2, <1>6

(* What is carried to the expansion: the chain and the denylist store all  *)
(* but the pair x[2], the new one or the one it displaced.                 *)
LEMMA CarriedIs ==
  ASSUME IInv, NEW s \in Sources, hold[s].pt < 0, NEW k \in Pairs, k \notin LooksAt(s),
         NEW x \in Carried(s, k)
  PROVE  \E Y : /\ Split(x[1], Own(s), Y, Pairs) /\ x[2] \in Pairs /\ x[2] \notin Y
                /\ Y \cup {x[2]} = LooksAt(s) \cup {k}
                /\ Live(x[1]) = Live(hold[s].slot)
  <1> DEFINE c == hold[s].slot
             X == LooksAt(s)
  <1>1. Split(c, Own(s), X, Pairs) /\ Nullable(Pairs) /\ Own(s) \in SUBSET Pairs
    BY HoldIs, PairsNullable
  <1>2. CASE x = <<c, k>>
    BY <1>1, <1>2
  <1>3. CASE x # <<c, k>>
    <2>a. HighestBelowRate(c) # {} /\ DenyFull
      BY <1>3 DEF Carried
    <2> DEFINE i == CHOOSE j \in HighestBelowRate(c) : TRUE
    <2>b. i \in HighestBelowRate(c)
      BY <2>a
    <2>c. x \in UNION {{<<[c EXCEPT ![i] = p[1]], v>> : v \in p[2]} : p \in Pour(c[i], {k})}
      <3>1. Carried(s, k) = UNION {{<<[c EXCEPT ![i] = p[1]], v>> : v \in p[2]} : p \in Pour(c[i], {k})}
        BY <2>a DEF Carried
      <3> QED  BY <3>1
    <2> HIDE DEF i
    <2>d. PICK p \in Pour(c[i], {k}) : x \in {<<[c EXCEPT ![i] = p[1]], v>> : v \in p[2]}
      BY <2>c
    <2>1. PICK v \in p[2] : x = <<[c EXCEPT ![i] = p[1]], v>>
      BY <2>d
    <2>2. i \in Live(c) /\ i \in I
      BY <2>b DEF HighestBelowRate, Live
    <2>3. Split([c EXCEPT ![i] = p[1]], Own(s) \cup p[2], X \cup {k}, Pairs)
      BY <1>1, <2>2, PouredIn
    <2>4. /\ Exact(c[i], Pairs) /\ c[i].keys \subseteq X /\ c[i].keys \cap Own(s) = {}
          /\ IsFiniteSet(Pairs) /\ X = KeysOf(c) \cup Own(s)
      BY <1>1, <2>2 DEF Split, ExactChain, Nullable, KeysOf
    <2>5. /\ p[2] \in SUBSET Pairs /\ Cardinality(p[2]) <= Cardinality({k})
          /\ p[1].keys \cup p[2] = c[i].keys \cup {k} /\ Exact(p[1], Pairs)
      BY <2>4, PourAccounts
    <2>6. p[2] = {v}
      <3>1. IsFiniteSet(p[2]) /\ Cardinality(p[2]) <= 1
        BY <2>4, <2>5, FS_Subset, FS_Singleton
      <3> QED  BY <3>1, OnlyElement
    <2>7. v \in Pairs /\ v \notin Own(s)
      BY <2>4, <2>5
    <2> DEFINE c2 == [c EXCEPT ![i] = p[1]]
               Y  == (X \cup {k}) \ {v}
    <2>8. Split(c2, Own(s), Y, Pairs)
      BY <2>3, <2>6, <2>7 DEF Split
    <2>9. v \in X \cup {k}
      BY <2>3, <2>6 DEF Split
    <2>10. Live(c2) = Live(c)
      <3>1. p[1] # NoTable
        BY <1>1, <2>5, ExactIsLoose
      <3>2. c \in [I -> Loose(Pairs) \cup {NoTable}]
        BY <1>1 DEF Split, ExactChain, LooseChain
      <3> QED  BY <2>2, <3>1, <3>2 DEF Live
    <2>11. x[1] = c2 /\ x[2] = v
      BY <2>1
    <2> HIDE DEF c2
    <2> QED  BY <2>7, <2>8, <2>9, <2>10, <2>11
  <1> QED  BY <1>2, <1>3

(* A new second or third table takes the denylisted pairs and what was     *)
(* carried there.                                                          *)
LEMMA ExpandsStores ==
  ASSUME IInv, NEW s \in Sources, NEW k \in Pairs, k \notin LooksAt(s), InsertExpands(s, k)
  PROVE  \E h, P : Becomes(s, h, P) /\ Stores(h, P, LooksAt(s) \cup {k})
  <1>1. PICK i \in {1, 2}, x \in Carried(s, k) :
          /\ Live(hold[s].slot) = 0 .. i - 1
          /\ LET new == IF i = 1 THEN HalfOf(x[1][0])
                        ELSE NewTable(x[1][1].len1, x[1][1].len2)
             IN  \E p \in Pour(new, Own(s) \cup {x[2]}) :
                    Becomes(s, Chained(s, [x[1] EXCEPT ![i] = p[1]]), p[2])
    BY DEF InsertExpands
  <1>2. PICK new : new = IF i = 1 THEN HalfOf(x[1][0]) ELSE NewTable(x[1][1].len1, x[1][1].len2)
    OBVIOUS
  <1>3. PICK p \in Pour(new, Own(s) \cup {x[2]}) :
          Becomes(s, Chained(s, [x[1] EXCEPT ![i] = p[1]]), p[2])
    BY <1>1, <1>2
  <1>4. hold[s].pt < 0 /\ hold[s] \in Slots
    BY HoldIs DEF InsertExpands
  <1>5. PICK Y : /\ Split(x[1], Own(s), Y, Pairs) /\ x[2] \in Pairs /\ x[2] \notin Y
                 /\ Y \cup {x[2]} = LooksAt(s) \cup {k}
                 /\ Live(x[1]) = Live(hold[s].slot)
    BY <1>4, CarriedIs
  <1>6. i \in I /\ i \notin Live(x[1]) /\ i - 1 \in Live(x[1])
    BY <1>1, <1>5 DEF I
  <1>7. Exact(new, Pairs) /\ new.keys = {}
    <2>1. Exact(x[1][i - 1], Pairs)
      BY <1>5, <1>6 DEF Split, ExactChain
    <2>2. CASE i = 1
      BY <1>2, <2>1, <2>2, HalfExact
    <2>3. CASE i = 2
      <3>1. x[1][1].len1 \in Nat /\ x[1][1].len2 \in Nat
        BY <2>1, <2>3 DEF Exact, Records
      <3>2. new = NewTable(x[1][1].len1, x[1][1].len2)
        BY <1>2, <2>3
      <3> QED  BY <3>1, <3>2, NewExact
    <2> QED  BY <2>2, <2>3
  <1>8. Split([x[1] EXCEPT ![i] = p[1]], p[2], LooksAt(s) \cup {k}, Pairs)
    BY <1>5, <1>6, <1>7, PairsNullable, NextTakes
  <1>9. Stores(Chained(s, [x[1] EXCEPT ![i] = p[1]]), p[2], LooksAt(s) \cup {k})
    BY <1>4, <1>8, ChainedStores
  <1> QED  BY <1>3, <1>9

(* Three tables become one, and a second takes the denylisted pairs, those *)
(* the merge handed back and what was carried there.                       *)
LEMMA MergesStore ==
  ASSUME IInv, NEW s \in Sources, NEW k \in Pairs, k \notin LooksAt(s), InsertMerges(s, k)
  PROVE  \E h, P : Becomes(s, h, P) /\ Stores(h, P, LooksAt(s) \cup {k})
  <1>x. PICK x \in Carried(s, k) : \E m \in Merged(x[1]) :
          \E p \in Pour(HalfOf(m[1]), Own(s) \cup m[2] \cup {x[2]}) :
             Becomes(s, Chained(s, [i \in I |-> IF i = 0 THEN m[1] ELSE IF i = 1 THEN p[1]
                                                ELSE NoTable]), p[2])
    BY DEF InsertMerges
  <1>m. PICK m \in Merged(x[1]) : \E p \in Pour(HalfOf(m[1]), Own(s) \cup m[2] \cup {x[2]}) :
          Becomes(s, Chained(s, [i \in I |-> IF i = 0 THEN m[1] ELSE IF i = 1 THEN p[1]
                                             ELSE NoTable]), p[2])
    BY <1>x
  <1>1. PICK p \in Pour(HalfOf(m[1]), Own(s) \cup m[2] \cup {x[2]}) :
          Becomes(s, Chained(s, [i \in I |-> IF i = 0 THEN m[1] ELSE IF i = 1 THEN p[1]
                                             ELSE NoTable]), p[2])
    BY <1>m
  <1>2. hold[s].pt < 0 /\ hold[s] \in Slots /\ Live(hold[s].slot) = I
    BY HoldIs DEF InsertMerges
  <1>3. PICK Y : /\ Split(x[1], Own(s), Y, Pairs) /\ x[2] \in Pairs /\ x[2] \notin Y
                 /\ Y \cup {x[2]} = LooksAt(s) \cup {k}
                 /\ Live(x[1]) = Live(hold[s].slot)
    BY <1>2, CarriedIs
  <1>4. m \in MergeTables(x[1][0], x[1][1], x[1][2])
    BY DEF Merged
  <1>5. Split(TwoTables(m[1], p[1]), p[2], Y \cup {x[2]}, Pairs)
    BY <1>2, <1>3, <1>4, PairsNullable, MergeTakes
  <1>6. Stores(Chained(s, TwoTables(m[1], p[1])), p[2], LooksAt(s) \cup {k})
    BY <1>2, <1>3, <1>5, ChainedStores
  <1>7. Becomes(s, Chained(s, TwoTables(m[1], p[1])), p[2])
    BY <1>1 DEF TwoTables
  <1> QED  BY <1>6, <1>7

(* A new pair, wherever it goes.                                           *)
LEMMA NewStores ==
  ASSUME IInv, NEW s \in Sources, NEW k \in Pairs, k \notin LooksAt(s), InsertNew(s, k)
  PROVE  \E h, P : Becomes(s, h, P) /\ Stores(h, P, LooksAt(s) \cup {k})
  <1>1. \/ InsertInline(s, k) \/ InsertConverts(s, k) \/ InsertStored(s, k)
        \/ InsertExpands(s, k) \/ InsertMerges(s, k)
    BY DEF InsertNew
  <1> QED  BY <1>1, InlineStores, ConvertsStores, StoredStores, ExpandsStores, MergesStore

-----------------------------------------------------------------------------
(* Insertion of an edge that is there.                                     *)

(* The weight goes up in the table that holds the edge.                    *)
LEMMA BumpedInTable ==
  ASSUME NEW c, NEW P, NEW X \in SUBSET Pairs, Split(c, P, X, Pairs), OncePerDst(X),
         NEW d \in Dsts, d \notin DstsOf(P)
  PROVE  Split(BumpedChain(c, d), P, Bumped(X, d), Pairs)
  <1> DEFINE b == BumpedChain(c, d)
  <1>1. /\ ExactChain(c, Pairs) /\ LooseChain(c, Pairs) /\ P \in SUBSET Pairs /\ Separate(c)
        /\ KeysOf(c) \cap P = {} /\ KeysOf(c) \cup P = X /\ Nullable(Pairs)
    BY PairsNullable DEF Split, ExactChain
  <1>2. /\ KeysOf(c) = KeysAt(c, 0) \cup KeysAt(c, 1) \cup KeysAt(c, 2)
        /\ KeysAt(c, 0) \in SUBSET X /\ KeysAt(c, 1) \in SUBSET X /\ KeysAt(c, 2) \in SUBSET X
    <2>1. KeysOf(c) = KeysAt(c, 0) \cup KeysAt(c, 1) \cup KeysAt(c, 2)
      BY <1>1, ChainKeysAt
    <2> QED  BY <1>1, <2>1
  <1>3. ASSUME NEW i \in I, c[i] # NoTable
        PROVE  Exact(b[i], Pairs) /\ b[i].keys = Bumped(c[i].keys, d)
    <2>1. Exact(c[i], Pairs) /\ c[i].keys \in SUBSET Pairs
      BY <1>1, <1>3 DEF ExactChain, Live, Exact, Records
    <2>2. c[i].keys \in SUBSET X /\ OncePerDst(c[i].keys)
      <3>1. c[i].keys \in SUBSET X
        BY <1>1, <1>3 DEF KeysOf, Live
      <3> QED  BY <3>1 DEF OncePerDst
    <2>3. Bumped(c[i].keys, d) \in SUBSET Pairs /\ Cardinality(Bumped(c[i].keys, d)) = Cardinality(c[i].keys)
      BY <2>1, <2>2, BumpedIs, BumpedSize
    <2>4. b[i] = Holding(c[i], Bumped(c[i].keys, d), c[i].num)
      BY <1>3 DEF BumpedChain
    <2>5. /\ c[i].len1 \in Nat /\ c[i].len2 \in Nat /\ c[i].num \in Nat
          /\ c[i].num = Cardinality(c[i].keys)
      BY <2>1 DEF Exact, Records
    <2> QED  BY <2>3, <2>4, <2>5 DEF Exact, Records, Holding
  <1>4. \A i \in I : c[i] = NoTable => b[i] = NoTable
    BY DEF BumpedChain
  <1>5. b = [i \in I |-> b[i]]
    BY DEF BumpedChain
  <1> HIDE DEF b
  <1>6. \A i \in I : c[i] # NoTable => b[i] \in Loose(Pairs) /\ b[i] # NoTable
    BY <1>1, <1>3, ExactIsLoose
  <1>7. ExactChain(b, Pairs)
    <2>1. b \in [I -> Loose(Pairs) \cup {NoTable}]
      BY <1>4, <1>5, <1>6
    <2> QED  BY <1>3, <1>4, <2>1 DEF ExactChain, LooseChain, Live
  <1>8. \A i \in I : KeysAt(b, i) = Bumped(KeysAt(c, i), d)
    BY <1>3, <1>4, <1>6 DEF KeysAt, Bumped
  <1>9. 0 \in I /\ 1 \in I /\ 2 \in I
    BY DEF I
  <1>10. KeysOf(b) = KeysAt(b, 0) \cup KeysAt(b, 1) \cup KeysAt(b, 2)
    BY <1>7, ChainKeysAt DEF ExactChain
  <1>11. Separate(b)
    <2>1. ASSUME NEW i \in I, NEW j \in I, KeysAt(c, i) \in SUBSET X, KeysAt(c, j) \in SUBSET X,
                 KeysAt(c, i) \cap KeysAt(c, j) = {}
          PROVE  KeysAt(b, i) \cap KeysAt(b, j) = {}
      BY <1>8, <2>1, BumpedApart
    <2> QED  BY <1>1, <1>2, <1>9, <2>1 DEF Separate
  <1>12. KeysOf(b) = Bumped(KeysOf(c), d)
    <2>1. Bumped(KeysOf(c), d) = Bumped(KeysAt(c, 0) \cup KeysAt(c, 1), d) \cup Bumped(KeysAt(c, 2), d)
      BY <1>2, BumpedUnion
    <2>2. Bumped(KeysAt(c, 0) \cup KeysAt(c, 1), d)
            = Bumped(KeysAt(c, 0), d) \cup Bumped(KeysAt(c, 1), d)
      BY BumpedUnion
    <2> QED  BY <1>8, <1>9, <1>10, <2>1, <2>2
  <1>13. Bumped(P, d) = P
    BY <1>1, BumpedNot
  <1>14. KeysOf(b) \cap P = {}
    <2>1. KeysOf(c) \in SUBSET X /\ P \in SUBSET X
      BY <1>1
    <2>2. Bumped(KeysOf(c), d) \cap Bumped(P, d) = {}
      BY <1>1, <2>1, BumpedApart
    <2> QED  BY <1>12, <1>13, <2>2
  <1>15. KeysOf(b) \cup P = Bumped(X, d)
    BY <1>1, <1>12, <1>13, BumpedUnion
  <1>16. Split(b, P, Bumped(X, d), Pairs)
    BY <1>1, <1>7, <1>11, <1>14, <1>15 DEF Split
  <1> QED  BY <1>16 DEF b

(* The weight of an edge of no table goes up in the denylist.              *)
LEMMA BumpedInList ==
  ASSUME NEW c, NEW P, NEW X \in SUBSET Pairs, Split(c, P, X, Pairs), OncePerDst(X),
         NEW d \in Dsts, d \notin DstsOf(KeysOf(c))
  PROVE  Split(c, Bumped(P, d), Bumped(X, d), Pairs)
  <1>1. /\ ExactChain(c, Pairs) /\ P \in SUBSET Pairs /\ Separate(c)
        /\ KeysOf(c) \cap P = {} /\ KeysOf(c) \cup P = X
    BY DEF Split
  <1>2. KeysOf(c) \in SUBSET X /\ P \in SUBSET X /\ OncePerDst(P)
    BY <1>1 DEF OncePerDst
  <1>3. Bumped(KeysOf(c), d) = KeysOf(c)
    BY <1>2, BumpedNot
  <1>4. Bumped(KeysOf(c), d) \cap Bumped(P, d) = {}
    BY <1>1, <1>2, BumpedApart
  <1>5. KeysOf(c) \cup Bumped(P, d) = Bumped(X, d)
    BY <1>1, <1>3, BumpedUnion
  <1>6. Bumped(P, d) \in SUBSET Pairs
    BY <1>1, <1>2, BumpedIs
  <1> QED  BY <1>1, <1>3, <1>4, <1>5, <1>6 DEF Split

(* Wherever an edge lies, an insertion of it gives it the next weight, and *)
(* leaves every other edge alone.                                          *)
LEMMA AgainStores ==
  ASSUME IInv, NEW e \in Edges, Again(e)
  PROVE  \E h, P : Becomes(e[1], h, P) /\ Stores(h, P, Bumped(LooksAt(e[1]), e[2]))
  <1> DEFINE s == e[1]  d == e[2]  X == LooksAt(s)
  <1>1. s \in Sources /\ d \in Dsts /\ Kinds
    BY EdgeParts DEF IInv
  <1>2. /\ hold[s] \in Slots /\ Own(s) \in SUBSET Pairs
        /\ X \in SUBSET Pairs /\ OncePerDst(X)
        /\ hold[s].pt >= 0 => /\ hold[s].slot = EmptyChain /\ Own(s) = {}
                              /\ hold[s].inl = X /\ hold[s].pt = Cardinality(X)
        /\ hold[s].pt < 0 => Split(hold[s].slot, Own(s), X, Pairs)
    BY <1>1, HoldIs
  <1>3. sblacklist = Replacing(s, Own(s)) /\ hold = [hold EXCEPT ![s] = hold[s]]
    BY <1>1, ReplacingOwn DEF Kinds
  <1>4. Bumped(X, d) \in SUBSET Pairs /\ Cardinality(Bumped(X, d)) = Cardinality(X)
    BY <1>1, <1>2, BumpedIs, BumpedSize
  <1>5. hold[s].pt \in Int
    BY <1>2 DEF Slots
  <1>6. CASE hold[s].pt >= 0
    <2> DEFINE h == [hold[s] EXCEPT !.inl = Bumped(X, d)]
    <2>1. Becomes(s, h, Own(s))
      <3>1. hold' = [hold EXCEPT ![s] = h] /\ sblacklist' = sblacklist
        BY <1>2, <1>6 DEF Again
      <3> QED  BY <1>3, <3>1 DEF Becomes
    <2>2. PICK Y : Y = Bumped(X, d)
      OBVIOUS
    <2>3. h \in Slots /\ h.pt = hold[s].pt /\ h.slot = hold[s].slot /\ h.inl = Y
      BY <1>2, <1>4, <2>2 DEF Slots
    <2> HIDE DEF h
    <2>4. Stores(h, Own(s), Y)
      BY <1>2, <1>4, <1>6, <2>2, <2>3 DEF Stores
    <2> QED  BY <2>1, <2>2, <2>4
  <1>7. CASE hold[s].pt < 0 /\ d \in DstsOf(KeysOf(hold[s].slot))
    <2> DEFINE c == BumpedChain(hold[s].slot, d)
    <2>1. Becomes(s, Chained(s, c), Own(s))
      <3>1. hold' = [hold EXCEPT ![s] = Chained(s, c)] /\ sblacklist' = sblacklist
        BY <1>5, <1>7 DEF Again, Chained
      <3> QED  BY <1>3, <3>1 DEF Becomes
    <2>2. d \notin DstsOf(Own(s))
      BY <1>2, <1>7 DEF Split, DstsOf, OncePerDst
    <2>3. Split(c, Own(s), Bumped(X, d), Pairs)
      BY <1>1, <1>2, <1>7, <2>2, BumpedInTable
    <2> HIDE DEF c
    <2>4. Stores(Chained(s, c), Own(s), Bumped(X, d))
      BY <1>1, <1>2, <1>7, <2>3, ChainedStores
    <2> QED  BY <2>1, <2>4
  <1>8. CASE hold[s].pt < 0 /\ d \notin DstsOf(KeysOf(hold[s].slot))
    <2>1. Becomes(s, hold[s], Bumped(Own(s), d))
      <3>1. hold' = hold /\ sblacklist' = Replacing(s, Bumped(Own(s), d))
        BY <1>5, <1>8 DEF Again
      <3> QED  BY <1>3, <3>1 DEF Becomes
    <2>2. Split(hold[s].slot, Bumped(Own(s), d), Bumped(X, d), Pairs)
      BY <1>1, <1>2, <1>8, BumpedInList
    <2>3. Stores(hold[s], Bumped(Own(s), d), Bumped(X, d))
      BY <1>2, <1>5, <1>8, <2>2 DEF Stores, Split
    <2> QED  BY <2>1, <2>3
  <1> QED  BY <1>5, <1>6, <1>7, <1>8

-----------------------------------------------------------------------------
(* The invariant.                                                          *)

(* Nothing is stored at the start.                                         *)
LEMMA InitHolds == Init => IInv
  <1>1. SUFFICES ASSUME Init
                 PROVE  IInv
    OBVIOUS
  <1>2. EmptyChain \in [I -> Loose(Pairs) \cup {NoTable}]
    BY DEF EmptyChain
  <1>3. EmptySlot \in Slots /\ EmptySlot.pt = 0 /\ EmptySlot.inl = {} /\ EmptySlot.slot = EmptyChain
    BY <1>2, WeightedAssumption DEF EmptySlot, Slots
  <1>4. Kinds
    BY <1>1, <1>3 DEF Init, Kinds
  <1>5. ASSUME NEW s \in Sources
        PROVE  hold[s] = EmptySlot /\ Own(s) = {} /\ LooksAt(s) = {}
    BY <1>1, <1>3, <1>5 DEF Init, Own, LooksAt
  <1>6. ASSUME NEW s \in Sources
        PROVE  Form(s)
    <2>1. hold[s] = EmptySlot /\ Own(s) = {} /\ LooksAt(s) = {}
      BY <1>5, <1>6
    <2>2. Cardinality({}) = 0
      BY FS_EmptySet
    <2>3. Stores(EmptySlot, {}, {})
      BY <1>3, <2>2 DEF Stores
    <2> QED  BY <2>1, <2>3 DEF Form
  <1>7. ASSUME NEW s \in Sources
        PROVE  Recorded(s)
    BY <1>1, <1>5, <1>7 DEF Init, Recorded, OncePerDst, DstsOf
  <1> QED  BY <1>4, <1>6, <1>7 DEF IInv

(* query_insert does not find the edge: it is stored with weight 1, and    *)
(* nothing else changes.                                                   *)
LEMMA FirstStep ==
  ASSUME IInv, NEW e \in Edges, First(e)
  PROVE  /\ IInv'
         /\ e[2] \notin DstsOf(LooksAt(e[1]))
         /\ LooksAt(e[1])' = LooksAt(e[1]) \cup {<<e[2], 1>>}
         /\ \A u \in Sources : u # e[1] => LooksAt(u)' = LooksAt(u)
  <1> DEFINE s == e[1]  d == e[2]  X == LooksAt(s)  k == <<d, 1>>
  <1>1. s \in Sources /\ d \in Dsts /\ e = <<s, d>> /\ k \in Pairs
    BY EdgeParts, FirstPair
  <1>2. Kinds /\ (\A u \in Sources : Form(u) /\ Recorded(u))
    BY DEF IInv
  <1>3. X \in SUBSET Pairs /\ OncePerDst(X) /\ DstsOf(X) = {x \in Dsts : <<s, x>> \in inserted}
    BY <1>1, <1>2 DEF Recorded
  <1>4. d \notin DstsOf(X) /\ InsertNew(s, k) /\ inserted' = inserted \cup {e}
    BY DEF First, Holds
  <1>5. k \notin X
    BY <1>4 DEF DstsOf
  <1>6. PICK h, P : Becomes(s, h, P) /\ Stores(h, P, X \cup {k})
    BY <1>1, <1>4, <1>5, NewStores
  <1>7. inserted' \in SUBSET Edges
    BY <1>2, <1>4 DEF Kinds
  <1>8. /\ Kinds' /\ \A u \in Sources : Form(u)'
        /\ LooksAt(s)' = X \cup {k}
        /\ \A u \in Sources : u # s => LooksAt(u)' = LooksAt(u)
    BY <1>1, <1>2, <1>6, <1>7, StepIs
  <1>9. ASSUME NEW u \in Sources
        PROVE  Recorded(u)'
    <2>1. CASE u = s
      <3>1. X \cup {k} \in SUBSET Pairs /\ OncePerDst(X \cup {k})
        <4>1. \A p \in X : p[1] # d
          BY <1>4 DEF DstsOf
        <4> QED  BY <1>1, <1>3, <4>1 DEF OncePerDst
      <3>2. DstsOf(X \cup {k}) = DstsOf(X) \cup {d}
        <4>1. {p[1] : p \in X \cup {k}} = {p[1] : p \in X} \cup {k[1]}
          OBVIOUS
        <4> QED  BY <4>1 DEF DstsOf
      <3>3. DstsOf(X \cup {k}) = {x \in Dsts : <<s, x>> \in inserted'}
        BY <1>1, <1>3, <1>4, <3>2
      <3> QED  BY <1>8, <2>1, <3>1, <3>3 DEF Recorded
    <2>2. CASE u # s
      <3>1. {x \in Dsts : <<u, x>> \in inserted'} = {x \in Dsts : <<u, x>> \in inserted}
        BY <1>1, <1>4, <2>2
      <3>2. LooksAt(u)' = LooksAt(u) /\ Recorded(u)
        BY <1>2, <1>8, <1>9, <2>2
      <3> QED  BY <3>1, <3>2 DEF Recorded
    <2> QED  BY <2>1, <2>2
  <1> QED  BY <1>4, <1>8, <1>9 DEF IInv

(* query_insert finds the edge: its weight goes up, and nothing else       *)
(* changes.                                                                *)
LEMMA AgainStep ==
  ASSUME IInv, NEW e \in Edges, Again(e)
  PROVE  /\ IInv'
         /\ e[2] \in DstsOf(LooksAt(e[1]))
         /\ LooksAt(e[1])' = Bumped(LooksAt(e[1]), e[2])
         /\ \A u \in Sources : u # e[1] => LooksAt(u)' = LooksAt(u)
  <1> DEFINE s == e[1]  d == e[2]  X == LooksAt(s)
  <1>1. s \in Sources /\ d \in Dsts /\ inserted' = inserted /\ d \in DstsOf(X)
    BY EdgeParts DEF Again, Holds
  <1>2. Kinds /\ (\A u \in Sources : Form(u) /\ Recorded(u))
    BY DEF IInv
  <1>3. X \in SUBSET Pairs /\ OncePerDst(X) /\ DstsOf(X) = {x \in Dsts : <<s, x>> \in inserted}
    BY <1>1, <1>2 DEF Recorded
  <1>4. PICK h, P : Becomes(s, h, P) /\ Stores(h, P, Bumped(X, d))
    BY AgainStores
  <1>5. inserted' \in SUBSET Edges
    BY <1>1, <1>2 DEF Kinds
  <1>6. /\ Kinds' /\ \A u \in Sources : Form(u)'
        /\ LooksAt(s)' = Bumped(X, d)
        /\ \A u \in Sources : u # s => LooksAt(u)' = LooksAt(u)
    BY <1>1, <1>2, <1>4, <1>5, StepIs
  <1>7. ASSUME NEW u \in Sources
        PROVE  Recorded(u)'
    <2>1. CASE u = s
      <3>1. /\ Bumped(X, d) \in SUBSET Pairs /\ OncePerDst(Bumped(X, d))
            /\ DstsOf(Bumped(X, d)) = DstsOf(X)
        BY <1>1, <1>3, BumpedIs
      <3> QED  BY <1>1, <1>3, <1>6, <2>1, <3>1 DEF Recorded
    <2>2. CASE u # s
      BY <1>1, <1>2, <1>6, <2>2 DEF Recorded
    <2> QED  BY <2>1, <2>2
  <1> QED  BY <1>1, <1>6, <1>7 DEF IInv

(* A step without an insertion changes nothing.                            *)
LEMMA StutterKeeps ==
  ASSUME IInv, UNCHANGED vars
  PROVE  /\ IInv'
         /\ \A u \in Sources : LooksAt(u)' = LooksAt(u)
  <1>1. hold' = hold /\ sblacklist' = sblacklist /\ inserted' = inserted
    BY DEF vars
  <1>2. \A u \in Sources : LooksAt(u)' = LooksAt(u) /\ Own(u)' = Own(u)
    BY <1>1 DEF LooksAt, Own
  <1>3. Kinds'
    BY <1>1 DEF IInv, Kinds
  <1>4. \A u \in Sources : Form(u)' /\ Recorded(u)'
    BY <1>1, <1>2 DEF IInv, Form, Stores, Recorded
  <1> QED  BY <1>2, <1>3, <1>4 DEF IInv

(* Each source stores its edges once, in the form of its bSlot, in every   *)
(* reachable state.                                                        *)
THEOREM Inductive == Spec => []IInv
  <1>1. IInv /\ [Next]_vars => IInv'
    <2>1. SUFFICES ASSUME IInv, [Next]_vars
                   PROVE  IInv'
      OBVIOUS
    <2>2. CASE Next
      BY <2>1, <2>2, FirstStep, AgainStep DEF Next
    <2>3. CASE UNCHANGED vars
      BY <2>1, <2>3, StutterKeeps
    <2> QED  BY <2>1, <2>2, <2>3
  <1> QED  BY <1>1, InitHolds, PTL DEF Spec

-----------------------------------------------------------------------------
(* What the invariant says.                                                *)

(* The types of a reachable state.                                         *)
LEMMA Typed == IInv => TypeOK
  <1>1. SUFFICES ASSUME IInv
                 PROVE  TypeOK
    OBVIOUS
  <1>2. ASSUME NEW s \in Sources
        PROVE  /\ hold[s].pt \in -1 .. Lt
               /\ hold[s].inl \subseteq Pairs
               /\ \A i \in Live(hold[s].slot) :
                     /\ hold[s].slot[i].keys \subseteq Pairs
                     /\ hold[s].slot[i].num = Cardinality(hold[s].slot[i].keys)
    <2>1. hold[s].pt \in -1 .. Lt /\ hold[s].inl \subseteq Pairs
      BY <1>1, HoldIs DEF Slots
    <2>2. CASE hold[s].pt >= 0
      <3>1. Live(hold[s].slot) = {}
        BY <1>1, <2>2, HoldIs, NullChain
      <3> QED  BY <2>1, <3>1
    <2>3. CASE hold[s].pt < 0
      <3>1. ExactChain(hold[s].slot, Pairs)
        BY <1>1, <2>3, HoldIs DEF Split
      <3> QED  BY <2>1, <3>1 DEF ExactChain, Exact, Records
    <2>4. hold[s].pt \in Int
      BY <2>1
    <2> QED  BY <2>2, <2>3, <2>4
  <1>3. ASSUME NEW x \in sblacklist
        PROVE  <<x[1], x[2]>> \in Edges /\ x[3] \in Weights
    <2>1. x[1] \in Sources /\ x[2] \in Dsts /\ x[3] \in Weights /\ inserted \in SUBSET Edges
      BY <1>1, <1>3 DEF IInv, Kinds
    <2>2. PICK s \in Sources : s = x[1]
      BY <2>1
    <2>3. <<x[2], x[3]>> \in Own(s)
      BY <1>3, <2>2 DEF Own
    <2>4. hold[s].pt \in Int
      BY <1>1, HoldIs DEF Slots
    <2>5. <<x[2], x[3]>> \in LooksAt(s)
      BY <1>1, <2>3, <2>4, HoldIs DEF Split
    <2>6. x[2] \in DstsOf(LooksAt(s))
      BY <2>5 DEF DstsOf
    <2>7. <<s, x[2]>> \in inserted
      BY <1>1, <2>6 DEF IInv, Recorded
    <2> QED  BY <2>1, <2>2, <2>7
  <1> QED  BY <1>1, <1>2, <1>3 DEF TypeOK, IInv, Kinds

(* No step of the weighted insert miscounts a table, or denylists an edge  *)
(* that was never inserted.                                                *)
THEOREM TypeCorrect == Spec => []TypeOK
  BY Inductive, Typed, PTL

(* The enumeration of the tables and the denylist is as long as what a     *)
(* lookup meets.                                                           *)
LEMMA EmittedIs ==
  ASSUME IInv, NEW s \in Sources
  PROVE  Emitted(s) = Cardinality(LooksAt(s))
  <1> DEFINE c == hold[s].slot
             n(i) == IF c[i] = NoTable THEN 0 ELSE Cardinality(c[i].keys)
  <1>1. hold[s].pt \in Int
    BY HoldIs DEF Slots
  <1>2. CASE hold[s].pt >= 0
    BY <1>1, <1>2, HoldIs DEF Emitted
  <1>3. CASE hold[s].pt < 0
    <2>1. /\ ExactChain(c, Pairs) /\ Separate(c) /\ Own(s) \in SUBSET Pairs
          /\ KeysOf(c) \cap Own(s) = {} /\ LooksAt(s) = KeysOf(c) \cup Own(s)
          /\ IsFiniteSet(Pairs)
      BY <1>3, HoldIs, PairsNullable DEF Split, Nullable
    <2>2. /\ KeysOf(c) = KeysAt(c, 0) \cup KeysAt(c, 1) \cup KeysAt(c, 2)
          /\ \A i \in I : KeysAt(c, i) \in SUBSET Pairs
      BY <2>1, ChainKeysAt DEF ExactChain
    <2>3. 0 \in I /\ 1 \in I /\ 2 \in I
      BY DEF I
    <2>4. PICK A \in SUBSET Pairs, B \in SUBSET Pairs, C \in SUBSET Pairs :
            A = KeysAt(c, 0) /\ B = KeysAt(c, 1) /\ C = KeysAt(c, 2)
      BY <2>2, <2>3
    <2>5. n(0) = Cardinality(A) /\ n(1) = Cardinality(B) /\ n(2) = Cardinality(C)
      BY <2>4, FS_EmptySet DEF KeysAt
    <2>6. Emitted(s) = n(0) + n(1) + n(2) + Cardinality(Own(s))
      BY <1>3 DEF Emitted
    <2> HIDE DEF n
    <2>7. IsFiniteSet(A) /\ IsFiniteSet(B) /\ IsFiniteSet(C) /\ IsFiniteSet(Own(s))
      BY <2>1, FS_Subset
    <2>8. A \cap B = {} /\ (A \cup B) \cap C = {} /\ (A \cup B \cup C) \cap Own(s) = {}
      BY <2>1, <2>2, <2>4 DEF Separate
    <2>9. /\ IsFiniteSet(A \cup B) /\ Cardinality(A \cup B) = Cardinality(A) + Cardinality(B)
          /\ Cardinality(A) \in Nat /\ Cardinality(B) \in Nat
      BY <2>7, <2>8, UnionSize
    <2>10. /\ IsFiniteSet(A \cup B \cup C)
           /\ Cardinality(A \cup B \cup C) = Cardinality(A \cup B) + Cardinality(C)
           /\ Cardinality(C) \in Nat
      BY <2>7, <2>8, <2>9, UnionSize
    <2>11. /\ Cardinality(A \cup B \cup C \cup Own(s)) = Cardinality(A \cup B \cup C) + Cardinality(Own(s))
           /\ Cardinality(Own(s)) \in Nat
      BY <2>7, <2>8, <2>10, UnionSize
    <2>12. LooksAt(s) = A \cup B \cup C \cup Own(s)
      BY <2>1, <2>2, <2>4
    <2> QED  BY <2>5, <2>6, <2>9, <2>10, <2>11, <2>12
  <1> QED  BY <1>1, <1>2, <1>3

(* GetNeighbors emits the inserted edges of a source, each once.           *)
LEMMA NeighborsAre == IInv => NeighborsExact
  <1>1. SUFFICES ASSUME IInv, NEW s \in Sources
                 PROVE  /\ Neighbors(s) = {d \in Dsts : <<s, d>> \in inserted}
                        /\ Emitted(s) = Cardinality(Neighbors(s))
    BY DEF NeighborsExact
  <1>2. LooksAt(s) \in SUBSET Pairs /\ OncePerDst(LooksAt(s))
    BY <1>1, HoldIs
  <1>3. IsFiniteSet(LooksAt(s)) /\ Cardinality(DstsOf(LooksAt(s))) = Cardinality(LooksAt(s))
    BY <1>2, AsManyDsts
  <1>4. DstsOf(LooksAt(s)) = {d \in Dsts : <<s, d>> \in inserted}
    BY <1>1 DEF IInv, Recorded
  <1>5. Neighbors(s) = DstsOf(LooksAt(s))
    <2>1. CASE hold[s].pt = 0
      <3>1. Cardinality(LooksAt(s)) = 0
        BY <1>1, <2>1, HoldIs
      <3>2. LooksAt(s) = {}
        BY <1>3, <3>1, FS_EmptySet
      <3> QED  BY <2>1, <3>2 DEF Neighbors
    <2>2. CASE hold[s].pt # 0
      BY <2>2 DEF Neighbors
    <2> QED  BY <2>1, <2>2
  <1> QED  BY <1>1, <1>3, <1>4, <1>5, EmittedIs

(* However often an edge is moved by kicks, merges and the denylist, and   *)
(* although its weight wraps to 0, GetNeighbors emits it exactly once.     *)
THEOREM EmittedOnce == Spec => []NeighborsExact
  BY Inductive, NeighborsAre, PTL

-----------------------------------------------------------------------------
(* The counters of Multigraph.                                             *)

(* The weight query makes of the pairs it meets.                           *)
WeightIn(X, d) ==
    LET ws == {p[2] : p \in {q \in X : q[1] = d}} \ {0}
    IN  IF ws = {} THEN 0 ELSE CHOOSE w \in ws : TRUE

(* query returns the weight of an edge that is there, 0 or not.            *)
LEMMA WeightIs ==
  ASSUME NEW X \in SUBSET Pairs, OncePerDst(X), NEW d, NEW w, <<d, w>> \in X
  PROVE  WeightIn(X, d) = w
  <1>1. {q \in X : q[1] = d} = {<<d, w>>}
    BY DEF OncePerDst
  <1>2. {p[2] : p \in {q \in X : q[1] = d}} = {w}
    BY <1>1
  <1>3. CASE w = 0
    BY <1>2, <1>3 DEF WeightIn
  <1>4. CASE w # 0
    <2>1. {p[2] : p \in {q \in X : q[1] = d}} \ {0} = {w}
      BY <1>2, <1>4
    <2>2. WeightIn(X, d) = CHOOSE v \in {w} : TRUE
      BY <2>1 DEF WeightIn
    <2> QED  BY <2>2
  <1> QED  BY <1>3, <1>4

(* query returns 0 for an edge that is not there.                          *)
LEMMA NoWeight ==
  ASSUME NEW X, NEW d, d \notin DstsOf(X)
  PROVE  WeightIn(X, d) = 0
  <1>1. {q \in X : q[1] = d} = {}
    BY DEF DstsOf
  <1>2. {p[2] : p \in {q \in X : q[1] = d}} \ {0} = {}
    BY <1>1
  <1> QED  BY <1>2 DEF WeightIn

(* Pairs of other destinations do not matter.                              *)
LEMMA SameWeight ==
  ASSUME NEW X \in SUBSET Pairs, NEW Y \in SUBSET Pairs, NEW d,
         \A p \in Pairs : p[1] = d => (p \in X <=> p \in Y)
  PROVE  WeightIn(X, d) = WeightIn(Y, d)
  <1>1. {q \in X : q[1] = d} = {q \in Y : q[1] = d}
    OBVIOUS
  <1> QED  BY <1>1 DEF WeightIn

(* query looks at the pairs of the source.                                 *)
LEMMA QueryIs ==
  ASSUME NEW e
  PROVE  /\ Query(e) = WeightIn(LooksAt(e[1]), e[2])
         /\ Query(e)' = WeightIn(LooksAt(e[1])', e[2])
  BY DEF Query, WeightIn

(* The first insertion of an edge takes its counter from 0 to 1.           *)
LEMMA FirstCounts ==
  ASSUME IInv, NEW e \in Edges, First(e)
  PROVE  Query(e)' = (Query(e) + 1) % Wrap
  <1>1. /\ e[1] \in Sources /\ e[2] \in Dsts /\ 1 \in Weights /\ 1 % Wrap = 1
    BY EdgeParts, WeightedAssumption DEF Weights
  <1>2. PICK X : X = LooksAt(e[1])'
    OBVIOUS
  <1>3. /\ IInv' /\ e[2] \notin DstsOf(LooksAt(e[1]))
        /\ X = LooksAt(e[1]) \cup {<<e[2], 1>>}
    BY <1>2, FirstStep
  <1>4. X \in SUBSET Pairs /\ OncePerDst(X)
    BY <1>1, <1>2, <1>3 DEF IInv, Recorded
  <1>5. WeightIn(X, e[2]) = 1
    BY <1>3, <1>4, WeightIs
  <1>6. WeightIn(LooksAt(e[1]), e[2]) = 0
    BY <1>3, NoWeight
  <1> QED  BY <1>1, <1>2, <1>5, <1>6, QueryIs

(* Another one adds 1 to it, modulo Wrap.                                  *)
LEMMA AgainCounts ==
  ASSUME IInv, NEW e \in Edges, Again(e)
  PROVE  Query(e)' = (Query(e) + 1) % Wrap
  <1>1. e[1] \in Sources /\ e[2] \in Dsts
    BY EdgeParts
  <1>2. PICK X \in SUBSET Pairs : X = LooksAt(e[1]) /\ OncePerDst(X)
    BY <1>1, HoldIs
  <1>3. PICK Y : Y = LooksAt(e[1])'
    OBVIOUS
  <1>4. e[2] \in DstsOf(X) /\ Y = Bumped(X, e[2])
    BY <1>2, <1>3, AgainStep
  <1>5. PICK p \in X : p[1] = e[2]
    BY <1>4 DEF DstsOf
  <1>6. PICK w \in Weights : p = <<e[2], w>>
    BY <1>2, <1>5 DEF Pairs
  <1>7. /\ Y \in SUBSET Pairs /\ OncePerDst(Y) /\ <<e[2], (w + 1) % Wrap>> \in Y
    BY <1>1, <1>2, <1>4, <1>5, <1>6, BumpedIs
  <1>8. WeightIn(X, e[2]) = w
    BY <1>2, <1>5, <1>6, WeightIs
  <1>9. WeightIn(Y, e[2]) = (w + 1) % Wrap
    BY <1>7, WeightIs
  <1> QED  BY <1>2, <1>3, <1>8, <1>9, QueryIs

(* Neither changes the counter of another edge.                            *)
LEMMA OthersCount ==
  ASSUME IInv, NEW e \in Edges, First(e) \/ Again(e), NEW f \in Edges, f # e
  PROVE  Query(f)' = Query(f)
  <1>1. /\ e[1] \in Sources /\ e[2] \in Dsts /\ e = <<e[1], e[2]>>
        /\ f[1] \in Sources /\ f[2] \in Dsts /\ f = <<f[1], f[2]>>
    BY EdgeParts
  <1>2. PICK X \in SUBSET Pairs : X = LooksAt(f[1]) /\ OncePerDst(X)
    BY <1>1, HoldIs
  <1>3. PICK Y : Y = LooksAt(f[1])'
    OBVIOUS
  <1>4. IInv'
    BY FirstStep, AgainStep
  <1>5. Y \in SUBSET Pairs
    BY <1>1, <1>3, <1>4 DEF IInv, Recorded
  <1>6. CASE f[1] # e[1]
    <2>1. Y = X
      BY <1>1, <1>2, <1>3, <1>6, FirstStep, AgainStep
    <2> QED  BY <1>2, <1>3, <2>1, QueryIs
  <1>7. CASE f[1] = e[1]
    <2>1. f[2] # e[2]
      BY <1>1, <1>7
    <2>2. \A p \in Pairs : p[1] = f[2] => (p \in X <=> p \in Y)
      <3>1. CASE First(e)
        <4>1. Y = X \cup {<<e[2], 1>>}
          BY <1>2, <1>3, <1>7, <3>1, FirstStep
        <4> QED  BY <2>1, <4>1
      <3>2. CASE Again(e)
        <4>1. Y = Bumped(X, e[2])
          BY <1>2, <1>3, <1>7, <3>2, AgainStep
        <4> QED  BY <1>1, <1>2, <2>1, <4>1, BumpedIs
      <3> QED  BY <3>1, <3>2
    <2>3. WeightIn(X, f[2]) = WeightIn(Y, f[2])
      BY <1>5, <2>2, SameWeight
    <2> QED  BY <1>2, <1>3, <2>3, QueryIs
  <1> QED  BY <1>6, <1>7

(* An insertion of an edge is an insertion into the store of counters,     *)
(* whatever else it moves.                                                 *)
LEMMA StepMaps ==
  ASSUME IInv, [Next]_vars
  PROVE  [M!Next]_[e \in Edges |-> Query(e)]
  <1>1. CASE UNCHANGED vars
    <2>1. \A f \in Edges : Query(f)' = Query(f)
      BY <1>1, StutterKeeps, QueryIs, EdgeParts
    <2> QED  BY <2>1
  <1>2. ASSUME NEW e \in Edges, First(e) \/ Again(e)
        PROVE  M!Next
    <2>1. Query(e)' = (Query(e) + 1) % Wrap
      BY <1>2, FirstCounts, AgainCounts
    <2>2. \A f \in Edges : f # e => Query(f)' = Query(f)
      BY <1>2, OthersCount
    <2>3. M!Insert(e)
      BY <2>1, <2>2 DEF M!Insert
    <2> QED  BY <2>3 DEF M!Next
  <1> QED  BY <1>1, <1>2 DEF Next

(* The weighted build is the store of counters: query gives the number of  *)
(* insertions of every edge modulo the width of a weight, for all sizes,   *)
(* rates, hash values and orders of insertion.                             *)
THEOREM Refinement == Spec => ImplementsMultigraph
  <1>1. Init => M!Init
    <2>1. SUFFICES ASSUME Init
                   PROVE  M!Init
      OBVIOUS
    <2>2. ASSUME NEW e \in Edges
          PROVE  Query(e) = 0
      <3>1. e[1] \in Sources
        BY EdgeParts
      <3>2. LooksAt(e[1]) = {}
        BY <2>1, <3>1 DEF Init, LooksAt, EmptySlot
      <3> QED  BY <3>2, QueryIs, NoWeight DEF DstsOf
    <2> QED  BY <2>2 DEF M!Init
  <1>2. IInv /\ [Next]_vars => [M!Next]_[e \in Edges |-> Query(e)]
    BY StepMaps
  <1> QED  BY <1>1, <1>2, Inductive, PTL DEF Spec, ImplementsMultigraph, M!Spec

=============================================================================
