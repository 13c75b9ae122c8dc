----------------------------- MODULE HoleMerge -----------------------------
(***************************************************************************)
(* The graph: classes holemerge and bCuckoo of CuckooGraph/main.cpp        *)
(* (1509-2350).  Source vertices, each with its bSlot, are the items of a  *)
(* chain of up to three L-CHTs with a denylist of bSlots that a table      *)
(* handed back (blacklist).                                                *)
(*                                                                         *)
(* A bSlot is what AdjSlot promises of it: an insert into it succeeds, and *)
(* the del of its last edge leaves it in one of three ways: free and       *)
(* reported so (-1); reported so but still occupied, src and pt kept       *)
(* (AdjSlot!DelDenied); or occupied, its tables empty, and not reported.   *)
(* The other edges of a source do not matter here, so the state says of a  *)
(* source where its bSlot is and whether it holds any edge.                *)
(***************************************************************************)
EXTENDS TableOps

CONSTANTS
    Sources,     \* source vertices (nonzero)
    L1, L2,      \* layer lengths of the first table (bl1, bl2)
    Bbl,         \* denylist size from which tables are added (bbl)
    MaxLen2      \* bound: no merge makes a second layer longer

ASSUME ShapeAssumption ==
    /\ {Bup, L1, L2, Bbl} \subseteq Nat \ {0}
    /\ L1 % 2 = 0 /\ L2 % 2 = 0
    /\ MinC2 \in Nat /\ MinC2 > L2
    /\ MaxLen2 \in Nat
ASSUME SourcesFinite == IsFiniteSet(Sources)
(* A null pointer is not a table.                                          *)
ASSUME NullAssumption ==
    NoTable \notin [len1 : Nat, len2 : Nat, keys : SUBSET Sources, num : Int]

VARIABLES
    link,       \* the tables; the items of a table are sources
    blacklist,  \* sources whose bSlot is in the denylist
    holds,      \* sources whose bSlot holds an edge
    phase,      \* "idle", or "post" between main_del and the end of post_del
    present,    \* history: sources with an edge inserted and not deleted
    uncounted,  \* history: sources del reported free while their bSlot stayed
    doubled     \* history: sources left in two places by a failed insert

vars == <<link, blacklist, holds, phase, present, uncounted, doubled>>

-----------------------------------------------------------------------------
InTables == KeysOf(link)
Placed   == InTables \cup blacklist

(* state of the code is one less than the number of tables.                *)
Tables == Cardinality(Live(link))

(* query of an edge of s: its bSlot is found and holds it.                 *)
Found(s) == s \in Placed /\ s \in holds

DenyFull == Cardinality(blacklist) >= Bbl

Init ==
    /\ link = EmptyChain
    /\ blacklist = {}
    /\ holds = {}
    /\ phase = "idle"
    /\ present = {} /\ uncounted = {} /\ doubled = {}

-----------------------------------------------------------------------------
(* An edge of a source whose bSlot exists goes into that bSlot.            *)
InsertExisting(s) ==
    /\ s \in Placed
    /\ UNCHANGED <<link, blacklist>>

(* The first source, or the first after the last table was deleted.        *)
InsertFirst(s) ==
    /\ s \notin Placed /\ Tables = 0
    /\ link' = [link EXCEPT ![0] = Holding(NewTable(L1, L2), {s}, 1)]
    /\ UNCHANGED blacklist

(* A table below the rate takes the source, unless the denylist is full;   *)
(* what the table hands back is denylisted.                                *)
InsertRoomy(s) ==
    /\ s \notin Placed /\ ~ DenyFull
    /\ \E i \in HighestBelowRate(link) : \E p \in Pour(link[i], {s}) :
          /\ link' = [link EXCEPT ![i] = p[1]]
          /\ blacklist' = blacklist \cup p[2]

MustExpand(s) ==
    s \notin Placed /\ (DenyFull \/ HighestBelowRate(link) = {})

(* Mutant: the denylist is not cleared.                                    *)
InsertExpandsUncleared(s) ==
    /\ MustExpand(s) /\ Tables \in {1, 2}
    /\ LET new == IF Tables = 1 THEN HalfOf(link[0])
                  ELSE NewTable(link[1].len1, link[1].len2)
       IN  \E p \in Pour(new, blacklist \cup {s}) :
              link' = [link EXCEPT ![Tables] = p[1]] /\ blacklist' = blacklist \cup p[2]

(* A second or third table takes the denylist and then the source.         *)
InsertExpands(s) ==
    /\ MustExpand(s) /\ Tables \in {1, 2}
    /\ LET new == IF Tables = 1 THEN HalfOf(link[0])
                  ELSE NewTable(link[1].len1, link[1].len2)
       IN  \E p \in Pour(new, blacklist \cup {s}) :
              /\ link' = [link EXCEPT ![Tables] = p[1]]
              /\ blacklist' = p[2]

DisjointTables == \A i, j \in Live(link) : i # j => link[i].keys \cap link[j].keys = {}

(* merge of the three tables.                                              *)
Merged == MergeTables(link[0], link[1], link[2])

(* Mutant: link[2] is not set to NULL.                                     *)
InsertMergesKeepsThird(s) ==
    /\ MustExpand(s) /\ Tables = 3
    /\ link[0].len2 * 2 <= MaxLen2 /\ DisjointTables
    /\ \E m \in Merged :
       \E p \in Pour(HalfOf(m[1]), blacklist \cup m[2] \cup {s}) :
          link' = [link EXCEPT ![0] = m[1], ![1] = p[1]] /\ blacklist' = p[2]

(* Three full tables are merged and a new second one takes the denylist,   *)
(* what the merge handed back included, and then the source.               *)
InsertMerges(s) ==
    /\ MustExpand(s) /\ Tables = 3
    /\ link[0].len2 * 2 <= MaxLen2 /\ DisjointTables
    /\ \E m \in Merged :
       \E p \in Pour(HalfOf(m[1]), blacklist \cup m[2] \cup {s}) :
          /\ link' = [i \in I |-> IF i = 0 THEN m[1] ELSE IF i = 1 THEN p[1] ELSE NoTable]
          /\ blacklist' = p[2]

(* insert of an edge whose source holds no edge; an edge more of a source  *)
(* that does changes nothing here.                                         *)
Insert(s) ==
    /\ phase = "idle"
    /\ ~ Found(s)
    /\ InsertExisting(s) \/ InsertFirst(s) \/ InsertRoomy(s) \/ InsertExpands(s)
          \/ InsertMerges(s)
    /\ holds' = holds \cup {s}
    /\ present' = present \cup {s}
    /\ UNCHANGED <<phase, uncounted, doubled>>

-----------------------------------------------------------------------------
(* main_del of the last edge of s when the bSlot is not reported free.     *)
DelHollow(s) ==
    /\ s \in Placed
    /\ UNCHANGED <<link, blacklist, uncounted, doubled>>

(* In the denylist a bSlot reported free is erased.                        *)
DelDenied(s) ==
    /\ s \in blacklist \ InTables
    /\ blacklist' = blacklist \ {s}
    /\ UNCHANGED <<link, uncounted, doubled>>

(* Mutants: num is not counted down, or counted down twice.                *)
FreedUncounted(s) ==
    LET i == CHOOSE i \in Live(link) : s \in link[i].keys
    IN  [link EXCEPT ![i] = Holding(@, @.keys \ {s}, @.num)]
FreedTwice(s) ==
    LET i == CHOOSE i \in Live(link) : s \in link[i].keys
    IN  [link EXCEPT ![i] = Holding(@, @.keys \ {s}, @.num - 2)]

(* The chain after a bSlot in a table was reported free: its table counts  *)
(* one down, and the bSlot is gone or, not reset, is still there.          *)
Freed(s) ==
    LET i == CHOOSE i \in Live(link) : s \in link[i].keys
    IN  [link EXCEPT ![i] = Without(@, s)]
Kept(s) ==
    LET i == CHOOSE i \in Live(link) : s \in link[i].keys
    IN  [link EXCEPT ![i] = Holding(@, @.keys, @.num - 1)]

(* What main_del makes of the chain c, which has just counted one down.    *)
DropsOnly(c) ==
    /\ Tables = 1 /\ c[0].num = 0
    /\ link' = EmptyChain
    /\ UNCHANGED <<blacklist, doubled>>

(* Mutant: the larger of the last two tables is not moved up.              *)
DropsSmallestUnmoved(c) ==
    /\ \/ Tables = 2 /\ c[1].num = 0 /\ link' = [c EXCEPT ![1] = NoTable]
       \/ Tables = 3 /\ c[Small(c)].num = 0 /\ link' = [c EXCEPT ![2] = NoTable]
    /\ UNCHANGED <<blacklist, doubled>>

DropsSmallest(c) ==
    /\ \/ /\ Tables = 2 /\ c[1].num = 0
          /\ link' = [c EXCEPT ![1] = NoTable]
       \/ /\ Tables = 3 /\ c[Small(c)].num = 0
          /\ link' = [c EXCEPT ![1] = c[Big(c)], ![2] = NoTable]
    /\ UNCHANGED <<blacklist, doubled>>

(* compress of the only table.                                             *)
Compressed(c) == CompressTable(c[0])

(* Mutant: a table is halved whatever it holds.                            *)
HalvesAlways(c) ==
    /\ Tables = 1 /\ c[0].num # 0 /\ c[0].len2 >= MinC2
    /\ \E p \in Compressed(c) :
          link' = [c EXCEPT ![0] = p[1]] /\ blacklist' = blacklist \cup p[2]
    /\ UNCHANGED doubled

Halves(c) ==
    /\ Tables = 1 /\ c[0].num # 0 /\ c[0].len2 >= MinC2 /\ Sparse(c)
    /\ \E p \in Compressed(c) :
          /\ link' = [c EXCEPT ![0] = p[1]]
          /\ blacklist' = blacklist \cup p[2]
    /\ UNCHANGED doubled

ShrinksTwo(c) ==
    /\ Tables = 2 /\ c[1].num # 0 /\ Sparse(c)
    /\ c[0].keys \cap c[1].keys = {}
    /\ \E p \in Pour(c[0], c[1].keys) :
          /\ link' = [c EXCEPT ![0] = p[1], ![1] = NoTable]
          /\ blacklist' = blacklist \cup p[2]
    /\ UNCHANGED doubled

ShrinksThree(c) ==
    LET sm == c[Small(c)] IN
    /\ Tables = 3 /\ sm.num # 0 /\ Sparse(c)
    /\ sm.keys \cap (c[0].keys \cup c[Big(c)].keys) = {}
    /\ \E r \in Redistribute(sm, c[0], c[Big(c)]) :
          /\ link' = [c EXCEPT ![0] = r[1], ![1] = r[2], ![2] = NoTable]
          /\ blacklist' = blacklist \cup r[3]
          /\ doubled' = doubled \cup StoredTwice(r)

LeavesChain(c) ==
    /\ \/ Tables = 1 /\ c[0].num # 0 /\ ~ (c[0].len2 >= MinC2 /\ Sparse(c))
       \/ Tables = 2 /\ c[1].num # 0 /\ ~ Sparse(c)
       \/ Tables = 3 /\ c[Small(c)].num # 0 /\ ~ Sparse(c)
    /\ link' = c
    /\ UNCHANGED <<blacklist, doubled>>

Rearranged(c) ==
    \/ DropsOnly(c) \/ DropsSmallest(c) \/ Halves(c)
    \/ ShrinksTwo(c) \/ ShrinksThree(c) \/ LeavesChain(c)

DelFreed(s) ==
    /\ s \in InTables
    /\ Rearranged(Freed(s))
    /\ UNCHANGED uncounted

DelKept(s) ==
    /\ s \in InTables
    /\ Rearranged(Kept(s))
    /\ uncounted' = uncounted \cup {s}

(* post_del goes on while the denylist is overlong.                        *)
PostPhase(b) == IF Cardinality(b) > Bbl THEN "post" ELSE "idle"

(* del of the last edge of a source; post_del follows.                     *)
Del(s) ==
    /\ phase = "idle"
    /\ Found(s)
    /\ DelHollow(s) \/ DelDenied(s) \/ DelFreed(s) \/ DelKept(s)
    /\ holds' = holds \ {s}
    /\ present' = present \ {s}
    /\ phase' = PostPhase(blacklist')

(* del of any other edge, found or not: nothing but post_del happens.      *)
DelOther ==
    /\ phase = "idle" /\ Cardinality(blacklist) > Bbl
    /\ phase' = "post"
    /\ UNCHANGED <<link, blacklist, holds, present, uncounted, doubled>>

(* A bSlot taken out of the denylist goes to the last table below the      *)
(* rate, which may hand one back; when there is none it goes nowhere.      *)
GivenBack(s) ==
    IF HighestBelowRate(link) = {} THEN {<<link, {}>>}
    ELSE LET i == CHOOSE i \in HighestBelowRate(link) : TRUE
         IN  {<<[link EXCEPT ![i] = p[1]], p[2]>> :
                p \in IF s \in link[i].keys THEN {} ELSE Pour(link[i], {s})}

(* An iteration of post_del.                                               *)
PostDel ==
    /\ phase = "post"
    /\ \E s \in blacklist : \E g \in GivenBack(s) :
          /\ link' = g[1]
          /\ blacklist' = (blacklist \ {s}) \cup g[2]
    /\ phase' = PostPhase(blacklist')
    /\ UNCHANGED <<holds, present, uncounted, doubled>>

Next ==
    \/ \E s \in Sources : Insert(s) \/ Del(s)
    \/ DelOther \/ PostDel

Spec == Init /\ [][Next]_vars

-----------------------------------------------------------------------------
TypeOK ==
    /\ link \in [I -> [len1 : Nat, len2 : Nat, keys : SUBSET Sources, num : Nat]
                        \cup {NoTable}]
    /\ {blacklist, holds, present, uncounted, doubled} \subseteq SUBSET Sources
    /\ phase \in {"idle", "post"}

(* The three ways the code loses track of a bSlot, each recorded where it  *)
(* happens.                                                                *)
NothingMislaid == uncounted = {} /\ doubled = {}

(* No expansion, merge, halving, redistribution, deletion of a table or    *)
(* post_del loses a source that still has edges, or resurrects one.        *)
NoSourceLost == NothingMislaid => \A s \in Sources : Found(s) <=> s \in present

(* A source has one bSlot: query, which stops at the first one with the    *)
(* source (1455, 2104), sees all its edges.                                *)
OneSlotPerSource ==
    NothingMislaid =>
        /\ \A i, j \in Live(link) : i # j => link[i].keys \cap link[j].keys = {}
        /\ InTables \cap blacklist = {}

(* post_del takes a bSlot out of the denylist before it looks for a table  *)
(* below the rate (2332-2336) and has no branch for there being none.      *)
PostHasRoom == NothingMislaid /\ phase = "post" => HighestBelowRate(link) # {}

(* A table is deleted when its num is 0: num counts its bSlots.            *)
NumsExact ==
    NothingMislaid => \A i \in Live(link) : link[i].num = Cardinality(link[i].keys)

(* Tables fill the chain from the front (state says how many there are)    *)
(* and the later ones are half as long as the first, which is what merge   *)
(* walks (1868, 1896).                                                     *)
ChainShape ==
    /\ Live(link) \in {{}, {0}, {0, 1}, I}
    /\ \A i \in Live(link) :
          /\ link[i].len1 >= 1 /\ link[i].len2 >= 1
          /\ i > 0 => /\ 2 * link[i].len1 = link[0].len1
                      /\ 2 * link[i].len2 = link[0].len2

(* An edge that was inserted and not deleted is found: what test_hole_err2 *)
(* (2587) counts as errors, test_hole_del_err (3166) asserts after insert. *)
InsertedIsFound == \A s \in present : Found(s)
=============================================================================
