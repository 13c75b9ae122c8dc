------------------------------ MODULE KeyTable ------------------------------
(***************************************************************************)
(* The promise of one cuckoo hash table (class Cuckoo of                   *)
(* CuckooGraph/Cuckoo.h) to the code that owns it, with buckets, layers    *)
(* and the kick loop hidden.  A table is a set of keys and a counter; an   *)
(* insertion either stores its key, or fails and hands exactly one key     *)
(* back in the global mykick.  The key handed back may be any of the       *)
(* stored ones: a caller that believes the key it asked for was refused,   *)
(* and tries it elsewhere, stores it twice and forgets the other one.      *)
(***************************************************************************)
EXTENDS Integers

CONSTANTS
    Keys,       \* the vertex identifiers a table may hold
    NoKey,      \* mykick before the first failed insertion
    Crowd       \* an insertion into a table of fewer keys never fails

VARIABLES
    stored,     \* the keys of the table
    num,        \* the counter the owner's load thresholds read
    mykick      \* the key the last failed insertion handed back

tableVars == <<stored, num, mykick>>

Init ==
    /\ stored = {}
    /\ num = 0
    /\ mykick = NoKey

Insert(k) ==
    /\ k \notin stored
    /\ stored' = stored \cup {k}
    /\ num' = num + 1
    /\ UNCHANGED mykick

(* Only a table that already holds Crowd keys can turn an insertion down.   *)
InsertFails(k) ==
    /\ k \notin stored
    /\ num >= Crowd
    /\ \E victim \in stored \cup {k} :
          /\ stored' = (stored \cup {k}) \ {victim}
          /\ mykick' = victim
    /\ UNCHANGED num

Del(k) ==
    /\ k \in stored
    /\ stored' = stored \ {k}
    /\ num' = num - 1
    /\ UNCHANGED mykick

Next == \E k \in Keys : Insert(k) \/ InsertFails(k) \/ Del(k)

Spec == Init /\ [][Next]_tableVars
=============================================================================
