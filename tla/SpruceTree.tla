---- MODULE SpruceTree ----
(***************************************************************************)
(* The Spruce index the benchmarks compare with, under concurrent calls of *)
(* UpdateEdge (InsertEdge is the same code without the search for the      *)
(* edge), DeleteEdge and get_neighbours: src/Competitors/src/spruce/       *)
(* index_algorithms.cpp.  A source is found through the top block (one bit *)
(* and one child per range of 2^16 sources), a middle block (one bit and   *)
(* one buffer pointer per source) and the adjacency block of the source.   *)
(*                                                                         *)
(* All identifiers lie below UINT32_MAX: fb_flag is 0 and the blocks are   *)
(* those of 4 byte identifiers.  The code for 8 byte ones differs from it  *)
(* in more than the width (see ApplyPresent), and is not modelled.         *)
(*                                                                         *)
(* One range of sources is modelled; `others` says whether another range   *)
(* is occupied.  A step is one access of shared state that another thread  *)
(* can tell apart, and a critical section under the mtx of the top or the  *)
(* middle block is one step; the pointer block of 64 sources, never freed, *)
(* is part of the middle block.  Sources lie in different bytes of the     *)
(* bitmap.  The block sizes 4..64 are two: SmallCap, and HeadCap for the   *)
(* type with an edge array.  A freed block keeps its content.              *)
(***************************************************************************)
EXTENDS Naturals, FiniteSets

CONSTANTS Threads, Sources, Dests,
          Edges,              \* the edges the threads insert and delete
          Loads,              \* the graphs the threads may find at the start
          SmallCap, HeadCap,  \* slots of a block without and with an edge array
          Threshold,          \* RESTART_THRESHOLD
          MaxCalls,           \* bound: calls of one thread
          Middles, Blocks,    \* bound: addresses of middle and adjacency blocks
          Null, Leaked        \* no pointer or owner; a lock nobody will release

Junk == "junk"   \* a slot whose bit is set before its vertex is written

ASSUME SizeAssumption ==
    /\ {SmallCap, HeadCap, Threshold, MaxCalls} \subseteq Nat
    /\ 0 < SmallCap /\ SmallCap < HeadCap /\ IsFiniteSet(Dests)
ASSUME NameAssumption ==
    /\ Null \notin Threads \cup Sources \cup Dests \cup Middles \cup Blocks
    /\ Leaked \notin Threads \cup {Null} /\ Junk \notin Dests
    /\ Edges \subseteq Sources \X Dests
\* Every source has a block of its own; an edge array comes with a full head.
ASSUME LoadAssumption ==
    /\ \E f \in [Sources -> Blocks] : \A s, u \in Sources : f[s] = f[u] => s = u
    /\ \A load \in Loads :
          /\ load \in [Sources -> [head : SUBSET Dests, array : SUBSET Dests]]
          /\ \A s \in Sources : /\ Cardinality(load[s].head) <= HeadCap
                                /\ load[s].array # {} => load[s].head # {}

VARIABLES top,     \* [bit, child, others, obsolete]
          middle,  \* bits, buf (ptr_to_buffer), owner (buffer_locks), obsolete
          block,   \* five (type 5), head (adj_vertex), array (next_block), obsolete
          thread,  \* program counter, call and local variables of each thread
          edges,   \* the graph: what the finished insertions and deletions left
          overlap  \* an insertion ran while a deletion was retiring blocks
vars == <<top, middle, block, thread, edges, overlap>>

NoMiddle == [bits |-> {}, buf |-> [s \in Sources |-> Null],
             owner |-> [s \in Sources |-> Null], obsolete |-> FALSE]
NewBlock == [five |-> FALSE, head |-> {}, array |-> {}, obsolete |-> FALSE]
Idle(n) == [pc |-> "idle", s |-> Null, d |-> Null, m |-> Null, b |-> Null,
            same |-> FALSE, left |-> 0, got |-> {}, seen |-> {}, wrong |-> FALSE,
            calls |-> n]

Content(b) == block[b].head \cup block[b].array

\* Addresses nothing points at: malloc may return them.
UsedMiddles == {top.child} \cup {thread[t].m : t \in Threads}
UsedBlocks == {thread[t].b : t \in Threads}
              \cup {middle[m].buf[s] : m \in Middles, s \in Sources}
Free(S, used) == CHOOSE x \in S : x \notin used
FreeMiddle == Free(Middles, UsedMiddles)
FreeBlock == Free(Blocks, UsedBlocks)
Memory(S, used) == \E x \in S : x \notin used

(***************************************************************************)
(* Steps of a thread: Go moves it on, Return ends its call.                *)
(***************************************************************************)
At(t, pc) == thread[t].pc = pc
Go(t, pc) == thread' = [thread EXCEPT ![t].pc = pc]
Return(t) == thread' = [thread EXCEPT ![t] = Idle(@.calls)]

Inserting(t) == thread[t].pc \in {"top", "bottom", "locked", "unlocked", "setbit",
                                  "acquire", "apply", "fill", "chain"}
Retiring(t) == thread[t].pc \in {"dclear", "dnull", "dsweep", "droot", "dtopcheck"}
Watch == overlap' = (overlap \/ \E t, u \in Threads : Inserting(t)' /\ Retiring(u)')

\* timestamp += 1: whoever is reading b will find another value.
Stamped(b) == [t \in Threads |-> [thread[t] EXCEPT !.same = @ /\ thread[t].b # b]]

\* The graph becomes g: readers of s record what it may now return.
Becomes(g, s, T) ==
    /\ edges' = g
    /\ thread' = [t \in Threads |->
                    IF T[t].s = s /\ T[t].seen # {}
                      THEN [T[t] EXCEPT !.seen = @ \cup {{e[2] : e \in {x \in g : x[1] = s}}}]
                      ELSE T[t]]

Released(m, s) == [middle EXCEPT ![m].owner[s] = Null]
Ended(t) == [thread EXCEPT ![t] = Idle(@.calls)]

(***************************************************************************)
(* A call begins.                                                          *)
(***************************************************************************)
Begin(t, pc, s, d, seen) ==
    /\ At(t, "idle")
    /\ thread[t].calls < MaxCalls
    /\ thread' = [thread EXCEPT ![t] =
                    [Idle(@.calls + 1) EXCEPT !.pc = pc, !.s = s, !.d = d, !.seen = seen]]
    /\ UNCHANGED <<top, middle, block, edges>>

UpdateEdge(t) == \E e \in Edges : Begin(t, "top", e[1], e[2], {})
DeleteEdge(t) == \E e \in Edges : Begin(t, "dtop", e[1], e[2], {})
GetNeighbours(t) ==
    \E s \in Sources : Begin(t, "rtop", s, Null, {{e[2] : e \in {x \in edges : x[1] = s}}})

(***************************************************************************)
(* UpdateEdge, down to the block.                                          *)
(***************************************************************************)
\* restart, restart_middle: an obsolete top block is never replaced.
InsertTop(t) ==
    /\ At(t, "top")
    /\ ~top.obsolete
    /\ IF top.bit
         THEN /\ top.child # Null
              /\ thread' = [thread EXCEPT ![t].pc = "bottom", ![t].m = top.child]
              /\ UNCHANGED <<top, middle>>
         ELSE LET m == FreeMiddle
              IN  /\ Memory(Middles, UsedMiddles)
                  /\ thread' = [thread EXCEPT ![t].pc = "bottom", ![t].m = m]
                  /\ top' = [top EXCEPT !.bit = TRUE, !.child = m]
                  /\ middle' = [middle EXCEPT ![m] = NoMiddle]
    /\ UNCHANGED <<block, edges>>

\* restart_bottom: the flag is read before the mtx is taken.
InsertBottom(t) ==
    /\ At(t, "bottom")
    /\ LET m == thread[t].m
       IN  IF middle[m].obsolete THEN Go(t, "top")
           ELSE IF thread[t].s \in middle[m].bits THEN Go(t, "unlocked")
           ELSE Go(t, "locked")
    /\ UNCHANGED <<top, middle, block, edges>>

\* A new block: the pointer first, then the bit if `bit` says so.
CreateBlock(m, s, bit) ==
    LET b == FreeBlock
    IN  /\ Memory(Blocks, UsedBlocks)
        /\ block' = [block EXCEPT ![b] = NewBlock]
        /\ middle' = [middle EXCEPT ![m].buf[s] = b,
                                    ![m].bits = IF bit THEN @ \cup {s} ELSE @]

InsertLocked(t) ==
    /\ At(t, "locked")
    /\ LET m == thread[t].m  s == thread[t].s
       IN  IF s \in middle[m].bits
             THEN UNCHANGED <<middle, block>>
             ELSE CreateBlock(m, s, TRUE)
    /\ Go(t, "acquire")
    /\ UNCHANGED <<top, edges>>

\* The second reading of the bit decides, also for a thread without the mtx.
InsertUnlocked(t) ==
    /\ At(t, "unlocked")
    /\ LET m == thread[t].m  s == thread[t].s
       IN  IF s \in middle[m].bits
             THEN Go(t, "acquire") /\ UNCHANGED <<middle, block>>
             ELSE Go(t, "setbit") /\ CreateBlock(m, s, FALSE)
    /\ UNCHANGED <<top, edges>>

InsertSetBit(t) ==
    /\ At(t, "setbit")
    /\ middle' = [middle EXCEPT ![thread[t].m].bits = @ \cup {thread[t].s}]
    /\ Go(t, "acquire")
    /\ UNCHANGED <<top, block, edges>>

\* (A plausible bug: the lock is not waited for.)
AcquireAnyway(t, retry, next) ==
    LET m == thread[t].m  s == thread[t].s  b == middle[m].buf[s]
    IN  /\ IF b = Null \/ (b # Null /\ block[b].obsolete)
             THEN Go(t, retry) /\ UNCHANGED middle
             ELSE /\ middle' = [middle EXCEPT ![m].owner[s] = t]
                  /\ thread' = [Stamped(b) EXCEPT ![t].pc = next, ![t].b = b]
        /\ UNCHANGED <<top, block, edges>>

\* The buffer lock, the block read again, and its timestamp.
Acquire(t, retry, next) ==
    LET m == thread[t].m  s == thread[t].s  b == middle[m].buf[s]
    IN  /\ middle[m].owner[s] = Null
        /\ IF b = Null \/ (b # Null /\ block[b].obsolete)
             THEN Go(t, retry) /\ UNCHANGED middle
             ELSE /\ middle' = [middle EXCEPT ![m].owner[s] = t]
                  /\ thread' = [Stamped(b) EXCEPT ![t].pc = next, ![t].b = b]
        /\ UNCHANGED <<top, block, edges>>

InsertAcquire(t) == At(t, "acquire") /\ Acquire(t, "bottom", "apply")

(***************************************************************************)
(* UpdateEdge, in the block.                                               *)
(***************************************************************************)
Capacity(b) == IF block[b].five THEN HeadCap ELSE SmallCap

\* The edge is there: only its weight changes. In a block of 4 byte identifiers
\* the search of the edge array steps over the deleted entries (UINT32_MAX), so
\* that it meets every edge. In one of 8 byte identifiers it looks for the same
\* mark where DeleteEdge writes UINT64_MAX, and may miss an edge behind it.
ApplyPresent(t) ==
    /\ thread[t].d \in Content(thread[t].b)
    /\ middle' = Released(thread[t].m, thread[t].s)
    /\ Return(t)
    /\ UNCHANGED <<block, edges>>

\* (A plausible bug: the bitvector is not tested for a free slot.)
ApplyClaimAlways(t) ==
    LET b == thread[t].b
    IN  /\ thread[t].d \notin Content(b)
        /\ block' = [block EXCEPT ![b].head = @ \cup {Junk}]
        /\ Go(t, "fill")
        /\ UNCHANGED <<middle, edges>>

\* clear_bit takes the slot before its vertex is written.
ApplyClaim(t) ==
    LET b == thread[t].b
    IN  /\ thread[t].d \notin Content(b)
        /\ Cardinality(block[b].head) < Capacity(b)
        /\ block' = [block EXCEPT ![b].head = @ \cup {Junk}]
        /\ Go(t, "fill")
        /\ UNCHANGED <<middle, edges>>

\* The next size: a copy with the edge, and the old block obsolete.
ApplyGrow(t) ==
    LET b == thread[t].b  c == FreeBlock  m == thread[t].m  s == thread[t].s
        d == thread[t].d
    IN  /\ d \notin Content(b)
        /\ ~block[b].five
        /\ Cardinality(block[b].head) = SmallCap
        /\ Memory(Blocks, UsedBlocks)
        /\ block' = [block EXCEPT ![b].obsolete = TRUE,
                       ![c] = [NewBlock EXCEPT !.five = TRUE, !.head = block[b].head \cup {d}]]
        /\ middle' = [middle EXCEPT ![m].buf[s] = c, ![m].owner[s] = Null]
        /\ Becomes(edges \cup {<<s, d>>}, s, Ended(t))

\* A full head goes to the edge array: bitvector, array, then the edge.
ApplyReset(t) ==
    LET b == thread[t].b
    IN  /\ thread[t].d \notin Content(b)
        /\ block[b].five
        /\ Cardinality(block[b].head) = HeadCap
        /\ block' = [block EXCEPT ![b].head = {}]
        /\ thread' = [thread EXCEPT ![t].pc = "chain", ![t].got = Content(b)]
        /\ UNCHANGED <<middle, edges>>

InsertApply(t) ==
    /\ At(t, "apply")
    /\ ApplyPresent(t) \/ ApplyClaim(t) \/ ApplyGrow(t) \/ ApplyReset(t)
    /\ UNCHANGED top

InsertChain(t) ==
    /\ At(t, "chain")
    /\ block' = [block EXCEPT ![thread[t].b].array = thread[t].got]
    /\ Go(t, "fill")
    /\ UNCHANGED <<top, middle, edges>>

InsertFill(t) ==
    LET s == thread[t].s  d == thread[t].d
    IN  /\ At(t, "fill")
        /\ block' = [block EXCEPT ![thread[t].b].head = (@ \ {Junk}) \cup {d}]
        /\ middle' = Released(thread[t].m, s)
        /\ Becomes(edges \cup {<<s, d>>}, s, Ended(t))
        /\ UNCHANGED top

(***************************************************************************)
(* DeleteEdge.                                                             *)
(***************************************************************************)
DeleteTop(t) ==
    /\ At(t, "dtop")
    /\ ~top.obsolete
    /\ IF top.bit /\ top.child # Null
         THEN thread' = [thread EXCEPT ![t].pc = "dbottom", ![t].m = top.child]
         ELSE Return(t)
    /\ UNCHANGED <<top, middle, block, edges>>

DeleteBottom(t) ==
    /\ At(t, "dbottom")
    /\ LET m == thread[t].m  s == thread[t].s
       IN  IF middle[m].obsolete THEN Go(t, "dtop")
           ELSE IF s \notin middle[m].bits \/ middle[m].buf[s] = Null THEN Return(t)
           ELSE Go(t, "dacquire")
    /\ UNCHANGED <<top, middle, block, edges>>

DeleteAcquire(t) == At(t, "dacquire") /\ Acquire(t, "dbottom", "dapply")

\* (A plausible bug: the edge array is forgotten.)
EmptiedHead(b, d) == block[b].head = {d}

\* The block is empty only when its last head slot is: see DeleteFound.
Emptied(b, d) == block[b].head = {d} /\ block[b].array = {}

DeleteMissing(t) ==
    /\ thread[t].d \notin Content(thread[t].b)
    /\ Return(t)
    /\ UNCHANGED <<block, edges>>

\* Unlocked after the edge is gone; an empty block is obsolete first.
DeleteFound(t) ==
    LET b == thread[t].b  s == thread[t].s  d == thread[t].d
    IN  /\ d \in Content(b)
        /\ block' = [block EXCEPT ![b].head = @ \ {d}, ![b].array = @ \ {d},
                                  ![b].obsolete = Emptied(b, d)]
        /\ Becomes(edges \ {<<s, d>>}, s,
                   IF Emptied(b, d) THEN [thread EXCEPT ![t].pc = "dclear", ![t].b = Null]
                   ELSE Ended(t))

\* (A plausible bug: the return for a missing edge keeps the lock.)
DeleteApplyKeepsLock(t) ==
    /\ At(t, "dapply")
    /\ \/ DeleteMissing(t) /\ UNCHANGED middle
       \/ DeleteFound(t) /\ middle' = Released(thread[t].m, thread[t].s)
    /\ UNCHANGED top

DeleteApply(t) ==
    /\ At(t, "dapply")
    /\ DeleteMissing(t) \/ DeleteFound(t)
    /\ middle' = Released(thread[t].m, thread[t].s)
    /\ UNCHANGED top

DeleteClear(t) ==
    /\ At(t, "dclear")
    /\ middle' = [middle EXCEPT ![thread[t].m].bits = @ \ {thread[t].s}]
    /\ Go(t, "dnull")
    /\ UNCHANGED <<top, block, edges>>

\* After the mtx is released.
DeleteNull(t) ==
    /\ At(t, "dnull")
    /\ middle' = [middle EXCEPT ![thread[t].m].buf[thread[t].s] = Null]
    /\ Go(t, "dsweep")
    /\ UNCHANGED <<top, block, edges>>

\* Every mtx of an empty middle block is taken, and it is obsolete.
DeleteSweep(t) ==
    LET m == thread[t].m
    IN  /\ At(t, "dsweep")
        /\ IF middle[m].bits = {}
             THEN middle' = [middle EXCEPT ![m].obsolete = TRUE] /\ Go(t, "droot")
             ELSE Return(t) /\ UNCHANGED middle
        /\ UNCHANGED <<top, block, edges>>

\* The bit and the child, whatever middle block is there by now.
DeleteRoot(t) ==
    /\ At(t, "droot")
    /\ top' = [top EXCEPT !.bit = FALSE, !.child = Null]
    /\ Go(t, "dtopcheck")
    /\ UNCHANGED <<middle, block, edges>>

DeleteTopCheck(t) ==
    /\ At(t, "dtopcheck")
    /\ top' = [top EXCEPT !.obsolete = @ \/ ~(top.bit \/ top.others)]
    /\ Return(t)
    /\ UNCHANGED <<middle, block, edges>>

(***************************************************************************)
(* get_neighbours: no lock, a timestamp before and after.                  *)
(***************************************************************************)
\* What the read returns, and whether it compared the timestamps, held the
\* lock or found no block; `wrong` marks a result the source never had
\* while the call ran.
Answer(t, got, checked) ==
    thread' = [thread EXCEPT ![t] =
                 [Idle(@.calls) EXCEPT !.wrong = checked /\ got \notin thread[t].seen]]

ReadTop(t, here, next) ==
    /\ At(t, here)
    /\ IF top.bit /\ top.child # Null
         THEN thread' = [thread EXCEPT ![t].pc = next, ![t].m = top.child, ![t].got = {}]
         ELSE Answer(t, {}, TRUE)
    /\ UNCHANGED <<top, middle, block, edges>>

ReadMiddle(t, here, next) ==
    /\ At(t, here)
    /\ LET m == thread[t].m  s == thread[t].s
       IN  IF s \in middle[m].bits /\ middle[m].buf[s] # Null
             THEN thread' = [thread EXCEPT ![t].pc = next, ![t].b = middle[m].buf[s]]
             ELSE Answer(t, {}, TRUE)
    /\ UNCHANGED <<top, middle, block, edges>>

ReadStamp(t) ==
    /\ At(t, "rstamp")
    /\ middle[thread[t].m].owner[thread[t].s] = Null
    /\ thread' = [thread EXCEPT ![t].pc = "rhead", ![t].same = TRUE]
    /\ UNCHANGED <<top, middle, block, edges>>

\* An empty block returns at once, the timestamp unread.
ReadHead(t) ==
    LET b == thread[t].b
    IN  /\ At(t, "rhead")
        /\ IF block[b].head = {} /\ block[b].array = {}
             THEN Answer(t, {}, FALSE)
             ELSE thread' = [thread EXCEPT ![t].pc = "rarray", ![t].got = block[b].head]
        /\ UNCHANGED <<top, middle, block, edges>>

ReadArray(t) ==
    /\ At(t, "rarray")
    /\ thread' = [thread EXCEPT ![t].pc = "rcheck", ![t].got = @ \cup block[thread[t].b].array]
    /\ UNCHANGED <<top, middle, block, edges>>

\* (A plausible bug: the second timestamp is not compared.)
ReadCheckNever(t) ==
    /\ At(t, "rcheck")
    /\ Answer(t, thread[t].got, TRUE)
    /\ UNCHANGED <<top, middle, block, edges>>

ReadCheck(t) ==
    /\ At(t, "rcheck")
    /\ IF thread[t].same THEN Answer(t, thread[t].got, TRUE)
       ELSE IF thread[t].left < Threshold
         THEN thread' = [thread EXCEPT ![t].pc = "rtop", ![t].left = @ + 1]
         ELSE Go(t, "xtop")
    /\ UNCHANGED <<top, middle, block, edges>>

\* get_neighbours_exclusively: the block is the one found before the lock.
ReadLock(t) ==
    LET m == thread[t].m  s == thread[t].s
    IN  /\ At(t, "xlock")
        /\ middle[m].owner[s] = Null
        /\ middle' = [middle EXCEPT ![m].owner[s] = t]
        /\ Go(t, "xread")
        /\ UNCHANGED <<top, block, edges>>

\* The early return of an empty block keeps the lock.
ReadExclusive(t) ==
    LET m == thread[t].m  s == thread[t].s  got == Content(thread[t].b)
    IN  /\ At(t, "xread")
        /\ middle' = [middle EXCEPT ![m].owner[s] = IF got = {} THEN Leaked ELSE Null]
        /\ Answer(t, got, TRUE)
        /\ UNCHANGED <<top, block, edges>>

(***************************************************************************)
(* The specification.                                                      *)
(***************************************************************************)
Insertion(t) ==
    \/ UpdateEdge(t) \/ InsertTop(t) \/ InsertBottom(t) \/ InsertLocked(t)
    \/ InsertUnlocked(t) \/ InsertSetBit(t) \/ InsertAcquire(t) \/ InsertApply(t)
    \/ InsertChain(t) \/ InsertFill(t)
Deletion(t) ==
    \/ DeleteEdge(t) \/ DeleteTop(t) \/ DeleteBottom(t) \/ DeleteAcquire(t)
    \/ DeleteApply(t) \/ DeleteClear(t) \/ DeleteNull(t) \/ DeleteSweep(t)
    \/ DeleteRoot(t) \/ DeleteTopCheck(t)
Reading(t) ==
    \/ GetNeighbours(t) \/ ReadTop(t, "rtop", "rmiddle") \/ ReadMiddle(t, "rmiddle", "rstamp")
    \/ ReadStamp(t) \/ ReadHead(t) \/ ReadArray(t) \/ ReadCheck(t)
    \/ ReadTop(t, "xtop", "xmiddle") \/ ReadMiddle(t, "xmiddle", "xlock")
    \/ ReadLock(t) \/ ReadExclusive(t)
Step(t) == (Insertion(t) \/ Deletion(t) \/ Reading(t)) /\ Watch
Next == \E t \in Threads : Step(t)

\* A graph of Loads gives every source the edges in its head and in its array.
LoadedBlock(f) == [five |-> f.array # {} \/ Cardinality(f.head) > SmallCap,
                   head |-> f.head, array |-> f.array, obsolete |-> FALSE]
Init ==
    \E load \in Loads, others \in BOOLEAN, m \in Middles, at \in [Sources -> Blocks] :
        LET present == {s \in Sources : load[s].head # {}}
            here == [NoMiddle EXCEPT !.bits = present,
                                     !.buf = [s \in Sources |-> IF s \in present THEN at[s] ELSE Null]]
        IN  /\ m = Free(Middles, {}) /\ at = CHOOSE f \in [Sources -> Blocks] :
                                               \A s, u \in Sources : f[s] = f[u] => s = u
            /\ top = [bit |-> present # {}, child |-> IF present = {} THEN Null ELSE m,
                      others |-> others, obsolete |-> FALSE]
            /\ middle = [x \in Middles |-> IF x = m THEN here ELSE NoMiddle]
            /\ block = [b \in Blocks |->
                          IF \E s \in present : at[s] = b
                            THEN LoadedBlock(load[CHOOSE s \in present : at[s] = b])
                            ELSE NewBlock]
            /\ edges = {e \in Sources \X Dests : e[2] \in load[e[1]].head \cup load[e[1]].array}
            /\ thread = [t \in Threads |-> Idle(0)]
            /\ overlap = FALSE

Call(t) == UpdateEdge(t) \/ DeleteEdge(t) \/ GetNeighbours(t)
Spec == Init /\ [][Next]_vars /\ \A t \in Threads : WF_vars(Step(t) /\ ~At(t, "idle"))

(***************************************************************************)
(* Properties.                                                             *)
(***************************************************************************)
TypeOK ==
    /\ top \in [bit : BOOLEAN, child : Middles \cup {Null}, others : BOOLEAN, obsolete : BOOLEAN]
    /\ middle \in [Middles -> [bits : SUBSET Sources, buf : [Sources -> Blocks \cup {Null}],
                               owner : [Sources -> Threads \cup {Null, Leaked}],
                               obsolete : BOOLEAN]]
    /\ block \in [Blocks -> [five : BOOLEAN, head : SUBSET (Dests \cup {Junk}),
                             array : SUBSET Dests, obsolete : BOOLEAN]]
    /\ \A b \in Blocks : /\ Cardinality(block[b].head) <= Capacity(b)
                         /\ block[b].array # {} => block[b].five
    /\ \A t \in Threads : thread[t].calls \in 0..MaxCalls /\ thread[t].left \in 0..Threshold
    /\ edges \subseteq Sources \X Dests
    /\ overlap \in BOOLEAN

\* What a search from the top block finds of source s.
Reachable(s) ==
    IF top.bit /\ top.child # Null /\ s \in middle[top.child].bits
              /\ middle[top.child].buf[s] # Null
      THEN Content(middle[top.child].buf[s]) \ {Junk}
      ELSE {}
Merging(s) == \E t \in Threads : At(t, "chain") /\ thread[t].s = s

\* In a graph of 4 byte identifiers, as long as no insertion ran while a deletion
\* retired blocks, the tree holds exactly the edges of the finished calls,
\* whatever the threads are in the middle of, but for the source whose full
\* block is on its way to the edge array.
EdgesReachable ==
    ~overlap => \A s \in Sources :
        Merging(s) \/ Reachable(s) = {d \in Dests : <<s, d>> \in edges}

\* Under the same condition a read that passed the timestamp check, took the
\* lock or found no block returns neighbours the source had at some moment
\* of the call: no half-written slot, no array without its head.
ReadsConsistent == ~overlap => \A t \in Threads : ~thread[t].wrong

\* A buffer is written by the thread that holds its lock and by no other,
\* even when insertions and deletions overlap: two threads are never inside
\* the same block.
BlockExclusive ==
    \A t, u \in Threads :
        /\ t # u
        /\ {thread[t].pc, thread[u].pc} \subseteq {"apply", "fill", "chain", "dapply"}
        => thread[t].b # thread[u].b

\* The bit of a source is set only while its buffer pointer is.
BitMeansBlock == \A m \in Middles : \A s \in middle[m].bits : middle[m].buf[s] # Null

\* Every call returns, unless an insertion overlapped the retirement of a
\* block, the top block became obsolete, or an exclusive read of an empty
\* block kept its lock.
Stuck == overlap \/ top.obsolete \/ \E m \in Middles, s \in Sources : middle[m].owner[s] = Leaked
CallsReturn == \A t \in Threads : ~At(t, "idle") ~> (At(t, "idle") \/ Stuck)
====
