# CuckooGraph in TLA+

Specifications, model-checking runs and machine-checked proofs for the
CuckooGraph repository: the data structure itself (`CuckooGraph/Cuckoo.h` and
the classes `bSlot`, `bBucket`, `bLayer`, `bCuckoo`, `holemerge` of
`CuckooGraph/main.cpp`), its weighted build, the Wind-Bell index it is compared
with in both builds, the graph algorithms its benchmarks run, and Spruce, the
one concurrent program in the tree. A bare line number is one of
`CuckooGraph/main.cpp`.

## The system

CuckooGraph stores a directed graph under edge insertions and deletions. It is a
single-threaded program; what is nondeterministic in it is `rand()`, which
picks the victims of cuckoo kicks, and the order of the operations. Only Spruce
has threads.

| Part | State | Operations | Used by |
|---|---|---|---|
| S-CHT: `Cuckoo`, `Layer`, `Bucket` (Cuckoo.h:62-351) | two layers of 8-slot buckets of vertex ids, `num`; globals `mykick` | `insert` (with up to 500 kicks), `query`, `del` | `bSlot` |
| `bSlot` (main.cpp:621-1429) | `src`, `pt`, six inline successors or three table pointers in the same 24 bytes | `insert`, `del`, `query`, `query_successor`, `GetNeighbors`, `merge`, `compress` | `bCuckoo`, `holemerge` |
| `sblacklist` (620) | one global vector of edges the tables of any source handed back | filled and emptied by `bSlot`, shortened by `post_del` | every `bSlot` |
| L-CHT: `bCuckoo`, `bLayer`, `bBucket` (1431-1685) | as S-CHT, the items being bSlots; global `holekick` | `insert` of an edge or of a bSlot, `query`, `query3`, `del` | `holemerge` |
| `holemerge` (1686-2350) | `state`, `link[3]`, `blacklist` of bSlots | `insert`, `del` (`main_del`, `post_del`), `query`, `query_successor`, `GetNeighbors`, `query_triangles`, `merge`, `compress` | the drivers |
| `mergehash1` (409-619) | one table that doubles and halves | `insert`, `del`, `query`, `expand`, `compress` | the tests at 2363-2462 |
| WBI (`WindBell.h`) | a matrix of doubly linked lists of edges, a counter per list | `insert` with up to three moved tails, `delete_edge`, `query_*` | drivers |
| weighted CuckooGraph (`CuckooGraph_weighted/`) | the same tables with a weight beside every key | `insert` (`query_insert`), `query`, `GetNeighbors`; no deletion | drivers |
| weighted WBI | a weight in every node | `insert` (`query_edge_ins`), no deletion | drivers |
| graph algorithms (main.cpp 6387-7990, `TestAlgorithm.cpp`) | local arrays | BFS, SCC, PageRank, LCC, BC, SSSP, triangles | drivers |
| Spruce (`Competitors/src/spruce/index_algorithms.cpp`) | top, middle and adjacency blocks, each with locks and a timestamp or an obsolete flag | `InsertEdge`, `UpdateEdge`, `DeleteEdge`, `get_neighbours`, `get_neighbours_exclusively` | benchmark threads |
| other baselines, competitors, data set generators | | third-party code, benchmarks | |

How they interact: `holemerge::insert` looks for the bSlot of the source
(`query3`, which leaves its place in globals) and inserts into it, or makes one
in the last L-CHT below the load rate 0.9. A bSlot with more than six
successors turns into S-CHTs. At both levels an item that a table hands back
goes to a denylist, and a full chain of three tables is merged into one of twice
the length. `del` shrinks at both levels: when load is below 0.35 a table is
halved or emptied into the others; then `post_del` shortens overlong denylists.
The algorithms read the graph through `query` and `GetNeighbors` only. Spruce
and the Wind-Bell index are programs of their own.

### What is hard here

Every operation is a sequence of partial failures: an insertion that fails has
already moved other keys and hands one of *those* back through a global
variable; chains grow, merge and shrink in an order that depends on counters
(`num`) kept up to date in a dozen places; a denylist shared by all sources
couples them. A lost edge needs a long sequence of legal calls with unlucky
kicks, so no test is likely to meet one. What makes each part correct:

- S-CHT: whatever the kicks, a key is where `query` looks, only once, and
  `num` counts the keys; a failed insertion hands back exactly one key.
- bSlot: `query` and the enumerations agree with the edges inserted and not
  deleted through every conversion; the chain has the shape `merge` assumes;
  `del` reports a slot empty only if no edge is left in it.
- holemerge: a source with edges is in exactly one place; tables are deleted
  only when empty; `post_del` always finds a table for what it takes out.
- merge, compress, expand: the bucket loops copy and thin buckets out without
  hashing again; every key must land where `query` looks, once.
- Wind-Bell: an insertion moves other edges from list to list by raw pointers;
  head, tail, counter and back pointers must agree after each move.
- weighted: a weight travels beside its key through kicks and denylist, and wraps;
  a weight of 0 reads as "absent" in both structures.
- algorithms: they deviate from the textbook (no discovery numbers in Tarjan's,
  distance 0 for "not seen" in betweenness, relaxation from the source in one SSSP);
  what is right all the same, and what is not, has to be told apart.
- Spruce: readers take no lock; writers lock a byte per source, below blocks
  that another thread may be retiring.

`PROJECT.json` lists each hazard at its line with the properties that cover it.

## Modules

| Module | Models | Notes |
|---|---|---|
| `KeyTable` | the abstract table | a set of keys; an insertion stores its key or hands one back |
| `Cuckoo` | one S-CHT | one action per iteration of the kick loop; implements `KeyTable` |
| `CuckooProofs` | proofs about `Cuckoo` | |
| `TableOps` | tables as their owners see them | sequences of `KeyTable` steps (`Pour`), and `merge`, `compress`, redistribution built from them |
| `AdjSlot` | one `bSlot` and its part of `sblacklist` | the other sources' entries are an environment |
| `ChainProofs` | lemmas about `TableOps`, and about a chain of tables and its denylist | what `Pour`, `MergeTables`, `CompressTable`, `Redistribute` preserve; each rearrangement keeps every key in one place, and the shape of the chain; used at both levels |
| `AdjSlotProofs` | proofs about `AdjSlot` | contents; shape of the chain |
| `HoleMerge` | `holemerge` over `bCuckoo` | a bSlot is what `AdjSlot` promises of it |
| `HoleMergeProofs` | proofs about `HoleMerge` | |
| `Rebuild` | `merge` (of three tables and of two), `compress`, `expand`, bucket by bucket | composes `Cuckoo` (the kicks of the overflow, by INSTANCE) with `TableOps` (what the owners expect) |
| `RebuildProofs` | proofs about `Rebuild` | uses the lemmas of `CuckooProofs` for the new table, by INSTANCE |
| `Multigraph` | the abstract weighted store | a counter per edge, modulo `Wrap` |
| `WeightedSlots` | the bSlots of several sources of the weighted build and the denylist they share | uses `TableOps` with keys `<<dst, weight>>`; implements `Multigraph` |
| `WeightedProofs` | proofs about `WeightedSlots` | one entry per edge, the refinement of `Multigraph` |
| `WindBell` | the Wind-Bell index, both builds | a heap of nodes; the variable `weighted` says which build |
| `WindBellProofs` | proofs about `WindBell` | the lists, the nodes of edges, what scans and triangle queries meet |
| `Digraph` | the graph the algorithms read, and reference definitions from simple paths | |
| `Traversal`, `ShortestPaths`, `Centrality` | BFS and Tarjan's algorithm; the SSSP variants; betweenness, clustering, triangles | |
| `Algorithms` | the drivers: one algorithm on one graph | composes the four above |
| `SpruceTree` | the three levels of Spruce under concurrent calls | |
| `SpruceProofs` | proofs about `SpruceTree` | exclusion, the tree, the reads; any number of threads |
| `MC*` | instances for TLC | |

The layering is the code's. `Cuckoo` is shown to implement `KeyTable` (by TLC on
an instance and by proof in general), and both `AdjSlot` and `HoleMerge` use
tables only through `Pour`, whose outcomes are those of sequences of `KeyTable`
insertions: every key stored, or as many keys handed back as insertions failed,
and none before the table held `2 * Bup` keys. That the bulk moves of the code
are such sequences is what `Rebuild` checks. The L-CHT has the same kick loop
as the S-CHT with bSlots in place of keys (1520-1646), so the same abstraction
stands for it.

Correspondence of state:

- `Cuckoo`: `layer1`, `layer2` are the buckets as sets of nonzero keys, `ins`,
  `times`, `flag` the locals of `insert`, `pc` whether the loop runs; `item` is
  the argument, kept for the refinement mapping. A bucket is searched as a whole
  and its first free slot taken, so the order of slots does not matter; `rand()
  % bup` on a full bucket is the choice of any key of it.
- `AdjSlot`: `pt`, `inl` and `slot` are the fields of the bSlot with the inline
  half of the union kept apart; `deny` holds the entries of this source in
  `sblacklist`, `others` the number of the others. `phase` is "post" from the end
  of `main_del` to the end of `post_del`. `edges` and `doubled` are history.
- `Rebuild`: `op` is the move made; `place` is where each key lies in the old
  tables, `layer1`, `layer2`, `num` the new one, `mq` the overflow queue, `stage`
  the loop the move is at. During the pour the variables of `Cuckoo` are those of
  `c->insert`. Any order of the queue stands for any order of the slots.
- `WeightedSlots`: `hold[s]` is the bSlot of source `s` as in `AdjSlot`,
  `sblacklist` the triples; a pair `<<dst, weight>>` is what `insert` carries in
  `mykick` and `mykick_w`.
- `WindBell`: `wind` is the heap of nodes (`edge`, `next` = `pointer_chand`,
  `prev` = `pointer_chand_re`, `weight`) with `pointer_head`, `pointer_tail`,
  `counter` per cell; `hand` is the node `insert_new` is called with. A deleted
  node's address may be allocated again.
- `Traversal`, `ShortestPaths`, `Centrality`: the variables carry the names of
  the code's locals; the recursion of Tarjan's algorithm is a stack of frames,
  one step per neighbour.
- `SpruceTree`: `top`, `middle`, `block` are the blocks by address, `thread[t]`
  the program counter and locals of each call. A step is one access to shared
  state that another thread can tell apart. `edges` and `overlap` are history.
- `HoleMerge`: `link` and `blacklist` are the fields, the items being sources;
  `holds` the sources whose bSlot has an edge. `present`, `uncounted`, `doubled`
  are history variables.

Each operation of the code is one action, with the rearrangements it makes
included; `insert` of an existing edge and `del` of an absent one change nothing
and have no action (except that any `del` runs `post_del`: `HoleMerge!DelOther`).
Operators called "Mutant" in their comment are wrong on purpose: each takes the
place of the definition after it to show that a property depends on it.

## Runs

| Run | Instance | Shows |
|---|---|---|
| `cuckoo` | 8 keys, 2 + 2 buckets of 2 slots, 3 kicks; 60,168 states | all the properties of `Cuckoo`, termination of the loop, the refinement |
| `adjacency` | 7 destinations, tables from 4 + 2 buckets of 1 slot, inline 1, denylist 1 (2 entries of others); 6,704 states | an edge is found and enumerated exactly as long as it is present |
| `adjacency_deleted` | the same | *violation*: an edge stored twice survives `del` |
| `graph` | 7 sources, tables from 2 + 2 buckets of 1 slot, denylist 1; 34,800 states | no source is lost, doubled or miscounted; `post_del` has room |
| `graph_found` | the same | *violation*: a table is deleted with a vertex in it |
| `rebuild` | 6 keys, tables of 4 + 4 buckets of 2 slots doubled and halved, every placing of the keys, 3 kicks; 139,255 states | the bulk moves place every key where `query` looks, and are `Pour`, `MergeTables`, `CompressTable` to their owners |
| `weighted` | two sources with 7 and 3 edges, tables from 2 + 2 buckets of 1 slot, denylist 1, weights modulo 3; about 75 s | each edge keeps its own weight wherever it is carried; the refinement of `Multigraph` |
| `wind` | 5 edges on 3 vertices, 4 nodes, a 2 x 2 matrix, both builds; about 75 s | the lists stay exact, also when a weight wraps; each edge whose weight has not wrapped has one node in one of its cells, scans and triangle counts are right |
| `wind_deleted` | the same | *violation*: a deleted edge's node still hangs in a list |
| `spruce` | 2 threads of 2 calls, 2 sources, 3 destinations, 4 byte identifiers; 477,995 states | edges stay reachable, reads are consistent, blocks have one writer, calls return |
| `spruce_bit` | the same | *violation*: a bit without its block |
| `algorithms` | 4 vertices: all graphs of at most 5 edges with loops; for SSSP all of at most 4 edges of weights 1 and 3, from every source; 509,972 states | BFS, components, the SSSP that relaxes from the settled vertex, path counts and dependencies, clustering and triangles agree with definitions from simple paths, under the conditions named below |

Bounds. What decides the behaviour is which of the ratios `num`/capacity the
chain crosses and whether a bucket pair is full, not absolute sizes. One slot a
bucket makes two keys enough to turn a third down, and seven items enough for
the whole cycle: first table, second, third, merge, refill, redistribution, and
halvings that hand keys back. The first table has the proportions of the code's
(4 and 2) in `adjacency`; `graph` starts smaller, so that a table can be full
with more than one bSlot denylisted, which `PostHasRoom` is about. `MaxLen2` admits two merges in
`adjacency`, one in `graph`. Two groups of interchangeable items (`SYMMETRY`) are sound
because items are only compared. In `cuckoo` four keys share a bucket in
both layers and the others share only one of the two with them, so that
insertions succeed at once, after one kick or after several, and give up with
the key they started from or with another one in hand.

In `rebuild` the hash values of the six keys are chosen so that buckets overflow in
each of the four moves and the insertions that follow succeed at once, after kicks
from either layer, or fail. In `weighted` seven edges take one source through
inline, three tables and a merge while the other source fills the shared
denylist; one edge is inserted any number of times, past the wrap. In `wind` a
list gives its tail away at length 2 (`KickAt`, 10 in the code) and an
insertion moves at most two nodes (3 in the code): the second
move is the first that starts from a moved node. A weight wraps at 3 (`Wrap`, 2^32 in
the code) and an edge is inserted at most 4 times (`MaxInserts`), which is once more than it
takes to hang a second node for it. Vertex 1 has coinciding hashes,
so that some edges have one cell, some two, some four. In `algorithms` four
vertices are the least with a cycle beside a path, two shortest paths, and two
components in a row; weights 1 and 3 let three short edges tie with a long one.
In `spruce` the two block sizes stand for the seven of the code, `Threshold` is
`RESTART_THRESHOLD` (10 in the code): what matters is that a writer may give up
and start again. Two calls a thread suffice for each pair of calls to
overlap after either has changed the tree, and the three loaded graphs start
them from an empty tree, a full small block and an edge array.

`CHECK_DEADLOCK FALSE` stands where the system may really stop: a move of `Rebuild` and an
algorithm end; `weighted`, `wind` and `spruce` run out of the edges, nodes or
calls their bounds allow; and a Spruce thread may spin for good after the steps
`Stuck` names.

`adjacency` and `graph` stop at the first state in which a key was stored twice
or a bSlot reported free stayed occupied (`CONSTRAINT`): these are the two
defects below; the state after them is that of a structure already
corrupted, and the properties are claimed up to there. Nothing else is
constrained.

In `WindBell` an edge inserted `Wrap` times gets a second node: `query_edge_ins`
counts its weight up to 0 and returns it, and `insert` (weighted/WindBell.h:144) takes
that for "absent". The step is in the model, and `TypeOK` and `ListsExact` hold through
it. `EdgesInPlace` and `NeighborsOnce` are claimed of the edges inserted less often
(`Countable`), whatever happens to the others; `TrianglesExact` as long as all are.

Two of the algorithms do not compute what they are named for; the model has them as
they are and the properties claim what is right in them.

- The copies of Dijkstra's algorithm in `test_sssp_hole` (6480), `test_sssp_wind` and
  `TestAlgorithm.cpp` relax the edges of the source in every turn and so find direct edges only,
  although `src/README.md:52` presents the last as SSSP. `DistancesExact` claims of these
  that no distance is too short, and exactness of `test_sssp` and `test_sssp_new` only.
- Betweenness cites Brandes' algorithm (`TestAlgorithm.cpp:579`) but adds `delta[v]` to
  `CB[v]` once for each predecessor of `v` other than the source (7949), instead of once:
  nothing is claimed of `CB`. `DependenciesExact` claims the levels and path counts
  whenever the source has no loop, and `delta` of every vertex that lies on no shortest cycle through
  the source. On such a cycle `delta` is wrong: a distance of 0 means "not
  seen", the source is queued a second time, and gives its predecessors a share twice. With a
  loop at the source its neighbours get distances 1 or 2 depending on their order.

`WindBell` stops by itself when a node's back pointer to itself is followed
(`broken`), since what comes after is undefined behaviour. `SpruceTree` does not
stop; three of its properties are claimed while no insertion has run at the same
time as a deletion that is retiring blocks (`overlap`), because then the two defects
below and their like lose edges. `BlockExclusive` is claimed without that condition.

Fairness. `Cuckoo` states `WF(KickLoop)`, because the loop runs on the
calling thread and is never abandoned. `InsertReturns` needs nothing else:
termination comes from `times`, not from luck. `SpruceTree` states weak fairness
of the steps of each thread inside a call: the operating system runs every thread
that can run. It assumes nothing of the choice between threads at a spin lock; a
thread could be overtaken there for as long as others keep calling, which the
bound on calls excludes. `CallsReturn` holds up to the three steps after which a call
really does not return (`Stuck`): an overlap, an obsolete top block, which
insertions go round `restart` for (2177), and the lock that
`get_neighbours_exclusively` keeps when it returns from an empty block (1578).
`post_del` has no liveness property since the code does not have one: a table below
the rate may hand back a bSlot for each one it takes, for as long as `rand()`
picks that way.

### What the violations show

- `DeletedIsGone` (main.cpp:1347, 1371): with three tables, redistribution
  inserts a key `x` into `slot[0]` and, when that returns false, into `slot[bi]`. But
  `Cuckoo::insert` returns false *after* it placed `x`, when another key is left
  in hand; then `x` is in two tables and the other key is in none.
  `test_hole_del_err` asserts `!hole.query(e)` after `hole.del(e)`. `holemerge`
  has the same lines (2272, 2286).
- `InsertedIsFound` (1420, 1667, 2193): a bSlot whose last edge is removed from
  `sblacklist` returns -1 without becoming empty. Its table's `num` goes down
  although the slot stays taken, an insert revives it without counting it, and
  once `num` is 0 the table is deleted with the vertices it holds.
  `test_hole_err2` counts inserted edges that are not found as errors.
- `DeletedIsGone` (WindBell.h:331, 366): `delete_edge` makes the back pointer of
  the next node point to that node itself. When that node is deleted in turn, its
  successor is written into itself and it stays in the list, freed.
  `test_wind_del_err` asserts `!wind->query_edge(tempC)` after the deletion (8192).
- `BitMeansBlock` (index_algorithms.cpp:2097): a deletion stores the null buffer
  pointer after it released the lock under which it cleared the bit. An insertion in
  between loses its block. The comments at 338 and 380 say that a set bit has a block.

## Proofs

`CuckooProofs` proves, for every set of keys, hash functions, bucket and layer
sizes and number of kicks:

- `TypeCorrect`, `QueriesComplete`, `NeverDuplicated`, `NumExact`,
  `VictimsAreKeys`: the five invariants of the run `cuckoo`;
- `Refinement`: `Spec => ImplementsKeyTable`.

They assume of the constants what `Cuckoo` states in its `ASSUME`s: a finite set
of keys without the initial value of `mykick`, positive sizes, hash
functions from keys to naturals.

The inductive invariant `IInv` is their conjunction strengthened by two facts.
`BucketsBounded` says that no bucket holds more than `Bup` keys, without which
"no room" does not mean "full". `ItemKept` says that during a call the argument
is in a bucket or in hand, and that the table held at least `2 * Bup` keys when the
loop was entered: the refinement maps the contents during the call to those before
it, and needs both to show that giving up is `InsertFails`. The invariants need each other:
`num` counts right only because a kicked key is nowhere else (`NoSecondCopy`),
that holds because a key elsewhere would be seen by the search (`EveryKeyFound`),
and a victim exists only because the bucket is full. There is one lemma per
action (`InsertPlacedStep` ... `DelStep`) stating both the invariant and what the
action does to the contents, so that the refinement step (`StepMaps`) reuses them.

`ChainProofs` begins with what the set-level operators of `TableOps` preserve, for
tables of any shape: each key given to a `Pour`, a `merge`, a `compress` or a
redistribution is in a table or was handed back, never both, and `num` counts
the keys. For a redistribution the second half is the subtle one
(`RedistributeAccounts`): counters stay right always, but keys are preserved only
if none was stored twice, because as many keys are forgotten as were.

`AdjSlotProofs` proves, for every finite set of destinations and all bucket and
layer sizes and thresholds, five of the six properties of the run `adjacency`:
`AdjTypeOK`, `AdjNoEdgeLost`, `AdjEnumeratedOnce`, `AdjNumsExact`,
`AdjEmptiedMeansEmpty`. They assume what `AdjSlot` states in its `ASSUME`s:
positive sizes, finitely many keys, and a null pointer that is not a table. The
inductive invariant `IInv` is `TypeOK` with three parts. `ChainExact`: every
table behind a pointer counts its keys, without which the empty table that `del`
drops, because its `num` is 0, might hold some. `Form`: the slot is inline,
without tables and denylisted edges, and `pt` counts its edges, or it is a chain. `Accounted`:
as long as nothing was stored twice, tables and denylist share no key and
together hold the edges. Disjointness is needed for conservation: a deletion
takes a key out of one place only. Insertion into a chain and deletion from one
have a lemma for each of their rearrangements (`TakenByTable` ... `MergedTables`,
`LastRemoves` ... `ShrunkThreeRemoves`) in terms of `Inserted` and `Removed`,
which say what happens to the keys of a chain and a denylist.

The theorems hold within the bounds the actions state (`MaxOthers`, `MaxLen2`), for every value
of these bounds. Two more guards of the model are not conditions of the code:
`DisjointTables` in `ExpandMerge` and its like in `DelShrinksTwo` and
`DelShrinksThree` are false only in states after a key was stored twice, where the operators of
`TableOps` no longer describe the tables.

The rest of `ChainProofs` is about what both levels have in common, the three pointers
and the denylist. `Split(s, d, X, K)` says that the items `X` lie in the tables of `s` and in `d`,
each in one place, and that every table counts its own; there is a lemma for each
rearrangement (`NextTakes`, `MergeTakes`, `TakenOut`, `TableHalved`, `SmallerSpread`, ...).
`WellShaped(s, a, b, K)` says that the pointers are set from the first on, that the
later tables have half the lengths of the first, and that the lengths of the first are among `Lengths(a, b)`: the
least set with `<<a, b>>` that doubling stays in. Doubling and halving are then a
question of membership, and no induction over the number of merges is needed.
`HalvedLength` is the one fact about it that takes an argument: `compress` is only reached above
`MinC2 > b`, so the table has been doubled and its halves are lengths again. `WellShaped`
lets counters be wrong, since the shape must hold after the defects too.

`AdjChainShape`, the sixth property of the run `adjacency`, comes from another
invariant, `ShapeInv`: a slot with inline successors has no table, a
chain is `WellShaped`. It does not use that keys are conserved.

`HoleMergeProofs` proves five of the six properties of the run `graph`, for every
finite set of sources and all sizes and thresholds, under the `ASSUME`s of
`HoleMerge` (as those of `AdjSlot`). Its inductive invariant `IInv` has an
unconditional part, `Kind` (types, with counters that may be wrong, and `WellShaped`), and
a conditional one: while `NothingMislaid`, the bSlots `Placed` are `Split` over
the chain and `blacklist`. A deletion that leaves an occupied slot uncounted ends the
condition (`CountedDown` keeps the shape even then). `MergeChainShape` holds in every
reachable state; `MergeOneSlot` and `MergeNumsExact` are conditional as the properties
are; `MergeTypeOK` is stated under `NothingMislaid`, which is narrower than the run
by one state: the first with something mislaid. `MergeNoSourceLost` is
`Spec /\ []PostHasRoom => []NoSourceLost`: having room in `post_del` is all that
is needed for no source to be lost. `PostHasRoom` itself is not a theorem:
whether some table is below the rate when `post_del` still has bSlots to place depends on how
`Bup`, `Bbl`, the lengths and the rates relate, and the run shows it for one choice.

`WeightedProofs` proves the three properties of the run `weighted`, for every finite
set of edges, all sizes and thresholds and every width of a weight: `TypeCorrect`,
`EmittedOnce`, and `Refinement`: `Spec => ImplementsMultigraph`. It assumes the three
`ASSUME`s of `WeightedSlots` (within its bound `MaxLen2`, for every value of it):
positive sizes with an even number of buckets, finitely many edges, a null pointer
that is not a table. The inductive invariant `IInv` says of each source that its bSlot
`Stores` the pairs `<<dst, weight>>` a query of it meets (`Form`: inline and counted
by `pt`, with nothing denylisted; or `Split` over its tables and its part of the
shared denylist), and that these pairs have one weight a destination and the
destinations inserted (`Recorded`). One weight a destination is what makes the model's
sets of pairs sound: a table asked for a `dst` could otherwise meet either of two
keys. The lemmas of `ChainProofs` are used with pairs as items. A first insertion adds
`<<d, 1>>` to what a lookup meets, wherever the pair and those kicked out for it end
up; a repeated one replaces a pair by its successor in place; and neither changes what
another source's lookups meet, although both may write `sblacklist` (`StepIs`,
`NewStores`, `AgainStores`). Each step is therefore one `Insert` of the abstract store
(`FirstCounts`, `AgainCounts`, `OthersCount`, `StepMaps`), which is where the wrap to
0 matters: an edge with weight 0 reads as one never inserted, but is still in its
place and is not inserted a second time.

`RebuildProofs` proves both properties of the run `rebuild`, for every finite set
of keys, every pair of hash functions, bucket size and number of kicks and all even
lengths: `EveryKeyPlaced` and `OutcomeReckonedWith`. The second closes the gap between
the two levels of the model: the proofs about `AdjSlot` and `HoleMerge` rest on `Pour`
and `CompressTable`, and this theorem says that the bucket loops with their kicks end in
one of the outcomes these give. The invariant `Inv` follows the stages of a move: before
the second layer, what is in the first and in `mq` are the keys of the first layers
(`HalfWay`, from the arithmetic of doubling and halving a remainder: `DoubledRemainder`,
`MovedKeeps`); while `mq` is poured, each key that moves is in the table, in `mq`, denied
or in hand (`Shared`), no more wait, are in hand or denied than met a full bucket, and the
first was denied by a crowded table (`Bounded`). That the kick loop itself places keys
rightly is taken from `CuckooProofs`, whose invariant is instantiated twice: as `T` for a
table twice as long, and as `H` for a halved one. `compress` does not keep `num` up to date, so
`H` substitutes for it the count that `asum` stands for, less the keys in `mq` and in hand;
the lemmas of `CuckooProofs` then apply as they are.

`SpruceProofs` proves the four safety properties of the run `spruce`, for any number
of threads, sources, blocks and calls, every set of loaded graphs and all sizes:
`TypeCorrect`, `Exclusive`, `TreeCorrect` and `ReadsCorrect`. Of the constants it
assumes the three `ASSUME`s of `SpruceTree`: block sizes that grow, names apart from
each other, and loaded graphs that fit the blocks. `malloc` is taken to find an
address: the steps that allocate wait for one that nothing points at (`Memory`), which
no state of the run lacks. Every other guard is a condition of the code.

Its invariant `IInv` has two halves. `Safe` holds always: a block is the buffer of one
source of one middle block (`OnePlace`), a half-written slot belongs to a thread
inside the claim (`JunkHeld`), and each thread is at home where its program counter
says (`SafeThread`: its pointers are set, the lock it holds is marked with its name,
the block it writes is the buffer that lock protects). `Exclusive` needs nothing but
`Safe`: a writer enters a block through the buffer whose lock it takes, and a thread
already writing it would, by `Home`, hold that same lock; this covers blocks that were
retired in the meantime. `Calm` holds until an insertion overlaps a retirement: the
child of the top block leads to every block that is not retired and empty (`Path`),
what it leads to is `edges` but for a source whose full block is on its way to the
edge array (`Stored`), a thread's local pointers are on that path or on an obsolete
block off it (`OnPath`, `OffPath`), and a reader whose timestamps still agree has seen
the content it copied (`Told`). `overlap` is history, so the condition cannot come
back. Most steps change nothing the tree is read through, and one lemma
(`SameTreeStep`) covers them; the others have a lemma of their own for each half.

`WindBellProofs` proves all five properties of the run `wind`, for every finite set of
nodes, every matrix, any hash rows and columns (equal ones too), every set of edges and
all values of `KickAt`, `MaxKicks`, `Wrap` and `MaxInserts`: `TypeCorrect`, `ListsStayExact`,
`EdgesStayInPlace`, `NeighborsMetOnce` and `TrianglesCounted`. They assume the `ASSUME`
of `WindBell`: positive sizes, a threshold of at least 1 and a weight of at least two values, a null pointer that is not
a node, two row and two column hashes inside the matrix for each vertex. Like the
properties, all but the first are claims up to the step that follows a wrong back
pointer (`broken`), which the code does not avoid, and the last three are claims about
edges inserted less than `Wrap` times.

The inductive invariant `IInv` talks of lists, not of pointers: unless `broken`, there
is a list `L[c]` for each cell that the pointers spell out (`Chained`), no node is on two
lists or on one twice (`Apart`), every node in use is on one of the cells of its edge,
except the one in hand (`Hung`); and the nodes in use correspond to the edges
of the graph, one to one for those inserted less than `Wrap` times (`Loaded`). Only forward pointers, heads, tails and counters are pinned down; a
back pointer may be that of the node itself, which is what a deletion leaves, and a list's
first node may point back anywhere. Popping a tail and unlinking a node trust a back
pointer, so `HungPopped` and `HungFreed` need `SelfLinked` to be false; `HungPushed` does not.
`KickCells` gives the other half of a kick: the list that loses its tail is not the
one that was just hung to, and has at least two nodes. That a walk yields
`L[c]` (`WalkIs`) is an induction over the list; no induction theorem of the library can be
used, so it is by the least counterexample, from `LeastNat`, which follows from the
well-foundedness of proper inclusion among finite sets. The scans then meet each edge
of the graph once (`ScanOnce`, `Neighbors`), and a triangle query is a bijection between the pairs
of entries it counts and the cycles (`TrianglesCount`, `TriangleNewCount`).

Only model-checked: `HoleMerge!PostHasRoom` and the properties of `Algorithms` and the
modules it composes. These compare the code with recursive references (distances,
components, path counts); their proofs would be inductions over paths and over a
reference's own recursion. Out of the prover's reach: `InsertReturns` and `CallsReturn`
(liveness). `BitMeansBlock`, `DeletedIsGone` and `InsertedIsFound` are false of the
code.

## Not modelled

- Vertex 0: it marks empty slots, and no data set of the drivers has it.
- What happens in `holemerge` after a bSlot was stored twice: two copies share
  table pointers, and deleting through one leaves the other dangling. Likewise what
  follows a step through a dangling pointer of the Wind-Bell index.
- `mergehash1`'s chain (its `insert`, `del`, `query`), an earlier version of
  `holemerge` that only three tests call; its `expand` and `compress` are in `Rebuild`.
- PageRank: floating-point sums over a fixed number of rounds, with no claim to check
  that a model could tell from the sums. The quotients of betweenness are kept,
  in units of 1/12.
- Weighted build: `query_successor` emits the weights of the inline edges where
  successors are expected (1059), and the denylist branch of one insertion adds 1
  where the others add `weight` (728); the model inserts edges one at a time, with
  the default weight 1, as the drivers do. The branch for `state == -1`
  needs a deletion, which this build lacks.
- Wind-Bell: `crossList` and `listChain`, which nothing uses.
- Spruce: one range of 2^16 sources is modelled (`others` says whether there is another); the
  pointer block of 64 sources is part of the middle block, because its obsolete flag is never
  set; sources lie in different bytes of the bitmap; critical sections under a
  `mtx` are one step; a freed
  block keeps its content, although readers may still be in it when the code frees
  it; a `next_block` read past the end of a small block counts as null; the
  edge array is the set of its edges. All identifiers are below 2^32 - 1. `UpdateEdge` with a negative weight, `GetDegree`,
  `get_neighbours_sorted` and the statistics are left out.
- Spruce's blocks of 8 byte identifiers, and the conversion to them (416, 2793). Their
  control is another: the search of `UpdateEdge` for a present edge compares deleted entries
  with `UINT32_MAX` (2751, 2756), while `DeleteEdge` marks them `UINT64_MAX` (1993, 2059). A
  present edge behind a deleted entry is then missed and inserted again, and survives one
  deletion. `EdgesReachable` and its theorem `TreeCorrect` are claims about blocks of 4 byte
  identifiers, in which the marks agree (2682, 2687, 1813-1828, 1880-1895).
- Memory accounting, timing and kick statistics (`TEST_*` sections), the
  destructors.
- Which hash functions are used: they are constants, and nothing may depend on them.
- The drivers' file input and printing, the third-party sketches (`GSS.h`, `Auxo.h`,
  `tcm.h`), the other competitors and the data set generators. These, and the hundreds
  of near-identical benchmark functions of the two `main.cpp`, are most of the
  lines of the repository; there is no state in them that outlives a function.

## What is left

- Conditions on the constants under which `PostHasRoom` can be proved.
- Proofs about `Algorithms`, of which `LevelOrder` needs the least: its queue can be
  described without paths.
- A composition of `HoleMerge` and `AdjSlot` for two sources with one `sblacklist` and
  deletions; `WeightedSlots` has the composition without deletions.
- `SpruceTree` with two ranges of sources, and 8 byte identifiers with the edge array as
  a sequence, so that their search can be modelled with its defect.
- Runs that show the second node of an edge whose weight wrapped, the direct-edges SSSP and
  the betweenness as violations of what the repository says of them.
