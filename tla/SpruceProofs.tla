---- MODULE SpruceProofs ----
(***************************************************************************)
(* Proofs about SpruceTree: the types, the exclusive use of a block, the   *)
(* edges a search from the top block finds, and the answers of the reads.  *)
(*                                                                         *)
(* The inductive invariant has two halves.  Safe holds whatever the        *)
(* threads do.  Calm holds until an insertion overlaps the retirement of a *)
(* block; it is about the search path (the top block, its child, the bits  *)
(* and the buffers), what the blocks hold, and what a reader may report.   *)
(* Each half is a conjunct about the shared state and one about a thread.  *)
(***************************************************************************)
EXTENDS SpruceTree, FiniteSetTheorems, TLAPS

EdgesOf(s) == {d \in Dests : <<s, d>> \in edges}

InsertPCs == {"top", "bottom", "locked", "unlocked", "setbit", "acquire", "apply", "fill", "chain"}
RetirePCs == {"dclear", "dnull", "dsweep", "droot", "dtopcheck"}
DeletePCs == {"dtop", "dbottom", "dacquire", "dapply"}
ViewPCs == {"rstamp", "rhead", "rarray", "rcheck", "xlock", "xread"}
ReadPCs == {"rtop", "rmiddle", "xtop", "xmiddle"} \cup ViewPCs
WritePCs == {"apply", "fill", "chain", "dapply"}

Writing(t) == thread[t].pc \in WritePCs
Viewing(t) == thread[t].pc \in ViewPCs
\* Someone is inside block b.
Written(b) == \E u \in Threads : Writing(u) /\ thread[u].b = b

MiddleType == [bits : SUBSET Sources, buf : [Sources -> Blocks \cup {Null}],
               owner : [Sources -> Threads \cup {Null, Leaked}], obsolete : BOOLEAN]
ThreadType ==
    [pc : {"idle"} \cup InsertPCs \cup RetirePCs \cup DeletePCs \cup ReadPCs,
     s : Sources \cup {Null}, d : Dests \cup {Null}, m : Middles \cup {Null},
     b : Blocks \cup {Null}, same : BOOLEAN, left : 0..Threshold,
     got : SUBSET (Dests \cup {Junk}), seen : SUBSET (SUBSET Dests),
     wrong : BOOLEAN, calls : 0..MaxCalls]

(***************************************************************************)
(* The half that always holds.                                             *)
(***************************************************************************)
\* A local variable is set where the thread is about to use it.
Bound(t) ==
    /\ thread[t].pc # "idle" => thread[t].s \in Sources
    /\ thread[t].pc \in InsertPCs \cup DeletePCs => thread[t].d \in Dests
    /\ thread[t].pc \notin {"idle", "top", "dtop", "rtop", "xtop"} => thread[t].m \in Middles
    /\ Writing(t) \/ Viewing(t) => thread[t].b \in Blocks
    /\ At(t, "chain") => thread[t].got \subseteq Dests
    /\ thread[t].pc \notin ReadPCs => thread[t].seen = {}

Held(t) == Writing(t) \/ At(t, "xread") => middle[thread[t].m].owner[thread[t].s] = t
\* If the block of a thread is in a middle block, it is where the thread found it.
Home(t) == Writing(t) \/ Viewing(t) =>
    \A m \in Middles, s \in Sources :
        middle[m].buf[s] = thread[t].b => m = thread[t].m /\ s = thread[t].s
Filling(t) ==
    /\ At(t, "fill") => \/ Junk \in block[thread[t].b].head
                        \/ block[thread[t].b].head = {}
    /\ At(t, "chain") => block[thread[t].b].head = {} /\ block[thread[t].b].five
Seen(t) == thread[t].pc \in ReadPCs => EdgesOf(thread[t].s) \in thread[t].seen

SafeThread(t) == Bound(t) /\ Held(t) /\ Home(t) /\ Filling(t) /\ Seen(t)

OnePlace ==
    \A m, n \in Middles : \A s, r \in Sources :
        middle[m].buf[s] # Null /\ middle[m].buf[s] = middle[n].buf[r] => m = n /\ s = r
JunkHeld ==
    \A b \in Blocks : Junk \in block[b].head
        => \E u \in Threads : At(u, "fill") /\ thread[u].b = b

Safe == /\ TypeOK /\ thread \in [Threads -> ThreadType]
        /\ OnePlace /\ JunkHeld /\ BlockExclusive
        /\ \A t \in Threads : SafeThread(t)

(***************************************************************************)
(* The half that holds until an insertion overlaps a retirement.           *)
(***************************************************************************)
Quiet == \A t, u \in Threads : ~(Inserting(t) /\ Retiring(u))

\* The buffer of source s in the child of the top block.
Buf(s) == middle[top.child].buf[s]
Retired(b) == b # Null => block[b].obsolete /\ Content(b) = {}

Linked == top.bit <=> top.child # Null
\* A middle block out of the tree leads nowhere.
Detached ==
    \A m \in Middles : m # top.child =>
        /\ middle[m].bits = {}
        /\ \A s \in Sources : Retired(middle[m].buf[s])
Buffered(m, s) ==
    /\ s \in middle[m].bits => middle[m].buf[s] # Null
    /\ middle[m].buf[s] # Null /\ block[middle[m].buf[s]].obsolete => Retired(middle[m].buf[s])
    /\ s \notin middle[m].bits /\ middle[m].buf[s] # Null
         => \E u \in Threads : At(u, "dnull") /\ thread[u].m = m /\ thread[u].s = s
Path == Linked /\ Detached /\ \A m \in Middles, s \in Sources : Buffered(m, s)

Stored ==
    \A s \in Sources :
        /\ top.child # Null => (Buf(s) # Null =>
               (Merging(s) \/ Content(Buf(s)) \ {Junk} = EdgesOf(s)))
        /\ top.child = Null \/ Buf(s) = Null => EdgesOf(s) = {}

\* An insertion works in the child, a writer in the block the search finds.
OnPath(t) ==
    /\ Inserting(t) /\ ~At(t, "top") => thread[t].m = top.child /\ ~At(t, "setbit")
    /\ At(t, "unlocked") => thread[t].s \in middle[thread[t].m].bits
    /\ Writing(t) =>
          /\ thread[t].m = top.child /\ thread[t].s \in middle[thread[t].m].bits
          /\ thread[t].b = middle[thread[t].m].buf[thread[t].s]
          /\ ~block[thread[t].b].obsolete
    /\ At(t, "chain") => thread[t].got = EdgesOf(thread[t].s)
OffPath(t) ==
    /\ thread[t].pc \in RetirePCs \ {"dtopcheck"} => top.child \in {thread[t].m, Null}
    /\ thread[t].pc \in {"dclear", "dnull"} => Retired(middle[thread[t].m].buf[thread[t].s])
    /\ At(t, "dnull") => thread[t].s \notin middle[thread[t].m].bits
    /\ At(t, "droot") => top.child = Null \/ middle[top.child].bits = {}
Told(t) ==
    /\ thread[t].pc \in {"rmiddle", "xmiddle"} /\ thread[t].m # top.child => {} \in thread[t].seen
    /\ Viewing(t) /\ ~Written(thread[t].b) => Content(thread[t].b) \in thread[t].seen
    /\ thread[t].same /\ thread[t].pc \in {"rhead", "rarray", "rcheck"} => ~Written(thread[t].b)
    /\ thread[t].same /\ At(t, "rarray") => thread[t].got = block[thread[t].b].head
    /\ thread[t].same /\ At(t, "rcheck") => thread[t].got = Content(thread[t].b)
    /\ ~thread[t].wrong

CalmThread(t) == OnPath(t) /\ OffPath(t) /\ Told(t)
Calm == Quiet /\ Path /\ Stored /\ \A t \in Threads : CalmThread(t)

IInv == Safe /\ (~overlap => Calm)

-----------------------------------------------------------------------------
(* Steps that leave the graph and the way to it alone.                     *)

\* What Path and Stored look at is unchanged: not so the obsolete flags of
\* the top and the middle blocks, and the owners of the buffers.
SameTree ==
    /\ block' = block /\ edges' = edges
    /\ top'.bit = top.bit /\ top'.child = top.child
    /\ \A m \in Middles : middle'[m].bits = middle[m].bits /\ middle'[m].buf = middle[m].buf
Alone(t) == \A u \in Threads : u # t => thread'[u] = thread[u]

(* A step of thread t that changes only its own variables, and is neither  *)
(* inside the claim of a slot nor in the clearing of a buffer, has the     *)
(* invariant of t to prove, and when it leaves a block, that its readers   *)
(* have been told what the block holds.                                    *)
LEMMA SameTreeStep ==
  ASSUME IInv, NEW t \in Threads, SameTree, Watch, Alone(t), TypeOK',
         thread' \in [Threads -> ThreadType],
         thread[t].pc \notin {"fill", "chain", "dnull"}, ~Writing(t)',
         \A u \in Threads : u # t /\ Held(u) => Held(u)',
         Writing(t) /\ ~overlap =>
            \A u \in Threads : Viewing(u) /\ thread[u].b = thread[t].b
                => Content(thread[u].b) \in thread[u].seen,
         SafeThread(t)', ~overlap' => CalmThread(t)'
  PROVE  IInv'
  <1>1. /\ block' = block /\ edges' = edges /\ top'.bit = top.bit /\ top'.child = top.child
        /\ \A m \in Middles : middle'[m].bits = middle[m].bits /\ middle'[m].buf = middle[m].buf
        /\ \A u \in Threads : u # t => thread'[u] = thread[u]
        /\ thread[t].pc \notin {"fill", "chain", "dnull"}
        /\ thread'[t].pc \notin {"apply", "fill", "chain", "dapply"}
    BY DEF Writing, At, WritePCs, SameTree, Alone
  <1>2. Safe'
    <2>2. OnePlace'
      BY <1>1 DEF IInv, Safe, OnePlace
    <2>3. JunkHeld'
      BY <1>1 DEF IInv, Safe, JunkHeld, At
    <2>4. BlockExclusive'
      BY <1>1 DEF IInv, Safe, BlockExclusive
    <2>5. ASSUME NEW u \in Threads PROVE SafeThread(u)'
      <3>1. CASE u # t
        <4>1. thread'[u] = thread[u] /\ SafeThread(u)
          BY <1>1, <3>1 DEF IInv, Safe
        <4>2. Bound(u)' /\ Held(u)'
          BY <1>1, <3>1, <4>1 DEF SafeThread, Bound, Writing, Viewing, At
        <4>3. Home(u)'
          BY <1>1, <4>1 DEF SafeThread, Home, Writing, Viewing
        <4>4. Filling(u)' /\ Seen(u)'
          BY <1>1, <4>1 DEF SafeThread, Filling, Seen, EdgesOf, At
        <4> QED  BY <4>2, <4>3, <4>4 DEF SafeThread
      <3> QED  BY <3>1
    <2> QED  BY <2>2, <2>3, <2>4, <2>5 DEF Safe
  <1>3. ASSUME ~overlap' PROVE Calm'
    <2>1. Calm /\ Quiet'
      BY <1>3 DEF Watch, IInv, Quiet
    <2>2. Path'
      <3>1. \A b : Retired(b)' <=> Retired(b)
        BY <1>1 DEF Retired, Content
      <3>2. Linked' /\ Detached'
        BY <1>1, <2>1, <3>1 DEF Calm, Path, Linked, Detached
      <3>3. ASSUME NEW m \in Middles, NEW s \in Sources PROVE Buffered(m, s)'
        <4>1. Buffered(m, s) /\ middle'[m].bits = middle[m].bits /\ middle'[m].buf[s] = middle[m].buf[s]
          BY <1>1, <2>1 DEF Calm, Path
        <4>2. \A u \in Threads : At(u, "dnull") => At(u, "dnull")' /\ thread'[u] = thread[u]
          BY <1>1 DEF At
        <4> QED  BY <1>1, <3>1, <4>1, <4>2 DEF Buffered
      <3> QED  BY <3>2, <3>3 DEF Path
    <2>3. \A s \in Sources : EdgesOf(s)' = EdgesOf(s)
                            /\ (top.child # Null => Buf(s)' = Buf(s))
      BY <1>1 DEF EdgesOf, Buf, IInv, Safe, TypeOK
    <2>4. \A s \in Sources : Merging(s)' <=> Merging(s)
      BY <1>1 DEF Merging, At
    <2>5. Stored'
      <3>1. \A b : Content(b)' = Content(b)
        BY <1>1 DEF Content
      <3> QED  BY <1>1, <2>1, <2>3, <2>4, <3>1 DEF Calm, Stored
    <2>6. \A b : /\ Written(b)' => Written(b)
                 /\ Written(b) => Written(b)' \/ (Writing(t) /\ b = thread[t].b)
      <3>1. \A u \in Threads : u # t => (Writing(u)' <=> Writing(u))
        BY <1>1 DEF Writing
      <3> QED  BY <1>1, <3>1 DEF Written
    <2>7. ASSUME NEW u \in Threads PROVE CalmThread(u)'
      <3>1. CASE u # t
        <4>1. thread'[u] = thread[u] /\ OnPath(u) /\ OffPath(u) /\ Told(u)
          BY <1>1, <2>1, <3>1 DEF Calm, CalmThread
        <4>2. Bound(u)
          BY DEF IInv, Safe, SafeThread
        <4>3. OnPath(u)'
          BY <1>1, <4>1, <4>2 DEF OnPath, Bound, Inserting, Writing, WritePCs, At, EdgesOf
        <4>4. OffPath(u)'
          <5>1. \A b : Retired(b)' <=> Retired(b)
            BY <1>1 DEF Retired, Content
          <5>2. thread[u].pc \in RetirePCs \ {"dtopcheck"} =>
                  thread[u].s \in Sources /\ thread[u].m \in Middles
            BY <4>2 DEF Bound, RetirePCs
          <5>3. top.child = Null \/ top.child \in Middles
            BY DEF IInv, Safe, TypeOK
          <5> QED  BY <1>1, <4>1, <5>1, <5>2, <5>3 DEF OffPath, RetirePCs, At
        <4>5. Told(u)'
          <5>1. ~overlap
            BY <1>3 DEF Watch
          <5>2. /\ Viewing(u) /\ ~Written(thread[u].b)' => Content(thread[u].b) \in thread[u].seen
                /\ Written(thread[u].b)' => Written(thread[u].b)
            BY <2>6, <3>1, <4>1, <5>1 DEF Told
          <5> QED  BY <1>1, <4>1, <5>2 DEF Told, Viewing, Content, At
        <4> QED  BY <4>3, <4>4, <4>5 DEF CalmThread
      <3> QED  BY <1>3, <3>1
    <2> QED  BY <2>1, <2>2, <2>5, <2>7 DEF Calm
  <1> QED  BY <1>2, <1>3 DEF IInv

(* The same for a step that enters and leaves no block.                    *)
LEMMA LocalStep ==
  ASSUME IInv, NEW t \in Threads, SameTree, Watch, Alone(t), TypeOK',
         thread' \in [Threads -> ThreadType],
         ~Writing(t), ~At(t, "dnull"), ~Writing(t)',
         \A u \in Threads : u # t /\ Held(u) => Held(u)',
         SafeThread(t)', ~overlap' => CalmThread(t)'
  PROVE  IInv'
  <1>1. thread[t].pc \notin {"fill", "chain", "dnull"}
    BY DEF Writing, WritePCs, At
  <1> QED  BY <1>1, SameTreeStep

Shared == <<top, middle, block, edges>>

(* When only thread t changes, the types of the shared state remain, and   *)
(* the new variables of t are the ones the step gave it.                   *)
LEMMA OwnStep ==
  ASSUME IInv, NEW t \in Threads, UNCHANGED Shared, Watch,
         NEW r \in ThreadType, thread' = [thread EXCEPT ![t] = r]
  PROVE  /\ SameTree /\ Alone(t) /\ TypeOK' /\ thread' \in [Threads -> ThreadType]
         /\ thread'[t] = r /\ \A u \in Threads : u # t /\ Held(u) => Held(u)'
         /\ middle' = middle /\ block' = block /\ edges' = edges /\ top' = top
  <1>1. thread \in [Threads -> ThreadType] /\ TypeOK
    BY DEF IInv, Safe
  <1>2. /\ thread' \in [Threads -> ThreadType] /\ thread'[t] = r
        /\ \A u \in Threads : u # t => thread'[u] = thread[u]
    BY <1>1
  <1>3. middle' = middle /\ block' = block /\ edges' = edges /\ top' = top
    BY DEF Shared
  <1>4. overlap' \in BOOLEAN
    BY <1>1 DEF Watch, TypeOK, Inserting, Retiring
  <1>5. \A u \in Threads : thread'[u].calls \in 0..MaxCalls /\ thread'[u].left \in 0..Threshold
    BY <1>2 DEF ThreadType
  <1>6. TypeOK'
    BY <1>1, <1>3, <1>4, <1>5 DEF TypeOK, Capacity, MiddleType
  <1>7. \A u \in Threads : u # t /\ Held(u) => Held(u)'
    BY <1>2, <1>3 DEF Held, Writing, At
  <1> QED  BY <1>2, <1>3, <1>6, <1>7 DEF SameTree, Alone

(* A call begins.                                                          *)
LEMMA BeginStep ==
  ASSUME IInv, NEW t \in Threads, Watch, NEW pc \in {"top", "dtop", "rtop"},
         NEW s \in Sources, NEW d \in Dests \cup {Null}, NEW seen \in SUBSET (SUBSET Dests),
         pc # "rtop" => d \in Dests /\ seen = {},
         pc = "rtop" => seen = {EdgesOf(s)},
         Begin(t, pc, s, d, seen)
  PROVE  IInv'
  <1> DEFINE r == [Idle(thread[t].calls + 1) EXCEPT !.pc = pc, !.s = s, !.d = d, !.seen = seen]
  <1>1. /\ UNCHANGED Shared /\ thread' = [thread EXCEPT ![t] = r] /\ thread[t].pc = "idle"
        /\ thread[t].calls < MaxCalls /\ thread[t].calls \in 0..MaxCalls /\ thread[t] \in ThreadType
    BY DEF Begin, Shared, IInv, Safe, TypeOK, At
  <1>2. /\ r.pc = pc /\ r.s = s /\ r.d = d /\ r.seen = seen /\ r.same = FALSE /\ r.wrong = FALSE
        /\ r \in ThreadType
    <2>1. MaxCalls \in Nat /\ Threshold \in Nat
      BY SizeAssumption
    <2>2. thread[t].calls + 1 \in 0..MaxCalls /\ 0 \in 0..Threshold
      BY <1>1, <2>1
    <2>3. /\ r.pc = pc /\ r.s = s /\ r.d = d /\ r.seen = seen /\ r.same = FALSE /\ r.wrong = FALSE
          /\ r \in [pc : {pc}, s : {s}, d : {d}, m : {Null}, b : {Null}, same : {FALSE},
                    left : {0}, got : {{}}, seen : {seen}, wrong : {FALSE},
                    calls : {thread[t].calls + 1}]
      BY DEF Idle
    <2> HIDE DEF r
    <2> QED  BY <2>2, <2>3 DEF ThreadType, InsertPCs, DeletePCs, ReadPCs
  <1> HIDE DEF r
  <1>4. /\ SameTree /\ Alone(t) /\ TypeOK' /\ thread' \in [Threads -> ThreadType]
        /\ thread'[t] = r /\ \A u \in Threads : u # t /\ Held(u) => Held(u)'
        /\ edges' = edges
    BY <1>1, <1>2, OwnStep
  <1>5. SafeThread(t)' /\ ~Writing(t)'
    BY <1>2, <1>4 DEF SafeThread, Bound, Held, Home, Filling, Seen, Writing, Viewing, At,
         EdgesOf, InsertPCs, DeletePCs, ReadPCs, ViewPCs, WritePCs
  <1>6. CalmThread(t)'
    BY <1>2, <1>4 DEF CalmThread, OnPath, OffPath, Told, Inserting, Writing, Viewing, At,
         RetirePCs, ViewPCs, WritePCs
  <1>7. ~Writing(t) /\ ~At(t, "dnull")
    BY <1>1 DEF Writing, At, WritePCs
  <1> QED  BY <1>4, <1>5, <1>6, <1>7, LocalStep

(* The variables of a thread between two calls.                            *)
LEMMA IdleRecord ==
  ASSUME NEW n \in 0..MaxCalls, NEW w \in BOOLEAN
  PROVE  /\ Idle(n) \in ThreadType /\ Idle(n).pc = "idle" /\ Idle(n).same = FALSE
         /\ Idle(n).wrong = FALSE /\ Idle(n).seen = {} /\ Idle(n).b = Null
         /\ [Idle(n) EXCEPT !.wrong = w] \in ThreadType
         /\ [Idle(n) EXCEPT !.wrong = w].pc = "idle" /\ [Idle(n) EXCEPT !.wrong = w].same = FALSE
         /\ [Idle(n) EXCEPT !.wrong = w].wrong = w /\ [Idle(n) EXCEPT !.wrong = w].seen = {}
  <1>1. MaxCalls \in Nat /\ Threshold \in Nat /\ 0 \in 0..Threshold
    BY SizeAssumption
  <1> QED  BY <1>1 DEF Idle, ThreadType

(* A call that ends outside every block.                                   *)
LEMMA EndStep ==
  ASSUME IInv, NEW t \in Threads, SameTree, Watch, Alone(t), TypeOK',
         thread' \in [Threads -> ThreadType], ~Writing(t), ~At(t, "dnull"),
         \A u \in Threads : u # t /\ Held(u) => Held(u)',
         thread'[t].pc = "idle", thread'[t].same = FALSE, thread'[t].seen = {},
         overlap' \/ ~thread'[t].wrong
  PROVE  IInv'
  <1>1. SafeThread(t)' /\ ~Writing(t)'
    BY DEF SafeThread, Bound, Held, Home, Filling, Seen, Writing, Viewing, At,
         InsertPCs, DeletePCs, ReadPCs, ViewPCs, WritePCs
  <1>2. ASSUME ~overlap' PROVE CalmThread(t)'
    BY <1>2 DEF CalmThread, OnPath, OffPath, Told, Inserting, Writing, Viewing, At,
         RetirePCs, ViewPCs, WritePCs
  <1> QED  BY <1>1, <1>2, LocalStep

(* A call that ends with the shared state as it was: wrong only after an   *)
(* overlap.                                                                *)
LEMMA AnswerStep ==
  ASSUME IInv, NEW t \in Threads, UNCHANGED Shared, Watch, ~Writing(t), ~At(t, "dnull"),
         NEW w \in BOOLEAN, overlap' \/ ~w,
         thread' = [thread EXCEPT ![t] = [Idle(thread[t].calls) EXCEPT !.wrong = w]]
  PROVE  IInv'
  <1> DEFINE r == [Idle(thread[t].calls) EXCEPT !.wrong = w]
  <1>1. thread[t].calls \in 0..MaxCalls
    BY DEF IInv, Safe, TypeOK
  <1>2. r \in ThreadType /\ r.pc = "idle" /\ r.same = FALSE /\ r.wrong = w /\ r.seen = {}
        /\ thread' = [thread EXCEPT ![t] = r]
    BY <1>1, IdleRecord
  <1> HIDE DEF r
  <1> QED  BY <1>2, OwnStep, EndStep

(* The same for a call that has nothing to answer.                         *)
LEMMA ReturnStep ==
  ASSUME IInv, NEW t \in Threads, UNCHANGED Shared, Watch, ~Writing(t), ~At(t, "dnull"), Return(t)
  PROVE  IInv'
  <1> DEFINE r == Idle(thread[t].calls)
  <1>1. thread[t].calls \in 0..MaxCalls
    BY DEF IInv, Safe, TypeOK
  <1>2. r \in ThreadType /\ r.pc = "idle" /\ r.same = FALSE /\ r.wrong = FALSE /\ r.seen = {}
        /\ thread' = [thread EXCEPT ![t] = r]
    BY <1>1, IdleRecord DEF Return
  <1> HIDE DEF r
  <1> QED  BY <1>2, OwnStep, EndStep

(* A thread moves on, with the same variables.                             *)
LEMMA MovedRecord ==
  ASSUME NEW t \in Threads, thread[t] \in ThreadType,
         NEW pc \in InsertPCs \cup RetirePCs \cup DeletePCs \cup ReadPCs
  PROVE  /\ [thread[t] EXCEPT !.pc = pc] \in ThreadType
         /\ [thread[t] EXCEPT !.pc = pc].pc = pc
         /\ [thread[t] EXCEPT !.pc = pc].m = thread[t].m
         /\ [thread[t] EXCEPT !.pc = pc].s = thread[t].s
         /\ [thread[t] EXCEPT !.pc = pc].d = thread[t].d
         /\ [thread[t] EXCEPT !.pc = pc].seen = thread[t].seen
         /\ [thread[t] EXCEPT !.pc = pc].wrong = thread[t].wrong
         /\ [thread[t] EXCEPT !.pc = pc].b = thread[t].b
  BY DEF ThreadType

(* A thread outside the blocks moves to another place outside the blocks,  *)
(* with the middle block m: an insertion with the child of the top block.  *)
LEMMA GoStep ==
  ASSUME IInv, NEW t \in Threads, UNCHANGED Shared, Watch, ~Writing(t), ~At(t, "dnull"),
         NEW pc, NEW m, NEW r \in ThreadType, thread' = [thread EXCEPT ![t] = r],
         r.pc = pc, r.m = m, r.s = thread[t].s, r.d = thread[t].d, r.seen = thread[t].seen,
         r.wrong = thread[t].wrong,
         \/ /\ Inserting(t) /\ pc \in {"top", "bottom", "locked", "unlocked", "acquire"}
            /\ ~overlap => m = top.child \/ pc = "top"
            /\ ~overlap /\ pc = "unlocked" => thread[t].s \in middle[m].bits
         \/ thread[t].pc \in DeletePCs /\ pc \in {"dtop", "dbottom", "dacquire"},
         m \in Middles \/ pc \in {"top", "dtop"}
  PROVE  IInv'
  <1>1. Bound(t) /\ (~overlap => ~thread[t].wrong)
    BY DEF IInv, Safe, SafeThread, Calm, CalmThread, Told
  <1>3. thread[t].s \in Sources /\ thread[t].d \in Dests /\ thread[t].seen = {}
    BY <1>1 DEF Bound, Inserting, InsertPCs, DeletePCs, ReadPCs, ViewPCs
  <1>4. /\ SameTree /\ Alone(t) /\ TypeOK' /\ thread' \in [Threads -> ThreadType]
        /\ thread'[t] = r /\ \A u \in Threads : u # t /\ Held(u) => Held(u)'
        /\ top' = top /\ middle' = middle
    BY OwnStep
  <1>5. SafeThread(t)' /\ ~Writing(t)'
    BY <1>3, <1>4 DEF SafeThread, Bound, Held, Home, Filling, Seen, Writing, Viewing, At,
         InsertPCs, DeletePCs, ReadPCs, ViewPCs, WritePCs
  <1>6. ASSUME ~overlap' PROVE CalmThread(t)'
    <2>1. ~overlap
      BY <1>6 DEF Watch
    <2> QED  BY <1>1, <1>4, <2>1 DEF CalmThread, OnPath, OffPath, Told, Inserting, Writing,
               Viewing, At, RetirePCs, ViewPCs, WritePCs
  <1> QED  BY <1>4, <1>5, <1>6, LocalStep

(* The same with the middle block as it was.                               *)
LEMMA GoSame ==
  ASSUME IInv, NEW t \in Threads, UNCHANGED Shared, Watch, ~Writing(t), ~At(t, "dnull"),
         NEW pc, Go(t, pc), thread[t].m \in Middles,
         \/ /\ Inserting(t) /\ pc \in {"top", "bottom", "locked", "unlocked", "acquire"}
            /\ ~overlap => thread[t].m = top.child \/ pc = "top"
            /\ ~overlap /\ pc = "unlocked" => thread[t].s \in middle[thread[t].m].bits
         \/ thread[t].pc \in DeletePCs /\ pc \in {"dtop", "dbottom", "dacquire"}
  PROVE  IInv'
  <1> DEFINE r == [thread[t] EXCEPT !.pc = pc]
  <1>1. thread[t] \in ThreadType /\ pc \in InsertPCs \cup RetirePCs \cup DeletePCs \cup ReadPCs
    BY DEF IInv, Safe, InsertPCs, DeletePCs
  <1>2. /\ r \in ThreadType /\ r.pc = pc /\ r.m = thread[t].m /\ r.s = thread[t].s
        /\ r.d = thread[t].d /\ r.seen = thread[t].seen /\ r.wrong = thread[t].wrong
    BY <1>1, MovedRecord
  <1>3. thread' = [thread EXCEPT ![t] = r]
    BY DEF Go
  <1> HIDE DEF r
  <1> QED  BY <1>2, <1>3, GoStep

-----------------------------------------------------------------------------
(* A call begins.                                                          *)

(* The neighbours a read starts with.                                      *)
LEMMA EdgesOfIs ==
  ASSUME NEW s \in Sources, NEW g \in SUBSET (Sources \X Dests)
  PROVE  {e[2] : e \in {x \in g : x[1] = s}} = {d \in Dests : <<s, d>> \in g}
  OBVIOUS

(* UpdateEdge, DeleteEdge and get_neighbours are called.                   *)
LEMMA CallStep ==
  ASSUME IInv, NEW t \in Threads, Watch, UpdateEdge(t) \/ DeleteEdge(t) \/ GetNeighbours(t)
  PROVE  IInv'
  <1>1. \A e \in Edges : e[1] \in Sources /\ e[2] \in Dests
    BY NameAssumption
  <1>2. CASE UpdateEdge(t)
    <2>1. PICK e \in Edges : Begin(t, "top", e[1], e[2], {})
      BY <1>2 DEF UpdateEdge
    <2> QED  BY <1>1, <2>1, BeginStep
  <1>3. CASE DeleteEdge(t)
    <2>1. PICK e \in Edges : Begin(t, "dtop", e[1], e[2], {})
      BY <1>3 DEF DeleteEdge
    <2> QED  BY <1>1, <2>1, BeginStep
  <1>4. CASE GetNeighbours(t)
    <2>1. PICK s \in Sources : Begin(t, "rtop", s, Null, {{e[2] : e \in {x \in edges : x[1] = s}}})
      BY <1>4 DEF GetNeighbours
    <2>2. {e[2] : e \in {x \in edges : x[1] = s}} = EdgesOf(s)
      BY EdgesOfIs DEF EdgesOf, IInv, Safe, TypeOK
    <2>3. {EdgesOf(s)} \in SUBSET (SUBSET Dests)
      BY DEF EdgesOf
    <2> QED  BY <2>1, <2>2, <2>3, BeginStep
  <1> QED  BY <1>2, <1>3, <1>4

-----------------------------------------------------------------------------
(* The search of an insertion and of a deletion.                           *)

(* The mark of an insertion, and what calm says of it.                     *)
LEMMA InsertFacts ==
  ASSUME IInv, NEW t \in Threads, Inserting(t)
  PROVE  /\ ~At(t, "top") => thread[t].m \in Middles
         /\ thread[t].s \in Sources /\ thread[t].d \in Dests /\ thread[t] \in ThreadType
         /\ ~overlap => /\ ~At(t, "top") => thread[t].m = top.child /\ ~At(t, "setbit")
                        /\ At(t, "unlocked") => thread[t].s \in middle[thread[t].m].bits
                        /\ \A u \in Threads : ~Retiring(u)
  <1>1. Bound(t) /\ (~overlap => OnPath(t) /\ Quiet) /\ thread[t] \in ThreadType
    BY DEF IInv, Safe, SafeThread, Calm, CalmThread
  <1> QED  BY <1>1 DEF Bound, OnPath, Quiet, Inserting, At, InsertPCs

(* restart: the child of the top block is taken.                           *)
LEMMA InsertTopFound ==
  ASSUME IInv, NEW t \in Threads, Watch, InsertTop(t), top.bit
  PROVE  IInv'
  <1> DEFINE r == [thread[t] EXCEPT !.pc = "bottom", !.m = top.child]
  <1>1. /\ At(t, "top") /\ top.child # Null /\ UNCHANGED Shared
        /\ thread' = [thread EXCEPT ![t] = r] /\ Inserting(t) /\ ~Writing(t) /\ ~At(t, "dnull")
    BY DEF InsertTop, Shared, At, Inserting, Writing, WritePCs
  <1>2. top.child \in Middles /\ thread[t] \in ThreadType
    BY <1>1 DEF IInv, Safe, TypeOK
  <1>3. /\ r \in ThreadType /\ r.pc = "bottom" /\ r.m = top.child /\ r.s = thread[t].s
        /\ r.d = thread[t].d /\ r.seen = thread[t].seen /\ r.wrong = thread[t].wrong
    BY <1>2 DEF ThreadType, InsertPCs
  <1> HIDE DEF r
  <1> QED  BY <1>1, <1>2, <1>3, GoStep

(* restart_bottom: the flag decides whether the mtx is taken.              *)
LEMMA InsertBottomStep ==
  ASSUME IInv, NEW t \in Threads, Watch, InsertBottom(t)
  PROVE  IInv'
  <1>1. /\ At(t, "bottom") /\ UNCHANGED Shared /\ Inserting(t) /\ ~Writing(t)
        /\ ~At(t, "dnull") /\ ~At(t, "top")
    BY DEF InsertBottom, Shared, At, Inserting, Writing, WritePCs
  <1>2. /\ thread[t].m \in Middles
        /\ ~overlap => thread[t].m = top.child
    BY <1>1, InsertFacts
  <1>3. PICK pc \in {"top", "locked", "unlocked"} :
          Go(t, pc) /\ (pc = "unlocked" => thread[t].s \in middle[thread[t].m].bits)
    BY DEF InsertBottom
  <1> QED  BY <1>1, <1>2, <1>3, GoSame

(* The bit was set in the meantime.                                        *)
LEMMA InsertPresent ==
  ASSUME IInv, NEW t \in Threads, Watch, InsertLocked(t) \/ InsertUnlocked(t),
         thread[t].s \in middle[thread[t].m].bits
  PROVE  IInv'
  <1>1. /\ thread[t].pc \in {"locked", "unlocked"} /\ UNCHANGED Shared /\ Go(t, "acquire")
    BY DEF InsertLocked, InsertUnlocked, Shared, At
  <1>2. /\ Inserting(t) /\ ~Writing(t) /\ ~At(t, "dnull") /\ ~At(t, "top")
    BY <1>1 DEF At, Inserting, Writing, WritePCs
  <1>3. /\ thread[t].m \in Middles
        /\ ~overlap => thread[t].m = top.child
    BY <1>2, InsertFacts
  <1> QED  BY <1>1, <1>2, <1>3, GoSame

(* The child of the top block, or nothing to delete.                       *)
LEMMA DeleteTopStep ==
  ASSUME IInv, NEW t \in Threads, Watch, DeleteTop(t)
  PROVE  IInv'
  <1>1. /\ At(t, "dtop") /\ UNCHANGED Shared /\ ~Writing(t) /\ ~At(t, "dnull")
    BY DEF DeleteTop, Shared, At, Writing, WritePCs
  <1>2. CASE top.bit /\ top.child # Null
    <2> DEFINE r == [thread[t] EXCEPT !.pc = "dbottom", !.m = top.child]
    <2>1. top.child \in Middles /\ thread[t] \in ThreadType
      BY <1>2 DEF IInv, Safe, TypeOK
    <2>2. /\ r \in ThreadType /\ r.pc = "dbottom" /\ r.m = top.child /\ r.s = thread[t].s
          /\ r.d = thread[t].d /\ r.seen = thread[t].seen /\ r.wrong = thread[t].wrong
      BY <2>1 DEF ThreadType, DeletePCs
    <2>3. thread' = [thread EXCEPT ![t] = r] /\ thread[t].pc \in DeletePCs
      BY <1>1, <1>2 DEF DeleteTop, At, DeletePCs
    <2> HIDE DEF r
    <2> QED  BY <1>1, <2>1, <2>2, <2>3, GoStep
  <1>3. CASE ~(top.bit /\ top.child # Null)
    BY <1>1, <1>3, ReturnStep DEF DeleteTop
  <1> QED  BY <1>2, <1>3

(* The bit and the buffer of the source, or nothing to delete.             *)
LEMMA DeleteBottomStep ==
  ASSUME IInv, NEW t \in Threads, Watch, DeleteBottom(t)
  PROVE  IInv'
  <1>1. /\ At(t, "dbottom") /\ UNCHANGED Shared /\ ~Writing(t) /\ ~At(t, "dnull")
        /\ thread[t].pc \in DeletePCs
    BY DEF DeleteBottom, Shared, At, Writing, WritePCs, DeletePCs
  <1>2. thread[t].m \in Middles
    <2>1. Bound(t)
      BY DEF IInv, Safe, SafeThread
    <2> QED  BY <1>1, <2>1 DEF Bound, At
  <1>3. Go(t, "dtop") \/ Go(t, "dacquire") \/ Return(t)
    BY DEF DeleteBottom
  <1> QED  BY <1>1, <1>2, <1>3, GoSame, ReturnStep

-----------------------------------------------------------------------------
(* What a search finds.                                                    *)

(* A block nobody is in holds no half-written slot.                        *)
LEMMA NoJunk ==
  ASSUME Safe, NEW b \in Blocks, ~Written(b)
  PROVE  Content(b) \in SUBSET Dests
  <1>1. Junk \notin block[b].head
    BY DEF Safe, JunkHeld, Written, Writing, WritePCs, At
  <1>2. block[b].head \in SUBSET (Dests \cup {Junk}) /\ block[b].array \in SUBSET Dests
    BY DEF Safe, TypeOK
  <1> QED  BY <1>1, <1>2 DEF Content

(* The block a search finds, when nobody is in it, holds the edges of the  *)
(* source.                                                                 *)
LEMMA BlockExact ==
  ASSUME Safe, Calm, NEW s \in Sources, top.child # Null, Buf(s) # Null, ~Written(Buf(s))
  PROVE  Content(Buf(s)) = EdgesOf(s)
  <1>1. top.child \in Middles /\ Buf(s) \in Blocks
    BY DEF Safe, TypeOK, Buf
  <1>2. ~Merging(s)
    <2>1. SUFFICES ASSUME NEW v \in Threads, At(v, "chain"), thread[v].s = s  PROVE FALSE
      BY DEF Merging
    <2>2. Writing(v) /\ OnPath(v) /\ Inserting(v) /\ ~At(v, "top")
      BY <2>1 DEF Writing, WritePCs, At, Calm, CalmThread, Inserting
    <2>3. thread[v].b = Buf(s)
      BY <2>1, <2>2 DEF OnPath, Buf
    <2> QED  BY <2>2, <2>3 DEF Written
  <1>3. Content(Buf(s)) \ {Junk} = EdgesOf(s)
    BY <1>2 DEF Calm, Stored
  <1> QED  BY <1>1, <1>3, NoJunk, NameAssumption

(* A source the search does not find has no edges.                         *)
LEMMA AbsentExact ==
  ASSUME Safe, Calm, NEW s \in Sources,
         top.child = Null \/ s \notin middle[top.child].bits \/ Buf(s) = Null
  PROVE  EdgesOf(s) = {}
  <1>1. CASE top.child = Null \/ Buf(s) = Null
    BY <1>1 DEF Calm, Stored
  <1>2. CASE top.child # Null /\ Buf(s) # Null
    <2>1. top.child \in Middles
      BY <1>2 DEF Safe, TypeOK
    <2>2. PICK u \in Threads : At(u, "dnull") /\ thread[u].m = top.child /\ thread[u].s = s
      BY <1>2, <2>1 DEF Calm, Path, Buffered, Buf
    <2>3. Content(Buf(s)) = {}
      BY <1>2, <2>2 DEF Calm, CalmThread, OffPath, At, Retired, Buf
    <2>4. Retiring(u)
      BY <2>2 DEF Retiring, At
    <2>5. ~Merging(s)
      BY <2>4 DEF Merging, Calm, Quiet, Inserting, At
    <2> QED  BY <1>2, <2>3, <2>5 DEF Calm, Stored
  <1> QED  BY <1>1, <1>2

-----------------------------------------------------------------------------
(* The reads.                                                              *)

(* A reader moves on, outside the lock, with the block it is to look at.   *)
LEMMA ReadStep ==
  ASSUME IInv, NEW t \in Threads, UNCHANGED Shared, Watch, thread[t].pc \in ReadPCs,
         NEW r \in ThreadType, thread' = [thread EXCEPT ![t] = r],
         r.pc \in ReadPCs \ {"xread"}, r.s = thread[t].s, r.seen = thread[t].seen,
         r.wrong = thread[t].wrong,
         r.pc \notin {"rtop", "xtop"} => r.m \in Middles,
         r.pc \in ViewPCs => /\ r.b \in Blocks
                             /\ \A m \in Middles, s \in Sources :
                                  middle[m].buf[s] = r.b => m = r.m /\ s = r.s,
         ~overlap =>
            /\ r.pc \in {"rmiddle", "xmiddle"} => r.m = top.child
            /\ r.pc \in ViewPCs /\ ~Written(r.b) => Content(r.b) \in r.seen
            /\ r.same /\ r.pc \in {"rhead", "rarray", "rcheck"} => ~Written(r.b)
            /\ r.same /\ r.pc = "rarray" => r.got = block[r.b].head
            /\ r.same /\ r.pc = "rcheck" => r.got = Content(r.b)
  PROVE  IInv'
  <1>1. Bound(t) /\ Seen(t) /\ (~overlap => ~thread[t].wrong)
    BY DEF IInv, Safe, SafeThread, Calm, CalmThread, Told
  <1>2. ~Writing(t) /\ ~At(t, "dnull")
    BY DEF Writing, WritePCs, At, ReadPCs, ViewPCs
  <1>3. /\ SameTree /\ Alone(t) /\ TypeOK' /\ thread' \in [Threads -> ThreadType]
        /\ thread'[t] = r /\ \A u \in Threads : u # t /\ Held(u) => Held(u)'
        /\ top' = top /\ middle' = middle /\ block' = block /\ edges' = edges
    BY OwnStep
  <1>4. r.pc \notin InsertPCs \cup DeletePCs \cup RetirePCs \cup WritePCs \cup {"idle", "xread"}
    BY DEF ReadPCs, ViewPCs, InsertPCs, DeletePCs, RetirePCs, WritePCs
  <1>5. ~Writing(t)' /\ Bound(t)' /\ Held(t)'
    BY <1>1, <1>3, <1>4 DEF Bound, Held, Writing, Viewing, At, ReadPCs, ViewPCs, InsertPCs
  <1>6. Home(t)' /\ Filling(t)' /\ Seen(t)'
    BY <1>1, <1>3, <1>4, <1>5 DEF Home, Filling, Seen, Viewing, At, EdgesOf, InsertPCs
  <1>7. ASSUME ~overlap' PROVE CalmThread(t)'
    <2>1. ~overlap
      BY <1>7 DEF Watch
    <2>2. \A b : Written(b)' <=> Written(b)
      BY <1>2, <1>3, <1>5 DEF Written, Writing, Alone
    <2>3. OnPath(t)' /\ OffPath(t)'
      BY <1>3, <1>4, <1>5 DEF OnPath, OffPath, Inserting, At, InsertPCs, RetirePCs
    <2>4. Told(t)'
      BY <1>1, <1>3, <2>1, <2>2 DEF Told, Viewing, At, Content
    <2> QED  BY <2>3, <2>4 DEF CalmThread
  <1> QED  BY <1>2, <1>3, <1>5, <1>6, <1>7, LocalStep DEF SafeThread

(* The child of the top block, or no neighbours.                           *)
LEMMA ReadTopStep ==
  ASSUME IInv, NEW t \in Threads, Watch, NEW here, NEW next,
         <<here, next>> \in {<<"rtop", "rmiddle">>, <<"xtop", "xmiddle">>},
         ReadTop(t, here, next)
  PROVE  IInv'
  <1>1. /\ UNCHANGED Shared /\ thread[t].pc \in {"rtop", "xtop"} /\ next \in {"rmiddle", "xmiddle"}
    BY DEF ReadTop, Shared, At
  <1>2. /\ ~Writing(t) /\ ~At(t, "dnull") /\ thread[t].pc \in ReadPCs
    BY <1>1 DEF Writing, WritePCs, At, ReadPCs
  <1>3. CASE top.bit /\ top.child # Null
    <2> DEFINE r == [thread[t] EXCEPT !.pc = next, !.m = top.child, !.got = {}]
    <2>1. top.child \in Middles /\ thread[t] \in ThreadType
      BY <1>3 DEF IInv, Safe, TypeOK
    <2>2. /\ r \in ThreadType /\ r.pc = next /\ r.m = top.child /\ r.s = thread[t].s
          /\ r.seen = thread[t].seen /\ r.wrong = thread[t].wrong
      BY <1>1, <2>1 DEF ThreadType, ReadPCs
    <2>3. thread' = [thread EXCEPT ![t] = r]
      BY <1>3 DEF ReadTop
    <2>4. next \in ReadPCs \ {"xread"} /\ next \notin ViewPCs
             /\ next \notin {"rhead", "rarray", "rcheck"}
      BY <1>1 DEF ReadPCs, ViewPCs
    <2> HIDE DEF r
    <2> QED  BY <1>1, <1>2, <2>1, <2>2, <2>3, <2>4, ReadStep
  <1>4. CASE ~(top.bit /\ top.child # Null)
    <2> DEFINE w == TRUE /\ {} \notin thread[t].seen
    <2>1. thread' = [thread EXCEPT ![t] = [Idle(thread[t].calls) EXCEPT !.wrong = w]]
      BY <1>4 DEF ReadTop, Answer
    <2>2. ASSUME ~overlap' PROVE ~w
      <3>1. Safe /\ Calm
        BY <2>2 DEF Watch, IInv
      <3>2. top.child = Null
        BY <1>4, <3>1 DEF Calm, Path, Linked
      <3>3. thread[t].s \in Sources /\ EdgesOf(thread[t].s) \in thread[t].seen
        BY <1>1, <1>2, <3>1 DEF Safe, SafeThread, Bound, Seen
      <3>4. EdgesOf(thread[t].s) = {}
        BY <3>1, <3>2, <3>3, AbsentExact
      <3> QED  BY <3>3, <3>4
    <2>3. w \in BOOLEAN
      OBVIOUS
    <2> HIDE DEF w
    <2> QED  BY <1>1, <1>2, <2>1, <2>2, <2>3, AnswerStep
  <1> QED  BY <1>3, <1>4

(* The buffer of the source, or no neighbours.                             *)
LEMMA ReadMiddleStep ==
  ASSUME IInv, NEW t \in Threads, Watch, NEW here, NEW next,
         <<here, next>> \in {<<"rmiddle", "rstamp">>, <<"xmiddle", "xlock">>},
         ReadMiddle(t, here, next)
  PROVE  IInv'
  <1> DEFINE m == thread[t].m  s == thread[t].s
  <1>1. /\ UNCHANGED Shared /\ thread[t].pc \in {"rmiddle", "xmiddle"} /\ next \in {"rstamp", "xlock"}
    BY DEF ReadMiddle, Shared, At
  <1>2. /\ ~Writing(t) /\ ~At(t, "dnull") /\ thread[t].pc \in ReadPCs
    BY <1>1 DEF Writing, WritePCs, At, ReadPCs
  <1>3. /\ m \in Middles /\ s \in Sources /\ EdgesOf(s) \in thread[t].seen /\ thread[t] \in ThreadType
        /\ ~overlap => m = top.child \/ {} \in thread[t].seen
    <2>1. Bound(t) /\ Seen(t) /\ thread[t] \in ThreadType /\ (~overlap => Told(t))
      BY DEF IInv, Safe, SafeThread, Calm, CalmThread
    <2> QED  BY <1>1, <1>2, <2>1 DEF Bound, Seen, Told
  <1>4. CASE s \in middle[m].bits /\ middle[m].buf[s] # Null
    <2> DEFINE b == middle[m].buf[s]
    <2> DEFINE r == [thread[t] EXCEPT !.pc = next, !.b = b]
    <2>1. b \in Blocks
      BY <1>3, <1>4 DEF IInv, Safe, TypeOK
    <2>2. /\ r \in ThreadType /\ r.pc = next /\ r.m = m /\ r.s = s /\ r.b = b
          /\ r.seen = thread[t].seen /\ r.wrong = thread[t].wrong
      BY <1>1, <1>3, <2>1 DEF ThreadType, ReadPCs, ViewPCs
    <2>3. thread' = [thread EXCEPT ![t] = r]
      BY <1>4 DEF ReadMiddle
    <2>4. next \in ReadPCs \ {"xread"} /\ next \notin {"rmiddle", "xmiddle", "rhead", "rarray", "rcheck"}
      BY <1>1 DEF ReadPCs, ViewPCs
    <2>5. \A n \in Middles, v \in Sources : middle[n].buf[v] = b => n = m /\ v = s
      BY <1>3, <1>4 DEF IInv, Safe, OnePlace
    <2>6. ASSUME ~overlap, ~Written(b) PROVE Content(b) \in thread[t].seen
      <3>1. Safe /\ Calm
        BY <2>6 DEF IInv
      <3>2. m = top.child
        BY <1>3, <1>4, <3>1 DEF Calm, Path, Detached
      <3>3. top.child # Null /\ Buf(s) = b
        BY <1>3, <3>2, NameAssumption DEF Buf
      <3> HIDE DEF b
      <3>4. Content(b) = EdgesOf(s)
        BY <1>3, <1>4, <2>6, <3>1, <3>3, BlockExact DEF b
      <3> QED  BY <1>3, <3>4
    <2> HIDE DEF r, b, m, s
    <2> QED  BY <1>1, <1>2, <1>3, <2>1, <2>2, <2>3, <2>4, <2>5, <2>6, ReadStep DEF m, s
  <1>5. CASE ~(s \in middle[m].bits /\ middle[m].buf[s] # Null)
    <2> DEFINE w == TRUE /\ {} \notin thread[t].seen
    <2>1. thread' = [thread EXCEPT ![t] = [Idle(thread[t].calls) EXCEPT !.wrong = w]]
      BY <1>5 DEF ReadMiddle, Answer
    <2>2. ASSUME ~overlap' PROVE ~w
      <3>1. Safe /\ Calm
        BY <2>2 DEF Watch, IInv
      <3>2. CASE {} \in thread[t].seen
        BY <3>2
      <3>3. CASE m = top.child
        <4>1. EdgesOf(s) = {}
          BY <1>3, <1>5, <3>1, <3>3, AbsentExact DEF Buf
        <4> QED  BY <1>3, <4>1
      <3> QED  BY <1>3, <2>2, <3>2, <3>3 DEF Watch
    <2>3. w \in BOOLEAN
      OBVIOUS
    <2> HIDE DEF w
    <2> QED  BY <1>1, <1>2, <2>1, <2>2, <2>3, AnswerStep
  <1> QED  BY <1>4, <1>5

(* What is known of a reader that has a block.                             *)
LEMMA ViewFacts ==
  ASSUME IInv, NEW t \in Threads, Viewing(t)
  PROVE  /\ thread[t].m \in Middles /\ thread[t].s \in Sources /\ thread[t].b \in Blocks
         /\ thread[t] \in ThreadType /\ thread[t].pc \in ReadPCs /\ ~Writing(t) /\ ~At(t, "dnull")
         /\ \A m \in Middles, s \in Sources :
              middle[m].buf[s] = thread[t].b => m = thread[t].m /\ s = thread[t].s
         /\ ~overlap => Told(t)
  <1>1. Bound(t) /\ Home(t) /\ thread[t] \in ThreadType /\ (~overlap => Told(t))
    BY DEF IInv, Safe, SafeThread, Calm, CalmThread
  <1> QED  BY <1>1 DEF Bound, Home, Viewing, Writing, At, ReadPCs, ViewPCs, WritePCs

(* The first timestamp, when nobody holds the buffer: nobody writes in the *)
(* block then.                                                             *)
LEMMA ReadStampStep ==
  ASSUME IInv, NEW t \in Threads, Watch, ReadStamp(t)
  PROVE  IInv'
  <1> DEFINE r == [thread[t] EXCEPT !.pc = "rhead", !.same = TRUE]
  <1>1. /\ UNCHANGED Shared /\ Viewing(t) /\ thread' = [thread EXCEPT ![t] = r] /\ At(t, "rstamp")
        /\ middle[thread[t].m].owner[thread[t].s] = Null
    BY DEF ReadStamp, Shared, Viewing, ViewPCs, At
  <1>2. /\ thread[t].m \in Middles /\ thread[t].s \in Sources /\ thread[t].b \in Blocks
        /\ thread[t] \in ThreadType /\ thread[t].pc \in ReadPCs /\ ~Writing(t) /\ ~At(t, "dnull")
        /\ \A m \in Middles, s \in Sources :
              middle[m].buf[s] = thread[t].b => m = thread[t].m /\ s = thread[t].s
        /\ ~overlap => Told(t)
    BY <1>1, ViewFacts
  <1>3. /\ r \in ThreadType /\ r.pc = "rhead" /\ r.m = thread[t].m /\ r.s = thread[t].s
        /\ r.b = thread[t].b /\ r.seen = thread[t].seen /\ r.wrong = thread[t].wrong
    BY <1>2 DEF ThreadType, ReadPCs, ViewPCs
  <1>4. ASSUME ~overlap PROVE ~Written(thread[t].b)
    <2>1. SUFFICES ASSUME NEW u \in Threads, Writing(u), thread[u].b = thread[t].b  PROVE FALSE
      BY DEF Written
    <2>2. OnPath(u) /\ Held(u) /\ Bound(u)
      BY <1>4 DEF IInv, Safe, SafeThread, Calm, CalmThread
    <2>3. thread[u].m \in Middles /\ thread[u].s \in Sources
      BY <2>1, <2>2 DEF Bound, Writing, WritePCs
    <2>4. middle[thread[u].m].buf[thread[u].s] = thread[t].b
      BY <2>1, <2>2 DEF OnPath
    <2>5. thread[u].m = thread[t].m /\ thread[u].s = thread[t].s
      BY <1>2, <2>3, <2>4
    <2>6. u = Null
      BY <1>1, <2>1, <2>2, <2>5 DEF Held
    <2> QED  BY <2>6, NameAssumption
  <1>5. ASSUME ~overlap PROVE Content(r.b) \in r.seen
    BY <1>1, <1>2, <1>3, <1>4, <1>5 DEF Told
  <1>6. "rhead" \in ReadPCs \ {"xread"} /\ "rhead" \in ViewPCs
    BY DEF ReadPCs, ViewPCs
  <1> HIDE DEF r
  <1> QED  BY <1>1, <1>2, <1>3, <1>4, <1>5, <1>6, ReadStep

(* The slots, or no neighbours when the block is empty.                    *)
LEMMA ReadHeadStep ==
  ASSUME IInv, NEW t \in Threads, Watch, ReadHead(t)
  PROVE  IInv'
  <1> DEFINE b == thread[t].b
  <1>1. /\ UNCHANGED Shared /\ Viewing(t) /\ At(t, "rhead")
    BY DEF ReadHead, Shared, Viewing, ViewPCs, At
  <1>2. /\ thread[t].m \in Middles /\ thread[t].s \in Sources /\ thread[t].b \in Blocks
        /\ thread[t] \in ThreadType /\ thread[t].pc \in ReadPCs /\ ~Writing(t) /\ ~At(t, "dnull")
        /\ \A m \in Middles, s \in Sources :
              middle[m].buf[s] = thread[t].b => m = thread[t].m /\ s = thread[t].s
        /\ ~overlap => Told(t)
    BY <1>1, ViewFacts
  <1>3. CASE block[b].head = {} /\ block[b].array = {}
    <2> DEFINE w == FALSE /\ {} \notin thread[t].seen
    <2>1. thread' = [thread EXCEPT ![t] = [Idle(thread[t].calls) EXCEPT !.wrong = w]]
      BY <1>3 DEF ReadHead, Answer
    <2>2. w \in BOOLEAN /\ ~w
      OBVIOUS
    <2> HIDE DEF w
    <2> QED  BY <1>1, <1>2, <2>1, <2>2, AnswerStep
  <1>4. CASE ~(block[b].head = {} /\ block[b].array = {})
    <2> DEFINE r == [thread[t] EXCEPT !.pc = "rarray", !.got = block[b].head]
    <2>1. block[b].head \in SUBSET (Dests \cup {Junk})
      BY <1>2 DEF IInv, Safe, TypeOK
    <2>2. /\ r \in ThreadType /\ r.pc = "rarray" /\ r.m = thread[t].m /\ r.s = thread[t].s
          /\ r.b = b /\ r.seen = thread[t].seen /\ r.wrong = thread[t].wrong
          /\ r.got = block[b].head /\ r.same = thread[t].same
      BY <1>2, <2>1 DEF ThreadType, ReadPCs, ViewPCs
    <2>3. thread' = [thread EXCEPT ![t] = r]
      BY <1>4 DEF ReadHead
    <2>4. "rarray" \in ReadPCs \ {"xread"} /\ "rarray" \in ViewPCs
      BY DEF ReadPCs, ViewPCs
    <2>5. ASSUME ~overlap PROVE /\ ~Written(b) => Content(b) \in thread[t].seen
                                /\ thread[t].same => ~Written(b)
      BY <1>1, <1>2, <2>5 DEF Told, At
    <2> HIDE DEF r
    <2> QED  BY <1>1, <1>2, <2>2, <2>3, <2>4, <2>5, ReadStep
  <1> QED  BY <1>3, <1>4

(* The edge array.                                                         *)
LEMMA ReadArrayStep ==
  ASSUME IInv, NEW t \in Threads, Watch, ReadArray(t)
  PROVE  IInv'
  <1> DEFINE b == thread[t].b
  <1> DEFINE r == [thread[t] EXCEPT !.pc = "rcheck", !.got = @ \cup block[b].array]
  <1>1. /\ UNCHANGED Shared /\ Viewing(t) /\ At(t, "rarray") /\ thread' = [thread EXCEPT ![t] = r]
    BY DEF ReadArray, Shared, Viewing, ViewPCs, At
  <1>2. /\ thread[t].m \in Middles /\ thread[t].s \in Sources /\ thread[t].b \in Blocks
        /\ thread[t] \in ThreadType /\ thread[t].pc \in ReadPCs /\ ~Writing(t) /\ ~At(t, "dnull")
        /\ \A m \in Middles, s \in Sources :
              middle[m].buf[s] = thread[t].b => m = thread[t].m /\ s = thread[t].s
        /\ ~overlap => Told(t)
    BY <1>1, ViewFacts
  <1>3. block[b].array \in SUBSET Dests
    BY <1>2 DEF IInv, Safe, TypeOK
  <1>4. /\ r \in ThreadType /\ r.pc = "rcheck" /\ r.m = thread[t].m /\ r.s = thread[t].s
        /\ r.b = b /\ r.seen = thread[t].seen /\ r.wrong = thread[t].wrong
        /\ r.got = thread[t].got \cup block[b].array /\ r.same = thread[t].same
    BY <1>2, <1>3 DEF ThreadType, ReadPCs, ViewPCs
  <1>5. "rcheck" \in ReadPCs \ {"xread"} /\ "rcheck" \in ViewPCs
    BY DEF ReadPCs, ViewPCs
  <1>6. ASSUME ~overlap PROVE /\ ~Written(b) => Content(b) \in thread[t].seen
                              /\ thread[t].same => ~Written(b) /\ r.got = Content(b)
    BY <1>1, <1>2, <1>4, <1>6 DEF Told, At, Content, Viewing
  <1> HIDE DEF r
  <1> QED  BY <1>1, <1>2, <1>4, <1>5, <1>6, ReadStep

(* The second timestamp: the answer, or another attempt.                   *)
LEMMA ReadCheckStep ==
  ASSUME IInv, NEW t \in Threads, Watch, ReadCheck(t)
  PROVE  IInv'
  <1>1. /\ UNCHANGED Shared /\ Viewing(t) /\ At(t, "rcheck")
    BY DEF ReadCheck, Shared, Viewing, ViewPCs, At
  <1>2. /\ thread[t].m \in Middles /\ thread[t].s \in Sources /\ thread[t].b \in Blocks
        /\ thread[t] \in ThreadType /\ thread[t].pc \in ReadPCs /\ ~Writing(t) /\ ~At(t, "dnull")
        /\ ~overlap => Told(t)
    BY <1>1, ViewFacts
  <1>3. CASE thread[t].same
    <2> DEFINE w == TRUE /\ thread[t].got \notin thread[t].seen
    <2>1. thread' = [thread EXCEPT ![t] = [Idle(thread[t].calls) EXCEPT !.wrong = w]]
      BY <1>3 DEF ReadCheck, Answer
    <2>2. ASSUME ~overlap' PROVE ~w
      <3>1. Told(t)
        BY <1>2, <2>2 DEF Watch
      <3> QED  BY <1>1, <1>3, <3>1 DEF Told, At
    <2>3. w \in BOOLEAN
      OBVIOUS
    <2> HIDE DEF w
    <2> QED  BY <1>1, <1>2, <2>1, <2>2, <2>3, AnswerStep
  <1>4. CASE ~thread[t].same
    <2> DEFINE again == [thread[t] EXCEPT !.pc = "rtop", !.left = @ + 1]
               alone == [thread[t] EXCEPT !.pc = "xtop"]
    <2>0. alone.pc = "xtop"
      BY <1>2 DEF ThreadType
    <2>1. PICK r : /\ thread' = [thread EXCEPT ![t] = r] /\ r \in {again, alone}
                   /\ r.pc = "rtop" => thread[t].left < Threshold
      <3>1. CASE thread[t].left < Threshold
        BY <1>4, <3>1 DEF ReadCheck
      <3>2. CASE ~(thread[t].left < Threshold)
        <4>1. thread' = [thread EXCEPT ![t] = alone]
          BY <1>4, <3>2 DEF ReadCheck, Go
        <4> HIDE DEF alone
        <4> QED  BY <4>1, <2>0
      <3> QED  BY <3>1, <3>2
    <2>2. /\ r.pc \in {"rtop", "xtop"} /\ r.s = thread[t].s /\ r.seen = thread[t].seen
          /\ r.wrong = thread[t].wrong /\ r \in ThreadType
      <3>1. /\ Threshold \in Nat /\ thread[t].left \in 0..Threshold
        BY <1>2, SizeAssumption DEF ThreadType
      <3>2. thread[t].left < Threshold => thread[t].left + 1 \in 0..Threshold
        BY <3>1
      <3>3. /\ alone.pc = "xtop" /\ alone.s = thread[t].s /\ alone.seen = thread[t].seen
            /\ alone.wrong = thread[t].wrong /\ alone \in ThreadType
        BY <1>2 DEF ThreadType, ReadPCs
      <3>4. /\ again.pc = "rtop" /\ again.s = thread[t].s /\ again.seen = thread[t].seen
            /\ again.wrong = thread[t].wrong
        BY <1>2 DEF ThreadType
      <3>5. thread[t].left < Threshold => again \in ThreadType
        BY <1>2, <3>2 DEF ThreadType, ReadPCs
      <3> HIDE DEF again, alone
      <3> QED  BY <2>1, <3>3, <3>4, <3>5
    <2>3. r.pc \in ReadPCs \ {"xread"} /\ r.pc \notin ViewPCs
          /\ r.pc \notin {"rmiddle", "xmiddle", "rhead", "rarray", "rcheck"}
      BY <2>2 DEF ReadPCs, ViewPCs
    <2> QED  BY <1>1, <1>2, <2>1, <2>2, <2>3, ReadStep
  <1> QED  BY <1>3, <1>4

-----------------------------------------------------------------------------
(* Steps that change the owner of a buffer, or an obsolete flag.           *)

\* Only the owner of the buffer of s in m changes: it is o.
OwnerSet(m, s, o) ==
    /\ \A n \in Middles : middle'[n].bits = middle[n].bits /\ middle'[n].buf = middle[n].buf
    /\ \A n \in Middles, v \in Sources :
         middle'[n].owner[v] = IF n = m /\ v = s THEN o ELSE middle[n].owner[v]

(* The fields of the middle blocks when the owner of one buffer changes.   *)
LEMMA OwnerIs ==
  ASSUME TypeOK, NEW m \in Middles, NEW s \in Sources, NEW o \in Threads \cup {Null, Leaked},
         middle' = [middle EXCEPT ![m].owner[s] = o]
  PROVE  middle' \in [Middles -> MiddleType] /\ OwnerSet(m, s, o)
  <1>1. middle \in [Middles -> MiddleType]
    BY DEF TypeOK, MiddleType
  <1>2. PICK r : r = [middle[m] EXCEPT !.owner[s] = o]
    OBVIOUS
  <1>3. /\ r \in MiddleType /\ r.bits = middle[m].bits /\ r.buf = middle[m].buf
        /\ \A v \in Sources : r.owner[v] = IF v = s THEN o ELSE middle[m].owner[v]
    BY <1>1, <1>2 DEF MiddleType
  <1>4. middle' = [middle EXCEPT ![m] = r]
    BY <1>1, <1>2
  <1>5. /\ middle' \in [Middles -> MiddleType] /\ middle'[m] = r
        /\ \A n \in Middles : n # m => middle'[n] = middle[n]
    BY <1>1, <1>3, <1>4
  <1> QED  BY <1>3, <1>5 DEF OwnerSet

(* An owner that was nobody, or thread t, takes nothing from the others.   *)
LEMMA OwnerKeeps ==
  ASSUME IInv, NEW t \in Threads, NEW m \in Middles, NEW s \in Sources,
         NEW o \in Threads \cup {Null, Leaked},
         middle' = [middle EXCEPT ![m].owner[s] = o], middle[m].owner[s] \in {Null, t},
         \A u \in Threads : u # t => /\ thread'[u].pc = thread[u].pc /\ thread'[u].m = thread[u].m
                                     /\ thread'[u].s = thread[u].s
  PROVE  \A u \in Threads : u # t /\ Held(u) => Held(u)'
  <1>1. SUFFICES ASSUME NEW u \in Threads, u # t, Held(u), Writing(u) \/ At(u, "xread")
                 PROVE  middle'[thread[u].m].owner[thread[u].s] = u
    BY DEF Held, Writing, At
  <1>2. thread[u].m \in Middles /\ thread[u].s \in Sources
    <2>1. Bound(u)
      BY DEF IInv, Safe, SafeThread
    <2> QED  BY <1>1, <2>1 DEF Bound, Writing, At, WritePCs
  <1>3. middle[thread[u].m].owner[thread[u].s] = u
    BY <1>1 DEF Held
  <1>4. ~(thread[u].m = m /\ thread[u].s = s)
    BY <1>1, <1>3, NameAssumption
  <1> QED  BY <1>2, <1>3, <1>4, OwnerIs DEF IInv, Safe, OwnerSet

(* get_neighbours_exclusively locks the buffer.                            *)
LEMMA ReadLockStep ==
  ASSUME IInv, NEW t \in Threads, Watch, ReadLock(t)
  PROVE  IInv'
  <1> DEFINE m == thread[t].m  s == thread[t].s
  <1>1. /\ UNCHANGED <<top, block, edges>> /\ Viewing(t) /\ At(t, "xlock") /\ Go(t, "xread")
        /\ middle[m].owner[s] = Null /\ middle' = [middle EXCEPT ![m].owner[s] = t]
    BY DEF ReadLock, Viewing, ViewPCs, At
  <1>2. /\ thread[t].m \in Middles /\ thread[t].s \in Sources /\ thread[t].b \in Blocks
        /\ thread[t] \in ThreadType /\ thread[t].pc \in ReadPCs /\ ~Writing(t) /\ ~At(t, "dnull")
        /\ \A n \in Middles, v \in Sources :
              middle[n].buf[v] = thread[t].b => n = m /\ v = s
        /\ ~overlap => Told(t)
    BY <1>1, ViewFacts
  <1>3. TypeOK /\ thread \in [Threads -> ThreadType]
    BY DEF IInv, Safe
  <1>4. /\ middle' \in [Middles -> MiddleType]
        /\ \A n \in Middles : middle'[n].bits = middle[n].bits /\ middle'[n].buf = middle[n].buf
        /\ middle'[m].owner[s] = t
    <2>1. t \in Threads \cup {Null, Leaked} /\ m \in Middles /\ s \in Sources
      BY <1>2
    <2> HIDE DEF m, s
    <2>2. middle' \in [Middles -> MiddleType] /\ OwnerSet(m, s, t)
      BY <1>1, <1>3, <2>1, OwnerIs
    <2> QED  BY <2>1, <2>2 DEF OwnerSet
  <1>5. /\ thread'[t].pc = "xread" /\ thread'[t].m = m /\ thread'[t].s = s
        /\ thread'[t].b = thread[t].b /\ thread'[t].seen = thread[t].seen
        /\ thread'[t].wrong = thread[t].wrong
        /\ thread' \in [Threads -> ThreadType] /\ Alone(t)
    BY <1>1, <1>2, <1>3 DEF Go, ThreadType, Alone, ReadPCs, ViewPCs
  <1>6. \A u \in Threads : u # t /\ Held(u) => Held(u)'
    <2> HIDE DEF m, s
    <2> QED  BY <1>1, <1>2, <1>5, OwnerKeeps DEF Alone, m, s
  <1>7. TypeOK'
    <2>1. overlap' \in BOOLEAN
      BY <1>3 DEF Watch, TypeOK, Inserting, Retiring
    <2>2. \A u \in Threads : thread'[u].calls \in 0..MaxCalls /\ thread'[u].left \in 0..Threshold
      BY <1>5 DEF ThreadType
    <2> QED  BY <1>1, <1>3, <1>4, <2>1, <2>2 DEF TypeOK, Capacity, MiddleType
  <1>8. SameTree
    BY <1>1, <1>4 DEF SameTree
  <1>9. ~Writing(t)' /\ SafeThread(t)'
    <2>1. Bound(t) /\ Seen(t)
      BY DEF IInv, Safe, SafeThread
    <2>2. ~Writing(t)' /\ Bound(t)'
      BY <1>2, <1>5 DEF Bound, Writing, Viewing, At, WritePCs, ReadPCs, ViewPCs, InsertPCs, DeletePCs
    <2>3. Held(t)' /\ Home(t)' /\ Filling(t)'
      BY <1>2, <1>4, <1>5 DEF Held, Home, Filling, At
    <2>4. Seen(t)'
      BY <1>1, <1>2, <1>5, <2>1 DEF Seen, EdgesOf
    <2> QED  BY <2>2, <2>3, <2>4 DEF SafeThread
  <1>10. ASSUME ~overlap' PROVE CalmThread(t)'
    <2>1. Told(t)
      BY <1>2, <1>10 DEF Watch
    <2>2. \A b : Written(b)' <=> Written(b)
      BY <1>2, <1>5, <1>9 DEF Written, Writing, Alone
    <2>3. OnPath(t)' /\ OffPath(t)'
      BY <1>5, <1>9 DEF OnPath, OffPath, Inserting, At, RetirePCs
    <2>4. Told(t)'
      BY <1>1, <1>5, <2>1, <2>2 DEF Told, Viewing, ViewPCs, At, Content
    <2> QED  BY <2>3, <2>4 DEF CalmThread
  <1> QED  BY <1>2, <1>5, <1>6, <1>7, <1>8, <1>9, <1>10, LocalStep

(* The answer of get_neighbours_exclusively: nobody else is in the block.  *)
LEMMA ReadExclusiveStep ==
  ASSUME IInv, NEW t \in Threads, Watch, ReadExclusive(t)
  PROVE  IInv'
  <1> DEFINE m == thread[t].m  s == thread[t].s  b == thread[t].b
             o == IF Content(b) = {} THEN Leaked ELSE Null
  <1>1. /\ UNCHANGED <<top, block, edges>> /\ Viewing(t) /\ At(t, "xread")
        /\ middle' = [middle EXCEPT ![m].owner[s] = o]
    BY DEF ReadExclusive, Viewing, ViewPCs, At
  <1>2. /\ m \in Middles /\ s \in Sources /\ b \in Blocks
        /\ thread[t] \in ThreadType /\ ~Writing(t) /\ ~At(t, "dnull")
        /\ \A n \in Middles, v \in Sources : middle[n].buf[v] = b => n = m /\ v = s
        /\ ~overlap => Told(t)
    BY <1>1, ViewFacts
  <1>3. TypeOK /\ thread \in [Threads -> ThreadType] /\ middle[m].owner[s] = t
    BY <1>1 DEF IInv, Safe, SafeThread, Held
  <1>c. thread[t].calls \in 0..MaxCalls
    BY DEF IInv, Safe, TypeOK
  <1>w. PICK w \in BOOLEAN : /\ w <=> Content(b) \notin thread[t].seen
                             /\ thread' = [thread EXCEPT ![t] = [Idle(thread[t].calls) EXCEPT !.wrong = w]]
    <2> DEFINE v == TRUE /\ Content(b) \notin thread[t].seen
    <2>1. thread' = [thread EXCEPT ![t] = [Idle(thread[t].calls) EXCEPT !.wrong = v]]
      BY DEF ReadExclusive, Answer
    <2> QED  BY <2>1
  <1> DEFINE r == [Idle(thread[t].calls) EXCEPT !.wrong = w]
  <1>4. /\ r \in ThreadType /\ r.pc = "idle" /\ r.same = FALSE /\ r.wrong = w /\ r.seen = {}
        /\ thread' = [thread EXCEPT ![t] = r]
    BY <1>c, <1>w, IdleRecord
  <1>o. o \in Threads \cup {Null, Leaked}
    OBVIOUS
  <1> HIDE DEF r, o
  <1>5. /\ thread' \in [Threads -> ThreadType] /\ Alone(t) /\ thread'[t] = r
    BY <1>3, <1>4 DEF Alone
  <1>6. /\ middle' \in [Middles -> MiddleType]
        /\ \A n \in Middles : middle'[n].bits = middle[n].bits /\ middle'[n].buf = middle[n].buf
    <2> HIDE DEF m, s
    <2>2. middle' \in [Middles -> MiddleType] /\ OwnerSet(m, s, o)
      BY <1>1, <1>2, <1>3, <1>o, OwnerIs
    <2> QED  BY <2>2 DEF OwnerSet
  <1>7. \A u \in Threads : u # t /\ Held(u) => Held(u)'
    <2> HIDE DEF m, s
    <2> QED  BY <1>1, <1>2, <1>3, <1>5, <1>o, OwnerKeeps DEF Alone
  <1>8. TypeOK'
    <2>1. overlap' \in BOOLEAN
      BY <1>3 DEF Watch, TypeOK, Inserting, Retiring
    <2>2. \A u \in Threads : thread'[u].calls \in 0..MaxCalls /\ thread'[u].left \in 0..Threshold
      BY <1>5 DEF ThreadType
    <2> QED  BY <1>1, <1>3, <1>6, <2>1, <2>2 DEF TypeOK, Capacity, MiddleType
  <1>9. ASSUME ~overlap' PROVE ~w
    <2>1. Told(t) /\ ~overlap
      BY <1>2, <1>9 DEF Watch
    <2>2. ~Written(b)
      <3>1. SUFFICES ASSUME NEW u \in Threads, Writing(u), thread[u].b = b  PROVE FALSE
        BY DEF Written
      <3>2. OnPath(u) /\ Held(u) /\ Bound(u)
        BY <2>1 DEF IInv, Safe, SafeThread, Calm, CalmThread
      <3>3. thread[u].m \in Middles /\ thread[u].s \in Sources
        BY <3>1, <3>2 DEF Bound, Writing, WritePCs
      <3>4. thread[u].m = m /\ thread[u].s = s
        BY <1>2, <3>1, <3>2, <3>3 DEF OnPath
      <3>5. u = t
        BY <1>3, <3>1, <3>2, <3>4 DEF Held
      <3> QED  BY <1>2, <3>1, <3>5
    <2> QED  BY <1>1, <1>w, <2>1, <2>2 DEF Told
  <1>10. SameTree
    BY <1>1, <1>6 DEF SameTree
  <1> QED  BY <1>2, <1>4, <1>5, <1>7, <1>8, <1>9, <1>10, EndStep

(* What is known of a deletion that retires a block.                       *)
LEMMA RetireFacts ==
  ASSUME IInv, NEW t \in Threads, Retiring(t)
  PROVE  /\ thread[t].m \in Middles /\ thread[t].s \in Sources /\ thread[t] \in ThreadType
         /\ thread[t].seen = {} /\ ~Writing(t) /\ thread[t].calls \in 0..MaxCalls
         /\ ~overlap => /\ \A u \in Threads : ~Inserting(u)
                        /\ OffPath(t) /\ ~thread[t].wrong
  <1>1. /\ Bound(t) /\ thread[t] \in ThreadType /\ (~overlap => OffPath(t) /\ Told(t) /\ Quiet)
        /\ TypeOK
    BY DEF IInv, Safe, SafeThread, Calm, CalmThread
  <1>2. thread[t].calls \in 0..MaxCalls
    BY <1>1 DEF TypeOK
  <1> QED  BY <1>1, <1>2 DEF Bound, Told, Quiet, Retiring, Writing, ReadPCs, ViewPCs, WritePCs

(* The flag of the range, and the return.                                  *)
LEMMA DeleteTopCheckStep ==
  ASSUME IInv, NEW t \in Threads, Watch, DeleteTopCheck(t)
  PROVE  IInv'
  <1> DEFINE r == Idle(thread[t].calls)
  <1>1. /\ UNCHANGED <<middle, block, edges>> /\ At(t, "dtopcheck") /\ Retiring(t)
        /\ top' = [top EXCEPT !.obsolete = @ \/ ~(top.bit \/ top.others)]
        /\ thread' = [thread EXCEPT ![t] = r]
    BY DEF DeleteTopCheck, At, Retiring, Return
  <1>2. /\ thread[t].calls \in 0..MaxCalls /\ ~Writing(t) /\ ~At(t, "dnull")
        /\ TypeOK /\ thread \in [Threads -> ThreadType]
    BY <1>1, RetireFacts DEF IInv, Safe, At
  <1>3. r \in ThreadType /\ r.pc = "idle" /\ r.same = FALSE /\ r.wrong = FALSE /\ r.seen = {}
    BY <1>2, IdleRecord
  <1> HIDE DEF r
  <1>4. /\ thread' \in [Threads -> ThreadType] /\ Alone(t) /\ thread'[t] = r
    BY <1>1, <1>2, <1>3 DEF Alone
  <1>5. /\ top' \in [bit : BOOLEAN, child : Middles \cup {Null}, others : BOOLEAN, obsolete : BOOLEAN]
        /\ top'.bit = top.bit /\ top'.child = top.child
    BY <1>1, <1>2 DEF TypeOK
  <1>6. TypeOK'
    <2>1. overlap' \in BOOLEAN
      BY <1>2 DEF Watch, TypeOK, Inserting, Retiring
    <2>2. \A u \in Threads : thread'[u].calls \in 0..MaxCalls /\ thread'[u].left \in 0..Threshold
      BY <1>4 DEF ThreadType
    <2> QED  BY <1>1, <1>2, <1>5, <2>1, <2>2 DEF TypeOK, Capacity, MiddleType
  <1>7. SameTree /\ \A u \in Threads : u # t /\ Held(u) => Held(u)'
    BY <1>1, <1>4, <1>5 DEF SameTree, Held, Alone, Writing, At
  <1> QED  BY <1>2, <1>3, <1>4, <1>6, <1>7, EndStep

(* The fields of the middle blocks when one becomes obsolete.              *)
LEMMA ObsoleteIs ==
  ASSUME TypeOK, NEW m \in Middles, middle' = [middle EXCEPT ![m].obsolete = TRUE]
  PROVE  /\ middle' \in [Middles -> MiddleType]
         /\ \A n \in Middles : /\ middle'[n].bits = middle[n].bits
                               /\ middle'[n].buf = middle[n].buf
                               /\ middle'[n].owner = middle[n].owner
  <1>1. middle \in [Middles -> MiddleType]
    BY DEF TypeOK, MiddleType
  <1> QED  BY <1>1 DEF MiddleType

(* An empty middle block becomes obsolete.                                 *)
LEMMA DeleteSweepStep ==
  ASSUME IInv, NEW t \in Threads, Watch, DeleteSweep(t)
  PROVE  IInv'
  <1> DEFINE m == thread[t].m
  <1>1. /\ UNCHANGED <<top, block, edges>> /\ At(t, "dsweep") /\ Retiring(t)
    BY DEF DeleteSweep, At, Retiring
  <1>2. /\ m \in Middles /\ thread[t].s \in Sources /\ thread[t] \in ThreadType
        /\ thread[t].seen = {} /\ ~Writing(t) /\ ~At(t, "dnull")
        /\ ~overlap => OffPath(t) /\ ~thread[t].wrong
        /\ TypeOK /\ thread \in [Threads -> ThreadType]
    BY <1>1, RetireFacts DEF IInv, Safe, At
  <1>3. CASE middle[m].bits # {}
    <2>1. UNCHANGED Shared /\ Return(t)
      BY <1>1, <1>3 DEF DeleteSweep, Shared
    <2> QED  BY <1>2, <2>1, ReturnStep
  <1>4. CASE middle[m].bits = {}
    <2>1. middle' = [middle EXCEPT ![m].obsolete = TRUE] /\ Go(t, "droot")
      BY <1>4 DEF DeleteSweep
    <2>2. /\ middle' \in [Middles -> MiddleType]
          /\ \A n \in Middles : /\ middle'[n].bits = middle[n].bits
                                /\ middle'[n].buf = middle[n].buf
                                /\ middle'[n].owner = middle[n].owner
      <3> HIDE DEF m
      <3> QED  BY <1>2, <2>1, ObsoleteIs
    <2>3. /\ thread'[t].pc = "droot" /\ thread'[t].m = m /\ thread'[t].s = thread[t].s
          /\ thread'[t].seen = {} /\ thread'[t].wrong = thread[t].wrong
          /\ thread' \in [Threads -> ThreadType] /\ Alone(t)
      BY <1>2, <2>1 DEF Go, ThreadType, Alone, RetirePCs
    <2>4. \A u \in Threads : u # t /\ Held(u) => Held(u)'
      <3>1. ASSUME NEW u \in Threads, u # t, Writing(u) \/ At(u, "xread")
            PROVE  thread[u].m \in Middles
        BY <3>1 DEF IInv, Safe, SafeThread, Bound, Writing, At, WritePCs
      <3> QED  BY <2>2, <2>3, <3>1 DEF Held, Alone, Writing, At
    <2>5. TypeOK'
      <3>1. overlap' \in BOOLEAN
        BY <1>2 DEF Watch, TypeOK, Inserting, Retiring
      <3>2. \A u \in Threads : thread'[u].calls \in 0..MaxCalls /\ thread'[u].left \in 0..Threshold
        BY <2>3 DEF ThreadType
      <3> QED  BY <1>1, <1>2, <2>2, <3>1, <3>2 DEF TypeOK, Capacity, MiddleType
    <2>6. SameTree
      BY <1>1, <2>2 DEF SameTree
    <2>7. SafeThread(t)' /\ ~Writing(t)'
      BY <1>2, <2>3 DEF SafeThread, Bound, Held, Home, Filling, Seen, Writing, Viewing, At,
           InsertPCs, DeletePCs, ReadPCs, ViewPCs, WritePCs
    <2>8. ASSUME ~overlap' PROVE CalmThread(t)'
      <3>1. OffPath(t) /\ ~thread[t].wrong
        BY <1>2, <2>8 DEF Watch
      <3>2. top.child \in {m, Null}
        BY <1>1, <3>1 DEF OffPath, At, RetirePCs
      <3>3. OffPath(t)'
        BY <1>1, <1>2, <1>4, <2>2, <2>3, <3>2 DEF OffPath, At
      <3> QED  BY <2>3, <2>7, <3>1, <3>3 DEF CalmThread, OnPath, Told, Inserting, Viewing, ViewPCs, At
    <2> QED  BY <1>2, <2>3, <2>4, <2>5, <2>6, <2>7, <2>8, LocalStep
  <1> QED  BY <1>3, <1>4

-----------------------------------------------------------------------------
(* What a step of one thread leaves of the others.                         *)

\* Another thread is where it was, in the same call.
Stays(u) ==
    /\ thread'[u].pc = thread[u].pc /\ thread'[u].s = thread[u].s /\ thread'[u].d = thread[u].d
    /\ thread'[u].m = thread[u].m /\ thread'[u].b = thread[u].b /\ thread'[u].got = thread[u].got

(* The half that always holds, of a thread that stays.                     *)
LEMMA StaysSafe ==
  ASSUME NEW u \in Threads, SafeThread(u), Stays(u), Held(u) => Held(u)',
         Writing(u) \/ Viewing(u) => \A m \in Middles, s \in Sources :
            middle'[m].buf[s] = thread[u].b => middle[m].buf[s] = thread[u].b,
         thread[u].pc \in {"fill", "chain"} =>
            /\ block'[thread[u].b].head = block[thread[u].b].head
            /\ block'[thread[u].b].five = block[thread[u].b].five,
         thread[u].pc \notin ReadPCs => thread'[u].seen = {},
         thread[u].pc \in ReadPCs => EdgesOf(thread[u].s)' \in thread'[u].seen
  PROVE  SafeThread(u)'
  <1>1. Bound(u)' /\ Home(u)'
    BY DEF Stays, SafeThread, Bound, Home, Writing, Viewing, At
  <1>2. Filling(u)'
    BY DEF Stays, SafeThread, Filling, At
  <1>3. Seen(u)'
    BY DEF Stays, Seen, EdgesOf
  <1>4. Held(u)'
    BY DEF SafeThread
  <1> QED  BY <1>1, <1>2, <1>3, <1>4 DEF SafeThread

(* The types, when the blocks and the graph do not change.                 *)
LEMMA TypedTree ==
  ASSUME TypeOK, Watch, block' = block, edges' = edges,
         thread' \in [Threads -> ThreadType],
         top' \in [bit : BOOLEAN, child : Middles \cup {Null}, others : BOOLEAN, obsolete : BOOLEAN],
         middle' \in [Middles -> MiddleType]
  PROVE  TypeOK'
  <1>1. overlap' \in BOOLEAN
    BY DEF Watch, TypeOK, Inserting, Retiring
  <1>2. \A u \in Threads : thread'[u].calls \in 0..MaxCalls /\ thread'[u].left \in 0..Threshold
    BY DEF ThreadType
  <1> QED  BY <1>1, <1>2 DEF TypeOK, Capacity, MiddleType

(* The buffers stay where they are.                                        *)
LEMMA SamePlace ==
  ASSUME OnePlace, \A n \in Middles : middle'[n].buf = middle[n].buf
  PROVE  OnePlace'
  BY DEF OnePlace

(* The same when nobody's neighbours change.                               *)
LEMMA SeenKeeps ==
  ASSUME NEW u \in Threads, SafeThread(u), Stays(u), edges' = edges,
         thread'[u].seen = thread[u].seen
  PROVE  /\ thread[u].pc \notin ReadPCs => thread'[u].seen = {}
         /\ thread[u].pc \in ReadPCs => EdgesOf(thread[u].s)' \in thread'[u].seen
  BY DEF SafeThread, Bound, Seen, EdgesOf, Stays

(* What is known of a thread inside a block.                               *)
LEMMA WriteFacts ==
  ASSUME IInv, NEW t \in Threads, Writing(t)
  PROVE  /\ thread[t].m \in Middles /\ thread[t].s \in Sources /\ thread[t].d \in Dests
         /\ thread[t].b \in Blocks /\ thread[t] \in ThreadType /\ thread[t].seen = {}
         /\ thread[t].calls \in 0..MaxCalls /\ ~At(t, "dnull")
         /\ middle[thread[t].m].owner[thread[t].s] = t
         /\ \A u \in Threads : u # t /\ Writing(u) => thread[u].b # thread[t].b
         /\ \A m \in Middles, s \in Sources :
              middle[m].buf[s] = thread[t].b => m = thread[t].m /\ s = thread[t].s
         /\ ~overlap => OnPath(t) /\ ~thread[t].wrong
  <1>1. /\ SafeThread(t) /\ TypeOK /\ thread \in [Threads -> ThreadType] /\ BlockExclusive
        /\ ~overlap => OnPath(t) /\ Told(t)
    BY DEF IInv, Safe, Calm, CalmThread
  <1>2. /\ thread[t].pc \in WritePCs
        /\ WritePCs = {"apply", "fill", "chain", "dapply"}
    BY DEF Writing, WritePCs
  <1>3. /\ thread[t].m \in Middles /\ thread[t].s \in Sources /\ thread[t].d \in Dests
        /\ thread[t].b \in Blocks /\ thread[t].seen = {}
    BY <1>1, <1>2 DEF SafeThread, Bound, Writing, InsertPCs, DeletePCs, ReadPCs, ViewPCs
  <1>4. \A u \in Threads : u # t /\ Writing(u) => thread[u].b # thread[t].b
    BY <1>1, <1>2 DEF BlockExclusive, Writing, WritePCs
  <1>5. /\ middle[thread[t].m].owner[thread[t].s] = t
        /\ \A m \in Middles, s \in Sources :
              middle[m].buf[s] = thread[t].b => m = thread[t].m /\ s = thread[t].s
    BY <1>1 DEF SafeThread, Held, Home
  <1> QED  BY <1>1, <1>2, <1>3, <1>4, <1>5 DEF TypeOK, Told, At

-----------------------------------------------------------------------------
(* The lock of a buffer.                                                   *)

(* The variables of a reader whose timestamp is changed.                   *)
LEMMA SameRecord ==
  ASSUME NEW r \in ThreadType, NEW x \in BOOLEAN
  PROVE  /\ [r EXCEPT !.same = x] \in ThreadType
         /\ [r EXCEPT !.same = x].pc = r.pc /\ [r EXCEPT !.same = x].s = r.s
         /\ [r EXCEPT !.same = x].d = r.d /\ [r EXCEPT !.same = x].m = r.m
         /\ [r EXCEPT !.same = x].b = r.b /\ [r EXCEPT !.same = x].got = r.got
         /\ [r EXCEPT !.same = x].seen = r.seen /\ [r EXCEPT !.same = x].wrong = r.wrong
         /\ [r EXCEPT !.same = x].same = x
  BY DEF ThreadType

(* timestamp += 1.                                                         *)
LEMMA StampedIs ==
  ASSUME thread \in [Threads -> ThreadType], NEW b
  PROVE  /\ Stamped(b) \in [Threads -> ThreadType]
         /\ \A u \in Threads : /\ Stamped(b)[u].pc = thread[u].pc /\ Stamped(b)[u].s = thread[u].s
                               /\ Stamped(b)[u].d = thread[u].d /\ Stamped(b)[u].m = thread[u].m
                               /\ Stamped(b)[u].b = thread[u].b /\ Stamped(b)[u].got = thread[u].got
                               /\ Stamped(b)[u].seen = thread[u].seen
                               /\ Stamped(b)[u].wrong = thread[u].wrong
                               /\ Stamped(b)[u].same <=> (thread[u].same /\ thread[u].b # b)
  <1>1. ASSUME NEW u \in Threads
        PROVE  \E x \in BOOLEAN : /\ x <=> (thread[u].same /\ thread[u].b # b)
                                  /\ Stamped(b)[u] = [thread[u] EXCEPT !.same = x]
    <2> DEFINE x == thread[u].same /\ thread[u].b # b
    <2>1. Stamped(b)[u] = [thread[u] EXCEPT !.same = x]
      BY DEF Stamped
    <2> QED  BY <2>1
  <1>2. ASSUME NEW u \in Threads
        PROVE  /\ Stamped(b)[u] \in ThreadType
               /\ Stamped(b)[u].pc = thread[u].pc /\ Stamped(b)[u].s = thread[u].s
               /\ Stamped(b)[u].d = thread[u].d /\ Stamped(b)[u].m = thread[u].m
               /\ Stamped(b)[u].b = thread[u].b /\ Stamped(b)[u].got = thread[u].got
               /\ Stamped(b)[u].seen = thread[u].seen
               /\ Stamped(b)[u].wrong = thread[u].wrong
               /\ Stamped(b)[u].same <=> (thread[u].same /\ thread[u].b # b)
    <2>1. PICK x \in BOOLEAN : /\ x <=> (thread[u].same /\ thread[u].b # b)
                               /\ Stamped(b)[u] = [thread[u] EXCEPT !.same = x]
      BY <1>1
    <2>2. thread[u] \in ThreadType
      OBVIOUS
    <2> QED  BY <2>1, <2>2, SameRecord
  <1>3. Stamped(b) \in [Threads -> ThreadType]
    <2>1. Stamped(b) = [u \in Threads |-> Stamped(b)[u]]
      BY DEF Stamped
    <2> QED  BY <1>2, <2>1
  <1> QED  BY <1>2, <1>3

(* A writer that takes a buffer whose block is not obsolete is on the      *)
(* search path.                                                            *)
LEMMA LiveOnPath ==
  ASSUME Safe, Calm, NEW m \in Middles, NEW s \in Sources,
         middle[m].buf[s] # Null, ~block[middle[m].buf[s]].obsolete
  PROVE  m = top.child /\ s \in middle[m].bits
  <1>1. m = top.child
    BY DEF Calm, Path, Detached, Retired
  <1>2. SUFFICES ASSUME s \notin middle[m].bits PROVE FALSE
    BY <1>1
  <1>3. PICK u \in Threads : At(u, "dnull") /\ thread[u].m = m /\ thread[u].s = s
    BY <1>2 DEF Calm, Path, Buffered
  <1> QED  BY <1>3 DEF Calm, CalmThread, OffPath, Retired, At

(* The buffer is locked, and its block not obsolete.                       *)
LEMMA AcquireStep ==
  ASSUME IInv, NEW t \in Threads, Watch, NEW next, NEW retry,
         <<thread[t].pc, retry, next>> \in {<<"acquire", "bottom", "apply">>, <<"dacquire", "dbottom", "dapply">>},
         Acquire(t, retry, next),
         middle[thread[t].m].buf[thread[t].s] # Null,
         ~block[middle[thread[t].m].buf[thread[t].s]].obsolete
  PROVE  IInv'
  <1> DEFINE m == thread[t].m  s == thread[t].s  b == middle[m].buf[s]
  <1>1. /\ top' = top /\ block' = block /\ edges' = edges /\ middle[m].owner[s] = Null
        /\ middle' = [middle EXCEPT ![m].owner[s] = t]
        /\ thread' = [Stamped(b) EXCEPT ![t].pc = next, ![t].b = b]
    BY DEF Acquire
  <1>2. /\ Safe /\ TypeOK /\ thread \in [Threads -> ThreadType] /\ SafeThread(t)
    BY DEF IInv, Safe
  <1>3. /\ m \in Middles /\ s \in Sources /\ b \in Blocks /\ thread[t].d \in Dests
        /\ thread[t].seen = {} /\ next \in {"apply", "dapply"}
        /\ ~Writing(t) /\ ~Viewing(t) /\ ~At(t, "fill") /\ ~At(t, "dnull") /\ ~At(t, "chain")
    <2>1. m \in Middles /\ s \in Sources /\ thread[t].d \in Dests /\ thread[t].seen = {}
      BY <1>2 DEF SafeThread, Bound, InsertPCs, DeletePCs, ReadPCs, ViewPCs
    <2> QED  BY <1>2, <2>1 DEF TypeOK, Writing, Viewing, At, WritePCs, ViewPCs
  <1> HIDE DEF b
  <1>4. /\ Stamped(b) \in [Threads -> ThreadType]
        /\ \A u \in Threads : /\ Stamped(b)[u].pc = thread[u].pc /\ Stamped(b)[u].s = thread[u].s
                              /\ Stamped(b)[u].d = thread[u].d /\ Stamped(b)[u].m = thread[u].m
                              /\ Stamped(b)[u].b = thread[u].b /\ Stamped(b)[u].got = thread[u].got
                              /\ Stamped(b)[u].seen = thread[u].seen
                              /\ Stamped(b)[u].wrong = thread[u].wrong
                              /\ Stamped(b)[u].same <=> (thread[u].same /\ thread[u].b # b)
    BY <1>2, StampedIs
  <1>5. /\ thread' \in [Threads -> ThreadType]
        /\ thread'[t].pc = next /\ thread'[t].b = b /\ thread'[t].m = m /\ thread'[t].s = s
        /\ thread'[t].d = thread[t].d /\ thread'[t].seen = {} /\ thread'[t].wrong = thread[t].wrong
        /\ \A u \in Threads : u # t => thread'[u] = Stamped(b)[u]
    <2>1. Stamped(b)[t] \in ThreadType
      BY <1>4
    <2>2. PICK x \in ThreadType : x = Stamped(b)[t]
      BY <2>1
    <2>3. PICK r : r = [x EXCEPT !.pc = next, !.b = b]
      OBVIOUS
    <2>4. next \in InsertPCs \cup DeletePCs
      BY <1>3 DEF InsertPCs, DeletePCs
    <2>5. /\ r \in ThreadType /\ r.pc = next /\ r.b = b /\ r.m = x.m /\ r.s = x.s
          /\ r.d = x.d /\ r.seen = x.seen /\ r.wrong = x.wrong
      BY <1>3, <2>3, <2>4 DEF ThreadType
    <2>6. thread' = [Stamped(b) EXCEPT ![t] = r]
      BY <1>1, <2>2, <2>3
    <2>7. thread' \in [Threads -> ThreadType] /\ thread'[t] = r
          /\ \A u \in Threads : u # t => thread'[u] = Stamped(b)[u]
      BY <1>4, <2>5, <2>6
    <2> QED  BY <1>3, <1>4, <2>2, <2>5, <2>7
  <1>6. /\ \A u \in Threads : u # t =>
             /\ Stays(u) /\ thread'[u].seen = thread[u].seen /\ thread'[u].wrong = thread[u].wrong
             /\ thread'[u].same <=> (thread[u].same /\ thread[u].b # b)
    BY <1>4, <1>5 DEF Stays
  <1>t. TypeOK'
    <2>1. t \in Threads \cup {Null, Leaked} /\ m \in Middles /\ s \in Sources
      BY <1>3
    <2> HIDE DEF m, s
    <2>2. middle' \in [Middles -> MiddleType]
      BY <1>1, <1>2, <2>1, OwnerIs
    <2> QED  BY <1>1, <1>2, <1>5, <2>2, TypedTree DEF TypeOK
  <1>7. /\ \A n \in Middles : middle'[n].bits = middle[n].bits /\ middle'[n].buf = middle[n].buf
        /\ middle'[m].owner[s] = t
        /\ \A u \in Threads : u # t /\ Held(u) => Held(u)'
    <2>1. t \in Threads \cup {Null, Leaked} /\ m \in Middles /\ s \in Sources
      BY <1>3
    <2> HIDE DEF m, s
    <2>2. \A u \in Threads : u # t /\ Held(u) => Held(u)'
      BY <1>1, <1>6, <2>1, OwnerKeeps DEF Stays
    <2>3. TypeOK
      BY <1>2
    <2>4. middle' = [middle EXCEPT ![m].owner[s] = t]
      BY <1>1
    <2>5. OwnerSet(m, s, t)
      BY <2>1, <2>3, <2>4, OwnerIs
    <2> QED  BY <2>1, <2>2, <2>5 DEF OwnerSet
  <1>8. middle[m].buf[s] = b /\ ~block[b].obsolete /\ b # Null
    BY DEF b
  <1>9. \A n \in Middles, v \in Sources : middle[n].buf[v] = b => n = m /\ v = s
    BY <1>2, <1>3, <1>8 DEF Safe, OnePlace
  \* Nobody else is in the block: its lock was free.
  <1>10. ASSUME NEW u \in Threads, Writing(u) PROVE thread[u].b # b /\ u # t
    <2>1. /\ thread[u].m \in Middles /\ thread[u].s \in Sources
          /\ middle[thread[u].m].owner[thread[u].s] = u
          /\ \A n \in Middles, v \in Sources :
               middle[n].buf[v] = thread[u].b => n = thread[u].m /\ v = thread[u].s
      BY <1>10, WriteFacts
    <2>2. SUFFICES ASSUME thread[u].b = b PROVE FALSE
      BY <1>3, <1>10
    <2>3. m = thread[u].m /\ s = thread[u].s
      BY <1>3, <1>8, <2>1, <2>2
    <2> QED  BY <1>1, <2>1, <2>3, NameAssumption
  <1>11. \A u \in Threads : Writing(u)' <=> Writing(u) \/ u = t
    BY <1>3, <1>5, <1>6 DEF Writing, Stays, WritePCs
  <1>12. Safe'
    <2>2. OnePlace'
      BY <1>2, <1>7, SamePlace DEF Safe
    <2>3. JunkHeld'
      BY <1>1, <1>2, <1>3, <1>5, <1>6 DEF Safe, JunkHeld, At, Stays
    <2>4. BlockExclusive'
      <3>1. \A u, v \in Threads : u # v /\ Writing(u)' /\ Writing(v)' => thread'[u].b # thread'[v].b
        <4>1. \A u, v \in Threads : u # v /\ Writing(u) /\ Writing(v) => thread[u].b # thread[v].b
          BY <1>2 DEF Safe, BlockExclusive, Writing, WritePCs
        <4> QED  BY <1>5, <1>6, <1>10, <1>11, <4>1 DEF Stays
      <3> QED  BY <3>1 DEF BlockExclusive, Writing, WritePCs
    <2>5. ASSUME NEW u \in Threads PROVE SafeThread(u)'
      <3>1. CASE u # t
        <4>1. SafeThread(u) /\ Stays(u) /\ thread'[u].seen = thread[u].seen
          BY <1>2, <1>6, <3>1 DEF Safe
        <4>2. Held(u) => Held(u)'
          BY <1>7, <3>1
        <4> QED  BY <1>1, <1>7, <4>1, <4>2, StaysSafe, SeenKeeps
      <3>2. CASE u = t
        <4>1. Bound(t)' /\ Held(t)'
          BY <1>3, <1>5, <1>7 DEF Bound, Held, Writing, Viewing, At, WritePCs, ViewPCs, ReadPCs, InsertPCs
        <4>2. Home(t)'
          BY <1>5, <1>7, <1>9 DEF Home
        <4>3. Filling(t)' /\ Seen(t)'
          BY <1>3, <1>5 DEF Filling, Seen, At, ReadPCs, ViewPCs
        <4> QED  BY <3>2, <4>1, <4>2, <4>3 DEF SafeThread
      <3> QED  BY <3>1, <3>2
    <2> QED  BY <1>5, <1>t, <2>2, <2>3, <2>4, <2>5 DEF Safe
  <1>13. ASSUME ~overlap' PROVE Calm'
    <2>1. Calm /\ Quiet'
      BY <1>13 DEF Watch, IInv, Quiet
    <2>2. Path'
      <3>1. \A x : Retired(x)' <=> Retired(x)
        BY <1>1 DEF Retired, Content
      <3>2. Linked' /\ Detached'
        BY <1>1, <1>7, <2>1, <3>1 DEF Calm, Path, Linked, Detached
      <3>3. ASSUME NEW n \in Middles, NEW v \in Sources PROVE Buffered(n, v)'
        <4>1. /\ Buffered(n, v) /\ middle'[n].bits = middle[n].bits
              /\ middle'[n].buf[v] = middle[n].buf[v]
          BY <1>7, <2>1 DEF Calm, Path
        <4>2. \A u \in Threads : At(u, "dnull") => At(u, "dnull")' /\ Stays(u)
          BY <1>3, <1>6 DEF At, Stays
        <4> QED  BY <1>1, <3>1, <4>1, <4>2 DEF Buffered, Stays
      <3> QED  BY <3>2, <3>3 DEF Path
    <2>3. Stored'
      <3>1. \A v \in Sources : EdgesOf(v)' = EdgesOf(v) /\ (top.child # Null => Buf(v)' = Buf(v))
        BY <1>1, <1>2, <1>7 DEF EdgesOf, Buf, TypeOK
      <3>2. \A v \in Sources : Merging(v)' <=> Merging(v)
        BY <1>3, <1>5, <1>6 DEF Merging, At, Stays
      <3>3. \A x : Content(x)' = Content(x)
        BY <1>1 DEF Content
      <3> QED  BY <1>1, <2>1, <3>1, <3>2, <3>3 DEF Calm, Stored
    <2>4. \A x : Written(x)' <=> Written(x) \/ x = b
      BY <1>3, <1>5, <1>6, <1>11 DEF Written, Stays
    <2>5. ASSUME NEW u \in Threads PROVE CalmThread(u)'
      <3>1. CASE u # t
        <4>1. Stays(u) /\ OnPath(u) /\ OffPath(u) /\ Told(u) /\ Bound(u)
          BY <1>2, <1>6, <2>1, <3>1 DEF Calm, CalmThread, Safe, SafeThread
        <4>2. OnPath(u)'
          <5>1. Inserting(u) \/ Writing(u) => thread[u].m \in Middles \/ At(u, "top")
            BY <4>1 DEF Bound, Inserting, Writing, WritePCs, At
          <5>2. \A v : EdgesOf(v)' = EdgesOf(v)
            BY <1>1 DEF EdgesOf
          <5>3. At(u, "unlocked") => Inserting(u)
            BY DEF At, Inserting
          <5> QED  BY <1>1, <1>7, <4>1, <5>1, <5>2, <5>3 DEF OnPath, Inserting, Writing, WritePCs, At, Stays
        <4>3. OffPath(u)'
          <5>1. \A x : Retired(x)' <=> Retired(x)
            BY <1>1 DEF Retired, Content
          <5>2. thread[u].pc \in RetirePCs \ {"dtopcheck"} =>
                  thread[u].s \in Sources /\ thread[u].m \in Middles
            BY <4>1 DEF Bound, RetirePCs
          <5>3. top.child = Null \/ top.child \in Middles
            BY <1>2 DEF TypeOK
          <5> QED  BY <1>1, <1>7, <4>1, <5>1, <5>2, <5>3 DEF OffPath, RetirePCs, At, Stays
        <4>4. Told(u)'
          <5>1. /\ thread'[u].seen = thread[u].seen /\ thread'[u].wrong = thread[u].wrong
                /\ thread'[u].same <=> (thread[u].same /\ thread[u].b # b)
            BY <1>6, <3>1
          <5> QED  BY <1>1, <2>4, <4>1, <5>1 DEF Told, Viewing, Content, At, Stays
        <4> QED  BY <4>2, <4>3, <4>4 DEF CalmThread
      <3>2. CASE u = t
        <4>1. m = top.child /\ s \in middle[m].bits
          BY <1>2, <1>3, <1>8, <2>1, LiveOnPath
        <4>2. ~thread[t].wrong
          BY <2>1 DEF Calm, CalmThread, Told
        <4>3. OnPath(t)'
          BY <1>1, <1>3, <1>5, <1>7, <1>8, <4>1 DEF OnPath, At
        <4>4. OffPath(t)' /\ Told(t)'
          BY <1>3, <1>5, <4>2 DEF OffPath, Told, Viewing, At, RetirePCs, ViewPCs
        <4> QED  BY <3>2, <4>3, <4>4 DEF CalmThread
      <3> QED  BY <3>1, <3>2
    <2> QED  BY <2>1, <2>2, <2>3, <2>5 DEF Calm
  <1> QED  BY <1>12, <1>13 DEF IInv

-----------------------------------------------------------------------------
(* Inside a block.                                                         *)

(* A thread that has just entered a block finds the edges of its source    *)
(* there, and whoever reads the block has been told of them.               *)
LEMMA OwnExact ==
  ASSUME IInv, ~overlap, NEW t \in Threads, thread[t].pc \in {"apply", "dapply"}
  PROVE  /\ top.child = thread[t].m /\ Buf(thread[t].s) = thread[t].b
         /\ Content(thread[t].b) = EdgesOf(thread[t].s)
         /\ \A u \in Threads : Viewing(u) /\ thread[u].b = thread[t].b
              => thread[u].s = thread[t].s /\ Content(thread[t].b) \in thread[u].seen
  <1> DEFINE b == thread[t].b  s == thread[t].s
  <1>1. Safe /\ Calm /\ Writing(t) /\ OnPath(t) /\ TypeOK
    BY DEF IInv, Safe, Calm, CalmThread, Writing, WritePCs
  <1>2. /\ thread[t].m \in Middles /\ s \in Sources /\ b \in Blocks
        /\ \A u \in Threads : u # t /\ Writing(u) => thread[u].b # thread[t].b
    BY <1>1, WriteFacts
  <1>3. top.child = thread[t].m /\ Buf(s) = b /\ b # Null /\ top.child # Null
    BY <1>1, <1>2, NameAssumption DEF OnPath, Buf
  <1>4. ~Merging(s)
    <2>1. SUFFICES ASSUME NEW v \in Threads, At(v, "chain"), thread[v].s = s  PROVE FALSE
      BY DEF Merging
    <2>2. Writing(v) /\ OnPath(v) /\ Inserting(v) /\ ~At(v, "top") /\ v # t
      BY <1>1, <2>1 DEF Writing, WritePCs, At, Calm, CalmThread, Inserting
    <2>3. thread[v].b = b
      BY <1>3, <2>1, <2>2 DEF OnPath, Buf
    <2> QED  BY <1>2, <2>2, <2>3
  <1>5. Junk \notin Content(b)
    <2>1. Junk \notin block[b].array
      BY <1>1, <1>2, NameAssumption DEF TypeOK
    <2>2. Junk \notin block[b].head
      <3>1. SUFFICES ASSUME Junk \in block[b].head PROVE FALSE
        OBVIOUS
      <3>2. PICK v \in Threads : At(v, "fill") /\ thread[v].b = b
        BY <1>1, <1>2, <3>1 DEF Safe, JunkHeld
      <3> QED  BY <1>2, <3>2 DEF At, Writing, WritePCs
    <2> QED  BY <2>1, <2>2 DEF Content
  <1>6. Content(b) = EdgesOf(s)
    <2>1. Content(b) \ {Junk} = EdgesOf(s)
      BY <1>1, <1>2, <1>3, <1>4 DEF Calm, Stored
    <2> QED  BY <1>5, <2>1
  <1>7. ASSUME NEW u \in Threads, Viewing(u), thread[u].b = b
        PROVE  thread[u].s = s /\ Content(b) \in thread[u].seen
    <2>1. SafeThread(u)
      BY <1>1 DEF Safe
    <2>2. thread[u].s = s
      BY <1>2, <1>3, <1>7, <2>1 DEF SafeThread, Home, Buf
    <2>3. EdgesOf(thread[u].s) \in thread[u].seen
      BY <1>7, <2>1 DEF SafeThread, Seen, Viewing, ReadPCs
    <2> QED  BY <1>6, <2>2, <2>3
  <1> QED  BY <1>3, <1>6, <1>7

(* A call that ends in a block it has not changed.                         *)
LEMMA LeaveStep ==
  ASSUME IInv, NEW t \in Threads, Watch, thread[t].pc \in {"apply", "dapply"},
         UNCHANGED <<top, block, edges>>, Return(t), middle' = Released(thread[t].m, thread[t].s)
  PROVE  IInv'
  <1> DEFINE m == thread[t].m  s == thread[t].s  r == Idle(thread[t].calls)
  <1>1. Writing(t) /\ TypeOK /\ thread \in [Threads -> ThreadType]
        /\ thread[t].pc \notin {"fill", "chain", "dnull"}
    BY DEF IInv, Safe, Writing, WritePCs
  <1>2. /\ m \in Middles /\ s \in Sources /\ thread[t].calls \in 0..MaxCalls
        /\ middle[m].owner[s] = t
    BY <1>1, WriteFacts
  <1>3. r \in ThreadType /\ r.pc = "idle" /\ r.same = FALSE /\ r.wrong = FALSE /\ r.seen = {}
        /\ thread' = [thread EXCEPT ![t] = r]
    BY <1>2, IdleRecord DEF Return
  <1> HIDE DEF r
  <1>4. thread' \in [Threads -> ThreadType] /\ Alone(t) /\ thread'[t] = r
    BY <1>1, <1>3 DEF Alone
  <1>5. Null \in Threads \cup {Null, Leaked} /\ middle' = [middle EXCEPT ![m].owner[s] = Null]
    BY DEF Released
  <1> HIDE DEF m, s
  <1>6. middle' \in [Middles -> MiddleType] /\ OwnerSet(m, s, Null)
    BY <1>1, <1>2, <1>5, OwnerIs
  <1>7. \A u \in Threads : u # t /\ Held(u) => Held(u)'
    BY <1>2, <1>4, <1>5, OwnerKeeps DEF Alone
  <1>8. TypeOK' /\ SameTree
    BY <1>1, <1>4, <1>6, TypedTree DEF TypeOK, SameTree, OwnerSet
  <1>9. SafeThread(t)' /\ ~Writing(t)'
    BY <1>3, <1>4 DEF SafeThread, Bound, Held, Home, Filling, Seen, Writing, Viewing, At,
         InsertPCs, DeletePCs, ReadPCs, ViewPCs, WritePCs
  <1>10. CalmThread(t)'
    BY <1>3, <1>4 DEF CalmThread, OnPath, OffPath, Told, Inserting, Writing, Viewing, At,
         RetirePCs, ViewPCs, WritePCs
  <1>11. ~overlap => \A u \in Threads : Viewing(u) /\ thread[u].b = thread[t].b
            => Content(thread[u].b) \in thread[u].seen
    BY OwnExact
  <1> QED  BY <1>1, <1>4, <1>7, <1>8, <1>9, <1>10, <1>11, SameTreeStep

-----------------------------------------------------------------------------
(* Steps that change the tree.                                             *)

(* malloc returns an address nothing points at.                            *)
LEMMA FreeIs ==
  ASSUME NEW S, NEW used, Memory(S, used)
  PROVE  Free(S, used) \in S /\ Free(S, used) \notin used
  BY DEF Free, Memory

(* What a reader knows is still true when neither its block nor the        *)
(* threads inside it change.                                               *)
LEMMA ToldKeeps ==
  ASSUME NEW u \in Threads, Told(u), Stays(u),
         thread[u].pc \in {"rmiddle", "xmiddle"} => top'.child = top.child \/ {} \in thread'[u].seen,
         thread[u].seen \subseteq thread'[u].seen, thread'[u].wrong = thread[u].wrong,
         thread'[u].same => thread[u].same,
         Viewing(u) => /\ Written(thread[u].b)' <=> Written(thread[u].b)
                       /\ block'[thread[u].b].head = block[thread[u].b].head
                       /\ block'[thread[u].b].array = block[thread[u].b].array
  PROVE  Told(u)'
  <1>1. thread[u].pc \in {"rhead", "rarray", "rcheck"} => Viewing(u)
    BY DEF Viewing, ViewPCs
  <1>2. At(u, "rarray") \/ At(u, "rcheck") => Viewing(u)
    BY DEF Viewing, ViewPCs, At
  <1>3. Viewing(u) => (Written(thread[u].b)' <=> Written(thread[u].b))
    OBVIOUS
  <1>4. Viewing(u) => Content(thread[u].b)' = Content(thread[u].b)
    BY DEF Content, Stays
  <1> QED  BY <1>1, <1>2, <1>3, <1>4 DEF Told, Stays, Viewing, At

(* An insertion creates the middle block of an empty range.                *)
LEMMA InsertTopNew ==
  ASSUME IInv, NEW t \in Threads, Watch, InsertTop(t), ~top.bit
  PROVE  IInv'
  <1> DEFINE m == FreeMiddle
  <1>1. /\ At(t, "top") /\ block' = block /\ edges' = edges /\ Memory(Middles, UsedMiddles)
        /\ thread' = [thread EXCEPT ![t].pc = "bottom", ![t].m = m]
        /\ top' = [top EXCEPT !.bit = TRUE, !.child = m]
        /\ middle' = [middle EXCEPT ![m] = NoMiddle]
    BY DEF InsertTop
  <1>2. /\ m \in Middles /\ m \notin UsedMiddles
    BY <1>1, FreeIs DEF FreeMiddle
  <1>3. m # top.child /\ \A u \in Threads : thread[u].m # m
    BY <1>2 DEF UsedMiddles
  <1> HIDE DEF m
  <1>4. /\ Safe /\ TypeOK /\ thread \in [Threads -> ThreadType] /\ SafeThread(t)
        /\ middle \in [Middles -> MiddleType]
    BY DEF IInv, Safe, TypeOK, MiddleType
  <1>5. /\ thread[t] \in ThreadType /\ thread[t].s \in Sources /\ thread[t].d \in Dests
        /\ thread[t].seen = {} /\ thread[t].pc = "top"
    BY <1>1, <1>4 DEF SafeThread, Bound, At, InsertPCs, ReadPCs, ViewPCs
  <1>6. /\ thread'[t].pc = "bottom" /\ thread'[t].m = m /\ thread'[t].s = thread[t].s
        /\ thread'[t].d = thread[t].d /\ thread'[t].seen = {} /\ thread'[t].wrong = thread[t].wrong
        /\ thread' \in [Threads -> ThreadType] /\ Alone(t)
    BY <1>1, <1>2, <1>4, <1>5 DEF ThreadType, Alone, InsertPCs
  <1>7. \A u \in Threads : u # t => Stays(u) /\ thread'[u] = thread[u]
    BY <1>6 DEF Alone, Stays
  <1>8. /\ middle' \in [Middles -> MiddleType]
        /\ \A n \in Middles : n # m => middle'[n] = middle[n]
        /\ middle'[m].bits = {} /\ \A v \in Sources : middle'[m].buf[v] = Null
    <2>1. NoMiddle \in MiddleType /\ NoMiddle.bits = {} /\ \A v \in Sources : NoMiddle.buf[v] = Null
      BY DEF NoMiddle, MiddleType
    <2> QED  BY <1>1, <1>2, <1>4, <2>1
  <1>9. /\ top' \in [bit : BOOLEAN, child : Middles \cup {Null}, others : BOOLEAN, obsolete : BOOLEAN]
        /\ top'.bit = TRUE /\ top'.child = m
    BY <1>1, <1>2, <1>4 DEF TypeOK
  <1>10. TypeOK'
    BY <1>1, <1>4, <1>6, <1>8, <1>9, TypedTree
  <1>11. Safe'
    <2>1. OnePlace'
      <3>1. \A n \in Middles, v \in Sources :
              middle'[n].buf[v] # Null => n # m /\ middle'[n].buf[v] = middle[n].buf[v]
        BY <1>8
      <3> QED  BY <1>4, <3>1 DEF Safe, OnePlace
    <2>2. JunkHeld'
      BY <1>1, <1>4, <1>5, <1>7 DEF Safe, JunkHeld, At
    <2>3. BlockExclusive'
      BY <1>4, <1>5, <1>6, <1>7 DEF Safe, BlockExclusive
    <2>4. ASSUME NEW u \in Threads, u # t PROVE SafeThread(u)'
      <3>1. SafeThread(u) /\ Stays(u) /\ thread'[u].seen = thread[u].seen
        BY <1>4, <1>7, <2>4 DEF Safe
      <3>2. Held(u) => Held(u)'
        <4>1. Writing(u) \/ At(u, "xread") => thread[u].m \in Middles
          BY <3>1 DEF SafeThread, Bound, Writing, At, WritePCs
        <4> QED  BY <1>3, <1>7, <1>8, <2>4, <4>1 DEF Held, Writing, At
      <3>3. Writing(u) \/ Viewing(u) => \A n \in Middles, v \in Sources :
              middle'[n].buf[v] = thread[u].b => middle[n].buf[v] = thread[u].b
        <4>1. Writing(u) \/ Viewing(u) => thread[u].b # Null
          BY <3>1, NameAssumption DEF SafeThread, Bound
        <4> QED  BY <1>8, <4>1
      <3> QED  BY <1>1, <3>1, <3>2, <3>3, StaysSafe, SeenKeeps
    <2>5. SafeThread(t)'
      BY <1>2, <1>5, <1>6 DEF SafeThread, Bound, Held, Home, Filling, Seen, Writing, Viewing, At,
           InsertPCs, DeletePCs, ReadPCs, ViewPCs, WritePCs
    <2> QED  BY <1>6, <1>10, <2>1, <2>2, <2>3, <2>4, <2>5 DEF Safe
  <1>12. ASSUME ~overlap' PROVE Calm'
    <2>1. Calm /\ Quiet'
      BY <1>12 DEF Watch, IInv, Quiet
    <2>2. top.child = Null
      BY <2>1 DEF Calm, Path, Linked
    <2>3. \A v \in Sources : EdgesOf(v) = {} /\ EdgesOf(v)' = {}
      BY <1>1, <2>1, <2>2 DEF Calm, Stored, EdgesOf
    <2>4. ASSUME NEW u \in Threads, Inserting(u) \/ Writing(u) PROVE At(u, "top")
      <3>1. Bound(u) /\ OnPath(u)
        BY <1>4, <2>1 DEF Calm, CalmThread, Safe, SafeThread
      <3>2. thread[u].m = Null => At(u, "top")
        BY <2>4, <3>1, NameAssumption DEF Bound, Inserting, Writing, WritePCs, At
      <3>3. At(u, "top") \/ thread[u].m = Null
        BY <2>2, <2>4, <3>1 DEF OnPath, At
      <3> QED  BY <3>2, <3>3
    <2>5. Path'
      <3>1. \A x : Retired(x)' <=> Retired(x)
        BY <1>1 DEF Retired, Content
      <3>2. Linked'
        BY <1>2, <1>9, NameAssumption DEF Linked
      <3>3. Detached'
        BY <1>8, <1>9, <2>1, <2>2, <3>1, NameAssumption DEF Calm, Path, Detached
      <3>4. ASSUME NEW n \in Middles, NEW v \in Sources PROVE Buffered(n, v)'
        <4>1. CASE n = m
          BY <1>8, <4>1 DEF Buffered
        <4>2. CASE n # m
          <5>1. Buffered(n, v) /\ middle'[n] = middle[n]
            BY <1>8, <2>1, <4>2 DEF Calm, Path
          <5>2. \A u \in Threads : At(u, "dnull") => At(u, "dnull")' /\ Stays(u)
            BY <1>5, <1>7 DEF At
          <5> QED  BY <1>1, <3>1, <5>1, <5>2 DEF Buffered, Stays
        <4> QED  BY <4>1, <4>2
      <3> QED  BY <3>2, <3>3, <3>4 DEF Path
    <2>6. Stored'
      BY <1>8, <1>9, <2>3 DEF Stored, Buf
    <2>7. ASSUME NEW u \in Threads, u # t PROVE CalmThread(u)'
      <3>1. Bound(u) /\ OnPath(u) /\ OffPath(u) /\ Told(u) /\ Stays(u) /\ Seen(u)
        BY <1>4, <1>7, <2>1, <2>7 DEF Calm, CalmThread, Safe, SafeThread
      <3>2. OnPath(u)'
        BY <2>4, <3>1 DEF OnPath, Inserting, Writing, At, Stays, WritePCs
      <3>3. ~Retiring(u)'
        BY <1>6, <2>1 DEF Quiet, Inserting
      <3>4. OffPath(u)'
        BY <3>3 DEF OffPath, Retiring, RetirePCs, At
      <3>5. Told(u)'
        <4>1. \A b : (Written(b)' <=> FALSE) /\ (Written(b) <=> FALSE)
          BY <1>6, <1>7, <2>4 DEF Written, Writing, WritePCs, At
        <4>2. thread[u].pc \in {"rmiddle", "xmiddle"} => {} \in thread'[u].seen
          BY <1>7, <2>3, <2>7, <3>1 DEF Seen, Bound, ReadPCs
        <4> QED  BY <1>1, <1>7, <2>7, <3>1, <4>1, <4>2, ToldKeeps
      <3> QED  BY <3>2, <3>4, <3>5 DEF CalmThread
    <2>8. CalmThread(t)'
      <3>1. ~thread[t].wrong
        BY <2>1 DEF Calm, CalmThread, Told
      <3> QED  BY <1>6, <1>9, <3>1 DEF CalmThread, OnPath, OffPath, Told, Inserting, Writing, Viewing, At,
                 RetirePCs, ViewPCs, WritePCs
    <2> QED  BY <2>1, <2>5, <2>6, <2>7, <2>8 DEF Calm
  <1> QED  BY <1>11, <1>12 DEF IInv

\* b, which nothing pointed at, becomes the new block of s in m.
Created(m, s, bit, b) ==
    /\ \A u \in Threads : thread[u].b # b
    /\ \A n \in Middles, v \in Sources : middle[n].buf[v] # b
    /\ middle' \in [Middles -> MiddleType]
    /\ block' = [block EXCEPT ![b] = NewBlock]
    /\ \A n \in Middles : middle'[n].owner = middle[n].owner
    /\ \A n \in Middles : n # m => middle'[n].bits = middle[n].bits
    /\ middle'[m].bits = IF bit THEN middle[m].bits \cup {s} ELSE middle[m].bits
    /\ \A n \in Middles, v \in Sources :
         middle'[n].buf[v] = IF n = m /\ v = s THEN b ELSE middle[n].buf[v]

(* The fields of the middle and the adjacency blocks when one is created.  *)
LEMMA CreateIs ==
  ASSUME TypeOK, NEW m \in Middles, NEW s \in Sources, NEW bit \in BOOLEAN, CreateBlock(m, s, bit)
  PROVE  \E b \in Blocks : Created(m, s, bit, b)
  <1> DEFINE b == FreeBlock
             bits == IF bit THEN middle[m].bits \cup {s} ELSE middle[m].bits
  <1>1. /\ Memory(Blocks, UsedBlocks) /\ block' = [block EXCEPT ![b] = NewBlock]
        /\ middle' = [middle EXCEPT ![m].buf[s] = b, ![m].bits = bits]
    BY DEF CreateBlock
  <1>2. b \in Blocks /\ b \notin UsedBlocks
    BY <1>1, FreeIs DEF FreeBlock
  <1>3. /\ \A u \in Threads : thread[u].b # b
        /\ \A n \in Middles, v \in Sources : middle[n].buf[v] # b
    BY <1>2 DEF UsedBlocks
  <1>4. middle \in [Middles -> MiddleType] /\ bits \in SUBSET Sources
    BY DEF TypeOK, MiddleType
  <1> HIDE DEF b, bits
  <1>5. /\ [middle[m] EXCEPT !.buf[s] = b, !.bits = bits] \in MiddleType
        /\ [middle[m] EXCEPT !.buf[s] = b, !.bits = bits].bits = bits
        /\ [middle[m] EXCEPT !.buf[s] = b, !.bits = bits].owner = middle[m].owner
        /\ [middle[m] EXCEPT !.buf[s] = b, !.bits = bits].buf = [middle[m].buf EXCEPT ![s] = b]
        /\ middle[m].buf \in [Sources -> Blocks \cup {Null}]
    BY <1>2, <1>4 DEF MiddleType
  <1>6. middle' = [middle EXCEPT ![m] = [middle[m] EXCEPT !.buf[s] = b, !.bits = bits]]
    BY <1>1, <1>4
  <1>7. /\ middle' \in [Middles -> MiddleType]
        /\ \A n \in Middles : middle'[n].owner = middle[n].owner
        /\ \A n \in Middles : n # m => middle'[n].bits = middle[n].bits
        /\ middle'[m].bits = bits
        /\ \A n \in Middles, v \in Sources :
                 middle'[n].buf[v] = IF n = m /\ v = s THEN b ELSE middle[n].buf[v]
    BY <1>4, <1>5, <1>6
  <1>8. Created(m, s, bit, b)
    BY <1>1, <1>3, <1>7 DEF bits, Created
  <1> QED  BY <1>2, <1>8

BlockType == [five : BOOLEAN, head : SUBSET (Dests \cup {Junk}), array : SUBSET Dests,
              obsolete : BOOLEAN]
\* The slots and the array agree with the type of the block.
Fits(x) == /\ Cardinality(x.head) <= (IF x.five THEN HeadCap ELSE SmallCap)
           /\ x.array # {} => x.five

(* The types of the blocks, named.                                         *)
LEMMA BlocksTyped ==
  ASSUME TypeOK
  PROVE  block \in [Blocks -> BlockType] /\ \A b \in Blocks : Fits(block[b])
  BY DEF TypeOK, BlockType, Fits, Capacity

(* The types, when the top block does not change.                          *)
LEMMA TypedBlocks ==
  ASSUME TypeOK, Watch, top' = top, edges' \in SUBSET (Sources \X Dests),
         thread' \in [Threads -> ThreadType], middle' \in [Middles -> MiddleType],
         block' \in [Blocks -> BlockType], \A b \in Blocks : Fits(block'[b])
  PROVE  TypeOK'
  <1>1. overlap' \in BOOLEAN
    BY DEF Watch, TypeOK, Inserting, Retiring
  <1>2. \A u \in Threads : thread'[u].calls \in 0..MaxCalls /\ thread'[u].left \in 0..Threshold
    BY DEF ThreadType
  <1>3. \A b \in Blocks : /\ Cardinality(block'[b].head) <= Capacity(b)'
                          /\ block'[b].array # {} => block'[b].five
    BY DEF Fits, Capacity
  <1> QED  BY <1>1, <1>2, <1>3 DEF TypeOK, MiddleType, BlockType

(* A new block fits.                                                       *)
LEMMA NewFits ==
  /\ NewBlock \in BlockType /\ Fits(NewBlock) /\ NewBlock.head = {} /\ NewBlock.array = {}
  /\ NewBlock.obsolete = FALSE
  <1>1. Cardinality({}) = 0 /\ SmallCap \in Nat /\ HeadCap \in Nat
    BY FS_EmptySet, SizeAssumption
  <1> QED  BY <1>1 DEF NewBlock, BlockType, Fits

(* An insertion creates the block of its source.                           *)
LEMMA InsertCreate ==
  ASSUME IInv, NEW t \in Threads, Watch, InsertLocked(t) \/ InsertUnlocked(t),
         thread[t].s \notin middle[thread[t].m].bits
  PROVE  IInv'
  <1> DEFINE m == thread[t].m  s == thread[t].s
  <1>1. PICK bit \in BOOLEAN, next \in {"acquire", "setbit"} :
          /\ CreateBlock(m, s, bit) /\ Go(t, next) /\ top' = top /\ edges' = edges
          /\ thread[t].pc = (IF bit THEN "locked" ELSE "unlocked")
          /\ bit => next = "acquire"
    <2>1. CASE InsertLocked(t)
      BY <2>1 DEF InsertLocked, At
    <2>2. CASE InsertUnlocked(t)
      BY <2>2 DEF InsertUnlocked, At
    <2> QED  BY <2>1, <2>2
  <1>2. Inserting(t) /\ ~At(t, "top") /\ ~Writing(t) /\ ~Viewing(t) /\ ~At(t, "dnull")
        /\ ~At(t, "chain") /\ ~At(t, "fill")
    BY <1>1 DEF Inserting, At, Writing, Viewing, WritePCs, ViewPCs
  <1>3. /\ m \in Middles /\ s \in Sources /\ thread[t].d \in Dests /\ thread[t] \in ThreadType
        /\ ~overlap => m = top.child /\ bit
    BY <1>1, <1>2, InsertFacts DEF At
  <1>4. Safe /\ TypeOK /\ thread \in [Threads -> ThreadType] /\ SafeThread(t)
    BY DEF IInv, Safe
  <1> HIDE DEF m, s
  <1>b. PICK b \in Blocks : Created(m, s, bit, b)
    BY <1>1, <1>3, <1>4, CreateIs
  <1>5. /\ \A u \in Threads : thread[u].b # b
        /\ \A n \in Middles, v \in Sources : middle[n].buf[v] # b
        /\ middle' \in [Middles -> MiddleType]
        /\ block' = [block EXCEPT ![b] = NewBlock]
        /\ \A n \in Middles : middle'[n].owner = middle[n].owner
        /\ \A n \in Middles : n # m => middle'[n].bits = middle[n].bits
        /\ middle'[m].bits = IF bit THEN middle[m].bits \cup {s} ELSE middle[m].bits
        /\ \A n \in Middles, v \in Sources :
                 middle'[n].buf[v] = IF n = m /\ v = s THEN b ELSE middle[n].buf[v]
    BY <1>b DEF Created
  <1>6. /\ block' \in [Blocks -> BlockType] /\ \A x \in Blocks : Fits(block'[x])
        /\ block'[b] = NewBlock
        /\ \A x : x # b => block'[x] = block[x] /\ Content(x)' = Content(x)
    BY <1>4, <1>5, BlocksTyped, NewFits DEF Content
  <1>7. /\ thread'[t].pc = next /\ thread'[t].m = m /\ thread'[t].s = s
        /\ thread'[t].d = thread[t].d /\ thread'[t].seen = thread[t].seen
        /\ thread'[t].wrong = thread[t].wrong
        /\ thread' \in [Threads -> ThreadType] /\ Alone(t)
    BY <1>1, <1>3, <1>4 DEF Go, ThreadType, Alone, InsertPCs, m, s
  <1>8. \A u \in Threads : u # t => Stays(u) /\ thread'[u] = thread[u]
    BY <1>7 DEF Alone, Stays
  <1>9. TypeOK'
    BY <1>1, <1>4, <1>5, <1>6, <1>7, TypedBlocks DEF TypeOK
  <1>10. Safe'
    <2>1. OnePlace'
      <3>1. /\ \A n \in Middles, v \in Sources : middle[n].buf[v] # b
            /\ \A n \in Middles, v \in Sources :
                 middle'[n].buf[v] = IF n = m /\ v = s THEN b ELSE middle[n].buf[v]
        BY <1>5
      <3>2. OnePlace
        BY <1>4 DEF Safe
      <3> QED  BY <3>1, <3>2 DEF OnePlace
    <2>2. JunkHeld'
      <3>1. ASSUME NEW x \in Blocks, Junk \in block'[x].head
            PROVE  \E u \in Threads : At(u, "fill")' /\ thread'[u].b = x
        <4>1. x # b
          BY <1>6, <3>1, NewFits
        <4>2. PICK u \in Threads : At(u, "fill") /\ thread[u].b = x
          BY <1>4, <1>6, <3>1, <4>1 DEF Safe, JunkHeld
        <4> QED  BY <1>2, <1>8, <4>2 DEF At
      <3> QED  BY <3>1 DEF JunkHeld
    <2>3. BlockExclusive'
      <3>1. \A u \in Threads : Writing(u)' => u # t /\ Writing(u)
        BY <1>7, <1>8 DEF Writing, WritePCs
      <3>2. \A u, v \in Threads : u # v /\ Writing(u) /\ Writing(v) => thread[u].b # thread[v].b
        BY <1>4 DEF Safe, BlockExclusive, Writing, WritePCs
      <3>3. \A u, v \in Threads : u # v /\ Writing(u)' /\ Writing(v)' => thread'[u].b # thread'[v].b
        BY <1>8, <3>1, <3>2
      <3> QED  BY <3>3 DEF BlockExclusive, Writing, WritePCs
    <2>4. ASSUME NEW u \in Threads, u # t PROVE SafeThread(u)'
      <3>1. SafeThread(u) /\ Stays(u) /\ thread'[u].seen = thread[u].seen
        BY <1>4, <1>8, <2>4 DEF Safe
      <3>2. Held(u) => Held(u)'
        <4>1. Writing(u) \/ At(u, "xread") => thread[u].m \in Middles
          BY <3>1 DEF SafeThread, Bound, Writing, At, WritePCs
        <4> QED  BY <1>5, <1>8, <2>4, <4>1 DEF Held, Writing, At
      <3>3. \A n \in Middles, v \in Sources :
              middle'[n].buf[v] = thread[u].b => middle[n].buf[v] = thread[u].b
        BY <1>5
      <3>4. block'[thread[u].b] = block[thread[u].b]
        BY <1>5, <1>6
      <3> QED  BY <1>1, <3>1, <3>2, <3>3, <3>4, StaysSafe, SeenKeeps
    <2>5. SafeThread(t)'
      <3>1. thread[t].seen = {}
        BY <1>2, <1>4 DEF SafeThread, Bound, Inserting, ReadPCs, ViewPCs
      <3> QED  BY <1>3, <1>7, <3>1 DEF SafeThread, Bound, Held, Home, Filling, Seen, Writing, Viewing, At,
           InsertPCs, DeletePCs, ReadPCs, ViewPCs, WritePCs
    <2> QED  BY <1>7, <1>9, <2>1, <2>2, <2>3, <2>4, <2>5 DEF Safe
  <1>11. ASSUME ~overlap' PROVE Calm'
    <2>1. Calm /\ Quiet' /\ ~overlap
      BY <1>11 DEF Watch, IInv, Quiet
    <2>2. bit /\ m = top.child /\ next = "acquire" /\ top.child # Null
      BY <1>1, <1>3, <2>1, NameAssumption
    <2>3. Inserting(t)' /\ \A u \in Threads : ~Retiring(u)' /\ ~Retiring(u)
      <3>1. Inserting(t)'
        BY <1>7, <2>2 DEF Inserting
      <3>2. \A u \in Threads : ~Retiring(u)
        BY <1>2, <2>1 DEF Calm, Quiet
      <3> QED  BY <2>1, <3>1, <3>2 DEF Quiet
    <2>4. s \notin middle[m].bits
      BY DEF m, s
    <2>5. middle[m].buf[s] = Null
      <3>1. Buffered(m, s)
        BY <1>3, <2>1 DEF Calm, Path
      <3> QED  BY <2>3, <2>4, <3>1 DEF Buffered, Retiring, At
    <2>6. Path'
      <3>1. Linked'
        BY <1>1, <2>1 DEF Calm, Path, Linked
      <3>2. \A n \in Middles, v \in Sources :
              Retired(middle[n].buf[v]) => Retired(middle[n].buf[v])'
                 \/ (n = m /\ v = s)
        <4>1. ASSUME NEW n \in Middles, NEW v \in Sources, Retired(middle[n].buf[v]), ~(n = m /\ v = s)
              PROVE  Retired(middle[n].buf[v])'
          <5>1. middle'[n].buf[v] = middle[n].buf[v] /\ middle[n].buf[v] # b
            BY <1>5, <4>1
          <5> QED  BY <1>6, <4>1, <5>1 DEF Retired
        <4> QED  BY <4>1
      <3>3. Detached'
        BY <1>1, <1>5, <2>1, <2>2, <3>2 DEF Calm, Path, Detached
      <3>4. ASSUME NEW n \in Middles, NEW v \in Sources PROVE Buffered(n, v)'
        <4>1. CASE n = m /\ v = s
          <5>1. /\ v \in middle'[n].bits /\ middle'[n].buf[v] = b /\ ~block'[b].obsolete
            BY <1>3, <1>5, <1>6, <2>2, <4>1, NewFits
          <5> QED  BY <5>1, NameAssumption DEF Buffered
        <4>2. CASE ~(n = m /\ v = s)
          <5>1. /\ Buffered(n, v) /\ middle'[n].buf[v] = middle[n].buf[v] /\ middle[n].buf[v] # b
                /\ v \in middle'[n].bits <=> v \in middle[n].bits
            BY <1>3, <1>5, <2>1, <4>2 DEF Calm, Path
          <5>2. block'[middle[n].buf[v]] = block[middle[n].buf[v]]
                /\ (Retired(middle[n].buf[v]) => Retired(middle[n].buf[v])')
            BY <1>6, <3>2, <4>2, <5>1
          <5>3. ~\E u \in Threads : At(u, "dnull") /\ thread[u].m = n /\ thread[u].s = v
            BY <2>3 DEF Retiring, At
          <5> QED  BY <5>1, <5>2, <5>3 DEF Buffered
        <4> QED  BY <4>1, <4>2
      <3> QED  BY <3>1, <3>3, <3>4 DEF Path
    <2>7. Stored'
      <3>1. ASSUME NEW v \in Sources, v # s
            PROVE  Buf(v)' = Buf(v) /\ Buf(v) # b /\ (Merging(v)' <=> Merging(v))
        BY <1>1, <1>3, <1>5, <1>2, <1>7, <1>8, <2>2, <3>1 DEF Buf, Merging, At
      <3>2. \A v \in Sources : EdgesOf(v)' = EdgesOf(v)
        BY <1>1 DEF EdgesOf
      <3>3. ASSUME NEW v \in Sources, v = s
            PROVE  EdgesOf(v) = {} /\ Buf(v)' = b /\ Content(Buf(v))' = {}
        <4>1. Buf(v) = Null /\ Stored
          BY <2>1, <2>2, <2>5, <3>3 DEF Buf, Calm
        <4>2. EdgesOf(v) = {}
          BY <4>1 DEF Stored
        <4>3. Buf(v)' = b
          <5>1. middle'[m].buf[v] = b
            BY <1>3, <1>5, <3>3
          <5> QED  BY <1>1, <2>2, <5>1 DEF Buf
        <4>4. Content(Buf(v))' = {}
          BY <1>6, <4>3, NewFits DEF Content
        <4> QED  BY <4>2, <4>3, <4>4
      <3>4. ASSUME NEW v \in Sources
            PROVE /\ top'.child # Null => (Buf(v)' # Null =>
                        (Merging(v)' \/ Content(Buf(v))' \ {Junk} = EdgesOf(v)'))
                  /\ top'.child = Null \/ Buf(v)' = Null => EdgesOf(v)' = {}
        <4>1. CASE v = s
          <5>1. /\ top'.child # Null /\ Buf(v)' # Null
                /\ Content(Buf(v))' \ {Junk} = EdgesOf(v)'
            BY <1>1, <2>2, <3>2, <3>3, <4>1, NameAssumption
          <5> QED  BY <5>1
        <4>2. CASE v # s
          <5>1. Buf(v)' = Buf(v) /\ Buf(v) # b /\ (Merging(v)' <=> Merging(v))
            BY <3>1, <4>2
          <5>2. Content(Buf(v))' = Content(Buf(v))
            BY <1>6, <5>1 DEF Content
          <5> QED  BY <1>1, <2>1, <3>2, <5>1, <5>2 DEF Calm, Stored
        <4> QED  BY <4>1, <4>2
      <3> QED  BY <3>4 DEF Stored
    <2>8. ASSUME NEW u \in Threads, u # t PROVE CalmThread(u)'
      <3>1. Bound(u) /\ OnPath(u) /\ Told(u) /\ Stays(u)
        BY <1>4, <1>8, <2>1, <2>8 DEF Calm, CalmThread, Safe, SafeThread
      <3>2. OnPath(u)'
        <4>1. At(u, "unlocked") \/ Writing(u) => thread[u].m \in Middles /\ thread[u].s \in Sources
          BY <3>1 DEF Bound, Writing, At, WritePCs
        <4>2. \A n \in Middles : middle[n].bits \subseteq middle'[n].bits
          BY <1>5
        <4>3. Writing(u) => middle'[thread[u].m].buf[thread[u].s] = middle[thread[u].m].buf[thread[u].s]
          <5>1. Writing(u) => middle[thread[u].m].buf[thread[u].s] # Null
            BY <3>1, NameAssumption DEF OnPath, Bound
          <5> QED  BY <1>5, <2>5, <4>1, <5>1
        <4>4. block'[thread[u].b] = block[thread[u].b]
          BY <1>5, <1>6
        <4>5. \A v : EdgesOf(v)' = EdgesOf(v)
          BY <1>1 DEF EdgesOf
        <4> QED  BY <1>1, <3>1, <4>1, <4>2, <4>3, <4>4, <4>5 DEF OnPath, Inserting, Writing, At, Stays
      <3>3. OffPath(u)'
        BY <2>3 DEF OffPath, Retiring, RetirePCs, At
      <3>4. Told(u)'
        <4>1. \A x : Written(x)' <=> Written(x)
          BY <1>2, <1>7, <1>8 DEF Written, Writing, WritePCs
        <4>2. block'[thread[u].b] = block[thread[u].b]
          BY <1>5, <1>6
        <4> QED  BY <1>1, <1>8, <2>8, <3>1, <4>1, <4>2, ToldKeeps
      <3> QED  BY <3>2, <3>3, <3>4 DEF CalmThread
    <2>9. CalmThread(t)'
      <3>1. ~thread[t].wrong
        BY <2>1 DEF Calm, CalmThread, Told
      <3> QED  BY <1>1, <1>7, <2>2, <3>1 DEF CalmThread, OnPath, OffPath, Told, Inserting, Writing,
                 Viewing, At, RetirePCs, ViewPCs, WritePCs
    <2> QED  BY <2>1, <2>6, <2>7, <2>8, <2>9 DEF Calm
  <1> QED  BY <1>10, <1>11 DEF IInv

(* A step between the search and the blocks that changes no owner, and     *)
(* moves no buffer but to nowhere, keeps the half that always holds.       *)
LEMMA TreeStep ==
  ASSUME IInv, NEW t \in Threads, Watch, block' = block, edges' = edges, TypeOK',
         NEW next, Go(t, next),
         <<thread[t].pc, next>> \in {<<"setbit", "acquire">>, <<"dclear", "dnull">>,
                                    <<"dnull", "dsweep">>, <<"droot", "dtopcheck">>},
         \A n \in Middles : middle'[n].owner = middle[n].owner,
         \A n \in Middles, v \in Sources : middle'[n].buf[v] \in {middle[n].buf[v], Null}
  PROVE  /\ Safe' /\ thread'[t].pc = next /\ thread'[t].m = thread[t].m
         /\ thread'[t].s = thread[t].s /\ thread'[t].wrong = thread[t].wrong
         /\ \A u \in Threads : u # t => Stays(u) /\ thread'[u] = thread[u]
         /\ \A x : Written(x)' <=> Written(x)
         /\ \A x : Content(x)' = Content(x)
         /\ \A v : EdgesOf(v)' = EdgesOf(v)
  <1>1. Safe /\ TypeOK /\ thread \in [Threads -> ThreadType] /\ SafeThread(t)
    BY DEF IInv, Safe
  <1>2. /\ thread'[t].pc = next /\ thread'[t].m = thread[t].m /\ thread'[t].s = thread[t].s
        /\ thread'[t].d = thread[t].d /\ thread'[t].seen = thread[t].seen
        /\ thread'[t].wrong = thread[t].wrong
        /\ thread' \in [Threads -> ThreadType] /\ Alone(t)
    BY <1>1 DEF Go, ThreadType, Alone, InsertPCs, RetirePCs
  <1>3. \A u \in Threads : u # t => Stays(u) /\ thread'[u] = thread[u]
    BY <1>2 DEF Alone, Stays
  <1>4. \A u \in Threads : Writing(u)' <=> Writing(u)
    BY <1>2, <1>3 DEF Writing, WritePCs
  <1>5. ~Writing(t)
    BY DEF Writing, WritePCs
  <1>6. OnePlace'
    BY <1>1 DEF Safe, OnePlace
  <1>7. JunkHeld'
    BY <1>1, <1>3 DEF Safe, JunkHeld, At
  <1>8. BlockExclusive'
    <2>1. \A u, v \in Threads : u # v /\ Writing(u) /\ Writing(v) => thread[u].b # thread[v].b
      BY <1>1 DEF Safe, BlockExclusive, Writing, WritePCs
    <2>2. \A u, v \in Threads : u # v /\ Writing(u)' /\ Writing(v)' => thread'[u].b # thread'[v].b
      BY <1>3, <1>4, <1>5, <2>1
    <2> QED  BY <2>2 DEF BlockExclusive, Writing, WritePCs
  <1>9. ASSUME NEW u \in Threads, u # t PROVE SafeThread(u)'
    <2>1. SafeThread(u) /\ Stays(u) /\ thread'[u].seen = thread[u].seen
      BY <1>1, <1>3, <1>9 DEF Safe
    <2>2. Held(u) => Held(u)'
      <3>1. Writing(u) \/ At(u, "xread") => thread[u].m \in Middles
        BY <2>1 DEF SafeThread, Bound, Writing, At, WritePCs
      <3> QED  BY <1>3, <1>9, <3>1 DEF Held, Writing, At
    <2>3. Writing(u) \/ Viewing(u) => \A n \in Middles, v \in Sources :
              middle'[n].buf[v] = thread[u].b => middle[n].buf[v] = thread[u].b
      <3>1. Writing(u) \/ Viewing(u) => thread[u].b # Null
        BY <2>1, NameAssumption DEF SafeThread, Bound
      <3> QED  BY <3>1
    <2> QED  BY <2>1, <2>2, <2>3, StaysSafe, SeenKeeps
  <1>10. SafeThread(t)'
    BY <1>1, <1>2 DEF SafeThread, Bound, Held, Home, Filling, Seen, Writing, Viewing, At,
         InsertPCs, DeletePCs, ReadPCs, ViewPCs, WritePCs
  <1>11. Safe'
    BY <1>2, <1>6, <1>7, <1>8, <1>9, <1>10 DEF Safe
  <1>12. \A x : Written(x)' <=> Written(x)
    BY <1>3, <1>4, <1>5 DEF Written
  <1> QED  BY <1>2, <1>3, <1>11, <1>12 DEF Content, EdgesOf

\* Only the bits of m change; only the buffer of s in m does, to nowhere.
BitsSet(m, bits) ==
    \A n \in Middles : /\ middle'[n].owner = middle[n].owner /\ middle'[n].buf = middle[n].buf
                       /\ middle'[n].bits = IF n = m THEN bits ELSE middle[n].bits
BufNulled(m, s) ==
    /\ \A n \in Middles : middle'[n].owner = middle[n].owner /\ middle'[n].bits = middle[n].bits
    /\ \A n \in Middles, v \in Sources :
         middle'[n].buf[v] = IF n = m /\ v = s THEN Null ELSE middle[n].buf[v]

(* The fields of the middle blocks when the bits of one change.            *)
LEMMA BitsIs ==
  ASSUME TypeOK, NEW m \in Middles, NEW bits \in SUBSET Sources,
         middle' = [middle EXCEPT ![m].bits = bits]
  PROVE  middle' \in [Middles -> MiddleType] /\ BitsSet(m, bits)
  <1>1. middle \in [Middles -> MiddleType]
    BY DEF TypeOK, MiddleType
  <1> QED  BY <1>1 DEF MiddleType, BitsSet

(* The same when a buffer is taken out.                                    *)
LEMMA NullIs ==
  ASSUME TypeOK, NEW m \in Middles, NEW s \in Sources,
         middle' = [middle EXCEPT ![m].buf[s] = Null]
  PROVE  middle' \in [Middles -> MiddleType] /\ BufNulled(m, s)
  <1>1. middle \in [Middles -> MiddleType]
    BY DEF TypeOK, MiddleType
  <1> QED  BY <1>1 DEF MiddleType, BufNulled

(* The bit of a block created without the mtx: an insertion overlapped a   *)
(* retirement.                                                             *)
LEMMA InsertSetBitStep ==
  ASSUME IInv, NEW t \in Threads, Watch, InsertSetBit(t)
  PROVE  IInv'
  <1>1. /\ At(t, "setbit") /\ top' = top /\ block' = block /\ edges' = edges /\ Go(t, "acquire")
        /\ middle' = [middle EXCEPT ![thread[t].m].bits = middle[thread[t].m].bits \cup {thread[t].s}]
    BY DEF InsertSetBit
  <1>2. Inserting(t) /\ ~At(t, "top") /\ TypeOK /\ thread \in [Threads -> ThreadType]
    BY <1>1 DEF Inserting, At, IInv, Safe
  <1>3. thread[t].m \in Middles /\ thread[t].s \in Sources /\ thread[t] \in ThreadType /\ overlap
    BY <1>1, <1>2, InsertFacts
  <1>4. PICK m, bits : /\ m = thread[t].m /\ bits = middle[m].bits \cup {thread[t].s}
                       /\ middle' = [middle EXCEPT ![m].bits = bits]
    BY <1>1
  <1>5. m \in Middles /\ bits \in SUBSET Sources
    BY <1>2, <1>3, <1>4 DEF TypeOK
  <1>6. /\ middle' \in [Middles -> MiddleType]
        /\ \A n \in Middles : middle'[n].owner = middle[n].owner /\ middle'[n].buf = middle[n].buf
    <2>1. middle' \in [Middles -> MiddleType] /\ BitsSet(m, bits)
      BY <1>2, <1>4, <1>5, BitsIs
    <2> QED  BY <2>1 DEF BitsSet
  <1>7. thread' \in [Threads -> ThreadType]
    BY <1>1, <1>2, <1>3 DEF Go, ThreadType, InsertPCs
  <1>8. TypeOK'
    BY <1>1, <1>2, <1>6, <1>7, TypedTree DEF TypeOK
  <1>9. Safe'
    BY <1>1, <1>6, <1>8, TreeStep DEF At
  <1>10. overlap'
    BY <1>3 DEF Watch
  <1> QED  BY <1>9, <1>10 DEF IInv

(* The other threads while a deletion retires a block: none inserts, and   *)
(* those that stay keep what they know when the steps of retirement only   *)
(* take bits and buffers away that no writer uses.                         *)
LEMMA RetireCalm ==
  ASSUME IInv, ~overlap, NEW t \in Threads, Retiring(t), NEW u \in Threads, u # t,
         Stays(u), thread'[u] = thread[u], block' = block,
         \A x : Written(x)' <=> Written(x), \A x : Content(x)' = Content(x),
         top'.child \in {top.child, Null},
         \A n \in Middles : middle'[n].bits \subseteq middle[n].bits,
         \A n \in Middles, v \in Sources : middle'[n].buf[v] \in {middle[n].buf[v], Null},
         Writing(u) => /\ top'.child = top.child
                       /\ thread[u].s \in middle'[thread[u].m].bits
                       /\ middle'[thread[u].m].buf[thread[u].s] = middle[thread[u].m].buf[thread[u].s],
         thread[u].pc \in {"rmiddle", "xmiddle"} => top'.child = top.child \/ {} \in thread[u].seen
  PROVE  CalmThread(u)'
  <1>1. Bound(u) /\ OnPath(u) /\ OffPath(u) /\ Told(u) /\ ~Inserting(u) /\ TypeOK
    BY RetireFacts DEF IInv, Safe, SafeThread, Calm, CalmThread
  <1>2. ~At(u, "chain") /\ ~At(u, "unlocked") /\ ~At(u, "setbit")
    BY <1>1 DEF Inserting, At
  <1>3. OnPath(u)'
    BY <1>1, <1>2 DEF OnPath, Inserting, Writing, At, Stays
  <1>4. OffPath(u)'
    <2>1. thread[u].pc \in RetirePCs \ {"dtopcheck"} =>
            thread[u].s \in Sources /\ thread[u].m \in Middles
      BY <1>1 DEF Bound, RetirePCs
    <2>2. \A x : Retired(x) => Retired(x)'
      BY DEF Retired
    <2>3. Retired(Null)'
      BY DEF Retired
    <2>4. thread[u].pc \in {"dclear", "dnull"} => Retired(middle[thread[u].m].buf[thread[u].s])'
      <3>1. SUFFICES ASSUME thread[u].pc \in {"dclear", "dnull"}
                     PROVE  Retired(middle[thread[u].m].buf[thread[u].s])'
        OBVIOUS
      <3>2. Retired(middle[thread[u].m].buf[thread[u].s])
        BY <1>1, <3>1 DEF OffPath
      <3>3. middle'[thread[u].m].buf[thread[u].s] \in {middle[thread[u].m].buf[thread[u].s], Null}
        BY <2>1, <3>1 DEF RetirePCs
      <3> QED  BY <2>2, <2>3, <3>2, <3>3 DEF Stays, Retired
    <2>5. At(u, "droot") => top'.child = Null \/ middle'[top'.child].bits = {}
      <3>1. top.child = Null \/ top.child \in Middles
        BY <1>1 DEF TypeOK
      <3> QED  BY <1>1, <3>1 DEF OffPath
    <2>6. thread[u].pc \in RetirePCs \ {"dtopcheck"} => top'.child \in {thread[u].m, Null}
      BY <1>1 DEF OffPath
    <2>7. At(u, "dnull") => thread[u].s \notin middle'[thread[u].m].bits
      BY <1>1, <2>1 DEF OffPath, RetirePCs, At
    <2> QED  BY <2>4, <2>5, <2>6, <2>7 DEF OffPath, At, Stays
  <1>5. Told(u)'
    BY <1>1, ToldKeeps
  <1> QED  BY <1>3, <1>4, <1>5 DEF CalmThread

(* The bit of the source is cleared.                                       *)
LEMMA DeleteClearStep ==
  ASSUME IInv, NEW t \in Threads, Watch, DeleteClear(t)
  PROVE  IInv'
  <1>1. /\ At(t, "dclear") /\ top' = top /\ block' = block /\ edges' = edges /\ Go(t, "dnull")
        /\ middle' = [middle EXCEPT ![thread[t].m].bits = middle[thread[t].m].bits \ {thread[t].s}]
    BY DEF DeleteClear
  <1>2. Retiring(t) /\ Safe /\ TypeOK /\ thread \in [Threads -> ThreadType]
    BY <1>1 DEF Retiring, At, IInv, Safe
  <1>3. /\ thread[t].m \in Middles /\ thread[t].s \in Sources /\ thread[t] \in ThreadType
        /\ ~overlap => OffPath(t) /\ ~thread[t].wrong /\ \A u \in Threads : ~Inserting(u)
    BY <1>2, RetireFacts
  <1>4. PICK m, s, bits : /\ m = thread[t].m /\ s = thread[t].s /\ bits = middle[m].bits \ {s}
                          /\ middle' = [middle EXCEPT ![m].bits = bits]
    BY <1>1
  <1>5. m \in Middles /\ s \in Sources /\ bits \in SUBSET Sources
    BY <1>2, <1>3, <1>4 DEF TypeOK
  <1>6. /\ middle' \in [Middles -> MiddleType]
        /\ \A n \in Middles : /\ middle'[n].owner = middle[n].owner /\ middle'[n].buf = middle[n].buf
                              /\ middle'[n].bits = IF n = m THEN bits ELSE middle[n].bits
    <2>1. middle' \in [Middles -> MiddleType] /\ BitsSet(m, bits)
      BY <1>2, <1>4, <1>5, BitsIs
    <2> QED  BY <2>1 DEF BitsSet
  <1>7. thread' \in [Threads -> ThreadType]
    BY <1>1, <1>2, <1>3 DEF Go, ThreadType, RetirePCs
  <1>8. TypeOK'
    BY <1>1, <1>2, <1>6, <1>7, TypedTree DEF TypeOK
  <1>9. /\ Safe' /\ thread'[t].pc = "dnull" /\ thread'[t].m = m
        /\ thread'[t].s = s /\ thread'[t].wrong = thread[t].wrong
        /\ \A u \in Threads : u # t => Stays(u) /\ thread'[u] = thread[u]
        /\ \A x : Written(x)' <=> Written(x)
        /\ \A x : Content(x)' = Content(x)
        /\ \A v : EdgesOf(v)' = EdgesOf(v)
    BY <1>1, <1>4, <1>6, <1>8, TreeStep DEF At
  <1>10. ASSUME ~overlap' PROVE Calm'
    <2>1. Calm /\ Quiet' /\ ~overlap /\ OffPath(t) /\ ~thread[t].wrong
          /\ \A u \in Threads : ~Inserting(u)
      BY <1>3, <1>10 DEF Watch, IInv, Quiet
    <2>2. Retired(middle[m].buf[s]) /\ top.child \in {m, Null}
      BY <1>1, <1>4, <2>1 DEF OffPath, At, RetirePCs
    <2>3. \A x : Retired(x)' <=> Retired(x)
      BY <1>1, <1>9 DEF Retired
    <2>4. Path'
      <3>1. Linked' /\ Detached'
        BY <1>1, <1>5, <1>6, <1>4, <2>1, <2>3 DEF Calm, Path, Linked, Detached
      <3>2. ASSUME NEW n \in Middles, NEW v \in Sources PROVE Buffered(n, v)'
        <4>1. /\ Buffered(n, v) /\ middle'[n].buf[v] = middle[n].buf[v]
              /\ v \in middle'[n].bits => v \in middle[n].bits
              /\ ~(n = m /\ v = s) => (v \in middle'[n].bits <=> v \in middle[n].bits)
          BY <1>4, <1>5, <1>6, <2>1 DEF Calm, Path
        <4>2. n = m /\ v = s => \E u \in Threads : At(u, "dnull")' /\ thread'[u].m = n /\ thread'[u].s = v
          BY <1>9 DEF At
        <4>3. \A u \in Threads : At(u, "dnull") => At(u, "dnull")' /\ Stays(u)
          BY <1>1, <1>9 DEF At
        <4> QED  BY <1>1, <2>3, <4>1, <4>2, <4>3 DEF Buffered, Stays
      <3> QED  BY <3>1, <3>2 DEF Path
    <2>5. Stored'
      <3>1. \A v \in Sources : top.child # Null => Buf(v)' = Buf(v)
        BY <1>1, <1>2, <1>6 DEF Buf, TypeOK
      <3>2. \A v \in Sources : Merging(v)' <=> Merging(v)
        BY <1>1, <1>9 DEF Merging, At, Stays
      <3> QED  BY <1>1, <1>9, <2>1, <3>1, <3>2 DEF Calm, Stored
    <2>6. ASSUME NEW u \in Threads, u # t PROVE CalmThread(u)'
      <3>1. ASSUME Writing(u) PROVE thread[u].s \in middle'[thread[u].m].bits
        <4>1. Bound(u) /\ OnPath(u)
          BY <1>2, <2>1 DEF Calm, CalmThread, Safe, SafeThread
        <4>2. /\ thread[u].m \in Middles /\ thread[u].s \in Sources /\ thread[u].b \in Blocks
              /\ thread[u].s \in middle[thread[u].m].bits
          BY <3>1, <4>1 DEF Bound, OnPath, Writing, WritePCs
        <4>3. ~(thread[u].m = m /\ thread[u].s = s)
          BY <2>2, <3>1, <4>1, <4>2, NameAssumption DEF OnPath, Retired
        <4> QED  BY <1>4, <1>6, <4>2, <4>3
      <3>2. \A n \in Middles : middle'[n].bits \subseteq middle[n].bits
        BY <1>4, <1>6
      <3>3. \A n \in Middles, v \in Sources : middle'[n].buf[v] = middle[n].buf[v]
        BY <1>6
      <3>4. Writing(u) => middle'[thread[u].m].buf = middle[thread[u].m].buf
        BY <1>6, <1>2 DEF Safe, SafeThread, Bound, Writing, WritePCs
      <3> QED  BY <1>1, <1>2, <1>9, <2>1, <2>6, <3>1, <3>2, <3>3, <3>4, RetireCalm
    <2>7. CalmThread(t)'
      <3>1. OnPath(t)' /\ Told(t)'
        BY <1>9, <2>1 DEF OnPath, Told, Inserting, Writing, Viewing, At, ViewPCs, WritePCs
      <3>2. OffPath(t)'
        <4>1. thread'[t].s \notin middle'[thread'[t].m].bits
          BY <1>4, <1>5, <1>6, <1>9
        <4>2. Retired(middle[thread[t].m].buf[thread[t].s])'
          BY <1>4, <1>5, <1>6, <1>9, <2>2, <2>3
        <4> QED  BY <1>1, <1>9, <2>2, <4>1, <4>2 DEF OffPath, At
      <3> QED  BY <3>1, <3>2 DEF CalmThread
    <2> QED  BY <2>1, <2>4, <2>5, <2>6, <2>7 DEF Calm
  <1> QED  BY <1>9, <1>10 DEF IInv

(* The buffer of the source is cleared.                                    *)
LEMMA DeleteNullStep ==
  ASSUME IInv, NEW t \in Threads, Watch, DeleteNull(t)
  PROVE  IInv'
  <1>1. /\ At(t, "dnull") /\ top' = top /\ block' = block /\ edges' = edges /\ Go(t, "dsweep")
        /\ middle' = [middle EXCEPT ![thread[t].m].buf[thread[t].s] = Null]
    BY DEF DeleteNull
  <1>2. Retiring(t) /\ Safe /\ TypeOK /\ thread \in [Threads -> ThreadType]
    BY <1>1 DEF Retiring, At, IInv, Safe
  <1>3. /\ thread[t].m \in Middles /\ thread[t].s \in Sources /\ thread[t] \in ThreadType
        /\ ~overlap => OffPath(t) /\ ~thread[t].wrong /\ \A u \in Threads : ~Inserting(u)
    BY <1>2, RetireFacts
  <1>4. PICK m \in Middles, s \in Sources : m = thread[t].m /\ s = thread[t].s
    BY <1>3
  <1>5. middle' \in [Middles -> MiddleType] /\ BufNulled(m, s)
    <2>1. middle' = [middle EXCEPT ![m].buf[s] = Null]
      BY <1>1, <1>4
    <2> QED  BY <1>2, <1>4, <2>1, NullIs
  <1>6. /\ \A n \in Middles : middle'[n].owner = middle[n].owner /\ middle'[n].bits = middle[n].bits
        /\ \A n \in Middles, v \in Sources :
             middle'[n].buf[v] = IF n = m /\ v = s THEN Null ELSE middle[n].buf[v]
    BY <1>5 DEF BufNulled
  <1>7. thread' \in [Threads -> ThreadType]
    BY <1>1, <1>2, <1>3 DEF Go, ThreadType, RetirePCs
  <1>8. TypeOK'
    BY <1>1, <1>2, <1>5, <1>7, TypedTree DEF TypeOK
  <1>9. /\ Safe' /\ thread'[t].pc = "dsweep" /\ thread'[t].m = m
        /\ thread'[t].s = s /\ thread'[t].wrong = thread[t].wrong
        /\ \A u \in Threads : u # t => Stays(u) /\ thread'[u] = thread[u]
        /\ \A x : Written(x)' <=> Written(x)
        /\ \A x : Content(x)' = Content(x)
        /\ \A v : EdgesOf(v)' = EdgesOf(v)
    BY <1>1, <1>4, <1>6, <1>8, TreeStep DEF At
  <1>10. ASSUME ~overlap' PROVE Calm'
    <2>1. Calm /\ Quiet' /\ ~overlap /\ OffPath(t) /\ ~thread[t].wrong
          /\ \A u \in Threads : ~Inserting(u)
      BY <1>3, <1>10 DEF Watch, IInv, Quiet
    <2>2. s \notin middle[m].bits /\ top.child \in {m, Null}
      BY <1>1, <1>4, <2>1 DEF OffPath, At, RetirePCs
    <2>3. (\A x : Retired(x)' <=> Retired(x)) /\ Retired(Null)
      BY <1>1, <1>9 DEF Retired
    <2>4. Path'
      <3>1. Linked'
        BY <1>1, <2>1 DEF Calm, Path, Linked
      <3>2. ASSUME NEW n \in Middles, n # top.child
            PROVE  middle'[n].bits = {} /\ \A v \in Sources : Retired(middle[n].buf[v])'
        <4>1. middle[n].bits = {} /\ \A v \in Sources : Retired(middle[n].buf[v])
          BY <2>1, <3>2 DEF Calm, Path, Detached
        <4>2. \A v \in Sources : middle'[n].buf[v] \in {middle[n].buf[v], Null}
          BY <1>6
        <4> QED  BY <1>1, <1>6, <2>3, <4>1, <4>2 DEF Retired
      <3>3. Detached'
        BY <1>1, <3>2 DEF Detached
      <3>4. ASSUME NEW n \in Middles, NEW v \in Sources PROVE Buffered(n, v)'
        <4>1. CASE n = m /\ v = s
          <5>1. middle'[n].buf[v] = Null /\ v \notin middle'[n].bits
            BY <1>6, <2>2, <4>1
          <5> QED  BY <5>1 DEF Buffered
        <4>2. CASE ~(n = m /\ v = s)
          <5>1. /\ Buffered(n, v) /\ middle'[n].buf[v] = middle[n].buf[v]
                /\ middle'[n].bits = middle[n].bits
            BY <1>6, <2>1, <4>2 DEF Calm, Path
          <5>2. \A u \in Threads : At(u, "dnull") /\ thread[u].m = n /\ thread[u].s = v
                  => At(u, "dnull")' /\ Stays(u)
            BY <1>4, <1>9, <4>2 DEF At, Stays
          <5> QED  BY <1>1, <2>3, <5>1, <5>2 DEF Buffered, Stays
        <4> QED  BY <4>1, <4>2
      <3> QED  BY <3>1, <3>3, <3>4 DEF Path
    <2>5. Stored'
      <3>1. \A v \in Sources : Merging(v)' <=> Merging(v)
        BY <1>1, <1>9 DEF Merging, At, Stays
      <3>2. CASE top.child = Null
        BY <1>1, <1>9, <2>1, <3>2 DEF Calm, Stored
      <3>3. CASE top.child # Null
        <4>1. top.child = m
          BY <2>2, <3>3
        <4>2. ASSUME NEW v \in Sources
              PROVE /\ top'.child # Null => (Buf(v)' # Null =>
                          (Merging(v)' \/ Content(Buf(v))' \ {Junk} = EdgesOf(v)'))
                    /\ top'.child = Null \/ Buf(v)' = Null => EdgesOf(v)' = {}
          <5>1. CASE v = s
            <6>1. EdgesOf(v) = {}
              BY <1>2, <2>1, <2>2, <4>1, <5>1, AbsentExact
            <6>2. Buf(v)' = Null
              BY <1>1, <1>4, <1>6, <4>1, <5>1 DEF Buf
            <6> QED  BY <1>9, <6>1, <6>2
          <5>2. CASE v # s
            <6>1. Buf(v)' = Buf(v)
              BY <1>1, <1>4, <1>6, <4>1, <5>2 DEF Buf
            <6> QED  BY <1>1, <1>9, <2>1, <3>1, <6>1 DEF Calm, Stored
          <5> QED  BY <5>1, <5>2
        <4> QED  BY <4>2 DEF Stored
      <3> QED  BY <3>2, <3>3
    <2>6. ASSUME NEW u \in Threads, u # t PROVE CalmThread(u)'
      <3>1. ASSUME Writing(u) PROVE /\ thread[u].s \in middle'[thread[u].m].bits
              /\ middle'[thread[u].m].buf[thread[u].s] = middle[thread[u].m].buf[thread[u].s]
        <4>1. Bound(u) /\ OnPath(u)
          BY <1>2, <2>1 DEF Calm, CalmThread, Safe, SafeThread
        <4>2. /\ thread[u].m \in Middles /\ thread[u].s \in Sources
              /\ thread[u].s \in middle[thread[u].m].bits
          BY <3>1, <4>1 DEF Bound, OnPath, Writing, WritePCs
        <4> QED  BY <1>6, <2>2, <4>2
      <3>2. \A n \in Middles : middle'[n].bits \subseteq middle[n].bits
        BY <1>6
      <3>3. \A n \in Middles, v \in Sources : middle'[n].buf[v] \in {middle[n].buf[v], Null}
        BY <1>6
      <3> QED  BY <1>1, <1>2, <1>9, <2>1, <2>6, <3>1, <3>2, <3>3, RetireCalm
    <2>7. CalmThread(t)'
      BY <1>1, <1>9, <2>1, <2>2 DEF CalmThread, OnPath, OffPath, Told, Inserting, Writing, Viewing,
           At, ViewPCs, WritePCs, RetirePCs
    <2> QED  BY <2>1, <2>4, <2>5, <2>6, <2>7 DEF Calm
  <1> QED  BY <1>9, <1>10 DEF IInv

(* The child of the top block is unlinked.                                 *)
LEMMA DeleteRootStep ==
  ASSUME IInv, NEW t \in Threads, Watch, DeleteRoot(t)
  PROVE  IInv'
  <1>1. /\ At(t, "droot") /\ middle' = middle /\ block' = block /\ edges' = edges
        /\ Go(t, "dtopcheck") /\ top' = [top EXCEPT !.bit = FALSE, !.child = Null]
    BY DEF DeleteRoot
  <1>2. Retiring(t) /\ Safe /\ TypeOK /\ thread \in [Threads -> ThreadType]
    BY <1>1 DEF Retiring, At, IInv, Safe
  <1>3. /\ thread[t].m \in Middles /\ thread[t].s \in Sources /\ thread[t] \in ThreadType
        /\ ~overlap => OffPath(t) /\ ~thread[t].wrong /\ \A u \in Threads : ~Inserting(u)
    BY <1>2, RetireFacts
  <1>4. /\ top' \in [bit : BOOLEAN, child : Middles \cup {Null}, others : BOOLEAN, obsolete : BOOLEAN]
        /\ top'.bit = FALSE /\ top'.child = Null
    BY <1>1, <1>2 DEF TypeOK
  <1>5. thread' \in [Threads -> ThreadType]
    BY <1>1, <1>2, <1>3 DEF Go, ThreadType, RetirePCs
  <1>6. TypeOK'
    BY <1>1, <1>2, <1>4, <1>5, TypedTree DEF TypeOK, MiddleType
  <1>7. /\ Safe' /\ thread'[t].pc = "dtopcheck" /\ thread'[t].wrong = thread[t].wrong
        /\ \A u \in Threads : u # t => Stays(u) /\ thread'[u] = thread[u]
        /\ \A x : Written(x)' <=> Written(x)
        /\ \A x : Content(x)' = Content(x)
        /\ \A v : EdgesOf(v)' = EdgesOf(v)
    BY <1>1, <1>6, TreeStep DEF At
  <1>8. ASSUME ~overlap' PROVE Calm'
    <2>1. Calm /\ Quiet' /\ ~overlap /\ OffPath(t) /\ ~thread[t].wrong
          /\ \A u \in Threads : ~Inserting(u)
      BY <1>3, <1>8 DEF Watch, IInv, Quiet
    <2>2. top.child = Null \/ middle[top.child].bits = {}
      BY <1>1, <2>1 DEF OffPath
    <2>3. \A v \in Sources : EdgesOf(v) = {}
      BY <1>2, <2>1, <2>2, AbsentExact
    <2>4. \A x : Retired(x)' <=> Retired(x)
      BY <1>1, <1>7 DEF Retired
    <2>5. Path'
      <3>1. Linked'
        BY <1>4 DEF Linked
      <3>2. ASSUME NEW n \in Middles
            PROVE  middle[n].bits = {} /\ \A v \in Sources : Retired(middle[n].buf[v])
        <4>1. CASE n # top.child
          BY <2>1, <4>1 DEF Calm, Path, Detached
        <4>2. CASE n = top.child
          <5>1. middle[n].bits = {}
            BY <2>2, <4>2, NameAssumption
          <5>2. ASSUME NEW v \in Sources, middle[n].buf[v] # Null PROVE Retired(middle[n].buf[v])
            <6>1. PICK u \in Threads : At(u, "dnull") /\ thread[u].m = n /\ thread[u].s = v
              BY <2>1, <5>1, <5>2 DEF Calm, Path, Buffered
            <6> QED  BY <2>1, <6>1 DEF Calm, CalmThread, OffPath, At
          <5>3. Retired(Null)
            BY DEF Retired
          <5> QED  BY <5>1, <5>2, <5>3
        <4> QED  BY <4>1, <4>2
      <3>3. Detached'
        BY <1>1, <2>4, <3>2 DEF Detached
      <3>4. ASSUME NEW n \in Middles, NEW v \in Sources PROVE Buffered(n, v)'
        <4>1. Buffered(n, v) /\ middle'[n] = middle[n]
          BY <1>1, <2>1 DEF Calm, Path
        <4>2. \A u \in Threads : At(u, "dnull") => At(u, "dnull")' /\ Stays(u)
          BY <1>1, <1>7 DEF At, Stays
        <4> QED  BY <1>1, <2>4, <4>1, <4>2 DEF Buffered, Stays
      <3> QED  BY <3>1, <3>3, <3>4 DEF Path
    <2>6. Stored'
      BY <1>4, <1>7, <2>3 DEF Stored
    <2>7. ASSUME NEW u \in Threads, u # t PROVE CalmThread(u)'
      <3>1. Bound(u) /\ OnPath(u) /\ Seen(u)
        BY <1>2, <2>1 DEF Calm, CalmThread, Safe, SafeThread
      <3>2. ~Writing(u)
        <4>1. SUFFICES ASSUME Writing(u) PROVE FALSE
          OBVIOUS
        <4>2. thread[u].m \in Middles
          BY <3>1, <4>1 DEF Bound, Writing, WritePCs
        <4> QED  BY <2>2, <3>1, <4>1, <4>2, NameAssumption DEF OnPath
      <3>3. thread[u].pc \in {"rmiddle", "xmiddle"} => {} \in thread[u].seen
        BY <2>3, <3>1 DEF Seen, Bound, ReadPCs
      <3> QED  BY <1>1, <1>2, <1>4, <1>7, <2>1, <2>7, <3>2, <3>3, RetireCalm
    <2>8. CalmThread(t)'
      BY <1>4, <1>7, <2>1 DEF CalmThread, OnPath, OffPath, Told, Inserting, Writing, Viewing,
           At, ViewPCs, WritePCs, RetirePCs
    <2> QED  BY <2>1, <2>5, <2>6, <2>7, <2>8 DEF Calm
  <1> QED  BY <1>7, <1>8 DEF IInv

-----------------------------------------------------------------------------
(* What a block holds.                                                     *)

\* The others are where they were; a reader may have been told more.
Watches(t) ==
    \A u \in Threads : u # t =>
        /\ Stays(u) /\ thread[u].seen \subseteq thread'[u].seen
        /\ thread'[u].wrong = thread[u].wrong /\ (thread'[u].same => thread[u].same)
        /\ thread[u].pc \notin ReadPCs => thread'[u].seen = {}
        /\ thread[u].pc \in ReadPCs => EdgesOf(thread[u].s)' \in thread'[u].seen
\* In the graph g only the edges of s are others.
SameBut(s, g) == \A v : v # s => EdgesOf(v) = {d \in Dests : <<v, d>> \in g}
\* Only the edges of s change.
Only(s) == \A v \in Sources : v # s => EdgesOf(v)' = EdgesOf(v)

(* A thread changes the block it is in and keeps its own invariant; when   *)
(* it leaves the block, the block holds the edges of its source.           *)
LEMMA InsideStep ==
  ASSUME IInv, NEW t \in Threads, Writing(t), Watch, top' = top, TypeOK',
         thread' \in [Threads -> ThreadType],
         NEW s \in Sources, s = thread[t].s, NEW b \in Blocks, b = thread[t].b,
         \A x \in Blocks : x # b => block'[x] = block[x],
         \A n \in Middles : middle'[n].bits = middle[n].bits /\ middle'[n].buf = middle[n].buf,
         \A u \in Threads : u # t /\ Held(u) => Held(u)',
         Watches(t), Only(s), Writing(t)' => thread'[t].s = s /\ thread'[t].b = b,
         Junk \in block'[b].head => At(t, "fill")' /\ thread'[t].b = b,
         SafeThread(t)',
         ~overlap' => /\ CalmThread(t)'
                      /\ block'[b].obsolete => Content(b)' = {}
                      /\ Merging(s)' \/ Content(b)' \ {Junk} = EdgesOf(s)'
                      /\ ~Writing(t)' => Content(b)' = EdgesOf(s)'
  PROVE  IInv'
  <1>1. /\ Safe /\ TypeOK /\ thread[t].m \in Middles /\ thread[t].pc \in WritePCs
        /\ \A u \in Threads : u # t /\ Writing(u) => thread[u].b # b
        /\ \A n \in Middles, v \in Sources : middle[n].buf[v] = b => n = thread[t].m /\ v = s
        /\ ~overlap => OnPath(t)
    BY WriteFacts DEF IInv, Safe, Writing
  <1>o. /\ \A u \in Threads : Writing(u) \/ Viewing(u) => thread[u].b \in Blocks
        /\ \A n \in Middles, v \in Sources : middle[n].buf[v] \in Blocks \cup {Null}
    BY <1>1 DEF Safe, SafeThread, Bound, TypeOK
  <1>2. \A u \in Threads : u # t => Stays(u) /\ (Writing(u)' <=> Writing(u))
    BY DEF Watches, Stays, Writing
  <1>3. Safe'
    <2>1. OnePlace'
      BY <1>1, SamePlace DEF Safe
    <2>2. JunkHeld'
      <3>1. ASSUME NEW x \in Blocks, x # b, Junk \in block'[x].head
            PROVE  \E u \in Threads : At(u, "fill")' /\ thread'[u].b = x
        <4>1. PICK u \in Threads : At(u, "fill") /\ thread[u].b = x
          BY <1>1, <3>1 DEF Safe, JunkHeld
        <4> QED  BY <1>2, <3>1, <4>1 DEF At, Stays
      <3> QED  BY <3>1 DEF JunkHeld
    <2>3. BlockExclusive'
      <3>1. \A u, v \in Threads : u # v /\ Writing(u) /\ Writing(v) => thread[u].b # thread[v].b
        BY <1>1 DEF Safe, BlockExclusive, Writing, WritePCs
      <3>2. \A u, v \in Threads : u # v /\ Writing(u)' /\ Writing(v)' => thread'[u].b # thread'[v].b
        BY <1>1, <1>2, <3>1 DEF Stays
      <3> QED  BY <3>2 DEF BlockExclusive, Writing, WritePCs
    <2>4. ASSUME NEW u \in Threads, u # t PROVE SafeThread(u)'
      <3>1. SafeThread(u) /\ Stays(u) /\ (Held(u) => Held(u)')
        BY <1>1, <1>2, <2>4 DEF Safe
      <3>2. thread[u].pc \in {"fill", "chain"} => block'[thread[u].b] = block[thread[u].b]
        BY <1>o, <1>1, <2>4 DEF Writing, WritePCs
      <3>3. Writing(u) \/ Viewing(u) => \A n \in Middles, v \in Sources :
              middle'[n].buf[v] = thread[u].b => middle[n].buf[v] = thread[u].b
        OBVIOUS
      <3>4. /\ thread[u].pc \notin ReadPCs => thread'[u].seen = {}
            /\ thread[u].pc \in ReadPCs => EdgesOf(thread[u].s)' \in thread'[u].seen
        BY <2>4 DEF Watches
      <3> QED  BY <3>1, <3>2, <3>3, <3>4, StaysSafe
    <2> QED  BY <2>1, <2>2, <2>3, <2>4 DEF Safe
  <1>4. ASSUME ~overlap' PROVE Calm'
    <2>1. Calm /\ Quiet' /\ ~overlap /\ OnPath(t)
      BY <1>1, <1>4 DEF Watch, IInv, Quiet
    <2>2. /\ thread[t].m = top.child /\ s \in middle[thread[t].m].bits
          /\ middle[thread[t].m].buf[s] = b /\ ~block[b].obsolete /\ top.child # Null
      BY <1>1, <2>1, NameAssumption DEF OnPath
    <2>3. \A x \in Blocks : x # b => Content(x)' = Content(x) /\ (Retired(x)' <=> Retired(x))
      BY DEF Content, Retired
    <2>4. Path'
      <3>1. Linked'
        BY <2>1 DEF Calm, Path, Linked
      <3>2. Detached'
        <4>1. ASSUME NEW n \in Middles, n # top.child
              PROVE  middle[n].bits = {} /\ \A v \in Sources : Retired(middle[n].buf[v])'
          <5>1. \A v \in Sources : Retired(middle[n].buf[v]) /\ middle[n].buf[v] # b
            BY <1>1, <2>1, <2>2, <4>1 DEF Calm, Path, Detached
          <5>2. \A v \in Sources : middle'[n].buf[v] = middle[n].buf[v]
            OBVIOUS
          <5>3. ASSUME NEW v \in Sources PROVE Retired(middle[n].buf[v])'
            <6>1. PICK x \in Blocks \cup {Null} : x = middle[n].buf[v]
              BY <1>o
            <6>2. x # b /\ Retired(x) /\ middle'[n].buf[v] = x
              BY <5>1, <5>2, <6>1
            <6>3. Retired(x)'
              BY <2>3, <6>2 DEF Retired
            <6> QED  BY <6>2, <6>3 DEF Retired, Content
          <5> QED  BY <2>1, <4>1, <5>3 DEF Calm, Path, Detached
        <4> QED  BY <4>1 DEF Detached
      <3>3. ASSUME NEW n \in Middles, NEW v \in Sources PROVE Buffered(n, v)'
        <4>1. Buffered(n, v) /\ middle'[n].buf[v] = middle[n].buf[v] /\ middle'[n].bits = middle[n].bits
          BY <2>1 DEF Calm, Path
        <4>2. \A u \in Threads : At(u, "dnull") => At(u, "dnull")' /\ Stays(u)
          BY <1>1, <1>2 DEF At, Stays, WritePCs
        <4>3. CASE middle[n].buf[v] = b
          <5>1. block'[b].obsolete => Retired(b)'
            BY <1>4 DEF Retired
          <5>2. middle[n].buf[v]' = b
            BY <4>1, <4>3
          <5>3. Retired(middle[n].buf[v])' <=> Retired(b)'
            BY <5>2 DEF Retired, Content
          <5> QED  BY <4>1, <4>2, <4>3, <5>1, <5>2, <5>3 DEF Buffered, Stays
        <4>4. CASE middle[n].buf[v] # b
          <5>1. PICK x \in Blocks \cup {Null} : x = middle[n].buf[v]
            BY <1>o
          <5>2. /\ x # Null => block'[x] = block[x]
                /\ x # Null => (Retired(x)' <=> Retired(x))
            BY <2>3, <4>4, <5>1
          <5>3. middle[n].buf[v]' = x /\ (Retired(middle[n].buf[v])' <=> Retired(x)')
            BY <4>1, <5>1 DEF Retired, Content
          <5> QED  BY <4>1, <4>2, <5>1, <5>2, <5>3 DEF Buffered, Stays
        <4> QED  BY <4>3, <4>4
      <3> QED  BY <3>1, <3>2, <3>3 DEF Path
    <2>5. Stored'
      <3>1. \A v \in Sources : Buf(v)' = Buf(v)
        BY <1>1, <2>2 DEF Buf
      <3>2. Buf(s) = b /\ \A v \in Sources : v # s => Buf(v) # b
        BY <1>1, <2>2 DEF Buf
      <3>3. \A v \in Sources : v # s => (Merging(v)' <=> Merging(v))
        <4>1. At(t, "chain")' => thread'[t].s = s
          BY DEF Writing, WritePCs, At
        <4> QED  BY <1>2, <4>1 DEF Merging, At, Stays
      <3>4. ASSUME NEW v \in Sources
            PROVE /\ top'.child # Null => (Buf(v)' # Null =>
                        (Merging(v)' \/ Content(Buf(v))' \ {Junk} = EdgesOf(v)'))
                  /\ top'.child = Null \/ Buf(v)' = Null => EdgesOf(v)' = {}
        <4>1. CASE v = s
          <5>1. Content(Buf(v))' = Content(b)'
            BY <3>1, <3>2, <4>1 DEF Content
          <5>2. Buf(v)' # Null /\ top'.child # Null
            BY <2>2, <3>1, <3>2, <4>1, NameAssumption
          <5> QED  BY <1>4, <4>1, <5>1, <5>2
        <4>2. CASE v # s
          <5>1. Buf(v) # Null => Content(Buf(v))' = Content(Buf(v))
            <6>1. Buf(v) \in Blocks \cup {Null} /\ Buf(v) # b
              BY <1>o, <1>1, <2>2, <3>2, <4>2 DEF Buf
            <6> QED  BY <3>1, <6>1 DEF Content
          <5> QED  BY <2>1, <3>1, <3>3, <4>2, <5>1 DEF Calm, Stored, Only
        <4> QED  BY <4>1, <4>2
      <3> QED  BY <3>4 DEF Stored
    <2>6. Written(b) /\ \A x : x # b => (Written(x)' <=> Written(x))
      <3>1. Written(b)
        BY DEF Written
      <3> QED  BY <1>2, <3>1 DEF Written, Stays
    <2>7. ASSUME NEW u \in Threads, u # t PROVE CalmThread(u)'
      <3>1. Bound(u) /\ Home(u) /\ OnPath(u) /\ OffPath(u) /\ Told(u) /\ Stays(u)
        BY <1>1, <1>2, <2>1, <2>7 DEF Calm, CalmThread, Safe, SafeThread
      <3>2. OnPath(u)'
        <4>1. At(u, "unlocked") \/ Writing(u) => thread[u].m \in Middles /\ thread[u].s \in Sources
          BY <3>1 DEF Bound, Writing, At, WritePCs
        <4>2. Writing(u) => thread[u].b # b /\ block'[thread[u].b] = block[thread[u].b]
          BY <1>o, <1>1, <2>7
        <4>3. At(u, "chain") => EdgesOf(thread[u].s)' = EdgesOf(thread[u].s)
          <5>1. SUFFICES ASSUME At(u, "chain")
                PROVE EdgesOf(thread[u].s)' = EdgesOf(thread[u].s)
            OBVIOUS
          <5>2. Writing(u) /\ Inserting(u) /\ ~At(u, "top")
            BY <5>1 DEF Writing, WritePCs, Inserting, At
          <5>3. PICK v \in Sources : v = thread[u].s
            BY <4>1, <5>2
          <5>4. v # s /\ thread'[u].s = v
            BY <2>2, <3>1, <4>2, <5>2, <5>3 DEF OnPath, Stays
          <5>5. EdgesOf(thread[u].s)' = EdgesOf(v)'
            BY <5>4 DEF EdgesOf
          <5> QED  BY <5>3, <5>4, <5>5 DEF Only
        <4>4. At(u, "unlocked") \/ Writing(u) =>
                /\ middle'[thread[u].m].bits = middle[thread[u].m].bits
                /\ middle'[thread[u].m].buf = middle[thread[u].m].buf
          BY <4>1
        <4> QED  BY <3>1, <4>2, <4>3, <4>4 DEF OnPath, Inserting, Writing, At, Stays
      <3>3. OffPath(u)'
        <4>1. thread[u].pc \in RetirePCs \ {"dtopcheck"} =>
                  thread[u].s \in Sources /\ thread[u].m \in Middles
          BY <3>1 DEF Bound, RetirePCs
        <4>2. thread[u].pc \in {"dclear", "dnull"} =>
                  Retired(middle[thread[u].m].buf[thread[u].s])'
          <5>1. SUFFICES ASSUME thread[u].pc \in {"dclear", "dnull"}
                PROVE Retired(middle[thread[u].m].buf[thread[u].s])'
            OBVIOUS
          <5>2. /\ thread[u].m \in Middles /\ thread[u].s \in Sources
                /\ Retired(middle[thread[u].m].buf[thread[u].s])
            BY <3>1, <4>1, <5>1 DEF OffPath, RetirePCs
          <5>3. PICK x : x = middle[thread[u].m].buf[thread[u].s]
            OBVIOUS
          <5>4. x # b /\ Retired(x) /\ x \in Blocks \cup {Null}
            BY <1>o, <1>1, <2>2, <5>2, <5>3, NameAssumption DEF Retired
          <5>5. middle'[thread'[u].m].buf[thread'[u].s] = x
            BY <3>1, <5>2, <5>3 DEF Stays
          <5> QED  BY <2>3, <5>4, <5>5 DEF Retired, Content
        <4>3. top'.child = top.child
          OBVIOUS
        <4>4. top.child \in Middles
          BY <1>1, <2>2
        <4> QED  BY <3>1, <4>1, <4>2, <4>3, <4>4 DEF OffPath, RetirePCs, At, Stays
      <3>4. Told(u)'
        <4>1. CASE Viewing(u) /\ thread[u].b = b
          <5>1. thread[u].s = s /\ EdgesOf(s)' \in thread'[u].seen
                /\ thread'[u].wrong = thread[u].wrong /\ (thread'[u].same => thread[u].same)
            <6>1. thread[u].s = s
              BY <1>1, <2>2, <3>1, <4>1 DEF Home
            <6>2. thread[u].pc \in ReadPCs
              BY <4>1 DEF Viewing, ReadPCs
            <6>3. EdgesOf(thread[u].s)' = EdgesOf(s)'
              BY <3>1, <6>1 DEF EdgesOf, Stays
            <6> QED  BY <2>7, <6>1, <6>2, <6>3 DEF Watches
          <5>2. ~Written(b)' => Content(b)' = EdgesOf(s)'
            <6>1. Writing(t)' => Written(b)'
              BY DEF Written
            <6> QED  BY <1>4, <6>1
          <5>3. ~Written(b)' => Content(b)' \in thread'[u].seen
            BY <5>1, <5>2
          <5>4. ~(thread[u].same /\ thread[u].pc \in {"rhead", "rarray", "rcheck"})
            BY <2>6, <3>1, <4>1 DEF Told
          <5>5. thread'[u].b = b /\ thread'[u].pc = thread[u].pc /\ ~thread[u].wrong
                /\ thread[u].pc \notin {"rmiddle", "xmiddle"}
            BY <3>1, <4>1 DEF Told, Viewing, ViewPCs, Stays
          <5>6. /\ ~Written(thread[u].b)' => Content(thread[u].b)' \in thread'[u].seen
            BY <5>3, <5>5 DEF Content, Written
          <5> QED  BY <5>1, <5>4, <5>5, <5>6 DEF Told, At
        <4>2. CASE ~(Viewing(u) /\ thread[u].b = b)
          <5>1. Viewing(u) => /\ Written(thread[u].b)' <=> Written(thread[u].b)
                              /\ block'[thread[u].b].head = block[thread[u].b].head
                              /\ block'[thread[u].b].array = block[thread[u].b].array
            <6>1. ASSUME Viewing(u)
                  PROVE /\ Written(thread[u].b)' <=> Written(thread[u].b)
                        /\ block'[thread[u].b] = block[thread[u].b]
              <7>1. PICK x : x = thread[u].b
                OBVIOUS
              <7>2. x # b /\ x \in Blocks /\ thread'[u].b = x
                BY <1>o, <3>1, <4>2, <6>1, <7>1 DEF Stays
              <7>3. Written(thread[u].b)' <=> Written(x)'
                BY <7>2 DEF Written
              <7> QED  BY <2>6, <7>1, <7>2, <7>3
            <6> QED  BY <6>1
          <5>2. thread[u].seen \subseteq thread'[u].seen /\ thread'[u].wrong = thread[u].wrong
                /\ (thread'[u].same => thread[u].same)
            BY <2>7 DEF Watches
          <5> QED  BY <3>1, <5>1, <5>2, ToldKeeps
        <4> QED  BY <4>1, <4>2
      <3> QED  BY <3>2, <3>3, <3>4 DEF CalmThread
    <2> QED  BY <1>4, <2>1, <2>4, <2>5, <2>7 DEF Calm
  <1> QED  BY <1>3, <1>4 DEF IInv

(* The variables of a reader that is told what the source has now.         *)
LEMMA SeenRecord ==
  ASSUME NEW r \in ThreadType, NEW x \in SUBSET (SUBSET Dests)
  PROVE  /\ [r EXCEPT !.seen = x] \in ThreadType
         /\ [r EXCEPT !.seen = x].pc = r.pc /\ [r EXCEPT !.seen = x].s = r.s
         /\ [r EXCEPT !.seen = x].d = r.d /\ [r EXCEPT !.seen = x].m = r.m
         /\ [r EXCEPT !.seen = x].b = r.b /\ [r EXCEPT !.seen = x].got = r.got
         /\ [r EXCEPT !.seen = x].same = r.same /\ [r EXCEPT !.seen = x].wrong = r.wrong
         /\ [r EXCEPT !.seen = x].seen = x
  BY DEF ThreadType

(* The graph becomes g: the readers of s know.                             *)
LEMMA BecomesIs ==
  ASSUME Safe, NEW t \in Threads, NEW s \in Sources, NEW g \in SUBSET (Sources \X Dests),
         NEW r \in ThreadType, r.seen = {}, Becomes(g, s, [thread EXCEPT ![t] = r]),
         SameBut(s, g)
  PROVE  /\ thread' \in [Threads -> ThreadType] /\ thread'[t] = r /\ edges' = g
         /\ Watches(t) /\ Only(s)
  <1> DEFINE T == [thread EXCEPT ![t] = r]
             now == {e[2] : e \in {x \in g : x[1] = s}}
  <1>1. /\ edges' = g
        /\ thread' = [u \in Threads |-> IF T[u].s = s /\ T[u].seen # {}
                        THEN [T[u] EXCEPT !.seen = T[u].seen \cup {now}] ELSE T[u]]
    BY DEF Becomes
  <1>2. thread \in [Threads -> ThreadType] /\ T \in [Threads -> ThreadType] /\ T[t] = r
        /\ \A u \in Threads : u # t => T[u] = thread[u]
    BY DEF Safe
  <1>3. now = EdgesOf(s)' /\ now \in SUBSET Dests
    BY <1>1, EdgesOfIs DEF EdgesOf
  <1> HIDE DEF T, now
  <1>4. ASSUME NEW u \in Threads, T[u].s = s, T[u].seen # {}
        PROVE  /\ thread'[u] \in ThreadType /\ u # t /\ T[u] = thread[u]
               /\ Stays(u) /\ thread'[u].seen = thread[u].seen \cup {now}
               /\ thread'[u].wrong = thread[u].wrong /\ thread'[u].same = thread[u].same
    <2>1. u # t /\ T[u] = thread[u] /\ thread[u] \in ThreadType
      BY <1>2, <1>4
    <2>2. PICK x \in SUBSET (SUBSET Dests) : x = thread[u].seen \cup {now}
      BY <1>3, <2>1 DEF ThreadType
    <2>3. thread'[u] = [thread[u] EXCEPT !.seen = x]
      BY <1>1, <1>4, <2>1, <2>2
    <2>4. PICK v \in ThreadType : v = thread[u]
      BY <2>1
    <2>5. /\ [v EXCEPT !.seen = x] \in ThreadType
          /\ [v EXCEPT !.seen = x].pc = v.pc /\ [v EXCEPT !.seen = x].s = v.s
          /\ [v EXCEPT !.seen = x].d = v.d /\ [v EXCEPT !.seen = x].m = v.m
          /\ [v EXCEPT !.seen = x].b = v.b /\ [v EXCEPT !.seen = x].got = v.got
          /\ [v EXCEPT !.seen = x].same = v.same /\ [v EXCEPT !.seen = x].wrong = v.wrong
          /\ [v EXCEPT !.seen = x].seen = x
      BY SeenRecord
    <2> QED  BY <2>1, <2>2, <2>3, <2>4, <2>5 DEF Stays
  <1>5. ASSUME NEW u \in Threads, ~(T[u].s = s /\ T[u].seen # {}) PROVE thread'[u] = T[u]
    BY <1>1, <1>5
  <1>6. thread' \in [Threads -> ThreadType]
    <2>1. \A u \in Threads : thread'[u] \in ThreadType
      BY <1>2, <1>4, <1>5
    <2>2. thread' = [u \in Threads |-> thread'[u]]
      BY <1>1
    <2> QED  BY <2>1, <2>2
  <1>7. thread'[t] = r
    BY <1>2, <1>5
  <1>8. Only(s)
    <2>1. ASSUME NEW v \in Sources, v # s PROVE EdgesOf(v)' = EdgesOf(v)
      BY <1>1, <2>1 DEF EdgesOf, SameBut
    <2> QED  BY <2>1 DEF Only
  <1>9. Watches(t)
    <2>1. ASSUME NEW u \in Threads, u # t
          PROVE /\ Stays(u) /\ thread[u].seen \subseteq thread'[u].seen
                /\ thread'[u].wrong = thread[u].wrong /\ (thread'[u].same => thread[u].same)
                /\ thread[u].pc \notin ReadPCs => thread'[u].seen = {}
                /\ thread[u].pc \in ReadPCs => EdgesOf(thread[u].s)' \in thread'[u].seen
      <3>1. T[u] = thread[u] /\ Bound(u) /\ Seen(u)
        BY <1>2, <2>1 DEF Safe, SafeThread
      <3>2. CASE T[u].s = s /\ T[u].seen # {}
        <4>1. /\ Stays(u) /\ thread'[u].seen = thread[u].seen \cup {now}
              /\ thread'[u].wrong = thread[u].wrong /\ thread'[u].same = thread[u].same
          BY <1>4, <3>2
        <4>2. thread'[u].s = s
          BY <3>1, <3>2, <4>1 DEF Stays
        <4>3. EdgesOf(thread[u].s)' = EdgesOf(s)'
          BY <4>2 DEF EdgesOf
        <4>4. thread[u].pc \in ReadPCs
          BY <3>1, <3>2 DEF Bound
        <4> QED  BY <1>3, <4>1, <4>3, <4>4
      <3>3. CASE ~(T[u].s = s /\ T[u].seen # {})
        <4>1. thread'[u] = thread[u]
          BY <1>5, <3>1, <3>3
        <4>2. thread[u].pc \in ReadPCs => thread[u].s # s /\ EdgesOf(thread[u].s) \in thread[u].seen
          BY <3>1, <3>3 DEF Seen
        <4>3. PICK v : v = thread[u].s
          OBVIOUS
        <4>4. thread[u].pc \in ReadPCs => EdgesOf(v)' \in thread'[u].seen
          BY <1>1, <4>1, <4>2, <4>3 DEF EdgesOf, SameBut
        <4>5. EdgesOf(thread[u].s)' = EdgesOf(v)'
          BY <4>1, <4>3 DEF EdgesOf
        <4>6. thread[u].pc \notin ReadPCs => thread'[u].seen = {}
          BY <3>1, <4>1 DEF Bound
        <4> QED  BY <4>1, <4>4, <4>5, <4>6 DEF Stays
      <3> QED  BY <3>2, <3>3
    <2> QED  BY <2>1 DEF Watches
  <1> QED  BY <1>1, <1>6, <1>7, <1>8, <1>9

(* The others when only thread t changes its variables.                    *)
LEMMA AloneWatches ==
  ASSUME Safe, NEW t \in Threads, Alone(t), edges' = edges, NEW s
  PROVE  Watches(t) /\ Only(s)
  <1>1. ASSUME NEW u \in Threads, u # t
        PROVE  /\ Stays(u) /\ thread'[u] = thread[u]
               /\ thread[u].pc \notin ReadPCs => thread'[u].seen = {}
               /\ thread[u].pc \in ReadPCs => EdgesOf(thread[u].s)' \in thread'[u].seen
    BY <1>1, SeenKeeps DEF Safe, Alone, Stays
  <1> QED  BY <1>1 DEF Watches, Only, EdgesOf

(* The fields of the blocks when the content of one changes.               *)
LEMMA BlockIs ==
  ASSUME TypeOK, NEW b \in Blocks, NEW head \in SUBSET (Dests \cup {Junk}),
         NEW array \in SUBSET Dests, NEW obsolete \in BOOLEAN,
         Cardinality(head) <= Capacity(b), array # {} => block[b].five,
         block' = [block EXCEPT ![b].head = head, ![b].array = array, ![b].obsolete = obsolete]
  PROVE  /\ block' \in [Blocks -> BlockType] /\ \A x \in Blocks : Fits(block'[x])
         /\ \A x \in Blocks : x # b => block'[x] = block[x]
         /\ block'[b].head = head /\ block'[b].array = array /\ block'[b].obsolete = obsolete
         /\ block'[b].five = block[b].five
  <1>1. block \in [Blocks -> BlockType] /\ \A x \in Blocks : Fits(block[x])
    BY BlocksTyped
  <1>2. block' = [block EXCEPT ![b] = [block[b] EXCEPT !.head = head, !.array = array, !.obsolete = obsolete]]
    BY <1>1
  <1>3. PICK r : r = [block[b] EXCEPT !.head = head, !.array = array, !.obsolete = obsolete]
    OBVIOUS
  <1>4. /\ r \in BlockType /\ r.head = head /\ r.array = array /\ r.obsolete = obsolete
        /\ r.five = block[b].five
    BY <1>1, <1>3 DEF BlockType
  <1>5. Fits(r)
    BY <1>4 DEF Fits, Capacity
  <1>6. block' = [block EXCEPT ![b] = r]
    BY <1>2, <1>3
  <1>7. block'[b] = r /\ \A x \in Blocks : x # b => block'[x] = block[x]
    BY <1>1, <1>6
  <1>8. block' \in [Blocks -> BlockType]
    BY <1>1, <1>4, <1>6
  <1>9. \A x \in Blocks : Fits(block'[x])
    BY <1>1, <1>5, <1>7
  <1> QED  BY <1>4, <1>7, <1>8, <1>9

(* The number of slots in use.                                             *)
LEMMA HeadFacts ==
  ASSUME NEW head \in SUBSET (Dests \cup {Junk}), NEW x
  PROVE  /\ IsFiniteSet(head) /\ Cardinality(head) \in Nat /\ Cardinality({}) = 0
         /\ Cardinality(head \cup {x}) <= Cardinality(head) + 1
         /\ Cardinality(head \ {x}) <= Cardinality(head)
         /\ Cardinality(head \cup {x}) \in Nat /\ Cardinality(head \ {x}) \in Nat
         /\ x \in head => Cardinality(head \ {x}) = Cardinality(head) - 1
         /\ IsFiniteSet(head \ {x})
  <1>1. IsFiniteSet(Dests \cup {Junk})
    BY SizeAssumption, FS_AddElement
  <1>2. IsFiniteSet(head)
    BY <1>1, FS_Subset
  <1>3. Cardinality(head) \in Nat
    BY <1>2, FS_CardinalityType
  <1>4. /\ Cardinality(head \cup {x}) = IF x \in head THEN Cardinality(head) ELSE Cardinality(head) + 1
        /\ Cardinality(head \ {x}) = IF x \in head THEN Cardinality(head) - 1 ELSE Cardinality(head)
        /\ IsFiniteSet(head \cup {x}) /\ IsFiniteSet(head \ {x})
    BY <1>2, FS_AddElement, FS_RemoveElement
  <1>5. Cardinality(head \cup {x}) \in Nat /\ Cardinality(head \ {x}) \in Nat
    BY <1>4, FS_CardinalityType
  <1> QED  BY <1>2, <1>3, <1>4, <1>5, FS_EmptySet

\* An insertion of an edge of s changes block b and goes on inside it,
\* with the variables r.
KeepsInside(t, r, s, b) ==
    /\ thread[t].pc \in {"apply", "chain"} /\ r.pc \in {"fill", "chain"}
    /\ s = thread[t].s /\ b = thread[t].b
    /\ thread' = [thread EXCEPT ![t] = r] /\ r.s = s /\ r.d = thread[t].d
    /\ r.m = thread[t].m /\ r.b = b /\ r.seen = thread[t].seen /\ r.wrong = thread[t].wrong
    /\ top' = top /\ middle' = middle /\ edges' = edges
    /\ block' \in [Blocks -> BlockType] /\ \A x \in Blocks : Fits(block'[x])
    /\ \A x \in Blocks : x # b => block'[x] = block[x]
    /\ block'[b].obsolete = block[b].obsolete
    /\ Junk \in block'[b].head => r.pc = "fill"
    /\ r.pc = "fill" => Junk \in block'[b].head \/ block'[b].head = {}
    /\ r.pc = "chain" => block'[b].head = {} /\ block'[b].five /\ r.got \subseteq Dests
    /\ ~overlap /\ r.pc = "chain" => r.got = EdgesOf(s)
    /\ ~overlap /\ r.pc = "fill" => (block'[b].head \cup block'[b].array) \ {Junk} = EdgesOf(s)

(* Such a step keeps the invariant.                                        *)
LEMMA KeepInside ==
  ASSUME IInv, NEW t \in Threads, Watch, NEW r \in ThreadType,
         NEW s \in Sources, NEW b \in Blocks, KeepsInside(t, r, s, b)
  PROVE  IInv'
  <1>k. /\ thread[t].pc \in {"apply", "chain"} /\ r.pc \in {"fill", "chain"}
        /\ s = thread[t].s /\ b = thread[t].b
        /\ thread' = [thread EXCEPT ![t] = r] /\ r.s = s /\ r.d = thread[t].d
        /\ r.m = thread[t].m /\ r.b = b /\ r.seen = thread[t].seen /\ r.wrong = thread[t].wrong
        /\ top' = top /\ middle' = middle /\ edges' = edges
        /\ block' \in [Blocks -> BlockType] /\ \A x \in Blocks : Fits(block'[x])
        /\ \A x \in Blocks : x # b => block'[x] = block[x]
        /\ block'[b].obsolete = block[b].obsolete
        /\ Junk \in block'[b].head => r.pc = "fill"
        /\ r.pc = "fill" => Junk \in block'[b].head \/ block'[b].head = {}
        /\ r.pc = "chain" => block'[b].head = {} /\ block'[b].five /\ r.got \subseteq Dests
        /\ ~overlap /\ r.pc = "chain" => r.got = EdgesOf(s)
        /\ ~overlap /\ r.pc = "fill" => Content(b)' \ {Junk} = EdgesOf(s)
    BY DEF KeepsInside, Content
  <1> USE <1>k
  <1>1. Writing(t) /\ Safe /\ TypeOK /\ thread \in [Threads -> ThreadType] /\ Inserting(t)
        /\ thread[t].pc \notin {"top", "setbit", "unlocked"}
    BY DEF Writing, WritePCs, IInv, Safe, Inserting
  <1>2. /\ thread[t].m \in Middles /\ thread[t].d \in Dests /\ thread[t].seen = {}
        /\ middle[thread[t].m].owner[s] = t
        /\ \A m \in Middles, v \in Sources : middle[m].buf[v] = b => m = thread[t].m /\ v = s
        /\ ~overlap => OnPath(t) /\ ~thread[t].wrong
    BY <1>1, WriteFacts
  <1>3. /\ thread' \in [Threads -> ThreadType] /\ thread'[t] = r /\ Alone(t)
    BY <1>1 DEF Alone
  <1>4. edges' \in SUBSET (Sources \X Dests) /\ middle' \in [Middles -> MiddleType]
    BY <1>1 DEF TypeOK, MiddleType
  <1>5. TypeOK'
    BY <1>1, <1>3, <1>4, TypedBlocks
  <1>6. Watches(t) /\ Only(s)
    BY <1>1, <1>3, AloneWatches
  <1>7. \A u \in Threads : u # t /\ Held(u) => Held(u)'
    BY <1>3 DEF Held, Writing, At, Alone
  <1>8. Writing(t)' /\ Inserting(t)' /\ ~Viewing(t)'
    BY <1>3 DEF Writing, WritePCs, Inserting, Viewing, ViewPCs
  <1>9. SafeThread(t)'
    <2>1. Bound(t)'
      BY <1>2, <1>3, <1>8 DEF Bound, At, ReadPCs, ViewPCs, InsertPCs, DeletePCs
    <2>2. Held(t)' /\ Home(t)' /\ Seen(t)'
      BY <1>2, <1>3 DEF Held, Home, Seen, ReadPCs, ViewPCs
    <2>3. Filling(t)'
      BY <1>3 DEF Filling, At
    <2> QED  BY <2>1, <2>2, <2>3 DEF SafeThread
  <1>10. ASSUME ~overlap' PROVE /\ CalmThread(t)'
                                /\ ~block'[b].obsolete
                                /\ Merging(s)' \/ Content(b)' \ {Junk} = EdgesOf(s)'
    <2>1. ~overlap /\ OnPath(t) /\ ~thread[t].wrong
      BY <1>2, <1>10 DEF Watch
    <2>2. /\ thread[t].m = top.child /\ s \in middle[thread[t].m].bits
          /\ b = middle[thread[t].m].buf[s] /\ ~block[b].obsolete
      BY <1>1, <2>1 DEF OnPath
    <2>3. EdgesOf(s)' = EdgesOf(s)
      BY DEF EdgesOf
    <2>4. r.pc = "chain" => Merging(s)'
      BY <1>3 DEF Merging, At
    <2>5. OnPath(t)'
      <3>1. At(t, "chain")' => r.got = EdgesOf(s)'
        BY <1>3, <2>1, <2>3 DEF At
      <3>2. EdgesOf(thread[t].s)' = EdgesOf(s)'
        BY <1>3 DEF EdgesOf
      <3> QED  BY <1>3, <2>2, <3>1, <3>2 DEF OnPath, At
    <2>6. OffPath(t)' /\ Told(t)'
      BY <1>3, <1>8, <2>1 DEF OffPath, Told, At, RetirePCs
    <2> QED  BY <1>10, <2>1, <2>2, <2>3, <2>4, <2>5, <2>6 DEF CalmThread
  <1>11. Junk \in block'[b].head => At(t, "fill")' /\ thread'[t].b = b
    BY <1>3 DEF At
  <1> QED  BY <1>1, <1>3, <1>5, <1>6, <1>7, <1>8, <1>9, <1>10, <1>11, InsideStep

(* A slot is taken before its vertex is written.                           *)
LEMMA ApplyClaimStep ==
  ASSUME IInv, NEW t \in Threads, Watch, At(t, "apply"), ApplyClaim(t), top' = top
  PROVE  IInv'
  <1>1. Writing(t) /\ Safe /\ TypeOK /\ thread \in [Threads -> ThreadType]
    BY DEF Writing, WritePCs, At, IInv, Safe
  <1>2. PICK b \in Blocks, s \in Sources : b = thread[t].b /\ s = thread[t].s
    BY <1>1, WriteFacts
  <1>3. PICK head \in SUBSET (Dests \cup {Junk}) : head = block[b].head \cup {Junk}
    BY <1>1 DEF TypeOK
  <1>4. block[b].head \in SUBSET (Dests \cup {Junk}) /\ block[b].array \in SUBSET Dests
        /\ block[b].obsolete \in BOOLEAN /\ block \in [Blocks -> BlockType]
    BY <1>1, BlocksTyped DEF TypeOK
  <1>5. Cardinality(head) <= Capacity(b)
    <2>1. /\ Cardinality(block[b].head) \in Nat /\ Cardinality(head) <= Cardinality(block[b].head) + 1
          /\ Cardinality(head) \in Nat
      BY <1>3, <1>4, HeadFacts
    <2>2. Cardinality(block[b].head) < Capacity(b) /\ Capacity(b) \in Nat
      BY <1>2, SizeAssumption DEF ApplyClaim, Capacity
    <2> QED  BY <2>1, <2>2
  <1>6. block[b].array # {} => block[b].five
    BY <1>1 DEF TypeOK
  <1>7. block' = [block EXCEPT ![b].head = head, ![b].array = block[b].array, ![b].obsolete = block[b].obsolete]
    <2>1. [block[b] EXCEPT !.head = head]
            = [block[b] EXCEPT !.head = head, !.array = block[b].array, !.obsolete = block[b].obsolete]
      BY <1>4 DEF BlockType
    <2>2. block' = [block EXCEPT ![b] = [block[b] EXCEPT !.head = head]]
      BY <1>2, <1>3 DEF ApplyClaim
    <2> QED  BY <1>4, <2>1, <2>2
  <1>8. /\ block' \in [Blocks -> BlockType] /\ \A x \in Blocks : Fits(block'[x])
        /\ \A x \in Blocks : x # b => block'[x] = block[x]
        /\ block'[b].head = head /\ block'[b].array = block[b].array
        /\ block'[b].obsolete = block[b].obsolete
    BY <1>1, <1>4, <1>5, <1>6, <1>7, BlockIs
  <1>9. PICK r \in ThreadType :
          /\ thread' = [thread EXCEPT ![t] = r] /\ r.pc = "fill" /\ r.s = thread[t].s /\ r.d = thread[t].d
          /\ r.m = thread[t].m /\ r.b = thread[t].b /\ r.seen = thread[t].seen /\ r.wrong = thread[t].wrong
    <2>1. thread[t] \in ThreadType /\ "fill" \in InsertPCs \cup RetirePCs \cup DeletePCs \cup ReadPCs
      BY <1>1 DEF InsertPCs
    <2>2. thread' = [thread EXCEPT ![t] = [thread[t] EXCEPT !.pc = "fill"]]
      BY DEF ApplyClaim, Go
    <2> QED  BY <2>1, <2>2, MovedRecord
  <1>10. ~overlap => Content(b)' \ {Junk} = EdgesOf(s)
    <2>1. SUFFICES ASSUME ~overlap PROVE Content(b)' \ {Junk} = EdgesOf(s)
      OBVIOUS
    <2>2. Content(b) = EdgesOf(s)
      BY <1>2, <2>1, OwnExact DEF At
    <2>3. Junk \notin EdgesOf(s)
      BY NameAssumption DEF EdgesOf
    <2> QED  BY <1>3, <1>8, <2>2, <2>3 DEF Content
  <1>11. thread[t].pc = "apply" /\ top' = top /\ middle' = middle /\ edges' = edges /\ Junk \in head
    BY <1>3 DEF At, ApplyClaim
  <1>12. KeepsInside(t, r, s, b)
    BY <1>2, <1>8, <1>9, <1>10, <1>11 DEF KeepsInside, Content
  <1> QED  BY <1>12, KeepInside

(* A full head is about to go to the edge array.                           *)
LEMMA ApplyResetStep ==
  ASSUME IInv, NEW t \in Threads, Watch, At(t, "apply"), ApplyReset(t), top' = top
  PROVE  IInv'
  <1>1. Writing(t) /\ Safe /\ TypeOK /\ thread \in [Threads -> ThreadType]
    BY DEF Writing, WritePCs, At, IInv, Safe
  <1>2. PICK b \in Blocks, s \in Sources : b = thread[t].b /\ s = thread[t].s
    BY <1>1, WriteFacts
  <1>4. block[b].head \in SUBSET (Dests \cup {Junk}) /\ block[b].array \in SUBSET Dests
        /\ block[b].obsolete \in BOOLEAN /\ block \in [Blocks -> BlockType] /\ block[b].five
    BY <1>1, <1>2, BlocksTyped DEF TypeOK, ApplyReset
  <1>5. Cardinality({}) <= Capacity(b) /\ {} \in SUBSET (Dests \cup {Junk})
    BY FS_EmptySet, SizeAssumption DEF Capacity
  <1>7. block' = [block EXCEPT ![b].head = {}, ![b].array = block[b].array, ![b].obsolete = block[b].obsolete]
    <2>1. [block[b] EXCEPT !.head = {}]
            = [block[b] EXCEPT !.head = {}, !.array = block[b].array, !.obsolete = block[b].obsolete]
      BY <1>4 DEF BlockType
    <2>2. block' = [block EXCEPT ![b] = [block[b] EXCEPT !.head = {}]]
      BY <1>2 DEF ApplyReset
    <2> QED  BY <1>4, <2>1, <2>2
  <1>8. /\ block' \in [Blocks -> BlockType] /\ \A x \in Blocks : Fits(block'[x])
        /\ \A x \in Blocks : x # b => block'[x] = block[x]
        /\ block'[b].head = {} /\ block'[b].five
        /\ block'[b].obsolete = block[b].obsolete
    BY <1>1, <1>4, <1>5, <1>7, BlockIs
  \* Nobody else fills a slot of this block.
  <1>10. Content(b) \subseteq Dests
    <2>1. SUFFICES ASSUME Junk \in block[b].head PROVE FALSE
      BY <1>4 DEF Content
    <2>2. PICK u \in Threads : At(u, "fill") /\ thread[u].b = b
      BY <1>1, <2>1 DEF Safe, JunkHeld
    <2>3. u # t /\ Writing(u)
      BY <2>2 DEF At, Writing, WritePCs
    <2> QED  BY <1>1, <1>2, <2>2, <2>3, WriteFacts
  <1>11. PICK got \in SUBSET Dests : got = Content(b)
    BY <1>10
  <1>9. PICK r \in ThreadType :
          /\ thread' = [thread EXCEPT ![t] = r] /\ r.pc = "chain" /\ r.s = thread[t].s /\ r.d = thread[t].d
          /\ r.m = thread[t].m /\ r.b = thread[t].b /\ r.seen = thread[t].seen /\ r.wrong = thread[t].wrong
          /\ r.got = got
    <2>1. thread[t] \in ThreadType /\ "chain" \in InsertPCs
      BY <1>1 DEF InsertPCs
    <2>2. thread' = [thread EXCEPT ![t] = [thread[t] EXCEPT !.pc = "chain", !.got = got]]
      BY <1>1, <1>2, <1>11 DEF ApplyReset
    <2>3. PICK r : r = [thread[t] EXCEPT !.pc = "chain", !.got = got]
      OBVIOUS
    <2>4. /\ r.pc = "chain" /\ r.s = thread[t].s /\ r.d = thread[t].d /\ r \in ThreadType
          /\ r.m = thread[t].m /\ r.b = thread[t].b /\ r.seen = thread[t].seen /\ r.wrong = thread[t].wrong
          /\ r.got = got
      BY <2>1, <2>3 DEF ThreadType
    <2> QED  BY <2>2, <2>3, <2>4
  <1>12. ~overlap => got = EdgesOf(s)
    BY <1>2, <1>11, OwnExact DEF At
  <1>13. thread[t].pc = "apply" /\ top' = top /\ middle' = middle /\ edges' = edges
    BY DEF At, ApplyReset
  <1>14. KeepsInside(t, r, s, b)
    BY <1>2, <1>8, <1>9, <1>12, <1>13 DEF KeepsInside
  <1> QED  BY <1>14, KeepInside

(* The edges of the block are in its array.                                *)
LEMMA InsertChainStep ==
  ASSUME IInv, NEW t \in Threads, Watch, InsertChain(t)
  PROVE  IInv'
  <1>1. Writing(t) /\ Safe /\ TypeOK /\ thread \in [Threads -> ThreadType] /\ At(t, "chain")
        /\ SafeThread(t)
    BY DEF Writing, WritePCs, At, IInv, Safe, InsertChain
  <1>2. PICK b \in Blocks, s \in Sources, array \in SUBSET Dests :
          b = thread[t].b /\ s = thread[t].s /\ array = thread[t].got
    <2>1. thread[t].got \in SUBSET Dests
      BY <1>1 DEF SafeThread, Bound
    <2> QED  BY <1>1, <2>1, WriteFacts
  <1>4. block[b].obsolete \in BOOLEAN /\ block \in [Blocks -> BlockType]
        /\ block[b].five /\ block[b].head = {}
    BY <1>1, <1>2, BlocksTyped DEF TypeOK, SafeThread, Filling
  <1>5. Cardinality({}) <= Capacity(b) /\ {} \in SUBSET (Dests \cup {Junk})
    BY FS_EmptySet, SizeAssumption DEF Capacity
  <1>7. block' = [block EXCEPT ![b].head = {}, ![b].array = array, ![b].obsolete = block[b].obsolete]
    <2>1. [block[b] EXCEPT !.array = array]
            = [block[b] EXCEPT !.head = {}, !.array = array, !.obsolete = block[b].obsolete]
      BY <1>4 DEF BlockType
    <2>2. block' = [block EXCEPT ![b] = [block[b] EXCEPT !.array = array]]
      BY <1>2 DEF InsertChain
    <2> QED  BY <1>4, <2>1, <2>2
  <1>8. /\ block' \in [Blocks -> BlockType] /\ \A x \in Blocks : Fits(block'[x])
        /\ \A x \in Blocks : x # b => block'[x] = block[x]
        /\ block'[b].head = {} /\ block'[b].array = array
        /\ block'[b].obsolete = block[b].obsolete
    <2>1. TypeOK /\ b \in Blocks /\ array \in SUBSET Dests /\ block[b].obsolete \in BOOLEAN
      BY <1>1, <1>4
    <2>2. array # {} => block[b].five
      BY <1>1, <1>4
    <2> QED  BY <1>5, <1>7, <2>1, <2>2, BlockIs
  <1>9. PICK r \in ThreadType :
          /\ thread' = [thread EXCEPT ![t] = r] /\ r.pc = "fill" /\ r.s = thread[t].s /\ r.d = thread[t].d
          /\ r.m = thread[t].m /\ r.b = thread[t].b /\ r.seen = thread[t].seen /\ r.wrong = thread[t].wrong
    <2>1. thread[t] \in ThreadType /\ "fill" \in InsertPCs \cup RetirePCs \cup DeletePCs \cup ReadPCs
      BY <1>1 DEF InsertPCs
    <2>2. thread' = [thread EXCEPT ![t] = [thread[t] EXCEPT !.pc = "fill"]]
      BY DEF InsertChain, Go
    <2> QED  BY <2>1, <2>2, MovedRecord
  <1>10. ~overlap => Content(b)' \ {Junk} = EdgesOf(s)
    <2>1. SUFFICES ASSUME ~overlap PROVE Content(b)' \ {Junk} = EdgesOf(s)
      OBVIOUS
    <2>2. OnPath(t)
      BY <1>1, <2>1, WriteFacts
    <2>3. array = EdgesOf(s)
      BY <1>1, <1>2, <2>2 DEF OnPath
    <2>4. Junk \notin EdgesOf(s)
      BY NameAssumption DEF EdgesOf
    <2> QED  BY <1>8, <2>3, <2>4 DEF Content
  <1>11. thread[t].pc = "chain" /\ top' = top /\ middle' = middle /\ edges' = edges
    BY DEF At, InsertChain
  <1>12. KeepsInside(t, r, s, b)
    BY <1>2, <1>8, <1>9, <1>10, <1>11 DEF KeepsInside, Content
  <1> QED  BY <1>12, KeepInside

\* A call for source s leaves block b, with the variables r: it ends, or it
\* goes on to retire the block.  The graph becomes g.
LeavesBlock(t, r, s, b, g) ==
    /\ Writing(t) /\ s = thread[t].s /\ b = thread[t].b
    /\ r.pc \in {"idle", "dclear"} /\ r.seen = {} /\ (r.wrong => thread[t].wrong)
    /\ r.pc = "dclear" => r.s = s /\ r.m = thread[t].m
    /\ Becomes(g, s, [thread EXCEPT ![t] = r])
    /\ SameBut(s, g)
    /\ top' = top /\ middle' = [middle EXCEPT ![thread[t].m].owner[s] = Null]
    /\ block' \in [Blocks -> BlockType] /\ \A x \in Blocks : Fits(block'[x])
    /\ \A x \in Blocks : x # b => block'[x] = block[x]
    /\ Junk \notin block'[b].head
    /\ r.pc = "idle" => (block'[b].obsolete => block[b].obsolete)
    /\ r.pc = "dclear" => /\ block'[b].obsolete
                          /\ block'[b].head \cup block'[b].array = {}
    /\ ~overlap => block'[b].head \cup block'[b].array = {d \in Dests : <<s, d>> \in g}

(* Such a step keeps the invariant.                                        *)
LEMMA LeaveInside ==
  ASSUME IInv, NEW t \in Threads, Watch, NEW r \in ThreadType, NEW s \in Sources,
         NEW b \in Blocks, NEW g \in SUBSET (Sources \X Dests), LeavesBlock(t, r, s, b, g)
  PROVE  IInv'
  <1>1. /\ Writing(t) /\ s = thread[t].s /\ b = thread[t].b
        /\ r.pc \in {"idle", "dclear"} /\ r.seen = {} /\ (r.wrong => thread[t].wrong)
        /\ r.pc = "dclear" => r.s = s /\ r.m = thread[t].m
        /\ top' = top /\ middle' = [middle EXCEPT ![thread[t].m].owner[s] = Null]
        /\ block' \in [Blocks -> BlockType] /\ \A x \in Blocks : Fits(block'[x])
        /\ \A x \in Blocks : x # b => block'[x] = block[x]
        /\ Junk \notin block'[b].head
        /\ r.pc = "idle" => (block'[b].obsolete => block[b].obsolete)
        /\ r.pc = "dclear" => block'[b].obsolete /\ Content(b)' = {}
    BY DEF LeavesBlock, Content
  <1>2. Safe /\ TypeOK
    BY DEF IInv, Safe
  <1>3. thread' \in [Threads -> ThreadType] /\ thread'[t] = r /\ edges' = g
        /\ Watches(t) /\ Only(s)
    BY <1>2, BecomesIs DEF LeavesBlock
  <1>4. ~overlap => Content(b)' = EdgesOf(s)'
    BY <1>3 DEF LeavesBlock, Content, EdgesOf
  <1>5. PICK m \in Middles : m = thread[t].m
    BY <1>1, WriteFacts
  <1>6. /\ middle[m].owner[s] = t
        /\ \A n \in Middles, v \in Sources : middle[n].buf[v] = b => n = m /\ v = s
        /\ ~overlap => OnPath(t) /\ ~thread[t].wrong
    BY <1>1, <1>5, WriteFacts
  <1>7. middle' \in [Middles -> MiddleType] /\ OwnerSet(m, s, Null)
    BY <1>1, <1>2, <1>5, OwnerIs
  <1>8. \A n \in Middles : middle'[n].bits = middle[n].bits /\ middle'[n].buf = middle[n].buf
    BY <1>7 DEF OwnerSet
  <1>9. \A u \in Threads : u # t /\ Held(u) => Held(u)'
    <2>1. \A u \in Threads : u # t => /\ thread'[u].pc = thread[u].pc /\ thread'[u].m = thread[u].m
                                      /\ thread'[u].s = thread[u].s
      BY <1>3 DEF Watches, Stays
    <2> QED  BY <1>1, <1>5, <1>6, <2>1, OwnerKeeps
  <1>10. TypeOK'
    BY <1>1, <1>2, <1>3, <1>7, TypedBlocks
  <1>11. ~Writing(t)' /\ ~Viewing(t)' /\ ~Inserting(t)'
    BY <1>1, <1>3 DEF Writing, WritePCs, Viewing, ViewPCs, Inserting
  <1>12. SafeThread(t)'
    BY <1>1, <1>3, <1>5, <1>11 DEF SafeThread, Bound, Held, Home, Filling, Seen, At,
         InsertPCs, DeletePCs, ReadPCs, ViewPCs
  <1>13. ASSUME ~overlap' PROVE CalmThread(t)' /\ (block'[b].obsolete => Content(b)' = {})
    <2>1. ~overlap /\ OnPath(t) /\ ~thread[t].wrong
      BY <1>6, <1>13 DEF Watch
    <2>2. /\ m = top.child /\ middle[m].buf[s] = b /\ ~block[b].obsolete
      BY <1>1, <1>5, <2>1 DEF OnPath
    <2>3. r.pc = "dclear" => Retired(b)'
      BY <1>1 DEF Retired
    <2>4. r.pc = "dclear" => Retired(middle[thread[t].m].buf[thread[t].s])'
      <3>1. r.pc = "dclear" => middle'[thread'[t].m].buf[thread'[t].s] = b
        BY <1>1, <1>3, <1>5, <1>8, <2>2
      <3> QED  BY <2>3, <3>1 DEF Retired, Content
    <2>5. OffPath(t)'
      BY <1>1, <1>3, <1>5, <2>2, <2>4 DEF OffPath, At, RetirePCs
    <2>6. OnPath(t)' /\ Told(t)'
      BY <1>1, <1>3, <1>11, <2>1 DEF OnPath, Told, At
    <2> QED  BY <1>1, <2>2, <2>5, <2>6 DEF CalmThread
  <1>14. ASSUME ~overlap' PROVE Content(b)' = EdgesOf(s)' /\ Content(b)' \ {Junk} = EdgesOf(s)'
    <2>1. Content(b)' = EdgesOf(s)'
      BY <1>4, <1>14 DEF Watch
    <2>2. Junk \notin EdgesOf(s)'
      BY NameAssumption DEF EdgesOf
    <2> QED  BY <2>1, <2>2
  <1> QED  BY <1>1, <1>3, <1>8, <1>9, <1>10, <1>11, <1>12, <1>13, <1>14, InsideStep

(* The slots of a block whose insertion is not merging it hold the edges   *)
(* of its source.                                                          *)
LEMMA InExact ==
  ASSUME IInv, ~overlap, NEW t \in Threads, Writing(t), ~At(t, "chain"),
         NEW s \in Sources, s = thread[t].s, NEW b \in Blocks, b = thread[t].b
  PROVE  Content(b) \ {Junk} = EdgesOf(s)
  <1>1. Safe /\ Calm /\ OnPath(t)
    BY DEF IInv, Calm, CalmThread
  <1>2. /\ thread[t].m \in Middles
        /\ \A u \in Threads : u # t /\ Writing(u) => thread[u].b # b
    BY WriteFacts
  <1>3. top.child = thread[t].m /\ Buf(s) = b /\ b # Null /\ top.child # Null
    BY <1>1, <1>2, NameAssumption DEF OnPath, Buf
  <1>4. ~Merging(s)
    <2>1. SUFFICES ASSUME NEW v \in Threads, At(v, "chain"), thread[v].s = s  PROVE FALSE
      BY DEF Merging
    <2>2. Writing(v) /\ OnPath(v) /\ Inserting(v) /\ ~At(v, "top") /\ v # t
      BY <1>1, <2>1 DEF Writing, WritePCs, At, Calm, CalmThread, Inserting
    <2>3. thread[v].b = b
      BY <1>3, <2>1, <2>2 DEF OnPath, Buf
    <2> QED  BY <1>2, <2>2, <2>3
  <1> QED  BY <1>1, <1>3, <1>4 DEF Calm, Stored

(* A block that a thread has just entered holds no half-written slot.      *)
LEMMA OwnJunk ==
  ASSUME Safe, IInv, NEW t \in Threads, thread[t].pc \in {"apply", "dapply"},
         NEW b \in Blocks, b = thread[t].b
  PROVE  Junk \notin block[b].head
  <1>1. SUFFICES ASSUME Junk \in block[b].head PROVE FALSE
    OBVIOUS
  <1>2. PICK u \in Threads : At(u, "fill") /\ thread[u].b = b
    BY <1>1 DEF Safe, JunkHeld
  <1>3. u # t /\ Writing(u) /\ Writing(t)
    BY <1>2 DEF At, Writing, WritePCs
  <1> QED  BY <1>2, <1>3, WriteFacts

(* The vertex is written, and the edge is there.                           *)
LEMMA InsertFillStep ==
  ASSUME IInv, NEW t \in Threads, Watch, InsertFill(t)
  PROVE  IInv'
  <1>1. Writing(t) /\ Safe /\ TypeOK /\ At(t, "fill") /\ SafeThread(t)
        /\ thread \in [Threads -> ThreadType]
    BY DEF Writing, WritePCs, At, IInv, Safe, InsertFill
  <1>2. PICK b \in Blocks, s \in Sources, d \in Dests :
          b = thread[t].b /\ s = thread[t].s /\ d = thread[t].d
    BY <1>1, WriteFacts
  <1>3. PICK head \in SUBSET (Dests \cup {Junk}) : head = (block[b].head \ {Junk}) \cup {d}
    BY <1>1 DEF TypeOK
  <1>4. block[b].head \in SUBSET (Dests \cup {Junk}) /\ block[b].array \in SUBSET Dests
        /\ block[b].obsolete \in BOOLEAN /\ block \in [Blocks -> BlockType]
        /\ (block[b].array # {} => block[b].five) /\ Cardinality(block[b].head) <= Capacity(b)
    BY <1>1, BlocksTyped DEF TypeOK
  <1>5. Cardinality(head) <= Capacity(b)
    <2>1. Junk \in block[b].head \/ block[b].head = {}
      BY <1>1, <1>2 DEF SafeThread, Filling
    <2>2. Capacity(b) \in Nat /\ 1 <= Capacity(b)
      BY SizeAssumption DEF Capacity
    <2>3. PICK rest \in SUBSET (Dests \cup {Junk}) : rest = block[b].head \ {Junk}
      BY <1>4
    <2>4. /\ Cardinality(head) <= Cardinality(rest) + 1
          /\ Cardinality(rest) \in Nat /\ Cardinality(head) \in Nat
      BY <1>3, <2>3, HeadFacts
    <2>5. CASE Junk \in block[b].head
      BY <1>4, <2>2, <2>3, <2>4, <2>5, HeadFacts
    <2>6. CASE block[b].head = {}
      <3>1. Cardinality(rest) = 0
        BY <2>3, <2>6, FS_EmptySet
      <3> QED  BY <2>2, <2>4, <3>1
    <2> QED  BY <2>1, <2>5, <2>6
  <1>7. block' = [block EXCEPT ![b].head = head, ![b].array = block[b].array, ![b].obsolete = block[b].obsolete]
    <2>1. [block[b] EXCEPT !.head = head]
            = [block[b] EXCEPT !.head = head, !.array = block[b].array, !.obsolete = block[b].obsolete]
      BY <1>4 DEF BlockType
    <2>2. block' = [block EXCEPT ![b] = [block[b] EXCEPT !.head = head]]
      BY <1>2, <1>3 DEF InsertFill
    <2> QED  BY <1>4, <2>1, <2>2
  <1>8. /\ block' \in [Blocks -> BlockType] /\ \A x \in Blocks : Fits(block'[x])
        /\ \A x \in Blocks : x # b => block'[x] = block[x]
        /\ block'[b].head = head /\ block'[b].array = block[b].array
        /\ block'[b].obsolete = block[b].obsolete
    BY <1>1, <1>4, <1>5, <1>7, BlockIs
  <1>9. PICK r \in ThreadType : r = Idle(thread[t].calls) /\ r.pc = "idle" /\ r.seen = {} /\ r.wrong = FALSE
    BY <1>1, IdleRecord DEF TypeOK
  <1>10. PICK g \in SUBSET (Sources \X Dests) : g = edges \cup {<<s, d>>}
    <2>1. edges \subseteq Sources \X Dests /\ <<s, d>> \in Sources \X Dests
      BY <1>1, <1>2 DEF TypeOK
    <2> QED  BY <2>1
  <1>11. Becomes(g, s, [thread EXCEPT ![t] = r])
    BY <1>2, <1>9, <1>10 DEF InsertFill, Ended
  <1>12. SameBut(s, g)
    BY <1>10 DEF SameBut, EdgesOf
  <1>13. ~overlap => block'[b].head \cup block'[b].array = {e \in Dests : <<s, e>> \in g}
    <2>1. SUFFICES ASSUME ~overlap
                   PROVE block'[b].head \cup block'[b].array = {e \in Dests : <<s, e>> \in g}
      OBVIOUS
    <2>2. Content(b) \ {Junk} = EdgesOf(s)
      BY <1>1, <1>2, <2>1, InExact DEF At
    <2>3. {e \in Dests : <<s, e>> \in g} = EdgesOf(s) \cup {d}
      BY <1>10 DEF EdgesOf
    <2>4. Junk \notin block[b].array
      BY <1>4, NameAssumption
    <2> QED  BY <1>3, <1>8, <2>2, <2>3, <2>4 DEF Content
  <1>14. /\ top' = top /\ middle' = [middle EXCEPT ![thread[t].m].owner[s] = Null]
         /\ Junk \notin block'[b].head
    BY <1>2, <1>3, <1>8, NameAssumption DEF InsertFill, Released
  <1>15. LeavesBlock(t, r, s, b, g)
    BY <1>1, <1>2, <1>8, <1>9, <1>11, <1>12, <1>13, <1>14 DEF LeavesBlock
  <1> QED  BY <1>15, LeaveInside

(* The edge is taken out of its block, and an empty block retired.         *)
LEMMA DeleteFoundStep ==
  ASSUME IInv, NEW t \in Threads, Watch, At(t, "dapply"), DeleteFound(t),
         middle' = Released(thread[t].m, thread[t].s), UNCHANGED top
  PROVE  IInv'
  <1>1. Writing(t) /\ Safe /\ TypeOK /\ thread \in [Threads -> ThreadType] /\ thread[t].pc = "dapply"
    BY DEF Writing, WritePCs, At, IInv, Safe
  <1>2. PICK b \in Blocks, s \in Sources, d \in Dests :
          b = thread[t].b /\ s = thread[t].s /\ d = thread[t].d
    BY <1>1, WriteFacts
  <1>3. PICK emptied \in BOOLEAN : emptied = Emptied(b, d)
    BY DEF Emptied
  <1>4. block[b].head \in SUBSET (Dests \cup {Junk}) /\ block[b].array \in SUBSET Dests
        /\ block \in [Blocks -> BlockType]
        /\ (block[b].array # {} => block[b].five) /\ Cardinality(block[b].head) <= Capacity(b)
    BY <1>1, BlocksTyped DEF TypeOK
  <1>5. PICK head \in SUBSET (Dests \cup {Junk}), array \in SUBSET Dests :
          head = block[b].head \ {d} /\ array = block[b].array \ {d}
    BY <1>4
  <1>6. Cardinality(head) <= Capacity(b) /\ (array # {} => block[b].five)
    <2>1. Cardinality(head) <= Cardinality(block[b].head) /\ Cardinality(head) \in Nat
          /\ Cardinality(block[b].head) \in Nat
      BY <1>4, <1>5, HeadFacts
    <2>2. Capacity(b) \in Nat
      BY SizeAssumption DEF Capacity
    <2> QED  BY <1>4, <1>5, <2>1, <2>2
  <1>7. block' = [block EXCEPT ![b].head = head, ![b].array = array, ![b].obsolete = emptied]
    BY <1>2, <1>3, <1>5 DEF DeleteFound
  <1>8. /\ block' \in [Blocks -> BlockType] /\ \A x \in Blocks : Fits(block'[x])
        /\ \A x \in Blocks : x # b => block'[x] = block[x]
        /\ block'[b].head = head /\ block'[b].array = array
        /\ block'[b].obsolete = emptied
    BY <1>1, <1>6, <1>7, BlockIs
  <1>9. PICK r \in ThreadType :
          /\ r = (IF emptied THEN [thread[t] EXCEPT !.pc = "dclear", !.b = Null] ELSE Idle(thread[t].calls))
          /\ r.pc = (IF emptied THEN "dclear" ELSE "idle") /\ r.seen = {} /\ (r.wrong => thread[t].wrong)
          /\ emptied => r.s = s /\ r.m = thread[t].m
    <2>1. CASE emptied
      <3>1. PICK r : r = [thread[t] EXCEPT !.pc = "dclear", !.b = Null]
        OBVIOUS
      <3>2. thread[t] \in ThreadType /\ thread[t].seen = {}
        BY <1>1, WriteFacts
      <3>3. /\ r \in ThreadType /\ r.pc = "dclear" /\ r.seen = thread[t].seen /\ r.wrong = thread[t].wrong
            /\ r.s = thread[t].s /\ r.m = thread[t].m
        BY <3>1, <3>2 DEF ThreadType, RetirePCs
      <3> QED  BY <1>2, <2>1, <3>1, <3>2, <3>3
    <2>2. CASE ~emptied
      <3>1. PICK r \in ThreadType : r = Idle(thread[t].calls) /\ r.pc = "idle" /\ r.seen = {} /\ r.wrong = FALSE
        BY <1>1, IdleRecord DEF TypeOK
      <3> QED  BY <2>2, <3>1
    <2> QED  BY <2>1, <2>2
  <1>10. PICK g \in SUBSET (Sources \X Dests) : g = edges \ {<<s, d>>}
    BY <1>1 DEF TypeOK
  <1>11. Becomes(g, s, [thread EXCEPT ![t] = r])
    <2>1. Becomes(g, s, IF emptied THEN [thread EXCEPT ![t].pc = "dclear", ![t].b = Null] ELSE Ended(t))
      BY <1>2, <1>3, <1>10 DEF DeleteFound
    <2>2. (IF emptied THEN [thread EXCEPT ![t].pc = "dclear", ![t].b = Null] ELSE Ended(t))
            = [thread EXCEPT ![t] = r]
      BY <1>1, <1>9 DEF Ended
    <2> QED  BY <2>1, <2>2
  <1>12. SameBut(s, g)
    BY <1>10 DEF SameBut, EdgesOf
  <1>13. ~overlap => block'[b].head \cup block'[b].array = {e \in Dests : <<s, e>> \in g}
    <2>1. SUFFICES ASSUME ~overlap
                   PROVE block'[b].head \cup block'[b].array = {e \in Dests : <<s, e>> \in g}
      OBVIOUS
    <2>2. Content(b) = EdgesOf(s)
      BY <1>1, <1>2, <2>1, OwnExact
    <2>3. {e \in Dests : <<s, e>> \in g} = EdgesOf(s) \ {d}
      BY <1>10 DEF EdgesOf
    <2> QED  BY <1>5, <1>8, <2>2, <2>3 DEF Content
  <1>14. /\ top' = top /\ middle' = [middle EXCEPT ![thread[t].m].owner[s] = Null]
         /\ Junk \notin block'[b].head
    <2>1. Junk \notin block[b].head
      BY <1>1, <1>2, OwnJunk
    <2> QED  BY <1>2, <1>5, <1>8, <2>1 DEF Released
  <1>15. emptied => block'[b].head \cup block'[b].array = {}
    BY <1>3, <1>5, <1>8 DEF Emptied
  <1>16. LeavesBlock(t, r, s, b, g)
    BY <1>1, <1>2, <1>8, <1>9, <1>11, <1>12, <1>13, <1>14, <1>15 DEF LeavesBlock
  <1> QED  BY <1>16, LeaveInside

\* Source s of middle block m moves from block b to the new block c, which
\* also holds the edge to d.
Grown(m, s, b, c, d) ==
    /\ \A n \in Middles : middle'[n].bits = middle[n].bits
    /\ \A n \in Middles, v \in Sources :
         /\ middle'[n].buf[v] = IF n = m /\ v = s THEN c ELSE middle[n].buf[v]
         /\ middle'[n].owner[v] = IF n = m /\ v = s THEN Null ELSE middle[n].owner[v]
    /\ \A x \in Blocks : x \notin {b, c} => block'[x] = block[x]
    /\ block'[b].head = block[b].head /\ block'[b].array = block[b].array
    /\ block'[b].five = block[b].five /\ block'[b].obsolete
    /\ block'[c].head = block[b].head \cup {d} /\ block'[c].array = {}
    /\ ~block'[c].obsolete
    /\ c # b /\ \A u \in Threads : thread[u].b # c
    /\ \A n \in Middles, v \in Sources : middle[n].buf[v] # c

(* The fields of the middle and the adjacency blocks when a block grows.   *)
LEMMA GrowIs ==
  ASSUME Safe, NEW t \in Threads, ApplyGrow(t), NEW m \in Middles, m = thread[t].m,
         NEW s \in Sources, s = thread[t].s, NEW b \in Blocks, b = thread[t].b,
         NEW d \in Dests, d = thread[t].d
  PROVE  \E c \in Blocks :
            /\ Grown(m, s, b, c, d) /\ middle' \in [Middles -> MiddleType]
            /\ block' \in [Blocks -> BlockType] /\ \A x \in Blocks : Fits(block'[x])
  <1> DEFINE c == FreeBlock
  <1>1. /\ d \notin Content(b) /\ ~block[b].five /\ Cardinality(block[b].head) = SmallCap
        /\ Memory(Blocks, UsedBlocks)
        /\ block' = [block EXCEPT ![b].obsolete = TRUE,
                       ![c] = [NewBlock EXCEPT !.five = TRUE, !.head = block[b].head \cup {d}]]
        /\ middle' = [middle EXCEPT ![m].buf[s] = c, ![m].owner[s] = Null]
    BY DEF ApplyGrow
  <1>2. c \in Blocks /\ c \notin UsedBlocks
    BY <1>1, FreeIs DEF FreeBlock
  <1>3. /\ \A u \in Threads : thread[u].b # c
        /\ \A n \in Middles, v \in Sources : middle[n].buf[v] # c
    BY <1>2 DEF UsedBlocks
  <1>4. TypeOK /\ middle \in [Middles -> MiddleType] /\ block \in [Blocks -> BlockType]
        /\ \A x \in Blocks : Fits(block[x])
    BY BlocksTyped DEF Safe, TypeOK, MiddleType
  <1> HIDE DEF c
  <1>5. PICK head \in SUBSET (Dests \cup {Junk}) : head = block[b].head \cup {d}
    BY <1>4 DEF BlockType
  <1>6. PICK new \in BlockType : /\ new = [NewBlock EXCEPT !.five = TRUE, !.head = head]
                                 /\ new.head = head /\ new.array = {} /\ new.five = TRUE
                                 /\ new.obsolete = FALSE
    <2>1. PICK new : new = [NewBlock EXCEPT !.five = TRUE, !.head = head]
      OBVIOUS
    <2>2. new \in BlockType /\ new.head = head /\ new.array = {} /\ new.five = TRUE /\ new.obsolete = FALSE
      BY <2>1 DEF NewBlock, BlockType
    <2> QED  BY <2>1, <2>2
  <1>7. PICK old \in BlockType : /\ old = [block[b] EXCEPT !.obsolete = TRUE]
                                 /\ old.head = block[b].head /\ old.array = block[b].array
                                 /\ old.five = block[b].five /\ old.obsolete = TRUE
    <2>1. PICK old : old = [block[b] EXCEPT !.obsolete = TRUE]
      OBVIOUS
    <2>2. /\ old \in BlockType /\ old.head = block[b].head /\ old.array = block[b].array
          /\ old.five = block[b].five /\ old.obsolete = TRUE
      BY <1>4, <2>1 DEF BlockType
    <2> QED  BY <2>1, <2>2
  <1>8. c # b
    BY <1>3
  <1>9. block' = [[block EXCEPT ![b] = old] EXCEPT ![c] = new]
    BY <1>1, <1>4, <1>5, <1>6, <1>7
  <1>10. block'[b] = old /\ block'[c] = new /\ \A x \in Blocks : x \notin {b, c} => block'[x] = block[x]
    BY <1>2, <1>4, <1>8, <1>9
  <1>11. block' \in [Blocks -> BlockType]
    BY <1>2, <1>4, <1>9
  <1>12. Fits(new)
    <2>1. /\ Cardinality(block[b].head) \in Nat /\ Cardinality(head) \in Nat
          /\ Cardinality(head) <= Cardinality(block[b].head) + 1
      BY <1>4, <1>5, HeadFacts DEF BlockType
    <2>2. Cardinality(head) <= HeadCap
      BY <1>1, <2>1, SizeAssumption
    <2> QED  BY <1>6, <2>2 DEF Fits
  <1>13. Fits(old)
    BY <1>4, <1>7 DEF Fits
  <1>14. \A x \in Blocks : Fits(block'[x])
    BY <1>4, <1>10, <1>12, <1>13
  <1>15. /\ [middle[m] EXCEPT !.buf[s] = c, !.owner[s] = Null] \in MiddleType
         /\ [middle[m] EXCEPT !.buf[s] = c, !.owner[s] = Null].bits = middle[m].bits
         /\ [middle[m] EXCEPT !.buf[s] = c, !.owner[s] = Null].buf = [middle[m].buf EXCEPT ![s] = c]
         /\ [middle[m] EXCEPT !.buf[s] = c, !.owner[s] = Null].owner = [middle[m].owner EXCEPT ![s] = Null]
         /\ middle[m].buf \in [Sources -> Blocks \cup {Null}]
         /\ middle[m].owner \in [Sources -> Threads \cup {Null, Leaked}]
    BY <1>2, <1>4 DEF MiddleType
  <1>16. middle' = [middle EXCEPT ![m] = [middle[m] EXCEPT !.buf[s] = c, !.owner[s] = Null]]
    BY <1>1, <1>4
  <1>17. /\ middle' \in [Middles -> MiddleType]
         /\ \A n \in Middles : middle'[n].bits = middle[n].bits
         /\ \A n \in Middles, v \in Sources :
              /\ middle'[n].buf[v] = IF n = m /\ v = s THEN c ELSE middle[n].buf[v]
              /\ middle'[n].owner[v] = IF n = m /\ v = s THEN Null ELSE middle[n].owner[v]
    BY <1>4, <1>15, <1>16
  <1>18. Grown(m, s, b, c, d)
    BY <1>3, <1>5, <1>6, <1>7, <1>8, <1>10, <1>17 DEF Grown
  <1> QED  BY <1>2, <1>11, <1>14, <1>17, <1>18

(* A block of the next size replaces the block of an insertion.            *)
LEMMA ApplyGrowStep ==
  ASSUME IInv, NEW t \in Threads, Watch, At(t, "apply"), ApplyGrow(t), UNCHANGED top
  PROVE  IInv'
  <1>1. /\ Writing(t) /\ Safe /\ TypeOK /\ thread \in [Threads -> ThreadType]
        /\ thread[t].pc = "apply" /\ Inserting(t)
    BY DEF Writing, WritePCs, At, IInv, Safe, Inserting
  <1>2. PICK m \in Middles, s \in Sources, b \in Blocks, d \in Dests :
          m = thread[t].m /\ s = thread[t].s /\ b = thread[t].b /\ d = thread[t].d
    BY <1>1, WriteFacts
  <1>3. PICK c \in Blocks :
            /\ Grown(m, s, b, c, d) /\ middle' \in [Middles -> MiddleType]
            /\ block' \in [Blocks -> BlockType] /\ \A x \in Blocks : Fits(block'[x])
    BY <1>1, <1>2, GrowIs
  <1>4. /\ middle[m].owner[s] = t
        /\ \A u \in Threads : u # t /\ Writing(u) => thread[u].b # b
        /\ \A n \in Middles, v \in Sources : middle[n].buf[v] = b => n = m /\ v = s
        /\ ~overlap => OnPath(t) /\ ~thread[t].wrong
    BY <1>1, <1>2, WriteFacts
  <1>5. PICK r \in ThreadType : r = Idle(thread[t].calls) /\ r.pc = "idle" /\ r.seen = {} /\ r.wrong = FALSE
    BY <1>1, IdleRecord DEF TypeOK
  <1>6. PICK g \in SUBSET (Sources \X Dests) : g = edges \cup {<<s, d>>}
    <2>1. edges \subseteq Sources \X Dests /\ <<s, d>> \in Sources \X Dests
      BY <1>1, <1>2 DEF TypeOK
    <2> QED  BY <2>1
  <1>7. thread' \in [Threads -> ThreadType] /\ thread'[t] = r /\ edges' = g
        /\ Watches(t) /\ Only(s)
    <2>1. Becomes(g, s, [thread EXCEPT ![t] = r])
      BY <1>2, <1>5, <1>6 DEF ApplyGrow, Ended
    <2>2. SameBut(s, g)
      BY <1>6 DEF SameBut, EdgesOf
    <2> QED  BY <1>1, <1>5, <2>1, <2>2, BecomesIs
  <1>8. TypeOK'
    BY <1>1, <1>3, <1>7, TypedBlocks
  <1>9. /\ \A n \in Middles : middle'[n].bits = middle[n].bits
        /\ \A n \in Middles, v \in Sources :
             /\ middle'[n].buf[v] = IF n = m /\ v = s THEN c ELSE middle[n].buf[v]
             /\ middle'[n].owner[v] = IF n = m /\ v = s THEN Null ELSE middle[n].owner[v]
        /\ \A x \in Blocks : x \notin {b, c} => block'[x] = block[x]
        /\ block'[b].head = block[b].head /\ block'[b].array = block[b].array
        /\ block'[b].five = block[b].five
        /\ block'[c].head = block[b].head \cup {d} /\ block'[c].array = {} /\ ~block'[c].obsolete
        /\ c # b /\ \A u \in Threads : thread[u].b # c
        /\ \A n \in Middles, v \in Sources : middle[n].buf[v] # c
    BY <1>3 DEF Grown
  <1>10. /\ \A u \in Threads : u # t => Stays(u) /\ (Writing(u)' <=> Writing(u))
         /\ ~Writing(t)' /\ ~Viewing(t)' /\ ~Inserting(t)' /\ thread'[t].pc = "idle"
    BY <1>5, <1>7 DEF Watches, Stays, Writing, WritePCs, Viewing, ViewPCs, Inserting
  <1>11. Junk \notin block[b].head
    BY <1>1, <1>2, OwnJunk
  <1>12. Safe'
    <2>1. OnePlace'
      <3>1. \A n, k \in Middles : \A v, w \in Sources :
              middle[n].buf[v] # Null /\ middle[n].buf[v] = middle[k].buf[w] => n = k /\ v = w
        BY <1>1 DEF Safe, OnePlace
      <3>2. \A n \in Middles, v \in Sources :
              /\ middle'[n].buf[v] = IF n = m /\ v = s THEN c ELSE middle[n].buf[v]
              /\ middle[n].buf[v] # c
        BY <1>9
      <3> QED  BY <3>1, <3>2 DEF OnePlace
    <2>2. JunkHeld'
      <3>1. ASSUME NEW x \in Blocks, Junk \in block'[x].head
            PROVE  \E u \in Threads : At(u, "fill")' /\ thread'[u].b = x
        <4>1. x # b /\ x # c
          BY <1>9, <1>11, <3>1, NameAssumption
        <4>2. PICK u \in Threads : At(u, "fill") /\ thread[u].b = x
          BY <1>1, <1>9, <3>1, <4>1 DEF Safe, JunkHeld
        <4> QED  BY <1>1, <1>10, <4>2 DEF At, Stays
      <3> QED  BY <3>1 DEF JunkHeld
    <2>3. BlockExclusive'
      <3>1. \A u, v \in Threads : u # v /\ Writing(u) /\ Writing(v) => thread[u].b # thread[v].b
        BY <1>1 DEF Safe, BlockExclusive, Writing, WritePCs
      <3>2. \A u, v \in Threads : u # v /\ Writing(u)' /\ Writing(v)' => thread'[u].b # thread'[v].b
        BY <1>10, <3>1 DEF Stays
      <3> QED  BY <3>2 DEF BlockExclusive, Writing, WritePCs
    <2>4. ASSUME NEW u \in Threads, u # t PROVE SafeThread(u)'
      <3>1. SafeThread(u) /\ Stays(u)
        BY <1>1, <1>10, <2>4 DEF Safe
      <3>2. Held(u) => Held(u)'
        <4>1. Writing(u) \/ At(u, "xread") => thread[u].m \in Middles /\ thread[u].s \in Sources
          BY <3>1 DEF SafeThread, Bound, Writing, At, WritePCs
        <4>2. (Writing(u) \/ At(u, "xread")) /\ Held(u) => ~(thread[u].m = m /\ thread[u].s = s)
          BY <1>4, <2>4, <3>1 DEF SafeThread, Held
        <4> QED  BY <1>9, <3>1, <4>1, <4>2 DEF Held, Stays, Writing, At
      <3>3. \A n \in Middles, v \in Sources :
              middle'[n].buf[v] = thread[u].b => middle[n].buf[v] = thread[u].b
        BY <1>9
      <3>4. thread[u].pc \in {"fill", "chain"} =>
              /\ block'[thread[u].b].head = block[thread[u].b].head
              /\ block'[thread[u].b].five = block[thread[u].b].five
        <4>1. thread[u].pc \in {"fill", "chain"} => thread[u].b \in Blocks
          BY <3>1 DEF SafeThread, Bound, Writing, WritePCs
        <4> QED  BY <1>9, <4>1
      <3>5. /\ thread[u].pc \notin ReadPCs => thread'[u].seen = {}
            /\ thread[u].pc \in ReadPCs => EdgesOf(thread[u].s)' \in thread'[u].seen
        BY <1>7, <2>4 DEF Watches
      <3> QED  BY <3>1, <3>2, <3>3, <3>4, <3>5, StaysSafe
    <2>5. SafeThread(t)'
      BY <1>5, <1>7, <1>10 DEF SafeThread, Bound, Held, Home, Filling, Seen, At,
           InsertPCs, DeletePCs, ReadPCs, ViewPCs
    <2> QED  BY <1>7, <1>8, <2>1, <2>2, <2>3, <2>4, <2>5 DEF Safe
  <1>13. ASSUME ~overlap' PROVE Calm'
    <2>1. Calm /\ Quiet' /\ ~overlap /\ OnPath(t)
      BY <1>4, <1>13 DEF Watch, IInv, Quiet
    <2>2. /\ m = top.child /\ s \in middle[m].bits /\ middle[m].buf[s] = b /\ top.child # Null
      BY <1>1, <1>2, <2>1, NameAssumption DEF OnPath
    <2>3. \A u \in Threads : ~Retiring(u)
      BY <1>1, <2>1 DEF Calm, Quiet
    <2>4. /\ \A n \in Middles, v \in Sources : middle[n].buf[v] \in Blocks \cup {Null}
          /\ \A u \in Threads : Writing(u) \/ Viewing(u) => thread[u].b \in Blocks
      BY <1>1 DEF Safe, SafeThread, Bound, TypeOK
    \* Every other buffer is as it was.
    <2>5. ASSUME NEW n \in Middles, NEW v \in Sources, ~(n = m /\ v = s)
          PROVE  /\ middle'[n].buf[v] = middle[n].buf[v]
                 /\ middle[n].buf[v] # Null =>
                      /\ block'[middle[n].buf[v]] = block[middle[n].buf[v]]
                      /\ Content(middle[n].buf[v])' = Content(middle[n].buf[v])
                 /\ Retired(middle[n].buf[v])' <=> Retired(middle[n].buf[v])
      <3>1. PICK x \in Blocks \cup {Null} : x = middle[n].buf[v]
        BY <2>4
      <3>2. middle'[n].buf[v] = x /\ x # c /\ x # b
        BY <1>4, <1>9, <2>5, <3>1
      <3>3. x # Null => block'[x] = block[x]
        BY <1>9, <3>2
      <3> QED  BY <3>1, <3>2, <3>3 DEF Content, Retired
    <2>6. Path'
      <3>1. Linked' /\ Detached'
        BY <1>9, <2>1, <2>2, <2>5 DEF Calm, Path, Linked, Detached
      <3>2. ASSUME NEW n \in Middles, NEW v \in Sources PROVE Buffered(n, v)'
        <4>1. CASE n = m /\ v = s
          <5>1. v \in middle'[n].bits /\ middle'[n].buf[v] = c
            BY <1>9, <2>2, <4>1
          <5> QED  BY <1>9, <5>1, NameAssumption DEF Buffered
        <4>2. CASE ~(n = m /\ v = s)
          <5>1. ~\E u \in Threads : At(u, "dnull") /\ thread[u].m = n /\ thread[u].s = v
            BY <2>3 DEF At, Retiring
          <5>2. Buffered(n, v) /\ middle'[n].bits = middle[n].bits
            BY <1>9, <2>1 DEF Calm, Path
          <5>3. /\ middle'[n].buf[v] = middle[n].buf[v]
                /\ middle[n].buf[v] # Null => block'[middle[n].buf[v]] = block[middle[n].buf[v]]
                /\ Retired(middle[n].buf[v])' <=> Retired(middle[n].buf[v])
            BY <2>5, <4>2
          <5> QED  BY <5>1, <5>2, <5>3 DEF Buffered
        <4> QED  BY <4>1, <4>2
      <3> QED  BY <3>1, <3>2 DEF Path
    <2>7. EdgesOf(s)' = EdgesOf(s) \cup {d} /\ Content(b) = EdgesOf(s)
      BY <1>1, <1>2, <1>6, <1>7, <2>1, OwnExact DEF EdgesOf
    <2>8. Content(c)' = EdgesOf(s)'
      <3>1. ~block[b].five
        BY <1>2 DEF ApplyGrow
      <3>2. block[b].array = {}
        BY <1>1, <3>1 DEF TypeOK
      <3> QED  BY <1>9, <2>7, <3>2 DEF Content
    <2>9. Stored'
      <3>1. ASSUME NEW v \in Sources
            PROVE /\ top'.child # Null => (Buf(v)' # Null =>
                        (Merging(v)' \/ Content(Buf(v))' \ {Junk} = EdgesOf(v)'))
                  /\ top'.child = Null \/ Buf(v)' = Null => EdgesOf(v)' = {}
        <4>1. CASE v = s
          <5>1. Buf(v)' = c
            BY <1>9, <2>2, <4>1 DEF Buf
          <5>2. Content(Buf(v))' = EdgesOf(v)' /\ Buf(v)' # Null /\ top'.child # Null
            BY <2>2, <2>8, <4>1, <5>1, NameAssumption DEF Content
          <5>3. Junk \notin EdgesOf(v)'
            BY NameAssumption DEF EdgesOf
          <5> QED  BY <5>2, <5>3
        <4>2. CASE v # s
          <5>1. Buf(v)' = Buf(v) /\ (Buf(v) # Null => Content(Buf(v))' = Content(Buf(v)))
            BY <2>2, <2>5, <4>2 DEF Buf
          <5>2. EdgesOf(v)' = EdgesOf(v)
            BY <1>7, <4>2 DEF Only
          <5>3. Merging(v)' <=> Merging(v)
            BY <1>1, <1>10 DEF Merging, At, Stays
          <5> QED  BY <2>1, <4>2, <5>1, <5>2, <5>3 DEF Calm, Stored
        <4> QED  BY <4>1, <4>2
      <3> QED  BY <3>1 DEF Stored
    <2>10. Written(b) /\ ~Written(b)' /\ \A x : x # b => (Written(x)' <=> Written(x))
      <3>1. Written(b)
        BY <1>1, <1>2 DEF Written
      <3> QED  BY <1>2, <1>4, <1>10, <3>1 DEF Written, Stays
    <2>11. ASSUME NEW u \in Threads, u # t PROVE CalmThread(u)'
      <3>1. Bound(u) /\ Home(u) /\ OnPath(u) /\ Told(u) /\ Stays(u)
        BY <1>1, <1>10, <2>1, <2>11 DEF Calm, CalmThread, Safe, SafeThread
      <3>2. OnPath(u)'
        <4>1. At(u, "unlocked") \/ Writing(u) => thread[u].m \in Middles /\ thread[u].s \in Sources
          BY <3>1 DEF Bound, Writing, At, WritePCs
        <4>2. Writing(u) => ~(thread[u].m = m /\ thread[u].s = s)
          BY <1>4, <2>2, <2>11, <3>1 DEF OnPath
        <4>3. Writing(u) => /\ middle'[thread[u].m].buf[thread[u].s] = middle[thread[u].m].buf[thread[u].s]
                            /\ block'[thread[u].b] = block[thread[u].b]
          <5>1. Writing(u) => thread[u].b \in Blocks /\ thread[u].b \notin {b, c}
            BY <1>4, <1>9, <2>4, <2>11
          <5> QED  BY <1>9, <4>1, <4>2, <5>1
        <4>4. At(u, "chain") => EdgesOf(thread[u].s)' = EdgesOf(thread[u].s)
          <5>1. SUFFICES ASSUME At(u, "chain")
                PROVE EdgesOf(thread[u].s)' = EdgesOf(thread[u].s)
            OBVIOUS
          <5>2. Writing(u) /\ Inserting(u) /\ ~At(u, "top")
            BY <5>1 DEF Writing, WritePCs, Inserting, At
          <5>3. PICK v \in Sources : v = thread[u].s
            BY <4>1, <5>2
          <5>4. v # s /\ thread'[u].s = v
            BY <2>2, <3>1, <4>2, <5>2, <5>3 DEF OnPath, Stays
          <5>5. EdgesOf(thread[u].s)' = EdgesOf(v)'
            BY <5>4 DEF EdgesOf
          <5> QED  BY <1>7, <5>3, <5>4, <5>5 DEF Only
        <4>5. At(u, "unlocked") \/ Writing(u) => middle'[thread[u].m].bits = middle[thread[u].m].bits
          BY <1>9, <4>1
        <4>6. top' = top
          OBVIOUS
        <4> QED  BY <3>1, <4>3, <4>4, <4>5, <4>6 DEF OnPath, Inserting, Writing, At, Stays
      <3>3. OffPath(u)'
        BY <2>3, <3>1 DEF OffPath, Retiring, RetirePCs, At, Stays
      <3>4. /\ thread[u].seen \subseteq thread'[u].seen /\ thread'[u].wrong = thread[u].wrong
            /\ (thread'[u].same => thread[u].same)
        BY <1>7, <2>11 DEF Watches
      <3>5. Told(u)'
        <4>1. CASE Viewing(u) /\ thread[u].b = b
          <5>1. Content(b) \in thread[u].seen
            BY <1>1, <1>2, <2>1, <4>1, OwnExact
          <5>2. Content(b)' = Content(b)
            BY <1>9 DEF Content
          <5>3. ~(thread[u].same /\ thread[u].pc \in {"rhead", "rarray", "rcheck"})
            BY <2>10, <3>1, <4>1 DEF Told
          <5>4. thread'[u].b = b /\ thread'[u].pc = thread[u].pc /\ ~thread[u].wrong
                /\ thread[u].pc \notin {"rmiddle", "xmiddle"}
            BY <3>1, <4>1 DEF Told, Viewing, ViewPCs, Stays
          <5>5. Content(thread[u].b)' \in thread'[u].seen
            BY <3>4, <5>1, <5>2, <5>4 DEF Content
          <5> QED  BY <3>4, <5>3, <5>4, <5>5 DEF Told, At
        <4>2. CASE ~(Viewing(u) /\ thread[u].b = b)
          <5>1. Viewing(u) => /\ Written(thread[u].b)' <=> Written(thread[u].b)
                              /\ block'[thread[u].b].head = block[thread[u].b].head
                              /\ block'[thread[u].b].array = block[thread[u].b].array
            <6>1. ASSUME Viewing(u)
                  PROVE /\ Written(thread[u].b)' <=> Written(thread[u].b)
                        /\ block'[thread[u].b] = block[thread[u].b]
              <7>1. PICK x : x = thread[u].b
                OBVIOUS
              <7>2. x # b /\ x # c /\ x \in Blocks /\ thread'[u].b = x
                BY <1>9, <2>4, <3>1, <4>2, <6>1, <7>1 DEF Stays
              <7>3. Written(thread[u].b)' <=> Written(x)'
                BY <7>2 DEF Written
              <7> QED  BY <1>9, <2>10, <7>1, <7>2, <7>3
            <6> QED  BY <6>1
          <5>2. top'.child = top.child
            OBVIOUS
          <5> QED  BY <3>1, <3>4, <5>1, <5>2, ToldKeeps
        <4> QED  BY <4>1, <4>2
      <3> QED  BY <3>2, <3>3, <3>5 DEF CalmThread
    <2>12. CalmThread(t)'
      BY <1>5, <1>7, <1>10 DEF CalmThread, OnPath, OffPath, Told, At, RetirePCs
    <2> QED  BY <2>1, <2>6, <2>9, <2>11, <2>12 DEF Calm
  <1> QED  BY <1>12, <1>13 DEF IInv

-----------------------------------------------------------------------------
(* The invariant.                                                          *)

(* The lock of a buffer is taken, or the search goes back.                 *)
LEMMA AcquireAnyStep ==
  ASSUME IInv, NEW t \in Threads, Watch, InsertAcquire(t) \/ DeleteAcquire(t)
  PROVE  IInv'
  <1>1. PICK retry, next :
          /\ <<thread[t].pc, retry, next>> \in {<<"acquire", "bottom", "apply">>, <<"dacquire", "dbottom", "dapply">>}
          /\ Acquire(t, retry, next)
    <2>1. CASE InsertAcquire(t)
      <3>1. thread[t].pc = "acquire" /\ Acquire(t, "bottom", "apply")
        BY <2>1 DEF InsertAcquire, At
      <3> QED  BY <3>1
    <2>2. CASE DeleteAcquire(t)
      <3>1. thread[t].pc = "dacquire" /\ Acquire(t, "dbottom", "dapply")
        BY <2>2 DEF DeleteAcquire, At
      <3> QED  BY <3>1
    <2> QED  BY <2>1, <2>2
  <1>2. CASE middle[thread[t].m].buf[thread[t].s] # Null
             /\ ~block[middle[thread[t].m].buf[thread[t].s]].obsolete
    BY <1>1, <1>2, AcquireStep
  <1>3. CASE ~(middle[thread[t].m].buf[thread[t].s] # Null
               /\ ~block[middle[thread[t].m].buf[thread[t].s]].obsolete)
    <2>1. Go(t, retry) /\ UNCHANGED Shared
      BY <1>1, <1>3 DEF Acquire, Shared
    <2>2. ~Writing(t) /\ ~At(t, "dnull")
      BY <1>1 DEF Writing, WritePCs, At
    <2>3. CASE thread[t].pc = "acquire"
      <3>1. Inserting(t) /\ ~At(t, "top") /\ retry = "bottom"
        BY <1>1, <2>3 DEF Inserting, At
      <3>2. thread[t].m \in Middles /\ (~overlap => thread[t].m = top.child)
        BY <3>1, InsertFacts
      <3> QED  BY <2>1, <2>2, <3>1, <3>2, GoSame
    <2>4. CASE thread[t].pc = "dacquire"
      <3>1. thread[t].pc \in DeletePCs /\ retry = "dbottom"
        BY <1>1, <2>4 DEF DeletePCs
      <3>2. thread[t].m \in Middles
        BY <2>4 DEF IInv, Safe, SafeThread, Bound
      <3> QED  BY <2>1, <2>2, <3>1, <3>2, GoSame
    <2> QED  BY <1>1, <2>3, <2>4
  <1> QED  BY <1>2, <1>3

(* A thread inside a block takes its step there.                           *)
LEMMA ApplyAnyStep ==
  ASSUME IInv, NEW t \in Threads, Watch, InsertApply(t) \/ DeleteApply(t)
  PROVE  IInv'
  <1>1. CASE InsertApply(t)
    <2>1. At(t, "apply") /\ UNCHANGED top
      BY <1>1 DEF InsertApply
    <2>2. CASE ApplyPresent(t)
      <3>1. /\ UNCHANGED <<top, block, edges>> /\ Return(t) /\ thread[t].pc \in {"apply", "dapply"}
            /\ middle' = Released(thread[t].m, thread[t].s)
        BY <2>1, <2>2 DEF ApplyPresent, At
      <3> QED  BY <3>1, LeaveStep
    <2>3. CASE ApplyClaim(t)
      BY <2>1, <2>3, ApplyClaimStep
    <2>4. CASE ApplyGrow(t)
      BY <2>1, <2>4, ApplyGrowStep
    <2>5. CASE ApplyReset(t)
      BY <2>1, <2>5, ApplyResetStep
    <2> QED  BY <1>1, <2>2, <2>3, <2>4, <2>5 DEF InsertApply
  <1>2. CASE DeleteApply(t)
    <2>1. At(t, "dapply") /\ UNCHANGED top /\ middle' = Released(thread[t].m, thread[t].s)
      BY <1>2 DEF DeleteApply
    <2>2. CASE DeleteMissing(t)
      <3>1. /\ UNCHANGED <<top, block, edges>> /\ Return(t) /\ thread[t].pc \in {"apply", "dapply"}
        BY <2>1, <2>2 DEF DeleteMissing, At
      <3> QED  BY <2>1, <3>1, LeaveStep
    <2>3. CASE DeleteFound(t)
      BY <2>1, <2>3, DeleteFoundStep
    <2> QED  BY <1>2, <2>2, <2>3 DEF DeleteApply
  <1> QED  BY <1>1, <1>2

(* Every step of a thread keeps the invariant.                             *)
LEMMA StepKeeps ==
  ASSUME IInv, NEW t \in Threads, Step(t)
  PROVE  IInv'
  <1>1. Watch
    BY DEF Step
  <1>2. CASE Insertion(t)
    <2>1. CASE InsertTop(t)
      BY <1>1, <2>1, InsertTopFound, InsertTopNew
    <2>2. CASE InsertLocked(t) \/ InsertUnlocked(t)
      BY <1>1, <2>2, InsertPresent, InsertCreate
    <2> QED  BY <1>1, <1>2, <2>1, <2>2, CallStep, InsertBottomStep, InsertSetBitStep, AcquireAnyStep,
               ApplyAnyStep, InsertChainStep, InsertFillStep DEF Insertion
  <1>3. CASE Deletion(t)
    BY <1>1, <1>3, CallStep, DeleteTopStep, DeleteBottomStep, AcquireAnyStep, ApplyAnyStep,
       DeleteClearStep, DeleteNullStep, DeleteSweepStep, DeleteRootStep, DeleteTopCheckStep DEF Deletion
  <1>4. CASE Reading(t)
    <2>1. CASE ReadTop(t, "rtop", "rmiddle") \/ ReadTop(t, "xtop", "xmiddle")
      BY <1>1, <2>1, ReadTopStep
    <2>2. CASE ReadMiddle(t, "rmiddle", "rstamp") \/ ReadMiddle(t, "xmiddle", "xlock")
      BY <1>1, <2>2, ReadMiddleStep
    <2> QED  BY <1>1, <1>4, <2>1, <2>2, CallStep, ReadStampStep, ReadHeadStep, ReadArrayStep,
               ReadCheckStep, ReadLockStep, ReadExclusiveStep DEF Reading
  <1> QED  BY <1>2, <1>3, <1>4 DEF Step

(* And so does a step in which nothing happens.                            *)
LEMMA StutterKeeps ==
  ASSUME IInv, UNCHANGED vars
  PROVE  IInv'
  <1>1. top' = top /\ middle' = middle /\ block' = block /\ thread' = thread /\ edges' = edges
        /\ overlap' = overlap
    BY DEF vars
  <1>2. TypeOK'
    BY <1>1 DEF IInv, Safe, TypeOK, Capacity
  <1>3. \A t : /\ (Writing(t)' <=> Writing(t)) /\ (Viewing(t)' <=> Viewing(t))
               /\ (Inserting(t)' <=> Inserting(t)) /\ (Retiring(t)' <=> Retiring(t))
               /\ \A pc : At(t, pc)' <=> At(t, pc)
    BY <1>1 DEF Writing, Viewing, Inserting, Retiring, At
  <1>4. \A x : /\ (Written(x)' <=> Written(x)) /\ Content(x)' = Content(x)
               /\ EdgesOf(x)' = EdgesOf(x) /\ Buf(x)' = Buf(x)
               /\ (Retired(x)' <=> Retired(x)) /\ (Merging(x)' <=> Merging(x))
    BY <1>1 DEF Written, Writing, Content, EdgesOf, Buf, Retired, Merging, At
  <1>5. Safe'
    <2>1. \A t \in Threads : SafeThread(t)'
      BY <1>1, <1>3, <1>4 DEF IInv, Safe, SafeThread, Bound, Held, Home, Filling, Seen, EdgesOf
    <2> QED  BY <1>1, <1>2, <1>3, <2>1 DEF IInv, Safe, OnePlace, JunkHeld, BlockExclusive
  <1>6. ASSUME ~overlap PROVE Calm'
    <2>1. Calm
      BY <1>6 DEF IInv
    <2>2. Quiet'
      BY <1>3, <2>1 DEF Calm, Quiet
    <2>3. Path'
      <3>1. Linked' /\ Detached'
        BY <1>1, <2>1 DEF Calm, Path, Linked, Detached, Retired, Content
      <3>2. \A m \in Middles, s \in Sources : Buffered(m, s)'
        BY <1>1, <2>1 DEF Calm, Path, Buffered, Retired, Content, At
      <3> QED  BY <3>1, <3>2 DEF Path
    <2>4. Stored'
      BY <1>1, <2>1 DEF Calm, Stored, Buf, Content, EdgesOf, Merging, At
    <2>5. \A t \in Threads : OnPath(t)' /\ OffPath(t)'
      BY <1>1, <2>1 DEF Calm, CalmThread, OnPath, OffPath, Inserting, Writing, At, EdgesOf, Retired, Content
    <2>6. \A t \in Threads : Told(t)'
      BY <1>1, <2>1 DEF Calm, CalmThread, Told, Viewing, Written, Writing, Content, At
    <2> QED  BY <2>2, <2>3, <2>4, <2>5, <2>6 DEF Calm, CalmThread
  <1> QED  BY <1>1, <1>5, <1>6 DEF IInv

(* The block a graph of Loads gives a source fits.                         *)
LEMMA LoadedFits ==
  ASSUME NEW load \in Loads, NEW s \in Sources
  PROVE  /\ LoadedBlock(load[s]) \in BlockType /\ Fits(LoadedBlock(load[s]))
         /\ load[s].head \in SUBSET Dests /\ load[s].array \in SUBSET Dests
         /\ LoadedBlock(load[s]).head = load[s].head /\ LoadedBlock(load[s]).array = load[s].array
         /\ ~LoadedBlock(load[s]).obsolete
         /\ load[s].head = {} => load[s].array = {}
  <1>1. /\ load[s] \in [head : SUBSET Dests, array : SUBSET Dests]
        /\ Cardinality(load[s].head) <= HeadCap
        /\ load[s].array # {} => load[s].head # {}
    <2>1. load \in [Sources -> [head : SUBSET Dests, array : SUBSET Dests]]
      BY LoadAssumption
    <2>2. Cardinality(load[s].head) <= HeadCap /\ (load[s].array # {} => load[s].head # {})
      BY LoadAssumption
    <2> QED  BY <2>1, <2>2
  <1>2. PICK head \in SUBSET Dests, array \in SUBSET Dests : head = load[s].head /\ array = load[s].array
    BY <1>1
  <1>3. PICK five \in BOOLEAN : five = (array # {} \/ Cardinality(head) > SmallCap)
    OBVIOUS
  <1>4. PICK x : x = [five |-> five, head |-> head, array |-> array, obsolete |-> FALSE]
    OBVIOUS
  <1>5. LoadedBlock(load[s]) = x
    BY <1>2, <1>3, <1>4 DEF LoadedBlock
  <1>6. x \in BlockType /\ x.head = head /\ x.array = array /\ x.five = five /\ ~x.obsolete
    BY <1>2, <1>3, <1>4 DEF BlockType
  <1>7. Cardinality(head) \in Nat /\ SmallCap \in Nat /\ HeadCap \in Nat
    BY <1>2, HeadFacts, SizeAssumption
  <1>8. Fits(x)
    <2>1. CASE five
      BY <1>1, <1>2, <1>6, <2>1 DEF Fits
    <2>2. CASE ~five
      <3>1. array = {} /\ ~(Cardinality(head) > SmallCap)
        BY <1>3, <2>2
      <3>2. Cardinality(head) <= SmallCap
        BY <1>7, <3>1
      <3> QED  BY <1>6, <2>2, <3>1, <3>2 DEF Fits
    <2> QED  BY <2>1, <2>2
  <1> QED  BY <1>1, <1>2, <1>5, <1>6, <1>8

(* The invariant holds at the start.                                       *)
LEMMA InitHolds ==
  ASSUME Init
  PROVE  IInv
  <1>i. PICK load \in Loads, others \in BOOLEAN, m \in Middles, at \in [Sources -> Blocks] :
          LET present == {s \in Sources : load[s].head # {}}
              here == [NoMiddle EXCEPT !.bits = present,
                                       !.buf = [s \in Sources |-> IF s \in present THEN at[s] ELSE Null]]
          IN  /\ m = Free(Middles, {}) /\ at = CHOOSE f \in [Sources -> Blocks] :
                                                 \A s, u \in Sources : f[s] = f[u] => s = u
              /\ top = [bit |-> present # {}, child |-> IF present = {} THEN Null ELSE m,
                        others |-> others, obsolete |-> FALSE]
              /\ middle = [x \in Middles |-> IF x = m THEN here ELSE NoMiddle]
              /\ block = [b \in Blocks |->
                            IF \E s \in present : at[s] = b
                              THEN LoadedBlock(load[CHOOSE s \in present : at[s] = b])
                              ELSE NewBlock]
              /\ edges = {e \in Sources \X Dests : e[2] \in load[e[1]].head \cup load[e[1]].array}
              /\ thread = [t \in Threads |-> Idle(0)]
              /\ overlap = FALSE
    BY DEF Init
  <1> DEFINE P == {s \in Sources : load[s].head # {}}
             H == [NoMiddle EXCEPT !.bits = P,
                                   !.buf = [s \in Sources |-> IF s \in P THEN at[s] ELSE Null]]
  <1>d. /\ at = CHOOSE f \in [Sources -> Blocks] : \A s, u \in Sources : f[s] = f[u] => s = u
        /\ top = [bit |-> P # {}, child |-> IF P = {} THEN Null ELSE m,
                  others |-> others, obsolete |-> FALSE]
        /\ middle = [x \in Middles |-> IF x = m THEN H ELSE NoMiddle]
        /\ block = [b \in Blocks |->
                      IF \E s \in P : at[s] = b
                        THEN LoadedBlock(load[CHOOSE s \in P : at[s] = b])
                        ELSE NewBlock]
        /\ edges = {e \in Sources \X Dests : e[2] \in load[e[1]].head \cup load[e[1]].array}
        /\ thread = [t \in Threads |-> Idle(0)]
        /\ overlap = FALSE
    BY <1>i
  <1>p. PICK present : present = P
    OBVIOUS
  <1>h. PICK here : here = H
    OBVIOUS
  <1>q. /\ present = {s \in Sources : load[s].head # {}}
        /\ here = [NoMiddle EXCEPT !.bits = present,
                                   !.buf = [s \in Sources |-> IF s \in present THEN at[s] ELSE Null]]
    BY <1>p, <1>h
  <1> HIDE DEF P, H
  <1>1. /\ present = {s \in Sources : load[s].head # {}}
        /\ here = [NoMiddle EXCEPT !.bits = present,
                                   !.buf = [s \in Sources |-> IF s \in present THEN at[s] ELSE Null]]
        /\ at = CHOOSE f \in [Sources -> Blocks] : \A s, u \in Sources : f[s] = f[u] => s = u
        /\ top = [bit |-> present # {}, child |-> IF present = {} THEN Null ELSE m,
                  others |-> others, obsolete |-> FALSE]
        /\ middle = [x \in Middles |-> IF x = m THEN here ELSE NoMiddle]
        /\ block = [b \in Blocks |->
                      IF \E s \in present : at[s] = b
                        THEN LoadedBlock(load[CHOOSE s \in present : at[s] = b])
                        ELSE NewBlock]
        /\ edges = {e \in Sources \X Dests : e[2] \in load[e[1]].head \cup load[e[1]].array}
        /\ thread = [t \in Threads |-> Idle(0)]
        /\ overlap = FALSE
    BY <1>d, <1>p, <1>h, <1>q
  <1>2. \A s, u \in Sources : at[s] = at[u] => s = u
    <2>1. \E f \in [Sources -> Blocks] : \A s, u \in Sources : f[s] = f[u] => s = u
      BY LoadAssumption
    <2>2. at = CHOOSE f \in [Sources -> Blocks] : \A s, u \in Sources : f[s] = f[u] => s = u
      BY <1>1
    <2> QED  BY <2>1, <2>2
  <1>3. PICK nowhere \in [Sources -> Threads \cup {Null, Leaked}] : nowhere = [s \in Sources |-> Null]
    OBVIOUS
  <1>4. /\ NoMiddle \in MiddleType /\ NoMiddle.bits = {} /\ \A s \in Sources : NoMiddle.buf[s] = Null
    BY DEF NoMiddle, MiddleType
  <1>5. /\ here \in MiddleType /\ here.bits = present
        /\ \A s \in Sources : here.buf[s] = IF s \in present THEN at[s] ELSE Null
    <2>1. PICK buf \in [Sources -> Blocks \cup {Null}] : buf = [s \in Sources |-> IF s \in present THEN at[s] ELSE Null]
      OBVIOUS
    <2>2. here = [NoMiddle EXCEPT !.bits = present, !.buf = buf] /\ present \in SUBSET Sources
      BY <1>1, <2>1
    <2> QED  BY <1>4, <2>1, <2>2 DEF MiddleType
  <1>6. /\ middle \in [Middles -> MiddleType]
        /\ middle[m] = here /\ \A n \in Middles : n # m => middle[n] = NoMiddle
    BY <1>1, <1>4, <1>5
  \* A block is that of one source, or new.
  <1>7. ASSUME NEW s \in present PROVE block[at[s]] = LoadedBlock(load[s]) /\ s \in Sources
    <2>1. present \subseteq Sources
      BY <1>1
    <2>2. PICK u : u = CHOOSE v \in present : at[v] = at[s]
      OBVIOUS
    <2>3. u \in present /\ at[u] = at[s]
      BY <1>7, <2>2
    <2>4. u = s /\ at[s] \in Blocks
      BY <1>2, <1>7, <2>1, <2>3
    <2> QED  BY <1>1, <1>7, <2>1, <2>2, <2>4
  <1>8. ASSUME NEW b \in Blocks
        PROVE  \/ \E s \in present : s \in Sources /\ b = at[s] /\ block[b] = LoadedBlock(load[s])
               \/ block[b] = NewBlock
    BY <1>1, <1>7, <1>8
  <1>9. ASSUME NEW b \in Blocks
        PROVE  block[b] \in BlockType /\ Fits(block[b]) /\ Junk \notin block[b].head /\ ~block[b].obsolete
    BY <1>8, <1>9, LoadedFits, NewFits, NameAssumption
  <1>10. block \in [Blocks -> BlockType]
    <2>1. block = [b \in Blocks |-> block[b]]
      BY <1>1
    <2> QED  BY <1>9, <2>1
  <1>11. /\ top \in [bit : BOOLEAN, child : Middles \cup {Null}, others : BOOLEAN, obsolete : BOOLEAN]
         /\ top.bit <=> present # {}
         /\ top.child = IF present = {} THEN Null ELSE m
    BY <1>1
  <1>12. edges \in SUBSET (Sources \X Dests)
    BY <1>1
  <1>13. \A s \in Sources : EdgesOf(s) = load[s].head \cup load[s].array
    BY <1>1, LoadedFits DEF EdgesOf
  <1>14. \A t \in Threads : /\ thread[t] \in ThreadType /\ thread[t].pc = "idle" /\ thread[t].same = FALSE
                            /\ thread[t].wrong = FALSE /\ thread[t].seen = {}
                            /\ thread[t].calls \in 0..MaxCalls /\ thread[t].left \in 0..Threshold
    <2>1. 0 \in 0..MaxCalls
      BY SizeAssumption
    <2>2. /\ Idle(0) \in ThreadType /\ Idle(0).pc = "idle" /\ Idle(0).same = FALSE
          /\ Idle(0).wrong = FALSE /\ Idle(0).seen = {}
      BY <2>1, IdleRecord
    <2>3. Idle(0).calls \in 0..MaxCalls /\ Idle(0).left \in 0..Threshold
      BY <2>2 DEF ThreadType
    <2> QED  BY <1>1, <2>2, <2>3
  <1>15. thread \in [Threads -> ThreadType]
    <2>1. thread = [t \in Threads |-> thread[t]]
      BY <1>1
    <2> QED  BY <1>14, <2>1
  <1>16. \A t \in Threads : ~Writing(t) /\ ~Viewing(t) /\ ~Inserting(t) /\ ~Retiring(t)
    BY <1>14 DEF Writing, WritePCs, Viewing, ViewPCs, Inserting, Retiring
  <1>17. Safe
    <2>1. TypeOK
      <3>1. \A b \in Blocks : /\ Cardinality(block[b].head) <= Capacity(b)
                              /\ block[b].array # {} => block[b].five
        BY <1>9 DEF Fits, Capacity
      <3> QED  BY <1>1, <1>6, <1>10, <1>11, <1>12, <1>14, <3>1 DEF TypeOK, MiddleType, BlockType
    <2>2. OnePlace
      <3>1. ASSUME NEW n \in Middles, NEW k \in Middles, NEW v \in Sources, NEW w \in Sources,
                   middle[n].buf[v] # Null, middle[n].buf[v] = middle[k].buf[w]
            PROVE  n = k /\ v = w
        <4>1. n = m /\ k = m
          BY <1>4, <1>6, <3>1
        <4>2. here.buf[v] = at[v] /\ here.buf[w] = at[w]
          BY <1>5, <1>6, <3>1, <4>1
        <4> QED  BY <1>2, <1>6, <3>1, <4>1, <4>2
      <3> QED  BY <3>1 DEF OnePlace
    <2>3. JunkHeld /\ BlockExclusive
      BY <1>9, <1>14 DEF JunkHeld, BlockExclusive
    <2>4. \A t \in Threads : SafeThread(t)
      BY <1>14, <1>16 DEF SafeThread, Bound, Held, Home, Filling, Seen, At,
           InsertPCs, DeletePCs, ReadPCs, ViewPCs
    <2> QED  BY <1>15, <2>1, <2>2, <2>3, <2>4 DEF Safe
  <1>18. Calm
    <2>1. Quiet
      BY <1>16 DEF Quiet
    <2>2. Path
      <3>1. Linked
        BY <1>11, NameAssumption DEF Linked
      <3>2. Detached
        <4>1. ASSUME NEW n \in Middles, n # top.child
              PROVE  middle[n].bits = {} /\ \A s \in Sources : middle[n].buf[s] = Null
          <5>1. CASE n = m
            BY <1>5, <1>6, <1>11, <4>1, <5>1
          <5>2. CASE n # m
            BY <1>4, <1>6, <5>2
          <5> QED  BY <5>1, <5>2
        <4> QED  BY <4>1 DEF Detached, Retired
      <3>3. ASSUME NEW n \in Middles, NEW s \in Sources PROVE Buffered(n, s)
        <4>1. /\ middle[n].buf[s] \in Blocks \cup {Null}
              /\ s \in middle[n].bits <=> middle[n].buf[s] # Null
          <5>1. CASE n = m
            <6>1. s \in present => at[s] \in Blocks /\ at[s] # Null
              BY NameAssumption
            <6> QED  BY <1>5, <1>6, <5>1, <6>1
          <5>2. CASE n # m
            BY <1>4, <1>6, <5>2
          <5> QED  BY <5>1, <5>2
        <4> QED  BY <1>9, <4>1 DEF Buffered
      <3> QED  BY <3>1, <3>2, <3>3 DEF Path
    <2>3. Stored
      <3>1. ASSUME NEW s \in Sources
            PROVE /\ top.child # Null => (Buf(s) # Null =>
                        (Merging(s) \/ Content(Buf(s)) \ {Junk} = EdgesOf(s)))
                  /\ top.child = Null \/ Buf(s) = Null => EdgesOf(s) = {}
        <4>1. CASE s \in present
          <5>1. top.child = m /\ m # Null /\ Buf(s) = at[s] /\ at[s] # Null
            BY <1>5, <1>6, <1>11, <4>1, NameAssumption DEF Buf
          <5>2. Content(Buf(s)) = EdgesOf(s)
            BY <1>7, <1>13, <4>1, <5>1, LoadedFits DEF Content
          <5>3. Junk \notin EdgesOf(s)
            BY NameAssumption DEF EdgesOf
          <5> QED  BY <5>1, <5>2, <5>3
        <4>2. CASE s \notin present
          <5>1. EdgesOf(s) = {}
            BY <1>1, <1>13, <4>2, LoadedFits
          <5>2. top.child # Null => Buf(s) = Null
            BY <1>5, <1>6, <1>11, <4>2 DEF Buf
          <5> QED  BY <5>1, <5>2
        <4> QED  BY <4>1, <4>2
      <3> QED  BY <3>1 DEF Stored
    <2>4. \A t \in Threads : CalmThread(t)
      BY <1>14, <1>16 DEF CalmThread, OnPath, OffPath, Told, At, RetirePCs
    <2> QED  BY <2>1, <2>2, <2>3, <2>4 DEF Calm
  <1> QED  BY <1>17, <1>18 DEF IInv

-----------------------------------------------------------------------------
(* The theorems.                                                           *)

(* What the invariant says of the tree: a search from the top block finds  *)
(* the edges of every source that no insertion is merging.                 *)
LEMMA TreeExact ==
  ASSUME IInv
  PROVE  EdgesReachable
  <1>1. SUFFICES ASSUME ~overlap, NEW s \in Sources, ~Merging(s)
                 PROVE  Reachable(s) = EdgesOf(s)
    BY DEF EdgesReachable, EdgesOf
  <1>2. Safe /\ Calm
    BY <1>1 DEF IInv
  <1>3. CASE top.child = Null \/ s \notin middle[top.child].bits \/ Buf(s) = Null
    BY <1>2, <1>3, AbsentExact DEF Reachable, Buf
  <1>4. CASE ~(top.child = Null \/ s \notin middle[top.child].bits \/ Buf(s) = Null)
    <2>1. top.bit
      BY <1>2, <1>4 DEF Calm, Path, Linked
    <2>2. Content(Buf(s)) \ {Junk} = EdgesOf(s)
      BY <1>1, <1>2, <1>4 DEF Calm, Stored
    <2> QED  BY <1>4, <2>1, <2>2 DEF Reachable, Buf
  <1> QED  BY <1>3, <1>4

(* The invariant is inductive: it holds at the start, and every step of    *)
(* UpdateEdge, DeleteEdge and get_neighbours keeps it.                     *)
THEOREM Inductive == Spec => []IInv
  <1>1. Init => IInv
    BY InitHolds
  <1>2. IInv /\ [Next]_vars => IInv'
    BY StepKeeps, StutterKeeps DEF Next
  <1> QED  BY <1>1, <1>2, PTL DEF Spec

(* Every variable keeps its type: a block never holds more vertices than   *)
(* it has slots, and only the type with an edge array has one.             *)
THEOREM TypeCorrect == Spec => []TypeOK
  <1>1. IInv => TypeOK
    BY DEF IInv, Safe
  <1> QED  BY <1>1, Inductive, PTL

(* Whatever the interleaving, two threads are never inside the same block. *)
THEOREM Exclusive == Spec => []BlockExclusive
  <1>1. IInv => BlockExclusive
    BY DEF IInv, Safe
  <1> QED  BY <1>1, Inductive, PTL

(* In a graph of 4 byte identifiers, as long as no insertion overlaps the  *)
(* retirement of a block, a search from the top block finds the edges of   *)
(* the finished calls.                                                     *)
THEOREM TreeCorrect == Spec => []EdgesReachable
  <1> QED  BY TreeExact, Inductive, PTL

(* Under the same condition a read that compared the timestamps, or held   *)
(* the lock, or found no block, returns neighbours the source had while    *)
(* the call ran.                                                           *)
THEOREM ReadsCorrect == Spec => []ReadsConsistent
  <1>1. IInv => ReadsConsistent
    BY DEF IInv, Calm, CalmThread, Told, ReadsConsistent
  <1> QED  BY <1>1, Inductive, PTL
====
