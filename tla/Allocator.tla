------------------------------ MODULE Allocator ------------------------------
(***************************************************************************)
(* The allocator of src/platform/src/system/allocate.c.  Requests of at     *)
(* most SmallLimit bytes are served by the buffer queue of their size       *)
(* class: a chain of malloc'ed nodes that are marked used and reused.  The  *)
(* others are rounded up to Granule and served by the pool: below a page    *)
(* from a chain of pages that only grow until the last object in them is    *)
(* given back, else from a list of blocks whose headers lie in the pages.   *)
(*                                                                          *)
(* The allocator has no lock and is used by one thread at a time: one call  *)
(* is one action.  malloc is assumed not to fail.  Left out are the calls   *)
(* that end the process: Release of an object of a buffer queue or of a     *)
(* block.                                                                   *)
(***************************************************************************)
EXTENDS Integers, Sequences, FiniteSets

CONSTANTS
  Programs,       \* sets of sizes: those that one program asks for
  SmallLimit, UnitNodeSize, BufferQueueNum, Granule,
  MemoryPoolSize, PageSize, MaxFailedTimes,
  SizeofMemoryBlock, SizeofBlockNode,
  Memory,         \* what malloc returns for the nodes of the buffer queues
  Garbage,        \* what a size field nobody wrote may hold
  MaxHeld,        \* bound: objects the clients hold at once
  MaxPages,       \* bound: pages
  MaxBlocks,      \* bound: blocks
  MaxDrift,       \* bound: how far num may fall below zero
  MaxTries        \* bound: refused requests counted on one page

ASSUME AllocatorAssumption ==
  /\ {SmallLimit, UnitNodeSize, BufferQueueNum, Granule, MemoryPoolSize,
      PageSize, MaxFailedTimes, SizeofMemoryBlock, SizeofBlockNode} \subseteq Nat
  /\ UnitNodeSize > 0 /\ Granule > 0 /\ SizeofMemoryBlock > 0
  /\ MemoryPoolSize = PageSize
  /\ SizeofBlockNode > 0
  /\ SizeofBlockNode * SizeofBlockNode - SizeofBlockNode <= PageSize
  /\ Programs \subseteq SUBSET Nat /\ Garbage \subseteq Nat
  /\ {MaxHeld, MaxPages, MaxBlocks, MaxDrift, MaxTries} \subseteq Nat

VARIABLES
  sizes,      \* what the clients of this program ask for
  m_queue,    \* the buffer queues: num and the chain of nodes, the head first
  page,       \* the pool's BlockNodes, the head first; none before m_pool is
  current,    \* the index of m_pool->current
  block,      \* the pool's MemoryBlocks in list order, and where they lie
  small,      \* the nodes that clients hold
  chunks,     \* the pieces of pages that clients hold
  blocks,     \* the blocks that clients hold, by their index in block
  forgotten,  \* history: the pieces that Release did not take back
  misses,     \* history: requests below a page refused in a row
  overrun     \* history: a call addressed a queue beyond m_queue

pool == <<page, current, block, chunks, blocks, forgotten, misses>>
vars == <<sizes, m_queue, small, pool, overrun>>

Indexes == 0..BufferQueueNum - 1

(* The offset `last` is set back to when a page empties, counted from the
   start of the page's memory: the sizeof is added to a pointer to a node,
   so it counts nodes, not bytes.                                           *)
ResetOffset == SizeofBlockNode * SizeofBlockNode - SizeofBlockNode

Nodes == [memory : Memory, used : BOOLEAN, size : Nat, room : Nat]
Pages == [last : Nat, quote : Int, failed : Nat]
Blocks == [page : Nat, start : Nat, size : Nat, used : BOOLEAN]
Chunks == [page : Nat, start : Nat, size : Nat]

TypeOK ==
  /\ sizes \in Programs
  /\ m_queue \in [Indexes -> [num : Int, chain : Seq(Nodes)]]
  /\ page \in Seq(Pages)
  /\ current \in IF page = <<>> THEN {0} ELSE 1..Len(page)
  /\ block \in Seq(Blocks)
  /\ small \subseteq [memory : Memory, size : Nat, room : Nat]
  /\ chunks \subseteq Chunks
  /\ blocks \subseteq [index : 1..Len(block), size : Nat]
  /\ forgotten \subseteq Chunks
  /\ misses \in Nat
  /\ overrun \in BOOLEAN

Held == Cardinality(small) + Cardinality(chunks) + Cardinality(blocks)

(* InitAllocater *)
Init ==
  /\ sizes \in Programs
  /\ m_queue = [i \in Indexes |-> [num |-> 0, chain |-> <<>>]]
  /\ page = <<>> /\ current = 0
  /\ block = <<>>
  /\ small = {} /\ chunks = {} /\ blocks = {} /\ forgotten = {}
  /\ misses = 0
  /\ overrun = FALSE

-----------------------------------------------------------------------------
GetQueueIndex(size) == size \div UnitNodeSize

RoundUp(size) == ((size + Granule - 1) \div Granule) * Granule

(* The memory no chain and no client knows of.                              *)
Chained(i) == {m_queue[i].chain[k].memory : k \in DOMAIN m_queue[i].chain}
Fresh ==
  {a \in Memory : /\ \A i \in Indexes : a \notin Chained(i)
                  /\ \A o \in small : o.memory # a}

(* Mutant: the search does not look at the sizes of the nodes.              *)
FittingAny(i, size) ==
  {k \in DOMAIN m_queue[i].chain : ~m_queue[i].chain[k].used}

(* The nodes a request can reuse; the walk stops at the first.              *)
Fitting(i, size) ==
  {k \in DOMAIN m_queue[i].chain :
     ~m_queue[i].chain[k].used /\ m_queue[i].chain[k].size >= size}

First(S) == CHOOSE k \in S : \A j \in S : k <= j

Grant(a, size, room) ==
  small' = small \cup {[memory |-> a, size |-> size, room |-> room]}

(* BufferQueueAllocate.  With num = 0 a new node replaces the whole chain,
   and its size is never written.                                           *)
StartQueue(i, size) ==
  /\ m_queue[i].num = 0
  /\ \E a \in Fresh, g \in Garbage :
       /\ m_queue' = [m_queue EXCEPT ![i] =
            [num |-> 1,
             chain |-> <<[memory |-> a, used |-> TRUE, size |-> g, room |-> size]>>]]
       /\ Grant(a, size, size)

ReuseNode(i, size) ==
  LET k == First(Fitting(i, size))
      n == m_queue[i].chain[k] IN
  /\ m_queue[i].num # 0
  /\ Fitting(i, size) # {}
  /\ m_queue' = [m_queue EXCEPT ![i].chain[k].used = TRUE]
  /\ Grant(n.memory, size, n.room)

AppendNode(i, size) ==
  /\ m_queue[i].num # 0
  /\ Fitting(i, size) = {}
  /\ \E a \in Fresh :
       /\ m_queue' = [m_queue EXCEPT ![i].chain =
            Append(@, [memory |-> a, used |-> TRUE, size |-> size, room |-> size])]
       /\ Grant(a, size, size)

(* The index is not checked: beyond the last queue the call reads and writes
   what lies behind the allocator, and the model says nothing of what follows. *)
AllocateSmall(size) ==
  LET i == GetQueueIndex(size) IN
  /\ size <= SmallLimit
  /\ \/ /\ i \in Indexes
        /\ StartQueue(i, size) \/ ReuseNode(i, size) \/ AppendNode(i, size)
        /\ UNCHANGED overrun
     \/ /\ i \notin Indexes
        /\ overrun' = TRUE
        /\ UNCHANGED <<m_queue, small>>
  /\ UNCHANGED pool

(* Recycle: a node whose chain was replaced is not found.                   *)
RecycleSmall(o) ==
  LET i == GetQueueIndex(o.size)
      hit == {k \in DOMAIN m_queue[i].chain : m_queue[i].chain[k].memory = o.memory} IN
  /\ small' = small \ {o}
  /\ \/ /\ hit = {}
        /\ UNCHANGED m_queue
     \/ \E k \in hit :
          /\ m_queue[i].num > -MaxDrift
          /\ m_queue' = [m_queue EXCEPT ![i].num = @ - 1, ![i].chain[k].used = FALSE]
  /\ UNCHANGED <<pool, overrun>>

-----------------------------------------------------------------------------
(* CreateMemoryPool and the end of the chain of pages.                      *)
NewPage == [last |-> 0, quote |-> 0, failed |-> 0]

LoadedPages == IF page = <<>> THEN <<NewPage>> ELSE page
LoadedCurrent == IF page = <<>> THEN 1 ELSE current

(* Mutant: the page is given one more try.                                  *)
GivesUpLate == LoadedPages[LoadedCurrent].failed > MaxFailedTimes + 1

(* A page that refused too often is left for the next one, if need be a new
   one; only a request below a page moves on.                               *)
GivesUp == LoadedPages[LoadedCurrent].failed > MaxFailedTimes

MovedPages ==
  IF GivesUp /\ LoadedCurrent = Len(LoadedPages)
  THEN Append(LoadedPages, NewPage) ELSE LoadedPages

MovedCurrent == IF GivesUp THEN LoadedCurrent + 1 ELSE LoadedCurrent

ResidueSize(node) == PageSize - node.last

Refused(node) == [last |-> node.last, quote |-> node.quote, failed |-> node.failed + 1]

(* Mutant: the new piece is not counted.                                    *)
CarvedUncounted(node, size) ==
  [last |-> node.last + size, quote |-> node.quote, failed |-> 0]

Carved(node, size) == [last |-> node.last + size, quote |-> node.quote + 1, failed |-> 0]

(* MemoryPoolAllocate below a page.                                         *)
AllocateChunk(size) ==
  LET node == MovedPages[MovedCurrent] IN
  /\ size < MemoryPoolSize
  /\ Len(MovedPages) <= MaxPages
  /\ current' = MovedCurrent
  /\ \/ /\ ResidueSize(node) < size
        /\ node.failed < MaxTries
        /\ page' = [MovedPages EXCEPT ![MovedCurrent] = Refused(node)]
        /\ misses' = misses + 1
        /\ UNCHANGED chunks
     \/ /\ ResidueSize(node) >= size
        /\ page' = [MovedPages EXCEPT ![MovedCurrent] = Carved(node, size)]
        /\ chunks' = chunks \cup {[page |-> MovedCurrent, start |-> node.last, size |-> size]}
        /\ misses' = 0
  /\ UNCHANGED <<block, blocks, forgotten>>

FittingBlocks(size) == {k \in DOMAIN block : ~block[k].used /\ block[k].size >= size}

Lend(k, size) == blocks' = blocks \cup {[index |-> k, size |-> size]}

(* Mutant: the new header is stored through a copy of the link it should go
   to, so no list leads to it (the walk of allocate.c:152 is over pointers to
   the links for that reason).                                              *)
AllocateBlockUnlinked(size) ==
  LET node == LoadedPages[LoadedCurrent]
      fitting == FittingBlocks(size) IN
  /\ size >= MemoryPoolSize
  /\ current' = LoadedCurrent
  /\ ResidueSize(node) >= SizeofMemoryBlock
  /\ \/ /\ fitting # {}
        /\ page' = LoadedPages
        /\ block' = [block EXCEPT ![First(fitting)].used = TRUE]
        /\ Lend(First(fitting), size)
     \/ /\ fitting = {}
        /\ page' = [LoadedPages EXCEPT ![LoadedCurrent] = Carved(node, SizeofMemoryBlock)]
        /\ Lend(Len(block) + 1, size)
        /\ UNCHANGED block
  /\ UNCHANGED <<chunks, forgotten, misses>>

(* MemoryPoolAllocate of a page and more: the room for a header is asked for
   even when a block can be reused.                                         *)
AllocateBlock(size) ==
  LET node == LoadedPages[LoadedCurrent]
      fitting == FittingBlocks(size) IN
  /\ size >= MemoryPoolSize
  /\ current' = LoadedCurrent
  /\ \/ /\ ResidueSize(node) < SizeofMemoryBlock
        /\ node.failed < MaxTries
        /\ page' = [LoadedPages EXCEPT ![LoadedCurrent] = Refused(node)]
        /\ UNCHANGED <<block, blocks, misses>>
     \/ /\ ResidueSize(node) >= SizeofMemoryBlock
        /\ fitting # {}
        /\ page' = LoadedPages
        /\ block' = [block EXCEPT ![First(fitting)].used = TRUE]
        /\ Lend(First(fitting), size)
        /\ UNCHANGED misses
     \/ /\ ResidueSize(node) >= SizeofMemoryBlock
        /\ fitting = {}
        /\ Len(block) < MaxBlocks
        /\ page' = [LoadedPages EXCEPT ![LoadedCurrent] = Carved(node, SizeofMemoryBlock)]
        /\ block' = Append(block, [page |-> LoadedCurrent, start |-> node.last,
                                   size |-> size, used |-> TRUE])
        /\ Lend(Len(block) + 1, size)
        /\ misses' = 0
  /\ UNCHANGED <<chunks, forgotten>>

AllocateLarge(size) ==
  /\ size > SmallLimit
  /\ AllocateChunk(RoundUp(size)) \/ AllocateBlock(RoundUp(size))
  /\ UNCHANGED <<m_queue, small, overrun>>

(* Mutant: the page starts anew while a last piece is still in it.          *)
RecycleChunkEarly(c) ==
  LET node == page[c.page] IN
  /\ chunks' = chunks \ {c}
  /\ page' = [page EXCEPT ![c.page] =
       [last |-> IF node.quote <= 2 THEN ResetOffset ELSE node.last,
        quote |-> node.quote - 1, failed |-> node.failed]]
  /\ UNCHANGED <<current, misses, block, blocks, forgotten, m_queue, small, overrun>>

(* MemoryPoolRecycle below a page: the last reference gone, the page starts
   anew and becomes the current one.                                        *)
RecycleChunk(c) ==
  LET node == page[c.page] IN
  /\ chunks' = chunks \ {c}
  /\ \/ /\ node.quote # 1
        /\ page' = [page EXCEPT ![c.page] =
             [last |-> node.last, quote |-> node.quote - 1, failed |-> node.failed]]
        /\ UNCHANGED <<current, misses>>
     \/ /\ node.quote = 1
        /\ page' = [page EXCEPT ![c.page] =
             [last |-> ResetOffset, quote |-> 0, failed |-> 0]]
        /\ current' = c.page
        /\ misses' = 0
  /\ UNCHANGED <<block, blocks, forgotten, m_queue, small, overrun>>

(* Release below a page passes the address of the client's variable, which
   lies in no page, so the piece is never taken back.                       *)
ReleaseChunk(c) ==
  /\ chunks' = chunks \ {c}
  /\ forgotten' = forgotten \cup {c}
  /\ UNCHANGED <<page, current, block, blocks, misses, m_queue, small, overrun>>

(* MemoryPoolRecycle of a block.  Of exactly a page it looks in the pages,
   finds nothing, and the block stays used; so does Release of a request
   below a page that was rounded up to one.                                 *)
RecycleBlock(o) ==
  /\ blocks' = blocks \ {o}
  /\ block' = IF o.size > PageSize THEN [block EXCEPT ![o.index].used = FALSE]
              ELSE block
  /\ UNCHANGED <<page, current, chunks, forgotten, misses, m_queue, small, overrun>>

(* CloseAllocater frees everything; the clients must call InitAllocater
   before anything else, as the heads of the queues still point at what was
   freed.                                                                   *)
CloseAllocater ==
  /\ m_queue' = [i \in Indexes |-> [num |-> 0, chain |-> <<>>]]
  /\ page' = <<>> /\ current' = 0
  /\ block' = <<>>
  /\ small' = {} /\ chunks' = {} /\ blocks' = {} /\ forgotten' = {}
  /\ misses' = 0
  /\ UNCHANGED overrun

Next ==
  /\ ~overrun
  /\ UNCHANGED sizes
  /\ \/ /\ Held < MaxHeld
        /\ \E size \in sizes : AllocateSmall(size) \/ AllocateLarge(size)
     \/ \E o \in small : RecycleSmall(o)
     \/ \E c \in chunks : RecycleChunk(c) \/ ReleaseChunk(c)
     \/ \E o \in blocks : RecycleBlock(o)
     \/ CloseAllocater

Spec == Init /\ [][Next]_vars
-----------------------------------------------------------------------------
Header(k) == [page |-> block[k].page, start |-> block[k].start, size |-> SizeofMemoryBlock]
Headers == {Header(k) : k \in DOMAIN block}

Pieces == chunks \cup forgotten \cup Headers

(* No byte has two owners.  The pieces cut out of the pages, the headers of
   the blocks among them, lie below `last` of their page and do not overlap,
   although pages are rewound and handed out again; a block and a node have
   one client, and while one has them they are marked used.                 *)
Disjoint ==
  /\ chunks \cap forgotten = {} /\ Headers \cap (chunks \cup forgotten) = {}
  /\ \A j, k \in DOMAIN block : Header(j) = Header(k) => j = k
  /\ \A a \in Pieces : a.page \in DOMAIN page /\ a.start + a.size <= page[a.page].last
  /\ \A p \in DOMAIN page : page[p].last <= PageSize
  /\ \A a, b \in Pieces :
       a # b /\ a.page = b.page
         => a.start + a.size <= b.start \/ b.start + b.size <= a.start
  /\ \A o, p \in blocks : o.index = p.index => o = p
  /\ \A o \in blocks : block[o.index].used
  /\ \A o, p \in small : o.memory = p.memory => o = p
  /\ \A o \in small, i \in Indexes : \A k \in DOMAIN m_queue[i].chain :
       m_queue[i].chain[k].memory = o.memory => m_queue[i].chain[k].used

(* The quote of a page counts what still lies in it, so a page is rewound
   only when nothing does.                                                  *)
QuoteCounts ==
  \A p \in DOMAIN page :
    page[p].quote = Cardinality({a \in chunks \cup forgotten : a.page = p})
                      + Cardinality({k \in DOMAIN block : block[k].page = p})

(* What is handed out is as large as what was asked for.  The one exception
   is the node an empty queue starts with, whose size is never written
   (allocate.c:281): it is the head of its queue, or lost with its queue.   *)
LargeEnough ==
  /\ \A o \in blocks : block[o.index].size >= o.size
  /\ \A o \in small : o.room < o.size =>
       \A i \in Indexes : \A k \in DOMAIN m_queue[i].chain :
         m_queue[i].chain[k].memory = o.memory => k = 1

(* A request below a page that is tried again after each refusal is refused
   at most MaxFailedTimes + 1 times per page: the count of failures moves the
   pool on to another page, in the end to a new one.                        *)
PatienceBounded == misses <= (MaxFailedTimes + 1) * Len(page)

(* Every size up to SmallLimit has a queue.                                 *)
NoOverrun == ~overrun
=============================================================================
