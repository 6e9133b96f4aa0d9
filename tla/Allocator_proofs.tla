-------------------------- MODULE Allocator_proofs --------------------------
(***************************************************************************)
(* The invariants of Allocator, for every set of programs, every size of   *)
(* the queues, of the pages and of the headers, and any number of objects. *)
(***************************************************************************)
EXTENDS Allocator, FiniteSetTheorems, SequenceTheorems, WellFoundedInduction, TLAPS

(* The marks and sizes of the nodes of the queues (allocate.c:261-315): a
   node lies in one chain and there once, an object held is in a queue and
   has a memory of its own, whose node is marked; and the size field of a node
   says no more than what the node has, except at the head of its queue.     *)
QueuesOK ==
  /\ \A i, j \in Indexes : \A k \in DOMAIN m_queue[i].chain, l \in DOMAIN m_queue[j].chain :
       m_queue[i].chain[k].memory = m_queue[j].chain[l].memory => i = j /\ k = l
  /\ \A i \in Indexes : \A k \in DOMAIN m_queue[i].chain :
       m_queue[i].chain[k].room < m_queue[i].chain[k].size => k = 1
  /\ \A o, p \in small : o.memory = p.memory => o = p
  /\ \A o \in small, i \in Indexes : \A k \in DOMAIN m_queue[i].chain :
       m_queue[i].chain[k].memory = o.memory =>
         /\ m_queue[i].chain[k].used
         /\ o.room < o.size => k = 1

QueueTypes ==
  /\ sizes \in Programs
  /\ m_queue \in [Indexes -> [num : Int, chain : Seq(Nodes)]]
  /\ small \subseteq [memory : Memory, size : Nat, room : Nat]
  /\ overrun \in BOOLEAN

(* Two pieces of the pages do not share a byte.                              *)
Apart(a, b) ==
  a.page = b.page => a.start + a.size <= b.start \/ b.start + b.size <= a.start

Taken == chunks \cup forgotten

PoolTypes ==
  /\ page \in Seq(Pages)
  /\ current \in IF page = <<>> THEN {0} ELSE 1..Len(page)
  /\ block \in Seq(Blocks)
  /\ chunks \subseteq Chunks /\ IsFiniteSet(chunks)
  /\ forgotten \subseteq Chunks /\ IsFiniteSet(forgotten)
  /\ blocks \subseteq [index : 1..Len(block), size : Nat]
  /\ misses \in Nat

BlocksOK ==
  /\ \A o, p \in blocks : o.index = p.index => o = p
  /\ \A o \in blocks : block[o.index].used /\ block[o.index].size >= o.size

(* The pieces and the headers in page p.                                     *)
OnPage(p) == {a \in Taken : a.page = p}
HeadersOn(p) == {k \in DOMAIN block : block[k].page = p}

(* The pages P have room for what is taken, and count it.                    *)
Fits(P) ==
  /\ \A a \in Taken : a.page \in DOMAIN P /\ a.start + a.size <= P[a.page].last
  /\ \A k \in DOMAIN block : block[k].page \in DOMAIN P
                      /\ block[k].start + SizeofMemoryBlock <= P[block[k].page].last
  /\ \A p \in DOMAIN P : P[p].last <= PageSize
  /\ \A p \in DOMAIN P : P[p].quote = Cardinality(OnPage(p)) + Cardinality(HeadersOn(p))

(* No two of what is taken share a byte, and none is empty.                  *)
Layout ==
  /\ chunks \cap forgotten = {}
  /\ \A a \in Taken : a.size > 0
  /\ \A a, b \in Taken : a # b => Apart(a, b)
  /\ \A a \in Taken, k \in DOMAIN block : Apart(a, Header(k))
  /\ \A j, k \in DOMAIN block : j # k => Apart(Header(j), Header(k))

(* The refusals in a row that the pages P have counted when c is the current
   one: MaxFailedTimes + 1 on each page before it, and its own.              *)
Credit(P, c) ==
  (MaxFailedTimes + 1) * (c - 1)
    + IF P[c].failed <= MaxFailedTimes THEN P[c].failed ELSE MaxFailedTimes + 1

Patience == misses <= IF page = <<>> THEN 0 ELSE Credit(page, current)

IInv ==
  QueueTypes /\ QueuesOK /\ PoolTypes /\ Fits(page) /\ Layout /\ BlocksOK /\ Patience
-----------------------------------------------------------------------------
(* Every set of naturals that is not empty has a least element.              *)
LEMMA LeastNatural ==
  ASSUME NEW T \in SUBSET Nat, T # {}
  PROVE  \E x \in T : \A y \in T : x <= y
  <1> DEFINE R == OpToRel(<, Nat)
  <1>1. IsWellFoundedOn(R, Nat)
    BY NatLessThanWellFounded
  <1>2. \A x, y \in Nat : y < x => <<y, x>> \in R
    BY DEF OpToRel
  <1> HIDE DEF R
  <1>3. PICK x \in T : \A y \in T : ~(<<y, x>> \in R)
    BY <1>1, WFMin
  <1>4. \A y \in T : ~(y < x)
    BY <1>2, <1>3
  <1>5. \A y \in T : x <= y
    BY <1>4
  <1> QED  BY <1>5

(* The walk along a chain or the list of blocks stops at a node that fits, if
   there is one (allocate.c:289 and 160).                                    *)
LEMMA FirstFits ==
  ASSUME NEW T \in SUBSET Nat, T # {}
  PROVE  First(T) \in T
  BY LeastNatural DEF First

(* A rounded size is no smaller than the size.                               *)
LEMMA RoundUpFacts ==
  ASSUME NEW size \in Nat, size > SmallLimit
  PROVE  RoundUp(size) \in Nat /\ RoundUp(size) >= size /\ RoundUp(size) > 0
  <1> DEFINE G == Granule
             a == size + G - 1
             q == a \div G
  <1>1. G \in Nat /\ G > 0 /\ SmallLimit \in Nat /\ a \in Nat
    BY AllocatorAssumption DEF AllocatorAssumption
  <1>2. q \in Int /\ a = G * q + (a % G) /\ a % G \in 0..G - 1
    <2> HIDE DEF a, G
    <2> QED  BY <1>1
  <1>3. q * G = a - (a % G)
    <2> HIDE DEF q, a, G
    <2> QED  BY <1>1, <1>2
  <1>4. q * G \in Int /\ q * G >= size
    <2>1. a - (a % G) >= size
      BY <1>1, <1>2
    <2>2. a - (a % G) \in Int
      BY <1>1, <1>2
    <2> QED  BY <1>3, <2>1, <2>2
  <1>5. RoundUp(size) = q * G
    BY DEF RoundUp
  <1> HIDE DEF q, a, G
  <1> QED  BY <1>1, <1>4, <1>5

(* The offset an emptied page starts from lies in the page.                  *)
LEMMA ResetInPage == ResetOffset \in Nat /\ ResetOffset <= PageSize /\ PageSize \in Nat
  <1> DEFINE n == SizeofBlockNode
  <1>1. n \in Nat /\ n > 0 /\ n * n - n <= PageSize /\ PageSize \in Nat
    BY AllocatorAssumption DEF AllocatorAssumption
  <1>2. n * n >= n /\ n * n \in Int
    <2> HIDE DEF n
    <2> QED  BY <1>1
  <1>3. ResetOffset = n * n - n
    BY DEF ResetOffset
  <1> HIDE DEF n
  <1> QED  BY <1>1, <1>2, <1>3
-----------------------------------------------------------------------------
(* A call that puts another queue in the place of queue i.                   *)
LEMMA QueuePut ==
  ASSUME QueueTypes, NEW i \in Indexes, NEW q \in [num : Int, chain : Seq(Nodes)],
         m_queue' = [m_queue EXCEPT ![i] = q]
  PROVE  /\ m_queue' \in [Indexes -> [num : Int, chain : Seq(Nodes)]]
         /\ m_queue'[i] = q
         /\ \A j \in Indexes : j # i => m_queue'[j] = m_queue[j]
  BY DEF QueueTypes

(* The chains are sequences of nodes.                                        *)
LEMMA ChainTypes ==
  ASSUME QueueTypes, NEW i \in Indexes
  PROVE  /\ m_queue[i] \in [num : Int, chain : Seq(Nodes)]
         /\ m_queue[i].num \in Int /\ m_queue[i].chain \in Seq(Nodes)
         /\ Len(m_queue[i].chain) \in Nat
         /\ DOMAIN m_queue[i].chain = 1..Len(m_queue[i].chain)
         /\ \A k \in DOMAIN m_queue[i].chain :
              /\ m_queue[i].chain[k] \in Nodes
              /\ m_queue[i].chain[k].memory \in Memory
              /\ m_queue[i].chain[k].used \in BOOLEAN
              /\ m_queue[i].chain[k].size \in Nat
              /\ m_queue[i].chain[k].room \in Nat
  <1>1. m_queue[i] \in [num : Int, chain : Seq(Nodes)]
    BY DEF QueueTypes
  <1> DEFINE c == m_queue[i].chain
  <1>2. m_queue[i].num \in Int /\ c \in Seq(Nodes)
    BY <1>1
  <1> HIDE DEF c
  <1>3. Len(c) \in Nat /\ DOMAIN c = 1..Len(c) /\ c \in [1..Len(c) -> Nodes]
    BY <1>2, LenProperties
  <1>4. \A k \in DOMAIN c : /\ c[k] \in Nodes /\ c[k].memory \in Memory /\ c[k].used \in BOOLEAN
                            /\ c[k].size \in Nat /\ c[k].room \in Nat
    BY <1>3 DEF Nodes
  <1> QED  BY <1>1, <1>2, <1>3, <1>4 DEF c

(* A queue that is started anew: its chain is one node, whose memory neither
   a chain nor a client knows of.                                            *)
LEMMA StartQueueSafe ==
  ASSUME QueueTypes, QueuesOK, NEW i \in Indexes, NEW size \in Nat,
         StartQueue(i, size), UNCHANGED <<sizes, overrun>>
  PROVE  QueueTypes' /\ QueuesOK'
  <1>1. PICK a \in Fresh, g \in Garbage :
          /\ m_queue' = [m_queue EXCEPT ![i] =
               [num |-> 1,
                chain |-> <<[memory |-> a, used |-> TRUE, size |-> g, room |-> size]>>]]
          /\ small' = small \cup {[memory |-> a, size |-> size, room |-> size]}
    BY DEF StartQueue, Grant
  <1> DEFINE n == [memory |-> a, used |-> TRUE, size |-> g, room |-> size]
             o == [memory |-> a, size |-> size, room |-> size]
             q == [num |-> 1, chain |-> <<n>>]
  <1>2. /\ a \in Memory /\ g \in Nat
        /\ \A p \in small : p.memory # a
        /\ \A j \in Indexes : \A k \in DOMAIN m_queue[j].chain : m_queue[j].chain[k].memory # a
    BY AllocatorAssumption DEF AllocatorAssumption, Fresh, Chained
  <1>3. q \in [num : Int, chain : Seq(Nodes)]
    BY <1>2 DEF Nodes
  <1>4. /\ m_queue' \in [Indexes -> [num : Int, chain : Seq(Nodes)]]
        /\ m_queue'[i] = q
        /\ \A j \in Indexes : j # i => m_queue'[j] = m_queue[j]
    <2> HIDE DEF q
    <2>1. m_queue' = [m_queue EXCEPT ![i] = q]
      BY <1>1 DEF q
    <2> QED  BY <1>3, <2>1, QueuePut
  <1>5. DOMAIN m_queue'[i].chain = {1} /\ m_queue'[i].chain[1] = n
    BY <1>4
  <1>6. o \in [memory : Memory, size : Nat, room : Nat] /\ small' = small \cup {o}
    BY <1>1, <1>2
  <1>7. QueueTypes'
    BY <1>4, <1>6 DEF QueueTypes
  <1>8. n.memory = a /\ n.used /\ o.memory = a
    OBVIOUS
  <1> HIDE DEF n, o, q
  <1>9. ASSUME NEW j \in Indexes, NEW h \in Indexes,
               NEW k \in DOMAIN m_queue'[j].chain, NEW l \in DOMAIN m_queue'[h].chain,
               m_queue'[j].chain[k].memory = m_queue'[h].chain[l].memory
        PROVE  j = h /\ k = l
    <2>1. CASE j = i /\ h = i
      BY <1>5, <2>1
    <2>2. CASE j # i /\ h # i
      <3>1. /\ k \in DOMAIN m_queue[j].chain /\ l \in DOMAIN m_queue[h].chain
            /\ m_queue[j].chain[k].memory = m_queue[h].chain[l].memory
        BY <1>4, <1>9, <2>2
      <3> QED  BY <3>1 DEF QueuesOK
    <2>3. CASE j = i /\ h # i
      BY <1>2, <1>4, <1>5, <1>8, <1>9, <2>3
    <2>4. CASE j # i /\ h = i
      <3>1. /\ k \in DOMAIN m_queue[j].chain /\ m_queue[j].chain[k].memory = a
        BY <1>4, <1>5, <1>8, <1>9, <2>4
      <3> QED  BY <1>2, <3>1
    <2> QED  BY <2>1, <2>2, <2>3, <2>4
  <1>10. \A j \in Indexes : \A k \in DOMAIN m_queue'[j].chain :
           m_queue'[j].chain[k].room < m_queue'[j].chain[k].size => k = 1
    BY <1>4, <1>5 DEF QueuesOK
  <1>11. \A p, r \in small' : p.memory = r.memory => p = r
    BY <1>2, <1>6, <1>8 DEF QueuesOK
  <1>12. ASSUME NEW p \in small', NEW j \in Indexes, NEW k \in DOMAIN m_queue'[j].chain,
                m_queue'[j].chain[k].memory = p.memory
         PROVE  m_queue'[j].chain[k].used /\ (p.room < p.size => k = 1)
    <2>1. CASE j = i
      BY <1>5, <1>8, <2>1
    <2>2. CASE j # i
      <3>1. p # o
        BY <1>2, <1>4, <1>8, <1>12, <2>2
      <3> QED  BY <1>4, <1>6, <1>12, <2>2, <3>1 DEF QueuesOK
    <2> QED  BY <2>1, <2>2
  <1> QED  BY <1>7, <1>9, <1>10, <1>11, <1>12 DEF QueuesOK

(* A node of a chain whose mark changes: everything else stays in its place. *)
LEMMA MarkNode ==
  ASSUME QueueTypes, NEW i \in Indexes, NEW k \in DOMAIN m_queue[i].chain, NEW num \in Int,
         NEW mark \in BOOLEAN,
         m_queue' = [m_queue EXCEPT ![i] =
           [num |-> num, chain |-> [m_queue[i].chain EXCEPT ![k] =
              [m_queue[i].chain[k] EXCEPT !.used = mark]]]]
  PROVE  /\ m_queue' \in [Indexes -> [num : Int, chain : Seq(Nodes)]]
         /\ \A j \in Indexes : DOMAIN m_queue'[j].chain = DOMAIN m_queue[j].chain
         /\ \A j \in Indexes : \A l \in DOMAIN m_queue[j].chain :
              /\ m_queue'[j].chain[l].memory = m_queue[j].chain[l].memory
              /\ m_queue'[j].chain[l].size = m_queue[j].chain[l].size
              /\ m_queue'[j].chain[l].room = m_queue[j].chain[l].room
              /\ j # i \/ l # k => m_queue'[j].chain[l].used = m_queue[j].chain[l].used
         /\ m_queue'[i].chain[k].used = mark
  <1> DEFINE c == m_queue[i].chain
             n == [c[k] EXCEPT !.used = mark]
             d == [c EXCEPT ![k] = n]
             q == [num |-> num, chain |-> d]
  <1>1. c \in Seq(Nodes) /\ k \in 1..Len(c) /\ k \in DOMAIN c /\ c[k] \in Nodes
    BY ChainTypes
  <1>2. /\ n \in Nodes /\ n.memory = c[k].memory /\ n.size = c[k].size /\ n.room = c[k].room
        /\ n.used = mark
    <2>1. c[k] \in [memory : Memory, used : BOOLEAN, size : Nat, room : Nat]
      BY <1>1 DEF Nodes
    <2> QED  BY <2>1 DEF Nodes
  <1>3. /\ d \in Seq(Nodes) /\ DOMAIN d = DOMAIN c /\ d[k] = n
        /\ \A l \in DOMAIN c : l # k => d[l] = c[l]
    <2> HIDE DEF n, c
    <2>1. d \in Seq(Nodes)
      BY <1>1, <1>2, ExceptSeq
    <2> QED  BY <1>1, <2>1
  <1>4. q \in [num : Int, chain : Seq(Nodes)] /\ q.chain = d
    <2> HIDE DEF d
    <2> QED  BY <1>3
  <1>5. m_queue' = [m_queue EXCEPT ![i] = q]
    OBVIOUS
  <1> HIDE DEF q
  <1>6. /\ m_queue' \in [Indexes -> [num : Int, chain : Seq(Nodes)]]
        /\ m_queue'[i] = q
        /\ \A j \in Indexes : j # i => m_queue'[j] = m_queue[j]
    BY <1>4, <1>5, QueuePut
  <1>7. m_queue'[i].chain = d /\ m_queue[i].chain = c
    BY <1>4, <1>6
  <1> HIDE DEF d, n, c
  <1> QED  BY <1>2, <1>3, <1>6, <1>7

(* Chains whose nodes keep their memory and their sizes are as they were.    *)
LEMMA ChainsKept ==
  ASSUME QueuesOK,
         \A j \in Indexes : DOMAIN m_queue'[j].chain = DOMAIN m_queue[j].chain,
         \A j \in Indexes : \A l \in DOMAIN m_queue[j].chain :
              /\ m_queue'[j].chain[l].memory = m_queue[j].chain[l].memory
              /\ m_queue'[j].chain[l].size = m_queue[j].chain[l].size
              /\ m_queue'[j].chain[l].room = m_queue[j].chain[l].room
  PROVE  /\ \A j, h \in Indexes :
              \A l \in DOMAIN m_queue'[j].chain, e \in DOMAIN m_queue'[h].chain :
                m_queue'[j].chain[l].memory = m_queue'[h].chain[e].memory => j = h /\ l = e
         /\ \A j \in Indexes : \A l \in DOMAIN m_queue'[j].chain :
              m_queue'[j].chain[l].room < m_queue'[j].chain[l].size => l = 1
  <1>1. ASSUME NEW j \in Indexes, NEW h \in Indexes,
               NEW l \in DOMAIN m_queue'[j].chain, NEW e \in DOMAIN m_queue'[h].chain,
               m_queue'[j].chain[l].memory = m_queue'[h].chain[e].memory
        PROVE  j = h /\ l = e
    <2>1. /\ l \in DOMAIN m_queue[j].chain /\ e \in DOMAIN m_queue[h].chain
          /\ m_queue[j].chain[l].memory = m_queue[h].chain[e].memory
      BY <1>1
    <2> QED  BY <2>1 DEF QueuesOK
  <1>2. ASSUME NEW j \in Indexes, NEW l \in DOMAIN m_queue'[j].chain,
               m_queue'[j].chain[l].room < m_queue'[j].chain[l].size
        PROVE  l = 1
    <2>1. /\ l \in DOMAIN m_queue[j].chain
          /\ m_queue[j].chain[l].room < m_queue[j].chain[l].size
      BY <1>2
    <2> QED  BY <2>1 DEF QueuesOK
  <1> QED  BY <1>1, <1>2

(* A node that is used again: it was marked free, so no client has it.       *)
LEMMA ReuseNodeSafe ==
  ASSUME QueueTypes, QueuesOK, NEW i \in Indexes, NEW size \in Nat,
         ReuseNode(i, size), UNCHANGED <<sizes, overrun>>
  PROVE  QueueTypes' /\ QueuesOK'
  <1> DEFINE k == First(Fitting(i, size))
             c == m_queue[i].chain
             n == c[k]
             o == [memory |-> n.memory, size |-> size, room |-> n.room]
  <1>1. DOMAIN c \subseteq Nat
    BY ChainTypes
  <1>2. k \in DOMAIN c /\ ~c[k].used /\ c[k].size >= size
    <2>1. Fitting(i, size) # {} /\ Fitting(i, size) \subseteq Nat
      BY <1>1 DEF ReuseNode, Fitting
    <2>2. k \in Fitting(i, size)
      BY <2>1, FirstFits
    <2> QED  BY <2>2 DEF Fitting
  <1>3. /\ m_queue' = [m_queue EXCEPT ![i].chain[k].used = TRUE]
        /\ small' = small \cup {o}
    BY DEF ReuseNode, Grant
  <1> HIDE DEF k
  <1>4. /\ m_queue[i].num \in Int
        /\ n.memory \in Memory /\ n.size \in Nat /\ n.room \in Nat
    BY <1>2, ChainTypes
  <1>5. m_queue' = [m_queue EXCEPT ![i] =
          [num |-> m_queue[i].num, chain |-> [m_queue[i].chain EXCEPT ![k] =
             [m_queue[i].chain[k] EXCEPT !.used = TRUE]]]]
    <2>1. m_queue' = [m_queue EXCEPT ![i] = [m_queue[i] EXCEPT !.chain =
             [m_queue[i].chain EXCEPT ![k] = [m_queue[i].chain[k] EXCEPT !.used = TRUE]]]]
      BY <1>3
    <2> DEFINE d == [m_queue[i].chain EXCEPT ![k] = [m_queue[i].chain[k] EXCEPT !.used = TRUE]]
    <2>2. m_queue[i] \in [num : Int, chain : Seq(Nodes)]
      BY ChainTypes
    <2> HIDE DEF d
    <2>3. [m_queue[i] EXCEPT !.chain = d] = [num |-> m_queue[i].num, chain |-> d]
      BY <2>2
    <2> QED  BY <2>1, <2>3 DEF d
  <1>6. /\ m_queue' \in [Indexes -> [num : Int, chain : Seq(Nodes)]]
        /\ \A j \in Indexes : DOMAIN m_queue'[j].chain = DOMAIN m_queue[j].chain
        /\ \A j \in Indexes : \A l \in DOMAIN m_queue[j].chain :
             /\ m_queue'[j].chain[l].memory = m_queue[j].chain[l].memory
             /\ m_queue'[j].chain[l].size = m_queue[j].chain[l].size
             /\ m_queue'[j].chain[l].room = m_queue[j].chain[l].room
             /\ j # i \/ l # k => m_queue'[j].chain[l].used = m_queue[j].chain[l].used
        /\ m_queue'[i].chain[k].used = TRUE
    BY <1>2, <1>4, <1>5, MarkNode
  <1>7. /\ o \in [memory : Memory, size : Nat, room : Nat]
        /\ o.memory = n.memory /\ o.size = size /\ o.room = n.room
    BY <1>4
  <1>8. QueueTypes'
    BY <1>3, <1>6, <1>7 DEF QueueTypes
  <1>9. \A p \in small : p.memory # n.memory
    BY <1>2 DEF QueuesOK
  <1>10. n.room < size => k = 1
    BY <1>2, <1>4 DEF QueuesOK
  <1> HIDE DEF o
  <1>11. \A j, h \in Indexes : \A l \in DOMAIN m_queue'[j].chain, e \in DOMAIN m_queue'[h].chain :
           m_queue'[j].chain[l].memory = m_queue'[h].chain[e].memory => j = h /\ l = e
    BY <1>6, ChainsKept
  <1>12. \A j \in Indexes : \A l \in DOMAIN m_queue'[j].chain :
           m_queue'[j].chain[l].room < m_queue'[j].chain[l].size => l = 1
    BY <1>6, ChainsKept
  <1>13. \A p, r \in small' : p.memory = r.memory => p = r
    BY <1>3, <1>7, <1>9 DEF QueuesOK
  <1>14. ASSUME NEW p \in small', NEW j \in Indexes, NEW l \in DOMAIN m_queue'[j].chain,
                m_queue'[j].chain[l].memory = p.memory
         PROVE  m_queue'[j].chain[l].used /\ (p.room < p.size => l = 1)
    <2>1. l \in DOMAIN m_queue[j].chain /\ m_queue[j].chain[l].memory = p.memory
      BY <1>6, <1>14
    <2>2. CASE p = o
      <3>1. j = i /\ l = k
        BY <1>2, <1>7, <2>1, <2>2 DEF QueuesOK
      <3> QED  BY <1>6, <1>7, <1>10, <2>2, <3>1
    <2>3. CASE p \in small
      <3>1. m_queue[j].chain[l].used /\ (p.room < p.size => l = 1)
        BY <2>1, <2>3 DEF QueuesOK
      <3> QED  BY <1>2, <1>6, <2>1, <3>1
    <2> QED  BY <1>3, <2>2, <2>3
  <1> QED  BY <1>8, <1>11, <1>12, <1>13, <1>14 DEF QueuesOK

(* A node put at the end of a chain, in a memory nobody knows of.            *)
LEMMA AppendNodeSafe ==
  ASSUME QueueTypes, QueuesOK, NEW i \in Indexes, NEW size \in Nat,
         AppendNode(i, size), UNCHANGED <<sizes, overrun>>
  PROVE  QueueTypes' /\ QueuesOK'
  <1> DEFINE c == m_queue[i].chain
             e == Len(c) + 1
  <1>1. PICK a \in Fresh :
          /\ m_queue' = [m_queue EXCEPT ![i].chain =
               Append(@, [memory |-> a, used |-> TRUE, size |-> size, room |-> size])]
          /\ small' = small \cup {[memory |-> a, size |-> size, room |-> size]}
    BY DEF AppendNode, Grant
  <1> DEFINE n == [memory |-> a, used |-> TRUE, size |-> size, room |-> size]
             o == [memory |-> a, size |-> size, room |-> size]
             d == Append(c, n)
             q == [num |-> m_queue[i].num, chain |-> d]
  <1>2. /\ a \in Memory
        /\ \A p \in small : p.memory # a
        /\ \A j \in Indexes : \A k \in DOMAIN m_queue[j].chain : m_queue[j].chain[k].memory # a
    BY DEF Fresh, Chained
  <1>3. /\ n \in Nodes /\ n.memory = a /\ n.used /\ n.size = size /\ n.room = size
        /\ o \in [memory : Memory, size : Nat, room : Nat] /\ o.memory = a
        /\ o.size = size /\ o.room = size
    BY <1>2 DEF Nodes
  <1>4. c \in Seq(Nodes) /\ m_queue[i].num \in Int /\ Len(c) \in Nat /\ DOMAIN c = 1..Len(c)
    BY ChainTypes
  <1> HIDE DEF n, o
  <1>5. /\ d \in Seq(Nodes) /\ DOMAIN d = DOMAIN c \cup {e} /\ d[e] = n /\ e \notin DOMAIN c
        /\ \A k \in DOMAIN c : d[k] = c[k]
    <2> HIDE DEF c
    <2>1. /\ d \in Seq(Nodes) /\ Len(d) = Len(c) + 1 /\ d[Len(c) + 1] = n
          /\ \A k \in 1..Len(c) : d[k] = c[k]
      BY <1>3, <1>4, AppendProperties
    <2>2. DOMAIN d = 1..Len(c) + 1
      BY <2>1, LenProperties
    <2> QED  BY <1>4, <2>1, <2>2
  <1>6. q \in [num : Int, chain : Seq(Nodes)] /\ q.chain = d
    <2> HIDE DEF d, c
    <2> QED  BY <1>4, <1>5
  <1>7. m_queue' = [m_queue EXCEPT ![i] = q]
    <2>1. m_queue[i] \in [num : Int, chain : Seq(Nodes)]
      BY ChainTypes
    <2>2. m_queue' = [m_queue EXCEPT ![i] = [m_queue[i] EXCEPT !.chain = d]]
      BY <1>1 DEF n
    <2>3. [m_queue[i] EXCEPT !.chain = d] = q
      <3> HIDE DEF d
      <3> QED  BY <2>1
    <2> QED  BY <2>2, <2>3
  <1>8. /\ m_queue' \in [Indexes -> [num : Int, chain : Seq(Nodes)]]
        /\ m_queue'[i].chain = d
        /\ \A j \in Indexes : j # i => m_queue'[j] = m_queue[j]
    <2> HIDE DEF q, d
    <2> QED  BY <1>6, <1>7, QueuePut
  <1>9. small' = small \cup {o}
    BY <1>1 DEF o
  <1>10. QueueTypes'
    BY <1>3, <1>8, <1>9 DEF QueueTypes
  <1> HIDE DEF q, d, e
  <1>11. \A j \in Indexes : \A k \in DOMAIN m_queue'[j].chain :
           \/ /\ j = i /\ k = e
              /\ m_queue'[j].chain[k] = n
           \/ /\ k \in DOMAIN m_queue[j].chain
              /\ m_queue'[j].chain[k] = m_queue[j].chain[k]
    BY <1>5, <1>8
  <1> HIDE DEF c
  <1>12. ASSUME NEW j \in Indexes, NEW h \in Indexes,
                NEW k \in DOMAIN m_queue'[j].chain, NEW l \in DOMAIN m_queue'[h].chain,
                m_queue'[j].chain[k].memory = m_queue'[h].chain[l].memory
         PROVE  j = h /\ k = l
    <2>1. CASE /\ k \in DOMAIN m_queue[j].chain /\ m_queue'[j].chain[k] = m_queue[j].chain[k]
               /\ l \in DOMAIN m_queue[h].chain /\ m_queue'[h].chain[l] = m_queue[h].chain[l]
      BY <1>12, <2>1 DEF QueuesOK
    <2> QED  BY <1>2, <1>3, <1>11, <1>12, <2>1
  <1>13. ASSUME NEW j \in Indexes, NEW k \in DOMAIN m_queue'[j].chain,
                m_queue'[j].chain[k].room < m_queue'[j].chain[k].size
         PROVE  k = 1
    <2>1. m_queue'[j].chain[k] # n
      BY <1>3, <1>13
    <2>2. /\ k \in DOMAIN m_queue[j].chain
          /\ m_queue[j].chain[k].room < m_queue[j].chain[k].size
      BY <1>11, <1>13, <2>1
    <2> QED  BY <2>2 DEF QueuesOK
  <1>14. \A p, r \in small' : p.memory = r.memory => p = r
    BY <1>2, <1>3, <1>9 DEF QueuesOK
  <1>15. ASSUME NEW p \in small', NEW j \in Indexes, NEW k \in DOMAIN m_queue'[j].chain,
                m_queue'[j].chain[k].memory = p.memory
         PROVE  m_queue'[j].chain[k].used /\ (p.room < p.size => k = 1)
    <2>1. CASE p = o
      <3>1. m_queue'[j].chain[k] = n
        BY <1>2, <1>3, <1>11, <1>15, <2>1
      <3> QED  BY <1>3, <2>1, <3>1
    <2>2. CASE p \in small
      <3>1. /\ k \in DOMAIN m_queue[j].chain
            /\ m_queue'[j].chain[k] = m_queue[j].chain[k]
        BY <1>2, <1>3, <1>11, <1>15, <2>2
      <3> QED  BY <1>15, <2>2, <3>1 DEF QueuesOK
    <2> QED  BY <1>9, <2>1, <2>2
  <1> QED  BY <1>10, <1>12, <1>13, <1>14, <1>15 DEF QueuesOK

(* A node given back: its client is gone, so its mark may go.                *)
LEMMA RecycleSmallSafe ==
  ASSUME QueueTypes, QueuesOK, NEW o \in small, RecycleSmall(o), UNCHANGED sizes
  PROVE  QueueTypes' /\ QueuesOK'
  <1> DEFINE i == GetQueueIndex(o.size)
  <1>1. small' = small \ {o} /\ UNCHANGED overrun
    BY DEF RecycleSmall
  <1>2. CASE UNCHANGED m_queue
    <2>1. QueueTypes'
      BY <1>1, <1>2 DEF QueueTypes
    <2>2. QueuesOK'
      BY <1>1, <1>2 DEF QueuesOK
    <2> QED  BY <2>1, <2>2
  <1>3. ASSUME NEW k \in DOMAIN m_queue[i].chain, i \in Indexes,
               m_queue[i].chain[k].memory = o.memory,
               m_queue' = [m_queue EXCEPT ![i].num = @ - 1, ![i].chain[k].used = FALSE]
        PROVE  QueueTypes' /\ QueuesOK'
    <2> HIDE DEF i
    <2>1. i \in Indexes
      BY <1>3
    <2>2. m_queue[i] \in [num : Int, chain : Seq(Nodes)] /\ m_queue[i].num - 1 \in Int
      BY <2>1, ChainTypes
    <2>3. m_queue' = [m_queue EXCEPT ![i] =
            [num |-> m_queue[i].num - 1, chain |-> [m_queue[i].chain EXCEPT ![k] =
               [m_queue[i].chain[k] EXCEPT !.used = FALSE]]]]
      <3> DEFINE d == [m_queue[i].chain EXCEPT ![k] =
                        [m_queue[i].chain[k] EXCEPT !.used = FALSE]]
                 m == m_queue[i].num - 1
      <3>1. /\ m_queue \in [Indexes -> [num : Int, chain : Seq(Nodes)]]
            /\ m_queue' = [m_queue EXCEPT ![i].num = m_queue[i].num - 1,
                                        ![i].chain[k].used = FALSE]
        BY <1>3 DEF QueueTypes
      <3>2. m_queue' = [m_queue EXCEPT ![i] = [[m_queue[i] EXCEPT !.num = m] EXCEPT !.chain = d]]
        BY <2>1, <2>2, <3>1
      <3>3. [[m_queue[i] EXCEPT !.num = m] EXCEPT !.chain = d] = [num |-> m, chain |-> d]
        <4> HIDE DEF d, m
        <4>1. m \in Int
          BY <2>2 DEF m
        <4>2. [m_queue[i] EXCEPT !.num = m] \in [num : Int, chain : Seq(Nodes)]
          BY <2>2, <4>1
        <4>3. [m_queue[i] EXCEPT !.num = m].num = m
          BY <2>2
        <4> DEFINE r == [m_queue[i] EXCEPT !.num = m]
        <4> HIDE DEF r
        <4>4. r \in [num : Int, chain : Seq(Nodes)] /\ r.num = m
          BY <4>2, <4>3 DEF r
        <4>5. [r EXCEPT !.chain = d] = [num |-> m, chain |-> d]
          BY <4>4
        <4> QED  BY <4>5 DEF r
      <3> QED  BY <3>2, <3>3
    <2>4. /\ m_queue' \in [Indexes -> [num : Int, chain : Seq(Nodes)]]
          /\ \A j \in Indexes : DOMAIN m_queue'[j].chain = DOMAIN m_queue[j].chain
          /\ \A j \in Indexes : \A l \in DOMAIN m_queue[j].chain :
               /\ m_queue'[j].chain[l].memory = m_queue[j].chain[l].memory
               /\ m_queue'[j].chain[l].size = m_queue[j].chain[l].size
               /\ m_queue'[j].chain[l].room = m_queue[j].chain[l].room
               /\ j # i \/ l # k => m_queue'[j].chain[l].used = m_queue[j].chain[l].used
      BY <2>1, <2>2, <2>3, MarkNode
    <2>5. QueueTypes'
      BY <1>1, <2>4 DEF QueueTypes
    <2>6. /\ \A j, h \in Indexes :
               \A l \in DOMAIN m_queue'[j].chain, e \in DOMAIN m_queue'[h].chain :
                 m_queue'[j].chain[l].memory = m_queue'[h].chain[e].memory => j = h /\ l = e
          /\ \A j \in Indexes : \A l \in DOMAIN m_queue'[j].chain :
               m_queue'[j].chain[l].room < m_queue'[j].chain[l].size => l = 1
      BY <2>4, ChainsKept
    <2>7. \A p, r \in small' : p.memory = r.memory => p = r
      BY <1>1 DEF QueuesOK
    <2>8. ASSUME NEW p \in small', NEW j \in Indexes, NEW l \in DOMAIN m_queue'[j].chain,
                 m_queue'[j].chain[l].memory = p.memory
          PROVE  m_queue'[j].chain[l].used /\ (p.room < p.size => l = 1)
      <3>1. /\ p \in small /\ p # o /\ l \in DOMAIN m_queue[j].chain
            /\ m_queue[j].chain[l].memory = p.memory
        BY <1>1, <2>4, <2>8
      <3>2. p.memory # o.memory
        BY <3>1 DEF QueuesOK
      <3>3. j # i \/ l # k
        BY <1>3, <3>1, <3>2
      <3>4. m_queue[j].chain[l].used /\ (p.room < p.size => l = 1)
        BY <3>1 DEF QueuesOK
      <3> QED  BY <2>4, <3>1, <3>3, <3>4
    <2> QED  BY <2>5, <2>6, <2>7, <2>8 DEF QueuesOK
  <1>4. ASSUME NEW k \in DOMAIN m_queue[i].chain, i \notin Indexes,
               m_queue' = [m_queue EXCEPT ![i].num = @ - 1, ![i].chain[k].used = FALSE]
        PROVE  UNCHANGED m_queue
    <2> HIDE DEF i
    <2>1. DOMAIN m_queue = Indexes /\ m_queue = [j \in Indexes |-> m_queue[j]]
      BY DEF QueueTypes
    <2>2. m_queue' = [j \in Indexes |-> m_queue[j]]
      BY <1>4, <2>1
    <2> QED  BY <2>1, <2>2
  <1>5. \/ UNCHANGED m_queue
        \/ \E k \in DOMAIN m_queue[i].chain :
             /\ m_queue[i].chain[k].memory = o.memory
             /\ m_queue' = [m_queue EXCEPT ![i].num = @ - 1, ![i].chain[k].used = FALSE]
    BY DEF RecycleSmall
  <1> HIDE DEF i
  <1> QED  BY <1>2, <1>3, <1>4, <1>5
-----------------------------------------------------------------------------
(* The fields of a page.                                                     *)
LEMMA PageTypes ==
  ASSUME NEW P \in Seq(Pages), NEW c \in 1..Len(P)
  PROVE  /\ P[c] \in Pages
         /\ P[c].last \in Nat /\ P[c].quote \in Int /\ P[c].failed \in Nat
         /\ MaxFailedTimes \in Nat
  <1>1. P[c] \in Pages
    BY ElementOfSeq
  <1> QED  BY <1>1, AllocatorAssumption DEF AllocatorAssumption, Pages

(* What Credit is between.                                                   *)
LEMMA CreditFacts ==
  ASSUME NEW P \in Seq(Pages), NEW c \in 1..Len(P)
  PROVE  /\ Credit(P, c) \in Nat
         /\ Credit(P, c) <= (MaxFailedTimes + 1) * Len(P)
         /\ (MaxFailedTimes + 1) * (c - 1) \in Nat
         /\ (MaxFailedTimes + 1) * c = (MaxFailedTimes + 1) * (c - 1) + (MaxFailedTimes + 1)
  <1> DEFINE K == MaxFailedTimes + 1
             x == K * (c - 1)
             m == IF P[c].failed <= MaxFailedTimes THEN P[c].failed ELSE K
  <1>1. MaxFailedTimes \in Nat /\ K \in Nat /\ c \in Nat /\ c - 1 \in Nat /\ Len(P) \in Nat
    BY AllocatorAssumption, LenProperties DEF AllocatorAssumption
  <1>2. P[c].failed \in Nat
    BY PageTypes
  <1>3. m \in Nat /\ m <= K
    BY <1>1, <1>2
  <1>4. Credit(P, c) = x + m
    BY DEF Credit
  <1> HIDE DEF K, m
  <1>5. x \in Nat /\ K * c = x + K
    BY <1>1
  <1>6. K * Len(P) \in Nat /\ K * c <= K * Len(P)
    <2>1. c <= Len(P) /\ Len(P) - c \in Nat
      BY <1>1
    <2> DEFINE d == Len(P) - c
    <2>2. d \in Nat /\ Len(P) = c + d
      BY <1>1, <2>1
    <2> HIDE DEF d
    <2>3. K * (c + d) = K * c + K * d /\ K * d \in Nat /\ K * c \in Nat
      BY <1>1, <2>2
    <2> QED  BY <2>2, <2>3
  <1> HIDE DEF x
  <1>7. x + m \in Nat /\ x + m <= K * Len(P)
    BY <1>3, <1>5, <1>6, <1>1
  <1> QED  BY <1>4, <1>5, <1>7 DEF K, x

(* A page more, empty and at the end, changes nothing of what lies in the
   others.                                                                   *)
LEMMA FitsNewPage ==
  ASSUME NEW P \in Seq(Pages), Fits(P)
  PROVE  /\ Append(P, NewPage) \in Seq(Pages)
         /\ Len(Append(P, NewPage)) = Len(P) + 1
         /\ Append(P, NewPage)[Len(P) + 1] = NewPage
         /\ \A p \in 1..Len(P) : Append(P, NewPage)[p] = P[p]
         /\ Fits(Append(P, NewPage))
  <1> DEFINE Q == Append(P, NewPage)
             n == Len(P) + 1
  <1>1. NewPage \in Pages /\ NewPage.last = 0 /\ NewPage.quote = 0
    BY DEF NewPage, Pages
  <1>2. /\ Q \in Seq(Pages) /\ Len(Q) = n /\ Q[n] = NewPage
        /\ \A p \in 1..Len(P) : Q[p] = P[p]
    BY <1>1, AppendProperties
  <1>3. Len(P) \in Nat /\ DOMAIN P = 1..Len(P) /\ DOMAIN Q = 1..n
    BY <1>2, LenProperties
  <1> HIDE DEF Q
  <1>4. DOMAIN Q = DOMAIN P \cup {n} /\ n \notin DOMAIN P
    BY <1>3
  <1>5. \A p \in DOMAIN P : Q[p] = P[p]
    BY <1>2, <1>3
  <1> HIDE DEF n
  <1>6. OnPage(n) = {} /\ HeadersOn(n) = {}
    BY <1>4 DEF Fits, OnPage, HeadersOn
  <1>7. Q[n].last <= PageSize /\ Q[n].quote = Cardinality(OnPage(n)) + Cardinality(HeadersOn(n))
    BY <1>1, <1>2, <1>6, FS_EmptySet, ResetInPage
  <1>8. Fits(Q)
    BY <1>4, <1>5, <1>7 DEF Fits
  <1> QED  BY <1>2, <1>8 DEF Q, n

(* The pages a request finds: there is one, and it is as the others are.     *)
LEMMA Loaded ==
  ASSUME PoolTypes, Fits(page), Layout, Patience
  PROVE  /\ LoadedPages \in Seq(Pages)
         /\ LoadedCurrent \in 1..Len(LoadedPages)
         /\ Fits(LoadedPages)
         /\ misses <= Credit(LoadedPages, LoadedCurrent)
  <1>2. CASE page # <<>>
    <2>1. LoadedPages = page /\ LoadedCurrent = current
      BY <1>2 DEF LoadedPages, LoadedCurrent
    <2> QED  BY <1>2, <2>1 DEF PoolTypes, Patience
  <1>3. CASE page = <<>>
    <2>1. LoadedPages = <<NewPage>> /\ LoadedCurrent = 1
      BY <1>3 DEF LoadedPages, LoadedCurrent
    <2>2. <<NewPage>> = Append(page, NewPage) /\ Len(page) = 0
      BY <1>3
    <2>3. page \in Seq(Pages)
      BY DEF PoolTypes
    <2>4. /\ LoadedPages \in Seq(Pages) /\ Len(LoadedPages) = 1
          /\ Fits(LoadedPages)
      BY <2>1, <2>2, <2>3, FitsNewPage
    <2>5. LoadedCurrent \in 1..Len(LoadedPages)
      BY <2>1, <2>4
    <2>6. misses <= 0 /\ misses \in Nat /\ Credit(LoadedPages, LoadedCurrent) \in Nat
      BY <1>3, <2>4, <2>5, CreditFacts DEF Patience, PoolTypes
    <2> QED  BY <2>4, <2>5, <2>6
  <1> QED  BY <1>2, <1>3

(* The pages a request below a page is tried on: the current one has room in
   its count for one more refusal (allocate.c:113).                          *)
LEMMA Moved ==
  ASSUME PoolTypes, Fits(page), Layout, Patience
  PROVE  /\ MovedPages \in Seq(Pages)
         /\ MovedCurrent \in 1..Len(MovedPages)
         /\ Fits(MovedPages)
         /\ misses <= Credit(MovedPages, MovedCurrent)
         /\ \/ /\ MovedPages[MovedCurrent].failed <= MaxFailedTimes
            \/ misses <= (MaxFailedTimes + 1) * (MovedCurrent - 1)
  <1> DEFINE P == LoadedPages
             c == LoadedCurrent
             K == MaxFailedTimes + 1
  <1>1. P \in Seq(Pages) /\ c \in 1..Len(P) /\ Fits(P) /\ misses <= Credit(P, c)
    BY Loaded
  <1>2. CASE ~GivesUp
    <2>1. MovedPages = P /\ MovedCurrent = c
      BY <1>2 DEF MovedPages, MovedCurrent
    <2>2. P[c].failed <= MaxFailedTimes
      <3>1. P[c].failed \in Nat /\ MaxFailedTimes \in Nat
        BY <1>1, PageTypes
      <3> QED  BY <1>2, <3>1 DEF GivesUp
    <2> QED  BY <1>1, <2>1, <2>2
  <1>3. CASE GivesUp
    <2>1. MovedCurrent = c + 1
      BY <1>3 DEF MovedCurrent
    <2>2. /\ MovedPages \in Seq(Pages) /\ Fits(MovedPages)
          /\ c + 1 \in 1..Len(MovedPages)
      <3>1. CASE c = Len(P)
        <4>1. MovedPages = Append(P, NewPage)
          BY <1>3, <3>1 DEF MovedPages
        <4> HIDE DEF P, c
        <4> QED  BY <1>1, <3>1, <4>1, FitsNewPage
      <3>2. CASE c # Len(P)
        <4>1. MovedPages = P
          BY <3>2 DEF MovedPages
        <4>2. Len(P) \in Nat
          BY <1>1, LenProperties
        <4> HIDE DEF P, c
        <4> QED  BY <1>1, <3>2, <4>1, <4>2
      <3> QED  BY <3>1, <3>2
    <2>3. misses <= K * c
      <3>1. Credit(P, c) = K * (c - 1) + K
        <4>1. P[c].failed \in Nat /\ MaxFailedTimes \in Nat
          BY <1>1, PageTypes
        <4> QED  BY <1>3, <4>1 DEF Credit, GivesUp
      <3>2. K * c = K * (c - 1) + K
        BY <1>1, CreditFacts
      <3> QED  BY <1>1, <3>1, <3>2
    <2> DEFINE e == MovedCurrent
    <2>8. e = c + 1 /\ e - 1 = c /\ e \in 1..Len(MovedPages)
      BY <1>1, <2>1, <2>2
    <2>9. K * (e - 1) \in Nat /\ Credit(MovedPages, e) \in Nat
      BY <2>2, <2>8, CreditFacts
    <2>4. /\ Credit(MovedPages, c + 1) \in Nat
          /\ Credit(MovedPages, c + 1) >= K * c
      <3> DEFINE f == MovedPages[e].failed
                 y == K * (e - 1)
      <3>1. f \in Nat /\ MaxFailedTimes \in Nat
        BY <2>2, <2>8, PageTypes
      <3>2. Credit(MovedPages, e) = y + (IF f <= MaxFailedTimes THEN f ELSE K)
        BY DEF Credit
      <3>4. y \in Nat
        BY <2>9
      <3>5. y = K * c
        BY <2>8
      <3> HIDE DEF y, f
      <3>6. /\ y + (IF f <= MaxFailedTimes THEN f ELSE K) \in Nat
            /\ y + (IF f <= MaxFailedTimes THEN f ELSE K) >= y
        BY <3>1, <3>4
      <3>7. Credit(MovedPages, e) \in Nat /\ Credit(MovedPages, e) >= y
        BY <3>2, <3>6
      <3> QED  BY <2>8, <3>5, <3>7
    <2>5. K * c \in Nat /\ misses \in Nat
      BY <2>8, <2>9 DEF PoolTypes
    <2>6. misses <= Credit(MovedPages, c + 1)
      <3> DEFINE y == K * c
                 z == Credit(MovedPages, c + 1)
      <3>1. misses <= y /\ y <= z /\ misses \in Nat /\ y \in Nat /\ z \in Nat
        BY <2>3, <2>4, <2>5
      <3> HIDE DEF y, z
      <3>2. misses <= z
        BY <3>1
      <3> QED  BY <3>2 DEF z
    <2>7. misses <= K * (MovedCurrent - 1)
      <3>1. MovedCurrent - 1 = c
        BY <1>1, <2>1
      <3> QED  BY <2>3, <3>1
    <2> QED  BY <2>1, <2>2, <2>6, <2>7
  <1> QED  BY <1>2, <1>3
-----------------------------------------------------------------------------
(* A call that puts another page in the place of page c.                     *)
LEMMA PutPage ==
  ASSUME NEW P \in Seq(Pages), NEW c \in 1..Len(P), NEW n \in Pages
  PROVE  LET Q == [P EXCEPT ![c] = n] IN
         /\ Q \in Seq(Pages) /\ Len(Q) = Len(P) /\ Q # <<>>
         /\ DOMAIN P = 1..Len(P) /\ DOMAIN Q = DOMAIN P
         /\ Q[c] = n
         /\ \A p \in DOMAIN P : p # c => Q[p] = P[p]
  <1> DEFINE Q == [P EXCEPT ![c] = n]
  <1>1. Q \in Seq(Pages) /\ Len(Q) = Len(P)
    BY ExceptSeq
  <1>2. Len(P) \in Nat /\ DOMAIN P = 1..Len(P) /\ P \in [1..Len(P) -> Pages]
    BY LenProperties
  <1>3. DOMAIN Q = DOMAIN P /\ Q[c] = n /\ \A p \in DOMAIN P : p # c => Q[p] = P[p]
    BY <1>2
  <1>4. Q # <<>>
    BY <1>2, <1>3
  <1> QED  BY <1>1, <1>2, <1>3, <1>4

(* The counts of what lies in a page are of finite sets.                     *)
LEMMA FiniteOnPage ==
  ASSUME PoolTypes, NEW p
  PROVE  /\ IsFiniteSet(OnPage(p)) /\ Cardinality(OnPage(p)) \in Nat
         /\ IsFiniteSet(HeadersOn(p)) /\ Cardinality(HeadersOn(p)) \in Nat
  <1>1. IsFiniteSet(Taken)
    BY FS_Union DEF PoolTypes, Taken
  <1>2. IsFiniteSet(OnPage(p))
    BY <1>1, FS_Subset DEF OnPage
  <1>3. IsFiniteSet(DOMAIN block)
    <2>1. DOMAIN block = 1..Len(block) /\ Len(block) \in Nat
      BY LenProperties DEF PoolTypes
    <2> QED  BY <2>1, FS_Interval
  <1>4. IsFiniteSet(HeadersOn(p))
    BY <1>3, FS_Subset DEF HeadersOn
  <1> QED  BY <1>2, <1>4, FS_CardinalityType

(* A request that is refused: the page has counted one refusal more.         *)
LEMMA RefuseSafe ==
  ASSUME PoolTypes, Layout, NEW P \in Seq(Pages), NEW c \in 1..Len(P), Fits(P),
         page' = [P EXCEPT ![c] = Refused(P[c])], current' = c,
         UNCHANGED <<block, blocks, chunks, forgotten>>
  PROVE  /\ page' \in Seq(Pages) /\ page' # <<>> /\ current' \in 1..Len(page')
         /\ Fits(page)' /\ Layout'
         /\ Credit(page', c) >= Credit(P, c)
         /\ P[c].failed <= MaxFailedTimes => Credit(page', c) >= Credit(P, c) + 1
         /\ Credit(page', c) >= (MaxFailedTimes + 1) * (c - 1) + 1
  <1> DEFINE n == Refused(P[c])
  <1>1. /\ P[c].last \in Nat /\ P[c].quote \in Int /\ P[c].failed \in Nat
        /\ MaxFailedTimes \in Nat
    BY PageTypes
  <1>2. /\ n \in Pages /\ n.last = P[c].last /\ n.quote = P[c].quote
        /\ n.failed = P[c].failed + 1
    BY <1>1 DEF Refused, Pages
  <1> HIDE DEF n
  <1>3. page' = [P EXCEPT ![c] = n]
    BY DEF n
  <1>4. /\ page' \in Seq(Pages) /\ Len(page') = Len(P) /\ page' # <<>>
        /\ DOMAIN page' = DOMAIN P /\ page'[c] = n
        /\ \A p \in DOMAIN P : p # c => page'[p] = P[p]
    BY <1>2, <1>3, PutPage
  <1>5. \A p \in DOMAIN P : page'[p].last = P[p].last /\ page'[p].quote = P[p].quote
    BY <1>2, <1>4
  <1>6. Layout'
    BY DEF Layout, Taken, Apart, Header
  <1>7. Taken' = Taken /\ \A p : OnPage(p)' = OnPage(p) /\ HeadersOn(p)' = HeadersOn(p)
    BY DEF Taken, OnPage, HeadersOn
  <1>8. Fits(page)'
    BY <1>4, <1>5, <1>7 DEF Fits
  <1> DEFINE y == (MaxFailedTimes + 1) * (c - 1)
             f == P[c].failed
             g == page'[c].failed
  <1>9. /\ Credit(P, c) = y + (IF f <= MaxFailedTimes THEN f ELSE MaxFailedTimes + 1)
        /\ Credit(page', c) = y + (IF g <= MaxFailedTimes THEN g ELSE MaxFailedTimes + 1)
    BY DEF Credit
  <1>10. y \in Nat /\ f \in Nat /\ g = f + 1
    BY <1>1, <1>2, <1>4, CreditFacts
  <1> HIDE DEF y, f, g
  <1>11. /\ Credit(page', c) >= Credit(P, c)
         /\ f <= MaxFailedTimes => Credit(page', c) >= Credit(P, c) + 1
         /\ Credit(page', c) >= y + 1
    BY <1>1, <1>9, <1>10
  <1> QED  BY <1>4, <1>6, <1>8, <1>11 DEF y, f

(* A piece cut from a page lies behind all that was cut before.              *)
LEMMA CarveChunkSafe ==
  ASSUME PoolTypes, Layout, NEW P \in Seq(Pages), NEW c \in 1..Len(P), Fits(P),
         NEW size \in Nat, size > 0, ResidueSize(P[c]) >= size,
         page' = [P EXCEPT ![c] = Carved(P[c], size)], current' = c,
         chunks' = chunks \cup {[page |-> c, start |-> P[c].last, size |-> size]},
         UNCHANGED <<block, blocks, forgotten>>
  PROVE  /\ page' \in Seq(Pages) /\ page' # <<>> /\ current' \in 1..Len(page')
         /\ chunks' \subseteq Chunks /\ IsFiniteSet(chunks')
         /\ Fits(page)' /\ Layout'
  <1> DEFINE n == Carved(P[c], size)
             x == [page |-> c, start |-> P[c].last, size |-> size]
  <1>1. P[c].last \in Nat /\ P[c].quote \in Int /\ P[c].failed \in Nat /\ c \in Nat
    BY PageTypes
  <1>2. /\ n \in Pages /\ n.last = P[c].last + size /\ n.quote = P[c].quote + 1
        /\ n.last <= PageSize
    <2>1. PageSize - P[c].last >= size /\ PageSize \in Nat
      BY ResetInPage DEF ResidueSize
    <2>2. P[c].last + size <= PageSize /\ P[c].last + size \in Nat /\ P[c].quote + 1 \in Int
      BY <1>1, <2>1
    <2> QED  BY <2>2 DEF Carved, Pages
  <1>3. x \in Chunks /\ x.page = c /\ x.start = P[c].last /\ x.size = size
    BY <1>1 DEF Chunks
  <1> HIDE DEF n, x
  <1>4. page' = [P EXCEPT ![c] = n] /\ chunks' = chunks \cup {x}
    BY DEF n, x
  <1>5. /\ page' \in Seq(Pages) /\ Len(page') = Len(P) /\ page' # <<>>
        /\ DOMAIN page' = DOMAIN P /\ page'[c] = n /\ c \in DOMAIN P
        /\ \A p \in DOMAIN P : p # c => page'[p] = P[p]
    BY <1>2, <1>4, PutPage
  <1>6. chunks' \subseteq Chunks /\ IsFiniteSet(chunks')
    <2>1. chunks \subseteq Chunks /\ IsFiniteSet(chunks)
      BY DEF PoolTypes
    <2>2. IsFiniteSet(chunks \cup {x})
      BY <2>1, FS_AddElement
    <2> QED  BY <1>3, <1>4, <2>1, <2>2
  <1>7. /\ \A a \in Taken : a.start \in Nat /\ a.size \in Nat
        /\ \A k \in DOMAIN block : block[k].start \in Nat /\ SizeofMemoryBlock \in Nat
    <2>1. \A k \in 1..Len(block) : block[k] \in Blocks
      BY ElementOfSeq DEF PoolTypes
    <2>2. DOMAIN block = 1..Len(block) /\ SizeofMemoryBlock \in Nat
      BY LenProperties, AllocatorAssumption DEF PoolTypes, AllocatorAssumption
    <2> QED  BY <2>1, <2>2 DEF PoolTypes, Taken, Chunks, Blocks
  <1>8. Taken' = Taken \cup {x}
    BY <1>4 DEF Taken
  <1>9. \A a \in Taken : a.page = c => a.start + a.size <= x.start
    BY <1>3 DEF Fits
  <1>10. \A k \in DOMAIN block : block[k].page = c => block[k].start + SizeofMemoryBlock <= x.start
    BY <1>3 DEF Fits
  <1>11. x \notin Taken
    BY <1>1, <1>3, <1>7, <1>9 DEF Layout
  <1>12. Layout'
    <2>1. chunks' \cap forgotten' = {}
      BY <1>4, <1>11 DEF Layout, Taken
    <2>2. \A a \in Taken' : a.size > 0
      BY <1>3, <1>8 DEF Layout
    <2>3. \A a, b \in Taken' : a # b => Apart(a, b)
      BY <1>3, <1>8, <1>9 DEF Layout, Apart
    <2>4. \A a \in Taken', k \in DOMAIN block : Apart(a, Header(k))
      BY <1>3, <1>8, <1>10 DEF Layout, Apart, Header
    <2>5. \A j, k \in DOMAIN block : j # k => Apart(Header(j), Header(k))
      BY DEF Layout
    <2> QED  BY <2>1, <2>2, <2>3, <2>4, <2>5 DEF Layout, Apart, Header
  <1>13. \A p \in DOMAIN P : P[p].last <= page'[p].last /\ page'[p].last <= PageSize
    <2>1. \A p \in DOMAIN P : P[p].last \in Nat
      BY PageTypes, LenProperties
    <2> QED  BY <1>1, <1>2, <1>5, <2>1 DEF Fits
  <1>14. /\ \A p : p # c => OnPage(p)' = OnPage(p)
         /\ OnPage(c)' = OnPage(c) \cup {x} /\ x \notin OnPage(c)
         /\ \A p : HeadersOn(p)' = HeadersOn(p)
    BY <1>3, <1>8, <1>11 DEF OnPage, HeadersOn
  <1>15. \A p \in DOMAIN P : page'[p].quote =
             Cardinality(OnPage(p)') + Cardinality(HeadersOn(p)')
    <2>1. Cardinality(OnPage(c)') = Cardinality(OnPage(c)) + 1
      BY <1>14, FiniteOnPage, FS_AddElement
    <2>2. /\ P[c].quote = Cardinality(OnPage(c)) + Cardinality(HeadersOn(c))
          /\ Cardinality(OnPage(c)) \in Nat /\ Cardinality(HeadersOn(c)) \in Nat
      BY <1>5, FiniteOnPage DEF Fits
    <2>3. page'[c].quote = Cardinality(OnPage(c)') + Cardinality(HeadersOn(c)')
      BY <1>2, <1>5, <1>14, <2>1, <2>2
    <2> QED  BY <1>5, <1>14, <2>3 DEF Fits
  <1>16. \A a \in Taken' : a.page \in DOMAIN page' /\ a.start + a.size <= page'[a.page].last
    <2>1. x.page \in DOMAIN page' /\ x.start + x.size <= page'[x.page].last
      BY <1>1, <1>2, <1>3, <1>5
    <2>2. ASSUME NEW a \in Taken
          PROVE  a.page \in DOMAIN page' /\ a.start + a.size <= page'[a.page].last
      <3>1. a.page \in DOMAIN P /\ a.start + a.size <= P[a.page].last
        BY DEF Fits
      <3>2. P[a.page].last \in Nat /\ page'[a.page].last \in Nat
        BY <1>5, <3>1, PageTypes, LenProperties
      <3> QED  BY <1>5, <1>7, <1>13, <3>1, <3>2
    <2> QED  BY <1>8, <2>1, <2>2
  <1>17. \A k \in DOMAIN block : block[k].page \in DOMAIN page'
             /\ block[k].start + SizeofMemoryBlock <= page'[block[k].page].last
    <2>1. TAKE k \in DOMAIN block
    <2>2. /\ block[k].page \in DOMAIN P
          /\ block[k].start + SizeofMemoryBlock <= P[block[k].page].last
      BY DEF Fits
    <2>3. P[block[k].page].last \in Nat /\ page'[block[k].page].last \in Nat
      BY <1>5, <2>2, PageTypes, LenProperties
    <2> QED  BY <1>5, <1>7, <1>13, <2>2, <2>3
  <1>18. Fits(page)'
    BY <1>5, <1>13, <1>15, <1>16, <1>17 DEF Fits
  <1> QED  BY <1>5, <1>6, <1>12, <1>18

(* A header cut from a page lies behind all that was cut before, and its block
   is the last of the list.                                                  *)
LEMMA CarveHeaderSafe ==
  ASSUME PoolTypes, Layout, BlocksOK, NEW P \in Seq(Pages), NEW c \in 1..Len(P), Fits(P),
         NEW size \in Nat, ResidueSize(P[c]) >= SizeofMemoryBlock,
         page' = [P EXCEPT ![c] = Carved(P[c], SizeofMemoryBlock)], current' = c,
         block' = Append(block, [page |-> c, start |-> P[c].last, size |-> size, used |-> TRUE]),
         blocks' = blocks \cup {[index |-> Len(block) + 1, size |-> size]},
         UNCHANGED <<chunks, forgotten>>
  PROVE  /\ page' \in Seq(Pages) /\ page' # <<>> /\ current' \in 1..Len(page')
         /\ block' \in Seq(Blocks) /\ blocks' \subseteq [index : 1..Len(block'), size : Nat]
         /\ Fits(page)' /\ Layout' /\ BlocksOK'
  <1> DEFINE n == Carved(P[c], SizeofMemoryBlock)
             h == [page |-> c, start |-> P[c].last, size |-> size, used |-> TRUE]
             e == Len(block) + 1
             o == [index |-> e, size |-> size]
             S == SizeofMemoryBlock
  <1>0. S \in Nat /\ S > 0
    BY AllocatorAssumption DEF AllocatorAssumption
  <1>1. P[c].last \in Nat /\ P[c].quote \in Int /\ P[c].failed \in Nat /\ c \in Nat
    BY PageTypes
  <1>2. /\ n \in Pages /\ n.last = P[c].last + S /\ n.quote = P[c].quote + 1
        /\ n.last <= PageSize
    <2>1. PageSize - P[c].last >= S /\ PageSize \in Nat
      BY ResetInPage DEF ResidueSize
    <2> HIDE DEF S
    <2>2. P[c].last + S <= PageSize /\ P[c].last + S \in Nat /\ P[c].quote + 1 \in Int
      BY <1>0, <1>1, <2>1
    <2> QED  BY <2>2 DEF Carved, Pages, S
  <1>3. h \in Blocks /\ h.page = c /\ h.start = P[c].last /\ h.size = size /\ h.used
    BY <1>1 DEF Blocks
  <1>4. o.index = e /\ o.size = size
    OBVIOUS
  <1> HIDE DEF n, h, o, S
  <1>5. page' = [P EXCEPT ![c] = n] /\ block' = Append(block, h) /\ blocks' = blocks \cup {o}
    BY DEF n, h, o
  <1>6. /\ page' \in Seq(Pages) /\ Len(page') = Len(P) /\ page' # <<>>
        /\ DOMAIN page' = DOMAIN P /\ page'[c] = n /\ c \in DOMAIN P
        /\ \A p \in DOMAIN P : p # c => page'[p] = P[p]
    BY <1>2, <1>5, PutPage
  <1>7. /\ block' \in Seq(Blocks) /\ Len(block') = e /\ e \in Nat
        /\ DOMAIN block = 1..Len(block) /\ DOMAIN block' = DOMAIN block \cup {e}
        /\ e \notin DOMAIN block /\ block'[e] = h
        /\ \A k \in DOMAIN block : block'[k] = block[k]
    <2>1. block \in Seq(Blocks)
      BY DEF PoolTypes
    <2>2. /\ block' \in Seq(Blocks) /\ Len(block') = e /\ block'[e] = h
          /\ \A k \in 1..Len(block) : block'[k] = block[k]
      BY <1>3, <1>5, <2>1, AppendProperties
    <2>3. Len(block) \in Nat /\ DOMAIN block = 1..Len(block) /\ DOMAIN block' = 1..e
      BY <2>1, <2>2, LenProperties
    <2> QED  BY <2>2, <2>3
  <1>8. blocks' \subseteq [index : 1..Len(block'), size : Nat]
    <2>1. blocks \subseteq [index : 1..Len(block), size : Nat]
      BY DEF PoolTypes
    <2>2. 1..Len(block) \subseteq 1..Len(block') /\ e \in 1..Len(block')
      BY <1>7
    <2> QED  BY <1>5, <2>1, <2>2 DEF o
  <1>9. BlocksOK'
    <2>1. \A p \in blocks : p.index \in DOMAIN block
      BY <1>7 DEF PoolTypes
    <2>2. \A p, r \in blocks' : p.index = r.index => p = r
      BY <1>4, <1>5, <1>7, <2>1 DEF BlocksOK
    <2>3. \A p \in blocks' : block'[p.index].used /\ block'[p.index].size >= p.size
      BY <1>3, <1>4, <1>5, <1>7, <2>1 DEF BlocksOK
    <2> QED  BY <2>2, <2>3 DEF BlocksOK
  <1> HIDE DEF e
  <1>10. /\ \A a \in Taken : a.start \in Nat /\ a.size \in Nat
         /\ \A k \in DOMAIN block : block[k].start \in Nat
    <2>1. \A k \in 1..Len(block) : block[k] \in Blocks
      BY ElementOfSeq DEF PoolTypes
    <2> QED  BY <1>7, <2>1 DEF PoolTypes, Taken, Chunks, Blocks
  <1>11. Taken' = Taken
    BY DEF Taken
  <1>12. \A a \in Taken : a.page = c => a.start + a.size <= h.start
    BY <1>3 DEF Fits
  <1>13. \A k \in DOMAIN block : block[k].page = c => block[k].start + S <= h.start
    BY <1>3 DEF Fits, S
  <1> DEFINE H(k) == [page |-> block'[k].page, start |-> block'[k].start, size |-> S]
  <1>14. \A k : H(k) = Header(k)'
    BY DEF Header, S
  <1>15. /\ H(e).page = c /\ H(e).start = h.start /\ H(e).size = S
         /\ \A k \in DOMAIN block :
              /\ H(k) = Header(k) /\ Header(k).page = block[k].page
              /\ Header(k).start = block[k].start /\ Header(k).size = S
    BY <1>3, <1>7 DEF Header, S
  <1> HIDE DEF H
  <1>16. Layout'
    <2>1. /\ chunks' \cap forgotten' = {}
          /\ \A a \in Taken : a.size > 0
          /\ \A a, b \in Taken : a # b => Apart(a, b)
      BY DEF Layout
    <2>2. \A a \in Taken, k \in DOMAIN block' : Apart(a, H(k))
      <3>1. \A a \in Taken : Apart(a, H(e))
        BY <1>12, <1>15 DEF Apart
      <3>2. \A a \in Taken, k \in DOMAIN block : Apart(a, H(k))
        BY <1>15 DEF Layout
      <3> QED  BY <1>7, <3>1, <3>2
    <2>3. \A j, k \in DOMAIN block' : j # k => Apart(H(j), H(k))
      <3>1. \A k \in DOMAIN block : Apart(H(k), H(e)) /\ Apart(H(e), H(k))
        BY <1>13, <1>15 DEF Apart
      <3>2. \A j, k \in DOMAIN block : j # k => Apart(H(j), H(k))
        BY <1>15 DEF Layout
      <3> QED  BY <1>7, <3>1, <3>2
    <2> QED  BY <1>11, <1>14, <2>1, <2>2, <2>3 DEF Layout, Apart
  <1>17. \A p \in DOMAIN P : P[p].last <= page'[p].last /\ page'[p].last <= PageSize
    <2>1. \A p \in DOMAIN P : P[p].last \in Nat
      BY PageTypes, LenProperties
    <2> QED  BY <1>0, <1>1, <1>2, <1>6, <2>1 DEF Fits
  <1>18. /\ \A p : OnPage(p)' = OnPage(p)
         /\ \A p : p # c => HeadersOn(p)' = HeadersOn(p)
         /\ HeadersOn(c)' = HeadersOn(c) \cup {e} /\ e \notin HeadersOn(c)
    BY <1>3, <1>7, <1>11 DEF OnPage, HeadersOn
  <1>19. \A p \in DOMAIN P : page'[p].quote =
             Cardinality(OnPage(p)') + Cardinality(HeadersOn(p)')
    <2>1. Cardinality(HeadersOn(c)') = Cardinality(HeadersOn(c)) + 1
      BY <1>18, FiniteOnPage, FS_AddElement
    <2>2. /\ P[c].quote = Cardinality(OnPage(c)) + Cardinality(HeadersOn(c))
          /\ Cardinality(OnPage(c)) \in Nat /\ Cardinality(HeadersOn(c)) \in Nat
      BY <1>6, FiniteOnPage DEF Fits
    <2>3. page'[c].quote = Cardinality(OnPage(c)') + Cardinality(HeadersOn(c)')
      BY <1>2, <1>6, <1>18, <2>1, <2>2
    <2>4. ASSUME NEW p \in DOMAIN P, p # c
          PROVE  page'[p].quote = Cardinality(OnPage(p)') + Cardinality(HeadersOn(p)')
      <3>1. page'[p] = P[p] /\ OnPage(p)' = OnPage(p) /\ HeadersOn(p)' = HeadersOn(p)
        BY <1>6, <1>18, <2>4
      <3> QED  BY <3>1 DEF Fits
    <2> QED  BY <2>3, <2>4
  <1>20. \A a \in Taken' : a.page \in DOMAIN page' /\ a.start + a.size <= page'[a.page].last
    <2>1. TAKE a \in Taken'
    <2>2. a \in Taken /\ a.page \in DOMAIN P /\ a.start + a.size <= P[a.page].last
      BY <1>11 DEF Fits
    <2>3. P[a.page].last \in Nat /\ page'[a.page].last \in Nat
      BY <1>6, <2>2, PageTypes, LenProperties
    <2> QED  BY <1>6, <1>10, <1>17, <2>2, <2>3
  <1>21. \A k \in DOMAIN block' : block'[k].page \in DOMAIN page'
             /\ block'[k].start + S <= page'[block'[k].page].last
    <2>1. /\ block'[e].page \in DOMAIN page'
          /\ block'[e].start + S <= page'[block'[e].page].last
      BY <1>0, <1>1, <1>2, <1>3, <1>6, <1>7
    <2>2. ASSUME NEW k \in DOMAIN block
          PROVE  /\ block'[k].page \in DOMAIN page'
                 /\ block'[k].start + S <= page'[block'[k].page].last
      <3>1. /\ block[k].page \in DOMAIN P
            /\ block[k].start + S <= P[block[k].page].last
        BY DEF Fits, S
      <3>2. P[block[k].page].last \in Nat /\ page'[block[k].page].last \in Nat
        BY <1>6, <3>1, PageTypes, LenProperties
      <3> QED  BY <1>0, <1>6, <1>7, <1>10, <1>17, <3>1, <3>2
    <2> QED  BY <1>7, <2>1, <2>2
  <1>22. Fits(page)'
    BY <1>6, <1>17, <1>19, <1>20, <1>21 DEF Fits, S
  <1> QED  BY <1>6, <1>7, <1>8, <1>9, <1>16, <1>22

(* Blocks and headers that stay where they are; only marks change.           *)
LEMMA MarksOnly ==
  ASSUME PoolTypes, Layout, NEW P \in Seq(Pages), Fits(P), page' = P,
         chunks' \cup forgotten' = Taken, chunks' \cap forgotten' = {},
         DOMAIN block' = DOMAIN block,
         \A k \in DOMAIN block : /\ block'[k].page = block[k].page
                                 /\ block'[k].start = block[k].start
  PROVE  Fits(page)' /\ Layout'
  <1>1. Taken' = Taken
    BY DEF Taken
  <1>2. \A p : OnPage(p)' = OnPage(p) /\ HeadersOn(p)' = HeadersOn(p)
    BY <1>1 DEF OnPage, HeadersOn
  <1>3. Fits(page)'
    BY <1>1, <1>2 DEF Fits
  <1>4. \A k \in DOMAIN block : Header(k)' = Header(k)
    BY DEF Header
  <1>5. Layout'
    BY <1>1, <1>4 DEF Layout, Apart
  <1> QED  BY <1>3, <1>5

(* A block of the list whose mark changes.                                   *)
LEMMA MarkBlock ==
  ASSUME PoolTypes, NEW k \in DOMAIN block, NEW mark \in BOOLEAN,
         block' = [block EXCEPT ![k].used = mark]
  PROVE  /\ block' \in Seq(Blocks) /\ Len(block') = Len(block)
         /\ DOMAIN block' = DOMAIN block /\ DOMAIN block = 1..Len(block)
         /\ \A j \in DOMAIN block : /\ block'[j].page = block[j].page
                                    /\ block'[j].start = block[j].start
                                    /\ block'[j].size = block[j].size
                                    /\ j # k => block'[j].used = block[j].used
         /\ block'[k].used = mark
  <1> DEFINE b == [block[k] EXCEPT !.used = mark]
  <1>1. block \in Seq(Blocks) /\ DOMAIN block = 1..Len(block) /\ block \in [1..Len(block) -> Blocks]
    BY LenProperties DEF PoolTypes
  <1>2. block[k] \in [page : Nat, start : Nat, size : Nat, used : BOOLEAN]
    BY <1>1 DEF Blocks
  <1>3. /\ b \in Blocks /\ b.page = block[k].page /\ b.start = block[k].start
        /\ b.size = block[k].size /\ b.used = mark
    BY <1>2 DEF Blocks
  <1> HIDE DEF b
  <1>4. block' = [block EXCEPT ![k] = b]
    BY DEF b
  <1>5. block' \in Seq(Blocks) /\ Len(block') = Len(block)
    BY <1>1, <1>3, <1>4, ExceptSeq
  <1>6. /\ DOMAIN block' = DOMAIN block /\ block'[k] = b
        /\ \A j \in DOMAIN block : j # k => block'[j] = block[j]
    BY <1>1, <1>4
  <1> QED  BY <1>1, <1>3, <1>5, <1>6

(* A block that is lent again: it was marked free, so nobody has it.         *)
LEMMA ReuseBlockSafe ==
  ASSUME PoolTypes, Layout, BlocksOK, NEW P \in Seq(Pages), Fits(P), NEW size \in Nat,
         FittingBlocks(size) # {}, page' = P,
         block' = [block EXCEPT ![First(FittingBlocks(size))].used = TRUE],
         Lend(First(FittingBlocks(size)), size),
         UNCHANGED <<chunks, forgotten>>
  PROVE  /\ block' \in Seq(Blocks) /\ blocks' \subseteq [index : 1..Len(block'), size : Nat]
         /\ Fits(page)' /\ Layout' /\ BlocksOK'
  <1> DEFINE k == First(FittingBlocks(size))
             o == [index |-> k, size |-> size]
  <1>1. k \in DOMAIN block /\ ~block[k].used /\ block[k].size >= size
    <2>1. DOMAIN block \subseteq Nat
      BY LenProperties DEF PoolTypes
    <2>2. FittingBlocks(size) \subseteq Nat
      BY <2>1 DEF FittingBlocks
    <2>3. k \in FittingBlocks(size)
      BY <2>2, FirstFits
    <2> QED  BY <2>3 DEF FittingBlocks
  <1>2. blocks' = blocks \cup {o} /\ o.index = k /\ o.size = size
    BY DEF Lend
  <1> HIDE DEF k
  <1>3. block' = [block EXCEPT ![k].used = TRUE]
    BY DEF k
  <1>4. /\ block' \in Seq(Blocks) /\ Len(block') = Len(block)
        /\ DOMAIN block' = DOMAIN block /\ DOMAIN block = 1..Len(block)
        /\ \A j \in DOMAIN block : /\ block'[j].page = block[j].page
                                   /\ block'[j].start = block[j].start
                                   /\ block'[j].size = block[j].size
                                   /\ j # k => block'[j].used = block[j].used
        /\ block'[k].used
    BY <1>1, <1>3, MarkBlock
  <1>5. blocks \subseteq [index : 1..Len(block), size : Nat]
    BY DEF PoolTypes
  <1>6. blocks' \subseteq [index : 1..Len(block'), size : Nat]
    BY <1>1, <1>2, <1>4, <1>5
  <1> HIDE DEF o
  <1>7. \A p \in blocks : p.index # k /\ p.index \in DOMAIN block
    BY <1>1, <1>4, <1>5 DEF BlocksOK
  <1>8. \A p, r \in blocks' : p.index = r.index => p = r
    BY <1>2, <1>7 DEF BlocksOK
  <1>9. \A p \in blocks' : block'[p.index].used /\ block'[p.index].size >= p.size
    BY <1>1, <1>2, <1>4, <1>7 DEF BlocksOK
  <1>10. BlocksOK'
    BY <1>8, <1>9 DEF BlocksOK
  <1>11. Fits(page)' /\ Layout'
    <2>1. chunks' \cup forgotten' = Taken /\ chunks' \cap forgotten' = {}
      BY DEF Taken, Layout
    <2> QED  BY <1>4, <2>1, MarksOnly
  <1> QED  BY <1>4, <1>6, <1>10, <1>11

(* A block given back: nobody else has it, so its mark may go.               *)
LEMMA RecycleBlockSafe ==
  ASSUME PoolTypes, Layout, Fits(page), BlocksOK, NEW o \in blocks, RecycleBlock(o)
  PROVE  /\ block' \in Seq(Blocks) /\ blocks' \subseteq [index : 1..Len(block'), size : Nat]
         /\ Fits(page)' /\ Layout' /\ BlocksOK'
  <1>1. /\ blocks' = blocks \ {o} /\ UNCHANGED <<page, chunks, forgotten>>
        /\ \/ UNCHANGED block
           \/ block' = [block EXCEPT ![o.index].used = FALSE]
    BY DEF RecycleBlock
  <1>2. /\ blocks \subseteq [index : 1..Len(block), size : Nat] /\ page \in Seq(Pages)
        /\ block \in Seq(Blocks) /\ DOMAIN block = 1..Len(block)
    BY LenProperties DEF PoolTypes
  <1>3. o.index \in DOMAIN block /\ \A p \in blocks' : p \in blocks /\ p.index # o.index
                                   /\ p.index \in DOMAIN block
    BY <1>1, <1>2 DEF BlocksOK
  <1>4. /\ block' \in Seq(Blocks) /\ Len(block') = Len(block) /\ DOMAIN block' = DOMAIN block
        /\ \A j \in DOMAIN block : /\ block'[j].page = block[j].page
                                   /\ block'[j].start = block[j].start
                                   /\ block'[j].size = block[j].size
                                   /\ j # o.index => block'[j].used = block[j].used
    <2>1. CASE UNCHANGED block
      BY <1>2, <2>1
    <2>2. CASE block' = [block EXCEPT ![o.index].used = FALSE]
      BY <1>3, <2>2, MarkBlock
    <2> QED  BY <1>1, <2>1, <2>2
  <1>5. blocks' \subseteq [index : 1..Len(block'), size : Nat]
    BY <1>1, <1>2, <1>4
  <1>6. BlocksOK'
    BY <1>1, <1>3, <1>4 DEF BlocksOK
  <1>7. Fits(page)' /\ Layout'
    <2>1. chunks' \cup forgotten' = Taken /\ chunks' \cap forgotten' = {}
      BY <1>1 DEF Taken, Layout
    <2>2. page' = page /\ page \in Seq(Pages) /\ DOMAIN block' = DOMAIN block
      BY <1>1, <1>2, <1>4
    <2>3. \A j \in DOMAIN block : block'[j].page = block[j].page /\ block'[j].start = block[j].start
      BY <1>4
    <2> QED  BY <2>1, <2>2, <2>3, MarksOnly
  <1> QED  BY <1>4, <1>5, <1>6, <1>7

(* A piece that Release does not take back stays in its page.                *)
LEMMA ReleaseChunkSafe ==
  ASSUME PoolTypes, Layout, Fits(page), NEW c \in chunks, ReleaseChunk(c)
  PROVE  /\ chunks' \subseteq Chunks /\ IsFiniteSet(chunks')
         /\ forgotten' \subseteq Chunks /\ IsFiniteSet(forgotten')
         /\ Fits(page)' /\ Layout'
  <1>1. /\ chunks' = chunks \ {c} /\ forgotten' = forgotten \cup {c}
        /\ UNCHANGED <<page, block>>
    BY DEF ReleaseChunk
  <1>2. /\ chunks \subseteq Chunks /\ forgotten \subseteq Chunks /\ page \in Seq(Pages)
        /\ IsFiniteSet(chunks) /\ IsFiniteSet(forgotten)
    BY DEF PoolTypes
  <1>3. IsFiniteSet(chunks \ {c}) /\ IsFiniteSet(forgotten \cup {c})
    BY <1>2, FS_AddElement, FS_RemoveElement
  <1>4. chunks' \cup forgotten' = Taken /\ chunks' \cap forgotten' = {}
    BY <1>1 DEF Taken, Layout
  <1>5. Fits(page)' /\ Layout'
    BY <1>1, <1>2, <1>4, MarksOnly
  <1> QED  BY <1>1, <1>2, <1>3, <1>5

(* A piece given back.  When its page counts no other reference, nothing else
   lies in the page, so it may start anew.                                   *)
LEMMA RecycleChunkSafe ==
  ASSUME PoolTypes, Layout, Fits(page), Patience, NEW c \in chunks, RecycleChunk(c)
  PROVE  /\ page' \in Seq(Pages) /\ page' # <<>> /\ current' \in 1..Len(page')
         /\ chunks' \subseteq Chunks /\ IsFiniteSet(chunks')
         /\ Fits(page)' /\ Layout' /\ Patience' /\ misses' \in Nat
  <1> DEFINE q == c.page
             node == page[q]
             n == IF node.quote = 1 THEN [last |-> ResetOffset, quote |-> 0, failed |-> 0]
                  ELSE [last |-> node.last, quote |-> node.quote - 1, failed |-> node.failed]
  <1>1. /\ chunks' = chunks \ {c} /\ UNCHANGED <<block, blocks, forgotten>>
        /\ page' = [page EXCEPT ![q] = n]
        /\ \/ node.quote # 1 /\ UNCHANGED <<current, misses>>
           \/ node.quote = 1 /\ current' = q /\ misses' = 0
    BY DEF RecycleChunk
  <1>2. /\ page \in Seq(Pages) /\ DOMAIN page = 1..Len(page) /\ Len(page) \in Nat
        /\ misses \in Nat
    BY LenProperties DEF PoolTypes
  <1>3. c \in Taken /\ c \notin forgotten /\ q \in 1..Len(page) /\ page # <<>>
    BY <1>2 DEF Taken, Layout, Fits
  <1>4. /\ page[q].last \in Nat /\ page[q].quote \in Int /\ page[q].failed \in Nat
    BY <1>2, <1>3, PageTypes
  <1>5. /\ n \in Pages /\ n.quote = node.quote - 1
        /\ node.quote = 1 => n.last = ResetOffset /\ n.failed = 0
        /\ node.quote # 1 => n.last = node.last /\ n.failed = node.failed
    BY <1>4, ResetInPage DEF Pages
  <1> HIDE DEF n
  <1>6. /\ page' \in Seq(Pages) /\ Len(page') = Len(page) /\ page' # <<>>
        /\ DOMAIN page' = DOMAIN page /\ page'[q] = n
        /\ \A p \in DOMAIN page : p # q => page'[p] = page[p]
    BY <1>1, <1>2, <1>3, <1>5, PutPage
  <1>7. current \in 1..Len(page)
    BY <1>3 DEF PoolTypes
  <1>8. current' \in 1..Len(page') /\ misses' \in Nat
    BY <1>1, <1>2, <1>3, <1>6, <1>7
  <1>9. chunks' \subseteq Chunks /\ IsFiniteSet(chunks')
    <2>1. chunks \subseteq Chunks /\ IsFiniteSet(chunks)
      BY DEF PoolTypes
    <2>2. IsFiniteSet(chunks \ {c})
      BY <2>1, FS_RemoveElement
    <2> QED  BY <1>1, <2>1, <2>2
  <1>10. Taken' = Taken \ {c}
    BY <1>1, <1>3 DEF Taken
  <1>11. Layout'
    <2>1. chunks' \cap forgotten' = {}
      BY <1>1 DEF Layout
    <2> QED  BY <1>1, <1>10, <2>1 DEF Layout, Apart, Header
  <1>12. /\ \A p : HeadersOn(p)' = HeadersOn(p)
         /\ \A p : p # q => OnPage(p)' = OnPage(p)
         /\ OnPage(q)' = OnPage(q) \ {c} /\ c \in OnPage(q)
    BY <1>1, <1>3, <1>10 DEF OnPage, HeadersOn
  <1>13. /\ IsFiniteSet(OnPage(q)) /\ IsFiniteSet(HeadersOn(q)) /\ IsFiniteSet(OnPage(q) \ {c})
         /\ Cardinality(OnPage(q)) \in Nat /\ Cardinality(HeadersOn(q)) \in Nat
         /\ Cardinality(OnPage(q) \ {c}) \in Nat
         /\ Cardinality(OnPage(q) \ {c}) = Cardinality(OnPage(q)) - 1
    BY <1>12, FiniteOnPage, FS_RemoveElement, FS_CardinalityType
  <1>14. node.quote = Cardinality(OnPage(q)) + Cardinality(HeadersOn(q))
    BY <1>2, <1>3 DEF Fits
  <1>15. ASSUME NEW p \in DOMAIN page
         PROVE  page'[p].quote = Cardinality(OnPage(p)') + Cardinality(HeadersOn(p)')
    <2>1. CASE p = q
      <3>1. page'[q].quote = node.quote - 1
        BY <1>5, <1>6
      <3>2. Cardinality(OnPage(q)') = Cardinality(OnPage(q)) - 1
        BY <1>12, <1>13
      <3>3. HeadersOn(q)' = HeadersOn(q)
        BY <1>12
      <3> QED  BY <1>13, <1>14, <2>1, <3>1, <3>2, <3>3
    <2>2. CASE p # q
      <3>1. page'[p] = page[p] /\ OnPage(p)' = OnPage(p) /\ HeadersOn(p)' = HeadersOn(p)
        BY <1>6, <1>12, <2>2
      <3> QED  BY <3>1 DEF Fits
    <2> QED  BY <2>1, <2>2
  <1>16. node.quote = 1 => OnPage(q)' = {} /\ HeadersOn(q) = {}
    <2>1. node.quote = 1 => Cardinality(OnPage(q) \ {c}) = 0 /\ Cardinality(HeadersOn(q)) = 0
      BY <1>13, <1>14
    <2> QED  BY <1>12, <1>13, <2>1, FS_EmptySet
  <1>17. \A p \in DOMAIN page : /\ page'[p].last <= PageSize
                                /\ p # q \/ node.quote # 1 => page'[p].last = page[p].last
    BY <1>5, <1>6, ResetInPage DEF Fits
  <1>18. ASSUME NEW a \in Taken'
         PROVE  a.page \in DOMAIN page' /\ a.start + a.size <= page'[a.page].last
    <2>1. a \in Taken /\ a.page \in DOMAIN page /\ a.start + a.size <= page[a.page].last
      BY <1>10 DEF Fits
    <2>2. a \in OnPage(a.page)'
      BY DEF OnPage
    <2>3. a.page # q \/ node.quote # 1
      BY <1>16, <2>2
    <2> QED  BY <1>6, <1>17, <2>1, <2>3
  <1>19. ASSUME NEW k \in DOMAIN block
         PROVE  /\ block[k].page \in DOMAIN page'
                /\ block[k].start + SizeofMemoryBlock <= page'[block[k].page].last
    <2>1. /\ block[k].page \in DOMAIN page
          /\ block[k].start + SizeofMemoryBlock <= page[block[k].page].last
      BY DEF Fits
    <2>2. block[k].page # q \/ node.quote # 1
      BY <1>16 DEF HeadersOn
    <2> QED  BY <1>6, <1>17, <2>1, <2>2
  <1>20. Fits(page)'
    BY <1>1, <1>6, <1>15, <1>17, <1>18, <1>19 DEF Fits
  <1>21. Patience'
    <2>1. Credit(page', current') \in Nat
      BY <1>6, <1>8, CreditFacts
    <2>2. CASE node.quote = 1
      <3>1. misses' = 0
        BY <1>1, <2>2
      <3> QED  BY <1>6, <2>1, <3>1 DEF Patience
    <2>3. CASE node.quote # 1
      <3>1. UNCHANGED <<current, misses>> /\ page'[current].failed = page[current].failed
        BY <1>1, <1>2, <1>5, <1>6, <1>7, <2>3
      <3>2. Credit(page', current') = Credit(page, current)
        BY <3>1 DEF Credit
      <3> QED  BY <1>3, <1>6, <3>1, <3>2 DEF Patience
    <2> QED  BY <2>2, <2>3
  <1> QED  BY <1>6, <1>8, <1>9, <1>11, <1>20, <1>21
-----------------------------------------------------------------------------
PoolInv == PoolTypes /\ Fits(page) /\ Layout /\ BlocksOK /\ Patience

(* A request below a page, refused or served.                                *)
LEMMA AllocateChunkSafe ==
  ASSUME PoolInv, NEW size \in Nat, size > 0, AllocateChunk(size)
  PROVE  PoolInv'
  <1> USE DEF PoolInv
  <1> DEFINE P == MovedPages
             c == MovedCurrent
             K == MaxFailedTimes + 1
  <1>1. /\ P \in Seq(Pages) /\ c \in 1..Len(P) /\ Fits(P)
        /\ misses <= Credit(P, c) /\ misses \in Nat
        /\ P[c].failed <= MaxFailedTimes \/ misses <= K * (c - 1)
    BY Moved DEF PoolTypes
  <1>2. current' = c /\ UNCHANGED <<block, blocks, forgotten>>
    BY DEF AllocateChunk
  <1>3. BlocksOK'
    BY <1>2 DEF BlocksOK
  <1>4. CASE /\ page' = [P EXCEPT ![c] = Refused(P[c])]
             /\ misses' = misses + 1
             /\ UNCHANGED chunks
    <2> HIDE DEF P, c
    <2>1. /\ page' \in Seq(Pages) /\ page' # <<>> /\ current' \in 1..Len(page')
          /\ Fits(page)' /\ Layout'
          /\ P[c].failed <= MaxFailedTimes => Credit(page', c) >= Credit(P, c) + 1
          /\ Credit(page', c) >= K * (c - 1) + 1
      BY <1>1, <1>2, <1>4, RefuseSafe
    <2>2. /\ Credit(P, c) \in Nat /\ Credit(page', c) \in Nat /\ K * (c - 1) \in Nat
      BY <1>1, <1>2, <2>1, CreditFacts
    <2>3. misses' <= Credit(page', c) /\ misses' \in Nat
      <3> DEFINE x == Credit(P, c)
                 y == K * (c - 1)
                 z == Credit(page', c)
      <3>1. /\ x \in Nat /\ y \in Nat /\ z \in Nat /\ misses \in Nat
            /\ misses <= x /\ (P[c].failed <= MaxFailedTimes => z >= x + 1)
            /\ (P[c].failed <= MaxFailedTimes \/ misses <= y) /\ z >= y + 1
        BY <1>1, <2>1, <2>2
      <3> HIDE DEF x, y, z
      <3>2. misses + 1 <= z /\ misses + 1 \in Nat
        BY <3>1
      <3> QED  BY <1>4, <3>2 DEF z
    <2>4. PoolTypes'
      BY <1>2, <1>4, <2>1, <2>3 DEF PoolTypes
    <2> QED  BY <1>2, <1>3, <2>1, <2>3, <2>4 DEF Patience
  <1>5. CASE /\ ResidueSize(P[c]) >= size
             /\ page' = [P EXCEPT ![c] = Carved(P[c], size)]
             /\ chunks' = chunks \cup {[page |-> c, start |-> P[c].last, size |-> size]}
             /\ misses' = 0
    <2> HIDE DEF P, c
    <2>1. /\ page' \in Seq(Pages) /\ page' # <<>> /\ current' \in 1..Len(page')
          /\ chunks' \subseteq Chunks /\ IsFiniteSet(chunks')
          /\ Fits(page)' /\ Layout'
      BY <1>1, <1>2, <1>5, CarveChunkSafe
    <2>2. Credit(page', current') \in Nat
      BY <2>1, CreditFacts
    <2>3. PoolTypes'
      BY <1>2, <1>5, <2>1 DEF PoolTypes
    <2> QED  BY <1>3, <1>5, <2>1, <2>2, <2>3 DEF Patience
  <1> QED  BY <1>4, <1>5 DEF AllocateChunk

(* A request of a page and more, refused, served again or served anew.       *)
LEMMA AllocateBlockSafe ==
  ASSUME PoolInv, NEW size \in Nat, AllocateBlock(size)
  PROVE  PoolInv'
  <1> USE DEF PoolInv
  <1> DEFINE P == LoadedPages
             c == LoadedCurrent
  <1>1. /\ P \in Seq(Pages) /\ c \in 1..Len(P) /\ Fits(P)
        /\ misses <= Credit(P, c) /\ misses \in Nat /\ Credit(P, c) \in Nat
    BY Loaded, CreditFacts DEF PoolTypes
  <1>2. current' = c /\ UNCHANGED <<chunks, forgotten>>
    BY DEF AllocateBlock
  <1>3. CASE /\ page' = [P EXCEPT ![c] = Refused(P[c])]
             /\ UNCHANGED <<block, blocks, misses>>
    <2> HIDE DEF P, c
    <2>1. /\ page' \in Seq(Pages) /\ page' # <<>> /\ current' \in 1..Len(page')
          /\ Fits(page)' /\ Layout' /\ Credit(page', c) >= Credit(P, c)
      BY <1>1, <1>2, <1>3, RefuseSafe
    <2>2. Credit(page', c) \in Nat
      BY <1>2, <2>1, CreditFacts
    <2>3. misses' <= Credit(page', c)
      BY <1>1, <1>3, <2>1, <2>2
    <2>4. PoolTypes'
      BY <1>2, <1>3, <2>1 DEF PoolTypes
    <2>5. BlocksOK'
      BY <1>3 DEF BlocksOK
    <2> QED  BY <1>2, <2>1, <2>3, <2>4, <2>5 DEF Patience
  <1>4. CASE /\ FittingBlocks(size) # {}
             /\ page' = P
             /\ block' = [block EXCEPT ![First(FittingBlocks(size))].used = TRUE]
             /\ Lend(First(FittingBlocks(size)), size)
             /\ UNCHANGED misses
    <2> HIDE DEF P, c
    <2>1. /\ block' \in Seq(Blocks) /\ blocks' \subseteq [index : 1..Len(block'), size : Nat]
          /\ Fits(page)' /\ Layout' /\ BlocksOK'
      BY <1>1, <1>2, <1>4, ReuseBlockSafe
    <2>2. page' # <<>>
      BY <1>1, <1>4, LenProperties
    <2>3. PoolTypes'
      BY <1>1, <1>2, <1>4, <2>1, <2>2 DEF PoolTypes
    <2> QED  BY <1>1, <1>2, <1>4, <2>1, <2>2, <2>3 DEF Patience
  <1>5. CASE /\ ResidueSize(P[c]) >= SizeofMemoryBlock
             /\ page' = [P EXCEPT ![c] = Carved(P[c], SizeofMemoryBlock)]
             /\ block' = Append(block, [page |-> c, start |-> P[c].last,
                                       size |-> size, used |-> TRUE])
             /\ Lend(Len(block) + 1, size)
             /\ misses' = 0
    <2> HIDE DEF P, c
    <2>1. /\ page' \in Seq(Pages) /\ page' # <<>> /\ current' \in 1..Len(page')
          /\ block' \in Seq(Blocks) /\ blocks' \subseteq [index : 1..Len(block'), size : Nat]
          /\ Fits(page)' /\ Layout' /\ BlocksOK'
      <3>1. blocks' = blocks \cup {[index |-> Len(block) + 1, size |-> size]}
        BY <1>5 DEF Lend
      <3> QED  BY <1>1, <1>2, <1>5, <3>1, CarveHeaderSafe
    <2>2. Credit(page', current') \in Nat
      BY <2>1, CreditFacts
    <2>3. PoolTypes'
      BY <1>2, <1>5, <2>1 DEF PoolTypes
    <2> QED  BY <1>5, <2>1, <2>2, <2>3 DEF Patience
  <1> QED  BY <1>3, <1>4, <1>5 DEF AllocateBlock

(* An empty pool.                                                            *)
LEMMA EmptyPool ==
  ASSUME page = <<>>, current = 0, block = <<>>, chunks = {}, blocks = {}, forgotten = {},
         misses = 0
  PROVE  PoolInv
  <1>1. PoolTypes
    BY FS_EmptySet DEF PoolTypes
  <1>2. DOMAIN page = {} /\ DOMAIN block = {} /\ Taken = {}
    BY DEF Taken
  <1>3. Fits(page) /\ Layout
    BY <1>2 DEF Fits, Layout
  <1> QED  BY <1>1, <1>3 DEF PoolInv, BlocksOK, Patience

(* InitAllocater leaves empty queues and no pool.                            *)
LEMMA InitInv == Init => IInv
  <1> SUFFICES ASSUME Init PROVE IInv
    OBVIOUS
  <1>1. PoolInv
    BY EmptyPool DEF Init
  <1>2. QueueTypes
    <2>1. <<>> \in Seq(Nodes)
      OBVIOUS
    <2>2. m_queue \in [Indexes -> [num : Int, chain : Seq(Nodes)]]
      BY <2>1 DEF Init
    <2> QED  BY <2>2 DEF Init, QueueTypes
  <1>3. QueuesOK
    <2>1. \A i \in Indexes : m_queue[i].chain = <<>> /\ DOMAIN m_queue[i].chain = {}
      BY DEF Init
    <2>2. small = {}
      BY DEF Init
    <2> QED  BY <2>1, <2>2 DEF QueuesOK
  <1> QED  BY <1>1, <1>2, <1>3 DEF IInv, PoolInv

(* CloseAllocater leaves what InitAllocater does.                            *)
LEMMA CloseSafe ==
  ASSUME QueueTypes, CloseAllocater, UNCHANGED sizes
  PROVE  IInv'
  <1>1. PoolInv'
    <2>1. /\ page' = <<>> /\ current' = 0 /\ block' = <<>> /\ chunks' = {} /\ blocks' = {}
          /\ forgotten' = {} /\ misses' = 0
      BY DEF CloseAllocater
    <2>2. PoolTypes'
      BY <2>1, FS_EmptySet DEF PoolTypes
    <2>3. DOMAIN page' = {} /\ DOMAIN block' = {} /\ Taken' = {}
      BY <2>1 DEF Taken
    <2>4. Fits(page)' /\ Layout'
      BY <2>1, <2>3 DEF Fits, Layout
    <2> QED  BY <2>1, <2>2, <2>4 DEF PoolInv, BlocksOK, Patience
  <1>2. /\ m_queue' = [i \in Indexes |-> [num |-> 0, chain |-> <<>>]]
        /\ small' = {} /\ overrun' = overrun
    BY DEF CloseAllocater
  <1>3. QueueTypes'
    <2>1. <<>> \in Seq(Nodes)
      OBVIOUS
    <2>2. m_queue' \in [Indexes -> [num : Int, chain : Seq(Nodes)]]
      BY <1>2, <2>1
    <2> QED  BY <1>2, <2>2 DEF QueueTypes
  <1>4. QueuesOK'
    <2>1. \A i \in Indexes : m_queue'[i].chain = <<>> /\ DOMAIN m_queue'[i].chain = {}
      BY <1>2
    <2> QED  BY <1>2, <2>1 DEF QueuesOK
  <1> QED  BY <1>1, <1>3, <1>4 DEF IInv, PoolInv

(* A request that a queue serves.                                            *)
LEMMA AllocateSmallSafe ==
  ASSUME QueueTypes, QueuesOK, NEW size \in Nat, AllocateSmall(size), UNCHANGED sizes
  PROVE  QueueTypes' /\ QueuesOK'
  <1> DEFINE i == GetQueueIndex(size)
  <1>1. CASE /\ i \in Indexes /\ UNCHANGED overrun
             /\ StartQueue(i, size) \/ ReuseNode(i, size) \/ AppendNode(i, size)
    <2> HIDE DEF i
    <2> QED  BY <1>1, StartQueueSafe, ReuseNodeSafe, AppendNodeSafe
  <1>2. CASE overrun' = TRUE /\ UNCHANGED <<m_queue, small>>
    BY <1>2 DEF QueueTypes, QueuesOK
  <1> QED  BY <1>1, <1>2 DEF AllocateSmall

(* Every call keeps the invariant.                                           *)
LEMMA NextInv == IInv /\ [Next]_vars => IInv'
  <1> SUFFICES ASSUME IInv, [Next]_vars PROVE IInv'
    OBVIOUS
  <1>1. QueueTypes /\ QueuesOK /\ PoolInv
    BY DEF IInv, PoolInv
  <1>2. (QueueTypes /\ QueuesOK /\ PoolInv)' => IInv'
    BY DEF IInv, PoolInv
  <1>3. UNCHANGED pool => PoolInv'
    <2> SUFFICES ASSUME UNCHANGED pool PROVE PoolInv'
      OBVIOUS
    <2>1. UNCHANGED <<page, current, block, chunks, blocks, forgotten, misses>>
      BY DEF pool
    <2>2. PoolTypes' /\ BlocksOK' /\ Patience'
      BY <1>1, <2>1 DEF PoolInv, PoolTypes, BlocksOK, Patience, Credit
    <2>3. Fits(page)' /\ Layout'
      <3>1. chunks' \cup forgotten' = Taken /\ chunks' \cap forgotten' = {}
        BY <1>1, <2>1 DEF Taken, PoolInv, Layout
      <3>2. page \in Seq(Pages) /\ page' = page
        BY <1>1, <2>1 DEF PoolInv, PoolTypes
      <3> QED  BY <1>1, <2>1, <3>1, <3>2, MarksOnly DEF PoolInv
    <2> QED  BY <2>2, <2>3 DEF PoolInv
  <1>4. UNCHANGED <<sizes, m_queue, small, overrun>> => (QueueTypes /\ QueuesOK)'
    BY <1>1 DEF QueueTypes, QueuesOK
  <1>5. ASSUME NEW size \in sizes, AllocateSmall(size), UNCHANGED sizes
        PROVE  IInv'
    <2>1. size \in Nat
      BY <1>1, AllocatorAssumption DEF QueueTypes, AllocatorAssumption
    <2>2. UNCHANGED pool
      BY <1>5 DEF AllocateSmall
    <2> QED  BY <1>1, <1>2, <1>3, <1>5, <2>1, <2>2, AllocateSmallSafe
  <1>6. ASSUME NEW size \in sizes, AllocateLarge(size), UNCHANGED sizes
        PROVE  IInv'
    <2>1. size \in Nat /\ size > SmallLimit
      BY <1>1, <1>6, AllocatorAssumption DEF QueueTypes, AllocatorAssumption, AllocateLarge
    <2>2. RoundUp(size) \in Nat /\ RoundUp(size) > 0
      BY <2>1, RoundUpFacts
    <2>3. /\ AllocateChunk(RoundUp(size)) \/ AllocateBlock(RoundUp(size))
          /\ UNCHANGED <<m_queue, small, overrun>>
      BY <1>6 DEF AllocateLarge
    <2>4. PoolInv'
      BY <1>1, <2>2, <2>3, AllocateChunkSafe, AllocateBlockSafe
    <2> QED  BY <1>2, <1>4, <1>6, <2>3, <2>4
  <1>7. ASSUME NEW o \in small, RecycleSmall(o), UNCHANGED sizes
        PROVE  IInv'
    <2>1. UNCHANGED pool
      BY <1>7 DEF RecycleSmall
    <2> QED  BY <1>1, <1>2, <1>3, <1>7, <2>1, RecycleSmallSafe
  <1>8. ASSUME NEW c \in chunks, RecycleChunk(c), UNCHANGED sizes
        PROVE  IInv'
    <2>1. UNCHANGED <<block, blocks, forgotten, m_queue, small, overrun>>
      BY <1>8 DEF RecycleChunk
    <2>2. /\ page' \in Seq(Pages) /\ page' # <<>> /\ current' \in 1..Len(page')
          /\ chunks' \subseteq Chunks /\ IsFiniteSet(chunks')
          /\ Fits(page)' /\ Layout' /\ Patience' /\ misses' \in Nat
      BY <1>1, <1>8, RecycleChunkSafe DEF PoolInv
    <2>3. PoolTypes' /\ BlocksOK'
      BY <1>1, <2>1, <2>2 DEF PoolInv, PoolTypes, BlocksOK
    <2> QED  BY <1>2, <1>4, <1>8, <2>1, <2>2, <2>3 DEF PoolInv
  <1>9. ASSUME NEW c \in chunks, ReleaseChunk(c), UNCHANGED sizes
        PROVE  IInv'
    <2>1. UNCHANGED <<page, current, block, blocks, misses, m_queue, small, overrun>>
      BY <1>9 DEF ReleaseChunk
    <2>2. /\ chunks' \subseteq Chunks /\ IsFiniteSet(chunks')
          /\ forgotten' \subseteq Chunks /\ IsFiniteSet(forgotten')
          /\ Fits(page)' /\ Layout'
      BY <1>1, <1>9, ReleaseChunkSafe DEF PoolInv
    <2>3. PoolTypes' /\ BlocksOK' /\ Patience'
      BY <1>1, <2>1, <2>2 DEF PoolInv, PoolTypes, BlocksOK, Patience, Credit
    <2> QED  BY <1>2, <1>4, <1>9, <2>1, <2>2, <2>3 DEF PoolInv
  <1>10. ASSUME NEW o \in blocks, RecycleBlock(o), UNCHANGED sizes
         PROVE  IInv'
    <2>1. UNCHANGED <<page, current, chunks, forgotten, misses, m_queue, small, overrun>>
      BY <1>10 DEF RecycleBlock
    <2>2. /\ block' \in Seq(Blocks) /\ blocks' \subseteq [index : 1..Len(block'), size : Nat]
          /\ Fits(page)' /\ Layout' /\ BlocksOK'
      BY <1>1, <1>10, RecycleBlockSafe DEF PoolInv
    <2>3. PoolTypes' /\ Patience'
      BY <1>1, <2>1, <2>2 DEF PoolInv, PoolTypes, Patience, Credit
    <2> QED  BY <1>2, <1>4, <1>10, <2>1, <2>2, <2>3 DEF PoolInv
  <1>11. CASE UNCHANGED vars
    BY <1>1, <1>2, <1>3, <1>4, <1>11 DEF vars
  <1>12. CASE CloseAllocater /\ UNCHANGED sizes
    BY <1>1, <1>12, CloseSafe
  <1> QED  BY <1>5, <1>6, <1>7, <1>8, <1>9, <1>10, <1>11, <1>12 DEF Next

(* The inductive invariant of the allocator (allocate.c:93-412) holds in
   every state.                                                              *)
THEOREM Invariance == Spec => []IInv
  <1>1. Init => IInv
    BY InitInv
  <1>2. IInv /\ [Next]_vars => IInv'
    BY NextInv
  <1> QED  BY <1>1, <1>2, PTL DEF Spec
-----------------------------------------------------------------------------
(* The queues, the pages and the blocks stay well formed through every
   sequence of calls of the allocator (allocate.h:17-97).                    *)
THEOREM TypeCorrect == Spec => []TypeOK
  <1>1. IInv => TypeOK
    BY DEF IInv, QueueTypes, PoolTypes, TypeOK
  <1> QED  BY <1>1, Invariance, PTL

(* No byte has two owners, although pages are rewound and nodes and blocks
   are handed out again (allocate.c:93-252 and 261-315): pieces, lost pieces
   and headers lie apart, and each header belongs to one block.              *)
THEOREM OwnersDisjoint == Spec => []Disjoint
  <1>1. IInv => Disjoint
    <2> SUFFICES ASSUME IInv PROVE Disjoint
      OBVIOUS
    <2>1. Fits(page) /\ Layout /\ BlocksOK /\ QueuesOK /\ PoolTypes
      BY DEF IInv
    <2>2. SizeofMemoryBlock \in Nat /\ SizeofMemoryBlock > 0
      BY AllocatorAssumption DEF AllocatorAssumption
    <2>3. /\ \A a \in Taken : a.start \in Nat /\ a.size \in Nat /\ a.size > 0
          /\ \A k \in DOMAIN block : block[k].start \in Nat
      <3>1. \A k \in 1..Len(block) : block[k] \in Blocks
        BY <2>1, ElementOfSeq DEF PoolTypes
      <3>2. DOMAIN block = 1..Len(block)
        BY <2>1, LenProperties DEF PoolTypes
      <3> QED  BY <2>1, <3>1, <3>2 DEF PoolTypes, Taken, Chunks, Blocks, Layout
    <2>4. \A k : /\ Header(k).page = block[k].page /\ Header(k).start = block[k].start
                 /\ Header(k).size = SizeofMemoryBlock
      BY DEF Header
    <2>5. \A a \in Taken, k \in DOMAIN block : a # Header(k)
      <3>1. TAKE a \in Taken, k \in DOMAIN block
      <3>2. Apart(a, Header(k))
        BY <2>1 DEF Layout
      <3> QED  BY <2>2, <2>3, <2>4, <3>2 DEF Apart
    <2>6. \A j, k \in DOMAIN block : Header(j) = Header(k) => j = k
      <3>1. TAKE j, k \in DOMAIN block
      <3>2. j # k => Apart(Header(j), Header(k))
        BY <2>1 DEF Layout
      <3> QED  BY <2>2, <2>3, <2>4, <3>2 DEF Apart
    <2>7. chunks \cap forgotten = {} /\ Headers \cap (chunks \cup forgotten) = {}
      BY <2>1, <2>5 DEF Layout, Headers, Taken
    <2>8. \A a \in Pieces : a \in Taken \/ \E k \in DOMAIN block : a = Header(k)
      BY DEF Pieces, Headers, Taken
    <2>9. \A a \in Pieces : a.page \in DOMAIN page /\ a.start + a.size <= page[a.page].last
      BY <2>1, <2>4, <2>8 DEF Fits
    <2>10. ASSUME NEW a \in Pieces, NEW b \in Pieces, a # b
           PROVE  Apart(a, b)
      <3>1. CASE a \in Taken /\ b \in Taken
        BY <2>1, <2>10, <3>1 DEF Layout
      <3>2. CASE a \in Taken /\ \E k \in DOMAIN block : b = Header(k)
        BY <2>1, <3>2 DEF Layout
      <3>3. CASE b \in Taken /\ \E k \in DOMAIN block : a = Header(k)
        <4>1. Apart(b, a)
          BY <2>1, <3>3 DEF Layout
        <4> QED  BY <4>1 DEF Apart
      <3>4. CASE (\E j \in DOMAIN block : a = Header(j)) /\ \E k \in DOMAIN block : b = Header(k)
        BY <2>1, <2>10, <3>4 DEF Layout
      <3> QED  BY <2>8, <3>1, <3>2, <3>3, <3>4
    <2>11. \A p \in DOMAIN page : page[p].last <= PageSize
      BY <2>1 DEF Fits
    <2>12. \A o \in small, i \in Indexes : \A k \in DOMAIN m_queue[i].chain :
             m_queue[i].chain[k].memory = o.memory => m_queue[i].chain[k].used
      BY <2>1 DEF QueuesOK
    <2>13. /\ \A o, p \in small : o.memory = p.memory => o = p
           /\ \A o, p \in blocks : o.index = p.index => o = p
           /\ \A o \in blocks : block[o.index].used
      BY <2>1 DEF QueuesOK, BlocksOK
    <2> QED  BY <2>6, <2>7, <2>9, <2>10, <2>11, <2>12, <2>13 DEF Disjoint, Apart
  <1> QED  BY <1>1, Invariance, PTL

(* The quote of a page counts what lies in it (allocate.c:122-133, 216-223). *)
THEOREM QuotesCount == Spec => []QuoteCounts
  <1>1. IInv => QuoteCounts
    BY DEF IInv, Fits, QuoteCounts, OnPage, HeadersOn, Taken
  <1> QED  BY <1>1, Invariance, PTL

(* What is handed out is as large as what was asked for, but for the first
   node of a queue (allocate.c:147-180 and 261-315).                         *)
THEOREM HandedOutLarge == Spec => []LargeEnough
  <1>1. IInv => LargeEnough
    BY DEF IInv, BlocksOK, QueuesOK, LargeEnough
  <1> QED  BY <1>1, Invariance, PTL

(* A pool that refuses moves on to another page (allocate.c:104-144).        *)
THEOREM PatienceHolds == Spec => []PatienceBounded
  <1>1. IInv => PatienceBounded
    <2> SUFFICES ASSUME IInv PROVE PatienceBounded
      OBVIOUS
    <2>1. page \in Seq(Pages) /\ misses \in Nat /\ Patience
      BY DEF IInv, PoolTypes
    <2> DEFINE x == (MaxFailedTimes + 1) * Len(page)
               y == Credit(page, current)
    <2>2. CASE page = <<>>
      <3>1. Len(page) = 0 /\ MaxFailedTimes \in Nat /\ misses <= 0
        BY <2>1, <2>2, AllocatorAssumption DEF AllocatorAssumption, Patience
      <3>2. (MaxFailedTimes + 1) * 0 = 0
        BY <3>1
      <3> QED  BY <3>1, <3>2 DEF PatienceBounded
    <2>3. CASE page # <<>>
      <3>1. misses <= y /\ current \in 1..Len(page)
        BY <2>1, <2>3 DEF Patience, IInv, PoolTypes
      <3>2. y \in Nat /\ y <= x
        BY <2>1, <3>1, CreditFacts
      <3>3. x \in Nat
        <4>1. MaxFailedTimes + 1 \in Nat /\ Len(page) \in Nat
          BY <2>1, LenProperties, AllocatorAssumption DEF AllocatorAssumption
        <4> QED  BY <4>1
      <3> HIDE DEF x, y
      <3>4. misses <= x
        BY <2>1, <3>1, <3>2, <3>3
      <3> QED  BY <3>4 DEF x, PatienceBounded
    <2> QED  BY <2>2, <2>3
  <1> QED  BY <1>1, Invariance, PTL
=============================================================================
