--------------------------- MODULE Library_proofs ---------------------------
(***************************************************************************)
(* Proofs about the parts of Library: the list is a sequence, the chains   *)
(* of the hash list are in order, the radix tree finds what was mounted,   *)
(* decryption inverts encryption, the network card's device lists are      *)
(* freed and its handle set, and the matrix calls give the sum, the        *)
(* product, the determinant, ... they are to give.  Each is proved of the  *)
(* part's own specification, for all constants, and then of Library.       *)
(***************************************************************************)
EXTENDS Library, Semaphore_proofs, FiniteSetTheorems, SequenceTheorems, WellFoundedInduction, TLAPS

-----------------------------------------------------------------------------
(* Every set of naturals that is not empty has a least element.              *)
LEMMA LeastNatural ==
  ASSUME NEW T \in SUBSET Nat, T # {}
  PROVE  \E x \in T : \A y \in T : x <= y
  <1> DEFINE R == OpToRel(<, Nat)
  <1>1. IsWellFoundedOn(R, Nat)
    BY NatLessThanWellFounded
  <1>2. \A x, y \in Nat : y < x => <<y, x>> \in R
    BY DEF OpToRel
  <1> HIDE DEF R
  <1>3. PICK x \in T : \A y \in T : ~(<<y, x>> \in R)
    BY <1>1, WFMin
  <1>4. \A y \in T : ~(y < x)
    BY <1>2, <1>3
  <1>5. \A y \in T : x <= y
    BY <1>4
  <1> QED  BY <1>5

(* The count of the root (unsigned item_counts) is compared modulo its width. *)
LEMMA Remainder ==
    ASSUME NEW W \in Nat \ {0}, NEW q \in Int, NEW r \in 0 .. W - 1, NEW a \in Int,
           a = q * W + r
    PROVE  a % W = r
  OBVIOUS

(* One more, modulo the width.                                              *)
LEMMA OneMore ==
    ASSUME NEW W \in Nat \ {0}, NEW a \in Int
    PROVE  (a + 1) % W = IF a % W = W - 1 THEN 0 ELSE (a % W) + 1
<1> DEFINE q == a \div W
           r == a % W
<1>1. q \in Int /\ r \in 0 .. W - 1 /\ a = q * W + r
  OBVIOUS
<1> HIDE DEF q, r
<1>2. CASE r = W - 1
  <2>1. a + 1 = (q + 1) * W + 0 /\ q + 1 \in Int /\ 0 \in 0 .. W - 1 /\ a + 1 \in Int
    BY <1>1, <1>2
  <2>2. (a + 1) % W = 0
    BY <2>1, Remainder
  <2> QED  BY <2>2, <1>2 DEF r
<1>3. CASE r # W - 1
  <2>1. a + 1 = q * W + (r + 1) /\ r + 1 \in 0 .. W - 1 /\ a + 1 \in Int
    BY <1>1, <1>3
  <2>2. (a + 1) % W = r + 1
    BY <2>1, <1>1, Remainder
  <2> QED  BY <2>2, <1>3 DEF r
<1> QED  BY <1>2, <1>3

(* Counts that agree modulo the width agree after one more.                 *)
LEMMA SameAfterOneMore ==
    ASSUME NEW W \in Nat \ {0}, NEW a \in Int, NEW b \in Int, a % W = b % W
    PROVE  (a + 1) % W = (b + 1) % W
  BY OneMore

(* Counts that agree modulo the width agreed before one more.               *)
LEMMA SameBeforeOneMore ==
    ASSUME NEW W \in Nat \ {0}, NEW a \in Int, NEW b \in Int, (a + 1) % W = (b + 1) % W
    PROVE  a % W = b % W
<1>1. a % W \in 0 .. W - 1 /\ b % W \in 0 .. W - 1
  OBVIOUS
<1>2. /\ (a + 1) % W = IF a % W = W - 1 THEN 0 ELSE (a % W) + 1
      /\ (b + 1) % W = IF b % W = W - 1 THEN 0 ELSE (b % W) + 1
  BY OneMore
<1> DEFINE x == a % W
           y == b % W
<1> HIDE DEF x, y
<1> QED  BY <1>1, <1>2 DEF x, y

(* item_counts++ and item_counts-- of an unsigned.                          *)
LEMMA Wraps ==
    ASSUME NEW W \in Nat \ {0}, NEW c \in 0 .. W - 1
    PROVE  /\ c % W = c
           /\ (c + 1) % W = IF c = W - 1 THEN 0 ELSE c + 1
           /\ (c + W - 1) % W = IF c = 0 THEN W - 1 ELSE c - 1
<1>1. c % W = c
  BY c = 0 * W + c, Remainder
<1>2. (c + 1) % W = IF c = W - 1 THEN 0 ELSE c + 1
  <2>1. c \in Int
    OBVIOUS
  <2>2. (c + 1) % W = IF c % W = W - 1 THEN 0 ELSE (c % W) + 1
    BY <2>1, OneMore
  <2> QED  BY <1>1, <2>2
<1>3. CASE c = 0
  BY <1>1, <1>2, <1>3, c + W - 1 = 0 * W + (W - 1), Remainder
<1>4. CASE c # 0
  BY <1>1, <1>2, <1>4, c + W - 1 = 1 * W + (c - 1), Remainder
<1> QED  BY <1>3, <1>4

(* item_counts-- is undone by one more.                                     *)
LEMMA OneLess ==
    ASSUME NEW W \in Nat \ {0}, NEW c \in 0 .. W - 1
    PROVE  (c + W - 1) % W \in 0 .. W - 1 /\ (((c + W - 1) % W) + 1) % W = c
<1> DEFINE d == (c + W - 1) % W
<1>1. d = IF c = 0 THEN W - 1 ELSE c - 1
  BY Wraps
<1> HIDE DEF d
<1>2. d \in 0 .. W - 1
  BY <1>1
<1>3. (d + 1) % W = IF d = W - 1 THEN 0 ELSE d + 1
  BY <1>2, Wraps
<1>4. (d + 1) % W = c
  BY <1>1, <1>3
<1> QED  BY <1>2, <1>4 DEF d

-----------------------------------------------------------------------------
(* The list of link.c: h and t its ends, pv and nx the fields of the nodes,
   holds the nodes q in that order.                                          *)
Holds(q, num, h, t, pv, nx) ==
  /\ num \in Nat
  /\ q \in [1 .. num -> Nodes]
  /\ \A i, j \in 1 .. num : q[i] = q[j] => i = j
  /\ h = IF num = 0 THEN NULL ELSE q[1]
  /\ t = IF num = 0 THEN NULL ELSE q[num]
  /\ \A i \in 1 .. num : nx[q[i]] = IF i = num THEN NULL ELSE q[i + 1]
  /\ \A i \in 1 .. num : pv[q[i]] = IF i = 1 THEN NULL ELSE q[i - 1]
  /\ pv \in [Nodes -> Pointers]
  /\ nx \in [Nodes -> Pointers]

\* The nodes of the list in their order, as its walk finds them.
Order == [i \in 1 .. s_num |-> cursor[i - 1]]

ListInv == got \in Pointers /\ Holds(Order, s_num, s_headnode, s_tailnode, prev, next)

(* There are finitely many nodes, and NULL is none of them.                 *)
LEMMA ListConstants == IsFiniteSet(Nodes) /\ Cardinality(Nodes) \in Nat /\ NULL \notin Nodes
<1>1. IsFiniteSet(Nodes) /\ NULL \notin Nodes
  BY LinklistAssumption
<1> QED  BY <1>1, FS_CardinalityType

(* A list has no more nodes than there are.                                 *)
LEMMA ListShort ==
    ASSUME NEW num \in Nat, NEW q \in [1 .. num -> Nodes],
           \A i, j \in 1 .. num : q[i] = q[j] => i = j
    PROVE  num <= Cardinality(Nodes)
<1>1. Cardinality(1 .. num) = num /\ IsFiniteSet(1 .. num)
  <2>1. 1 \in Int /\ num \in Int
    OBVIOUS
  <2>2. Cardinality(1 .. num) = IF 1 > num THEN 0 ELSE num - 1 + 1
    BY <2>1, FS_Interval
  <2>3. IsFiniteSet(1 .. num)
    BY <2>1, FS_Interval
  <2> QED  BY <2>2, <2>3
<1>2. ~(Cardinality(Nodes) < Cardinality(1 .. num))
  BY <1>1, ListConstants, FS_PigeonHole
<1> QED  BY <1>1, <1>2, ListConstants

(* `while(ptr) ptr = ptr->next` meets the nodes of the list in their order,
   then NULL.                                                                *)
LEMMA WalkMeets ==
    ASSUME NEW q, NEW num, NEW h, NEW t, NEW pv, NEW nx, Holds(q, num, h, t, pv, nx), NEW c,
           c = CHOOSE f : f = [i \in 0 .. Cardinality(Nodes) |->
                  IF i = 0 THEN h ELSE IF f[i - 1] = NULL THEN NULL ELSE nx[f[i - 1]]]
    PROVE  \A i \in 0 .. Cardinality(Nodes) : c[i] = IF i < num THEN q[i + 1] ELSE NULL
<1> DEFINE N == Cardinality(Nodes)
           w == [i \in 0 .. N |-> IF i < num THEN q[i + 1] ELSE NULL]
           Walk(f) == f = [i \in 0 .. N |->
                  IF i = 0 THEN h ELSE IF f[i - 1] = NULL THEN NULL ELSE nx[f[i - 1]]]
<1>1. /\ num \in Nat /\ q \in [1 .. num -> Nodes] /\ N \in Nat /\ NULL \notin Nodes
      /\ h = IF num = 0 THEN NULL ELSE q[1]
  BY ListConstants DEF Holds
<1>2. ASSUME NEW i \in 1 .. num  PROVE nx[q[i]] = IF i = num THEN NULL ELSE q[i + 1]
  BY DEF Holds
<1>3. ASSUME NEW i \in 0 .. N
      PROVE  w[i] = IF i = 0 THEN h ELSE IF w[i - 1] = NULL THEN NULL ELSE nx[w[i - 1]]
  <2> HIDE DEF N
  <2>1. CASE i = 0
    BY <1>1, <2>1
  <2>2. CASE i > 0 /\ i - 1 < num
    <3>1. w[i - 1] = q[i] /\ i \in 1 .. num
      BY <1>1, <2>2
    <3>2. w[i - 1] # NULL
      BY <1>1, <3>1
    <3>3. w[i] = nx[q[i]]
      BY <1>1, <1>2, <2>2, <3>1
    <3> HIDE DEF w
    <3> QED  BY <2>2, <3>1, <3>2, <3>3
  <2>3. CASE i > 0 /\ ~(i - 1 < num)
    BY <1>1, <2>3
  <2> QED  BY <1>1, <2>1, <2>2, <2>3
<1>4. Walk(w)
  <2> DEFINE u == [i \in 0 .. N |->
                  IF i = 0 THEN h ELSE IF w[i - 1] = NULL THEN NULL ELSE nx[w[i - 1]]]
  <2>1. \A i \in 0 .. N : w[i] = u[i]
    BY <1>3
  <2>2. w = u
    BY <2>1
  <2> QED  BY <2>2
<1>5. Walk(c)
  <2> HIDE DEF w
  <2>1. c = CHOOSE f : Walk(f)
    OBVIOUS
  <2> HIDE DEF Walk
  <2> QED  BY <1>4, <2>1, Zenon
<1>6. ASSUME NEW i \in 0 .. N
      PROVE  c[i] = IF i = 0 THEN h ELSE IF c[i - 1] = NULL THEN NULL ELSE nx[c[i - 1]]
  <2> HIDE DEF N, w
  <2>1. c = [j \in 0 .. N |-> IF j = 0 THEN h ELSE IF c[j - 1] = NULL THEN NULL ELSE nx[c[j - 1]]]
    BY <1>5, Zenon
  <2> DEFINE d == [j \in 0 .. N |-> IF j = 0 THEN h ELSE IF c[j - 1] = NULL THEN NULL ELSE nx[c[j - 1]]]
  <2>2. d[i] = IF i = 0 THEN h ELSE IF c[i - 1] = NULL THEN NULL ELSE nx[c[i - 1]]
    OBVIOUS
  <2> QED  BY <2>1, <2>2
<1> DEFINE Bad == {i \in 0 .. N : c[i] # w[i]}
<1>7. Bad = {}
  <2> SUFFICES ASSUME Bad # {}  PROVE FALSE
    OBVIOUS
  <2>1. Bad \in SUBSET Nat
    OBVIOUS
  <2>2. PICK m \in Bad : \A i \in Bad : m <= i
    BY <2>1, LeastNatural
  <2>3. m \in 0 .. N /\ c[m] # w[m]
    BY <2>2
  <2>4. CASE m = 0
    BY <1>3, <1>6, <2>3, <2>4
  <2>5. CASE m > 0
    <3>1. m - 1 \in 0 .. N /\ m - 1 \notin Bad
      BY <1>1, <2>2, <2>3, <2>5
    <3>2. c[m - 1] = w[m - 1]
      BY <3>1
    <3> QED  BY <1>3, <1>6, <2>3, <2>5, <3>2
  <2> QED  BY <1>1, <2>3, <2>4, <2>5
<1>8. ASSUME NEW i \in 0 .. N  PROVE c[i] = w[i]
  BY <1>7
<1> QED  BY <1>8

(* So the order of the walk is the order of the list.                       *)
LEMMA OrderIs ==
    ASSUME NEW q, Holds(q, s_num, s_headnode, s_tailnode, prev, next)
    PROVE  /\ \A i \in 0 .. Cardinality(Nodes) : cursor[i] = IF i < s_num THEN q[i + 1] ELSE NULL
           /\ Order = q /\ s_num <= Cardinality(Nodes)
<1>1. \A i \in 0 .. Cardinality(Nodes) : cursor[i] = IF i < s_num THEN q[i + 1] ELSE NULL
  BY WalkMeets DEF cursor
<1>2. s_num \in Nat /\ q \in [1 .. s_num -> Nodes] /\ s_num <= Cardinality(Nodes)
  BY ListShort DEF Holds
<1>3. \A i \in 1 .. s_num : cursor[i - 1] = q[i]
  BY <1>1, <1>2, ListConstants
<1>4. Order = q
  BY <1>2, <1>3 DEF Order
<1> QED  BY <1>1, <1>2, <1>4

(* The same of the state after a step.                                      *)
LEMMA OrderIsNext ==
    ASSUME NEW q, Holds(q, s_num', s_headnode', s_tailnode', prev', next')
    PROVE  Order' = q
<1>1. \A i \in 0 .. Cardinality(Nodes) : cursor'[i] = IF i < s_num' THEN q[i + 1] ELSE NULL
  BY WalkMeets DEF cursor
<1>2. s_num' \in Nat /\ q \in [1 .. s_num' -> Nodes] /\ s_num' <= Cardinality(Nodes)
  BY ListShort DEF Holds
<1>3. \A i \in 1 .. s_num' : cursor'[i - 1] = q[i]
  BY <1>1, <1>2, ListConstants
<1>4. Order' = q
  BY <1>2, <1>3 DEF Order
<1> QED  BY <1>4

(* The nodes the walk meets are those of the list.                          *)
LEMMA ReachedIs ==
    ASSUME ListInv
    PROVE  Reached = {Order[i] : i \in 1 .. s_num}
<1>1. /\ s_num \in Nat /\ Order \in [1 .. s_num -> Nodes] /\ s_num <= Cardinality(Nodes)
      /\ \A i \in 0 .. Cardinality(Nodes) : cursor[i] = IF i < s_num THEN Order[i + 1] ELSE NULL
  BY OrderIs DEF ListInv, Holds
<1>2. Cardinality(Nodes) \in Nat /\ NULL \notin Nodes
  BY ListConstants
<1> DEFINE N == Cardinality(Nodes)
<1> HIDE DEF N
<1>3. ASSUME NEW x \in Reached  PROVE x \in {Order[i] : i \in 1 .. s_num}
  <2>1. PICK i \in 0 .. N : x = cursor[i] /\ x # NULL
    BY DEF Reached, N
  <2>2. i + 1 \in 1 .. s_num /\ x = Order[i + 1]
    BY <1>1, <1>2, <2>1 DEF N
  <2> QED  BY <2>2
<1>4. ASSUME NEW i \in 1 .. s_num  PROVE Order[i] \in Reached
  <2>1. i - 1 \in 0 .. N /\ cursor[i - 1] = Order[i] /\ Order[i] # NULL
    BY <1>1, <1>2 DEF N
  <2> QED  BY <2>1 DEF Reached, N
<1> QED  BY <1>3, <1>4

(* What ListInv says, one fact at a time.                                   *)
LEMMA ListFacts ==
    ASSUME ListInv
    PROVE  /\ s_num \in Nat /\ Order \in [1 .. s_num -> Nodes]
           /\ \A i, j \in 1 .. s_num : Order[i] = Order[j] => i = j
           /\ s_headnode = IF s_num = 0 THEN NULL ELSE Order[1]
           /\ s_tailnode = IF s_num = 0 THEN NULL ELSE Order[s_num]
           /\ \A i \in 1 .. s_num : next[Order[i]] = IF i = s_num THEN NULL ELSE Order[i + 1]
           /\ \A i \in 1 .. s_num : prev[Order[i]] = IF i = 1 THEN NULL ELSE Order[i - 1]
           /\ prev \in [Nodes -> Pointers] /\ next \in [Nodes -> Pointers]
           /\ NULL \notin Nodes /\ NULL \in Pointers /\ Nodes \subseteq Pointers
  BY ListConstants DEF ListInv, Holds, Pointers

(* InitLinklist makes the empty list, whatever the nodes hold.              *)
LEMMA ListInit == Init => ListInv /\ Order = << >>
<1> SUFFICES ASSUME Init  PROVE ListInv /\ Order = << >>
  OBVIOUS
<1> DEFINE q == [i \in 1 .. 0 |-> NULL]
<1>1. q \in [1 .. 0 -> Nodes] /\ q = << >>
  OBVIOUS
<1>2. Holds(q, s_num, s_headnode, s_tailnode, prev, next)
  BY <1>1 DEF Init, Holds, Pointers
<1>3. Order = q
  BY <1>2, OrderIs
<1>4. got \in Pointers
  BY DEF Init, Pointers
<1> QED  BY <1>1, <1>2, <1>3, <1>4 DEF ListInv

(* AddLinklistnodeHead puts the node before the others (link.c).            *)
LEMMA AddHeadHolds ==
    ASSUME ListInv, NEW n \in Nodes, AddLinklistnodeHead(n)
    PROVE  /\ \A i \in 1 .. s_num : Order[i] # n
           /\ Holds([i \in 1 .. s_num + 1 |-> IF i = 1 THEN n ELSE Order[i - 1]],
                    s_num', s_headnode', s_tailnode', prev', next')
<1> DEFINE Q == Order
           q == [i \in 1 .. s_num + 1 |-> IF i = 1 THEN n ELSE Q[i - 1]]
<1>1. \A i \in 1 .. s_num : Q[i] # n
  BY ReachedIs DEF AddLinklistnodeHead, Outside
<1>2. /\ s_num \in Nat /\ Q \in [1 .. s_num -> Nodes]
      /\ \A i, j \in 1 .. s_num : Q[i] = Q[j] => i = j
      /\ s_headnode = IF s_num = 0 THEN NULL ELSE Q[1]
      /\ s_tailnode = IF s_num = 0 THEN NULL ELSE Q[s_num]
      /\ prev \in [Nodes -> Pointers] /\ next \in [Nodes -> Pointers]
      /\ NULL \notin Nodes /\ NULL \in Pointers /\ Nodes \subseteq Pointers
  BY ListFacts
<1>3. ASSUME NEW i \in 1 .. s_num
      PROVE  /\ next[Q[i]] = IF i = s_num THEN NULL ELSE Q[i + 1]
             /\ prev[Q[i]] = IF i = 1 THEN NULL ELSE Q[i - 1]
  BY ListFacts
<1>4. /\ next' = [next EXCEPT ![n] = s_headnode]
      /\ prev' = IF s_num = 0 THEN [prev EXCEPT ![n] = NULL]
                 ELSE [prev EXCEPT ![n] = NULL, ![s_headnode] = n]
      /\ s_headnode' = n
      /\ s_tailnode' = IF s_num = 0 THEN n ELSE s_tailnode
      /\ s_num' = s_num + 1
  BY DEF AddLinklistnodeHead
<1> HIDE DEF Q
<1>5. s_headnode \in Pointers /\ (s_num # 0 => s_headnode \in Nodes /\ s_headnode # n)
  BY <1>1, <1>2
<1>6. prev' \in [Nodes -> Pointers] /\ next' \in [Nodes -> Pointers]
  BY <1>2, <1>4, <1>5
<1>7. q \in [1 .. s_num' -> Nodes]
  BY <1>2, <1>4
<1>8. \A i \in 1 .. s_num' : q[i] = IF i = 1 THEN n ELSE Q[i - 1]
  BY <1>4
<1> HIDE DEF q
<1>9. ASSUME NEW i \in 1 .. s_num', NEW j \in 1 .. s_num', q[i] = q[j]  PROVE i = j
  BY <1>1, <1>2, <1>4, <1>8, <1>9
<1>10. q[1] = n /\ 1 \in 1 .. s_num' /\ s_num' # 0
  BY <1>2, <1>4, <1>8
<1>11. s_tailnode' = q[s_num']
  BY <1>2, <1>4, <1>8
<1>12. ASSUME NEW i \in 1 .. s_num'
       PROVE  next'[q[i]] = IF i = s_num' THEN NULL ELSE q[i + 1]
  <2>1. CASE i = 1
    BY <1>2, <1>4, <1>8, <2>1
  <2>2. CASE i # 1
    <3>1. i - 1 \in 1 .. s_num /\ q[i] = Q[i - 1]
      BY <1>2, <1>4, <1>8, <2>2
    <3>2. next'[q[i]] = next[Q[i - 1]]
      BY <1>1, <1>2, <1>4, <3>1
    <3> QED  BY <1>2, <1>3, <1>4, <1>8, <2>2, <3>1, <3>2
  <2> QED  BY <2>1, <2>2
<1>13. ASSUME NEW i \in 1 .. s_num'
       PROVE  prev'[q[i]] = IF i = 1 THEN NULL ELSE q[i - 1]
  <2>1. CASE i = 1
    BY <1>2, <1>4, <1>5, <1>8, <2>1
  <2>2. CASE i = 2
    BY <1>2, <1>4, <1>5, <1>8, <2>2
  <2>3. CASE i > 2
    <3>1. i - 1 \in 1 .. s_num /\ q[i] = Q[i - 1] /\ i - 1 # 1 /\ 1 \in 1 .. s_num
      BY <1>2, <1>4, <1>8, <2>3
    <3>2. Q[i - 1] # n /\ Q[i - 1] # s_headnode /\ Q[i - 1] \in Nodes
      BY <1>1, <1>2, <3>1
    <3>3. prev'[q[i]] = prev[Q[i - 1]]
      BY <1>2, <1>4, <1>5, <3>1, <3>2
    <3> QED  BY <1>2, <1>3, <1>4, <1>8, <2>3, <3>1, <3>3
  <2> QED  BY <2>1, <2>2, <2>3, <1>2, <1>4
<1>14. s_num' \in Nat
  BY <1>2, <1>4
<1>15. Holds(q, s_num', s_headnode', s_tailnode', prev', next')
  BY <1>4, <1>6, <1>7, <1>9, <1>10, <1>11, <1>12, <1>13, <1>14 DEF Holds
<1> QED  BY <1>1, <1>15 DEF q, Q

(* AddLinklistnodeTail puts the node after the others (link.c).             *)
LEMMA AddTailHolds ==
    ASSUME ListInv, NEW n \in Nodes, AddLinklistnodeTail(n)
    PROVE  /\ \A i \in 1 .. s_num : Order[i] # n
           /\ Holds([i \in 1 .. s_num + 1 |-> IF i = s_num + 1 THEN n ELSE Order[i]],
                    s_num', s_headnode', s_tailnode', prev', next')
<1> DEFINE Q == Order
           q == [i \in 1 .. s_num + 1 |-> IF i = s_num + 1 THEN n ELSE Q[i]]
<1>1. \A i \in 1 .. s_num : Q[i] # n
  BY ReachedIs DEF AddLinklistnodeTail, Outside
<1>2. /\ s_num \in Nat /\ Q \in [1 .. s_num -> Nodes]
      /\ \A i, j \in 1 .. s_num : Q[i] = Q[j] => i = j
      /\ s_headnode = IF s_num = 0 THEN NULL ELSE Q[1]
      /\ s_tailnode = IF s_num = 0 THEN NULL ELSE Q[s_num]
      /\ prev \in [Nodes -> Pointers] /\ next \in [Nodes -> Pointers]
      /\ NULL \notin Nodes /\ NULL \in Pointers /\ Nodes \subseteq Pointers
  BY ListFacts
<1>3. ASSUME NEW i \in 1 .. s_num
      PROVE  /\ next[Q[i]] = IF i = s_num THEN NULL ELSE Q[i + 1]
             /\ prev[Q[i]] = IF i = 1 THEN NULL ELSE Q[i - 1]
  BY ListFacts
<1>4. /\ prev' = [prev EXCEPT ![n] = s_tailnode]
      /\ next' = IF s_num = 0 THEN [next EXCEPT ![n] = NULL]
                 ELSE [next EXCEPT ![n] = NULL, ![s_tailnode] = n]
      /\ s_headnode' = IF s_num = 0 THEN n ELSE s_headnode
      /\ s_tailnode' = n
      /\ s_num' = s_num + 1
  BY DEF AddLinklistnodeTail
<1> HIDE DEF Q
<1>5. s_tailnode \in Pointers /\ (s_num # 0 => s_tailnode \in Nodes /\ s_tailnode # n)
  BY <1>1, <1>2
<1>6. prev' \in [Nodes -> Pointers] /\ next' \in [Nodes -> Pointers]
  BY <1>2, <1>4, <1>5
<1>7. q \in [1 .. s_num' -> Nodes]
  BY <1>2, <1>4
<1>8. \A i \in 1 .. s_num' : q[i] = IF i = s_num + 1 THEN n ELSE Q[i]
  BY <1>4
<1> HIDE DEF q
<1>9. ASSUME NEW i \in 1 .. s_num', NEW j \in 1 .. s_num', q[i] = q[j]  PROVE i = j
  BY <1>1, <1>2, <1>4, <1>8, <1>9
<1>10. q[s_num'] = n /\ s_num' \in 1 .. s_num' /\ s_num' # 0
  BY <1>2, <1>4, <1>8
<1>11. s_headnode' = q[1]
  BY <1>2, <1>4, <1>8
<1>12. ASSUME NEW i \in 1 .. s_num'
       PROVE  next'[q[i]] = IF i = s_num' THEN NULL ELSE q[i + 1]
  <2>1. CASE i = s_num + 1
    BY <1>2, <1>4, <1>5, <1>8, <2>1
  <2>2. CASE i = s_num
    <3>1. q[i] = s_tailnode /\ q[i + 1] = n /\ s_num # 0
      BY <1>2, <1>4, <1>8, <2>2
    <3> QED  BY <1>2, <1>4, <1>5, <2>2, <3>1
  <2>3. CASE i < s_num
    <3>1. q[i] = Q[i] /\ q[i + 1] = Q[i + 1] /\ i \in 1 .. s_num /\ s_num \in 1 .. s_num
      BY <1>2, <1>4, <1>8, <2>3
    <3>2. Q[i] # n /\ Q[i] # s_tailnode /\ Q[i] \in Nodes
      BY <1>1, <1>2, <2>3, <3>1
    <3>3. next'[q[i]] = next[Q[i]]
      BY <1>2, <1>4, <1>5, <3>1, <3>2
    <3> QED  BY <1>2, <1>3, <1>4, <2>3, <3>1, <3>3
  <2> QED  BY <2>1, <2>2, <2>3, <1>2, <1>4
<1>13. ASSUME NEW i \in 1 .. s_num'
       PROVE  prev'[q[i]] = IF i = 1 THEN NULL ELSE q[i - 1]
  <2>1. CASE i = s_num + 1
    BY <1>2, <1>4, <1>8, <2>1
  <2>2. CASE i # s_num + 1
    <3>1. i \in 1 .. s_num /\ q[i] = Q[i]
      BY <1>2, <1>4, <1>8, <2>2
    <3>2. prev'[q[i]] = prev[Q[i]]
      BY <1>1, <1>2, <1>4, <3>1
    <3> QED  BY <1>2, <1>3, <1>4, <1>8, <2>2, <3>1, <3>2
  <2> QED  BY <2>1, <2>2
<1>14. s_num' \in Nat
  BY <1>2, <1>4
<1>15. Holds(q, s_num', s_headnode', s_tailnode', prev', next')
  BY <1>4, <1>6, <1>7, <1>9, <1>10, <1>11, <1>12, <1>13, <1>14 DEF Holds
<1> QED  BY <1>1, <1>15 DEF q, Q

\* What DeleteLinklistnode and GetoutHeadnode do to the chain.
Unlinked(n) ==
  /\ IF next[n] # NULL THEN /\ prev' = [prev EXCEPT ![next[n]] = prev[n]]
                            /\ s_tailnode' = s_tailnode
                       ELSE s_tailnode' = prev[n] /\ prev' = prev
  /\ IF prev[n] # NULL THEN /\ next' = [next EXCEPT ![prev[n]] = next[n]]
                            /\ s_headnode' = s_headnode
                       ELSE s_headnode' = next[n] /\ next' = next
  /\ s_num' = s_num - 1

(* DeleteLinklistnode takes the node it found out of the chain (link.c).    *)
LEMMA UnlinkHolds ==
    ASSUME ListInv, NEW k \in 1 .. s_num, Unlinked(Order[k])
    PROVE  Holds([i \in 1 .. s_num - 1 |-> IF i < k THEN Order[i] ELSE Order[i + 1]],
                 s_num', s_headnode', s_tailnode', prev', next')
<1> DEFINE Q == Order
           n == Order[k]
           q == [i \in 1 .. s_num - 1 |-> IF i < k THEN Q[i] ELSE Q[i + 1]]
<1>1. /\ s_num \in Nat /\ Q \in [1 .. s_num -> Nodes]
      /\ s_headnode = IF s_num = 0 THEN NULL ELSE Q[1]
      /\ s_tailnode = IF s_num = 0 THEN NULL ELSE Q[s_num]
      /\ prev \in [Nodes -> Pointers] /\ next \in [Nodes -> Pointers]
      /\ NULL \notin Nodes /\ NULL \in Pointers /\ Nodes \subseteq Pointers
  BY ListFacts
<1>2. \A i, j \in 1 .. s_num : Q[i] = Q[j] => i = j
  BY ListFacts
<1>3. \A i \in 1 .. s_num :
             /\ next[Q[i]] = IF i = s_num THEN NULL ELSE Q[i + 1]
             /\ prev[Q[i]] = IF i = 1 THEN NULL ELSE Q[i - 1]
  BY ListFacts
<1>4. /\ IF next[n] # NULL THEN /\ prev' = [prev EXCEPT ![next[n]] = prev[n]]
                                /\ s_tailnode' = s_tailnode
                           ELSE s_tailnode' = prev[n] /\ prev' = prev
      /\ IF prev[n] # NULL THEN /\ next' = [next EXCEPT ![prev[n]] = next[n]]
                                /\ s_headnode' = s_headnode
                           ELSE s_headnode' = next[n] /\ next' = next
      /\ s_num' = s_num - 1
  BY DEF Unlinked
<1>5. n = Q[k]
  OBVIOUS
<1> HIDE DEF Q, n
<1>6. /\ n \in Nodes
      /\ next[n] = IF k = s_num THEN NULL ELSE Q[k + 1]
      /\ prev[n] = IF k = 1 THEN NULL ELSE Q[k - 1]
      /\ k # s_num => Q[k + 1] \in Nodes
      /\ k # 1 => Q[k - 1] \in Nodes
  BY <1>1, <1>3, <1>5
<1>7. /\ IF k = s_num THEN prev' = prev /\ s_tailnode' = prev[n]
         ELSE prev' = [prev EXCEPT ![Q[k + 1]] = prev[n]] /\ s_tailnode' = s_tailnode
      /\ IF k = 1 THEN next' = next /\ s_headnode' = next[n]
         ELSE next' = [next EXCEPT ![Q[k - 1]] = next[n]] /\ s_headnode' = s_headnode
  BY <1>1, <1>4, <1>6
<1>8. next[n] \in Pointers /\ prev[n] \in Pointers
  BY <1>1, <1>6
<1>9. prev' \in [Nodes -> Pointers] /\ next' \in [Nodes -> Pointers]
  BY <1>1, <1>7, <1>8
<1>10. q \in [1 .. s_num' -> Nodes] /\ s_num' \in Nat /\ s_num \in Nat /\ s_num' = s_num - 1
  BY <1>1, <1>4
<1>11. \A i \in 1 .. s_num' : q[i] = IF i < k THEN Q[i] ELSE Q[i + 1]
  BY <1>4
<1> HIDE DEF q
<1>12. ASSUME NEW i \in 1 .. s_num', NEW j \in 1 .. s_num', q[i] = q[j]  PROVE i = j
  BY <1>2, <1>10, <1>11, <1>12
<1>13. s_headnode' = IF s_num' = 0 THEN NULL ELSE q[1]
  BY <1>1, <1>6, <1>7, <1>10, <1>11
<1>14. s_tailnode' = IF s_num' = 0 THEN NULL ELSE q[s_num']
  BY <1>1, <1>6, <1>7, <1>10, <1>11
<1>15. ASSUME NEW i \in 1 .. s_num'
       PROVE  next'[q[i]] = IF i = s_num' THEN NULL ELSE q[i + 1]
  <2>1. CASE i = k - 1
    <3>1. q[i] = Q[k - 1] /\ k # 1 /\ next'[q[i]] = next[n]
      BY <1>1, <1>6, <1>7, <1>10, <1>11, <2>1
    <3> QED  BY <1>6, <1>10, <1>11, <2>1, <3>1
  <2>2. CASE i # k - 1
    <3> DEFINE m == IF i < k THEN i ELSE i + 1
    <3>1. m \in 1 .. s_num /\ m # k - 1 /\ q[i] = Q[m]
      BY <1>10, <1>11, <2>2
    <3>2. next'[q[i]] = next[Q[m]]
      <4> HIDE DEF m
      <4>1. k # 1 => Q[m] # Q[k - 1]
        BY <1>2, <1>10, <3>1
      <4>2. Q[m] \in Nodes
        BY <1>1, <3>1
      <4> QED  BY <1>1, <1>6, <1>7, <3>1, <4>1, <4>2
    <3>3. next[Q[m]] = IF m = s_num THEN NULL ELSE Q[m + 1]
      <4> HIDE DEF m
      <4> QED  BY <1>3, <3>1
    <3>4. (IF m = s_num THEN NULL ELSE Q[m + 1]) = IF i = s_num' THEN NULL ELSE q[i + 1]
      BY <1>10, <1>11, <2>2
    <3> QED  BY <3>2, <3>3, <3>4
  <2> QED  BY <2>1, <2>2
<1>16. ASSUME NEW i \in 1 .. s_num'
       PROVE  prev'[q[i]] = IF i = 1 THEN NULL ELSE q[i - 1]
  <2>1. CASE i = k
    <3>1. q[i] = Q[k + 1] /\ k # s_num /\ prev'[q[i]] = prev[n]
      BY <1>1, <1>6, <1>7, <1>10, <1>11, <2>1
    <3> QED  BY <1>6, <1>10, <1>11, <2>1, <3>1
  <2>2. CASE i # k
    <3> DEFINE m == IF i < k THEN i ELSE i + 1
    <3>1. m \in 1 .. s_num /\ m # k + 1 /\ q[i] = Q[m]
      BY <1>10, <1>11, <2>2
    <3>2. prev'[q[i]] = prev[Q[m]]
      <4> HIDE DEF m
      <4>1. k # s_num => Q[m] # Q[k + 1]
        BY <1>2, <1>10, <3>1
      <4>2. Q[m] \in Nodes
        BY <1>1, <3>1
      <4> QED  BY <1>1, <1>6, <1>7, <3>1, <4>1, <4>2
    <3>3. prev[Q[m]] = IF m = 1 THEN NULL ELSE Q[m - 1]
      <4> HIDE DEF m
      <4> QED  BY <1>3, <3>1
    <3>4. (IF m = 1 THEN NULL ELSE Q[m - 1]) = IF i = 1 THEN NULL ELSE q[i - 1]
      BY <1>10, <1>11, <2>2
    <3> QED  BY <3>2, <3>3, <3>4
  <2> QED  BY <2>1, <2>2
<1>17. Holds(q, s_num', s_headnode', s_tailnode', prev', next')
  BY <1>9, <1>10, <1>12, <1>13, <1>14, <1>15, <1>16 DEF Holds
<1> QED  BY <1>17 DEF q, Q

(* A node of the list has a place in its order, any other none.             *)
LEMMA ReachedPlace ==
    ASSUME ListInv, NEW n \in Nodes
    PROVE  n \in Reached <=> \E k \in 1 .. s_num : Order[k] = n
  BY ReachedIs

(* GetoutHeadnode takes the first node out of the chain (link.c).           *)
LEMMA GetoutUnlinks ==
    ASSUME ListInv, GetoutHeadnode
    PROVE  \/ s_num = 0 /\ got' = NULL /\ UNCHANGED <<s_num, s_headnode, s_tailnode, prev, next>>
           \/ s_num # 0 /\ got' = Order[1] /\ Unlinked(Order[1])
<1> USE ListFacts
<1>1. CASE s_num = 0
  BY <1>1 DEF GetoutHeadnode
<1>2. CASE s_num # 0
  <2>1. /\ got' = s_headnode
        /\ IF next[s_headnode] # NULL
           THEN prev' = [prev EXCEPT ![next[s_headnode]] = NULL] /\ s_tailnode' = s_tailnode
           ELSE s_tailnode' = NULL /\ prev' = prev
        /\ s_headnode' = next[s_headnode]
        /\ s_num' = s_num - 1
        /\ next' = next
    BY <1>2 DEF GetoutHeadnode
  <2>2. 1 \in 1 .. s_num /\ s_headnode = Order[1] /\ prev[Order[1]] = NULL
    BY <1>2
  <2> QED  BY <1>2, <2>1, <2>2 DEF Unlinked
<1> QED  BY <1>1, <1>2

\* Each step on the list is one on its order, or leaves the order as it is.
ListMoves ==
  \/ \E n \in Nodes :
       /\ \A i \in 1 .. s_num : Order[i] # n
       /\ s_num' = s_num + 1
       /\ \/ Order' = [i \in 1 .. s_num + 1 |-> IF i = 1 THEN n ELSE Order[i - 1]]
          \/ Order' = [i \in 1 .. s_num + 1 |-> IF i = s_num + 1 THEN n ELSE Order[i]]
       /\ got' = got
  \/ \E k \in 1 .. s_num :
       /\ s_num' = s_num - 1
       /\ Order' = [i \in 1 .. s_num - 1 |-> IF i < k THEN Order[i] ELSE Order[i + 1]]
       /\ got' = got \/ (k = 1 /\ got' = Order[1])
  \/ \E n \in Nodes : /\ \A i \in 1 .. s_num : Order[i] # n
                      /\ s_num' = s_num /\ Order' = Order /\ got' = got
  \/ s_num = 0 /\ s_num' = s_num /\ Order' = Order /\ got' = NULL

(* A step whose chain holds some nodes keeps the invariant.                 *)
LEMMA HoldsNext ==
    ASSUME NEW q, Holds(q, s_num', s_headnode', s_tailnode', prev', next'), got' \in Pointers
    PROVE  ListInv' /\ Order' = q
  BY OrderIsNext DEF ListInv

(* Nothing moves when the chain does not.                                   *)
LEMMA SameChain ==
    ASSUME ListInv, UNCHANGED <<s_num, s_headnode, s_tailnode, prev, next>>, got' \in Pointers
    PROVE  ListInv' /\ Order' = Order
<1>1. Holds(Order, s_num', s_headnode', s_tailnode', prev', next')
  BY DEF ListInv
<1> QED  BY <1>1, HoldsNext

(* Every call of link.c keeps the chain, and moves the sequence of its nodes as
   ListMoves says (link.c:24-117).                                           *)
LEMMA ListStep ==
    ASSUME ListInv, Next
    PROVE  ListInv' /\ ListMoves
<1>0. got \in Pointers
  BY DEF ListInv
<1>1. CASE \E n \in Nodes : AddLinklistnodeHead(n)
  <2>1. PICK n \in Nodes : AddLinklistnodeHead(n)
    BY <1>1
  <2>2. got' = got /\ s_num' = s_num + 1
    BY <2>1 DEF AddLinklistnodeHead
  <2>3. /\ \A i \in 1 .. s_num : Order[i] # n
        /\ ListInv'
        /\ Order' = [i \in 1 .. s_num + 1 |-> IF i = 1 THEN n ELSE Order[i - 1]]
    BY <1>0, <2>1, <2>2, AddHeadHolds, HoldsNext
  <2> QED  BY <2>2, <2>3, Zenon DEF ListMoves
<1>2. CASE \E n \in Nodes : AddLinklistnodeTail(n)
  <2>1. PICK n \in Nodes : AddLinklistnodeTail(n)
    BY <1>2
  <2>2. got' = got /\ s_num' = s_num + 1
    BY <2>1 DEF AddLinklistnodeTail
  <2>3. /\ \A i \in 1 .. s_num : Order[i] # n
        /\ ListInv'
        /\ Order' = [i \in 1 .. s_num + 1 |-> IF i = s_num + 1 THEN n ELSE Order[i]]
    BY <1>0, <2>1, <2>2, AddTailHolds, HoldsNext
  <2> QED  BY <2>2, <2>3, Zenon DEF ListMoves
<1>3. ASSUME NEW k \in 1 .. s_num, Unlinked(Order[k]), got' \in Pointers,
             got' = got \/ (k = 1 /\ got' = Order[1])
      PROVE  ListInv' /\ ListMoves
  <2>1. /\ ListInv'
        /\ Order' = [i \in 1 .. s_num - 1 |-> IF i < k THEN Order[i] ELSE Order[i + 1]]
    BY <1>3, UnlinkHolds, HoldsNext
  <2>2. s_num' = s_num - 1
    BY <1>3 DEF Unlinked
  <2> QED  BY <1>3, <2>1, <2>2, Zenon DEF ListMoves
<1>4. CASE \E n \in Nodes : DeleteLinklistnode(n)
  <2>1. PICK n \in Nodes : DeleteLinklistnode(n)
    BY <1>4
  <2>2. CASE s_num # 0 /\ n \in Reached /\ Unlink(n)
    <3>1. PICK k \in 1 .. s_num : Order[k] = n
      BY <2>2, ReachedPlace
    <3>2. Unlinked(Order[k]) /\ got' = got
      BY <2>2, <3>1 DEF Unlink, Unlinked
    <3> QED  BY <1>0, <1>3, <3>2
  <2>3. CASE n \notin Reached /\ UNCHANGED vars
    <3>1. ListInv' /\ Order' = Order /\ got' = got /\ s_num' = s_num
      BY <1>0, <2>3, SameChain DEF vars
    <3>2. \A i \in 1 .. s_num : Order[i] # n
      BY <2>3, ReachedPlace
    <3> QED  BY <3>1, <3>2, Zenon DEF ListMoves
  <2>4. n \in Reached => s_num # 0
    BY ReachedPlace, ListFacts
  <2> QED  BY <2>1, <2>2, <2>3, <2>4 DEF DeleteLinklistnode
<1>5. CASE GetoutHeadnode
  <2>1. CASE s_num = 0 /\ got' = NULL /\ UNCHANGED <<s_num, s_headnode, s_tailnode, prev, next>>
    <3>1. ListInv' /\ Order' = Order
      BY <2>1, SameChain DEF Pointers
    <3> QED  BY <2>1, <3>1 DEF ListMoves
  <2>2. CASE s_num # 0 /\ got' = Order[1] /\ Unlinked(Order[1])
    <3>1. 1 \in 1 .. s_num /\ Order[1] \in Pointers
      BY <2>2, ListFacts
    <3> QED  BY <1>3, <2>2, <3>1
  <2> QED  BY <1>5, <2>1, <2>2, GetoutUnlinks
<1> QED  BY <1>1, <1>2, <1>4, <1>5 DEF Next

(* The invariant of the list is inductive.                                  *)
LEMMA ListInvariant == ListInv /\ [Next]_vars => ListInv'
<1> SUFFICES ASSUME ListInv, [Next]_vars  PROVE ListInv'
  OBVIOUS
<1>1. CASE UNCHANGED vars
  BY <1>1, SameChain DEF vars, ListInv
<1>2. CASE Next
  BY <1>2, ListStep
<1> QED  BY <1>1, <1>2

(* A chain has no more nodes than there are, so its count is in range.      *)
LEMMA ListTypes == ListInv => TypeOK
<1> SUFFICES ASSUME ListInv  PROVE TypeOK
  OBVIOUS
<1>1. s_num \in Nat /\ s_num <= Cardinality(Nodes) /\ Cardinality(Nodes) \in Nat
  BY ListFacts, OrderIs, ListConstants DEF ListInv
<1>2. s_headnode \in Pointers /\ s_tailnode \in Pointers /\ got \in Pointers
  BY ListFacts DEF ListInv
<1>3. prev \in [Nodes -> Pointers] /\ next \in [Nodes -> Pointers]
  BY ListFacts
<1> QED  BY <1>1, <1>2, <1>3 DEF TypeOK

(* The list of link.c keeps its types: s_num, an unsigned, is decremented at
   0 by no call, and never exceeds the number of nodes (link.c:24-117).      *)
THEOREM ListTypeCorrect == Spec => []TypeOK
<1>1. Init => ListInv
  BY ListInit
<1> QED  BY <1>1, ListInvariant, ListTypes, PTL DEF Spec

(* Through any calls, and whatever stale pointers a node that was removed and
   added again carries, the chains of next and prev agree with each other, with
   the ends and with s_num (link.c:24-117).                                  *)
THEOREM ListLinks == Spec => []LinksOK
<1>1. Init => ListInv
  BY ListInit
<1>2. ListInv => LinksOK
  <2> SUFFICES ASSUME ListInv  PROVE LinksOK
    OBVIOUS
  <2> DEFINE N == Cardinality(Nodes)
             Q == Order
  <2>1. /\ s_num \in Nat /\ s_num <= N /\ N \in Nat
        /\ \A i \in 0 .. N : cursor[i] = IF i < s_num THEN Q[i + 1] ELSE NULL
    BY ListFacts, OrderIs, ListConstants DEF ListInv
  <2>2. /\ Q \in [1 .. s_num -> Nodes]
        /\ s_headnode = IF s_num = 0 THEN NULL ELSE Q[1]
        /\ s_tailnode = IF s_num = 0 THEN NULL ELSE Q[s_num]
        /\ NULL \notin Nodes
    BY ListFacts
  <2>3. \A i \in 1 .. s_num : next[Q[i]] = IF i = s_num THEN NULL ELSE Q[i + 1]
    BY ListFacts
  <2>4. \A i \in 1 .. s_num : prev[Q[i]] = IF i = 1 THEN NULL ELSE Q[i - 1]
    BY ListFacts
  <2>5. Reached = {Q[i] : i \in 1 .. s_num}
    BY ReachedIs
  <2>6. Cardinality(Reached) = s_num
    <3>1. \A i, j \in 1 .. s_num : Q[i] = Q[j] => i = j
      BY ListFacts
    <3> HIDE DEF Q
    <3>2. Q \in Bijection(1 .. s_num, Reached)
      BY <2>2, <2>5, <3>1 DEF Bijection, Injection, Surjection, IsInjective
    <3>3. ExistsBijection(1 .. s_num, Reached)
      BY <3>2 DEF ExistsBijection
    <3>4. 1 \in Int /\ s_num \in Int
      BY <2>1
    <3>5. IsFiniteSet(1 .. s_num) /\ Cardinality(1 .. s_num) = IF 1 > s_num THEN 0 ELSE s_num - 1 + 1
      BY <3>4, FS_Interval
    <3> QED  BY <2>1, <3>3, <3>5, FS_Bijection
  <2> HIDE DEF N, Q
  <2>7. cursor[N] = NULL
    BY <2>1
  <2>8. (s_num = 0 <=> s_headnode = NULL) /\ (s_num = 0 <=> s_tailnode = NULL)
    BY <2>1, <2>2
  <2>9. s_num > 0 => cursor[s_num - 1] = s_tailnode /\ next[s_tailnode] = NULL
    BY <2>1, <2>2, <2>3
  <2>10. ASSUME NEW i \in 0 .. s_num - 1
         PROVE  prev[cursor[i]] = IF i = 0 THEN NULL ELSE cursor[i - 1]
    <3>1. cursor[i] = Q[i + 1] /\ i + 1 \in 1 .. s_num
      BY <2>1
    <3>2. i # 0 => cursor[i - 1] = Q[i]
      BY <2>1
    <3> QED  BY <2>1, <2>4, <3>1, <3>2
  <2> QED  BY <2>6, <2>7, <2>8, <2>9, <2>10 DEF LinksOK, N
<1> QED  BY <1>1, <1>2, ListInvariant, PTL DEF Spec

(* The order as a sequence.                                                 *)
LEMMA OrderSeq ==
    ASSUME NEW num \in Nat, NEW q \in [1 .. num -> Nodes]
    PROVE  q \in Seq(Nodes) /\ Len(q) = num /\ DOMAIN q = 1 .. num
  OBVIOUS

(* A new first element.                                                     *)
LEMMA PutFirst ==
    ASSUME NEW num \in Nat, NEW q \in [1 .. num -> Nodes], NEW n \in Nodes
    PROVE  <<n>> \o q = [i \in 1 .. num + 1 |-> IF i = 1 THEN n ELSE q[i - 1]]
<1> DEFINE r == [i \in 1 .. num + 1 |-> IF i = 1 THEN n ELSE q[i - 1]]
<1>1. r \in [1 .. num + 1 -> Nodes] /\ num + 1 \in Nat
  OBVIOUS
<1>2. r \in Seq(Nodes) /\ Len(r) = num + 1 /\ q \in Seq(Nodes) /\ Len(q) = num
  BY <1>1, OrderSeq
<1>3. <<n>> \in Seq(Nodes) /\ Len(<<n>>) = 1
  OBVIOUS
<1>4. /\ <<n>> \o q \in Seq(Nodes) /\ Len(<<n>> \o q) = num + 1
      /\ \A i \in 1 .. num + 1 : (<<n>> \o q)[i] = IF i <= 1 THEN <<n>>[i] ELSE q[i - 1]
  BY <1>2, <1>3, ConcatProperties
<1>5. \A i \in 1 .. num + 1 : (<<n>> \o q)[i] = r[i]
  BY <1>4
<1> HIDE DEF r
<1>6. <<n>> \o q = r
  BY <1>2, <1>4, <1>5, SeqEqual
<1> QED  BY <1>6 DEF r

(* A new last element.                                                      *)
LEMMA PutLast ==
    ASSUME NEW num \in Nat, NEW q \in [1 .. num -> Nodes], NEW n \in Nodes
    PROVE  Append(q, n) = [i \in 1 .. num + 1 |-> IF i = num + 1 THEN n ELSE q[i]]
<1> DEFINE r == [i \in 1 .. num + 1 |-> IF i = num + 1 THEN n ELSE q[i]]
<1>1. q \in Seq(Nodes) /\ Len(q) = num
  BY OrderSeq
<1>2. r \in [1 .. num + 1 -> Nodes] /\ num + 1 \in Nat
  OBVIOUS
<1>3. r \in Seq(Nodes) /\ Len(r) = num + 1
  BY <1>2, OrderSeq
<1>4. /\ Append(q, n) \in Seq(Nodes) /\ Len(Append(q, n)) = num + 1
      /\ \A i \in 1 .. num : Append(q, n)[i] = q[i]
      /\ Append(q, n)[num + 1] = n
  BY <1>1, AppendProperties
<1>5. \A i \in 1 .. num + 1 : Append(q, n)[i] = r[i]
  BY <1>4
<1> HIDE DEF r
<1>6. Append(q, n) = r
  BY <1>3, <1>4, <1>5, SeqEqual
<1> QED  BY <1>6 DEF r

(* An element left out.                                                     *)
LEMMA LeaveOut ==
    ASSUME NEW num \in Nat, NEW q \in [1 .. num -> Nodes], NEW k \in 1 .. num
    PROVE  SubSeq(q, 1, k - 1) \o SubSeq(q, k + 1, num)
             = [i \in 1 .. num - 1 |-> IF i < k THEN q[i] ELSE q[i + 1]]
<1> DEFINE r == [i \in 1 .. num - 1 |-> IF i < k THEN q[i] ELSE q[i + 1]]
           a == SubSeq(q, 1, k - 1)
           b == SubSeq(q, k + 1, num)
<1>1. r \in [1 .. num - 1 -> Nodes] /\ num - 1 \in Nat
  OBVIOUS
<1>2. r \in Seq(Nodes) /\ Len(r) = num - 1
  BY <1>1, OrderSeq
<1>3. a \in Seq(Nodes) /\ Len(a) = k - 1 /\ \A i \in 1 .. k - 1 : a[i] = q[i]
  <2>1. 1 \in Int /\ k - 1 \in Int /\ \A i \in 1 .. k - 1 : q[i] \in Nodes
    OBVIOUS
  <2>2. /\ a \in Seq(Nodes) /\ Len(a) = (IF 1 <= k - 1 THEN (k - 1) - 1 + 1 ELSE 0)
        /\ \A i \in 1 .. (k - 1) - 1 + 1 : a[i] = q[1 + i - 1]
    BY <2>1, SubSeqProperties
  <2> HIDE DEF a
  <2> QED  BY <2>2
<1>4. b \in Seq(Nodes) /\ Len(b) = num - k /\ \A i \in 1 .. num - k : b[i] = q[k + i]
  <2>1. k + 1 \in Int /\ num \in Int /\ \A i \in k + 1 .. num : q[i] \in Nodes
    OBVIOUS
  <2>2. /\ b \in Seq(Nodes) /\ Len(b) = (IF k + 1 <= num THEN num - (k + 1) + 1 ELSE 0)
        /\ \A i \in 1 .. num - (k + 1) + 1 : b[i] = q[(k + 1) + i - 1]
    BY <2>1, SubSeqProperties
  <2> HIDE DEF b
  <2> QED  BY <2>2
<1> HIDE DEF a, b
<1>5. /\ a \o b \in Seq(Nodes) /\ Len(a \o b) = Len(a) + Len(b)
      /\ \A i \in 1 .. Len(a) + Len(b) : (a \o b)[i] = IF i <= Len(a) THEN a[i] ELSE b[i - Len(a)]
  BY <1>3, <1>4, ConcatProperties
<1>6. Len(a \o b) = num - 1
  BY <1>3, <1>4, <1>5
<1>7. ASSUME NEW i \in 1 .. num - 1  PROVE (a \o b)[i] = r[i]
  <2>1. CASE i < k
    BY <1>3, <1>4, <1>5, <2>1
  <2>2. CASE ~(i < k)
    <3>1. i - Len(a) \in 1 .. num - k /\ ~(i <= Len(a)) /\ i \in 1 .. Len(a) + Len(b)
      BY <1>3, <1>4, <2>2
    <3>2. (a \o b)[i] = b[i - Len(a)]
      BY <1>5, <3>1
    <3>3. b[i - Len(a)] = q[k + (i - Len(a))]
      BY <1>4, <3>1
    <3> QED  BY <1>3, <2>2, <3>2, <3>3
  <2> QED  BY <2>1, <2>2
<1> HIDE DEF r
<1>8. a \o b = r
  BY <1>2, <1>5, <1>6, <1>7, SeqEqual
<1> QED  BY <1>8 DEF a, b, r

(* The rest of a sequence.                                                  *)
LEMMA RestOf ==
    ASSUME NEW num \in Nat, NEW q \in [1 .. num -> Nodes], num # 0
    PROVE  /\ Head(q) = q[1] /\ q # << >>
           /\ Tail(q) = [i \in 1 .. num - 1 |-> IF i < 1 THEN q[i] ELSE q[i + 1]]
<1>1. q \in Seq(Nodes) /\ Len(q) = num /\ q # << >>
  BY OrderSeq
<1>2. Tail(q) \in Seq(Nodes) /\ Len(Tail(q)) = num - 1 /\ \A i \in 1 .. num - 1 : Tail(q)[i] = q[i + 1]
  BY <1>1, HeadTailProperties
<1> DEFINE r == [i \in 1 .. num - 1 |-> IF i < 1 THEN q[i] ELSE q[i + 1]]
<1>3. r \in [1 .. num - 1 -> Nodes] /\ num - 1 \in Nat
  OBVIOUS
<1>4. r \in Seq(Nodes) /\ Len(r) = num - 1
  BY <1>3, OrderSeq
<1>5. \A i \in 1 .. num - 1 : Tail(q)[i] = r[i]
  BY <1>2
<1> HIDE DEF r
<1>6. Tail(q) = r
  BY <1>2, <1>4, <1>5, SeqEqual
<1> QED  BY <1>1, <1>6 DEF r

(* Each step of the pointers is a step of the sequence.                     *)
LEMMA ListRefines ==
    ASSUME ListInv, Next
    PROVE  Abstract!Next
<1> DEFINE Q == Order
<1>1. ListMoves
  BY ListStep
<1>2. s_num \in Nat /\ Q \in [1 .. s_num -> Nodes]
  BY ListFacts
<1>3. Q \in Seq(Nodes) /\ Len(Q) = s_num /\ DOMAIN Q = 1 .. s_num
  BY <1>2, OrderSeq
<1>4. /\ Q = [i \in 1 .. s_num |-> cursor[i - 1]]
      /\ Q' = [i \in 1 .. s_num |-> cursor[i - 1]]'
  BY DEF Order
<1>5. CASE \E n \in Nodes :
             /\ \A i \in 1 .. s_num : Q[i] # n
             /\ s_num' = s_num + 1
             /\ \/ Q' = [i \in 1 .. s_num + 1 |-> IF i = 1 THEN n ELSE Q[i - 1]]
                \/ Q' = [i \in 1 .. s_num + 1 |-> IF i = s_num + 1 THEN n ELSE Q[i]]
             /\ got' = got
  <2>1. PICK n \in Nodes :
             /\ \A i \in 1 .. s_num : Q[i] # n
             /\ \/ Q' = [i \in 1 .. s_num + 1 |-> IF i = 1 THEN n ELSE Q[i - 1]]
                \/ Q' = [i \in 1 .. s_num + 1 |-> IF i = s_num + 1 THEN n ELSE Q[i]]
             /\ got' = got
    BY <1>5
  <2>2. ~ \E i \in 1 .. Len(Q) : Q[i] = n
    BY <1>3, <2>1
  <2>3. Q' = <<n>> \o Q \/ Q' = Append(Q, n)
    BY <1>2, <2>1, PutFirst, PutLast
  <2>4. Abstract!AddHead(n) \/ Abstract!AddTail(n)
    BY <1>4, <2>1, <2>2, <2>3 DEF Abstract!AddHead, Abstract!AddTail, Abstract!Contains
  <2> QED  BY <2>4 DEF Abstract!Next
<1>6. CASE \E k \in 1 .. s_num :
             /\ Q' = [i \in 1 .. s_num - 1 |-> IF i < k THEN Q[i] ELSE Q[i + 1]]
             /\ got' = got \/ (k = 1 /\ got' = Q[1])
  <2>1. PICK k \in 1 .. s_num :
             /\ Q' = [i \in 1 .. s_num - 1 |-> IF i < k THEN Q[i] ELSE Q[i + 1]]
             /\ got' = got \/ (k = 1 /\ got' = Q[1])
    BY <1>6
  <2>2. CASE got' = got
    <3>1. Q' = SubSeq(Q, 1, k - 1) \o SubSeq(Q, k + 1, Len(Q))
      BY <1>2, <1>3, <2>1, LeaveOut
    <3>2. PICK n \in Nodes : n = Q[k]
      BY <1>2
    <3>3. k \in DOMAIN Q
      BY <1>3
    <3>4. Abstract!Delete(n)
      BY <1>4, <2>2, <3>1, <3>2, <3>3 DEF Abstract!Delete, Abstract!RemoveAt
    <3> QED  BY <3>4 DEF Abstract!Next
  <2>3. CASE k = 1 /\ got' = Q[1]
    <3>1. Head(Q) = Q[1] /\ Q # << >> /\ Q' = Tail(Q)
      BY <1>2, <2>1, <2>3, RestOf
    <3>2. Abstract!Getout
      BY <1>4, <2>3, <3>1 DEF Abstract!Getout
    <3> QED  BY <3>2 DEF Abstract!Next
  <2> QED  BY <2>1, <2>2, <2>3
<1>7. CASE \E n \in Nodes : (\A i \in 1 .. s_num : Q[i] # n) /\ Q' = Q /\ got' = got
  <2>1. PICK n \in Nodes : (\A i \in 1 .. s_num : Q[i] # n) /\ Q' = Q /\ got' = got
    BY <1>7
  <2>2. ~ \E i \in 1 .. Len(Q) : Q[i] = n
    BY <1>3, <2>1
  <2>3. Abstract!Delete(n)
    BY <1>4, <2>1, <2>2 DEF Abstract!Delete, Abstract!Contains
  <2> QED  BY <2>3 DEF Abstract!Next
<1>8. CASE s_num = 0 /\ Q' = Q /\ got' = NULL
  <2>1. Q = << >>
    BY <1>3, <1>8
  <2>2. Abstract!Getout
    BY <1>4, <1>8, <2>1 DEF Abstract!Getout
  <2> QED  BY <2>2 DEF Abstract!Next
<1> QED  BY <1>1, <1>5, <1>6, <1>7, <1>8 DEF ListMoves

(* Every call of link.c does to the sequence of the nodes what its name says: it
   puts a node first or last, removes one, or takes the first (link.c:24-117). *)
THEOREM ListIsSequence == Spec => ImplementsSequence
<1>1. Init => ListInv /\ Abstract!Init
  BY ListInit DEF Abstract!Init, Init, Order
<1>2. ListInv /\ [Next]_vars => [Abstract!Next]_<<[i \in 1 .. s_num |-> cursor[i - 1]], got>>
  <2> SUFFICES ASSUME ListInv, [Next]_vars
               PROVE  [Abstract!Next]_<<[i \in 1 .. s_num |-> cursor[i - 1]], got>>
    OBVIOUS
  <2>1. CASE UNCHANGED vars
    <3>1. Order' = Order /\ got' = got
      BY <2>1, SameChain DEF vars, ListInv
    <3> QED  BY <3>1 DEF Order
  <2>2. CASE Next
    BY <2>2, ListRefines
  <2> QED  BY <2>1, <2>2
<1>3. Init => ListInv
  BY <1>1
<1> QED  BY <1>1, <1>2, <1>3, ListInvariant, PTL DEF Spec, ImplementsSequence, Abstract!Spec

-----------------------------------------------------------------------------
(* The chains of hash.c: order gives for a key the nodes of its chain, len of
   them, for the fields lk and the pointers pf to the fields.                *)
Chained(len, order, lk, pf) ==
  /\ len \in [HashKeys -> Nat]
  /\ \A k \in HashKeys : order[k] \in [1 .. len[k] -> HashNodes]
  /\ \A j, k \in HashKeys : \A a \in 1 .. len[j], b \in 1 .. len[k] :
        order[j][a] = order[k][b] => j = k /\ a = b
  /\ \A k \in HashKeys : lk[k] = IF len[k] = 0 THEN NoNode ELSE order[k][1]
  /\ \A k \in HashKeys : \A a \in 1 .. len[k] :
        /\ lk[order[k][a]] = IF a = len[k] THEN NoNode ELSE order[k][a + 1]
        /\ pf[order[k][a]] = IF a = 1 THEN k ELSE order[k][a - 1]
  /\ \A n \in HashNodes : (\A k \in HashKeys : \A a \in 1 .. len[k] : order[k][a] # n) =>
        lk[n] = NoNode /\ pf[n] \in {NoNode, n}
  /\ lk \in [Fields -> HashNodes \cup {NoNode}]
  /\ pf \in [HashNodes -> Fields \cup {NoNode}]

\* The counters of the keys, each right as long as no deletion named another.
Counted(len) ==
  /\ nodenum \in [HashKeys -> 0 .. CountSize - 1]
  /\ misnamed \in BOOLEAN
  /\ ~misnamed => \A k \in HashKeys : nodenum[k] = len[k] % CountSize

HashInv == \E len, order : Chained(len, order, link, prev_firstregion) /\ Counted(len)

(* What is known of the keys, the nodes and the width of a counter.         *)
LEMMA HashConstants ==
    /\ IsFiniteSet(HashKeys) /\ IsFiniteSet(HashNodes) /\ Cardinality(HashNodes) \in Nat
    /\ HashKeys \cap HashNodes = {} /\ NoNode \notin HashKeys /\ NoNode \notin HashNodes
    /\ CountSize \in Nat \ {0} /\ Fields = HashKeys \cup HashNodes
<1>1. /\ IsFiniteSet(HashKeys) /\ IsFiniteSet(HashNodes)
      /\ HashKeys \cap HashNodes = {} /\ NoNode \notin HashKeys /\ NoNode \notin HashNodes
      /\ CountSize \in Nat \ {0} /\ Fields = HashKeys \cup HashNodes
  BY HashAssumption DEF Fields
<1> QED  BY <1>1, FS_CardinalityType

(* The facts of Chained, one at a time.                                     *)
LEMMA ChainedFacts ==
    ASSUME NEW len, NEW order, NEW lk, NEW pf, Chained(len, order, lk, pf)
    PROVE  /\ len \in [HashKeys -> Nat]
           /\ \A k \in HashKeys : len[k] \in Nat /\ order[k] \in [1 .. len[k] -> HashNodes]
           /\ \A j, k \in HashKeys : \A a \in 1 .. len[j], b \in 1 .. len[k] :
                 order[j][a] = order[k][b] => j = k /\ a = b
           /\ \A k \in HashKeys : lk[k] = IF len[k] = 0 THEN NoNode ELSE order[k][1]
           /\ \A k \in HashKeys : \A a \in 1 .. len[k] :
                 lk[order[k][a]] = IF a = len[k] THEN NoNode ELSE order[k][a + 1]
           /\ \A k \in HashKeys : \A a \in 1 .. len[k] :
                 pf[order[k][a]] = IF a = 1 THEN k ELSE order[k][a - 1]
           /\ \A n \in HashNodes : (\A k \in HashKeys : \A a \in 1 .. len[k] : order[k][a] # n) =>
                 lk[n] = NoNode /\ pf[n] \in {NoNode, n}
           /\ lk \in [Fields -> HashNodes \cup {NoNode}]
           /\ pf \in [HashNodes -> Fields \cup {NoNode}]
  BY DEF Chained

(* A chain has no more nodes than there are.                                *)
LEMMA ChainShort ==
    ASSUME NEW num \in Nat, NEW q \in [1 .. num -> HashNodes],
           \A a, b \in 1 .. num : q[a] = q[b] => a = b
    PROVE  num <= Cardinality(HashNodes)
<1>1. Cardinality(1 .. num) = num /\ IsFiniteSet(1 .. num)
  <2>1. 1 \in Int /\ num \in Int
    OBVIOUS
  <2>2. Cardinality(1 .. num) = IF 1 > num THEN 0 ELSE num - 1 + 1
    BY <2>1, FS_Interval
  <2>3. IsFiniteSet(1 .. num)
    BY <2>1, FS_Interval
  <2> QED  BY <2>2, <2>3
<1>2. ~(Cardinality(HashNodes) < Cardinality(1 .. num))
  BY <1>1, HashConstants, FS_PigeonHole
<1> QED  BY <1>1, <1>2, HashConstants

(* The walk along a chain meets its nodes in their order, then NULL.        *)
InARow(num, q, h, lk) ==
    /\ num \in Nat /\ q \in [1 .. num -> HashNodes]
    /\ \A a, b \in 1 .. num : q[a] = q[b] => a = b
    /\ h = IF num = 0 THEN NoNode ELSE q[1]
    /\ \A a \in 1 .. num : lk[q[a]] = IF a = num THEN NoNode ELSE q[a + 1]

WalkedFrom(c, h, lk) ==
    c = CHOOSE f : f = [i \in 0 .. Cardinality(HashNodes) |->
           IF i = 0 THEN h ELSE IF f[i - 1] = NoNode THEN NoNode ELSE lk[f[i - 1]]]

MeetsAll(c, num, q) ==
    /\ num <= Cardinality(HashNodes)
    /\ \A i \in 0 .. Cardinality(HashNodes) : c[i] = IF i < num THEN q[i + 1] ELSE NoNode

LEMMA ChainWalk ==
    ASSUME NEW num, NEW q, NEW h, NEW lk, NEW c,
           InARow(num, q, h, lk), WalkedFrom(c, h, lk)
    PROVE  MeetsAll(c, num, q)
<1> DEFINE N == Cardinality(HashNodes)
           w == [i \in 0 .. N |-> IF i < num THEN q[i + 1] ELSE NoNode]
           Walk(f) == f = [i \in 0 .. N |->
                  IF i = 0 THEN h ELSE IF f[i - 1] = NoNode THEN NoNode ELSE lk[f[i - 1]]]
<1>1. /\ num \in Nat /\ q \in [1 .. num -> HashNodes] /\ N \in Nat /\ NoNode \notin HashNodes
      /\ h = IF num = 0 THEN NoNode ELSE q[1]
  BY HashConstants DEF InARow
<1>2. ASSUME NEW i \in 1 .. num  PROVE lk[q[i]] = IF i = num THEN NoNode ELSE q[i + 1]
  BY DEF InARow
<1>3. ASSUME NEW i \in 0 .. N
      PROVE  w[i] = IF i = 0 THEN h ELSE IF w[i - 1] = NoNode THEN NoNode ELSE lk[w[i - 1]]
  <2> HIDE DEF N
  <2>1. CASE i = 0
    BY <1>1, <2>1
  <2>2. CASE i > 0 /\ i - 1 < num
    <3>1. w[i - 1] = q[i] /\ i \in 1 .. num
      BY <1>1, <2>2
    <3>2. w[i - 1] # NoNode
      BY <1>1, <3>1
    <3>3. w[i] = lk[q[i]]
      BY <1>1, <1>2, <2>2, <3>1
    <3> HIDE DEF w
    <3> QED  BY <2>2, <3>1, <3>2, <3>3
  <2>3. CASE i > 0 /\ ~(i - 1 < num)
    BY <1>1, <2>3
  <2> QED  BY <1>1, <2>1, <2>2, <2>3
<1>4. Walk(w)
  <2> DEFINE u == [i \in 0 .. N |->
                  IF i = 0 THEN h ELSE IF w[i - 1] = NoNode THEN NoNode ELSE lk[w[i - 1]]]
  <2>1. \A i \in 0 .. N : w[i] = u[i]
    BY <1>3
  <2>2. w = u
    BY <2>1
  <2> QED  BY <2>2
<1>5. Walk(c)
  <2> HIDE DEF w
  <2>1. c = CHOOSE f : Walk(f)
    BY DEF WalkedFrom
  <2> HIDE DEF Walk
  <2> QED  BY <1>4, <2>1, Zenon
<1>6. ASSUME NEW i \in 0 .. N
      PROVE  c[i] = IF i = 0 THEN h ELSE IF c[i - 1] = NoNode THEN NoNode ELSE lk[c[i - 1]]
  <2> HIDE DEF N, w
  <2>1. c = [j \in 0 .. N |-> IF j = 0 THEN h ELSE IF c[j - 1] = NoNode THEN NoNode ELSE lk[c[j - 1]]]
    BY <1>5, Zenon
  <2> DEFINE d == [j \in 0 .. N |-> IF j = 0 THEN h ELSE IF c[j - 1] = NoNode THEN NoNode ELSE lk[c[j - 1]]]
  <2>2. d[i] = IF i = 0 THEN h ELSE IF c[i - 1] = NoNode THEN NoNode ELSE lk[c[i - 1]]
    OBVIOUS
  <2> QED  BY <2>1, <2>2
<1> DEFINE Bad == {i \in 0 .. N : c[i] # w[i]}
<1>7. Bad = {}
  <2> SUFFICES ASSUME Bad # {}  PROVE FALSE
    OBVIOUS
  <2>1. Bad \in SUBSET Nat
    OBVIOUS
  <2>2. PICK m \in Bad : \A i \in Bad : m <= i
    BY <2>1, LeastNatural
  <2>3. m \in 0 .. N /\ c[m] # w[m]
    BY <2>2
  <2>4. CASE m = 0
    BY <1>3, <1>6, <2>3, <2>4
  <2>5. CASE m > 0
    <3>1. m - 1 \in 0 .. N /\ m - 1 \notin Bad
      BY <1>1, <2>2, <2>3, <2>5
    <3>2. c[m - 1] = w[m - 1]
      BY <3>1
    <3> QED  BY <1>3, <1>6, <2>3, <2>5, <3>2
  <2> QED  BY <1>1, <2>3, <2>4, <2>5
<1>8. ASSUME NEW i \in 0 .. N  PROVE c[i] = w[i]
  BY <1>7
<1>9. num <= Cardinality(HashNodes)
  BY ChainShort DEF InARow
<1> QED  BY <1>8, <1>9 DEF MeetsAll

(* The walk of the model along the chain of a key.                          *)
LEMMA ChainIs ==
    ASSUME NEW len, NEW order, Chained(len, order, link, prev_firstregion), NEW k \in HashKeys
    PROVE  /\ len[k] <= Cardinality(HashNodes)
           /\ \A i \in 0 .. Cardinality(HashNodes) :
                 walk(k)[i] = IF i < len[k] THEN order[k][i + 1] ELSE NoNode
           /\ Chain(k) = {order[k][a] : a \in 1 .. len[k]}
<1> DEFINE num == len[k]
           q == order[k]
           N == Cardinality(HashNodes)
<1>1. /\ num \in Nat /\ q \in [1 .. num -> HashNodes]
      /\ link[k] = IF num = 0 THEN NoNode ELSE q[1]
      /\ \A a \in 1 .. num : link[q[a]] = IF a = num THEN NoNode ELSE q[a + 1]
  BY ChainedFacts
<1>2. \A a, b \in 1 .. num : q[a] = q[b] => a = b
  BY ChainedFacts
<1>3. N \in Nat /\ NoNode \notin HashNodes
  BY HashConstants
<1> HIDE DEF num, q
<1>4. num <= N /\ \A i \in 0 .. N : walk(k)[i] = IF i < num THEN q[i + 1] ELSE NoNode
  <2>1. WalkedFrom(walk(k), link[k], link)
    BY DEF WalkedFrom, walk
  <2>2. InARow(num, q, link[k], link)
    BY <1>1, <1>2 DEF InARow
  <2>3. MeetsAll(walk(k), num, q)
    BY <2>1, <2>2, ChainWalk
  <2> QED  BY <2>3 DEF MeetsAll
<1> HIDE DEF N
<1>5. ASSUME NEW x \in {walk(k)[i] : i \in 0 .. N} \ {NoNode}
      PROVE  x \in {q[a] : a \in 1 .. num}
  <2>1. PICK i \in 0 .. N : x = walk(k)[i] /\ x # NoNode
    BY <1>5
  <2>2. i + 1 \in 1 .. num /\ x = q[i + 1]
    BY <1>1, <1>3, <1>4, <2>1
  <2> QED  BY <2>2
<1>6. ASSUME NEW a \in 1 .. num  PROVE q[a] \in {walk(k)[i] : i \in 0 .. N} \ {NoNode}
  <2>1. a - 1 \in 0 .. N /\ walk(k)[a - 1] = q[a] /\ q[a] # NoNode
    BY <1>1, <1>3, <1>4
  <2> QED  BY <2>1
<1>7. Chain(k) = {q[a] : a \in 1 .. num}
  BY <1>5, <1>6 DEF Chain, N
<1> QED  BY <1>4, <1>7 DEF num, q, N

(* The hashed nodes are those whose prev_firstregion is another's field.    *)
LEMMA HashedAre ==
    ASSUME NEW len, NEW order, Chained(len, order, link, prev_firstregion), NEW n \in HashNodes
    PROVE  /\ (\E k \in HashKeys : \E a \in 1 .. len[k] : order[k][a] = n)
                 <=> prev_firstregion[n] # NoNode /\ prev_firstregion[n] # n
           /\ n \in Hashed <=> prev_firstregion[n] # NoNode /\ prev_firstregion[n] # n
           /\ prev_firstregion[n] # NoNode =>
                 (link[prev_firstregion[n]] = NoNode <=> prev_firstregion[n] = n)
           /\ prev_firstregion[n] \in {NoNode, n} => link[n] = NoNode
<1>1. ASSUME NEW k \in HashKeys, NEW a \in 1 .. len[k], order[k][a] = n
      PROVE  prev_firstregion[n] # NoNode /\ prev_firstregion[n] # n /\ link[prev_firstregion[n]] = n
  <2> DEFINE num == len[k]
             q == order[k]
  <2>1. /\ num \in Nat /\ q \in [1 .. num -> HashNodes]
        /\ link[k] = IF num = 0 THEN NoNode ELSE q[1]
        /\ \A b \in 1 .. num : link[q[b]] = IF b = num THEN NoNode ELSE q[b + 1]
        /\ \A b \in 1 .. num : prev_firstregion[q[b]] = IF b = 1 THEN k ELSE q[b - 1]
    BY ChainedFacts
  <2>2. \A b, c \in 1 .. num : q[b] = q[c] => b = c
    BY ChainedFacts
  <2>3. a \in 1 .. num /\ q[a] = n
    BY <1>1
  <2> HIDE DEF num, q
  <2>4. CASE a = 1
    BY <2>1, <2>3, <2>4, HashConstants
  <2>5. CASE a # 1
    <3>1. a - 1 \in 1 .. num /\ prev_firstregion[n] = q[a - 1] /\ q[a - 1] # n
      BY <2>1, <2>2, <2>3, <2>5
    <3>2. link[q[a - 1]] = n
      BY <2>1, <2>3, <3>1
    <3> QED  BY <2>1, <3>1, <3>2, HashConstants
  <2> QED  BY <2>4, <2>5
<1>2. (\A k \in HashKeys : \A a \in 1 .. len[k] : order[k][a] # n) =>
          link[n] = NoNode /\ prev_firstregion[n] \in {NoNode, n}
  BY ChainedFacts
<1>3. (\E k \in HashKeys : \E a \in 1 .. len[k] : order[k][a] = n)
                 <=> prev_firstregion[n] # NoNode /\ prev_firstregion[n] # n
  BY <1>1, <1>2
<1>4. n \in Hashed <=> \E k \in HashKeys : n \in Chain(k)
  BY DEF Hashed
<1>5. \A k \in HashKeys : n \in Chain(k) <=> \E a \in 1 .. len[k] : order[k][a] = n
  BY ChainIs
<1>6. n \in Hashed <=> prev_firstregion[n] # NoNode /\ prev_firstregion[n] # n
  BY <1>3, <1>4, <1>5
<1>7. prev_firstregion[n] # NoNode =>
          (link[prev_firstregion[n]] = NoNode <=> prev_firstregion[n] = n)
  BY <1>1, <1>2, HashConstants
<1>8. prev_firstregion[n] \in {NoNode, n} => link[n] = NoNode
  BY <1>1, <1>2
<1> QED  BY <1>3, <1>6, <1>7, <1>8

(* The zeroed heads are empty chains (hash.c:4-11).                         *)
LEMMA HashInitInv == InitHashlist => HashInv
<1> SUFFICES ASSUME InitHashlist  PROVE HashInv
  OBVIOUS
<1> DEFINE len == [k \in HashKeys |-> 0]
           order == [k \in HashKeys |-> << >>]
<1>1. /\ link = [f \in Fields |-> NoNode]
      /\ prev_firstregion = [n \in HashNodes |-> NoNode]
      /\ nodenum = [k \in HashKeys |-> 0] /\ misnamed = FALSE
  BY DEF InitHashlist
<1>2. /\ len \in [HashKeys -> Nat] /\ \A k \in HashKeys : len[k] = 0
      /\ \A k \in HashKeys : order[k] \in [1 .. 0 -> HashNodes]
  OBVIOUS
<1> HIDE DEF len, order
<1>3. Chained(len, order, link, prev_firstregion)
  BY <1>1, <1>2, HashConstants DEF Chained
<1>4. 0 % CountSize = 0 /\ 0 \in 0 .. CountSize - 1
  BY HashConstants, Wraps
<1>5. Counted(len)
  BY <1>1, <1>2, <1>4 DEF Counted
<1> QED  BY <1>3, <1>5 DEF HashInv

(* A node made ready for AddHashNode is in no chain.                        *)
LEMMA PrepareHolds ==
    ASSUME NEW len, NEW order, Chained(len, order, link, prev_firstregion),
           NEW n \in HashNodes, PrepareNode(n)
    PROVE  Chained(len, order, link', prev_firstregion')
<1>1. /\ prev_firstregion[n] = NoNode
      /\ link' = [link EXCEPT ![n] = NoNode]
      /\ prev_firstregion' = [prev_firstregion EXCEPT ![n] = n]
  BY DEF PrepareNode
<1>2. /\ link \in [Fields -> HashNodes \cup {NoNode}]
      /\ prev_firstregion \in [HashNodes -> Fields \cup {NoNode}]
      /\ n \in Fields
  BY ChainedFacts, HashConstants
<1>3. link[n] = NoNode
  BY <1>1, HashedAre
<1>4. link' = link
  BY <1>1, <1>2, <1>3
<1>5. \A k \in HashKeys : \A a \in 1 .. len[k] : order[k][a] # n
  BY <1>1, HashedAre
<1>6. prev_firstregion' \in [HashNodes -> Fields \cup {NoNode}]
  BY <1>1, <1>2
<1>7. \A m \in HashNodes : prev_firstregion'[m] = IF m = n THEN n ELSE prev_firstregion[m]
  BY <1>1, <1>2
<1>8. ASSUME NEW k \in HashKeys, NEW a \in 1 .. len[k]
      PROVE  prev_firstregion'[order[k][a]] = IF a = 1 THEN k ELSE order[k][a - 1]
  <2>1. order[k][a] \in HashNodes /\ order[k][a] # n
    BY <1>5, ChainedFacts
  <2>2. prev_firstregion[order[k][a]] = IF a = 1 THEN k ELSE order[k][a - 1]
    BY ChainedFacts
  <2> QED  BY <1>7, <2>1, <2>2
<1>9. ASSUME NEW m \in HashNodes, \A k \in HashKeys : \A a \in 1 .. len[k] : order[k][a] # m
      PROVE  link'[m] = NoNode /\ prev_firstregion'[m] \in {NoNode, m}
  BY <1>4, <1>7, <1>9, ChainedFacts
<1>10. /\ len \in [HashKeys -> Nat]
       /\ \A k \in HashKeys : order[k] \in [1 .. len[k] -> HashNodes]
       /\ \A j, k \in HashKeys : \A a \in 1 .. len[j], b \in 1 .. len[k] :
             order[j][a] = order[k][b] => j = k /\ a = b
       /\ \A k \in HashKeys : link[k] = IF len[k] = 0 THEN NoNode ELSE order[k][1]
       /\ \A k \in HashKeys : \A a \in 1 .. len[k] :
             link[order[k][a]] = IF a = len[k] THEN NoNode ELSE order[k][a + 1]
  BY ChainedFacts
<1> QED  BY <1>2, <1>4, <1>6, <1>8, <1>9, <1>10 DEF Chained

(* The chains with a node put before those of a key.                        *)
WithFirst(len, order, k, n) ==
  [j \in HashKeys |->
      IF j = k THEN [i \in 1 .. len[k] + 1 |-> IF i = 1 THEN n ELSE order[k][i - 1]]
               ELSE order[j]]

(* InsertHashNode_Head puts the node before those of the chain (hash.c).    *)
LEMMA InsertHolds ==
    ASSUME NEW len, NEW order, Chained(len, order, link, prev_firstregion),
           NEW k \in HashKeys, NEW n \in HashNodes,
           prev_firstregion[n] \in {NoNode, n}, NEW first, first = link[k],
           link' = [link EXCEPT ![n] = first, ![k] = n],
           prev_firstregion' = [m \in HashNodes |-> IF m = n THEN k ELSE IF m = first THEN n
                                                    ELSE prev_firstregion[m]]
    PROVE  Chained([len EXCEPT ![k] = len[k] + 1],
                   WithFirst(len, order, k, n),
                   link', prev_firstregion')
<1> DEFINE num == len[k]
           q == order[k]
           r == [i \in 1 .. num + 1 |-> IF i = 1 THEN n ELSE q[i - 1]]
           len2 == [len EXCEPT ![k] = num + 1]
           order2 == [j \in HashKeys |-> IF j = k THEN r ELSE order[j]]
           pf == prev_firstregion
<1>1. /\ link' = [link EXCEPT ![n] = first, ![k] = n]
      /\ pf' = [m \in HashNodes |-> IF m = n THEN k ELSE IF m = first THEN n ELSE pf[m]]
  OBVIOUS
<1>2. /\ len \in [HashKeys -> Nat]
      /\ \A j \in HashKeys : len[j] \in Nat /\ order[j] \in [1 .. len[j] -> HashNodes]
      /\ link \in [Fields -> HashNodes \cup {NoNode}]
      /\ pf \in [HashNodes -> Fields \cup {NoNode}]
  BY ChainedFacts
<1>3. \A j, m \in HashKeys : \A a \in 1 .. len[j], b \in 1 .. len[m] :
          order[j][a] = order[m][b] => j = m /\ a = b
  BY ChainedFacts
<1>4. \A j \in HashKeys : link[j] = IF len[j] = 0 THEN NoNode ELSE order[j][1]
  BY ChainedFacts
<1>5. ASSUME NEW j \in HashKeys, NEW a \in 1 .. len[j]
      PROVE  /\ order[j][a] \in HashNodes
             /\ link[order[j][a]] = IF a = len[j] THEN NoNode ELSE order[j][a + 1]
             /\ pf[order[j][a]] = IF a = 1 THEN j ELSE order[j][a - 1]
             /\ order[j][a] # n
  <2>1. order[j][a] # n
    BY HashedAre
  <2> QED  BY <2>1, ChainedFacts
<1>6. num \in Nat /\ q \in [1 .. num -> HashNodes] /\ first = IF num = 0 THEN NoNode ELSE q[1]
  BY <1>2, <1>4
<1>7. /\ n \in Fields /\ k \in Fields /\ n # k /\ k \notin HashNodes /\ NoNode \notin HashNodes
      /\ \A j \in HashKeys : j \in Fields /\ j \notin HashNodes /\ j # n
      /\ \A m \in HashNodes : m \in Fields /\ m \notin HashKeys /\ m # k
  BY HashConstants
<1>8. first \in HashNodes \cup {NoNode}
  BY <1>6
<1>9. /\ link' \in [Fields -> HashNodes \cup {NoNode}]
      /\ \A f \in Fields : link'[f] = IF f = k THEN n ELSE IF f = n THEN first ELSE link[f]
  BY <1>1, <1>2, <1>7, <1>8
<1>10. pf' \in [HashNodes -> Fields \cup {NoNode}]
  BY <1>1, <1>2, <1>7
<1>11. \A m \in HashNodes : pf'[m] = IF m = n THEN k ELSE IF m = first THEN n ELSE pf[m]
  BY <1>1
<1> HIDE DEF pf, num, q
<1>12. /\ len2 \in [HashKeys -> Nat] /\ len2[k] = num + 1
       /\ \A j \in HashKeys : j # k => len2[j] = len[j]
  BY <1>2, <1>6
<1>13. r \in [1 .. num + 1 -> HashNodes]
  BY <1>6
<1>14. /\ order2[k] = r /\ \A j \in HashKeys : j # k => order2[j] = order[j]
  OBVIOUS
<1>15. \A a \in 1 .. num + 1 : r[a] = IF a = 1 THEN n ELSE q[a - 1]
  OBVIOUS
<1> HIDE DEF r, len2, order2
<1>16. ASSUME NEW j \in HashKeys  PROVE order2[j] \in [1 .. len2[j] -> HashNodes]
  BY <1>2, <1>12, <1>13, <1>14
<1>17. ASSUME NEW a \in 1 .. num
       PROVE  /\ q[a] \in HashNodes /\ q[a] # n
              /\ link[q[a]] = IF a = num THEN NoNode ELSE q[a + 1]
              /\ pf[q[a]] = IF a = 1 THEN k ELSE q[a - 1]
  BY <1>5 DEF num, q
<1>18. \A a, b \in 1 .. num : q[a] = q[b] => a = b
  BY <1>3 DEF num, q
<1>19. ASSUME NEW j \in HashKeys, j # k, NEW a \in 1 .. len[j], NEW b \in 1 .. num
       PROVE  order[j][a] # q[b]
  BY <1>3, <1>19 DEF num, q
<1>20. ASSUME NEW j \in HashKeys, NEW m \in HashKeys, NEW a \in 1 .. len2[j], NEW b \in 1 .. len2[m],
              order2[j][a] = order2[m][b]
       PROVE  j = m /\ a = b
  <2>1. CASE j = k /\ m = k
    <3>1. a \in 1 .. num + 1 /\ b \in 1 .. num + 1 /\ r[a] = r[b]
      BY <1>12, <1>14, <1>20, <2>1
    <3> QED  BY <1>6, <1>15, <1>17, <1>18, <2>1, <3>1
  <2>2. CASE j = k /\ m # k
    <3>1. a \in 1 .. num + 1 /\ b \in 1 .. len[m] /\ r[a] = order[m][b]
      BY <1>12, <1>14, <1>20, <2>2
    <3>2. CASE a = 1
      BY <1>5, <1>15, <3>1, <3>2
    <3>3. CASE a # 1
      <4>1. a - 1 \in 1 .. num /\ q[a - 1] = order[m][b]
        BY <1>6, <1>15, <3>1, <3>3
      <4> QED  BY <1>19, <2>2, <3>1, <4>1
    <3> QED  BY <3>2, <3>3
  <2>3. CASE j # k /\ m = k
    <3>1. b \in 1 .. num + 1 /\ a \in 1 .. len[j] /\ r[b] = order[j][a]
      BY <1>12, <1>14, <1>20, <2>3
    <3>2. CASE b = 1
      BY <1>5, <1>15, <3>1, <3>2
    <3>3. CASE b # 1
      <4>1. b - 1 \in 1 .. num /\ q[b - 1] = order[j][a]
        BY <1>6, <1>15, <3>1, <3>3
      <4> QED  BY <1>19, <2>3, <3>1, <4>1
    <3> QED  BY <3>2, <3>3
  <2>4. CASE j # k /\ m # k
    BY <1>3, <1>12, <1>14, <1>20, <2>4
  <2> QED  BY <2>1, <2>2, <2>3, <2>4
<1>21. ASSUME NEW j \in HashKeys
       PROVE  link'[j] = IF len2[j] = 0 THEN NoNode ELSE order2[j][1]
  <2>1. CASE j = k
    BY <1>6, <1>7, <1>9, <1>12, <1>14, <1>15, <2>1
  <2>2. CASE j # k
    BY <1>4, <1>7, <1>9, <1>12, <1>14, <2>2
  <2> QED  BY <2>1, <2>2
<1>22. ASSUME NEW j \in HashKeys, NEW a \in 1 .. len2[j]
       PROVE  /\ link'[order2[j][a]] = IF a = len2[j] THEN NoNode ELSE order2[j][a + 1]
              /\ pf'[order2[j][a]] = IF a = 1 THEN j ELSE order2[j][a - 1]
  <2>1. CASE j # k
    <3>1. a \in 1 .. len[j] /\ order2[j] = order[j] /\ len2[j] = len[j]
      BY <1>12, <1>14, <2>1
    <3>2. order[j][a] # first
      BY <1>5, <1>6, <1>7, <1>19, <2>1, <3>1
    <3>3. order[j][a] \in HashNodes /\ order[j][a] # n
      BY <1>5, <3>1
    <3>4. link'[order[j][a]] = link[order[j][a]] /\ pf'[order[j][a]] = pf[order[j][a]]
      BY <1>7, <1>9, <1>11, <3>2, <3>3
    <3> QED  BY <1>5, <3>1, <3>4
  <2>2. CASE j = k /\ a = 1
    <3>1. order2[j][a] = n /\ len2[j] = num + 1
      BY <1>6, <1>12, <1>14, <1>15, <2>2
    <3>2. link'[n] = first /\ pf'[n] = k
      BY <1>7, <1>9, <1>11
    <3>3. first = IF 1 = num + 1 THEN NoNode ELSE r[2]
      BY <1>6, <1>15
    <3> QED  BY <1>14, <2>2, <3>1, <3>2, <3>3
  <2>3. CASE j = k /\ a # 1
    <3> DEFINE b == a - 1
    <3>1. b \in 1 .. num /\ order2[j][a] = q[b] /\ len2[j] = num + 1 /\ a = b + 1 /\ num \in Nat
      BY <1>6, <1>12, <1>14, <1>15, <2>3
    <3> HIDE DEF b
    <3>2. q[b] = first <=> b = 1
      BY <1>6, <1>18, <3>1
    <3>3. link'[q[b]] = link[q[b]] /\ pf'[q[b]] = IF b = 1 THEN n ELSE pf[q[b]]
      BY <1>7, <1>9, <1>11, <1>17, <3>1, <3>2
    <3>4. link[q[b]] = IF b = num THEN NoNode ELSE r[b + 2]
      BY <1>15, <1>17, <3>1
    <3>5. (IF b = 1 THEN n ELSE pf[q[b]]) = r[b]
      BY <1>15, <1>17, <3>1
    <3> QED  BY <1>14, <2>3, <3>1, <3>3, <3>4, <3>5
  <2> QED  BY <2>1, <2>2, <2>3
<1>23. ASSUME NEW m \in HashNodes, \A j \in HashKeys : \A a \in 1 .. len2[j] : order2[j][a] # m
       PROVE  link'[m] = NoNode /\ pf'[m] \in {NoNode, m}
  <2>1. ASSUME NEW j \in HashKeys, NEW a \in 1 .. len[j], order[j][a] = m  PROVE FALSE
    <3>1. CASE j = k
      <4>1. a \in 1 .. num /\ q[a] = m
        BY <2>1, <3>1 DEF num, q
      <4>2. a + 1 \in 1 .. len2[k] /\ order2[k][a + 1] = m
        <5>1. a + 1 \in 1 .. num + 1 /\ a + 1 # 1 /\ (a + 1) - 1 = a /\ num \in Nat
          BY <1>6, <4>1
        <5>2. r[a + 1] = q[a]
          BY <1>15, <5>1
        <5> QED  BY <1>12, <1>14, <4>1, <5>1, <5>2
      <4> QED  BY <1>23, <4>2
    <3>2. CASE j # k
      BY <1>12, <1>14, <1>23, <2>1, <3>2
    <3> QED  BY <3>1, <3>2
  <2>2. m # n
    <3>1. 1 \in 1 .. len2[k] /\ order2[k][1] = n
      BY <1>6, <1>12, <1>14, <1>15
    <3> QED  BY <1>23, <3>1
  <2>3. link[m] = NoNode /\ pf[m] \in {NoNode, m}
    BY <2>1, ChainedFacts DEF pf
  <2>4. m # first
    <3>1. num # 0 => 1 \in 1 .. num /\ q[1] # m
      BY <1>6, <2>1 DEF num, q
    <3> QED  BY <1>6, <1>7, <3>1
  <2> QED  BY <1>7, <1>9, <1>11, <2>2, <2>3, <2>4
<1>24. Chained(len2, order2, link', pf')
  BY <1>9, <1>10, <1>12, <1>16, <1>20, <1>21, <1>22, <1>23, Zenon DEF Chained
<1> QED  BY <1>24 DEF len2, order2, r, num, q, pf, WithFirst

(* RemoveHashNode takes the node out of the chain it is in (hash.c).        *)
LEMMA RemoveHolds ==
    ASSUME NEW len, NEW order, Chained(len, order, link, prev_firstregion),
           NEW k \in HashKeys, NEW p \in 1 .. len[k], NEW n, n = order[k][p], RemoveHashNode(n)
    PROVE  Chained([len EXCEPT ![k] = len[k] - 1],
                   [j \in HashKeys |->
                       IF j = k THEN [i \in 1 .. len[k] - 1 |-> IF i < p THEN order[k][i] ELSE order[k][i + 1]]
                                ELSE order[j]],
                   link', prev_firstregion')
<1> DEFINE num == len[k]
           q == order[k]
           r == [i \in 1 .. num - 1 |-> IF i < p THEN q[i] ELSE q[i + 1]]
           len2 == [len EXCEPT ![k] = num - 1]
           order2 == [j \in HashKeys |-> IF j = k THEN r ELSE order[j]]
           after == link[n]
           region == prev_firstregion[n]
           pf == prev_firstregion
<1>1. /\ link' = [link EXCEPT ![region] = after, ![n] = NoNode]
      /\ pf' = [m \in HashNodes |-> IF m = n THEN NoNode ELSE IF m = after THEN region ELSE pf[m]]
  BY DEF RemoveHashNode
<1>2. /\ len \in [HashKeys -> Nat]
      /\ \A j \in HashKeys : len[j] \in Nat /\ order[j] \in [1 .. len[j] -> HashNodes]
      /\ link \in [Fields -> HashNodes \cup {NoNode}]
      /\ pf \in [HashNodes -> Fields \cup {NoNode}]
  BY ChainedFacts
<1>3. \A j, m \in HashKeys : \A a \in 1 .. len[j], b \in 1 .. len[m] :
          order[j][a] = order[m][b] => j = m /\ a = b
  BY ChainedFacts
<1>4. \A j \in HashKeys : link[j] = IF len[j] = 0 THEN NoNode ELSE order[j][1]
  BY ChainedFacts
<1>5. ASSUME NEW j \in HashKeys, NEW a \in 1 .. len[j]
      PROVE  /\ order[j][a] \in HashNodes
             /\ link[order[j][a]] = IF a = len[j] THEN NoNode ELSE order[j][a + 1]
             /\ pf[order[j][a]] = IF a = 1 THEN j ELSE order[j][a - 1]
  BY ChainedFacts
<1>6. num \in Nat /\ q \in [1 .. num -> HashNodes] /\ p \in 1 .. num /\ n = q[p] /\ n \in HashNodes
  BY <1>2
<1>7. /\ NoNode \notin HashNodes /\ NoNode \notin HashKeys
      /\ \A j \in HashKeys : j \in Fields /\ j \notin HashNodes /\ j # n
      /\ \A m \in HashNodes : m \in Fields /\ m \notin HashKeys /\ m # k
  BY <1>6, HashConstants
<1>8. /\ after = IF p = num THEN NoNode ELSE q[p + 1]
      /\ region = IF p = 1 THEN k ELSE q[p - 1]
  BY <1>5
<1> HIDE DEF after, region, pf, num, q
<1>9. \A a, b \in 1 .. num : q[a] = q[b] => a = b
  BY <1>3 DEF num, q
<1>10. /\ after \in HashNodes \cup {NoNode} /\ region \in Fields /\ region # n /\ after # n
       /\ region # NoNode /\ (p # 1 => region \in HashNodes) /\ (p # num => after \in HashNodes)
  BY <1>6, <1>7, <1>8, <1>9
<1>11. /\ link' \in [Fields -> HashNodes \cup {NoNode}]
       /\ \A f \in Fields : link'[f] = IF f = n THEN NoNode ELSE IF f = region THEN after ELSE link[f]
  BY <1>1, <1>2, <1>6, <1>7, <1>10
<1>12. pf' \in [HashNodes -> Fields \cup {NoNode}]
  BY <1>1, <1>2, <1>7, <1>10
<1>13. \A m \in HashNodes : pf'[m] = IF m = n THEN NoNode ELSE IF m = after THEN region ELSE pf[m]
  BY <1>1
<1>14. /\ len2 \in [HashKeys -> Nat] /\ len2[k] = num - 1
       /\ \A j \in HashKeys : j # k => len2[j] = len[j]
  BY <1>2, <1>6
<1>15. r \in [1 .. num - 1 -> HashNodes]
  BY <1>6
<1>16. order2[k] = r /\ \A j \in HashKeys : j # k => order2[j] = order[j]
  OBVIOUS
<1>17. \A a \in 1 .. num - 1 : r[a] = IF a < p THEN q[a] ELSE q[a + 1]
  OBVIOUS
<1> HIDE DEF r, len2, order2
<1>18. ASSUME NEW j \in HashKeys  PROVE order2[j] \in [1 .. len2[j] -> HashNodes]
  BY <1>2, <1>14, <1>15, <1>16
<1>19. ASSUME NEW a \in 1 .. num
       PROVE  /\ q[a] \in HashNodes
              /\ link[q[a]] = IF a = num THEN NoNode ELSE q[a + 1]
              /\ pf[q[a]] = IF a = 1 THEN k ELSE q[a - 1]
  BY <1>5 DEF num, q
<1>20. ASSUME NEW j \in HashKeys, j # k, NEW a \in 1 .. len[j], NEW b \in 1 .. num
       PROVE  order[j][a] # q[b]
  BY <1>3, <1>20 DEF num, q
\* The place in the old chain of a node of the new one.
<1>21. ASSUME NEW a \in 1 .. num - 1
       PROVE  \E b \in 1 .. num : r[a] = q[b] /\ b # p /\ b = IF a < p THEN a ELSE a + 1
  <2>1. CASE a < p
    <3>1. a \in 1 .. num /\ r[a] = q[a] /\ a # p
      BY <1>6, <1>17, <2>1
    <3> QED  BY <2>1, <3>1
  <2>2. CASE ~(a < p)
    <3>1. a + 1 \in 1 .. num /\ r[a] = q[a + 1] /\ a + 1 # p
      BY <1>6, <1>17, <2>2
    <3> QED  BY <2>2, <3>1
  <2> QED  BY <2>1, <2>2
<1>22. ASSUME NEW j \in HashKeys, NEW m \in HashKeys, NEW a \in 1 .. len2[j], NEW b \in 1 .. len2[m],
              order2[j][a] = order2[m][b]
       PROVE  j = m /\ a = b
  <2>1. CASE j = k /\ m = k
    <3>1. a \in 1 .. num - 1 /\ b \in 1 .. num - 1 /\ r[a] = r[b]
      BY <1>14, <1>16, <1>22, <2>1
    <3>2. PICK c \in 1 .. num : r[a] = q[c] /\ c = IF a < p THEN a ELSE a + 1
      BY <1>21, <3>1
    <3>3. PICK d \in 1 .. num : r[b] = q[d] /\ d = IF b < p THEN b ELSE b + 1
      BY <1>21, <3>1
    <3>4. c = d
      BY <1>9, <3>1, <3>2, <3>3
    <3> QED  BY <1>6, <2>1, <3>1, <3>2, <3>3, <3>4
  <2>2. CASE j = k /\ m # k
    <3>1. a \in 1 .. num - 1 /\ b \in 1 .. len[m] /\ r[a] = order[m][b]
      BY <1>14, <1>16, <1>22, <2>2
    <3>2. PICK c \in 1 .. num : r[a] = q[c]
      BY <1>21, <3>1
    <3> QED  BY <1>20, <2>2, <3>1, <3>2
  <2>3. CASE j # k /\ m = k
    <3>1. b \in 1 .. num - 1 /\ a \in 1 .. len[j] /\ r[b] = order[j][a]
      BY <1>14, <1>16, <1>22, <2>3
    <3>2. PICK c \in 1 .. num : r[b] = q[c]
      BY <1>21, <3>1
    <3> QED  BY <1>20, <2>3, <3>1, <3>2
  <2>4. CASE j # k /\ m # k
    BY <1>3, <1>14, <1>16, <1>22, <2>4
  <2> QED  BY <2>1, <2>2, <2>3, <2>4
<1>23. ASSUME NEW j \in HashKeys
       PROVE  link'[j] = IF len2[j] = 0 THEN NoNode ELSE order2[j][1]
  <2>1. CASE j = k /\ p = 1
    <3>1. link'[j] = after
      BY <1>7, <1>8, <1>11, <2>1
    <3>2. after = IF num = 1 THEN NoNode ELSE q[2]
      BY <1>8, <2>1
    <3>3. num # 1 => r[1] = q[2]
      BY <1>6, <1>17, <2>1
    <3> QED  BY <1>6, <1>14, <1>16, <2>1, <3>1, <3>2, <3>3
  <2>2. CASE j = k /\ p # 1
    <3>1. link'[j] = link[k] /\ link[k] = q[1]
      <4>1. region # k
        BY <1>7, <1>10, <2>2
      <4>2. link[k] = IF num = 0 THEN NoNode ELSE q[1]
        BY <1>4 DEF num, q
      <4> QED  BY <1>6, <1>7, <1>11, <2>2, <4>1, <4>2
    <3>2. r[1] = q[1] /\ num - 1 # 0
      BY <1>6, <1>17, <2>2
    <3> QED  BY <1>14, <1>16, <2>2, <3>1, <3>2
  <2>3. CASE j # k
    <3>1. j # region
      BY <1>7, <1>8, <1>10, <2>3
    <3> QED  BY <1>4, <1>7, <1>11, <1>14, <1>16, <2>3, <3>1
  <2> QED  BY <2>1, <2>2, <2>3
<1>24. ASSUME NEW j \in HashKeys, NEW a \in 1 .. len2[j]
       PROVE  /\ link'[order2[j][a]] = IF a = len2[j] THEN NoNode ELSE order2[j][a + 1]
              /\ pf'[order2[j][a]] = IF a = 1 THEN j ELSE order2[j][a - 1]
  <2>1. CASE j # k
    <3>1. a \in 1 .. len[j] /\ order2[j] = order[j] /\ len2[j] = len[j]
      BY <1>14, <1>16, <2>1
    <3>2. order[j][a] \in HashNodes
      BY <1>5, <3>1
    <3>3. order[j][a] # n
      BY <1>6, <1>20, <2>1, <3>1
    <3>4. order[j][a] # after
      <4>1. CASE p = num
        BY <1>7, <1>8, <3>2, <4>1
      <4>2. CASE p # num
        <5>1. p + 1 \in 1 .. num
          BY <1>6, <4>2
        <5> QED  BY <1>8, <1>20, <2>1, <3>1, <4>2, <5>1
      <4> QED  BY <4>1, <4>2
    <3>5. order[j][a] # region
      <4>1. CASE p = 1
        BY <1>7, <1>8, <3>2, <4>1
      <4>2. CASE p # 1
        <5>1. p - 1 \in 1 .. num
          BY <1>6, <4>2
        <5> QED  BY <1>8, <1>20, <2>1, <3>1, <4>2, <5>1
      <4> QED  BY <4>1, <4>2
    <3>6. link'[order[j][a]] = link[order[j][a]] /\ pf'[order[j][a]] = pf[order[j][a]]
      BY <1>7, <1>11, <1>13, <3>2, <3>3, <3>4, <3>5
    <3> QED  BY <1>5, <3>1, <3>6
  <2>2. CASE j = k
    <3>1. a \in 1 .. num - 1 /\ order2[j] = r /\ len2[j] = num - 1
      BY <1>14, <1>16, <2>2
    <3>2. PICK b \in 1 .. num : r[a] = q[b] /\ b # p /\ b = IF a < p THEN a ELSE a + 1
      BY <1>21, <3>1
    <3>3. q[b] \in HashNodes /\ q[b] # n
      BY <1>6, <1>9, <1>19, <3>2
    <3>4. q[b] = region <=> b = p - 1
      <4>1. CASE p = 1
        BY <1>6, <1>7, <1>8, <3>2, <3>3, <4>1
      <4>2. CASE p # 1
        <5>1. p - 1 \in 1 .. num /\ region = q[p - 1]
          BY <1>6, <1>8, <4>2
        <5> QED  BY <1>9, <3>2, <5>1
      <4> QED  BY <4>1, <4>2
    <3>5. q[b] = after <=> b = p + 1
      <4>1. CASE p = num
        BY <1>6, <1>7, <1>8, <3>2, <3>3, <4>1
      <4>2. CASE p # num
        <5>1. p + 1 \in 1 .. num /\ after = q[p + 1]
          BY <1>6, <1>8, <4>2
        <5> QED  BY <1>9, <3>2, <5>1
      <4> QED  BY <4>1, <4>2
    <3>6. link'[q[b]] = IF b = p - 1 THEN after ELSE link[q[b]]
      BY <1>7, <1>11, <3>3, <3>4
    <3>7. pf'[q[b]] = IF b = p + 1 THEN region ELSE pf[q[b]]
      BY <1>13, <3>3, <3>5
    <3>8. link[q[b]] = IF b = num THEN NoNode ELSE q[b + 1]
      BY <1>19
    <3>9. pf[q[b]] = IF b = 1 THEN k ELSE q[b - 1]
      BY <1>19
    <3>10. link'[q[b]] = IF a = num - 1 THEN NoNode ELSE r[a + 1]
      <4>1. a # num - 1 => r[a + 1] = IF a + 1 < p THEN q[a + 1] ELSE q[a + 2]
        BY <1>6, <1>17, <3>1
      <4>2. CASE a < p - 1
        BY <1>6, <3>1, <3>2, <3>6, <3>8, <4>1, <4>2
      <4>3. CASE a = p - 1
        BY <1>6, <1>8, <3>1, <3>2, <3>6, <4>1, <4>3
      <4>4. CASE a > p - 1
        BY <1>6, <3>1, <3>2, <3>6, <3>8, <4>1, <4>4
      <4> QED  BY <1>6, <3>1, <4>2, <4>3, <4>4
    <3>11. pf'[q[b]] = IF a = 1 THEN k ELSE r[a - 1]
      <4>1. a # 1 => r[a - 1] = IF a - 1 < p THEN q[a - 1] ELSE q[a]
        BY <1>6, <1>17, <3>1
      <4>2. CASE a < p
        BY <1>6, <3>1, <3>2, <3>7, <3>9, <4>1, <4>2
      <4>3. CASE a = p
        BY <1>6, <1>8, <3>1, <3>2, <3>7, <4>1, <4>3
      <4>4. CASE a > p
        BY <1>6, <3>1, <3>2, <3>7, <3>9, <4>1, <4>4
      <4> QED  BY <1>6, <3>1, <4>2, <4>3, <4>4
    <3> QED  BY <2>2, <3>1, <3>2, <3>10, <3>11
  <2> QED  BY <2>1, <2>2
<1>25. ASSUME NEW m \in HashNodes, \A j \in HashKeys : \A a \in 1 .. len2[j] : order2[j][a] # m
       PROVE  link'[m] = NoNode /\ pf'[m] \in {NoNode, m}
  <2>1. CASE m = n
    BY <1>7, <1>11, <1>13, <2>1
  <2>2. CASE m # n
    <3>1. ASSUME NEW j \in HashKeys, NEW a \in 1 .. len[j], order[j][a] = m  PROVE FALSE
      <4>1. CASE j = k
        <5>1. a \in 1 .. num /\ q[a] = m /\ a # p
          BY <1>6, <2>2, <3>1, <4>1 DEF num, q
        <5> DEFINE b == IF a < p THEN a ELSE a - 1
        <5>2. b \in 1 .. num - 1 /\ r[b] = q[a]
          BY <1>6, <1>17, <5>1
        <5> HIDE DEF b
        <5> QED  BY <1>14, <1>16, <1>25, <5>1, <5>2
      <4>2. CASE j # k
        BY <1>14, <1>16, <1>25, <3>1, <4>2
      <4> QED  BY <4>1, <4>2
    <3>2. link[m] = NoNode /\ pf[m] \in {NoNode, m}
      BY <3>1, ChainedFacts DEF pf
    <3>3. m # region
      <4>1. CASE p = 1
        BY <1>7, <1>8, <4>1
      <4>2. CASE p # 1
        <5>1. p - 1 \in 1 .. len[k] /\ order[k][p - 1] = region
          BY <1>6, <1>8, <4>2 DEF num, q
        <5> QED  BY <3>1, <5>1
      <4> QED  BY <4>1, <4>2
    <3>4. m # after
      <4>1. CASE p = num
        BY <1>7, <1>8, <4>1
      <4>2. CASE p # num
        <5>1. p + 1 \in 1 .. len[k] /\ order[k][p + 1] = after
          BY <1>6, <1>8, <4>2 DEF num, q
        <5> QED  BY <3>1, <5>1
      <4> QED  BY <4>1, <4>2
    <3> QED  BY <1>7, <1>11, <1>13, <2>2, <3>2, <3>3, <3>4
  <2> QED  BY <2>1, <2>2
<1>26. Chained(len2, order2, link', pf')
  BY <1>11, <1>12, <1>14, <1>18, <1>22, <1>23, <1>24, <1>25, Zenon DEF Chained
<1> QED  BY <1>26 DEF len2, order2, r, num, q, pf

(* The counters one more and one less, modulo the width of an unsigned.     *)
LEMMA CountStep ==
    ASSUME NEW c \in Nat, NEW d \in 0 .. CountSize - 1, d = c % CountSize
    PROVE  /\ (d + 1) % CountSize = (c + 1) % CountSize
           /\ c # 0 => (d + CountSize - 1) % CountSize = (c - 1) % CountSize
<1> DEFINE W == CountSize
<1>1. W \in Nat \ {0}
  BY HashConstants
<1> HIDE DEF W
<1>2. d \in Nat /\ d \in 0 .. W - 1 /\ d = c % W
  BY <1>1 DEF W
<1>3. d % W = d
  BY <1>1, <1>2, Wraps
<1>4. (d + 1) % W = (c + 1) % W
  BY <1>1, <1>2, <1>3, SameAfterOneMore
<1>5. ASSUME c # 0  PROVE (d + W - 1) % W = (c - 1) % W
  <2> DEFINE e == (d + W - 1) % W
             b == c - 1
  <2>1. e \in 0 .. W - 1 /\ (e + 1) % W = d
    BY <1>1, <1>2, OneLess
  <2>2. b \in Nat /\ c = b + 1
    BY <1>5
  <2> HIDE DEF e, b
  <2>3. (e + 1) % W = (b + 1) % W
    BY <1>2, <2>1, <2>2
  <2>a. e \in Int /\ b \in Int
    BY <1>1, <2>1, <2>2
  <2>4. e % W = b % W
    BY <1>1, <2>a, <2>3, SameBeforeOneMore
  <2>5. e % W = e
    BY <1>1, <2>1, Wraps
  <2> QED  BY <2>4, <2>5 DEF e, b
<1> QED  BY <1>4, <1>5 DEF W

\* The nodes that are in a chain, by their own fields.
Busy == {n \in HashNodes : prev_firstregion[n] # NoNode /\ prev_firstregion[n] # n}

(* The nodes in chains are those that point at a field that is not their own. *)
LEMMA HashedBusy == HashInv => Hashed = Busy
<1> SUFFICES ASSUME HashInv  PROVE Hashed = Busy
  OBVIOUS
<1>1. PICK len, order : Chained(len, order, link, prev_firstregion)
  BY DEF HashInv
<1>2. \A n \in HashNodes : n \in Hashed <=> n \in Busy
  BY <1>1, HashedAre DEF Busy
<1>3. ASSUME NEW n \in Hashed  PROVE n \in HashNodes
  <2>1. PICK k \in HashKeys : n \in Chain(k)
    BY DEF Hashed
  <2>2. PICK a \in 1 .. len[k] : n = order[k][a]
    BY <1>1, <2>1, ChainIs
  <2> QED  BY <1>1, <2>2, ChainedFacts
<1> QED  BY <1>2, <1>3 DEF Busy

(* How a step changes the counters and the nodes in chains.                 *)
HashMoves ==
  \/ nodenum' = nodenum /\ Busy' = Busy
  \/ \E k \in HashKeys : \E n \in HashNodes \ Busy :
        nodenum' = [nodenum EXCEPT ![k] = (nodenum[k] + 1) % CountSize] /\ Busy' = Busy \cup {n}
  \/ \E k \in HashKeys : \E n \in Busy :
        nodenum' = [nodenum EXCEPT ![k] = (nodenum[k] + CountSize - 1) % CountSize] /\ Busy' = Busy \ {n}

(* A caller that makes a node point at its own next changes no chain.       *)
LEMMA PrepareInv ==
    ASSUME HashInv, NEW n \in HashNodes, PrepareNode(n)
    PROVE  HashInv' /\ HashMoves
<1>1. PICK len, order : Chained(len, order, link, prev_firstregion) /\ Counted(len)
  BY DEF HashInv
<1>2. Chained(len, order, link', prev_firstregion')
  BY <1>1, PrepareHolds
<1>3. /\ nodenum' = nodenum /\ misnamed' = misnamed /\ prev_firstregion[n] = NoNode
      /\ prev_firstregion' = [prev_firstregion EXCEPT ![n] = n]
      /\ prev_firstregion \in [HashNodes -> Fields \cup {NoNode}]
  BY <1>1, ChainedFacts DEF PrepareNode
<1>4. Counted(len)'
  BY <1>1, <1>3 DEF Counted
<1>5. Busy' = Busy
  BY <1>3 DEF Busy
<1> QED  BY <1>2, <1>3, <1>4, <1>5 DEF HashInv, HashMoves

(* AddHashNode puts a node first in the chain of its key (hash.c:48-54).    *)
LEMMA AddInv ==
    ASSUME HashInv, NEW n \in HashNodes, NEW k \in HashKeys, AddHashNode(k, n)
    PROVE  HashInv' /\ HashMoves
<1>1. PICK len, order : Chained(len, order, link, prev_firstregion) /\ Counted(len)
  BY DEF HashInv
<1>2. prev_firstregion[n] # NoNode /\ misnamed' = misnamed
  BY DEF AddHashNode
<1>3. CASE ~IsUnhashed(n)
  <2>1. UNCHANGED <<link, prev_firstregion, nodenum, misnamed>>
    BY <1>2, <1>3 DEF AddHashNode
  <2>2. Counted(len)' /\ Chained(len, order, link', prev_firstregion') /\ Busy' = Busy
    BY <1>1, <2>1 DEF Counted, Busy
  <2> QED  BY <2>1, <2>2 DEF HashInv, HashMoves
<1>4. CASE IsUnhashed(n)
  <2> DEFINE len2 == [len EXCEPT ![k] = len[k] + 1]
             order2 == WithFirst(len, order, k, n)
  <2>1. /\ InsertHashNode_Head(k, n)
        /\ nodenum' = [nodenum EXCEPT ![k] = (nodenum[k] + 1) % CountSize]
    BY <1>4 DEF AddHashNode
  <2>2. prev_firstregion[n] = n
    BY <1>1, <1>2, <1>4, HashedAre DEF IsUnhashed
  <2>a. prev_firstregion[n] \in {NoNode, n}
    BY <2>2
  <2>3. Chained(len2, order2, link', prev_firstregion')
    <3>1. PICK first : first = link[k]
      OBVIOUS
    <3>2. /\ link' = [link EXCEPT ![n] = first, ![k] = n]
          /\ prev_firstregion' = [m \in HashNodes |-> IF m = n THEN k ELSE IF m = first THEN n
                                                      ELSE prev_firstregion[m]]
      BY <2>1, <3>1 DEF InsertHashNode_Head
    <3>3. Chained(len, order, link, prev_firstregion)
      BY <1>1
    <3> QED  BY <2>a, <3>1, <3>2, <3>3, InsertHolds
  <2>4. len \in [HashKeys -> Nat] /\ nodenum \in [HashKeys -> 0 .. CountSize - 1] /\ misnamed \in BOOLEAN
    BY <1>1, ChainedFacts DEF Counted
  <2>5. ASSUME ~misnamed', NEW j \in HashKeys  PROVE nodenum'[j] = len2[j] % CountSize
    <3>1. nodenum[j] = len[j] % CountSize /\ nodenum[j] \in 0 .. CountSize - 1 /\ len[j] \in Nat
      BY <1>1, <1>2, <2>4, <2>5 DEF Counted
    <3>2. (nodenum[j] + 1) % CountSize = (len[j] + 1) % CountSize
      BY <3>1, CountStep
    <3> QED  BY <2>1, <2>4, <3>1, <3>2
  <2>6. nodenum' \in [HashKeys -> 0 .. CountSize - 1]
    <3>1. nodenum[k] \in 0 .. CountSize - 1
      BY <2>4
    <3>2. (nodenum[k] + 1) % CountSize \in 0 .. CountSize - 1
      BY <3>1, HashConstants
    <3> QED  BY <2>1, <2>4, <3>2
  <2> HIDE DEF len2, order2
  <2>7. Counted(len2)'
    BY <1>2, <2>4, <2>5, <2>6 DEF Counted
  <2>8. Busy' = Busy \cup {n} /\ n \notin Busy
    <3>1. PICK h : h = link[k] /\ h \in HashNodes \cup {NoNode} /\ (h # NoNode => h \in Busy)
      <4>1. link[k] \in HashNodes \cup {NoNode}
        BY <1>1, ChainedFacts, HashConstants
      <4>2. ASSUME link[k] # NoNode  PROVE link[k] \in Busy
        <5>1. len[k] \in Nat /\ link[k] = IF len[k] = 0 THEN NoNode ELSE order[k][1]
          BY <1>1, ChainedFacts
        <5>2. 1 \in 1 .. len[k] /\ order[k][1] = link[k]
          BY <4>2, <5>1
        <5> QED  BY <1>1, <4>1, <4>2, <5>2, HashedAre DEF Busy
      <4> QED  BY <4>1, <4>2
    <3>2. \A m \in HashNodes : prev_firstregion'[m] = IF m = n THEN k ELSE IF m = h THEN n ELSE prev_firstregion[m]
      BY <2>1, <3>1 DEF InsertHashNode_Head
    <3>3. k # n /\ k # NoNode /\ n # NoNode
      BY HashConstants
    <3>4. n \notin Busy
      BY <2>2 DEF Busy
    <3>5. ASSUME NEW m \in HashNodes
          PROVE  (prev_firstregion'[m] # NoNode /\ prev_firstregion'[m] # m) <=> m = n \/ m \in Busy
      <4>1. m \in Busy <=> prev_firstregion[m] # NoNode /\ prev_firstregion[m] # m
        BY DEF Busy
      <4>2. CASE m = n
        BY <3>2, <3>3, <4>2
      <4>3. CASE m # n /\ m = h
        <5>1. prev_firstregion'[m] = n /\ m \in Busy
          BY <3>1, <3>2, <4>3, HashConstants
        <5> QED  BY <3>3, <4>3, <5>1
      <4>4. CASE m # n /\ m # h
        BY <3>2, <4>1, <4>4
      <4> QED  BY <4>2, <4>3, <4>4
    <3>6. Busy' = {m \in HashNodes : prev_firstregion'[m] # NoNode /\ prev_firstregion'[m] # m}
      BY DEF Busy
    <3>7. Busy \subseteq HashNodes
      BY DEF Busy
    <3> QED  BY <3>4, <3>5, <3>6, <3>7
  <2> QED  BY <2>1, <2>3, <2>7, <2>8 DEF HashInv, HashMoves
<1> QED  BY <1>3, <1>4

(* DeleteHashNode takes a node out of the chain it is in, and counts it off the
   key it is called with (hash.c:67-72).                                     *)
LEMMA DeleteInv ==
    ASSUME HashInv, NEW n \in HashNodes, NEW k \in HashKeys, DeleteHashNode(k, n)
    PROVE  HashInv' /\ HashMoves
<1>1. PICK len, order : Chained(len, order, link, prev_firstregion) /\ Counted(len)
  BY DEF HashInv
<1>2. prev_firstregion[n] # NoNode
  BY DEF DeleteHashNode
<1>3. CASE IsUnhashed(n)
  <2>1. UNCHANGED <<link, prev_firstregion, nodenum, misnamed>>
    BY <1>3 DEF DeleteHashNode, hashVars
  <2>2. Counted(len)' /\ Chained(len, order, link', prev_firstregion') /\ Busy' = Busy
    BY <1>1, <2>1 DEF Counted, Busy
  <2> QED  BY <2>1, <2>2 DEF HashInv, HashMoves
<1>4. CASE ~IsUnhashed(n)
  <2>1. /\ RemoveHashNode(n)
        /\ nodenum' = [nodenum EXCEPT ![k] = (nodenum[k] + CountSize - 1) % CountSize]
        /\ misnamed' = (misnamed \/ n \notin Chain(k))
    BY <1>4 DEF DeleteHashNode
  <2>2. prev_firstregion[n] # n /\ \E j \in HashKeys : \E a \in 1 .. len[j] : order[j][a] = n
    BY <1>1, <1>2, <1>4, HashedAre DEF IsUnhashed
  <2>a. PICK j \in HashKeys : \E a \in 1 .. len[j] : order[j][a] = n
    BY <2>2
  <2>3. PICK p \in 1 .. len[j] : order[j][p] = n
    BY <2>a
  <2> DEFINE len2 == [len EXCEPT ![j] = len[j] - 1]
             order2 == [i \in HashKeys |->
                       IF i = j THEN [a \in 1 .. len[j] - 1 |-> IF a < p THEN order[j][a] ELSE order[j][a + 1]]
                                ELSE order[i]]
  <2>4. Chained(len2, order2, link', prev_firstregion')
    BY <1>1, <2>1, <2>3, RemoveHolds
  <2>5. len \in [HashKeys -> Nat] /\ nodenum \in [HashKeys -> 0 .. CountSize - 1] /\ misnamed \in BOOLEAN
    BY <1>1, ChainedFacts DEF Counted
  <2>6. n \in Chain(k) => k = j
    <3> SUFFICES ASSUME n \in Chain(k)  PROVE k = j
      OBVIOUS
    <3>1. PICK a \in 1 .. len[k] : order[k][a] = n
      BY <1>1, ChainIs
    <3> QED  BY <1>1, <2>3, <3>1, ChainedFacts
  <2>7. ASSUME ~misnamed', NEW i \in HashKeys  PROVE nodenum'[i] = len2[i] % CountSize
    <3>1. ~misnamed /\ k = j
      BY <2>1, <2>6, <2>7
    <3>2. nodenum[i] = len[i] % CountSize /\ nodenum[i] \in 0 .. CountSize - 1 /\ len[i] \in Nat
      BY <1>1, <2>5, <3>1 DEF Counted
    <3>3. CASE i # j
      BY <2>1, <2>5, <3>1, <3>2, <3>3
    <3>4. CASE i = j
      <4>1. len[i] # 0
        BY <2>3, <3>2, <3>4
      <4>2. (nodenum[i] + CountSize - 1) % CountSize = (len[i] - 1) % CountSize
        BY <3>2, <4>1, CountStep
      <4> QED  BY <2>1, <2>5, <3>1, <3>4, <4>2
    <3> QED  BY <3>3, <3>4
  <2>8. nodenum' \in [HashKeys -> 0 .. CountSize - 1]
    <3>1. nodenum[k] \in 0 .. CountSize - 1
      BY <2>5
    <3>2. (nodenum[k] + CountSize - 1) % CountSize \in 0 .. CountSize - 1
      BY <3>1, HashConstants, OneLess
    <3> QED  BY <2>1, <2>5, <3>2
  <2> HIDE DEF len2, order2
  <2>9. Counted(len2)'
    BY <2>1, <2>5, <2>7, <2>8 DEF Counted
  <2>10. Busy' = Busy \ {n} /\ n \in Busy
    <3>1. n \in Busy
      BY <1>2, <2>2 DEF Busy
    <3>2. PICK h, g : h = link[n] /\ g = prev_firstregion[n]
      OBVIOUS
    <3>3. h = NoNode \/ (h \in Busy /\ h # n)
      <4> DEFINE num == len[j]
                 q == order[j]
      <4>1. num \in Nat /\ q \in [1 .. num -> HashNodes] /\ h = IF p = num THEN NoNode ELSE q[p + 1]
        BY <1>1, <2>3, <3>2, ChainedFacts
      <4>2. \A a, b \in 1 .. num : q[a] = q[b] => a = b
        BY <1>1, ChainedFacts
      <4>3. p \in 1 .. num /\ q[p] = n
        BY <2>3
      <4>4. ASSUME p # num  PROVE h \in Busy /\ h # n
        <5>1. p + 1 \in 1 .. len[j] /\ order[j][p + 1] = h /\ h \in HashNodes
          BY <4>1, <4>3, <4>4
        <5>2. h \in Busy
          BY <1>1, <5>1, HashedAre DEF Busy
        <5>3. h # n
          <6> HIDE DEF num, q
          <6>1. p + 1 \in 1 .. num /\ q[p + 1] = h
            BY <5>1 DEF num, q
          <6> QED  BY <4>2, <4>3, <6>1
        <5> QED  BY <5>2, <5>3
      <4> QED  BY <4>1, <4>4
    <3>4. \A m \in HashNodes : prev_firstregion'[m] = IF m = n THEN NoNode ELSE IF m = h THEN g ELSE prev_firstregion[m]
      BY <2>1, <3>2 DEF RemoveHashNode
    <3>5. ASSUME h # NoNode  PROVE g # NoNode /\ g # h
      <4>1. g # NoNode
        BY <1>2, <3>2
      <4>2. CASE p = 1
        <5>1. g = j
          BY <1>1, <2>3, <3>2, <4>2, ChainedFacts
        <5> QED  BY <3>3, <3>5, <4>1, <5>1, HashConstants DEF Busy
      <4>3. CASE p # 1
        <5> DEFINE num == len[j]
                   q == order[j]
        <5>1. /\ num \in Nat /\ q \in [1 .. num -> HashNodes] /\ h = IF p = num THEN NoNode ELSE q[p + 1]
              /\ g = q[p - 1]
          BY <1>1, <2>3, <3>2, <4>3, ChainedFacts
        <5>2. \A a, b \in 1 .. num : q[a] = q[b] => a = b
          BY <1>1, ChainedFacts
        <5>3. p \in 1 .. num
          BY <2>3
        <5> HIDE DEF num, q
        <5>4. p - 1 \in 1 .. num /\ p + 1 \in 1 .. num /\ h = q[p + 1]
          BY <3>5, <4>3, <5>1, <5>3
        <5>5. g # h
          BY <5>1, <5>2, <5>4
        <5> QED  BY <4>1, <5>5
      <4> QED  BY <4>2, <4>3
    <3>6. ASSUME NEW m \in HashNodes
          PROVE  (prev_firstregion'[m] # NoNode /\ prev_firstregion'[m] # m) <=> m # n /\ m \in Busy
      <4>1. m \in Busy <=> prev_firstregion[m] # NoNode /\ prev_firstregion[m] # m
        BY DEF Busy
      <4>2. CASE m = n
        BY <3>4, <4>2
      <4>3. CASE m # n /\ m = h
        <5>1. prev_firstregion'[m] = g /\ m \in Busy /\ h # NoNode
          BY <3>3, <3>4, <4>3, HashConstants
        <5> QED  BY <3>5, <4>3, <5>1
      <4>4. CASE m # n /\ m # h
        BY <3>4, <4>1, <4>4
      <4> QED  BY <4>2, <4>3, <4>4
    <3>7. Busy' = {m \in HashNodes : prev_firstregion'[m] # NoNode /\ prev_firstregion'[m] # m}
      BY DEF Busy
    <3>8. Busy \subseteq HashNodes
      BY DEF Busy
    <3> QED  BY <3>1, <3>6, <3>7, <3>8
  <2> QED  BY <2>1, <2>4, <2>9, <2>10 DEF HashInv, HashMoves
<1> QED  BY <1>3, <1>4

(* Every call of hash.c keeps the invariant.                                *)
LEMMA HashStep ==
    ASSUME HashInv, HashNext
    PROVE  HashInv' /\ HashMoves
<1>1. PICK n \in HashNodes : \/ PrepareNode(n)
                             \/ \E k \in HashKeys : AddHashNode(k, n) \/ DeleteHashNode(k, n)
  BY DEF HashNext
<1> QED  BY <1>1, PrepareInv, AddInv, DeleteInv

(* Nothing moves when the hash list does not.                               *)
LEMMA HashSame ==
    ASSUME HashInv, UNCHANGED hashVars
    PROVE  HashInv' /\ Busy' = Busy /\ nodenum' = nodenum
<1>1. PICK len, order : Chained(len, order, link, prev_firstregion) /\ Counted(len)
  BY DEF HashInv
<1>2. UNCHANGED <<link, prev_firstregion, nodenum, misnamed>>
  BY DEF hashVars
<1>3. Counted(len)' /\ Chained(len, order, link', prev_firstregion') /\ Busy' = Busy
  BY <1>1, <1>2 DEF Counted, Busy
<1> QED  BY <1>2, <1>3 DEF HashInv

(* The invariant gives the types.                                           *)
LEMMA HashTypes == HashInv => HashTypeOK
<1> SUFFICES ASSUME HashInv  PROVE HashTypeOK
  OBVIOUS
<1>1. PICK len, order : Chained(len, order, link, prev_firstregion) /\ Counted(len)
  BY DEF HashInv
<1> QED  BY <1>1, ChainedFacts DEF HashTypeOK, Counted

(* The chains end, are disjoint, and their nodes are pointed at once.       *)
LEMMA ChainsStructure ==
    ASSUME HashInv
    PROVE  /\ \A k \in HashKeys : walk(k)[Cardinality(HashNodes)] = NoNode
           /\ \A j, k \in HashKeys : j # k => Chain(j) \cap Chain(k) = {}
           /\ \A n \in Hashed : {f \in Fields : link[f] = n} = {prev_firstregion[n]}
           /\ ~misnamed => \A k \in HashKeys : nodenum[k] = Cardinality(Chain(k)) % CountSize
<1>1. PICK len, order : Chained(len, order, link, prev_firstregion) /\ Counted(len)
  BY DEF HashInv
<1> HIDE DEF HashInv
<1>2. ASSUME NEW k \in HashKeys
      PROVE  /\ len[k] \in Nat /\ order[k] \in [1 .. len[k] -> HashNodes]
             /\ len[k] <= Cardinality(HashNodes)
             /\ \A i \in 0 .. Cardinality(HashNodes) :
                   walk(k)[i] = IF i < len[k] THEN order[k][i + 1] ELSE NoNode
             /\ Chain(k) = {order[k][a] : a \in 1 .. len[k]}
  BY <1>1, ChainIs, ChainedFacts
<1>3. ASSUME NEW k \in HashKeys  PROVE walk(k)[Cardinality(HashNodes)] = NoNode
  BY <1>2, HashConstants
<1>4. ASSUME NEW j \in HashKeys, NEW k \in HashKeys, j # k  PROVE Chain(j) \cap Chain(k) = {}
  <2> SUFFICES ASSUME NEW x, x \in Chain(j), x \in Chain(k)  PROVE FALSE
    OBVIOUS
  <2>1. PICK a \in 1 .. len[j] : x = order[j][a]
    BY <1>2
  <2>2. PICK b \in 1 .. len[k] : x = order[k][b]
    BY <1>2
  <2>3. \A c \in 1 .. len[j], d \in 1 .. len[k] : order[j][c] = order[k][d] => j = k /\ c = d
    BY <1>1, ChainedFacts
  <2> QED  BY <1>4, <2>1, <2>2, <2>3
<1>5. ASSUME NEW n \in Hashed
      PROVE  {f \in Fields : link[f] = n} = {prev_firstregion[n]}
  <2>1. n \in Busy
    BY HashedBusy
  <2>2. n \in HashNodes /\ prev_firstregion[n] # NoNode /\ prev_firstregion[n] # n
    BY <2>1 DEF Busy
  <2>3. PICK k \in HashKeys : n \in Chain(k)
    BY DEF Hashed
  <2>4. PICK a \in 1 .. len[k] : n = order[k][a]
    BY <1>2, <2>3
  <2>5. prev_firstregion[n] = IF a = 1 THEN k ELSE order[k][a - 1]
    BY <1>1, <2>4, ChainedFacts
  <2>6. ASSUME NEW f \in Fields, link[f] = n  PROVE f = prev_firstregion[n]
    <3>1. CASE f \in HashKeys
      <4>1. link[f] = IF len[f] = 0 THEN NoNode ELSE order[f][1]
        BY <1>1, <3>1, ChainedFacts
      <4>2. 1 \in 1 .. len[f] /\ order[f][1] = n
        BY <1>2, <2>2, <2>6, <3>1, <4>1, HashConstants
      <4>3. f = k /\ a = 1
        <5>1. \A c \in 1 .. len[f], d \in 1 .. len[k] : order[f][c] = order[k][d] => f = k /\ c = d
          BY <1>1, <3>1, ChainedFacts
        <5> QED  BY <2>4, <4>2, <5>1
      <4> QED  BY <2>5, <4>3
    <3>2. CASE f \in HashNodes
      <4>1. f \in Busy
        BY <1>1, <2>2, <2>6, <3>2, HashedAre, HashConstants DEF Busy
      <4>2. PICK j \in HashKeys : \E b \in 1 .. len[j] : order[j][b] = f
        BY <1>1, <3>2, <4>1, HashedAre DEF Busy
      <4>3. PICK b \in 1 .. len[j] : order[j][b] = f
        BY <4>2
      <4>4. n = IF b = len[j] THEN NoNode ELSE order[j][b + 1]
        BY <1>1, <2>6, <4>3, ChainedFacts
      <4>5. b + 1 \in 1 .. len[j] /\ order[j][b + 1] = n
        BY <1>2, <2>2, <4>4, HashConstants
      <4>6. j = k /\ a = b + 1
        <5>1. \A c \in 1 .. len[j], d \in 1 .. len[k] : order[j][c] = order[k][d] => j = k /\ c = d
          BY <1>1, ChainedFacts
        <5> QED  BY <2>4, <4>5, <5>1
      <4> QED  BY <1>2, <2>5, <4>3, <4>6
    <3> QED  BY <3>1, <3>2, HashConstants
  <2>7. prev_firstregion[n] \in Fields /\ link[prev_firstregion[n]] = n
    <3>1. CASE a = 1
      <4>1. link[k] = IF len[k] = 0 THEN NoNode ELSE order[k][1]
        BY <1>1, ChainedFacts
      <4> QED  BY <1>2, <2>4, <2>5, <3>1, <4>1, HashConstants
    <3>2. CASE a # 1
      <4>1. a - 1 \in 1 .. len[k] /\ a - 1 # len[k] /\ (a - 1) + 1 = a
        BY <1>2, <3>2
      <4>2. link[order[k][a - 1]] = IF a - 1 = len[k] THEN NoNode ELSE order[k][(a - 1) + 1]
        BY <1>1, <4>1, ChainedFacts
      <4>3. order[k][a - 1] \in HashNodes
        BY <1>2, <4>1
      <4> QED  BY <2>4, <2>5, <3>2, <4>1, <4>2, <4>3, HashConstants
    <3> QED  BY <3>1, <3>2
  <2> QED  BY <2>6, <2>7
<1>6. ASSUME NEW k \in HashKeys  PROVE Cardinality(Chain(k)) = len[k]
  <2> DEFINE num == len[k]
             q == order[k]
             S == Chain(k)
  <2>1. num \in Nat /\ q \in [1 .. num -> HashNodes] /\ S = {q[a] : a \in 1 .. num}
    BY <1>2
  <2>2. \A a, b \in 1 .. num : q[a] = q[b] => a = b
    BY <1>1, ChainedFacts
  <2> HIDE DEF num, q, S
  <2>3. q \in Bijection(1 .. num, S)
    BY <2>1, <2>2 DEF Bijection, Injection, Surjection, IsInjective
  <2>4. ExistsBijection(1 .. num, S)
    BY <2>3 DEF ExistsBijection
  <2>5. 1 \in Int /\ num \in Int
    BY <2>1
  <2>6. IsFiniteSet(1 .. num) /\ Cardinality(1 .. num) = IF 1 > num THEN 0 ELSE num - 1 + 1
    BY <2>5, FS_Interval
  <2>7. Cardinality(S) = num
    BY <2>1, <2>4, <2>6, FS_Bijection
  <2> QED  BY <2>7 DEF num, S
<1>7. ~misnamed => \A k \in HashKeys : nodenum[k] = Cardinality(Chain(k)) % CountSize
  BY <1>1, <1>6 DEF Counted
<1> QED  BY <1>3, <1>4, <1>5, <1>7
-----------------------------------------------------------------------------
\* The key whose counter the fold over the counters adds next.
NextKey(s) == CHOOSE x \in s : TRUE

\* g gives the sum of f over every subset of D.
IsTotal(g, f, D) ==
  g = [s \in SUBSET D |-> IF s = {} THEN 0 ELSE f[NextKey(s)] + g[s \ {NextKey(s)}]]

\* A sum over a set is that of the rest and any one member.
Adds(g, f, D) ==
  g[{}] = 0 /\ \A s \in SUBSET D : g[s] \in Int /\ \A x \in s : g[s] = f[x] + g[s \ {x}]

Total(f, D) == (CHOOSE g : IsTotal(g, f, D))[D]

(* A set without one of its members.                                        *)
LEMMA OneKeyLess ==
    ASSUME NEW D, IsFiniteSet(D), NEW s \in SUBSET D, NEW x \in s
    PROVE  /\ s \ {x} \in SUBSET D /\ Cardinality(s) \in Nat
           /\ Cardinality(s \ {x}) \in Nat /\ Cardinality(s \ {x}) = Cardinality(s) - 1
<1>1. IsFiniteSet(s)
  BY FS_Subset
<1>2. IsFiniteSet(s \ {x}) /\ Cardinality(s \ {x}) = Cardinality(s) - 1
  BY <1>1, FS_RemoveElement
<1> QED  BY <1>1, <1>2, FS_CardinalityType

(* The key that is added next is one of the set.                            *)
LEMMA NextKeyIn == ASSUME NEW s, s # {}  PROVE NextKey(s) \in s
  BY DEF NextKey

(* The sums over the subsets of a finite set exist.                         *)
LEMMA TotalExists ==
    ASSUME NEW D, IsFiniteSet(D), NEW f \in [D -> Int]
    PROVE  \E g : IsTotal(g, f, D)
<1> DEFINE Upto(n) == \E g \in [SUBSET D -> Int] : \A s \in SUBSET D : Cardinality(s) <= n =>
                g[s] = IF s = {} THEN 0 ELSE f[NextKey(s)] + g[s \ {NextKey(s)}]
           T == {n \in Nat : ~Upto(n)}
<1>1. ASSUME NEW s \in SUBSET D, s # {}  PROVE NextKey(s) \in s /\ NextKey(s) \in D
  BY <1>1, NextKeyIn
<1>2. ASSUME T # {}  PROVE FALSE
  <2>1. PICK n \in T : \A m \in T : n <= m
    <3> HIDE DEF Upto
    <3>1. T \in SUBSET Nat
      OBVIOUS
    <3> HIDE DEF T
    <3> QED  BY <1>2, <3>1, LeastNatural
  <2>2. n \in Nat /\ ~Upto(n)
    OBVIOUS
  <2>3. CASE n = 0
    <3> DEFINE z == [s \in SUBSET D |-> 0]
    <3>1. z \in [SUBSET D -> Int]
      OBVIOUS
    <3>2. ASSUME NEW s \in SUBSET D, Cardinality(s) <= 0
          PROVE  z[s] = IF s = {} THEN 0 ELSE f[NextKey(s)] + z[s \ {NextKey(s)}]
      <4>1. IsFiniteSet(s)
        BY FS_Subset
      <4>2. s = {}
        BY <3>2, <4>1, FS_CardinalityType, FS_EmptySet
      <4> QED  BY <4>2
    <3> HIDE DEF z
    <3> QED  BY <2>2, <2>3, <3>1, <3>2
  <2>4. CASE n # 0
    <3>1. n - 1 \in Nat /\ n - 1 \notin T
      <4> HIDE DEF T
      <4> QED  BY <2>1, <2>2, <2>4
    <3>2. Upto(n - 1)
      <4> HIDE DEF Upto
      <4> QED  BY <3>1
    <3>3. PICK g \in [SUBSET D -> Int] : \A s \in SUBSET D : Cardinality(s) <= n - 1 =>
              g[s] = IF s = {} THEN 0 ELSE f[NextKey(s)] + g[s \ {NextKey(s)}]
      BY <3>2
    <3> DEFINE h == [s \in SUBSET D |-> IF s = {} THEN 0 ELSE f[NextKey(s)] + g[s \ {NextKey(s)}]]
    <3>4. h \in [SUBSET D -> Int]
      <4>1. ASSUME NEW s \in SUBSET D, s # {}  PROVE f[NextKey(s)] + g[s \ {NextKey(s)}] \in Int
        <5>1. f[NextKey(s)] \in Int
          BY <1>1, <4>1
        <5>2. s \ {NextKey(s)} \in SUBSET D
          OBVIOUS
        <5>3. g[s \ {NextKey(s)}] \in Int
          BY <5>2
        <5> QED  BY <5>1, <5>3
      <4> QED  BY <4>1
    <3>5. ASSUME NEW s \in SUBSET D, Cardinality(s) <= n
          PROVE  h[s] = IF s = {} THEN 0 ELSE f[NextKey(s)] + h[s \ {NextKey(s)}]
      <4>1. CASE s = {}
        BY <4>1
      <4>2. CASE s # {}
        <5> DEFINE x == NextKey(s)
                   t == s \ {x}
        <5>1. x \in s
          BY <1>1, <4>2
        <5>2. h[s] = f[x] + g[t]
          BY <4>2
        <5> HIDE DEF x, h
        <5>3. t \in SUBSET D /\ Cardinality(t) <= n - 1
          BY <2>2, <3>5, <5>1, OneKeyLess
        <5> HIDE DEF t
        <5>4. h[t] = g[t]
          BY <3>3, <5>3 DEF h
        <5> QED  BY <4>2, <5>2, <5>4 DEF t, x
      <4> QED  BY <4>1, <4>2
    <3> HIDE DEF h
    <3> QED  BY <2>2, <3>4, <3>5
  <2> QED  BY <2>3, <2>4
<1>3. Cardinality(D) \in Nat
  BY FS_CardinalityType
<1>4. Upto(Cardinality(D))
  <2> HIDE DEF Upto
  <2> QED  BY <1>2, <1>3
<1>5. PICK g \in [SUBSET D -> Int] : \A s \in SUBSET D : Cardinality(s) <= Cardinality(D) =>
              g[s] = IF s = {} THEN 0 ELSE f[NextKey(s)] + g[s \ {NextKey(s)}]
  BY <1>4
<1>6. ASSUME NEW s \in SUBSET D
      PROVE  g[s] = IF s = {} THEN 0 ELSE f[NextKey(s)] + g[s \ {NextKey(s)}]
  BY <1>5, FS_Subset
<1>7. IsTotal(g, f, D)
  BY <1>6 DEF IsTotal
<1> QED  BY <1>7

(* The sums over the subsets of a finite set add up whatever the order.     *)
LEMMA TotalIs ==
    ASSUME NEW D, IsFiniteSet(D), NEW f \in [D -> Int], NEW g, IsTotal(g, f, D)
    PROVE  Adds(g, f, D)
<1>1. \A s \in SUBSET D : g[s] = IF s = {} THEN 0 ELSE f[NextKey(s)] + g[s \ {NextKey(s)}]
  BY DEF IsTotal
<1>2. g[{}] = 0
  BY <1>1
<1> DEFINE Good(s) == g[s] \in Int /\ \A x \in s : g[s] = f[x] + g[s \ {x}]
           T == {n \in Nat : \E s \in SUBSET D : Cardinality(s) = n /\ ~Good(s)}
<1>3. ASSUME T # {}  PROVE FALSE
  <2>1. PICK n \in T : \A m \in T : n <= m
    <3> HIDE DEF Good
    <3>1. T \in SUBSET Nat
      OBVIOUS
    <3> HIDE DEF T
    <3> QED  BY <1>3, <3>1, LeastNatural
  <2>2. PICK s \in SUBSET D : Cardinality(s) = n /\ ~Good(s)
    <3> HIDE DEF Good
    <3> QED  BY <2>1
  <2>3. ASSUME NEW x \in s
        PROVE  /\ g[s \ {x}] \in Int /\ s \ {x} \in SUBSET D
               /\ \A y \in s \ {x} : g[s \ {x}] = f[y] + g[(s \ {x}) \ {y}]
    <3>1. s \ {x} \in SUBSET D /\ Cardinality(s \ {x}) \in Nat /\ Cardinality(s \ {x}) < n /\ n \in Nat
      <4>1. /\ s \ {x} \in SUBSET D /\ Cardinality(s) \in Nat
            /\ Cardinality(s \ {x}) \in Nat /\ Cardinality(s \ {x}) = Cardinality(s) - 1
        BY OneKeyLess
      <4> QED  BY <2>2, <4>1
    <3>2. Good(s \ {x})
      <4> HIDE DEF Good
      <4> QED  BY <2>1, <3>1
    <3> QED  BY <3>1, <3>2
  <2>4. s # {}
    BY <1>2, <2>2
  <2> DEFINE y == NextKey(s)
  <2>5. y \in s /\ g[s] = f[y] + g[s \ {y}]
    BY <1>1, <2>4, NextKeyIn
  <2> HIDE DEF y
  <2>6. \A x \in s : f[x] \in Int
    OBVIOUS
  <2>7. g[s] \in Int
    <3>1. f[y] \in Int /\ g[s \ {y}] \in Int
      BY <2>3, <2>5, <2>6
    <3> QED  BY <2>5, <3>1
  <2>8. ASSUME NEW x \in s  PROVE g[s] = f[x] + g[s \ {x}]
    <3>1. CASE x = y
      BY <2>5, <3>1
    <3>2. CASE x # y
      <4>1. g[s \ {y}] = f[x] + g[(s \ {y}) \ {x}]
        BY <2>3, <2>5, <3>2
      <4>2. g[s \ {x}] = f[y] + g[(s \ {x}) \ {y}] /\ s \ {x} \in SUBSET D
        BY <2>3, <2>5, <3>2
      <4>3. (s \ {x}) \ {y} = (s \ {y}) \ {x}
        OBVIOUS
      <4> DEFINE r == g[(s \ {y}) \ {x}]
      <4>4. r \in Int
        <5>1. (s \ {y}) \in SUBSET D /\ x \in s \ {y} /\ (s \ {y}) \ {x} \in SUBSET D
          BY <2>5, <3>2
        <5>2. Cardinality((s \ {y}) \ {x}) \in Nat /\ Cardinality((s \ {y}) \ {x}) < n /\ n \in Nat
          <6>1. Cardinality(s) \in Nat /\ Cardinality(s \ {y}) = Cardinality(s) - 1
            BY <2>5, OneKeyLess
          <6>2. /\ Cardinality((s \ {y}) \ {x}) \in Nat
                /\ Cardinality((s \ {y}) \ {x}) = Cardinality(s \ {y}) - 1
            <7> DEFINE t == s \ {y}
            <7>1. t \in SUBSET D /\ x \in t
              BY <5>1
            <7> HIDE DEF t
            <7>2. Cardinality(t \ {x}) \in Nat /\ Cardinality(t \ {x}) = Cardinality(t) - 1
              BY <7>1, OneKeyLess
            <7> QED  BY <7>2 DEF t
          <6> QED  BY <2>2, <6>1, <6>2
        <5>3. Good((s \ {y}) \ {x})
          <6> HIDE DEF Good
          <6> QED  BY <2>1, <5>1, <5>2
        <5> QED  BY <5>3
      <4>5. g[s] = f[y] + (f[x] + r) /\ g[s \ {x}] = f[y] + r
        BY <2>5, <4>1, <4>2, <4>3
      <4> HIDE DEF r
      <4>6. f[x] \in Int /\ f[y] \in Int
        BY <2>5, <2>6
      <4> QED  BY <4>4, <4>5, <4>6
    <3> QED  BY <3>1, <3>2
  <2> QED  BY <2>2, <2>7, <2>8
<1>4. ASSUME NEW s \in SUBSET D  PROVE Good(s)
  <2>1. IsFiniteSet(s) /\ Cardinality(s) \in Nat
    BY FS_Subset, FS_CardinalityType
  <2> HIDE DEF Good
  <2> QED  BY <1>3, <2>1
<1> QED  BY <1>2, <1>4 DEF Adds

(* Functions that agree on the members of a set have the same sum over it.  *)
LEMMA TotalAgrees ==
    ASSUME NEW D, IsFiniteSet(D), NEW f \in [D -> Int], NEW f2 \in [D -> Int],
           NEW g, IsTotal(g, f, D), NEW g2, IsTotal(g2, f2, D),
           NEW r \in SUBSET D, \A x \in r : f[x] = f2[x]
    PROVE  g[r] = g2[r]
<1> DEFINE T == {n \in Nat : \E s \in SUBSET r : Cardinality(s) = n /\ g[s] # g2[s]}
<1>0. Adds(g, f, D) /\ Adds(g2, f2, D)
  BY TotalIs
<1>1. /\ g[{}] = 0 /\ g2[{}] = 0
      /\ \A s \in SUBSET D : \A x \in s : g[s] = f[x] + g[s \ {x}]
      /\ \A s \in SUBSET D : \A x \in s : g2[s] = f2[x] + g2[s \ {x}]
  BY <1>0 DEF Adds
<1>2. ASSUME T # {}  PROVE FALSE
  <2>1. PICK n \in T : \A m \in T : n <= m
    <3>1. T \in SUBSET Nat
      OBVIOUS
    <3> HIDE DEF T
    <3> QED  BY <1>2, <3>1, LeastNatural
  <2>2. PICK s \in SUBSET r : Cardinality(s) = n /\ g[s] # g2[s]
    BY <2>1
  <2>3. PICK x \in s : TRUE
    BY <1>1, <2>2
  <2>4. s \ {x} \in SUBSET r /\ s \in SUBSET D
    OBVIOUS
  <2>5. /\ Cardinality(s) \in Nat /\ Cardinality(s \ {x}) \in Nat
        /\ Cardinality(s \ {x}) = Cardinality(s) - 1
    BY <2>4, OneKeyLess
  <2>6. g[s \ {x}] = g2[s \ {x}]
    BY <2>1, <2>2, <2>4, <2>5
  <2>7. f[x] = f2[x]
    OBVIOUS
  <2> QED  BY <1>1, <2>2, <2>4, <2>6, <2>7
<1>3. IsFiniteSet(r) /\ Cardinality(r) \in Nat
  BY FS_Subset, FS_CardinalityType
<1> QED  BY <1>2, <1>3

\* The sum of f over D and the sum once f[k] is v differ by what f[k] changes.
Changes(f, k, v, D) ==
  \E rest \in Int : Total(f, D) = f[k] + rest /\ Total([f EXCEPT ![k] = v], D) = v + rest

(* The sum of the counters after one of them changed.                       *)
LEMMA TotalChanged ==
    ASSUME NEW D, IsFiniteSet(D), NEW f \in [D -> Int], NEW k \in D, NEW v \in Int
    PROVE  Changes(f, k, v, D)
<1>0. PICK f2 : f2 = [f EXCEPT ![k] = v]
  OBVIOUS
<1>1. f2 \in [D -> Int] /\ f2[k] = v /\ \A x \in D \ {k} : f2[x] = f[x]
  BY <1>0
<1> DEFINE g == CHOOSE h : IsTotal(h, f, D)
           g2 == CHOOSE h : IsTotal(h, f2, D)
<1>2. IsTotal(g, f, D)
  BY TotalExists
<1>3. IsTotal(g2, f2, D)
  <2>1. \E h : IsTotal(h, f2, D)
    BY <1>1, TotalExists
  <2> QED  BY <2>1
<1>4. Total(f, D) = g[D] /\ Total(f2, D) = g2[D]
  BY DEF Total
<1> HIDE DEF g, g2
<1>5. D \in SUBSET D /\ D \ {k} \in SUBSET D
  OBVIOUS
<1>6. Adds(g, f, D) /\ Adds(g2, f2, D)
  BY <1>1, <1>2, <1>3, TotalIs
<1>7. /\ g[D] = f[k] + g[D \ {k}] /\ g[D \ {k}] \in Int
      /\ g2[D] = f2[k] + g2[D \ {k}]
  BY <1>5, <1>6 DEF Adds
<1>8. \A x \in D \ {k} : f[x] = f2[x]
  BY <1>1
<1>9. g[D \ {k}] = g2[D \ {k}]
  BY <1>1, <1>2, <1>3, <1>5, <1>8, TotalAgrees
<1> QED  BY <1>0, <1>1, <1>4, <1>7, <1>9 DEF Changes

(* Counters that are all zero have the sum zero.                            *)
LEMMA TotalOfNothing ==
    ASSUME NEW D, IsFiniteSet(D), NEW f \in [D -> Int], \A x \in D : f[x] = 0
    PROVE  Total(f, D) = 0
<1> DEFINE g == CHOOSE h : IsTotal(h, f, D)
           z == [s \in SUBSET D |-> 0]
<1>1. IsTotal(g, f, D)
  BY TotalExists
<1>2. IsTotal(z, f, D)
  <2>1. ASSUME NEW s \in SUBSET D
        PROVE  0 = IF s = {} THEN 0 ELSE f[NextKey(s)] + z[s \ {NextKey(s)}]
    <3>1. CASE s # {}
      <4>1. NextKey(s) \in D
        BY <3>1, NextKeyIn
      <4>2. s \ {NextKey(s)} \in SUBSET D
        OBVIOUS
      <4> QED  BY <4>1, <4>2
    <3> QED  BY <3>1
  <2> QED  BY <2>1 DEF IsTotal
<1>3. Total(f, D) = g[D]
  BY DEF Total
<1> HIDE DEF g
<1>4. z[D] = 0 /\ D \in SUBSET D
  OBVIOUS
<1> HIDE DEF z
<1> QED  BY <1>1, <1>2, <1>3, <1>4, TotalAgrees

(* The library's fold of the counters is that sum.                          *)
LEMMA FoldIsTotal ==
    ASSUME NEW D, NEW f, DOMAIN f = D
    PROVE  FoldFunction(+, 0, f) = Total(f, D)
  BY DEF FoldFunction, FoldFunctionOnSet, MapThenFoldSet, Total, IsTotal, NextKey

(* Any function that gives the sums of f gives its sum over D.              *)
LEMMA TotalOf ==
    ASSUME NEW D, IsFiniteSet(D), NEW f \in [D -> Int], NEW g, IsTotal(g, f, D)
    PROVE  Total(f, D) = g[D] /\ Total(f, D) \in Int
<1> DEFINE g2 == CHOOSE h : IsTotal(h, f, D)
<1>1. IsTotal(g2, f, D) /\ Total(f, D) = g2[D]
  BY DEF Total
<1> HIDE DEF g2
<1>2. D \in SUBSET D /\ \A x \in D : f[x] = f[x]
  OBVIOUS
<1>3. g[D] = g2[D]
  BY <1>1, <1>2, TotalAgrees
<1>4. Adds(g, f, D)
  BY TotalIs
<1> QED  BY <1>1, <1>2, <1>3, <1>4 DEF Adds

\* g gives the product of f over every subset of D.
IsProduct(g, f, D) ==
  g = [s \in SUBSET D |-> IF s = {} THEN 1 ELSE f[NextKey(s)] * g[s \ {NextKey(s)}]]

\* A product over a set is that of the rest and any one member.
Multiplies(g, f, D) ==
  g[{}] = 1 /\ \A s \in SUBSET D : g[s] \in Int /\ \A x \in s : g[s] = f[x] * g[s \ {x}]

Product(f, D) == (CHOOSE g : IsProduct(g, f, D))[D]

(* The products over the subsets of a finite set exist.                     *)
LEMMA ProductExists ==
    ASSUME NEW D, IsFiniteSet(D), NEW f \in [D -> Int]
    PROVE  \E g : IsProduct(g, f, D)
<1> DEFINE Upto(n) == \E g \in [SUBSET D -> Int] : \A s \in SUBSET D : Cardinality(s) <= n =>
                g[s] = IF s = {} THEN 1 ELSE f[NextKey(s)] * g[s \ {NextKey(s)}]
           T == {n \in Nat : ~Upto(n)}
<1>1. ASSUME NEW s \in SUBSET D, s # {}  PROVE NextKey(s) \in s /\ NextKey(s) \in D
  BY <1>1, NextKeyIn
<1>2. ASSUME T # {}  PROVE FALSE
  <2>1. PICK n \in T : \A m \in T : n <= m
    <3> HIDE DEF Upto
    <3>1. T \in SUBSET Nat
      OBVIOUS
    <3> HIDE DEF T
    <3> QED  BY <1>2, <3>1, LeastNatural
  <2>2. n \in Nat /\ ~Upto(n)
    OBVIOUS
  <2>3. CASE n = 0
    <3> DEFINE z == [s \in SUBSET D |-> 1]
    <3>1. z \in [SUBSET D -> Int]
      OBVIOUS
    <3>2. ASSUME NEW s \in SUBSET D, Cardinality(s) <= 0
          PROVE  z[s] = IF s = {} THEN 1 ELSE f[NextKey(s)] * z[s \ {NextKey(s)}]
      <4>1. IsFiniteSet(s)
        BY FS_Subset
      <4>2. s = {}
        BY <3>2, <4>1, FS_CardinalityType, FS_EmptySet
      <4> QED  BY <4>2
    <3> HIDE DEF z
    <3> QED  BY <2>2, <2>3, <3>1, <3>2
  <2>4. CASE n # 0
    <3>1. n - 1 \in Nat /\ n - 1 \notin T
      <4> HIDE DEF T
      <4> QED  BY <2>1, <2>2, <2>4
    <3>2. Upto(n - 1)
      <4> HIDE DEF Upto
      <4> QED  BY <3>1
    <3>3. PICK g \in [SUBSET D -> Int] : \A s \in SUBSET D : Cardinality(s) <= n - 1 =>
              g[s] = IF s = {} THEN 1 ELSE f[NextKey(s)] * g[s \ {NextKey(s)}]
      BY <3>2
    <3> DEFINE h == [s \in SUBSET D |-> IF s = {} THEN 1 ELSE f[NextKey(s)] * g[s \ {NextKey(s)}]]
    <3>4. h \in [SUBSET D -> Int]
      <4>1. ASSUME NEW s \in SUBSET D, s # {}  PROVE f[NextKey(s)] * g[s \ {NextKey(s)}] \in Int
        <5>1. f[NextKey(s)] \in Int
          BY <1>1, <4>1
        <5>2. s \ {NextKey(s)} \in SUBSET D
          OBVIOUS
        <5>3. g[s \ {NextKey(s)}] \in Int
          BY <5>2
        <5> QED  BY <5>1, <5>3
      <4> QED  BY <4>1
    <3>5. ASSUME NEW s \in SUBSET D, Cardinality(s) <= n
          PROVE  h[s] = IF s = {} THEN 1 ELSE f[NextKey(s)] * h[s \ {NextKey(s)}]
      <4>1. CASE s = {}
        BY <4>1
      <4>2. CASE s # {}
        <5> DEFINE x == NextKey(s)
                   t == s \ {x}
        <5>1. x \in s
          BY <1>1, <4>2
        <5>2. h[s] = f[x] * g[t]
          BY <4>2
        <5> HIDE DEF x, h
        <5>3. t \in SUBSET D /\ Cardinality(t) <= n - 1
          BY <2>2, <3>5, <5>1, OneKeyLess
        <5> HIDE DEF t
        <5>4. h[t] = g[t]
          BY <3>3, <5>3 DEF h
        <5> QED  BY <4>2, <5>2, <5>4 DEF t, x
      <4> QED  BY <4>1, <4>2
    <3> HIDE DEF h
    <3> QED  BY <2>2, <3>4, <3>5
  <2> QED  BY <2>3, <2>4
<1>3. Cardinality(D) \in Nat
  BY FS_CardinalityType
<1>4. Upto(Cardinality(D))
  <2> HIDE DEF Upto
  <2> QED  BY <1>2, <1>3
<1>5. PICK g \in [SUBSET D -> Int] : \A s \in SUBSET D : Cardinality(s) <= Cardinality(D) =>
              g[s] = IF s = {} THEN 1 ELSE f[NextKey(s)] * g[s \ {NextKey(s)}]
  BY <1>4
<1>6. ASSUME NEW s \in SUBSET D
      PROVE  g[s] = IF s = {} THEN 1 ELSE f[NextKey(s)] * g[s \ {NextKey(s)}]
  BY <1>5, FS_Subset
<1>7. IsProduct(g, f, D)
  BY <1>6 DEF IsProduct
<1> QED  BY <1>7

(* The products over the subsets of a finite set do not depend on the order. *)
LEMMA ProductIs ==
    ASSUME NEW D, IsFiniteSet(D), NEW f \in [D -> Int], NEW g, IsProduct(g, f, D)
    PROVE  Multiplies(g, f, D)
<1>1. \A s \in SUBSET D : g[s] = IF s = {} THEN 1 ELSE f[NextKey(s)] * g[s \ {NextKey(s)}]
  BY DEF IsProduct
<1>2. g[{}] = 1
  BY <1>1
<1> DEFINE Good(s) == g[s] \in Int /\ \A x \in s : g[s] = f[x] * g[s \ {x}]
           T == {n \in Nat : \E s \in SUBSET D : Cardinality(s) = n /\ ~Good(s)}
<1>3. ASSUME T # {}  PROVE FALSE
  <2>1. PICK n \in T : \A m \in T : n <= m
    <3> HIDE DEF Good
    <3>1. T \in SUBSET Nat
      OBVIOUS
    <3> HIDE DEF T
    <3> QED  BY <1>3, <3>1, LeastNatural
  <2>2. PICK s \in SUBSET D : Cardinality(s) = n /\ ~Good(s)
    <3> HIDE DEF Good
    <3> QED  BY <2>1
  <2>3. ASSUME NEW x \in s
        PROVE  /\ g[s \ {x}] \in Int /\ s \ {x} \in SUBSET D
               /\ \A y \in s \ {x} : g[s \ {x}] = f[y] * g[(s \ {x}) \ {y}]
    <3>1. s \ {x} \in SUBSET D /\ Cardinality(s \ {x}) \in Nat /\ Cardinality(s \ {x}) < n /\ n \in Nat
      <4>1. /\ s \ {x} \in SUBSET D /\ Cardinality(s) \in Nat
            /\ Cardinality(s \ {x}) \in Nat /\ Cardinality(s \ {x}) = Cardinality(s) - 1
        BY OneKeyLess
      <4> QED  BY <2>2, <4>1
    <3>2. Good(s \ {x})
      <4> HIDE DEF Good
      <4> QED  BY <2>1, <3>1
    <3> QED  BY <3>1, <3>2
  <2>4. s # {}
    <3>1. Good({})
      BY <1>2
    <3> HIDE DEF Good
    <3> QED  BY <2>2, <3>1
  <2> DEFINE y == NextKey(s)
  <2>5. y \in s /\ g[s] = f[y] * g[s \ {y}]
    BY <1>1, <2>4, NextKeyIn
  <2> HIDE DEF y
  <2>6. \A x \in s : f[x] \in Int
    OBVIOUS
  <2>7. g[s] \in Int
    <3>1. f[y] \in Int /\ g[s \ {y}] \in Int
      BY <2>3, <2>5, <2>6
    <3> QED  BY <2>5, <3>1
  <2>8. ASSUME NEW x \in s  PROVE g[s] = f[x] * g[s \ {x}]
    <3>1. CASE x = y
      BY <2>5, <3>1
    <3>2. CASE x # y
      <4>1. g[s \ {y}] = f[x] * g[(s \ {y}) \ {x}]
        BY <2>3, <2>5, <3>2
      <4>2. g[s \ {x}] = f[y] * g[(s \ {x}) \ {y}] /\ s \ {x} \in SUBSET D
        BY <2>3, <2>5, <3>2
      <4>3. (s \ {x}) \ {y} = (s \ {y}) \ {x}
        OBVIOUS
      <4> DEFINE r == g[(s \ {y}) \ {x}]
      <4>4. r \in Int
        <5>1. (s \ {y}) \in SUBSET D /\ x \in s \ {y} /\ (s \ {y}) \ {x} \in SUBSET D
          BY <2>5, <3>2
        <5>2. Cardinality((s \ {y}) \ {x}) \in Nat /\ Cardinality((s \ {y}) \ {x}) < n /\ n \in Nat
          <6>1. Cardinality(s) \in Nat /\ Cardinality(s \ {y}) = Cardinality(s) - 1
            BY <2>5, OneKeyLess
          <6>2. /\ Cardinality((s \ {y}) \ {x}) \in Nat
                /\ Cardinality((s \ {y}) \ {x}) = Cardinality(s \ {y}) - 1
            <7> DEFINE t == s \ {y}
            <7>1. t \in SUBSET D /\ x \in t
              BY <5>1
            <7> HIDE DEF t
            <7>2. Cardinality(t \ {x}) \in Nat /\ Cardinality(t \ {x}) = Cardinality(t) - 1
              BY <7>1, OneKeyLess
            <7> QED  BY <7>2 DEF t
          <6> QED  BY <2>2, <6>1, <6>2
        <5>3. Good((s \ {y}) \ {x})
          <6> HIDE DEF Good
          <6> QED  BY <2>1, <5>1, <5>2
        <5> QED  BY <5>3
      <4>5. g[s] = f[y] * (f[x] * r) /\ g[s \ {x}] = f[y] * r
        BY <2>5, <4>1, <4>2, <4>3
      <4> HIDE DEF r
      <4>6. f[x] \in Int /\ f[y] \in Int
        BY <2>5, <2>6
      <4> QED  BY <4>4, <4>5, <4>6
    <3> QED  BY <3>1, <3>2
  <2> QED  BY <2>2, <2>7, <2>8
<1>4. ASSUME NEW s \in SUBSET D  PROVE Good(s)
  <2>1. IsFiniteSet(s) /\ Cardinality(s) \in Nat
    BY FS_Subset, FS_CardinalityType
  <2> HIDE DEF Good
  <2> QED  BY <1>3, <2>1
<1> QED  BY <1>2, <1>4 DEF Multiplies

(* Functions that agree on a set have the same product over it.             *)
LEMMA ProductAgrees ==
    ASSUME NEW D, IsFiniteSet(D), NEW f \in [D -> Int], NEW f2 \in [D -> Int],
           NEW g, IsProduct(g, f, D), NEW g2, IsProduct(g2, f2, D),
           NEW r \in SUBSET D, \A x \in r : f[x] = f2[x]
    PROVE  g[r] = g2[r]
<1> DEFINE T == {n \in Nat : \E s \in SUBSET r : Cardinality(s) = n /\ g[s] # g2[s]}
<1>0. Multiplies(g, f, D) /\ Multiplies(g2, f2, D)
  BY ProductIs
<1>1. /\ g[{}] = 1 /\ g2[{}] = 1
      /\ \A s \in SUBSET D : \A x \in s : g[s] = f[x] * g[s \ {x}]
      /\ \A s \in SUBSET D : \A x \in s : g2[s] = f2[x] * g2[s \ {x}]
  BY <1>0 DEF Multiplies
<1>2. ASSUME T # {}  PROVE FALSE
  <2>1. PICK n \in T : \A m \in T : n <= m
    <3>1. T \in SUBSET Nat
      OBVIOUS
    <3> HIDE DEF T
    <3> QED  BY <1>2, <3>1, LeastNatural
  <2>2. PICK s \in SUBSET r : Cardinality(s) = n /\ g[s] # g2[s]
    BY <2>1
  <2>3. PICK x \in s : TRUE
    BY <1>1, <2>2
  <2>4. s \ {x} \in SUBSET r /\ s \in SUBSET D
    OBVIOUS
  <2>5. /\ Cardinality(s) \in Nat /\ Cardinality(s \ {x}) \in Nat
        /\ Cardinality(s \ {x}) = Cardinality(s) - 1
    BY <2>4, OneKeyLess
  <2>6. g[s \ {x}] = g2[s \ {x}]
    BY <2>1, <2>2, <2>4, <2>5
  <2>7. f[x] = f2[x]
    OBVIOUS
  <2> QED  BY <1>1, <2>2, <2>4, <2>6, <2>7
<1>3. IsFiniteSet(r) /\ Cardinality(r) \in Nat
  BY FS_Subset, FS_CardinalityType
<1> QED  BY <1>2, <1>3


(* The sum and the product of the values of a function, as the community
   module folds them.                                                        *)
LEMMA SumIs ==
    ASSUME NEW D, IsFiniteSet(D), NEW f \in [D -> Int]
    PROVE  SumFunction(f) = Total(f, D) /\ SumFunction(f) \in Int
<1>1. SumFunction(f) = Total(f, D)
  BY DEF SumFunction, SumFunctionOnSet, FoldFunctionOnSet, MapThenFoldSet, Total, IsTotal, NextKey
<1>2. PICK g : IsTotal(g, f, D)
  BY TotalExists
<1>3. Total(f, D) \in Int
  BY <1>2, TotalOf
<1> QED  BY <1>1, <1>3

LEMMA ProductOfIs ==
    ASSUME NEW D, IsFiniteSet(D), NEW f \in [D -> Int]
    PROVE  \E g : IsProduct(g, f, D) /\ ProductOf(f) = g[D]
<1> DEFINE g == CHOOSE h : IsProduct(h, f, D)
<1>1. ProductOf(f) = g[D]
  BY DEF ProductOf, FoldFunction, FoldFunctionOnSet, MapThenFoldSet, IsProduct, NextKey
<1>2. IsProduct(g, f, D)
  BY ProductExists
<1> QED  BY <1>1, <1>2

(* Counts of a whole width more agree modulo the width.                     *)
LEMMA WholeWidth ==
    ASSUME NEW W \in Nat \ {0}, NEW a \in Int
    PROVE  (a + W) % W = a % W
<1> DEFINE q == a \div W
           r == a % W
<1>1. q \in Int /\ r \in 0 .. W - 1 /\ a = q * W + r
  OBVIOUS
<1> HIDE DEF q, r
<1>2. a + W = (q + 1) * W + r /\ q + 1 \in Int /\ a + W \in Int
  BY <1>1
<1>3. (a + W) % W = r
  BY <1>1, <1>2, Remainder
<1> QED  BY <1>3 DEF r

\* The counters together count the nodes in chains.
SumInv == Total(nodenum, HashKeys) % CountSize = Cardinality(Busy) % CountSize

(* The sum after one counter took one more, modulo the width of unsigned.   *)
LEMMA SumOneMore ==
    ASSUME NEW f \in [HashKeys -> 0 .. CountSize - 1], NEW k \in HashKeys,
           NEW c \in Nat, Total(f, HashKeys) % CountSize = c % CountSize
    PROVE  Total([f EXCEPT ![k] = (f[k] + 1) % CountSize], HashKeys) % CountSize
               = (c + 1) % CountSize
<1> DEFINE W == CountSize
           v == (f[k] + 1) % W
<1>0. PICK f2 : f2 = [f EXCEPT ![k] = v]
  OBVIOUS
<1>1. W \in Nat \ {0} /\ IsFiniteSet(HashKeys) /\ f \in [HashKeys -> Nat] /\ f[k] \in 0 .. W - 1
  BY HashAssumption
<1>2. v = (IF f[k] = W - 1 THEN 0 ELSE f[k] + 1)
  <2> HIDE DEF W
  <2> QED  BY <1>1, Wraps
<1> HIDE DEF v
<1>3. v \in Nat
  BY <1>1, <1>2
<1>4. PICK rest \in Int : Total(f, HashKeys) = f[k] + rest /\ Total(f2, HashKeys) = v + rest
  <2>1. IsFiniteSet(HashKeys) /\ f \in [HashKeys -> Int]
    BY <1>1
  <2>2. Changes(f, k, v, HashKeys)
    BY <2>1, <1>3, TotalChanged
  <2> QED  BY <1>0, <2>2 DEF Changes
<1> DEFINE t == Total(f, HashKeys)
           t2 == Total(f2, HashKeys)
<1>5. t = f[k] + rest /\ t2 = v + rest /\ t % W = c % W
  BY <1>4
<1> HIDE DEF t, t2, W
<1>6. t \in Int /\ t2 \in Int
  BY <1>1, <1>3, <1>5
<1>7. (t + 1) % W = (c + 1) % W
  BY <1>1, <1>5, <1>6, SameAfterOneMore
<1>8. t2 % W = (t + 1) % W
  <2>1. CASE f[k] = W - 1
    <3>1. t + 1 = t2 + W
      BY <1>1, <1>2, <1>5, <2>1
    <3> QED  BY <1>1, <1>6, <3>1, WholeWidth
  <2>2. CASE f[k] # W - 1
    <3>1. t2 = t + 1
      BY <1>1, <1>2, <1>5, <2>2
    <3> QED  BY <3>1
  <2> QED  BY <2>1, <2>2
<1>9. t2 % W = (c + 1) % W
  BY <1>7, <1>8
<1> QED  BY <1>0, <1>9 DEF t2, W, v

(* The sum after one counter lost one, modulo the width of unsigned.        *)
LEMMA SumOneLess ==
    ASSUME NEW f \in [HashKeys -> 0 .. CountSize - 1], NEW k \in HashKeys,
           NEW c \in Nat, Total(f, HashKeys) % CountSize = (c + 1) % CountSize
    PROVE  Total([f EXCEPT ![k] = (f[k] + CountSize - 1) % CountSize], HashKeys) % CountSize
               = c % CountSize
<1> DEFINE W == CountSize
           v == (f[k] + W - 1) % W
<1>0. PICK f2 : f2 = [f EXCEPT ![k] = v]
  OBVIOUS
<1>1. W \in Nat \ {0} /\ IsFiniteSet(HashKeys) /\ f \in [HashKeys -> Nat] /\ f[k] \in 0 .. W - 1
  BY HashAssumption
<1>2. v = (IF f[k] = 0 THEN W - 1 ELSE f[k] - 1)
  <2> HIDE DEF W
  <2> QED  BY <1>1, Wraps
<1> HIDE DEF v
<1>3. v \in Nat
  BY <1>1, <1>2
<1>4. PICK rest \in Int : Total(f, HashKeys) = f[k] + rest /\ Total(f2, HashKeys) = v + rest
  <2>1. IsFiniteSet(HashKeys) /\ f \in [HashKeys -> Int]
    BY <1>1
  <2>2. Changes(f, k, v, HashKeys)
    BY <2>1, <1>3, TotalChanged
  <2> QED  BY <1>0, <2>2 DEF Changes
<1> DEFINE t == Total(f, HashKeys)
           t2 == Total(f2, HashKeys)
<1>5. t = f[k] + rest /\ t2 = v + rest /\ t % W = (c + 1) % W
  BY <1>4
<1> HIDE DEF t, t2, W
<1>6. t \in Int /\ t2 \in Int
  BY <1>1, <1>3, <1>5
<1>7. (t2 + 1) % W = t % W
  <2>1. CASE f[k] = 0
    <3>1. t2 + 1 = t + W
      BY <1>1, <1>2, <1>5, <2>1
    <3> QED  BY <1>1, <1>6, <3>1, WholeWidth
  <2>2. CASE f[k] # 0
    <3>1. t2 + 1 = t
      BY <1>1, <1>2, <1>5, <2>2
    <3> QED  BY <3>1
  <2> QED  BY <2>1, <2>2
<1>8. t2 % W = c % W
  <2>1. (t2 + 1) % W = (c + 1) % W
    BY <1>5, <1>7
  <2>2. c \in Int
    OBVIOUS
  <2> QED  BY <1>1, <1>6, <2>1, <2>2, SameBeforeOneMore
<1> QED  BY <1>0, <1>8 DEF t2, W, v

(* Empty chains and zeroed counters agree.                                  *)
LEMMA SumInit == InitHashlist => SumInv
<1> SUFFICES ASSUME InitHashlist  PROVE SumInv
  OBVIOUS
<1>1. IsFiniteSet(HashKeys) /\ nodenum \in [HashKeys -> Nat] /\ \A k \in HashKeys : nodenum[k] = 0
  BY HashAssumption DEF InitHashlist
<1>2. Total(nodenum, HashKeys) = 0
  BY <1>1, TotalOfNothing
<1>3. Busy = {}
  BY DEF InitHashlist, Busy
<1>4. Cardinality(Busy) = 0
  BY <1>3, FS_EmptySet
<1> QED  BY <1>2, <1>4 DEF SumInv

(* A step keeps the sum: it counts the node it puts in or takes out, in
   whichever counter.                                                       *)
LEMMA SumStep ==
    ASSUME HashInv, SumInv, HashMoves
    PROVE  SumInv'
<1>1. nodenum \in [HashKeys -> 0 .. CountSize - 1]
  BY HashTypes DEF HashTypeOK
<1>2. IsFiniteSet(Busy) /\ Cardinality(Busy) \in Nat
  <2>1. IsFiniteSet(HashNodes) /\ Busy \subseteq HashNodes
    BY HashAssumption DEF Busy
  <2> QED  BY <2>1, FS_Subset, FS_CardinalityType
<1>3. Total(nodenum, HashKeys) % CountSize = Cardinality(Busy) % CountSize
  BY DEF SumInv
<1>4. CASE nodenum' = nodenum /\ Busy' = Busy
  BY <1>3, <1>4 DEF SumInv
<1>5. ASSUME NEW k \in HashKeys, NEW n \in HashNodes \ Busy,
             nodenum' = [nodenum EXCEPT ![k] = (nodenum[k] + 1) % CountSize], Busy' = Busy \cup {n}
      PROVE  SumInv'
  <2>1. Cardinality(Busy') = Cardinality(Busy) + 1
    BY <1>2, <1>5, FS_AddElement
  <2>2. Total(nodenum', HashKeys) % CountSize = (Cardinality(Busy) + 1) % CountSize
    BY <1>1, <1>2, <1>3, <1>5, SumOneMore
  <2> QED  BY <2>1, <2>2 DEF SumInv
<1>6. ASSUME NEW k \in HashKeys, NEW n \in Busy,
             nodenum' = [nodenum EXCEPT ![k] = (nodenum[k] + CountSize - 1) % CountSize], Busy' = Busy \ {n}
      PROVE  SumInv'
  <2>1. Cardinality(Busy') = Cardinality(Busy) - 1 /\ IsFiniteSet(Busy')
    BY <1>2, <1>6, FS_RemoveElement
  <2>2. Cardinality(Busy') \in Nat /\ Cardinality(Busy) = Cardinality(Busy') + 1
    BY <1>2, <2>1, FS_CardinalityType
  <2>3. Total(nodenum', HashKeys) % CountSize = Cardinality(Busy') % CountSize
    BY <1>1, <1>3, <1>6, <2>2, SumOneLess
  <2> QED  BY <2>3 DEF SumInv
<1> QED  BY <1>4, <1>5, <1>6 DEF HashMoves

(* With the chains in order and the sum right, ChainsOK holds.              *)
LEMMA ChainsHold == HashInv /\ SumInv => ChainsOK
<1> SUFFICES ASSUME HashInv, SumInv  PROVE ChainsOK
  OBVIOUS
<1>1. DOMAIN nodenum = HashKeys
  BY HashTypes DEF HashTypeOK
<1>2. FoldFunction(+, 0, nodenum) = Total(nodenum, HashKeys)
  BY <1>1, FoldIsTotal
<1>3. FoldFunction(+, 0, nodenum) % CountSize = Cardinality(Hashed) % CountSize
  BY <1>2, HashedBusy DEF SumInv
<1> QED  BY <1>3, ChainsStructure DEF ChainsOK

(* The invariant and the sum hold in every state of the hash list.          *)
LEMMA HashInvariant == HashSpec => [](HashInv /\ SumInv)
<1>1. InitHashlist => HashInv /\ SumInv
  BY HashInitInv, SumInit
<1>2. HashInv /\ SumInv /\ [HashNext]_hashVars => HashInv' /\ SumInv'
  <2> SUFFICES ASSUME HashInv, SumInv, [HashNext]_hashVars  PROVE HashInv' /\ SumInv'
    OBVIOUS
  <2>1. CASE HashNext
    BY <2>1, HashStep, SumStep
  <2>2. CASE UNCHANGED hashVars
    BY <2>2, HashSame DEF SumInv
  <2> QED  BY <2>1, <2>2
<1> QED  BY <1>1, <1>2, PTL DEF HashSpec

(* The four tables of hash.c keep their types: a field holds a node or NULL,
   a counter stays within an unsigned.                                      *)
THEOREM HashTypeCorrect == HashSpec => []HashTypeOK
  BY HashInvariant, HashTypes, PTL

(* Whatever is inserted, removed and removed under the wrong key, the chains
   of hash.c end, share no node, and each node is pointed at by exactly the
   field its prev_firstregion names; the counters together count the nodes,
   and each its own chain as long as no deletion named a wrong key.         *)
THEOREM HashChains == HashSpec => []ChainsOK
  BY HashInvariant, ChainsHold, PTL

-----------------------------------------------------------------------------
(* The widths of the tree.                                                  *)
LEMMA TreeConstants ==
    /\ SlotNum \in Nat \ {0} /\ WordSize \in Nat \ {0} /\ WordMax \in Nat
    /\ NoItem \notin Items /\ WordMax \notin TreeKeys
    /\ TreeKeys \subseteq 0 .. WordMax - 1 /\ IsFiniteSet(TreeKeys)
    /\ \A key \in TreeKeys : Shift(key) \in Slots
<1>1. /\ SlotNum \in Nat \ {0} /\ WordSize \in Nat \ {0} /\ WordMax \in Nat
      /\ NoItem \notin Items /\ TreeKeys \subseteq 0 .. WordMax - 1
      /\ 2 ^ (UnitBits * (UnitNum - 1)) \in Nat \ {0}
  BY RadixTreeAssumption
<1>2. IsFiniteSet(TreeKeys)
  <2>1. IsFiniteSet(0 .. WordMax - 1)
    BY <1>1, 0 \in Int, WordMax - 1 \in Int, FS_Interval
  <2> QED  BY <1>1, <2>1, FS_Subset
<1>3. ASSUME NEW key \in TreeKeys  PROVE Shift(key) \in Slots
  <2> DEFINE P == 2 ^ (UnitBits * (UnitNum - 1))
  <2>1. P \in Nat \ {0} /\ key \in Nat
    BY <1>1
  <2> HIDE DEF P
  <2> DEFINE u == key \div P
  <2>2. u \in Int
    BY <2>1
  <2> HIDE DEF u
  <2>3. u % SlotNum \in 0 .. SlotNum - 1
    BY <1>1, <2>2
  <2> QED  BY <2>3 DEF u, P, Shift, Slots
<1> QED  BY <1>1, <1>2, <1>3

\* A tag that is set is that of a key whose slot it is, with an item in it; what
\* the tree finds is what was mounted; before the first item there is nothing.
TreeInv ==
    /\ TreeTypeOK
    /\ \A i \in Slots : tags[i] # WordMax => Shift(tags[i]) = i /\ slots[i] # NoItem
    /\ \A key \in TreeKeys : mounted[key] =
            IF tags[Shift(key)] = key THEN slots[Shift(key)] ELSE NoItem
    /\ ~root => \A i \in Slots : slots[i] = NoItem

(* The tree that was built holds nothing (directionary.c:117-122).          *)
LEMMA TreeInit == BuildRadixTree => TreeInv
<1> SUFFICES ASSUME BuildRadixTree  PROVE TreeInv
  OBVIOUS
<1>1. /\ slots = [i \in Slots |-> NoItem] /\ tags = [i \in Slots |-> WordMax]
      /\ root = FALSE /\ item_counts = 0 /\ treeEnd = "no" /\ found = NoItem
      /\ mounted = [key \in TreeKeys |-> NoItem]
  BY DEF BuildRadixTree
<1>2. ASSUME NEW key \in TreeKeys  PROVE key # WordMax /\ Shift(key) \in Slots
  BY TreeConstants
<1>3. item_counts \in 0 .. WordSize - 1
  BY <1>1, TreeConstants
<1> QED  BY <1>1, <1>2, <1>3 DEF TreeInv, TreeTypeOK

(* What a search returns (directionary.c) is what was mounted.              *)
LEMMA LookupMounted ==
    ASSUME TreeInv, NEW key \in TreeKeys
    PROVE  Lookup(key) = mounted[key]
  BY TreeConstants DEF TreeInv, TreeTypeOK, Lookup, Slots

(* Storing an item in an empty slot (directionary.c).                       *)
LEMMA MountAtInv ==
    ASSUME TreeInv, NEW key \in TreeKeys, NEW item \in Items, MountAt(key, item),
           slots[Shift(key)] = NoItem, root'
    PROVE  /\ \A i \in Slots : tags'[i] # WordMax => Shift(tags'[i]) = i /\ slots'[i] # NoItem
           /\ \A k \in TreeKeys : mounted'[k] =
                  IF tags'[Shift(k)] = k THEN slots'[Shift(k)] ELSE NoItem
           /\ slots' \in [Slots -> Items \cup {NoItem}]
           /\ tags' \in [Slots -> TreeKeys \cup {WordMax}]
           /\ mounted' \in [TreeKeys -> Items \cup {NoItem}]
<1> DEFINE s == Shift(key)
<1>1. s \in Slots /\ key # WordMax /\ item # NoItem
  BY TreeConstants
<1>2. /\ slots' = [slots EXCEPT ![s] = item] /\ tags' = [tags EXCEPT ![s] = key]
      /\ mounted' = [mounted EXCEPT ![key] = item]
      /\ slots[s] = NoItem
  BY DEF MountAt
<1>3. /\ slots \in [Slots -> Items \cup {NoItem}]
      /\ tags \in [Slots -> TreeKeys \cup {WordMax}]
      /\ mounted \in [TreeKeys -> Items \cup {NoItem}]
  BY DEF TreeInv, TreeTypeOK
<1>4. ASSUME NEW i \in Slots, tags[i] # WordMax  PROVE Shift(tags[i]) = i /\ slots[i] # NoItem
  BY <1>4 DEF TreeInv
<1>5. ASSUME NEW k \in TreeKeys
      PROVE  /\ Shift(k) \in Slots /\ k # WordMax
             /\ mounted[k] = IF tags[Shift(k)] = k THEN slots[Shift(k)] ELSE NoItem
  BY TreeConstants DEF TreeInv
<1>6. s = Shift(key)
  OBVIOUS
<1> HIDE DEF s
<1>7. ASSUME NEW i \in Slots, tags'[i] # WordMax  PROVE Shift(tags'[i]) = i /\ slots'[i] # NoItem
  BY <1>1, <1>2, <1>3, <1>4, <1>6, <1>7
<1>8. ASSUME NEW k \in TreeKeys
      PROVE  mounted'[k] = IF tags'[Shift(k)] = k THEN slots'[Shift(k)] ELSE NoItem
  <2>1. CASE k = key
    BY <2>1, <1>1, <1>2, <1>3, <1>6
  <2>2. CASE k # key /\ Shift(k) = s
    BY <2>2, <1>1, <1>2, <1>3, <1>4, <1>5
  <2>3. CASE k # key /\ Shift(k) # s
    BY <2>3, <1>1, <1>2, <1>3, <1>5
  <2> QED  BY <2>1, <2>2, <2>3
<1>9. /\ slots' \in [Slots -> Items \cup {NoItem}]
      /\ tags' \in [Slots -> TreeKeys \cup {WordMax}]
      /\ mounted' \in [TreeKeys -> Items \cup {NoItem}]
  BY <1>1, <1>2, <1>3
<1> QED  BY <1>7, <1>8, <1>9

(* Mounting an item keeps the invariant, where the slot of its key holds an
   item already, too (directionary.c:125-205).                               *)
LEMMA MountInv ==
    ASSUME TreeInv, treeEnd = "no", NEW key \in TreeKeys, NEW item \in Items,
           MountRadixTreeItem(key, item)
    PROVE  TreeInv'
<1>0. TreeTypeOK /\ WordSize \in Nat \ {0}
  BY TreeConstants DEF TreeInv
<1>1. CASE MountFirst(key, item)
  <2>1. ~root /\ root' = TRUE /\ MountAt(key, item) /\ item_counts' = item_counts
    BY <1>1 DEF MountFirst
  <2>2. slots[Shift(key)] = NoItem
    BY <2>1, TreeConstants DEF TreeInv
  <2>3. treeEnd' = treeEnd /\ found' = found
    BY <2>1 DEF MountAt
  <2> QED  BY <1>0, <2>1, <2>2, <2>3, MountAtInv DEF TreeInv, TreeTypeOK
<1>2. CASE MountNext(key, item)
  <2>1. /\ root = TRUE /\ root' = root
        /\ item_counts' = (item_counts + 1) % WordSize
        /\ item_counts \in 0 .. WordSize - 1
    BY <1>0, <1>2 DEF MountNext, TreeTypeOK
  <2>2. item_counts' \in 0 .. WordSize - 1
    BY <1>0, <2>1
  <2>3. CASE slots[Shift(key)] = NoItem
    <3>1. MountAt(key, item)
      BY <1>2, <2>3 DEF MountNext
    <3>2. treeEnd' = treeEnd /\ found' = found
      BY <3>1 DEF MountAt
    <3> QED  BY <1>0, <2>1, <2>2, <2>3, <3>1, <3>2, MountAtInv DEF TreeInv, TreeTypeOK
  <2>4. CASE slots[Shift(key)] # NoItem
    BY <1>0, <1>2, <2>1, <2>2, <2>4 DEF MountNext, TreeInv, TreeTypeOK
  <2> QED  BY <2>3, <2>4
<1>3. CASE MountOutside(key)
  BY <1>3 DEF MountOutside, TreeInv, TreeTypeOK
<1> QED  BY <1>1, <1>2, <1>3 DEF MountRadixTreeItem

(* Removing an item clears the tag of the slot of its key
   (directionary.c:234-290).                                                 *)
LEMMA RemoveInv ==
    ASSUME TreeInv, treeEnd = "no", NEW key \in TreeKeys, RemoveRadixTreeItem(key)
    PROVE  TreeInv'
<1>0. TreeTypeOK /\ WordSize \in Nat \ {0}
  BY TreeConstants DEF TreeInv
<1>1. CASE Lookup(key) = NoItem
  BY <1>1 DEF RemoveRadixTreeItem, treeVars, TreeInv, TreeTypeOK
<1>2. CASE Lookup(key) # NoItem
  <2> DEFINE Tagged(i) == tags[i] = key /\ \A j \in 0 .. i - 1 : tags[j] # key
             index == CHOOSE i \in Slots : Tagged(i)
             s == Shift(key)
  <2>1. root = TRUE /\ tags[s] = key /\ s \in Slots /\ key # WordMax
    BY <1>0, <1>2, TreeConstants DEF Lookup, TreeTypeOK
  <2>2. ASSUME NEW i \in Slots, tags[i] = key  PROVE i = s
    BY <2>1, <2>2 DEF TreeInv
  <2>3. Tagged(s)
    BY <2>1, <2>2, TreeConstants DEF Slots
  <2>4. index \in Slots /\ Tagged(index)
    BY <2>1, <2>3, Zenon
  <2>5. index = s
    BY <2>2, <2>4
  <2>6. /\ tags' = [tags EXCEPT ![s] = WordMax]
        /\ item_counts' = (item_counts + WordSize - 1) % WordSize
        /\ mounted' = [mounted EXCEPT ![key] = NoItem]
        /\ UNCHANGED <<root, slots, treeEnd, found>>
    BY <1>2, <2>5, Zenon DEF RemoveRadixTreeItem
  <2>7. item_counts' \in 0 .. WordSize - 1
    <3>1. item_counts \in 0 .. WordSize - 1
      BY <1>0 DEF TreeTypeOK
    <3> QED  BY <1>0, <2>6, <3>1
  <2> HIDE DEF s, index
  <2>16. ASSUME NEW i \in Slots, tags'[i] # WordMax  PROVE Shift(tags'[i]) = i /\ slots'[i] # NoItem
    BY <1>0, <2>1, <2>6, <2>16 DEF TreeInv, TreeTypeOK
  <2>17. ASSUME NEW k \in TreeKeys
         PROVE  mounted'[k] = IF tags'[Shift(k)] = k THEN slots'[Shift(k)] ELSE NoItem
    <3>1. Shift(k) \in Slots /\ k # WordMax
          /\ mounted[k] = IF tags[Shift(k)] = k THEN slots[Shift(k)] ELSE NoItem
      BY TreeConstants DEF TreeInv
    <3>2. CASE k = key
      BY <1>0, <2>1, <2>6, <3>1, <3>2 DEF TreeTypeOK, s
    <3>3. CASE k # key
      BY <1>0, <2>1, <2>6, <3>1, <3>3 DEF TreeTypeOK
    <3> QED  BY <3>2, <3>3
  <2>18. /\ tags' \in [Slots -> TreeKeys \cup {WordMax}]
         /\ mounted' \in [TreeKeys -> Items \cup {NoItem}]
    BY <1>0, <2>6 DEF TreeTypeOK
  <2> QED  BY <1>0, <2>1, <2>6, <2>7, <2>16, <2>17, <2>18 DEF TreeInv, TreeTypeOK
<1> QED  BY <1>1, <1>2

(* The invariant of the tree is inductive.                                  *)
LEMMA TreeStep == TreeInv /\ [TreeNext]_treeVars => TreeInv'
<1> SUFFICES ASSUME TreeInv, [TreeNext]_treeVars  PROVE TreeInv'
  OBVIOUS
<1>1. CASE UNCHANGED treeVars
  BY <1>1 DEF treeVars, TreeInv, TreeTypeOK
<1>2. CASE TreeNext
  <2>1. PICK key \in TreeKeys : \/ \E item \in Items : MountRadixTreeItem(key, item)
                                \/ SearchRadixTreeItem(key)
                                \/ RemoveRadixTreeItem(key)
    BY <1>2 DEF TreeNext
  <2>2. treeEnd = "no"
    BY <1>2 DEF TreeNext
  <2>3. CASE \E item \in Items : MountRadixTreeItem(key, item)
    BY <2>2, <2>3, MountInv
  <2>4. CASE SearchRadixTreeItem(key)
    <3>1. Lookup(key) = mounted[key] /\ mounted[key] \in Items \cup {NoItem}
      BY LookupMounted DEF TreeInv, TreeTypeOK
    <3> QED  BY <2>4, <3>1 DEF SearchRadixTreeItem, TreeInv, TreeTypeOK
  <2>5. CASE RemoveRadixTreeItem(key)
    BY <2>2, <2>5, RemoveInv
  <2> QED  BY <2>1, <2>3, <2>4, <2>5
<1> QED  BY <1>1, <1>2

(* The tables of the tree keep their types.                                 *)
THEOREM TreeTypeCorrect == TreeSpec => []TreeTypeOK
<1>1. TreeInv => TreeTypeOK
  BY DEF TreeInv
<1> QED  BY <1>1, TreeInit, TreeStep, PTL DEF TreeSpec

(* A search of the radix tree returns what was mounted under the key last and
   not removed, whatever the widths, up to a collision of two keys in a slot
   (directionary.c:125-290).                                                 *)
THEOREM TreeImplementsMap == TreeSpec => []TreeIsMap
<1>1. TreeInv => TreeIsMap
  BY LookupMounted DEF TreeIsMap
<1> QED  BY <1>1, TreeInit, TreeStep, PTL DEF TreeSpec

-----------------------------------------------------------------------------
\* A digit keeps the four bits it was made of.
LEMMA DigitTrip ==
    ASSUME NEW a \in {0, 1}, NEW b \in {0, 1}, NEW c \in {0, 1}, NEW d \in {0, 1}
    PROVE  LET v == a + 2 * b + 4 * c + 8 * d
           IN  /\ Undigit(Digit(v)) = v
               /\ (v \div 1) % 2 = a /\ (v \div 2) % 2 = b
               /\ (v \div 4) % 2 = c /\ (v \div 8) % 2 = d
  BY DEF Digit, Undigit

\* The bits of a byte add up to it.
LEMMA ByteSum ==
    ASSUME NEW x \in 0 .. 255
    PROVE  /\ \A w \in {1, 2, 4, 8, 16, 32, 64, 128} : (x \div w) % 2 \in {0, 1}
           /\ ((x \div 1) % 2) + 2 * ((x \div 2) % 2) + 4 * ((x \div 4) % 2)
              + 8 * ((x \div 8) % 2) + 16 * ((x \div 16) % 2) + 32 * ((x \div 32) % 2)
              + 64 * ((x \div 64) % 2) + 128 * ((x \div 128) % 2) = x
  OBVIOUS

\* The last permutation of the code is the inverse of the first.
LEMMA TablesInvert ==
    /\ \A j \in 1 .. 64 : IP_Table[j] \in 1 .. 64 /\ IPR_Table[IP_Table[j]] = j
    /\ \A j \in 1 .. 64 : IPR_Table[j] \in 1 .. 64 /\ IP_Table[IPR_Table[j]] = j
  BY DEF IP_Table, IPR_Table

(* The entries of P_Table are places of a half (des.c:93-96).               *)
LEMMA P_TableRange == \A j \in 1 .. 32 : P_Table[j] \in 1 .. 32
  BY DEF P_Table

(* The entries of the boxes are of four bits (des.c:50-91).                 *)
LEMMA S_BoxRange == \A i \in 1 .. 8 : \A k \in 1 .. 64 : S_Box[i][k] \in 0 .. 15
  BY DEF S_Box

-----------------------------------------------------------------------------
\* The bits of a byte, by its place.
LEMMA ByteIndex ==
    ASSUME NEW i \in 1 .. 8, NEW b \in 0 .. 7
    PROVE  LET j == 8 * i - 7 + b
           IN  j \in 1 .. 64 /\ (j - 1) \div 8 + 1 = i /\ ((j - 1) % 8) + 1 = b + 1
  OBVIOUS

(* The byte that bit j of ByteToBit comes from (bit.c:27) lies in the message. *)
LEMMA ByteOf ==
    ASSUME NEW j \in 1 .. 64
    PROVE  (j - 1) \div 8 + 1 \in 1 .. 8 /\ ((j - 1) % 8) + 1 \in 1 .. 8
  OBVIOUS

(* The worth of a bit is a positive number.                                 *)
LEMMA WeightRange ==
    \A k \in 1 .. 8 : Weight[k] \in {1, 2, 4, 8, 16, 32, 64, 128}
  BY DEF Weight

(* BitToByte returns the bytes ByteToBit read (bit.c:23-28, 59-66).         *)
LEMMA ByteTrip ==
    ASSUME NEW bytes \in [1 .. 8 -> 0 .. 255]
    PROVE  ByteToBit(bytes) \in Bits(64) /\ BitToByte(ByteToBit(bytes)) = bytes
<1> DEFINE bits == ByteToBit(bytes)
<1>1. bits \in Bits(64)
  <2>1. ASSUME NEW j \in 1 .. 64
        PROVE  (bytes[(j - 1) \div 8 + 1] \div Weight[((j - 1) % 8) + 1]) % 2 \in {0, 1}
    <3> DEFINE i == (j - 1) \div 8 + 1
               w == Weight[((j - 1) % 8) + 1]
    <3>1. i \in 1 .. 8 /\ w \in {1, 2, 4, 8, 16, 32, 64, 128}
      BY ByteOf, WeightRange
    <3> HIDE DEF i, w
    <3>2. (bytes[i] \div w) % 2 \in {0, 1}
      BY <3>1, ByteSum
    <3> QED  BY <3>2 DEF i, w
  <2> QED  BY <2>1 DEF ByteToBit, Bits
<1>2. ASSUME NEW i \in 1 .. 8, NEW b \in 0 .. 7
      PROVE  bits[8 * i - 7 + b] = (bytes[i] \div Weight[b + 1]) % 2
  <2> DEFINE j == 8 * i - 7 + b
  <2>1. j \in 1 .. 64 /\ (j - 1) \div 8 + 1 = i /\ ((j - 1) % 8) + 1 = b + 1
    BY ByteIndex
  <2> HIDE DEF j
  <2>2. bits[j] = (bytes[(j - 1) \div 8 + 1] \div Weight[((j - 1) % 8) + 1]) % 2
    BY <2>1 DEF ByteToBit
  <2> QED  BY <2>1, <2>2 DEF j
<1>3. ASSUME NEW i \in 1 .. 8
      PROVE  /\ bits[8*i-7] = (bytes[i] \div 1) % 2 /\ bits[8*i-6] = (bytes[i] \div 2) % 2
             /\ bits[8*i-5] = (bytes[i] \div 4) % 2 /\ bits[8*i-4] = (bytes[i] \div 8) % 2
             /\ bits[8*i-3] = (bytes[i] \div 16) % 2 /\ bits[8*i-2] = (bytes[i] \div 32) % 2
             /\ bits[8*i-1] = (bytes[i] \div 64) % 2 /\ bits[8*i] = (bytes[i] \div 128) % 2
  <2> HIDE DEF bits
  <2>1. bits[8*i-7+0] = (bytes[i] \div Weight[0+1]) % 2 /\ bits[8*i-7+1] = (bytes[i] \div Weight[1+1]) % 2
    BY <1>2
  <2>2. bits[8*i-7+2] = (bytes[i] \div Weight[2+1]) % 2 /\ bits[8*i-7+3] = (bytes[i] \div Weight[3+1]) % 2
    BY <1>2
  <2>3. bits[8*i-7+4] = (bytes[i] \div Weight[4+1]) % 2 /\ bits[8*i-7+5] = (bytes[i] \div Weight[5+1]) % 2
    BY <1>2
  <2>4. bits[8*i-7+6] = (bytes[i] \div Weight[6+1]) % 2 /\ bits[8*i-7+7] = (bytes[i] \div Weight[7+1]) % 2
    BY <1>2
  <2>5. /\ 8*i-7+0 = 8*i-7 /\ 8*i-7+1 = 8*i-6 /\ 8*i-7+2 = 8*i-5 /\ 8*i-7+3 = 8*i-4
        /\ 8*i-7+4 = 8*i-3 /\ 8*i-7+5 = 8*i-2 /\ 8*i-7+6 = 8*i-1 /\ 8*i-7+7 = 8*i
    OBVIOUS
  <2>6. /\ Weight[0+1] = 1 /\ Weight[1+1] = 2 /\ Weight[2+1] = 4 /\ Weight[3+1] = 8
        /\ Weight[4+1] = 16 /\ Weight[5+1] = 32 /\ Weight[6+1] = 64 /\ Weight[7+1] = 128
    BY DEF Weight
  <2> QED  BY <2>1, <2>2, <2>3, <2>4, <2>5, <2>6
<1>4. ASSUME NEW i \in 1 .. 8
      PROVE  bits[8*i-7] + 2 * bits[8*i-6] + 4 * bits[8*i-5] + 8 * bits[8*i-4]
             + 16 * bits[8*i-3] + 32 * bits[8*i-2] + 64 * bits[8*i-1] + 128 * bits[8*i] = bytes[i]
  <2> HIDE DEF bits
  <2> DEFINE x == bytes[i]
  <2>1. x \in 0 .. 255  OBVIOUS
  <2> HIDE DEF x
  <2>2. ((x \div 1) % 2) + 2 * ((x \div 2) % 2) + 4 * ((x \div 4) % 2)
        + 8 * ((x \div 8) % 2) + 16 * ((x \div 16) % 2) + 32 * ((x \div 32) % 2)
        + 64 * ((x \div 64) % 2) + 128 * ((x \div 128) % 2) = x
    BY <2>1, ByteSum
  <2>3. /\ bits[8*i-7] = (x \div 1) % 2 /\ bits[8*i-6] = (x \div 2) % 2
        /\ bits[8*i-5] = (x \div 4) % 2 /\ bits[8*i-4] = (x \div 8) % 2
        /\ bits[8*i-3] = (x \div 16) % 2 /\ bits[8*i-2] = (x \div 32) % 2
        /\ bits[8*i-1] = (x \div 64) % 2 /\ bits[8*i] = (x \div 128) % 2
    BY <1>3 DEF x
  <2>4. bits[8*i-7] + 2 * bits[8*i-6] + 4 * bits[8*i-5] + 8 * bits[8*i-4]
        + 16 * bits[8*i-3] + 32 * bits[8*i-2] + 64 * bits[8*i-1] + 128 * bits[8*i] = x
    BY <2>2, <2>3, Zenon
  <2> QED  BY <2>4 DEF x
<1>5. BitToByte(bits) = [i \in 1 .. 8 |-> bytes[i]]
  <2> HIDE DEF bits
  <2> QED  BY <1>4 DEF BitToByte
<1> QED  BY <1>1, <1>5

-----------------------------------------------------------------------------
\* The bits of a hexadecimal digit, by its place.
LEMMA HexOf ==
    ASSUME NEW j \in 1 .. 64
    PROVE  LET i == (j - 1) \div 4 + 1
               b == (j - 1) % 4
           IN  /\ i \in 1 .. 16 /\ b \in 0 .. 3 /\ j = 4 * i - 3 + b
               /\ 4 * i - 3 \in 1 .. 64 /\ 4 * i - 2 \in 1 .. 64
               /\ 4 * i - 1 \in 1 .. 64 /\ 4 * i \in 1 .. 64
  OBVIOUS

(* HexToBit returns the bits BitToHex wrote (bit.c:30-57).                  *)
LEMMA HexTrip ==
    ASSUME NEW bits \in Bits(64)
    PROVE  HexToBit(BitToHex(bits)) = bits
<1> DEFINE hex == BitToHex(bits)
<1>1. ASSUME NEW j \in 1 .. 64
      PROVE  (Undigit(hex[(j - 1) \div 4 + 1]) \div Weight[((j - 1) % 4) + 1]) % 2 = bits[j]
  <2> DEFINE i == (j - 1) \div 4 + 1
             b == (j - 1) % 4
  <2>1. /\ i \in 1 .. 16 /\ b \in 0 .. 3 /\ j = 4 * i - 3 + b
        /\ 4 * i - 3 \in 1 .. 64 /\ 4 * i - 2 \in 1 .. 64
        /\ 4 * i - 1 \in 1 .. 64 /\ 4 * i \in 1 .. 64
    BY HexOf
  <2> HIDE DEF i, b
  <2> DEFINE b1 == bits[4 * i - 3]
             b2 == bits[4 * i - 2]
             b3 == bits[4 * i - 1]
             b4 == bits[4 * i]
  <2>2. b1 \in {0, 1} /\ b2 \in {0, 1} /\ b3 \in {0, 1} /\ b4 \in {0, 1}
    BY <2>1 DEF Bits
  <2>3. hex[i] = Digit(b1 + 2 * b2 + 4 * b3 + 8 * b4)
    BY <2>1 DEF BitToHex
  <2> HIDE DEF hex
  <2> DEFINE v == b1 + 2 * b2 + 4 * b3 + 8 * b4
  <2>4. CASE b = 0
    <3>1. Weight[b + 1] = 1 /\ j = 4 * i - 3  BY <2>1, <2>4 DEF Weight
    <3>2. (v \div 1) % 2 = b1 /\ Undigit(Digit(v)) = v  BY <2>2, DigitTrip
    <3> QED  BY <2>3, <3>1, <3>2 DEF i, b
  <2>5. CASE b = 1
    <3>1. Weight[b + 1] = 2 /\ j = 4 * i - 2  BY <2>1, <2>5 DEF Weight
    <3>2. (v \div 2) % 2 = b2 /\ Undigit(Digit(v)) = v  BY <2>2, DigitTrip
    <3> QED  BY <2>3, <3>1, <3>2 DEF i, b
  <2>6. CASE b = 2
    <3>1. Weight[b + 1] = 4 /\ j = 4 * i - 1  BY <2>1, <2>6 DEF Weight
    <3>2. (v \div 4) % 2 = b3 /\ Undigit(Digit(v)) = v  BY <2>2, DigitTrip
    <3> QED  BY <2>3, <3>1, <3>2 DEF i, b
  <2>7. CASE b = 3
    <3>1. Weight[b + 1] = 8 /\ j = 4 * i  BY <2>1, <2>7 DEF Weight
    <3>2. (v \div 8) % 2 = b4 /\ Undigit(Digit(v)) = v  BY <2>2, DigitTrip
    <3> QED  BY <2>3, <3>1, <3>2 DEF i, b
  <2> QED  BY <2>1, <2>4, <2>5, <2>6, <2>7
<1>2. bits = [j \in 1 .. 64 |-> bits[j]]
  BY DEF Bits
<1> HIDE DEF hex
<1>3. HexToBit(hex) = [j \in 1 .. 64 |-> bits[j]]
  BY <1>1 DEF HexToBit
<1> QED  BY <1>2, <1>3 DEF hex

-----------------------------------------------------------------------------
\* The two permutations of the 64 bits undo each other.
LEMMA PermTrip ==
    ASSUME NEW block \in Bits(64)
    PROVE  /\ TableReplace(block, IP_Table, 64) \in Bits(64)
           /\ TableReplace(block, IPR_Table, 64) \in Bits(64)
           /\ TableReplace(TableReplace(block, IP_Table, 64), IPR_Table, 64) = block
           /\ TableReplace(TableReplace(block, IPR_Table, 64), IP_Table, 64) = block
<1> DEFINE a == TableReplace(block, IP_Table, 64)
           z == TableReplace(block, IPR_Table, 64)
<1>1. a \in Bits(64) /\ z \in Bits(64)
  BY TablesInvert DEF TableReplace, Bits
<1>2. ASSUME NEW j \in 1 .. 64 PROVE a[IPR_Table[j]] = block[j] /\ z[IP_Table[j]] = block[j]
  <2>1. a[IPR_Table[j]] = block[IP_Table[IPR_Table[j]]] /\ z[IP_Table[j]] = block[IPR_Table[IP_Table[j]]]
    BY TablesInvert DEF TableReplace
  <2> QED  BY <2>1, TablesInvert
<1>3. block = [j \in 1 .. 64 |-> block[j]]
  BY DEF Bits
<1> HIDE DEF a, z
<1>4. /\ TableReplace(a, IPR_Table, 64) = [j \in 1 .. 64 |-> block[j]]
      /\ TableReplace(z, IP_Table, 64) = [j \in 1 .. 64 |-> block[j]]
  BY <1>2 DEF TableReplace
<1> QED  BY <1>1, <1>3, <1>4 DEF a, z

-----------------------------------------------------------------------------
\* An exclusive or is a bit.
LEMMA XorBits == \A a, b : Xor(a, b) \in {0, 1}
  BY DEF Xor

\* Exclusive or with the same bit twice gives the first bit back.
LEMMA XorTwice ==
    ASSUME NEW a \in {0, 1}, NEW b \in {0, 1}
    PROVE  Xor(b, Xor(b, a)) = a /\ Xor(b, a) \in {0, 1}
  BY DEF Xor

\* Whatever the subkey, the round function gives bits.
LEMMA RoundBits ==
    ASSUME NEW half, NEW subkey
    PROVE  F_operate(half, subkey) \in Bits(32)
<1> DEFINE mixed == [j \in 1 .. 48 |-> Xor(TableReplace(half, E_Table, 48)[j], subkey[j])]
<1>1. mixed \in Bits(48)
  BY XorBits DEF Bits
<1> HIDE DEF mixed
<1>2. ASSUME NEW j \in 1 .. 32 PROVE DataCompress(mixed)[j] \in {0, 1}
  <2> DEFINE i == (j - 1) \div 4
             w == Weight[((j - 1) % 4) + 1]
             r == 2 * mixed[6*i+1] + mixed[6*i+6]
             c == 8 * mixed[6*i+2] + 4 * mixed[6*i+3] + 2 * mixed[6*i+4] + mixed[6*i+5]
  <2>1. i \in 0 .. 7 /\ ((j - 1) % 4) + 1 \in 1 .. 8
    OBVIOUS
  <2>2. w \in {1, 2, 4, 8, 16, 32, 64, 128}
    BY <2>1, WeightRange
  <2>3. DataCompress(mixed)[j] = (S_Box[i + 1][16 * r + c + 1] \div w) % 2
    BY DEF DataCompress
  <2> HIDE DEF i, w
  <2>4. /\ mixed[6*i+1] \in {0, 1} /\ mixed[6*i+2] \in {0, 1} /\ mixed[6*i+3] \in {0, 1}
        /\ mixed[6*i+4] \in {0, 1} /\ mixed[6*i+5] \in {0, 1} /\ mixed[6*i+6] \in {0, 1}
    BY <1>1, <2>1 DEF Bits
  <2>5. i + 1 \in 1 .. 8 /\ 16 * r + c + 1 \in 1 .. 64
    BY <2>1, <2>4
  <2>6. S_Box[i + 1][16 * r + c + 1] \in 0 .. 15
    BY <2>5, S_BoxRange
  <2> HIDE DEF r, c
  <2> QED  BY <2>2, <2>3, <2>6
<1>3. F_operate(half, subkey) = [j \in 1 .. 32 |-> DataCompress(mixed)[P_Table[j]]]
  BY DEF F_operate, TableReplace, mixed
<1> QED  BY <1>2, <1>3, P_TableRange DEF Bits

\* A round of the decryption takes back a round of the encryption with the
\* same subkey, whatever that is.
LEMMA BlockTrip ==
    ASSUME NEW block \in Bits(64), NEW subkey
    PROVE  /\ EncryptBlock(block, subkey) \in Bits(64)
           /\ DecryptBlock(block, subkey) \in Bits(64)
           /\ DecryptBlock(EncryptBlock(block, subkey), subkey) = block
<1> DEFINE L == Left(block)
           R == Right(block)
           F == F_operate(R, subkey)
           after == EncryptBlock(block, subkey)
<1>1. L \in Bits(32) /\ R \in Bits(32)
  BY DEF Left, Right, Bits
<1>2. F \in Bits(32)
  BY RoundBits
<1>3. ASSUME NEW a \in Bits(32), NEW b \in Bits(32)
      PROVE  Join(a, b) \in Bits(64) /\ Left(Join(a, b)) = a /\ Right(Join(a, b)) = b
  <2>1. Join(a, b) \in Bits(64)  BY DEF Join, Bits
  <2>2. ASSUME NEW j \in 1 .. 32 PROVE Join(a, b)[j] = a[j] /\ Join(a, b)[j + 32] = b[j]
    BY DEF Join
  <2>3. a = [j \in 1 .. 32 |-> a[j]] /\ b = [j \in 1 .. 32 |-> b[j]]  BY DEF Bits
  <2>4. Left(Join(a, b)) = [j \in 1 .. 32 |-> a[j]]  BY <2>2 DEF Left
  <2>5. Right(Join(a, b)) = [j \in 1 .. 32 |-> b[j]]  BY <2>2 DEF Right
  <2> QED  BY <2>1, <2>3, <2>4, <2>5
<1>4. ASSUME NEW a, NEW b PROVE XorHalf(a, b) \in Bits(32)
  BY XorBits DEF XorHalf, Bits
<1>5. after = Join(R, XorHalf(F, L))
  BY DEF EncryptBlock
<1>6. after \in Bits(64) /\ Left(after) = R /\ Right(after) = XorHalf(F, L)
  <2> HIDE DEF L, R, F, after
  <2> QED  BY <1>1, <1>3, <1>4, <1>5
<1>7. XorHalf(F, XorHalf(F, L)) = L
  <2> HIDE DEF L, R, F
  <2>1. ASSUME NEW j \in 1 .. 32 PROVE Xor(F[j], Xor(F[j], L[j])) = L[j]
    <3>1. F[j] \in {0, 1} /\ L[j] \in {0, 1}  BY <1>1, <1>2 DEF Bits
    <3> QED  BY <3>1, XorTwice
  <2>2. L = [j \in 1 .. 32 |-> L[j]]  BY <1>1 DEF Bits
  <2> QED  BY <2>1, <2>2 DEF XorHalf
<1>8. Join(L, R) = block
  <2>1. \A j \in 1 .. 64 : Join(L, R)[j] = block[j]
    BY DEF Join, Left, Right
  <2>2. block = [j \in 1 .. 64 |-> block[j]]  BY DEF Bits
  <2> QED  BY <2>1, <2>2 DEF Join
<1>9. DecryptBlock(after, subkey) = Join(XorHalf(F_operate(Left(after), subkey), Right(after)), Left(after))
  BY DEF DecryptBlock
<1>10. DecryptBlock(after, subkey) = block
  <2> HIDE DEF after
  <2> QED  BY <1>6, <1>7, <1>8, <1>9
<1>11. DecryptBlock(block, subkey) \in Bits(64)
  BY <1>1, <1>3, <1>4 DEF DecryptBlock
<1> QED  BY <1>6, <1>10, <1>11

-----------------------------------------------------------------------------
\* The subkeys a key leaves; before any key they are zero.
Schedule(key) == IF key = None THEN [i \in 1 .. 16 |-> Zero(48)] ELSE KeySchedule(key)

\* The blocks of the last encryption up to round last are those of its message
\* under its key.
Traced(last) ==
    /\ trail[1] = TableReplace(ByteToBit(plain), IP_Table, 64)
    /\ \A i \in 1 .. 16 :
           i < last => trail[i + 1] = EncryptBlock(trail[i], Schedule(keys.used)[i])

States ==
    /\ calling \in {"no", "encryption", "decryption"}
    /\ trail \in [1 .. 17 -> Bits(64)]
    /\ Message_bit \in Bits(64)
    /\ SubKey = Schedule(keys.now)

Encrypting ==
    calling = "encryption" =>
        /\ plain \in Texts
        /\ keys.used = keys.now
        /\ TextMessage = None
        /\ round \in 1 .. 17
        /\ Message_bit = trail[round]
        /\ Traced(round)

Written ==
    calling # "encryption" /\ HexMessage # None =>
        /\ plain \in Texts
        /\ Traced(17)
        /\ HexMessage = BitToHex(TableReplace(trail[17], IPR_Table, 64))

Decrypting ==
    calling = "decryption" =>
        /\ HexMessage # None
        /\ round \in 0 .. 16
        /\ keys.now = keys.used => Message_bit = trail[round + 1]

DesInv == States /\ Encrypting /\ Written /\ Decrypting /\ RoundTrip

(* The static block starts as bits (des.c:165).                             *)
LEMMA ZeroBits == Zero(64) \in Bits(64)
  BY DEF Zero, Bits

(* The inductive invariant holds before the first call.                     *)
LEMMA InitIInv == DesInit => DesInv
<1> SUFFICES ASSUME DesInit PROVE DesInv
  OBVIOUS
<1>1. States
  BY ZeroBits DEF DesInit, States, Schedule
<1>2. Encrypting /\ Written /\ Decrypting /\ RoundTrip
  BY DEF DesInit, Encrypting, Written, Decrypting, RoundTrip
<1> QED  BY <1>1, <1>2 DEF DesInv

(* DES_SetKey between two calls preserves it: the key changes, not the text. *)
LEMMA SetKeyIInv ==
    ASSUME DesInv, NEW secret \in SecretKeys, DES_SetKey(secret)
    PROVE  DesInv'
<1> USE DEF DES_SetKey
<1>1. keys'.used = keys.used /\ keys'.read = keys.read /\ keys'.now = secret
  OBVIOUS
<1>2. States'
  <2>1. secret # None  BY DesAssumption
  <2>2. Schedule(secret) = KeySchedule(secret)  BY <2>1 DEF Schedule
  <2> QED  BY <1>1, <2>2 DEF DesInv, States, Schedule
<1>3. Encrypting' /\ Decrypting'
  BY DEF Encrypting, Decrypting
<1>4. Written'
  BY <1>1 DEF DesInv, Written, Traced
<1>5. RoundTrip'
  BY <1>1 DEF DesInv, RoundTrip
<1> QED  BY <1>2, <1>3, <1>4, <1>5 DEF DesInv

(* The start of DES_Encryption preserves it: the trail begins at the permuted message. *)
LEMMA EncryptionIInv ==
    ASSUME DesInv, NEW text \in Texts, DES_Encryption(text)
    PROVE  DesInv'
<1> DEFINE first == TableReplace(ByteToBit(text), IP_Table, 64)
<1>1. first \in Bits(64)
  <2>1. text \in [1 .. 8 -> 0 .. 255]  BY DesAssumption
  <2> QED  BY <2>1, ByteTrip, PermTrip
<1>2. /\ Message_bit' = first /\ round' = 1 /\ calling' = "encryption" /\ TextMessage' = None
      /\ keys'.now = keys.now /\ keys'.used = keys.now /\ plain' = text
      /\ SubKey' = SubKey /\ trail' = [trail EXCEPT ![1] = first]
  BY DEF DES_Encryption
<1> HIDE DEF first
<1>3. trail' \in [1 .. 17 -> Bits(64)] /\ trail'[1] = first
  BY <1>1, <1>2 DEF DesInv, States
<1>4. States'
  BY <1>1, <1>2, <1>3 DEF DesInv, States, Schedule
<1>5. Traced(1)'
  BY <1>2, <1>3 DEF Traced, first
<1>6. Encrypting'
  BY <1>2, <1>3, <1>5 DEF Encrypting, Traced
<1>7. Written' /\ Decrypting' /\ RoundTrip'
  BY <1>2 DEF Written, Decrypting, RoundTrip
<1> QED  BY <1>4, <1>6, <1>7 DEF DesInv

(* A round of DES_Encryption preserves it: the trail grows by the block it makes. *)
LEMMA EncryptionRoundIInv ==
    ASSUME DesInv, EncryptionRound
    PROVE  DesInv'
<1> DEFINE after == EncryptBlock(Message_bit, SubKey[round])
<1>1. /\ calling = "encryption" /\ round \in 1 .. 16 /\ Message_bit = trail[round]
      /\ Traced(round) /\ plain \in Texts /\ keys.used = keys.now /\ TextMessage = None
  BY DEF DesInv, Encrypting, EncryptionRound
<1>2. /\ Message_bit' = after /\ round' = round + 1 /\ trail' = [trail EXCEPT ![round + 1] = after]
      /\ SubKey' = SubKey /\ calling' = calling /\ HexMessage' = HexMessage
      /\ TextMessage' = TextMessage /\ keys' = keys /\ plain' = plain
  BY DEF EncryptionRound
<1>3. after \in Bits(64)
  BY BlockTrip DEF DesInv, States
<1>4. after = EncryptBlock(trail[round], Schedule(keys.used)[round])
  BY <1>1 DEF DesInv, States
<1> HIDE DEF after
<1>5. /\ trail' \in [1 .. 17 -> Bits(64)] /\ trail'[round + 1] = after
      /\ \A i \in 1 .. 17 : i # round + 1 => trail'[i] = trail[i]
  BY <1>1, <1>2, <1>3 DEF DesInv, States
<1>6. States'
  BY <1>2, <1>3, <1>5 DEF DesInv, States, Schedule
<1>7. /\ trail'[1] = TableReplace(ByteToBit(plain'), IP_Table, 64)
      /\ \A i \in 1 .. 16 :
             i < round + 1 => trail'[i + 1] = EncryptBlock(trail'[i], Schedule(keys.used)[i])
  <2>1. trail'[1] = TableReplace(ByteToBit(plain'), IP_Table, 64)
    BY <1>1, <1>2, <1>5 DEF Traced
  <2>2. ASSUME NEW i \in 1 .. 16, i < round
        PROVE  trail'[i + 1] = EncryptBlock(trail'[i], Schedule(keys.used)[i])
    <3>1. trail[i + 1] = EncryptBlock(trail[i], Schedule(keys.used)[i])
      BY <1>1, <2>2 DEF Traced
    <3>2. trail'[i + 1] = trail[i + 1] /\ trail'[i] = trail[i]
      BY <1>1, <1>5, <2>2
    <3> QED  BY <3>1, <3>2
  <2>3. trail'[round + 1] = EncryptBlock(trail'[round], Schedule(keys.used)[round])
    BY <1>1, <1>4, <1>5
  <2> QED  BY <1>1, <2>1, <2>2, <2>3
<1>8. Encrypting'
  <2>1. Schedule(keys.used)' = Schedule(keys.used)  BY <1>2 DEF Schedule
  <2> QED  BY <1>1, <1>2, <1>5, <1>7, <2>1 DEF Encrypting, Traced
<1>9. Written' /\ Decrypting' /\ RoundTrip'
  BY <1>1, <1>2 DEF Written, Decrypting, RoundTrip
<1> QED  BY <1>6, <1>8, <1>9 DEF DesInv

(* The end of DES_Encryption preserves it: the digits stand for the last block. *)
LEMMA EncryptionReturnsIInv ==
    ASSUME DesInv, EncryptionReturns
    PROVE  DesInv'
<1>1. /\ plain \in Texts /\ round = 17 /\ Message_bit = trail[17] /\ Traced(17) /\ TextMessage = None
  BY DEF DesInv, Encrypting, EncryptionReturns
<1>2. /\ HexMessage' = BitToHex(TableReplace(Message_bit, IPR_Table, 64)) /\ calling' = "no"
      /\ UNCHANGED <<SubKey, Message_bit, round, TextMessage, keys, plain, trail>>
  BY DEF EncryptionReturns
<1>3. States'
  BY <1>2 DEF DesInv, States, Schedule
<1>4. Written'
  BY <1>1, <1>2 DEF Written, Traced
<1>5. Encrypting' /\ Decrypting' /\ RoundTrip'
  BY <1>1, <1>2 DEF Encrypting, Decrypting, RoundTrip
<1> QED  BY <1>3, <1>4, <1>5 DEF DesInv

(* The start of DES_Decryption preserves it: its block is the last of the trail. *)
LEMMA DecryptionIInv ==
    ASSUME DesInv, DES_Decryption
    PROVE  DesInv'
<1>1. /\ plain \in Texts /\ Traced(17) /\ HexMessage # None
      /\ HexMessage = BitToHex(TableReplace(trail[17], IPR_Table, 64))
  BY DEF DesInv, Written, DES_Decryption
<1>2. /\ Message_bit' = TableReplace(HexToBit(HexMessage), IP_Table, 64)
      /\ round' = 16 /\ calling' = "decryption" /\ calling = "no"
      /\ UNCHANGED <<SubKey, HexMessage, TextMessage, keys, plain, trail>>
  BY DEF DES_Decryption
<1>3. trail[17] \in Bits(64)
  BY DEF DesInv, States
<1>4. Message_bit' = trail[17]
  <2>1. TableReplace(trail[17], IPR_Table, 64) \in Bits(64)  BY <1>3, PermTrip
  <2>2. HexToBit(HexMessage) = TableReplace(trail[17], IPR_Table, 64)  BY <1>1, <2>1, HexTrip
  <2> QED  BY <1>2, <1>3, <2>2, PermTrip
<1>5. States'
  BY <1>2, <1>3, <1>4 DEF DesInv, States, Schedule
<1>6. Decrypting'
  BY <1>1, <1>2, <1>4 DEF Decrypting
<1>7. Written'
  BY <1>1, <1>2 DEF Written, Traced
<1>8. Encrypting' /\ RoundTrip'
  BY <1>2 DEF DesInv, Encrypting, RoundTrip
<1> QED  BY <1>5, <1>6, <1>7, <1>8 DEF DesInv

(* A round of DES_Decryption preserves it: under the same key it goes one block back. *)
LEMMA DecryptionRoundIInv ==
    ASSUME DesInv, DecryptionRound
    PROVE  DesInv'
<1>1. /\ HexMessage # None /\ round \in 1 .. 16
      /\ keys.now = keys.used => Message_bit = trail[round + 1]
      /\ plain \in Texts /\ Traced(17)
  BY DEF DesInv, Decrypting, Written, DecryptionRound
<1>2. /\ Message_bit' = DecryptBlock(Message_bit, SubKey[round]) /\ round' = round - 1
      /\ UNCHANGED <<SubKey, calling, HexMessage, TextMessage, keys, plain, trail>>
      /\ calling = "decryption"
  BY DEF DecryptionRound
<1>3. Message_bit' \in Bits(64)
  BY <1>2, BlockTrip DEF DesInv, States
<1>4. ASSUME keys.now = keys.used PROVE Message_bit' = trail[round]
  <2>1. trail[round + 1] = EncryptBlock(trail[round], SubKey[round])
    BY <1>1, <1>4 DEF DesInv, States, Traced
  <2>2. trail[round] \in Bits(64)
    BY <1>1 DEF DesInv, States
  <2> QED  BY <1>1, <1>2, <1>4, <2>1, <2>2, BlockTrip
<1>5. States'
  BY <1>2, <1>3 DEF DesInv, States, Schedule
<1>6. Decrypting'
  <2>1. round' + 1 = round /\ round' \in 0 .. 16  BY <1>1, <1>2
  <2> QED  BY <1>1, <1>2, <1>4, <2>1 DEF Decrypting
<1>7. Written'
  BY <1>2 DEF DesInv, Written, Traced
<1>8. Encrypting' /\ RoundTrip'
  BY <1>2 DEF DesInv, Encrypting, RoundTrip
<1> QED  BY <1>5, <1>6, <1>7, <1>8 DEF DesInv

(* The end of DES_Decryption preserves it: at the first block the text is the message. *)
LEMMA DecryptionReturnsIInv ==
    ASSUME DesInv, DecryptionReturns
    PROVE  DesInv'
<1>1. /\ HexMessage # None /\ round = 0 /\ plain \in Texts
      /\ keys.now = keys.used => Message_bit = trail[1]
      /\ trail[1] = TableReplace(ByteToBit(plain), IP_Table, 64)
  BY DEF DesInv, Decrypting, Written, Traced, DecryptionReturns
<1>2. /\ TextMessage' = BitToByte(TableReplace(Message_bit, IPR_Table, 64)) /\ calling' = "no"
      /\ keys'.now = keys.now /\ keys'.used = keys.used /\ keys'.read = keys.now
      /\ calling = "decryption"
      /\ UNCHANGED <<SubKey, Message_bit, round, HexMessage, plain, trail>>
  BY DEF DecryptionReturns
<1>3. States'
  BY <1>2 DEF DesInv, States, Schedule
<1>4. Written'
  BY <1>2 DEF DesInv, Written, Traced
<1>5. RoundTrip'
  <2> SUFFICES ASSUME keys.now = keys.used PROVE TextMessage' = plain
    BY <1>2 DEF RoundTrip
  <2> DEFINE bits == ByteToBit(plain)
  <2>1. plain \in [1 .. 8 -> 0 .. 255]  BY <1>1, DesAssumption
  <2>2. bits \in Bits(64) /\ BitToByte(bits) = plain  BY <2>1, ByteTrip
  <2>3. Message_bit = TableReplace(bits, IP_Table, 64)  BY <1>1
  <2> HIDE DEF bits
  <2>4. TableReplace(Message_bit, IPR_Table, 64) = bits  BY <2>2, <2>3, PermTrip
  <2> QED  BY <1>2, <2>2, <2>4
<1>6. Encrypting' /\ Decrypting'
  BY <1>2 DEF Encrypting, Decrypting
<1> QED  BY <1>3, <1>4, <1>5, <1>6 DEF DesInv

(* The inductive invariant is kept by every call and round of des.c.        *)
LEMMA DesInvStep == DesInv /\ [DesNext]_desVars => DesInv'
<1> SUFFICES ASSUME DesInv, [DesNext]_desVars PROVE DesInv'
  OBVIOUS
<1>1. CASE \E secret \in SecretKeys : DES_SetKey(secret)
  BY <1>1, SetKeyIInv
<1>2. CASE \E text \in Texts : DES_Encryption(text)
  BY <1>2, EncryptionIInv
<1>3. CASE EncryptionRound \/ EncryptionReturns
  BY <1>3, EncryptionRoundIInv, EncryptionReturnsIInv
<1>4. CASE DES_Decryption \/ DecryptionRound \/ DecryptionReturns
  BY <1>4, DecryptionIInv, DecryptionRoundIInv, DecryptionReturnsIInv
<1>5. CASE UNCHANGED desVars
  BY <1>5 DEF desVars, DesInv, States, Encrypting, Written, Traced, Decrypting, RoundTrip, Schedule
<1> QED  BY <1>1, <1>2, <1>3, <1>4, <1>5 DEF DesNext

\* What DES_Encryption (des.c:162-179) writes of a message, DES_Decryption
\* (des.c:181-198) turns back into that message, for every message and key,
\* whatever keys were set in between, when it runs under the key of the
\* encryption.
THEOREM DecryptionReturnsTheMessage == DesSpec => []RoundTrip
<1>1. DesInv => RoundTrip
  BY DEF DesInv
<1> QED  BY InitIInv, DesInvStep, <1>1, PTL DEF DesSpec

(* The tables of the key schedule name bits there are (des.c:29-48).        *)
LEMMA ScheduleTables ==
    /\ \A j \in 1 .. 56 : PC1_Table[j] \in 1 .. 64
    /\ \A j \in 1 .. 48 : PC2_Table[j] \in 1 .. 56
    /\ \A i \in 1 .. 16 : Move_Table[i] \in 1 .. 2
  BY DEF PC1_Table, PC2_Table, Move_Table

(* Turning the two halves of the key (bit.c:68-80) gives bits.              *)
LEMMA LoopBits ==
    ASSUME NEW bits \in Bits(56), NEW step \in 1 .. 2
    PROVE  Loop_bit(bits, step) \in Bits(56)
<1>1. ASSUME NEW j \in 1 .. 56
      PROVE  (IF j <= 28 THEN bits[((j - 1 + step) % 28) + 1]
                         ELSE bits[((j - 29 + step) % 28) + 29]) \in {0, 1}
  <2>1. CASE j <= 28
    <3>1. ((j - 1 + step) % 28) + 1 \in 1 .. 56
      BY <2>1
    <3> QED  BY <2>1, <3>1 DEF Bits
  <2>2. CASE ~(j <= 28)
    <3>1. ((j - 29 + step) % 28) + 29 \in 1 .. 56
      BY <2>2
    <3> QED  BY <2>2, <3>1 DEF Bits
  <2> QED  BY <2>1, <2>2
<1> QED  BY <1>1 DEF Loop_bit, Bits

\* f holds the key after each turn of DES_SetKey.
IsTurned(f, secret) ==
  f = [i \in 0 .. 16 |-> IF i = 0 THEN TableReplace(ByteToBit(secret), PC1_Table, 56)
                                  ELSE Loop_bit(f[i - 1], Move_Table[i])]

(* The key bits before the first turn.                                      *)
LEMMA FirstTurn ==
    ASSUME NEW secret \in [1 .. 8 -> 0 .. 255]
    PROVE  TableReplace(ByteToBit(secret), PC1_Table, 56) \in Bits(56)
<1>1. PICK bits \in Bits(64) : bits = ByteToBit(secret)
  BY ByteTrip
<1>2. TableReplace(bits, PC1_Table, 56) \in Bits(56)
  BY ScheduleTables DEF TableReplace, Bits
<1> QED  BY <1>1, <1>2

(* DES_SetKey turns the key sixteen times, and each time has bits.          *)
LEMMA TurnedExists ==
    ASSUME NEW secret \in [1 .. 8 -> 0 .. 255]
    PROVE  \E f : IsTurned(f, secret)
<1> DEFINE start == TableReplace(ByteToBit(secret), PC1_Table, 56)
           Upto(n) == \E g \in [0 .. 16 -> Bits(56)] : \A i \in 0 .. 16 : i <= n =>
                g[i] = IF i = 0 THEN start ELSE Loop_bit(g[i - 1], Move_Table[i])
           T == {n \in Nat : ~Upto(n)}
<1>1. start \in Bits(56)
  BY FirstTurn
<1> HIDE DEF start
<1>2. ASSUME T # {}  PROVE FALSE
  <2>1. PICK n \in T : \A m \in T : n <= m
    <3> HIDE DEF Upto
    <3>1. T \in SUBSET Nat
      OBVIOUS
    <3> HIDE DEF T
    <3> QED  BY <1>2, <3>1, LeastNatural
  <2>2. n \in Nat /\ ~Upto(n)
    OBVIOUS
  <2>3. CASE n = 0
    <3> DEFINE z == [i \in 0 .. 16 |-> start]
    <3>1. z \in [0 .. 16 -> Bits(56)]
      BY <1>1
    <3>2. \A i \in 0 .. 16 : i <= 0 => z[i] = IF i = 0 THEN start ELSE Loop_bit(z[i - 1], Move_Table[i])
      OBVIOUS
    <3> HIDE DEF z
    <3> QED  BY <2>2, <2>3, <3>1, <3>2
  <2>4. CASE n # 0
    <3>1. n - 1 \in Nat /\ n - 1 \notin T
      <4> HIDE DEF T
      <4> QED  BY <2>1, <2>2, <2>4
    <3>2. Upto(n - 1)
      <4> HIDE DEF Upto
      <4> QED  BY <3>1
    <3>3. PICK g \in [0 .. 16 -> Bits(56)] : \A i \in 0 .. 16 : i <= n - 1 =>
              g[i] = IF i = 0 THEN start ELSE Loop_bit(g[i - 1], Move_Table[i])
      BY <3>2
    <3> DEFINE h == [i \in 0 .. 16 |-> IF i = 0 THEN start ELSE Loop_bit(g[i - 1], Move_Table[i])]
    <3>4. h \in [0 .. 16 -> Bits(56)]
      <4>1. ASSUME NEW i \in 1 .. 16  PROVE Loop_bit(g[i - 1], Move_Table[i]) \in Bits(56)
        <5>1. g[i - 1] \in Bits(56) /\ Move_Table[i] \in 1 .. 2
          BY ScheduleTables
        <5> QED  BY <5>1, LoopBits
      <4> QED  BY <1>1, <4>1
    <3>5. ASSUME NEW i \in 0 .. 16, i <= n
          PROVE  h[i] = IF i = 0 THEN start ELSE Loop_bit(h[i - 1], Move_Table[i])
      <4>1. CASE i # 0
        <5>1. i - 1 \in 0 .. 16 /\ i - 1 <= n - 1
          <6> HIDE DEF T, h, Upto
          <6> QED  BY <2>2, <3>5, <4>1
        <5>2. h[i] = Loop_bit(g[i - 1], Move_Table[i])
          BY <4>1
        <5>3. h[i - 1] = g[i - 1]
          BY <3>3, <5>1
        <5> QED  BY <4>1, <5>2, <5>3
      <4> QED  BY <4>1
    <3> HIDE DEF h
    <3> QED  BY <2>2, <3>4, <3>5
  <2> QED  BY <2>3, <2>4
<1>3. Upto(16)
  <2> HIDE DEF Upto
  <2> QED  BY <1>2
<1>4. PICK g \in [0 .. 16 -> Bits(56)] : \A i \in 0 .. 16 : i <= 16 =>
          g[i] = IF i = 0 THEN start ELSE Loop_bit(g[i - 1], Move_Table[i])
  BY <1>3
<1>5. \A i \in 0 .. 16 : g[i] = IF i = 0 THEN start ELSE Loop_bit(g[i - 1], Move_Table[i])
  BY <1>4
<1>6. IsTurned(g, secret)
  BY <1>5 DEF IsTurned, start
<1> QED  BY <1>6

(* Every turn of the key has bits.                                          *)
LEMMA TurnedBits ==
    ASSUME NEW secret \in [1 .. 8 -> 0 .. 255], NEW f, IsTurned(f, secret), NEW i \in 0 .. 16
    PROVE  f[i] \in Bits(56)
<1> DEFINE T == {n \in Nat : n <= 16 /\ f[n] \notin Bits(56)}
<1>1. f[0] = TableReplace(ByteToBit(secret), PC1_Table, 56)
  BY DEF IsTurned
<1>2. \A n \in 1 .. 16 : f[n] = Loop_bit(f[n - 1], Move_Table[n])
  BY DEF IsTurned
<1>3. ASSUME T # {}  PROVE FALSE
  <2>1. PICK n \in T : \A m \in T : n <= m
    <3>1. T \in SUBSET Nat
      OBVIOUS
    <3> HIDE DEF T
    <3> QED  BY <1>3, <3>1, LeastNatural
  <2>2. n \in Nat /\ n <= 16 /\ f[n] \notin Bits(56)
    OBVIOUS
  <2>3. n # 0
    BY <1>1, <2>2, FirstTurn
  <2>4. n - 1 \in Nat /\ n - 1 <= 16 /\ n - 1 \notin T
    <3> HIDE DEF T
    <3> QED  BY <2>1, <2>2, <2>3
  <2>5. f[n - 1] \in Bits(56)
    BY <2>4
  <2>6. n \in 1 .. 16 /\ Move_Table[n] \in 1 .. 2
    BY <2>2, <2>3, ScheduleTables
  <2>7. Loop_bit(f[n - 1], Move_Table[n]) \in Bits(56)
    BY <2>5, <2>6, LoopBits
  <2> QED  BY <1>2, <2>2, <2>6, <2>7
<1>4. i \in Nat /\ i <= 16
  OBVIOUS
<1>5. i \notin T
  BY <1>3
<1> QED  BY <1>4, <1>5

(* The subkeys that are read off the turns of a key are bits.               *)
LEMMA SubkeysRead ==
    ASSUME NEW secret \in [1 .. 8 -> 0 .. 255], NEW t, IsTurned(t, secret)
    PROVE  [i \in 1 .. 16 |-> TableReplace(t[i], PC2_Table, 48)] \in [1 .. 16 -> Bits(48)]
<1>1. ASSUME NEW i \in 1 .. 16  PROVE TableReplace(t[i], PC2_Table, 48) \in Bits(48)
  <2>1. i \in 0 .. 16
    OBVIOUS
  <2>2. t[i] \in Bits(56)
    BY <2>1, TurnedBits
  <2>3. PICK b \in Bits(56) : b = t[i]
    BY <2>2
  <2>4. TableReplace(b, PC2_Table, 48) \in Bits(48)
    BY ScheduleTables DEF TableReplace, Bits
  <2> QED  BY <2>3, <2>4
<1> QED  BY <1>1

(* The recursion of DES_SetKey finds those turns.                           *)
LEMMA SubkeysBits ==
    ASSUME NEW secret \in [1 .. 8 -> 0 .. 255], NEW t,
           t = CHOOSE f : f = [i \in 0 .. 16 |->
                  IF i = 0 THEN TableReplace(ByteToBit(secret), PC1_Table, 56)
                           ELSE Loop_bit(f[i - 1], Move_Table[i])]
    PROVE  [i \in 1 .. 16 |-> TableReplace(t[i], PC2_Table, 48)] \in [1 .. 16 -> Bits(48)]
<1>1. t = CHOOSE f : IsTurned(f, secret)
  BY DEF IsTurned
<1>2. \E f : IsTurned(f, secret)
  BY TurnedExists
<1>3. IsTurned(t, secret)
  BY <1>1, <1>2
<1> QED  BY <1>3, SubkeysRead

(* The subkeys of a key are bits (des.c:143-159).                           *)
LEMMA KeyScheduleBits ==
    ASSUME NEW secret \in [1 .. 8 -> 0 .. 255]
    PROVE  KeySchedule(secret) \in [1 .. 16 -> Bits(48)]
  BY SubkeysBits DEF KeySchedule

(* The characters BitToHex writes and the bytes BitToByte writes.           *)
LEMMA WrittenTypes ==
    ASSUME NEW bits \in Bits(64)
    PROVE  /\ BitToHex(bits) \in [1 .. 16 -> 48 .. 70]
           /\ BitToByte(bits) \in [1 .. 8 -> 0 .. 255]
<1>1. ASSUME NEW j \in 1 .. 64  PROVE bits[j] \in {0, 1}
  BY DEF Bits
<1>2. ASSUME NEW i \in 1 .. 16
      PROVE  Digit(bits[4*i-3] + 2 * bits[4*i-2] + 4 * bits[4*i-1] + 8 * bits[4*i]) \in 48 .. 70
  <2>1. 4*i-3 \in 1 .. 64 /\ 4*i-2 \in 1 .. 64 /\ 4*i-1 \in 1 .. 64 /\ 4*i \in 1 .. 64
    OBVIOUS
  <2>2. PICK a \in {0, 1}, b \in {0, 1}, c \in {0, 1}, d \in {0, 1} :
           a = bits[4*i-3] /\ b = bits[4*i-2] /\ c = bits[4*i-1] /\ d = bits[4*i]
    BY <1>1, <2>1
  <2>3. Digit(a + 2 * b + 4 * c + 8 * d) \in 48 .. 70
    BY DEF Digit
  <2> QED  BY <2>2, <2>3
<1>3. ASSUME NEW i \in 1 .. 8
      PROVE  bits[8*i-7] + 2 * bits[8*i-6] + 4 * bits[8*i-5] + 8 * bits[8*i-4]
             + 16 * bits[8*i-3] + 32 * bits[8*i-2] + 64 * bits[8*i-1] + 128 * bits[8*i] \in 0 .. 255
  <2>1. /\ 8*i-7 \in 1 .. 64 /\ 8*i-6 \in 1 .. 64 /\ 8*i-5 \in 1 .. 64 /\ 8*i-4 \in 1 .. 64
        /\ 8*i-3 \in 1 .. 64 /\ 8*i-2 \in 1 .. 64 /\ 8*i-1 \in 1 .. 64 /\ 8*i \in 1 .. 64
    OBVIOUS
  <2>2. PICK a \in {0, 1}, b \in {0, 1}, c \in {0, 1}, d \in {0, 1} :
           a = bits[8*i-7] /\ b = bits[8*i-6] /\ c = bits[8*i-5] /\ d = bits[8*i-4]
    BY <1>1, <2>1
  <2>3. PICK e \in {0, 1}, f \in {0, 1}, g \in {0, 1}, h \in {0, 1} :
           e = bits[8*i-3] /\ f = bits[8*i-2] /\ g = bits[8*i-1] /\ h = bits[8*i]
    BY <1>1, <2>1
  <2>4. a + 2 * b + 4 * c + 8 * d + 16 * e + 32 * f + 64 * g + 128 * h \in 0 .. 255
    OBVIOUS
  <2> QED  BY <2>2, <2>3, <2>4
<1> QED  BY <1>2, <1>3 DEF BitToHex, BitToByte

(* The state of des.c before the first call.                                *)
LEMMA DesTypesInit == DesInit => DesTypeOK
<1> SUFFICES ASSUME DesInit  PROVE DesTypeOK
  OBVIOUS
<1>1. Zero(48) \in Bits(48) /\ Zero(64) \in Bits(64)
  BY DEF Zero, Bits
<1> QED  BY <1>1 DEF DesInit, DesTypeOK

(* Every call of des.c, and every round of one, keeps the types.            *)
LEMMA DesTypesStep == DesInv /\ DesInv' /\ DesTypeOK /\ [DesNext]_desVars => DesTypeOK'
<1> SUFFICES ASSUME DesInv, DesInv', DesTypeOK, [DesNext]_desVars  PROVE DesTypeOK'
  OBVIOUS
<1>1. /\ Message_bit' \in Bits(64)
      /\ calling' \in {"no", "encryption", "decryption"}
      /\ trail' \in [1 .. 17 -> Bits(64)]
      /\ Message_bit \in Bits(64)
  BY DEF DesInv, States
<1>2. /\ SubKey \in [1 .. 16 -> Bits(48)] /\ round \in 0 .. 17
      /\ HexMessage # None => HexMessage \in [1 .. 16 -> 48 .. 70]
      /\ TextMessage # None => TextMessage \in [1 .. 8 -> 0 .. 255]
      /\ keys \in [{"now", "used", "read"} -> SecretKeys \cup {None}]
      /\ plain \in Texts \cup {None}
  BY DEF DesTypeOK
<1> DEFINE Written64 == TableReplace(Message_bit, IPR_Table, 64)
<1>3. Written64 \in Bits(64)
  BY <1>1, PermTrip
<1> HIDE DEF Written64
<1>4. ASSUME NEW a \in SecretKeys \cup {None}, NEW b \in SecretKeys \cup {None},
             NEW c \in SecretKeys \cup {None}
      PROVE  [now |-> a, used |-> b, read |-> c] \in [{"now", "used", "read"} -> SecretKeys \cup {None}]
  OBVIOUS
<1>5. /\ keys.now \in SecretKeys \cup {None} /\ keys.used \in SecretKeys \cup {None}
      /\ keys.read \in SecretKeys \cup {None}
  BY <1>2
<1>6. ASSUME NEW secret \in SecretKeys, DES_SetKey(secret)  PROVE DesTypeOK'
  <2>1. KeySchedule(secret) \in [1 .. 16 -> Bits(48)]
    BY DesAssumption, KeyScheduleBits
  <2>2. keys' \in [{"now", "used", "read"} -> SecretKeys \cup {None}]
    BY <1>4, <1>5, <1>6 DEF DES_SetKey
  <2> QED  BY <1>1, <1>2, <1>6, <2>1, <2>2 DEF DES_SetKey, DesTypeOK
<1>7. ASSUME NEW text \in Texts, DES_Encryption(text)  PROVE DesTypeOK'
  <2>1. keys' \in [{"now", "used", "read"} -> SecretKeys \cup {None}]
    BY <1>4, <1>5, <1>7 DEF DES_Encryption
  <2>2. /\ SubKey' = SubKey /\ round' = 1 /\ HexMessage' = HexMessage /\ TextMessage' = None
        /\ plain' = text
    BY <1>7 DEF DES_Encryption
  <2> QED  BY <1>1, <1>2, <2>1, <2>2 DEF DesTypeOK
<1>8. CASE EncryptionRound
  <2>1. /\ SubKey' = SubKey /\ round' = round + 1 /\ round <= 16 /\ HexMessage' = HexMessage
        /\ TextMessage' = TextMessage /\ plain' = plain /\ keys' = keys
    BY <1>8 DEF EncryptionRound
  <2> QED  BY <1>1, <1>2, <2>1 DEF DesTypeOK
<1>9. CASE EncryptionReturns
  <2>1. /\ SubKey' = SubKey /\ round' = round /\ HexMessage' = BitToHex(Written64)
        /\ TextMessage' = TextMessage /\ plain' = plain /\ keys' = keys
    BY <1>9 DEF EncryptionReturns, Written64
  <2>2. HexMessage' \in [1 .. 16 -> 48 .. 70]
    BY <1>3, <2>1, WrittenTypes
  <2> QED  BY <1>1, <1>2, <2>1, <2>2 DEF DesTypeOK
<1>10. CASE DES_Decryption
  <2>1. /\ SubKey' = SubKey /\ round' = 16 /\ HexMessage' = HexMessage
        /\ TextMessage' = TextMessage /\ plain' = plain /\ keys' = keys
    BY <1>10 DEF DES_Decryption
  <2> QED  BY <1>1, <1>2, <2>1 DEF DesTypeOK
<1>11. CASE DecryptionRound
  <2>1. /\ SubKey' = SubKey /\ round' = round - 1 /\ round >= 1 /\ HexMessage' = HexMessage
        /\ TextMessage' = TextMessage /\ plain' = plain /\ keys' = keys
    BY <1>11 DEF DecryptionRound
  <2> QED  BY <1>1, <1>2, <2>1 DEF DesTypeOK
<1>12. CASE DecryptionReturns
  <2>1. /\ SubKey' = SubKey /\ round' = round /\ HexMessage' = HexMessage
        /\ TextMessage' = BitToByte(Written64) /\ plain' = plain
    BY <1>12 DEF DecryptionReturns, Written64
  <2>2. TextMessage' \in [1 .. 8 -> 0 .. 255]
    BY <1>3, <2>1, WrittenTypes
  <2>3. keys' \in [{"now", "used", "read"} -> SecretKeys \cup {None}]
    BY <1>4, <1>5, <1>12 DEF DecryptionReturns
  <2> QED  BY <1>1, <1>2, <2>1, <2>2, <2>3 DEF DesTypeOK
<1>13. CASE UNCHANGED desVars
  BY <1>13 DEF desVars, DesTypeOK
<1> QED  BY <1>6, <1>7, <1>8, <1>9, <1>10, <1>11, <1>12, <1>13 DEF DesNext

(* The state of des.c keeps its types: the block is of bits, the round one of
   the sixteen, what is written hexadecimal digits or bytes.                *)
THEOREM DesTypeCorrect == DesSpec => []DesTypeOK
<1>1. DesInit => DesInv /\ DesTypeOK
  BY InitIInv, DesTypesInit
<1>2. DesInv /\ DesTypeOK /\ [DesNext]_desVars => DesInv' /\ DesTypeOK'
  BY DesInvStep, DesTypesStep
<1> QED  BY <1>1, <1>2, PTL DEF DesSpec

-----------------------------------------------------------------------------
(* A list of devices has its devices at 1, 2, ...                           *)
LEMMA DeviceListShape ==
    ASSUME NEW list \in DeviceLists
    PROVE  \E k \in Nat : DOMAIN list = 1 .. k
<1>1. PICK k \in 0 .. MaxDevices :
          list \in [1 .. k -> SeqUpTo({"asked", "inet", "other"}, MaxAddresses)]
  BY DEF DeviceLists, SeqUpTo
<1> QED  BY <1>1, NicAssumption

(* NULL is none of what it stands in for.                                   *)
LEMMA NoListIsNone ==
    /\ NoList \notin DeviceLists /\ NoList \notin Nat
    /\ \A l \in DeviceLists, i \in Nat : [list |-> l, index |-> i] # NoList
<1>1. NoList \notin DeviceLists /\ NoList \notin Nat /\ NoList \notin [list : DeviceLists, index : Nat]
  BY NicAssumption
<1>2. ASSUME NEW l \in DeviceLists, NEW i \in Nat  PROVE [list |-> l, index |-> i] # NoList
  <2>1. [list |-> l, index |-> i] \in [list : DeviceLists, index : Nat]
    OBVIOUS
  <2> QED  BY <1>1, <2>1
<1> QED  BY <1>1, <1>2

(* The settings open_nic asks for are eight.                                *)
LEMMA SettingsCount == Len(Settings) = 8
  BY DEF Settings

\* Where the program is: in main, in a call that main makes, in open_nic, or in
\* a call that open_nic makes, with the devices of that call and no others.
NicWhere ==
    \/ /\ nicCall = "main" /\ opening = "no" /\ devices = NoList
       /\ mainNext \in 0 .. 2 /\ VIF = NoList /\ settings = 0 /\ lost = 0
    \/ /\ nicCall \in {"find_nic", "show_nic"} /\ caller = "main" /\ opening = "no"
       /\ mainNext \in 1 .. 2 /\ VIF = NoList /\ settings = 0 /\ lost = 0
    \/ /\ nicCall = "find_nic" /\ caller = "open_nic" /\ opening = "find"
       /\ mainNext = 3 /\ VIF = NoList /\ settings \in 0 .. 8 /\ lost = 0
    \/ /\ nicCall = "show_nic" /\ caller = "open_nic" /\ opening = "failed"
       /\ mainNext = 3 /\ VIF = NoList /\ settings \in 0 .. 8 /\ lost = 0
    \/ /\ nicCall = "open_nic" /\ opening \in {"find", "lookupnet", "create", "set", "failed"}
       /\ devices = NoList
       /\ opening \in {"lookupnet", "create", "set"} => name_buf # NoList
       /\ opening = "find" /\ nicStatus = 0 => name_buf # NoList
       /\ mainNext = 3 /\ VIF = NoList /\ settings \in 0 .. 8 /\ lost = 0
    \/ /\ nicCall = "main" /\ opening = "no" /\ devices = NoList
       /\ mainNext = 3 /\ VIF = 8 /\ settings = 8 /\ lost = 0
    \/ /\ nicCall = "main" /\ opening = "no" /\ devices = NoList
       /\ mainNext = 4 /\ VIF = NoList /\ settings \in 0 .. 8 /\ lost \in {0, 1}
       /\ lost = 1 => settings < 8

\* The list of the call that runs is the only one alive, and its call failed if
\* there is none.
NicDevices ==
    /\ devices \in DeviceLists \cup {NoList}
    /\ live = (IF devices = NoList THEN 0 ELSE 1)
    /\ nicStatus \in {0, -1}
    /\ nicCall \in {"find_nic", "show_nic"} => (nicStatus = 0 <=> devices # NoList)

\* find_nic wrote the name of the first device with the address.
NicName ==
    name_buf # NoList =>
        /\ Asked(name_buf.list[name_buf.index])
        /\ \A i \in 1 .. name_buf.index - 1 : ~Asked(name_buf.list[i])

NicInv == NicWhere /\ NicDevices /\ NicName

(* main has called nothing (net.c:5-8).                                     *)
LEMMA NicInitInv == NicInit => NicInv
  BY DEF NicInit, NicInv, NicWhere, NicDevices, NicName

(* pcap_findalldevs made a list or failed (nic.c).                          *)
LEMMA CallDevices ==
    ASSUME NEW f, NEW from, Call(f, from), live = 0
    PROVE  NicDevices' /\ nicCall' = f /\ caller' = from
  BY NoListIsNone DEF Call, NicDevices

(* The list is freed before find_nic and show_nic return.                   *)
LEMMA FreeDevices ==
    ASSUME NicDevices, Free, devices' = NoList, nicStatus' \in {0, -1},
           nicCall' \in {"main", "open_nic"}
    PROVE  NicDevices'
  BY DEF Free, NicDevices

(* find_nic frees its list, and has copied the first device with the address,
   if one has it (nic.c:38-81).                                              *)
LEMMA FindReturnsInv == ASSUME NicInv, FindReturns  PROVE NicInv'
<1> DEFINE matches == IF nicStatus < 0 THEN {} ELSE {i \in DOMAIN devices : Asked(devices[i])}
           first == CHOOSE i \in matches : \A j \in matches : i <= j
<1>1. /\ nicCall = "find_nic" /\ Free /\ devices' = NoList /\ nicCall' = caller
      /\ UNCHANGED <<caller, mainNext, opening, settings, VIF, lost>>
  BY DEF FindReturns
<1>2. \/ matches = {} /\ nicStatus' = -1 /\ name_buf' = name_buf
      \/ /\ matches # {} /\ nicStatus' = 0
         /\ name_buf' = [list |-> devices, index |-> first]
  BY Zenon DEF FindReturns
<1>3. NicDevices /\ NicName /\ NicWhere
  BY DEF NicInv
<1>4. caller \in {"main", "open_nic"}
  BY <1>1, <1>3 DEF NicWhere
<1>5. NicDevices'
  BY <1>1, <1>2, <1>3, <1>4, FreeDevices
<1>6. CASE matches = {}
  <2>1. nicStatus' = -1 /\ name_buf' = name_buf
    BY <1>2, <1>6
  <2>2. NicName'
    BY <1>3, <2>1 DEF NicName
  <2>3. NicWhere'
    BY <1>1, <1>3, <2>1 DEF NicWhere
  <2> QED  BY <1>5, <2>2, <2>3 DEF NicInv
<1>7. CASE matches # {}
  <2>1. nicStatus' = 0 /\ name_buf' = [list |-> devices, index |-> first]
    BY <1>2, <1>7
  <2>2. nicStatus = 0 /\ devices \in DeviceLists
    BY <1>1, <1>3, <1>7 DEF NicDevices
  <2>3. PICK k \in Nat : DOMAIN devices = 1 .. k
    BY <2>2, DeviceListShape
  <2>4. matches = {i \in 1 .. k : Asked(devices[i])}
    BY <2>2, <2>3
  <2>5. matches \in SUBSET Nat
    BY <2>4
  <2>6. first \in matches /\ \A j \in matches : first <= j
    <3> HIDE DEF matches
    <3>1. \E i \in matches : \A j \in matches : i <= j
      BY <1>7, <2>5, LeastNatural
    <3> QED  BY <3>1, Zenon
  <2> HIDE DEF first
  <2>7. first \in 1 .. k /\ Asked(devices[first])
    BY <2>4, <2>6
  <2>8. \A i \in 1 .. first - 1 : ~Asked(devices[i])
    BY <2>4, <2>6, <2>7
  <2>9. NicName' /\ name_buf' # NoList
    BY <2>1, <2>2, <2>7, <2>8, NoListIsNone DEF NicName, Asked
  <2>10. NicWhere'
    BY <1>1, <1>3, <2>1, <2>9 DEF NicWhere
  <2> QED  BY <1>5, <2>9, <2>10 DEF NicInv
<1> QED  BY <1>6, <1>7

(* show_nic frees its list (nic.c:83-137).                                  *)
LEMMA ShowReturnsInv == ASSUME NicInv, ShowReturns  PROVE NicInv'
<1>1. /\ nicCall = "show_nic" /\ Free /\ devices' = NoList /\ nicCall' = caller
      /\ nicStatus' \in {0, -1}
      /\ UNCHANGED <<caller, mainNext, opening, name_buf, settings, VIF, lost>>
  BY DEF ShowReturns
<1>2. NicDevices /\ NicName /\ NicWhere
  BY DEF NicInv
<1>3. caller \in {"main", "open_nic"}
  BY <1>1, <1>2 DEF NicWhere
<1>4. NicDevices'
  BY <1>1, <1>2, <1>3, FreeDevices
<1>5. NicWhere'
  BY <1>1, <1>2 DEF NicWhere
<1>6. NicName'
  BY <1>1, <1>2 DEF NicName
<1> QED  BY <1>4, <1>5, <1>6 DEF NicInv

(* main makes its next call (net.c:9-12).                                   *)
LEMMA MainCallsInv == ASSUME NicInv, MainCalls  PROVE NicInv'
<1>1. NicDevices /\ NicName /\ NicWhere
  BY DEF NicInv
<1>2. nicCall = "main" /\ mainNext \in 0 .. 2
  BY DEF MainCalls
<1>3. devices = NoList /\ live = 0
  BY <1>1, <1>2 DEF NicWhere, NicDevices
<1>4. /\ mainNext' = mainNext + 1
      /\ UNCHANGED <<name_buf, settings, VIF, lost>>
      /\ \/ mainNext = 0 /\ Call("find_nic", "main") /\ opening' = "no"
         \/ mainNext = 1 /\ Call("show_nic", "main") /\ opening' = "no"
         \/ mainNext = 2 /\ Call("find_nic", "open_nic") /\ opening' = "find"
  BY DEF MainCalls
<1>5. /\ NicDevices'
      /\ \/ mainNext = 0 /\ nicCall' = "find_nic" /\ caller' = "main" /\ opening' = "no"
         \/ mainNext = 1 /\ nicCall' = "show_nic" /\ caller' = "main" /\ opening' = "no"
         \/ mainNext = 2 /\ nicCall' = "find_nic" /\ caller' = "open_nic" /\ opening' = "find"
  BY <1>3, <1>4, CallDevices
<1>6. NicWhere'
  BY <1>1, <1>2, <1>4, <1>5 DEF NicWhere
<1>7. NicName'
  BY <1>1, <1>4 DEF NicName
<1> QED  BY <1>5, <1>6, <1>7 DEF NicInv

(* open_nic goes on, fails or returns (nic.c:139-239).                      *)
LEMMA OpenNicInv == ASSUME NicInv, OpenDevice \/ SetHandle  PROVE NicInv'
<1>1. NicDevices /\ NicName /\ NicWhere
  BY DEF NicInv
<1>2. nicCall = "open_nic" /\ devices = NoList /\ live = 0 /\ nicStatus \in {0, -1}
      /\ mainNext = 3 /\ VIF = NoList /\ settings \in 0 .. 8 /\ lost = 0
  BY <1>1 DEF OpenDevice, SetHandle, NicWhere, NicDevices
<1>3. CASE OpenFails
  <2>1. NicDevices' /\ nicCall' = "show_nic" /\ caller' = "open_nic"
    BY <1>2, <1>3, CallDevices DEF OpenFails
  <2>2. opening' = "failed" /\ UNCHANGED <<mainNext, name_buf, settings, VIF, lost>>
    BY <1>3 DEF OpenFails
  <2> QED  BY <1>1, <1>2, <2>1, <2>2 DEF NicInv, NicWhere, NicName
<1>4. ASSUME NEW step \in {"lookupnet", "create", "set"}, OpenGoesOn(step), settings' \in 0 .. 8,
             name_buf # NoList
      PROVE  NicInv'
  <2>1. /\ opening' = step
        /\ UNCHANGED <<nicCall, caller, mainNext, devices, live, nicStatus, name_buf, VIF, lost>>
    BY <1>4 DEF OpenGoesOn
  <2>2. NicDevices' /\ NicName'
    BY <1>1, <2>1 DEF NicDevices, NicName
  <2>3. NicWhere'
    BY <1>2, <1>4, <2>1 DEF NicWhere
  <2> QED  BY <2>2, <2>3 DEF NicInv
<1>5. ASSUME NEW handle \in {NoList, 8}, OpenReturns(handle), lost' \in {0, 1},
             lost' = 1 => settings < 8 /\ handle = NoList, handle = 8 => settings = 8
      PROVE  NicInv'
  <2>1. /\ nicCall' = "main" /\ opening' = "no" /\ VIF' = handle
        /\ mainNext' = IF handle = NoList THEN 4 ELSE 3
        /\ UNCHANGED <<caller, devices, live, nicStatus, name_buf, settings>>
    BY <1>5 DEF OpenReturns
  <2>2. NicDevices' /\ NicName'
    BY <1>1, <1>2, <2>1 DEF NicDevices, NicName
  <2>3. NicWhere'
    BY <1>2, <1>5, <2>1, NoListIsNone DEF NicWhere
  <2> QED  BY <2>2, <2>3 DEF NicInv
<1>6. opening \in {"lookupnet", "create", "set"} \/ (opening = "find" /\ nicStatus = 0) => name_buf # NoList
  BY <1>1, <1>2 DEF NicWhere
<1>7. CASE OpenDevice
  <2>1. CASE opening = "find" /\ nicStatus = 0 /\ OpenGoesOn("lookupnet") /\ UNCHANGED settings
    BY <1>2, <1>4, <1>6, <2>1
  <2>2. CASE opening = "lookupnet" /\ OpenGoesOn("create") /\ UNCHANGED settings
    BY <1>2, <1>4, <1>6, <2>2
  <2>3. CASE opening = "create" /\ OpenGoesOn("set") /\ settings' = 0
    BY <1>2, <1>4, <1>6, <2>3
  <2>4. CASE OpenReturns(NoList) /\ UNCHANGED lost
    BY <1>2, <1>5, <2>4, NoListIsNone
  <2> QED  BY <1>3, <1>7, <2>1, <2>2, <2>3, <2>4 DEF OpenDevice
<1>8. CASE SetHandle
  <2>1. CASE settings < Len(Settings) /\ OpenGoesOn("set") /\ settings' = settings + 1
    BY <1>2, <1>4, <1>6, <1>8, <2>1, SettingsCount DEF SetHandle
  <2>2. CASE settings < Len(Settings) /\ OpenReturns(NoList) /\ lost' = lost + 1
    BY <1>2, <1>5, <2>2, SettingsCount, NoListIsNone
  <2>3. CASE settings = Len(Settings) /\ OpenReturns(settings) /\ UNCHANGED lost
    BY <1>2, <1>5, <2>3, SettingsCount, NoListIsNone
  <2> QED  BY <1>8, <2>1, <2>2, <2>3 DEF SetHandle
<1> QED  BY <1>7, <1>8

(* The invariant of the network program is inductive.                       *)
LEMMA NicStep == NicInv /\ [NicNext]_nicVars => NicInv'
<1> SUFFICES ASSUME NicInv, [NicNext]_nicVars  PROVE NicInv'
  OBVIOUS
<1>1. CASE UNCHANGED nicVars
  BY <1>1 DEF nicVars, NicInv, NicWhere, NicDevices, NicName
<1>2. CASE NicNext
  BY <1>2, FindReturnsInv, ShowReturnsInv, MainCallsInv, OpenNicInv DEF NicNext
<1> QED  BY <1>1, <1>2

(* A device list is alive only inside the call that asked for it, what open_nic
   opens is the first device with the address, and a handle is returned exactly
   when all settings took; a setting that fails loses one (nic.c:38-239).    *)
THEOREM ListsFreedHandlesSet == NicSpec => []NicRight
<1>1. NicInv => NicRight
  <2> SUFFICES ASSUME NicInv  PROVE NicRight
    OBVIOUS
  <2>1. /\ nicCall \in {"main", "open_nic"} => devices = NoList
        /\ opening \in {"lookupnet", "create", "set"} => name_buf # NoList
        /\ (VIF # NoList) <=> (mainNext = 3 /\ nicCall = "main" /\ opening = "no" /\ settings = 8 /\ lost = 0)
        /\ lost # 0 => mainNext = 4 /\ settings < 8
    BY NoListIsNone DEF NicInv, NicWhere
  <2>2. live = (IF devices = NoList THEN 0 ELSE 1)
    BY DEF NicInv, NicDevices
  <2>3. name_buf # NoList =>
          /\ Asked(name_buf.list[name_buf.index])
          /\ \A i \in 1 .. name_buf.index - 1 : ~Asked(name_buf.list[i])
    BY DEF NicInv, NicName
  <2> QED  BY <2>1, <2>2, <2>3, SettingsCount DEF NicRight
<1> QED  BY <1>1, NicInitInv, NicStep, PTL DEF NicSpec

-----------------------------------------------------------------------------
(* The matrices of matrix.c: the shape is within the bound, no matrix has rows
   and no columns, the store holds integers.                                 *)
Shaped(m) ==
  /\ m \in [rows : 0 .. Dim, columns : 0 .. Dim, store : [Store -> Int]]
  /\ m.rows = 0 <=> m.columns = 0

MatrixTypes ==
  /\ matrix \in [Matrices -> [rows : 0 .. Dim, columns : 0 .. Dim, store : [Store -> Int]]]
  /\ \A x \in Matrices : Shaped(matrix[x])
  /\ return_value \in Int /\ trapped \in BOOLEAN
  /\ output \in Matrices
  /\ calls \in 0 .. MaxCalls

(* A finite set of naturals that is not empty has a greatest element.       *)
LEMMA GreatestNatural ==
    ASSUME NEW S \in SUBSET Nat, S # {}, IsFiniteSet(S)
    PROVE  \E d \in S : \A e \in S : e <= d
<1> DEFINE T == {Cardinality(s) : s \in {u \in SUBSET S : u # {} /\ \A d \in u : \E e \in u : ~(e <= d)}}
<1>1. ASSUME NEW u \in SUBSET S  PROVE IsFiniteSet(u) /\ Cardinality(u) \in Nat
  BY FS_Subset, FS_CardinalityType
<1>2. T \in SUBSET Nat
  BY <1>1
<1>3. ASSUME T # {}  PROVE FALSE
  <2>1. PICK n \in T : \A m \in T : n <= m
    <3> HIDE DEF T
    <3> QED  BY <1>2, <1>3, LeastNatural
  <2>2. PICK u \in SUBSET S : u # {} /\ (\A d \in u : \E e \in u : ~(e <= d)) /\ Cardinality(u) = n
    OBVIOUS
  <2>3. PICK x \in u : TRUE
    BY <2>2
  <2>4. /\ u \ {x} \in SUBSET S /\ Cardinality(u \ {x}) = n - 1 /\ n \in Nat
    BY <1>1, <2>2, FS_RemoveElement
  <2>5. u \ {x} # {}
    BY <2>2
  <2>6. PICK d \in u \ {x} : \A e \in u \ {x} : e <= d
    <3>1. n - 1 \notin T
      <4> HIDE DEF T
      <4> QED  BY <2>1, <2>4
    <3> QED  BY <2>4, <2>5, <3>1
  <2>7. d \in Nat /\ x \in Nat
    OBVIOUS
  <2>8. CASE x <= d
    BY <2>2, <2>6, <2>8
  <2>9. CASE ~(x <= d)
    <3>1. \A e \in u \ {x} : e <= x
      BY <2>6, <2>7, <2>9
    <3> QED  BY <2>2, <2>7, <3>1
  <2> QED  BY <2>8, <2>9
<1> QED  BY <1>3

(* The bound on the rows and columns, and what it is a bound of.            *)
LEMMA DimFacts ==
    /\ Dim \in Nat /\ Dim * Dim \in Nat /\ Store = 0 .. Dim * Dim - 1
    /\ Dimensions \subseteq 1 .. Dim
    /\ DataArrays \subseteq [Store -> Int] /\ Halves \subseteq Int /\ MaxCalls \in Nat
<1>1. Dim \in Dimensions /\ \A e \in Dimensions : e <= Dim
  <2>1. \E d \in Dimensions : \A e \in Dimensions : e <= d
    BY MatrixAssumption, GreatestNatural
  <2> QED  BY <2>1 DEF Dim
<1>2. Dimensions \subseteq Nat \ {0} /\ Halves \subseteq Int /\ DataArrays \subseteq [Store -> Int]
      /\ MaxCalls \in Nat
  BY MatrixAssumption
<1>3. Dim \in Nat /\ Dimensions \subseteq 1 .. Dim
  BY <1>1, <1>2
<1>4. Dim * Dim \in Nat
  BY <1>3
<1> QED  BY <1>2, <1>3, <1>4 DEF Store

(* A product of naturals is monotonic.                                      *)
LEMMA Times ==
    ASSUME NEW a \in Nat, NEW b \in Nat, NEW n \in Nat, a <= b
    PROVE  a * n \in Nat /\ b * n \in Nat /\ a * n <= b * n
<1> DEFINE d == b - a
<1>1. d \in Nat /\ b = a + d
  OBVIOUS
<1> HIDE DEF d
<1>2. (a + d) * n = a * n + d * n /\ a * n \in Nat /\ d * n \in Nat
  BY <1>1
<1> QED  BY <1>1, <1>2

(* The quotient and the remainder are what they are called.                 *)
LEMMA Parts ==
    ASSUME NEW n \in Nat \ {0}, NEW r \in Nat, NEW c \in 0 .. n - 1
    PROVE  /\ r * n + c \in Nat
           /\ (r * n + c) \div n = r /\ (r * n + c) % n = c
<1> DEFINE i == r * n + c
<1>1. r * n \in Nat
  OBVIOUS
<1>2. i \in Nat /\ i = r * n + c
  BY <1>1
<1> HIDE DEF i
<1>3. i % n = c
  BY <1>2, Remainder
<1> DEFINE q == i \div n
<1>4. q \in Int /\ i = q * n + (i % n)
  BY <1>2
<1> HIDE DEF q
<1>5. q * n = r * n
  BY <1>1, <1>2, <1>3, <1>4
<1>6. q = r
  <2>1. CASE q < r
    <3>1. q + 1 <= r /\ (r - q) \in Nat \ {0}
      BY <1>4, <2>1
    <3> DEFINE d == r - q
    <3>2. d \in Nat \ {0} /\ r = q + d
      BY <1>4, <3>1
    <3> HIDE DEF d
    <3>3. (q + d) * n = q * n + d * n /\ d * n > 0
      BY <1>4, <3>2
    <3> QED  BY <1>4, <1>5, <3>2, <3>3
  <2>2. CASE q > r
    <3> DEFINE d == q - r
    <3>1. d \in Nat \ {0} /\ q = r + d
      BY <1>4, <2>2
    <3> HIDE DEF d
    <3>2. (r + d) * n = r * n + d * n /\ d * n > 0
      BY <1>4, <3>1
    <3> QED  BY <1>1, <1>5, <3>1, <3>2
  <2> QED  BY <1>4, <2>1, <2>2
<1> QED  BY <1>2, <1>3, <1>6 DEF i, q

\* The entry (r, c) has a place in the store, from which r and c are found again.
InPlace(r, c, rows, columns) ==
  /\ r * columns + c \in Store
  /\ r * columns + c < rows * columns
  /\ (r * columns + c) \div columns = r /\ (r * columns + c) % columns = c

(* The place of an entry in the store.                                      *)
LEMMA PlaceInStore ==
    ASSUME NEW rows \in 0 .. Dim, NEW columns \in 0 .. Dim,
           NEW r \in 0 .. rows - 1, NEW c \in 0 .. columns - 1
    PROVE  InPlace(r, c, rows, columns)
<1>1. Dim \in Nat /\ Store = 0 .. Dim * Dim - 1 /\ Dim * Dim \in Nat
  BY DimFacts
<1>2. rows \in Nat /\ columns \in Nat \ {0} /\ r \in Nat /\ r + 1 \in Nat /\ r + 1 <= rows
      /\ rows <= Dim /\ columns <= Dim
  BY <1>1
<1>3. (r + 1) * columns <= rows * columns /\ rows * columns \in Nat /\ (r + 1) * columns \in Nat
  BY <1>2, Times
<1>4. (r + 1) * columns = r * columns + columns /\ r * columns \in Nat
  BY <1>2
<1>5. rows * columns <= Dim * columns /\ columns * Dim <= Dim * Dim /\ Dim * columns \in Nat
  BY <1>1, <1>2, Times
<1>6. Dim * columns = columns * Dim
  BY <1>1, <1>2
<1>7. r * columns + c < rows * columns /\ r * columns + c \in Nat
  BY <1>1, <1>2, <1>3, <1>4
<1>8. r * columns + c < Dim * Dim
  BY <1>1, <1>2, <1>3, <1>4, <1>5, <1>6, <1>7
<1>9. (r * columns + c) \div columns = r /\ (r * columns + c) % columns = c
  BY <1>2, Parts
<1> QED  BY <1>1, <1>7, <1>8, <1>9 DEF InPlace

(* Each place of the store below the size of a matrix is one of its entries. *)
LEMMA PlaceOf ==
    ASSUME NEW rows \in 0 .. Dim, NEW columns \in 0 .. Dim, NEW i \in Store, i < rows * columns
    PROVE  /\ i \div columns \in 0 .. rows - 1 /\ i % columns \in 0 .. columns - 1
           /\ (i \div columns) * columns + (i % columns) = i
<1>1. Dim \in Nat /\ Store = 0 .. Dim * Dim - 1 /\ Dim * Dim \in Nat
  BY DimFacts
<1>2. i \in Nat /\ rows \in Nat /\ columns \in Nat
  BY <1>1
<1>3. columns # 0
  BY <1>2
<1> DEFINE q == i \div columns
           m == i % columns
<1>4. q \in Nat /\ m \in 0 .. columns - 1 /\ i = q * columns + m
  BY <1>2, <1>3
<1> HIDE DEF q, m
<1>5. q < rows
  <2>1. CASE rows <= q
    <3>1. rows * columns <= q * columns /\ q * columns \in Nat
      BY <1>2, <1>4, <2>1, Times
    <3> QED  BY <1>2, <1>4, <3>1
  <2> QED  BY <1>2, <1>4, <2>1
<1>6. q \in 0 .. rows - 1
  BY <1>2, <1>4, <1>5
<1> QED  BY <1>4, <1>6 DEF q, m

(* The entries of the rows and columns given are those of the store given.  *)
LEMMA EntriesAre ==
    ASSUME NEW m
    PROVE  Entries(m) = [p \in Places(m.rows, m.columns) |-> m.store[p[1] * m.columns + p[2]]]
  BY DEF Entries, GetMatrixValue, Index

LEMMA EntryIs ==
    ASSUME NEW m, NEW r \in 0 .. m.rows - 1, NEW c \in 0 .. m.columns - 1
    PROVE  Entries(m)[<<r, c>>] = m.store[r * m.columns + c]
<1>1. <<r, c>> \in Places(m.rows, m.columns) /\ <<r, c>>[1] = r /\ <<r, c>>[2] = c
  BY DEF Places
<1> QED  BY <1>1 DEF Entries, GetMatrixValue, Index

(* A number is told from the entries of a matrix.                           *)
LEMMA NotANumber ==
    ASSUME NEW rows \in Nat \ {0}, NEW columns \in Nat \ {0}
    PROVE  Places(rows, columns) # {<<>>} /\ Places(rows, columns) # {}
<1>1. <<0, 0>> \in Places(rows, columns)
  BY DEF Places
<1>2. <<0, 0>> # <<>>
  OBVIOUS
<1> QED  BY <1>1, <1>2

-----------------------------------------------------------------------------
(* The matrices as the memory holds them, and the matrices that differ from
   those given in the store of z only.                                       *)
Memory == [Matrices -> [rows : 0 .. Dim, columns : 0 .. Dim, store : [Store -> Int]]]

Alike(shaped, z) ==
  {m \in Memory : /\ m[z].rows = shaped[z].rows /\ m[z].columns = shaped[z].columns
                  /\ \A y \in Matrices \ {z} : m[y] = shaped[y]}

Put(m, z, i, v) == [m EXCEPT ![z].store[i] = v]

(* What a turn of a loop writes, and what it leaves.                        *)
LEMMA PutFacts ==
    ASSUME NEW shaped \in Memory, NEW z \in Matrices, NEW m \in Alike(shaped, z),
           NEW i \in Store, NEW v \in Int
    PROVE  /\ Put(m, z, i, v) \in Alike(shaped, z)
           /\ Put(m, z, i, v)[z].store[i] = v
           /\ \A j \in Store : j # i => Put(m, z, i, v)[z].store[j] = m[z].store[j]
<1>1. PICK out : out = [m[z] EXCEPT !.store[i] = v]
  OBVIOUS
<1>2. m \in Memory /\ m[z] \in [rows : 0 .. Dim, columns : 0 .. Dim, store : [Store -> Int]]
  BY DEF Alike, Memory
<1>3. /\ out \in [rows : 0 .. Dim, columns : 0 .. Dim, store : [Store -> Int]]
      /\ out.rows = m[z].rows /\ out.columns = m[z].columns
      /\ out.store = [m[z].store EXCEPT ![i] = v]
  BY <1>1, <1>2
<1>4. Put(m, z, i, v) = [m EXCEPT ![z] = out]
  BY <1>1 DEF Put
<1>5. PICK p : p = Put(m, z, i, v)
  OBVIOUS
<1>6. p \in Memory /\ p[z] = out /\ \A y \in Matrices \ {z} : p[y] = m[y]
  BY <1>2, <1>3, <1>4, <1>5 DEF Memory
<1>7. p \in Alike(shaped, z)
  BY <1>3, <1>6 DEF Alike
<1>8. p[z].store[i] = v /\ \A j \in Store : j # i => p[z].store[j] = m[z].store[j]
  BY <1>2, <1>3, <1>6
<1> QED  BY <1>5, <1>7, <1>8

(* A finite recursion has a solution.                                       *)
LEMMA FiniteRecursion ==
    ASSUME NEW M, NEW s \in M, NEW n \in Nat, NEW g \in [1 .. n -> [M -> M]]
    PROVE  \E f \in [0 .. n -> M] : f[0] = s /\ \A i \in 1 .. n : f[i] = g[i][f[i - 1]]
<1> DEFINE Solves(f, k) == /\ f \in [0 .. k -> M] /\ f[0] = s
                           /\ \A i \in 1 .. k : f[i] = g[i][f[i - 1]]
           T == {k \in 0 .. n : ~\E f : Solves(f, k)}
<1>1. ASSUME T # {}  PROVE FALSE
  <2>1. PICK k \in T : \A j \in T : k <= j
    <3>1. T \in SUBSET Nat
      OBVIOUS
    <3> HIDE DEF T
    <3> QED  BY <1>1, <3>1, LeastNatural
  <2>2. k \in 0 .. n /\ ~\E f : Solves(f, k)
    OBVIOUS
  <2>3. k # 0
    <3>1. PICK f : f = [i \in 0 .. 0 |-> s]
      OBVIOUS
    <3>2. Solves(f, 0)
      BY <3>1
    <3> HIDE DEF Solves
    <3> QED  BY <2>2, <3>2
  <2>4. k - 1 \in 0 .. n /\ ~(k <= k - 1) /\ k \in 1 .. n
    BY <2>2, <2>3
  <2>5. PICK f : Solves(f, k - 1)
    <3>1. k - 1 \notin T
      <4> HIDE DEF T
      <4> QED  BY <2>1, <2>4
    <3> HIDE DEF Solves
    <3> QED  BY <2>4, <3>1
  <2>6. PICK h : h = [i \in 0 .. k |-> IF i = k THEN g[k][f[k - 1]] ELSE f[i]]
    OBVIOUS
  <2>7. f[k - 1] \in M /\ g[k] \in [M -> M] /\ g[k][f[k - 1]] \in M
    <3>1. k - 1 \in 0 .. k - 1
      BY <2>4
    <3>2. f[k - 1] \in M
      BY <2>5, <3>1
    <3> QED  BY <2>4, <3>2
  <2>8. h \in [0 .. k -> M]
    <3>1. ASSUME NEW i \in 0 .. k, i # k  PROVE f[i] \in M
      <4>1. i \in 0 .. k - 1
        BY <2>4, <3>1
      <4> QED  BY <2>5, <4>1
    <3> QED  BY <2>6, <2>7, <3>1
  <2>9. h[0] = s
    BY <2>4, <2>5, <2>6
  <2>10. ASSUME NEW i \in 1 .. k  PROVE h[i] = g[i][h[i - 1]]
    <3>1. i - 1 \in 0 .. k /\ i - 1 # k /\ i \in 0 .. k
      BY <2>4
    <3>2. h[i - 1] = f[i - 1]
      BY <2>6, <3>1
    <3>3. CASE i = k
      BY <2>6, <3>1, <3>2, <3>3
    <3>4. CASE i # k
      <4>1. i \in 1 .. k - 1
        BY <2>4, <3>4
      <4> QED  BY <2>5, <2>6, <3>1, <3>2, <3>4, <4>1
    <3> QED  BY <3>3, <3>4
  <2>11. Solves(h, k)
    BY <2>8, <2>9, <2>10
  <2> HIDE DEF Solves
  <2> QED  BY <2>2, <2>11
<1>2. \E f : Solves(f, n)
  <2>1. n \in 0 .. n
    OBVIOUS
  <2> HIDE DEF Solves
  <2> QED  BY <1>1, <2>1
<1> QED  BY <1>2

(* The turns of a loop: turn k writes h[k], a value read from the matrices it
   finds, at the place t[k] of the store of z.                               *)
Turns(shaped, z, n, t, h) ==
  /\ t \in [0 .. n - 1 -> Store]
  /\ h \in [0 .. n - 1 -> [Alike(shaped, z) -> Int]]

(* A loop has a run.                                                        *)
LEMMA LoopRuns ==
    ASSUME NEW shaped \in Memory, NEW z \in Matrices, NEW n \in Nat, NEW t, NEW h, Turns(shaped, z, n, t, h)
    PROVE  \E f \in [0 .. n -> Alike(shaped, z)] :
              /\ f[0] = shaped
              /\ \A i \in 1 .. n : f[i] = Put(f[i - 1], z, t[i - 1], h[i - 1][f[i - 1]])
<1> DEFINE M == Alike(shaped, z)
           g == [i \in 1 .. n |-> [m \in M |-> Put(m, z, t[i - 1], h[i - 1][m])]]
<1>1. shaped \in M
  BY DEF Alike
<1>2. ASSUME NEW i \in 1 .. n, NEW m \in M
      PROVE  Put(m, z, t[i - 1], h[i - 1][m]) \in M
  <2>1. i - 1 \in 0 .. n - 1
    OBVIOUS
  <2>2. t[i - 1] \in Store /\ h[i - 1][m] \in Int
    BY <2>1 DEF Turns
  <2> QED  BY <2>2, PutFacts
<1> HIDE DEF M
<1>3. g \in [1 .. n -> [M -> M]]
  BY <1>2
<1>4. PICK f \in [0 .. n -> M] : f[0] = shaped /\ \A i \in 1 .. n : f[i] = g[i][f[i - 1]]
  <2> HIDE DEF g
  <2> QED  BY <1>1, <1>3, FiniteRecursion
<1>5. ASSUME NEW i \in 1 .. n
      PROVE  f[i] = Put(f[i - 1], z, t[i - 1], h[i - 1][f[i - 1]])
  <2>1. i - 1 \in 0 .. n
    OBVIOUS
  <2>2. f[i - 1] \in M
    BY <2>1
  <2> QED  BY <1>4, <2>2
<1> QED  BY <1>4, <1>5 DEF M

\* A run w of such a loop after which each place holds what its turn wrote.
Ran(shaped, z, n, t, h, w) ==
  /\ w[n] \in Alike(shaped, z)
  /\ \A k \in 0 .. n - 1 :
        /\ w[k] \in Alike(shaped, z)
        /\ w[k][z].store[t[k]] = shaped[z].store[t[k]]
        /\ w[n][z].store[t[k]] = h[k][w[k]]

(* A turn finds its own place as the loop found it, and what it writes there
   stays, where no two turns have the same place.                            *)
LEMMA LoopFacts ==
    ASSUME NEW shaped \in Memory, NEW z \in Matrices, NEW n \in Nat, NEW t, NEW h, Turns(shaped, z, n, t, h),
           \A j, k \in 0 .. n - 1 : t[j] = t[k] => j = k,
           NEW w, w[0] = shaped,
           \A i \in 1 .. n : w[i - 1] \in Alike(shaped, z) =>
              w[i] = Put(w[i - 1], z, t[i - 1], h[i - 1][w[i - 1]])
    PROVE  Ran(shaped, z, n, t, h, w)
<1> DEFINE Good(i) == /\ w[i] \in Alike(shaped, z)
                      /\ \A k \in 0 .. n - 1 :
                            w[i][z].store[t[k]] = IF k < i THEN h[k][w[k]] ELSE shaped[z].store[t[k]]
           T == {i \in 0 .. n : ~Good(i)}
<1>1. ASSUME T # {}  PROVE FALSE
  <2>1. PICK i \in T : \A j \in T : i <= j
    <3>1. T \in SUBSET Nat
      OBVIOUS
    <3> HIDE DEF T
    <3> QED  BY <1>1, <3>1, LeastNatural
  <2>2. i \in 0 .. n /\ ~Good(i)
    OBVIOUS
  <2>3. i # 0
    <3>1. Good(0)
      BY DEF Alike
    <3> HIDE DEF Good
    <3> QED  BY <2>2, <3>1
  <2>4. i - 1 \in 0 .. n /\ ~(i <= i - 1) /\ i \in 1 .. n /\ i - 1 \in 0 .. n - 1
    BY <2>2, <2>3
  <2>5. Good(i - 1)
    <3>1. i - 1 \notin T
      <4> HIDE DEF T
      <4> QED  BY <2>1, <2>4
    <3> HIDE DEF Good
    <3> QED  BY <2>4, <3>1
  <2>6. PICK m : m = w[i - 1]
    OBVIOUS
  <2>7. m \in Alike(shaped, z)
    BY <2>5, <2>6
  <2>8. PICK p : p = t[i - 1]
    OBVIOUS
  <2>9. PICK v : v = h[i - 1][m]
    OBVIOUS
  <2>10. p \in Store /\ v \in Int
    BY <2>4, <2>7, <2>8, <2>9 DEF Turns
  <2>11. w[i] = Put(m, z, p, v)
    BY <2>4, <2>6, <2>7, <2>8, <2>9
  <2>12. /\ w[i] \in Alike(shaped, z) /\ w[i][z].store[p] = v
         /\ \A j \in Store : j # p => w[i][z].store[j] = m[z].store[j]
    BY <2>7, <2>10, <2>11, PutFacts
  <2>13. ASSUME NEW k \in 0 .. n - 1
         PROVE  w[i][z].store[t[k]] = IF k < i THEN h[k][w[k]] ELSE shaped[z].store[t[k]]
    <3>1. CASE k = i - 1
      BY <2>4, <2>6, <2>8, <2>9, <2>12, <3>1
    <3>2. CASE k # i - 1
      <4>1. t[k] \in Store /\ t[k] # p
        BY <2>4, <2>8, <3>2 DEF Turns
      <4>2. w[i][z].store[t[k]] = w[i - 1][z].store[t[k]]
        BY <2>6, <2>12, <4>1
      <4>3. k < i <=> k < i - 1
        BY <2>4, <3>2
      <4> QED  BY <2>5, <4>2, <4>3
    <3> QED  BY <3>1, <3>2
  <2>14. Good(i)
    BY <2>12, <2>13
  <2> HIDE DEF Good
  <2> QED  BY <2>2, <2>14
<1>2. \A i \in 0 .. n : Good(i)
  <2> HIDE DEF Good
  <2> QED  BY <1>1
<1>3. Good(n) /\ n \in 0 .. n
  BY <1>2
<1>4. ASSUME NEW k \in 0 .. n - 1
      PROVE  /\ w[k] \in Alike(shaped, z)
             /\ w[k][z].store[t[k]] = shaped[z].store[t[k]]
             /\ w[n][z].store[t[k]] = h[k][w[k]]
  <2>1. k \in 0 .. n /\ ~(k < k) /\ k < n
    OBVIOUS
  <2>2. Good(k)
    BY <1>2, <2>1
  <2> QED  BY <1>3, <2>1, <2>2
<1> QED  BY <1>3, <1>4 DEF Ran
(* The matrices of MatrixTypes.                                             *)
LEMMA MemoryIs ==
    ASSUME MatrixTypes
    PROVE  matrix \in Memory /\ \A y \in Matrices : Shaped(matrix[y])
  BY DEF MatrixTypes, Memory

(* A row, a column and a stride within the bounds lead into the store.      *)
LEMMA InStore ==
    ASSUME NEW r \in 0 .. Dim - 1, NEW c \in 0 .. Dim - 1, NEW stride \in 0 .. Dim
    PROVE  r * stride + c \in Store
<1>1. Dim \in Nat /\ Store = 0 .. Dim * Dim - 1 /\ Dim * Dim \in Nat
  BY DimFacts
<1>2. r \in Nat /\ c \in Nat /\ stride \in Nat /\ r <= Dim - 1 /\ Dim - 1 \in Nat /\ stride <= Dim
  BY <1>1
<1>3. r * stride <= (Dim - 1) * stride /\ r * stride \in Nat /\ (Dim - 1) * stride \in Nat
  BY <1>2, Times
<1>4. /\ stride * (Dim - 1) <= Dim * (Dim - 1) /\ stride * (Dim - 1) = (Dim - 1) * stride
      /\ Dim * (Dim - 1) = Dim * Dim - Dim
  BY <1>1, <1>2, Times
<1> DEFINE u == r * stride
           v == (Dim - 1) * stride
           d == Dim * Dim
<1>5. u \in Nat /\ v \in Nat /\ d \in Nat /\ u <= v /\ v <= d - Dim
  BY <1>1, <1>3, <1>4
<1> HIDE DEF u, v, d
<1>6. u + c \in 0 .. d - 1
  BY <1>1, <1>2, <1>5
<1> QED  BY <1>1, <1>6 DEF u, d

(* What a turn finds in a matrix.                                           *)
LEMMA AlikeIs ==
    ASSUME NEW shaped \in Memory, NEW z \in Matrices, NEW m \in Alike(shaped, z),
           \A u \in Matrices : Shaped(shaped[u]), NEW y \in Matrices
    PROVE  /\ m[y].rows = shaped[y].rows /\ m[y].columns = shaped[y].columns
           /\ m[y].columns \in 0 .. Dim /\ m[y].store \in [Store -> Int]
           /\ Shaped(m[y]) /\ m \in Memory
           /\ y # z => m[y] = shaped[y]
<1>1. m \in Memory /\ m[y] \in [rows : 0 .. Dim, columns : 0 .. Dim, store : [Store -> Int]]
  BY DEF Alike, Memory
<1>2. m[y].rows = shaped[y].rows /\ m[y].columns = shaped[y].columns /\ (y # z => m[y] = shaped[y])
  BY DEF Alike
<1>3. Shaped(m[y])
  BY <1>1, <1>2 DEF Shaped
<1> QED  BY <1>1, <1>2, <1>3

(* A loop writes at the places of its turns, row by row.                    *)
LEMMA RowByRow ==
    ASSUME NEW rows \in 0 .. Dim, NEW columns \in 0 .. Dim, NEW n, n = rows * columns, NEW k \in 0 .. n - 1
    PROVE  /\ n \in Nat /\ k \in Store
           /\ k \div columns \in 0 .. rows - 1 /\ k % columns \in 0 .. columns - 1
           /\ k \div columns \in 0 .. Dim - 1 /\ k % columns \in 0 .. Dim - 1
           /\ (k \div columns) * columns + (k % columns) = k
<1>1. Dim \in Nat /\ Store = 0 .. Dim * Dim - 1 /\ Dim * Dim \in Nat
  BY DimFacts
<1>2. n \in Nat /\ n <= Dim * Dim
  <2>1. rows \in Nat /\ columns \in Nat /\ rows <= Dim /\ columns <= Dim
    BY <1>1
  <2>2. rows * columns \in Nat /\ rows * columns <= Dim * columns /\ columns * Dim <= Dim * Dim
        /\ Dim * columns = columns * Dim
    BY <1>1, <2>1, Times
  <2>3. columns * Dim \in Nat
    BY <1>1, <2>1
  <2> DEFINE u == columns * Dim
             d == Dim * Dim
  <2>4. n \in Nat /\ u \in Nat /\ d \in Nat /\ n <= u /\ u <= d
    BY <1>1, <2>2, <2>3
  <2> HIDE DEF u, d
  <2>5. n <= d
    BY <2>4
  <2> QED  BY <2>4, <2>5 DEF d
<1>3. k \in Store /\ k < rows * columns
  BY <1>1, <1>2
<1>4. /\ k \div columns \in 0 .. rows - 1 /\ k % columns \in 0 .. columns - 1
      /\ (k \div columns) * columns + (k % columns) = k
  BY <1>3, PlaceOf
<1>5. k \div columns \in 0 .. Dim - 1 /\ k % columns \in 0 .. Dim - 1
  BY <1>1, <1>4
<1> QED  BY <1>2, <1>3, <1>4, <1>5

\* The matrices ms are a sum of x and y in z, where it is told what the sum is.
Totals(x, y, z, ms) ==
  /\ ms \in Memory
  /\ \A u \in Matrices : Shaped(ms[u])
  /\ ms[z].rows \in 1 .. Dim /\ ms[z].columns = ms[z].rows
  /\ SquareAlike(x, y) =>
        /\ ms[z].rows = matrix[y].rows
        /\ \A k \in 0 .. matrix[y].rows * matrix[y].rows - 1 :
              ms[z].store[k] = matrix[x].store[k] + matrix[y].store[k]

(* MatrixAdd and MatrixSubtraction add, also in place (matrix.c:74-114).    *)
LEMMA SummedIs ==
    ASSUME MatrixTypes, NEW x \in Matrices, NEW y \in Matrices, NEW z \in Matrices, Filled(x), Filled(y)
    PROVE  Totals(x, y, z, Summed(x, y, z))
<1> DEFINE in1 == [matrix EXCEPT ![x].rows = matrix[y].rows, ![x].columns = matrix[y].columns]
           shaped == [in1 EXCEPT ![z].rows = in1[x].rows, ![z].columns = in1[x].rows]
           rows == shaped[x].rows
           columns == shaped[x].columns
           n == rows * columns
           Value(m, k) == m[x].store[(k \div columns) * m[x].columns + (k % columns)]
                          + m[y].store[(k \div columns) * m[y].columns + (k % columns)]
           Place(k) == (k \div columns) * columns + (k % columns)
           IsRun(f) == f = [i \in 0 .. n |-> IF i = 0 THEN shaped
                              ELSE [f[i - 1] EXCEPT ![z].store[Place(i - 1)] = Value(f[i - 1], i - 1)]]
           w == CHOOSE f : IsRun(f)
           t == [k \in 0 .. n - 1 |-> k]
           h == [k \in 0 .. n - 1 |-> [m \in Alike(shaped, z) |-> Value(m, k)]]
<1>1. Summed(x, y, z) = w[n]
  BY DEF Summed, Loop, Index, GetMatrixValue
<1> HIDE DEF w
<1>2. /\ matrix \in Memory /\ Shaped(matrix[x]) /\ Shaped(matrix[y]) /\ Shaped(matrix[z])
      /\ matrix[x].rows > 0 /\ matrix[y].rows > 0
  BY MemoryIs DEF Filled
<1>3. /\ shaped \in Memory
      /\ shaped[x].rows = matrix[y].rows /\ shaped[z].rows = matrix[y].rows
      /\ shaped[z].columns = matrix[y].rows
      /\ shaped[x].columns = IF x = z THEN matrix[y].rows ELSE matrix[y].columns
      /\ \A u \in Matrices : shaped[u].store = matrix[u].store
      /\ \A u \in Matrices : u \notin {x, z} => shaped[u] = matrix[u]
  BY <1>2 DEF Memory, Shaped
<1>4. matrix[y].rows \in 1 .. Dim /\ matrix[y].columns \in 1 .. Dim /\ Dim \in Nat
  BY <1>2, DimFacts DEF Shaped
<1> HIDE DEF in1, shaped
<1>5. \A u \in Matrices : Shaped(shaped[u])
  <2>1. ASSUME NEW u \in Matrices  PROVE Shaped(shaped[u])
    <3>1. shaped[u] \in [rows : 0 .. Dim, columns : 0 .. Dim, store : [Store -> Int]]
      BY <1>3 DEF Memory
    <3>2. CASE u \in {x, z}
      BY <1>3, <1>4, <3>1, <3>2 DEF Shaped
    <3>3. CASE u \notin {x, z}
      BY <1>3, <3>3, MemoryIs
    <3> QED  BY <3>2, <3>3
  <2> QED  BY <2>1
<1>6. rows \in 0 .. Dim /\ columns \in 0 .. Dim /\ rows \in 1 .. Dim
  BY <1>3, <1>4
<1> HIDE DEF rows, columns
<1>7. n \in Nat
  BY <1>6, DimFacts
<1>8. ASSUME NEW k \in 0 .. n - 1  PROVE k \in Store /\ Place(k) = k
  BY <1>6, RowByRow
<1>9. ASSUME NEW k \in 0 .. n - 1, NEW m \in Alike(shaped, z)  PROVE Value(m, k) \in Int
  <2>1. k \div columns \in 0 .. Dim - 1 /\ k % columns \in 0 .. Dim - 1
    BY <1>6, RowByRow
  <2>2. /\ m[x].columns \in 0 .. Dim /\ m[y].columns \in 0 .. Dim
        /\ m[x].store \in [Store -> Int] /\ m[y].store \in [Store -> Int]
    BY <1>3, <1>5, AlikeIs
  <2>3. /\ (k \div columns) * m[x].columns + (k % columns) \in Store
        /\ (k \div columns) * m[y].columns + (k % columns) \in Store
    BY <2>1, <2>2, InStore
  <2> QED  BY <2>2, <2>3
<1> HIDE DEF Place, Value, n
<1>10. Turns(shaped, z, n, t, h)
  BY <1>8, <1>9 DEF Turns
<1>11. \E f : IsRun(f)
  <2>1. PICK f \in [0 .. n -> Alike(shaped, z)] :
           f[0] = shaped /\ \A i \in 1 .. n : f[i] = Put(f[i - 1], z, t[i - 1], h[i - 1][f[i - 1]])
    <3> HIDE DEF t, h
    <3> QED  BY <1>3, <1>7, <1>10, LoopRuns
  <2>2. ASSUME NEW i \in 0 .. n
        PROVE  f[i] = IF i = 0 THEN shaped
                      ELSE [f[i - 1] EXCEPT ![z].store[Place(i - 1)] = Value(f[i - 1], i - 1)]
    <3>1. CASE i # 0
      <4>1. i \in 1 .. n /\ i - 1 \in 0 .. n - 1 /\ i - 1 \in 0 .. n
        BY <1>7, <3>1
      <4>2. t[i - 1] = Place(i - 1) /\ h[i - 1][f[i - 1]] = Value(f[i - 1], i - 1)
        BY <1>8, <4>1
      <4> QED  BY <2>1, <3>1, <4>1, <4>2 DEF Put
    <3> QED  BY <2>1, <3>1
  <2>3. IsRun(f)
    BY <2>2
  <2> QED  BY <2>3
<1>12. IsRun(w)
  <2> HIDE DEF IsRun
  <2> QED  BY <1>11 DEF w
<1>13. /\ w[0] = shaped
       /\ \A i \in 1 .. n : w[i - 1] \in Alike(shaped, z) => w[i] = Put(w[i - 1], z, t[i - 1], h[i - 1][w[i - 1]])
  <2>1. w[0] = shaped
    BY <1>7, <1>12
  <2>2. ASSUME NEW i \in 1 .. n, w[i - 1] \in Alike(shaped, z)
        PROVE  w[i] = Put(w[i - 1], z, t[i - 1], h[i - 1][w[i - 1]])
    <3>1. i \in 0 .. n /\ i # 0 /\ i - 1 \in 0 .. n - 1
      BY <1>7
    <3>2. w[i] = [w[i - 1] EXCEPT ![z].store[Place(i - 1)] = Value(w[i - 1], i - 1)]
      BY <1>12, <3>1
    <3>3. t[i - 1] = Place(i - 1) /\ h[i - 1][w[i - 1]] = Value(w[i - 1], i - 1)
      BY <1>8, <2>2, <3>1
    <3> QED  BY <3>2, <3>3 DEF Put
  <2> QED  BY <2>1, <2>2
<1> HIDE DEF IsRun
<1>14. Ran(shaped, z, n, t, h, w)
  <2>1. \A j, k \in 0 .. n - 1 : t[j] = t[k] => j = k
    OBVIOUS
  <2> HIDE DEF t, h
  <2> QED  BY <1>3, <1>7, <1>10, <1>13, <2>1, LoopFacts
<1>15. w[n] \in Alike(shaped, z)
  BY <1>14 DEF Ran
<1>16. /\ w[n] \in Memory /\ \A u \in Matrices : Shaped(w[n][u])
       /\ w[n][z].rows = matrix[y].rows /\ w[n][z].columns = matrix[y].rows
  BY <1>3, <1>5, <1>15, AlikeIs
<1>17. ASSUME SquareAlike(x, y), NEW k \in 0 .. matrix[y].rows * matrix[y].rows - 1
       PROVE  w[n][z].store[k] = matrix[x].store[k] + matrix[y].store[k]
  <2>1. /\ matrix[y].columns = matrix[y].rows /\ matrix[x].columns = matrix[y].rows
        /\ rows = matrix[y].rows /\ columns = matrix[y].rows
    BY <1>3, <1>17 DEF SquareAlike, rows, columns
  <2>2. \A u \in {x, y} : shaped[u].columns = columns
    BY <1>3, <2>1
  <2>3. k \in 0 .. n - 1
    BY <2>1 DEF n
  <2>4. w[k] \in Alike(shaped, z) /\ w[k][z].store[k] = shaped[z].store[k] /\ w[n][z].store[k] = Value(w[k], k)
    BY <1>14, <2>3 DEF Ran
  <2>5. ASSUME NEW u \in {x, y}
        PROVE  w[k][u].store[(k \div columns) * w[k][u].columns + (k % columns)] = matrix[u].store[k]
    <3>1. u \in Matrices
      OBVIOUS
    <3>2. w[k][u].columns = columns /\ (u # z => w[k][u] = shaped[u])
      BY <1>3, <1>5, <2>2, <2>4, <3>1, AlikeIs
    <3>3. w[k][u].store[k] = matrix[u].store[k]
      BY <1>3, <2>4, <3>1, <3>2
    <3>4. (k \div columns) * columns + (k % columns) = k
      BY <1>8, <2>3 DEF Place
    <3> QED  BY <3>2, <3>3, <3>4
  <2>6. Value(w[k], k) = matrix[x].store[k] + matrix[y].store[k]
    BY <2>5 DEF Value
  <2> QED  BY <2>4, <2>6
<1>18. SquareAlike(x, y) => w[n][z].rows = matrix[y].rows
  BY <1>16
<1> QED  BY <1>1, <1>4, <1>16, <1>17, <1>18 DEF Totals
(* A call that writes a matrix keeps the types.                             *)
LEMMA LeavesTypes ==
    ASSUME MatrixTypes, NEW z \in Matrices, NEW ms \in Memory, \A u \in Matrices : Shaped(ms[u]),
           NEW want, Leaves(z, ms, want)
    PROVE  MatrixTypes'
<1>1. matrix' = ms /\ output' = z
      /\ return_value' = return_value /\ trapped' = trapped /\ calls' = calls + 1 /\ calls < MaxCalls
  BY DEF Leaves, Called
<1>2. calls' \in 0 .. MaxCalls
  BY <1>1, DimFacts DEF MatrixTypes
<1> QED  BY <1>1, <1>2 DEF MatrixTypes, Memory, Shaped

(* A call that writes the matrix it wants (matrix.c).                       *)
LEMMA WritesRight ==
    ASSUME MatrixTypes, NEW z \in Matrices, NEW ms \in Memory, \A u \in Matrices : Shaped(ms[u]),
           ms[z].rows \in 1 .. Dim, ms[z].columns \in 1 .. Dim, NEW want,
           want = Unsaid \/ want = [p \in Places(ms[z].rows, ms[z].columns)
                                      |-> ms[z].store[p[1] * ms[z].columns + p[2]]],
           Writes(z, ms, want)
    PROVE  MatrixTypes' /\ MatrixRight'
<1>1. MatrixTypes'
  BY LeavesTypes DEF Writes
<1>2. matrix' = ms /\ output' = z /\ wanted' = want
  BY DEF Writes, Leaves
<1>3. ResultRight'
  <2>1. CASE want = Unsaid
    BY <1>2, <2>1 DEF ResultRight, Unsaid
  <2>2. CASE want = [p \in Places(ms[z].rows, ms[z].columns) |-> ms[z].store[p[1] * ms[z].columns + p[2]]]
    <3>1. Entries(ms[z]) = want
      BY <2>2, EntriesAre
    <3>2. DOMAIN want # {<<>>}
      BY <2>2, NotANumber, DimFacts
    <3>3. Entries(matrix[output])' = Entries(ms[z])
      BY <1>2 DEF Entries, GetMatrixValue, Index, Places
    <3>4. wanted' = want /\ DOMAIN wanted' # {<<>>} /\ Entries(matrix[output])' = wanted'
      BY <1>2, <3>1, <3>2, <3>3
    <3> QED  BY <3>4 DEF ResultRight
  <2> QED  BY <2>1, <2>2
<1> QED  BY <1>1, <1>3 DEF MatrixRight

\* The matrices when z is given this shape and this store.
Given(z, rows, columns, store) ==
  [matrix EXCEPT ![z] = [rows |-> rows, columns |-> columns, store |-> store]]

(* A call that gives a matrix its shape and its store (matrix.c).           *)
LEMMA GivenRight ==
    ASSUME MatrixTypes, NEW z \in Matrices, NEW rows \in 1 .. Dim, NEW columns \in 1 .. Dim,
           NEW store \in [Store -> Int], NEW want,
           want = Unsaid \/ want = [p \in Places(rows, columns) |-> store[p[1] * columns + p[2]]],
           Writes(z, Given(z, rows, columns, store), want)
    PROVE  MatrixTypes' /\ MatrixRight'
<1>1. PICK out : out = [rows |-> rows, columns |-> columns, store |-> store]
  OBVIOUS
<1>2. PICK ms : ms = Given(z, rows, columns, store)
  OBVIOUS
<1>3. /\ out \in [rows : 0 .. Dim, columns : 0 .. Dim, store : [Store -> Int]] /\ Shaped(out)
      /\ out.rows = rows /\ out.columns = columns /\ out.store = store
  BY <1>1, DimFacts DEF Shaped
<1>4. ms \in Memory /\ ms[z] = out /\ \A u \in Matrices \ {z} : ms[u] = matrix[u]
  BY <1>1, <1>2, <1>3, MemoryIs DEF Given, Memory
<1>5. \A u \in Matrices : Shaped(ms[u])
  BY <1>3, <1>4, MemoryIs
<1> QED  BY <1>2, <1>3, <1>4, <1>5, WritesRight

(* MatrixCreate copies the array row by row (matrix.c:34-46).               *)
LEMMA CreateRight ==
    ASSUME MatrixTypes, NEW z \in Matrices, NEW row \in Dimensions, NEW column \in Dimensions,
           NEW data_array \in DataArrays, MatrixCreate(z, row, column, data_array)
    PROVE  MatrixTypes' /\ MatrixRight'
<1> DEFINE store == Stored(matrix[z], row, column, LAMBDA r, c : data_array[r * column + c])
           want == [p \in Places(row, column) |-> data_array[p[1] * column + p[2]]]
<1>1. store = [i \in Store |-> IF i < row * column
                  THEN data_array[(i \div column) * column + (i % column)] ELSE matrix[z].store[i]]
  BY DEF Stored
<1>2. Writes(z, Given(z, row, column, store), want)
  BY MemoryIs DEF MatrixCreate, Given, Memory
<1>3. /\ row \in 1 .. Dim /\ column \in 1 .. Dim /\ row \in 0 .. Dim /\ column \in 0 .. Dim
      /\ data_array \in [Store -> Int] /\ Shaped(matrix[z]) /\ matrix[z].store \in [Store -> Int]
  BY DimFacts DEF MatrixTypes, Shaped
<1> HIDE DEF store, want
<1>4. store \in [Store -> Int]
  BY <1>1, <1>3, PlaceOf
<1>5. ASSUME NEW r \in 0 .. row - 1, NEW c \in 0 .. column - 1
      PROVE  store[r * column + c] = data_array[r * column + c]
  <2>1. InPlace(r, c, row, column)
    BY <1>3, PlaceInStore
  <2> QED  BY <1>1, <2>1 DEF InPlace
<1>6. want = [p \in Places(row, column) |-> store[p[1] * column + p[2]]]
  BY <1>5 DEF want, Places
<1> QED  BY <1>2, <1>3, <1>4, <1>6, GivenRight

(* UnitMatrixCreate writes the unit matrix (matrix.c:60-72).                *)
LEMMA UnitRight ==
    ASSUME MatrixTypes, NEW z \in Matrices, NEW dimension \in Dimensions,
           UnitMatrixCreate(z, dimension)
    PROVE  MatrixTypes' /\ MatrixRight'
<1> DEFINE store == Stored(matrix[z], dimension, dimension, LAMBDA r, c : IF r = c THEN 1 ELSE 0)
           want == [p \in Places(dimension, dimension) |-> IF p[1] = p[2] THEN 1 ELSE 0]
<1>1. store = [i \in Store |-> IF i < dimension * dimension
                  THEN (IF i \div dimension = i % dimension THEN 1 ELSE 0) ELSE matrix[z].store[i]]
  BY DEF Stored
<1>2. Writes(z, Given(z, dimension, dimension, store), want)
  BY MemoryIs DEF UnitMatrixCreate, Given, Memory
<1>3. /\ dimension \in 1 .. Dim /\ dimension \in 0 .. Dim
      /\ Shaped(matrix[z]) /\ matrix[z].store \in [Store -> Int]
  BY DimFacts DEF MatrixTypes, Shaped
<1> HIDE DEF store, want
<1>4. store \in [Store -> Int]
  BY <1>1, <1>3
<1>5. ASSUME NEW r \in 0 .. dimension - 1, NEW c \in 0 .. dimension - 1
      PROVE  store[r * dimension + c] = IF r = c THEN 1 ELSE 0
  <2>1. InPlace(r, c, dimension, dimension)
    BY <1>3, PlaceInStore
  <2> QED  BY <1>1, <2>1 DEF InPlace
<1>6. want = [p \in Places(dimension, dimension) |-> store[p[1] * dimension + p[2]]]
  BY <1>5 DEF want, Places
<1> QED  BY <1>2, <1>3, <1>4, <1>6, GivenRight

(* MatrixAdd adds square matrices, into one of them too (matrix.c:74-93).   *)
LEMMA AddRight ==
    ASSUME MatrixTypes, NEW x \in Matrices, NEW y \in Matrices, NEW z \in Matrices,
           MatrixAdd(x, y, z)
    PROVE  MatrixTypes' /\ MatrixRight'
<1>1. PICK ms : ms = Summed(x, y, z)
  OBVIOUS
<1> DEFINE want == IF SquareAlike(x, y)
                   THEN [p \in DOMAIN Entries(matrix[y]) |-> Entries(matrix[x])[p] + Entries(matrix[y])[p]]
                   ELSE Unsaid
           n == matrix[y].rows
<1>2. Writes(z, ms, want) /\ Filled(x) /\ Filled(y)
  BY <1>1 DEF MatrixAdd
<1>3. Totals(x, y, z, ms)
  BY <1>1, <1>2, SummedIs
<1>4. want = Unsaid \/ want = [p \in Places(ms[z].rows, ms[z].columns)
                                 |-> ms[z].store[p[1] * ms[z].columns + p[2]]]
  <2>1. CASE ~SquareAlike(x, y)
    BY <2>1
  <2>2. CASE SquareAlike(x, y)
    <3>1. /\ matrix[x].rows = n /\ matrix[x].columns = n /\ matrix[y].rows = n /\ matrix[y].columns = n
          /\ ms[z].rows = n /\ ms[z].columns = n /\ n \in 0 .. Dim
      BY <1>3, <2>2, MemoryIs DEF SquareAlike, Totals, Shaped
    <3> HIDE DEF n
    <3>2. DOMAIN Entries(matrix[y]) = Places(n, n)
      BY <3>1 DEF Entries
    <3>3. ASSUME NEW p \in Places(n, n)
          PROVE  Entries(matrix[x])[p] + Entries(matrix[y])[p] = ms[z].store[p[1] * n + p[2]]
      <4>1. /\ p[1] \in 0 .. n - 1 /\ p[2] \in 0 .. n - 1
            /\ Entries(matrix[x])[p] = matrix[x].store[p[1] * n + p[2]]
            /\ Entries(matrix[y])[p] = matrix[y].store[p[1] * n + p[2]]
        BY <3>1, EntriesAre DEF Places
      <4>2. InPlace(p[1], p[2], n, n)
        BY <3>1, <4>1, PlaceInStore
      <4>3. p[1] * n + p[2] \in 0 .. n * n - 1
        <5>1. p[1] * n + p[2] \in Nat /\ p[1] * n + p[2] < n * n /\ n * n \in Nat
          BY <3>1, <4>1, <4>2, DimFacts DEF InPlace
        <5> QED  BY <5>1
      <4>4. ms[z].store[p[1] * n + p[2]] = matrix[x].store[p[1] * n + p[2]] + matrix[y].store[p[1] * n + p[2]]
        BY <1>3, <2>2, <4>3 DEF Totals, n
      <4> QED  BY <4>1, <4>4
    <3> QED  BY <2>2, <3>1, <3>2, <3>3
  <2> QED  BY <2>1, <2>2
<1> HIDE DEF want
<1>5. /\ ms \in Memory /\ (\A u \in Matrices : Shaped(ms[u]))
      /\ ms[z].rows \in 1 .. Dim /\ ms[z].columns \in 1 .. Dim
  BY <1>3 DEF Totals
<1> QED  BY <1>2, <1>4, <1>5, WritesRight

(* MatrixSubtraction keeps the types (matrix.c:95-114).                     *)
LEMMA SubtractionKeeps ==
    ASSUME MatrixTypes, NEW x \in Matrices, NEW y \in Matrices, NEW z \in Matrices,
           MatrixSubtraction(x, y, z)
    PROVE  MatrixTypes' /\ MatrixRight'
<1>1. PICK ms : ms = Summed(x, y, z)
  OBVIOUS
<1>2. PICK want : Leaves(z, ms, want) /\ Filled(x) /\ Filled(y) /\ subtracting' = TRUE
  BY <1>1 DEF MatrixSubtraction
<1>3. ms \in Memory /\ \A u \in Matrices : Shaped(ms[u])
  BY <1>1, <1>2, SummedIs DEF Totals
<1>4. MatrixTypes'
  BY <1>2, <1>3, LeavesTypes
<1> QED  BY <1>2, <1>4 DEF MatrixRight

(* A range of indices is finite.                                            *)
LEMMA RangeFinite == ASSUME NEW n \in Nat  PROVE IsFiniteSet(0 .. n - 1)
  BY FS_Interval

(* The sum ProductEntry forms is an integer, whatever the shapes.           *)
LEMMA ProductEntryType ==
    ASSUME NEW a, NEW b, Shaped(a), Shaped(b), NEW total \in 0 .. Dim,
           NEW r \in 0 .. Dim - 1, NEW c \in 0 .. Dim - 1
    PROVE  ProductEntry(a, b, total, r, c) \in Int
<1> DEFINE D == 0 .. total - 1
           f == [k \in D |-> a.store[r * a.columns + k] * b.store[k * b.columns + c]]
<1>1. /\ a.columns \in 0 .. Dim /\ a.store \in [Store -> Int]
      /\ b.columns \in 0 .. Dim /\ b.store \in [Store -> Int]
  BY DEF Shaped
<1>2. ASSUME NEW k \in D
      PROVE  a.store[r * a.columns + k] * b.store[k * b.columns + c] \in Int
  <2>1. k \in 0 .. Dim - 1
    BY DimFacts
  <2>2. r * a.columns + k \in Store /\ k * b.columns + c \in Store
    BY <1>1, <2>1, InStore
  <2>3. a.store[r * a.columns + k] \in Int /\ b.store[k * b.columns + c] \in Int
    BY <1>1, <2>2
  <2> QED  BY <2>3
<1>3. IsFiniteSet(D)
  BY DimFacts, RangeFinite
<1>4. ProductEntry(a, b, total, r, c) = SumFunction(f)
  BY DEF ProductEntry, GetMatrixValue, Index
<1>5. f \in [D -> Int]
  <2> HIDE DEF D
  <2> QED  BY <1>2
<1> HIDE DEF f, D
<1> QED  BY <1>3, <1>4, <1>5, SumIs

(* The sum ProductEntry forms is the one of mathematics (matrix.c:133-139).  *)
LEMMA ProductEntryIs ==
    ASSUME NEW a, NEW b, Shaped(a), Shaped(b), a.columns = b.rows,
           NEW r \in 0 .. a.rows - 1, NEW c \in 0 .. b.columns - 1
    PROVE  RowByColumn(Entries(a), Entries(b), b.rows, r, c) = ProductEntry(a, b, b.rows, r, c)
<1> DEFINE D == 0 .. b.rows - 1
           f == [k \in D |-> a.store[r * a.columns + k] * b.store[k * b.columns + c]]
<1>1. ASSUME NEW k \in D
      PROVE  /\ Entries(a)[<<r, k>>] = a.store[r * a.columns + k]
             /\ Entries(b)[<<k, c>>] = b.store[k * b.columns + c]
  <2>1. k \in 0 .. a.columns - 1 /\ k \in 0 .. b.rows - 1
    OBVIOUS
  <2> QED  BY <2>1, EntryIs
<1>2. ProductEntry(a, b, b.rows, r, c) = SumFunction(f)
  BY DEF ProductEntry, GetMatrixValue, Index
<1>3. [k \in D |-> Entries(a)[<<r, k>>] * Entries(b)[<<k, c>>]] = f
  <2> HIDE DEF D
  <2> QED  BY <1>1
<1> QED  BY <1>2, <1>3 DEF RowByColumn
(* A call that writes rows and columns, and the entries it wants if any.     *)
LEMMA HoldsRight ==
    ASSUME MatrixTypes, NEW z \in Matrices, NEW rows \in 1 .. Dim, NEW columns \in 1 .. Dim,
           NEW ms \in Memory, \A u \in Matrices : Shaped(ms[u]),
           ms[z].rows = rows, ms[z].columns = columns, NEW want,
           \/ want = Unsaid
           \/ /\ DOMAIN want = Places(rows, columns) /\ want = [p \in DOMAIN want |-> want[p]]
              /\ \A r \in 0 .. rows - 1, c \in 0 .. columns - 1 : ms[z].store[r * columns + c] = want[<<r, c>>],
           Writes(z, ms, want)
    PROVE  MatrixTypes' /\ MatrixRight'
<1>1. want = Unsaid \/ want = [p \in Places(ms[z].rows, ms[z].columns)
                                 |-> ms[z].store[p[1] * ms[z].columns + p[2]]]
  <2>1. CASE want = Unsaid
    BY <2>1
  <2>2. CASE want # Unsaid
    <3>1. ASSUME NEW p \in Places(rows, columns)
          PROVE  want[p] = ms[z].store[p[1] * columns + p[2]]
      <4>1. p[1] \in 0 .. rows - 1 /\ p[2] \in 0 .. columns - 1 /\ p = <<p[1], p[2]>>
        BY DEF Places
      <4> QED  BY <2>2, <4>1
    <3> QED  BY <2>2, <3>1
  <2> QED  BY <2>1, <2>2
<1> QED  BY <1>1, WritesRight

(* MatrixMultiplication gives the product where the shapes fit and the output
   is not an operand (matrix.c:116-147).                                     *)
LEMMA MultiplicationRight ==
    ASSUME MatrixTypes, NEW x \in Matrices, NEW y \in Matrices, NEW z \in Matrices,
           MatrixMultiplication(x, y, z)
    PROVE  MatrixTypes' /\ MatrixRight'
<1> DEFINE in1 == [matrix EXCEPT ![x].columns = matrix[y].rows]
           shaped == [in1 EXCEPT ![z].rows = in1[x].rows, ![z].columns = in1[y].columns]
           clear == [shaped EXCEPT ![z].store = MatrixClear(shaped[z])]
           rows == clear[z].rows
           columns == clear[z].columns
           total == clear[x].columns
           n == rows * columns
           Value(m, k) == ProductEntry(m[x], m[y], total, k \div columns, k % columns)
           Place(k) == (k \div columns) * columns + (k % columns)
           IsRun(f) == f = [i \in 0 .. n |-> IF i = 0 THEN clear
                              ELSE [f[i - 1] EXCEPT ![z].store[Place(i - 1)] = Value(f[i - 1], i - 1)]]
           w == CHOOSE f : IsRun(f)
           t == [k \in 0 .. n - 1 |-> k]
           h == [k \in 0 .. n - 1 |-> [m \in Alike(clear, z) |-> Value(m, k)]]
           fit == z \notin {x, y} /\ matrix[x].columns = matrix[y].rows
           want == IF fit
                   THEN [p \in Places(matrix[x].rows, matrix[y].columns) |->
                           RowByColumn(Entries(matrix[x]), Entries(matrix[y]), matrix[y].rows, p[1], p[2])]
                   ELSE Unsaid
<1>1. Writes(z, w[n], want) /\ Filled(x) /\ Filled(y)
  BY DEF MatrixMultiplication, Loop, Index
<1> HIDE DEF w, want
<1>2. /\ matrix \in Memory /\ Shaped(matrix[x]) /\ Shaped(matrix[y]) /\ Shaped(matrix[z])
      /\ matrix[x].rows \in 1 .. Dim /\ matrix[x].columns \in 1 .. Dim
      /\ matrix[y].rows \in 1 .. Dim /\ matrix[y].columns \in 1 .. Dim
  <2>1. matrix \in Memory /\ Shaped(matrix[x]) /\ Shaped(matrix[y]) /\ Shaped(matrix[z])
        /\ matrix[x].rows > 0 /\ matrix[y].rows > 0
    BY <1>1, MemoryIs DEF Filled
  <2> QED  BY <2>1, DimFacts DEF Shaped
<1>3. /\ in1 \in Memory /\ in1[x].rows = matrix[x].rows /\ in1[x].columns = matrix[y].rows
      /\ in1[x].store = matrix[x].store
      /\ in1[y].columns = IF x = y THEN matrix[y].rows ELSE matrix[y].columns
      /\ \A u \in Matrices \ {x} : in1[u] = matrix[u]
  <2>1. matrix[y].rows \in 0 .. Dim
    BY <1>2 DEF Shaped
  <2> QED  BY <1>2, <2>1 DEF Memory
<1> HIDE DEF in1
<1>4. \A u \in Matrices : Shaped(in1[u])
  <2>1. Shaped(in1[x])
    <3>1. in1[x] \in [rows : 0 .. Dim, columns : 0 .. Dim, store : [Store -> Int]]
      BY <1>3 DEF Memory
    <3> QED  BY <1>2, <1>3, <3>1, DimFacts DEF Shaped
  <2> QED  BY <1>3, <2>1, MemoryIs
<1>5. /\ in1[x].rows \in 1 .. Dim /\ in1[y].columns \in 1 .. Dim /\ in1[x].columns \in 1 .. Dim
  BY <1>2, <1>3
<1>6. /\ shaped \in Memory /\ shaped[z].rows = in1[x].rows /\ shaped[z].columns = in1[y].columns
      /\ \A u \in Matrices \ {z} : shaped[u] = in1[u]
  <2>1. in1[x].rows \in 0 .. Dim /\ in1[y].columns \in 0 .. Dim
    BY <1>5, DimFacts
  <2> QED  BY <1>3, <2>1 DEF Memory
<1> HIDE DEF shaped
<1>7. MatrixClear(shaped[z]) \in [Store -> Int]
  BY <1>6 DEF MatrixClear, Stored, Memory
<1>8. /\ clear \in Memory /\ clear[z].rows = in1[x].rows /\ clear[z].columns = in1[y].columns
      /\ \A u \in Matrices \ {z} : clear[u] = in1[u]
  BY <1>6, <1>7 DEF Memory
<1> HIDE DEF clear
<1>9. \A u \in Matrices : Shaped(clear[u])
  <2>1. Shaped(clear[z])
    BY <1>5, <1>8, DimFacts DEF Shaped, Memory
  <2> QED  BY <1>4, <1>8, <2>1
<1>10. rows \in 0 .. Dim /\ columns \in 0 .. Dim /\ rows \in 1 .. Dim /\ columns \in 1 .. Dim /\ total \in 0 .. Dim
  <2>1. total \in 1 .. Dim
    <3>1. CASE x = z
      BY <1>5, <1>8, <3>1
    <3>2. CASE x # z
      BY <1>5, <1>8, <3>2
    <3> QED  BY <3>1, <3>2
  <2> QED  BY <1>5, <1>8, <2>1, DimFacts
<1> HIDE DEF rows, columns, total
<1>11. n \in Nat
  BY <1>10, DimFacts
<1>12. ASSUME NEW k \in 0 .. n - 1  PROVE k \in Store /\ Place(k) = k
  BY <1>10, RowByRow
<1>13. ASSUME NEW k \in 0 .. n - 1, NEW m \in Alike(clear, z)  PROVE Value(m, k) \in Int
  <2>1. k \div columns \in 0 .. Dim - 1 /\ k % columns \in 0 .. Dim - 1
    BY <1>10, RowByRow
  <2>2. Shaped(m[x]) /\ Shaped(m[y])
    BY <1>8, <1>9, AlikeIs
  <2> QED  BY <1>10, <2>1, <2>2, ProductEntryType
<1> HIDE DEF Place, Value, n
<1>14. Turns(clear, z, n, t, h)
  BY <1>12, <1>13 DEF Turns
<1>15. \E f : IsRun(f)
  <2>1. PICK f \in [0 .. n -> Alike(clear, z)] :
           f[0] = clear /\ \A i \in 1 .. n : f[i] = Put(f[i - 1], z, t[i - 1], h[i - 1][f[i - 1]])
    <3> HIDE DEF t, h
    <3> QED  BY <1>8, <1>11, <1>14, LoopRuns
  <2>2. ASSUME NEW i \in 0 .. n
        PROVE  f[i] = IF i = 0 THEN clear
                      ELSE [f[i - 1] EXCEPT ![z].store[Place(i - 1)] = Value(f[i - 1], i - 1)]
    <3>1. CASE i # 0
      <4>1. i \in 1 .. n /\ i - 1 \in 0 .. n - 1 /\ i - 1 \in 0 .. n
        BY <1>11, <3>1
      <4>2. t[i - 1] = Place(i - 1) /\ h[i - 1][f[i - 1]] = Value(f[i - 1], i - 1)
        BY <1>12, <4>1
      <4> QED  BY <2>1, <3>1, <4>1, <4>2 DEF Put
    <3> QED  BY <2>1, <3>1
  <2>3. IsRun(f)
    BY <2>2
  <2> QED  BY <2>3
<1>16. IsRun(w)
  <2> HIDE DEF IsRun
  <2> QED  BY <1>15 DEF w
<1>17. /\ w[0] = clear
       /\ \A i \in 1 .. n : w[i - 1] \in Alike(clear, z) => w[i] = Put(w[i - 1], z, t[i - 1], h[i - 1][w[i - 1]])
  <2>1. w[0] = clear
    BY <1>11, <1>16
  <2>2. ASSUME NEW i \in 1 .. n, w[i - 1] \in Alike(clear, z)
        PROVE  w[i] = Put(w[i - 1], z, t[i - 1], h[i - 1][w[i - 1]])
    <3>1. i \in 0 .. n /\ i # 0 /\ i - 1 \in 0 .. n - 1
      BY <1>11
    <3>2. w[i] = [w[i - 1] EXCEPT ![z].store[Place(i - 1)] = Value(w[i - 1], i - 1)]
      BY <1>16, <3>1
    <3>3. t[i - 1] = Place(i - 1) /\ h[i - 1][w[i - 1]] = Value(w[i - 1], i - 1)
      BY <1>12, <2>2, <3>1
    <3> QED  BY <3>2, <3>3 DEF Put
  <2> QED  BY <2>1, <2>2
<1> HIDE DEF IsRun
<1>18. Ran(clear, z, n, t, h, w)
  <2>1. \A j, k \in 0 .. n - 1 : t[j] = t[k] => j = k
    OBVIOUS
  <2> HIDE DEF t, h
  <2> QED  BY <1>8, <1>11, <1>14, <1>17, <2>1, LoopFacts
<1>19. w[n] \in Alike(clear, z)
  BY <1>18 DEF Ran
<1>20. w[n] \in Memory /\ (\A u \in Matrices : Shaped(w[n][u])) /\ w[n][z].rows = rows /\ w[n][z].columns = columns
  BY <1>8, <1>9, <1>19, AlikeIs DEF rows, columns
<1>21. CASE ~fit
  <2>1. want = Unsaid
    BY <1>21 DEF want
  <2> HIDE DEF n, fit
  <2> QED  BY <1>1, <1>10, <1>20, <2>1, HoldsRight
<1>22. CASE fit
  <2>1. /\ rows = matrix[x].rows /\ columns = matrix[y].columns /\ total = matrix[y].rows
    BY <1>3, <1>8, <1>22 DEF rows, columns, total
  <2>2. clear[x] = matrix[x] /\ clear[y] = matrix[y]
    <3>1. clear[x] = in1[x] /\ clear[y] = in1[y]
      BY <1>8, <1>22
    <3>2. in1[x] = matrix[x]
      BY <1>2, <1>3, <1>22 DEF Memory
    <3>3. in1[y] = matrix[y]
      BY <1>3, <3>2
    <3> QED  BY <3>1, <3>2, <3>3
  <2>3. ASSUME NEW r \in 0 .. rows - 1, NEW c \in 0 .. columns - 1
        PROVE  w[n][z].store[r * columns + c] = want[<<r, c>>]
    <3>1. PICK k : k = r * columns + c
      OBVIOUS
    <3>2. InPlace(r, c, rows, columns)
      BY <1>10, PlaceInStore
    <3>3. k \in 0 .. n - 1 /\ k \div columns = r /\ k % columns = c
      <4>1. /\ k \in Nat /\ k < n /\ k \div columns = r /\ k % columns = c
        BY <3>1, <3>2, DimFacts DEF InPlace, n
      <4> QED  BY <1>11, <4>1
    <3>4. w[k] \in Alike(clear, z) /\ w[n][z].store[k] = Value(w[k], k)
      BY <1>18, <3>3 DEF Ran
    <3>5. w[k][x] = matrix[x] /\ w[k][y] = matrix[y]
      BY <1>8, <1>9, <1>22, <2>2, <3>4, AlikeIs
    <3>6. Value(w[k], k) = ProductEntry(matrix[x], matrix[y], matrix[y].rows, r, c)
      BY <2>1, <3>3, <3>5 DEF Value
    <3>7. ProductEntry(matrix[x], matrix[y], matrix[y].rows, r, c)
             = RowByColumn(Entries(matrix[x]), Entries(matrix[y]), matrix[y].rows, r, c)
      <4>1. r \in 0 .. matrix[x].rows - 1 /\ c \in 0 .. matrix[y].columns - 1 /\ matrix[x].columns = matrix[y].rows
        BY <1>22, <2>1
      <4> QED  BY <1>2, <4>1, ProductEntryIs
    <3>8. <<r, c>> \in Places(rows, columns) /\ <<r, c>>[1] = r /\ <<r, c>>[2] = c
      BY DEF Places
    <3>9. want[<<r, c>>] = RowByColumn(Entries(matrix[x]), Entries(matrix[y]), matrix[y].rows, r, c)
      BY <1>22, <2>1, <3>8 DEF want
    <3> QED  BY <3>1, <3>4, <3>6, <3>7, <3>9
  <2>4. DOMAIN want = Places(rows, columns) /\ want = [p \in DOMAIN want |-> want[p]]
    BY <1>22, <2>1 DEF want
  <2>5. PICK ms : ms = w[n]
    OBVIOUS
  <2>6. \A r \in 0 .. rows - 1, c \in 0 .. columns - 1 : ms[z].store[r * columns + c] = want[<<r, c>>]
    BY <2>3, <2>5
  <2>7. /\ Writes(z, ms, want) /\ ms \in Memory /\ (\A u \in Matrices : Shaped(ms[u]))
        /\ ms[z].rows = rows /\ ms[z].columns = columns
    BY <1>1, <1>20, <2>5
  <2> HIDE DEF n, fit
  <2> QED  BY <1>10, <2>4, <2>6, <2>7, HoldsRight
<1> QED  BY <1>21, <1>22

(* A call that ends the program changes no matrix and no result (matrix.c). *)
LEMMA TrapRight ==
    ASSUME MatrixTypes, MatrixRight, Trapped
    PROVE  MatrixTypes' /\ MatrixRight'
<1>1. calls' \in 0 .. MaxCalls
  BY DimFacts DEF Trapped, Called, MatrixTypes
<1>2. MatrixTypes'
  BY <1>1 DEF Trapped, MatrixTypes, Shaped
<1>3. MatrixRight'
  BY DEF Trapped, MatrixRight, ResultRight, Entries, GetMatrixValue, Index, Places, Number
<1> QED  BY <1>2, <1>3

(* The place GetChildMatrix reads is in the store, whatever the stride; it is
   the one of the part where the part is one row or the stride one column.   *)
LEMMA PartInStore ==
    ASSUME NEW r \in Nat, NEW c \in Nat, NEW start_row \in Nat, NEW start_column \in Nat,
           NEW stride \in 1 .. Dim, r + start_row <= Dim - 1, c + start_column <= Dim - 1
    PROVE  /\ r + start_row * stride + c + start_column \in Store
           /\ (r = 0 \/ stride = 1) => r + start_row * stride + c + start_column
                                          = (r + start_row) * stride + (c + start_column)
<1>1. Dim \in Nat /\ Store = 0 .. Dim * Dim - 1 /\ Dim * Dim \in Nat /\ stride \in Nat \ {0} /\ stride \in 0 .. Dim
  BY DimFacts
<1>2. (r + start_row) * stride + (c + start_column) \in Store
  <2>1. r + start_row \in 0 .. Dim - 1 /\ c + start_column \in 0 .. Dim - 1
    BY <1>1
  <2> QED  BY <1>1, <2>1, InStore
<1>3. /\ (r + start_row) * stride = r * stride + start_row * stride
      /\ r * stride \in Nat /\ start_row * stride \in Nat
  BY <1>1
<1>4. 1 * r <= stride * r /\ 1 * r = r /\ stride * r = r * stride
  BY <1>1, Times
<1>5. (r = 0 \/ stride = 1) => r * stride = r
  BY <1>1
<1> DEFINE u == r * stride
           v == start_row * stride
           d == Dim * Dim
<1>6. /\ u \in Nat /\ v \in Nat /\ d \in Nat /\ r <= u /\ (u + v) + (c + start_column) \in 0 .. d - 1
      /\ ((r = 0 \/ stride = 1) => u = r)
  BY <1>1, <1>2, <1>3, <1>4, <1>5
<1> HIDE DEF u, v, d
<1>7. /\ r + v + c + start_column \in 0 .. d - 1
      /\ (r = 0 \/ stride = 1) => r + v + c + start_column = (u + v) + (c + start_column)
  BY <1>6
<1> QED  BY <1>1, <1>3, <1>7 DEF u, v, d

(* GetChildMatrix gives the part where its row offset is right and the output
   is another matrix (matrix.c:149-167).                                     *)
LEMMA ChildRight ==
    ASSUME MatrixTypes, MatrixRight, NEW x \in Matrices, NEW z \in Matrices,
           NEW end_row \in 0 .. matrix[x].rows, NEW end_column \in 0 .. matrix[x].columns,
           NEW start_row \in 0 .. end_row, NEW start_column \in 0 .. end_column,
           GetChildMatrix(x, start_row, end_row, start_column, end_column, z)
    PROVE  MatrixTypes' /\ MatrixRight'
<1> DEFINE a == matrix[x]
           rows == end_row - start_row + 1
           columns == end_column - start_column + 1
           shaped == [matrix EXCEPT ![z].rows = rows, ![z].columns = columns]
           n == rows * columns
           Value(m, k) == m[x].store[(k \div columns) + start_row * m[x].columns + (k % columns) + start_column]
           Place(k) == (k \div columns) * shaped[z].columns + (k % columns)
           IsRun(f) == f = [i \in 0 .. n |-> IF i = 0 THEN shaped
                              ELSE [f[i - 1] EXCEPT ![z].store[Place(i - 1)] = Value(f[i - 1], i - 1)]]
           w == CHOOSE f : IsRun(f)
           t == [k \in 0 .. n - 1 |-> k]
           h == [k \in 0 .. n - 1 |-> [m \in Alike(shaped, z) |-> Value(m, k)]]
           fit == z # x /\ (rows = 1 \/ a.columns = 1)
           want == IF fit
                   THEN [p \in Places(rows, columns) |-> Entries(a)[<<p[1] + start_row, p[2] + start_column>>]]
                   ELSE Unsaid
<1>1. CASE ~(end_row < a.rows /\ end_column < a.columns)
  BY <1>1, TrapRight DEF GetChildMatrix
<1>2. SUFFICES ASSUME end_row < a.rows, end_column < a.columns
               PROVE  MatrixTypes' /\ MatrixRight'
  BY <1>1
<1>3. Writes(z, w[n], want)
  BY <1>2 DEF GetChildMatrix, Loop, Index
<1> HIDE DEF w, want
<1>4. /\ matrix \in Memory /\ Shaped(a) /\ a.rows \in 0 .. Dim /\ a.columns \in 0 .. Dim /\ Dim \in Nat
      /\ a.columns = matrix[x].columns /\ a.store = matrix[x].store /\ a.rows = matrix[x].rows
  BY MemoryIs, DimFacts DEF Shaped
<1>5. /\ end_row \in Nat /\ end_column \in Nat /\ start_row \in 0 .. end_row /\ start_column \in 0 .. end_column
  BY <1>4
<1>6. /\ rows \in 1 .. Dim /\ columns \in 1 .. Dim /\ rows \in 0 .. Dim /\ columns \in 0 .. Dim
      /\ start_row \in Nat /\ start_column \in Nat
      /\ start_row + rows <= a.rows /\ start_column + columns <= a.columns
      /\ start_row + rows <= Dim /\ start_column + columns <= Dim
      /\ a.columns \in 1 .. Dim
  <2> HIDE DEF a
  <2> QED  BY <1>2, <1>4, <1>5
<1> HIDE DEF rows, columns
<1>7. /\ shaped \in Memory /\ shaped[z].rows = rows /\ shaped[z].columns = columns
      /\ \A u \in Matrices \ {z} : shaped[u] = matrix[u]
  BY <1>4, <1>6 DEF Memory
<1> HIDE DEF shaped
<1>8. \A u \in Matrices : Shaped(shaped[u])
  <2>1. Shaped(shaped[z])
    <3>1. shaped[z] \in [rows : 0 .. Dim, columns : 0 .. Dim, store : [Store -> Int]]
      BY <1>7 DEF Memory
    <3> QED  BY <1>6, <1>7, <3>1, DimFacts DEF Shaped
  <2> QED  BY <1>7, <2>1, MemoryIs
<1>9. n \in Nat
  BY <1>6, DimFacts
<1>10. ASSUME NEW k \in 0 .. n - 1  PROVE k \in Store /\ Place(k) = k
  <2>1. PICK total : total = rows * columns
    OBVIOUS
  <2>2. k \in 0 .. total - 1 /\ rows \in 0 .. Dim /\ columns \in 0 .. Dim
    BY <1>6, <2>1
  <2>3. k \in Store /\ (k \div columns) * columns + (k % columns) = k
    BY <2>1, <2>2, RowByRow
  <2> QED  BY <1>7, <2>3
<1>11. shaped[x].columns \in 1 .. Dim
  <2>1. CASE x = z
    BY <1>6, <1>7, <2>1
  <2>2. CASE x # z
    BY <1>4, <1>6, <1>7, <2>2
  <2> QED  BY <2>1, <2>2
<1> HIDE DEF a
<1>12. ASSUME NEW k \in 0 .. n - 1, NEW m \in Alike(shaped, z)  PROVE Value(m, k) \in Int
  <2>1. k \div columns \in 0 .. rows - 1 /\ k % columns \in 0 .. columns - 1
    BY <1>6, RowByRow
  <2>2. m[x].columns = shaped[x].columns /\ m[x].store \in [Store -> Int]
    BY <1>7, <1>8, AlikeIs
  <2>3. PICK r \in Nat, c \in Nat : r = k \div columns /\ c = k % columns
    BY <2>1
  <2>4. r + start_row <= Dim - 1 /\ c + start_column <= Dim - 1
    BY <1>4, <1>6, <2>1, <2>3
  <2>5. r + start_row * shaped[x].columns + c + start_column \in Store
    BY <1>6, <1>11, <2>3, <2>4, PartInStore
  <2> QED  BY <2>2, <2>3, <2>5
<1> HIDE DEF Place, Value, n
<1>13. Turns(shaped, z, n, t, h)
  BY <1>10, <1>12 DEF Turns
<1>14. \E f : IsRun(f)
  <2>1. PICK f \in [0 .. n -> Alike(shaped, z)] :
           f[0] = shaped /\ \A i \in 1 .. n : f[i] = Put(f[i - 1], z, t[i - 1], h[i - 1][f[i - 1]])
    <3> HIDE DEF t, h
    <3> QED  BY <1>7, <1>9, <1>13, LoopRuns
  <2>2. ASSUME NEW i \in 0 .. n
        PROVE  f[i] = IF i = 0 THEN shaped
                      ELSE [f[i - 1] EXCEPT ![z].store[Place(i - 1)] = Value(f[i - 1], i - 1)]
    <3>1. CASE i # 0
      <4>1. i \in 1 .. n /\ i - 1 \in 0 .. n - 1 /\ i - 1 \in 0 .. n
        BY <1>9, <3>1
      <4>2. t[i - 1] = Place(i - 1) /\ h[i - 1][f[i - 1]] = Value(f[i - 1], i - 1)
        BY <1>10, <4>1
      <4> QED  BY <2>1, <3>1, <4>1, <4>2 DEF Put
    <3> QED  BY <2>1, <3>1
  <2>3. IsRun(f)
    BY <2>2
  <2> QED  BY <2>3
<1>15. IsRun(w)
  <2> HIDE DEF IsRun
  <2> QED  BY <1>14 DEF w
<1>16. /\ w[0] = shaped
       /\ \A i \in 1 .. n : w[i - 1] \in Alike(shaped, z) => w[i] = Put(w[i - 1], z, t[i - 1], h[i - 1][w[i - 1]])
  <2>1. w[0] = shaped
    BY <1>9, <1>15
  <2>2. ASSUME NEW i \in 1 .. n, w[i - 1] \in Alike(shaped, z)
        PROVE  w[i] = Put(w[i - 1], z, t[i - 1], h[i - 1][w[i - 1]])
    <3>1. i \in 0 .. n /\ i # 0 /\ i - 1 \in 0 .. n - 1
      BY <1>9
    <3>2. w[i] = [w[i - 1] EXCEPT ![z].store[Place(i - 1)] = Value(w[i - 1], i - 1)]
      BY <1>15, <3>1
    <3>3. t[i - 1] = Place(i - 1) /\ h[i - 1][w[i - 1]] = Value(w[i - 1], i - 1)
      BY <1>10, <2>2, <3>1
    <3> QED  BY <3>2, <3>3 DEF Put
  <2> QED  BY <2>1, <2>2
<1> HIDE DEF IsRun
<1>17. Ran(shaped, z, n, t, h, w)
  <2>1. \A j, k \in 0 .. n - 1 : t[j] = t[k] => j = k
    OBVIOUS
  <2> HIDE DEF t, h
  <2> QED  BY <1>7, <1>9, <1>13, <1>16, <2>1, LoopFacts
<1>18. w[n] \in Alike(shaped, z)
  BY <1>17 DEF Ran
<1>19. PICK ms : ms = w[n]
  OBVIOUS
<1>20. /\ ms \in Memory /\ (\A u \in Matrices : Shaped(ms[u])) /\ ms[z].rows = rows /\ ms[z].columns = columns
       /\ Writes(z, ms, want)
  BY <1>3, <1>7, <1>8, <1>18, <1>19, AlikeIs
<1>21. CASE ~fit
  <2>1. want = Unsaid
    BY <1>21 DEF want
  <2> QED  BY <1>6, <1>20, <2>1, HoldsRight
<1>22. CASE fit
  <2>1. ASSUME NEW r \in 0 .. rows - 1, NEW c \in 0 .. columns - 1
        PROVE  ms[z].store[r * columns + c] = want[<<r, c>>]
    <3>1. PICK k : k = r * columns + c
      OBVIOUS
    <3>2. InPlace(r, c, rows, columns)
      BY <1>6, PlaceInStore
    <3>3. k \in 0 .. n - 1 /\ k \div columns = r /\ k % columns = c
      <4>1. /\ k \in Nat /\ k < n /\ k \div columns = r /\ k % columns = c
        BY <3>1, <3>2, DimFacts DEF InPlace, n
      <4> QED  BY <1>9, <4>1
    <3>4. w[k] \in Alike(shaped, z) /\ w[n][z].store[k] = Value(w[k], k)
      BY <1>17, <3>3 DEF Ran
    <3>5. w[k][x] = matrix[x]
      BY <1>7, <1>8, <1>22, <3>4, AlikeIs
    <3>6. Value(w[k], k) = a.store[r + start_row * a.columns + c + start_column]
      BY <1>4, <3>3, <3>5 DEF Value
    <3>7. r + start_row <= Dim - 1 /\ c + start_column <= Dim - 1 /\ r \in Nat /\ c \in Nat
          /\ r + start_row \in 0 .. a.rows - 1 /\ c + start_column \in 0 .. a.columns - 1
          /\ (r = 0 \/ a.columns = 1)
      BY <1>4, <1>6, <1>22
    <3>8. r + start_row * a.columns + c + start_column = (r + start_row) * a.columns + (c + start_column)
      BY <1>6, <3>7, PartInStore
    <3>9. Entries(a)[<<r + start_row, c + start_column>>] = a.store[(r + start_row) * a.columns + (c + start_column)]
      BY <3>7, EntryIs
    <3>10. <<r, c>> \in Places(rows, columns) /\ <<r, c>>[1] = r /\ <<r, c>>[2] = c
      BY DEF Places
    <3>11. want[<<r, c>>] = Entries(a)[<<r + start_row, c + start_column>>]
      BY <1>22, <3>10 DEF want
    <3> QED  BY <1>19, <3>1, <3>4, <3>6, <3>8, <3>9, <3>11
  <2>2. DOMAIN want = Places(rows, columns) /\ want = [p \in DOMAIN want |-> want[p]]
    BY <1>22 DEF want
  <2> QED  BY <1>6, <1>20, <2>1, <2>2, HoldsRight
<1> QED  BY <1>21, <1>22

(* The integer division of C gives an integer.                             *)
LEMMA QuotientIsInt ==
    ASSUME NEW a \in Int, NEW b \in Int, b # 0
    PROVE  Quotient(a, b) \in Int
<1> DEFINE m == IF a < 0 THEN -a ELSE a
           n == IF b < 0 THEN -b ELSE b
<1>1. m \in Nat /\ n \in Nat \ {0}
  OBVIOUS
<1>2. m \div n \in Int
  BY <1>1
<1> QED  BY <1>2 DEF Quotient

(* Half of twice a number is the number.                                    *)
LEMMA HalfOf ==
    ASSUME NEW a \in Int
    PROVE  Quotient(a * 2, 2) = a
<1>1. CASE a >= 0
  <2>1. a * 2 >= 0 /\ (a * 2) \div 2 = a
    BY <1>1
  <2> QED  BY <1>1, <2>1 DEF Quotient
<1>2. CASE a < 0
  <2>1. a * 2 < 0 /\ (-(a * 2)) \div 2 = -a
    BY <1>2
  <2> QED  BY <1>2, <2>1 DEF Quotient
<1> QED  BY <1>1, <1>2

(* MatrixScale gives the multiple, where it is a whole one (matrix.c:169-182). *)
LEMMA ScaleRight ==
    ASSUME MatrixTypes, NEW z \in Matrices, NEW halves \in Halves, MatrixScale(z, halves)
    PROVE  MatrixTypes' /\ MatrixRight'
<1> DEFINE a == matrix[z]
           store == Stored(a, a.rows, a.columns, LAMBDA r, c : Quotient(GetMatrixValue(a, r, c) * halves, 2))
           want == IF halves % 2 = 0
                   THEN [p \in DOMAIN Entries(a) |-> Entries(a)[p] * (halves \div 2)]
                   ELSE Unsaid
<1>1. Writes(z, Given(z, a.rows, a.columns, store), want) /\ Filled(z)
  <2>1. [matrix EXCEPT ![z].store = store] = Given(z, a.rows, a.columns, store)
    <3>1. a \in [rows : 0 .. Dim, columns : 0 .. Dim, store : [Store -> Int]]
      BY MemoryIs DEF Memory
    <3>2. [matrix EXCEPT ![z].store = store] = [matrix EXCEPT ![z] = [a EXCEPT !.store = store]]
      OBVIOUS
    <3> HIDE DEF a, store
    <3>3. [a EXCEPT !.store = store] = [rows |-> a.rows, columns |-> a.columns, store |-> store]
      BY <3>1
    <3> QED  BY <3>2, <3>3 DEF Given
  <2> QED  BY <2>1 DEF MatrixScale
<1>2. store = [i \in Store |-> IF i < a.rows * a.columns
          THEN Quotient(a.store[(i \div a.columns) * a.columns + (i % a.columns)] * halves, 2)
          ELSE a.store[i]]
  BY DEF Stored, GetMatrixValue, Index
<1>3. /\ a.rows \in 1 .. Dim /\ a.columns \in 1 .. Dim /\ a.rows \in 0 .. Dim /\ a.columns \in 0 .. Dim
      /\ a.store \in [Store -> Int] /\ Shaped(a) /\ halves \in Int
  <2>1. Shaped(a) /\ a.rows > 0
    BY <1>1 DEF MatrixTypes, Filled
  <2> HIDE DEF a
  <2>2. /\ a.rows \in 0 .. Dim /\ a.columns \in 0 .. Dim /\ a.store \in [Store -> Int]
        /\ a.rows = 0 <=> a.columns = 0
    BY <2>1 DEF Shaped
  <2> QED  BY <2>1, <2>2, DimFacts
<1> HIDE DEF a, store, want
<1>4. store \in [Store -> Int]
  <2>1. ASSUME NEW i \in Store, i < a.rows * a.columns
        PROVE  Quotient(a.store[(i \div a.columns) * a.columns + (i % a.columns)] * halves, 2) \in Int
    <3>1. (i \div a.columns) * a.columns + (i % a.columns) = i
      BY <1>3, <2>1, PlaceOf
    <3>2. a.store[i] * halves \in Int
      BY <1>3
    <3> QED  BY <3>1, <3>2, QuotientIsInt
  <2> QED  BY <1>2, <1>3, <2>1
<1>5. ASSUME NEW r \in 0 .. a.rows - 1, NEW c \in 0 .. a.columns - 1, halves % 2 = 0
      PROVE  store[r * a.columns + c] = Entries(a)[<<r, c>>] * (halves \div 2)
  <2>1. InPlace(r, c, a.rows, a.columns)
    BY <1>3, PlaceInStore
  <2>2. store[r * a.columns + c] = Quotient(a.store[r * a.columns + c] * halves, 2)
    BY <1>2, <2>1 DEF InPlace
  <2>3. a.store[r * a.columns + c] \in Int
    BY <1>3, <2>1 DEF InPlace
  <2> DEFINE v == a.store[r * a.columns + c]
             k == halves \div 2
  <2>4. v \in Int /\ k \in Int /\ halves = k * 2
    BY <1>3, <1>5, <2>3
  <2> HIDE DEF v, k
  <2>5. v * halves = (v * k) * 2 /\ v * k \in Int
    BY <2>4
  <2>6. Quotient(v * halves, 2) = v * k
    BY <2>5, HalfOf
  <2>7. Entries(a)[<<r, c>>] = v
    BY EntryIs DEF v
  <2> QED  BY <2>2, <2>6, <2>7 DEF v, k
<1>6. want = Unsaid \/ want = [p \in Places(a.rows, a.columns) |-> store[p[1] * a.columns + p[2]]]
  <2>1. CASE halves % 2 = 0
    <3>1. DOMAIN Entries(a) = Places(a.rows, a.columns)
      BY DEF Entries
    <3>2. ASSUME NEW p \in Places(a.rows, a.columns)
          PROVE  Entries(a)[p] * (halves \div 2) = store[p[1] * a.columns + p[2]]
      <4>1. p[1] \in 0 .. a.rows - 1 /\ p[2] \in 0 .. a.columns - 1 /\ p = <<p[1], p[2]>>
        BY DEF Places
      <4> QED  BY <1>5, <2>1, <4>1
    <3> QED  BY <2>1, <3>1, <3>2 DEF want
  <2>2. CASE halves % 2 # 0
    BY <2>2 DEF want
  <2> QED  BY <2>1, <2>2
<1> QED  BY <1>1, <1>3, <1>4, <1>6, GivenRight

(* MatrixTranspose gives the transpose where the output is another matrix
   (matrix.c:184-201).                                                       *)
LEMMA TransposeRight ==
    ASSUME MatrixTypes, NEW x \in Matrices, NEW z \in Matrices, MatrixTranspose(x, z)
    PROVE  MatrixTypes' /\ MatrixRight'
<1> DEFINE a == matrix[x]
           turned == [matrix EXCEPT ![z].columns = a.rows]
           shaped == [turned EXCEPT ![z].rows = turned[x].columns]
           rows == shaped[x].rows
           columns == shaped[x].columns
           n == rows * columns
           Value(m, k) == m[x].store[(k \div columns) * m[x].columns + (k % columns)]
           Place(k) == (k % columns) * shaped[z].columns + (k \div columns)
           IsRun(f) == f = [i \in 0 .. n |-> IF i = 0 THEN shaped
                              ELSE [f[i - 1] EXCEPT ![z].store[Place(i - 1)] = Value(f[i - 1], i - 1)]]
           w == CHOOSE f : IsRun(f)
           t == [k \in 0 .. n - 1 |-> Place(k)]
           h == [k \in 0 .. n - 1 |-> [m \in Alike(shaped, z) |-> Value(m, k)]]
           want == IF z # x
                   THEN [p \in Places(a.columns, a.rows) |-> Entries(a)[<<p[2], p[1]>>]]
                   ELSE Unsaid
<1>1. Writes(z, w[n], want) /\ Filled(x)
  BY DEF MatrixTranspose, Loop, Index, GetMatrixValue
<1> HIDE DEF w, want
<1>2. /\ matrix \in Memory /\ Shaped(a) /\ a.rows \in 1 .. Dim /\ a.columns \in 1 .. Dim /\ Dim \in Nat
      /\ a.rows \in 0 .. Dim /\ a.columns \in 0 .. Dim /\ a.store = matrix[x].store
  <2>1. matrix \in Memory /\ Shaped(a) /\ a.rows > 0
    BY <1>1, MemoryIs DEF Filled
  <2> HIDE DEF a
  <2>2. a.rows \in 1 .. Dim /\ a.columns \in 1 .. Dim
    BY <2>1, DimFacts DEF Shaped
  <2> QED  BY <2>1, <2>2, DimFacts DEF a
<1>3. /\ shaped \in Memory
      /\ shaped[z].columns = a.rows /\ shaped[x].rows = a.rows
      /\ shaped[x].columns = IF x = z THEN a.rows ELSE a.columns
      /\ shaped[z].rows = shaped[x].columns
      /\ \A u \in Matrices \ {z} : shaped[u] = matrix[u]
  BY <1>2 DEF Memory
<1> HIDE DEF shaped, turned, a
<1>4. rows \in 1 .. Dim /\ columns \in 1 .. Dim /\ rows \in 0 .. Dim /\ columns \in 0 .. Dim
      /\ shaped[z].columns = rows /\ shaped[z].rows = columns
  BY <1>2, <1>3
<1>5. \A u \in Matrices : Shaped(shaped[u])
  <2>1. Shaped(shaped[z])
    <3>1. shaped[z] \in [rows : 0 .. Dim, columns : 0 .. Dim, store : [Store -> Int]]
      BY <1>3 DEF Memory
    <3> QED  BY <1>4, <3>1, DimFacts DEF Shaped
  <2> QED  BY <1>3, <2>1, MemoryIs
<1> HIDE DEF rows, columns
<1>6. n \in Nat
  BY <1>4, DimFacts
<1>7. ASSUME NEW k \in 0 .. n - 1
      PROVE  /\ k \div columns \in 0 .. rows - 1 /\ k % columns \in 0 .. columns - 1
             /\ k \div columns \in 0 .. Dim - 1 /\ k % columns \in 0 .. Dim - 1
             /\ (k \div columns) * columns + (k % columns) = k
  <2>1. PICK total : total = rows * columns
    OBVIOUS
  <2>2. k \in 0 .. total - 1 /\ rows \in 0 .. Dim /\ columns \in 0 .. Dim
    BY <1>4, <2>1
  <2>3. k \div columns \in 0 .. rows - 1 /\ k % columns \in 0 .. columns - 1
    BY <2>1, <2>2, RowByRow
  <2>4. k \div columns \in 0 .. Dim - 1 /\ k % columns \in 0 .. Dim - 1
    BY <2>1, <2>2, RowByRow
  <2>5. (k \div columns) * columns + (k % columns) = k
    BY <2>1, <2>2, RowByRow
  <2> QED  BY <2>3, <2>4, <2>5
<1>8. ASSUME NEW k \in 0 .. n - 1
      PROVE  Place(k) \in Store /\ Place(k) \div rows = k % columns /\ Place(k) % rows = k \div columns
  <2>1. InPlace(k % columns, k \div columns, columns, rows)
    BY <1>4, <1>7, PlaceInStore
  <2> QED  BY <1>4, <2>1 DEF InPlace
<1>9. ASSUME NEW k \in 0 .. n - 1, NEW m \in Alike(shaped, z)  PROVE Value(m, k) \in Int
  <2>1. m[x].columns \in 0 .. Dim /\ m[x].store \in [Store -> Int]
    BY <1>3, <1>5, AlikeIs
  <2>2. (k \div columns) * m[x].columns + (k % columns) \in Store
    BY <1>7, <2>1, InStore
  <2> QED  BY <2>1, <2>2
<1>10. \A j, k \in 0 .. n - 1 : Place(j) = Place(k) => j = k
  <2>1. ASSUME NEW j \in 0 .. n - 1, NEW k \in 0 .. n - 1, Place(j) = Place(k)  PROVE j = k
    <3>1. j % columns = k % columns /\ j \div columns = k \div columns
      <4> HIDE DEF Place, n
      <4> QED  BY <1>8, <2>1
    <3> QED  BY <1>7, <3>1
  <2> QED  BY <2>1
<1> HIDE DEF Place, Value, n
<1>11. Turns(shaped, z, n, t, h)
  BY <1>8, <1>9 DEF Turns
<1>12. \E f : IsRun(f)
  <2>1. PICK f \in [0 .. n -> Alike(shaped, z)] :
           f[0] = shaped /\ \A i \in 1 .. n : f[i] = Put(f[i - 1], z, t[i - 1], h[i - 1][f[i - 1]])
    <3> HIDE DEF t, h
    <3> QED  BY <1>3, <1>6, <1>11, LoopRuns
  <2>2. ASSUME NEW i \in 0 .. n
        PROVE  f[i] = IF i = 0 THEN shaped
                      ELSE [f[i - 1] EXCEPT ![z].store[Place(i - 1)] = Value(f[i - 1], i - 1)]
    <3>1. CASE i # 0
      <4>1. i \in 1 .. n /\ i - 1 \in 0 .. n - 1 /\ i - 1 \in 0 .. n
        BY <1>6, <3>1
      <4>2. t[i - 1] = Place(i - 1) /\ h[i - 1][f[i - 1]] = Value(f[i - 1], i - 1)
        BY <1>8, <4>1
      <4> QED  BY <2>1, <3>1, <4>1, <4>2 DEF Put
    <3> QED  BY <2>1, <3>1
  <2>3. IsRun(f)
    BY <2>2
  <2> QED  BY <2>3
<1>13. IsRun(w)
  <2> HIDE DEF IsRun
  <2> QED  BY <1>12 DEF w
<1>14. /\ w[0] = shaped
       /\ \A i \in 1 .. n : w[i - 1] \in Alike(shaped, z) => w[i] = Put(w[i - 1], z, t[i - 1], h[i - 1][w[i - 1]])
  <2>1. w[0] = shaped
    BY <1>6, <1>13
  <2>2. ASSUME NEW i \in 1 .. n, w[i - 1] \in Alike(shaped, z)
        PROVE  w[i] = Put(w[i - 1], z, t[i - 1], h[i - 1][w[i - 1]])
    <3>1. i \in 0 .. n /\ i # 0 /\ i - 1 \in 0 .. n - 1
      BY <1>6
    <3>2. w[i] = [w[i - 1] EXCEPT ![z].store[Place(i - 1)] = Value(w[i - 1], i - 1)]
      BY <1>13, <3>1
    <3>3. t[i - 1] = Place(i - 1) /\ h[i - 1][w[i - 1]] = Value(w[i - 1], i - 1)
      BY <1>8, <2>2, <3>1
    <3> QED  BY <3>2, <3>3 DEF Put
  <2> QED  BY <2>1, <2>2
<1> HIDE DEF IsRun
<1>15. Ran(shaped, z, n, t, h, w)
  <2>1. \A j, k \in 0 .. n - 1 : t[j] = t[k] => j = k
    BY <1>10
  <2> HIDE DEF t, h
  <2> QED  BY <1>3, <1>6, <1>11, <1>14, <2>1, LoopFacts
<1>16. w[n] \in Alike(shaped, z)
  BY <1>15 DEF Ran
<1>17. PICK ms : ms = w[n]
  OBVIOUS
<1>18. /\ ms \in Memory /\ (\A u \in Matrices : Shaped(ms[u])) /\ ms[z].rows = columns /\ ms[z].columns = rows
       /\ Writes(z, ms, want)
  BY <1>1, <1>3, <1>4, <1>5, <1>16, <1>17, AlikeIs
<1>19. CASE z = x
  <2>1. want = Unsaid
    BY <1>19 DEF want
  <2> QED  BY <1>4, <1>18, <2>1, HoldsRight
<1>20. CASE z # x
  <2>1. rows = a.rows /\ columns = a.columns /\ shaped[x] = a
    BY <1>3, <1>20 DEF rows, columns, a
  <2>2. ASSUME NEW r \in 0 .. columns - 1, NEW c \in 0 .. rows - 1
        PROVE  ms[z].store[r * rows + c] = want[<<r, c>>]
    <3>1. PICK k : k = c * columns + r
      OBVIOUS
    <3>2. InPlace(c, r, rows, columns)
      BY <1>4, PlaceInStore
    <3>3. k \in 0 .. n - 1 /\ k \div columns = c /\ k % columns = r
      <4>1. /\ k \in Nat /\ k < n /\ k \div columns = c /\ k % columns = r
        BY <3>1, <3>2, DimFacts DEF InPlace, n
      <4> QED  BY <1>6, <4>1
    <3>4. w[k] \in Alike(shaped, z) /\ w[n][z].store[t[k]] = h[k][w[k]]
      BY <1>15, <3>3 DEF Ran
    <3>5. t[k] = r * rows + c /\ h[k][w[k]] = Value(w[k], k)
      BY <1>4, <3>3, <3>4 DEF Place
    <3>6. w[k][x] = a
      BY <1>3, <1>5, <1>20, <2>1, <3>4, AlikeIs
    <3>7. Value(w[k], k) = a.store[c * a.columns + r]
      BY <3>3, <3>6 DEF Value
    <3>8. Entries(a)[<<c, r>>] = a.store[c * a.columns + r]
      BY <2>1, EntryIs
    <3>9. <<r, c>> \in Places(columns, rows) /\ <<r, c>>[1] = r /\ <<r, c>>[2] = c
      BY DEF Places
    <3>10. want[<<r, c>>] = Entries(a)[<<c, r>>]
      BY <1>20, <2>1, <3>9 DEF want
    <3> HIDE DEF t, h
    <3> QED  BY <1>17, <3>4, <3>5, <3>7, <3>8, <3>10
  <2>3. DOMAIN want = Places(columns, rows) /\ want = [p \in DOMAIN want |-> want[p]]
    BY <1>20, <2>1 DEF want
  <2> QED  BY <1>4, <1>18, <2>2, <2>3, HoldsRight
<1> QED  BY <1>19, <1>20

(* A call that gives a number, the one wanted or one of which none is said. *)
LEMMA GivesRight ==
    ASSUME MatrixTypes, NEW x \in Matrices, NEW in1, Shaped(in1), NEW value \in Int, NEW want,
           want = Unsaid \/ want = Number(value),
           Gives(x, in1, value, want)
    PROVE  MatrixTypes' /\ MatrixRight'
<1>1. /\ matrix' = [matrix EXCEPT ![x] = in1] /\ return_value' = value /\ wanted' = want
      /\ trapped' = trapped /\ output' = output /\ calls' = calls + 1 /\ calls < MaxCalls
  BY DEF Gives, Called
<1>2. calls' \in 0 .. MaxCalls
  BY <1>1, DimFacts DEF MatrixTypes
<1>3. \A y \in Matrices : Shaped(matrix'[y])
  BY <1>1 DEF MatrixTypes
<1>4. matrix' \in [Matrices -> [rows : 0 .. Dim, columns : 0 .. Dim, store : [Store -> Int]]]
  BY <1>1 DEF MatrixTypes, Shaped
<1>5. MatrixTypes'
  BY <1>1, <1>2, <1>3, <1>4 DEF MatrixTypes, Shaped
<1>6. ResultRight'
  <2>1. CASE want = Unsaid
    BY <1>1, <2>1 DEF ResultRight, Unsaid
  <2>2. CASE want = Number(value)
    <3>1. DOMAIN want = {<<>>} /\ Number(return_value)' = want
      BY <1>1, <2>2 DEF Number
    <3> QED  BY <1>1, <3>1 DEF ResultRight
  <2> QED  BY <2>1, <2>2
<1> QED  BY <1>5, <1>6 DEF MatrixRight

(* The operand of a call for a number, once its rows are its columns.       *)
LEMMA SquareShaped ==
    ASSUME MatrixTypes, NEW x \in Matrices, Filled(x), NEW in1,
           in1 = [matrix[x] EXCEPT !.rows = matrix[x].columns]
    PROVE  /\ Shaped(in1) /\ in1.rows \in 1 .. Dim /\ in1.rows \in 0 .. Dim /\ in1.columns = in1.rows
           /\ in1.store \in [Store -> Int]
<1>1. Shaped(matrix[x]) /\ matrix[x].rows > 0
  BY DEF MatrixTypes, Filled
<1> DEFINE m == matrix[x]
<1> HIDE DEF m
<1>2. Shaped(m) /\ m.rows > 0 /\ in1 = [m EXCEPT !.rows = m.columns]
  BY <1>1 DEF m
<1>3. /\ m.rows \in 0 .. Dim /\ m.columns \in 0 .. Dim /\ m.store \in [Store -> Int]
      /\ m.rows = 0 <=> m.columns = 0
      /\ m = [rows |-> m.rows, columns |-> m.columns, store |-> m.store]
  BY <1>2 DEF Shaped
<1>4. in1 = [rows |-> m.columns, columns |-> m.columns, store |-> m.store]
  BY <1>2, <1>3
<1>5. m.columns \in 1 .. Dim
  BY <1>2, <1>3, DimFacts
<1> QED  BY <1>3, <1>4, <1>5, DimFacts DEF Shaped

(* MatrixTrace gives the sum of the diagonal of a square matrix
   (matrix.c:389-399).                                                       *)
LEMMA TraceRight ==
    ASSUME MatrixTypes, NEW x \in Matrices, MatrixTrace(x)
    PROVE  MatrixTypes' /\ MatrixRight'
<1>0. PICK in1 : in1 = [matrix[x] EXCEPT !.rows = matrix[x].columns]
  OBVIOUS
<1> DEFINE D == 0 .. in1.rows - 1
           f == [k \in D |-> in1.store[k * in1.columns + k]]
           h == [k \in D |-> Entries(in1)[<<k, k>>]]
           want == IF matrix[x] = in1 THEN Number(SumFunction(h)) ELSE Unsaid
<1>1. Filled(x) /\ Gives(x, in1, SumFunction(f), want)
  BY <1>0 DEF MatrixTrace, GetMatrixValue, Index
<1>2. /\ Shaped(in1) /\ in1.rows \in 1 .. Dim /\ in1.rows \in 0 .. Dim /\ in1.columns = in1.rows
      /\ in1.store \in [Store -> Int]
  BY <1>0, <1>1, SquareShaped
<1>3. ASSUME NEW k \in D
      PROVE  in1.store[k * in1.columns + k] \in Int /\ Entries(in1)[<<k, k>>] = in1.store[k * in1.columns + k]
  <2>1. k \in 0 .. in1.rows - 1 /\ k \in 0 .. in1.columns - 1
    BY <1>2
  <2>2. InPlace(k, k, in1.rows, in1.columns)
    BY <1>2, <2>1, PlaceInStore
  <2> QED  BY <1>2, <2>1, <2>2, EntryIs DEF InPlace
<1>4. IsFiniteSet(D)
  BY <1>2, DimFacts, RangeFinite
<1> HIDE DEF D
<1>5. f \in [D -> Int] /\ h = f
  BY <1>3
<1>6. SumFunction(f) \in Int
  <2> HIDE DEF f
  <2> QED  BY <1>4, <1>5, SumIs
<1>7. want = Unsaid \/ want = Number(SumFunction(f))
  BY <1>5
<1> HIDE DEF f, h, want
<1> QED  BY <1>1, <1>2, <1>6, <1>7, GivesRight

-----------------------------------------------------------------------------
(* Two sums are equal when the members can be paired so that each pair gives
   the same in both.                                                         *)
LEMMA PairsKeepSum ==
    ASSUME NEW D, IsFiniteSet(D), NEW f \in [D -> Int], NEW g \in [D -> Int], NEW m \in [D -> D],
           \A x \in D : m[m[x]] = x,
           \A x \in D : g[x] + g[m[x]] = f[x] + f[m[x]]
    PROVE  Total(g, D) = Total(f, D)
<1>1. PICK F : IsTotal(F, f, D)
  BY TotalExists
<1>2. PICK G : IsTotal(G, g, D)
  BY TotalExists
<1>3. Adds(F, f, D) /\ Adds(G, g, D)
  BY <1>1, <1>2, TotalIs
<1>4. /\ F[{}] = 0 /\ G[{}] = 0
      /\ \A s \in SUBSET D : F[s] \in Int /\ G[s] \in Int
      /\ \A s \in SUBSET D : \A x \in s : F[s] = f[x] + F[s \ {x}]
      /\ \A s \in SUBSET D : \A x \in s : G[s] = g[x] + G[s \ {x}]
  BY <1>3 DEF Adds
<1> DEFINE Closed(s) == \A x \in s : m[x] \in s
           T == {n \in Nat : \E s \in SUBSET D : Cardinality(s) = n /\ Closed(s) /\ F[s] # G[s]}
<1>5. ASSUME T # {}  PROVE FALSE
  <2>1. PICK n \in T : \A k \in T : n <= k
    <3>1. T \in SUBSET Nat
      OBVIOUS
    <3> HIDE DEF T
    <3> QED  BY <1>5, <3>1, LeastNatural
  <2>2. PICK s \in SUBSET D : Cardinality(s) = n /\ Closed(s) /\ F[s] # G[s]
    BY <2>1
  <2>3. PICK x \in s : TRUE
    BY <1>4, <2>2
  <2>4. PICK y \in D : y = m[x] /\ y \in s /\ m[y] = x
    BY <2>2
  <2>5. x \in D /\ f[x] \in Int /\ f[y] \in Int /\ g[x] \in Int /\ g[y] \in Int
        /\ g[x] + g[y] = f[x] + f[y]
    BY <2>4
  <2>6. s \ {x} \in SUBSET D /\ Cardinality(s \ {x}) \in Nat /\ Cardinality(s \ {x}) = n - 1 /\ n \in Nat
    BY <2>2, OneKeyLess
  <2>7. F[s] = f[x] + F[s \ {x}] /\ G[s] = g[x] + G[s \ {x}]
    BY <1>4
  <2>8. CASE y = x
    <3>1. Closed(s \ {x})
      BY <2>2, <2>4, <2>8
    <3>2. F[s \ {x}] = G[s \ {x}]
      <4>1. n - 1 \notin T
        <5> HIDE DEF T
        <5> QED  BY <2>1, <2>6
      <4> HIDE DEF Closed
      <4> QED  BY <2>6, <3>1, <4>1
    <3>3. f[x] = g[x]
      <4>1. g[x] + g[x] = f[x] + f[x]
        BY <2>5, <2>8
      <4> QED  BY <2>5, <4>1
    <3> QED  BY <2>2, <2>7, <3>2, <3>3
  <2>9. CASE y # x
    <3> DEFINE t == s \ {x}
    <3>1. y \in t /\ t \in SUBSET D /\ Cardinality(t) = n - 1
      BY <2>4, <2>6, <2>9
    <3>2. t \ {y} \in SUBSET D /\ Cardinality(t \ {y}) \in Nat /\ Cardinality(t \ {y}) = n - 2
      <4> HIDE DEF t
      <4> QED  BY <2>6, <3>1, OneKeyLess
    <3>3. Closed(t \ {y})
      BY <2>2, <2>4, <2>9
    <3>4. F[t \ {y}] = G[t \ {y}]
      <4>1. n - 2 \notin T
        <5> HIDE DEF T, t
        <5> QED  BY <2>1, <2>6, <3>2
      <4> HIDE DEF Closed, t
      <4> QED  BY <3>2, <3>3, <4>1
    <3>5. F[t] = f[y] + F[t \ {y}] /\ G[t] = g[y] + G[t \ {y}] /\ F[t \ {y}] \in Int
      <4> HIDE DEF t
      <4> QED  BY <1>4, <3>1, <3>2
    <3>6. F[s] = f[x] + F[t] /\ G[s] = g[x] + G[t]
      BY <2>7
    <3> HIDE DEF t
    <3> QED  BY <2>2, <2>5, <3>4, <3>5, <3>6
  <2> QED  BY <2>8, <2>9
<1>6. F[D] = G[D]
  <2>1. Closed(D) /\ D \in SUBSET D /\ Cardinality(D) \in Nat
    BY FS_CardinalityType
  <2> HIDE DEF Closed
  <2> QED  BY <1>5, <2>1
<1> QED  BY <1>1, <1>2, <1>6, TotalOf

\* The permutations of n rows.
Orders(n) == Bijection(0 .. n - 1, 0 .. n - 1)

(* The permutations are finitely many.                                      *)
LEMMA OrdersFinite ==
    ASSUME NEW n \in Nat  PROVE IsFiniteSet(Orders(n))
<1> DEFINE I == 0 .. n - 1
<1>1. IsFiniteSet(I)
  BY RangeFinite
<1> HIDE DEF I
<1>2. IsFiniteSet(SUBSET (I \X I))
  BY <1>1, FS_Product, FS_SUBSET
<1> DEFINE Graph(p) == {q \in I \X I : p[q[1]] = q[2]}
           F == [p \in [I -> I] |-> Graph(p)]
<1>3. ASSUME NEW p \in [I -> I], NEW r \in [I -> I], Graph(p) = Graph(r)  PROVE p = r
  <2>1. ASSUME NEW i \in I  PROVE p[i] = r[i]
    <3>1. <<i, p[i]>> \in I \X I /\ <<i, p[i]>>[1] = i /\ <<i, p[i]>>[2] = p[i]
      OBVIOUS
    <3>2. <<i, p[i]>> \in Graph(p)
      BY <3>1
    <3>3. <<i, p[i]>> \in Graph(r)
      BY <1>3, <3>2
    <3> QED  BY <3>1, <3>3
  <2> QED  BY <2>1
<1>4. ASSUME NEW p \in [I -> I]  PROVE F[p] = Graph(p) /\ Graph(p) \in SUBSET (I \X I)
  OBVIOUS
<1>5. F \in [[I -> I] -> SUBSET (I \X I)]
  OBVIOUS
<1>6. F \in Injection([I -> I], SUBSET (I \X I))
  <2>1. \A p, r \in [I -> I] : F[p] = F[r] => p = r
    <3> HIDE DEF F, Graph
    <3> QED  BY <1>3, <1>4
  <2> HIDE DEF F
  <2> QED  BY <1>5, <2>1 DEF Injection, IsInjective
<1> HIDE DEF F
<1>7. IsFiniteSet([I -> I])
  BY <1>2, <1>6, FS_Injection
<1>8. Orders(n) \in SUBSET [I -> I]
  BY DEF Orders, Bijection, Injection, I
<1> QED  BY <1>7, <1>8, FS_Subset

(* What a permutation is.                                                   *)
LEMMA PermutationIs ==
    ASSUME NEW n \in Nat, NEW p
    PROVE  p \in Orders(n) <=> /\ p \in [0 .. n - 1 -> 0 .. n - 1]
                               /\ \A i, j \in 0 .. n - 1 : p[i] = p[j] => i = j
                               /\ \A j \in 0 .. n - 1 : \E i \in 0 .. n - 1 : p[i] = j
  BY DEF Orders, Bijection, Injection, Surjection, IsInjective

\* The permutation with the images of a and b exchanged.
Swapped(p, a, b) == [p EXCEPT ![a] = p[b], ![b] = p[a]]

(* Exchanging two images gives another permutation, doing it twice the same. *)
LEMMA SwappedIs ==
    ASSUME NEW n \in Nat, NEW p \in Orders(n), NEW a \in 0 .. n - 1, NEW b \in 0 .. n - 1, a # b
    PROVE  /\ Swapped(p, a, b) \in Orders(n)
           /\ Swapped(p, a, b)[a] = p[b] /\ Swapped(p, a, b)[b] = p[a]
           /\ \A i \in (0 .. n - 1) \ {a, b} : Swapped(p, a, b)[i] = p[i]
           /\ Swapped(Swapped(p, a, b), a, b) = p
<1> DEFINE I == 0 .. n - 1
           s == Swapped(p, a, b)
<1>1. /\ p \in [I -> I] /\ a \in I /\ b \in I
      /\ \A i, j \in I : p[i] = p[j] => i = j
      /\ \A j \in I : \E i \in I : p[i] = j
  BY PermutationIs
<1> HIDE DEF I
<1>2. s[a] = p[b] /\ s[b] = p[a] /\ \A i \in I \ {a, b} : s[i] = p[i]
  BY <1>1 DEF Swapped
<1>3. s \in [I -> I]
  BY <1>1 DEF Swapped
<1>4. Swapped(s, a, b) = p
  BY <1>1, <1>2, <1>3 DEF Swapped
<1> HIDE DEF s
<1>5. \A i, j \in I : s[i] = s[j] => i = j
  BY <1>1, <1>2
<1>6. ASSUME NEW j \in I  PROVE \E i \in I : s[i] = j
  <2>1. PICK i \in I : p[i] = j
    BY <1>1
  <2>2. i = a \/ i = b \/ i \in I \ {a, b}
    OBVIOUS
  <2> QED  BY <1>1, <1>2, <2>1, <2>2
<1>7. s \in Orders(n)
  BY <1>3, <1>5, <1>6, PermutationIs DEF I
<1> QED  BY <1>2, <1>4, <1>7 DEF s, I

\* The place whose image place i takes when those of a and b are exchanged.
Exchange(i, a, b) == IF i = a THEN b ELSE IF i = b THEN a ELSE i

\* The pair of places q after a and b are exchanged, the smaller one first.
Moved(q, a, b) ==
  IF Exchange(q[1], a, b) < Exchange(q[2], a, b)
  THEN <<Exchange(q[1], a, b), Exchange(q[2], a, b)>>
  ELSE <<Exchange(q[2], a, b), Exchange(q[1], a, b)>>

\* The pairs of places, and those of them that the exchange of a and b turns.
PairsOf(n) == {q \in (0 .. n - 1) \X (0 .. n - 1) : q[1] < q[2]}
Turned(n, a, b) == {q \in PairsOf(n) : Exchange(q[1], a, b) > Exchange(q[2], a, b)}

(* The pairs are finitely many, and so are the inversions.                  *)
LEMMA PairsFinite ==
    ASSUME NEW n \in Nat
    PROVE  /\ IsFiniteSet(PairsOf(n))
           /\ \A s \in SUBSET PairsOf(n) : IsFiniteSet(s) /\ Cardinality(s) \in Nat
<1>1. IsFiniteSet((0 .. n - 1) \X (0 .. n - 1))
  BY RangeFinite, FS_Product
<1>2. PairsOf(n) \in SUBSET ((0 .. n - 1) \X (0 .. n - 1))
  BY DEF PairsOf
<1>3. IsFiniteSet(PairsOf(n))
  BY <1>1, <1>2, FS_Subset
<1> QED  BY <1>3, FS_Subset, FS_CardinalityType

(* The exchange turns an odd number of pairs: that of the two places, and two
   for each place between them.                                              *)
LEMMA TurnedOdd ==
    ASSUME NEW n \in Nat, NEW a \in 0 .. n - 1, NEW b \in 0 .. n - 1, a < b
    PROVE  \E d \in Nat : Cardinality(Turned(n, a, b)) = 2 * d + 1
<1> DEFINE I == 0 .. n - 1
           R == Turned(n, a, b)
           R1 == {q \in R : q[1] = a /\ q[2] # b}
           R2 == {q \in R : q[1] # a}
           F == [q \in R1 |-> <<q[2], b>>]
<1>1. ASSUME NEW i \in I, NEW j \in I
      PROVE  <<i, j>> \in R <=> (i = a /\ j = b) \/ (i = a /\ a < j /\ j < b) \/ (j = b /\ a < i /\ i < b)
  <2>1. <<i, j>>[1] = i /\ <<i, j>>[2] = j /\ <<i, j>> \in I \X I
    OBVIOUS
  <2>2. <<i, j>> \in R <=> i < j /\ Exchange(i, a, b) > Exchange(j, a, b)
    BY <2>1 DEF Turned, PairsOf
  <2> HIDE DEF R
  <2> QED  BY <2>2 DEF Exchange
<1>2. \A q \in R : q[1] \in I /\ q[2] \in I /\ q = <<q[1], q[2]>>
  BY DEF Turned, PairsOf
<1> HIDE DEF R
<1>3. ASSUME NEW q \in R1
      PROVE  <<q[2], b>> \in R2 /\ q = <<a, q[2]>> /\ q[2] \in I
  <2>1. q \in R /\ q[1] = a /\ q[2] # b /\ q[2] \in I /\ q = <<a, q[2]>>
    BY <1>2
  <2> DEFINE k == q[2]
  <2> HIDE DEF k
  <2>2. k \in I /\ k # b /\ <<a, k>> \in R /\ a \in I
    BY <2>1 DEF k
  <2>3. a < k /\ k < b
    BY <1>1, <2>2
  <2>4. <<k, b>> \in R /\ <<k, b>>[1] = k /\ k # a
    BY <1>1, <2>2, <2>3
  <2>5. <<k, b>> \in R2
    BY <2>4
  <2> QED  BY <2>1, <2>5 DEF k
<1>4. ASSUME NEW q \in R2
      PROVE  <<a, q[1]>> \in R1 /\ q = <<q[1], b>>
  <2>1. q \in R /\ q[1] # a /\ q[1] \in I /\ q[2] \in I /\ q = <<q[1], q[2]>>
    BY <1>2
  <2> DEFINE k == q[1]
             j == q[2]
  <2>2. k \in I /\ j \in I /\ k # a /\ <<k, j>> \in R /\ a \in I
    BY <2>1
  <2> HIDE DEF k, j
  <2>3. a < k /\ k < b /\ j = b
    BY <1>1, <2>2
  <2>4. <<a, k>> \in R /\ <<a, k>>[1] = a /\ <<a, k>>[2] = k /\ k # b
    BY <1>1, <2>2, <2>3
  <2>5. <<a, k>> \in R1
    BY <2>4
  <2> QED  BY <2>1, <2>3, <2>5 DEF k, j
<1>5. F \in Bijection(R1, R2)
  <2>1. F \in [R1 -> R2]
    <3> HIDE DEF R1, R2
    <3> QED  BY <1>3
  <2>2. \A q \in R1 : F[q] = <<q[2], b>>
    OBVIOUS
  <2> HIDE DEF F
  <2>3. ASSUME NEW q \in R1, NEW r \in R1, F[q] = F[r]  PROVE q = r
    <3>1. <<q[2], b>> = <<r[2], b>>
      BY <2>2, <2>3
    <3>2. q[2] = r[2]
      BY <3>1
    <3> HIDE DEF R1, R2
    <3> QED  BY <1>3, <3>2
  <2>4. ASSUME NEW q \in R2  PROVE \E r \in R1 : F[r] = q
    <3>1. <<a, q[1]>> \in R1 /\ q = <<q[1], b>> /\ <<a, q[1]>>[2] = q[1]
      BY <1>4
    <3> HIDE DEF R1, R2
    <3>2. F[<<a, q[1]>>] = q
      BY <2>2, <3>1
    <3> QED  BY <3>1, <3>2
  <2> HIDE DEF R1, R2
  <2> QED  BY <2>1, <2>3, <2>4 DEF Bijection, Injection, Surjection, IsInjective
<1>6. R \in SUBSET PairsOf(n) /\ R1 \in SUBSET PairsOf(n) /\ R2 \in SUBSET PairsOf(n)
  BY DEF R, Turned
<1>7. IsFiniteSet(R) /\ IsFiniteSet(R1) /\ IsFiniteSet(R2) /\ Cardinality(R1) \in Nat /\ Cardinality(R2) \in Nat
  <2> HIDE DEF R1, R2
  <2> QED  BY <1>6, PairsFinite
<1>8. Cardinality(R2) = Cardinality(R1)
  <2> HIDE DEF R1, R2, F
  <2> QED  BY <1>5, <1>7, FS_Bijection DEF ExistsBijection
<1>9. R = (R1 \cup R2) \cup {<<a, b>>} /\ R1 \cap R2 = {} /\ <<a, b>> \notin R1 \cup R2
  <2>1. <<a, b>> \in R /\ <<a, b>>[1] = a /\ <<a, b>>[2] = b
    BY <1>1
  <2>2. \A q \in R : q[1] = a /\ q[2] = b => q = <<a, b>>
    BY <1>2
  <2> QED  BY <2>1, <2>2
<1> HIDE DEF R1, R2, F
<1>10. /\ IsFiniteSet(R1 \cup R2)
       /\ Cardinality(R1 \cup R2) = Cardinality(R1) + Cardinality(R2) - Cardinality(R1 \cap R2)
  BY <1>7, FS_Union
<1>11. Cardinality(R) = Cardinality(R1 \cup R2) + 1
  BY <1>9, <1>10, FS_AddElement
<1>12. Cardinality(R1 \cap R2) = 0
  BY <1>9, FS_EmptySet
<1>13. Cardinality(R) = 2 * Cardinality(R1) + 1
  BY <1>7, <1>8, <1>10, <1>11, <1>12
<1> QED  BY <1>7, <1>13 DEF R

(* The exchange keeps the pairs, twice it is nothing, and it turns the pair
   found where a turned pair was.                                            *)
LEMMA MovedIs ==
    ASSUME NEW n \in Nat, NEW a \in 0 .. n - 1, NEW b \in 0 .. n - 1, a < b, NEW q \in PairsOf(n)
    PROVE  /\ Moved(q, a, b) \in PairsOf(n)
           /\ Moved(Moved(q, a, b), a, b) = q
           /\ Moved(q, a, b) \in Turned(n, a, b) <=> q \in Turned(n, a, b)
           /\ q \in Turned(n, a, b) => Moved(q, a, b) = <<Exchange(q[2], a, b), Exchange(q[1], a, b)>>
           /\ q \notin Turned(n, a, b) => Moved(q, a, b) = <<Exchange(q[1], a, b), Exchange(q[2], a, b)>>
<1> DEFINE I == 0 .. n - 1
           t(i) == Exchange(i, a, b)
<1>1. PICK i \in I, j \in I : q = <<i, j>> /\ i < j /\ q[1] = i /\ q[2] = j
  BY DEF PairsOf
<1>2. a \in Int /\ b \in Int /\ I \subseteq Int
  OBVIOUS
<1>3. /\ t(i) \in I /\ t(j) \in I /\ t(t(i)) = i /\ t(t(j)) = j /\ t(i) # t(j)
  BY <1>1 DEF Exchange
<1>4. ASSUME NEW u \in I, NEW v \in I
      PROVE  /\ <<u, v>> \in PairsOf(n) <=> u < v
             /\ <<u, v>> \in Turned(n, a, b) <=> u < v /\ t(u) > t(v)
             /\ Moved(<<u, v>>, a, b) = IF t(u) < t(v) THEN <<t(u), t(v)>> ELSE <<t(v), t(u)>>
  <2>1. <<u, v>>[1] = u /\ <<u, v>>[2] = v /\ <<u, v>> \in I \X I
    OBVIOUS
  <2> QED  BY <2>1 DEF PairsOf, Turned, Moved
<1>5. PICK u \in I, v \in I : u = t(i) /\ v = t(j) /\ i = t(u) /\ j = t(v) /\ u # v
  BY <1>3
<1>6. u \in Int /\ v \in Int /\ i \in Int /\ j \in Int
  BY <1>2
<1> HIDE DEF t, I
<1>7. /\ Moved(<<i, j>>, a, b) = IF u < v THEN <<u, v>> ELSE <<v, u>>
      /\ <<i, j>> \in Turned(n, a, b) <=> u > v
  BY <1>1, <1>4, <1>5
<1>8. /\ Moved(<<u, v>>, a, b) = <<i, j>>
      /\ <<u, v>> \in Turned(n, a, b) <=> u < v /\ i > j
      /\ <<u, v>> \in PairsOf(n) <=> u < v
  <2>1. /\ <<u, v>> \in PairsOf(n) <=> u < v
        /\ <<u, v>> \in Turned(n, a, b) <=> u < v /\ t(u) > t(v)
        /\ Moved(<<u, v>>, a, b) = IF t(u) < t(v) THEN <<t(u), t(v)>> ELSE <<t(v), t(u)>>
    BY <1>4
  <2>2. /\ <<u, v>> \in Turned(n, a, b) <=> u < v /\ i > j
        /\ Moved(<<u, v>>, a, b) = IF i < j THEN <<i, j>> ELSE <<j, i>>
    BY <1>5, <2>1
  <2> QED  BY <1>1, <2>1, <2>2
<1>9. /\ Moved(<<v, u>>, a, b) = <<i, j>>
      /\ <<v, u>> \in Turned(n, a, b) <=> v < u /\ j > i
      /\ <<v, u>> \in PairsOf(n) <=> v < u
  <2>1. /\ <<v, u>> \in PairsOf(n) <=> v < u
        /\ <<v, u>> \in Turned(n, a, b) <=> v < u /\ t(v) > t(u)
        /\ Moved(<<v, u>>, a, b) = IF t(v) < t(u) THEN <<t(v), t(u)>> ELSE <<t(u), t(v)>>
    BY <1>4
  <2>2. /\ <<v, u>> \in Turned(n, a, b) <=> v < u /\ j > i
        /\ Moved(<<v, u>>, a, b) = IF j < i THEN <<j, i>> ELSE <<i, j>>
    BY <1>5, <2>1
  <2>3. ~(j < i)
    BY <1>1, <1>6
  <2> QED  BY <2>1, <2>2, <2>3
<1>10. CASE u < v
  <2>1. Moved(q, a, b) = <<u, v>> /\ q \notin Turned(n, a, b)
    BY <1>1, <1>6, <1>7, <1>10
  <2>2. <<u, v>> \in PairsOf(n) /\ <<u, v>> \notin Turned(n, a, b) /\ Moved(<<u, v>>, a, b) = q
    BY <1>1, <1>6, <1>8, <1>10
  <2> QED  BY <1>1, <1>5, <2>1, <2>2 DEF t
<1>11. CASE ~(u < v)
  <2>0. v < u
    BY <1>5, <1>6, <1>11
  <2>1. Moved(q, a, b) = <<v, u>> /\ q \in Turned(n, a, b)
    BY <1>1, <1>6, <1>7, <2>0
  <2>2. <<v, u>> \in PairsOf(n) /\ <<v, u>> \in Turned(n, a, b) /\ Moved(<<v, u>>, a, b) = q
    BY <1>1, <1>6, <1>9, <2>0
  <2> QED  BY <1>1, <1>5, <2>1, <2>2 DEF t
<1> QED  BY <1>10, <1>11

(* A pair is an inversion after the exchange of two images exactly if the pair
   moved there was one and is not turned, or was none and is.                *)
LEMMA InversionMoved ==
    ASSUME NEW n \in Nat, NEW a \in 0 .. n - 1, NEW b \in 0 .. n - 1, a < b,
           NEW p \in Orders(n), NEW q \in PairsOf(n)
    PROVE  q \in Inversions(Swapped(p, a, b), n) <=>
              (Moved(q, a, b) \in Inversions(p, n) /\ q \notin Turned(n, a, b))
           \/ (Moved(q, a, b) \notin Inversions(p, n) /\ q \in Turned(n, a, b))
<1> DEFINE I == 0 .. n - 1
           s == Swapped(p, a, b)
           t(i) == Exchange(i, a, b)
           m == Moved(q, a, b)
<1>1. PICK i \in I, j \in I : q = <<i, j>> /\ i < j /\ q[1] = i /\ q[2] = j
  BY DEF PairsOf
<1>2. s[i] = p[t(i)] /\ s[j] = p[t(j)] /\ t(i) \in I /\ t(j) \in I /\ t(i) # t(j)
  <2>1. s[a] = p[b] /\ s[b] = p[a] /\ \A k \in I \ {a, b} : s[k] = p[k]
    BY SwappedIs
  <2> HIDE DEF s
  <2> QED  BY <1>1, <2>1 DEF Exchange
<1>3. /\ p \in [I -> I] /\ \A u, v \in I : p[u] = p[v] => u = v
  BY PermutationIs
<1>4. /\ I \subseteq Int /\ p[t(i)] \in I /\ p[t(j)] \in I /\ p[t(i)] # p[t(j)]
  BY <1>2, <1>3
<1>5. ASSUME NEW u \in I, NEW v \in I, NEW r
      PROVE  <<u, v>> \in Inversions(r, n) <=> u < v /\ r[u] > r[v]
  <2>1. <<u, v>>[1] = u /\ <<u, v>>[2] = v /\ <<u, v>> \in I \X I
    OBVIOUS
  <2> QED  BY <2>1 DEF Inversions
<1>6. q \in Inversions(s, n) <=> p[t(i)] > p[t(j)]
  <2> HIDE DEF s, t
  <2> QED  BY <1>1, <1>2, <1>5
<1>7. q \in Turned(n, a, b) <=> t(i) > t(j)
  BY <1>1 DEF Turned
<1>8. q \in Turned(n, a, b) => m = <<t(j), t(i)>>
  BY <1>1, MovedIs
<1>9. q \notin Turned(n, a, b) => m = <<t(i), t(j)>>
  BY <1>1, MovedIs
<1> HIDE DEF t, s, m, I
<1>10. PICK u \in Int, v \in Int, x \in Int, y \in Int :
          u = t(i) /\ v = t(j) /\ x = p[u] /\ y = p[v] /\ u # v /\ x # y /\ u \in I /\ v \in I
  BY <1>2, <1>4
<1>11. /\ q \in Inversions(s, n) <=> x > y
       /\ q \in Turned(n, a, b) <=> u > v
       /\ q \in Turned(n, a, b) => m = <<v, u>>
       /\ q \notin Turned(n, a, b) => m = <<u, v>>
       /\ <<u, v>> \in Inversions(p, n) <=> u < v /\ x > y
       /\ <<v, u>> \in Inversions(p, n) <=> v < u /\ y > x
  BY <1>5, <1>6, <1>7, <1>8, <1>9, <1>10
<1>12. CASE q \in Turned(n, a, b)
  BY <1>10, <1>11, <1>12 DEF s, m
<1>13. CASE q \notin Turned(n, a, b)
  BY <1>10, <1>11, <1>13 DEF s, m
<1> QED  BY <1>12, <1>13

(* One number is even exactly if another, an odd number away, is not.       *)
LEMMA OddAway ==
    ASSUME NEW x \in Int, NEW y \in Int, NEW d \in Int, x = y + 2 * d + 1
    PROVE  x % 2 = 0 <=> y % 2 # 0
  OBVIOUS

(* Exchanging two images turns the sign of a permutation.                   *)
LEMMA SignSwapped ==
    ASSUME NEW n \in Nat, NEW a \in 0 .. n - 1, NEW b \in 0 .. n - 1, a < b, NEW p \in Orders(n)
    PROVE  Sign(p, n) \in {1, -1} /\ Sign(Swapped(p, a, b), n) = -Sign(p, n)
<1> DEFINE A == Inversions(p, n)
           B == Inversions(Swapped(p, a, b), n)
           R == Turned(n, a, b)
           C == (A \ R) \cup (R \ A)
           M(q) == Moved(q, a, b)
           F == [q \in B |-> M(q)]
<1>1. A \in SUBSET PairsOf(n) /\ B \in SUBSET PairsOf(n) /\ R \in SUBSET PairsOf(n)
  BY DEF Inversions, PairsOf, Turned
<1>2. ASSUME NEW q \in PairsOf(n)
      PROVE  /\ M(q) \in PairsOf(n) /\ M(M(q)) = q
             /\ M(q) \in R <=> q \in R
             /\ q \in B <=> (M(q) \in A /\ q \notin R) \/ (M(q) \notin A /\ q \in R)
  BY InversionMoved, MovedIs
<1> HIDE DEF A, B, R, M
<1>3. ASSUME NEW q \in PairsOf(n)  PROVE q \in B <=> M(q) \in C
  BY <1>2
<1>4. C \in SUBSET PairsOf(n)
  BY <1>1
<1> HIDE DEF C
<1>5. F \in Bijection(B, C)
  <2>1. F \in [B -> C] /\ \A q \in B : F[q] = M(q)
    BY <1>1, <1>3
  <2> HIDE DEF F
  <2>2. ASSUME NEW q \in B, NEW r \in B, F[q] = F[r]  PROVE q = r
    <3>1. M(M(q)) = M(M(r))
      BY <2>1, <2>2
    <3> QED  BY <1>1, <1>2, <3>1
  <2>3. ASSUME NEW q \in C  PROVE \E r \in B : F[r] = q
    <3>1. M(q) \in PairsOf(n) /\ M(M(q)) = q
      BY <1>2, <1>4
    <3>2. M(q) \in B
      BY <1>3, <3>1
    <3> QED  BY <2>1, <3>1, <3>2
  <2> QED  BY <2>1, <2>2, <2>3 DEF Bijection, Injection, Surjection, IsInjective
<1>6. /\ IsFiniteSet(A) /\ IsFiniteSet(B) /\ IsFiniteSet(R)
      /\ Cardinality(A) \in Nat /\ Cardinality(B) \in Nat
      /\ IsFiniteSet(A \ R) /\ IsFiniteSet(R \ A) /\ A \cap R \in SUBSET PairsOf(n)
  BY <1>1, PairsFinite, FS_Difference
<1>7. Cardinality(A \cap R) \in Nat
  BY <1>6, PairsFinite
<1>8. Cardinality(C) = Cardinality(B)
  <2> HIDE DEF F
  <2> QED  BY <1>5, <1>6, FS_Bijection DEF ExistsBijection
<1>9. Cardinality(A \ R) = Cardinality(A) - Cardinality(A \cap R)
  BY <1>6, FS_Difference
<1>10. Cardinality(R \ A) = Cardinality(R) - Cardinality(A \cap R)
  <2>1. Cardinality(R \ A) = Cardinality(R) - Cardinality(R \cap A)
    BY <1>6, FS_Difference
  <2>2. R \cap A = A \cap R
    OBVIOUS
  <2> QED  BY <2>1, <2>2
<1>11. Cardinality(C) = Cardinality(A \ R) + Cardinality(R \ A)
  <2>1. Cardinality((A \ R) \cup (R \ A)) = Cardinality(A \ R) + Cardinality(R \ A) - Cardinality((A \ R) \cap (R \ A))
    BY <1>6, FS_Union
  <2>2. (A \ R) \cap (R \ A) = {}
    OBVIOUS
  <2>3. Cardinality(A \ R) \in Nat /\ Cardinality(R \ A) \in Nat
    BY <1>6, FS_CardinalityType
  <2>4. Cardinality((A \ R) \cap (R \ A)) = 0
    BY <2>2, FS_EmptySet
  <2> QED  BY <2>1, <2>3, <2>4 DEF C
<1>12. PICK d \in Nat : Cardinality(R) = 2 * d + 1
  BY TurnedOdd DEF R
<1> DEFINE x == Cardinality(B)
           y == Cardinality(A)
           c == Cardinality(A \cap R)
           k == d - c
<1>13. x = y + 2 * k + 1 /\ x \in Int /\ y \in Int /\ k \in Int
  BY <1>6, <1>7, <1>8, <1>9, <1>10, <1>11, <1>12
<1> HIDE DEF x, y, k
<1>14. x % 2 = 0 <=> y % 2 # 0
  BY <1>13, OddAway
<1> QED  BY <1>14 DEF x, y, A, B, Sign

\* e has integers for entries.
Square(e, n) == \A r, c \in 0 .. n - 1 : e[<<r, c>>] \in Int

\* The factors a permutation picks, and the signed products.
Factors(e, p, n) == [i \in 0 .. n - 1 |-> e[<<i, p[i]>>]]
Signed(e, n) == [p \in Orders(n) |-> Sign(p, n) * ProductOf(Factors(e, p, n))]

(* The factors are integers, and their product is one.                      *)
LEMMA FactorsAre ==
    ASSUME NEW n \in Nat, NEW e, Square(e, n), NEW p \in Orders(n)
    PROVE  /\ Factors(e, p, n) \in [0 .. n - 1 -> Int]
           /\ \A i \in 0 .. n - 1 : p[i] \in 0 .. n - 1 /\ Factors(e, p, n)[i] = e[<<i, p[i]>>]
           /\ ProductOf(Factors(e, p, n)) \in Int
<1> DEFINE I == 0 .. n - 1
           f == Factors(e, p, n)
<1>0. p \in [I -> I]
  BY PermutationIs
<1>1. \A i \in I : p[i] \in I
  BY <1>0
<1>2. f \in [I -> Int] /\ \A i \in I : f[i] = e[<<i, p[i]>>]
  BY <1>1 DEF Factors, Square
<1> HIDE DEF f, I
<1>3. IsFiniteSet(I)
  BY RangeFinite DEF I
<1>4. PICK g : IsProduct(g, f, I) /\ ProductOf(f) = g[I]
  BY <1>2, <1>3, ProductOfIs
<1>5. Multiplies(g, f, I)
  BY <1>2, <1>3, <1>4, ProductIs
<1>6. g[I] \in Int
  BY <1>5 DEF Multiplies
<1> QED  BY <1>1, <1>2, <1>4, <1>6 DEF f, I

(* The sign of a permutation is 1 or -1.                                    *)
LEMMA SignIs == ASSUME NEW n, NEW p  PROVE Sign(p, n) \in {1, -1}
  BY DEF Sign

(* The determinant is the sum of the signed products.                       *)
LEMMA DeterminantIs ==
    ASSUME NEW n \in Nat, NEW e, Square(e, n)
    PROVE  /\ Signed(e, n) \in [Orders(n) -> Int]
           /\ Determinant(e, n) = Total(Signed(e, n), Orders(n))
<1>1. Determinant(e, n) = SumFunction(Signed(e, n))
  BY DEF Determinant, Signed, Orders, Factors
<1>2. ASSUME NEW p \in Orders(n)  PROVE Sign(p, n) * ProductOf(Factors(e, p, n)) \in Int
  <2>1. ProductOf(Factors(e, p, n)) \in Int
    BY FactorsAre
  <2>2. Sign(p, n) \in {1, -1}
    BY SignIs
  <2> QED  BY <2>1, <2>2
<1>3. Signed(e, n) \in [Orders(n) -> Int]
  BY <1>2 DEF Signed
<1> QED  BY <1>1, <1>3, OrdersFinite, SumIs

\* The products of functions that are f but for a and b have the other factors
\* in common.
Splits(f, D, a, b) ==
  \E rest \in Int : \A h \in [D -> Int] :
     (\A x \in D \ {a, b} : h[x] = f[x]) => ProductOf(h) = h[a] * (h[b] * rest)

(* Two factors of a product, and the rest, which depends on neither.        *)
LEMMA TwoFactors ==
    ASSUME NEW D, IsFiniteSet(D), NEW f \in [D -> Int], NEW a \in D, NEW b \in D, a # b
    PROVE  Splits(f, D, a, b)
<1>1. PICK g : IsProduct(g, f, D)
  BY ProductExists
<1> DEFINE r == (D \ {a}) \ {b}
<1>2. r \in SUBSET D /\ D \in SUBSET D /\ D \ {a} \in SUBSET D /\ a \in D /\ b \in D \ {a}
  OBVIOUS
<1>3. Multiplies(g, f, D)
  BY <1>1, ProductIs
<1>4. g[r] \in Int
  BY <1>2, <1>3 DEF Multiplies
<1>5. ASSUME NEW h \in [D -> Int], \A x \in D \ {a, b} : h[x] = f[x]
      PROVE  ProductOf(h) = h[a] * (h[b] * g[r])
  <2>1. PICK k : IsProduct(k, h, D) /\ ProductOf(h) = k[D]
    BY ProductOfIs
  <2>2. Multiplies(k, h, D)
    BY <2>1, ProductIs
  <2>3. k[D] = h[a] * k[D \ {a}] /\ k[D \ {a}] = h[b] * k[r]
    BY <1>2, <2>2 DEF Multiplies
  <2>4. \A x \in r : f[x] = h[x]
    BY <1>5
  <2> HIDE DEF r
  <2>5. g[r] = k[r]
    BY <1>1, <1>2, <2>1, <2>4, ProductAgrees
  <2> QED  BY <2>1, <2>3, <2>5
<1> HIDE DEF r
<1> QED  BY <1>4, <1>5 DEF Splits

(* What taking a multiple of one row from another does to the products of two
   permutations that exchange the two rows.                                  *)
LEMMA RowAlgebra ==
    ASSUME NEW g \in {1, -1}, NEW a1 \in Int, NEW a2 \in Int, NEW b1 \in Int, NEW b2 \in Int,
           NEW k \in Int, NEW rest \in Int
    PROVE  g * (a1 * ((b2 - k * a2) * rest)) + (-g) * (a2 * ((b1 - k * a1) * rest))
              = g * (a1 * (b2 * rest)) + (-g) * (a2 * (b1 * rest))
<1>1. a1 * ((b2 - k * a2) * rest) = a1 * (b2 * rest) - a1 * (k * (a2 * rest))
  OBVIOUS
<1>2. a2 * ((b1 - k * a1) * rest) = a2 * (b1 * rest) - a2 * (k * (a1 * rest))
  OBVIOUS
<1>3. a1 * (k * (a2 * rest)) = a2 * (k * (a1 * rest))
  OBVIOUS
<1> DEFINE u == a1 * (b2 * rest)
           v == a2 * (b1 * rest)
           w == a1 * (k * (a2 * rest))
<1>4. u \in Int /\ v \in Int /\ w \in Int
  OBVIOUS
<1>5. a1 * ((b2 - k * a2) * rest) = u - w /\ a2 * ((b1 - k * a1) * rest) = v - w
  BY <1>1, <1>2, <1>3
<1> HIDE DEF u, v, w
<1>6. g * (u - w) + (-g) * (v - w) = g * u + (-g) * v
  BY <1>4
<1> QED  BY <1>5, <1>6 DEF u, v

(* Taking a multiple of one row from another keeps the determinant.         *)
LEMMA RowKeepsDeterminant ==
    ASSUME NEW n \in Nat, NEW e, Square(e, n), NEW e2, Square(e2, n),
           NEW a \in 0 .. n - 1, NEW b \in 0 .. n - 1, a < b, NEW k \in Int,
           \A c \in 0 .. n - 1 : e2[<<b, c>>] = e[<<b, c>>] - k * e[<<a, c>>],
           \A r \in (0 .. n - 1) \ {b}, c \in 0 .. n - 1 : e2[<<r, c>>] = e[<<r, c>>]
    PROVE  Determinant(e2, n) = Determinant(e, n)
<1> DEFINE I == 0 .. n - 1
           O == Orders(n)
           f == Signed(e, n)
           g == Signed(e2, n)
           m == [p \in O |-> Swapped(p, a, b)]
<1>1. /\ f \in [O -> Int] /\ Determinant(e, n) = Total(f, O)
      /\ g \in [O -> Int] /\ Determinant(e2, n) = Total(g, O)
  BY DeterminantIs
<1>2. a # b
  OBVIOUS
<1>3. m \in [O -> O] /\ \A p \in O : m[p] = Swapped(p, a, b) /\ m[m[p]] = p
  BY <1>2, SwappedIs
<1>4. ASSUME NEW p \in O
      PROVE  g[p] + g[m[p]] = f[p] + f[m[p]]
  <2>1. PICK q \in O : q = Swapped(p, a, b) /\ m[p] = q
    BY <1>3
  <2>2. q[a] = p[b] /\ q[b] = p[a] /\ \A i \in I \ {a, b} : q[i] = p[i]
    BY <1>2, <2>1, SwappedIs
  <2> DEFINE h1 == Factors(e, p, n)
             h2 == Factors(e, q, n)
             h3 == Factors(e2, p, n)
             h4 == Factors(e2, q, n)
  <2>3. /\ h1 \in [I -> Int] /\ \A i \in I : p[i] \in I /\ h1[i] = e[<<i, p[i]>>]
        /\ h2 \in [I -> Int] /\ \A i \in I : q[i] \in I /\ h2[i] = e[<<i, q[i]>>]
        /\ h3 \in [I -> Int] /\ \A i \in I : h3[i] = e2[<<i, p[i]>>]
        /\ h4 \in [I -> Int] /\ \A i \in I : h4[i] = e2[<<i, q[i]>>]
    <3>1. h1 \in [I -> Int] /\ \A i \in I : p[i] \in I /\ h1[i] = e[<<i, p[i]>>]
      <4>1. Factors(e, p, n) \in [0 .. n - 1 -> Int]
            /\ \A i \in 0 .. n - 1 : p[i] \in 0 .. n - 1 /\ Factors(e, p, n)[i] = e[<<i, p[i]>>]
        BY FactorsAre
      <4> QED  BY <4>1
    <3>2. h2 \in [I -> Int] /\ \A i \in I : q[i] \in I /\ h2[i] = e[<<i, q[i]>>]
      BY FactorsAre
    <3>3. h3 \in [I -> Int] /\ \A i \in I : h3[i] = e2[<<i, p[i]>>]
      BY FactorsAre
    <3>4. h4 \in [I -> Int] /\ \A i \in I : h4[i] = e2[<<i, q[i]>>]
      BY FactorsAre
    <3> HIDE DEF h1, h2, h3, h4
    <3> QED  BY <3>1, <3>2, <3>3, <3>4
  <2> HIDE DEF h1, h2, h3, h4
  <2>4. ASSUME NEW i \in I \ {a, b}
        PROVE  h2[i] = h1[i] /\ h3[i] = h1[i] /\ h4[i] = h1[i]
    <3>1. q[i] = p[i] /\ i \in I /\ i # b /\ p[i] \in I
      BY <2>2, <2>3
    <3>2. e2[<<i, p[i]>>] = e[<<i, p[i]>>]
      BY <3>1
    <3>3. h1[i] = e[<<i, p[i]>>] /\ h2[i] = e[<<i, q[i]>>] /\ h3[i] = e2[<<i, p[i]>>] /\ h4[i] = e2[<<i, q[i]>>]
      BY <2>3
    <3> QED  BY <3>1, <3>2, <3>3
  <2>5. PICK rest \in Int : \A h \in [I -> Int] :
              (\A x \in I \ {a, b} : h[x] = h1[x]) => ProductOf(h) = h[a] * (h[b] * rest)
    <3>1. IsFiniteSet(I)
      BY RangeFinite
    <3> HIDE DEF I
    <3>2. a \in I /\ b \in I
      BY DEF I
    <3>3. h1 \in [I -> Int]
      BY <2>3
    <3>4. Splits(h1, I, a, b)
      BY <1>2, <3>1, <3>2, <3>3, TwoFactors
    <3> QED  BY <3>4 DEF Splits
  <2>6. PICK a1 \in Int, a2 \in Int, b1 \in Int, b2 \in Int :
          /\ a1 = e[<<a, p[a]>>] /\ a2 = e[<<a, p[b]>>]
          /\ b1 = e[<<b, p[a]>>] /\ b2 = e[<<b, p[b]>>]
    BY <2>3 DEF Square
  <2>7. /\ h1[a] = a1 /\ h1[b] = b2 /\ h2[a] = a2 /\ h2[b] = b1
        /\ h3[a] = a1 /\ h3[b] = b2 - k * a2 /\ h4[a] = a2 /\ h4[b] = b1 - k * a1
    <3>1. p[a] \in I /\ p[b] \in I /\ a \in I /\ b \in I /\ q[a] = p[b] /\ q[b] = p[a]
      BY <2>2, <2>3
    <3>2. /\ h1[a] = e[<<a, p[a]>>] /\ h1[b] = e[<<b, p[b]>>]
          /\ h2[a] = e[<<a, p[b]>>] /\ h2[b] = e[<<b, p[a]>>]
          /\ h3[a] = e2[<<a, p[a]>>] /\ h3[b] = e2[<<b, p[b]>>]
          /\ h4[a] = e2[<<a, p[b]>>] /\ h4[b] = e2[<<b, p[a]>>]
      BY <2>3, <3>1
    <3>3. e2[<<b, p[b]>>] = e[<<b, p[b]>>] - k * e[<<a, p[b]>>]
      BY <3>1
    <3>4. e2[<<b, p[a]>>] = e[<<b, p[a]>>] - k * e[<<a, p[a]>>]
      BY <3>1
    <3>5. e2[<<a, p[a]>>] = e[<<a, p[a]>>] /\ e2[<<a, p[b]>>] = e[<<a, p[b]>>]
      BY <1>2, <3>1
    <3> QED  BY <2>6, <3>2, <3>3, <3>4, <3>5
  <2>8. /\ ProductOf(h1) = a1 * (b2 * rest) /\ ProductOf(h2) = a2 * (b1 * rest)
        /\ ProductOf(h3) = a1 * ((b2 - k * a2) * rest) /\ ProductOf(h4) = a2 * ((b1 - k * a1) * rest)
    <3> HIDE DEF I
    <3> QED  BY <2>3, <2>4, <2>5, <2>7
  <2>9. PICK s \in {1, -1} : Sign(p, n) = s /\ Sign(q, n) = -s
    BY <2>1, SignSwapped
  <2>10. f[p] = s * ProductOf(h1) /\ f[q] = (-s) * ProductOf(h2)
         /\ g[p] = s * ProductOf(h3) /\ g[q] = (-s) * ProductOf(h4)
    BY <2>9 DEF Signed, h1, h2, h3, h4
  <2>11. s * (a1 * ((b2 - k * a2) * rest)) + (-s) * (a2 * ((b1 - k * a1) * rest))
              = s * (a1 * (b2 * rest)) + (-s) * (a2 * (b1 * rest))
    BY RowAlgebra
  <2> HIDE DEF f, g, m
  <2> QED  BY <2>1, <2>8, <2>10, <2>11
<1>5. IsFiniteSet(O)
  BY OrdersFinite
<1> HIDE DEF O, f, g, m
<1>6. Total(g, O) = Total(f, O)
  BY <1>1, <1>3, <1>4, <1>5, PairsKeepSum
<1> QED  BY <1>1, <1>6

(* A permutation that takes no place below itself takes each to itself.     *)
LEMMA NoneBelow ==
    ASSUME NEW n \in Nat, NEW p \in Orders(n), \A i \in 0 .. n - 1 : i <= p[i]
    PROVE  \A i \in 0 .. n - 1 : p[i] = i
<1> DEFINE I == 0 .. n - 1
           T == {k \in Nat : \E i \in I : k = n - 1 - i /\ p[i] # i}
<1>1. /\ p \in [I -> I] /\ \A i, j \in I : p[i] = p[j] => i = j
  BY PermutationIs
<1>2. ASSUME T # {}  PROVE FALSE
  <2>1. PICK k \in T : \A m \in T : k <= m
    <3>1. T \in SUBSET Nat
      OBVIOUS
    <3> HIDE DEF T
    <3> QED  BY <1>2, <3>1, LeastNatural
  <2>2. PICK i \in I : k = n - 1 - i /\ p[i] # i
    BY <2>1
  <2>3. PICK j \in I : j = p[i] /\ j > i
    <3>1. p[i] \in I /\ i <= p[i] /\ p[i] # i
      BY <1>1, <2>2
    <3> QED  BY <3>1
  <2>4. p[j] = j
    <3>1. n - 1 - j \in Nat /\ n - 1 - j < k
      BY <2>2, <2>3
    <3>2. n - 1 - j \notin T
      <4> HIDE DEF T
      <4> QED  BY <2>1, <2>2, <3>1
    <3> QED  BY <3>1, <3>2
  <2>5. p[j] = p[i]
    BY <2>3, <2>4
  <2> QED  BY <1>1, <2>3, <2>5
<1>3. ASSUME NEW i \in I  PROVE p[i] = i
  <2>1. n - 1 - i \in Nat
    OBVIOUS
  <2> QED  BY <1>2, <2>1
<1> QED  BY <1>3

(* A product with a factor 0 is 0.                                          *)
LEMMA ZeroFactor ==
    ASSUME NEW D, IsFiniteSet(D), NEW f \in [D -> Int], NEW x \in D, f[x] = 0
    PROVE  ProductOf(f) = 0
<1>1. PICK g : IsProduct(g, f, D) /\ ProductOf(f) = g[D]
  BY ProductOfIs
<1>2. Multiplies(g, f, D)
  BY <1>1, ProductIs
<1>3. D \in SUBSET D /\ D \ {x} \in SUBSET D
  OBVIOUS
<1>4. g[D] = f[x] * g[D \ {x}] /\ g[D \ {x}] \in Int
  BY <1>2, <1>3 DEF Multiplies
<1> DEFINE r == g[D \ {x}]
<1>5. g[D] = 0 * r /\ r \in Int
  BY <1>4
<1> HIDE DEF r
<1>6. 0 * r = 0
  BY <1>5
<1> QED  BY <1>1, <1>5, <1>6

(* A sum of which all but one member is 0 is that member.                   *)
LEMMA OneTerm ==
    ASSUME NEW D, IsFiniteSet(D), NEW f \in [D -> Int], NEW x \in D, \A y \in D \ {x} : f[y] = 0
    PROVE  Total(f, D) = f[x]
<1>1. Changes(f, x, 0, D)
  BY TotalChanged
<1>2. PICK g : g = [f EXCEPT ![x] = 0]
  OBVIOUS
<1>3. PICK rest \in Int : Total(f, D) = f[x] + rest /\ Total(g, D) = 0 + rest
  BY <1>1, <1>2 DEF Changes
<1>4. g \in [D -> Int] /\ \A y \in D : g[y] = 0
  BY <1>2
<1>5. Total(g, D) = 0
  BY <1>4, TotalOfNothing
<1>6. f[x] \in Int
  OBVIOUS
<1> QED  BY <1>3, <1>5, <1>6

(* The determinant of a matrix with zeros below the diagonal.               *)
LEMMA TriangularDeterminant ==
    ASSUME NEW n \in Nat, NEW e, Square(e, n),
           \A r, c \in 0 .. n - 1 : r > c => e[<<r, c>>] = 0
    PROVE  Determinant(e, n) = ProductOf([i \in 0 .. n - 1 |-> e[<<i, i>>]])
<1> DEFINE I == 0 .. n - 1
           O == Orders(n)
           f == Signed(e, n)
           id == [i \in I |-> i]
<1>1. f \in [O -> Int] /\ Determinant(e, n) = Total(f, O) /\ IsFiniteSet(O)
  BY DeterminantIs, OrdersFinite
<1>2. id \in O
  BY PermutationIs
<1>3. ASSUME NEW p \in O \ {id}  PROVE f[p] = 0
  <2>1. /\ Factors(e, p, n) \in [I -> Int]
        /\ \A i \in I : p[i] \in I /\ Factors(e, p, n)[i] = e[<<i, p[i]>>]
    BY FactorsAre
  <2>2. PICK i \in I : ~(i <= p[i])
    <3>1. p \in [I -> I]
      BY PermutationIs
    <3>2. ~ \A i \in I : p[i] = i
      BY <3>1
    <3> QED  BY <3>2, NoneBelow
  <2>3. p[i] \in I /\ i > p[i] /\ Factors(e, p, n)[i] = e[<<i, p[i]>>]
    BY <2>1, <2>2
  <2>4. Factors(e, p, n)[i] = 0
    BY <2>3
  <2>5. ProductOf(Factors(e, p, n)) = 0
    <3>1. IsFiniteSet(I)
      BY RangeFinite
    <3> HIDE DEF I
    <3> QED  BY <2>1, <2>4, <3>1, ZeroFactor
  <2>6. f[p] = Sign(p, n) * ProductOf(Factors(e, p, n)) /\ Sign(p, n) \in {1, -1}
    BY SignIs DEF Signed
  <2> HIDE DEF f
  <2> QED  BY <2>5, <2>6
<1>4. f[id] = ProductOf([i \in I |-> e[<<i, i>>]])
  <2>1. Inversions(id, n) = {}
    BY DEF Inversions
  <2>2. Sign(id, n) = 1
    BY <2>1, FS_EmptySet DEF Sign
  <2>3. Factors(e, id, n) = [i \in I |-> e[<<i, i>>]]
    BY DEF Factors
  <2>4. f[id] = Sign(id, n) * ProductOf(Factors(e, id, n)) /\ ProductOf(Factors(e, id, n)) \in Int
    BY <1>2, FactorsAre DEF Signed
  <2> HIDE DEF f, id
  <2> QED  BY <2>2, <2>3, <2>4
<1> HIDE DEF f, id, O
<1>5. Total(f, O) = f[id]
  BY <1>1, <1>2, <1>3, OneTerm
<1> QED  BY <1>1, <1>4, <1>5

-----------------------------------------------------------------------------
\* What the elimination of DeterminantValue keeps.
Eliminations == [store : [Store -> Int], base_value : Int, exact : BOOLEAN, stopped : BOOLEAN]

\* The square matrix of n rows in a store.
Grid(store, n) == [p \in Places(n, n) |-> store[p[1] * n + p[2]]]

(* Its entries.                                                             *)
LEMMA GridIs ==
    ASSUME NEW n \in 0 .. Dim, NEW store \in [Store -> Int]
    PROVE  /\ Square(Grid(store, n), n)
           /\ \A r, c \in 0 .. n - 1 : /\ Grid(store, n)[<<r, c>>] = store[r * n + c]
                                       /\ store[r * n + c] \in Int
<1>1. ASSUME NEW r \in 0 .. n - 1, NEW c \in 0 .. n - 1
      PROVE  Grid(store, n)[<<r, c>>] = store[r * n + c] /\ store[r * n + c] \in Int
  <2>1. InPlace(r, c, n, n)
    BY PlaceInStore
  <2>2. <<r, c>> \in Places(n, n) /\ <<r, c>>[1] = r /\ <<r, c>>[2] = c
    BY DEF Places
  <2>3. r * n + c \in Store
    BY <2>1 DEF InPlace
  <2> QED  BY <2>2, <2>3 DEF Grid
<1> QED  BY <1>1 DEF Square

\* The row that is probed, once its multiple of row level is taken from it.
ProbedStore(store, level, probe, n, scale) ==
  [i \in Store |-> IF i \in probe * n + level .. probe * n + n - 1
                   THEN store[i] - scale * store[level * n + (i % n)] ELSE store[i]]

\* u holds the entries that has.
Probed(u, store, level, probe, n, scale) ==
  \A r, c \in 0 .. n - 1 :
     u[r * n + c] = IF r = probe /\ c >= level THEN store[r * n + c] - scale * store[level * n + c]
                    ELSE store[r * n + c]

(* It changes the entries of its row from the diagonal's column on.         *)
LEMMA ProbedStoreIs ==
    ASSUME NEW n \in 0 .. Dim, NEW store \in [Store -> Int], NEW scale \in Int,
           NEW level \in 0 .. n - 1, NEW probe \in 0 .. n - 1
    PROVE  /\ ProbedStore(store, level, probe, n, scale) \in [Store -> Int]
           /\ Probed(ProbedStore(store, level, probe, n, scale), store, level, probe, n, scale)
<1> DEFINE s == ProbedStore(store, level, probe, n, scale)
<1>0. n \in Nat \ {0} /\ level \in Nat /\ probe \in Nat
  BY DimFacts
<1>1. ASSUME NEW i \in Store  PROVE s[i] \in Int
  <2>1. i \in Nat
    BY DimFacts
  <2>2. i % n \in 0 .. n - 1
    BY <1>0, <2>1
  <2>3. store[level * n + (i % n)] \in Int
    BY <2>2, GridIs
  <2>4. scale * store[level * n + (i % n)] \in Int /\ store[i] \in Int
    BY <2>3
  <2> QED  BY <2>4 DEF ProbedStore
<1>2. s \in [Store -> Int]
  BY <1>1 DEF ProbedStore
<1>3. ASSUME NEW r \in 0 .. n - 1, NEW c \in 0 .. n - 1
      PROVE  s[r * n + c] = IF r = probe /\ c >= level
                            THEN store[r * n + c] - scale * store[level * n + c] ELSE store[r * n + c]
  <2>1. InPlace(r, c, n, n)
    BY PlaceInStore
  <2> DEFINE i == r * n + c
             q == probe * n
  <2>2. i \in Store /\ i \div n = r /\ i % n = c /\ i \in Nat /\ q \in Nat
    BY <1>0, <2>1, DimFacts DEF InPlace
  <2>3. r = probe => i = q + c
    OBVIOUS
  <2>4. ASSUME i \in q + level .. q + n - 1  PROVE r = probe /\ i = q + c
    <3> DEFINE d == i - q
    <3>1. d \in 0 .. n - 1 /\ i = q + d
      <4> HIDE DEF i, q
      <4> QED  BY <1>0, <2>2, <2>4
    <3> HIDE DEF d
    <3>2. (probe * n + d) \div n = probe
      BY <1>0, <3>1, Parts
    <3> QED  BY <2>2, <2>3, <3>1, <3>2
  <2>5. s[i] = IF i \in q + level .. q + n - 1 THEN store[i] - scale * store[level * n + c] ELSE store[i]
    BY <2>2 DEF ProbedStore
  <2> HIDE DEF s, i, q
  <2>6. CASE r = probe /\ c >= level
    <3>1. i \in q + level .. q + n - 1
      BY <1>0, <2>2, <2>3, <2>6
    <3> QED  BY <2>5, <2>6, <3>1 DEF i
  <2>7. CASE ~(r = probe /\ c >= level)
    <3>1. i \notin q + level .. q + n - 1
      BY <1>0, <2>2, <2>4, <2>7
    <3> QED  BY <2>5, <2>7, <3>1 DEF i
  <2> QED  BY <2>6, <2>7 DEF i
<1> QED  BY <1>2, <1>3 DEF Probed

(* A probe, case by case.                                                   *)
LEMMA ProbeIs ==
    ASSUME NEW n \in 0 .. Dim, NEW s \in Eliminations,
           NEW level \in 0 .. n - 1, NEW probe \in 0 .. n - 1, NEW t, t = Probe(s, level, probe, n)
    PROVE  /\ t \in Eliminations
           /\ \/ t = s /\ (s.stopped \/ s.store[probe * n + level] = 0)
              \/ t.stopped
              \/ \E scale \in Int :
                   /\ ~s.stopped
                   /\ t.store = ProbedStore(s.store, level, probe, n, scale)
                   /\ t.exact => /\ s.exact
                                 /\ scale * s.store[level * n + level] = s.store[probe * n + level]
<1> DEFINE below == s.store[probe * n + level]
           scale == Quotient(below, s.base_value)
           ok == s.exact /\ s.base_value = s.store[level * n + level] /\ scale * s.base_value = below
<1>1. /\ s.store \in [Store -> Int] /\ s.base_value \in Int /\ s.exact \in BOOLEAN /\ s.stopped \in BOOLEAN
      /\ s = [store |-> s.store, base_value |-> s.base_value, exact |-> s.exact, stopped |-> s.stopped]
  BY DEF Eliminations
<1>2. below \in Int
  BY <1>1, GridIs
<1>3. t = IF below = 0 \/ s.stopped THEN s
          ELSE IF s.base_value = 0 THEN [s EXCEPT !.stopped = TRUE]
          ELSE [stopped |-> FALSE, base_value |-> scale * s.store[level * n + n - 1],
                exact |-> ok,
                store |-> ProbedStore(s.store, level, probe, n, scale)]
  BY DEF Probe, ProbedStore
<1>0. ok \in BOOLEAN
  BY <1>1
<1> HIDE DEF below, scale, ok
<1>4. CASE below = 0 \/ s.stopped
  BY <1>3, <1>4 DEF below
<1>5. CASE ~(below = 0 \/ s.stopped) /\ s.base_value = 0
  <2>1. t = [s EXCEPT !.stopped = TRUE]
    BY <1>3, <1>5
  <2> QED  BY <1>1, <2>1 DEF Eliminations
<1>6. CASE ~(below = 0 \/ s.stopped) /\ s.base_value # 0
  <2>1. scale \in Int
    BY <1>1, <1>2, <1>6, QuotientIsInt DEF scale
  <2>2. scale * s.store[level * n + n - 1] \in Int
    <3>1. n - 1 \in 0 .. n - 1 /\ level * n + (n - 1) = level * n + n - 1
      BY DimFacts
    <3>2. s.store[level * n + (n - 1)] \in Int
      BY <1>1, <3>1, GridIs
    <3>3. s.store[level * n + n - 1] \in Int
      BY <3>1, <3>2
    <3> QED  BY <2>1, <3>3
  <2>3. ProbedStore(s.store, level, probe, n, scale) \in [Store -> Int]
    BY <1>1, <2>1, ProbedStoreIs
  <2>4. t = [stopped |-> FALSE, base_value |-> scale * s.store[level * n + n - 1],
             exact |-> ok,
             store |-> ProbedStore(s.store, level, probe, n, scale)]
    BY <1>3, <1>6
  <2>5. t \in Eliminations
    BY <1>0, <1>1, <2>2, <2>3, <2>4 DEF Eliminations
  <2>6. /\ ~s.stopped /\ t.store = ProbedStore(s.store, level, probe, n, scale)
        /\ t.exact => s.exact /\ scale * s.store[level * n + level] = s.store[probe * n + level]
    <3>1. ~s.stopped /\ t.store = ProbedStore(s.store, level, probe, n, scale)
      BY <1>6, <2>4
    <3>2. t.exact => s.exact /\ s.base_value = s.store[level * n + level] /\ scale * s.base_value = below
      <4>1. t.exact = ok
        BY <2>4
      <4>2. ok => s.exact /\ s.base_value = s.store[level * n + level] /\ scale * s.base_value = below
        BY DEF ok
      <4> QED  BY <4>1, <4>2
    <3>3. ASSUME s.base_value = s.store[level * n + level], scale * s.base_value = below
          PROVE  scale * s.store[level * n + level] = s.store[probe * n + level]
      BY <3>3 DEF below
    <3> QED  BY <3>1, <3>2, <3>3
  <2> QED  BY <2>1, <2>5, <2>6
<1> QED  BY <1>4, <1>5, <1>6

\* What the elimination keeps up to step i: while every quotient is exact, the
\* determinant, and the zeros below the diagonal that the steps before made.
Keeps(s, i, store, n) ==
  /\ s \in Eliminations
  /\ s.exact /\ ~s.stopped =>
        /\ Determinant(Grid(s.store, n), n) = Determinant(Grid(store, n), n)
        /\ \A l, r \in 0 .. n - 1 : l < r /\ l * n + r < i => s.store[r * n + l] = 0

(* An earlier place in the walk is that of a smaller column, or of the same
   column and a smaller row.                                                 *)
LEMMA WalkOrder ==
    ASSUME NEW n \in Nat, NEW l \in 0 .. n - 1, NEW r \in 0 .. n - 1,
           NEW level \in 0 .. n - 1, NEW probe \in 0 .. n - 1
    PROVE  /\ l * n + r < level * n + probe <=> (l < level \/ (l = level /\ r < probe))
           /\ l * n + r = level * n + probe <=> (l = level /\ r = probe)
<1>1. l * n \in Nat /\ level * n \in Nat /\ l \in Nat /\ level \in Nat /\ r \in Nat /\ probe \in Nat
      /\ r < n /\ probe < n
  OBVIOUS
<1>2. CASE l < level
  <2>1. (l + 1) * n <= level * n /\ (l + 1) * n = l * n + n
    BY <1>1, <1>2, Times
  <2> DEFINE u == l * n
             v == level * n
  <2> HIDE DEF u, v
  <2>2. u \in Nat /\ v \in Nat /\ u + n <= v
    BY <1>1, <2>1 DEF u, v
  <2>3. u + r < v + probe
    BY <1>1, <2>2
  <2>4. l * n + r < level * n + probe /\ l * n + r # level * n + probe
    BY <1>1, <2>2, <2>3 DEF u, v
  <2> QED  BY <1>2, <2>4
<1>3. CASE l = level
  <2> DEFINE u == level * n
  <2> HIDE DEF u
  <2>1. u \in Nat
    BY <1>1 DEF u
  <2>2. u + r < u + probe <=> r < probe
    BY <1>1, <2>1
  <2>3. u + r = u + probe <=> r = probe
    BY <1>1, <2>1
  <2> QED  BY <1>3, <2>2, <2>3 DEF u
<1>4. CASE l > level
  <2>1. (level + 1) * n <= l * n /\ (level + 1) * n = level * n + n
    BY <1>1, <1>4, Times
  <2> DEFINE u == l * n
             v == level * n
  <2> HIDE DEF u, v
  <2>2. u \in Nat /\ v \in Nat /\ v + n <= u
    BY <1>1, <2>1 DEF u, v
  <2>3. v + probe < u + r
    BY <1>1, <2>2
  <2>4. ~(l * n + r < level * n + probe) /\ l * n + r # level * n + probe
    BY <1>1, <2>2, <2>3 DEF u, v
  <2> QED  BY <1>1, <1>4, <2>4
<1> QED  BY <1>1, <1>2, <1>3, <1>4

(* A probe that subtracts an exact multiple keeps the determinant and the
   zeros, and makes one more (matrix.c:421-433).                             *)
LEMMA ProbeKeeps ==
    ASSUME NEW n \in 0 .. Dim, NEW store \in [Store -> Int], NEW s,
           NEW level \in 0 .. n - 1, NEW probe \in 0 .. n - 1, level < probe,
           Keeps(s, level * n + probe, store, n)
    PROVE  Keeps(Probe(s, level, probe, n), level * n + probe + 1, store, n)
<1> DEFINE t == Probe(s, level, probe, n)
           i == level * n + probe
           I == 0 .. n - 1
<1>0. n \in Nat /\ s \in Eliminations /\ s.store \in [Store -> Int]
  BY DimFacts DEF Keeps, Eliminations
<1>1. /\ t \in Eliminations
      /\ \/ t = s /\ (s.stopped \/ s.store[probe * n + level] = 0)
         \/ t.stopped
         \/ \E scale \in Int :
              /\ ~s.stopped
              /\ t.store = ProbedStore(s.store, level, probe, n, scale)
              /\ t.exact => /\ s.exact
                            /\ scale * s.store[level * n + level] = s.store[probe * n + level]
  BY <1>0, ProbeIs
<1>2. i \in Nat /\ \A l, r \in I : l * n + r \in Nat
  BY <1>0
<1> HIDE DEF t
<1>3. ASSUME t.exact, ~t.stopped
      PROVE  /\ Determinant(Grid(t.store, n), n) = Determinant(Grid(store, n), n)
             /\ \A l, r \in I : l < r /\ l * n + r < i + 1 => t.store[r * n + l] = 0
  <2>1. s.exact /\ ~s.stopped
    BY <1>1, <1>3
  <2>2. /\ Determinant(Grid(s.store, n), n) = Determinant(Grid(store, n), n)
        /\ \A l, r \in I : l < r /\ l * n + r < i => s.store[r * n + l] = 0
    BY <2>1 DEF Keeps
  <2>3. ASSUME NEW l \in I, NEW r \in I, l * n + r < i + 1
        PROVE  l * n + r < i \/ (l = level /\ r = probe)
    <3>1. l * n + r < i \/ l * n + r = i
      <4> HIDE DEF i
      <4> QED  BY <1>2, <2>3
    <3> QED  BY <1>0, <3>1, WalkOrder
  <2>4. CASE t = s /\ s.store[probe * n + level] = 0
    BY <2>2, <2>3, <2>4
  <2>5. CASE \E scale \in Int :
               /\ t.store = ProbedStore(s.store, level, probe, n, scale)
               /\ scale * s.store[level * n + level] = s.store[probe * n + level]
    <3>1. PICK scale \in Int :
               /\ t.store = ProbedStore(s.store, level, probe, n, scale)
               /\ scale * s.store[level * n + level] = s.store[probe * n + level]
      BY <2>5
    <3>2. /\ t.store \in [Store -> Int]
          /\ \A r, c \in I :
                t.store[r * n + c] =
                   IF r = probe /\ c >= level THEN s.store[r * n + c] - scale * s.store[level * n + c]
                   ELSE s.store[r * n + c]
      <4>1. PICK st \in [Store -> Int] : st = s.store
        BY <1>0
      <4>2. PICK u : u = ProbedStore(st, level, probe, n, scale)
        OBVIOUS
      <4>3. u \in [Store -> Int] /\ Probed(u, st, level, probe, n, scale)
        BY <4>2, ProbedStoreIs
      <4>4. t.store = u
        BY <3>1, <4>1, <4>2
      <4> QED  BY <4>1, <4>3, <4>4 DEF Probed
    <3>3. /\ Square(Grid(s.store, n), n) /\ Square(Grid(t.store, n), n)
          /\ \A r, c \in I : Grid(s.store, n)[<<r, c>>] = s.store[r * n + c] /\ s.store[r * n + c] \in Int
      BY <1>0, <3>2, GridIs
    <3>4. \A r, c \in I : Grid(t.store, n)[<<r, c>>] = t.store[r * n + c]
      BY <3>2, GridIs
    <3>5. ASSUME NEW c \in I
          PROVE  Grid(t.store, n)[<<probe, c>>]
                    = Grid(s.store, n)[<<probe, c>>] - scale * Grid(s.store, n)[<<level, c>>]
      <4>1. /\ Grid(t.store, n)[<<probe, c>>] = t.store[probe * n + c]
            /\ Grid(s.store, n)[<<probe, c>>] = s.store[probe * n + c] /\ s.store[probe * n + c] \in Int
            /\ Grid(s.store, n)[<<level, c>>] = s.store[level * n + c]
        BY <3>3, <3>4
      <4>2. CASE c >= level
        <5>1. t.store[probe * n + c] = s.store[probe * n + c] - scale * s.store[level * n + c]
          BY <3>2, <4>2
        <5> QED  BY <4>1, <5>1
      <4>3. CASE ~(c >= level)
        <5>1. t.store[probe * n + c] = s.store[probe * n + c]
          BY <3>2, <4>3
        <5>2. c < level /\ c * n + level < i
          BY <1>0, <4>3, WalkOrder
        <5>3. s.store[level * n + c] = 0
          BY <2>2, <5>2
        <5> DEFINE v == s.store[probe * n + c]
        <5>4. v \in Int /\ scale * 0 = 0
          BY <4>1
        <5> HIDE DEF v
        <5>5. v = v - scale * 0
          BY <5>4
        <5> QED  BY <4>1, <5>1, <5>3, <5>5 DEF v
      <4> QED  BY <4>2, <4>3
    <3>6. ASSUME NEW r \in I \ {probe}, NEW c \in I
          PROVE  Grid(t.store, n)[<<r, c>>] = Grid(s.store, n)[<<r, c>>]
      <4>1. t.store[r * n + c] = s.store[r * n + c]
        BY <3>2
      <4> QED  BY <3>3, <3>4, <4>1
    <3>7. Determinant(Grid(t.store, n), n) = Determinant(Grid(s.store, n), n)
      <4> DEFINE e == Grid(s.store, n)
                 e2 == Grid(t.store, n)
      <4>1. /\ Square(e, n) /\ Square(e2, n)
            /\ \A c \in I : e2[<<probe, c>>] = e[<<probe, c>>] - scale * e[<<level, c>>]
            /\ \A r \in I \ {probe}, c \in I : e2[<<r, c>>] = e[<<r, c>>]
        BY <3>3, <3>5, <3>6
      <4> HIDE DEF e, e2
      <4>2. Determinant(e2, n) = Determinant(e, n)
        BY <1>0, <4>1, RowKeepsDeterminant
      <4> QED  BY <4>2 DEF e, e2
    <3>8. ASSUME NEW l \in I, NEW r \in I, l < r, l * n + r < i + 1
          PROVE  t.store[r * n + l] = 0
      <4>1. CASE l = level /\ r = probe
        <5>1. t.store[probe * n + level] = s.store[probe * n + level] - scale * s.store[level * n + level]
          BY <3>2
        <5>2. s.store[probe * n + level] \in Int
          BY <3>3
        <5> QED  BY <3>1, <4>1, <5>1, <5>2
      <4>2. CASE l * n + r < i
        <5>1. l < level \/ (l = level /\ r < probe)
          BY <1>0, <4>2, WalkOrder
        <5>2. t.store[r * n + l] = s.store[r * n + l]
          <6>1. ~(r = probe /\ l >= level)
            BY <5>1
          <6> QED  BY <3>2, <6>1
        <5>3. s.store[r * n + l] = 0
          BY <2>2, <3>8, <4>2
        <5> QED  BY <5>2, <5>3
      <4> QED  BY <2>3, <3>8, <4>1, <4>2
    <3> QED  BY <2>2, <3>7, <3>8
  <2> QED  BY <1>1, <1>3, <2>1, <2>4, <2>5
<1> QED  BY <1>1, <1>3 DEF Keeps, t

(* A step of the walk keeps the type of what the elimination keeps.         *)
LEMMA StepTyped ==
    ASSUME NEW n \in 1 .. Dim, NEW s \in Eliminations, NEW level \in 0 .. n - 1, NEW probe \in 0 .. n - 1
    PROVE  EliminateEntry(s, level, probe, n) \in Eliminations
<1>0. n \in 0 .. Dim
  BY DimFacts
<1>1. CASE probe = level
  <2>1. s.store[level * n + level] \in Int
    BY <1>0, GridIs DEF Eliminations
  <2>2. EliminateEntry(s, level, probe, n) = [s EXCEPT !.base_value = s.store[level * n + level]]
    BY <1>1 DEF EliminateEntry
  <2> QED  BY <2>1, <2>2 DEF Eliminations
<1>2. CASE probe # level
  <2>1. PICK t : t = Probe(s, level, probe, n)
    OBVIOUS
  <2>2. t \in Eliminations
    BY <1>0, <2>1, ProbeIs
  <2>3. EliminateEntry(s, level, probe, n) = IF probe > level THEN t ELSE s
    BY <1>2, <2>1 DEF EliminateEntry
  <2> QED  BY <2>2, <2>3
<1> QED  BY <1>1, <1>2

(* A step of the walk keeps the determinant and the zeros (matrix.c:405-435). *)
LEMMA StepKeeps ==
    ASSUME NEW n \in 1 .. Dim, NEW store \in [Store -> Int], NEW s,
           NEW level \in 0 .. n - 1, NEW probe \in 0 .. n - 1,
           Keeps(s, level * n + probe, store, n)
    PROVE  Keeps(EliminateEntry(s, level, probe, n), level * n + probe + 1, store, n)
<1>0. n \in 0 .. Dim /\ n \in Nat
  BY DimFacts
<1>1. CASE level < probe
  <2>1. EliminateEntry(s, level, probe, n) = Probe(s, level, probe, n)
    BY <1>1 DEF EliminateEntry
  <2> QED  BY <1>0, <1>1, <2>1, ProbeKeeps
<1>2. CASE ~(level < probe)
  <2>1. PICK t : t = EliminateEntry(s, level, probe, n)
    OBVIOUS
  <2>2. s \in Eliminations /\ t \in Eliminations
    BY <2>1, StepTyped DEF Keeps
  <2>3. t.store = s.store /\ t.exact = s.exact /\ t.stopped = s.stopped
    <3>1. CASE probe = level
      <4>1. t = [s EXCEPT !.base_value = s.store[level * n + level]]
        BY <2>1, <3>1 DEF EliminateEntry
      <4> QED  BY <2>2, <4>1 DEF Eliminations
    <3>2. CASE probe # level
      BY <1>2, <2>1, <3>2 DEF EliminateEntry
    <3> QED  BY <3>1, <3>2
  <2>4. ASSUME NEW l \in 0 .. n - 1, NEW r \in 0 .. n - 1, l < r, l * n + r < level * n + probe + 1
        PROVE  l * n + r < level * n + probe
    <3>1. l * n + r # level * n + probe
      BY <1>0, <1>2, <2>4, WalkOrder
    <3> DEFINE u == l * n + r
               v == level * n + probe
    <3>2. u \in Int /\ v \in Int /\ u # v /\ u < v + 1
      BY <1>0, <2>4, <3>1
    <3> HIDE DEF u, v
    <3>3. u < v
      BY <3>2
    <3> QED  BY <3>3 DEF u, v
  <2>5. ASSUME t.exact, ~t.stopped
        PROVE  /\ Determinant(Grid(t.store, n), n) = Determinant(Grid(store, n), n)
               /\ \A l, r \in 0 .. n - 1 : l < r /\ l * n + r < level * n + probe + 1 => t.store[r * n + l] = 0
    <3>1. s.exact /\ ~s.stopped
      BY <2>3, <2>5
    <3>2. /\ Determinant(Grid(s.store, n), n) = Determinant(Grid(store, n), n)
          /\ \A l, r \in 0 .. n - 1 : l < r /\ l * n + r < level * n + probe => s.store[r * n + l] = 0
      BY <3>1 DEF Keeps
    <3> QED  BY <2>3, <2>4, <3>2
  <2> QED  BY <2>1, <2>2, <2>5 DEF Keeps
<1> QED  BY <1>1, <1>2

\* g holds what the elimination keeps after each step of the walk.
IsElimination(g, store, n) ==
  g = [i \in 0 .. n * n |->
         IF i = 0 THEN [store |-> store, base_value |-> 0, exact |-> TRUE, stopped |-> FALSE]
         ELSE EliminateEntry(g[i - 1], (i - 1) \div n, (i - 1) % n, n)]

(* The row and the column a step of the walk is at.                         *)
LEMMA StepPlace ==
    ASSUME NEW n \in 1 .. Dim, NEW i \in 0 .. n * n, i # 0
    PROVE  /\ (i - 1) \div n \in 0 .. n - 1 /\ (i - 1) % n \in 0 .. n - 1
           /\ ((i - 1) \div n) * n + ((i - 1) % n) = i - 1
           /\ i - 1 \in 0 .. n * n
<1>1. n \in 0 .. Dim /\ Dim \in Nat /\ n \in Nat /\ Store = 0 .. Dim * Dim - 1 /\ Dim * Dim \in Nat
  BY DimFacts
<1>2. n * n <= Dim * n /\ n * Dim <= Dim * Dim /\ Dim * n = n * Dim /\ n * n \in Nat /\ Dim * n \in Nat
  BY <1>1, Times
<1> DEFINE u == n * n
           w == Dim * Dim
           j == i - 1
<1>3. u \in Nat /\ w \in Nat /\ u <= w
  BY <1>1, <1>2
<1> HIDE DEF u, w
<1>4. i \in 0 .. u
  BY DEF u
<1>5. j \in 0 .. w - 1 /\ j < u /\ j \in 0 .. u
  BY <1>3, <1>4
<1>6. j \in Store /\ j < n * n
  BY <1>1, <1>5 DEF u, w
<1> HIDE DEF j
<1>7. j \div n \in 0 .. n - 1 /\ j % n \in 0 .. n - 1 /\ (j \div n) * n + (j % n) = j
  BY <1>1, <1>6, PlaceOf
<1> QED  BY <1>5, <1>7 DEF j, u

(* The walk exists.                                                         *)
LEMMA EliminationExists ==
    ASSUME NEW n \in 1 .. Dim, NEW store \in [Store -> Int]
    PROVE  \E g : IsElimination(g, store, n)
<1> DEFINE N == n * n
           start == [store |-> store, base_value |-> 0, exact |-> TRUE, stopped |-> FALSE]
           Entry(s, i) == EliminateEntry(s, (i - 1) \div n, (i - 1) % n, n)
           Upto(k) == \E g \in [0 .. N -> Eliminations] : \A i \in 0 .. N : i <= k =>
                g[i] = IF i = 0 THEN start ELSE Entry(g[i - 1], i)
           T == {k \in Nat : ~Upto(k)}
<1>1. start \in Eliminations /\ N \in Nat
  BY DimFacts DEF Eliminations
<1>2. ASSUME NEW i \in 0 .. N, i # 0
      PROVE  i - 1 \in 0 .. N /\ \A s \in Eliminations : Entry(s, i) \in Eliminations
  BY <1>2, StepPlace, StepTyped
<1> HIDE DEF start, Entry, N
<1>3. ASSUME T # {}  PROVE FALSE
  <2>1. PICK k \in T : \A m \in T : k <= m
    <3> HIDE DEF Upto
    <3>1. T \in SUBSET Nat
      OBVIOUS
    <3> HIDE DEF T
    <3> QED  BY <1>3, <3>1, LeastNatural
  <2>2. k \in Nat /\ ~Upto(k)
    OBVIOUS
  <2>3. CASE k = 0
    <3> DEFINE z == [i \in 0 .. N |-> start]
    <3>1. z \in [0 .. N -> Eliminations]
      BY <1>1
    <3>2. \A i \in 0 .. N : i <= 0 => z[i] = IF i = 0 THEN start ELSE Entry(z[i - 1], i)
      OBVIOUS
    <3> HIDE DEF z
    <3> QED  BY <2>2, <2>3, <3>1, <3>2
  <2>4. CASE k # 0
    <3>1. k - 1 \in Nat /\ k - 1 \notin T
      <4> HIDE DEF T
      <4> QED  BY <2>1, <2>2, <2>4
    <3>2. Upto(k - 1)
      <4> HIDE DEF Upto
      <4> QED  BY <3>1
    <3>3. PICK g \in [0 .. N -> Eliminations] : \A i \in 0 .. N : i <= k - 1 =>
              g[i] = IF i = 0 THEN start ELSE Entry(g[i - 1], i)
      BY <3>2
    <3> DEFINE h == [i \in 0 .. N |-> IF i = 0 THEN start ELSE Entry(g[i - 1], i)]
    <3>4. h \in [0 .. N -> Eliminations]
      <4>1. ASSUME NEW i \in 0 .. N, i # 0  PROVE Entry(g[i - 1], i) \in Eliminations
        <5>1. g[i - 1] \in Eliminations
          BY <1>2, <4>1
        <5> QED  BY <1>2, <4>1, <5>1
      <4> QED  BY <1>1, <4>1
    <3>5. ASSUME NEW i \in 0 .. N, i <= k
          PROVE  h[i] = IF i = 0 THEN start ELSE Entry(h[i - 1], i)
      <4>1. CASE i # 0
        <5>1. i - 1 \in 0 .. N /\ i - 1 <= k - 1
          <6> HIDE DEF T, h, Upto
          <6> QED  BY <1>1, <2>2, <3>5, <4>1
        <5>2. h[i] = Entry(g[i - 1], i)
          BY <4>1
        <5>3. h[i - 1] = g[i - 1]
          BY <3>3, <5>1
        <5> QED  BY <4>1, <5>2, <5>3
      <4> QED  BY <4>1
    <3> HIDE DEF h
    <3> QED  BY <2>2, <3>4, <3>5
  <2> QED  BY <2>3, <2>4
<1>4. Upto(N)
  <2> HIDE DEF Upto
  <2> QED  BY <1>1, <1>3
<1>5. PICK g \in [0 .. N -> Eliminations] : \A i \in 0 .. N : i <= N =>
          g[i] = IF i = 0 THEN start ELSE Entry(g[i - 1], i)
  BY <1>4
<1>6. \A i \in 0 .. N : i <= N
  BY <1>1
<1>7. g = [i \in 0 .. N |-> IF i = 0 THEN start ELSE Entry(g[i - 1], i)]
  BY <1>5, <1>6
<1>8. IsElimination(g, store, n)
  BY <1>7 DEF IsElimination, start, Entry, N
<1> QED  BY <1>8

(* What the elimination keeps, through the whole walk.                      *)
LEMMA EliminationKeeps ==
    ASSUME NEW n \in 1 .. Dim, NEW store \in [Store -> Int]
    PROVE  Keeps(Eliminate(store, n), n * n, store, n)
<1>1. PICK g : IsElimination(g, store, n) /\ Eliminate(store, n) = g[n * n]
  <2> DEFINE g == CHOOSE h : IsElimination(h, store, n)
  <2>1. IsElimination(g, store, n)
    BY EliminationExists
  <2>2. Eliminate(store, n) = g[n * n]
    BY DEF Eliminate, IsElimination
  <2> HIDE DEF g
  <2> QED  BY <2>1, <2>2
<1> DEFINE N == n * n
           T == {k \in Nat : k <= N /\ ~Keeps(g[k], k, store, n)}
<1>2. N \in Nat /\ n \in 0 .. Dim /\ n \in Nat
  BY DimFacts
<1>3. g[0] = [store |-> store, base_value |-> 0, exact |-> TRUE, stopped |-> FALSE]
  <2>1. 0 \in 0 .. n * n
    BY <1>2
  <2> QED  BY <1>1, <2>1 DEF IsElimination
<1>4. ASSUME NEW i \in 0 .. n * n, i # 0
      PROVE  g[i] = EliminateEntry(g[i - 1], (i - 1) \div n, (i - 1) % n, n)
  BY <1>1, <1>4 DEF IsElimination
<1>5. Keeps(g[0], 0, store, n)
  <2>1. g[0] \in Eliminations /\ g[0].store = store
    BY <1>3 DEF Eliminations
  <2>2. \A l, r \in 0 .. n - 1 : ~(l * n + r < 0)
    BY <1>2
  <2> QED  BY <2>1, <2>2 DEF Keeps
<1>6. ASSUME T # {}  PROVE FALSE
  <2>1. PICK k \in T : \A m \in T : k <= m
    <3>1. T \in SUBSET Nat
      OBVIOUS
    <3> HIDE DEF T
    <3> QED  BY <1>6, <3>1, LeastNatural
  <2>2. k \in Nat /\ k <= N /\ ~Keeps(g[k], k, store, n)
    OBVIOUS
  <2>3. k # 0
    BY <1>5, <2>2
  <2>4. k \in 0 .. n * n /\ k - 1 \in Nat
    <3> HIDE DEF T
    <3> QED  BY <1>2, <2>2, <2>3
  <2>5. Keeps(g[k - 1], k - 1, store, n)
    <3>1. k - 1 \notin T
      <4> HIDE DEF T
      <4> QED  BY <2>1, <2>2, <2>4
    <3>2. k - 1 <= N
      <4> HIDE DEF T
      <4> QED  BY <1>2, <2>2
    <3> QED  BY <2>4, <3>1, <3>2
  <2>6. PICK level \in 0 .. n - 1, probe \in 0 .. n - 1 :
          level = (k - 1) \div n /\ probe = (k - 1) % n /\ level * n + probe = k - 1
    BY <2>3, <2>4, StepPlace
  <2>7. g[k] = EliminateEntry(g[k - 1], level, probe, n)
    BY <1>4, <2>3, <2>4, <2>6
  <2>8. k - 1 + 1 = k
    <3> HIDE DEF T
    <3> QED  BY <2>2
  <2> HIDE DEF T
  <2>9. Keeps(g[k - 1], level * n + probe, store, n)
    BY <2>5, <2>6
  <2>10. Keeps(EliminateEntry(g[k - 1], level, probe, n), level * n + probe + 1, store, n)
    BY <2>9, StepKeeps
  <2> QED  BY <2>2, <2>6, <2>7, <2>8, <2>10
<1>7. Keeps(g[N], N, store, n)
  BY <1>2, <1>6
<1> QED  BY <1>1, <1>7

(* DeterminantValue gives the determinant of a square matrix, where every
   quotient it takes is exact (matrix.c:401-461).                            *)
LEMMA DeterminantRight ==
    ASSUME MatrixTypes, MatrixRight, NEW x \in Matrices, DeterminantValue(x)
    PROVE  MatrixTypes' /\ MatrixRight'
<1>0. PICK in1 : in1 = [matrix[x] EXCEPT !.rows = matrix[x].columns]
  OBVIOUS
<1>1. PICK done : done = Eliminate(in1.store, in1.rows)
  OBVIOUS
<1> DEFINE n == in1.rows
           I == 0 .. n - 1
           f == [k \in I |-> done.store[k * n + k]]
           want == IF matrix[x] = in1 /\ done.exact THEN Number(Determinant(Entries(in1), n)) ELSE Unsaid
<1>2. /\ Filled(x)
      /\ IF done.stopped
         THEN Trapped
         ELSE Gives(x, in1, ProductOf(f), want)
  BY <1>0, <1>1 DEF DeterminantValue
<1>3. /\ Shaped(in1) /\ n \in 1 .. Dim /\ n \in 0 .. Dim /\ in1.columns = n
      /\ in1.store \in [Store -> Int]
  BY <1>0, <1>2, SquareShaped
<1>4. CASE done.stopped
  BY <1>2, <1>4, TrapRight
<1>5. CASE ~done.stopped
  <2>1. Keeps(done, n * n, in1.store, n)
    BY <1>1, <1>3, EliminationKeeps
  <2>2. done.store \in [Store -> Int]
    BY <2>1 DEF Keeps, Eliminations
  <2>3. /\ Square(Grid(done.store, n), n)
        /\ \A r, c \in I : Grid(done.store, n)[<<r, c>>] = done.store[r * n + c] /\ done.store[r * n + c] \in Int
    BY <1>3, <2>2, GridIs
  <2>4. IsFiniteSet(I) /\ n \in Nat
    BY <1>3, DimFacts, RangeFinite
  <2>5. f \in [I -> Int]
    BY <2>3
  <2>6. f = [i \in I |-> Grid(done.store, n)[<<i, i>>]]
    BY <2>3
  <2>7. ProductOf(f) \in Int
    <3> HIDE DEF f, I
    <3>1. PICK g : IsProduct(g, f, I) /\ ProductOf(f) = g[I]
      BY <2>4, <2>5, ProductOfIs
    <3>2. Multiplies(g, f, I)
      BY <2>4, <2>5, <3>1, ProductIs
    <3> QED  BY <3>1, <3>2 DEF Multiplies
  <2>8. ASSUME matrix[x] = in1, done.exact
        PROVE  Determinant(Entries(in1), n) = ProductOf(f)
    <3>1. /\ Determinant(Grid(done.store, n), n) = Determinant(Grid(in1.store, n), n)
          /\ \A l, r \in I : l < r /\ l * n + r < n * n => done.store[r * n + l] = 0
      BY <1>5, <2>1, <2>8 DEF Keeps
    <3>2. Grid(in1.store, n) = Entries(in1)
      BY <1>3, EntriesAre DEF Grid
    <3>3. ASSUME NEW r \in I, NEW c \in I, r > c
          PROVE  Grid(done.store, n)[<<r, c>>] = 0
      <4>1. InPlace(c, r, n, n)
        BY <1>3, PlaceInStore
      <4>2. c < r /\ c * n + r < n * n
        BY <3>3, <4>1 DEF InPlace
      <4> QED  BY <2>3, <3>1, <4>2
    <3> DEFINE e == Grid(done.store, n)
    <3>4. Square(e, n) /\ \A r, c \in I : r > c => e[<<r, c>>] = 0
      BY <2>3, <3>3
    <3>5. f = [i \in I |-> e[<<i, i>>]]
      BY <2>6
    <3> HIDE DEF e, f
    <3>6. Determinant(e, n) = ProductOf([i \in I |-> e[<<i, i>>]])
      BY <2>4, <3>4, TriangularDeterminant
    <3> QED  BY <3>1, <3>2, <3>5, <3>6 DEF e
  <2>9. want = Unsaid \/ want = Number(ProductOf(f))
    <3> HIDE DEF f
    <3> QED  BY <2>8
  <2> HIDE DEF f, want
  <2> QED  BY <1>2, <1>3, <1>5, <2>7, <2>9, GivesRight
<1> QED  BY <1>4, <1>5

(* The matrices the caller has not filled yet.                              *)
LEMMA MatrixStart == MatrixInit => MatrixTypes /\ MatrixRight
<1> SUFFICES ASSUME MatrixInit PROVE MatrixTypes /\ MatrixRight
  OBVIOUS
<1>1. MatrixTypes
  <2> DEFINE zero == [rows |-> 0, columns |-> 0, store |-> [i \in Store |-> 0]]
  <2>1. zero \in [rows : 0 .. Dim, columns : 0 .. Dim, store : [Store -> Int]] /\ zero.rows = 0 /\ zero.columns = 0
    BY DimFacts
  <2>2. matrix = [x \in Matrices |-> zero]
    BY DEF MatrixInit
  <2> HIDE DEF zero
  <2>3. \A x \in Matrices : Shaped(matrix[x])
    BY <2>1, <2>2 DEF Shaped
  <2>4. return_value \in Int /\ trapped \in BOOLEAN /\ output \in Matrices /\ calls \in 0 .. MaxCalls
    <3>1. calls = 0 /\ return_value = 0 /\ trapped = FALSE /\ output \in Matrices
      BY DEF MatrixInit
    <3>2. calls \in 0 .. MaxCalls
      BY <3>1, DimFacts
    <3>3. trapped \in BOOLEAN
      BY <3>1
    <3> QED  BY <3>1, <3>2, <3>3
  <2> QED  BY <2>1, <2>2, <2>3, <2>4 DEF MatrixTypes
<1>2. MatrixRight
  BY DEF MatrixInit, MatrixRight, ResultRight
<1> QED  BY <1>1, <1>2

(* Every call keeps the types, and the result of the last call is right.    *)
LEMMA MatrixStep ==
    ASSUME MatrixTypes, MatrixRight, [MatrixNext]_matrixVars
    PROVE  MatrixTypes' /\ MatrixRight'
<1>1. ASSUME NEW z \in Matrices, NEW row \in Dimensions, NEW column \in Dimensions,
             NEW data_array \in DataArrays, MatrixCreate(z, row, column, data_array)
      PROVE  MatrixTypes' /\ MatrixRight'
  BY <1>1, CreateRight
<1>2. ASSUME NEW z \in Matrices, NEW dimension \in Dimensions, UnitMatrixCreate(z, dimension)
      PROVE  MatrixTypes' /\ MatrixRight'
  BY <1>2, UnitRight
<1>3. ASSUME NEW z \in Matrices, NEW halves \in Halves, MatrixScale(z, halves)
      PROVE  MatrixTypes' /\ MatrixRight'
  BY <1>3, ScaleRight
<1>4. ASSUME NEW z \in Matrices, MatrixTrace(z)
      PROVE  MatrixTypes' /\ MatrixRight'
  BY <1>4, TraceRight
<1>5. ASSUME NEW z \in Matrices, DeterminantValue(z)
      PROVE  MatrixTypes' /\ MatrixRight'
  BY <1>5, DeterminantRight
<1>6. ASSUME NEW x \in Matrices, NEW z \in Matrices, MatrixTranspose(x, z)
      PROVE  MatrixTypes' /\ MatrixRight'
  BY <1>6, TransposeRight
<1>7. ASSUME NEW x \in Matrices, NEW z \in Matrices,
             NEW end_row \in 0 .. matrix[x].rows, NEW end_column \in 0 .. matrix[x].columns,
             NEW start_row \in 0 .. end_row, NEW start_column \in 0 .. end_column,
             GetChildMatrix(x, start_row, end_row, start_column, end_column, z)
      PROVE  MatrixTypes' /\ MatrixRight'
  BY <1>7, ChildRight
<1>8. ASSUME NEW x \in Matrices, NEW y \in Matrices, NEW z \in Matrices,
             MatrixAdd(x, y, z) \/ MatrixSubtraction(x, y, z)
      PROVE  MatrixTypes' /\ MatrixRight'
  BY <1>8, AddRight, SubtractionKeeps
<1>9. ASSUME NEW x \in Matrices, NEW y \in Matrices, NEW z \in Matrices, MatrixMultiplication(x, y, z)
      PROVE  MatrixTypes' /\ MatrixRight'
  BY <1>9, MultiplicationRight
<1>10. CASE UNCHANGED matrixVars
  <2>1. MatrixTypes'
    BY <1>10 DEF matrixVars, MatrixTypes, Shaped
  <2>2. MatrixRight'
    BY <1>10 DEF matrixVars, MatrixRight, ResultRight, Entries, GetMatrixValue, Index, Places, Number
  <2> QED  BY <2>1, <2>2
<1>11. CASE MatrixNext
  BY <1>1, <1>2, <1>3, <1>4, <1>5, <1>6, <1>7, <1>8, <1>9, <1>11 DEF MatrixNext
<1> QED  BY <1>10, <1>11

(* A call gives the sum, the product, the part, the multiple, the transpose,
   the trace or the determinant of its operands, through any chain of calls;
   and a call whose output is one of its operands, too, reads and writes
   inside the store and leaves integers and shapes within the bound
   (matrix.c:34-461).  Of MatrixSubtraction only the latter is claimed: it
   adds.                                                                     *)
THEOREM MatrixResults == MatrixSpec => [](MatrixTypes /\ MatrixRight)
<1>1. MatrixInit => MatrixTypes /\ MatrixRight
  BY MatrixStart
<1>2. MatrixTypes /\ MatrixRight /\ [MatrixNext]_matrixVars => MatrixTypes' /\ MatrixRight'
  BY MatrixStep
<1> QED  BY <1>1, <1>2, PTL DEF MatrixSpec

-----------------------------------------------------------------------------
(* A behaviour of the library is one of each part: the part it uses takes its
   steps, and the others stay as their memory starts.                        *)
LEMMA PartsRun ==
    LibrarySpec => /\ SemaphoreSpec /\ Spec /\ HashSpec /\ TreeSpec
                   /\ DesSpec /\ NicSpec /\ MatrixSpec
<1>1. LibraryInit => /\ SemaphoreInit /\ Init /\ InitHashlist /\ BuildRadixTree
                     /\ DesInit /\ NicInit /\ MatrixInit
  BY DEF LibraryInit
<1>2. [LibraryNext]_libraryVars => [SemaphoreNext]_semaphoreVars
  BY DEF LibraryNext, libraryVars
<1>3. [LibraryNext]_libraryVars => [Next]_vars
  BY DEF LibraryNext, libraryVars
<1>4. [LibraryNext]_libraryVars => [HashNext]_hashVars
  BY DEF LibraryNext, libraryVars
<1>5. [LibraryNext]_libraryVars => [TreeNext]_treeVars
  BY DEF LibraryNext, libraryVars
<1>6. [LibraryNext]_libraryVars => [DesNext]_desVars
  BY DEF LibraryNext, libraryVars
<1>7. [LibraryNext]_libraryVars => [NicNext]_nicVars
  BY DEF LibraryNext, libraryVars
<1>8. [LibraryNext]_libraryVars => [MatrixNext]_matrixVars
  BY DEF LibraryNext, libraryVars
<1> QED
  BY <1>1, <1>2, <1>3, <1>4, <1>5, <1>6, <1>7, <1>8, PTL
     DEF LibrarySpec, SemaphoreSpec, Spec, HashSpec, TreeSpec, DesSpec, NicSpec, MatrixSpec

(* Every part keeps its types, whichever part runs.                         *)
THEOREM LibraryTypeCorrect == LibrarySpec => []LibraryTypeOK
<1>1. SemaphoreTypeOK /\ TypeOK /\ HashTypeOK /\ TreeTypeOK /\ DesTypeOK => LibraryTypeOK
  BY DEF LibraryTypeOK
<1> QED
  BY <1>1, PartsRun, SemaphoreTypeCorrect, ListTypeCorrect, HashTypeCorrect,
     TreeTypeCorrect, DesTypeCorrect, PTL

(* What is proved of the parts holds of the library: no wake-up of its
   semaphore is lost and its debt is bounded, the links of its list and
   the chains of its hash list are in order, its tree is a map, its cipher
   inverts itself, its device lists are freed, its matrix calls give what they
   are to give, and its list is a sequence.                                  *)
THEOREM LibraryHoldsTogether ==
    LibrarySpec => /\ [](/\ NoLostWakeup /\ BoundedDebt /\ LinksOK /\ ChainsOK
                        /\ TreeIsMap /\ RoundTrip /\ NicRight /\ MatrixRight)
                   /\ ImplementsSequence
  BY PartsRun, NoWakeupIsLost, DebtIsBounded, ListLinks, HashChains, TreeImplementsMap,
     DecryptionReturnsTheMessage, ListsFreedHandlesSet, MatrixResults, ListIsSequence, PTL
=============================================================================
