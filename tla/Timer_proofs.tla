---------------------------- MODULE Timer_proofs ----------------------------
(***************************************************************************)
(* The invariants of Timer for every wheel size, number of wheels and       *)
(* number of tasks.                                                         *)
(***************************************************************************)
EXTENDS Timer, FiniteSetTheorems, SequenceTheorems, WellFoundedInduction, TLAPS

(* The bucket and the turns of a task are the remainder and the quotient of
   its index by the size of the wheel.                                      *)
LEMMA DivMod ==
  ASSUME NEW i \in Nat
  PROVE  /\ Location(i) \in 0..TimeWheelSize - 1
         /\ Turns(i) \in Nat
         /\ i = TimeWheelSize * Turns(i) + Location(i)
  <1> DEFINE S == TimeWheelSize
  <1>1. S \in Nat /\ S > 0
    BY TimerAssumption DEF TimerAssumption
  <1>2. i % S \in 0..S - 1 /\ i \div S \in Int /\ i = S * (i \div S) + (i % S)
    <2> HIDE DEF S
    <2> QED  BY <1>1
  <1>3. i \div S >= 0
    <2> HIDE DEF S
    <2> QED  BY <1>1, <1>2
  <1> QED  BY <1>2, <1>3 DEF Location, Turns

(* Of two tasks of one bucket the one added first has fewer turns to wait.  *)
LEMMA FewerTurns ==
  ASSUME NEW i \in Nat, NEW j \in Nat, i < j, Location(i) = Location(j)
  PROVE  Turns(i) < Turns(j)
  <1> DEFINE S == TimeWheelSize
             p == Turns(i)
             q == Turns(j)
             m == Location(i)
  <1>1. S \in Nat /\ p \in Nat /\ q \in Nat /\ m \in Int
        /\ i = S * p + m /\ j = S * q + m
    BY DivMod, TimerAssumption DEF TimerAssumption
  <1>2. S * p < S * q
    <2> DEFINE u == S * p
               v == S * q
    <2>1. u \in Int /\ v \in Int /\ i = u + m /\ j = v + m
      BY <1>1
    <2> HIDE DEF u, v, m
    <2>2. u < v
      BY <2>1, <1>1
    <2> QED  BY <2>2 DEF u, v
  <1>3. p < q
    <2> HIDE DEF S, p, q
    <2> QED  BY <1>1, <1>2
  <1> QED  BY <1>3

(* One tick brings every bucket one tick nearer, except the one just visited,
   which is now a whole turn less one away.                                 *)
LEMMA GapStep ==
  ASSUME NEW c \in 0..TimeWheelSize - 1, NEW b \in 0..TimeWheelSize - 1
  PROVE  /\ (c + 1) % TimeWheelSize \in 0..TimeWheelSize - 1
         /\ Gap(c, b) \in Nat
         /\ b # c => Gap((c + 1) % TimeWheelSize, b) = Gap(c, b) - 1
         /\ b = c => /\ Gap(c, b) = 0
                     /\ Gap((c + 1) % TimeWheelSize, b) = TimeWheelSize - 1
  <1> DEFINE S == TimeWheelSize
             d == (c + 1) % S
  <1>1. S \in Nat /\ S > 0
    BY TimerAssumption DEF TimerAssumption
  <1>2. d = IF c = S - 1 THEN 0 ELSE c + 1
    <2>1. CASE c = S - 1
      <3>1. c + 1 = S
        BY <2>1, <1>1
      <3>2. S % S = 0
        <4> HIDE DEF S
        <4> QED  BY <1>1
      <3> QED  BY <2>1, <3>1, <3>2
    <2>2. CASE c # S - 1
      <3> DEFINE e == c + 1
      <3>1. e \in 0..S - 1
        BY <2>2, <1>1
      <3>2. e % S = e
        <4> HIDE DEF e, S
        <4> QED  BY <3>1, <1>1
      <3> QED  BY <2>2, <3>2
    <2> QED  BY <2>1, <2>2
  <1>3. d \in 0..S - 1
    BY <1>1, <1>2
  <1> HIDE DEF d
  <1>4. /\ Gap(c, b) \in Nat
        /\ b # c => Gap(d, b) = Gap(c, b) - 1
        /\ b = c => Gap(c, b) = 0 /\ Gap(d, b) = S - 1
    BY <1>1, <1>2 DEF Gap
  <1> QED  BY <1>3, <1>4 DEF d

(* The scan of TickTask has nothing to scan below wheel 0: it keeps -1, which
   as an unsigned char is 255.                                              *)
LEMMA NoOtherWheel ==
  ASSUME m_headindex = 0, NEW prio
  PROVE  NextWheel(prio) = 255 /\ 255 \notin Levels /\ 0 \in Levels
  <1>1. TimeWheelLevelNum \in 1..255
    BY TimerAssumption DEF TimerAssumption
  <1>2. {l \in Levels : l < m_headindex /\ prio[l] < LowestTimeWheelLevel} = {}
    BY <1>1 DEF Levels
  <1>3. (-1) % 256 = 255
    <2>1. \A a \in Int : a < 0 /\ a > -2 => a % 256 = 255
      OBVIOUS
    <2>2. -1 \in Int /\ -1 < 0 /\ -1 > -2
      OBVIOUS
    <2> DEFINE a == -1
    <2>3. a \in Int /\ a < 0 /\ a > -2
      BY <2>2
    <2> HIDE DEF a
    <2>4. a % 256 = 255
      BY <2>1, <2>3
    <2> QED  BY <2>4 DEF a
  <1>4. 255 \notin Levels /\ 0 \in Levels
    BY <1>1 DEF Levels
  <1> QED  BY <1>2, <1>3, <1>4 DEF NextWheel

-----------------------------------------------------------------------------
(* Every set of naturals that is not empty has a least element.             *)
LEMMA LeastNatural ==
  ASSUME NEW T \in SUBSET Nat, T # {}
  PROVE  \E x \in T : \A y \in T : x <= y
  <1> DEFINE R == OpToRel(<, Nat)
  <1>1. IsWellFoundedOn(R, Nat)
    BY NatLessThanWellFounded
  <1>2. \A x, y \in Nat : y < x => <<y, x>> \in R
    BY DEF OpToRel
  <1> HIDE DEF R
  <1>3. PICK x \in T : \A y \in T : ~(<<y, x>> \in R)
    BY <1>1, WFMin
  <1>4. \A y \in T : ~(y < x)
    BY <1>2, <1>3
  <1> QED  BY <1>4

(* The fields of the nodes of a chain.                                      *)
LEMMA NodeOf ==
  ASSUME NEW s \in Seq(Nodes), NEW k \in 1..Len(s)
  PROVE  /\ s[k] \in Nodes /\ s[k].index \in Tasks /\ s[k].index \in Nat
         /\ s[k].rotation \in Nat /\ s[k].wait \in Nat
  <1>1. s[k] \in Nodes
    BY ElementOfSeq
  <1>2. Tasks \subseteq Nat
    BY TimerAssumption DEF Tasks, TimerAssumption
  <1> QED  BY <1>1, <1>2 DEF Nodes

(* A chain with one node unlinked: those in front stay, those behind move up. *)
LEMMA RemovedFacts ==
  ASSUME NEW s \in Seq(Nodes), NEW k \in 1..Len(s)
  PROVE  /\ RemoveAt(s, k) \in Seq(Nodes)
         /\ Len(RemoveAt(s, k)) = Len(s) - 1
         /\ \A p \in 1..Len(s) - 1 :
              RemoveAt(s, k)[p] = s[IF p < k THEN p ELSE p + 1]
  <1> DEFINE a == SubSeq(s, 1, k - 1)
             b == SubSeq(s, k + 1, Len(s))
  <1>1. Len(s) \in Nat /\ \A p \in 1..Len(s) : s[p] \in Nodes
    BY LenProperties, ElementOfSeq
  <1>2. a \in Seq(Nodes) /\ Len(a) = k - 1 /\ \A p \in 1..k - 1 : a[p] = s[p]
    <2>1. \A p \in 1..k - 1 : s[p] \in Nodes
      BY <1>1
    <2>2. a \in Seq(Nodes) /\ Len(a) = IF 1 <= k - 1 THEN (k - 1) - 1 + 1 ELSE 0
      BY <2>1, <1>1, SubSeqProperties
    <2>3. \A p \in 1..k - 1 : a[p] = s[p]
      <3>1. \A p \in 1..(k - 1) - 1 + 1 : a[p] = s[1 + p - 1]
        BY <2>1, <1>1, SubSeqProperties
      <3> QED  BY <3>1
    <2> QED  BY <2>2, <2>3
  <1>3. b \in Seq(Nodes) /\ Len(b) = Len(s) - k /\ \A p \in 1..Len(s) - k : b[p] = s[k + p]
    <2>1. \A p \in k + 1..Len(s) : s[p] \in Nodes
      BY <1>1
    <2>2. b \in Seq(Nodes) /\ Len(b) = IF k + 1 <= Len(s) THEN Len(s) - (k + 1) + 1 ELSE 0
      BY <2>1, <1>1, SubSeqProperties
    <2>3. \A p \in 1..Len(s) - k : b[p] = s[k + p]
      <3>1. \A p \in 1..Len(s) - (k + 1) + 1 : b[p] = s[(k + 1) + p - 1]
        BY <2>1, <1>1, SubSeqProperties
      <3> QED  BY <3>1, <1>1
    <2> QED  BY <2>2, <2>3, <1>1
  <1> HIDE DEF a, b
  <1>4. /\ a \o b \in Seq(Nodes) /\ Len(a \o b) = Len(a) + Len(b)
        /\ \A p \in 1..Len(a) + Len(b) :
             (a \o b)[p] = IF p <= Len(a) THEN a[p] ELSE b[p - Len(a)]
    BY <1>2, <1>3, ConcatProperties
  <1>5. ASSUME NEW p \in 1..Len(s) - 1
        PROVE  (a \o b)[p] = s[IF p < k THEN p ELSE p + 1]
    <2>1. p \in 1..Len(a) + Len(b)
      BY <1>1, <1>2, <1>3
    <2>2. CASE p < k
      BY <1>1, <1>2, <1>4, <2>1, <2>2
    <2>3. CASE p >= k
      <3>1. (a \o b)[p] = b[p - (k - 1)] /\ p - (k - 1) \in 1..Len(s) - k
        BY <1>1, <1>2, <1>4, <2>1, <2>3
      <3>2. b[p - (k - 1)] = s[k + (p - (k - 1))] /\ k + (p - (k - 1)) = p + 1
        BY <1>1, <1>3, <3>1
      <3>3. (IF p < k THEN p ELSE p + 1) = p + 1
        BY <2>3, <1>1
      <3> QED  BY <3>1, <3>2, <3>3
    <2>4. p < k \/ p >= k
      BY <1>1
    <2> QED  BY <2>2, <2>3, <2>4
  <1>6. RemoveAt(s, k) = a \o b
    BY DEF RemoveAt, a, b
  <1>7. Len(a \o b) = Len(s) - 1
    BY <1>1, <1>2, <1>3, <1>4
  <1> HIDE DEF RemoveAt
  <1> QED  BY <1>4, <1>5, <1>6, <1>7

(* What the loop of TickTimerNode does at one node.                         *)
LEMMA VisitFacts ==
  ASSUME NEW s \in Seq(Nodes), NEW a \in 1..Len(s), NEW r, NEW w,
         w = [chain |-> s, at |-> a, ran |-> r]
  PROVE  /\ s[a].rotation = 0 =>
              Visit(w) = [chain |-> RemoveAt(s, a), at |-> a,
                          ran |-> Append(r, s[a].index)]
         /\ s[a].rotation # 0 =>
              Visit(w) = [chain |-> [s EXCEPT ![a] =
                            [s[a] EXCEPT !.rotation = s[a].rotation - 1]],
                          at |-> a + 1, ran |-> r]
  <1>1. ~(w.at > Len(w.chain)) /\ w.chain = s /\ w.at = a /\ w.ran = r
    BY LenProperties
  <1>2. CASE s[a].rotation = 0
    BY <1>1, <1>2 DEF Visit
  <1>3. CASE s[a].rotation # 0
    BY <1>1, <1>3 DEF Visit
  <1> QED  BY <1>2, <1>3

-----------------------------------------------------------------------------
(* Along a chain the indexes and the turns left increase.                   *)
Increasing(s) ==
  \A p, q \in 1..Len(s) :
    p < q => s[p].index < s[q].index /\ s[p].rotation < s[q].rotation

(* In such a chain DeleteTimerNode unlinks the only node with the index.    *)
LEMMA UnlinkedFacts ==
  ASSUME NEW s \in Seq(Nodes), NEW i, Increasing(s)
  PROVE  \/ Found(s, i) = {} /\ Unlinked(s, i) = s
         \/ \E k \in 1..Len(s) : /\ Found(s, i) = {k} /\ s[k].index = i
                                 /\ Unlinked(s, i) = RemoveAt(s, k)
  <1>1. CASE Found(s, i) = {}
    BY <1>1 DEF Unlinked
  <1>2. CASE Found(s, i) # {}
    <2>1. PICK k : k \in Found(s, i)
      BY <1>2
    <2>2. k \in 1..Len(s) /\ s[k].index = i /\ Len(s) \in Nat
      BY <2>1, LenProperties DEF Found
    <2>3. ASSUME NEW q \in Found(s, i)
          PROVE  q = k
      <3>1. q \in 1..Len(s) /\ s[q].index = i
        BY LenProperties DEF Found
      <3>2. s[k].index \in Tasks
        BY <2>2, NodeOf
      <3>3. \A x \in Tasks : ~(x < x)
        BY TimerAssumption DEF Tasks, TimerAssumption
      <3>4. ~(i < i)
        BY <2>2, <3>2, <3>3
      <3>5. ~(q < k) /\ ~(k < q)
        BY <2>2, <3>1, <3>4 DEF Increasing
      <3> QED  BY <2>2, <3>1, <3>5
    <2>4. Found(s, i) = {k}
      BY <2>1, <2>3
    <2>5. Min({k}) = k
      BY <2>2 DEF Min
    <2>6. Unlinked(s, i) = RemoveAt(s, k)
      BY <1>2, <2>4, <2>5 DEF Unlinked
    <2> QED  BY <2>2, <2>4, <2>6
  <1> QED  BY <1>1, <1>2

(* How many nodes of a chain a visit of its bucket runs: the first, if it has
   no turns left, and no other.                                             *)
Due(s) == IF Len(s) > 0 /\ s[1].rotation = 0 THEN 1 ELSE 0

Less(n) == [n EXCEPT !.rotation = n.rotation - 1]

(* The chain when the walk has left j nodes with one turn less behind it.    *)
Walked(s, j) ==
  [p \in 1..Len(s) - Due(s) |-> IF p <= j THEN Less(s[p + Due(s)]) ELSE s[p + Due(s)]]

Ran(s) == IF Due(s) = 1 THEN <<s[1].index>> ELSE <<>>

After(s, k) ==
  IF k < Due(s) THEN [chain |-> s, at |-> 1, ran |-> <<>>]
  ELSE [chain |-> Walked(s, k - Due(s)), at |-> k - Due(s) + 1, ran |-> Ran(s)]

(* What such a chain looks like at any moment of the walk.                  *)
LEMMA WalkedFacts ==
  ASSUME NEW s \in Seq(Nodes), Increasing(s), NEW j \in 0..Len(s) - Due(s)
  PROVE  /\ Len(s) \in Nat /\ Due(s) \in {0, 1} /\ Due(s) <= Len(s)
         /\ \A p \in 1..Len(s) - Due(s) :
              /\ p + Due(s) \in 1..Len(s) /\ s[p + Due(s)] \in Nodes
              /\ s[p + Due(s)].rotation \in Nat /\ s[p + Due(s)].rotation > 0
              /\ Less(s[p + Due(s)]) \in Nodes
         /\ Walked(s, j) \in Seq(Nodes)
         /\ Len(Walked(s, j)) = Len(s) - Due(s)
  <1>1. Len(s) \in Nat /\ Due(s) \in {0, 1} /\ Due(s) <= Len(s)
    BY LenProperties DEF Due
  <1>2. ASSUME NEW p \in 1..Len(s) - Due(s)
        PROVE  /\ p + Due(s) \in 1..Len(s) /\ s[p + Due(s)] \in Nodes
               /\ s[p + Due(s)].rotation \in Nat /\ s[p + Due(s)].rotation > 0
               /\ Less(s[p + Due(s)]) \in Nodes
    <2>1. PICK q : q = p + Due(s)
      OBVIOUS
    <2>2. q \in 1..Len(s)
      BY <1>1, <2>1
    <2>3. s[q] \in Nodes /\ s[q].rotation \in Nat
      BY <2>2, NodeOf
    <2>4. s[q].rotation > 0
      <3>1. CASE q = 1
        <4>1. Due(s) = 0
          BY <1>1, <2>1, <3>1
        <4>2. s[1].rotation # 0
          BY <1>1, <2>2, <3>1, <4>1 DEF Due
        <4> QED  BY <2>3, <3>1, <4>2
      <3>2. CASE q > 1
        <4>1. 1 \in 1..Len(s) /\ s[1].rotation < s[q].rotation
          BY <1>1, <2>2, <3>2 DEF Increasing
        <4>2. s[1].rotation \in Nat
          BY <4>1, NodeOf
        <4> QED  BY <2>3, <4>1, <4>2
      <3> QED  BY <2>2, <3>1, <3>2
    <2>5. s[q].rotation - 1 \in Nat
      BY <2>3, <2>4
    <2>6. Less(s[q]) \in Nodes
      BY <2>3, <2>5 DEF Less, Nodes
    <2> QED  BY <2>1, <2>2, <2>3, <2>4, <2>6
  <1>3. Len(s) - Due(s) \in Nat
    BY <1>1
  <1>4. PICK n : n = Len(s) - Due(s)
    OBVIOUS
  <1>5. ASSUME NEW p \in 1..n
        PROVE  (IF p <= j THEN Less(s[p + Due(s)]) ELSE s[p + Due(s)]) \in Nodes
    BY <1>2, <1>4
  <1>6. Walked(s, j) \in [1..n -> Nodes]
    BY <1>4, <1>5 DEF Walked
  <1>7. Walked(s, j) \in Seq(Nodes) /\ Len(Walked(s, j)) = n
    <2>1. n \in Nat
      BY <1>3, <1>4
    <2>2. Walked(s, j) \in Seq(Nodes)
      BY <1>6, <2>1, SeqDef
    <2>3. DOMAIN Walked(s, j) = 1..n
      BY <1>6
    <2> QED  BY <2>1, <2>2, <2>3, LenProperties
  <1> QED  BY <1>1, <1>2, <1>4, <1>7

(* The loop of TickTimerNode takes the first node off the chain if its turns
   are over, and a turn from each of the others.                            *)
LEMMA AfterSteps ==
  ASSUME NEW s \in Seq(Nodes), Increasing(s)
  PROVE  /\ After(s, 0) = [chain |-> s, at |-> 1, ran |-> <<>>]
         /\ \A k \in 1..Len(s) : After(s, k) = Visit(After(s, k - 1))
  <1> DEFINE d == Due(s)
             N == Len(s)
             start == [chain |-> s, at |-> 1, ran |-> <<>>]
  <1>1. N \in Nat /\ d \in {0, 1} /\ d <= N
    BY LenProperties DEF Due
  <1>2. s \in [1..N -> Nodes]
    BY LenProperties
  <1>3. After(s, 0) = start
    <2>1. CASE d = 1
      BY <2>1 DEF After
    <2>2. CASE d = 0
      <3>1. Walked(s, 0) = s
        <4>1. Walked(s, 0) = [p \in 1..N |-> s[p]]
          <5>1. \A p \in 1..N : ~(p <= 0) /\ p + 0 = p
            BY <1>1
          <5>2. N - 0 = N
            BY <1>1
          <5> QED  BY <2>2, <5>1, <5>2 DEF Walked
        <4> QED  BY <1>2, <4>1
      <3>2. Ran(s) = <<>>
        BY <2>2 DEF Ran
      <3> QED  BY <2>2, <3>1, <3>2 DEF After
    <2> QED  BY <1>1, <2>1, <2>2
  <1>4. ASSUME NEW k \in 1..N
        PROVE  After(s, k) = Visit(After(s, k - 1))
    <2>1. CASE k - 1 < d
      <3>1. k = 1 /\ d = 1
        BY <1>1, <2>1
      <3>2. After(s, k - 1) = start
        BY <3>1, <1>3
      <3>3. 1 \in 1..N /\ s[1].rotation = 0
        BY <1>1, <3>1 DEF Due
      <3>4. Visit(start) = [chain |-> RemoveAt(s, 1), at |-> 1,
                            ran |-> Append(<<>>, s[1].index)]
        BY <3>3, VisitFacts
      <3>5. RemoveAt(s, 1) = Walked(s, 0)
        <4>1. /\ RemoveAt(s, 1) \in Seq(Nodes) /\ Len(RemoveAt(s, 1)) = N - 1
              /\ \A p \in 1..N - 1 : RemoveAt(s, 1)[p] = s[IF p < 1 THEN p ELSE p + 1]
          BY <3>3, RemovedFacts
        <4>2. RemoveAt(s, 1) \in [1..N - 1 -> Nodes]
          BY <4>1, LenProperties
        <4>3. \A p \in 1..N - 1 : RemoveAt(s, 1)[p] = s[p + 1]
          BY <1>1, <4>1
        <4>4. Walked(s, 0) = [p \in 1..N - 1 |-> s[p + 1]]
          <5>1. \A p \in 1..N - 1 : ~(p <= 0)
            BY <1>1
          <5> QED  BY <3>1, <5>1 DEF Walked
        <4> QED  BY <4>2, <4>3, <4>4
      <3>6. Append(<<>>, s[1].index) = <<s[1].index>>
        OBVIOUS
      <3>7. After(s, k) = [chain |-> Walked(s, 0), at |-> 1, ran |-> <<s[1].index>>]
        BY <3>1 DEF After, Ran
      <3> QED  BY <3>2, <3>4, <3>5, <3>6, <3>7
    <2>2. CASE ~(k - 1 < d)
      <3>1. PICK j : j = k - 1 - d
        OBVIOUS
      <3>2. j \in 0..N - d /\ j + 1 \in 1..N - d /\ j + 1 \in 0..N - d
            /\ ~(k < d) /\ k - d = j + 1
        BY <1>1, <2>2, <3>1
      <3>3. After(s, k - 1) = [chain |-> Walked(s, j), at |-> j + 1, ran |-> Ran(s)]
        BY <2>2, <3>1 DEF After
      <3>4. After(s, k) = [chain |-> Walked(s, j + 1), at |-> j + 1 + 1, ran |-> Ran(s)]
        BY <3>2 DEF After
      <3>5. /\ Walked(s, j) \in Seq(Nodes) /\ Len(Walked(s, j)) = N - d
            /\ s[j + 1 + d].rotation \in Nat /\ s[j + 1 + d].rotation > 0
        BY <3>2, WalkedFacts
      <3>6. Walked(s, j)[j + 1] = s[j + 1 + d]
        <4>1. ~(j + 1 <= j)
          BY <3>2
        <4> QED  BY <3>2, <4>1 DEF Walked
      <3>7. Walked(s, j)[j + 1].rotation # 0
        BY <3>5, <3>6
      <3>8. Visit(After(s, k - 1)) =
              [chain |-> [Walked(s, j) EXCEPT ![j + 1] =
                 [Walked(s, j)[j + 1] EXCEPT !.rotation = Walked(s, j)[j + 1].rotation - 1]],
               at |-> j + 1 + 1, ran |-> Ran(s)]
        <4>1. PICK c \in Seq(Nodes) : c = Walked(s, j)
          BY <3>5
        <4>2. PICK a : a = j + 1
          OBVIOUS
        <4>3. a \in 1..Len(c) /\ c[a].rotation # 0
          BY <3>2, <3>5, <3>7, <4>1, <4>2
        <4>4. Visit([chain |-> c, at |-> a, ran |-> Ran(s)]) =
                [chain |-> [c EXCEPT ![a] = [c[a] EXCEPT !.rotation = c[a].rotation - 1]],
                 at |-> a + 1, ran |-> Ran(s)]
          <5>1. PICK v : v = [chain |-> c, at |-> a, ran |-> Ran(s)]
            OBVIOUS
          <5>2. Visit(v) = [chain |-> [c EXCEPT ![a] = [c[a] EXCEPT !.rotation = c[a].rotation - 1]],
                            at |-> a + 1, ran |-> Ran(s)]
            <6> HIDE DEF Visit, d, N, start
            <6>1. PICK r : r = Ran(s)
              OBVIOUS
            <6>2. v = [chain |-> c, at |-> a, ran |-> r]
              BY <5>1, <6>1
            <6>3. Visit(v) = [chain |-> [c EXCEPT ![a] = [c[a] EXCEPT !.rotation = c[a].rotation - 1]],
                              at |-> a + 1, ran |-> r]
              BY <4>3, <6>2, VisitFacts
            <6> QED  BY <6>1, <6>3
          <5> QED  BY <5>1, <5>2
        <4> QED  BY <3>3, <4>1, <4>2, <4>4
      <3>9. [Walked(s, j) EXCEPT ![j + 1] = Less(s[j + 1 + d])] = Walked(s, j + 1)
        <4>1. \A p \in 1..N - d : p <= j + 1 <=> p <= j \/ p = j + 1
          BY <3>2
        <4>2. Walked(s, j + 1) = [p \in 1..N - d |->
                IF p = j + 1 THEN Less(s[p + d]) ELSE IF p <= j THEN Less(s[p + d]) ELSE s[p + d]]
          BY <4>1 DEF Walked
        <4> HIDE DEF d
        <4> QED  BY <4>2 DEF Walked, d
      <3> QED  BY <3>4, <3>6, <3>8, <3>9 DEF Less
    <2> QED  BY <2>1, <2>2
  <1> QED  BY <1>3, <1>4

(* What the whole loop leaves of a chain and hands to the caller.           *)
LEMMA WalkFacts ==
  ASSUME NEW s \in Seq(Nodes), Increasing(s)
  PROVE  /\ Walk(s).chain = Walked(s, Len(s) - Due(s))
         /\ Walk(s).ran = Ran(s)
  <1> DEFINE start == [chain |-> s, at |-> 1, ran |-> <<>>]
             IsWalk(f) == f = [k \in 0..Len(s) |-> IF k = 0 THEN start ELSE Visit(f[k - 1])]
             g == [k \in 0..Len(s) |-> After(s, k)]
             w == CHOOSE f : IsWalk(f)
  <1>1. Len(s) \in Nat /\ Due(s) \in {0, 1} /\ Due(s) <= Len(s)
    BY LenProperties DEF Due
  <1>2. /\ After(s, 0) = start
        /\ \A k \in 1..Len(s) : After(s, k) = Visit(After(s, k - 1))
    BY AfterSteps
  <1>3. IsWalk(g)
    <2>1. ASSUME NEW k \in 0..Len(s)
          PROVE  g[k] = IF k = 0 THEN start ELSE Visit(g[k - 1])
      <3>1. CASE k = 0
        BY <1>2, <3>1
      <3>2. CASE k # 0
        <4>1. k \in 1..Len(s) /\ k - 1 \in 0..Len(s)
          BY <1>1, <3>2
        <4>2. g[k - 1] = After(s, k - 1)
          BY <4>1
        <4> QED  BY <1>2, <3>2, <4>1, <4>2
      <3> QED  BY <3>1, <3>2
    <2>2. g = [k \in 0..Len(s) |-> g[k]]
      OBVIOUS
    <2> HIDE DEF g, start
    <2> QED  BY <2>1, <2>2
  <1>4. IsWalk(w)
    BY <1>3
  <1>5. Walk(s) = w[Len(s)]
    BY DEF Walk
  <1> HIDE DEF w
  <1>6. \A k \in 0..Len(s) : w[k] = IF k = 0 THEN start ELSE Visit(w[k - 1])
    BY <1>4
  <1> HIDE DEF start, IsWalk, g
  <1>7. ASSUME NEW m \in 0..Len(s), w[m] # After(s, m)
        PROVE  FALSE
    <2> DEFINE T == {k \in 0..Len(s) : w[k] # After(s, k)}
    <2>1. PICK k \in T : \A y \in T : k <= y
      <3>1. T \in SUBSET Nat /\ T # {}
        BY <1>1, <1>7
      <3> HIDE DEF T
      <3> QED  BY <3>1, LeastNatural
    <2>2. k \in 0..Len(s) /\ w[k] # After(s, k)
      BY <2>1
    <2>3. k # 0
      BY <1>2, <1>6, <2>2
    <2>4. k \in 1..Len(s) /\ k - 1 \in 0..Len(s) /\ ~(k <= k - 1)
      BY <1>1, <2>2, <2>3
    <2>5. w[k - 1] = After(s, k - 1)
      BY <2>1, <2>4
    <2> QED  BY <1>2, <1>6, <2>2, <2>3, <2>4, <2>5
  <1>8. Walk(s) = After(s, Len(s))
    <2>1. Len(s) \in 0..Len(s)
      BY <1>1
    <2> QED  BY <1>5, <1>7, <2>1
  <1>9. ~(Len(s) < Due(s))
    BY <1>1
  <1> QED  BY <1>8, <1>9 DEF After

-----------------------------------------------------------------------------
(* The invariant of one chain: that of bucket b of a wheel that stands at
   bucket c and was given n tasks.                                          *)
NodeAt(x, b, c, n) ==
  /\ b = Location(x.index)
  /\ x.index < n
  /\ x.rotation <= Turns(x.index)
  /\ x.wait = x.rotation * TimeWheelSize + Gap(c, b)

ChainOf(s, b, c, n) ==
  /\ s \in Seq(Nodes)
  /\ Increasing(s)
  /\ \A p \in 1..Len(s) : NodeAt(s[p], b, c, n)

(* A further task is behind all the others, and has more turns to wait.     *)
LEMMA ChainGrows ==
  ASSUME NEW b \in Buckets, NEW c \in Buckets, NEW n \in Tasks, NEW s,
         ChainOf(s, b, c, n), b = Location(n), NEW x \in Nodes,
         x.index = n, x.rotation = Turns(n),
         x.wait = Turns(n) * TimeWheelSize + Gap(c, b)
  PROVE  ChainOf(Append(s, x), b, c, n + 1)
  <1> DEFINE t == Append(s, x)
  <1>1. n \in Nat /\ Turns(n) \in Nat
    BY TimerAssumption, DivMod DEF Tasks, TimerAssumption
  <1>2. s \in Seq(Nodes) /\ Len(s) \in Nat
    BY LenProperties DEF ChainOf
  <1>3. /\ t \in Seq(Nodes) /\ Len(t) = Len(s) + 1 /\ t[Len(s) + 1] = x
        /\ \A p \in 1..Len(s) : t[p] = s[p]
    BY <1>2, AppendProperties
  <1> HIDE DEF t
  <1>4. ASSUME NEW p \in 1..Len(s)
        PROVE  /\ s[p].index < n /\ s[p].index \in Nat /\ s[p].rotation \in Nat
               /\ s[p].rotation < Turns(n)
               /\ NodeAt(s[p], b, c, n)
    <2>1. NodeAt(s[p], b, c, n)
      BY DEF ChainOf
    <2>2. s[p].index \in Nat /\ s[p].rotation \in Nat
      BY <1>2, NodeOf
    <2>3. s[p].index < n /\ b = Location(s[p].index) /\ s[p].rotation <= Turns(s[p].index)
      BY <2>1 DEF NodeAt
    <2>4. Turns(s[p].index) \in Nat /\ Turns(s[p].index) < Turns(n)
      <3>1. PICK i \in Nat : i = s[p].index
        BY <2>2
      <3>2. Turns(i) < Turns(n)
        BY <1>1, <2>3, <3>1, FewerTurns
      <3>3. Turns(i) \in Nat
        BY DivMod
      <3> QED  BY <3>1, <3>2, <3>3
    <2>5. s[p].rotation < Turns(n)
      BY <1>1, <2>2, <2>3, <2>4
    <2> QED  BY <2>1, <2>2, <2>3, <2>5
  <1>5. ASSUME NEW p \in 1..Len(t)
        PROVE  NodeAt(t[p], b, c, n + 1)
    <2>1. CASE p \in 1..Len(s)
      <3>1. t[p] = s[p] /\ NodeAt(s[p], b, c, n) /\ s[p].index < n + 1
        BY <1>1, <1>3, <1>4, <2>1
      <3> QED  BY <3>1 DEF NodeAt
    <2>2. CASE p = Len(s) + 1
      <3>1. t[p] = x /\ x.index < n + 1 /\ x.rotation <= Turns(x.index)
        BY <1>1, <1>3, <2>2
      <3> QED  BY <3>1 DEF NodeAt
    <2> QED  BY <1>2, <1>3, <2>1, <2>2
  <1>6. ASSUME NEW p \in 1..Len(t), NEW q \in 1..Len(t), p < q
        PROVE  t[p].index < t[q].index /\ t[p].rotation < t[q].rotation
    <2>1. p \in 1..Len(s) /\ t[p] = s[p]
      BY <1>2, <1>3, <1>6
    <2>2. CASE q \in 1..Len(s)
      BY <1>3, <1>6, <2>1, <2>2 DEF ChainOf, Increasing
    <2>3. CASE q = Len(s) + 1
      BY <1>3, <1>4, <2>1, <2>3
    <2> QED  BY <1>2, <1>3, <2>2, <2>3
  <1>7. Increasing(t)
    BY <1>6 DEF Increasing
  <1>8. ChainOf(t, b, c, n + 1)
    BY <1>3, <1>5, <1>7 DEF ChainOf
  <1> QED  BY <1>8 DEF t

(* A node unlinked leaves the others as they are, in their order.           *)
LEMMA ChainShrinks ==
  ASSUME NEW b, NEW c, NEW n, NEW s, ChainOf(s, b, c, n), NEW i
  PROVE  ChainOf(Unlinked(s, i), b, c, n)
  <1>1. s \in Seq(Nodes) /\ Increasing(s) /\ Len(s) \in Nat
    BY LenProperties DEF ChainOf
  <1>2. CASE Unlinked(s, i) = s
    BY <1>2
  <1>3. CASE \E k \in 1..Len(s) : Unlinked(s, i) = RemoveAt(s, k)
    <2>1. PICK k \in 1..Len(s) : Unlinked(s, i) = RemoveAt(s, k)
      BY <1>3
    <2>2. PICK t : t = RemoveAt(s, k)
      OBVIOUS
    <2>3. /\ t \in Seq(Nodes) /\ Len(t) = Len(s) - 1
          /\ \A p \in 1..Len(s) - 1 : t[p] = s[IF p < k THEN p ELSE p + 1]
      BY <1>1, <2>2, RemovedFacts
    <2> DEFINE from(p) == IF p < k THEN p ELSE p + 1
    <2>4. \A p \in 1..Len(t) : from(p) \in 1..Len(s) /\ t[p] = s[from(p)]
      BY <1>1, <2>3
    <2>5. \A p, q \in 1..Len(t) : p < q => from(p) < from(q)
      BY <1>1, <2>3
    <2> HIDE DEF from
    <2>6. \A p \in 1..Len(t) : NodeAt(t[p], b, c, n)
      BY <2>4 DEF ChainOf
    <2>7. Increasing(t)
      BY <1>1, <2>4, <2>5 DEF Increasing
    <2>8. ChainOf(t, b, c, n)
      BY <2>3, <2>6, <2>7 DEF ChainOf
    <2> QED  BY <2>1, <2>2, <2>8
  <1> QED  BY <1>1, <1>2, <1>3, UnlinkedFacts

(* A node that a tick leaves in its chain is again as far from its tick as it
   should be: one tick nearer, and with a turn less if its bucket was visited. *)
LEMMA TickedNode ==
  ASSUME NEW b \in Buckets, NEW c \in Buckets, NEW n, NEW x \in Nodes,
         NodeAt(x, b, c, n), NEW r \in Nat, NEW y,
         b = c => r = x.rotation - 1,
         b # c => r = x.rotation,
         y = [index |-> x.index, rotation |-> r,
              wait |-> IF x.wait = 0 THEN 0 ELSE x.wait - 1]
  PROVE  y \in Nodes /\ NodeAt(y, b, (c + 1) % TimeWheelSize, n)
  <1> DEFINE S == TimeWheelSize
             d == (c + 1) % S
             g == Gap(c, b)
             h == Gap(d, b)
  <1>1. S \in Nat /\ S > 0
    BY TimerAssumption DEF TimerAssumption
  <1>2. /\ x.index \in Tasks /\ x.rotation \in Nat /\ x.wait \in Nat
        /\ x.index \in Nat
    BY TimerAssumption DEF Nodes, Tasks, TimerAssumption
  <1>3. /\ b = Location(x.index) /\ x.index < n /\ x.rotation <= Turns(x.index)
        /\ x.wait = x.rotation * S + g
    BY DEF NodeAt
  <1>4. /\ g \in Nat
        /\ b # c => h = g - 1
        /\ b = c => g = 0 /\ h = S - 1
    BY GapStep DEF Buckets
  <1>5. h \in Nat
    <2>1. d \in Buckets
      BY GapStep DEF Buckets
    <2> QED  BY <2>1, GapStep DEF Buckets
  <1> HIDE DEF d, g, h
  <1>6. r <= x.rotation
    BY <1>2
  <1>7. r <= Turns(x.index)
    <2>1. Turns(x.index) \in Nat
      BY <1>2, DivMod
    <2> QED  BY <1>2, <1>3, <1>6, <2>1
  <1>8. x.wait # 0 /\ x.wait - 1 = r * S + h
    <2>1. PICK m : m = r * S
      OBVIOUS
    <2>2. m \in Nat
      <3> HIDE DEF S
      <3> QED  BY <1>1, <2>1
    <2>3. CASE b = c
      <3>1. x.rotation = r + 1
        BY <1>2, <2>3
      <3>2. x.rotation * S = m + S
        <4> HIDE DEF S
        <4>1. (r + 1) * S = r * S + S
          BY <1>1
        <4> QED  BY <2>1, <3>1, <4>1
      <3>3. x.wait = m + S /\ h = S - 1
        BY <1>1, <1>3, <1>4, <2>2, <2>3, <3>2
      <3> HIDE DEF S
      <3>4. x.wait # 0 /\ x.wait - 1 = m + h
        BY <1>1, <2>2, <3>3
      <3> QED  BY <2>1, <3>4
    <2>4. CASE b # c
      <3>1. x.wait = m + g /\ h = g - 1
        BY <1>3, <1>4, <2>1, <2>4
      <3>2. x.wait # 0 /\ x.wait - 1 = m + h
        BY <1>4, <1>5, <2>2, <3>1
      <3> QED  BY <2>1, <3>2
    <2> QED  BY <2>3, <2>4
  <1>9. y.index = x.index /\ y.rotation = r /\ y.wait = x.wait - 1
    BY <1>8
  <1>10. x.wait - 1 \in Nat
    BY <1>2, <1>8
  <1>11. y \in Nodes
    BY <1>2, <1>8, <1>10 DEF Nodes
  <1>12. NodeAt(y, b, d, n)
    <2>1. y.wait = y.rotation * TimeWheelSize + Gap(d, b)
      BY <1>8, <1>9 DEF h
    <2> QED  BY <1>3, <1>7, <1>9, <2>1 DEF NodeAt
  <1> QED  BY <1>11, <1>12 DEF d

(* The chain of bucket b after a tick of a wheel that stands at bucket c.    *)
Ticked(s, b, c) == Waited(IF b = c THEN Walk(s).chain ELSE s)

(* How many places the nodes of the chain move up.                          *)
Gone(s, b, c) == IF b = c THEN Due(s) ELSE 0

LEMMA TickedFacts ==
  ASSUME NEW b, NEW c, NEW s \in Seq(Nodes), Increasing(s)
  PROVE  /\ Len(s) \in Nat /\ Gone(s, b, c) \in {0, 1} /\ Gone(s, b, c) <= Len(s)
         /\ DOMAIN Ticked(s, b, c) = 1..Len(s) - Gone(s, b, c)
         /\ \A p \in 1..Len(s) - Gone(s, b, c) :
              LET x == s[p + Gone(s, b, c)]
                  y == Ticked(s, b, c)[p] IN
              /\ p + Gone(s, b, c) \in 1..Len(s)
              /\ b = c => x.rotation - 1 \in Nat
              /\ y = [index |-> x.index,
                      rotation |-> IF b = c THEN x.rotation - 1 ELSE x.rotation,
                      wait |-> IF x.wait = 0 THEN 0 ELSE x.wait - 1]
  <1>1. Len(s) \in Nat /\ Due(s) \in {0, 1} /\ Due(s) <= Len(s)
    BY LenProperties DEF Due
  <1>2. Gone(s, b, c) \in {0, 1} /\ Gone(s, b, c) <= Len(s)
    BY <1>1 DEF Gone
  <1>3. CASE b = c
    <2>1. Gone(s, b, c) = Due(s) /\ Ticked(s, b, c) = Waited(Walk(s).chain)
      BY <1>3 DEF Gone, Ticked
    <2>2. PICK j : j = Len(s) - Due(s)
      OBVIOUS
    <2>3. j \in Nat /\ j \in 0..Len(s) - Due(s)
      BY <1>1, <2>2
    <2>4. /\ Walk(s).chain = Walked(s, j)
          /\ Len(Walked(s, j)) = j
          /\ \A p \in 1..j : /\ p + Due(s) \in 1..Len(s) /\ s[p + Due(s)] \in Nodes
                             /\ s[p + Due(s)].rotation \in Nat /\ s[p + Due(s)].rotation > 0
      BY <2>2, <2>3, WalkFacts, WalkedFacts
    <2>5. Walked(s, j) = [p \in 1..j |-> Less(s[p + Due(s)])]
      BY <2>2 DEF Walked
    <2>6. Ticked(s, b, c) = [p \in 1..j |-> [Less(s[p + Due(s)]) EXCEPT
              !.wait = IF Less(s[p + Due(s)]).wait = 0 THEN 0
                       ELSE Less(s[p + Due(s)]).wait - 1]]
      BY <2>1, <2>4, <2>5 DEF Waited
    <2>7. ASSUME NEW p \in 1..j
          PROVE  /\ s[p + Due(s)].rotation - 1 \in Nat
                 /\ Ticked(s, b, c)[p] =
                      [index |-> s[p + Due(s)].index,
                       rotation |-> s[p + Due(s)].rotation - 1,
                       wait |-> IF s[p + Due(s)].wait = 0 THEN 0 ELSE s[p + Due(s)].wait - 1]
      <3>1. PICK x \in Nodes : x = s[p + Due(s)]
        BY <2>4
      <3>2. x.rotation - 1 \in Nat
        BY <2>4, <3>1
      <3>3. Less(x) = [index |-> x.index, rotation |-> x.rotation - 1, wait |-> x.wait]
        BY DEF Less, Nodes
      <3>4. Ticked(s, b, c)[p] = [Less(x) EXCEPT
              !.wait = IF Less(x).wait = 0 THEN 0 ELSE Less(x).wait - 1]
        BY <2>6, <3>1
      <3>5. Ticked(s, b, c)[p] = [index |-> x.index, rotation |-> x.rotation - 1,
                                  wait |-> IF x.wait = 0 THEN 0 ELSE x.wait - 1]
        BY <3>3, <3>4
      <3> QED  BY <3>1, <3>2, <3>5
    <2>8. DOMAIN Ticked(s, b, c) = 1..j
      BY <2>6
    <2> QED  BY <1>1, <1>2, <1>3, <2>1, <2>2, <2>4, <2>7, <2>8
  <1>4. CASE b # c
    <2>1. Gone(s, b, c) = 0 /\ Ticked(s, b, c) = Waited(s)
      BY <1>4 DEF Gone, Ticked
    <2>2. DOMAIN s = 1..Len(s)
      BY LenProperties
    <2>3. Ticked(s, b, c) = [p \in 1..Len(s) |-> [s[p] EXCEPT
              !.wait = IF s[p].wait = 0 THEN 0 ELSE s[p].wait - 1]]
      BY <2>1, <2>2 DEF Waited
    <2>4. ASSUME NEW p \in 1..Len(s)
          PROVE  Ticked(s, b, c)[p] =
                   [index |-> s[p].index, rotation |-> s[p].rotation,
                    wait |-> IF s[p].wait = 0 THEN 0 ELSE s[p].wait - 1]
      <3>1. PICK x \in Nodes : x = s[p]
        BY NodeOf
      <3>2. Ticked(s, b, c)[p] = [x EXCEPT !.wait = IF x.wait = 0 THEN 0 ELSE x.wait - 1]
        BY <2>3, <3>1
      <3>3. Ticked(s, b, c)[p] = [index |-> x.index, rotation |-> x.rotation,
                                  wait |-> IF x.wait = 0 THEN 0 ELSE x.wait - 1]
        BY <3>2 DEF Nodes
      <3> QED  BY <3>1, <3>3
    <2>5. DOMAIN Ticked(s, b, c) = 1..Len(s)
      BY <2>3
    <2>6. Len(s) - 0 = Len(s) /\ \A p \in 1..Len(s) : p + 0 = p
      BY <1>1
    <2> QED  BY <1>1, <1>2, <1>4, <2>1, <2>4, <2>5, <2>6
  <1> QED  BY <1>3, <1>4

(* A tick leaves every chain in order and every task as far from its tick as
   it should be.                                                            *)
LEMMA ChainTicks ==
  ASSUME NEW b \in Buckets, NEW c \in Buckets, NEW n, NEW s, ChainOf(s, b, c, n)
  PROVE  ChainOf(Ticked(s, b, c), b, (c + 1) % TimeWheelSize, n)
  <1>1. s \in Seq(Nodes) /\ Increasing(s)
    BY DEF ChainOf
  <1>2. PICK g, t : g = Gone(s, b, c) /\ t = Ticked(s, b, c)
    OBVIOUS
  <1>3. /\ Len(s) \in Nat /\ g \in {0, 1} /\ g <= Len(s)
        /\ DOMAIN t = 1..Len(s) - g
        /\ \A p \in 1..Len(s) - g :
             /\ p + g \in 1..Len(s)
             /\ b = c => s[p + g].rotation - 1 \in Nat
             /\ t[p] = [index |-> s[p + g].index,
                        rotation |-> IF b = c THEN s[p + g].rotation - 1 ELSE s[p + g].rotation,
                        wait |-> IF s[p + g].wait = 0 THEN 0 ELSE s[p + g].wait - 1]
    BY <1>1, <1>2, TickedFacts
  <1>4. PICK m \in Nat : m = Len(s) - g
    BY <1>3
  <1>5. ASSUME NEW p \in 1..m
        PROVE  /\ t[p] \in Nodes /\ NodeAt(t[p], b, (c + 1) % TimeWheelSize, n)
               /\ p + g \in 1..Len(s) /\ t[p].index = s[p + g].index
               /\ t[p].rotation = IF b = c THEN s[p + g].rotation - 1 ELSE s[p + g].rotation
               /\ s[p + g].rotation \in Nat
    <2>1. p + g \in 1..Len(s)
      BY <1>3, <1>4
    <2>2. PICK x \in Nodes : x = s[p + g]
      BY <1>1, <2>1, NodeOf
    <2>3. NodeAt(x, b, c, n) /\ x.rotation \in Nat
      BY <2>1, <2>2 DEF ChainOf, Nodes
    <2>4. PICK r \in Nat : r = IF b = c THEN x.rotation - 1 ELSE x.rotation
      BY <1>3, <1>4, <2>2, <2>3
    <2>5. t[p] = [index |-> x.index, rotation |-> r,
                  wait |-> IF x.wait = 0 THEN 0 ELSE x.wait - 1]
      BY <1>3, <1>4, <2>2, <2>4
    <2>6. PICK y : y = t[p]
      OBVIOUS
    <2>7. y \in Nodes /\ NodeAt(y, b, (c + 1) % TimeWheelSize, n)
      BY <2>3, <2>4, <2>5, <2>6, TickedNode
    <2> QED  BY <2>1, <2>2, <2>3, <2>4, <2>5, <2>6, <2>7
  <1>6. t \in Seq(Nodes) /\ Len(t) = m
    <2>1. t = [p \in 1..Len(s) - g |-> t[p]]
      <3>1. t = Waited(IF b = c THEN Walk(s).chain ELSE s)
        BY <1>2 DEF Ticked
      <3> QED  BY <1>3, <3>1 DEF Waited
    <2>2. t \in [1..m -> Nodes]
      BY <1>4, <1>5, <2>1
    <2>3. t \in Seq(Nodes)
      BY <2>2, SeqDef
    <2> QED  BY <2>2, <2>3, LenProperties
  <1>7. Increasing(t)
    <2> SUFFICES ASSUME NEW p \in 1..m, NEW q \in 1..m, p < q
                 PROVE  t[p].index < t[q].index /\ t[p].rotation < t[q].rotation
      BY <1>6 DEF Increasing
    <2>1. p + g < q + g /\ p + g \in 1..Len(s) /\ q + g \in 1..Len(s)
      BY <1>3, <1>5
    <2>2. s[p + g].index < s[q + g].index /\ s[p + g].rotation < s[q + g].rotation
      BY <1>1, <2>1 DEF Increasing
    <2>3. PICK u \in Nat, v \in Nat : u = s[p + g].rotation /\ v = s[q + g].rotation
      BY <1>5
    <2>4. /\ t[p].rotation = IF b = c THEN u - 1 ELSE u
          /\ t[q].rotation = IF b = c THEN v - 1 ELSE v
      BY <1>5, <2>3
    <2>5. t[p].rotation < t[q].rotation
      BY <2>2, <2>3, <2>4
    <2>6. t[p].index < t[q].index
      BY <1>5, <2>2
    <2> QED  BY <2>5, <2>6
  <1>8. ChainOf(t, b, (c + 1) % TimeWheelSize, n)
    BY <1>5, <1>6, <1>7 DEF ChainOf
  <1> QED  BY <1>2, <1>8

-----------------------------------------------------------------------------
(* The invariant of a wheel w that stands at bucket c and was given n tasks. *)
WheelOf(w, c, n) ==
  /\ w \in [Buckets -> Seq(Nodes)]
  /\ c \in Buckets
  /\ n \in 0..MaxTasks
  /\ \A b \in Buckets : ChainOf(w[b], b, c, n)

(* What the chains and the rest of the state must be.                       *)
Rest ==
  /\ m_headindex \in {0, 255}
  /\ node_num \in [Levels -> 0..MaxTasks]
  /\ timer_node \in [Levels -> [Buckets -> Seq(Nodes)]]
  /\ current_index \in [Levels -> Buckets]
  /\ current_priority \in [Levels -> Levels]
  /\ s_num \in 0..MaxUrgentQueueSize
  /\ runs \in [Levels -> [Tasks -> Nat]]
  /\ cancelled \in [Levels -> SUBSET Tasks]

Wheels == \A l \in Levels : WheelOf(timer_node[l], current_index[l], node_num[l])

LEMMA InvParts == IInv <=> Rest /\ Wheels
  <1>1. 0 \in Levels
    BY TimerAssumption DEF TimerAssumption, Levels
  <1>2. TypeOK /\ OneWheel <=> Rest
    BY <1>1 DEF TypeOK, OneWheel, Rest
  <1>3. ASSUME Rest
        PROVE  NodesOK /\ ChainsOrdered /\ OnTime <=> Wheels
    <2>1. ASSUME NEW l \in Levels, NEW b \in Buckets
          PROVE  /\ timer_node[l][b] \in Seq(Nodes)
                 /\ DOMAIN timer_node[l][b] = 1..Len(timer_node[l][b])
      BY <1>3, LenProperties DEF Rest
    <2>2. ASSUME NodesOK, ChainsOrdered, OnTime
          PROVE  Wheels
      <3> SUFFICES ASSUME NEW l \in Levels
                   PROVE  WheelOf(timer_node[l], current_index[l], node_num[l])
        BY DEF Wheels
      <3>1. ASSUME NEW b \in Buckets
            PROVE  ChainOf(timer_node[l][b], b, current_index[l], node_num[l])
        <4>1. PICK s : s = timer_node[l][b]
          OBVIOUS
        <4>2. s \in Seq(Nodes) /\ DOMAIN s = 1..Len(s)
          BY <2>1, <4>1
        <4>3. Increasing(s)
          BY <2>2, <4>1, <4>2 DEF ChainsOrdered, Increasing
        <4>4. ASSUME NEW p \in 1..Len(s)
              PROVE  NodeAt(s[p], b, current_index[l], node_num[l])
          <5>1. s[p].wait = Left(l, b, s[p])
            BY <2>2, <4>1, <4>2 DEF OnTime
          <5>2. /\ b = Location(s[p].index) /\ s[p].index < node_num[l]
                /\ s[p].rotation <= Turns(s[p].index)
            BY <2>2, <4>1, <4>2 DEF NodesOK
          <5> QED  BY <5>1, <5>2 DEF NodeAt, Left
        <4> QED  BY <4>1, <4>2, <4>3, <4>4 DEF ChainOf
      <3>2. /\ timer_node[l] \in [Buckets -> Seq(Nodes)]
            /\ current_index[l] \in Buckets /\ node_num[l] \in 0..MaxTasks
        BY <1>3 DEF Rest
      <3> QED  BY <3>1, <3>2 DEF WheelOf
    <2>3. ASSUME Wheels
          PROVE  NodesOK /\ ChainsOrdered /\ OnTime
      <3>1. ASSUME NEW l \in Levels, NEW b \in Buckets
            PROVE  /\ Increasing(timer_node[l][b])
                   /\ \A p \in DOMAIN timer_node[l][b] :
                        NodeAt(timer_node[l][b][p], b, current_index[l], node_num[l])
        BY <2>1, <2>3 DEF Wheels, WheelOf, ChainOf
      <3>2. NodesOK
        BY <3>1 DEF NodesOK, NodeAt
      <3>3. ChainsOrdered
        BY <2>1, <3>1 DEF ChainsOrdered, Increasing
      <3>4. OnTime
        BY <3>1 DEF OnTime, NodeAt, Left
      <3> QED  BY <3>2, <3>3, <3>4
    <2> QED  BY <2>2, <2>3
  <1> QED  BY <1>2, <1>3 DEF IInv

(* A step changes one wheel at most: what it becomes.                       *)
Becomes(w, c, n) ==
  /\ timer_node' = [timer_node EXCEPT ![0] = w]
  /\ current_index' = [current_index EXCEPT ![0] = c]
  /\ node_num' = [node_num EXCEPT ![0] = n]

(* The other variables.                                                     *)
Others ==
  /\ m_headindex' \in {0, 255}
  /\ current_priority' \in [Levels -> Levels]
  /\ s_num' \in 0..MaxUrgentQueueSize
  /\ runs' \in [Levels -> [Tasks -> Nat]]
  /\ cancelled' \in [Levels -> SUBSET Tasks]

LEMMA BecomesKeeps ==
  ASSUME Rest, Wheels, Others,
         NEW w, NEW c, NEW n, WheelOf(w, c, n), Becomes(w, c, n)
  PROVE  Rest' /\ Wheels'
  <1>1. 0 \in Levels
    BY TimerAssumption DEF TimerAssumption, Levels
  <1>2. /\ w \in [Buckets -> Seq(Nodes)] /\ c \in Buckets /\ n \in 0..MaxTasks
    BY DEF WheelOf
  <1>3. /\ timer_node' \in [Levels -> [Buckets -> Seq(Nodes)]]
        /\ timer_node'[0] = w /\ \A l \in Levels : l # 0 => timer_node'[l] = timer_node[l]
    BY <1>1, <1>2 DEF Rest, Becomes
  <1>4. /\ current_index' \in [Levels -> Buckets]
        /\ current_index'[0] = c
        /\ \A l \in Levels : l # 0 => current_index'[l] = current_index[l]
    BY <1>1, <1>2 DEF Rest, Becomes
  <1>5. /\ node_num' \in [Levels -> 0..MaxTasks]
        /\ node_num'[0] = n /\ \A l \in Levels : l # 0 => node_num'[l] = node_num[l]
    BY <1>1, <1>2 DEF Rest, Becomes
  <1>6. Rest'
    BY <1>3, <1>4, <1>5 DEF Rest, Others
  <1>7. ASSUME NEW l \in Levels
        PROVE  WheelOf(timer_node'[l], current_index'[l], node_num'[l])
    <2>1. CASE l = 0
      BY <1>3, <1>4, <1>5, <2>1
    <2>2. CASE l # 0
      <3>1. WheelOf(timer_node[l], current_index[l], node_num[l])
        BY DEF Wheels
      <3> QED  BY <1>3, <1>4, <1>5, <2>2, <3>1
    <2> QED  BY <2>1, <2>2
  <1>8. Wheels'
    BY <1>7 DEF Wheels
  <1> QED  BY <1>6, <1>8

(* How often a tick runs a task.                                            *)
LEMMA TimesRan ==
  ASSUME NEW s, NEW i
  PROVE  Times(Ran(s), i) = IF Due(s) = 1 /\ s[1].index = i THEN 1 ELSE 0
  <1> DEFINE hits == {k \in DOMAIN Ran(s) : Ran(s)[k] = i}
  <1>1. CASE Due(s) = 1 /\ s[1].index = i
    <2>1. Ran(s) = <<i>>
      BY <1>1 DEF Ran
    <2>2. DOMAIN <<i>> = {1} /\ <<i>>[1] = i
      OBVIOUS
    <2>3. hits = {1}
      BY <2>1, <2>2
    <2> QED  BY <1>1, <2>3, FS_Singleton DEF Times
  <1>2. CASE Due(s) = 1 /\ s[1].index # i
    <2>1. PICK x : x = s[1].index
      OBVIOUS
    <2>2. Ran(s) = <<x>> /\ x # i
      BY <1>2, <2>1 DEF Ran
    <2>3. DOMAIN <<x>> = {1} /\ <<x>>[1] = x
      OBVIOUS
    <2>4. hits = {}
      BY <2>2, <2>3
    <2> QED  BY <1>2, <2>4, FS_EmptySet DEF Times
  <1>3. CASE Due(s) # 1
    <2>1. Ran(s) = <<>>
      BY <1>3 DEF Ran
    <2>2. hits = {}
      BY <2>1
    <2> QED  BY <1>3, <2>2, FS_EmptySet DEF Times
  <1> QED  BY <1>1, <1>2, <1>3

(* The state when the timer is in range: wheel 0.                           *)
LEMMA OnWheelZero ==
  ASSUME Rest, InRange
  PROVE  m_headindex = 0 /\ 0 \in Levels
  BY TimerAssumption DEF TimerAssumption, Levels, Rest, InRange

(* InsertTimerNode puts the new task at the end of its chain.               *)
LEMMA AddStep ==
  ASSUME Rest, Wheels, AddGeneralTask
  PROVE  Rest' /\ Wheels'
  <1>1. m_headindex = 0 /\ 0 \in Levels
    BY OnWheelZero DEF AddGeneralTask
  <1>2. PICK w, c, n : w = timer_node[0] /\ c = current_index[0] /\ n = node_num[0]
    OBVIOUS
  <1>3. WheelOf(w, c, n)
    BY <1>1, <1>2 DEF Wheels
  <1>4. PICK b : b = Location(n)
    OBVIOUS
  <1>5. n \in Tasks /\ n \in Nat /\ c \in Buckets /\ n + 1 \in 0..MaxTasks
    BY <1>1, <1>2, TimerAssumption DEF Rest, Tasks, AddGeneralTask, TimerAssumption
  <1>6. b \in Buckets /\ Turns(n) \in Nat
    BY <1>4, <1>5, DivMod DEF Buckets
  <1>7. PICK x : x = NewNode(0)
    OBVIOUS
  <1>8. x = [index |-> n, rotation |-> Turns(n),
             wait |-> Turns(n) * TimeWheelSize + Gap(c, b)]
    BY <1>2, <1>4, <1>7 DEF NewNode
  <1>9. x \in Nodes
    <2>1. Gap(c, b) \in Nat
      BY <1>5, <1>6, GapStep DEF Buckets
    <2>2. PICK t \in Nat, g \in Nat, S \in Nat :
            t = Turns(n) /\ g = Gap(c, b) /\ S = TimeWheelSize
      BY <1>6, <2>1, TimerAssumption DEF TimerAssumption
    <2>3. t * S + g \in Nat
      OBVIOUS
    <2>4. Turns(n) * TimeWheelSize + Gap(c, b) \in Nat
      BY <2>2, <2>3
    <2> QED  BY <1>5, <1>6, <1>8, <2>4 DEF Nodes
  <1>10. PICK v : v = [w EXCEPT ![b] = Append(w[b], x)]
    OBVIOUS
  <1>11. ChainOf(w[b], b, c, n)
    BY <1>3, <1>6 DEF WheelOf
  <1>12. ChainOf(Append(w[b], x), b, c, n + 1)
    BY <1>4, <1>5, <1>6, <1>8, <1>9, <1>11, ChainGrows
  <1>13. ASSUME NEW a \in Buckets
         PROVE  ChainOf(v[a], a, c, n + 1)
    <2>1. CASE a = b
      <3>1. v[a] = Append(w[b], x)
        BY <1>3, <1>10, <2>1 DEF WheelOf
      <3> QED  BY <1>12, <2>1, <3>1
    <2>2. CASE a # b
      <3>1. v[a] = w[a] /\ ChainOf(w[a], a, c, n)
        BY <1>3, <1>10, <2>2 DEF WheelOf
      <3>2. ASSUME NEW p \in 1..Len(w[a])
            PROVE  NodeAt(w[a][p], a, c, n + 1)
        <4>1. NodeAt(w[a][p], a, c, n) /\ w[a][p].index \in Nat
          BY <3>1, NodeOf DEF ChainOf
        <4>2. w[a][p].index < n + 1
          BY <1>5, <4>1 DEF NodeAt
        <4> QED  BY <4>1, <4>2 DEF NodeAt
      <3> QED  BY <3>1, <3>2 DEF ChainOf
    <2> QED  BY <2>1, <2>2
  <1>14. Append(w[b], x) \in Seq(Nodes)
    BY <1>12 DEF ChainOf
  <1>15. WheelOf(v, c, n + 1)
    <2>1. v \in [Buckets -> Seq(Nodes)]
      BY <1>3, <1>6, <1>10, <1>14 DEF WheelOf
    <2> QED  BY <1>5, <1>13, <2>1 DEF WheelOf
  <1>16. Becomes(v, c, n + 1)
    <2>1. timer_node' = [timer_node EXCEPT ![0] =
            [timer_node[0] EXCEPT ![b] = Append(timer_node[0][b], x)]]
      BY <1>1, <1>2, <1>4, <1>7 DEF AddGeneralTask
    <2>2. node_num' = [node_num EXCEPT ![0] = n + 1] /\ current_index' = current_index
      BY <1>1, <1>2 DEF AddGeneralTask
    <2>3. current_index = [current_index EXCEPT ![0] = c]
      BY <1>1, <1>2 DEF Rest
    <2> QED  BY <1>2, <1>10, <2>1, <2>2, <2>3 DEF Becomes
  <1>17. Others
    BY DEF AddGeneralTask, Rest, Others
  <1> QED  BY <1>15, <1>16, <1>17, BecomesKeeps

(* DeleteTimerNode unlinks a task from its chain, or finds none.            *)
LEMMA CancelStep ==
  ASSUME Rest, Wheels, NEW i \in Tasks, CancelTask(i)
  PROVE  Rest' /\ Wheels'
  <1>1. m_headindex = 0 /\ 0 \in Levels
    BY OnWheelZero DEF CancelTask
  <1>2. PICK w, c, n : w = timer_node[0] /\ c = current_index[0] /\ n = node_num[0]
    OBVIOUS
  <1>3. WheelOf(w, c, n)
    BY <1>1, <1>2 DEF Wheels
  <1>4. PICK b : b = Location(i)
    OBVIOUS
  <1>5. b \in Buckets
    BY <1>4, DivMod, TimerAssumption DEF Buckets, Tasks, TimerAssumption
  <1>6. ChainOf(Unlinked(w[b], i), b, c, n)
    BY <1>3, <1>5, ChainShrinks DEF WheelOf
  <1>7. PICK v : v = [w EXCEPT ![b] = Unlinked(w[b], i)]
    OBVIOUS
  <1>8. WheelOf(v, c, n)
    <2>1. Unlinked(w[b], i) \in Seq(Nodes)
      BY <1>6 DEF ChainOf
    <2>2. v \in [Buckets -> Seq(Nodes)]
      BY <1>3, <1>5, <1>7, <2>1 DEF WheelOf
    <2>3. \A a \in Buckets : v[a] = IF a = b THEN Unlinked(w[b], i) ELSE w[a]
      BY <1>3, <1>7 DEF WheelOf
    <2>4. \A a \in Buckets : ChainOf(v[a], a, c, n)
      BY <1>3, <1>6, <2>3 DEF WheelOf
    <2> QED  BY <1>3, <2>2, <2>4 DEF WheelOf
  <1>9. Becomes(v, c, n)
    <2>1. timer_node' = [timer_node EXCEPT ![0] =
            [timer_node[0] EXCEPT ![b] = Unlinked(timer_node[0][b], i)]]
      BY <1>1, <1>4 DEF CancelTask
    <2>2. node_num' = node_num /\ current_index' = current_index
      BY DEF CancelTask
    <2>3. /\ current_index = [current_index EXCEPT ![0] = c]
          /\ node_num = [node_num EXCEPT ![0] = n]
      BY <1>1, <1>2 DEF Rest
    <2> QED  BY <1>2, <1>7, <2>1, <2>2, <2>3 DEF Becomes
  <1>10. Others
    <2>1. cancelled[0] \cup {i} \in SUBSET Tasks
      BY <1>1 DEF Rest
    <2>2. cancelled' = cancelled \/ cancelled' = [cancelled EXCEPT ![0] = cancelled[0] \cup {i}]
      BY <1>1 DEF CancelTask
    <2>3. cancelled' \in [Levels -> SUBSET Tasks]
      <3>1. CASE cancelled' = cancelled
        BY <3>1 DEF Rest
      <3>2. CASE cancelled' = [cancelled EXCEPT ![0] = cancelled[0] \cup {i}]
        BY <2>1, <3>2 DEF Rest
      <3> QED  BY <2>2, <3>1, <3>2
    <2> QED  BY <2>3 DEF CancelTask, Rest, Others
  <1> QED  BY <1>8, <1>9, <1>10, BecomesKeeps

(* What a tick of wheel 0 does to its chains and to the runs.               *)
LEMMA TickFacts ==
  ASSUME Rest, Wheels, 0 \in Levels, TickTimerNode(0), NEW c, c = current_index[0]
  PROVE  /\ timer_node' = [timer_node EXCEPT ![0] =
                            [b \in Buckets |-> Ticked(timer_node[0][b], b, c)]]
         /\ runs' = [runs EXCEPT ![0] = [i \in Tasks |-> runs[0][i] +
                  IF Due(timer_node[0][c]) = 1 /\ timer_node[0][c][1].index = i
                  THEN 1 ELSE 0]]
         /\ current_index' = [current_index EXCEPT ![0] = (c + 1) % TimeWheelSize]
  <1>1. PICK s : s = timer_node[0][c]
    OBVIOUS
  <1>2. s \in Seq(Nodes) /\ Increasing(s)
    BY <1>1 DEF Wheels, WheelOf, ChainOf
  <1>3. PICK ran : ran = Walk(s).ran
    OBVIOUS
  <1>4. ran = Ran(s)
    BY <1>2, <1>3, WalkFacts
  <1>5. \A i \in Tasks : Times(ran, i) = IF Due(s) = 1 /\ s[1].index = i THEN 1 ELSE 0
    BY <1>4, TimesRan
  <1>6. timer_node' = [timer_node EXCEPT ![0] = [b \in Buckets |->
          Waited(IF b = c THEN Walk(s).chain ELSE timer_node[0][b])]]
    BY <1>1 DEF TickTimerNode
  <1>7. runs' = [runs EXCEPT ![0] = [i \in Tasks |-> runs[0][i] + Times(ran, i)]]
    BY <1>1, <1>3 DEF TickTimerNode
  <1>8. current_index' = [current_index EXCEPT ![0] = (c + 1) % TimeWheelSize]
    BY DEF TickTimerNode
  <1>9. \A b \in Buckets : Ticked(timer_node[0][b], b, c) =
          Waited(IF b = c THEN Walk(s).chain ELSE timer_node[0][b])
    BY <1>1 DEF Ticked
  <1>10. [b \in Buckets |-> Ticked(timer_node[0][b], b, c)] = [b \in Buckets |->
            Waited(IF b = c THEN Walk(s).chain ELSE timer_node[0][b])]
    BY <1>9
  <1>11. [i \in Tasks |-> runs[0][i] + Times(ran, i)] =
         [i \in Tasks |-> runs[0][i] + IF Due(s) = 1 /\ s[1].index = i THEN 1 ELSE 0]
    BY <1>5
  <1> QED  BY <1>1, <1>6, <1>7, <1>8, <1>10, <1>11

LEMMA TickStep ==
  ASSUME Rest, Wheels, 0 \in Levels, TickTimerNode(0),
         UNCHANGED <<m_headindex, node_num, current_priority, s_num, cancelled>>
  PROVE  Rest' /\ Wheels'
  <1>1. PICK w, c, n : w = timer_node[0] /\ c = current_index[0] /\ n = node_num[0]
    OBVIOUS
  <1>2. WheelOf(w, c, n)
    BY <1>1 DEF Wheels
  <1>3. c \in Buckets /\ (c + 1) % TimeWheelSize \in Buckets
    BY <1>2, GapStep DEF WheelOf, Buckets
  <1>4. PICK v : v = [b \in Buckets |-> Ticked(w[b], b, c)]
    OBVIOUS
  <1>5. ASSUME NEW b \in Buckets
        PROVE  ChainOf(v[b], b, (c + 1) % TimeWheelSize, n)
    <2>1. ChainOf(w[b], b, c, n)
      BY <1>2 DEF WheelOf
    <2>2. ChainOf(Ticked(w[b], b, c), b, (c + 1) % TimeWheelSize, n)
      BY <1>3, <2>1, ChainTicks
    <2> QED  BY <1>4, <2>2
  <1>6. v \in [Buckets -> Seq(Nodes)]
    <2>1. \A b \in Buckets : v[b] \in Seq(Nodes)
      BY <1>5 DEF ChainOf
    <2> QED  BY <1>4, <2>1
  <1>7. WheelOf(v, (c + 1) % TimeWheelSize, n)
    BY <1>2, <1>3, <1>5, <1>6 DEF WheelOf
  <1>8. Becomes(v, (c + 1) % TimeWheelSize, n)
    <2>1. /\ timer_node' = [timer_node EXCEPT ![0] = v]
          /\ current_index' = [current_index EXCEPT ![0] = (c + 1) % TimeWheelSize]
      BY <1>1, <1>4, TickFacts
    <2>2. node_num' = [node_num EXCEPT ![0] = n]
      BY <1>1 DEF Rest
    <2> QED  BY <2>1, <2>2 DEF Becomes
  <1>9. Others
    <2>1. PICK f : f = [i \in Tasks |-> runs[0][i] +
             IF Due(w[c]) = 1 /\ w[c][1].index = i THEN 1 ELSE 0]
      OBVIOUS
    <2>2. runs' = [runs EXCEPT ![0] = f]
      BY <1>1, <2>1, TickFacts
    <2>3. \A i \in Tasks : runs[0][i] \in Nat
      BY DEF Rest
    <2>4. f \in [Tasks -> Nat]
      BY <2>1, <2>3
    <2>5. runs' \in [Levels -> [Tasks -> Nat]]
      BY <2>2, <2>4 DEF Rest
    <2> QED  BY <2>5 DEF Rest, Others
  <1> QED  BY <1>7, <1>8, <1>9, BecomesKeeps

(* The calls that leave the wheels alone.                                   *)
LEMMA OtherStep ==
  ASSUME Rest, Wheels, UNCHANGED <<timer_node, current_index, node_num>>, Others
  PROVE  Rest' /\ Wheels'
  BY DEF Rest, Wheels, Others

(* The other wheels are out of reach.                                       *)
LEMMA NextWheelStep ==
  ASSUME Rest, TickNextWheel
  PROVE  /\ UNCHANGED <<timer_node, current_index, node_num, s_num, runs, cancelled>>
         /\ Others
  <1>1. m_headindex = 0 /\ 0 \in Levels
    BY OnWheelZero DEF TickNextWheel
  <1>2. m_headindex' = 255 /\ m_headindex' \notin Levels
    BY <1>1, NoOtherWheel DEF TickNextWheel
  <1>3. UNCHANGED <<timer_node, runs, current_index, node_num, s_num, cancelled>>
    BY <1>2 DEF TickNextWheel
  <1>4. PICK p : p = IF current_priority[0] < LowestTimeWheelLevel
                     THEN current_priority[0] + 1 ELSE current_priority[0]
    OBVIOUS
  <1>5. current_priority' = [current_priority EXCEPT ![0] = p]
    BY <1>1, <1>4 DEF TickNextWheel, Downgraded
  <1>6. p \in Levels
    <2>1. current_priority[0] \in Levels /\ TimeWheelLevelNum \in Nat
      BY <1>1, TimerAssumption DEF Rest, TimerAssumption
    <2> QED  BY <1>4, <2>1 DEF Levels, LowestTimeWheelLevel
  <1>7. current_priority' \in [Levels -> Levels]
    BY <1>5, <1>6 DEF Rest
  <1> QED  BY <1>2, <1>3, <1>7 DEF Rest, Others

LEMMA InvStep == Rest /\ Wheels /\ [Next]_vars => Rest' /\ Wheels'
  <1> SUFFICES ASSUME Rest, Wheels, [Next]_vars PROVE Rest' /\ Wheels'
    OBVIOUS
  <1>1. CASE UNCHANGED vars
    <2>1. UNCHANGED <<timer_node, current_index, node_num>> /\ Others
      BY <1>1 DEF vars, Rest, Others
    <2> QED  BY <2>1, OtherStep
  <1>2. CASE AddGeneralTask
    BY <1>2, AddStep
  <1>3. CASE AddUrgentTask
    <2>1. s_num' \in 0..MaxUrgentQueueSize
      BY <1>3, TimerAssumption DEF AddUrgentTask, Rest, TimerAssumption
    <2>2. UNCHANGED <<timer_node, current_index, node_num>> /\ Others
      BY <1>3, <2>1 DEF AddUrgentTask, Rest, Others
    <2> QED  BY <2>2, OtherStep
  <1>4. CASE SetTimer
    <2>1. 0 \in Levels /\ 0 \in 0..MaxUrgentQueueSize
      BY TimerAssumption DEF TimerAssumption, Levels
    <2>2. UNCHANGED <<timer_node, current_index, node_num>> /\ Others
      BY <1>4, <2>1 DEF SetTimer, Rest, Others, HighestTimeWheelLevel
    <2> QED  BY <2>2, OtherStep
  <1>5. ASSUME NEW i \in Tasks, CancelTask(i) PROVE Rest' /\ Wheels'
    BY <1>5, CancelStep
  <1>6. CASE TickSameWheel
    <2>1. m_headindex = 0 /\ 0 \in Levels
      BY <1>6, OnWheelZero DEF TickSameWheel
    <2>2. TickTimerNode(0)
          /\ UNCHANGED <<m_headindex, node_num, current_priority, s_num, cancelled>>
      BY <1>6, <2>1 DEF TickSameWheel
    <2> QED  BY <2>1, <2>2, TickStep
  <1>7. CASE TickNextWheel
    BY <1>7, NextWheelStep, OtherStep
  <1> QED
    BY <1>1, <1>2, <1>3, <1>4, <1>5, <1>6, <1>7 DEF Next, TickTask

LEMMA InvInit == Init => Rest /\ Wheels
  <1> SUFFICES ASSUME Init PROVE Rest /\ Wheels
    OBVIOUS
  <1>1. /\ TimeWheelSize \in Nat /\ TimeWheelSize > 0 /\ MaxTasks \in Nat
        /\ MaxUrgentQueueSize \in Nat /\ 0 \in Levels /\ 0 \in Buckets
    BY TimerAssumption DEF TimerAssumption, Levels, Buckets
  <1>2. <<>> \in Seq(Nodes) /\ Len(<<>>) = 0
    OBVIOUS
  <1>3. PICK w : w = [b \in Buckets |-> <<>>]
    OBVIOUS
  <1>4. w \in [Buckets -> Seq(Nodes)]
    BY <1>2, <1>3
  <1>5. timer_node = [l \in Levels |-> w]
    BY <1>3 DEF Init
  <1>6. Rest
    BY <1>1, <1>4, <1>5 DEF Init, Rest, HighestTimeWheelLevel
  <1>7. ASSUME NEW b, NEW c, NEW n
        PROVE  ChainOf(<<>>, b, c, n)
    BY <1>2 DEF ChainOf, Increasing
  <1>8. WheelOf(w, 0, 0)
    BY <1>1, <1>3, <1>4, <1>7 DEF WheelOf
  <1>9. Wheels
    BY <1>5, <1>8 DEF Init, Wheels
  <1> QED  BY <1>6, <1>9

(* The inductive invariant of the timer (timer.c:86-238) is an invariant.   *)
THEOREM Invariance == Spec => []IInv
  <1>1. Init => IInv
    BY InvInit, InvParts
  <1>2. IInv /\ [Next]_vars => IInv'
    <2>1. (IInv <=> Rest /\ Wheels)'
      BY InvParts, PTL
    <2> QED  BY <2>1, InvStep, InvParts
  <1> QED  BY <1>1, <1>2, PTL DEF Spec

(* Type correctness, with the fact that the feedback between wheels never
   reaches a second wheel.                                                  *)
THEOREM TypeCorrect == Spec => [](TypeOK /\ OneWheel)
  <1>1. IInv => TypeOK /\ OneWheel
    BY DEF IInv
  <1> QED  BY <1>1, Invariance, PTL

(* One tick hands its caller at most one task.                              *)
THEOREM AtMostOnePerTick == Spec => []OnePerTick
  <1>1. IInv => OnePerTick
    <2> SUFFICES ASSUME IInv, NEW l \in Levels
                 PROVE  Cardinality(RunNow(l)) <= 1
      BY DEF OnePerTick
    <2>1. PICK s : s = timer_node[l][current_index[l]]
      OBVIOUS
    <2>2. s \in Seq(Nodes) /\ Increasing(s)
      BY <2>1, InvParts DEF Wheels, WheelOf, ChainOf
    <2>3. RunNow(l) = {p \in 1..Len(s) : s[p].rotation = 0}
      BY <2>1, <2>2, LenProperties DEF RunNow
    <2>4. ASSUME NEW p \in RunNow(l), NEW q \in RunNow(l)
          PROVE  p = q
      <3>1. p \in 1..Len(s) /\ q \in 1..Len(s) /\ s[p].rotation = 0 /\ s[q].rotation = 0
        BY <2>3
      <3>2. ~(p < q) /\ ~(q < p)
        <4>1. ~(0 < 0)
          OBVIOUS
        <4> QED  BY <2>2, <3>1, <4>1 DEF Increasing
      <3> QED  BY <3>1, <3>2
    <2>5. CASE RunNow(l) = {}
      BY <2>5, FS_EmptySet
    <2>6. CASE RunNow(l) # {}
      <3>1. PICK p : p \in RunNow(l)
        BY <2>6
      <3>2. RunNow(l) = {p}
        BY <3>1, <2>4
      <3> QED  BY <3>2, FS_Singleton
    <2> QED  BY <2>5, <2>6
  <1> QED  BY <1>1, Invariance, PTL

(* A pending task runs at exactly the tick fixed when it was added.         *)
THEOREM TasksRunOnTime == Spec => []OnTime
  <1>1. IInv => OnTime
    BY DEF IInv
  <1> QED  BY <1>1, Invariance, PTL

-----------------------------------------------------------------------------
(* Whether a task stands in a chain, and on a wheel.                        *)
On(s, i) == \E p \in 1..Len(s) : s[p].index = i

In(w, i) == \E b \in Buckets : On(w[b], i)

LEMMA PendingIs ==
  ASSUME Rest, NEW l \in Levels, NEW i
  PROVE  Pending(l, i) <=> In(timer_node[l], i)
  <1>1. \A b \in Buckets : DOMAIN timer_node[l][b] = 1..Len(timer_node[l][b])
    BY LenProperties DEF Rest
  <1> QED  BY <1>1 DEF Pending, In, On

(* A task of a wheel stands in the bucket its index says, and was added.    *)
LEMMA InFacts ==
  ASSUME NEW w, NEW c, NEW n, WheelOf(w, c, n), NEW b \in Buckets, NEW i, On(w[b], i)
  PROVE  b = Location(i) /\ i < n
  BY DEF WheelOf, ChainOf, NodeAt, On

LEMMA OnAppend ==
  ASSUME NEW s \in Seq(Nodes), NEW x \in Nodes, NEW i
  PROVE  On(Append(s, x), i) <=> On(s, i) \/ x.index = i
  <1>1. PICK t : t = Append(s, x)
    OBVIOUS
  <1>2. /\ Len(s) \in Nat /\ Len(t) = Len(s) + 1 /\ t[Len(s) + 1] = x
        /\ \A p \in 1..Len(s) : t[p] = s[p]
    BY <1>1, AppendProperties, LenProperties
  <1>3. 1..Len(t) = 1..Len(s) \cup {Len(s) + 1}
    BY <1>2
  <1> QED  BY <1>1, <1>2, <1>3 DEF On

(* What DeleteTimerNode unlinks is the task it was asked for, and only that. *)
LEMMA OnUnlinked ==
  ASSUME NEW s \in Seq(Nodes), Increasing(s), NEW j, NEW i
  PROVE  /\ On(Unlinked(s, j), i) <=> On(s, i) /\ i # j
         /\ Found(s, j) = {} <=> ~On(s, j)
  <1>1. Len(s) \in Nat /\ DOMAIN s = 1..Len(s)
    BY LenProperties
  <1>2. Found(s, j) = {} <=> ~On(s, j)
    BY <1>1 DEF Found, On
  <1>3. CASE Found(s, j) = {} /\ Unlinked(s, j) = s
    BY <1>2, <1>3
  <1>4. CASE \E k \in 1..Len(s) : /\ Found(s, j) = {k} /\ s[k].index = j
                                  /\ Unlinked(s, j) = RemoveAt(s, k)
    <2>1. PICK k \in 1..Len(s) : /\ Found(s, j) = {k} /\ s[k].index = j
                                /\ Unlinked(s, j) = RemoveAt(s, k)
      BY <1>4
    <2>2. PICK t : t = RemoveAt(s, k)
      OBVIOUS
    <2>3. /\ Len(t) = Len(s) - 1
          /\ \A p \in 1..Len(s) - 1 : t[p] = s[IF p < k THEN p ELSE p + 1]
      BY <2>2, RemovedFacts
    <2>4. \A p \in 1..Len(s) : p # k => s[p].index # j
      BY <1>1, <2>1 DEF Found
    <2>5. ASSUME On(t, i) PROVE On(s, i) /\ i # j
      <3>1. PICK p \in 1..Len(t) : t[p].index = i
        BY <2>5 DEF On
      <3>2. PICK q : q = IF p < k THEN p ELSE p + 1
        OBVIOUS
      <3>3. q \in 1..Len(s) /\ q # k
        BY <1>1, <2>3, <3>1, <3>2
      <3>4. s[q].index = i
        BY <2>3, <3>1, <3>2
      <3> QED  BY <2>4, <3>3, <3>4 DEF On
    <2>6. ASSUME On(s, i), i # j PROVE On(t, i)
      <3>1. PICK q \in 1..Len(s) : s[q].index = i
        BY <2>6 DEF On
      <3>2. q # k
        BY <2>1, <2>6, <3>1
      <3>3. PICK p : p = IF q < k THEN q ELSE q - 1
        OBVIOUS
      <3>4. p \in 1..Len(s) - 1 /\ (IF p < k THEN p ELSE p + 1) = q
        BY <1>1, <3>2, <3>3
      <3>5. t[p].index = i
        BY <2>3, <3>1, <3>4
      <3> QED  BY <2>3, <3>4, <3>5 DEF On
    <2> QED  BY <1>2, <2>1, <2>2, <2>5, <2>6
  <1> QED  BY <1>3, <1>4, UnlinkedFacts

(* What a tick takes off a chain is the task it runs, and only that.        *)
LEMMA OnTicked ==
  ASSUME NEW s \in Seq(Nodes), Increasing(s), NEW b, NEW c, NEW i
  PROVE  On(Ticked(s, b, c), i)
           <=> On(s, i) /\ ~(b = c /\ Due(s) = 1 /\ s[1].index = i)
  <1>1. PICK g, t : g = Gone(s, b, c) /\ t = Ticked(s, b, c)
    OBVIOUS
  <1>2. /\ Len(s) \in Nat /\ g \in {0, 1} /\ g <= Len(s)
        /\ DOMAIN t = 1..Len(s) - g
        /\ \A p \in 1..Len(s) - g :
             p + g \in 1..Len(s) /\ t[p].index = s[p + g].index
    <2>1. /\ Len(s) \in Nat /\ g \in {0, 1} /\ g <= Len(s)
          /\ DOMAIN t = 1..Len(s) - g
      BY <1>1, TickedFacts
    <2>2. ASSUME NEW p \in 1..Len(s) - g
          PROVE  p + g \in 1..Len(s) /\ t[p].index = s[p + g].index
      <3>1. PICK x : x = s[p + g]
        OBVIOUS
      <3>2. /\ p + g \in 1..Len(s)
            /\ t[p] = [index |-> x.index,
                       rotation |-> IF b = c THEN x.rotation - 1 ELSE x.rotation,
                       wait |-> IF x.wait = 0 THEN 0 ELSE x.wait - 1]
        BY <1>1, <3>1, TickedFacts
      <3> QED  BY <3>1, <3>2
    <2> QED  BY <2>1, <2>2
  <1>3. g = 1 <=> b = c /\ Due(s) = 1
    BY <1>1 DEF Gone, Due
  <1>4. On(t, i) <=> \E p \in 1..Len(s) - g : s[p + g].index = i
    <2>1. PICK m \in Nat : m = Len(s) - g
      BY <1>2
    <2>2. Len(t) = m
      BY <1>2, <2>1
    <2> QED  BY <1>2, <2>1, <2>2 DEF On
  <1>5. CASE g = 0
    BY <1>1, <1>2, <1>3, <1>4, <1>5 DEF On
  <1>6. CASE g = 1
    <2>1. ASSUME NEW p \in 1..Len(s) - 1, s[p + 1].index = i
          PROVE  On(s, i) /\ s[1].index # i
      <3>1. p + 1 \in 1..Len(s) /\ 1 \in 1..Len(s) /\ 1 < p + 1
        BY <1>2
      <3>2. s[1].index < s[p + 1].index /\ s[1].index \in Nat
        BY <3>1, NodeOf DEF Increasing
      <3>3. s[1].index # i
        BY <2>1, <3>2
      <3> QED  BY <2>1, <3>1, <3>3 DEF On
    <2>2. ASSUME On(s, i), s[1].index # i
          PROVE  \E p \in 1..Len(s) - 1 : s[p + 1].index = i
      <3>1. PICK q \in 1..Len(s) : s[q].index = i
        BY <2>2 DEF On
      <3>2. q # 1
        BY <2>2, <3>1
      <3>3. q - 1 \in 1..Len(s) - 1 /\ q - 1 + 1 = q
        BY <1>2, <3>2
      <3> QED  BY <3>1, <3>3
    <2> QED  BY <1>1, <1>3, <1>4, <1>6, <2>1, <2>2
  <1> QED  BY <1>2, <1>5, <1>6

(* The books of a wheel: w its chains, r the runs, k the cancelled tasks, n
   the tasks added.                                                         *)
Books(w, r, k, n) ==
  /\ \A i \in Tasks : r[i] = IF i < n /\ i \notin k /\ ~In(w, i) THEN 1 ELSE 0
  /\ \A i \in k : i < n /\ ~In(w, i)

Accounts == \A l \in Levels :
  Books(timer_node[l], runs[l], cancelled[l], node_num[l])

LEMMA AccountsMean ==
  ASSUME Rest
  PROVE  Accounts <=> \A l \in Levels :
           /\ \A i \in Tasks :
                runs[l][i] = IF i < node_num[l] /\ i \notin cancelled[l] /\ ~Pending(l, i)
                             THEN 1 ELSE 0
           /\ \A i \in cancelled[l] : i < node_num[l] /\ ~Pending(l, i)
  <1>1. \A l \in Levels : \A i : Pending(l, i) <=> In(timer_node[l], i)
    BY PendingIs
  <1> QED  BY <1>1 DEF Accounts, Books

(* Adding, cancelling and running a task keep the books.                    *)
LEMMA AddBooks ==
  ASSUME Rest, Wheels, Accounts, AddGeneralTask
  PROVE  Books(timer_node'[0], runs'[0], cancelled'[0], node_num'[0])
  <1>1. m_headindex = 0 /\ 0 \in Levels
    BY OnWheelZero DEF AddGeneralTask
  <1>2. PICK w, r, k, n, c : /\ w = timer_node[0] /\ r = runs[0] /\ k = cancelled[0]
                             /\ n = node_num[0] /\ c = current_index[0]
    OBVIOUS
  <1>3. WheelOf(w, c, n) /\ Books(w, r, k, n)
    BY <1>1, <1>2 DEF Wheels, Accounts
  <1>4. PICK b : b = Location(n)
    OBVIOUS
  <1>5. n \in Tasks /\ n \in Nat /\ b \in Buckets
    <2>1. n \in Tasks /\ n \in Nat
      BY <1>1, <1>2, TimerAssumption DEF Rest, Tasks, AddGeneralTask, TimerAssumption
    <2> QED  BY <1>4, <2>1, DivMod DEF Buckets
  <1>6. PICK x : x = NewNode(0)
    OBVIOUS
  <1>7. PICK v : v = timer_node'[0]
    OBVIOUS
  <1>8. v = [w EXCEPT ![b] = Append(w[b], x)]
    <2>1. timer_node' = [timer_node EXCEPT ![0] =
            [timer_node[0] EXCEPT ![b] = Append(timer_node[0][b], x)]]
      BY <1>1, <1>2, <1>4, <1>6 DEF AddGeneralTask
    <2> QED  BY <1>1, <1>2, <1>7, <2>1 DEF Rest
  <1>9. Append(w[b], x) \in Seq(Nodes) /\ w[b] \in Seq(Nodes)
        /\ x.index = n
    <2>1. timer_node'[0] \in [Buckets -> Seq(Nodes)]
      BY <1>1, AddStep DEF Rest
    <2> QED  BY <1>2, <1>3, <1>5, <1>6, <1>7, <1>8, <2>1 DEF WheelOf, NewNode
  <1>10. x \in Nodes
    <2>1. PICK t \in Seq(Nodes) : t = Append(w[b], x)
      BY <1>9
    <2>2. Len(w[b]) \in Nat /\ Len(t) = Len(w[b]) + 1 /\ t[Len(w[b]) + 1] = x
      BY <1>9, <2>1, LenProperties
    <2> QED  BY <2>1, <2>2, NodeOf
  <1>11. ASSUME NEW i
         PROVE  In(v, i) <=> In(w, i) \/ i = n
    <2>1. On(v[b], i) <=> On(w[b], i) \/ i = n
      <3>1. v[b] = Append(w[b], x)
        BY <1>3, <1>5, <1>8 DEF WheelOf
      <3> QED  BY <1>9, <1>10, <3>1, OnAppend
    <2>2. \A a \in Buckets : a # b => v[a] = w[a]
      BY <1>3, <1>8 DEF WheelOf
    <2> QED  BY <1>5, <2>1, <2>2 DEF In
  <1>12. runs'[0] = r /\ cancelled'[0] = k /\ node_num'[0] = n + 1
    BY <1>1, <1>2 DEF AddGeneralTask, Rest
  <1>13. n \notin k
    BY <1>3, <1>5 DEF Books
  <1>14. \A i \in Tasks : i \in Nat /\ (i < n + 1 <=> i < n \/ i = n) /\ ~(n < n)
    BY <1>5, TimerAssumption DEF Tasks, TimerAssumption
  <1>15. k \subseteq Tasks
    BY <1>1, <1>2 DEF Rest
  <1>16. Books(v, r, k, n + 1)
    BY <1>3, <1>11, <1>13, <1>14, <1>15 DEF Books
  <1> QED  BY <1>7, <1>12, <1>16

LEMMA CancelBooks ==
  ASSUME Rest, Wheels, Accounts, NEW j \in Tasks, CancelTask(j)
  PROVE  Books(timer_node'[0], runs'[0], cancelled'[0], node_num'[0])
  <1>1. m_headindex = 0 /\ 0 \in Levels
    BY OnWheelZero DEF CancelTask
  <1>2. PICK w, r, k, n, c : /\ w = timer_node[0] /\ r = runs[0] /\ k = cancelled[0]
                             /\ n = node_num[0] /\ c = current_index[0]
    OBVIOUS
  <1>3. WheelOf(w, c, n) /\ Books(w, r, k, n)
    BY <1>1, <1>2 DEF Wheels, Accounts
  <1>4. PICK b : b = Location(j)
    OBVIOUS
  <1>5. b \in Buckets
    BY <1>4, DivMod, TimerAssumption DEF Buckets, Tasks, TimerAssumption
  <1>6. w[b] \in Seq(Nodes) /\ Increasing(w[b])
    BY <1>3, <1>5 DEF WheelOf, ChainOf
  <1>7. PICK v : v = timer_node'[0]
    OBVIOUS
  <1>8. v = [w EXCEPT ![b] = Unlinked(w[b], j)]
    BY <1>1, <1>2, <1>4, <1>7 DEF CancelTask, Rest
  <1>9. On(w[b], j) <=> In(w, j)
    BY <1>3, <1>4, <1>5, InFacts DEF In
  <1>10. ASSUME NEW i
         PROVE  In(v, i) <=> In(w, i) /\ i # j
    <2>1. v[b] = Unlinked(w[b], j) /\ \A a \in Buckets : a # b => v[a] = w[a]
      BY <1>3, <1>5, <1>8 DEF WheelOf
    <2>2. On(v[b], i) <=> On(w[b], i) /\ i # j
      BY <1>6, <2>1, OnUnlinked
    <2>3. ASSUME NEW a \in Buckets, a # b, On(w[a], i)
          PROVE  i # j
      BY <1>3, <1>4, <2>3, InFacts
    <2> QED  BY <1>5, <2>1, <2>2, <2>3 DEF In
  <1>11. Found(timer_node[0][Location(j)], j) = {} <=> ~In(w, j)
    <2>1. Found(w[b], j) = {} <=> ~On(w[b], j)
      BY <1>6, OnUnlinked
    <2> QED  BY <1>2, <1>4, <1>9, <2>1
  <1>12. runs'[0] = r /\ node_num'[0] = n
    BY <1>2 DEF CancelTask
  <1>13. CASE In(w, j)
    <2>1. cancelled' = [cancelled EXCEPT ![0] = cancelled[0] \cup {j}]
      BY <1>1, <1>11, <1>13 DEF CancelTask
    <2>2. cancelled'[0] = k \cup {j}
      BY <1>1, <1>2, <2>1 DEF Rest
    <2>3. j < n
      BY <1>3, <1>13, InFacts DEF In
    <2>4. Books(v, r, k \cup {j}, n)
      BY <1>3, <1>10, <1>13, <2>3 DEF Books
    <2> QED  BY <1>7, <1>12, <2>2, <2>4
  <1>14. CASE ~In(w, j)
    <2>1. cancelled'[0] = k
      BY <1>1, <1>2, <1>11, <1>14 DEF CancelTask
    <2>2. Books(v, r, k, n)
      BY <1>3, <1>10, <1>14 DEF Books
    <2> QED  BY <1>7, <1>12, <2>1, <2>2
  <1> QED  BY <1>13, <1>14

LEMMA TickBooks ==
  ASSUME Rest, Wheels, Accounts, 0 \in Levels, TickTimerNode(0),
         UNCHANGED <<node_num, cancelled>>
  PROVE  Books(timer_node'[0], runs'[0], cancelled'[0], node_num'[0])
  <1>1. PICK w, r, k, n, c : /\ w = timer_node[0] /\ r = runs[0] /\ k = cancelled[0]
                             /\ n = node_num[0] /\ c = current_index[0]
    OBVIOUS
  <1>2. WheelOf(w, c, n) /\ Books(w, r, k, n) /\ c \in Buckets
    BY <1>1 DEF Wheels, Accounts, WheelOf
  <1>3. PICK v, q : v = timer_node'[0] /\ q = runs'[0]
    OBVIOUS
  <1> DEFINE RunsNow(i) == Due(w[c]) = 1 /\ w[c][1].index = i
  <1>4. /\ v = [b \in Buckets |-> Ticked(w[b], b, c)]
        /\ q = [i \in Tasks |-> r[i] + IF RunsNow(i) THEN 1 ELSE 0]
    BY <1>1, <1>3, TickFacts DEF Rest
  <1>5. \A b \in Buckets : w[b] \in Seq(Nodes) /\ Increasing(w[b])
    BY <1>2 DEF WheelOf, ChainOf
  <1>6. ASSUME NEW i, RunsNow(i)
        PROVE  On(w[c], i)
    <2>1. Len(w[c]) \in Nat /\ Len(w[c]) > 0
      BY <1>2, <1>5, <1>6, LenProperties DEF Due
    <2>2. 1 \in 1..Len(w[c])
      BY <2>1
    <2> QED  BY <1>6, <2>2 DEF On
  <1>7. ASSUME NEW i
        PROVE  In(v, i) <=> In(w, i) /\ ~RunsNow(i)
    <2>1. ASSUME NEW b \in Buckets
          PROVE  On(v[b], i) <=> On(w[b], i) /\ ~(b = c /\ RunsNow(i))
      BY <1>4, <1>5, OnTicked
    <2>2. ASSUME NEW b \in Buckets, On(w[b], i), RunsNow(i)
          PROVE  b = c
      BY <1>2, <1>6, <2>2, InFacts
    <2> HIDE DEF RunsNow
    <2> QED  BY <2>1, <2>2 DEF In
  <1>8. ASSUME NEW i, RunsNow(i)
        PROVE  In(w, i) /\ i < n /\ i \notin k
    <2>1. On(w[c], i)
      BY <1>6, <1>8
    <2>2. In(w, i) /\ i < n
      BY <1>2, <2>1, InFacts DEF In
    <2> QED  BY <1>2, <2>2 DEF Books
  <1> HIDE DEF RunsNow
  <1>9. ASSUME NEW i \in Tasks
        PROVE  q[i] = IF i < n /\ i \notin k /\ ~In(v, i) THEN 1 ELSE 0
    <2>1. r[i] = IF i < n /\ i \notin k /\ ~In(w, i) THEN 1 ELSE 0
      BY <1>2 DEF Books
    <2>2. CASE RunsNow(i)
      <3>1. q[i] = r[i] + 1 /\ r[i] = 0
        BY <1>4, <1>8, <2>1, <2>2
      <3> QED  BY <1>7, <1>8, <2>2, <3>1
    <2>3. CASE ~RunsNow(i)
      <3>1. q[i] = r[i] + 0 /\ r[i] \in {0, 1}
        BY <1>4, <2>1, <2>3
      <3>2. q[i] = r[i]
        BY <3>1
      <3> QED  BY <1>7, <2>1, <2>3, <3>2
    <2> QED  BY <2>2, <2>3
  <1>10. \A i \in k : i < n /\ ~In(v, i)
    BY <1>2, <1>7 DEF Books
  <1>11. Books(v, q, k, n)
    BY <1>9, <1>10 DEF Books
  <1> QED  BY <1>1, <1>3, <1>11

LEMMA AccountsStep ==
  ASSUME Rest, Wheels, Accounts, [Next]_vars
  PROVE  Accounts'
  <1> DEFINE Zero == Books(timer_node'[0], runs'[0], cancelled'[0], node_num'[0])
             Same == \A l \in Levels \ {0} :
                       /\ timer_node'[l] = timer_node[l] /\ runs'[l] = runs[l]
                       /\ cancelled'[l] = cancelled[l] /\ node_num'[l] = node_num[l]
  <1>1. ASSUME Zero, Same
        PROVE  Accounts'
    <2>1. \A l \in Levels \ {0} : Books(timer_node'[l], runs'[l], cancelled'[l], node_num'[l])
      BY <1>1 DEF Accounts
    <2>2. \A l \in Levels : Books(timer_node'[l], runs'[l], cancelled'[l], node_num'[l])
      BY <1>1, <2>1
    <2> QED  BY <2>2 DEF Accounts
  <1>2. CASE UNCHANGED <<timer_node, runs, cancelled, node_num>>
    BY <1>2 DEF Accounts
  <1>3. CASE AddGeneralTask
    <2>1. m_headindex = 0 /\ 0 \in Levels
      BY <1>3, OnWheelZero DEF AddGeneralTask
    <2>2. Zero
      BY <1>3, AddBooks
    <2>3. Same
      BY <1>3, <2>1 DEF AddGeneralTask, Rest
    <2> QED  BY <1>1, <2>2, <2>3
  <1>4. ASSUME NEW i \in Tasks, CancelTask(i)
        PROVE  Accounts'
    <2>1. m_headindex = 0 /\ 0 \in Levels
      BY <1>4, OnWheelZero DEF CancelTask
    <2>2. Zero
      BY <1>4, CancelBooks
    <2>3. Same
      BY <1>4, <2>1 DEF CancelTask, Rest
    <2> QED  BY <1>1, <2>2, <2>3
  <1>5. CASE TickSameWheel
    <2>1. m_headindex = 0 /\ 0 \in Levels
      BY <1>5, OnWheelZero DEF TickSameWheel
    <2>2. TickTimerNode(0) /\ UNCHANGED <<node_num, cancelled>>
      BY <1>5, <2>1 DEF TickSameWheel
    <2>3. Zero
      BY <2>1, <2>2, TickBooks
    <2>4. PICK w, f : /\ timer_node' = [timer_node EXCEPT ![0] = w]
                      /\ runs' = [runs EXCEPT ![0] = f]
      BY <2>1, <2>2, TickFacts
    <2>5. Same
      BY <2>2, <2>4 DEF Rest
    <2> QED  BY <1>1, <2>3, <2>5
  <1>6. CASE TickNextWheel
    BY <1>2, <1>6, NextWheelStep
  <1>7. \/ UNCHANGED <<timer_node, runs, cancelled, node_num>>
        \/ AddGeneralTask \/ TickSameWheel \/ TickNextWheel
        \/ \E i \in Tasks : CancelTask(i)
    BY DEF Next, TickTask, vars, AddUrgentTask, SetTimer
  <1> QED  BY <1>2, <1>3, <1>4, <1>5, <1>6, <1>7

(* No task runs twice, runs after it was cancelled or is lost when a chain is
   walked or a node unlinked from its middle (timer.c:86-136).               *)
THEOREM NoTaskLost == Spec => []TasksAccounted
  <1>1. Init => Accounts
    <2> SUFFICES ASSUME Init PROVE Accounts
      OBVIOUS
    <2>1. ASSUME NEW l \in Levels, NEW i
          PROVE  ~In(timer_node[l], i)
      <3>1. ASSUME NEW b \in Buckets PROVE timer_node[l][b] = <<>>
        BY DEF Init
      <3>2. ~On(<<>>, i)
        BY DEF On
      <3> QED  BY <3>1, <3>2 DEF In
    <2>2. \A i \in Tasks : ~(i < 0)
      BY TimerAssumption DEF Tasks, TimerAssumption
    <2> QED  BY <2>1, <2>2 DEF Init, Accounts, Books
  <1>2. IInv /\ Accounts /\ [Next]_vars => Accounts'
    BY InvParts, AccountsStep
  <1>3. IInv /\ Accounts => TasksAccounted
    <2> SUFFICES ASSUME IInv, Accounts, NEW l \in Levels
                 PROVE  /\ \A i \in Tasks :
                             runs[l][i] = IF i < node_num[l] /\ i \notin cancelled[l]
                                             /\ ~Pending(l, i) THEN 1 ELSE 0
                        /\ \A i \in cancelled[l] : i < node_num[l] /\ ~Pending(l, i)
                        /\ \A b \in Buckets : \A p \in DOMAIN timer_node[l][b] :
                             LET i == timer_node[l][b][p].index IN
                             /\ b = Location(i) /\ i < node_num[l]
                             /\ Found(timer_node[l][b], i) = {p}
      BY DEF TasksAccounted
    <2>1. Rest /\ Wheels
      BY InvParts
    <2>2. ASSUME NEW b \in Buckets, NEW p \in DOMAIN timer_node[l][b]
          PROVE  LET i == timer_node[l][b][p].index IN
                 /\ b = Location(i) /\ i < node_num[l]
                 /\ Found(timer_node[l][b], i) = {p}
      <3>1. PICK s, i : s = timer_node[l][b] /\ i = timer_node[l][b][p].index
        OBVIOUS
      <3>2. /\ s \in Seq(Nodes) /\ Increasing(s)
            /\ \A x \in 1..Len(s) : NodeAt(s[x], b, current_index[l], node_num[l])
        BY <2>1, <3>1 DEF Wheels, WheelOf, ChainOf
      <3>3. DOMAIN s = 1..Len(s) /\ p \in 1..Len(s)
        BY <3>1, <3>2, LenProperties
      <3>4. b = Location(i) /\ i < node_num[l]
        BY <3>1, <3>2, <3>3 DEF NodeAt
      <3>5. p \in Found(s, i)
        BY <3>1, <3>3 DEF Found
      <3>6. \E k \in 1..Len(s) : Found(s, i) = {k}
        BY <3>2, <3>5, UnlinkedFacts
      <3> QED  BY <3>1, <3>4, <3>5, <3>6
    <2>3. /\ \A i \in Tasks :
               runs[l][i] = IF i < node_num[l] /\ i \notin cancelled[l] /\ ~Pending(l, i)
                            THEN 1 ELSE 0
          /\ \A i \in cancelled[l] : i < node_num[l] /\ ~Pending(l, i)
      BY <2>1, AccountsMean
    <2> QED  BY <2>2, <2>3
  <1> QED  BY <1>1, <1>2, <1>3, Invariance, PTL DEF Spec
=============================================================================
