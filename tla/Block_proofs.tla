---------------------------- MODULE Block_proofs ----------------------------
(***************************************************************************)
(* The invariants of Block for every set of threads, every pool of blocks   *)
(* and every number of spurious wake-ups.                                   *)
(***************************************************************************)
EXTENDS Block, Lock_proofs, SequenceTheorems

(* The number of threads at a place is a number.                            *)
LEMMA AtType ==
  ASSUME NEW x
  PROVE  IsFiniteSet(At(x)) /\ Cardinality(At(x)) \in Nat
  <1>1. IsFiniteSet(Threads) /\ At(x) \in SUBSET Threads
    BY BlockAssumption DEF BlockAssumption, At
  <1> QED  BY <1>1, FS_Subset, FS_CardinalityType

(* How the number of threads at a place changes when one thread moves.      *)
LEMMA GotoCounts ==
  ASSUME TypeOK, NEW t \in Threads, NEW b \in Places, Goto(t, b), pc[t] # b,
         NEW x \in Places
  PROVE  Cardinality(At(x)') =
              IF x = b THEN Cardinality(At(x)) + 1
              ELSE IF x = pc[t] THEN Cardinality(At(x)) - 1
              ELSE Cardinality(At(x))
  <1>1. IsFiniteSet(At(x)) /\ Cardinality(At(x)) \in Nat
    BY AtType
  <1>2. pc \in [Threads -> Places] /\ pc' = [pc EXCEPT ![t] = b]
    BY DEF TypeOK, Goto
  <1>3. CASE x = b
    <2>1. At(x)' = At(x) \cup {t} /\ t \notin At(x)
      BY <1>2, <1>3 DEF At
    <2> QED  BY <1>1, <1>3, <2>1, FS_AddElement
  <1>4. CASE x # b /\ x = pc[t]
    <2>1. At(x)' = At(x) \ {t} /\ t \in At(x)
      BY <1>2, <1>4 DEF At
    <2>2. Cardinality(At(x)') = Cardinality(At(x)) - 1
      BY <1>1, <2>1, FS_RemoveElement
    <2> QED  BY <1>4, <2>2
  <1>5. CASE x # b /\ x # pc[t]
    <2>1. At(x)' = At(x)
      BY <1>2, <1>5 DEF At
    <2> QED  BY <1>5, <2>1
  <1> QED  BY <1>3, <1>4, <1>5

(* The list after its first node left, and after a node joined its tail.    *)
Distinct == \A i, j \in 1..Len(free_list) : free_list[i] = free_list[j] => i = j

(* Taking the head of a list without repetition leaves one, without that block. *)
LEMMA ListGetout ==
  ASSUME TypeOK, Distinct, free_list # <<>>, free_list' = Tail(free_list)
  PROVE  /\ Head(free_list) \in Blocks /\ IsFree(Head(free_list))
         /\ free_list' \in Seq(Blocks)
         /\ Len(free_list') = Len(free_list) - 1
         /\ Distinct'
         /\ \A b : IsFree(b)' <=> IsFree(b) /\ b # Head(free_list)
  <1>1. free_list \in Seq(Blocks) /\ Len(free_list) \in Nat \ {0}
    BY EmptySeq DEF TypeOK
  <1>2. /\ Head(free_list) \in Blocks
        /\ free_list' \in Seq(Blocks)
        /\ Len(free_list') = Len(free_list) - 1
        /\ \A i \in 1..Len(free_list') : free_list'[i] = free_list[i+1]
    BY <1>1, HeadTailProperties
  <1>3. Head(free_list) = free_list[1] /\ 1 \in 1..Len(free_list)
    BY <1>1
  <1>4. IsFree(Head(free_list))
    BY <1>3 DEF IsFree
  <1>5. Distinct'
    <2> SUFFICES ASSUME NEW i \in 1..Len(free_list'), NEW j \in 1..Len(free_list'),
                        free_list'[i] = free_list'[j]
                 PROVE  i = j
      BY DEF Distinct
    <2>1. i+1 \in 1..Len(free_list) /\ j+1 \in 1..Len(free_list)
      BY <1>1, <1>2
    <2>2. free_list[i+1] = free_list[j+1]
      BY <1>2
    <2> QED  BY <2>1, <2>2 DEF Distinct
  <1>6. ASSUME NEW b PROVE IsFree(b)' <=> IsFree(b) /\ b # Head(free_list)
    <2>1. ASSUME IsFree(b)' PROVE IsFree(b) /\ b # Head(free_list)
      <3>1. PICK i \in 1..Len(free_list') : free_list'[i] = b
        BY <2>1 DEF IsFree
      <3>2. i+1 \in 1..Len(free_list) /\ free_list[i+1] = b /\ i+1 # 1
        BY <1>1, <1>2, <3>1
      <3> QED  BY <1>3, <3>2 DEF IsFree, Distinct
    <2>2. ASSUME IsFree(b), b # Head(free_list) PROVE IsFree(b)'
      <3>1. PICK i \in 1..Len(free_list) : free_list[i] = b
        BY <2>2 DEF IsFree
      <3>2. i # 1
        BY <1>3, <2>2, <3>1
      <3>3. i - 1 \in 1..Len(free_list') /\ (i - 1) + 1 = i
        BY <1>1, <1>2, <3>2
      <3>4. free_list'[i - 1] = b
        BY <1>2, <3>1, <3>3
      <3> QED  BY <3>3, <3>4 DEF IsFree
    <2> QED  BY <2>1, <2>2
  <1> QED  BY <1>2, <1>4, <1>5, <1>6

(* Adding a block that is not in a list without repetition leaves one.      *)
LEMMA ListAddTail ==
  ASSUME TypeOK, Distinct, NEW x \in Blocks, ~IsFree(x),
         free_list' = Append(free_list, x)
  PROVE  /\ free_list' \in Seq(Blocks)
         /\ Len(free_list') = Len(free_list) + 1
         /\ Distinct'
         /\ \A b : IsFree(b)' <=> IsFree(b) \/ b = x
  <1>1. free_list \in Seq(Blocks) /\ Len(free_list) \in Nat
    BY LenProperties DEF TypeOK
  <1>2. /\ free_list' \in Seq(Blocks)
        /\ Len(free_list') = Len(free_list) + 1
        /\ \A i \in 1..Len(free_list) : free_list'[i] = free_list[i]
        /\ free_list'[Len(free_list) + 1] = x
    BY <1>1, AppendProperties
  <1>3. \A i \in 1..Len(free_list') :
          i \in 1..Len(free_list) \/ i = Len(free_list) + 1
    BY <1>1, <1>2
  <1>4. \A i \in 1..Len(free_list) : free_list[i] # x
    BY DEF IsFree
  <1>5. Distinct'
    BY <1>2, <1>3, <1>4 DEF Distinct
  <1>6. \A i \in 1..Len(free_list) : i \in 1..Len(free_list')
    BY <1>1, <1>2
  <1>7. Len(free_list) + 1 \in 1..Len(free_list')
    BY <1>1, <1>2
  <1>8. \A b : IsFree(b)' <=> IsFree(b) \/ b = x
    BY <1>2, <1>3, <1>6, <1>7 DEF IsFree
  <1> QED  BY <1>2, <1>5, <1>8

-----------------------------------------------------------------------------
(* The semaphore and the threads on it.                                     *)
SyncOK ==
  /\ SemOK(allocate_sync, Threads)
  /\ pc \in [Threads -> Places]
  /\ Sleeping(allocate_sync) = At("asleep")

(* No thread sleeps in two places: one that moves between two places out of
   the semaphore leaves it alone.                                           *)
LEMMA MoveAwake ==
  ASSUME SyncOK, NEW t \in Threads, NEW b \in Places \ {"asleep"},
         Goto(t, b), pc[t] # "asleep"
  PROVE  pc' \in [Threads -> Places] /\ At("asleep")' = At("asleep")
  BY DEF SyncOK, Goto, At

(* A step preserves the type of the semaphore of the pool.                  *)
LEMMA SyncStepOK == TypeOK /\ [Next]_vars => SyncOK'
  <1> SUFFICES ASSUME TypeOK, [Next]_vars PROVE SyncOK'
    OBVIOUS
  <1> USE BlockAssumption DEF BlockAssumption
  <1>a. SyncOK /\ SemOK(allocate_sync, Threads) /\ IsFiniteSet(Threads)
    BY DEF TypeOK, SyncOK
  <1>b. /\ pc \in [Threads -> Places]
        /\ Sleeping(allocate_sync) = At("asleep")
    BY DEF TypeOK
  <1>c. \A x \in {"idle", "granted", "tried", "notify"} :
          x \in Places \ {"asleep"}
    BY DEF Places
  <1>1. CASE UNCHANGED vars
    BY <1>1, <1>a DEF vars, SyncOK, At
  <1>2. ASSUME NEW t \in Threads, Try(t) PROVE SyncOK'
    BY <1>2, <1>a, <1>c, MoveAwake DEF Try, SyncOK
  <1>3. ASSUME NEW t \in Threads, WaitTake(t) PROVE SyncOK'
    <2>1. t \notin Sleeping(allocate_sync)
      BY <1>3, <1>b DEF WaitTake, At
    <2>2. SemOK(allocate_sync', Threads)
          /\ Sleeping(allocate_sync') = Sleeping(allocate_sync)
      BY <1>3, <1>a, <2>1, SemTakeFacts DEF WaitTake
    <2>3. pc' \in [Threads -> Places] /\ At("asleep")' = At("asleep")
      BY <1>3, <1>a, <1>c, MoveAwake DEF WaitTake
    <2> QED  BY <1>b, <2>2, <2>3 DEF SyncOK
  <1>4. ASSUME NEW t \in Threads, WaitSleep(t) PROVE SyncOK'
    <2>1. t \notin Sleeping(allocate_sync)
      BY <1>4, <1>b DEF WaitSleep, At
    <2>2. SemOK(allocate_sync', Threads)
          /\ Sleeping(allocate_sync') = Sleeping(allocate_sync) \cup {t}
      BY <1>4, <1>a, <2>1, SemSleepFacts DEF WaitSleep
    <2>3. pc' \in [Threads -> Places] /\ At("asleep")' = At("asleep") \cup {t}
      BY <1>4, <1>b DEF WaitSleep, Goto, At, Places
    <2> QED  BY <1>b, <2>2, <2>3 DEF SyncOK
  <1>5. ASSUME NEW t \in Threads, NEW b \in Places \ {"asleep"}, Goto(t, b)
        PROVE  pc' \in [Threads -> Places] /\ At("asleep")' = At("asleep") \ {t}
    BY <1>5, <1>b DEF Goto, At
  <1>6. ASSUME NEW t \in Threads, WaitResume(t) PROVE SyncOK'
    <2>1. SemOK(allocate_sync', Threads)
          /\ Sleeping(allocate_sync') = Sleeping(allocate_sync) \ {t}
      BY <1>6, <1>a, SemResumeFacts DEF WaitResume
    <2>2. pc' \in [Threads -> Places] /\ At("asleep")' = At("asleep") \ {t}
      BY <1>6, <1>5, <1>c DEF WaitResume
    <2> QED  BY <1>b, <2>1, <2>2 DEF SyncOK
  <1>7. ASSUME NEW t \in Threads, WaitTimeout(t) PROVE SyncOK'
    <2>1. SemOK(allocate_sync', Threads)
          /\ Sleeping(allocate_sync') = Sleeping(allocate_sync) \ {t}
      BY <1>7, <1>a, SemTimeoutFacts DEF WaitTimeout
    <2>2. pc' \in [Threads -> Places] /\ At("asleep")' = At("asleep") \ {t}
      BY <1>7, <1>5, <1>c DEF WaitTimeout
    <2> QED  BY <1>b, <2>1, <2>2 DEF SyncOK
  <1>8. ASSUME NEW t \in Threads, WaitSpurious(t) PROVE SyncOK'
    <2>1. SemOK(allocate_sync', Threads)
          /\ Sleeping(allocate_sync') = Sleeping(allocate_sync)
      BY <1>8, <1>a, SpuriousFacts DEF WaitSpurious
    <2>2. pc' = pc /\ At("asleep")' = At("asleep")
      BY <1>8 DEF WaitSpurious, At
    <2> QED  BY <1>b, <2>1, <2>2 DEF SyncOK
  <1>9. ASSUME NEW t \in Threads, Fetch(t) \/ FetchNull(t) PROVE SyncOK'
    <2>1. pc[t] # "asleep" /\ Goto(t, "idle") /\ allocate_sync' = allocate_sync
      BY <1>9 DEF Fetch, FetchNull
    <2>2. pc' \in [Threads -> Places] /\ At("asleep")' = At("asleep")
      BY <2>1, <1>a, <1>c, MoveAwake
    <2> QED  BY <1>a, <1>b, <2>1, <2>2 DEF SyncOK
  <1>10. ASSUME NEW t \in Threads, FreeNotify(t) PROVE SyncOK'
    <2>1. SemOK(allocate_sync', Threads)
          /\ Sleeping(allocate_sync') = Sleeping(allocate_sync)
      BY <1>10, <1>a, SemNotifyFacts DEF FreeNotify
    <2>2. pc[t] # "asleep" /\ Goto(t, "idle")
      BY <1>10 DEF FreeNotify
    <2>3. pc' \in [Threads -> Places] /\ At("asleep")' = At("asleep")
      BY <2>2, <1>a, <1>c, MoveAwake
    <2> QED  BY <1>b, <2>1, <2>3 DEF SyncOK
  <1>11. ASSUME NEW t \in Threads, NEW h \in Threads, NEW b \in Blocks,
                FreeLink(t, h, b)
         PROVE  SyncOK'
    <2>1. pc[t] # "asleep" /\ Goto(t, "notify") /\ allocate_sync' = allocate_sync
      BY <1>11 DEF FreeLink
    <2>2. pc' \in [Threads -> Places] /\ At("asleep")' = At("asleep")
      BY <2>1, <1>a, <1>c, MoveAwake
    <2> QED  BY <1>a, <1>b, <2>1, <2>2 DEF SyncOK
  <1> QED
    BY <1>1, <1>2, <1>3, <1>4, <1>6, <1>7, <1>8, <1>9, <1>10, <1>11 DEF Next

(* The free list, the handed-out blocks and the history.                    *)
PoolOK ==
  /\ free_list \in Seq(Blocks)
  /\ held \in [Threads -> SUBSET Blocks]
  /\ surplus \in Int
  /\ spurious \in 0..MaxSpurious

(* The type invariant is that of the semaphore and that of the rest.        *)
LEMMA TypeParts == TypeOK <=> SyncOK /\ PoolOK
  BY DEF TypeOK, SyncOK, PoolOK

(* A step preserves the type of the rest of the pool.                       *)
LEMMA PoolStepOK == TypeOK /\ [Next]_vars => PoolOK'
  <1> SUFFICES ASSUME TypeOK, [Next]_vars PROVE PoolOK'
    OBVIOUS
  <1>a. PoolOK /\ MaxSpurious \in Nat
    BY TypeParts, BlockAssumption DEF BlockAssumption
  <1>1. CASE UNCHANGED <<free_list, held, surplus, spurious>>
    BY <1>1, <1>a DEF PoolOK
  <1>2. ASSUME NEW t \in Threads, WaitSpurious(t) PROVE PoolOK'
    <2>1. spurious' = spurious + 1 /\ spurious < MaxSpurious
          /\ UNCHANGED <<free_list, held, surplus>>
      BY <1>2 DEF WaitSpurious
    <2> QED  BY <2>1, <1>a DEF PoolOK
  <1>3. ASSUME NEW t \in Threads, Fetch(t) PROVE PoolOK'
    <2>1. Head(free_list) \in Blocks /\ Tail(free_list) \in Seq(Blocks)
      BY <1>3, <1>a, HeadTailProperties DEF Fetch, PoolOK
    <2>2. held' \in [Threads -> SUBSET Blocks]
      <3>1. held' = [held EXCEPT ![t] = held[t] \cup {Head(free_list)}]
        BY <1>3 DEF Fetch
      <3> QED  BY <3>1, <2>1, <1>a DEF PoolOK
    <2>3. free_list' = Tail(free_list) /\ surplus' = surplus + Gain(t)
          /\ spurious' = spurious
      BY <1>3 DEF Fetch
    <2>4. Gain(t) \in Int
      BY DEF Gain
    <2> QED  BY <2>1, <2>2, <2>3, <2>4, <1>a DEF PoolOK
  <1>4. ASSUME NEW t \in Threads, FetchNull(t) PROVE PoolOK'
    BY <1>4, <1>a DEF FetchNull, PoolOK, Loss
  <1>5. ASSUME NEW t \in Threads, NEW h \in Threads, NEW b \in Blocks,
               FreeLink(t, h, b)
        PROVE  PoolOK'
    <2>1. Append(free_list, b) \in Seq(Blocks)
      BY <1>a, AppendProperties DEF PoolOK
    <2>2. held' = [held EXCEPT ![h] = held[h] \ {b}]
          /\ free_list' = Append(free_list, b)
          /\ UNCHANGED <<surplus, spurious>>
      BY <1>5 DEF FreeLink
    <2>3. held' \in [Threads -> SUBSET Blocks]
      BY <2>2, <1>a DEF PoolOK
    <2> QED  BY <2>1, <2>2, <2>3, <1>a DEF PoolOK
  <1>6. \/ UNCHANGED <<free_list, held, surplus, spurious>>
        \/ \E t \in Threads : WaitSpurious(t) \/ Fetch(t) \/ FetchNull(t)
        \/ \E t \in Threads, h \in Threads, b \in Blocks : FreeLink(t, h, b)
    BY DEF Next, vars, Try, WaitTake, WaitSleep, WaitResume, WaitTimeout,
           FreeNotify
  <1> QED  BY <1>1, <1>2, <1>3, <1>4, <1>5, <1>6

(* What BlockInit builds.                                                   *)
LEMMA InitFacts ==
  ASSUME Init
  PROVE  /\ TypeOK /\ Distinct
         /\ Len(free_list) = Cardinality(Blocks)
         /\ \A x \in Places \ {"idle"} : At(x) = {}
         /\ \A b \in Blocks : IsFree(b)
  <1> DEFINE n == Cardinality(Blocks)
  <1>1. n \in Nat /\ IsFiniteSet(Blocks) /\ MaxSpurious \in Nat
    BY BlockAssumption, FS_CardinalityType DEF BlockAssumption
  <1>2. /\ free_list \in [1..n -> Blocks]
        /\ \A i, j \in 1..n : free_list[i] = free_list[j] => i = j
    BY DEF Init
  <1>3. free_list \in Seq(Blocks) /\ Len(free_list) = n
    BY <1>1, <1>2
  <1>4. Distinct
    BY <1>2, <1>3 DEF Distinct
  <1>5. pc = [t \in Threads |-> "idle"] /\ allocate_sync = SemInit(n)
    BY DEF Init
  <1>6. \A x \in Places \ {"idle"} : At(x) = {}
    BY <1>5 DEF At
  <1>7. SyncOK
    <2>1. SemOK(allocate_sync, Threads) /\ Sleeping(allocate_sync) = {}
      BY <1>1, <1>5, SemInitFacts
    <2>2. At("asleep") = {}
      BY <1>6 DEF Places
    <2> QED  BY <2>1, <2>2, <1>5 DEF SyncOK, Places
  <1>8. PoolOK
    BY <1>1, <1>3 DEF Init, PoolOK
  <1>9. free_list \in Surjection(1..n, Blocks)
    <2>1. free_list \in Injection(1..n, Blocks)
      BY <1>2 DEF Injection, IsInjective
    <2>2. IsFiniteSet(1..n) /\ Cardinality(1..n) = n
      BY <1>1, FS_Interval
    <2> QED  BY <2>1, <2>2, <1>1, FS_Injection
  <1>10. \A b \in Blocks : IsFree(b)
    BY <1>3, <1>9 DEF Surjection, IsFree
  <1> QED  BY <1>3, <1>4, <1>6, <1>7, <1>8, <1>10, TypeParts

(* The variables of Block keep their types; in particular the threads asleep
   in BlockAlloc are exactly the ones the semaphore knows of.               *)
THEOREM TypeCorrect == Spec => []TypeOK
  <1>1. Init => TypeOK
    BY InitFacts
  <1>2. TypeOK /\ [Next]_vars => TypeOK'
    <2>1. (TypeOK <=> SyncOK /\ PoolOK)'
      BY TypeParts, PTL
    <2> QED  BY <2>1, SyncStepOK, PoolStepOK
  <1> QED  BY <1>1, <1>2, PTL DEF Spec

-----------------------------------------------------------------------------
(* Where the blocks are: only a locked GetoutHeadnode and a locked
   AddLinklistnodeTail move one, each from one place to one other.          *)
LEMMA ConservedStep ==
  TypeOK /\ BlocksConserved /\ [Next]_vars => BlocksConserved'
  <1> SUFFICES ASSUME TypeOK, BlocksConserved, [Next]_vars
               PROVE  BlocksConserved'
    OBVIOUS
  <1>a. Distinct
    BY DEF BlocksConserved, Exclusive, Distinct
  <1>b. /\ \A b \in Blocks : IsFree(b) => \A t \in Threads : b \notin held[t]
        /\ \A t, u \in Threads : t # u => held[t] \cap held[u] = {}
        /\ \A b \in Blocks : IsFree(b) \/ \E t \in Threads : b \in held[t]
    BY DEF BlocksConserved, Exclusive, NothingLost
  <1>c. held \in [Threads -> SUBSET Blocks]
    BY DEF TypeOK
  <1>1. CASE UNCHANGED <<free_list, held>>
    BY <1>1 DEF BlocksConserved, Exclusive, NothingLost, IsFree
  <1>2. ASSUME NEW t \in Threads, Fetch(t) PROVE BlocksConserved'
    <2> DEFINE x == Head(free_list)
    <2>1. free_list # <<>> /\ free_list' = Tail(free_list)
          /\ held' = [held EXCEPT ![t] = held[t] \cup {x}]
      BY <1>2 DEF Fetch
    <2>2. /\ x \in Blocks /\ IsFree(x)
          /\ Distinct'
          /\ \A b : IsFree(b)' <=> IsFree(b) /\ b # x
      BY <2>1, <1>a, ListGetout
    <2> HIDE DEF x
    <2>3. /\ held'[t] = held[t] \cup {x}
          /\ \A u \in Threads : u # t => held'[u] = held[u]
      BY <2>1, <1>c
    <2>4. \A u \in Threads : x \notin held[u]
      BY <2>2, <1>b
    <2>5. \A b \in Blocks : IsFree(b)' => \A u \in Threads : b \notin held'[u]
      BY <2>2, <2>3, <1>b
    <2>6. \A u, v \in Threads : u # v => held'[u] \cap held'[v] = {}
      BY <2>3, <2>4, <1>b
    <2>7. \A b \in Blocks : IsFree(b)' \/ \E u \in Threads : b \in held'[u]
      BY <2>2, <2>3, <1>b
    <2> QED
      BY <2>2, <2>5, <2>6, <2>7
      DEF BlocksConserved, Exclusive, NothingLost, Distinct
  <1>3. ASSUME NEW t \in Threads, NEW h \in Threads, NEW x \in Blocks,
               FreeLink(t, h, x)
        PROVE  BlocksConserved'
    <2>1. x \in held[h] /\ free_list' = Append(free_list, x)
          /\ held' = [held EXCEPT ![h] = held[h] \ {x}]
      BY <1>3 DEF FreeLink
    <2>2. ~IsFree(x)
      BY <2>1, <1>b
    <2>3. Distinct' /\ \A b : IsFree(b)' <=> IsFree(b) \/ b = x
      BY <2>1, <2>2, <1>a, ListAddTail
    <2>4. /\ held'[h] = held[h] \ {x}
          /\ \A u \in Threads : u # h => held'[u] = held[u]
      BY <2>1, <1>c
    <2>5. \A u \in Threads : x \notin held'[u]
      BY <2>1, <2>4, <1>b
    <2>6. \A b \in Blocks : IsFree(b)' => \A u \in Threads : b \notin held'[u]
      BY <2>3, <2>4, <2>5, <1>b
    <2>7. \A u, v \in Threads : u # v => held'[u] \cap held'[v] = {}
      BY <2>4, <1>b
    <2>8. \A b \in Blocks : IsFree(b)' \/ \E u \in Threads : b \in held'[u]
      BY <2>3, <2>4, <1>b
    <2> QED
      BY <2>3, <2>6, <2>7, <2>8
      DEF BlocksConserved, Exclusive, NothingLost, Distinct
  <1>4. \/ UNCHANGED <<free_list, held>>
        \/ \E t \in Threads : Fetch(t)
        \/ \E t \in Threads, h \in Threads, b \in Blocks : FreeLink(t, h, b)
    BY DEF Next, vars, Try, WaitTake, WaitSleep, WaitResume, WaitTimeout,
           WaitSpurious, FetchNull, FreeNotify
  <1> QED  BY <1>1, <1>2, <1>3, <1>4

(* No block is ever handed to two callers, in the list twice, or lost,
   whatever the semaphore grants and whoever skipped it.                    *)
THEOREM BlocksAreConserved == Spec => []BlocksConserved
  <1>1. Init => BlocksConserved
    <2> SUFFICES ASSUME Init PROVE BlocksConserved
      OBVIOUS
    <2>1. Distinct /\ \A b \in Blocks : IsFree(b)
      BY InitFacts
    <2>2. \A t \in Threads : held[t] = {}
      BY DEF Init
    <2> QED  BY <2>1, <2>2 DEF BlocksConserved, Exclusive, NothingLost, Distinct
  <1> QED  BY <1>1, ConservedStep, TypeCorrect, PTL DEF Spec

-----------------------------------------------------------------------------
(* The numbers of one step: what it does to the count, the balance and the
   promise of the semaphore, to the threads on their way, to the length of
   the list and to the surplus.                                             *)
Numbers(dc, dg, dn, dl, ds) ==
  /\ allocate_sync.count' = allocate_sync.count + dc
  /\ Cardinality(At("granted"))' = Cardinality(At("granted")) + dg
  /\ Cardinality(At("notify"))' = Cardinality(At("notify")) + dn
  /\ Len(free_list)' = Len(free_list) + dl
  /\ surplus' = surplus + ds

(* A step whose changes add up on both sides preserves PermitsAccounted.    *)
LEMMA NumbersBalance ==
  ASSUME TypeOK, PermitsAccounted,
         NEW dc \in Int, NEW dg \in Int, NEW dn \in Int, NEW dl \in Int,
         NEW ds \in Int, Numbers(dc, dg, dn, dl, ds), dc + dg + dn = dl + ds
  PROVE  PermitsAccounted'
  <1>1. /\ allocate_sync.count \in Int /\ Len(free_list) \in Nat
        /\ surplus \in Int
    BY LenProperties DEF TypeOK, SemOK, Sems
  <1>2. Cardinality(At("granted")) \in Nat /\ Cardinality(At("notify")) \in Nat
    BY AtType
  <1> DEFINE c == allocate_sync.count
             g == Cardinality(At("granted"))
             n == Cardinality(At("notify"))
             k == Len(free_list)
  <1>3. c + g + n = k + surplus
    BY DEF PermitsAccounted
  <1>4. c \in Int /\ g \in Int /\ n \in Int /\ k \in Int /\ surplus \in Int
    BY <1>1, <1>2
  <1>5. (c + dc) + (g + dg) + (n + dn) = (k + dl) + (surplus + ds)
    <2> HIDE DEF c, g, n, k
    <2> QED  BY <1>3, <1>4
  <1> QED  BY <1>5 DEF Numbers, PermitsAccounted

(* The counts that PermitsAccounted reads, when a thread moves.             *)
LEMMA MoveCounts ==
  ASSUME TypeOK, NEW t \in Threads, NEW b \in Places, Goto(t, b), pc[t] # b
  PROVE  /\ Cardinality(At("granted"))' =
              IF b = "granted" THEN Cardinality(At("granted")) + 1
              ELSE IF pc[t] = "granted" THEN Cardinality(At("granted")) - 1
              ELSE Cardinality(At("granted"))
         /\ Cardinality(At("notify"))' =
              IF b = "notify" THEN Cardinality(At("notify")) + 1
              ELSE IF pc[t] = "notify" THEN Cardinality(At("notify")) - 1
              ELSE Cardinality(At("notify"))
  <1>1. "granted" \in Places /\ "notify" \in Places
    BY DEF Places
  <1>2. \A x \in Places :
          Cardinality(At(x)') =
              IF x = b THEN Cardinality(At(x)) + 1
              ELSE IF x = pc[t] THEN Cardinality(At(x)) - 1
              ELSE Cardinality(At(x))
    BY GotoCounts
  <1> QED  BY <1>1, <1>2

(* Each step moves a permit from one place to another, moves a block that
   carries its permit along, or pays the difference into the surplus.        *)
LEMMA PermitsStep == TypeOK /\ PermitsAccounted /\ [Next]_vars => PermitsAccounted'
  <1> SUFFICES ASSUME TypeOK, PermitsAccounted, [Next]_vars
               PROVE  PermitsAccounted'
    OBVIOUS
  <1>a. /\ allocate_sync.count \in Int /\ Len(free_list) \in Nat
        /\ surplus \in Int /\ free_list \in Seq(Blocks)
        /\ SemOK(allocate_sync, Threads) /\ IsFiniteSet(Threads)
    BY LenProperties, BlockAssumption DEF TypeOK, SemOK, Sems, BlockAssumption
  <1>b. Cardinality(At("granted")) \in Nat /\ Cardinality(At("notify")) \in Nat
    BY AtType
  <1>c. \A x \in {"idle", "asleep", "granted", "tried", "notify"} : x \in Places
    BY DEF Places
  <1>d. \A t \in Sleeping(allocate_sync) : t \in Threads /\ pc[t] = "asleep"
    BY DEF TypeOK, At
  <1> USE <1>a, <1>b, <1>c
  <1>1. CASE UNCHANGED vars
    <2>1. Numbers(0, 0, 0, 0, 0)
      BY <1>1 DEF vars, Numbers, At
    <2> QED  BY <2>1, NumbersBalance
  <1>2. ASSUME NEW t \in Threads, Try(t) PROVE PermitsAccounted'
    <2>1. Numbers(0, 0, 0, 0, 0)
      BY <1>2, MoveCounts DEF Try, Numbers
    <2> QED  BY <2>1, NumbersBalance
  <1>3. ASSUME NEW t \in Threads, WaitTake(t) PROVE PermitsAccounted'
    <2>1. t \notin Sleeping(allocate_sync)
      BY <1>3, <1>d DEF WaitTake
    <2>2. Numbers(-1, 1, 0, 0, 0)
      BY <1>3, <2>1, MoveCounts, SemTakeFacts DEF WaitTake, Numbers
    <2> QED  BY <2>2, NumbersBalance
  <1>4. ASSUME NEW t \in Threads, WaitSleep(t) PROVE PermitsAccounted'
    <2>1. t \notin Sleeping(allocate_sync)
      BY <1>4, <1>d DEF WaitSleep
    <2>2. Numbers(0, 0, 0, 0, 0)
      BY <1>4, <2>1, MoveCounts, SemSleepFacts DEF WaitSleep, Numbers
    <2> QED  BY <2>2, NumbersBalance
  <1>5. ASSUME NEW t \in Threads, WaitResume(t) PROVE PermitsAccounted'
    <2>1. pc[t] = "asleep"
      BY <1>5, <1>d DEF WaitResume, Sleeping
    <2>2. Numbers(-1, 1, 0, 0, 0)
      BY <1>5, <2>1, MoveCounts, SemResumeFacts DEF WaitResume, Numbers
    <2> QED  BY <2>2, NumbersBalance
  <1>6. ASSUME NEW t \in Threads, WaitTimeout(t) PROVE PermitsAccounted'
    <2>1. pc[t] = "asleep"
      BY <1>6, <1>d DEF WaitTimeout, MayTimeOut, Sleeping
    <2>2. Numbers(0, 0, 0, 0, 0)
      BY <1>6, <2>1, MoveCounts, SemTimeoutFacts DEF WaitTimeout, Numbers
    <2> QED  BY <2>2, NumbersBalance
  <1>7. ASSUME NEW t \in Threads, WaitSpurious(t) PROVE PermitsAccounted'
    <2>1. Numbers(0, 0, 0, 0, 0)
      BY <1>7, SpuriousFacts DEF WaitSpurious, Numbers, At
    <2> QED  BY <2>1, NumbersBalance
  <1>8. ASSUME NEW t \in Threads, Fetch(t) PROVE PermitsAccounted'
    <2>1. /\ Len(free_list)' = Len(free_list) - 1
          /\ surplus' = surplus + Gain(t)
          /\ allocate_sync' = allocate_sync
          /\ Goto(t, "idle") /\ pc[t] \in {"granted", "tried"}
      BY <1>8, HeadTailProperties DEF Fetch
    <2>2. CASE pc[t] = "granted"
      <3>1. Numbers(0, -1, 0, -1, 0)
        BY <2>1, <2>2, MoveCounts DEF Numbers, Gain
      <3> QED  BY <3>1, NumbersBalance
    <2>3. CASE pc[t] = "tried"
      <3>1. Numbers(0, 0, 0, -1, 1)
        BY <2>1, <2>3, MoveCounts DEF Numbers, Gain
      <3> QED  BY <3>1, NumbersBalance
    <2> QED  BY <2>1, <2>2, <2>3
  <1>9. ASSUME NEW t \in Threads, FetchNull(t) PROVE PermitsAccounted'
    <2>1. CASE pc[t] = "granted"
      <3>1. Numbers(0, -1, 0, 0, -1)
        BY <1>9, <2>1, MoveCounts DEF FetchNull, Numbers, Loss
      <3> QED  BY <3>1, NumbersBalance
    <2>2. CASE pc[t] = "tried"
      <3>1. Numbers(0, 0, 0, 0, 0)
        BY <1>9, <2>2, MoveCounts DEF FetchNull, Numbers, Loss
      <3> QED  BY <3>1, NumbersBalance
    <2> QED  BY <1>9, <2>1, <2>2 DEF FetchNull
  <1>10. ASSUME NEW t \in Threads, NEW h \in Threads, NEW b \in Blocks,
                FreeLink(t, h, b)
         PROVE  PermitsAccounted'
    <2>1. Numbers(0, 0, 1, 1, 0)
      BY <1>10, MoveCounts, AppendProperties DEF FreeLink, Numbers
    <2> QED  BY <2>1, NumbersBalance
  <1>11. ASSUME NEW t \in Threads, FreeNotify(t) PROVE PermitsAccounted'
    <2>1. Numbers(1, 0, -1, 0, 0)
      BY <1>11, MoveCounts, SemNotifyFacts DEF FreeNotify, Numbers
    <2> QED  BY <2>1, NumbersBalance
  <1> QED
    BY <1>1, <1>2, <1>3, <1>4, <1>5, <1>6, <1>7, <1>8, <1>9, <1>10, <1>11
    DEF Next

(* What one step does to the semaphore alone: its balance, the promise, and
   the spurious wake-ups that pay for a lower balance.                      *)
LEMMA SyncBounds ==
  TypeOK /\ [Next]_vars =>
    /\ DebtBounded => DebtBounded'
    /\ Promised => Promised'
    /\ spurious' >= spurious
  <1> SUFFICES ASSUME TypeOK, [Next]_vars
               PROVE  /\ DebtBounded => DebtBounded'
                      /\ Promised => Promised'
                      /\ spurious' >= spurious
    OBVIOUS
  <1> DEFINE s == allocate_sync
  <1>a. /\ SemOK(s, Threads) /\ IsFiniteSet(Threads)
        /\ spurious \in Nat /\ Balance(s) \in Int
        /\ Cardinality(Threads) \in Nat
    BY SemFinite, BlockAssumption, FS_CardinalityType
    DEF TypeOK, BlockAssumption
  <1>b. \A t \in Sleeping(s) : pc[t] = "asleep"
    BY DEF TypeOK, At
  <1>1. CASE UNCHANGED <<allocate_sync, spurious>>
    BY <1>1, <1>a DEF DebtBounded, Promised
  <1>2. ASSUME NEW t \in Threads, WaitSpurious(t)
        PROVE  /\ Balance(s') = Balance(s) - 1 /\ spurious' = spurious + 1
               /\ PermitsPromised(s) => PermitsPromised(s')
    BY <1>2, <1>a, SpuriousFacts DEF WaitSpurious
  <1>3. ASSUME NEW t \in Threads, WaitTake(t)
        PROVE  /\ Balance(s') = Balance(s) - 1 /\ spurious' = spurious
               /\ Balance(s') >= 1 - Cardinality(Threads)
               /\ PermitsPromised(s) => PermitsPromised(s')
    <2>1. t \notin Sleeping(s)
      BY <1>3, <1>b DEF WaitTake
    <2> QED  BY <1>3, <2>1, <1>a, SemTakeFacts DEF WaitTake
  <1>4. ASSUME NEW t \in Threads, WaitSleep(t)
        PROVE  /\ Balance(s') = Balance(s) /\ spurious' = spurious
               /\ PermitsPromised(s')
    <2>1. t \notin Sleeping(s)
      BY <1>4, <1>b DEF WaitSleep
    <2> QED  BY <1>4, <2>1, <1>a, SemSleepFacts DEF WaitSleep
  <1>5. ASSUME NEW t \in Threads, WaitResume(t)
        PROVE  /\ Balance(s') = Balance(s) /\ spurious' = spurious
               /\ PermitsPromised(s) => PermitsPromised(s')
    BY <1>5, <1>a, SemResumeFacts DEF WaitResume
  <1>6. ASSUME NEW t \in Threads, WaitTimeout(t)
        PROVE  /\ Balance(s') >= Balance(s) /\ spurious' = spurious
               /\ ~TimeoutTakesSignal /\ PermitsPromised(s) => PermitsPromised(s')
    BY <1>6, <1>a, SemTimeoutFacts DEF WaitTimeout
  <1>7. ASSUME NEW t \in Threads, FreeNotify(t)
        PROVE  /\ Balance(s') >= Balance(s) /\ spurious' = spurious
               /\ PermitsPromised(s) => PermitsPromised(s')
    BY <1>7, <1>a, SemNotifyFacts DEF FreeNotify
  <1>c. Balance(s') \in Int
    <2>1. SemOK(s', Threads)
      BY SyncStepOK DEF SyncOK
    <2> QED  BY <2>1, <1>a, SemFinite
  <1>8. \/ UNCHANGED <<allocate_sync, spurious>>
        \/ \E t \in Threads :
             \/ WaitSpurious(t) \/ WaitTake(t) \/ WaitSleep(t)
             \/ WaitResume(t) \/ WaitTimeout(t) \/ FreeNotify(t)
    BY DEF Next, vars, Try, Fetch, FetchNull, FreeLink
  <1> DEFINE low == 1 - Cardinality(Threads)
  <1>d. /\ DebtBounded <=> Balance(s) >= low - spurious
        /\ DebtBounded' <=> Balance(s') >= low - spurious'
        /\ Promised <=> (~TimeoutTakesSignal => PermitsPromised(s))
        /\ Promised' <=> (~TimeoutTakesSignal => PermitsPromised(s'))
        /\ low \in Int
    BY <1>a DEF DebtBounded, Promised, Balance, PermitsPromised
  <1> QED
    <2> HIDE DEF s, low
    <2>1. CASE \E t \in Threads : WaitSpurious(t)
      BY <2>1, <1>2, <1>a, <1>c, <1>d
    <2>2. CASE \E t \in Threads : WaitTake(t)
      BY <2>2, <1>3, <1>a, <1>c, <1>d DEF low
    <2>3. CASE \E t \in Threads : WaitSleep(t) \/ WaitResume(t)
      BY <2>3, <1>4, <1>5, <1>a, <1>c, <1>d
    <2>4. CASE \E t \in Threads : WaitTimeout(t) \/ FreeNotify(t)
      BY <2>4, <1>6, <1>7, <1>a, <1>c, <1>d
    <2> QED  BY <1>1, <1>8, <2>1, <2>2, <2>3, <2>4

(* A permit is lost only by a call that finds the list empty; then every
   other permit there is lies in the count or with another thread, and the
   debt of the semaphore bounds how far the count can be below zero.        *)
LEMMA ShortageStep ==
  /\ TypeOK /\ PermitsAccounted /\ DebtBounded /\ ShortageBounded
  /\ [Next]_vars
  => ShortageBounded'
  <1> SUFFICES ASSUME TypeOK, PermitsAccounted, DebtBounded, ShortageBounded,
                      [Next]_vars
               PROVE  ShortageBounded'
    OBVIOUS
  <1> DEFINE low == 1 - Cardinality(Threads)
             w == Cardinality(allocate_sync.woken)
             g == Cardinality(At("granted"))
             n == Cardinality(At("notify"))
             c == allocate_sync.count
  <1>a. /\ low \in Int /\ w \in Nat /\ g \in Nat /\ n \in Nat /\ c \in Int
        /\ surplus \in Int /\ spurious \in Nat /\ IsFiniteSet(At("granted"))
    <2>1. IsFiniteSet(Threads) /\ SemOK(allocate_sync, Threads)
      BY BlockAssumption DEF BlockAssumption, TypeOK
    <2> QED
      BY <2>1, SemFinite, FS_CardinalityType, AtType DEF TypeOK, SemOK, Sems
  <1>b. spurious' >= spurious /\ spurious' \in Nat
    BY SyncBounds, PoolStepOK DEF PoolOK
  <1>c. surplus >= low - spurious /\ c - w >= low - spurious
    BY DEF ShortageBounded, DebtBounded, Balance
  <1>d. low - spurious' <= low - spurious
    <2>1. low \in Int /\ spurious \in Int /\ spurious' \in Int
      BY <1>a, <1>b
    <2>2. spurious' >= spurious
      BY <1>b
    <2>3. \A l, a, b \in Int : a >= b => l - a <= l - b
      OBVIOUS
    <2> HIDE DEF low, w, g, n, c
    <2> QED  BY ONLY <2>1, <2>2, <2>3
  <1>e. low - spurious \in Int /\ low - spurious' \in Int
    <2> HIDE DEF low
    <2> QED  BY <1>a, <1>b
  <1>1. CASE UNCHANGED surplus
    <2>1. surplus' >= low - spurious'
      <3>1. surplus' = surplus
        BY <1>1
      <3> HIDE DEF low, w, g, n, c
      <3> QED  BY <3>1, <1>a, <1>c, <1>d, <1>e
    <2> QED  BY <2>1 DEF ShortageBounded
  <1>2. ASSUME NEW t \in Threads, Fetch(t) PROVE ShortageBounded'
    <2>1. surplus' = surplus + Gain(t) /\ Gain(t) \in Nat
      BY <1>2 DEF Fetch, Gain
    <2>2. surplus' >= low - spurious'
      <3> HIDE DEF low, w, g, n, c
      <3> QED  BY <2>1, <1>a, <1>b, <1>c
    <2> QED  BY <2>2 DEF ShortageBounded
  <1>3. ASSUME NEW t \in Threads, FetchNull(t), pc[t] = "granted"
        PROVE  ShortageBounded'
    <2>1. Len(free_list) = 0 /\ surplus' = surplus - 1
      BY <1>3 DEF FetchNull, Loss
    <2>2. t \in At("granted")
      BY <1>3 DEF At
    <2>3. g # 0
      BY <2>2, <1>a, FS_EmptySet
    <2>4. c + g + n = 0 + surplus
      BY <2>1 DEF PermitsAccounted
    <2>5. surplus' >= low - spurious'
      <3> HIDE DEF low, w, g, n, c
      <3>1. surplus' >= c
        BY <2>1, <2>3, <2>4, <1>a
      <3>2. c >= low - spurious
        <4> DEFINE d == low - spurious
        <4>1. d \in Int /\ c - w >= d
          BY <1>c, <1>e
        <4>2. c >= d
          <5> HIDE DEF d
          <5> QED  BY <4>1, <1>a
        <4> QED  BY <4>2
      <3>3. surplus' \in Int
        BY <2>1, <1>a
      <3> QED  BY <3>1, <3>2, <3>3, <1>a, <1>d, <1>e
    <2> QED  BY <2>5 DEF ShortageBounded
  <1>4. ASSUME NEW t \in Threads, FetchNull(t), pc[t] # "granted"
        PROVE  UNCHANGED surplus
    BY <1>4, <1>a DEF FetchNull, Loss
  <1>5. \/ UNCHANGED surplus
        \/ \E t \in Threads : Fetch(t) \/ FetchNull(t)
    BY DEF Next, vars, Try, WaitTake, WaitSleep, WaitResume, WaitTimeout,
           WaitSpurious, FreeLink, FreeNotify
  <1> QED  BY <1>1, <1>2, <1>3, <1>4, <1>5

-----------------------------------------------------------------------------
(* The permits match the free blocks up to the surplus, and a permit lies
   beside a sleeping thread only when a woken one is on its way to it.       *)
THEOREM Invariance == Spec => []IInv
  <1>1. Init => IInv
    <2> SUFFICES ASSUME Init PROVE IInv
      OBVIOUS
    <2>1. Cardinality(Blocks) \in Nat /\ Cardinality(Threads) \in Nat
          /\ Cardinality(Threads) # 0
      BY BlockAssumption, FS_CardinalityType, FS_EmptySet DEF BlockAssumption
    <2>2. /\ TypeOK /\ Exclusive
          /\ Len(free_list) = Cardinality(Blocks)
          /\ At("granted") = {} /\ At("notify") = {}
      <3>1. \A t \in Threads : held[t] = {}
        BY DEF Init
      <3> QED  BY <3>1, InitFacts DEF Exclusive, Distinct, Places
    <2>3. /\ allocate_sync = SemInit(Cardinality(Blocks))
          /\ surplus = 0 /\ spurious = 0
      BY DEF Init
    <2>4. PermitsAccounted
      <3>1. allocate_sync.count = Cardinality(Blocks)
        BY <2>1, <2>3, SemInitFacts
      <3>2. Cardinality(At("granted")) = 0 /\ Cardinality(At("notify")) = 0
        BY <2>2, FS_EmptySet
      <3> QED  BY <2>1, <2>2, <2>3, <3>1, <3>2 DEF PermitsAccounted
    <2>5. DebtBounded /\ ShortageBounded
      <3>1. Balance(allocate_sync) = Cardinality(Blocks)
        BY <2>1, <2>3, SemInitFacts
      <3> QED  BY <2>1, <2>3, <3>1 DEF DebtBounded, ShortageBounded
    <2>6. Promised
      BY <2>1, <2>3, SemInitFacts DEF Promised
    <2> QED  BY <2>2, <2>4, <2>5, <2>6 DEF IInv
  <1>2. IInv /\ BlocksConserved /\ BlocksConserved' /\ TypeOK' /\ [Next]_vars
          => IInv'
    BY PermitsStep, SyncBounds, ShortageStep DEF IInv, BlocksConserved
  <1> QED  BY <1>1, <1>2, TypeCorrect, BlocksAreConserved, PTL DEF Spec

(* Every permit is in the count, with a call that was granted it, or with a
   BlockFree about to post it.                                              *)
THEOREM PermitsAreAccounted == Spec => []PermitsAccounted
  <1>1. IInv => PermitsAccounted
    BY DEF IInv
  <1> QED  BY <1>1, Invariance, PTL

(* The permits lost to calls that found no block never exceed one per other
   thread and one per spurious wake-up.                                     *)
THEOREM ShortageIsBounded == Spec => []ShortageBounded
  <1>1. IInv => ShortageBounded
    BY DEF IInv
  <1> QED  BY <1>1, Invariance, PTL

(* A thread asleep beside free blocks sees each of them spoken for, or its
   permit lost.                                                             *)
THEOREM SleepIsJustified == Spec => []SleepJustified
  <1>1. IInv => SleepJustified
    <2> SUFFICES ASSUME IInv, ~TimeoutTakesSignal, allocate_sync.waiting # {}
                 PROVE  Len(free_list) + surplus
                          <= Cardinality(allocate_sync.woken)
                               + Cardinality(At("granted"))
                               + Cardinality(At("notify"))
      BY DEF SleepJustified
    <2> DEFINE w == Cardinality(allocate_sync.woken)
               g == Cardinality(At("granted"))
               n == Cardinality(At("notify"))
               c == allocate_sync.count
               k == Len(free_list)
    <2>1. /\ w \in Nat /\ g \in Nat /\ n \in Nat /\ c \in Int
          /\ k \in Nat /\ surplus \in Int
      <3>1. IsFiniteSet(Threads) /\ SemOK(allocate_sync, Threads)
        BY BlockAssumption DEF BlockAssumption, IInv, TypeOK
      <3> QED
        BY <3>1, SemFinite, AtType, LenProperties DEF IInv, TypeOK, SemOK, Sems
    <2>2. c + g + n = k + surplus /\ c <= w
      BY DEF IInv, PermitsAccounted, Promised, PermitsPromised
    <2>3. k + surplus <= w + g + n
      <3> HIDE DEF w, g, n, c, k
      <3> QED  BY <2>1, <2>2
    <2> QED  BY <2>3
  <1> QED  BY <1>1, Invariance, PTL
=============================================================================
