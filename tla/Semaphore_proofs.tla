-------------------------- MODULE Semaphore_proofs --------------------------
(* The invariants of Semaphore, for every set of threads and every bound.   *)
EXTENDS Semaphore, Lock_proofs

(* The threads on the semaphore are always the ones the sets say; a thread
   with a deadline is asleep, and the spurious wake-ups stay in their bound. *)
THEOREM SemaphoreTypeCorrect == SemaphoreSpec => []SemaphoreTypeOK
  <1>1. SemaphoreInit => SemaphoreTypeOK
    BY SemInitFacts, SemaphoreAssumption DEF SemaphoreInit, SemaphoreTypeOK, SemaphoreAssumption
  <1>2. SemaphoreTypeOK /\ [SemaphoreNext]_semaphoreVars => SemaphoreTypeOK'
    <2> SUFFICES ASSUME SemaphoreTypeOK, [SemaphoreNext]_semaphoreVars PROVE SemaphoreTypeOK'
      OBVIOUS
    <2> USE SemaphoreAssumption DEF SemaphoreTypeOK, SemaphoreAssumption
    <2>1. CASE UNCHANGED semaphoreVars
      BY <2>1 DEF semaphoreVars, SemOK
    <2>2. ASSUME NEW t \in Threads, Take(t) PROVE SemaphoreTypeOK'
      BY <2>2, SemTakeFacts DEF Take
    <2>3. ASSUME NEW t \in Threads, Sleep(t) PROVE SemaphoreTypeOK'
      BY <2>3, SemSleepFacts DEF Sleep
    <2>4. ASSUME NEW t \in Threads, Resume(t) PROVE SemaphoreTypeOK'
      BY <2>4, SemResumeFacts DEF Resume
    <2>5. ASSUME NEW t \in Threads, Timeout(t) PROVE SemaphoreTypeOK'
      BY <2>5, SemTimeoutFacts DEF Timeout
    <2>6. ASSUME NEW t \in Threads, Spurious(t) PROVE SemaphoreTypeOK'
      BY <2>6, SpuriousFacts DEF Spurious
    <2>7. CASE Notify
      BY <2>7, SemNotifyFacts DEF Notify
    <2> QED  BY <2>1, <2>2, <2>3, <2>4, <2>5, <2>6, <2>7 DEF SemaphoreNext
  <1> QED  BY <1>1, <1>2, PTL DEF SemaphoreSpec

(* No permit ever lies beside a sleeping thread without a woken thread on
   its way to it, save one per signal that a time-out swallowed.            *)
THEOREM NoWakeupIsLost == SemaphoreSpec => []NoLostWakeup
  <1>1. SemaphoreInit => NoLostWakeup
    BY DEF SemaphoreInit, NoLostWakeup, SemInit
  <1>2. SemaphoreTypeOK /\ NoLostWakeup /\ [SemaphoreNext]_semaphoreVars
          => NoLostWakeup'
    <2> SUFFICES ASSUME SemaphoreTypeOK, NoLostWakeup,
                        [SemaphoreNext]_semaphoreVars
                 PROVE  NoLostWakeup'
      OBVIOUS
    <2> USE SemaphoreAssumption DEF SemaphoreTypeOK, SemaphoreAssumption
    <2>a. /\ IsFiniteSet(sem.woken) /\ Cardinality(sem.woken) \in Nat
          /\ sem.count \in Int /\ swallowed \in Nat
          /\ sem.waiting \cap sem.woken = {}
      BY SemFinite DEF SemOK, Sems
    <2>b. \A t \in sem.woken :
            Cardinality(sem.woken \ {t}) = Cardinality(sem.woken) - 1
      BY <2>a, FS_RemoveElement
    <2>c. \A t \in sem.waiting :
            Cardinality(sem.woken \cup {t}) = Cardinality(sem.woken) + 1
      BY <2>a, FS_AddElement
    <2> HIDE SemaphoreAssumption DEF SemaphoreTypeOK
    <2> USE <2>a DEF NoLostWakeup
    <2>1. CASE UNCHANGED semaphoreVars
      BY <2>1 DEF semaphoreVars
    <2>2. ASSUME NEW t \in Threads, Take(t) PROVE NoLostWakeup'
      BY <2>2 DEF Take, SemTake
    <2>3. ASSUME NEW t \in Threads, Sleep(t) PROVE NoLostWakeup'
      BY <2>3 DEF Sleep, SemSleep, HasPermit
    <2>4. ASSUME NEW t \in Threads, Resume(t) PROVE NoLostWakeup'
      <3>1. /\ sem'.count = sem.count - 1 /\ sem'.waiting = sem.waiting
            /\ sem'.woken = sem.woken \ {t} /\ swallowed' = swallowed
        BY <2>4 DEF Resume, SemResume
      <3>2. Cardinality(sem'.woken) = Cardinality(sem.woken) - 1
        BY <2>4, <2>b, <3>1 DEF Resume
      <3> QED  BY <3>1, <3>2
    <2>5. ASSUME NEW t \in Threads, Timeout(t) PROVE NoLostWakeup'
      <3>1. CASE t \in sem.waiting
        <4>1. sem.woken \ {t} = sem.woken
          BY <3>1
        <4> QED  BY <2>5, <3>1, <4>1 DEF Timeout, SemTimeout
      <3>2. CASE t \notin sem.waiting
        BY <2>5, <3>2, <2>b DEF Timeout, SemTimeout
      <3> QED  BY <3>1, <3>2
    <2>6. ASSUME NEW t \in Threads, Spurious(t) PROVE NoLostWakeup'
      BY <2>6, <2>c DEF Spurious, SpuriousWakeup, Wake
    <2>7. CASE Notify
      <3>1. CASE sem.waiting = {}
        BY <2>7, <3>1 DEF Notify, SemNotify, CondSignal, SemPost
      <3>2. CASE sem.waiting # {}
        <4>1. PICK t \in sem.waiting :
                sem' = [count |-> sem.count + 1, waiting |-> sem.waiting \ {t},
                        woken |-> sem.woken \cup {t}]
          BY <2>7, <3>2 DEF Notify, SemNotify, CondSignal, SemPost, Wake
        <4> QED  BY <2>7, <4>1, <2>c DEF Notify
      <3> QED  BY <3>1, <3>2
    <2> QED  BY <2>1, <2>2, <2>3, <2>4, <2>5, <2>6, <2>7 DEF SemaphoreNext
  <1> QED  BY <1>1, <1>2, SemaphoreTypeCorrect, PTL DEF SemaphoreSpec

(* The permits granted twice never exceed one per other thread and one per
   spurious wake-up.                                                        *)
THEOREM DebtIsBounded == SemaphoreSpec => []BoundedDebt
  <1> USE SemaphoreAssumption DEF SemaphoreAssumption
  <1>0. Cardinality(Threads) \in Nat /\ Cardinality(Threads) >= 1
    <2>1. Cardinality(Threads) \in Nat /\ Cardinality(Threads) # 0
      BY FS_CardinalityType, FS_EmptySet
    <2> QED  BY <2>1
  <1>1. SemaphoreInit => BoundedDebt
    <2>1. Balance(SemInit(InitCount)) = InitCount
      BY SemInitFacts
    <2> QED  BY <1>0, <2>1 DEF SemaphoreInit, BoundedDebt
  <1>2. SemaphoreTypeOK /\ SemaphoreTypeOK' /\ BoundedDebt /\ [SemaphoreNext]_semaphoreVars => BoundedDebt'
    <2> SUFFICES ASSUME SemaphoreTypeOK, SemaphoreTypeOK', BoundedDebt, [SemaphoreNext]_semaphoreVars
                 PROVE  Balance(sem') >= 1 - Cardinality(Threads) - spurious'
      BY DEF BoundedDebt, Balance
    <2>a. SemOK(sem, Threads) /\ SemOK(sem', Threads)
          /\ spurious \in Nat /\ spurious' \in Nat
      BY DEF SemaphoreTypeOK, SemOK
    <2>b. Balance(sem) \in Int /\ Balance(sem') \in Int
      BY <2>a, SemFinite
    <2>c. Balance(sem) >= 1 - Cardinality(Threads) - spurious
      BY DEF BoundedDebt
    <2> USE <1>0, <2>a, <2>b, <2>c
    <2>1. CASE UNCHANGED semaphoreVars
      BY <2>1 DEF semaphoreVars
    <2>2. ASSUME NEW t \in Threads, Take(t)
          PROVE  Balance(sem') >= 1 - Cardinality(Threads) - spurious'
      BY <2>2, SemTakeFacts DEF Take
    <2>3. ASSUME NEW t \in Threads, Sleep(t)
          PROVE  Balance(sem') >= 1 - Cardinality(Threads) - spurious'
      BY <2>3, SemSleepFacts DEF Sleep
    <2>4. ASSUME NEW t \in Threads, Resume(t)
          PROVE  Balance(sem') >= 1 - Cardinality(Threads) - spurious'
      BY <2>4, SemResumeFacts DEF Resume
    <2>5. ASSUME NEW t \in Threads, Timeout(t)
          PROVE  Balance(sem') >= 1 - Cardinality(Threads) - spurious'
      BY <2>5, SemTimeoutFacts DEF Timeout
    <2>6. ASSUME NEW t \in Threads, Spurious(t)
          PROVE  Balance(sem') >= 1 - Cardinality(Threads) - spurious'
      BY <2>6, SpuriousFacts DEF Spurious
    <2>7. CASE Notify
      BY <2>7, SemNotifyFacts DEF Notify
    <2> QED  BY <2>1, <2>2, <2>3, <2>4, <2>5, <2>6, <2>7 DEF SemaphoreNext
  <1> QED  BY <1>1, <1>2, SemaphoreTypeCorrect, PTL DEF SemaphoreSpec
=============================================================================
