----------------------------- MODULE Lock_proofs -----------------------------
(***************************************************************************)
(* What each critical section of lock.c does to the balance of a semaphore  *)
(* and to the promise that no permit lies beside a sleeping thread.  The    *)
(* proofs about every module that uses a semaphore cite these lemmas.       *)
(***************************************************************************)
EXTENDS Lock, FiniteSetTheorems, TLAPS

(* SemInit(n) owes nothing and nobody waits on it.                          *)
LEMMA SemInitFacts ==
  ASSUME NEW T, NEW n \in Nat
  PROVE  /\ SemOK(SemInit(n), T)
         /\ PermitsPromised(SemInit(n))
         /\ Balance(SemInit(n)) = n
         /\ SemInit(n).count = n
         /\ Sleeping(SemInit(n)) = {}
  BY FS_EmptySet DEF SemInit, SemOK, Sems, PermitsPromised, Balance, Sleeping

(* The sets of a semaphore of finitely many threads are finite.             *)
LEMMA SemFinite ==
  ASSUME NEW T, IsFiniteSet(T), NEW s, SemOK(s, T)
  PROVE  /\ IsFiniteSet(s.woken) /\ IsFiniteSet(s.waiting)
         /\ Cardinality(s.woken) \in Nat
         /\ Balance(s) \in Int
  <1>1. s.woken \in SUBSET T /\ s.waiting \in SUBSET T /\ s.count \in Int
    BY DEF SemOK, Sems
  <1> QED  BY <1>1, FS_Subset, FS_CardinalityType DEF Balance

(* SemNotify adds one permit, promises it to a waiter if there is one, and
   never lowers the balance.                                                *)
LEMMA SemNotifyFacts ==
  ASSUME NEW T, IsFiniteSet(T), NEW s, SemOK(s, T), NEW r \in SemNotify(s)
  PROVE  /\ SemOK(r, T)
         /\ r.count = s.count + 1
         /\ Sleeping(r) = Sleeping(s)
         /\ PermitsPromised(s) => PermitsPromised(r)
         /\ Balance(r) >= Balance(s)
  <1>1. SemOK(s, T) /\ s \in Sems(T)
    BY DEF SemOK
  <1>2. CASE s.waiting = {}
    <2>1. r = SemPost(s)
      BY <1>2 DEF SemNotify, CondSignal, SemPost
    <2> QED
      BY <2>1, <1>1, <1>2, SemFinite
      DEF SemPost, SemOK, Sems, Sleeping, PermitsPromised, Balance
  <1>3. CASE s.waiting # {}
    <2>1. PICK t \in s.waiting :
            r = [count |-> s.count + 1, waiting |-> s.waiting \ {t},
                 woken |-> s.woken \cup {t}]
      BY <1>3 DEF SemNotify, CondSignal, SemPost, Wake
    <2>2. t \notin s.woken /\ t \in T
      BY <1>1 DEF SemOK, Sems
    <2>3. Cardinality(r.woken) = Cardinality(s.woken) + 1
      BY <2>1, <2>2, SemFinite, FS_AddElement
    <2> QED
      BY <2>1, <2>2, <2>3, <1>1, <1>3, SemFinite
      DEF SemOK, Sems, Sleeping, PermitsPromised, Balance
  <1> QED  BY <1>2, <1>3

(* Taking a permit at once lowers the balance by one, and never below the
   debt of the other threads.                                               *)
LEMMA SemTakeFacts ==
  ASSUME NEW T, IsFiniteSet(T), NEW s, SemOK(s, T),
         NEW t \in T, t \notin Sleeping(s), HasPermit(s)
  PROVE  /\ SemOK(SemTake(s), T)
         /\ SemTake(s).count = s.count - 1
         /\ Sleeping(SemTake(s)) = Sleeping(s)
         /\ PermitsPromised(s) => PermitsPromised(SemTake(s))
         /\ Balance(SemTake(s)) = Balance(s) - 1
         /\ Balance(SemTake(s)) >= 1 - Cardinality(T)
  <1>1. s \in Sems(T) /\ s.woken \in SUBSET (T \ {t})
    BY DEF SemOK, Sems, Sleeping
  <1>2. Cardinality(s.woken) <= Cardinality(T) - 1
    <2>1. IsFiniteSet(T \ {t}) /\ Cardinality(T \ {t}) = Cardinality(T) - 1
      BY FS_RemoveElement
    <2>2. Cardinality(s.woken) <= Cardinality(T \ {t})
      BY <1>1, <2>1, FS_Subset
    <2> QED  BY <2>1, <2>2
  <1>3. Cardinality(T) \in Nat /\ Cardinality(s.woken) \in Nat
    BY FS_CardinalityType, SemFinite
  <1> QED
    BY <1>1, <1>2, <1>3
    DEF SemTake, SemOK, Sems, Sleeping, PermitsPromised, Balance, HasPermit

(* Going to sleep changes no number, and happens only without a permit.     *)
LEMMA SemSleepFacts ==
  ASSUME NEW T, IsFiniteSet(T), NEW s, SemOK(s, T),
         NEW t \in T, t \notin Sleeping(s), ~HasPermit(s)
  PROVE  /\ SemOK(SemSleep(s, t), T)
         /\ SemSleep(s, t).count = s.count
         /\ Sleeping(SemSleep(s, t)) = Sleeping(s) \cup {t}
         /\ PermitsPromised(SemSleep(s, t))
         /\ Balance(SemSleep(s, t)) = Balance(s)
  BY SemFinite
  DEF SemSleep, SemOK, Sems, Sleeping, PermitsPromised, Balance, HasPermit

(* A woken thread takes the permit it was promised: the balance stays.      *)
LEMMA SemResumeFacts ==
  ASSUME NEW T, IsFiniteSet(T), NEW s, SemOK(s, T), NEW t \in s.woken
  PROVE  /\ SemOK(SemResume(s, t), T)
         /\ SemResume(s, t).count = s.count - 1
         /\ Sleeping(SemResume(s, t)) = Sleeping(s) \ {t}
         /\ PermitsPromised(s) => PermitsPromised(SemResume(s, t))
         /\ Balance(SemResume(s, t)) = Balance(s)
  <1>1. Cardinality(s.woken \ {t}) = Cardinality(s.woken) - 1
    BY SemFinite, FS_RemoveElement
  <1>2. SemResume(s, t) = [count |-> s.count - 1, waiting |-> s.waiting,
                           woken |-> s.woken \ {t}]
    BY DEF SemResume
  <1>3. s.count \in Int /\ s.waiting \subseteq T /\ s.woken \subseteq T
        /\ s.waiting \cap s.woken = {} /\ Cardinality(s.woken) \in Nat
    BY SemFinite DEF SemOK, Sems
  <1>4. SemOK(SemResume(s, t), T)
    BY <1>2, <1>3 DEF SemOK, Sems
  <1>5. Sleeping(SemResume(s, t)) = Sleeping(s) \ {t}
    BY <1>2, <1>3 DEF Sleeping
  <1>6. /\ SemResume(s, t).count = s.count - 1
        /\ SemResume(s, t).waiting = s.waiting
        /\ Cardinality(SemResume(s, t).woken) = Cardinality(s.woken) - 1
    BY <1>1, <1>2
  <1>7. PermitsPromised(s) => PermitsPromised(SemResume(s, t))
    BY <1>3, <1>6 DEF PermitsPromised
  <1>8. Balance(SemResume(s, t)) = Balance(s)
    BY <1>3, <1>6 DEF Balance
  <1> QED  BY <1>4, <1>5, <1>6, <1>7, <1>8

(* A wait that times out leaves the count alone; it breaks the promise only
   if it swallowed a signal.                                                *)
LEMMA SemTimeoutFacts ==
  ASSUME NEW T, IsFiniteSet(T), NEW s, SemOK(s, T), NEW t, MayTimeOut(s, t)
  PROVE  /\ SemOK(SemTimeout(s, t), T)
         /\ SemTimeout(s, t).count = s.count
         /\ Sleeping(SemTimeout(s, t)) = Sleeping(s) \ {t}
         /\ ~TimeoutTakesSignal /\ PermitsPromised(s)
              => PermitsPromised(SemTimeout(s, t))
         /\ Balance(SemTimeout(s, t)) >= Balance(s)
  <1>1. Cardinality(s.woken \ {t}) <= Cardinality(s.woken)
        /\ Cardinality(s.woken \ {t}) \in Nat
    <2>1. IsFiniteSet(s.woken) /\ Cardinality(s.woken) \in Nat
      BY SemFinite
    <2>2. IsFiniteSet(s.woken \ {t})
          /\ Cardinality(s.woken \ {t})
               = IF t \in s.woken THEN Cardinality(s.woken) - 1
                                  ELSE Cardinality(s.woken)
      BY <2>1, FS_RemoveElement
    <2> QED  BY <2>1, <2>2, FS_CardinalityType
  <1>2. ~TimeoutTakesSignal => s.woken \ {t} = s.woken
    BY DEF MayTimeOut, SemOK
  <1>3. SemTimeout(s, t) = [count |-> s.count, waiting |-> s.waiting \ {t},
                            woken |-> s.woken \ {t}]
    BY DEF SemTimeout
  <1>4. s.count \in Int /\ s.waiting \subseteq T /\ s.woken \subseteq T
        /\ s.waiting \cap s.woken = {} /\ Cardinality(s.woken) \in Nat
    BY SemFinite DEF SemOK, Sems
  <1>5. SemOK(SemTimeout(s, t), T)
    BY <1>3, <1>4 DEF SemOK, Sems
  <1>6. Sleeping(SemTimeout(s, t)) = Sleeping(s) \ {t}
    BY <1>3, <1>4 DEF Sleeping
  <1>7. /\ SemTimeout(s, t).count = s.count
        /\ SemTimeout(s, t).waiting = s.waiting \ {t}
        /\ SemTimeout(s, t).woken = s.woken \ {t}
    BY <1>3
  <1>8. ~TimeoutTakesSignal /\ PermitsPromised(s)
          => PermitsPromised(SemTimeout(s, t))
    <2> SUFFICES ASSUME ~TimeoutTakesSignal, PermitsPromised(s)
                 PROVE  PermitsPromised(SemTimeout(s, t))
      OBVIOUS
    <2>1. SemTimeout(s, t).woken = s.woken
      BY <1>2, <1>7
    <2> QED  BY <1>7, <2>1 DEF PermitsPromised
  <1>9. Balance(SemTimeout(s, t)) >= Balance(s)
    BY <1>1, <1>4, <1>7 DEF Balance
  <1> QED  BY <1>5, <1>6, <1>7, <1>8, <1>9

(* A spurious wake-up promises a permit nobody posted.                      *)
LEMMA SpuriousFacts ==
  ASSUME NEW T, IsFiniteSet(T), NEW s, SemOK(s, T), NEW t \in s.waiting
  PROVE  /\ SemOK(SpuriousWakeup(s, t), T)
         /\ SpuriousWakeup(s, t).count = s.count
         /\ Sleeping(SpuriousWakeup(s, t)) = Sleeping(s)
         /\ PermitsPromised(s) => PermitsPromised(SpuriousWakeup(s, t))
         /\ Balance(SpuriousWakeup(s, t)) = Balance(s) - 1
  <1>1. t \notin s.woken
    BY DEF SemOK
  <1>2. Cardinality(s.woken \cup {t}) = Cardinality(s.woken) + 1
    BY <1>1, SemFinite, FS_AddElement
  <1>3. SpuriousWakeup(s, t)
          = [count |-> s.count, waiting |-> s.waiting \ {t},
             woken |-> s.woken \cup {t}]
    BY DEF SpuriousWakeup, Wake
  <1>4. s.count \in Int /\ s.waiting \subseteq T /\ s.woken \subseteq T
        /\ s.waiting \cap s.woken = {} /\ Cardinality(s.woken) \in Nat
    BY SemFinite DEF SemOK, Sems
  <1>5. SemOK(SpuriousWakeup(s, t), T)
    BY <1>3, <1>4 DEF SemOK, Sems
  <1>6. Sleeping(SpuriousWakeup(s, t)) = Sleeping(s)
    BY <1>3, <1>4 DEF Sleeping
  <1> QED
    BY <1>2, <1>3, <1>4, <1>5, <1>6 DEF PermitsPromised, Balance
=============================================================================
