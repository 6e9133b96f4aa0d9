-------------------------------- MODULE Lock --------------------------------
(***************************************************************************)
(* The counting semaphore of src/platform/src/system/lock.c: a count, a     *)
(* mutex and a condition variable.  Every critical section of the mutex is  *)
(* one operator here; the modules that use a semaphore make each of them    *)
(* one atomic step of the calling thread.                                   *)
(*                                                                          *)
(* The condition variable is external (POSIX threads).  It is modelled by   *)
(* the two sets of threads inside pthread_cond_wait / timedwait:            *)
(*   waiting  blocked, no wake-up has reached the thread yet                *)
(*   woken    a wake-up was delivered, the mutex is not yet re-acquired     *)
(***************************************************************************)
EXTENDS Integers, FiniteSets

CONSTANT TimeoutTakesSignal
  \* POSIX: a timed wait that ends with ETIMEDOUT "may consume a condition
  \* signal directed concurrently at the condition variable".

ASSUME TimeoutTakesSignalAssumption == TimeoutTakesSignal \in BOOLEAN

Sems(T) == [count : Int, waiting : SUBSET T, woken : SUBSET T]

SemInit(n) == [count |-> n, waiting |-> {}, woken |-> {}]

Sleeping(s) == s.waiting \cup s.woken

-----------------------------------------------------------------------------
(* A wake-up reaches the waiting thread t.                                  *)
Wake(s, t) ==
  [count |-> s.count, waiting |-> s.waiting \ {t}, woken |-> s.woken \cup {t}]

(* pthread_cond_signal: it wakes one of the waiting threads, if there is any *)
CondSignal(s) ==
  IF s.waiting = {} THEN {s}
  ELSE {Wake(s, t) : t \in s.waiting}

SemPost(s) ==
  [count |-> s.count + 1, waiting |-> s.waiting, woken |-> s.woken]

(* Mutant: the signal is sent only when the count was zero.                 *)
SemNotifyAtZero(s) == IF s.count = 0 THEN CondSignal(SemPost(s)) ELSE {SemPost(s)}

(* SemNotify: the states the semaphore can be left in.                      *)
SemNotify(s) == CondSignal(SemPost(s))

(* Mutant: the test is `count < 0`.                                         *)
HasPermitOffByOne(s) == s.count >= 0

(* SemWait, first critical section: take a permit, or go to sleep.          *)
HasPermit(s) == s.count > 0

SemTake(s) ==
  [count |-> s.count - 1, waiting |-> s.waiting, woken |-> s.woken]

SemSleep(s, t) ==
  [count |-> s.count, waiting |-> s.waiting \cup {t}, woken |-> s.woken]

(* SemWait after pthread_cond_wait returned 0: the count is an `if`, not a
   `while`, so it is not read again before it is decremented.               *)
SemResume(s, t) ==
  [count |-> s.count - 1, waiting |-> s.waiting, woken |-> s.woken \ {t}]

(* Mutant: the time-out falls through to `count--`.                         *)
SemTimeoutTakes(s, t) ==
  [count |-> s.count - 1, waiting |-> s.waiting \ {t}, woken |-> s.woken \ {t}]

(* SemWait after pthread_cond_timedwait returned ETIMEDOUT: returns -1.     *)
MayTimeOut(s, t) ==
  \/ t \in s.waiting
  \/ TimeoutTakesSignal /\ t \in s.woken

SemTimeout(s, t) ==
  [count |-> s.count, waiting |-> s.waiting \ {t}, woken |-> s.woken \ {t}]

(* A wake-up nobody sent, which POSIX allows.                               *)
SpuriousWakeup(s, t) == Wake(s, t)
-----------------------------------------------------------------------------
(* What is said of one semaphore s that the threads of T wait on.            *)

SemOK(s, T) == s \in Sems(T) /\ s.waiting \cap s.woken = {}

(* Every permit in the count is promised to a thread on its way to it.      *)
PermitsPromised(s) == s.waiting # {} => s.count <= Cardinality(s.woken)

(* The count there will be once every woken thread has decremented it.      *)
Balance(s) == s.count - Cardinality(s.woken)
=============================================================================
