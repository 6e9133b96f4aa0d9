------------------------------ MODULE Semaphore ------------------------------
(***************************************************************************)
(* One semaphore of lock.c shared by any number of threads: each thread     *)
(* calls SemWait again and again, with or without a deadline, and SemNotify *)
(* is called at any time from anywhere.                                     *)
(***************************************************************************)
EXTENDS Lock

CONSTANTS
  Threads,      \* the threads that call SemWait
  InitCount,    \* the argument of SemInit
  MaxCount,     \* bound: SemNotify is not called at or above this count
  MaxSpurious,  \* bound: spurious wake-ups in one behaviour
  MaxSwallowed  \* bound: signals swallowed by a time-out in one behaviour

ASSUME SemaphoreAssumption ==
  /\ IsFiniteSet(Threads) /\ Threads # {}
  /\ InitCount \in Nat
  /\ MaxCount \in Nat
  /\ MaxSpurious \in Nat
  /\ MaxSwallowed \in Nat

VARIABLES
  sem,          \* struct Sem
  timed,        \* the sleeping threads that passed ms > 0
  spurious,     \* spurious wake-ups so far
  swallowed     \* waits so far that timed out after a signal had reached them

semaphoreVars == <<sem, timed, spurious, swallowed>>

SemaphoreTypeOK ==
  /\ SemOK(sem, Threads)
  /\ timed \subseteq Sleeping(sem)
  /\ spurious \in 0..MaxSpurious
  /\ swallowed \in 0..MaxSwallowed

SemaphoreInit ==
  /\ sem = SemInit(InitCount)
  /\ timed = {}
  /\ spurious = 0
  /\ swallowed = 0

-----------------------------------------------------------------------------
Take(t) ==
  /\ t \notin Sleeping(sem)
  /\ HasPermit(sem)
  /\ sem' = SemTake(sem)
  /\ UNCHANGED <<timed, spurious, swallowed>>

Sleep(t) ==
  /\ t \notin Sleeping(sem)
  /\ ~HasPermit(sem)
  /\ sem' = SemSleep(sem, t)
  /\ timed' \in {timed, timed \cup {t}}
  /\ UNCHANGED <<spurious, swallowed>>

Resume(t) ==
  /\ t \in sem.woken
  /\ sem' = SemResume(sem, t)
  /\ timed' = timed \ {t}
  /\ UNCHANGED <<spurious, swallowed>>

(* The deadline passes; a signal that had already reached the thread is lost
   with the wait.                                                           *)
Timeout(t) ==
  /\ t \in timed
  /\ MayTimeOut(sem, t)
  /\ sem' = SemTimeout(sem, t)
  /\ timed' = timed \ {t}
  /\ \/ t \in sem.waiting /\ UNCHANGED swallowed
     \/ t \in sem.woken /\ swallowed < MaxSwallowed /\ swallowed' = swallowed + 1
  /\ UNCHANGED spurious

Spurious(t) ==
  /\ t \in sem.waiting
  /\ spurious < MaxSpurious
  /\ sem' = SpuriousWakeup(sem, t)
  /\ spurious' = spurious + 1
  /\ UNCHANGED <<timed, swallowed>>

Notify ==
  /\ sem.count < MaxCount
  /\ sem' \in SemNotify(sem)
  /\ UNCHANGED <<timed, spurious, swallowed>>

SemaphoreNext ==
  \/ \E t \in Threads :
       Take(t) \/ Sleep(t) \/ Resume(t) \/ Timeout(t) \/ Spurious(t)
  \/ Notify

SemaphoreSpec == SemaphoreInit /\ [][SemaphoreNext]_semaphoreVars

-----------------------------------------------------------------------------
(* No lost wake-up: while a thread sleeps, every permit in the count is
   already promised to a thread that was woken and is on its way to it, save
   one for each signal that reached a wait which then timed out (lock.c:27-30
   against 37-68): that permit was posted, the thread returned -1, and no one
   else is woken for it.                                                    *)
NoLostWakeup ==
  sem.waiting # {} => sem.count <= Cardinality(sem.woken) + swallowed

(* SemWait decrements without reading the count again (lock.c:38 is an      *)
(* `if`), so a thread that barges in between the signal and the wake-up     *)
(* drives the count below zero and one permit is granted twice.  The debt   *)
(* is bounded: at most one permit per other thread, and one for each        *)
(* spurious wake-up.                                                        *)
BoundedDebt ==
  Balance(sem) >= 1 - Cardinality(Threads) - spurious
=============================================================================
