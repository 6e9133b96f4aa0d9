-------------------------------- MODULE Block --------------------------------
(***************************************************************************)
(* The pool of equal blocks of src/platform/src/system/block.c: a free list *)
(* under visit_lock and the semaphore allocate_sync, meant to hold one      *)
(* permit per free block.  The list is the sequence that module Linklist    *)
(* shows link.c to implement.                                               *)
(*                                                                          *)
(* Every critical section is one step.  BlockAlloc with ms = 0 reads s_num  *)
(* without the lock and takes no permit, so the two ways in share the list  *)
(* but not the count.                                                       *)
(***************************************************************************)
EXTENDS Lock, Sequences

CONSTANTS
  Threads, Blocks,
  MaxSurplus,    \* bound: calls with ms = 0 stop at this surplus of permits
  MaxSpurious    \* bound: spurious wake-ups in one behaviour

ASSUME BlockAssumption ==
  /\ IsFiniteSet(Threads) /\ Threads # {}
  /\ IsFiniteSet(Blocks)
  /\ MaxSurplus \in Nat
  /\ MaxSpurious \in Nat

VARIABLES
  free_list,      \* the blocks in the list, the head first
  allocate_sync,  \* struct Sem
  pc,             \* where each thread is, see Places
  held,           \* the blocks each thread was given and did not free
  surplus,        \* history: permits in the pool beyond the free blocks
  spurious        \* history: spurious wake-ups

vars == <<free_list, allocate_sync, pc, held, surplus, spurious>>

(* "asleep" is inside SemWait; "granted" holds a permit, "tried" saw s_num
   nonzero, and both are about to lock visit_lock; "notify" has put a block
   back and not yet posted its permit.                                       *)
Places == {"idle", "asleep", "granted", "tried", "notify"}

At(place) == {t \in Threads : pc[t] = place}

Goto(t, place) == pc' = [pc EXCEPT ![t] = place]

IsFree(b) == \E i \in 1..Len(free_list) : free_list[i] = b

TypeOK ==
  /\ free_list \in Seq(Blocks)
  /\ SemOK(allocate_sync, Threads)
  /\ pc \in [Threads -> Places]
  /\ Sleeping(allocate_sync) = At("asleep")
  /\ held \in [Threads -> SUBSET Blocks]
  /\ surplus \in Int
  /\ spurious \in 0..MaxSpurious

(* Mutant: the loop of BlockInit runs once too often and carves a last block
   from behind the memory it was given.                                     *)
InitOneMore ==
  /\ free_list \in {Append(s, "behind the memory") :
                      s \in {f \in [1..Cardinality(Blocks) -> Blocks] :
                               \A i, j \in DOMAIN f : f[i] = f[j] => i = j}}
  /\ allocate_sync = SemInit(Cardinality(Blocks))
  /\ pc = [t \in Threads |-> "idle"]
  /\ held = [t \in Threads |-> {}]
  /\ surplus = 0
  /\ spurious = 0

(* BlockInit: every block once in the list, one permit for each.            *)
Init ==
  /\ free_list \in {s \in [1..Cardinality(Blocks) -> Blocks] :
                      \A i, j \in DOMAIN s : s[i] = s[j] => i = j}
  /\ allocate_sync = SemInit(Cardinality(Blocks))
  /\ pc = [t \in Threads |-> "idle"]
  /\ held = [t \in Threads |-> {}]
  /\ surplus = 0
  /\ spurious = 0

-----------------------------------------------------------------------------
(* BlockAlloc with ms = 0: nothing but the unlocked look at s_num.  A call
   that sees 0 returns NULL and has changed nothing.                        *)
Try(t) ==
  /\ pc[t] = "idle"
  /\ Len(free_list) # 0
  /\ surplus + Cardinality(At("tried")) < MaxSurplus
  /\ Goto(t, "tried")
  /\ UNCHANGED <<free_list, allocate_sync, held, surplus, spurious>>

(* BlockAlloc with ms > 0: SemWait, always with a deadline.                 *)
WaitTake(t) ==
  /\ pc[t] = "idle"
  /\ HasPermit(allocate_sync)
  /\ allocate_sync' = SemTake(allocate_sync)
  /\ Goto(t, "granted")
  /\ UNCHANGED <<free_list, held, surplus, spurious>>

WaitSleep(t) ==
  /\ pc[t] = "idle"
  /\ ~HasPermit(allocate_sync)
  /\ allocate_sync' = SemSleep(allocate_sync, t)
  /\ Goto(t, "asleep")
  /\ UNCHANGED <<free_list, held, surplus, spurious>>

WaitResume(t) ==
  /\ t \in allocate_sync.woken
  /\ allocate_sync' = SemResume(allocate_sync, t)
  /\ Goto(t, "granted")
  /\ UNCHANGED <<free_list, held, surplus, spurious>>

WaitTimeout(t) ==
  /\ MayTimeOut(allocate_sync, t)
  /\ allocate_sync' = SemTimeout(allocate_sync, t)
  /\ Goto(t, "idle")
  /\ UNCHANGED <<free_list, held, surplus, spurious>>

WaitSpurious(t) ==
  /\ t \in allocate_sync.waiting
  /\ spurious < MaxSpurious
  /\ allocate_sync' = SpuriousWakeup(allocate_sync, t)
  /\ spurious' = spurious + 1
  /\ UNCHANGED <<free_list, pc, held, surplus>>

-----------------------------------------------------------------------------
(* The locked GetoutHeadnode.  A block taken without a permit leaves one
   permit too many; a permit spent on an empty list leaves one too few.      *)
Gain(t) == IF pc[t] = "tried" THEN 1 ELSE 0
Loss(t) == IF pc[t] = "granted" THEN 1 ELSE 0

(* Mutant: the head is handed out but stays in the list.                    *)
FetchKeepsHead(t) ==
  /\ pc[t] \in {"granted", "tried"}
  /\ free_list # <<>>
  /\ held' = [held EXCEPT ![t] = @ \cup {Head(free_list)}]
  /\ surplus' = surplus + Gain(t)
  /\ Goto(t, "idle")
  /\ UNCHANGED <<free_list, allocate_sync, spurious>>

Fetch(t) ==
  /\ pc[t] \in {"granted", "tried"}
  /\ free_list # <<>>
  /\ held' = [held EXCEPT ![t] = @ \cup {Head(free_list)}]
  /\ free_list' = Tail(free_list)
  /\ surplus' = surplus + Gain(t)
  /\ Goto(t, "idle")
  /\ UNCHANGED <<allocate_sync, spurious>>

FetchNull(t) ==
  /\ pc[t] \in {"granted", "tried"}
  /\ free_list = <<>>
  /\ surplus' = surplus - Loss(t)
  /\ Goto(t, "idle")
  /\ UNCHANGED <<free_list, allocate_sync, held, spurious>>

-----------------------------------------------------------------------------
(* BlockFree of a block that thread h was given: h may have handed it on.    *)
FreeLink(t, h, b) ==
  /\ pc[t] = "idle"
  /\ b \in held[h]
  /\ free_list' = Append(free_list, b)
  /\ held' = [held EXCEPT ![h] = @ \ {b}]
  /\ Goto(t, "notify")
  /\ UNCHANGED <<allocate_sync, surplus, spurious>>

(* Mutant: the permit is posted only if a thread waits for it.              *)
FreeNotifyWaiters(t) ==
  /\ pc[t] = "notify"
  /\ IF allocate_sync.waiting = {} THEN UNCHANGED allocate_sync
     ELSE allocate_sync' \in SemNotify(allocate_sync)
  /\ Goto(t, "idle")
  /\ UNCHANGED <<free_list, held, surplus, spurious>>

FreeNotify(t) ==
  /\ pc[t] = "notify"
  /\ allocate_sync' \in SemNotify(allocate_sync)
  /\ Goto(t, "idle")
  /\ UNCHANGED <<free_list, held, surplus, spurious>>

Next ==
  \E t \in Threads :
    \/ Try(t) \/ WaitTake(t) \/ WaitSleep(t) \/ WaitResume(t)
    \/ WaitTimeout(t) \/ WaitSpurious(t)
    \/ Fetch(t) \/ FetchNull(t) \/ FreeNotify(t)
    \/ \E h \in Threads, b \in Blocks : FreeLink(t, h, b)

Spec == Init /\ [][Next]_vars
-----------------------------------------------------------------------------
(* Every block is in one place: once in the free list, or with one thread,
   and never in both.                                                       *)
Exclusive ==
  /\ \A i, j \in 1..Len(free_list) : free_list[i] = free_list[j] => i = j
  /\ \A b \in Blocks : IsFree(b) => \A t \in Threads : b \notin held[t]
  /\ \A t, u \in Threads : t # u => held[t] \cap held[u] = {}

NothingLost == \A b \in Blocks : IsFree(b) \/ \E t \in Threads : b \in held[t]

BlocksConserved == Exclusive /\ NothingLost

(* Where the permits are: in the count, with a granted call or with a call
   about to post one; as many as the free blocks and the surplus.            *)
PermitsAccounted ==
  allocate_sync.count + Cardinality(At("granted")) + Cardinality(At("notify"))
    = Len(free_list) + surplus

(* Calls with ms = 0 make the semaphore grant more than there is (each one
   makes a timed call return NULL without waiting for a block); in the other
   direction, the permits that calls which found no block took away for good
   are at most one per other thread and one per spurious wake-up.            *)
ShortageBounded == surplus >= 1 - Cardinality(Threads) - spurious

(* A thread sleeps in BlockAlloc beside free blocks only if, for each of
   them, a woken thread, a granted call or a permit about to be posted is on
   its way, or the block's permit was lost (a negative surplus).            *)
SleepJustified ==
  ~TimeoutTakesSignal /\ allocate_sync.waiting # {}
    => Len(free_list) + surplus
         <= Cardinality(allocate_sync.woken)
              + Cardinality(At("granted")) + Cardinality(At("notify"))

(* The inductive invariant.                                                 *)
DebtBounded ==
  Balance(allocate_sync) >= 1 - Cardinality(Threads) - spurious

Promised == ~TimeoutTakesSignal => PermitsPromised(allocate_sync)

IInv ==
  /\ TypeOK /\ Exclusive /\ PermitsAccounted
  /\ DebtBounded /\ ShortageBounded /\ Promised
=============================================================================
