---------------------------- MODULE MessageQueue ----------------------------
(***************************************************************************)
(* The bounded message queue of src/platform/src/system/message.c: a ring   *)
(* of Size slots, two semaphores (one permit per free slot, one per queued  *)
(* message) and the mutex visit_lock.  Producers call PushMessage and       *)
(* consumers call PopMessage.                                               *)
(*                                                                          *)
(* Every critical section of visit_lock or of a semaphore's mutex is one    *)
(* step.  The one exception: after a timed-out SemWait the caller locks     *)
(* visit_lock only to unlock it and return -1, so the time-out and that     *)
(* section are a single step.                                               *)
(***************************************************************************)
EXTENDS Lock, Sequences

CONSTANTS
  Producers, Consumers,  \* the threads of either role
  Messages,              \* what u_buffer may point to
  NoMessage,             \* a message field nothing was stored in yet
  Size,                  \* the number of slots
  MaxSpurious            \* bound: spurious wake-ups in one behaviour

ASSUME MessageQueueAssumption ==
  /\ IsFiniteSet(Producers) /\ Producers # {}
  /\ IsFiniteSet(Consumers) /\ Consumers # {}
  /\ Producers \cap Consumers = {}
  /\ NoMessage \notin Messages
  /\ Size \in Nat \ {0}
  /\ MaxSpurious \in Nat

Threads == Producers \cup Consumers

(* The ms argument: 0 asks for a refusal instead of a wait, any other value
   waits that long.                                                         *)
Timeouts == {0, 1}

(* Which semaphore a thread waits on, and which one it notifies.            *)
SemNames == {"push_sync", "pop_sync"}
Own(t) == IF t \in Producers THEN "push_sync" ELSE "pop_sync"
Other(t) == IF t \in Producers THEN "pop_sync" ELSE "push_sync"
Users(n) == IF n = "push_sync" THEN Producers ELSE Consumers

VARIABLES
  in, out, count,   \* indices of the ring and the number of queued messages
  buffer,           \* the slots
  sync,             \* the two semaphores
  pc,               \* where each thread is, see Places
  ms,               \* the ms argument of a thread's call
  message,          \* message->packet.u_buffer of each thread
  leaked,           \* history: permits taken by calls that then failed
  spurious          \* history: spurious wake-ups on each semaphore

vars == <<in, out, count, buffer, sync, pc, ms, message, leaked, spurious>>

(* "wait" is before or inside SemWait, "granted" after it returned 0,
   "notify" after the ring was changed and before SemNotify.                *)
Places == {"idle", "wait", "granted", "notify"}

At(T, place) == {t \in T : pc[t] = place}

TypeOK ==
  /\ in \in 0..Size - 1 /\ out \in 0..Size - 1
  /\ count \in 0..Size
  /\ buffer \in [0..Size - 1 -> Messages \cup {NoMessage}]
  /\ sync \in [SemNames -> Sems(Threads)]
  /\ \A n \in SemNames : SemOK(sync[n], Users(n))
  /\ pc \in [Threads -> Places]
  /\ \A n \in SemNames : Sleeping(sync[n]) \subseteq At(Users(n), "wait")
  /\ ms \in [Threads -> Timeouts]
  /\ message \in [Threads -> Messages \cup {NoMessage}]
  /\ \A p \in Producers : pc[p] # "idle" => message[p] \in Messages
  /\ leaked \in [SemNames -> Nat]
  /\ spurious \in [SemNames -> 0..MaxSpurious]

(* InitMQ *)
Init ==
  /\ in = 0 /\ out = 0 /\ count = 0
  /\ buffer = [i \in 0..Size - 1 |-> NoMessage]
  /\ sync = [n \in SemNames |->
               IF n = "push_sync" THEN SemInit(Size) ELSE SemInit(0)]
  /\ pc = [t \in Threads |-> "idle"]
  /\ ms = [t \in Threads |-> 0]
  /\ message = [t \in Threads |-> NoMessage]
  /\ leaked = [n \in SemNames |-> 0]
  /\ spurious = [n \in SemNames |-> 0]

Goto(t, place) == pc' = [pc EXCEPT ![t] = place]

(* The call returns: its arguments are gone, a received message is kept.    *)
Return(t) ==
  /\ Goto(t, "idle")
  /\ ms' = [ms EXCEPT ![t] = 0]
  /\ message' = [message EXCEPT ![t] = IF t \in Producers THEN NoMessage ELSE @]

SyncStep(n, s) == sync' = [sync EXCEPT ![n] = s]

ring == <<in, out, count, buffer>>
-----------------------------------------------------------------------------
(* Entry.  With ms = 0 a push on a full ring, and a pop on an empty one,
   fails at once; the lock is released before SemWait, so the answer may be
   stale when the caller gets there.                                        *)
PushCall(p) ==
  /\ pc[p] = "idle"
  /\ \E m \in Messages, w \in Timeouts :
       /\ ~(w = 0 /\ count = Size)
       /\ message' = [message EXCEPT ![p] = m]
       /\ ms' = [ms EXCEPT ![p] = w]
  /\ Goto(p, "wait")
  /\ UNCHANGED <<ring, sync, leaked, spurious>>

PopCall(c) ==
  /\ pc[c] = "idle"
  /\ \E w \in Timeouts :
       /\ ~(w = 0 /\ count = 0)
       /\ ms' = [ms EXCEPT ![c] = w]
  /\ Goto(c, "wait")
  /\ UNCHANGED <<ring, sync, message, leaked, spurious>>

-----------------------------------------------------------------------------
(* SemWait on the thread's own semaphore.                                   *)
WaitTake(t) ==
  /\ pc[t] = "wait" /\ t \notin Sleeping(sync[Own(t)])
  /\ HasPermit(sync[Own(t)])
  /\ SyncStep(Own(t), SemTake(sync[Own(t)]))
  /\ Goto(t, "granted")
  /\ UNCHANGED <<ring, ms, message, leaked, spurious>>

WaitSleep(t) ==
  /\ pc[t] = "wait" /\ t \notin Sleeping(sync[Own(t)])
  /\ ~HasPermit(sync[Own(t)])
  /\ SyncStep(Own(t), SemSleep(sync[Own(t)], t))
  /\ UNCHANGED <<ring, pc, ms, message, leaked, spurious>>

WaitResume(t) ==
  /\ t \in sync[Own(t)].woken
  /\ SyncStep(Own(t), SemResume(sync[Own(t)], t))
  /\ Goto(t, "granted")
  /\ UNCHANGED <<ring, ms, message, leaked, spurious>>

(* The deadline passes: SemWait, and with it the call, returns -1.          *)
WaitTimeout(t) ==
  /\ ms[t] > 0
  /\ MayTimeOut(sync[Own(t)], t)
  /\ SyncStep(Own(t), SemTimeout(sync[Own(t)], t))
  /\ Return(t)
  /\ UNCHANGED <<ring, leaked, spurious>>

WaitSpurious(t) ==
  /\ t \in sync[Own(t)].waiting
  /\ spurious[Own(t)] < MaxSpurious
  /\ SyncStep(Own(t), SpuriousWakeup(sync[Own(t)], t))
  /\ spurious' = [spurious EXCEPT ![Own(t)] = @ + 1]
  /\ UNCHANGED <<ring, pc, ms, message, leaked>>

-----------------------------------------------------------------------------
(* The second critical section.  The ring is read again; a call that holds a
   permit but finds no slot, or no message, returns -1 and keeps the permit. *)
Next1(i) == (i + 1) % Size

Leak(t) ==
  /\ leaked' = [leaked EXCEPT ![Own(t)] = @ + 1]
  /\ Return(t)
  /\ UNCHANGED ring

PushFails(p) == count = Size /\ Leak(p)

(* Mutants: the ring is not read again; the index runs off the ring.        *)
InsertUnchecked(p) ==
  /\ buffer' = [buffer EXCEPT ![in] = message[p]]
  /\ in' = Next1(in)
  /\ count' = count + 1
  /\ Goto(p, "notify")
  /\ UNCHANGED <<out, ms, message, leaked>>

InsertNoWrap(p) ==
  /\ count # Size
  /\ buffer' = [buffer EXCEPT ![in] = message[p]]
  /\ in' = in + 1
  /\ count' = count + 1
  /\ Goto(p, "notify")
  /\ UNCHANGED <<out, ms, message, leaked>>

Insert(p) ==
  /\ count # Size
  /\ buffer' = [buffer EXCEPT ![in] = message[p]]
  /\ in' = Next1(in)
  /\ count' = count + 1
  /\ Goto(p, "notify")
  /\ UNCHANGED <<out, ms, message, leaked>>

PushLocked(p) ==
  /\ pc[p] = "granted"
  /\ Insert(p) \/ PushFails(p)
  /\ UNCHANGED <<sync, spurious>>

PopFails(c) == count = 0 /\ Leak(c)

(* Mutants: `out` moves before the slot is read; the ring is not read again. *)
RemoveNextSlot(c) ==
  /\ count # 0
  /\ message' = [message EXCEPT ![c] = buffer[Next1(out)]]
  /\ out' = Next1(out)
  /\ count' = count - 1
  /\ Goto(c, "notify")
  /\ UNCHANGED <<in, buffer, ms, leaked>>

RemoveUnchecked(c) ==
  /\ message' = [message EXCEPT ![c] = buffer[out]]
  /\ out' = Next1(out)
  /\ count' = count - 1
  /\ Goto(c, "notify")
  /\ UNCHANGED <<in, buffer, ms, leaked>>

Remove(c) ==
  /\ count # 0
  /\ message' = [message EXCEPT ![c] = buffer[out]]
  /\ out' = Next1(out)
  /\ count' = count - 1
  /\ Goto(c, "notify")
  /\ UNCHANGED <<in, buffer, ms, leaked>>

PopLocked(c) ==
  /\ pc[c] = "granted"
  /\ Remove(c) \/ PopFails(c)
  /\ UNCHANGED <<sync, spurious>>

(* Mutants: the permit goes back to the caller's own semaphore; it is never
   posted; only a push posts one.                                           *)
NotifyOwn(t) ==
  /\ pc[t] = "notify"
  /\ \E s \in SemNotify(sync[Own(t)]) : SyncStep(Own(t), s)
  /\ Return(t)
  /\ UNCHANGED <<ring, leaked, spurious>>

NotifyDropped(t) ==
  /\ pc[t] = "notify"
  /\ Return(t)
  /\ UNCHANGED <<ring, sync, leaked, spurious>>

NotifyPushOnly(t) ==
  /\ pc[t] = "notify"
  /\ IF t \in Producers
       THEN \E s \in SemNotify(sync[Other(t)]) : SyncStep(Other(t), s)
       ELSE UNCHANGED sync
  /\ Return(t)
  /\ UNCHANGED <<ring, leaked, spurious>>

(* The call's last step: one permit for the other side.                     *)
Notify(t) ==
  /\ pc[t] = "notify"
  /\ \E s \in SemNotify(sync[Other(t)]) : SyncStep(Other(t), s)
  /\ Return(t)
  /\ UNCHANGED <<ring, leaked, spurious>>

-----------------------------------------------------------------------------
Call(t) ==
  \/ t \in Producers /\ PushCall(t)
  \/ t \in Consumers /\ PopCall(t)

Wait(t) == WaitTake(t) \/ WaitSleep(t) \/ WaitResume(t)

Locked(t) ==
  \/ t \in Producers /\ PushLocked(t)
  \/ t \in Consumers /\ PopLocked(t)

Next ==
  \E t \in Threads :
    \/ Call(t) \/ Wait(t) \/ Locked(t) \/ Notify(t)
    \/ WaitTimeout(t) \/ WaitSpurious(t)

Spec == Init /\ [][Next]_vars

(* Fairness: a thread that can run is eventually run, and every thread keeps
   calling.  Nothing is assumed of deadlines or of spurious wake-ups.       *)
Fairness ==
  \A t \in Threads :
    WF_vars(Call(t)) /\ WF_vars(Wait(t) \/ Locked(t) \/ Notify(t))

LiveSpec == Spec /\ Fairness
-----------------------------------------------------------------------------
(* Where every permit is.  A permit of push_sync is in the count, held by a
   granted producer, spent on a queued message, about to be posted by a
   consumer that removed one, or lost; the same for pop_sync.               *)
PermitsAccounted ==
  /\ sync["push_sync"].count + Cardinality(At(Producers, "granted")) + count
       + Cardinality(At(Consumers, "notify")) + leaked["push_sync"] = Size
  /\ sync["pop_sync"].count + Cardinality(At(Consumers, "granted"))
       + Cardinality(At(Producers, "notify")) + leaked["pop_sync"] = count

(* A thread sleeps in SemWait with nobody woken and nobody about to notify
   its semaphore only when the ring is full (empty, for a consumer), or when
   all the slots that are free (the messages that are queued) have been lost
   to failed calls or are held by calls that got a permit.                  *)
SleepJustified ==
  ~TimeoutTakesSignal =>
    /\ sync["push_sync"].waiting # {} /\ sync["push_sync"].woken = {}
         /\ At(Consumers, "notify") = {}
         => Size - count <= leaked["push_sync"]
                              + Cardinality(At(Producers, "granted"))
    /\ sync["pop_sync"].waiting # {} /\ sync["pop_sync"].woken = {}
         /\ At(Producers, "notify") = {}
         => count <= leaked["pop_sync"]
                       + Cardinality(At(Consumers, "granted"))

(* A failed call never gives its permit back (message.c:46, 73), so the
   queue shrinks for good; but it loses at most one slot per producer after
   the first, one message per consumer after the first, and one more per
   spurious wake-up.                                                        *)
LeakBounded ==
  \A n \in SemNames : leaked[n] <= Cardinality(Users(n)) - 1 + spurious[n]

Asleep(T, n) == T \subseteq sync[n].waiting

(* Every thread asleep at once, with nobody left to wake them.              *)
AllAsleep == Asleep(Producers, "push_sync") /\ Asleep(Consumers, "pop_sync")

(* The queue as a whole deadlocks only after as many permits were lost as
   it has slots: with LeakBounded, never when it has at least as many slots
   as threads less one.                                                     *)
DeadlockNeedsLeaks ==
  ~TimeoutTakesSignal /\ AllAsleep
    => leaked["push_sync"] + leaked["pop_sync"] >= Size

(* The inductive invariant: the ring's indices agree with its count, no
   semaphore owes more than its users can have borrowed, and a permit never
   lies beside a sleeping thread.                                           *)
RingOK == in = (out + count) % Size

DebtBounded ==
  \A n \in SemNames :
    Balance(sync[n]) >= 1 - Cardinality(Users(n)) - spurious[n]

Promised ==
  ~TimeoutTakesSignal => \A n \in SemNames : PermitsPromised(sync[n])

IInv ==
  /\ TypeOK /\ RingOK /\ PermitsAccounted
  /\ DebtBounded /\ LeakBounded /\ Promised

-----------------------------------------------------------------------------
(* The messages in the ring, the oldest first.                              *)
Contents == [i \in 1..count |-> buffer[(out + i - 1) % Size]]

Fifo == INSTANCE BoundedFifo WITH
          contents <- Contents, got <- [c \in Consumers |-> message[c]],
          Receivers <- Consumers, Capacity <- Size

(* The queue is a bounded first-in first-out queue whatever the semaphores
   grant: the recheck under visit_lock keeps the ring right even when a
   permit was granted twice.                                                *)
ImplementsFifo == Fifo!Spec

-----------------------------------------------------------------------------
Delivery == \E c \in Consumers : pc[c] = "granted" /\ Remove(c)

(* The queue never stops while its callers keep calling: messages are
   delivered for ever, though calls fail and permits leak on the way.  It
   needs at least as many slots as threads less one (DeadlockNeedsLeaks).    *)
KeepsMoving == []<><<Delivery>>_vars

(* A thread that has its side of the queue to itself, the one consumer or
   the one producer, comes back from every call, an untimed wait included:
   the other side is always able to post the missing permit.  With company on
   its side it may starve, as a barging thread takes the slot it was woken
   for each time.                                                           *)
EveryCallReturns ==
  \A t \in Threads :
    Users(Own(t)) = {t} => (pc[t] # "idle" ~> pc[t] = "idle")
=============================================================================
