------------------------- MODULE MessageQueue_proofs -------------------------
(***************************************************************************)
(* The invariants of MessageQueue for every set of threads, every ring size *)
(* and every number of spurious wake-ups, and its refinement of BoundedFifo. *)
(***************************************************************************)
EXTENDS MessageQueue, Lock_proofs, SequenceTheorems

(* Each thread uses one semaphore and notifies the other one.               *)
LEMMA Sides ==
  /\ \A t \in Threads : /\ Own(t) \in SemNames /\ t \in Users(Own(t))
                        /\ Other(t) \in SemNames /\ Other(t) # Own(t)
                        /\ \A n \in SemNames : t \in Users(n) => n = Own(t)
  /\ \A n \in SemNames : /\ Users(n) \subseteq Threads
                         /\ IsFiniteSet(Users(n))
                         /\ Cardinality(Users(n)) \in Nat
                         /\ Cardinality(Users(n)) >= 1
  <1>1. \A n \in SemNames : /\ Users(n) \subseteq Threads
                            /\ IsFiniteSet(Users(n)) /\ Users(n) # {}
    BY MessageQueueAssumption
    DEF MessageQueueAssumption, SemNames, Users, Threads
  <1>2. \A n \in SemNames : Cardinality(Users(n)) \in Nat
                            /\ Cardinality(Users(n)) # 0
    BY <1>1, FS_CardinalityType, FS_EmptySet
  <1>3. \A n \in SemNames : Cardinality(Users(n)) >= 1
    BY <1>2
  <1>4. \A t \in Threads : /\ Own(t) \in SemNames /\ t \in Users(Own(t))
                           /\ Other(t) \in SemNames /\ Other(t) # Own(t)
                           /\ \A n \in SemNames : t \in Users(n) => n = Own(t)
    BY MessageQueueAssumption
    DEF MessageQueueAssumption, SemNames, Users, Threads, Own, Other
  <1> QED  BY <1>1, <1>2, <1>3, <1>4

(* The index that follows i in the ring, and the modulus of a sum that
   overruns the ring by less than one turn.                                 *)
LEMMA RingStep ==
  ASSUME NEW i \in 0..Size - 1
  PROVE  /\ Next1(i) \in 0..Size - 1
         /\ Next1(i) = IF i = Size - 1 THEN 0 ELSE i + 1
  BY MessageQueueAssumption DEF MessageQueueAssumption, Next1

(* An index k slots on in the ring, as message.c:49 and 76 advance it.      *)
LEMMA RingSum ==
  ASSUME NEW o \in 0..Size - 1, NEW k \in 0..Size
  PROVE  (o + k) % Size = IF o + k < Size THEN o + k ELSE o + k - Size
  <1> USE MessageQueueAssumption DEF MessageQueueAssumption
  <1>1. CASE o + k < Size
    <2> DEFINE a == o + k
    <2>1. a \in 0..Size - 1
      BY <1>1
    <2>2. a % Size = a
      <3> HIDE DEF a
      <3> QED  BY <2>1
    <2> QED  BY <1>1, <2>2
  <1>2. CASE o + k >= Size
    <2> DEFINE a == o + k
    <2>1. a \in Size..2 * Size - 1
      BY <1>2
    <2>2. a % Size = a - Size
      <3> HIDE DEF a
      <3> QED  BY <2>1
    <2> QED  BY <1>2, <2>2
  <1> QED  BY <1>1, <1>2

(* How the number of threads at a place changes when one thread moves.      *)
LEMMA GotoCounts ==
  ASSUME TypeOK, NEW T \in {Producers, Consumers}, NEW t \in Threads,
         NEW b \in Places, Goto(t, b), pc[t] # b, NEW x \in Places
  PROVE  /\ Cardinality(At(T, x)) \in Nat
         /\ Cardinality(At(T, x)') =
              IF t \in T /\ x = b THEN Cardinality(At(T, x)) + 1
              ELSE IF t \in T /\ x = pc[t] THEN Cardinality(At(T, x)) - 1
              ELSE Cardinality(At(T, x))
  <1>1. T \subseteq Threads /\ IsFiniteSet(T)
    BY MessageQueueAssumption DEF MessageQueueAssumption, Threads
  <1>2. IsFiniteSet(At(T, x)) /\ Cardinality(At(T, x)) \in Nat
    <2>1. At(T, x) \in SUBSET T
      BY DEF At
    <2> QED  BY <1>1, <2>1, FS_Subset, FS_CardinalityType
  <1>3. pc \in [Threads -> Places] /\ pc' = [pc EXCEPT ![t] = b]
    BY DEF TypeOK, Goto
  <1>4. CASE t \in T /\ x = b
    <2>1. At(T, x)' = At(T, x) \cup {t} /\ t \notin At(T, x)
      BY <1>1, <1>3, <1>4 DEF At
    <2> QED  BY <1>2, <1>4, <2>1, FS_AddElement
  <1>5. CASE t \in T /\ x = pc[t]
    <2>1. At(T, x)' = At(T, x) \ {t} /\ t \in At(T, x)
      BY <1>1, <1>3, <1>5 DEF At
    <2>2. Cardinality(At(T, x)') = Cardinality(At(T, x)) - 1
      BY <1>2, <2>1, FS_RemoveElement
    <2>3. x # b
      BY <1>5
    <2> QED  BY <1>2, <1>5, <2>2, <2>3
  <1>6. CASE ~(t \in T /\ x = b) /\ ~(t \in T /\ x = pc[t])
    <2>1. At(T, x)' = At(T, x)
      BY <1>1, <1>3, <1>6 DEF At
    <2> QED  BY <1>2, <1>6, <2>1
  <1> QED  BY <1>4, <1>5, <1>6

(* The number of threads at a place is a number.                            *)
LEMMA AtType ==
  ASSUME NEW T \in {Producers, Consumers}, NEW x
  PROVE  IsFiniteSet(At(T, x)) /\ Cardinality(At(T, x)) \in Nat
  <1>1. IsFiniteSet(T) /\ At(T, x) \in SUBSET T
    BY MessageQueueAssumption DEF MessageQueueAssumption, At
  <1> QED  BY <1>1, FS_Subset, FS_CardinalityType

(* What one step on the semaphore n leaves of the two semaphores.           *)
LEMMA SyncUpdate ==
  ASSUME TypeOK, NEW n \in SemNames, NEW s, SemOK(s, Users(n)), SyncStep(n, s)
  PROVE  /\ sync' \in [SemNames -> Sems(Threads)]
         /\ \A m \in SemNames : SemOK(sync'[m], Users(m))
         /\ sync'[n] = s
         /\ \A m \in SemNames : m # n => sync'[m] = sync[m]
  <1>1. sync \in [SemNames -> Sems(Threads)]
        /\ \A m \in SemNames : SemOK(sync[m], Users(m))
    BY DEF TypeOK
  <1>2. s \in Sems(Threads)
    BY Sides DEF SemOK, Sems
  <1>3. sync' = [sync EXCEPT ![n] = s]
    BY DEF SyncStep
  <1> QED  BY <1>1, <1>2, <1>3

(* The part of TypeOK that speaks of the semaphores and of the threads on
   them, and the part that speaks of each call.                             *)
SyncOK ==
  /\ sync \in [SemNames -> Sems(Threads)]
  /\ \A n \in SemNames : SemOK(sync[n], Users(n))
  /\ pc \in [Threads -> Places]
  /\ \A n \in SemNames : Sleeping(sync[n]) \subseteq At(Users(n), "wait")

CallOK ==
  /\ ms \in [Threads -> Timeouts]
  /\ message \in [Threads -> Messages \cup {NoMessage}]
  /\ \A p \in Producers : pc[p] # "idle" => message[p] \in Messages

RingType ==
  /\ in \in 0..Size - 1 /\ out \in 0..Size - 1
  /\ count \in 0..Size
  /\ buffer \in [0..Size - 1 -> Messages \cup {NoMessage}]

HistoryOK ==
  /\ leaked \in [SemNames -> Nat]
  /\ spurious \in [SemNames -> 0..MaxSpurious]

(* The type invariant is that of the ring, the semaphores, the calls and the histories. *)
LEMMA TypeParts == TypeOK <=> RingType /\ SyncOK /\ CallOK /\ HistoryOK
  BY DEF TypeOK, RingType, SyncOK, CallOK, HistoryOK

(* A thread that leaves SemWait leaves the sets of its semaphore.           *)
LEMMA LeaveWait ==
  ASSUME TypeOK, NEW t \in Threads, NEW s, SemOK(s, Users(Own(t))),
         Sleeping(s) = Sleeping(sync[Own(t)]) \ {t}, SyncStep(Own(t), s),
         NEW b \in Places, Goto(t, b)
  PROVE  SyncOK'
  <1>1. pc \in [Threads -> Places]
        /\ \A n \in SemNames : Sleeping(sync[n]) \subseteq At(Users(n), "wait")
    BY DEF TypeOK
  <1>2. /\ sync' \in [SemNames -> Sems(Threads)]
        /\ \A m \in SemNames : SemOK(sync'[m], Users(m))
        /\ sync'[Own(t)] = s
        /\ \A m \in SemNames : m # Own(t) => sync'[m] = sync[m]
    BY Sides, SyncUpdate
  <1>3. pc' \in [Threads -> Places]
        /\ \A u \in Threads : u # t => pc'[u] = pc[u]
    BY <1>1 DEF Goto
  <1>4. ASSUME NEW n \in SemNames, NEW u \in Sleeping(sync'[n])
        PROVE  u \in At(Users(n), "wait")'
    <2>1. u \in At(Users(n), "wait") /\ (n = Own(t) => u # t)
      BY <1>1, <1>2, <1>4
    <2>2. u \in Users(n) /\ pc[u] = "wait" /\ u \in Threads
      BY <2>1, Sides DEF At
    <2>3. u # t
      BY <2>1, <2>2, Sides
    <2> QED  BY <1>3, <2>2, <2>3 DEF At
  <1> QED  BY <1>2, <1>3, <1>4 DEF SyncOK

(* The semaphores and the places of the threads agree after every step.     *)
LEMMA SyncStepOK == TypeOK /\ [Next]_vars => SyncOK'
  <1> SUFFICES ASSUME TypeOK, [Next]_vars PROVE SyncOK'
    OBVIOUS
  <1>1. /\ pc \in [Threads -> Places] /\ SyncOK
        /\ \A n \in SemNames : /\ SemOK(sync[n], Users(n))
                                /\ Sleeping(sync[n]) \subseteq At(Users(n), "wait")
    BY TypeParts DEF TypeOK
  <1>2. CASE UNCHANGED vars
    BY <1>1, <1>2 DEF vars, SyncOK, At
  <1>3. ASSUME NEW t \in Threads, Call(t) PROVE SyncOK'
    <2>1. Goto(t, "wait") /\ UNCHANGED sync /\ pc[t] = "idle"
      BY <1>3 DEF Call, PushCall, PopCall
    <2>2. \A n \in SemNames : At(Users(n), "wait") \subseteq At(Users(n), "wait")'
      BY <1>1, <2>1, Sides DEF At, Goto
    <2> QED  BY <1>1, <2>1, <2>2 DEF SyncOK, Goto, Places
  <1>4. ASSUME NEW t \in Threads, WaitTake(t) PROVE SyncOK'
    <2>1. SemOK(SemTake(sync[Own(t)]), Users(Own(t)))
          /\ Sleeping(SemTake(sync[Own(t)])) = Sleeping(sync[Own(t)]) \ {t}
      BY <1>1, <1>4, Sides, SemTakeFacts DEF WaitTake
    <2> QED  BY <1>4, <2>1, LeaveWait DEF WaitTake, Places
  <1>5. ASSUME NEW t \in Threads, WaitSleep(t) PROVE SyncOK'
    <2>1. SemOK(SemSleep(sync[Own(t)], t), Users(Own(t)))
          /\ Sleeping(SemSleep(sync[Own(t)], t)) = Sleeping(sync[Own(t)]) \cup {t}
      BY <1>1, <1>5, Sides, SemSleepFacts DEF WaitSleep
    <2>2. /\ sync' \in [SemNames -> Sems(Threads)]
          /\ \A m \in SemNames : SemOK(sync'[m], Users(m))
          /\ Sleeping(sync'[Own(t)]) = Sleeping(sync[Own(t)]) \cup {t}
          /\ \A m \in SemNames : m # Own(t) => sync'[m] = sync[m]
      BY <1>5, <2>1, Sides, SyncUpdate DEF WaitSleep
    <2>3. pc[t] = "wait" /\ t \in Users(Own(t)) /\ UNCHANGED pc
      BY <1>5, Sides DEF WaitSleep
    <2>4. \A n \in SemNames : At(Users(n), "wait")' = At(Users(n), "wait")
      BY <2>3 DEF At
    <2>5. t \in At(Users(Own(t)), "wait")
      BY <2>3 DEF At
    <2>6. \A n \in SemNames : Sleeping(sync'[n]) \subseteq At(Users(n), "wait")'
      BY <1>1, <2>2, <2>4, <2>5
    <2> QED  BY <1>1, <2>2, <2>3, <2>6 DEF SyncOK
  <1>6. ASSUME NEW t \in Threads, WaitResume(t) PROVE SyncOK'
    <2>1. SemOK(SemResume(sync[Own(t)], t), Users(Own(t)))
          /\ Sleeping(SemResume(sync[Own(t)], t)) = Sleeping(sync[Own(t)]) \ {t}
      BY <1>1, <1>6, Sides, SemResumeFacts DEF WaitResume
    <2> QED
      BY <1>6, <2>1, LeaveWait DEF WaitResume, Places
  <1>7. ASSUME NEW t \in Threads, WaitTimeout(t) PROVE SyncOK'
    <2>1. SemOK(SemTimeout(sync[Own(t)], t), Users(Own(t)))
          /\ Sleeping(SemTimeout(sync[Own(t)], t)) = Sleeping(sync[Own(t)]) \ {t}
      BY <1>1, <1>7, Sides, SemTimeoutFacts DEF WaitTimeout
    <2> QED
      BY <1>7, <2>1, LeaveWait DEF WaitTimeout, Return, Places
  <1>8. ASSUME NEW t \in Threads, WaitSpurious(t) PROVE SyncOK'
    <2>1. SemOK(SpuriousWakeup(sync[Own(t)], t), Users(Own(t)))
          /\ Sleeping(SpuriousWakeup(sync[Own(t)], t)) = Sleeping(sync[Own(t)])
      BY <1>1, <1>8, Sides, SpuriousFacts DEF WaitSpurious
    <2> QED
      BY <1>1, <1>8, <2>1, Sides, SyncUpdate DEF WaitSpurious, SyncOK, At
  <1>9. ASSUME NEW t \in Threads, Locked(t) PROVE SyncOK'
    <2>1. UNCHANGED sync /\ pc[t] = "granted"
          /\ (Goto(t, "notify") \/ Goto(t, "idle"))
      BY <1>9 DEF Locked, PushLocked, PopLocked, Insert, Remove,
                  PushFails, PopFails, Leak, Return
    <2> QED  BY <1>1, <2>1, Sides DEF SyncOK, Goto, Places, At
  <1>10. ASSUME NEW t \in Threads, Notify(t) PROVE SyncOK'
    <2>1. PICK s \in SemNotify(sync[Other(t)]) : SyncStep(Other(t), s)
      BY <1>10 DEF Notify
    <2>2. SemOK(s, Users(Other(t))) /\ Sleeping(s) = Sleeping(sync[Other(t)])
      BY <1>1, <2>1, Sides, SemNotifyFacts
    <2> QED
      BY <1>1, <1>10, <2>1, <2>2, Sides, SyncUpdate
      DEF Notify, Return, SyncOK, Goto, Places, At
  <1> QED
    BY <1>2, <1>3, <1>4, <1>5, <1>6, <1>7, <1>8, <1>9, <1>10 DEF Next, Wait

(* What the ring, the calls and the histories hold after every step.        *)
LEMMA RingTypeOK == TypeOK /\ [Next]_vars => RingType'
  <1> SUFFICES ASSUME TypeOK, [Next]_vars PROVE RingType'
    OBVIOUS
  <1>1. RingType /\ Size \in Nat \ {0}
    BY TypeParts, MessageQueueAssumption DEF MessageQueueAssumption
  <1>2. CASE UNCHANGED ring
    BY <1>1, <1>2 DEF ring, RingType
  <1>3. ASSUME NEW p \in Producers, pc[p] = "granted", Insert(p) PROVE RingType'
    <2>1. message[p] \in Messages
      BY <1>3 DEF TypeOK
    <2>2. Next1(in) \in 0..Size - 1
      BY <1>1, RingStep DEF RingType
    <2> QED  BY <1>1, <1>3, <2>1, <2>2 DEF RingType, Insert
  <1>4. ASSUME NEW c \in Consumers, Remove(c) PROVE RingType'
    <2>1. Next1(out) \in 0..Size - 1
      BY <1>1, RingStep DEF RingType
    <2> QED  BY <1>1, <1>4, <2>1 DEF RingType, Remove
  <1>5. ASSUME NEW t \in Threads, Locked(t) PROVE RingType'
    BY <1>2, <1>3, <1>4, <1>5
    DEF Locked, PushLocked, PopLocked, PushFails, PopFails, Leak
  <1>6. ASSUME NEW t \in Threads,
               Call(t) \/ Wait(t) \/ Notify(t) \/ WaitTimeout(t) \/ WaitSpurious(t)
        PROVE  UNCHANGED ring
    BY <1>6 DEF Call, PushCall, PopCall, Wait, WaitTake, WaitSleep, WaitResume,
                Notify, WaitTimeout, WaitSpurious
  <1>7. UNCHANGED vars => UNCHANGED ring
    BY DEF vars, ring
  <1> QED  BY <1>2, <1>5, <1>6, <1>7 DEF Next

(* A step preserves the type of the calls.                                  *)
LEMMA CallTypeOK == TypeOK /\ [Next]_vars => CallOK'
  <1> SUFFICES ASSUME TypeOK, [Next]_vars PROVE CallOK'
    OBVIOUS
  <1> USE MessageQueueAssumption DEF MessageQueueAssumption
  <1>1. /\ pc \in [Threads -> Places] /\ CallOK /\ RingType
        /\ Producers \subseteq Threads /\ Consumers \subseteq Threads
    BY TypeParts DEF TypeOK, Threads
  <1>2. CASE UNCHANGED vars
    BY <1>1, <1>2 DEF vars, CallOK
  <1>3. ASSUME NEW p \in Producers, PushCall(p) PROVE CallOK'
    BY <1>1, <1>3 DEF PushCall, CallOK, Goto
  <1>4. ASSUME NEW c \in Consumers, PopCall(c) PROVE CallOK'
    BY <1>1, <1>4 DEF PopCall, CallOK, Goto
  <1>5. ASSUME NEW t \in Threads, Return(t) PROVE CallOK'
    BY <1>1, <1>5 DEF Return, CallOK, Goto, Timeouts
  <1>6. ASSUME NEW t \in Threads, UNCHANGED <<ms, message>>, pc[t] # "idle",
               pc' = pc \/ \E b \in Places : Goto(t, b)
        PROVE  CallOK'
    BY <1>1, <1>6 DEF CallOK, Goto
  <1>7. ASSUME NEW t \in Threads, Wait(t) \/ WaitSpurious(t) PROVE CallOK'
    <2>1. UNCHANGED <<ms, message>> /\ (pc' = pc \/ Goto(t, "granted"))
      BY <1>7 DEF Wait, WaitTake, WaitSleep, WaitResume, WaitSpurious
    <2>2. pc[t] = "wait"
      BY <1>7, Sides
      DEF Wait, WaitTake, WaitSleep, WaitResume, WaitSpurious, TypeOK,
          Sleeping, At
    <2> QED  BY <1>6, <2>1, <2>2 DEF Places
  <1>8. ASSUME NEW p \in Producers, PushLocked(p) PROVE CallOK'
    <2>1. CASE Insert(p)
      BY <1>1, <1>6, <1>8, <2>1 DEF PushLocked, Insert, Places
    <2>2. CASE PushFails(p)
      BY <1>1, <1>5, <2>2 DEF PushFails, Leak
    <2> QED  BY <1>8, <2>1, <2>2 DEF PushLocked
  <1>9. ASSUME NEW c \in Consumers, PopLocked(c) PROVE CallOK'
    <2>1. CASE Remove(c)
      <3>1. buffer[out] \in Messages \cup {NoMessage}
        BY <1>1 DEF RingType
      <3> QED  BY <1>1, <2>1, <3>1 DEF Remove, CallOK, Goto
    <2>2. CASE PopFails(c)
      BY <1>1, <1>5, <2>2 DEF PopFails, Leak
    <2> QED  BY <1>9, <2>1, <2>2 DEF PopLocked
  <1>10. ASSUME NEW t \in Threads, Notify(t) \/ WaitTimeout(t) PROVE CallOK'
    BY <1>5, <1>10 DEF Notify, WaitTimeout
  <1> QED
    BY <1>2, <1>3, <1>4, <1>7, <1>8, <1>9, <1>10 DEF Next, Call, Locked

(* A step preserves the type of the histories.                              *)
LEMMA HistoryTypeOK == TypeOK /\ [Next]_vars => HistoryOK'
  <1> SUFFICES ASSUME TypeOK, [Next]_vars PROVE HistoryOK'
    OBVIOUS
  <1>1. HistoryOK /\ MaxSpurious \in Nat
    BY TypeParts, MessageQueueAssumption DEF MessageQueueAssumption
  <1>2. CASE UNCHANGED <<leaked, spurious>>
    BY <1>1, <1>2 DEF HistoryOK
  <1>3. ASSUME NEW t \in Threads, Leak(t), UNCHANGED spurious PROVE HistoryOK'
    BY <1>1, <1>3, Sides DEF HistoryOK, Leak
  <1>4. ASSUME NEW t \in Threads, WaitSpurious(t) PROVE HistoryOK'
    BY <1>1, <1>4, Sides DEF HistoryOK, WaitSpurious
  <1>5. ASSUME NEW t \in Threads, Locked(t) PROVE HistoryOK'
    BY <1>2, <1>3, <1>5
    DEF Locked, PushLocked, PopLocked, Insert, Remove, PushFails, PopFails
  <1>6. ASSUME NEW t \in Threads, Call(t) \/ Wait(t) \/ Notify(t) \/ WaitTimeout(t)
        PROVE  UNCHANGED <<leaked, spurious>>
    BY <1>6 DEF Call, PushCall, PopCall, Wait, WaitTake, WaitSleep, WaitResume,
                Notify, WaitTimeout
  <1>7. UNCHANGED vars => UNCHANGED <<leaked, spurious>>
    BY DEF vars
  <1> QED  BY <1>2, <1>4, <1>5, <1>6, <1>7 DEF Next

(* The initial state of InitMQ has the type, and so has every state after.  *)
LEMMA InitType == Init => TypeOK
  <1> SUFFICES ASSUME Init PROVE TypeOK
    OBVIOUS
  <1> USE MessageQueueAssumption DEF MessageQueueAssumption
  <1>1. \A n \in SemNames : /\ SemOK(sync[n], Users(n))
                            /\ Sleeping(sync[n]) = {}
    BY SemInitFacts DEF Init
  <1>2. sync \in [SemNames -> Sems(Threads)]
    BY DEF Init, SemInit, Sems
  <1>3. SyncOK
    BY <1>1, <1>2 DEF Init, SyncOK, Places
  <1>4. CallOK
    <2>1. \A p \in Producers : pc[p] = "idle"
      BY DEF Init, Threads
    <2> QED  BY <2>1 DEF Init, CallOK, Timeouts
  <1>5. RingType
    BY DEF Init, RingType
  <1>6. HistoryOK
    BY DEF Init, HistoryOK
  <1> QED  BY <1>3, <1>4, <1>5, <1>6, TypeParts

(* The ring's indices and counter, the semaphores' sets and the callers'
   places keep their types; count never passes Size.                        *)
THEOREM TypeCorrect == Spec => []TypeOK
  <1>1. TypeOK /\ [Next]_vars => TypeOK'
    BY TypeParts, SyncStepOK, RingTypeOK, CallTypeOK, HistoryTypeOK
    DEF TypeOK, RingType, SyncOK, CallOK, HistoryOK
  <1> QED  BY InitType, <1>1, PTL DEF Spec

-----------------------------------------------------------------------------
(* What each step that uses a semaphore does to the four quantities the
   invariants are about.                                                    *)
LEMMA SemStepFacts ==
  ASSUME TypeOK, [Next]_vars, NEW n \in SemNames
  PROVE  /\ Promised => Promised'
         /\ Balance(sync[n]) \in Int /\ Balance(sync'[n]) \in Int
         /\ spurious[n] \in Nat /\ spurious'[n] \in Nat
         /\ \/ Balance(sync'[n]) >= 1 - Cardinality(Users(n))
            \/ Balance(sync'[n]) + spurious'[n] >= Balance(sync[n]) + spurious[n]
         /\ spurious'[n] >= spurious[n]
  <1>1. /\ \A m \in SemNames : SemOK(sync[m], Users(m))
        /\ \A m \in SemNames : SemOK(sync'[m], Users(m))
        /\ \A m \in SemNames : spurious[m] \in Nat /\ spurious'[m] \in Nat
    <2>1. SyncOK /\ SyncOK' /\ HistoryOK /\ HistoryOK'
      BY TypeParts, SyncStepOK, HistoryTypeOK
    <2> QED
      BY <2>1, MessageQueueAssumption
      DEF SyncOK, HistoryOK, MessageQueueAssumption
  <1>2. \A m \in SemNames : Balance(sync[m]) \in Int /\ Balance(sync'[m]) \in Int
    BY <1>1, Sides, SemFinite
  <1> DEFINE Grows(m) == Balance(sync'[m]) + spurious'[m]
                           >= Balance(sync[m]) + spurious[m]
             Fine(m) == /\ \/ Balance(sync'[m]) >= 1 - Cardinality(Users(m))
                           \/ Grows(m)
                        /\ spurious'[m] >= spurious[m]
             Keeps(m) == ~TimeoutTakesSignal /\ PermitsPromised(sync[m])
                           => PermitsPromised(sync'[m])
  <1>3. ASSUME NEW m \in SemNames, sync'[m] = sync[m], spurious'[m] = spurious[m]
        PROVE  Fine(m) /\ Keeps(m)
    BY <1>1, <1>2, <1>3
  <1>4. ASSUME NEW t \in Threads, Wait(t) \/ WaitTimeout(t) \/ WaitSpurious(t)
        PROVE  Fine(Own(t)) /\ Keeps(Own(t))
               /\ \A m \in SemNames : m # Own(t) => Fine(m) /\ Keeps(m)
    <2> DEFINE n0 == Own(t)
    <2>a. n0 \in SemNames /\ t \in Users(n0) /\ IsFiniteSet(Users(n0))
      BY Sides
    <2>b. \A q : SyncStep(n0, q) => sync'[n0] = q
      BY <2>a DEF SyncStep, TypeOK
    <2>1. ASSUME WaitTake(t) PROVE Fine(n0) /\ Keeps(n0)
      BY <1>1, <1>2, <2>a, <2>b, <2>1, SemTakeFacts DEF WaitTake
    <2>2. ASSUME WaitSleep(t) PROVE Fine(n0) /\ Keeps(n0)
      BY <1>1, <1>2, <2>a, <2>b, <2>2, SemSleepFacts DEF WaitSleep
    <2>3. ASSUME WaitResume(t) PROVE Fine(n0) /\ Keeps(n0)
      BY <1>1, <1>2, <2>a, <2>b, <2>3, SemResumeFacts DEF WaitResume
    <2>4. ASSUME WaitTimeout(t) PROVE Fine(n0) /\ Keeps(n0)
      BY <1>1, <1>2, <2>a, <2>b, <2>4, SemTimeoutFacts DEF WaitTimeout
    <2>5. ASSUME WaitSpurious(t) PROVE Fine(n0) /\ Keeps(n0)
      <3>1. spurious'[n0] = spurious[n0] + 1
        BY <2>5, <2>a DEF WaitSpurious, TypeOK
      <3>2. sync'[n0] = SpuriousWakeup(sync[n0], t)
        BY <2>5, <2>b DEF WaitSpurious
      <3>3. t \in sync[n0].waiting
        BY <2>5 DEF WaitSpurious
      <3>4. Balance(sync'[n0]) = Balance(sync[n0]) - 1 /\ Keeps(n0)
        BY <1>1, <2>a, <3>2, <3>3, SpuriousFacts
      <3> QED  BY <1>1, <1>2, <2>a, <3>1, <3>4
    <2>6. \A m \in SemNames : m # n0 =>
             sync'[m] = sync[m] /\ spurious'[m] = spurious[m]
      BY <1>4, <2>a
      DEF Wait, WaitTake, WaitSleep, WaitResume, WaitTimeout, WaitSpurious,
          SyncStep, TypeOK
    <2>7. Fine(n0) /\ Keeps(n0)
      BY <1>4, <2>1, <2>2, <2>3, <2>4, <2>5 DEF Wait
    <2> QED
      <3> HIDE DEF Fine, Keeps
      <3> QED  BY <1>3, <2>6, <2>7
  <1>5. ASSUME NEW t \in Threads, Notify(t)
        PROVE  \A m \in SemNames : Fine(m) /\ Keeps(m)
    <2>1. PICK r \in SemNotify(sync[Other(t)]) : SyncStep(Other(t), r)
      BY <1>5 DEF Notify
    <2>2. Other(t) \in SemNames /\ IsFiniteSet(Users(Other(t)))
      BY Sides
    <2>3. sync'[Other(t)] = r /\ UNCHANGED spurious
          /\ \A m \in SemNames : m # Other(t) => sync'[m] = sync[m]
      BY <1>5, <2>1, <2>2 DEF SyncStep, TypeOK, Notify
    <2>4. Balance(r) >= Balance(sync[Other(t)])
          /\ (PermitsPromised(sync[Other(t)]) => PermitsPromised(r))
      BY <1>1, <2>1, <2>2, SemNotifyFacts
    <2>5. Fine(Other(t)) /\ Keeps(Other(t))
      BY <1>1, <1>2, <2>2, <2>3, <2>4
    <2> QED  BY <1>3, <2>3, <2>5
  <1>6. ASSUME UNCHANGED <<sync, spurious>>
        PROVE  \A m \in SemNames : Fine(m) /\ Keeps(m)
    BY <1>3, <1>6
  <1>7. \A m \in SemNames : Fine(m) /\ Keeps(m)
    <2>1. ASSUME NEW t \in Threads, Call(t) \/ Locked(t)
          PROVE  UNCHANGED <<sync, spurious>>
      BY <2>1 DEF Call, PushCall, PopCall, Locked, PushLocked, PopLocked
    <2>2. UNCHANGED vars => UNCHANGED <<sync, spurious>>
      BY DEF vars
    <2> HIDE DEF Fine, Keeps
    <2> QED  BY <1>4, <1>5, <1>6, <2>1, <2>2 DEF Next
  <1>8. Promised => Promised'
    BY <1>7 DEF Promised
  <1> QED  BY <1>1, <1>2, <1>7, <1>8

(* How the two counts of the semaphores and the leaks change in each step.  *)
LEMMA CountStep ==
  ASSUME TypeOK, NEW t \in Threads
  PROVE  /\ \A n \in SemNames : sync[n].count \in Int /\ leaked[n] \in Nat
         /\ (WaitTake(t) \/ WaitResume(t)) =>
              /\ sync'[Own(t)].count = sync[Own(t)].count - 1
              /\ sync'[Other(t)] = sync[Other(t)]
         /\ (WaitSleep(t) \/ WaitTimeout(t) \/ WaitSpurious(t)) =>
              \A n \in SemNames : sync'[n].count = sync[n].count
         /\ Notify(t) =>
              /\ sync'[Other(t)].count = sync[Other(t)].count + 1
              /\ sync'[Own(t)] = sync[Own(t)]
         /\ Leak(t) =>
              /\ leaked'[Own(t)] = leaked[Own(t)] + 1
              /\ leaked'[Other(t)] = leaked[Other(t)]
  <1>1. /\ sync \in [SemNames -> Sems(Threads)]
        /\ \A n \in SemNames : SemOK(sync[n], Users(n))
        /\ \A n \in SemNames : sync[n].count \in Int
        /\ leaked \in [SemNames -> Nat]
    BY DEF TypeOK, Sems
  <1>2. /\ Own(t) \in SemNames /\ Other(t) \in SemNames /\ Other(t) # Own(t)
        /\ IsFiniteSet(Users(Own(t))) /\ IsFiniteSet(Users(Other(t)))
    BY Sides
  <1>3. \A n \in SemNames : \A q : SyncStep(n, q) =>
          sync'[n] = q /\ \A m \in SemNames : m # n => sync'[m] = sync[m]
    BY <1>1 DEF SyncStep
  <1>4. (WaitTake(t) \/ WaitResume(t)) =>
              /\ sync'[Own(t)].count = sync[Own(t)].count - 1
              /\ sync'[Other(t)] = sync[Other(t)]
    BY <1>2, <1>3 DEF WaitTake, WaitResume, SemTake, SemResume
  <1>5. (WaitSleep(t) \/ WaitTimeout(t) \/ WaitSpurious(t)) =>
              \A n \in SemNames : sync'[n].count = sync[n].count
    BY <1>2, <1>3
    DEF WaitSleep, WaitTimeout, WaitSpurious, SemSleep, SemTimeout,
        SpuriousWakeup, Wake
  <1>6. Notify(t) => /\ sync'[Other(t)].count = sync[Other(t)].count + 1
                     /\ sync'[Own(t)] = sync[Own(t)]
    <2> SUFFICES ASSUME Notify(t)
                 PROVE  /\ sync'[Other(t)].count = sync[Other(t)].count + 1
                        /\ sync'[Own(t)] = sync[Own(t)]
      OBVIOUS
    <2>1. PICK r \in SemNotify(sync[Other(t)]) : SyncStep(Other(t), r)
      BY DEF Notify
    <2>2. r.count = sync[Other(t)].count + 1
      BY <1>1, <1>2, <2>1, SemNotifyFacts
    <2> QED  BY <1>2, <1>3, <2>1, <2>2
  <1>7. Leak(t) => /\ leaked'[Own(t)] = leaked[Own(t)] + 1
                   /\ leaked'[Other(t)] = leaked[Other(t)]
    BY <1>1, <1>2 DEF Leak
  <1> QED  BY <1>1, <1>4, <1>5, <1>6, <1>7

(* Every step moves a permit from one place to another: none appears or
   disappears.                                                              *)
LEMMA PermitsStep ==
  TypeOK /\ PermitsAccounted /\ [Next]_vars => PermitsAccounted'
  <1> SUFFICES ASSUME TypeOK, PermitsAccounted, [Next]_vars
               PROVE  PermitsAccounted'
    OBVIOUS
  <1> DEFINE pg == Cardinality(At(Producers, "granted"))
             pn == Cardinality(At(Producers, "notify"))
             cg == Cardinality(At(Consumers, "granted"))
             cn == Cardinality(At(Consumers, "notify"))
             su == sync["push_sync"].count
             so == sync["pop_sync"].count
             lu == leaked["push_sync"]
             lo == leaked["pop_sync"]
  <1>0. /\ Size \in Nat /\ count \in 0..Size
        /\ pg \in Nat /\ pn \in Nat /\ cg \in Nat /\ cn \in Nat
        /\ su \in Int /\ so \in Int /\ lu \in Nat /\ lo \in Nat
        /\ su + pg + count + cn + lu = Size
        /\ so + cg + pn + lo = count
    <2>1. \A n \in SemNames : sync[n].count \in Int /\ leaked[n] \in Nat
      BY DEF TypeOK, Sems
    <2> QED
      BY <2>1, AtType, MessageQueueAssumption
      DEF TypeOK, PermitsAccounted, SemNames, MessageQueueAssumption
  <1>a. \A t \in Threads :
          \/ /\ t \in Producers /\ t \notin Consumers
             /\ Own(t) = "push_sync" /\ Other(t) = "pop_sync"
          \/ /\ t \in Consumers /\ t \notin Producers
             /\ Own(t) = "pop_sync" /\ Other(t) = "push_sync"
    BY MessageQueueAssumption DEF MessageQueueAssumption, Threads, Own, Other
  <1>1. SUFFICES /\ su' + pg' + count' + cn' + lu' = Size
                 /\ so' + cg' + pn' + lo' = count'
    BY DEF PermitsAccounted
  <1>2. ASSUME UNCHANGED pc PROVE pg' = pg /\ pn' = pn /\ cg' = cg /\ cn' = cn
    BY <1>2 DEF At
  <1>3. ASSUME NEW t \in Threads, NEW b \in Places, Goto(t, b), pc[t] # b
        PROVE  /\ pg' = IF t \in Producers /\ b = "granted" THEN pg + 1
                        ELSE IF t \in Producers /\ pc[t] = "granted" THEN pg - 1
                        ELSE pg
               /\ pn' = IF t \in Producers /\ b = "notify" THEN pn + 1
                        ELSE IF t \in Producers /\ pc[t] = "notify" THEN pn - 1
                        ELSE pn
               /\ cg' = IF t \in Consumers /\ b = "granted" THEN cg + 1
                        ELSE IF t \in Consumers /\ pc[t] = "granted" THEN cg - 1
                        ELSE cg
               /\ cn' = IF t \in Consumers /\ b = "notify" THEN cn + 1
                        ELSE IF t \in Consumers /\ pc[t] = "notify" THEN cn - 1
                        ELSE cn
    <2>1. "granted" \in Places /\ "notify" \in Places
      BY DEF Places
    <2> QED  BY <1>3, <2>1, GotoCounts
  <1> HIDE DEF pg, pn, cg, cn
  <1>b. \A t \in Threads : Sleeping(sync[Own(t)]) \subseteq At(Threads, "wait")
    BY Sides DEF TypeOK, At
  <1>4. CASE UNCHANGED vars
    BY <1>0, <1>2, <1>4 DEF vars
  <1>5. ASSUME NEW t \in Threads, Call(t)
        PROVE  /\ su' + pg' + count' + cn' + lu' = Size
               /\ so' + cg' + pn' + lo' = count'
    <2>1. Goto(t, "wait") /\ pc[t] = "idle" /\ UNCHANGED <<sync, count, leaked>>
      BY <1>5 DEF Call, PushCall, PopCall, ring
    <2>2. pg' = pg /\ pn' = pn /\ cg' = cg /\ cn' = cn
      BY <1>3, <2>1 DEF Places
    <2> QED  BY <1>0, <2>1, <2>2
  <1>6. ASSUME NEW t \in Threads, WaitTake(t) \/ WaitResume(t)
        PROVE  /\ su' + pg' + count' + cn' + lu' = Size
               /\ so' + cg' + pn' + lo' = count'
    <2>1. Goto(t, "granted") /\ pc[t] = "wait" /\ UNCHANGED <<count, leaked>>
      BY <1>6, <1>b DEF WaitTake, WaitResume, ring, Sleeping, At
    <2>2. /\ sync'[Own(t)].count = sync[Own(t)].count - 1
          /\ sync'[Other(t)] = sync[Other(t)]
      BY <1>6, CountStep
    <2>3. /\ pg' = IF t \in Producers THEN pg + 1 ELSE pg
          /\ cg' = IF t \in Consumers THEN cg + 1 ELSE cg
          /\ pn' = pn /\ cn' = cn
      BY <1>3, <2>1 DEF Places
    <2> QED
      <3>1. CASE t \in Producers /\ t \notin Consumers
                 /\ Own(t) = "push_sync" /\ Other(t) = "pop_sync"
        BY <1>0, <2>1, <2>2, <2>3, <3>1
      <3>2. CASE t \in Consumers /\ t \notin Producers
                 /\ Own(t) = "pop_sync" /\ Other(t) = "push_sync"
        BY <1>0, <2>1, <2>2, <2>3, <3>2
      <3> QED  BY <1>a, <3>1, <3>2
  <1>7. ASSUME NEW t \in Threads, WaitSleep(t) \/ WaitSpurious(t)
        PROVE  /\ su' + pg' + count' + cn' + lu' = Size
               /\ so' + cg' + pn' + lo' = count'
    <2>1. UNCHANGED <<pc, count, leaked>>
      BY <1>7 DEF WaitSleep, WaitSpurious, ring
    <2>2. \A n \in SemNames : sync'[n].count = sync[n].count
      BY <1>7, CountStep
    <2> QED  BY <1>0, <1>2, <2>1, <2>2 DEF SemNames
  <1>8. ASSUME NEW t \in Threads, WaitTimeout(t)
        PROVE  /\ su' + pg' + count' + cn' + lu' = Size
               /\ so' + cg' + pn' + lo' = count'
    <2>1. Goto(t, "idle") /\ pc[t] = "wait" /\ UNCHANGED <<count, leaked>>
      BY <1>8, <1>b DEF WaitTimeout, Return, ring, MayTimeOut, Sleeping, At
    <2>2. \A n \in SemNames : sync'[n].count = sync[n].count
      BY <1>8, CountStep
    <2>3. pg' = pg /\ pn' = pn /\ cg' = cg /\ cn' = cn
      BY <1>3, <2>1 DEF Places
    <2> QED  BY <1>0, <2>1, <2>2, <2>3 DEF SemNames
  <1>9. ASSUME NEW t \in Threads, Locked(t)
        PROVE  /\ su' + pg' + count' + cn' + lu' = Size
               /\ so' + cg' + pn' + lo' = count'
    <2>1. pc[t] = "granted" /\ UNCHANGED sync
      BY <1>9 DEF Locked, PushLocked, PopLocked
    <2>2. ASSUME t \in Producers, Insert(t)
          PROVE  /\ su' + pg' + count' + cn' + lu' = Size
                 /\ so' + cg' + pn' + lo' = count'
      <3>1. Goto(t, "notify") /\ count' = count + 1 /\ UNCHANGED leaked
        BY <2>2 DEF Insert
      <3>2. pg' = pg - 1 /\ pn' = pn + 1 /\ cg' = cg /\ cn' = cn
        BY <1>a, <1>3, <2>1, <2>2, <3>1 DEF Places
      <3> QED  BY <1>0, <2>1, <3>1, <3>2
    <2>3. ASSUME t \in Consumers, Remove(t)
          PROVE  /\ su' + pg' + count' + cn' + lu' = Size
                 /\ so' + cg' + pn' + lo' = count'
      <3>1. Goto(t, "notify") /\ count' = count - 1 /\ UNCHANGED leaked
        BY <2>3 DEF Remove
      <3>2. cg' = cg - 1 /\ cn' = cn + 1 /\ pg' = pg /\ pn' = pn
        BY <1>a, <1>3, <2>1, <2>3, <3>1 DEF Places
      <3>3. su' = su /\ so' = so /\ lu' = lu /\ lo' = lo
        BY <2>1, <3>1
      <3> HIDE DEF su, so, lu, lo
      <3> QED  BY <1>0, <3>1, <3>2, <3>3
    <2>4. ASSUME Leak(t)
          PROVE  /\ su' + pg' + count' + cn' + lu' = Size
                 /\ so' + cg' + pn' + lo' = count'
      <3>1. Goto(t, "idle") /\ UNCHANGED count
        BY <2>4 DEF Leak, Return, ring
      <3>2. /\ pg' = IF t \in Producers THEN pg - 1 ELSE pg
            /\ cg' = IF t \in Consumers THEN cg - 1 ELSE cg
            /\ pn' = pn /\ cn' = cn
        BY <1>3, <2>1, <3>1 DEF Places
      <3>3. /\ leaked'[Own(t)] = leaked[Own(t)] + 1
            /\ leaked'[Other(t)] = leaked[Other(t)]
        BY <2>4, CountStep
      <3> QED
        <4>1. CASE t \in Producers /\ t \notin Consumers
                   /\ Own(t) = "push_sync" /\ Other(t) = "pop_sync"
          <5>1. su' = su /\ so' = so /\ lu' = lu + 1 /\ lo' = lo
            BY <2>1, <3>3, <4>1
          <5> HIDE DEF su, so, lu, lo
          <5> QED  BY <1>0, <3>1, <3>2, <4>1, <5>1
        <4>2. CASE t \in Consumers /\ t \notin Producers
                   /\ Own(t) = "pop_sync" /\ Other(t) = "push_sync"
          <5>1. su' = su /\ so' = so /\ lu' = lu /\ lo' = lo + 1
            BY <2>1, <3>3, <4>2
          <5> HIDE DEF su, so, lu, lo
          <5> QED  BY <1>0, <3>1, <3>2, <4>2, <5>1
        <4> QED  BY <1>a, <4>1, <4>2
    <2> QED
      BY <1>9, <2>2, <2>3, <2>4
      DEF Locked, PushLocked, PopLocked, PushFails, PopFails
  <1>10. ASSUME NEW t \in Threads, Notify(t)
         PROVE  /\ su' + pg' + count' + cn' + lu' = Size
                /\ so' + cg' + pn' + lo' = count'
    <2>1. Goto(t, "idle") /\ pc[t] = "notify" /\ UNCHANGED <<count, leaked>>
      BY <1>10 DEF Notify, Return, ring
    <2>2. /\ sync'[Other(t)].count = sync[Other(t)].count + 1
          /\ sync'[Own(t)] = sync[Own(t)]
      BY <1>10, CountStep
    <2>3. /\ pn' = IF t \in Producers THEN pn - 1 ELSE pn
          /\ cn' = IF t \in Consumers THEN cn - 1 ELSE cn
          /\ pg' = pg /\ cg' = cg
      BY <1>3, <2>1 DEF Places
    <2> QED
      <3>1. CASE t \in Producers /\ t \notin Consumers
                 /\ Own(t) = "push_sync" /\ Other(t) = "pop_sync"
        <4>1. su' = su /\ so' = so + 1 /\ lu' = lu /\ lo' = lo
          BY <2>1, <2>2, <3>1
        <4> HIDE DEF su, so, lu, lo
        <4> QED  BY <1>0, <2>1, <2>3, <3>1, <4>1
      <3>2. CASE t \in Consumers /\ t \notin Producers
                 /\ Own(t) = "pop_sync" /\ Other(t) = "push_sync"
        <4>1. su' = su + 1 /\ so' = so /\ lu' = lu /\ lo' = lo
          BY <2>1, <2>2, <3>2
        <4> HIDE DEF su, so, lu, lo
        <4> QED  BY <1>0, <2>1, <2>3, <3>2, <4>1
      <3> QED  BY <1>a, <3>1, <3>2
  <1> QED
    BY <1>4, <1>5, <1>6, <1>7, <1>8, <1>9, <1>10 DEF Next, Wait

(* The debt of a semaphore grows only by a spurious wake-up once it is as
   large as its users can make it.                                          *)
LEMMA DebtStep == TypeOK /\ DebtBounded /\ [Next]_vars => DebtBounded'
  <1> SUFFICES ASSUME TypeOK, DebtBounded, [Next]_vars, NEW n \in SemNames
               PROVE  Balance(sync'[n]) >= 1 - Cardinality(Users(n)) - spurious'[n]
    BY DEF DebtBounded, Balance
  <1>1. Balance(sync[n]) >= 1 - Cardinality(Users(n)) - spurious[n]
    BY DEF DebtBounded
  <1>2. Cardinality(Users(n)) \in Nat
    BY Sides
  <1> QED  BY <1>1, <1>2, SemStepFacts

(* A call fails with a permit in hand only while the debt is open, so the
   leaks of a semaphore stay below its debt.                                *)
LEMMA LeakStep ==
  TypeOK /\ PermitsAccounted /\ DebtBounded /\ LeakBounded /\ [Next]_vars
    => LeakBounded'
  <1> SUFFICES ASSUME TypeOK, PermitsAccounted, DebtBounded, LeakBounded,
                      [Next]_vars
               PROVE  LeakBounded'
    OBVIOUS
  <1>1. \A n \in SemNames :
          /\ leaked[n] \in Nat /\ leaked[n] <= Cardinality(Users(n)) - 1 + spurious[n]
          /\ spurious[n] \in Nat /\ spurious'[n] \in Nat
          /\ spurious'[n] >= spurious[n]
          /\ Cardinality(Users(n)) \in Nat
    BY Sides, SemStepFacts DEF TypeOK, LeakBounded
  <1>2. ASSUME UNCHANGED leaked PROVE LeakBounded'
    BY <1>1, <1>2 DEF LeakBounded
  <1>3. ASSUME NEW t \in Threads, pc[t] = "granted", Leak(t),
               \/ t \in Producers /\ count = Size
               \/ t \in Consumers /\ count = 0
        PROVE  LeakBounded'
    <2> DEFINE n == Own(t)
    <2>1. n \in SemNames /\ leaked'[n] = leaked[n] + 1
          /\ \A m \in SemNames : m # n => leaked'[m] = leaked[m]
      BY <1>3, Sides DEF Leak, TypeOK
    <2>2. sync[n].count >= 1 - Cardinality(Users(n)) - spurious[n]
      <3>1. SemOK(sync[n], Users(n)) /\ IsFiniteSet(Users(n))
        BY <2>1, Sides DEF TypeOK
      <3>2. Cardinality(sync[n].woken) \in Nat /\ sync[n].count \in Int
        BY <3>1, SemFinite DEF SemOK, Sems
      <3>3. Balance(sync[n]) >= 1 - Cardinality(Users(n)) - spurious[n]
        BY <2>1 DEF DebtBounded
      <3> HIDE DEF n
      <3> QED  BY <1>1, <2>1, <3>2, <3>3 DEF Balance
    <2>3. sync[n].count <= 0 - leaked[n] - 1
      <3>1. Size \in Nat /\ sync[n].count \in Int
        BY <2>1, MessageQueueAssumption DEF MessageQueueAssumption, TypeOK, Sems
      <3>2. \A T \in {Producers, Consumers} :
              t \in T => Cardinality(At(T, "granted")) \in Nat
                         /\ Cardinality(At(T, "granted")) >= 1
        <4> SUFFICES ASSUME NEW T \in {Producers, Consumers}, t \in T
                     PROVE  Cardinality(At(T, "granted")) \in Nat
                            /\ Cardinality(At(T, "granted")) >= 1
          OBVIOUS
        <4>1. IsFiniteSet(At(T, "granted")) /\ t \in At(T, "granted")
              /\ Cardinality(At(T, "granted")) \in Nat
          BY <1>3, AtType DEF At
        <4>2. Cardinality(At(T, "granted")) # 0
          BY <4>1, FS_EmptySet
        <4> QED  BY <4>1, <4>2
      <3>3. Cardinality(At(Consumers, "notify")) \in Nat
            /\ Cardinality(At(Producers, "notify")) \in Nat
        BY AtType
      <3>4. CASE t \in Producers /\ count = Size
        <4>1. n = "push_sync"
          BY <3>4 DEF Own
        <4>2. sync[n].count + Cardinality(At(Producers, "granted")) + Size
                + Cardinality(At(Consumers, "notify")) + leaked[n] = Size
          BY <3>4, <4>1 DEF PermitsAccounted
        <4> HIDE DEF n
        <4> QED  BY <1>1, <2>1, <3>1, <3>2, <3>3, <3>4, <4>2
      <3>5. CASE t \in Consumers /\ count = 0
        <4>1. n = "pop_sync"
          BY <3>5, MessageQueueAssumption DEF Own, MessageQueueAssumption
        <4>2. sync[n].count + Cardinality(At(Consumers, "granted"))
                + Cardinality(At(Producers, "notify")) + leaked[n] = 0
          BY <3>5, <4>1 DEF PermitsAccounted
        <4> HIDE DEF n
        <4> QED  BY <1>1, <2>1, <3>1, <3>2, <3>3, <3>5, <4>2
      <3> QED  BY <1>3, <3>4, <3>5
    <2>4. leaked'[n] <= Cardinality(Users(n)) - 1 + spurious'[n]
      <3>1. sync[n].count \in Int
        BY <2>1 DEF TypeOK, Sems
      <3> HIDE DEF n
      <3> QED  BY <1>1, <2>1, <2>2, <2>3, <3>1
    <2>5. ASSUME NEW m \in SemNames, m # n
          PROVE  leaked'[m] <= Cardinality(Users(m)) - 1 + spurious'[m]
      BY <1>1, <2>1, <2>5
    <2> QED  BY <2>4, <2>5 DEF LeakBounded
  <1>4. ASSUME NEW t \in Threads, Locked(t) PROVE LeakBounded'
    BY <1>2, <1>3, <1>4
    DEF Locked, PushLocked, PopLocked, Insert, Remove, PushFails, PopFails
  <1>5. ASSUME NEW t \in Threads,
               Call(t) \/ Wait(t) \/ Notify(t) \/ WaitTimeout(t) \/ WaitSpurious(t)
        PROVE  UNCHANGED leaked
    BY <1>5 DEF Call, PushCall, PopCall, Wait, WaitTake, WaitSleep, WaitResume,
                Notify, WaitTimeout, WaitSpurious
  <1>6. UNCHANGED vars => UNCHANGED leaked
    BY DEF vars
  <1> QED  BY <1>2, <1>4, <1>5, <1>6 DEF Next

(* The indices of the ring stay count apart.                                *)
LEMMA RingOKStep == TypeOK /\ RingOK /\ [Next]_vars => RingOK'
  <1> SUFFICES ASSUME TypeOK, RingOK, [Next]_vars PROVE RingOK'
    OBVIOUS
  <1>1. /\ in \in 0..Size - 1 /\ out \in 0..Size - 1 /\ count \in 0..Size
        /\ Size \in Nat \ {0}
        /\ in = IF out + count < Size THEN out + count ELSE out + count - Size
    BY RingSum, MessageQueueAssumption DEF TypeOK, RingOK, MessageQueueAssumption
  <1>2. CASE UNCHANGED ring
    BY <1>2 DEF ring, RingOK
  <1>3. ASSUME NEW p \in Producers, Insert(p) PROVE RingOK'
    <2>1. in' = (IF in = Size - 1 THEN 0 ELSE in + 1) /\ out' = out
          /\ count' = count + 1 /\ count + 1 \in 0..Size
      BY <1>1, <1>3, RingStep DEF Insert
    <2>2. (out + (count + 1)) % Size
            = IF out + (count + 1) < Size THEN out + (count + 1)
              ELSE out + (count + 1) - Size
      BY <1>1, <2>1, RingSum
    <2> QED  BY <1>1, <2>1, <2>2 DEF RingOK
  <1>4. ASSUME NEW c \in Consumers, Remove(c) PROVE RingOK'
    <2>1. out' = (IF out = Size - 1 THEN 0 ELSE out + 1) /\ in' = in
          /\ count' = count - 1 /\ count - 1 \in 0..Size
          /\ out' \in 0..Size - 1
      BY <1>1, <1>4, RingStep DEF Remove
    <2>2. (out' + (count - 1)) % Size
            = IF out' + (count - 1) < Size THEN out' + (count - 1)
              ELSE out' + (count - 1) - Size
      BY <1>1, <2>1, RingSum
    <2> QED  BY <1>1, <2>1, <2>2 DEF RingOK
  <1>5. ASSUME NEW t \in Threads, Locked(t) PROVE RingOK'
    BY <1>2, <1>3, <1>4, <1>5
    DEF Locked, PushLocked, PopLocked, PushFails, PopFails, Leak
  <1>6. ASSUME NEW t \in Threads,
               Call(t) \/ Wait(t) \/ Notify(t) \/ WaitTimeout(t) \/ WaitSpurious(t)
        PROVE  UNCHANGED ring
    BY <1>6 DEF Call, PushCall, PopCall, Wait, WaitTake, WaitSleep, WaitResume,
                Notify, WaitTimeout, WaitSpurious
  <1>7. UNCHANGED vars => UNCHANGED ring
    BY DEF vars, ring
  <1> QED  BY <1>2, <1>5, <1>6, <1>7 DEF Next

-----------------------------------------------------------------------------
(* InitMQ establishes the inductive invariant (message.c:23-33).            *)
LEMMA InitInv == Init => IInv
  <1> SUFFICES ASSUME Init PROVE IInv
    OBVIOUS
  <1> USE MessageQueueAssumption DEF MessageQueueAssumption
  <1>1. TypeOK
    BY InitType
  <1>2. RingOK
    BY RingSum DEF Init, RingOK
  <1>3. /\ sync["push_sync"].count = Size /\ sync["pop_sync"].count = 0
        /\ \A n \in SemNames : PermitsPromised(sync[n]) /\ Balance(sync[n]) \in Nat
    <2>1. ASSUME NEW k \in Nat
          PROVE  /\ SemInit(k).count = k /\ Balance(SemInit(k)) = k
                 /\ PermitsPromised(SemInit(k))
      BY SemInitFacts
    <2>2. sync["push_sync"] = SemInit(Size) /\ sync["pop_sync"] = SemInit(0)
      BY DEF Init, SemNames
    <2> QED  BY <2>1, <2>2 DEF SemNames
  <1>4. PermitsAccounted
    <2>1. \A T \in {Producers, Consumers} :
             At(T, "granted") = {} /\ At(T, "notify") = {}
      BY DEF Init, At, Threads
    <2>2. \A T \in {Producers, Consumers} :
             /\ Cardinality(At(T, "granted")) = 0
             /\ Cardinality(At(T, "notify")) = 0
      BY <2>1, FS_EmptySet
    <2> QED  BY <1>3, <2>2 DEF Init, PermitsAccounted, SemNames
  <1>5. DebtBounded /\ LeakBounded /\ Promised
    BY <1>3, Sides DEF Init, DebtBounded, LeakBounded, Promised
  <1> QED  BY <1>1, <1>2, <1>4, <1>5 DEF IInv

(* IInv is inductive: it holds in every reachable state.                    *)
THEOREM Invariance == Spec => []IInv
  <1>1. IInv /\ [Next]_vars => IInv'
    <2> SUFFICES ASSUME IInv, [Next]_vars PROVE IInv'
      OBVIOUS
    <2>1. TypeOK'
      BY TypeParts, SyncStepOK, RingTypeOK, CallTypeOK, HistoryTypeOK
      DEF IInv, TypeOK, RingType, SyncOK, CallOK, HistoryOK
    <2>2. Promised'
      <3>1. "push_sync" \in SemNames
        BY DEF SemNames
      <3> QED  BY <3>1, SemStepFacts DEF IInv
    <2> QED
      BY <2>1, <2>2, RingOKStep, PermitsStep, DebtStep, LeakStep DEF IInv
  <1> QED  BY InitInv, <1>1, PTL DEF Spec

(* No permit is lost track of: each one is in a count, in a call's hands, in
   the ring, or in the history of failed calls.                             *)
THEOREM PermitsAreAccounted == Spec => []PermitsAccounted
  <1>1. IInv => PermitsAccounted
    BY DEF IInv
  <1> QED  BY Invariance, <1>1, PTL

(* The queue loses at most one slot per producer, and one message per
   consumer, after the first, and one per spurious wake-up.                 *)
THEOREM LeaksAreBounded == Spec => []LeakBounded
  <1>1. IInv => LeakBounded
    BY DEF IInv
  <1> QED  BY Invariance, <1>1, PTL

(* Nobody sleeps beside a free slot or a queued message that is neither lost
   nor in the hands of a running call.                                      *)
THEOREM SleepIsJustified == Spec => []SleepJustified
  <1>1. IInv => SleepJustified
    <2> SUFFICES ASSUME IInv, ~TimeoutTakesSignal PROVE SleepJustified
      BY DEF SleepJustified
    <2>1. ASSUME NEW n \in SemNames, sync[n].waiting # {}, sync[n].woken = {}
          PROVE  sync[n].count <= 0
      BY <2>1, FS_EmptySet DEF IInv, Promised, PermitsPromised
    <2>2. /\ \A n \in SemNames : sync[n].count \in Int /\ leaked[n] \in Nat
          /\ count \in Nat /\ Size \in Nat
      BY MessageQueueAssumption DEF MessageQueueAssumption, IInv, TypeOK, Sems
    <2>3. \A T \in {Producers, Consumers} :
             /\ Cardinality(At(T, "granted")) \in Nat
             /\ At(T, "notify") = {} => Cardinality(At(T, "notify")) = 0
      BY AtType, FS_EmptySet
    <2>4. PermitsAccounted
      BY DEF IInv
    <2>5. "push_sync" \in SemNames /\ "pop_sync" \in SemNames
      BY DEF SemNames
    <2>6. ASSUME sync["push_sync"].waiting # {}, sync["push_sync"].woken = {},
                 At(Consumers, "notify") = {}
          PROVE  Size - count <= leaked["push_sync"]
                                   + Cardinality(At(Producers, "granted"))
      BY <2>1, <2>2, <2>3, <2>4, <2>5, <2>6 DEF PermitsAccounted
    <2>7. ASSUME sync["pop_sync"].waiting # {}, sync["pop_sync"].woken = {},
                 At(Producers, "notify") = {}
          PROVE  count <= leaked["pop_sync"]
                            + Cardinality(At(Consumers, "granted"))
      BY <2>1, <2>2, <2>3, <2>4, <2>5, <2>7 DEF PermitsAccounted
    <2> QED  BY <2>6, <2>7 DEF SleepJustified
  <1> QED  BY Invariance, <1>1, PTL

(* Every thread asleep at once: only after at least Size permits leaked.     *)
THEOREM DeadlockCostsLeaks == Spec => []DeadlockNeedsLeaks
  <1>1. IInv /\ SleepJustified => DeadlockNeedsLeaks
    <2> SUFFICES ASSUME IInv, SleepJustified, ~TimeoutTakesSignal, AllAsleep
                 PROVE  leaked["push_sync"] + leaked["pop_sync"] >= Size
      BY DEF DeadlockNeedsLeaks
    <2>1. /\ "push_sync" \in SemNames /\ "pop_sync" \in SemNames
          /\ Users("push_sync") = Producers /\ Users("pop_sync") = Consumers
      BY DEF SemNames, Users
    <2>2. /\ \A n \in SemNames : SemOK(sync[n], Users(n))
          /\ \A n \in SemNames : Sleeping(sync[n]) \subseteq At(Users(n), "wait")
          /\ \A n \in SemNames : leaked[n] \in Nat
          /\ count \in Nat /\ Size \in Nat
      BY MessageQueueAssumption DEF MessageQueueAssumption, IInv, TypeOK
    <2>3. ASSUME NEW n \in SemNames, Users(n) \subseteq sync[n].waiting
          PROVE  /\ sync[n].waiting # {} /\ sync[n].woken = {}
                 /\ At(Users(n), "granted") = {} /\ At(Users(n), "notify") = {}
      <3>1. Users(n) # {}
        BY Sides, FS_EmptySet
      <3>2. sync[n].woken \subseteq Users(n)
        BY <2>2 DEF SemOK, Sems
      <3>3. \A t \in Users(n) : pc[t] = "wait"
        BY <2>2, <2>3 DEF Sleeping, At
      <3> QED  BY <2>2, <2>3, <3>1, <3>2, <3>3 DEF SemOK, At
    <2>4. /\ Users("push_sync") \subseteq sync["push_sync"].waiting
          /\ Users("pop_sync") \subseteq sync["pop_sync"].waiting
      BY <2>1 DEF AllAsleep, Asleep
    <2>5. /\ Size - count <= leaked["push_sync"]
                                + Cardinality(At(Producers, "granted"))
          /\ count <= leaked["pop_sync"] + Cardinality(At(Consumers, "granted"))
      BY <2>1, <2>3, <2>4 DEF SleepJustified
    <2>6. /\ Cardinality(At(Producers, "granted")) = 0
          /\ Cardinality(At(Consumers, "granted")) = 0
      BY <2>1, <2>3, <2>4, FS_EmptySet
    <2> QED  BY <2>1, <2>2, <2>5, <2>6
  <1> QED  BY Invariance, SleepIsJustified, <1>1, PTL

(* Without spurious wake-ups a ring with at least as many slots as threads
   less one never has all its callers asleep.                               *)
THEOREM BigRingNeverDeadlocks ==
  ASSUME ~TimeoutTakesSignal, MaxSpurious = 0,
         Size >= Cardinality(Producers) + Cardinality(Consumers) - 1
  PROVE  Spec => []~AllAsleep
  <1>1. IInv /\ DeadlockNeedsLeaks => ~AllAsleep
    <2> SUFFICES ASSUME IInv, DeadlockNeedsLeaks PROVE ~AllAsleep
      OBVIOUS
    <2>1. /\ "push_sync" \in SemNames /\ "pop_sync" \in SemNames
          /\ Users("push_sync") = Producers /\ Users("pop_sync") = Consumers
      BY DEF SemNames, Users
    <2>2. \A n \in SemNames : leaked[n] <= Cardinality(Users(n)) - 1
      BY Sides DEF IInv, LeakBounded, TypeOK
    <2>3. /\ Cardinality(Producers) \in Nat /\ Cardinality(Consumers) \in Nat
          /\ leaked["push_sync"] \in Nat /\ leaked["pop_sync"] \in Nat
          /\ Size \in Nat
      BY <2>1, Sides, MessageQueueAssumption
      DEF IInv, TypeOK, MessageQueueAssumption
    <2>4. leaked["push_sync"] <= Cardinality(Producers) - 1
          /\ leaked["pop_sync"] <= Cardinality(Consumers) - 1
      BY <2>1, <2>2
    <2>5. leaked["push_sync"] + leaked["pop_sync"] < Size
      BY <2>3, <2>4
    <2> QED  BY <2>3, <2>5 DEF DeadlockNeedsLeaks
  <1> QED  BY Invariance, DeadlockCostsLeaks, <1>1, PTL

-----------------------------------------------------------------------------
(* The sequence the ring stands for.                                        *)
Slot(i) == IF out + (i - 1) < Size THEN out + (i - 1) ELSE out + (i - 1) - Size

ContentsOK ==
  /\ Contents \in Seq(Messages \cup {NoMessage})
  /\ Len(Contents) = count
  /\ \A i \in 1..count : /\ Slot(i) \in 0..Size - 1
                         /\ Contents[i] = buffer[Slot(i)]

(* The contents of the ring, in the order they leave it, as a sequence.     *)
LEMMA ContentsFacts == TypeOK => ContentsOK
  <1> SUFFICES ASSUME TypeOK PROVE ContentsOK
    OBVIOUS
  <1>1. /\ out \in 0..Size - 1 /\ count \in 0..Size /\ Size \in Nat \ {0}
        /\ buffer \in [0..Size - 1 -> Messages \cup {NoMessage}]
    BY MessageQueueAssumption DEF MessageQueueAssumption, TypeOK
  <1>2. ASSUME NEW i \in 1..count
        PROVE  /\ (out + i - 1) % Size = Slot(i)
               /\ Slot(i) \in 0..Size - 1
    <2>1. out + i - 1 = out + (i - 1) /\ i - 1 \in 0..Size
      BY <1>1, <1>2
    <2>2. (out + (i - 1)) % Size = Slot(i)
      BY <1>1, <2>1, RingSum DEF Slot
    <2>3. Slot(i) \in 0..Size - 1
      BY <1>1, <1>2 DEF Slot
    <2> QED  BY <2>1, <2>2, <2>3
  <1>3. \A i \in 1..count : Contents[i] = buffer[Slot(i)]
    BY <1>2 DEF Contents
  <1>4. Contents \in [1..count -> Messages \cup {NoMessage}]
    BY <1>1, <1>2 DEF Contents
  <1>5. Contents \in Seq(Messages \cup {NoMessage}) /\ Len(Contents) = count
    BY <1>1, <1>4
  <1> QED  BY <1>2, <1>3, <1>5 DEF ContentsOK

(* A push is an append of the caller's message.                             *)
LEMMA InsertRefines ==
  ASSUME IInv, TypeOK', NEW p \in Producers, pc[p] = "granted", Insert(p)
  PROVE  Fifo!Put(message[p]) /\ message[p] \in Messages
  <1> DEFINE M == Messages \cup {NoMessage}
             m == message[p]
  <1>1. /\ TypeOK /\ RingOK /\ m \in Messages /\ Size \in Nat \ {0}
        /\ in \in 0..Size - 1 /\ out \in 0..Size - 1 /\ count \in 0..Size - 1
        /\ buffer \in [0..Size - 1 -> M]
    <2>1. Size \in Nat \ {0} /\ count # Size /\ TypeOK /\ RingOK
      BY MessageQueueAssumption DEF MessageQueueAssumption, IInv, Insert
    <2> QED  BY <2>1 DEF TypeOK
  <1>2. /\ count' = count + 1 /\ out' = out
        /\ buffer' = [buffer EXCEPT ![in] = m] /\ UNCHANGED message
    BY DEF Insert
  <1>3. in = IF out + count < Size THEN out + count ELSE out + count - Size
    <2>1. count \in 0..Size
      BY <1>1
    <2> QED  BY <1>1, <2>1, RingSum DEF RingOK
  <1>4. /\ Contents \in Seq(M) /\ Len(Contents) = count
        /\ \A i \in 1..count : /\ Slot(i) \in 0..Size - 1
                               /\ Contents[i] = buffer[Slot(i)]
    BY <1>1, ContentsFacts DEF ContentsOK
  <1>5. /\ Contents' \in Seq(M) /\ Len(Contents') = count + 1
        /\ \A i \in 1..count + 1 : Contents'[i] = buffer'[Slot(i)]
    <2>1. /\ Contents' \in Seq(M) /\ Len(Contents') = count'
          /\ \A i \in 1..count' : Contents'[i] = buffer'[Slot(i)']
      <3>1. ContentsOK'
        BY ContentsFacts, PTL
      <3> QED  BY <3>1 DEF ContentsOK
    <2>2. \A i : Slot(i)' = Slot(i)
      BY <1>2 DEF Slot
    <2> QED  BY <1>2, <2>1, <2>2
  <1>6. /\ Append(Contents, m) \in Seq(M)
        /\ Len(Append(Contents, m)) = count + 1
        /\ \A i \in 1..count : Append(Contents, m)[i] = Contents[i]
        /\ Append(Contents, m)[count + 1] = m
    BY <1>1, <1>4, AppendProperties
  <1>7. ASSUME NEW i \in 1..count + 1
        PROVE  Contents'[i] = Append(Contents, m)[i]
    <2>1. CASE i = count + 1
      <3>1. Slot(i) = in
        BY <1>1, <1>3, <2>1 DEF Slot
      <3>2. buffer'[in] = m
        BY <1>1, <1>2
      <3>3. Contents'[i] = m
        BY <1>5, <1>7, <3>1, <3>2
      <3> QED  BY <1>6, <2>1, <3>3
    <2>2. CASE i \in 1..count
      <3>1. Slot(i) # in /\ Slot(i) \in 0..Size - 1
        BY <1>1, <1>3, <1>4, <2>2 DEF Slot
      <3> QED  BY <1>1, <1>2, <1>4, <1>5, <1>6, <2>2, <3>1
    <2>3. i = count + 1 \/ i \in 1..count
      <3>1. i \in 1..count + 1 /\ count \in Nat
        BY <1>1, <1>7
      <3> QED  BY <3>1
    <2> QED  BY <2>1, <2>2, <2>3
  <1>8. Contents' = Append(Contents, m)
    <2> HIDE DEF m, M
    <2> QED  BY <1>5, <1>6, <1>7, SeqEqual
  <1>9. Len(Contents) < Size
    BY <1>1, <1>4
  <1> QED  BY <1>1, <1>2, <1>8, <1>9 DEF Fifo!Put

(* A pop hands over the head and leaves the tail.                           *)
LEMMA RemoveRefines ==
  ASSUME IInv, TypeOK', NEW c \in Consumers, Remove(c)
  PROVE  Fifo!Get(c)
  <1> DEFINE M == Messages \cup {NoMessage}
  <1>1. /\ TypeOK /\ Size \in Nat \ {0}
        /\ out \in 0..Size - 1 /\ count \in 1..Size
        /\ message \in [Threads -> M] /\ Consumers \subseteq Threads
    <2>1. Size \in Nat \ {0} /\ count # 0 /\ TypeOK
      BY MessageQueueAssumption DEF MessageQueueAssumption, IInv, Remove
    <2>2. out \in 0..Size - 1 /\ count \in 0..Size
          /\ message \in [Threads -> M]
      BY <2>1 DEF TypeOK
    <2>3. Consumers \subseteq Threads
      BY DEF Threads
    <2> QED  BY <2>1, <2>2, <2>3
  <1>2. /\ count' = count - 1 /\ out' = Next1(out) /\ buffer' = buffer
        /\ message' = [message EXCEPT ![c] = buffer[out]]
    BY DEF Remove
  <1>3. out' = IF out = Size - 1 THEN 0 ELSE out + 1
    BY <1>1, <1>2, RingStep
  <1>4. /\ Contents \in Seq(M) /\ Len(Contents) = count
        /\ \A i \in 1..count : Contents[i] = buffer[Slot(i)]
    BY <1>1, ContentsFacts DEF ContentsOK
  <1>5. /\ Contents' \in Seq(M) /\ Len(Contents') = count - 1
        /\ \A i \in 1..count - 1 : Contents'[i] = buffer[Slot(i)']
    <2>1. /\ Contents' \in Seq(M) /\ Len(Contents') = count'
          /\ \A i \in 1..count' : Contents'[i] = buffer'[Slot(i)']
      <3>1. ContentsOK'
        BY ContentsFacts, PTL
      <3> QED  BY <3>1 DEF ContentsOK
    <2> QED  BY <1>2, <2>1
  <1>6. Contents # <<>>
    BY <1>1, <1>4
  <1>7. /\ Tail(Contents) \in Seq(M) /\ Len(Tail(Contents)) = count - 1
        /\ \A i \in 1..count - 1 : Tail(Contents)[i] = Contents[i + 1]
    BY <1>4, <1>6, HeadTailProperties
  <1>8. ASSUME NEW i \in 1..count - 1 PROVE Contents'[i] = Tail(Contents)[i]
    <2>1. Slot(i)' = Slot(i + 1)
      BY <1>1, <1>3 DEF Slot
    <2>2. i + 1 \in 1..count
      BY <1>1
    <2> QED  BY <1>4, <1>5, <1>7, <2>1, <2>2
  <1>9. Contents' = Tail(Contents)
    <2> HIDE DEF M
    <2> QED  BY <1>5, <1>7, <1>8, SeqEqual
  <1>10. Head(Contents) = buffer[out]
    <2>1. Slot(1) = out
      BY <1>1 DEF Slot
    <2>2. Head(Contents) = Contents[1]
      BY <1>4, <1>6
    <2> QED  BY <1>1, <1>4, <2>1, <2>2
  <1>11. [r \in Consumers |-> message[r]]'
           = [[r \in Consumers |-> message[r]] EXCEPT ![c] = Head(Contents)]
    BY <1>1, <1>2, <1>10
  <1> QED  BY <1>6, <1>9, <1>11 DEF Fifo!Get

(* The message queue is a bounded first-in first-out queue, for every ring
   size and every number of callers, whatever its semaphores grant.          *)
THEOREM Refinement == Spec => ImplementsFifo
  <1>1. Init => Fifo!Init
    <2> SUFFICES ASSUME Init PROVE Fifo!Init
      OBVIOUS
    <2>1. Contents = <<>>
      <3>1. TypeOK /\ count = 0
        BY InitType DEF Init
      <3>2. Contents \in Seq(Messages \cup {NoMessage}) /\ Len(Contents) = 0
        BY <3>1, ContentsFacts DEF ContentsOK
      <3> QED  BY <3>2
    <2>2. [c \in Consumers |-> message[c]] = [r \in Consumers |-> NoMessage]
      BY DEF Init, Threads
    <2> QED  BY <2>1, <2>2 DEF Fifo!Init
  <1>2. IInv /\ IInv' /\ [Next]_vars
          => [Fifo!Next]_<<Contents, [c \in Consumers |-> message[c]]>>
    <2> DEFINE got == [c \in Consumers |-> message[c]]
    <2> SUFFICES ASSUME IInv, IInv', [Next]_vars
                 PROVE  Fifo!Next \/ UNCHANGED <<Contents, got>>
      OBVIOUS
    <2>0. TypeOK /\ TypeOK' /\ Consumers \subseteq Threads
          /\ Producers \cap Consumers = {}
          /\ message \in [Threads -> Messages \cup {NoMessage}]
      BY MessageQueueAssumption DEF MessageQueueAssumption, IInv, TypeOK, Threads
    <2>1. ASSUME UNCHANGED ring, \A c \in Consumers : message'[c] = message[c]
          PROVE  UNCHANGED <<Contents, got>>
      BY <2>1 DEF ring, Contents
    <2>2. ASSUME NEW t \in Threads, Return(t)
          PROVE  \A c \in Consumers : message'[c] = message[c]
      BY <2>0, <2>2 DEF Return
    <2>3. ASSUME NEW t \in Threads, Call(t) PROVE UNCHANGED <<Contents, got>>
      BY <2>0, <2>1, <2>3 DEF Call, PushCall, PopCall
    <2>4. ASSUME NEW t \in Threads, Wait(t) \/ WaitSpurious(t)
          PROVE  UNCHANGED <<Contents, got>>
      BY <2>1, <2>4 DEF Wait, WaitTake, WaitSleep, WaitResume, WaitSpurious
    <2>5. ASSUME NEW t \in Threads, Notify(t) \/ WaitTimeout(t)
          PROVE  UNCHANGED <<Contents, got>>
      BY <2>1, <2>2, <2>5 DEF Notify, WaitTimeout
    <2>6. ASSUME NEW p \in Producers, PushLocked(p)
          PROVE  Fifo!Next \/ UNCHANGED <<Contents, got>>
      <3>1. CASE Insert(p)
        BY <2>0, <2>6, <3>1, InsertRefines DEF PushLocked, Fifo!Next
      <3>2. CASE PushFails(p)
        BY <2>1, <2>2, <3>2 DEF PushFails, Leak, Threads
      <3> QED  BY <2>6, <3>1, <3>2 DEF PushLocked
    <2>7. ASSUME NEW c \in Consumers, PopLocked(c)
          PROVE  Fifo!Next \/ UNCHANGED <<Contents, got>>
      <3>1. CASE Remove(c)
        BY <2>0, <3>1, RemoveRefines DEF Fifo!Next
      <3>2. CASE PopFails(c)
        BY <2>1, <2>2, <3>2 DEF PopFails, Leak, Threads
      <3> QED  BY <2>7, <3>1, <3>2 DEF PopLocked
    <2>8. CASE UNCHANGED vars
      BY <2>1, <2>8 DEF vars, ring
    <2> QED
      BY <2>3, <2>4, <2>5, <2>6, <2>7, <2>8 DEF Next, Locked
  <1> QED  BY <1>1, <1>2, Invariance, PTL DEF Spec, Fifo!Spec, ImplementsFifo
=============================================================================
