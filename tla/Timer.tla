-------------------------------- MODULE Timer --------------------------------
(***************************************************************************)
(* The task timer of src/platform/src/system/timer.c: wheels of TimeWheelSize *)
(* buckets, of which the one m_headindex names takes the tasks and turns by *)
(* one bucket at each TickTask.  The wheels start empty: SetTimer clears    *)
(* neither them nor their counters, the Timer_t must have been zeroed.      *)
(*                                                                          *)
(* A task is known by its index, the wheel's node_num when it was added     *)
(* (as the bound keeps node_num small, its wrap at 2^32 is left out).  The  *)
(* chain of a bucket is the sequence of its nodes, from the bucket on.      *)
(***************************************************************************)
EXTENDS Integers, FiniteSets, SequencesExt

CONSTANTS
  TimeWheelSize, TimeWheelLevelNum, MaxUrgentQueueSize,
  MaxTasks         \* bound: tasks added to one wheel

ASSUME TimerAssumption ==
  /\ TimeWheelSize \in Nat \ {0}
  /\ TimeWheelLevelNum \in 1..255   \* an unsigned char counts the wheels
  /\ MaxUrgentQueueSize \in Nat
  /\ MaxTasks \in Nat

VARIABLES
  m_headindex,
  node_num, timer_node,
  current_index, current_priority,  \* the fields of each m_wheels[level]
  s_num,                            \* of m_urgentqueue
  runs,                             \* history: how often a wheel ran each task
  cancelled                         \* history: the tasks CancelTask removed

vars == <<m_headindex, node_num, timer_node, current_index, current_priority,
          s_num, runs, cancelled>>

Levels == 0..TimeWheelLevelNum - 1
HighestTimeWheelLevel == 0
LowestTimeWheelLevel == TimeWheelLevelNum - 1
DefaultTimewheel == 0

Tasks == 0..MaxTasks - 1
Buckets == 0..TimeWheelSize - 1
Location(i) == i % TimeWheelSize
Turns(i) == i \div TimeWheelSize

(* Ticks until the wheel at bucket c next visits bucket b.                  *)
Gap(c, b) == IF b >= c THEN b - c ELSE b - c + TimeWheelSize

(* A TimerNode.  Its wait is history: how many ticks of its wheel are to come
   before the one that should run it, fixed when the task is added.         *)
Nodes == [index : Tasks, rotation : Nat, wait : Nat]

TypeOK ==
  /\ m_headindex \in Levels \cup {255}
  /\ node_num \in [Levels -> 0..MaxTasks]
  /\ timer_node \in [Levels -> [Buckets -> Seq(Nodes)]]
  /\ current_index \in [Levels -> Buckets]
  /\ current_priority \in [Levels -> Levels]
  /\ s_num \in 0..MaxUrgentQueueSize
  /\ runs \in [Levels -> [Tasks -> Nat]]
  /\ cancelled \in [Levels -> SUBSET Tasks]

Init ==
  /\ m_headindex = 0
  /\ node_num = [l \in Levels |-> 0]
  /\ timer_node = [l \in Levels |-> [b \in Buckets |-> <<>>]]
  /\ current_index = [l \in Levels |-> 0]
  /\ current_priority = [l \in Levels |-> HighestTimeWheelLevel]
  /\ s_num = 0
  /\ runs = [l \in Levels |-> [i \in Tasks |-> 0]]
  /\ cancelled = [l \in Levels |-> {}]

(* Once m_headindex is outside m_wheels every call reads memory beyond the
   timer: the model says nothing of what follows.                           *)
InRange == m_headindex \in Levels

-----------------------------------------------------------------------------
(* Mutant: a task that wrapped around the wheel waits one turn less.         *)
NewNodeOneTurnLess(l) ==
  LET i == node_num[l] IN
  [index |-> i, rotation |-> IF Turns(i) = 0 THEN 0 ELSE Turns(i) - 1,
   wait |-> Turns(i) * TimeWheelSize + Gap(current_index[l], Location(i))]

(* InsertTimerNode: the number of turns depends on the index alone, not on
   where the wheel stands.                                                  *)
NewNode(l) ==
  LET i == node_num[l] IN
  [index |-> i, rotation |-> Turns(i),
   wait |-> Turns(i) * TimeWheelSize + Gap(current_index[l], Location(i))]

(* The new node goes to the end of its bucket's chain.                      *)
AddGeneralTask ==
  LET l == m_headindex IN
  /\ InRange
  /\ node_num[l] < MaxTasks
  /\ timer_node' = [timer_node EXCEPT
                      ![l][Location(node_num[l])] = Append(@, NewNode(l))]
  /\ node_num' = [node_num EXCEPT ![l] = @ + 1]
  /\ UNCHANGED <<m_headindex, current_index, current_priority, s_num,
                 runs, cancelled>>

(* A full queue drops the task without a word.                              *)
AddUrgentTask ==
  /\ s_num' = IF s_num = MaxUrgentQueueSize THEN s_num ELSE s_num + 1
  /\ UNCHANGED <<m_headindex, node_num, timer_node, current_index,
                 current_priority, runs, cancelled>>

(* DeleteTimerNode: the places of a task in a chain, and the chain once the
   first of them is unlinked.  Mutant: the bucket's own pointer is set to the
   node behind, whatever stood in front.                                    *)
Found(chain, i) == {p \in DOMAIN chain : chain[p].index = i}

UnlinkedAtHead(chain, i) ==
  IF Found(chain, i) = {} THEN chain
  ELSE SubSeq(chain, Min(Found(chain, i)) + 1, Len(chain))

Unlinked(chain, i) ==
  IF Found(chain, i) = {} THEN chain ELSE RemoveAt(chain, Min(Found(chain, i)))

CancelTask(i) ==
  LET l == m_headindex
      b == Location(i) IN
  /\ InRange
  /\ timer_node' = [timer_node EXCEPT ![l][b] = Unlinked(@, i)]
  /\ cancelled' = IF Found(timer_node[l][b], i) = {} THEN cancelled
                  ELSE [cancelled EXCEPT ![l] = @ \cup {i}]
  /\ UNCHANGED <<m_headindex, node_num, current_index, current_priority,
                 s_num, runs>>

SetTimer ==
  /\ InRange
  /\ m_headindex' = 0
  /\ current_priority' = [l \in Levels |-> HighestTimeWheelLevel]
  /\ s_num' = 0
  /\ UNCHANGED <<node_num, timer_node, current_index, runs, cancelled>>

-----------------------------------------------------------------------------
(* One visit of the loop of TickTimerNode.  ptrnode points to the pointer to
   the next node: at is that node's place in the chain, past its end once the
   pointer is NULL.  A node without turns left is unlinked there and its task
   goes to func_vector (ran), any other loses a turn and is passed.
   Mutants: the pointer also moves on after an unlinking; the turns left are
   never counted down.                                                      *)
VisitSkips(w) ==
  IF w.at > Len(w.chain) THEN w
  ELSE IF w.chain[w.at].rotation = 0
       THEN [chain |-> RemoveAt(w.chain, w.at), at |-> w.at + 1,
             ran |-> Append(w.ran, w.chain[w.at].index)]
       ELSE [w EXCEPT !.chain[w.at].rotation = @ - 1, !.at = @ + 1]

VisitKeepsTurns(w) ==
  IF w.at > Len(w.chain) THEN w
  ELSE IF w.chain[w.at].rotation = 0
       THEN [chain |-> RemoveAt(w.chain, w.at), at |-> w.at,
             ran |-> Append(w.ran, w.chain[w.at].index)]
       ELSE [w EXCEPT !.at = @ + 1]

Visit(w) ==
  IF w.at > Len(w.chain) THEN w
  ELSE IF w.chain[w.at].rotation = 0
       THEN [chain |-> RemoveAt(w.chain, w.at), at |-> w.at,
             ran |-> Append(w.ran, w.chain[w.at].index)]
       ELSE [w EXCEPT !.chain[w.at].rotation = @ - 1, !.at = @ + 1]

(* The whole loop: every visit leaves one node behind.                       *)
Walk(chain) ==
  LET walk[k \in 0..Len(chain)] ==
        IF k = 0 THEN [chain |-> chain, at |-> 1, ran |-> <<>>]
        ELSE Visit(walk[k - 1])
  IN walk[Len(chain)]

(* History: a chain after a tick of its wheel, and the runs of each task.    *)
Waited(chain) ==
  [p \in DOMAIN chain |-> [chain[p] EXCEPT !.wait = IF @ = 0 THEN 0 ELSE @ - 1]]

Times(ran, i) == Cardinality({k \in DOMAIN ran : ran[k] = i})

(* TickTimerNode on wheel l.  Mutant: the wheel runs off its buckets.       *)
TickNoWrap(l) ==
  LET c == current_index[l]
      after == Walk(timer_node[l][c]) IN
  /\ timer_node' = [timer_node EXCEPT ![l] = [b \in Buckets |->
       Waited(IF b = c THEN after.chain ELSE timer_node[l][b])]]
  /\ runs' = [runs EXCEPT
       ![l] = [i \in Tasks |-> runs[l][i] + Times(after.ran, i)]]
  /\ current_index' = [current_index EXCEPT ![l] = @ + 1]

TickTimerNode(l) ==
  LET c == current_index[l]
      after == Walk(timer_node[l][c]) IN
  /\ timer_node' = [timer_node EXCEPT ![l] = [b \in Buckets |->
       Waited(IF b = c THEN after.chain ELSE timer_node[l][b])]]
  /\ runs' = [runs EXCEPT
       ![l] = [i \in Tasks |-> runs[l][i] + Times(after.ran, i)]]
  /\ current_index' = [current_index EXCEPT ![l] = (@ + 1) % TimeWheelSize]

(* DownGrading *)
Downgraded(l) ==
  [current_priority EXCEPT ![l] = IF @ < LowestTimeWheelLevel THEN @ + 1 ELSE @]

(* The scan for the next wheel, an unsigned char that starts at -1: the first
   wheel below m_headindex with the best priority, if one beats the lowest.
   The test `result == -1` that should have caught the other case compares
   255 with -1 and never holds, so the priorities are never reset.           *)
NextWheel(prio) ==
  LET better == {l \in Levels : l < m_headindex /\ prio[l] < LowestTimeWheelLevel}
      best == {l \in better : \A k \in better : prio[l] <= prio[k]}
  IN IF better = {} THEN (-1) % 256
     ELSE CHOOSE l \in best : \A k \in best : l <= k

(* TickTask before m_interval has passed, and after it.                     *)
TickSameWheel ==
  /\ InRange
  /\ TickTimerNode(m_headindex)
  /\ UNCHANGED <<m_headindex, node_num, current_priority, s_num, cancelled>>

TickNextWheel ==
  /\ InRange
  /\ current_priority' = Downgraded(m_headindex)
  /\ m_headindex' = NextWheel(current_priority')
  /\ IF m_headindex' \in Levels THEN TickTimerNode(m_headindex')
     ELSE UNCHANGED <<timer_node, runs, current_index>>
  /\ UNCHANGED <<node_num, s_num, cancelled>>

TickTask == TickSameWheel \/ TickNextWheel

Next ==
  \/ AddGeneralTask \/ AddUrgentTask \/ SetTimer
  \/ \E i \in Tasks : CancelTask(i)
  \/ TickTask

Spec == Init /\ [][Next]_vars

(* Fairness: the caller keeps ticking.                                      *)
LiveSpec == Spec /\ WF_vars(TickTask)
-----------------------------------------------------------------------------
Pending(l, i) ==
  \E b \in Buckets : \E p \in DOMAIN timer_node[l][b] : timer_node[l][b][p].index = i

(* Every task added either stands at one place of the wheel, in the bucket
   where CancelTask looks for it, or was cancelled, or ran once, and only one
   of the three: whatever is unlinked from the middle of a chain or while the
   chain is walked, none is lost, run twice, or run after it was cancelled.  *)
TasksAccounted ==
  \A l \in Levels :
    /\ \A i \in Tasks :
         runs[l][i] = IF i < node_num[l] /\ i \notin cancelled[l] /\ ~Pending(l, i)
                      THEN 1 ELSE 0
    /\ \A i \in cancelled[l] : i < node_num[l] /\ ~Pending(l, i)
    /\ \A b \in Buckets : \A p \in DOMAIN timer_node[l][b] :
         LET i == timer_node[l][b][p].index IN
         /\ b = Location(i) /\ i < node_num[l]
         /\ Found(timer_node[l][b], i) = {p}

(* Two tasks of one bucket never have the same number of turns left: one tick
   hands the caller at most one task, so a p_FuncVector of one entry is enough
   (TickTimerNode checks no bound).                                         *)
RunNow(l) ==
  {p \in DOMAIN timer_node[l][current_index[l]] :
     timer_node[l][current_index[l]][p].rotation = 0}

OnePerTick == \A l \in Levels : Cardinality(RunNow(l)) <= 1

(* A task runs at exactly the tick that its index and the wheel's position
   fixed when it was added, however many turns that is and whatever was added,
   cancelled or run before it in its chain.                                 *)
Left(l, b, n) == n.rotation * TimeWheelSize + Gap(current_index[l], b)

OnTime ==
  \A l \in Levels, b \in Buckets : \A p \in DOMAIN timer_node[l][b] :
    timer_node[l][b][p].wait = Left(l, b, timer_node[l][b][p])

(* The inductive invariant: the chains hold what was added and no more, each
   in the order of adding and with more turns left the further behind, and the
   scan for another wheel never finds one.                                  *)
NodesOK ==
  \A l \in Levels, b \in Buckets : \A p \in DOMAIN timer_node[l][b] :
    LET n == timer_node[l][b][p] IN
    b = Location(n.index) /\ n.index < node_num[l] /\ n.rotation <= Turns(n.index)

ChainsOrdered ==
  \A l \in Levels, b \in Buckets : \A p, q \in DOMAIN timer_node[l][b] :
    p < q => /\ timer_node[l][b][p].index < timer_node[l][b][q].index
             /\ timer_node[l][b][p].rotation < timer_node[l][b][q].rotation

OneWheel == m_headindex \in {0, 255}

IInv == TypeOK /\ OneWheel /\ NodesOK /\ ChainsOrdered /\ OnTime

(* What a multilevel wheel needs before anything else.                      *)
HeadInRange == InRange

(* Every task of the default wheel, the only one that ever has tasks, runs or
   is cancelled, as long as ticks keep coming and the timer has not left its
   wheels.                                                                  *)
EveryTaskRuns ==
  LET l == DefaultTimewheel IN
  \A i \in Tasks :
    Pending(l, i) ~> runs[l][i] > 0 \/ i \in cancelled[l] \/ ~InRange
=============================================================================
