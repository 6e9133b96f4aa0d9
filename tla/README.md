# FramworkHub: specifications, model checking and proofs

FramworkHub is a small C platform layer: locks, a message queue, memory pools,
a task timer, threads, processes, logging, a few containers, a DES
implementation and a libpcap front end. There are no tests and the repository's
own README is one line, so the source is the only reference. This directory
holds TLA+ modules translated from it, the TLC configurations that check them
on small instances, and proofs checked by TLAPS.

Paths below are relative to `src/platform/src/` unless they start with
`include/` (then `src/platform/include/`) or `net/` (then `src/net/`).

## 1. Inventory

| Component | Code | State | Operations | Hard behaviour |
|---|---|---|---|---|
| Semaphore | `system/lock.c` | count, mutex, condition variable | SemInit, SemWait, SemNotify, SemFree | barging, time-outs against signals, spurious wake-ups |
| Message queue | `system/message.c` | ring (in, out, count), `visit_lock`, two semaphores | InitMQ, PushMessage, PopMessage | interleaving between three locks, permits kept by failed calls, everyone asleep |
| Block pool | `system/block.c` | free list, `visit_lock`, one semaphore | BlockInit, BlockAlloc, BlockFree | a fast path that takes a block and no permit, an unlocked read of the list's length |
| Linked list | `util/link.c` | head, tail, count, the links inside the nodes | add at either end, delete, take the head, search, migrate | stale links of nodes that left, moving the ends |
| Timer | `system/timer.c` | eight wheels of chains, priorities, an urgent queue | SetTimer, AddGeneralTask, AddUrgentTask, CancelTask, TickTask | long sequences, unlinking during a walk, the choice of the next wheel |
| Allocator | `system/allocate.c` | eight buffer queues, a chain of pages, a list of blocks whose headers lie in the pages | Allocate, Recycle, Release, CloseAllocater | reuse, pages rewound, counts, sizes at the limits, refusals that must be retried |
| Thread | `system/threadpool.c` | per thread: status, task, semaphore | InitThread, CreateThread, HandleThread, ExitThread, DestoryThread | two writers of the status, a semaphore that is never given back |
| Logger | `system/log.c` | event table and its length, terminal mutex, file lock | InitLogger, LogLogger, RuinLogger | two threads racing for one slot, file handles never closed |
| Process group | `system/processgroup.c` | the member list, shared-memory process records, cgroup files | CreatePG, JoinPG, ExitPG, GetCurrentProcess | fork and memory that is not shared |
| Hash list | `util/hash.c` | chains with back pointers, a counter for each | init, add, delete | the counter of another chain, a back pointer of NULL |
| Radix tree | `util/directionary.c` | nodes with 64-bit tags | build, mount, search, remove | the collision path |
| DES, bit helpers | `safety/des.c`, `util/bit.c` | static subkeys and halves | set a key, encrypt, decrypt, conversions | keys set in between, the order of the rounds |
| Matrix | `util/matrix.c` | the matrices of the caller | create, add, multiply, part, scale, transpose, trace, determinant | shapes changed by assertions that assign, quotients of integers |
| Network | `net/src/nic.c`, `net/src/net.c`, `net/src/packet.c` | the device list, the handle | find, show and open a device, send | every call of libpcap may fail |
| Kernel start | `init/` | global logger and time | start, use, end | the logger ends after its users |
| IPC, daemon, random | `system/ipc.c`, `system/daemon.c`, `util/random.c` | none | wrappers of system calls; entropy | - |
| Empty | `net/src/{arp,ip,udp}.c`, `safety/ecc.c`, `distribute/*.c` | | | |

How they interact. The message queue and the block pool call the semaphore
with `visit_lock` released, so every call is a chain of critical sections
between which the others run. The block pool and the process group keep their
members in linked lists whose links live inside the members; `link.c` locks
nothing and its callers serialise it. Threads receive a `struct Message`.
With `DEBUG_MODE`, nearly everything logs through the global logger
`g_logger`. The timer and the allocator have no lock: each belongs to one
thread, though `include/system/allocate.h:9` says otherwise.

What makes each component right:

- Semaphore: no wake-up is lost, the count is never overdrawn beyond a bound.
- Message queue: a bounded FIFO queue; permits are neither lost without bound
  nor invented; nobody sleeps beside a message or a slot; it keeps moving.
- Block pool: a block has one owner and none is lost; the semaphore differs
  from the list by a known amount.
- Linked list: both chains and the count describe one sequence.
- Timer: a task runs once, when it was promised, or was cancelled.
- Allocator: no byte has two owners, memory is as large as what was asked for,
  a page is rewound only when it is empty, refusals come to an end.
- Thread: a task runs as often as it should, a status that is relied on is
  true, every join returns.
- Logger: a line of the terminal is one event, and what ruins the logger finds
  every event the threads left, although they race for the slots.
- Hash list: the chains are disjoint, each field is pointed at once, the
  counters count. Radix tree: a search finds what was mounted and no more.
- DES: decryption inverts encryption. Matrix: a call gives the result of
  mathematics wherever its operands fit.
- Network: on every path of failure the device list is freed once, and a
  half-configured handle is never used.

`PROJECT.json` lists every hazard of the code at its line, with the properties
that would catch it, or the reason why there is none.

## 2. Modules

| Module | Models | Notes |
|---|---|---|
| `Lock` | `lock.c` | operators on one semaphore, one for each critical section; no state of its own |
| `Semaphore` | threads using one semaphore | extends `Lock`; a part of `Library` |
| `BoundedFifo` | what users of `message.h` rely on | abstract specification |
| `MessageQueue` | `message.c` over two semaphores | extends `Lock`, implements `BoundedFifo` |
| `SequenceList` | what users of `link.h` rely on | abstract specification |
| `Linklist` | `link.c` on a heap of prev and next fields | implements `SequenceList` |
| `Block` | `block.c` over a semaphore and a list | extends `Lock`; its list is the sequence `Linklist` implements |
| `Timer` | `timer.c` | |
| `Allocator` | `allocate.c` | |
| `Logger` | `log.c` | the calls of LogLogger of all threads; operations only |
| `Thread` | `threadpool.c` | extends `Logger`: both sides log |
| `Kernel` | `init.c`, `main.c` | composes the two: start, calls in any order, end |
| `Hash` | `hash.c` | fields and pointers to fields |
| `RadixTree` | `directionary.c` | up to the first collision |
| `Des` | `des.c`, `bit.c` | with the tables of the source |
| `Nic` | `nic.c`, `net.c` | over a libpcap that may fail |
| `Matrix` | `matrix.c`, integer build | |
| `Library` | - | `Semaphore`, `Linklist`, `Hash`, `RadixTree`, `Des`, `Nic` and `Matrix` side by side: one of them per behaviour, as none of them touches another |
| `Lock_proofs`, `Semaphore_proofs`, `MessageQueue_proofs`, `Block_proofs`, `Timer_proofs`, `Allocator_proofs`, `Kernel_proofs`, `Library_proofs` | theorems | section 6 |
| `MC*` | values for the constants | for TLC only |

An operator called a "Mutant" in a comment is a plausible bug of the definition
that follows it. It is used by no specification; `PROJECT.json` says which
property notices it when it takes the definition's place.

### Correspondence with the code

**Lock.** `struct Sem` is a record: `count`, and the condition variable as two
sets of threads, `waiting` (no wake-up has reached them) and `woken` (the mutex
is not yet theirs again). `SemTake` and `SemSleep` are the two ways through the
first critical section of SemWait, `SemResume` and `SemTimeout` those out of the
wait; `SemNotify` increments and signals under the mutex. Two liberties that
POSIX takes are parameters: a spurious wake-up, and (`TimeoutTakesSignal`) a
timed wait that consumes the signal and still reports ETIMEDOUT. SemWait tests
the count once (an `if` at lock.c:38), so `SemResume` does not look at it.

**Semaphore.** Every thread calls SemWait, with a deadline or without, and
SemNotify for ever. `swallowed` is history: how many waits took a signal along
as they timed out. `NoLostWakeup` leaves one permit beside a sleeper for each.

**MessageQueue.** `pc` says which critical section a call comes to next: the
first look at the ring (`PushCall`, `PopCall`), SemWait on the thread's own
semaphore (`WaitTake`, `WaitSleep`, `WaitResume`, `WaitTimeout`,
`WaitSpurious`), the second look (`PushLocked`, `PopLocked`), SemNotify on the
other semaphore (`Notify`). A call that holds a permit and finds the ring full
or empty returns -1 and keeps the permit (message.c:46 and 73): that is `Leak`,
counted by the history variable `leaked`.

**Linklist.** `prev` and `next` map every node to the value of its fields,
arbitrary at first and stale after a node left. The walk of
DeleteLinklistnode is the recursive function `cursor`. The list's callers never
insert a node that is already in it (`Outside`), which is what they do in
`block.c` and `processgroup.c`.

**Block.** Both ways into BlockAlloc: with `ms = 0` an unlocked look at `s_num`
(`Try`) and then the list, with `ms > 0` the semaphore first. They meet in
`Fetch` and `FetchNull`. BlockFree is two steps, the list and then the permit.
`surplus` is history: how many permits the mixture has made too many or too few.

**Timer.** The chain of a bucket is the sequence of its nodes. `Visit` is one
turn of the loop of TickTimerNode: the pointer to the link is a place in the
sequence, which stays where a node is unlinked and else moves on. `Unlinked` is
the search and unlinking of DeleteTimerNode. TickTimerNode frees no node, so
none can be used after it was. The position of a task in the wheel is
`index % TimeWheelSize`, its turns `index / TimeWheelSize` whatever the wheel's
position, as InsertTimerNode computes them; a node's `wait` is history: the
ticks still to come before the one that is to run it. The clock is the choice
between `TickSameWheel` and `TickNextWheel`. `NextWheel` keeps the width of the
code's `unsigned char`. Only the first wheel is ever used: m_headindex starts at
0, the scan of TickTask (timer.c:218) ends at the current wheel and so looks at
none before the first, and the 255 it then stores is outside m_wheels. That is
proved (`OneWheel`, for any number of wheels), and it is the reason why no run
can put a task on a second wheel: the program cannot.

**Allocator.** A buffer queue is its `num` and its chain; `size` of a node is
what the field holds, `room` what the node really holds, and the two differ
where the code leaves the field unwritten. A page is `last`, `quote` and
`failed`, its memory a range of offsets; a block is the place of its header in
the pages, its size and its mark. Which objects clients hold is state
(`small`, `chunks`, `blocks`), and so are the pieces the code lost
(`forgotten`). `Programs` says which sizes the clients of one behaviour ask
for: the two halves of the allocator share no state, so a program that uses one
of them shows all there is to see of it.

**Logger.** `call[t]` is the call of LogLogger thread t is in: its place and
what it keeps on its stack. Every access to a field that threads share is a
step, because only the two appenders take a lock; the backup reads
`m_eventnum` anew each time it names the slot (log.c:120-122), so `LoadIndex`
comes before each use. `fault` is the line of log.c that ended the process: an
assertion, or the first write beyond the slots or through NULL. SystemFileLog
never closes a file (105 is a comment), so `opened` only grows, to the limit of
the process. RuinLogger frees by the counter.

**Thread.** `body` is where the thread of an object is in `run`, `own` what the
owner is doing. `m_status` has two writers and no lock, as in the code:
CreateThread writes READY after pthread_create, over whatever the body wrote.
Both log through the one logger, as the build with `DEBUG_MODE` does, so the
owner's call and the body wait for the same terminal. A function may log, and
that of an `Exiter` may leave through ExitThread, which takes the semaphore and
ends the thread inside pthread_exit, before the post. HandleThread copies a
message after the join if m_message was not NULL before it (threadpool.c:115-118).
Nothing sets m_message, and main.c:10 has the object on its stack, so
`HandleWait` chooses: `Join` follows where it was NULL, `JoinCopy` where it was
not. The copy goes to where the value points that `run` returned, which has no
return statement; the model ends there with `fault` 118.

**Kernel.** `Init` is InitKernel, the logger on the terminal from Log_Debug on,
and the file and a higher level as the other choices InitLogger offers. The
owner calls CreateThread and HandleThread in any order their protocol allows,
and ruins the logger when no body is left.

**Hash.** prev_firstregion points at a pointer field, so a field has a name:
the key whose head it is, or the node whose `next` it is. IsUnhashed reads
through it, so `PrepareNode` is what a caller must do before it adds a node,
and again after DeleteHashNode set it to NULL.

**RadixTree.** The tree is its root node up to the first collision in a slot,
where line 191 shifts an int by more than its width. `treeEnd` says that the
program got there, or that an assertion failed. The zone of the root is computed
by shifting an int (bit.h:102), which C defines only while the result fits
(`CeilingDefined`); from 31 bits on a key may be found inside or outside, and the
model lets it be either. Units, words and the int are scaled: `IntBits` is 5 in
`library`, too narrow for its zone of four bits, so that both answers are taken,
and 32 in `tree_count`.

**Des.** The tables stand as in the code. A round is a step, and keys may be set
between any two calls; `keys` names the key set last and those of the last
encryption and decryption. The model gives the ciphertext of the compiled
code on sample texts and keys.

**Nic.** A list of devices may be another one at each call of pcap_findalldevs.
The functions nest, so `caller` says where find_nic and show_nic return to;
`opening` and `settings` say how far open_nic is with its handle. `live` and
`lost` count device lists and handles nobody frees. The filter that pcap_compile
allocates is never freed either; that leak is not in the model.

**Matrix.** A matrix keeps its shape and its store, whose entries beyond the
shape hold what earlier calls left. The assertions on the shapes assign
(75, 117, 402), and the model does. The output may be an operand: `Loop` is the
loop over rows and columns, in which a turn reads what the turns before left in
all matrices. `Summed` is the body MatrixAdd and MatrixSubtraction share word
for word. `Eliminate` walks the entries column by column, the order of the two
outer loops of DeterminantValue. `wanted` is history: the result mathematics
gives where the operands fit, written with no use of the loops of the code; for
MatrixSubtraction it is the difference. Where the output is an operand the
result is wanted of a sum only: MatrixMultiplication clears the output first
(120), GetChildMatrix and MatrixTranspose shape it first and overwrite what they
have yet to read, so these calls are made and nothing is `wanted` of them.

## 3. Runs

| Run | Instance | Question |
|---|---|---|
| `mq_safety` | 2 producers, 2 consumers, 2 slots, 2 messages | FIFO in every interleaving; permits accounted for; leaks bounded; sleep justified; a deadlock costs as many leaks as there are slots |
| `mq_progress` | 2 producers, 1 consumer, 4 slots, 1 spurious wake-up per semaphore, fairness | messages are delivered for ever; every call of a thread that waits alone on its semaphore returns, untimed ones too |
| `block` | 4 threads, 2 blocks, 1 spurious wake-up | no block twice or lost; the permits differ from the list by `surplus`, with a lower bound |
| `timer` | wheels of 3 buckets, 7 tasks in chains of up to 3 nodes, fairness | each task exactly once and on time, none lost while a chain is walked or unlinked; one per tick; none waits for ever |
| `timer_levels` | 8 wheels as in the source | violation: the head index leaves the wheels |
| `allocator` | scaled sizes, 3 nodes of memory, 2 pages, 2 blocks, 3 objects held | one owner, large enough, exact quotes, bounded refusals |
| `allocator_sizes` | the sizes of the source | violation: a queue beyond the last is addressed |
| `kernel` | owner and 2 workers that back up their events, one of which may leave through ExitThread; 1 slot, 3 open files, 2 bodies, fairness | lines are whole, a task runs once, FREE and TERMINATE are true, the ruin finds every event, HandleThread returns |
| `log_backup` | the same with 2 slots | violation: the assertion on the event just stored fails |
| `library` | a semaphore of 1 permit at first and 4 threads, 1 spurious wake-up, 1 swallowed signal; a list of 3 nodes with arbitrary links at first; 2 hash chains, 3 nodes; a tree of 4 slots, 6 keys; 2 texts under 2 keys; 2 devices of 1 address; 3 matrices, 3 calls | no permit beside a sleeper that a swallowed signal does not explain, and the debt is bounded; the list implements the sequence; chains, tree, cipher, network and matrices are right |
| `tree_count` | the same, an int of 32 bits | violation: the first item mounted is not counted |
| `matrix_subtraction` | the same | violation: MatrixSubtraction gives the sum |

Why the bounds are enough. What goes wrong in the semaphore takes one thread
that sleeps, one that barges in and one that notifies; a fourth makes the debt
grow beyond one. In the queue two threads on each side make them compete for one
permit, and two slots let the ring wrap while it is neither full nor empty. The
links of a list have a first, an inner and a last node with three. Four threads
on two blocks let a permit be granted twice while another call takes a block
without one. Seven tasks on three buckets give a bucket three tasks and a task
two turns: a chain has nodes that run, stay and are cancelled at its head, in
its middle and at its end. The scaled allocator keeps the order of its sizes:
two queues of two sizes each, pieces of a half, three quarters and the whole of a page that do not
fit beside each other, a page that must be rewound and another that must be
begun, a block of a page and one beyond. The bounds that cut a behaviour off
(`MaxCount`, `MaxSpurious`, `MaxSwallowed`, `MaxSurplus`, `MaxTasks`, `MaxHeld`,
`MaxPages`, `MaxBlocks`, `MaxDrift`, `MaxTries`, `MaxCreates`, `MaxOpen`,
`MaxLogEventNum`, `MaxDevices`, `MaxAddresses`, `MaxCalls`, and `CountSize` and
`WordSize`, where an unsigned wraps) are named in the modules; the theorems
hold for every value of those in their modules. `CHECK_DEADLOCK FALSE` is given
where the system may stop: the queue can put all its threads to sleep
(`DeadlockNeedsLeaks` says at what price), the timer once it has left its
wheels, the allocator once it has addressed a queue that is not there, the
kernel once it has ended or a fault ended it, or when the owner waits for a semaphore ExitThread
kept, and the parts of the library at the bound on their calls or where C
defines nothing more.

In `kernel` two bodies are enough for one object to be used twice and for two
workers to run at once, both storing into the one slot, the next of which is
the counter itself; three files let an event meet the limit of open files,
after other threads opened theirs. `log_backup` needs the second slot for the
assertion to look at. Three hash nodes give a chain a first, an inner and a
last one beside another chain; the keys of the tree include two that meet in a
slot and some outside its zone; the matrices include one that eliminates
without a rest, one with, and one with 0 on the diagonal, and three calls let a
shape that an assertion changed reach the call after the next.

### Fairness

`MessageQueue!LiveSpec`: every thread that can take a step inside a call is
eventually run (the scheduler is fair to threads that are not blocked, and so
are its mutexes), and every thread calls again and again. Nothing is assumed of
deadlines, so no call is rescued by one. Weak fairness on the union of a
thread's steps is enough, because a thread is always at one place.
`Timer!LiveSpec`: the caller keeps calling TickTask, which is how the timer
advances at all. `Kernel!LiveSpec`: as long as the process lives, each thread
that can take a step of the call it is in is run in the end, the owner, each
body and each call of the logger; nobody is obliged to begin a call. Weak
fairness is enough for the terminal mutex because a body logs a bounded number
of times, so no thread can be overtaken for ever. The liveness properties of
the queue are checked where they hold: `KeepsMoving` needs at least as many
slots as threads less one (with fewer `DeadlockNeedsLeaks` allows everybody to
sleep), and one more for each permit a spurious wake-up can cost: hence four
slots for three threads. `EveryCallReturns` speaks of the threads that have
their semaphore to themselves, as where several wait on one another call may
take each permit first; in `mq_progress` that is the consumer, and the case of a
lone producer is its mirror image. `HandleReturns` speaks of the workers that
cannot leave through ExitThread, for the others it does not hold, and of the
joins behind which no message is copied.

## 4. What the checks show

- The queue is a correct bounded FIFO queue although its semaphore grants
  permits twice: the ring is read again under the lock. The price is
  permits that are lost for good. Their number is bounded by the number of
  threads, and a queue with too few slots can fall asleep for ever.
- The pool never gives a block to two threads and never loses one. Mixed use of
  both ways into BlockAlloc lets the semaphore promise more blocks than there
  are, without bound, so calls with a deadline can return NULL early; promising
  fewer is bounded.
- The list is right whatever the nodes' links hold when they are added.
- One wheel of the timer is exact, whatever is cancelled from the middle of a
  chain and unlinked while it is walked. The change of wheels is not: see below.
- The pool of the allocator never hands a byte out twice and counts exactly;
  the buffer queues lose nodes when their count reaches zero early
  (allocate.c:279), but hand none out twice. Memory is as large as asked for
  except in the node a queue starts with, whose size is never written
  (allocate.c:281): `LargeEnough` states how far that goes.

- The threads' lines do not mix on the terminal. A task that is not a cycle
  runs once however many bodies its object gets, although `run` writes the task
  without a lock. READY can lag behind, FREE and TERMINATE never lie. A worker
  that leaves through ExitThread keeps the semaphore, and HandleThread then
  waits for ever.
- Threads that race for a slot of the logger lose events and can fail the
  assertion (below), but the counter always covers what is stored, so
  RuinLogger frees it all, and no copy goes to a freed event. Threads that
  share the last slot count past the slots: then RuinLogger frees what lies
  behind them (`fault` 144).
- The chains of the hash list stay disjoint and their back pointers exact in
  any order of calls. A deletion under another key moves the count, no more.
- The radix tree is a map up to its first collision, also where the ceiling of
  its zone does not fit an int. Its item count is wrong: see below.
- Decryption inverts encryption, whatever keys were set in between.
- libpcap may fail anywhere: each device list is freed once, no half-configured
  handle gets to main. A handle whose setting failed is lost, not closed.
- The matrix calls are right where the shapes fit and the quotients of the
  determinant have no rest; MatrixAdd only for square matrices, then also in
  place. MatrixSubtraction is not: see below.

Disagreements between the code and what its comments and declarations say:

1. `timer_levels`. `include/system/timer.h:114` promises tasks scheduled over
   several wheels. At the first tick after the interval the scan for another
   wheel finds none, the -1 that says so is 255 in an `unsigned char`, the test
   for it never holds (timer.c:227) and the head index becomes 255 of 8 (233).
   The scan has nothing to find, as it only looks at wheels before the current
   one, which is the first.
2. `allocator_sizes`. `include/system/allocate.h:42` says the buffer queues
   serve sizes of no more than 256 bytes. A request of exactly 256 addresses the
   ninth of the eight queues (allocate.c:364).
3. `log_backup`. log.c:121 asserts that the event just stored is in its slot. It
   reads the counter again, and another thread may have counted in between.
4. `tree_count`. `include/util/directionary.h:14` says item_counts is the number
   of objects mounted on the node. The first mount returns before the count
   (directionary.c:148), so the root's count is one short and wraps when the
   last item is removed.
5. `matrix_subtraction`. `include/util/matrix.h:27` declares MatrixSubtraction;
   matrix.c:112 stores value1+value2. Its body duplicates that of MatrixAdd.

Seen on the way, and left as they are in the models: HandleThread copies m_message
through a value `run` does not return (threadpool.c:118); nic.c:190 announces reads that do not block, and nic.c:205
turns them off; net.c:12 gives open_nic the text of a MAC address where
nic.c:217 takes its bytes; show_nic prints two of its values in each other's
place.

## 5. Left out

- External code: the condition variable, malloc (never fails; any memory nobody
  knows of), time. Deadlines may pass at any moment after a wait began.
- SemFree, MigrateNode, HandleUrgentTask: no caller, or empty.
  SearchLinklistnode changes nothing.
- Release of small objects and of blocks in `allocate.c`: they free an inner
  pointer and clear the wrong header, after which the process is gone.
- DestoryThread: it frees the object that a body it cancelled may still use,
  and nothing calls it. set_thread_attribute fills attributes pthread_create is
  not given. The macro Log formats the time through strtok, whose static state
  threads share (log.h:79): the text of an event is not modelled.
- Process groups: CreatePG, with which they begin, writes through a pointer it
  never set (processgroup.c:234-235), so there is no defined behaviour to
  model; InitKernel ends with that call, and the model before it. TestKernel
  sleeps and allocates once.
- InsertHashNode_Next and _Tail: no caller. The radix tree from its first
  collision on, and MatrixInversion, which eliminates over entries it never
  wrote: undefined in C. MatrixPower is empty, MatrixPrint prints.
- The build of `matrix.c` on doubles, which the makefile does not select:
  rounding. The overflow of an int in a matrix.
- The bytes of a packet, the filter's text and the memory of the compiled filter,
  which open_nic never frees; packet.c has two static functions
  without a caller.
- Random, IPC and the daemon: system calls, mostly empty. Empty files.

## 6. Proofs

Assumptions: the named `ASSUME`s of the modules. They fix the types of the
constants, that sets of threads, nodes and keys are finite, and that a value
that stands for none (NULL, no item, no list) is none of the others. Two say
more. `AllocatorAssumption`: a page is what the pool asks malloc for, and the
offset a page is rewound to lies in it, as with the sizes of the source.
`RadixTreeAssumption`: a unit of a key indexes the slots, the keys of the zone
fit a word below the tag of an empty slot, and 2^(UnitBits*(UnitNum-1)) is a
positive natural, which is a fact of arithmetic no installed prover knows. The
theorems hold for every number of threads, slots, messages, blocks, wheels,
buckets, nodes, keys, pages and devices, and for every value of the bounds.

- `Lock_proofs`: for each operator of `Lock`, what it preserves of a semaphore's
  type, of `PermitsPromised` and of `Balance` (the count once every woken thread
  has decremented it). All the modules below cite these lemmas.
- `Semaphore_proofs`: `SemaphoreTypeOK`, `NoLostWakeup` and `BoundedDebt` are
  invariants. While anyone sleeps, the count is at most the number of woken
  threads and of swallowed signals: a notification wakes a sleeper or finds none. The debt is about the *balance*, not about the count: a woken
  thread's decrement is already certain, and only threads that are awake can
  barge in.
- `MessageQueue_proofs`: the inductive invariant `IInv` is the type, `RingOK`
  (in and out differ by count), `PermitsAccounted` (where each permit is),
  `DebtBounded`, `LeakBounded` and `Promised`. None of the safety properties is
  inductive alone: a leak happens when a granted call finds the ring full, and
  that the leaks stay bounded follows from the bound on the balance through the
  sum in `PermitsAccounted`. From it: `SleepIsJustified`,
  `DeadlockCostsLeaks`, `BigRingNeverDeadlocks` (a ring with at least as many
  slots as threads less one never deadlocks, without spurious wake-ups) and
  `Refinement`, that the queue implements `BoundedFifo`: `Insert` maps to `Put`,
  `Remove` to `Get`, everything else to a stutter.
- `Block_proofs`: `BlocksAreConserved` rests on the type alone;
  `PermitsAreAccounted`, `ShortageIsBounded` and `SleepIsJustified` come from
  `IInv`, along the argument of the queue.
- `Timer_proofs`: `OneWheel` (the head index is 0 or 255, for any number of
  wheels) is needed for the type itself, as the index is used by the next call.
  The walk over a chain is the work. In an invariant state (`ChainsOrdered`) the
  further behind a node stands the younger it is and the more turns it has left,
  so only the first can be out of turns; the lemmas about `Walk` then say what
  it leaves: the chain without its first node, or the whole of it, every node
  left with a turn less. `AtMostOnePerTick` follows from the order, and
  `TasksRunOnTime` is the invariant that a node's `wait` is what its turns and
  the wheel's position leave. `NoTaskLost` adds the books: a task given out
  stands at one place, ran once or was cancelled, for each action from what it
  does to the chain.
- `Allocator_proofs`: `IInv` has a part for the queues, one for the blocks and
  three for the pages. None of the properties about pages is inductive alone. A
  page is rewound when its quote reaches zero, so that nothing lies in it then
  needs `Fits`: the quote is the number of chunks, lost pieces and headers in
  the page, and each ends below `last`. What is carved next begins at `last`, so
  it is `Apart` from all before it, headers included (`Layout`). `QueuesOK` says
  that a node is in one queue at one place, that a node smaller than its size
  field is the head of its queue, and that a held node which is still in a queue
  is marked: so `Disjoint` and `LargeEnough` for the nodes. `Patience` credits
  each page the pool left with its limit and the current one with what it
  counted, which bounds `misses` by the number of pages.
- `Library_proofs`: each part is proved of its own specification, then of
  `LibrarySpec`, whose steps are steps or stutters of every part (`PartsRun`).
  - The list. `ListInv` says that the walk from the head (`cursor`) gives
    `s_num` different nodes, that `next` and `prev` are their neighbours, and that
    the ends are the first and the last (`Holds`). Of nodes outside it nothing is
    known, so stale links are covered. `WalkMeets` shows that a sequence of nodes
    that `Holds` is what the walk finds, by the least place at which they could
    differ; so each call is proved by naming the sequence after it, for an
    unlinked node by the places before and after it.
    `ListIsSequence` maps the same sequences to `SequenceList`.
  - The hash list. `HashInv` gives each chain a length and an order, says that
    the orders share no node and that each `prev_firstregion` is the field that
    points at its node. Its existence is carried through a call by naming the
    order after it. That the counters together count the nodes (`SumInv`) holds
    modulo the width of an unsigned, since a deletion under another key wraps the
    counter of that key; it rests on lemmas about the sum of a function
    changed at one point.
  - The radix tree. `TreeInv` ties `mounted`, the history, to the tag and the
    slot of each key, wherever the key was found to lie. `TreeImplementsMap`
    follows. Nothing is claimed of the count.
  - The cipher. The tables of the two outer permutations invert each other, a
    byte is its eight bits and back, and a round of the decryption undoes the
    round of the encryption that used the same subkey, whatever the round
    function computes. `DesInv` carries this through the calls: `Encrypting` and
    `Decrypting` give the halves after each round as the same sequence read from
    its two ends, and `Written` says what was written is its last element.
  - The network. `NicWhere` lists where the nested calls can be, and what each
    place leaves set; `NicDevices` says that a list is alive exactly while one is
    named; `NicName`, that the name found is the first with the address.
  - The matrices. `MatrixTypes /\ MatrixRight` is inductive: `MatrixTypes` says
    that a shape fits its store, which holds integers, also after a call in place.
    `LoopFacts` says that a loop writes only the output, keeps integers integers
    and, where no turn reads what another wrote, leaves at each place what its
    turn wrote; so each loop of the code writes the entries `wanted` names, and
    an in-place sum too, as a turn reads only the place it then writes.
    MatrixSubtraction keeps the types; its result is left to the run. The sums and products are the folds of
    the community module, reduced to `Total` by `SumIs` and `ProductOfIs`. The
    determinant is the hard call. `Keeps` is what the elimination keeps up to a
    step: while every quotient was exact, the signed sum over the permutations,
    and the zeros below the diagonal that the steps before made. To take a
    multiple of one row from another keeps the sum, as the terms it adds cancel
    in pairs: exchanging two images of a permutation turns its sign
    (`SignSwapped`) and nothing else in the term, and sums whose members agree in
    pairs are equal (`PairsKeepSum`). `TriangularDeterminant` ends it: of a
    triangular matrix only the identity gives a term, the product of the
    diagonal, which the code returns.

- `Kernel_proofs`: `IInv` has seven parts with a lemma each, and five properties
  come from it, for any number of threads, slots, files and bodies.
  `RunsCounted`: a task that ran can run again only if its function is still in
  the object, and the one way to leave it there, ExitThread, keeps the semaphore,
  so the object is never joined nor given another body; `ObjectTypes` says who
  holds a semaphore, and so that only its holder posts it.
  `TerminalHeld`: who prints holds the mutex, and the line is what it printed.
  `EventsCovered`: a stored event is below the counter, or at it while some
  thread is between its store and its count, which is all that is left of order
  when threads race. `CallsLinked` ties calls to bodies, so that an idle owner
  without bodies means that no call is under way.

The runs check each of the safety properties proved here on their instances.
Both liberties of POSIX, the spurious wake-up and the timed wait that swallows a
signal, are parameters of the theorems about the semaphore, the queue and the
pool; `SleepJustified` of the queue and of the pool supposes that no signal is
swallowed, `NoLostWakeup` counts those that are. The runs `library` (the
semaphore), `block` and `mq_progress` exercise the first liberty, `library` the
second.

Only model-checked: the liveness properties (`KeepsMoving`,
`EveryCallReturns`, `EveryTaskRuns`, `HandleReturns`), as temporal reasoning
under fairness is beyond the prover. Where a proof above needs an induction
over a walk, an elimination or a sum, it takes the least place at which the
claim could fail: the recursions are functions over the naturals or over finite
sets, not recursive operators, so what they give at one place can be unfolded.

## 7. Plan

Done, in this order: the semaphore, the queue over it with its abstract
specification, the list with its own, the pool over both, the timer, the
allocator; the kernel over threads and logger; the parts of the library: hash
list, radix tree, cipher, network, matrices; the proofs of every safety property
the runs expected to pass check.

Left, the most important first:

1. `Allocator` for two threads, against the comment at `allocate.h:9`.
2. `ProcessGroup` over `Linklist`, once CreatePG has a behaviour to model.
