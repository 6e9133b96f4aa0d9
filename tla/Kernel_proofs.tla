--------------------------- MODULE Kernel_proofs ---------------------------
(***************************************************************************)
(* The invariants of Kernel, for any number of threads, slots, files and   *)
(* bodies.  IInv is the conjunction of seven parts, and each part has a     *)
(* lemma that says a step preserves it.                                    *)
(***************************************************************************)
EXTENDS Kernel, TLAPS

Places == {"out", "enter", "lock", "print", "unlock", "open", "wrlock", "write",
           "index", "store", "again", "check", "third", "take", "count", "fill"}

Calls == [pc : Places, level : Int, backup : BOOLEAN, piece : 1 .. 5, index : Nat,
          event : Nat \cup {Nobody}]

OwnerPlaces == {"boot", "idle", "create", "ready", "terminate", "logging", "handle",
                "join", "joincopy", "post", "end"}

Bodies == {"none", "start", "logged", "func", "funclog", "exit", "back", "clear", "ended"}

(* The objects: their types, and that a semaphore is at 0 while the owner
   holds it.                                                                 *)
ObjectTypes ==
    /\ m_status \in [Worker -> {"INIT", "READY", "RUNNING", "FREE", "TERMINATE"}]
    /\ m_semaphore \in [Worker -> 0 .. 1]
    /\ m_task \in [Worker -> [IsCycle : BOOLEAN, function : BOOLEAN]]
    /\ body \in [Worker -> Bodies]
    /\ func \in [Worker -> BOOLEAN]
    /\ creates \in 0 .. MaxCreates
    /\ runs \in [Worker -> Nat]
    /\ own \in [pc : OwnerPlaces, w : Caller]
    /\ \A w \in Worker :
           OwnerAt("join", w) \/ OwnerAt("joincopy", w) \/ OwnerAt("post", w)
             => m_semaphore[w] = 0

(* What a status says of the body, from the call of CreateThread on.         *)
StatusFollows ==
    \A w \in Worker :
        /\ OwnerAt("create", w) => m_status[w] = "INIT" /\ body[w] = "none"
        /\ OwnerAt("terminate", w) => body[w] = "none"
        /\ m_status[w] = "FREE" => body[w] \in {"none", "clear", "ended"}
        /\ m_status[w] = "TERMINATE" => body[w] = "none"

(* A task that is not a cycle and ran: its body is not yet back, or the
   function is gone, or the body left through ExitThread with the semaphore,
   and then nobody joins it.                                                 *)
RanOnce(w) ==
    /\ runs[w] = 1
    /\ \/ body[w] \in {"func", "funclog", "exit", "back"}
       \/ ~m_task[w].function /\ body[w] \in {"none", "start", "clear", "ended"}
       \/ ~m_task[w].function /\ ~func[w] /\ body[w] = "logged"
       \/ /\ body[w] = "ended" /\ m_semaphore[w] = 0
          /\ ~OwnerAt("join", w) /\ ~OwnerAt("joincopy", w) /\ ~OwnerAt("post", w)

RunsCounted == \A w \in Worker : m_task[w].IsCycle \/ runs[w] = 0 \/ RanOnce(w)

(* The calls of the logger, and who may be in one.                           *)
CallsLinked ==
    /\ call \in [Caller -> Calls]
    /\ m_outputflag \in {"Terminal", "File", "Unspecified"}
    /\ \A w \in Worker : ~Quiet(w) => body[w] \in {"logged", "funclog"}
    /\ ~Quiet(Owner) => own.pc = "logging"
    /\ m_outputflag = "Unspecified" =>
           own.pc = "end" /\ \A w \in Worker : body[w] = "none"

PieceNames == {Pieces[i] : i \in 1 .. 4}

(* The terminal: who prints holds the mutex, and the line holds the pieces
   it has printed.                                                           *)
TerminalHeld ==
    /\ line \in Seq(Caller \X PieceNames)
    /\ m_terminalsync \in Caller \cup {Nobody}
    /\ \A t \in Caller :
           /\ call[t].pc \in {"print", "unlock"} => m_terminalsync = t
           /\ call[t].pc \in {"out", "enter", "lock"} => call[t].piece = 1
           /\ call[t].pc = "print" =>
                  /\ call[t].piece \in 1 .. 4
                  /\ Len(line) = call[t].piece - 1
                  /\ \A i \in 1 .. Len(line) : line[i] = <<t, Pieces[i]>>
    /\ line # <<>> => \E t \in Caller : call[t].pc = "print"

(* A thread that has stored an event and not yet counted it.                 *)
Uncounted(t) == call[t].pc \in {"again", "check", "third", "take", "count"}

(* The slots: what they hold is allocated, and the counter covers it, or is
   behind by one and some thread is about to count.                          *)
EventsCovered ==
    /\ m_eventnum \in Nat /\ mallocs \in Nat
    /\ heap \subseteq 0 .. mallocs - 1
    /\ m_events \in [Slot -> heap \cup {Nobody}]
    /\ \A t \in Caller : call[t].pc = "store" => call[t].index <= m_eventnum
    /\ \A t \in Caller : call[t].pc \in {"third", "take", "count", "fill"} =>
           call[t].event \in heap
    /\ \A i \in Slot : m_events[i] # Nobody =>
           i < m_eventnum \/ (i = m_eventnum /\ \E t \in Caller : Uncounted(t))
    /\ fault # 130

(* The types of the rest.                                                    *)
LoggerTypes ==
    /\ m_level \in {Log_Debug, Log_Error, Log_Unknow}
    /\ m_filesync \in Caller \cup {Nobody}
    /\ opened \in 0 .. MaxOpen

IInv ==
    /\ ObjectTypes /\ StatusFollows /\ RunsCounted
    /\ CallsLinked /\ TerminalHeld /\ EventsCovered /\ LoggerTypes
-----------------------------------------------------------------------------
(* Goto moves t and touches no other caller; a call that is over is cleared. *)
LEMMA GotoFacts ==
    ASSUME call \in [Caller -> Calls], NEW t \in Caller, NEW pc \in Places, Goto(t, pc)
    PROVE  /\ call' \in [Caller -> Calls]
           /\ call'[t].pc = pc
           /\ \A u \in Caller \ {t} : call'[u] = call[u]
           /\ pc = "out" => call'[t] = NoCall
           /\ pc # "out" => /\ call'[t].piece = call[t].piece
                            /\ call'[t].index = call[t].index
                            /\ call'[t].event = call[t].event
  <1>1. NoCall \in Calls /\ NoCall.pc = "out"
    BY DEF NoCall, Calls, Places, Log_Debug
  <1>2. CASE pc = "out"
    BY <1>1, <1>2 DEF Goto
  <1>3. CASE pc # "out"
    <2> DEFINE r == call[t]
               s == [pc |-> pc, level |-> r.level, backup |-> r.backup, piece |-> r.piece,
                     index |-> r.index, event |-> r.event]
    <2>1. r \in Calls
      OBVIOUS
    <2>2. [r EXCEPT !.pc = pc] = s
      BY <2>1 DEF Calls
    <2>3. call' = [call EXCEPT ![t] = s]
      BY <1>3, <2>2 DEF Goto
    <2>4. s \in Calls
      BY <2>1 DEF Calls
    <2> QED  BY <1>3, <2>3, <2>4
  <1> QED  BY <1>2, <1>3

(* A thread that starts to log.                                              *)
LEMMA LogFacts ==
    ASSUME call \in [Caller -> Calls], NEW t \in Caller, NEW level \in Int,
           NEW backup \in BOOLEAN, Log(t, level, backup)
    PROVE  /\ call' \in [Caller -> Calls]
           /\ Quiet(t) /\ call'[t].pc = "enter" /\ call'[t].piece = 1
           /\ \A u \in Caller \ {t} : call'[u] = call[u]
  <1> DEFINE p == [NoCall EXCEPT !.pc = "enter"]
             q == [p EXCEPT !.level = level]
             r == [q EXCEPT !.backup = backup]
  <1>1. NoCall \in Calls /\ NoCall.piece = 1
    BY DEF NoCall, Calls, Places, Log_Debug
  <1>2. p \in Calls /\ p.pc = "enter" /\ p.piece = 1
    BY <1>1 DEF Calls, Places
  <1> HIDE DEF p
  <1>3. q \in Calls /\ q.pc = "enter" /\ q.piece = 1
    BY <1>2 DEF Calls
  <1> HIDE DEF q
  <1>4. r \in Calls /\ r.pc = "enter" /\ r.piece = 1
    BY <1>3 DEF Calls
  <1>5. [NoCall EXCEPT !.pc = "enter", !.level = level, !.backup = backup] = r
    BY DEF NoCall, p, q
  <1>6. call' = [call EXCEPT ![t] = r] /\ Quiet(t)
    BY <1>5 DEF Log
  <1> HIDE DEF r
  <1> QED  BY <1>4, <1>6

-----------------------------------------------------------------------------
(* What the logger's variables see of a step: nothing, or the fault of a copy
   in HandleThread, a caller that begins, the end of the logger, or a step of
   one of its callers.                                                       *)
LoggerLeft ==
    /\ UNCHANGED <<m_eventnum, m_events, m_level, m_outputflag, m_terminalsync, m_filesync,
                   line, opened, heap, mallocs, call>>
    /\ fault' \in {fault, 118}

LoggerRest == <<m_eventnum, m_events, m_level, m_outputflag, m_terminalsync, m_filesync,
                line, opened, heap, mallocs, fault>>

Begins == \E t \in Caller, level \in Int, backup \in BOOLEAN : Log(t, level, backup)

AllIdle == own = Idle /\ \A w \in Worker : body[w] = "none"

LEMMA BeginsIntro ==
    ASSUME NEW t \in Caller, NEW level \in Int, NEW backup \in BOOLEAN,
           Log(t, level, backup)
    PROVE  Begins
  BY Zenon DEF Begins

LEMMA StepKinds ==
    ASSUME Next
    PROVE  \/ LoggerLeft
           \/ Begins /\ UNCHANGED LoggerRest
           \/ AllIdle /\ RuinLogger
           \/ \E t \in Caller : LogStep(t)
  <1> USE ThreadAssumption DEF ThreadAssumption
  <1>1. CASE StartKernel
    <2>1. Log_Debug \in Int /\ Owner \in Caller
      BY DEF Log_Debug
    <2>2. Log(Owner, Log_Debug, FALSE) /\ UNCHANGED LoggerRest
      BY <1>1 DEF StartKernel, LoggerRest
    <2>3. Begins
      BY <2>1, <2>2, BeginsIntro, Zenon
    <2> QED  BY <2>2, <2>3
  <1>2. CASE EndKernel
    BY <1>2 DEF EndKernel, AllIdle
  <1>3. ASSUME NEW w \in Worker, CreateThread(w) \/ HandleThread(w)
        PROVE  LoggerLeft
    BY <1>3 DEF CreateThread, HandleThread, loggerVars, LoggerLeft
  <1>4. ASSUME NEW w \in Worker, OwnerStep(w)
        PROVE  LoggerLeft \/ (Begins /\ UNCHANGED LoggerRest)
    <2>1. CASE Created(w)
      <3>1. Log_Debug \in Int /\ Log_Error \in Int /\ Owner \in Caller
        BY DEF Log_Debug, Log_Error
      <3>2. Log(Owner, Log_Debug, FALSE) \/ Log(Owner, Log_Error, FALSE)
        BY <2>1, Zenon DEF Created
      <3>3. UNCHANGED LoggerRest
        BY <2>1 DEF Created, LoggerRest
      <3>4. Begins
        BY <3>1, <3>2, BeginsIntro, Zenon
      <3> QED  BY <3>3, <3>4
    <2>2. CASE \/ PthreadCreate(w) \/ CreateReturns(w)
               \/ HandleWait(w) \/ Join(w) \/ JoinCopy(w) \/ HandleReturn(w)
      BY <2>2 DEF PthreadCreate, CreateReturns, HandleWait, Join, JoinCopy, HandleReturn,
                  loggerVars, LoggerLeft
    <2> QED  BY <1>4, <2>1, <2>2 DEF OwnerStep
  <1>5. ASSUME NEW w \in Worker, BodyStep(w)
        PROVE  LoggerLeft \/ (Begins /\ UNCHANGED LoggerRest)
    <2>1. CASE RunStart(w)
      <3>1. Log_Debug \in Int /\ w \in Caller
        BY DEF Log_Debug
      <3>2. Log(w, Log_Debug, FALSE) /\ UNCHANGED LoggerRest
        BY <2>1 DEF RunStart, LoggerRest
      <3>3. Begins
        BY <3>1, <3>2, BeginsIntro, Zenon
      <3> QED  BY <3>2, <3>3
    <2>2. CASE FunctionLogs(w)
      <3> DEFINE archives == w \in Archiver
      <3>1. Log_Error \in Int /\ w \in Caller /\ archives \in BOOLEAN
        BY DEF Log_Error
      <3>2. Log(w, Log_Error, archives)
        BY <2>2, Zenon DEF FunctionLogs
      <3>3. UNCHANGED LoggerRest
        BY <2>2 DEF FunctionLogs, LoggerRest
      <3> HIDE DEF archives
      <3>4. Begins
        BY <3>1, <3>2, BeginsIntro, Zenon
      <3> QED  BY <3>3, <3>4
    <2>3. CASE \/ CallFunction(w) \/ FunctionReturns(w)
               \/ ExitThread(w) \/ RunClear(w) \/ RunEnd(w)
      BY <2>3 DEF CallFunction, FunctionReturns, ExitThread, RunClear, RunEnd,
                  loggerVars, LoggerLeft
    <2> QED  BY <1>5, <2>1, <2>2, <2>3 DEF BodyStep
  <1>6. CASE CreateReturns(Owner)
    BY <1>6 DEF CreateReturns, loggerVars, LoggerLeft
  <1>7. ASSUME NEW t \in Caller, LogNext(t) PROVE LogStep(t)
    BY <1>7 DEF LogNext
  <1> QED  BY <1>1, <1>2, <1>3, <1>4, <1>5, <1>6, <1>7 DEF Next, OwnerCalls

(* The objects keep their types, and the owner its semaphore.                *)
LEMMA ObjectsKept ==
    ASSUME ObjectTypes, Next
    PROVE  ObjectTypes'
  <1> USE ThreadAssumption DEF ThreadAssumption, ObjectTypes, OwnerPlaces, Bodies,
          OwnerAt, OwnerGoto, BodyGoto, Status, Idle
  <1>1. CASE StartKernel
    BY <1>1 DEF StartKernel
  <1>2. CASE EndKernel
    BY <1>2 DEF EndKernel
  <1>3. ASSUME NEW w \in Worker, CreateThread(w) PROVE ObjectTypes'
    BY <1>3 DEF CreateThread
  <1>4. ASSUME NEW w \in Worker, HandleThread(w) PROVE ObjectTypes'
    BY <1>4 DEF HandleThread
  <1>5. ASSUME NEW w \in Worker, PthreadCreate(w) PROVE ObjectTypes'
    BY <1>5 DEF PthreadCreate
  <1>6. ASSUME NEW w \in Worker, Created(w) PROVE ObjectTypes'
    BY <1>6 DEF Created
  <1>7. ASSUME NEW w \in Caller, CreateReturns(w) PROVE ObjectTypes'
    BY <1>7 DEF CreateReturns
  <1>8. ASSUME NEW w \in Worker, HandleWait(w) PROVE ObjectTypes'
    BY <1>8 DEF HandleWait
  <1>9. ASSUME NEW w \in Worker, Join(w) PROVE ObjectTypes'
    BY <1>9 DEF Join
  <1>10. ASSUME NEW w \in Worker, HandleReturn(w) PROVE ObjectTypes'
    <2>1. m_semaphore[w] = 0 /\ own = [pc |-> "post", w |-> w] /\ w \in Caller
      BY <1>10 DEF HandleReturn
    <2>2. m_semaphore' = [m_semaphore EXCEPT ![w] = 1]
      BY <1>10, <2>1 DEF HandleReturn
    <2>3. own' = [pc |-> "idle", w |-> Owner]
      BY <1>10 DEF HandleReturn
    <2> QED  BY <1>10, <2>2, <2>3 DEF HandleReturn
  <1>11. ASSUME NEW w \in Worker, RunStart(w) PROVE ObjectTypes'
    BY <1>11 DEF RunStart
  <1>12. ASSUME NEW w \in Worker, CallFunction(w) PROVE ObjectTypes'
    <2>1. /\ runs' \in {runs, [runs EXCEPT ![w] = runs[w] + 1]}
          /\ body' \in {[body EXCEPT ![w] = "func"], [body EXCEPT ![w] = "back"]}
          /\ UNCHANGED <<m_status, m_semaphore, m_task, func, own, creates>>
      BY <1>12 DEF CallFunction
    <2>2. runs' \in [Worker -> Nat]
      <3>1. runs \in [Worker -> Nat] /\ runs[w] + 1 \in Nat
        OBVIOUS
      <3> QED  BY <2>1, <3>1
    <2>3. body' \in [Worker -> Bodies]
      BY <2>1
    <2> QED  BY <2>1, <2>2, <2>3
  <1>13. ASSUME NEW w \in Worker, FunctionLogs(w) PROVE ObjectTypes'
    BY <1>13 DEF FunctionLogs
  <1>14. ASSUME NEW w \in Worker, FunctionReturns(w) PROVE ObjectTypes'
    BY <1>14 DEF FunctionReturns
  <1>15. ASSUME NEW w \in Worker, ExitThread(w) PROVE ObjectTypes'
    BY <1>15 DEF ExitThread
  <1>16. ASSUME NEW w \in Worker, RunClear(w) PROVE ObjectTypes'
    BY <1>16 DEF RunClear
  <1>17. ASSUME NEW w \in Worker, RunEnd(w) PROVE ObjectTypes'
    <2>1. func[w] \in BOOLEAN
      OBVIOUS
    <2> DEFINE Tasks == [Worker -> [IsCycle : BOOLEAN, function : BOOLEAN]]
    <2>2. /\ m_task \in Tasks
          /\ \A b \in BOOLEAN : [m_task EXCEPT ![w].function = b] \in Tasks
      OBVIOUS
    <2>3. m_task' = m_task \/ m_task' = [m_task EXCEPT ![w].function = func[w]]
      BY <1>17 DEF RunEnd
    <2> HIDE DEF Tasks
    <2>4. m_task' \in Tasks
      <3> HIDE DEF ObjectTypes
      <3> QED  BY <2>1, <2>2, <2>3, Zenon
    <2>5. m_status' \in [Worker -> {"INIT", "READY", "RUNNING", "FREE", "TERMINATE"}]
      BY <1>17 DEF RunEnd
    <2> QED  BY <1>17, <2>4, <2>5 DEF RunEnd, Tasks
  <1>19. ASSUME NEW w \in Worker, JoinCopy(w) PROVE ObjectTypes'
    BY <1>19 DEF JoinCopy
  <1>18. ASSUME NEW t \in Caller, LogNext(t) PROVE ObjectTypes'
    BY <1>18 DEF LogNext, threadVars
  <1> QED  BY <1>1, <1>2, <1>3, <1>4, <1>5, <1>6, <1>7, <1>8, <1>9, <1>10, <1>11,
              <1>12, <1>13, <1>14, <1>15, <1>16, <1>17, <1>18, <1>19
           DEF Next, OwnerCalls, OwnerStep, BodyStep

(* The status follows the body.                                              *)
LEMMA StatusKept ==
    ASSUME ObjectTypes, StatusFollows, Next
    PROVE  StatusFollows'
  <1> USE ThreadAssumption DEF ThreadAssumption, ObjectTypes, StatusFollows, OwnerPlaces, Bodies,
          OwnerAt, OwnerGoto, BodyGoto, Status, Idle
  <1>1. CASE StartKernel
    BY <1>1 DEF StartKernel
  <1>2. CASE EndKernel
    BY <1>2 DEF EndKernel
  <1>3. ASSUME NEW w \in Worker, CreateThread(w) PROVE StatusFollows'
    BY <1>3 DEF CreateThread
  <1>4. ASSUME NEW w \in Worker, HandleThread(w) PROVE StatusFollows'
    BY <1>4 DEF HandleThread
  <1>5. ASSUME NEW w \in Worker, PthreadCreate(w) PROVE StatusFollows'
    <2> SUFFICES ASSUME NEW v \in Worker PROVE StatusFollows!(v)'
      BY DEF StatusFollows
    <2>1. body[w] = "none" /\ m_status[w] = "INIT" /\ m_status' = m_status
      BY <1>5 DEF PthreadCreate
    <2>2. CASE body' = [body EXCEPT ![w] = "start"] /\ own' = [pc |-> "ready", w |-> w]
      BY <2>1, <2>2
    <2>3. CASE body' = body /\ own' = [pc |-> "terminate", w |-> w]
      BY <2>1, <2>3
    <2> QED  BY <1>5, <2>2, <2>3 DEF PthreadCreate
  <1>6. ASSUME NEW w \in Worker, Created(w) PROVE StatusFollows'
    BY <1>6 DEF Created
  <1>7. ASSUME NEW w \in Caller, CreateReturns(w) PROVE StatusFollows'
    BY <1>7 DEF CreateReturns
  <1>8. ASSUME NEW w \in Worker, HandleWait(w) PROVE StatusFollows'
    <2>1. own'.pc \in {"join", "joincopy"} /\ UNCHANGED <<m_status, body>>
      BY <1>8 DEF HandleWait
    <2> QED  BY <2>1
  <1>9. ASSUME NEW w \in Worker, Join(w) PROVE StatusFollows'
    BY <1>9 DEF Join
  <1>10. ASSUME NEW w \in Worker, HandleReturn(w) PROVE StatusFollows'
    BY <1>10 DEF HandleReturn
  <1>11. ASSUME NEW w \in Worker, RunStart(w) PROVE StatusFollows'
    BY <1>11 DEF RunStart
  <1>12. ASSUME NEW w \in Worker, CallFunction(w) PROVE StatusFollows'
    BY <1>12 DEF CallFunction
  <1>13. ASSUME NEW w \in Worker, FunctionLogs(w) PROVE StatusFollows'
    BY <1>13 DEF FunctionLogs
  <1>14. ASSUME NEW w \in Worker, FunctionReturns(w) PROVE StatusFollows'
    BY <1>14 DEF FunctionReturns
  <1>15. ASSUME NEW w \in Worker, ExitThread(w) PROVE StatusFollows'
    BY <1>15 DEF ExitThread
  <1>16. ASSUME NEW w \in Worker, RunClear(w) PROVE StatusFollows'
    BY <1>16 DEF RunClear
  <1>17. ASSUME NEW w \in Worker, RunEnd(w) PROVE StatusFollows'
    BY <1>17 DEF RunEnd
  <1>19. ASSUME NEW w \in Worker, JoinCopy(w) PROVE StatusFollows'
    BY <1>19 DEF JoinCopy
  <1>18. ASSUME NEW t \in Caller, LogNext(t) PROVE StatusFollows'
    BY <1>18 DEF LogNext, threadVars
  <1> QED  BY <1>1, <1>2, <1>3, <1>4, <1>5, <1>6, <1>7, <1>8, <1>9, <1>10, <1>11,
              <1>12, <1>13, <1>14, <1>15, <1>16, <1>17, <1>18, <1>19
           DEF Next, OwnerCalls, OwnerStep, BodyStep

(* A task that is not a cycle runs once.                                     *)
LEMMA RunsKept ==
    ASSUME ObjectTypes, StatusFollows, RunsCounted, Next
    PROVE  RunsCounted'
  <1> USE ThreadAssumption DEF ThreadAssumption, ObjectTypes, RunsCounted, RanOnce, OwnerPlaces, Bodies,
          OwnerAt, OwnerGoto, BodyGoto, Status, Idle
  <1>1. CASE StartKernel
    BY <1>1 DEF StartKernel
  <1>2. CASE EndKernel
    BY <1>2 DEF EndKernel
  <1>3. ASSUME NEW w \in Worker, CreateThread(w) PROVE RunsCounted'
    BY <1>3 DEF CreateThread
  <1>4. ASSUME NEW w \in Worker, HandleThread(w) PROVE RunsCounted'
    BY <1>4 DEF HandleThread
  <1>5. ASSUME NEW w \in Worker, PthreadCreate(w) PROVE RunsCounted'
    <2> SUFFICES ASSUME NEW v \in Worker PROVE RunsCounted!(v)'
      BY DEF RunsCounted
    <2>1. body[w] = "none" /\ UNCHANGED <<m_semaphore, m_task, func, runs>>
      BY <1>5 DEF PthreadCreate, StatusFollows
    <2>2. CASE body' = [body EXCEPT ![w] = "start"] /\ own' = [pc |-> "ready", w |-> w]
      BY <2>1, <2>2
    <2>3. CASE body' = body /\ own' = [pc |-> "terminate", w |-> w]
      BY <2>1, <2>3
    <2> QED  BY <1>5, <2>2, <2>3 DEF PthreadCreate
  <1>6. ASSUME NEW w \in Worker, Created(w) PROVE RunsCounted'
    BY <1>6 DEF Created
  <1>7. ASSUME NEW w \in Caller, CreateReturns(w) PROVE RunsCounted'
    BY <1>7 DEF CreateReturns
  <1>8. ASSUME NEW w \in Worker, HandleWait(w) PROVE RunsCounted'
    <2> SUFFICES ASSUME NEW v \in Worker PROVE RunsCounted!(v)'
      BY DEF RunsCounted
    <2>1. m_semaphore[w] = 1 /\ m_semaphore[w] - 1 = 0
      BY <1>8 DEF HandleWait
    <2>2. m_semaphore' = [m_semaphore EXCEPT ![w] = 0]
      BY <1>8, <2>1 DEF HandleWait
    <2>3. own' \in {[pc |-> "join", w |-> w], [pc |-> "joincopy", w |-> w]}
          /\ UNCHANGED <<m_task, body, func, runs>>
      BY <1>8 DEF HandleWait
    <2> QED  BY <2>1, <2>2, <2>3
  <1>9. ASSUME NEW w \in Worker, Join(w) PROVE RunsCounted'
    BY <1>9 DEF Join
  <1>10. ASSUME NEW w \in Worker, HandleReturn(w) PROVE RunsCounted'
    BY <1>10 DEF HandleReturn
  <1>11. ASSUME NEW w \in Worker, RunStart(w) PROVE RunsCounted'
    BY <1>11 DEF RunStart
  <1>12. ASSUME NEW w \in Worker, CallFunction(w) PROVE RunsCounted'
    BY <1>12 DEF CallFunction
  <1>13. ASSUME NEW w \in Worker, FunctionLogs(w) PROVE RunsCounted'
    BY <1>13 DEF FunctionLogs
  <1>14. ASSUME NEW w \in Worker, FunctionReturns(w) PROVE RunsCounted'
    BY <1>14 DEF FunctionReturns
  <1>15. ASSUME NEW w \in Worker, ExitThread(w) PROVE RunsCounted'
    BY <1>15 DEF ExitThread
  <1>16. ASSUME NEW w \in Worker, RunClear(w) PROVE RunsCounted'
    BY <1>16 DEF RunClear
  <1>17. ASSUME NEW w \in Worker, RunEnd(w) PROVE RunsCounted'
    BY <1>17 DEF RunEnd
  <1>19. ASSUME NEW w \in Worker, JoinCopy(w) PROVE RunsCounted'
    BY <1>19 DEF JoinCopy
  <1>18. ASSUME NEW t \in Caller, LogNext(t) PROVE RunsCounted'
    BY <1>18 DEF LogNext, threadVars
  <1> QED  BY <1>1, <1>2, <1>3, <1>4, <1>5, <1>6, <1>7, <1>8, <1>9, <1>10, <1>11,
              <1>12, <1>13, <1>14, <1>15, <1>16, <1>17, <1>18, <1>19
           DEF Next, OwnerCalls, OwnerStep, BodyStep

-----------------------------------------------------------------------------
(* What a step of a caller does to its call: where it was and where it goes,
   and what becomes of the fields the invariant speaks of.                   *)
CallMoved(t, from, to) ==
    /\ call' \in [Caller -> Calls]
    /\ \A u \in Caller \ {t} : call'[u] = call[u]
    /\ call[t].pc = from /\ call'[t].pc = to
    /\ to = "out" => call'[t].piece = 1

LEMMA GotoMoves ==
    ASSUME call \in [Caller -> Calls], NEW t \in Caller, NEW pc \in Places, Goto(t, pc)
    PROVE  /\ CallMoved(t, call[t].pc, pc)
           /\ pc # "out" => /\ call'[t].piece = call[t].piece
                            /\ call'[t].index = call[t].index
                            /\ call'[t].event = call[t].event
  BY GotoFacts DEF CallMoved, NoCall

LEMMA LogLoggerMoves ==
    ASSUME CallsLinked, NEW t \in Caller, LogLogger(t)
    PROVE  /\ \/ CallMoved(t, "enter", "out")
              \/ CallMoved(t, "enter", "lock") /\ call'[t].piece = call[t].piece
              \/ CallMoved(t, "enter", "open")
  <1> USE ThreadAssumption DEF ThreadAssumption, CallsLinked
  <1>1. m_outputflag # "Unspecified" /\ call[t].pc = "enter"
    BY DEF LogLogger, Quiet
  <1>2. AppenderWays["Terminal"] = "lock" /\ AppenderWays["File"] = "open"
    BY DEF AppenderWays
  <1>3. CASE Goto(t, "out")
    BY <1>1, <1>3, GotoMoves DEF Places
  <1>4. CASE Goto(t, "lock")
    BY <1>1, <1>4, GotoMoves DEF Places
  <1>5. CASE Goto(t, "open")
    BY <1>1, <1>5, GotoMoves DEF Places
  <1> QED  BY <1>1, <1>2, <1>3, <1>4, <1>5 DEF LogLogger

LEMMA AppendedMoves ==
    ASSUME CallsLinked, NEW t \in Caller, Appended(t)
    PROVE  CallMoved(t, call[t].pc, "index") \/ CallMoved(t, call[t].pc, "out")
  <1>1. CASE Goto(t, "index")
    BY <1>1, GotoMoves DEF Places, CallsLinked
  <1>2. CASE Goto(t, "out")
    BY <1>2, GotoMoves DEF Places, CallsLinked
  <1> QED  BY <1>1, <1>2 DEF Appended

LEMMA LoadIndexMoves ==
    ASSUME CallsLinked, m_eventnum \in Nat, NEW t \in Caller, LoadIndex(t)
    PROVE  /\ \/ CallMoved(t, "index", "store")
              \/ CallMoved(t, "again", "check")
              \/ CallMoved(t, "third", "take")
           /\ call'[t].index = m_eventnum
           /\ call'[t].event = call[t].event
  <1>1. AtUse["index"] = "store" /\ AtUse["again"] = "check" /\ AtUse["third"] = "take"
    BY DEF AtUse
  <1>2. call[t].pc \in {"index", "again", "third"}
    BY DEF LoadIndex, AtUse
  <1>3. AtUse[call[t].pc] \in {"store", "check", "take"}
    BY <1>1, <1>2
  <1> DEFINE pc == AtUse[call[t].pc]
             c == call[t]
             q == [c EXCEPT !.index = m_eventnum]
             r == [q EXCEPT !.pc = pc]
  <1>4. pc \in Places
    BY <1>3 DEF Places
  <1>5. call' = [call EXCEPT ![t] = r]
    BY DEF LoadIndex, CallsLinked
  <1>6. call \in [Caller -> Calls] /\ c \in Calls
    BY DEF CallsLinked
  <1> HIDE DEF pc
  <1>7. q \in Calls /\ q.index = m_eventnum /\ q.event = c.event
    <2> HIDE DEF c
    <2> QED  BY <1>6 DEF Calls
  <1>8. r \in Calls /\ r.pc = pc /\ r.index = m_eventnum /\ r.event = c.event
    <2> HIDE DEF c, q
    <2> QED  BY <1>4, <1>7 DEF Calls
  <1> HIDE DEF q, r
  <1>9. /\ call' \in [Caller -> Calls]
        /\ call'[t].pc = pc /\ call'[t].index = m_eventnum
        /\ call'[t].event = call[t].event
        /\ \A u \in Caller \ {t} : call'[u] = call[u]
    BY <1>5, <1>6, <1>8
  <1> QED  BY <1>1, <1>2, <1>9 DEF pc, CallMoved

LEMMA KeepEventMoves ==
    ASSUME CallsLinked, NEW t \in Caller, NEW k \in Nat, NEW pc \in Places \ {"out"},
           KeepEvent(t, k, pc)
    PROVE  CallMoved(t, call[t].pc, pc) /\ call'[t].event = k
  <1> DEFINE c == call[t]
             q == [c EXCEPT !.event = k]
             r == [q EXCEPT !.pc = pc]
  <1>1. call \in [Caller -> Calls] /\ c \in Calls
    BY DEF CallsLinked
  <1>2. call' = [call EXCEPT ![t] = r]
    BY <1>1 DEF KeepEvent
  <1>3. q \in Calls /\ q.event = k
    <2> HIDE DEF c
    <2> QED  BY <1>1 DEF Calls
  <1>4. r \in Calls /\ r.pc = pc /\ r.event = k
    <2> HIDE DEF c, q
    <2> QED  BY <1>3 DEF Calls
  <1> HIDE DEF q, r
  <1> QED  BY <1>1, <1>2, <1>4 DEF CallMoved

LEMMA UseSlotMoves ==
    ASSUME CallsLinked, EventsCovered, NEW t \in Caller, NEW pc, NEW next \in Places \ {"out"},
           NEW at \in {121, 123}, UseSlot(t, pc, next, at)
    PROVE  \/ CallMoved(t, pc, next) /\ call'[t].event \in heap /\ fault' = fault
           \/ UNCHANGED call /\ fault' # 130
  <1>1. CASE call[t].index \in Slot /\ m_events[call[t].index] # Nobody
    <2> DEFINE k == m_events[call[t].index]
    <2>1. /\ m_events \in [Slot -> heap \cup {Nobody}]
          /\ mallocs \in Nat /\ heap \subseteq 0 .. mallocs - 1
      BY DEF EventsCovered
    <2>2. k \in heap
      BY <1>1, <2>1
    <2>3. KeepEvent(t, k, next) /\ fault' = fault /\ call[t].pc = pc
      BY <1>1 DEF UseSlot
    <2> HIDE DEF k
    <2>4. k \in Nat
      BY <2>1, <2>2
    <2> QED  BY <2>2, <2>3, <2>4, KeepEventMoves
  <1>2. CASE ~(call[t].index \in Slot /\ m_events[call[t].index] # Nobody)
    BY <1>2 DEF UseSlot
  <1> QED  BY <1>1, <1>2

LEMMA TerminalPrintMoves ==
    ASSUME CallsLinked, TerminalHeld, NEW t \in Caller, TerminalPrint(t)
    PROVE  /\ call[t].piece \in 1 .. 4
           /\ \/ call[t].piece < 4 /\ CallMoved(t, "print", "print")
              \/ call[t].piece = 4 /\ CallMoved(t, "print", "unlock")
           /\ call'[t].piece = call[t].piece + 1
  <1> DEFINE c == call[t]
             pc == IF c.piece = 4 THEN "unlock" ELSE "print"
             k == c.piece + 1
             q == [c EXCEPT !.piece = k]
             r == [q EXCEPT !.pc = pc]
  <1>1. call \in [Caller -> Calls] /\ c \in Calls
    BY DEF CallsLinked
  <1>2. c.pc = "print" /\ c.piece \in 1 .. 4
    BY DEF TerminalPrint, TerminalHeld
  <1>3. Len(Pieces) = 4
    BY DEF Pieces
  <1>4. call' = [call EXCEPT ![t].piece = k, ![t].pc = pc]
    BY <1>3 DEF TerminalPrint
  <1>5. k \in 1 .. 5 /\ pc \in Places
    BY <1>2 DEF Places
  <1> HIDE DEF pc, k
  <1>6. call' = [call EXCEPT ![t] = r]
    BY <1>1, <1>4
  <1>7. q \in Calls /\ q.piece = k
    <2> HIDE DEF c
    <2> QED  BY <1>1, <1>5 DEF Calls
  <1>8. r \in Calls /\ r.pc = pc /\ r.piece = k
    <2> HIDE DEF c, q
    <2> QED  BY <1>5, <1>7 DEF Calls
  <1> HIDE DEF q, r
  <1>9. /\ call' \in [Caller -> Calls]
        /\ call'[t].pc = pc /\ call'[t].piece = k
        /\ \A u \in Caller \ {t} : call'[u] = call[u]
    BY <1>1, <1>6, <1>8
  <1> QED  BY <1>2, <1>9 DEF pc, k, CallMoved
-----------------------------------------------------------------------------
(* Every step of a caller moves it, or ends the process.                     *)
LEMMA LogStepMoves ==
    ASSUME CallsLinked, TerminalHeld, EventsCovered, NEW t \in Caller, LogStep(t)
    PROVE  /\ ~Quiet(t)
           /\ call' \in [Caller -> Calls]
           /\ \A u \in Caller \ {t} : call'[u] = call[u]
           /\ m_outputflag' = m_outputflag
  <1>1. CASE LogLogger(t)
    BY <1>1, LogLoggerMoves DEF CallMoved, Quiet, LogLogger
  <1>2. CASE TerminalLock(t)
    BY <1>2, GotoMoves DEF CallMoved, Quiet, TerminalLock, Places, CallsLinked
  <1>3. CASE TerminalPrint(t)
    BY <1>3, TerminalPrintMoves DEF CallMoved, Quiet, TerminalPrint
  <1>4. CASE TerminalUnlock(t)
    BY <1>4, AppendedMoves DEF CallMoved, Quiet, TerminalUnlock
  <1>5. CASE FileOpen(t)
    BY <1>5, GotoMoves DEF CallMoved, Quiet, FileOpen, Places, CallsLinked
  <1>6. CASE FileLock(t)
    BY <1>6, GotoMoves DEF CallMoved, Quiet, FileLock, Places, CallsLinked
  <1>7. CASE FileWrite(t)
    BY <1>7, AppendedMoves DEF CallMoved, Quiet, FileWrite
  <1>8. CASE LoadIndex(t)
    BY <1>8, LoadIndexMoves DEF CallMoved, Quiet, LoadIndex, EventsCovered
  <1>9. CASE StoreEvent(t)
    BY <1>9, GotoMoves DEF CallMoved, Quiet, StoreEvent, Places, CallsLinked
  <1>10. CASE CheckEvent(t)
    <2>1. call[t].pc = "check" /\ m_outputflag' = m_outputflag
      BY <1>10 DEF CheckEvent, UseSlot
    <2> QED  BY <1>10, <2>1, UseSlotMoves DEF CallMoved, Quiet, CheckEvent, Places, CallsLinked
  <1>11. CASE TakeEvent(t)
    <2>1. call[t].pc = "take" /\ m_outputflag' = m_outputflag
      BY <1>11 DEF TakeEvent, UseSlot
    <2> QED  BY <1>11, <2>1, UseSlotMoves DEF CallMoved, Quiet, TakeEvent, Places, CallsLinked
  <1>12. CASE CountEvent(t)
    BY <1>12, GotoMoves DEF CallMoved, Quiet, CountEvent, Places, CallsLinked
  <1>13. CASE FillEvent(t)
    BY <1>13, GotoMoves DEF CallMoved, Quiet, FillEvent, Places, CallsLinked
  <1> QED  BY <1>1, <1>2, <1>3, <1>4, <1>5, <1>6, <1>7, <1>8, <1>9, <1>10, <1>11, <1>12,
              <1>13 DEF LogStep

(* Who is in a call stays where it logs, and the logger is ruined only after
   everybody.                                                                *)
LEMMA CallsKept ==
    ASSUME ObjectTypes, StatusFollows, CallsLinked, TerminalHeld, EventsCovered, Next
    PROVE  CallsLinked'
  <1> USE ThreadAssumption DEF ThreadAssumption, CallsLinked, ObjectTypes, Bodies, OwnerPlaces,
          OwnerAt, OwnerGoto, BodyGoto, Idle, Quiet
  <1>1. CASE StartKernel
    <2>1. own.pc = "boot" /\ own'.pc = "logging" /\ UNCHANGED <<body, m_outputflag>>
      BY <1>1 DEF StartKernel
    <2>2. Log(Owner, Log_Debug, FALSE)
      BY <1>1, Zenon DEF StartKernel
    <2>3. Log_Debug \in Int /\ Owner \in Caller
      BY DEF Log_Debug
    <2>4. /\ call' \in [Caller -> Calls]
          /\ \A u \in Caller \ {Owner} : call'[u] = call[u]
      BY <2>2, <2>3, LogFacts
    <2> QED  BY <2>1, <2>4
  <1>2. CASE EndKernel
    <2>1. CASE m_eventnum <= MaxLogEventNum /\ m_outputflag' = "Unspecified"
      BY <1>2, <2>1 DEF EndKernel, RuinLogger
    <2>2. CASE UNCHANGED m_outputflag
      BY <1>2, <2>2 DEF EndKernel, RuinLogger
    <2> QED  BY <1>2, <2>1, <2>2 DEF EndKernel, RuinLogger
  <1>3. ASSUME NEW w \in Worker, CreateThread(w) PROVE CallsLinked'
    BY <1>3 DEF CreateThread, loggerVars
  <1>4. ASSUME NEW w \in Worker, HandleThread(w) PROVE CallsLinked'
    BY <1>4 DEF HandleThread, loggerVars
  <1>5. ASSUME NEW w \in Worker, PthreadCreate(w) PROVE CallsLinked'
    <2>1. own.pc = "create" /\ own'.pc # "logging"
      BY <1>5 DEF PthreadCreate
    <2>2. UNCHANGED <<call, m_outputflag>>
      BY <1>5 DEF PthreadCreate, loggerVars
    <2>3. body[w] = "none" /\ Quiet(w)
      BY <1>5 DEF PthreadCreate, StatusFollows
    <2>4. body' = [body EXCEPT ![w] = "start"] \/ body' = body
      BY <1>5 DEF PthreadCreate
    <2> QED  BY <2>1, <2>2, <2>3, <2>4
  <1>6. ASSUME NEW w \in Worker, Created(w) PROVE CallsLinked'
    <2>1. own.pc # "end" /\ own'.pc = "logging" /\ body' = body /\ m_outputflag' = m_outputflag
      <3>1. own = [pc |-> "ready", w |-> w] \/ own = [pc |-> "terminate", w |-> w]
        BY <1>6, Zenon DEF Created
      <3>2. own' = [pc |-> "logging", w |-> w] /\ UNCHANGED <<body, m_outputflag>>
        BY <1>6, Zenon DEF Created
      <3> QED  BY <3>1, <3>2
    <2>2. Log(Owner, Log_Debug, FALSE) \/ Log(Owner, Log_Error, FALSE)
      BY <1>6, Zenon DEF Created
    <2>3. Log_Debug \in Int /\ Log_Error \in Int /\ Owner \in Caller
      BY DEF Log_Debug, Log_Error
    <2>4. /\ call' \in [Caller -> Calls]
          /\ \A u \in Caller \ {Owner} : call'[u] = call[u]
      BY <2>2, <2>3, LogFacts
    <2> QED  BY <2>1, <2>4
  <1>7. ASSUME NEW w \in Caller, CreateReturns(w) PROVE CallsLinked'
    BY <1>7 DEF CreateReturns, loggerVars
  <1>8. ASSUME NEW w \in Worker, HandleWait(w) PROVE CallsLinked'
    BY <1>8 DEF HandleWait, loggerVars
  <1>9. ASSUME NEW w \in Worker, Join(w) PROVE CallsLinked'
    BY <1>9 DEF Join, loggerVars
  <1>10. ASSUME NEW w \in Worker, HandleReturn(w) PROVE CallsLinked'
    BY <1>10 DEF HandleReturn, loggerVars
  <1>11. ASSUME NEW w \in Worker, RunStart(w) PROVE CallsLinked'
    <2>1. /\ body[w] # "none" /\ body' = [body EXCEPT ![w] = "logged"]
          /\ UNCHANGED <<own, m_outputflag>>
      BY <1>11 DEF RunStart
    <2>2. Log(w, Log_Debug, FALSE)
      BY <1>11, Zenon DEF RunStart
    <2>3. Log_Debug \in Int /\ w \in Caller /\ FALSE \in BOOLEAN
      BY DEF Log_Debug
    <2>4. /\ call' \in [Caller -> Calls]
          /\ \A u \in Caller \ {w} : call'[u] = call[u]
      BY <2>2, <2>3, LogFacts
    <2> QED  BY <2>1, <2>4
  <1>12. ASSUME NEW w \in Worker, CallFunction(w) PROVE CallsLinked'
    BY <1>12 DEF CallFunction, loggerVars
  <1>13. ASSUME NEW w \in Worker, FunctionLogs(w) PROVE CallsLinked'
    <2> DEFINE archives == w \in Archiver
    <2>1. /\ body[w] # "none" /\ body' = [body EXCEPT ![w] = "funclog"]
          /\ UNCHANGED <<own, m_outputflag>>
      BY <1>13 DEF FunctionLogs
    <2>2. Log(w, Log_Error, archives)
      BY <1>13, Zenon DEF FunctionLogs
    <2>3. Log_Error \in Int /\ w \in Caller /\ archives \in BOOLEAN
      BY DEF Log_Error
    <2> HIDE DEF archives
    <2>4. /\ call' \in [Caller -> Calls]
          /\ \A u \in Caller \ {w} : call'[u] = call[u]
      BY <2>2, <2>3, LogFacts
    <2> QED  BY <2>1, <2>4
  <1>14. ASSUME NEW w \in Worker, FunctionReturns(w) PROVE CallsLinked'
    BY <1>14 DEF FunctionReturns, loggerVars
  <1>15. ASSUME NEW w \in Worker, ExitThread(w) PROVE CallsLinked'
    BY <1>15 DEF ExitThread, loggerVars
  <1>16. ASSUME NEW w \in Worker, RunClear(w) PROVE CallsLinked'
    BY <1>16 DEF RunClear, loggerVars
  <1>17. ASSUME NEW w \in Worker, RunEnd(w) PROVE CallsLinked'
    BY <1>17 DEF RunEnd, loggerVars
  <1>19. ASSUME NEW w \in Worker, JoinCopy(w) PROVE CallsLinked'
    BY <1>19 DEF JoinCopy
  <1>18. ASSUME NEW t \in Caller, LogNext(t) PROVE CallsLinked'
    <2>1. LogStep(t) /\ UNCHANGED <<own, body>>
      BY <1>18 DEF LogNext, threadVars
    <2>2. /\ ~Quiet(t)
          /\ call' \in [Caller -> Calls]
          /\ \A u \in Caller \ {t} : call'[u] = call[u]
          /\ m_outputflag' = m_outputflag
      BY <2>1, LogStepMoves
    <2> QED  BY <2>1, <2>2
  <1> QED  BY <1>1, <1>2, <1>3, <1>4, <1>5, <1>6, <1>7, <1>8, <1>9, <1>10, <1>11,
              <1>12, <1>13, <1>14, <1>15, <1>16, <1>17, <1>18, <1>19
           DEF Next, OwnerCalls, OwnerStep, BodyStep

-----------------------------------------------------------------------------
(* With the owner idle and no body left, no call of the logger is under way. *)
LEMMA IdleIsQuiet ==
    ASSUME CallsLinked, AllIdle
    PROVE  \A t \in Caller : Quiet(t)
  BY ThreadAssumption DEF ThreadAssumption, CallsLinked, AllIdle, Idle

(* A step of t that is not about the terminal.                               *)
LEMMA AwayFromTerminal ==
    ASSUME TerminalHeld, NEW t \in Caller,
           \A u \in Caller \ {t} : call'[u] = call[u],
           call[t].pc # "print",
           call'[t].pc \notin {"print", "unlock"},
           call'[t].pc \in {"out", "enter", "lock"} => call'[t].piece = 1,
           UNCHANGED <<line, m_terminalsync>>
    PROVE  TerminalHeld'
  <1> USE DEF TerminalHeld
  <1>1. ASSUME NEW u \in Caller PROVE TerminalHeld!3!(u)'
    <2>1. CASE u = t
      BY <2>1
    <2>2. CASE u # t
      BY <2>2
    <2> QED  BY <2>1, <2>2
  <1>2. line' # <<>> => \E u \in Caller : call'[u].pc = "print"
    <2> SUFFICES ASSUME line' # <<>> PROVE \E u \in Caller : call'[u].pc = "print"
      OBVIOUS
    <2>1. PICK u \in Caller : call[u].pc = "print"
      OBVIOUS
    <2> QED  BY <2>1
  <1> QED  BY <1>1, <1>2

(* A step of a caller keeps the terminal.                                    *)
LEMMA TerminalStepKept ==
    ASSUME CallsLinked, TerminalHeld, EventsCovered, NEW t \in Caller, LogStep(t)
    PROVE  TerminalHeld'
  <1> DEFINE Away == /\ call[t].pc # "print"
                     /\ call'[t].pc \notin {"print", "unlock"}
                     /\ call'[t].pc \in {"out", "enter", "lock"} => call'[t].piece = 1
                     /\ UNCHANGED <<line, m_terminalsync>>
  <1>0. Away => TerminalHeld'
    BY LogStepMoves, AwayFromTerminal
  <1>a. call \in [Caller -> Calls] /\ Nobody \notin Caller
    BY LoggerAssumption DEF CallsLinked, LoggerAssumption
  <1>b. /\ \A u \in Caller \ {t} : call'[u] = call[u]
        /\ \A u \in Caller : call[u].pc \in {"print", "unlock"} => m_terminalsync = u
    BY LogStepMoves DEF TerminalHeld
  <1>1. CASE LogLogger(t)
    <2>1. call[t].piece = 1 /\ call[t].pc = "enter" /\ UNCHANGED <<line, m_terminalsync>>
      BY <1>1 DEF LogLogger, TerminalHeld
    <2> QED  BY <1>0, <1>1, <2>1, LogLoggerMoves DEF CallMoved
  <1>2. CASE TerminalLock(t)
    <2>1. /\ call[t].pc = "lock" /\ call[t].piece = 1 /\ m_terminalsync = Nobody
          /\ m_terminalsync' = t /\ line' = line
      BY <1>2 DEF TerminalLock, TerminalHeld
    <2>2. call'[t].pc = "print" /\ call'[t].piece = 1
      BY <1>2, <1>a, <2>1, GotoMoves DEF TerminalLock, CallMoved, Places
    <2>3. \A u \in Caller : call[u].pc \notin {"print", "unlock"}
      BY <1>a, <1>b, <2>1
    <2>4. line = <<>>
      BY <2>3 DEF TerminalHeld
    <2>5. ASSUME NEW u \in Caller PROVE TerminalHeld!3!(u)'
      <3>1. CASE u = t
        BY <2>1, <2>2, <2>4, <3>1
      <3>2. CASE u # t
        BY <1>b, <2>3, <3>2 DEF TerminalHeld
      <3> QED  BY <3>1, <3>2
    <2> QED  BY <2>1, <2>4, <2>5 DEF TerminalHeld
  <1>3. CASE TerminalPrint(t)
    <2> DEFINE k == call[t].piece
    <2>1. /\ k \in 1 .. 4 /\ call'[t].piece = k + 1
          /\ \/ k < 4 /\ call'[t].pc = "print"
             \/ k = 4 /\ call'[t].pc = "unlock"
          /\ call[t].pc = "print"
      BY <1>3, TerminalPrintMoves DEF CallMoved
    <2>2. m_terminalsync = t /\ m_terminalsync' = t
      BY <1>3, <1>b, <2>1 DEF TerminalPrint
    <2>3. \A u \in Caller \ {t} : call[u].pc \notin {"print", "unlock"}
      BY <1>b, <2>2
    <2>4. /\ line \in Seq(Caller \X PieceNames) /\ Len(line) = k - 1
          /\ \A i \in 1 .. Len(line) : line[i] = <<t, Pieces[i]>>
      BY <2>1 DEF TerminalHeld
    <2>5. Len(Pieces) = 4
      BY DEF Pieces
    <2>6. CASE k = 4
      <3>1. line' = <<>>
        BY <1>3, <2>5, <2>6 DEF TerminalPrint
      <3>2. ASSUME NEW u \in Caller PROVE TerminalHeld!3!(u)'
        <4>1. CASE u = t
          BY <2>1, <2>2, <2>6, <4>1
        <4>2. CASE u # t
          BY <1>b, <2>3, <4>2 DEF TerminalHeld
        <4> QED  BY <4>1, <4>2
      <3> QED  BY <2>2, <3>1, <3>2 DEF TerminalHeld
    <2>7. CASE k < 4
      <3>1. Pieces[k] \in PieceNames
        BY <2>1 DEF PieceNames
      <3>2. line' = Append(line, <<t, Pieces[k]>>)
        BY <1>3, <2>5, <2>7 DEF TerminalPrint
      <3> DEFINE e == <<t, Pieces[k]>>
      <3>3. e \in Caller \X PieceNames
        BY <3>1
      <3>4. /\ line' \in Seq(Caller \X PieceNames) /\ Len(line') = k
            /\ \A i \in 1 .. k : line'[i] = IF i = k THEN e ELSE line[i]
        <4> HIDE DEF e
        <4>1. line' = Append(line, e)
          BY <3>2 DEF e
        <4> QED  BY <2>1, <2>4, <3>3, <4>1
      <3>5. ASSUME NEW i \in 1 .. Len(line') PROVE line'[i] = <<t, Pieces[i]>>
        <4> HIDE DEF k
        <4>1. CASE i = k
          BY <3>4, <4>1
        <4>2. CASE i # k
          <5>1. i \in 1 .. Len(line)
            BY <2>1, <2>4, <3>4, <4>2
          <5>2. line'[i] = line[i]
            <6> HIDE DEF e
            <6> QED  BY <3>4, <4>2
          <5> QED  BY <2>4, <5>1, <5>2
        <4> QED  BY <4>1, <4>2
      <3>6. ASSUME NEW u \in Caller PROVE TerminalHeld!3!(u)'
        <4>1. CASE u = t
          BY <2>1, <2>2, <2>7, <3>4, <3>5, <4>1
        <4>2. CASE u # t
          BY <1>b, <2>3, <4>2 DEF TerminalHeld
        <4> QED  BY <4>1, <4>2
      <3> QED  BY <2>1, <2>2, <2>7, <3>4, <3>6 DEF TerminalHeld
    <2> QED  BY <2>1, <2>6, <2>7
  <1>4. CASE TerminalUnlock(t)
    <2>1. call[t].pc = "unlock" /\ m_terminalsync' = Nobody /\ line' = line
      BY <1>4 DEF TerminalUnlock
    <2>2. \A u \in Caller \ {t} : call[u].pc \notin {"print", "unlock"}
      BY <1>b, <2>1
    <2>3. call'[t].pc \in {"index", "out"} /\ (call'[t].pc = "out" => call'[t].piece = 1)
      BY <1>4, AppendedMoves DEF TerminalUnlock, CallMoved
    <2>4. ASSUME NEW u \in Caller PROVE TerminalHeld!3!(u)'
      <3>1. CASE u = t
        BY <2>3, <3>1
      <3>2. CASE u # t
        BY <1>b, <2>2, <3>2 DEF TerminalHeld
      <3> QED  BY <3>1, <3>2
    <2>5. line' = <<>>
      BY <2>1, <2>2 DEF TerminalHeld
    <2> QED  BY <2>1, <2>4, <2>5 DEF TerminalHeld
  <1>5. CASE FileOpen(t)
    <2>1. call[t].pc = "open" /\ UNCHANGED <<line, m_terminalsync>>
      BY <1>5 DEF FileOpen
    <2>2. Goto(t, "wrlock") \/ call' = call
      BY <1>5 DEF FileOpen
    <2> QED  BY <1>0, <1>a, <2>1, <2>2, GotoMoves DEF CallMoved, Places
  <1>6. CASE FileLock(t)
    <2>1. call[t].pc = "wrlock" /\ Goto(t, "write") /\ UNCHANGED <<line, m_terminalsync>>
      BY <1>6 DEF FileLock
    <2> QED  BY <1>0, <1>a, <2>1, GotoMoves DEF CallMoved, Places
  <1>7. CASE FileWrite(t)
    <2>1. call[t].pc = "write" /\ UNCHANGED <<line, m_terminalsync>>
      BY <1>7 DEF FileWrite
    <2> QED  BY <1>0, <1>7, <2>1, AppendedMoves DEF CallMoved, FileWrite
  <1>8. CASE LoadIndex(t)
    <2>1. UNCHANGED <<line, m_terminalsync>> /\ m_eventnum \in Nat
      BY <1>8 DEF LoadIndex, EventsCovered
    <2> QED  BY <1>0, <1>8, <2>1, LoadIndexMoves DEF CallMoved
  <1>9. CASE StoreEvent(t)
    <2>1. call[t].pc = "store" /\ UNCHANGED <<line, m_terminalsync>>
      BY <1>9 DEF StoreEvent
    <2>2. Goto(t, "again") \/ call' = call
      BY <1>9 DEF StoreEvent
    <2> QED  BY <1>0, <1>a, <2>1, <2>2, GotoMoves DEF CallMoved, Places
  <1>10. CASE CheckEvent(t)
    <2>1. call[t].pc = "check" /\ UNCHANGED <<line, m_terminalsync>>
      BY <1>10 DEF CheckEvent, UseSlot
    <2>2. CallMoved(t, "check", "third") \/ call' = call
      BY <1>10, UseSlotMoves DEF CheckEvent, Places
    <2> QED  BY <1>0, <2>1, <2>2 DEF CallMoved
  <1>11. CASE TakeEvent(t)
    <2>1. call[t].pc = "take" /\ UNCHANGED <<line, m_terminalsync>>
      BY <1>11 DEF TakeEvent, UseSlot
    <2>2. CallMoved(t, "take", "count") \/ call' = call
      BY <1>11, UseSlotMoves DEF TakeEvent, Places
    <2> QED  BY <1>0, <2>1, <2>2 DEF CallMoved
  <1>12. CASE CountEvent(t)
    <2>1. call[t].pc = "count" /\ Goto(t, "fill") /\ UNCHANGED <<line, m_terminalsync>>
      BY <1>12 DEF CountEvent
    <2> QED  BY <1>0, <1>a, <2>1, GotoMoves DEF CallMoved, Places
  <1>13. CASE FillEvent(t)
    <2>1. call[t].pc = "fill" /\ UNCHANGED <<line, m_terminalsync>>
      BY <1>13 DEF FillEvent
    <2>2. Goto(t, "out") \/ call' = call
      BY <1>13 DEF FillEvent
    <2> QED  BY <1>0, <1>a, <2>1, <2>2, GotoMoves DEF CallMoved, Places
  <1> QED  BY <1>1, <1>2, <1>3, <1>4, <1>5, <1>6, <1>7, <1>8, <1>9, <1>10, <1>11, <1>12,
              <1>13 DEF LogStep

(* So does every step.                                                       *)
LEMMA TerminalKept ==
    ASSUME CallsLinked, TerminalHeld, EventsCovered, Next
    PROVE  TerminalHeld'
  <1>1. CASE LoggerLeft
    BY <1>1 DEF LoggerLeft, TerminalHeld
  <1>2. CASE Begins /\ UNCHANGED LoggerRest
    <2>1. PICK t \in Caller, level \in Int, backup \in BOOLEAN : Log(t, level, backup)
      BY <1>2 DEF Begins
    <2>2. /\ call[t].pc = "out" /\ call'[t].pc = "enter" /\ call'[t].piece = 1
          /\ \A u \in Caller \ {t} : call'[u] = call[u]
      BY <2>1, LogFacts DEF CallsLinked, Quiet
    <2>3. UNCHANGED <<line, m_terminalsync>>
      BY <1>2 DEF LoggerRest
    <2> QED  BY <2>2, <2>3, AwayFromTerminal
  <1>3. CASE RuinLogger
    BY <1>3 DEF RuinLogger, TerminalHeld
  <1>4. ASSUME NEW t \in Caller, LogStep(t) PROVE TerminalHeld'
    BY <1>4, TerminalStepKept
  <1> QED  BY <1>1, <1>2, <1>3, <1>4, StepKinds

-----------------------------------------------------------------------------
(* A step of t that is not about the slots: it stores and counts nothing, and
   it neither was nor will be between the two.                               *)
LEMMA AwayFromSlots ==
    ASSUME EventsCovered, NEW t \in Caller,
           \A u \in Caller \ {t} : call'[u] = call[u],
           ~Uncounted(t), ~Uncounted(t)',
           call'[t].pc \notin {"store", "third", "take", "count", "fill"},
           UNCHANGED <<m_eventnum, m_events, heap, mallocs>>,
           fault' # 130
    PROVE  EventsCovered'
  <1> USE DEF EventsCovered, Uncounted
  <1>1. \A u \in Caller : call'[u].pc = "store" => call'[u].index <= m_eventnum'
    OBVIOUS
  <1>2. \A u \in Caller : call'[u].pc \in {"third", "take", "count", "fill"} =>
            call'[u].event \in heap'
    OBVIOUS
  <1>3. ASSUME NEW i \in Slot, m_events'[i] # Nobody
        PROVE  i < m_eventnum' \/ (i = m_eventnum' /\ \E u \in Caller : Uncounted(u)')
    <2>1. CASE i < m_eventnum
      BY <2>1
    <2>2. CASE i = m_eventnum /\ \E u \in Caller : Uncounted(u)
      <3>1. PICK u \in Caller : Uncounted(u)
        BY <2>2
      <3>2. Uncounted(u)'
        BY <3>1
      <3> QED  BY <2>2, <3>2
    <2> QED  BY <1>3, <2>1, <2>2
  <1> QED  BY <1>1, <1>2, <1>3

(* A step of t from one place between storing and counting to another.       *)
LEMMA BetweenSlots ==
    ASSUME EventsCovered, NEW t \in Caller,
           \A u \in Caller \ {t} : call'[u] = call[u],
           Uncounted(t)', call'[t].event \in heap \/ call'[t].pc = "check",
           UNCHANGED <<m_eventnum, m_events, heap, mallocs>>,
           fault' # 130
    PROVE  EventsCovered'
  <1> USE DEF EventsCovered, Uncounted
  <1>1. \A u \in Caller : call'[u].pc = "store" => call'[u].index <= m_eventnum'
    OBVIOUS
  <1>2. \A u \in Caller : call'[u].pc \in {"third", "take", "count", "fill"} =>
            call'[u].event \in heap'
    OBVIOUS
  <1>3. ASSUME NEW i \in Slot, m_events'[i] # Nobody
        PROVE  i < m_eventnum' \/ (i = m_eventnum' /\ \E u \in Caller : Uncounted(u)')
    BY <1>3
  <1> QED  BY <1>1, <1>2, <1>3

(* A step of a caller keeps the slots covered.                               *)
LEMMA EventsStepKept ==
    ASSUME CallsLinked, TerminalHeld, EventsCovered, NEW t \in Caller, LogStep(t)
    PROVE  EventsCovered'
  <1> DEFINE Slots == <<m_eventnum, m_events, heap, mallocs>>
             Away == /\ ~Uncounted(t) /\ ~Uncounted(t)'
                     /\ call'[t].pc \notin {"store", "third", "take", "count", "fill"}
                     /\ UNCHANGED Slots /\ fault' # 130
             Between == /\ Uncounted(t)' /\ (call'[t].event \in heap \/ call'[t].pc = "check")
                        /\ UNCHANGED Slots /\ fault' # 130
  <1>0. Away \/ Between => EventsCovered'
    BY LogStepMoves, AwayFromSlots, BetweenSlots
  <1>a. /\ call \in [Caller -> Calls] /\ Nobody \notin Nat
        /\ \A u \in Caller \ {t} : call'[u] = call[u]
        /\ m_eventnum \in Nat /\ mallocs \in Nat /\ fault # 130
    BY LogStepMoves, LoggerAssumption DEF CallsLinked, LoggerAssumption, EventsCovered
  <1>1. CASE LogLogger(t)
    <2>1. UNCHANGED Slots /\ fault' = fault
      BY <1>1 DEF LogLogger
    <2> QED  BY <1>0, <1>1, <1>a, <2>1, LogLoggerMoves DEF CallMoved, Uncounted
  <1>2. CASE TerminalLock(t)
    <2>1. UNCHANGED Slots /\ fault' = fault /\ call[t].pc = "lock" /\ Goto(t, "print")
      BY <1>2 DEF TerminalLock
    <2> QED  BY <1>0, <1>a, <2>1, GotoMoves DEF CallMoved, Uncounted, Places
  <1>3. CASE TerminalPrint(t)
    <2>1. UNCHANGED Slots /\ fault' = fault
      BY <1>3 DEF TerminalPrint
    <2> QED  BY <1>0, <1>3, <1>a, <2>1, TerminalPrintMoves DEF CallMoved, Uncounted
  <1>4. CASE TerminalUnlock(t)
    <2>1. UNCHANGED Slots /\ fault' = fault /\ call[t].pc = "unlock" /\ Appended(t)
      BY <1>4 DEF TerminalUnlock
    <2> QED  BY <1>0, <1>a, <2>1, AppendedMoves DEF CallMoved, Uncounted
  <1>5. CASE FileOpen(t)
    <2>1. UNCHANGED Slots /\ fault' \in {fault, 97} /\ call[t].pc = "open"
      BY <1>5 DEF FileOpen
    <2>2. Goto(t, "wrlock") \/ call' = call
      BY <1>5 DEF FileOpen
    <2> QED  BY <1>0, <1>a, <2>1, <2>2, GotoMoves DEF CallMoved, Uncounted, Places
  <1>6. CASE FileLock(t)
    <2>1. UNCHANGED Slots /\ fault' = fault /\ call[t].pc = "wrlock" /\ Goto(t, "write")
      BY <1>6 DEF FileLock
    <2> QED  BY <1>0, <1>a, <2>1, GotoMoves DEF CallMoved, Uncounted, Places
  <1>7. CASE FileWrite(t)
    <2>1. UNCHANGED Slots /\ fault' = fault /\ call[t].pc = "write" /\ Appended(t)
      BY <1>7 DEF FileWrite
    <2> QED  BY <1>0, <1>a, <2>1, AppendedMoves DEF CallMoved, Uncounted
  <1>8. CASE LoadIndex(t)
    <2>1. UNCHANGED Slots /\ fault' = fault
      BY <1>8 DEF LoadIndex
    <2>2. CASE CallMoved(t, "index", "store")
      <3>1. call'[t].index = m_eventnum
        BY <1>8, <1>a, LoadIndexMoves
      <3>2. \A u \in Caller : Uncounted(u) <=> Uncounted(u)'
        BY <1>a, <2>2 DEF CallMoved, Uncounted
      <3>3. /\ \A u \in Caller : call'[u].pc = "store" => call'[u].index <= m_eventnum'
            /\ \A u \in Caller : call'[u].pc \in {"third", "take", "count", "fill"} =>
                   call'[u].event \in heap'
        BY <1>a, <2>1, <2>2, <3>1 DEF CallMoved, EventsCovered
      <3> QED  BY <2>1, <3>2, <3>3 DEF EventsCovered
    <2>3. CASE CallMoved(t, "again", "check")
      BY <1>0, <1>a, <2>1, <2>3 DEF CallMoved, Uncounted
    <2>4. CASE CallMoved(t, "third", "take")
      <3>1. call'[t].event \in heap
        BY <1>8, <1>a, <2>4, LoadIndexMoves DEF CallMoved, EventsCovered
      <3> QED  BY <1>0, <1>a, <2>1, <2>4, <3>1 DEF CallMoved, Uncounted
    <2> QED  BY <1>8, <1>a, <2>2, <2>3, <2>4, LoadIndexMoves
  <1>9. CASE StoreEvent(t)
    <2> DEFINE i == call[t].index
    <2>1. call[t].pc = "store" /\ i <= m_eventnum /\ m_eventnum' = m_eventnum
      BY <1>9 DEF StoreEvent, EventsCovered
    <2>2. CASE i \in Slot
      <3>1. /\ m_events' = [m_events EXCEPT ![i] = mallocs]
            /\ heap' = heap \cup {mallocs} /\ mallocs' = mallocs + 1
            /\ Goto(t, "again") /\ fault' = fault
        BY <1>9, <2>2 DEF StoreEvent
      <3>2. CallMoved(t, "store", "again")
        BY <1>a, <2>1, <3>1, GotoMoves DEF Places
      <3>3. Uncounted(t)'
        BY <3>2 DEF CallMoved, Uncounted
      <3>4. /\ mallocs' \in Nat /\ heap' \subseteq 0 .. mallocs' - 1
            /\ m_events' \in [Slot -> heap' \cup {Nobody}]
        <4>1. mallocs' \in Nat /\ heap' \subseteq 0 .. mallocs' - 1
          <5> HIDE DEF i
          <5> QED  BY <1>a, <3>1 DEF EventsCovered
        <4>2. /\ m_events \in [Slot -> heap \cup {Nobody}]
              /\ heap \subseteq heap' /\ mallocs \in heap'
          BY <3>1 DEF EventsCovered
        <4> HIDE DEF i
        <4>3. m_events' \in [Slot -> heap' \cup {Nobody}]
          BY <3>1, <4>2
        <4> QED  BY <4>1, <4>3
      <3>5. /\ \A u \in Caller : call'[u].pc = "store" => call'[u].index <= m_eventnum'
            /\ \A u \in Caller : call'[u].pc \in {"third", "take", "count", "fill"} =>
                   call'[u].event \in heap'
        BY <1>a, <2>1, <3>1, <3>2 DEF CallMoved, EventsCovered
      <3>6. ASSUME NEW j \in Slot, m_events'[j] # Nobody
            PROVE  j < m_eventnum' \/ j = m_eventnum'
        BY <1>a, <2>1, <2>2, <3>1, <3>6 DEF EventsCovered, Slot
      <3> QED  BY <1>a, <2>1, <3>1, <3>3, <3>4, <3>5, <3>6 DEF EventsCovered
    <2>3. CASE i \notin Slot
      <3>1. UNCHANGED <<m_events, heap, mallocs, call>> /\ fault' = 120
        BY <1>9, <2>3 DEF StoreEvent
      <3> QED  BY <2>1, <3>1 DEF EventsCovered, Uncounted
    <2> QED  BY <2>2, <2>3
  <1>10. CASE CheckEvent(t)
    <2>1. UNCHANGED Slots /\ call[t].pc = "check"
      BY <1>10 DEF CheckEvent, UseSlot
    <2>2. CASE CallMoved(t, "check", "third") /\ call'[t].event \in heap /\ fault' = fault
      BY <1>0, <1>a, <2>1, <2>2 DEF CallMoved, Uncounted
    <2>3. CASE UNCHANGED call /\ fault' # 130
      BY <1>0, <1>a, <2>1, <2>3 DEF Uncounted
    <2> QED  BY <1>10, <2>2, <2>3, UseSlotMoves DEF CheckEvent, Places
  <1>11. CASE TakeEvent(t)
    <2>1. UNCHANGED Slots /\ call[t].pc = "take" /\ call[t].event \in heap
      BY <1>11 DEF TakeEvent, UseSlot, EventsCovered
    <2>2. CASE CallMoved(t, "take", "count") /\ call'[t].event \in heap /\ fault' = fault
      BY <1>0, <1>a, <2>1, <2>2 DEF CallMoved, Uncounted
    <2>3. CASE UNCHANGED call /\ fault' # 130
      BY <1>0, <1>a, <2>1, <2>3 DEF Uncounted
    <2> QED  BY <1>11, <2>2, <2>3, UseSlotMoves DEF TakeEvent, Places
  <1>12. CASE CountEvent(t)
    <2>1. /\ call[t].pc = "count" /\ Goto(t, "fill") /\ m_eventnum' = m_eventnum + 1
          /\ UNCHANGED <<m_events, heap, mallocs, fault>>
      BY <1>12 DEF CountEvent
    <2>2. CallMoved(t, "count", "fill") /\ call'[t].event = call[t].event
      BY <1>a, <2>1, GotoMoves DEF Places
    <2>3. /\ \A u \in Caller : call'[u].pc = "store" => call'[u].index <= m_eventnum'
          /\ \A u \in Caller : call'[u].pc \in {"third", "take", "count", "fill"} =>
                 call'[u].event \in heap'
      <3>1. \A u \in Caller : call[u].index \in Nat
        BY <1>a DEF Calls
      <3> QED  BY <1>a, <2>1, <2>2, <3>1 DEF CallMoved, EventsCovered
    <2>4. \A i \in Slot : m_events'[i] # Nobody => i < m_eventnum'
      BY <1>a, <2>1, LoggerAssumption DEF EventsCovered, Slot, LoggerAssumption
    <2> QED  BY <1>a, <2>1, <2>3, <2>4 DEF EventsCovered
  <1>13. CASE FillEvent(t)
    <2>1. call[t].pc = "fill" /\ call[t].event \in heap
      BY <1>13 DEF FillEvent, EventsCovered
    <2>2. Goto(t, "out") /\ fault' = fault /\ UNCHANGED Slots
      BY <1>13, <2>1 DEF FillEvent
    <2> QED  BY <1>0, <1>a, <2>1, <2>2, GotoMoves DEF CallMoved, Uncounted, Places
  <1> QED  BY <1>1, <1>2, <1>3, <1>4, <1>5, <1>6, <1>7, <1>8, <1>9, <1>10, <1>11, <1>12,
              <1>13 DEF LogStep

(* So does every step: RuinLogger finds nobody between storing and counting. *)
LEMMA EventsKept ==
    ASSUME CallsLinked, TerminalHeld, EventsCovered, Next
    PROVE  EventsCovered'
  <1>1. CASE LoggerLeft
    BY <1>1 DEF LoggerLeft, EventsCovered, Uncounted
  <1>2. CASE Begins /\ UNCHANGED LoggerRest
    <2>1. PICK t \in Caller, level \in Int, backup \in BOOLEAN : Log(t, level, backup)
      BY <1>2 DEF Begins
    <2>2. /\ call[t].pc = "out" /\ call'[t].pc = "enter"
          /\ \A u \in Caller \ {t} : call'[u] = call[u]
      BY <2>1, LogFacts DEF CallsLinked, Quiet
    <2>3. UNCHANGED <<m_eventnum, m_events, heap, mallocs>> /\ fault' # 130
      BY <1>2 DEF LoggerRest, EventsCovered
    <2> QED  BY <2>2, <2>3, AwayFromSlots DEF Uncounted
  <1>3. CASE AllIdle /\ RuinLogger
    <2>1. \A t \in Caller : call[t].pc = "out"
      BY <1>3, IdleIsQuiet DEF Quiet
    <2>2. \A i \in Slot : m_events[i] # Nobody => i < m_eventnum
      BY <2>1 DEF EventsCovered, Uncounted
    <2>3. call' = call /\ mallocs' = mallocs
      BY <1>3 DEF RuinLogger
    <2>4. CASE /\ m_events' = [i \in Slot |-> IF i < m_eventnum THEN Nobody ELSE m_events[i]]
               /\ heap' \subseteq heap /\ m_eventnum' = 0 /\ fault' = fault
      <3>1. \A i \in Slot : m_events'[i] = Nobody
        BY <2>2, <2>4
      <3>2. m_events' \in [Slot -> heap' \cup {Nobody}]
        <4>1. DOMAIN m_events' = Slot /\ m_events' = [i \in Slot |-> m_events'[i]]
          BY <2>4
        <4> QED  BY <3>1, <4>1
      <3> QED  BY <2>1, <2>3, <2>4, <3>1, <3>2 DEF EventsCovered
    <2>5. CASE UNCHANGED <<m_eventnum, m_events, heap>> /\ fault' = 144
      BY <2>1, <2>3, <2>5 DEF EventsCovered, Uncounted
    <2> QED  BY <1>3, <2>4, <2>5 DEF RuinLogger
  <1>4. ASSUME NEW t \in Caller, LogStep(t) PROVE EventsCovered'
    BY <1>4, EventsStepKept
  <1> QED  BY <1>1, <1>2, <1>3, <1>4, StepKinds

-----------------------------------------------------------------------------
(* The level, the lock of the file and the number of open files.             *)
LEMMA LoggerTypesKept ==
    ASSUME LoggerTypes, Next
    PROVE  LoggerTypes'
  <1> USE LoggerAssumption DEF LoggerTypes, LoggerAssumption
  <1>1. CASE LoggerLeft
    BY <1>1 DEF LoggerLeft
  <1>2. CASE UNCHANGED LoggerRest
    BY <1>2 DEF LoggerRest
  <1>3. CASE RuinLogger
    BY <1>3 DEF RuinLogger
  <1>4. ASSUME NEW t \in Caller, LogStep(t) PROVE LoggerTypes'
    <2>1. CASE LogLogger(t) \/ TerminalLock(t) \/ TerminalPrint(t) \/ TerminalUnlock(t)
      BY <2>1 DEF LogLogger, TerminalLock, TerminalPrint, TerminalUnlock
    <2>2. CASE FileOpen(t)
      BY <2>2 DEF FileOpen
    <2>3. CASE FileLock(t) \/ FileWrite(t)
      BY <2>3 DEF FileLock, FileWrite
    <2>4. CASE LoadIndex(t) \/ StoreEvent(t) \/ CountEvent(t) \/ FillEvent(t)
      BY <2>4 DEF LoadIndex, StoreEvent, CountEvent, FillEvent
    <2>5. CASE CheckEvent(t) \/ TakeEvent(t)
      BY <2>5 DEF CheckEvent, TakeEvent, UseSlot
    <2> QED  BY <1>4, <2>1, <2>2, <2>3, <2>4, <2>5 DEF LogStep
  <1> QED  BY <1>1, <1>2, <1>3, <1>4, StepKinds

(* A kernel starts in the invariant.                                         *)
LEMMA KernelStarts == Init => IInv
  <1> SUFFICES ASSUME Init PROVE IInv
    OBVIOUS
  <1>1. /\ ThreadInit
        /\ \E level \in {Log_Debug, Log_Error}, output \in {"Terminal", "File"} :
               InitLogger(level, output)
    BY DEF Init
  <1>2. PICK level \in {Log_Debug, Log_Error}, output \in {"Terminal", "File"} :
            InitLogger(level, output)
    BY <1>1
  <1>3. ObjectTypes /\ StatusFollows /\ RunsCounted
    BY <1>1, ThreadAssumption
    DEF ThreadInit, InitThread, ObjectTypes, StatusFollows, RunsCounted, RanOnce, Bodies,
        OwnerPlaces, OwnerAt, ThreadAssumption
  <1>4. /\ call = [t \in Caller |-> NoCall] /\ m_outputflag = output
        /\ line = <<>> /\ m_terminalsync = Nobody /\ m_filesync = Nobody
        /\ m_level = level /\ opened = 0
    BY <1>2 DEF InitLogger
  <1>5. NoCall \in Calls /\ NoCall.pc = "out" /\ NoCall.piece = 1
    BY DEF NoCall, Calls, Places, Log_Debug
  <1>6. CallsLinked
    BY <1>4, <1>5, ThreadAssumption DEF CallsLinked, Quiet, ThreadAssumption
  <1>7. TerminalHeld
    BY <1>4, <1>5 DEF TerminalHeld
  <1>8. EventsCovered
    <2>1. /\ m_eventnum = 0 /\ mallocs = 0 /\ heap = {} /\ fault = 0
          /\ m_events = [i \in Slot |-> Nobody]
      BY <1>2 DEF InitLogger
    <2> QED  BY <1>4, <1>5, <2>1 DEF EventsCovered
  <1>9. LoggerTypes
    BY <1>4, LoggerAssumption DEF LoggerTypes, LoggerAssumption
  <1> QED  BY <1>3, <1>6, <1>7, <1>8, <1>9 DEF IInv

(* The invariant holds for any number of threads, slots, files and bodies.   *)
THEOREM KernelInvariant == Spec => []IInv
  <1>1. IInv /\ [Next]_vars => IInv'
    <2> SUFFICES ASSUME IInv, [Next]_vars PROVE IInv'
      OBVIOUS
    <2>1. CASE Next
      <3>1. ObjectTypes' /\ StatusFollows' /\ RunsCounted'
        BY <2>1, ObjectsKept, StatusKept, RunsKept DEF IInv
      <3>2. CallsLinked' /\ TerminalHeld' /\ EventsCovered' /\ LoggerTypes'
        BY <2>1, CallsKept, TerminalKept, EventsKept, LoggerTypesKept DEF IInv
      <3> QED  BY <3>1, <3>2 DEF IInv
    <2>2. CASE UNCHANGED vars
      <3>1. UNCHANGED <<loggerVars, threadVars>>
        BY <2>2 DEF vars
      <3>2. ObjectTypes' /\ StatusFollows' /\ RunsCounted'
        BY <3>1 DEF IInv, threadVars, ObjectTypes, StatusFollows, RunsCounted, RanOnce, OwnerAt
      <3>3. CallsLinked'
        BY <3>1 DEF IInv, loggerVars, threadVars, CallsLinked, Quiet
      <3>4. TerminalHeld'
        BY <3>1 DEF IInv, loggerVars, TerminalHeld
      <3>5. EventsCovered' /\ LoggerTypes'
        BY <3>1 DEF IInv, loggerVars, EventsCovered, Uncounted, LoggerTypes
      <3> QED  BY <3>2, <3>3, <3>4, <3>5 DEF IInv
    <2> QED  BY <2>1, <2>2
  <1> QED  BY <1>1, KernelStarts, PTL DEF Spec

(* Every variable keeps its type: in particular a semaphore is at most 1, as
   only who holds it posts it.                                               *)
THEOREM TypeCorrect == Spec => []TypeOK
  <1>1. IInv => TypeOK
    BY DEF IInv, TypeOK, ObjectTypes, CallsLinked, TerminalHeld, EventsCovered, LoggerTypes,
           Bodies
  <1> QED  BY <1>1, KernelInvariant, PTL

(* Two threads never share a line of the terminal.                           *)
THEOREM LinesAreWhole == Spec => []LinesWhole
  <1>1. IInv => LinesWhole
    <2> SUFFICES ASSUME TerminalHeld, NEW i \in DOMAIN line
                 PROVE  line[i] = <<line[1][1], Pieces[i]>>
      BY DEF IInv, LinesWhole
    <2>1. line \in Seq(Caller \X PieceNames) /\ i \in 1 .. Len(line) /\ line # <<>>
      BY DEF TerminalHeld
    <2>2. PICK t \in Caller : call[t].pc = "print"
      BY <2>1 DEF TerminalHeld
    <2>3. \A j \in 1 .. Len(line) : line[j] = <<t, Pieces[j]>>
      BY <2>2 DEF TerminalHeld
    <2>4. 1 \in 1 .. Len(line)
      BY <2>1
    <2> QED  BY <2>1, <2>3, <2>4
  <1> QED  BY <1>1, KernelInvariant, PTL

(* A task that is not a cycle is not run a second time, however many bodies
   are created for its object and however they end.                          *)
THEOREM TasksRunOnce == Spec => []OnceOnly
  <1>1. IInv => OnceOnly
    BY DEF IInv, RunsCounted, RanOnce, OnceOnly, ObjectTypes
  <1> QED  BY <1>1, KernelInvariant, PTL

(* FREE and TERMINATE mean what they say although two threads write the
   status.                                                                   *)
THEOREM StatusIsTrusted == Spec => []StatusTrusted
  <1>1. IInv => StatusTrusted
    BY DEF IInv, StatusFollows, StatusTrusted
  <1> QED  BY <1>1, KernelInvariant, PTL

(* RuinLogger finds every stored event, and no thread writes through an event
   that was freed.                                                           *)
THEOREM RuinFindsEverything == Spec => []RuinFindsAll
  <1>1. IInv => RuinFindsAll
    BY DEF IInv, EventsCovered, Uncounted, Quiet, RuinFindsAll
  <1> QED  BY <1>1, KernelInvariant, PTL
=============================================================================
