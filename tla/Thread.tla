------------------------------- MODULE Thread -------------------------------
(***************************************************************************)
(* The threads of src/platform/src/system/threadpool.c: the Thread_t       *)
(* objects in Worker, the body pthread_create starts for each (run), and   *)
(* the calls of the thread that owns them.  With DEBUG_MODE, as the        *)
(* makefile builds it, both log through the one logger of the kernel, so   *)
(* the module extends Logger: a worker is a caller, and so is the owner.   *)
(*                                                                         *)
(* m_status is written by the owner and by the body without a lock.        *)
(*                                                                         *)
(* The owner follows the protocol the calls suppose: it creates a body     *)
(* again only after it joined the last one, and joins no body if m_status  *)
(* says TERMINATE.                                                         *)
(*                                                                         *)
(* Nothing sets m_message, and the objects need not be zeroed (main.c:10   *)
(* has one on its stack): whoever reads it finds NULL or something else.   *)
(***************************************************************************)
EXTENDS Logger, FiniteSets

CONSTANTS Worker,      \* the Thread_t objects
          Owner,       \* the thread that creates and handles them
          Exiter,      \* the workers whose function may call ExitThread
          Archiver,    \* the workers whose function backs up what it logs
          MaxCreates   \* bound: bodies created for all objects together

ASSUME ThreadAssumption ==
    /\ Caller = Worker \cup {Owner}
    /\ Owner \notin Worker
    /\ Exiter \subseteq Worker /\ Archiver \subseteq Worker
    /\ MaxCreates \in Nat \ {0}

VARIABLES
    m_status,     \* object -> status
    m_semaphore,  \* object -> value of the semaphore
    m_task,       \* object -> [IsCycle, function]: function TRUE unless NULL
    body,         \* object -> where its body is in run
    func,         \* object -> the body's own copy of the function, while it lasts
    own,          \* what the owner does, and with which object
    creates,      \* bodies created so far
    runs          \* object -> times its function was called

threadVars == <<m_status, m_semaphore, m_task, body, func, own, creates, runs>>

Idle == [pc |-> "idle", w |-> Owner]
OwnerAt(pc, w) == own = [pc |-> pc, w |-> w]
OwnerGoto(pc, w) == own' = [pc |-> pc, w |-> w]
BodyGoto(w, pc) == body' = [body EXCEPT ![w] = pc]
Status(w, s) == m_status' = [m_status EXCEPT ![w] = s]

\* InitThread for every object, before the owner uses one: the semaphore is 1.
\* Without a task the function is NULL and IsCycle keeps what it held.  So does
\* m_status, but nobody reads it before CreateThread writes INIT.
InitThread ==
    /\ m_task \in [Worker -> [IsCycle : BOOLEAN, function : BOOLEAN]]
    /\ m_semaphore = [w \in Worker |-> 1]
    /\ m_status = [w \in Worker |-> "INIT"]

ThreadInit ==
    /\ InitThread
    /\ body = [w \in Worker |-> "none"]
    /\ func = [w \in Worker |-> FALSE]
    /\ own = [pc |-> "boot", w |-> Owner]
    /\ creates = 0
    /\ runs = [w \in Worker |-> 0]

-----------------------------------------------------------------------------
(* Mutant: the status of the last body stays until READY is written.        *)
CreateThreadKeepsStatus(w) ==
    /\ own = Idle
    /\ body[w] = "none"
    /\ creates < MaxCreates
    /\ creates' = creates + 1
    /\ OwnerGoto("create", w)
    /\ UNCHANGED <<m_status, m_semaphore, m_task, body, func, runs, loggerVars>>

\* CreateThread: INIT, pthread_create, then READY over whatever the body has
\* written by then, or TERMINATE when no body could be made.
CreateThread(w) ==
    /\ own = Idle
    /\ body[w] = "none"
    /\ creates < MaxCreates
    /\ Status(w, "INIT")
    /\ creates' = creates + 1
    /\ OwnerGoto("create", w)
    /\ UNCHANGED <<m_semaphore, m_task, body, func, runs, loggerVars>>

PthreadCreate(w) ==
    /\ OwnerAt("create", w)
    /\ \/ BodyGoto(w, "start") /\ OwnerGoto("ready", w)
       \/ OwnerGoto("terminate", w) /\ UNCHANGED body
    /\ UNCHANGED <<m_status, m_semaphore, m_task, func, creates, runs, loggerVars>>

Created(w) ==
    /\ \/ OwnerAt("ready", w) /\ Status(w, "READY") /\ Log(Owner, Log_Debug, FALSE)
       \/ OwnerAt("terminate", w) /\ Status(w, "TERMINATE") /\ Log(Owner, Log_Error, FALSE)
    /\ OwnerGoto("logging", w)
    /\ UNCHANGED <<m_semaphore, m_task, body, func, creates, runs, m_eventnum, m_events,
                   m_level, m_outputflag, m_terminalsync, m_filesync, line, opened, heap,
                   mallocs, fault>>

CreateReturns(w) ==
    /\ OwnerAt("logging", w)
    /\ Quiet(Owner)
    /\ own' = Idle
    /\ UNCHANGED <<m_status, m_semaphore, m_task, body, func, creates, runs, loggerVars>>

\* HandleThread: the semaphore, the join, the semaphore again.
HandleThread(w) ==
    /\ own = Idle
    /\ body[w] # "none"
    /\ m_status[w] # "TERMINATE"
    /\ OwnerGoto("handle", w)
    /\ UNCHANGED <<m_status, m_semaphore, m_task, body, func, creates, runs, loggerVars>>

\* Behind the semaphore it keeps what m_message holds: NULL ("join"), or a
\* result to be copied after the join ("joincopy").
HandleWait(w) ==
    /\ OwnerAt("handle", w)
    /\ m_semaphore[w] > 0
    /\ m_semaphore' = [m_semaphore EXCEPT ![w] = m_semaphore[w] - 1]
    /\ OwnerGoto("join", w) \/ OwnerGoto("joincopy", w)
    /\ UNCHANGED <<m_status, m_task, body, func, creates, runs, loggerVars>>

Join(w) ==
    /\ OwnerAt("join", w)
    /\ body[w] = "ended"
    /\ BodyGoto(w, "none")
    /\ OwnerGoto("post", w)
    /\ UNCHANGED <<m_status, m_semaphore, m_task, func, creates, runs, loggerVars>>

\* The result is copied to where the value points that run returned; run
\* returns none, so the write may go anywhere and the model ends.
JoinCopy(w) ==
    /\ OwnerAt("joincopy", w)
    /\ body[w] = "ended"
    /\ BodyGoto(w, "none")
    /\ fault' = 118
    /\ UNCHANGED <<m_status, m_semaphore, m_task, func, own, creates, runs, m_eventnum,
                   m_events, m_level, m_outputflag, m_terminalsync, m_filesync, line,
                   opened, heap, mallocs, call>>

(* Mutants: the semaphore is not posted, or posted twice.                   *)
HandleReturnNoPost(w) ==
    /\ OwnerAt("post", w)
    /\ own' = Idle
    /\ UNCHANGED <<m_status, m_semaphore, m_task, body, func, creates, runs, loggerVars>>

HandleReturnPostsTwice(w) ==
    /\ OwnerAt("post", w)
    /\ m_semaphore' = [m_semaphore EXCEPT ![w] = m_semaphore[w] + 2]
    /\ own' = Idle
    /\ UNCHANGED <<m_status, m_task, body, func, creates, runs, loggerVars>>

HandleReturn(w) ==
    /\ OwnerAt("post", w)
    /\ m_semaphore' = [m_semaphore EXCEPT ![w] = m_semaphore[w] + 1]
    /\ own' = Idle
    /\ UNCHANGED <<m_status, m_task, body, func, creates, runs, loggerVars>>

-----------------------------------------------------------------------------
\* run: status, the body's copy of the function, and a line of the log.
RunStart(w) ==
    /\ body[w] = "start"
    /\ Status(w, "RUNNING")
    /\ func' = [func EXCEPT ![w] = m_task[w].function]
    /\ BodyGoto(w, "logged")
    /\ Log(w, Log_Debug, FALSE)
    /\ UNCHANGED <<m_semaphore, m_task, own, creates, runs, m_eventnum, m_events, m_level,
                   m_outputflag, m_terminalsync, m_filesync, line, opened, heap, mallocs,
                   fault>>

\* The function, when there is one; otherwise run sleeps for a second.
CallFunction(w) ==
    /\ body[w] = "logged"
    /\ Quiet(w)
    /\ IF func[w]
       THEN BodyGoto(w, "func") /\ runs' = [runs EXCEPT ![w] = runs[w] + 1]
       ELSE BodyGoto(w, "back") /\ UNCHANGED runs
    /\ UNCHANGED <<m_status, m_semaphore, m_task, func, own, creates, loggerVars>>

\* What a function may do: log an event, leave with ExitThread, or return.
FunctionLogs(w) ==
    /\ body[w] = "func"
    /\ BodyGoto(w, "funclog")
    /\ Log(w, Log_Error, w \in Archiver)
    /\ UNCHANGED <<m_status, m_semaphore, m_task, func, own, creates, runs, m_eventnum,
                   m_events, m_level, m_outputflag, m_terminalsync, m_filesync, line,
                   opened, heap, mallocs, fault>>

FunctionReturns(w) ==
    /\ body[w] \in {"func", "funclog"}
    /\ Quiet(w)
    /\ \/ BodyGoto(w, "back")
       \/ w \in Exiter /\ BodyGoto(w, "exit")
    /\ UNCHANGED <<m_status, m_semaphore, m_task, func, own, creates, runs, loggerVars>>

\* ExitThread of the worker itself: it takes the semaphore and the thread
\* ends inside pthread_exit, before the post.
ExitThread(w) ==
    /\ body[w] = "exit"
    /\ m_semaphore[w] > 0
    /\ m_semaphore' = [m_semaphore EXCEPT ![w] = m_semaphore[w] - 1]
    /\ BodyGoto(w, "ended")
    /\ func' = [func EXCEPT ![w] = FALSE]
    /\ UNCHANGED <<m_status, m_task, own, creates, runs, loggerVars>>

(* Mutant: the function stays in the task.                                  *)
RunClearKeeps(w) ==
    /\ body[w] = "back"
    /\ BodyGoto(w, "clear")
    /\ UNCHANGED <<m_status, m_semaphore, m_task, func, own, creates, runs, loggerVars>>

\* The function is forgotten, and put back when the task is a cycle.
RunClear(w) ==
    /\ body[w] = "back"
    /\ m_task' = [m_task EXCEPT ![w].function = FALSE]
    /\ BodyGoto(w, "clear")
    /\ UNCHANGED <<m_status, m_semaphore, func, own, creates, runs, loggerVars>>

RunEnd(w) ==
    /\ body[w] = "clear"
    /\ IF m_task[w].IsCycle
       THEN Status(w, "READY") /\ m_task' = [m_task EXCEPT ![w].function = func[w]]
       ELSE Status(w, "FREE") /\ UNCHANGED m_task
    /\ BodyGoto(w, "ended")
    /\ func' = [func EXCEPT ![w] = FALSE]
    /\ UNCHANGED <<m_semaphore, own, creates, runs, loggerVars>>

BodyStep(w) ==
    \/ RunStart(w) \/ CallFunction(w) \/ FunctionLogs(w) \/ FunctionReturns(w)
    \/ ExitThread(w) \/ RunClear(w) \/ RunEnd(w)

\* What the owner does once it is inside a call.
OwnerStep(w) ==
    \/ PthreadCreate(w) \/ Created(w) \/ CreateReturns(w)
    \/ HandleWait(w) \/ Join(w) \/ JoinCopy(w) \/ HandleReturn(w)
=============================================================================
