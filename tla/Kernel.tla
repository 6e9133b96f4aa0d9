------------------------------- MODULE Kernel -------------------------------
(***************************************************************************)
(* The kernel as src/platform/init starts it: the owner of Thread          *)
(* initialises the logger and logs a first event, creates and handles its  *)
(* threads in any order the calls allow, and ruins the logger when all of  *)
(* them are joined.                                                        *)
(***************************************************************************)
EXTENDS Thread

vars == <<loggerVars, threadVars>>

\* InitKernel: the logger on the terminal, from Log_Debug on; a file, and a
\* level that drops events, are the other choices InitLogger offers.
Init ==
    /\ \/ InitLogger(Log_Debug, "Terminal")
       \/ \E level \in {Log_Debug, Log_Error} : InitLogger(level, "File")
    /\ ThreadInit

StartKernel ==
    /\ own.pc = "boot"
    /\ Log(Owner, Log_Debug, FALSE)
    /\ OwnerGoto("logging", Owner)
    /\ UNCHANGED <<m_status, m_semaphore, m_task, body, func, creates, runs, m_eventnum,
                   m_events, m_level, m_outputflag, m_terminalsync, m_filesync, line,
                   opened, heap, mallocs, fault>>

\* The owner ends the logger when no body is left to use it.
EndKernel ==
    /\ own = Idle
    /\ \A w \in Worker : body[w] = "none"
    /\ OwnerGoto("end", Owner)
    /\ RuinLogger
    /\ UNCHANGED <<m_status, m_semaphore, m_task, body, func, creates, runs>>

LogNext(t) == LogStep(t) /\ UNCHANGED threadVars

OwnerCalls ==
    \/ StartKernel \/ EndKernel
    \/ \E w \in Worker : CreateThread(w) \/ HandleThread(w)

\* An assertion that fails, and a write through a pointer to no object, end
\* the process.
Next ==
    /\ fault = 0
    /\ \/ OwnerCalls
       \/ \E w \in Worker : OwnerStep(w) \/ BodyStep(w)
       \/ CreateReturns(Owner)
       \/ \E t \in Caller : LogNext(t)

Spec == Init /\ [][Next]_vars

\* Every thread that can take a step takes one in the end; the owner starts
\* no call unless it wants to.
Fairness ==
    /\ \A w \in Worker : WF_vars(fault = 0 /\ OwnerStep(w)) /\ WF_vars(fault = 0 /\ BodyStep(w))
    /\ WF_vars(fault = 0 /\ CreateReturns(Owner))
    /\ \A t \in Caller : WF_vars(fault = 0 /\ LogNext(t))

LiveSpec == Spec /\ Fairness
-----------------------------------------------------------------------------
\* The type of every variable of the logger and of the threads.
TypeOK ==
    /\ m_eventnum \in Nat
    /\ m_events \in [Slot -> heap \cup {Nobody}]
    /\ m_level \in {Log_Debug, Log_Error, Log_Unknow}
    /\ m_outputflag \in {"Terminal", "File", "Unspecified"}
    /\ m_terminalsync \in Caller \cup {Nobody} /\ m_filesync \in Caller \cup {Nobody}
    /\ opened \in 0 .. MaxOpen
    /\ heap \subseteq 0 .. mallocs - 1
    /\ DOMAIN call = Caller
    /\ m_status \in [Worker -> {"INIT", "READY", "RUNNING", "FREE", "TERMINATE"}]
    /\ m_semaphore \in [Worker -> 0 .. 1]
    /\ m_task \in [Worker -> [IsCycle : BOOLEAN, function : BOOLEAN]]
    /\ body \in [Worker -> {"none", "start", "logged", "func", "funclog",
                            "exit", "back", "clear", "ended"}]
    /\ func \in [Worker -> BOOLEAN]
    /\ creates \in 0 .. MaxCreates

\* A line of the terminal holds the pieces of one event, in their order: no
\* other thread prints in between (TerminalLog's mutex spans its printfs).
LinesWhole ==
    \A i \in DOMAIN line : line[i] = <<line[1][1], Pieces[i]>>

\* A task that is not a cycle is run once, however often the owner creates a
\* body for the object: run forgets the function in m_task, which the next
\* body reads anew, and puts it back only for a cycle.
OnceOnly == \A w \in Worker : runs[w] > 1 => m_task[w].IsCycle

\* m_status lags behind: READY can be what CreateThread wrote over the RUNNING
\* or the FREE of the body.  But FREE and TERMINATE can be relied on: the
\* function of the object is not running, and with TERMINATE there is no body.
StatusTrusted ==
    \A w \in Worker :
        /\ m_status[w] = "FREE" => body[w] \notin {"logged", "func", "funclog", "exit", "back"}
        /\ m_status[w] = "TERMINATE" => body[w] = "none"

\* The counter covers every stored event whenever no call of LogLogger is
\* under way, although threads that race take the same slot or skip one: so
\* RuinLogger leaves no event in m_events, and after it no thread still uses
\* one that was freed.
RuinFindsAll ==
    /\ (\A t \in Caller : Quiet(t)) =>
           \A i \in Slot : m_events[i] # Nobody => i < m_eventnum
    /\ fault # 130

\* HandleThread comes back from its semaphore and its join, unless a worker's
\* function left through ExitThread with the semaphore, or the process ended:
\* whatever the other threads log meanwhile, and although the body starts by
\* waiting for the terminal.  If m_message is NULL it returns to its caller; if
\* not, it copies through what run returned, which is nothing.
HandleReturns ==
    \A w \in Worker \ Exiter :
        OwnerAt("handle", w) ~> \/ own = Idle
                                \/ OwnerAt("joincopy", w) /\ fault = 118
                                \/ fault \notin {0, 118}

\* log.c:121 asserts that the event just stored is in its slot.
StoredEventFound == fault # 121
=============================================================================
