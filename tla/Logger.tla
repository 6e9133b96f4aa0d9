------------------------------- MODULE Logger -------------------------------
(***************************************************************************)
(* The logger of src/platform/src/system/log.c: LogLogger as it runs in    *)
(* each of the threads in Caller, the two appenders it chooses from, and   *)
(* the backup of an event in m_events.  Every access to a shared field is  *)
(* a step of its own, because only the two appenders take a lock.          *)
(*                                                                         *)
(* The module has operations and no Next: Thread and Kernel call it.       *)
(***************************************************************************)
EXTENDS Integers, Sequences

CONSTANTS Caller,          \* the threads that log
          Nobody,          \* an unlocked lock, a slot of m_events that holds NULL
          MaxLogEventNum,  \* slots of m_events
          MaxOpen          \* files the process may hold open

ASSUME LoggerAssumption ==
    /\ Nobody \notin Caller
    /\ Nobody \notin Nat
    /\ MaxLogEventNum \in Nat \ {0}
    /\ MaxOpen \in Nat

\* enum LogLevel
Log_Debug  == 0
Log_Error  == 3
Log_Unknow == 5

\* What TerminalLog prints of an event, in this order.
Pieces == <<"level", "place", "fields", "newline">>

VARIABLES
    m_eventnum,      \* events counted in m_events
    m_events,        \* slot -> the event stored there
    m_level,         \* events below it are dropped
    m_outputflag,    \* the appender
    m_terminalsync,  \* owner of the mutex, or Nobody
    m_filesync,      \* writer that holds the rwlock, or Nobody
    line,            \* the pieces of the line the terminal is at: <<caller, piece>>
    opened,          \* log files opened, none of which is closed
    heap,            \* events allocated and not yet freed
    mallocs,         \* events allocated so far: the next one's address
    call,            \* caller -> the call of LogLogger it is in
    fault            \* line that ended the process, or 0: of log.c, or 118 of threadpool.c

loggerVars == <<m_eventnum, m_events, m_level, m_outputflag, m_terminalsync,
                m_filesync, line, opened, heap, mallocs, call, fault>>

NoCall == [pc |-> "out", level |-> Log_Debug, backup |-> FALSE,
           piece |-> 1, index |-> 0, event |-> Nobody]

Slot == 0 .. MaxLogEventNum - 1

InitLogger(level, output) ==
    /\ m_eventnum = 0
    /\ m_level = level
    /\ m_outputflag = output
    /\ m_events = [i \in Slot |-> Nobody]
    /\ m_filesync = Nobody
    /\ m_terminalsync = Nobody
    /\ line = <<>>
    /\ opened = 0
    /\ heap = {}
    /\ mallocs = 0
    /\ call = [t \in Caller |-> NoCall]
    /\ fault = 0

-----------------------------------------------------------------------------
Quiet(t) == call[t].pc = "out"

\* A call that is over leaves nothing behind.
Goto(t, pc) ==
    call' = [call EXCEPT ![t] = IF pc = "out" THEN NoCall ELSE [call[t] EXCEPT !.pc = pc]]

\* The macro Log fills an event on the stack of t and calls LogLogger.
Log(t, level, backup) ==
    /\ Quiet(t)
    /\ call' = [call EXCEPT ![t] = [NoCall EXCEPT !.pc = "enter", !.level = level,
                                                  !.backup = backup]]

\* appender_ways: where the two appenders begin.
AppenderWays == [Terminal |-> "lock", File |-> "open"]

\* The level is read once, without a lock, and then the appender's index.
LogLogger(t) ==
    /\ call[t].pc = "enter"
    /\ Goto(t, IF call[t].level < m_level THEN "out" ELSE AppenderWays[m_outputflag])
    /\ UNCHANGED <<m_eventnum, m_events, m_level, m_outputflag, m_terminalsync,
                   m_filesync, line, opened, heap, mallocs, fault>>

\* Where a caller goes when its appender returns.
Appended(t) == Goto(t, IF call[t].backup THEN "index" ELSE "out")

(* Mutant: the terminal is taken without waiting for the mutex.             *)
TerminalLockNoWait(t) ==
    /\ call[t].pc = "lock"
    /\ m_terminalsync' = t
    /\ Goto(t, "print")
    /\ UNCHANGED <<m_eventnum, m_events, m_level, m_outputflag, m_filesync, line,
                   opened, heap, mallocs, fault>>

TerminalLock(t) ==
    /\ call[t].pc = "lock"
    /\ m_terminalsync = Nobody
    /\ m_terminalsync' = t
    /\ Goto(t, "print")
    /\ UNCHANGED <<m_eventnum, m_events, m_level, m_outputflag, m_filesync, line,
                   opened, heap, mallocs, fault>>

\* One printf; the last, a newline, starts another line.
TerminalPrint(t) ==
    LET piece == call[t].piece
    IN  /\ call[t].pc = "print"
        /\ line' = IF piece = Len(Pieces) THEN <<>> ELSE Append(line, <<t, Pieces[piece]>>)
        /\ call' = [call EXCEPT ![t].piece = piece + 1,
                                ![t].pc = IF piece = Len(Pieces) THEN "unlock" ELSE "print"]
        /\ UNCHANGED <<m_eventnum, m_events, m_level, m_outputflag, m_terminalsync,
                       m_filesync, opened, heap, mallocs, fault>>

TerminalUnlock(t) ==
    /\ call[t].pc = "unlock"
    /\ m_terminalsync' = Nobody
    /\ Appended(t)
    /\ UNCHANGED <<m_eventnum, m_events, m_level, m_outputflag, m_filesync, line,
                   opened, heap, mallocs, fault>>

\* SystemFileLog opens the file once more for every event; the fclose is a
\* comment, so at MaxOpen the assertion on the result ends the process.
FileOpen(t) ==
    /\ call[t].pc = "open"
    /\ IF opened < MaxOpen
       THEN opened' = opened + 1 /\ Goto(t, "wrlock") /\ UNCHANGED fault
       ELSE fault' = 97 /\ UNCHANGED <<opened, call>>
    /\ UNCHANGED <<m_eventnum, m_events, m_level, m_outputflag, m_terminalsync,
                   m_filesync, line, heap, mallocs>>

FileLock(t) ==
    /\ call[t].pc = "wrlock"
    /\ m_filesync = Nobody
    /\ m_filesync' = t
    /\ Goto(t, "write")
    /\ UNCHANGED <<m_eventnum, m_events, m_level, m_outputflag, m_terminalsync, line,
                   opened, heap, mallocs, fault>>

\* The text stays in the buffer of the file this call opened.
FileWrite(t) ==
    /\ call[t].pc = "write"
    /\ m_filesync' = Nobody
    /\ Appended(t)
    /\ UNCHANGED <<m_eventnum, m_events, m_level, m_outputflag, m_terminalsync, line,
                   opened, heap, mallocs, fault>>

-----------------------------------------------------------------------------
(***************************************************************************)
(* The backup.  The code names m_events[m_eventnum] three times: each time *)
(* m_eventnum is read anew (LoadIndex), and the slot is used in the next   *)
(* step.  Slot MaxLogEventNum is the storage of m_eventnum itself: using   *)
(* it ends the model.                                                      *)
(***************************************************************************)
AtUse == [index |-> "store", again |-> "check", third |-> "take"]

LoadIndex(t) ==
    /\ call[t].pc \in DOMAIN AtUse
    /\ call' = [call EXCEPT ![t].index = m_eventnum, ![t].pc = AtUse[call[t].pc]]
    /\ UNCHANGED <<m_eventnum, m_events, m_level, m_outputflag, m_terminalsync,
                   m_filesync, line, opened, heap, mallocs, fault>>

StoreEvent(t) ==
    LET i == call[t].index
    IN  /\ call[t].pc = "store"
        /\ IF i \in Slot
           THEN /\ m_events' = [m_events EXCEPT ![i] = mallocs]
                /\ heap' = heap \cup {mallocs}
                /\ mallocs' = mallocs + 1
                /\ Goto(t, "again")
                /\ UNCHANGED fault
           ELSE fault' = 120 /\ UNCHANGED <<m_events, heap, mallocs, call>>
        /\ UNCHANGED <<m_eventnum, m_level, m_outputflag, m_terminalsync, m_filesync,
                       line, opened>>

\* current_event of t.
KeepEvent(t, event, pc) == call' = [call EXCEPT ![t].event = event, ![t].pc = pc]

\* The assertion on the slot, and the read of the slot into current_event,
\* which the copy of the level then writes through.
UseSlot(t, pc, next, at) ==
    LET i == call[t].index
    IN  /\ call[t].pc = pc
        /\ IF i \in Slot /\ m_events[i] # Nobody
           THEN KeepEvent(t, m_events[i], next)
                /\ UNCHANGED fault
           ELSE fault' = (IF i \in Slot THEN at ELSE 120) /\ UNCHANGED call
        /\ UNCHANGED <<m_eventnum, m_events, m_level, m_outputflag, m_terminalsync,
                       m_filesync, line, opened, heap, mallocs>>

CheckEvent(t) == UseSlot(t, "check", "third", 121)
TakeEvent(t)  == UseSlot(t, "take", "count", 123)

CountEvent(t) ==
    /\ call[t].pc = "count"
    /\ m_eventnum' = m_eventnum + 1
    /\ Goto(t, "fill")
    /\ UNCHANGED <<m_events, m_level, m_outputflag, m_terminalsync, m_filesync, line,
                   opened, heap, mallocs, fault>>

\* The strings are copied after the event is counted, through current_event.
FillEvent(t) ==
    /\ call[t].pc = "fill"
    /\ IF call[t].event \in heap THEN Goto(t, "out") /\ UNCHANGED fault
                                 ELSE fault' = 130 /\ UNCHANGED call
    /\ UNCHANGED <<m_eventnum, m_events, m_level, m_outputflag, m_terminalsync,
                   m_filesync, line, opened, heap, mallocs>>

LogStep(t) ==
    \/ LogLogger(t) \/ TerminalLock(t) \/ TerminalPrint(t) \/ TerminalUnlock(t)
    \/ FileOpen(t) \/ FileLock(t) \/ FileWrite(t)
    \/ LoadIndex(t) \/ StoreEvent(t) \/ CheckEvent(t) \/ TakeEvent(t)
    \/ CountEvent(t) \/ FillEvent(t)

(* Mutant: the slots keep the addresses of the events it frees.             *)
RuinLoggerKeepsSlots ==
    /\ m_eventnum <= MaxLogEventNum
    /\ heap' = heap \ {m_events[i] : i \in 0 .. m_eventnum - 1}
    /\ m_eventnum' = 0
    /\ m_level' = Log_Unknow
    /\ m_outputflag' = "Unspecified"
    /\ UNCHANGED <<m_events, m_terminalsync, m_filesync, line, opened, mallocs, call, fault>>

\* Frees what the counter covers, and leaves a level no event reaches.  Threads
\* that shared the last slot counted it more than once: then the loop frees,
\* after the slots, what follows them, which is the counter and the level.
RuinLogger ==
    \/ /\ m_eventnum <= MaxLogEventNum
       /\ heap' = heap \ {m_events[i] : i \in 0 .. m_eventnum - 1}
       /\ m_events' = [i \in Slot |-> IF i < m_eventnum THEN Nobody ELSE m_events[i]]
       /\ m_eventnum' = 0
       /\ m_level' = Log_Unknow
       /\ m_outputflag' = "Unspecified"
       /\ UNCHANGED <<m_terminalsync, m_filesync, line, opened, mallocs, call, fault>>
    \/ /\ m_eventnum > MaxLogEventNum
       /\ fault' = 144
       /\ UNCHANGED <<m_eventnum, m_events, m_level, m_outputflag, m_terminalsync,
                      m_filesync, line, opened, heap, mallocs, call>>
=============================================================================
