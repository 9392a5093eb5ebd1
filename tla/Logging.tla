------------------------------- MODULE Logging -------------------------------
(***************************************************************************)
(* Application threads log through the installed Qt message handler:       *)
(* MessageHandler takes its own mutex, puts a message that is severe       *)
(* enough into ErrorQueue (whose errCounts signal runs a slot on the spot) *)
(* and calls Logger::writeLog, which takes the Logger's mutex, appends the *)
(* line and rotates the file.  Logger::writeStart takes the Logger's mutex *)
(* alone.  What a rotation does to the files is in LogRotation; here it is *)
(* one step that succeeds, or fails and logs that it did.                  *)
(***************************************************************************)
EXTENDS Integers, Sequences

CONSTANTS
    Threads,       \* threads that log
    Main,          \* the one that sets logging up
    None,          \* no thread, no message
    Names,         \* log file names
    DefaultName,   \* the name Logger's constructor chooses
    Levels,        \* levels messages have; DEBUG is the least severe
    Thresholds,    \* levels the setters are given
    Limit,         \* LOG_BUFFER_SIZE
    Restart,       \* whether writeStart is called after the handler is installed
    MaxCalls,      \* bound: messages logged
    MaxStarts      \* bound: calls of writeStart

DEBUG == 4
WARN == 2

ASSUME ThreadsAssumption == Main \in Threads /\ None \notin Threads
ASSUME NoneAssumption == None \notin [n : Nat, level : 0 .. DEBUG]
ASSUME NamesAssumption == DefaultName \in Names
ASSUME LevelsAssumption == Levels \cup Thresholds \subseteq 0 .. DEBUG
ASSUME LimitAssumption == Limit \in Nat
ASSUME BoundsAssumption == MaxCalls \in Nat /\ MaxStarts \in Nat /\ Restart \in BOOLEAN

VARIABLES
    pc,           \* where each thread is
    msg,          \* the message each thread is logging
    calls,        \* messages logged so far
    starts,       \* calls of writeStart so far
    handler,      \* the installed handler: "none", "plain" or "queue"
    mhLock,       \* holder of MessageHandler::m_mutex
    logLock,      \* holder of Logger::m_mutex
    logFilename,  \* Logger::m_logFilename
    logLevel,     \* Logger::m_logLevel
    queueLevel,   \* MessageHandler::s_queueLevel
    log,          \* every line written, in order, with its file
    pool,         \* ErrorQueue::m_errMsgPool
    newErrors,    \* ErrorQueue::m_newErrors
    pushed        \* every message ever pushed (history variable)

counts == <<calls, starts>>
locks == <<mhLock, logLock>>
settings == <<handler, logFilename, logLevel, queueLevel>>
queue == <<pool, newErrors, pushed>>
vars == <<pc, msg, counts, locks, settings, log, queue>>

Init ==
    /\ pc = [t \in Threads |-> "idle"]
    /\ msg = [t \in Threads |-> None]
    /\ calls = 0
    /\ starts = 0
    /\ handler = "none"
    /\ mhLock = None
    /\ logLock = None
    /\ logFilename = DefaultName
    /\ logLevel = WARN
    /\ queueLevel = WARN
    /\ log = <<>>
    /\ pool = <<>>
    /\ newErrors = 0
    /\ pushed = <<>>

Goto(t, l) == pc' = [pc EXCEPT ![t] = l]

At(t, l) == pc[t] = l

-----------------------------------------------------------------------------
\* The application, through Main: qInstallMessageHandler and the setters,
\* which take no mutex.

Install(h) ==
    /\ At(Main, "idle")
    /\ handler = "none"
    /\ handler' = h
    /\ UNCHANGED <<pc, msg, counts, locks, logFilename, logLevel, queueLevel,
                   log, queue>>

SetLogLevel(l) ==
    /\ At(Main, "idle")
    /\ logLevel' = l
    /\ UNCHANGED <<pc, msg, counts, locks, handler, logFilename, queueLevel,
                   log, queue>>

SetQueueLevel(l) ==
    /\ At(Main, "idle")
    /\ queueLevel' = l
    /\ UNCHANGED <<pc, msg, counts, locks, handler, logFilename, logLevel,
                   log, queue>>

-----------------------------------------------------------------------------
\* MessageHandler::messageHandler and messageHandlerWithErrorQueue, entered
\* from qDebug, qWarning, ...

Call(t, l) ==
    /\ At(t, "idle")
    /\ handler # "none"
    /\ calls < MaxCalls
    /\ calls' = calls + 1
    /\ msg' = [msg EXCEPT ![t] = [n |-> calls + 1, level |-> l]]
    /\ Goto(t, "lockHandler")
    /\ UNCHANGED <<starts, locks, settings, log, queue>>

LockHandlerMutant(t) ==  \* the locker is forgotten
    /\ At(t, "lockHandler")
    /\ mhLock' = t
    /\ Goto(t, IF handler = "queue" THEN "queue" ELSE "lockLog")
    /\ UNCHANGED <<msg, counts, logLock, settings, log, queue>>

LockHandler(t) ==
    /\ At(t, "lockHandler")
    /\ mhLock = None
    /\ mhLock' = t
    /\ Goto(t, IF handler = "queue" THEN "queue" ELSE "lockLog")
    /\ UNCHANGED <<msg, counts, logLock, settings, log, queue>>

SkipQueue(t) ==
    /\ At(t, "queue")
    /\ msg[t].level > queueLevel
    /\ Goto(t, "lockLog")
    /\ UNCHANGED <<msg, counts, locks, settings, log, queue>>

RoomMutant == IF Len(pool) > Limit THEN SubSeq(pool, 1, Len(pool) - 1) ELSE pool
\* The pool with room for one more: its oldest message goes when it is full.
Room == IF Len(pool) > Limit THEN Tail(pool) ELSE pool

Push(t) ==
    /\ At(t, "queue")
    /\ msg[t].level <= queueLevel
    /\ pool' = Append(Room, msg[t])
    /\ newErrors' = newErrors + 1
    /\ pushed' = Append(pushed, msg[t])
    /\ Goto(t, "slot")
    /\ UNCHANGED <<msg, counts, locks, settings, log>>

-----------------------------------------------------------------------------
\* A slot connected directly to errCounts reads the queue while it is told of
\* the new message; the emitting thread still holds the handler's mutex.

PopError(t) ==
    /\ At(t, "slot")
    /\ pool # <<>>
    /\ pool' = Tail(pool)
    /\ UNCHANGED <<pc, msg, counts, locks, settings, log, newErrors, pushed>>

ClearCounterMutant(t) ==  \* counts down instead
    /\ At(t, "slot")
    /\ newErrors' = newErrors - 1
    /\ UNCHANGED <<pc, msg, counts, locks, settings, log, pool, pushed>>

ClearCounter(t) ==
    /\ At(t, "slot")
    /\ newErrors' = 0
    /\ UNCHANGED <<pc, msg, counts, locks, settings, log, pool, pushed>>

SlotReturnMutant(t) ==  \* the handler's mutex is given back after the push
    /\ At(t, "slot")
    /\ mhLock' = None
    /\ Goto(t, "lockLog")
    /\ UNCHANGED <<msg, counts, logLock, settings, log, queue>>

SlotReturn(t) ==
    /\ At(t, "slot")
    /\ Goto(t, "lockLog")
    /\ UNCHANGED <<msg, counts, locks, settings, log, queue>>

-----------------------------------------------------------------------------
\* Logger::writeLog.

LockLog(t) ==
    /\ At(t, "lockLog")
    /\ logLock = None
    /\ logLock' = t
    /\ Goto(t, "write")
    /\ UNCHANGED <<msg, counts, mhLock, settings, log, queue>>

\* The level check, and a file that cannot be opened.
SkipWriteMutant(t) ==  \* an early return that leaves the mutex locked
    /\ At(t, "write")
    /\ Goto(t, "unlockHandler")
    /\ UNCHANGED <<msg, counts, locks, settings, log, queue>>

SkipWrite(t) ==
    /\ At(t, "write")
    /\ Goto(t, "unlockLog")
    /\ UNCHANGED <<msg, counts, locks, settings, log, queue>>

Write(t) ==
    /\ At(t, "write")
    /\ msg[t].level <= logLevel
    /\ log' = Append(log, [file |-> logFilename, line |-> msg[t]])
    /\ Goto(t, "unlockLog")
    /\ UNCHANGED <<msg, counts, locks, settings, queue>>

\* Files::checkNGzip and the return.  A rotation that fails here logs nothing:
\* Qt sends what is logged inside a message handler to stderr.
UnlockLog(t) ==
    /\ At(t, "unlockLog")
    /\ logLock' = None
    /\ Goto(t, "unlockHandler")
    /\ UNCHANGED <<msg, counts, mhLock, settings, log, queue>>

UnlockHandler(t) ==
    /\ At(t, "unlockHandler")
    /\ mhLock' = None
    /\ msg' = [msg EXCEPT ![t] = None]
    /\ Goto(t, "idle")
    /\ UNCHANGED <<counts, logLock, settings, log, queue>>
-----------------------------------------------------------------------------
\* Logger::writeStart(filename) and writeRawStart, called by Main: the name is
\* assigned first, with no mutex held.

Start ==
    /\ At(Main, "idle")
    /\ handler = "none" \/ Restart
    /\ starts < MaxStarts
    /\ starts' = starts + 1
    /\ Goto(Main, "assign")
    /\ UNCHANGED <<msg, calls, locks, settings, log, queue>>

Assign(f) ==
    /\ At(Main, "assign")
    /\ logFilename' = f
    /\ Goto(Main, "lockStart")
    /\ UNCHANGED <<msg, counts, locks, handler, logLevel, queueLevel, log, queue>>

LockStart ==
    /\ At(Main, "lockStart")
    /\ logLock = None
    /\ logLock' = Main
    /\ Goto(Main, "banner")
    /\ UNCHANGED <<msg, counts, mhLock, settings, log, queue>>

\* The banner is the line that is no message.
Banner ==
    /\ At(Main, "banner")
    /\ log' = Append(log, [file |-> logFilename, line |-> None])
    /\ Goto(Main, "rotateStart")
    /\ UNCHANGED <<msg, counts, locks, settings, queue>>

NoBanner ==
    /\ At(Main, "banner")
    /\ Goto(Main, "unlockStart")
    /\ UNCHANGED <<msg, counts, locks, settings, log, queue>>

\* A rotation that fails here says so with qDebug, and the installed handler
\* runs inside writeStart; it never gets the Logger's mutex back.
RotateStartFails ==
    /\ At(Main, "rotateStart")
    /\ handler # "none"
    /\ msg' = [msg EXCEPT ![Main] = [n |-> 0, level |-> DEBUG]]
    /\ Goto(Main, "lockHandler")
    /\ UNCHANGED <<counts, locks, settings, log, queue>>

\* The rotation succeeds, is not needed, or fails with no handler installed.
UnlockStart ==
    /\ At(Main, "rotateStart") \/ At(Main, "unlockStart")
    /\ logLock' = None
    /\ Goto(Main, "idle")
    /\ UNCHANGED <<msg, counts, mhLock, settings, log, queue>>

-----------------------------------------------------------------------------
\* What a thread does by itself once it has called.
Run(t) ==
    \/ LockHandler(t) \/ SkipQueue(t) \/ Push(t) \/ SlotReturn(t)
    \/ LockLog(t) \/ SkipWrite(t) \/ Write(t)
    \/ UnlockLog(t) \/ UnlockHandler(t)

RunStart ==
    \/ \E f \in Names : Assign(f)
    \/ LockStart \/ Banner \/ NoBanner \/ RotateStartFails \/ UnlockStart

Next ==
    \/ \E h \in {"plain", "queue"} : Install(h)
    \/ \E l \in Thresholds : SetLogLevel(l) \/ SetQueueLevel(l)
    \/ \E t \in Threads, l \in Levels : Call(t, l)
    \/ \E t \in Threads : Run(t) \/ PopError(t) \/ ClearCounter(t)
    \/ Start
    \/ RunStart

\* Threads run.  Weak fairness is enough to get a mutex: the others stop asking
\* for it, as only MaxCalls messages are logged and MaxStarts starts made.
Fairness ==
    /\ \A t \in Threads : WF_vars(Run(t))
    /\ WF_vars(RunStart)

Spec == Init /\ [][Next]_vars /\ Fairness

-----------------------------------------------------------------------------
\* Properties.

Messages == [n : 0 .. MaxCalls, level : 0 .. DEBUG]

HandlerLabels == {"queue", "slot", "lockLog", "write", "unlockLog",
                  "unlockHandler"}
WriteLabels == {"write", "unlockLog", "banner", "rotateStart",
                "unlockStart"}
Labels == {"idle", "lockHandler", "assign", "lockStart"} \cup HandlerLabels
              \cup WriteLabels

\* The types of the logging state.
TypeOK ==
    /\ pc \in [Threads -> Labels]
    /\ msg \in [Threads -> Messages \cup {None}]
    /\ calls \in 0 .. MaxCalls
    /\ starts \in 0 .. MaxStarts
    /\ handler \in {"none", "plain", "queue"}
    /\ mhLock \in Threads \cup {None}
    /\ logLock \in Threads \cup {None}
    /\ logFilename \in Names
    /\ logLevel \in 0 .. DEBUG
    /\ queueLevel \in 0 .. DEBUG
    /\ log \in Seq([file : Names, line : Messages \cup {None}])
    /\ pool \in Seq(Messages)
    /\ newErrors \in Nat
    /\ pushed \in Seq(Messages)

\* The log file and ErrorQueue tell the same story: of two messages that
\* reached both, the one queued first is the one written first.
SameOrder ==
    \A i, j \in DOMAIN log, p, q \in DOMAIN pushed :
        i < j /\ log[i].line = pushed[p] /\ log[j].line = pushed[q] => p < q

\* ErrorQueue holds an unbroken run of the latest messages pushed, and at most
\* one more than LOG_BUFFER_SIZE of them.
PoolIsNewest ==
    /\ Len(pool) <= Limit + 1
    /\ Len(pool) <= Len(pushed)
    /\ pool = SubSeq(pushed, Len(pushed) - Len(pool) + 1, Len(pushed))

\* Logger::writeStart is documented as thread-safe: no thread reads the name
\* of the log file while another assigns it.
NameGuarded ==
    \A t \in Threads : At(Main, "assign") => ~At(t, "write")

\* A rotation failed in writeStart while the handler was installed: the handler
\* waits, inside writeStart, for the mutex writeStart holds.
Stuck == logLock = Main /\ pc[Main] \in {"lockHandler", "queue", "slot", "lockLog"}

\* Every call of the message handler returns, unless writeStart blocks itself:
\* no thread forgets a mutex and no two wait for each other.
CallsReturn ==
    \A t \in Threads : At(t, "lockHandler") ~> At(t, "idle") \/ Stuck
=============================================================================
