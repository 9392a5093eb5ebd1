---------------------------- MODULE LoggingProofs ----------------------------
(***************************************************************************)
(* Proofs about Logging, for every set of threads, every level and every   *)
(* length of the queue.                                                    *)
(***************************************************************************)
EXTENDS Logging, SequenceTheorems, TLAPS

\* A thread in the handler holds the handler's mutex, one that writes to the
\* log the Logger's.
LocksHeld ==
    \A t \in Threads :
        /\ pc[t] \in HandlerLabels => mhLock = t
        /\ pc[t] \in WriteLabels => logLock = t

\* A thread has a message from its call of the handler to the return.
Logs(t) == pc[t] \in {"lockHandler"} \cup HandlerLabels

HaveMessages == \A t \in Threads : Logs(t) <=> msg[t] # None

\* Message 0 is the one that a failed rotation logs inside writeStart: its
\* thread never comes back.
ZeroIsStuck ==
    /\ \A t \in Threads : Logs(t) /\ msg[t].n = 0 => t = Main /\ Stuck
    /\ \A p \in DOMAIN pushed : pushed[p].n = 0 => Logs(Main) /\ msg[Main].n = 0

\* No two messages have the same number.
Numbered ==
    /\ \A t \in Threads : Logs(t) => msg[t].n <= calls
    /\ \A t, u \in Threads : Logs(t) /\ Logs(u) /\ t # u => msg[t].n # msg[u].n
    /\ \A p \in DOMAIN pushed : pushed[p].n <= calls
    /\ \A i \in DOMAIN log :
          log[i].line # None => log[i].line.n # 0 /\ log[i].line.n <= calls

\* A message reaches the queue once, and the log after that.
Fresh ==
    \A t \in Threads :
        /\ pc[t] \in {"lockHandler", "queue"} =>
              \A p \in DOMAIN pushed : pushed[p].n # msg[t].n
        /\ pc[t] \in {"lockHandler", "queue", "slot", "lockLog", "write"} =>
              \A i \in DOMAIN log : log[i].line # None => log[i].line.n # msg[t].n

\* While a thread is between the queue and the log, nobody else pushes.
PushedLast ==
    \A t \in Threads, p \in DOMAIN pushed :
        pc[t] \in {"slot", "lockLog", "write"} /\ pushed[p] = msg[t]
            => p = Len(pushed)

\* What is known of messages on their way.
Told ==
    /\ ZeroIsStuck
    /\ Numbered
    /\ Fresh
    /\ PushedLast

IInv ==
    /\ TypeOK
    /\ LocksHeld
    /\ HaveMessages
    /\ Told
    /\ SameOrder
    /\ PoolIsNewest

-----------------------------------------------------------------------------
\* Types.

\* A thread that logs has a message.
LEMMA HasMessage ==
    ASSUME TypeOK, HaveMessages, NEW t \in Threads, Logs(t)
    PROVE  msg[t] \in Messages
  BY DEF TypeOK, HaveMessages

LEMMA NoneIsNoMessage == None \notin Messages
  BY NoneAssumption, BoundsAssumption DEF Messages

LEMMA RoomType ==
    ASSUME TypeOK
    PROVE  Room \in Seq(Messages)
<1>1. CASE Len(pool) > Limit
  <2>1. pool # <<>>
    BY <1>1, LimitAssumption, EmptySeq DEF TypeOK
  <2>2. QED
    BY <1>1, <2>1, HeadTailProperties DEF TypeOK, Room
<1>2. CASE ~(Len(pool) > Limit)
  BY <1>2 DEF TypeOK, Room
<1>3. QED
  BY <1>1, <1>2

LEMMA TypeInit == Init => TypeOK /\ HaveMessages
<1> SUFFICES ASSUME Init PROVE TypeOK /\ HaveMessages
  OBVIOUS
<1>1. <<>> \in Seq(Messages) /\ <<>> \in Seq([file : Names, line : Messages \cup {None}])
  BY EmptySeq
<1>2. TypeOK
  BY <1>1, NamesAssumption, BoundsAssumption DEF Init, TypeOK, Labels, DEBUG, WARN
<1>3. HaveMessages
  BY DEF Init, HaveMessages, Logs, HandlerLabels
<1>4. QED
  BY <1>2, <1>3

LEMMA TypeStep == TypeOK /\ HaveMessages /\ [Next]_vars => TypeOK'
<1> SUFFICES ASSUME TypeOK, HaveMessages, [Next]_vars PROVE TypeOK'
  OBVIOUS
<1> USE DEF TypeOK, Goto, At, counts, locks, settings, queue
<1>0. /\ Main \in Threads
      /\ {"lockLog", "queue", "lockHandler", "idle", "slot", "write", "unlockLog",
          "unlockHandler", "assign", "lockStart", "banner", "rotateStart",
          "unlockStart"} \subseteq Labels
  BY ThreadsAssumption DEF Labels, HandlerLabels, WriteLabels
<1>1. ASSUME NEW h \in {"plain", "queue"}, Install(h) PROVE TypeOK'
  BY <1>1 DEF Install
<1>2. ASSUME NEW l \in Thresholds, SetLogLevel(l) \/ SetQueueLevel(l) PROVE TypeOK'
  BY <1>2, LevelsAssumption DEF SetLogLevel, SetQueueLevel
<1>3. ASSUME NEW t \in Threads, NEW l \in Levels, Call(t, l) PROVE TypeOK'
  <2>1. calls + 1 \in 0 .. MaxCalls /\ l \in 0 .. DEBUG
    BY <1>3, BoundsAssumption, LevelsAssumption DEF Call
  <2>2. [n |-> calls + 1, level |-> l] \in Messages
    BY <2>1 DEF Messages
  <2>3. QED
    BY <1>0, <1>3, <2>1, <2>2 DEF Call
<1>4. ASSUME NEW t \in Threads, LockHandler(t) \/ SkipQueue(t) \/ SlotReturn(t)
      PROVE  TypeOK'
  BY <1>0, <1>4 DEF LockHandler, SkipQueue, SlotReturn
<1>5. ASSUME NEW t \in Threads, Push(t) PROVE TypeOK'
  <2>1. msg[t] \in Messages
    BY <1>5, HasMessage DEF Push, Logs, HandlerLabels
  <2>2. pool' \in Seq(Messages) /\ pushed' \in Seq(Messages)
    BY <1>5, <2>1, RoomType, AppendProperties DEF Push
  <2>3. QED
    BY <1>0, <1>5, <2>2 DEF Push
<1>6. ASSUME NEW t \in Threads, PopError(t) PROVE TypeOK'
  <2>1. pool' \in Seq(Messages)
    BY <1>6, HeadTailProperties DEF PopError
  <2>2. QED
    BY <1>6, <2>1 DEF PopError
<1>7. ASSUME NEW t \in Threads, ClearCounter(t) PROVE TypeOK'
  BY <1>7 DEF ClearCounter
<1>8. ASSUME NEW t \in Threads, LockLog(t) \/ SkipWrite(t) \/ UnlockLog(t) PROVE TypeOK'
  BY <1>0, <1>8 DEF LockLog, SkipWrite, UnlockLog
<1>9. ASSUME NEW t \in Threads, Write(t) PROVE TypeOK'
  <2>1. [file |-> logFilename, line |-> msg[t]] \in [file : Names, line : Messages \cup {None}]
    OBVIOUS
  <2>2. log' \in Seq([file : Names, line : Messages \cup {None}])
    BY <1>9, <2>1, AppendProperties DEF Write
  <2>3. QED
    BY <1>0, <1>9, <2>2 DEF Write
<1>10. ASSUME NEW t \in Threads, UnlockHandler(t) PROVE TypeOK'
  BY <1>0, <1>10 DEF UnlockHandler
<1>11. CASE Start
  BY <1>0, <1>11, BoundsAssumption DEF Start
<1>12. ASSUME NEW f \in Names, Assign(f) PROVE TypeOK'
  BY <1>0, <1>12 DEF Assign
<1>13. CASE LockStart \/ NoBanner \/ UnlockStart
  BY <1>0, <1>13 DEF LockStart, NoBanner, UnlockStart
<1>14. CASE Banner
  <2>1. [file |-> logFilename, line |-> None] \in [file : Names, line : Messages \cup {None}]
    OBVIOUS
  <2>2. log' \in Seq([file : Names, line : Messages \cup {None}])
    BY <1>14, <2>1, AppendProperties DEF Banner
  <2>3. QED
    BY <1>0, <1>14, <2>2 DEF Banner
<1>15. CASE RotateStartFails
  <2>1. [n |-> 0, level |-> DEBUG] \in Messages
    BY BoundsAssumption DEF Messages, DEBUG
  <2>2. QED
    BY <1>0, <1>15, <2>1 DEF RotateStartFails
<1>16. CASE UNCHANGED vars
  BY <1>16 DEF vars
<1>17. QED
  BY <1>1, <1>2, <1>3, <1>4, <1>5, <1>6, <1>7, <1>8, <1>9, <1>10, <1>11, <1>12,
     <1>13, <1>14, <1>15, <1>16 DEF Next, Run, RunStart

\* What a message that is put in a thread's hands is.
LEMMA NewMessages ==
    ASSUME TypeOK
    PROVE  /\ \A l \in Levels : calls < MaxCalls =>
                  [n |-> calls + 1, level |-> l] \in Messages \ {None}
           /\ [n |-> 0, level |-> DEBUG] \in Messages \ {None}
  BY NoneIsNoMessage, LevelsAssumption, BoundsAssumption DEF TypeOK, Messages, DEBUG

LEMMA MessagesStep == TypeOK /\ HaveMessages /\ [Next]_vars => HaveMessages'
<1> SUFFICES ASSUME TypeOK, HaveMessages, [Next]_vars PROVE HaveMessages'
  OBVIOUS
<1> USE ThreadsAssumption DEF TypeOK, HaveMessages, Logs, HandlerLabels, Goto, At
<1>1. ASSUME NEW t \in Threads, NEW l \in Levels, Call(t, l) PROVE HaveMessages'
  BY <1>1, NewMessages DEF Call
<1>2. ASSUME NEW t \in Threads, UnlockHandler(t) PROVE HaveMessages'
  BY <1>2 DEF UnlockHandler
<1>3. CASE RotateStartFails
  BY <1>3, NewMessages DEF RotateStartFails
<1>4. ASSUME NEW t \in Threads,
             \/ LockHandler(t) \/ SkipQueue(t) \/ Push(t) \/ SlotReturn(t)
             \/ LockLog(t) \/ SkipWrite(t) \/ Write(t) \/ UnlockLog(t)
      PROVE  HaveMessages'
  BY <1>4 DEF LockHandler, SkipQueue, Push, SlotReturn, LockLog, SkipWrite, Write,
     UnlockLog
<1>5. CASE Start \/ LockStart \/ Banner \/ NoBanner \/ UnlockStart
           \/ \E f \in Names : Assign(f)
  BY <1>5 DEF Start, LockStart, Banner, NoBanner, UnlockStart, Assign
<1>6. CASE UNCHANGED <<pc, msg>>
  BY <1>6
<1>7. QED
  BY <1>1, <1>2, <1>3, <1>4, <1>5, <1>6
  DEF Next, Run, RunStart, vars, Install, SetLogLevel, SetQueueLevel, PopError,
      ClearCounter

\* The two mutexes do their work.
LEMMA LocksStep == TypeOK /\ LocksHeld /\ [Next]_vars => LocksHeld'
<1> SUFFICES ASSUME TypeOK, LocksHeld, [Next]_vars PROVE LocksHeld'
  OBVIOUS
<1> USE ThreadsAssumption
    DEF TypeOK, LocksHeld, HandlerLabels, WriteLabels, Goto, At, locks
<1>1. ASSUME NEW t \in Threads, LockHandler(t) \/ UnlockHandler(t) PROVE LocksHeld'
  BY <1>1 DEF LockHandler, UnlockHandler
<1>2. ASSUME NEW t \in Threads, LockLog(t) \/ UnlockLog(t) PROVE LocksHeld'
  BY <1>2 DEF LockLog, UnlockLog
<1>3. CASE LockStart \/ UnlockStart
  BY <1>3 DEF LockStart, UnlockStart
<1>4. ASSUME NEW t \in Threads,
             \/ SkipQueue(t) \/ Push(t) \/ SlotReturn(t) \/ SkipWrite(t) \/ Write(t)
             \/ \E l \in Levels : Call(t, l)
      PROVE  LocksHeld'
  BY <1>4 DEF SkipQueue, Push, SlotReturn, SkipWrite, Write, Call
<1>5. CASE Start \/ Banner \/ NoBanner \/ RotateStartFails
           \/ \E f \in Names : Assign(f)
  BY <1>5 DEF Start, Banner, NoBanner, RotateStartFails, Assign
<1>6. CASE UNCHANGED <<pc, locks>>
  BY <1>6
<1>7. QED
  BY <1>1, <1>2, <1>3, <1>4, <1>5, <1>6
  DEF Next, Run, RunStart, vars, Install, SetLogLevel, SetQueueLevel, PopError,
      ClearCounter

-----------------------------------------------------------------------------
\* The queue.

\* A suffix stays one when an element is added to both, and when it loses its
\* first.
LEMMA SuffixGrows ==
    ASSUME NEW S, NEW s \in Seq(S), NEW k \in 0 .. Len(s), NEW e \in S
    PROVE  Append(SubSeq(s, Len(s) - k + 1, Len(s)), e)
             = SubSeq(Append(s, e), Len(s) - k + 1, Len(s) + 1)
<1> DEFINE n == Len(s)
           t == SubSeq(s, n - k + 1, n)
           u == SubSeq(Append(s, e), n - k + 1, n + 1)
<1>1. n \in Nat /\ k \in Nat /\ s \in [1 .. n -> S]
  BY LenProperties
<1>2. /\ t \in Seq(S) /\ Len(t) = k
      /\ \A i \in 1 .. k : t[i] = s[n - k + i]
  <2>1. \A i \in n - k + 1 .. n : s[i] \in S
    BY <1>1
  <2>2. /\ t \in Seq(S)
        /\ Len(t) = IF n - k + 1 <= n THEN n - (n - k + 1) + 1 ELSE 0
        /\ \A i \in 1 .. n - (n - k + 1) + 1 : t[i] = s[(n - k + 1) + i - 1]
    BY <1>1, <2>1, SubSeqProperties
  <2>3. QED
    BY <1>1, <2>2
<1>3. /\ Append(s, e) \in Seq(S) /\ Len(Append(s, e)) = n + 1
      /\ \A i \in 1 .. n : Append(s, e)[i] = s[i]
      /\ Append(s, e)[n + 1] = e
  BY AppendProperties
<1>4. /\ u \in Seq(S) /\ Len(u) = k + 1
      /\ \A i \in 1 .. k + 1 : u[i] = Append(s, e)[n - k + i]
  <2>1. \A i \in n - k + 1 .. n + 1 : Append(s, e)[i] \in S
    BY <1>1, <1>3
  <2>2. /\ u \in Seq(S)
        /\ Len(u) = IF n - k + 1 <= n + 1 THEN n + 1 - (n - k + 1) + 1 ELSE 0
        /\ \A i \in 1 .. n + 1 - (n - k + 1) + 1 :
              u[i] = Append(s, e)[(n - k + 1) + i - 1]
    BY <1>1, <2>1, SubSeqProperties
  <2> HIDE DEF u
  <2>3. n - k + 1 <= n + 1 /\ n + 1 - (n - k + 1) + 1 = k + 1
    BY <1>1
  <2>4. \A i \in 1 .. k + 1 : (n - k + 1) + i - 1 = n - k + i
    BY <1>1
  <2>5. QED
    BY <2>2, <2>3, <2>4
<1>5. /\ Append(t, e) \in Seq(S) /\ Len(Append(t, e)) = k + 1
      /\ \A i \in 1 .. k : Append(t, e)[i] = t[i]
      /\ Append(t, e)[k + 1] = e
  BY <1>2, AppendProperties
<1>6. \A i \in 1 .. k + 1 : Append(t, e)[i] = u[i]
  <2> SUFFICES ASSUME NEW i \in 1 .. k + 1 PROVE Append(t, e)[i] = u[i]
    OBVIOUS
  <2>1. CASE i = k + 1
    BY <1>1, <1>3, <1>4, <1>5, <2>1
  <2>2. CASE i # k + 1
    <3>1. i \in 1 .. k /\ n - k + i \in 1 .. n
      BY <1>1, <2>2
    <3>2. QED
      BY <1>2, <1>3, <1>4, <1>5, <3>1
  <2>3. QED
    BY <2>1, <2>2
<1>7. QED
  BY <1>4, <1>5, <1>6, SeqEqual

LEMMA SuffixShrinks ==
    ASSUME NEW S, NEW s \in Seq(S), NEW k \in 1 .. Len(s)
    PROVE  Tail(SubSeq(s, Len(s) - k + 1, Len(s))) = SubSeq(s, Len(s) - k + 2, Len(s))
<1>1. Len(s) \in Nat
  BY LenProperties
<1>2. Len(s) - k + 1 \in 1 .. Len(s) /\ Len(s) \in Len(s) - k + 1 .. Len(s)
  BY <1>1
<1>3. Tail(SubSeq(s, Len(s) - k + 1, Len(s))) = SubSeq(s, (Len(s) - k + 1) + 1, Len(s))
  BY <1>2, HeadTailOfSubSeq
<1>4. QED
  BY <1>1, <1>3

LEMMA PoolStep == TypeOK /\ HaveMessages /\ PoolIsNewest /\ [Next]_vars => PoolIsNewest'
<1> SUFFICES ASSUME TypeOK, HaveMessages, PoolIsNewest, [Next]_vars PROVE PoolIsNewest'
  OBVIOUS
<1> DEFINE k == Len(pool)
           n == Len(pushed)
<1>1. /\ k \in Nat /\ n \in Nat /\ Limit \in Nat /\ k <= n /\ k <= Limit + 1
      /\ pool = SubSeq(pushed, n - k + 1, n)
      /\ pool \in Seq(Messages) /\ pushed \in Seq(Messages)
  BY LimitAssumption, LenProperties DEF PoolIsNewest, TypeOK
<1>2. ASSUME pool # <<>>
      PROVE  /\ Tail(pool) = SubSeq(pushed, n - (k - 1) + 1, n)
             /\ Len(Tail(pool)) = k - 1 /\ k >= 1
             /\ Tail(pool) \in Seq(Messages)
  <2>1. k \in 1 .. n
    BY <1>1, <1>2, EmptySeq
  <2>2. Tail(pool) = SubSeq(pushed, n - k + 2, n)
    BY <1>1, <2>1, SuffixShrinks
  <2>3. Len(Tail(pool)) = k - 1 /\ Tail(pool) \in Seq(Messages)
    BY <1>1, <1>2, HeadTailProperties
  <2>4. n - k + 2 = n - (k - 1) + 1
    BY <1>1
  <2>5. QED
    BY <2>1, <2>2, <2>3, <2>4
<1>3. ASSUME NEW t \in Threads, Push(t) PROVE PoolIsNewest'
  <2>1. msg[t] \in Messages
    BY <1>3, HasMessage DEF Push, At, Logs, HandlerLabels
  <2>2. PICK j \in 0 .. n : /\ Room = SubSeq(pushed, n - j + 1, n) /\ Len(Room) = j
                           /\ j <= Limit /\ Room \in Seq(Messages)
    <3>1. CASE k > Limit
      <4>1. pool # <<>>
        BY <1>1, <3>1, EmptySeq
      <4>2. k - 1 \in 0 .. n /\ k - 1 <= Limit
        BY <1>1, <1>2, <4>1
      <4>3. QED
        BY <1>2, <3>1, <4>1, <4>2 DEF Room
    <3>2. CASE ~(k > Limit)
      BY <1>1, <3>2 DEF Room
    <3>3. QED
      BY <3>1, <3>2
  <2>3. pool' = Append(Room, msg[t]) /\ pushed' = Append(pushed, msg[t])
    BY <1>3 DEF Push
  <2>4. Len(pool') = j + 1 /\ Len(pushed') = n + 1
    BY <1>1, <2>1, <2>2, <2>3, AppendProperties
  <2>5. pool' = SubSeq(pushed', n - j + 1, n + 1)
    BY <1>1, <2>1, <2>2, <2>3, SuffixGrows
  <2>6. n - j + 1 = (n + 1) - (j + 1) + 1 /\ j + 1 <= n + 1 /\ j + 1 <= Limit + 1
    BY <1>1, <2>2
  <2>7. QED
    BY <2>4, <2>5, <2>6 DEF PoolIsNewest
<1>4. ASSUME NEW t \in Threads, PopError(t) PROVE PoolIsNewest'
  <2>1. pool' = Tail(pool) /\ pool # <<>> /\ pushed' = pushed
    BY <1>4 DEF PopError, queue
  <2>2. k - 1 <= Limit + 1 /\ k - 1 <= n
    BY <1>1
  <2>3. QED
    BY <1>2, <2>1, <2>2 DEF PoolIsNewest
<1>5. CASE UNCHANGED <<pool, pushed>>
  BY <1>5 DEF PoolIsNewest
<1>6. QED
  BY <1>3, <1>4, <1>5
  DEF Next, Run, RunStart, vars, queue, Install, SetLogLevel, SetQueueLevel, Call,
      LockHandler, SkipQueue, SlotReturn, LockLog, SkipWrite, Write, UnlockLog,
      UnlockHandler, ClearCounter, Start, Assign, LockStart, Banner, NoBanner,
      RotateStartFails, UnlockStart

-----------------------------------------------------------------------------
\* The order of messages.

LEMMA Appended ==
    ASSUME NEW S, NEW s \in Seq(S), NEW e \in S
    PROVE  /\ Len(s) \in Nat /\ DOMAIN s = 1 .. Len(s)
           /\ Append(s, e) \in Seq(S)
           /\ Len(Append(s, e)) = Len(s) + 1
           /\ DOMAIN Append(s, e) = 1 .. Len(s) + 1
           /\ \A i \in DOMAIN s : Append(s, e)[i] = s[i]
           /\ Append(s, e)[Len(s) + 1] = e
  BY AppendProperties, LenProperties

\* The numbers of messages, wherever they are.
LEMMA NumbersAre ==
    ASSUME TypeOK, HaveMessages
    PROVE  /\ calls \in Nat
           /\ \A t \in Threads : Logs(t) => msg[t] \in Messages /\ msg[t].n \in Nat
           /\ \A p \in DOMAIN pushed : pushed[p] \in Messages /\ pushed[p].n \in Nat
           /\ \A i \in DOMAIN log :
                 log[i].line # None => log[i].line \in Messages /\ log[i].line.n \in Nat
<1>1. \A m \in Messages : m.n \in Nat
  BY BoundsAssumption DEF Messages
<1>2. calls \in Nat
  BY BoundsAssumption DEF TypeOK
<1>3. \A t \in Threads : Logs(t) => msg[t] \in Messages
  BY HasMessage
<1>4. \A p \in DOMAIN pushed : pushed[p] \in Messages
  BY ElementOfSeq, LenProperties DEF TypeOK
<1>5. \A i \in DOMAIN log : log[i].line \in Messages \cup {None}
  <2>1. \A i \in DOMAIN log : log[i] \in [file : Names, line : Messages \cup {None}]
    BY ElementOfSeq, LenProperties, ZenonT(60) DEF TypeOK
  <2>2. QED
    BY <2>1
<1>6. QED
  BY <1>1, <1>2, <1>3, <1>4, <1>5

LEMMA ToldCall ==
    ASSUME IInv, NEW t \in Threads, NEW l \in Levels, Call(t, l)
    PROVE  Told'
<1> USE DEF IInv, TypeOK, Told, Logs, HandlerLabels, Goto, At, queue, locks
<1>1. /\ calls \in Nat /\ calls' = calls + 1
      /\ msg' = [msg EXCEPT ![t] = [n |-> calls + 1, level |-> l]]
      /\ pc[t] = "idle" /\ pc' = [pc EXCEPT ![t] = "lockHandler"]
      /\ UNCHANGED <<logLock, log, pushed>>
  BY DEF Call
<1>2. /\ \A u \in Threads : Logs(u) => msg[u].n \in Nat
      /\ \A p \in DOMAIN pushed : pushed[p].n \in Nat
      /\ \A i \in DOMAIN log : log[i].line # None => log[i].line.n \in Nat
  BY NumbersAre
<1>3. ZeroIsStuck'
  BY <1>1, ThreadsAssumption DEF ZeroIsStuck, Stuck
<1>4. Numbered'
  BY <1>1, <1>2 DEF Numbered
<1>5. Fresh'
  BY <1>1, <1>2 DEF Fresh, Numbered
<1>6. PushedLast'
  BY <1>1 DEF PushedLast
<1>7. QED
  BY <1>3, <1>4, <1>5, <1>6

LEMMA ToldRotateStartFails ==
    ASSUME IInv, RotateStartFails
    PROVE  Told'
<1> USE DEF IInv, TypeOK, Told, Logs, HandlerLabels, WriteLabels, Goto, At, queue, locks
<1>1. /\ Main \in Threads
      /\ pc[Main] = "rotateStart" /\ pc' = [pc EXCEPT ![Main] = "lockHandler"]
      /\ msg' = [msg EXCEPT ![Main] = [n |-> 0, level |-> DEBUG]]
      /\ logLock = Main
      /\ UNCHANGED <<calls, logLock, log, pushed>>
  BY ThreadsAssumption DEF RotateStartFails, LocksHeld, counts
<1>2. calls \in Nat
  BY NumbersAre
<1>3. ZeroIsStuck'
  BY <1>1 DEF ZeroIsStuck, Stuck
<1>4. \A t \in Threads : Logs(t) => msg[t].n # 0
  BY <1>1 DEF ZeroIsStuck, Stuck
<1>5. \A p \in DOMAIN pushed : pushed[p].n # 0
  BY <1>1 DEF ZeroIsStuck
<1>6. Numbered'
  BY <1>1, <1>2, <1>4 DEF Numbered
<1>7. Fresh'
  BY <1>1, <1>5 DEF Fresh, Numbered
<1>8. PushedLast'
  BY <1>1 DEF PushedLast
<1>9. QED
  BY <1>3, <1>6, <1>7, <1>8

LEMMA ToldPush ==
    ASSUME IInv, NEW t \in Threads, Push(t)
    PROVE  Told'
<1> USE DEF IInv, TypeOK, Told, Logs, HandlerLabels, Goto, At, locks
<1>1. /\ pc[t] = "queue" /\ pc' = [pc EXCEPT ![t] = "slot"]
      /\ pushed' = Append(pushed, msg[t])
      /\ msg[t] \in Messages /\ msg[t].n \in Nat
      /\ UNCHANGED <<msg, calls, logLock, log>>
  BY NumbersAre DEF Push, counts
<1> DEFINE n == Len(pushed)
<1>2. /\ n \in Nat /\ DOMAIN pushed = 1 .. n /\ DOMAIN pushed' = 1 .. n + 1
      /\ Len(pushed') = n + 1
      /\ \A p \in 1 .. n : pushed'[p] = pushed[p]
      /\ pushed'[n + 1] = msg[t]
  BY <1>1, Appended
<1> HIDE DEF n
<1>3. \A p \in DOMAIN pushed' : \/ p \in DOMAIN pushed /\ pushed'[p] = pushed[p]
                                \/ p = n + 1 /\ pushed'[p] = msg[t]
  BY <1>2
<1>4. ZeroIsStuck'
  <2>1. \A u \in Threads : Logs(u)' /\ msg'[u].n = 0 => u = Main /\ Stuck'
    BY <1>1 DEF ZeroIsStuck, Stuck
  <2>2. \A p \in DOMAIN pushed' : pushed'[p].n = 0 => Logs(Main)' /\ msg'[Main].n = 0
    BY <1>1, <1>3 DEF ZeroIsStuck, Stuck
  <2>3. QED
    BY <2>1, <2>2 DEF ZeroIsStuck
<1>5. Numbered'
  BY <1>1, <1>3 DEF Numbered
<1>6. Fresh'
  <2>1. \A u \in Threads : pc'[u] \in {"lockHandler", "queue"} =>
            \A p \in DOMAIN pushed' : pushed'[p].n # msg'[u].n
    BY <1>1, <1>3 DEF Fresh, Numbered
  <2>2. QED
    BY <1>1, <2>1 DEF Fresh
<1>7. PushedLast'
  <2> SUFFICES ASSUME NEW u \in Threads, NEW p \in DOMAIN pushed',
                      pc'[u] \in {"slot", "lockLog", "write"}, pushed'[p] = msg'[u]
               PROVE  p = n + 1
    BY <1>2 DEF PushedLast
  <2>1. u = t
    BY <1>1 DEF LocksHeld
  <2>2. QED
    BY <1>1, <1>3, <2>1 DEF Fresh
<1>8. QED
  BY <1>4, <1>5, <1>6, <1>7

\* A line is added to the log: a banner, or the message of a thread that has
\* not written it yet.
LEMMA ToldLine ==
    ASSUME IInv, NEW t \in Threads, Write(t) \/ (t = Main /\ Banner)
    PROVE  Told' /\ SameOrder'
<1> USE DEF IInv, TypeOK, Told, Logs, HandlerLabels, WriteLabels, Goto, At, locks, queue
<1>1. PICK line \in Messages \cup {None} :
          /\ log' = Append(log, [file |-> logFilename, line |-> line])
          /\ line # None => pc[t] = "write" /\ line = msg[t] /\ msg[t] \in Messages
                              /\ msg[t].n \in Nat
  BY NumbersAre DEF Write, Banner
<1>2. /\ \/ pc[t] = "write" /\ pc' = [pc EXCEPT ![t] = "unlockLog"]
         \/ pc[t] = "banner" /\ pc' = [pc EXCEPT ![t] = "rotateStart"]
      /\ UNCHANGED <<msg, calls, logLock, pushed>>
  BY DEF Write, Banner, counts
<1> DEFINE n == Len(log)
<1>3. /\ n \in Nat /\ DOMAIN log = 1 .. n /\ DOMAIN log' = 1 .. n + 1
      /\ \A i \in 1 .. n : log'[i] = log[i]
      /\ log'[n + 1].line = line
  <2>1. [file |-> logFilename, line |-> line] \in [file : Names, line : Messages \cup {None}]
    OBVIOUS
  <2>2. QED
    BY <1>1, <2>1, Appended
<1> HIDE DEF n
<1>4. \A i \in DOMAIN log' : \/ i \in DOMAIN log /\ log'[i] = log[i]
                             \/ i = n + 1 /\ log'[i].line = line
  BY <1>3
<1>5. ZeroIsStuck'
  BY <1>2, ThreadsAssumption DEF ZeroIsStuck, Stuck
<1>6. Numbered'
  <2>1. line # None => line.n # 0 /\ line.n <= calls
    BY <1>1 DEF Numbered, ZeroIsStuck, Stuck
  <2>2. \A i \in DOMAIN log' :
            log'[i].line # None => log'[i].line.n # 0 /\ log'[i].line.n <= calls
    BY <1>4, <2>1 DEF Numbered
  <2>3. QED
    BY <1>2, <2>2 DEF Numbered
<1>7. Fresh'
  <2>1. ASSUME NEW u \in Threads, NEW i \in DOMAIN log', log'[i].line # None,
               pc'[u] \in {"lockHandler", "queue", "slot", "lockLog", "write"}
        PROVE  log'[i].line.n # msg'[u].n
    <3>1. u # t /\ pc[u] = pc'[u] /\ msg'[u] = msg[u]
      BY <1>2, <2>1
    <3>2. CASE i \in DOMAIN log
      BY <1>3, <2>1, <3>1, <3>2 DEF Fresh
    <3>3. CASE i = n + 1
      <4>1. pc[t] = "write" /\ log'[i].line.n = msg[t].n
        BY <1>1, <1>3, <2>1, <3>3
      <4>2. QED
        BY <2>1, <3>1, <4>1 DEF Numbered
    <3>4. QED
      BY <1>4, <3>2, <3>3
  <2>2. QED
    BY <1>2, <2>1 DEF Fresh
<1>8. PushedLast'
  BY <1>2 DEF PushedLast
<1>9. SameOrder'
  <2> SUFFICES ASSUME NEW i \in DOMAIN log', NEW j \in DOMAIN log',
                      NEW p \in DOMAIN pushed, NEW q \in DOMAIN pushed, i < j,
                      log'[i].line = pushed[p], log'[j].line = pushed[q]
               PROVE  p < q
    BY <1>2 DEF SameOrder
  <2>1. pushed[p] # None /\ pushed[q] # None
    BY NumbersAre, NoneIsNoMessage
  <2>2. i \in DOMAIN log /\ log'[i] = log[i]
    BY <1>3
  <2>3. CASE j \in DOMAIN log
    BY <1>3, <2>2, <2>3 DEF SameOrder
  <2>4. CASE j = n + 1
    <3>1. pc[t] = "write" /\ pushed[q] = msg[t]
      BY <1>1, <1>3, <2>1, <2>4
    <3>2. q = Len(pushed)
      BY <3>1 DEF PushedLast
    <3>3. pushed[p] # pushed[q]
      BY <2>1, <2>2, <3>1 DEF Fresh
    <3>4. p <= Len(pushed) /\ p \in Nat /\ Len(pushed) \in Nat
      BY LenProperties
    <3>5. QED
      BY <3>2, <3>3, <3>4
  <2>5. QED
    BY <1>4, <2>3, <2>4
<1>10. QED
  BY <1>5, <1>6, <1>7, <1>8, <1>9

\* The steps that leave messages, queue and log alone.
LEMMA ToldMove ==
    ASSUME IInv,
           \/ \E t \in Threads :
                 \/ LockHandler(t) \/ SkipQueue(t) \/ SlotReturn(t) \/ LockLog(t)
                 \/ SkipWrite(t) \/ UnlockLog(t)
           \/ Start \/ LockStart \/ NoBanner \/ UnlockStart
           \/ \E f \in Names : Assign(f)
    PROVE  Told'
<1> USE ThreadsAssumption
    DEF IInv, TypeOK, Told, Logs, HandlerLabels, WriteLabels, Goto, At, locks, queue
<1>1. UNCHANGED <<msg, calls, log, pushed>>
  BY DEF LockHandler, SkipQueue, SlotReturn, LockLog, SkipWrite, UnlockLog, Start,
     LockStart, NoBanner, UnlockStart, Assign, counts
<1>2. PICK t \in Threads, l \in Labels :
          /\ pc' = [pc EXCEPT ![t] = l]
          /\ l \in {"lockHandler"} \cup HandlerLabels <=> Logs(t)
          /\ l \notin {"lockHandler", "slot"} \/ pc[t] = l
          /\ l = "queue" => pc[t] = "lockHandler"
          /\ l \in {"lockLog", "write"} =>
                pc[t] \in {"lockHandler", "queue", "slot", "lockLog"}
  BY SMTT(20) DEF LockHandler, SkipQueue, SlotReturn, LockLog, SkipWrite, UnlockLog, Start,
     LockStart, NoBanner, UnlockStart, Assign, Labels
<1>3. ZeroIsStuck'
  <2>1. \A u \in Threads : Logs(u)' <=> Logs(u)
    BY <1>2
  <2>2. Stuck /\ Logs(Main) /\ msg[Main].n = 0 => Stuck'
    BY DEF Stuck, LocksHeld, LockHandler, SkipQueue, SlotReturn, LockLog, SkipWrite,
       UnlockLog, Start, LockStart, NoBanner, UnlockStart, Assign
  <2>3. QED
    BY <1>1, <2>1, <2>2 DEF ZeroIsStuck
<1>4. Numbered'
  BY <1>1, <1>2 DEF Numbered
<1>5. Fresh'
  BY <1>1, <1>2 DEF Fresh
<1>6. PushedLast'
  <2> SUFFICES ASSUME NEW u \in Threads, NEW p \in DOMAIN pushed,
                      pc'[u] \in {"slot", "lockLog", "write"}, pushed[p] = msg[u]
               PROVE  p = Len(pushed)
    BY <1>1 DEF PushedLast
  <2>1. pc[u] \in {"lockHandler", "queue", "slot", "lockLog", "write"}
    BY <1>2
  <2>2. pc[u] \notin {"lockHandler", "queue"}
    BY DEF Fresh
  <2>3. QED
    BY <2>1, <2>2 DEF PushedLast
<1>7. QED
  BY <1>3, <1>4, <1>5, <1>6

LEMMA ToldUnlockHandler ==
    ASSUME IInv, NEW t \in Threads, UnlockHandler(t)
    PROVE  Told'
<1> USE DEF IInv, TypeOK, Told, Logs, HandlerLabels, Goto, At, queue, locks
<1>1. /\ UNCHANGED <<calls, logLock, log, pushed>> /\ pc[t] = "unlockHandler"
      /\ pc' = [pc EXCEPT ![t] = "idle"] /\ msg' = [msg EXCEPT ![t] = None]
  BY DEF UnlockHandler, counts
<1>2. ZeroIsStuck'
  BY <1>1, ThreadsAssumption DEF ZeroIsStuck, Stuck
<1>3. Numbered'
  BY <1>1 DEF Numbered
<1>4. Fresh'
  BY <1>1 DEF Fresh
<1>5. PushedLast'
  BY <1>1 DEF PushedLast
<1>6. QED
  BY <1>2, <1>3, <1>4, <1>5

LEMMA ToldStep == IInv /\ [Next]_vars => Told'
<1> SUFFICES ASSUME IInv, [Next]_vars PROVE Told'
  OBVIOUS
<1>1. CASE UNCHANGED <<pc, msg, calls, logLock, log, pushed>>
  BY <1>1 DEF IInv, Told, ZeroIsStuck, Stuck, Numbered, Fresh, PushedLast, Logs
<1>2. QED
  BY <1>1, ToldCall, ToldRotateStartFails, ToldPush, ToldLine, ToldMove,
     ToldUnlockHandler, ThreadsAssumption
  DEF Next, Run, RunStart, vars, counts, locks, queue, Install, SetLogLevel,
      SetQueueLevel, PopError, ClearCounter

LEMMA OrderStep == IInv /\ [Next]_vars => SameOrder'
<1> SUFFICES ASSUME IInv, [Next]_vars PROVE SameOrder'
  OBVIOUS
<1>1. ASSUME NEW t \in Threads, Push(t) PROVE SameOrder'
  <2>1. /\ msg[t] \in Messages /\ pc[t] = "queue"
        /\ pushed' = Append(pushed, msg[t]) /\ log' = log
    BY <1>1, HasMessage DEF IInv, Push, At, Logs, HandlerLabels
  <2> SUFFICES ASSUME NEW i \in DOMAIN log, NEW j \in DOMAIN log,
                      NEW p \in DOMAIN pushed', NEW q \in DOMAIN pushed', i < j,
                      log[i].line = pushed'[p], log[j].line = pushed'[q]
               PROVE  p < q
    BY <2>1 DEF SameOrder
  <2>2. /\ Len(pushed) \in Nat /\ DOMAIN pushed = 1 .. Len(pushed)
        /\ DOMAIN pushed' = 1 .. Len(pushed) + 1
        /\ \A r \in DOMAIN pushed : pushed'[r] = pushed[r]
        /\ pushed'[Len(pushed) + 1] = msg[t]
    BY <2>1, Appended DEF IInv, TypeOK
  <2>3. \A k \in DOMAIN log : log[k].line # msg[t]
    BY <2>1, NoneIsNoMessage DEF IInv, Told, Fresh
  <2>4. p \in DOMAIN pushed /\ q \in DOMAIN pushed
    BY <2>2, <2>3
  <2>5. QED
    BY <2>2, <2>4 DEF IInv, SameOrder
<1>2. CASE UNCHANGED <<log, pushed>>
  BY <1>2 DEF IInv, SameOrder
<1>3. QED
  BY <1>1, <1>2, ToldLine, ThreadsAssumption
  DEF Next, Run, RunStart, vars, queue, Install, SetLogLevel, SetQueueLevel, Call,
      LockHandler, SkipQueue, SlotReturn, LockLog, SkipWrite, UnlockLog,
      UnlockHandler, PopError, ClearCounter, Start, Assign, LockStart, NoBanner,
      RotateStartFails, UnlockStart

-----------------------------------------------------------------------------
\* The inductive invariant.

LEMMA InvInit == Init => IInv
<1> SUFFICES ASSUME Init PROVE IInv
  OBVIOUS
<1>1. TypeOK /\ HaveMessages
  BY TypeInit
<1>2. LocksHeld /\ Told /\ SameOrder
  BY DEF Init, LocksHeld, HandlerLabels, WriteLabels, Told, ZeroIsStuck, Numbered,
     Fresh, PushedLast, SameOrder, Logs
<1>3. PoolIsNewest
  <2>1. SubSeq(<<>>, 1, 0) = <<>> /\ Len(<<>>) = 0
    BY SubSeqEmpty, EmptySeq
  <2>2. QED
    BY <2>1, LimitAssumption DEF Init, PoolIsNewest
<1>4. QED
  BY <1>1, <1>2, <1>3 DEF IInv

LEMMA InvStep == IInv /\ [Next]_vars => IInv'
  BY TypeStep, MessagesStep, LocksStep, PoolStep, ToldStep, OrderStep DEF IInv

\* The inductive invariant holds in every state.
THEOREM Invariance == Spec => []IInv
  BY InvInit, InvStep, PTL DEF Spec

\* Every variable keeps its type, for any number of threads, levels and messages.
THEOREM TypeCorrect == Spec => []TypeOK
<1>1. IInv => TypeOK
  BY DEF IInv
<1>2. QED
  BY <1>1, Invariance, PTL

\* The log file and ErrorQueue have the messages in the same order, however the
\* threads interleave: the handler's mutex covers both.
THEOREM OneOrder == Spec => []SameOrder
<1>1. IInv => SameOrder
  BY DEF IInv
<1>2. QED
  BY <1>1, Invariance, PTL

\* ErrorQueue's pool is an unbroken run of the latest messages, at most one more
\* than its limit, for every limit.
THEOREM QueueIsNewest == Spec => []PoolIsNewest
<1>1. IInv => PoolIsNewest
  BY DEF IInv
<1>2. QED
  BY <1>1, Invariance, PTL
=============================================================================
