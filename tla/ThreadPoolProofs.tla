-------------------------- MODULE ThreadPoolProofs --------------------------
(***************************************************************************)
(* Proofs about ThreadPool for every number of threads: no lambda outlives *)
(* the pool, and a deleted QThread is neither running nor in the map.      *)
(***************************************************************************)
EXTENDS ThreadPool, TLAPS

\* A worker that has yet to leave the pool is in the map, with its QThread.
UserInMap == \A i \in Ids : UsesPool(i) => entry[i] = "thread"

\* The entry the destructor is about to remove is nobody's any more.
RemovedIsOver == owner = "destroyRemove" => ~UsesPool(arg)

\* The thread the destructor is about to delete is over, and the one it works on
\* was not deleted before.
DeletingIsOver ==
    /\ owner = "destroyDelete" => Waited(arg)
    /\ owner \in {"destroyQuit", "destroyWait", "destroyDelete"} => arg \notin deleted

\* QThreads are deleted by the destructor alone, which starts none.
Destroying == owner \in {"destroy", "destroyFirst", "destroyQuit", "destroyWait",
                         "destroyDelete", "destroyRemove", "gone"}

DeletedByDestructor == deleted # {} => Destroying \/ failed

\* The destructor returns when the map is empty.
GoneIsEmpty == owner = "gone" => Present = {}

IInv ==
    /\ TypeOK
    /\ UserInMap
    /\ RemovedIsOver
    /\ DeletingIsOver
    /\ DeletedByDestructor
    /\ GoneIsEmpty
    /\ NoDanglingThread

-----------------------------------------------------------------------------
\* An id is emitted at most once: it is not started again.
EmittedOnce ==
    \A i \in Ids : worker[i] \in {"none", "created", "run", "loop", "emit"} => emitted[i] = 0

\* Ids that are not handed out yet have no thread.
FreshIds == \A i \in Ids : i >= thrCount => worker[i] = "none"

TInv == TypeOK /\ EmittedOnce /\ FreshIds

LEMMA TInvInit == Init => TInv
<1> SUFFICES ASSUME Init PROVE TInv
  OBVIOUS
<1> USE MaxIdAssumption DEF Init
<1>1. thrCount \in 1 .. MaxId + 1 /\ emitted \in [Ids -> 0 .. 1] /\ arg \in Ids
  BY DEF Ids
<1>2. TypeOK
  BY <1>1 DEF TypeOK, OwnerLabels, WorkerLabels
<1>3. EmittedOnce /\ FreshIds
  BY DEF EmittedOnce, FreshIds
<1>4. QED
  BY <1>2, <1>3 DEF TInv

\* The owner's steps keep the types.
LEMMA OwnerTypes ==
    ASSUME TInv,
           \/ Create \/ OwnerRuns \/ Destroy
           \/ \E i \in Ids : Start(i) \/ Finish(i) \/ Status(i) \/ DeliverQuit(i)
    PROVE  TInv'
<1> USE DEF TInv, TypeOK, OwnerGoes, Set, map, qthread, OwnerLabels, WorkerLabels
<1>1. CASE Create
  <2>1. thrCount' \in 1 .. MaxId + 1
    BY <1>1, MaxIdAssumption DEF Create, Ids
  <2>2. FreshIds'
    BY <1>1 DEF Create, FreshIds, Ids
  <2>3. EmittedOnce'
    BY <1>1 DEF Create, EmittedOnce, FreshIds, Ids
  <2>4. /\ entry' \in [Ids -> {"absent", "thread", "null"}]
        /\ status' \in [Ids -> {"STOPPED", "RUNNING"}]
        /\ worker' \in [Ids -> WorkerLabels]
    BY <1>1 DEF Create
  <2>5. QED
    BY <1>1, <2>1, <2>2, <2>3, <2>4 DEF Create
<1>2. ASSUME NEW i \in Ids, Start(i) PROVE TInv'
  <2>1. TypeOK'
    BY <1>2 DEF Start
  <2>2. EmittedOnce' /\ FreshIds'
    BY <1>2 DEF Start, EmittedOnce, FreshIds
  <2>3. QED
    BY <2>1, <2>2
<1>3. ASSUME NEW i \in Ids, Finish(i) \/ Status(i) \/ DeliverQuit(i) PROVE TInv'
  <2>1. TypeOK'
    BY <1>3, ZenonT(30) DEF Finish, Status, DeliverQuit
  <2>2. EmittedOnce' /\ FreshIds'
    BY <1>3 DEF Finish, Status, DeliverQuit, EmittedOnce, FreshIds
  <2>3. QED
    BY <2>1, <2>2
<1>4. CASE Destroy
  BY <1>4 DEF Destroy, EmittedOnce, FreshIds
<1>5. CASE OwnerRuns
  <2>1. UNCHANGED <<thrCount, worker, finishSig, emitted>>
    BY <1>5 DEF OwnerRuns, StartStatus, FinishLookup, FinishNull, FinishWait,
       StatusValue, DestroyMore, DestroyDone, DestroyFirst, DestroyEmpty,
       DestroyQuit, DestroyNull, DestroyWait, DestroyDelete, DestroyRemove
  <2>2. EmittedOnce' /\ FreshIds'
    BY <2>1 DEF EmittedOnce, FreshIds
  <2>3. CASE StartStatus \/ FinishLookup \/ FinishNull \/ FinishWait \/ StatusValue
    BY <2>1, <2>2, <2>3 DEF StartStatus, FinishLookup, FinishNull, FinishWait,
       StatusValue, Lookup
  <2>4. CASE DestroyMore \/ DestroyDone \/ DestroyFirst \/ DestroyEmpty
    BY <2>1, <2>2, <2>4 DEF DestroyMore, DestroyDone, DestroyFirst, DestroyEmpty,
       Present
  <2>5. CASE DestroyQuit \/ DestroyNull \/ DestroyWait \/ DestroyDelete \/ DestroyRemove
    BY <2>1, <2>2, <2>5 DEF DestroyQuit, DestroyNull, DestroyWait, DestroyDelete, DestroyRemove,
       Lookup
  <2>6. QED
    BY <1>5, <2>3, <2>4, <2>5 DEF OwnerRuns
<1>6. QED
  BY <1>1, <1>2, <1>3, <1>4, <1>5

\* The workers' steps keep the types.
LEMMA WorkerTypes ==
    ASSUME TInv, NEW i \in Ids, WorkerRuns(i) \/ EmitFinish(i)
    PROVE  TInv'
<1> USE DEF TInv, TypeOK, WorkerGoes, Set, map, qthread, WorkerLabels
<1>1. CASE RunReturns(i) \/ LeaveLoop(i) \/ End(i)
  <2>1. TypeOK'
    BY <1>1 DEF RunReturns, LeaveLoop, End
  <2>2. EmittedOnce' /\ FreshIds'
    BY <1>1 DEF RunReturns, LeaveLoop, End, EmittedOnce, FreshIds
  <2>3. QED
    BY <2>1, <2>2
<1>2. CASE EmitFinish(i)
  BY <1>2 DEF EmitFinish, EmittedOnce, FreshIds
<1>3. CASE EmitFinished(i)
  <2>1. emitted[i] = 0
    BY <1>3 DEF EmitFinished, EmittedOnce
  <2>2. TypeOK'
    BY <1>3, <2>1 DEF EmitFinished
  <2>3. EmittedOnce' /\ FreshIds'
    BY <1>3 DEF EmitFinished, EmittedOnce, FreshIds
  <2>4. QED
    BY <2>2, <2>3
<1>4. CASE LambdaStop(i) \/ LambdaRemove(i)
  <2>1. TypeOK'
    BY <1>4 DEF LambdaStop, LambdaRemove, Lookup
  <2>2. EmittedOnce' /\ FreshIds'
    BY <1>4 DEF LambdaStop, LambdaRemove, EmittedOnce, FreshIds
  <2>3. QED
    BY <2>1, <2>2
<1>5. QED
  BY <1>1, <1>2, <1>3, <1>4 DEF WorkerRuns

LEMMA TInvStep == TInv /\ [Next]_vars => TInv'
<1> SUFFICES ASSUME TInv, [Next]_vars PROVE TInv'
  OBVIOUS
<1>1. CASE UNCHANGED vars
  BY <1>1 DEF vars, map, qthread, TInv, TypeOK, EmittedOnce, FreshIds
<1>2. QED
  BY <1>1, OwnerTypes, WorkerTypes DEF Next

\* Every variable keeps its type; in particular finished(id) is emitted at most
\* once for each id.
THEOREM TypeCorrect == Spec => []TypeOK
<1>1. TInv => TypeOK
  BY DEF TInv
<1>2. QED
  BY <1>1, TInvInit, TInvStep, PTL DEF Spec
-----------------------------------------------------------------------------
\* The invariant of the destructor.

LEMMA InvInit == Init => IInv
<1> SUFFICES ASSUME Init PROVE IInv
  OBVIOUS
<1>1. TypeOK
  BY TInvInit DEF TInv
<1>2. QED
  BY <1>1 DEF Init, IInv, UserInMap, UsesPool, RemovedIsOver, DeletingIsOver,
     DeletedByDestructor, GoneIsEmpty, NoDanglingThread, Ids

\* What the types do not say of the invariant.
PoolInv ==
    /\ UserInMap
    /\ RemovedIsOver
    /\ DeletingIsOver
    /\ DeletedByDestructor
    /\ GoneIsEmpty
    /\ NoDanglingThread

\* create and start.
LEMMA InvStart ==
    ASSUME IInv, Create \/ \E i \in Ids : Start(i)
    PROVE  PoolInv'
<1> USE DEF IInv, TypeOK, OwnerGoes, Set, map, qthread
<1>1. deleted = {} /\ deleted' = {}
  BY DEF Create, Start, DeletedByDestructor, Destroying
<1>2. RemovedIsOver' /\ DeletingIsOver' /\ DeletedByDestructor' /\ GoneIsEmpty' /\ NoDanglingThread'
  BY <1>1 DEF Create, Start, RemovedIsOver, DeletingIsOver, DeletedByDestructor,
     GoneIsEmpty, NoDanglingThread
<1>3. UserInMap'
  BY DEF Create, Start, UserInMap, UsesPool
<1>4. QED
  BY <1>2, <1>3 DEF PoolInv

\* The other member functions called while the pool lives.
LEMMA InvLiving ==
    ASSUME IInv,
           \/ StartStatus \/ FinishLookup \/ FinishNull \/ FinishWait
           \/ StatusValue \/ Destroy
           \/ \E i \in Ids : Finish(i) \/ Status(i) \/ DeliverQuit(i)
    PROVE  PoolInv'
<1> USE DEF IInv, TypeOK, OwnerGoes, Set, map, qthread, StartStatus, FinishLookup,
            FinishNull, FinishWait, StatusValue, Destroy, Finish, Status,
            DeliverQuit
<1>1. worker' = worker /\ deleted' = deleted
  OBVIOUS
<1>2. \A i \in Ids : entry[i] = "thread" => entry'[i] = "thread"
  BY DEF Lookup
<1>3. UserInMap'
  BY <1>1, <1>2 DEF UserInMap, UsesPool
<1>4. deleted' = {}
  BY <1>1 DEF DeletedByDestructor, Destroying
<1>5. owner' \notin {"destroyQuit", "destroyWait", "destroyDelete", "destroyRemove", "gone"}
  OBVIOUS
<1>6. QED
  BY <1>3, <1>4, <1>5
  DEF PoolInv, RemovedIsOver, DeletingIsOver, DeletedByDestructor, GoneIsEmpty, NoDanglingThread

\* A null thread: its worker has left the map, and it is not one of those deleted.
LEMMA InvDestroyNull ==
    ASSUME IInv, DestroyNull
    PROVE  PoolInv'
<1>1. /\ owner = "destroyQuit" /\ owner' = "destroyRemove" /\ entry[arg] # "thread"
      /\ UNCHANGED <<worker, deleted, arg, failed>>
      /\ Lookup(arg)
  BY DEF DestroyNull, OwnerGoes, qthread
<1>2. /\ entry \in [Ids -> {"absent", "thread", "null"}] /\ arg \in Ids
      /\ deleted \subseteq Ids
  BY DEF IInv, TypeOK
<1>3. \A i \in Ids : /\ entry[i] = "thread" => entry'[i] = "thread"
                     /\ i # arg => entry'[i] = entry[i]
  BY <1>1, <1>2 DEF Lookup, Set
<1>4. arg \notin deleted
  BY <1>1 DEF IInv, DeletingIsOver
<1>5. NoDanglingThread'
  <2>1. SUFFICES ASSUME NEW i \in deleted
                 PROVE  Waited(i)' /\ entry'[i] = "absent"
    BY <1>1 DEF NoDanglingThread
  <2>2. i \in Ids /\ i # arg
    BY <1>2, <1>4
  <2>3. Waited(i) /\ entry[i] = "absent"
    BY <1>1 DEF IInv, NoDanglingThread
  <2>4. QED
    BY <1>1, <1>3, <2>2, <2>3 DEF Waited
<1>6. UserInMap' /\ RemovedIsOver'
  <2>1. \A i \in Ids : UsesPool(i)' <=> UsesPool(i)
    BY <1>1 DEF UsesPool
  <2>2. \A i \in Ids : UsesPool(i) => entry[i] = "thread"
    BY DEF IInv, UserInMap
  <2>3. UserInMap'
    BY <1>3, <2>1, <2>2 DEF UserInMap
  <2>4. ~UsesPool(arg)
    BY <1>1, <1>2, <2>2
  <2>5. QED
    BY <1>1, <1>2, <2>1, <2>3, <2>4 DEF RemovedIsOver, UsesPool
<1>7. DeletingIsOver' /\ DeletedByDestructor' /\ GoneIsEmpty'
  BY <1>1 DEF IInv, DeletingIsOver, DeletedByDestructor, Destroying, GoneIsEmpty
<1>8. QED
  BY <1>5, <1>6, <1>7 DEF PoolInv

\* The destructor.
LEMMA InvDestroy ==
    ASSUME IInv,
           \/ DestroyMore \/ DestroyDone \/ DestroyFirst \/ DestroyEmpty
           \/ DestroyQuit \/ DestroyNull \/ DestroyWait \/ DestroyDelete \/ DestroyRemove
    PROVE  PoolInv'
<1> USE DEF IInv, TypeOK, OwnerGoes, Set, map, qthread, PoolInv
<1>1. CASE DestroyMore \/ DestroyEmpty \/ DestroyQuit \/ DestroyWait
  BY <1>1 DEF DestroyMore, DestroyEmpty, DestroyQuit, DestroyWait, UserInMap,
     UsesPool, RemovedIsOver, DeletingIsOver, DeletedByDestructor, Destroying,
     GoneIsEmpty, NoDanglingThread, Waited
<1>2. CASE DestroyFirst
  <2>1. arg' \notin deleted
    BY <1>2 DEF DestroyFirst, Present, NoDanglingThread
  <2>2. QED
    BY <1>2, <2>1 DEF DestroyFirst, UserInMap, UsesPool, RemovedIsOver,
       DeletingIsOver, DeletedByDestructor, Destroying, GoneIsEmpty,
       NoDanglingThread, Waited
<1>3. CASE DestroyDone
  BY <1>3 DEF DestroyDone, UserInMap, UsesPool, RemovedIsOver, DeletingIsOver,
     DeletedByDestructor, Destroying, GoneIsEmpty, Present, NoDanglingThread,
     Waited
<1>4. CASE DestroyNull
  BY <1>4, InvDestroyNull
<1>5. CASE DestroyDelete
  BY <1>5 DEF DestroyDelete, UserInMap, UsesPool, RemovedIsOver, DeletingIsOver,
     DeletedByDestructor, Destroying, GoneIsEmpty, NoDanglingThread, Waited
<1>6. CASE DestroyRemove
  BY <1>6 DEF DestroyRemove, UserInMap, UsesPool, RemovedIsOver, DeletingIsOver,
     DeletedByDestructor, Destroying, GoneIsEmpty, NoDanglingThread, Waited
<1>7. QED
  BY <1>1, <1>2, <1>3, <1>4, <1>5, <1>6

\* The workers.
LEMMA InvWorker ==
    ASSUME IInv, NEW i \in Ids, WorkerRuns(i) \/ EmitFinish(i)
    PROVE  PoolInv'
<1> USE DEF IInv, TypeOK, WorkerGoes, Set, map, qthread, WorkerRuns, RunReturns,
            EmitFinish, LeaveLoop, EmitFinished, LambdaStop, LambdaRemove, End
<1>1. UNCHANGED <<owner, arg, deleted, failed>>
  OBVIOUS
<1>2. \A j \in Ids : UsesPool(j)' => UsesPool(j)
  BY DEF UsesPool
<1>3. \A j \in Ids : Waited(j) => Waited(j)'
  BY DEF Waited
<1>4. UserInMap'
  BY <1>2 DEF UserInMap, UsesPool, Lookup
<1>5. \A j \in Ids : entry[j] = "absent" => entry'[j] = "absent"
  BY DEF UserInMap, UsesPool, Lookup
<1>6. RemovedIsOver' /\ DeletingIsOver' /\ DeletedByDestructor' /\ NoDanglingThread'
  BY <1>1, <1>2, <1>3, <1>5 DEF RemovedIsOver, DeletingIsOver, DeletedByDestructor,
     Destroying, NoDanglingThread
<1>7. GoneIsEmpty'
  BY <1>1, <1>5 DEF GoneIsEmpty, Present
<1>8. QED
  BY <1>4, <1>6, <1>7 DEF PoolInv

LEMMA InvStep == IInv /\ TypeOK' /\ [Next]_vars => IInv'
<1> SUFFICES ASSUME IInv, TypeOK', [Next]_vars PROVE IInv'
  OBVIOUS
<1>1. CASE UNCHANGED vars
  BY <1>1 DEF vars, map, qthread, IInv, UserInMap, UsesPool, RemovedIsOver,
     DeletingIsOver, DeletedByDestructor, Destroying, GoneIsEmpty, Present,
     NoDanglingThread, Waited
<1>2. QED
  BY <1>1, InvStart, InvLiving, InvDestroy, InvWorker DEF Next, OwnerRuns, IInv, PoolInv

\* The inductive invariant holds in every state.
THEOREM Invariance == Spec => []IInv
  BY InvInit, InvStep, TypeCorrect, PTL DEF Spec

\* When the destructor has returned, no worker runs the pool's code or will:
\* none touches the map of a pool that is gone.
THEOREM NoLambdaOutlivesPool == Spec => []NoUseAfterDestroy
<1>1. IInv => NoUseAfterDestroy
  BY DEF IInv, UserInMap, GoneIsEmpty, Present, NoUseAfterDestroy
<1>2. QED
  BY <1>1, Invariance, PTL

\* A QThread is deleted only when it runs no more, and then no entry of the map
\* leads to it but the one the destructor is about to remove.
THEOREM DeletedThreadsAreOver == Spec => []NoDanglingThread
<1>1. IInv => NoDanglingThread
  BY DEF IInv
<1>2. QED
  BY <1>1, Invariance, PTL
-----------------------------------------------------------------------------
\* What status() tells.

Runs(i) == worker[i] \in {"run", "loop", "emit", "stop"}

\* A thread that start() has just started cannot end before its status is set:
\* quit() is called by the owner only.
StartingRuns ==
    owner = "startStatus" => worker[arg] \in {"run", "loop"} /\ exited[arg] = FALSE

\* RUNNING is the status of the threads that run, but for the one start() is at.
RunningRuns ==
    \A i \in Ids :
        /\ status[i] = "RUNNING" => Runs(i)
        /\ Runs(i) => status[i] = "RUNNING" \/ (owner = "startStatus" /\ arg = i)

SInv == StartingRuns /\ RunningRuns

LEMMA StatusInit == Init => SInv
  BY DEF Init, SInv, StartingRuns, RunningRuns, Runs

LEMMA StatusOwner ==
    ASSUME TInv, SInv,
           \/ Create \/ OwnerRuns \/ Destroy
           \/ \E i \in Ids : Start(i) \/ Finish(i) \/ Status(i) \/ DeliverQuit(i)
    PROVE  SInv'
<1> USE DEF TInv, TypeOK, SInv, OwnerGoes, Set, map, qthread, StartingRuns,
            RunningRuns, Runs
<1>1. CASE Create
  <2>1. worker[thrCount] = "none"
    BY <1>1 DEF Create, FreshIds, Ids
  <2>2. QED
    BY <1>1, <2>1 DEF Create
<1>2. ASSUME NEW i \in Ids, Start(i) PROVE SInv'
  BY <1>2 DEF Start
<1>3. ASSUME NEW i \in Ids, Finish(i) \/ Status(i) \/ DeliverQuit(i) PROVE SInv'
  BY <1>3 DEF Finish, Status, DeliverQuit
<1>4. CASE StartStatus
  BY <1>4 DEF StartStatus
<1>5. CASE FinishLookup \/ FinishNull \/ FinishWait \/ StatusValue \/ Destroy
  BY <1>5 DEF FinishLookup, FinishNull, FinishWait, StatusValue, Destroy
<1>6. CASE DestroyMore \/ DestroyDone \/ DestroyFirst \/ DestroyEmpty
           \/ DestroyQuit \/ DestroyNull \/ DestroyWait \/ DestroyDelete \/ DestroyRemove
  BY <1>6 DEF DestroyMore, DestroyDone, DestroyFirst, DestroyEmpty, DestroyQuit,
     DestroyNull, DestroyWait, DestroyDelete, DestroyRemove
<1>7. QED
  BY <1>1, <1>2, <1>3, <1>4, <1>5, <1>6 DEF OwnerRuns

LEMMA StatusWorker ==
    ASSUME TInv, SInv, NEW i \in Ids, WorkerRuns(i) \/ EmitFinish(i)
    PROVE  SInv'
<1> USE DEF TInv, TypeOK, SInv, WorkerGoes, Set, map, qthread, StartingRuns,
            RunningRuns, Runs
<1>1. CASE RunReturns(i) \/ EmitFinish(i)
  BY <1>1 DEF RunReturns, EmitFinish
<1>2. CASE LeaveLoop(i) \/ EmitFinished(i)
  BY <1>2 DEF LeaveLoop, EmitFinished
<1>3. CASE LambdaStop(i)
  BY <1>3 DEF LambdaStop
<1>4. CASE LambdaRemove(i) \/ End(i)
  BY <1>4 DEF LambdaRemove, End
<1>5. QED
  BY <1>1, <1>2, <1>3, <1>4 DEF WorkerRuns

LEMMA StatusStep == TInv /\ SInv /\ [Next]_vars => SInv'
<1>1. ASSUME SInv, UNCHANGED vars PROVE SInv'
  BY <1>1 DEF vars, map, qthread, SInv, StartingRuns, RunningRuns, Runs
<1>2. QED
  BY <1>1, StatusOwner, StatusWorker DEF Next

\* status() tells the truth: RUNNING from start() to the end of the run, and a
\* worker that has not announced its end is registered.
THEOREM StatusIsTrue == Spec => []StatusTells
<1>1. Spec => [](TInv /\ SInv)
  BY TInvInit, TInvStep, StatusInit, StatusStep, PTL DEF Spec
<1>2. IInv /\ SInv => StatusTells
  BY DEF IInv, UserInMap, SInv, StartingRuns, RunningRuns, Runs, StatusTells, UsesPool
<1>3. QED
  BY <1>1, <1>2, Invariance, PTL
=============================================================================
