----------------------------- MODULE ThreadPool -----------------------------
(***************************************************************************)
(* ThreadPool runs each piece of work in a QThread of its own.  The owner  *)
(* thread creates, starts, finishes and asks about the work and destroys   *)
(* the pool; every worker, when its QThread ends, runs the lambda that     *)
(* create() connected to QThread::finished, IN THE WORKER, and the lambda  *)
(* takes the worker's entry out of the pool's map.  Nothing locks the map; *)
(* the model lets its operations interleave one at a time.                 *)
(***************************************************************************)
EXTENDS Naturals, FiniteSets

CONSTANT MaxId  \* bound: threads created, with ids 1 .. MaxId

ASSUME MaxIdAssumption == MaxId \in Nat \ {0}

Ids == 1 .. MaxId

VARIABLES
    thrCount,   \* m_thrCount, the id of the next thread
    entry,      \* m_threadMap[id]: "absent", "thread", or "null" for the entry
                \* that operator[] makes up for an id it does not find
    status,     \* the status field of the entry
    worker,     \* where each QThread is
    exited,     \* QThread's own flag that quit() sets and start() clears
    finishSig,  \* the work's finish signal: "no", "posted" to the owner, "taken"
    emitted,    \* how often finished(id) was emitted
    deleted,    \* ids whose QThread was deleted
    owner,      \* where the owner is in the member function it runs
    arg,        \* the id that function works on
    failed      \* the owner used a null pointer or an empty list

map == <<entry, status>>
qthread == <<worker, exited, deleted>>
vars == <<thrCount, map, qthread, finishSig, emitted, owner, arg, failed>>

Init ==
    /\ thrCount = 1
    /\ entry = [i \in Ids |-> "absent"]
    /\ status = [i \in Ids |-> "STOPPED"]
    /\ worker = [i \in Ids |-> "none"]
    /\ exited = [i \in Ids |-> FALSE]
    /\ finishSig = [i \in Ids |-> "no"]
    /\ emitted = [i \in Ids |-> 0]
    /\ deleted = {}
    /\ owner = "idle"
    /\ arg = 1
    /\ failed = FALSE

Set(f, i, v) == [f EXCEPT ![i] = v]

OwnerGoes(from, to) == ~failed /\ owner = from /\ owner' = to

\* operator[]: a missing entry is made up, with a null thread and STOPPED,
\* which is what the lambda left in status.
Lookup(i) == entry' = IF entry[i] = "absent" THEN Set(entry, i, "null") ELSE entry

-----------------------------------------------------------------------------
\* create: the new entry and its connections.

CreateMutant ==  \* the counter is not advanced
    /\ OwnerGoes("idle", "idle")
    /\ thrCount \in Ids
    /\ entry' = Set(entry, thrCount, "thread")
    /\ status' = Set(status, thrCount, "STOPPED")
    /\ worker' = Set(worker, thrCount, "created")
    /\ UNCHANGED <<thrCount, exited, deleted, finishSig, emitted, arg, failed>>

Create ==
    /\ OwnerGoes("idle", "idle")
    /\ thrCount \in Ids
    /\ thrCount' = thrCount + 1
    /\ entry' = Set(entry, thrCount, "thread")
    /\ status' = Set(status, thrCount, "STOPPED")
    /\ worker' = Set(worker, thrCount, "created")
    /\ UNCHANGED <<exited, deleted, finishSig, emitted, arg, failed>>

\* start, once for each id: QThread::start, then the status.

Start(i) ==
    /\ OwnerGoes("idle", "startStatus")
    /\ worker[i] = "created"
    /\ entry[i] = "thread"
    /\ worker' = Set(worker, i, "run")
    /\ exited' = Set(exited, i, FALSE)
    /\ arg' = i
    /\ UNCHANGED <<thrCount, map, deleted, finishSig, emitted, failed>>

StartStatusMutant ==  \* the status is forgotten
    /\ OwnerGoes("startStatus", "idle")
    /\ UNCHANGED <<thrCount, map, qthread, finishSig, emitted, arg, failed>>

StartStatus ==
    /\ OwnerGoes("startStatus", "idle")
    /\ Lookup(arg)
    /\ status' = Set(status, arg, "RUNNING")
    /\ UNCHANGED <<thrCount, qthread, finishSig, emitted, arg, failed>>

\* finish of an id that is in the map: quit, a second look at the map, wait.

Finish(i) ==
    /\ OwnerGoes("idle", "finishLookup")
    /\ entry[i] = "thread"
    /\ exited' = Set(exited, i, TRUE)
    /\ arg' = i
    /\ UNCHANGED <<thrCount, map, worker, deleted, finishSig, emitted, failed>>

FinishLookup ==
    /\ OwnerGoes("finishLookup", "finishWait")
    /\ entry[arg] = "thread"
    /\ UNCHANGED <<thrCount, map, qthread, finishSig, emitted, arg, failed>>

\* The worker has ended meanwhile: wait() is called on a null pointer.
FinishNull ==
    /\ OwnerGoes("finishLookup", "idle")
    /\ entry[arg] # "thread"
    /\ Lookup(arg)
    /\ failed' = TRUE
    /\ UNCHANGED <<thrCount, status, qthread, finishSig, emitted, arg>>

\* QThread::wait returns when the thread does not run.
Waited(i) == worker[i] \in {"created", "ended"}

FinishWait ==
    /\ OwnerGoes("finishWait", "idle")
    /\ Waited(arg)
    /\ UNCHANGED <<thrCount, map, qthread, finishSig, emitted, arg, failed>>

\* status: contains, then operator[].  An id that is not there is DELETED.

Status(i) ==
    /\ OwnerGoes("idle", "statusValue")
    /\ entry[i] # "absent"
    /\ arg' = i
    /\ UNCHANGED <<thrCount, map, qthread, finishSig, emitted, failed>>

StatusValue ==
    /\ OwnerGoes("statusValue", "idle")
    /\ Lookup(arg)
    /\ UNCHANGED <<thrCount, status, qthread, finishSig, emitted, arg, failed>>

DeliverQuitMutant(i) ==  \* the finish signal is not connected
    /\ OwnerGoes("idle", "idle")
    /\ finishSig[i] = "posted"
    /\ finishSig' = Set(finishSig, i, "taken")
    /\ UNCHANGED <<thrCount, map, qthread, emitted, arg, failed>>

\* The owner's event loop delivers the work's finish signal to QThread::quit.
DeliverQuit(i) ==
    /\ OwnerGoes("idle", "idle")
    /\ finishSig[i] = "posted"
    /\ i \notin deleted
    /\ finishSig' = Set(finishSig, i, "taken")
    /\ exited' = Set(exited, i, TRUE)
    /\ UNCHANGED <<thrCount, map, worker, deleted, emitted, arg, failed>>

-----------------------------------------------------------------------------
\* ~ThreadPool: while the map is not empty, its first entry is copied, quit,
\* waited for and deleted, and its id removed.

Present == {i \in Ids : entry[i] # "absent"}

Destroy ==
    /\ OwnerGoes("idle", "destroy")
    /\ UNCHANGED <<thrCount, map, qthread, finishSig, emitted, arg, failed>>

DestroyMore ==
    /\ OwnerGoes("destroy", "destroyFirst")
    /\ Present # {}
    /\ UNCHANGED <<thrCount, map, qthread, finishSig, emitted, arg, failed>>

DestroyDone ==
    /\ OwnerGoes("destroy", "gone")
    /\ Present = {}
    /\ UNCHANGED <<thrCount, map, qthread, finishSig, emitted, arg, failed>>

DestroyFirst ==
    /\ OwnerGoes("destroyFirst", "destroyQuit")
    /\ \E i \in Present : (\A j \in Present : i <= j) /\ arg' = i
    /\ UNCHANGED <<thrCount, map, qthread, finishSig, emitted, failed>>

\* The last worker left the map meanwhile: first() of an empty list.
DestroyEmpty ==
    /\ OwnerGoes("destroyFirst", "idle")
    /\ Present = {}
    /\ failed' = TRUE
    /\ UNCHANGED <<thrCount, map, qthread, finishSig, emitted, arg>>

DestroyQuitMutant ==  \* wait() without quit()
    /\ OwnerGoes("destroyQuit", "destroyWait")
    /\ entry[arg] = "thread"
    /\ UNCHANGED <<thrCount, map, qthread, finishSig, emitted, arg, failed>>

DestroyQuit ==
    /\ OwnerGoes("destroyQuit", "destroyWait")
    /\ entry[arg] = "thread"
    /\ exited' = Set(exited, arg, TRUE)
    /\ UNCHANGED <<thrCount, map, worker, deleted, finishSig, emitted, arg, failed>>

\* A null thread is neither waited for nor deleted.
DestroyNull ==
    /\ OwnerGoes("destroyQuit", "destroyRemove")
    /\ entry[arg] # "thread"
    /\ Lookup(arg)
    /\ UNCHANGED <<thrCount, status, qthread, finishSig, emitted, arg, failed>>

DestroyWaitMutant ==  \* quit() without wait()
    /\ OwnerGoes("destroyWait", "destroyDelete")
    /\ UNCHANGED <<thrCount, map, qthread, finishSig, emitted, arg, failed>>

DestroyWait ==
    /\ OwnerGoes("destroyWait", "destroyDelete")
    /\ Waited(arg)
    /\ UNCHANGED <<thrCount, map, qthread, finishSig, emitted, arg, failed>>

DestroyDelete ==
    /\ OwnerGoes("destroyDelete", "destroyRemove")
    /\ deleted' = deleted \cup {arg}
    /\ UNCHANGED <<thrCount, map, worker, exited, finishSig, emitted, arg, failed>>

DestroyRemoveMutant ==  \* a worker's lambda is trusted to have removed the entry
    /\ OwnerGoes("destroyRemove", "destroy")
    /\ UNCHANGED <<thrCount, map, qthread, finishSig, emitted, arg, failed>>

DestroyRemove ==
    /\ OwnerGoes("destroyRemove", "destroy")
    /\ entry' = Set(entry, arg, "absent")
    /\ UNCHANGED <<thrCount, status, qthread, finishSig, emitted, arg, failed>>

-----------------------------------------------------------------------------
\* A worker: QThread runs the work's run slot, then its event loop until quit()
\* is seen, then emits QThread::finished, which runs the lambda.

WorkerGoes(i, from, to) ==
    /\ ~failed
    /\ worker[i] = from
    /\ worker' = Set(worker, i, to)

RunReturns(i) ==
    /\ WorkerGoes(i, "run", "loop")
    /\ UNCHANGED <<thrCount, map, exited, deleted, finishSig, emitted, owner, arg, failed>>

\* The work emits its finish signal, while it runs or from a later event.
\* QThread objects live in the owner's thread, so the quit is posted there.
EmitFinish(i) ==
    /\ ~failed
    /\ worker[i] \in {"run", "loop"}
    /\ finishSig[i] = "no"
    /\ finishSig' = Set(finishSig, i, "posted")
    /\ UNCHANGED <<thrCount, map, qthread, emitted, owner, arg, failed>>

LeaveLoop(i) ==
    /\ exited[i]
    /\ WorkerGoes(i, "loop", "emit")
    /\ UNCHANGED <<thrCount, map, exited, deleted, finishSig, emitted, owner, arg, failed>>

EmitFinished(i) ==
    /\ WorkerGoes(i, "emit", "stop")
    /\ emitted' = Set(emitted, i, emitted[i] + 1)
    /\ UNCHANGED <<thrCount, map, exited, deleted, finishSig, owner, arg, failed>>

LambdaStop(i) ==
    /\ WorkerGoes(i, "stop", "remove")
    /\ Lookup(i)
    /\ status' = Set(status, i, "STOPPED")
    /\ UNCHANGED <<thrCount, exited, deleted, finishSig, emitted, owner, arg, failed>>

LambdaRemove(i) ==
    /\ WorkerGoes(i, "remove", "exiting")
    /\ entry' = Set(entry, i, "absent")
    /\ UNCHANGED <<thrCount, status, exited, deleted, finishSig, emitted, owner, arg, failed>>

\* The work is deleted (deleteLater) and waiters are woken.
End(i) ==
    /\ WorkerGoes(i, "exiting", "ended")
    /\ UNCHANGED <<thrCount, map, exited, deleted, finishSig, emitted, owner, arg, failed>>

-----------------------------------------------------------------------------
OwnerRuns ==
    \/ StartStatus
    \/ FinishLookup \/ FinishNull \/ FinishWait
    \/ StatusValue
    \/ DestroyMore \/ DestroyDone \/ DestroyFirst \/ DestroyEmpty
    \/ DestroyQuit \/ DestroyNull
    \/ DestroyWait \/ DestroyDelete \/ DestroyRemove

WorkerRuns(i) ==
    \/ RunReturns(i) \/ LeaveLoop(i)
    \/ EmitFinished(i) \/ LambdaStop(i) \/ LambdaRemove(i) \/ End(i)

Next ==
    \/ Create
    \/ \E i \in Ids : Start(i) \/ Finish(i) \/ Status(i) \/ DeliverQuit(i)
    \/ Destroy
    \/ OwnerRuns
    \/ \E i \in Ids : WorkerRuns(i) \/ EmitFinish(i)

\* Threads run and the work's run slot returns.  The owner's event loop hands
\* out what is posted to it in order, whatever else it does between: strong
\* fairness for each posted quit.
Fairness ==
    /\ WF_vars(OwnerRuns)
    /\ \A i \in Ids : WF_vars(WorkerRuns(i)) /\ SF_vars(DeliverQuit(i))

Spec == Init /\ [][Next]_vars /\ Fairness

-----------------------------------------------------------------------------
\* Properties.

OwnerLabels == {"idle", "startStatus", "finishLookup", "finishWait", "statusValue",
                "destroy", "destroyFirst", "destroyQuit", "destroyWait",
                "destroyDelete", "destroyRemove", "gone"}

WorkerLabels == {"none", "created", "run", "loop", "emit", "stop", "remove",
                 "exiting", "ended"}

\* The types of the pool's state.
TypeOK ==
    /\ thrCount \in 1 .. MaxId + 1
    /\ entry \in [Ids -> {"absent", "thread", "null"}]
    /\ status \in [Ids -> {"STOPPED", "RUNNING"}]
    /\ worker \in [Ids -> WorkerLabels]
    /\ exited \in [Ids -> BOOLEAN]
    /\ finishSig \in [Ids -> {"no", "posted", "taken"}]
    /\ emitted \in [Ids -> 0 .. 1]
    /\ deleted \subseteq Ids
    /\ owner \in OwnerLabels
    /\ arg \in Ids
    /\ failed \in BOOLEAN

\* Workers that run the pool's code now or will.
UsesPool(i) == worker[i] \in {"run", "loop", "emit", "stop", "remove"}

\* Once the destructor has returned no lambda runs in any worker: none touches
\* the map of a pool that is gone.
NoUseAfterDestroy == owner = "gone" => \A i \in Ids : ~UsesPool(i)

\* A deleted QThread leaves nothing dangling: it does not run, whatever workers
\* do between the wait for it and its deletion, and no entry of the map leads to
\* it but the one the destructor removes next.
NoDanglingThread ==
    \A i \in deleted :
        /\ Waited(i)
        /\ entry[i] # "absent" => owner = "destroyRemove" /\ arg = i

\* What status() answers: RUNNING from start() until finished(id) has been
\* emitted, DELETED only before create() and after finished(id) or the
\* destructor; a worker that has yet to announce its end is in the map.
StatusTells ==
    \A i \in Ids :
        /\ entry[i] # "absent" /\ status[i] = "RUNNING" => UsesPool(i)
        /\ UsesPool(i) /\ emitted[i] = 0 => entry[i] = "thread"
        /\ worker[i] = "loop" /\ owner = "idle" => status[i] = "RUNNING"

\* finish() of an id in the map never calls through a null pointer, and the
\* destructor never asks an empty list for its first element.
NeverFails == ~failed

\* Work that emits its finish signal is ended and leaves the map, whatever the
\* owner does meanwhile, unless the owner has died of a null pointer.
FinishEnds ==
    \A i \in Ids : finishSig[i] = "posted" ~> worker[i] = "ended" \/ failed

\* The destructor returns.
DestroyReturns == owner = "destroy" ~> owner = "gone" \/ failed
=============================================================================
