------------------------------ MODULE Commands ------------------------------
(***************************************************************************)
(* ExecuteCommandAsync (src/executecommand.cpp), its branch for Linux:     *)
(* every execute() makes a thread and an object that lives in it, whose    *)
(* run() reads the command's output and emits finished, then               *)
(* resultAcquired.  The receivers of both, and of the thread's exit(),     *)
(* live in the owner's thread: what is emitted waits in its event queue.   *)
(*                                                                         *)
(* run() is called by the signal started, before the thread has entered an *)
(* event loop; an exit() that comes earlier than the loop is remembered.   *)
(***************************************************************************)
EXTENDS Filters

CONSTANTS Executions   \* the calls of execute()

VARIABLES
    stage,       \* where the thread of each call is
    exited,      \* exit() was called for it
    inbox,       \* the owner's event queue
    received,    \* what the ExecuteCommandAsync emitted
    living,      \* the threads and the objects that are not deleted
    receiver,    \* the ExecuteCommandAsync lives
    crashed      \* run() used a pipe it does not have

commandsVars == <<stage, exited, inbox, received, living, receiver, crashed>>

Signals == {"finished", "resultAcquired"}
Calls   == {"exit", "delete"}   \* for the thread
Events  == [kind : Signals \cup Calls, of : Executions]
Objects(e) == {<<"thread", e>>, <<"object", e>>}

CommandsTypeOK ==
    /\ stage \in [Executions -> {"none", "open", "read", "no pipe", "reported",
                                 "loop", "over"}]
    /\ exited \in [Executions -> BOOLEAN]
    /\ inbox \in Seq(Events)
    /\ received \in Seq([kind : Signals, of : Executions])
    /\ living \subseteq UNION {Objects(e) : e \in Executions}
    /\ receiver \in BOOLEAN /\ crashed \in BOOLEAN

CommandsInit ==
    /\ stage = [e \in Executions |-> "none"]
    /\ exited = [e \in Executions |-> FALSE]
    /\ inbox = <<>> /\ received = <<>>
    /\ living = {}
    /\ receiver = TRUE /\ crashed = FALSE

In(e, s)    == ~crashed /\ stage[e] = s
GoTo(e, s)  == stage' = [stage EXCEPT ![e] = s]
Event(k, e) == [kind |-> k, of |-> e]

\* An event for the ExecuteCommandAsync is dropped when that is gone.
Posted(events) ==
    inbox \o IF receiver THEN events ELSE Filter(events, [kind : Calls, of : Executions])

-----------------------------------------------------------------------------
Execute(e) ==
    /\ In(e, "none") /\ receiver
    /\ GoTo(e, "open")
    /\ living' = living \cup Objects(e)
    /\ UNCHANGED <<exited, inbox, received, receiver, crashed>>

OpenPipe(e) ==
    /\ In(e, "open")
    /\ GoTo(e, "read")
    /\ UNCHANGED <<exited, inbox, received, living, receiver, crashed>>

FinishedMutant(e) == <<Event("finished", e)>>   \* exit() is not connected

\* What an emission of finished sets off, in the order of its connections.
Finished(e) == <<Event("finished", e), Event("exit", e)>>

\* popen fails, or reading throws and the pipe is closed: run() goes on.
PipeFails(e) ==
    /\ In(e, "open") \/ In(e, "read")
    /\ GoTo(e, "no pipe")
    /\ inbox' = Posted(Finished(e))
    /\ UNCHANGED <<exited, received, living, receiver, crashed>>

\* The pipe that is null, or closed, is read from or closed once more.
UseNoPipe(e) ==
    /\ In(e, "no pipe")
    /\ crashed' = TRUE
    /\ UNCHANGED <<stage, exited, inbox, received, living, receiver>>

ReadAll(e) ==
    /\ In(e, "read")
    /\ GoTo(e, "reported")
    /\ inbox' = Posted(Finished(e))
    /\ UNCHANGED <<exited, received, living, receiver, crashed>>

EmitResult(e) ==
    /\ In(e, "reported")
    /\ GoTo(e, "loop")
    /\ inbox' = Posted(<<Event("resultAcquired", e)>>)
    /\ UNCHANGED <<exited, received, living, receiver, crashed>>

\* The thread ends and deletes its object; itself, through the owner's loop.
EndThread(e) ==
    /\ In(e, "loop") /\ exited[e]
    /\ GoTo(e, "over")
    /\ living' = living \ {<<"object", e>>}
    /\ inbox' = Posted(<<Event("delete", e)>>)
    /\ UNCHANGED <<exited, received, receiver, crashed>>

\* The owner's event loop takes the next event.
Deliver ==
    /\ ~crashed /\ inbox # <<>>
    /\ LET x == Head(inbox)
       IN  /\ received' = IF x.kind \in Signals THEN Append(received, x) ELSE received
           /\ exited' = [exited EXCEPT ![x.of] = @ \/ x.kind = "exit"]
           /\ living' = IF x.kind = "delete" THEN living \ {<<"thread", x.of>>}
                        ELSE living
    /\ inbox' = Tail(inbox)
    /\ UNCHANGED <<stage, receiver, crashed>>

\* The ExecuteCommandAsync is deleted, and what waits for it with it.
DeleteReceiver ==
    /\ ~crashed /\ receiver
    /\ receiver' = FALSE
    /\ inbox' = Filter(inbox, [kind : Calls, of : Executions])
    /\ UNCHANGED <<stage, exited, received, living, crashed>>

CommandsNext ==
    \/ \E e \in Executions :
           \/ Execute(e) \/ OpenPipe(e) \/ PipeFails(e) \/ UseNoPipe(e)
           \/ ReadAll(e) \/ EmitResult(e) \/ EndThread(e)
    \/ Deliver
    \/ DeleteReceiver

CommandsSpec == CommandsInit /\ [][CommandsNext]_commandsVars

-----------------------------------------------------------------------------
\* No thread can go on and no event waits.
AtRest ==
    /\ ~crashed /\ inbox = <<>>
    /\ \A e \in Executions :
           stage[e] \in {"none", "over"} \/ (stage[e] = "loop" /\ ~exited[e])

(* Nothing gets lost between a command's thread and its owner's, however   *)
(* the two threads, and several commands, interleave: when all is at rest, *)
(* each command's thread is over and its objects are deleted, and an       *)
(* ExecuteCommandAsync that still lives has emitted finished and then      *)
(* resultAcquired, each once.                                              *)
CommandsEnd ==
    AtRest =>
        /\ living = {}
        /\ \A e \in Executions :
               stage[e] = "over" /\ receiver =>
                   Filter(received, [kind : Signals, of : {e}])
                       = <<Event("finished", e), Event("resultAcquired", e)>>
=============================================================================
