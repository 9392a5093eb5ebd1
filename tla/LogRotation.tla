----------------------------- MODULE LogRotation -----------------------------
(***************************************************************************)
(* The life of one log file on disk: Logger::writeLog appends a line and   *)
(* calls Files::checkNGzip, which shifts the numbered archives             *)
(* (Files::rotateFiles), compresses the log into archive 0                 *)
(* (ZipUtil::CompressFile) and truncates it.  Logger's mutex makes the     *)
(* whole call sequential; each file system operation is a step, may fail,  *)
(* and the process may be killed between any two of them.                  *)
(*                                                                         *)
(* A message is its number.  A file is the set of messages in it; a log    *)
(* is compressed only when it is not empty, so the empty set also stands   *)
(* for an archive that does not exist.                                     *)
(***************************************************************************)
EXTENDS Naturals, FiniteSets

CONSTANTS
    Count,      \* highest archive index (rotateFiles' count, 9 in the code)
    MaxSize,    \* messages that fill LOG_MAX_SIZE bytes
    MaxMsgs,    \* bound: messages written in a behaviour
    MaxFaults   \* bound: failed operations and kills in a behaviour

ASSUME CountAssumption == Count \in Nat \ {0}
ASSUME MaxSizeAssumption == MaxSize \in Nat \ {0}
ASSUME BoundsAssumption == MaxMsgs \in Nat /\ MaxFaults \in Nat

VARIABLES
    pc,      \* where the call under way stands, "idle" between calls
    slot,    \* the loop variable i of rotateFiles
    live,    \* messages in the log file
    arch,    \* messages in <log>.<i>.zip, for each i
    last,    \* number of the newest message that reached the disk
    faults,  \* faults so far
    clean    \* no fault since the log was last truncated (history variable)

vars == <<pc, slot, live, arch, last, faults, clean>>

Slots == 0 .. Count

Messages == 1 .. MaxMsgs

Labels == {"idle", "check", "remove", "rename", "zipOpen", "zipAdd",
           "zipClose", "truncate"}

Init ==
    /\ pc = "idle"
    /\ slot = Count
    /\ live = {}
    /\ arch = [i \in Slots |-> {}]
    /\ last = 0
    /\ faults = 0
    /\ clean = TRUE

Exists(i) == arch[i] # {}

\* An operation of the call goes wrong.
Fault ==
    /\ faults < MaxFaults
    /\ faults' = faults + 1
    /\ clean' = FALSE

NoFault == UNCHANGED <<faults, clean>>

-----------------------------------------------------------------------------
\* Logger::writeLog and Logger::writeStart: append, flush, checkNGzip.  A
\* file that does not open changes nothing.

Append ==
    /\ pc = "idle"
    /\ last < MaxMsgs
    /\ last' = last + 1
    /\ live' = live \cup {last + 1}
    /\ pc' = "check"
    /\ NoFault
    /\ UNCHANGED <<slot, arch>>

\* The flush fails (a full disk); writeLog does not look and goes on.
AppendLost ==
    /\ pc = "idle"
    /\ Fault
    /\ pc' = "check"
    /\ UNCHANGED <<slot, live, arch, last>>

-----------------------------------------------------------------------------
\* Files::checkNGzip.

TooBigMutant == Cardinality(live) > MaxSize  \* > for >=
TooBig == Cardinality(live) >= MaxSize

CheckSmall ==
    /\ pc = "check"
    /\ ~TooBig
    /\ pc' = "idle"
    /\ NoFault
    /\ UNCHANGED <<slot, live, arch, last>>

CheckBig ==
    /\ pc = "check"
    /\ TooBig
    /\ pc' = "remove"
    /\ slot' = Count
    /\ NoFault
    /\ UNCHANGED <<live, arch, last>>

-----------------------------------------------------------------------------
\* Files::rotateFiles, one turn of the loop: .<slot>.zip makes room, then
\* .<slot - 1>.zip takes its name.

Remove ==
    /\ pc = "remove"
    /\ arch' = [arch EXCEPT ![slot] = {}]
    /\ pc' = "rename"
    /\ NoFault
    /\ UNCHANGED <<slot, live, last>>

\* The result of fn.remove() is not looked at.
RemoveFails ==
    /\ pc = "remove"
    /\ Exists(slot)
    /\ Fault
    /\ pc' = "rename"
    /\ UNCHANGED <<slot, live, arch, last>>

NextTurnMutant ==  \* one turn too many
    IF slot = 0
    THEN pc' = "zipOpen" /\ slot' = slot
    ELSE pc' = "remove" /\ slot' = slot - 1

NextTurn ==
    IF slot = 1
    THEN pc' = "zipOpen" /\ slot' = slot
    ELSE pc' = "remove" /\ slot' = slot - 1

SkipRename ==
    /\ pc = "rename"
    /\ ~Exists(slot - 1)
    /\ NextTurn
    /\ NoFault
    /\ UNCHANGED <<live, arch, last>>

Rename ==
    /\ pc = "rename"
    /\ Exists(slot - 1)
    /\ ~Exists(slot)
    /\ arch' = [arch EXCEPT ![slot] = arch[slot - 1], ![slot - 1] = {}]
    /\ NextTurn
    /\ NoFault
    /\ UNCHANGED <<live, last>>

RenameFailsMutant ==  \* the failed rename does not end the rotation
    /\ pc = "rename"
    /\ Exists(slot - 1)
    /\ Fault
    /\ NextTurn
    /\ UNCHANGED <<live, arch, last>>

\* QFile::rename refuses a name that is taken, and may fail by itself; the
\* rotation ends and checkNGzip leaves the log as it is.
RenameFails ==
    /\ pc = "rename"
    /\ Exists(slot - 1)
    /\ IF Exists(slot) THEN NoFault ELSE Fault
    /\ pc' = "idle"
    /\ UNCHANGED <<slot, live, arch, last>>

-----------------------------------------------------------------------------
\* ZipUtil::CompressFile(<log>.0.zip, <log>).  libzip reads the source and
\* writes the archive in zip_close, through a temporary file it renames.

ZipStep(from, to) ==
    /\ pc = from
    /\ pc' = to
    /\ NoFault
    /\ UNCHANGED <<slot, live, arch, last>>

ZipOpen == ZipStep("zipOpen", "zipAdd")

ZipAdd == ZipStep("zipAdd", "zipClose")

ZipCloseMutant ==  \* the archive gets index 1
    /\ pc = "zipClose"
    /\ arch' = [arch EXCEPT ![1] = live]
    /\ pc' = "truncate"
    /\ NoFault
    /\ UNCHANGED <<slot, live, last>>

ZipClose ==
    /\ pc = "zipClose"
    /\ arch' = [arch EXCEPT ![0] = live]
    /\ pc' = "truncate"
    /\ NoFault
    /\ UNCHANGED <<slot, live, last>>

ZipFailsMutant ==  \* the result of CompressFile is not looked at
    /\ pc \in {"zipOpen", "zipAdd", "zipClose"}
    /\ Fault
    /\ pc' = "truncate"
    /\ UNCHANGED <<slot, live, arch, last>>

\* zip_open, addFile or zip_close fails: no archive 0, the log stays.
ZipFails ==
    /\ pc \in {"zipOpen", "zipAdd", "zipClose"}
    /\ Fault
    /\ pc' = "idle"
    /\ UNCHANGED <<slot, live, arch, last>>

TruncateMutant ==  \* resize(0) is forgotten
    /\ pc = "truncate"
    /\ pc' = "idle"
    /\ clean' = TRUE
    /\ UNCHANGED <<slot, live, arch, last, faults>>

Truncate ==
    /\ pc = "truncate"
    /\ live' = {}
    /\ pc' = "idle"
    /\ clean' = TRUE
    /\ UNCHANGED <<slot, arch, last, faults>>

\* The result of logFile->resize(0) is not looked at.
TruncateFails ==
    /\ pc = "truncate"
    /\ Fault
    /\ pc' = "idle"
    /\ UNCHANGED <<slot, live, arch, last>>

-----------------------------------------------------------------------------
\* The process is killed between two operations and started again.
Crash ==
    /\ pc # "idle"
    /\ Fault
    /\ pc' = "idle"
    /\ UNCHANGED <<slot, live, arch, last>>

Next ==
    \/ Append \/ AppendLost
    \/ CheckSmall \/ CheckBig
    \/ Remove \/ RemoveFails
    \/ SkipRename \/ Rename \/ RenameFails
    \/ ZipOpen \/ ZipAdd \/ ZipClose \/ ZipFails
    \/ Truncate \/ TruncateFails
    \/ Crash

Spec == Init /\ [][Next]_vars

-----------------------------------------------------------------------------
\* Properties.

\* The types of the variables of one log file and its archives.
TypeOK ==
    /\ pc \in Labels
    /\ slot \in 1 .. Count
    /\ live \in SUBSET Messages
    /\ arch \in [Slots -> SUBSET Messages]
    /\ last \in 0 .. MaxMsgs
    /\ faults \in 0 .. MaxFaults
    /\ clean \in BOOLEAN

\* The messages of the log and of its k newest archives.
Newest(k) ==
    {m \in Messages : m \in live \/ \E i \in Slots : i < k /\ m \in arch[i]}

\* Every message written.
Readable == Newest(Count + 1)

\* If a message of S is known, all that was written after it is too.
GapFree(S) == \A m \in S, n \in 1 .. last : m <= n => n \in S

\* Read the log and any number of archives in the order of their numbers:
\* there is no gap in what they hold, up to the newest message written,
\* whatever failed and wherever the process was killed.
NewestGapFree == \A k \in 0 .. Count + 1 : GapFree(Newest(k))

\* Between two calls the log is below LOG_MAX_SIZE, unless something failed
\* since it was last truncated (Files::checkNGzip's promise).
SizeBound == pc = "idle" /\ clean => Cardinality(live) < MaxSize

\* While nothing has failed, no message is in two files between two calls.
NoDuplicates ==
    pc = "idle" /\ faults = 0 =>
        /\ \A i \in Slots : live \cap arch[i] = {}
        /\ \A i, j \in Slots : i # j => arch[i] \cap arch[j] = {}

\* While nothing has failed, an archive is given up only when every index
\* below it is taken: rotateFiles does not waste an index.
EvictWhenFull ==
    [][faults' = 0 /\ ~(Readable \subseteq Readable')
           => \A i \in Slots : Exists(i)]_vars

\* The files together are a rolling log: a step adds the next message, or
\* gives up the oldest ones and keeps a full log of the newest.
FullLog(S) == Cardinality(S) >= MaxSize
Rolling == INSTANCE RollingLog WITH kept <- Readable, Enough <- FullLog
RollingSpec == Rolling!Spec
=============================================================================
