------------------------------ MODULE Archives ------------------------------
(***************************************************************************)
(* The calls of ZipUtil (src/files/ziputil.cpp) on one archive, made from  *)
(* several threads: each opens the archive, works on its handle, and ends  *)
(* the handle.                                                             *)
(*                                                                         *)
(* libzip reads the archive's directory when it opens it, remembers what   *)
(* is added, and does the work in zip_close: only then are the files read, *)
(* one after the other, and is the new archive written, beside the old     *)
(* one, and renamed over it.  With nothing added zip_close writes nothing, *)
(* and an archive with no entry is no file.                                *)
(*                                                                         *)
(* A behaviour ends where the code's becomes undefined.                    *)
(***************************************************************************)
EXTENDS Naturals, FiniteSets

CONSTANTS
    Callers,     \* threads
    Names,       \* of files, and of entries
    Contents,    \* of files, other than none at all
    MaxCalls,    \* bound on the calls
    MaxFaults    \* bound on what goes wrong below the code

VARIABLES
    disk,        \* the files of the working directory
    zip,         \* the entries of the archive
    pc,          \* where each caller is
    op,          \* the call it is in, or was in last
    todo,        \* the names it has still to work on
    asked,       \* the names it has to work on in all
    old,         \* za: the entries when the archive was opened
    added,       \* za: the sources added since, and what was read of them
    given,       \* the bytes AddFile() was given
    was,         \* the files when the call began (history variable)
    err,         \* what the last call returned
    bytes,       \* what DecompressFileToBA() returned last, or will
    calls, faults,
    undefined    \* a handle was used after zip_discard, or a null one

archivesVars == <<disk, zip, pc, op, todo, asked, old, added, given, was, err,
                  bytes, calls, faults, undefined>>

za   == <<old, added>>
call == <<given, was>>

NoFile   == "no file"
Blank    == "blank"          \* a file, or bytes, of length 0
Unread   == "unread"         \* a file that zip_close will read
Torn     == "torn"           \* a beginning of a file truncated while it was read
Stored   == Contents \cup {Blank, Torn}
Entries  == [Names -> Stored \cup {NoFile}]
Nothing  == [n \in Names |-> NoFile]

ASSUME ContentsAssumption == Contents \cap {NoFile, Blank, Unread, Torn} = {}
ASSUME CallsAssumption == MaxCalls \in Nat /\ MaxFaults \in Nat

Writers  == {"CompressFile", "CompressDir", "AddFile"}
Readers  == {"DecompressFile", "DecompressFileToBA"}
Results  == {"NoError", "FileOpenError", "FileWriteError", "ReadError"}

ArchivesTypeOK ==
    /\ disk \in Entries /\ zip \in Entries
    /\ pc \in [Callers -> {"idle", "add", "read", "close", "source"}]
    /\ op \in [Callers -> Writers \cup Readers \cup {"GetArchiveContentsList"}]
    /\ todo \in [Callers -> SUBSET Names] /\ asked \in [Callers -> SUBSET Names]
    /\ old \in [Callers -> Entries]
    /\ added \in [Callers -> [Names -> Stored \cup {NoFile, Unread}]]
    /\ given \in [Callers -> Contents \cup {Unread}]
    /\ was \in [Callers -> Entries]
    /\ err \in [Callers -> Results]
    /\ bytes \in [Callers -> Stored]
    /\ calls \in 0..MaxCalls /\ faults \in 0..MaxFaults
    /\ undefined \in BOOLEAN

Idle(c)     == ~undefined /\ pc[c] = "idle" /\ calls < MaxCalls
At(c, p)    == ~undefined /\ pc[c] = p
Fault       == faults < MaxFaults /\ faults' = faults + 1
EntriesOf(z) == {n \in Names : z[n] # NoFile}
Exists      == EntriesOf(zip) # {}

ArchivesInit ==
    /\ disk \in [Names -> Contents \cup {NoFile}]
    /\ zip = Nothing
    /\ pc = [c \in Callers |-> "idle"]
    /\ op = [c \in Callers |-> "GetArchiveContentsList"]
    /\ todo = [c \in Callers |-> {}] /\ asked = [c \in Callers |-> {}]
    /\ old = [c \in Callers |-> Nothing] /\ added = [c \in Callers |-> Nothing]
    /\ given = [c \in Callers |-> Unread] /\ was = [c \in Callers |-> Nothing]
    /\ err = [c \in Callers |-> "NoError"]
    /\ bytes = [c \in Callers |-> Blank]
    /\ calls = 0 /\ faults = 0 /\ undefined = FALSE

-----------------------------------------------------------------------------
(* Opening.  With ZIP_CREATE there need not be an archive. *)
Opens(c, o, names, ba, p) ==
    /\ Idle(c)
    /\ op' = [op EXCEPT ![c] = o]
    /\ todo' = [todo EXCEPT ![c] = names]
    /\ pc' = [pc EXCEPT ![c] = p]
    /\ old' = [old EXCEPT ![c] = zip]
    /\ added' = [added EXCEPT ![c] = Nothing]
    /\ given' = [given EXCEPT ![c] = ba]
    /\ was' = [was EXCEPT ![c] = disk]
    /\ asked' = [asked EXCEPT ![c] = names]
    /\ bytes' = [bytes EXCEPT ![c] = Blank]
    /\ calls' = calls + 1
    /\ UNCHANGED <<disk, zip, err, faults, undefined>>

CompressFile(c) == \E n \in Names : Opens(c, "CompressFile", {n}, Unread, "add")

\* CompressDir() lists the directory once; a file's content is read later.
CompressDir(c) ==
    LET listed == EntriesOf(disk)
    IN  Opens(c, "CompressDir", listed, Unread, IF listed = {} THEN "close" ELSE "add")

\* Without bytes AddFile() adds the file of that name.
AddFile(c) ==
    \E n \in Names, ba \in Contents \cup {Unread} : Opens(c, "AddFile", {n}, ba, "add")

DecompressFile(c) ==
    Exists /\ Opens(c, "DecompressFile", EntriesOf(zip), Unread, "read")

DecompressFileToBA(c) ==
    /\ Exists
    /\ \E n \in Names :
           LET found == {n} \cap EntriesOf(zip)
           IN  Opens(c, "DecompressFileToBA", found, Unread,
                     IF found = {} THEN "close" ELSE "read")

GetArchiveContentsList(c) ==
    Exists /\ Opens(c, "GetArchiveContentsList", {}, Unread, "close")

(* A zip_open that fails.  AddFile() goes on to ask the null handle for the *)
(* reason.                                                                  *)
OpenFails(c, o) ==
    /\ Idle(c)
    /\ calls' = calls + 1
    /\ op' = [op EXCEPT ![c] = o]
    /\ asked' = [asked EXCEPT ![c] = {}]
    /\ err' = [err EXCEPT ![c] = "FileOpenError"]
    /\ bytes' = [bytes EXCEPT ![c] = Blank]
    /\ undefined' = (o = "AddFile")
    /\ \/ o \notin Writers /\ ~Exists /\ UNCHANGED faults
       \/ Fault
    /\ UNCHANGED <<disk, zip, pc, todo, za, call>>

-----------------------------------------------------------------------------
Return(c, e) ==
    /\ pc' = [pc EXCEPT ![c] = "idle"]
    /\ todo' = [todo EXCEPT ![c] = {}]
    /\ err' = [err EXCEPT ![c] = e]
    /\ old' = [old EXCEPT ![c] = Nothing]
    /\ added' = [added EXCEPT ![c] = Nothing]
    /\ given' = [given EXCEPT ![c] = Unread]
    /\ was' = [was EXCEPT ![c] = Nothing]

After(c, n, p) ==
    /\ todo' = [todo EXCEPT ![c] = @ \ {n}]
    /\ pc' = [pc EXCEPT ![c] = IF todo'[c] = {} THEN "close" ELSE p]

(* addFile() adds a file that is read in zip_close, addFileBA() the bytes. *)
AddEntry(c) ==
    /\ At(c, "add")
    /\ \E n \in todo[c] :
           /\ added' = [added EXCEPT ![c][n] = given[c]]
           /\ After(c, n, "add")
    /\ UNCHANGED <<disk, zip, op, asked, old, call, err, bytes, calls, faults,
                   undefined>>

(* addFile() and addFileBA() discard the handle when they fail.             *)
(* CompressDir() does not look: its next use of the handle is undefined.    *)
AddFails(c) ==
    /\ At(c, "add")
    /\ Fault
    /\ Return(c, "FileWriteError")
    /\ undefined' = (op[c] = "CompressDir")
    /\ UNCHANGED <<disk, zip, op, asked, bytes, calls>>

-----------------------------------------------------------------------------
(* One entry is taken out.  The bytes go through an array of size 0: what   *)
(* zip_fread writes lies outside it, and if the program lives through that, *)
(* nothing arrives.  DecompressFile() writes to the working directory,      *)
(* whatever directory it was given.                                         *)
ReadEntry(c) ==
    /\ At(c, "read")
    /\ \E n \in todo[c] :
           /\ After(c, n, "read")
           /\ disk' = IF op[c] = "DecompressFile"
                      THEN [disk EXCEPT ![n] = Blank] ELSE disk
           /\ undefined' \in IF old[c][n] = Blank THEN {FALSE} ELSE BOOLEAN
    /\ UNCHANGED <<zip, op, asked, za, call, err, bytes, calls, faults>>

\* Every failure leaves the handle behind; a read fails after the file was made.
ReadFails(c) ==
    /\ At(c, "read")
    /\ Fault
    /\ \E n \in todo[c], e \in {"FileOpenError", "ReadError"} :
           /\ Return(c, e)
           /\ disk' = IF op[c] = "DecompressFile" /\ e = "ReadError"
                      THEN [disk EXCEPT ![n] = Blank] ELSE disk
    /\ UNCHANGED <<zip, op, asked, bytes, calls, undefined>>

-----------------------------------------------------------------------------
\* zip_close.  The files are opened and read one by one.

Sources(c) == {n \in Names : added[c][n] # NoFile}

OpenSource(c) ==
    /\ At(c, "close")
    /\ \E n \in Names :
           /\ added[c][n] = Unread
           /\ disk[n] # NoFile
           /\ added' = [added EXCEPT ![c][n] = disk[n]]
           /\ todo' = [todo EXCEPT ![c] = {n}]
    /\ pc' = [pc EXCEPT ![c] = "source"]
    /\ UNCHANGED <<disk, zip, op, asked, old, call, err, bytes, calls, faults, undefined>>

\* The file it reads was truncated: another call takes an entry of that name out.
CutShort(c) == \E n \in todo[c] : disk[n] # added[c][n]

\* Of a file truncated meanwhile any beginning may have been read before.
ReadSource(c) ==
    /\ At(c, "source")
    /\ \E n \in todo[c], s \in Stored :
           /\ s # added[c][n] => CutShort(c) /\ s \in {Torn, Blank}
           /\ added' = [added EXCEPT ![c][n] = s]
    /\ todo' = [todo EXCEPT ![c] = {}]
    /\ pc' = [pc EXCEPT ![c] = "close"]
    /\ UNCHANGED <<disk, zip, op, asked, old, call, err, bytes, calls, faults, undefined>>

WrittenMutant(c) ==  \* the old entries are lost
    [n \in Names |-> IF n \in Sources(c) THEN added[c][n] ELSE NoFile]

\* What zip_close writes: the old entries under the added ones.
Written(c) ==
    [n \in Names |-> IF n \in Sources(c) THEN added[c][n] ELSE old[c][n]]

CloseMutant(c) ==  \* files that cannot be read are skipped
    /\ At(c, "close")
    /\ \A n \in Sources(c) : added[c][n] = Unread => disk[n] = NoFile
    /\ zip' = [n \in Names |-> IF added[c][n] \in {NoFile, Unread} THEN old[c][n]
                               ELSE added[c][n]]
    /\ Return(c, "NoError")
    /\ UNCHANGED <<disk, op, asked, bytes, calls, faults, undefined>>

\* All is read: the new archive is renamed over the old one, and the call has
\* only to return.
Close(c) ==
    /\ At(c, "close")
    /\ \A n \in Sources(c) : added[c][n] # Unread
    /\ zip' = IF Sources(c) = {} THEN zip ELSE Written(c)
    /\ Return(c, "NoError")
    /\ UNCHANGED <<disk, op, asked, bytes, calls, faults, undefined>>

\* A file is missing, or has not the length it had.
SourceFails(c) ==
    \/ pc[c] = "close" /\ \E n \in Names : added[c][n] = Unread /\ disk[n] = NoFile
    \/ pc[c] = "source" /\ CutShort(c)

\* A zip_close that fails leaves the archive alone, and the handle to discard.
CloseFails(c) ==
    /\ At(c, "close") \/ At(c, "source")
    /\ IF SourceFails(c) THEN UNCHANGED faults ELSE Fault
    /\ Return(c, "FileWriteError")
    /\ UNCHANGED <<disk, zip, op, asked, bytes, calls, undefined>>

-----------------------------------------------------------------------------
Begin(c) ==
    \/ CompressFile(c) \/ CompressDir(c) \/ AddFile(c)
    \/ DecompressFile(c) \/ DecompressFileToBA(c) \/ GetArchiveContentsList(c)
    \/ \E o \in Writers \cup Readers \cup {"GetArchiveContentsList"} : OpenFails(c, o)

Work(c) ==
    \/ AddEntry(c) \/ AddFails(c)
    \/ ReadEntry(c) \/ ReadFails(c)
    \/ OpenSource(c) \/ ReadSource(c)
    \/ Close(c) \/ CloseFails(c)

ArchivesNext == \E c \in Callers : Begin(c) \/ Work(c)

ArchivesSpec == ArchivesInit /\ [][ArchivesNext]_archivesVars

-----------------------------------------------------------------------------
Ends(c, e) == pc[c] # "idle" /\ pc'[c] = "idle" /\ err'[c] = e

\* What a call that reports no error may have stored for a name it was asked to
\* store: the bytes it was given; or the file, as it was when the call began or as
\* it is; or a beginning of it, if the file was truncated meanwhile.
MayStore(c, n, s) ==
    IF given[c] # Unread THEN s = given[c]
    ELSE \/ s # NoFile /\ s \in {was[c][n], disk[n]}
         \/ s = Torn /\ was[c][n] # disk[n]

(* The archive changes only when a call that stores reports no error.  Then  *)
(* it holds all the call was asked to store, and under other names what it   *)
(* held when the call opened it.                                             *)
ReportsTell ==
    [][/\ \A c \in Callers :
             Ends(c, "NoError") /\ op[c] \in Writers =>
                 \A n \in asked[c] : MayStore(c, n, zip'[n])
       /\ zip' # zip =>
             \E c \in Callers :
                 /\ Ends(c, "NoError") /\ op[c] \in Writers
                 /\ \A n \in Names \ asked[c] : zip'[n] = old[c][n]
      ]_archivesVars

(* An entry leaves the archive only when a call ends that had opened the    *)
(* archive before the last change of it: calls that do not overlap lose     *)
(* nothing of one another.                                                  *)
LostOnlyToOverlap ==
    [][\A n \in Names :
           zip[n] # NoFile /\ zip'[n] = NoFile =>
               \E c \in Callers : pc[c] = "close" /\ old[c] # zip
      ]_archivesVars

(* What DecompressFileToBA() returns is the content of the entry it found. *)
ReadsBack ==
    [][\A c \in Callers :
           Ends(c, "NoError") /\ op[c] = "DecompressFileToBA" =>
               \A n \in asked[c] : bytes[c] = old[c][n]
      ]_archivesVars
=============================================================================
