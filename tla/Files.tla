------------------------------- MODULE Files -------------------------------
(***************************************************************************)
(* Saving files (src/files/files.cpp: SaveToFile, SaveToTempFile), with    *)
(* the renaming and the removal of files meanwhile, from several threads.  *)
(* A name leads to a file; a thread that has opened a file goes on with it *)
(* whatever becomes of the name.                                           *)
(*                                                                         *)
(* The text is written from the beginning of the file: at once when it is  *)
(* large, and when the file is closed otherwise.                           *)
(***************************************************************************)
EXTENDS Naturals, Sequences, SequencesExt

CONSTANTS
    Savers,      \* threads
    FileNames,
    TempNames,   \* the names of temporary files
    MaxSaves,    \* bound on the saves
    MaxSlips     \* bound on the writes that fail

ASSUME MaxSavesAssumption == MaxSaves \in Nat
ASSUME MaxSlipsAssumption == MaxSlips \in Nat

VARIABLES
    named,       \* the file a name leads to, or 0
    body,        \* what each file holds
    at,          \* where each thread is in a save
    hold,        \* the file it has open
    text,        \* what it saves
    buffer,      \* what QFile still keeps of that
    saves, slips,
    shared,      \* history: files that were open twice at a time
    cut          \* history: files whose last save was cut short

filesVars == <<named, body, at, hold, text, buffer, saves, slips, shared, cut>>

Texts    == {"long", "short"}
Blocks   == Texts \X (1..2)
Text(v)  == IF v = "long" THEN <<<<v, 1>>, <<v, 2>>>> ELSE <<<<v, 1>>>>
FileIds  == 1..MaxSaves
AllNames == FileNames \cup TempNames

FilesTypeOK ==
    /\ named \in [AllNames -> 0..MaxSaves]
    /\ body \in [FileIds -> Seq(Blocks)]
    /\ at \in [Savers -> {"idle", "write", "close"}]
    /\ hold \in [Savers -> 0..MaxSaves]
    /\ text \in [Savers -> Texts]
    /\ buffer \in [Savers -> Seq(Blocks)]
    /\ saves \in 0..MaxSaves /\ slips \in 0..MaxSlips
    /\ shared \subseteq FileIds /\ cut \subseteq FileIds
    /\ \A s \in Savers : at[s] # "idle" => hold[s] # 0

FilesInit ==
    /\ named = [f \in AllNames |-> 0]
    /\ body = [i \in FileIds |-> <<>>]
    /\ at = [s \in Savers |-> "idle"]
    /\ hold = [s \in Savers |-> 0]
    /\ text = [s \in Savers |-> "long"]
    /\ buffer = [s \in Savers |-> <<>>]
    /\ saves = 0 /\ slips = 0
    /\ shared = {} /\ cut = {}

OpenFiles == {hold[s] : s \in {x \in Savers : at[x] # "idle"}}

\* What the file holds when blocks are written over its beginning.
Overwritten(i, blocks) ==
    blocks \o SubSeq(body[i], Len(blocks) + 1, Len(body[i]))

-----------------------------------------------------------------------------
TruncatedMutant(i) == body[i]   \* opened without Truncate

\* QIODevice::WriteOnly makes the file empty.
Truncated(i) == <<>>

BeginSave(s, i, v) ==
    /\ at[s] = "idle" /\ saves < MaxSaves
    /\ body' = [body EXCEPT ![i] = Truncated(i)]
    /\ at' = [at EXCEPT ![s] = "write"]
    /\ hold' = [hold EXCEPT ![s] = i]
    /\ text' = [text EXCEPT ![s] = v]
    /\ saves' = saves + 1
    /\ shared' = IF i \in OpenFiles THEN shared \cup {i} ELSE shared \ {i}
    /\ cut' = cut \ {i}
    /\ UNCHANGED <<buffer, slips>>

\* An open that fails returns and changes nothing.
SaveToFile(s, f, v) ==
    LET i == IF named[f] = 0 THEN saves + 1 ELSE named[f]
    IN  /\ named' = [named EXCEPT ![f] = i]
        /\ BeginSave(s, i, v)

\* The name of a temporary file is one that is not taken.
SaveToTempFile(s, f, v) ==
    /\ named[f] = 0
    /\ named' = [named EXCEPT ![f] = saves + 1]
    /\ BeginSave(s, saves + 1, v)

(* What reaches the file is a beginning of what was to, and less than all  *)
(* of it only if a write failed.                                           *)
Reaches(i, blocks, n) ==
    /\ body' = [body EXCEPT ![i] = Overwritten(i, SubSeq(blocks, 1, n))]
    /\ IF n = Len(blocks) THEN UNCHANGED <<slips, cut>>
       ELSE /\ slips < MaxSlips
            /\ slips' = slips + 1
            /\ cut' = cut \cup {i}

(* write(): what was cut short counts as written unless nothing was.  In   *)
(* each case the file is closed next; the temporary file's result is not   *)
(* looked at.                                                              *)
Write(s) ==
    /\ at[s] = "write"
    /\ at' = [at EXCEPT ![s] = "close"]
    /\ \/ /\ buffer' = [buffer EXCEPT ![s] = Text(text[s])]
          /\ UNCHANGED <<body, slips, cut>>
       \/ /\ \E n \in 0..Len(Text(text[s])) : Reaches(hold[s], Text(text[s]), n)
          /\ UNCHANGED buffer
    /\ UNCHANGED <<named, hold, text, saves, shared>>

\* close() writes what is buffered, and nobody asks whether it could.
CloseFile(s) ==
    /\ at[s] = "close"
    /\ at' = [at EXCEPT ![s] = "idle"]
    /\ \E n \in 0..Len(buffer[s]) : Reaches(hold[s], buffer[s], n)
    /\ buffer' = [buffer EXCEPT ![s] = <<>>]
    /\ hold' = [hold EXCEPT ![s] = 0]
    /\ UNCHANGED <<named, text, saves, shared>>

-----------------------------------------------------------------------------
\* rename() takes no name that is taken.
Rename(f, g) ==
    /\ named[f] # 0 /\ named[g] = 0
    /\ named' = [named EXCEPT ![f] = 0, ![g] = named[f]]
    /\ UNCHANGED <<body, at, hold, text, buffer, saves, slips, shared, cut>>

\* removeOlderThan() removes the files it listed, one by one: any, in time.
RemoveOld(f) ==
    /\ named[f] # 0
    /\ named' = [named EXCEPT ![f] = 0]
    /\ UNCHANGED <<body, at, hold, text, buffer, saves, slips, shared, cut>>

KillSavers ==
    /\ OpenFiles # {}
    /\ cut' = cut \cup OpenFiles
    /\ at' = [s \in Savers |-> "idle"]
    /\ hold' = [s \in Savers |-> 0]
    /\ buffer' = [s \in Savers |-> <<>>]
    /\ UNCHANGED <<named, body, text, saves, slips, shared>>

FilesNext ==
    \/ \E s \in Savers, f \in FileNames, v \in Texts : SaveToFile(s, f, v)
    \/ \E s \in Savers, f \in TempNames, v \in Texts : SaveToTempFile(s, f, v)
    \/ \E s \in Savers : Write(s) \/ CloseFile(s)
    \/ \E f, g \in AllNames : Rename(f, g)
    \/ \E f \in AllNames : RemoveOld(f)
    \/ KillSavers

FilesSpec == FilesInit /\ [][FilesNext]_filesVars

-----------------------------------------------------------------------------
(* A file that only one save at a time had open holds a beginning of one   *)
(* text, never the rest of an earlier one behind it; once that save is     *)
(* over, and neither a failed write nor a kill cut it short, the whole.    *)
NoLeftovers ==
    \A i \in FileIds \ shared :
        \E v \in Texts :
            /\ IsPrefix(body[i], Text(v))
            /\ (\E f \in AllNames : named[f] = i) =>
                   i \in OpenFiles \cup cut \/ body[i] = Text(v)
=============================================================================
