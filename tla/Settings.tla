------------------------------ MODULE Settings ------------------------------
(***************************************************************************)
(* Settings (src/settings.cpp): one QSettings object for the whole         *)
(* program, with one group stack, in front of a file; and the work         *)
(* directory, which is kept in it.                                         *)
(*                                                                         *)
(* QSettings keeps a copy of its file in memory.  It writes the copy when  *)
(* sync() is called, when the event loop comes round after a change, and   *)
(* when the program exits.  The file it uses is named after the            *)
(* application when the object is constructed: an object constructed       *)
(* before initialize() uses the file of an unknown organisation.           *)
(***************************************************************************)
EXTENDS Naturals, Sequences

CONSTANTS
    Keys,         \* the keys used, WorkDirKey among them
    WorkDirKey,   \* "workDir"
    Groups,       \* the names of groups
    Values,       \* what is stored, directories included
    DataDir,      \* dataDir(): the work directory nobody has chosen yet
    MaxDepth      \* bound on the nesting of groups

ASSUME KeysAssumption == WorkDirKey \in Keys
ASSUME MaxDepthAssumption == MaxDepth \in Nat

VARIABLES
    initialized,  \* s_settingsPathUpdated
    instance,     \* the file Settings::instance() was constructed on, or Nowhere
    stack,        \* the group stack of conf
    conf,         \* what conf holds in memory
    saved,        \* what each file holds
    workDir,      \* s_workDir
    chosen        \* history: the work directory a restart should find, or Absent

settingsVars == <<initialized, instance, stack, conf, saved, workDir, chosen>>

Absent  == "absent"
Nowhere == "nowhere"
Named   == "application"
Unnamed == "unknown organisation"

\* A key with the groups it is in, the outermost first.
Stacks == UNION {[1..d -> Groups] : d \in 0..MaxDepth}
Paths  == {Append(s, k) : s \in Stacks, k \in Keys}
Empty  == [p \in Paths |-> Absent]

SettingsTypeOK ==
    /\ initialized \in BOOLEAN
    /\ instance \in {Nowhere, Named, Unnamed}
    /\ stack \in Stacks
    /\ conf \in [Paths -> Values \cup {Absent}]
    /\ saved \in [{Named, Unnamed} -> [Paths -> Values \cup {Absent}]]
    /\ workDir \in Values \cup {DataDir, Absent}
    /\ chosen \in Values \cup {Absent}
    /\ instance = Nowhere => stack = <<>> /\ conf = Empty

-----------------------------------------------------------------------------
(* The state of a process that has just started, with nothing in memory. *)
Fresh(init, inst, st, c, w) ==
    /\ init = FALSE
    /\ inst = Nowhere
    /\ st = <<>>
    /\ c = Empty
    /\ w = Absent

SettingsInit ==
    /\ Fresh(initialized, instance, stack, conf, workDir)
    /\ saved = [f \in {Named, Unnamed} |-> Empty]
    /\ chosen = Absent

(* instance(): the object is constructed by the first call that needs it. *)
(* Before initialize() a debug build aborts in its assertion, which is a   *)
(* Kill; a release build goes on with an object on the wrong file.         *)
Instance ==
    IF instance # Nowhere THEN instance
    ELSE IF initialized THEN Named ELSE Unnamed

Loaded == IF instance # Nowhere THEN conf ELSE saved[Instance]

Path(key) == Append(stack, key)

IsBelow(prefix, p) ==
    /\ Len(prefix) <= Len(p)
    /\ SubSeq(p, 1, Len(prefix)) = prefix

\* sync(): the file holds what the memory holds.
Synced(c) == [saved EXCEPT ![Instance] = c]

-----------------------------------------------------------------------------
PushGroup(g) ==
    /\ Len(stack) < MaxDepth
    /\ instance' = Instance
    /\ conf' = Loaded
    /\ stack' = Append(stack, g)
    /\ UNCHANGED <<initialized, saved, workDir, chosen>>

PopGroup ==
    /\ instance' = Instance
    /\ conf' = Loaded
    /\ stack' = IF stack = <<>> THEN <<>> ELSE SubSeq(stack, 1, Len(stack) - 1)
    /\ UNCHANGED <<initialized, saved, workDir, chosen>>

\* groups(): what it pushes it pops; the object stays constructed.
ListGroups ==
    /\ instance = Nowhere
    /\ instance' = Instance
    /\ conf' = Loaded
    /\ UNCHANGED <<initialized, stack, saved, workDir, chosen>>

\* Whether a change at p is one of the work directory a restart will find.
RootChanged(p) == instance = Named /\ p = <<WorkDirKey>>

StoreMutant(key, v) ==  \* no sync
    /\ conf' = [conf EXCEPT ![Path(key)] = v]
    /\ UNCHANGED saved

Store(key, v) ==
    /\ conf' = [conf EXCEPT ![Path(key)] = v]
    /\ saved' = Synced(conf')

Set(key, v) ==
    /\ initialized
    /\ Store(key, v)
    /\ chosen' = IF RootChanged(Path(key)) THEN Absent ELSE chosen
    /\ UNCHANGED <<initialized, instance, stack, workDir>>

\* remove() takes away a key or a whole group; it does not sync.
RemoveName(name) ==
    /\ initialized
    /\ conf' = [p \in Paths |-> IF IsBelow(Path(name), p) THEN Absent ELSE conf[p]]
    /\ chosen' = IF instance = Named /\ IsBelow(Path(name), <<WorkDirKey>>)
                 THEN Absent ELSE chosen
    /\ UNCHANGED <<initialized, instance, stack, saved, workDir>>

SetWorkDirMutant(dir) ==  \* not stored
    /\ initialized
    /\ workDir' = dir
    /\ chosen' = IF RootChanged(Path(WorkDirKey)) THEN dir ELSE Absent
    /\ UNCHANGED <<initialized, instance, stack, conf, saved>>

(* setWorkDir(): set() stores it in the group that happens to be pushed,   *)
(* and stores nothing before initialize().                                 *)
SetWorkDir(dir) ==
    /\ workDir' = dir
    /\ IF initialized
       THEN Store(WorkDirKey, dir)
       ELSE UNCHANGED <<conf, saved>>
    /\ chosen' = IF initialized /\ RootChanged(Path(WorkDirKey)) THEN dir ELSE Absent
    /\ UNCHANGED <<initialized, instance, stack>>

\* initialize(), which the documentation wants called once.
Initialize ==
    /\ ~initialized
    /\ initialized' = TRUE
    /\ instance' = IF instance = Nowhere THEN Named ELSE instance
    /\ conf' = IF instance = Nowhere THEN saved[Named] ELSE conf
    /\ workDir' = IF conf'[Path(WorkDirKey)] = Absent THEN DataDir
                  ELSE conf'[Path(WorkDirKey)]
    /\ UNCHANGED <<stack, saved, chosen>>

-----------------------------------------------------------------------------
\* The event loop writes what was changed.
EventLoop ==
    /\ instance # Nowhere
    /\ saved' = Synced(conf)
    /\ UNCHANGED <<initialized, instance, stack, conf, workDir, chosen>>

Exit ==
    /\ saved' = IF instance = Nowhere THEN saved ELSE Synced(conf)
    /\ Fresh(initialized', instance', stack', conf', workDir')
    /\ UNCHANGED chosen

Kill ==
    /\ Fresh(initialized', instance', stack', conf', workDir')
    /\ UNCHANGED <<saved, chosen>>

SettingsNext ==
    \/ \E g \in Groups : PushGroup(g)
    \/ PopGroup
    \/ ListGroups
    \/ \E k \in Keys, v \in Values : Set(k, v)
    \/ \E n \in Keys \cup Groups : RemoveName(n)
    \/ \E v \in Values : SetWorkDir(v)
    \/ Initialize
    \/ EventLoop
    \/ Exit
    \/ Kill

SettingsSpec == SettingsInit /\ [][SettingsNext]_settingsVars

-----------------------------------------------------------------------------
(* Set stores and syncs, remove does not: a kill may bring back what was   *)
(* removed, and never loses or reverts what was set.                       *)
OnlyRemovalsPending ==
    instance # Nowhere =>
        \A p \in Paths :
            saved[instance][p] # conf[p] => conf[p] = Absent

(* A work directory set outside any group, in a program that called        *)
(* initialize() first, is the work directory of this and of every later    *)
(* process, killed or not, until it is set or removed again.               *)
WorkDirSurvives ==
    initialized /\ instance = Named /\ chosen # Absent => workDir = chosen
=============================================================================
