--------------------------- MODULE KeepingProofs ----------------------------
(***************************************************************************)
(* Proofs about the parts that keep state: Settings, for any keys, groups  *)
(* and values, and groups nested to any depth; MemSettings, for any number *)
(* of listeners and of calls; Files, for any threads and names and any     *)
(* number of saves and of writes that fail; Archives, for any callers and  *)
(* files and any number of calls and of faults; Commands, for any number   *)
(* of executions; Waits, for any delays, any depth of waits within waits   *)
(* and any bound on the clock.                                             *)
(***************************************************************************)
EXTENDS Settings, MemSettings, Files, Archives, Commands, Waits, DataProofs

-----------------------------------------------------------------------------
(* Settings and MemSettings.                                                *)
Root == <<WorkDirKey>>

\* initialize() constructs the object; an object constructed before it, by a call
\* that needed it, stays on the wrong file.
Constructed ==
    /\ initialized => instance # Nowhere
    /\ instance = Named => initialized

\* The work directory a restart should find is in the file, and in the copy of it
\* that will be written over the file.
ChosenKept ==
    chosen # Absent =>
        /\ saved[Named][Root] = chosen
        /\ instance = Named => conf[Root] = chosen

SettingsIInv ==
    /\ SettingsTypeOK
    /\ Constructed
    /\ ChosenKept
    /\ WorkDirSurvives
    /\ OnlyRemovalsPending

-----------------------------------------------------------------------------
\* The group stack.

LEMMA StacksAreSeqs == Stacks = {s \in Seq(Groups) : Len(s) <= MaxDepth}
<1>1. ASSUME NEW s \in Stacks PROVE s \in Seq(Groups) /\ Len(s) <= MaxDepth
  <2>1. PICK d \in 0 .. MaxDepth : s \in [1 .. d -> Groups]
    BY DEF Stacks
  <2>2. s \in Seq(Groups)
    BY <2>1, SeqDef
  <2>3. QED
    BY <2>1, <2>2, MaxDepthAssumption, LenProperties
<1>2. ASSUME NEW s \in Seq(Groups), Len(s) <= MaxDepth PROVE s \in Stacks
  <2>1. s \in [1 .. Len(s) -> Groups] /\ Len(s) \in 0 .. MaxDepth
    BY <1>2, MaxDepthAssumption, LenProperties
  <2>2. QED
    BY <2>1 DEF Stacks
<1>3. QED
  BY <1>1, <1>2

LEMMA PathsOfKeys ==
    /\ \A s \in Stacks, k \in Keys : Append(s, k) \in Paths
    /\ Root \in Paths
    /\ <<>> \in Stacks /\ Append(<<>>, WorkDirKey) = Root
<1>1. <<>> \in Stacks
  BY StacksAreSeqs, EmptySeq, MaxDepthAssumption
<1>2. Append(<<>>, WorkDirKey) = Root
  BY DEF Root
<1>3. QED
  BY <1>1, <1>2, KeysAssumption DEF Paths

LEMMA Pushed ==
    ASSUME NEW s \in Stacks, NEW g \in Groups, Len(s) < MaxDepth
    PROVE  Append(s, g) \in Stacks
BY StacksAreSeqs, AppendProperties, LenProperties, MaxDepthAssumption

LEMMA Popped ==
    ASSUME NEW s \in Stacks, s # <<>>
    PROVE  SubSeq(s, 1, Len(s) - 1) \in Stacks
<1>1. s \in Seq(Groups) /\ Len(s) <= MaxDepth /\ Len(s) \in Nat /\ Len(s) # 0
  BY StacksAreSeqs, EmptySeq, LenProperties
<1>2. \A i \in 1 .. Len(s) - 1 : s[i] \in Groups
  BY <1>1, ElementOfSeq
<1>3. /\ SubSeq(s, 1, Len(s) - 1) \in Seq(Groups)
      /\ Len(SubSeq(s, 1, Len(s) - 1)) <= Len(s)
  BY <1>1, <1>2, SubSeqProperties
<1>4. QED
  BY <1>1, <1>3, StacksAreSeqs, LenProperties, MaxDepthAssumption

-----------------------------------------------------------------------------
\* Constructing the object reads its file.
LEMMA Constructing ==
    ASSUME SettingsIInv, instance' = Instance, conf' = Loaded, stack' \in Stacks,
           UNCHANGED <<initialized, saved, workDir, chosen>>
    PROVE  SettingsIInv'
<1> USE DEF SettingsIInv
<1>1. instance' \in {Named, Unnamed} /\ (instance # Nowhere => instance' = instance)
  BY DEF Instance, SettingsTypeOK
<1>2. conf' = IF instance = Nowhere THEN saved[instance'] ELSE conf
  BY DEF Loaded
<1>3. SettingsTypeOK'
  BY <1>1, <1>2 DEF SettingsTypeOK, Nowhere, Named, Unnamed
<1>4. Constructed'
  BY <1>1 DEF Constructed, Instance, Nowhere, Named, Unnamed
<1>5. ChosenKept'
  BY <1>1, <1>2 DEF ChosenKept
<1>6. WorkDirSurvives'
  BY <1>1 DEF WorkDirSurvives, Constructed
<1>7. OnlyRemovalsPending'
  BY <1>1, <1>2 DEF OnlyRemovalsPending
<1>8. QED
  BY <1>3, <1>4, <1>5, <1>6, <1>7

\* set() changes one key in the copy and writes the copy to the file.
LEMMA Storing ==
    ASSUME SettingsIInv, initialized, NEW k \in Keys, NEW v \in Values, Store(k, v),
           UNCHANGED <<initialized, instance, stack>>,
           workDir' \in Values \cup {DataDir, Absent},
           chosen' \in Values \cup {Absent},
           RootChanged(Path(k)) /\ chosen' # Absent => chosen' = v /\ workDir' = v,
           ~RootChanged(Path(k)) /\ chosen' # Absent =>
               chosen' = chosen /\ workDir' = workDir
    PROVE  SettingsIInv'
<1> USE DEF SettingsIInv
<1>1. Instance = instance /\ instance \in {Named, Unnamed}
  BY DEF Instance, Constructed, SettingsTypeOK
<1>2. Path(k) \in Paths /\ Root \in Paths
  BY PathsOfKeys DEF Path, SettingsTypeOK
<1>3. /\ conf' = [conf EXCEPT ![Path(k)] = v]
      /\ saved' = [saved EXCEPT ![instance] = conf']
  BY <1>1 DEF Store, Synced
<1>4. /\ conf' \in [Paths -> Values \cup {Absent}]
      /\ \A p \in Paths : conf'[p] = IF p = Path(k) THEN v ELSE conf[p]
  BY <1>2, <1>3 DEF SettingsTypeOK
<1>5. /\ saved' \in [{Named, Unnamed} -> [Paths -> Values \cup {Absent}]]
      /\ saved'[instance] = conf'
      /\ instance = Unnamed => saved'[Named] = saved[Named]
  BY <1>1, <1>3, <1>4 DEF SettingsTypeOK, Named, Unnamed
<1>6. SettingsTypeOK' /\ Constructed'
  BY <1>1, <1>4, <1>5 DEF SettingsTypeOK, Constructed, Nowhere, Named, Unnamed
<1>7. ChosenKept'
  <2> SUFFICES ASSUME chosen' # Absent
               PROVE  /\ saved'[Named][Root] = chosen'
                      /\ instance = Named => conf'[Root] = chosen'
    BY DEF ChosenKept
  <2>1. CASE RootChanged(Path(k))
    BY <1>2, <1>4, <1>5, <2>1 DEF RootChanged, Root
  <2>2. CASE ~RootChanged(Path(k))
    BY <1>1, <1>2, <1>4, <1>5, <2>2 DEF RootChanged, Root, ChosenKept
  <2>3. QED
    BY <2>1, <2>2
<1>8. WorkDirSurvives'
  BY DEF WorkDirSurvives
<1>9. OnlyRemovalsPending'
  BY <1>5 DEF OnlyRemovalsPending
<1>10. QED
  BY <1>6, <1>7, <1>8, <1>9

\* The event loop, and the end of the program, write the copy to the file.
LEMMA Writing ==
    ASSUME SettingsIInv, instance # Nowhere, NEW s, s = Synced(conf)
    PROVE  /\ s \in [{Named, Unnamed} -> [Paths -> Values \cup {Absent}]]
           /\ s[instance] = conf
           /\ chosen # Absent => s[Named][Root] = chosen
<1>1. Instance = instance /\ instance \in {Named, Unnamed}
  BY DEF Instance, SettingsIInv, SettingsTypeOK
<1>2. s = [saved EXCEPT ![instance] = conf]
  BY <1>1 DEF Synced
<1>3. QED
  BY <1>1, <1>2 DEF SettingsIInv, SettingsTypeOK, ChosenKept

\* A new process has nothing but the files.
LEMMA Starting ==
    ASSUME SettingsIInv, Fresh(initialized', instance', stack', conf', workDir'),
           saved' \in [{Named, Unnamed} -> [Paths -> Values \cup {Absent}]],
           chosen # Absent => saved'[Named][Root] = chosen,
           chosen' = chosen
    PROVE  SettingsIInv'
<1>1. Empty \in [Paths -> Values \cup {Absent}] /\ <<>> \in Stacks
  BY PathsOfKeys DEF Empty
<1>2. SettingsTypeOK'
  BY <1>1 DEF SettingsIInv, SettingsTypeOK, Fresh
<1>3. QED
  BY <1>2 DEF SettingsIInv, Fresh, Constructed, ChosenKept, WorkDirSurvives, OnlyRemovalsPending,
              Nowhere, Named

-----------------------------------------------------------------------------
LEMMA SettingsInitially == SettingsInit => SettingsIInv
<1> SUFFICES ASSUME SettingsInit PROVE SettingsIInv
  OBVIOUS
<1>1. Empty \in [Paths -> Values \cup {Absent}] /\ <<>> \in Stacks
  BY PathsOfKeys DEF Empty
<1>2. SettingsTypeOK
  BY <1>1 DEF SettingsInit, SettingsTypeOK, Fresh
<1>3. QED
  BY <1>2 DEF SettingsInit, SettingsIInv, Fresh, Constructed, ChosenKept, WorkDirSurvives,
              OnlyRemovalsPending, Nowhere, Named

LEMMA SettingsInductive == SettingsIInv /\ [SettingsNext]_settingsVars => SettingsIInv'
<1> SUFFICES ASSUME SettingsIInv, [SettingsNext]_settingsVars PROVE SettingsIInv'
  OBVIOUS
<1>0. stack \in Stacks
  BY DEF SettingsIInv, SettingsTypeOK
<1>1. ASSUME NEW g \in Groups, PushGroup(g) PROVE SettingsIInv'
  BY <1>0, <1>1, Pushed, Constructing DEF PushGroup
<1>2. CASE PopGroup
  BY <1>0, <1>2, Popped, PathsOfKeys, Constructing DEF PopGroup
<1>3. CASE ListGroups
  BY <1>0, <1>3, Constructing DEF ListGroups
<1>4. ASSUME NEW k \in Keys, NEW v \in Values, Set(k, v) PROVE SettingsIInv'
  <2>1. chosen' = IF RootChanged(Path(k)) THEN Absent ELSE chosen
    BY <1>4 DEF Set
  <2>2. QED
    BY <1>4, <2>1, Storing DEF Set, SettingsIInv, SettingsTypeOK
<1>5. ASSUME NEW n \in Keys \cup Groups, RemoveName(n) PROVE SettingsIInv'
  <2>1. /\ UNCHANGED <<initialized, instance, stack, saved, workDir>>
        /\ chosen' \in {chosen, Absent}
        /\ chosen' # Absent /\ instance = Named => ~IsBelow(Path(n), Root)
        /\ initialized
    BY <1>5 DEF RemoveName, Root
  <2>2. /\ conf' \in [Paths -> Values \cup {Absent}]
        /\ \A p \in Paths : conf'[p] \in {conf[p], Absent}
        /\ \A p \in Paths : ~IsBelow(Path(n), p) => conf'[p] = conf[p]
    BY <1>5 DEF RemoveName, SettingsIInv, SettingsTypeOK
  <2>3. instance # Nowhere
    BY <2>1 DEF SettingsIInv, Constructed
  <2>4. SettingsTypeOK'
    BY <2>1, <2>2, <2>3 DEF SettingsIInv, SettingsTypeOK
  <2>5. ChosenKept'
    BY <2>1, <2>2, PathsOfKeys DEF SettingsIInv, ChosenKept
  <2>6. OnlyRemovalsPending'
    BY <2>1, <2>2 DEF SettingsIInv, OnlyRemovalsPending
  <2>7. QED
    BY <2>1, <2>4, <2>5, <2>6 DEF SettingsIInv, Constructed, WorkDirSurvives
<1>6. ASSUME NEW v \in Values, SetWorkDir(v) PROVE SettingsIInv'
  <2>1. CASE initialized
    BY <1>6, <2>1, Storing, KeysAssumption DEF SetWorkDir, SettingsIInv, SettingsTypeOK
  <2>2. CASE ~initialized
    BY <1>6, <2>2
    DEF SetWorkDir, SettingsIInv, SettingsTypeOK, Constructed, ChosenKept, WorkDirSurvives,
        OnlyRemovalsPending
  <2>3. QED
    BY <2>1, <2>2
<1>7. CASE Initialize
  <2>1. /\ ~initialized /\ initialized' = TRUE /\ UNCHANGED <<stack, saved, chosen>>
        /\ instance # Named /\ instance \in {Nowhere, Unnamed}
    BY <1>7 DEF Initialize, SettingsIInv, Constructed, SettingsTypeOK
  <2>2. CASE instance = Nowhere
    <3>1. /\ instance' = Named /\ conf' = saved[Named] /\ stack = <<>> /\ Path(WorkDirKey) = Root
          /\ conf' \in [Paths -> Values \cup {Absent}]
      BY <1>7, <2>2, PathsOfKeys DEF Initialize, SettingsIInv, SettingsTypeOK, Path, Named
    <3>2. workDir' = IF conf'[Root] = Absent THEN DataDir ELSE conf'[Root]
      BY <1>7, <3>1 DEF Initialize
    <3>3. SettingsTypeOK'
      BY <2>1, <3>1, <3>2, PathsOfKeys DEF SettingsIInv, SettingsTypeOK, Named, Nowhere
    <3>4. QED
      BY <2>1, <3>1, <3>2, <3>3
      DEF SettingsIInv, Constructed, ChosenKept, WorkDirSurvives, OnlyRemovalsPending, Named, Nowhere
  <2>3. CASE instance = Unnamed
    <3>1. instance' = Unnamed /\ conf' = conf
      BY <1>7, <2>3 DEF Initialize, Nowhere, Unnamed
    <3>2. Path(WorkDirKey) \in Paths
      BY <1>0, PathsOfKeys, KeysAssumption DEF Path
    <3>3. workDir' \in Values \cup {DataDir, Absent}
      BY <1>7, <3>1, <3>2 DEF Initialize, SettingsIInv, SettingsTypeOK
    <3>4. SettingsTypeOK'
      BY <2>1, <2>3, <3>1, <3>3 DEF SettingsIInv, SettingsTypeOK
    <3>5. QED
      BY <2>1, <2>3, <3>1, <3>4
      DEF SettingsIInv, Constructed, ChosenKept, WorkDirSurvives, OnlyRemovalsPending,
          Named, Nowhere, Unnamed
  <2>4. QED
    BY <2>1, <2>2, <2>3
<1>8. CASE EventLoop
  <2>1. /\ instance # Nowhere /\ saved' = Synced(conf)
        /\ UNCHANGED <<initialized, instance, stack, conf, workDir, chosen>>
    BY <1>8 DEF EventLoop
  <2>2. /\ saved' \in [{Named, Unnamed} -> [Paths -> Values \cup {Absent}]]
        /\ saved'[instance] = conf
        /\ chosen # Absent => saved'[Named][Root] = chosen
    BY <2>1, Writing
  <2>3. QED
    BY <2>1, <2>2
    DEF SettingsIInv, SettingsTypeOK, Constructed, ChosenKept, WorkDirSurvives, OnlyRemovalsPending
<1>9. CASE Exit
  <2>1. /\ saved' \in [{Named, Unnamed} -> [Paths -> Values \cup {Absent}]]
        /\ chosen # Absent => saved'[Named][Root] = chosen
    BY <1>9, Writing DEF Exit, SettingsIInv, SettingsTypeOK, ChosenKept
  <2>2. QED
    BY <1>9, <2>1, Starting DEF Exit
<1>10. CASE Kill
  BY <1>10, Starting DEF Kill, SettingsIInv, SettingsTypeOK, ChosenKept
<1>11. CASE UNCHANGED settingsVars
  BY <1>11
  DEF settingsVars, SettingsIInv, SettingsTypeOK, Constructed, ChosenKept, WorkDirSurvives,
      OnlyRemovalsPending
<1>12. QED
  BY <1>1, <1>2, <1>3, <1>4, <1>5, <1>6, <1>7, <1>8, <1>9, <1>10, <1>11 DEF SettingsNext

\* The invariants hold together, in every process and from one to the next.
THEOREM SettingsInvariance == SettingsSpec => []SettingsIInv
BY SettingsInitially, SettingsInductive, PTL DEF SettingsSpec

\* The types of the variables are what the model says.
THEOREM SettingsTypeCorrect == SettingsSpec => []SettingsTypeOK
<1>1. SettingsIInv => SettingsTypeOK
  BY DEF SettingsIInv
<1>2. QED
  BY <1>1, SettingsInvariance, PTL

\* Settings::set writes through to the file, so only a removal can be undone by a
\* process that is killed.
THEOREM NothingSetIsPending == SettingsSpec => []OnlyRemovalsPending
<1>1. SettingsIInv => OnlyRemovalsPending
  BY DEF SettingsIInv
<1>2. QED
  BY <1>1, SettingsInvariance, PTL

\* The work directory set outside any group, after initialize(), is that of this
\* process and of each later one.
THEOREM WorkDirKept == SettingsSpec => []WorkDirSurvives
<1>1. SettingsIInv => WorkDirSurvives
  BY DEF SettingsIInv
<1>2. QED
  BY <1>1, SettingsInvariance, PTL

-----------------------------------------------------------------------------
\* MemSettings.

Emissions == DOMAIN emitting

\* No listener connected before l called set() in its slot.
Unharmed(l) == \A s \in setters : s >= l

\* An emission that has not reached an unharmed listener is the innermost, and of
\* the value of the map; and such a listener was told that value, or is still to be.
ToBeTold ==
    sets > 0 =>
        \A l \in 1 .. Listeners : Unharmed(l) =>
            /\ \A i \in Emissions : emitting[i].slot < l =>
                   i = Len(emitting) /\ emitting[i].value = settingsMap
            /\ \/ heard[l] = settingsMap
               \/ emitting # <<>> /\ emitting[Len(emitting)].slot < l

\* Before the first call nothing is emitted.
NoneYet == sets = 0 => emitting = <<>>

MemIInv == MemTypeOK /\ NoneYet /\ ToBeTold

Emission == [value : MemValues, slot : 0 .. Listeners]

LEMMA Innermost ==
    ASSUME MemTypeOK, emitting # <<>>
    PROVE  /\ Len(emitting) \in Nat /\ Len(emitting) >= 1 /\ Emissions = 1 .. Len(emitting)
           /\ Last(emitting) = emitting[Len(emitting)] /\ Last(emitting) \in Emission
           /\ Front(emitting) \in Seq(Emission) /\ Len(Front(emitting)) = Len(emitting) - 1
           /\ \A i \in 1 .. Len(emitting) - 1 : Front(emitting)[i] = emitting[i]
<1>1. emitting \in Seq(Emission)
  BY DEF MemTypeOK, Emission
<1>2. /\ Len(emitting) \in Nat /\ Len(emitting) >= 1 /\ DOMAIN emitting = 1 .. Len(emitting)
      /\ \A i \in 1 .. Len(emitting) : emitting[i] \in Emission
  BY <1>1, EmptySeq, LenProperties, ElementOfSeq
<1>3. /\ SubSeq(emitting, 1, Len(emitting) - 1) \in Seq(Emission)
      /\ Len(SubSeq(emitting, 1, Len(emitting) - 1)) = Len(emitting) - 1
      /\ \A i \in 1 .. Len(emitting) - 1 :
            SubSeq(emitting, 1, Len(emitting) - 1)[i] = emitting[i]
  BY <1>2, SubSeqProperties
<1>4. QED
  BY <1>2, <1>3 DEF Last, Front, Emissions

LEMMA MemInitially == MemInit => MemIInv
<1> SUFFICES ASSUME MemInit PROVE MemIInv
  OBVIOUS
<1>1. emitting \in Seq([value : MemValues, slot : 0 .. Listeners])
  BY EmptySeq DEF MemInit
<1>2. MemTypeOK
  BY <1>1, ListenersAssumption DEF MemInit, MemTypeOK
<1>3. QED
  BY <1>2 DEF MemInit, MemIInv, NoneYet, ToBeTold

LEMMA MemSetValue ==
    ASSUME MemIInv, NEW v \in MemValues, SetValue(v)
    PROVE  MemIInv'
<1> DEFINE new == [value |-> v, slot |-> 0]
           m == Len(emitting) + 1
<1>1. emitting \in Seq(Emission) /\ Len(emitting) \in Nat /\ new \in Emission
  BY ListenersAssumption, LenProperties DEF MemIInv, MemTypeOK, Emission
<1>2. emitting' = Append(emitting, new) /\ settingsMap' = v /\ heard' = heard
  BY DEF SetValue
<1>3. new.slot = 0 /\ new.value = v
  OBVIOUS
<1> HIDE DEF new
<1>4. /\ emitting' \in Seq(Emission) /\ Len(emitting') = m
      /\ DOMAIN emitting' = 1 .. m
      /\ \A i \in 1 .. Len(emitting) : emitting'[i] = emitting[i]
      /\ emitting'[m] = new
  BY <1>1, <1>2, AppendProperties, LenProperties
<1>5. emitting' # <<>>
  BY <1>1, <1>4, EmptySeq
<1>6. setters' \subseteq 1 .. Listeners /\ sets' \in 1 .. MaxSets
  <2>1. emitting # <<>> => Last(emitting).slot \in 0 .. Listeners
    BY Innermost DEF MemIInv, Emission
  <2>2. emitting = <<>> => setters' = {}
    BY DEF SetValue
  <2>3. ASSUME emitting # <<>> PROVE setters' \subseteq 1 .. Listeners
    <3>1. setters' = setters \cup {Last(emitting).slot} /\ Last(emitting).slot > 0
      BY <2>3 DEF SetValue
    <3>2. Last(emitting).slot \in 1 .. Listeners
      BY <2>1, <2>3, <3>1, ListenersAssumption
    <3>3. QED
      BY <3>1, <3>2 DEF MemIInv, MemTypeOK
  <2>4. sets' \in 1 .. MaxSets
    BY ListenersAssumption DEF SetValue, MemIInv, MemTypeOK
  <2>5. QED
    BY <2>2, <2>3, <2>4
<1>7. MemTypeOK'
  BY <1>2, <1>4, <1>6, ListenersAssumption DEF MemIInv, MemTypeOK, Emission
<1>8. ASSUME NEW l \in 1 .. Listeners, Unharmed(l)', NEW i \in 1 .. Len(emitting)
      PROVE  ~(emitting[i].slot < l)
  <2>1. emitting # <<>> /\ Last(emitting).slot > 0
    BY <1>1, <1>8, EmptySeq DEF SetValue
  <2>2. setters' = setters \cup {Last(emitting).slot} /\ sets > 0
    BY <2>1 DEF SetValue, MemIInv, NoneYet, MemTypeOK
  <2>3. Unharmed(l) /\ Last(emitting).slot >= l
    BY <1>8, <2>2 DEF Unharmed
  <2>4. emitting[i].slot < l => i = Len(emitting)
    BY <1>8, <2>1, <2>2, <2>3, Innermost DEF MemIInv, ToBeTold
  <2>5. Last(emitting) = emitting[Len(emitting)] /\ Last(emitting).slot \in Nat /\ l \in Nat
    BY <2>1, Innermost, ListenersAssumption DEF MemIInv, Emission
  <2>6. QED
    BY <2>3, <2>4, <2>5
<1>9. ASSUME NEW l \in 1 .. Listeners, Unharmed(l)'
      PROVE  /\ \A i \in Emissions' : emitting'[i].slot < l =>
                   i = Len(emitting') /\ emitting'[i].value = settingsMap'
             /\ emitting' # <<>> /\ emitting'[Len(emitting')].slot < l
  <2>1. \A i \in 1 .. m : i \in 1 .. Len(emitting) \/ i = m
    BY <1>1
  <2>2. \A i \in 1 .. Len(emitting) : ~(emitting'[i].slot < l)
    BY <1>4, <1>8, <1>9
  <2>3. QED
    BY <1>2, <1>3, <1>4, <1>5, <2>1, <2>2, ListenersAssumption DEF Emissions
<1>10. QED
  BY <1>6, <1>7, <1>9 DEF MemIInv, NoneYet, ToBeTold

LEMMA MemEmit ==
    ASSUME MemIInv, Emit
    PROVE  MemIInv'
<1> DEFINE top == Last(emitting)
           n == Len(emitting)
           new == [top EXCEPT !.slot = @ + 1]
<1>1. /\ emitting # <<>> /\ top.slot < Listeners /\ UNCHANGED <<settingsMap, sets, setters>>
      /\ emitting' = Append(Front(emitting), new)
      /\ heard' = [heard EXCEPT ![top.slot + 1] = top.value]
  BY DEF Emit
<1>2. /\ n \in Nat /\ n >= 1 /\ Emissions = 1 .. n /\ top = emitting[n] /\ top \in Emission
      /\ Front(emitting) \in Seq(Emission) /\ Len(Front(emitting)) = n - 1
      /\ \A i \in 1 .. n - 1 : Front(emitting)[i] = emitting[i]
  BY <1>1, Innermost DEF MemIInv
<1> HIDE DEF top, n
<1>3. new \in Emission /\ new.slot = top.slot + 1 /\ new.value = top.value
  <2>1. top \in Emission /\ top.slot \in 0 .. Listeners /\ top.slot < Listeners
    BY <1>1, <1>2 DEF Emission
  <2>2. top.slot + 1 \in 0 .. Listeners
    BY <2>1, ListenersAssumption
  <2>3. QED
    BY <2>1, <2>2 DEF Emission
<1>4. top.slot \in Nat /\ top.slot + 1 \in 1 .. Listeners /\ top.value \in MemValues
  BY <1>1, <1>2, ListenersAssumption DEF Emission
<1> HIDE DEF new
<1>5. /\ emitting' \in Seq(Emission) /\ Len(emitting') = (n - 1) + 1
      /\ \A i \in 1 .. n - 1 : emitting'[i] = Front(emitting)[i]
      /\ emitting'[(n - 1) + 1] = new
  BY <1>1, <1>2, <1>3, AppendProperties
<1>6. /\ Len(emitting') = n /\ DOMAIN emitting' = 1 .. n /\ emitting'[n] = new
      /\ \A i \in 1 .. n - 1 : emitting'[i] = emitting[i]
      /\ emitting' # <<>>
  BY <1>2, <1>5, LenProperties, EmptySeq
<1>7. /\ heard' \in [1 .. Listeners -> MemValues \cup {Unset}]
      /\ heard'[top.slot + 1] = top.value
      /\ \A l \in 1 .. Listeners : l # top.slot + 1 => heard'[l] = heard[l]
  BY <1>1, <1>4 DEF MemIInv, MemTypeOK
<1>8. MemTypeOK' /\ sets > 0
  BY <1>1, <1>5, <1>7 DEF MemIInv, MemTypeOK, NoneYet, Emission
<1>9. ASSUME NEW l \in 1 .. Listeners, Unharmed(l)'
      PROVE  /\ \A i \in Emissions' : emitting'[i].slot < l =>
                   i = Len(emitting') /\ emitting'[i].value = settingsMap'
             /\ \/ heard'[l] = settingsMap'
                \/ emitting' # <<>> /\ emitting'[Len(emitting')].slot < l
  <2>1. /\ \A i \in 1 .. n : emitting[i].slot < l => i = n /\ emitting[i].value = settingsMap
        /\ heard[l] = settingsMap \/ top.slot < l
        /\ l \in Nat
    <3>1. Unharmed(l)
      BY <1>1, <1>9 DEF Unharmed
    <3>2. /\ \A i \in Emissions : emitting[i].slot < l => i = n /\ emitting[i].value = settingsMap
          /\ heard[l] = settingsMap \/ emitting[n].slot < l
      BY <1>8, <3>1 DEF MemIInv, ToBeTold, n
    <3>3. QED
      BY <1>2, <3>2, ListenersAssumption
  <2>2. \A i \in 1 .. n : i \in 1 .. n - 1 \/ i = n
    BY <1>2
  <2>3. \A i \in 1 .. n - 1 : ~(emitting'[i].slot < l)
    BY <1>2, <1>6, <2>1
  <2>4. top.slot < l => top.value = settingsMap
    BY <1>2, <2>1
  <2>5. new.slot < l => top.slot < l
    BY <1>3, <1>4, <2>1
  <2>6. \A i \in Emissions' : emitting'[i].slot < l =>
            i = Len(emitting') /\ emitting'[i].value = settingsMap'
    BY <1>1, <1>3, <1>6, <2>2, <2>3, <2>4, <2>5 DEF Emissions
  <2>7. CASE l = top.slot + 1
    <3>1. top.slot < l
      BY <1>4, <2>7
    <3>2. heard'[l] = settingsMap'
      BY <1>1, <1>7, <2>4, <2>7, <3>1
    <3>3. QED
      BY <2>6, <3>2
  <2>8. CASE l > top.slot + 1
    BY <1>3, <1>6, <2>6, <2>8
  <2>9. CASE l < top.slot + 1
    <3>1. ~(top.slot < l) /\ l # top.slot + 1
      BY <1>4, <2>1, <2>9
    <3>2. heard'[l] = settingsMap'
      BY <1>1, <1>7, <2>1, <3>1
    <3>3. QED
      BY <2>6, <3>2
  <2>10. QED
    BY <1>4, <2>1, <2>7, <2>8, <2>9
<1>10. QED
  BY <1>1, <1>6, <1>8, <1>9 DEF MemIInv, NoneYet, ToBeTold

LEMMA MemSetReturns ==
    ASSUME MemIInv, SetReturns
    PROVE  MemIInv'
<1> DEFINE top == Last(emitting)
           n == Len(emitting)
<1>1. /\ emitting # <<>> /\ top.slot = Listeners /\ emitting' = Front(emitting)
      /\ UNCHANGED <<settingsMap, heard, sets, setters>>
  BY DEF SetReturns
<1>2. /\ n \in Nat /\ n >= 1 /\ Emissions = 1 .. n /\ top = emitting[n]
      /\ emitting' \in Seq(Emission) /\ Len(emitting') = n - 1
      /\ \A i \in 1 .. n - 1 : emitting'[i] = emitting[i]
  BY <1>1, Innermost DEF MemIInv
<1> HIDE DEF top, n
<1>3. DOMAIN emitting' = 1 .. n - 1
  BY <1>2, LenProperties
<1>4. MemTypeOK' /\ sets > 0
  BY <1>1, <1>2 DEF MemIInv, MemTypeOK, NoneYet, Emission
<1>5. ASSUME NEW l \in 1 .. Listeners, Unharmed(l)'
      PROVE  /\ \A i \in Emissions' : ~(emitting'[i].slot < l)
             /\ heard'[l] = settingsMap'
  <2>1. /\ \A i \in 1 .. n : emitting[i].slot < l => i = n
        /\ heard[l] = settingsMap \/ top.slot < l
    BY <1>1, <1>2, <1>4, <1>5 DEF MemIInv, ToBeTold, Unharmed, n
  <2>2. ~(top.slot < l)
    BY <1>1, ListenersAssumption
  <2>3. \A i \in 1 .. n - 1 : i \in 1 .. n /\ i # n
    BY <1>2
  <2>4. QED
    BY <1>1, <1>2, <1>3, <2>1, <2>2, <2>3 DEF Emissions
<1>6. QED
  BY <1>1, <1>4, <1>5 DEF MemIInv, NoneYet, ToBeTold

LEMMA MemInductive == MemIInv /\ [MemNext]_memVars => MemIInv'
<1> SUFFICES ASSUME MemIInv, [MemNext]_memVars PROVE MemIInv'
  OBVIOUS
<1>1. CASE UNCHANGED memVars
  BY <1>1 DEF memVars, MemIInv, MemTypeOK, NoneYet, ToBeTold, Emissions, Unharmed
<1>2. QED
  BY <1>1, MemSetValue, MemEmit, MemSetReturns DEF MemNext

\* The types of the variables are what the model says.
THEOREM MemTypeCorrect == MemSpec => []MemTypeOK
<1>1. MemIInv => MemTypeOK
  BY DEF MemIInv
<1>2. QED
  BY <1>1, MemInitially, MemInductive, PTL DEF MemSpec

\* However deep the calls of MemSettings::set nest in one another's slots, only a
\* call in the slot of a listener connected earlier leaves a listener with an old
\* value.
THEOREM AllListenersKnow == MemSpec => []ListenersKnow
<1>1. MemIInv => ListenersKnow
  BY DEF MemIInv, ToBeTold, Unharmed, ListenersKnow, MemTypeOK
<1>2. QED
  BY <1>1, MemInitially, MemInductive, PTL DEF MemSpec

-----------------------------------------------------------------------------
(* Files and Archives.                                                      *)
\* A thread has file i open.
Holds(s, i) == at[s] # "idle" /\ hold[s] = i

\* The files there are were given their numbers in order.
Numbered ==
    /\ \A f \in AllNames : named[f] <= saves
    /\ \A s \in Savers : hold[s] <= saves

\* Two threads have a file open only if it is among the shared ones.
OneHolder ==
    \A i \in FileIds \ shared : \A s, t \in Savers : Holds(s, i) /\ Holds(t, i) => s = t

\* What a thread has yet to write it keeps until the file is closed.
Buffered ==
    \A s \in Savers :
        /\ at[s] # "close" => buffer[s] = <<>>
        /\ buffer[s] # <<>> => buffer[s] = Text(text[s])

\* A file that one thread has open: nothing is in it before the text is written,
\* nothing while all of the text is kept, and else a beginning of the text.
Saved(s, i) ==
    /\ at[s] = "write" \/ buffer[s] # <<>> => body[i] = <<>>
    /\ at[s] = "close" /\ buffer[s] = <<>> =>
           IsPrefix(body[i], Text(text[s])) /\ (i \in cut \/ body[i] = Text(text[s]))

BeingSaved ==
    \A i \in FileIds \ shared : \A s \in Savers : Holds(s, i) => Saved(s, i)

\* A file that no thread has open.
HasName(i) == \E f \in AllNames : named[f] = i
Whole(i) ==
    \E v \in Texts :
        IsPrefix(body[i], Text(v)) /\ (HasName(i) => i \in cut \/ body[i] = Text(v))

WasSaved == \A i \in FileIds \ shared : i \in OpenFiles \/ Whole(i)

FilesIInv ==
    /\ FilesTypeOK
    /\ Numbered
    /\ OneHolder
    /\ Buffered
    /\ BeingSaved
    /\ WasSaved

-----------------------------------------------------------------------------
\* Texts.

LEMMA TextType ==
    ASSUME NEW v \in Texts
    PROVE  /\ Text(v) \in Seq(Blocks) /\ Len(Text(v)) \in Nat /\ Text(v) # <<>>
           /\ IsPrefix(<<>>, Text(v)) /\ IsPrefix(Text(v), Text(v))
<1>1. <<v, 1>> \in Blocks /\ <<v, 2>> \in Blocks
  BY DEF Blocks
<1>2. Text(v) \in Seq(Blocks) /\ Len(Text(v)) \in Nat /\ Text(v) # <<>>
  BY <1>1 DEF Text
<1>3. SubSeq(<<>>, 1, 0) = SubSeq(Text(v), 1, 0)
  BY SubSeqEmpty
<1>4. IsPrefix(<<>>, Text(v))
  BY <1>2, <1>3 DEF IsPrefix
<1>5. IsPrefix(Text(v), Text(v))
  BY <1>2 DEF IsPrefix
<1>6. QED
  BY <1>2, <1>4, <1>5

\* The beginning of a text is one.
LEMMA Begins ==
    ASSUME NEW v \in Texts, NEW n \in 0 .. Len(Text(v))
    PROVE  /\ SubSeq(Text(v), 1, n) \in Seq(Blocks)
           /\ IsPrefix(SubSeq(Text(v), 1, n), Text(v))
           /\ n = Len(Text(v)) => SubSeq(Text(v), 1, n) = Text(v)
<1> DEFINE t == Text(v)
           b == SubSeq(t, 1, n)
<1>1. t \in Seq(Blocks) /\ Len(t) \in Nat /\ \A i \in 1 .. Len(t) : t[i] \in Blocks
  BY TextType, ElementOfSeq
<1>2. /\ b \in Seq(Blocks) /\ Len(b) = n
      /\ \A i \in 1 .. n : b[i] = t[i]
  BY <1>1, SubSeqProperties
<1>3. SubSeq(b, 1, Len(b)) = b
  BY <1>2, SubSeqFull
<1>4. SubSeq(b, 1, Len(b)) = SubSeq(t, 1, Len(b))
  BY <1>2, <1>3
<1>5. IsPrefix(b, t)
  BY <1>1, <1>2, <1>4 DEF IsPrefix
<1>6. n = Len(t) => b = t
  BY <1>1, SubSeqFull
<1>7. QED
  BY <1>2, <1>5, <1>6

\* Writing over the beginning of nothing, and writing nothing.
LEMMA Overwriting ==
    ASSUME FilesTypeOK, NEW i \in FileIds
    PROVE  /\ \A blocks \in Seq(Blocks) : Overwritten(i, blocks) \in Seq(Blocks)
           /\ \A blocks \in Seq(Blocks) : body[i] = <<>> => Overwritten(i, blocks) = blocks
           /\ Overwritten(i, <<>>) = body[i]
<1>1. body[i] \in Seq(Blocks) /\ Len(body[i]) \in Nat
  BY LenProperties DEF FilesTypeOK
<1>2. ASSUME NEW blocks \in Seq(Blocks)
      PROVE  /\ Overwritten(i, blocks) \in Seq(Blocks)
             /\ body[i] = <<>> => Overwritten(i, blocks) = blocks
  <2> DEFINE rest == SubSeq(body[i], Len(blocks) + 1, Len(body[i]))
  <2>1. Len(blocks) \in Nat /\ \A j \in 1 .. Len(body[i]) : body[i][j] \in Blocks
    BY <1>1, LenProperties, ElementOfSeq
  <2>2. rest \in Seq(Blocks)
    BY <1>1, <2>1, SubSeqProperties
  <2>3. body[i] = <<>> => rest = <<>>
    BY <1>1, <2>1, SubSeqEmpty
  <2> HIDE DEF rest
  <2>4. Overwritten(i, blocks) = blocks \o rest
    BY DEF Overwritten, rest
  <2>5. QED
    BY <2>2, <2>3, <2>4, ConcatProperties, ConcatEmptySeq
<1>3. Overwritten(i, <<>>) = <<>> \o SubSeq(body[i], 1, Len(body[i]))
  BY DEF Overwritten
<1>4. QED
  BY <1>1, <1>2, <1>3, SubSeqFull, ConcatEmptySeq

LEMMA Opened == \A i : i \in OpenFiles <=> \E s \in Savers : Holds(s, i)
BY DEF OpenFiles, Holds

\* What becomes of a file some blocks are written to, and of the others.
LEMMA Reached ==
    ASSUME FilesTypeOK, NEW i \in FileIds, NEW blocks \in Seq(Blocks),
           NEW n \in 0 .. Len(blocks), Reaches(i, blocks, n)
    PROVE  /\ body' \in [FileIds -> Seq(Blocks)]
           /\ slips' \in 0 .. MaxSlips /\ cut' \subseteq FileIds /\ cut \subseteq cut'
           /\ \A j \in FileIds : j # i => body'[j] = body[j] /\ (j \in cut' <=> j \in cut)
           /\ blocks = <<>> => body'[i] = body[i]
           /\ \A v \in Texts : body[i] = <<>> /\ blocks = Text(v) =>
                  IsPrefix(body'[i], Text(v)) /\ (i \in cut' \/ body'[i] = Text(v))
<1> DEFINE part == SubSeq(blocks, 1, n)
<1>1. Len(blocks) \in Nat /\ \A j \in 1 .. Len(blocks) : blocks[j] \in Blocks
  BY LenProperties, ElementOfSeq
<1>2. part \in Seq(Blocks)
  BY <1>1, SubSeqProperties
<1>3. blocks = <<>> => part = <<>>
  BY <1>1, SubSeqFull
<1>4. \A v \in Texts : blocks = Text(v) => IsPrefix(part, Text(v)) /\ (n = Len(blocks) => part = Text(v))
  BY Begins
<1> HIDE DEF part
<1>5. body' = [body EXCEPT ![i] = Overwritten(i, part)]
  BY DEF Reaches, part
<1>6. Overwritten(i, part) \in Seq(Blocks)
  BY <1>2, Overwriting
<1>7. /\ body' \in [FileIds -> Seq(Blocks)] /\ body'[i] = Overwritten(i, part)
      /\ \A j \in FileIds : j # i => body'[j] = body[j]
  BY <1>5, <1>6 DEF FilesTypeOK
<1>8. /\ slips' \in 0 .. MaxSlips /\ cut' \subseteq FileIds /\ cut \subseteq cut'
      /\ n # Len(blocks) => i \in cut'
      /\ \A j \in FileIds : j # i => (j \in cut' <=> j \in cut)
  BY MaxSlipsAssumption DEF Reaches, FilesTypeOK
<1>9. blocks = <<>> => body'[i] = body[i]
  BY <1>3, <1>7, Overwriting
<1>10. ASSUME NEW v \in Texts, body[i] = <<>>, blocks = Text(v)
       PROVE  IsPrefix(body'[i], Text(v)) /\ (i \in cut' \/ body'[i] = Text(v))
  <2>1. body'[i] = part
    BY <1>2, <1>7, <1>10, Overwriting
  <2>2. QED
    BY <1>4, <1>8, <1>10, <2>1
<1>11. QED
  BY <1>7, <1>8, <1>9, <1>10

-----------------------------------------------------------------------------
\* A save begins: the file is emptied.
LEMMA SaveBegun ==
    ASSUME FilesIInv, NEW s \in Savers, NEW i \in 1 .. saves + 1, NEW v \in Texts,
           BeginSave(s, i, v),
           named' \in [AllNames -> 0 .. MaxSaves],
           \A f \in AllNames : named'[f] <= saves + 1 /\ (named'[f] = i \/ named'[f] = named[f])
    PROVE  FilesIInv'
<1> USE DEF FilesIInv
<1>1. saves \in 0 .. MaxSaves /\ saves < MaxSaves /\ saves' = saves + 1 /\ i \in FileIds /\ i # 0
  BY MaxSavesAssumption DEF BeginSave, FilesTypeOK, FileIds
<1>2. /\ at[s] = "idle" /\ at' = [at EXCEPT ![s] = "write"]
      /\ hold' = [hold EXCEPT ![s] = i] /\ text' = [text EXCEPT ![s] = v]
      /\ body' = [body EXCEPT ![i] = <<>>]
      /\ cut' = cut \ {i} /\ UNCHANGED <<buffer, slips>>
      /\ shared' = IF i \in OpenFiles THEN shared \cup {i} ELSE shared \ {i}
  BY DEF BeginSave, Truncated
<1>3. /\ at'[s] = "write" /\ hold'[s] = i /\ text'[s] = v /\ body'[i] = <<>>
      /\ \A t \in Savers : t # s => at'[t] = at[t] /\ hold'[t] = hold[t] /\ text'[t] = text[t]
      /\ \A j \in FileIds : j # i => body'[j] = body[j]
  BY <1>1, <1>2 DEF FilesTypeOK
<1>4. FilesTypeOK'
  <2>1. <<>> \in Seq(Blocks)
    BY EmptySeq
  <2>2. /\ at' \in [Savers -> {"idle", "write", "close"}]
        /\ hold' \in [Savers -> 0 .. MaxSaves] /\ text' \in [Savers -> Texts]
        /\ body' \in [FileIds -> Seq(Blocks)]
        /\ shared' \subseteq FileIds /\ cut' \subseteq FileIds
    BY <1>1, <1>2, <2>1 DEF FilesTypeOK, FileIds
  <2>3. saves' \in 0 .. MaxSaves
    BY <1>1, MaxSavesAssumption
  <2>4. \A t \in Savers : at'[t] # "idle" => hold'[t] # 0
    BY <1>1, <1>3 DEF FilesTypeOK
  <2>5. QED
    BY <1>2, <2>2, <2>3, <2>4 DEF FilesTypeOK
<1>5. Numbered'
  <2>1. /\ \A f \in AllNames : named'[f] <= saves'
        /\ \A t \in Savers : hold[t] <= saves /\ hold[t] \in Nat
        /\ saves \in Nat /\ i <= saves'
    BY <1>1, MaxSavesAssumption DEF Numbered, FilesTypeOK
  <2>2. \A t \in Savers : hold'[t] = i \/ hold'[t] = hold[t]
    BY <1>3
  <2>3. QED
    BY <1>1, <2>1, <2>2 DEF Numbered
<1>6. \A j \in FileIds, t \in Savers :
          Holds(t, j)' <=> IF t = s THEN j = i ELSE Holds(t, j)
  BY <1>3 DEF Holds
<1>7. \A j \in FileIds : ~Holds(s, j)
  BY <1>2 DEF Holds
<1>8. \A t \in Savers : i \notin shared' => ~Holds(t, i)
  BY <1>2, Opened
<1>9. \A j \in FileIds : j # i => (j \in shared' <=> j \in shared)
  BY <1>2
<1>10. OneHolder'
  BY <1>6, <1>7, <1>8, <1>9 DEF OneHolder, FileIds
<1>11. Buffered'
  BY <1>2, <1>3 DEF Buffered
<1>12. BeingSaved'
  <2> SUFFICES ASSUME NEW j \in FileIds, j \notin shared', NEW t \in Savers, Holds(t, j)'
               PROVE  Saved(t, j)'
    BY DEF BeingSaved, FileIds
  <2>1. CASE j = i
    <3>1. t = s
      BY <1>6, <1>8, <2>1
    <3>2. QED
      BY <1>3, <2>1, <3>1 DEF Saved
  <2>2. CASE j # i
    <3>1. t # s /\ Holds(t, j) /\ j \notin shared
      BY <1>6, <1>9, <2>2
    <3>2. Saved(t, j)
      BY <3>1 DEF BeingSaved
    <3>3. QED
      BY <1>2, <1>3, <2>2, <3>1, <3>2 DEF Saved
  <2>3. QED
    BY <2>1, <2>2
<1>13. WasSaved'
  <2> SUFFICES ASSUME NEW j \in FileIds, j \notin shared', j \notin OpenFiles' PROVE Whole(j)'
    BY DEF WasSaved, FileIds
  <2>1. \A t \in Savers : ~Holds(t, j)'
    BY DEF OpenFiles, Holds
  <2>2. j # i
    BY <1>6, <2>1
  <2>3. j \notin OpenFiles /\ j \notin shared
    BY <1>6, <1>7, <1>9, <2>1, <2>2, Opened
  <2>4. Whole(j)
    BY <2>3 DEF WasSaved
  <2>5. HasName(j)' => HasName(j)
    BY <2>2 DEF HasName
  <2>6. QED
    BY <1>2, <1>3, <2>2, <2>4, <2>5 DEF Whole
<1>14. QED
  BY <1>4, <1>5, <1>10, <1>11, <1>12, <1>13

LEMMA SaveKeeps ==
    ASSUME FilesIInv, NEW s \in Savers, NEW v \in Texts,
           \/ \E f \in FileNames : SaveToFile(s, f, v)
           \/ \E f \in TempNames : SaveToTempFile(s, f, v)
    PROVE  FilesIInv'
<1>1. PICK f \in AllNames :
          \E i \in 1 .. saves + 1 :
              /\ i = saves + 1 \/ i = named[f]
              /\ named' = [named EXCEPT ![f] = i] /\ BeginSave(s, i, v)
  <2>1. \A f \in AllNames : named[f] # 0 => named[f] \in 1 .. saves + 1
    BY MaxSavesAssumption DEF FilesIInv, FilesTypeOK, Numbered
  <2>2. saves + 1 \in 1 .. saves + 1
    BY MaxSavesAssumption DEF FilesIInv, FilesTypeOK
  <2>3. QED
    BY <2>1, <2>2 DEF SaveToFile, SaveToTempFile, AllNames
<1>2. PICK i \in 1 .. saves + 1 : named' = [named EXCEPT ![f] = i] /\ BeginSave(s, i, v)
  BY <1>1
<1>3. i \in 0 .. MaxSaves /\ saves \in 0 .. MaxSaves
  BY <1>2, MaxSavesAssumption DEF BeginSave, FilesIInv, FilesTypeOK
<1>4. /\ named' \in [AllNames -> 0 .. MaxSaves]
      /\ \A g \in AllNames : named'[g] = IF g = f THEN i ELSE named[g]
  BY <1>2, <1>3 DEF FilesIInv, FilesTypeOK
<1>5. \A g \in AllNames : named'[g] <= saves + 1
  <2>1. i <= saves + 1 /\ saves \in Nat
    BY <1>2, <1>3, MaxSavesAssumption
  <2>2. \A g \in AllNames : named[g] <= saves /\ named[g] \in Nat
    BY MaxSavesAssumption DEF FilesIInv, FilesTypeOK, Numbered
  <2>3. \A g \in AllNames : named[g] <= saves + 1
    BY <2>1, <2>2
  <2>4. QED
    BY <1>4, <2>1, <2>3
<1>6. QED
  BY <1>2, <1>4, <1>5, SaveBegun

LEMMA WriteKeeps ==
    ASSUME FilesIInv, NEW s \in Savers, Write(s)
    PROVE  FilesIInv'
<1> DEFINE i == hold[s]
<1> USE DEF FilesIInv
<1>1. /\ at[s] = "write" /\ at' = [at EXCEPT ![s] = "close"]
      /\ UNCHANGED <<named, hold, text, saves, shared>>
  BY DEF Write
<1>2. i \in FileIds /\ text[s] \in Texts /\ buffer[s] = <<>>
  BY <1>1, MaxSavesAssumption DEF FilesTypeOK, FileIds, Buffered
<1>3. /\ Text(text[s]) \in Seq(Blocks) /\ Text(text[s]) # <<>>
  BY <1>2, TextType
<1>4. /\ body' \in [FileIds -> Seq(Blocks)]
      /\ slips' \in 0 .. MaxSlips /\ cut' \subseteq FileIds
      /\ \A j \in FileIds : j # i => body'[j] = body[j] /\ (j \in cut' <=> j \in cut)
      /\ buffer' \in [Savers -> Seq(Blocks)]
      /\ \A t \in Savers : t # s => buffer'[t] = buffer[t]
      /\ \/ buffer'[s] = Text(text[s]) /\ body'[i] = body[i]
         \/ /\ buffer'[s] = <<>>
            /\ body[i] = <<>> =>
                   IsPrefix(body'[i], Text(text[s])) /\ (i \in cut' \/ body'[i] = Text(text[s]))
  <2>1. CASE buffer' = [buffer EXCEPT ![s] = Text(text[s])] /\ UNCHANGED <<body, slips, cut>>
    BY <1>3, <2>1 DEF FilesTypeOK
  <2>2. CASE /\ \E n \in 0 .. Len(Text(text[s])) : Reaches(i, Text(text[s]), n)
             /\ UNCHANGED buffer
    BY <1>2, <1>3, <2>2, Reached DEF FilesTypeOK
  <2>3. QED
    BY <2>1, <2>2 DEF Write
<1> HIDE DEF i
<1>5. /\ at'[s] = "close" /\ \A t \in Savers : t # s => at'[t] = at[t]
      /\ \A t \in Savers, j \in FileIds : Holds(t, j)' <=> Holds(t, j)
  BY <1>1 DEF FilesTypeOK, Holds
<1>6. FilesTypeOK'
  BY <1>1, <1>4, <1>5 DEF FilesTypeOK
<1>7. Numbered' /\ OneHolder'
  BY <1>1, <1>5 DEF Numbered, OneHolder, FileIds
<1>8. Buffered'
  BY <1>1, <1>4, <1>5 DEF Buffered
<1>9. BeingSaved'
  <2> SUFFICES ASSUME NEW j \in FileIds, j \notin shared', NEW t \in Savers, Holds(t, j)'
               PROVE  Saved(t, j)'
    BY DEF BeingSaved, FileIds
  <2>1. Holds(t, j) /\ j \notin shared /\ Saved(t, j)
    BY <1>1, <1>5 DEF BeingSaved
  <2>2. CASE t = s
    BY <1>1, <1>3, <1>4, <1>5, <2>1, <2>2 DEF Saved, Holds, i
  <2>3. CASE t # s
    <3>1. j # i
      BY <1>1, <2>1, <2>3 DEF OneHolder, Holds, i
    <3>2. QED
      BY <1>1, <1>4, <1>5, <2>1, <2>3, <3>1 DEF Saved
  <2>4. QED
    BY <2>2, <2>3
<1>10. WasSaved'
  <2> SUFFICES ASSUME NEW j \in FileIds, j \notin shared', j \notin OpenFiles' PROVE Whole(j)'
    BY DEF WasSaved, FileIds
  <2>1. \A t \in Savers : ~Holds(t, j)
    BY <1>5 DEF OpenFiles, Holds
  <2>2. j # i
    BY <1>1, <2>1 DEF Holds, i
  <2>3. Whole(j)
    BY <1>1, <2>1, Opened DEF WasSaved
  <2>4. QED
    BY <1>1, <1>4, <2>2, <2>3 DEF Whole, HasName
<1>11. QED
  BY <1>6, <1>7, <1>8, <1>9, <1>10

LEMMA CloseKeeps ==
    ASSUME FilesIInv, NEW s \in Savers, CloseFile(s)
    PROVE  FilesIInv'
<1> DEFINE i == hold[s]
<1> USE DEF FilesIInv
<1>1. /\ at[s] = "close" /\ at' = [at EXCEPT ![s] = "idle"]
      /\ hold' = [hold EXCEPT ![s] = 0] /\ buffer' = [buffer EXCEPT ![s] = <<>>]
      /\ UNCHANGED <<named, text, saves, shared>>
  BY DEF CloseFile
<1>2. /\ i \in FileIds /\ text[s] \in Texts /\ buffer[s] \in Seq(Blocks)
      /\ buffer[s] # <<>> => buffer[s] = Text(text[s])
  BY <1>1, MaxSavesAssumption DEF FilesTypeOK, FileIds, Buffered
<1>3. PICK n \in 0 .. Len(buffer[s]) : Reaches(i, buffer[s], n)
  BY DEF CloseFile
<1>4. /\ body' \in [FileIds -> Seq(Blocks)]
      /\ slips' \in 0 .. MaxSlips /\ cut' \subseteq FileIds /\ cut \subseteq cut'
      /\ \A j \in FileIds : j # i => body'[j] = body[j] /\ (j \in cut' <=> j \in cut)
      /\ buffer[s] = <<>> => body'[i] = body[i]
      /\ buffer[s] # <<>> /\ body[i] = <<>> =>
             IsPrefix(body'[i], Text(text[s])) /\ (i \in cut' \/ body'[i] = Text(text[s]))
  BY <1>2, <1>3, Reached
<1> HIDE DEF i
<1>5. /\ at'[s] = "idle" /\ buffer'[s] = <<>>
      /\ \A t \in Savers : t # s => at'[t] = at[t] /\ hold'[t] = hold[t] /\ buffer'[t] = buffer[t]
      /\ \A t \in Savers, j \in FileIds : Holds(t, j)' <=> t # s /\ Holds(t, j)
  BY <1>1 DEF FilesTypeOK, Holds
<1>6. FilesTypeOK'
  <2>1. /\ at' \in [Savers -> {"idle", "write", "close"}]
        /\ hold' \in [Savers -> 0 .. MaxSaves] /\ buffer' \in [Savers -> Seq(Blocks)]
    BY <1>1, EmptySeq, MaxSavesAssumption DEF FilesTypeOK
  <2>2. QED
    BY <1>1, <1>4, <1>5, <2>1 DEF FilesTypeOK
<1>7. Numbered'
  BY <1>1, MaxSavesAssumption DEF Numbered, FilesTypeOK
<1>8. OneHolder' /\ Buffered'
  BY <1>1, <1>5 DEF OneHolder, Buffered, FileIds
<1>9. BeingSaved'
  <2> SUFFICES ASSUME NEW j \in FileIds, j \notin shared', NEW t \in Savers, Holds(t, j)'
               PROVE  Saved(t, j)'
    BY DEF BeingSaved, FileIds
  <2>1. t # s /\ Holds(t, j) /\ j \notin shared /\ Saved(t, j)
    BY <1>1, <1>5 DEF BeingSaved
  <2>2. j # i
    BY <1>1, <2>1 DEF OneHolder, Holds, i
  <2>3. QED
    BY <1>1, <1>4, <1>5, <2>1, <2>2 DEF Saved
<1>10. WasSaved'
  <2> SUFFICES ASSUME NEW j \in FileIds, j \notin shared', j \notin OpenFiles' PROVE Whole(j)'
    BY DEF WasSaved, FileIds
  <2>1. \A t \in Savers : t # s => ~Holds(t, j)
    BY <1>5 DEF OpenFiles, Holds
  <2>2. CASE j = i
    <3>1. Saved(s, i)
      BY <1>1, <1>2, <2>2 DEF BeingSaved, Holds, i
    <3>2. IsPrefix(body'[i], Text(text[s])) /\ (i \in cut' \/ body'[i] = Text(text[s]))
      BY <1>1, <1>4, <3>1 DEF Saved
    <3>3. QED
      BY <1>2, <2>2, <3>2 DEF Whole
  <2>3. CASE j # i
    <3>1. Whole(j)
      BY <1>1, <2>1, <2>3, Opened DEF WasSaved, Holds, i
    <3>2. QED
      BY <1>1, <1>4, <2>3, <3>1 DEF Whole, HasName
  <2>4. QED
    BY <2>2, <2>3
<1>11. QED
  BY <1>6, <1>7, <1>8, <1>9, <1>10

\* rename() and the removal of a file leave the files alone, and their names to
\* files that had one.
LEMMA NamesChanged ==
    ASSUME FilesIInv, UNCHANGED <<body, at, hold, text, buffer, saves, slips, shared, cut>>,
           named' \in [AllNames -> 0 .. MaxSaves],
           \A f \in AllNames : named'[f] = 0 \/ \E g \in AllNames : named'[f] = named[g]
    PROVE  FilesIInv'
<1> USE DEF FilesIInv
<1>1. FilesTypeOK'
  BY DEF FilesTypeOK
<1>2. Numbered'
  BY MaxSavesAssumption, SMTT(20) DEF Numbered, FilesTypeOK
<1>3. OneHolder' /\ Buffered' /\ BeingSaved'
  BY DEF OneHolder, Holds, Buffered, BeingSaved, Saved
<1>4. \A i \in FileIds : HasName(i)' => HasName(i)
  BY MaxSavesAssumption DEF HasName, FileIds
<1>5. WasSaved'
  BY <1>4 DEF WasSaved, OpenFiles, Whole, FileIds
<1>6. QED
  BY <1>1, <1>2, <1>3, <1>5

LEMMA KillKeeps ==
    ASSUME FilesIInv, KillSavers
    PROVE  FilesIInv'
<1> USE DEF FilesIInv
<1>1. /\ at' = [s \in Savers |-> "idle"] /\ hold' = [s \in Savers |-> 0]
      /\ buffer' = [s \in Savers |-> <<>>] /\ cut' = cut \cup OpenFiles
      /\ UNCHANGED <<named, body, text, saves, slips, shared>>
  BY DEF KillSavers
<1>2. OpenFiles \subseteq FileIds
  BY MaxSavesAssumption DEF OpenFiles, FilesTypeOK, FileIds
<1>3. FilesTypeOK'
  BY <1>1, <1>2, EmptySeq, MaxSavesAssumption DEF FilesTypeOK
<1>4. Numbered' /\ OneHolder' /\ Buffered' /\ BeingSaved'
  BY <1>1, MaxSavesAssumption DEF Numbered, FilesTypeOK, OneHolder, Buffered, BeingSaved, Holds
<1>5. ASSUME NEW j \in FileIds, j \notin shared PROVE Whole(j)'
  <2>1. CASE j \in OpenFiles
    <3>1. PICK s \in Savers : Holds(s, j)
      BY <2>1, Opened
    <3>2. Saved(s, j) /\ text[s] \in Texts /\ at[s] \in {"write", "close"}
      BY <1>5, <3>1 DEF BeingSaved, FilesTypeOK, Holds
    <3>3. IsPrefix(body[j], Text(text[s]))
      BY <3>2, TextType DEF Saved
    <3>4. QED
      BY <1>1, <2>1, <3>2, <3>3 DEF Whole
  <2>2. CASE j \notin OpenFiles
    BY <1>1, <1>5, <2>2 DEF WasSaved, Whole, HasName
  <2>3. QED
    BY <2>1, <2>2
<1>6. WasSaved'
  BY <1>1, <1>5 DEF WasSaved, FileIds
<1>7. QED
  BY <1>3, <1>4, <1>6

-----------------------------------------------------------------------------
LEMMA FilesInitially == FilesInit => FilesIInv
<1> SUFFICES ASSUME FilesInit PROVE FilesIInv
  OBVIOUS
<1>1. FilesTypeOK
  BY EmptySeq, MaxSavesAssumption, MaxSlipsAssumption DEF FilesInit, FilesTypeOK, Texts
<1>2. Numbered /\ OneHolder /\ Buffered /\ BeingSaved
  BY MaxSavesAssumption DEF FilesInit, Numbered, OneHolder, Buffered, BeingSaved, Holds
<1>3. \A i \in FileIds : ~HasName(i) /\ body[i] = <<>>
  BY MaxSavesAssumption DEF FilesInit, HasName, FileIds
<1>4. WasSaved
  BY <1>3, TextType DEF WasSaved, Whole, Texts
<1>5. QED
  BY <1>1, <1>2, <1>4 DEF FilesIInv

LEMMA FilesInductive == FilesIInv /\ [FilesNext]_filesVars => FilesIInv'
<1> SUFFICES ASSUME FilesIInv, [FilesNext]_filesVars PROVE FilesIInv'
  OBVIOUS
<1>1. ASSUME NEW f \in AllNames, NEW g \in AllNames, Rename(f, g) PROVE FilesIInv'
  <2>1. /\ named' \in [AllNames -> 0 .. MaxSaves]
        /\ \A h \in AllNames : named'[h] \in {0, named[f], named[h]}
    BY <1>1, MaxSavesAssumption DEF Rename, FilesIInv, FilesTypeOK
  <2>2. QED
    BY <1>1, <2>1, NamesChanged DEF Rename
<1>2. ASSUME NEW f \in AllNames, RemoveOld(f) PROVE FilesIInv'
  <2>1. /\ named' \in [AllNames -> 0 .. MaxSaves]
        /\ \A h \in AllNames : named'[h] \in {0, named[h]}
    BY <1>2, MaxSavesAssumption DEF RemoveOld, FilesIInv, FilesTypeOK
  <2>2. QED
    BY <1>2, <2>1, NamesChanged DEF RemoveOld
<1>3. CASE UNCHANGED filesVars
  BY <1>3, NamesChanged DEF filesVars, FilesIInv, FilesTypeOK
<1>4. QED
  BY <1>1, <1>2, <1>3, SaveKeeps, WriteKeeps, CloseKeeps, KillKeeps DEF FilesNext

\* A file that one save at a time has had open holds a beginning of one text, and
\* the whole of it unless a write failed or the program was killed.
THEOREM NothingLeftOver == FilesSpec => []NoLeftovers
<1>1. FilesIInv => NoLeftovers
  <2> SUFFICES ASSUME FilesIInv, NEW i \in FileIds \ shared
               PROVE  \E v \in Texts :
                          /\ IsPrefix(body[i], Text(v))
                          /\ HasName(i) => i \in OpenFiles \cup cut \/ body[i] = Text(v)
    BY DEF NoLeftovers, HasName
  <2>1. CASE i \in OpenFiles
    <3>1. PICK s \in Savers : Holds(s, i)
      BY <2>1, Opened
    <3>2. Saved(s, i) /\ text[s] \in Texts /\ at[s] \in {"write", "close"}
      BY <3>1 DEF FilesIInv, BeingSaved, FilesTypeOK, Holds
    <3>3. IsPrefix(body[i], Text(text[s]))
      BY <3>2, TextType DEF Saved
    <3>4. QED
      BY <2>1, <3>2, <3>3
  <2>2. CASE i \notin OpenFiles
    BY <2>2 DEF FilesIInv, WasSaved, Whole
  <2>3. QED
    BY <2>1, <2>2
<1>2. QED
  BY <1>1, FilesInitially, FilesInductive, PTL DEF FilesSpec

\* Names, files and threads have their types, whatever is saved, moved, removed or fails.
THEOREM FilesTypeCorrect == FilesSpec => []FilesTypeOK
<1>1. FilesIInv => FilesTypeOK
  BY DEF FilesIInv
<1>2. QED
  BY <1>1, FilesInitially, FilesInductive, PTL DEF FilesSpec

-----------------------------------------------------------------------------
\* Archives.

\* A call that stores has added what it was asked to, but for what is still to do.
StoresAll(c) ==
    /\ pc[c] = "read" => op[c] \in Readers /\ Sources(c) = {}
    /\ pc[c] = "add" => op[c] \in Writers /\ asked[c] = Sources(c) \cup todo[c]
    /\ pc[c] \in {"close", "source"} =>
           Sources(c) = IF op[c] \in Writers THEN asked[c] ELSE {}

\* Files are changed by being truncated only.
FilesCutShort(c) == \A n \in Names : disk[n] \in {was[c][n], Blank}

\* What was added is still to be read, or is what the call may store.
AddsRightly(c) ==
    \A n \in Names : added[c][n] \in {NoFile, given[c]} \/ MayStore(c, n, added[c][n])

\* The one file that is being read is as it was when it was opened, or when the
\* call began.
ReadsOne(c) ==
    \E n \in Names :
        /\ todo[c] = {n} /\ given[c] = Unread
        /\ added[c][n] \in {was[c][n], disk[n]} \ {NoFile}

CallInv(c) ==
    /\ StoresAll(c)
    /\ pc[c] # "idle" => FilesCutShort(c) /\ AddsRightly(c)
    /\ pc[c] = "source" => ReadsOne(c)

ArchivesIInv == ArchivesTypeOK /\ \A c \in Callers : CallInv(c)

Labels == {"idle", "add", "read", "close", "source"}
Operations == Writers \cup Readers \cup {"GetArchiveContentsList"}
AddedTypes == [Names -> Stored \cup {NoFile, Unread}]

LEMMA EntryTypes ==
    /\ Nothing \in Entries
    /\ Nothing \in AddedTypes
    /\ Blank \in Stored /\ Torn \in Stored
    /\ NoFile \notin Stored /\ Unread \notin Stored /\ Unread # NoFile
    /\ \A z \in Entries : EntriesOf(z) \subseteq Names
BY ContentsAssumption
DEF Nothing, Entries, Stored, EntriesOf, AddedTypes, NoFile, Unread, Blank, Torn

LEMMA ArchivesInitially == ArchivesInit => ArchivesIInv
<1> SUFFICES ASSUME ArchivesInit PROVE ArchivesIInv
  OBVIOUS
<1>1. disk \in Entries /\ zip \in Entries
  BY EntryTypes DEF ArchivesInit, Entries, Stored
<1>2. /\ pc \in [Callers -> Labels] /\ op \in [Callers -> Operations]
      /\ todo \in [Callers -> SUBSET Names] /\ asked \in [Callers -> SUBSET Names]
  BY DEF ArchivesInit, Labels, Operations
<1>3. /\ old \in [Callers -> Entries] /\ was \in [Callers -> Entries]
      /\ added \in [Callers -> AddedTypes]
      /\ given \in [Callers -> Contents \cup {Unread}]
  BY EntryTypes DEF ArchivesInit
<1>4. err \in [Callers -> Results] /\ bytes \in [Callers -> Stored]
  BY EntryTypes DEF ArchivesInit, Results
<1>5. calls \in 0 .. MaxCalls /\ faults \in 0 .. MaxFaults /\ undefined \in BOOLEAN
  <2>1. calls = 0 /\ faults = 0
    BY DEF ArchivesInit
  <2>2. undefined \in BOOLEAN
    BY DEF ArchivesInit
  <2>3. QED
    BY <2>1, <2>2, CallsAssumption
<1>6. ArchivesTypeOK
  BY <1>1, <1>2, <1>3, <1>4, <1>5 DEF ArchivesTypeOK, Labels, Operations, AddedTypes
<1>7. QED
  BY <1>6 DEF ArchivesInit, ArchivesIInv, CallInv, StoresAll

-----------------------------------------------------------------------------
\* What a call may store it may store after a file was truncated, too.
LEMMA StillMayStore ==
    ASSUME NEW c \in Callers, NEW n \in Names, NEW s,
           disk[n] \in {was[c][n], Blank}, disk'[n] \in {disk[n], Blank},
           given'[c] = given[c], was'[c] = was[c], MayStore(c, n, s)
    PROVE  MayStore(c, n, s)' /\ disk'[n] \in {was[c][n], Blank}
BY DEF MayStore

\* A step of one caller disturbs no other: it may truncate files.
LEMMA OthersKept ==
    ASSUME ArchivesIInv, NEW c \in Callers, ArchivesTypeOK', CallInv(c)',
           \A n \in Names : disk'[n] \in {disk[n], Blank},
           \A d \in Callers : d # c =>
               /\ pc'[d] = pc[d] /\ op'[d] = op[d] /\ asked'[d] = asked[d]
               /\ todo'[d] = todo[d] /\ added'[d] = added[d]
               /\ given'[d] = given[d] /\ was'[d] = was[d]
    PROVE  ArchivesIInv'
<1> SUFFICES ASSUME NEW d \in Callers, d # c PROVE CallInv(d)'
  BY DEF ArchivesIInv
<1>1. /\ pc'[d] = pc[d] /\ op'[d] = op[d] /\ asked'[d] = asked[d]
      /\ todo'[d] = todo[d] /\ added'[d] = added[d]
      /\ given'[d] = given[d] /\ was'[d] = was[d]
  OBVIOUS
<1>2. CallInv(d)
  BY DEF ArchivesIInv
<1>3. StoresAll(d)'
  <2>1. Sources(d)' = Sources(d)
    BY <1>1 DEF Sources
  <2>2. QED
    BY <1>1, <1>2, <2>1 DEF CallInv, StoresAll
<1>4. ASSUME pc[d] # "idle" PROVE FilesCutShort(d)' /\ AddsRightly(d)'
  <2>1. FilesCutShort(d) /\ AddsRightly(d)
    BY <1>2, <1>4 DEF CallInv
  <2>2. FilesCutShort(d)'
    BY <1>1, <2>1 DEF FilesCutShort
  <2>3. ASSUME NEW n \in Names
        PROVE  added'[d][n] \in {NoFile, given'[d]} \/ MayStore(d, n, added[d][n])'
    BY <1>1, <2>1, StillMayStore DEF AddsRightly, FilesCutShort
  <2>4. AddsRightly(d)'
    BY <1>1, <2>3 DEF AddsRightly, MayStore
  <2>5. QED
    BY <2>2, <2>4
<1>5. ASSUME pc[d] = "source" PROVE ReadsOne(d)'
  <2>1. FilesCutShort(d) /\ ReadsOne(d)
    BY <1>2, <1>5 DEF CallInv
  <2>2. PICK n \in Names :
            /\ todo[d] = {n} /\ given[d] = Unread
            /\ added[d][n] \in {was[d][n], disk[n]} \ {NoFile}
    BY <2>1 DEF ReadsOne
  <2>3. disk[n] \in {was[d][n], Blank} /\ disk'[n] \in {disk[n], Blank}
    BY <2>1 DEF FilesCutShort
  <2>4. added[d][n] \in {was[d][n], disk'[n]} \ {NoFile}
    BY <2>2, <2>3
  <2>5. QED
    BY <1>1, <2>2, <2>4 DEF ReadsOne
<1>6. QED
  BY <1>1, <1>3, <1>4, <1>5 DEF CallInv

LEMMA OpensKeeps ==
    ASSUME ArchivesIInv, NEW c \in Callers, NEW o, NEW names \in SUBSET Names,
           NEW ba \in Contents \cup {Unread}, NEW p,
           Opens(c, o, names, ba, p),
           \/ o \in Writers /\ p = "add"
           \/ o \in Writers /\ p = "close" /\ names = {}
           \/ o \in Readers /\ p \in {"read", "close"}
           \/ o = "GetArchiveContentsList" /\ p = "close"
    PROVE  ArchivesIInv'
<1>0. ArchivesTypeOK
  BY DEF ArchivesIInv
<1>1. /\ op' = [op EXCEPT ![c] = o] /\ todo' = [todo EXCEPT ![c] = names]
      /\ pc' = [pc EXCEPT ![c] = p] /\ old' = [old EXCEPT ![c] = zip]
      /\ added' = [added EXCEPT ![c] = Nothing] /\ asked' = [asked EXCEPT ![c] = names]
      /\ given' = [given EXCEPT ![c] = ba] /\ was' = [was EXCEPT ![c] = disk]
      /\ bytes' = [bytes EXCEPT ![c] = Blank] /\ calls' = calls + 1 /\ calls < MaxCalls
      /\ UNCHANGED <<disk, zip, err, faults, undefined>>
  BY DEF Opens, Idle
<1>2. o \in Operations /\ p \in {"add", "read", "close"}
  BY DEF Operations
<1>3. ArchivesTypeOK'
  <2>1. /\ pc' \in [Callers -> Labels] /\ op' \in [Callers -> Operations]
        /\ todo' \in [Callers -> SUBSET Names] /\ asked' \in [Callers -> SUBSET Names]
    BY <1>0, <1>1, <1>2 DEF ArchivesTypeOK, Labels, Operations
  <2>2. /\ old' \in [Callers -> Entries] /\ was' \in [Callers -> Entries]
        /\ added' \in [Callers -> AddedTypes]
        /\ given' \in [Callers -> Contents \cup {Unread}]
        /\ bytes' \in [Callers -> Stored]
    BY <1>0, <1>1, EntryTypes DEF ArchivesTypeOK, AddedTypes
  <2>3. calls' \in 0 .. MaxCalls
    BY <1>0, <1>1, CallsAssumption DEF ArchivesTypeOK
  <2>4. QED
    BY <1>0, <1>1, <2>1, <2>2, <2>3 DEF ArchivesTypeOK, Labels, Operations, AddedTypes
<1>4. /\ pc'[c] = p /\ op'[c] = o /\ asked'[c] = names /\ todo'[c] = names
      /\ added'[c] = Nothing /\ was'[c] = disk
      /\ \A d \in Callers : d # c =>
             /\ pc'[d] = pc[d] /\ op'[d] = op[d] /\ asked'[d] = asked[d]
             /\ todo'[d] = todo[d] /\ added'[d] = added[d]
             /\ given'[d] = given[d] /\ was'[d] = was[d]
  BY <1>0, <1>1 DEF ArchivesTypeOK
<1>5. Sources(c)' = {}
  BY <1>4 DEF Sources, Nothing
<1>6. StoresAll(c)'
  BY <1>4, <1>5 DEF StoresAll, Readers, Writers
<1>7. FilesCutShort(c)' /\ AddsRightly(c)'
  BY <1>1, <1>4 DEF FilesCutShort, AddsRightly, Nothing
<1>8. CallInv(c)'
  BY <1>2, <1>4, <1>6, <1>7 DEF CallInv
<1>9. QED
  BY <1>1, <1>3, <1>4, <1>8, OthersKept

LEMMA ArchiveBeginKeeps ==
    ASSUME ArchivesIInv, NEW c \in Callers, Begin(c)
    PROVE  ArchivesIInv'
<1>0. /\ EntriesOf(disk) \subseteq Names /\ EntriesOf(zip) \subseteq Names
      /\ ArchivesTypeOK
  BY EntryTypes DEF ArchivesIInv, ArchivesTypeOK
<1>1. CASE CompressFile(c)
  BY <1>1, OpensKeeps DEF CompressFile, Writers
<1>2. CASE CompressDir(c)
  BY <1>0, <1>2, OpensKeeps DEF CompressDir, Writers
<1>3. CASE AddFile(c)
  BY <1>3, OpensKeeps DEF AddFile, Writers
<1>4. CASE DecompressFile(c)
  BY <1>0, <1>4, OpensKeeps DEF DecompressFile, Readers
<1>5. CASE DecompressFileToBA(c)
  <2>1. PICK n \in Names :
            \E p \in {"read", "close"} :
                Opens(c, "DecompressFileToBA", {n} \cap EntriesOf(zip), Unread, p)
    BY <1>5 DEF DecompressFileToBA
  <2>2. {n} \cap EntriesOf(zip) \in SUBSET Names
    BY <1>0
  <2>3. QED
    BY <2>1, <2>2, OpensKeeps DEF Readers
<1>6. CASE GetArchiveContentsList(c)
  BY <1>6, OpensKeeps DEF GetArchiveContentsList
<1>7. ASSUME NEW o \in Operations, OpenFails(c, o)
      PROVE  ArchivesIInv'
  <2>1. /\ pc[c] = "idle" /\ op' = [op EXCEPT ![c] = o] /\ asked' = [asked EXCEPT ![c] = {}]
        /\ err' = [err EXCEPT ![c] = "FileOpenError"] /\ bytes' = [bytes EXCEPT ![c] = Blank]
        /\ calls' = calls + 1 /\ calls < MaxCalls /\ undefined' \in BOOLEAN
        /\ UNCHANGED <<disk, zip, pc, todo, old, added, given, was>>
        /\ faults' = faults \/ (faults' = faults + 1 /\ faults < MaxFaults)
    BY <1>7 DEF OpenFails, Idle, Fault, za, call
  <2>2. /\ op' \in [Callers -> Operations]
        /\ asked' \in [Callers -> SUBSET Names] /\ err' \in [Callers -> Results]
        /\ bytes' \in [Callers -> Stored]
    BY <1>0, <2>1, EntryTypes DEF ArchivesTypeOK, Results, Operations
  <2>3. calls' \in 0 .. MaxCalls /\ faults' \in 0 .. MaxFaults
    BY <1>0, <2>1, CallsAssumption DEF ArchivesTypeOK
  <2>4. ArchivesTypeOK'
    BY <1>0, <2>1, <2>2, <2>3 DEF ArchivesTypeOK, Operations
  <2>5. \A d \in Callers : d # c =>
            /\ pc'[d] = pc[d] /\ op'[d] = op[d] /\ asked'[d] = asked[d]
            /\ todo'[d] = todo[d] /\ added'[d] = added[d]
            /\ given'[d] = given[d] /\ was'[d] = was[d]
    BY <1>0, <2>1 DEF ArchivesTypeOK
  <2>6. CallInv(c)'
    BY <2>1 DEF CallInv, StoresAll
  <2>7. \A n \in Names : disk'[n] \in {disk[n], Blank}
    BY <2>1
  <2>8. QED
    BY <2>4, <2>5, <2>6, <2>7, OthersKept
<1>8. QED
  BY <1>1, <1>2, <1>3, <1>4, <1>5, <1>6, <1>7 DEF Begin, Operations

-----------------------------------------------------------------------------
\* The end of a call.
LEMMA Returns ==
    ASSUME ArchivesIInv, NEW c \in Callers, NEW e \in Results, Return(c, e),
           disk' \in Entries, \A n \in Names : disk'[n] \in {disk[n], Blank},
           zip' \in Entries, UNCHANGED <<op, asked, bytes, calls>>,
           faults' = faults \/ (faults' = faults + 1 /\ faults < MaxFaults),
           undefined' \in BOOLEAN
    PROVE  ArchivesIInv' /\ pc'[c] = "idle" /\ err'[c] = e
           /\ \A d \in Callers : d # c => pc'[d] = pc[d]
<1>0. ArchivesTypeOK
  BY DEF ArchivesIInv
<1>1. /\ pc' = [pc EXCEPT ![c] = "idle"] /\ todo' = [todo EXCEPT ![c] = {}]
      /\ err' = [err EXCEPT ![c] = e] /\ old' = [old EXCEPT ![c] = Nothing]
      /\ added' = [added EXCEPT ![c] = Nothing] /\ given' = [given EXCEPT ![c] = Unread]
      /\ was' = [was EXCEPT ![c] = Nothing]
  BY DEF Return
<1>2. faults' \in 0 .. MaxFaults
  BY <1>0, CallsAssumption DEF ArchivesTypeOK
<1>3. /\ pc' \in [Callers -> Labels]
      /\ todo' \in [Callers -> SUBSET Names] /\ err' \in [Callers -> Results]
  BY <1>0, <1>1 DEF ArchivesTypeOK, Labels
<1>4. /\ old' \in [Callers -> Entries] /\ was' \in [Callers -> Entries]
      /\ added' \in [Callers -> AddedTypes]
      /\ given' \in [Callers -> Contents \cup {Unread}]
  BY <1>0, <1>1, EntryTypes DEF ArchivesTypeOK, AddedTypes
<1>5. ArchivesTypeOK'
  BY <1>0, <1>2, <1>3, <1>4 DEF ArchivesTypeOK, Labels, AddedTypes
<1>6. /\ pc'[c] = "idle" /\ err'[c] = e
      /\ \A d \in Callers : d # c =>
             /\ pc'[d] = pc[d] /\ todo'[d] = todo[d] /\ added'[d] = added[d]
             /\ given'[d] = given[d] /\ was'[d] = was[d]
  BY <1>0, <1>1 DEF ArchivesTypeOK
<1>7. CallInv(c)'
  BY <1>6 DEF CallInv, StoresAll
<1>8. ArchivesIInv'
  BY <1>5, <1>6, <1>7, OthersKept
<1>9. QED
  BY <1>6, <1>8

\* A step within a call that touches the files' copies only.
LEMMA AddedStep ==
    ASSUME ArchivesIInv, NEW c \in Callers, NEW p \in Labels, NEW n \in Names,
           NEW left \in SUBSET Names, NEW s \in Stored \cup {NoFile, Unread},
           pc' = [pc EXCEPT ![c] = p], todo' = [todo EXCEPT ![c] = left],
           added' = [added EXCEPT ![c][n] = s],
           UNCHANGED <<disk, zip, op, asked, old, given, was, err, bytes, calls, faults,
                       undefined>>,
           CallInv(c)'
    PROVE  ArchivesIInv'
           /\ \A d \in Callers : d # c => pc'[d] = pc[d]
<1>0. ArchivesTypeOK
  BY DEF ArchivesIInv
<1>1. added[c] \in AddedTypes
  BY <1>0 DEF ArchivesTypeOK, AddedTypes
<1>2. added' = [added EXCEPT ![c] = [added[c] EXCEPT ![n] = s]]
  BY <1>0 DEF ArchivesTypeOK
<1>3. [added[c] EXCEPT ![n] = s] \in AddedTypes
  BY <1>1 DEF AddedTypes
<1>4. /\ added' \in [Callers -> AddedTypes]
      /\ pc' \in [Callers -> Labels] /\ todo' \in [Callers -> SUBSET Names]
  BY <1>0, <1>2, <1>3 DEF ArchivesTypeOK, AddedTypes, Labels
<1>5. ArchivesTypeOK'
  BY <1>0, <1>4 DEF ArchivesTypeOK, AddedTypes, Labels
<1>6. \A d \in Callers : d # c =>
          /\ pc'[d] = pc[d] /\ todo'[d] = todo[d] /\ added'[d] = added[d]
          /\ given'[d] = given[d] /\ was'[d] = was[d]
          /\ op'[d] = op[d] /\ asked'[d] = asked[d]
  BY <1>0, <1>2 DEF ArchivesTypeOK
<1>7. \A m \in Names : disk'[m] \in {disk[m], Blank}
  OBVIOUS
<1>8. ArchivesIInv'
  BY <1>5, <1>6, <1>7, OthersKept
<1>9. QED
  BY <1>6, <1>8

LEMMA AddEntryKeeps ==
    ASSUME ArchivesIInv, NEW c \in Callers, AddEntry(c)
    PROVE  ArchivesIInv' /\ pc'[c] # "idle" /\ zip' = zip
           /\ \A d \in Callers : d # c => pc'[d] = pc[d]
<1>0. ArchivesTypeOK /\ CallInv(c)
  BY DEF ArchivesIInv
<1>1. PICK n \in todo[c] :
          /\ pc[c] = "add"
          /\ added' = [added EXCEPT ![c][n] = given[c]]
          /\ After(c, n, "add")
          /\ UNCHANGED <<disk, zip, op, asked, old, given, was, err, bytes, calls, faults,
                         undefined>>
  BY DEF AddEntry, At, call
<1>2. /\ n \in Names /\ given[c] # NoFile /\ given[c] \in Stored \cup {NoFile, Unread}
      /\ todo[c] \subseteq Names
  BY <1>0, ContentsAssumption, EntryTypes DEF ArchivesTypeOK, Stored
<1> DEFINE left == todo[c] \ {n}
           p == IF left = {} THEN "close" ELSE "add"
<1>3. /\ todo' = [todo EXCEPT ![c] = left] /\ pc' = [pc EXCEPT ![c] = p]
      /\ left \in SUBSET Names /\ p \in {"close", "add"} /\ p \in Labels
  BY <1>0, <1>1, <1>2 DEF After, ArchivesTypeOK, Labels
<1>4. left = {} <=> p = "close"
  OBVIOUS
<1>5. n \in todo[c] /\ left = todo[c] \ {n}
  OBVIOUS
<1> HIDE DEF left, p
<1>6. /\ pc'[c] = p /\ todo'[c] = left /\ added'[c][n] = given[c]
      /\ op'[c] = op[c] /\ asked'[c] = asked[c] /\ given'[c] = given[c] /\ was'[c] = was[c]
      /\ \A m \in Names : m # n => added'[c][m] = added[c][m]
      /\ Sources(c)' = Sources(c) \cup {n}
  <2>1. /\ pc'[c] = p /\ todo'[c] = left
        /\ op'[c] = op[c] /\ asked'[c] = asked[c] /\ given'[c] = given[c] /\ was'[c] = was[c]
    BY <1>0, <1>1, <1>3 DEF ArchivesTypeOK
  <2>2. added'[c][n] = given[c] /\ \A m \in Names : m # n => added'[c][m] = added[c][m]
    BY <1>0, <1>1, <1>2 DEF ArchivesTypeOK
  <2>3. Sources(c)' = Sources(c) \cup {n}
    BY <1>2, <2>2 DEF Sources
  <2>4. QED
    BY <2>1, <2>2, <2>3
<1>7. StoresAll(c)'
  BY <1>0, <1>1, <1>3, <1>4, <1>5, <1>6 DEF CallInv, StoresAll
<1>8. FilesCutShort(c)' /\ AddsRightly(c)'
  <2>1. FilesCutShort(c) /\ AddsRightly(c)
    BY <1>0, <1>1 DEF CallInv
  <2>2. FilesCutShort(c)'
    BY <1>1, <1>6, <2>1 DEF FilesCutShort
  <2>3. \A m \in Names :
            added'[c][m] \in {NoFile, given'[c]} \/ MayStore(c, m, added'[c][m])
    BY <1>6, <2>1 DEF AddsRightly
  <2>4. AddsRightly(c)'
    BY <1>1, <1>6, <2>3 DEF AddsRightly, MayStore
  <2>5. QED
    BY <2>2, <2>4
<1>9. CallInv(c)'
  BY <1>3, <1>6, <1>7, <1>8 DEF CallInv
<1>10. QED
  BY <1>1, <1>2, <1>3, <1>6, <1>9, AddedStep

\* zip_close opens a file.
LEMMA OpenSourceKeeps ==
    ASSUME ArchivesIInv, NEW c \in Callers, OpenSource(c)
    PROVE  ArchivesIInv' /\ pc'[c] # "idle" /\ zip' = zip
           /\ \A d \in Callers : d # c => pc'[d] = pc[d]
<1>0. ArchivesTypeOK /\ CallInv(c)
  BY DEF ArchivesIInv
<1>1. PICK n \in Names :
          /\ pc[c] = "close" /\ added[c][n] = Unread /\ disk[n] # NoFile
          /\ added' = [added EXCEPT ![c][n] = disk[n]]
          /\ todo' = [todo EXCEPT ![c] = {n}] /\ pc' = [pc EXCEPT ![c] = "source"]
          /\ UNCHANGED <<disk, zip, op, asked, old, given, was, err, bytes, calls, faults,
                         undefined>>
  BY DEF OpenSource, At, call
<1>2. /\ disk[n] \in Stored \cup {NoFile, Unread} /\ "source" \in Labels
      /\ n \in Sources(c) /\ {n} \in SUBSET Names
  BY <1>0, <1>1, EntryTypes DEF ArchivesTypeOK, Entries, Labels, Sources
<1>3. /\ pc'[c] = "source" /\ todo'[c] = {n} /\ added'[c][n] = disk[n]
      /\ op'[c] = op[c] /\ asked'[c] = asked[c] /\ given'[c] = given[c] /\ was'[c] = was[c]
      /\ \A m \in Names : m # n => added'[c][m] = added[c][m]
      /\ Sources(c)' = Sources(c)
  <2>1. /\ pc'[c] = "source" /\ todo'[c] = {n}
        /\ op'[c] = op[c] /\ asked'[c] = asked[c] /\ given'[c] = given[c] /\ was'[c] = was[c]
    BY <1>0, <1>1 DEF ArchivesTypeOK
  <2>2. added'[c][n] = disk[n] /\ \A m \in Names : m # n => added'[c][m] = added[c][m]
    BY <1>0, <1>1, <1>2 DEF ArchivesTypeOK
  <2>3. n \in Sources(c) /\ Sources(c)' = Sources(c) \cup {n}
    BY <1>0, <1>1, <1>2, <2>2 DEF Sources
  <2>4. QED
    BY <2>1, <2>2, <2>3
<1>4. FilesCutShort(c) /\ AddsRightly(c)
  BY <1>0, <1>1 DEF CallInv
<1>5. given[c] = Unread
  <2>1. Unread \in {NoFile, given[c]} \/ MayStore(c, n, Unread)
    BY <1>1, <1>4 DEF AddsRightly
  <2>2. QED
    BY <2>1, EntryTypes DEF MayStore
<1>6. MayStore(c, n, disk[n])
  BY <1>1, <1>5 DEF MayStore
<1>7. StoresAll(c)'
  BY <1>0, <1>1, <1>3 DEF CallInv, StoresAll
<1>8. FilesCutShort(c)' /\ AddsRightly(c)'
  <2>1. FilesCutShort(c)'
    BY <1>1, <1>3, <1>4 DEF FilesCutShort
  <2>2. \A m \in Names :
            added'[c][m] \in {NoFile, given'[c]} \/ MayStore(c, m, added'[c][m])
    BY <1>3, <1>4, <1>6 DEF AddsRightly
  <2>3. AddsRightly(c)'
    BY <1>1, <1>3, <2>2 DEF AddsRightly, MayStore
  <2>4. QED
    BY <2>1, <2>3
<1>9. ReadsOne(c)'
  BY <1>1, <1>3, <1>5 DEF ReadsOne
<1>10. CallInv(c)'
  BY <1>3, <1>7, <1>8, <1>9 DEF CallInv
<1>11. QED
  BY <1>1, <1>2, <1>3, <1>10, AddedStep

\* zip_close has read the file.
LEMMA ReadSourceKeeps ==
    ASSUME ArchivesIInv, NEW c \in Callers, ReadSource(c)
    PROVE  ArchivesIInv' /\ pc'[c] # "idle" /\ zip' = zip
           /\ \A d \in Callers : d # c => pc'[d] = pc[d]
<1>0. ArchivesTypeOK /\ CallInv(c)
  BY DEF ArchivesIInv
<1>1. PICK n \in todo[c], s \in Stored :
          /\ pc[c] = "source"
          /\ s # added[c][n] => CutShort(c) /\ s \in {Torn, Blank}
          /\ added' = [added EXCEPT ![c][n] = s]
          /\ todo' = [todo EXCEPT ![c] = {}] /\ pc' = [pc EXCEPT ![c] = "close"]
          /\ UNCHANGED <<disk, zip, op, asked, old, given, was, err, bytes, calls, faults,
                         undefined>>
  BY DEF ReadSource, At, call
<1>2. /\ n \in Names /\ todo[c] = {n} /\ given[c] = Unread
      /\ added[c][n] \in {was[c][n], disk[n]} \ {NoFile}
      /\ FilesCutShort(c) /\ AddsRightly(c)
  BY <1>0, <1>1 DEF CallInv, ReadsOne
<1>3. "close" \in Labels /\ {} \in SUBSET Names /\ n \in Sources(c) /\ s # NoFile
  BY <1>2, EntryTypes DEF Labels, Sources
<1>4. /\ pc'[c] = "close" /\ todo'[c] = {} /\ added'[c][n] = s
      /\ op'[c] = op[c] /\ asked'[c] = asked[c] /\ given'[c] = given[c] /\ was'[c] = was[c]
      /\ \A m \in Names : m # n => added'[c][m] = added[c][m]
      /\ Sources(c)' = Sources(c)
  <2>1. /\ pc'[c] = "close" /\ todo'[c] = {}
        /\ op'[c] = op[c] /\ asked'[c] = asked[c] /\ given'[c] = given[c] /\ was'[c] = was[c]
    BY <1>0, <1>1 DEF ArchivesTypeOK
  <2>2. added'[c][n] = s /\ \A m \in Names : m # n => added'[c][m] = added[c][m]
    BY <1>0, <1>1, <1>2, <1>3 DEF ArchivesTypeOK
  <2>3. n \in Sources(c) /\ Sources(c)' = Sources(c) \cup {n}
    BY <1>0, <1>1, <1>2, <1>3, <2>2 DEF Sources
  <2>4. QED
    BY <2>1, <2>2, <2>3
<1>5. MayStore(c, n, s)
  <2>1. CASE s = added[c][n]
    BY <1>2, <1>3, <2>1 DEF MayStore
  <2>2. CASE s # added[c][n]
    <3>1. disk[n] # added[c][n] /\ s \in {Torn, Blank}
      BY <1>1, <1>2, <2>2 DEF CutShort
    <3>2. disk[n] \in {was[c][n], Blank}
      BY <1>2 DEF FilesCutShort
    <3>3. disk[n] = Blank /\ was[c][n] # Blank
      BY <1>2, <3>1, <3>2
    <3>4. QED
      BY <1>2, <1>3, <3>1, <3>3 DEF MayStore
  <2>3. QED
    BY <2>1, <2>2
<1>6. StoresAll(c)'
  BY <1>0, <1>1, <1>4 DEF CallInv, StoresAll
<1>7. FilesCutShort(c)' /\ AddsRightly(c)'
  <2>1. FilesCutShort(c)'
    BY <1>1, <1>2, <1>4 DEF FilesCutShort
  <2>2. \A m \in Names :
            added'[c][m] \in {NoFile, given'[c]} \/ MayStore(c, m, added'[c][m])
    BY <1>2, <1>4, <1>5 DEF AddsRightly
  <2>3. AddsRightly(c)'
    BY <1>1, <1>4, <2>2 DEF AddsRightly, MayStore
  <2>4. QED
    BY <2>1, <2>3
<1>8. CallInv(c)'
  BY <1>4, <1>6, <1>7 DEF CallInv
<1>9. QED
  BY <1>1, <1>2, <1>3, <1>4, <1>8, AddedStep

\* Taking an entry out truncates the file of that name.
LEMMA DiskCut ==
    ASSUME ArchivesTypeOK, NEW c \in Callers,
           disk' = disk \/ \E n \in todo[c] : disk' = [disk EXCEPT ![n] = Blank]
    PROVE  disk' \in Entries /\ \A n \in Names : disk'[n] \in {disk[n], Blank}
<1>1. disk \in [Names -> Stored \cup {NoFile}] /\ todo[c] \subseteq Names
  BY DEF ArchivesTypeOK, Entries
<1>2. QED
  BY <1>1, EntryTypes DEF Entries

LEMMA ReadEntryKeeps ==
    ASSUME ArchivesIInv, NEW c \in Callers, ReadEntry(c)
    PROVE  ArchivesIInv' /\ pc'[c] # "idle" /\ zip' = zip
           /\ \A d \in Callers : d # c => pc'[d] = pc[d]
<1>0. ArchivesTypeOK /\ CallInv(c)
  BY DEF ArchivesIInv
<1>1. PICK n \in todo[c] :
          /\ pc[c] = "read"
          /\ After(c, n, "read")
          /\ disk' = [disk EXCEPT ![n] = Blank] \/ disk' = disk
          /\ undefined' \in BOOLEAN
          /\ UNCHANGED <<zip, op, asked, old, added, given, was, err, bytes, calls, faults>>
  BY DEF ReadEntry, At, za, call
<1>2. disk' \in Entries /\ \A m \in Names : disk'[m] \in {disk[m], Blank}
  BY <1>0, <1>1, DiskCut
<1>3. /\ todo' = [todo EXCEPT ![c] = todo[c] \ {n}]
      /\ pc' = [pc EXCEPT ![c] = IF todo'[c] = {} THEN "close" ELSE "read"]
  BY <1>1 DEF After
<1>4. todo' \in [Callers -> SUBSET Names] /\ pc' \in [Callers -> Labels]
  BY <1>0, <1>3 DEF ArchivesTypeOK, Labels
<1>5. ArchivesTypeOK'
  BY <1>0, <1>1, <1>2, <1>4 DEF ArchivesTypeOK, Labels
<1>6. /\ pc'[c] \in {"read", "close"} /\ op'[c] = op[c] /\ op[c] \in Readers
      /\ added'[c] = added[c] /\ given'[c] = given[c] /\ was'[c] = was[c]
      /\ \A d \in Callers : d # c =>
             /\ pc'[d] = pc[d] /\ op'[d] = op[d] /\ asked'[d] = asked[d]
             /\ todo'[d] = todo[d] /\ added'[d] = added[d]
             /\ given'[d] = given[d] /\ was'[d] = was[d]
  BY <1>0, <1>1, <1>3 DEF ArchivesTypeOK, CallInv, StoresAll
<1>7. FilesCutShort(c) /\ AddsRightly(c)
  BY <1>0, <1>1 DEF CallInv
<1>8. FilesCutShort(c)'
  BY <1>2, <1>6, <1>7 DEF FilesCutShort
<1>9. AddsRightly(c)'
  <2>1. ASSUME NEW m \in Names
        PROVE  added'[c][m] \in {NoFile, given'[c]} \/ MayStore(c, m, added[c][m])'
    BY <1>2, <1>6, <1>7, StillMayStore DEF AddsRightly, FilesCutShort
  <2>2. QED
    BY <1>6, <2>1 DEF AddsRightly, MayStore
<1>10. StoresAll(c)'
  <2>1. op[c] \notin Writers
    BY <1>6 DEF Readers, Writers
  <2>2. Sources(c)' = Sources(c)
    BY <1>6 DEF Sources
  <2>3. asked' = asked
    BY <1>1
  <2>4. QED
    BY <1>0, <1>1, <1>6, <2>1, <2>2, <2>3 DEF CallInv, StoresAll
<1>11. CallInv(c)'
  BY <1>6, <1>8, <1>9, <1>10 DEF CallInv
<1>12. ArchivesIInv'
  BY <1>2, <1>5, <1>6, <1>11, OthersKept
<1>13. QED
  BY <1>1, <1>6, <1>12

-----------------------------------------------------------------------------
\* Three kinds of Work end the call with an error, and leave the archive alone.
LEMMA FailsKeep ==
    ASSUME ArchivesIInv, NEW c \in Callers, AddFails(c) \/ ReadFails(c) \/ CloseFails(c)
    PROVE  /\ ArchivesIInv' /\ zip' = zip /\ pc'[c] = "idle" /\ err'[c] # "NoError"
           /\ \A d \in Callers : d # c => pc'[d] = pc[d]
<1>0. ArchivesTypeOK
  BY DEF ArchivesIInv
<1>1. PICK e \in Results \ {"NoError"} :
          /\ Return(c, e) /\ UNCHANGED <<zip, op, asked, bytes, calls>>
          /\ faults' = faults \/ (faults' = faults + 1 /\ faults < MaxFaults)
          /\ undefined' \in BOOLEAN
          /\ disk' = disk \/ \E n \in todo[c] : disk' = [disk EXCEPT ![n] = Blank]
  <2>1. CASE AddFails(c)
    BY <2>1 DEF AddFails, Fault, Results
  <2>2. CASE ReadFails(c)
    BY <1>0, <2>2 DEF ReadFails, Fault, Results, ArchivesTypeOK
  <2>3. CASE CloseFails(c)
    BY <1>0, <2>3 DEF CloseFails, Fault, Results, ArchivesTypeOK
  <2>4. QED
    BY <2>1, <2>2, <2>3
<1>2. disk' \in Entries /\ \A n \in Names : disk'[n] \in {disk[n], Blank}
  BY <1>0, <1>1, DiskCut
<1>3. zip' \in Entries
  BY <1>0, <1>1 DEF ArchivesTypeOK
<1>4. QED
  BY <1>1, <1>2, <1>3, Returns

\* What zip_close writes when everything is read.
LEMMA WrittenIsRight ==
    ASSUME ArchivesTypeOK, NEW c \in Callers, \A n \in Sources(c) : added[c][n] # Unread
    PROVE  /\ Written(c) \in Entries
           /\ \A n \in Sources(c) : Written(c)[n] = added[c][n] /\ added[c][n] \in Stored
           /\ \A n \in Names \ Sources(c) : Written(c)[n] = old[c][n]
<1>1. Sources(c) \subseteq Names
  BY DEF Sources
<1>2. ASSUME NEW n \in Sources(c) PROVE added[c][n] \in Stored
  BY DEF Sources, ArchivesTypeOK
<1>3. \A n \in Names : old[c][n] \in Stored \cup {NoFile}
  BY DEF ArchivesTypeOK, Entries
<1>4. Written(c) \in Entries
  <2> DEFINE E(n) == IF n \in Sources(c) THEN added[c][n] ELSE old[c][n]
  <2>1. \A n \in Names : E(n) \in Stored \cup {NoFile}
    BY <1>2, <1>3
  <2>2. Written(c) = [n \in Names |-> E(n)]
    BY DEF Written
  <2> HIDE DEF E
  <2>3. QED
    BY <2>1, <2>2 DEF Entries
<1>5. QED
  BY <1>1, <1>2, <1>4 DEF Written

LEMMA CloseStores ==
    ASSUME ArchivesIInv, NEW c \in Callers, Close(c)
    PROVE  /\ ArchivesIInv' /\ pc[c] = "close" /\ pc'[c] = "idle" /\ err'[c] = "NoError"
           /\ \A n \in Sources(c) : added[c][n] # Unread
           /\ zip' = (IF Sources(c) = {} THEN zip ELSE Written(c))
           /\ \A d \in Callers : d # c => pc'[d] = pc[d]
<1>1. /\ pc[c] = "close" /\ Return(c, "NoError")
      /\ \A n \in Sources(c) : added[c][n] # Unread
      /\ zip' = (IF Sources(c) = {} THEN zip ELSE Written(c))
      /\ UNCHANGED <<disk, op, asked, bytes, calls, faults, undefined>>
  BY DEF Close, At
<1>2. /\ disk' \in Entries /\ zip' \in Entries /\ undefined' \in BOOLEAN
      /\ \A n \in Names : disk'[n] \in {disk[n], Blank}
  BY <1>1, WrittenIsRight DEF ArchivesIInv, ArchivesTypeOK
<1>3. "NoError" \in Results
  BY DEF Results
<1>4. /\ ArchivesIInv' /\ pc'[c] = "idle" /\ err'[c] = "NoError"
      /\ \A d \in Callers : d # c => pc'[d] = pc[d]
  BY <1>1, <1>2, <1>3, Returns
<1>5. QED
  BY <1>1, <1>4

LEMMA ArchivesInductive == ArchivesIInv /\ [ArchivesNext]_archivesVars => ArchivesIInv'
<1> SUFFICES ASSUME ArchivesIInv, [ArchivesNext]_archivesVars PROVE ArchivesIInv'
  OBVIOUS
<1>1. ASSUME NEW c \in Callers, Work(c) PROVE ArchivesIInv'
  BY <1>1, AddEntryKeeps, OpenSourceKeeps, ReadSourceKeeps, ReadEntryKeeps, FailsKeep,
     CloseStores DEF Work
<1>2. CASE UNCHANGED archivesVars
  <2>1. /\ UNCHANGED <<disk, zip, pc, op, todo, asked, old, added, given, was, err, bytes>>
        /\ UNCHANGED <<calls, faults, undefined>>
    BY <1>2 DEF archivesVars
  <2>2. ArchivesTypeOK'
    BY <2>1 DEF ArchivesIInv, ArchivesTypeOK
  <2>3. ASSUME NEW c \in Callers PROVE CallInv(c)'
    BY <2>1 DEF ArchivesIInv, CallInv, StoresAll, Sources, FilesCutShort, AddsRightly,
                MayStore, ReadsOne
  <2>4. QED
    BY <2>2, <2>3 DEF ArchivesIInv
<1>3. QED
  BY <1>1, <1>2, ArchiveBeginKeeps DEF ArchivesNext

\* The invariant of the archive's calls holds in every state.
THEOREM ArchivesInvariance == ArchivesSpec => []ArchivesIInv
BY ArchivesInitially, ArchivesInductive, PTL DEF ArchivesSpec

\* The types of the archive, of its calls and of their handles are kept by every call.
THEOREM ArchivesTypeCorrect == ArchivesSpec => []ArchivesTypeOK
<1>1. ArchivesIInv => ArchivesTypeOK
  BY DEF ArchivesIInv
<1>2. QED
  BY <1>1, ArchivesInvariance, PTL

-----------------------------------------------------------------------------
\* The archive changes, and a call ends, only as the steps of this lemma say.
LEMMA StepOfACall ==
    ASSUME ArchivesIInv, ArchivesNext
    PROVE  \/ zip' = zip /\ \A d \in Callers : pc[d] # "idle" => pc'[d] # "idle"
           \/ \E c \in Callers :
                  /\ \/ zip' = zip /\ err'[c] # "NoError"
                     \/ Close(c)
                  /\ \A d \in Callers : d # c => pc'[d] = pc[d]
<1>1. PICK c \in Callers : Begin(c) \/ Work(c)
  BY DEF ArchivesNext
<1>2. CASE Begin(c)
  <2>1. zip' = zip /\ pc[c] = "idle" /\ \A d \in Callers : d # c => pc'[d] = pc[d]
    <3>0. ArchivesTypeOK
      BY DEF ArchivesIInv
    <3>1. ASSUME NEW o, NEW names, NEW ba, NEW p, Opens(c, o, names, ba, p)
          PROVE  zip' = zip /\ pc[c] = "idle" /\ \A d \in Callers : d # c => pc'[d] = pc[d]
      BY <3>0, <3>1 DEF Opens, Idle, ArchivesTypeOK
    <3>2. ASSUME NEW o, OpenFails(c, o)
          PROVE  zip' = zip /\ pc[c] = "idle" /\ \A d \in Callers : d # c => pc'[d] = pc[d]
      BY <3>2 DEF OpenFails, Idle
    <3>3. \/ \E o, names, ba, p : Opens(c, o, names, ba, p)
          \/ \E o : OpenFails(c, o)
      BY <1>2 DEF Begin, CompressFile, CompressDir, AddFile, DecompressFile,
                  DecompressFileToBA, GetArchiveContentsList
    <3>4. QED
      BY <3>1, <3>2, <3>3
  <2>2. QED
    BY <2>1
<1>3. CASE AddEntry(c) \/ ReadEntry(c) \/ OpenSource(c) \/ ReadSource(c)
  BY <1>3, AddEntryKeeps, ReadEntryKeeps, OpenSourceKeeps, ReadSourceKeeps
<1>4. CASE AddFails(c) \/ ReadFails(c) \/ CloseFails(c)
  BY <1>4, FailsKeep
<1>5. CASE Close(c)
  BY <1>5, CloseStores
<1>6. QED
  BY <1>1, <1>2, <1>3, <1>4, <1>5 DEF Work

\* What a call that closes its archive leaves in it.
LEMMA CloseTells ==
    ASSUME ArchivesIInv, NEW c \in Callers, Close(c)
    PROVE  /\ op[c] \in Writers => \A n \in asked[c] : MayStore(c, n, zip'[n])
           /\ zip' # zip => /\ op[c] \in Writers
                            /\ \A n \in Names \ asked[c] : zip'[n] = old[c][n]
<1>1. /\ pc[c] = "close" /\ \A n \in Sources(c) : added[c][n] # Unread
      /\ zip' = IF Sources(c) = {} THEN zip ELSE Written(c)
  BY CloseStores
<1>2. ArchivesTypeOK /\ StoresAll(c) /\ AddsRightly(c)
  BY <1>1 DEF ArchivesIInv, CallInv
<1>3. Sources(c) = IF op[c] \in Writers THEN asked[c] ELSE {}
  BY <1>1, <1>2 DEF StoresAll
<1>4. /\ \A n \in Sources(c) : Written(c)[n] = added[c][n] /\ added[c][n] \in Stored
      /\ \A n \in Names \ Sources(c) : Written(c)[n] = old[c][n]
  BY <1>1, <1>2, WrittenIsRight
<1>5. ASSUME op[c] \in Writers, NEW n \in asked[c] PROVE MayStore(c, n, zip'[n])
  <2>1. n \in Sources(c) /\ n \in Names
    BY <1>2, <1>3, <1>5 DEF ArchivesTypeOK
  <2>2. zip'[n] = added[c][n] /\ added[c][n] # NoFile /\ added[c][n] # Unread
    BY <1>1, <1>4, <2>1, EntryTypes
  <2>3. added[c][n] \in {NoFile, given[c]} \/ MayStore(c, n, added[c][n])
    BY <1>2, <2>1 DEF AddsRightly
  <2>4. QED
    BY <2>2, <2>3 DEF MayStore
<1>6. ASSUME zip' # zip
      PROVE  op[c] \in Writers /\ \A n \in Names \ asked[c] : zip'[n] = old[c][n]
  BY <1>1, <1>3, <1>4, <1>6
<1>7. QED
  BY <1>5, <1>6

\* One step as ReportsTell has it.
LEMMA StepTells ==
    ASSUME ArchivesIInv, ArchivesNext
    PROVE  /\ \A c \in Callers :
                  Ends(c, "NoError") /\ op[c] \in Writers =>
                      \A n \in asked[c] : MayStore(c, n, zip'[n])
           /\ zip' # zip =>
                  \E c \in Callers :
                      /\ Ends(c, "NoError") /\ op[c] \in Writers
                      /\ \A n \in Names \ asked[c] : zip'[n] = old[c][n]
<1>1. CASE zip' = zip /\ \A d \in Callers : pc[d] # "idle" => pc'[d] # "idle"
  BY <1>1 DEF Ends
<1>2. ASSUME NEW d \in Callers, Close(d), \A x \in Callers : x # d => pc'[x] = pc[x]
      PROVE  /\ \A c \in Callers :
                    Ends(c, "NoError") /\ op[c] \in Writers =>
                        \A n \in asked[c] : MayStore(c, n, zip'[n])
             /\ zip' # zip =>
                    \E c \in Callers :
                        /\ Ends(c, "NoError") /\ op[c] \in Writers
                        /\ \A n \in Names \ asked[c] : zip'[n] = old[c][n]
  <2>1. /\ op[d] \in Writers => \A n \in asked[d] : MayStore(d, n, zip'[n])
        /\ zip' # zip => /\ op[d] \in Writers
                         /\ \A n \in Names \ asked[d] : zip'[n] = old[d][n]
    BY <1>2, CloseTells
  <2>2. Ends(d, "NoError")
    BY <1>2, CloseStores DEF Ends
  <2>3. \A c \in Callers : Ends(c, "NoError") => c = d
    BY <1>2 DEF Ends
  <2>4. QED
    BY <2>1, <2>2, <2>3
<1>3. ASSUME NEW d \in Callers, zip' = zip, err'[d] # "NoError",
             \A x \in Callers : x # d => pc'[x] = pc[x]
      PROVE  \A c \in Callers : ~Ends(c, "NoError")
  BY <1>3 DEF Ends
<1>4. QED
  BY <1>1, <1>2, <1>3, StepOfACall

\* The archive changes only when a call that stores reports no error; it then holds
\* what that call was asked to store, whatever the other calls did to the files
\* while zip_close read them, and under other names what it held when the call
\* opened it: ReportsTell, for any callers, files, contents and failures below.
THEOREM ReportsAreTrue == ArchivesSpec => ReportsTell
<1> DEFINE Tells ==
        /\ \A c \in Callers :
               Ends(c, "NoError") /\ op[c] \in Writers =>
                   \A n \in asked[c] : MayStore(c, n, zip'[n])
        /\ zip' # zip =>
               \E c \in Callers :
                   /\ Ends(c, "NoError") /\ op[c] \in Writers
                   /\ \A n \in Names \ asked[c] : zip'[n] = old[c][n]
<1>1. ArchivesIInv /\ [ArchivesNext]_archivesVars => [Tells]_archivesVars
  BY StepTells
<1>2. QED
  BY <1>1, ArchivesInvariance, PTL DEF ArchivesSpec, ReportsTell

\* An entry leaves the archive only at the end of a call that had opened the
\* archive before its last change: LostOnlyToOverlap, for any number of callers.
THEOREM LostOnlyWhenOverlapping == ArchivesSpec => LostOnlyToOverlap
<1> DEFINE Overlaps(n) ==
        zip[n] # NoFile /\ zip'[n] = NoFile => \E c \in Callers : pc[c] = "close" /\ old[c] # zip
<1>1. ASSUME ArchivesIInv, ArchivesNext, NEW n \in Names PROVE Overlaps(n)
  <2>1. CASE zip' = zip
    BY <2>1
  <2>2. ASSUME NEW c \in Callers, Close(c), zip[n] # NoFile, zip'[n] = NoFile
        PROVE  pc[c] = "close" /\ old[c] # zip
    <3>1. /\ pc[c] = "close" /\ ArchivesTypeOK
          /\ \A m \in Sources(c) : added[c][m] # Unread
          /\ zip' = IF Sources(c) = {} THEN zip ELSE Written(c)
      BY <1>1, <2>2, CloseStores DEF ArchivesIInv
    <3>2. zip' = Written(c)
      BY <2>2, <3>1
    <3>3. n \notin Sources(c)
      BY <2>2, <3>1, <3>2, WrittenIsRight, EntryTypes
    <3>4. old[c][n] = NoFile
      BY <2>2, <3>1, <3>2, <3>3, WrittenIsRight
    <3>5. QED
      BY <2>2, <3>1, <3>4
  <2>3. QED
    BY <1>1, <2>1, <2>2, StepOfACall
<1>2. ArchivesIInv /\ [ArchivesNext]_archivesVars => [\A n \in Names : Overlaps(n)]_archivesVars
  BY <1>1
<1>3. QED
  BY <1>2, ArchivesInvariance, PTL DEF ArchivesSpec, LostOnlyToOverlap

-----------------------------------------------------------------------------
(* Commands.                                                                *)
\* The signals of a command, and what the owner is told of one and will be.
SignalsOf(e) == [kind : Signals, of : {e}]
Told(e) == Filter(received, SignalsOf(e)) \o Filter(inbox, SignalsOf(e))

\* What it has been told when the thread is at that stage.
ToldAt(s, e) ==
    CASE s \in {"none", "open", "read"} -> <<>>
      [] s \in {"no pipe", "reported"}  -> <<Event("finished", e)>>
      [] OTHER -> <<Event("finished", e), Event("resultAcquired", e)>>

\* A thread that waits in its loop has been told to leave it or will be, and one
\* that is over is deleted or will be.
OnItsWay(e) ==
    /\ stage[e] \in {"no pipe", "reported", "loop"} =>
           exited[e] \/ Event("exit", e) \in Elements(inbox)
    /\ stage[e] = "none" => Objects(e) \cap living = {}
    /\ stage[e] = "over" =>
           /\ <<"object", e>> \notin living
           /\ <<"thread", e>> \in living => Event("delete", e) \in Elements(inbox)

CommandsIInv ==
    /\ CommandsTypeOK
    /\ \A e \in Executions : OnItsWay(e)
    /\ \A e \in Executions : receiver => Told(e) = ToldAt(stage[e], e)

-----------------------------------------------------------------------------
LEMMA FilterOne ==
    ASSUME NEW T, NEW x \in T, NEW S
    PROVE  Filter(<<x>>, S) = IF x \in S THEN <<x>> ELSE <<>>
<1> DEFINE none == <<>>
<1>1. none \in Seq(T) /\ Filter(none, S) = none /\ <<x>> = Append(none, x)
  BY FilterEmpty, EmptySeq
<1> HIDE DEF none
<1>2. Filter(Append(none, x), S) = IF x \in S THEN Append(none, x) ELSE none
  BY <1>1, FilterAppend
<1>3. QED
  BY <1>1, <1>2 DEF none

LEMMA FilterTwo ==
    ASSUME NEW T, NEW x \in T, NEW y \in T, NEW S
    PROVE  Filter(<<x, y>>, S) = Filter(<<x>>, S) \o Filter(<<y>>, S)
<1> DEFINE a == <<x>>
           b == <<y>>
<1>1. a \in Seq(T) /\ b \in Seq(T) /\ <<x, y>> = a \o b
  <2>1. a \in Seq(T) /\ b \in Seq(T)
    OBVIOUS
  <2>2. <<x, y>> = Append(a, y)
    OBVIOUS
  <2> HIDE DEF a
  <2>3. Append(a, y) = a \o <<y>>
    BY <2>1, AppendIsConcat
  <2>4. QED
    BY <2>1, <2>2, <2>3
<1> HIDE DEF a, b
<1>2. Filter(a \o b, S) = Filter(a, S) \o Filter(b, S)
  BY <1>1, FilterConcat
<1>3. QED
  BY <1>1, <1>2 DEF a, b

LEMMA ShortSequences ==
    ASSUME NEW T, NEW x \in T, NEW y \in T
    PROVE  <<x>> \in Seq(T) /\ <<x, y>> \in Seq(T)
OBVIOUS

LEMMA ElementsOne ==
    ASSUME NEW x
    PROVE  Elements(<<x>>) = {x}
BY DEF Elements

\* What is posted: the signals only to an ExecuteCommandAsync that lives.
LEMMA Posting ==
    ASSUME CommandsTypeOK, NEW events \in Seq(Events)
    PROVE  /\ Posted(events) \in Seq(Events)
           /\ Elements(inbox) \subseteq Elements(Posted(events))
           /\ \A k \in Calls, e \in Executions :
                  Event(k, e) \in Elements(events) => Event(k, e) \in Elements(Posted(events))
           /\ receiver => \A e \in Executions :
                  Filter(Posted(events), SignalsOf(e))
                      = Filter(inbox, SignalsOf(e)) \o Filter(events, SignalsOf(e))
<1> DEFINE C == [kind : Calls, of : Executions]
           sent == IF receiver THEN events ELSE Filter(events, C)
<1>1. inbox \in Seq(Events)
  BY DEF CommandsTypeOK
<1>2. sent \in Seq(Events) /\ Posted(events) = inbox \o sent
  BY FilterType DEF Posted
<1>3. Elements(sent) = Elements(events) \/ Elements(sent) = Elements(events) \cap C
  BY FilterElements
<1>4. receiver => sent = events
  OBVIOUS
<1> HIDE DEF sent
<1>5. Elements(inbox \o sent) = Elements(inbox) \cup Elements(sent)
  BY <1>1, <1>2, ElementsConcat
<1>6. \A k \in Calls, e \in Executions : Event(k, e) \in C
  BY DEF Event
<1>7. inbox \o sent \in Seq(Events)
  BY <1>1, <1>2, ConcatProperties
<1>8. \A e : Filter(inbox \o sent, SignalsOf(e))
                 = Filter(inbox, SignalsOf(e)) \o Filter(sent, SignalsOf(e))
  BY <1>1, <1>2, FilterConcat
<1>9. QED
  BY <1>2, <1>3, <1>4, <1>5, <1>6, <1>7, <1>8

LEMMA EventsAreThere ==
    ASSUME NEW e \in Executions
    PROVE  /\ \A k \in Signals \cup Calls : Event(k, e) \in Events
           /\ \A d : \A k \in Signals : Event(k, e) \in SignalsOf(d) <=> d = e
           /\ \A d : \A k \in Calls : Event(k, e) \notin SignalsOf(d)
           /\ \A k, d : Event(k, e).kind = k /\ Event(k, e).of = e
BY DEF Event, Events, SignalsOf, Signals, Calls

\* What the steps of a command's thread post.
LEMMA FinishedPosts ==
    ASSUME NEW e \in Executions
    PROVE  /\ Finished(e) \in Seq(Events)
           /\ Event("exit", e) \in Elements(Finished(e))
           /\ \A d : Filter(Finished(e), SignalsOf(d))
                        = IF d = e THEN <<Event("finished", e)>> ELSE <<>>
<1> DEFINE x == Event("finished", e)
           y == Event("exit", e)
<1>1. x \in Events /\ y \in Events /\ \A d : y \notin SignalsOf(d) /\ (x \in SignalsOf(d) <=> d = e)
  BY EventsAreThere DEF Signals, Calls
<1>2. Finished(e) = <<x, y>>
  BY DEF Finished
<1> HIDE DEF x, y
<1>3. <<x, y>> \in Seq(Events) /\ y \in Elements(<<x, y>>)
  BY <1>1 DEF Elements
<1>4. ASSUME NEW d
      PROVE  Filter(<<x, y>>, SignalsOf(d)) = IF d = e THEN <<x>> ELSE <<>>
  <2>1. Filter(<<x>>, SignalsOf(d)) = IF d = e THEN <<x>> ELSE <<>>
    BY <1>1, FilterOne
  <2>2. Filter(<<y>>, SignalsOf(d)) = <<>>
    BY <1>1, FilterOne
  <2>3. Filter(<<x, y>>, SignalsOf(d)) = Filter(<<x>>, SignalsOf(d)) \o Filter(<<y>>, SignalsOf(d))
    BY <1>1, FilterTwo
  <2>4. <<x>> \in Seq(Events) /\ <<>> \in Seq(Events)
    BY <1>1
  <2>5. <<x>> \o <<>> = <<x>> /\ <<>> \o <<>> = <<>>
    BY <2>4, ConcatEmptySeq
  <2>6. QED
    BY <2>1, <2>2, <2>3, <2>5
<1>5. QED
  BY <1>2, <1>3, <1>4 DEF x, y

LEMMA OnePosted ==
    ASSUME NEW e \in Executions, NEW k \in Signals \cup Calls
    PROVE  /\ <<Event(k, e)>> \in Seq(Events)
           /\ Elements(<<Event(k, e)>>) = {Event(k, e)}
           /\ \A d : Filter(<<Event(k, e)>>, SignalsOf(d))
                        = IF d = e /\ k \in Signals THEN <<Event(k, e)>> ELSE <<>>
<1> DEFINE x == Event(k, e)
<1>1. x \in Events /\ \A d : x \in SignalsOf(d) <=> d = e /\ k \in Signals
  BY EventsAreThere DEF Signals, Calls
<1> HIDE DEF x
<1>2. <<x>> \in Seq(Events) /\ Elements(<<x>>) = {x}
  BY <1>1, ElementsOne
<1>3. \A d : Filter(<<x>>, SignalsOf(d)) = IF x \in SignalsOf(d) THEN <<x>> ELSE <<>>
  BY <1>1, FilterOne
<1>4. QED
  BY <1>1, <1>2, <1>3 DEF x

-----------------------------------------------------------------------------
LEMMA CommandsInitially == CommandsInit => CommandsIInv
<1> SUFFICES ASSUME CommandsInit PROVE CommandsIInv
  OBVIOUS
<1> DEFINE none == <<>>
<1>1. inbox = none /\ received = none /\ none \in Seq(Events)
      /\ none \in Seq([kind : Signals, of : Executions])
  BY EmptySeq DEF CommandsInit
<1>2. \A e \in Executions : stage[e] = "none" /\ living = {}
  BY DEF CommandsInit
<1>3. CommandsTypeOK
  BY <1>1 DEF CommandsInit, CommandsTypeOK
<1>4. \A e \in Executions : OnItsWay(e)
  BY <1>2 DEF OnItsWay
<1>5. \A e \in Executions : Told(e) = ToldAt(stage[e], e)
  <2> TAKE e \in Executions
  <2>1. Filter(none, SignalsOf(e)) = none /\ none \o none = none
    BY FilterEmpty, <1>1, ConcatEmptySeq
  <2> HIDE DEF none
  <2>2. Told(e) = none
    BY <1>1, <2>1 DEF Told
  <2>3. ToldAt("none", e) = none
    BY DEF ToldAt, none
  <2>4. QED
    BY <1>2, <2>2, <2>3
<1>6. QED
  BY <1>3, <1>4, <1>5 DEF CommandsIInv

\* A step of the thread of e that posts events and leaves the other threads alone.
LEMMA ThreadSteps ==
    ASSUME CommandsIInv, NEW e \in Executions, NEW s, NEW events \in Seq(Events),
           CommandsTypeOK', GoTo(e, s), inbox' = Posted(events),
           UNCHANGED <<exited, received, receiver>>,
           \A d \in Executions \ {e} : Objects(d) \cap living' = Objects(d) \cap living,
           \A d \in Executions : d # e => Filter(events, SignalsOf(d)) = <<>>,
           receiver => ToldAt(stage[e], e) \o Filter(events, SignalsOf(e)) = ToldAt(s, e),
           OnItsWay(e)'
    PROVE  CommandsIInv'
<1>1. CommandsTypeOK /\ inbox \in Seq(Events)
  BY DEF CommandsIInv, CommandsTypeOK
<1>2. stage' = [stage EXCEPT ![e] = s] /\ stage \in [Executions -> {"none", "open", "read", "no pipe", "reported",
                                 "loop", "over"}]
  BY <1>1 DEF GoTo, CommandsTypeOK
<1>3. Elements(inbox) \subseteq Elements(inbox')
  BY <1>1, Posting
<1>4. ASSUME NEW d \in Executions, d # e PROVE OnItsWay(d)'
  <2>1. OnItsWay(d)
    BY DEF CommandsIInv
  <2>2. /\ stage'[d] = stage[d] /\ exited'[d] = exited[d]
        /\ \A x \in Objects(d) : x \in living' <=> x \in living
    BY <1>2, <1>4
  <2>3. QED
    BY <1>3, <2>1, <2>2 DEF OnItsWay, Objects
<1>5. ASSUME NEW d \in Executions, receiver' PROVE (Told(d) = ToldAt(stage[d], d))'
  <2>1. receiver /\ Told(d) = ToldAt(stage[d], d)
    BY <1>5 DEF CommandsIInv
  <2>2. Filter(inbox', SignalsOf(d)) = Filter(inbox, SignalsOf(d)) \o Filter(events, SignalsOf(d))
    BY <1>1, <2>1, Posting
  <2>3. /\ Filter(inbox, SignalsOf(d)) \in Seq(Events) /\ Filter(events, SignalsOf(d)) \in Seq(Events)
        /\ Filter(received, SignalsOf(d)) \in Seq(Events)
    <3>1. received \in Seq(Events)
      BY <1>1, SeqMonotonic DEF CommandsTypeOK, Events
    <3>2. QED
      BY <1>1, <3>1, FilterType
  <2>4. Told(d)' = Told(d) \o Filter(events, SignalsOf(d))
    <3>1. Told(d)' = Filter(received, SignalsOf(d)) \o Filter(inbox', SignalsOf(d))
      BY DEF Told, SignalsOf
    <3> DEFINE a == Filter(received, SignalsOf(d))
               b == Filter(inbox, SignalsOf(d))
               c == Filter(events, SignalsOf(d))
    <3>2. a \in Seq(Events) /\ b \in Seq(Events) /\ c \in Seq(Events)
      BY <2>3
    <3>3. Told(d)' = a \o (b \o c) /\ Told(d) = a \o b
      BY <2>2, <3>1 DEF Told
    <3> HIDE DEF a, b, c
    <3>4. Associated(a, b, c)
      BY <3>2, Associates
    <3>5. Told(d)' = Told(d) \o c
      BY <3>3, <3>4 DEF Associated
    <3>6. QED
      BY <3>5 DEF c
  <2>5. CASE d = e
    <3>1. stage'[e] = s
      BY <1>2
    <3>2. QED
      BY <2>1, <2>4, <2>5, <3>1 DEF ToldAt, Event
  <2>6. CASE d # e
    <3>1. stage'[d] = stage[d] /\ Told(d) \in Seq(Events)
      BY <1>2, <2>3, <2>6, ConcatProperties DEF Told
    <3>2. Told(d) \o <<>> = Told(d)
      BY <3>1, ConcatEmptySeq
    <3>3. Told(d)' = Told(d)
      BY <2>4, <2>6, <3>2
    <3>4. QED
      BY <2>1, <3>1, <3>3 DEF ToldAt, Event
  <2>7. QED
    BY <2>5, <2>6
<1>6. \A d \in Executions : OnItsWay(d)'
  BY <1>4
<1>7. QED
  BY <1>5, <1>6 DEF CommandsIInv

LEMMA NothingPosted ==
    ASSUME CommandsTypeOK
    PROVE  /\ <<>> \in Seq(Events) /\ inbox = Posted(<<>>)
           /\ \A d : Filter(<<>>, SignalsOf(d)) = <<>>
<1> DEFINE none == <<>>
<1>1. none \in Seq(Events) /\ inbox \in Seq(Events) /\ \A S : Filter(none, S) = none
  BY FilterEmpty, EmptySeq DEF CommandsTypeOK
<1>2. inbox \o none = inbox
  BY <1>1, ConcatEmptySeq
<1>3. Posted(none) = inbox
  <2> HIDE DEF none
  <2>1. QED
    BY <1>1, <1>2 DEF Posted
<1>4. QED
  BY <1>1, <1>3

LEMMA DeliverKeeps ==
    ASSUME CommandsIInv, Deliver
    PROVE  CommandsIInv'
<1> DEFINE x == Head(inbox)
           r == Tail(inbox)
<1>1. CommandsTypeOK /\ inbox \in Seq(Events) /\ inbox # <<>>
  BY DEF CommandsIInv, CommandsTypeOK, Deliver
<1>2. x \in Events /\ r \in Seq(Events) /\ inbox' = r
  BY <1>1, HeadTailProperties DEF Deliver
<1>3. x.kind \in Signals \cup Calls /\ x.of \in Executions /\ x = Event(x.kind, x.of)
  BY <1>2 DEF Events, Event
<1>4. \A S : Filter(inbox, S) = IF x \in S THEN <<x>> \o Filter(r, S) ELSE Filter(r, S)
  BY <1>1, FilterHead
<1>5. Elements(inbox) = {x} \cup Elements(r)
  <2>1. inbox = <<x>> \o r
    BY <1>1, HeadAndTail
  <2> DEFINE h == <<x>>
  <2>2. h \in Seq(Events) /\ Elements(h) = {x}
    BY <1>2, ElementsOne
  <2> HIDE DEF x, r, h
  <2>3. Elements(h \o r) = Elements(h) \cup Elements(r)
    BY <1>2, <2>2, ElementsConcat
  <2>4. QED
    BY <2>1, <2>2, <2>3 DEF h
<1> HIDE DEF x, r
<1>6. /\ received' = IF x.kind \in Signals THEN Append(received, x) ELSE received
      /\ exited' = [exited EXCEPT ![x.of] = @ \/ x.kind = "exit"]
      /\ living' = IF x.kind = "delete" THEN living \ {<<"thread", x.of>>} ELSE living
      /\ UNCHANGED <<stage, receiver, crashed>>
  BY DEF Deliver, x
<1>7. CommandsTypeOK'
  <2>1. received' \in Seq([kind : Signals, of : Executions])
    <3>1. received \in Seq([kind : Signals, of : Executions])
      BY <1>1 DEF CommandsTypeOK
    <3>2. x.kind \in Signals => x \in [kind : Signals, of : Executions]
      BY <1>3 DEF Event
    <3>3. QED
      BY <1>6, <3>1, <3>2, AppendProperties
  <2>2. exited' \in [Executions -> BOOLEAN]
    BY <1>1, <1>3, <1>6 DEF CommandsTypeOK
  <2>3. QED
    BY <1>1, <1>2, <1>6, <2>1, <2>2 DEF CommandsTypeOK
<1>8. ASSUME NEW e \in Executions PROVE OnItsWay(e)'
  <2>1. OnItsWay(e)
    BY DEF CommandsIInv
  <2>2. ASSUME stage[e] \in {"no pipe", "reported", "loop"}
        PROVE  exited'[e] \/ Event("exit", e) \in Elements(r)
    <3>1. exited[e] \/ Event("exit", e) \in Elements(r) \/ Event("exit", e) = x
      BY <1>5, <2>1, <2>2 DEF OnItsWay
    <3>2. exited'[e] = IF e = x.of THEN exited[e] \/ x.kind = "exit" ELSE exited[e]
      <4>1. exited \in [Executions -> BOOLEAN]
        BY <1>1 DEF CommandsTypeOK
      <4>2. QED
        BY <1>6, <4>1
    <3>3. Event("exit", e) = x => x.kind = "exit" /\ x.of = e
      BY DEF Event
    <3>4. QED
      BY <3>1, <3>2, <3>3
  <2>3. ASSUME stage[e] = "over"
        PROVE  /\ <<"object", e>> \notin living'
               /\ <<"thread", e>> \in living' => Event("delete", e) \in Elements(r)
    <3>1. <<"object", e>> \notin living
          /\ (<<"thread", e>> \in living => Event("delete", e) \in Elements(r) \/ Event("delete", e) = x)
      BY <1>5, <2>1, <2>3 DEF OnItsWay
    <3>2. Event("delete", e) = x => x.kind = "delete" /\ x.of = e
      BY DEF Event
    <3>3. living' \subseteq living /\ (x.kind = "delete" => <<"thread", x.of>> \notin living')
      BY <1>6
    <3>4. QED
      BY <3>1, <3>2, <3>3
  <2>4. stage[e] = "none" => Objects(e) \cap living' = {}
    BY <1>6, <2>1 DEF OnItsWay
  <2>5. QED
    BY <1>2, <1>6, <2>2, <2>3, <2>4 DEF OnItsWay, Event, Objects
<1>9. ASSUME NEW e \in Executions, receiver' PROVE (Told(e) = ToldAt(stage[e], e))'
  <2> DEFINE S == SignalsOf(e)
  <2>1. Told(e) = ToldAt(stage[e], e) /\ stage' = stage
    BY <1>6, <1>9 DEF CommandsIInv
  <2>2. received \in Seq(Events)
    BY <1>1, SeqMonotonic DEF CommandsTypeOK, Events
  <2>3. Filter(received, S) \in Seq(Events) /\ Filter(r, S) \in Seq(Events) /\ <<x>> \in Seq(Events)
    BY <1>2, <2>2, FilterType
  <2>4. Filter(received, S) \o Filter(inbox, S) = Filter(received', S) \o Filter(r, S)
    <3>1. CASE x \in S
      <4>1. x.kind \in Signals
        BY <3>1 DEF SignalsOf
      <4>2. Filter(Append(received, x), S) = Append(Filter(received, S), x)
        BY <1>2, <2>2, <3>1, FilterAppend
      <4>3. Append(Filter(received, S), x) = Filter(received, S) \o <<x>>
        BY <1>2, <2>3, AppendIsConcat
      <4>4. (Filter(received, S) \o <<x>>) \o Filter(r, S) = Filter(received, S) \o (<<x>> \o Filter(r, S))
        BY <2>3, ConcatAssociative
      <4>5. Filter(inbox, S) = <<x>> \o Filter(r, S)
        BY <1>4, <3>1
      <4>6. received' = Append(received, x)
        BY <1>6, <4>1
      <4>7. QED
        BY <4>2, <4>3, <4>4, <4>5, <4>6, Zenon
    <3>2. CASE x \notin S
      <4>1. Filter(received', S) = Filter(received, S)
        BY <1>2, <1>6, <2>2, <3>2, FilterAppend
      <4>2. QED
        BY <1>4, <3>2, <4>1
    <3>3. QED
      BY <3>1, <3>2
  <2>5. Told(e)' = Told(e)
    BY <1>2, <2>4 DEF Told, SignalsOf
  <2>6. QED
    BY <2>1, <2>5 DEF ToldAt, Event
<1>10. QED
  BY <1>7, <1>8, <1>9 DEF CommandsIInv

\* What waits for the ExecuteCommandAsync goes with it, and the rest stays.
LEMMA DeleteReceiverKeeps ==
    ASSUME CommandsIInv, DeleteReceiver
    PROVE  CommandsIInv'
<1> DEFINE C == [kind : Calls, of : Executions]
<1>1. CommandsTypeOK /\ inbox \in Seq(Events)
  BY DEF CommandsIInv, CommandsTypeOK
<1>2. /\ ~receiver' /\ receiver' \in BOOLEAN /\ inbox' = Filter(inbox, C)
      /\ UNCHANGED <<stage, exited, received, living, crashed>>
  BY DEF DeleteReceiver
<1>3. inbox' \in Seq(Events) /\ Elements(inbox') = Elements(inbox) \cap C
  BY <1>1, <1>2, FilterType, FilterElements
<1>4. CommandsTypeOK'
  BY <1>1, <1>2, <1>3 DEF CommandsTypeOK
<1>5. \A e \in Executions : Event("exit", e) \in C /\ Event("delete", e) \in C
  BY DEF Event, Calls
<1>6. ASSUME NEW e \in Executions PROVE OnItsWay(e)'
  <2>1. OnItsWay(e)
    BY DEF CommandsIInv
  <2>2. QED
    BY <1>2, <1>3, <1>5, <2>1 DEF OnItsWay, Objects, Event
<1>7. QED
  BY <1>2, <1>4, <1>6 DEF CommandsIInv

LEMMA CommandsTypes ==
    ASSUME CommandsTypeOK, NEW e \in Executions, NEW events \in Seq(Events), NEW s,
           s \in {"none", "open", "read", "no pipe", "reported", "loop", "over"},
           GoTo(e, s), inbox' = Posted(events), UNCHANGED <<exited, received, receiver, crashed>>,
           living' \subseteq living \cup Objects(e)
    PROVE  CommandsTypeOK'
<1>1. inbox' \in Seq(Events)
  BY Posting
<1>2. living' \subseteq UNION {Objects(d) : d \in Executions}
  BY DEF CommandsTypeOK
<1>3. stage' \in [Executions -> {"none", "open", "read", "no pipe", "reported", "loop", "over"}]
  BY DEF CommandsTypeOK, GoTo
<1>4. QED
  BY <1>1, <1>2, <1>3 DEF CommandsTypeOK, Events, Objects

LEMMA CommandsInductive == CommandsIInv /\ [CommandsNext]_commandsVars => CommandsIInv'
<1> SUFFICES ASSUME CommandsIInv, [CommandsNext]_commandsVars PROVE CommandsIInv'
  OBVIOUS
<1>0. CommandsTypeOK /\ \A e \in Executions : OnItsWay(e)
  BY DEF CommandsIInv
<1>a. ASSUME NEW e \in Executions, NEW s, GoTo(e, s) PROVE stage'[e] = s
  BY <1>0, <1>a DEF GoTo, CommandsTypeOK
<1>b. ASSUME NEW e \in Executions
      PROVE  /\ ToldAt("none", e) = <<>> /\ ToldAt("open", e) = <<>> /\ ToldAt("read", e) = <<>>
             /\ ToldAt("no pipe", e) = <<Event("finished", e)>>
             /\ ToldAt("reported", e) = <<Event("finished", e)>>
             /\ ToldAt("loop", e) = <<Event("finished", e), Event("resultAcquired", e)>>
             /\ ToldAt("over", e) = <<Event("finished", e), Event("resultAcquired", e)>>
  BY DEF ToldAt
<1>c. ASSUME NEW e \in Executions, NEW f \in Executions, e # f
      PROVE  Objects(e) \cap Objects(f) = {}
  BY <1>c DEF Objects
<1>d. <<>> \in Seq(Events) /\ inbox = Posted(<<>>) /\ \A d : Filter(<<>>, SignalsOf(d)) = <<>>
  BY <1>0, NothingPosted
<1>e. <<>> \o <<>> = <<>>
  BY <1>d, ConcatEmptySeq
<1>1. ASSUME NEW e \in Executions, Execute(e) PROVE CommandsIInv'
  <2>1. /\ GoTo(e, "open") /\ inbox' = Posted(<<>>)
        /\ living' = living \cup Objects(e) /\ stage[e] = "none"
        /\ UNCHANGED <<exited, received, receiver, crashed>>
    BY <1>1, <1>d DEF Execute, In
  <2>2. CommandsTypeOK'
    BY <1>0, <1>d, <2>1, CommandsTypes
  <2>3. \A d \in Executions \ {e} : Objects(d) \cap living' = Objects(d) \cap living
    BY <1>c, <2>1
  <2>4. ToldAt("none", e) \o <<>> = ToldAt("open", e)
    BY <1>b, <1>e
  <2>5. OnItsWay(e)'
    BY <1>a, <2>1 DEF OnItsWay
  <2>6. QED
    BY <1>d, <2>1, <2>2, <2>3, <2>4, <2>5, ThreadSteps
<1>2. ASSUME NEW e \in Executions, OpenPipe(e) PROVE CommandsIInv'
  <2>1. /\ GoTo(e, "read") /\ inbox' = Posted(<<>>) /\ stage[e] = "open"
        /\ UNCHANGED <<exited, received, living, receiver, crashed>>
    BY <1>2, <1>d DEF OpenPipe, In
  <2>2. CommandsTypeOK'
    BY <1>0, <1>d, <2>1, CommandsTypes
  <2>4. ToldAt("open", e) \o <<>> = ToldAt("read", e)
    BY <1>b, <1>e
  <2>5. OnItsWay(e)'
    BY <1>a, <2>1 DEF OnItsWay
  <2>6. QED
    BY <1>d, <2>1, <2>2, <2>4, <2>5, ThreadSteps
<1>3. ASSUME NEW e \in Executions, PipeFails(e) \/ ReadAll(e) PROVE CommandsIInv'
  <2>1. PICK s \in {"no pipe", "reported"} :
            /\ GoTo(e, s) /\ inbox' = Posted(Finished(e)) /\ stage[e] \in {"open", "read"}
            /\ UNCHANGED <<exited, received, living, receiver, crashed>>
    BY <1>3 DEF PipeFails, ReadAll, In
  <2> DEFINE events == Finished(e)
             f == Event("finished", e)
  <2>2. /\ events \in Seq(Events) /\ Event("exit", e) \in Elements(events)
        /\ \A d : Filter(events, SignalsOf(d)) = IF d = e THEN <<f>> ELSE <<>>
    BY FinishedPosts
  <2>3. ToldAt(stage[e], e) = <<>> /\ ToldAt(s, e) = <<f>> /\ <<>> \o <<f>> = <<f>>
    <3>1. f \in Events
      BY EventsAreThere DEF Signals
    <3> HIDE DEF f
    <3>2. <<f>> \in Seq(Events)
      BY <3>1, ShortSequences
    <3>3. <<>> \o <<f>> = <<f>>
      BY <3>2, ConcatEmptySeq
    <3>4. QED
      BY <1>b, <2>1, <3>3 DEF f
  <2> HIDE DEF events
  <2>4. CommandsTypeOK'
    BY <1>0, <2>1, <2>2, CommandsTypes DEF events
  <2>5. Event("exit", e) \in Elements(inbox')
    BY <1>0, <2>1, <2>2, Posting DEF events, Calls
  <2>6. OnItsWay(e)'
    BY <1>a, <2>1, <2>5 DEF OnItsWay, Event
  <2>7. inbox' = Posted(events)
    BY <2>1 DEF events
  <2>8. QED
    BY <2>1, <2>2, <2>3, <2>4, <2>6, <2>7, ThreadSteps
<1>4. ASSUME NEW e \in Executions, EmitResult(e) PROVE CommandsIInv'
  <2> DEFINE f == Event("finished", e)
             x == Event("resultAcquired", e)
             events == <<x>>
  <2>1. /\ GoTo(e, "loop") /\ inbox' = Posted(events) /\ stage[e] = "reported"
        /\ UNCHANGED <<exited, received, living, receiver, crashed>>
    BY <1>4 DEF EmitResult, In
  <2>2. /\ events \in Seq(Events)
        /\ \A d : Filter(events, SignalsOf(d)) = IF d = e THEN <<x>> ELSE <<>>
    BY OnePosted DEF Signals
  <2>3. ToldAt(stage[e], e) = <<f>> /\ ToldAt("loop", e) = <<f, x>> /\ <<f>> \o <<x>> = <<f, x>>
    <3>1. f \in Events /\ x \in Events
      BY EventsAreThere DEF Signals
    <3> HIDE DEF f, x
    <3> DEFINE a == <<f>>
    <3>2. a \in Seq(Events) /\ <<f, x>> = Append(a, x)
      BY <3>1
    <3>3. Append(a, x) = a \o <<x>>
      <4> HIDE DEF a
      <4>1. QED
        BY <3>1, <3>2, AppendIsConcat
    <3>4. QED
      BY <1>b, <2>1, <3>2, <3>3 DEF f, x
  <2> HIDE DEF events, x, f
  <2>4. CommandsTypeOK'
    BY <1>0, <2>1, <2>2, CommandsTypes
  <2>5. Elements(inbox) \subseteq Elements(inbox') /\ OnItsWay(e)
    BY <1>0, <2>1, <2>2, Posting
  <2>6. OnItsWay(e)'
    BY <1>a, <2>1, <2>5 DEF OnItsWay, Event
  <2>8. QED
    BY <2>1, <2>2, <2>3, <2>4, <2>6, ThreadSteps
<1>5. ASSUME NEW e \in Executions, EndThread(e) PROVE CommandsIInv'
  <2> DEFINE x == Event("delete", e)
             events == <<x>>
  <2>1. /\ GoTo(e, "over") /\ inbox' = Posted(events) /\ stage[e] = "loop"
        /\ living' = living \ {<<"object", e>>}
        /\ UNCHANGED <<exited, received, receiver, crashed>>
    BY <1>5 DEF EndThread, In
  <2>2. /\ events \in Seq(Events) /\ x \in Elements(events)
        /\ \A d : Filter(events, SignalsOf(d)) = <<>>
    BY OnePosted DEF Signals, Calls
  <2>3. ToldAt("loop", e) \o <<>> = ToldAt("over", e)
    <3>1. Event("finished", e) \in Events /\ Event("resultAcquired", e) \in Events
      BY EventsAreThere DEF Signals
    <3>2. ToldAt("loop", e) \in Seq(Events)
      BY <1>b, <3>1, ShortSequences
    <3>3. QED
      BY <1>b, <3>2, ConcatEmptySeq
  <2> HIDE DEF events
  <2>4. CommandsTypeOK'
    BY <1>0, <2>1, <2>2, CommandsTypes
  <2>5. x \in Elements(inbox')
    BY <1>0, <2>1, <2>2, Posting DEF Calls
  <2>6. OnItsWay(e)'
    BY <1>a, <2>1, <2>5 DEF OnItsWay, Event
  <2>7. \A d \in Executions \ {e} : Objects(d) \cap living' = Objects(d) \cap living
    BY <2>1 DEF Objects
  <2>8. QED
    BY <2>1, <2>2, <2>3, <2>4, <2>6, <2>7, ThreadSteps
<1>6. ASSUME NEW e \in Executions, UseNoPipe(e) PROVE CommandsIInv'
  BY <1>6 DEF UseNoPipe, CommandsIInv, CommandsTypeOK, OnItsWay, Told, ToldAt,
              SignalsOf, Event, Objects, Events
<1>7. CASE Deliver
  BY <1>7, DeliverKeeps
<1>8. CASE DeleteReceiver
  BY <1>8, DeleteReceiverKeeps
<1>9. CASE UNCHANGED commandsVars
  BY <1>9 DEF commandsVars, CommandsIInv, CommandsTypeOK, OnItsWay, Told, ToldAt,
              SignalsOf, Event, Objects, Events
<1>10. QED
  BY <1>1, <1>2, <1>3, <1>4, <1>5, <1>6, <1>7, <1>8, <1>9 DEF CommandsNext

\* The invariant, for any number of commands.
THEOREM CommandsInvariance == CommandsSpec => []CommandsIInv
<1>1. QED
  BY CommandsInitially, CommandsInductive, PTL DEF CommandsSpec

\* ExecuteCommandAsync: what waits and what was emitted are events of its commands.
THEOREM CommandsTypeCorrect == CommandsSpec => []CommandsTypeOK
<1>1. CommandsIInv => CommandsTypeOK
  BY DEF CommandsIInv
<1>2. QED
  BY <1>1, CommandsInvariance, PTL

\* However many commands run at once, and in whatever order their threads and the
\* owner's go on: at rest every thread and object is deleted, and an
\* ExecuteCommandAsync that lives has emitted finished and resultAcquired, in
\* that order, once for each command that is over.
THEOREM CommandsAllEnd == CommandsSpec => []CommandsEnd
<1>1. ASSUME CommandsIInv, AtRest PROVE living = {}
  <2>1. inbox = <<>> /\ Elements(inbox) = {}
    BY <1>1, ElementsEmpty DEF AtRest
  <2>2. ASSUME NEW e \in Executions PROVE Objects(e) \cap living = {}
    <3>1. stage[e] \in {"none", "over"}
      BY <1>1, <2>1 DEF AtRest, CommandsIInv, OnItsWay
    <3>2. QED
      BY <1>1, <2>1, <3>1 DEF CommandsIInv, OnItsWay, Objects
  <2>3. living \subseteq UNION {Objects(e) : e \in Executions}
    BY <1>1 DEF CommandsIInv, CommandsTypeOK
  <2>4. QED
    BY <2>2, <2>3
<1>2. ASSUME CommandsIInv, AtRest, NEW e \in Executions, stage[e] = "over", receiver
      PROVE  Filter(received, [kind : Signals, of : {e}])
                 = <<Event("finished", e), Event("resultAcquired", e)>>
  <2>1. Told(e) = <<Event("finished", e), Event("resultAcquired", e)>>
    <3>1. Told(e) = ToldAt("over", e)
      BY <1>2 DEF CommandsIInv
    <3>2. QED
      BY <3>1 DEF ToldAt
  <2>2. inbox = <<>> /\ received \in Seq([kind : Signals, of : Executions])
    BY <1>2 DEF AtRest, CommandsIInv, CommandsTypeOK
  <2>3. Filter(inbox, SignalsOf(e)) = <<>>
    BY <2>2, FilterEmpty
  <2>4. Filter(received, SignalsOf(e)) \o <<>> = Filter(received, SignalsOf(e))
    BY <2>2, FilterType, ConcatEmptySeq
  <2>5. QED
    BY <2>1, <2>3, <2>4 DEF Told, SignalsOf
<1>3. CommandsIInv => CommandsEnd
  BY <1>1, <1>2 DEF CommandsEnd
<1>4. QED
  BY <1>3, CommandsInvariance, PTL

-----------------------------------------------------------------------------
(* Waits.                                                                   *)
\* What is true of a wait at time t.  Until its loop is told to quit its timer
\* has still to fire, at its end; and it is told to quit before its end only by
\* what it waits for.
Honest(w, t) ==
    /\ ~w.quit => w.timer = w.end
    /\ w.kind = "CheckPort" => w.end <= w.timer
    /\ w.kind # "WaitFor" => w.poll = Never
    /\ w.end <= w.until /\ t <= w.until
    /\ w.quit /\ t < w.end => w.reached
    /\ ~w.open => w.end <= t
    /\ w.quit /\ w.open /\ w.kind = "CheckPort" => w.reached

\* An outer wait is given at least the time of the waits within it.
Nested == \A i, j \in DOMAIN waits : i <= j => waits[j].until <= waits[i].until

WaitsIInv ==
    /\ WaitsTypeOK
    /\ \A i \in DOMAIN waits : Honest(waits[i], clock)
    /\ Nested

-----------------------------------------------------------------------------
LEMMA Times ==
    /\ MaxClock \in Nat /\ PortTime \in Nat /\ PingTime \in Nat
    /\ Never \in Nat /\ Never > MaxClock + PortTime
    /\ \A t \in Clock : t \in Nat /\ t <= Never
    /\ \A t \in Nat : t <= Never => t \in Clock
BY DelaysAssumption, PortTimeAssumption DEF Never, Clock

LEMMA MaxOfTwo ==
    ASSUME NEW a \in Nat, NEW b \in Nat
    PROVE  Max({a, b}) = IF a >= b THEN a ELSE b
<1> DEFINE m == IF a >= b THEN a ELSE b
<1>1. m \in {a, b} /\ \A y \in {a, b} : m >= y
  OBVIOUS
<1>2. \A x \in {a, b} : (\A y \in {a, b} : x >= y) => x = m
  OBVIOUS
<1> HIDE DEF m
<1>3. (CHOOSE x \in {a, b} : \A y \in {a, b} : x >= y) = m
  BY <1>1, <1>2
<1>4. QED
  BY <1>3 DEF Max, m

\* A wait whose time is prolonged to t at least.
Prolonged(w, t) == [w EXCEPT !.until = Max({@, t})]

LEMMA Prolonging ==
    ASSUME NEW w \in Waiting, NEW t \in Clock
    PROVE  /\ Prolonged(w, t) \in Waiting
           /\ Prolonged(w, t).until = IF w.until >= t THEN w.until ELSE t
           /\ \A f \in {"kind", "end", "timer", "poll", "quit", "open", "reached"} :
                  Prolonged(w, t)[f] = w[f]
<1>1. w.until \in Nat /\ w.until \in Clock /\ t \in Nat
  BY Times DEF Waiting
<1>2. Max({w.until, t}) = IF w.until >= t THEN w.until ELSE t
  BY <1>1, MaxOfTwo
<1>3. Max({w.until, t}) \in Clock
  BY <1>1, <1>2
<1>4. Prolonged(w, t) = [w EXCEPT !.until = Max({w.until, t})]
  BY DEF Prolonged
<1> HIDE DEF Prolonged
<1>5. QED
  BY <1>2, <1>3, <1>4 DEF Waiting

\* A wait stays honest when its time is prolonged and when time passes no
\* further than its new end.
LEMMA ProlongedIsHonest ==
    ASSUME NEW w \in Waiting, NEW t \in Clock, NEW now \in Nat, NEW next \in Nat,
           Honest(w, now), now <= next, next = now \/ next <= t
    PROVE  Honest(Prolonged(w, t), next)
<1> DEFINE v == Prolonged(w, t)
<1>1. /\ v.kind = w.kind /\ v.end = w.end /\ v.timer = w.timer /\ v.poll = w.poll
      /\ v.quit = w.quit /\ v.open = w.open /\ v.reached = w.reached
      /\ v.until = IF w.until >= t THEN w.until ELSE t
  BY Prolonging
<1>2. /\ w.end \in Nat /\ w.until \in Nat /\ t \in Nat /\ w.timer \in Nat
      /\ w.quit \in BOOLEAN /\ w.open \in BOOLEAN /\ w.reached \in BOOLEAN
  BY Times DEF Waiting
<1> HIDE DEF v
<1>3. Honest(v, next)
  BY <1>1, <1>2 DEF Honest
<1>4. QED
  BY <1>3 DEF v

LEMMA WaitsInitially == WaitsInit => WaitsIInv
<1> SUFFICES ASSUME WaitsInit PROVE WaitsIInv
  OBVIOUS
<1>1. waits = <<>> /\ waits \in Seq(Waiting) /\ DOMAIN waits = {}
  BY DEF WaitsInit
<1>2. WaitsTypeOK
  <2>1. clock = 0 /\ cancelled \in BOOLEAN /\ cancelEnabled \in BOOLEAN /\ told \in BOOLEAN
    BY DEF WaitsInit
  <2>2. QED
    BY <1>1, <2>1, Times DEF WaitsTypeOK
<1>3. QED
  BY <1>1, <1>2 DEF WaitsIInv, Nested

-----------------------------------------------------------------------------
\* The kinds of step.

\* An event changes one wait, and not its time.
LEMMA OneChanged ==
    ASSUME WaitsIInv, NEW i \in DOMAIN waits, NEW v \in Waiting,
           waits' = [waits EXCEPT ![i] = v], v.until = waits[i].until,
           Honest(v, clock), UNCHANGED <<clock, cancelled, cancelEnabled, told>>
    PROVE  WaitsIInv' /\ Len(waits') = Len(waits)
<1>1. waits \in Seq(Waiting) /\ waits' \in Seq(Waiting) /\ Len(waits') = Len(waits)
      /\ DOMAIN waits' = DOMAIN waits
  BY DEF WaitsIInv, WaitsTypeOK
<1>2. \A j \in DOMAIN waits : waits'[j] = IF j = i THEN v ELSE waits[j]
  BY <1>1
<1>3. \A j \in DOMAIN waits : waits'[j].until = waits[j].until
  BY <1>2
<1>4. Nested'
  BY <1>1, <1>3 DEF Nested, WaitsIInv
<1>5. \A j \in DOMAIN waits' : Honest(waits'[j], clock')
  BY <1>1, <1>2 DEF WaitsIInv
<1>6. QED
  BY <1>1, <1>4, <1>5 DEF WaitsIInv, WaitsTypeOK

LEMMA WaitBeginKeeps ==
    ASSUME WaitsIInv, NEW kind \in {"Wait", "WaitFor", "CheckPort", "WhoAmI"},
           NEW end \in Clock, NEW poll \in Clock, clock <= end,
           kind # "WaitFor" => poll = Never,
           BeginWait(kind, end, poll)
    PROVE  WaitsIInv' /\ Len(waits') > Len(waits)
<1> DEFINE longer == [i \in DOMAIN waits |-> Prolonged(waits[i], end)]
           new == [kind |-> kind, end |-> end, timer |-> end, poll |-> poll, quit |-> FALSE,
                   open |-> TRUE, reached |-> FALSE, until |-> end]
<1>1. /\ waits' = Append(longer, new)
      /\ UNCHANGED <<clock, cancelled, cancelEnabled, told>>
  BY DEF BeginWait, Prolonged, cancel
<1>2. /\ waits \in Seq(Waiting) /\ clock \in Nat
      /\ \A i \in DOMAIN waits : waits[i] \in Waiting
  BY Times DEF WaitsIInv, WaitsTypeOK
<1>3. longer \in Seq(Waiting) /\ Len(longer) = Len(waits) /\ DOMAIN longer = DOMAIN waits
  BY <1>2, Prolonging
<1>4. new \in Waiting /\ Honest(new, clock)
  BY Times DEF Waiting, Honest
<1>5. \A i \in DOMAIN waits :
          /\ Honest(longer[i], clock)
          /\ longer[i].until = IF waits[i].until >= end THEN waits[i].until ELSE end
  BY <1>2, Prolonging, ProlongedIsHonest DEF WaitsIInv
<1>6. \A i \in DOMAIN waits : waits[i].until \in Nat
  BY <1>2, Times DEF Waiting
<1>7. new.until = end /\ end \in Nat
  BY Times
<1> HIDE DEF longer, new
<1>8. /\ waits' \in Seq(Waiting) /\ Len(waits') = Len(waits) + 1 /\ Len(waits) \in Nat
      /\ DOMAIN waits = 1 .. Len(waits) /\ DOMAIN waits' = 1 .. Len(waits) + 1
      /\ \A i \in DOMAIN waits : waits'[i] = longer[i]
      /\ waits'[Len(waits) + 1] = new
  BY <1>1, <1>2, <1>3, <1>4
<1>9. \A i \in DOMAIN waits' : Honest(waits'[i], clock')
  BY <1>1, <1>4, <1>5, <1>8
<1>10. Nested'
  <2> SUFFICES ASSUME NEW i \in DOMAIN waits', NEW j \in DOMAIN waits', i <= j
               PROVE  waits'[j].until <= waits'[i].until
    BY DEF Nested
  <2>1. CASE j \in DOMAIN waits
    <3>1. i \in DOMAIN waits
      BY <1>8, <2>1
    <3>2. waits[j].until <= waits[i].until
      BY <2>1, <3>1 DEF WaitsIInv, Nested
    <3>3. QED
      BY <1>5, <1>6, <1>7, <1>8, <2>1, <3>1, <3>2
  <2>2. CASE j = Len(waits) + 1
    <3>1. CASE i \in DOMAIN waits
      BY <1>5, <1>6, <1>7, <1>8, <2>2, <3>1
    <3>2. CASE i = Len(waits) + 1
      BY <1>7, <1>8, <2>2, <3>2
    <3>3. QED
      BY <1>8, <3>1, <3>2
  <2>3. QED
    BY <1>8, <2>1, <2>2
<1>11. QED
  BY <1>1, <1>8, <1>9, <1>10 DEF WaitsIInv, WaitsTypeOK

LEMMA PingKeeps ==
    ASSUME WaitsIInv, Ping
    PROVE  WaitsIInv' /\ Len(waits') = Len(waits)
<1>1. /\ clock' = clock + PingTime /\ clock' \in 0 .. MaxClock /\ clock' \in Clock
      /\ clock <= clock' /\ clock \in Nat /\ clock' \in Nat
  BY Times DEF Ping, WaitsIInv, WaitsTypeOK
<1>2. /\ waits' = [i \in DOMAIN waits |-> Prolonged(waits[i], clock')]
      /\ UNCHANGED <<cancelled, cancelEnabled, told>>
  BY DEF Ping, Prolonged, cancel
<1>3. /\ waits \in Seq(Waiting) /\ \A i \in DOMAIN waits : waits[i] \in Waiting
      /\ \A i \in DOMAIN waits : waits[i].until \in Nat
  <2>1. waits \in Seq(Waiting) /\ \A i \in DOMAIN waits : waits[i] \in Waiting
    BY DEF WaitsIInv, WaitsTypeOK
  <2>2. QED
    BY <2>1, Times DEF Waiting
<1>4. waits' \in Seq(Waiting) /\ Len(waits') = Len(waits) /\ DOMAIN waits' = DOMAIN waits
  BY <1>1, <1>2, <1>3, Prolonging
<1>5. \A i \in DOMAIN waits :
          /\ Honest(waits'[i], clock')
          /\ waits'[i].until = IF waits[i].until >= clock' THEN waits[i].until ELSE clock'
  BY <1>1, <1>2, <1>3, Prolonging, ProlongedIsHonest DEF WaitsIInv
<1>6. Nested'
  BY <1>1, <1>3, <1>4, <1>5 DEF WaitsIInv, Nested
<1>7. QED
  BY <1>1, <1>2, <1>4, <1>5, <1>6 DEF WaitsIInv, WaitsTypeOK

\* Only the innermost wait lets time pass, and not beyond its end.
LEMMA TickKeeps ==
    ASSUME WaitsIInv, Tick
    PROVE  WaitsIInv' /\ Len(waits') = Len(waits)
<1>1. /\ clock < MaxClock /\ clock' = clock + 1 /\ clock \in Nat /\ waits # <<>>
      /\ UNCHANGED <<waits, cancelled, cancelEnabled, told>>
      /\ ~Last(waits).quit /\ \A i \in DOMAIN waits : clock < waits[i].timer
  BY Times DEF Tick, cancel, WaitsIInv, WaitsTypeOK
<1>2. /\ waits \in Seq(Waiting) /\ \A i \in DOMAIN waits : waits[i] \in Waiting
      /\ Len(waits) \in DOMAIN waits /\ Last(waits) = waits[Len(waits)]
      /\ \A i \in DOMAIN waits : i <= Len(waits)
  BY <1>1 DEF WaitsIInv, WaitsTypeOK, Last
<1>3. \A i \in DOMAIN waits :
          waits[i].until \in Nat /\ waits[i].end \in Nat /\ waits[i].timer \in Nat
  BY <1>2, Times DEF Waiting
<1>4. clock + 1 <= waits[Len(waits)].until
  BY <1>1, <1>2, <1>3 DEF WaitsIInv, Honest
<1>5. \A i \in DOMAIN waits : clock + 1 <= waits[i].until
  BY <1>1, <1>2, <1>3, <1>4 DEF WaitsIInv, Nested
<1>6. \A i \in DOMAIN waits : Honest(waits[i], clock + 1)
  BY <1>1, <1>3, <1>5 DEF WaitsIInv, Honest
<1>7. QED
  BY <1>1, <1>6, Times DEF WaitsIInv, WaitsTypeOK, Nested

LEMMA ReturnKeeps ==
    ASSUME WaitsIInv, ReturnWait
    PROVE  WaitsIInv'
<1>1. /\ waits \in Seq(Waiting) /\ waits # <<>> /\ waits' = SubSeq(waits, 1, Len(waits) - 1)
      /\ told' = Answer(Last(waits)) /\ UNCHANGED <<clock, cancelled, cancelEnabled>>
  BY DEF ReturnWait, Front, cancel, WaitsIInv, WaitsTypeOK
<1>2. /\ Len(waits) \in Nat /\ Len(waits) > 0
      /\ waits' \in Seq(Waiting) /\ DOMAIN waits' \subseteq DOMAIN waits
      /\ \A i \in DOMAIN waits' : waits'[i] = waits[i]
  BY <1>1
<1>3. Last(waits) \in Waiting
  BY <1>1, <1>2 DEF Last
<1>4. told' \in BOOLEAN
  BY <1>1, <1>3 DEF Answer, WaitsIInv, WaitsTypeOK, Waiting
<1>5. QED
  BY <1>1, <1>2, <1>4 DEF WaitsIInv, WaitsTypeOK, Nested

-----------------------------------------------------------------------------
\* The events.
LEMMA EventKeeps ==
    ASSUME WaitsIInv, NEW i \in DOMAIN waits, Timer(i) \/ Poll(i) \/ Reach(i)
    PROVE  WaitsIInv' /\ Len(waits') = Len(waits)
<1> DEFINE w == waits[i]
<1>1. /\ w \in Waiting /\ Honest(w, clock) /\ clock \in Nat /\ clock <= MaxClock
      /\ clock + 1 \in Clock /\ clock + PortTime \in Clock /\ Never \in Clock
  <2>1. w \in Waiting /\ Honest(w, clock) /\ clock \in Nat /\ clock <= MaxClock
    BY Times DEF WaitsIInv, WaitsTypeOK
  <2>2. QED
    BY <2>1, Times, PortTimeAssumption DEF Never, Clock
<1>2. /\ w.end \in Nat /\ w.timer \in Nat /\ w.poll \in Nat /\ w.until \in Nat
      /\ w.kind \in {"Wait", "WaitFor", "CheckPort", "WhoAmI"}
      /\ w.quit \in BOOLEAN /\ w.open \in BOOLEAN /\ w.reached \in BOOLEAN
  BY <1>1, Times DEF Waiting
<1> HIDE DEF w
<1>3. ASSUME Timer(i) PROVE WaitsIInv' /\ Len(waits') = Len(waits)
  <2>1. w.timer <= clock /\ UNCHANGED <<clock, cancelled, cancelEnabled, told>>
    BY <1>3 DEF Timer, cancel, w
  <2>2. ~w.quit => w.end <= clock
    BY <1>1, <1>2, <2>1 DEF Honest
  <2>3. CASE w.kind = "CheckPort"
    <3> DEFINE v == [w EXCEPT !.timer = clock + PortTime, !.open = FALSE, !.quit = TRUE]
    <3>1. waits' = [waits EXCEPT ![i] = v]
      BY <1>3, <2>3 DEF Timer, Quit, w
    <3>2. /\ v \in Waiting /\ v.until = w.until /\ v.end = w.end /\ v.kind = w.kind
          /\ v.poll = w.poll /\ v.reached = w.reached /\ v.timer = clock + PortTime
          /\ v.open = FALSE /\ v.quit = TRUE
      BY <1>1 DEF Waiting
    <3> HIDE DEF v
    <3>3. w.end <= clock
      BY <1>1, <1>2, <2>1, <2>3 DEF Honest
    <3>4. Honest(v, clock)
      BY <1>1, <1>2, <3>2, <3>3, Times DEF Honest
    <3>5. QED
      BY <2>1, <3>1, <3>2, <3>4, OneChanged DEF w
  <2>4. CASE w.kind # "CheckPort"
    <3> DEFINE v == [w EXCEPT !.timer = Never, !.quit = TRUE]
    <3>1. waits' = [waits EXCEPT ![i] = v]
      BY <1>3, <2>4 DEF Timer, Quit, w
    <3>2. /\ v \in Waiting /\ v.until = w.until /\ v.end = w.end /\ v.kind = w.kind
          /\ v.poll = w.poll /\ v.reached = w.reached
          /\ v.open = w.open /\ v.quit = TRUE
      BY <1>1 DEF Waiting
    <3> HIDE DEF v
    <3>3. Honest(v, clock)
      BY <1>1, <1>2, <2>2, <2>4, <3>2 DEF Honest
    <3>4. QED
      BY <2>1, <3>1, <3>2, <3>3, OneChanged DEF w
  <2>5. QED
    BY <2>3, <2>4
<1>4. ASSUME Poll(i) PROVE WaitsIInv' /\ Len(waits') = Len(waits)
  <2>1. w.poll <= clock /\ UNCHANGED <<clock, cancelled, cancelEnabled, told>>
    BY <1>4 DEF Poll, cancel, w
  <2>2. w.kind = "WaitFor"
    BY <1>1, <1>2, <2>1, Times DEF Honest
  <2>3. CASE cancelled
    <3> DEFINE v == [w EXCEPT !.poll = clock + 1, !.reached = TRUE, !.quit = TRUE]
    <3>1. waits' = [waits EXCEPT ![i] = v]
      BY <1>4, <2>3 DEF Poll, Quit, w
    <3>2. /\ v \in Waiting /\ v.until = w.until /\ v.end = w.end /\ v.kind = w.kind
          /\ v.open = w.open /\ v.reached = TRUE /\ v.quit = TRUE
      BY <1>1 DEF Waiting
    <3> HIDE DEF v
    <3>3. Honest(v, clock)
      BY <1>1, <1>2, <2>2, <3>2 DEF Honest
    <3>4. QED
      BY <2>1, <3>1, <3>2, <3>3, OneChanged DEF w
  <2>4. CASE ~cancelled
    <3> DEFINE v == [w EXCEPT !.poll = clock + 1]
    <3>1. waits' = [waits EXCEPT ![i] = v]
      BY <1>4, <2>4 DEF Poll, w
    <3>2. /\ v \in Waiting /\ v.until = w.until /\ v.end = w.end /\ v.kind = w.kind
          /\ v.open = w.open /\ v.reached = w.reached /\ v.quit = w.quit
          /\ v.timer = w.timer
      BY <1>1 DEF Waiting
    <3> HIDE DEF v
    <3>3. Honest(v, clock)
      BY <1>1, <1>2, <2>2, <3>2 DEF Honest
    <3>4. QED
      BY <2>1, <3>1, <3>2, <3>3, OneChanged DEF w
  <2>5. QED
    BY <2>3, <2>4
<1>5. ASSUME Reach(i) PROVE WaitsIInv' /\ Len(waits') = Len(waits)
  <2> DEFINE v == [w EXCEPT !.reached = TRUE, !.quit = TRUE]
  <2>1. waits' = [waits EXCEPT ![i] = v] /\ UNCHANGED <<clock, cancelled, cancelEnabled, told>>
    BY <1>5 DEF Reach, Quit, cancel, w
  <2>2. /\ v \in Waiting /\ v.until = w.until /\ v.end = w.end /\ v.kind = w.kind
        /\ v.open = w.open /\ v.reached = TRUE /\ v.quit = TRUE /\ v.poll = w.poll
        /\ v.timer = w.timer
    BY <1>1 DEF Waiting
  <2> HIDE DEF v
  <2>3. Honest(v, clock)
    BY <1>1, <1>2, <2>2 DEF Honest
  <2>4. QED
    BY <2>1, <2>2, <2>3, OneChanged DEF w
<1>6. QED
  BY <1>3, <1>4, <1>5

\* No step but a return takes a wait away, and every step keeps the invariant.
LEMMA StepKeeps ==
    ASSUME WaitsIInv, WaitsNext
    PROVE  WaitsIInv' /\ (ReturnWait \/ Len(waits') >= Len(waits))
<1>0. /\ clock \in Nat /\ clock <= MaxClock /\ clock \in Clock /\ Never \in Clock
      /\ Len(waits) \in Nat /\ PortTime > 0
  BY Times, PortTimeAssumption DEF WaitsIInv, WaitsTypeOK
<1>1. ASSUME NEW kind \in {"Wait", "CheckPort", "WhoAmI"}, NEW end \in Clock, clock <= end,
             BeginWait(kind, end, Never)
      PROVE  WaitsIInv' /\ Len(waits') > Len(waits)
  BY <1>0, <1>1, WaitBeginKeeps
<1>2. CASE Wait
  <2>1. PICK ms \in Delays : clock + ms <= MaxClock /\ BeginWait("Wait", clock + ms, Never)
    BY <1>2 DEF Wait
  <2>2. ms \in Nat /\ clock + ms \in Clock /\ clock <= clock + ms
    BY <1>0, <2>1, DelaysAssumption, Times
  <2>3. WaitsIInv' /\ Len(waits') > Len(waits)
    BY <1>1, <2>1, <2>2
  <2>4. QED
    BY <1>0, <2>3 DEF WaitsIInv, WaitsTypeOK
<1>3. CASE WaitFor
  <2>1. PICK ms \in Delays : clock + ms <= MaxClock /\ BeginWait("WaitFor", clock + ms, clock + 1)
    BY <1>3 DEF WaitFor
  <2>2. /\ ms \in Nat /\ clock + ms \in Clock /\ clock <= clock + ms
        /\ clock + 1 \in Clock
    BY <1>0, <2>1, DelaysAssumption, Times
  <2>3. WaitsIInv' /\ Len(waits') > Len(waits)
    BY <2>1, <2>2, WaitBeginKeeps
  <2>4. QED
    BY <1>0, <2>3 DEF WaitsIInv, WaitsTypeOK
<1>4. CASE CheckPort
  <2>1. clock + PortTime \in Clock /\ clock <= clock + PortTime
    BY <1>0, <1>4, Times DEF CheckPort
  <2>2. WaitsIInv' /\ Len(waits') > Len(waits)
    BY <1>1, <1>4, <2>1 DEF CheckPort
  <2>3. QED
    BY <1>0, <2>2 DEF WaitsIInv, WaitsTypeOK
<1>5. CASE WhoAmI
  <2>1. clock <= Never
    BY <1>0, Times
  <2>2. WaitsIInv' /\ Len(waits') > Len(waits)
    BY <1>0, <1>1, <1>5, <2>1 DEF WhoAmI
  <2>3. QED
    BY <1>0, <2>2 DEF WaitsIInv, WaitsTypeOK
<1>6. CASE WaitForNothing \/ Cancel \/ ClearCancel \/ \E e \in BOOLEAN : SetCancel(e)
  <2>1. UNCHANGED <<clock, waits>> /\ cancelled' \in BOOLEAN /\ cancelEnabled' \in BOOLEAN
        /\ told' \in BOOLEAN
    BY <1>6 DEF WaitForNothing, Cancel, ClearCancel, SetCancel, cancel, WaitsIInv, WaitsTypeOK
  <2>2. QED
    BY <1>0, <2>1 DEF WaitsIInv, WaitsTypeOK, Nested
<1>7. CASE \E i \in DOMAIN waits : Timer(i) \/ Poll(i) \/ Reach(i)
  BY <1>0, <1>7, EventKeeps
<1>8. CASE Ping \/ Tick
  BY <1>0, <1>8, PingKeeps, TickKeeps
<1>9. CASE ReturnWait
  BY <1>9, ReturnKeeps
<1>10. QED
  BY <1>2, <1>3, <1>4, <1>5, <1>6, <1>7, <1>8, <1>9 DEF WaitsNext

\* The invariant of the waits holds throughout.
THEOREM WaitsInvariance == WaitsSpec => []WaitsIInv
<1>1. WaitsIInv /\ UNCHANGED waitsVars => WaitsIInv'
  BY DEF waitsVars, WaitsIInv, WaitsTypeOK, Nested
<1>2. WaitsIInv /\ [WaitsNext]_waitsVars => WaitsIInv'
  BY <1>1, StepKeeps
<1>3. QED
  BY <1>2, WaitsInitially, PTL DEF WaitsSpec

\* The clock, the waits and the flags have their types in every state.
THEOREM WaitsTypeCorrect == WaitsSpec => []WaitsTypeOK
<1>1. WaitsIInv => WaitsTypeOK
  BY DEF WaitsIInv
<1>2. QED
  BY <1>1, WaitsInvariance, PTL

\* Every call that waits keeps its time, as WaitsKeepTime says: it returns in
\* time, and before it only for what it waits for, however deep the waits are.
THEOREM TimeIsKept == WaitsSpec => WaitsKeepTime
<1> DEFINE Keeps ==
        Len(waits') < Len(waits) =>
            LET w == Last(waits)
            IN  /\ clock <= w.until
                /\ clock < w.end => w.reached
                /\ clock < w.end /\ w.kind = "CheckPort" => told'
                /\ w.kind = "CheckPort" /\ told' => w.reached
<1>1. ASSUME WaitsIInv, WaitsNext, Len(waits') < Len(waits) PROVE Keeps
  <2>1. Len(waits) \in Nat /\ Len(waits') \in Nat
    BY <1>1, StepKeeps DEF WaitsIInv, WaitsTypeOK
  <2>2. ReturnWait
    BY <1>1, <2>1, StepKeeps
  <2>3. waits # <<>> /\ Last(waits).quit /\ told' = Answer(Last(waits))
    BY <2>2 DEF ReturnWait
  <2>4. PICK w \in Waiting : w = Last(waits) /\ Honest(w, clock)
    BY <1>1, <2>1, <2>3 DEF Last, WaitsIInv, WaitsTypeOK
  <2>5. w.kind = "CheckPort" => told' = w.open
    BY <2>3, <2>4 DEF Answer
  <2>6. /\ w.end \in Nat /\ clock \in Nat /\ w.quit = TRUE
        /\ w.open \in BOOLEAN /\ w.reached \in BOOLEAN
    BY <1>1, <2>3, <2>4, Times DEF Waiting, WaitsIInv, WaitsTypeOK
  <2>7. QED
    BY <2>4, <2>5, <2>6 DEF Honest
<1>2. WaitsIInv /\ [WaitsNext]_waitsVars => [Keeps]_waitsVars
  BY <1>1
<1>3. QED
  BY <1>2, WaitsInvariance, PTL DEF WaitsSpec, WaitsKeepTime
=============================================================================
