---------------------------- MODULE MemSettings ----------------------------
(***************************************************************************)
(* MemSettings (src/memsettings.cpp): a map that signals each change.  The *)
(* listeners' slots run one after the other, in the order in which they    *)
(* were connected, before set() returns; a slot may call set() as well.    *)
(* The keys have nothing to do with one another: there is one here.        *)
(***************************************************************************)
EXTENDS Naturals, Sequences, SequencesExt

CONSTANTS
    MemValues,
    Listeners,   \* number of listeners
    MaxSets      \* bound on the calls of set

ASSUME ListenersAssumption == Listeners \in Nat /\ MaxSets \in Nat

VARIABLES
    settingsMap,   \* the value of the key
    emitting,      \* the signals being emitted, the innermost last
    heard,         \* the value each listener was told last
    sets,          \* number of calls
    setters        \* history: listeners that called set() in the slot, since
                   \* the outermost call

memVars == <<settingsMap, emitting, heard, sets, setters>>

Unset == "unset"

MemTypeOK ==
    /\ settingsMap \in MemValues \union {Unset}
    /\ emitting \in Seq([value : MemValues, slot : 0..Listeners])
    /\ heard \in [1..Listeners -> MemValues \union {Unset}]
    /\ sets \in 0..MaxSets
    /\ setters \subseteq 1..Listeners

\* The constructor's own signal reaches nobody.
MemInit ==
    /\ settingsMap = Unset
    /\ emitting = <<>>
    /\ heard = [l \in 1..Listeners |-> Unset]
    /\ sets = 0
    /\ setters = {}

\* Called by the application, or in the slot that runs.
SetValue(v) ==
    /\ sets < MaxSets
    /\ sets' = sets + 1
    /\ settingsMap' = v
    /\ emitting' = Append(emitting, [value |-> v, slot |-> 0])
    /\ \/ /\ emitting = <<>>
          /\ setters' = {}
       \/ /\ emitting # <<>> /\ Last(emitting).slot > 0
          /\ setters' = setters \union {Last(emitting).slot}
    /\ UNCHANGED heard

\* The next listener's slot is called.
Emit ==
    /\ emitting # <<>> /\ Last(emitting).slot < Listeners
    /\ LET top == Last(emitting)
       IN  /\ emitting' = Append(Front(emitting), [top EXCEPT !.slot = @ + 1])
           /\ heard' = [heard EXCEPT ![top.slot + 1] = top.value]
    /\ UNCHANGED <<settingsMap, sets, setters>>

SetReturnsMutant ==  \* stores after the signal
    /\ emitting # <<>> /\ Last(emitting).slot = Listeners
    /\ emitting' = Front(emitting)
    /\ settingsMap' = Last(emitting).value
    /\ UNCHANGED <<heard, sets, setters>>

SetReturns ==
    /\ emitting # <<>> /\ Last(emitting).slot = Listeners
    /\ emitting' = Front(emitting)
    /\ UNCHANGED <<settingsMap, heard, sets, setters>>

MemNext == (\E v \in MemValues : SetValue(v)) \/ Emit \/ SetReturns

MemSpec == MemInit /\ [][MemNext]_memVars

-----------------------------------------------------------------------------
(* When set() has returned to the application, a listener was told last     *)
(* what get() returns, unless a listener connected before it called set()   *)
(* in its slot: then the later value was told first, and it knows an old    *)
(* one.  Whoever calls set() in the last slot connected harms nobody.       *)
ListenersKnow ==
    emitting = <<>> /\ sets > 0 =>
        \A l \in 1..Listeners :
            (\A s \in setters : s >= l) => heard[l] = settingsMap
=============================================================================
