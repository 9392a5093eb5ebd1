-------------------------- MODULE LogRotationProofs --------------------------
(***************************************************************************)
(* Proofs about LogRotation, for every number of archives, every log size  *)
(* and every number of messages and faults.                                *)
(***************************************************************************)
EXTENDS LogRotation, FiniteSetTheorems, TLAPS

\* The index the rotation is about to fill has been emptied, unless it is the
\* top one: the turn before moved its archive up.
RoomInTheMiddle ==
    /\ pc \in {"remove", "rename"} /\ slot < Count => ~Exists(slot)
    /\ pc \in {"zipOpen", "zipAdd", "zipClose"} => ~Exists(0)

\* Between CompressFile and resize(0) archive 0 is a copy of the log.
CopiedBeforeTruncate == pc = "truncate" => arch[0] = live

\* A rotation runs only on a full log.
FullWhileRotating == pc \notin {"idle", "check"} => TooBig

\* A name is found taken only after a failed removal.
TakenAfterFault == pc = "rename" /\ Exists(slot) => ~clean

\* No file holds a message that was never written.
OnDisk ==
    /\ \A m \in live : m <= last
    /\ \A i \in Slots : \A m \in arch[i] : m <= last

IInv ==
    /\ TypeOK
    /\ OnDisk
    /\ NewestGapFree
    /\ SizeBound
    /\ RoomInTheMiddle
    /\ CopiedBeforeTruncate
    /\ FullWhileRotating
    /\ TakenAfterFault

-----------------------------------------------------------------------------

\* A set of message numbers is finite.
LEMMA MessagesFinite ==
    ASSUME NEW S \in SUBSET Messages
    PROVE  IsFiniteSet(S) /\ Cardinality(S) \in Nat
<1>1. IsFiniteSet(Messages)
  BY BoundsAssumption, FS_Interval DEF Messages
<1>2. IsFiniteSet(S)
  BY <1>1, FS_Subset
<1>3. QED
  BY <1>2, FS_CardinalityType

\* The types hold at the start and every step keeps them.
LEMMA TypeInit == Init => TypeOK
  BY CountAssumption, BoundsAssumption DEF Init, TypeOK, Labels

LEMMA FaultTypes ==
    ASSUME TypeOK, Fault \/ NoFault
    PROVE  faults' \in 0 .. MaxFaults /\ clean' \in BOOLEAN
<1>1. faults' \in 0 .. MaxFaults
  BY BoundsAssumption DEF TypeOK, Fault, NoFault
<1>2. clean' \in BOOLEAN
  BY DEF TypeOK, Fault, NoFault
<1>3. QED
  BY <1>1, <1>2

LEMMA TypeStep == TypeOK /\ [Next]_vars => TypeOK'
<1> SUFFICES ASSUME TypeOK, [Next]_vars PROVE TypeOK'
  OBVIOUS
<1> USE FaultTypes, CountAssumption DEF TypeOK, Labels
<1>1. CASE Append
  BY <1>1, BoundsAssumption DEF Append, Messages
<1>2. CASE AppendLost
  BY <1>2 DEF AppendLost
<1>3. CASE CheckSmall
  BY <1>3 DEF CheckSmall
<1>4. CASE CheckBig
  BY <1>4 DEF CheckBig
<1>5. CASE Remove
  BY <1>5 DEF Remove, Slots
<1>6. CASE RemoveFails
  BY <1>6 DEF RemoveFails
<1>7. ASSUME NextTurn PROVE pc' \in Labels /\ slot' \in 1 .. Count
  BY <1>7 DEF NextTurn
<1>8. CASE SkipRename
  BY <1>7, <1>8 DEF SkipRename
<1>9. CASE Rename
  <2>1. slot - 1 \in Slots /\ slot \in Slots
    BY DEF Slots
  <2>2. arch' \in [Slots -> SUBSET Messages]
    BY <1>9, <2>1 DEF Rename
  <2>3. QED
    BY <1>7, <1>9, <2>2 DEF Rename
<1>10. CASE RenameFails
  BY <1>10 DEF RenameFails
<1>11. CASE ZipOpen \/ ZipAdd
  BY <1>11 DEF ZipOpen, ZipAdd, ZipStep
<1>12. CASE ZipClose
  BY <1>12 DEF ZipClose, Slots
<1>13. CASE ZipFails
  BY <1>13 DEF ZipFails
<1>14. CASE Truncate
  BY <1>14 DEF Truncate
<1>15. CASE TruncateFails
  BY <1>15 DEF TruncateFails
<1>16. CASE Crash
  BY <1>16 DEF Crash
<1>17. CASE UNCHANGED vars
  BY <1>17 DEF vars
<1>18. QED
  BY <1>1, <1>2, <1>3, <1>4, <1>5, <1>6, <1>8, <1>9, <1>10, <1>11, <1>12,
     <1>13, <1>14, <1>15, <1>16, <1>17 DEF Next

\* Every variable keeps its type, for every value of the constants.
THEOREM TypeCorrect == Spec => []TypeOK
<1>1. Init => TypeOK
  BY TypeInit
<1>2. TypeOK /\ [Next]_vars => TypeOK'
  BY TypeStep
<1>3. QED
  BY <1>1, <1>2, PTL DEF Spec

-----------------------------------------------------------------------------
\* What each step that touches a file does to the newest k files, and that no
\* gap appears in them.

LEMMA GapFreeAppend == TypeOK /\ NewestGapFree /\ Append => NewestGapFree'
<1> SUFFICES ASSUME TypeOK, NewestGapFree, Append,
                    NEW k \in 0 .. Count + 1,
                    NEW m \in Newest(k)', NEW n \in 1 .. last', m <= n
             PROVE  n \in Newest(k)'
  BY DEF NewestGapFree, GapFree
<1> USE DEF TypeOK, Append, Messages
<1>1. n \in Messages
  BY BoundsAssumption
<1>2. CASE n = last + 1
  BY <1>1, <1>2 DEF Newest
<1>3. CASE n # last + 1
  <2>1. n \in 1 .. last /\ m # last + 1
    BY <1>3 DEF Newest
  <2>2. m \in Newest(k)
    BY <2>1 DEF Newest
  <2>3. n \in Newest(k)
    BY <2>1, <2>2 DEF NewestGapFree, GapFree
  <2>4. QED
    BY <2>3 DEF Newest
<1>4. QED
  BY <1>2, <1>3

\* The newest k files after a step hold what the newest j held before it.
OldPrefix == \A k \in 0 .. Count + 1 :
    Newest(k)' = {} \/ \E j \in 0 .. Count + 1 : Newest(k)' = Newest(j)

\* No gap appears when every prefix of the files is an old one.
LEMMA GapFreeOldPrefix == NewestGapFree /\ OldPrefix /\ last' = last => NewestGapFree'
<1> SUFFICES ASSUME NewestGapFree, OldPrefix, last' = last,
                    NEW k \in 0 .. Count + 1,
                    NEW m \in Newest(k)', NEW n \in 1 .. last, m <= n
             PROVE  n \in Newest(k)'
  BY DEF NewestGapFree, GapFree
<1>1. PICK j \in 0 .. Count + 1 : Newest(k)' = Newest(j)
  BY DEF OldPrefix
<1>2. QED
  BY <1>1 DEF NewestGapFree, GapFree

LEMMA PrefixUnchanged == UNCHANGED <<live, arch>> => OldPrefix
  BY DEF OldPrefix, Newest

LEMMA PrefixRemove == TypeOK /\ RoomInTheMiddle /\ Remove => OldPrefix
<1> SUFFICES ASSUME TypeOK, RoomInTheMiddle, Remove, NEW k \in 0 .. Count + 1
             PROVE  \E j \in 0 .. Count + 1 : Newest(k)' = Newest(j)
  BY DEF OldPrefix
<1> USE CountAssumption DEF TypeOK, Remove, Slots
<1>1. live' = live /\ arch' \in [Slots -> SUBSET Messages]
  BY DEF Slots
<1>2. \A i \in Slots : arch'[i] = IF i = slot THEN {} ELSE arch[i]
  OBVIOUS
<1>3. CASE slot < Count
  <2>1. \A i \in Slots : arch'[i] = arch[i]
    BY <1>2, <1>3 DEF RoomInTheMiddle, Exists
  <2>2. Newest(k)' = Newest(k)
    BY <1>1, <2>1 DEF Newest
  <2>3. QED
    BY <2>2
<1>4. CASE slot = Count /\ k = Count + 1
  <2>1. Newest(k)' = Newest(Count)
    BY <1>1, <1>2, <1>4 DEF Newest
  <2>2. QED
    BY <2>1
<1>5. CASE slot = Count /\ k # Count + 1
  <2>1. Newest(k)' = Newest(k)
    BY <1>1, <1>2, <1>5 DEF Newest
  <2>2. QED
    BY <2>1
<1>6. QED
  BY <1>3, <1>4, <1>5

LEMMA PrefixRename == TypeOK /\ Rename => OldPrefix
<1> SUFFICES ASSUME TypeOK, Rename, NEW k \in 0 .. Count + 1
             PROVE  \E j \in 0 .. Count + 1 : Newest(k)' = Newest(j)
  BY DEF OldPrefix
<1> USE CountAssumption DEF TypeOK, Rename, Slots
<1>1. live' = live /\ slot \in Slots /\ slot - 1 \in Slots
  OBVIOUS
<1>2. \A i \in Slots : arch'[i] = IF i = slot THEN arch[slot - 1]
                                  ELSE IF i = slot - 1 THEN {} ELSE arch[i]
  BY <1>1
<1>3. CASE k = slot
  <2>1. Newest(k)' = Newest(slot - 1)
    BY <1>1, <1>2, <1>3 DEF Newest
  <2>2. QED
    BY <2>1
<1>4. CASE k # slot
  <2>1. Newest(k)' = Newest(k)
    BY <1>1, <1>2, <1>4 DEF Newest, Exists
  <2>2. QED
    BY <2>1
<1>5. QED
  BY <1>3, <1>4

LEMMA PrefixZipClose == TypeOK /\ RoomInTheMiddle /\ ZipClose => OldPrefix
<1> SUFFICES ASSUME TypeOK, RoomInTheMiddle, ZipClose, NEW k \in 0 .. Count + 1
             PROVE  Newest(k)' = Newest(k)
  BY DEF OldPrefix
<1>1. live' = live /\ arch[0] = {}
  BY DEF ZipClose, RoomInTheMiddle, Exists
<1>2. \A i \in Slots : arch'[i] = IF i = 0 THEN live ELSE arch[i]
  BY DEF TypeOK, ZipClose
<1>3. QED
  BY <1>1, <1>2 DEF Newest

LEMMA PrefixTruncate == CopiedBeforeTruncate /\ Truncate => OldPrefix
<1> SUFFICES ASSUME CopiedBeforeTruncate, Truncate, NEW k \in 0 .. Count + 1
             PROVE  Newest(k)' = {} \/ Newest(k)' = Newest(k)
  BY DEF OldPrefix
<1>1. live' = {} /\ arch' = arch /\ arch[0] = live
  BY DEF Truncate, CopiedBeforeTruncate
<1>2. CASE k = 0
  BY <1>1, <1>2, CountAssumption DEF Newest, Slots
<1>3. CASE k # 0
  <2>1. 0 \in Slots /\ 0 < k
    BY <1>3, CountAssumption DEF Slots
  <2>2. QED
    BY <1>1, <2>1 DEF Newest
<1>4. QED
  BY <1>2, <1>3
-----------------------------------------------------------------------------
\* The inductive invariant.

LEMMA InvInit == Init => IInv
<1> SUFFICES ASSUME Init PROVE IInv
  OBVIOUS
<1>1. TypeOK
  BY TypeInit
<1>2. \A k \in 0 .. Count + 1 : Newest(k) = {}
  BY DEF Init, Newest
<1>3. NewestGapFree
  BY <1>2 DEF NewestGapFree, GapFree
<1>4. SizeBound
  BY FS_EmptySet, MaxSizeAssumption DEF Init, SizeBound
<1>5. QED
  BY <1>1, <1>3, <1>4 DEF Init, IInv, OnDisk, RoomInTheMiddle, CopiedBeforeTruncate,
     FullWhileRotating, TakenAfterFault

LEMMA GapFreeStep == IInv /\ [Next]_vars => NewestGapFree'
<1> SUFFICES ASSUME IInv, [Next]_vars PROVE NewestGapFree'
  OBVIOUS
<1> USE DEF IInv
<1>1. CASE Append
  BY <1>1, GapFreeAppend
<1>2. CASE Remove
  BY <1>2, PrefixRemove, GapFreeOldPrefix DEF Remove
<1>3. CASE Rename
  BY <1>3, PrefixRename, GapFreeOldPrefix DEF Rename
<1>4. CASE ZipClose
  BY <1>4, PrefixZipClose, GapFreeOldPrefix DEF ZipClose
<1>5. CASE Truncate
  BY <1>5, PrefixTruncate, GapFreeOldPrefix DEF Truncate
<1>6. CASE UNCHANGED <<live, arch, last>>
  BY <1>6, PrefixUnchanged, GapFreeOldPrefix
<1>7. QED
  BY <1>1, <1>2, <1>3, <1>4, <1>5, <1>6
  DEF Next, vars, AppendLost, CheckSmall, CheckBig, RemoveFails, SkipRename,
      RenameFails, ZipOpen, ZipAdd, ZipStep, ZipFails, TruncateFails, Crash

LEMMA SizeStep == IInv /\ [Next]_vars => SizeBound'
<1> SUFFICES ASSUME IInv, [Next]_vars, pc' = "idle", clean'
             PROVE  Cardinality(live') < MaxSize
  BY DEF SizeBound
<1> USE DEF IInv
<1>1. CASE CheckSmall
  <2>1. Cardinality(live) \in Nat
    BY MessagesFinite DEF TypeOK
  <2>2. QED
    BY <1>1, <2>1, MaxSizeAssumption DEF CheckSmall, TooBig
<1>2. CASE Truncate
  BY <1>2, FS_EmptySet, MaxSizeAssumption DEF Truncate
<1>3. CASE RenameFails
  BY <1>3 DEF RenameFails, TakenAfterFault, Fault, NoFault
<1>4. CASE UNCHANGED vars
  BY <1>4 DEF vars, SizeBound
<1>5. CASE Append \/ AppendLost \/ CheckBig \/ Remove \/ RemoveFails
           \/ ZipOpen \/ ZipAdd \/ ZipClose
  BY <1>5 DEF Append, AppendLost, CheckBig, Remove, RemoveFails, ZipOpen, ZipAdd,
     ZipStep, ZipClose
<1>6. CASE SkipRename \/ Rename
  BY <1>6 DEF SkipRename, Rename, NextTurn
<1>7. CASE ZipFails \/ TruncateFails \/ Crash
  BY <1>7 DEF ZipFails, TruncateFails, Crash, Fault
<1>8. QED
  BY <1>1, <1>2, <1>3, <1>4, <1>5, <1>6, <1>7 DEF Next

\* The four facts about where a rotation stands.
LEMMA RotationStep ==
    IInv /\ [Next]_vars
        => RoomInTheMiddle' /\ CopiedBeforeTruncate' /\ FullWhileRotating'
             /\ TakenAfterFault'
<1> SUFFICES ASSUME IInv, [Next]_vars
             PROVE  RoomInTheMiddle' /\ CopiedBeforeTruncate'
                      /\ FullWhileRotating' /\ TakenAfterFault'
  OBVIOUS
<1> USE DEF IInv, RoomInTheMiddle, CopiedBeforeTruncate, FullWhileRotating,
            TakenAfterFault, Exists, TooBig, NoFault
<1>1. CASE Append \/ AppendLost
  BY <1>1 DEF Append, AppendLost
<1>2. CASE CheckSmall
  BY <1>2 DEF CheckSmall
<1>3. CASE CheckBig
  BY <1>3, CountAssumption DEF CheckBig
<1>4. CASE Remove
  <2>1. slot \in Slots
    BY DEF TypeOK, Slots
  <2>2. arch'[slot] = {}
    BY <1>4, <2>1 DEF Remove, TypeOK
  <2>3. QED
    BY <1>4, <2>2 DEF Remove
<1>5. CASE RemoveFails
  BY <1>5 DEF RemoveFails, Fault
<1>6. ASSUME NextTurn, arch'[slot - 1] = {}, UNCHANGED live, pc = "rename"
      PROVE  RoomInTheMiddle' /\ CopiedBeforeTruncate'
                /\ FullWhileRotating' /\ TakenAfterFault'
  <2>1. CASE slot = 1
    BY <1>6, <2>1 DEF NextTurn
  <2>2. CASE slot # 1
    BY <1>6, <2>2 DEF NextTurn
  <2>3. QED
    BY <2>1, <2>2
<1>7. CASE SkipRename
  BY <1>6, <1>7 DEF SkipRename
<1>8. CASE Rename
  <2>1. slot \in Slots /\ slot - 1 \in Slots /\ slot - 1 # slot
    BY CountAssumption DEF TypeOK, Slots
  <2>2. arch'[slot - 1] = {}
    BY <1>8, <2>1 DEF Rename, TypeOK
  <2>3. QED
    BY <1>6, <1>8, <2>2 DEF Rename
<1>9. CASE ZipOpen \/ ZipAdd
  BY <1>9 DEF ZipOpen, ZipAdd, ZipStep
<1>10. CASE ZipClose
  <2>1. arch'[0] = live
    BY <1>10, CountAssumption DEF ZipClose, TypeOK, Slots
  <2>2. QED
    BY <1>10, <2>1 DEF ZipClose
<1>11. CASE RenameFails \/ ZipFails \/ Truncate \/ TruncateFails \/ Crash
  BY <1>11 DEF RenameFails, ZipFails, Truncate, TruncateFails, Crash
<1>12. CASE UNCHANGED vars
  BY <1>12 DEF vars
<1>13. QED
  BY <1>1, <1>2, <1>3, <1>4, <1>5, <1>7, <1>8, <1>9, <1>10, <1>11, <1>12 DEF Next

LEMMA OnDiskStep == TypeOK /\ OnDisk /\ [Next]_vars => OnDisk'
<1> SUFFICES ASSUME TypeOK, OnDisk, [Next]_vars PROVE OnDisk'
  OBVIOUS
<1> USE DEF OnDisk
<1>1. CASE Append
  <2>1. last' \in Nat /\ last \in Nat /\ last < last'
    BY <1>1, BoundsAssumption DEF Append, TypeOK
  <2>2. \A m \in Messages : m <= last => m <= last'
    BY <2>1 DEF Messages
  <2>3. QED
    BY <1>1, <2>1, <2>2 DEF Append, TypeOK
<1>2. CASE UNCHANGED <<live, arch, last>>
  BY <1>2
<1>3. ASSUME last' = last, UNCHANGED live,
             \A i \in Slots : \/ arch'[i] = {} \/ arch'[i] = live
                             \/ \E j \in Slots : arch'[i] = arch[j]
      PROVE  OnDisk'
  BY <1>3
<1>4. CASE Remove
  BY <1>3, <1>4 DEF Remove, TypeOK
<1>5. CASE Rename
  <2>1. slot \in Slots /\ slot - 1 \in Slots
    BY CountAssumption DEF TypeOK, Slots
  <2>2. QED
    BY <1>3, <1>5, <2>1 DEF Rename, TypeOK
<1>6. CASE ZipClose
  BY <1>3, <1>6 DEF ZipClose, TypeOK
<1>7. CASE Truncate
  BY <1>7 DEF Truncate
<1>8. QED
  BY <1>1, <1>2, <1>4, <1>5, <1>6, <1>7
  DEF Next, vars, AppendLost, CheckSmall, CheckBig, RemoveFails, SkipRename,
      RenameFails, ZipOpen, ZipAdd, ZipStep, ZipFails, TruncateFails, Crash

LEMMA InvStep == IInv /\ [Next]_vars => IInv'
<1>1. IInv /\ [Next]_vars => TypeOK'
  BY TypeStep DEF IInv
<1>2. QED
  BY <1>1, OnDiskStep, GapFreeStep, SizeStep, RotationStep DEF IInv

\* The inductive invariant holds in every state.
THEOREM Invariance == Spec => []IInv
  BY InvInit, InvStep, PTL DEF Spec

\* Read in the order of their numbers, the log and any number of its archives
\* hold every message from their oldest one on, whatever operation failed and
\* wherever the process was killed.
THEOREM HistoryGapFree == Spec => []NewestGapFree
<1>1. IInv => NewestGapFree
  BY DEF IInv
<1>2. QED
  BY <1>1, Invariance, PTL

\* A log that nothing went wrong with is below the limit between two calls.
THEOREM SizeBounded == Spec => []SizeBound
<1>1. IInv => SizeBound
  BY DEF IInv
<1>2. QED
  BY <1>1, Invariance, PTL
-----------------------------------------------------------------------------
\* LogRotation implements RollingLog.

LEMMA RollingAppend == TypeOK /\ Append => Rolling!Append
<1> SUFFICES ASSUME TypeOK, Append PROVE Rolling!Append
  OBVIOUS
<1>1. last + 1 \in Messages /\ last' = last + 1
  BY BoundsAssumption DEF TypeOK, Append, Messages
<1>2. live' = live \cup {last + 1} /\ arch' = arch
  BY DEF Append
<1>3. Readable' = Readable \cup {last + 1}
  BY <1>1, <1>2 DEF Readable, Newest
<1>4. QED
  BY <1>1, <1>3 DEF Rolling!Append

\* What a removal takes away is older than all that stays, and a full log stays.
LEMMA RollingRemove == IInv /\ Remove => Rolling!Evict
<1> SUFFICES ASSUME IInv, Remove PROVE Rolling!Evict
  OBVIOUS
<1> USE DEF IInv
<1>1. /\ live' = live /\ last' = last /\ slot \in Slots /\ Count \in Nat
      /\ arch' \in [Slots -> SUBSET Messages]
      /\ \A i \in Slots : arch'[i] = IF i = slot THEN {} ELSE arch[i]
  BY CountAssumption DEF TypeOK, Remove, Slots
<1>2. Readable' \subseteq Readable
  BY <1>1 DEF Readable, Newest
<1>3. ASSUME NEW m \in Readable \ Readable', NEW n \in Readable'
      PROVE  m < n
  <2>1. m \in arch[slot] /\ m \in Messages /\ slot = Count
    BY <1>1, <1>3 DEF Readable, Newest, RoomInTheMiddle, Remove, Exists, TypeOK
  <2>2. m \notin Newest(Count)
    BY <1>1, <1>3, <2>1 DEF Readable, Newest, Slots
  <2>3. n \in Newest(Count)
    BY <1>1, <1>3, <2>1 DEF Readable, Newest, Slots
  <2>4. m \in 1 .. last /\ n \in Nat
    BY <1>3, <2>1 DEF Readable, Newest, OnDisk, Messages
  <2>5. ~(n <= m)
    BY <2>2, <2>3, <2>4, CountAssumption DEF NewestGapFree, GapFree
  <2>6. QED
    BY <2>4, <2>5
<1>4. Cardinality(Readable') >= MaxSize
  <2>1. live \subseteq Readable' /\ Readable' \subseteq Messages
    BY <1>1 DEF TypeOK, Readable, Newest
  <2>2. /\ IsFiniteSet(Readable') /\ Cardinality(Readable') \in Nat
        /\ Cardinality(live) \in Nat
    BY <2>1, MessagesFinite DEF TypeOK
  <2>3. Cardinality(live) <= Cardinality(Readable')
    BY <2>1, <2>2, FS_Subset
  <2>4. Cardinality(live) >= MaxSize
    BY DEF Remove, FullWhileRotating, TooBig
  <2>5. QED
    BY <2>2, <2>3, <2>4, MaxSizeAssumption
<1>5. QED
  BY <1>1, <1>2, <1>3, <1>4 DEF Rolling!Evict, FullLog

LEMMA RollingRename == TypeOK /\ Rename => Readable' = Readable
<1> SUFFICES ASSUME TypeOK, Rename PROVE Readable' = Readable
  OBVIOUS
<1>1. live' = live /\ slot \in Slots /\ slot - 1 \in Slots /\ slot \in Nat
        /\ arch[slot] = {}
  BY CountAssumption DEF TypeOK, Rename, Slots, Exists
<1>2. \A i \in Slots : arch'[i] = IF i = slot THEN arch[slot - 1]
                                  ELSE IF i = slot - 1 THEN {} ELSE arch[i]
  BY <1>1, CountAssumption DEF TypeOK, Rename, Slots
<1>3. QED
  BY <1>1, <1>2, CountAssumption DEF Readable, Newest, Slots

LEMMA RollingZip == IInv /\ (ZipClose \/ Truncate) => Readable' = Readable
<1> SUFFICES ASSUME IInv, ZipClose \/ Truncate PROVE Readable' = Readable
  OBVIOUS
<1> USE DEF IInv
<1>1. 0 \in Slots /\ 0 < Count + 1
  BY CountAssumption DEF Slots
<1>2. CASE ZipClose
  <2>1. live' = live /\ arch[0] = {}
    BY <1>2 DEF ZipClose, RoomInTheMiddle, Exists
  <2>2. \A i \in Slots : arch'[i] = IF i = 0 THEN live ELSE arch[i]
    BY <1>2 DEF TypeOK, ZipClose
  <2>3. QED
    BY <2>1, <2>2 DEF Readable, Newest
<1>3. CASE Truncate
  <2>1. live' = {} /\ arch' = arch /\ arch[0] = live
    BY <1>3 DEF Truncate, CopiedBeforeTruncate
  <2>2. QED
    BY <1>1, <2>1 DEF Readable, Newest
<1>4. QED
  BY <1>2, <1>3

LEMMA RollingStep == IInv /\ [Next]_vars => [Rolling!Next]_(Rolling!vars)
<1> SUFFICES ASSUME IInv, [Next]_vars PROVE [Rolling!Next]_(Rolling!vars)
  OBVIOUS
<1> USE DEF IInv, Rolling!Next, Rolling!vars
<1>1. CASE Append
  BY <1>1, RollingAppend
<1>2. CASE Remove
  BY <1>2, RollingRemove
<1>3. CASE Rename
  BY <1>3, RollingRename DEF Rename
<1>4. CASE ZipClose \/ Truncate
  BY <1>4, RollingZip DEF ZipClose, Truncate
<1>5. CASE UNCHANGED <<live, arch, last>>
  BY <1>5 DEF Readable, Newest
<1>6. QED
  BY <1>1, <1>2, <1>3, <1>4, <1>5
  DEF Next, vars, AppendLost, CheckSmall, CheckBig, RemoveFails, SkipRename,
      RenameFails, ZipOpen, ZipAdd, ZipStep, ZipFails, TruncateFails, Crash

\* The files together are a rolling log: messages are only ever added at the
\* new end and given up at the old end, and a full log of the newest stays.
THEOREM ImplementsRollingLog == Spec => RollingSpec
<1>1. Init => Rolling!Init
  BY DEF Init, Rolling!Init, Readable, Newest
<1>2. QED
  BY <1>1, RollingStep, Invariance, PTL DEF Spec, RollingSpec, Rolling!Spec

-----------------------------------------------------------------------------
\* No message is in two files.

ArchivesApart == \A i, j \in Slots : i # j => arch[i] \cap arch[j] = {}

\* Between CompressFile and resize(0) the log is in archive 0 too.
LogApart == \A i \in Slots : i > 0 \/ pc # "truncate" => live \cap arch[i] = {}

Apart == faults = 0 => ArchivesApart /\ LogApart

LEMMA ApartStep == IInv /\ Apart /\ [Next]_vars => Apart'
<1> SUFFICES ASSUME IInv, Apart, [Next]_vars, faults' = 0
             PROVE  ArchivesApart' /\ LogApart'
  BY DEF Apart
<1> USE DEF IInv, TypeOK
<1>1. CASE UNCHANGED vars
  BY <1>1 DEF vars, Apart, ArchivesApart, LogApart
<1>2. CASE Fault
  BY <1>2 DEF Fault
<1>3. CASE NoFault \/ Truncate
  <2>1. ArchivesApart /\ LogApart
    BY <1>3 DEF NoFault, Truncate, Apart
  <2>2. CASE Append
    <3>1. /\ arch' = arch /\ live' = live \cup {last + 1} /\ pc = "idle"
          /\ \A i \in Slots : last + 1 \notin arch[i]
      BY <2>2 DEF Append, OnDisk, Messages
    <3>2. QED
      BY <2>1, <3>1 DEF ArchivesApart, LogApart
  <2>3. CASE Remove
    <3>1. \A i \in Slots : arch'[i] = IF i = slot THEN {} ELSE arch[i]
      BY <2>3 DEF Remove
    <3>2. live' = live /\ pc = "remove"
      BY <2>3 DEF Remove
    <3>3. QED
      BY <2>1, <3>1, <3>2 DEF ArchivesApart, LogApart
  <2>4. CASE Rename
    <3>1. slot \in Slots /\ slot - 1 \in Slots /\ slot # slot - 1
      BY CountAssumption DEF Slots
    <3>2. \A i \in Slots : arch'[i] = IF i = slot THEN arch[slot - 1]
                                      ELSE IF i = slot - 1 THEN {} ELSE arch[i]
      BY <2>4, <3>1 DEF Rename
    <3>3. live' = live /\ pc = "rename"
      BY <2>4 DEF Rename
    <3>4. ArchivesApart'
      BY <2>1, <3>1, <3>2 DEF ArchivesApart
    <3>5. LogApart'
      BY <2>1, <3>1, <3>2, <3>3 DEF LogApart
    <3>6. QED
      BY <3>4, <3>5
  <2>5. CASE ZipClose
    <3>1. \A i \in Slots : arch'[i] = IF i = 0 THEN live ELSE arch[i]
      BY <2>5 DEF ZipClose
    <3>2. live' = live /\ pc = "zipClose" /\ pc' = "truncate"
      BY <2>5 DEF ZipClose
    <3>3. \A i \in Slots : live \cap arch[i] = {}
      BY <2>1, <3>2 DEF LogApart
    <3>4. ArchivesApart'
      BY <2>1, <3>1, <3>3 DEF ArchivesApart
    <3>5. \A i \in Slots : i > 0 => i # 0
      BY DEF Slots
    <3>6. LogApart'
      BY <3>1, <3>2, <3>3, <3>5 DEF LogApart
    <3>7. QED
      BY <3>4, <3>6
  <2>6. CASE Truncate
    BY <2>1, <2>6 DEF Truncate, ArchivesApart, LogApart
  <2>7. CASE CheckSmall \/ CheckBig \/ SkipRename \/ RenameFails \/ ZipOpen \/ ZipAdd
    <3>1. UNCHANGED <<live, arch>> /\ pc # "truncate"
      BY <2>7 DEF CheckSmall, CheckBig, SkipRename, RenameFails, ZipOpen, ZipAdd, ZipStep
    <3>2. QED
      BY <2>1, <3>1 DEF ArchivesApart, LogApart
  <2>8. QED
    BY <1>2, <2>2, <2>3, <2>4, <2>5, <2>6, <2>7, <1>1
    DEF Next, AppendLost, RemoveFails, ZipFails, TruncateFails, Crash
<1>4. QED
  BY <1>1, <1>2, <1>3
  DEF Next, Append, AppendLost, CheckSmall, CheckBig, Remove, RemoveFails, SkipRename,
      Rename, RenameFails, ZipOpen, ZipAdd, ZipStep, ZipClose, ZipFails, TruncateFails, Crash

\* While nothing has failed, no message is in two files between two calls,
\* however long the program runs and however many archives it keeps.
THEOREM InOneFile == Spec => []NoDuplicates
<1>1. Init => Apart
  BY DEF Init, Apart, ArchivesApart, LogApart
<1>2. Apart => NoDuplicates
  BY DEF Apart, ArchivesApart, LogApart, NoDuplicates
<1>3. QED
  BY <1>1, <1>2, ApartStep, Invariance, PTL DEF Spec

-----------------------------------------------------------------------------
\* No index is wasted.

\* The index a rotation is about to fill.
Hole(j) ==
    \/ pc \in {"remove", "rename"} /\ j = slot
    \/ pc \in {"zipOpen", "zipAdd", "zipClose"} /\ j = 0

\* Below an archive every index is taken, but for the one about to be filled.
Packed == \A i, j \in Slots : Exists(i) /\ j < i => Exists(j) \/ Hole(j)

PackedUnlessFault == faults = 0 => clean /\ Packed

LEMMA PackedStep == IInv /\ PackedUnlessFault /\ [Next]_vars => PackedUnlessFault'
<1> SUFFICES ASSUME IInv, PackedUnlessFault, [Next]_vars, faults' = 0
             PROVE  clean' /\ Packed'
  BY DEF PackedUnlessFault
<1> USE DEF IInv, TypeOK
<1>1. CASE UNCHANGED vars
  BY <1>1 DEF vars, PackedUnlessFault, Packed, Hole, Exists
<1>2. CASE Fault
  BY <1>2 DEF Fault
<1>3. CASE NoFault \/ Truncate
  <2>1. Packed /\ clean /\ clean'
    BY <1>3 DEF NoFault, Truncate, PackedUnlessFault
  <2>2. CASE Append \/ CheckSmall \/ ZipOpen \/ ZipAdd \/ Truncate
    BY <2>1, <2>2 DEF Append, CheckSmall, ZipOpen, ZipAdd, ZipStep, Truncate, Packed, Hole, Exists
  <2>3. CASE CheckBig
    <3>1. arch' = arch /\ pc = "check"
      BY <2>3 DEF CheckBig
    <3>2. QED
      BY <2>1, <3>1 DEF Packed, Hole, Exists
  <2>4. CASE Remove
    <3>1. /\ pc = "remove" /\ pc' = "rename" /\ slot' = slot
          /\ \A i \in Slots : arch'[i] = IF i = slot THEN {} ELSE arch[i]
      BY <2>4 DEF Remove
    <3>2. QED
      BY <2>1, <3>1 DEF Packed, Hole, Exists
  <2>5. ASSUME NextTurn, pc = "rename"
        PROVE  \A j \in Slots : Hole(j)' <=> j = slot - 1
    BY <2>5, CountAssumption DEF NextTurn, Hole, Slots
  <2>6. slot \in Slots /\ slot - 1 \in Slots /\ slot - 1 < slot /\ \A j \in Slots : j \in Nat
    BY CountAssumption DEF Slots
  <2>7. CASE SkipRename
    <3>1. pc = "rename" /\ ~Exists(slot - 1) /\ NextTurn /\ arch' = arch
      BY <2>7 DEF SkipRename
    <3>2. SUFFICES ASSUME NEW i \in Slots, NEW j \in Slots, Exists(i), j < i, j # slot - 1
                   PROVE  Exists(j)
      BY <2>1, <2>5, <3>1 DEF Packed, Exists
    <3>3. CASE j = slot
      <4>1. ~Hole(slot - 1) /\ slot - 1 < i
        BY <2>6, <3>1, <3>2, <3>3 DEF Hole
      <4>2. QED
        BY <2>1, <2>6, <3>1, <3>2, <4>1 DEF Packed
    <3>4. CASE j # slot
      BY <2>1, <3>1, <3>2, <3>4 DEF Packed, Hole
    <3>5. QED
      BY <3>3, <3>4
  <2>8. CASE Rename
    <3>1. pc = "rename" /\ Exists(slot - 1) /\ NextTurn
      BY <2>8 DEF Rename
    <3>2. \A i \in Slots : arch'[i] = IF i = slot THEN arch[slot - 1]
                                      ELSE IF i = slot - 1 THEN {} ELSE arch[i]
      BY <2>6, <2>8 DEF Rename
    <3>3. \A j \in Slots : Hole(j) <=> j = slot
      BY <3>1 DEF Hole
    <3>4. SUFFICES ASSUME NEW i \in Slots, NEW j \in Slots, arch'[i] # {}, j < i, j # slot - 1
                   PROVE  arch'[j] # {}
      BY <2>1, <2>5, <3>1 DEF Packed, Exists
    <3>5. CASE j = slot
      BY <3>1, <3>2, <3>5 DEF Exists
    <3>6. CASE j # slot /\ i = slot
      <4>1. j < slot - 1
        BY <2>6, <3>4, <3>6
      <4>2. Exists(j)
        BY <2>1, <2>6, <3>1, <3>3, <3>6, <4>1 DEF Packed
      <4>3. QED
        BY <3>2, <3>4, <3>6, <4>2 DEF Exists
    <3>7. CASE j # slot /\ i # slot
      <4>1. Exists(i)
        BY <3>2, <3>4, <3>7 DEF Exists
      <4>2. Exists(j)
        BY <2>1, <3>3, <3>4, <3>7, <4>1 DEF Packed
      <4>3. QED
        BY <3>2, <3>4, <3>7, <4>2 DEF Exists
    <3>8. QED
      BY <3>5, <3>6, <3>7
  <2>9. CASE RenameFails
    <3>1. pc = "rename" /\ (Fault \/ Exists(slot))
      BY <2>9 DEF RenameFails
    <3>2. QED
      BY <1>2, <2>1, <3>1 DEF TakenAfterFault
  <2>10. CASE ZipClose
    <3>1. /\ pc = "zipClose" /\ pc' = "truncate"
          /\ \A i \in Slots : arch'[i] = IF i = 0 THEN live ELSE arch[i]
      BY <2>10 DEF ZipClose
    <3>2. live # {}
      <4>1. Cardinality(live) >= MaxSize
        BY <3>1 DEF FullWhileRotating, TooBig
      <4>2. QED
        BY <4>1, FS_EmptySet, MaxSizeAssumption
    <3>3. \A j \in Slots : Hole(j) <=> j = 0
      BY <3>1 DEF Hole
    <3>4. \A i \in Slots : 0 <= i
      BY DEF Slots
    <3>5. SUFFICES ASSUME NEW i \in Slots, NEW j \in Slots, arch'[i] # {}, j < i
                   PROVE  arch'[j] # {}
      BY <2>1 DEF Packed, Exists
    <3>6. CASE j = 0
      BY <3>1, <3>2, <3>6
    <3>7. CASE j # 0
      <4>1. i # 0
        BY <2>6, <3>4, <3>5
      <4>2. Exists(i)
        BY <3>1, <3>5, <4>1 DEF Exists
      <4>3. QED
        BY <2>1, <3>1, <3>3, <3>5, <3>7, <4>2 DEF Packed, Exists
    <3>8. QED
      BY <3>6, <3>7
  <2>11. QED
    BY <1>1, <1>2, <2>2, <2>3, <2>4, <2>7, <2>8, <2>9, <2>10
    DEF Next, AppendLost, RemoveFails, ZipFails, TruncateFails, Crash
<1>4. QED
  BY <1>1, <1>2, <1>3
  DEF Next, Append, AppendLost, CheckSmall, CheckBig, Remove, RemoveFails, SkipRename,
      Rename, RenameFails, ZipOpen, ZipAdd, ZipStep, ZipClose, ZipFails, TruncateFails, Crash

\* A step that gives messages up empties the top index.
LEMMA OnlyTheTopIsGivenUp ==
    ASSUME IInv, [Next]_vars, ~(Readable \subseteq Readable')
    PROVE  Remove /\ slot = Count /\ Exists(Count)
<1> USE DEF IInv
<1>1. Remove
  <2>1. ~Append
    BY DEF Append, Readable, Newest, TypeOK
  <2>2. ~Rename /\ ~ZipClose /\ ~Truncate
    BY RollingRename, RollingZip
  <2>3. ~UNCHANGED <<live, arch>>
    BY DEF Readable, Newest
  <2>4. QED
    BY <2>1, <2>2, <2>3
    DEF Next, vars, AppendLost, CheckSmall, CheckBig, RemoveFails, SkipRename, RenameFails,
        ZipOpen, ZipAdd, ZipStep, ZipFails, TruncateFails, Crash
<1>2. live' = live /\ \A i \in Slots : arch'[i] = IF i = slot THEN {} ELSE arch[i]
  BY <1>1 DEF Remove, TypeOK
<1>3. Exists(slot)
  BY <1>2 DEF Readable, Newest, Exists
<1>4. slot = Count
  BY <1>1, <1>3, CountAssumption DEF Remove, RoomInTheMiddle, TypeOK
<1>5. QED
  BY <1>1, <1>3, <1>4

\* While nothing has failed, the rotation gives an archive up only when every
\* index holds one: EvictWhenFull, for any number of archives.
THEOREM NoIndexWasted == Spec => EvictWhenFull
<1>1. Init => PackedUnlessFault
  BY DEF Init, PackedUnlessFault, Packed, Exists
<1>2. IInv /\ PackedUnlessFault /\ [Next]_vars
      => [faults' = 0 /\ ~(Readable \subseteq Readable') => \A i \in Slots : Exists(i)]_vars
  <2> SUFFICES ASSUME IInv, PackedUnlessFault, [Next]_vars, faults' = 0,
                      ~(Readable \subseteq Readable'), NEW i \in Slots
               PROVE  Exists(i)
    OBVIOUS
  <2>1. Remove /\ slot = Count /\ Exists(Count)
    BY OnlyTheTopIsGivenUp
  <2>2. Packed /\ pc = "remove"
    BY <2>1 DEF Remove, NoFault, PackedUnlessFault
  <2>3. i = Count \/ (i < Count /\ ~Hole(i))
    BY <2>1, <2>2, CountAssumption DEF Slots, Hole
  <2>4. QED
    BY <2>1, <2>2, <2>3, CountAssumption DEF Packed, Slots
<1>3. QED
  BY <1>1, <1>2, PackedStep, Invariance, PTL DEF Spec, EvictWhenFull
=============================================================================
