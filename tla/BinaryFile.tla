----------------------------- MODULE BinaryFile -----------------------------
(***************************************************************************)
(* Files::BinaryFile sees the bytes of a QByteArray as records of one size *)
(* and searches, removes and moves whole records.  Iterators are pointers  *)
(* into the bytes: here, the number of records before them, good until the *)
(* bytes change.  An application that found ranges removes them from the   *)
(* last to the first, so that those still to be removed stay good.         *)
(*                                                                         *)
(* A byte is the record it belongs to and its place in it.  Records are    *)
(* told apart by a number.                                                 *)
(***************************************************************************)
EXTENDS Integers, Filters, SequencesExt, FiniteSetsExt

CONSTANTS
    RecordSize,  \* s_recordSize
    MaxRecords   \* bound: records in a file

ASSUME RecordSizeAssumption == RecordSize \in Nat \ {0}
ASSUME BoundsAssumption == MaxRecords \in Nat

VARIABLES
    file,    \* m_file
    ranges,  \* ranges found and not yet removed
    found,   \* the records when the ranges were searched (history variable)
    wanted   \* the records that satisfied the predicate then (history variable)

binaryVars == <<file, ranges, found, wanted>>

Ids == 1 .. MaxRecords

\* The bytes of a sequence of records.
Bytes(recs) ==
    [p \in 1 .. Len(recs) * RecordSize |->
        [rec |-> recs[(p - 1) \div RecordSize + 1], at |-> (p - 1) % RecordSize]]

\* size(), and the record iterator i points at.
Size(bytes) == Len(bytes) \div RecordSize
Record(bytes, i) == bytes[i * RecordSize + 1].rec

Records(bytes) == [i \in 1 .. Size(bytes) |-> Record(bytes, i - 1)]

Files == {[i \in 1 .. n |-> i] : n \in 0 .. MaxRecords}

BinaryInit ==
    /\ file \in {Bytes(f) : f \in Files}
    /\ ranges = <<>>
    /\ found = <<>>
    /\ wanted = {}

-----------------------------------------------------------------------------
\* QByteArray::remove and insert, on byte positions from 0.

Cut(bytes, pos, len) ==
    IF len <= 0 \/ pos >= Len(bytes)
    THEN bytes
    ELSE SubSeq(bytes, 1, pos) \o SubSeq(bytes, pos + len + 1, Len(bytes))

Paste(bytes, pos, new) ==
    SubSeq(bytes, 1, pos) \o new \o SubSeq(bytes, pos + 1, Len(bytes))

-----------------------------------------------------------------------------
\* Searching, between the iterators first and the end of the file.

\* findRange: the first run of records in S.
FindRange(bytes, first, S) ==
    LET n == Size(bytes)
        Ends(i) == {j \in i .. n - 1 : Record(bytes, j) \notin S}
        Starts == {i \in first .. n - 1 : Record(bytes, i) \in S}
        b == IF Starts = {} THEN n ELSE Min(Starts)
    IN [begin |-> b, end |-> Min(Ends(b) \cup {n})]

\* findAllRanges.
FindAllRanges(bytes, S) ==
    LET n == Size(bytes)
        From[first \in 0 .. n] ==
            LET r == FindRange(bytes, first, S)
            IN IF first # n /\ r.end > r.begin THEN <<r>> \o From[r.end] ELSE <<>>
    IN From[0]

-----------------------------------------------------------------------------
\* Removing and moving the records of [first, last).

EraseMutant(bytes, first, last) ==  \* counts bytes, not records
    Cut(bytes, first * RecordSize, last - first)

Erase(bytes, first, last) ==
    Cut(bytes, first * RecordSize, (last - first) * RecordSize)

\* The position in bytes the moved records get.
IndexMutant(first, last, dst) ==  \* one record short, to the right
    IF dst > first THEN (dst - (last - first) - 1) * RecordSize ELSE dst * RecordSize

Index(first, last, dst) ==
    IF dst > first THEN (dst - (last - first)) * RecordSize ELSE dst * RecordSize

\* What move() refuses.
Refuses(bytes, first, last, dst) ==
    \/ first = 0 /\ last = Size(bytes)
    \/ dst >= first /\ dst <= last
    \/ last <= first
    \/ Index(first, last, dst) < 0
    \/ dst < 0 \/ dst > Size(bytes)

Move(bytes, first, last, dst) ==
    Paste(Erase(bytes, first, last), Index(first, last, dst),
          SubSeq(bytes, first * RecordSize + 1, last * RecordSize))

-----------------------------------------------------------------------------
\* What an application does with a file.

Positions == 0 .. Size(file)

Search(S) ==
    /\ ranges' = FindAllRanges(file, S)
    /\ found' = Records(file)
    /\ wanted' = S
    /\ UNCHANGED file

RemoveFoundMutant ==  \* the ranges are removed from the first to the last
    /\ ranges # <<>>
    /\ file' = Erase(file, Head(ranges).begin, Head(ranges).end)
    /\ ranges' = Tail(ranges)
    /\ UNCHANGED <<found, wanted>>

RemoveFound ==
    /\ ranges # <<>>
    /\ file' = Erase(file, Last(ranges).begin, Last(ranges).end)
    /\ ranges' = Front(ranges)
    /\ UNCHANGED <<found, wanted>>

\* Any other change makes the ranges useless.
Forget ==
    /\ ranges' = <<>>
    /\ found' = <<>>
    /\ wanted' = {}

RemoveRecords(first, last) ==
    /\ file' = Erase(file, first, last)
    /\ Forget

MoveRecords(first, last, dst) ==
    /\ ~Refuses(file, first, last, dst)
    /\ file' = Move(file, first, last, dst)
    /\ Forget

\* update().
Update(f) ==
    /\ file' = Bytes(f)
    /\ Forget

\* remove() takes a range that ends beyond the file, and removes what there is.
BinaryNext ==
    \/ \E S \in SUBSET Ids : Search(S)
    \/ RemoveFound
    \/ \E first \in Positions, last \in 0 .. Size(file) + 1 :
          first <= last /\ RemoveRecords(first, last)
    \/ \E first, last \in Positions, dst \in -1 .. Size(file) + 1 :
          MoveRecords(first, last, dst)
    \/ \E f \in Files : Update(f)

BinarySpec == BinaryInit /\ [][BinaryNext]_binaryVars

-----------------------------------------------------------------------------
\* Properties.

\* The bytes are whole records, each in one piece, as checking() asserts of their
\* number; a range found lies in the file.
BinaryTypeOK ==
    /\ file = Bytes(Records(file))
    /\ Records(file) \in Seq(Ids)
    /\ \A k \in DOMAIN ranges :
          ranges[k].begin < ranges[k].end /\ ranges[k].end <= Size(file)
    /\ found \in Seq(Ids)
    /\ wanted \subseteq Ids

\* A range of records of S that cannot be made longer.
Run(bytes, S, b, e) ==
    /\ b < e
    /\ \A i \in b .. e - 1 : Record(bytes, i) \in S
    /\ b = 0 \/ Record(bytes, b - 1) \notin S
    /\ e = Size(bytes) \/ Record(bytes, e) \notin S

\* findAllRanges returns every run of records that satisfy the predicate, once
\* and in the order of the file.
RangesAreRuns ==
    \A S \in SUBSET Ids :
        LET all == FindAllRanges(file, S)
        IN /\ {<<all[k].begin, all[k].end>> : k \in DOMAIN all}
                 = {r \in Positions \X Positions : Run(file, S, r[1], r[2])}
           /\ \A k \in 1 .. Len(all) - 1 : all[k].end < all[k + 1].begin

\* The records [first, last) come to stand before the record dst pointed at, and
\* the others keep their order.
Moved(recs, first, last, dst) ==
    LET block == SubSeq(recs, first + 1, last)
        Others(from, to) == Filter(SubSeq(recs, from, to), Ids \ ToSet(block))
    IN Others(1, dst) \o block \o Others(dst + 1, Len(recs))

\* move() does that for any valid range and destination, and what it refuses
\* would have changed nothing.
MoveIsRight ==
    \A first, last, dst \in Positions :
        first <= last =>
            Moved(Records(file), first, last, dst) =
                IF Refuses(file, first, last, dst)
                THEN Records(file)
                ELSE Records(Move(file, first, last, dst))

\* Searching and moving do what their reference definitions say, at the ends of
\* the file too.
SearchAndMoveAgree == RangesAreRuns /\ MoveIsRight

\* When every range found has been removed, from the last to the first, the
\* records that satisfy the predicate are gone and no other is.
SweepIsExact ==
    ranges = <<>> /\ found # <<>> =>
        Records(file) = Filter(found, Ids \ wanted)
=============================================================================
