-------------------------- MODULE ComputingProofs ---------------------------
(***************************************************************************)
(* Proofs about the parts that compute: BinaryFile, for any records and    *)
(* any bytes at the end of the file; Numbers, for bytes of any base, words *)
(* of any four of them and any number of operations; XmlParse, for any     *)
(* tags and any number of nodes.                                           *)
(***************************************************************************)
EXTENDS BinaryFile, Numbers, XmlParse, DataProofs

-----------------------------------------------------------------------------
(* BinaryFile.                                                              *)
\* Records and their bytes.

ByteSet == [rec : Ids, at : 0 .. RecordSize - 1]

\* Byte p of n records is in one of them; every byte of one of them is a byte.
LEMMA PlaceOfByte ==
    ASSUME NEW n \in Nat, NEW p \in 1 .. n * RecordSize
    PROVE  (p - 1) \div RecordSize \in 0 .. n - 1 /\ (p - 1) % RecordSize \in 0 .. RecordSize - 1
<1> DEFINE R == RecordSize
           q == (p - 1) \div R
           r == (p - 1) % R
           m == n * R
<1>1. R \in Nat \ {0}
  BY RecordSizeAssumption
<1>2. m \in Nat /\ p \in 1 .. m
  BY <1>1
<1>3. q \in Int /\ r \in 0 .. R - 1 /\ p - 1 = q * R + r
  BY <1>1, <1>2, Division
<1>4. q < n
  <2>1. n <= q => m <= q * R
    <3>1. n < q => n * R + R <= q * R
      BY <1>1, <1>3, ProductsApart
    <3> DEFINE x == q * R
    <3>2. x \in Int /\ (n = q => m = x)
      BY <1>1, <1>3
    <3>3. n < q => m + R <= x
      BY <3>1
    <3> HIDE DEF m, q, x
    <3>4. n <= q => m <= x
      BY <1>1, <1>2, <1>3, <3>2, <3>3
    <3>5. QED
      BY <3>4 DEF x
  <2> DEFINE x == q * R
  <2>2. x \in Int /\ p - 1 = x + r
    BY <1>1, <1>3
  <2> HIDE DEF m, q, r, x
  <2>3. ~ m <= x
    BY <1>2, <1>3, <2>2
  <2>4. QED
    BY <1>3, <2>1, <2>3 DEF x
<1>5. q >= 0
  <2>1. q < 0 => q * R + R <= 0 * R
    BY <1>1, <1>3, ProductsApart
  <2> DEFINE x == q * R
  <2>2. x \in Int /\ p - 1 = x + r /\ 0 * R = 0
    BY <1>1, <1>3
  <2> HIDE DEF m, q, r, x
  <2>3. ~ x + R <= 0
    BY <1>1, <1>2, <1>3, <2>2
  <2>4. QED
    BY <1>3, <2>1, <2>2, <2>3 DEF x
<1>6. QED
  BY <1>3, <1>4, <1>5

LEMMA ByteOfPlace ==
    ASSUME NEW n \in Nat, NEW q \in 0 .. n - 1, NEW r \in 0 .. RecordSize - 1
    PROVE  q * RecordSize + r + 1 \in 1 .. n * RecordSize
<1> DEFINE R == RecordSize
           x == q * R
           m == n * R
<1>1. R \in Nat \ {0} /\ x \in Int /\ m \in Int
  BY RecordSizeAssumption
<1>2. q * R + R <= n * R
  BY <1>1, ProductsApart
<1>3. x + R <= m
  BY <1>2
<1>4. x >= 0
  BY <1>1
<1> HIDE DEF x, m, R
<1>5. x + r + 1 \in 1 .. m
  BY <1>1, <1>3, <1>4 DEF R
<1>6. QED
  BY <1>5 DEF x, m, R

LEMMA BytesOf ==
    ASSUME NEW recs \in Seq(Ids)
    PROVE  /\ Bytes(recs) \in Seq(ByteSet)
           /\ Len(Bytes(recs)) = Len(recs) * RecordSize
           /\ \A p \in 1 .. Len(recs) * RecordSize :
                  Bytes(recs)[p] = [rec |-> recs[(p - 1) \div RecordSize + 1],
                                    at |-> (p - 1) % RecordSize]
<1> DEFINE n == Len(recs) * RecordSize
<1>1. n \in Nat /\ Len(recs) \in Nat
  BY RecordSizeAssumption, LenProperties
<1>2. \A p \in 1 .. n : /\ recs[(p - 1) \div RecordSize + 1] \in Ids
                        /\ (p - 1) % RecordSize \in 0 .. RecordSize - 1
  <2> TAKE p \in 1 .. n
  <2>1. (p - 1) \div RecordSize \in 0 .. Len(recs) - 1 /\ (p - 1) % RecordSize \in 0 .. RecordSize - 1
    BY <1>1, PlaceOfByte
  <2> DEFINE q == (p - 1) \div RecordSize
  <2> HIDE DEF q
  <2>2. q + 1 \in 1 .. Len(recs)
    BY <1>1, <2>1 DEF q
  <2>3. recs[q + 1] \in Ids
    BY <2>2, ElementOfSeq
  <2>4. QED
    BY <2>1, <2>3 DEF q
<1>3. Bytes(recs) = [p \in 1 .. n |-> [rec |-> recs[(p - 1) \div RecordSize + 1],
                                        at |-> (p - 1) % RecordSize]]
  BY DEF Bytes
<1> HIDE DEF n
<1>4. Bytes(recs) \in [1 .. n -> ByteSet]
  BY <1>2, <1>3 DEF ByteSet
<1>5. Bytes(recs) \in Seq(ByteSet)
  BY <1>1, <1>4, SeqDef
<1>6. Len(Bytes(recs)) = n
  BY <1>1, <1>4, <1>5, LenProperties
<1>7. QED
  BY <1>3, <1>5, <1>6 DEF n

LEMMA RecordsOfBytes ==
    ASSUME NEW recs \in Seq(Ids)
    PROVE  /\ Size(Bytes(recs)) = Len(recs)
           /\ \A i \in 0 .. Len(recs) - 1 : Record(Bytes(recs), i) = recs[i + 1]
           /\ Records(Bytes(recs)) = recs
<1> DEFINE n == Len(recs)
           R == RecordSize
<1>1. R \in Nat \ {0} /\ 0 \in 0 .. R - 1 /\ n \in Nat /\ recs \in [1 .. n -> Ids]
  BY RecordSizeAssumption, LenProperties
<1>2. Size(Bytes(recs)) = n
  <2>1. (n * R + 0) \div R = n
    <3>1. n \in Int
      BY <1>1
    <3> HIDE DEF n, R
    <3>2. QED
      BY <1>1, <3>1, DivideExactly
  <2>2. n * R + 0 = n * R
    BY <1>1
  <2>3. Len(Bytes(recs)) = n * R
    BY BytesOf
  <2>4. QED
    BY <2>1, <2>2, <2>3 DEF Size
<1>3. \A i \in 0 .. n - 1 : Record(Bytes(recs), i) = recs[i + 1]
  <2> TAKE i \in 0 .. n - 1
  <2> DEFINE p == i * R + 1
  <2>1. p \in 1 .. n * R /\ p - 1 = i * R + 0
    <3>1. i * R + 0 + 1 \in 1 .. n * R
      BY <1>1, ByteOfPlace
    <3>2. i * R \in Int
      BY <1>1
    <3>3. QED
      BY <3>1, <3>2
  <2>2. (i * R + 0) \div R = i
    BY <1>1, DivideExactly
  <2>3. Bytes(recs)[p] = [rec |-> recs[(p - 1) \div R + 1], at |-> (p - 1) % R]
    BY <2>1, BytesOf
  <2>4. Bytes(recs)[p].rec = recs[i + 1]
    BY <2>1, <2>2, <2>3
  <2>5. QED
    BY <2>4 DEF Record
<1>4. Records(Bytes(recs)) = recs
  <2>1. \A i \in 1 .. n : Record(Bytes(recs), i - 1) = recs[i]
    BY <1>1, <1>3
  <2>2. QED
    BY <1>1, <1>2, <2>1 DEF Records
<1>5. QED
  BY <1>2, <1>3, <1>4

\* The bytes of two sequences of records, one after the other.
LEMMA BytesConcat ==
    ASSUME NEW s \in Seq(Ids), NEW t \in Seq(Ids)
    PROVE  Bytes(s \o t) = Bytes(s) \o Bytes(t)
<1> DEFINE R == RecordSize
           m == Len(s)
           n == Len(t)
           u == s \o t
           M == m * R
           N == n * R
<1>1. R \in Nat \ {0} /\ m \in Nat /\ n \in Nat
  BY RecordSizeAssumption, LenProperties
<1>2. /\ u \in Seq(Ids) /\ Len(u) = m + n
      /\ \A i \in 1 .. m + n : u[i] = IF i <= m THEN s[i] ELSE t[i - m]
  BY ConcatProperties
<1>3. M \in Nat /\ N \in Nat /\ (m + n) * R = M + N
  BY <1>1
<1>4. /\ Bytes(s) \in Seq(ByteSet) /\ Len(Bytes(s)) = M
      /\ Bytes(t) \in Seq(ByteSet) /\ Len(Bytes(t)) = N
      /\ Bytes(u) \in Seq(ByteSet) /\ Len(Bytes(u)) = M + N
  <2> HIDE DEF u
  <2>1. QED
    BY <1>2, <1>3, BytesOf
<1>5. /\ Bytes(s) \o Bytes(t) \in Seq(ByteSet) /\ Len(Bytes(s) \o Bytes(t)) = M + N
      /\ \A p \in 1 .. M + N :
             (Bytes(s) \o Bytes(t))[p] = IF p <= M THEN Bytes(s)[p] ELSE Bytes(t)[p - M]
  <2> HIDE DEF M, N, u
  <2>1. QED
    BY <1>4, ConcatProperties
<1>6. \A p \in 1 .. M + N : Bytes(u)[p] = [rec |-> u[(p - 1) \div R + 1], at |-> (p - 1) % R]
  <2> HIDE DEF u
  <2>1. QED
    BY <1>2, <1>3, BytesOf
<1>7. ASSUME NEW p \in 1 .. M + N PROVE Bytes(u)[p] = (Bytes(s) \o Bytes(t))[p]
  <2>1. CASE p <= M
    <3>1. p \in 1 .. m * R
      BY <1>3, <2>1
    <3> HIDE DEF M, N, R, m, n, u
    <3>2. (p - 1) \div RecordSize \in 0 .. m - 1
      BY <1>1, <3>1, PlaceOfByte DEF R
    <3> DEFINE q == (p - 1) \div R
    <3>3. q \in 0 .. m - 1
      BY <3>2 DEF R
    <3>4. Bytes(s)[p] = [rec |-> s[q + 1], at |-> (p - 1) % R]
      BY <3>1, BytesOf DEF R, m
    <3>5. Bytes(u)[p] = [rec |-> u[q + 1], at |-> (p - 1) % R]
      BY <1>6
    <3> HIDE DEF q
    <3>6. u[q + 1] = s[q + 1]
      BY <1>1, <1>2, <3>3
    <3>7. QED
      BY <1>5, <2>1, <3>4, <3>5, <3>6
  <2>2. CASE p > M
    <3> DEFINE k == p - M
    <3>1. k \in 1 .. N /\ p - 1 = m * R + (k - 1)
      BY <1>3, <2>2
    <3> HIDE DEF M, R, m, n, u, k
    <3>2. k \in 1 .. n * RecordSize
      BY <3>1 DEF R
    <3>3. (k - 1) \div RecordSize \in 0 .. n - 1
      BY <1>1, <3>2, PlaceOfByte
    <3>4. (m * R + (k - 1)) \div R = m + (k - 1) \div R /\ (m * R + (k - 1)) % R = (k - 1) % R
      <4>1. k - 1 \in Int /\ m \in Int
        BY <1>1, <1>3, <3>1
      <4>2. QED
        BY <1>1, <4>1, DivideShifted
    <3> DEFINE q == (k - 1) \div R
               r == (k - 1) % R
    <3>5. Bytes(t)[k] = [rec |-> t[q + 1], at |-> r]
      BY <3>2, BytesOf DEF R, n
    <3>6. Bytes(u)[p] = [rec |-> u[m + q + 1], at |-> r]
      BY <1>6, <3>1, <3>4
    <3>7. q \in 0 .. n - 1
      BY <3>3 DEF R
    <3> HIDE DEF q, r
    <3>8. u[m + q + 1] = t[q + 1]
      <4>1. m + q + 1 \in 1 .. m + n /\ ~ m + q + 1 <= m /\ (m + q + 1) - m = q + 1
        BY <1>1, <3>7
      <4>2. QED
        BY <1>2, <4>1
    <3>9. (Bytes(s) \o Bytes(t))[p] = Bytes(t)[k]
      BY <1>3, <1>5, <2>2 DEF k
    <3>10. QED
      BY <3>5, <3>6, <3>8, <3>9
  <2>3. p <= M \/ p > M
    <3> HIDE DEF M, N
    <3>1. QED
      BY <1>3
  <2>4. QED
    BY <2>1, <2>2, <2>3
<1> HIDE DEF M, N, u
<1>8. Bytes(u) = Bytes(s) \o Bytes(t)
  BY <1>4, <1>5, <1>7, SeqEqual
<1>9. QED
  BY <1>8 DEF u

-----------------------------------------------------------------------------
\* Taking sequences apart.

-----------------------------------------------------------------------------
\* Removing and moving, in records.

LEMMA BytesLength ==
    ASSUME NEW s \in Seq(Ids)
    PROVE  /\ Bytes(s) \in Seq(ByteSet) /\ Len(Bytes(s)) = Len(s) * RecordSize
           /\ Len(s) \in Nat /\ Len(s) * RecordSize \in Nat
           /\ Len(s) = 0 => Len(s) * RecordSize = 0
           /\ Len(s) # 0 => Len(s) * RecordSize > 0
<1>1. Bytes(s) \in Seq(ByteSet) /\ Len(Bytes(s)) = Len(s) * RecordSize /\ Len(s) \in Nat
  BY BytesOf, LenProperties
<1> DEFINE n == Len(s)
           R == RecordSize
<1>2. R \in Nat \ {0} /\ n \in Nat
  BY <1>1, RecordSizeAssumption
<1> HIDE DEF n, R
<1>3. n * R \in Nat /\ (n = 0 => n * R = 0)
  BY <1>2
<1>4. n # 0 => n * R > 0
  <2>1. 0 < n => 0 * R + R <= n * R
    BY <1>2, ProductsApart
  <2> DEFINE x == n * R
  <2>2. x \in Nat /\ 0 * R = 0
    BY <1>2, <1>3
  <2> HIDE DEF x
  <2>3. 0 < n => R <= x
    BY <1>2, <2>1, <2>2 DEF x
  <2>4. n # 0 => x > 0
    BY <1>2, <2>2, <2>3
  <2>5. QED
    BY <2>4 DEF x
<1>5. QED
  BY <1>1, <1>3, <1>4 DEF n, R

\* remove() takes out whole records.
LEMMA ErasesRecords ==
    ASSUME NEW a \in Seq(Ids), NEW b \in Seq(Ids), NEW c \in Seq(Ids)
    PROVE  Erase(Bytes(a \o (b \o c)), Len(a), Len(a) + Len(b)) = Bytes(a \o c)
<1> DEFINE R == RecordSize
           A == Bytes(a)
           B == Bytes(b)
           C == Bytes(c)
           bytes == Bytes(a \o (b \o c))
           x == Len(a) * R
           y == Len(b) * R
<1>1. b \o c \in Seq(Ids) /\ a \o b \in Seq(Ids)
  BY ConcatProperties
<1>2. bytes = A \o (B \o C) /\ Bytes(a \o c) = A \o C
  BY <1>1, BytesConcat
<1>3. A \in Seq(ByteSet) /\ B \in Seq(ByteSet) /\ C \in Seq(ByteSet)
      /\ Len(A) = x /\ Len(B) = y /\ x \in Nat /\ y \in Nat
  BY BytesLength
<1>6. ((Len(a) + Len(b)) - Len(a)) * R = y
  <2>1. Len(a) \in Nat /\ Len(b) \in Nat
    BY BytesLength
  <2>2. (Len(a) + Len(b)) - Len(a) = Len(b)
    BY <2>1
  <2>3. QED
    BY <2>2
<1>7. Erase(bytes, Len(a), Len(a) + Len(b)) = Cut(bytes, x, y)
  BY <1>6 DEF Erase
<1> HIDE DEF x, y, bytes, A, B, C
<1>4. /\ B \o C \in Seq(ByteSet) /\ A \o B \in Seq(ByteSet) /\ Len(A \o B) = x + y
      /\ Len(B \o C) = y + Len(C) /\ Len(C) \in Nat
      /\ bytes = (A \o B) \o C
  <2>1. B \o C \in Seq(ByteSet) /\ Len(B \o C) = y + Len(C) /\ Len(C) \in Nat
    BY <1>3, ConcatProperties, LenProperties
  <2>2. A \o B \in Seq(ByteSet) /\ Len(A \o B) = x + y
    BY <1>3, ConcatProperties
  <2>3. (A \o B) \o C = A \o (B \o C)
    BY <1>3, ConcatAssociative, SMTT(20)
  <2>4. QED
    BY <1>2, <2>1, <2>2, <2>3
<1>5. Len(bytes) = x + (y + Len(C)) /\ Len(bytes) \in Nat
  <2> DEFINE D == B \o C
  <2>1. D \in Seq(ByteSet) /\ Len(D) = y + Len(C)
    BY <1>4
  <2> HIDE DEF D
  <2>2. Len(A \o D) = x + (y + Len(C))
    <3>1. Len(A \o D) = Len(A) + Len(D)
      BY <1>3, <2>1, ConcatProperties
    <3>2. QED
      BY <1>3, <2>1, <3>1
  <2>3. QED
    BY <1>2, <1>3, <1>4, <2>2 DEF D
<1>8. SubSeq(bytes, 1, x) = A
  <2>1. SubSeq(A \o (B \o C), 1, Len(A)) = A
    BY <1>3, <1>4, PartsOfConcat
  <2>2. QED
    BY <1>2, <1>3, <2>1
<1>9. SubSeq(bytes, x + y + 1, Len(bytes)) = C
  <2> DEFINE D == A \o B
  <2>0. D \in Seq(ByteSet) /\ Len(D) = x + y
    BY <1>4
  <2> HIDE DEF D
  <2>1. SubSeq(D \o C, Len(D) + 1, Len(D \o C)) = C
    BY <1>3, <2>0, PartsOfConcat
  <2>2. QED
    BY <1>4, <2>0, <2>1 DEF D
<1>10. CASE y <= 0
  <2>1. Len(b) = 0 /\ b = <<>>
    <3>1. Len(b) = 0
      BY <1>3, <1>10, BytesLength DEF y
    <3>2. QED
      BY <3>1, EmptySeq
  <2>2. b \o c = c
    BY <2>1, ConcatEmptySeq
  <2>3. QED
    BY <1>7, <1>10, <2>2 DEF Cut, bytes
<1>11. CASE y > 0 /\ x >= Len(bytes)
  BY <1>3, <1>4, <1>5, <1>11
<1>12. CASE y > 0 /\ x < Len(bytes)
  <2>1. Cut(bytes, x, y) = SubSeq(bytes, 1, x) \o SubSeq(bytes, x + y + 1, Len(bytes))
    <3>1. ~ (y <= 0 \/ x >= Len(bytes))
      BY <1>3, <1>5, <1>12
    <3>2. QED
      BY <3>1, Zenon DEF Cut
  <2>2. QED
    BY <1>2, <1>7, <1>8, <1>9, <2>1 DEF bytes
<1>13. QED
  BY <1>3, <1>5, <1>10, <1>11, <1>12

\* A range that ends beyond the file is one that ends with it.
LEMMA ErasesToEnd ==
    ASSUME NEW s \in Seq(Ids), NEW first \in 0 .. Len(s), NEW last \in Int, last > Len(s)
    PROVE  Erase(Bytes(s), first, last) = Erase(Bytes(s), first, Len(s))
<1> DEFINE R == RecordSize
           n == Len(s)
           bytes == Bytes(s)
           x == first * R
           N == n * R
           L == last * R
<1>1. R \in Nat \ {0} /\ n \in Nat /\ first \in 0 .. n
  BY RecordSizeAssumption, LenProperties
<1>2. bytes \in Seq(ByteSet) /\ Len(bytes) = N /\ N \in Nat
  BY BytesLength
<1>3. x \in Nat /\ L \in Int /\ (last - first) * R = L - x /\ (n - first) * R = N - x
  BY <1>1
<1>4. N < L
  <2>1. n * R + R <= last * R
    BY <1>1, ProductsApart
  <2>2. N + R <= L
    BY <2>1
  <2> HIDE DEF n, R, N, L
  <2>3. QED
    BY <1>1, <1>2, <1>3, <2>2
<1>5. first = n \/ x < N
  <2>1. first < n => first * R + R <= n * R
    BY <1>1, ProductsApart
  <2>2. first < n => x + R <= N
    BY <2>1
  <2> HIDE DEF R, N, x
  <2>3. QED
    BY <1>1, <1>2, <1>3, <2>2
<1>6. Erase(bytes, first, last) = Cut(bytes, x, L - x) /\ Erase(bytes, first, n) = Cut(bytes, x, N - x)
  BY <1>3 DEF Erase
<1> HIDE DEF R, n, x, N, L, bytes
<1>7. CASE first = n
  <2>1. x = N
    BY <1>7 DEF x, N
  <2>2. Cut(bytes, x, L - x) = bytes /\ Cut(bytes, x, N - x) = bytes
    BY <1>2, <1>3, <2>1 DEF Cut
  <2>3. QED
    BY <1>6, <2>2 DEF bytes, n
<1>8. CASE x < N
  <2>1. /\ Cut(bytes, x, L - x) = SubSeq(bytes, 1, x) \o SubSeq(bytes, x + (L - x) + 1, N)
        /\ Cut(bytes, x, N - x) = SubSeq(bytes, 1, x) \o SubSeq(bytes, x + (N - x) + 1, N)
    BY <1>2, <1>3, <1>4, <1>8 DEF Cut
  <2>2. SubSeq(bytes, x + (L - x) + 1, N) = <<>> /\ SubSeq(bytes, x + (N - x) + 1, N) = <<>>
    BY <1>2, <1>3, <1>4, SubSeqEmpty
  <2>3. QED
    BY <1>6, <2>1, <2>2 DEF bytes, n
<1>9. QED
  BY <1>5, <1>7, <1>8

RecordsPaste(a, b, c) ==
    Paste(Bytes(a \o c), Len(a) * RecordSize, Bytes(b)) = Bytes(a \o (b \o c))

LEMMA PastesRecords ==
    ASSUME NEW a \in Seq(Ids), NEW b \in Seq(Ids), NEW c \in Seq(Ids)
    PROVE  RecordsPaste(a, b, c)
<1> DEFINE A == Bytes(a)
           B == Bytes(b)
           C == Bytes(c)
<1>1. b \o c \in Seq(Ids)
  BY ConcatProperties
<1>2. Bytes(a \o c) = A \o C /\ Bytes(a \o (b \o c)) = A \o (B \o C)
  BY <1>1, BytesConcat, ZenonT(30)
<1>3. A \in Seq(ByteSet) /\ B \in Seq(ByteSet) /\ C \in Seq(ByteSet) /\ Len(A) = Len(a) * RecordSize
  BY BytesLength
<1> HIDE DEF A, B, C
<1>4. SubSeq(A \o C, 1, Len(A)) = A /\ SubSeq(A \o C, Len(A) + 1, Len(A \o C)) = C
  BY <1>3, PartsOfConcat, SMTT(20)
<1>5. Paste(A \o C, Len(A), B) = (A \o B) \o C
  BY <1>4 DEF Paste
<1>6. Associated(A, B, C)
  BY <1>3, Associates
<1>7. Paste(A \o C, Len(A), B) = A \o (B \o C)
  BY <1>5, <1>6 DEF Associated
<1>8. QED
  BY <1>2, <1>3, <1>7 DEF B, RecordsPaste

LEMMA TakesRecords ==
    ASSUME NEW a \in Seq(Ids), NEW b \in Seq(Ids), NEW c \in Seq(Ids), Len(b) # 0
    PROVE  SubSeq(Bytes(a \o (b \o c)), Len(a) * RecordSize + 1, (Len(a) + Len(b)) * RecordSize)
               = Bytes(b)
<1> DEFINE A == Bytes(a)
           B == Bytes(b)
           C == Bytes(c)
           x == Len(a) * RecordSize
           y == Len(b) * RecordSize
<1>1. b \o c \in Seq(Ids)
  BY ConcatProperties
<1>2. Bytes(a \o (b \o c)) = A \o (B \o C)
  BY <1>1, BytesConcat, ZenonT(30)
<1>3. /\ A \in Seq(ByteSet) /\ B \in Seq(ByteSet) /\ C \in Seq(ByteSet)
      /\ Len(A) = x /\ Len(B) = y /\ x \in Nat /\ y \in Nat /\ y > 0
  BY BytesLength
<1>4. (Len(a) + Len(b)) * RecordSize = x + y
  BY BytesLength, RecordSizeAssumption
<1> HIDE DEF A, B, C, x, y
<1> DEFINE D == A \o B
<1>5. D \in Seq(ByteSet) /\ Len(D) = x + y /\ A \o (B \o C) = D \o C
  <2>1. D \in Seq(ByteSet) /\ Len(D) = x + y
    BY <1>3, ConcatProperties
  <2>2. A \in Seq(ByteSet) /\ B \in Seq(ByteSet) /\ C \in Seq(ByteSet)
    BY <1>3
  <2>3. Associated(A, B, C)
    BY <2>2, Associates
  <2>4. QED
    BY <2>1, <2>3 DEF Associated
<1>6. SubSeq(D, Len(A) + 1, Len(D)) = B
  BY <1>3, PartsOfConcat, ZenonT(30)
<1> HIDE DEF D
<1>7. SubSeq(D \o C, x + 1, x + y) = SubSeq(D, x + 1, x + y)
  <2>1. x + 1 \in 1 .. Len(D) /\ x + y \in 1 .. Len(D)
    BY <1>3, <1>5
  <2>2. QED
    BY <1>3, <1>5, <2>1, SubSeqOfConcat1
<1>8. QED
  BY <1>2, <1>3, <1>4, <1>5, <1>6, <1>7 DEF x, y, B

InThree(s, i, j, a, b, c) ==
    s = a \o (b \o c) /\ Len(a) = i /\ Len(b) = j - i /\ Len(c) = Len(s) - j

LEMMA SplitTwice ==
    ASSUME NEW T, NEW s \in Seq(T), NEW i \in 0 .. Len(s), NEW j \in i .. Len(s)
    PROVE  \E a, b, c \in Seq(T) : InThree(s, i, j, a, b, c)
<1>1. Len(s) \in Nat
  BY LenProperties
<1>2. PICK a, r \in Seq(T) : InTwo(s, i, a, r)
  BY SplitOnce
<1>3. s = a \o r /\ Len(a) = i /\ Len(r) = Len(s) - i
  BY <1>2 DEF InTwo
<1>4. j - i \in 0 .. Len(r)
  BY <1>1, <1>3
<1>5. PICK b, c \in Seq(T) : InTwo(r, j - i, b, c)
  BY <1>4, SplitOnce
<1>6. r = b \o c /\ Len(b) = j - i /\ Len(c) = Len(r) - (j - i)
  BY <1>5 DEF InTwo
<1>7. Len(c) = Len(s) - j
  BY <1>1, <1>3, <1>6
<1>8. InThree(s, i, j, a, b, c)
  BY <1>3, <1>6, <1>7 DEF InThree
<1>9. QED
  BY <1>8

\* What is left of a file whose records first to last are removed.
LEMMA Erasing ==
    ASSUME NEW s \in Seq(Ids), NEW first \in 0 .. Len(s), NEW last \in Int, first <= last
    PROVE  \E a, b, c \in Seq(Ids), m \in first .. Len(s) :
               /\ InThree(s, first, m, a, b, c)
               /\ last <= Len(s) => m = last
               /\ Erase(Bytes(s), first, last) = Bytes(a \o c)
<1> DEFINE m == IF last <= Len(s) THEN last ELSE Len(s)
<1>1. Len(s) \in Nat /\ m \in first .. Len(s)
  BY LenProperties
<1>2. Erase(Bytes(s), first, last) = Erase(Bytes(s), first, m)
  BY <1>1, ErasesToEnd
<1> HIDE DEF m
<1>3. PICK a, b, c \in Seq(Ids) : InThree(s, first, m, a, b, c)
  BY <1>1, SplitTwice
<1>4. s = a \o (b \o c) /\ Len(a) = first /\ Len(a) + Len(b) = m
  BY <1>1, <1>3 DEF InThree
<1>5. Erase(Bytes(s), first, m) = Bytes(a \o c)
  <2>1. Erase(Bytes(a \o (b \o c)), Len(a), Len(a) + Len(b)) = Bytes(a \o c)
    BY ErasesRecords
  <2>2. QED
    BY <1>4, <2>1
<1>6. last <= Len(s) => m = last
  BY DEF m
<1>7. Erase(Bytes(s), first, last) = Bytes(a \o c)
  BY <1>2, <1>5
<1>8. QED
  BY <1>1, <1>3, <1>6, <1>7

FourParts(T, p, q, b, z) ==
    /\ p \o (q \o (b \o z)) \in Seq(T) /\ q \o (b \o z) \in Seq(T)
    /\ p \o q \in Seq(T) /\ q \o z \in Seq(T) /\ b \o z \in Seq(T)
    /\ Len(p \o q) = Len(p) + Len(q)
    /\ Len(p \o (q \o (b \o z))) = Len(p) + Len(q) + Len(b) + Len(z)
    /\ Len(p) \in Nat /\ Len(q) \in Nat /\ Len(b) \in Nat /\ Len(z) \in Nat
    /\ p \o (q \o (b \o z)) = (p \o q) \o (b \o z)
    /\ (p \o q) \o z = p \o (q \o z)

LEMMA FourConcat ==
    ASSUME NEW T, NEW p \in Seq(T), NEW q \in Seq(T), NEW b \in Seq(T), NEW z \in Seq(T)
    PROVE  FourParts(T, p, q, b, z)
<1>1. b \o z \in Seq(T) /\ Len(b \o z) = Len(b) + Len(z)
  BY ConcatProperties
<1>2. q \o z \in Seq(T) /\ p \o q \in Seq(T) /\ Len(p \o q) = Len(p) + Len(q)
  BY ConcatProperties
<1>3. Len(p) \in Nat /\ Len(q) \in Nat /\ Len(b) \in Nat /\ Len(z) \in Nat
  BY LenProperties
<1>4. (p \o q) \o z = p \o (q \o z)
  BY ConcatAssociative
<1> DEFINE r == b \o z
<1>5. r \in Seq(T) /\ Len(r) = Len(b) + Len(z)
  BY <1>1
<1> HIDE DEF r
<1>6. (p \o q) \o r = p \o (q \o r)
  <2>1. r \in Seq(T)
    BY <1>5
  <2>2. Associated(p, q, r)
    BY <2>1, Associates
  <2>3. QED
    BY <2>2 DEF Associated
<1> DEFINE w == q \o r
<1>7. w \in Seq(T) /\ Len(w) = Len(q) + Len(r)
  BY <1>5, ConcatProperties
<1> HIDE DEF w
<1>8. p \o w \in Seq(T) /\ Len(p \o w) = Len(p) + Len(w)
  BY <1>7, ConcatProperties
<1>9. Len(p \o w) = Len(p) + Len(q) + Len(b) + Len(z)
  BY <1>3, <1>5, <1>7, <1>8
<1>10. QED
  BY <1>1, <1>2, <1>3, <1>4, <1>5, <1>6, <1>7, <1>8, <1>9 DEF w, r, FourParts

\* move() towards the start of the file, and towards its end.
MoveGoesLeft(p, q, b, z) ==
    Move(Bytes(p \o (q \o (b \o z))), Len(p) + Len(q), Len(p) + Len(q) + Len(b), Len(p))
        = Bytes(p \o (b \o (q \o z)))

LEMMA MovesLeft ==
    ASSUME NEW p \in Seq(Ids), NEW q \in Seq(Ids), NEW b \in Seq(Ids), NEW z \in Seq(Ids),
           Len(b) # 0
    PROVE  MoveGoesLeft(p, q, b, z)
<1> DEFINE s == p \o (q \o (b \o z))
           a == p \o q
<1>1. /\ a \in Seq(Ids) /\ Len(a) = Len(p) + Len(q) /\ s = a \o (b \o z)
      /\ q \o z \in Seq(Ids) /\ a \o z = p \o (q \o z)
      /\ Len(p) \in Nat /\ Len(q) \in Nat
  <2>1. FourParts(Ids, p, q, b, z)
    BY FourConcat
  <2>2. QED
    BY <2>1 DEF FourParts
<1> HIDE DEF s, a
<1>2. Erase(Bytes(s), Len(a), Len(a) + Len(b)) = Bytes(a \o z)
  BY <1>1, ErasesRecords
<1>3. SubSeq(Bytes(s), Len(a) * RecordSize + 1, (Len(a) + Len(b)) * RecordSize) = Bytes(b)
  BY <1>1, TakesRecords
<1>4. Index(Len(a), Len(a) + Len(b), Len(p)) = Len(p) * RecordSize
  BY <1>1 DEF Index
<1>5. Move(Bytes(s), Len(a), Len(a) + Len(b), Len(p))
          = Paste(Bytes(p \o (q \o z)), Len(p) * RecordSize, Bytes(b))
  BY <1>1, <1>2, <1>3, <1>4 DEF Move
<1>6. Paste(Bytes(p \o (q \o z)), Len(p) * RecordSize, Bytes(b)) = Bytes(p \o (b \o (q \o z)))
  <2>1. RecordsPaste(p, b, q \o z)
    BY <1>1, PastesRecords
  <2>2. QED
    BY <2>1 DEF RecordsPaste
<1>7. QED
  BY <1>1, <1>5, <1>6 DEF MoveGoesLeft, s

MoveGoesRight(p, q, b, z) ==
    Move(Bytes(p \o (b \o (q \o z))), Len(p), Len(p) + Len(b), Len(p) + Len(b) + Len(q))
        = Bytes(p \o (q \o (b \o z)))

LEMMA MovesRight ==
    ASSUME NEW p \in Seq(Ids), NEW q \in Seq(Ids), NEW b \in Seq(Ids), NEW z \in Seq(Ids),
           Len(b) # 0, Len(q) # 0
    PROVE  MoveGoesRight(p, q, b, z)
<1> DEFINE c == q \o z
           a == p \o q
<1>1. /\ a \in Seq(Ids) /\ Len(a) = Len(p) + Len(q)
      /\ c \in Seq(Ids) /\ a \o z = p \o c /\ p \o (q \o (b \o z)) = a \o (b \o z)
      /\ Len(p) \in Nat /\ Len(q) \in Nat /\ Len(b) \in Nat
  <2>1. FourParts(Ids, p, q, b, z)
    BY FourConcat
  <2>2. QED
    BY <2>1 DEF FourParts
<1> HIDE DEF c, a
<1> DEFINE s == p \o (b \o c)
<1>2. Erase(Bytes(s), Len(p), Len(p) + Len(b)) = Bytes(p \o c)
  BY <1>1, ErasesRecords
<1>3. SubSeq(Bytes(s), Len(p) * RecordSize + 1, (Len(p) + Len(b)) * RecordSize) = Bytes(b)
  BY <1>1, TakesRecords
<1> HIDE DEF s
<1>4. Index(Len(p), Len(p) + Len(b), Len(p) + Len(b) + Len(q)) = Len(a) * RecordSize
  <2>1. /\ Len(p) + Len(b) + Len(q) > Len(p)
        /\ (Len(p) + Len(b) + Len(q)) - ((Len(p) + Len(b)) - Len(p)) = Len(a)
    BY <1>1
  <2>2. QED
    BY <2>1 DEF Index
<1>5. Move(Bytes(s), Len(p), Len(p) + Len(b), Len(p) + Len(b) + Len(q))
          = Paste(Bytes(a \o z), Len(a) * RecordSize, Bytes(b))
  BY <1>1, <1>2, <1>3, <1>4 DEF Move
<1>6. Paste(Bytes(a \o z), Len(a) * RecordSize, Bytes(b)) = Bytes(a \o (b \o z))
  <2>1. RecordsPaste(a, b, z)
    BY <1>1, PastesRecords
  <2>2. QED
    BY <2>1 DEF RecordsPaste
<1>7. QED
  BY <1>1, <1>5, <1>6 DEF MoveGoesRight, s, c

-----------------------------------------------------------------------------
\* What Moved says of a file in which no record stands twice.

AllDistinct(p, q, b, z) ==
    /\ Distinct(p) /\ Distinct(q) /\ Distinct(b) /\ Distinct(z)
    /\ Elements(p) \cap Elements(q) = {} /\ Elements(p) \cap Elements(b) = {}
    /\ Elements(p) \cap Elements(z) = {} /\ Elements(q) \cap Elements(b) = {}
    /\ Elements(q) \cap Elements(z) = {} /\ Elements(b) \cap Elements(z) = {}

LEMMA FourDistinct ==
    ASSUME NEW T, NEW p \in Seq(T), NEW q \in Seq(T), NEW b \in Seq(T), NEW z \in Seq(T)
    PROVE  Distinct(p \o (q \o (b \o z))) <=> AllDistinct(p, q, b, z)
<1> DEFINE r == b \o z
           w == q \o r
<1>1. r \in Seq(T) /\ Elements(r) = Elements(b) \cup Elements(z)
      /\ (Distinct(r) <=> Distinct(b) /\ Distinct(z) /\ Elements(b) \cap Elements(z) = {})
  BY ConcatProperties, ElementsConcat, DistinctConcat
<1> HIDE DEF r
<1>2. w \in Seq(T) /\ Elements(w) = Elements(q) \cup Elements(r)
      /\ (Distinct(w) <=> Distinct(q) /\ Distinct(r) /\ Elements(q) \cap Elements(r) = {})
  BY <1>1, ConcatProperties, ElementsConcat, DistinctConcat
<1> HIDE DEF w
<1>3. Distinct(p \o w) <=> Distinct(p) /\ Distinct(w) /\ Elements(p) \cap Elements(w) = {}
  BY <1>2, DistinctConcat
<1>4. Distinct(p \o w) <=> AllDistinct(p, q, b, z)
  BY <1>1, <1>2, <1>3 DEF AllDistinct
<1>5. QED
  BY <1>4 DEF w, r

Others(s, b) == Filter(s, Ids \ ToSet(b))

OthersApart(s, t, b) == Others(s \o t, b) = Others(s, b) \o Others(t, b)

LEMMA OthersOf ==
    ASSUME NEW s \in Seq(Ids), NEW t \in Seq(Ids), NEW b \in Seq(Ids)
    PROVE  /\ Elements(s) \cap Elements(b) = {} => Others(s, b) = s
           /\ Elements(s) \subseteq Elements(b) => Others(s, b) = <<>>
           /\ OthersApart(s, t, b)
           /\ Others(s, b) \in Seq(Ids)
<1> DEFINE S == Ids \ ToSet(b)
<1>1. ToSet(b) = Elements(b)
  <2>1. DOMAIN b = 1 .. Len(b)
    BY LenProperties
  <2>2. QED
    BY <2>1 DEF ToSet, Elements
<1>2. Elements(s) \subseteq Ids
  <2>1. \A i \in 1 .. Len(s) : s[i] \in Ids
    BY ElementOfSeq
  <2>2. QED
    BY <2>1 DEF Elements
<1>3. Elements(s) \cap Elements(b) = {} => Elements(s) \subseteq S
  BY <1>1, <1>2
<1>4. Elements(s) \subseteq Elements(b) => Elements(s) \cap S = {}
  BY <1>1
<1>5. Others(s, b) = Filter(s, S) /\ Others(t, b) = Filter(t, S) /\ Others(s \o t, b) = Filter(s \o t, S)
  BY DEF Others
<1> HIDE DEF S
<1>6. Elements(s) \subseteq S => Filter(s, S) = s
  BY FilterAll
<1>7. Elements(s) \cap S = {} => Filter(s, S) = <<>>
  BY FilterNone
<1>8. Filter(s \o t, S) = Filter(s, S) \o Filter(t, S)
  <2>1. FiltersApart(s, t, S)
    BY FilterApart
  <2>2. QED
    BY <2>1 DEF FiltersApart
<1>9. Filter(s, S) \in Seq(Ids)
  BY FilterType
<1>10. QED
  BY <1>3, <1>4, <1>5, <1>6, <1>7, <1>8, <1>9 DEF OthersApart

LEMMA MiddleOf ==
    ASSUME NEW T, NEW a \in Seq(T), NEW b \in Seq(T), NEW c \in Seq(T)
    PROVE  SubSeq(a \o (b \o c), Len(a) + 1, Len(a) + Len(b)) = b
<1>0. Len(a) \in Nat /\ Len(b) \in Nat
  BY LenProperties
<1>1. CASE Len(b) = 0
  <2>1. b = <<>>
    BY <1>1, EmptySeq
  <2>2. SubSeq(a \o (b \o c), Len(a) + 1, Len(a) + Len(b)) = <<>>
    BY <1>0, <1>1, SubSeqEmpty
  <2>3. QED
    BY <2>1, <2>2
<1>2. CASE Len(b) # 0
  <2> DEFINE D == a \o b
  <2>1. D \in Seq(T) /\ Len(D) = Len(a) + Len(b)
    BY ConcatProperties
  <2>2. D \o c = a \o (b \o c)
    BY ConcatAssociative
  <2>3. SubSeq(D, Len(a) + 1, Len(D)) = b
    BY PartsOfConcat
  <2> HIDE DEF D
  <2>4. Len(a) + 1 \in 1 .. Len(D) /\ Len(a) + Len(b) \in 1 .. Len(D)
    BY <1>0, <1>2, <2>1
  <2>5. SubSeq(D \o c, Len(a) + 1, Len(a) + Len(b)) = SubSeq(D, Len(a) + 1, Len(a) + Len(b))
    BY <2>1, <2>4, SubSeqOfConcat1
  <2>6. QED
    BY <2>1, <2>2, <2>3, <2>5
<1>3. QED
  BY <1>1, <1>2

\* The block at its new place, where the file is cut in two.
MovedBlock(u, v, first, last, b) ==
    SubSeq(u \o v, first + 1, last) = b =>
        Moved(u \o v, first, last, Len(u)) = (Others(u, b) \o b) \o Others(v, b)

LEMMA MovedIs ==
    ASSUME NEW u \in Seq(Ids), NEW v \in Seq(Ids), NEW first, NEW last, NEW b
    PROVE  MovedBlock(u, v, first, last, b)
<1>1. SubSeq(u \o v, 1, Len(u)) = u /\ SubSeq(u \o v, Len(u) + 1, Len(u \o v)) = v
  BY PartsOfConcat
<1>2. QED
  BY <1>1 DEF MovedBlock, Moved, Others

MovedGoesLeft(p, q, b, z) ==
    Moved(p \o (q \o (b \o z)), Len(p) + Len(q), Len(p) + Len(q) + Len(b), Len(p))
        = p \o (b \o (q \o z))

LEMMA MovedLeft ==
    ASSUME NEW p \in Seq(Ids), NEW q \in Seq(Ids), NEW b \in Seq(Ids), NEW z \in Seq(Ids),
           AllDistinct(p, q, b, z)
    PROVE  MovedGoesLeft(p, q, b, z)
<1> DEFINE v == q \o (b \o z)
           a == p \o q
<1>1. v \in Seq(Ids) /\ p \o v = a \o (b \o z) /\ a \in Seq(Ids)
      /\ Len(a) = Len(p) + Len(q) /\ b \o z \in Seq(Ids) /\ q \o z \in Seq(Ids)
  <2>1. FourParts(Ids, p, q, b, z)
    BY FourConcat
  <2>2. QED
    BY <2>1 DEF FourParts
<1>2. Others(v, b) = q \o z
  <2> DEFINE r == b \o z
  <2>1. r \in Seq(Ids)
    BY <1>1
  <2>2. OthersApart(b, z, b)
    BY OthersOf
  <2>3. Others(b, b) = <<>> /\ Others(z, b) = z
    BY OthersOf DEF AllDistinct
  <2>4. <<>> \o z = z
    BY ConcatEmptySeq
  <2>5. Others(r, b) = z
    BY <2>2, <2>3, <2>4 DEF OthersApart
  <2> HIDE DEF r
  <2>6. OthersApart(q, r, b)
    BY <2>1, OthersOf
  <2>7. Others(q, b) = q
    BY OthersOf DEF AllDistinct
  <2>8. QED
    BY <2>5, <2>6, <2>7 DEF OthersApart, r
<1>3. Others(p, b) = p
  BY OthersOf DEF AllDistinct
<1> HIDE DEF v, a
<1>4. SubSeq(p \o v, (Len(p) + Len(q)) + 1, Len(p) + Len(q) + Len(b)) = b
  <2>1. SubSeq(a \o (b \o z), Len(a) + 1, Len(a) + Len(b)) = b
    BY <1>1, MiddleOf
  <2>2. QED
    BY <1>1, <2>1
<1>5. Moved(p \o v, Len(p) + Len(q), Len(p) + Len(q) + Len(b), Len(p)) = (p \o b) \o (q \o z)
  <2>1. MovedBlock(p, v, Len(p) + Len(q), Len(p) + Len(q) + Len(b), b)
    BY <1>1, MovedIs
  <2>2. QED
    BY <1>2, <1>3, <1>4, <2>1 DEF MovedBlock
<1> DEFINE w == q \o z
<1>6. w \in Seq(Ids)
  BY <1>1
<1> HIDE DEF w
<1>7. Associated(p, b, w)
  BY <1>6, Associates
<1>8. QED
  BY <1>5, <1>7 DEF MovedGoesLeft, w, v, Associated

MovedGoesRight(p, q, b, z) ==
    Moved(p \o (b \o (q \o z)), Len(p), Len(p) + Len(b), Len(p) + Len(b) + Len(q))
        = p \o (q \o (b \o z))

LEMMA MovedRight ==
    ASSUME NEW p \in Seq(Ids), NEW q \in Seq(Ids), NEW b \in Seq(Ids), NEW z \in Seq(Ids),
           AllDistinct(p, b, q, z)
    PROVE  MovedGoesRight(p, q, b, z)
<1> DEFINE c == q \o z
           d == b \o q
           u == p \o d
<1>1. c \in Seq(Ids) /\ d \in Seq(Ids) /\ Len(d) = Len(b) + Len(q)
      /\ Elements(d) = Elements(b) \cup Elements(q)
  BY ConcatProperties, ElementsConcat
<1>2. Len(p) \in Nat /\ Len(b) \in Nat /\ Len(q) \in Nat
  BY LenProperties
<1>3. Associated(b, q, z)
  BY Associates
<1>4. Others(d, b) = q
  <2>1. OthersApart(b, q, b)
    BY OthersOf
  <2>2. Others(b, b) = <<>> /\ Others(q, b) = q
    BY OthersOf DEF AllDistinct
  <2>3. <<>> \o q = q
    BY ConcatEmptySeq
  <2>4. QED
    BY <2>1, <2>2, <2>3 DEF OthersApart
<1> HIDE DEF c, d
<1>5. u \in Seq(Ids) /\ Len(u) = Len(p) + Len(b) + Len(q)
  <2>1. u \in Seq(Ids) /\ Len(u) = Len(p) + Len(d)
    BY <1>1, ConcatProperties
  <2>2. QED
    BY <1>1, <1>2, <2>1
<1>6. Others(u, b) = p \o q
  <2>1. OthersApart(p, d, b)
    BY <1>1, OthersOf
  <2>2. Others(p, b) = p
    BY OthersOf DEF AllDistinct
  <2>3. QED
    BY <1>4, <2>1, <2>2 DEF OthersApart
<1>7. Others(z, b) = z
  BY OthersOf DEF AllDistinct
<1>8. u \o z = p \o (b \o c)
  <2>1. Associated(p, d, z)
    BY <1>1, Associates
  <2>2. d \o z = b \o c
    BY <1>3 DEF Associated, c, d
  <2>3. QED
    BY <2>1, <2>2 DEF Associated
<1>9. SubSeq(p \o (b \o c), Len(p) + 1, Len(p) + Len(b)) = b
  BY <1>1, MiddleOf
<1> HIDE DEF u
<1>10. Moved(u \o z, Len(p), Len(p) + Len(b), Len(u)) = (Others(u, b) \o b) \o Others(z, b)
  <2>1. MovedBlock(u, z, Len(p), Len(p) + Len(b), b)
    BY <1>5, MovedIs
  <2>2. QED
    BY <1>8, <1>9, <2>1 DEF MovedBlock
<1>11. ((p \o q) \o b) \o z = p \o (q \o (b \o z))
  <2> DEFINE x == p \o q
  <2>0. FourParts(Ids, p, q, b, z)
    BY FourConcat
  <2>1. x \in Seq(Ids) /\ x \o (b \o z) = p \o (q \o (b \o z))
    BY <2>0 DEF FourParts
  <2> HIDE DEF x
  <2>2. Associated(x, b, z)
    BY <2>1, Associates
  <2>3. QED
    BY <2>1, <2>2 DEF Associated, x
<1>12. QED
  BY <1>5, <1>6, <1>7, <1>8, <1>10, <1>11 DEF MovedGoesRight, c

\* A block moved into itself stays where it is.
MovedStays(p, b, d, z) ==
    Moved(p \o (b \o (d \o z)), Len(p), Len(p) + Len(b) + Len(d), Len(p) + Len(b))
        = p \o (b \o (d \o z))

LEMMA MovedNowhere ==
    ASSUME NEW p \in Seq(Ids), NEW b \in Seq(Ids), NEW d \in Seq(Ids), NEW z \in Seq(Ids),
           AllDistinct(p, b, d, z)
    PROVE  MovedStays(p, b, d, z)
<1> DEFINE u == p \o b
           v == d \o z
           e == b \o d
<1>1. u \in Seq(Ids) /\ Len(u) = Len(p) + Len(b) /\ v \in Seq(Ids) /\ e \in Seq(Ids)
      /\ Len(e) = Len(b) + Len(d) /\ Elements(e) = Elements(b) \cup Elements(d)
  BY ConcatProperties, ElementsConcat
<1>2. Len(p) \in Nat /\ Len(b) \in Nat /\ Len(d) \in Nat
  BY LenProperties
<1>3. Associated(p, b, d) /\ Associated(b, d, z)
  BY Associates
<1>4. OthersApart(p, b, e) /\ OthersApart(d, z, e)
  <2> HIDE DEF e
  <2>1. QED
    BY <1>1, OthersOf
<1>5. e \o z = b \o v
  BY <1>3 DEF Associated
<1> HIDE DEF u, v, e
<1>6. Others(p, e) = p /\ Others(b, e) = <<>> /\ Others(d, e) = <<>> /\ Others(z, e) = z
  <2>1. /\ Elements(p) \cap Elements(e) = {} /\ Elements(z) \cap Elements(e) = {}
        /\ Elements(b) \subseteq Elements(e) /\ Elements(d) \subseteq Elements(e)
    BY <1>1 DEF AllDistinct
  <2>2. QED
    BY <1>1, <2>1, OthersOf
<1>7. Others(u, e) = p /\ Others(v, e) = z
  <2>1. p \o <<>> = p /\ <<>> \o z = z
    BY ConcatEmptySeq
  <2>2. QED
    BY <1>4, <1>6, <2>1 DEF OthersApart, u, v
<1>8. Associated(p, b, v) /\ Associated(p, e, z)
  BY <1>1, Associates
<1>9. u \o v = p \o (b \o v) /\ p \o (e \o z) = p \o (b \o v)
  BY <1>5, <1>8 DEF u, Associated
<1>10. SubSeq(u \o v, Len(p) + 1, Len(p) + Len(b) + Len(d)) = e
  <2>1. SubSeq(p \o (e \o z), Len(p) + 1, Len(p) + Len(e)) = e
    BY <1>1, MiddleOf
  <2>2. Len(p) + Len(e) = Len(p) + Len(b) + Len(d)
    BY <1>1, <1>2
  <2>3. QED
    BY <1>9, <2>1, <2>2
<1>11. Moved(u \o v, Len(p), Len(p) + Len(b) + Len(d), Len(u)) = (p \o e) \o z
  <2>1. MovedBlock(u, v, Len(p), Len(p) + Len(b) + Len(d), e)
    BY <1>1, MovedIs
  <2>2. QED
    BY <1>7, <1>10, <2>1 DEF MovedBlock
<1>12. QED
  BY <1>1, <1>8, <1>9, <1>11 DEF MovedStays, v, Associated

InFour(s, i, j, k, p, q, b, z) ==
    /\ s = p \o (q \o (b \o z))
    /\ Len(p) = i /\ Len(q) = j - i /\ Len(b) = k - j

LEMMA SplitThrice ==
    ASSUME NEW T, NEW s \in Seq(T), NEW i \in 0 .. Len(s), NEW j \in i .. Len(s), NEW k \in j .. Len(s)
    PROVE  \E p, q, b, z \in Seq(T) : InFour(s, i, j, k, p, q, b, z)
<1>1. Len(s) \in Nat
  BY LenProperties
<1>2. PICK p, q, c \in Seq(T) : InThree(s, i, j, p, q, c)
  BY SplitTwice
<1>3. s = p \o (q \o c) /\ Len(p) = i /\ Len(q) = j - i /\ Len(c) = Len(s) - j
  BY <1>2 DEF InThree
<1>4. k - j \in 0 .. Len(c)
  BY <1>1, <1>3
<1>5. PICK b, z \in Seq(T) : InTwo(c, k - j, b, z)
  BY <1>4, SplitOnce
<1>6. c = b \o z /\ Len(b) = k - j
  BY <1>5 DEF InTwo
<1>7. InFour(s, i, j, k, p, q, b, z)
  BY <1>3, <1>6 DEF InFour
<1>8. QED
  BY <1>7

LEMMA EmptyBlock ==
    ASSUME NEW p \in Seq(Ids), NEW q \in Seq(Ids), NEW b \in Seq(Ids), NEW z \in Seq(Ids),
           Len(b) = 0
    PROVE  p \o (q \o (b \o z)) = p \o (b \o (q \o z))
<1>1. b = <<>>
  BY EmptySeq
<1>2. <<>> \o z = z
  BY ConcatEmptySeq
<1> DEFINE w == q \o z
<1>3. w \in Seq(Ids)
  BY ConcatProperties
<1> HIDE DEF w
<1>4. <<>> \o w = w
  BY <1>3, ConcatEmptySeq
<1>5. QED
  BY <1>1, <1>2, <1>4 DEF w

LEMMA MovingIsRight ==
    ASSUME NEW s \in Seq(Ids), Distinct(s), file = Bytes(s)
    PROVE  MoveIsRight
<1> DEFINE n == Len(s)
           AsPromised(first, last, dst) ==
               Moved(s, first, last, dst) =
                   IF Refuses(file, first, last, dst) THEN s ELSE Records(Move(file, first, last, dst))
<1>1. n \in Nat /\ Size(file) = n /\ Records(file) = s
  BY RecordsOfBytes, LenProperties
<1>2. ASSUME NEW first \in 0 .. n, NEW last \in 0 .. n, NEW dst \in 0 .. n,
             first <= last, dst < first
      PROVE  AsPromised(first, last, dst)
  <2>1. PICK p, q, b, z \in Seq(Ids) : InFour(s, dst, first, last, p, q, b, z)
    <3>1. dst \in 0 .. Len(s) /\ first \in dst .. Len(s) /\ last \in first .. Len(s)
      BY <1>1, <1>2
    <3>2. QED
      BY <3>1, SplitThrice
  <2>2. /\ s = p \o (q \o (b \o z)) /\ Len(p) = dst /\ Len(q) = first - dst /\ Len(b) = last - first
        /\ Len(p) + Len(q) = first /\ Len(p) + Len(q) + Len(b) = last
    BY <1>1, <1>2, <2>1 DEF InFour
  <2>3. AllDistinct(p, q, b, z)
    BY <2>2, FourDistinct
  <2> DEFINE t == p \o (b \o (q \o z))
  <2>4. Moved(s, first, last, dst) = t
    <3>1. MovedGoesLeft(p, q, b, z)
      BY <2>3, MovedLeft
    <3>2. QED
      BY <2>2, <3>1 DEF MovedGoesLeft
  <2>5. CASE first = last
    <3>1. Refuses(file, first, last, dst)
      BY <2>5 DEF Refuses
    <3>2. s = t
      BY <1>1, <2>2, <2>5, EmptyBlock, SMTT(20)
    <3>3. QED
      BY <2>4, <3>1, <3>2
  <2>6. CASE first # last
    <3>1. Len(b) # 0
      BY <1>1, <1>2, <2>2, <2>6
    <3>2. ~ Index(first, last, dst) < 0
      BY <1>1, <1>2, RecordSizeAssumption DEF Index
    <3>3. ~ Refuses(file, first, last, dst)
      BY <1>1, <1>2, <2>6, <3>2 DEF Refuses
    <3>4. Move(file, first, last, dst) = Bytes(t)
      <4>1. MoveGoesLeft(p, q, b, z)
        BY <3>1, MovesLeft
      <4>2. QED
        BY <2>2, <4>1 DEF MoveGoesLeft
    <3>5. t \in Seq(Ids)
      <4>1. FourParts(Ids, p, b, q, z)
        BY FourConcat
      <4>2. QED
        BY <4>1 DEF FourParts
    <3> HIDE DEF t
    <3>6. Records(Bytes(t)) = t
      BY <3>5, RecordsOfBytes
    <3>7. QED
      BY <2>4, <3>3, <3>4, <3>6
  <2>7. QED
    BY <2>5, <2>6
<1>3. ASSUME NEW first \in 0 .. n, NEW last \in 0 .. n, NEW dst \in 0 .. n,
             first <= dst, dst <= last
      PROVE  AsPromised(first, last, dst)
  <2>1. PICK p, b, d, z \in Seq(Ids) : InFour(s, first, dst, last, p, b, d, z)
    <3>1. first \in 0 .. Len(s) /\ dst \in first .. Len(s) /\ last \in dst .. Len(s)
      BY <1>1, <1>3
    <3>2. QED
      BY <3>1, SplitThrice
  <2>2. /\ s = p \o (b \o (d \o z)) /\ Len(p) = first
        /\ Len(p) + Len(b) = dst /\ Len(p) + Len(b) + Len(d) = last
    BY <1>1, <1>3, <2>1 DEF InFour
  <2>3. AllDistinct(p, b, d, z)
    BY <2>2, FourDistinct
  <2>4. Moved(s, first, last, dst) = s
    <3>1. MovedStays(p, b, d, z)
      BY <2>3, MovedNowhere
    <3>2. QED
      BY <2>2, <3>1 DEF MovedStays
  <2>5. Refuses(file, first, last, dst)
    BY <1>3 DEF Refuses
  <2>6. QED
    BY <2>4, <2>5
<1>4. ASSUME NEW first \in 0 .. n, NEW last \in 0 .. n, NEW dst \in 0 .. n,
             first <= last, last < dst
      PROVE  AsPromised(first, last, dst)
  <2>1. PICK p, b, q, z \in Seq(Ids) : InFour(s, first, last, dst, p, b, q, z)
    <3>1. first \in 0 .. Len(s) /\ last \in first .. Len(s) /\ dst \in last .. Len(s)
      BY <1>1, <1>4
    <3>2. QED
      BY <3>1, SplitThrice
  <2>2. /\ s = p \o (b \o (q \o z)) /\ Len(p) = first /\ Len(b) = last - first /\ Len(q) = dst - last
        /\ Len(p) + Len(b) = last /\ Len(p) + Len(b) + Len(q) = dst
    BY <1>1, <1>4, <2>1 DEF InFour
  <2>3. AllDistinct(p, b, q, z)
    BY <2>2, FourDistinct
  <2> DEFINE t == p \o (q \o (b \o z))
  <2>4. Moved(s, first, last, dst) = t
    <3>1. MovedGoesRight(p, q, b, z)
      BY <2>3, MovedRight
    <3>2. QED
      BY <2>2, <3>1 DEF MovedGoesRight
  <2>5. CASE first = last
    <3>1. Refuses(file, first, last, dst)
      BY <2>5 DEF Refuses
    <3>2. s = t
      BY <1>1, <2>2, <2>5, EmptyBlock
    <3>3. QED
      BY <2>4, <3>1, <3>2
  <2>6. CASE first # last
    <3>1. Len(b) # 0 /\ Len(q) # 0
      BY <1>1, <1>4, <2>2, <2>6
    <3>2. ~ Index(first, last, dst) < 0
      BY <1>1, <1>4, RecordSizeAssumption DEF Index
    <3>3. ~ Refuses(file, first, last, dst)
      BY <1>1, <1>4, <2>6, <3>2 DEF Refuses
    <3>4. Move(file, first, last, dst) = Bytes(t)
      <4>1. MoveGoesRight(p, q, b, z)
        BY <3>1, MovesRight
      <4>2. QED
        BY <2>2, <4>1 DEF MoveGoesRight
    <3>5. t \in Seq(Ids)
      <4>1. FourParts(Ids, p, q, b, z)
        BY FourConcat
      <4>2. QED
        BY <4>1 DEF FourParts
    <3> HIDE DEF t
    <3>6. Records(Bytes(t)) = t
      BY <3>5, RecordsOfBytes
    <3>7. QED
      BY <2>4, <3>3, <3>4, <3>6
  <2>7. QED
    BY <2>5, <2>6
<1>5. \A first, last, dst \in 0 .. n : first <= last => AsPromised(first, last, dst)
  <2> HIDE DEF AsPromised
  <2> TAKE first, last, dst \in 0 .. n
  <2>1. dst < first \/ (first <= dst /\ dst <= last) \/ last < dst
    BY <1>1
  <2>2. QED
    BY <1>2, <1>3, <1>4, <2>1
<1>6. QED
  BY <1>1, <1>5 DEF MoveIsRight, Positions

-----------------------------------------------------------------------------
\* Searching.  The places are those of n records, and G are the ones searched for.

Ranges(n) == [begin : 0 .. n, end : 0 .. n]

\* r is the first run of places of G from the place i; it is empty, at n, when
\* there is none.
RangeAt(n, G, i, r) ==
    /\ r \in Ranges(n)
    /\ i <= r.begin /\ r.begin <= r.end
    /\ \A p \in G : p >= i => p >= r.begin
    /\ r.begin .. r.end - 1 \subseteq G
    /\ r.end \notin G
    /\ r.begin < n => r.begin < r.end

Places(s, S) == {p \in 0 .. Len(s) - 1 : s[p + 1] \in S}

LEMMA FindsRange ==
    ASSUME NEW s \in Seq(Ids), NEW S, NEW first \in 0 .. Len(s)
    PROVE  RangeAt(Len(s), Places(s, S), first, FindRange(Bytes(s), first, S))
<1> DEFINE n == Len(s)
           G == Places(s, S)
           bytes == Bytes(s)
           Starts == {i \in first .. n - 1 : Record(bytes, i) \in S}
           b == IF Starts = {} THEN n ELSE Min(Starts)
           Ends == {j \in b .. n - 1 : Record(bytes, j) \notin S}
           e == Min(Ends \cup {n})
           r == FindRange(bytes, first, S)
<1>1. n \in Nat /\ Size(bytes) = n /\ \A i \in 0 .. n - 1 : Record(bytes, i) \in S <=> i \in G
  <2>1. \A i \in 0 .. n - 1 : Record(bytes, i) = s[i + 1]
    BY RecordsOfBytes
  <2>2. n \in Nat
    BY LenProperties
  <2>3. QED
    BY <2>1, <2>2, RecordsOfBytes DEF Places
<1>2. r = [begin |-> b, end |-> e]
  BY <1>1 DEF FindRange
<1>3. G \subseteq 0 .. n - 1
  BY DEF Places
<1> HIDE DEF n, G, bytes, r
<1>4. Starts = {i \in first .. n - 1 : i \in G} /\ first \in 0 .. n
  BY <1>1 DEF n
<1>5. /\ b \in first .. n
      /\ \A p \in G : p >= first => p >= b
      /\ b < n => b \in G
  <2>1. CASE Starts = {}
    <3>1. b = n
      BY <2>1
    <3> HIDE DEF b
    <3>2. QED
      BY <1>1, <1>3, <1>4, <2>1, <3>1
  <2>2. CASE Starts # {}
    <3>1. Starts \in SUBSET Nat
      BY <1>1, <1>4
    <3>2. Min(Starts) \in Starts /\ \A y \in Starts : Min(Starts) <= y
      <4> HIDE DEF Starts
      <4>1. QED
        BY <2>2, <3>1, MinIs
    <3>3. b = Min(Starts)
      BY <2>2
    <3> HIDE DEF b, Starts
    <3>4. b \in Starts /\ \A y \in Starts : b <= y
      BY <3>2, <3>3
    <3>5. QED
      BY <1>1, <1>3, <1>4, <3>4
  <2>3. QED
    BY <2>1, <2>2
<1> HIDE DEF b, Starts
<1>6. Ends = {j \in b .. n - 1 : j \notin G}
  BY <1>1, <1>4, <1>5
<1>7. e \in Ends \cup {n} /\ \A y \in Ends \cup {n} : e <= y
  <2> DEFINE T == Ends \cup {n}
  <2>1. T \in SUBSET Nat /\ T # {}
    BY <1>1, <1>4, <1>5
  <2> HIDE DEF T
  <2>2. Min(T) \in T /\ \A y \in T : Min(T) <= y
    BY <2>1, MinIs
  <2>3. QED
    BY <2>2 DEF T
<1> HIDE DEF Ends, e
<1>8. /\ e \in b .. n
      /\ b .. e - 1 \subseteq G
      /\ e \notin G
      /\ b < n => b < e
  BY <1>1, <1>3, <1>4, <1>5, <1>6, <1>7
<1>9. r \in Ranges(n) /\ r.begin = b /\ r.end = e
  BY <1>1, <1>2, <1>4, <1>5, <1>8 DEF Ranges
<1>10. RangeAt(n, G, first, r)
  BY <1>1, <1>4, <1>5, <1>8, <1>9 DEF RangeAt
<1>11. QED
  BY <1>10 DEF n, G, bytes, r

\* rs are all the runs of places of G from the place i, in order.
RunsFrom(n, G, rs, i) ==
    /\ rs \in Seq(Ranges(n))
    /\ \A k \in 1 .. Len(rs) :
          /\ i <= rs[k].begin /\ rs[k].begin < rs[k].end
          /\ rs[k].begin .. rs[k].end - 1 \subseteq G
          /\ rs[k].end \notin G
          /\ rs[k].begin = i \/ rs[k].begin - 1 \notin G
    /\ \A j, k \in 1 .. Len(rs) : j < k => rs[j].end < rs[k].begin
    /\ \A p \in G : p >= i => \E k \in 1 .. Len(rs) : rs[k].begin <= p /\ p < rs[k].end

LEMMA NoRuns ==
    ASSUME NEW n \in Nat, NEW G \in SUBSET (0 .. n - 1), NEW i \in 0 .. n, NEW r,
           RangeAt(n, G, i, r), ~ (i # n /\ r.end > r.begin)
    PROVE  RunsFrom(n, G, <<>>, i)
<1>1. \A p \in G : ~ (p >= i)
  BY DEF RangeAt, Ranges
<1>2. <<>> \in Seq(Ranges(n)) /\ Len(<<>>) = 0
  BY EmptySeq
<1> DEFINE none == <<>>
<1> HIDE DEF none
<1>3. none \in Seq(Ranges(n)) /\ Len(none) = 0
  BY <1>2 DEF none
<1>4. RunsFrom(n, G, none, i)
  BY <1>1, <1>3 DEF RunsFrom
<1>5. QED
  BY <1>4 DEF none

LEMMA OneRunMore ==
    ASSUME NEW n \in Nat, NEW G \in SUBSET (0 .. n - 1), NEW i \in 0 .. n, NEW r, NEW rest,
           RangeAt(n, G, i, r), r.end > r.begin, RunsFrom(n, G, rest, r.end)
    PROVE  RunsFrom(n, G, <<r>> \o rest, i)
<1> DEFINE one == <<r>>
           rs == one \o rest
           m == Len(rest)
<1>1. r \in Ranges(n) /\ rest \in Seq(Ranges(n)) /\ r.begin \in i .. n /\ r.end \in 0 .. n
  BY DEF RangeAt, RunsFrom, Ranges
<1>2. one \in Seq(Ranges(n)) /\ Len(one) = 1 /\ one[1] = r
  BY <1>1
<1> HIDE DEF one
<1>3. rs \in Seq(Ranges(n)) /\ Len(rs) = 1 + m /\ m \in Nat
  BY <1>1, <1>2, ConcatProperties, LenProperties, ZenonT(30)
<1>4. \A k \in 1 .. 1 + m : rs[k] = IF k <= 1 THEN one[k] ELSE rest[k - 1]
  <2>1. one \in Seq(Ranges(n)) /\ rest \in Seq(Ranges(n))
    BY <1>1, <1>2
  <2>2. \A k \in 1 .. Len(one) + Len(rest) :
            rs[k] = IF k <= Len(one) THEN one[k] ELSE rest[k - Len(one)]
    BY <2>1, ConcatProperties
  <2>3. QED
    BY <1>2, <2>2
<1>5. rs[1] = r /\ \A k \in 1 .. m : rs[k + 1] = rest[k]
  BY <1>2, <1>3, <1>4
<1>6. \A k \in 1 .. 1 + m : k = 1 \/ (k - 1 \in 1 .. m /\ rs[k] = rest[k - 1])
  BY <1>3, <1>4
<1> HIDE DEF rs, m
<1>7. \A k \in 1 .. m : /\ rest[k].begin \in 0 .. n /\ rest[k].end \in 0 .. n
                        /\ r.end < rest[k].begin /\ rest[k].begin < rest[k].end
                        /\ rest[k].begin .. rest[k].end - 1 \subseteq G
                        /\ rest[k].end \notin G
                        /\ rest[k].begin - 1 \notin G
  <2> TAKE k \in 1 .. m
  <2>1. rest[k] \in Ranges(n)
    BY <1>1, ElementOfSeq DEF m
  <2>2. /\ r.end <= rest[k].begin /\ rest[k].begin < rest[k].end
        /\ rest[k].begin .. rest[k].end - 1 \subseteq G
        /\ rest[k].end \notin G
        /\ rest[k].begin = r.end \/ rest[k].begin - 1 \notin G
    BY DEF RunsFrom, m
  <2>3. rest[k].begin \in G
    BY <2>1, <2>2 DEF Ranges
  <2>4. rest[k].begin # r.end
    BY <2>3 DEF RangeAt
  <2>5. QED
    BY <1>1, <2>1, <2>2, <2>4 DEF Ranges
<1>8. ASSUME NEW k \in 1 .. 1 + m
      PROVE  /\ i <= rs[k].begin /\ rs[k].begin < rs[k].end
             /\ rs[k].begin .. rs[k].end - 1 \subseteq G
             /\ rs[k].end \notin G
             /\ rs[k].begin = i \/ rs[k].begin - 1 \notin G
  <2>1. CASE k = 1
    <3>1. /\ i <= r.begin /\ r.begin < r.end /\ r.begin .. r.end - 1 \subseteq G /\ r.end \notin G
      BY <1>1 DEF RangeAt
    <3>2. r.begin = i \/ r.begin - 1 \notin G
      BY <1>1 DEF RangeAt
    <3>3. QED
      BY <1>5, <2>1, <3>1, <3>2
  <2>2. CASE k # 1
    <3> DEFINE t == rest[k - 1]
    <3>1. rs[k] = t /\ k - 1 \in 1 .. m
      BY <1>6, <2>2
    <3>2. /\ t.begin \in 0 .. n /\ r.end < t.begin /\ t.begin < t.end
          /\ t.begin .. t.end - 1 \subseteq G /\ t.end \notin G /\ t.begin - 1 \notin G
      BY <1>7, <3>1
    <3> HIDE DEF t
    <3>3. i <= r.end /\ i \in Int /\ r.end \in Int
      BY <1>1 DEF RangeAt
    <3>4. i <= t.begin
      BY <3>2, <3>3
    <3>5. QED
      BY <3>1, <3>2, <3>4
  <2>3. QED
    BY <2>1, <2>2
<1>9. ASSUME NEW j \in 1 .. 1 + m, NEW k \in 1 .. 1 + m, j < k PROVE rs[j].end < rs[k].begin
  <2>1. k - 1 \in 1 .. m /\ rs[k] = rest[k - 1]
    BY <1>6, <1>9
  <2>2. CASE j = 1
    BY <1>5, <1>7, <2>1, <2>2
  <2>3. CASE j # 1
    <3>1. j - 1 \in 1 .. m /\ rs[j] = rest[j - 1] /\ j - 1 < k - 1
      BY <1>6, <1>9, <2>1, <2>3
    <3>2. QED
      BY <2>1, <3>1 DEF RunsFrom, m
  <2>4. QED
    BY <2>2, <2>3
<1>10. ASSUME NEW p \in G, p >= i
       PROVE  \E k \in 1 .. 1 + m : rs[k].begin <= p /\ p < rs[k].end
  <2>1. r.begin <= p /\ p \in 0 .. n - 1
    BY <1>10, <1>1 DEF RangeAt, Ranges
  <2>2. CASE p < r.end
    <3>1. 1 \in 1 .. 1 + m
      BY <1>3
    <3>2. QED
      BY <1>5, <2>1, <2>2, <3>1
  <2>3. CASE p >= r.end
    <3>1. PICK k \in 1 .. m : rest[k].begin <= p /\ p < rest[k].end
      BY <2>3 DEF RunsFrom, m
    <3>2. k + 1 \in 1 .. 1 + m /\ rs[k + 1] = rest[k]
      BY <1>3, <1>5
    <3>3. QED
      BY <3>1, <3>2
  <2>4. QED
    BY <1>1, <2>1, <2>2, <2>3
<1>11. RunsFrom(n, G, rs, i)
  BY <1>3, <1>8, <1>9, <1>10 DEF RunsFrom
<1>12. QED
  BY <1>11 DEF rs, one

\* What findAllRanges has found from a place, for what it has found from the next.
Ranging(bytes, S, f, i) ==
    LET r == FindRange(bytes, i, S)
    IN  IF i # Size(bytes) /\ r.end > r.begin THEN <<r>> \o f[r.end] ELSE <<>>

LEMMA FindsAllRanges ==
    ASSUME NEW s \in Seq(Ids), NEW S
    PROVE  RunsFrom(Len(s), Places(s, S), FindAllRanges(Bytes(s), S), 0)
<1> DEFINE bytes == Bytes(s)
           n == Size(bytes)
           G == Places(s, S)
           R(i) == FindRange(bytes, i, S)
           More(i) == i # n /\ R(i).end > R(i).begin
           From == CHOOSE f : f = [i \in 0 .. n |-> Ranging(bytes, S, f, i)]
           X == Seq(Ranges(n))
           Stop == {i \in 0 .. n : ~ More(i)}
           next == [i \in 0 .. n |-> [x \in X |-> <<R(i)>> \o x]]
           jump == [i \in 0 .. n |-> R(i).end]
           none == <<>>
<1>1. n = Len(s) /\ n \in Nat /\ G \subseteq 0 .. n - 1
  <2>1. n = Len(s) /\ n \in Nat
    BY RecordsOfBytes, LenProperties
  <2>2. QED
    BY <2>1 DEF Places
<1>2. \A i \in 0 .. n : RangeAt(n, G, i, R(i))
  <2> HIDE DEF n
  <2>1. QED
    BY <1>1, FindsRange
<1>3. FindAllRanges(bytes, S) = From[0]
  BY DEF FindAllRanges, Ranging
<1>4. \A f, i : Ranging(bytes, S, f, i) = IF More(i) THEN <<R(i)>> \o f[R(i).end] ELSE none
  BY DEF Ranging
<1> HIDE DEF n, R, From, bytes, G
<1>5. \A i \in 0 .. n : R(i).end \in 0 .. n /\ (More(i) => R(i).end > i)
  <2> TAKE i \in 0 .. n
  <2>1. R(i) \in Ranges(n) /\ i <= R(i).begin
    BY <1>2 DEF RangeAt
  <2>2. R(i).end \in 0 .. n /\ R(i).begin \in 0 .. n
    BY <2>1 DEF Ranges
  <2>3. QED
    BY <1>1, <2>1, <2>2
<1>51. \A i \in 0 .. n, x \in X : <<R(i)>> \o x \in X
  <2> TAKE i \in 0 .. n
  <2> DEFINE one == <<R(i)>>
  <2>1. R(i) \in Ranges(n)
    BY <1>2 DEF RangeAt
  <2>2. one \in X
    BY <2>1
  <2> HIDE DEF one
  <2>3. \A x \in X : one \o x \in X
    BY <2>2, ConcatProperties
  <2>4. QED
    BY <2>3 DEF one
<1>50. none \in X
  BY EmptySeq
<1>6. \E f \in [0 .. n -> X] : \A i \in 0 .. n : f[i] = Ranging(bytes, S, f, i)
  <2>1. next \in [0 .. n -> [X -> X]]
    <3> HIDE DEF X
    <3>1. QED
      BY <1>51
  <2>2. jump \in [0 .. n -> 0 .. n] /\ \A i \in 0 .. n : i \notin Stop => jump[i] > i
    <3> HIDE DEF More
    <3>1. \A i \in 0 .. n : R(i).end \in 0 .. n /\ (i \notin Stop => R(i).end > i)
      BY <1>5
    <3>2. \A i \in 0 .. n : jump[i] = R(i).end
      OBVIOUS
    <3>3. jump \in [0 .. n -> 0 .. n]
      BY <3>1
    <3> HIDE DEF jump, Stop
    <3>4. QED
      BY <3>1, <3>2, <3>3
  <2>3. PICK f \in [0 .. n -> X] : Jumps(f, n, Stop, none, jump, next)
    <3> HIDE DEF X, Stop, jump, next, none
    <3>1. \E f \in [0 .. n -> X] : Jumps(f, n, Stop, none, jump, next)
      BY <1>1, <1>50, <2>1, <2>2, BackwardRecursion
    <3>2. QED
      BY <3>1
  <2>4. ASSUME NEW i \in 0 .. n PROVE f[i] = Ranging(bytes, S, f, i)
    <3>1. f[i] = IF i \in Stop THEN none ELSE next[i][f[jump[i]]]
      <4> HIDE DEF X, Stop, jump, next, none
      <4>1. QED
        BY <2>3 DEF Jumps
    <3>2. jump[i] = R(i).end /\ f[R(i).end] \in X
      <4>1. jump[i] = R(i).end /\ R(i).end \in 0 .. n
        BY <1>5
      <4> HIDE DEF X, jump, Stop, next, More
      <4>2. QED
        BY <4>1
    <3>3. next[i][f[R(i).end]] = <<R(i)>> \o f[R(i).end]
      <4> HIDE DEF X
      <4>1. QED
        BY <3>2
    <3>4. i \in Stop <=> ~ More(i)
      OBVIOUS
    <3>5. f[i] = IF More(i) THEN <<R(i)>> \o f[R(i).end] ELSE none
      <4> HIDE DEF X, Stop, jump, next, none, More
      <4>1. QED
        BY <3>1, <3>2, <3>3, <3>4
    <3>6. QED
      BY <1>4, <3>5
  <2>5. QED
    BY <2>4
<1>7. From = [i \in 0 .. n |-> Ranging(bytes, S, From, i)]
  <2> HIDE DEF X
  <2>1. \E f : f = [i \in 0 .. n |-> Ranging(bytes, S, f, i)]
    <3>1. PICK f \in [0 .. n -> X] : \A i \in 0 .. n : f[i] = Ranging(bytes, S, f, i)
      BY <1>6
    <3>2. f = [i \in 0 .. n |-> Ranging(bytes, S, f, i)]
      BY <3>1
    <3>3. QED
      BY <3>2
  <2>2. QED
    BY <2>1, Zenon DEF From
<1>8. \A i \in 0 .. n : From[i] = Ranging(bytes, S, From, i)
  <2> TAKE i \in 0 .. n
  <2>1. [j \in 0 .. n |-> Ranging(bytes, S, From, j)][i] = Ranging(bytes, S, From, i)
    OBVIOUS
  <2>2. QED
    BY <1>7, <2>1, Zenon
<1>9. \A i \in 0 .. n : From[i] = IF More(i) THEN <<R(i)>> \o From[R(i).end] ELSE none
  <2> HIDE DEF More, none
  <2>1. QED
    BY <1>4, <1>8
<1> DEFINE T == {i \in 0 .. n : RunsFrom(n, G, From[i], i)}
<1>10. \A i \in 0 .. n : (\A j \in i + 1 .. n : j \in T) => i \in T
  <2> TAKE i \in 0 .. n
  <2> HAVE \A j \in i + 1 .. n : j \in T
  <2>1. CASE More(i)
    <3>1. R(i).end > R(i).begin /\ R(i).end \in i + 1 .. n
      <4>1. R(i).end \in 0 .. n /\ R(i).end > i
        BY <1>5, <2>1
      <4>2. R(i).end > R(i).begin
        BY <2>1
      <4> DEFINE e == R(i).end
      <4> HIDE DEF e, n
      <4>3. e \in i + 1 .. n
        BY <1>1, <4>1 DEF e
      <4>4. QED
        BY <4>2, <4>3 DEF e
    <3>2. RunsFrom(n, G, From[R(i).end], R(i).end)
      BY <3>1
    <3>3. RunsFrom(n, G, <<R(i)>> \o From[R(i).end], i)
      <4> DEFINE r == R(i)
                 rest == From[R(i).end]
      <4>1. RangeAt(n, G, i, r) /\ r.end > r.begin /\ RunsFrom(n, G, rest, r.end)
        BY <1>2, <3>1, <3>2
      <4> HIDE DEF r, rest
      <4>2. RunsFrom(n, G, <<r>> \o rest, i)
        BY <1>1, <4>1, OneRunMore
      <4>3. QED
        BY <4>2 DEF r, rest
    <3>4. From[i] = <<R(i)>> \o From[R(i).end]
      BY <1>9, <2>1
    <3>5. QED
      BY <3>3, <3>4
  <2>2. CASE ~ More(i)
    <3> DEFINE r == R(i)
    <3>1. RangeAt(n, G, i, r) /\ ~ (i # n /\ r.end > r.begin)
      BY <1>2, <2>2
    <3> HIDE DEF r
    <3>2. RunsFrom(n, G, <<>>, i)
      BY <1>1, <3>1, NoRuns
    <3>3. From[i] = none
      BY <1>9, <2>2
    <3>4. QED
      BY <3>2, <3>3
  <2>3. QED
    BY <2>1, <2>2
<1>11. 0 \in T
  <2> HIDE DEF T
  <2>1. 0 .. n \subseteq T
    BY <1>1, <1>10, BackwardInductive
  <2>2. QED
    BY <1>1, <2>1
<1>12. RunsFrom(n, G, From[0], 0)
  BY <1>11
<1>13. QED
  BY <1>1, <1>3, <1>12 DEF G, bytes

\* Runs of records are runs of places.
LEMMA RunOf ==
    ASSUME NEW s \in Seq(Ids), NEW S, NEW b \in 0 .. Len(s), NEW e \in 0 .. Len(s)
    PROVE  Run(Bytes(s), S, b, e) <=>
               /\ b < e
               /\ b .. e - 1 \subseteq Places(s, S)
               /\ b = 0 \/ b - 1 \notin Places(s, S)
               /\ e \notin Places(s, S)
<1> DEFINE n == Len(s)
           G == Places(s, S)
           bytes == Bytes(s)
<1>1. n \in Nat /\ Size(bytes) = n /\ \A i \in 0 .. n - 1 : Record(bytes, i) \in S <=> i \in G
  <2>1. \A i \in 0 .. n - 1 : Record(bytes, i) = s[i + 1]
    BY RecordsOfBytes
  <2>2. n \in Nat
    BY LenProperties
  <2>3. QED
    BY <2>1, <2>2, RecordsOfBytes DEF Places
<1>2. G \subseteq 0 .. n - 1 /\ b \in 0 .. n /\ e \in 0 .. n
  BY DEF Places
<1> HIDE DEF n, G, bytes
<1>3. \A i \in b .. e - 1 : i \in 0 .. n - 1
  BY <1>1, <1>2
<1>4. (\A i \in b .. e - 1 : Record(bytes, i) \in S) <=> b .. e - 1 \subseteq G
  BY <1>1, <1>3
<1>5. (b = 0 \/ Record(bytes, b - 1) \notin S) <=> (b = 0 \/ b - 1 \notin G)
  <2>1. b = 0 \/ b - 1 \in 0 .. n - 1
    BY <1>1, <1>2
  <2>2. QED
    BY <1>1, <2>1
<1>6. (e = Size(bytes) \/ Record(bytes, e) \notin S) <=> e \notin G
  <2>1. e = n \/ e \in 0 .. n - 1
    BY <1>1, <1>2
  <2>2. QED
    BY <1>1, <1>2, <2>1
<1>7. Run(bytes, S, b, e) <=>
          b < e /\ b .. e - 1 \subseteq G /\ (b = 0 \/ b - 1 \notin G) /\ e \notin G
  BY <1>4, <1>5, <1>6 DEF Run
<1>8. QED
  BY <1>7 DEF G, bytes

LEMMA SearchingIsRight ==
    ASSUME NEW s \in Seq(Ids), file = Bytes(s)
    PROVE  RangesAreRuns
<1> DEFINE n == Len(s)
<1>1. n \in Nat /\ Size(file) = n
  BY RecordsOfBytes, LenProperties
<1>2. Positions = 0 .. n
  BY <1>1 DEF Positions
<1> SUFFICES ASSUME NEW S \in SUBSET Ids
             PROVE  LET all == FindAllRanges(file, S)
                    IN /\ {<<all[k].begin, all[k].end>> : k \in DOMAIN all}
                             = {r \in Positions \X Positions : Run(file, S, r[1], r[2])}
                       /\ \A k \in 1 .. Len(all) - 1 : all[k].end < all[k + 1].begin
  BY DEF RangesAreRuns
<1> DEFINE all == FindAllRanges(file, S)
           G == Places(s, S)
           IsRun(b, e) == b < e /\ b .. e - 1 \subseteq G /\ (b = 0 \/ b - 1 \notin G) /\ e \notin G
<1>3. \A b, e \in 0 .. n : Run(file, S, b, e) <=> IsRun(b, e)
  BY RunOf
<1>4. RunsFrom(n, G, all, 0)
  BY FindsAllRanges
<1>5. G \subseteq 0 .. n - 1
  BY DEF Places
<1> HIDE DEF all, n, G
<1>6. all \in Seq(Ranges(n)) /\ Len(all) \in Nat /\ DOMAIN all = 1 .. Len(all)
  BY <1>4, LenProperties DEF RunsFrom
<1>7. \A k \in 1 .. Len(all) : all[k].begin \in 0 .. n /\ all[k].end \in 0 .. n
  <2> TAKE k \in 1 .. Len(all)
  <2>1. all[k] \in Ranges(n)
    BY <1>6, ElementOfSeq
  <2>2. QED
    BY <2>1 DEF Ranges
<1>8. \A k \in 1 .. Len(all) : IsRun(all[k].begin, all[k].end)
  BY <1>4, <1>7 DEF RunsFrom
<1>9. ASSUME NEW b \in 0 .. n, NEW e \in 0 .. n, IsRun(b, e)
      PROVE  \E k \in 1 .. Len(all) : all[k].begin = b /\ all[k].end = e
  <2>1. b \in G /\ b >= 0
    BY <1>1, <1>9
  <2>2. PICK k \in 1 .. Len(all) : all[k].begin <= b /\ b < all[k].end
    BY <1>4, <2>1 DEF RunsFrom
  <2> DEFINE x == all[k].begin
             y == all[k].end
  <2>3. x \in 0 .. n /\ y \in 0 .. n /\ IsRun(x, y) /\ x <= b /\ b < y
    BY <1>7, <1>8, <2>2
  <2> HIDE DEF x, y
  <2>4. x = b
    <3>1. SUFFICES ASSUME x # b PROVE FALSE
      OBVIOUS
    <3>2. b - 1 \in x .. y - 1
      BY <1>1, <2>3, <3>1
    <3>3. QED
      BY <1>1, <1>9, <2>3, <3>1, <3>2
  <2>5. y = e
    <3>1. ~ (y < e)
      <4>1. y < e => y \in b .. e - 1
        BY <1>1, <2>3
      <4>2. QED
        BY <1>9, <2>3, <4>1
    <3>2. ~ (e < y)
      <4>1. e < y => e \in x .. y - 1
        BY <1>1, <1>9, <2>3, <2>4
      <4>2. QED
        BY <1>9, <2>3, <4>1
    <3>3. QED
      BY <1>1, <2>3, <3>1, <3>2
  <2>6. QED
    BY <2>4, <2>5 DEF x, y
<1>10. {<<all[k].begin, all[k].end>> : k \in DOMAIN all}
           = {r \in Positions \X Positions : Run(file, S, r[1], r[2])}
  <2> DEFINE A == {<<all[k].begin, all[k].end>> : k \in DOMAIN all}
             B == {r \in Positions \X Positions : Run(file, S, r[1], r[2])}
  <2>1. ASSUME NEW k \in DOMAIN all PROVE <<all[k].begin, all[k].end>> \in B
    BY <1>2, <1>3, <1>6, <1>7, <1>8
  <2>2. ASSUME NEW r \in B PROVE r \in A
    <3>1. PICK b \in 0 .. n, e \in 0 .. n : r = <<b, e>> /\ Run(file, S, b, e)
      BY <1>2
    <3>2. IsRun(b, e)
      BY <1>3, <3>1
    <3>3. PICK k \in 1 .. Len(all) : all[k].begin = b /\ all[k].end = e
      BY <1>9, <3>2
    <3>4. QED
      BY <1>6, <3>1, <3>3
  <2>3. A \subseteq B
    BY <2>1
  <2>4. QED
    BY <2>2, <2>3
<1>11. ASSUME NEW k \in 1 .. Len(all) - 1 PROVE all[k].end < all[k + 1].begin
  <2>1. k \in 1 .. Len(all) /\ k + 1 \in 1 .. Len(all) /\ k < k + 1
    BY <1>6
  <2>2. QED
    BY <1>4, <2>1 DEF RunsFrom
<1>12. QED
  BY <1>10, <1>11 DEF all

-----------------------------------------------------------------------------
\* Removing what was found.

Regrouped(p, q, b, z) == (p \o (q \o b)) \o z = p \o (q \o (b \o z))

LEMMA Regroups ==
    ASSUME NEW T, NEW p \in Seq(T), NEW q \in Seq(T), NEW b \in Seq(T), NEW z \in Seq(T)
    PROVE  Regrouped(p, q, b, z)
<1> DEFINE d == q \o b
<1>1. d \in Seq(T)
  BY ConcatProperties
<1> HIDE DEF d
<1>2. Associated(p, d, z) /\ Associated(q, b, z)
  BY <1>1, Associates
<1>3. d \o z = q \o (b \o z)
  BY <1>2 DEF Associated, d
<1>4. (p \o d) \o z = p \o (d \o z)
  BY <1>2 DEF Associated
<1>5. (p \o d) \o z = p \o (q \o (b \o z))
  BY <1>3, <1>4
<1>6. QED
  BY <1>5 DEF Regrouped, d

\* s is what is left of F when the records of W behind the place e are gone.
SweptTo(s, F, W, e) ==
    s = SubSeq(F, 1, e) \o Filter(SubSeq(F, e + 1, Len(F)), Ids \ W)

\* s is left of the records p, q, b, z when those of W in z are gone.
LEMMA SweptParts ==
    ASSUME NEW a \in Seq(Ids), NEW z \in Seq(Ids), NEW W
    PROVE  \A s : SweptTo(s, a \o z, W, Len(a)) <=> s = a \o Filter(z, Ids \ W)
<1> DEFINE F == a \o z
<1>1. SubSeq(F, 1, Len(a)) = a /\ SubSeq(F, Len(a) + 1, Len(F)) = z
  BY PartsOfConcat
<1> HIDE DEF F
<1>2. \A s : SweptTo(s, F, W, Len(a)) <=> s = a \o Filter(z, Ids \ W)
  BY <1>1 DEF SweptTo
<1>3. QED
  BY <1>2 DEF F

\* What the removal of the records b leaves of s.
SweepGoesOn(p, q, b, z, W, t) ==
    /\ t \in Seq(Ids)
    /\ SweptTo(t, p \o (q \o (b \o z)), W, Len(p))
    /\ \A s : SweptTo(s, p \o (q \o (b \o z)), W, Len(p) + Len(q) + Len(b)) =>
          /\ Erase(Bytes(s), Len(p) + Len(q), Len(p) + Len(q) + Len(b)) = Bytes(t)
          /\ Distinct(s) => Distinct(t)

LEMMA SweepingOn ==
    ASSUME NEW p \in Seq(Ids), NEW q \in Seq(Ids), NEW b \in Seq(Ids), NEW z \in Seq(Ids),
           NEW W, Elements(q) \cap W = {}, Elements(b) \subseteq W
    PROVE  \E t : SweepGoesOn(p, q, b, z, W, t)
<1> DEFINE K == Ids \ W
           R == Filter(z, K)
           x == q \o b
           d == p \o x
           c == b \o z
           y == q \o c
           F == p \o y
           g == p \o q
           t == g \o R
<1>1. R \in Seq(Ids)
  BY FilterType
<1> HIDE DEF R
<1>2. /\ x \in Seq(Ids) /\ c \in Seq(Ids) /\ g \in Seq(Ids)
      /\ Len(x) = Len(q) + Len(b) /\ Len(g) = Len(p) + Len(q)
      /\ Len(p) \in Nat /\ Len(q) \in Nat /\ Len(b) \in Nat
  BY ConcatProperties, LenProperties
<1> HIDE DEF x, c, g
<1>3. d \in Seq(Ids) /\ Len(d) = Len(p) + Len(x) /\ y \in Seq(Ids) /\ t \in Seq(Ids)
  BY <1>1, <1>2, ConcatProperties
<1>4. d \o z = F
  <2>1. Regrouped(p, q, b, z)
    BY Regroups
  <2>2. QED
    BY <2>1 DEF Regrouped, x, c
<1>5. d \o R = g \o (b \o R)
  <2>1. Regrouped(p, q, b, R) /\ FourParts(Ids, p, q, b, R)
    BY <1>1, Regroups, FourConcat
  <2>2. (p \o (q \o b)) \o R = p \o (q \o (b \o R))
    BY <2>1 DEF Regrouped
  <2>3. p \o (q \o (b \o R)) = (p \o q) \o (b \o R)
    BY <2>1 DEF FourParts
  <2>4. QED
    BY <2>2, <2>3 DEF x, g
<1>6. Len(d) = Len(p) + Len(q) + Len(b) /\ Len(g) + Len(b) = Len(p) + Len(q) + Len(b)
  BY <1>2, <1>3
<1>7. Filter(y, K) = q \o R
  <2>1. Filter(b, K) = <<>>
    <3>1. Elements(b) \cap K = {}
      OBVIOUS
    <3> HIDE DEF K
    <3>2. QED
      BY <3>1, FilterNone
  <2>2. Filter(q, K) = q
    <3>1. Elements(q) \subseteq Ids
      BY ElementOfSeq, LenProperties DEF Elements
    <3>2. Elements(q) \subseteq K
      BY <3>1
    <3> HIDE DEF K
    <3>3. QED
      BY <3>2, FilterAll
  <2>3. Filter(c, K) = Filter(b, K) \o Filter(z, K)
    <3> HIDE DEF K
    <3>1. QED
      BY FilterConcat, SMTT(20) DEF c
  <2>4. Filter(c, K) = R
    <3>1. <<>> \o R = R
      BY <1>1, ConcatEmptySeq
    <3>2. QED
      BY <2>1, <2>3, <3>1 DEF R
  <2>5. Filter(y, K) = Filter(q, K) \o Filter(c, K)
    <3> HIDE DEF K, d, y, F, t
    <3>1. c \in Seq(Ids)
      BY <1>2
    <3>2. FiltersApart(q, c, K)
      BY <3>1, FilterApart
    <3>3. QED
      BY <3>2 DEF FiltersApart, y
  <2>6. QED
    BY <2>2, <2>4, <2>5
<1>8. t = p \o (q \o R)
  <2>1. Associated(p, q, R)
    BY <1>1, Associates
  <2>2. QED
    BY <2>1 DEF Associated, g
<1> HIDE DEF d, y
<1>9. SweptTo(t, F, W, Len(p))
  <2>1. \A u : SweptTo(u, p \o y, W, Len(p)) <=> u = p \o Filter(y, K)
    <3>1. y \in Seq(Ids)
      BY <1>3
    <3> HIDE DEF t, F
    <3>2. QED
      BY <3>1, SweptParts
  <2>2. t = p \o Filter(y, K)
    BY <1>7, <1>8
  <2> HIDE DEF t, K
  <2>3. QED
    BY <2>1, <2>2
<1>10. ASSUME NEW s, SweptTo(s, F, W, Len(d)) PROVE s = g \o (b \o R)
  <2>1. SweptTo(s, d \o z, W, Len(d)) <=> s = d \o Filter(z, K)
    BY <1>3, SweptParts
  <2>2. s = d \o R
    BY <1>4, <1>10, <2>1 DEF R
  <2>3. QED
    BY <1>5, <2>2
<1>11. Erase(Bytes(g \o (b \o R)), Len(g), Len(g) + Len(b)) = Bytes(t)
  BY <1>1, <1>2, ErasesRecords
<1>12. Distinct(g \o (b \o R)) => Distinct(t)
  <2> DEFINE u == b \o R
  <2>1. u \in Seq(Ids) /\ Elements(u) = Elements(b) \cup Elements(R)
        /\ (Distinct(u) <=> Distinct(b) /\ Distinct(R) /\ Elements(b) \cap Elements(R) = {})
    BY <1>1, ConcatProperties, ElementsConcat, DistinctConcat
  <2> HIDE DEF u
  <2>2. Distinct(g \o u) <=> Distinct(g) /\ Distinct(u) /\ Elements(g) \cap Elements(u) = {}
    BY <1>2, <2>1, DistinctConcat
  <2>3. Distinct(t) <=> Distinct(g) /\ Distinct(R) /\ Elements(g) \cap Elements(R) = {}
    BY <1>1, <1>2, DistinctConcat
  <2>4. Distinct(g \o u) => Distinct(t)
    BY <2>1, <2>2, <2>3
  <2>5. QED
    BY <2>4 DEF u
<1> HIDE DEF F, t
<1>13. \A s : SweptTo(s, F, W, Len(p) + Len(q) + Len(b)) =>
           /\ Erase(Bytes(s), Len(p) + Len(q), Len(p) + Len(q) + Len(b)) = Bytes(t)
           /\ Distinct(s) => Distinct(t)
  <2> TAKE s
  <2> HAVE SweptTo(s, F, W, Len(p) + Len(q) + Len(b))
  <2>1. s = g \o (b \o R)
    BY <1>6, <1>10
  <2>2. Len(g) = Len(p) + Len(q) /\ Len(g) + Len(b) = Len(p) + Len(q) + Len(b)
    BY <1>2, <1>6
  <2>3. QED
    BY <1>11, <1>12, <2>1, <2>2
<1>14. SweepGoesOn(p, q, b, z, W, t)
  <2>1. t \in Seq(Ids) /\ SweptTo(t, p \o (q \o (b \o z)), W, Len(p))
    BY <1>3, <1>9 DEF F, y, c
  <2>2. \A s : SweptTo(s, p \o (q \o (b \o z)), W, Len(p) + Len(q) + Len(b)) =>
           /\ Erase(Bytes(s), Len(p) + Len(q), Len(p) + Len(q) + Len(b)) = Bytes(t)
           /\ Distinct(s) => Distinct(t)
    BY <1>13 DEF F, y, c
  <2>3. QED
    BY <2>1, <2>2 DEF SweepGoesOn
<1>15. QED
  BY <1>14

\* How far the ranges reach.
EndOf(rs) == IF rs = <<>> THEN 0 ELSE rs[Len(rs)].end

\* rs are the runs of places of G before the end of the last, in order.
Listed(n, G, rs) ==
    /\ rs \in Seq(Ranges(n))
    /\ \A k \in 1 .. Len(rs) :
          /\ rs[k].begin < rs[k].end
          /\ rs[k].begin .. rs[k].end - 1 \subseteq G
    /\ \A j, k \in 1 .. Len(rs) : j < k => rs[j].end < rs[k].begin
    /\ \A p \in G : p < EndOf(rs) => \E k \in 1 .. Len(rs) : rs[k].begin <= p /\ p < rs[k].end

LEMMA EndIsLast ==
    ASSUME NEW n \in Nat, NEW G, NEW rs, Listed(n, G, rs)
    PROVE  /\ EndOf(rs) \in 0 .. n
           /\ \A k \in 1 .. Len(rs) : /\ rs[k].begin \in 0 .. n /\ rs[k].end \in 0 .. n
                                      /\ rs[k].end <= EndOf(rs)
<1> DEFINE m == Len(rs)
<1>1. rs \in Seq(Ranges(n)) /\ m \in Nat
  BY LenProperties DEF Listed
<1>2. \A k \in 1 .. m : rs[k].begin \in 0 .. n /\ rs[k].end \in 0 .. n
  <2> TAKE k \in 1 .. m
  <2>1. rs[k] \in Ranges(n)
    BY <1>1, ElementOfSeq
  <2>2. QED
    BY <2>1 DEF Ranges
<1>3. CASE rs = <<>>
  <2>1. m = 0 /\ EndOf(rs) = 0
    BY <1>1, <1>3, EmptySeq DEF EndOf
  <2>2. QED
    BY <2>1
<1>4. CASE rs # <<>>
  <2>1. m \in 1 .. m /\ EndOf(rs) = rs[m].end
    BY <1>1, <1>4, EmptySeq DEF EndOf
  <2>2. ASSUME NEW k \in 1 .. m PROVE rs[k].end <= EndOf(rs)
    <3>1. k < m => rs[k].end < rs[m].begin /\ rs[m].begin < rs[m].end
      BY <2>1 DEF Listed
    <3>2. k < m \/ k = m
      BY <1>1
    <3>3. QED
      BY <1>2, <2>1, <3>1, <3>2
  <2>3. QED
    BY <1>2, <2>1, <2>2
<1>5. QED
  BY <1>3, <1>4

LEMMA AllListed ==
    ASSUME NEW n \in Nat, NEW G \in SUBSET (0 .. n - 1), NEW rs, RunsFrom(n, G, rs, 0)
    PROVE  Listed(n, G, rs) /\ \A p \in G : p < EndOf(rs)
<1>1. \A p \in G : \E k \in 1 .. Len(rs) : rs[k].begin <= p /\ p < rs[k].end
  BY DEF RunsFrom
<1>2. Listed(n, G, rs)
  BY <1>1 DEF RunsFrom, Listed
<1>3. ASSUME NEW p \in G PROVE p < EndOf(rs)
  <2>1. PICK k \in 1 .. Len(rs) : rs[k].begin <= p /\ p < rs[k].end
    BY <1>1
  <2>2. rs[k].end <= EndOf(rs) /\ EndOf(rs) \in 0 .. n /\ rs[k].end \in 0 .. n
    BY <1>2, EndIsLast
  <2>3. p \in 0 .. n - 1
    OBVIOUS
  <2>4. QED
    BY <2>1, <2>2, <2>3
<1>4. QED
  BY <1>2, <1>3

\* What is listed but for the last range.
LEMMA ListedFront ==
    ASSUME NEW n \in Nat, NEW G \in SUBSET (0 .. n - 1), NEW rs, Listed(n, G, rs), rs # <<>>
    PROVE  /\ Listed(n, G, Front(rs))
           /\ Last(rs).begin \in 0 .. n /\ Last(rs).end \in 0 .. n
           /\ EndOf(Front(rs)) \in 0 .. n /\ EndOf(Front(rs)) <= Last(rs).begin
           /\ Last(rs).begin < Last(rs).end /\ Last(rs).end = EndOf(rs)
           /\ Last(rs).begin .. Last(rs).end - 1 \subseteq G
           /\ \A p \in EndOf(Front(rs)) .. Last(rs).begin - 1 : p \notin G
<1> DEFINE m == Len(rs)
           r == rs[m]
           fs == SubSeq(rs, 1, m - 1)
           e == EndOf(fs)
<1>1. rs \in Seq(Ranges(n)) /\ m \in Nat /\ m # 0
  BY LenProperties, EmptySeq DEF Listed
<1>2. Last(rs) = r /\ Front(rs) = fs
  BY DEF Last, Front
<1>3. fs \in Seq(Ranges(n)) /\ Len(fs) = m - 1 /\ \A k \in 1 .. m - 1 : fs[k] = rs[k]
  <2>1. m - 1 \in 0 .. m /\ 1 \in 1 .. m + 1
    BY <1>1
  <2>2. \A k \in 1 .. m : rs[k] \in Ranges(n)
    BY <1>1, ElementOfSeq
  <2>3. fs = [k \in 1 .. m - 1 |-> rs[k]]
    BY <1>1
  <2> HIDE DEF m
  <2>4. fs \in Seq(Ranges(n)) /\ Len(fs) = m - 1
    BY <1>1, <2>2, <2>3
  <2>5. QED
    BY <2>3, <2>4
<1>4. m \in 1 .. m /\ EndOf(rs) = r.end /\ EndOf(rs) \in 0 .. n
  BY <1>1, EmptySeq, EndIsLast DEF EndOf
<1> HIDE DEF m, fs
<1>5. \A k \in 1 .. m : /\ rs[k].begin \in 0 .. n /\ rs[k].end \in 0 .. n
                        /\ rs[k].begin < rs[k].end
                        /\ rs[k].begin .. rs[k].end - 1 \subseteq G
  BY EndIsLast DEF Listed, m
<1>6. \A j, k \in 1 .. m : j < k => rs[j].end < rs[k].begin
  BY DEF Listed, m
<1>7. r.begin \in 0 .. n /\ r.end \in 0 .. n /\ r.begin < r.end /\ r.begin .. r.end - 1 \subseteq G
  BY <1>4, <1>5
<1>8. /\ e \in 0 .. n /\ e <= r.begin
      /\ \A k \in 1 .. m - 1 : rs[k].end <= e
  <2>1. CASE m = 1
    <3>1. fs = <<>>
      BY <1>3, <2>1, EmptySeq
    <3>2. e = 0
      BY <3>1 DEF EndOf
    <3>3. QED
      BY <1>7, <2>1, <3>2
  <2>2. CASE m # 1
    <3>1. fs # <<>> /\ m - 1 \in 1 .. m /\ m - 1 < m
      BY <1>1, <1>3, <2>2, EmptySeq
    <3>2. e = rs[m - 1].end
      BY <1>1, <1>3, <2>2, <3>1 DEF EndOf
    <3>3. ASSUME NEW k \in 1 .. m - 1 PROVE rs[k].end <= e
      <4>1. k = m - 1 \/ k < m - 1
        BY <1>1
      <4>2. k \in 1 .. m
        BY <1>1
      <4>3. k < m - 1 => rs[k].end < rs[m - 1].begin
        BY <1>6, <3>1, <4>2
      <4>4. QED
        BY <1>5, <3>1, <3>2, <4>1, <4>2, <4>3
    <3>4. rs[m - 1].end < r.begin
      BY <1>4, <1>6, <3>1
    <3>5. e \in 0 .. n
      BY <1>5, <3>1, <3>2
    <3>6. QED
      BY <1>7, <3>2, <3>3, <3>4, <3>5
  <2>3. QED
    BY <2>1, <2>2
<1> HIDE DEF e, r
<1>9. ASSUME NEW p \in G, p < r.begin
      PROVE  \E k \in 1 .. m - 1 : rs[k].begin <= p /\ p < rs[k].end
  <2>1. p \in 0 .. n - 1 /\ p < EndOf(rs)
    BY <1>4, <1>7, <1>9
  <2>2. PICK k \in 1 .. m : rs[k].begin <= p /\ p < rs[k].end
    BY <2>1 DEF Listed, m
  <2>3. k # m
    BY <1>5, <1>7, <1>9, <2>1, <2>2 DEF r
  <2>4. k \in 1 .. m - 1
    BY <1>1, <2>3
  <2>5. QED
    BY <2>2, <2>4
<1>10. \A p \in e .. r.begin - 1 : p \notin G
  <2> SUFFICES ASSUME NEW p \in e .. r.begin - 1, p \in G PROVE FALSE
    OBVIOUS
  <2>1. p \in 0 .. n - 1 /\ p < r.begin /\ e <= p
    BY <1>7, <1>8
  <2>2. PICK k \in 1 .. m - 1 : rs[k].begin <= p /\ p < rs[k].end
    BY <1>9, <2>1
  <2>3. rs[k].end <= e /\ rs[k].end \in 0 .. n
    BY <1>1, <1>5, <1>8
  <2>4. QED
    BY <1>8, <2>1, <2>2, <2>3
<1>11. Listed(n, G, fs)
  <2>1. \A k \in 1 .. m - 1 : k \in 1 .. m /\ fs[k] = rs[k]
    BY <1>1, <1>3
  <2>2. \A k \in 1 .. m - 1 : /\ fs[k].begin < fs[k].end
                              /\ fs[k].begin .. fs[k].end - 1 \subseteq G
    BY <1>5, <2>1
  <2>3. \A j, k \in 1 .. m - 1 : j < k => fs[j].end < fs[k].begin
    BY <1>6, <2>1
  <2>4. ASSUME NEW p \in G, p < e PROVE \E k \in 1 .. m - 1 : fs[k].begin <= p /\ p < fs[k].end
    <3>1. p < r.begin
      <4>1. p \in 0 .. n - 1
        OBVIOUS
      <4>2. QED
        BY <1>7, <1>8, <2>4, <4>1
    <3>2. PICK k \in 1 .. m - 1 : rs[k].begin <= p /\ p < rs[k].end
      BY <1>9, <3>1
    <3>3. QED
      BY <2>1, <3>2
  <2>5. QED
    BY <1>3, <2>2, <2>3, <2>4 DEF Listed, e
<1>12. QED
  BY <1>2, <1>4, <1>7, <1>8, <1>10, <1>11 DEF e, r

-----------------------------------------------------------------------------
\* The bytes are those of records that all differ.
Whole(bytes) ==
    /\ Records(bytes) \in Seq(Ids)
    /\ bytes = Bytes(Records(bytes))
    /\ Distinct(Records(bytes))

LEMMA WholeBytes ==
    ASSUME NEW s \in Seq(Ids), Distinct(s)
    PROVE  Whole(Bytes(s)) /\ Records(Bytes(s)) = s
BY RecordsOfBytes DEF Whole

LEMMA FilesAreWhole ==
    ASSUME NEW f \in Files
    PROVE  Whole(Bytes(f))
<1>1. PICK n \in 0 .. MaxRecords : f = [i \in 1 .. n |-> i]
  BY DEF Files
<1>2. n \in Nat /\ MaxRecords \in Nat
  BY BoundsAssumption
<1>3. \A i \in 1 .. n : i \in Ids
  BY <1>2 DEF Ids
<1>4. f \in Seq(Ids) /\ Len(f) = n
  BY <1>1, <1>2, <1>3
<1>5. Distinct(f)
  BY <1>1, <1>4 DEF Distinct
<1>6. QED
  BY <1>4, <1>5, WholeBytes

\* Removing records leaves whole records, and so does moving them.
LEMMA ErasedIsWhole ==
    ASSUME NEW bytes, Whole(bytes), NEW first \in 0 .. Size(bytes), NEW last \in Int, first <= last
    PROVE  Whole(Erase(bytes, first, last))
<1> DEFINE s == Records(bytes)
<1>1. s \in Seq(Ids) /\ bytes = Bytes(s) /\ Distinct(s) /\ Size(bytes) = Len(s)
  BY RecordsOfBytes DEF Whole
<1> HIDE DEF s
<1>2. PICK a, b, c \in Seq(Ids), m \in first .. Len(s) :
          /\ InThree(s, first, m, a, b, c)
          /\ last <= Len(s) => m = last
          /\ Erase(Bytes(s), first, last) = Bytes(a \o c)
  <2>1. s \in Seq(Ids) /\ first \in 0 .. Len(s)
    BY <1>1
  <2>2. QED
    BY <2>1, Erasing
<1>3. Distinct(a \o (b \o c))
  BY <1>1, <1>2 DEF InThree
<1> DEFINE d == b \o c
           e == a \o c
<1>4. d \in Seq(Ids) /\ Elements(d) = Elements(b) \cup Elements(c)
      /\ (Distinct(d) <=> Distinct(b) /\ Distinct(c) /\ Elements(b) \cap Elements(c) = {})
  BY ConcatProperties, ElementsConcat, DistinctConcat
<1> HIDE DEF d
<1>5. Distinct(a \o d) <=> Distinct(a) /\ Distinct(d) /\ Elements(a) \cap Elements(d) = {}
  BY <1>4, DistinctConcat
<1>6. Distinct(a \o d)
  BY <1>3 DEF d
<1>7. e \in Seq(Ids) /\ (Distinct(e) <=> Distinct(a) /\ Distinct(c) /\ Elements(a) \cap Elements(c) = {})
  BY ConcatProperties, DistinctConcat
<1>8. Distinct(e)
  BY <1>4, <1>5, <1>6, <1>7
<1>9. Erase(bytes, first, last) = Bytes(e)
  BY <1>1, <1>2
<1> HIDE DEF e
<1>10. QED
  BY <1>7, <1>8, <1>9, WholeBytes

LEMMA MovedIsWhole ==
    ASSUME NEW bytes, Whole(bytes), NEW first \in 0 .. Size(bytes), NEW last \in 0 .. Size(bytes),
           NEW dst \in Int, ~ Refuses(bytes, first, last, dst)
    PROVE  Whole(Move(bytes, first, last, dst))
<1> DEFINE s == Records(bytes)
           n == Len(s)
<1>1. s \in Seq(Ids) /\ bytes = Bytes(s) /\ Distinct(s) /\ Size(bytes) = n /\ n \in Nat
  BY RecordsOfBytes, LenProperties DEF Whole
<1> HIDE DEF s
<1>2. /\ dst \in 0 .. n /\ first \in 0 .. n /\ last \in 0 .. n /\ first < last
      /\ dst < first \/ last < dst
  BY <1>1 DEF Refuses
<1>3. CASE dst < first
  <2>1. PICK p, q, b, z \in Seq(Ids) : InFour(s, dst, first, last, p, q, b, z)
    <3>1. dst \in 0 .. Len(s) /\ first \in dst .. Len(s) /\ last \in first .. Len(s)
      BY <1>1, <1>2, <1>3
    <3>2. QED
      BY <1>1, <3>1, SplitThrice
  <2>2. /\ s = p \o (q \o (b \o z)) /\ Len(p) = dst /\ Len(b) # 0
        /\ Len(p) + Len(q) = first /\ Len(p) + Len(q) + Len(b) = last
    BY <1>1, <1>2, <1>3, <2>1 DEF InFour
  <2> DEFINE t == p \o (b \o (q \o z))
  <2>3. t \in Seq(Ids)
    <3>1. FourParts(Ids, p, b, q, z)
      BY FourConcat
    <3>2. QED
      BY <3>1 DEF FourParts
  <2>4. Distinct(t)
    <3>1. AllDistinct(p, q, b, z)
      BY <1>1, <2>2, FourDistinct
    <3>2. AllDistinct(p, b, q, z)
      BY <3>1 DEF AllDistinct
    <3>3. QED
      BY <3>2, FourDistinct
  <2>5. Move(bytes, first, last, dst) = Bytes(t)
    <3>1. MoveGoesLeft(p, q, b, z)
      BY <2>2, MovesLeft
    <3>2. QED
      BY <1>1, <2>2, <3>1 DEF MoveGoesLeft
  <2> HIDE DEF t
  <2>6. QED
    BY <2>3, <2>4, <2>5, WholeBytes
<1>4. CASE last < dst
  <2>1. PICK p, b, q, z \in Seq(Ids) : InFour(s, first, last, dst, p, b, q, z)
    <3>1. first \in 0 .. Len(s) /\ last \in first .. Len(s) /\ dst \in last .. Len(s)
      BY <1>1, <1>2, <1>4
    <3>2. QED
      BY <1>1, <3>1, SplitThrice
  <2>2. /\ s = p \o (b \o (q \o z)) /\ Len(p) = first /\ Len(b) # 0 /\ Len(q) # 0
        /\ Len(p) + Len(b) = last /\ Len(p) + Len(b) + Len(q) = dst
    BY <1>1, <1>2, <1>4, <2>1 DEF InFour
  <2> DEFINE t == p \o (q \o (b \o z))
  <2>3. t \in Seq(Ids)
    <3>1. FourParts(Ids, p, q, b, z)
      BY FourConcat
    <3>2. QED
      BY <3>1 DEF FourParts
  <2>4. Distinct(t)
    <3>1. AllDistinct(p, b, q, z)
      BY <1>1, <2>2, FourDistinct
    <3>2. AllDistinct(p, q, b, z)
      BY <3>1 DEF AllDistinct
    <3>3. QED
      BY <3>2, FourDistinct
  <2>5. Move(bytes, first, last, dst) = Bytes(t)
    <3>1. MoveGoesRight(p, q, b, z)
      BY <2>2, MovesRight
    <3>2. QED
      BY <1>1, <2>2, <3>1 DEF MoveGoesRight
  <2> HIDE DEF t
  <2>6. QED
    BY <2>3, <2>4, <2>5, WholeBytes
<1>5. QED
  BY <1>2, <1>3, <1>4

-----------------------------------------------------------------------------
\* The inductive invariant: while found ranges are still to be removed, the file
\* is what was found up to the end of the last of them, and behind it what was
\* found without the records wanted.
Sweeping ==
    IF found = <<>>
    THEN ranges = <<>>
    ELSE /\ Listed(Len(found), Places(found, wanted), ranges)
         /\ SweptTo(Records(file), found, wanted, EndOf(ranges))

BinaryInv ==
    /\ Whole(file)
    /\ found \in Seq(Ids)
    /\ wanted \subseteq Ids
    /\ Sweeping

LEMMA Forgetting ==
    ASSUME Whole(file'), Forget
    PROVE  BinaryInv'
BY EmptySeq DEF Forget, BinaryInv, Sweeping, Whole

LEMMA BinaryInitially == BinaryInit => BinaryInv
<1> SUFFICES ASSUME BinaryInit PROVE BinaryInv
  OBVIOUS
<1>1. Whole(file)
  BY FilesAreWhole DEF BinaryInit
<1>2. QED
  BY <1>1, EmptySeq DEF BinaryInit, BinaryInv, Sweeping

\* A search lists all the runs, and nothing wanted is behind the last of them.
LEMMA SearchStarts ==
    ASSUME BinaryInv, NEW S \in SUBSET Ids, Search(S)
    PROVE  BinaryInv'
<1> DEFINE s == Records(file)
           n == Len(s)
           G == Places(s, S)
           all == FindAllRanges(file, S)
           K == Ids \ S
<1>1. s \in Seq(Ids) /\ file = Bytes(s) /\ n \in Nat
  BY LenProperties DEF BinaryInv, Whole
<1>2. file' = file /\ ranges' = all /\ found' = s /\ wanted' = S
  BY DEF Search
<1>3. RunsFrom(n, G, all, 0)
  <2> HIDE DEF s
  <2>1. QED
    BY <1>1, FindsAllRanges
<1>4. G \subseteq 0 .. n - 1
  BY DEF Places
<1> HIDE DEF s, G, all
<1>5. Listed(n, G, all) /\ \A p \in G : p < EndOf(all)
  BY <1>1, <1>3, <1>4, AllListed
<1>6. EndOf(all) \in 0 .. n
  BY <1>1, <1>5, EndIsLast
<1>7. SweptTo(s, s, S, EndOf(all))
  <2>1. PICK a, c \in Seq(Ids) : InTwo(s, EndOf(all), a, c)
    BY <1>1, <1>6, SplitOnce
  <2>2. s = a \o c /\ Len(a) = EndOf(all)
    BY <2>1 DEF InTwo
  <2>3. \A i \in 1 .. Len(a) + Len(c) : s[i] = IF i <= Len(a) THEN a[i] ELSE c[i - Len(a)]
    BY <2>2, ConcatProperties
  <2>4. Len(a) \in Nat /\ Len(c) \in Nat /\ n = Len(a) + Len(c)
    BY <2>2, ConcatProperties, LenProperties
  <2>5. ASSUME NEW i \in 1 .. Len(c) PROVE c[i] \in K
    <3>1. c[i] = s[Len(a) + i] /\ c[i] \in Ids
      <4>1. Len(a) + i \in 1 .. Len(a) + Len(c) /\ ~ (Len(a) + i <= Len(a))
            /\ (Len(a) + i) - Len(a) = i
        BY <2>4
      <4>2. c[i] \in Ids
        BY ElementOfSeq
      <4>3. QED
        BY <2>3, <4>1, <4>2
    <3>2. (Len(a) + i) - 1 \in 0 .. n - 1 /\ ~ ((Len(a) + i) - 1 < EndOf(all))
          /\ ((Len(a) + i) - 1) + 1 = Len(a) + i
      BY <2>2, <2>4
    <3>3. (Len(a) + i) - 1 \notin G
      BY <1>5, <3>2
    <3>4. s[Len(a) + i] \notin S
      BY <3>2, <3>3 DEF G, Places
    <3>5. QED
      BY <3>1, <3>4
  <2>6. Filter(c, K) = c
    <3>1. Elements(c) \subseteq K
      BY <2>5 DEF Elements
    <3> HIDE DEF K
    <3>2. QED
      BY <3>1, FilterAll
  <2>7. SweptTo(s, a \o c, S, Len(a)) <=> s = a \o Filter(c, Ids \ S)
    BY SweptParts, ZenonT(30)
  <2>8. QED
    BY <2>2, <2>6, <2>7
<1>8. Records(file) = s /\ Whole(file)
  BY DEF s, BinaryInv
<1>9. Sweeping'
  <2>1. (found' = <<>>) => (ranges' = <<>>)
    <3>1. SUFFICES ASSUME s = <<>> PROVE all = <<>>
      BY <1>2
    <3>2. n = 0
      BY <3>1, EmptySeq
    <3>3. \A k \in 1 .. Len(all) : FALSE
      <4> TAKE k \in 1 .. Len(all)
      <4>1. all[k].begin \in 0 .. n /\ all[k].end \in 0 .. n
        BY <1>1, <1>5, EndIsLast
      <4>2. all[k].begin < all[k].end
        BY <1>5 DEF Listed
      <4>3. QED
        BY <3>2, <4>1, <4>2
    <3>4. all \in Seq(Ranges(n)) /\ Len(all) \in Nat
      BY <1>5, LenProperties DEF Listed
    <3>5. Len(all) = 0
      BY <3>3, <3>4
    <3>6. QED
      BY <3>4, <3>5, EmptySeq
  <2>2. /\ Listed(Len(found'), Places(found', wanted'), ranges')
        /\ SweptTo(Records(file'), found', wanted', EndOf(ranges'))
    BY <1>2, <1>5, <1>7, <1>8 DEF G
  <2>3. QED
    BY <2>1, <2>2 DEF Sweeping
<1>10. Whole(file')
  BY <1>2, <1>8
<1>11. found' \in Seq(Ids) /\ wanted' \subseteq Ids
  BY <1>1, <1>2
<1>12. QED
  BY <1>9, <1>10, <1>11 DEF BinaryInv

\* Removing the last range: between it and the one before it nothing is wanted,
\* so the file is then swept from the end of the one before on.
LEMMA SweepContinues ==
    ASSUME BinaryInv, RemoveFound
    PROVE  BinaryInv'
<1> DEFINE F == found
           W == wanted
           n == Len(F)
           G == Places(F, W)
           fs == Front(ranges)
           d == EndOf(fs)
           b == Last(ranges).begin
           e == Last(ranges).end
           s == Records(file)
<1>1. /\ ranges # <<>> /\ file' = Erase(file, b, e) /\ ranges' = fs
      /\ found' = F /\ wanted' = W
  BY DEF RemoveFound
<1>2. F # <<>> /\ Listed(n, G, ranges) /\ SweptTo(s, F, W, EndOf(ranges))
  BY <1>1 DEF BinaryInv, Sweeping
<1>3. /\ F \in Seq(Ids) /\ n \in Nat /\ G \subseteq 0 .. n - 1
      /\ W \subseteq Ids /\ s \in Seq(Ids) /\ file = Bytes(s) /\ Distinct(s)
  BY LenProperties DEF BinaryInv, Whole, Places
<1> HIDE DEF n, G, fs, d, b, e, s, F, W
<1>4. /\ Listed(n, G, fs)
      /\ d \in 0 .. n /\ b \in 0 .. n /\ e \in 0 .. n /\ d <= b /\ b < e
      /\ e = EndOf(ranges)
      /\ b .. e - 1 \subseteq G
      /\ \A p \in d .. b - 1 : p \notin G
  <2>1. /\ Listed(n, G, Front(ranges))
        /\ Last(ranges).begin \in 0 .. n /\ Last(ranges).end \in 0 .. n
        /\ EndOf(Front(ranges)) \in 0 .. n /\ EndOf(Front(ranges)) <= Last(ranges).begin
        /\ Last(ranges).begin < Last(ranges).end /\ Last(ranges).end = EndOf(ranges)
        /\ Last(ranges).begin .. Last(ranges).end - 1 \subseteq G
        /\ \A p \in EndOf(Front(ranges)) .. Last(ranges).begin - 1 : p \notin G
    BY <1>1, <1>2, <1>3, ListedFront
  <2>2. QED
    BY <2>1 DEF fs, d, b, e
<1>5. PICK p, q, x, z \in Seq(Ids) : InFour(F, d, b, e, p, q, x, z)
  <2>1. n = Len(F)
    BY DEF n
  <2>2. d \in 0 .. Len(F) /\ b \in d .. Len(F) /\ e \in b .. Len(F)
    BY <1>3, <1>4, <2>1
  <2>3. QED
    BY <1>3, <2>2, SplitThrice
<1>6. /\ F = p \o (q \o (x \o z)) /\ Len(p) = d /\ Len(q) = b - d /\ Len(x) = e - b
      /\ Len(p) + Len(q) = b /\ Len(p) + Len(q) + Len(x) = e
  BY <1>3, <1>4, <1>5 DEF InFour
<1>7. MiddleAt(F, d, q) /\ MiddleAt(F, b, x)
  <2>1. FourParts(Ids, p, q, x, z)
    BY FourConcat
  <2>2. /\ x \o z \in Seq(Ids) /\ p \o q \in Seq(Ids) /\ Len(p \o q) = Len(p) + Len(q)
        /\ p \o (q \o (x \o z)) = (p \o q) \o (x \o z)
    BY <2>1 DEF FourParts
  <2>3. MiddleAt(p \o (q \o (x \o z)), Len(p), q)
    BY <2>2, InTheMiddle
  <2>4. MiddleAt((p \o q) \o (x \o z), Len(p \o q), x)
    BY <2>2, InTheMiddle
  <2>5. QED
    BY <1>6, <2>2, <2>3, <2>4
<1>8. Elements(q) \cap W = {}
  <2>1. ASSUME NEW i \in 1 .. Len(q) PROVE q[i] \notin W
    <3>1. (d + i) - 1 \in d .. b - 1 /\ (d + i) - 1 \in 0 .. n - 1 /\ ((d + i) - 1) + 1 = d + i
      BY <1>3, <1>4, <1>6
    <3>2. F[d + i] \notin W
      BY <1>4, <3>1 DEF G, Places, n
    <3>3. q[i] = F[d + i]
      BY <1>7 DEF MiddleAt
    <3>4. QED
      BY <3>2, <3>3
  <2>2. QED
    BY <2>1 DEF Elements
<1>9. Elements(x) \subseteq W
  <2>1. ASSUME NEW i \in 1 .. Len(x) PROVE x[i] \in W
    <3>0. i \in 1 .. e - b /\ b \in Nat /\ e \in Nat
      BY <1>3, <1>4, <1>6
    <3>1. (b + i) - 1 \in b .. e - 1 /\ ((b + i) - 1) + 1 = b + i
      BY <3>0
    <3>2. F[b + i] \in W
      BY <1>4, <3>1 DEF G, Places
    <3>3. x[i] = F[b + i]
      BY <1>7 DEF MiddleAt
    <3>4. QED
      BY <3>2, <3>3
  <2>2. QED
    BY <2>1 DEF Elements
<1>10. PICK t : SweepGoesOn(p, q, x, z, W, t)
  BY <1>8, <1>9, SweepingOn
<1>11. /\ t \in Seq(Ids) /\ SweptTo(t, F, W, d)
       /\ Erase(Bytes(s), b, e) = Bytes(t)
       /\ Distinct(t)
  <2>1. /\ t \in Seq(Ids) /\ SweptTo(t, F, W, d)
        /\ \A u : SweptTo(u, F, W, e) =>
              Erase(Bytes(u), b, e) = Bytes(t) /\ (Distinct(u) => Distinct(t))
    BY <1>6, <1>10 DEF SweepGoesOn
  <2>2. SweptTo(s, F, W, e)
    BY <1>2, <1>4
  <2>3. QED
    BY <1>3, <2>1, <2>2
<1>12. file' = Bytes(t)
  BY <1>1, <1>3, <1>11
<1>13. Whole(file') /\ Records(file') = t
  BY <1>11, <1>12, WholeBytes
<1>14. Sweeping'
  <2>1. /\ Listed(Len(found'), Places(found', wanted'), ranges')
        /\ SweptTo(Records(file'), found', wanted', EndOf(ranges'))
    BY <1>1, <1>4, <1>11, <1>13 DEF n, G, d
  <2>2. found' # <<>>
    BY <1>1, <1>2
  <2>3. QED
    BY <2>1, <2>2 DEF Sweeping
<1>15. found' \in Seq(Ids) /\ wanted' \subseteq Ids
  BY <1>1, <1>3
<1>16. QED
  BY <1>13, <1>14, <1>15 DEF BinaryInv

LEMMA BinaryStep == BinaryInv /\ [BinaryNext]_binaryVars => BinaryInv'
<1> SUFFICES ASSUME BinaryInv, [BinaryNext]_binaryVars PROVE BinaryInv'
  OBVIOUS
<1>0. Whole(file) /\ Size(file) \in Nat
  <2>1. Whole(file) /\ Records(file) \in Seq(Ids) /\ file = Bytes(Records(file))
    BY DEF BinaryInv, Whole
  <2>2. Size(file) = Len(Records(file))
    <3> DEFINE s == Records(file)
    <3>1. s \in Seq(Ids) /\ file = Bytes(s)
      BY <2>1
    <3> HIDE DEF s
    <3>2. Size(file) = Len(s)
      BY <3>1, RecordsOfBytes
    <3>3. QED
      BY <3>2 DEF s
  <2>3. QED
    BY <2>1, <2>2, LenProperties
<1>1. ASSUME NEW S \in SUBSET Ids, Search(S) PROVE BinaryInv'
  BY <1>1, SearchStarts
<1>2. CASE RemoveFound
  BY <1>2, SweepContinues
<1>3. ASSUME NEW first \in Positions, NEW last \in 0 .. Size(file) + 1, first <= last,
             RemoveRecords(first, last)
      PROVE  BinaryInv'
  <2>1. first \in 0 .. Size(file) /\ last \in Int
    BY <1>0, <1>3 DEF Positions
  <2>2. Whole(Erase(file, first, last))
    BY <1>0, <1>3, <2>1, ErasedIsWhole
  <2>3. Whole(file') /\ Forget
    BY <1>3, <2>2 DEF RemoveRecords
  <2>4. QED
    BY <2>3, Forgetting
<1>4. ASSUME NEW first \in Positions, NEW last \in Positions, NEW dst \in -1 .. Size(file) + 1,
             MoveRecords(first, last, dst)
      PROVE  BinaryInv'
  <2>1. first \in 0 .. Size(file) /\ last \in 0 .. Size(file) /\ dst \in Int
    BY <1>0, <1>4 DEF Positions
  <2>2. ~ Refuses(file, first, last, dst)
    BY <1>4 DEF MoveRecords
  <2>3. Whole(Move(file, first, last, dst))
    BY <1>0, <2>1, <2>2, MovedIsWhole
  <2>4. Whole(file') /\ Forget
    BY <1>4, <2>3 DEF MoveRecords
  <2>5. QED
    BY <2>4, Forgetting
<1>5. ASSUME NEW f \in Files, Update(f) PROVE BinaryInv'
  <2>1. Whole(file') /\ Forget
    BY <1>5, FilesAreWhole DEF Update
  <2>2. QED
    BY <2>1, Forgetting
<1>6. CASE UNCHANGED binaryVars
  <2>1. file' = file /\ ranges' = ranges /\ found' = found /\ wanted' = wanted
    BY <1>6 DEF binaryVars
  <2>2. QED
    BY <2>1 DEF BinaryInv, Sweeping
<1>7. QED
  BY <1>1, <1>2, <1>3, <1>4, <1>5, <1>6 DEF BinaryNext

\* The invariant holds of every file in every state, however many records it has
\* and however long they are.
THEOREM BinaryInvariance == BinarySpec => []BinaryInv
<1>1. BinaryInit => BinaryInv
  BY BinaryInitially
<1>2. BinaryInv /\ [BinaryNext]_binaryVars => BinaryInv'
  BY BinaryStep
<1>3. QED
  BY <1>1, <1>2, PTL DEF BinarySpec

LEMMA BinaryTypes == BinaryInv => BinaryTypeOK
<1> SUFFICES ASSUME BinaryInv PROVE BinaryTypeOK
  OBVIOUS
<1>1. ASSUME NEW k \in DOMAIN ranges
      PROVE  ranges[k].begin < ranges[k].end /\ ranges[k].end <= Size(file)
  <2> DEFINE s == Records(file)
             n == Len(found)
             G == Places(found, wanted)
             e == EndOf(ranges)
             c == SubSeq(found, e + 1, n)
             a == SubSeq(found, 1, e)
             R == Filter(c, Ids \ wanted)
  <2>1. found # <<>>
    <3>1. ranges # <<>>
      BY <1>1
    <3>2. QED
      BY <3>1 DEF BinaryInv, Sweeping
  <2>2. Listed(n, G, ranges) /\ s = a \o R
    BY <2>1 DEF BinaryInv, Sweeping, SweptTo
  <2>3. found \in Seq(Ids) /\ n \in Nat /\ ranges \in Seq(Ranges(n)) /\ k \in 1 .. Len(ranges)
    BY <1>1, <2>2, LenProperties DEF BinaryInv, Listed
  <2>4. s \in Seq(Ids) /\ file = Bytes(s)
    BY DEF BinaryInv, Whole
  <2> HIDE DEF s
  <2>5. Size(file) = Len(s)
    BY <2>4, RecordsOfBytes
  <2>6. e \in 0 .. n /\ ranges[k].begin < ranges[k].end /\ ranges[k].end \in 0 .. n /\ ranges[k].end <= e
    BY <2>2, <2>3, EndIsLast DEF Listed
  <2> HIDE DEF e, G
  <2>7. a \in Seq(Ids) /\ c \in Seq(Ids) /\ Len(a) = e
    BY <2>3, <2>6, SplitAt
  <2> HIDE DEF a, c
  <2>8. R \in Seq(Ids)
    BY <2>7, FilterType
  <2> HIDE DEF R
  <2>9. Len(s) = Len(a) + Len(R) /\ Len(R) \in Nat
    BY <2>2, <2>7, <2>8, ConcatProperties, LenProperties
  <2>10. QED
    BY <2>5, <2>6, <2>7, <2>9
<1>2. QED
  BY <1>1 DEF BinaryTypeOK, BinaryInv, Whole

LEMMA SweptAtTheEnd == BinaryInv => SweepIsExact
<1> SUFFICES ASSUME BinaryInv, ranges = <<>>, found # <<>>
             PROVE  Records(file) = Filter(found, Ids \ wanted)
  BY DEF SweepIsExact
<1> DEFINE s == Records(file)
           K == Ids \ wanted
           none == <<>>
<1>1. found \in Seq(Ids) /\ SweptTo(s, found, wanted, 0)
  BY DEF BinaryInv, Sweeping, EndOf
<1>2. none \in Seq(Ids) /\ Len(none) = 0
  BY EmptySeq
<1>3. none \o found = found
  BY <1>1, ConcatEmptySeq
<1> HIDE DEF none, s
<1>4. SweptTo(s, none \o found, wanted, Len(none)) <=> s = none \o Filter(found, K)
  BY <1>1, <1>2, SweptParts, ZenonT(30)
<1>5. Filter(found, K) \in Seq(Ids)
  <2> HIDE DEF K
  <2>1. QED
    BY <1>1, FilterType
<1>6. none \o Filter(found, K) = Filter(found, K)
  BY <1>5, ConcatEmptySeq DEF none
<1>7. QED
  BY <1>1, <1>2, <1>3, <1>4, <1>6 DEF s

LEMMA AgreeWithReferences == BinaryInv => SearchAndMoveAgree
<1> SUFFICES ASSUME BinaryInv PROVE SearchAndMoveAgree
  OBVIOUS
<1> DEFINE s == Records(file)
<1>1. s \in Seq(Ids) /\ Distinct(s) /\ file = Bytes(s)
  BY DEF BinaryInv, Whole
<1> HIDE DEF s
<1>2. RangesAreRuns
  BY <1>1, SearchingIsRight
<1>3. MoveIsRight
  BY <1>1, MovingIsRight
<1>4. QED
  BY <1>2, <1>3 DEF SearchAndMoveAgree

\* The bytes of a file stay whole records, whatever is removed and moved, and the
\* ranges found stay in the file while they are removed from the last to the first.
THEOREM BinaryTypeCorrect == BinarySpec => []BinaryTypeOK
BY BinaryInvariance, BinaryTypes, PTL

\* Removing the ranges found, from the last to the first, removes exactly the
\* records that satisfied the predicate, from a file of any length.
THEOREM SweepsAreExact == BinarySpec => []SweepIsExact
BY BinaryInvariance, SweptAtTheEnd, PTL

\* findAllRanges returns exactly the maximal runs of records that satisfy the
\* predicate, in order, and move() moves exactly the records it is given to the
\* place it is given, for every file and every argument it does not refuse.
THEOREM SearchesAndMovesAgree == BinarySpec => []SearchAndMoveAgree
BY BinaryInvariance, AgreeWithReferences, PTL

-----------------------------------------------------------------------------
(* Numbers.                                                                 *)
\* Dividing by a product is dividing twice.
TwoDigits(n, d, e) ==
    /\ n \div (d * e) = (n \div d) \div e
    /\ n % (d * e) = ((n \div d) % e) * d + (n % d)
    /\ (n % (d * e)) % d = n % d

LEMMA DivideTwice ==
    ASSUME NEW d \in Nat \ {0}, NEW e \in Nat \ {0}, NEW n \in Int
    PROVE  TwoDigits(n, d, e)
<1> DEFINE q == n \div d
           r == n % d
           p == q \div e
           s == q % e
           m == d * e
           sd == s * d
           t == sd + r
<1>1. q \in Int /\ r \in 0 .. d - 1 /\ n = q * d + r
  BY Division
<1> HIDE DEF q, r
<1>2. p \in Int /\ s \in 0 .. e - 1 /\ q = p * e + s
  BY <1>1, Division
<1> HIDE DEF p, s
<1>3. m \in Nat \ {0}
  OBVIOUS
<1>4. q * d = p * m + sd
  <2>1. (p * e + s) * d = p * (d * e) + s * d
    BY <1>2
  <2>2. QED
    BY <1>2, <2>1
<1>5. sd \in Nat /\ sd + d <= m
  <2>1. s * d + d <= e * d
    BY <1>2, ProductsApart
  <2>2. sd \in Nat
    BY <1>2
  <2>3. e * d = m
    OBVIOUS
  <2>4. QED
    BY <2>1, <2>2, <2>3
<1> HIDE DEF m, sd
<1>6. t \in 0 .. m - 1
  BY <1>1, <1>3, <1>5
<1>7. n = p * m + t
  <2> DEFINE u == p * m
             v == q * d
  <2>1. u \in Int /\ v \in Int
    BY <1>1, <1>2, <1>3
  <2>2. n = v + r /\ v = u + sd
    BY <1>1, <1>4
  <2> HIDE DEF u, v
  <2>3. n = u + t
    BY <1>1, <1>5, <2>1, <2>2
  <2>4. QED
    BY <2>3 DEF u
<1> HIDE DEF t
<1>8. (p * m + t) \div m = p /\ (p * m + t) % m = t
  BY <1>2, <1>3, <1>6, DivideExactly
<1>9. n \div m = p /\ n % m = t
  BY <1>7, <1>8
<1>10. t % d = r
  <2>1. (s * d + r) \div d = s /\ (s * d + r) % d = r
    BY <1>1, <1>2, DivideExactly
  <2>2. QED
    BY <2>1 DEF t, sd
<1>11. n \div m = q \div e /\ n % m = (q % e) * d + r /\ (n % m) % d = r
  BY <1>9, <1>10 DEF p, s, t, sd
<1>12. QED
  BY <1>11 DEF TwoDigits, q, r, m

LEMMA Spans ==
    /\ Span(0) = 1 /\ Span(1) = Base
    /\ Span(2) = Base * Base /\ Span(3) = Span(2) * Base /\ Span(4) = Span(3) * Base
    /\ Base \in Nat \ {0}
    /\ Span(2) \in Nat \ {0} /\ Span(3) \in Nat \ {0} /\ Span(4) \in Nat \ {0}
<1>1. Base \in Nat \ {0}
  BY BaseAssumption
<1>2. /\ Span(0) = 1 /\ Span(1) = Base /\ Span(2) = Base * Base
      /\ Span(3) = Span(2) * Base /\ Span(4) = Span(3) * Base
  BY DEF Span
<1>3. Span(2) \in Nat \ {0}
  BY <1>1, <1>2
<1>4. Span(3) \in Nat \ {0}
  BY <1>1, <1>2, <1>3
<1>5. Span(4) \in Nat \ {0}
  BY <1>1, <1>2, <1>4
<1>6. QED
  BY <1>1, <1>2, <1>3, <1>4, <1>5

\* A number assigned to a uint24 keeps its three low bytes.
LEMMA KeepsThreeBytes ==
    ASSUME NEW n \in Int
    PROVE  /\ ToU32(FromU32(n)) = n % Span(3)
           /\ FromU32(n) \in Byte \X Byte \X Byte
           /\ n % Span(3) \in Int24
<1> DEFINE b0 == n % Base
           b1 == (n \div Base) % Base
           b2 == (n \div Span(2)) % Base
<1>1. Base \in Nat \ {0} /\ Span(2) \in Nat \ {0} /\ Span(3) \in Nat \ {0}
  BY Spans
<1>2. n \div 1 = n
  <2>1. (n * 1 + 0) \div 1 = n
    BY DivideExactly
  <2>2. QED
    BY <2>1
<1>3. FromU32(n) = <<b0, b1, b2>>
  BY <1>2, Spans DEF FromU32, ByteOf
<1>4. b0 \in Byte /\ b1 \in Byte /\ b2 \in Byte
  <2>1. n \div Base \in Int /\ n \div Span(2) \in Int
    BY <1>1, Division
  <2>2. \A x \in Int : x % Base \in 0 .. Base - 1
    BY <1>1, Division
  <2>3. QED
    BY <2>1, <2>2 DEF Byte
<1>5. n % Span(2) = b1 * Base + b0
  <2>1. TwoDigits(n, Base, Base)
    BY <1>1, DivideTwice
  <2>2. QED
    BY <2>1, Spans DEF TwoDigits
<1>6. n % Span(3) = b2 * Span(2) + (n % Span(2))
  <2>1. TwoDigits(n, Span(2), Base)
    BY <1>1, DivideTwice
  <2>2. QED
    BY <2>1, Spans DEF TwoDigits
<1>7. ToU32(FromU32(n)) = b2 * Span(2) + b1 * Base + b0
  BY <1>3 DEF ToU32
<1>8. b2 * Span(2) + b1 * Base + b0 = n % Span(3)
  <2> DEFINE x == b2 * Span(2)
             y == b1 * Base
  <2>1. b2 \in Int /\ b1 \in Int /\ b0 \in Int
    BY <1>1, <1>4 DEF Byte
  <2> HIDE DEF b2, b1, b0
  <2>2. x \in Int /\ y \in Int
    BY <1>1, <2>1
  <2>3. n % Span(3) = x + (n % Span(2)) /\ n % Span(2) = y + b0
    BY <1>5, <1>6
  <2> HIDE DEF x, y
  <2>4. x + y + b0 = n % Span(3)
    BY <2>1, <2>2, <2>3
  <2>5. QED
    BY <2>4 DEF x, y
<1>9. n % Span(3) \in Int24
  BY <1>1, Division DEF Int24
<1>10. QED
  BY <1>3, <1>4, <1>7, <1>8, <1>9

\* Wrapping to a word loses none of the three low bytes.
LEMMA WrappingKeeps ==
    ASSUME NEW n \in Int
    PROVE  Wrapped(n) \in Int /\ Wrapped(n) % Span(3) = n % Span(3)
<1>1. TwoDigits(n, Span(3), Base)
  BY Spans, DivideTwice
<1>2. Span(4) = Span(3) * Base /\ Span(4) \in Nat \ {0}
  BY Spans
<1>3. (n % Span(4)) % Span(3) = n % Span(3)
  BY <1>1, <1>2 DEF TwoDigits
<1>4. n % Span(4) \in Int
  <2>1. n % Span(4) \in 0 .. Span(4) - 1
    BY <1>2, Division
  <2>2. QED
    BY <1>2, <2>1
<1>5. QED
  BY <1>3, <1>4 DEF Wrapped

\* A uint24 is the number it should be.
NumbersInv ==
    /\ NumbersTypeOK
    /\ ToU32(value) = number

LEMMA Operands ==
    ASSUME word \in Word
    PROVE  Operand \in Byte \X Byte \X Byte /\ ToU32(Operand) = Right /\ Right \in Int24 /\ Right \in Nat
<1>1. word \in Int
  BY Spans DEF Word
<1>2. ToU32(FromU32(word)) = word % Span(3) /\ FromU32(word) \in Byte \X Byte \X Byte
      /\ word % Span(3) \in Int24
  BY <1>1, KeepsThreeBytes
<1>3. Int24 \subseteq Nat
  BY Spans DEF Int24
<1>4. QED
  BY <1>2, <1>3 DEF Operand, Right

\* An assignment of a number, wrapped to a word or not.
LEMMA Assigned ==
    ASSUME NumbersInv, NEW n \in Int, NEW m \in Int, Assign(FromU32(m), n), m % Span(3) = n % Span(3)
    PROVE  NumbersInv'
<1>1. value' = FromU32(m) /\ number' = n % Span(3) /\ word' = word
  BY DEF Assign
<1>2. /\ ToU32(FromU32(m)) = m % Span(3) /\ FromU32(m) \in Byte \X Byte \X Byte
      /\ n % Span(3) \in Int24
  BY KeepsThreeBytes
<1>3. ToU32(value') = number'
  BY <1>1, <1>2
<1>4. value' \in Byte \X Byte \X Byte /\ number' \in Int24 /\ word' \in Word
  BY <1>1, <1>2 DEF NumbersInv, NumbersTypeOK
<1>5. QED
  BY <1>3, <1>4 DEF NumbersInv, NumbersTypeOK, ToU32

LEMMA NumbersInitially == NumbersInit => NumbersInv
<1> SUFFICES ASSUME NumbersInit PROVE NumbersInv
  OBVIOUS
<1>1. 0 \in Byte /\ 0 \in Int24
  BY Spans, BaseAssumption DEF Byte, Int24
<1>2. ToU32(value) = 0
  BY Spans DEF NumbersInit, ToU32
<1>3. QED
  BY <1>1, <1>2 DEF NumbersInit, NumbersInv, NumbersTypeOK

LEMMA NumbersStep == NumbersInv /\ [NumbersNext]_numbersVars => NumbersInv'
<1> SUFFICES ASSUME NumbersInv, [NumbersNext]_numbersVars PROVE NumbersInv'
  OBVIOUS
<1> DEFINE v == ToU32(value)
           w == ToU32(Operand)
<1>1. v = number /\ w = Right /\ number \in Nat /\ Right \in Nat
  <2>1. number \in Nat
    BY Spans DEF NumbersInv, NumbersTypeOK, Int24
  <2>2. QED
    BY <2>1, Operands DEF NumbersInv, NumbersTypeOK
<1> HIDE DEF v, w
<1>2. CASE Add
  <2>1. number + Right \in Int
    BY <1>1
  <2>2. Assign(FromU32(Wrapped(number + Right)), number + Right)
    BY <1>1, <1>2 DEF Add, Plus, v, w
  <2> DEFINE n == number + Right
  <2> HIDE DEF n
  <2>3. n \in Int /\ Assign(FromU32(Wrapped(n)), n)
    BY <2>1, <2>2 DEF n
  <2>4. QED
    BY <2>3, WrappingKeeps, Assigned
<1>3. CASE Subtract
  <2>1. number - Right \in Int
    BY <1>1
  <2>2. Assign(FromU32(Wrapped(number - Right)), number - Right)
    BY <1>1, <1>3 DEF Subtract, Minus, v, w
  <2> DEFINE n == number - Right
  <2> HIDE DEF n
  <2>3. n \in Int /\ Assign(FromU32(Wrapped(n)), n)
    BY <2>1, <2>2 DEF n
  <2>4. QED
    BY <2>3, WrappingKeeps, Assigned
<1>4. CASE Multiply
  <2>1. number * Right \in Int
    BY <1>1
  <2>2. Assign(FromU32(Wrapped(number * Right)), number * Right)
    BY <1>1, <1>4 DEF Multiply, Times, v, w
  <2> DEFINE n == number * Right
  <2> HIDE DEF n
  <2>3. n \in Int /\ Assign(FromU32(Wrapped(n)), n)
    BY <2>1, <2>2 DEF n
  <2>4. QED
    BY <2>3, WrappingKeeps, Assigned
<1>5. CASE Divide
  <2>1. number \div Right \in Int
    BY <1>1, <1>5, Division DEF Divide
  <2>2. Assign(FromU32(number \div Right), number \div Right)
    BY <1>1, <1>5 DEF Divide, Over, v, w
  <2> DEFINE n == number \div Right
  <2> HIDE DEF n
  <2>3. n \in Int /\ Assign(FromU32(n), n)
    BY <2>1, <2>2 DEF n
  <2>4. QED
    BY <2>3, Assigned
<1>6. CASE UNCHANGED numbersVars
  BY <1>6 DEF numbersVars, NumbersInv, NumbersTypeOK, ToU32
<1>7. QED
  BY <1>2, <1>3, <1>4, <1>5, <1>6 DEF NumbersNext

\* The invariant of a uint24, for bytes of any number of values.
THEOREM NumbersInvariance == NumbersSpec => []NumbersInv
BY NumbersInitially, NumbersStep, PTL DEF NumbersSpec

LEMMA Compared == NumbersInv => ArithmeticWraps
<1> SUFFICES ASSUME NumbersInv PROVE ArithmeticWraps
  OBVIOUS
<1> DEFINE v1 == value[1]
           v2 == value[2]
           v3 == value[3]
           low == v2 * Base + v1
<1>1. v1 \in 0 .. Base - 1 /\ v2 \in 0 .. Base - 1 /\ v3 \in 0 .. Base - 1 /\ Base \in Nat \ {0}
  BY Spans DEF NumbersInv, NumbersTypeOK, Byte
<1>2. number = v3 * Span(2) + v2 * Base + v1
  BY DEF NumbersInv, ToU32
<1> HIDE DEF v1, v2, v3
<1>3. v2 * Base \in Nat /\ v2 * Base + Base <= Base * Base
  BY <1>1, ProductsApart
<1>4. low \in 0 .. Span(2) - 1
  <2> DEFINE y == v2 * Base
             z == Base * Base
  <2>1. y \in Nat /\ z \in Nat /\ y + Base <= z /\ low = y + v1 /\ Span(2) = z
    BY <1>1, <1>3, Spans
  <2> HIDE DEF y, z, low
  <2>2. QED
    BY <1>1, <2>1
<1>5. number = v3 * Span(2) + low
  <2> DEFINE x == v3 * Span(2)
             y == v2 * Base
  <2>1. x \in Int /\ y \in Int
    BY <1>1, <1>3, Spans
  <2>2. number = x + y + v1 /\ low = y + v1
    BY <1>2
  <2> HIDE DEF x, y, low
  <2>3. number = x + low
    BY <1>1, <2>1, <2>2
  <2>4. QED
    BY <2>3 DEF x
<1> HIDE DEF low
<1>6. number % Span(2) = low
  <2>1. v3 \in Int /\ Span(2) \in Nat \ {0}
    BY <1>1, Spans
  <2>2. (v3 * Span(2) + low) % Span(2) = low
    BY <1>4, <2>1, DivideExactly
  <2>3. QED
    BY <1>5, <2>2
<1>7. ToU16(value) = low
  BY DEF ToU16, low, v1, v2
<1>8. ToU32(value) = number /\ ToU32(Operand) = Right
  BY Operands DEF NumbersInv, NumbersTypeOK
<1>9. QED
  BY <1>6, <1>7, <1>8 DEF ArithmeticWraps, AtMost, Equal, IsTrue

\* The three values of a uint24 stay bytes.
THEOREM NumbersTypeCorrect == NumbersSpec => []NumbersTypeOK
<1>1. NumbersInv => NumbersTypeOK
  BY DEF NumbersInv
<1>2. QED
  BY <1>1, NumbersInvariance, PTL

\* However many additions, subtractions, multiplications and divisions a uint24
\* has been through, it is the number that arithmetic modulo 2^24 gives.
THEOREM WrapsLikeArithmetic == NumbersSpec => []ArithmeticWraps
BY NumbersInvariance, Compared, PTL

-----------------------------------------------------------------------------
(* What Numbers converts.                                                  *)

\* The powers of 2 are what their definition by recursion says.
LEMMA PowerIs ==
    /\ Power[0] = 1
    /\ \A i \in 1 .. Width : Power[i] = 2 * Power[i - 1]
    /\ \A i \in 0 .. Width : Power[i] \in Nat \ {0}
<1> DEFINE Step(f, i) == IF i = 0 THEN 1 ELSE 2 * f[i - 1]
           N == Width
           X == Nat \ {0}
           next == [i \in 1 .. N |-> [p \in X |-> 2 * p]]
           first == 1
<1>1. N \in Nat /\ first \in X
  BY WidthAssumption
<1>2. next \in [1 .. N -> [X -> X]]
  OBVIOUS
<1>3. PICK f \in [0 .. N -> X] : Follows(f, N, first, next)
  <2> HIDE DEF next, N, first, X
  <2>1. QED
    BY <1>1, <1>2, Recursion
<1>4. \A n \in 0 .. N : f[n] = Step(f, n)
  <2> TAKE n \in 0 .. N
  <2>1. CASE n = 0
    BY <1>3, <2>1 DEF Follows
  <2>2. CASE n # 0
    <3>1. n \in 1 .. N /\ n - 1 \in 0 .. N
      BY <1>1, <2>2
    <3>2. f[n - 1] \in X
      BY <1>3, <3>1
    <3>3. f[n] = next[n][f[n - 1]]
      <4> HIDE DEF next
      <4>1. QED
        BY <1>3, <2>2, <3>1 DEF Follows
    <3>4. QED
      BY <3>1, <3>2, <3>3, <2>2
  <2>3. QED
    BY <2>1, <2>2
<1>5. f = [n \in 0 .. N |-> Step(f, n)]
  BY <1>4
<1>6. Power = [n \in 0 .. N |-> Step(Power, n)]
  <2>1. Power = CHOOSE g : g = [n \in 0 .. N |-> Step(g, n)]
    BY DEF Power
  <2> HIDE DEF Step
  <2>2. \E g : g = [n \in 0 .. N |-> Step(g, n)]
    BY <1>5
  <2>3. QED
    BY <2>1, <2>2, Zenon
<1>7. \A n \in 0 .. N : Power[n] = Step(Power, n)
  <2> HIDE DEF Step
  <2> TAKE n \in 0 .. N
  <2>1. [m \in 0 .. N |-> Step(Power, m)][n] = Step(Power, n)
    OBVIOUS
  <2>2. QED
    BY <1>6, <2>1, Zenon
<1>8. Power[0] = 1
  <2>1. 0 \in 0 .. N
    BY <1>1
  <2>2. QED
    BY <1>7, <2>1
<1>9. \A i \in 1 .. N : Power[i] = 2 * Power[i - 1]
  <2> TAKE n \in 1 .. N
  <2>1. n \in 0 .. N /\ n # 0
    BY <1>1
  <2>2. QED
    BY <1>7, <2>1
<1> DEFINE T == {i \in 0 .. N : Power[i] \in Nat \ {0}}
<1>10. 0 \in T
  BY <1>1, <1>8
<1>11. ASSUME NEW n \in 0 .. N - 1, n \in T PROVE n + 1 \in T
  <2>1. n + 1 \in 1 .. N /\ (n + 1) - 1 = n /\ n + 1 \in 0 .. N
    BY <1>1
  <2>2. Power[n + 1] = 2 * Power[n]
    BY <1>9, <2>1
  <2>3. QED
    BY <1>11, <2>1, <2>2
<1>12. 0 .. N \subseteq T
  <2> HIDE DEF T
  <2>1. QED
    BY <1>1, <1>10, <1>11, InductiveUpTo
<1>13. QED
  BY <1>8, <1>9, <1>12

\* A word is less than Span(4).
LEMMA WholeWord ==
    ASSUME NEW n \in Word
    PROVE  n \in Nat /\ n % Span(4) = n
<1>1. n \in 0 .. Span(4) - 1 /\ Span(4) \in Nat \ {0}
  BY Spans DEF Word
<1>2. (0 * Span(4) + n) % Span(4) = n
  BY <1>1, DivideExactly
<1>3. 0 * Span(4) + n = n
  BY <1>1
<1>4. QED
  BY <1>1, <1>2, <1>3

LEMMA VersionsRead == word \in Word => VersionsKept
<1> SUFFICES ASSUME word \in Word PROVE VersionsKept
  OBVIOUS
<1> DEFINE a == ByteOf(word, 3) * Span(3)
           b == ByteOf(word, 2) * Span(2)
           c == word % Span(2)
<1>1. word \in Nat /\ word % Span(4) = word
  BY WholeWord
<1>2. TwoDigits(word, Span(3), Base) /\ TwoDigits(word, Span(2), Base)
  BY <1>1, Spans, DivideTwice
<1>3. word = a + (word % Span(3))
  BY <1>1, <1>2, Spans DEF TwoDigits, ByteOf
<1>4. word % Span(3) = b + c
  BY <1>2, Spans DEF TwoDigits, ByteOf
<1>5. a \in Int /\ b \in Int /\ c \in Int
  <2>1. \A d \in Nat \ {0} : word \div d \in Int /\ word % d \in Int
    <3> TAKE d \in Nat \ {0}
    <3>1. word \div d \in Int /\ word % d \in 0 .. d - 1
      BY <1>1, Division
    <3>2. QED
      BY <3>1
  <2>2. \A q \in Int : q % Base \in Int
    <3> TAKE q \in Int
    <3>1. q % Base \in 0 .. Base - 1
      BY Spans, Division
    <3>2. QED
      BY <3>1, Spans
  <2>3. ByteOf(word, 3) \in Int /\ ByteOf(word, 2) \in Int
    BY <2>1, <2>2, Spans DEF ByteOf
  <2>4. QED
    BY <2>1, <2>3, Spans
<1>6. StrToVer(VerToStr(word)) = Wrapped(a + b + c)
  BY DEF StrToVer, VerToStr
<1> HIDE DEF a, b, c
<1>7. a + b + c = word
  BY <1>1, <1>3, <1>4, <1>5
<1>8. QED
  BY <1>1, <1>6, <1>7 DEF VersionsKept, Wrapped

LEMMA Thousands ==
    /\ Thousand \in Nat \ {0} /\ Million \in Nat \ {0} /\ Billion \in Nat \ {0}
    /\ Million = Thousand * Thousand /\ Million <= Span(4)
<1>1. Thousand \in Nat \ {0} /\ Million <= Span(4)
  BY ThousandAssumption
<1>2. Million = Thousand * Thousand /\ Billion = Thousand * Million
  BY DEF Million, Billion
<1>3. Million \in Nat \ {0}
  BY <1>1, <1>2
<1>4. Billion \in Nat \ {0}
  BY <1>1, <1>2, <1>3
<1>5. QED
  BY <1>1, <1>2, <1>3, <1>4

\* The parts are the digits to the base of a thousand.
LEMMA ThreeParts ==
    ASSUME NEW n \in Nat
    PROVE  /\ SubSecond(n) = <<(n \div Thousand) \div Thousand, (n \div Thousand) % Thousand,
                               n % Thousand>>
           /\ (n \div Thousand) % Thousand \in 0 .. Thousand - 1
           /\ n % Thousand \in 0 .. Thousand - 1
           /\ (((n \div Thousand) \div Thousand) * Thousand + ((n \div Thousand) % Thousand)) * Thousand
                  + (n % Thousand) = n
<1> DEFINE T == Thousand
           q == n \div T
           a == q \div T
           b == q % T
           c == n % T
           x == a * T
           y == x * T
           z == b * T
<1>1. T \in Nat \ {0} /\ Million = T * T
  BY Thousands
<1>2. q \in Int /\ c \in 0 .. T - 1 /\ n = q * T + c
  BY <1>1, Division
<1>3. a \in Int /\ b \in 0 .. T - 1 /\ q = a * T + b
  BY <1>1, <1>2, Division
<1>4. n \div Million = a
  <2>1. TwoDigits(n, T, T)
    BY <1>1, DivideTwice
  <2>2. QED
    BY <1>1, <2>1 DEF TwoDigits
<1>5. SubSecond(n) = <<a, q - a * T, n - a * Million - (q - a * T) * T>>
  BY <1>4 DEF SubSecond
<1> HIDE DEF q, a, b, c
<1>6. x \in Int /\ y \in Int /\ z \in Int /\ a * Million = y
  <2>1. x \in Int /\ z \in Int
    BY <1>1, <1>3
  <2>2. a * (T * T) = (a * T) * T
    BY <1>1, <1>3
  <2>3. QED
    BY <1>1, <2>1, <2>2
<1>7. q - a * T = b
  <2> HIDE DEF x
  <2>1. q = x + b
    BY <1>3 DEF x
  <2>2. q - x = b
    BY <1>1, <1>3, <1>6, <2>1
  <2>3. QED
    BY <2>2 DEF x
<1>8. q * T = y + z
  <2>1. (x + b) * T = x * T + b * T
    BY <1>1, <1>3, <1>6
  <2>2. QED
    BY <1>3, <2>1
<1>9. n - a * Million - (q - a * T) * T = c
  <2>1. n - a * Million - (q - a * T) * T = n - y - z
    BY <1>6, <1>7
  <2>2. n = (y + z) + c
    BY <1>2, <1>8
  <2> HIDE DEF y, z
  <2>3. n - y - z = c
    BY <1>1, <1>2, <1>6, <2>2
  <2>4. QED
    BY <2>1, <2>3
<1>10. SubSecond(n) = <<a, b, c>>
  BY <1>5, <1>7, <1>9
<1>11. (a * T + b) * T + c = n
  BY <1>2, <1>3
<1>12. QED
  BY <1>2, <1>3, <1>10, <1>11 DEF a, b, c, q

\* A fraction of 2^32 counts at most one millisecond too many, and a thousand at the
\* very end only.
LEMMA FractionClose ==
    ASSUME NEW w \in Word
    PROVE  /\ Fraction(w) - (w * Thousand) \div Span(4) \in {0, 1}
           /\ w < Thousand * (Span(4) \div Thousand) => Fraction(w) \in 0 .. Thousand - 1
<1> DEFINE S == Span(4)
           T == Thousand
           k == S \div T
           r == S % T
           q == w \div k
           e == w % k
           kT == k * T
           TT == T * T
           qk == q * k
           Tk == T * k
           eT == e * T
           qr == q * r
           Tr == T * r
           qS == q * S
           z == eT - qr
<1>1. S \in Nat \ {0} /\ T \in Nat \ {0} /\ TT <= S /\ TT \in Nat /\ w \in 0 .. S - 1
  BY Spans, Thousands DEF Word
<1>2. k \in Int /\ r \in 0 .. T - 1 /\ S = kT + r
  <2> HIDE DEF S, T
  <2>1. S \in Int
    BY <1>1
  <2>2. QED
    BY <1>1, <2>1, Division
<1> HIDE DEF k, r
<1>3. kT \in Int
  BY <1>1, <1>2
<1>4. k >= T
  <2>1. k < T => kT + T <= TT
    BY <1>1, <1>2, ProductsApart
  <2> HIDE DEF kT, TT, S, T
  <2>2. QED
    BY <1>1, <1>2, <1>3, <2>1
<1>5. k \in Nat \ {0} /\ k > r
  <2> HIDE DEF S, T
  <2>1. QED
    BY <1>1, <1>2, <1>4
<1>6. q \in Int /\ e \in 0 .. k - 1 /\ w = qk + e
  <2>1. w \in Int
    BY <1>1
  <2>2. QED
    BY <1>5, <2>1, Division
<1> HIDE DEF q, e
<1>7. qk \in Int /\ Tk \in Int /\ eT \in Int /\ qr \in Int /\ Tr \in Int /\ qS \in Int
  BY <1>1, <1>2, <1>5, <1>6
<1>8. kT = Tk
  BY <1>1, <1>2
<1>9. q \in Nat
  <2>1. q < 0 => qk + k <= 0 * k
    BY <1>5, <1>6, ProductsApart
  <2>2. 0 * k = 0
    BY <1>5
  <2> HIDE DEF qk
  <2>3. QED
    BY <1>1, <1>5, <1>6, <1>7, <2>1, <2>2
<1>10. q <= T
  <2>1. T < q => Tk + k <= qk
    BY <1>1, <1>5, <1>6, ProductsApart
  <2> HIDE DEF qk, Tk, kT, S, T
  <2>2. QED
    BY <1>1, <1>2, <1>5, <1>6, <1>7, <1>8, <2>1
<1>11. qr >= 0 /\ qr <= Tr
  <2>1. q < T => qr + r <= Tr
    BY <1>1, <1>2, <1>6, ProductsApart
  <2>2. q = T => qr = Tr
    OBVIOUS
  <2>3. qr >= 0
    BY <1>2, <1>9
  <2> HIDE DEF qr, Tr, T
  <2>4. QED
    BY <1>1, <1>2, <1>6, <1>7, <1>10, <2>1, <2>2, <2>3
<1>12. Tr <= TT
  <2>1. r * T + T <= T * T
    BY <1>1, <1>2, ProductsApart
  <2>2. r * T = T * r
    BY <1>1, <1>2
  <2> HIDE DEF Tr, TT, T
  <2>3. Tr + T <= TT
    BY <2>1, <2>2 DEF Tr, TT
  <2>4. QED
    BY <1>1, <1>7, <2>3
<1>13. eT >= 0 /\ eT + T <= kT
  <2>1. eT + T <= kT
    BY <1>1, <1>2, <1>6, ProductsApart
  <2>2. eT >= 0
    BY <1>1, <1>5, <1>6
  <2>3. QED
    BY <2>1, <2>2
<1>14. z \in Int /\ z < S /\ z >= -S
  <2> HIDE DEF eT, qr, Tr, TT, kT, S, T
  <2>1. QED
    BY <1>1, <1>2, <1>3, <1>7, <1>11, <1>12, <1>13
<1>15. w * T = qS + z
  <2>1. (q * k + e) * T = q * (k * T) + e * T
    BY <1>1, <1>2, <1>6
  <2>2. q * (kT + r) = q * kT + q * r
    BY <1>2, <1>3, <1>6
  <2> DEFINE u == q * kT
  <2>3. u \in Int
    BY <1>3, <1>6
  <2>4. w * T = u + eT
    BY <1>6, <2>1
  <2>5. qS = u + qr
    BY <1>2, <2>2
  <2> DEFINE wT == w * T
  <2>6. wT = u + eT
    BY <2>4
  <2> HIDE DEF u, eT, qr, qS, wT
  <2>7. wT = qS + (eT - qr)
    BY <1>7, <2>3, <2>5, <2>6
  <2>8. QED
    BY <2>7 DEF wT
<1> HIDE DEF z
<1>16. ASSUME z >= 0 PROVE Fraction(w) - (w * T) \div S \in {0, 1}
  <2>1. z \in 0 .. S - 1
    BY <1>1, <1>14, <1>16
  <2>2. (q * S + z) \div S = q
    BY <1>1, <1>6, <2>1, DivideExactly
  <2>3. (w * T) \div S = q
    BY <1>15, <2>2
  <2>4. Fraction(w) = q
    BY DEF Fraction, q, k
  <2>5. QED
    BY <1>6, <2>3, <2>4
<1>17. ASSUME z < 0 PROVE Fraction(w) - (w * T) \div S \in {0, 1}
  <2>1. z + S \in 0 .. S - 1 /\ q - 1 \in Int
    BY <1>1, <1>6, <1>14, <1>17
  <2>2. ((q - 1) * S + (z + S)) \div S = q - 1
    BY <1>1, <2>1, DivideExactly
  <2>3. (q - 1) * S = qS - S
    BY <1>1, <1>6
  <2>4. (q - 1) * S + (z + S) = qS + z
    <3> DEFINE p == (q - 1) * S
    <3>1. p = qS - S
      BY <2>3
    <3> HIDE DEF p, qS, S
    <3>2. p + (z + S) = qS + z
      BY <1>1, <1>7, <1>14, <3>1
    <3>3. QED
      BY <3>2 DEF p
  <2>5. (w * T) \div S = q - 1
    BY <1>15, <2>2, <2>4
  <2>6. Fraction(w) = q
    BY DEF Fraction, q, k
  <2>7. q - (q - 1) = 1
    BY <1>6
  <2>8. QED
    BY <2>5, <2>6, <2>7
<1>18. ASSUME w < Tk PROVE q \in 0 .. T - 1
  <2>1. q = T => qk = Tk
    OBVIOUS
  <2> HIDE DEF qk, Tk, T
  <2>2. q # T
    BY <1>5, <1>6, <1>7, <1>18, <2>1
  <2>3. QED
    BY <1>1, <1>6, <1>9, <1>10, <2>2
<1>19. w < T * k => Fraction(w) \in 0 .. T - 1
  <2>1. Fraction(w) = q
    BY DEF Fraction, q, k
  <2>2. QED
    BY <1>18, <2>1
<1>20. Fraction(w) - (w * T) \div S \in {0, 1}
  BY <1>14, <1>16, <1>17
<1>21. QED
  BY <1>19, <1>20 DEF k

LEMMA SecondsApart == word \in Word => PartsOfSecond
<1> SUFFICES ASSUME word \in Word PROVE PartsOfSecond
  OBVIOUS
<1> DEFINE n == word % Billion
           T == Thousand
<1>1. word \in Nat /\ n \in Nat /\ T \in Nat \ {0} /\ Million = T * T
  <2>1. word \in Nat
    BY WholeWord
  <2>2. n \in 0 .. Billion - 1
    <3>1. word \in Int /\ Billion \in Nat \ {0}
      BY <2>1, Thousands
    <3> DEFINE d == Billion
    <3>2. d \in Nat \ {0}
      BY <3>1
    <3> HIDE DEF d
    <3>3. word % d \in 0 .. d - 1
      BY <3>1, <3>2, Division
    <3>4. QED
      BY <3>3 DEF d
  <2>3. QED
    BY <2>1, <2>2, Thousands
<1>2. NsParts(word) = SubSecond(n)
  <2> DEFINE b == (n \div T) % T
             c == n % T
             m == n % Million
  <2>1. TwoDigits(n, T, T)
    BY <1>1, DivideTwice
  <2>2. n \div Million = (n \div T) \div T /\ m = b * T + c
    BY <1>1, <2>1 DEF TwoDigits
  <2>3. NsParts(word) = <<n \div Million, m \div T, m % T>>
    BY DEF NsParts
  <2>4. SubSecond(n) = <<(n \div T) \div T, b, c>> /\ b \in 0 .. T - 1 /\ c \in 0 .. T - 1
    BY <1>1, ThreeParts
  <2> HIDE DEF b, c, n, m
  <2>5. b \in Int
    BY <1>1, <2>4
  <2>6. (b * T + c) \div T = b /\ (b * T + c) % T = c
    BY <1>1, <2>4, <2>5, DivideExactly
  <2>7. m \div T = b /\ m % T = c
    BY <2>2, <2>6
  <2>8. QED
    BY <2>2, <2>3, <2>4, <2>7
<1>3. word < Thousand * (Span(4) \div Thousand) =>
          /\ Fraction(word) \in 0 .. Thousand - 1
          /\ Fraction(word) - (word * Thousand) \div Span(4) \in {0, 1}
  BY FractionClose
<1> DEFINE a == (word \div T) \div T
           b == (word \div T) % T
           c == word % T
<1>4. SubSecond(word) = <<a, b, c>> /\ b \in 0 .. T - 1 /\ c \in 0 .. T - 1
      /\ (a * T + b) * T + c = word
  BY <1>1, ThreeParts
<1> HIDE DEF a, b, c
<1>5. QED
  BY <1>2, <1>3, <1>4 DEF PartsOfSecond

LEMMA RatiosFound == word \in Word => RatiosFit
<1> SUFFICES ASSUME word \in Word PROVE RatiosFit
  OBVIOUS
<1> DEFINE m == word \div 10
           bound == 5 + m
           D == {i \in 4 .. bound : word % i = 0}
           r == GoldenRatio(word)
<1>1. word \in Nat
  BY WholeWord
<1>2. m \in Nat
  BY <1>1
<1>3. r = IF D # {} THEN Max(D) ELSE 3 + m
  BY DEF GoldenRatio, DefaultRatio, MaxRatio
<1>4. RatiosFit <=>
          /\ r \in 3 .. bound
          /\ \A i \in r + 1 .. bound : word % i # 0
          /\ word % r # 0 => \A i \in 4 .. bound : word % i # 0
  BY DEF RatiosFit
<1> HIDE DEF r, m
<1>5. CASE D # {}
  <2>1. D \in SUBSET Nat /\ \A k \in D : k <= bound
    BY <1>2
  <2>2. bound \in Nat
    BY <1>2
  <2>3. r \in D /\ \A y \in D : y <= r
    <3> HIDE DEF D, bound
    <3>1. QED
      BY <1>3, <1>5, <2>1, <2>2, MaxIs
  <2>4. r \in 4 .. bound /\ word % r = 0
    BY <2>3
  <2>5. \A i \in 4 .. bound : word % i = 0 => i <= r
    BY <2>3
  <2> HIDE DEF D, bound
  <2>6. \A i \in r + 1 .. bound : i \in 4 .. bound /\ ~ i <= r
    BY <2>2, <2>4
  <2>7. r \in 3 .. bound
    BY <2>2, <2>4
  <2>8. QED
    BY <1>4, <2>4, <2>5, <2>6, <2>7
<1>6. CASE D = {}
  <2>1. r = 3 + m
    BY <1>3, <1>6
  <2>2. \A i \in 4 .. bound : word % i # 0
    BY <1>6
  <2>3. r \in 3 .. bound /\ \A i \in r + 1 .. bound : i \in 4 .. bound
    BY <1>2, <2>1
  <2> HIDE DEF D, bound
  <2>4. QED
    BY <1>4, <2>2, <2>3
<1>7. QED
  BY <1>5, <1>6

\* A number without a bit below one is a multiple of its power.
LEMMA NoBitBelow ==
    ASSUME NEW d \in Nat, NEW k \in 0 .. Width, \A j \in 0 .. k - 1 : j \notin Bits(d)
    PROVE  d % Power[k] = 0
<1> DEFINE T == {i \in 0 .. k : d % Power[i] = 0}
<1>0. Width \in Nat /\ k \in Nat /\ k <= Width
  BY WidthAssumption
<1>1. 0 \in T
  <2>1. d % 1 = 0
    <3>1. (d * 1 + 0) % 1 = 0
      BY DivideExactly
    <3>2. QED
      BY <3>1
  <2>2. 0 \in 0 .. k
    BY <1>0
  <2>3. QED
    BY <2>1, <2>2, PowerIs
<1>2. ASSUME NEW n \in 0 .. k - 1, n \in T PROVE n + 1 \in T
  <2>1. n \in 0 .. Width - 1 /\ n \in 0 .. Width /\ n + 1 \in 1 .. Width /\ (n + 1) - 1 = n
        /\ n + 1 \in 0 .. k
    BY <1>0
  <2> DEFINE p == Power[n]
             b == (d \div p) % 2
  <2>2. p \in Nat \ {0} /\ Power[n + 1] = 2 * p /\ d % p = 0
    BY <1>2, <2>1, PowerIs
  <2>3. b # 1
    BY <2>1 DEF Bits, HasBit
  <2>4. TwoDigits(d, p, 2)
    <3> HIDE DEF p
    <3>1. QED
      BY <2>2, DivideTwice
  <2>5. d % (p * 2) = b * p + (d % p)
    BY <2>4 DEF TwoDigits
  <2>6. b \in 0 .. 1
    <3> HIDE DEF p
    <3>1. d \div p \in Int
      BY <2>2, Division
    <3>2. b \in 0 .. 2 - 1
      BY <3>1, Division
    <3>3. QED
      BY <3>2
  <2>7. b = 0
    <3> HIDE DEF b
    <3>1. QED
      BY <2>3, <2>6
  <2>8. d % (p * 2) = 0
    <3> HIDE DEF b
    <3>1. QED
      BY <2>2, <2>5, <2>7
  <2>9. p * 2 = 2 * p
    BY <2>2
  <2>10. d % Power[n + 1] = 0
    BY <2>2, <2>8, <2>9
  <2>11. QED
    BY <2>1, <2>10
<1>3. 0 .. k \subseteq T
  <2> HIDE DEF T
  <2>1. QED
    BY <1>0, <1>1, <1>2, InductiveUpTo
<1>4. QED
  BY <1>0, <1>3

LEMMA BitsRead == word \in Word => BitsFound
<1> SUFFICES ASSUME word \in Word PROVE BitsFound
  OBVIOUS
<1> DEFINE i == IndexByBit(word)
           B == Bits(word)
<1>1. word \in Nat /\ word % Span(4) = word /\ Width \in Nat /\ Power[Width] = Span(4)
  BY WholeWord, WidthAssumption
<1>2. i = IF B = {} THEN 0 ELSE Min(B) + 1
  BY DEF IndexByBit
<1>3. B \subseteq 0 .. Width - 1 /\ B \in SUBSET Nat
  BY <1>1 DEF Bits
<1>4. BitsFound <=>
          /\ i = 0 <=> word = 0
          /\ i \in 1 .. Width - 1 =>
                 word % BitByIndex(i) = 0 /\ (word \div BitByIndex(i)) % 2 = 1
  BY DEF BitsFound
<1>5. \A j \in 1 .. Width - 1 : BitByIndex(j) = Power[j - 1]
  <2> TAKE j \in 1 .. Width - 1
  <2>1. ~ (j = 0 \/ j > Width - 1)
    BY <1>1
  <2>2. QED
    BY <2>1 DEF BitByIndex
<1> HIDE DEF i
<1>6. CASE B = {}
  <2>1. \A j \in 0 .. Width - 1 : j \notin Bits(word)
    BY <1>6
  <2>2. Width \in 0 .. Width
    BY <1>1
  <2>3. word % Power[Width] = 0
    BY <1>1, <2>1, <2>2, NoBitBelow
  <2>4. word = 0
    BY <1>1, <2>3
  <2>5. i = 0
    BY <1>2, <1>6
  <2> HIDE DEF B
  <2>6. i \notin 1 .. Width - 1
    BY <2>5
  <2>7. QED
    BY <1>4, <2>4, <2>5, <2>6
<1>7. CASE B # {}
  <2> DEFINE m == Min(B)
  <2>1. m \in B /\ \A y \in B : m <= y
    <3> HIDE DEF B
    <3>1. QED
      BY <1>3, <1>7, MinIs
  <2>2. m \in 0 .. Width - 1 /\ m \in Nat /\ m \in 0 .. Width
    BY <1>1, <1>3, <2>1
  <2>3. i = m + 1
    BY <1>2, <1>7
  <2> HIDE DEF m
  <2>4. \A j \in 0 .. m - 1 : j \notin Bits(word)
    <3> TAKE j \in 0 .. m - 1
    <3>1. ~ m <= j
      BY <2>2
    <3>2. QED
      BY <2>1, <3>1
  <2>5. word % Power[m] = 0
    BY <1>1, <2>2, <2>4, NoBitBelow
  <2>6. (word \div Power[m]) % 2 = 1
    BY <2>1 DEF Bits, HasBit
  <2>7. word # 0
    <3> DEFINE p == Power[m]
    <3>1. p \in Nat \ {0} /\ (word \div p) % 2 = 1
      BY <2>2, <2>6, PowerIs
    <3> HIDE DEF p
    <3>2. (0 * p + 0) \div p = 0
      BY <3>1, DivideExactly
    <3>3. 0 \div p = 0
      BY <3>1, <3>2
    <3>4. 0 % 2 = 0
      OBVIOUS
    <3>5. QED
      BY <3>1, <3>3, <3>4
  <2>8. i # 0 /\ i - 1 = m
    BY <2>2, <2>3
  <2>9. i \in 1 .. Width - 1 => word % BitByIndex(i) = 0 /\ (word \div BitByIndex(i)) % 2 = 1
    BY <1>5, <2>5, <2>6, <2>8
  <2> HIDE DEF B
  <2>10. QED
    BY <1>4, <2>7, <2>8, <2>9
<1>8. QED
  BY <1>6, <1>7

\* Values in an array of bytes.
HasBytes(n, size) == ToByteArray(n, size) \in Seq(Nat) /\ Len(ToByteArray(n, size)) = size

LEMMA ByteNumbers ==
    ASSUME NEW n \in Nat, NEW i \in 0 .. 4
    PROVE  ByteOf(n, i) \in Byte /\ ByteOf(n, i) \in Nat
<1>1. Span(i) \in Nat \ {0}
  <2>1. i = 0 \/ i = 1 \/ i = 2 \/ i = 3 \/ i = 4
    OBVIOUS
  <2>2. QED
    BY <2>1, Spans
<1>2. n \div Span(i) \in Int
  BY <1>1, Division
<1> DEFINE q == n \div Span(i)
<1> HIDE DEF q
<1>3. q % Base \in 0 .. Base - 1
  BY <1>2, Spans, Division DEF q
<1>4. 0 .. Base - 1 \subseteq Nat
  BY Spans
<1>5. QED
  BY <1>3, <1>4 DEF ByteOf, Byte, q

LEMMA BytesOfWord ==
    ASSUME NEW n \in Nat, NEW size \in 0 .. 4
    PROVE  HasBytes(n, size)
<1> DEFINE b == ToByteArray(n, size)
<1>1. b = [i \in 1 .. size |-> ByteOf(n, i - 1)]
  BY DEF ToByteArray
<1>2. \A i \in 1 .. size : i - 1 \in 0 .. 4
  OBVIOUS
<1>3. b \in [1 .. size -> Nat]
  BY <1>1, <1>2, ByteNumbers
<1>4. size \in Nat
  OBVIOUS
<1> HIDE DEF b
<1>5. b \in Seq(Nat)
  BY <1>3, <1>4, SequenceOf
<1>6. Len(b) = size
  BY <1>3, <1>4, <1>5
<1>7. QED
  BY <1>5, <1>6 DEF HasBytes, b

ReadsBack(pre, dst, bytes, post) ==
    SafeMemoryCopy(dst, pre \o (bytes \o post), Len(pre)) = bytes

LEMMA CopiesBack ==
    ASSUME NEW pre \in Seq(Nat), NEW bytes \in Seq(Nat), NEW post \in Seq(Nat),
           NEW dst \in Seq(Nat), Len(dst) = Len(bytes)
    PROVE  ReadsBack(pre, dst, bytes, post)
<1> DEFINE src == pre \o (bytes \o post)
           x == Len(pre)
           y == Len(bytes)
<1>1. Len(src) = x + (y + Len(post)) /\ x \in Nat /\ y \in Nat /\ Len(post) \in Nat
  <2>1. bytes \o post \in Seq(Nat) /\ Len(bytes \o post) = y + Len(post)
    BY ConcatProperties
  <2>2. QED
    BY <2>1, ConcatProperties, LenProperties
<1>2. SubSeq(src, x + 1, x + y) = bytes
  BY MiddleOf
<1> HIDE DEF src, x, y
<1>3. Len(src) >= x + y
  BY <1>1
<1>4. Len(dst) = y
  BY DEF y
<1>5. SafeMemoryCopy(dst, src, x) = bytes
  BY <1>2, <1>3, <1>4 DEF SafeMemoryCopy
<1>6. QED
  BY <1>5 DEF ReadsBack, src, x

LEMMA ValuesRead == word \in Word => ValuesReadBack
<1> SUFFICES ASSUME word \in Word, NEW size \in {1, 2, 4}, NEW before \in 0 .. 1
             PROVE  LET bytes == ToByteArray(word, size)
                        array == [i \in 1 .. before |-> Base - 1] \o bytes
                    IN  /\ GetFromByteArray(array \o <<1>>, before, size) = bytes
                        /\ GetFromByteArray(array, before, size) = bytes
                        /\ GetFromByteArray(array, before + 1, size) = ToByteArray(0, size)
  BY DEF ValuesReadBack
<1> DEFINE bytes == ToByteArray(word, size)
           pre == [i \in 1 .. before |-> Base - 1]
           array == pre \o bytes
           dst == ToByteArray(0, size)
           one == <<1>>
           none == <<>>
<1>1. /\ bytes \in Seq(Nat) /\ Len(bytes) = size /\ dst \in Seq(Nat) /\ Len(dst) = size
  <2>1. word \in Nat /\ size \in 0 .. 4
    BY WholeWord
  <2>2. HasBytes(word, size) /\ HasBytes(0, size)
    BY <2>1, BytesOfWord
  <2>3. QED
    BY <2>2 DEF HasBytes
<1>2. pre \in Seq(Nat) /\ Len(pre) = before
  <2>1. Base - 1 \in Nat
    BY Spans
  <2>2. pre \in [1 .. before -> Nat] /\ before \in Nat
    BY <2>1
  <2> HIDE DEF pre
  <2>3. pre \in Seq(Nat)
    BY <2>2, SequenceOf
  <2>4. QED
    BY <2>2, <2>3
<1>3. one \in Seq(Nat) /\ none \in Seq(Nat)
  BY EmptySeq
<1> HIDE DEF bytes, pre, dst, one, none
<1>4. array \o one = pre \o (bytes \o one)
  <2>1. Associated(pre, bytes, one)
    BY <1>1, <1>2, <1>3, Associates
  <2>2. QED
    BY <2>1 DEF Associated
<1>5. array = pre \o (bytes \o none)
  <2>1. bytes \o none = bytes
    BY <1>1, ConcatEmptySeq DEF none
  <2>2. QED
    BY <2>1
<1>6. Len(array) = before + size
  BY <1>1, <1>2, ConcatProperties
<1>7. ReadsBack(pre, dst, bytes, one) /\ ReadsBack(pre, dst, bytes, none)
  BY <1>1, <1>2, <1>3, CopiesBack
<1> HIDE DEF array
<1>8. SafeMemoryCopy(dst, array \o one, before) = bytes
  BY <1>2, <1>4, <1>7 DEF ReadsBack
<1>9. SafeMemoryCopy(dst, array, before) = bytes
  BY <1>2, <1>5, <1>7 DEF ReadsBack
<1>10. SafeMemoryCopy(dst, array, before + 1) = dst
  <2>1. before \in Nat /\ size \in Nat
    OBVIOUS
  <2>2. ~ Len(array) >= before + 1 + Len(dst)
    BY <1>1, <1>6, <2>1
  <2>3. QED
    BY <2>2 DEF SafeMemoryCopy
<1>11. /\ GetFromByteArray(array \o one, before, size) = bytes
       /\ GetFromByteArray(array, before, size) = bytes
       /\ GetFromByteArray(array, before + 1, size) = dst
  BY <1>8, <1>9, <1>10 DEF GetFromByteArray, dst
<1>12. QED
  BY <1>11 DEF array, pre, bytes, one, dst

\* The base is even, because some power of 2 is its fourth power.
LEMMA EvenBase ==
    \E h \in Nat \ {0} : Base = 2 * h
<1> DEFINE p == Power[Width - 1]
           h == Base \div 2
           r == Base % 2
<1>1. Width \in Nat /\ Power[Width] = Span(4) /\ Base \in Nat /\ Base > 1
  BY WidthAssumption, BaseAssumption
<1>2. Span(4) > 1
  <2>1. Base * Base >= Base
    BY <1>1
  <2>2. Span(2) > 1
    BY <1>1, <2>1, Spans
  <2>3. Span(3) > 1
    <3>1. Span(2) * Base >= Span(2)
      BY <1>1, <2>2, Spans
    <3>2. QED
      BY <2>2, <3>1, Spans
  <2>4. Span(3) * Base >= Span(3)
    BY <1>1, <2>3, Spans
  <2>5. QED
    BY <2>3, <2>4, Spans
<1>3. Width # 0
  BY <1>1, <1>2, PowerIs
<1>4. Span(4) = 2 * p /\ p \in Nat
  <2>1. Width \in 1 .. Width /\ Width - 1 \in 0 .. Width
    BY <1>1, <1>3
  <2>2. QED
    BY <1>1, <2>1, PowerIs
<1> HIDE DEF p
<1>5. h \in Int /\ r \in 0 .. 1 /\ Base = h * 2 + r
  BY <1>1
<1> HIDE DEF h, r
<1>6. r # 1
  <2> SUFFICES ASSUME r = 1 PROVE FALSE
    OBVIOUS
  <2> DEFINE a == 2 * h * h + 2 * h
             b == 2 * a * a + 2 * a
  <2>1. a \in Int
    BY <1>5
  <2>2. Base * Base = 2 * a + 1
    BY <1>5
  <2>3. Span(2) * Span(2) = 2 * b + 1
    <3> HIDE DEF a
    <3>1. Span(2) = 2 * a + 1
      BY <2>2, Spans
    <3>2. (2 * a + 1) * (2 * a + 1) = 2 * (2 * a * a + 2 * a) + 1
      BY <2>1
    <3>3. QED
      BY <3>1, <3>2
  <2>4. Span(4) = Span(2) * Span(2)
    <3>1. (Base * Base) * Base * Base = (Base * Base) * (Base * Base)
      BY <1>1
    <3>2. QED
      BY <3>1 DEF Span
  <2>5. b \in Int
    <3> HIDE DEF a
    <3>1. QED
      BY <2>1
  <2> HIDE DEF b
  <2>6. 2 * p = 2 * b + 1
    BY <1>4, <2>3, <2>4
  <2>7. QED
    BY <1>4, <2>5, <2>6
<1>7. Base = 2 * h /\ h \in Nat \ {0}
  BY <1>1, <1>5, <1>6
<1>8. QED
  BY <1>7

LEMMA EvenSpan ==
    ASSUME NEW size \in {1, 2, 4}
    PROVE  \E h \in Nat \ {0} : Span(size) = 2 * h
<1>1. PICK h \in Nat \ {0} : Base = 2 * h
  BY EvenBase
<1>2. Base = 2 * h /\ Base \in Nat \ {0} /\ Span(2) \in Nat \ {0} /\ Span(3) \in Nat \ {0}
  BY <1>1, Spans
<1>3. Span(1) = 2 * h
  BY <1>2, Spans
<1>4. Span(2) = 2 * (h * Base) /\ h * Base \in Nat \ {0}
  <2>1. (2 * h) * Base = 2 * (h * Base)
    BY <1>2
  <2>2. h * Base \in Nat \ {0}
    BY <1>2
  <2>3. QED
    BY <1>2, <2>1, <2>2, Spans
<1>5. Span(4) = 2 * (Span(3) * h) /\ Span(3) * h \in Nat \ {0}
  <2>1. Span(3) * (2 * h) = 2 * (Span(3) * h)
    BY <1>2
  <2>2. Span(3) * h \in Nat \ {0}
    BY <1>2
  <2>3. QED
    BY <1>2, <2>1, <2>2, Spans
<1>6. QED
  BY <1>3, <1>4, <1>5

\* What is left of a number has the same bytes.
LEMMA SameBytes ==
    ASSUME NEW n \in Word, NEW size \in {1, 2, 4}, NEW i \in 1 .. size
    PROVE  ByteOf(n % Span(size), i - 1) = ByteOf(n, i - 1)
<1> DEFINE B == Base
           low == n % B
           high == (n \div B) % B
<1>1. n \in Nat /\ n % Span(4) = n /\ B \in Nat \ {0}
  BY WholeWord, Spans
<1>2. \A m \in Int : m \div 1 = m
  <2> TAKE m \in Int
  <2>1. (m * 1 + 0) \div 1 = m
    BY DivideExactly
  <2>2. QED
    BY <2>1
<1>3. low \in 0 .. B - 1 /\ high \in 0 .. B - 1 /\ n \div B \in Int
  <2>1. low \in 0 .. B - 1 /\ n \div B \in Int
    BY <1>1, Division
  <2> DEFINE q == n \div B
  <2> HIDE DEF q
  <2>2. q % B \in 0 .. B - 1
    BY <1>1, <2>1, Division DEF q
  <2>3. QED
    BY <2>1, <2>2 DEF q
<1>4. ByteOf(n, 0) = low /\ ByteOf(n, 1) = high
  BY <1>1, <1>2, Spans DEF ByteOf
<1>5. low % B = low /\ high % B = high
  <2> HIDE DEF low, high, B
  <2>1. (0 * B + low) % B = low /\ (0 * B + high) % B = high
    BY <1>1, <1>3, DivideExactly
  <2>2. 0 * B + low = low /\ 0 * B + high = high
    BY <1>1, <1>3
  <2>3. QED
    BY <2>1, <2>2
<1>6. CASE size = 4
  <2>1. n % Span(size) = n
    BY <1>1, <1>6
  <2>2. QED
    BY <2>1
<1>7. CASE size = 1
  <2>1. n % Span(size) = low /\ i - 1 = 0
    BY <1>7, Spans
  <2>2. low \in Int
    BY <1>1, <1>3
  <2>3. ByteOf(low, 0) = low % B
    <3> HIDE DEF low
    <3>1. low \div 1 = low
      BY <1>2, <2>2
    <3>2. QED
      BY <3>1, Spans DEF ByteOf
  <2>4. QED
    BY <1>4, <1>5, <2>1, <2>3
<1>8. CASE size = 2
  <2> DEFINE m == n % Span(2)
  <2>1. m = high * B + low /\ m % B = low
    <3>1. TwoDigits(n, B, B)
      BY <1>1, DivideTwice
    <3>2. QED
      BY <3>1, Spans DEF TwoDigits
  <2>2. m \div B = high
    <3>1. high \in Int
      BY <1>1, <1>3
    <3> HIDE DEF high, low, m
    <3>2. (high * B + low) \div B = high
      BY <1>1, <1>3, <3>1, DivideExactly
    <3>3. QED
      BY <2>1, <3>2
  <2>3. m \in Int
    <3> DEFINE d == Span(2)
    <3>0. d \in Nat \ {0}
      BY Spans
    <3> HIDE DEF d
    <3>1. n % d \in 0 .. d - 1
      BY <1>1, <3>0, Division
    <3>2. QED
      BY <3>0, <3>1 DEF d
  <2> HIDE DEF m
  <2>4. ByteOf(m, 0) = low /\ ByteOf(m, 1) = high
    <3>1. m \div 1 = m
      BY <1>2, <2>3
    <3>2. QED
      BY <1>5, <2>1, <2>2, <3>1, Spans DEF ByteOf
  <2>5. i - 1 = 0 \/ i - 1 = 1
    BY <1>8
  <2>6. QED
    BY <1>4, <1>8, <2>4, <2>5 DEF m
<1>9. QED
  BY <1>6, <1>7, <1>8

LEMMA CastsKeep == word \in Word => CastsKeepLowBytes
<1> SUFFICES ASSUME word \in Word, NEW size \in {1, 2, 4}
             PROVE  /\ ToByteArray(CastUnsigned(word, size), size)
                           = SubSeq(ToByteArray(word, 4), 1, size)
                    /\ CastUnsigned(word, size) - CastSigned(word, size) \in {0, Span(size)}
                    /\ CastSigned(word, size) < Span(size) \div 2
                    /\ -CastSigned(word, size) <= Span(size) \div 2
  BY DEF CastsKeepLowBytes
<1> DEFINE m == word % Span(size)
           S == Span(size)
           u == ToByteArray(m, size)
           v == ToByteArray(word, 4)
           v1 == SubSeq(v, 1, size)
<1>1. PICK h \in Nat \ {0} : S = 2 * h
  BY EvenSpan
<1>2. word \in Nat
  BY WholeWord
<1>3. m \in 0 .. S - 1
  <2>1. S \in Nat \ {0}
    BY <1>1
  <2> HIDE DEF S
  <2>2. word % S \in 0 .. S - 1
    BY <1>2, <2>1, Division
  <2>3. QED
    BY <2>2 DEF S
<1>4. S \div 2 = h
  BY <1>1
<1>5. u = v1
  <2>1. size \in 0 .. 4 /\ m \in Nat
    BY <1>1, <1>3
  <2>2. HasBytes(m, size) /\ HasBytes(word, 4)
    <3> HIDE DEF m
    <3>1. QED
      BY <1>2, <2>1, BytesOfWord
  <2>3. u \in Seq(Nat) /\ Len(u) = size /\ v \in Seq(Nat) /\ Len(v) = 4
    BY <2>2 DEF HasBytes
  <2>4. \A i \in 1 .. size : u[i] = v[i]
    <3> TAKE i \in 1 .. size
    <3>1. u[i] = ByteOf(m, i - 1)
      BY DEF ToByteArray
    <3>2. i \in 1 .. 4
      BY <2>1
    <3>3. v[i] = ByteOf(word, i - 1)
      BY <3>2 DEF ToByteArray
    <3>4. QED
      BY <3>1, <3>3, SameBytes
  <2> HIDE DEF u, v
  <2>5. v1 \in Seq(Nat) /\ Len(v1) = size /\ \A i \in 1 .. size : v1[i] = v[i]
    <3>1. size \in 0 .. Len(v)
      BY <2>1, <2>3
    <3>2. v1 \in Seq(Nat) /\ Len(v1) = size
      BY <2>3, <3>1, SplitAt, SMTT(20)
    <3>3. \A i \in 1 .. size : v[i] \in Nat
      <4>1. \A i \in 1 .. Len(v) : v[i] \in Nat
        BY <2>3, ElementOfSeq
      <4>2. QED
        BY <2>1, <2>3, <4>1
    <3>4. \A i \in 1 .. size - 1 + 1 : v1[i] = v[1 + i - 1]
      <4>1. 1 \in Int /\ size \in Int
        OBVIOUS
      <4>2. QED
        BY <3>3, <4>1, SubSeqProperties
    <3>5. QED
      BY <2>1, <3>2, <3>4
  <2> HIDE DEF v1
  <2>6. QED
    BY <2>3, <2>4, <2>5, SeqEqual, SMTT(20)
<1>6. CastUnsigned(word, size) = m /\ CastSigned(word, size) = IF 2 * m < S THEN m ELSE m - S
  BY DEF CastUnsigned, CastSigned
<1> HIDE DEF m, S, u, v1
<1> DEFINE c == CastSigned(word, size)
<1>7. c = IF 2 * m < S THEN m ELSE m - S
  BY <1>6
<1> HIDE DEF c
<1>8. m - c \in {0, S} /\ c < h /\ -c <= h
  <2>1. CASE 2 * m < S
    BY <1>1, <1>3, <1>7, <2>1
  <2>2. CASE ~ 2 * m < S
    BY <1>1, <1>3, <1>7, <2>2
  <2>3. QED
    BY <2>1, <2>2
<1>9. QED
  BY <1>4, <1>5, <1>6, <1>8 DEF u, v1, c, S

\* The numbers up to one, and what a filter takes of them.
UpTo(n) == [i \in 1 .. n |-> i]

Takes(n, K, s) == UpTo(n) \in Seq(Nat) /\ Filter(UpTo(n), K) = s

LEMMA TakesNone ==
    ASSUME NEW K
    PROVE  Takes(0, K, <<>>)
<1> DEFINE s == UpTo(0)
           none == <<>>
<1>1. s = none
  BY DEF UpTo
<1>2. none \in Seq(Nat) /\ Filter(none, K) = none
  BY EmptySeq, FilterEmpty
<1> HIDE DEF s, none
<1>3. s \in Seq(Nat) /\ Filter(s, K) = none
  BY <1>1, <1>2
<1>4. QED
  BY <1>3 DEF Takes, s, none

LEMMA TakesMore ==
    ASSUME NEW n \in Nat, NEW K, NEW s, Takes(n, K, s)
    PROVE  Takes(n + 1, K, IF n + 1 \in K THEN Append(s, n + 1) ELSE s)
<1> DEFINE u == UpTo(n)
           t == UpTo(n + 1)
           x == n + 1
<1>1. u \in Seq(Nat) /\ Filter(u, K) = s /\ x \in Nat
  BY DEF Takes
<1>2. t \in Seq(Nat) /\ Len(t) = x /\ \A i \in 1 .. x : t[i] = i
  <2>1. t \in [1 .. x -> Nat] /\ \A i \in 1 .. x : t[i] = i
    BY DEF UpTo
  <2> HIDE DEF t, x
  <2>2. t \in Seq(Nat)
    BY <1>1, <2>1, SequenceOf
  <2>3. QED
    BY <1>1, <2>1, <2>2
<1>3. Len(u) = n /\ \A i \in 1 .. n : u[i] = i
  BY DEF UpTo
<1> DEFINE v == Append(u, x)
<1>4. v \in Seq(Nat) /\ Len(v) = n + 1 /\ (\A i \in 1 .. n : v[i] = i) /\ v[n + 1] = x
  BY <1>1, <1>3, AppendProperties
<1> HIDE DEF t, u, v
<1>5. \A i \in 1 .. Len(v) : v[i] = t[i]
  BY <1>2, <1>4
<1>6. v = t
  BY <1>2, <1>4, <1>5, SeqEqual
<1>7. FiltersOne(u, x, K)
  BY <1>1, FilterOneMore
<1> HIDE DEF x
<1>8. Filter(t, K) = IF x \in K THEN Append(s, x) ELSE s
  BY <1>1, <1>6, <1>7 DEF FiltersOne, v
<1>9. QED
  BY <1>2, <1>8 DEF Takes, t, x

\* The dots of an address, and of one without its first octet.
LEMMA TakesDots ==
    ASSUME NEW K, 1 \notin K, 2 \in K, 3 \notin K, 4 \in K, 5 \notin K, 6 \in K, 7 \notin K, 8 \in K
    PROVE  Takes(8, K, <<2, 4, 6, 8>>)
<1> DEFINE a == <<>>
           b == <<2>>
           c == <<2, 4>>
           d == <<2, 4, 6>>
           e == <<2, 4, 6, 8>>
<1>0. Takes(0, K, a)
  BY TakesNone
<1>1. b = Append(a, 2) /\ c = Append(b, 4) /\ d = Append(c, 6) /\ e = Append(d, 8)
  OBVIOUS
<1> HIDE DEF a, b, c, d, e
<1>2. Takes(0 + 1, K, a)
  BY <1>0, TakesMore
<1>3. Takes(1 + 1, K, b)
  BY <1>1, <1>2, TakesMore
<1>4. Takes(2 + 1, K, b)
  BY <1>3, TakesMore
<1>5. Takes(3 + 1, K, c)
  BY <1>1, <1>4, TakesMore
<1>6. Takes(4 + 1, K, c)
  BY <1>5, TakesMore
<1>7. Takes(5 + 1, K, d)
  BY <1>1, <1>6, TakesMore
<1>8. Takes(6 + 1, K, d)
  BY <1>7, TakesMore
<1>9. Takes(7 + 1, K, e)
  BY <1>1, <1>8, TakesMore
<1>10. QED
  BY <1>9 DEF e

LEMMA TakesDotsOfThree ==
    ASSUME NEW K, 1 \in K, 2 \notin K, 3 \in K, 4 \notin K, 5 \in K, 6 \notin K, 7 \in K
    PROVE  Takes(7, K, <<1, 3, 5, 7>>)
<1> DEFINE a == <<>>
           b == <<1>>
           c == <<1, 3>>
           d == <<1, 3, 5>>
           e == <<1, 3, 5, 7>>
<1>0. Takes(0, K, a)
  BY TakesNone
<1>1. b = Append(a, 1) /\ c = Append(b, 3) /\ d = Append(c, 5) /\ e = Append(d, 7)
  OBVIOUS
<1> HIDE DEF a, b, c, d, e
<1>2. Takes(0 + 1, K, b)
  BY <1>1, <1>0, TakesMore
<1>3. Takes(1 + 1, K, b)
  BY <1>2, TakesMore
<1>4. Takes(2 + 1, K, c)
  BY <1>1, <1>3, TakesMore
<1>5. Takes(3 + 1, K, c)
  BY <1>4, TakesMore
<1>6. Takes(4 + 1, K, d)
  BY <1>1, <1>5, TakesMore
<1>7. Takes(5 + 1, K, d)
  BY <1>6, TakesMore
<1>8. Takes(6 + 1, K, e)
  BY <1>1, <1>7, TakesMore
<1>9. QED
  BY <1>8 DEF e

\* Between the dots.
Parts(str, ends) ==
    [i \in 1 .. Len(ends) - 1 |->
        IF ends[i + 1] = ends[i] + 2 THEN str[ends[i] + 1] ELSE NoNumber]

EndsOf(str) == {i \in 1 .. Len(str) + 1 : i > Len(str) \/ str[i] = Dot}

LEMMA ReadsParts ==
    ASSUME NEW str, NEW s, Takes(Len(str) + 1, EndsOf(str), s)
    PROVE  FromString(str) = FromStringList(Parts(str, <<0>> \o s))
BY DEF FromString, Parts, EndsOf, Takes, UpTo

LEMMA ReadsFour ==
    ASSUME NEW a \in Nat, NEW b \in Nat, NEW c \in Nat, NEW d \in Nat
    PROVE  FromString(<<a, Dot, b, Dot, c, Dot, d>>) = <<Octet(a), Octet(b), Octet(c), Octet(d)>>
<1> DEFINE str == <<a, Dot, b, Dot, c, Dot, d>>
           s == <<2, 4, 6, 8>>
           K == EndsOf(str)
           ends == <<0, 2, 4, 6, 8>>
           parts == Parts(str, ends)
<1>1. a # Dot /\ b # Dot /\ c # Dot /\ d # Dot
  BY DEF Dot
<1>2. Len(str) = 7
  OBVIOUS
<1>3. 1 \notin K /\ 2 \in K /\ 3 \notin K /\ 4 \in K /\ 5 \notin K /\ 6 \in K /\ 7 \notin K /\ 8 \in K
  <2>1. str[1] # Dot /\ str[2] = Dot /\ str[3] # Dot /\ str[4] = Dot /\ str[5] # Dot
        /\ str[6] = Dot /\ str[7] # Dot
    BY <1>1
  <2> HIDE DEF str
  <2>2. QED
    BY <1>2, <2>1 DEF EndsOf
<1>4. Takes(8, K, s)
  <2> HIDE DEF K, s
  <2>1. QED
    BY <1>3, TakesDots DEF s
<1>5. <<0>> \o s = ends
  <2>1. ends \in Seq(Nat) /\ ends # <<>> /\ Head(ends) = 0 /\ Tail(ends) = s
    OBVIOUS
  <2> HIDE DEF ends, s
  <2>2. ends = <<Head(ends)>> \o Tail(ends)
    BY <2>1, HeadAndTail
  <2>3. QED
    BY <2>1, <2>2
<1>6. FromString(str) = FromStringList(parts)
  <2> HIDE DEF str, s, ends
  <2>1. Takes(Len(str) + 1, EndsOf(str), s)
    BY <1>2, <1>4
  <2>2. QED
    BY <1>5, <2>1, ReadsParts
<1>7. parts = <<a, b, c, d>>
  BY DEF Parts
<1>8. FromStringList(<<a, b, c, d>>) = <<Octet(a), Octet(b), Octet(c), Octet(d)>>
  BY DEF FromStringList
<1>9. QED
  BY <1>6, <1>7, <1>8

LEMMA ReadsThree ==
    ASSUME NEW b \in Nat, NEW c \in Nat, NEW d \in Nat
    PROVE  FromString(<<Dot, b, Dot, c, Dot, d>>) = <<Octet(NoNumber), Octet(b), Octet(c), Octet(d)>>
<1> DEFINE str == <<Dot, b, Dot, c, Dot, d>>
           s == <<1, 3, 5, 7>>
           K == EndsOf(str)
           ends == <<0, 1, 3, 5, 7>>
           parts == Parts(str, ends)
<1>1. b # Dot /\ c # Dot /\ d # Dot
  BY DEF Dot
<1>2. Len(str) = 6
  OBVIOUS
<1>3. 1 \in K /\ 2 \notin K /\ 3 \in K /\ 4 \notin K /\ 5 \in K /\ 6 \notin K /\ 7 \in K
  <2>1. str[1] = Dot /\ str[2] # Dot /\ str[3] = Dot /\ str[4] # Dot /\ str[5] = Dot
        /\ str[6] # Dot
    BY <1>1
  <2> HIDE DEF str
  <2>2. QED
    BY <1>2, <2>1 DEF EndsOf
<1>4. Takes(7, K, s)
  <2> HIDE DEF K, s
  <2>1. QED
    BY <1>3, TakesDotsOfThree DEF s
<1>5. <<0>> \o s = ends
  <2>1. ends \in Seq(Nat) /\ ends # <<>> /\ Head(ends) = 0 /\ Tail(ends) = s
    OBVIOUS
  <2> HIDE DEF ends, s
  <2>2. ends = <<Head(ends)>> \o Tail(ends)
    BY <2>1, HeadAndTail
  <2>3. QED
    BY <2>1, <2>2
<1>6. FromString(str) = FromStringList(parts)
  <2> HIDE DEF str, s, ends
  <2>1. Takes(Len(str) + 1, EndsOf(str), s)
    BY <1>2, <1>4
  <2>2. QED
    BY <1>5, <2>1, ReadsParts
<1>7. parts = <<NoNumber, b, c, d>>
  BY DEF Parts
<1>8. FromStringList(<<NoNumber, b, c, d>>) = <<Octet(NoNumber), Octet(b), Octet(c), Octet(d)>>
  BY DEF FromStringList
<1>9. QED
  BY <1>6, <1>7, <1>8

\* An octet but 255 is itself.
LEMMA Octets ==
    /\ \A n \in Byte : Octet(n) = IF n = Base - 1 THEN 0 ELSE n
    /\ Octet(NoNumber) = 0
    /\ \A n \in Nat : Base <= n /\ n < Span(4) \div 2 => Octet(n) = 0
<1> DEFINE H == Span(4) \div 2
<1>1. PICK h \in Nat \ {0} : Span(4) = 2 * h
  <2>1. 4 \in {1, 2, 4}
    OBVIOUS
  <2>2. QED
    BY <2>1, EvenSpan
<1>2. H = h
  BY <1>1
<1>3. Base <= h /\ Base \in Nat /\ Base > 1
  <2>1. Base \in Nat /\ Base > 1 /\ Span(2) = Base * Base
    BY BaseAssumption, Spans
  <2>2. Base * Base >= 2 * Base
    BY <2>1
  <2>3. Span(2) \in Nat /\ Span(2) >= 2 * Base
    BY <2>1, <2>2, Spans
  <2>4. Span(3) \in Nat /\ Span(3) >= Span(2)
    <3>1. Span(2) * Base >= Span(2)
      BY <2>1, <2>3
    <3>2. QED
      BY <3>1, Spans
  <2>5. Span(3) * Base >= Span(3)
    BY <2>1, <2>4
  <2>6. 2 * h >= 2 * Base
    BY <1>1, <2>1, <2>3, <2>4, <2>5, Spans
  <2>7. QED
    BY <2>1, <2>6
<1> HIDE DEF H
<1>4. \A n \in Nat : n < H => ToInt(n) = n
  BY DEF ToInt, H
<1>5. ASSUME NEW n \in Byte PROVE Octet(n) = IF n = Base - 1 THEN 0 ELSE n
  <2>1. n \in 0 .. Base - 1
    BY DEF Byte
  <2>2. n \in Nat /\ n < H
    BY <1>2, <1>3, <2>1
  <2>3. ToInt(n) = n /\ n # NoNumber
    BY <1>4, <2>2 DEF NoNumber
  <2>4. Octet(n) = IF n < Base - 1 THEN n % Base ELSE 0
    BY <2>3 DEF Octet
  <2>5. n % Base = n
    <3>1. (0 * Base + n) % Base = n
      BY <1>3, <2>1, DivideExactly
    <3>2. 0 * Base + n = n
      BY <1>3, <2>2
    <3>3. QED
      BY <3>1, <3>2
  <2>6. QED
    BY <1>3, <2>1, <2>4, <2>5
<1>6. Octet(NoNumber) = 0
  BY DEF Octet
<1>7. ASSUME NEW n \in Nat, Base <= n, n < H PROVE Octet(n) = 0
  <2>1. ToInt(n) = n
    BY <1>4, <1>7
  <2>2. ~ ToInt(n) < Base - 1
    BY <1>3, <1>7, <2>1
  <2>3. QED
    BY <2>2 DEF Octet
<1>8. QED
  BY <1>5, <1>6, <1>7 DEF H

LEMMA AddressesRead == word \in Word => AddressesKept
<1> SUFFICES ASSUME word \in Word PROVE AddressesKept
  OBVIOUS
<1> DEFINE ip == [i \in 1 .. 4 |-> ByteOf(word, i - 1)]
           kept == [i \in 1 .. 4 |-> IF ip[i] = Base - 1 THEN 0 ELSE ip[i]]
           a == ip[1]
           b == ip[2]
           c == ip[3]
           d == ip[4]
           text == AddressText(ip)
<1>1. word \in Nat
  BY WholeWord
<1>2. /\ a \in Byte /\ b \in Byte /\ c \in Byte /\ d \in Byte
      /\ a \in Nat /\ b \in Nat /\ c \in Nat /\ d \in Nat
  BY <1>1, ByteNumbers
<1>3. text = <<a, Dot, b, Dot, c, Dot, d>>
  BY DEF AddressText
<1>4. AddressesKept <=>
          /\ FromString(text) = kept
          /\ FromString(Tail(text)) = FromString([text EXCEPT ![1] = 0])
          /\ Base <= word /\ word < Span(4) \div 2 => Octet(word) = 0
          /\ FromStringList(<<word, word, word>>) = <<0, 0, 0, 0>>
          /\ Octet(NoNumber) = 0
  BY DEF AddressesKept
<1>5. kept = <<Octet(a), Octet(b), Octet(c), Octet(d)>>
  <2>1. \A i \in 1 .. 4 : ip[i] \in Byte
    BY <1>1, ByteNumbers
  <2> HIDE DEF ip
  <2>2. kept = [i \in 1 .. 4 |-> Octet(ip[i])]
    BY <2>1, Octets
  <2>3. QED
    BY <2>2
<1> HIDE DEF ip, a, b, c, d, kept
<1>6. FromString(text) = kept
  BY <1>2, <1>3, <1>5, ReadsFour
<1>7. Tail(text) = <<Dot, b, Dot, c, Dot, d>> /\ [text EXCEPT ![1] = 0] = <<0, Dot, b, Dot, c, Dot, d>>
  <2> HIDE DEF text
  <2>1. QED
    BY <1>3
<1> HIDE DEF text
<1>8. 0 \in Byte /\ 0 \in Nat /\ Octet(0) = 0
  <2>1. 0 \in Byte
    BY BaseAssumption DEF Byte
  <2>2. Octet(0) = IF 0 = Base - 1 THEN 0 ELSE 0
    BY <2>1, Octets
  <2>3. QED
    BY <2>1, <2>2
<1>9. FromString(Tail(text)) = FromString([text EXCEPT ![1] = 0])
  <2> DEFINE short == <<Dot, b, Dot, c, Dot, d>>
             zero == <<0, Dot, b, Dot, c, Dot, d>>
             read == <<0, Octet(b), Octet(c), Octet(d)>>
  <2>1. FromString(short) = read
    BY <1>2, ReadsThree, Octets
  <2>2. FromString(zero) = read
    BY <1>2, <1>8, ReadsFour
  <2>3. Tail(text) = short /\ [text EXCEPT ![1] = 0] = zero
    BY <1>7
  <2> HIDE DEF short, zero, read
  <2>4. QED
    BY <2>1, <2>2, <2>3
<1>10. FromStringList(<<word, word, word>>) = <<0, 0, 0, 0>>
  BY DEF FromStringList
<1>11. QED
  BY <1>1, <1>4, <1>6, <1>9, <1>10, Octets

\* The sums on the way to the number that has those bits.
Summing(f, ones) ==
    /\ f[0] = 0
    /\ \A i \in 1 .. Width :
          f[i] = f[i - 1] + (IF i - 1 \in ones THEN Power[i - 1] ELSE 0)

LEMMA SumExists ==
    ASSUME NEW ones
    PROVE  \E f : Summing(f, ones) /\ NumberOf(ones) = f[Width]
<1> DEFINE N == Width
           Of(i) == IF i - 1 \in ones THEN Power[i - 1] ELSE 0
           Step(f, i) == IF i = 0 THEN 0 ELSE f[i - 1] + Of(i)
           next == [i \in 1 .. N |-> [n \in Nat |-> n + Of(i)]]
           first == 0
           sum == CHOOSE f : f = [i \in 0 .. N |-> Step(f, i)]
<1>1. N \in Nat /\ first \in Nat
  BY WidthAssumption
<1>2. \A i \in 1 .. N : Of(i) \in Nat
  <2> TAKE i \in 1 .. N
  <2>1. i - 1 \in 0 .. Width
    BY <1>1
  <2>2. QED
    BY <2>1, PowerIs
<1> HIDE DEF Of
<1>3. next \in [1 .. N -> [Nat -> Nat]]
  BY <1>2
<1>4. PICK f \in [0 .. N -> Nat] : Follows(f, N, first, next)
  <2> HIDE DEF next, N, first
  <2>1. QED
    BY <1>1, <1>3, Recursion
<1>5. \A n \in 0 .. N : f[n] = Step(f, n)
  <2> TAKE n \in 0 .. N
  <2>1. CASE n = 0
    BY <1>4, <2>1 DEF Follows
  <2>2. CASE n # 0
    <3>1. n \in 1 .. N /\ n - 1 \in 0 .. N
      BY <1>1, <2>2
    <3>2. f[n - 1] \in Nat
      BY <1>4, <3>1
    <3>3. f[n] = next[n][f[n - 1]]
      <4> HIDE DEF next
      <4>1. QED
        BY <1>4, <2>2, <3>1 DEF Follows
    <3>4. QED
      BY <2>2, <3>1, <3>2, <3>3
  <2>3. QED
    BY <2>1, <2>2
<1>6. f = [n \in 0 .. N |-> Step(f, n)]
  BY <1>5
<1>7. sum = [n \in 0 .. N |-> Step(sum, n)]
  <2> HIDE DEF Step
  <2>1. \E g : g = [n \in 0 .. N |-> Step(g, n)]
    BY <1>6
  <2>2. QED
    BY <2>1, Zenon
<1>8. NumberOf(ones) = sum[N]
  BY DEF NumberOf, Of
<1> HIDE DEF sum
<1>9. \A n \in 0 .. N : sum[n] = Step(sum, n)
  <2> HIDE DEF Step
  <2> TAKE n \in 0 .. N
  <2>1. [m \in 0 .. N |-> Step(sum, m)][n] = Step(sum, n)
    OBVIOUS
  <2>2. QED
    BY <1>7, <2>1, Zenon
<1>10. sum[0] = 0
  <2>1. 0 \in 0 .. N
    BY <1>1
  <2>2. QED
    BY <1>9, <2>1
<1>11. \A n \in 1 .. N : sum[n] = sum[n - 1] + Of(n)
  <2> TAKE n \in 1 .. N
  <2>1. n \in 0 .. N /\ n # 0
    BY <1>1
  <2>2. QED
    BY <1>9, <2>1
<1>12. Summing(sum, ones)
  BY <1>10, <1>11 DEF Summing, Of
<1>13. QED
  BY <1>8, <1>12

\* All bits below one make the number before its power.
LEMMA AllBelow ==
    ASSUME NEW t \in 0 .. Width
    PROVE  NumberOf(0 .. t - 1) = Power[t] - 1
<1> DEFINE ones == 0 .. t - 1
<1>1. PICK f : Summing(f, ones) /\ NumberOf(ones) = f[Width]
  BY SumExists
<1>2. Width \in Nat /\ t \in Nat /\ t <= Width
  BY WidthAssumption
<1> DEFINE T == {i \in 0 .. Width : f[i] = IF i <= t THEN Power[i] - 1 ELSE Power[t] - 1}
<1>3. 0 \in T
  BY <1>1, <1>2, PowerIs DEF Summing
<1>4. ASSUME NEW n \in 0 .. Width - 1, n \in T PROVE n + 1 \in T
  <2>1. n + 1 \in 1 .. Width /\ (n + 1) - 1 = n /\ n + 1 \in 0 .. Width /\ n \in 0 .. Width
        /\ n \in Nat
    BY <1>2
  <2>2. f[n + 1] = f[n] + (IF n \in ones THEN Power[n] ELSE 0)
    BY <1>1, <2>1 DEF Summing
  <2>3. Power[n + 1] = 2 * Power[n] /\ Power[n] \in Nat /\ Power[t] \in Nat
    BY <1>2, <2>1, PowerIs
  <2>4. f[n] = IF n <= t THEN Power[n] - 1 ELSE Power[t] - 1
    BY <1>4
  <2>5. CASE n < t
    <3>1. n \in ones /\ n <= t /\ n + 1 <= t
      BY <1>2, <2>1, <2>5
    <3>2. f[n + 1] = Power[n + 1] - 1
      BY <2>2, <2>3, <2>4, <3>1
    <3>3. QED
      BY <2>1, <3>1, <3>2
  <2>6. CASE n >= t
    <3>1. n \notin ones /\ ~ n + 1 <= t /\ (n <= t => n = t)
      BY <1>2, <2>1, <2>6
    <3>2. f[n + 1] = Power[t] - 1
      BY <2>2, <2>3, <2>4, <3>1
    <3>3. QED
      BY <2>1, <3>1, <3>2
  <2>7. QED
    BY <1>2, <2>1, <2>5, <2>6
<1>5. 0 .. Width \subseteq T
  <2> HIDE DEF T
  <2>1. QED
    BY <1>2, <1>3, <1>4, InductiveUpTo
<1>6. Width \in T
  BY <1>2, <1>5
<1>7. f[Width] = Power[t] - 1
  <2>1. Width <= t => Width = t
    BY <1>2
  <2>2. QED
    BY <1>6, <2>1
<1>8. QED
  BY <1>1, <1>7

-----------------------------------------------------------------------------
\* The bits on the way to a power of 2.
Smearing(f, x) ==
    /\ f[0] = Bits(Wrapped(x - 1))
    /\ \A k \in 1 .. Width :
          f[k] = IF Power[k - 1] < Width THEN Smear(f[k - 1], Power[k - 1]) ELSE f[k - 1]

LEMMA Smeared ==
    ASSUME NEW ones \in SUBSET Int, NEW p \in Nat, NEW y
    PROVE  y \in Smear(ones, p) <=> y \in ones \/ (y \in Nat /\ y + p \in ones)
<1> DEFINE high == {i \in ones : i >= p}
           moved == {i - p : i \in high}
<1>1. Smear(ones, p) = ones \cup moved
  BY DEF Smear
<1>2. y \in moved => y \in Nat /\ y + p \in ones
  <2> SUFFICES ASSUME NEW i \in high, y = i - p PROVE y \in Nat /\ y + p \in ones
    OBVIOUS
  <2>1. i \in Int /\ i >= p /\ i \in ones
    OBVIOUS
  <2>2. y \in Nat /\ y + p = i
    BY <2>1
  <2>3. QED
    BY <2>1, <2>2
<1>3. ASSUME y \in Nat, y + p \in ones PROVE y \in moved
  <2>1. y + p \in high /\ y = (y + p) - p
    BY <1>3
  <2> HIDE DEF high
  <2>2. QED
    BY <2>1
<1> HIDE DEF moved
<1>4. QED
  BY <1>1, <1>2, <1>3

LEMMA SmearExists ==
    ASSUME NEW x
    PROVE  \E f : Smearing(f, x) /\ Clp2(x) = Wrapped(NumberOf(f[Width]) + 1)
<1> DEFINE N == Width
           X == SUBSET Int
           Of(k, s) == IF Power[k - 1] < Width THEN Smear(s, Power[k - 1]) ELSE s
           Step(f, k) == IF k = 0 THEN Bits(Wrapped(x - 1)) ELSE Of(k, f[k - 1])
           next == [k \in 1 .. N |-> [s \in X |-> Of(k, s)]]
           first == Bits(Wrapped(x - 1))
           ones == CHOOSE f : f = [k \in 0 .. N |-> Step(f, k)]
<1>1. N \in Nat /\ first \in X
  BY WidthAssumption DEF Bits
<1>2. \A k \in 1 .. N, s \in X : Of(k, s) \in X
  <2> TAKE k \in 1 .. N, s \in X
  <2> DEFINE p == Power[k - 1]
  <2>1. k - 1 \in 0 .. Width
    BY <1>1
  <2>2. p \in Nat
    BY <2>1, PowerIs
  <2> HIDE DEF p
  <2>3. Smear(s, p) \in X
    <3>1. ASSUME NEW y \in Smear(s, p) PROVE y \in Int
      <4>1. y \in s \/ y \in Nat
        BY <2>2, Smeared
      <4>2. s \subseteq Int
        OBVIOUS
      <4>3. CASE y \in s
        BY <4>2, <4>3
      <4>4. CASE y \in Nat
        BY <4>4
      <4>5. QED
        BY <4>1, <4>3, <4>4
    <3>2. QED
      BY <3>1
  <2>4. QED
    BY <2>3 DEF p
<1>3. next \in [1 .. N -> [X -> X]]
  <2> HIDE DEF Of, X
  <2>1. QED
    BY <1>2
<1>4. PICK f \in [0 .. N -> X] : Follows(f, N, first, next)
  <2> HIDE DEF next, N, first, X
  <2>1. QED
    BY <1>1, <1>3, Recursion
<1> HIDE DEF Of, X
<1>5. \A n \in 0 .. N : f[n] = Step(f, n)
  <2> TAKE n \in 0 .. N
  <2>1. CASE n = 0
    BY <1>4, <2>1 DEF Follows
  <2>2. CASE n # 0
    <3>1. n \in 1 .. N /\ n - 1 \in 0 .. N
      BY <1>1, <2>2
    <3>2. f[n - 1] \in X
      BY <1>4, <3>1
    <3>3. f[n] = next[n][f[n - 1]]
      <4> HIDE DEF next
      <4>1. QED
        BY <1>4, <2>2, <3>1 DEF Follows
    <3>4. QED
      BY <2>2, <3>1, <3>2, <3>3
  <2>3. QED
    BY <2>1, <2>2
<1>6. f = [n \in 0 .. N |-> Step(f, n)]
  <2> HIDE DEF Step
  <2>1. QED
    BY <1>4, <1>5
<1>7. ones = [n \in 0 .. N |-> Step(ones, n)]
  <2> HIDE DEF Step
  <2>1. \E g : g = [n \in 0 .. N |-> Step(g, n)]
    BY <1>6
  <2>2. QED
    BY <2>1, Zenon
<1>8. Clp2(x) = Wrapped(NumberOf(ones[N]) + 1)
  BY DEF Clp2, Of
<1> HIDE DEF ones
<1>9. \A n \in 0 .. N : ones[n] = Step(ones, n)
  <2> HIDE DEF Step
  <2> TAKE n \in 0 .. N
  <2>1. [m \in 0 .. N |-> Step(ones, m)][n] = Step(ones, n)
    OBVIOUS
  <2>2. QED
    BY <1>7, <2>1, Zenon
<1>10. ones[0] = first
  <2>1. 0 \in 0 .. N
    BY <1>1
  <2>2. QED
    BY <1>9, <2>1
<1>11. \A n \in 1 .. N : ones[n] = Of(n, ones[n - 1])
  <2> TAKE n \in 1 .. N
  <2>1. n \in 0 .. N /\ n # 0
    BY <1>1
  <2>2. QED
    BY <1>9, <2>1
<1>12. Smearing(ones, x)
  BY <1>10, <1>11 DEF Smearing, Of
<1>13. QED
  BY <1>8, <1>12

\* Powers grow, and faster than their indices.
LEMMA PowersGrow ==
    /\ \A i, j \in 0 .. Width : i <= j => Power[i] <= Power[j]
    /\ \A i \in 0 .. Width : Power[i] > i
<1> DEFINE T == {j \in 0 .. Width : Power[j] > j /\ \A i \in 0 .. j : Power[i] <= Power[j]}
<1>1. Width \in Nat
  BY WidthAssumption
<1>2. 0 \in T
  <2>1. 0 \in 0 .. Width /\ Power[0] = 1 /\ \A i \in 0 .. 0 : i = 0
    BY <1>1, PowerIs
  <2>2. QED
    BY <2>1
<1>3. ASSUME NEW n \in 0 .. Width - 1, n \in T PROVE n + 1 \in T
  <2>1. n + 1 \in 1 .. Width /\ (n + 1) - 1 = n /\ n + 1 \in 0 .. Width /\ n \in 0 .. Width
        /\ n \in Nat
    BY <1>1
  <2>2. Power[n + 1] = 2 * Power[n] /\ Power[n] \in Nat \ {0} /\ Power[n] > n
    BY <1>3, <2>1, PowerIs
  <2>3. Power[n + 1] > n + 1 /\ Power[n] <= Power[n + 1]
    BY <2>1, <2>2
  <2>4. ASSUME NEW i \in 0 .. n + 1 PROVE Power[i] <= Power[n + 1]
    <3>1. CASE i = n + 1
      BY <2>2, <3>1
    <3>2. CASE i \in 0 .. n
      <4>1. Power[i] <= Power[n] /\ i \in 0 .. Width
        BY <1>1, <1>3, <3>2
      <4>2. Power[i] \in Nat
        BY <4>1, PowerIs
      <4>3. QED
        BY <2>2, <2>3, <4>1, <4>2
    <3>3. QED
      BY <3>1, <3>2
  <2>5. QED
    BY <2>1, <2>3, <2>4
<1>4. 0 .. Width \subseteq T
  <2> HIDE DEF T
  <2>1. QED
    BY <1>1, <1>2, <1>3, InductiveUpTo
<1>5. \A j \in 0 .. Width : Power[j] > j /\ \A i \in 0 .. j : Power[i] <= Power[j]
  BY <1>4
<1>6. \A i, j \in 0 .. Width : i <= j => i \in 0 .. j
  OBVIOUS
<1> HIDE DEF T
<1>7. QED
  BY <1>5, <1>6

\* The first power of 2 above a word.
Above(d, t) ==
    /\ t \in 0 .. Width /\ d < Power[t]
    /\ \A i \in 0 .. Width : i < t => Power[i] <= d

LEMMA AboveExists ==
    ASSUME NEW d \in Word
    PROVE  \E t : Above(d, t)
<1> DEFINE T == {i \in 0 .. Width : d < Power[i]}
<1>1. Width \in Nat /\ d \in Nat /\ d < Power[Width]
  BY WidthAssumption, Spans DEF Word
<1>2. T \in SUBSET Nat /\ T # {}
  BY <1>1
<1>3. PICK t \in T : \A i \in T : t <= i
  <2> HIDE DEF T
  <2>1. QED
    BY <1>2, LeastNumber
<1>4. ASSUME NEW i \in 0 .. Width, i < t PROVE Power[i] <= d
  <2>1. i \notin T
    BY <1>2, <1>3, <1>4
  <2>2. ~ d < Power[i] /\ Power[i] \in Nat
    BY <2>1, PowerIs
  <2>3. QED
    BY <1>1, <2>2
<1>5. Above(d, t)
  BY <1>3, <1>4 DEF Above
<1>6. QED
  BY <1>5

\* The highest bit is the one below it.
LEMMA HighestBit ==
    ASSUME NEW d \in Word, NEW t, Above(d, t)
    PROVE  Bits(d) \subseteq 0 .. t - 1 /\ (t > 0 => t - 1 \in Bits(d))
<1>1. t \in 0 .. Width /\ d < Power[t] /\ Width \in Nat /\ d \in Nat /\ t \in Nat
  BY WholeWord, WidthAssumption DEF Above
<1>2. ASSUME NEW i \in Bits(d) PROVE i \in 0 .. t - 1
  <2> SUFFICES ASSUME ~ i < t PROVE FALSE
    BY <1>1 DEF Bits
  <2> DEFINE p == Power[i]
  <2>1. i \in 0 .. Width - 1 /\ i \in 0 .. Width /\ t <= i /\ (d \div p) % 2 = 1
    BY <1>1 DEF Bits, HasBit
  <2>2. p \in Nat \ {0} /\ d < p
    <3>1. Power[t] <= p /\ Power[t] \in Nat /\ p \in Nat \ {0}
      BY <1>1, <2>1, PowersGrow, PowerIs
    <3> HIDE DEF p
    <3>2. QED
      BY <1>1, <3>1
  <2> HIDE DEF p
  <2>3. (0 * p + d) \div p = 0
    BY <1>1, <2>2, DivideExactly
  <2>4. 0 * p + d = d
    BY <1>1, <2>2
  <2>5. QED
    BY <2>1, <2>3, <2>4
<1>3. ASSUME t > 0 PROVE t - 1 \in Bits(d)
  <2> DEFINE p == Power[t - 1]
             r == d - p
  <2>1. t \in 1 .. Width /\ t - 1 \in 0 .. Width /\ t - 1 < t /\ t - 1 \in 0 .. Width - 1
    BY <1>1, <1>3
  <2>2. p \in Nat \ {0} /\ p <= d /\ Power[t] = 2 * p
    BY <2>1, PowerIs DEF Above
  <2> HIDE DEF p
  <2>3. r \in 0 .. p - 1 /\ 1 * p + r = d
    BY <1>1, <2>2
  <2> HIDE DEF r
  <2>4. (1 * p + r) \div p = 1
    BY <2>2, <2>3, DivideExactly
  <2>5. (d \div p) % 2 = 1
    BY <2>3, <2>4
  <2>6. QED
    BY <2>1, <2>5 DEF Bits, HasBit, p
<1>4. QED
  BY <1>2, <1>3

\* Smearing ends with every bit below it.
LEMMA SmearedAll ==
    ASSUME NEW x \in Int, NEW t, Above(Wrapped(x - 1), t)
    PROVE  Clp2(x) = Wrapped(Power[t])
<1> DEFINE d == Wrapped(x - 1)
           below == 0 .. t - 1
<1>0. Span(4) \in Nat \ {0} /\ x - 1 \in Int
  BY Spans
<1>1. d \in Word
  <2>1. (x - 1) % Span(4) \in 0 .. Span(4) - 1
    <3> DEFINE n == x - 1
               S == Span(4)
    <3>1. n \in Int /\ S \in Nat \ {0}
      BY <1>0
    <3> HIDE DEF n, S
    <3>2. n % S \in 0 .. S - 1
      BY <3>1, Division
    <3>3. QED
      BY <3>2 DEF n, S
  <2>2. QED
    BY <2>1 DEF Wrapped, Word
<1>2. PICK f : Smearing(f, x) /\ Clp2(x) = Wrapped(NumberOf(f[Width]) + 1)
  BY SmearExists
<1>3. t \in 0 .. Width /\ Width \in Nat /\ t \in Nat
  BY WidthAssumption DEF Above
<1>4. Bits(d) \subseteq below /\ (t > 0 => t - 1 \in Bits(d))
  <2> HIDE DEF d
  <2>1. QED
    BY <1>1, HighestBit DEF d
<1> DEFINE T == {k \in 0 .. Width :
                    /\ f[k] \subseteq below
                    /\ \A i \in below : i + Power[k] >= t => i \in f[k]}
<1>5. 0 \in T
  <2>1. f[0] = Bits(d) /\ Power[0] = 1 /\ 0 \in 0 .. Width
    BY <1>2, <1>3, PowerIs DEF Smearing
  <2>2. \A i \in below : i + 1 >= t => i = t - 1 /\ t > 0
    BY <1>3
  <2>3. QED
    BY <1>4, <2>1, <2>2
<1>6. ASSUME NEW n \in 0 .. Width - 1, n \in T PROVE n + 1 \in T
  <2> DEFINE p == Power[n]
             s == f[n]
  <2>1. n + 1 \in 1 .. Width /\ (n + 1) - 1 = n /\ n + 1 \in 0 .. Width /\ n \in 0 .. Width
    BY <1>3
  <2>2. p \in Nat \ {0} /\ Power[n + 1] = 2 * p
    BY <2>1, PowerIs
  <2>3. f[n + 1] = IF p < Width THEN Smear(s, p) ELSE s
    BY <1>2, <2>1 DEF Smearing
  <2>4. s \subseteq below /\ \A i \in below : i + p >= t => i \in s
    BY <1>6
  <2> HIDE DEF p, s
  <2>5. s \in SUBSET Int
    BY <2>4
  <2>6. CASE p < Width
    <3>1. \A y : y \in f[n + 1] <=> y \in s \/ (y \in Nat /\ y + p \in s)
      <4> TAKE y
      <4>1. y \in Smear(s, p) <=> y \in s \/ (y \in Nat /\ y + p \in s)
        BY <2>2, <2>5, Smeared
      <4>2. QED
        BY <2>3, <2>6, <4>1
    <3>2. f[n + 1] \subseteq below
      <4> SUFFICES ASSUME NEW y \in f[n + 1] PROVE y \in below
        OBVIOUS
      <4>1. y \in s \/ (y \in Nat /\ y + p \in s)
        BY <3>1
      <4>2. CASE y \in s
        BY <2>4, <4>2
      <4>3. CASE y \in Nat /\ y + p \in s
        <5>1. y + p \in 0 .. t - 1 /\ y \in Nat
          BY <2>4, <4>3
        <5>2. y \in 0 .. t - 1
          BY <1>3, <2>2, <5>1
        <5>3. QED
          BY <5>2
      <4>4. QED
        BY <4>1, <4>2, <4>3
    <3>3. ASSUME NEW i \in below, i + 2 * p >= t PROVE i \in f[n + 1]
      <4>1. CASE i + p >= t
        BY <2>4, <3>1, <4>1
      <4>2. CASE ~ i + p >= t
        <5>1. i \in Nat /\ i + p \in below /\ (i + p) + p >= t
          BY <1>3, <2>2, <3>3, <4>2
        <5>2. i + p \in s
          BY <2>4, <5>1
        <5>3. QED
          BY <3>1, <5>1, <5>2
      <4>3. QED
        BY <4>1, <4>2
    <3> HIDE DEF below
    <3>4. QED
      BY <2>1, <2>2, <3>2, <3>3
  <2>7. CASE ~ p < Width
    <3>1. f[n + 1] = s
      BY <2>3, <2>7
    <3>2. \A i \in below : i + p >= t
      BY <1>3, <2>2, <2>7
    <3> HIDE DEF below
    <3>3. f[n + 1] \subseteq below /\ \A i \in below : i \in f[n + 1]
      BY <2>4, <3>1, <3>2
    <3>4. QED
      BY <2>1, <3>3
  <2>8. QED
    BY <2>6, <2>7
<1>7. 0 .. Width \subseteq T
  <2> HIDE DEF T
  <2>1. QED
    BY <1>3, <1>5, <1>6, InductiveUpTo
<1>8. f[Width] = below
  <2>1. Width \in T
    BY <1>3, <1>7
  <2>2. f[Width] \subseteq below /\ \A i \in below : i + Power[Width] >= t => i \in f[Width]
    BY <2>1
  <2>3. Power[Width] > Width /\ Power[Width] \in Nat
    BY <1>3, PowersGrow, PowerIs
  <2>4. \A i \in below : i + Power[Width] >= t
    BY <1>3, <2>3
  <2> HIDE DEF below
  <2>5. QED
    BY <2>2, <2>4
<1>9. NumberOf(f[Width]) = Power[t] - 1
  BY <1>3, <1>8, AllBelow
<1>10. (Power[t] - 1) + 1 = Power[t]
  BY <1>3, PowerIs
<1>11. QED
  BY <1>2, <1>9, <1>10

LEMMA SmallPower ==
    ASSUME NEW i \in 0 .. Width - 1
    PROVE  i \in 0 .. Width /\ Power[i] \in Nat \ {0} /\ 2 * Power[i] <= Span(4) /\ Span(4) \in Nat \ {0}
<1>1. /\ Width \in Nat /\ Width \in 1 .. Width /\ Width - 1 \in 0 .. Width /\ i \in 0 .. Width
      /\ i <= Width - 1
  BY WidthAssumption
<1>2. Power[Width] = 2 * Power[Width - 1] /\ Power[Width] = Span(4)
  BY <1>1, PowerIs, WidthAssumption
<1>3. Power[i] \in Nat \ {0} /\ Power[Width - 1] \in Nat \ {0} /\ Power[i] <= Power[Width - 1]
  BY <1>1, PowerIs, PowersGrow
<1>4. Span(4) \in Nat \ {0}
  BY Spans
<1>5. QED
  BY <1>1, <1>2, <1>3, <1>4

LEMMA PowersRead == word \in Word => PowersFound
<1> SUFFICES ASSUME word \in Word PROVE PowersFound
  OBVIOUS
<1> DEFINE S == Span(4)
           d == Wrapped(word - 1)
           powers == {p \in {Power[i] : i \in 0 .. Width - 1} : p >= word}
           least == IF word = 0 \/ powers = {} THEN 0 ELSE Min(powers)
<1>0. S \in Nat \ {0} /\ word \in 0 .. S - 1 /\ word \in Nat /\ Width \in Nat
  BY Spans, WidthAssumption DEF Word
<1>1. d = IF word = 0 THEN S - 1 ELSE word - 1
  <2> HIDE DEF S
  <2>1. CASE word = 0
    <3>1. S - 1 \in 0 .. S - 1
      BY <1>0
    <3>2. ((-1) * S + (S - 1)) % S = S - 1
      BY <1>0, <3>1, DivideExactly, SMTT(20)
    <3>3. (-1) * S + (S - 1) = word - 1
      BY <1>0, <2>1
    <3>4. QED
      BY <2>1, <3>2, <3>3 DEF Wrapped, S
  <2>2. CASE word # 0
    <3>1. word - 1 \in 0 .. S - 1
      BY <1>0, <2>2
    <3>2. (0 * S + (word - 1)) % S = word - 1
      BY <1>0, <3>1, DivideExactly
    <3>3. 0 * S + (word - 1) = word - 1
      BY <1>0
    <3>4. QED
      BY <2>2, <3>2, <3>3 DEF Wrapped, S
  <2>3. QED
    BY <2>1, <2>2
<1> HIDE DEF d
<1>2. d \in Word
  <2>1. d \in 0 .. S - 1
    <3> HIDE DEF S
    <3>1. QED
      BY <1>0, <1>1
  <2>2. QED
    BY <2>1 DEF Word
<1>3. PICK t : Above(d, t)
  BY <1>2, AboveExists
<1>4. Clp2(word) = Wrapped(Power[t])
  <2>1. word \in Int
    BY <1>0
  <2>2. QED
    BY <1>3, <2>1, SmearedAll DEF d
<1>5. /\ t \in 0 .. Width /\ t \in Nat /\ d < Power[t] /\ Power[t] \in Nat
      /\ \A i \in 0 .. Width : i < t => Power[i] <= d
  BY <1>0, <1>3, PowerIs DEF Above
<1>6. Wrapped(Power[Width]) = 0
  <2> HIDE DEF S
  <2>1. (1 * S + 0) % S = 0
    BY <1>0, DivideExactly
  <2>2. 1 * S + 0 = S
    BY <1>0
  <2>3. QED
    BY <2>1, <2>2, WidthAssumption DEF Wrapped, S
<1>7. ASSUME t # Width
      PROVE  t \in 0 .. Width - 1 /\ 2 * Power[t] <= S /\ Wrapped(Power[t]) = Power[t]
             /\ Power[t] <= S - 1
  <2>1. t \in 0 .. Width - 1
    BY <1>0, <1>5, <1>7
  <2>2. Power[t] \in Nat \ {0} /\ 2 * Power[t] <= S
    BY <2>1, SmallPower
  <2> DEFINE p == Power[t]
  <2> HIDE DEF S, p
  <2>3. p \in 0 .. S - 1 /\ 0 * S + p = p
    BY <1>0, <2>2 DEF p
  <2>4. (0 * S + p) % S = p
    BY <1>0, <2>3, DivideExactly
  <2>5. QED
    BY <2>1, <2>2, <2>3, <2>4 DEF Wrapped, S, p
<1> HIDE DEF S
<1>8. \A p : p \in powers <=> \E i \in 0 .. Width - 1 : p = Power[i] /\ p >= word
  OBVIOUS
<1>9. powers \in SUBSET Nat
  <2>1. \A i \in 0 .. Width - 1 : Power[i] \in Nat
    BY SmallPower
  <2>2. QED
    BY <2>1
<1> HIDE DEF powers
<1>10. CASE word = 0
  <2>1. t = Width
    <3> SUFFICES ASSUME t # Width PROVE FALSE
      OBVIOUS
    <3>1. d = S - 1 /\ Power[t] <= S - 1
      BY <1>1, <1>7, <1>10
    <3>2. QED
      BY <1>0, <1>5, <3>1
  <2>2. QED
    BY <1>4, <1>6, <1>10, <2>1 DEF PowersFound, powers
<1>11. CASE word # 0 /\ t = Width
  <2>1. powers = {}
    <3> SUFFICES ASSUME NEW i \in 0 .. Width - 1, Power[i] >= word PROVE FALSE
      BY <1>8
    <3>1. Power[i] <= d /\ Power[i] \in Nat
      BY <1>0, <1>5, <1>11, SmallPower
    <3>2. QED
      BY <1>0, <1>1, <1>11, <3>1
  <2>2. Clp2(word) = 0
    BY <1>4, <1>6, <1>11
  <2>3. QED
    BY <2>1, <2>2 DEF PowersFound, powers
<1>12. CASE word # 0 /\ t # Width
  <2>1. Clp2(word) = Power[t] /\ t \in 0 .. Width - 1
    BY <1>4, <1>7, <1>12
  <2>2. Power[t] \in powers
    <3>1. Power[t] >= word
      BY <1>0, <1>1, <1>5, <1>12
    <3>2. QED
      BY <1>8, <2>1, <3>1
  <2>3. \A p \in powers : Power[t] <= p
    <3> SUFFICES ASSUME NEW i \in 0 .. Width - 1, Power[i] >= word PROVE Power[t] <= Power[i]
      BY <1>8
    <3>1. ~ i < t
      <4>1. i < t => Power[i] <= d /\ Power[i] \in Nat
        BY <1>5, SmallPower
      <4>2. QED
        BY <1>0, <1>1, <1>12, <4>1
    <3>2. t <= i /\ i \in 0 .. Width
      BY <1>0, <1>5, <3>1
    <3>3. QED
      BY <1>5, <3>2, PowersGrow
  <2>4. Min(powers) \in powers /\ Min(powers) <= Power[t]
    BY <1>9, <2>2, MinIs
  <2>5. Min(powers) = Power[t]
    <3>1. Power[t] <= Min(powers) /\ Min(powers) \in Nat
      BY <1>9, <2>3, <2>4
    <3>2. QED
      BY <1>5, <2>4, <3>1
  <2>6. powers # {}
    BY <2>2
  <2>7. Clp2(word) = IF word = 0 \/ powers = {} THEN 0 ELSE Min(powers)
    BY <1>12, <2>1, <2>5, <2>6
  <2>8. QED
    BY <2>7 DEF PowersFound, powers
<1>13. QED
  BY <1>10, <1>11, <1>12

\* Bits, powers of 2, ratios, values in byte arrays, casts, addresses, parts of a
\* second and versions are what they should be, for every word of four bytes of
\* any even number of values.
THEOREM ConversionsHold == NumbersSpec => []ConversionsAgree
<1>1. NumbersTypeOK => ConversionsAgree
  BY BitsRead, PowersRead, RatiosFound, ValuesRead, CastsKeep, AddressesRead, SecondsApart,
     VersionsRead DEF NumbersTypeOK, ConversionsAgree
<1>2. QED
  BY <1>1, NumbersTypeCorrect, PTL

-----------------------------------------------------------------------------
(* XmlParse.                                                                *)
\* The numbers of the nodes of a list.
IdsOf(list) == {n.id : n \in Elements(list)}

LEMMA NodeIdsOf ==
    ASSUME NEW s \in Seq(Children)
    PROVE  /\ NodeIds(s) \in Seq(1 .. MaxNodes) /\ Len(NodeIds(s)) = Len(s)
           /\ \A i \in 1 .. Len(s) : NodeIds(s)[i] = s[i].id /\ s[i].id \in 1 .. MaxNodes
           /\ ToSet(NodeIds(s)) = IdsOf(s) /\ Elements(NodeIds(s)) = IdsOf(s)
           /\ IdsOf(s) \subseteq 1 .. MaxNodes
<1> DEFINE q == NodeIds(s)
           n == Len(s)
<1>1. n \in Nat /\ DOMAIN s = 1 .. n /\ \A i \in 1 .. n : s[i].id \in 1 .. MaxNodes
  <2>1. \A i \in 1 .. n : s[i] \in Children
    BY ElementOfSeq
  <2>2. QED
    BY <2>1, LenProperties DEF Children
<1>2. q = [i \in 1 .. n |-> s[i].id]
  BY <1>1 DEF NodeIds
<1> HIDE DEF q, n
<1>3. q \in Seq(1 .. MaxNodes) /\ Len(q) = n /\ DOMAIN q = 1 .. n
  BY <1>1, <1>2
<1>4. \A i \in 1 .. n : q[i] = s[i].id
  BY <1>2
<1>5. {q[i] : i \in 1 .. n} = IdsOf(s)
  BY <1>4 DEF IdsOf, Elements, n
<1>6. ToSet(q) = IdsOf(s) /\ Elements(q) = IdsOf(s)
  BY <1>3, <1>5 DEF ToSet, Elements
<1>7. IdsOf(s) \subseteq 1 .. MaxNodes
  BY <1>1 DEF IdsOf, Elements, n
<1>8. QED
  BY <1>1, <1>3, <1>4, <1>6, <1>7 DEF q, n

LEMMA NodeIdsAppend ==
    ASSUME NEW s \in Seq(Children), NEW c \in Children
    PROVE  NodeIds(Append(s, c)) = Append(NodeIds(s), c.id)
<1> DEFINE t == Append(s, c)
           a == NodeIds(t)
           b == Append(NodeIds(s), c.id)
           n == Len(s)
<1>1. /\ t \in Seq(Children) /\ Len(t) = n + 1 /\ n \in Nat
      /\ \A i \in 1 .. n : t[i] = s[i]
      /\ t[n + 1] = c
  BY AppendProperties, LenProperties
<1>2. c.id \in 1 .. MaxNodes
  BY DEF Children
<1>3. /\ a \in Seq(1 .. MaxNodes) /\ Len(a) = n + 1
      /\ \A i \in 1 .. n + 1 : a[i] = t[i].id
  BY <1>1, NodeIdsOf
<1>4. /\ b \in Seq(1 .. MaxNodes) /\ Len(b) = n + 1
      /\ \A i \in 1 .. n : b[i] = s[i].id
      /\ b[n + 1] = c.id
  <2> DEFINE q == NodeIds(s)
  <2>1. q \in Seq(1 .. MaxNodes) /\ Len(q) = n /\ \A i \in 1 .. n : q[i] = s[i].id
    BY NodeIdsOf
  <2> HIDE DEF q, t
  <2>2. QED
    BY <1>1, <1>2, <2>1, AppendProperties DEF q
<1> HIDE DEF a, b, t
<1>5. \A i \in 1 .. n + 1 : a[i] = b[i]
  BY <1>1, <1>3, <1>4
<1>6. a = b
  BY <1>3, <1>4, <1>5, SeqEqual
<1>7. QED
  BY <1>6 DEF a, b, t

NodeIdsApart(s, t) == NodeIds(s \o t) = NodeIds(s) \o NodeIds(t)

LEMMA NodeIdsEmpty == NodeIds(<<>>) = <<>>
<1> DEFINE none == <<>>
<1>1. none \in Seq(Children) /\ Len(none) = 0
  BY EmptySeq
<1> HIDE DEF none
<1>2. NodeIds(none) \in Seq(1 .. MaxNodes) /\ Len(NodeIds(none)) = 0
  BY <1>1, NodeIdsOf
<1>3. NodeIds(none) = <<>>
  BY <1>2, EmptySeq
<1>4. QED
  BY <1>3 DEF none

LEMMA NodeIdsConcat ==
    ASSUME NEW s \in Seq(Children), NEW t \in Seq(Children)
    PROVE  NodeIdsApart(s, t)
<1> DEFINE P == {u \in Seq(Children) : NodeIdsApart(s, u)}
           none == <<>>
<1>1. none \in P
  <2>1. none \in Seq(Children) /\ NodeIds(none) = none
    BY EmptySeq, NodeIdsEmpty
  <2>2. s \o none = s /\ NodeIds(s) \o none = NodeIds(s)
    <3>1. NodeIds(s) \in Seq(1 .. MaxNodes)
      BY NodeIdsOf
    <3>2. QED
      BY <3>1, ConcatEmptySeq
  <2> HIDE DEF none
  <2>3. QED
    BY <2>1, <2>2 DEF NodeIdsApart
<1>2. ASSUME NEW u \in Seq(Children), NEW c \in Children, u \in P PROVE Append(u, c) \in P
  <2> DEFINE d == s \o u
             e == Append(u, c)
  <2>1. d \in Seq(Children) /\ e \in Seq(Children)
    BY ConcatProperties, AppendProperties
  <2>2. s \o e = Append(d, c)
    BY AppendConcat
  <2>3. NodeIds(d) = NodeIds(s) \o NodeIds(u)
    BY <1>2 DEF NodeIdsApart
  <2> HIDE DEF d
  <2>4. NodeIds(Append(d, c)) = Append(NodeIds(d), c.id) /\ NodeIds(e) = Append(NodeIds(u), c.id)
    BY <2>1, NodeIdsAppend
  <2> DEFINE q == NodeIds(s)
             r == NodeIds(u)
             k == c.id
  <2>5. q \in Seq(1 .. MaxNodes) /\ r \in Seq(1 .. MaxNodes) /\ k \in 1 .. MaxNodes
    BY NodeIdsOf DEF Children
  <2> HIDE DEF q, r, e, k
  <2>6. q \o Append(r, k) = Append(q \o r, k)
    BY <2>5, AppendConcat
  <2>7. NodeIds(s \o e) = NodeIds(s) \o NodeIds(e)
    BY <2>2, <2>3, <2>4, <2>6 DEF q, r, k
  <2>8. QED
    BY <2>1, <2>7 DEF NodeIdsApart, e
<1> HIDE DEF P
<1>3. Seq(Children) \subseteq P
  BY <1>1, <1>2, InductionAppend
<1>4. t \in P
  BY <1>3
<1>5. QED
  BY <1>4 DEF P

\* Filtering the numbers of nodes is filtering the nodes.
With(D) == {n \in Children : n.id \in D}

LEMMA FilterNodeIds ==
    ASSUME NEW s \in Seq(Children), NEW D
    PROVE  Filter(NodeIds(s), D) = NodeIds(Filter(s, With(D)))
<1> DEFINE P == {u \in Seq(Children) : Filter(NodeIds(u), D) = NodeIds(Filter(u, With(D)))}
<1>1. <<>> \in P
  <2>1. Filter(NodeIds(<<>>), D) = NodeIds(Filter(<<>>, With(D)))
    BY NodeIdsEmpty, FilterEmpty
  <2>2. <<>> \in Seq(Children)
    BY EmptySeq
  <2>3. QED
    BY <2>1, <2>2
<1>2. ASSUME NEW u \in Seq(Children), NEW c \in Children, u \in P PROVE Append(u, c) \in P
  <2> DEFINE e == Append(u, c)
             q == NodeIds(u)
             k == c.id
             f == Filter(u, With(D))
  <2>1. e \in Seq(Children) /\ q \in Seq(1 .. MaxNodes) /\ k \in 1 .. MaxNodes /\ f \in Seq(Children)
    BY AppendProperties, NodeIdsOf, FilterType DEF Children
  <2>2. NodeIds(e) = Append(q, k)
    BY NodeIdsAppend
  <2>3. Filter(e, With(D)) = IF c \in With(D) THEN Append(f, c) ELSE f
    BY FilterAppend
  <2>4. Filter(q, D) = NodeIds(f)
    BY <1>2
  <2>5. c \in With(D) <=> k \in D
    BY DEF With
  <2>6. NodeIds(Append(f, c)) = Append(NodeIds(f), k)
    BY <2>1, NodeIdsAppend
  <2> HIDE DEF e, q, k, f
  <2>7. FiltersOne(q, k, D)
    BY <2>1, FilterOneMore
  <2>8. Filter(NodeIds(e), D) = NodeIds(Filter(e, With(D)))
    <3>1. CASE k \in D
      BY <2>2, <2>3, <2>4, <2>5, <2>6, <2>7, <3>1 DEF FiltersOne
    <3>2. CASE k \notin D
      BY <2>2, <2>3, <2>4, <2>5, <2>7, <3>2 DEF FiltersOne
    <3>3. QED
      BY <3>1, <3>2
  <2>9. QED
    BY <2>1, <2>8 DEF e
<1> HIDE DEF P
<1>3. Seq(Children) \subseteq P
  BY <1>1, <1>2, InductionAppend
<1>4. s \in P
  BY <1>3
<1>5. QED
  BY <1>4 DEF P

LEMMA IdsDetermine ==
    ASSUME NEW s \in Seq(Children), Distinct(NodeIds(s)),
           NEW x \in Elements(s), NEW y \in Elements(s), x.id = y.id
    PROVE  x = y
<1>1. PICK i \in 1 .. Len(s), j \in 1 .. Len(s) : x = s[i] /\ y = s[j]
  BY DEF Elements
<1>2. NodeIds(s)[i] = NodeIds(s)[j] /\ Len(NodeIds(s)) = Len(s)
  BY <1>1, NodeIdsOf
<1>3. i = j
  BY <1>2 DEF Distinct
<1>4. QED
  BY <1>1, <1>3

-----------------------------------------------------------------------------
\* A walk over a list that has come past the nodes u, with the nodes v to go: of
\* what it has visited, what is still there are the elements among u.
WalkedTo(list, seen, u, v) ==
    /\ u \in Seq(Children) /\ v \in Seq(Children)
    /\ list = u \o v
    /\ Filter(seen, IdsOf(list)) = NodeIds(Filter(u, ElementNodes))

\* The walk goes past a node.
LEMMA GoesPast ==
    ASSUME NEW list \in Seq(Children), NEW seen \in Seq(1 .. MaxNodes), NEW u, NEW v,
           WalkedTo(list, seen, u, v), v # <<>>
    PROVE  /\ Head(v) \in Children /\ Head(v) \in Elements(list)
           /\ Head(v) \in ElementNodes =>
                  /\ WalkedTo(list, Append(seen, Head(v).id), Append(u, Head(v)), Tail(v))
                  /\ NodeIds(Filter(Append(u, Head(v)), ElementNodes))
                         = Append(NodeIds(Filter(u, ElementNodes)), Head(v).id)
           /\ Head(v) \notin ElementNodes =>
                  /\ WalkedTo(list, seen, Append(u, Head(v)), Tail(v))
                  /\ Filter(Append(u, Head(v)), ElementNodes) = Filter(u, ElementNodes)
<1> DEFINE c == Head(v)
           t == Tail(v)
           one == <<c>>
           e == Append(u, c)
           f == Filter(u, ElementNodes)
<1>1. u \in Seq(Children) /\ v \in Seq(Children) /\ list = u \o v
      /\ Filter(seen, IdsOf(list)) = NodeIds(f)
  BY DEF WalkedTo
<1>2. c \in Children /\ t \in Seq(Children) /\ v = one \o t
  BY <1>1, HeadTailProperties, HeadAndTail
<1> HIDE DEF c, t
<1>3. one \in Seq(Children)
  BY <1>2
<1>4. e = u \o one /\ e \in Seq(Children)
  BY <1>1, <1>2, AppendIsConcat, AppendProperties
<1>5. list = e \o t
  <2> HIDE DEF one, e
  <2>1. Associated(u, one, t)
    BY <1>1, <1>2, <1>3, Associates
  <2>2. QED
    BY <1>1, <1>2, <1>4, <2>1 DEF Associated
<1>6. c \in Elements(list) /\ c.id \in IdsOf(list) /\ c.id \in 1 .. MaxNodes
  <2>1. Elements(e) = Elements(u) \cup {c}
    BY <1>1, <1>2, ElementsAppend
  <2> HIDE DEF e
  <2>2. Elements(e \o t) = Elements(e) \cup Elements(t)
    BY <1>2, <1>4, ElementsConcat, ZenonT(30)
  <2>3. c \in Elements(list)
    BY <1>5, <2>1, <2>2
  <2>4. QED
    BY <1>2, <2>3 DEF IdsOf, Children
<1>7. Filter(e, ElementNodes) = IF c \in ElementNodes THEN Append(f, c) ELSE f
  BY <1>1, <1>2, FilterAppend
<1>8. ASSUME c \in ElementNodes
      PROVE  /\ WalkedTo(list, Append(seen, c.id), e, t)
             /\ NodeIds(Filter(e, ElementNodes)) = Append(NodeIds(f), c.id)
  <2>1. f \in Seq(Children)
    BY <1>1, FilterType
  <2>2. Filter(e, ElementNodes) = Append(f, c)
    BY <1>7, <1>8
  <2>3. NodeIds(Append(f, c)) = Append(NodeIds(f), c.id)
    BY <1>2, <2>1, NodeIdsAppend
  <2>4. Filter(Append(seen, c.id), IdsOf(list)) = Append(Filter(seen, IdsOf(list)), c.id)
    <3> DEFINE k == c.id
               D == IdsOf(list)
    <3>1. k \in 1 .. MaxNodes /\ k \in D
      BY <1>6
    <3> HIDE DEF k, D
    <3>2. FiltersOne(seen, k, D)
      BY <3>1, FilterOneMore
    <3>3. QED
      BY <3>1, <3>2 DEF k, D, FiltersOne
  <2> HIDE DEF e, f
  <2>5. QED
    BY <1>1, <1>2, <1>4, <1>5, <2>2, <2>3, <2>4 DEF WalkedTo
<1>9. ASSUME c \notin ElementNodes
      PROVE  WalkedTo(list, seen, e, t) /\ Filter(e, ElementNodes) = f
  <2>1. Filter(e, ElementNodes) = f
    BY <1>7, <1>9
  <2> HIDE DEF e, f
  <2>2. QED
    BY <1>1, <1>2, <1>4, <1>5, <2>1 DEF WalkedTo
<1>10. QED
  BY <1>2, <1>6, <1>8, <1>9 DEF c, t

\* A node the list did not have is appended to it.
LEMMA AppendedTo ==
    ASSUME NEW list \in Seq(Children), NEW seen \in Seq(1 .. MaxNodes), NEW u, NEW v,
           WalkedTo(list, seen, u, v), NEW new \in Children,
           new.id \notin Elements(seen)
    PROVE  WalkedTo(Append(list, new), seen, u, Append(v, new))
<1> DEFINE w == Append(v, new)
           long == Append(list, new)
<1>1. u \in Seq(Children) /\ v \in Seq(Children) /\ list = u \o v
      /\ Filter(seen, IdsOf(list)) = NodeIds(Filter(u, ElementNodes))
  BY DEF WalkedTo
<1>2. w \in Seq(Children) /\ long = u \o w
  <2>1. w \in Seq(Children)
    BY <1>1, AppendProperties
  <2>2. u \o Append(v, new) = Append(u \o v, new)
    BY <1>1, AppendConcat
  <2>3. QED
    BY <1>1, <2>1, <2>2
<1>3. IdsOf(long) = IdsOf(list) \cup {new.id}
  <2>1. Elements(long) = Elements(list) \cup {new}
    BY ElementsAppend
  <2>2. QED
    BY <2>1 DEF IdsOf
<1>4. Filter(seen, IdsOf(long)) = Filter(seen, IdsOf(list))
  <2> DEFINE A == IdsOf(long)
             B == IdsOf(list)
  <2>1. Elements(seen) \cap A = Elements(seen) \cap B
    BY <1>3
  <2> HIDE DEF A, B
  <2>2. Filter(seen, A) = Filter(seen, B)
    BY <2>1, FilterSame
  <2>3. QED
    BY <2>2 DEF A, B
<1>5. QED
  BY <1>1, <1>2, <1>4 DEF WalkedTo

\* A node of the list is removed from it.
LEMMA RemovedFrom ==
    ASSUME NEW list \in Seq(Children), NEW seen \in Seq(1 .. MaxNodes), NEW u, NEW v,
           WalkedTo(list, seen, u, v), Distinct(NodeIds(list)), NEW m \in Elements(list)
    PROVE  /\ WalkedTo(Filter(list, Children \ {m}), seen,
                       Filter(u, Children \ {m}), Filter(v, Children \ {m}))
           /\ IdsOf(Filter(list, Children \ {m})) = IdsOf(list) \ {m.id}
<1> DEFINE K == Children \ {m}
           short == Filter(list, K)
           D == IdsOf(short)
           E == ElementNodes
           p == Filter(u, K)
           q == Filter(v, K)
           f == Filter(u, E)
<1>1. u \in Seq(Children) /\ v \in Seq(Children) /\ list = u \o v
      /\ Filter(seen, IdsOf(list)) = NodeIds(f)
  BY DEF WalkedTo
<1>2. Elements(list) \subseteq Children /\ Elements(u) \subseteq Elements(list)
  <2>1. Elements(list) \subseteq Children
    BY ElementOfSeq DEF Elements
  <2>2. Elements(u \o v) = Elements(u) \cup Elements(v)
    BY <1>1, ElementsConcat
  <2>3. QED
    BY <1>1, <2>1, <2>2
<1>3. \A x, y \in Elements(list) : x.id = y.id => x = y
  BY IdsDetermine
<1> HIDE DEF K, E
<1>4. short = p \o q /\ p \in Seq(Children) /\ q \in Seq(Children)
  <2>1. FiltersApart(u, v, K)
    BY <1>1, FilterApart
  <2>2. QED
    BY <1>1, <2>1, FilterType DEF FiltersApart
<1>5. Elements(short) = Elements(list) \ {m}
  <2>1. Elements(short) = Elements(list) \cap K
    BY FilterElements
  <2>2. QED
    BY <1>2, <2>1 DEF K
<1>6. D = IdsOf(list) \ {m.id}
  BY <1>3, <1>5 DEF IdsOf
<1> HIDE DEF short, D
<1>7. Filter(seen, D) = Filter(NodeIds(f), D)
  <2> DEFINE A == IdsOf(list)
  <2>1. A \cap D = D
    BY <1>6
  <2> HIDE DEF A
  <2>2. Filter(Filter(seen, A), D) = Filter(seen, A \cap D)
    BY FilterTwice
  <2>3. QED
    BY <1>1, <2>1, <2>2 DEF A
<1>8. Filter(NodeIds(f), D) = NodeIds(Filter(f, With(D)))
  <2>1. f \in Seq(Children)
    BY <1>1, FilterType
  <2> HIDE DEF f
  <2>2. QED
    BY <2>1, FilterNodeIds
<1>9. Filter(f, With(D)) = Filter(p, E)
  <2> DEFINE W == With(D)
             A == E \cap W
             B == K \cap E
  <2>1. Elements(u) \cap A = Elements(u) \cap B
    <3>1. \A x \in Elements(u) : x \in With(D) <=> x \in K
      <4> TAKE x \in Elements(u)
      <4>1. x \in Elements(list) /\ x \in Children
        BY <1>2
      <4>2. x.id \in D <=> x # m
        <5>1. x.id \in IdsOf(list)
          BY <4>1 DEF IdsOf
        <5>2. x.id = m.id <=> x = m
          BY <1>3, <4>1
        <5>3. QED
          BY <1>6, <5>1, <5>2
      <4>3. QED
        BY <4>1, <4>2 DEF With, K
    <3>2. QED
      BY <3>1
  <2> HIDE DEF W
  <2>2. Filter(f, W) = Filter(u, A)
    <3> HIDE DEF A
    <3>1. Filter(Filter(u, E), W) = Filter(u, E \cap W)
      BY <1>1, FilterTwice
    <3>2. QED
      BY <3>1 DEF A
  <2>3. Filter(p, E) = Filter(u, B)
    <3> HIDE DEF B
    <3>1. Filter(Filter(u, K), E) = Filter(u, K \cap E)
      BY <1>1, FilterTwice
    <3>2. QED
      BY <3>1 DEF B
  <2> HIDE DEF A, B
  <2>4. Filter(u, A) = Filter(u, B)
    BY <1>1, <2>1, FilterSame
  <2>5. QED
    BY <2>2, <2>3, <2>4 DEF W
<1> HIDE DEF p, q, f
<1>10. WalkedTo(short, seen, p, q)
  BY <1>4, <1>7, <1>8, <1>9 DEF WalkedTo, D, E
<1>11. QED
  BY <1>6, <1>10 DEF short, D, K, p, q

LEMMA DistinctIs ==
    ASSUME NEW list \in Seq(Children), Distinct(NodeIds(list))
    PROVE  \A i, j \in 1 .. Len(list) : list[i].id = list[j].id => i = j
<1> DEFINE q == NodeIds(list)
           n == Len(list)
<1>1. Len(q) = n /\ \A i \in 1 .. n : q[i] = list[i].id
  BY NodeIdsOf
<1>2. \A i, j \in 1 .. Len(q) : q[i] = q[j] => i = j
  BY DEF Distinct
<1> HIDE DEF q, n
<1>3. \A i, j \in 1 .. n : list[i].id = list[j].id => i = j
  BY <1>1, <1>2
<1>4. QED
  BY <1>3 DEF n

\* What follows a node of a list in which no number occurs twice.
LEMMA NextOf ==
    ASSUME NEW u \in Seq(Children), NEW v \in Seq(Children), NEW c \in Children,
           NEW list, list = Append(u, c) \o v, Distinct(NodeIds(list))
    PROVE  NextSibling(list, c.id) = FirstChild(v)
<1> DEFINE e == Append(u, c)
           m == Len(u)
           n == Len(v)
<1>1. e \in Seq(Children) /\ Len(e) = m + 1 /\ e[m + 1] = c /\ m \in Nat /\ n \in Nat
  BY AppendProperties, LenProperties
<1> HIDE DEF e
<1>2. list = e \o v
  BY DEF e
<1>3. /\ list \in Seq(Children) /\ Len(list) = m + 1 + n
      /\ \A i \in 1 .. m + 1 + n : list[i] = IF i <= m + 1 THEN e[i] ELSE v[i - (m + 1)]
  <2> DEFINE z == e \o v
  <2>1. /\ z \in Seq(Children) /\ Len(z) = Len(e) + Len(v)
        /\ \A i \in 1 .. Len(e) + Len(v) : z[i] = IF i <= Len(e) THEN e[i] ELSE v[i - Len(e)]
    BY <1>1, ConcatProperties
  <2> HIDE DEF z
  <2>2. QED
    BY <1>1, <1>2, <2>1 DEF z
<1>4. /\ list[m + 1] = c
      /\ n # 0 => list[m + 2] = v[1]
      /\ DOMAIN list = 1 .. m + 1 + n
  <2>1. m + 1 \in 1 .. m + 1 + n /\ (n # 0 => m + 2 \in 1 .. m + 1 + n)
    BY <1>1
  <2>2. m + 2 - (m + 1) = 1
    BY <1>1
  <2>3. QED
    BY <1>1, <1>3, <2>1, <2>2, LenProperties
<1>5. \A i, j \in 1 .. m + 1 + n : list[i].id = list[j].id => i = j
  BY <1>3, DistinctIs
<1> DEFINE next == {i \in DOMAIN list : i > 1 /\ list[i - 1].id = c.id}
<1>6. next = IF n = 0 THEN {} ELSE {m + 2}
  <2>1. ASSUME NEW i \in next PROVE i = m + 2
    <3>1. i - 1 \in 1 .. m + 1 + n /\ m + 1 \in 1 .. m + 1 + n
      BY <1>1, <1>4, SMTT(20)
    <3>2. i - 1 = m + 1
      BY <1>4, <1>5, <3>1
    <3>3. QED
      BY <1>1, <1>4, <3>2
  <2>2. n # 0 => m + 2 \in next
    <3>1. n # 0 => m + 2 \in 1 .. m + 1 + n /\ m + 2 > 1 /\ m + 2 - 1 = m + 1
      BY <1>1
    <3>2. QED
      BY <1>4, <3>1
  <2>3. n = 0 => m + 2 \notin next
    BY <1>1, <1>4
  <2>4. QED
    BY <2>1, <2>2, <2>3
<1> HIDE DEF next
<1>7. CASE n = 0
  <2>1. v = <<>>
    BY <1>7, EmptySeq
  <2>2. NextSibling(list, c.id) = 0
    BY <1>6, <1>7 DEF NextSibling, next
  <2>3. QED
    BY <2>1, <2>2 DEF FirstChild
<1>8. CASE n # 0
  <2>1. v # <<>>
    BY <1>8, EmptySeq
  <2>2. next = {m + 2} /\ m + 2 \in Nat
    BY <1>1, <1>6, <1>8
  <2>3. Min(next) = m + 2
    <3>1. Min(next) \in next
      BY <2>2, MinIs
    <3>2. QED
      BY <2>2, <3>1
  <2>4. NextSibling(list, c.id) = list[m + 2].id
    BY <2>2, <2>3 DEF NextSibling, next
  <2>5. QED
    BY <1>4, <1>8, <2>1, <2>4 DEF FirstChild
<1>9. QED
  BY <1>7, <1>8

LEMMA NextOfNone ==
    ASSUME NEW list \in Seq(Children), NEW id, id \notin IdsOf(list)
    PROVE  NextSibling(list, id) = 0
<1> DEFINE n == Len(list)
           next == {i \in DOMAIN list : i > 1 /\ list[i - 1].id = id}
<1>1. n \in Nat /\ DOMAIN list = 1 .. n
  BY LenProperties
<1>2. \A i \in 1 .. n : list[i].id # id
  BY DEF IdsOf, Elements
<1>3. next = {}
  <2>1. \A i \in 1 .. n : i > 1 => i - 1 \in 1 .. n
    BY <1>1
  <2>2. QED
    BY <1>1, <1>2, <2>1
<1>4. QED
  BY <1>3 DEF NextSibling

LEMMA FirstIs ==
    ASSUME NEW v \in Seq(Children)
    PROVE  /\ FirstChild(v) \in 0 .. MaxNodes
           /\ FirstChild(v) = 0 <=> v = <<>>
           /\ v # <<>> => FirstChild(v) = Head(v).id
<1>1. CASE v = <<>>
  BY <1>1, MaxNodesAssumption DEF FirstChild
<1>2. CASE v # <<>>
  <2>1. Head(v) = v[1] /\ Head(v) \in Children
    BY <1>2, HeadTailProperties
  <2>2. v[1].id \in 1 .. MaxNodes
    BY <2>1 DEF Children
  <2>3. QED
    BY <1>2, <2>1, <2>2, MaxNodesAssumption DEF FirstChild
<1>3. QED
  BY <1>1, <1>2

-----------------------------------------------------------------------------
\* Where a walk stands: it has come past u, and goes on with v unless it left.
Stands(list, seen, chg, gone, ch, u, v) ==
    /\ WalkedTo(list, seen, u, v)
    /\ ch = (IF gone THEN 0 ELSE FirstChild(v))
    /\ ~chg => seen = NodeIds(Filter(u, ElementNodes))

\* Every child has a number of its own, out of those given so far.
Numbered(list, n) == Distinct(NodeIds(list)) /\ IdsOf(list) \subseteq 1 .. n

ParseInv ==
    /\ ParseTypeOK
    /\ \A i \in DOMAIN parent : Numbered(parent[i].children, nodes)
    /\ Elements(visited) \subseteq 1 .. nodes
    /\ tag = NoTag => visited = <<>> /\ ~changed /\ ~left
    /\ tag # NoTag =>
           /\ FirstChildElement(tag) # 0
           /\ \E u, v \in Seq(Children) : Stands(Walked, visited, changed, left, child, u, v)

Parents == [kind : Kinds, tag : Tags, children : Seq(Children)]

LEMMA ElementIs ==
    ASSUME parent \in Seq(Parents), NEW t, FirstChildElement(t) # 0
    PROVE  FirstChildElement(t) \in DOMAIN parent
<1> DEFINE ofTag == {i \in DOMAIN parent : IsElement(parent[i]) /\ parent[i].tag = t}
<1>1. DOMAIN parent \subseteq Nat
  BY LenProperties
<1>2. ofTag # {} /\ ofTag \subseteq Nat
  BY <1>1 DEF FirstChildElement
<1>3. Min(ofTag) \in ofTag
  BY <1>2, MinIs
<1>4. QED
  BY <1>2, <1>3 DEF FirstChildElement

\* Setting the children of the node that is walked over leaves it what it is.
LEMMA ChildrenSet ==
    ASSUME parent \in Seq(Parents), NEW list \in Seq(Children), FirstChildElement(tag) # 0,
           parent' = [parent EXCEPT ![FirstChildElement(tag)].children = list], tag' = tag
    PROVE  /\ parent' \in Seq(Parents) /\ DOMAIN parent' = DOMAIN parent
           /\ FirstChildElement(tag)' = FirstChildElement(tag)
           /\ Walked' = list
           /\ \A i \in DOMAIN parent :
                  parent'[i].children = parent[i].children \/ parent'[i].children = list
<1> DEFINE k == FirstChildElement(tag)
           n == Len(parent)
<1>1. k \in DOMAIN parent
  BY ElementIs
<1>2. n \in Nat /\ DOMAIN parent = 1 .. n /\ parent = [i \in 1 .. n |-> parent[i]]
      /\ \A i \in 1 .. n : parent[i] \in Parents
  BY LenProperties, ElementOfSeq
<1> HIDE DEF k, n
<1>3. parent' = [parent EXCEPT ![k] = [parent[k] EXCEPT !.children = list]]
  BY DEF k
<1>4. /\ DOMAIN parent' = 1 .. n
      /\ \A i \in 1 .. n : parent'[i] = IF i = k THEN [parent[k] EXCEPT !.children = list]
                                        ELSE parent[i]
  BY <1>2, <1>3
<1>5. /\ [parent[k] EXCEPT !.children = list] \in Parents
      /\ [parent[k] EXCEPT !.children = list].kind = parent[k].kind
      /\ [parent[k] EXCEPT !.children = list].tag = parent[k].tag
      /\ [parent[k] EXCEPT !.children = list].children = list
  <2>1. parent[k] \in Parents
    BY <1>1, <1>2
  <2>2. QED
    BY <2>1 DEF Parents
<1>6. \A i \in 1 .. n : /\ parent'[i] \in Parents
                        /\ parent'[i].kind = parent[i].kind /\ parent'[i].tag = parent[i].tag
                        /\ parent'[i].children = IF i = k THEN list ELSE parent[i].children
  <2> DEFINE new == [parent[k] EXCEPT !.children = list]
  <2>1. /\ \A i \in 1 .. n : parent'[i] = IF i = k THEN new ELSE parent[i]
        /\ new \in Parents /\ new.kind = parent[k].kind /\ new.tag = parent[k].tag
        /\ new.children = list
    BY <1>4, <1>5
  <2> HIDE DEF new
  <2>2. TAKE i \in 1 .. n
  <2>3. parent'[i] = IF i = k THEN new ELSE parent[i]
    BY <2>1
  <2>4. parent[i] \in Parents
    BY <1>2
  <2> DEFINE p == parent'
  <2> HIDE DEF p
  <2>5. CASE i = k
    <3>1. p[i] = new
      BY <2>3, <2>5 DEF p
    <3>2. p[i] \in Parents /\ p[i].kind = parent[i].kind /\ p[i].tag = parent[i].tag
          /\ p[i].children = list
      BY <2>1, <2>5, <3>1
    <3>3. QED
      BY <2>5, <3>2 DEF p
  <2>6. CASE i # k
    <3>1. p[i] = parent[i]
      BY <2>3, <2>6 DEF p
    <3>2. p[i] \in Parents /\ p[i].kind = parent[i].kind /\ p[i].tag = parent[i].tag
          /\ p[i].children = parent[i].children
      BY <2>4, <3>1
    <3>3. QED
      BY <2>6, <3>2 DEF p
  <2>7. QED
    BY <2>5, <2>6
<1>7. parent' \in Seq(Parents)
  <2> DEFINE p == parent'
  <2>1. p = [i \in 1 .. n |-> p[i]]
    BY <1>2, <1>3, <1>4
  <2>2. \A i \in 1 .. n : p[i] \in Parents
    BY <1>6
  <2> HIDE DEF p
  <2>3. p \in [1 .. n -> Parents]
    BY <2>1, <2>2
  <2>4. p \in Seq(Parents)
    BY <1>2, <2>3, SequenceOf
  <2>5. QED
    BY <2>4 DEF p
<1>8. FirstChildElement(tag)' = k
  <2>1. {i \in DOMAIN parent : IsElement(parent[i]) /\ parent[i].tag = tag}
            = {i \in DOMAIN parent' : IsElement(parent'[i]) /\ parent'[i].tag = tag}
    BY <1>2, <1>4, <1>6 DEF IsElement
  <2>2. QED
    BY <2>1 DEF FirstChildElement, k
<1>9. Walked' = list
  BY <1>1, <1>2, <1>6, <1>8 DEF Walked
<1>10. QED
  BY <1>2, <1>4, <1>6, <1>7, <1>8, <1>9 DEF k

-----------------------------------------------------------------------------
\* The numbers and the places of a walk after what the functor may do.
LEMMA NumberedAppend ==
    ASSUME NEW list \in Seq(Children), NEW n \in Nat, n < MaxNodes, Numbered(list, n),
           NEW new \in Children, new.id = n + 1
    PROVE  Numbered(Append(list, new), n + 1)
<1> DEFINE long == Append(list, new)
           q == NodeIds(list)
<1>1. q \in Seq(1 .. MaxNodes) /\ Elements(q) = IdsOf(list) /\ Distinct(q)
      /\ IdsOf(list) \subseteq 1 .. n
  BY NodeIdsOf DEF Numbered
<1>2. NodeIds(long) = Append(q, n + 1)
  BY NodeIdsAppend
<1>3. IdsOf(long) = IdsOf(list) \cup {n + 1}
  <2>1. Elements(long) = Elements(list) \cup {new}
    BY ElementsAppend
  <2>2. QED
    BY <2>1 DEF IdsOf
<1> HIDE DEF q, long
<1>4. n + 1 \in 1 .. MaxNodes /\ n + 1 \notin 1 .. n
  BY MaxNodesAssumption
<1>5. Distinct(Append(q, n + 1))
  BY <1>1, <1>4, DistinctAppend, ZenonT(30)
<1>6. IdsOf(long) \subseteq 1 .. n + 1
  BY <1>1, <1>3
<1>7. QED
  BY <1>2, <1>5, <1>6 DEF Numbered, long

LEMMA NumberedRemove ==
    ASSUME NEW list \in Seq(Children), NEW n \in Nat, Numbered(list, n), NEW m \in Elements(list)
    PROVE  /\ Numbered(Filter(list, Children \ {m}), n)
           /\ IdsOf(Filter(list, Children \ {m})) = IdsOf(list) \ {m.id}
<1> DEFINE K == Children \ {m}
           D == IdsOf(list) \ {m.id}
           W == With(D)
           short == Filter(list, K)
<1>1. Elements(list) \subseteq Children
  BY ElementOfSeq DEF Elements
<1>2. \A x, y \in Elements(list) : x.id = y.id => x = y
  BY IdsDetermine DEF Numbered
<1>3. Elements(list) \cap K = Elements(list) \cap W
  <2>1. \A x \in Elements(list) : x \in K <=> x \in W
    <3> TAKE x \in Elements(list)
    <3>1. x \in Children /\ x.id \in IdsOf(list) /\ (x.id = m.id <=> x = m)
      BY <1>1, <1>2 DEF IdsOf
    <3>2. QED
      BY <3>1 DEF With
  <2>2. QED
    BY <2>1
<1> HIDE DEF K, W
<1>4. short = Filter(list, W)
  BY <1>3, FilterSame
<1>5. NodeIds(short) = Filter(NodeIds(list), D)
  BY <1>4, FilterNodeIds DEF W
<1>6. Distinct(NodeIds(short))
  <2> DEFINE q == NodeIds(list)
  <2>1. q \in Seq(1 .. MaxNodes) /\ Distinct(q)
    BY NodeIdsOf DEF Numbered
  <2> HIDE DEF q, D
  <2>2. Distinct(Filter(q, D))
    BY <2>1, DistinctFilter
  <2>3. QED
    BY <1>5, <2>2 DEF q
<1>7. Elements(short) = Elements(list) \cap K
  BY FilterElements
<1>8. IdsOf(short) = D
  BY <1>1, <1>2, <1>7 DEF IdsOf, K
<1>9. IdsOf(short) \subseteq 1 .. n
  BY <1>8 DEF Numbered
<1>10. QED
  BY <1>6, <1>8, <1>9 DEF Numbered, short, K

\* The functor leaves the children as they are: the walk comes past the head of v.
Passes(list, seen, chg, ch, u, v) ==
    /\ ch = Head(v).id /\ Head(v) \in Elements(list)
    /\ Head(v) \in ElementNodes =>
           Stands(list, Append(seen, ch), chg, FALSE, NextSibling(list, ch),
                  Append(u, Head(v)), Tail(v))
    /\ Head(v) \notin ElementNodes =>
           Stands(list, seen, chg, FALSE, NextSibling(list, ch), Append(u, Head(v)), Tail(v))

LEMMA StandsKept ==
    ASSUME NEW list \in Seq(Children), NEW n, Numbered(list, n),
           NEW seen \in Seq(1 .. MaxNodes), NEW chg \in BOOLEAN,
           NEW u, NEW v, NEW ch, Stands(list, seen, chg, FALSE, ch, u, v), v # <<>>
    PROVE  Passes(list, seen, chg, ch, u, v)
<1> DEFINE c == Head(v)
           e == Append(u, c)
           t == Tail(v)
<1>1. /\ WalkedTo(list, seen, u, v) /\ ch = FirstChild(v)
      /\ ~chg => seen = NodeIds(Filter(u, ElementNodes))
      /\ u \in Seq(Children) /\ v \in Seq(Children)
  BY DEF Stands, WalkedTo
<1>2. ch = c.id
  BY <1>1, FirstIs
<1>3. /\ c \in Children /\ c \in Elements(list)
      /\ c \in ElementNodes =>
             /\ WalkedTo(list, Append(seen, ch), e, t)
             /\ NodeIds(Filter(e, ElementNodes)) = Append(NodeIds(Filter(u, ElementNodes)), ch)
      /\ c \notin ElementNodes =>
             /\ WalkedTo(list, seen, e, t)
             /\ Filter(e, ElementNodes) = Filter(u, ElementNodes)
  BY <1>1, <1>2, GoesPast
<1>4. list = e \o t /\ t \in Seq(Children)
  <2>1. \E s : WalkedTo(list, s, e, t)
    BY <1>3
  <2>2. QED
    BY <2>1 DEF WalkedTo
<1> HIDE DEF c, t
<1>5. NextSibling(list, ch) = FirstChild(t)
  <2>1. Distinct(NodeIds(list)) /\ c \in Children
    BY <1>3 DEF Numbered
  <2>2. list = Append(u, c) \o t /\ u \in Seq(Children) /\ t \in Seq(Children)
    BY <1>1, <1>4
  <2>3. NextSibling(list, c.id) = FirstChild(t)
    BY <2>1, <2>2, NextOf
  <2>4. QED
    BY <1>2, <2>3
<1> HIDE DEF e
<1>6. QED
  BY <1>1, <1>2, <1>3, <1>5 DEF Stands, Passes, c, e, t

\* It appends a child with a number of its own.
LEMMA StandsAppended ==
    ASSUME NEW list \in Seq(Children), NEW n \in Nat, Numbered(list, n), n < MaxNodes,
           NEW seen \in Seq(1 .. MaxNodes), Elements(seen) \subseteq 1 .. n,
           NEW u, NEW v, NEW c \in Children, WalkedTo(list, seen, Append(u, c), v),
           u \in Seq(Children), NEW new \in Children, new.id = n + 1
    PROVE  Stands(Append(list, new), seen, TRUE, FALSE, NextSibling(Append(list, new), c.id),
                  Append(u, c), Append(v, new))
<1> DEFINE e == Append(u, c)
           w == Append(v, new)
           long == Append(list, new)
<1>1. e \in Seq(Children) /\ v \in Seq(Children) /\ w \in Seq(Children)
  BY AppendProperties DEF WalkedTo
<1>2. WalkedTo(long, seen, e, w)
  <2>1. new.id \notin Elements(seen)
    BY MaxNodesAssumption
  <2> HIDE DEF e
  <2>2. QED
    BY <2>1, AppendedTo DEF e
<1>3. Distinct(NodeIds(long))
  BY NumberedAppend DEF Numbered
<1>4. long = e \o w
  BY <1>2 DEF WalkedTo
<1> HIDE DEF long, w
<1>5. NextSibling(long, c.id) = FirstChild(w)
  BY <1>1, <1>3, <1>4, NextOf
<1> HIDE DEF e
<1>6. QED
  BY <1>2, <1>5 DEF Stands, long, w, e

\* It removes a child: the one at hand, and then the walk ends, or another one.
StandsStill(list, seen, gone, ch) ==
    \E x, y \in Seq(Children) : Stands(list, seen, TRUE, gone, ch, x, y)

LEMMA StandsRemoved ==
    ASSUME NEW list \in Seq(Children), NEW n \in Nat, Numbered(list, n),
           NEW seen \in Seq(1 .. MaxNodes), NEW u, NEW v, NEW c \in Children,
           WalkedTo(list, seen, Append(u, c), v), u \in Seq(Children),
           c \in Elements(list), NEW m \in Elements(list), NEW short,
           short = Filter(list, Children \ {m})
    PROVE  StandsStill(short, seen, m.id = c.id, NextSibling(short, c.id))
<1> DEFINE K == Children \ {m}
           e == Append(u, c)
           p == Filter(e, K)
           q == Filter(v, K)
<1>1. e \in Seq(Children) /\ v \in Seq(Children)
  BY AppendProperties DEF WalkedTo
<1>2. WalkedTo(short, seen, p, q) /\ IdsOf(short) = IdsOf(list) \ {m.id}
  <2> HIDE DEF e
  <2>1. QED
    BY RemovedFrom DEF Numbered, e
<1>3. p \in Seq(Children) /\ q \in Seq(Children) /\ short \in Seq(Children) /\ short = p \o q
  <2>1. short \in Seq(Children)
    BY FilterType
  <2>2. QED
    BY <1>2, <2>1 DEF WalkedTo
<1>4. Distinct(NodeIds(short))
  BY NumberedRemove DEF Numbered
<1>5. m.id = c.id <=> m = c
  BY IdsDetermine DEF Numbered
<1>6. CASE m = c
  <2>1. NextSibling(short, c.id) = 0
    BY <1>2, <1>3, <1>6, NextOfNone
  <2> HIDE DEF p, q
  <2>2. Stands(short, seen, TRUE, m.id = c.id, NextSibling(short, c.id), p, q)
    BY <1>2, <1>5, <1>6, <2>1 DEF Stands
  <2>3. QED
    BY <1>3, <2>2 DEF StandsStill
<1>7. CASE m # c
  <2> DEFINE r == Filter(u, K)
  <2>1. FiltersOne(u, c, K)
    <3> HIDE DEF K
    <3>1. QED
      BY FilterOneMore
  <2>2. p = Append(r, c) /\ r \in Seq(Children)
    BY <1>7, <2>1, FilterType DEF FiltersOne
  <2> HIDE DEF p, q, r
  <2>3. short = Append(r, c) \o q
    BY <1>3, <2>2
  <2>4. NextSibling(short, c.id) = FirstChild(q)
    BY <1>3, <1>4, <2>2, <2>3, NextOf, ZenonT(30)
  <2>5. Stands(short, seen, TRUE, m.id = c.id, NextSibling(short, c.id), p, q)
    BY <1>2, <1>5, <1>7, <2>4 DEF Stands
  <2>6. QED
    BY <1>3, <2>5 DEF StandsStill
<1>8. QED
  BY <1>6, <1>7

-----------------------------------------------------------------------------
LEMMA ParseInvInit == ParseInit => ParseInv
<1> SUFFICES ASSUME ParseInit PROVE ParseInv
  OBVIOUS
<1>1. /\ tag = NoTag /\ child = 0 /\ nodes = MaxChildren /\ visited = <<>>
      /\ changed = FALSE /\ left = FALSE
  BY DEF ParseInit, NotWalking
<1>2. PICK n \in 0 .. MaxChildren, firstTag \in Tags, firstKind \in Kinds, secondTag \in Tags :
          \E kinds \in [1 .. n -> Kinds] :
              LET list == [i \in 1 .. n |-> [id |-> i, kind |-> kinds[i]]]
              IN  parent = <<[kind |-> firstKind, tag |-> firstTag, children |-> list],
                             [kind |-> "element", tag |-> secondTag, children |-> list]>>
  BY DEF ParseInit
<1>a. PICK kinds \in [1 .. n -> Kinds] :
          parent = <<[kind |-> firstKind, tag |-> firstTag,
                      children |-> [i \in 1 .. n |-> [id |-> i, kind |-> kinds[i]]]],
                     [kind |-> "element", tag |-> secondTag,
                      children |-> [i \in 1 .. n |-> [id |-> i, kind |-> kinds[i]]]]>>
  BY <1>2
<1> DEFINE list == [i \in 1 .. n |-> [id |-> i, kind |-> kinds[i]]]
           one == [kind |-> firstKind, tag |-> firstTag, children |-> list]
           two == [kind |-> "element", tag |-> secondTag, children |-> list]
<1>3. n \in Nat /\ n <= MaxChildren /\ MaxChildren \in Nat /\ MaxNodes \in Nat
      /\ MaxChildren <= MaxNodes
  BY <1>2, MaxNodesAssumption
<1>4. list \in Seq(Children) /\ Len(list) = n /\ \A i \in 1 .. n : list[i].id = i
  <2>1. \A i \in 1 .. n : [id |-> i, kind |-> kinds[i]] \in Children
    BY <1>a, <1>3 DEF Children
  <2>2. list \in [1 .. n -> Children]
    BY <2>1
  <2>3. \A i \in 1 .. n : list[i].id = i
    OBVIOUS
  <2> HIDE DEF list
  <2>4. list \in Seq(Children) /\ DOMAIN list = 1 .. n
    BY <1>3, <2>2
  <2>5. Len(list) = n
    BY <1>3, <2>4, LenProperties
  <2>6. QED
    BY <2>3, <2>4, <2>5
<1>5. parent = <<one, two>>
  BY <1>a
<1> HIDE DEF list
<1>6. one \in Parents /\ two \in Parents /\ one.children = list /\ two.children = list
  BY <1>4 DEF Parents, Kinds
<1> HIDE DEF one, two
<1>7. parent \in Seq(Parents) /\ \A i \in DOMAIN parent : parent[i].children = list
  BY <1>5, <1>6
<1>8. Numbered(list, nodes)
  <2> DEFINE q == NodeIds(list)
  <2>1. Len(q) = n /\ (\A i \in 1 .. n : q[i] = list[i].id) /\ Elements(q) = IdsOf(list)
    <3> HIDE DEF q
    <3>1. QED
      BY <1>4, NodeIdsOf DEF q
  <2> HIDE DEF q
  <2>2. \A i \in 1 .. n : q[i] = i
    BY <1>4, <2>1
  <2>3. Distinct(q) /\ Elements(q) \subseteq 1 .. n
    BY <2>1, <2>2 DEF Distinct, Elements
  <2>4. IdsOf(list) \subseteq 1 .. nodes
    BY <1>1, <1>3, <2>1, <2>3
  <2>5. QED
    BY <2>3, <2>4 DEF Numbered, q
<1>9. ParseTypeOK
  <2>1. visited \in Seq(1 .. MaxNodes)
    BY <1>1, EmptySeq
  <2>2. parent \in Seq([kind : Kinds, tag : Tags, children : Seq(Children)])
    BY <1>7 DEF Parents
  <2>3. child \in 0 .. MaxNodes /\ nodes \in 0 .. MaxNodes
    BY <1>1, <1>3
  <2>4. tag \in Tags \cup {NoTag} /\ changed \in BOOLEAN /\ left \in BOOLEAN /\ (left => changed)
    BY <1>1
  <2>5. QED
    BY <2>1, <2>2, <2>3, <2>4 DEF ParseTypeOK
<1>10. Elements(visited) \subseteq 1 .. nodes
  BY <1>1, ElementsEmpty
<1>11. QED
  BY <1>1, <1>7, <1>8, <1>9, <1>10 DEF ParseInv

LEMMA ParseNodeKeeps ==
    ASSUME ParseInv, NEW t \in Tags, ParseNode(t) PROVE ParseInv'
<1>1. ParseTypeOK /\ tag = NoTag /\ visited = <<>> /\ ~changed /\ ~left
  BY DEF ParseInv, ParseNode
<1>2. /\ FirstChildElement(t) # 0 /\ tag' = t
      /\ child' = FirstChild(parent[FirstChildElement(t)].children)
      /\ parent' = parent /\ nodes' = nodes /\ visited' = visited /\ changed' = changed
      /\ left' = left
  BY DEF ParseNode
<1>3. FirstChildElement(tag)' = FirstChildElement(t)
  BY <1>2 DEF FirstChildElement
<1> DEFINE list == parent[FirstChildElement(t)].children
           none == <<>>
<1>4. parent \in Seq(Parents)
  BY <1>1 DEF ParseTypeOK, Parents
<1>5. list \in Seq(Children)
  <2>1. parent[FirstChildElement(t)] \in Parents
    BY <1>2, <1>4, ElementIs, ElementOfSeq, LenProperties
  <2>2. QED
    BY <2>1 DEF Parents
<1>6. Walked' = list
  BY <1>2, <1>3 DEF Walked
<1> HIDE DEF list
<1>7. child' = FirstChild(list) /\ child' \in 0 .. MaxNodes
  BY <1>2, <1>5, FirstIs DEF list
<1>8. Stands(list, visited, changed, left, child', none, list)
  <2>1. none \in Seq(Children) /\ list = none \o list
    BY <1>5, EmptySeq, ConcatEmptySeq
  <2>2. Filter(none, IdsOf(list)) = none /\ Filter(none, ElementNodes) = none /\ NodeIds(none) = none
    BY FilterEmpty, NodeIdsEmpty
  <2>3. visited = none
    BY <1>1
  <2> HIDE DEF none
  <2>4. QED
    BY <1>1, <1>5, <1>7, <2>1, <2>2, <2>3 DEF Stands, WalkedTo
<1>9. ParseTypeOK'
  BY <1>1, <1>2, <1>7 DEF ParseTypeOK
<1>10. (\E u, v \in Seq(Children) : Stands(Walked, visited, changed, left, child, u, v))'
  <2>1. none \in Seq(Children)
    BY EmptySeq
  <2> HIDE DEF none
  <2>2. QED
    BY <1>2, <1>5, <1>6, <1>8, <2>1
<1>11. (tag = NoTag => visited = <<>> /\ ~changed /\ ~left)'
  BY <1>1, <1>2
<1>12. (\A i \in DOMAIN parent : Numbered(parent[i].children, nodes))'
       /\ (Elements(visited) \subseteq 1 .. nodes)'
  BY <1>2 DEF ParseInv
<1>13. (FirstChildElement(tag) # 0)'
  BY <1>2, <1>3
<1>14. QED
  BY <1>9, <1>10, <1>11, <1>12, <1>13 DEF ParseInv

-----------------------------------------------------------------------------
\* The children walked over, and what is known of them.
LEMMA WalkedIs ==
    ASSUME ParseInv, tag # NoTag
    PROVE  /\ FirstChildElement(tag) # 0 /\ parent \in Seq(Parents)
           /\ Walked \in Seq(Children) /\ Numbered(Walked, nodes) /\ nodes \in Nat
           /\ visited \in Seq(1 .. MaxNodes) /\ Elements(visited) \subseteq 1 .. nodes
           /\ changed \in BOOLEAN /\ left \in BOOLEAN
<1> DEFINE k == FirstChildElement(tag)
<1>1. k # 0 /\ parent \in Seq(Parents)
  BY DEF ParseInv, ParseTypeOK, Parents
<1>2. k \in DOMAIN parent
  BY <1>1, ElementIs
<1>3. parent[k] \in Parents
  BY <1>1, <1>2, ElementOfSeq, LenProperties
<1>4. Walked \in Seq(Children) /\ Numbered(Walked, nodes)
  BY <1>2, <1>3 DEF ParseInv, Walked, Parents
<1>5. nodes \in Nat
  BY MaxNodesAssumption DEF ParseInv, ParseTypeOK
<1>6. QED
  BY <1>1, <1>4, <1>5 DEF ParseInv, ParseTypeOK

\* The child at hand is the head of what is still to go.
LEMMA AtHand ==
    ASSUME ParseInv, tag # NoTag, NEW n \in ToSet(Walked), n.id = child
    PROVE  /\ ~left /\ n \in Children /\ n \in Elements(Walked) /\ n.id \in 1 .. MaxNodes
           /\ n.id \in 1 .. nodes
           /\ \E u, v : /\ Stands(Walked, visited, changed, FALSE, child, u, v)
                        /\ v # <<>> /\ Head(v) = n
                        /\ u \in Seq(Children) /\ v \in Seq(Children)
<1>1. /\ Walked \in Seq(Children) /\ Numbered(Walked, nodes)
      /\ visited \in Seq(1 .. MaxNodes) /\ changed \in BOOLEAN /\ left \in BOOLEAN
  BY WalkedIs
<1>2. PICK u, v \in Seq(Children) : Stands(Walked, visited, changed, left, child, u, v)
  BY DEF ParseInv
<1>3. n \in Elements(Walked) /\ Elements(Walked) \subseteq Children
  <2>1. DOMAIN Walked = 1 .. Len(Walked) /\ Elements(Walked) \subseteq Children
    BY <1>1, LenProperties, ElementOfSeq DEF Elements
  <2>2. QED
    BY <2>1 DEF ToSet, Elements
<1>4. n.id \in 1 .. MaxNodes /\ n.id \in 1 .. nodes /\ n.id # 0
  BY <1>1, <1>3 DEF Children, Numbered, IdsOf
<1>5. ~left /\ child = FirstChild(v) /\ v # <<>>
  <2>1. child = IF left THEN 0 ELSE FirstChild(v)
    BY <1>2 DEF Stands
  <2>2. ~left /\ FirstChild(v) # 0
    BY <1>4, <2>1
  <2>3. QED
    BY <1>2, <2>1, <2>2, FirstIs
<1>6. Stands(Walked, visited, changed, FALSE, child, u, v)
  <2>1. left = FALSE
    BY <1>1, <1>5
  <2>2. QED
    BY <1>2, <2>1
<1>7. Head(v) \in Elements(Walked) /\ Head(v).id = child
  <2> DEFINE list == Walked
             chg == changed
             seen == visited
  <2> HIDE DEF list, chg, seen
  <2>1. list \in Seq(Children) /\ Numbered(list, nodes) /\ chg \in BOOLEAN
        /\ seen \in Seq(1 .. MaxNodes) /\ Stands(list, seen, chg, FALSE, child, u, v)
    BY <1>1, <1>6 DEF list, chg, seen
  <2>2. Passes(list, seen, chg, child, u, v)
    BY <1>5, <2>1, StandsKept
  <2>3. QED
    BY <2>2 DEF Passes, list
<1>8. Head(v) = n
  <2>1. Distinct(NodeIds(Walked))
    BY <1>1 DEF Numbered
  <2>2. QED
    BY <1>1, <1>3, <1>7, <2>1, IdsDetermine
<1>9. QED
  BY <1>2, <1>3, <1>4, <1>5, <1>6, <1>8

LEMMA SkipKeeps ==
    ASSUME ParseInv, tag # NoTag, NEW n \in ToSet(Walked), Skip(n)
    PROVE  ParseInv'
<1>1. /\ n.id = child /\ ~IsElement(n) /\ child' = NextSibling(Walked, child)
      /\ parent' = parent /\ tag' = tag /\ nodes' = nodes /\ visited' = visited
      /\ changed' = changed /\ left' = left
  BY DEF Skip
<1>2. /\ FirstChildElement(tag) # 0 /\ Walked \in Seq(Children) /\ Numbered(Walked, nodes)
      /\ visited \in Seq(1 .. MaxNodes) /\ changed \in BOOLEAN /\ left \in BOOLEAN
  BY WalkedIs
<1>3. PICK u, v : /\ ~left /\ Stands(Walked, visited, changed, FALSE, child, u, v)
                  /\ v # <<>> /\ Head(v) = n /\ u \in Seq(Children) /\ v \in Seq(Children)
  BY <1>1, AtHand
<1>4. n \notin ElementNodes
  BY <1>1 DEF IsElement, ElementNodes
<1> DEFINE e == Append(u, n)
           t == Tail(v)
<1>5. Stands(Walked, visited, changed, FALSE, NextSibling(Walked, child), e, t)
  <2>1. Passes(Walked, visited, changed, child, u, v)
    BY <1>2, <1>3, StandsKept
  <2>2. QED
    BY <1>3, <1>4, <2>1 DEF Passes
<1>6. e \in Seq(Children) /\ t \in Seq(Children)
  BY <1>5 DEF Stands, WalkedTo
<1>7. Walked' = Walked /\ FirstChildElement(tag)' = FirstChildElement(tag)
  BY <1>1 DEF Walked, FirstChildElement
<1> HIDE DEF e, t
<1>8. (\E x, y \in Seq(Children) : Stands(Walked, visited, changed, left, child, x, y))'
  <2>1. Stands(Walked, visited, changed, left, child, e, t)'
    <3>1. left' = FALSE
      BY <1>1, <1>2, <1>3
    <3>2. QED
      BY <1>1, <1>5, <1>7, <3>1
  <2>2. QED
    BY <1>6, <2>1
<1>9. child' \in 0 .. MaxNodes
  BY <1>1, <1>5, <1>6, FirstIs DEF Stands
<1>10. ParseTypeOK'
  BY <1>1, <1>9 DEF ParseInv, ParseTypeOK
<1>11. QED
  BY <1>1, <1>2, <1>7, <1>8, <1>10 DEF ParseInv

LEMMA SeenMore ==
    ASSUME NEW seen \in Seq(1 .. MaxNodes), NEW c \in 1 .. MaxNodes
    PROVE  /\ Append(seen, c) \in Seq(1 .. MaxNodes)
           /\ Elements(Append(seen, c)) = Elements(seen) \cup {c}
<1> DEFINE T == 1 .. MaxNodes
<1>1. seen \in Seq(T) /\ c \in T
  OBVIOUS
<1> HIDE DEF T
<1>2. Append(seen, c) \in Seq(T) /\ Elements(Append(seen, c)) = Elements(seen) \cup {c}
  BY <1>1, AppendProperties, ElementsAppend
<1>3. QED
  BY <1>2 DEF T

\* What a step that visits a child has to leave behind.
LEMMA VisitSuffices ==
    ASSUME ParseInv, tag # NoTag, NEW n \in ToSet(Walked), Visit(n),
           parent' \in Seq(Parents), FirstChildElement(tag)' # 0,
           \A i \in DOMAIN parent' : Numbered(parent'[i].children, nodes'),
           nodes' \in 0 .. MaxNodes, nodes <= nodes',
           changed' \in BOOLEAN, left' \in BOOLEAN, left' => changed',
           NEW x \in Seq(Children), NEW y \in Seq(Children),
           Stands(Walked', Append(visited, child), changed', left', child', x, y)
    PROVE  ParseInv'
<1>1. tag' = tag /\ visited' = Append(visited, child) /\ child = n.id
  BY DEF Visit
<1>2. visited \in Seq(1 .. MaxNodes) /\ Elements(visited) \subseteq 1 .. nodes
      /\ nodes \in Nat /\ child \in 1 .. MaxNodes /\ child \in 1 .. nodes
  BY <1>1, WalkedIs, AtHand
<1>3. visited' \in Seq(1 .. MaxNodes) /\ Elements(visited') \subseteq 1 .. nodes'
  <2>1. Append(visited, child) \in Seq(1 .. MaxNodes)
        /\ Elements(Append(visited, child)) = Elements(visited) \cup {child}
    BY <1>2, SeenMore
  <2>2. 1 .. nodes \subseteq 1 .. nodes'
    BY <1>2, MaxNodesAssumption
  <2>3. QED
    BY <1>1, <1>2, <2>1, <2>2
<1>4. child' \in 0 .. MaxNodes
  BY FirstIs, MaxNodesAssumption DEF Stands
<1>5. ParseTypeOK'
  <2>1. tag \in Tags \cup {NoTag}
    BY DEF ParseInv, ParseTypeOK
  <2>2. QED
    BY <1>1, <1>3, <1>4, <2>1 DEF ParseTypeOK, Parents
<1>6. (\E u, v \in Seq(Children) : Stands(Walked, visited, changed, left, child, u, v))'
  <2>1. Stands(Walked, visited, changed, left, child, x, y)'
    BY <1>1
  <2>2. QED
    BY <2>1
<1>7. QED
  BY <1>1, <1>3, <1>5, <1>6 DEF ParseInv

LEMMA VisitKeeps ==
    ASSUME ParseInv, tag # NoTag, NEW n \in ToSet(Walked), Visit(n)
    PROVE  ParseInv'
<1>1. /\ n.id = child /\ IsElement(n) /\ tag' = tag
      /\ Keep \/ AppendChild \/ \E m \in ToSet(Walked) : RemoveChild(m)
      /\ child' = NextSibling(Walked', child)
  BY DEF Visit
<1>2. /\ FirstChildElement(tag) # 0 /\ parent \in Seq(Parents)
      /\ Walked \in Seq(Children) /\ Numbered(Walked, nodes) /\ nodes \in Nat
      /\ visited \in Seq(1 .. MaxNodes) /\ Elements(visited) \subseteq 1 .. nodes
      /\ changed \in BOOLEAN /\ left \in BOOLEAN
  BY WalkedIs
<1>3. /\ ~left /\ n \in Children /\ n \in Elements(Walked)
      /\ child \in 1 .. MaxNodes /\ child \in 1 .. nodes
  BY <1>1, AtHand
<1>4. PICK u, v : /\ Stands(Walked, visited, changed, FALSE, child, u, v)
                  /\ v # <<>> /\ Head(v) = n /\ u \in Seq(Children) /\ v \in Seq(Children)
  BY <1>1, AtHand
<1>5. n \in ElementNodes
  BY <1>1, <1>3 DEF IsElement, ElementNodes
<1> DEFINE e == Append(u, n)
           t == Tail(v)
           seen == Append(visited, child)
<1>6. Stands(Walked, seen, changed, FALSE, NextSibling(Walked, child), e, t)
  <2>1. Passes(Walked, visited, changed, child, u, v)
    BY <1>2, <1>4, StandsKept
  <2>2. QED
    BY <1>4, <1>5, <2>1 DEF Passes
<1>7. e \in Seq(Children) /\ t \in Seq(Children) /\ WalkedTo(Walked, seen, e, t)
  BY <1>6 DEF Stands, WalkedTo
<1>8. seen \in Seq(1 .. MaxNodes) /\ Elements(seen) \subseteq 1 .. nodes
  <2>1. seen \in Seq(1 .. MaxNodes) /\ Elements(seen) = Elements(visited) \cup {child}
    BY <1>2, <1>3, SeenMore
  <2>2. QED
    BY <1>2, <1>3, <2>1
<1>9. /\ \A i \in DOMAIN parent : Numbered(parent[i].children, nodes)
      /\ nodes \in 0 .. MaxNodes /\ (left => changed)
  BY DEF ParseInv, ParseTypeOK
<1> HIDE DEF t, seen
<1>10. CASE Keep
  <2>1. parent' = parent /\ nodes' = nodes /\ changed' = changed /\ left' = FALSE
    BY <1>10 DEF Keep
  <2>2. Walked' = Walked /\ FirstChildElement(tag)' = FirstChildElement(tag)
    BY <1>1, <2>1 DEF Walked, FirstChildElement
  <2> HIDE DEF e
  <2>3. Stands(Walked', Append(visited, child), changed', left', child', e, t)
    BY <1>1, <1>6, <2>1, <2>2 DEF seen
  <2>4. nodes <= nodes' /\ nodes' \in 0 .. MaxNodes
    BY <1>2, <1>9, <2>1
  <2>5. QED
    BY <1>2, <1>7, <1>9, <2>1, <2>2, <2>3, <2>4, VisitSuffices
<1>11. CASE AppendChild
  <2> DEFINE new == [id |-> nodes + 1, kind |-> "element"]
             long == Append(Walked, new)
             w == Append(t, new)
  <2>1. /\ nodes < MaxNodes /\ nodes' = nodes + 1 /\ changed' = TRUE /\ left' = FALSE
        /\ parent' = [parent EXCEPT ![FirstChildElement(tag)].children = long]
    BY <1>11 DEF AppendChild, SetChildren
  <2>2. new \in Children /\ new.id = nodes + 1
    BY <1>2, <2>1, MaxNodesAssumption DEF Children, Kinds
  <2> HIDE DEF new
  <2>3. long \in Seq(Children) /\ w \in Seq(Children)
    BY <1>2, <1>7, <2>2, AppendProperties
  <2>4. Numbered(long, nodes + 1)
    BY <1>2, <2>1, <2>2, NumberedAppend
  <2>5. Stands(long, seen, TRUE, FALSE, NextSibling(long, n.id), e, w)
    BY <1>2, <1>3, <1>4, <1>7, <1>8, <2>1, <2>2, StandsAppended
  <2> HIDE DEF e, w, long
  <2>6. /\ parent' \in Seq(Parents) /\ DOMAIN parent' = DOMAIN parent
        /\ FirstChildElement(tag)' = FirstChildElement(tag)
        /\ Walked' = long
        /\ \A i \in DOMAIN parent :
               parent'[i].children = parent[i].children \/ parent'[i].children = long
    BY <1>1, <1>2, <2>1, <2>3, ChildrenSet
  <2>7. Stands(Walked', Append(visited, child), changed', left', child', e, w)
    BY <1>1, <2>1, <2>5, <2>6 DEF seen
  <2>8. nodes <= nodes' /\ nodes' \in 0 .. MaxNodes /\ 1 .. nodes \subseteq 1 .. nodes'
    BY <1>2, <2>1, MaxNodesAssumption
  <2>9. \A i \in DOMAIN parent' : Numbered(parent'[i].children, nodes')
    BY <1>9, <2>1, <2>4, <2>6, <2>8 DEF Numbered
  <2>10. QED
    BY <1>2, <1>7, <2>1, <2>3, <2>6, <2>7, <2>8, <2>9, VisitSuffices
<1>12. ASSUME NEW m \in ToSet(Walked), RemoveChild(m) PROVE ParseInv'
  <2> DEFINE short == Filter(Walked, Children \ {m})
  <2>1. /\ nodes' = nodes /\ changed' = TRUE /\ left' = (m.id = child)
        /\ parent' = [parent EXCEPT ![FirstChildElement(tag)].children = short]
    BY <1>12 DEF RemoveChild, SetChildren
  <2>2. m \in Elements(Walked)
    <3>1. DOMAIN Walked = 1 .. Len(Walked)
      BY <1>2, LenProperties
    <3>2. QED
      BY <3>1 DEF ToSet, Elements
  <2>3. short \in Seq(Children)
    BY <1>2, FilterType
  <2>4. Numbered(short, nodes)
    BY <1>2, <2>2, NumberedRemove
  <2> DEFINE list == Walked
  <2>5. StandsStill(short, seen, m.id = n.id, NextSibling(short, n.id))
    <3>1. short = Filter(list, Children \ {m})
      OBVIOUS
    <3> HIDE DEF short
    <3>2. list \in Seq(Children) /\ Numbered(list, nodes) /\ WalkedTo(list, seen, Append(u, n), t)
          /\ n \in Elements(list) /\ m \in Elements(list)
      BY <1>2, <1>3, <1>7, <2>2
    <3> HIDE DEF list
    <3>3. QED
      BY <1>2, <1>3, <1>4, <1>8, <3>1, <3>2, StandsRemoved
  <2> HIDE DEF short
  <2>6. PICK x, y \in Seq(Children) :
            Stands(short, seen, TRUE, m.id = n.id, NextSibling(short, n.id), x, y)
    BY <2>5 DEF StandsStill
  <2>7. /\ parent' \in Seq(Parents) /\ DOMAIN parent' = DOMAIN parent
        /\ FirstChildElement(tag)' = FirstChildElement(tag)
        /\ Walked' = short
        /\ \A i \in DOMAIN parent :
               parent'[i].children = parent[i].children \/ parent'[i].children = short
    BY <1>1, <1>2, <2>1, <2>3, ChildrenSet
  <2>8. Stands(Walked', Append(visited, child), changed', left', child', x, y)
    BY <1>1, <2>1, <2>6, <2>7 DEF seen
  <2>9. nodes <= nodes' /\ nodes' \in 0 .. MaxNodes
    BY <1>2, <1>9, <2>1
  <2>10. \A i \in DOMAIN parent' : Numbered(parent'[i].children, nodes')
    BY <1>9, <2>1, <2>4, <2>7
  <2>11. QED
    BY <1>2, <2>1, <2>7, <2>8, <2>9, <2>10, VisitSuffices
<1>13. QED
  BY <1>1, <1>10, <1>11, <1>12

-----------------------------------------------------------------------------
\* The walks of every number of nodes and every set of tags keep the invariant:
\* of the children walked over, a first part has been gone past, and what is still
\* there of the children visited are the elements of that part, in order.
THEOREM ParseInvariance == ParseSpec => []ParseInv
<1>1. ParseInit => ParseInv
  BY ParseInvInit
<1>2. ParseInv /\ [ParseNext]_parseVars => ParseInv'
  <2> SUFFICES ASSUME ParseInv, [ParseNext]_parseVars PROVE ParseInv'
    OBVIOUS
  <2>1. CASE \E t \in Tags : ParseNode(t)
    BY <2>1, ParseNodeKeeps
  <2>2. CASE tag # NoTag /\ \E n \in ToSet(Walked) : Visit(n) \/ Skip(n)
    BY <2>2, VisitKeeps, SkipKeeps
  <2>3. CASE UNCHANGED parseVars
    <3>1. ParseTypeOK'
      BY <2>3 DEF parseVars, ParseInv, ParseTypeOK
    <3>2. Walked' = Walked /\ FirstChildElement(tag)' = FirstChildElement(tag)
      BY <2>3 DEF parseVars, Walked, FirstChildElement
    <3>3. QED
      BY <2>3, <3>1, <3>2 DEF parseVars, ParseInv
  <2>4. QED
    BY <2>1, <2>2, <2>3 DEF ParseNext
<1>3. QED
  BY <1>1, <1>2, PTL DEF ParseSpec

\* The parser's state keeps its type, whatever the functor does with the children.
THEOREM ParseTypeCorrect == ParseSpec => []ParseTypeOK
BY ParseInvariance, PTL DEF ParseInv

\* A walk over children of any number that is over has been at every element that
\* is still there, once and in order, although the functor adds and removes
\* children while it goes on, unless the last thing the functor did was to remove
\* the child it was given; and it visits what parseArray lists when nothing is
\* changed (callForEachChild of xmlparse.cpp).
THEOREM WalksVisitAll == ParseSpec => []WalksComplete
<1>1. ParseInv => WalksComplete
  <2> SUFFICES ASSUME ParseInv, tag # NoTag, child = 0
               PROVE  LET still == Filter(visited, ToSet(NodeIds(Walked)))
                          all   == NodeIds(Filter(Walked, ElementNodes))
                      IN  /\ IF left THEN IsPrefix(still, all) ELSE still = all
                          /\ ~changed => visited = ParseArray(tag, <<>>)
    BY DEF WalksComplete
  <2> DEFINE list == Walked
             a == NodeIds(Filter(list, ElementNodes))
             f == Filter(visited, ToSet(NodeIds(list)))
  <2>1. list \in Seq(Children) /\ FirstChildElement(tag) # 0 /\ left \in BOOLEAN
    BY WalkedIs
  <2>2. PICK u, v \in Seq(Children) : Stands(list, visited, changed, left, child, u, v)
    BY DEF ParseInv
  <2>3. /\ list = u \o v /\ Filter(visited, IdsOf(list)) = NodeIds(Filter(u, ElementNodes))
        /\ ~changed => visited = NodeIds(Filter(u, ElementNodes))
        /\ ~left => FirstChild(v) = 0
    BY <2>2 DEF Stands, WalkedTo
  <2> DEFINE p == Filter(u, ElementNodes)
             q == Filter(v, ElementNodes)
  <2>4. f = NodeIds(p)
    <3>1. ToSet(NodeIds(list)) = IdsOf(list)
      <4> HIDE DEF list
      <4>1. QED
        BY <2>1, NodeIdsOf
    <3>2. QED
      BY <2>3, <3>1
  <2> HIDE DEF f
  <2>5. a = NodeIds(p) \o NodeIds(q)
    <3>1. FiltersApart(u, v, ElementNodes)
      BY FilterApart
    <3>2. p \in Seq(Children) /\ q \in Seq(Children)
      BY FilterType
    <3>3. Filter(list, ElementNodes) = p \o q
      BY <2>3, <3>1 DEF FiltersApart
    <3> HIDE DEF p, q
    <3>4. NodeIdsApart(p, q)
      BY <3>2, NodeIdsConcat
    <3>5. QED
      BY <3>3, <3>4 DEF NodeIdsApart
  <2>6. NodeIds(p) \in Seq(1 .. MaxNodes) /\ NodeIds(q) \in Seq(1 .. MaxNodes)
    <3>1. p \in Seq(Children) /\ q \in Seq(Children)
      BY FilterType
    <3> HIDE DEF p, q
    <3>2. QED
      BY <3>1, NodeIdsOf
  <2>7. ~left => list = u
    <3>1. ~left => v = <<>>
      BY <2>3, FirstIs
    <3>2. u \o <<>> = u
      BY ConcatEmptySeq
    <3>3. QED
      BY <2>3, <3>1, <3>2
  <2>8. ~left => f = a
    BY <2>4, <2>7
  <2> HIDE DEF a
  <2>9. IsPrefix(f, a)
    <3> DEFINE b == NodeIds(p)
               c == NodeIds(q)
    <3>1. b \in Seq(1 .. MaxNodes) /\ c \in Seq(1 .. MaxNodes) /\ f = b /\ a = b \o c
      BY <2>4, <2>5, <2>6
    <3> HIDE DEF b, c
    <3>2. Len(b) <= Len(b \o c) /\ SubSeq(b, 1, Len(b)) = SubSeq(b \o c, 1, Len(b))
      BY <3>1, LenProperties
    <3>3. QED
      BY <3>1, <3>2 DEF IsPrefix
  <2>10. ~changed => visited = ParseArray(tag, <<>>)
    <3> SUFFICES ASSUME ~changed PROVE visited = ParseArray(tag, <<>>)
      OBVIOUS
    <3>1. ~left
      BY DEF ParseInv, ParseTypeOK
    <3>2. visited = NodeIds(Filter(Walked, ElementNodes))
      BY <2>3, <2>7, <3>1 DEF list
    <3>3. CASE Walked = <<>>
      <4>1. visited = <<>>
        BY <3>2, <3>3, FilterEmpty, NodeIdsEmpty
      <4>2. QED
        BY <3>3, <4>1 DEF ParseArray, Walked
    <3>4. CASE Walked # <<>>
      BY <2>1, <3>2, <3>4 DEF ParseArray, Walked
    <3>5. QED
      BY <3>3, <3>4
  <2>11. QED
    BY <2>1, <2>8, <2>9, <2>10 DEF list, a, f
<1>2. QED
  BY <1>1, ParseInvariance, PTL
=============================================================================
