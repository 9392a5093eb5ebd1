------------------------------ MODULE Numbers ------------------------------
(***************************************************************************)
(* The small number types and conversions: uint24 (src/uint24.cpp), bit    *)
(* indices, versions, ratios and values in a byte array (src/stdfunc.cpp,  *)
(* stdfunc.h, std_ext.h), IPv4 addresses (src/netip.cpp), what a           *)
(* Convertable casts to (src/utils/convertable.cpp) and parts of a second  *)
(* (src/timefunc.cpp), each with what it should compute.                   *)
(*                                                                         *)
(* A byte has Base values, 256 in the code, and a word has four bytes: all *)
(* widths scale with Base, so that TLC can try every word of a small one.  *)
(***************************************************************************)
EXTENDS Integers, Filters, SequencesExt, FiniteSetsExt

CONSTANTS
    Base,      \* values of a byte
    Width,     \* bits of a word
    Thousand   \* milliseconds in a second, and so on

ASSUME BaseAssumption == Base \in Nat /\ Base > 1

\* How many values so many bytes, up to a word, have.
Span(size) == <<1, Base, Base * Base, Base * Base * Base, Base * Base * Base * Base>>[size + 1]

\* The number that has bit i alone.
Power[i \in 0..Width] == IF i = 0 THEN 1 ELSE 2 * Power[i - 1]

Million == Thousand * Thousand
Billion == Thousand * Million

ASSUME WidthAssumption == Width \in Nat /\ Power[Width] = Span(4)
ASSUME ThousandAssumption == Thousand \in Nat /\ Thousand > 1 /\ Million <= Span(4)

VARIABLES
    value,     \* the bytes of a uint24, the lowest first
    number,    \* history: the number that uint24 should be
    word       \* the quint32 the operations are given

numbersVars == <<value, number, word>>

Byte  == 0..(Base - 1)
Int24 == 0..(Span(3) - 1)
Word  == 0..(Span(4) - 1)

-----------------------------------------------------------------------------
(* uint24. *)

ByteOf(n, i) == (n \div Span(i)) % Base

FromU32Mutant(n) ==  \* copies the three high bytes
    <<ByteOf(n, 1), ByteOf(n, 2), ByteOf(n, 3)>>

\* operator=(u32) copies the three low bytes of a little-endian word.
FromU32(n) == <<ByteOf(n, 0), ByteOf(n, 1), ByteOf(n, 2)>>

ToU32(v) == v[3] * Span(2) + v[2] * Base + v[1]
ToU16(v) == v[2] * Base + v[1]

\* The arithmetic of u32, in which the operators work.
Wrapped(n) == n % Span(4)

Plus(v, w)   == FromU32(Wrapped(ToU32(v) + ToU32(w)))
Minus(v, w)  == FromU32(Wrapped(ToU32(v) - ToU32(w)))
Times(v, w)  == FromU32(Wrapped(ToU32(v) * ToU32(w)))
Over(v, w)   == FromU32(ToU32(v) \div ToU32(w))

IsTrue(v)    == ToU32(v) # 0
AtMost(v, w) == ToU32(v) <= ToU32(w)
Equal(v, w)  == ToU32(v) = ToU32(w)

NumbersInit ==
    /\ value = <<0, 0, 0>>
    /\ number = 0
    /\ word \in Word

\* The assignment operators, with uint24(word) on the right.
Operand == FromU32(word)
Right   == word % Span(3)

Assign(v, n) ==
    /\ value' = v
    /\ number' = n % Span(3)
    /\ UNCHANGED word

Add      == Assign(Plus(value, Operand), number + Right)
Subtract == Assign(Minus(value, Operand), number - Right)
Multiply == Assign(Times(value, Operand), number * Right)
Divide   == Right # 0 /\ Assign(Over(value, Operand), number \div Right)

NumbersNext == Add \/ Subtract \/ Multiply \/ Divide

NumbersSpec == NumbersInit /\ [][NumbersNext]_numbersVars

-----------------------------------------------------------------------------
(* Bits of a word, counted from 1. *)

HasBit(d, i) == (d \div Power[i]) % 2 = 1
Bits(d)      == {i \in 0..(Width - 1) : HasBit(d, i)}

IndexByBit(d) ==
    IF Bits(d) = {} THEN 0 ELSE Min(Bits(d)) + 1

BitByIndexMutant(index) ==  \* counts from 0
    IF index = 0 \/ index > Width - 1 THEN 0 ELSE Power[index]

\* The index of the highest bit is refused.
BitByIndex(index) ==
    IF index = 0 \/ index > Width - 1 THEN 0 ELSE Power[index - 1]

\* The number that has those bits.
NumberOf(ones) ==
    LET sum[i \in 0..Width] ==
            IF i = 0 THEN 0 ELSE sum[i - 1] + (IF i - 1 \in ones THEN Power[i - 1] ELSE 0)
    IN  sum[Width]

\* clp2(): one less, every bit below the highest set, one more, in a word.
Smear(ones, shift) == ones \union {i - shift : i \in {i \in ones : i >= shift}}

Clp2(x) ==
    LET ones[k \in 0..Width] ==
            IF k = 0 THEN Bits(Wrapped(x - 1))
            ELSE IF Power[k - 1] < Width THEN Smear(ones[k - 1], Power[k - 1]) ELSE ones[k - 1]
    IN  Wrapped(NumberOf(ones[Width]) + 1)

-----------------------------------------------------------------------------
(* Ratios. *)

DefaultRatio == 3
MaxRatio     == 5

\* The first divisor on the way down; for a value that is not negative.
GoldenRatio(n) ==
    LET multiplier == n \div 10
        divisors   == {i \in (DefaultRatio + 1)..(MaxRatio + multiplier) : n % i = 0}
    IN  IF divisors # {} THEN Max(divisors) ELSE DefaultRatio + multiplier

-----------------------------------------------------------------------------
(* Values in a byte array, at an index at which no sum wraps.             *)

ToByteArray(n, size) == [i \in 1..size |-> ByteOf(n, i - 1)]

\* A value that is not in the array whole keeps its zeros.
SafeMemoryCopy(dst, src, startIndex) ==
    IF Len(src) >= startIndex + Len(dst)
    THEN SubSeq(src, startIndex + 1, startIndex + Len(dst)) ELSE dst

GetFromByteArray(bytes, startIndex, size) ==
    SafeMemoryCopy(ToByteArray(0, size), bytes, startIndex)

-----------------------------------------------------------------------------
(* What a Convertable that holds a word casts to, in so many bytes.       *)

CastUnsigned(n, size) == n % Span(size)

CastSigned(n, size) ==
    LET m == CastUnsigned(n, size)
    IN  IF 2 * m < Span(size) THEN m ELSE m - Span(size)

-----------------------------------------------------------------------------
(* Addresses.  A part of the text stands for the number it is the decimal *)
(* text of, or for no number. *)

NoNumber == -1
Dot      == -2

\* A u32 stored in an int.
ToInt(n) == IF n < Span(4) \div 2 THEN n ELSE n - Span(4)

\* The greatest octet is refused, and an int below 0 is not.
Octet(part) ==
    IF part # NoNumber /\ ToInt(part) < Base - 1 THEN ToInt(part) % Base ELSE 0

FromStringList(sl) ==
    IF Len(sl) < 4 THEN <<0, 0, 0, 0>> ELSE [i \in 1..4 |-> Octet(sl[i])]

\* A dot after every octet, and the last one chopped.
AddressText(ip) == <<ip[1], Dot, ip[2], Dot, ip[3], Dot, ip[4]>>

\* The parts between the dots; only a part of one number is a number.
FromString(str) ==
    LET places == 1..(Len(str) + 1)
        ends   == <<0>> \o Filter([i \in places |-> i],
                                  {i \in places : i > Len(str) \/ str[i] = Dot})
    IN  FromStringList([i \in 1..(Len(ends) - 1) |->
            IF ends[i + 1] = ends[i] + 2 THEN str[ends[i] + 1] ELSE NoNumber])

-----------------------------------------------------------------------------
(* Versions: two bytes and a half word, as the numbers their text holds. *)

VerToStr(num) == <<ByteOf(num, 3), ByteOf(num, 2), num % Span(2)>>

\* Or is a sum as long as the parts keep to their bits.
StrToVer(v) == Wrapped(v[1] * Span(3) + v[2] * Span(2) + v[3])

-----------------------------------------------------------------------------
(* Parts of a second. *)

\* UnixTime64ToInvStringFractional(): milliseconds from a 32-bit fraction.
Fraction(sub) == sub \div (Span(4) \div Thousand)

\* UnixTime64ToString(): milliseconds, microseconds and nanoseconds.
SubSecond(ns) ==
    LET ms  == ns \div Million
        mcs == ns \div Thousand - ms * Thousand
    IN  <<ms, mcs, ns - ms * Million - mcs * Thousand>>

\* NsTimeToString(): what is less than a second of a time in nanoseconds.
NsParts(nstime) ==
    LET nst == nstime % Billion
        mcs == nst % Million
    IN  <<nst \div Million, mcs \div Thousand, mcs % Thousand>>

-----------------------------------------------------------------------------
NumbersTypeOK ==
    /\ value \in Byte \X Byte \X Byte
    /\ number \in Int24
    /\ word \in Word

(* However many operations a uint24 has been through, it is the number      *)
(* that arithmetic modulo 2^24 gives; its comparisons are those of numbers. *)
ArithmeticWraps ==
    /\ ToU32(value) = number
    /\ ToU16(value) = number % Span(2)
    /\ AtMost(value, Operand) <=> number <= Right
    /\ Equal(value, Operand) <=> number = Right
    /\ IsTrue(value) <=> number # 0

(* The index of the lowest bit finds that bit again.  Nothing is claimed of  *)
(* the highest index, at which the code gives 0.                            *)
BitsFound ==
    LET i == IndexByBit(word)
    IN  /\ i = 0 <=> word = 0
        /\ i \in 1..(Width - 1) =>
               /\ word % BitByIndex(i) = 0
               /\ (word \div BitByIndex(i)) % 2 = 1

(* clp2 is the least power of 2 that is not less, or 0 if no word is.       *)
PowersFound ==
    LET powers == {p \in {Power[i] : i \in 0..(Width - 1)} : p >= word}
    IN  Clp2(word) = IF word = 0 \/ powers = {} THEN 0 ELSE Min(powers)

(* A ratio divides the value, unless nothing from 4 to 5 and a tenth of the *)
(* value does; no larger ratio would, up to that bound.                     *)
RatiosFit ==
    LET r     == GoldenRatio(word)
        bound == 5 + word \div 10
    IN  /\ r \in 3..bound
        /\ \A i \in (r + 1)..bound : word % i # 0
        /\ word % r # 0 => \A i \in 4..bound : word % i # 0

(* A value is read back from any place of an array it was put in, whatever  *)
(* is around it; from an array that ends earlier, zero is.                  *)
ValuesReadBack ==
    \A size \in {1, 2, 4}, before \in 0..1 :
        LET bytes == ToByteArray(word, size)
            array == [i \in 1..before |-> Base - 1] \o bytes
        IN  /\ GetFromByteArray(array \o <<1>>, before, size) = bytes
            /\ GetFromByteArray(array, before, size) = bytes
            /\ GetFromByteArray(array, before + 1, size) = ToByteArray(0, size)

(* A cast to fewer bytes keeps the low ones; the signed one differs from    *)
(* the unsigned one by nothing or by one power of the base.                 *)
CastsKeepLowBytes ==
    \A size \in {1, 2, 4} :
        /\ ToByteArray(CastUnsigned(word, size), size) = SubSeq(ToByteArray(word, 4), 1, size)
        /\ CastUnsigned(word, size) - CastSigned(word, size) \in {0, Span(size)}
        /\ CastSigned(word, size) < Span(size) \div 2
        /\ -CastSigned(word, size) <= Span(size) \div 2

(* An address survives being written and read, but for its octets 255; a    *)
(* part that is no octet reads 0, unless it is so large that int wraps.     *)
AddressesKept ==
    LET ip == [i \in 1..4 |-> ByteOf(word, i - 1)]
    IN  /\ FromString(AddressText(ip)) =
               [i \in 1..4 |-> IF ip[i] = Base - 1 THEN 0 ELSE ip[i]]
        /\ FromString(Tail(AddressText(ip))) = FromString([AddressText(ip) EXCEPT ![1] = 0])
        /\ Base <= word /\ word < Span(4) \div 2 => Octet(word) = 0
        /\ FromStringList(<<word, word, word>>) = <<0, 0, 0, 0>>
        /\ Octet(NoNumber) = 0

(* The milliseconds of a fraction are less than a thousand, exact or one    *)
(* too many; nothing is claimed of the last fractions, those above a        *)
(* thousand times the divisor, of which the code makes a whole thousand.    *)
(* The three parts make up the nanoseconds again, and both ways to take a   *)
(* second apart give the same parts.                                        *)
PartsOfSecond ==
    LET p == SubSecond(word)
    IN  /\ word < Thousand * (Span(4) \div Thousand) =>
               /\ Fraction(word) \in 0..(Thousand - 1)
               /\ Fraction(word) - (word * Thousand) \div Span(4) \in {0, 1}
        /\ p[2] \in 0..(Thousand - 1) /\ p[3] \in 0..(Thousand - 1)
        /\ (p[1] * Thousand + p[2]) * Thousand + p[3] = word
        /\ NsParts(word) = SubSecond(word % Billion)

(* A version survives being written and read.                               *)
VersionsKept == StrToVer(VerToStr(word)) = word

(* Every conversion computes what its reference definition says. *)
ConversionsAgree ==
    /\ BitsFound /\ PowersFound /\ RatiosFit
    /\ ValuesReadBack /\ CastsKeepLowBytes
    /\ AddressesKept /\ PartsOfSecond /\ VersionsKept
=============================================================================
