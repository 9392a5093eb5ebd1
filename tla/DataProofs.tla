----------------------------- MODULE DataProofs -----------------------------
(***************************************************************************)
(* Lemmas about data for the proofs about the modules that compute: proofs *)
(* by induction, functions defined by recursion, what division gives, and  *)
(* what Filter returns.                                                    *)
(*                                                                         *)
(* The library's induction theorems take the predicate as a parameter.     *)
(* The provers cannot give it one, but that a well-founded relation has    *)
(* minimal elements is a statement about sets: an induction here is a      *)
(* proof that the set of counterexamples has no least element.             *)
(***************************************************************************)
EXTENDS Filters, FiniteSetsExt, SequenceTheorems, WellFoundedInduction, TLAPS

LEMMA LeastNumber ==
    ASSUME NEW T \in SUBSET Nat, T # {}
    PROVE  \E m \in T : \A k \in T : m <= k
<1>1. \E m \in T : \A k \in T : ~ (<<k, m>> \in OpToRel(<, Nat))
  BY WFMin, NatLessThanWellFounded, Zenon
<1>2. \E m \in T : \A k \in T : ~ (k < m)
  BY <1>1, Zenon DEF OpToRel
<1>3. QED
  BY <1>2

LEMMA MinIs ==
    ASSUME NEW T \in SUBSET Nat, T # {}
    PROVE  Min(T) \in T /\ \A y \in T : Min(T) <= y
<1>1. \E x \in T : \A y \in T : x <= y
  BY LeastNumber
<1>2. QED
  BY <1>1 DEF Min

LEMMA MaxIs ==
    ASSUME NEW T \in SUBSET Nat, T # {}, NEW N \in Nat, \A k \in T : k <= N
    PROVE  Max(T) \in T /\ \A y \in T : y <= Max(T)
<1> DEFINE U == {N - k : k \in T}
<1>1. \A k \in T : N - k \in Nat /\ N - (N - k) = k
  OBVIOUS
<1>2. U \in SUBSET Nat /\ U # {}
  BY <1>1
<1>3. PICK m \in U : \A u \in U : m <= u
  <2> HIDE DEF U
  <2>1. QED
    BY <1>2, LeastNumber
<1>4. PICK x \in T : m = N - x
  BY <1>3
<1>5. \A y \in T : y <= x
  <2> TAKE y \in T
  <2>1. N - x <= N - y
    BY <1>3, <1>4
  <2>2. QED
    BY <2>1
<1>6. \E z \in T : \A y \in T : z >= y
  BY <1>5
<1>7. Max(T) \in T /\ \A y \in T : Max(T) >= y
  BY <1>6, Zenon DEF Max
<1>8. QED
  BY <1>7

\* What is true of 0 and, with any number below N, of the next is true of N.
LEMMA InductiveUpTo ==
    ASSUME NEW N \in Nat, NEW T, 0 \in T,
           \A n \in 0 .. N - 1 : n \in T => n + 1 \in T
    PROVE  0 .. N \subseteq T
<1> DEFINE Bad == (0 .. N) \ T
<1> SUFFICES ASSUME Bad # {} PROVE FALSE
  OBVIOUS
<1>0. Bad \in SUBSET Nat
  OBVIOUS
<1>1. PICK m \in Bad : \A k \in Bad : m <= k
  <2> HIDE DEF Bad
  <2>1. QED
    BY <1>0, LeastNumber
<1>2. m - 1 \in 0 .. N - 1 /\ m - 1 \notin Bad
  BY <1>1
<1>3. m - 1 \in T
  BY <1>2
<1>4. (m - 1) + 1 \in T
  BY <1>2, <1>3
<1>5. QED
  BY <1>1, <1>4

\* f is first at 0, and each of its values follows from the one before.
Follows(f, N, first, next) ==
    \A n \in 0 .. N : f[n] = IF n = 0 THEN first ELSE next[n][f[n - 1]]

\* A function defined by what it is at 0 and by how each of its values follows
\* from the one before exists, and is one of the type of its values.
LEMMA Recursion ==
    ASSUME NEW N \in Nat, NEW X, NEW first \in X, NEW next \in [1 .. N -> [X -> X]]
    PROVE  \E f \in [0 .. N -> X] : Follows(f, N, first, next)
<1> DEFINE Step(f, n) == IF n = 0 THEN first ELSE next[n][f[n - 1]]
           T == {k \in 0 .. N : \E f \in [0 .. k -> X] :
                    \A n \in 0 .. k : f[n] = Step(f, n)}
<1>1. 0 \in T
  <2> DEFINE f == [n \in 0 .. 0 |-> first]
  <2>1. f \in [0 .. 0 -> X] /\ \A n \in 0 .. 0 : f[n] = Step(f, n)
    OBVIOUS
  <2>2. 0 \in 0 .. N
    OBVIOUS
  <2> HIDE DEF f, Step
  <2>3. QED
    BY <2>1, <2>2
<1>2. ASSUME NEW k \in 0 .. N - 1, k \in T PROVE k + 1 \in T
  <2>1. PICK f \in [0 .. k -> X] : \A n \in 0 .. k : f[n] = Step(f, n)
    BY <1>2
  <2> DEFINE g == [n \in 0 .. k + 1 |-> IF n <= k THEN f[n] ELSE next[n][f[k]]]
  <2>2. f[k] \in X /\ k + 1 \in 1 .. N /\ next[k + 1] \in [X -> X]
    OBVIOUS
  <2>3. next[k + 1][f[k]] \in X
    BY <2>2
  <2>4. g \in [0 .. k + 1 -> X]
    BY <2>3
  <2>5. ASSUME NEW n \in 0 .. k + 1 PROVE g[n] = Step(g, n)
    <3>1. CASE n = 0
      BY <2>1, <3>1
    <3>2. CASE n \in 1 .. k
      BY <2>1, <3>2
    <3>3. CASE n = k + 1
      BY <3>3
    <3>4. QED
      BY <3>1, <3>2, <3>3
  <2>6. k + 1 \in 0 .. N
    OBVIOUS
  <2> HIDE DEF g, Step
  <2>7. QED
    BY <2>4, <2>5, <2>6
<1>3. N \in T
  <2> HIDE DEF T
  <2>1. 0 .. N \subseteq T
    BY <1>1, <1>2, InductiveUpTo
  <2>2. QED
    BY <2>1
<1>4. PICK f \in [0 .. N -> X] : \A n \in 0 .. N : f[n] = Step(f, n)
  BY <1>3
<1>5. QED
  BY <1>4 DEF Follows

-----------------------------------------------------------------------------
\* A function of which each value follows from the value at a place further on.
Jumps(f, N, Stop, first, jump, next) ==
    \A i \in 0 .. N : f[i] = IF i \in Stop THEN first ELSE next[i][f[jump[i]]]

\* Such a function exists.
LEMMA BackwardRecursion ==
    ASSUME NEW N \in Nat, NEW X, NEW first \in X, NEW Stop, NEW next \in [0 .. N -> [X -> X]],
           NEW jump \in [0 .. N -> 0 .. N], \A i \in 0 .. N : i \notin Stop => jump[i] > i
    PROVE  \E f \in [0 .. N -> X] : Jumps(f, N, Stop, first, jump, next)
<1> DEFINE Step(f, i) == IF i \in Stop THEN first ELSE next[i][f[jump[i]]]
           T == {k \in 0 .. N : \E f \in [N - k .. N -> X] :
                    \A i \in N - k .. N : f[i] = Step(f, i)}
<1>0. N \in 0 .. N /\ N \in Stop
  OBVIOUS
<1>1. 0 \in T
  <2> DEFINE f == [i \in N - 0 .. N |-> first]
  <2>1. f \in [N - 0 .. N -> X]
    OBVIOUS
  <2>2. \A i \in N - 0 .. N : f[i] = Step(f, i)
    <3> TAKE i \in N - 0 .. N
    <3>1. i = N /\ f[i] = first
      OBVIOUS
    <3> HIDE DEF f
    <3>2. QED
      BY <1>0, <3>1
  <2>3. 0 \in 0 .. N
    OBVIOUS
  <2> HIDE DEF f, Step
  <2>4. QED
    BY <2>1, <2>2, <2>3
<1>2. ASSUME NEW k \in 0 .. N - 1, k \in T PROVE k + 1 \in T
  <2>1. PICK f \in [N - k .. N -> X] : \A i \in N - k .. N : f[i] = Step(f, i)
    BY <1>2
  <2> DEFINE m == N - (k + 1)
             g == [i \in m .. N |-> IF i = m THEN Step(f, m) ELSE f[i]]
  <2>2. m \in 0 .. N /\ (m \notin Stop => jump[m] \in N - k .. N) /\ next[m] \in [X -> X]
    OBVIOUS
  <2>3. Step(f, m) \in X
    <3>1. CASE m \in Stop
      BY <3>1
    <3>2. CASE m \notin Stop
      <4>1. f[jump[m]] \in X
        BY <2>2, <3>2
      <4> HIDE DEF m
      <4>2. QED
        BY <2>2, <3>2, <4>1
    <3>3. QED
      BY <3>1, <3>2
  <2>4. g \in [m .. N -> X]
    <3> HIDE DEF Step
    <3>1. \A i \in m .. N : i # m => i \in N - k .. N
      OBVIOUS
    <3> HIDE DEF m
    <3>2. QED
      BY <2>3, <3>1
  <2>5. ASSUME NEW i \in m .. N PROVE g[i] = Step(g, i)
    <3>1. i # m => i \in N - k .. N
      OBVIOUS
    <3>2. i \in 0 .. N /\ m <= i /\ m \in Nat
      BY <2>2
    <3>21. i \notin Stop => jump[i] \in 0 .. N /\ jump[i] > i
      BY <3>2
    <3>22. i \notin Stop => jump[i] \in m .. N /\ jump[i] # m
      <4> DEFINE j == jump[i]
      <4>1. SUFFICES ASSUME i \notin Stop PROVE j \in m .. N /\ j # m
        OBVIOUS
      <4>2. j \in 0 .. N /\ j > i /\ i \in 0 .. N
        BY <3>2, <3>21, <4>1
      <4> HIDE DEF j, m
      <4>3. QED
        BY <3>2, <4>2
    <3>3. g[i] = IF i = m THEN Step(f, m) ELSE f[i]
      OBVIOUS
    <3>4. i \notin Stop => g[jump[i]] = f[jump[i]]
      BY <3>22
    <3> HIDE DEF g
    <3>5. g[i] = Step(f, i)
      BY <2>1, <3>1, <3>3
    <3>6. QED
      BY <3>4, <3>5
  <2>6. k + 1 \in 0 .. N
    OBVIOUS
  <2> HIDE DEF g, Step
  <2>7. QED
    BY <2>4, <2>5, <2>6
<1>3. N \in T
  <2> HIDE DEF T
  <2>1. 0 .. N \subseteq T
    BY <1>1, <1>2, InductiveUpTo
  <2>2. QED
    BY <2>1
<1>4. PICK f \in [N - N .. N -> X] : \A i \in N - N .. N : f[i] = Step(f, i)
  BY <1>3
<1>5. N - N = 0
  OBVIOUS
<1>6. QED
  BY <1>4, <1>5 DEF Jumps

\* What is true of N and, with any place further on, of a place is true of all.
LEMMA BackwardInductive ==
    ASSUME NEW N \in Nat, NEW T,
           \A i \in 0 .. N : (\A j \in i + 1 .. N : j \in T) => i \in T
    PROVE  0 .. N \subseteq T
<1> DEFINE G == {k \in 0 .. N : \A i \in N - k .. N : i \in T}
<1>1. 0 \in G
  <2>1. N \in T
    OBVIOUS
  <2>2. QED
    BY <2>1
<1>2. ASSUME NEW k \in 0 .. N - 1, k \in G PROVE k + 1 \in G
  <2>1. N - (k + 1) \in 0 .. N /\ (N - (k + 1)) + 1 = N - k
    OBVIOUS
  <2>2. N - (k + 1) \in T
    BY <1>2, <2>1
  <2>3. QED
    BY <1>2, <2>2
<1> HIDE DEF G
<1>3. 0 .. N \subseteq G
  BY <1>1, <1>2, InductiveUpTo
<1>4. N \in G
  BY <1>3
<1>5. QED
  BY <1>4 DEF G

-----------------------------------------------------------------------------
\* Division, for any divisor.
LEMMA ProductsApart ==
    ASSUME NEW d \in Nat, NEW a \in Int, NEW b \in Int, a < b
    PROVE  a * d + d <= b * d
<1> DEFINE k == b - a - 1
<1>1. k \in Nat /\ b = a + 1 + k
  OBVIOUS
<1> HIDE DEF k
<1>2. k * d >= 0
  BY <1>1
<1>3. b * d = (a * d + d) + k * d
  BY <1>1
<1>4. a * d \in Int /\ k * d \in Int /\ b * d \in Int
  BY <1>1
<1> DEFINE p == a * d
           q == k * d
           r == b * d
<1>5. p \in Int /\ q \in Int /\ r \in Int /\ q >= 0 /\ r = (p + d) + q
  BY <1>2, <1>3, <1>4
<1> HIDE DEF p, q, r
<1>6. p + d <= r
  BY <1>5
<1>7. QED
  BY <1>6 DEF p, r

LEMMA QuotientUnique ==
    ASSUME NEW d \in Nat \ {0}, NEW q \in Int, NEW r \in 0 .. d - 1,
           NEW p \in Int, NEW s \in 0 .. d - 1, q * d + r = p * d + s
    PROVE  q = p /\ r = s
<1>1. q * d \in Int /\ p * d \in Int
  OBVIOUS
<1>2. ~ q < p
  <2>1. q < p => q * d + d <= p * d
    BY ProductsApart
  <2> DEFINE x == q * d
             y == p * d
  <2>2. x \in Int /\ y \in Int /\ x + r = y + s
    BY <1>1
  <2> HIDE DEF x, y
  <2>3. ~ x + d <= y
    BY <2>2
  <2>4. QED
    BY <2>1, <2>3 DEF x, y
<1>3. ~ p < q
  <2>1. p < q => p * d + d <= q * d
    BY ProductsApart
  <2> DEFINE x == q * d
             y == p * d
  <2>2. x \in Int /\ y \in Int /\ x + r = y + s
    BY <1>1
  <2> HIDE DEF x, y
  <2>3. ~ y + d <= x
    BY <2>2
  <2>4. QED
    BY <2>1, <2>3 DEF x, y
<1>4. q = p
  BY <1>2, <1>3
<1>5. QED
  BY <1>1, <1>4

LEMMA Division ==
    ASSUME NEW d \in Nat \ {0}, NEW n \in Int
    PROVE  n \div d \in Int /\ n % d \in 0 .. d - 1 /\ n = (n \div d) * d + (n % d)
OBVIOUS

LEMMA DivideExactly ==
    ASSUME NEW d \in Nat \ {0}, NEW q \in Int, NEW r \in 0 .. d - 1
    PROVE  (q * d + r) \div d = q /\ (q * d + r) % d = r
<1> DEFINE n == q * d + r
<1>1. n \in Int
  OBVIOUS
<1>2. n = q * d + r
  OBVIOUS
<1> HIDE DEF n
<1>3. n \div d \in Int /\ n % d \in 0 .. d - 1 /\ n = (n \div d) * d + (n % d)
  BY <1>1, Division
<1>4. n \div d = q /\ n % d = r
  BY <1>2, <1>3, QuotientUnique
<1>5. QED
  BY <1>4 DEF n

LEMMA DivideShifted ==
    ASSUME NEW d \in Nat \ {0}, NEW q \in Int, NEW n \in Int
    PROVE  (q * d + n) \div d = q + n \div d /\ (q * d + n) % d = n % d
<1> DEFINE a == n \div d
           r == n % d
<1>1. a \in Int /\ r \in 0 .. d - 1 /\ n = a * d + r
  BY Division
<1> HIDE DEF a, r
<1>2. q * d + n = (q + a) * d + r
  BY <1>1
<1>3. q + a \in Int
  BY <1>1
<1>4. ((q + a) * d + r) \div d = q + a /\ ((q + a) * d + r) % d = r
  BY <1>1, <1>3, DivideExactly
<1>5. QED
  BY <1>2, <1>4 DEF a, r

-----------------------------------------------------------------------------
\* Concatenation.

LEMMA SequenceOf ==
    ASSUME NEW T, NEW n \in Nat, NEW p \in [1 .. n -> T]
    PROVE  p \in Seq(T)
OBVIOUS

LEMMA SplitAt ==
    ASSUME NEW T, NEW s \in Seq(T), NEW i \in 0 .. Len(s)
    PROVE  /\ SubSeq(s, 1, i) \in Seq(T) /\ SubSeq(s, i + 1, Len(s)) \in Seq(T)
           /\ Len(SubSeq(s, 1, i)) = i
           /\ Len(SubSeq(s, i + 1, Len(s))) = Len(s) - i
           /\ s = SubSeq(s, 1, i) \o SubSeq(s, i + 1, Len(s))
<1> DEFINE n == Len(s)
<1>1. n \in Nat /\ \A k \in 1 .. n : s[k] \in T
  BY LenProperties, ElementOfSeq
<1> HIDE DEF n
<1>2. i \in 0 .. n /\ 1 \in Int /\ i \in Int /\ i + 1 \in Int /\ n \in Int
  BY <1>1 DEF n
<1>3. \A k \in 1 .. i : s[k] \in T
  BY <1>1, <1>2
<1>4. \A k \in i + 1 .. n : s[k] \in T
  BY <1>1, <1>2
<1>5. SubSeq(s, 1, i) \in Seq(T) /\ Len(SubSeq(s, 1, i)) = i
  BY <1>2, <1>3, SubSeqProperties
<1>6. SubSeq(s, i + 1, n) \in Seq(T) /\ Len(SubSeq(s, i + 1, n)) = n - i
  BY <1>2, <1>4, SubSeqProperties
<1>7. SubSeq(s, 1, i) \o SubSeq(s, i + 1, n) = SubSeq(s, 1, n)
  <2>1. /\ 1 \in 1 .. Len(s) + 1 /\ i \in 1 - 1 .. Len(s) /\ n \in i .. Len(s)
    BY <1>1, <1>2 DEF n
  <2>2. QED
    BY <2>1, ConcatAdjacentSubSeq
<1>8. SubSeq(s, 1, n) = s
  BY SubSeqFull DEF n
<1>9. QED
  BY <1>5, <1>6, <1>7, <1>8 DEF n

LEMMA PartsOfConcat ==
    ASSUME NEW T, NEW s \in Seq(T), NEW t \in Seq(T)
    PROVE  SubSeq(s \o t, 1, Len(s)) = s /\ SubSeq(s \o t, Len(s) + 1, Len(s \o t)) = t
<1> DEFINE u == s \o t
           i == Len(s)
           a == SubSeq(u, 1, i)
           b == SubSeq(u, i + 1, Len(u))
<1>1. /\ u \in Seq(T) /\ Len(u) = i + Len(t) /\ i \in Nat /\ Len(t) \in Nat
      /\ \A k \in 1 .. i + Len(t) : u[k] = IF k <= i THEN s[k] ELSE t[k - i]
  BY ConcatProperties, LenProperties
<1> HIDE DEF u
<1>2. i \in 0 .. Len(u) /\ i \in Int /\ i + 1 \in Int /\ Len(u) \in Int /\ 1 \in Int
  BY <1>1
<1>3. \A k \in 1 .. Len(u) : u[k] \in T
  BY <1>1, ElementOfSeq
<1>4. a \in Seq(T) /\ Len(a) = i /\ \A k \in 1 .. i : a[k] = u[k]
  <2>1. \A k \in 1 .. i : u[k] \in T
    BY <1>2, <1>3
  <2>2. a \in Seq(T) /\ \A k \in 1 .. i - 1 + 1 : a[k] = u[1 + k - 1]
    BY <1>2, <2>1, SubSeqProperties
  <2>3. Len(a) = i
    BY <1>1, <1>2, SplitAt
  <2>4. QED
    BY <1>2, <2>2, <2>3
<1>5. b \in Seq(T) /\ Len(b) = Len(t) /\ \A k \in 1 .. Len(t) : b[k] = u[i + k]
  <2>1. \A k \in i + 1 .. Len(u) : u[k] \in T
    BY <1>1, <1>3
  <2>2. b \in Seq(T) /\ \A k \in 1 .. Len(u) - (i + 1) + 1 : b[k] = u[(i + 1) + k - 1]
    BY <1>2, <2>1, SubSeqProperties
  <2>3. Len(b) = Len(u) - i
    BY <1>1, <1>2, SplitAt
  <2>4. \A k \in 1 .. Len(t) : k \in 1 .. Len(u) - (i + 1) + 1 /\ (i + 1) + k - 1 = i + k
    BY <1>1
  <2>5. QED
    BY <1>1, <2>2, <2>3, <2>4
<1> HIDE DEF a, b
<1>6. \A k \in 1 .. i : a[k] = s[k]
  BY <1>1, <1>4
<1>7. \A k \in 1 .. Len(t) : b[k] = t[k]
  <2> TAKE k \in 1 .. Len(t)
  <2>1. i + k \in 1 .. i + Len(t) /\ ~ i + k <= i /\ (i + k) - i = k
    BY <1>1
  <2>2. QED
    BY <1>1, <1>5, <2>1
<1>8. a = s
  BY <1>4, <1>6, SeqEqual
<1>9. b = t
  BY <1>5, <1>7, SeqEqual
<1>10. QED
  BY <1>8, <1>9 DEF a, b, u

\* A sequence in two parts, and in three.
InTwo(s, i, a, b) == s = a \o b /\ Len(a) = i /\ Len(b) = Len(s) - i

LEMMA SplitOnce ==
    ASSUME NEW T, NEW s \in Seq(T), NEW i \in 0 .. Len(s)
    PROVE  \E a, r \in Seq(T) : InTwo(s, i, a, r)
<1> DEFINE a == SubSeq(s, 1, i)
           r == SubSeq(s, i + 1, Len(s))
<1>1. a \in Seq(T) /\ r \in Seq(T) /\ Len(a) = i /\ Len(r) = Len(s) - i /\ s = a \o r
  BY SplitAt, ZenonT(30)
<1> HIDE DEF a, r
<1>2. QED
  BY <1>1 DEF InTwo

\* Concatenation is associative; under a name, the provers do not loop on it.
Associated(s, t, u) == (s \o t) \o u = s \o (t \o u)

LEMMA Associates ==
    ASSUME NEW T
    PROVE  \A s, t, u \in Seq(T) : Associated(s, t, u)
BY ConcatAssociative DEF Associated

\* Where the elements of the middle part of a sequence stand.
MiddleAt(s, i, b) == \A k \in 1 .. Len(b) : s[i + k] = b[k]

LEMMA InTheMiddle ==
    ASSUME NEW T, NEW a \in Seq(T), NEW b \in Seq(T), NEW c \in Seq(T)
    PROVE  MiddleAt(a \o (b \o c), Len(a), b)
<1> DEFINE r == b \o c
           s == a \o r
<1>1. /\ r \in Seq(T) /\ Len(r) = Len(b) + Len(c)
      /\ \A k \in 1 .. Len(b) + Len(c) : r[k] = IF k <= Len(b) THEN b[k] ELSE c[k - Len(b)]
      /\ Len(a) \in Nat /\ Len(b) \in Nat /\ Len(c) \in Nat
  BY ConcatProperties, LenProperties
<1> HIDE DEF r
<1>2. \A k \in 1 .. Len(a) + Len(r) : s[k] = IF k <= Len(a) THEN a[k] ELSE r[k - Len(a)]
  BY <1>1, ConcatProperties
<1> HIDE DEF s
<1>3. \A k \in 1 .. Len(b) : s[Len(a) + k] = b[k]
  <2> TAKE k \in 1 .. Len(b)
  <2>1. /\ Len(a) + k \in 1 .. Len(a) + Len(r) /\ ~ (Len(a) + k <= Len(a))
        /\ (Len(a) + k) - Len(a) = k /\ k \in 1 .. Len(b) + Len(c) /\ k <= Len(b)
    BY <1>1
  <2>2. s[Len(a) + k] = r[k]
    BY <1>2, <2>1
  <2>3. r[k] = b[k]
    BY <1>1, <2>1
  <2>4. QED
    BY <2>2, <2>3
<1>4. QED
  BY <1>3 DEF MiddleAt, s, r

-----------------------------------------------------------------------------
\* Filter.

\* How far the filter has come at each place.
Filtering(f, s, S) ==
    /\ f[0] = <<>>
    /\ \A n \in 1 .. Len(s) :
          f[n] = IF s[n] \in S THEN Append(f[n - 1], s[n]) ELSE f[n - 1]

LEMMA FilterExists ==
    ASSUME NEW T, NEW s \in Seq(T), NEW S
    PROVE  \E f \in [0 .. Len(s) -> Seq(T)] : Filtering(f, s, S) /\ Filter(s, S) = f[Len(s)]
<1> DEFINE N == Len(s)
           Step(f, n) == IF n = 0 THEN <<>>
                         ELSE IF s[n] \in S THEN Append(f[n - 1], s[n]) ELSE f[n - 1]
           next == [n \in 1 .. N |-> [r \in Seq(T) |->
                       IF s[n] \in S THEN Append(r, s[n]) ELSE r]]
           kept == CHOOSE f : f = [n \in 0 .. N |-> Step(f, n)]
<1>1. N \in Nat /\ <<>> \in Seq(T) /\ \A n \in 1 .. N : s[n] \in T
  BY ElementOfSeq, EmptySeq, LenProperties
<1>2. next \in [1 .. N -> [Seq(T) -> Seq(T)]]
  <2>1. \A n \in 1 .. N, r \in Seq(T) : Append(r, s[n]) \in Seq(T)
    BY <1>1, AppendProperties
  <2>2. QED
    BY <2>1
<1>3. PICK f \in [0 .. N -> Seq(T)] :
          \A n \in 0 .. N : f[n] = IF n = 0 THEN <<>> ELSE next[n][f[n - 1]]
  <2> DEFINE first == <<>>
  <2>1. first \in Seq(T) /\ N \in Nat
    BY <1>1
  <2> HIDE DEF next, N, first
  <2>2. \E f \in [0 .. N -> Seq(T)] : Follows(f, N, first, next)
    BY <1>2, <2>1, Recursion
  <2>3. QED
    BY <2>2 DEF first, Follows
<1>4. \A n \in 0 .. N : f[n] = Step(f, n)
  <2> TAKE n \in 0 .. N
  <2>1. CASE n = 0
    BY <1>3, <2>1
  <2>2. CASE n # 0
    <3>1. n \in 1 .. N /\ n - 1 \in 0 .. N
      BY <1>1, <2>2
    <3>2. f[n - 1] \in Seq(T)
      BY <1>3, <3>1
    <3>3. f[n] = next[n][f[n - 1]]
      <4> HIDE DEF next
      <4>1. QED
        BY <1>3, <2>2, <3>1
    <3>4. QED
      BY <3>1, <3>2, <3>3
  <2>3. QED
    BY <2>1, <2>2
<1>5. f = [n \in 0 .. N |-> Step(f, n)]
  BY <1>4
<1>6. kept = [n \in 0 .. N |-> Step(kept, n)]
  <2> HIDE DEF Step
  <2>1. \E g : g = [n \in 0 .. N |-> Step(g, n)]
    BY <1>5
  <2>2. QED
    BY <2>1, Zenon
<1>7. Filter(s, S) = kept[N]
  BY DEF Filter
<1> HIDE DEF kept, next
<1>60. \A n \in 0 .. N : kept[n] = Step(kept, n)
  <2> HIDE DEF Step
  <2> TAKE n \in 0 .. N
  <2>1. [m \in 0 .. N |-> Step(kept, m)][n] = Step(kept, n)
    OBVIOUS
  <2>2. QED
    BY <1>6, <2>1, Zenon
<1>8. kept[0] = <<>>
  <2>1. 0 \in 0 .. N
    BY <1>1
  <2>2. QED
    BY <1>60, <2>1
<1>9. \A n \in 1 .. N : kept[n] = IF s[n] \in S THEN Append(kept[n - 1], s[n]) ELSE kept[n - 1]
  <2> TAKE n \in 1 .. N
  <2>1. n \in 0 .. N /\ n # 0
    BY <1>1
  <2>2. QED
    BY <1>60, <2>1
<1>10. \A n \in 0 .. N : kept[n] \in Seq(T)
  <2> DEFINE G == {n \in 0 .. N : kept[n] \in Seq(T)}
  <2> HIDE DEF Step
  <2>1. 0 \in G
    <3>1. 0 \in 0 .. N /\ kept[0] \in Seq(T)
      BY <1>1, <1>8
    <3>2. QED
      BY <3>1
  <2>2. ASSUME NEW n \in 0 .. N - 1, n \in G PROVE n + 1 \in G
    <3>1. n + 1 \in 1 .. N /\ s[n + 1] \in T /\ kept[n] \in Seq(T) /\ (n + 1) - 1 = n
      BY <1>1, <2>2
    <3>2. Append(kept[n], s[n + 1]) \in Seq(T)
      BY <3>1, AppendProperties
    <3>3. kept[n + 1] = IF s[n + 1] \in S THEN Append(kept[n], s[n + 1]) ELSE kept[n]
      BY <1>9, <3>1
    <3>4. kept[n + 1] \in Seq(T) /\ n + 1 \in 0 .. N
      BY <3>1, <3>2, <3>3
    <3>5. QED
      BY <3>4
  <2> HIDE DEF G
  <2>3. 0 .. N \subseteq G
    BY <1>1, <2>1, <2>2, InductiveUpTo
  <2>4. QED
    BY <2>3 DEF G
<1>11. DOMAIN kept = 0 .. N /\ kept = [n \in 0 .. N |-> kept[n]]
  <2> HIDE DEF Step
  <2>1. QED
    BY <1>6
<1>12. kept \in [0 .. N -> Seq(T)]
  BY <1>10, <1>11
<1>13. QED
  BY <1>7, <1>8, <1>9, <1>12 DEF Filtering

LEMMA FilterUnique ==
    ASSUME NEW T, NEW s \in Seq(T), NEW S, NEW f, Filtering(f, s, S)
    PROVE  f[Len(s)] = Filter(s, S)
<1> DEFINE N == Len(s)
<1>1. PICK g \in [0 .. N -> Seq(T)] : Filtering(g, s, S) /\ Filter(s, S) = g[N]
  BY FilterExists
<1> DEFINE G == {n \in 0 .. N : f[n] = g[n]}
<1>2. N \in Nat
  BY LenProperties
<1>3. 0 \in G
  BY <1>1, <1>2 DEF Filtering
<1>4. ASSUME NEW n \in 0 .. N - 1, n \in G PROVE n + 1 \in G
  <2>1. n + 1 \in 1 .. N /\ (n + 1) - 1 = n
    BY <1>2
  <2>2. QED
    BY <1>1, <1>2, <1>4, <2>1 DEF Filtering
<1>5. 0 .. N \subseteq G
  <2> HIDE DEF G
  <2>1. QED
    BY <1>2, <1>3, <1>4, InductiveUpTo
<1>6. QED
  BY <1>1, <1>2, <1>5

LEMMA FilterType ==
    ASSUME NEW T, NEW s \in Seq(T), NEW S
    PROVE  Filter(s, S) \in Seq(T)
<1>1. Len(s) \in 0 .. Len(s)
  BY LenProperties
<1>2. QED
  BY <1>1, FilterExists

LEMMA FilterEmpty ==
    ASSUME NEW S
    PROVE  Filter(<<>>, S) = <<>>
<1> DEFINE s == <<>>
<1>1. s \in Seq({}) /\ Len(s) = 0
  BY EmptySeq
<1> HIDE DEF s
<1>2. PICK f \in [0 .. Len(s) -> Seq({})] : Filtering(f, s, S) /\ Filter(s, S) = f[Len(s)]
  BY <1>1, FilterExists
<1>3. Filter(s, S) = <<>>
  BY <1>1, <1>2 DEF Filtering
<1>4. QED
  BY <1>3 DEF s

LEMMA FilterAppend ==
    ASSUME NEW T, NEW s \in Seq(T), NEW x \in T, NEW S
    PROVE  Filter(Append(s, x), S) =
               IF x \in S THEN Append(Filter(s, S), x) ELSE Filter(s, S)
<1> DEFINE t == Append(s, x)
<1>1. /\ t \in Seq(T) /\ Len(t) = Len(s) + 1 /\ Len(s) \in Nat
      /\ \A i \in 1 .. Len(s) : t[i] = s[i]
      /\ t[Len(s) + 1] = x
  BY AppendProperties, LenProperties
<1> HIDE DEF t
<1>2. PICK f \in [0 .. Len(t) -> Seq(T)] : Filtering(f, t, S) /\ Filter(t, S) = f[Len(t)]
  BY <1>1, FilterExists
<1>3. Filtering(f, s, S)
  BY <1>1, <1>2 DEF Filtering
<1>4. f[Len(s)] = Filter(s, S)
  BY <1>3, FilterUnique
<1>5. f[Len(t)] = IF x \in S THEN Append(f[Len(s)], x) ELSE f[Len(s)]
  <2>1. Len(t) \in 1 .. Len(t) /\ Len(t) - 1 = Len(s) /\ t[Len(t)] = x
    BY <1>1
  <2>2. QED
    BY <1>2, <2>1 DEF Filtering
<1>6. QED
  BY <1>2, <1>4, <1>5 DEF t

\* What is true of the empty sequence, and of a sequence with an element more,
\* is true of every sequence.
LEMMA InductionAppend ==
    ASSUME NEW S, NEW P, <<>> \in P,
           \A s \in Seq(S), e \in S : s \in P => Append(s, e) \in P
    PROVE  Seq(S) \subseteq P
<1> DEFINE Short(n) == {s \in Seq(S) : Len(s) = n}
           G(N) == {n \in 0 .. N : Short(n) \subseteq P}
<1>1. ASSUME NEW N \in Nat PROVE Short(N) \subseteq P
  <2>1. 0 \in G(N)
    <3>1. ASSUME NEW s \in Short(0) PROVE s \in P
      BY EmptySeq
    <3>2. QED
      BY <3>1
  <2>2. ASSUME NEW n \in 0 .. N - 1, n \in G(N) PROVE n + 1 \in G(N)
    <3>1. ASSUME NEW s \in Short(n + 1) PROVE s \in P
      <4>1. s \in Seq(S) /\ Len(s) = n + 1
        OBVIOUS
      <4>2. s # <<>>
        BY <4>1, EmptySeq
      <4>3. PICK t \in Seq(S), e \in S : s = Append(t, e)
        BY <4>1, <4>2, SequenceEmptyOrAppend
      <4>4. Len(t) = n
        BY <4>1, <4>3, AppendProperties, LenProperties
      <4>5. t \in P
        BY <2>2, <4>4
      <4>6. QED
        BY <4>3, <4>5
    <3>2. n + 1 \in 0 .. N
      OBVIOUS
    <3>3. QED
      BY <3>1, <3>2
  <2> HIDE DEF G
  <2>3. 0 .. N \subseteq G(N)
    BY <2>1, <2>2, InductiveUpTo
  <2>4. QED
    BY <2>3 DEF G
<1>2. ASSUME NEW s \in Seq(S) PROVE s \in P
  <2>1. Len(s) \in Nat /\ s \in Short(Len(s))
    BY LenProperties
  <2>2. QED
    BY <1>1, <2>1
<1>3. QED
  BY <1>2

LEMMA AppendConcat ==
    ASSUME NEW T, NEW s \in Seq(T), NEW t \in Seq(T), NEW x \in T
    PROVE  s \o Append(t, x) = Append(s \o t, x)
<1>1. s \o t \in Seq(T) /\ <<x>> \in Seq(T)
  BY ConcatProperties
<1>2. Append(t, x) = t \o <<x>> /\ Append(s \o t, x) = (s \o t) \o <<x>>
  BY <1>1, AppendIsConcat
<1>3. QED
  BY <1>1, <1>2, ConcatAssociative

LEMMA FilterConcat ==
    ASSUME NEW T, NEW s \in Seq(T), NEW t \in Seq(T), NEW S
    PROVE  Filter(s \o t, S) = Filter(s, S) \o Filter(t, S)
<1> DEFINE P == {u \in Seq(T) : Filter(s \o u, S) = Filter(s, S) \o Filter(u, S)}
<1>1. <<>> \in P
  <2>1. s \o <<>> = s /\ Filter(s, S) \o <<>> = Filter(s, S)
    BY FilterType, ConcatEmptySeq
  <2>2. <<>> \in Seq(T) /\ Filter(<<>>, S) = <<>>
    BY FilterEmpty, EmptySeq
  <2>3. QED
    BY <2>1, <2>2
<1>2. ASSUME NEW u \in Seq(T), NEW e \in T, u \in P PROVE Append(u, e) \in P
  <2>1. s \o u \in Seq(T) /\ Append(u, e) \in Seq(T)
    BY ConcatProperties, AppendProperties
  <2>2. Filter(s, S) \in Seq(T) /\ Filter(u, S) \in Seq(T)
    BY FilterType
  <2>3. s \o Append(u, e) = Append(s \o u, e)
    BY AppendConcat
  <2>4. Filter(Append(s \o u, e), S) =
            IF e \in S THEN Append(Filter(s \o u, S), e) ELSE Filter(s \o u, S)
    BY <2>1, FilterAppend
  <2>5. Filter(Append(u, e), S) =
            IF e \in S THEN Append(Filter(u, S), e) ELSE Filter(u, S)
    BY FilterAppend
  <2>6. Filter(s, S) \o Append(Filter(u, S), e) = Append(Filter(s, S) \o Filter(u, S), e)
    BY <2>2, AppendConcat
  <2>7. Filter(s \o u, S) = Filter(s, S) \o Filter(u, S)
    BY <1>2
  <2>8. Filter(s \o Append(u, e), S) = Filter(s, S) \o Filter(Append(u, e), S)
    BY <2>3, <2>4, <2>5, <2>6, <2>7
  <2>9. QED
    BY <2>1, <2>8
<1> HIDE DEF P
<1>3. Seq(T) \subseteq P
  BY <1>1, <1>2, InductionAppend
<1>4. QED
  BY <1>3 DEF P

\* The elements of a sequence.
Elements(s) == {s[i] : i \in 1 .. Len(s)}

LEMMA ElementsEmpty == Elements(<<>>) = {}
  BY DEF Elements

LEMMA ElementsAppend ==
    ASSUME NEW T, NEW s \in Seq(T), NEW x \in T
    PROVE  Elements(Append(s, x)) = Elements(s) \cup {x}
<1> DEFINE t == Append(s, x)
<1>1. /\ Len(t) = Len(s) + 1 /\ Len(s) \in Nat
      /\ \A i \in 1 .. Len(s) : t[i] = s[i]
      /\ t[Len(s) + 1] = x
  BY AppendProperties, LenProperties
<1> HIDE DEF t
<1>2. 1 .. Len(t) = (1 .. Len(s)) \cup {Len(s) + 1}
  BY <1>1
<1>3. \A y : y \in Elements(t) <=> y \in Elements(s) \/ y = x
  BY <1>1, <1>2 DEF Elements
<1>4. QED
  BY <1>3 DEF t

LEMMA ElementsConcat ==
    ASSUME NEW T, NEW s \in Seq(T), NEW t \in Seq(T)
    PROVE  Elements(s \o t) = Elements(s) \cup Elements(t)
<1> DEFINE u == s \o t
<1>1. /\ Len(u) = Len(s) + Len(t) /\ Len(s) \in Nat /\ Len(t) \in Nat
      /\ \A i \in 1 .. Len(s) + Len(t) : u[i] = IF i <= Len(s) THEN s[i] ELSE t[i - Len(s)]
  BY ConcatProperties, LenProperties
<1> HIDE DEF u
<1>2. ASSUME NEW i \in 1 .. Len(u) PROVE u[i] \in Elements(s) \cup Elements(t)
  <2>1. CASE i <= Len(s)
    BY <1>1, <2>1 DEF Elements
  <2>2. CASE i > Len(s)
    <3>1. i - Len(s) \in 1 .. Len(t) /\ u[i] = t[i - Len(s)]
      BY <1>1, <2>2
    <3>2. QED
      BY <3>1 DEF Elements
  <2>3. QED
    BY <1>1, <2>1, <2>2
<1>3. ASSUME NEW i \in 1 .. Len(s) PROVE s[i] \in Elements(u)
  <2>1. i \in 1 .. Len(u) /\ u[i] = s[i]
    BY <1>1
  <2>2. QED
    BY <2>1 DEF Elements
<1>4. ASSUME NEW i \in 1 .. Len(t) PROVE t[i] \in Elements(u)
  <2>1. i + Len(s) \in 1 .. Len(u) /\ u[i + Len(s)] = t[i]
    BY <1>1
  <2>2. QED
    BY <2>1 DEF Elements
<1>5. QED
  BY <1>2, <1>3, <1>4 DEF Elements, u

LEMMA FilterElements ==
    ASSUME NEW T, NEW s \in Seq(T), NEW S
    PROVE  Elements(Filter(s, S)) = Elements(s) \cap S
<1> DEFINE P == {u \in Seq(T) : Elements(Filter(u, S)) = Elements(u) \cap S}
<1>1. <<>> \in P
  BY FilterEmpty, ElementsEmpty, EmptySeq
<1>2. ASSUME NEW u \in Seq(T), NEW e \in T, u \in P PROVE Append(u, e) \in P
  <2>1. Append(u, e) \in Seq(T) /\ Filter(u, S) \in Seq(T)
    BY AppendProperties, FilterType
  <2>2. /\ Elements(Append(u, e)) = Elements(u) \cup {e}
        /\ Elements(Append(Filter(u, S), e)) = Elements(Filter(u, S)) \cup {e}
    BY <2>1, ElementsAppend
  <2>3. Filter(Append(u, e), S) =
            IF e \in S THEN Append(Filter(u, S), e) ELSE Filter(u, S)
    BY FilterAppend
  <2>4. Elements(Filter(Append(u, e), S)) = Elements(Append(u, e)) \cap S
    BY <1>2, <2>2, <2>3
  <2>5. QED
    BY <2>1, <2>4
<1> HIDE DEF P
<1>3. Seq(T) \subseteq P
  BY <1>1, <1>2, InductionAppend
<1>4. QED
  BY <1>3 DEF P

\* Only the elements of the sequence that are in the set matter.
LEMMA FilterSame ==
    ASSUME NEW T, NEW s \in Seq(T), NEW A, NEW B, Elements(s) \cap A = Elements(s) \cap B
    PROVE  Filter(s, A) = Filter(s, B)
<1> DEFINE P == {u \in Seq(T) :
                    Elements(u) \cap A = Elements(u) \cap B => Filter(u, A) = Filter(u, B)}
<1>1. <<>> \in P
  BY FilterEmpty, EmptySeq
<1>2. ASSUME NEW u \in Seq(T), NEW e \in T, u \in P PROVE Append(u, e) \in P
  <2>1. Append(u, e) \in Seq(T)
    BY AppendProperties
  <2>2. Elements(Append(u, e)) = Elements(u) \cup {e}
    BY ElementsAppend
  <2>3. /\ Filter(Append(u, e), A) =
               IF e \in A THEN Append(Filter(u, A), e) ELSE Filter(u, A)
        /\ Filter(Append(u, e), B) =
               IF e \in B THEN Append(Filter(u, B), e) ELSE Filter(u, B)
    BY FilterAppend
  <2>4. ASSUME Elements(Append(u, e)) \cap A = Elements(Append(u, e)) \cap B
        PROVE  Filter(Append(u, e), A) = Filter(Append(u, e), B)
    <3>1. Elements(u) \cap A = Elements(u) \cap B /\ (e \in A <=> e \in B)
      BY <2>2, <2>4
    <3>2. QED
      BY <1>2, <2>3, <3>1
  <2>5. QED
    BY <2>1, <2>4
<1> HIDE DEF P
<1>3. Seq(T) \subseteq P
  BY <1>1, <1>2, InductionAppend
<1>4. QED
  BY <1>3 DEF P

\* A filter through which everything goes, or nothing.
LEMMA FilterAll ==
    ASSUME NEW T, NEW s \in Seq(T), NEW S, Elements(s) \subseteq S
    PROVE  Filter(s, S) = s
<1> DEFINE P == {u \in Seq(T) : Elements(u) \subseteq S => Filter(u, S) = u}
<1>1. <<>> \in P
  BY FilterEmpty, EmptySeq
<1>2. ASSUME NEW u \in Seq(T), NEW e \in T, u \in P PROVE Append(u, e) \in P
  BY <1>2, AppendProperties, ElementsAppend, FilterAppend
<1> HIDE DEF P
<1>3. Seq(T) \subseteq P
  BY <1>1, <1>2, InductionAppend
<1>4. QED
  BY <1>3 DEF P

LEMMA FilterNone ==
    ASSUME NEW T, NEW s \in Seq(T), NEW S, Elements(s) \cap S = {}
    PROVE  Filter(s, S) = <<>>
<1>1. Filter(s, S) \in Seq(T) /\ Elements(Filter(s, S)) = {}
  BY FilterType, FilterElements
<1>2. Len(Filter(s, S)) = 0
  <2>1. Len(Filter(s, S)) \in Nat
    BY <1>1, LenProperties
  <2>2. 1 \notin 1 .. Len(Filter(s, S))
    BY <1>1 DEF Elements
  <2>3. QED
    BY <2>1, <2>2
<1>3. QED
  BY <1>1, <1>2, EmptySeq

LEMMA FilterTwice ==
    ASSUME NEW T, NEW s \in Seq(T), NEW A, NEW B
    PROVE  Filter(Filter(s, A), B) = Filter(s, A \cap B)
<1> DEFINE P == {u \in Seq(T) : Filter(Filter(u, A), B) = Filter(u, A \cap B)}
<1>1. <<>> \in P
  BY FilterEmpty, EmptySeq
<1>2. ASSUME NEW u \in Seq(T), NEW e \in T, u \in P PROVE Append(u, e) \in P
  <2>1. Append(u, e) \in Seq(T) /\ Filter(u, A) \in Seq(T)
    BY AppendProperties, FilterType
  <2>2. Filter(Append(u, e), A) = IF e \in A THEN Append(Filter(u, A), e) ELSE Filter(u, A)
    BY FilterAppend
  <2>3. Filter(Append(Filter(u, A), e), B) =
            IF e \in B THEN Append(Filter(Filter(u, A), B), e) ELSE Filter(Filter(u, A), B)
    BY <2>1, FilterAppend
  <2>4. Filter(Append(u, e), A \cap B) =
            IF e \in A \cap B THEN Append(Filter(u, A \cap B), e) ELSE Filter(u, A \cap B)
    BY FilterAppend
  <2>5. Filter(Filter(u, A), B) = Filter(u, A \cap B)
    BY <1>2
  <2>6. Filter(Filter(Append(u, e), A), B) = Filter(Append(u, e), A \cap B)
    <3>1. CASE e \in A
      <4>1. Filter(Append(u, e), A) = Append(Filter(u, A), e)
        BY <2>2, <3>1
      <4>2. e \in B <=> e \in A \cap B
        BY <3>1
      <4>3. QED
        BY <2>3, <2>4, <2>5, <4>1, <4>2, Zenon
    <3>2. CASE e \notin A
      <4>1. Filter(Append(u, e), A) = Filter(u, A) /\ e \notin A \cap B
        BY <2>2, <3>2
      <4>2. Filter(Append(u, e), A \cap B) = Filter(u, A \cap B)
        BY <2>4, <4>1
      <4>3. QED
        BY <2>5, <4>1, <4>2
    <3>3. QED
      BY <3>1, <3>2
  <2>7. QED
    BY <2>1, <2>6
<1> HIDE DEF P
<1>3. Seq(T) \subseteq P
  BY <1>1, <1>2, InductionAppend
<1>4. QED
  BY <1>3 DEF P

\* A sequence is its first element, and the rest.
LEMMA HeadAndTail ==
    ASSUME NEW T, NEW s \in Seq(T), s # <<>>
    PROVE  s = <<Head(s)>> \o Tail(s)
<1> DEFINE t == <<Head(s)>> \o Tail(s)
<1>1. /\ t \in Seq(T) /\ Len(t) = 1 + Len(Tail(s))
      /\ \A i \in 1 .. 1 + Len(Tail(s)) :
             t[i] = IF i <= 1 THEN <<Head(s)>>[i] ELSE Tail(s)[i - 1]
  <2>1. Tail(s) \in Seq(T) /\ <<Head(s)>> \in Seq(T)
    BY HeadTailProperties
  <2>2. QED
    BY <2>1, ConcatProperties
<1>2. /\ Len(Tail(s)) = Len(s) - 1 /\ Len(s) \in Nat
      /\ \A i \in 1 .. Len(Tail(s)) : Tail(s)[i] = s[i + 1]
      /\ Head(s) = s[1]
  BY HeadTailProperties, LenProperties
<1> HIDE DEF t
<1>3. \A i \in 1 .. Len(s) : s[i] = t[i]
  <2> TAKE i \in 1 .. Len(s)
  <2>1. CASE i = 1
    BY <1>1, <1>2, <2>1
  <2>2. CASE i > 1
    <3>1. i - 1 \in 1 .. Len(Tail(s)) /\ (i - 1) + 1 = i
      BY <1>2, <2>2
    <3>2. QED
      BY <1>1, <1>2, <2>2, <3>1
  <2>3. QED
    BY <1>2, <2>1, <2>2
<1>4. s = t
  BY <1>1, <1>2, <1>3, SeqEqual
<1>5. QED
  BY <1>4 DEF t

\* The first element, and the rest.
LEMMA FilterHead ==
    ASSUME NEW T, NEW s \in Seq(T), s # <<>>, NEW S
    PROVE  Filter(s, S) =
               IF Head(s) \in S THEN <<Head(s)>> \o Filter(Tail(s), S) ELSE Filter(Tail(s), S)
<1>1. Head(s) \in T /\ Tail(s) \in Seq(T)
  BY HeadTailProperties
<1>2. <<Head(s)>> \in Seq(T) /\ <<Head(s)>> = Append(<<>>, Head(s)) /\ <<>> \in Seq(T)
  BY <1>1, EmptySeq
<1>3. s = <<Head(s)>> \o Tail(s)
  BY HeadAndTail
<1> DEFINE h == <<Head(s)>>
           none == <<>>
<1>4. Filter(s, S) = Filter(h, S) \o Filter(Tail(s), S)
  <2>1. h \in Seq(T)
    BY <1>2
  <2>2. s = h \o Tail(s)
    BY <1>3
  <2> DEFINE t == Tail(s)
  <2>3. t \in Seq(T)
    BY <1>1
  <2> HIDE DEF h, t
  <2>4. Filter(h \o t, S) = Filter(h, S) \o Filter(t, S)
    BY <2>1, <2>3, FilterConcat
  <2>5. QED
    BY <2>2, <2>4 DEF t
<1>5. Filter(h, S) = IF Head(s) \in S THEN h ELSE none
  <2>1. h = Append(none, Head(s)) /\ none \in Seq(T) /\ Filter(none, S) = none
    BY <1>2, FilterEmpty
  <2> HIDE DEF h, none
  <2>2. Filter(Append(none, Head(s)), S) =
            IF Head(s) \in S THEN Append(Filter(none, S), Head(s)) ELSE Filter(none, S)
    BY <1>1, <2>1, FilterAppend
  <2>3. QED
    BY <2>1, <2>2
<1>6. Filter(Tail(s), S) \in Seq(T)
  BY <1>1, FilterType
<1>7. <<>> \o Filter(Tail(s), S) = Filter(Tail(s), S)
  BY <1>6, ConcatEmptySeq
<1>8. QED
  BY <1>4, <1>5, <1>7

FiltersApart(s, t, K) == Filter(s \o t, K) = Filter(s, K) \o Filter(t, K)

LEMMA FilterApart ==
    ASSUME NEW T, NEW s \in Seq(T), NEW t \in Seq(T), NEW K
    PROVE  FiltersApart(s, t, K)
BY FilterConcat DEF FiltersApart

\* No element stands in two places.
Distinct(s) == \A i, j \in 1 .. Len(s) : s[i] = s[j] => i = j

LEMMA DistinctConcat ==
    ASSUME NEW T, NEW s \in Seq(T), NEW t \in Seq(T)
    PROVE  Distinct(s \o t) <=>
               Distinct(s) /\ Distinct(t) /\ Elements(s) \cap Elements(t) = {}
<1> DEFINE u == s \o t
           m == Len(s)
           n == Len(t)
<1>1. /\ Len(u) = m + n /\ m \in Nat /\ n \in Nat
      /\ \A k \in 1 .. m + n : u[k] = IF k <= m THEN s[k] ELSE t[k - m]
  BY ConcatProperties, LenProperties
<1> HIDE DEF u, m, n
<1>2. /\ \A k \in 1 .. m : k \in 1 .. m + n /\ u[k] = s[k]
      /\ \A k \in 1 .. n : k + m \in 1 .. m + n /\ u[k + m] = t[k]
  BY <1>1
<1>3. ASSUME Distinct(u) PROVE Distinct(s) /\ Distinct(t) /\ Elements(s) \cap Elements(t) = {}
  <2>1. \A i, j \in 1 .. m + n : u[i] = u[j] => i = j
    BY <1>1, <1>3 DEF Distinct
  <2>2. \A i, j \in 1 .. m : s[i] = s[j] => i = j
    BY <1>2, <2>1
  <2>3. ASSUME NEW i \in 1 .. n, NEW j \in 1 .. n, t[i] = t[j] PROVE i = j
    <3>1. i + m = j + m
      BY <1>2, <2>1, <2>3
    <3>2. QED
      BY <1>1, <3>1
  <2>4. ASSUME NEW i \in 1 .. m, NEW j \in 1 .. n, s[i] = t[j] PROVE FALSE
    <3>1. i = j + m
      BY <1>2, <2>1, <2>4
    <3>2. QED
      BY <1>1, <3>1
  <2>5. QED
    BY <2>2, <2>3, <2>4 DEF Distinct, Elements, m, n
<1>4. ASSUME Distinct(s), Distinct(t), Elements(s) \cap Elements(t) = {} PROVE Distinct(u)
  <2>1. \A i, j \in 1 .. m : s[i] = s[j] => i = j
    BY <1>4 DEF Distinct, m
  <2>2. \A i, j \in 1 .. n : t[i] = t[j] => i = j
    BY <1>4 DEF Distinct, n
  <2>3. \A i \in 1 .. m, j \in 1 .. n : s[i] # t[j]
    BY <1>4 DEF Elements, m, n
  <2>4. ASSUME NEW i \in 1 .. m + n, NEW j \in 1 .. m + n, u[i] = u[j] PROVE i = j
    <3>1. CASE i <= m /\ j <= m
      BY <1>1, <2>1, <2>4, <3>1
    <3>2. CASE i > m /\ j > m
      <4>1. i - m \in 1 .. n /\ j - m \in 1 .. n /\ t[i - m] = t[j - m]
        BY <1>1, <2>4, <3>2
      <4>2. i - m = j - m
        BY <2>2, <4>1
      <4>3. QED
        BY <1>1, <4>2
    <3>3. CASE i <= m /\ j > m
      <4>1. i \in 1 .. m /\ j - m \in 1 .. n /\ s[i] = t[j - m]
        BY <1>1, <2>4, <3>3
      <4>2. QED
        BY <2>3, <4>1
    <3>4. CASE i > m /\ j <= m
      <4>1. j \in 1 .. m /\ i - m \in 1 .. n /\ s[j] = t[i - m]
        BY <1>1, <2>4, <3>4
      <4>2. QED
        BY <2>3, <4>1
    <3>5. QED
      BY <1>1, <3>1, <3>2, <3>3, <3>4
  <2>5. QED
    BY <1>1, <2>4 DEF Distinct
<1>5. QED
  BY <1>3, <1>4 DEF u

FiltersOne(s, x, K) ==
    Filter(Append(s, x), K) = IF x \in K THEN Append(Filter(s, K), x) ELSE Filter(s, K)

LEMMA FilterOneMore ==
    ASSUME NEW T, NEW s \in Seq(T), NEW x \in T, NEW K
    PROVE  FiltersOne(s, x, K)
BY FilterAppend DEF FiltersOne

-----------------------------------------------------------------------------
LEMMA DistinctAppend ==
    ASSUME NEW T, NEW s \in Seq(T), NEW x \in T
    PROVE  Distinct(Append(s, x)) <=> Distinct(s) /\ x \notin Elements(s)
<1> DEFINE t == Append(s, x)
           n == Len(s)
<1>1. /\ Len(t) = n + 1 /\ n \in Nat
      /\ \A i \in 1 .. n : t[i] = s[i]
      /\ t[n + 1] = x
  BY AppendProperties, LenProperties
<1> HIDE DEF t
<1>2. x \in Elements(s) <=> \E i \in 1 .. n : s[i] = x
  BY DEF Elements
<1>3. Distinct(s) <=> \A i, j \in 1 .. n : s[i] = s[j] => i = j
  BY DEF Distinct
<1> HIDE DEF n
<1>4. ASSUME Distinct(t) PROVE Distinct(s) /\ x \notin Elements(s)
  <2>1. \A i, j \in 1 .. n + 1 : t[i] = t[j] => i = j
    BY <1>1, <1>4 DEF Distinct
  <2>2. \A i \in 1 .. n : i \in 1 .. n + 1 /\ i # n + 1
    BY <1>1
  <2>3. QED
    BY <1>1, <1>2, <1>3, <2>1, <2>2
<1>5. ASSUME Distinct(s), x \notin Elements(s) PROVE Distinct(t)
  <2>1. \A i \in 1 .. n + 1 : i = n + 1 \/ i \in 1 .. n
    BY <1>1
  <2>2. \A i, j \in 1 .. n + 1 : t[i] = t[j] => i = j
    BY <1>1, <1>2, <1>3, <1>5, <2>1
  <2>3. QED
    BY <1>1, <2>2 DEF Distinct
<1>6. QED
  BY <1>4, <1>5 DEF t

LEMMA DistinctFilter ==
    ASSUME NEW T, NEW s \in Seq(T), NEW K, Distinct(s)
    PROVE  Distinct(Filter(s, K))
<1> DEFINE P == {u \in Seq(T) : Distinct(u) => Distinct(Filter(u, K))}
           none == <<>>
<1>1. none \in P
  <2>1. none \in Seq(T) /\ Filter(none, K) = none
    BY EmptySeq, FilterEmpty
  <2> HIDE DEF none
  <2>2. QED
    BY <2>1
<1>2. ASSUME NEW u \in Seq(T), NEW e \in T, u \in P PROVE Append(u, e) \in P
  <2> DEFINE f == Filter(u, K)
             t == Append(u, e)
  <2>1. f \in Seq(T) /\ Elements(f) \subseteq Elements(u) /\ t \in Seq(T)
    BY FilterType, FilterElements, AppendProperties
  <2>2. FiltersOne(u, e, K)
    BY FilterOneMore
  <2>3. Distinct(t) <=> Distinct(u) /\ e \notin Elements(u)
    BY DistinctAppend
  <2>4. Distinct(u) => Distinct(f)
    BY <1>2
  <2>5. Filter(t, K) = IF e \in K THEN Append(f, e) ELSE f
    BY <2>2 DEF FiltersOne
  <2> HIDE DEF f, t
  <2>6. Distinct(Append(f, e)) <=> Distinct(f) /\ e \notin Elements(f)
    BY <2>1, DistinctAppend
  <2>7. Distinct(t) => Distinct(Filter(t, K))
    BY <2>1, <2>3, <2>4, <2>5, <2>6
  <2>8. QED
    BY <2>1, <2>7 DEF t
<1> HIDE DEF P
<1>3. Seq(T) \subseteq P
  BY <1>1, <1>2, InductionAppend
<1>4. s \in P
  BY <1>3
<1>5. QED
  BY <1>4 DEF P
=============================================================================
