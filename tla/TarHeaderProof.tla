-------------------------- MODULE TarHeaderProof ---------------------------
(***************************************************************************)
(* Proofs about TarHeader, for all lengths of fields and all members an    *)
(* archiver may describe: what passes for a header and what is read of it. *)
(***************************************************************************)
EXTENDS TarHeader, SequenceTheorems, WellFoundedInduction, TLAPS

-----------------------------------------------------------------------------
(***************************************************************************)
(* Recursion and induction over the bytes of a field.                      *)
(***************************************************************************)

(* A set of numbers has a least one.                                       *)
LEMMA LeastNumber ==
  ASSUME NEW T, T \subseteq Nat, T # {}
  PROVE  \E x \in T : \A y \in T : ~(y < x)
<1>1. IsWellFoundedOn(OpToRel(<, Nat), Nat)
  BY NatLessThanWellFounded
<1>2. \E x \in T : \A y \in T : ~(<<y, x>> \in OpToRel(<, Nat))
  BY <1>1, WFMin
<1> QED
  BY <1>2 DEF OpToRel

(* Induction: a set of numbers closed under the successor has them all.    *)
LEMMA Induction ==
  ASSUME NEW S, 0 \in S, \A n \in Nat : n \in S => n + 1 \in S
  PROVE  Nat \subseteq S
<1> DEFINE T == Nat \ S
<1> SUFFICES ASSUME T # {} PROVE FALSE
  OBVIOUS
<1>1. PICK x \in T : \A y \in T : ~(y < x)
  <2>1. T \subseteq Nat
    OBVIOUS
  <2> HIDE DEF T
  <2> QED
    BY <2>1, LeastNumber
<1>2. x \in Nat /\ x # 0 /\ x - 1 \in Nat
  OBVIOUS
<1>3. x - 1 \notin T
  BY <1>1, <1>2
<1>4. (x - 1) + 1 = x
  BY <1>2
<1> QED
  BY <1>2, <1>3, <1>4

(* A function is defined by recursion over an interval.                    *)
Unfolds(g, c, d, L) == g[0] = c /\ \A b \in 1..L : g[b] = d[b][g[b - 1]]

LEMMA Recursion ==
  ASSUME NEW S, NEW L \in Nat, NEW c \in S, NEW d \in [1..L -> [S -> S]]
  PROVE  \E g \in [0..L -> S] : Unfolds(g, c, d, L)
<1> DEFINE Upto(g, n) == g[0] = c /\ \A b \in 1..n : g[b] = d[b][g[b - 1]]
           Good == {n \in Nat : n <= L => \E g \in [0..n -> S] : Upto(g, n)}
<1>1. 0 \in Good
  <2>1. [b \in 0..0 |-> c] \in [0..0 -> S] /\ Upto([b \in 0..0 |-> c], 0)
    OBVIOUS
  <2> QED
    BY <2>1
<1>2. ASSUME NEW n \in Nat, n \in Good
      PROVE  n + 1 \in Good
  <2> SUFFICES ASSUME n + 1 <= L
               PROVE  \E g \in [0..(n + 1) -> S] : Upto(g, n + 1)
    OBVIOUS
  <2>1. PICK g \in [0..n -> S] : Upto(g, n)
    BY <1>2
  <2> DEFINE next == d[n + 1][g[n]]
             h == [b \in 0..(n + 1) |-> IF b = n + 1 THEN next ELSE g[b]]
  <2>2. next \in S
    <3>1. g[n] \in S /\ n + 1 \in 1..L
      BY <2>1
    <3> QED
      BY <3>1
  <2>3. h \in [0..(n + 1) -> S]
    <3> HIDE DEF next
    <3> QED
      BY <2>1, <2>2
  <2>4. h[0] = c
    <3> HIDE DEF next
    <3> QED
      BY <2>1
  <2>5. ASSUME NEW b \in 1..(n + 1)
        PROVE  h[b] = d[b][h[b - 1]]
    <3>1. CASE b = n + 1
      <4>1. h[b] = next /\ h[n] = g[n] /\ b - 1 = n
        BY <3>1
      <4> QED
        BY <3>1, <4>1
    <3>2. CASE b \in 1..n
      <4>1. h[b] = g[b] /\ h[b - 1] = g[b - 1]
        BY <3>2
      <4> HIDE DEF h
      <4> QED
        BY <2>1, <3>2, <4>1
    <3> QED
      BY <3>1, <3>2
  <2> HIDE DEF h
  <2> QED
    BY <2>3, <2>4, <2>5
<1>3. Nat \subseteq Good
  <2> HIDE DEF Good
  <2> QED
    BY <1>1, <1>2, Induction
<1>4. PICK g \in [0..L -> S] : Upto(g, L)
  BY <1>3
<1> QED
  BY <1>4 DEF Unfolds

(* The powers of 8.                                                        *)
LEMMA PowersUnfold ==
  ASSUME NEW n \in Nat
  PROVE  /\ Powers(n) \in [0..n -> Nat]
         /\ Powers(n)[0] = 1
         /\ \A i \in 1..n : Powers(n)[i] = 8 * Powers(n)[i - 1]
<1> DEFINE L == n
           t == Powers(n)
           f(x, i) == 8 * x
           E(h) == [i \in 0..L |-> IF i = 0 THEN 1 ELSE f(h[i - 1], i)]
<1>1. L \in Nat
  OBVIOUS
<1>2. t = CHOOSE h : h = E(h)
  BY DEF Powers
<1>3. 1 \in Nat /\ \A i \in 1..L, x \in Nat : f(x, i) \in Nat
  OBVIOUS
<1> HIDE DEF L, t, f
<1>4. PICK g \in [0..L -> Nat] : g = E(g)
  <2> DEFINE d == [i \in 1..L |-> [x \in Nat |-> f(x, i)]]
  <2>1. /\ d \in [1..L -> [Nat -> Nat]]
        /\ \A x \in Nat, i \in 1..L : d[i][x] = f(x, i)
    BY <1>3
  <2> HIDE DEF d
  <2>2. PICK g \in [0..L -> Nat] : Unfolds(g, 1, d, L)
    BY <1>1, <1>3, <2>1, Recursion
  <2>3. ASSUME NEW i \in 1..L
        PROVE  g[i] = f(g[i - 1], i)
    <3>1. g[i - 1] \in Nat
      BY <1>1
    <3> QED
      BY <2>1, <2>2, <3>1 DEF Unfolds
  <2>4. g = E(g)
    BY <1>1, <2>2, <2>3 DEF Unfolds
  <2> QED
    BY <2>4
<1>5. t = E(t)
  <2> HIDE DEF E
  <2> QED
    BY <1>2, <1>4
<1>6. t[0] = 1 /\ \A i \in 1..L : t[i] = f(t[i - 1], i)
  BY <1>1, <1>5
<1>7. \A i \in 0..L : t[i] \in Nat
  <2> DEFINE Good == {i \in Nat : i <= L => t[i] \in Nat}
  <2>1. 0 \in Good
    BY <1>3, <1>6
  <2>2. ASSUME NEW i \in Nat, i \in Good
        PROVE  i + 1 \in Good
    <3> SUFFICES ASSUME i + 1 <= L PROVE t[i + 1] \in Nat
      OBVIOUS
    <3>1. i + 1 \in 1..L /\ (i + 1) - 1 = i /\ t[i] \in Nat
      BY <1>1, <2>2
    <3>2. t[i + 1] = f(t[i], i + 1)
      BY <1>6, <3>1
    <3> QED
      BY <1>3, <3>1, <3>2
  <2>3. Nat \subseteq Good
    <3> HIDE DEF Good
    <3> QED
      BY <2>1, <2>2, Induction
  <2> QED
    BY <1>1, <2>3
<1>8. t \in [0..L -> Nat]
  BY <1>5, <1>7
<1> QED
  BY <1>6, <1>8 DEF L, t, f

LEMMA PowersPositive ==
  ASSUME NEW n \in Nat, NEW i \in 0..n
  PROVE  Powers(n)[i] \in Nat /\ Powers(n)[i] >= 1
<1> DEFINE p == Powers(n)
           Good == {k \in Nat : k <= n => p[k] >= 1}
<1>1. /\ p \in [0..n -> Nat] /\ p[0] = 1
      /\ \A k \in 1..n : p[k] = 8 * p[k - 1]
  BY PowersUnfold
<1> HIDE DEF p
<1>2. 0 \in Good
  BY <1>1
<1>3. ASSUME NEW k \in Nat, k \in Good
      PROVE  k + 1 \in Good
  <2> SUFFICES ASSUME k + 1 <= n PROVE p[k + 1] >= 1
    OBVIOUS
  <2>1. k + 1 \in 1..n /\ (k + 1) - 1 = k /\ k \in 0..n
    OBVIOUS
  <2>2. p[k + 1] = 8 * p[k] /\ p[k] \in Nat /\ p[k] >= 1
    BY <1>1, <1>3, <2>1
  <2> QED
    BY <2>2
<1>4. Nat \subseteq Good
  <2> HIDE DEF Good
  <2> QED
    BY <1>2, <1>3, Induction
<1> QED
  BY <1>1, <1>4 DEF p

(* The places of the fields, and the width of a size_t.                    *)
LEMMA Places ==
  /\ NameLen \in Nat /\ NameLen >= 1 /\ SizeLen \in Nat /\ SizeLen >= 2
  /\ MtimeLen \in Nat /\ MtimeLen >= 1
  /\ SumLen \in Nat /\ SumLen >= 3 /\ PrefixLen \in Nat /\ PrefixLen >= 1
  /\ SizeAt = NameLen + 3 /\ MtimeAt = NameLen + SizeLen + 3
  /\ SumAt = NameLen + SizeLen + MtimeLen + 3
  /\ PrefixAt = NameLen + SizeLen + MtimeLen + SumLen + 4
  /\ Last1 = NameLen + SizeLen + MtimeLen + SumLen + PrefixLen + 4
  BY LengthsAssumption DEF SizeAt, MtimeAt, SumAt, PrefixAt, Last1

LEMMA Width ==
  /\ Word \in Nat /\ Word > 0
  /\ Powers(SizeLen)[SizeLen] \in Nat /\ Powers(SizeLen)[SizeLen] >= 1
  /\ Powers(SumLen)[SumLen] \in Nat /\ Powers(SumLen)[SumLen] >= 1
  /\ Word > Powers(SizeLen)[SizeLen]
  /\ Word > 4096 * Last1 + 4 * Powers(SumLen)[SumLen]
<1>1. SizeLen \in 0..SizeLen /\ SumLen \in 0..SumLen
  BY Places
<1>2. /\ Powers(SizeLen)[SizeLen] \in Nat /\ Powers(SizeLen)[SizeLen] >= 1
      /\ Powers(SumLen)[SumLen] \in Nat /\ Powers(SumLen)[SumLen] >= 1
  BY <1>1, Places, PowersPositive
<1> QED
  BY <1>2, WordAssumption

LEMMA Ranges == \A x \in 0..(Word - 1) : x \in Int
  BY Width

(* The sums of a sequence's beginnings.                                    *)
LEMMA SumsUnfold ==
  ASSUME NEW s \in Seq(Int)
  PROVE  /\ Sums(s) \in [0..Len(s) -> Int]
         /\ Sums(s)[0] = 0
         /\ \A i \in 1..Len(s) : Sums(s)[i] = Sums(s)[i - 1] + s[i]
<1> DEFINE L == Len(s)
           t == Sums(s)
           f(x, i) == x + s[i]
           E(h) == [i \in 0..L |-> IF i = 0 THEN 0 ELSE f(h[i - 1], i)]
<1>1. L \in Nat
  BY LenProperties
<1>2. t = CHOOSE h : h = E(h)
  BY DEF Sums
<1>3. 0 \in Int /\ \A i \in 1..L, x \in Int : f(x, i) \in Int
  BY ElementOfSeq DEF L
<1> HIDE DEF L, t, f
<1>4. PICK g \in [0..L -> Int] : g = E(g)
  <2> DEFINE d == [i \in 1..L |-> [x \in Int |-> f(x, i)]]
  <2>1. /\ d \in [1..L -> [Int -> Int]]
        /\ \A x \in Int, i \in 1..L : d[i][x] = f(x, i)
    BY <1>3
  <2> HIDE DEF d
  <2>2. PICK g \in [0..L -> Int] : Unfolds(g, 0, d, L)
    BY <1>1, <1>3, <2>1, Recursion
  <2>3. ASSUME NEW i \in 1..L
        PROVE  g[i] = f(g[i - 1], i)
    <3>1. g[i - 1] \in Int
      BY <1>1
    <3> QED
      BY <2>1, <2>2, <3>1 DEF Unfolds
  <2>4. g = E(g)
    BY <1>1, <2>2, <2>3 DEF Unfolds
  <2> QED
    BY <2>4
<1>5. t = E(t)
  <2> HIDE DEF E
  <2> QED
    BY <1>2, <1>4
<1>6. t[0] = 0 /\ \A i \in 1..L : t[i] = f(t[i - 1], i)
  BY <1>1, <1>5
<1>7. \A i \in 0..L : t[i] \in Int
  <2> DEFINE Good == {i \in Nat : i <= L => t[i] \in Int}
  <2>1. 0 \in Good
    BY <1>3, <1>6
  <2>2. ASSUME NEW i \in Nat, i \in Good
        PROVE  i + 1 \in Good
    <3> SUFFICES ASSUME i + 1 <= L PROVE t[i + 1] \in Int
      OBVIOUS
    <3>1. i + 1 \in 1..L /\ (i + 1) - 1 = i /\ t[i] \in Int
      BY <1>1, <2>2
    <3>2. t[i + 1] = f(t[i], i + 1)
      BY <1>6, <3>1
    <3> QED
      BY <1>3, <3>1, <3>2
  <2>3. Nat \subseteq Good
    <3> HIDE DEF Good
    <3> QED
      BY <2>1, <2>2, Induction
  <2> QED
    BY <1>1, <2>3
<1>8. t \in [0..L -> Int]
  BY <1>5, <1>7
<1> QED
  BY <1>6, <1>8 DEF L, t, f

(* What numbers are written in.                                            *)
Bases == {8, 256}

LEMMA BasesAre == 8 \in Bases /\ 256 \in Bases
BY DEF Bases

(* The numbers that a sequence's beginnings make.                          *)
Wraps(num, s, radix) ==
  \A i \in 1..Len(s) : num[i] = (num[i - 1] * radix + s[i]) % Word

LEMMA NumbersUnfold ==
  ASSUME NEW s \in Seq(Int), NEW radix \in Bases
  PROVE  /\ Numbers(s, radix) \in [0..Len(s) -> 0..(Word - 1)]
         /\ Numbers(s, radix)[0] = 0
         /\ Wraps(Numbers(s, radix), s, radix)
<1> DEFINE L == Len(s)
           t == Numbers(s, radix)
           f(x, i) == (x * radix + s[i]) % Word
           E(h) == [i \in 0..L |-> IF i = 0 THEN 0 ELSE f(h[i - 1], i)]
<1>1. L \in Nat
  BY LenProperties
<1>2. t = CHOOSE h : h = E(h)
  BY DEF Numbers
<1>3. 0 \in 0..(Word - 1) /\ \A i \in 1..L, x \in 0..(Word - 1) : f(x, i) \in 0..(Word - 1)
  <2>1. Word \in Nat /\ Word > 0
    BY Width
  <2>2. ASSUME NEW i \in 1..L, NEW x \in 0..(Word - 1)
        PROVE  f(x, i) \in 0..(Word - 1)
    <3>1. s[i] \in Int
      BY ElementOfSeq DEF L
    <3> DEFINE y == x * radix + s[i]
    <3>2. y \in Int
      <4>1. radix \in Int
        BY DEF Bases
      <4> QED
        BY <2>1, <3>1, <4>1
    <3> HIDE DEF y
    <3>3. y % Word \in 0..(Word - 1)
      BY <2>1, <3>2
    <3> QED
      BY <3>3 DEF y
  <2> QED
    BY <2>1, <2>2
<1> HIDE DEF L, t, f
<1>4. PICK g \in [0..L -> 0..(Word - 1)] : g = E(g)
  <2> DEFINE d == [i \in 1..L |-> [x \in 0..(Word - 1) |-> f(x, i)]]
  <2>1. /\ d \in [1..L -> [0..(Word - 1) -> 0..(Word - 1)]]
        /\ \A x \in 0..(Word - 1), i \in 1..L : d[i][x] = f(x, i)
    BY <1>3
  <2> HIDE DEF d
  <2>2. PICK g \in [0..L -> 0..(Word - 1)] : Unfolds(g, 0, d, L)
    BY <1>1, <1>3, <2>1, Recursion
  <2>3. ASSUME NEW i \in 1..L
        PROVE  g[i] = f(g[i - 1], i)
    <3>1. g[i - 1] \in 0..(Word - 1)
      BY <1>1
    <3> QED
      BY <2>1, <2>2, <3>1 DEF Unfolds
  <2>4. g = E(g)
    BY <1>1, <2>2, <2>3 DEF Unfolds
  <2> QED
    BY <2>4
<1>5. t = E(t)
  <2> HIDE DEF E
  <2> QED
    BY <1>2, <1>4
<1>6. t[0] = 0 /\ \A i \in 1..L : t[i] = f(t[i - 1], i)
  BY <1>1, <1>5
<1>7. \A i \in 0..L : t[i] \in 0..(Word - 1)
  <2> DEFINE Good == {i \in Nat : i <= L => t[i] \in 0..(Word - 1)}
  <2>1. 0 \in Good
    BY <1>3, <1>6
  <2>2. ASSUME NEW i \in Nat, i \in Good
        PROVE  i + 1 \in Good
    <3> SUFFICES ASSUME i + 1 <= L PROVE t[i + 1] \in 0..(Word - 1)
      OBVIOUS
    <3>1. i + 1 \in 1..L /\ (i + 1) - 1 = i /\ t[i] \in 0..(Word - 1)
      BY <1>1, <2>2
    <3>2. t[i + 1] = f(t[i], i + 1)
      BY <1>6, <3>1
    <3> QED
      BY <1>3, <3>1, <3>2
  <2>3. Nat \subseteq Good
    <3> HIDE DEF Good
    <3> QED
      BY <2>1, <2>2, Induction
  <2> QED
    BY <1>1, <2>3
<1>8. t \in [0..L -> 0..(Word - 1)]
  BY <1>5, <1>7
<1>9. Wraps(t, s, radix)
  BY <1>6 DEF Wraps, L, f
<1> QED
  BY <1>6, <1>8, <1>9 DEF L, t

(* A number without its last digits.                                       *)
Shifts(q, base, w) == \A i \in 1..w : q[i] = q[i - 1] \div base

LEMMA LeadingUnfold ==
  ASSUME NEW n \in Nat, NEW base \in Bases, NEW w \in Nat
  PROVE  /\ Leading(n, base, w) \in [0..w -> 0..n]
         /\ Leading(n, base, w)[0] = n
         /\ Shifts(Leading(n, base, w), base, w)
<1> DEFINE L == w
           t == Leading(n, base, w)
           f(x, i) == x \div base
           E(h) == [i \in 0..L |-> IF i = 0 THEN n ELSE f(h[i - 1], i)]
<1>1. L \in Nat
  OBVIOUS
<1>2. t = CHOOSE h : h = E(h)
  BY DEF Leading
<1>3. n \in 0..n /\ \A i \in 1..L, x \in 0..n : f(x, i) \in 0..n
  BY DEF Bases
<1> HIDE DEF L, t, f
<1>4. PICK g \in [0..L -> 0..n] : g = E(g)
  <2> DEFINE d == [i \in 1..L |-> [x \in 0..n |-> f(x, i)]]
  <2>1. /\ d \in [1..L -> [0..n -> 0..n]]
        /\ \A x \in 0..n, i \in 1..L : d[i][x] = f(x, i)
    BY <1>3
  <2> HIDE DEF d
  <2>2. PICK g \in [0..L -> 0..n] : Unfolds(g, n, d, L)
    BY <1>1, <1>3, <2>1, Recursion
  <2>3. ASSUME NEW i \in 1..L
        PROVE  g[i] = f(g[i - 1], i)
    <3>1. g[i - 1] \in 0..n
      BY <1>1
    <3> QED
      BY <2>1, <2>2, <3>1 DEF Unfolds
  <2>4. g = E(g)
    BY <1>1, <2>2, <2>3 DEF Unfolds
  <2> QED
    BY <2>4
<1>5. t = E(t)
  <2> HIDE DEF E
  <2> QED
    BY <1>2, <1>4
<1>6. t[0] = n /\ \A i \in 1..L : t[i] = f(t[i - 1], i)
  BY <1>1, <1>5
<1>7. \A i \in 0..L : t[i] \in 0..n
  <2> DEFINE Good == {i \in Nat : i <= L => t[i] \in 0..n}
  <2>1. 0 \in Good
    BY <1>3, <1>6
  <2>2. ASSUME NEW i \in Nat, i \in Good
        PROVE  i + 1 \in Good
    <3> SUFFICES ASSUME i + 1 <= L PROVE t[i + 1] \in 0..n
      OBVIOUS
    <3>1. i + 1 \in 1..L /\ (i + 1) - 1 = i /\ t[i] \in 0..n
      BY <1>1, <2>2
    <3>2. t[i + 1] = f(t[i], i + 1)
      BY <1>6, <3>1
    <3> QED
      BY <1>3, <3>1, <3>2
  <2>3. Nat \subseteq Good
    <3> HIDE DEF Good
    <3> QED
      BY <2>1, <2>2, Induction
  <2> QED
    BY <1>1, <2>3
<1>8. t \in [0..L -> 0..n]
  BY <1>5, <1>7
<1>9. Shifts(t, base, w)
  BY <1>6 DEF Shifts, L, f
<1> QED
  BY <1>6, <1>8, <1>9 DEF L, t

-----------------------------------------------------------------------------
(***************************************************************************)
(* Numbers and their digits.                                               *)
(***************************************************************************)

LEMMA RestOfSmall ==
  ASSUME NEW n \in Nat, n < Word
  PROVE  n % Word = n
BY Width

(* The digits of a number that fits make it again, and it is bounded.      *)
Makes(num, q, w) == \A i \in 0..w : num[i] = q[w - i]

LEMMA DigitsMake ==
  ASSUME NEW n \in Nat, n < Word, NEW base \in Bases, NEW w \in Nat,
         Fits(n, base, w), NEW s \in Seq(Int), w <= Len(s),
         \A i \in 1..w : s[i] = Digits(n, base, w)[i]
  PROVE  Makes(Numbers(s, base), Leading(n, base, w), w)
<1> DEFINE num == Numbers(s, base)
           q == Leading(n, base, w)
           Good == {i \in Nat : i <= w => num[i] = q[w - i]}
<1>1. /\ num[0] = 0
      /\ \A i \in 1..Len(s) : num[i] = (num[i - 1] * base + s[i]) % Word
  <2>1. num[0] = 0 /\ Wraps(num, s, base)
    BY NumbersUnfold
  <2> QED
    BY <2>1, Zenon DEF Wraps
<1>2. /\ q \in [0..w -> 0..n] /\ \A k \in 1..w : q[k] = q[k - 1] \div base
      /\ q[w] = 0
  <2>1. q \in [0..w -> 0..n]
    BY LeadingUnfold
  <2>2. Shifts(q, base, w)
    BY LeadingUnfold
  <2>3. \A k \in 1..w : q[k] = q[k - 1] \div base
    BY <2>2, Zenon DEF Shifts
  <2>4. q[w] = 0
    BY DEF Fits
  <2> HIDE DEF q
  <2> QED
    BY <2>1, <2>3, <2>4, Zenon
<1>3. \A i \in 1..w : s[i] = q[w - i] % base
  BY DEF Digits
<1>4. Word \in Nat /\ Word > 0 /\ Len(s) \in Nat
  BY Width, LenProperties
<1> HIDE DEF num, q
<1>5. 0 \in Good
  BY <1>1, <1>2
<1>6. ASSUME NEW i \in Nat, i \in Good
      PROVE  i + 1 \in Good
  <2> SUFFICES ASSUME i + 1 <= w PROVE num[i + 1] = q[w - (i + 1)]
    OBVIOUS
  <2> DEFINE r == q[w - (i + 1)]
  <2>1. w - (i + 1) \in 0..w /\ r \in 0..n
    BY <1>2
  <2>2. w - i \in 1..w /\ (w - i) - 1 = w - (i + 1)
    OBVIOUS
  <2>3. q[w - i] = r \div base
    BY <1>2, <2>2
  <2>4. num[i] = q[w - i]
    BY <1>6
  <2>5. i + 1 \in 1..w /\ i + 1 \in 1..Len(s) /\ (i + 1) - 1 = i
    BY <1>4
  <2>6. s[i + 1] = r % base
    BY <1>3, <2>5
  <2>7. num[i + 1] = ((r \div base) * base + (r % base)) % Word
    BY <1>1, <2>3, <2>4, <2>5, <2>6
  <2> HIDE DEF r
  <2>8. (r \div base) * base + (r % base) = r
    <3>1. CASE base = 8
      BY <2>1, <3>1
    <3>2. CASE base = 256
      BY <2>1, <3>2
    <3> QED
      BY <3>1, <3>2 DEF Bases
  <2>9. r % Word = r
    <3>1. r \in Nat /\ r < Word
      BY <1>4, <2>1
    <3> QED
      BY <3>1, RestOfSmall, Zenon
  <2> QED
    BY <2>7, <2>8, <2>9 DEF r
<1>7. Nat \subseteq Good
  <2> HIDE DEF Good
  <2> QED
    BY <1>5, <1>6, Induction
<1>8. Makes(num, q, w)
  BY <1>7 DEF Makes
<1> QED
  BY <1>8 DEF num, q

(* A number of w octal digits is below the wth power of 8.                 *)
LEMMA FitsBelow ==
  ASSUME NEW n \in Nat, NEW w \in Nat, Fits(n, 8, w), NEW N \in Nat, w <= N
  PROVE  n < Powers(N)[N]
<1> DEFINE p == Powers(N)
           q == Leading(n, 8, w)
           Good == {i \in Nat : i <= w => q[w - i] < p[i]}
           Up == {i \in Nat : w + i <= N => n < p[w + i]}
<1>1. p \in [0..N -> Nat] /\ p[0] = 1 /\ \A k \in 1..N : p[k] = 8 * p[k - 1]
  BY PowersUnfold
<1>2. /\ q \in [0..w -> 0..n] /\ \A k \in 1..w : q[k] = q[k - 1] \div 8
      /\ q[w] = 0 /\ q[0] = n
  <2>1. q \in [0..w -> 0..n]
    BY BasesAre, LeadingUnfold
  <2>2. Shifts(q, 8, w)
    BY BasesAre, LeadingUnfold
  <2>3. \A k \in 1..w : q[k] = q[k - 1] \div 8
    BY <2>2, Zenon DEF Shifts
  <2>4. q[w] = 0
    BY DEF Fits
  <2>5. q[0] = n
    BY BasesAre, LeadingUnfold
  <2> HIDE DEF q
  <2> QED
    BY <2>1, <2>3, <2>4, <2>5, Zenon
<1> HIDE DEF p, q
<1>3. 0 \in Good
  BY <1>1, <1>2
<1>4. ASSUME NEW i \in Nat, i \in Good
      PROVE  i + 1 \in Good
  <2> SUFFICES ASSUME i + 1 <= w PROVE q[w - (i + 1)] < p[i + 1]
    OBVIOUS
  <2>1. /\ w - (i + 1) \in 0..w /\ w - i \in 1..w /\ (w - i) - 1 = w - (i + 1)
        /\ i + 1 \in 1..N /\ (i + 1) - 1 = i /\ i \in 0..N
    OBVIOUS
  <2>2. /\ q[w - i] = q[w - (i + 1)] \div 8 /\ p[i + 1] = 8 * p[i]
        /\ q[w - i] < p[i] /\ q[w - (i + 1)] \in Nat /\ p[i] \in Nat
    BY <1>1, <1>2, <1>4, <2>1
  <2> QED
    BY <2>2
<1>5. Nat \subseteq Good
  <2> HIDE DEF Good
  <2> QED
    BY <1>3, <1>4, Induction
<1>6. n < p[w]
  BY <1>2, <1>5
<1>7. 0 \in Up
  BY <1>6
<1>8. ASSUME NEW i \in Nat, i \in Up
      PROVE  i + 1 \in Up
  <2> SUFFICES ASSUME w + (i + 1) <= N PROVE n < p[w + (i + 1)]
    OBVIOUS
  <2>1. w + (i + 1) \in 1..N /\ (w + (i + 1)) - 1 = w + i /\ w + i \in 0..N
    OBVIOUS
  <2>2. p[w + (i + 1)] = 8 * p[w + i] /\ n < p[w + i] /\ p[w + i] \in Nat
    BY <1>1, <1>8, <2>1
  <2> QED
    BY <2>2
<1>9. Nat \subseteq Up
  <2> HIDE DEF Up
  <2> QED
    BY <1>7, <1>8, Induction
<1>10. N - w \in Up
  BY <1>9
<1> QED
  BY <1>10 DEF p

(* Once nothing is left of a number, nothing is left.                      *)
LEMMA LeadingZeros ==
  ASSUME NEW n \in Nat, NEW w \in Nat
  PROVE  \A j, k \in 0..w : j <= k /\ Leading(n, 8, w)[j] = 0 => Leading(n, 8, w)[k] = 0
<1> SUFFICES ASSUME NEW j \in 0..w, Leading(n, 8, w)[j] = 0
             PROVE  \A k \in 0..w : j <= k => Leading(n, 8, w)[k] = 0
  OBVIOUS
<1> DEFINE q == Leading(n, 8, w)
           Good == {i \in Nat : j + i <= w => q[j + i] = 0}
<1>1. \A k \in 1..w : q[k] = q[k - 1] \div 8
  <2>1. Shifts(q, 8, w)
    BY BasesAre, LeadingUnfold
  <2> QED
    BY <2>1, Zenon DEF Shifts
<1>2. q[j] = 0
  OBVIOUS
<1> HIDE DEF q
<1>3. 0 \in Good
  BY <1>2
<1>4. ASSUME NEW i \in Nat, i \in Good
      PROVE  i + 1 \in Good
  <2> SUFFICES ASSUME j + (i + 1) <= w PROVE q[j + (i + 1)] = 0
    OBVIOUS
  <2>1. j + (i + 1) \in 1..w /\ (j + (i + 1)) - 1 = j + i
    OBVIOUS
  <2>2. q[j + (i + 1)] = q[j + i] \div 8 /\ q[j + i] = 0
    BY <1>1, <1>4, <2>1
  <2> QED
    BY <2>2
<1>5. Nat \subseteq Good
  <2> HIDE DEF Good
  <2> QED
    BY <1>3, <1>4, Induction
<1>6. ASSUME NEW k \in 0..w, j <= k
      PROVE  q[k] = 0
  <2>1. k - j \in Nat /\ j + (k - j) = k
    BY <1>6
  <2> QED
    BY <1>5, <2>1
<1> QED
  BY <1>6 DEF q

(* What wraps in a size_t to the same.                                     *)
Congruent(a, b) == \E t \in Int : a = b + t * Word

LEMMA CongruentToSelf ==
  ASSUME NEW a \in Int
  PROVE  Congruent(a, a)
<1>1. a = a + 0 * Word
  BY Width
<1> QED
  BY <1>1 DEF Congruent

LEMMA CongruentToRest ==
  ASSUME NEW a \in Int
  PROVE  Congruent(a % Word, a) /\ a % Word \in 0..(Word - 1)
<1>1. Word \in Nat /\ Word > 0
  BY Width
<1>2. /\ a = (a \div Word) * Word + (a % Word) /\ a \div Word \in Int
      /\ a % Word \in 0..(Word - 1)
  BY <1>1
<1> DEFINE d == a \div Word
<1>3. -d \in Int
  BY <1>2
<1>4. a % Word = a + (-d) * Word
  BY <1>1, <1>2
<1> QED
  BY <1>2, <1>3, <1>4 DEF Congruent

LEMMA CongruentNext ==
  ASSUME NEW a \in Int, NEW b \in Int, NEW c \in Int, Congruent(a, b)
  PROVE  Congruent((a * 8 + c) % Word, b * 8 + c)
<1>1. PICK t \in Int : a = b + t * Word
  BY DEF Congruent
<1>2. PICK u \in Int : (a * 8 + c) % Word = (a * 8 + c) + u * Word
  BY CongruentToRest DEF Congruent
<1>3. 8 * t + u \in Int /\ (8 * t + u) * Word = 8 * (t * Word) + u * Word
  BY Width
<1>4. t * Word \in Int /\ u * Word \in Int
  BY Width
<1>5. (a * 8 + c) % Word = (b * 8 + c) + (8 * t + u) * Word
  BY <1>1, <1>2, <1>3, <1>4
<1> QED
  BY <1>3, <1>5 DEF Congruent

LEMMA CongruentChain ==
  ASSUME NEW a \in Int, NEW b \in Int, NEW c \in Int, Congruent(a, b), Congruent(a, c)
  PROVE  Congruent(b, c)
<1>1. PICK t \in Int : a = b + t * Word
  BY DEF Congruent
<1>2. PICK u \in Int : a = c + u * Word
  BY DEF Congruent
<1>3. u - t \in Int /\ (u - t) * Word = u * Word - t * Word
  BY Width
<1>4. t * Word \in Int /\ u * Word \in Int
  BY Width
<1>5. b = c + (u - t) * Word
  BY <1>1, <1>2, <1>3, <1>4
<1> QED
  BY <1>3, <1>5 DEF Congruent

LEMMA CongruentSum ==
  ASSUME NEW a \in Int, NEW b \in Int, NEW c \in Int, NEW d \in Int,
         Congruent(a, b + c), Congruent(d, c)
  PROVE  Congruent(a, b + d)
<1>1. PICK t \in Int : a = (b + c) + t * Word
  BY DEF Congruent
<1>2. PICK u \in Int : d = c + u * Word
  BY DEF Congruent
<1>3. t - u \in Int /\ (t - u) * Word = t * Word - u * Word
  BY Width
<1>4. t * Word \in Int /\ u * Word \in Int
  BY Width
<1>5. a = (b + d) + (t - u) * Word
  BY <1>1, <1>2, <1>3, <1>4
<1> QED
  BY <1>3, <1>5 DEF Congruent

(* Numbers less than a size_t's range apart are congruent if equal only.   *)
LEMMA CongruentNear ==
  ASSUME NEW a \in Int, NEW b \in Int, Congruent(a, b), a - b < Word, b - a < Word
  PROVE  a = b
<1>1. PICK t \in Int : a = b + t * Word
  BY DEF Congruent
<1>2. Word \in Nat /\ Word > 0
  BY Width
<1>3. t >= 1 => t * Word >= Word
  BY <1>2
<1>4. t <= -1 => t * Word <= -Word
  BY <1>2
<1>5. t * Word \in Int
  BY <1>2
<1>6. t = 0
  BY <1>1, <1>2, <1>3, <1>4, <1>5
<1> QED
  BY <1>1, <1>2, <1>6

LEMMA CongruentRest ==
  ASSUME NEW a \in 0..(Word - 1), NEW b \in Int, Congruent(a, b)
  PROVE  a = b % Word
<1> DEFINE r == b % Word
<1>1. Word \in Nat /\ a \in Int /\ a >= 0 /\ a < Word
  BY Width
<1>2. Congruent(r, b) /\ r \in 0..(Word - 1)
  BY CongruentToRest
<1> HIDE DEF r
<1>3. r \in Int /\ r >= 0 /\ r < Word
  BY <1>1, <1>2
<1>4. PICK t \in Int : a = b + t * Word
  BY DEF Congruent
<1>5. PICK u \in Int : r = b + u * Word
  BY <1>2 DEF Congruent
<1>6. t - u \in Int /\ (t - u) * Word = t * Word - u * Word
  BY <1>1
<1>7. t * Word \in Int /\ u * Word \in Int
  BY <1>1
<1>8. a = r + (t - u) * Word
  BY <1>4, <1>5, <1>6, <1>7
<1>9. Congruent(a, r) /\ a - r < Word /\ r - a < Word
  BY <1>1, <1>3, <1>6, <1>8 DEF Congruent
<1>10. a = r
  BY <1>1, <1>3, <1>9, CongruentNear
<1> QED
  BY <1>10 DEF r

-----------------------------------------------------------------------------
(***************************************************************************)
(* The two sums.                                                           *)
(***************************************************************************)
LEMMA CharFacts ==
  ASSUME NEW b \in 0..255
  PROVE  /\ Char(b) \in Int /\ Char(b) >= -128 /\ Char(b) <= 127
         /\ b < 128 => Char(b) = b
         /\ b >= 128 => Char(b) = b - 256
BY DEF Char

LEMMA CharOf ==
  /\ \A b \in Byte : Char(b) \in Int /\ Char(b) - 48 \in Int
  /\ \A b \in 48..55 : Char(b) = b
  /\ Char(32) = 32
BY DEF Byte, Char

BytesApart(x, y) ==
  /\ x - y # 0 /\ x - y >= -255 /\ x - y <= 255 /\ x \in Int /\ y \in Int
  /\ Char(x) - Char(y) # 0 /\ Char(x) - Char(y) >= -255 /\ Char(x) - Char(y) <= 255
  /\ Char(x) \in Int /\ Char(y) \in Int

LEMMA CharsApart ==
  ASSUME NEW x \in 0..255, NEW y \in 0..255, x # y
  PROVE  BytesApart(x, y)
BY DEF Char, BytesApart

LEMMA CharsType ==
  ASSUME NEW s \in Seq(Byte)
  PROVE  /\ Chars(s) \in Seq(Int) /\ s \in Seq(Int) /\ Len(Chars(s)) = Len(s)
         /\ \A i \in 1..Len(s) : s[i] \in Byte /\ Chars(s)[i] = Char(s[i])
<1>1. DOMAIN s = 1..Len(s) /\ Len(s) \in Nat
  BY LenProperties
<1>2. \A i \in 1..Len(s) : s[i] \in Byte
  BY ElementOfSeq
<1>3. \A i \in 1..Len(s) : s[i] \in Int /\ Char(s[i]) \in Int
  <2> SUFFICES ASSUME NEW i \in 1..Len(s)
               PROVE  s[i] \in Int /\ Char(s[i]) \in Int
    OBVIOUS
  <2>1. s[i] \in 0..255
    BY <1>2 DEF Byte
  <2>2. Char(s[i]) \in Int
    BY <2>1, CharFacts
  <2> QED
    BY <2>1, <2>2
<1>4. Chars(s) \in [1..Len(s) -> Int] /\ \A i \in 1..Len(s) : Chars(s)[i] = Char(s[i])
  BY <1>1, <1>3 DEF Chars
<1>5. Chars(s) \in Seq(Int)
  BY <1>1, <1>4, IsASeq
<1>6. Len(Chars(s)) = Len(s)
  BY <1>1, <1>4, <1>5, LenProperties
<1>7. s \in Seq(Int)
  <2>1. s = [i \in 1..Len(s) |-> s[i]]
    BY <1>1, LenProperties
  <2>2. s \in [1..Len(s) -> Int]
    BY <1>3, <2>1
  <2> QED
    BY <1>1, <2>2, IsASeq
<1> QED
  BY <1>2, <1>4, <1>5, <1>6, <1>7

Apart(x, y, n) ==
  /\ x \in Int /\ y \in Int /\ x <= 255 * n
  /\ \E k \in Nat : x = y + 256 * k /\ x >= 128 * k

LEMMA SumStep ==
  ASSUME NEW x, NEW y, NEW n \in Nat, Apart(x, y, n), NEW b \in 0..255
  PROVE  Apart(x + b, y + Char(b), n + 1)
<1>1. PICK k \in Nat : x = y + 256 * k /\ x >= 128 * k
  BY DEF Apart
<1>2. x \in Int /\ y \in Int /\ x + b <= 255 * (n + 1)
  BY DEF Apart
<1>3. CASE b < 128
  <2>1. Char(b) = b
    BY <1>3, CharFacts
  <2>2. x + b = (y + b) + 256 * k /\ x + b >= 128 * k
    BY <1>1, <1>2
  <2> QED
    BY <1>2, <2>1, <2>2 DEF Apart
<1>4. CASE b >= 128
  <2>1. Char(b) = b - 256
    BY <1>4, CharFacts
  <2>2. /\ x + b = (y + (b - 256)) + 256 * (k + 1) /\ x + b >= 128 * (k + 1)
        /\ k + 1 \in Nat
    BY <1>1, <1>2, <1>4
  <2> QED
    BY <1>2, <2>1, <2>2 DEF Apart
<1> QED
  BY <1>3, <1>4

(* The sums differ by 256 for each byte beyond 127.                        *)
LEMMA SumsDiffer ==
  ASSUME NEW s \in Seq(Byte)
  PROVE  /\ Total(s) \in Nat /\ Total(s) <= 255 * Len(s) /\ Total(Chars(s)) \in Int
         /\ \E k \in Nat : Total(s) = Total(Chars(s)) + 256 * k /\ Total(s) >= 128 * k
<1> DEFINE u == Sums(s)
           v == Sums(Chars(s))
           Good == {i \in Nat : i <= Len(s) => Apart(u[i], v[i], i)}
<1>1. /\ s \in Seq(Int) /\ Chars(s) \in Seq(Int) /\ Len(Chars(s)) = Len(s)
      /\ Len(s) \in Nat
      /\ \A i \in 1..Len(s) : s[i] \in Byte /\ Chars(s)[i] = Char(s[i])
  BY CharsType, LenProperties
<1>2. u \in [0..Len(s) -> Int] /\ u[0] = 0 /\ \A i \in 1..Len(s) : u[i] = u[i - 1] + s[i]
  BY <1>1, SumsUnfold
<1>3. /\ v \in [0..Len(s) -> Int] /\ v[0] = 0
      /\ \A i \in 1..Len(s) : v[i] = v[i - 1] + Chars(s)[i]
  BY <1>1, SumsUnfold
<1> HIDE DEF u, v
<1>4. 0 \in Good
  <2>1. 0 = 0 + 256 * 0 /\ 0 >= 128 * 0 /\ 0 <= 255 * 0
    OBVIOUS
  <2>2. Apart(0, 0, 0)
    BY <2>1 DEF Apart
  <2> QED
    BY <1>2, <1>3, <2>2
<1>5. ASSUME NEW i \in Nat, i \in Good
      PROVE  i + 1 \in Good
  <2> SUFFICES ASSUME i + 1 <= Len(s) PROVE Apart(u[i + 1], v[i + 1], i + 1)
    OBVIOUS
  <2>1. i + 1 \in 1..Len(s) /\ (i + 1) - 1 = i
    BY <1>1
  <2> DEFINE b == s[i + 1]
  <2>2. u[i + 1] = u[i] + b /\ v[i + 1] = v[i] + Char(b) /\ b \in 0..255
    BY <1>1, <1>2, <1>3, <2>1 DEF Byte
  <2>3. Apart(u[i], v[i], i)
    BY <1>1, <1>5
  <2> HIDE DEF b
  <2>4. Apart(u[i] + b, v[i] + Char(b), i + 1)
    BY <2>2, <2>3, SumStep
  <2> QED
    BY <2>2, <2>4
<1>6. Nat \subseteq Good
  <2> HIDE DEF Good
  <2> QED
    BY <1>4, <1>5, Induction
<1>7. Apart(u[Len(s)], v[Len(s)], Len(s))
  <2>1. Len(s) \in Good
    BY <1>1, <1>6
  <2> QED
    BY <1>1, <2>1
<1>8. Total(s) = u[Len(s)] /\ Total(Chars(s)) = v[Len(s)]
  BY <1>1 DEF Total, u, v
<1>9. Apart(Total(s), Total(Chars(s)), Len(s))
  BY <1>7, <1>8
<1>10. PICK k \in Nat : Total(s) = Total(Chars(s)) + 256 * k /\ Total(s) >= 128 * k
  BY <1>9 DEF Apart
<1> QED
  BY <1>9, <1>10 DEF Apart

(* What one wrong element does to a sum.                                   *)
LEMMA OneChanged ==
  ASSUME NEW s \in Seq(Int), NEW t \in Seq(Int), Len(t) = Len(s), NEW j \in 1..Len(s),
         \A i \in 1..Len(s) : i # j => t[i] = s[i]
  PROVE  Total(t) = Total(s) + (t[j] - s[j])
<1> DEFINE u == Sums(s)
           v == Sums(t)
           d(i) == IF i < j THEN 0 ELSE t[j] - s[j]
           Good == {i \in Nat : i <= Len(s) => v[i] = u[i] + d(i)}
<1>1. /\ Len(s) \in Nat /\ s[j] \in Int /\ t[j] \in Int
      /\ \A i \in 1..Len(s) : s[i] \in Int /\ t[i] \in Int
  BY LenProperties, ElementOfSeq
<1>2. u \in [0..Len(s) -> Int] /\ u[0] = 0 /\ \A i \in 1..Len(s) : u[i] = u[i - 1] + s[i]
  BY SumsUnfold
<1>3. v \in [0..Len(s) -> Int] /\ v[0] = 0 /\ \A i \in 1..Len(s) : v[i] = v[i - 1] + t[i]
  BY SumsUnfold
<1> HIDE DEF u, v
<1>4. 0 \in Good
  BY <1>1, <1>2, <1>3
<1>5. ASSUME NEW i \in Nat, i \in Good
      PROVE  i + 1 \in Good
  <2> SUFFICES ASSUME i + 1 <= Len(s) PROVE v[i + 1] = u[i + 1] + d(i + 1)
    OBVIOUS
  <2>1. i + 1 \in 1..Len(s) /\ (i + 1) - 1 = i /\ i \in 0..Len(s) /\ j \in Nat
    BY <1>1
  <2>2. /\ u[i + 1] = u[i] + s[i + 1] /\ v[i + 1] = v[i] + t[i + 1]
        /\ u[i] \in Int /\ v[i] \in Int /\ s[i + 1] \in Int /\ t[i + 1] \in Int
        /\ v[i] = u[i] + d(i)
    <3> HIDE DEF d
    <3>1. v[i] = u[i] + d(i)
      BY <1>1, <1>5
    <3>2. u[i + 1] = u[i] + s[i + 1] /\ v[i + 1] = v[i] + t[i + 1]
      BY <1>2, <1>3, <2>1
    <3>3. u[i] \in Int /\ v[i] \in Int /\ s[i + 1] \in Int /\ t[i + 1] \in Int
      BY <1>1, <1>2, <1>3, <2>1
    <3> QED
      BY <3>1, <3>2, <3>3
  <2>3. CASE i + 1 = j
    <3> DEFINE a == u[i]
               e == s[i + 1]
               f == t[i + 1]
    <3>1. d(i) = 0 /\ d(i + 1) = f - e
      BY <2>1, <2>3
    <3>2. v[i + 1] = (a + 0) + f /\ u[i + 1] + d(i + 1) = (a + e) + (f - e)
      BY <2>2, <3>1
    <3>3. a \in Int /\ f \in Int /\ e \in Int
      BY <2>2
    <3> HIDE DEF a, e, f
    <3>4. (a + 0) + f = (a + e) + (f - e)
      BY <3>3
    <3> QED
      BY <3>2, <3>4
  <2>4. CASE i + 1 # j
    <3>1. d(i) = d(i + 1)
      BY <2>1, <2>4
    <3>2. t[i + 1] = s[i + 1]
      BY <2>1, <2>4
    <3>3. d(i) \in Int
      BY <1>1
    <3> DEFINE c == d(i)
               a == u[i]
               e == s[i + 1]
    <3>4. v[i + 1] = (a + c) + e /\ u[i + 1] + d(i + 1) = (a + e) + c
      BY <2>2, <3>1, <3>2
    <3>5. a \in Int /\ c \in Int /\ e \in Int
      BY <2>2, <3>3
    <3> HIDE DEF a, c, e
    <3>6. (a + c) + e = (a + e) + c
      BY <3>5
    <3> QED
      BY <3>4, <3>6
  <2> QED
    BY <2>3, <2>4
<1>6. Nat \subseteq Good
  <2> HIDE DEF Good
  <2> QED
    BY <1>4, <1>5, Induction
<1>7. v[Len(s)] = u[Len(s)] + d(Len(s)) /\ d(Len(s)) = t[j] - s[j]
  BY <1>1, <1>6
<1> QED
  BY <1>7 DEF Total, u, v

(* A wrong byte changes either sum, by less than 256.                      *)
LEMMA WrongByte ==
  ASSUME NEW s \in Seq(Byte), NEW t \in Seq(Byte), Len(t) = Len(s), NEW j \in 1..Len(s),
         \A i \in 1..Len(s) : i # j => t[i] = s[i], t[j] # s[j]
  PROVE  /\ Total(t) # Total(s)
         /\ Total(t) - Total(s) >= -255 /\ Total(t) - Total(s) <= 255
         /\ Total(Chars(t)) # Total(Chars(s))
         /\ Total(Chars(t)) - Total(Chars(s)) >= -255 /\ Total(Chars(t)) - Total(Chars(s)) <= 255
<1>1. /\ s \in Seq(Int) /\ Chars(s) \in Seq(Int) /\ Len(Chars(s)) = Len(s)
      /\ \A i \in 1..Len(s) : s[i] \in Byte /\ Chars(s)[i] = Char(s[i])
  BY CharsType
<1>2. /\ t \in Seq(Int) /\ Chars(t) \in Seq(Int) /\ Len(Chars(t)) = Len(s)
      /\ \A i \in 1..Len(s) : t[i] \in Byte /\ Chars(t)[i] = Char(t[i])
  BY CharsType
<1>3. Total(t) = Total(s) + (t[j] - s[j])
  BY <1>1, <1>2, OneChanged
<1>4. Total(Chars(t)) = Total(Chars(s)) + (Chars(t)[j] - Chars(s)[j])
  <2>1. \A i \in 1..Len(Chars(s)) : i # j => Chars(t)[i] = Chars(s)[i]
    BY <1>1, <1>2
  <2>2. Len(Chars(t)) = Len(Chars(s)) /\ j \in 1..Len(Chars(s))
    BY <1>1, <1>2
  <2> QED
    BY <1>1, <1>2, <2>1, <2>2, OneChanged
<1>5. Total(s) \in Int /\ Total(Chars(s)) \in Int
  BY SumsDiffer
<1>6. t[j] \in 0..255 /\ s[j] \in 0..255
  BY <1>1, <1>2 DEF Byte
<1>7. /\ Total(Chars(t)) = Total(Chars(s)) + (Char(t[j]) - Char(s[j]))
      /\ Total(t) = Total(s) + (t[j] - s[j])
  BY <1>1, <1>2, <1>3, <1>4
<1>8. BytesApart(t[j], s[j])
  BY <1>6, CharsApart
<1> DEFINE x == t[j]
           y == s[j]
           cx == Char(t[j])
           cy == Char(s[j])
           ts == Total(s)
           tcs == Total(Chars(s))
<1>9. /\ x - y # 0 /\ x - y >= -255 /\ x - y <= 255 /\ x \in Int /\ y \in Int
      /\ cx - cy # 0 /\ cx - cy >= -255 /\ cx - cy <= 255 /\ cx \in Int /\ cy \in Int
  BY <1>8 DEF BytesApart
<1>10. Total(Chars(t)) = tcs + (cx - cy) /\ Total(t) = ts + (x - y) /\ ts \in Int /\ tcs \in Int
  BY <1>5, <1>7
<1> HIDE DEF x, y, cx, cy, ts, tcs
<1>11. /\ ts + (x - y) # ts /\ (ts + (x - y)) - ts >= -255 /\ (ts + (x - y)) - ts <= 255
       /\ tcs + (cx - cy) # tcs
       /\ (tcs + (cx - cy)) - tcs >= -255 /\ (tcs + (cx - cy)) - tcs <= 255
  BY <1>9, <1>10
<1> QED
  BY <1>10, <1>11 DEF ts, tcs

-----------------------------------------------------------------------------
(***************************************************************************)
(* What the archiver puts where.                                           *)
(***************************************************************************)
LEMMA SeqOf ==
  ASSUME NEW S, NEW w \in Nat, NEW f \in [1..w -> S]
  PROVE  f \in Seq(S) /\ Len(f) = w
<1>1. f \in Seq(S)
  BY IsASeq
<1>2. DOMAIN f = 1..w /\ DOMAIN f = 1..Len(f) /\ Len(f) \in Nat
  BY <1>1, LenProperties
<1> QED
  BY <1>1, <1>2

(* s, and behind it t.                                                     *)
Joined(u, s, t) ==
  /\ Len(u) = Len(s) + Len(t)
  /\ \A i \in 1..Len(s) : u[i] = s[i]
  /\ \A i \in 1..Len(t) : u[Len(s) + i] = t[i]

LEMMA JoinedSeq ==
  ASSUME NEW S, NEW s \in Seq(S), NEW t \in Seq(S)
  PROVE  s \o t \in Seq(S) /\ Joined(s \o t, s, t)
<1>1. /\ s \o t \in Seq(S) /\ Len(s \o t) = Len(s) + Len(t)
      /\ \A i \in 1..(Len(s) + Len(t)) :
           (s \o t)[i] = IF i <= Len(s) THEN s[i] ELSE t[i - Len(s)]
  BY ConcatProperties
<1>2. Len(s) \in Nat /\ Len(t) \in Nat
  BY LenProperties
<1>3. ASSUME NEW i \in 1..Len(s)
      PROVE  (s \o t)[i] = s[i]
  BY <1>1, <1>2
<1>4. ASSUME NEW i \in 1..Len(t)
      PROVE  (s \o t)[Len(s) + i] = t[i]
  <2>1. /\ Len(s) + i \in 1..(Len(s) + Len(t)) /\ ~(Len(s) + i <= Len(s))
        /\ (Len(s) + i) - Len(s) = i
    BY <1>2
  <2> QED
    BY <1>1, <2>1
<1> QED
  BY <1>1, <1>3, <1>4 DEF Joined

(* h begins with u; and has t behind its place n.                          *)
Begins(h, u) == \A i \in 1..Len(u) : h[i] = u[i]
Holds(h, n, t) == \A i \in 1..Len(t) : h[n + i] = t[i]

LEMMA Inside ==
  ASSUME NEW S, NEW s \in Seq(S), NEW t \in Seq(S), NEW u, NEW h,
         Joined(u, s, t), Begins(h, u)
  PROVE  Begins(h, s) /\ Holds(h, Len(s), t)
<1>1. Len(s) \in Nat /\ Len(t) \in Nat /\ Len(u) = Len(s) + Len(t)
  BY LenProperties DEF Joined
<1>2. ASSUME NEW i \in 1..Len(s)
      PROVE  h[i] = s[i]
  <2>1. i \in 1..Len(u)
    BY <1>1
  <2> QED
    BY <2>1 DEF Joined, Begins
<1>3. ASSUME NEW i \in 1..Len(t)
      PROVE  h[Len(s) + i] = t[i]
  <2>1. Len(s) + i \in 1..Len(u)
    BY <1>1
  <2> QED
    BY <2>1 DEF Joined, Begins
<1> QED
  BY <1>2, <1>3 DEF Begins, Holds

LEMMA DigitsType ==
  ASSUME NEW n \in Nat, NEW base \in Bases, NEW w \in Nat
  PROVE  /\ Digits(n, base, w) \in Seq(Byte) /\ Len(Digits(n, base, w)) = w
         /\ base = 8 => \A i \in 1..w : Digits(n, base, w)[i] \in 0..7
<1> DEFINE D == Digits(n, base, w)
           q == Leading(n, base, w)
<1>1. q \in [0..w -> 0..n]
  BY BasesAre, LeadingUnfold
<1>2. \A i \in 1..w : D[i] = q[w - i] % base
  BY DEF Digits
<1>3. D = [i \in 1..w |-> q[w - i] % base]
  BY DEF Digits
<1> HIDE DEF D, q
<1>4. \A i \in 1..w : q[w - i] \in Nat
  <2> SUFFICES ASSUME NEW i \in 1..w PROVE q[w - i] \in Nat
    OBVIOUS
  <2>1. w - i \in 0..w
    OBVIOUS
  <2>2. q[w - i] \in 0..n
    BY <1>1, <2>1
  <2> QED
    BY <2>2
<1>5. ASSUME NEW i \in 1..w
      PROVE  (base = 8 => D[i] \in 0..7) /\ D[i] \in Byte
  <2> DEFINE x == q[w - i]
  <2>1. x \in Nat /\ D[i] = x % base
    BY <1>2, <1>4
  <2> HIDE DEF x
  <2>2. CASE base = 8
    <3>1. D[i] \in 0..7
      BY <2>1, <2>2
    <3>2. 0..7 \subseteq Byte
      BY DEF Byte
    <3> QED
      BY <3>1, <3>2
  <2>3. CASE base = 256
    <3>1. D[i] \in 0..255 /\ base # 8
      BY <2>1, <2>3
    <3> QED
      BY <3>1 DEF Byte
  <2> QED
    BY <2>2, <2>3 DEF Bases
<1>6. D \in [1..w -> Byte]
  <2>1. ASSUME NEW i \in 1..w PROVE D[i] \in Byte
    BY <1>5
  <2>2. \A i \in 1..w : q[w - i] % base \in Byte
    BY <1>2, <2>1
  <2> QED
    BY <1>3, <2>2
<1>7. D \in Seq(Byte) /\ Len(D) = w
  BY <1>6, SeqOf
<1> QED
  BY <1>5, <1>7 DEF D

LEMMA OctalType ==
  ASSUME NEW n \in Nat, NEW w \in Nat
  PROVE  /\ Octal(n, w) \in Seq(Byte) /\ Len(Octal(n, w)) = w
         /\ \A i \in 1..w : /\ Octal(n, w)[i] \in 48..55
                            /\ Octal(n, w)[i] - 48 = Digits(n, 8, w)[i]
<1> DEFINE D == Digits(n, 8, w)
           O == Octal(n, w)
<1>1. \A i \in 1..w : D[i] \in 0..7
  <2>1. 8 \in Bases
    BY BasesAre
  <2> QED
    BY <2>1, DigitsType
<1>2. O = [i \in 1..w |-> 48 + D[i]]
  BY DEF Octal
<1> HIDE DEF D, O
<1>3. \A i \in 1..w : O[i] = 48 + D[i] /\ O[i] \in 48..55
  BY <1>1, <1>2
<1>4. \A i \in 1..w : O[i] - 48 = D[i]
  BY <1>1, <1>3
<1>5. O \in [1..w -> Byte]
  BY <1>2, <1>3 DEF Byte
<1>6. O \in Seq(Byte) /\ Len(O) = w
  BY <1>5, SeqOf
<1> QED
  BY <1>3, <1>4, <1>6 DEF D, O

LEMMA PaddedType ==
  ASSUME NEW n \in Nat, NEW w \in Nat
  PROVE  /\ Padded(n, w) \in Seq(Byte) /\ Len(Padded(n, w)) = w
         /\ \A i \in 1..w :
              Padded(n, w)[i] = IF i < w /\ Leading(n, 8, w)[w - i] = 0
                                THEN 32 ELSE Octal(n, w)[i]
<1> DEFINE P == Padded(n, w)
           O == Octal(n, w)
           blank(i) == i < w /\ Leading(n, 8, w)[w - i] = 0
<1>1. P = [i \in 1..w |-> IF blank(i) THEN 32 ELSE O[i]]
  BY DEF Padded
<1>2. \A i \in 1..w : O[i] \in 48..55
  BY OctalType
<1> HIDE DEF P, O, blank
<1>3. P \in [1..w -> Byte] /\ \A i \in 1..w : P[i] = IF blank(i) THEN 32 ELSE O[i]
  <2>1. \A i \in 1..w : (IF blank(i) THEN 32 ELSE O[i]) \in Byte
    BY <1>2 DEF Byte
  <2> QED
    BY <1>1, <2>1
<1>4. P \in Seq(Byte) /\ Len(P) = w
  BY <1>3, SeqOf
<1> QED
  BY <1>3, <1>4 DEF P, O, blank

LEMMA FieldType ==
  ASSUME NEW text \in Seq(Byte), NEW w \in Nat
  PROVE  /\ Field(text, w) \in Seq(Byte) /\ Len(Field(text, w)) = w
         /\ \A i \in 1..w : Field(text, w)[i] = IF i <= Len(text) THEN text[i] ELSE 0
<1> DEFINE F == Field(text, w)
<1>1. \A i \in 1..w : i <= Len(text) => text[i] \in Byte
  BY LenProperties, ElementOfSeq
<1>2. /\ F \in [1..w -> Byte]
      /\ \A i \in 1..w : F[i] = IF i <= Len(text) THEN text[i] ELSE 0
  BY <1>1 DEF Field, Byte
<1> HIDE DEF F
<1>3. F \in Seq(Byte) /\ Len(F) = w
  BY <1>2, SeqOf
<1> QED
  BY <1>2, <1>3 DEF F

LEMMA TextFacts ==
  ASSUME NEW t \in Texts
  PROVE  /\ t \in Seq(Byte) /\ Len(t) \in Nat
         /\ \A i \in 1..Len(t) : t[i] \in Byte /\ t[i] # 0
<1>1. t \in Seq(Byte \ {0}) /\ Len(t) \in Nat
  BY LenProperties DEF Texts
<1>2. \A i \in 1..Len(t) : t[i] \in Byte \ {0}
  BY <1>1, ElementOfSeq
<1>3. t = [i \in 1..Len(t) |-> t[i]]
  BY <1>1, LenProperties
<1>4. t \in [1..Len(t) -> Byte]
  BY <1>2, <1>3
<1>5. t \in Seq(Byte)
  BY <1>1, <1>4, IsASeq
<1> QED
  BY <1>1, <1>2, <1>5

(* The size as each style has it.                                          *)
LEMMA SizeFieldType ==
  ASSUME NEW m \in Members
  PROVE  /\ SizeField(m) \in Seq(Byte) /\ Len(SizeField(m)) = SizeLen
         /\ m.sizeStyle = "nul" =>
              Joined(SizeField(m), Octal(m.size, SizeLen - 1), <<0>>)
         /\ m.sizeStyle = "blank" =>
              Joined(SizeField(m), Octal(m.size, SizeLen - 1), <<32>>)
         /\ m.sizeStyle = "full" => SizeField(m) = Octal(m.size, SizeLen)
         /\ m.sizeStyle = "padded" =>
              Joined(SizeField(m), Padded(m.size, SizeLen - 1), <<0>>)
         /\ m.sizeStyle = "base256" =>
              Joined(SizeField(m), <<128>>, Digits(m.size, 256, SizeLen - 1))
         /\ m.sizeStyle = "minus" => SizeField(m) = [i \in 1..SizeLen |-> 255]
<1>1. m.size \in Nat /\ m.sizeStyle \in SizeStyles
  BY MembersAssumption
<1>2. SizeLen \in Nat /\ SizeLen - 1 \in Nat
  BY Places
<1>3. /\ <<0>> \in Seq(Byte) /\ <<32>> \in Seq(Byte) /\ <<128>> \in Seq(Byte)
      /\ Len(<<0>>) = 1 /\ Len(<<32>>) = 1 /\ Len(<<128>>) = 1
  BY DEF Byte
<1> DEFINE n == m.size
           w == SizeLen - 1
<1>4. Octal(n, w) \in Seq(Byte) /\ Len(Octal(n, w)) = w
  BY <1>1, <1>2, OctalType
<1>5. Padded(n, w) \in Seq(Byte) /\ Len(Padded(n, w)) = w
  BY <1>1, <1>2, PaddedType
<1>6. CASE m.sizeStyle = "nul"
  <2> DEFINE f == SizeField(m)
             a == Octal(n, w)
             z == <<0>>
  <2>1. /\ f = a \o z /\ a \in Seq(Byte) /\ Len(a) = w
        /\ z \in Seq(Byte) /\ Len(z) = 1
    BY <1>3, <1>4, <1>6 DEF SizeField
  <2> HIDE DEF f, a, z
  <2>2. f \in Seq(Byte) /\ Joined(f, a, z)
    BY <2>1, JoinedSeq
  <2>3. Len(f) = SizeLen
    BY <1>2, <2>1, <2>2 DEF Joined
  <2> QED
    BY <1>6, <2>2, <2>3 DEF f, a, z
<1>7. CASE m.sizeStyle = "blank"
  <2> DEFINE f == SizeField(m)
             a == Octal(n, w)
             z == <<32>>
  <2>1. /\ f = a \o z /\ a \in Seq(Byte) /\ Len(a) = w
        /\ z \in Seq(Byte) /\ Len(z) = 1
    BY <1>3, <1>4, <1>7 DEF SizeField
  <2> HIDE DEF f, a, z
  <2>2. f \in Seq(Byte) /\ Joined(f, a, z)
    BY <2>1, JoinedSeq
  <2>3. Len(f) = SizeLen
    BY <1>2, <2>1, <2>2 DEF Joined
  <2> QED
    BY <1>7, <2>2, <2>3 DEF f, a, z
<1>8. CASE m.sizeStyle = "full"
  <2>1. SizeField(m) = Octal(n, SizeLen)
    BY <1>8 DEF SizeField
  <2>2. Octal(n, SizeLen) \in Seq(Byte) /\ Len(Octal(n, SizeLen)) = SizeLen
    BY <1>1, <1>2, OctalType
  <2> QED
    BY <1>8, <2>1, <2>2
<1>9. CASE m.sizeStyle = "padded"
  <2> DEFINE f == SizeField(m)
             a == Padded(n, w)
             z == <<0>>
  <2>1. /\ f = a \o z /\ a \in Seq(Byte) /\ Len(a) = w
        /\ z \in Seq(Byte) /\ Len(z) = 1
    BY <1>3, <1>5, <1>9 DEF SizeField
  <2> HIDE DEF f, a, z
  <2>2. f \in Seq(Byte) /\ Joined(f, a, z)
    BY <2>1, JoinedSeq
  <2>3. Len(f) = SizeLen
    BY <1>2, <2>1, <2>2 DEF Joined
  <2> QED
    BY <1>9, <2>2, <2>3 DEF f, a, z
<1>10. CASE m.sizeStyle = "base256"
  <2> DEFINE D == Digits(n, 256, w)
             M == <<128>>
  <2>1. SizeField(m) = M \o D /\ M \in Seq(Byte) /\ Len(M) = 1
    BY <1>3, <1>10 DEF SizeField
  <2>2. n \in Nat /\ w \in Nat /\ w + 1 = SizeLen
    BY <1>1, <1>2
  <2>3. 256 \in Bases
    BY BasesAre
  <2> HIDE DEF n, w
  <2>4. D \in Seq(Byte) /\ Len(D) = w
    BY <2>2, <2>3, DigitsType
  <2> HIDE DEF D, M
  <2>5. SizeField(m) \in Seq(Byte) /\ Joined(SizeField(m), M, D)
    BY <2>1, <2>4, JoinedSeq
  <2>6. Len(SizeField(m)) = SizeLen
    BY <2>1, <2>2, <2>4, <2>5 DEF Joined
  <2> QED
    BY <1>10, <2>5, <2>6 DEF D, M, n, w
<1>11. CASE m.sizeStyle = "minus"
  <2>1. SizeField(m) = [i \in 1..SizeLen |-> 255]
    BY <1>11 DEF SizeField
  <2> DEFINE f == [i \in 1..SizeLen |-> 255]
  <2>2. f \in [1..SizeLen -> Byte]
    BY DEF Byte
  <2> HIDE DEF f
  <2>3. f \in Seq(Byte) /\ Len(f) = SizeLen
    BY <1>2, <2>2, SeqOf
  <2>4. SizeField(m) \in Seq(Byte) /\ Len(SizeField(m)) = SizeLen
    BY <2>1, <2>3 DEF f
  <2> QED
    BY <1>11, <2>1, <2>4
<1> QED
  BY <1>1, <1>6, <1>7, <1>8, <1>9, <1>10, <1>11 DEF SizeStyles

(* The checksum as each style has it.                                      *)
LEMMA SumFieldType ==
  ASSUME NEW m \in Members, NEW n \in Nat
  PROVE  /\ SumField(m, n) \in Seq(Byte) /\ Len(SumField(m, n)) = SumLen
         /\ m.sumStyle = "nul" =>
              Joined(SumField(m, n), Octal(n, SumLen - 2), <<0, 32>>)
         /\ m.sumStyle = "blank" =>
              Joined(SumField(m, n), Octal(n, SumLen - 2), <<32, 0>>)
         /\ m.sumStyle = "padded" =>
              Joined(SumField(m, n), Padded(n, SumLen - 2), <<0, 32>>)
<1>1. m.sumStyle \in SumStyles
  BY MembersAssumption
<1>2. SumLen \in Nat /\ SumLen - 2 \in Nat
  BY Places
<1>3. /\ <<0, 32>> \in Seq(Byte) /\ <<32, 0>> \in Seq(Byte)
      /\ Len(<<0, 32>>) = 2 /\ Len(<<32, 0>>) = 2
  BY DEF Byte
<1> DEFINE w == SumLen - 2
<1>4. Octal(n, w) \in Seq(Byte) /\ Len(Octal(n, w)) = w
  BY <1>2, OctalType
<1>5. Padded(n, w) \in Seq(Byte) /\ Len(Padded(n, w)) = w
  BY <1>2, PaddedType
<1>6. CASE m.sumStyle = "nul"
  <2> DEFINE f == SumField(m, n)
             a == Octal(n, w)
             z == <<0, 32>>
  <2>1. /\ f = a \o z /\ a \in Seq(Byte) /\ Len(a) = w
        /\ z \in Seq(Byte) /\ Len(z) = 2
    BY <1>3, <1>4, <1>6 DEF SumField
  <2> HIDE DEF f, a, z
  <2>2. f \in Seq(Byte) /\ Joined(f, a, z)
    BY <2>1, JoinedSeq
  <2>3. Len(f) = SumLen
    BY <1>2, <2>1, <2>2 DEF Joined
  <2> QED
    BY <1>6, <2>2, <2>3 DEF f, a, z
<1>7. CASE m.sumStyle = "blank"
  <2> DEFINE f == SumField(m, n)
             a == Octal(n, w)
             z == <<32, 0>>
  <2>1. /\ f = a \o z /\ a \in Seq(Byte) /\ Len(a) = w
        /\ z \in Seq(Byte) /\ Len(z) = 2
    BY <1>3, <1>4, <1>7 DEF SumField
  <2> HIDE DEF f, a, z
  <2>2. f \in Seq(Byte) /\ Joined(f, a, z)
    BY <2>1, JoinedSeq
  <2>3. Len(f) = SumLen
    BY <1>2, <2>1, <2>2 DEF Joined
  <2> QED
    BY <1>7, <2>2, <2>3 DEF f, a, z
<1>8. CASE m.sumStyle = "padded"
  <2> DEFINE f == SumField(m, n)
             a == Padded(n, w)
             z == <<0, 32>>
  <2>1. /\ f = a \o z /\ a \in Seq(Byte) /\ Len(a) = w
        /\ z \in Seq(Byte) /\ Len(z) = 2
    BY <1>3, <1>5, <1>8 DEF SumField
  <2> HIDE DEF f, a, z
  <2>2. f \in Seq(Byte) /\ Joined(f, a, z)
    BY <2>1, JoinedSeq
  <2>3. Len(f) = SumLen
    BY <1>2, <2>1, <2>2 DEF Joined
  <2> QED
    BY <1>8, <2>2, <2>3 DEF f, a, z
<1>9. CASE m.sumStyle = "full"
  <2>1. SumField(m, n) = Octal(n, SumLen)
    BY <1>9 DEF SumField
  <2>2. Octal(n, SumLen) \in Seq(Byte) /\ Len(Octal(n, SumLen)) = SumLen
    BY <1>2, OctalType
  <2> QED
    BY <1>9, <2>1, <2>2
<1> QED
  BY <1>1, <1>6, <1>7, <1>8, <1>9 DEF SumStyles

(* A header's bytes, field by field.                                       *)
Layout(h, m, sum) ==
  /\ h \in Seq(Byte) /\ Len(h) = Last1
  /\ \A i \in 1..NameLen : h[i] = Field(m.name, NameLen)[i]
  /\ h[NameLen + 1] = 54 /\ h[NameLen + 2] = 0
  /\ \A i \in 1..SizeLen : h[NameLen + 2 + i] = SizeField(m)[i]
  /\ \A i \in 1..MtimeLen : h[NameLen + SizeLen + 2 + i] = m.mtime[i]
  /\ \A i \in 1..SumLen : h[NameLen + SizeLen + MtimeLen + 2 + i] = sum[i]
  /\ h[SumAt + SumLen] = 48
  /\ \A i \in 1..PrefixLen :
       h[NameLen + SizeLen + MtimeLen + SumLen + 3 + i] = Field(m.prefix \o m.times, PrefixLen)[i]
  /\ h[Last1] = 0

LEMMA WithLayout ==
  ASSUME NEW m \in Members, NEW sum \in Seq(Byte), Len(sum) = SumLen
  PROVE  Layout(With(m, sum), m, sum)
<1> DEFINE f1 == Field(m.name, NameLen)
           f2 == SizeField(m)
           f4 == m.mtime
           f3 == Field(m.prefix \o m.times, PrefixLen)
           p1 == f1 \o <<54, 0>>
           p2 == p1 \o f2
           p3 == p2 \o f4
           p4 == p3 \o sum
           p5 == p4 \o <<48>>
           p6 == p5 \o f3
           h == p6 \o <<0>>
<1>1. h = With(m, sum)
  BY DEF With
<1>2. /\ <<54, 0>> \in Seq(Byte) /\ f4 \in Seq(Byte) /\ Len(f4) = MtimeLen
      /\ <<48>> \in Seq(Byte) /\ <<0>> \in Seq(Byte)
  <2>1. m.mtime \in [1..MtimeLen -> Byte] /\ MtimeLen \in Nat
    BY MembersAssumption, Places
  <2>2. m.mtime \in Seq(Byte) /\ Len(m.mtime) = MtimeLen
    BY <2>1, SeqOf
  <2> QED
    BY <2>2 DEF Byte
<1>3. f1 \in Seq(Byte) /\ Len(f1) = NameLen
  <2>1. m.name \in Seq(Byte)
    BY MembersAssumption, TextFacts
  <2> QED
    BY <2>1, Places, FieldType
<1>4. f2 \in Seq(Byte) /\ Len(f2) = SizeLen
  BY SizeFieldType
<1>5. f3 \in Seq(Byte) /\ Len(f3) = PrefixLen
  <2>1. m.prefix \in Seq(Byte) /\ m.times \in Seq(Byte)
    BY MembersAssumption, TextFacts
  <2>2. m.prefix \o m.times \in Seq(Byte)
    BY <2>1, ConcatProperties
  <2> QED
    BY <2>2, Places, FieldType
<1> HIDE DEF f1, f2, f3, f4
<1>6. p1 \in Seq(Byte) /\ Joined(p1, f1, <<54, 0>>)
  BY <1>2, <1>3, JoinedSeq
<1> HIDE DEF p1
<1>7. p2 \in Seq(Byte) /\ Joined(p2, p1, f2)
  BY <1>4, <1>6, JoinedSeq
<1> HIDE DEF p2
<1>8. p3 \in Seq(Byte) /\ Joined(p3, p2, f4)
  BY <1>2, <1>7, JoinedSeq
<1> HIDE DEF p3
<1>9. p4 \in Seq(Byte) /\ Joined(p4, p3, sum)
  BY <1>8, JoinedSeq
<1> HIDE DEF p4
<1>10. p5 \in Seq(Byte) /\ Joined(p5, p4, <<48>>)
  BY <1>2, <1>9, JoinedSeq
<1> HIDE DEF p5
<1>11. p6 \in Seq(Byte) /\ Joined(p6, p5, f3)
  BY <1>5, <1>10, JoinedSeq
<1> HIDE DEF p6
<1>12. h \in Seq(Byte) /\ Joined(h, p6, <<0>>)
  BY <1>2, <1>11, JoinedSeq
<1> HIDE DEF h
<1>13. /\ Len(<<54, 0>>) = 2 /\ <<54, 0>>[1] = 54 /\ <<54, 0>>[2] = 0
       /\ Len(<<48>>) = 1 /\ <<48>>[1] = 48 /\ Len(<<0>>) = 1 /\ <<0>>[1] = 0
  OBVIOUS
<1>14. Len(p1) = NameLen + 2
  BY <1>3, <1>6, <1>13 DEF Joined
<1>15. Len(p2) = NameLen + SizeLen + 2
  BY <1>4, <1>7, <1>14, Places DEF Joined
<1>16. Len(p3) = NameLen + SizeLen + MtimeLen + 2
  BY <1>2, <1>8, <1>15, Places DEF Joined
<1>17. Len(p4) = NameLen + SizeLen + MtimeLen + SumLen + 2
  BY <1>9, <1>16, Places DEF Joined
<1>18. Len(p5) = NameLen + SizeLen + MtimeLen + SumLen + 3
  BY <1>10, <1>13, <1>17, Places DEF Joined
<1>19. Len(p6) = NameLen + SizeLen + MtimeLen + SumLen + PrefixLen + 3
  BY <1>5, <1>11, <1>18, Places DEF Joined
<1>20. Len(h) = Last1
  BY <1>12, <1>13, <1>19, Places DEF Joined
<1>21. Begins(h, p6)
  BY <1>12 DEF Joined, Begins
<1>22. Begins(h, p5) /\ Holds(h, Len(p5), f3)
  BY <1>5, <1>10, <1>11, <1>21, Inside
<1>23. Begins(h, p4) /\ Holds(h, Len(p4), <<48>>)
  BY <1>2, <1>9, <1>10, <1>22, Inside
<1>24. Begins(h, p3) /\ Holds(h, Len(p3), sum)
  BY <1>8, <1>9, <1>23, Inside
<1>25. Begins(h, p2) /\ Holds(h, Len(p2), f4)
  BY <1>2, <1>7, <1>8, <1>24, Inside
<1>26. Begins(h, p1) /\ Holds(h, Len(p1), f2)
  BY <1>4, <1>6, <1>7, <1>25, Inside
<1>27. Begins(h, f1) /\ Holds(h, Len(f1), <<54, 0>>)
  BY <1>2, <1>3, <1>6, <1>26, Inside
<1>28. \A i \in 1..NameLen : h[i] = f1[i]
  BY <1>3, <1>27 DEF Begins
<1>29. h[NameLen + 1] = 54 /\ h[NameLen + 2] = 0
  <2>1. \A i \in 1..2 : h[NameLen + i] = <<54, 0>>[i]
    BY <1>3, <1>13, <1>27 DEF Holds
  <2> QED
    BY <1>13, <2>1
<1>30. \A i \in 1..SizeLen : h[NameLen + 2 + i] = f2[i]
  BY <1>4, <1>14, <1>26 DEF Holds
<1>31. \A i \in 1..MtimeLen : h[NameLen + SizeLen + 2 + i] = f4[i]
  <2>1. Len(f4) = MtimeLen
    BY <1>2
  <2> QED
    BY <1>15, <1>25, <2>1 DEF Holds
<1>32. \A i \in 1..SumLen : h[NameLen + SizeLen + MtimeLen + 2 + i] = sum[i]
  BY <1>16, <1>24 DEF Holds
<1>33. h[SumAt + SumLen] = 48
  <2>1. h[Len(p4) + 1] = 48
    BY <1>13, <1>23 DEF Holds
  <2>2. SumAt + SumLen = Len(p4) + 1
    BY <1>17, Places
  <2> QED
    BY <2>1, <2>2
<1>34. \A i \in 1..PrefixLen : h[NameLen + SizeLen + MtimeLen + SumLen + 3 + i] = f3[i]
  BY <1>5, <1>18, <1>22 DEF Holds
<1>35. h[Last1] = 0
  BY <1>12, <1>13, <1>19, Places DEF Joined
<1>36. Layout(h, m, sum)
  BY <1>12, <1>20, <1>28, <1>29, <1>30, <1>31, <1>32, <1>33, <1>34, <1>35
     DEF Layout, f1, f2, f3, f4
<1> QED
  BY <1>1, <1>36

-----------------------------------------------------------------------------
(***************************************************************************)
(* What the code makes of strings.                                         *)
(***************************************************************************)

(* The string that begins at i ends before n.                              *)
EndAt(s, i, n) ==
  /\ n \in i..(Len(s) + 1)
  /\ n <= Len(s) => s[n] = 0
  /\ \A k \in i..(n - 1) : s[k] # 0

StringFrom(c, s, i, n) ==
  /\ c \in Texts /\ c \in Seq(Byte) /\ Len(c) = n - i
  /\ \A j \in 1..(n - i) : c[j] = s[(i - 1) + j]

LEMMA StringEnds ==
  ASSUME NEW s \in Seq(Byte), NEW i \in 1..(Len(s) + 1)
  PROVE  \E n \in i..(Len(s) + 1) : EndAt(s, i, n)
<1> DEFINE T == {n \in i..(Len(s) + 1) : n <= Len(s) => s[n] = 0}
<1>1. Len(s) \in Nat
  BY LenProperties
<1>2. T \subseteq Nat /\ Len(s) + 1 \in T
  BY <1>1
<1>3. PICK n \in T : \A y \in T : ~(y < n)
  <2> HIDE DEF T
  <2> QED
    BY <1>2, LeastNumber
<1>4. ASSUME NEW k \in i..(n - 1)
      PROVE  s[k] # 0
  <2>1. k \in i..(Len(s) + 1) /\ k < n
    BY <1>1, <1>3
  <2>2. k \notin T
    BY <1>3, <2>1
  <2> QED
    BY <2>1, <2>2
<1> QED
  BY <1>3, <1>4 DEF EndAt

LEMMA StringIs ==
  ASSUME NEW s \in Seq(Byte), NEW i \in 1..(Len(s) + 1), NEW n \in Nat, EndAt(s, i, n)
  PROVE  StringFrom(CString(s, i), s, i, n)
<1> DEFINE c == SubSeq(s, i, n - 1)
<1>1. Len(s) \in Nat /\ n \in i..(Len(s) + 1)
  BY LenProperties DEF EndAt
<1>2. ASSUME NEW m \in i..(Len(s) + 1), EndAt(s, i, m)
      PROVE  m = n
  <2>1. CASE m < n
    BY <1>1, <1>2, <2>1 DEF EndAt
  <2>2. CASE n < m
    BY <1>1, <1>2, <2>2 DEF EndAt
  <2> QED
    BY <1>1, <2>1, <2>2
<1>3. CString(s, i) = c
  <2> DEFINE e == CHOOSE m \in i..(Len(s) + 1) :
                    /\ m <= Len(s) => s[m] = 0
                    /\ \A k \in i..(m - 1) : s[k] # 0
  <2>1. e \in i..(Len(s) + 1) /\ EndAt(s, i, e)
    BY <1>1 DEF EndAt
  <2> HIDE DEF e
  <2>2. e = n
    BY <1>2, <2>1
  <2>3. CString(s, i) = SubSeq(s, i, e - 1)
    BY DEF CString, e
  <2> QED
    BY <2>2, <2>3
<1>4. \A j \in i..(n - 1) : s[j] \in Byte \ {0}
  <2> SUFFICES ASSUME NEW j \in i..(n - 1) PROVE s[j] \in Byte \ {0}
    OBVIOUS
  <2>1. j \in 1..Len(s) /\ s[j] # 0
    BY <1>1 DEF EndAt
  <2> QED
    BY <2>1, ElementOfSeq
<1>5. CASE n = i
  <2>1. c = << >>
    BY <1>1, <1>5
  <2>2. c \in Seq(Byte \ {0}) /\ c \in Seq(Byte) /\ Len(c) = 0
    <3>1. << >> \in Seq(Byte \ {0}) /\ << >> \in Seq(Byte) /\ Len(<< >>) = 0
      OBVIOUS
    <3> HIDE DEF c
    <3> QED
      BY <2>1, <3>1
  <2> HIDE DEF c
  <2>3. Len(c) = n - i /\ \A j \in 1..(n - i) : c[j] = s[(i - 1) + j]
    BY <1>1, <1>5, <2>2
  <2> QED
    BY <1>3, <2>2, <2>3 DEF StringFrom, Texts
<1>6. CASE n > i
  <2>1. /\ c \in Seq(Byte) /\ Len(c) = n - i
        /\ \A j \in 1..(n - i) : c[j] = s[(i - 1) + j]
    <3> DEFINE t == n - 1
    <3>1. i \in 1..(t + 1) /\ t \in i..Len(s) /\ t - i + 1 = n - i
      BY <1>1, <1>6
    <3>2. \A j \in i..t : s[j] \in Byte
      BY <1>4
    <3> HIDE DEF t
    <3>3. /\ SubSeq(s, i, t) \in Seq(Byte)
          /\ Len(SubSeq(s, i, t)) = t - i + 1
          /\ \A j \in 1..(t - i + 1) : SubSeq(s, i, t)[j] = s[i + j - 1]
      BY <1>1, <3>1, <3>2, SubSeqProperties
    <3>4. \A j \in 1..(n - i) : i + j - 1 = (i - 1) + j
      BY <1>1
    <3>5. c = SubSeq(s, i, t)
      BY DEF t
    <3> HIDE DEF c
    <3> QED
      BY <3>1, <3>3, <3>4, <3>5
  <2> HIDE DEF c
  <2>2. \A j \in 1..(n - i) : c[j] \in Byte \ {0}
    <3> SUFFICES ASSUME NEW j \in 1..(n - i) PROVE c[j] \in Byte \ {0}
      OBVIOUS
    <3>1. (i - 1) + j \in i..(n - 1)
      BY <1>1
    <3> QED
      BY <1>4, <2>1, <3>1
  <2>3. n - i \in Nat /\ c = [j \in 1..(n - i) |-> c[j]]
    BY <1>1, <2>1, LenProperties
  <2>4. c \in [1..(n - i) -> Byte \ {0}]
    BY <2>2, <2>3
  <2>5. c \in Seq(Byte \ {0})
    BY <2>3, <2>4, IsASeq
  <2> QED
    BY <1>3, <2>1, <2>5 DEF StringFrom, Texts
<1> QED
  BY <1>1, <1>5, <1>6

LEMMA StringText ==
  ASSUME NEW s \in Seq(Byte), NEW i \in 1..(Len(s) + 1)
  PROVE  CString(s, i) \in Texts /\ CString(s, i) \in Seq(Byte)
<1>1. Len(s) \in Nat
  BY LenProperties
<1>2. PICK n \in i..(Len(s) + 1) : EndAt(s, i, n)
  BY StringEnds
<1>3. n \in Nat
  BY <1>1
<1> QED
  BY <1>2, <1>3, StringIs DEF StringFrom

(* A string's characters as digits.                                        *)
Values(c) == [i \in DOMAIN c |-> Char(c[i]) - 48]

LEMMA ValuesType ==
  ASSUME NEW c \in Seq(Byte)
  PROVE  /\ Values(c) \in Seq(Int) /\ Len(Values(c)) = Len(c) /\ Len(c) \in Nat
         /\ \A i \in 1..Len(c) : c[i] \in Byte /\ Values(c)[i] = Char(c[i]) - 48
         /\ decode(c, 8) = Numbers(Values(c), 8)[Len(c)]
<1>1. DOMAIN c = 1..Len(c) /\ Len(c) \in Nat
  BY LenProperties
<1>2. \A i \in 1..Len(c) : c[i] \in Byte
  BY ElementOfSeq
<1>3. \A i \in 1..Len(c) : Char(c[i]) - 48 \in Int
  <2>1. \A b \in Byte : Char(b) - 48 \in Int
    BY CharOf
  <2> QED
    BY <1>2, <2>1
<1> DEFINE v == Values(c)
<1>4. v \in [1..Len(c) -> Int] /\ \A i \in 1..Len(c) : v[i] = Char(c[i]) - 48
  BY <1>1, <1>3 DEF Values
<1> HIDE DEF v
<1>5. v \in Seq(Int) /\ Len(v) = Len(c)
  BY <1>1, <1>4, SeqOf
<1>6. decode(c, 8) = Numbers(v, 8)[Len(v)]
  BY DEF decode, Number, Values, v
<1> QED
  BY <1>1, <1>2, <1>4, <1>5, <1>6 DEF v

LEMMA DecodeType ==
  ASSUME NEW c \in Seq(Byte)
  PROVE  decode(c, 8) \in 0..(Word - 1)
<1> DEFINE v == Values(c)
<1>1. v \in Seq(Int) /\ Len(v) = Len(c) /\ Len(c) \in Nat
  BY ValuesType
<1>2. decode(c, 8) = Numbers(v, 8)[Len(c)]
  BY ValuesType
<1> HIDE DEF v
<1>3. Numbers(v, 8) \in [0..Len(v) -> 0..(Word - 1)]
  BY <1>1, BasesAre, NumbersUnfold
<1>4. Len(c) \in 0..Len(v)
  BY <1>1
<1> QED
  BY <1>2, <1>3, <1>4

LEMMA Base256Type ==
  ASSUME NEW s \in Seq(Int)
  PROVE  Base256(s) \in 0..(Word - 1)
<1>1. Numbers(s, 256) \in [0..Len(s) -> 0..(Word - 1)]
  BY BasesAre, NumbersUnfold
<1>2. Len(s) \in 0..Len(s)
  BY LenProperties
<1> QED
  BY <1>1, <1>2 DEF Base256, Number

(* The digits at the front of a string.                                    *)
LEMMA DecodePrefix ==
  ASSUME NEW c \in Seq(Byte), NEW n \in Nat, n < Word, NEW w \in Nat, Fits(n, 8, w),
         w <= Len(c), \A i \in 1..w : Char(c[i]) - 48 = Digits(n, 8, w)[i]
  PROVE  Numbers(Values(c), 8)[w] = n
<1> DEFINE v == Values(c)
<1>1. /\ v \in Seq(Int) /\ Len(v) = Len(c) /\ Len(c) \in Nat
      /\ \A i \in 1..Len(c) : v[i] = Char(c[i]) - 48
  BY ValuesType
<1> HIDE DEF v
<1>2. \A i \in 1..w : v[i] = Digits(n, 8, w)[i]
  BY <1>1
<1>3. Makes(Numbers(v, 8), Leading(n, 8, w), w)
  BY <1>1, <1>2, BasesAre, DigitsMake
<1>4. Numbers(v, 8)[w] = Leading(n, 8, w)[w - w]
  BY <1>3 DEF Makes
<1>5. Leading(n, 8, w)[0] = n
  BY BasesAre, LeadingUnfold
<1>6. w - w = 0
  OBVIOUS
<1> QED
  BY <1>4, <1>5, <1>6 DEF v

(* Digits in base 256.                                                     *)
LEMMA BinaryMakes ==
  ASSUME NEW n \in Nat, n < Word, NEW w \in Nat, Fits(n, 256, w),
         NEW s \in Seq(Int), w <= Len(s), \A i \in 1..w : s[i] = Digits(n, 256, w)[i]
  PROVE  Numbers(s, 256)[w] = n
<1> DEFINE base == 256
           q == Leading(n, base, w)
<1>1. base \in Bases
  BY BasesAre
<1>2. Fits(n, base, w) /\ \A i \in 1..w : s[i] = Digits(n, base, w)[i]
  OBVIOUS
<1> HIDE DEF base
<1>3. Makes(Numbers(s, base), q, w)
  BY <1>1, <1>2, DigitsMake
<1>4. q[0] = n
  BY <1>1, LeadingUnfold
<1> HIDE DEF q
<1>5. w \in 0..w /\ w - w = 0
  OBVIOUS
<1>6. Numbers(s, base)[w] = n
  BY <1>3, <1>4, <1>5 DEF Makes
<1> QED
  BY <1>6 DEF base

(* Characters behind them are taken for digits too.                        *)
LEMMA DecodeMore ==
  ASSUME NEW c \in Seq(Byte), NEW i \in 1..Len(c)
  PROVE  /\ Numbers(Values(c), 8)[i] = (Numbers(Values(c), 8)[i - 1] * 8 + (Char(c[i]) - 48)) % Word
         /\ Numbers(Values(c), 8)[i] \in 0..(Word - 1)
         /\ Numbers(Values(c), 8)[i - 1] \in 0..(Word - 1)
<1> DEFINE v == Values(c)
           num == Numbers(v, 8)
<1>1. v \in Seq(Int) /\ Len(v) = Len(c) /\ Len(c) \in Nat /\ v[i] = Char(c[i]) - 48
  BY ValuesType
<1>2. num \in [0..Len(v) -> 0..(Word - 1)]
  BY <1>1, BasesAre, NumbersUnfold
<1>3. \A j \in 1..Len(v) : num[j] = (num[j - 1] * 8 + v[j]) % Word
  <2>1. Wraps(num, v, 8)
    BY <1>1, BasesAre, NumbersUnfold
  <2> QED
    BY <2>1, Zenon DEF Wraps
<1> HIDE DEF v, num
<1>4. num[i] = (num[i - 1] * 8 + (Char(c[i]) - 48)) % Word
  BY <1>1, <1>3
<1>5. num[i] \in 0..(Word - 1) /\ num[i - 1] \in 0..(Word - 1)
  <2>1. i \in 0..Len(v) /\ i - 1 \in 0..Len(v)
    BY <1>1
  <2> QED
    BY <1>2, <2>1
<1> QED
  BY <1>4, <1>5 DEF num, v

(* Blanks in front of the digits take from the number they make.           *)
LEMMA DecodePadded ==
  ASSUME NEW c \in Seq(Byte), NEW n \in Nat, NEW w \in Nat, Fits(n, 8, w),
         NEW N \in Nat, w <= N, Len(c) = w, \A i \in 1..w : c[i] = Padded(n, w)[i],
         w >= 1, c[1] = 32
  PROVE  \E d \in Nat : /\ Congruent(decode(c, 8), n - d)
                        /\ d >= 16 * (n + 1)
                        /\ d < 3 * Powers(N)[w]
<1> DEFINE v == Values(c)
           num == Numbers(v, 8)
           q == Leading(n, 8, w)
           p == Powers(N)
           Good == {i \in Nat : i >= 1 /\ i <= w =>
                      \E d \in Nat : /\ Congruent(num[i], q[w - i] - d)
                                     /\ d >= 16 * (q[w - i] + 1)
                                     /\ d <= 3 * p[i] - 3}
<1>1. /\ v \in Seq(Int) /\ Len(v) = w
      /\ \A i \in 1..w : v[i] = Char(c[i]) - 48 /\ c[i] \in Byte
      /\ decode(c, 8) = num[w]
  BY ValuesType
<1>2. /\ num[0] = 0
      /\ \A i \in 1..w : /\ num[i] = (num[i - 1] * 8 + v[i]) % Word
                         /\ num[i] \in 0..(Word - 1)
  <2>1. num \in [0..Len(v) -> 0..(Word - 1)] /\ num[0] = 0
    BY <1>1, BasesAre, NumbersUnfold
  <2>2. \A i \in 1..Len(v) : num[i] = (num[i - 1] * 8 + v[i]) % Word
    <3>1. Wraps(num, v, 8)
      BY <1>1, BasesAre, NumbersUnfold
    <3> QED
      BY <3>1, Zenon DEF Wraps
  <2> HIDE DEF num, v
  <2>3. \A i \in 1..w : num[i] \in 0..(Word - 1)
    BY <1>1, <2>1
  <2>4. \A i \in 1..w : num[i] = (num[i - 1] * 8 + v[i]) % Word
    BY <1>1, <2>2
  <2> QED
    BY <2>1, <2>3, <2>4
<1>3. /\ q \in [0..w -> 0..n] /\ q[0] = n /\ q[w] = 0
      /\ \A k \in 1..w : q[k] = q[k - 1] \div 8
  <2>1. q \in [0..w -> 0..n]
    BY BasesAre, LeadingUnfold
  <2>2. q[0] = n
    BY BasesAre, LeadingUnfold
  <2>3. \A k \in 1..w : q[k] = q[k - 1] \div 8
    <3>1. Shifts(q, 8, w)
      BY BasesAre, LeadingUnfold
    <3> QED
      BY <3>1, Zenon DEF Shifts
  <2>4. q[w] = 0
    BY DEF Fits
  <2> QED
    BY <2>1, <2>2, <2>3, <2>4
<1>4. p \in [0..N -> Nat] /\ p[0] = 1 /\ \A k \in 1..N : p[k] = 8 * p[k - 1]
  BY PowersUnfold
<1>5. \A i \in 1..w : v[i] = IF i < w /\ q[w - i] = 0 THEN 0 - 16 ELSE q[w - i] % 8
  <2> SUFFICES ASSUME NEW i \in 1..w
               PROVE  v[i] = IF i < w /\ q[w - i] = 0 THEN 0 - 16 ELSE q[w - i] % 8
    OBVIOUS
  <2>1. c[i] = IF i < w /\ q[w - i] = 0 THEN 32 ELSE Octal(n, w)[i]
    BY PaddedType
  <2>2. Octal(n, w)[i] - 48 = Digits(n, 8, w)[i] /\ Octal(n, w)[i] \in 48..55
    BY OctalType
  <2>3. Digits(n, 8, w)[i] = q[w - i] % 8
    BY DEF Digits
  <2>4. v[i] = Char(c[i]) - 48
    BY <1>1
  <2>5. c[i] = 32 \/ c[i] = Octal(n, w)[i]
    BY <2>1
  <2>6. Char(Octal(n, w)[i]) = Octal(n, w)[i] /\ Char(32) = 32
    BY <2>2, CharOf, Zenon
  <2>7. Char(c[i]) = c[i]
    BY <2>5, <2>6, Zenon
  <2> HIDE DEF q, v
  <2> QED
    BY <2>1, <2>2, <2>3, <2>4, <2>7
<1> HIDE DEF v, num, q, p
<1>6. w > 1 /\ q[w - 1] = 0
  <2>1. v[1] = 0 - 16
    BY <1>1 DEF Char
  <2>2. ASSUME ~(1 < w /\ q[w - 1] = 0) PROVE FALSE
    <3>1. v[1] = q[w - 1] % 8
      BY <1>5, <2>2
    <3>2. q[w - 1] \in Nat
      BY <1>3
    <3> QED
      BY <2>1, <3>1, <3>2
  <2> QED
    BY <2>2
<1>7. 0 \in Good
  OBVIOUS
<1>8. ASSUME NEW i \in Nat, i \in Good
      PROVE  i + 1 \in Good
  <2> SUFFICES ASSUME i + 1 <= w
               PROVE  \E d \in Nat : /\ Congruent(num[i + 1], q[w - (i + 1)] - d)
                                     /\ d >= 16 * (q[w - (i + 1)] + 1)
                                     /\ d <= 3 * p[i + 1] - 3
    OBVIOUS
  <2> DEFINE r == q[w - (i + 1)]
             x == v[i + 1]
  <2>1. /\ w - (i + 1) \in 0..w /\ w - i \in 1..w /\ (w - i) - 1 = w - (i + 1)
        /\ i + 1 \in 1..w /\ i + 1 \in 1..N /\ (i + 1) - 1 = i /\ i \in 0..N
    OBVIOUS
  <2>2. /\ num[i + 1] = (num[i] * 8 + x) % Word /\ r \in Nat /\ q[w - i] = r \div 8
        /\ p[i + 1] = 8 * p[i] /\ p[i] \in Nat
        /\ x = IF i + 1 < w /\ r = 0 THEN 0 - 16 ELSE r % 8
    <3>1. num[i + 1] = (num[i] * 8 + x) % Word
      BY <1>2, <2>1
    <3>2. r \in Nat /\ q[w - i] = r \div 8
      BY <1>3, <2>1
    <3>3. p[i + 1] = 8 * p[i] /\ p[i] \in Nat
      BY <1>4, <2>1
    <3>4. x = IF i + 1 < w /\ r = 0 THEN 0 - 16 ELSE r % 8
      BY <1>5, <2>1
    <3> HIDE DEF x, r
    <3> QED
      BY <3>1, <3>2, <3>3, <3>4
  <2>3. CASE i = 0
    <3>1. r = 0 /\ x = 0 - 16 /\ num[i] = 0 /\ p[i] = 1
      BY <1>2, <1>4, <1>6, <2>2, <2>3
    <3>2. num[i + 1] = (0 - 16) % Word /\ p[i + 1] = 8
      BY <2>2, <3>1
    <3>3. Congruent((0 - 16) % Word, 0 - 16)
      BY CongruentToRest
    <3>4. Congruent(num[i + 1], r - 16)
      BY <3>1, <3>2, <3>3
    <3>5. 16 >= 16 * (r + 1) /\ 16 <= 3 * p[i + 1] - 3
      BY <3>1, <3>2
    <3> QED
      BY <3>4, <3>5
  <2>4. CASE i >= 1
    <3>1. PICK d \in Nat : /\ Congruent(num[i], q[w - i] - d)
                           /\ d >= 16 * (q[w - i] + 1)
                           /\ d <= 3 * p[i] - 3
      BY <1>8, <2>4
    <3> DEFINE a == num[i]
               b == q[w - i] - d
               P == p[i]
    <3>2. a \in Int /\ b \in Int /\ x \in Int /\ Congruent(a, b) /\ P \in Nat
      <4>1. num[i] \in 0..(Word - 1)
        BY <1>2, <2>4
      <4>2. num[i] \in Int
        BY <4>1, Width
      <4>3. r \in Nat /\ q[w - i] = r \div 8 /\ x = IF i + 1 < w /\ r = 0 THEN 0 - 16 ELSE r % 8
        BY <2>2
      <4>4. q[w - i] - d \in Int /\ x \in Int
        <5> HIDE DEF r, x
        <5> QED
          BY <4>3
      <4> QED
        BY <2>2, <3>1, <4>2, <4>4
    <3>3. Congruent((a * 8 + x) % Word, b * 8 + x)
      <4> HIDE DEF a, b, x
      <4> QED
        BY <3>2, CongruentNext
    <3>4. b = (r \div 8) - d /\ d >= 16 * ((r \div 8) + 1) /\ d <= 3 * P - 3 /\ p[i + 1] = 8 * P
      BY <2>2, <3>1
    <3>5. Congruent(num[i + 1], b * 8 + x)
      BY <2>2, <3>3
    <3> HIDE DEF a, b, P, r
    <3>6. CASE i + 1 < w /\ r = 0
      <4>1. x = 0 - 16
        BY <2>2, <3>6
      <4>2. b * 8 + x = r - (8 * d + 16) /\ 8 * d + 16 \in Nat
        BY <3>4, <3>6, <4>1
      <4>3. 8 * d + 16 >= 16 * (r + 1) /\ 8 * d + 16 <= 3 * (8 * P) - 3
        BY <3>2, <3>4, <3>6
      <4> QED
        BY <3>4, <3>5, <4>2, <4>3 DEF r
    <3>7. CASE ~(i + 1 < w /\ r = 0)
      <4>1. x = r % 8
        BY <2>2, <3>7
      <4>2. b * 8 + x = r - 8 * d /\ 8 * d \in Nat
        BY <2>2, <3>4, <4>1
      <4>3. 8 * d >= 16 * (r + 1) /\ 8 * d <= 3 * (8 * P) - 3
        BY <2>2, <3>2, <3>4
      <4> QED
        BY <3>4, <3>5, <4>2, <4>3 DEF r
    <3> QED
      BY <3>6, <3>7
  <2> QED
    BY <2>3, <2>4
<1>9. Nat \subseteq Good
  <2> HIDE DEF Good
  <2> QED
    BY <1>7, <1>8, Induction
<1>10. PICK d \in Nat : Congruent(num[w], q[w - w] - d) /\ d >= 16 * (q[w - w] + 1) /\ d <= 3 * p[w] - 3
  BY <1>9
<1>11. q[w - w] = n /\ p[w] \in Nat
  BY <1>3, <1>4
<1> QED
  BY <1>1, <1>10, <1>11 DEF p

LEMMA PowersGrow ==
  ASSUME NEW N \in Nat, NEW w \in 0..N
  PROVE  Powers(N)[w] <= Powers(N)[N]
<1> DEFINE p == Powers(N)
           Up == {i \in Nat : w + i <= N => p[w] <= p[w + i]}
<1>1. p \in [0..N -> Nat] /\ \A k \in 1..N : p[k] = 8 * p[k - 1]
  BY PowersUnfold
<1> HIDE DEF p
<1>2. 0 \in Up
  BY <1>1
<1>3. ASSUME NEW i \in Nat, i \in Up
      PROVE  i + 1 \in Up
  <2> SUFFICES ASSUME w + (i + 1) <= N PROVE p[w] <= p[w + (i + 1)]
    OBVIOUS
  <2>1. w + (i + 1) \in 1..N /\ (w + (i + 1)) - 1 = w + i /\ w + i \in 0..N
    OBVIOUS
  <2>2. p[w + (i + 1)] = 8 * p[w + i] /\ p[w] <= p[w + i] /\ p[w + i] \in Nat /\ p[w] \in Nat
    BY <1>1, <1>3, <2>1
  <2> QED
    BY <2>2
<1>4. Nat \subseteq Up
  <2> HIDE DEF Up
  <2> QED
    BY <1>2, <1>3, Induction
<1>5. N - w \in Up /\ w + (N - w) = N
  BY <1>4
<1> QED
  BY <1>5 DEF p

(* A number with no blank in front of it is written as without padding.    *)
LEMMA PaddedIsOctal ==
  ASSUME NEW n \in Nat, NEW w \in Nat, w >= 1, Padded(n, w)[1] # 32
  PROVE  \A i \in 1..w : Padded(n, w)[i] = Octal(n, w)[i]
<1> SUFFICES ASSUME NEW i \in 1..w, i < w, Leading(n, 8, w)[w - i] = 0
             PROVE  FALSE
  BY PaddedType
<1>1. w - i \in 0..w /\ w - 1 \in 0..w /\ w - i <= w - 1 /\ 1 \in 1..w /\ 1 < w
  OBVIOUS
<1>2. Leading(n, 8, w)[w - 1] = 0
  BY <1>1, LeadingZeros
<1> QED
  BY <1>1, <1>2, PaddedType

(* Octal digits that begin a string, and w of them.                        *)
OctalFrom(s, i, n, w) ==
  /\ i + w <= Len(s)
  /\ Fits(n, 8, w)
  /\ \A j \in 1..w : s[(i - 1) + j] = Octal(n, w)[j]

LEMMA OctalString ==
  ASSUME NEW s \in Seq(Byte), NEW i \in Nat \ {0}, NEW n \in Nat, n < Word, NEW w \in Nat,
         OctalFrom(s, i, n, w), NEW e \in Nat, i + w <= e, EndAt(s, i, e)
  PROVE  /\ StringFrom(CString(s, i), s, i, e)
         /\ Numbers(Values(CString(s, i)), 8)[w] = n
<1> DEFINE c == CString(s, i)
<1>1. Len(s) \in Nat
  BY LenProperties
<1>2. i \in 1..(Len(s) + 1)
  BY <1>1 DEF OctalFrom
<1>3. StringFrom(c, s, i, e)
  BY <1>2, StringIs
<1> HIDE DEF c
<1>4. c \in Seq(Byte) /\ Len(c) = e - i /\ \A j \in 1..(e - i) : c[j] = s[(i - 1) + j]
  BY <1>3 DEF StringFrom
<1>5. \A j \in 1..w : Char(c[j]) - 48 = Digits(n, 8, w)[j]
  <2> SUFFICES ASSUME NEW j \in 1..w PROVE Char(c[j]) - 48 = Digits(n, 8, w)[j]
    OBVIOUS
  <2>1. c[j] = Octal(n, w)[j]
    BY <1>4 DEF OctalFrom
  <2>2. Octal(n, w)[j] - 48 = Digits(n, 8, w)[j] /\ Octal(n, w)[j] \in 48..55
    BY OctalType
  <2>3. Char(c[j]) = c[j]
    BY <2>1, <2>2, CharOf, Zenon
  <2> QED
    BY <2>1, <2>2, <2>3
<1>6. Numbers(Values(c), 8)[w] = n
  <2>1. Fits(n, 8, w) /\ w <= Len(c)
    BY <1>4 DEF OctalFrom
  <2> QED
    BY <1>4, <1>5, <2>1, DecodePrefix
<1> QED
  BY <1>3, <1>6 DEF c

(* No digit ends a string.                                                 *)
LEMMA OctalRuns ==
  ASSUME NEW s, NEW i \in Nat \ {0}, NEW n \in Nat, NEW w \in Nat, OctalFrom(s, i, n, w)
  PROVE  \A k \in i..(i + w - 1) : s[k] \in 48..55
<1> SUFFICES ASSUME NEW k \in i..(i + w - 1) PROVE s[k] \in 48..55
  OBVIOUS
<1> DEFINE j == k - i + 1
<1>1. j \in 1..w /\ (i - 1) + j = k
  OBVIOUS
<1> HIDE DEF j
<1>2. s[k] = Octal(n, w)[j]
  BY <1>1 DEF OctalFrom
<1>3. Octal(n, w)[j] \in 48..55
  BY <1>1, OctalType
<1> QED
  BY <1>2, <1>3

(* Followed by a NUL; by a character and a NUL.                            *)
LEMMA OctalThenNul ==
  ASSUME NEW s \in Seq(Byte), NEW i \in Nat \ {0}, NEW n \in Nat, n < Word, NEW w \in Nat,
         OctalFrom(s, i, n, w), s[i + w] = 0
  PROVE  decode(CString(s, i), 8) = n
<1>1. Len(s) \in Nat
  BY LenProperties
<1>2. \A k \in i..(i + w - 1) : s[k] # 0
  BY OctalRuns
<1>3. EndAt(s, i, i + w)
  BY <1>1, <1>2 DEF EndAt, OctalFrom
<1> DEFINE c == CString(s, i)
<1>4. StringFrom(c, s, i, i + w) /\ Numbers(Values(c), 8)[w] = n
  <2>1. i + w \in Nat /\ i + w <= i + w
    OBVIOUS
  <2> QED
    BY <1>3, <2>1, OctalString
<1> HIDE DEF c
<1>5. (i + w) - i = w
  OBVIOUS
<1>6. c \in Seq(Byte) /\ Len(c) = w
  BY <1>4, <1>5 DEF StringFrom
<1>7. decode(c, 8) = Numbers(Values(c), 8)[w]
  BY <1>6, ValuesType
<1> QED
  BY <1>4, <1>7 DEF c

Then(n, b) == (n * 8 + (Char(b) - 48)) % Word

LEMMA OctalThenOne ==
  ASSUME NEW s \in Seq(Byte), NEW i \in Nat \ {0}, NEW n \in Nat, n < Word, NEW w \in Nat,
         OctalFrom(s, i, n, w), i + w + 1 <= Len(s), s[i + w] # 0, s[i + w + 1] = 0
  PROVE  decode(CString(s, i), 8) = Then(n, s[i + w])
<1> DEFINE c == CString(s, i)
<1>1. Len(s) \in Nat
  BY LenProperties
<1>2. \A k \in i..(i + w - 1) : s[k] # 0
  BY OctalRuns
<1>3. EndAt(s, i, i + w + 1)
  <2>1. \A k \in i..((i + w + 1) - 1) : k \in i..(i + w - 1) \/ k = i + w
    OBVIOUS
  <2> QED
    BY <1>1, <1>2, <2>1 DEF EndAt
<1>4. StringFrom(c, s, i, i + w + 1) /\ Numbers(Values(c), 8)[w] = n
  <2>1. i + w + 1 \in Nat /\ i + w <= i + w + 1
    OBVIOUS
  <2> QED
    BY <1>3, <2>1, OctalString
<1> HIDE DEF c
<1>5. (i + w + 1) - i = w + 1 /\ (i - 1) + (w + 1) = i + w
  OBVIOUS
<1>6. c \in Seq(Byte) /\ Len(c) = w + 1 /\ c[w + 1] = s[i + w]
  BY <1>4, <1>5 DEF StringFrom
<1>7. Numbers(Values(c), 8)[w + 1]
        = (Numbers(Values(c), 8)[(w + 1) - 1] * 8 + (Char(c[w + 1]) - 48)) % Word
  <2>1. w + 1 \in 1..Len(c)
    BY <1>6
  <2> QED
    BY <1>6, <2>1, DecodeMore
<1>8. (w + 1) - 1 = w
  OBVIOUS
<1>9. decode(c, 8) = Numbers(Values(c), 8)[w + 1]
  BY <1>6, ValuesType
<1> QED
  BY <1>4, <1>6, <1>7, <1>8, <1>9 DEF c, Then

(* Not followed by a NUL, characters that make X run on into the string t  *)
(* behind them, whose length is the places X is shifted by.                *)
Shifted(X, t) == (X * Powers(Len(t))[Len(t)] + decode(t, 8)) % Word

LEMMA RunsOn ==
  ASSUME NEW s \in Seq(Byte), NEW i \in Nat \ {0}, NEW w \in Nat, i + w <= Len(s) + 1,
         \A k \in i..(i + w - 1) : s[k] # 0,
         NEW X \in Int, Congruent(Numbers(Values(CString(s, i)), 8)[w], X)
  PROVE  decode(CString(s, i), 8) = Shifted(X, CString(s, i + w))
<1> DEFINE c == CString(s, i)
           t == CString(s, i + w)
           num == Numbers(Values(c), 8)
           tum == Numbers(Values(t), 8)
           L == Len(t)
           p == Powers(L)
           Good == {j \in Nat : j <= L => Congruent(num[w + j], X * p[j] + tum[j])}
<1>1. Len(s) \in Nat /\ i + w \in 1..(Len(s) + 1) /\ i \in 1..(Len(s) + 1)
  BY LenProperties
<1>2. PICK e \in (i + w)..(Len(s) + 1) : EndAt(s, i + w, e)
  BY <1>1, StringEnds
<1>3. e \in Nat /\ EndAt(s, i, e)
  BY <1>1, <1>2 DEF EndAt
<1>4. StringFrom(c, s, i, e) /\ StringFrom(t, s, i + w, e)
  BY <1>1, <1>2, <1>3, StringIs
<1> HIDE DEF c, t, L
<1>5. /\ L \in Nat /\ c \in Seq(Byte) /\ t \in Seq(Byte) /\ Len(c) = w + L
      /\ \A j \in 1..L : c[w + j] = t[j]
  <2>1. L = e - (i + w) /\ Len(c) = e - i /\ c \in Seq(Byte) /\ t \in Seq(Byte)
    BY <1>4 DEF StringFrom, L
  <2>2. \A j \in 1..L : /\ w + j \in 1..(e - i) /\ j \in 1..(e - (i + w))
                        /\ (i - 1) + (w + j) = ((i + w) - 1) + j
    BY <1>3, <2>1
  <2>3. \A j \in 1..L : c[w + j] = t[j]
    BY <1>4, <2>2 DEF StringFrom
  <2> QED
    BY <1>3, <2>1, <2>3
<1>6. L = Len(t)
  BY DEF L
<1>7. tum[0] = 0 /\ num[w] \in Int
  <2>1. Values(t) \in Seq(Int) /\ Values(c) \in Seq(Int) /\ Len(Values(c)) = w + L
    BY <1>5, ValuesType
  <2>2. num \in [0..Len(Values(c)) -> 0..(Word - 1)] /\ tum[0] = 0
    BY <2>1, BasesAre, NumbersUnfold
  <2>3. w \in 0..Len(Values(c))
    BY <1>5, <2>1
  <2>4. num[w] \in 0..(Word - 1)
    BY <2>2, <2>3
  <2> QED
    BY <2>2, <2>4, Ranges
<1>8. p \in [0..L -> Nat] /\ p[0] = 1 /\ \A k \in 1..L : p[k] = 8 * p[k - 1]
  BY <1>5, PowersUnfold
<1>9. 0 \in Good
  <2>1. Congruent(num[w], X)
    BY DEF c
  <2> HIDE DEF num, tum, p
  <2>2. w + 0 = w /\ X * p[0] + tum[0] = X
    BY <1>7, <1>8
  <2> QED
    BY <2>1, <2>2
<1>10. ASSUME NEW j \in Nat, j \in Good
       PROVE  j + 1 \in Good
  <2> SUFFICES ASSUME j + 1 <= L
               PROVE  Congruent(num[w + (j + 1)], X * p[j + 1] + tum[j + 1])
    OBVIOUS
  <2> DEFINE a == num[w + j]
             b == tum[j]
             P == p[j]
             v == Char(t[j + 1]) - 48
  <2>1. /\ w + (j + 1) \in 1..Len(c) /\ (w + (j + 1)) - 1 = w + j
        /\ j + 1 \in 1..Len(t) /\ (j + 1) - 1 = j /\ j + 1 \in 1..L /\ j \in 0..L
    BY <1>5, <1>6
  <2>2. /\ num[w + (j + 1)] = (a * 8 + v) % Word /\ a \in Int
    <3>1. /\ num[w + (j + 1)]
               = (num[(w + (j + 1)) - 1] * 8 + (Char(c[w + (j + 1)]) - 48)) % Word
          /\ num[(w + (j + 1)) - 1] \in 0..(Word - 1)
      BY <1>5, <2>1, DecodeMore
    <3>2. c[w + (j + 1)] = t[j + 1]
      BY <1>5, <2>1
    <3>3. num[(w + (j + 1)) - 1] = a
      BY <2>1
    <3> HIDE DEF num, a, b
    <3>4. a \in Int
      BY <3>1, <3>3, Ranges
    <3> QED
      BY <3>1, <3>2, <3>3, <3>4
  <2>3. tum[j + 1] = (b * 8 + v) % Word /\ b \in Int /\ tum[j + 1] \in Int
    <3>1. /\ tum[j + 1] = (tum[(j + 1) - 1] * 8 + (Char(t[j + 1]) - 48)) % Word
          /\ tum[j + 1] \in 0..(Word - 1) /\ tum[(j + 1) - 1] \in 0..(Word - 1)
      BY <1>5, <2>1, DecodeMore
    <3>2. tum[(j + 1) - 1] = b
      BY <2>1
    <3> HIDE DEF tum, a, b
    <3>3. b \in Int /\ tum[j + 1] \in Int
      BY <3>1, <3>2, Ranges
    <3> QED
      BY <3>1, <3>2, <3>3
  <2>4. v \in Int
    <3>1. t[j + 1] \in Byte
      BY <1>5, <2>1, ElementOfSeq
    <3> QED
      BY <3>1, CharOf
  <2>5. p[j + 1] = 8 * P /\ P \in Nat
    BY <1>8, <2>1
  <2>6. Congruent(a, X * P + b)
    BY <1>10, <2>1
  <2>7. num[w + (j + 1)] \in Int
    <3>1. num[w + (j + 1)] \in 0..(Word - 1)
      BY <1>5, <2>1, DecodeMore
    <3> QED
      BY <3>1, Ranges
  <2> DEFINE A == num[w + (j + 1)]
             B == tum[j + 1]
             Y == X * P
  <2>8. Y \in Int /\ X * p[j + 1] = 8 * Y
    BY <2>5
  <2>9. /\ A = (a * 8 + v) % Word /\ B = (b * 8 + v) % Word /\ A \in Int /\ B \in Int
        /\ Congruent(a, Y + b) /\ a \in Int /\ b \in Int
    BY <2>2, <2>3, <2>6, <2>7
  <2> HIDE DEF A, B, Y, a, b, P, v
  <2>10. Congruent(A, (Y + b) * 8 + v)
    <3>1. Y + b \in Int
      BY <2>8, <2>9
    <3> QED
      BY <2>4, <2>9, <3>1, CongruentNext
  <2>11. Congruent(B, b * 8 + v) /\ b * 8 + v \in Int
    BY <2>4, <2>9, CongruentToRest
  <2>12. (Y + b) * 8 + v = 8 * Y + (b * 8 + v) /\ 8 * Y \in Int
    BY <2>4, <2>8, <2>9
  <2>13. Congruent(A, 8 * Y + B)
    <3>1. Congruent(A, 8 * Y + (b * 8 + v))
      BY <2>10, <2>12
    <3> QED
      BY <2>9, <2>11, <2>12, <3>1, CongruentSum
  <2> QED
    BY <2>8, <2>13 DEF A, B
<1>11. Nat \subseteq Good
  <2> HIDE DEF Good
  <2> QED
    BY <1>9, <1>10, Induction
<1>12. Congruent(num[w + L], X * p[L] + tum[L])
  BY <1>5, <1>11
<1>13. decode(c, 8) = num[w + L] /\ decode(t, 8) = tum[L]
  BY <1>5, <1>6, ValuesType
<1>14. decode(c, 8) \in 0..(Word - 1) /\ decode(t, 8) \in 0..(Word - 1)
  BY <1>5, DecodeType
<1>15. X * p[L] + decode(t, 8) \in Int
  <2>1. p[L] \in Nat /\ decode(t, 8) \in Int
    BY <1>5, <1>8, <1>14, Ranges
  <2> HIDE DEF p
  <2> QED
    BY <2>1
<1>16. Congruent(decode(c, 8), X * p[L] + decode(t, 8))
  BY <1>12, <1>13
<1>17. decode(c, 8) = (X * p[L] + decode(t, 8)) % Word
  BY <1>14, <1>15, <1>16, CongruentRest
<1> QED
  BY <1>17 DEF c, t, p, L, Shifted

-----------------------------------------------------------------------------
(***************************************************************************)
(* The checksum.                                                           *)
(***************************************************************************)
UnsignedSum(m) == Total(With(m, Blank))
SignedSum(m)   == Total(Chars(With(m, Blank)))

LEMMA BlankType == Blank \in Seq(Byte) /\ Len(Blank) = SumLen /\ \A i \in 1..SumLen : Blank[i] = 32
<1>1. Blank \in [1..SumLen -> Byte] /\ \A i \in 1..SumLen : Blank[i] = 32
  BY DEF Blank, Byte
<1>2. SumLen \in Nat
  BY Places
<1> QED
  BY <1>1, <1>2, SeqOf

LEMMA SumFacts ==
  ASSUME NEW m \in Members
  PROVE  /\ Layout(With(m, Blank), m, Blank)
         /\ UnsignedSum(m) \in Nat /\ UnsignedSum(m) <= 255 * Last1
         /\ SignedSum(m) \in Int
         /\ \E k \in Nat : UnsignedSum(m) = SignedSum(m) + 256 * k /\ UnsignedSum(m) >= 128 * k
         /\ SumOf(m) = IF m.signed THEN SignedSum(m) ELSE UnsignedSum(m)
         /\ SumOf(m) \in Nat /\ SumOf(m) <= 255 * Last1 /\ SumOf(m) < Word
         /\ Fits(SumOf(m), 8, SumLen - 2)
<1> DEFINE h == With(m, Blank)
           u == Total(h)
           s == Total(Chars(h))
<1>1. Layout(h, m, Blank)
  BY BlankType, WithLayout
<1>2. h \in Seq(Byte) /\ Len(h) = Last1
  BY <1>1 DEF Layout
<1> HIDE DEF h
<1>3. /\ u \in Nat /\ u <= 255 * Last1 /\ s \in Int
      /\ \E k \in Nat : u = s + 256 * k /\ u >= 128 * k
  BY <1>2, SumsDiffer
<1>4. SumOf(m) = IF m.signed THEN s ELSE u
  BY DEF SumOf, h
<1>5. SumOf(m) \in Nat /\ Fits(SumOf(m), 8, SumLen - 2)
  BY SumAssumption
<1> DEFINE n == SumOf(m)
<1> HIDE DEF u, s, n
<1>6. Last1 \in Nat /\ Word \in Nat /\ Word > 4096 * Last1
  BY Width, Places
<1>7. n <= 255 * Last1
  <2>1. n = s \/ n = u
    BY <1>4 DEF n
  <2>2. s <= u
    BY <1>3
  <2> QED
    BY <1>3, <1>6, <2>1, <2>2
<1>8. n < Word
  BY <1>5, <1>6, <1>7 DEF n
<1> QED
  BY <1>1, <1>3, <1>4, <1>5, <1>7, <1>8 DEF UnsignedSum, SignedSum, u, s, h, n

(* What checkChecksum decodes, with junk behind its copy.                  *)
Ref(h, junk) == decode(CString(SubSeq(h, SumAt, SumAt + SumLen - 1) \o junk, 1), 8)

HasSum(h, m) ==
  /\ h \in Seq(Byte) /\ Len(h) = Last1
  /\ \A i \in 1..SumLen : h[NameLen + SizeLen + MtimeLen + 2 + i] = SumField(m, SumOf(m))[i]

LEMMA CopyFacts ==
  ASSUME NEW m \in Members, NEW h, HasSum(h, m), NEW junk \in Junk
  PROVE  /\ SubSeq(h, SumAt, SumAt + SumLen - 1) \o junk \in Seq(Byte)
         /\ Len(SubSeq(h, SumAt, SumAt + SumLen - 1) \o junk) \in Nat
         /\ Len(SubSeq(h, SumAt, SumAt + SumLen - 1) \o junk) >= SumLen
         /\ \A i \in 1..SumLen :
              (SubSeq(h, SumAt, SumAt + SumLen - 1) \o junk)[i] = SumField(m, SumOf(m))[i]
<1> DEFINE a == SumAt
           t == SumAt + SumLen - 1
           o == SubSeq(h, a, t)
<1>1. /\ a \in Int /\ t \in Int /\ a <= t /\ t - a + 1 = SumLen /\ a >= 1 /\ t <= Last1
      /\ a = NameLen + SizeLen + MtimeLen + 3 /\ SumLen \in Nat
  BY Places
<1>2. \A i \in a..t : h[i] \in Byte
  <2> SUFFICES ASSUME NEW i \in a..t PROVE h[i] \in Byte
    OBVIOUS
  <2>1. i \in 1..Len(h) /\ h \in Seq(Byte)
    BY <1>1 DEF HasSum
  <2> QED
    BY <2>1, ElementOfSeq
<1> HIDE DEF a, t
<1>3. /\ o \in Seq(Byte) /\ Len(o) = SumLen
      /\ \A i \in 1..SumLen : o[i] = h[a + i - 1]
  <2>1. /\ o \in Seq(Byte) /\ Len(o) = t - a + 1
        /\ \A i \in 1..(t - a + 1) : o[i] = h[a + i - 1]
    BY <1>1, <1>2, SubSeqProperties
  <2> HIDE DEF o
  <2> QED
    BY <1>1, <2>1
<1> HIDE DEF o
<1>4. \A i \in 1..SumLen : o[i] = SumField(m, SumOf(m))[i]
  <2> SUFFICES ASSUME NEW i \in 1..SumLen PROVE o[i] = SumField(m, SumOf(m))[i]
    OBVIOUS
  <2>1. a + i - 1 = NameLen + SizeLen + MtimeLen + 2 + i
    BY <1>1, Places
  <2> QED
    BY <1>3, <2>1 DEF HasSum
<1>5. junk \in Seq(Byte) /\ Len(junk) \in Nat
  BY DamageAssumption, LenProperties
<1>6. o \o junk \in Seq(Byte) /\ Joined(o \o junk, o, junk)
  BY <1>3, <1>5, JoinedSeq
<1>7. /\ Len(o \o junk) \in Nat /\ Len(o \o junk) >= SumLen
      /\ \A i \in 1..SumLen : (o \o junk)[i] = SumField(m, SumOf(m))[i]
  <2> DEFINE u == o \o junk
             f == SumField(m, SumOf(m))
  <2>1. Joined(u, o, junk) /\ \A i \in 1..SumLen : o[i] = f[i]
    BY <1>4, <1>6
  <2> HIDE DEF u, f
  <2>2. /\ Len(u) \in Nat /\ Len(u) >= SumLen
        /\ \A i \in 1..SumLen : u[i] = f[i]
    BY <1>1, <1>3, <1>5, <2>1 DEF Joined
  <2> QED
    BY <2>2 DEF u, f
<1> QED
  BY <1>6, <1>7 DEF o, a, t

LEMMA RefFacts ==
  ASSUME NEW m \in Members, NEW h, HasSum(h, m), NEW junk \in Junk
  PROVE  /\ Ref(h, junk) \in 0..(Word - 1)
         /\ m.sumStyle = "nul" => Ref(h, junk) = SumOf(m)
         /\ m.sumStyle = "blank" => Ref(h, junk) = (SumOf(m) * 8 + (0 - 16)) % Word
         /\ m.sumStyle = "padded" /\ SumField(m, SumOf(m))[1] # 32 => Ref(h, junk) = SumOf(m)
         /\ m.sumStyle = "padded" /\ SumField(m, SumOf(m))[1] = 32 =>
              \E d \in Nat : /\ Congruent(Ref(h, junk), SumOf(m) - d)
                             /\ d >= 16 * (SumOf(m) + 1)
                             /\ d < 3 * Powers(SumLen)[SumLen]
<1> DEFINE s == SubSeq(h, SumAt, SumAt + SumLen - 1) \o junk
           w == SumLen - 2
           n == SumOf(m)
           f == SumField(m, n)
           c == CString(s, 1)
<1>1. /\ s \in Seq(Byte) /\ Len(s) \in Nat /\ Len(s) >= SumLen
      /\ \A i \in 1..SumLen : s[i] = f[i]
  BY CopyFacts
<1>2. Ref(h, junk) = decode(c, 8)
  BY DEF Ref
<1>3. n \in Nat /\ n < Word /\ Fits(n, 8, w)
  BY SumFacts
<1>4. SumLen \in Nat /\ w \in Nat /\ w >= 1 /\ SumLen = w + 2
  BY Places
<1> HIDE DEF s, n, w
<1>5. c \in Seq(Byte)
  BY <1>1, StringText
<1>6. Ref(h, junk) \in 0..(Word - 1)
  BY <1>2, <1>5, DecodeType
<1>7. ASSUME \A i \in 1..w : f[i] = Octal(n, w)[i]
      PROVE  OctalFrom(s, 1, n, w)
  <2>1. \A j \in 1..w : (1 - 1) + j = j /\ j \in 1..SumLen
    BY <1>4
  <2>2. \A j \in 1..w : s[(1 - 1) + j] = Octal(n, w)[j]
    BY <1>1, <1>7, <2>1
  <2>3. 1 + w <= Len(s)
    BY <1>1, <1>4
  <2> QED
    BY <1>3, <2>2, <2>3 DEF OctalFrom
<1>8. Len(Octal(n, w)) = w /\ Len(Padded(n, w)) = w
  BY <1>3, <1>4, OctalType, PaddedType
<1>9. /\ <<0, 32>>[1] = 0 /\ Len(<<0, 32>>) = 2
      /\ <<32, 0>>[1] = 32 /\ <<32, 0>>[2] = 0 /\ Len(<<32, 0>>) = 2
  OBVIOUS
<1>10. w + 1 \in 1..SumLen /\ w + 2 \in 1..SumLen /\ 1 + w = w + 1 /\ 1 + w + 1 = w + 2
  BY <1>4
<1>11. CASE m.sumStyle = "nul"
  <2>1. Joined(f, Octal(n, w), <<0, 32>>)
    BY <1>3, <1>11, SumFieldType DEF w
  <2>2. /\ \A i \in 1..w : f[i] = Octal(n, w)[i]
        /\ f[w + 1] = 0
    BY <1>8, <1>9, <2>1 DEF Joined
  <2>3. OctalFrom(s, 1, n, w) /\ s[1 + w] = 0
    BY <1>1, <1>7, <1>10, <2>2
  <2>4. decode(c, 8) = n
    BY <1>1, <1>3, <1>4, <2>3, OctalThenNul
  <2> QED
    BY <1>2, <1>6, <1>11, <2>4 DEF n
<1>12. CASE m.sumStyle = "blank"
  <2>1. Joined(f, Octal(n, w), <<32, 0>>)
    BY <1>3, <1>12, SumFieldType DEF w
  <2>2. /\ \A i \in 1..w : f[i] = Octal(n, w)[i]
        /\ f[w + 1] = 32 /\ f[w + 2] = 0
    BY <1>8, <1>9, <2>1 DEF Joined
  <2>3. OctalFrom(s, 1, n, w) /\ s[1 + w] = 32 /\ s[1 + w + 1] = 0 /\ 1 + w + 1 <= Len(s)
    BY <1>1, <1>4, <1>7, <1>10, <2>2
  <2>4. 1 \in Nat \ {0} /\ s[1 + w] # 0
    BY <2>3
  <2>5. decode(c, 8) = Then(n, s[1 + w])
    BY <1>1, <1>3, <1>4, <2>3, <2>4, OctalThenOne
  <2>6. Then(n, 32) = (n * 8 + (0 - 16)) % Word
    BY DEF Then, Char
  <2> QED
    BY <1>2, <1>6, <1>12, <2>3, <2>5, <2>6 DEF n
<1>13. CASE m.sumStyle = "padded"
  <2>1. Joined(f, Padded(n, w), <<0, 32>>)
    BY <1>3, <1>13, SumFieldType DEF w
  <2>2. /\ \A i \in 1..w : f[i] = Padded(n, w)[i]
        /\ f[w + 1] = 0
    BY <1>8, <1>9, <2>1 DEF Joined
  <2>3. CASE f[1] # 32
    <3>1. Padded(n, w)[1] # 32
      BY <1>4, <2>2, <2>3
    <3>2. \A i \in 1..w : f[i] = Octal(n, w)[i]
      BY <1>3, <1>4, <2>2, <3>1, PaddedIsOctal
    <3>3. OctalFrom(s, 1, n, w) /\ s[1 + w] = 0
      BY <1>1, <1>7, <1>10, <2>2, <3>2
    <3>4. decode(c, 8) = n
      BY <1>1, <1>3, <1>4, <3>3, OctalThenNul
    <3> QED
      BY <1>2, <1>6, <1>13, <2>3, <3>4 DEF n
  <2>4. CASE f[1] = 32
    <3>1. \A i \in 1..w : s[i] = Padded(n, w)[i] /\ s[i] # 0
      <4> SUFFICES ASSUME NEW i \in 1..w PROVE s[i] = Padded(n, w)[i] /\ s[i] # 0
        OBVIOUS
      <4>1. s[i] = Padded(n, w)[i]
        BY <1>1, <1>4, <2>2
      <4>2. Octal(n, w)[i] \in 48..55
        BY <1>3, <1>4, OctalType
      <4>3. Padded(n, w)[i] = 32 \/ Padded(n, w)[i] = Octal(n, w)[i]
        BY <1>3, <1>4, PaddedType
      <4> QED
        BY <4>1, <4>2, <4>3
    <3>2. EndAt(s, 1, w + 1)
      <4>1. s[w + 1] = 0
        BY <1>1, <1>10, <2>2
      <4>2. w + 1 \in 1..(Len(s) + 1) /\ (w + 1) - 1 = w
        BY <1>1, <1>4
      <4> QED
        BY <3>1, <4>1, <4>2 DEF EndAt
    <3>3. StringFrom(c, s, 1, w + 1)
      <4>1. 1 \in 1..(Len(s) + 1) /\ w + 1 \in Nat
        BY <1>1, <1>4
      <4> QED
        BY <1>1, <3>2, <4>1, StringIs
    <3> HIDE DEF c
    <3>4. (w + 1) - 1 = w /\ \A j \in 1..w : (1 - 1) + j = j
      BY <1>4
    <3>5. c \in Seq(Byte) /\ Len(c) = w /\ \A i \in 1..w : c[i] = Padded(n, w)[i]
      BY <3>1, <3>3, <3>4 DEF StringFrom
    <3>6. c[1] = 32
      BY <1>4, <2>2, <2>4, <3>5
    <3>7. PICK d \in Nat : /\ Congruent(decode(c, 8), n - d)
                           /\ d >= 16 * (n + 1)
                           /\ d < 3 * Powers(SumLen)[w]
      BY <1>3, <1>4, <3>5, <3>6, DecodePadded
    <3>8. /\ Powers(SumLen)[w] <= Powers(SumLen)[SumLen]
          /\ Powers(SumLen)[w] \in Nat /\ Powers(SumLen)[SumLen] \in Nat
      <4>1. w \in 0..SumLen /\ SumLen \in 0..SumLen
        BY <1>4
      <4> QED
        BY <1>4, <4>1, PowersGrow, PowersPositive
    <3>9. d < 3 * Powers(SumLen)[SumLen]
      BY <3>7, <3>8
    <3>10. Congruent(Ref(h, junk), n - d)
      BY <1>2, <3>7
    <3> QED
      BY <1>6, <1>13, <2>4, <3>7, <3>9, <3>10 DEF n
  <2> QED
    BY <2>3, <2>4
<1> QED
  BY <1>6, <1>11, <1>12, <1>13

LEMMA WrittenLayout ==
  ASSUME NEW m \in Members
  PROVE  Layout(Written(m), m, SumField(m, SumOf(m)))
<1>1. SumOf(m) \in Nat
  BY SumFacts
<1>2. SumField(m, SumOf(m)) \in Seq(Byte) /\ Len(SumField(m, SumOf(m))) = SumLen
  BY <1>1, SumFieldType
<1> QED
  BY <1>2, WithLayout DEF Written

(* Headers for the same member differ in the checksum alone.               *)
LEMMA SameOutside ==
  ASSUME NEW m \in Members, NEW a, NEW b, NEW sa, NEW sb,
         Layout(a, m, sa), Layout(b, m, sb), NEW i \in 1..Last1, ~InSum(i)
  PROVE  a[i] = b[i]
<1>1. i < NameLen + SizeLen + MtimeLen + 3 \/ i > NameLen + SizeLen + MtimeLen + SumLen + 2
  BY Places DEF InSum
<1>2. CASE i <= NameLen
  <2>1. i \in 1..NameLen
    BY <1>2, Places
  <2> QED
    BY <2>1 DEF Layout
<1>3. CASE i = NameLen + 1 \/ i = NameLen + 2
  BY <1>3 DEF Layout
<1>4. CASE i > NameLen + 2 /\ i <= NameLen + 2 + SizeLen
  <2> DEFINE j == i - NameLen - 2
  <2>1. j \in 1..SizeLen /\ NameLen + 2 + j = i
    BY <1>4, Places
  <2> HIDE DEF j
  <2>2. a[NameLen + 2 + j] = SizeField(m)[j] /\ b[NameLen + 2 + j] = SizeField(m)[j]
    BY <2>1 DEF Layout
  <2> QED
    BY <2>1, <2>2
<1>5. CASE i > NameLen + SizeLen + 2 /\ i <= NameLen + SizeLen + 2 + MtimeLen
  <2> DEFINE j == i - NameLen - SizeLen - 2
  <2>1. j \in 1..MtimeLen /\ NameLen + SizeLen + 2 + j = i
    BY <1>5, Places
  <2> HIDE DEF j
  <2>2. /\ a[NameLen + SizeLen + 2 + j] = m.mtime[j]
        /\ b[NameLen + SizeLen + 2 + j] = m.mtime[j]
    BY <2>1 DEF Layout
  <2> QED
    BY <2>1, <2>2
<1>6. CASE i = SumAt + SumLen
  BY <1>6 DEF Layout
<1>7. CASE i > NameLen + SizeLen + MtimeLen + SumLen + 3 /\ i <= NameLen + SizeLen + MtimeLen + SumLen + 3 + PrefixLen
  <2> DEFINE j == i - NameLen - SizeLen - MtimeLen - SumLen - 3
             f == Field(m.prefix \o m.times, PrefixLen)
  <2>1. j \in 1..PrefixLen /\ NameLen + SizeLen + MtimeLen + SumLen + 3 + j = i
    BY <1>7, Places
  <2> HIDE DEF j
  <2>2. /\ a[NameLen + SizeLen + MtimeLen + SumLen + 3 + j] = f[j]
        /\ b[NameLen + SizeLen + MtimeLen + SumLen + 3 + j] = f[j]
    BY <2>1 DEF Layout
  <2> QED
    BY <2>1, <2>2
<1>8. CASE i = Last1
  BY <1>8 DEF Layout
<1>9. \/ i <= NameLen
      \/ i = NameLen + 1 \/ i = NameLen + 2
      \/ i > NameLen + 2 /\ i <= NameLen + 2 + SizeLen
      \/ i > NameLen + SizeLen + 2 /\ i <= NameLen + SizeLen + 2 + MtimeLen
      \/ i = SumAt + SumLen
      \/ i > NameLen + SizeLen + MtimeLen + SumLen + 3 /\ i <= NameLen + SizeLen + MtimeLen + SumLen + 3 + PrefixLen
      \/ i = Last1
  BY <1>1, Places
<1> QED
  BY <1>2, <1>3, <1>4, <1>5, <1>6, <1>7, <1>8, <1>9

(* The bytes of h are those written for m, but perhaps one outside the     *)
(* checksum.                                                               *)
Kept(h, m, d) ==
  /\ h \in Seq(Byte) /\ Len(h) = Last1
  /\ \A i \in 1..Last1 : i # d => h[i] = Written(m)[i]
  /\ d # 0 => d \in 1..Last1 /\ ~InSum(d) /\ h[d] # Written(m)[d]

Blanked(h) == [i \in 1..Last1 |-> IF InSum(i) THEN 32 ELSE h[i]]

LEMMA KeptSum ==
  ASSUME NEW m \in Members, NEW h, NEW d \in Nat, Kept(h, m, d)
  PROVE  HasSum(h, m)
<1> SUFFICES ASSUME NEW i \in 1..SumLen
             PROVE  h[NameLen + SizeLen + MtimeLen + 2 + i] = SumField(m, SumOf(m))[i]
  BY DEF Kept, HasSum
<1> DEFINE k == NameLen + SizeLen + MtimeLen + 2 + i
<1>1. k \in 1..Last1 /\ InSum(k)
  BY Places DEF InSum
<1>2. Written(m)[k] = SumField(m, SumOf(m))[i]
  BY WrittenLayout DEF Layout
<1> HIDE DEF k
<1>3. k # d
  <2>1. ASSUME k = d PROVE FALSE
    <3>1. d # 0
      BY <1>1, <2>1
    <3> QED
      BY <1>1, <2>1, <3>1 DEF Kept
  <2> QED
    BY <2>1
<1>4. h[k] = Written(m)[k]
  BY <1>1, <1>3 DEF Kept
<1> QED
  BY <1>2, <1>4 DEF k

LEMMA BlankedIs ==
  ASSUME NEW m \in Members, NEW h, NEW d \in Nat, Kept(h, m, d)
  PROVE  /\ Blanked(h) \in Seq(Byte) /\ Len(Blanked(h)) = Last1
         /\ With(m, Blank) \in Seq(Byte) /\ Len(With(m, Blank)) = Last1
         /\ \A i \in 1..Last1 : i # d => Blanked(h)[i] = With(m, Blank)[i]
         /\ d # 0 => d \in 1..Last1 /\ Blanked(h)[d] # With(m, Blank)[d]
         /\ d = 0 => Blanked(h) = With(m, Blank)
<1> DEFINE B == Blanked(h)
           W == With(m, Blank)
           V == Written(m)
           n == Last1
           sum == SumField(m, SumOf(m))
<1>1. Layout(W, m, Blank) /\ Layout(V, m, sum)
  BY SumFacts, WrittenLayout
<1>2. n \in Nat
  BY Places
<1>3. \A i \in 1..n : ~InSum(i) => W[i] = V[i]
  BY <1>1, SameOutside
<1>4. \A i \in 1..n : InSum(i) => W[i] = 32
  <2> SUFFICES ASSUME NEW i \in 1..n, InSum(i) PROVE W[i] = 32
    OBVIOUS
  <2> DEFINE j == i - NameLen - SizeLen - MtimeLen - 2
  <2>1. j \in 1..SumLen /\ NameLen + SizeLen + MtimeLen + 2 + j = i
    BY Places DEF InSum
  <2> HIDE DEF j
  <2>2. W[NameLen + SizeLen + MtimeLen + 2 + j] = Blank[j] /\ Blank[j] = 32
    BY <1>1, <2>1, BlankType DEF Layout
  <2> QED
    BY <2>1, <2>2
<1>5. B \in [1..n -> Byte] /\ \A i \in 1..n : B[i] = IF InSum(i) THEN 32 ELSE h[i]
  <2>1. \A i \in 1..n : h[i] \in Byte
    BY ElementOfSeq DEF Kept
  <2>2. 32 \in Byte
    BY DEF Byte
  <2> QED
    BY <2>1, <2>2 DEF Blanked
<1>6. W \in Seq(Byte) /\ Len(W) = n /\ W \in [1..n -> Byte]
  <2>1. W \in Seq(Byte) /\ Len(W) = n
    BY <1>1 DEF Layout
  <2> HIDE DEF W, n
  <2> QED
    BY <2>1, LenProperties
<1>7. \A i \in 1..n : i # d => h[i] = V[i]
  BY DEF Kept
<1>8. d # 0 => d \in 1..n /\ ~InSum(d) /\ h[d] # V[d]
  BY DEF Kept
<1> HIDE DEF B, W, V, n
<1>9. B \in Seq(Byte) /\ Len(B) = n
  BY <1>2, <1>5, SeqOf
<1>10. \A i \in 1..n : i # d => B[i] = W[i]
  BY <1>3, <1>4, <1>5, <1>7
<1>11. d # 0 => d \in 1..n /\ B[d] # W[d]
  BY <1>3, <1>5, <1>8
<1>12. d = 0 => B = W
  <2>1. \A i \in 1..n : i # 0
    OBVIOUS
  <2> QED
    BY <1>5, <1>6, <1>10, <2>1
<1> QED
  BY <1>6, <1>9, <1>10, <1>11, <1>12 DEF B, W, n

(* Whether checkChecksum takes r for the sum of h.                         *)
IsRest(r, x) == r = x % Word

Passes(h, r) == IsRest(r, Total(Blanked(h))) \/ IsRest(r, Total(Chars(Blanked(h))))

LEMMA RestIs ==
  ASSUME NEW x \in Nat, x < Word
  PROVE  IsRest(x, x)
BY RestOfSmall DEF IsRest

LEMMA RestIsNot ==
  ASSUME NEW r \in Int, NEW y \in Int, Congruent(r, y),
         NEW x \in Int, x # y, x - y < Word, y - x < Word
  PROVE  ~IsRest(r, x)
<1> SUFFICES ASSUME r = x % Word PROVE FALSE
  BY DEF IsRest
<1>1. Congruent(r, x)
  BY CongruentToRest
<1>2. Congruent(x, y)
  BY <1>1, CongruentChain
<1> QED
  BY <1>2, CongruentNear

(* As an archiver with a NUL behind its digits wrote it.                   *)
LEMMA WrittenPasses ==
  ASSUME NEW m \in Members, NEW h, Kept(h, m, 0), NEW junk \in Junk,
         \/ m.sumStyle = "nul"
         \/ m.sumStyle = "padded" /\ SumField(m, SumOf(m))[1] # 32
  PROVE  Passes(h, Ref(h, junk))
<1>1. Blanked(h) = With(m, Blank)
  BY BlankedIs
<1>2. Ref(h, junk) = SumOf(m)
  BY KeptSum, RefFacts
<1>3. SumOf(m) = UnsignedSum(m) \/ SumOf(m) = SignedSum(m)
  BY SumFacts
<1>4. IsRest(SumOf(m), SumOf(m))
  BY SumFacts, RestIs
<1>5. Total(Blanked(h)) = UnsignedSum(m) /\ Total(Chars(Blanked(h))) = SignedSum(m)
  BY <1>1 DEF UnsignedSum, SignedSum
<1> QED
  BY <1>2, <1>3, <1>4, <1>5 DEF Passes

(* With a blank behind the digits of its bytes' plain sum.                 *)
LEMMA BlankFails ==
  ASSUME NEW m \in Members, NEW h, Kept(h, m, 0), NEW junk \in Junk,
         m.sumStyle = "blank", ~m.signed
  PROVE  ~Passes(h, Ref(h, junk))
<1> DEFINE U == UnsignedSum(m)
           S == SignedSum(m)
           r == Ref(h, junk)
           y == U * 8 + (0 - 16)
           L == Last1
<1>1. Total(Blanked(h)) = U /\ Total(Chars(Blanked(h))) = S
  <2>1. Blanked(h) = With(m, Blank)
    BY BlankedIs
  <2> QED
    BY <2>1 DEF UnsignedSum, SignedSum
<1>2. U \in Nat /\ U <= 255 * L /\ S \in Int /\ SumOf(m) = U
  BY SumFacts
<1>3. PICK k \in Nat : U = S + 256 * k /\ U >= 128 * k
  BY SumFacts
<1>4. r = (SumOf(m) * 8 + (0 - 16)) % Word
  BY KeptSum, RefFacts
<1>5. L \in Nat /\ L >= 1 /\ Word \in Nat /\ Word > 4096 * L
  BY Places, Width
<1> HIDE DEF U, S, r, L
<1>6. y \in Int
  BY <1>2
<1>7. r = y % Word
  BY <1>2, <1>4
<1> HIDE DEF y
<1>8. Congruent(r, y) /\ r \in Int
  <2>1. Congruent(y % Word, y) /\ y % Word \in 0..(Word - 1)
    BY <1>6, CongruentToRest
  <2> QED
    BY <1>5, <1>7, <2>1
<1>9. U # y /\ U - y < Word /\ y - U < Word
  BY <1>2, <1>5 DEF y
<1>10. S # y /\ S - y < Word /\ y - S < Word
  BY <1>2, <1>3, <1>5 DEF y
<1>11. ~IsRest(r, U) /\ ~IsRest(r, S)
  BY <1>2, <1>6, <1>8, <1>9, <1>10, RestIsNot
<1> QED
  BY <1>1, <1>11 DEF Passes, r

(* With blanks in front of the digits.                                     *)
LEMMA PaddedFails ==
  ASSUME NEW m \in Members, NEW h, Kept(h, m, 0), NEW junk \in Junk,
         m.sumStyle = "padded", SumField(m, SumOf(m))[1] = 32
  PROVE  ~Passes(h, Ref(h, junk))
<1> DEFINE U == UnsignedSum(m)
           S == SignedSum(m)
           r == Ref(h, junk)
           n == SumOf(m)
           P == Powers(SumLen)[SumLen]
           L == Last1
<1>1. Total(Blanked(h)) = U /\ Total(Chars(Blanked(h))) = S
  <2>1. Blanked(h) = With(m, Blank)
    BY BlankedIs
  <2> QED
    BY <2>1 DEF UnsignedSum, SignedSum
<1>2. U \in Nat /\ U <= 255 * L /\ S \in Int /\ (n = U \/ n = S) /\ n \in Nat
  BY SumFacts
<1>3. PICK k \in Nat : U = S + 256 * k /\ U >= 128 * k
  BY SumFacts
<1>4. HasSum(h, m)
  BY KeptSum
<1>5. PICK d \in Nat : Congruent(r, n - d) /\ d >= 16 * (n + 1) /\ d < 3 * P
  BY <1>4, RefFacts
<1>6. r \in 0..(Word - 1)
  BY <1>4, RefFacts
<1>7. L \in Nat /\ L >= 1 /\ Word \in Nat /\ Word > 4096 * L + 4 * P /\ P \in Nat
  BY Places, Width
<1> HIDE DEF U, S, r, n, P, L
<1>8. r \in Int /\ n - d \in Int
  BY <1>2, <1>5, <1>6, <1>7
<1>9. 256 * k <= 510 * L
  BY <1>2, <1>3, <1>7
<1>10. U # n - d /\ U - (n - d) < Word /\ (n - d) - U < Word
  BY <1>2, <1>3, <1>5, <1>7, <1>9
<1>11. S # n - d /\ S - (n - d) < Word /\ (n - d) - S < Word
  BY <1>2, <1>3, <1>5, <1>7, <1>9
<1>12. ~IsRest(r, U) /\ ~IsRest(r, S)
  BY <1>2, <1>5, <1>8, <1>10, <1>11, RestIsNot
<1> QED
  BY <1>1, <1>12 DEF Passes, r

(* With a byte that is no longer what was written.                         *)
LEMMA DamagedFails ==
  ASSUME NEW m \in Members, NEW h, NEW d \in Nat \ {0}, Kept(h, m, d), NEW junk \in Junk,
         m.sumStyle = "nul"
  PROVE  ~Passes(h, Ref(h, junk))
<1> DEFINE U == UnsignedSum(m)
           S == SignedSum(m)
           r == Ref(h, junk)
           n == SumOf(m)
           L == Last1
           V == Total(Blanked(h))
           T == Total(Chars(Blanked(h)))
           B == Blanked(h)
           W == With(m, Blank)
<1>1. /\ B \in Seq(Byte) /\ Len(B) = L /\ W \in Seq(Byte) /\ Len(W) = L
      /\ d \in 1..L /\ B[d] # W[d]
      /\ \A i \in 1..L : i # d => B[i] = W[i]
  BY BlankedIs
<1>2. U = Total(W) /\ S = Total(Chars(W))
  BY DEF UnsignedSum, SignedSum
<1>3. U \in Nat /\ U <= 255 * L /\ S \in Int /\ (n = U \/ n = S) /\ n \in Nat
  BY SumFacts
<1>4. PICK k \in Nat : U = S + 256 * k /\ U >= 128 * k
  BY SumFacts
<1>5. r = n
  BY KeptSum, RefFacts
<1>6. L \in Nat /\ L >= 1 /\ Word \in Nat /\ Word > 4096 * L
  BY Places, Width
<1>7. V \in Nat /\ T \in Int
  <2> HIDE DEF B
  <2> QED
    BY <1>1, SumsDiffer DEF B
<1> HIDE DEF B, W
<1>8. /\ Total(B) # Total(W)
      /\ Total(B) - Total(W) >= -255 /\ Total(B) - Total(W) <= 255
      /\ Total(Chars(B)) # Total(Chars(W))
      /\ Total(Chars(B)) - Total(Chars(W)) >= -255 /\ Total(Chars(B)) - Total(Chars(W)) <= 255
  BY <1>1, WrongByte
<1>9. V # U /\ V - U >= -255 /\ V - U <= 255 /\ T # S /\ T - S >= -255 /\ T - S <= 255
  BY <1>2, <1>8 DEF B
<1> HIDE DEF U, S, r, n, L, V, T
<1>10. 256 * k <= 510 * L
  BY <1>3, <1>4, <1>6
<1>11. V # n /\ V - n < Word /\ n - V < Word
  BY <1>3, <1>4, <1>6, <1>7, <1>9, <1>10
<1>12. T # n /\ T - n < Word /\ n - T < Word
  BY <1>3, <1>4, <1>6, <1>7, <1>9, <1>10
<1>13. n \in Int /\ V \in Int /\ Congruent(n, n)
  BY <1>3, <1>7, CongruentToSelf
<1>14. ~IsRest(n, V) /\ ~IsRest(n, T)
  BY <1>7, <1>11, <1>12, <1>13, RestIsNot
<1> QED
  BY <1>5, <1>14 DEF Passes, r, V, T

-----------------------------------------------------------------------------
(***************************************************************************)
(* The name.                                                               *)
(***************************************************************************)
LEMMA StringSame ==
  ASSUME NEW t \in Texts, NEW s \in Seq(Byte), NEW i \in Nat \ {0},
         i + Len(t) <= Len(s), s[i + Len(t)] = 0, \A j \in 1..Len(t) : s[(i - 1) + j] = t[j]
  PROVE  CString(s, i) = t
<1> DEFINE c == CString(s, i)
           e == i + Len(t)
<1>1. t \in Seq(Byte) /\ Len(t) \in Nat /\ \A j \in 1..Len(t) : t[j] # 0
  BY TextFacts
<1>2. Len(s) \in Nat
  BY LenProperties
<1>3. \A k \in i..(e - 1) : s[k] # 0
  <2> SUFFICES ASSUME NEW k \in i..(e - 1) PROVE s[k] # 0
    OBVIOUS
  <2> DEFINE j == k - i + 1
  <2>1. j \in 1..Len(t) /\ (i - 1) + j = k
    BY <1>1
  <2> HIDE DEF j
  <2>2. s[(i - 1) + j] = t[j] /\ t[j] # 0
    BY <1>1, <2>1
  <2> QED
    BY <2>1, <2>2
<1>4. i \in 1..(Len(s) + 1) /\ e \in Nat /\ e - i = Len(t)
  BY <1>1, <1>2
<1>5. EndAt(s, i, e)
  <2>1. e \in i..(Len(s) + 1) /\ s[e] = 0
    BY <1>1, <1>2
  <2> QED
    BY <1>3, <2>1 DEF EndAt
<1> HIDE DEF e
<1>6. StringFrom(c, s, i, e)
  BY <1>4, <1>5, StringIs
<1> HIDE DEF c
<1>7. c \in Seq(Byte) /\ Len(c) = Len(t) /\ \A j \in 1..Len(t) : c[j] = t[j]
  BY <1>4, <1>6 DEF StringFrom
<1>8. c = t
  BY <1>1, <1>7, SeqEqual
<1> QED
  BY <1>8 DEF c

(* Filename, of the header h.                                              *)
NameOf(h) ==
  LET text   == CString(h, 1)
      prefix == CString(h, PrefixAt)
  IN  IF prefix = << >>
      THEN IF Len(text) < NameLen THEN text ELSE SubSeq(text, 1, NameLen)
      ELSE prefix \o <<47>> \o text

LEMMA NameType ==
  ASSUME NEW h \in Seq(Byte), Len(h) = Last1
  PROVE  NameOf(h) \in Texts
<1> DEFINE text == CString(h, 1)
           prefix == CString(h, PrefixAt)
           S == Byte \ {0}
<1>1. 1 \in 1..(Len(h) + 1) /\ PrefixAt \in 1..(Len(h) + 1)
  BY Places
<1>2. text \in Texts /\ prefix \in Texts
  BY <1>1, StringText
<1>3. text \in Seq(S) /\ prefix \in Seq(S)
  BY <1>2 DEF Texts
<1>4. <<47>> \in Seq(S)
  BY DEF Byte
<1> HIDE DEF text, prefix, S
<1>5. prefix \o <<47>> \o text \in Seq(S)
  <2>1. prefix \o <<47>> \in Seq(S)
    BY <1>3, <1>4, ConcatProperties
  <2> QED
    BY <1>3, <2>1, ConcatProperties
<1>6. Len(text) \in Nat /\ NameLen \in Nat
  BY <1>3, LenProperties, Places
<1>7. CASE Len(text) >= NameLen
  <2>1. \A i \in 1..NameLen : text[i] \in S
    BY <1>3, <1>6, <1>7, ElementOfSeq
  <2>2. 1 \in Int /\ NameLen \in Int
    BY <1>6
  <2>3. SubSeq(text, 1, NameLen) \in Seq(S)
    BY <2>1, <2>2, SubSeqProperties
  <2>4. ~(Len(text) < NameLen)
    BY <1>6, <1>7
  <2> QED
    BY <1>5, <2>3, <2>4 DEF NameOf, Texts, text, prefix, S
<1>8. CASE Len(text) < NameLen
  BY <1>3, <1>5, <1>8 DEF NameOf, Texts, text, prefix, S
<1> QED
  BY <1>6, <1>7, <1>8

(* The name field ends the string that begins with it, or the next does.   *)
LEMMA TextOf ==
  ASSUME NEW m \in Members, NEW h, NEW sum, Layout(h, m, sum)
  PROVE  CString(h, 1) = IF Len(m.name) < NameLen THEN m.name ELSE m.name \o <<54>>
<1> DEFINE n == Len(m.name)
<1>1. m.name \in Texts /\ n \in 1..NameLen /\ m.name \in Seq(Byte)
  BY MembersAssumption, TextFacts
<1>2. h \in Seq(Byte) /\ Len(h) = Last1
  BY DEF Layout
<1>3. Last1 > NameLen + 2 /\ NameLen \in Nat /\ n \in Nat
  BY <1>1, Places
<1>4. \A i \in 1..NameLen : h[i] = IF i <= n THEN m.name[i] ELSE 0
  <2>1. \A i \in 1..NameLen : Field(m.name, NameLen)[i] = IF i <= n THEN m.name[i] ELSE 0
    BY <1>1, <1>3, FieldType
  <2> QED
    BY <2>1 DEF Layout
<1>5. h[NameLen + 1] = 54 /\ h[NameLen + 2] = 0
  BY DEF Layout
<1> HIDE DEF n
<1>6. 1 \in Nat \ {0} /\ \A j \in 1..NameLen : (1 - 1) + j = j
  BY <1>3
<1>7. CASE n < NameLen
  <2>1. h[1 + n] = 0
    BY <1>3, <1>4, <1>7
  <2>2. \A j \in 1..n : h[(1 - 1) + j] = m.name[j]
    BY <1>3, <1>4, <1>6, <1>7
  <2>3. 1 + n <= Len(h)
    BY <1>2, <1>3, <1>7
  <2>4. CString(h, 1) = m.name
    BY <1>1, <1>2, <1>6, <2>1, <2>2, <2>3, StringSame DEF n
  <2> QED
    BY <1>7, <2>4 DEF n
<1>8. CASE ~(n < NameLen)
  <2> DEFINE M == <<54>>
             t == m.name \o M
  <2>1. n = NameLen
    BY <1>1, <1>3, <1>8 DEF n
  <2>2. M \in Seq(Byte \ {0}) /\ Len(M) = 1 /\ M[1] = 54
    BY DEF Byte
  <2> HIDE DEF M
  <2>3. m.name \in Seq(Byte \ {0})
    BY <1>1 DEF Texts
  <2>4. t \in Seq(Byte \ {0}) /\ Joined(t, m.name, M)
    BY <2>2, <2>3, JoinedSeq
  <2> HIDE DEF t
  <2>5. t \in Texts /\ Len(t) = NameLen + 1
    BY <1>3, <2>1, <2>2, <2>4 DEF Joined, Texts, n
  <2>6. t[NameLen + 1] = 54 /\ \A j \in 1..NameLen : t[j] = m.name[j]
    BY <1>3, <2>1, <2>2, <2>4 DEF Joined, n
  <2>7. \A j \in 1..(NameLen + 1) : h[(1 - 1) + j] = t[j]
    <3> SUFFICES ASSUME NEW j \in 1..(NameLen + 1) PROVE h[(1 - 1) + j] = t[j]
      OBVIOUS
    <3>1. CASE j = NameLen + 1
      BY <1>3, <1>5, <2>6, <3>1
    <3>2. CASE j # NameLen + 1
      <4>1. j \in 1..NameLen
        BY <1>3, <3>2
      <4> QED
        BY <1>3, <1>4, <1>6, <2>1, <2>6, <4>1
    <3> QED
      BY <3>1, <3>2
  <2>8. 1 + Len(t) <= Len(h) /\ h[1 + Len(t)] = 0
    BY <1>2, <1>3, <1>5, <2>5
  <2>9. CString(h, 1) = t
    BY <1>2, <1>6, <2>5, <2>7, <2>8, StringSame
  <2> QED
    BY <1>8, <2>9 DEF t, M, n
<1> QED
  BY <1>7, <1>8

LEMMA PrefixOf ==
  ASSUME NEW m \in Members, NEW h, NEW sum, Layout(h, m, sum)
  PROVE  CString(h, PrefixAt) = m.prefix \o m.times
<1> DEFINE t == m.prefix \o m.times
           F == Field(t, PrefixLen)
           a == PrefixAt
<1>1. m.prefix \in Seq(Byte \ {0}) /\ m.times \in Seq(Byte \ {0})
  BY MembersAssumption DEF Texts
<1>2. t \in Texts
  BY <1>1, ConcatProperties DEF Texts
<1>3. Len(t) <= PrefixLen
  <2>1. m.prefix = << >> \/ m.times = << >>
    BY MembersAssumption
  <2>2. t = m.prefix \/ t = m.times
    BY <1>1, <2>1, ConcatEmptySeq
  <2>3. Len(m.prefix) <= PrefixLen /\ Len(m.times) <= PrefixLen
    <3>1. Len(m.prefix) <= PrefixLen /\ Len(m.times) < PrefixLen
      BY MembersAssumption
    <3>2. Len(m.times) \in Nat
      BY <1>1, LenProperties
    <3> QED
      BY <3>1, <3>2, Places
  <2> QED
    BY <2>2, <2>3
<1> HIDE DEF t
<1>4. t \in Seq(Byte) /\ Len(t) \in Nat
  BY <1>2, TextFacts
<1>5. a \in Nat \ {0} /\ a + PrefixLen = Last1 /\ PrefixLen \in Nat
      /\ a - 1 = NameLen + SizeLen + MtimeLen + SumLen + 3
  BY Places
<1>6. \A i \in 1..PrefixLen : F[i] = IF i <= Len(t) THEN t[i] ELSE 0
  BY <1>4, <1>5, FieldType
<1>7. \A i \in 1..PrefixLen : h[(a - 1) + i] = F[i]
  <2> SUFFICES ASSUME NEW i \in 1..PrefixLen PROVE h[(a - 1) + i] = F[i]
    OBVIOUS
  <2>1. h[NameLen + SizeLen + MtimeLen + SumLen + 3 + i] = F[i]
    BY DEF Layout, t
  <2> HIDE DEF F, a
  <2> QED
    BY <1>5, <2>1
<1>8. h \in Seq(Byte) /\ Len(h) = Last1 /\ h[Last1] = 0
  BY DEF Layout
<1> HIDE DEF F, a
<1>9. \A j \in 1..Len(t) : h[(a - 1) + j] = t[j]
  BY <1>3, <1>4, <1>5, <1>6, <1>7
<1>10. h[a + Len(t)] = 0 /\ a + Len(t) <= Len(h)
  <2>1. CASE Len(t) = PrefixLen
    BY <1>5, <1>8, <2>1
  <2>2. CASE Len(t) < PrefixLen
    <3> DEFINE i == Len(t) + 1
    <3>1. i \in 1..PrefixLen /\ (a - 1) + i = a + Len(t) /\ ~(i <= Len(t))
      BY <1>4, <1>5, <2>2
    <3> HIDE DEF i
    <3>2. h[(a - 1) + i] = 0
      BY <1>6, <1>7, <3>1
    <3>3. a + Len(t) <= Len(h)
      BY <1>4, <1>5, <1>8, <2>2
    <3> QED
      BY <3>1, <3>2, <3>3
  <2> QED
    BY <1>3, <1>4, <1>5, <2>1, <2>2
<1>11. CString(h, a) = t
  BY <1>2, <1>5, <1>8, <1>9, <1>10, StringSame
<1> QED
  BY <1>11 DEF t, a

(* The name is the one meant exactly if it says so.                        *)
LEMMA NameOfWritten ==
  ASSUME NEW m \in Members, NEW h, NEW sum, Layout(h, m, sum)
  PROVE  NameOf(h) = Meant(m) <=>
           /\ m.times = << >>
           /\ m.prefix # << >> => Len(m.name) < NameLen
<1> DEFINE S == Byte \ {0}
           text == CString(h, 1)
           prefix == CString(h, PrefixAt)
           slash == <<47>>
           six == <<54>>
<1>1. /\ m.name \in Seq(S) /\ m.prefix \in Seq(S) /\ m.times \in Seq(S)
      /\ Len(m.name) \in 1..NameLen /\ (m.prefix = << >> \/ m.times = << >>)
  BY MembersAssumption DEF Texts
<1>2. slash \in Seq(S) /\ Len(slash) = 1 /\ six \in Seq(S) /\ Len(six) = 1
  BY DEF Byte
<1>3. text = IF Len(m.name) < NameLen THEN m.name ELSE m.name \o six
  BY TextOf
<1>4. prefix = m.prefix \o m.times
  BY PrefixOf
<1>5. NameOf(h) = IF prefix = << >>
                  THEN IF Len(text) < NameLen THEN text ELSE SubSeq(text, 1, NameLen)
                  ELSE prefix \o slash \o text
  BY DEF NameOf
<1>6. Meant(m) = IF m.prefix = << >> THEN m.name ELSE m.prefix \o slash \o m.name
  BY DEF Meant
<1> HIDE DEF S, text, prefix, slash, six
<1>7. NameLen \in Nat /\ Len(m.name) \in Nat
  BY <1>1, Places
<1>8. ASSUME Len(m.name) = NameLen
      PROVE  /\ text \in Seq(S) /\ Len(text) = NameLen + 1
             /\ \A i \in 1..NameLen : text[i] = m.name[i]
  <2>1. text = m.name \o six
    BY <1>3, <1>7, <1>8
  <2>2. text \in Seq(S) /\ Joined(text, m.name, six)
    BY <1>1, <1>2, <2>1, JoinedSeq
  <2> QED
    BY <1>2, <1>7, <1>8, <2>2 DEF Joined
<1>9. ASSUME Len(m.name) < NameLen
      PROVE  text = m.name
  BY <1>3, <1>9
<1>10. text \in Seq(S) /\ Len(text) \in Nat /\ Len(text) >= Len(m.name)
  BY <1>1, <1>7, <1>8, <1>9
<1>11. ASSUME NEW a \in Seq(S), NEW b \in Seq(S)
       PROVE  Len(a \o slash \o b) = Len(a) + 1 + Len(b)
  <2> DEFINE c == a \o slash
             d == c \o b
  <2>1. c \in Seq(S) /\ Joined(c, a, slash)
    BY <1>2, JoinedSeq
  <2> HIDE DEF c
  <2>2. Joined(d, c, b)
    BY <2>1, JoinedSeq
  <2> HIDE DEF d
  <2>3. Len(d) = Len(a) + 1 + Len(b)
    BY <1>2, <2>1, <2>2 DEF Joined
  <2> QED
    BY <2>3 DEF c, d
<1>12. CASE m.prefix = << >> /\ m.times = << >>
  <2>1. prefix = << >>
    BY <1>1, <1>4, <1>12, ConcatEmptySeq
  <2>2. CASE Len(m.name) < NameLen
    BY <1>5, <1>6, <1>9, <1>12, <2>1, <2>2
  <2>3. CASE Len(m.name) = NameLen
    <3> DEFINE c == SubSeq(text, 1, NameLen)
    <3>1. \A i \in 1..NameLen : text[i] \in S
      BY <1>7, <1>8, <2>3, ElementOfSeq
    <3>2. 1 \in Int /\ NameLen \in Int /\ 1 <= NameLen /\ NameLen - 1 + 1 = NameLen
      BY <1>7, Places
    <3>3. /\ c \in Seq(S) /\ Len(c) = NameLen
          /\ \A i \in 1..NameLen : c[i] = text[1 + i - 1]
      <4>1. /\ c \in Seq(S) /\ Len(c) = IF 1 <= NameLen THEN NameLen - 1 + 1 ELSE 0
            /\ \A i \in 1..(NameLen - 1 + 1) : c[i] = text[1 + i - 1]
        BY <3>1, <3>2, SubSeqProperties
      <4> HIDE DEF c
      <4> QED
        BY <3>2, <4>1
    <3> HIDE DEF c
    <3>4. \A i \in 1..NameLen : c[i] = m.name[i]
      <4> SUFFICES ASSUME NEW i \in 1..NameLen PROVE c[i] = m.name[i]
        OBVIOUS
      <4>1. 1 + i - 1 = i
        OBVIOUS
      <4> QED
        BY <1>8, <2>3, <3>3, <4>1
    <3>5. c = m.name
      BY <1>1, <2>3, <3>3, <3>4, SeqEqual
    <3>6. ~(Len(text) < NameLen)
      BY <1>7, <1>8, <2>3
    <3>7. NameOf(h) = m.name /\ Meant(m) = m.name
      BY <1>5, <1>6, <1>12, <2>1, <3>5, <3>6 DEF c
    <3> QED
      BY <1>12, <3>7
  <2> QED
    BY <1>1, <1>7, <2>2, <2>3
<1>13. CASE m.prefix = << >> /\ m.times # << >>
  <2>1. prefix = m.times /\ prefix # << >> /\ prefix \in Seq(S)
    BY <1>1, <1>4, <1>13, ConcatEmptySeq
  <2>2. Len(prefix) \in Nat /\ Len(NameOf(h)) = Len(prefix) + 1 + Len(text)
    BY <1>5, <1>10, <1>11, <2>1, LenProperties
  <2>3. Len(NameOf(h)) # Len(m.name)
    BY <1>7, <1>10, <2>2
  <2>4. Meant(m) = m.name
    BY <1>6, <1>13
  <2> QED
    BY <1>13, <2>3, <2>4
<1>14. CASE m.prefix # << >>
  <2>1. m.times = << >>
    BY <1>1, <1>14
  <2>2. prefix = m.prefix /\ prefix # << >> /\ prefix \in Seq(S)
    BY <1>1, <1>4, <1>14, <2>1, ConcatEmptySeq
  <2>3. NameOf(h) = prefix \o slash \o text /\ Meant(m) = prefix \o slash \o m.name
    BY <1>5, <1>6, <1>14, <2>2
  <2>4. CASE Len(m.name) < NameLen
    BY <1>9, <2>1, <2>3, <2>4
  <2>5. CASE Len(m.name) = NameLen
    <3>1. Len(NameOf(h)) = Len(prefix) + 1 + Len(text)
      BY <1>10, <1>11, <2>2, <2>3
    <3>2. Len(Meant(m)) = Len(prefix) + 1 + Len(m.name)
      BY <1>1, <1>11, <2>2, <2>3
    <3>3. Len(prefix) \in Nat /\ Len(text) = NameLen + 1
      BY <1>8, <2>2, <2>5, LenProperties
    <3>4. Len(NameOf(h)) # Len(Meant(m))
      BY <1>7, <2>5, <3>1, <3>2, <3>3
    <3>5. ~(Len(m.name) < NameLen)
      BY <1>7, <2>5
    <3> QED
      BY <1>14, <3>4, <3>5
  <2> QED
    BY <1>1, <1>7, <2>4, <2>5
<1> QED
  BY <1>12, <1>13, <1>14

-----------------------------------------------------------------------------
(***************************************************************************)
(* The size.                                                               *)
(***************************************************************************)
(* The first bytes getFileSize knows, and what it makes of the field.      *)
Readable == (48..57) \cup {128}

SizeOf(h) ==
  IF h[SizeAt] = 128
  THEN Base256(SubSeq(h, SizeAt + 1, SizeAt + SizeLen - 1))
  ELSE decode(CString(h, SizeAt), 8)

LEMMA SizeType ==
  ASSUME NEW h \in Seq(Byte), Len(h) = Last1
  PROVE  SizeOf(h) \in 0..(Word - 1)
<1>1. decode(CString(h, SizeAt), 8) \in 0..(Word - 1)
  <2>1. SizeAt \in 1..(Len(h) + 1)
    BY Places
  <2>2. CString(h, SizeAt) \in Seq(Byte)
    BY <2>1, StringText
  <2> QED
    BY <2>2, DecodeType
<1>2. Base256(SubSeq(h, SizeAt + 1, SizeAt + SizeLen - 1)) \in 0..(Word - 1)
  <2> DEFINE a == SizeAt + 1
             b == SizeAt + SizeLen - 1
  <2>1. a \in Int /\ b \in Int
    BY Places
  <2>2. \A i \in a..b : h[i] \in Int
    <3> SUFFICES ASSUME NEW i \in a..b PROVE h[i] \in Int
      OBVIOUS
    <3>1. i \in 1..Len(h)
      BY Places
    <3>2. h[i] \in Byte
      BY <3>1, ElementOfSeq
    <3>3. Byte \subseteq Int
      BY DEF Byte
    <3> QED
      BY <3>2, <3>3
  <2> HIDE DEF a, b
  <2>3. SubSeq(h, a, b) \in Seq(Int)
    BY <2>1, <2>2, SubSeqProperties
  <2>4. Base256(SubSeq(h, a, b)) \in 0..(Word - 1)
    BY <2>3, Base256Type
  <2> QED
    BY <2>4 DEF a, b
<1> QED
  BY <1>1, <1>2 DEF SizeOf

(* The size field.                                                         *)
HasSize(h, m) ==
  /\ h \in Seq(Byte) /\ Len(h) = Last1
  /\ SizeAt \in Nat \ {0} /\ SizeAt + SizeLen + 1 <= Len(h)
  /\ \A j \in 1..SizeLen : h[(SizeAt - 1) + j] = SizeField(m)[j]
  /\ h[SizeAt] = SizeField(m)[1]

LEMMA LayoutSize ==
  ASSUME NEW m \in Members, NEW h, NEW sum, Layout(h, m, sum)
  PROVE  HasSize(h, m)
<1>1. h \in Seq(Byte) /\ Len(h) = Last1
  BY DEF Layout
<1>2. SizeAt \in Nat \ {0} /\ SizeAt + SizeLen + 1 <= Last1 /\ SizeAt - 1 = NameLen + 2
  BY Places
<1>3. \A j \in 1..SizeLen : h[(SizeAt - 1) + j] = SizeField(m)[j]
  <2> SUFFICES ASSUME NEW j \in 1..SizeLen PROVE h[(SizeAt - 1) + j] = SizeField(m)[j]
    OBVIOUS
  <2>1. h[NameLen + 2 + j] = SizeField(m)[j]
    BY DEF Layout
  <2> QED
    BY <1>2, <2>1
<1>4. h[SizeAt] = SizeField(m)[1]
  <2>1. 1 \in 1..SizeLen /\ (SizeAt - 1) + 1 = SizeAt
    BY Places
  <2> QED
    BY <1>3, <2>1
<1> QED
  BY <1>1, <1>2, <1>3, <1>4 DEF HasSize

(* Octal digits at the field's front.                                      *)
LEMMA SizeDigits ==
  ASSUME NEW m \in Members, NEW h, HasSize(h, m), NEW w \in Nat, w >= 1, w <= SizeLen,
         Fits(m.size, 8, w), \A j \in 1..w : SizeField(m)[j] = Octal(m.size, w)[j]
  PROVE  /\ OctalFrom(h, SizeAt, m.size, w)
         /\ m.size \in Nat /\ m.size < Word
         /\ h[SizeAt] \in 48..55
         /\ SizeOf(h) = decode(CString(h, SizeAt), 8)
<1> DEFINE n == m.size
           i == SizeAt
           P == Powers(SizeLen)[SizeLen]
<1>1. n \in Nat
  BY MembersAssumption
<1>2. SizeLen \in Nat
  BY Places
<1>3. n < P
  BY <1>1, <1>2, FitsBelow
<1>4. n < Word
  <2>1. P \in Nat /\ Word \in Nat /\ Word > P
    BY Width
  <2> HIDE DEF n, P
  <2> QED
    BY <1>1, <1>3, <2>1
<1>5. \A j \in 1..w : h[(i - 1) + j] = Octal(n, w)[j]
  <2>1. \A j \in 1..w : j \in 1..SizeLen
    BY <1>2
  <2> QED
    BY <2>1 DEF HasSize
<1>6. OctalFrom(h, i, n, w)
  <2>1. i + w <= Len(h)
    <3>1. i \in Nat /\ Len(h) \in Nat /\ i + SizeLen + 1 <= Len(h)
      BY LenProperties DEF HasSize
    <3> HIDE DEF i
    <3> QED
      BY <1>2, <3>1
  <2> QED
    BY <1>5, <2>1 DEF OctalFrom
<1>7. h[i] \in 48..55
  <2>1. 1 \in 1..w
    OBVIOUS
  <2>2. Octal(n, w)[1] \in 48..55
    BY <1>1, <2>1, OctalType
  <2> QED
    BY <2>1, <2>2 DEF HasSize
<1>8. h[i] # 128
  BY <1>7
<1> QED
  BY <1>1, <1>4, <1>6, <1>7, <1>8 DEF SizeOf

(* What a field without a NUL makes with what follows it.                  *)
RunOn(h, m) == Shifted(Unended(m), CString(h, MtimeAt))

(* Which sizes come out as they were written.                              *)
Comes(m) ==
  \/ m.sizeStyle \in {"nul", "padded"}
  \/ m.sizeStyle = "base256" /\ m.size < Word
  \/ m.sizeStyle \in {"full", "blank"} /\ m.size = RunOn(Written(m), m)

(* Which are not for the code.                                             *)
Malformed(m) ==
  m.sizeStyle = "minus" \/ (m.sizeStyle = "padded" /\ SizeField(m)[1] = 32)

LEMMA OctalSize ==
  ASSUME NEW m \in Members, NEW h, HasSize(h, m), m.sizeStyle \in {"nul", "padded"},
         SizeField(m)[1] # 32
  PROVE  h[SizeAt] \in 48..55 /\ SizeOf(h) = m.size
<1> DEFINE f == SizeField(m)
           w == SizeLen - 1
           n == m.size
<1>1. n \in Nat /\ Fits(n, 8, w)
  BY MembersAssumption
<1>2. w \in Nat /\ w >= 1 /\ w <= SizeLen /\ w + 1 = SizeLen
  BY Places
<1>3. \A j \in 1..w : f[j] = Octal(n, w)[j]
  <2>1. CASE m.sizeStyle = "nul"
    <3>1. Joined(f, Octal(n, w), <<0>>)
      BY <2>1, SizeFieldType
    <3>2. Len(Octal(n, w)) = w
      BY <1>1, <1>2, OctalType
    <3> QED
      BY <3>1, <3>2 DEF Joined
  <2>2. CASE m.sizeStyle = "padded"
    <3>1. Joined(f, Padded(n, w), <<0>>)
      BY <2>2, SizeFieldType
    <3>2. Len(Padded(n, w)) = w
      BY <1>1, <1>2, PaddedType
    <3> HIDE DEF f, w, n
    <3>3. \A j \in 1..w : f[j] = Padded(n, w)[j]
      BY <3>1, <3>2 DEF Joined
    <3>4. 1 \in 1..w
      BY <1>2
    <3>5. Padded(n, w)[1] # 32
      BY <3>3, <3>4 DEF f
    <3> QED
      BY <1>1, <1>2, <3>3, <3>5, PaddedIsOctal
  <2> QED
    BY <2>1, <2>2
<1>4. f[SizeLen] = 0
  <2>1. Len(<<0>>) = 1 /\ <<0>>[1] = 0
    OBVIOUS
  <2>2. CASE m.sizeStyle = "nul"
    <3>1. Joined(f, Octal(n, w), <<0>>)
      BY <2>2, SizeFieldType
    <3>2. Len(Octal(n, w)) = w
      BY <1>1, <1>2, OctalType
    <3> HIDE DEF f, w, n
    <3> QED
      BY <1>2, <2>1, <3>1, <3>2 DEF Joined
  <2>3. CASE m.sizeStyle = "padded"
    <3>1. Joined(f, Padded(n, w), <<0>>)
      BY <2>3, SizeFieldType
    <3>2. Len(Padded(n, w)) = w
      BY <1>1, <1>2, PaddedType
    <3> HIDE DEF f, w, n
    <3> QED
      BY <1>2, <2>1, <3>1, <3>2 DEF Joined
  <2> QED
    BY <2>2, <2>3
<1> HIDE DEF w
<1>5. /\ OctalFrom(h, SizeAt, n, w) /\ n < Word /\ h[SizeAt] \in 48..55
      /\ SizeOf(h) = decode(CString(h, SizeAt), 8)
  BY <1>1, <1>2, <1>3, SizeDigits
<1>6. h \in Seq(Byte) /\ SizeAt \in Nat \ {0}
  BY DEF HasSize
<1>7. h[SizeAt + w] = 0
  <2>1. SizeLen \in 1..SizeLen /\ (SizeAt - 1) + SizeLen = SizeAt + w
    BY <1>2, Places
  <2>2. h[(SizeAt - 1) + SizeLen] = f[SizeLen]
    BY <2>1 DEF HasSize
  <2> QED
    BY <1>4, <2>1, <2>2
<1> HIDE DEF n
<1>8. decode(CString(h, SizeAt), 8) = n
  BY <1>1, <1>2, <1>5, <1>6, <1>7, OctalThenNul
<1> QED
  BY <1>5, <1>8 DEF n

(* Digits that fill the field, or a blank behind them, are followed by the *)
(* next field.                                                             *)
LEMMA RunsIntoNext ==
  ASSUME NEW m \in Members, NEW h \in Seq(Byte), SizeAt + SizeLen <= Len(h),
         SizeAt \in Nat \ {0}, \A k \in SizeAt..(SizeAt + SizeLen - 1) : h[k] # 0,
         Unended(m) \in Int,
         Congruent(Numbers(Values(CString(h, SizeAt)), 8)[SizeLen], Unended(m))
  PROVE  decode(CString(h, SizeAt), 8) = RunOn(h, m)
<1> DEFINE i == SizeAt
           w == SizeLen
           X == Unended(m)
<1>1. MtimeAt = i + w /\ Len(h) \in Nat
  BY LenProperties, Places
<1>2. /\ i \in Nat \ {0} /\ w \in Nat /\ i + w <= Len(h) + 1 /\ X \in Int
      /\ \A k \in i..(i + w - 1) : h[k] # 0
      /\ Congruent(Numbers(Values(CString(h, i)), 8)[w], X)
  BY <1>1, Places
<1> HIDE DEF i, w, X
<1>3. decode(CString(h, i), 8) = Shifted(X, CString(h, i + w))
  BY <1>2, RunsOn
<1> QED
  BY <1>1, <1>3 DEF RunOn, i, X

LEMMA FullSize ==
  ASSUME NEW m \in Members, NEW h, HasSize(h, m), m.sizeStyle = "full"
  PROVE  h[SizeAt] \in 48..55 /\ SizeOf(h) = RunOn(h, m)
<1> DEFINE w == SizeLen
           n == m.size
<1>1. n \in Nat /\ Fits(n, 8, w)
  BY MembersAssumption
<1>2. w \in Nat /\ w >= 1 /\ w <= SizeLen
  BY Places
<1>3. \A j \in 1..w : SizeField(m)[j] = Octal(n, w)[j]
  BY SizeFieldType
<1> HIDE DEF w
<1>4. /\ OctalFrom(h, SizeAt, n, w) /\ n < Word /\ h[SizeAt] \in 48..55
      /\ SizeOf(h) = decode(CString(h, SizeAt), 8)
  BY <1>1, <1>2, <1>3, SizeDigits
<1>5. h \in Seq(Byte) /\ SizeAt \in Nat \ {0} /\ SizeAt + w + 1 <= Len(h) /\ Len(h) \in Nat
  BY LenProperties DEF HasSize, w
<1>6. \A k \in SizeAt..(SizeAt + w - 1) : h[k] # 0
  <2>1. \A k \in SizeAt..(SizeAt + w - 1) : h[k] \in 48..55
    BY <1>1, <1>2, <1>4, <1>5, OctalRuns
  <2> QED
    BY <2>1
<1>7. PICK e \in (SizeAt + w)..(Len(h) + 1) : EndAt(h, SizeAt + w, e)
  <2>1. SizeAt + w \in 1..(Len(h) + 1)
    BY <1>2, <1>5
  <2> QED
    BY <1>5, <2>1, StringEnds
<1>8. e \in Nat /\ SizeAt + w <= e /\ EndAt(h, SizeAt, e)
  BY <1>2, <1>5, <1>6, <1>7 DEF EndAt
<1> HIDE DEF n
<1>9. Numbers(Values(CString(h, SizeAt)), 8)[w] = n
  BY <1>1, <1>2, <1>4, <1>5, <1>8, OctalString
<1>10. Unended(m) = n
  BY DEF Unended, n
<1>11. Congruent(Numbers(Values(CString(h, SizeAt)), 8)[SizeLen], Unended(m))
  <2>1. Congruent(n, n)
    BY <1>1, CongruentToSelf
  <2> QED
    BY <1>9, <1>10, <2>1 DEF w
<1>12. /\ SizeAt + SizeLen <= Len(h) /\ Unended(m) \in Int
       /\ \A k \in SizeAt..(SizeAt + SizeLen - 1) : h[k] # 0
  <2>1. SizeAt + w <= Len(h)
    BY <1>2, <1>5
  <2> QED
    BY <1>1, <1>6, <1>10, <2>1 DEF w
<1>13. decode(CString(h, SizeAt), 8) = RunOn(h, m)
  BY <1>5, <1>11, <1>12, RunsIntoNext
<1> QED
  BY <1>4, <1>13

LEMMA BlankSize ==
  ASSUME NEW m \in Members, NEW h, HasSize(h, m), m.sizeStyle = "blank"
  PROVE  h[SizeAt] \in 48..55 /\ SizeOf(h) = RunOn(h, m)
<1> DEFINE w == SizeLen - 1
           n == m.size
           f == SizeField(m)
           c == CString(h, SizeAt)
           num == Numbers(Values(c), 8)
<1>1. n \in Nat /\ Fits(n, 8, w)
  BY MembersAssumption
<1>2. w \in Nat /\ w >= 1 /\ w <= SizeLen /\ w + 1 = SizeLen
  BY Places
<1>3. /\ \A j \in 1..w : f[j] = Octal(n, w)[j]
      /\ f[SizeLen] = 32
  <2>1. Joined(f, Octal(n, w), <<32>>)
    BY SizeFieldType
  <2>2. Len(Octal(n, w)) = w
    BY <1>1, <1>2, OctalType
  <2>3. Len(<<32>>) = 1 /\ <<32>>[1] = 32
    OBVIOUS
  <2> HIDE DEF f, w, n
  <2> QED
    BY <1>2, <2>1, <2>2, <2>3 DEF Joined
<1> HIDE DEF w
<1>4. /\ OctalFrom(h, SizeAt, n, w) /\ n < Word /\ h[SizeAt] \in 48..55
      /\ SizeOf(h) = decode(CString(h, SizeAt), 8)
  BY <1>1, <1>2, <1>3, SizeDigits
<1>5. h \in Seq(Byte) /\ SizeAt \in Nat \ {0} /\ Len(h) \in Nat /\ SizeAt + SizeLen + 1 <= Len(h)
  BY LenProperties DEF HasSize
<1>6. h[SizeAt + w] = 32
  <2>1. SizeLen \in 1..SizeLen /\ (SizeAt - 1) + SizeLen = SizeAt + w
    BY <1>2, Places
  <2>2. h[(SizeAt - 1) + SizeLen] = f[SizeLen]
    BY <2>1 DEF HasSize
  <2> QED
    BY <1>3, <2>1, <2>2
<1>7. \A k \in SizeAt..(SizeAt + SizeLen - 1) : h[k] # 0
  <2> SUFFICES ASSUME NEW k \in SizeAt..(SizeAt + SizeLen - 1) PROVE h[k] # 0
    OBVIOUS
  <2>1. \A j \in SizeAt..(SizeAt + w - 1) : h[j] # 0
    <3>1. \A j \in SizeAt..(SizeAt + w - 1) : h[j] \in 48..55
      BY <1>1, <1>2, <1>4, <1>5, OctalRuns
    <3> QED
      BY <3>1
  <2>2. k \in SizeAt..(SizeAt + w - 1) \/ k = SizeAt + w
    BY <1>2, <1>5
  <2> QED
    BY <1>6, <2>1, <2>2
<1>8. PICK e \in (SizeAt + SizeLen)..(Len(h) + 1) : EndAt(h, SizeAt + SizeLen, e)
  <2>1. SizeAt + SizeLen \in 1..(Len(h) + 1)
    BY <1>2, <1>5
  <2> QED
    BY <1>5, <2>1, StringEnds
<1>9. e \in Nat /\ SizeAt + w <= e /\ SizeAt + SizeLen <= e /\ EndAt(h, SizeAt, e)
  BY <1>2, <1>5, <1>7, <1>8 DEF EndAt
<1> HIDE DEF n
<1>10. StringFrom(c, h, SizeAt, e) /\ num[w] = n
  BY <1>1, <1>2, <1>4, <1>5, <1>9, OctalString
<1> HIDE DEF c
<1>11. c \in Seq(Byte) /\ SizeLen \in 1..Len(c) /\ c[SizeLen] = 32
  <2>1. c \in Seq(Byte) /\ Len(c) = e - SizeAt /\ SizeLen \in 1..(e - SizeAt)
    BY <1>2, <1>5, <1>9, <1>10 DEF StringFrom
  <2>2. c[SizeLen] = h[(SizeAt - 1) + SizeLen]
    BY <1>10, <2>1 DEF StringFrom
  <2>3. (SizeAt - 1) + SizeLen = SizeAt + w
    BY <1>2, <1>5
  <2> QED
    BY <1>6, <2>1, <2>2, <2>3
<1>12. num[SizeLen] = (num[SizeLen - 1] * 8 + (Char(c[SizeLen]) - 48)) % Word
  BY <1>11, DecodeMore
<1>13. Unended(m) = 8 * n - 16
  BY DEF Unended, n
<1>14. Congruent(num[SizeLen], Unended(m))
  <2>1. SizeLen - 1 = w
    BY <1>2
  <2>2. Char(c[SizeLen]) - 48 = -16
    BY <1>11 DEF Char
  <2> HIDE DEF num
  <2>3. num[SizeLen] = (n * 8 + (-16)) % Word
    BY <1>10, <1>12, <2>1, <2>2
  <2>4. n * 8 + (-16) = 8 * n - 16 /\ 8 * n - 16 \in Int
    BY <1>1
  <2>5. Congruent((8 * n - 16) % Word, 8 * n - 16)
    BY <2>4, CongruentToRest
  <2> QED
    BY <1>13, <2>3, <2>4, <2>5
<1>15. Congruent(Numbers(Values(CString(h, SizeAt)), 8)[SizeLen], Unended(m))
  BY <1>14 DEF c
<1>16. SizeAt + SizeLen <= Len(h) /\ Unended(m) \in Int
  BY <1>1, <1>2, <1>5, <1>13
<1>17. decode(CString(h, SizeAt), 8) = RunOn(h, m)
  BY <1>5, <1>7, <1>15, <1>16, RunsIntoNext
<1> QED
  BY <1>4, <1>17

LEMMA BinarySize ==
  ASSUME NEW m \in Members, NEW h, HasSize(h, m), m.sizeStyle = "base256"
  PROVE  h[SizeAt] = 128 /\ (SizeOf(h) = m.size <=> m.size < Word)
<1> DEFINE w == SizeLen - 1
           n == m.size
           f == SizeField(m)
           D == Digits(n, 256, w)
           a == SizeAt + 1
           b == SizeAt + SizeLen - 1
           s == SubSeq(h, a, b)
           M == <<128>>
<1>1. n \in Nat /\ Fits(n, 256, w)
  BY MembersAssumption
<1>2. w \in Nat /\ w + 1 = SizeLen
  BY Places
<1>3. Joined(f, M, D)
  BY SizeFieldType
<1>4. Len(D) = w
  <2>1. 256 \in Bases
    BY BasesAre
  <2> HIDE DEF w, n
  <2> QED
    BY <1>1, <1>2, <2>1, DigitsType
<1>5. Len(M) = 1 /\ M[1] = 128
  OBVIOUS
<1>6. /\ h \in Seq(Byte) /\ Len(h) = Last1 /\ SizeAt \in Nat \ {0} /\ SizeAt + SizeLen + 1 <= Len(h)
      /\ \A j \in 1..SizeLen : h[(SizeAt - 1) + j] = f[j]
      /\ h[SizeAt] = f[1]
  BY DEF HasSize
<1>7. \A i \in 1..Len(h) : h[i] \in Int
  <2>1. \A i \in 1..Len(h) : h[i] \in Byte
    BY <1>6, ElementOfSeq
  <2>2. Byte \subseteq Int
    BY DEF Byte
  <2> QED
    BY <2>1, <2>2
<1>8. Len(h) \in Nat
  BY <1>6, Places
<1> HIDE DEF f, w, n, D, M
<1>9. h[SizeAt] = 128
  BY <1>3, <1>5, <1>6 DEF Joined
<1>10. \A j \in 1..w : f[1 + j] = D[j]
  BY <1>3, <1>4, <1>5 DEF Joined
<1>11. a \in Int /\ b \in Int /\ b - a + 1 = w /\ \A i \in a..b : i \in 1..Len(h)
  BY <1>2, <1>6, <1>8
<1>12. \A i \in a..b : h[i] \in Int
  BY <1>7, <1>11
<1>13. \A j \in 1..w : a + j - 1 = (SizeAt - 1) + (1 + j) /\ 1 + j \in 1..SizeLen
  BY <1>2, <1>6
<1> HIDE DEF a, b
<1>14. /\ s \in Seq(Int) /\ Len(s) = (IF a <= b THEN b - a + 1 ELSE 0)
       /\ \A j \in 1..(b - a + 1) : s[j] = h[a + j - 1]
  BY <1>11, <1>12, SubSeqProperties
<1>15. Len(s) = w
  BY <1>2, <1>11, <1>14
<1> HIDE DEF s
<1>16. \A j \in 1..w : s[j] = D[j]
  <2> SUFFICES ASSUME NEW j \in 1..w PROVE s[j] = D[j]
    OBVIOUS
  <2>1. s[j] = h[a + j - 1]
    BY <1>11, <1>14
  <2>2. h[(SizeAt - 1) + (1 + j)] = f[1 + j]
    BY <1>6, <1>13
  <2> QED
    BY <1>10, <1>13, <2>1, <2>2
<1>17. SizeOf(h) = Base256(s)
  BY <1>9 DEF SizeOf, s, a, b
<1>18. Base256(s) \in 0..(Word - 1) /\ Base256(s) = Numbers(s, 256)[w]
  <2>1. Base256(s) \in 0..(Word - 1)
    BY <1>14, Base256Type
  <2>2. Base256(s) = Numbers(s, 256)[w]
    BY <1>15 DEF Base256, Number
  <2> QED
    BY <2>1, <2>2
<1>19. ASSUME n < Word
       PROVE  Numbers(s, 256)[w] = n
  <2>1. /\ n \in Nat /\ n < Word /\ w \in Nat /\ Fits(n, 256, w)
        /\ s \in Seq(Int) /\ w <= Len(s) /\ \A j \in 1..w : s[j] = Digits(n, 256, w)[j]
    BY <1>1, <1>2, <1>14, <1>15, <1>16, <1>19 DEF D
  <2> QED
    BY <2>1, BinaryMakes
<1>20. ASSUME ~(n < Word)
       PROVE  Base256(s) # n
  BY <1>1, <1>18, <1>20, Width
<1> QED
  BY <1>9, <1>17, <1>18, <1>19, <1>20 DEF n

LEMMA SizeOfWritten ==
  ASSUME NEW m \in Members, NEW h, h = Written(m)
  PROVE  /\ h[SizeAt] \notin Readable <=> Malformed(m)
         /\ ~Malformed(m) => (SizeOf(h) = m.size <=> Comes(m))
<1> DEFINE f == SizeField(m)
<1>1. HasSize(h, m)
  BY WrittenLayout, LayoutSize
<1>2. h[SizeAt] = f[1]
  BY <1>1 DEF HasSize
<1>3. m.sizeStyle \in SizeStyles
  BY MembersAssumption
<1>4. \A b \in 48..55 : b \in Readable /\ b # 32
  BY DEF Readable
<1>5. 128 \in Readable /\ 32 \notin Readable /\ 255 \notin Readable
  BY DEF Readable
<1>6. CASE m.sizeStyle = "nul"
  <2>1. f[1] # 32
    <3> DEFINE O == Octal(m.size, SizeLen - 1)
    <3>1. Joined(f, O, <<0>>)
      BY <1>6, SizeFieldType
    <3>2. m.size \in Nat /\ SizeLen - 1 \in Nat /\ 1 \in 1..(SizeLen - 1)
      BY MembersAssumption, Places
    <3>3. Len(O) = SizeLen - 1 /\ O[1] \in 48..55
      BY <3>2, OctalType
    <3> HIDE DEF O
    <3>4. f[1] = O[1]
      BY <3>1, <3>2, <3>3 DEF Joined
    <3> QED
      BY <1>4, <3>3, <3>4
  <2>2. h[SizeAt] \in 48..55 /\ SizeOf(h) = m.size
    BY <1>1, <1>6, <2>1, OctalSize
  <2> QED
    BY <1>4, <1>6, <2>2 DEF Malformed, Comes
<1>7. CASE m.sizeStyle = "blank"
  <2>1. h[SizeAt] \in 48..55 /\ SizeOf(h) = RunOn(h, m)
    BY <1>1, <1>7, BlankSize
  <2> QED
    BY <1>4, <1>7, <2>1 DEF Malformed, Comes
<1>8. CASE m.sizeStyle = "full"
  <2>1. h[SizeAt] \in 48..55 /\ SizeOf(h) = RunOn(h, m)
    BY <1>1, <1>8, FullSize
  <2> QED
    BY <1>4, <1>8, <2>1 DEF Malformed, Comes
<1>9. CASE m.sizeStyle = "padded"
  <2>1. CASE f[1] = 32
    BY <1>2, <1>5, <1>9, <2>1 DEF Malformed, Comes
  <2>2. CASE f[1] # 32
    <3>1. h[SizeAt] \in 48..55 /\ SizeOf(h) = m.size
      BY <1>1, <1>9, <2>2, OctalSize
    <3> QED
      BY <1>4, <1>9, <2>2, <3>1 DEF Malformed, Comes
  <2> QED
    BY <2>1, <2>2
<1>10. CASE m.sizeStyle = "base256"
  <2>1. h[SizeAt] = 128 /\ (SizeOf(h) = m.size <=> m.size < Word)
    BY <1>1, <1>10, BinarySize
  <2> QED
    BY <1>5, <1>10, <2>1 DEF Malformed, Comes
<1>11. CASE m.sizeStyle = "minus"
  <2>1. f = [i \in 1..SizeLen |-> 255]
    BY <1>11, SizeFieldType
  <2>2. 1 \in 1..SizeLen
    BY Places
  <2>3. f[1] = 255
    BY <2>1, <2>2
  <2> QED
    BY <1>2, <1>5, <1>11, <2>3 DEF Malformed, Comes
<1> QED
  BY <1>3, <1>6, <1>7, <1>8, <1>9, <1>10, <1>11 DEF SizeStyles

-----------------------------------------------------------------------------
(***************************************************************************)
(* The invariant: the header is the one written but for the damaged byte,  *)
(* and what was decided and read so far is what it says.                   *)
(***************************************************************************)
NameRead == pc \in {"size", "read", "malformed"} => name = NameOf(header)

SizeRead ==
  /\ pc = "read" => header[SizeAt] \in Readable /\ size = SizeOf(header)
  /\ pc = "malformed" => header[SizeAt] \notin Readable

IInv ==
  /\ TypeOK
  /\ Kept(header, member, damaged)
  /\ HeadersRecognised /\ DamageDetected
  /\ NameRead /\ SizeRead

LEMMA WrittenKept ==
  ASSUME NEW m \in Members
  PROVE  Kept(Written(m), m, 0) /\ Written(m) \in [1..Last1 -> Byte]
<1> DEFINE h == Written(m)
<1>1. h \in Seq(Byte) /\ Len(h) = Last1
  BY WrittenLayout DEF Layout
<1> HIDE DEF h
<1>2. h \in [1..Last1 -> Byte]
  BY <1>1, LenProperties
<1> QED
  BY <1>1, <1>2 DEF Kept, h

LEMMA KeptWhole ==
  ASSUME NEW m \in Members, NEW h, Kept(h, m, 0)
  PROVE  h = Written(m)
<1> DEFINE V == Written(m)
<1>1. Layout(V, m, SumField(m, SumOf(m)))
  BY WrittenLayout
<1>2. V \in Seq(Byte) /\ Len(V) = Last1
  BY <1>1 DEF Layout
<1>3. h \in Seq(Byte) /\ Len(h) = Last1 /\ \A i \in 1..Last1 : i # 0 => h[i] = V[i]
  BY DEF Kept
<1> HIDE DEF V
<1>4. \A i \in 1..Last1 : h[i] = V[i]
  BY <1>3
<1>5. h = V
  BY <1>2, <1>3, <1>4, SeqEqual
<1> QED
  BY <1>5 DEF V

LEMMA InitInv == Init => IInv
<1> SUFFICES ASSUME Init PROVE IInv
  OBVIOUS
<1>1. member \in Members /\ header = Written(member) /\ damaged = 0 /\ pc = "header"
      /\ name = << >> /\ size = 0
  BY DEF Init
<1>2. Kept(header, member, damaged) /\ header \in [1..Last1 -> Byte]
  BY <1>1, WrittenKept
<1>3. TypeOK
  <2>1. damaged \in 0..Last1 /\ size \in 0..(Word - 1)
    BY <1>1, Places, Width
  <2>2. name \in Texts
    BY <1>1, EmptySeq DEF Texts
  <2> QED
    BY <1>1, <1>2, <2>1, <2>2 DEF TypeOK
<1> QED
  BY <1>1, <1>2, <1>3 DEF IInv, HeadersRecognised, DamageDetected, NameRead, SizeRead

LEMMA DamageInv == IInv /\ Damage => IInv'
<1> SUFFICES ASSUME IInv, Damage PROVE IInv'
  OBVIOUS
<1>1. PICK i \in 1..Last1, b \in Wrong :
        /\ ~InSum(i) /\ header[i] # b
        /\ header' = [header EXCEPT ![i] = b]
        /\ damaged' = i
  BY DEF Damage
<1>2. pc = "header" /\ damaged = 0 /\ member' = member /\ pc' = pc /\ name' = name /\ size' = size
  BY DEF Damage
<1>3. TypeOK /\ Kept(header, member, 0)
  BY <1>2 DEF IInv
<1>4. b \in Byte
  BY DamageAssumption
<1>5. /\ header \in Seq(Byte) /\ Len(header) = Last1
      /\ \A k \in 1..Last1 : k # 0 => header[k] = Written(member)[k]
  BY <1>3 DEF Kept
<1>6. header' \in Seq(Byte) /\ Len(header') = Last1
  BY <1>1, <1>4, <1>5, ExceptSeq
<1>7. header' \in [1..Last1 -> Byte]
  BY <1>6, LenProperties
<1>8. header'[i] = b /\ \A k \in 1..Last1 : k # i => header'[k] = header[k]
  BY <1>1, <1>3 DEF TypeOK
<1>9. i # 0 /\ i \in 0..Last1
  BY <1>1
<1>10. Kept(header', member', damaged')
  <2>1. \A k \in 1..Last1 : k # i => header'[k] = Written(member)[k]
    BY <1>5, <1>8
  <2>2. header'[i] # Written(member)[i]
    BY <1>1, <1>5, <1>8, <1>9
  <2> QED
    BY <1>1, <1>2, <1>6, <2>1, <2>2 DEF Kept
<1>11. TypeOK'
  BY <1>1, <1>2, <1>3, <1>7, <1>9 DEF TypeOK
<1> QED
  BY <1>1, <1>2, <1>9, <1>10, <1>11
     DEF IInv, HeadersRecognised, DamageDetected, NameRead, SizeRead

LEMMA CheckInv == IInv /\ checkChecksum => IInv'
<1> SUFFICES ASSUME IInv, checkChecksum PROVE IInv'
  OBVIOUS
<1>1. PICK junk \in Junk : pc' = IF Accepted(Ref(header, junk)) THEN "name" ELSE "ignored"
  BY DEF checkChecksum, Ref
<1>2. /\ member' = member /\ header' = header /\ damaged' = damaged
      /\ name' = name /\ size' = size
  BY DEF checkChecksum
<1>3. TypeOK /\ Kept(header, member, damaged) /\ member \in Members /\ damaged \in 0..Last1
  BY DEF IInv, TypeOK
<1>4. Accepted(Ref(header, junk)) <=> Passes(header, Ref(header, junk))
  BY DEF Accepted, Passes, Summed, Blanked, IsRest
<1>5. TypeOK' /\ Kept(header, member, damaged)'
  BY <1>1, <1>2, <1>3 DEF TypeOK
<1>6. HeadersRecognised'
  <2> SUFFICES ASSUME damaged = 0
               PROVE  HeadersRecognised'
    BY <1>2 DEF HeadersRecognised
  <2>1. ASSUME \/ member.sumStyle = "nul"
               \/ member.sumStyle = "padded" /\ SumField(member, SumOf(member))[1] # 32
        PROVE  pc' = "name"
    BY <1>1, <1>3, <1>4, <2>1, WrittenPasses
  <2>2. ASSUME member.sumStyle = "padded", SumField(member, SumOf(member))[1] = 32
        PROVE  pc' = "ignored"
    BY <1>1, <1>3, <1>4, <2>2, PaddedFails
  <2>3. ASSUME member.sumStyle = "blank", ~member.signed
        PROVE  pc' = "ignored"
    BY <1>1, <1>3, <1>4, <2>3, BlankFails
  <2> QED
    BY <1>2, <2>1, <2>2, <2>3 DEF HeadersRecognised
<1>7. DamageDetected'
  <2> SUFFICES ASSUME damaged # 0, member.sumStyle = "nul"
               PROVE  pc' = "ignored"
    BY <1>2 DEF DamageDetected
  <2>1. damaged \in Nat \ {0}
    BY <1>3, Places
  <2>2. ~Passes(header, Ref(header, junk))
    BY <1>3, <2>1, DamagedFails
  <2> QED
    BY <1>1, <1>4, <2>2
<1> QED
  BY <1>1, <1>5, <1>6, <1>7 DEF IInv, NameRead, SizeRead

LEMMA FilenameInv == IInv /\ getFilename => IInv'
<1> SUFFICES ASSUME IInv, getFilename PROVE IInv'
  OBVIOUS
<1>1. /\ pc = "name" /\ name' = NameOf(header) /\ pc' = "size"
      /\ member' = member /\ header' = header /\ damaged' = damaged /\ size' = size
  BY DEF getFilename, Filename, NameOf
<1>2. TypeOK /\ Kept(header, member, damaged) /\ HeadersRecognised /\ DamageDetected
  BY DEF IInv
<1>3. NameOf(header) \in Texts
  BY <1>2, NameType DEF Kept
<1>4. TypeOK'
  BY <1>1, <1>2, <1>3 DEF TypeOK
<1>5. HeadersRecognised' /\ DamageDetected'
  BY <1>1, <1>2 DEF HeadersRecognised, DamageDetected
<1> QED
  BY <1>1, <1>2, <1>4, <1>5 DEF IInv, NameRead, SizeRead

LEMMA SizeInv == IInv /\ getFileSize => IInv'
<1> SUFFICES ASSUME IInv, getFileSize PROVE IInv'
  OBVIOUS
<1>1. /\ pc = "size" /\ pc' \in {"read", "malformed"}
      /\ member' = member /\ header' = header /\ damaged' = damaged /\ name' = name
  BY DEF getFileSize
<1>2. TypeOK /\ Kept(header, member, damaged) /\ HeadersRecognised /\ DamageDetected /\ NameRead
  BY DEF IInv
<1>3. SizeOf(header) \in 0..(Word - 1)
  BY <1>2, SizeType DEF Kept
<1>4. \/ pc' = "read" /\ header[SizeAt] \in Readable /\ size' = SizeOf(header)
      \/ pc' = "malformed" /\ header[SizeAt] \notin Readable /\ size' = size
  <2>1. CASE header[SizeAt] \in 48..57
    <3>1. header[SizeAt] # 128
      BY <2>1
    <3> QED
      BY <2>1, <3>1 DEF getFileSize, SizeOf, Readable
  <2>2. CASE header[SizeAt] = 128
    <3>1. header[SizeAt] \notin 48..57
      BY <2>2
    <3> QED
      BY <2>2, <3>1 DEF getFileSize, SizeOf, Readable
  <2>3. CASE header[SizeAt] \notin Readable
    BY <2>3 DEF getFileSize, Readable
  <2> QED
    BY <2>1, <2>2, <2>3 DEF Readable
<1>5. TypeOK'
  BY <1>1, <1>2, <1>3, <1>4 DEF TypeOK
<1>6. HeadersRecognised' /\ DamageDetected'
  BY <1>1, <1>2 DEF HeadersRecognised, DamageDetected
<1>7. NameRead' /\ SizeRead'
  BY <1>1, <1>2, <1>4 DEF NameRead, SizeRead
<1> QED
  BY <1>1, <1>2, <1>5, <1>6, <1>7 DEF IInv

LEMMA NextInv == IInv /\ [Next]_vars => IInv'
<1> SUFFICES ASSUME IInv, [Next]_vars PROVE IInv'
  OBVIOUS
<1>1. CASE Damage
  BY <1>1, DamageInv
<1>2. CASE checkChecksum
  BY <1>2, CheckInv
<1>3. CASE getFilename
  BY <1>3, FilenameInv
<1>4. CASE getFileSize
  BY <1>4, SizeInv
<1>5. CASE UNCHANGED vars
  BY <1>5 DEF vars, IInv, TypeOK, HeadersRecognised, DamageDetected, NameRead, SizeRead
<1>6. CASE Stopped
  BY <1>5, <1>6 DEF Stopped
<1> QED
  BY <1>1, <1>2, <1>3, <1>4, <1>5, <1>6 DEF Next

(* The invariant holds throughout.                                         *)
LEMMA Invariant == Spec => []IInv
<1> QED
  BY InitInv, NextInv, PTL DEF Spec

(* Whatever the lengths of the fields, the members, the damage and what    *)
(* lies behind the checksum's copy, the bytes of the header stay bytes, a  *)
(* name is a string and a size fits a size_t.                              *)
THEOREM TypeCorrect == Spec => []TypeOK
<1>1. IInv => TypeOK
  BY DEF IInv
<1> QED
  BY <1>1, Invariant, PTL

(* checkChecksum takes a header as it was written for one whichever way    *)
(* its bytes were summed, if the digits end in a NUL, and never if blanks  *)
(* come first or a blank ends the plain sum.                               *)
THEOREM WrittenRecognised == Spec => []HeadersRecognised
<1>1. IInv => HeadersRecognised
  BY DEF IInv
<1> QED
  BY <1>1, Invariant, PTL

(* One wrong byte outside the checksum is always noticed, though either of *)
(* two sums may match.                                                     *)
THEOREM OneWrongByteDetected == Spec => []DamageDetected
<1>1. IInv => DamageDetected
  BY DEF IInv
<1> QED
  BY <1>1, Invariant, PTL

(* Whatever the fields' lengths and the time behind the size, getFileSize  *)
(* returns the size that was written exactly for a field with a NUL, in    *)
(* base 256 below the size_t's range, or before a time that happens to     *)
(* make up for running on; and it gives up exactly those SizeAsWritten     *)
(* names.                                                                  *)
THEOREM SizeExactly == Spec => []SizeAsWritten
<1>1. IInv => SizeAsWritten
  <2> SUFFICES ASSUME IInv, damaged = 0
               PROVE  /\ pc = "read" => (size = member.size <=> Comes(member))
                      /\ pc \in {"read", "malformed"} =>
                           (pc = "malformed" <=> Malformed(member))
    BY DEF SizeAsWritten, Comes, Malformed, RunOn, Shifted, Behind
  <2>1. header = Written(member) /\ member \in Members
    BY KeptWhole DEF IInv, TypeOK
  <2>2. /\ header[SizeAt] \notin Readable <=> Malformed(member)
        /\ ~Malformed(member) => (SizeOf(header) = member.size <=> Comes(member))
    BY <2>1, SizeOfWritten
  <2>3. SizeRead
    BY DEF IInv
  <2> QED
    BY <2>2, <2>3 DEF SizeRead
<1> QED
  BY <1>1, Invariant, PTL

(* getFilename returns the name that was meant exactly if nothing runs on  *)
(* into it and what lies in the prefix's place is a prefix.                *)
THEOREM NameExactly == Spec => []NameAsWritten
<1>1. IInv => NameAsWritten
  <2> SUFFICES ASSUME IInv, damaged = 0, pc \in {"size", "read", "malformed"}
               PROVE  name = Meant(member) <=>
                        /\ member.times = << >>
                        /\ member.prefix # << >> => Len(member.name) < NameLen
    BY DEF NameAsWritten
  <2>1. Layout(header, member, SumField(member, SumOf(member))) /\ member \in Members
    BY KeptWhole, WrittenLayout DEF IInv, TypeOK
  <2>2. name = NameOf(header)
    BY DEF IInv, NameRead
  <2> QED
    BY <2>1, <2>2, NameOfWritten
<1> QED
  BY <1>1, Invariant, PTL
=============================================================================
