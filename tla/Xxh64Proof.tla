----------------------------- MODULE Xxh64Proof -----------------------------
(***************************************************************************)
(* Proofs about Xxh64, for every length of a stripe, of a piece and of all *)
(* that is given.                                                          *)
(***************************************************************************)
EXTENDS Xxh64, SequenceTheorems, TLAPS

(* The n bytes that follow byte number a.                                  *)
Run(a, n) == [i \in 1..n |-> a + i]

(* How many bytes were given before the last reset, and how many of those  *)
(* since then the lanes have mixed in.                                     *)
Base  == fed - total_len
Mixed == total_len - memsize

(* The lanes hold the whole stripes given since the last reset, and mem64  *)
(* begins with what follows them.                                          *)
LanesOK ==
  /\ memsize <= total_len
  /\ \E k \in Nat : Mixed = k * STRIPE
  /\ lanes = Run(Base, Mixed)

MemOK == \A i \in 1..memsize : mem[i] = Base + Mixed + i

IInv == TypeOK /\ LanesOK /\ MemOK

-----------------------------------------------------------------------------
LEMMA RunFacts ==
  ASSUME NEW a \in Nat, NEW n \in Nat
  PROVE  /\ Run(a, n) \in Seq(Nat) /\ Len(Run(a, n)) = n
         /\ \A i \in 1..n : Run(a, n)[i] = a + i
  BY DEF Run

LEMMA RunType ==
  ASSUME NEW a \in Nat, NEW n \in Nat, NEW m \in Nat, a + n <= m
  PROVE  Run(a, n) \in Seq(1..m)
  BY DEF Run

LEMMA RunEmpty ==
  ASSUME NEW a \in Nat
  PROVE  Run(a, 0) = << >>
  BY DEF Run

(* Bytes and the bytes that follow them.                                   *)
LEMMA RunConcat ==
  ASSUME NEW a \in Nat, NEW n \in Nat, NEW m \in Nat
  PROVE  Run(a, n) \o Run(a + n, m) = Run(a, n + m)
<1> DEFINE s == Run(a, n)
           t == Run(a + n, m)
           u == Run(a, n + m)
           b == s \o t
<1>1. s \in Seq(Nat) /\ Len(s) = n /\ \A i \in 1..n : s[i] = a + i
  BY RunFacts
<1>2. t \in Seq(Nat) /\ Len(t) = m /\ \A i \in 1..m : t[i] = a + n + i
  <2>1. a + n \in Nat
    OBVIOUS
  <2> QED
    BY <2>1, RunFacts
<1>3. u \in Seq(Nat) /\ Len(u) = n + m /\ \A i \in 1..(n + m) : u[i] = a + i
  BY RunFacts
<1> HIDE DEF s, t, u
<1>4. /\ b \in Seq(Nat) /\ Len(b) = n + m
      /\ \A i \in 1..(n + m) : b[i] = IF i <= n THEN s[i] ELSE t[i - n]
  BY <1>1, <1>2, ConcatProperties
<1> HIDE DEF b
<1>5. ASSUME NEW i \in 1..(n + m)
      PROVE  b[i] = u[i]
  <2>1. CASE i <= n
    <3>1. i \in 1..n
      BY <2>1
    <3> QED
      BY <1>1, <1>3, <1>4, <2>1, <3>1
  <2>2. CASE i > n
    <3>1. i - n \in 1..m
      BY <2>2
    <3>2. t[i - n] = a + n + (i - n)
      BY <1>2, <3>1
    <3>3. b[i] = t[i - n]
      BY <1>4, <2>2
    <3>4. u[i] = a + i
      BY <1>3
    <3>5. a + n + (i - n) = a + i
      OBVIOUS
    <3> QED
      BY <3>2, <3>3, <3>4, <3>5
  <2> QED
    BY <2>1, <2>2
<1>6. b = u
  BY <1>3, <1>4, <1>5, SeqEqual
<1> QED
  BY <1>6 DEF b, s, t, u

(* A part of them.                                                         *)
LEMMA RunSub ==
  ASSUME NEW a \in Nat, NEW n \in Nat, NEW i \in 0..n, NEW j \in i..n
  PROVE  SubSeq(Run(a, n), i + 1, j) = Run(a + i, j - i)
<1> DEFINE s == Run(a, n)
           u == Run(a + i, j - i)
<1>1. i \in Nat /\ j \in Nat /\ j - i \in Nat /\ i + 1 \in Int /\ a + i \in Nat
  OBVIOUS
<1>2. \A h \in 1..n : s[h] = a + h
  BY RunFacts
<1>3. u \in Seq(Nat) /\ Len(u) = j - i /\ \A h \in 1..(j - i) : u[h] = a + i + h
  BY <1>1, RunFacts
<1> HIDE DEF s, u
<1>4. \A h \in (i + 1)..j : s[h] \in Nat /\ s[h] = a + h
  BY <1>2
<1>5. /\ SubSeq(s, i + 1, j) \in Seq(Nat)
      /\ Len(SubSeq(s, i + 1, j)) = j - i
      /\ \A h \in 1..(j - i) : SubSeq(s, i + 1, j)[h] = s[h + i]
  <2>1. /\ SubSeq(s, i + 1, j) \in Seq(Nat)
        /\ Len(SubSeq(s, i + 1, j)) = IF i + 1 <= j THEN j - (i + 1) + 1 ELSE 0
        /\ \A h \in 1..(j - (i + 1) + 1) : SubSeq(s, i + 1, j)[h] = s[i + 1 + h - 1]
    BY <1>1, <1>4, SubSeqProperties
  <2>2. j - (i + 1) + 1 = j - i /\ \A h \in 1..(j - i) : i + 1 + h - 1 = h + i
    BY <1>1
  <2> QED
    BY <1>1, <2>1, <2>2
<1>6. \A h \in 1..(j - i) : SubSeq(s, i + 1, j)[h] = u[h]
  BY <1>1, <1>3, <1>4, <1>5
<1>7. SubSeq(s, i + 1, j) = u
  BY <1>1, <1>3, <1>5, <1>6, SeqEqual
<1> QED
  BY <1>7 DEF s, u

(* What begins with those bytes gives them back.                           *)
LEMMA RunPrefix ==
  ASSUME NEW a \in Nat, NEW n \in Nat, NEW f, \A i \in 1..n : f[i] = a + i
  PROVE  SubSeq(f, 1, n) = Run(a, n)
<1> DEFINE u == Run(a, n)
<1>1. u \in Seq(Nat) /\ Len(u) = n /\ \A i \in 1..n : u[i] = a + i
  BY RunFacts
<1> HIDE DEF u
<1>2. \A i \in 1..n : f[i] \in Nat
  OBVIOUS
<1>3. /\ SubSeq(f, 1, n) \in Seq(Nat)
      /\ Len(SubSeq(f, 1, n)) = n
      /\ \A i \in 1..n : SubSeq(f, 1, n)[i] = f[i]
  <2>1. /\ SubSeq(f, 1, n) \in Seq(Nat)
        /\ Len(SubSeq(f, 1, n)) = IF 1 <= n THEN n - 1 + 1 ELSE 0
        /\ \A i \in 1..(n - 1 + 1) : SubSeq(f, 1, n)[i] = f[1 + i - 1]
    BY <1>2, SubSeqProperties
  <2>2. n - 1 + 1 = n /\ \A i \in 1..n : 1 + i - 1 = i
    OBVIOUS
  <2> QED
    BY <2>1, <2>2
<1>4. SubSeq(f, 1, n) = u
  BY <1>1, <1>3, SeqEqual
<1> QED
  BY <1>4 DEF u

(* The whole stripes of n bytes.                                           *)
LEMMA WholeFacts ==
  ASSUME NEW n \in Nat
  PROVE  /\ (n \div STRIPE) \in Nat
         /\ (n \div STRIPE) * STRIPE \in 0..n
         /\ n - (n \div STRIPE) * STRIPE < STRIPE
<1>1. STRIPE \in Nat /\ STRIPE > 0
  BY StripeAssumption
<1>2. n = (n \div STRIPE) * STRIPE + (n % STRIPE) /\ n % STRIPE \in 0..(STRIPE - 1)
  BY <1>1
<1>3. (n \div STRIPE) \in Nat /\ (n \div STRIPE) * STRIPE \in Nat
  BY <1>1
<1> QED
  BY <1>1, <1>2, <1>3

(* A number of whole stripes, when less than a stripe is left, is that of  *)
(* the division.                                                           *)
LEMMA WholeUnique ==
  ASSUME NEW n \in Nat, NEW k \in Nat, k * STRIPE <= n, n - k * STRIPE < STRIPE
  PROVE  (n \div STRIPE) * STRIPE = k * STRIPE
<1> DEFINE q == n \div STRIPE
<1>1. STRIPE \in Nat /\ STRIPE > 0
  BY StripeAssumption
<1>2. q \in Nat /\ q * STRIPE \in Nat /\ q * STRIPE <= n /\ n - q * STRIPE < STRIPE
  BY WholeFacts
<1> HIDE DEF q
<1>3. k * STRIPE \in Nat
  BY <1>1
<1>4. ~(q < k)
  <2>1. SUFFICES ASSUME q < k PROVE FALSE
    OBVIOUS
  <2>2. (q + 1) * STRIPE <= k * STRIPE /\ (q + 1) * STRIPE = q * STRIPE + STRIPE
    BY <1>1, <1>2, <2>1
  <2> QED
    BY <1>1, <1>2, <1>3, <2>2
<1>5. ~(k < q)
  <2>1. SUFFICES ASSUME k < q PROVE FALSE
    OBVIOUS
  <2>2. (k + 1) * STRIPE <= q * STRIPE /\ (k + 1) * STRIPE = k * STRIPE + STRIPE
    BY <1>1, <1>2, <2>1
  <2> QED
    BY <1>1, <1>2, <1>3, <2>2
<1>6. q = k
  BY <1>2, <1>4, <1>5
<1> QED
  BY <1>6 DEF q

-----------------------------------------------------------------------------
LEMMA InitInv == Init => IInv
<1> SUFFICES ASSUME Init PROVE IInv
  OBVIOUS
<1>1. /\ seeded = FALSE /\ lanes = << >> /\ mem = [i \in 1..STRIPE |-> 0]
      /\ memsize = 0 /\ total_len = 0 /\ fed = 0
  BY DEF Init
<1>2. Base = 0 /\ Mixed = 0
  BY <1>1 DEF Base, Mixed
<1>3. TypeOK
  <2>1. mem \in [1..STRIPE -> 0..fed]
    BY <1>1
  <2>2. lanes \in Seq(1..fed)
    <3>1. << >> \in Seq(1..fed)
      OBVIOUS
    <3> QED
      BY <1>1, <3>1
  <2>3. memsize \in 0..(STRIPE - 1) /\ total_len \in 0..fed /\ fed \in 0..MaxLen
    BY <1>1, StripeAssumption, LengthAssumption
  <2>4. seeded \in BOOLEAN
    BY <1>1
  <2> QED
    BY <2>1, <2>2, <2>3, <2>4 DEF TypeOK
<1>4. Mixed = 0 * STRIPE
  BY <1>2, StripeAssumption
<1>5. lanes = Run(Base, Mixed)
  BY <1>1, <1>2, RunEmpty
<1>6. LanesOK
  BY <1>1, <1>4, <1>5 DEF LanesOK
<1>7. MemOK
  BY <1>1 DEF MemOK
<1> QED
  BY <1>3, <1>6, <1>7 DEF IInv

LEMMA ResetInv == IInv /\ Reset => IInv'
<1> SUFFICES ASSUME IInv, Reset PROVE IInv'
  OBVIOUS
<1>1. /\ seeded' = TRUE /\ lanes' = << >> /\ mem' = [i \in 1..STRIPE |-> 0]
      /\ memsize' = 0 /\ total_len' = 0 /\ fed' = fed
  BY DEF Reset
<1>2. fed \in Nat /\ fed \in 0..MaxLen
  BY LengthAssumption DEF IInv, TypeOK
<1>3. Base' = fed /\ Mixed' = 0
  BY <1>1, <1>2 DEF Base, Mixed
<1>4. TypeOK'
  BY <1>1, <1>2, StripeAssumption DEF TypeOK
<1>5. Mixed' = 0 * STRIPE
  BY <1>3, StripeAssumption
<1>6. lanes' = Run(Base', Mixed')
  BY <1>1, <1>2, <1>3, RunEmpty
<1>7. LanesOK'
  BY <1>1, <1>5, <1>6 DEF LanesOK, Run
<1>8. MemOK'
  BY <1>1 DEF MemOK
<1> QED
  BY <1>4, <1>7, <1>8 DEF IInv

(* The numbers of the state, and the piece given to it.                    *)
LEMMA StateFacts ==
  ASSUME IInv
  PROVE  /\ STRIPE \in Nat /\ STRIPE > 0
         /\ fed \in Nat /\ fed <= MaxLen /\ MaxLen \in Nat
         /\ total_len \in Nat /\ total_len <= fed
         /\ memsize \in Nat /\ memsize < STRIPE /\ memsize <= total_len
         /\ Base \in Nat /\ Base + total_len = fed
         /\ Mixed \in Nat /\ Mixed + memsize = total_len
<1>1. /\ STRIPE \in Nat /\ STRIPE > 0 /\ MaxLen \in Nat
      /\ fed \in 0..MaxLen /\ total_len \in 0..fed /\ memsize \in 0..(STRIPE - 1)
      /\ memsize <= total_len
  BY StripeAssumption, LengthAssumption DEF IInv, TypeOK, LanesOK
<1> QED
  BY <1>1 DEF Base, Mixed

LEMMA PieceIsRun ==
  ASSUME NEW a \in Nat, NEW n \in Nat
  PROVE  Piece(a + 1, n) = Run(a, n)
<1>1. \A i \in 1..n : a + 1 + i - 1 = a + i
  OBVIOUS
<1> QED
  BY <1>1 DEF Piece, Run

(* A piece too short to complete the stripe in mem64.                      *)
LEMMA BufferInv ==
  ASSUME IInv, NEW n \in Nat, fed + n <= MaxLen, Buffer(Run(fed, n)),
         total_len' = total_len + n, fed' = fed + n, UNCHANGED seeded
  PROVE  IInv'
<1> DEFINE p == Run(fed, n)
<1>0. /\ STRIPE \in Nat /\ STRIPE > 0
      /\ fed \in Nat /\ fed <= MaxLen /\ MaxLen \in Nat
      /\ total_len \in Nat /\ total_len <= fed
      /\ memsize \in Nat /\ memsize < STRIPE /\ memsize <= total_len
      /\ Base \in Nat /\ Base + total_len = fed
      /\ Mixed \in Nat /\ Mixed + memsize = total_len
  BY StateFacts
<1>1. p \in Seq(Nat) /\ Len(p) = n /\ \A i \in 1..n : p[i] = fed + i
  BY <1>0, RunFacts
<1> HIDE DEF p
<1>2. memsize + n < STRIPE /\ memsize' = memsize + n /\ lanes' = lanes
  BY <1>1 DEF Buffer, p
<1>3. mem' = [i \in 1..STRIPE |->
                IF memsize < i /\ i <= memsize + n THEN p[i - memsize] ELSE mem[i]]
  BY <1>1 DEF Buffer, Copied, p
<1>4. Base' = Base /\ Mixed' = Mixed
  BY <1>2, <1>0 DEF Base, Mixed
<1>5. ASSUME NEW i \in 1..STRIPE, memsize < i, i <= memsize + n
      PROVE  p[i - memsize] = Base + Mixed + i /\ p[i - memsize] \in 0..(fed + n)
  <2>1. i - memsize \in 1..n
    BY <1>5, <1>0
  <2>2. p[i - memsize] = fed + (i - memsize)
    BY <1>1, <2>1
  <2> QED
    BY <2>1, <2>2, <1>0
<1>6. MemOK'
  <2> SUFFICES ASSUME NEW i \in 1..(memsize + n)
               PROVE  (mem')[i] = Base + Mixed + i
    BY <1>2, <1>4 DEF MemOK
  <2>1. i \in 1..STRIPE
    BY <1>2, <1>0
  <2>2. CASE memsize < i
    BY <1>3, <1>5, <2>1, <2>2
  <2>3. CASE i <= memsize
    <3>1. i \in 1..memsize /\ ~(memsize < i)
      BY <2>3, <1>0
    <3> QED
      BY <1>3, <2>1, <3>1 DEF IInv, MemOK
  <2> QED
    BY <2>2, <2>3, <1>0
<1>7. mem' \in [1..STRIPE -> 0..(fed + n)]
  <2>1. \A i \in 1..STRIPE : mem[i] \in 0..fed
    BY DEF IInv, TypeOK
  <2>2. \A i \in 1..STRIPE : mem[i] \in 0..(fed + n)
    BY <1>0, <2>1
  <2> QED
    BY <1>3, <1>5, <2>2
<1>8. lanes' \in Seq(1..(fed + n))
  BY <1>0, <1>2, RunType DEF IInv, LanesOK
<1>9. TypeOK'
  <2>1. memsize' \in 0..(STRIPE - 1) /\ fed' \in 0..MaxLen /\ total_len' \in 0..fed'
    BY <1>2, <1>0
  <2>2. seeded' \in BOOLEAN
    BY DEF IInv, TypeOK
  <2> QED
    BY <1>7, <1>8, <2>1, <2>2 DEF TypeOK
<1>10. LanesOK'
  <2>1. memsize' <= total_len'
    BY <1>2, <1>0
  <2> QED
    BY <1>2, <1>4, <2>1 DEF IInv, LanesOK, Run
<1> QED
  BY <1>6, <1>9, <1>10 DEF IInv

(* A piece that completes it.                                              *)
LEMMA MixInv ==
  ASSUME IInv, NEW n \in Nat, fed + n <= MaxLen, Mix(Run(fed, n)),
         total_len' = total_len + n, fed' = fed + n, UNCHANGED seeded
  PROVE  IInv'
<1> DEFINE p     == Run(fed, n)
           fill  == IF memsize > 0 THEN STRIPE - memsize ELSE 0
           more  == (n - fill) \div STRIPE
           whole == more * STRIPE
           cut   == fill + whole
           rest  == SubSeq(p, cut + 1, n)
           first == SubSeq(p, 1, fill)
<1>0. /\ STRIPE \in Nat /\ STRIPE > 0
      /\ fed \in Nat /\ fed <= MaxLen /\ MaxLen \in Nat
      /\ total_len \in Nat /\ total_len <= fed
      /\ memsize \in Nat /\ memsize < STRIPE /\ memsize <= total_len
      /\ Base \in Nat /\ Base + total_len = fed
      /\ Mixed \in Nat /\ Mixed + memsize = total_len
  BY StateFacts
<1>1. p \in Seq(Nat) /\ Len(p) = n
  BY <1>0, RunFacts
<1>2. memsize + n >= STRIPE
  BY <1>1 DEF Mix
<1>3. fill \in Nat /\ fill <= n /\ n - fill \in Nat
  BY <1>2, <1>0
<1>4. more \in Nat /\ whole \in Nat /\ whole <= n - fill /\ n - fill - whole < STRIPE
  BY <1>3, WholeFacts
<1>5. /\ lanes' = lanes \o SubSeq(mem, 1, memsize) \o SubSeq(p, 1, cut)
      /\ mem' = [i \in 1..STRIPE |->
                   IF i <= Len(rest) THEN rest[i] ELSE Copied(first, memsize)[i]]
      /\ memsize' = Len(rest)
  BY <1>1 DEF Mix
<1>6. \E e \in {0, 1} : memsize + fill = e * STRIPE
  BY <1>0
<1> HIDE DEF fill, more, whole
<1>7. cut \in Nat /\ cut = fill + whole /\ cut <= n /\ n - cut \in Nat /\ n - cut < STRIPE
  BY <1>0, <1>3, <1>4
<1> HIDE DEF cut
<1>8. rest = Run(fed + cut, n - cut)
  <2>1. cut \in 0..n /\ n \in cut..n
    BY <1>7
  <2> QED
    BY <1>0, <2>1, RunSub
<1>9. SubSeq(p, 1, cut) = Run(fed, cut)
  <2>1. 0 \in 0..n /\ cut \in 0..n
    BY <1>7
  <2>2. SubSeq(Run(fed, n), 0 + 1, cut) = Run(fed + 0, cut - 0)
    BY <1>0, <2>1, RunSub
  <2>3. fed + 0 = fed /\ cut - 0 = cut /\ 0 + 1 = 1
    BY <1>7, <1>0
  <2> QED
    BY <2>2, <2>3
<1>10. first = Run(fed, fill)
  <2>1. 0 \in 0..n /\ fill \in 0..n
    BY <1>3
  <2>2. SubSeq(Run(fed, n), 0 + 1, fill) = Run(fed + 0, fill - 0)
    BY <1>0, <2>1, RunSub
  <2>3. fed + 0 = fed /\ fill - 0 = fill /\ 0 + 1 = 1
    BY <1>3, <1>0
  <2> QED
    BY <2>2, <2>3
<1> HIDE DEF rest, first
<1>11. /\ Len(rest) = n - cut
       /\ \A i \in 1..(n - cut) : rest[i] = fed + cut + i
  <2>1. fed + cut \in Nat
    BY <1>7, <1>0
  <2> QED
    BY <1>7, <1>8, <2>1, RunFacts
<1>12. Base' = Base /\ Mixed' = total_len + cut /\ Mixed' \in Nat
       /\ memsize' = n - cut
  <2>1. memsize' = n - cut
    BY <1>5, <1>11
  <2> QED
    BY <1>0, <1>7, <2>1 DEF Base, Mixed
<1>13. lanes' = Run(Base', Mixed')
  <2>1. SubSeq(mem, 1, memsize) = Run(Base + Mixed, memsize)
    <3>1. Base + Mixed \in Nat /\ memsize \in Nat
      BY <1>0
    <3> QED
      BY <3>1, RunPrefix DEF IInv, MemOK
  <2>2. lanes \o SubSeq(mem, 1, memsize) = Run(Base, Mixed + memsize)
    <3>1. lanes = Run(Base, Mixed)
      BY DEF IInv, LanesOK
    <3>2. Base \in Nat /\ Mixed \in Nat /\ memsize \in Nat
      BY <1>0
    <3>3. Run(Base, Mixed) \o Run(Base + Mixed, memsize) = Run(Base, Mixed + memsize)
      BY <3>2, RunConcat
    <3> QED
      BY <2>1, <3>1, <3>3
  <2>3. Mixed + memsize = total_len /\ fed = Base + total_len
    BY <1>0
  <2>4. Run(Base, total_len) \o Run(Base + total_len, cut) = Run(Base, total_len + cut)
    <3>1. Base \in Nat /\ total_len \in Nat /\ cut \in Nat
      BY <1>0, <1>7
    <3> QED
      BY <3>1, RunConcat
  <2> QED
    BY <1>5, <1>9, <1>12, <2>2, <2>3, <2>4
<1>14. LanesOK'
  <2>1. memsize' <= total_len'
    BY <1>7, <1>12, <1>0
  <2>2. \E k \in Nat : Mixed' = k * STRIPE
    <3>1. PICK k \in Nat : Mixed = k * STRIPE
      BY DEF IInv, LanesOK
    <3>2. PICK e \in {0, 1} : memsize + fill = e * STRIPE
      BY <1>6
    <3>3. Mixed' = k * STRIPE + e * STRIPE + more * STRIPE
      <4> DEFINE a == k * STRIPE
                 b == e * STRIPE
                 c == more * STRIPE
      <4>1. Mixed = a /\ memsize + fill = b /\ Mixed' = total_len + (fill + c)
            /\ a \in Nat /\ b \in Nat /\ c \in Nat /\ fill \in Nat
        <5>1. Mixed = a /\ memsize + fill = b
          BY <3>1, <3>2
        <5>2. Mixed' = total_len + (fill + c)
          BY <1>7, <1>12 DEF whole
        <5>3. a \in Nat /\ b \in Nat /\ c \in Nat /\ fill \in Nat
          BY <1>0, <1>3, <1>4
        <5> QED
          BY <5>1, <5>2, <5>3
      <4> HIDE DEF a, b, c
      <4>2. Mixed' = a + b + c
        BY <4>1, <1>0
      <4> QED
        BY <4>2 DEF a, b, c
    <3>4. k + e + more \in Nat /\ Mixed' = (k + e + more) * STRIPE
      BY <1>4, <3>3, <1>0
    <3> QED
      BY <3>4
  <2> QED
    BY <1>13, <2>1, <2>2 DEF LanesOK, Run
<1>15. MemOK'
  <2> SUFFICES ASSUME NEW i \in 1..(n - cut)
               PROVE  (mem')[i] = Base' + Mixed' + i
    BY <1>12 DEF MemOK
  <2>1. i \in 1..STRIPE /\ i <= Len(rest)
    BY <1>7, <1>11, <1>0
  <2>2. (mem')[i] = fed + cut + i
    BY <1>5, <1>11, <2>1
  <2> QED
    BY <1>7, <1>12, <2>2, <1>0
<1>16. mem' \in [1..STRIPE -> 0..(fed + n)]
  <2>1. ASSUME NEW i \in 1..STRIPE
        PROVE  (mem')[i] \in 0..(fed + n)
    <3>1. CASE i <= Len(rest)
      <4>1. i \in 1..(n - cut)
        BY <1>7, <1>11, <3>1
      <4>2. (mem')[i] = fed + cut + i
        BY <1>5, <1>11, <3>1, <4>1
      <4> QED
        BY <1>7, <4>1, <4>2, <1>0
    <3>2. CASE ~(i <= Len(rest))
      <4>1. Len(first) = fill /\ \A h \in 1..fill : first[h] = fed + h
        BY <1>0, <1>3, <1>10, RunFacts
      <4>2. (mem')[i] = Copied(first, memsize)[i]
        BY <1>5, <3>2
      <4>3. Copied(first, memsize)[i] =
              IF memsize < i /\ i <= memsize + fill THEN first[i - memsize] ELSE mem[i]
        BY <4>1 DEF Copied
      <4>4. CASE memsize < i /\ i <= memsize + fill
        <5>1. i - memsize \in 1..fill
          BY <1>3, <4>4, <1>0
        <5>2. first[i - memsize] = fed + (i - memsize)
          BY <4>1, <5>1
        <5> QED
          BY <1>3, <4>2, <4>3, <4>4, <5>1, <5>2, <1>0
      <4>5. CASE ~(memsize < i /\ i <= memsize + fill)
        <5>1. mem[i] \in 0..fed
          BY DEF IInv, TypeOK
        <5> QED
          BY <4>2, <4>3, <4>5, <5>1, <1>0
      <4> QED
        BY <4>4, <4>5
    <3> QED
      BY <3>1, <3>2
  <2> QED
    BY <1>5, <2>1
<1>17. TypeOK'
  <2>1. memsize' \in 0..(STRIPE - 1) /\ fed' \in 0..MaxLen /\ total_len' \in 0..fed'
    BY <1>7, <1>12, <1>0
  <2>2. seeded' \in BOOLEAN
    BY DEF IInv, TypeOK
  <2>3. lanes' \in Seq(1..fed')
    <3>1. Base + (total_len + cut) <= fed + n /\ fed + n \in Nat /\ total_len + cut \in Nat
      BY <1>7, <1>0
    <3>2. Run(Base, total_len + cut) \in Seq(1..(fed + n))
      BY <1>0, <3>1, RunType
    <3> QED
      BY <1>12, <1>13, <3>2
  <2> QED
    BY <1>16, <2>1, <2>2, <2>3 DEF TypeOK
<1> QED
  BY <1>14, <1>15, <1>17 DEF IInv

LEMMA NextInv == IInv /\ [Next]_vars => IInv'
<1> SUFFICES ASSUME IInv, [Next]_vars PROVE IInv'
  OBVIOUS
<1>1. CASE Reset
  BY <1>1, ResetInv
<1>2. ASSUME NEW n \in 0..MaxPiece, Update(n)
      PROVE  IInv'
  <2>1. n \in Nat
    BY PieceAssumption
  <2>2. Piece(fed + 1, n) = Run(fed, n)
    BY <2>1, StateFacts, PieceIsRun
  <2> QED
    BY <1>2, <2>1, <2>2, BufferInv, MixInv DEF Update
<1>3. CASE UNCHANGED vars
  BY <1>3 DEF vars, IInv, TypeOK, LanesOK, MemOK, Base, Mixed, Run
<1> QED
  BY <1>1, <1>2, <1>3 DEF Next

LEMMA Inductive == Spec => []IInv
  BY InitInv, NextInv, PTL DEF Spec

-----------------------------------------------------------------------------
(* Every variable of the streaming state keeps its type; mem64 never holds *)
(* a whole stripe.                                                         *)
THEOREM Xxh64TypeCorrect == Spec => []TypeOK
<1>1. IInv => TypeOK
  BY DEF IInv
<1> QED
  BY <1>1, Inductive, PTL

(* However the input is cut into pieces, streaming and one-shot hash agree *)
(* when the state was reset before it, or the input is less than a stripe, *)
(* and then only.                                                          *)
THEOREM StreamAgrees == Spec => []StreamIsOneShot
<1>1. IInv => StreamIsOneShot
  <2> SUFFICES ASSUME IInv PROVE StreamIsOneShot
    OBVIOUS
  <2> DEFINE p     == Piece(fed - total_len + 1, total_len)
             whole == (total_len \div STRIPE) * STRIPE
             tail  == Run(Base + Mixed, memsize)
  <2>1. p = Run(Base, total_len)
    BY StateFacts, PieceIsRun DEF Base
  <2>2. Len(p) = total_len
    BY <2>1, StateFacts, RunFacts
  <2>3. whole = Mixed
    <3>1. PICK k \in Nat : Mixed = k * STRIPE
      BY DEF IInv, LanesOK
    <3>2. k * STRIPE <= total_len /\ total_len - k * STRIPE < STRIPE
      BY <3>1, StateFacts
    <3>3. whole = k * STRIPE
      BY <3>2, StateFacts, WholeUnique
    <3> QED
      BY <3>1, <3>3
  <2>4. SubSeq(p, 1, Mixed) = lanes
    <3>1. 0 \in 0..total_len /\ Mixed \in 0..total_len
      BY StateFacts
    <3>2. SubSeq(Run(Base, total_len), 0 + 1, Mixed) = Run(Base + 0, Mixed - 0)
      BY <3>1, StateFacts, RunSub
    <3>3. 0 + 1 = 1 /\ Base + 0 = Base /\ Mixed - 0 = Mixed
      BY StateFacts
    <3> QED
      BY <2>1, <3>2, <3>3 DEF IInv, LanesOK
  <2>5. SubSeq(p, Mixed + 1, total_len) = tail
    <3>1. Mixed \in 0..total_len /\ total_len \in Mixed..total_len
          /\ total_len - Mixed = memsize
      BY StateFacts
    <3>2. SubSeq(Run(Base, total_len), Mixed + 1, total_len) = Run(Base + Mixed, total_len - Mixed)
      BY <3>1, StateFacts, RunSub
    <3> QED
      BY <2>1, <3>1, <3>2
  <2>6. SubSeq(mem, 1, memsize) = tail
    <3>1. Base + Mixed \in Nat /\ memsize \in Nat
      BY StateFacts
    <3> QED
      BY <3>1, RunPrefix DEF IInv, MemOK
  <2>7. XXH64(p) = Hash(TRUE, lanes, total_len, tail)
    BY <2>2, <2>3, <2>4, <2>5 DEF XXH64
  <2>8. XXH64_digest = Hash(seeded, lanes, total_len, tail)
    BY <2>6 DEF XXH64_digest
  <2> HIDE DEF p, tail, whole
  <2>9. CASE total_len < STRIPE
    <3>1. ~(total_len >= STRIPE)
      BY <2>9, StateFacts
    <3> QED
      BY <2>7, <2>8, <2>9, <3>1 DEF Hash, StreamIsOneShot, p
  <2>10. CASE total_len >= STRIPE
    <3>1. ~(total_len < STRIPE)
      BY <2>10, StateFacts
    <3>2. XXH64(p) = [lanes |-> <<TRUE, lanes>>, length |-> total_len, tail |-> tail]
      BY <2>7, <2>10 DEF Hash
    <3>3. XXH64_digest = [lanes |-> <<seeded, lanes>>, length |-> total_len, tail |-> tail]
      BY <2>8, <2>10 DEF Hash
    <3>4. XXH64_digest = XXH64(p) <=> seeded = TRUE
      <4>1. XXH64_digest.lanes[1] = seeded /\ XXH64(p).lanes[1] = TRUE
        BY <3>2, <3>3
      <4>2. seeded = TRUE => XXH64_digest = XXH64(p)
        BY <3>2, <3>3
      <4> QED
        BY <4>1, <4>2
    <3>5. seeded = TRUE <=> seeded
      BY DEF IInv, TypeOK
    <3> QED
      BY <3>1, <3>4, <3>5 DEF StreamIsOneShot, p
  <2> QED
    BY <2>9, <2>10, StateFacts
<1> QED
  BY <1>1, Inductive, PTL
=============================================================================
