---------------------------- MODULE CompareProof ----------------------------
(***************************************************************************)
(* Proofs about Compare, for all files, lines and command lines: what exit *)
(* status 0 means.                                                         *)
(***************************************************************************)
EXTENDS Compare, FiniteSetTheorems, SequenceTheorems, WellFoundedInduction, TLAPS

(***************************************************************************)
(* What has been read, of a command line a and contents c, when line y of  *)
(* argument x comes next: pairs of an argument and a line of its file.     *)
(***************************************************************************)
ReadSoFar(a, c, x, y) ==
  {p \in (1..2) \X (1..MaxLines) :
     /\ p[1] < x \/ (p[1] = x /\ p[2] < y)
     /\ p[2] <= Len(c[a[p[1]]])}

TokensAt(a, c, p) == Tokens(c[a[p[1]]][p[2]])

Alike(a, c, x, y, name) ==
  {p \in ReadSoFar(a, c, x, y) : TokensAt(a, c, p)[2] = name}

Texts == {Tokens(line)[j] : line \in Lines, j \in 1..2}

(* The sums of a name are those of the lines read that have it, as many as *)
(* there are such lines.                                                   *)
SumsOf(a, c, x, y, name, sums) ==
  /\ sums # << >>
  /\ Len(sums) = Cardinality(Alike(a, c, x, y, name))
  /\ \A p \in Alike(a, c, x, y, name) :
       \E n \in 1..Len(sums) : sums[n] = TokensAt(a, c, p)[1]
  /\ \A n \in 1..Len(sums) :
       \E p \in Alike(a, c, x, y, name) : sums[n] = TokensAt(a, c, p)[1]

(* data has every name read, once.                                         *)
Gathered(a, c, x, y, ns, d) ==
  /\ ns \in Seq(Texts) /\ d \in Seq(Seq(Texts)) /\ Len(d) = Len(ns)
  /\ \A i, j \in 1..Len(ns) : ns[i] = ns[j] => i = j
  /\ \A p \in ReadSoFar(a, c, x, y) :
       /\ Len(TokensAt(a, c, p)) >= 2
       /\ \E i \in 1..Len(ns) : ns[i] = TokensAt(a, c, p)[2]
  /\ \A i \in 1..Len(ns) : SumsOf(a, c, x, y, ns[i], d[i])

GatheredOK ==
  /\ Len(argv) = 2 /\ f \in 1..3 /\ k \in Nat \ {0}
  /\ \A i \in 1..2 : i < f => argv[i] \in Files
  /\ Gathered(argv, contents, f, k, names, data)

AllEqual == \A i \in 1..Len(names) : Verdict(data[i]) = "equal"

(* It has ended without a report.                                          *)
Failed ==
  /\ status = 1
  /\ \/ Len(argv) # 2
     \/ \E i \in 1..2 : argv[i] \notin Files
     \/ \E i \in 1..2 : \E n \in 1..Len(contents[argv[i]]) :
          Len(Tokens(contents[argv[i]][n])) < 2

Reported == GatheredOK /\ f = 3 /\ (status = 0 <=> AllEqual)

IInv ==
  /\ argv \in Argvs
  /\ contents \in [Files -> BoundedSeq(Lines, MaxLines)]
  /\ pc \in {"args", "read", "done"}
  /\ pc = "args" => f = 1 /\ k = 1 /\ names = << >> /\ data = << >>
  /\ pc = "read" => GatheredOK
  /\ pc = "done" => Failed \/ Reported

-----------------------------------------------------------------------------
(***************************************************************************)
(* Recursion and induction over the names.                                 *)
(***************************************************************************)

(* A set of numbers has a least one.                                       *)
LEMMA LeastNumber ==
  ASSUME NEW T, T \subseteq Nat, T # {}
  PROVE  \E x \in T : \A y \in T : ~(y < x)
<1>1. IsWellFoundedOn(OpToRel(<, Nat), Nat)
  BY NatLessThanWellFounded
<1>2. \E x \in T : \A y \in T : ~(<<y, x>> \in OpToRel(<, Nat))
  BY <1>1, WFMin
<1> QED
  BY <1>2 DEF OpToRel

(* Induction: a set of numbers closed under the successor has them all.    *)
LEMMA Induction ==
  ASSUME NEW S, 0 \in S, \A n \in Nat : n \in S => n + 1 \in S
  PROVE  Nat \subseteq S
<1> DEFINE T == Nat \ S
<1> SUFFICES ASSUME T # {} PROVE FALSE
  OBVIOUS
<1>1. PICK x \in T : \A y \in T : ~(y < x)
  <2>1. T \subseteq Nat
    OBVIOUS
  <2> HIDE DEF T
  <2> QED
    BY <2>1, LeastNumber
<1>2. x \in Nat /\ x # 0 /\ x - 1 \in Nat
  OBVIOUS
<1>3. x - 1 \notin T
  BY <1>1, <1>2
<1>4. (x - 1) + 1 = x
  BY <1>2
<1> QED
  BY <1>2, <1>3, <1>4

(* A function is defined by recursion over an interval.                    *)
Unfolds(g, c, d, L) == g[0] = c /\ \A b \in 1..L : g[b] = d[b][g[b - 1]]

LEMMA Recursion ==
  ASSUME NEW S, NEW L \in Nat, NEW c \in S, NEW d \in [1..L -> [S -> S]]
  PROVE  \E g \in [0..L -> S] : Unfolds(g, c, d, L)
<1> DEFINE Upto(g, n) == g[0] = c /\ \A b \in 1..n : g[b] = d[b][g[b - 1]]
           Good == {n \in Nat : n <= L => \E g \in [0..n -> S] : Upto(g, n)}
<1>1. 0 \in Good
  <2>1. [b \in 0..0 |-> c] \in [0..0 -> S] /\ Upto([b \in 0..0 |-> c], 0)
    OBVIOUS
  <2> QED
    BY <2>1
<1>2. ASSUME NEW n \in Nat, n \in Good
      PROVE  n + 1 \in Good
  <2> SUFFICES ASSUME n + 1 <= L
               PROVE  \E g \in [0..(n + 1) -> S] : Upto(g, n + 1)
    OBVIOUS
  <2>1. PICK g \in [0..n -> S] : Upto(g, n)
    BY <1>2
  <2> DEFINE next == d[n + 1][g[n]]
             h == [b \in 0..(n + 1) |-> IF b = n + 1 THEN next ELSE g[b]]
  <2>2. next \in S
    <3>1. g[n] \in S /\ n + 1 \in 1..L
      BY <2>1
    <3> QED
      BY <3>1
  <2>3. h \in [0..(n + 1) -> S]
    <3> HIDE DEF next
    <3> QED
      BY <2>1, <2>2
  <2>4. h[0] = c
    <3> HIDE DEF next
    <3> QED
      BY <2>1
  <2>5. ASSUME NEW b \in 1..(n + 1)
        PROVE  h[b] = d[b][h[b - 1]]
    <3>1. CASE b = n + 1
      <4>1. h[b] = next /\ h[n] = g[n] /\ b - 1 = n
        BY <3>1
      <4> QED
        BY <3>1, <4>1
    <3>2. CASE b \in 1..n
      <4>1. h[b] = g[b] /\ h[b - 1] = g[b - 1]
        BY <3>2
      <4> HIDE DEF h
      <4> QED
        BY <2>1, <3>2, <4>1
    <3> QED
      BY <3>1, <3>2
  <2> HIDE DEF h
  <2> QED
    BY <2>3, <2>4, <2>5
<1>3. Nat \subseteq Good
  <2> HIDE DEF Good
  <2> QED
    BY <1>1, <1>2, Induction
<1>4. PICK g \in [0..L -> S] : Upto(g, L)
  BY <1>3
<1> QED
  BY <1>4 DEF Unfolds

(* The loop over the names.                                               *)
LEMMA ClassifiedFacts ==
  ASSUME names \in Seq(Texts), NEW list
  PROVE  \E g \in [0..Len(names) -> Seq(Texts)] :
           /\ g[0] = << >>
           /\ \A i \in 1..Len(names) : g[i] = Listed(list, i, g[i - 1])
           /\ Classified(list) = g[Len(names)]
<1> DEFINE L == Len(names)
           E(h) == [i \in 0..L |-> IF i = 0 THEN << >> ELSE Listed(list, i, h[i - 1])]
<1>1. L \in Nat
  BY LenProperties
<1>2. \A i \in 1..L : names[i] \in Texts
  BY ElementOfSeq
<1>3. \E g \in [0..L -> Seq(Texts)] : g = E(g)
  <2> DEFINE d == [i \in 1..L |-> [s \in Seq(Texts) |-> Listed(list, i, s)]]
  <2>1. \A i \in 1..L, s \in Seq(Texts) : Listed(list, i, s) \in Seq(Texts)
    BY <1>2, AppendProperties DEF Listed
  <2> HIDE DEF L
  <2>2. /\ d \in [1..L -> [Seq(Texts) -> Seq(Texts)]]
        /\ \A i \in 1..L, s \in Seq(Texts) : d[i][s] = Listed(list, i, s)
    BY <2>1
  <2> HIDE DEF d
  <2>3. PICK g \in [0..L -> Seq(Texts)] : Unfolds(g, << >>, d, L)
    <3>1. << >> \in Seq(Texts)
      BY EmptySeq
    <3> QED
      BY <1>1, <2>2, <3>1, Recursion
  <2>4. ASSUME NEW i \in 1..L
        PROVE  g[i] = Listed(list, i, g[i - 1])
    <3>1. g[i - 1] \in Seq(Texts)
      BY <1>1
    <3> QED
      BY <2>2, <2>3, <3>1 DEF Unfolds
  <2>5. g = E(g)
    BY <1>1, <2>3, <2>4 DEF Unfolds
  <2> QED
    BY <2>5
<1> DEFINE g == CHOOSE h : h = E(h)
<1>4. Classified(list) = g[L]
  BY DEF Classified
<1>5. g \in [0..L -> Seq(Texts)] /\ g = E(g)
  <2>1. PICK h \in [0..L -> Seq(Texts)] : h = E(h)
    BY <1>3
  <2>2. g = E(g)
    <3> HIDE DEF E
    <3> QED
      BY <2>1
  <2>3. DOMAIN E(g) = 0..L
    OBVIOUS
  <2> DEFINE Same == {i \in Nat : i <= L => g[i] = h[i]}
  <2> HIDE DEF g, L
  <2>4. 0 \in Same
    BY <1>1, <2>1, <2>2
  <2>5. ASSUME NEW i \in Nat, i \in Same
        PROVE  i + 1 \in Same
    BY <1>1, <2>1, <2>2, <2>5
  <2>6. Nat \subseteq Same
    <3> HIDE DEF Same
    <3> QED
      BY <2>4, <2>5, Induction
  <2>7. \A i \in 0..L : g[i] = h[i]
    BY <1>1, <2>6
  <2> QED
    BY <2>1, <2>2, <2>3, <2>7
<1> HIDE DEF g, L
<1>6. g[0] = << >> /\ \A i \in 1..L : g[i] = Listed(list, i, g[i - 1])
  BY <1>1, <1>5
<1> QED
  BY <1>4, <1>5, <1>6 DEF L

(* A list has all names only if it gets each.                              *)
LEMMA AllClassified ==
  ASSUME names \in Seq(Texts)
  PROVE  Len(Classified("equal")) = Len(names) <=> AllEqual
<1> DEFINE L == Len(names)
<1>1. PICK g \in [0..L -> Seq(Texts)] :
           /\ g[0] = << >>
           /\ \A i \in 1..L : g[i] = Listed("equal", i, g[i - 1])
           /\ Classified("equal") = g[L]
  BY ClassifiedFacts
<1>2. L \in Nat /\ \A i \in 1..L : names[i] \in Texts
  BY LenProperties, ElementOfSeq
<1> DEFINE Full(i) == \A j \in 1..i : Verdict(data[j]) = "equal"
           Good == {i \in Nat : i <= L => /\ Len(g[i]) \in 0..i
                                          /\ Len(g[i]) = i <=> Full(i)}
<1>3. 0 \in Good
  BY <1>1
<1>4. ASSUME NEW i \in Nat, i \in Good
      PROVE  i + 1 \in Good
  <2> HIDE DEF L
  <2> SUFFICES ASSUME i + 1 <= L
               PROVE  /\ Len(g[i + 1]) \in 0..(i + 1)
                      /\ Len(g[i + 1]) = i + 1 <=> Full(i + 1)
    OBVIOUS
  <2>1. i <= L /\ i \in 0..L /\ i + 1 \in 1..L /\ (i + 1) - 1 = i
    BY <1>2
  <2>2. Len(g[i]) \in 0..i /\ (Len(g[i]) = i <=> Full(i)) /\ g[i] \in Seq(Texts)
    BY <1>4, <2>1
  <2>3. g[i + 1] = Listed("equal", i + 1, g[i]) /\ names[i + 1] \in Texts
    BY <1>1, <1>2, <2>1
  <2>4. Full(i + 1) <=> Full(i) /\ Verdict(data[i + 1]) = "equal"
    OBVIOUS
  <2> HIDE DEF Full
  <2>5. CASE Verdict(data[i + 1]) = "equal"
    <3>1. Len(g[i + 1]) = Len(g[i]) + 1
      BY <2>2, <2>3, <2>5, AppendProperties DEF Listed
    <3> QED
      BY <2>2, <2>4, <2>5, <3>1
  <2>6. CASE Verdict(data[i + 1]) # "equal"
    <3>1. g[i + 1] = g[i]
      BY <2>3, <2>6 DEF Listed
    <3> QED
      BY <2>2, <2>4, <2>6, <3>1
  <2> QED
    BY <2>5, <2>6
<1>5. Nat \subseteq Good
  <2> HIDE DEF Good
  <2> QED
    BY <1>3, <1>4, Induction
<1>6. Len(g[L]) = L <=> Full(L)
  BY <1>2, <1>5
<1> QED
  BY <1>1, <1>6 DEF AllEqual

-----------------------------------------------------------------------------
(***************************************************************************)
(* Lines, and where a name stands.                                         *)
(***************************************************************************)
LEMMA LineFacts ==
  ASSUME contents \in [Files -> BoundedSeq(Lines, MaxLines)], NEW file \in Files
  PROVE  /\ contents[file] \in Seq(Lines)
         /\ Len(contents[file]) \in Nat /\ Len(contents[file]) <= MaxLines
         /\ DOMAIN contents[file] = 1..Len(contents[file])
         /\ \A n \in 1..Len(contents[file]) :
              /\ contents[file][n] \in Lines /\ contents[file][n] \in Seq(STRING)
              /\ \A j \in 1..2 : Tokens(contents[file][n])[j] \in Texts
<1>1. contents[file] \in Seq(Lines) /\ Len(contents[file]) <= MaxLines
  BY BoundAssumption DEF BoundedSeq, SeqOf
<1>2. Len(contents[file]) \in Nat /\ DOMAIN contents[file] = 1..Len(contents[file])
  BY <1>1, LenProperties
<1>3. \A n \in 1..Len(contents[file]) : contents[file][n] \in Lines
  BY <1>1, ElementOfSeq
<1>4. \A line \in Lines : line \in Seq(STRING) /\ \A j \in 1..2 : Tokens(line)[j] \in Texts
  BY LinesAssumption DEF Texts
<1> QED
  BY <1>1, <1>2, <1>3, <1>4

LEMMA EndsOfTwo ==
  ASSUME NEW S, S = 1..2
  PROVE  /\ S # {}
         /\ (CHOOSE i \in S : \A j \in S : i <= j) = 1
         /\ (CHOOSE i \in S : \A j \in S : i >= j) = 2
<1>1. 1 \in S /\ 2 \in S /\ \A i \in S : i = 1 \/ i = 2
  OBVIOUS
<1>2. \A i \in S : (\A j \in S : i <= j) <=> i = 1
  BY <1>1
<1>3. \A i \in S : (\A j \in S : i >= j) <=> i = 2
  BY <1>1
<1>4. (CHOOSE i \in S : \A j \in S : i <= j) = 1
  BY <1>1, <1>2
<1>5. (CHOOSE i \in S : \A j \in S : i >= j) = 2
  BY <1>1, <1>3
<1> QED
  BY <1>1, <1>4, <1>5

LEMMA HeadTailOfTwo ==
  ASSUME NEW S, NEW s \in Seq(S), Len(s) = 2
  PROVE  Head(s) = s[1] /\ Tail(s) = <<s[2]>>
<1>1. s # << >> /\ Head(s) = s[1] /\ s[2] \in S
  <2>1. Len(<< >>) = 0
    OBVIOUS
  <2>2. s # << >>
    BY <2>1
  <2>3. Head(s) = s[1]
    BY <2>2
  <2>4. s[2] \in S
    BY ElementOfSeq
  <2> QED
    BY <2>2, <2>3, <2>4
<1>2. Tail(s) \in Seq(S) /\ Len(Tail(s)) = 1 /\ Tail(s)[1] = s[2]
  <2>1. /\ Tail(s) \in Seq(S) /\ Len(Tail(s)) = Len(s) - 1
        /\ \A i \in 1..Len(Tail(s)) : Tail(s)[i] = s[i + 1]
    BY <1>1, HeadTailProperties
  <2> DEFINE t == Tail(s)
  <2> HIDE DEF t
  <2>2. t \in Seq(S) /\ Len(t) = 1 /\ \A i \in 1..Len(t) : t[i] = s[i + 1]
    BY <2>1 DEF t
  <2>3. t[1] = s[2]
    BY <2>2
  <2> QED
    BY <2>2, <2>3 DEF t
<1>3. <<s[2]>> \in Seq(S) /\ Len(<<s[2]>>) = 1 /\ <<s[2]>>[1] = s[2]
  BY <1>1
<1> DEFINE t == Tail(s)
           u == <<s[2]>>
<1>4. /\ t \in Seq(S) /\ u \in Seq(S) /\ Len(t) = Len(u) /\ Len(t) = 1 /\ t[1] = u[1]
  BY <1>2, <1>3
<1> HIDE DEF t, u
<1>5. \A i \in 1..Len(t) : t[i] = u[i]
  BY <1>4
<1>6. t = u
  BY <1>4, <1>5, SeqEqual
<1> QED
  BY <1>1, <1>6 DEF t, u

(* A name of a line without pairs of blanks is the name as written.        *)
LEMMA PlainTokens ==
  ASSUME NEW line \in Seq(STRING), Len(line) = 2, \A i \in 1..2 : line[i] # ""
  PROVE  /\ Tokens(line) = line
         /\ Head(line) = line[1] /\ Tail(line) = <<line[2]>>
<1>1. DOMAIN line = 1..2
  BY LenProperties
<1>2. {i \in DOMAIN line : line[i] # ""} = 1..2
  BY <1>1
<1>3. Tokens(line) = SubSeq(line, 1, 2)
  BY <1>2, EndsOfTwo DEF Tokens
<1>4. line = [i \in 1..2 |-> line[i]] /\ \A i \in 1..2 : line[i] \in STRING
  BY <1>1, LenProperties, ElementOfSeq
<1>5. SubSeq(line, 1, 2) = line
  BY SubSeqFull
<1>6. Head(line) = line[1] /\ Tail(line) = <<line[2]>>
  BY HeadTailOfTwo
<1> QED
  BY <1>3, <1>5, <1>6

LEMMA PositionFound ==
  ASSUME names \in Seq(Texts), NEW i \in 1..Len(names),
         \A j, l \in 1..Len(names) : names[j] = names[l] => j = l
  PROVE  Position(names[i]) = i
BY DEF Position, SelectInSeq, Min

LEMMA PositionFacts ==
  ASSUME names \in Seq(Texts), NEW name,
         \A j, l \in 1..Len(names) : names[j] = names[l] => j = l
  PROVE  /\ Position(name) = 0 => \A i \in 1..Len(names) : names[i] # name
         /\ Position(name) # 0 =>
              Position(name) \in 1..Len(names) /\ names[Position(name)] = name
<1>1. CASE \E i \in 1..Len(names) : names[i] = name
  <2>1. PICK i \in 1..Len(names) : names[i] = name
    BY <1>1
  <2>2. Position(name) = i
    BY <2>1, PositionFound
  <2> QED
    BY <2>1, <2>2
<1>2. CASE \A i \in 1..Len(names) : names[i] # name
  <2>1. Position(name) = 0
    BY <1>2 DEF Position, SelectInSeq
  <2> QED
    BY <1>2, <2>1
<1> QED
  BY <1>1, <1>2

-----------------------------------------------------------------------------
(***************************************************************************)
(* One line more.                                                          *)
(***************************************************************************)
\* Line q is read.
Joins(q, new, old) == new = old \cup {q} /\ q \notin old

LEMMA OneMore ==
  ASSUME NEW a, NEW c, NEW x \in 1..2, NEW y \in Nat \ {0},
         Len(c[a[x]]) \in Nat, y <= Len(c[a[x]]), y <= MaxLines
  PROVE  Joins(<<x, y>>, ReadSoFar(a, c, x, y + 1), ReadSoFar(a, c, x, y))
<1>1. <<x, y>> \in (1..2) \X (1..MaxLines)
  BY BoundAssumption
<1>2. ASSUME NEW p \in (1..2) \X (1..MaxLines)
      PROVE  p \in ReadSoFar(a, c, x, y + 1) <=> p \in ReadSoFar(a, c, x, y) \/ p = <<x, y>>
  <2>1. p = <<p[1], p[2]>> /\ p[1] \in 1..2 /\ p[2] \in Nat
    OBVIOUS
  <2>2. CASE p[1] = x
    <3>1. p = <<x, y>> <=> p[2] = y
      BY <2>1, <2>2
    <3> QED
      BY <2>1, <2>2, <3>1 DEF ReadSoFar
  <2>3. CASE p[1] # x
    BY <2>1, <2>3 DEF ReadSoFar
  <2> QED
    BY <2>2, <2>3
<1>3. \A p \in ReadSoFar(a, c, x, y + 1) \cup ReadSoFar(a, c, x, y) :
        p \in (1..2) \X (1..MaxLines)
  BY DEF ReadSoFar
<1>4. <<x, y>> \notin ReadSoFar(a, c, x, y)
  BY DEF ReadSoFar
<1> QED
  BY <1>1, <1>2, <1>3, <1>4 DEF Joins

LEMMA AlikeMore ==
  ASSUME NEW a, NEW c, NEW x \in 1..2, NEW y \in Nat \ {0},
         Len(c[a[x]]) \in Nat, y <= Len(c[a[x]]), y <= MaxLines,
         NEW name, TokensAt(a, c, <<x, y>>)[2] = name
  PROVE  Joins(<<x, y>>, Alike(a, c, x, y + 1, name), Alike(a, c, x, y, name))
<1> DEFINE q == <<x, y>>
           R == ReadSoFar(a, c, x, y)
           Q == ReadSoFar(a, c, x, y + 1)
<1>1. Joins(q, Q, R)
  BY OneMore
<1>2. Alike(a, c, x, y + 1, name) = {p \in Q : TokensAt(a, c, p)[2] = name}
  BY DEF Alike
<1>3. Alike(a, c, x, y, name) = {p \in R : TokensAt(a, c, p)[2] = name}
  BY DEF Alike
<1>4. TokensAt(a, c, q)[2] = name
  OBVIOUS
<1> HIDE DEF q, R, Q
<1> QED
  BY <1>1, <1>2, <1>3, <1>4 DEF Joins, q

LEMMA AlikeSame ==
  ASSUME NEW a, NEW c, NEW x \in 1..2, NEW y \in Nat \ {0},
         Len(c[a[x]]) \in Nat, y <= Len(c[a[x]]), y <= MaxLines,
         NEW name, TokensAt(a, c, <<x, y>>)[2] # name
  PROVE  Alike(a, c, x, y + 1, name) = Alike(a, c, x, y, name)
<1> DEFINE q == <<x, y>>
           R == ReadSoFar(a, c, x, y)
           Q == ReadSoFar(a, c, x, y + 1)
<1>1. Joins(q, Q, R)
  BY OneMore
<1>2. Alike(a, c, x, y + 1, name) = {p \in Q : TokensAt(a, c, p)[2] = name}
  BY DEF Alike
<1>3. Alike(a, c, x, y, name) = {p \in R : TokensAt(a, c, p)[2] = name}
  BY DEF Alike
<1>4. TokensAt(a, c, q)[2] # name
  OBVIOUS
<1> HIDE DEF q, R, Q
<1> QED
  BY <1>1, <1>2, <1>3, <1>4 DEF Joins

LEMMA AlikeFinite ==
  ASSUME NEW a, NEW c, NEW x, NEW y, NEW name
  PROVE  IsFiniteSet(Alike(a, c, x, y, name))
<1>1. IsFiniteSet(1..2) /\ IsFiniteSet(1..MaxLines)
  <2>1. 1 \in Int /\ 2 \in Int /\ MaxLines \in Int
    BY BoundAssumption
  <2>2. IsFiniteSet(1..2)
    BY <2>1, FS_Interval
  <2>3. IsFiniteSet(1..MaxLines)
    BY <2>1, FS_Interval
  <2> QED
    BY <2>2, <2>3
<1>2. IsFiniteSet((1..2) \X (1..MaxLines))
  BY <1>1, FS_Product
<1>3. Alike(a, c, x, y, name) \in SUBSET ((1..2) \X (1..MaxLines))
  BY DEF Alike, ReadSoFar
<1> QED
  BY <1>2, <1>3, FS_Subset

(* A name's second sum, or a later one.                                    *)
LEMMA SumsMore ==
  ASSUME NEW a, NEW c, NEW x \in 1..2, NEW y \in Nat \ {0},
         Len(c[a[x]]) \in Nat, y <= Len(c[a[x]]), y <= MaxLines,
         NEW name, TokensAt(a, c, <<x, y>>)[2] = name,
         NEW sums \in Seq(Texts), SumsOf(a, c, x, y, name, sums),
         NEW sum \in Texts, sum = TokensAt(a, c, <<x, y>>)[1]
  PROVE  SumsOf(a, c, x, y + 1, name, Append(sums, sum))
<1> DEFINE A == Alike(a, c, x, y, name)
           B == Alike(a, c, x, y + 1, name)
           q == <<x, y>>
           t == Append(sums, sum)
<1>1. B = A \cup {q} /\ q \notin A
  <2>1. Joins(q, B, A)
    BY AlikeMore
  <2> HIDE DEF A, B, q
  <2> QED
    BY <2>1 DEF Joins
<1>2. IsFiniteSet(A)
  BY AlikeFinite
<1>3. /\ Len(sums) = Cardinality(A)
      /\ \A p \in A : \E n \in 1..Len(sums) : sums[n] = TokensAt(a, c, p)[1]
      /\ \A n \in 1..Len(sums) : \E p \in A : sums[n] = TokensAt(a, c, p)[1]
  BY DEF SumsOf
<1>4. /\ Len(t) = Len(sums) + 1 /\ t[Len(sums) + 1] = sum /\ Len(sums) \in Nat
      /\ \A n \in 1..Len(sums) : t[n] = sums[n]
  BY AppendProperties, LenProperties
<1> HIDE DEF A, B, t
<1>5. Cardinality(B) = Cardinality(A) + 1
  BY <1>1, <1>2, FS_AddElement
<1>6. Len(t) = Cardinality(B) /\ t # << >>
  BY <1>3, <1>4, <1>5
<1>7. ASSUME NEW p \in B
      PROVE  \E n \in 1..Len(t) : t[n] = TokensAt(a, c, p)[1]
  <2>1. CASE p \in A
    <3>1. PICK n \in 1..Len(sums) : sums[n] = TokensAt(a, c, p)[1]
      BY <1>3, <2>1
    <3>2. n \in 1..Len(t) /\ t[n] = sums[n]
      BY <1>4
    <3> QED
      BY <3>1, <3>2
  <2>2. CASE p = q
    BY <1>4, <2>2
  <2> QED
    BY <1>1, <2>1, <2>2
<1>8. ASSUME NEW n \in 1..Len(t)
      PROVE  \E p \in B : t[n] = TokensAt(a, c, p)[1]
  <2>1. CASE n \in 1..Len(sums)
    BY <1>1, <1>3, <1>4, <2>1
  <2>2. CASE n = Len(sums) + 1
    BY <1>1, <1>4, <2>2
  <2> QED
    BY <1>4, <2>1, <2>2
<1> QED
  BY <1>6, <1>7, <1>8 DEF SumsOf, B, t

(* Its first.                                                              *)
LEMMA SumsFirst ==
  ASSUME NEW a, NEW c, NEW x \in 1..2, NEW y \in Nat \ {0},
         Len(c[a[x]]) \in Nat, y <= Len(c[a[x]]), y <= MaxLines,
         NEW name, TokensAt(a, c, <<x, y>>)[2] = name, Alike(a, c, x, y, name) = {},
         NEW sum \in Texts, sum = TokensAt(a, c, <<x, y>>)[1]
  PROVE  SumsOf(a, c, x, y + 1, name, <<sum>>)
<1>1. Alike(a, c, x, y + 1, name) = {<<x, y>>}
  <2>1. Joins(<<x, y>>, Alike(a, c, x, y + 1, name), Alike(a, c, x, y, name))
    BY AlikeMore
  <2> QED
    BY <2>1 DEF Joins
<1>2. Cardinality({<<x, y>>}) = 1
  BY FS_Singleton
<1>3. Len(<<sum>>) = 1 /\ <<sum>>[1] = sum /\ <<sum>> # << >>
  OBVIOUS
<1> DEFINE A == Alike(a, c, x, y + 1, name)
           q == <<x, y>>
           t == <<sum>>
<1>4. A = {q} /\ Cardinality(A) = 1
  BY <1>1, <1>2
<1>5. Len(t) = 1 /\ t[1] = sum /\ t # << >> /\ sum = TokensAt(a, c, q)[1]
  BY <1>3
<1> HIDE DEF A, q, t
<1>6. \A n \in 1..Len(t) : n = 1
  BY <1>5
<1>7. 1 \in 1..Len(t)
  BY <1>5
<1>8. SumsOf(a, c, x, y + 1, name, t)
  BY <1>4, <1>5, <1>6, <1>7 DEF SumsOf, A
<1> QED
  BY <1>8 DEF t

(* What the sums of a name are depends on the lines that have it only.     *)
LEMMA SumsSame ==
  ASSUME NEW a, NEW c, NEW x, NEW y, NEW v, NEW w, NEW name, NEW sums,
         SumsOf(a, c, x, y, name, sums), Alike(a, c, v, w, name) = Alike(a, c, x, y, name)
  PROVE  SumsOf(a, c, v, w, name, sums)
BY DEF SumsOf

LEMMA GatherNew ==
  ASSUME NEW a, NEW c, NEW x \in 1..2, NEW y \in Nat \ {0},
         Len(c[a[x]]) \in Nat, y <= Len(c[a[x]]), y <= MaxLines,
         NEW ns, NEW d, Gathered(a, c, x, y, ns, d),
         NEW name \in Texts, name = TokensAt(a, c, <<x, y>>)[2],
         NEW sum \in Texts, sum = TokensAt(a, c, <<x, y>>)[1],
         Len(TokensAt(a, c, <<x, y>>)) >= 2,
         \A i \in 1..Len(ns) : ns[i] # name
  PROVE  Gathered(a, c, x, y + 1, Append(ns, name), Append(d, <<sum>>))
<1> DEFINE q == <<x, y>>
           R == ReadSoFar(a, c, x, y)
           Q == ReadSoFar(a, c, x, y + 1)
           L == Len(ns)
           ms == Append(ns, name)
           e == Append(d, <<sum>>)
<1>1. Joins(q, Q, R)
  BY OneMore
<1>2. /\ ns \in Seq(Texts) /\ d \in Seq(Seq(Texts)) /\ Len(d) = L
      /\ \A i, j \in 1..L : ns[i] = ns[j] => i = j
      /\ \A p \in R : /\ Len(TokensAt(a, c, p)) >= 2
                      /\ \E i \in 1..L : ns[i] = TokensAt(a, c, p)[2]
      /\ \A i \in 1..L : SumsOf(a, c, x, y, ns[i], d[i])
  BY DEF Gathered
<1>3. /\ ms \in Seq(Texts) /\ Len(ms) = L + 1 /\ L \in Nat
      /\ \A i \in 1..L : ms[i] = ns[i]
      /\ ms[L + 1] = name
  BY <1>2, AppendProperties, LenProperties
<1>4. <<sum>> \in Seq(Texts)
  OBVIOUS
<1>5. /\ e \in Seq(Seq(Texts)) /\ Len(e) = L + 1
      /\ \A i \in 1..L : e[i] = d[i]
      /\ e[L + 1] = <<sum>>
  <2> DEFINE t == <<sum>>
             S == Seq(Texts)
  <2>1. t \in S /\ d \in Seq(S) /\ Len(d) = L /\ L \in Nat
    BY <1>2, <1>3, <1>4
  <2> HIDE DEF t, S, L
  <2> QED
    BY <2>1, AppendProperties DEF t, S
<1>6. \A i \in 1..L : Alike(a, c, x, y + 1, ns[i]) = Alike(a, c, x, y, ns[i])
  BY AlikeSame
<1>7. Alike(a, c, x, y, name) = {}
  BY <1>2 DEF Alike
<1>8. SumsOf(a, c, x, y + 1, name, <<sum>>)
  BY <1>7, SumsFirst
<1>9. \A i \in 1..L : SumsOf(a, c, x, y + 1, ms[i], e[i])
  BY <1>2, <1>3, <1>5, <1>6, SumsSame
<1>10. SumsOf(a, c, x, y + 1, ms[L + 1], e[L + 1])
  BY <1>3, <1>5, <1>8
<1>11. Len(TokensAt(a, c, q)) >= 2 /\ TokensAt(a, c, q)[2] = name
  OBVIOUS
<1> HIDE DEF q, R, Q, L, ms, e
<1>12. \A i, j \in 1..Len(ms) : ms[i] = ms[j] => i = j
  <2>1. \A i \in 1..L : ms[i] # name
    BY <1>3 DEF L
  <2>2. \A i \in 1..Len(ms) : i \in 1..L \/ i = L + 1
    BY <1>3
  <2> SUFFICES ASSUME NEW i \in 1..Len(ms), NEW j \in 1..Len(ms), ms[i] = ms[j]
               PROVE  i = j
    OBVIOUS
  <2>3. CASE i \in 1..L /\ j \in 1..L
    BY <1>2, <1>3, <2>3
  <2>4. CASE i \in 1..L /\ j = L + 1
    BY <1>3, <2>1, <2>4
  <2>5. CASE i = L + 1 /\ j \in 1..L
    BY <1>3, <2>1, <2>5
  <2> QED
    BY <2>2, <2>3, <2>4, <2>5
<1>13. \A p \in Q : /\ Len(TokensAt(a, c, p)) >= 2
                    /\ \E i \in 1..Len(ms) : ms[i] = TokensAt(a, c, p)[2]
  <2>1. \A i \in 1..L : i \in 1..Len(ms)
    BY <1>3
  <2>2. L + 1 \in 1..Len(ms)
    BY <1>3
  <2>3. \A p \in R : \E i \in 1..Len(ms) : ms[i] = TokensAt(a, c, p)[2]
    BY <1>2, <1>3, <2>1
  <2> QED
    BY <1>1, <1>2, <1>3, <1>11, <2>2, <2>3 DEF Joins
<1>14. \A i \in 1..Len(ms) : SumsOf(a, c, x, y + 1, ms[i], e[i])
  <2>1. \A i \in 1..Len(ms) : i \in 1..L \/ i = L + 1
    BY <1>3
  <2> QED
    BY <1>9, <1>10, <2>1
<1>15. Gathered(a, c, x, y + 1, ms, e)
  BY <1>3, <1>5, <1>12, <1>13, <1>14 DEF Gathered, Q
<1> QED
  BY <1>15 DEF ms, e

LEMMA GatherOld ==
  ASSUME NEW a, NEW c, NEW x \in 1..2, NEW y \in Nat \ {0},
         Len(c[a[x]]) \in Nat, y <= Len(c[a[x]]), y <= MaxLines,
         NEW ns, NEW d, Gathered(a, c, x, y, ns, d),
         NEW old \in 1..Len(ns), ns[old] = TokensAt(a, c, <<x, y>>)[2],
         NEW sum \in Texts, sum = TokensAt(a, c, <<x, y>>)[1],
         Len(TokensAt(a, c, <<x, y>>)) >= 2
  PROVE  Gathered(a, c, x, y + 1, ns, [d EXCEPT ![old] = Append(@, sum)])
<1> DEFINE q == <<x, y>>
           R == ReadSoFar(a, c, x, y)
           Q == ReadSoFar(a, c, x, y + 1)
           L == Len(ns)
           more == Append(d[old], sum)
           e == [d EXCEPT ![old] = Append(@, sum)]
<1>1. Joins(q, Q, R)
  BY OneMore
<1>2. /\ ns \in Seq(Texts) /\ d \in Seq(Seq(Texts)) /\ Len(d) = L
      /\ \A i, j \in 1..L : ns[i] = ns[j] => i = j
      /\ \A p \in R : /\ Len(TokensAt(a, c, p)) >= 2
                      /\ \E i \in 1..L : ns[i] = TokensAt(a, c, p)[2]
      /\ \A i \in 1..L : SumsOf(a, c, x, y, ns[i], d[i])
  BY DEF Gathered
<1>3. d[old] \in Seq(Texts) /\ old \in 1..Len(d)
  BY <1>2, ElementOfSeq
<1>4. more \in Seq(Texts)
  BY <1>3, AppendProperties
<1>5. /\ e \in Seq(Seq(Texts)) /\ Len(e) = L
      /\ \A i \in 1..L : e[i] = IF i = old THEN more ELSE d[i]
  <2> DEFINE S == Seq(Texts)
             h == [d EXCEPT ![old] = more]
  <2>1. more \in S /\ d \in Seq(S) /\ Len(d) = L /\ old \in 1..Len(d) /\ e = h
    BY <1>2, <1>3, <1>4
  <2> HIDE DEF S, more, L, e
  <2>2. h \in Seq(S) /\ Len(h) = Len(d) /\ \A i \in 1..Len(d) : h[i] = IF i = old THEN more ELSE d[i]
    BY <2>1, ExceptSeq
  <2> QED
    BY <2>1, <2>2 DEF S
<1>6. \A i \in 1..L : i # old => SumsOf(a, c, x, y + 1, ns[i], e[i])
  <2> SUFFICES ASSUME NEW i \in 1..L, i # old
               PROVE  SumsOf(a, c, x, y + 1, ns[i], e[i])
    OBVIOUS
  <2>1. ns[i] # TokensAt(a, c, <<x, y>>)[2]
    BY <1>2
  <2>2. Alike(a, c, x, y + 1, ns[i]) = Alike(a, c, x, y, ns[i])
    BY <2>1, AlikeSame
  <2>3. SumsOf(a, c, x, y, ns[i], d[i]) /\ e[i] = d[i]
    BY <1>2, <1>5
  <2>4. SumsOf(a, c, x, y + 1, ns[i], d[i])
    BY <2>2, <2>3, SumsSame
  <2> QED
    BY <2>3, <2>4
<1>7. SumsOf(a, c, x, y + 1, ns[old], e[old])
  <2>1. SumsOf(a, c, x, y, ns[old], d[old]) /\ e[old] = more
    BY <1>2, <1>5
  <2>2. SumsOf(a, c, x, y + 1, ns[old], more)
    BY <1>3, <2>1, SumsMore
  <2> QED
    BY <2>1, <2>2
<1>8. Len(TokensAt(a, c, q)) >= 2 /\ TokensAt(a, c, q)[2] = ns[old]
  OBVIOUS
<1> HIDE DEF q, R, Q, L, more, e
<1>9. \A p \in Q : /\ Len(TokensAt(a, c, p)) >= 2
                   /\ \E i \in 1..L : ns[i] = TokensAt(a, c, p)[2]
  <2>1. old \in 1..L
    BY DEF L
  <2> QED
    BY <1>1, <1>2, <1>8, <2>1 DEF Joins
<1>10. \A i \in 1..L : SumsOf(a, c, x, y + 1, ns[i], e[i])
  BY <1>6, <1>7
<1>11. Gathered(a, c, x, y + 1, ns, e)
  BY <1>2, <1>5, <1>9, <1>10 DEF Gathered, Q, L
<1> QED
  BY <1>11 DEF e

(* A file has been read to its end.                                        *)
LEMMA GatherSame ==
  ASSUME NEW a, NEW c, NEW x, NEW y, NEW v, NEW w, NEW ns, NEW d,
         Gathered(a, c, x, y, ns, d), ReadSoFar(a, c, v, w) = ReadSoFar(a, c, x, y)
  PROVE  Gathered(a, c, v, w, ns, d)
<1>1. \A name : Alike(a, c, v, w, name) = Alike(a, c, x, y, name)
  BY DEF Alike
<1>2. \A i \in 1..Len(ns) : SumsOf(a, c, v, w, ns[i], d[i])
  BY <1>1, SumsSame DEF Gathered
<1> QED
  BY <1>2 DEF Gathered

LEMMA FileRead ==
  ASSUME NEW a, NEW c, NEW x \in 1..2, NEW y \in Nat \ {0},
         Len(c[a[x]]) \in Nat, y > Len(c[a[x]])
  PROVE  ReadSoFar(a, c, x + 1, 1) = ReadSoFar(a, c, x, y)
<1>1. ASSUME NEW p \in (1..2) \X (1..MaxLines)
      PROVE  p \in ReadSoFar(a, c, x + 1, 1) <=> p \in ReadSoFar(a, c, x, y)
  <2>1. p[1] \in 1..2 /\ p[2] \in Nat \ {0}
    BY BoundAssumption
  <2>2. CASE p[1] = x
    BY <2>1, <2>2 DEF ReadSoFar
  <2>3. CASE p[1] # x
    BY <2>1, <2>3 DEF ReadSoFar
  <2> QED
    BY <2>2, <2>3
<1>2. \A p \in ReadSoFar(a, c, x + 1, 1) \cup ReadSoFar(a, c, x, y) :
        p \in (1..2) \X (1..MaxLines)
  BY DEF ReadSoFar
<1> QED
  BY <1>1, <1>2

LEMMA NothingRead ==
  ASSUME NEW a, NEW c
  PROVE  Gathered(a, c, 1, 1, << >>, << >>)
<1>1. ReadSoFar(a, c, 1, 1) = {}
  BY BoundAssumption DEF ReadSoFar
<1>2. << >> \in Seq(Texts) /\ << >> \in Seq(Seq(Texts)) /\ Len(<< >>) = 0
  OBVIOUS
<1> QED
  BY <1>1, <1>2 DEF Gathered

-----------------------------------------------------------------------------
(***************************************************************************)
(* The invariant.                                                          *)
(***************************************************************************)
LEMMA InitInv == Init => IInv
BY DEF Init, IInv

LEMMA StartInv == IInv /\ fetch_filenames => IInv'
<1> SUFFICES ASSUME IInv, fetch_filenames
             PROVE  IInv'
  OBVIOUS
<1>1. Gathered(argv, contents, 1, 1, << >>, << >>)
  BY NothingRead
<1>2. GatheredOK'
  BY <1>1 DEF IInv, fetch_filenames, GatheredOK
<1> QED
  BY <1>2 DEF IInv, fetch_filenames

(* Two arguments, the one at hand a file.                                  *)
LEMMA ReadingFacts ==
  ASSUME IInv, pc = "read", f <= Len(argv)
  PROVE  /\ GatheredOK /\ Len(argv) = 2 /\ f \in 1..2 /\ k \in Nat \ {0}
<1>1. GatheredOK
  BY DEF IInv
<1>2. Len(argv) = 2 /\ f \in 1..3 /\ k \in Nat \ {0}
  BY <1>1 DEF GatheredOK
<1> QED
  BY <1>1, <1>2

LEMMA FailInv == IInv /\ (BadUsage \/ NoFile \/ BadLine) => IInv'
<1> SUFFICES ASSUME IInv, BadUsage \/ NoFile \/ BadLine
             PROVE  IInv'
  OBVIOUS
<1>1. /\ argv' = argv /\ contents' = contents /\ pc' = "done" /\ status' = 1
  BY DEF BadUsage, NoFile, BadLine, ExitFailing
<1>2. \/ Len(argv) # 2
      \/ \E i \in 1..2 : argv[i] \notin Files
      \/ \E i \in 1..2 : \E n \in 1..Len(contents[argv[i]]) :
           Len(Tokens(contents[argv[i]][n])) < 2
  <2>1. CASE BadUsage
    BY <2>1 DEF BadUsage
  <2>2. CASE NoFile
    <3>1. f \in 1..2
      BY <2>2, ReadingFacts DEF NoFile
    <3> QED
      BY <2>2, <3>1 DEF NoFile
  <2>3. CASE BadLine
    <3>1. f \in 1..2 /\ k \in Nat \ {0}
      BY <2>3, ReadingFacts DEF BadLine
    <3>2. Len(contents[argv[f]]) \in Nat
      BY <2>3, LineFacts DEF BadLine, IInv
    <3>3. k \in 1..Len(contents[argv[f]]) /\ Len(Tokens(contents[argv[f]][k])) < 2
      BY <2>3, <3>1, <3>2 DEF BadLine
    <3> QED
      BY <3>1, <3>3
  <2> QED
    BY <2>1, <2>2, <2>3
<1>3. Failed'
  BY <1>1, <1>2 DEF Failed
<1> QED
  BY <1>1, <1>3 DEF IInv

LEMMA ReadLineInv == IInv /\ ReadLine => IInv'
<1> SUFFICES ASSUME IInv, ReadLine
             PROVE  IInv'
  OBVIOUS
<1>1. GatheredOK /\ Len(argv) = 2 /\ f \in 1..2 /\ k \in Nat \ {0}
  BY ReadingFacts DEF ReadLine
<1>2. /\ argv' = argv /\ contents' = contents /\ pc' = "read" /\ f' = f /\ k' = k + 1
      /\ argv[f] \in Files /\ k <= Len(contents[argv[f]])
  BY DEF ReadLine
<1>3. /\ Len(contents[argv[f]]) \in Nat /\ k <= MaxLines
      /\ \A j \in 1..2 : Tokens(contents[argv[f]][k])[j] \in Texts
  <2>1. /\ Len(contents[argv[f]]) \in Nat /\ Len(contents[argv[f]]) <= MaxLines
        /\ \A n \in 1..Len(contents[argv[f]]) :
             \A j \in 1..2 : Tokens(contents[argv[f]][n])[j] \in Texts
    BY <1>2, LineFacts DEF IInv
  <2>2. k \in 1..Len(contents[argv[f]])
    BY <1>1, <1>2, <2>1
  <2> QED
    BY <1>2, <2>1, <2>2, BoundAssumption
<1> DEFINE tokens == Tokens(contents[argv[f]][k])
           old == Position(tokens[2])
<1>4. /\ Len(tokens) >= 2
      /\ \/ old = 0 /\ names' = Append(names, tokens[2]) /\ data' = Append(data, <<tokens[1]>>)
         \/ old # 0 /\ data' = [data EXCEPT ![old] = Append(@, tokens[1])] /\ names' = names
  BY DEF ReadLine
<1>5. tokens = TokensAt(argv, contents, <<f, k>>)
  BY DEF TokensAt
<1>6. tokens[1] \in Texts /\ tokens[2] \in Texts
  BY <1>3
<1>7. /\ names \in Seq(Texts)
      /\ \A i, j \in 1..Len(names) : names[i] = names[j] => i = j
      /\ Gathered(argv, contents, f, k, names, data)
  BY <1>1 DEF GatheredOK, Gathered
<1>8. /\ old = 0 => \A i \in 1..Len(names) : names[i] # tokens[2]
      /\ old # 0 => old \in 1..Len(names) /\ names[old] = tokens[2]
  BY <1>7, PositionFacts
<1> HIDE DEF tokens, old
<1>9. Gathered(argv, contents, f, k + 1, names', data')
  <2>1. CASE old = 0
    <3>1. Gathered(argv, contents, f, k + 1, Append(names, tokens[2]), Append(data, <<tokens[1]>>))
      BY <1>1, <1>2, <1>3, <1>4, <1>5, <1>6, <1>7, <1>8, <2>1, GatherNew
    <3> QED
      BY <1>4, <2>1, <3>1
  <2>2. CASE old # 0
    <3>1. Gathered(argv, contents, f, k + 1, names, [data EXCEPT ![old] = Append(@, tokens[1])])
      BY <1>1, <1>2, <1>3, <1>4, <1>5, <1>6, <1>7, <1>8, <2>2, GatherOld
    <3> QED
      BY <1>4, <2>2, <3>1
  <2> QED
    BY <2>1, <2>2
<1>10. GatheredOK'
  BY <1>1, <1>2, <1>9 DEF GatheredOK
<1> QED
  BY <1>2, <1>10 DEF IInv

LEMMA NextFileInv == IInv /\ NextFile => IInv'
<1> SUFFICES ASSUME IInv, NextFile
             PROVE  IInv'
  OBVIOUS
<1>1. GatheredOK /\ Len(argv) = 2 /\ f \in 1..2 /\ k \in Nat \ {0}
  BY ReadingFacts DEF NextFile
<1>2. /\ argv' = argv /\ contents' = contents /\ pc' = "read" /\ f' = f + 1 /\ k' = 1
      /\ names' = names /\ data' = data
      /\ argv[f] \in Files /\ k > Len(contents[argv[f]])
  BY DEF NextFile
<1>3. Len(contents[argv[f]]) \in Nat
  BY <1>2, LineFacts DEF IInv
<1>4. ReadSoFar(argv, contents, f + 1, 1) = ReadSoFar(argv, contents, f, k)
  BY <1>1, <1>2, <1>3, FileRead
<1>5. Gathered(argv, contents, f, k, names, data)
  BY <1>1 DEF GatheredOK
<1>6. Gathered(argv, contents, f + 1, 1, names, data)
  BY <1>4, <1>5, GatherSame
<1>7. \A i \in 1..2 : i < f + 1 => argv[i] \in Files
  BY <1>1, <1>2 DEF GatheredOK
<1>8. GatheredOK'
  BY <1>1, <1>2, <1>6, <1>7 DEF GatheredOK
<1> QED
  BY <1>2, <1>8 DEF IInv

LEMMA ReportInv == IInv /\ Report => IInv'
<1> SUFFICES ASSUME IInv, Report
             PROVE  IInv'
  OBVIOUS
<1>1. GatheredOK /\ f = 3
  <2>1. GatheredOK /\ f > Len(argv)
    BY DEF IInv, Report
  <2>2. Len(argv) = 2 /\ f \in 1..3
    BY <2>1 DEF GatheredOK
  <2> QED
    BY <2>1, <2>2
<1>2. /\ argv' = argv /\ contents' = contents /\ pc' = "done" /\ f' = f /\ k' = k
      /\ names' = names /\ data' = data
  BY DEF Report
<1>3. names \in Seq(Texts)
  BY <1>1 DEF GatheredOK, Gathered
<1>4. status' = 0 <=> Len(Classified("equal")) = Len(names)
  BY DEF Report
<1>5. status' = 0 <=> AllEqual
  BY <1>3, <1>4, AllClassified
<1>6. AllEqual' <=> AllEqual
  BY <1>2 DEF AllEqual, Verdict
<1>7. Reported'
  BY <1>1, <1>2, <1>5, <1>6 DEF Reported, GatheredOK
<1> QED
  BY <1>2, <1>7 DEF IInv

LEMMA NextInv == IInv /\ [Next]_vars => IInv'
<1> SUFFICES ASSUME IInv, [Next]_vars
             PROVE  IInv'
  OBVIOUS
<1>1. CASE UNCHANGED vars
  BY <1>1 DEF IInv, vars, verdicts, GatheredOK, Failed, Reported, AllEqual, Verdict
<1> QED
  BY <1>1, StartInv, FailInv, ReadLineInv, NextFileInv, ReportInv DEF Next, Stopped

LEMMA Invariant == Spec => []IInv
BY InitInv, NextInv, PTL DEF Spec

-----------------------------------------------------------------------------
(***************************************************************************)
(* What the invariant comes to at the end.                                 *)
(***************************************************************************)
\* A line of the two files, as one of those read.
Places == {p \in (1..2) \X (1..MaxLines) : p[2] <= Len(contents[argv[p[1]]])}

LEMMA AllRead ==
  ASSUME f = 3
  PROVE  ReadSoFar(argv, contents, f, k) = Places
<1>1. \A p \in (1..2) \X (1..MaxLines) : p[1] < 3
  OBVIOUS
<1> QED
  BY <1>1 DEF ReadSoFar, Places

LEMMA PlaceOfLine ==
  ASSUME IInv, Reported, NEW i \in 1..2, NEW n \in DOMAIN contents[argv[i]]
  PROVE  /\ argv[i] \in Files /\ <<i, n>> \in ReadSoFar(argv, contents, f, k)
         /\ TokensAt(argv, contents, <<i, n>>) = Tokens(contents[argv[i]][n])
<1>1. f = 3 /\ argv[i] \in Files
  BY DEF Reported, GatheredOK
<1>2. /\ n \in 1..Len(contents[argv[i]]) /\ Len(contents[argv[i]]) \in Nat
      /\ Len(contents[argv[i]]) <= MaxLines
  BY <1>1, LineFacts DEF IInv
<1>3. <<i, n>> \in (1..2) \X (1..MaxLines)
  BY <1>2, BoundAssumption
<1>4. <<i, n>> \in Places
  BY <1>2, <1>3 DEF Places
<1> QED
  BY <1>1, <1>4, AllRead DEF TokensAt

LEMMA LineOfPlace ==
  ASSUME IInv, Reported, NEW p \in ReadSoFar(argv, contents, f, k)
  PROVE  /\ p = <<p[1], p[2]>> /\ p[1] \in 1..2 /\ argv[p[1]] \in Files
         /\ p[2] \in 1..MaxLines
         /\ p[2] \in DOMAIN contents[argv[p[1]]]
         /\ TokensAt(argv, contents, p) = Tokens(contents[argv[p[1]]][p[2]])
<1>1. f = 3
  BY DEF Reported
<1>2. p \in (1..2) \X (1..MaxLines) /\ p[2] <= Len(contents[argv[p[1]]])
  BY DEF ReadSoFar
<1>3. p = <<p[1], p[2]>> /\ p[1] \in 1..2 /\ p[2] \in 1..MaxLines
  BY <1>2
<1>4. argv[p[1]] \in Files
  BY <1>1, <1>3 DEF Reported, GatheredOK
<1>5. DOMAIN contents[argv[p[1]]] = 1..Len(contents[argv[p[1]]])
      /\ Len(contents[argv[p[1]]]) \in Nat
  BY <1>4, LineFacts DEF IInv
<1>6. p[2] \in DOMAIN contents[argv[p[1]]]
  BY <1>2, <1>3, <1>5, BoundAssumption
<1> QED
  BY <1>3, <1>4, <1>6 DEF TokensAt

\* The lines that MatchedByTwos counts.
AlikeLines(name) ==
  {p \in {1, 2} \X (1..MaxLines) :
     /\ p[2] \in DOMAIN contents[argv[p[1]]]
     /\ Tokens(contents[argv[p[1]]][p[2]])[2] = name}

LEMMA AlikeIs ==
  ASSUME IInv, Reported, NEW name
  PROVE  AlikeLines(name) = Alike(argv, contents, f, k, name)
<1>1. ASSUME NEW p \in AlikeLines(name)
      PROVE  p \in Alike(argv, contents, f, k, name)
  <2>1. /\ p[1] \in 1..2 /\ p = <<p[1], p[2]>> /\ p[2] \in DOMAIN contents[argv[p[1]]]
        /\ Tokens(contents[argv[p[1]]][p[2]])[2] = name
    BY DEF AlikeLines
  <2>2. /\ <<p[1], p[2]>> \in ReadSoFar(argv, contents, f, k)
        /\ TokensAt(argv, contents, <<p[1], p[2]>>) = Tokens(contents[argv[p[1]]][p[2]])
    BY <2>1, PlaceOfLine
  <2> QED
    BY <2>1, <2>2 DEF Alike
<1>2. ASSUME NEW p \in Alike(argv, contents, f, k, name)
      PROVE  p \in AlikeLines(name)
  <2>1. p \in ReadSoFar(argv, contents, f, k) /\ TokensAt(argv, contents, p)[2] = name
    BY DEF Alike
  <2>2. /\ p[2] \in DOMAIN contents[argv[p[1]]]
        /\ TokensAt(argv, contents, p) = Tokens(contents[argv[p[1]]][p[2]])
    BY <2>1, LineOfPlace
  <2>3. p \in {1, 2} \X (1..MaxLines)
    <3>1. p \in (1..2) \X (1..MaxLines)
      BY <2>1 DEF ReadSoFar
    <3> QED
      BY <3>1
  <2> QED
    BY <2>1, <2>2, <2>3 DEF AlikeLines
<1> QED
  BY <1>1, <1>2

(* Of a name whose verdict is "equal", all sums are the same and two.      *)
LEMMA EqualSums ==
  ASSUME Reported, AllEqual, NEW p \in ReadSoFar(argv, contents, f, k),
         NEW q \in ReadSoFar(argv, contents, f, k),
         TokensAt(argv, contents, q)[2] = TokensAt(argv, contents, p)[2]
  PROVE  /\ Len(TokensAt(argv, contents, p)) >= 2
         /\ Cardinality(Alike(argv, contents, f, k, TokensAt(argv, contents, p)[2])) = 2
         /\ TokensAt(argv, contents, q)[1] = TokensAt(argv, contents, p)[1]
<1> DEFINE name == TokensAt(argv, contents, p)[2]
<1>1. Gathered(argv, contents, f, k, names, data) /\ Len(argv) = 2
  BY DEF Reported, GatheredOK
<1>2. Len(TokensAt(argv, contents, p)) >= 2
  BY <1>1 DEF Gathered
<1>3. PICK i \in 1..Len(names) : names[i] = name
  BY <1>1 DEF Gathered
<1>4. SumsOf(argv, contents, f, k, name, data[i])
  BY <1>1, <1>3 DEF Gathered
<1>5. data[i] \in Seq(Texts)
  BY <1>1, <1>3, ElementOfSeq DEF Gathered
<1>6. /\ Len(data[i]) = 2
      /\ \A n \in DOMAIN data[i] : data[i][n] = data[i][1]
  BY <1>1, <1>3 DEF AllEqual, Verdict
<1>7. p \in Alike(argv, contents, f, k, name) /\ q \in Alike(argv, contents, f, k, name)
  BY DEF Alike
<1> HIDE DEF name
<1>8. /\ Cardinality(Alike(argv, contents, f, k, name)) = 2
      /\ \A o \in Alike(argv, contents, f, k, name) :
           \E n \in 1..Len(data[i]) : data[i][n] = TokensAt(argv, contents, o)[1]
  BY <1>4, <1>6 DEF SumsOf
<1>9. DOMAIN data[i] = 1..Len(data[i])
  BY <1>5, LenProperties
<1>10. \A o \in Alike(argv, contents, f, k, name) :
         TokensAt(argv, contents, o)[1] = data[i][1]
  BY <1>6, <1>8, <1>9
<1> QED
  BY <1>2, <1>7, <1>8, <1>10 DEF name

Twos(line) ==
  /\ Len(Tokens(line)) >= 2
  /\ Cardinality(AlikeLines(Tokens(line)[2])) = 2
  /\ \A p \in AlikeLines(Tokens(line)[2]) :
       Tokens(contents[argv[p[1]]][p[2]])[1] = Tokens(line)[1]

LEMMA LineTwos ==
  ASSUME IInv, pc = "done", status = 0, NEW i \in 1..2, NEW line \in Range(contents[argv[i]])
  PROVE  Twos(line)
<1>1. Reported /\ AllEqual
  BY DEF IInv, Failed, Reported
<1>2. PICK n \in DOMAIN contents[argv[i]] : line = contents[argv[i]][n]
  BY DEF Range
<1> DEFINE name == Tokens(line)[2]
           p == <<i, n>>
<1>3. p \in ReadSoFar(argv, contents, f, k) /\ TokensAt(argv, contents, p) = Tokens(line)
  BY <1>1, <1>2, PlaceOfLine
<1>4. AlikeLines(name) = Alike(argv, contents, f, k, name)
  BY <1>1, AlikeIs
<1> HIDE DEF p
<1>5. /\ Len(TokensAt(argv, contents, p)) >= 2
      /\ Cardinality(Alike(argv, contents, f, k, TokensAt(argv, contents, p)[2])) = 2
  BY <1>1, <1>3, EqualSums
<1>6. ASSUME NEW q \in AlikeLines(name)
      PROVE  Tokens(contents[argv[q[1]]][q[2]])[1] = Tokens(line)[1]
  <2>1. /\ q \in ReadSoFar(argv, contents, f, k)
        /\ TokensAt(argv, contents, q)[2] = TokensAt(argv, contents, p)[2]
    BY <1>3, <1>4 DEF Alike
  <2>2. TokensAt(argv, contents, q)[1] = TokensAt(argv, contents, p)[1]
    BY <1>1, <1>3, <2>1, EqualSums
  <2>3. TokensAt(argv, contents, q) = Tokens(contents[argv[q[1]]][q[2]])
    BY <1>1, <2>1, LineOfPlace
  <2> QED
    BY <1>3, <2>2, <2>3
<1> QED
  BY <1>3, <1>4, <1>5, <1>6 DEF Twos

(* Status 0 means that all sums of a name, as far as its first pair of     *)
(* blanks, are the same and are two in number, whatever the files hold     *)
(* (sump-compare lines 29-34, 45-51).                                      *)
THEOREM StatusMeansTwos == Spec => []MatchedByTwos
<1>1. ASSUME IInv, pc = "done", status = 0
      PROVE  /\ Len(argv) = 2
             /\ \A line \in Range(contents[argv[1]]) \cup Range(contents[argv[2]]) : Twos(line)
  <2>1. Len(argv) = 2
    BY <1>1 DEF IInv, Failed, Reported, GatheredOK
  <2>2. \A line \in Range(contents[argv[1]]) : Twos(line)
    BY <1>1, LineTwos
  <2>3. \A line \in Range(contents[argv[2]]) : Twos(line)
    BY <1>1, LineTwos
  <2> QED
    BY <2>1, <2>2, <2>3
<1>2. IInv => MatchedByTwos
  BY <1>1 DEF MatchedByTwos, Twos, AlikeLines
<1> QED
  BY <1>2, Invariant, PTL

-----------------------------------------------------------------------------
(***************************************************************************)
(* Plain files, which say a name once.                                     *)
(***************************************************************************)
LEMMA PlainLine ==
  ASSUME IInv, NEW file \in Files, Plain(file), NEW n \in DOMAIN contents[file]
  PROVE  /\ Len(Tokens(contents[file][n])) = 2
         /\ Said(file)[n] = [sum |-> Tokens(contents[file][n])[1],
                             name |-> <<Tokens(contents[file][n])[2]>>]
<1> DEFINE line == contents[file][n]
<1>1. line \in Seq(STRING)
  BY LineFacts DEF IInv
<1>2. line \in Range(contents[file])
  BY DEF Range
<1>3. Len(line) = 2 /\ "" \notin Range(line)
  BY <1>2 DEF Plain
<1>4. \A i \in 1..2 : line[i] # ""
  <2>1. DOMAIN line = 1..2
    BY <1>1, <1>3, LenProperties
  <2> HIDE DEF line
  <2> QED
    BY <1>3, <2>1 DEF Range
<1>5. Tokens(line) = line /\ Head(line) = line[1] /\ Tail(line) = <<line[2]>>
  <2> HIDE DEF line
  <2> QED
    BY <1>1, <1>3, <1>4, PlainTokens
<1>6. Said(file)[n] = [sum |-> Head(line), name |-> Tail(line)]
  BY DEF Said
<1> HIDE DEF line
<1> QED
  BY <1>3, <1>5, <1>6 DEF line

\* The two files are plain, and each says a name once.
Comparable ==
  \A i \in 1..2 : argv[i] \in Files /\ Plain(argv[i]) /\ NamedOnce(argv[i])

\* A line's sum, and its name.
Sum(p)  == TokensAt(argv, contents, p)[1]
Name(p) == TokensAt(argv, contents, p)[2]

LEMMA SaidAt ==
  ASSUME IInv, Reported, Comparable, NEW i \in 1..2, NEW n \in DOMAIN contents[argv[i]]
  PROVE  /\ <<i, n>> \in ReadSoFar(argv, contents, f, k)
         /\ Said(argv[i])[n] = [sum |-> Sum(<<i, n>>), name |-> <<Name(<<i, n>>)>>]
<1>1. /\ argv[i] \in Files /\ <<i, n>> \in ReadSoFar(argv, contents, f, k)
      /\ TokensAt(argv, contents, <<i, n>>) = Tokens(contents[argv[i]][n])
  BY PlaceOfLine
<1>2. Plain(argv[i])
  BY DEF Comparable
<1>3. Said(argv[i])[n] = [sum |-> Tokens(contents[argv[i]][n])[1],
                          name |-> <<Tokens(contents[argv[i]][n])[2]>>]
  BY <1>1, <1>2, PlainLine
<1> QED
  BY <1>1, <1>3 DEF Sum, Name

(* Two lines say the same if sum and name are the same.                    *)
LEMMA SameSaid ==
  ASSUME NEW s, NEW t, NEW u, NEW v
  PROVE  /\ [sum |-> s, name |-> <<u>>] = [sum |-> t, name |-> <<v>>] <=> s = t /\ u = v
         /\ [sum |-> s, name |-> <<u>>].name = [sum |-> t, name |-> <<v>>].name <=> u = v
OBVIOUS

(* Of one file, no two lines have a name.                                  *)
LEMMA OncePerFile ==
  ASSUME IInv, Reported, Comparable,
         NEW p \in ReadSoFar(argv, contents, f, k), NEW q \in ReadSoFar(argv, contents, f, k),
         p[1] = q[1], Name(p) = Name(q)
  PROVE  p = q
<1> DEFINE i == p[1]
           m == p[2]
           n == q[2]
<1>1. /\ p = <<i, m>> /\ i \in 1..2 /\ m \in DOMAIN contents[argv[i]]
      /\ q = <<i, n>> /\ n \in DOMAIN contents[argv[i]]
  BY LineOfPlace
<1> HIDE DEF i, m, n
<1>2. /\ Said(argv[i])[m] = [sum |-> Sum(p), name |-> <<Name(p)>>]
      /\ Said(argv[i])[n] = [sum |-> Sum(q), name |-> <<Name(q)>>]
  BY <1>1, SaidAt
<1>3. Said(argv[i])[m].name = Said(argv[i])[n].name
  BY <1>2, SameSaid
<1>4. NamedOnce(argv[i])
  BY <1>1 DEF Comparable
<1>5. m = n
  BY <1>1, <1>3, <1>4 DEF NamedOnce
<1> QED
  BY <1>1, <1>5

LEMMA AnotherOne ==
  ASSUME NEW S, Cardinality(S) = 2, NEW p \in S
  PROVE  \E q \in S : q # p
<1> SUFFICES ASSUME \A q \in S : q = p PROVE FALSE
  OBVIOUS
<1>1. S = {p}
  OBVIOUS
<1>2. Cardinality({p}) = 1
  BY FS_Singleton
<1> QED
  BY <1>1, <1>2

LEMMA TwoOnes ==
  ASSUME NEW p, NEW q, p # q
  PROVE  Cardinality({p, q}) = 2
<1>1. IsFiniteSet({p}) /\ Cardinality({p}) = 1
  BY FS_Singleton
<1>2. Cardinality({p} \cup {q}) = Cardinality({p}) + 1
  <2>1. q \notin {p}
    OBVIOUS
  <2>2. Cardinality({p} \cup {q}) =
          IF q \in {p} THEN Cardinality({p}) ELSE Cardinality({p}) + 1
    BY <1>1, FS_AddElement
  <2> QED
    BY <2>1, <2>2
<1>3. {p, q} = {p} \cup {q}
  OBVIOUS
<1> QED
  BY <1>1, <1>2, <1>3

(* Status 0: what a line of one file says, one of the other says.          *)
LEMMA SaidByOther ==
  ASSUME IInv, Reported, AllEqual, Comparable, NEW i \in 1..2, NEW j \in 1..2, i # j,
         NEW n \in DOMAIN contents[argv[i]]
  PROVE  \E m \in DOMAIN contents[argv[j]] : Said(argv[j])[m] = Said(argv[i])[n]
<1> DEFINE p == <<i, n>>
           A == Alike(argv, contents, f, k, Name(p))
<1>1. /\ p \in ReadSoFar(argv, contents, f, k)
      /\ Said(argv[i])[n] = [sum |-> Sum(p), name |-> <<Name(p)>>]
  BY SaidAt
<1>2. p[1] = i
  OBVIOUS
<1> HIDE DEF p
<1>3. p \in A
  BY <1>1 DEF Alike, Name
<1>4. Cardinality(A) = 2
  BY <1>1, EqualSums DEF Name
<1>5. PICK q \in A : q # p
  BY <1>3, <1>4, AnotherOne
<1>6. q \in ReadSoFar(argv, contents, f, k) /\ Name(q) = Name(p)
  BY <1>5 DEF Alike, Name
<1>7. Sum(q) = Sum(p)
  BY <1>1, <1>6, EqualSums DEF Sum, Name
<1>8. q = <<q[1], q[2]>> /\ q[1] \in 1..2 /\ q[2] \in DOMAIN contents[argv[q[1]]]
  BY <1>6, LineOfPlace
<1>9. q[1] # i
  BY <1>1, <1>2, <1>5, <1>6, OncePerFile
<1>10. q[1] = j
  BY <1>8, <1>9
<1>11. Said(argv[j])[q[2]] = [sum |-> Sum(q), name |-> <<Name(q)>>]
  BY <1>8, <1>10, SaidAt
<1> QED
  BY <1>1, <1>6, <1>7, <1>8, <1>10, <1>11

LEMMA RangeOfSaid ==
  ASSUME NEW file
  PROVE  Range(Said(file)) = {Said(file)[n] : n \in DOMAIN contents[file]}
BY DEF Range, Said

(* Files that say the same: every name's sums are two, and the same.       *)
LEMMA EqualIfSaid ==
  ASSUME IInv, Reported, Comparable, Range(Said(argv[1])) = Range(Said(argv[2])),
         NEW l \in 1..Len(names)
  PROVE  Verdict(data[l]) = "equal"
<1> DEFINE A == Alike(argv, contents, f, k, names[l])
<1>1. Gathered(argv, contents, f, k, names, data) /\ Len(argv) = 2
  BY DEF Reported, GatheredOK
<1>2. data[l] \in Seq(Texts)
  BY <1>1, ElementOfSeq DEF Gathered
<1>3. /\ data[l] # << >> /\ Len(data[l]) = Cardinality(A)
      /\ \A n \in 1..Len(data[l]) : \E p \in A : data[l][n] = Sum(p)
  BY <1>1 DEF Gathered, SumsOf, Sum
<1>4. DOMAIN data[l] = 1..Len(data[l]) /\ Len(data[l]) \in Nat /\ Len(data[l]) # 0
  BY <1>2, <1>3, LenProperties, EmptySeq
<1>5. 1 \in 1..Len(data[l])
  BY <1>4
<1>6. PICK p \in A : data[l][1] = Sum(p)
  BY <1>3, <1>5
<1>7. p \in ReadSoFar(argv, contents, f, k) /\ Name(p) = names[l]
  BY <1>6 DEF Alike, Name
<1>8. p = <<p[1], p[2]>> /\ p[1] \in 1..2 /\ p[2] \in DOMAIN contents[argv[p[1]]]
  BY <1>7, LineOfPlace
<1>9. Said(argv[p[1]])[p[2]] = [sum |-> Sum(p), name |-> <<Name(p)>>]
  BY <1>8, SaidAt
<1>10. PICK j \in 1..2 : j # p[1]
  BY <1>8
<1>11. Range(Said(argv[p[1]])) = Range(Said(argv[j]))
  <2>1. (p[1] = 1 /\ j = 2) \/ (p[1] = 2 /\ j = 1)
    BY <1>8, <1>10
  <2> QED
    BY <2>1
<1>12. Said(argv[p[1]])[p[2]] \in Range(Said(argv[p[1]]))
  BY <1>8, RangeOfSaid
<1>13. PICK m \in DOMAIN contents[argv[j]] : Said(argv[j])[m] = Said(argv[p[1]])[p[2]]
  BY <1>11, <1>12, RangeOfSaid
<1> DEFINE q == <<j, m>>
<1>14. /\ q \in ReadSoFar(argv, contents, f, k)
       /\ Said(argv[j])[m] = [sum |-> Sum(q), name |-> <<Name(q)>>]
  BY SaidAt
<1>15. q[1] = j
  OBVIOUS
<1> HIDE DEF q
<1>16. Sum(q) = Sum(p) /\ Name(q) = Name(p)
  BY <1>9, <1>13, <1>14, SameSaid
<1>17. q \in A /\ q # p
  BY <1>7, <1>10, <1>14, <1>15, <1>16 DEF Alike, Name
<1>18. ASSUME NEW o \in A
       PROVE  o = p \/ o = q
  <2>1. o \in ReadSoFar(argv, contents, f, k) /\ Name(o) = names[l]
    BY DEF Alike, Name
  <2>2. o[1] \in 1..2
    BY <2>1, LineOfPlace
  <2>3. o[1] = p[1] \/ o[1] = q[1]
    BY <1>8, <1>10, <1>15, <2>2
  <2>4. CASE o[1] = p[1]
    BY <1>7, <2>1, <2>4, OncePerFile
  <2>5. CASE o[1] = q[1]
    BY <1>7, <1>14, <1>16, <2>1, <2>5, OncePerFile
  <2> QED
    BY <2>3, <2>4, <2>5
<1> HIDE DEF A
<1>19. A = {p, q}
  BY <1>6, <1>17, <1>18
<1>20. Len(data[l]) = Len(argv)
  BY <1>1, <1>3, <1>17, <1>19, TwoOnes
<1>21. \A n \in DOMAIN data[l] : data[l][n] = data[l][1]
  BY <1>3, <1>4, <1>6, <1>16, <1>18
<1> QED
  BY <1>20, <1>21 DEF Verdict

(* Of two plain files that say each name once, the status is 0 exactly     *)
(* when they say the same sums of the same names, in whatever order        *)
(* (sump-compare lines 27-78).                                             *)
THEOREM StatusTellsAgreement == Spec => []StatusIsAgreement
<1>1. ASSUME IInv, pc = "done", Len(argv) = 2, Comparable
      PROVE  status = 0 <=> Range(Said(argv[1])) = Range(Said(argv[2]))
  <2>1. Reported
    <3>1. ASSUME NEW i \in 1..2, NEW n \in 1..Len(contents[argv[i]])
          PROVE  ~(Len(Tokens(contents[argv[i]][n])) < 2)
      <4>1. argv[i] \in Files /\ Plain(argv[i])
        BY <1>1 DEF Comparable
      <4>2. n \in DOMAIN contents[argv[i]]
        BY <1>1, <4>1, LineFacts DEF IInv
      <4>3. Len(Tokens(contents[argv[i]][n])) = 2
        BY <1>1, <4>1, <4>2, PlainLine
      <4> QED
        BY <4>3
    <3>2. ~Failed
      <4>1. \A i \in 1..2 : argv[i] \in Files
        BY <1>1 DEF Comparable
      <4>2. ~ \E i \in 1..2 : \E n \in 1..Len(contents[argv[i]]) :
                Len(Tokens(contents[argv[i]][n])) < 2
        BY <3>1
      <4> QED
        BY <1>1, <4>1, <4>2 DEF Failed
    <3> QED
      BY <1>1, <3>2 DEF IInv
  <2>2. status = 0 <=> AllEqual
    BY <2>1 DEF Reported
  <2>3. AllEqual => Range(Said(argv[1])) = Range(Said(argv[2]))
    <3> SUFFICES ASSUME AllEqual
                 PROVE  Range(Said(argv[1])) = Range(Said(argv[2]))
      OBVIOUS
    <3>1. Range(Said(argv[1])) \subseteq Range(Said(argv[2]))
      <4>1. \A n \in DOMAIN contents[argv[1]] :
              \E m \in DOMAIN contents[argv[2]] : Said(argv[2])[m] = Said(argv[1])[n]
        BY <1>1, <2>1, SaidByOther
      <4> QED
        BY <4>1, RangeOfSaid
    <3>2. Range(Said(argv[2])) \subseteq Range(Said(argv[1]))
      <4>1. \A n \in DOMAIN contents[argv[2]] :
              \E m \in DOMAIN contents[argv[1]] : Said(argv[1])[m] = Said(argv[2])[n]
        BY <1>1, <2>1, SaidByOther
      <4> QED
        BY <4>1, RangeOfSaid
    <3> QED
      BY <3>1, <3>2
  <2>4. Range(Said(argv[1])) = Range(Said(argv[2])) => AllEqual
    BY <1>1, <2>1, EqualIfSaid DEF AllEqual
  <2> QED
    BY <2>2, <2>3, <2>4
<1>2. IInv => StatusIsAgreement
  BY <1>1 DEF StatusIsAgreement, Comparable
<1> QED
  BY <1>2, Invariant, PTL
=============================================================================
