------------------------------ MODULE SumpProof -----------------------------
(***************************************************************************)
(* Proofs about Sump, for all names and sizes of files and for every       *)
(* command line.                                                           *)
(***************************************************************************)
EXTENDS Sump, FiniteSetTheorems, SequenceTheorems, WellFoundedInduction, TLAPS

Locations == {"parse", "openout", "opensum", "digest", "report", "exit",
              "done", "aborted", "crashed"}

\* Names given by the command line, and those main has of its own.
Words == STRING \cup {"-", "stdin", "stdout", "stderr", "null"}

CmdOK ==
  /\ argv \in Seq(STRING)
  /\ k \in Nat \ {0}
  /\ expects \in Options \cup {"none"}
  /\ names \in [Options -> Words]
  /\ sums_only \in BOOLEAN
  /\ algs \in Seq(STRING)
  /\ present \subseteq Names
  /\ pc \in Locations

\* The algorithms asked for up to an argument.
Before(j) == {i \in Asked : i < j}

(* What the parser has made of the arguments before k is what they mean:   *)
(* it expects a value where one stands, it has an algorithm in its place   *)
(* for each that is asked for, and the last name given for the input.      *)
ParsedOK ==
  /\ k \in 1..(Len(argv) + 1)
  /\ pc # "parse" => k = Len(argv) + 1
  /\ expects # "none" <=> IsValue(k)
  /\ expects # "none" => expects = argv[k - 1]
  /\ Len(algs) = Cardinality(Before(k))
  /\ \A j \in Before(k) : Place(j) \in 1..Len(algs) /\ algs[Place(j)] = argv[j]
  /\ \/ names["-i"] = "-" /\ \A j \in Given : ~(j < k)
     \/ \E j \in Given : /\ j < k /\ names["-i"] = argv[j]
                         /\ \A i \in Given : i < k => i <= j

(* A digest was made for each of the algorithms, in their order.           *)
DigestsOK ==
  pc \in {"parse", "openout", "opensum", "digest"} =>
    digests = [j \in 1..Len(algs) |-> NewDigest(algs[j])]

\* The algorithms multi_digest is run with.
DigestNames == IF algs = << >> THEN <<"">> ELSE algs

\* The handle an option's name leads to, once the option's file was opened.
Named(option) == ~sums_only /\ names[option] \in Names \ denied

(* What each handle refers to, "null" before it is opened.                 *)
HandlesOK ==
  /\ handles \in [Options -> Words]
  /\ pc # "parse" =>
       \/ names["-i"] = "-" /\ handles["-i"] = "stdin"
       \/ names["-i"] # "-" /\ names["-i"] \in present /\ handles["-i"] = names["-i"]
       \/ names["-i"] # "-" /\ names["-i"] \notin present /\ handles["-i"] = "null"
  /\ pc \in {"parse", "openout"} => handles["-o"] = "null"
  /\ pc \in {"parse", "openout", "opensum"} => handles["-s"] = "null"
  /\ pc \notin {"parse", "openout"} =>
       \/ Named("-o") /\ handles["-o"] = names["-o"]
       \/ ~Named("-o") /\ handles["-o"] \in {"null", "stdout"}
  /\ pc \notin {"parse", "openout", "opensum"} =>
       \/ Named("-s") /\ handles["-s"] = names["-s"]
       \/ ~Named("-s") /\ handles["-s"] \in {"null", "stdout", "stderr"}

Outputs == {handles["-o"], handles["-s"]}

(* Until the program exits, the files open for output are empty; all       *)
(* others are as they were, to the end.                                    *)
FilesOK ==
  /\ files = [f \in Names |-> files[f]]
  /\ \A f \in Names \ Outputs : files[f] = OriginalOf(f)
  /\ pc \notin {"done", "crashed"} => \A f \in Names \cap Outputs : files[f] = << >>

SumsOK ==
  pc \in {"report", "exit", "done"} =>
    /\ sums \in [1..Len(DigestNames) ->
                   UNION {finalize(update(NewDigest(DigestNames[j]), data)) :
                            j \in 1..Len(DigestNames)}]
    /\ \A j \in 1..Len(DigestNames) :
         sums[j] \in finalize(update(NewDigest(DigestNames[j]), data))

LinesOK ==
  pc \in {"exit", "done"} =>
    lines = IF Len(sums) > 1
            THEN [j \in 1..Len(algs) |-> <<algs[j], sums[j], names["-i"]>>]
            ELSE << <<"", sums[1], names["-i"]>> >>

IInv == CmdOK /\ ParsedOK /\ DigestsOK /\ HandlesOK /\ FilesOK /\ SumsOfNamedInput
          /\ SumsOK /\ LinesOK /\ FilesHoldResults

-----------------------------------------------------------------------------
LEMMA NoSuchNames ==
  {"-", "stdin", "stdout", "stderr", "null"} \cap Names = {}
  BY NamesAssumption

(* Once both are open, the outputs are the files the command line names.   *)
LEMMA OutputsWritten ==
  ASSUME CmdOK, HandlesOK
  PROVE  /\ Names \cap Outputs \subseteq Written
         /\ pc \notin {"parse", "openout", "opensum"} => Written = Names \cap Outputs
<1>1. sums_only \in BOOLEAN
  BY DEF CmdOK
<1>2. "null" \notin Names /\ "stdout" \notin Names /\ "stderr" \notin Names
  BY NoSuchNames
<1>3. "-o" \in Options /\ "-s" \in Options
  BY DEF Options
<1>4. Names \cap Outputs \subseteq Written
  BY <1>1, <1>2 DEF HandlesOK, Outputs, Written, Named
<1>5. ASSUME pc \notin {"parse", "openout", "opensum"}
      PROVE  Written \subseteq Names \cap Outputs
  BY <1>1, <1>2, <1>5 DEF HandlesOK, Outputs, Written, Named
<1> QED
  BY <1>4, <1>5

(* The program touches only what the command line names for output.        *)
LEMMA FilesUntouched == CmdOK /\ HandlesOK /\ FilesOK => OthersUntouched
  BY OutputsWritten DEF FilesOK, OthersUntouched

-----------------------------------------------------------------------------
\* A set of numbers that is not empty has a least one.
LEMMA LeastOf ==
  ASSUME NEW T, T \subseteq Nat, T # {}
  PROVE  \E x \in T : \A y \in T : ~(y < x)
<1>1. IsWellFoundedOn(OpToRel(<, Nat), Nat)
  BY NatLessThanWellFounded
<1>2. \E x \in T : \A y \in T : ~(<<y, x>> \in OpToRel(<, Nat))
  BY <1>1, WFMin
<1> QED
  BY <1>2 DEF OpToRel

\* A function on 1..n is a sequence of n elements.
LEMMA FunctionIsSeq ==
  ASSUME NEW S, NEW n \in Nat, NEW g \in [1..n -> S]
  PROVE  g \in Seq(S) /\ Len(g) = n
<1>1. g \in Seq(S)
  BY SeqDef
<1>2. DOMAIN g = 1..Len(g) /\ DOMAIN g = 1..n /\ Len(g) \in Nat
  BY <1>1, LenProperties
<1> QED
  BY <1>1, <1>2

(* The n arguments right before argument j are options, and no more are.   *)
Run(j, n) ==
  /\ n \in 1..(j - 1)
  /\ \A i \in (j - n)..(j - 1) : argv[i] \in Options
  /\ j - n = 1 \/ argv[j - n - 1] \notin Options

LEMMA OneRun ==
  ASSUME NEW j \in Nat, NEW n, NEW m, Run(j, n), Run(j, m)
  PROVE  n = m
<1>1. n \in 1..(j - 1) /\ m \in 1..(j - 1)
  BY DEF Run
<1>2. ASSUME NEW a \in 1..(j - 1), NEW b \in 1..(j - 1), Run(j, a), Run(j, b), a < b
      PROVE  FALSE
  <2>1. j - a - 1 \in (j - b)..(j - 1) /\ j - a # 1
    BY <1>2
  <2> QED
    BY <1>2, <2>1 DEF Run
<1> QED
  BY <1>1, <1>2

LEMMA RunGrows ==
  ASSUME NEW j \in Nat \ {0}, NEW n, argv[j] \in Options
  PROVE  /\ Run(j, n) => Run(j + 1, n + 1)
         /\ Run(j + 1, n) /\ n # 1 => Run(j, n - 1)
<1>1. ASSUME Run(j, n) PROVE Run(j + 1, n + 1)
  <2>1. /\ n \in 1..(j - 1)
        /\ \A i \in (j - n)..(j - 1) : argv[i] \in Options
        /\ j - n = 1 \/ argv[j - n - 1] \notin Options
    BY <1>1 DEF Run
  <2>2. (j + 1) - (n + 1) = j - n /\ (j + 1) - 1 = j /\ n + 1 \in 1..j
    BY <2>1
  <2>3. \A i \in (j - n)..j : i = j \/ i \in (j - n)..(j - 1)
    BY <2>1
  <2> QED
    BY <2>1, <2>2, <2>3 DEF Run
<1>2. ASSUME Run(j + 1, n), n # 1 PROVE Run(j, n - 1)
  <2>1. /\ n \in 1..((j + 1) - 1)
        /\ \A i \in ((j + 1) - n)..((j + 1) - 1) : argv[i] \in Options
        /\ (j + 1) - n = 1 \/ argv[(j + 1) - n - 1] \notin Options
    BY <1>2 DEF Run
  <2>2. /\ (j + 1) - n = j - (n - 1) /\ n - 1 \in 1..(j - 1)
        /\ (j + 1) - n - 1 = j - (n - 1) - 1
    BY <1>2, <2>1
  <2>3. \A i \in (j - (n - 1))..(j - 1) : i \in ((j + 1) - n)..((j + 1) - 1)
    BY <2>1
  <2> QED
    BY <2>1, <2>2, <2>3 DEF Run
<1> QED
  BY <1>1, <1>2

(* There is such a run before j + 1 if and only if argument j is an option.*)
LEMMA SomeRun ==
  ASSUME NEW j \in Nat \ {0}
  PROVE  argv[j] \in Options <=> \E n \in Nat : Run(j + 1, n)
<1>1. ASSUME NEW n \in Nat, Run(j + 1, n) PROVE argv[j] \in Options
  <2>1. j \in ((j + 1) - n)..((j + 1) - 1)
    BY <1>1 DEF Run
  <2> QED
    BY <1>1, <2>1 DEF Run
<1>2. ASSUME argv[j] \in Options PROVE \E n \in Nat : Run(j + 1, n)
  <2> DEFINE T == {m \in 1..j : \A i \in m..j : argv[i] \in Options}
  <2>1. PICK m \in T : \A y \in T : ~(y < m)
    <3>1. T \subseteq Nat /\ j \in T
      BY <1>2
    <3> HIDE DEF T
    <3> QED
      BY <3>1, LeastOf
  <2>2. m = 1 \/ argv[m - 1] \notin Options
    <3> SUFFICES ASSUME m # 1, argv[m - 1] \in Options PROVE FALSE
      OBVIOUS
    <3>1. m - 1 \in 1..j /\ \A i \in (m - 1)..j : i = m - 1 \/ i \in m..j
      OBVIOUS
    <3>2. m - 1 \in T
      BY <3>1
    <3> QED
      BY <2>1, <3>2
  <2>3. Run(j + 1, (j + 1) - m)
    <3>1. /\ (j + 1) - m \in 1..((j + 1) - 1) /\ (j + 1) - ((j + 1) - m) = m
          /\ (j + 1) - 1 = j
      OBVIOUS
    <3> QED
      BY <2>2, <3>1 DEF Run
  <2>4. (j + 1) - m \in Nat
    OBVIOUS
  <2> QED
    BY <2>3, <2>4
<1> QED
  BY <1>1, <1>2

(* So an argument is a value if and only if the one before it is an option *)
(* and not a value itself.                                                 *)
LEMMA ValueAfter ==
  ASSUME NEW j \in Nat \ {0}
  PROVE  IsValue(j + 1) <=> argv[j] \in Options /\ ~IsValue(j)
<1>1. \A i \in Nat : IsValue(i) <=> \E n \in Nat : n % 2 = 1 /\ Run(i, n)
  BY DEF IsValue, Run
<1>2. ASSUME IsValue(j + 1) PROVE argv[j] \in Options /\ ~IsValue(j)
  <2>1. PICK n \in Nat : n % 2 = 1 /\ Run(j + 1, n)
    BY <1>1, <1>2
  <2>2. argv[j] \in Options
    BY <2>1, SomeRun
  <2>3. ASSUME NEW m \in Nat, m % 2 = 1, Run(j, m) PROVE FALSE
    <3>1. Run(j + 1, m + 1)
      BY <2>2, <2>3, RunGrows
    <3>2. m + 1 = n
      BY <2>1, <3>1, OneRun
    <3> QED
      BY <2>1, <2>3, <3>2
  <2> QED
    BY <1>1, <2>2, <2>3
<1>3. ASSUME argv[j] \in Options, ~IsValue(j) PROVE IsValue(j + 1)
  <2>1. PICK n \in Nat : Run(j + 1, n)
    BY <1>3, SomeRun
  <2>2. CASE n % 2 = 1
    BY <1>1, <2>1, <2>2
  <2>3. CASE n % 2 # 1
    <3>1. n # 1 /\ n - 1 \in Nat /\ (n - 1) % 2 = 1
      <4>1. n >= 1
        BY <2>1 DEF Run
      <4> QED
        BY <2>3, <4>1
    <3>2. Run(j, n - 1)
      BY <1>3, <2>1, <3>1, RunGrows
    <3> QED
      BY <1>1, <1>3, <3>1, <3>2
  <2> QED
    BY <2>2, <2>3
<1> QED
  BY <1>2, <1>3

LEMMA AskedFinite ==
  ASSUME CmdOK, NEW j
  PROVE  /\ IsFiniteSet(Asked) /\ IsFiniteSet(Before(j))
         /\ Cardinality(Before(j)) \in Nat
<1>1. Len(argv) \in Nat
  BY LenProperties DEF CmdOK
<1>2. IsFiniteSet(1..Len(argv))
  BY <1>1, FS_Interval
<1>3. Asked \subseteq 1..Len(argv) /\ Before(j) \subseteq 1..Len(argv)
  BY DEF Asked, Before
<1>4. IsFiniteSet(Asked) /\ IsFiniteSet(Before(j))
  BY <1>2, <1>3, FS_Subset
<1> QED
  BY <1>4, FS_CardinalityType

(* The place of an algorithm that is asked for next is behind the others.  *)
LEMMA NextAsked ==
  ASSUME CmdOK
  PROVE  /\ k \in Asked => /\ Before(k + 1) = Before(k) \cup {k}
                          /\ Cardinality(Before(k + 1)) = Cardinality(Before(k)) + 1
                          /\ Place(k) = Cardinality(Before(k)) + 1
         /\ k \notin Asked => Before(k + 1) = Before(k)
<1>1. k \in Nat /\ Asked \subseteq Nat
  <2>1. Len(argv) \in Nat
    BY LenProperties DEF CmdOK
  <2> QED
    BY <2>1 DEF CmdOK, Asked
<1>0. \A i \in Nat : i < k + 1 <=> i < k \/ i = k
  BY <1>1
<1>2. k \notin Asked => Before(k + 1) = Before(k)
  BY <1>0, <1>1 DEF Before
<1>3. ASSUME k \in Asked
      PROVE  /\ Before(k + 1) = Before(k) \cup {k} /\ k \notin Before(k)
             /\ {i \in Asked : i <= k} = Before(k + 1)
  <2>1. \A i \in Nat : i <= k <=> i < k + 1
    BY <1>1
  <2>2. {i \in Asked : i <= k} = {i \in Asked : i < k + 1}
    BY <1>1, <2>1
  <2>3. k \notin {i \in Asked : i < k}
    BY <1>1
  <2>4. {i \in Asked : i < k + 1} = {i \in Asked : i < k} \cup {k}
    BY <1>0, <1>1, <1>3
  <2> QED
    BY <2>2, <2>3, <2>4 DEF Before
<1>4. ASSUME k \in Asked
      PROVE  Cardinality(Before(k + 1)) = Cardinality(Before(k)) + 1
  <2>1. IsFiniteSet(Before(k))
    BY AskedFinite
  <2> QED
    BY <1>3, <1>4, <2>1, FS_AddElement
<1>5. ASSUME k \in Asked
      PROVE  Place(k) = Cardinality(Before(k)) + 1
  BY <1>3, <1>4, <1>5 DEF Place
<1> QED
  BY <1>2, <1>3, <1>4, <1>5

LEMMA ArgvUnchanged ==
  ASSUME argv' = argv
  PROVE  /\ Asked' = Asked /\ Given' = Given
         /\ \A j : /\ IsValue(j)' = IsValue(j) /\ Place(j)' = Place(j)
                  /\ Before(j)' = Before(j)
  BY DEF Asked, Given, IsValue, Place, Before

LEMMA InitParsed ==
  ASSUME Init, CmdOK
  PROVE  ParsedOK /\ DigestsOK
<1>1. k = 1 /\ pc = "parse" /\ expects = "none" /\ algs = << >> /\ digests = << >>
      /\ names["-i"] = "-"
  BY DEF Init, Options
<1>2. Len(argv) \in Nat
  BY LenProperties DEF CmdOK
<1>3. ~IsValue(k)
  BY <1>1 DEF IsValue
<1>4. Before(k) = {} /\ \A j \in Given : ~(j < k)
  BY <1>1, <1>2 DEF Before, Asked, Given
<1>5. Len(algs) = 0 /\ Cardinality(Before(k)) = 0
  BY <1>1, <1>4, EmptySeq, FS_EmptySet
<1>6. ParsedOK
  BY <1>1, <1>2, <1>3, <1>4, <1>5 DEF ParsedOK
<1>7. [j \in 1..Len(algs) |-> NewDigest(algs[j])] = << >>
  BY <1>5
<1> QED
  BY <1>1, <1>6, <1>7 DEF DigestsOK

LEMMA ParseArgParsed ==
  ASSUME IInv, ParseArg, CmdOK'
  PROVE  ParsedOK' /\ DigestsOK'
<1> DEFINE arg   == argv[k]
           asked == expects = "none" /\ arg \notin Options \cup {"--sumsonly"}
<1>1. /\ pc = "parse" /\ pc' = "parse" /\ k \in 1..Len(argv) /\ k' = k + 1 /\ argv' = argv
      /\ expects' = IF expects = "none" /\ arg \in Options THEN arg ELSE "none"
      /\ names' = IF expects # "none" THEN [names EXCEPT ![expects] = arg] ELSE names
      /\ algs' = IF asked THEN Append(algs, arg) ELSE algs
      /\ digests' = IF asked THEN Append(digests, NewDigest(arg)) ELSE digests
  BY DEF ParseArg, IInv, ParsedOK, worldVars
<1>2. /\ argv \in Seq(STRING) /\ Len(argv) \in Nat /\ algs \in Seq(STRING)
      /\ names \in [Options -> Words] /\ expects \in Options \cup {"none"}
      /\ arg \in STRING /\ Len(algs) \in Nat
  BY <1>1, LenProperties, ElementOfSeq DEF IInv, CmdOK
<1>3. /\ expects # "none" <=> IsValue(k)
      /\ expects # "none" => expects = argv[k - 1]
      /\ Len(algs) = Cardinality(Before(k))
      /\ \A j \in Before(k) : Place(j) \in 1..Len(algs) /\ algs[Place(j)] = argv[j]
      /\ \/ names["-i"] = "-" /\ \A j \in Given : ~(j < k)
         \/ \E j \in Given : /\ j < k /\ names["-i"] = argv[j]
                             /\ \A i \in Given : i < k => i <= j
  BY DEF IInv, ParsedOK
<1>4. asked <=> k \in Asked
  BY <1>1, <1>3 DEF Asked
<1> HIDE DEF asked
<1>5. "none" \notin Options /\ "-i" \in Options
  BY DEF Options
<1>6. /\ expects' # "none" <=> IsValue(k + 1)
      /\ expects' # "none" => expects' = argv[k' - 1]
  <2>1. expects' # "none" <=> arg \in Options /\ ~IsValue(k)
    BY <1>1, <1>3, <1>5
  <2>2. k' - 1 = k /\ k \in Nat \ {0}
    BY <1>1, <1>2
  <2>3. IsValue(k + 1) <=> arg \in Options /\ ~IsValue(k)
    BY <2>2, ValueAfter
  <2> QED
    BY <1>1, <2>1, <2>2, <2>3
<1>7. /\ Len(algs') = Cardinality(Before(k + 1))
      /\ \A j \in Before(k + 1) : Place(j) \in 1..Len(algs') /\ algs'[Place(j)] = argv[j]
      /\ asked => Len(algs') = Len(algs) + 1
  <2>1. CmdOK
    BY DEF IInv
  <2>2. CASE asked
    <3>1. /\ Before(k + 1) = Before(k) \cup {k}
          /\ Cardinality(Before(k + 1)) = Len(algs) + 1 /\ Place(k) = Len(algs) + 1
      BY <1>3, <1>4, <2>1, <2>2, NextAsked
    <3>2. /\ algs' = Append(algs, arg) /\ Len(algs') = Len(algs) + 1
          /\ algs'[Len(algs) + 1] = arg
          /\ \A i \in 1..Len(algs) : algs'[i] = algs[i]
      BY <1>1, <1>2, <2>2, AppendProperties
    <3>3. \A j \in Before(k) : Place(j) \in 1..Len(algs') /\ algs'[Place(j)] = argv[j]
      BY <1>2, <1>3, <3>2
    <3>4. Place(k) \in 1..Len(algs') /\ algs'[Place(k)] = argv[k]
      BY <1>2, <3>1, <3>2
    <3> QED
      BY <3>1, <3>2, <3>3, <3>4
  <2>3. CASE ~asked
    BY <1>1, <1>3, <1>4, <2>1, <2>3, NextAsked
  <2> QED
    BY <2>2, <2>3
<1>8. \/ names'["-i"] = "-" /\ \A j \in Given : ~(j < k + 1)
      \/ \E j \in Given : /\ j < k + 1 /\ names'["-i"] = argv[j]
                          /\ \A i \in Given : i < k + 1 => i <= j
  <2>1. k \in Given <=> expects = "-i"
    BY <1>1, <1>3, <1>5 DEF Given
  <2>2. \A j \in Given : j \in Nat /\ (j < k + 1 <=> j < k \/ j = k)
    BY <1>1 DEF Given
  <2>3. CASE expects = "-i"
    <3>1. names'["-i"] = argv[k] /\ k \in Given /\ k < k + 1
      BY <1>1, <1>2, <1>5, <2>1, <2>3
    <3>2. \A i \in Given : i < k + 1 => i <= k
      BY <1>1, <2>2
    <3> QED
      BY <3>1, <3>2
  <2>4. CASE expects # "-i"
    <3>1. names'["-i"] = names["-i"] /\ k \notin Given
      BY <1>1, <1>2, <1>5, <2>1, <2>4
    <3> QED
      BY <1>3, <2>2, <3>1
  <2> QED
    BY <2>3, <2>4
<1>9. ParsedOK'
  <2>1. k' \in 1..(Len(argv') + 1)
    BY <1>1, <1>2
  <2> QED
    BY <1>1, <1>6, <1>7, <1>8, <2>1, ArgvUnchanged DEF ParsedOK
<1>10. DigestsOK'
  <2>1. digests = [j \in 1..Len(algs) |-> NewDigest(algs[j])]
    BY <1>1 DEF IInv, DigestsOK
  <2>2. CASE asked
    <3> DEFINE S == {NewDigest(algs[j]) : j \in 1..Len(algs)}
    <3>1. digests \in [1..Len(algs) -> S]
      BY <2>1
    <3> HIDE DEF S
    <3>2. digests \in Seq(S) /\ Len(digests) = Len(algs)
      BY <1>2, <3>1, FunctionIsSeq
    <3>3. /\ algs' = Append(algs, arg) /\ Len(algs') = Len(algs) + 1
          /\ algs'[Len(algs) + 1] = arg
          /\ \A i \in 1..Len(algs) : algs'[i] = algs[i]
      BY <1>1, <1>2, <2>2, AppendProperties
    <3>4. digests' = [j \in 1..(Len(algs) + 1) |->
                        IF j = Len(algs) + 1 THEN NewDigest(arg) ELSE digests[j]]
      BY <1>1, <2>2, <3>2, AppendProperties
    <3>5. digests' = [j \in 1..Len(algs') |-> NewDigest(algs'[j])]
      <4>1. \A j \in 1..(Len(algs) + 1) :
              (IF j = Len(algs) + 1 THEN NewDigest(arg) ELSE digests[j]) = NewDigest(algs'[j])
        BY <1>2, <2>1, <3>3
      <4> QED
        BY <3>3, <3>4, <4>1
    <3> QED
      BY <3>5 DEF DigestsOK
  <2>3. CASE ~asked
    BY <1>1, <2>1, <2>3 DEF DigestsOK
  <2> QED
    BY <2>2, <2>3
<1> QED
  BY <1>9, <1>10

(* The steps after the parser leave its work alone.                        *)
LEMMA ParsedUnchanged ==
  ASSUME IInv, UNCHANGED cmdVars, pc # "parse" \/ k > Len(argv) \/ pc' = "parse"
  PROVE  ParsedOK'
<1>1. /\ argv' = argv /\ k' = k /\ expects' = expects /\ names' = names /\ algs' = algs
  BY DEF cmdVars
<1>2. pc' # "parse" => k = Len(argv) + 1
  <2>1. k \in 1..(Len(argv) + 1) /\ Len(argv) \in Nat
    BY LenProperties DEF IInv, CmdOK, ParsedOK
  <2> QED
    BY <2>1 DEF IInv, ParsedOK
<1> QED
  BY <1>1, <1>2, ArgvUnchanged DEF IInv, ParsedOK

LEMMA InitInv == Init => IInv
<1> SUFFICES ASSUME Init PROVE IInv
  OBVIOUS
<1>1. CmdOK
  <2>1. argv \in Seq(STRING)
    BY ArgvsAssumption DEF Init
  <2>2. names \in [Options -> Words]
    BY DEF Init, Words
  <2>3. algs \in Seq(STRING)
    BY EmptySeq DEF Init
  <2>4. sums_only \in BOOLEAN
    BY DEF Init
  <2>5. k \in Nat \ {0} /\ expects \in Options \cup {"none"} /\ present \subseteq Names
    BY DEF Init
  <2>6. pc \in Locations
    BY DEF Init, Locations
  <2> QED
    BY <2>1, <2>2, <2>3, <2>4, <2>5, <2>6 DEF CmdOK
<1>2. HandlesOK
  <2>1. handles \in [Options -> Words]
    BY DEF Init, Words
  <2>2. handles["-o"] = "null" /\ handles["-s"] = "null" /\ pc = "parse"
    BY DEF Init, Options
  <2> QED
    BY <2>1, <2>2 DEF HandlesOK
<1>3. FilesOK
  <2>1. Names \cap Outputs = {}
    BY NoSuchNames DEF Init, Outputs, Options
  <2> QED
    BY <2>1 DEF Init, FilesOK
<1>4. SumsOfNamedInput /\ SumsOK /\ LinesOK /\ FilesHoldResults
  BY DEF Init, SumsOfNamedInput, SumsOK, LinesOK, FilesHoldResults
<1> QED
  BY <1>1, <1>2, <1>3, <1>4, InitParsed DEF IInv

(* Before anything was read the last four conjuncts say nothing.           *)
LEMMA EarlyInv ==
  ASSUME CmdOK', ParsedOK', DigestsOK', HandlesOK', FilesOK',
         pc' \in {"parse", "openout", "opensum", "digest"}
  PROVE  IInv'
  BY DEF IInv, SumsOfNamedInput, SumsOK, LinesOK, FilesHoldResults

LEMMA ParseArgInv == IInv /\ ParseArg => IInv'
<1> SUFFICES ASSUME IInv, ParseArg PROVE IInv'
  OBVIOUS
<1> DEFINE arg == argv[k]
<1>1. /\ pc = "parse" /\ pc' = "parse" /\ k <= Len(argv) /\ k' = k + 1
      /\ expects' \in {arg, "none"} /\ (expects' # "none" => expects' \in Options)
      /\ names' = IF expects # "none" THEN [names EXCEPT ![expects] = arg] ELSE names
      /\ algs' \in {algs, Append(algs, arg)}
      /\ UNCHANGED <<argv, present, denied, tty, files, handles>>
  BY DEF ParseArg, worldVars
<1>2. sums_only' \in BOOLEAN
  BY DEF ParseArg
<1>3. /\ argv \in Seq(STRING) /\ k \in Nat \ {0} /\ expects \in Options \cup {"none"}
      /\ names \in [Options -> Words] /\ algs \in Seq(STRING) /\ present \subseteq Names
  BY DEF IInv, CmdOK
<1>4. arg \in STRING
  <2>1. Len(argv) \in Nat
    BY <1>3, LenProperties
  <2>2. k \in 1..Len(argv)
    BY <1>1, <1>3, <2>1
  <2> QED
    BY <1>3, <2>2, ElementOfSeq
<1> HIDE DEF arg
<1>5. names' \in [Options -> Words]
  BY <1>1, <1>3, <1>4 DEF Words
<1>6. algs' \in Seq(STRING)
  BY <1>1, <1>3, <1>4, AppendProperties
<1>7. expects' \in Options \cup {"none"}
  BY <1>1
<1>8. k' \in Nat \ {0}
  BY <1>1, <1>3
<1>9. CmdOK'
  BY <1>1, <1>2, <1>3, <1>5, <1>6, <1>7, <1>8 DEF CmdOK, Locations
<1>10. HandlesOK'
  BY <1>1 DEF IInv, HandlesOK
<1>11. FilesOK'
  BY <1>1 DEF IInv, FilesOK, Outputs, OriginalOf, Original
<1>12. ParsedOK' /\ DigestsOK'
  BY <1>9, ParseArgParsed
<1> QED
  BY <1>1, <1>9, <1>10, <1>11, <1>12, EarlyInv

(* The steps after the parser leave what it found alone.                   *)
LEMMA CmdUnchanged ==
  ASSUME IInv, UNCHANGED <<cmdVars, worldVars>>, pc' \in Locations
  PROVE  CmdOK'
  BY DEF IInv, CmdOK, cmdVars, worldVars

LEMMA NamedUnchanged ==
  ASSUME UNCHANGED <<cmdVars, worldVars>>
  PROVE  /\ Named("-o")' = Named("-o") /\ Named("-s")' = Named("-s")
         /\ names' = names /\ sums_only' = sums_only /\ algs' = algs
         /\ present' = present /\ denied' = denied
         /\ Written' = Written /\ DigestNames' = DigestNames
  BY DEF cmdVars, worldVars, Named, Written, DigestNames

LEMMA OpenInInv == IInv /\ OpenIn => IInv'
<1> SUFFICES ASSUME IInv, OpenIn PROVE IInv'
  OBVIOUS
<1> DEFINE h == CASE names["-i"] = "-"       -> "stdin"
                  [] names["-i"] \in present -> names["-i"]
                  [] OTHER                   -> "null"
<1>1. /\ pc = "parse" /\ pc' = "openout" /\ files' = files
      /\ handles' = [handles EXCEPT !["-i"] = h]
      /\ k > Len(argv)
      /\ UNCHANGED <<cmdVars, digests, worldVars>>
  BY DEF OpenIn
<1>2. /\ names \in [Options -> Words] /\ handles \in [Options -> Words]
      /\ handles["-o"] = "null" /\ handles["-s"] = "null"
  BY <1>1 DEF IInv, CmdOK, HandlesOK
<1>3. /\ \/ names["-i"] = "-" /\ h = "stdin"
         \/ names["-i"] # "-" /\ names["-i"] \in present /\ h = names["-i"]
         \/ names["-i"] # "-" /\ names["-i"] \notin present /\ h = "null"
      /\ h \in Words
  <2>1. names["-i"] \in Words
    BY <1>2 DEF Options
  <2>2. CASE names["-i"] = "-"
    <3>1. names["-i"] \notin present
      BY <2>2, NoSuchNames DEF IInv, CmdOK
    <3>2. h = "stdin"
      BY <2>2, <3>1
    <3> QED
      BY <2>2, <3>2 DEF Words
  <2>3. CASE names["-i"] # "-" /\ names["-i"] \in present
    BY <2>1, <2>3
  <2>4. CASE names["-i"] # "-" /\ names["-i"] \notin present
    BY <2>4 DEF Words
  <2> QED
    BY <2>2, <2>3, <2>4
<1> HIDE DEF h
<1>4. /\ handles' \in [Options -> Words]
      /\ handles'["-i"] = h /\ handles'["-o"] = "null" /\ handles'["-s"] = "null"
  BY <1>1, <1>2, <1>3 DEF Options
<1>5. CmdOK'
  BY <1>1, CmdUnchanged DEF Locations
<1>6. HandlesOK'
  BY <1>1, <1>3, <1>4, NamedUnchanged DEF HandlesOK
<1>7. FilesOK'
  BY <1>1, <1>2, <1>4, NamedUnchanged DEF IInv, FilesOK, Outputs, OriginalOf
<1>8. ParsedOK' /\ DigestsOK'
  BY <1>1, ParsedUnchanged DEF IInv, DigestsOK, cmdVars
<1> QED
  BY <1>1, <1>5, <1>6, <1>7, <1>8, EarlyInv

(* What opening f for writing does to the files, where f becomes the one   *)
(* handle that changes.                                                    *)
LEMMA OpenedFiles ==
  ASSUME IInv, UNCHANGED <<cmdVars, worldVars>>, pc \in {"openout", "opensum"},
         NEW f, Opened(f), Names \cap Outputs' = Names \cap ({f} \cup Outputs)
  PROVE  FilesOK'
<1>1. Names \cap Outputs' = Names \cap ({f} \cup Outputs)
  OBVIOUS
<1>2. /\ files = [g \in Names |-> files[g]]
      /\ files' = [files EXCEPT ![f] = << >>]
      /\ \A g \in Names \ Outputs : files[g] = OriginalOf(g)
      /\ \A g \in Names \cap Outputs : files[g] = << >>
  BY DEF IInv, FilesOK, Opened
<1>3. \A g : OriginalOf(g)' = OriginalOf(g)
  BY NamedUnchanged DEF OriginalOf
<1>4. \A g \in Names : files'[g] = IF g = f THEN << >> ELSE files[g]
  BY <1>2
<1>5. files' = [g \in Names |-> files'[g]]
  BY <1>2
<1> QED
  BY <1>1, <1>2, <1>3, <1>4, <1>5 DEF FilesOK

LEMMA OpenOutInv == IInv /\ OpenOut => IInv'
<1> SUFFICES ASSUME IInv, OpenOut PROVE IInv'
  OBVIOUS
<1> DEFINE f == names["-o"]
<1>0. /\ pc = "openout" /\ pc' = "opensum" /\ UNCHANGED <<cmdVars, digests, worldVars>>
      /\ f \in Words /\ sums_only \in BOOLEAN
      /\ handles \in [Options -> Words]
      /\ handles["-o"] = "null" /\ handles["-s"] = "null"
  BY DEF OpenOut, IInv, CmdOK, HandlesOK, Options
<1>1. CmdOK'
  BY <1>0, CmdUnchanged DEF Locations
<1>2. SUFFICES HandlesOK' /\ FilesOK'
  <2>1. ParsedOK' /\ DigestsOK'
    BY <1>0, ParsedUnchanged DEF IInv, DigestsOK, cmdVars
  <2> QED
    BY <1>0, <1>1, <2>1, EarlyInv
(* It is enough to know of the handle of -o. *)
<1>3. ASSUME handles'["-i"] = handles["-i"], handles'["-s"] = handles["-s"],
             handles' \in [Options -> Words],
             \/ Named("-o") /\ handles'["-o"] = f
             \/ ~Named("-o") /\ handles'["-o"] \in {"null", "stdout"}
      PROVE  HandlesOK'
  BY <1>0, <1>3, NamedUnchanged DEF HandlesOK, IInv
<1>4. CASE ~sums_only /\ f = "-"
  <2>1. PICK h \in {"null", "stdout"} :
             handles' = [handles EXCEPT !["-o"] = h] /\ UNCHANGED files
    BY <1>4, NoSuchNames DEF OpenOut
  <2>2. /\ handles'["-i"] = handles["-i"] /\ handles'["-s"] = handles["-s"]
        /\ handles'["-o"] \in {"null", "stdout"} /\ handles' \in [Options -> Words]
    BY <1>0, <2>1 DEF Options, Words
  <2>3. ~Named("-o")
    BY <1>4, NoSuchNames DEF Named
  <2>4. FilesOK'
    BY <1>0, <2>1, <2>2, NoSuchNames, NamedUnchanged
    DEF IInv, FilesOK, Outputs, OriginalOf
  <2> QED
    BY <1>3, <2>2, <2>3, <2>4
<1>5. CASE ~sums_only /\ f \in Names \ denied
  <2>1. handles' = [handles EXCEPT !["-o"] = f] /\ Opened(f)
    BY <1>5, NoSuchNames DEF OpenOut
  <2>2. /\ handles'["-i"] = handles["-i"] /\ handles'["-s"] = handles["-s"]
        /\ handles'["-o"] = f /\ handles' \in [Options -> Words]
    BY <1>0, <2>1 DEF Options, Words
  <2>3. Named("-o")
    BY <1>5 DEF Named
  <2>4. Names \cap Outputs' = Names \cap ({f} \cup Outputs)
    BY <1>0, <2>2, NoSuchNames DEF Outputs
  <2>5. FilesOK'
    BY <1>0, <2>1, <2>4, OpenedFiles
  <2> QED
    BY <1>3, <2>2, <2>3, <2>5
<1>6. CASE sums_only \/ (f # "-" /\ f \notin Names \ denied)
  <2>1. UNCHANGED <<files, handles>>
    BY <1>0, <1>6 DEF OpenOut, Opened
  <2>2. ~Named("-o")
    BY <1>6 DEF Named
  <2>3. FilesOK'
    BY <1>0, <2>1, NamedUnchanged DEF IInv, FilesOK, Outputs, OriginalOf
  <2> QED
    BY <1>0, <1>3, <2>1, <2>2, <2>3
<1> QED
  BY <1>0, <1>4, <1>5, <1>6

LEMMA OpenSumInv == IInv /\ OpenSum => IInv'
<1> SUFFICES ASSUME IInv, OpenSum PROVE IInv'
  OBVIOUS
<1> DEFINE f == names["-s"]
<1>0. /\ pc = "opensum" /\ pc' = "digest" /\ UNCHANGED <<cmdVars, digests, worldVars>>
      /\ f \in Words /\ sums_only \in BOOLEAN
      /\ handles \in [Options -> Words]
      /\ handles["-s"] = "null"
  BY DEF OpenSum, IInv, CmdOK, HandlesOK, Options
<1>1. CmdOK'
  BY <1>0, CmdUnchanged DEF Locations
<1>2. SUFFICES HandlesOK' /\ FilesOK'
  <2>1. ParsedOK' /\ DigestsOK'
    BY <1>0, ParsedUnchanged DEF IInv, DigestsOK, cmdVars
  <2> QED
    BY <1>0, <1>1, <2>1, EarlyInv
(* It is enough to know of the handle of -s. *)
<1>3. ASSUME handles'["-i"] = handles["-i"], handles'["-o"] = handles["-o"],
             handles' \in [Options -> Words],
             \/ Named("-s") /\ handles'["-s"] = f
             \/ ~Named("-s") /\ handles'["-s"] \in {"null", "stdout", "stderr"}
      PROVE  HandlesOK'
  BY <1>0, <1>3, NamedUnchanged DEF HandlesOK, IInv
<1>4. CASE sums_only \/ f = "-"
  <2>1. PICK h \in {"stderr", "stdout"} :
             handles' = [handles EXCEPT !["-s"] = h] /\ UNCHANGED files
    BY <1>0, <1>4, NoSuchNames DEF OpenSum
  <2>2. /\ handles'["-i"] = handles["-i"] /\ handles'["-o"] = handles["-o"]
        /\ handles'["-s"] \in {"stderr", "stdout"} /\ handles' \in [Options -> Words]
    BY <1>0, <2>1 DEF Options, Words
  <2>3. ~Named("-s")
    BY <1>4, NoSuchNames DEF Named
  <2>4. FilesOK'
    BY <1>0, <2>1, <2>2, NoSuchNames, NamedUnchanged
    DEF IInv, FilesOK, Outputs, OriginalOf
  <2> QED
    BY <1>3, <2>2, <2>3, <2>4
<1>5. CASE ~sums_only /\ f \in Names \ denied
  <2>1. handles' = [handles EXCEPT !["-s"] = f] /\ Opened(f)
    BY <1>5, NoSuchNames DEF OpenSum
  <2>2. /\ handles'["-i"] = handles["-i"] /\ handles'["-o"] = handles["-o"]
        /\ handles'["-s"] = f /\ handles' \in [Options -> Words]
    BY <1>0, <2>1 DEF Options, Words
  <2>3. Named("-s")
    BY <1>5 DEF Named
  <2>4. Names \cap Outputs' = Names \cap ({f} \cup Outputs)
    BY <1>0, <2>2, NoSuchNames DEF Outputs
  <2>5. FilesOK'
    BY <1>0, <2>1, <2>4, OpenedFiles
  <2> QED
    BY <1>3, <2>2, <2>3, <2>5
<1>6. CASE ~sums_only /\ f # "-" /\ f \notin Names \ denied
  <2>1. UNCHANGED <<files, handles>>
    BY <1>6 DEF OpenSum, Opened
  <2>2. ~Named("-s")
    BY <1>6 DEF Named
  <2>3. FilesOK'
    BY <1>0, <2>1, NamedUnchanged DEF IInv, FilesOK, Outputs, OriginalOf
  <2> QED
    BY <1>0, <1>3, <2>1, <2>2, <2>3
<1> QED
  BY <1>0, <1>4, <1>5, <1>6

LEMMA NoInputInv == IInv /\ NoInput => IInv'
<1> SUFFICES ASSUME IInv, NoInput PROVE IInv'
  OBVIOUS
<1>1. /\ pc = "digest" /\ pc' = "aborted"
      /\ UNCHANGED <<cmdVars, worldVars, files, handles>>
  BY DEF NoInput
<1>2. CmdOK'
  BY <1>1, CmdUnchanged DEF Locations
<1>3. HandlesOK'
  BY <1>1, NamedUnchanged DEF IInv, HandlesOK
<1>4. FilesOK'
  BY <1>1, NamedUnchanged DEF IInv, FilesOK, Outputs, OriginalOf
<1>5. ParsedOK'
  BY <1>1, ParsedUnchanged
<1>6. FilesHoldResults'
  <2>1. Written' = Written /\ Written = Names \cap Outputs
    BY <1>1, NamedUnchanged, OutputsWritten DEF IInv
  <2>2. \A f \in Written : files'[f] = << >>
    BY <1>1, <2>1 DEF IInv, FilesOK
  <2> QED
    BY <1>1, <2>1, <2>2 DEF FilesHoldResults
<1>7. DigestsOK' /\ SumsOfNamedInput' /\ SumsOK' /\ LinesOK'
  BY <1>1 DEF DigestsOK, SumsOfNamedInput, SumsOK, LinesOK
<1> QED
  BY <1>2, <1>3, <1>4, <1>5, <1>6, <1>7 DEF IInv

LEMMA RunDigestsInv == IInv /\ RunDigests => IInv'
<1> SUFFICES ASSUME IInv, RunDigests PROVE IInv'
  OBVIOUS
<1> DEFINE f == handles["-i"]
<1>1. /\ pc = "digest" /\ pc' = "report" /\ f # "null"
      /\ UNCHANGED <<cmdVars, worldVars, files, handles>>
      /\ data' = IF f = "stdin" THEN Original(f) ELSE files[f]
  BY DEF RunDigests
<1>2. CmdOK'
  BY <1>1, CmdUnchanged DEF Locations
<1>3. HandlesOK'
  BY <1>1, NamedUnchanged DEF IInv, HandlesOK
<1>4. FilesOK'
  BY <1>1, NamedUnchanged DEF IInv, FilesOK, Outputs, OriginalOf
<1>5. SumsOfNamedInput'
  <2>1. Written = Names \cap Outputs
    BY <1>1, OutputsWritten DEF IInv
  <2>2. \/ names["-i"] = "-" /\ f = "stdin"
        \/ names["-i"] # "-" /\ names["-i"] \in present /\ f = names["-i"]
    BY <1>1 DEF IInv, HandlesOK
  <2>3. SUFFICES data' = CASE names["-i"] = "-"       -> Original("stdin")
                           [] names["-i"] \in Written -> << >>
                           [] OTHER                   -> Original(names["-i"])
    BY <1>1, NamedUnchanged DEF SumsOfNamedInput, Original
  <2>4. CASE names["-i"] = "-"
    <3>1. names["-i"] \notin Written
      BY <2>1, <2>4, NoSuchNames
    <3> QED
      BY <1>1, <2>2, <2>4, <3>1
  <2>5. CASE names["-i"] # "-" /\ names["-i"] \in Written
    <3>1. f \in Names \cap Outputs /\ f # "stdin"
      BY <2>1, <2>2, <2>5, NoSuchNames
    <3>2. data' = << >>
      BY <1>1, <3>1 DEF IInv, FilesOK
    <3> QED
      BY <2>5, <3>2
  <2>6. CASE names["-i"] # "-" /\ names["-i"] \notin Written
    <3>1. f \in present /\ f \in Names \ Outputs /\ f # "stdin" /\ f = names["-i"]
      BY <2>1, <2>2, <2>6, NoSuchNames DEF IInv, CmdOK
    <3>2. data' = Original(names["-i"])
      BY <1>1, <3>1 DEF IInv, FilesOK, OriginalOf
    <3> QED
      BY <2>6, <3>2
  <2> QED
    BY <2>4, <2>5, <2>6
<1>6. SumsOK'
  <2> DEFINE made == IF digests = << >> THEN <<NewDigest("")>> ELSE digests
  <2>1. /\ digests' = [j \in 1..Len(made) |-> update(made[j], data')]
        /\ sums' \in [1..Len(made) -> UNION {finalize(digests'[j]) : j \in 1..Len(made)}]
        /\ \A j \in 1..Len(made) : sums'[j] \in finalize(digests'[j])
    BY DEF RunDigests
  <2>2. Len(made) = Len(DigestNames) /\ \A j \in 1..Len(made) : made[j] = NewDigest(DigestNames[j])
    <3> DEFINE S == {NewDigest(algs[j]) : j \in 1..Len(algs)}
    <3>1. digests = [j \in 1..Len(algs) |-> NewDigest(algs[j])]
      BY <1>1 DEF IInv, DigestsOK
    <3>2. digests \in [1..Len(algs) -> S]
      BY <3>1
    <3> HIDE DEF S
    <3>3. algs \in Seq(STRING) /\ Len(algs) \in Nat
      BY LenProperties DEF IInv, CmdOK
    <3>4. digests \in Seq(S) /\ Len(digests) = Len(algs)
      BY <3>2, <3>3, FunctionIsSeq
    <3>5. (digests = << >> <=> Len(algs) = 0) /\ (algs = << >> <=> Len(algs) = 0)
      BY <3>3, <3>4, EmptySeq
    <3>6. CASE Len(algs) = 0
      <4>1. made = <<NewDigest("")>> /\ DigestNames = <<"">>
        BY <3>5, <3>6 DEF DigestNames
      <4> HIDE DEF made
      <4>2. Len(made) = 1 /\ Len(DigestNames) = 1
        BY <4>1
      <4>3. made[1] = NewDigest("") /\ DigestNames[1] = ""
        BY <4>1
      <4>4. made[1] = NewDigest(DigestNames[1])
        BY <4>3
      <4>5. \A j \in 1..Len(made) : j = 1
        BY <4>2
      <4> QED
        BY <4>2, <4>4, <4>5
    <3>7. CASE Len(algs) # 0
      <4>1. made = digests /\ DigestNames = algs
        BY <3>5, <3>7 DEF DigestNames
      <4>2. \A j \in 1..Len(algs) : digests[j] = NewDigest(algs[j])
        BY <3>1
      <4> HIDE DEF made
      <4> QED
        BY <3>4, <4>1, <4>2
    <3> QED
      BY <3>6, <3>7
  <2> HIDE DEF made
  <2>3. \A j \in 1..Len(made) : digests'[j] = update(NewDigest(DigestNames[j]), data')
    BY <2>1, <2>2
  <2>4. UNION {finalize(digests'[j]) : j \in 1..Len(made)} =
          UNION {finalize(update(NewDigest(DigestNames[j]), data')) : j \in 1..Len(made)}
    BY <2>3
  <2> QED
    BY <1>1, <2>1, <2>2, <2>3, <2>4, NamedUnchanged DEF SumsOK
<1>7. LinesOK' /\ FilesHoldResults' /\ DigestsOK'
  BY <1>1 DEF LinesOK, FilesHoldResults, DigestsOK
<1>8. ParsedOK'
  BY <1>1, ParsedUnchanged
<1> QED
  BY <1>2, <1>3, <1>4, <1>5, <1>6, <1>7, <1>8 DEF IInv

LEMMA NoSumfileInv == IInv /\ NoSumfile => IInv'
<1> SUFFICES ASSUME IInv, NoSumfile PROVE IInv'
  OBVIOUS
<1> DEFINE o == handles["-o"]
<1>1. /\ pc = "report" /\ pc' = "crashed"
      /\ handles["-s"] = "null"
      /\ UNCHANGED <<cmdVars, worldVars, handles, data>>
  BY DEF NoSumfile
<1>2. PICK n \in 0..Len(data) :
           files' = IF o \in Names THEN [files EXCEPT ![o] = SubSeq(data, 1, n)] ELSE files
  BY DEF NoSumfile
<1>3. CmdOK'
  BY <1>1, CmdUnchanged DEF Locations
<1>4. HandlesOK'
  BY <1>1, NamedUnchanged DEF IInv, HandlesOK
<1>5. FilesOK'
  <2>1. files = [f \in Names |-> files[f]]
    BY DEF IInv, FilesOK
  <2>2. files' = [f \in Names |-> files'[f]]
    BY <1>2, <2>1
  <2>3. \A f \in Names \ Outputs : files'[f] = files[f]
    BY <1>2, <2>1 DEF Outputs
  <2> QED
    BY <1>1, <2>2, <2>3, NamedUnchanged DEF IInv, FilesOK, Outputs, OriginalOf
<1>6. ParsedOK'
  BY <1>1, ParsedUnchanged
<1>7. FilesHoldResults'
  <2>1. Written' = Written /\ Written = Names \cap Outputs
    BY <1>1, NamedUnchanged, OutputsWritten DEF IInv
  <2>2. \A f \in Written : f = o /\ f \in Names
    BY <1>1, <2>1, NoSuchNames DEF Outputs
  <2>3. files = [f \in Names |-> files[f]]
    BY DEF IInv, FilesOK
  <2>4. \A f \in Written : files'[f] = SubSeq(data, 1, n)
    BY <1>2, <2>2, <2>3
  <2> QED
    BY <1>1, <1>2, <2>1, <2>4 DEF FilesHoldResults
<1>8. DigestsOK' /\ SumsOfNamedInput' /\ SumsOK' /\ LinesOK'
  BY <1>1 DEF DigestsOK, SumsOfNamedInput, SumsOK, LinesOK
<1> QED
  BY <1>3, <1>4, <1>5, <1>6, <1>7, <1>8 DEF IInv

LEMMA ReportInv == IInv /\ Report => IInv'
<1> SUFFICES ASSUME IInv, Report PROVE IInv'
  OBVIOUS
<1>1. /\ pc = "report" /\ pc' = "exit"
      /\ UNCHANGED <<cmdVars, worldVars, files, handles, data, sums>>
      /\ lines' = IF Len(sums) > 1
                  THEN [j \in 1..Len(algs) |-> <<algs[j], sums[j], names["-i"]>>]
                  ELSE << <<"", sums[1], names["-i"]>> >>
  BY DEF Report
<1>2. CmdOK'
  BY <1>1, CmdUnchanged DEF Locations
<1>3. HandlesOK'
  BY <1>1, NamedUnchanged DEF IInv, HandlesOK
<1>4. FilesOK'
  BY <1>1, NamedUnchanged DEF IInv, FilesOK, Outputs, OriginalOf
<1>5. SumsOfNamedInput'
  BY <1>1, NamedUnchanged DEF IInv, SumsOfNamedInput
<1>6. SumsOK'
  BY <1>1, NamedUnchanged DEF IInv, SumsOK
<1>7. LinesOK' /\ FilesHoldResults' /\ DigestsOK'
  BY <1>1, NamedUnchanged DEF LinesOK, FilesHoldResults, DigestsOK
<1>8. ParsedOK'
  BY <1>1, ParsedUnchanged
<1> QED
  BY <1>2, <1>3, <1>4, <1>5, <1>6, <1>7, <1>8 DEF IInv

-----------------------------------------------------------------------------
\* A file, as the cells it has.
LEMMA CellsAreSeq ==
  ASSUME NEW n \in Nat, NEW file, file = [i \in 1..n |-> file[i]]
  PROVE  Len(file) = n
<1> DEFINE S == {file[i] : i \in 1..n}
<1>1. file \in [1..n -> S]
  OBVIOUS
<1> HIDE DEF S
<1> QED
  BY <1>1, FunctionIsSeq

\* A file is as long as the longer of what it held and what is written.
LEMMA OverCells ==
  ASSUME NEW old, NEW text, NEW n, Len(old) \in Nat, Len(text) \in Nat
  PROVE  LET m == IF Len(old) > Len(text) THEN Len(old) ELSE Len(text) IN
         /\ Over(old, text, n) = [i \in 1..m |-> Over(old, text, n)[i]]
         /\ Len(Over(old, text, n)) = m
         /\ \A i \in 1..m : Over(old, text, n)[i] =
                              IF i \in (n + 1)..Len(text) THEN text[i] ELSE old[i]
<1> DEFINE m == IF Len(old) > Len(text) THEN Len(old) ELSE Len(text)
<1>1. Over(old, text, n) = [i \in 1..m |-> IF i \in (n + 1)..Len(text) THEN text[i] ELSE old[i]]
  BY DEF Over
<1>2. m \in Nat
  OBVIOUS
<1> HIDE DEF m
<1>3. Over(old, text, n) = [i \in 1..m |-> Over(old, text, n)[i]]
  BY <1>1
<1>4. Len(Over(old, text, n)) = m
  BY <1>2, <1>3, CellsAreSeq
<1> QED
  BY <1>1, <1>3, <1>4 DEF m

\* A text written to an empty file is what the file holds.
LEMMA OverNothing ==
  ASSUME NEW S, NEW text \in Seq(S)
  PROVE  Over(<< >>, text, 0) = text
<1>1. Len(text) \in Nat /\ Len(<< >>) = 0
  BY LenProperties, EmptySeq
<1>2. text = [i \in 1..Len(text) |-> text[i]]
  BY LenProperties
<1> QED
  BY <1>1, <1>2 DEF Over

\* So it is if the rest of it is written behind its beginning.
LEMMA OverBeginning ==
  ASSUME NEW S, NEW text \in Seq(S), NEW n \in 0..Len(text)
  PROVE  /\ SubSeq(text, 1, n) \in Seq(S) /\ Len(SubSeq(text, 1, n)) = n
         /\ \A i \in 1..n : SubSeq(text, 1, n)[i] = text[i]
         /\ Over(SubSeq(text, 1, n), text, n) = text
<1>1. Len(text) \in Nat
  BY LenProperties
<1>2. text = [i \in 1..Len(text) |-> text[i]]
  BY LenProperties
<1>3. SubSeq(text, 1, n) = [i \in 1..n |-> text[i]]
  BY <1>1, SubSeqProperties
<1>4. \A i \in 1..n : text[i] \in S
  BY <1>1, ElementOfSeq
<1>5. [i \in 1..n |-> text[i]] \in [1..n -> S]
  BY <1>4
<1>6. SubSeq(text, 1, n) \in Seq(S) /\ Len(SubSeq(text, 1, n)) = n
  BY <1>3, <1>5, FunctionIsSeq
<1>7. \A i \in 1..n : SubSeq(text, 1, n)[i] = text[i]
  BY <1>3
<1>8. Over(SubSeq(text, 1, n), text, n) = text
  <2> DEFINE file == Over(SubSeq(text, 1, n), text, n)
  <2>1. /\ file = [i \in 1..Len(text) |-> file[i]]
        /\ \A i \in 1..Len(text) : file[i] =
              IF i \in (n + 1)..Len(text) THEN text[i] ELSE SubSeq(text, 1, n)[i]
    <3>1. /\ Len(SubSeq(text, 1, n)) \in Nat
          /\ (IF Len(SubSeq(text, 1, n)) > Len(text)
               THEN Len(SubSeq(text, 1, n)) ELSE Len(text)) = Len(text)
      BY <1>1, <1>6
    <3> QED
      BY <3>1 DEF Over
  <2> HIDE DEF file
  <2>2. \A i \in 1..Len(text) : file[i] = text[i]
    BY <1>1, <1>7, <2>1
  <2>3. file = text
    BY <1>2, <2>1, <2>2
  <2> QED
    BY <2>3 DEF file
<1> QED
  BY <1>6, <1>7, <1>8

\* Cell i of the data or of the report.
CellOf(cell, i) ==
  \/ i <= Len(data) /\ cell = data[i]
  \/ i <= Len(lines) /\ cell = lines[i]

\* The file has n cells, each from the data or from the report.
MixedTo(file, n) ==
  /\ n \in Nat /\ Len(file) = n
  /\ \A i \in 1..n : CellOf(file[i], i)

(* What is written from within the file or from its end keeps it mixed.    *)
LEMMA OverMixed ==
  ASSUME NEW old, NEW m, MixedTo(old, m), NEW text, Len(text) \in Nat, NEW n \in 0..m,
         \A i \in 1..Len(text) : CellOf(text[i], i)
  PROVE  MixedTo(Over(old, text, n), IF m > Len(text) THEN m ELSE Len(text))
<1> DEFINE l    == IF m > Len(text) THEN m ELSE Len(text)
           file == Over(old, text, n)
<1>1. m \in Nat /\ Len(old) = m /\ \A i \in 1..m : CellOf(old[i], i)
  BY DEF MixedTo
<1>2. /\ Len(file) = l /\ l \in Nat
      /\ \A i \in 1..l : file[i] = IF i \in (n + 1)..Len(text) THEN text[i] ELSE old[i]
  BY <1>1, OverCells
<1>3. \A i \in 1..l : CellOf(file[i], i)
  <2> SUFFICES ASSUME NEW i \in 1..l PROVE CellOf(file[i], i)
    OBVIOUS
  <2> HIDE DEF file
  <2>1. CASE i \in (n + 1)..Len(text)
    BY <1>2, <2>1
  <2>2. CASE i \notin (n + 1)..Len(text)
    <3>1. i \in 1..m
      BY <1>1, <2>2
    <3> QED
      BY <1>1, <1>2, <2>2, <3>1
  <2> QED
    BY <2>1, <2>2
<1> HIDE DEF file, l
<1>4. MixedTo(file, l)
  BY <1>2, <1>3 DEF MixedTo
<1> QED
  BY <1>4 DEF file, l

LEMMA OriginalIsSeq ==
  ASSUME NEW f
  PROVE  Original(f) \in Seq({<<f, i>> : i \in 1..Size})
<1>1. Original(f) \in [1..Size -> {<<f, i>> : i \in 1..Size}]
  BY DEF Original
<1> QED
  BY <1>1, SizeAssumption, FunctionIsSeq

LEMMA DataIsSeq ==
  ASSUME IInv, pc \in {"report", "exit", "done"}
  PROVE  \E S : data \in Seq(S)
<1>1. \/ data = << >>
      \/ data = Original("stdin")
      \/ data = Original(names["-i"])
  <2>1. CASE names["-i"] = "-"
    <3>1. names["-i"] \notin Written
      BY <2>1, NoSuchNames DEF Written
    <3> QED
      BY <2>1, <3>1 DEF IInv, SumsOfNamedInput
  <2>2. CASE names["-i"] # "-" /\ names["-i"] \in Written
    BY <2>2 DEF IInv, SumsOfNamedInput
  <2>3. CASE names["-i"] # "-" /\ names["-i"] \notin Written
    BY <2>3 DEF IInv, SumsOfNamedInput
  <2> QED
    BY <2>1, <2>2, <2>3
<1>2. CASE data = << >>
  BY <1>2, EmptySeq
<1>3. CASE data = Original("stdin")
  BY <1>3, OriginalIsSeq
<1>4. CASE data = Original(names["-i"])
  BY <1>4, OriginalIsSeq
<1> QED
  BY <1>1, <1>2, <1>3, <1>4

\* There is a sum for every digest.
LEMMA SumsLength ==
  ASSUME IInv, pc \in {"report", "exit", "done"}
  PROVE  /\ Len(sums) = Len(DigestNames)
         /\ Len(algs) \in Nat
         /\ algs # << >> => DigestNames = algs /\ Len(algs) > 0
         /\ algs = << >> => Len(DigestNames) = 1 /\ Len(algs) = 0
<1>1. algs \in Seq(STRING)
  BY DEF IInv, CmdOK
<1>2. Len(algs) \in Nat /\ (algs # << >> => Len(algs) > 0)
  BY <1>1, LenProperties, EmptySeq
<1>3. algs = << >> => Len(DigestNames) = 1 /\ Len(algs) = 0
  BY EmptySeq DEF DigestNames
<1>4. algs # << >> => DigestNames = algs
  BY DEF DigestNames
<1>5. Len(DigestNames) \in Nat
  BY <1>2, <1>3, <1>4
<1>6. PICK S : sums \in [1..Len(DigestNames) -> S]
  BY DEF IInv, SumsOK
<1>7. Len(sums) = Len(DigestNames)
  BY <1>5, <1>6, FunctionIsSeq
<1> QED
  BY <1>2, <1>3, <1>4, <1>7

(* The report has a line for each sum, at least one.                       *)
LEMMA LinesLength ==
  ASSUME IInv, pc \in {"exit", "done"}
  PROVE  Len(lines) = Len(DigestNames) /\ \E S : lines \in Seq(S)
<1>1. /\ Len(sums) = Len(DigestNames) /\ Len(algs) \in Nat
      /\ algs # << >> => DigestNames = algs /\ Len(algs) > 0
      /\ algs = << >> => Len(DigestNames) = 1 /\ Len(algs) = 0
  BY SumsLength
<1>2. CASE Len(sums) > 1
  <2> DEFINE Line(j) == <<algs[j], sums[j], names["-i"]>>
             S == {Line(j) : j \in 1..Len(algs)}
  <2>1. lines = [j \in 1..Len(algs) |-> Line(j)]
    BY <1>2 DEF IInv, LinesOK
  <2> HIDE DEF Line
  <2>2. lines \in [1..Len(algs) -> S]
    BY <2>1
  <2> HIDE DEF S
  <2> QED
    BY <1>1, <1>2, <2>2, FunctionIsSeq
<1>3. CASE ~(Len(sums) > 1)
  <2> DEFINE line == <<"", sums[1], names["-i"]>>
  <2>1. lines = << line >>
    BY <1>3 DEF IInv, LinesOK
  <2> HIDE DEF line
  <2>2. lines \in Seq({line}) /\ Len(lines) = 1
    BY <2>1
  <2>3. Len(DigestNames) = 1
    BY <1>1, <1>3
  <2> QED
    BY <2>2, <2>3
<1> QED
  BY <1>2, <1>3

LEMMA PutAt ==
  ASSUME NEW fs, fs = [g \in Names |-> fs[g]], NEW f, NEW text, NEW n
  PROVE  /\ Put(fs, f, text, n) = [g \in Names |-> Put(fs, f, text, n)[g]]
         /\ \A g \in Names :
              Put(fs, f, text, n)[g] = IF g = f THEN Over(fs[g], text, n) ELSE fs[g]
  BY DEF Put

LEMMA ExitInv == IInv /\ Exit => IInv'
<1> SUFFICES ASSUME IInv, Exit PROVE IInv'
  OBVIOUS
<1> DEFINE o == handles["-o"]
           s == handles["-s"]
<1>1. /\ pc = "exit" /\ pc' = "done"
      /\ UNCHANGED <<cmdVars, worldVars, handles, data, sums, lines>>
  BY DEF Exit
<1>2. PICK d \in 0..Len(data), l \in 0..Len(lines) :
        LET before == Put(Put(files, o, SubSeq(data, 1, d), 0), s, SubSeq(lines, 1, l), 0)
        IN  \/ files' = Put(Put(before, o, data, d), s, lines, l)
            \/ files' = Put(Put(before, s, lines, l), o, data, d)
  BY DEF Exit
<1>3. CmdOK'
  BY <1>1, CmdUnchanged DEF Locations
<1>4. HandlesOK'
  BY <1>1, NamedUnchanged DEF IInv, HandlesOK
<1> DEFINE D == SubSeq(data, 1, d)
           L == SubSeq(lines, 1, l)
<1>5. /\ Len(data) \in Nat /\ Len(D) = d /\ \A i \in 1..d : D[i] = data[i]
      /\ Over(D, data, d) = data /\ Over(<< >>, D, 0) = D
  <2>1. PICK S : data \in Seq(S)
    BY <1>1, DataIsSeq
  <2> QED
    BY <2>1, LenProperties, OverBeginning, OverNothing
<1>6. /\ Len(lines) \in Nat /\ Len(L) = l /\ \A i \in 1..l : L[i] = lines[i]
      /\ Over(L, lines, l) = lines /\ Over(<< >>, L, 0) = L
  <2>1. PICK S : lines \in Seq(S)
    BY <1>1, LinesLength
  <2> QED
    BY <2>1, LenProperties, OverBeginning, OverNothing
<1>7. /\ files = [f \in Names |-> files[f]]
      /\ \A f \in Names \ Outputs : files[f] = OriginalOf(f)
      /\ \A f \in Names \cap Outputs : files[f] = << >>
  BY <1>1 DEF IInv, FilesOK
<1> DEFINE fo  == Put(files, o, D, 0)
           fs  == Put(fo, s, L, 0)
           fso == Put(fs, o, data, d)
           fss == Put(fs, s, lines, l)
<1>8. files' = Put(fso, s, lines, l) \/ files' = Put(fss, o, data, d)
  BY <1>2
<1>9. /\ fo = [f \in Names |-> fo[f]] /\ fs = [f \in Names |-> fs[f]]
      /\ fso = [f \in Names |-> fso[f]] /\ fss = [f \in Names |-> fss[f]]
      /\ files' = [f \in Names |-> files'[f]]
      /\ \A f \in Names :
           /\ fo[f] = IF f = o THEN Over(files[f], D, 0) ELSE files[f]
           /\ fs[f] = IF f = s THEN Over(fo[f], L, 0) ELSE fo[f]
           /\ fso[f] = IF f = o THEN Over(fs[f], data, d) ELSE fs[f]
           /\ fss[f] = IF f = s THEN Over(fs[f], lines, l) ELSE fs[f]
           /\ \/ files'[f] = IF f = s THEN Over(fso[f], lines, l) ELSE fso[f]
              \/ files'[f] = IF f = o THEN Over(fss[f], data, d) ELSE fss[f]
  <2>1. fo = [f \in Names |-> fo[f]]
        /\ \A f \in Names : fo[f] = IF f = o THEN Over(files[f], D, 0) ELSE files[f]
    BY <1>7, PutAt
  <2> HIDE DEF fo
  <2>2. fs = [f \in Names |-> fs[f]]
        /\ \A f \in Names : fs[f] = IF f = s THEN Over(fo[f], L, 0) ELSE fo[f]
    BY <2>1, PutAt
  <2> HIDE DEF fs
  <2>3. fso = [f \in Names |-> fso[f]]
        /\ \A f \in Names : fso[f] = IF f = o THEN Over(fs[f], data, d) ELSE fs[f]
    BY <2>2, PutAt
  <2>4. fss = [f \in Names |-> fss[f]]
        /\ \A f \in Names : fss[f] = IF f = s THEN Over(fs[f], lines, l) ELSE fs[f]
    BY <2>2, PutAt
  <2> HIDE DEF fso, fss
  <2>5. CASE files' = Put(fso, s, lines, l)
    BY <2>1, <2>2, <2>3, <2>4, <2>5, PutAt
  <2>6. CASE files' = Put(fss, o, data, d)
    BY <2>1, <2>2, <2>3, <2>4, <2>6, PutAt
  <2> QED
    BY <1>8, <2>5, <2>6
<1> HIDE DEF fo, fs, fso, fss, D, L
<1>10. \A f \in Names \ Outputs : files'[f] = files[f]
  BY <1>9 DEF Outputs
<1>11. ASSUME NEW f \in Names \cap Outputs
       PROVE  /\ f = o /\ f # s => files'[f] = data
              /\ f # o /\ f = s => files'[f] = lines
              /\ f = o /\ f = s => Mixed(files'[f])
  <2>1. files[f] = << >>
    BY <1>7
  <2>2. CASE f = o /\ f # s
    <3>1. fo[f] = D /\ fs[f] = D /\ fso[f] = data /\ fss[f] = D
      BY <1>5, <1>9, <2>1, <2>2
    <3> QED
      BY <1>5, <1>9, <2>2, <3>1
  <2>3. CASE f # o /\ f = s
    <3>1. fo[f] = << >> /\ fs[f] = L /\ fso[f] = L /\ fss[f] = lines
      BY <1>6, <1>9, <2>1, <2>3
    <3> QED
      BY <1>6, <1>9, <2>3, <3>1
  <2>4. CASE f = o /\ f = s
    <3> DEFINE m == IF d > l THEN d ELSE l
               n == IF Len(data) > Len(lines) THEN Len(data) ELSE Len(lines)
    <3>1. fo[f] = D /\ fs[f] = Over(D, L, 0)
      BY <1>5, <1>9, <2>1, <2>4
    <3>2. MixedTo(D, d) /\ \A i \in 1..Len(L) : CellOf(L[i], i)
      BY <1>5, <1>6 DEF MixedTo, CellOf
    <3>3. MixedTo(fs[f], m)
      BY <1>6, <3>1, <3>2, OverMixed
    <3>4. /\ \A i \in 1..Len(data) : CellOf(data[i], i)
          /\ \A i \in 1..Len(lines) : CellOf(lines[i], i)
      BY <1>5, <1>6 DEF CellOf
    <3>5. ASSUME files'[f] = Over(fso[f], lines, l)
          PROVE  MixedTo(files'[f], n)
      <4>1. fso[f] = Over(fs[f], data, d) /\ d \in 0..m
        BY <1>9, <2>4
      <4>2. MixedTo(fso[f], IF m > Len(data) THEN m ELSE Len(data))
        BY <1>5, <3>3, <3>4, <4>1, OverMixed
      <4> DEFINE x == IF m > Len(data) THEN m ELSE Len(data)
      <4>3. l \in 0..x /\ (IF x > Len(lines) THEN x ELSE Len(lines)) = n
        BY <1>5, <1>6
      <4> HIDE DEF x, n, m
      <4>4. MixedTo(fso[f], x)
        BY <4>2 DEF x
      <4> QED
        BY <1>6, <3>4, <3>5, <4>3, <4>4, OverMixed
    <3>6. ASSUME files'[f] = Over(fss[f], data, d)
          PROVE  MixedTo(files'[f], n)
      <4>1. fss[f] = Over(fs[f], lines, l) /\ l \in 0..m
        BY <1>9, <2>4
      <4>2. MixedTo(fss[f], IF m > Len(lines) THEN m ELSE Len(lines))
        BY <1>6, <3>3, <3>4, <4>1, OverMixed
      <4> DEFINE x == IF m > Len(lines) THEN m ELSE Len(lines)
      <4>3. d \in 0..x /\ (IF x > Len(data) THEN x ELSE Len(data)) = n
        BY <1>5, <1>6
      <4> HIDE DEF x, n, m
      <4>4. MixedTo(fss[f], x)
        BY <4>2 DEF x
      <4> QED
        BY <1>5, <3>4, <3>6, <4>3, <4>4, OverMixed
    <3>7. MixedTo(files'[f], n)
      BY <1>9, <2>4, <3>5, <3>6
    <3>8. Mixed(files'[f])
      BY <3>7 DEF MixedTo, Mixed, CellOf
    <3> QED
      BY <2>4, <3>8
  <2> QED
    BY <2>2, <2>3, <2>4 DEF Outputs
<1>12. FilesOK'
  BY <1>1, <1>7, <1>9, <1>10, NamedUnchanged DEF FilesOK, Outputs, OriginalOf
<1>13. FilesHoldResults'
  <2>1. Written' = Written /\ Written = Names \cap Outputs
    BY <1>1, OutputsWritten, NamedUnchanged DEF IInv
  <2>2. \A f \in Names : (f = o => f = names["-o"]) /\ (f = s => f = names["-s"])
    BY <1>1, NoSuchNames DEF IInv, HandlesOK
  <2>3. \A f \in Written : f # names["-s"] => files'[f] = data
    BY <1>11, <2>1, <2>2 DEF Outputs
  <2>4. \A f \in Written : f # names["-o"] => files'[f] = lines
    BY <1>11, <2>1, <2>2 DEF Outputs
  <2>5. ASSUME names["-o"] = names["-s"], NEW f \in Written
        PROVE  Mixed(files'[f])
    <3>1. f = names["-o"] /\ ~sums_only /\ names["-o"] \in Names \ denied
      BY <2>5 DEF Written
    <3>2. f = o /\ f = s
      BY <1>1, <2>5, <3>1 DEF IInv, HandlesOK, Named
    <3> QED
      BY <1>11, <2>1, <3>2
  <2>6. \A file : Mixed(file)' = Mixed(file')
    BY <1>1 DEF Mixed
  <2> QED
    BY <1>1, <2>1, <2>3, <2>4, <2>5, <2>6, NamedUnchanged DEF FilesHoldResults, Mixed
<1>14. ParsedOK'
  BY <1>1, ParsedUnchanged
<1>15. SumsOfNamedInput' /\ SumsOK' /\ LinesOK' /\ DigestsOK'
  BY <1>1, NamedUnchanged DEF IInv, SumsOfNamedInput, SumsOK, LinesOK, Original, DigestsOK
<1> QED
  BY <1>3, <1>4, <1>12, <1>13, <1>14, <1>15 DEF IInv

LEMMA StutterInv == IInv /\ UNCHANGED vars => IInv'
<1> SUFFICES ASSUME IInv, UNCHANGED vars PROVE IInv'
  OBVIOUS
<1>1. UNCHANGED <<cmdVars, digests, worldVars, files, pc, handles, data, sums, lines>>
  BY DEF vars
<1>2. CmdOK' /\ HandlesOK' /\ FilesOK' /\ DigestsOK'
  BY <1>1, NamedUnchanged
  DEF IInv, CmdOK, HandlesOK, FilesOK, DigestsOK, cmdVars, Outputs, OriginalOf
<1>3. SumsOfNamedInput' /\ SumsOK' /\ LinesOK' /\ FilesHoldResults'
  BY <1>1, NamedUnchanged
  DEF IInv, SumsOfNamedInput, SumsOK, LinesOK, FilesHoldResults, Original, Mixed
<1>4. ParsedOK'
  BY <1>1, ArgvUnchanged DEF IInv, ParsedOK, cmdVars
<1> QED
  BY <1>2, <1>3, <1>4 DEF IInv

LEMMA NextInv == IInv /\ [Next]_vars => IInv'
<1>1. IInv /\ Stopped => IInv'
  BY StutterInv DEF Stopped
<1> QED
  BY <1>1, StutterInv, ParseArgInv, OpenInInv, OpenOutInv, OpenSumInv, NoInputInv,
     RunDigestsInv, NoSumfileInv, ReportInv, ExitInv
  DEF Next

LEMMA Inductive == Spec => []IInv
  BY InitInv, NextInv, PTL DEF Spec

-----------------------------------------------------------------------------
(* The algorithms of OpenSSL, and the count of bytes, have one sum: what   *)
(* the algorithm asked for makes of the bytes it was given.                *)
LEMMA OneSum ==
  ASSUME NEW name \in OpenSSLNames \cup {"count"}, NEW S, NEW bytes \in Seq(S),
         NEW sum \in finalize(update(NewDigest(name), bytes))
  PROVE  sum = Checksum(name, bytes)
<1> DEFINE d == update(NewDigest(name), bytes)
<1>1. build_digest(name) = name /\ name # "xxh" /\ name # "none"
  BY DEF build_digest, OpenSSLNames
<1>2. d.alg = name /\ d.ready /\ d.seen = << >> \o bytes
  BY <1>1 DEF update, NewDigest
<1>3. << >> \o bytes = bytes
  BY ConcatEmptySeq
<1> HIDE DEF d
<1>4. finalize(d) = {Checksum(d.alg, d.seen)}
  BY <1>1, <1>2 DEF finalize
<1> QED
  BY <1>2, <1>3, <1>4 DEF d

LEMMA LinesNamed == IInv => LinesNameTheirSums
<1> SUFFICES ASSUME IInv, pc = "done" PROVE LinesNameTheirSums
  BY DEF LinesNameTheirSums
<1>1. Len(lines) = Len(DigestNames)
  BY LinesLength
<1>2. /\ Len(sums) = Len(DigestNames) /\ Len(algs) \in Nat
      /\ algs # << >> => DigestNames = algs /\ Len(algs) > 0
      /\ algs = << >> => Len(DigestNames) = 1 /\ Len(algs) = 0
  BY SumsLength
<1>3. /\ k = Len(argv) + 1 /\ Len(argv) \in Nat
      /\ \A j \in Asked \cup Given : j < k
  <2>1. Len(argv) \in Nat /\ k = Len(argv) + 1
    BY LenProperties DEF IInv, CmdOK, ParsedOK
  <2> QED
    BY <2>1 DEF Asked, Given
<1>4. /\ Before(k) = Asked /\ Len(algs) = Cardinality(Asked)
      /\ \A j \in Asked : Place(j) \in 1..Len(algs) /\ algs[Place(j)] = argv[j]
  <2>1. Before(k) = Asked
    BY <1>3 DEF Before
  <2> QED
    BY <2>1 DEF IInv, ParsedOK
<1>5. Asked = {} <=> algs = << >>
  <2>1. Asked = {} => Len(algs) = 0
    BY <1>4, FS_EmptySet
  <2>2. Asked # {} => Len(algs) # 0
    BY <1>2, <1>4
  <2> QED
    BY <1>2, <2>1, <2>2
<1>6. Len(lines) = IF Asked = {} THEN 1 ELSE Cardinality(Asked)
  BY <1>1, <1>2, <1>4, <1>5
<1>7. IsInputName(names["-i"])
  <2>1. \/ names["-i"] = "-" /\ \A j \in Given : ~(j < k)
        \/ \E j \in Given : /\ j < k /\ names["-i"] = argv[j]
                            /\ \A i \in Given : i < k => i <= j
    BY DEF IInv, ParsedOK
  <2> QED
    BY <1>3, <2>1 DEF IsInputName
<1>8. \A l \in 1..Len(lines) : lines[l][3] = names["-i"]
  <2>1. CASE Len(sums) > 1
    <3>1. lines = [j \in 1..Len(algs) |-> <<algs[j], sums[j], names["-i"]>>]
      BY <2>1 DEF IInv, LinesOK
    <3>2. Len(lines) = Len(algs)
      BY <1>1, <1>2, <2>1
    <3> QED
      BY <3>1, <3>2
  <2>2. CASE ~(Len(sums) > 1)
    <3> DEFINE line == <<"", sums[1], names["-i"]>>
    <3>1. lines = << line >>
      BY <2>2 DEF IInv, LinesOK
    <3>2. line[3] = names["-i"]
      OBVIOUS
    <3> HIDE DEF line
    <3>3. Len(lines) = 1 /\ lines[1] = line
      BY <3>1
    <3> QED
      BY <3>2, <3>3
  <2> QED
    BY <2>1, <2>2
<1>9. ASSUME NEW l \in 1..Len(algs)
      PROVE  /\ Len(algs) > 1 => lines[l][1] = algs[l]
             /\ lines[l][2] = sums[l]
  <2>1. DigestNames = algs /\ Len(sums) = Len(algs)
    BY <1>2, <1>9
  <2>2. CASE Len(sums) > 1
    <3>1. lines[l] = <<algs[l], sums[l], names["-i"]>>
      BY <1>9, <2>2 DEF IInv, LinesOK
    <3> QED
      BY <3>1
  <2>3. CASE ~(Len(sums) > 1)
    <3>1. l = 1 /\ ~(Len(algs) > 1)
      BY <1>2, <1>9, <2>1, <2>3
    <3>2. lines = << <<"", sums[1], names["-i"]>> >>
      BY <2>3 DEF IInv, LinesOK
    <3> QED
      BY <3>1, <3>2
  <2> QED
    BY <2>2, <2>3
<1>10. ASSUME NEW l \in 1..Len(algs), algs[l] \in OpenSSLNames \cup {"count"}
       PROVE  sums[l] = Checksum(algs[l], data)
  <2>1. DigestNames = algs
    BY <1>2, <1>10
  <2>2. sums[l] \in finalize(update(NewDigest(algs[l]), data))
    BY <1>10, <2>1 DEF IInv, SumsOK
  <2> QED
    BY <1>10, <2>2, DataIsSeq, OneSum
<1>11. ASSUME NEW j \in Asked
       PROVE  /\ Len(lines) > 1 => lines[Place(j)][1] = argv[j]
              /\ argv[j] \in OpenSSLNames \cup {"count"} =>
                   lines[Place(j)][2] = Checksum(argv[j], data)
  <2>1. Place(j) \in 1..Len(algs) /\ algs[Place(j)] = argv[j]
    BY <1>4
  <2>2. Len(lines) = Len(algs)
    BY <1>4, <1>6
  <2> QED
    BY <1>9, <1>10, <2>1, <2>2
<1> QED
  BY <1>6, <1>7, <1>8, <1>11 DEF LinesNameTheirSums

(* Whatever the command line, sump touches only the files it names for     *)
(* output, and none under --sumsonly (sump.cc lines 89-113).               *)
THEOREM SumpOthersUntouched == Spec => []OthersUntouched
<1>1. IInv => OthersUntouched
  BY FilesUntouched DEF IInv
<1> QED
  BY Inductive, <1>1, PTL

(* The sums are of what the input held at the start, or of nothing where   *)
(* the input is named for output too (sump.cc lines 89-120).               *)
THEOREM SumpSumsOfNamedInput == Spec => []SumsOfNamedInput
<1>1. IInv => SumsOfNamedInput
  BY DEF IInv
<1> QED
  BY Inductive, <1>1, PTL

(* For every command line there is a line of the report for each algorithm *)
(* it asks for, in their order, with the sum that this algorithm makes of  *)
(* what was read, its name, and the name given last for the input (sump.cc *)
(* lines 63-87, 116-130).                                                  *)
THEOREM SumpLinesNameTheirSums == Spec => []LinesNameTheirSums
  BY Inductive, LinesNamed, PTL

(* At exit the files named for output hold the data and the report, or a   *)
(* mixture of them where they share a name; after a missing input they are *)
(* empty, and without a sum file they hold a beginning of the data         *)
(* (sump.cc lines 25, 89-131).                                             *)
THEOREM SumpFilesHoldResults == Spec => []FilesHoldResults
<1>1. IInv => FilesHoldResults
  BY DEF IInv
<1> QED
  BY Inductive, <1>1, PTL
=============================================================================
