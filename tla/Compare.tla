------------------------------ MODULE Compare -------------------------------
(***************************************************************************)
(* sump-compare: the sums of two files of lines "sum  name", gathered by   *)
(* name whichever file they come from, each name's sums being judged by    *)
(* how many they are and whether they are the same.                        *)
(*                                                                         *)
(* A line is the sequence of the texts between its pairs of blanks: a name *)
(* that holds pairs of blanks is several of them, and a line that ends in  *)
(* blanks has "" for the last.                                             *)
(***************************************************************************)
EXTENDS Integers, Sequences, SequencesExt, FiniteSets

CONSTANTS
  Files,      \* the files there are
  Lines,      \* the lines they may hold
  MaxLines,   \* how many, at most
  Argvs       \* the command lines considered, without argv[0]

ASSUME LinesAssumption == Lines \subseteq Seq(STRING)
ASSUME BoundAssumption == MaxLines \in Nat
ASSUME ArgvsAssumption == \A argv \in Argvs : argv \in Seq(STRING)

VARIABLES
  argv,
  contents,   \* what each file holds
  pc,
  f,          \* the argument whose file is being read
  k,          \* its line to be read next
  names,      \* the keys of data, in the order they were found
  data,       \* for each of them, its sums
  short, equal, unequal,
  status      \* the exit status

vars == <<argv, contents, pc, f, k, names, data, short, equal, unequal, status>>

verdicts == <<short, equal, unequal>>

Init ==
  /\ argv \in Argvs
  /\ contents \in [Files -> BoundedSeq(Lines, MaxLines)]
  /\ pc = "args"
  /\ f = 1 /\ k = 1
  /\ names = << >> /\ data = << >>
  /\ short = << >> /\ equal = << >> /\ unequal = << >>
  /\ status = 0

\* sys.exit(1), or an exception nothing catches.
ExitFailing == pc' = "done" /\ status' = 1

(* Not two arguments.                                                      *)
BadUsage ==
  /\ pc = "args"
  /\ Len(argv) # 2
  /\ ExitFailing
  /\ UNCHANGED <<argv, contents, f, k, names, data, verdicts>>

fetch_filenames ==
  /\ pc = "args"
  /\ Len(argv) = 2
  /\ pc' = "read"
  /\ UNCHANGED <<argv, contents, f, k, names, data, verdicts, status>>

(* open fails.                                                             *)
NoFile ==
  /\ pc = "read"
  /\ f <= Len(argv)
  /\ argv[f] \notin Files
  /\ ExitFailing
  /\ UNCHANGED <<argv, contents, f, k, names, data, verdicts>>

(* line.strip().split("  "): the blanks a line begins or ends with count   *)
(* for nothing.                                                            *)
Tokens(line) ==
  LET full == {i \in DOMAIN line : line[i] # ""} IN
  IF full = {} THEN <<"">>
  ELSE SubSeq(line, CHOOSE i \in full : \A j \in full : i <= j,
                    CHOOSE i \in full : \A j \in full : i >= j)

(* tokens[1] of a line without a pair of blanks: IndexError.               *)
BadLine ==
  /\ pc = "read"
  /\ f <= Len(argv)
  /\ argv[f] \in Files
  /\ k <= Len(contents[argv[f]])
  /\ Len(Tokens(contents[argv[f]][k])) < 2
  /\ ExitFailing
  /\ UNCHANGED <<argv, contents, f, k, names, data, verdicts>>

\* Where a name stands among those found so far, 0 if it does not.
Position(name) == SelectInSeq(names, LAMBDA other : other = name)

(* A line is read: of a name with a pair of blanks, what stands before it. *)
ReadLine ==
  /\ pc = "read"
  /\ f <= Len(argv)
  /\ argv[f] \in Files
  /\ k <= Len(contents[argv[f]])
  /\ LET tokens == Tokens(contents[argv[f]][k])
         old    == Position(tokens[2])
     IN
     /\ Len(tokens) >= 2
     /\ \/ /\ old = 0
           /\ names' = Append(names, tokens[2])
           /\ data' = Append(data, <<tokens[1]>>)
        \/ /\ old # 0
           /\ data' = [data EXCEPT ![old] = Append(@, tokens[1])]
           /\ UNCHANGED names
  /\ k' = k + 1
  /\ UNCHANGED <<argv, contents, pc, f, verdicts, status>>

NextFile ==
  /\ pc = "read"
  /\ f <= Len(argv)
  /\ argv[f] \in Files
  /\ k > Len(contents[argv[f]])
  /\ f' = f + 1
  /\ k' = 1
  /\ UNCHANGED <<argv, contents, pc, names, data, verdicts, status>>

(* Slip: how many sums there are is not looked at.                         *)
VerdictUncounted(sums) ==
  IF \A i \in DOMAIN sums : sums[i] = sums[1] THEN "equal" ELSE "unequal"

(* Slip: more sums than files are as good.                                 *)
VerdictAtLeast(sums) ==
  IF Len(sums) < Len(argv) THEN "short"
  ELSE IF \A i \in DOMAIN sums : sums[i] = sums[1] THEN "equal"
  ELSE "unequal"

(* Which list a name with these sums goes to.                              *)
Verdict(sums) ==
  IF Len(sums) # Len(argv) THEN "short"
  ELSE IF \A i \in DOMAIN sums : sums[i] = sums[1] THEN "equal"
  ELSE "unequal"

\* Name i goes to the end of the list that is its.
Listed(list, i, found) ==
  IF Verdict(data[i]) = list THEN Append(found, names[i]) ELSE found

\* The names that go to a list, in the order of data.
Classified(list) ==
  LET found[i \in 0..Len(names)] ==
        IF i = 0 THEN << >> ELSE Listed(list, i, found[i - 1])
  IN  found[Len(names)]

(* The three lists, and the exit status they come to.                      *)
Report ==
  /\ pc = "read"
  /\ f > Len(argv)
  /\ short' = Classified("short")
  /\ equal' = Classified("equal")
  /\ unequal' = Classified("unequal")
  /\ status' = IF Len(equal') # Len(names) THEN 1 ELSE 0
  /\ pc' = "done"
  /\ UNCHANGED <<argv, contents, f, k, names, data>>

Stopped == pc = "done" /\ UNCHANGED vars

Next ==
  \/ BadUsage \/ fetch_filenames \/ NoFile \/ BadLine \/ ReadLine \/ NextFile
  \/ Report \/ Stopped

Spec == Init /\ [][Next]_vars

-----------------------------------------------------------------------------
\* What a file says: its sums and names, as written, line by line.
Said(file) ==
  [i \in DOMAIN contents[file] |->
     [sum |-> Head(contents[file][i]), name |-> Tail(contents[file][i])]]

\* Each line is a sum and a name without pairs of blanks, as the programs of
\* this repository write them when asked for one algorithm.
Plain(file) ==
  \A line \in Range(contents[file]) : Len(line) = 2 /\ "" \notin Range(line)

NamedOnce(file) ==
  \A i, j \in DOMAIN contents[file] :
    Said(file)[i].name = Said(file)[j].name => i = j

(* Of two files with plain names, none of them twice in a file, the exit   *)
(* status is 0 when and only when they say the same of the same names, in  *)
(* whatever order (sump-compare lines 27-78).                              *)
StatusIsAgreement ==
  /\ pc = "done"
  /\ Len(argv) = 2
  /\ \A i \in 1..2 : argv[i] \in Files /\ Plain(argv[i]) /\ NamedOnce(argv[i])
  => (status = 0 <=> Range(Said(argv[1])) = Range(Said(argv[2])))

(* Whatever the files hold, status 0 is given only if all the sums of a    *)
(* name, as far as its first pair of blanks, are the same and are two in   *)
(* number: one from each file, or, a name being in one file twice and in   *)
(* the other not at all, both from one (sump-compare lines 29-34, 45-51).  *)
MatchedByTwos ==
  pc = "done" /\ status = 0 =>
    /\ Len(argv) = 2
    /\ \A line \in Range(contents[argv[1]]) \cup Range(contents[argv[2]]) :
         /\ Len(Tokens(line)) >= 2
         /\ LET alike == {p \in {1, 2} \X (1..MaxLines) :
                            /\ p[2] \in DOMAIN contents[argv[p[1]]]
                            /\ Tokens(contents[argv[p[1]]][p[2]])[2] = Tokens(line)[2]}
            IN  /\ Cardinality(alike) = 2
                /\ \A p \in alike :
                     Tokens(contents[argv[p[1]]][p[2]])[1] = Tokens(line)[1]
=============================================================================
