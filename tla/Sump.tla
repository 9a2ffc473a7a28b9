-------------------------------- MODULE Sump --------------------------------
(***************************************************************************)
(* main of sump.cc: the command line, the three files and the report,      *)
(* around multi_digest, which is taken as the one step PassThru has it     *)
(* amount to when neither input nor output fails.                          *)
(*                                                                         *)
(* One name may be given for several of the three files.  They are opened  *)
(* in turn, an output file being emptied when it is opened, and what is    *)
(* written reaches a file at the latest when the program exits.            *)
(***************************************************************************)
EXTENDS Integers, Sequences, FiniteSets, Digests

CONSTANTS
  Names,   \* names of files
  Size,    \* what a file holds, in cells
  Argvs    \* the command lines considered, without argv[0]

ASSUME NamesAssumption == {"-", "stdin", "stdout", "stderr", "null"} \cap Names = {}
ASSUME SizeAssumption  == Size \in Nat
ASSUME ArgvsAssumption == \A argv \in Argvs : argv \in Seq(STRING)

VARIABLES
  argv,
  k,            \* the argument to be parsed next
  expects,      \* the option whose value it is: is_infile, is_outfile, ...
  names,        \* infile_name, outfile_name and sumfile_name
  sums_only,
  algs,
  digests,      \* the digest objects
  present,      \* the names of which there was a file at the start
  denied,       \* the names that cannot be opened for writing
  tty,          \* isatty(fileno(stdout))
  files,        \* what the files hold, << >> also for none
  pc,
  handles,      \* infile, outfile and sumfile: a stream, a name or "null"
  data,         \* what was read, and passed on unless outfile is null
  sums,
  lines         \* the report

cmdVars   == <<argv, k, expects, names, sums_only, algs>>
worldVars == <<present, denied, tty>>
vars      == <<cmdVars, digests, worldVars, files, pc, handles, data, sums, lines>>

Options == {"-i", "-o", "-s"}

\* The cells of a file or of standard input, as they were at the start.
Original(f) == [i \in 1..Size |-> <<f, i>>]

OriginalOf(f) == IF f \in present THEN Original(f) ELSE << >>

Init ==
  /\ argv \in Argvs
  /\ k = 1
  /\ expects = "none"
  /\ names = [option \in Options |-> "-"]
  /\ sums_only = FALSE
  /\ algs = << >>
  /\ digests = << >>
  /\ present \in SUBSET Names
  /\ denied \in SUBSET Names
  /\ tty \in BOOLEAN
  /\ files = [f \in Names |-> OriginalOf(f)]
  /\ pc = "parse"
  /\ handles = [option \in Options |-> "null"]
  /\ data = << >>
  /\ sums = << >>
  /\ lines = << >>

(* Slip: what looks like an option is one, where a value is expected too.  *)
ParseArgOptionsFirst ==
  LET arg == argv[k]
      taken == expects # "none" /\ arg \notin Options
      asked == ~taken /\ arg \notin Options \cup {"--sumsonly"}
  IN
  /\ pc = "parse"
  /\ k <= Len(argv)
  /\ k' = k + 1
  /\ expects' = IF arg \in Options THEN arg ELSE "none"
  /\ names' = IF taken THEN [names EXCEPT ![expects] = arg] ELSE names
  /\ sums_only' = (sums_only \/ (~taken /\ arg = "--sumsonly"))
  /\ algs' = IF asked THEN Append(algs, arg) ELSE algs
  /\ digests' = IF asked THEN Append(digests, NewDigest(arg)) ELSE digests
  /\ UNCHANGED <<argv, worldVars, files, pc, handles, data, sums, lines>>

(* One turn of the loop over argv: an option's value whatever it looks     *)
(* like, else an option, else the name of an algorithm, for which a digest *)
(* object is made.                                                         *)
ParseArg ==
  LET arg   == argv[k]
      asked == expects = "none" /\ arg \notin Options \cup {"--sumsonly"}
  IN
  /\ pc = "parse"
  /\ k <= Len(argv)
  /\ k' = k + 1
  /\ expects' = IF expects = "none" /\ arg \in Options THEN arg ELSE "none"
  /\ names' = IF expects # "none" THEN [names EXCEPT ![expects] = arg] ELSE names
  /\ sums_only' = (sums_only \/ (expects = "none" /\ arg = "--sumsonly"))
  /\ algs' = IF asked THEN Append(algs, arg) ELSE algs
  /\ digests' = IF asked THEN Append(digests, NewDigest(arg)) ELSE digests
  /\ UNCHANGED <<argv, worldVars, files, pc, handles, data, sums, lines>>

OpenIn ==
  /\ pc = "parse"
  /\ k > Len(argv)
  /\ handles' = [handles EXCEPT !["-i"] =
                   CASE names["-i"] = "-"       -> "stdin"
                     [] names["-i"] \in present -> names["-i"]
                     [] OTHER                   -> "null"]
  /\ pc' = "openout"
  /\ UNCHANGED <<cmdVars, digests, worldVars, files, data, sums, lines>>

(* Slip: "r+", which empties nothing.                                      *)
OpenedKeeping(f) ==
  /\ f \notin denied
  /\ UNCHANGED files

(* fopen of f for writing: it empties the file.                            *)
Opened(f) ==
  /\ f \notin denied
  /\ files' = [files EXCEPT ![f] = << >>]

(* Slip: the file of -o is opened, and emptied, under --sumsonly too.      *)
OpenOutAlways ==
  LET f == names["-o"] IN
  /\ pc = "openout"
  /\ \/ /\ f = "-"
        /\ handles' = [handles EXCEPT !["-o"] = IF tty THEN "null" ELSE "stdout"]
        /\ UNCHANGED files
     \/ /\ f \in Names
        /\ Opened(f)
        /\ handles' = [handles EXCEPT !["-o"] = f]
     \/ /\ f # "-" /\ f \notin Names \ denied
        /\ UNCHANGED <<files, handles>>
  /\ pc' = "opensum"
  /\ UNCHANGED <<cmdVars, digests, worldVars, data, sums, lines>>

(* A null outfile is no output, wanted or not.                             *)
OpenOut ==
  LET f == names["-o"] IN
  /\ pc = "openout"
  /\ \/ /\ ~sums_only /\ f = "-"
        /\ handles' = [handles EXCEPT !["-o"] = IF tty THEN "null" ELSE "stdout"]
        /\ UNCHANGED files
     \/ /\ ~sums_only /\ f \in Names
        /\ Opened(f)
        /\ handles' = [handles EXCEPT !["-o"] = f]
     \/ /\ sums_only \/ (f # "-" /\ f \notin Names \ denied)
        /\ UNCHANGED <<files, handles>>
  /\ pc' = "opensum"
  /\ UNCHANGED <<cmdVars, digests, worldVars, data, sums, lines>>

OpenSum ==
  LET f == names["-s"] IN
  /\ pc = "opensum"
  /\ \/ /\ sums_only \/ f = "-"
        /\ handles' = [handles EXCEPT !["-s"] = IF sums_only THEN "stdout" ELSE "stderr"]
        /\ UNCHANGED files
     \/ /\ ~sums_only /\ f \in Names
        /\ Opened(f)
        /\ handles' = [handles EXCEPT !["-s"] = f]
     \/ /\ ~sums_only /\ f # "-" /\ f \notin Names \ denied
        /\ UNCHANGED <<files, handles>>
  /\ pc' = "digest"
  /\ UNCHANGED <<cmdVars, digests, worldVars, data, sums, lines>>

(* assert(infile != nullptr).                                              *)
NoInput ==
  /\ pc = "digest"
  /\ handles["-i"] = "null"
  /\ pc' = "aborted"
  /\ UNCHANGED <<cmdVars, digests, worldVars, files, handles, data, sums, lines>>

(* The default digest is made if no other was, and multi_digest has each   *)
(* absorb the input.                                                       *)
RunDigests ==
  LET f    == handles["-i"]
      made == IF digests = << >> THEN <<NewDigest("")>> ELSE digests
  IN
  /\ pc = "digest"
  /\ f # "null"
  /\ data' = IF f = "stdin" THEN Original(f) ELSE files[f]
  /\ digests' = [j \in 1..Len(made) |-> update(made[j], data')]
  /\ sums' \in [1..Len(made) -> UNION {finalize(digests'[j]) : j \in 1..Len(made)}]
  /\ \A j \in 1..Len(made) : sums'[j] \in finalize(digests'[j])
  /\ pc' = "report"
  /\ UNCHANGED <<cmdVars, worldVars, files, handles, lines>>

(* fprintf to a null sumfile.  What stdio still holds of the output is     *)
(* lost with the process.                                                  *)
NoSumfile ==
  LET o == handles["-o"] IN
  /\ pc = "report"
  /\ handles["-s"] = "null"
  /\ \E n \in 0..Len(data) :
       files' = IF o \in Names THEN [files EXCEPT ![o] = SubSeq(data, 1, n)] ELSE files
  /\ pc' = "crashed"
  /\ UNCHANGED <<cmdVars, digests, worldVars, handles, data, sums, lines>>

(* A line for each algorithm, that names it if there are several.          *)
Report ==
  /\ pc = "report"
  /\ handles["-s"] # "null"
  /\ lines' = IF Len(sums) > 1
              THEN [j \in 1..Len(algs) |-> <<algs[j], sums[j], names["-i"]>>]
              ELSE << <<"", sums[1], names["-i"]>> >>
  /\ pc' = "exit"
  /\ UNCHANGED <<cmdVars, digests, worldVars, files, handles, data, sums>>

(* A file that held old, after the cells of text behind the first n were   *)
(* written to it, in their places.                                         *)
Over(old, text, n) ==
  [i \in 1..(IF Len(old) > Len(text) THEN Len(old) ELSE Len(text)) |->
     IF i \in (n + 1)..Len(text) THEN text[i] ELSE old[i]]

Put(fs, f, text, n) ==
  IF f \in Names THEN [fs EXCEPT ![f] = Over(@, text, n)] ELSE fs

(* Slip: the sums go where the data goes.                                  *)
ExitOneFile ==
  LET o == handles["-o"] IN
  /\ pc = "exit"
  /\ files' = IF o \in Names THEN [files EXCEPT ![o] = data \o lines] ELSE files
  /\ pc' = "done"
  /\ UNCHANGED <<cmdVars, digests, worldVars, handles, data, sums, lines>>

(* The streams are flushed.  d cells of the data and l of the report were  *)
(* written before, stdio's buffers being full; the rest is now, in an      *)
(* order that is stdio's affair.  Two streams of one file write over each  *)
(* other.                                                                  *)
Exit ==
  LET o == handles["-o"]
      s == handles["-s"]
  IN
  /\ pc = "exit"
  /\ \E d \in 0..Len(data), l \in 0..Len(lines) :
       LET before == Put(Put(files, o, SubSeq(data, 1, d), 0), s, SubSeq(lines, 1, l), 0)
       IN  \/ files' = Put(Put(before, o, data, d), s, lines, l)
           \/ files' = Put(Put(before, s, lines, l), o, data, d)
  /\ pc' = "done"
  /\ UNCHANGED <<cmdVars, digests, worldVars, handles, data, sums, lines>>

Stopped ==
  /\ pc \in {"done", "aborted", "crashed"}
  /\ UNCHANGED vars

Next ==
  \/ ParseArg \/ OpenIn \/ OpenOut \/ OpenSum \/ NoInput \/ RunDigests
  \/ NoSumfile \/ Report \/ Exit \/ Stopped

Spec == Init /\ [][Next]_vars

-----------------------------------------------------------------------------
\* The files the command line lets the program write to.
Written == IF sums_only THEN {} ELSE {names["-o"], names["-s"]} \cap (Names \ denied)

(* Once the command line is read, only what it names for output is         *)
(* touched, and under --sumsonly nothing is; a file that is not named      *)
(* holds what it did to the end (sump.cc lines 89-113).                    *)
OthersUntouched ==
  \A f \in Names : files[f] # OriginalOf(f) => f \in Written

(* The sums reported are of what the input held when the program started,  *)
(* unless the command line names the input for output too: then it was     *)
(* emptied before it was read, and the sums are those of nothing           *)
(* (sump.cc lines 89-120).                                                 *)
SumsOfNamedInput ==
  pc \in {"report", "exit", "done"} =>
    data = CASE names["-i"] = "-"       -> Original("stdin")
             [] names["-i"] \in Written -> << >>
             [] OTHER                   -> Original(names["-i"])

(* What the command line means, told from argv alone.  An argument is an   *)
(* option's value if an odd number of options stand right before it: every *)
(* other one of them is a value itself.                                    *)
IsValue(j) ==
  \E n \in 1..(j - 1) :
    /\ n % 2 = 1
    /\ \A i \in (j - n)..(j - 1) : argv[i] \in Options
    /\ j - n = 1 \/ argv[j - n - 1] \notin Options

\* Where algorithms are asked for, and where names of the input are given.
Asked == {j \in 1..Len(argv) : ~IsValue(j) /\ argv[j] \notin Options \cup {"--sumsonly"}}
Given == {j \in 1..Len(argv) : IsValue(j) /\ argv[j - 1] = "-i"}

Place(j) == Cardinality({i \in Asked : i <= j})

\* The last name given for the input counts.
IsInputName(name) ==
  \/ Given = {} /\ name = "-"
  \/ \E j \in Given : name = argv[j] /\ \A i \in Given : i <= j

(* However options, values and algorithms are mixed, there is a line for   *)
(* each algorithm asked for, in their order, that shows the sum which this *)
(* algorithm, and none of the others, makes of what was read, beside the   *)
(* algorithm's name, if there are several, and the input's (sump.cc lines  *)
(* 63-87, 116-130).                                                        *)
LinesNameTheirSums ==
  pc = "done" =>
    /\ Len(lines) = IF Asked = {} THEN 1 ELSE Cardinality(Asked)
    /\ \A l \in 1..Len(lines) : IsInputName(lines[l][3])
    /\ \A j \in Asked :
         LET line == lines[Place(j)] IN
         /\ Len(lines) > 1 => line[1] = argv[j]
         /\ argv[j] \in OpenSSLNames \cup {"count"} => line[2] = Checksum(argv[j], data)

\* A file of cells which are each one of the data or one of the report, and
\* as long as the longer of the two.
Mixed(file) ==
  /\ Len(file) = IF Len(data) > Len(lines) THEN Len(data) ELSE Len(lines)
  /\ \A i \in 1..Len(file) :
       \/ i <= Len(data) /\ file[i] = data[i]
       \/ i <= Len(lines) /\ file[i] = lines[i]

(* At exit a file named for output holds all that was read, and one named  *)
(* for the sums all of the report, unless one name was given for both:     *)
(* then they are mixed in it.  A missing input leaves every file named for *)
(* output empty, and a sum file that cannot be opened a beginning of the   *)
(* data (sump.cc lines 25, 89-131).                                        *)
FilesHoldResults ==
  \A f \in Written :
    /\ pc = "done" =>
         /\ f # names["-s"] => files[f] = data
         /\ f # names["-o"] => files[f] = lines
         /\ names["-o"] = names["-s"] => Mixed(files[f])
    /\ pc = "aborted" => files[f] = << >>
    /\ pc = "crashed" => \E n \in 0..Len(data) : files[f] = SubSeq(data, 1, n)
=============================================================================
