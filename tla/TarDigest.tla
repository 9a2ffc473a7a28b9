----------------------------- MODULE TarDigest -----------------------------
(***************************************************************************)
(* sump-tar: tar_digest walks the records TARFileReader hands out, tells   *)
(* headers from the rest by their checksum alone, sums the data of regular *)
(* files, and main sorts and prints a row for each.                        *)
(*                                                                         *)
(* The input is what is left, after a cut, of an archive: a sequence of    *)
(* blocks of RECORD_SIZE bytes.  A block is a header, with the fields the  *)
(* code reads, or not.  Names and checksums are kept as the input          *)
(* positions of their bytes, so a row says whose name and whose data it    *)
(* shows.                                                                  *)
(***************************************************************************)
EXTENDS TarReader, SequencesExt

CONSTANTS
  Archives,  \* the archives considered: sequences of blocks
  Argvs      \* the command lines considered: sequences of arguments

\* A block's `bytes` spell out names; the name field is the first of them.
Blocks == [header : BOOLEAN, type : {"file", "dir", "long", "other", "none"},
           size : Nat, sizeOK : BOOLEAN, bytes : [1..RECORD_SIZE -> 0..255]]

ASSUME ArchivesAssumption ==
  \A a \in Archives : a \in Seq(Blocks) /\ Len(a) * RECORD_SIZE <= MaxLen

VARIABLES
  archive,       \* what the input was before it was cut
  pc,            \* where the program is
  digest,        \* the digest object
  filename,      \* the name of the next row, as input positions
  long_filename, \* whether an 'L' member has set it
  size,          \* what is left of the member's data
  output,        \* the rows, in the order of the archive
  printed        \* the rows as printed

walkVars == <<digest, filename, long_filename, size, output>>
vars     == <<readerVars, archive, pc, walkVars, printed>>

(* A name the code has no right to: pop_back of an empty string.           *)
BrokenName == <<-1>>

(* The command line: the last argument that is no option names the digest, *)
(* build_digest making the default one of none.                            *)
SumsOnly(argv) == \E k \in 1..Len(argv) : argv[k] = "--sumsonly"

Algorithm(argv) ==
  LET names == SelectSeq(argv, LAMBDA arg : arg # "--sumsonly")
  IN  IF names = << >> THEN "" ELSE Last(names)

Init ==
  /\ ReaderInit
  /\ archive \in Archives
  /\ inlen <= Len(archive) * RECORD_SIZE
  /\ pc = "next"
  /\ \E argv \in Argvs :
       /\ SumsOnly(argv) => ~outfile
       /\ digest = NewDigest(Algorithm(argv))
  /\ filename = << >>
  /\ long_filename = FALSE
  /\ size = 0
  /\ output = << >>
  /\ printed = << >>

(***************************************************************************)
(* What a record reads as.  A whole block reads as itself, a block left in *)
(* the buffer from an earlier fill too.  A cut one goes on with what an    *)
(* earlier fill left behind it: its checksum may fail, and it may pass for *)
(* the header of either block, with the size of either (a size field that  *)
(* is itself cut in two is left out).  Memory never written does not pass  *)
(* for a header.                                                           *)
(***************************************************************************)
BlockOf(c) == ((c - 1) \div RECORD_SIZE) + 1
PositionsOf(b) == [i \in 1..RECORD_SIZE |-> (b - 1) * RECORD_SIZE + i]

NoHeader ==
  [header |-> FALSE, type |-> "none", size |-> 0, sizeOK |-> TRUE,
   bytes |-> [i \in 1..RECORD_SIZE |-> 0]]

\* The header h with the size field of the block g.
Sized(h, g) == [h EXCEPT !.size = g.size, !.sizeOK = g.sizeOK]

ReadsAs(r) ==
  LET own    == BlockOf(r[1])
      blocks == {BlockOf(c) : c \in Range(r) \ {0}}
  IN  CASE r = << >> -> {}
        [] r # << >> /\ r[1] = 0 -> {NoHeader}
        [] r # << >> /\ r[1] # 0 /\ r = PositionsOf(own) -> {archive[own]}
        [] OTHER -> {NoHeader} \cup {archive[b] : b \in blocks}
                               \cup {Sized(archive[b], archive[own]) : b \in blocks}

(* Slip: a whole record, however little of the member is left.             *)
RestWhole(n) == RECORD_SIZE

Rest(n) == IF n < RECORD_SIZE THEN n ELSE RECORD_SIZE

(* The digests that return from update(nullptr, n): xxh refuses it, the    *)
(* counter counts, "none" does nothing.  OpenSSL's read through it.        *)
UpdatedByNull(n) ==
  CASE digest.alg \in OpenSSLNames -> {}
    [] digest.alg = "count"       -> {update(digest, [i \in 1..n |-> 0])}
    [] OTHER                      -> {digest}

(* output.push_back: the name, and what finalize makes of the digest.  The *)
(* copy of a broken name may throw, what nothing catches.                  *)
PushRow(d, name) ==
  \/ /\ \E s \in finalize(d) : output' = Append(output, [name |-> name, sum |-> s])
     /\ pc' = "next"
  \/ /\ name = BrokenName
     /\ pc' = "crashed"
     /\ UNCHANGED output

-----------------------------------------------------------------------------
(* Slip: nullptr is taken for one more record to ignore.                   *)
EndOfInputIgnored ==
  /\ pc = "next"
  /\ fetch_record
  /\ record' = << >>
  /\ UNCHANGED <<archive, pc, walkVars, printed>>

(* fetch_record is nullptr at the top of the loop: tar_digest returns.     *)
EndOfInput ==
  /\ pc = "next"
  /\ fetch_record
  /\ record' = << >>
  /\ pc' = "sort"
  /\ UNCHANGED <<archive, walkVars, printed>>

(* Slip: the walk stops at the end-of-archive padding, as tar does.        *)
IgnoreRecordStopping ==
  /\ pc = "next"
  /\ fetch_record
  /\ \E h \in ReadsAs(record') : ~h.header
  /\ pc' = "sort"
  /\ UNCHANGED <<archive, walkVars, printed>>

(* No header: a zero block, or data nothing has skipped.                   *)
IgnoreRecord ==
  /\ pc = "next"
  /\ fetch_record
  /\ \E h \in ReadsAs(record') : ~h.header
  /\ UNCHANGED <<archive, pc, walkVars, printed>>

(* Slip: an 'L' member's name does not reach the member it names.          *)
NamedByHeader == <<record'[1]>>

(* The name the member goes by: one an 'L' member left, else its own.      *)
Named == IF long_filename THEN filename ELSE <<record'[1]>>

(* Slip: the digest is not reset, finalize having been called on it.       *)
FileHeaderNoReset ==
  /\ pc = "next"
  /\ fetch_record
  /\ \E h \in ReadsAs(record') :
       /\ h.header /\ h.sizeOK /\ h.type = "file"
       /\ size' = h.size
       /\ IF h.size = 0
          THEN PushRow(digest, Named)
          ELSE pc' = "file" /\ UNCHANGED output
  /\ long_filename' = FALSE
  /\ filename' = Named
  /\ UNCHANGED <<archive, digest, printed>>

(* getFileSize throws malformed_tar_error; main reports it and exits.      *)
MalformedHeader ==
  /\ pc = "next"
  /\ fetch_record
  /\ \E h \in ReadsAs(record') : h.header /\ ~h.sizeOK
  /\ pc' = "failed"
  /\ long_filename' = FALSE
  /\ filename' = Named
  /\ UNCHANGED <<archive, digest, size, output, printed>>

(* Slip: do-while, which reads a record for an empty file too.             *)
FileHeaderReading ==
  /\ pc = "next"
  /\ fetch_record
  /\ \E h \in ReadsAs(record') :
       /\ h.header /\ h.sizeOK /\ h.type = "file"
       /\ size' = h.size
       /\ digest' = reset(digest)
  /\ pc' = "file"
  /\ long_filename' = FALSE
  /\ filename' = Named
  /\ UNCHANGED <<archive, output, printed>>

FileHeader ==
  /\ pc = "next"
  /\ fetch_record
  /\ \E h \in ReadsAs(record') :
       /\ h.header /\ h.sizeOK /\ h.type = "file"
       /\ size' = h.size
       /\ digest' = reset(digest)
       /\ IF h.size = 0
          THEN PushRow(digest', Named)
          ELSE pc' = "file" /\ UNCHANGED output
  /\ long_filename' = FALSE
  /\ filename' = Named
  /\ UNCHANGED <<archive, printed>>

(* A directory, or a type the code does not handle: it goes on to the next *)
(* record, which may be the first of this member's data.                   *)
OtherHeader ==
  /\ pc = "next"
  /\ fetch_record
  /\ \E h \in ReadsAs(record') :
       /\ h.header /\ h.sizeOK /\ h.type \in {"dir", "other"}
       /\ size' = h.size
  /\ long_filename' = FALSE
  /\ filename' = Named
  /\ UNCHANGED <<archive, pc, digest, output, printed>>

(* An 'L' member.  With no data the name is empty and pop_back undefined.  *)
LongHeader ==
  /\ pc = "next"
  /\ fetch_record
  /\ \E h \in ReadsAs(record') :
       /\ h.header /\ h.sizeOK /\ h.type = "long"
       /\ size' = h.size
       /\ \/ /\ h.size > 0
             /\ pc' = "long"
             /\ filename' = << >>
          \/ /\ h.size = 0
             /\ pc' \in {"next", "crashed"}
             /\ filename' = BrokenName
  /\ long_filename' = TRUE
  /\ UNCHANGED <<archive, digest, output, printed>>

(* The loop over the data of a regular file.  Past the end of the input it *)
(* goes on with nullptr, which OpenSSL's updates do not survive.           *)
FileData ==
  /\ pc = "file"
  /\ fetch_record
  /\ size' = size - Rest(size)
  /\ \/ /\ record' # << >>
        /\ digest' = update(digest, SubSeq(record', 1, Rest(size)))
     \/ /\ record' = << >>
        /\ digest' \in UpdatedByNull(Rest(size))
  /\ IF size' = 0
     THEN PushRow(digest', filename)
     ELSE pc' = "file" /\ UNCHANGED output
  /\ UNCHANGED <<archive, filename, long_filename, printed>>

(* The loop over the data of an 'L' member, a name and its NUL.            *)
LongData ==
  /\ pc = "long"
  /\ fetch_record
  /\ record' # << >>
  /\ size' = size - Rest(size)
  /\ LET name == filename \o SubSeq(record', 1, Rest(size)) IN
       IF size' = 0
       THEN pc' = "next" /\ filename' = Front(name)
       ELSE pc' = "long" /\ filename' = name
  /\ UNCHANGED <<archive, digest, long_filename, output, printed>>

(* update reads through nullptr, or std::string is constructed from it.    *)
CrashOnNull ==
  /\ \/ pc = "file" /\ UpdatedByNull(Rest(size)) = {}
     \/ pc = "long"
  /\ fetch_record
  /\ record' = << >>
  /\ pc' = "crashed"
  /\ UNCHANGED <<archive, walkVars, printed>>

(* SIGPIPE, left to its default, in the middle of a fill's fwrite.         *)
BrokenPipe ==
  /\ pc \in {"next", "file", "long"}
  /\ MustFill /\ outfile
  /\ \E m \in 0..(Available - 1) :
       given' = given \o SubSeq(Filled(Available), 1, m)
  /\ outError' = TRUE
  /\ pc' = "killed"
  /\ UNCHANGED <<inlen, bufferVars, record, outfile, archive, walkVars, printed>>

(* The text a name spells, and the order std::lexicographical_compare puts *)
(* two texts in.                                                           *)
ByteAt(c) ==
  IF c <= 0 THEN 0
  ELSE archive[BlockOf(c)].bytes[((c - 1) % RECORD_SIZE) + 1]

Text(name) == [i \in 1..Len(name) |-> ByteAt(name[i])]

(* A char holds a byte as a signed number.                                 *)
Char(b) == IF b < 128 THEN b ELSE b - 256

Precedes(s, t) ==
  \E i \in 1..Len(t) :
    /\ i <= Len(s) + 1
    /\ \A j \in 1..(i - 1) : s[j] = t[j]
    /\ i <= Len(s) => Char(s[i]) < Char(t[i])

Orders(n) == {f \in [1..n -> 1..n] : \A i, j \in 1..n : f[i] = f[j] => i = j}

(* std::sort by name, not stable, and a line for each row.                 *)
Report ==
  /\ pc = "sort"
  /\ \E f \in Orders(Len(output)) :
       /\ \A i, j \in 1..Len(output) :
            i < j => ~Precedes(Text(output[f[j]].name), Text(output[f[i]].name))
       /\ printed' = [i \in 1..Len(output) |-> output[f[i]]]
  /\ pc' = "done"
  /\ UNCHANGED <<readerVars, archive, walkVars>>

Ended == {"done", "failed", "crashed", "killed"}

Stopped ==
  /\ pc \in Ended
  /\ UNCHANGED vars

Step ==
  \/ EndOfInput \/ IgnoreRecord \/ MalformedHeader
  \/ FileHeader \/ OtherHeader \/ LongHeader
  \/ FileData \/ LongData \/ CrashOnNull \/ Report

Next == Step \/ BrokenPipe \/ Stopped

Spec == Init /\ [][Next]_vars

(* sump-tar is one thread, and its input is expected to yield or to end.   *)
FairSpec == Spec /\ WF_vars(Step)

-----------------------------------------------------------------------------

TypeOK ==
  /\ ReaderTypeOK
  /\ archive \in Archives
  /\ pc \in {"next", "file", "long", "sort"} \cup Ended
  /\ digest \in DigestObjects(0..inlen)
  /\ filename \in Seq(-1..inlen)
  /\ long_filename \in BOOLEAN
  /\ size \in Nat
  /\ \A i \in 1..Len(output) :
       output[i].name \in Seq(-1..inlen) /\ output[i].sum \in Checksums
  /\ Len(printed) <= Len(output)

(***************************************************************************)
(* What a reader of the format makes of an archive: the data of a member   *)
(* of any type follows its header and takes whole blocks, and what lies    *)
(* between members is padding.  A member goes by its header's block.       *)
(***************************************************************************)
LastBlock(a, m) == m + ((a[m].size + RECORD_SIZE - 1) \div RECORD_SIZE)

DataOf(a, m) == [i \in 1..a[m].size |-> m * RECORD_SIZE + i]

\* Block b begins a member if it is a header behind the data of the last, m.
Member(a, m, b) ==
  IF a[b].header /\ (m = 0 \/ LastBlock(a, m) < b) THEN b ELSE m

\* The last member to begin in the first b blocks, 0 if there is none.
MemberAt(a) ==
  LET at[b \in 0..Len(a)] == IF b = 0 THEN 0 ELSE Member(a, at[b - 1], b)
  IN  at

\* An 'L' member names the one that follows it.
NameOf(a, m) ==
  LET before == MemberAt(a)[m - 1] IN
  IF before # 0 /\ a[before].type = "long"
  THEN Front(DataOf(a, before))
  ELSE <<(m - 1) * RECORD_SIZE + 1>>

RowOf(a, alg, m) ==
  [name |-> NameOf(a, m), sum |-> Checksum(alg, DataOf(a, m))]

\* Block b ends a regular file: a row more.
WithRow(a, alg, rows, b) ==
  LET m == MemberAt(a)[b] IN
  IF m # 0 /\ a[m].type = "file" /\ LastBlock(a, m) = b
  THEN Append(rows, RowOf(a, alg, m))
  ELSE rows

\* The rows of the regular files that end in the first b blocks.
RowsAt(a, alg) ==
  LET rows[b \in 0..Len(a)] ==
        IF b = 0 THEN << >> ELSE WithRow(a, alg, rows[b - 1], b)
  IN  rows

(* An archive the program has rows for: each size is one it can decode, an *)
(* 'L' member has a name, and no member's data is a header where the code  *)
(* does not skip it.                                                       *)
Readable(a) ==
  \A b \in 1..Len(a) :
    LET m == MemberAt(a)[b] IN
    m # 0 =>
      /\ a[m].sizeOK
      /\ a[m].type = "long" => a[m].size > 0
      /\ a[m].type \in {"dir", "other"} /\ m < b /\ b <= LastBlock(a, m) =>
           ~a[b].header

\* The input ends in the data of a file that nullptr does not go into, or
\* in a long name.
EndsInTheMiddle ==
  LET b == inlen \div RECORD_SIZE
      m == MemberAt(archive)[b]
  IN  /\ m # 0 /\ b < LastBlock(archive, m)
      /\ \/ archive[m].type = "long"
         \/ archive[m].type = "file" /\ digest.alg \in OpenSSLNames

\* The archive does not end in the middle of its last member's data.
Complete(a) ==
  LET m == MemberAt(a)[Len(a)] IN m # 0 => LastBlock(a, m) <= Len(a)

(* A whole archive gets a row for every regular file, under its own name,  *)
(* of exactly its data, in the order of the archive, and no other row      *)
(* (tar_digest, sump-tar.cc lines 54-132); but "none" sums nothing.        *)
RowsOfWholeArchive ==
  /\ Readable(archive) /\ Complete(archive)
  /\ inlen = Len(archive) * RECORD_SIZE
  /\ digest.alg # "none"
  /\ pc \in {"sort", "done"}
  => output = RowsAt(archive, digest.alg)[Len(archive)]

(* Wherever the input is cut, the files that lie before the cut are        *)
(* reported right and first; what the cut, the stale buffer and nullptr    *)
(* bring comes after them.                                                 *)
IntactFilesFirst ==
  Readable(archive) /\ digest.alg # "none" =>
    LET intact == RowsAt(archive, digest.alg)[inlen \div RECORD_SIZE] IN
    /\ IsPrefix(output, intact) \/ IsPrefix(intact, output)
    /\ pc \in {"sort", "done"} => IsPrefix(intact, output)

(* Of an input cut between two records, the end is mistaken for data just  *)
(* where it comes within a long name or a file that OpenSSL sums, and only *)
(* then does the program crash; else it returns its rows, and it never     *)
(* calls the archive malformed (tar_digest, sump-tar.cc lines 54-132).     *)
CrashesOnlyThus ==
  /\ Readable(archive) /\ digest.alg # "none"
  /\ inlen % RECORD_SIZE = 0
  => /\ pc = "crashed" => EndsInTheMiddle
     /\ pc \in {"sort", "done"} => ~EndsInTheMiddle
     /\ pc # "failed"

(* A run that ends with its rows printed has passed on all of its input,   *)
(* what follows the archive too, unless the output refused some of it.     *)
AllPassedOn ==
  pc = "done" /\ outfile /\ ~outError => given = Bytes(inlen)

(* The comment at sump.h line 658 has the rows' order be that of GNU sort  *)
(* under LC_COLLATE=C, which compares bytes as unsigned numbers: where two *)
(* names printed one after the other first differ, the byte grows          *)
(* (filename_digest_comparator, sump.h lines 656-662).                     *)
RowsInCollationOrder ==
  \A i \in 1..(Len(printed) - 1) :
    LET s == Text(printed[i].name)
        t == Text(printed[i + 1].name)
    IN  \A j \in 1..Len(s) :
          j <= Len(t) /\ (\A h \in 1..(j - 1) : s[h] = t[h]) => s[j] <= t[j]

(* The program ends, on cut and malformed input too.                       *)
Terminates == <>(pc \in Ended)
=============================================================================
