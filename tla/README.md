# Verification of checksum-passthru

TLA+ models of the programs in this repository, the TLC configurations that
check them on small instances, and TLAPS proofs of what matters most for every
instance. Line numbers are those of the files under `src/`.

    tlc -config MultiDigest.cfg MCMultiDigest.tla      # one run
    tlapm MultiDigestProof.tla                         # one module's proofs

The modules need the TLA+ community modules (`SequencesExt`) and, for the
proofs, the TLAPS library.

## 1. The system and its parts

The repository holds command-line programs that compute checksums of a stream
and, meanwhile, pass the stream on.

| part | state | operations | what makes it correct |
|---|---|---|---|
| **`multi_digest`**, `sump.cc` 22-48 | one shared buffer, the file positions, the digest objects | `fread` a chunk, `fwrite` it, update every digest (an OpenMP loop when there are several), finalize | each sum is that of all of the input and stands with its algorithm; no thread sees a byte of the next chunk; the output is the input; it ends |
| **`main` of sump**, `sump.cc` 50-132 | files, list of names | parse `-i -o -s`, open files, add the default digest, print `sum name` lines | input and output are the files meant; names and sums pair up |
| **digest objects**, `sump.h` 61-248, 422-557 | a hash state | construct, `reset`, `update`, `finalize`; `build_digest` from a name | a sum is that of the bytes since the last reset, and of nothing else |
| **`TARFileReader`**, `sump.h` 665-712 | a buffer of 64 records, a position, an unsigned count | `fill_buffer`, `fetch_record` | every record once and in order; the output gets what was read; it reports the end |
| **`tar_digest`**, `sump-tar.cc` 29-134 | one digest object, a pending name, what is left of a member | walk records: headers, data, long names | one row per regular file, under its own name, of exactly its data |
| **`run_normal_mode`**, `sump-tar.cc` 160-190 | the rows | sort, print, turn `malformed_tar_error` into exit status | rows come out in the order `LC_COLLATE=C sort` gives |
| **`TARFileHeader`**, `sump.h` 560-653 | 512 bytes | size, name and checksum of a header | fields end where the format ends them |
| **XXH64**, `xxhash.c` 642-896 | four lanes, a buffer of a stripe, lengths | reset, update, digest | streaming agrees with the one-shot hash |
| **`FFProbeDigest`**, `sump.h` 251-419 | a child process, two pipes | start, feed, wait, read | a file's digest is what its own child said; it ends (`build_digest` does not build it any more) |
| **md5sump, sha\*sump** (six C programs) | a buffer, an OpenSSL context, the digest's text | the same loop as `multi_digest`, one digest, no threads; the text two digits at a time | as `multi_digest`; the text is all of the digest and fits its array |
| **sump-compare** (Python) | sums by name | pair two lists | every difference is reported, once |
| **xxhsump** (shell) | a pipeline | `tee` into a process substitution | the sum is printed, the input passed on |

**How they interact.** `main` builds digests by name and hands files and digests
to `multi_digest`; the iterations of its parallel loop share the buffer
`multi_digest` fills, and only the loop's implicit barrier orders them with the
next `fread`. `tar_digest` calls `TARFileReader::fetch_record`, which now and then
reads a bufferful and passes it on; a null pointer is how it hears of the end of
the input. What a block means to it is for `TARFileHeader` to say. It drives a single digest object through reset, update and finalize for
each file. `xxh`, the default digest of both programs, is the vendored XXH64.

**What is hard in this code.**
- *Interleaving*: digests read the shared buffer at their own pace, on fewer
  threads than digests.
- *Partial failure*: no result of `fread`, `fwrite` or `fopen` is looked at;
  `SIGPIPE` kills the process between any two bytes of an `fwrite`; the input may
  end in the middle of a header or of a file.
- *Stale and uninitialised state*: the XXH64 state nobody reset, the tar buffer
  that keeps old records behind a short read.
- *Numeric edges*: the unsigned `_n_bytes` wraps on an input that is not a whole
  number of records; octal and base-256 fields; names that fill their field.
- *Protocol*: reset before update, a name carried from an `L` member to the next,
  data of members the code does not skip, options and algorithms in any order.
- *Aliasing*: one name may be given for input, output and sums.
- *Ending*: `sump-tar` must come to an end even where the count has wrapped;
  `FFProbeDigest` and its child may wait for each other for ever.

`PROJECT.json` lists each hazard at its line with the properties aimed at it.

## 2. Modules

| module | models |
|---|---|
| `Digests` | digest objects as values: which bytes they absorbed; used by all modules that hash |
| `PassThru` | abstract: what `sump` promises |
| `MultiDigest` | `multi_digest`, threads and failures included |
| `MultiDigestProof` | theorems about `MultiDigest` |
| `RecordStream` | abstract: what `TARFileReader` promises |
| `TarReader` | `TARFileReader` |
| `TarDigest` | `tar_digest`, `run_normal_mode` and the command line of sump-tar, on top of `TarReader` |
| `TarDigestProof` | theorems about `TarReader`, and about `TarDigest` on top of them |
| `TarHeader` | `TARFileHeader`, byte by byte |
| `TarHeaderProof` | theorems about `TarHeader` |
| `Xxh64` | the streaming XXH64 |
| `Xxh64Proof` | theorems about `Xxh64` |
| `Sump` | `main` of sump around `multi_digest`: command line, files, report |
| `SumpProof` | theorems about `Sump` |
| `HashSump` | the six C programs, a second implementation of `PassThru` |
| `HashSumpProof` | theorems about `HashSump` |
| `Compare` | `sump-compare` |
| `CompareProof` | theorems about `Compare` |
| `FFProbe` | `FFProbeDigest` and the child process it starts |
| `FFProbeProof` | theorems about `FFProbe` |
| `MC*` | values of the constants for TLC |

**One idea runs through those that hash**: a byte of the input is named by its
*position* (in `Sump`, by its file and its position there). A digest is the sequence of positions it absorbed, a buffer cell holds
the position of the byte it keeps (0 for a cell never written), a sum is the pair of
an algorithm and the bytes it stands for. Hash functions are never computed, and
a byte skipped, doubled, reordered or taken from a stale buffer shows at once.

Definitions commented *Slip* are not part of the model: each is a mistake a later
change could make in the operator of the same name (a dropped guard, a missing
reset, `nowait` on the loop). `PROJECT.json` pairs every property with the slip it
detects.

### Digests (`sump.h` 61-248, 422-557)
`build_digest` maps names to algorithms, an unknown name to `none` as in line 555. The
algorithm is part of a checksum, so the sum of one is never taken for that of another,
though all of OpenSSL's share one class.
`NewDigest` leaves an `xxh` object not `ready`, because the constructor of line 222
never calls `XXH64_reset`; `finalize` of such an object may give the right sum or a
wrong one: the state `XXH64_createState` allocates is uninitialised memory.
`none` always yields a value that says nothing of the input. That the garbage in such a state may also
make XXH64 copy out of bounds (`xxhash.c` 782-789) is left out: only the sum is modelled.

### MultiDigest (`sump.cc` 22-48)
`Read` is line 29, `Write`/`SkipWrite` lines 30-32, `StartIteration`, `UpdateByte` and
`EndIteration` one iteration of the loop of lines 34-37, `Barrier` its end, `Finalize`
the loop of 43-46. An iteration reads the shared buffer one byte per step, so every
interleaving of the threads' reads is there; `Threads` bounds how many iterations
run at once. With one digest the code takes the branch of lines 38-40 instead, which
is the loop with one iteration.
- `fread` may return any count; less than what fits and is left sets the
  error indicator. An error need not last: a later `fread` may succeed again.
- `fwrite` keeps any prefix of the chunk; the loop does not notice.
- `BrokenPipe` is SIGPIPE inside the `fwrite`.
- stdio's own buffers are part of the file: `given` is what the file accepted of
  the writes, flushes at exit included.

### PassThru
Chunks of the input are taken and offered to the output in order, an output that
fails keeps a prefix, and once the input has ended or failed a sum per algorithm
is reported, all together. `MultiDigest` implements it with a chunk counted as
taken when it is offered to the output, and the sums seen once all of them are
there.

### TarReader and RecordStream (`sump.h` 665-712)
`fetch_record` is one action with its two branches: `FetchFilling` (the call of
`fill_buffer` in line 702 included) and `FetchBuffered`. `Minus` is subtraction of
`size_t`: `_n_bytes -= RECORD_SIZE` of line 708 wraps where fewer bytes were left,
`MustFill` then never sees 0 again, and the buffer's end (`_pos`) is what stops the
phantom records. `Delivered` undoes the wrap: it is the offset in the input the next
record begins at, and the refinement maps it to `RecordStream`'s `off`. `inlen` is
where the input ends, or fails for good: that a short `fread` is the last one is an
assumption here, as it is not in `MultiDigest`.

`RecordStream` says what callers may count on. On an input of whole records:
each of them once, in order, then none. On a cut input, one record with something
in place of the missing bytes, and then at most a bufferful of records that mean
nothing, before the end is reported.

### TarDigest (`sump-tar.cc` 29-134, 160-195)
`SumsOnly` and `Algorithm` are what the loop over `argv` comes to: the last argument
that is not `--sumsonly` names the digest, and no output is passed on with `--sumsonly`.
The module EXTENDS `TarReader` and each of its actions that fetches a record contains the
whole of `fetch_record`. `pc` says which loop the code is in: `next` (lines 56-66),
`file` (92-97), `long` (109-113), `sort`, or how it ended. The constant `Archives`
gives what blocks read as: header or not, type, size, whether the size decodes, and
the bytes (0 to 255) of names. `ReadsAs` says what the record at hand reads as: a whole block
as itself, also one left over from an earlier fill; a cut block as no header, its own or the
stale one behind the cut, with the size of either, since where the cut falls decides which of
their fields is left and whether the checksum still holds. A size field that is itself cut in
two is left out.
`FileData` with a null record continues into `update(nullptr, n)` as lines 94-96 do
(`count` counts, `xxh` refuses, `none` ignores, OpenSSL crashes); `CrashOnNull` is
that crash and the one of line 112. `MalformedHeader` is the exception of
`getFileSize`, caught in `run_normal_mode`. `Report` sorts by name as
`sump.h` 656-663 compares them, byte by byte as *signed* chars; `std::sort` is not
stable, so any order of equal names may come out.
`LongHeader` with no data leaves `BrokenName` or a crash, for line 115's `pop_back`
of an empty string; a row's copy of a `BrokenName` may throw too.

What the rows should be is not told by a second walk like the code's but block by block:
`MemberAt` gives the member each block belongs to, which is decided by where the last one
ends, `WithRow` adds a row where a regular file ends, and `RowsAt` are the rows of the
first so many blocks. `Readable` archives are those the program has rows for: their sizes decode,
their long names are not empty, and no data the code does not skip passes for a header.

`CrashesOnlyThus` is about the `nullptr` that lines 94-96 and 112 do not look at. Of an archive cut
between two records it says exactly when that is fatal: when the cut lies in a long name or in a file
that an OpenSSL digest sums (`EndsInTheMiddle`). An end of the input at any other place, in a
file that `xxh` or `count` sums or in the data of a directory, is
survived, and none is ever reported as a malformed archive.

### TarHeader (`sump.h` 560-653)
A header as an archiver wrote it (external: `Written` and the styles of its fields, which
are those archivers use), perhaps with one byte damaged, and the code's reading of it:
`checkChecksum`, `getFilename` and `getFileSize`, in the order `tar_digest` calls them.
The header is one flat sequence of bytes, because the code's strings end at a NUL and
not with their field: `CString` runs on from field to field. `decode` takes any
character, signed, for a digit and wraps at `Word`; the time of modification stands whole
behind the size, as `mtime`, because a size without a NUL runs on into it; `Base256` keeps the low digits of a
number too large; `checkChecksum` copies the checksum's field to a buffer without a NUL,
so `Junk` stands for the stack behind it. `Leading`, `Sums` and `Numbers` are recursive
functions, which give the intermediate results of a conversion, a sum and `decode` too: proofs
go by those. The assumptions say what an archiver can write, sizes and sums that fit
their fields, and that a `size_t` is wider than the octal fields and than the sum of a header.
`TarDigest` takes from here that a header may or
may not be recognised, and its size decode or not.

### Xxh64 (`xxhash.c` 642-896)
`Update` is `XXH64_update_endian`: the early return that buffers, the completion of
the buffered stripe, the loop over whole stripes, the copy of the rest. The lanes are
the sequence of bytes they mixed in, together with whether they started from the
seed. Arithmetic is left out; the rounds are the same lines of code in both
versions, so equal operands give equal hashes. `XXH64` is the one-shot version.

### Sump (`sump.cc` 50-132)
`ParseArg` is one turn of the loop over `argv`; the flags that say which option's
value comes next are one variable, `expects`. It appends to two lists, the names `algs` and the
objects `digests`, as lines 83-84 do. `LinesNameTheirSums` uses neither: `IsValue`, `Asked` and
`IsInputName` tell from `argv` alone which arguments are values of options, which ask for an
algorithm and which name the input. `OpenIn`, `OpenOut` and `OpenSum`
open in the order of the code, an output file being emptied at once, and names
may coincide. `NoInput` is the assertion in `multi_digest`, `RunDigests` all of
`multi_digest` as the one step `PassThru` has it amount to when nothing fails,
the default digest of lines 116-118 included, `Report` lines 121-130, `NoSumfile` the `fprintf` to a
null `FILE`. `Exit` flushes the streams, of which stdio may have written a part before; two streams of
one file write over each other from its start, so data and report may be mixed in it.

### HashSump (`md5sump.c`, `sha*sump.c`)
The loop of all six programs, which differ in the record `program` (algorithm,
context, length of the digest, size of the text's array), and the `snprintf` loop that
makes the text: two digits and a NUL, which the next pair overwrites. `Reach` is the
array and as much memory behind it as the limit given to `snprintf` would let it
write. A byte of the digest is one of `DigestBytes`. It implements `PassThru` with a
single digest.

### Compare (`sump-compare`)
A line is the sequence of the texts between its pairs of blanks, so a name that
holds such a pair is several of them. `ReadLine` is one turn of the loop in
`fetch_contents`, `Report` the three lists and the exit status; `Classified` is the loop over
`data` that makes a list.

### FFProbe (`sump.h` 251-419)
Two processes side by side. The parent's actions are the methods: `Reset` (pipes and
`fork`), `Update`, `FetchSome` and `FetchEnd`, `Finalize`, `Wait`, `Close`. The child is
ffprobe and external: it reads as many records as it wants, says what it has to say,
closes its ends and exits. A pipe is a queue of `Room`; a reader of an
empty one and a writer to a full one have no step until the last holder of the other
end has closed it, which is why `fds` tells the ends either process holds.

## 3. Runs

| run | instance | shows |
|---|---|---|
| `multi` | buffer 2, input 5, three digests on two threads | digests stay in step, no overrun, sums are of the input, `PassThru` is implemented, the program ends |
| `multi_xxh` (violation) | the default digest and `sha1` | the default digest's sum may be wrong |
| `multi_loss` (violation) | the same | sump ends normally with its output short of its input |
| `tar_reader` | records of 2, buffer of 3 records, inputs of 0 to 13 bytes | `RecordStream` is implemented, the output is passed what is delivered, the end is reported |
| `tar_digest` | nine archives, cut at every byte, five command lines | the right rows for whole archives, intact files first for cut ones, all input passed on, crashes only inside long names and files OpenSSL sums, it ends |
| `xxh64` | stripe 4, pieces of 0 to 9, 20 bytes over all resets | streaming and one-shot hash agree exactly when a reset came first or the input is short |
| `tar_order` (violation) | two archives of two files | a name with a byte beyond 127 is printed before ASCII ones |
| `tar_header` | fields of 3, 4, 2, 6 and 2 bytes, some 180 headers, one byte of which may be damaged | which headers are recognised, and whose sizes and names are read as written |
| `sump` | two files of 2 cells, command lines of up to three groups and three longer ones | only files named for output are touched; what the sums are of when names coincide; lines name their sums; what the files hold at exit |
| `hash_sump` | buffer 2, input 3, digest bytes 15 and 171 | `PassThru` is implemented by all six, the text is the digest and stays in its array, the program ends |
| `compare` | two files of up to three lines of six kinds | what exit status 0 means |
| `ffprobe` | files of 3, 0 and 1 records, up to 3 pieces, pipes of 2 | a digest is all its own child said or nothing; the two ways to hang are the only ones; modest children end |

**Why the bounds are enough.** `multi`: 5 bytes in chunks of 2 give full chunks,
a short last one and reuse of the buffer; three iterations on two threads leave
one waiting, so a digest can be a whole chunk behind another. `tar_reader`: 13
bytes are two buffers and a bit, so that inputs end at, before and inside each record
of a first, a second and a third fill, the stale buffer of full and of partial
fills included; a `Word` of 64 is more than twice the buffer, as a `size_t` is.
`tar_digest`: a buffer of two blocks makes headers, names and data straddle refills; the archives cover
odd sizes, a size of whole blocks, two files of one name, a long name over two blocks,
files of no data, directories, archives within files, unknown types with harmless
data and with data that passes for a header, sizes that do not decode, an empty
long name, and ends in the middle of a file's or a long name's data. `xxh64`: pieces longer than two stripes at every offset into a stripe,
before and after resets. `tar_header`: names shorter than their field and filling it, with and without
a prefix that is short or fills its own, bytes beyond 127, every style of size and of
checksum, each size before times that are small, zero, ended by a blank or by nothing; a `Word` of 2^21 lies between sizes that base 256 can write in the field, and is
large enough that the weights of leading blanks do not vanish modulo it, as they do not
modulo 2^64 in the code's fields. Six bytes hold a checksum of four digits with both its
terminators. `sump`: two files suffice for every pattern in which three names coincide or do
not; three groups give each option once, or one option twice, or two algorithms and an
option, and the longer lines mix all of them. `hash_sump`: 15 has a leading zero
digit, 171 none; 3 bytes are a full chunk and a short one. `compare`: three lines are one
more than the two a status of 0 wants of each name; the lines' kinds are two sums of a name,
two names, a name that begins like another, one that ends in blanks and one
that is missing. `ffprobe`: the longest file and the longest saying exceed a pipe by one, the
empty file is the one no record is written for, and the third tells a child from the one before it.

**Fairness.** `MultiDigest`: weak fairness of each step of the main thread and of
each iteration; the operating system runs runnable threads, and a blocked read is
expected to return in the end. Nothing forces an error, and `BrokenPipe`
is never forced. `TarDigest` and `TarReader` are one thread: weak fairness of its
next step, and so is `HashSump`. `FFProbe`: weak fairness of the parent and of the child, which the
operating system schedules; that the child goes on to speak, close and exit is assumed of ffprobe,
and nothing is assumed of how much it reads or says. `Xxh64`, `TarHeader`, `Sump` and
`Compare` have safety properties only.

**Deadlock** is looked for everywhere but in `ffprobe`, where parent and child may really
hang: there `StuckOnlyThus` says that a state where neither has a step is the end or one of
two cases. It says so by what a write, a read or a wait waits for (`ParentCanGo`,
`ChildCanGo`), so that it can be proved. In the first, `finalize` waits for a child that wants the end of its input, which only
`close_fds`, after the wait, would give it. In the second the child has said more than a
pipe holds, and nobody reads it while the parent waits for the child or for room
in the other pipe.

**The three violations.**
- `XxhSumsOfInput`: `src/xxhash.h:187` starts a hash with `XXH*_reset()`;
  `sump` updates its default digest without one (`sump.h` 222, `sump.cc` 36 and 39).
  `sump-tar` resets at line 91 and is not affected. `StreamIsOneShot` tells when the
  sum is right all the same: inputs shorter than a stripe, on zeroed memory.
- `PassedOnWhenDone`: `src/README.md:7` has input passed to output; a refused
  `fwrite` or a failing `fread` goes unnoticed, and the exit status is 0.
- `RowsInCollationOrder`: `src/sump.h:658` means the order of `LC_COLLATE=C sort`, which
  compares bytes; line 659 compares chars, which are signed on x86, so names with bytes
  beyond 127 come first instead of last.

**Properties that state a limit.** Some passing properties say exactly where the code does
what one would expect and where not: `SizeAsWritten` and `NameAsWritten` (headers in
styles the code does not read, and where a size is right by coincidence all the same),
`CrashesOnlyThus` (the inputs that make `sump-tar` crash), `SumsOfNamedInput` (an input named for output too is
empty when it is read), `FilesHoldResults` (data and report in one file),
`MatchedByTwos` (a name twice in one file and not at all in the other
passes for a match), `StuckOnlyThus`.

## 4. Proofs

The eight proof modules prove safety properties for every value of the constants, from the
`ASSUME`s of the modules they extend: positive buffer and record sizes, at
least one digest (`main` adds the default one), at least one thread, a `size_t` more
than twice the buffer, a stripe of at least one byte, files whose names are not those of the standard
streams, and the types of archives, command lines and lines; for `TarHeader`, that a size, a
checksum and names fit the fields they were written to in the style they were, that a
`size_t` is wider than octal fields and than the sum of a header, and that damage and what lies behind
a copy are bytes.

*Recursion and induction.* `Induction`, that a set of numbers which has 0 and the successor
of each of its numbers has all of them, follows from the numbers' well-foundedness by way of a least
number outside it; `Recursion`, that a function defined by recursion on numbers satisfies its
equations, follows from that. With the two, what is recursive over
blocks or bytes is proved for archives and headers of any length.

**`MultiDigestProof`** (`TypeCorrect`, `InStep`, `SumsCorrect`, `NoOverrun`,
`Refinement`). None of the properties is inductive alone: that a digest
absorbs the right byte next depends on what the buffer holds, and that on where the main
thread is. The invariant adds: from `Read` to `Barrier` the buffer's first
`count` cells are the last `count` positions taken; digest `k` has absorbed
exactly what came before the chunk in hand plus `idx[k]` bytes of it, and all of the chunk once
its iteration is done; at every other point where the next step reads the input or
finalizes, each digest has absorbed all that was taken; and the sums collected so far are
ones `finalize` may return of those digests. `NoOverrun` and
`Refinement` follow step by step from it.
What `multi_loss` shows to be broken is proved with the exceptions it has (`PassedOnUnlessFailed`): the
output holds just what it was offered until it refuses a byte (`GivenOK`).

**`TarDigestProof`, the reader** (`ReaderTypeCorrect`, `PassedFirst`, `StreamRefined`). The
invariant `IInv` has four parts beside the types. `AlignedOK`: the position is a
whole number of records, which is why the test for the buffer's exact end cannot be
missed. `CountOK`: the count either tells what is left or has wrapped, and then
only at the end of the input and by less than a buffer. `WindowOK`: what is left of the input in
the buffer stands where the next records will be taken from. `GivenOK`: the output has the
input so far. The lemmas `BufferedCount` and `FillingCount` sort a call into the four steps of
`RecordStream`; the wrap is dealt with there and nowhere else.

**`TarDigestProof`, the walk** (`TarTypeCorrect`, `TarPassesAllOn`). Each action of
`TarDigest` either contains `fetch_record` whole, or leaves the reader alone, or is the
broken pipe, which disturbs only the output (`StepKinds`). So the reader's `IInv`
carries over. To it is added `EndOK`: the walk is over only when
the input was taken to its end, because only a null record ends it and the reader
returns one there only (`NoRecordAtEnd`); with `GivenOK` this is `AllPassedOn`. The types
need that a record is at hand made of positions of the input, so that the block it reads as is one of
the archive's.

The rows (`WholeArchiveRows`, `FilesBeforeCutFirst`) need an invariant that relates the walk to
the reading of the archive by `MemberAt` and `RowsAt`. `OnTrack`: after `b` whole blocks the rows are
`RowsAt` of `b` blocks, and the walk is between members, or in the data of the member that block
`b` belongs to, with just what lies before in the digest or the pending name. `PastBlocks`: the whole blocks
have all been taken, and the rows begin with those of all of them, whatever the stale
buffer and `nullptr` added. `Killed`: the output broke, and the rows are a beginning of
them. `BeginsMember` and `DataStep` relate one block to one `fetch_record`: the code's test of
`size` for 0 comes where `LastBlock` does. `LeavesTrack` deals with the cut block, and `RowsGrow` says that the
rows of fewer blocks are a beginning of those of more, which makes the intact files come first.

The crash (`CrashInTheMiddleOnly`). The same invariant tells where it can happen: on track, in the data
of member `m`, a null record means that the input ended inside that data. Past the blocks
the walk is either still in the data of that member, which then is a file the null pointer does not go
into, or between members for good; `AtEnd` keeps hold of that, and, for an input of whole records, of
there being no record to come that might pass for a header (`AlignedFacts`, `EndReached`).

The order (`ComparatorOrders`, `EveryRowOnceInOrder`, `AsciiInCollationOrder`). That any two
names can be told apart is the one part that needs induction (`Connected`): two texts that differ have a first place
where they do. Of the rows it follows that the order `Report` leaves open is only that of rows of one
name. The `tar_order` run shows that it is not the order the comment in the code means;
`AsciiInCollationOrder`, that a byte beyond 127 is all that parts the two.

**`Xxh64Proof`** (`Xxh64TypeCorrect`, `StreamAgrees`). The lanes alone do not tell
what the hash will be. `LanesOK`: they hold what was given since the last reset up
to a whole number of stripes. `MemOK`: `mem64` begins with what follows them. The one
place that needs arithmetic is the claim that the stripes of the streaming version are those of the
one-shot version, that is, that a number that is a multiple of the stripe and leaves
less than a stripe is the quotient (`WholeUnique`).

**`HashSumpProof`** (`HashTypeCorrect`, `TextCorrect`, `HashRefinement`). `WindowOK` and
`ContextOK` are those of `MultiDigestProof` for one digest; `EndOK`: the hash is
finished only at the end of the input or after an error; `TextOK`: the digits of the first
`n` bytes are in place with a NUL behind them, and no cell from `size` on was touched,
which is what the limit given to `snprintf` does not ensure. `HashPassesOn` is to the six
programs what `PassedOnUnlessFailed` is to `multi_digest`.

**`SumpProof`** (`SumpOthersUntouched`, `SumpSumsOfNamedInput`, `SumpLinesNameTheirSums`,
`SumpFilesHoldResults`). `HandlesOK` says what each handle refers to in terms of the
command line, from the moment it is opened; `FilesOK`: until the exit the files
open for output are empty, and all others are as they were. From these, that the
outputs are just the files named for output (`OutputsWritten`), and so what was read.
`SumsOK` and `LinesOK` keep what the sums and the report were made of. `Argvs` is any set of
sequences of strings, so options and algorithms are mixed in every way. `ParsedOK` relates the parse to what
`argv` alone tells: `expects` is set just where the next argument is a value, `algs` has the arguments
asked for so far, each at its place, and `DigestsOK`: `digests` has an object made of each. That the loop's flag
and the parity of the options before an argument (`IsValue`) come to the same is the induction in it.

**`TarHeaderProof`** (`TypeCorrect`, `WrittenRecognised`, `OneWrongByteDetected`, `SizeExactly`,
`NameExactly`). The program's steps are few, and the invariant is little more than the properties:
that the header is what was written but for the damaged byte (`Kept`), and that name and size are what the code
reads there (`NameRead`, `SizeRead`). The work is in the lemmas on bytes.
- `Layout`: where each field of a written header stands, and that a NUL ends the header.
- Octal digits: decoding them takes back one `Leading` after the other (`Makes`); a blank behind
  them is one more digit, of -16, and blanks before them weigh powers of 8
  that do not vanish modulo `Word`. So a size or sum is read right where it ends in a NUL and wrong where
  blanks surround it. A field without a NUL is read on into the next (`RunsOn`): what it makes is its own number times
  a power of 8, plus what follows, modulo `Word`, and `SizeExactly` says when that is the number
  written by coincidence. A full 0 is, before the time 0.
- The two sums: the signed one is smaller by 256 for each byte beyond 127 (`Apart`). The digits
  of the unsigned sum and a blank make eight times that sum less 16, which is more than either. Those of
  the signed sum may make the unsigned one by coincidence, which is why `HeadersRecognised`
  says nothing of that case.
- Damage: one wrong byte changes either sum by 1 to 255 (`WrongByte`), which the difference of
  the two, a multiple of 256, cannot make up for; and `Word` is too large for a sum to
  come back by wrapping.

Without the assumptions on `Word` and on what fits, the properties are false, and small instances
show it: a sum with too many digits for its field is recognised as another one.

**`FFProbeProof`** (`DigestOfOwnChild`, `NoOtherDeadlock`, `ModestNeverStuck`,
`EveryStepProgress`). `SaidOK`: digest and pipe together hold, in order, what the child of
this file has said. `EndsOK`: a child that has left holds no end of a pipe. `TakenOK`: the
parent fetches only when it learnt of the child's ends being closed, by a refused write or by
the wait, so by then nothing more is said, and it leaves nothing in the pipe for the next file.
The deadlocks need one invariant more, `Fed`: unless a write was refused, what the child has not
yet read of what was sent is in the pipe, it waits to read only while it wants more, and while there is a child the parent
holds its own ends. So a child that waits to read while the parent waits for it has been sent the whole
file and wants more; and one that waits to write has a pipe full of what it said before it, which `SaidOK` counts.

**Termination, as far as it is safety** (`MultiProgress`, `HashProgress`, `ReaderProgress`, `WalkProgress`,
`EveryStepProgress`). That no run goes on for ever is proved for every size: each theorem names
quantities, shows that they are natural numbers in every reachable state, and that every step but
the idling of a program that has stopped makes them smaller in lexicographic order.
- `multi_digest`: the phase of the run; what is left of the input; the phase of the chunk; for each
  iteration of the parallel loop what it has left, where one falls and none grows; the sums left to finalize.
- the C programs: the same with the bytes of the text for the iterations.
- `TARFileReader`: the bytes the input and a bufferful of phantoms behind it still give. `Delivered` grows by
  a record with each one handed out, and `CountOK` bounds it, though the count it is made of has wrapped.
- `sump-tar`: where the walk is; the reader's quantity; and what is left of the member's data, which is what
  falls where the digests are fed `nullptr` past the end of the input. It needs that a loop
  over data is entered with some left (`DataOK`).
- `FFProbeDigest`: the files left, and for the file at hand a weighted sum of the bytes to send, to
  read, to say and to fetch and of the places of the two processes.

With `TeamNeverStuck` (while the parallel loop is not over, some iteration can start
or go on, with however few threads) and `ModestNeverStuck`, what these leave to fairness is
only that someone who can take a step does.

**`CompareProof`** (`StatusTellsAgreement`, `StatusMeansTwos`). `Gathered` ties `data` to the lines read so
far: every name read is there, once, and its list of sums has as many elements as there are lines
with that name, the sums of just those. A file that is read to its end adds nothing (`FileRead`), a
line adds itself (`OneMore`). At the end, status 0 is given exactly if all verdicts are "equal" (`AllClassified`, by
induction over the names), and then each name has two lines. In
files that say each name once these are one in either file, so each file says what the other does; and
files that say the same give each name just two lines. An early exit
needs a missing file, a line without a name or a wrong number of arguments (`Failed`), which comparable files rule out.

**Only model-checked**: liveness (`Terminates`, `ReaderEnds`, `ModestChildrenEnd`), which TLAPS does not
handle under fairness here. The theorems on termination above prove what of it is safety.

## 5. What is not modelled, and why

- Hash functions, and the arithmetic of XXH64's rounds: properties are about which
  bytes are hashed.
- `xxhsump`: eight lines of shell; what they do is what bash, `tee` and `xxhsum` do, none of
  which is in the repository. That the shell does not wait for the process substitution of
  line 4 is listed as a hazard.
- stdio's buffers at the `fork` of `FFProbeDigest` (`sump.h` 288), whose child would flush the
  parent's output again if ffprobe could not be executed: `FFProbe` has no output
  of the parent's, and nothing builds this digest.
- `get_hex_repr` and `format`, which are layout. `OpenSSLDigest::finalize` (`sump.h` 206-213) has
  the same `snprintf` loop as the C programs, where it is modelled.
- `isUSTAR`, which nothing calls.
- `run_diagnostic_mode` (`sump-tar.cc` 136-158), which `main` never calls, and
  XXH32 and canonical forms, which no program calls.
- Build, install, test and benchmark scripts: no behaviour of the programs.
- A short `fread` in the middle of `sump-tar`'s input, after which more bytes come: `TarReader`
  takes the first short one for the last.
- A tar header whose size field is itself cut in two by the end of the input: `TarDigest` lets the
  cut record have either of the two sizes.
- Memory never written is taken not to pass for a tar header (its checksum would
  have to hold by chance).
- An archive whose directories or unknown types carry data that passes for a
  header, or with a size that does not decode or a long name of no bytes: `TarDigest` runs it, and the
  rows properties claim nothing of it.

## 6. Plan

All of it is done.

1. `PassThru`, `MultiDigest`, and their proofs: the core of the system.
2. `RecordStream`, `TarReader`, and their proofs.
3. `TarDigest` on top of `TarReader`, its command line and signed comparison, and their
   proofs, which rest on the reader's invariant.
4. `Xxh64`, which grounds what `Digests` says of `xxh`, and its proof.
5. `TarHeader`, which grounds what `TarDigest` says of headers.
6. `Sump` and its proof.
7. `HashSump`, the second implementation of `PassThru`, and its proof.
8. `Compare` and `FFProbe`.
9. Proofs of the rows of `TarDigest`, of `TarHeader`, `FFProbe` and `Compare`.
10. Proofs of `FFProbe`'s deadlocks, of the order of the rows, of what is passed on unless something
    fails, and of termination as far as it is safety. With them each safety property a passing run
    checks is proved.
