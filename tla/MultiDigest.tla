---------------------------- MODULE MultiDigest ----------------------------
(***************************************************************************)
(* multi_digest of sump.cc: read a chunk into one buffer, pass it on, let  *)
(* every digest absorb it, all of them in parallel when there are several, *)
(* and read the next chunk into the same buffer.                           *)
(*                                                                         *)
(* The iterations of the `omp parallel for` are the concurrent processes:  *)
(* the OpenMP runtime hands each iteration to one of its threads, in an    *)
(* order nothing fixes, and the loop ends with an implicit barrier.  An    *)
(* iteration reads the shared buffer a byte at a time.                     *)
(***************************************************************************)
EXTENDS Integers, Sequences, FiniteSets, Digests

CONSTANTS
  BUFFER_SIZE,  \* bytes the buffer holds
  InputLen,     \* bytes the input holds
  Algs,         \* the algorithms asked for, in order
  Threads       \* threads of the OpenMP team

ASSUME BufferAssumption == BUFFER_SIZE \in Nat \ {0}
ASSUME InputAssumption  == InputLen \in Nat
\* main adds the default digest when none is asked for.
ASSUME AlgsAssumption   == Algs \in Seq(STRING) /\ Len(Algs) > 0
ASSUME TeamAssumption   == Threads \in Nat \ {0}

VARIABLES
  pc,        \* where the main thread is
  pos,       \* bytes taken from infile
  inError,   \* infile's error indicator, which nothing reads
  buffer,    \* the shared buffer; 0 is a cell never written
  count,     \* what the last fread returned
  outfile,   \* outfile # nullptr, which main settled before
  given,     \* the bytes outfile accepted
  outError,  \* outfile's error indicator, which nothing reads
  digests,   \* the digest objects
  iter,      \* per digest, its iteration of the parallel loop
  idx,       \* per digest, the bytes of the chunk it has absorbed
  outputs    \* the checksums finalize returned so far

vars == <<pc, pos, inError, buffer, count, outfile, given, outError,
          digests, iter, idx, outputs>>

inputVars  == <<pos, inError, buffer, count>>
outputVars == <<outfile, given, outError>>
loopVars   == <<digests, iter, idx>>

Lanes == 1..Len(Algs)

Running == {k \in Lanes : iter[k] = "running"}

Init ==
  /\ pc = "read"
  /\ pos = 0
  /\ inError = FALSE
  /\ buffer = [i \in 1..BUFFER_SIZE |-> 0]
  /\ count = 0
  /\ outfile \in BOOLEAN
  /\ given = << >>
  /\ outError = FALSE
  /\ digests = [k \in Lanes |-> NewDigest(Algs[k])]
  /\ iter = [k \in Lanes |-> "waiting"]
  /\ idx = [k \in Lanes |-> 0]
  /\ outputs = << >>

(* fread yields n bytes at the start of the buffer: as many as fit, unless *)
(* the input ends or fails first, which sets its error indicator.          *)
fread(n) ==
  /\ n <= InputLen - pos
  /\ inError' = (inError \/ (n < BUFFER_SIZE /\ n < InputLen - pos))
  /\ pos' = pos + n
  /\ buffer' = [i \in 1..BUFFER_SIZE |-> IF i <= n THEN pos + i ELSE buffer[i]]

(***************************************************************************)
(* Slips a later change could make, each the mutant of the operator whose  *)
(* name it extends; nothing below uses them.                               *)
(***************************************************************************)
(* The chunk is taken to fill the buffer, whatever fread returned.         *)
ReadIgnoringCount ==
  /\ pc = "read"
  /\ \E n \in 0..BUFFER_SIZE :
       /\ fread(n)
       /\ count' = BUFFER_SIZE
       /\ pc' = IF n > 0 THEN "write" ELSE "finalize"
  /\ UNCHANGED <<outputVars, loopVars, outputs>>

(* A short read is taken for the end of the input.                         *)
ReadStoppingShort ==
  /\ pc = "read"
  /\ \E n \in 0..BUFFER_SIZE :
       /\ fread(n)
       /\ count' = n
       /\ pc' = IF n = BUFFER_SIZE THEN "write" ELSE "finalize"
  /\ UNCHANGED <<outputVars, loopVars, outputs>>

(* The empty read is handed on like any other: `>= 0` for `> 0`.           *)
ReadForEver ==
  /\ pc = "read"
  /\ \E n \in 0..BUFFER_SIZE :
       /\ fread(n)
       /\ count' = n
       /\ pc' = "write"
  /\ UNCHANGED <<outputVars, loopVars, outputs>>

(* The whole buffer is written, not the count bytes that were read.        *)
WriteChunkWhole(m) ==
  /\ given' = given \o (IF m = count THEN buffer ELSE SubSeq(buffer, 1, m))
  /\ outError' = (outError \/ m < count)
  /\ pc' = "update"
  /\ iter' = [k \in Lanes |-> "waiting"]
  /\ idx' = [k \in Lanes |-> 0]
  /\ UNCHANGED <<inputVars, outfile, digests, outputs>>

(* `nowait` on the loop: the main thread leaves it with its own iteration. *)
BarrierNoWait ==
  /\ pc = "update"
  /\ \E k \in Lanes : iter[k] = "done"
  /\ pc' = "read"
  /\ UNCHANGED <<inputVars, outputVars, loopVars, outputs>>

(* Read the next chunk. The loop only sees the count, and ends when it is  *)
(* 0, whatever the reason.                                                 *)
Read ==
  /\ pc = "read"
  /\ \E n \in 0..BUFFER_SIZE :
       /\ fread(n)
       /\ count' = n
       /\ pc' = IF n > 0 THEN "write" ELSE "finalize"
  /\ UNCHANGED <<outputVars, loopVars, outputs>>

(* The first m bytes of the chunk reach outfile, then the parallel loop is *)
(* entered.  fwrite's result is not looked at.                             *)
WriteChunk(m) ==
  /\ given' = given \o SubSeq(buffer, 1, m)
  /\ outError' = (outError \/ m < count)
  /\ pc' = "update"
  /\ iter' = [k \in Lanes |-> "waiting"]
  /\ idx' = [k \in Lanes |-> 0]
  /\ UNCHANGED <<inputVars, outfile, digests, outputs>>

Write ==
  /\ pc = "write"
  /\ outfile
  /\ \E m \in 0..count : WriteChunk(m)

SkipWrite ==
  /\ pc = "write"
  /\ ~outfile
  /\ pc' = "update"
  /\ iter' = [k \in Lanes |-> "waiting"]
  /\ idx' = [k \in Lanes |-> 0]
  /\ UNCHANGED <<inputVars, outputVars, digests, outputs>>

(* The reader of the pipe outfile is goes away before it has taken the     *)
(* whole chunk: SIGPIPE, which sump leaves to its default, ends the        *)
(* process.                                                                *)
BrokenPipe ==
  /\ pc = "write"
  /\ outfile
  /\ \E m \in 0..(count - 1) : given' = given \o SubSeq(buffer, 1, m)
  /\ outError' = TRUE
  /\ pc' = "killed"
  /\ UNCHANGED <<inputVars, outfile, loopVars, outputs>>

(* A thread of the team takes up iteration k.                              *)
StartIteration(k) ==
  /\ pc = "update"
  /\ iter[k] = "waiting"
  /\ Cardinality(Running) < Threads
  /\ iter' = [iter EXCEPT ![k] = "running"]
  /\ UNCHANGED <<pc, inputVars, outputVars, digests, idx, outputs>>

(* digests[k].update reads one more byte of the shared buffer.             *)
UpdateByte(k) ==
  /\ iter[k] = "running"
  /\ idx[k] < count
  /\ digests' = [digests EXCEPT ![k] = update(@, <<buffer[idx[k] + 1]>>)]
  /\ idx' = [idx EXCEPT ![k] = @ + 1]
  /\ UNCHANGED <<pc, inputVars, outputVars, iter, outputs>>

EndIteration(k) ==
  /\ iter[k] = "running"
  /\ idx[k] = count
  /\ iter' = [iter EXCEPT ![k] = "done"]
  /\ UNCHANGED <<pc, inputVars, outputVars, digests, idx, outputs>>

(* The implicit barrier that ends the parallel loop.                       *)
Barrier ==
  /\ pc = "update"
  /\ \A k \in Lanes : iter[k] = "done"
  /\ pc' = "read"
  /\ UNCHANGED <<inputVars, outputVars, loopVars, outputs>>

(* The finalize loop, one digest at a time, in order.                      *)
Finalize ==
  /\ pc = "finalize"
  /\ \E s \in finalize(digests[Len(outputs) + 1]) :
       outputs' = Append(outputs, s)
  /\ pc' = IF Len(outputs) + 1 = Len(Algs) THEN "done" ELSE "finalize"
  /\ UNCHANGED <<inputVars, outputVars, loopVars>>

Stopped ==
  /\ pc \in {"done", "killed"}
  /\ UNCHANGED vars

Next ==
  \/ Read \/ Write \/ SkipWrite \/ BrokenPipe
  \/ \E k \in Lanes : StartIteration(k) \/ UpdateByte(k) \/ EndIteration(k)
  \/ Barrier \/ Finalize \/ Stopped

Spec == Init /\ [][Next]_vars

(* The operating system runs every runnable thread, and the input is       *)
(* expected to yield bytes, end or fail.                                   *)
Fairness ==
  /\ WF_vars(Read) /\ WF_vars(Write \/ SkipWrite) /\ WF_vars(Barrier)
  /\ WF_vars(Finalize)
  /\ \A k \in Lanes :
       WF_vars(StartIteration(k) \/ UpdateByte(k) \/ EndIteration(k))

FairSpec == Spec /\ Fairness

-----------------------------------------------------------------------------

TypeOK ==
  /\ pc \in {"read", "write", "update", "finalize", "done", "killed"}
  /\ pos \in 0..InputLen
  /\ inError \in BOOLEAN
  /\ buffer \in [1..BUFFER_SIZE -> 0..InputLen]
  /\ count \in 0..BUFFER_SIZE
  /\ outfile \in BOOLEAN
  /\ given \in Seq(1..InputLen)
  /\ outError \in BOOLEAN
  /\ digests \in [Lanes -> DigestObjects(1..InputLen)]
  /\ iter \in [Lanes -> {"waiting", "running", "done"}]
  /\ idx \in [Lanes -> 0..BUFFER_SIZE]
  /\ outputs \in Seq(Checksums)

(* Threads interleave freely, and yet at every moment each digest has      *)
(* absorbed a gapless prefix of the input, each byte once, and no digest   *)
(* is ahead of or behind another by more than the chunk in hand            *)
(* (the update loop, sump.cc lines 33-40).                                 *)
DigestsInStep ==
  \A k \in Lanes :
    /\ digests[k].seen = Bytes(Len(digests[k].seen))
    /\ Len(digests[k].seen) \in (pos - count)..pos

(* fread never writes a cell of the chunk in hand that an iteration has    *)
(* yet to read: the barrier separates the readers from the writer          *)
(* (sump.cc lines 29 and 34-37).                                           *)
NoReaderOverrun ==
  [][ \A i \in 1..BUFFER_SIZE :
        i <= count /\ buffer'[i] # buffer[i] =>
          \A k \in Lanes : i <= idx[k] ]_vars

(* A run that ends in a report reports, for every algorithm that hashes or *)
(* counts with an initialised state, the checksum of exactly the bytes     *)
(* taken from the input, in the order the algorithms were asked for; and   *)
(* it took all of them unless the input failed (sump.cc lines 22-48).      *)
SumsOfInput ==
  pc = "done" =>
    /\ pos = InputLen \/ inError
    /\ \A k \in Lanes :
         build_digest(Algs[k]) \in OpenSSLNames \cup {"count"} =>
           outputs[k] = Checksum(build_digest(Algs[k]), Bytes(pos))

(* The same of xxh, sump's default digest: xxhash.h line 187 has a hash    *)
(* started by XXH64_reset, which nothing calls on the way to line 36.      *)
XxhSumsOfInput ==
  pc = "done" =>
    \A k \in Lanes :
      build_digest(Algs[k]) = "xxh" =>
        outputs[k] = Checksum("xxh", Bytes(pos))

(* README.md line 7 has sump pass its input on to its output: a run that   *)
(* ends, with exit status 0, has passed on all of the input (fread and     *)
(* fwrite, sump.cc lines 29 and 31).                                       *)
PassedOnWhenDone ==
  pc = "done" /\ outfile => given = Bytes(InputLen)

(* Seen from outside, a chunk is taken when it is offered to the output,   *)
(* and the sums appear at once, when the last has been computed.  Threads, *)
(* buffer and the feeding of the digests do not show.                      *)
PT == INSTANCE PassThru WITH
        Chunk   <- BUFFER_SIZE,
        taken   <- IF pc = "write" THEN pos - count ELSE pos,
        outputs <- IF pc = "done" THEN outputs ELSE << >>

(* multi_digest implements the pass-through specification.                 *)
RefinesPassThru == PT!Spec

(* The program ends: with its sums, or killed by a broken pipe.            *)
Terminates == <>(pc \in {"done", "killed"})
=============================================================================
