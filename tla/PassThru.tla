----------------------------- MODULE PassThru ------------------------------
(***************************************************************************)
(* What sump promises its user: the input is handed on, a chunk at a time  *)
(* and in order, and once it has ended one checksum per requested          *)
(* algorithm is reported, of exactly the bytes that were taken.  Nothing   *)
(* is said of buffers, threads or the order in which digests are fed.      *)
(***************************************************************************)
EXTENDS Integers, Sequences, Digests

CONSTANTS
  InputLen,   \* bytes the input holds
  Chunk,      \* the most bytes handed on at once
  Algs        \* the algorithms asked for, in order

VARIABLES
  outfile,    \* whether there is anywhere to hand the input on to
  taken,      \* bytes taken from the input and offered to the output
  given,      \* the bytes the output accepted
  outputs,    \* the checksums reported, << >> until they are
  inError,    \* the input has reported an error
  outError    \* the output has refused bytes

ptvars == <<outfile, taken, given, outputs, inError, outError>>

(* What may be reported of the first n bytes, an algorithm at a time.       *)
SumsOf(n, k) == finalize(update(NewDigest(Algs[k]), Bytes(n)))

Init ==
  /\ outfile \in BOOLEAN
  /\ taken = 0
  /\ given = << >>
  /\ outputs = << >>
  /\ inError = FALSE
  /\ outError = FALSE

(* One chunk moves.  An output that fails keeps only a prefix of it.       *)
Transfer ==
  /\ outputs = << >>
  /\ \E n \in 1..Chunk, m \in 0..Chunk :
       /\ taken + n <= InputLen
       /\ m <= n
       /\ taken' = taken + n
       /\ given' = IF outfile
                   THEN given \o [i \in 1..m |-> taken + i] ELSE given
       /\ outError' = (outError \/ (outfile /\ m < n))
  /\ UNCHANGED <<outfile, outputs, inError>>

InputFails ==
  /\ outputs = << >>
  /\ inError' = TRUE
  /\ UNCHANGED <<outfile, taken, given, outputs, outError>>

(* The checksums are of what was taken: all of the input, unless it failed.*)
Report ==
  /\ outputs = << >>
  /\ taken = InputLen \/ inError
  /\ outputs' \in [1..Len(Algs) -> UNION {SumsOf(taken, k) : k \in 1..Len(Algs)}]
  /\ \A k \in 1..Len(Algs) : outputs'[k] \in SumsOf(taken, k)
  /\ UNCHANGED <<outfile, taken, given, inError, outError>>

Next == Transfer \/ InputFails \/ Report

Spec == Init /\ [][Next]_ptvars
=============================================================================
