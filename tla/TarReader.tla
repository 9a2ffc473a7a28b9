----------------------------- MODULE TarReader -----------------------------
(***************************************************************************)
(* TARFileReader of sump.h: hands out the input in records, from a buffer  *)
(* of several, and passes each buffer on to the output as it is filled.    *)
(*                                                                         *)
(* The buffer is never cleared and n_bytes is unsigned: what the code     *)
(* does once the input has ended inside a record follows from the bytes    *)
(* that are left in the buffer and from the wrap of the subtraction.       *)
(***************************************************************************)
EXTENDS Integers, Sequences, Digests

CONSTANTS
  RECORD_SIZE,    \* bytes of a record
  BUFFER_RECORDS, \* records the buffer holds
  Word,           \* values of a size_t
  MaxLen          \* the longest input considered

ASSUME RecordAssumption  == RECORD_SIZE \in Nat \ {0}
ASSUME RecordsAssumption == BUFFER_RECORDS \in Nat \ {0}
\* A size_t is wider than any offset in the buffer.
ASSUME WordAssumption    == Word \in Nat /\ Word > 2 * (BUFFER_RECORDS * RECORD_SIZE)
ASSUME LenAssumption     == MaxLen \in Nat

BUFFER_SIZE == BUFFER_RECORDS * RECORD_SIZE

VARIABLES
  inlen,    \* bytes the input holds before it ends, or fails for good
  inpos,    \* bytes taken from _if
  buffer,   \* _buffer, by positions in the input; 0 is a cell never written
  pos,     \* the next record's offset in the buffer
  n_bytes, \* the bytes the code believes are left there
  record,   \* what the last fetch_record pointed at, << >> for nullptr
  outfile,  \* _of # nullptr
  given,    \* the bytes _of accepted
  outError  \* _of's error indicator, which nothing reads

bufferVars == <<inpos, buffer, pos, n_bytes>>
sinkVars   == <<given, outError>>
readerVars == <<inlen, bufferVars, record, outfile, sinkVars>>

(* Slip: the count as a signed number.                                     *)
MinusSigned(a, b) == a - b

(* Subtraction of two size_t.                                              *)
Minus(a, b) == IF a >= b THEN a - b ELSE Word + a - b

ReaderInit ==
  /\ inlen \in 0..MaxLen
  /\ inpos = 0
  /\ buffer = [i \in 1..BUFFER_SIZE |-> 0]
  /\ pos = 0
  /\ n_bytes = 0
  /\ record = << >>
  /\ outfile \in BOOLEAN
  /\ given = << >>
  /\ outError = FALSE

(* What fread returns: as much as fits, or what is left.                   *)
Available ==
  IF inlen - inpos < BUFFER_SIZE THEN inlen - inpos ELSE BUFFER_SIZE

Filled(n) == [i \in 1..BUFFER_SIZE |-> IF i <= n THEN inpos + i ELSE buffer[i]]

(* A definition marked "Slip" is one a later change could make of the      *)
(* operator it comes before; nothing uses it.                              *)

(* Slip: the whole buffer is passed on, whatever fread returned.           *)
PassOnWhole(n) ==
  \/ /\ outfile
     /\ given' = given \o Filled(n)
     /\ UNCHANGED outError
  \/ /\ ~outfile
     /\ UNCHANGED sinkVars

(* Slip: a rest shorter than a record counts as none.                      *)
MustFillShort == n_bytes < RECORD_SIZE \/ pos = BUFFER_SIZE

(* fwrite gets the n bytes just read, and its result is not looked at.     *)
PassOn(n) ==
  \/ /\ outfile
     /\ \E m \in 0..n :
          /\ given' = given \o SubSeq(Filled(n), 1, m)
          /\ outError' = (outError \/ m < n)
  \/ /\ ~outfile
     /\ UNCHANGED sinkVars

MustFill == n_bytes = 0 \/ pos = BUFFER_SIZE

(* Slip: the count is checked before the fill only, not after it.          *)
FetchUnchecked ==
  LET n == Available IN
  /\ inpos' = inpos + n
  /\ buffer' = Filled(n)
  /\ PassOn(n)
  /\ n_bytes' = Minus(n, RECORD_SIZE)
  /\ pos' = RECORD_SIZE
  /\ record' = [i \in 1..RECORD_SIZE |-> Filled(n)[i]]

(* fetch_record with an empty buffer: fill_buffer, and the first record of *)
(* what it brought, or nullptr.                                            *)
FetchFilling ==
  LET n == Available IN
  /\ inpos' = inpos + n
  /\ buffer' = Filled(n)
  /\ PassOn(n)
  /\ n_bytes' = IF n = 0 THEN 0 ELSE Minus(n, RECORD_SIZE)
  /\ pos' = IF n = 0 THEN 0 ELSE RECORD_SIZE
  /\ record' = IF n = 0 THEN << >> ELSE [i \in 1..RECORD_SIZE |-> Filled(n)[i]]

(* fetch_record from what the buffer holds.                                *)
FetchBuffered ==
  /\ record' = [i \in 1..RECORD_SIZE |-> buffer[pos + i]]
  /\ n_bytes' = Minus(n_bytes, RECORD_SIZE)
  /\ pos' = pos + RECORD_SIZE
  /\ UNCHANGED <<inpos, buffer, sinkVars>>

fetch_record ==
  /\ \/ MustFill /\ FetchFilling
     \/ ~MustFill /\ FetchBuffered
  /\ UNCHANGED <<inlen, outfile>>

ReaderNext == fetch_record

ReaderSpec == ReaderInit /\ [][ReaderNext]_readerVars

(* The caller keeps calling until it is given no record.                   *)
FairReaderSpec == ReaderSpec /\ WF_readerVars(ReaderNext)

-----------------------------------------------------------------------------

ReaderTypeOK ==
  /\ inlen \in 0..MaxLen
  /\ inpos \in 0..inlen
  /\ buffer \in [1..BUFFER_SIZE -> 0..inlen]
  /\ pos \in 0..BUFFER_SIZE
  /\ n_bytes \in 0..(Word - 1)
  /\ record = << >> \/ record \in [1..RECORD_SIZE -> 0..inlen]
  /\ outfile \in BOOLEAN
  /\ given \in Seq(1..inlen)
  /\ outError \in BOOLEAN

(* Bytes handed out: the count, or past the input's end what it wrapped by.*)
Delivered ==
  IF n_bytes <= BUFFER_SIZE THEN inpos - n_bytes ELSE inpos + Word - n_bytes

(* The output is given the input itself, in order and without a gap, until *)
(* it refuses bytes; and no record is handed out of bytes the output has   *)
(* not been given (fill_buffer, sump.h lines 675-681).                     *)
PassedBeforeDelivered ==
  outfile /\ ~outError =>
    /\ given = Bytes(inpos)
    /\ \A i \in 1..Len(record) : record[i] <= Len(given)

RS == INSTANCE RecordStream WITH off <- Delivered

(* Buffer, refills and the wrapping count implement the stream of records. *)
RefinesRecordStream == RS!Spec

(* fetch_record always comes to return nullptr, on cut inputs too, where   *)
(* the count has wrapped and never reaches 0 (sump.h lines 701-709).       *)
ReaderEnds == <>(inpos = inlen /\ record = << >>)
=============================================================================
