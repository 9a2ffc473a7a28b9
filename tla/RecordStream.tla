---------------------------- MODULE RecordStream ----------------------------
(***************************************************************************)
(* What TARFileReader promises the code that calls fetch_record: the input *)
(* comes in records of RECORD_SIZE bytes, in order, each once, and then no *)
(* record.  An input cut inside a record is no tar archive; of such a one  *)
(* the cut record is delivered with something in place of what is missing, *)
(* and after it at most BUFFER_SIZE bytes of records that mean nothing.    *)
(***************************************************************************)
EXTENDS Integers

CONSTANTS
  RECORD_SIZE,
  BUFFER_SIZE

VARIABLES
  inlen,   \* bytes the input holds
  off,     \* bytes delivered
  record   \* the record last delivered, << >> for none

rsvars == <<inlen, off, record>>

\* A record's bytes are positions in the input; 0 is a byte of no input.
Records == [1..RECORD_SIZE -> 0..inlen]

Init ==
  /\ inlen \in Nat
  /\ off = 0
  /\ record = << >>

Deliver ==
  /\ off + RECORD_SIZE <= inlen
  /\ off' = off + RECORD_SIZE
  /\ record' = [i \in 1..RECORD_SIZE |-> off + i]
  /\ UNCHANGED inlen

DeliverCut ==
  /\ off < inlen
  /\ inlen < off + RECORD_SIZE
  /\ off' = off + RECORD_SIZE
  /\ record' \in Records
  /\ \A i \in 1..(inlen - off) : record'[i] = off + i
  /\ UNCHANGED inlen

DeliverPhantom ==
  /\ inlen < off
  /\ off + RECORD_SIZE <= inlen + BUFFER_SIZE
  /\ off' = off + RECORD_SIZE
  /\ record' \in Records
  /\ UNCHANGED inlen

End ==
  /\ inlen <= off
  /\ off' = inlen
  /\ record' = << >>
  /\ UNCHANGED inlen

Next == Deliver \/ DeliverCut \/ DeliverPhantom \/ End

Spec == Init /\ [][Next]_rsvars
=============================================================================
