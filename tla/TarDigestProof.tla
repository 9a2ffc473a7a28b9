--------------------------- MODULE TarDigestProof ---------------------------
(***************************************************************************)
(* Proofs about TarReader, for every record size, buffer size, word width  *)
(* and input length; and about TarDigest, for all archives, command lines  *)
(* and cuts too, which rest on the invariant of the reader: each action of *)
(* sump-tar that fetches a record contains fetch_record whole.             *)
(***************************************************************************)
EXTENDS TarDigest, SequenceTheorems, WellFoundedInduction, TLAPS

(***************************************************************************)
(* The reader.                                                             *)
(***************************************************************************)
(* The next record begins at a whole number of records into the buffer.    *)
AlignedOK == \E k \in 0..BUFFER_RECORDS : pos = k * RECORD_SIZE

(* The count tells what is left in the buffer, or by how much the records  *)
(* handed out have passed the end of the input.  Only the input's end      *)
(* leaves a buffer that was not filled to its end.                         *)
CountOK ==
  /\ inpos = inlen \/ n_bytes + pos = BUFFER_SIZE \/ (n_bytes = 0 /\ pos = 0)
  /\ n_bytes <= BUFFER_SIZE => n_bytes + pos <= BUFFER_SIZE /\ n_bytes <= inpos
  /\ n_bytes > BUFFER_SIZE => inpos = inlen /\ Word - n_bytes < pos

(* What is left of the input's bytes in the buffer is where it should be,  *)
(* and no byte is there that was not taken from the input.                 *)
WindowOK ==
  /\ \A i \in 1..(BUFFER_SIZE - pos) :
       Delivered + i <= inpos => buffer[pos + i] = Delivered + i
  /\ \A i \in 1..BUFFER_SIZE : buffer[i] <= inpos
  /\ \A i \in 1..Len(record) : record[i] <= inpos

GivenOK == outfile /\ ~outError => given = Bytes(inpos)

IInv == ReaderTypeOK /\ AlignedOK /\ CountOK /\ WindowOK /\ GivenOK

-----------------------------------------------------------------------------
LEMMA Sizes ==
  /\ RECORD_SIZE \in Nat /\ RECORD_SIZE > 0
  /\ BUFFER_SIZE \in Nat /\ RECORD_SIZE <= BUFFER_SIZE
  /\ Word \in Nat /\ Word > 2 * BUFFER_SIZE
<1>1. RECORD_SIZE \in Nat /\ RECORD_SIZE > 0 /\ BUFFER_RECORDS \in Nat /\ BUFFER_RECORDS > 0
  BY RecordAssumption, RecordsAssumption
<1>2. BUFFER_SIZE \in Nat /\ BUFFER_SIZE = (BUFFER_RECORDS - 1) * RECORD_SIZE + RECORD_SIZE
  BY <1>1 DEF BUFFER_SIZE
<1>3. (BUFFER_RECORDS - 1) * RECORD_SIZE \in Nat
  BY <1>1
<1> QED
  BY <1>1, <1>2, <1>3, WordAssumption DEF BUFFER_SIZE

(* A record that begins inside the buffer ends inside it.                  *)
LEMMA RecordFits ==
  ASSUME AlignedOK, pos # BUFFER_SIZE
  PROVE  /\ pos \in Nat
         /\ pos + RECORD_SIZE <= BUFFER_SIZE
         /\ \E k \in 0..BUFFER_RECORDS : pos + RECORD_SIZE = k * RECORD_SIZE
<1>1. PICK k \in 0..BUFFER_RECORDS : pos = k * RECORD_SIZE
  BY DEF AlignedOK
<1>2. RECORD_SIZE \in Nat /\ BUFFER_RECORDS \in Nat /\ k \in Nat
  BY RecordAssumption, RecordsAssumption
<1>3. k # BUFFER_RECORDS
  BY <1>1 DEF BUFFER_SIZE
<1>4. k + 1 \in 0..BUFFER_RECORDS /\ pos + RECORD_SIZE = (k + 1) * RECORD_SIZE
  BY <1>1, <1>2, <1>3
<1>5. BUFFER_SIZE = (BUFFER_RECORDS - (k + 1)) * RECORD_SIZE + (k + 1) * RECORD_SIZE
  BY <1>2 DEF BUFFER_SIZE
<1>6. (BUFFER_RECORDS - (k + 1)) * RECORD_SIZE \in Nat
  BY <1>2, <1>4
<1>7. pos \in Nat /\ (k + 1) * RECORD_SIZE \in Nat
  BY <1>1, <1>2
<1>8. pos + RECORD_SIZE <= BUFFER_SIZE
  <2> DEFINE a == (k + 1) * RECORD_SIZE
             c == (BUFFER_RECORDS - (k + 1)) * RECORD_SIZE
  <2>1. a \in Nat /\ c \in Nat /\ BUFFER_SIZE = c + a /\ pos + RECORD_SIZE = a
    BY <1>4, <1>5, <1>6, <1>7
  <2> HIDE DEF a, c
  <2> QED
    BY <2>1
<1> QED
  BY <1>4, <1>7, <1>8

(* Passing the first n bytes of the input on, or some of them.             *)
LEMMA BytesConcat ==
  ASSUME NEW a \in Nat, NEW n \in Nat
  PROVE  Bytes(a) \o [i \in 1..n |-> a + i] = Bytes(a + n)
<1> DEFINE t == [i \in 1..n |-> a + i]
           b == Bytes(a) \o t
<1>1. Bytes(a) \in Seq(Nat) /\ Len(Bytes(a)) = a /\ \A i \in 1..a : Bytes(a)[i] = i
  BY DEF Bytes
<1>2. t \in Seq(Nat) /\ Len(t) = n /\ \A i \in 1..n : t[i] = a + i
  OBVIOUS
<1>3. Bytes(a + n) \in Seq(Nat) /\ Len(Bytes(a + n)) = a + n
      /\ \A i \in 1..(a + n) : Bytes(a + n)[i] = i
  BY DEF Bytes
<1> HIDE DEF t
<1>4. b \in Seq(Nat) /\ Len(b) = a + n
      /\ \A i \in 1..(a + n) : b[i] = IF i <= a THEN Bytes(a)[i] ELSE t[i - a]
  BY <1>1, <1>2, ConcatProperties
<1>5. \A i \in 1..(a + n) : b[i] = i
  BY <1>1, <1>2, <1>4
<1> HIDE DEF b
<1>6. b = Bytes(a + n)
  BY <1>3, <1>4, <1>5, SeqEqual
<1> QED
  BY <1>6 DEF b, t

(* What a fill brings: up to a bufferful, less only at the input's end.    *)
LEMMA AvailableFacts ==
  ASSUME ReaderTypeOK
  PROVE  /\ Available \in 0..BUFFER_SIZE
         /\ inpos + Available <= inlen
         /\ Available = BUFFER_SIZE \/ inpos + Available = inlen
         /\ inpos \in Nat /\ inlen \in Nat
  BY Sizes, LenAssumption DEF ReaderTypeOK, Available

(* The first m bytes of a fill are the next m of the input.                *)
LEMMA FilledFacts ==
  ASSUME ReaderTypeOK, NEW m \in 0..Available
  PROVE  /\ SubSeq(Filled(Available), 1, m) = [i \in 1..m |-> inpos + i]
         /\ given \o SubSeq(Filled(Available), 1, m) \in Seq(1..inlen)
<1> DEFINE n == Available
<1>1. /\ n \in 0..BUFFER_SIZE /\ inpos + n <= inlen /\ inpos \in Nat /\ inlen \in Nat
      /\ n \in Nat /\ BUFFER_SIZE \in Nat
  BY AvailableFacts, Sizes
<1>2. Filled(n) \in [1..BUFFER_SIZE -> 0..inlen]
  BY <1>1 DEF Filled, ReaderTypeOK
<1>3. Filled(n) \in Seq(0..inlen) /\ Len(Filled(n)) = BUFFER_SIZE
  <2>1. Seq(0..inlen) = UNION {[1..k -> 0..inlen] : k \in Nat}
    BY SeqDef
  <2>2. Filled(n) \in Seq(0..inlen)
    BY <1>1, <1>2, <2>1
  <2>3. DOMAIN Filled(n) = 1..BUFFER_SIZE /\ DOMAIN Filled(n) = 1..Len(Filled(n))
        /\ Len(Filled(n)) \in Nat
    BY <1>2, <2>2, LenProperties
  <2> QED
    BY <1>1, <2>2, <2>3
<1>4. m \in Nat /\ m <= BUFFER_SIZE /\ m <= n
  BY <1>1
<1>5. /\ SubSeq(Filled(n), 1, m) \in Seq(0..inlen)
      /\ Len(SubSeq(Filled(n), 1, m)) = m
      /\ \A i \in 1..m : SubSeq(Filled(n), 1, m)[i] = Filled(n)[i]
  BY <1>1, <1>3, <1>4, SubSeqProperties
<1>6. \A i \in 1..m : Filled(n)[i] = inpos + i
  BY <1>1, <1>4 DEF Filled
<1>7. [i \in 1..m |-> inpos + i] \in Seq(1..inlen)
  BY <1>1, <1>4
<1>8. SubSeq(Filled(n), 1, m) = [i \in 1..m |-> inpos + i]
  <2>1. [i \in 1..m |-> inpos + i] \in Seq(0..inlen)
        /\ Len([i \in 1..m |-> inpos + i]) = m
    BY <1>1, <1>4
  <2> QED
    BY <1>5, <1>6, <2>1, SeqEqual
<1>9. given \in Seq(1..inlen)
  BY DEF ReaderTypeOK
<1> QED
  BY <1>7, <1>8, <1>9, ConcatProperties

(* What the output is given of a fill.                                     *)
LEMMA PassOnInv ==
  ASSUME IInv, PassOn(Available), inpos' = inpos + Available, UNCHANGED <<inlen, outfile>>
  PROVE  /\ given' \in Seq(1..inlen')
         /\ outError' \in BOOLEAN
         /\ GivenOK'
<1> DEFINE n == Available
<1>1. n \in Nat /\ inpos \in Nat
  BY AvailableFacts, Sizes DEF IInv
<1>2. given \in Seq(1..inlen) /\ outError \in BOOLEAN /\ outfile \in BOOLEAN
  BY DEF IInv, ReaderTypeOK
<1>3. CASE outfile
  <2>1. PICK m \in 0..n :
          /\ given' = given \o SubSeq(Filled(n), 1, m)
          /\ outError' = (outError \/ m < n)
    BY <1>3 DEF PassOn
  <2>2. /\ SubSeq(Filled(n), 1, m) = [i \in 1..m |-> inpos + i]
        /\ given' \in Seq(1..inlen')
    BY <2>1, FilledFacts DEF IInv
  <2>3. outError' \in BOOLEAN
    BY <2>1
  <2>4. GivenOK'
    <3> SUFFICES ASSUME outfile', ~outError' PROVE given' = Bytes(inpos')
      BY DEF GivenOK
    <3>1. ~outError /\ ~(m < n)
      BY <2>1
    <3>2. m = n
      BY <1>1, <2>1, <3>1
    <3>3. given = Bytes(inpos)
      BY <1>3, <3>1 DEF IInv, GivenOK
    <3>4. given' = Bytes(inpos) \o [i \in 1..n |-> inpos + i]
      BY <2>1, <2>2, <3>2, <3>3
    <3> QED
      BY <1>1, <3>4, BytesConcat
  <2> QED
    BY <2>2, <2>3, <2>4
<1>4. CASE ~outfile
  BY <1>2, <1>4 DEF PassOn, sinkVars, GivenOK
<1> QED
  BY <1>3, <1>4

-----------------------------------------------------------------------------
LEMMA InitInv == ReaderInit => IInv
<1> SUFFICES ASSUME ReaderInit PROVE IInv
  OBVIOUS
<1>1. inlen \in Nat /\ inpos = 0 /\ pos = 0 /\ n_bytes = 0 /\ record = << >>
  BY LenAssumption DEF ReaderInit
<1>2. ReaderTypeOK
  <2>1. buffer \in [1..BUFFER_SIZE -> 0..inlen]
    BY <1>1 DEF ReaderInit
  <2>2. given \in Seq(1..inlen)
    BY DEF ReaderInit
  <2>3. outError \in BOOLEAN /\ outfile \in BOOLEAN
    BY DEF ReaderInit
  <2> QED
    BY <1>1, <2>1, <2>2, <2>3, Sizes DEF ReaderInit, ReaderTypeOK
<1>3. AlignedOK
  <2>1. 0 \in 0..BUFFER_RECORDS /\ 0 = 0 * RECORD_SIZE
    BY RecordAssumption, RecordsAssumption
  <2> QED
    BY <1>1, <2>1 DEF AlignedOK
<1>4. CountOK
  BY <1>1, Sizes DEF CountOK
<1>5. WindowOK
  <2>1. Delivered = 0
    BY <1>1, Sizes DEF Delivered
  <2>2. \A i \in 1..BUFFER_SIZE : buffer[i] = 0
    BY DEF ReaderInit
  <2> QED
    BY <1>1, <2>1, <2>2, Sizes DEF WindowOK
<1>6. GivenOK
  BY <1>1 DEF GivenOK, ReaderInit, Bytes
<1> QED
  BY <1>2, <1>3, <1>4, <1>5, <1>6 DEF IInv

(* What a call does to the count, and to the bytes handed out: the three   *)
(* ways a record can lie with respect to the input's end, and no record.   *)
LEMMA BufferedCount ==
  ASSUME IInv, ~MustFill, FetchBuffered, inlen' = inlen
  PROVE  /\ CountOK'
         /\ n_bytes' \in 0..(Word - 1)
         /\ Delivered' = Delivered + RECORD_SIZE
         /\ Delivered \in Nat
         /\ \/ Delivered + RECORD_SIZE <= inpos
            \/ inpos = inlen /\ Delivered < inlen /\ inlen < Delivered + RECORD_SIZE
            \/ inpos = inlen /\ inlen < Delivered
               /\ Delivered + RECORD_SIZE <= inlen + BUFFER_SIZE
<1> USE Sizes
<1>1. /\ n_bytes # 0 /\ pos # BUFFER_SIZE /\ pos \in Nat
      /\ pos + RECORD_SIZE <= BUFFER_SIZE
      /\ pos' = pos + RECORD_SIZE /\ inpos' = inpos
      /\ n_bytes' = Minus(n_bytes, RECORD_SIZE)
  BY RecordFits DEF IInv, MustFill, FetchBuffered
<1>2. n_bytes \in 0..(Word - 1) /\ inpos \in Nat /\ inlen \in Nat /\ inpos <= inlen
  BY LenAssumption DEF IInv, ReaderTypeOK
<1>3. CountOK
  BY DEF IInv
<1>4. CASE n_bytes <= BUFFER_SIZE /\ RECORD_SIZE <= n_bytes
  <2>1. n_bytes' = n_bytes - RECORD_SIZE /\ n_bytes' <= BUFFER_SIZE
    BY <1>1, <1>2, <1>4 DEF Minus
  <2>2. Delivered = inpos - n_bytes
    BY <1>4 DEF Delivered
  <2> QED
    BY <1>1, <1>2, <1>3, <1>4, <2>1, <2>2 DEF CountOK, Delivered
<1>5. CASE n_bytes <= BUFFER_SIZE /\ n_bytes < RECORD_SIZE
  <2>1. n_bytes' = Word + n_bytes - RECORD_SIZE /\ n_bytes' > BUFFER_SIZE
    BY <1>1, <1>2, <1>5 DEF Minus
  <2>2. Delivered = inpos - n_bytes
    BY <1>5 DEF Delivered
  <2>3. inpos = inlen
    BY <1>1, <1>2, <1>3, <1>5 DEF CountOK
  <2> QED
    BY <1>1, <1>2, <1>3, <1>5, <2>1, <2>2, <2>3 DEF CountOK, Delivered
<1>6. CASE n_bytes > BUFFER_SIZE
  <2>1. inpos = inlen /\ Word - n_bytes < pos
    BY <1>3, <1>6 DEF CountOK
  <2>2. n_bytes' = n_bytes - RECORD_SIZE /\ n_bytes' > BUFFER_SIZE
    BY <1>1, <1>2, <1>6, <2>1 DEF Minus
  <2>3. Delivered = inpos + Word - n_bytes
    BY <1>2, <1>6 DEF Delivered
  <2> QED
    BY <1>1, <1>2, <1>3, <1>6, <2>1, <2>2, <2>3 DEF CountOK, Delivered
<1> QED
  BY <1>2, <1>4, <1>5, <1>6

LEMMA FillingCount ==
  ASSUME IInv, MustFill, FetchFilling, inlen' = inlen
  PROVE  /\ CountOK'
         /\ n_bytes' \in 0..(Word - 1)
         /\ \/ /\ Available = 0 /\ inpos' = inlen /\ inlen <= Delivered
               /\ Delivered' = inlen
            \/ /\ Available > 0 /\ Delivered = inpos
               /\ Delivered' = Delivered + RECORD_SIZE
               /\ RECORD_SIZE <= Available \/ inpos' = inlen
<1> USE Sizes
<1> DEFINE n == Available
<1>1. /\ n \in 0..BUFFER_SIZE /\ inpos + n <= inlen /\ (n = BUFFER_SIZE \/ inpos + n = inlen)
      /\ inpos \in Nat /\ inlen \in Nat
  BY AvailableFacts DEF IInv
<1>2. /\ inpos' = inpos + n
      /\ n_bytes' = IF n = 0 THEN 0 ELSE Minus(n, RECORD_SIZE)
      /\ pos' = IF n = 0 THEN 0 ELSE RECORD_SIZE
  BY DEF FetchFilling
<1>3. n_bytes \in 0..(Word - 1) /\ pos \in 0..BUFFER_SIZE
  BY DEF IInv, ReaderTypeOK
<1>4. CountOK /\ (n_bytes = 0 \/ pos = BUFFER_SIZE)
  BY DEF IInv, MustFill
<1> HIDE DEF n
<1>5. CASE n = 0
  <2>1. inpos = inlen
    BY <1>1, <1>5
  <2>2. inlen <= Delivered
    BY <1>1, <1>3, <1>4, <2>1 DEF CountOK, Delivered
  <2>3. CountOK' /\ Delivered' = inlen /\ n_bytes' = 0
    BY <1>1, <1>2, <1>5, <2>1 DEF CountOK, Delivered
  <2> QED
    BY <1>1, <1>2, <1>5, <2>1, <2>2, <2>3 DEF n
<1>6. CASE n > 0
  <2>1. n_bytes = 0 /\ Delivered = inpos
    BY <1>1, <1>3, <1>4, <1>6 DEF CountOK, Delivered
  <2>2. CASE RECORD_SIZE <= n
    <3>1. n_bytes' = n - RECORD_SIZE
      BY <1>1, <1>2, <1>6, <2>2 DEF Minus
    <3> QED
      BY <1>1, <1>2, <1>6, <2>1, <2>2, <3>1 DEF CountOK, Delivered, n
  <2>3. CASE n < RECORD_SIZE
    <3>1. n_bytes' = Word + n - RECORD_SIZE /\ n_bytes' > BUFFER_SIZE
      BY <1>1, <1>2, <1>6, <2>3 DEF Minus
    <3>2. inpos' = inlen
      BY <1>1, <1>2, <2>3
    <3> QED
      BY <1>1, <1>2, <1>6, <2>1, <2>3, <3>1, <3>2 DEF CountOK, Delivered, n
  <2> QED
    BY <1>1, <2>2, <2>3
<1> QED
  BY <1>1, <1>5, <1>6

LEMMA BufferedInv == IInv /\ ~MustFill /\ FetchBuffered /\ UNCHANGED <<inlen, outfile>> => IInv'
<1> SUFFICES ASSUME IInv, ~MustFill, FetchBuffered, UNCHANGED <<inlen, outfile>>
             PROVE  IInv'
  OBVIOUS
<1> USE Sizes
<1>1. /\ CountOK' /\ n_bytes' \in 0..(Word - 1)
      /\ Delivered' = Delivered + RECORD_SIZE /\ Delivered \in Nat
  BY BufferedCount
<1>2. /\ pos \in Nat /\ pos + RECORD_SIZE <= BUFFER_SIZE /\ pos' = pos + RECORD_SIZE
      /\ \E k \in 0..BUFFER_RECORDS : pos' = k * RECORD_SIZE
      /\ inpos' = inpos /\ buffer' = buffer /\ UNCHANGED sinkVars
      /\ record' = [i \in 1..RECORD_SIZE |-> buffer[pos + i]]
  BY RecordFits DEF IInv, MustFill, FetchBuffered
<1>3. /\ buffer \in [1..BUFFER_SIZE -> 0..inlen] /\ inlen \in Nat /\ inpos \in Nat
      /\ \A i \in 1..BUFFER_SIZE : buffer[i] <= inpos
  BY LenAssumption DEF IInv, ReaderTypeOK, WindowOK
<1>4. \A i \in 1..RECORD_SIZE : pos + i \in 1..BUFFER_SIZE
  BY <1>2
<1>5. record' \in [1..RECORD_SIZE -> 0..inlen] /\ Len(record') = RECORD_SIZE
  BY <1>2, <1>3, <1>4
<1>6. ReaderTypeOK'
  BY <1>1, <1>2, <1>5 DEF IInv, ReaderTypeOK, sinkVars
<1>7. AlignedOK'
  BY <1>2 DEF AlignedOK
<1>8. WindowOK'
  <2>1. ASSUME NEW i \in 1..(BUFFER_SIZE - pos'), Delivered' + i <= inpos'
        PROVE  buffer'[pos' + i] = Delivered' + i
    <3> DEFINE j == RECORD_SIZE + i
    <3>1. j \in 1..(BUFFER_SIZE - pos) /\ Delivered + j <= inpos
      BY <1>1, <1>2, <2>1
    <3>2. buffer[pos + j] = Delivered + j
      BY <3>1 DEF IInv, WindowOK
    <3> QED
      BY <1>1, <1>2, <3>2
  <2>2. \A i \in 1..Len(record') : record'[i] <= inpos
    BY <1>2, <1>3, <1>4, <1>5
  <2> QED
    BY <1>2, <1>3, <2>1, <2>2 DEF WindowOK
<1>9. GivenOK'
  BY <1>2 DEF IInv, GivenOK, sinkVars
<1> QED
  BY <1>1, <1>6, <1>7, <1>8, <1>9 DEF IInv

LEMMA FillingInv == IInv /\ MustFill /\ FetchFilling /\ UNCHANGED <<inlen, outfile>> => IInv'
<1> SUFFICES ASSUME IInv, MustFill, FetchFilling, UNCHANGED <<inlen, outfile>>
             PROVE  IInv'
  OBVIOUS
<1> USE Sizes
<1> DEFINE n == Available
<1>1. /\ n \in 0..BUFFER_SIZE /\ inpos + n <= inlen /\ inpos \in Nat /\ inlen \in Nat
  BY AvailableFacts DEF IInv
<1>2. /\ inpos' = inpos + n /\ buffer' = Filled(n) /\ PassOn(n)
      /\ pos' = IF n = 0 THEN 0 ELSE RECORD_SIZE
      /\ record' = IF n = 0 THEN << >> ELSE [i \in 1..RECORD_SIZE |-> Filled(n)[i]]
  BY DEF FetchFilling
<1>3. /\ CountOK' /\ n_bytes' \in 0..(Word - 1)
      /\ \/ n = 0 /\ inpos' = inlen /\ Delivered' = inlen
         \/ n > 0 /\ Delivered' = inpos + RECORD_SIZE
  BY FillingCount
<1>4. /\ given' \in Seq(1..inlen') /\ outError' \in BOOLEAN /\ GivenOK'
  BY <1>2, PassOnInv
<1>5. /\ \A i \in 1..BUFFER_SIZE : buffer[i] \in 0..inlen /\ buffer[i] <= inpos
  BY DEF IInv, ReaderTypeOK, WindowOK
<1> HIDE DEF n
<1>6. /\ buffer' \in [1..BUFFER_SIZE -> 0..inlen]
      /\ \A i \in 1..BUFFER_SIZE : buffer'[i] <= inpos'
      /\ \A i \in 1..n : buffer'[i] = inpos + i
  BY <1>1, <1>2, <1>5 DEF Filled
<1>7. record' = << >> \/ record' \in [1..RECORD_SIZE -> 0..inlen]
  BY <1>2, <1>6
<1>8. ReaderTypeOK'
  <2>1. inlen' \in 0..MaxLen /\ inlen' = inlen /\ outfile' \in BOOLEAN
    BY DEF IInv, ReaderTypeOK
  <2>2. inpos' \in 0..inlen'
    BY <1>1, <1>2, <2>1
  <2>3. pos' \in 0..BUFFER_SIZE
    BY <1>2
  <2>4. /\ buffer' \in [1..BUFFER_SIZE -> 0..inlen']
        /\ record' = << >> \/ record' \in [1..RECORD_SIZE -> 0..inlen']
    BY <1>6, <1>7, <2>1
  <2> QED
    BY <1>3, <1>4, <2>1, <2>2, <2>3, <2>4 DEF ReaderTypeOK
<1>9. AlignedOK'
  <2>1. /\ 0 \in 0..BUFFER_RECORDS /\ 0 = 0 * RECORD_SIZE
        /\ 1 \in 0..BUFFER_RECORDS /\ RECORD_SIZE = 1 * RECORD_SIZE
    BY RecordAssumption, RecordsAssumption
  <2> QED
    BY <1>2, <2>1 DEF AlignedOK
<1>10. WindowOK'
  <2>1. ASSUME NEW i \in 1..(BUFFER_SIZE - pos'), Delivered' + i <= inpos'
        PROVE  buffer'[pos' + i] = Delivered' + i
    <3>1. CASE n = 0
      BY <1>1, <1>3, <2>1, <3>1
    <3>2. CASE n > 0
      <4>1. pos' + i \in 1..n
        BY <1>1, <1>2, <1>3, <2>1, <3>2
      <4> QED
        BY <1>1, <1>2, <1>3, <1>6, <2>1, <3>2, <4>1
    <3> QED
      BY <1>1, <3>1, <3>2
  <2>2. \A i \in 1..Len(record') : record'[i] <= inpos'
    <3>1. CASE n = 0
      BY <1>2, <3>1
    <3>2. CASE n > 0
      <4>1. record' = [i \in 1..RECORD_SIZE |-> buffer'[i]] /\ Len(record') = RECORD_SIZE
        BY <1>2, <3>2
      <4> QED
        BY <1>6, <4>1
    <3> QED
      BY <1>1, <3>1, <3>2
  <2> QED
    BY <1>6, <2>1, <2>2 DEF WindowOK
<1> QED
  BY <1>3, <1>4, <1>8, <1>9, <1>10 DEF IInv

LEMMA NextInv == IInv /\ [ReaderNext]_readerVars => IInv'
<1> SUFFICES ASSUME IInv, [ReaderNext]_readerVars
             PROVE  IInv'
  OBVIOUS
<1>1. CASE fetch_record /\ MustFill
  BY <1>1, FillingInv DEF fetch_record
<1>2. CASE fetch_record /\ ~MustFill
  BY <1>2, BufferedInv DEF fetch_record
<1>3. CASE UNCHANGED readerVars
  BY <1>3 DEF readerVars, bufferVars, sinkVars, IInv, ReaderTypeOK, AlignedOK,
              CountOK, WindowOK, GivenOK, Delivered
<1> QED
  BY <1>1, <1>2, <1>3 DEF ReaderNext

LEMMA Inductive == ReaderSpec => []IInv
<1> QED
  BY InitInv, NextInv, PTL DEF ReaderSpec

(***************************************************************************)
(* Every variable of the reader keeps to its values; in particular no     *)
(* record is handed out that would lie beyond the buffer's end.            *)
(***************************************************************************)
THEOREM ReaderTypeCorrect == ReaderSpec => []ReaderTypeOK
<1>1. IInv => ReaderTypeOK
  BY DEF IInv
<1> QED
  BY <1>1, Inductive, PTL

(***************************************************************************)
(* The output has been given the input as far as it was taken, and what    *)
(* has been handed out lies within it.                                     *)
(***************************************************************************)
THEOREM PassedFirst == ReaderSpec => []PassedBeforeDelivered
<1>1. IInv => PassedBeforeDelivered
  <2> SUFFICES ASSUME IInv, outfile, ~outError
               PROVE  /\ given = Bytes(inpos)
                      /\ \A i \in 1..Len(record) : record[i] <= Len(given)
    BY DEF PassedBeforeDelivered
  <2>1. given = Bytes(inpos) /\ inpos \in Nat
    BY LenAssumption DEF IInv, GivenOK, ReaderTypeOK
  <2>2. Len(given) = inpos
    BY <2>1 DEF Bytes
  <2> QED
    BY <2>1, <2>2 DEF IInv, WindowOK
<1> QED
  BY <1>1, Inductive, PTL

-----------------------------------------------------------------------------
LEMMA RefineInit == ReaderInit => RS!Init
  BY Sizes, LenAssumption DEF ReaderInit, RS!Init, Delivered

(* A record from the buffer is the next one, whole, cut or phantom.        *)
LEMMA RefineBuffered ==
  ASSUME IInv, IInv', ~MustFill, FetchBuffered, inlen' = inlen
  PROVE  RS!Next
<1> USE Sizes
<1>1. /\ pos \in Nat /\ pos + RECORD_SIZE <= BUFFER_SIZE /\ inpos' = inpos
      /\ record' = [i \in 1..RECORD_SIZE |-> buffer[pos + i]]
  BY RecordFits DEF IInv, MustFill, FetchBuffered
<1>2. inpos \in Nat /\ inlen \in Nat /\ inpos <= inlen
      /\ buffer \in [1..BUFFER_SIZE -> 0..inlen]
  BY LenAssumption DEF IInv, ReaderTypeOK
<1>3. /\ Delivered' = Delivered + RECORD_SIZE /\ Delivered \in Nat
      /\ \/ Delivered + RECORD_SIZE <= inpos
         \/ inpos = inlen /\ Delivered < inlen /\ inlen < Delivered + RECORD_SIZE
         \/ inpos = inlen /\ inlen < Delivered
            /\ Delivered + RECORD_SIZE <= inlen + BUFFER_SIZE
  BY BufferedCount
<1>4. \A i \in 1..RECORD_SIZE : Delivered + i <= inpos => record'[i] = Delivered + i
  <2> SUFFICES ASSUME NEW i \in 1..RECORD_SIZE, Delivered + i <= inpos
               PROVE  record'[i] = Delivered + i
    OBVIOUS
  <2>1. i \in 1..(BUFFER_SIZE - pos)
    BY <1>1
  <2> QED
    BY <1>1, <2>1 DEF IInv, WindowOK
<1>5. record' \in RS!Records
  <2>1. \A i \in 1..RECORD_SIZE : pos + i \in 1..BUFFER_SIZE
    BY <1>1
  <2> QED
    BY <1>1, <1>2, <2>1 DEF RS!Records
<1>6. CASE Delivered + RECORD_SIZE <= inpos
  <2>1. \A i \in 1..RECORD_SIZE : record'[i] = Delivered + i
    BY <1>2, <1>3, <1>4, <1>6
  <2>2. record' = [i \in 1..RECORD_SIZE |-> Delivered + i]
    BY <1>1, <2>1
  <2> QED
    BY <1>2, <1>3, <1>6, <2>2 DEF RS!Next, RS!Deliver
<1>7. CASE inpos = inlen /\ Delivered < inlen /\ inlen < Delivered + RECORD_SIZE
  <2>1. \A i \in 1..(inlen - Delivered) : record'[i] = Delivered + i
    BY <1>2, <1>3, <1>4, <1>7
  <2> QED
    BY <1>3, <1>5, <1>7, <2>1 DEF RS!Next, RS!DeliverCut
<1>8. CASE inpos = inlen /\ inlen < Delivered /\ Delivered + RECORD_SIZE <= inlen + BUFFER_SIZE
  BY <1>3, <1>5, <1>8 DEF RS!Next, RS!DeliverPhantom
<1> QED
  BY <1>3, <1>6, <1>7, <1>8

(* A fill delivers the next record, whole or cut, or ends the stream.      *)
LEMMA RefineFilling ==
  ASSUME IInv, IInv', MustFill, FetchFilling, inlen' = inlen
  PROVE  RS!Next
<1> USE Sizes
<1> DEFINE n == Available
<1>1. /\ n \in 0..BUFFER_SIZE /\ inpos + n <= inlen /\ (n = BUFFER_SIZE \/ inpos + n = inlen)
      /\ inpos \in Nat /\ inlen \in Nat
  BY AvailableFacts DEF IInv
<1>2. /\ inpos' = inpos + n
      /\ record' = IF n = 0 THEN << >> ELSE [i \in 1..RECORD_SIZE |-> Filled(n)[i]]
  BY DEF FetchFilling
<1>3. \/ n = 0 /\ inlen <= Delivered /\ Delivered' = inlen
      \/ /\ n > 0 /\ Delivered = inpos /\ Delivered' = Delivered + RECORD_SIZE
         /\ RECORD_SIZE <= n \/ inpos' = inlen
  BY FillingCount
<1>4. \A i \in 1..BUFFER_SIZE : buffer[i] \in 0..inlen
  BY DEF IInv, ReaderTypeOK
<1> HIDE DEF n
<1>5. CASE n = 0
  BY <1>1, <1>2, <1>3, <1>5 DEF RS!Next, RS!End
<1>6. CASE n > 0
  <2>1. \A i \in 1..RECORD_SIZE :
          /\ record'[i] \in 0..inlen
          /\ i <= n => record'[i] = Delivered + i
    BY <1>1, <1>2, <1>3, <1>4, <1>6 DEF Filled
  <2>2. record' \in RS!Records
    BY <1>2, <1>6, <2>1 DEF RS!Records
  <2>3. CASE RECORD_SIZE <= n
    <3>1. \A i \in 1..RECORD_SIZE : record'[i] = Delivered + i
      BY <1>1, <2>1, <2>3
    <3>2. record' = [i \in 1..RECORD_SIZE |-> Delivered + i]
      BY <1>2, <1>6, <3>1
    <3>3. Delivered + RECORD_SIZE <= inlen
      BY <1>1, <1>3, <1>6, <2>3
    <3> QED
      BY <1>1, <1>3, <1>6, <3>2, <3>3 DEF RS!Next, RS!Deliver
  <2>4. CASE n < RECORD_SIZE
    <3>1. Delivered < inlen /\ inlen < Delivered + RECORD_SIZE /\ inlen - Delivered = n
          /\ Delivered' = Delivered + RECORD_SIZE
      BY <1>1, <1>2, <1>3, <1>6, <2>4
    <3>2. \A i \in 1..(inlen - Delivered) : record'[i] = Delivered + i
      BY <1>1, <2>1, <2>4, <3>1
    <3> QED
      BY <2>2, <3>1, <3>2 DEF RS!Next, RS!DeliverCut
  <2> QED
    BY <1>1, <2>3, <2>4
<1> QED
  BY <1>1, <1>5, <1>6

(***************************************************************************)
(* The reader implements the stream of records: for whatever sizes, it     *)
(* hands out the input's records in order and once, and a cut input costs  *)
(* it no more than the cut record and a bufferful of phantoms.             *)
(***************************************************************************)
THEOREM StreamRefined == ReaderSpec => RefinesRecordStream
<1>1. IInv /\ IInv' /\ [ReaderNext]_readerVars => [RS!Next]_RS!rsvars
  <2> SUFFICES ASSUME IInv, IInv', [ReaderNext]_readerVars
               PROVE  [RS!Next]_RS!rsvars
    OBVIOUS
  <2>1. CASE fetch_record /\ MustFill
    BY <2>1, RefineFilling DEF fetch_record
  <2>2. CASE fetch_record /\ ~MustFill
    BY <2>2, RefineBuffered DEF fetch_record
  <2>3. CASE UNCHANGED readerVars
    BY <2>3 DEF readerVars, bufferVars, RS!rsvars, Delivered
  <2> QED
    BY <2>1, <2>2, <2>3 DEF ReaderNext
<1> QED
  BY <1>1, RefineInit, Inductive, PTL DEF ReaderSpec, RefinesRecordStream, RS!Spec

-----------------------------------------------------------------------------
(***************************************************************************)
(* The walk.                                                               *)
(***************************************************************************)
(* The walk is over only when the input has been taken to its end.         *)
EndOK == pc \in {"sort", "done"} => inpos = inlen

TarInv == IInv /\ EndOK

-----------------------------------------------------------------------------
(* What a step does to the reader: it fetches a record, and ends the walk  *)
(* only if there was none; or leaves it alone; or breaks the pipe.         *)
LEMMA StepKinds ==
  ASSUME [Next]_vars
  PROVE  \/ fetch_record /\ (pc' \in {"sort", "done"} => record' = << >>)
         \/ UNCHANGED readerVars /\ (pc' \in {"sort", "done"} => pc \in {"sort", "done"})
         \/ BrokenPipe
<1>1. CASE EndOfInput
  BY <1>1 DEF EndOfInput
<1>2. CASE IgnoreRecord
  BY <1>2 DEF IgnoreRecord
<1>3. CASE MalformedHeader
  BY <1>3 DEF MalformedHeader
<1>4. CASE FileHeader
  BY <1>4 DEF FileHeader, PushRow
<1>5. CASE OtherHeader
  BY <1>5 DEF OtherHeader
<1>6. CASE LongHeader
  BY <1>6 DEF LongHeader
<1>7. CASE FileData
  BY <1>7 DEF FileData, PushRow
<1>8. CASE LongData
  BY <1>8 DEF LongData
<1>9. CASE CrashOnNull
  BY <1>9 DEF CrashOnNull
<1>10. CASE Report
  BY <1>10 DEF Report
<1>11. CASE Stopped \/ UNCHANGED vars
  BY <1>11 DEF Stopped, vars
<1> QED
  BY <1>1, <1>2, <1>3, <1>4, <1>5, <1>6, <1>7, <1>8, <1>9, <1>10, <1>11 DEF Next, Step

(* nullptr is returned at the end of the input only.                       *)
LEMMA NoRecordAtEnd ==
  ASSUME IInv, fetch_record, record' = << >>
  PROVE  inpos' = inlen'
<1>1. \A f : record' # [i \in 1..RECORD_SIZE |-> f[i]]
  <2>1. 1 \in 1..RECORD_SIZE
    BY Sizes
  <2> QED
    BY <2>1
<1>2. MustFill /\ FetchFilling /\ inlen' = inlen
  <2>1. ~FetchBuffered
    <3>1. SUFFICES ASSUME FetchBuffered PROVE FALSE
      OBVIOUS
    <3>2. record' = [i \in 1..RECORD_SIZE |-> buffer[pos + i]]
      BY <3>1 DEF FetchBuffered
    <3>3. 1 \in 1..RECORD_SIZE
      BY Sizes
    <3> QED
      BY <3>2, <3>3
  <2> QED
    BY <2>1 DEF fetch_record
<1>3. Available = 0
  BY <1>1, <1>2 DEF FetchFilling
<1>4. inpos + Available = inlen /\ inpos \in Nat
  BY <1>3, AvailableFacts, Sizes DEF IInv
<1> QED
  BY <1>2, <1>3, <1>4 DEF FetchFilling

(* A broken pipe disturbs nothing but the output.                          *)
LEMMA BrokenPipeInv ==
  ASSUME IInv, BrokenPipe
  PROVE  IInv' /\ UNCHANGED RS!rsvars
<1>1. PICK m \in 0..(Available - 1) : given' = given \o SubSeq(Filled(Available), 1, m)
  BY DEF BrokenPipe
<1>2. outError' = TRUE /\ UNCHANGED <<inlen, bufferVars, record, outfile>>
  BY DEF BrokenPipe
<1>3. given' \in Seq(1..inlen)
  <2>1. m \in 0..Available
    BY AvailableFacts, Sizes DEF IInv
  <2> QED
    BY <1>1, <2>1, FilledFacts DEF IInv
<1>4. ReaderTypeOK'
  BY <1>2, <1>3 DEF IInv, ReaderTypeOK, bufferVars
<1>5. AlignedOK' /\ CountOK' /\ WindowOK'
  BY <1>2 DEF IInv, AlignedOK, CountOK, WindowOK, bufferVars, Delivered
<1>6. GivenOK'
  BY <1>2 DEF GivenOK
<1>7. UNCHANGED RS!rsvars
  BY <1>2 DEF RS!rsvars, bufferVars, Delivered
<1> QED
  BY <1>4, <1>5, <1>6, <1>7 DEF IInv

LEMMA TarInitInv == Init => TarInv
  BY InitInv DEF Init, TarInv, EndOK

LEMMA TarNextInv == TarInv /\ [Next]_vars => TarInv'
<1> SUFFICES ASSUME TarInv, [Next]_vars PROVE TarInv'
  OBVIOUS
<1>1. CASE fetch_record /\ (pc' \in {"sort", "done"} => record' = << >>)
  <2>1. IInv'
    BY <1>1, NextInv DEF TarInv, ReaderNext
  <2>2. EndOK'
    BY <1>1, NoRecordAtEnd DEF TarInv, EndOK
  <2> QED
    BY <2>1, <2>2 DEF TarInv
<1>2. CASE UNCHANGED readerVars /\ (pc' \in {"sort", "done"} => pc \in {"sort", "done"})
  <2>1. IInv'
    BY <1>2, NextInv DEF TarInv
  <2>2. EndOK'
    BY <1>2 DEF TarInv, EndOK, readerVars, bufferVars
  <2> QED
    BY <2>1, <2>2 DEF TarInv
<1>3. CASE BrokenPipe
  BY <1>3, BrokenPipeInv DEF TarInv, EndOK, BrokenPipe
<1> QED
  BY <1>1, <1>2, <1>3, StepKinds

LEMMA TarInductive == Spec => []TarInv
  BY TarInitInv, TarNextInv, PTL DEF Spec

-----------------------------------------------------------------------------
(* A run that prints its rows has passed all of its input on, behind the   *)
(* archive's end too, unless the output refused some of it.                *)
THEOREM TarPassesAllOn == Spec => []AllPassedOn
<1>1. TarInv => AllPassedOn
  BY DEF TarInv, EndOK, IInv, GivenOK, AllPassedOn
<1> QED
  BY <1>1, TarInductive, PTL

-----------------------------------------------------------------------------
(***************************************************************************)
(* Types.  A header's block is one of the archive's, because what the      *)
(* reader hands out never comes from behind the archive's end; so the      *)
(* sizes are numbers, and the walk's names, digest and rows are made of    *)
(* bytes of the input.                                                     *)
(***************************************************************************)
Rows(n) == [name : Seq(-1..n), sum : Checksums]

WalkOK ==
  /\ archive \in Archives
  /\ inlen <= Len(archive) * RECORD_SIZE
  /\ pc \in {"next", "file", "long", "sort"} \cup Ended
  /\ digest \in DigestObjects(0..inlen)
  /\ filename \in Seq(-1..inlen)
  /\ long_filename \in BOOLEAN
  /\ size \in Nat
  /\ output \in Seq(Rows(inlen))
  /\ printed \in Seq(Rows(inlen))
  /\ Len(printed) <= Len(output)

WalkInv == TarInv /\ WalkOK

(* The block a byte of the input lies in is one of the archive.            *)
LEMMA BlockInArchive ==
  ASSUME NEW L \in Nat, NEW c \in Nat, c # 0, c <= L * RECORD_SIZE
  PROVE  BlockOf(c) \in 1..L
<1> DEFINE q == (c - 1) \div RECORD_SIZE
<1>1. RECORD_SIZE \in Nat /\ RECORD_SIZE > 0
  BY Sizes
<1>2. q \in Nat /\ q * RECORD_SIZE <= c - 1
  BY <1>1
<1>3. q < L
  <2>1. SUFFICES ASSUME L <= q PROVE FALSE
    BY <1>2
  <2>2. L * RECORD_SIZE <= q * RECORD_SIZE
    BY <1>1, <1>2, <2>1
  <2> HIDE DEF q
  <2>3. q * RECORD_SIZE \in Nat /\ L * RECORD_SIZE \in Nat
    BY <1>1, <1>2
  <2> QED
    BY <1>2, <2>2, <2>3
<1> QED
  BY <1>2, <1>3 DEF BlockOf

(* A record that reads as a header is a block of the archive.              *)
LEMMA HeaderFacts ==
  ASSUME WalkOK, inlen \in Nat,
         NEW r, r = << >> \/ r \in [1..RECORD_SIZE -> 0..inlen],
         NEW h \in ReadsAs(r), h.header
  PROVE  h.size \in Nat /\ r[1] \in 0..inlen
<1> DEFINE blocks == {BlockOf(c) : c \in Range(r) \ {0}}
<1>1. r # << >>
  BY DEF ReadsAs
<1>2. r[1] \in 0..inlen /\ r \in [1..RECORD_SIZE -> 0..inlen] /\ 1 \in 1..RECORD_SIZE
  BY <1>1, Sizes
<1>3. h # NoHeader
  BY DEF NoHeader
<1>4. r[1] # 0
  <2>1. SUFFICES ASSUME r[1] = 0 PROVE FALSE
    OBVIOUS
  <2>2. ReadsAs(r) = {NoHeader}
    BY <1>1, <2>1, Zenon DEF ReadsAs
  <2> QED
    BY <1>3, <2>2
<1>5. archive \in Seq(Blocks)
  BY ArchivesAssumption DEF WalkOK
<1>6. ASSUME NEW c \in Range(r) \ {0}
      PROVE  BlockOf(c) \in 1..Len(archive) /\ archive[BlockOf(c)] \in Blocks
  <2>1. Len(archive) \in Nat
    BY <1>5, LenProperties
  <2>2. Len(archive) * RECORD_SIZE \in Nat
    BY <2>1, Sizes
  <2>3. c \in 0..inlen
    BY <1>2 DEF Range
  <2>4. c \in Nat /\ c # 0 /\ c <= Len(archive) * RECORD_SIZE
    BY <2>2, <2>3 DEF WalkOK
  <2>5. BlockOf(c) \in 1..Len(archive)
    BY <2>1, <2>4, BlockInArchive
  <2> QED
    BY <1>5, <2>5, ElementOfSeq
<1>7. r[1] \in Range(r) \ {0}
  BY <1>2, <1>4 DEF Range
<1>8. ASSUME NEW g \in Blocks, NEW k \in Blocks
      PROVE  Sized(g, k) \in Blocks
  BY DEF Sized, Blocks
<1>9. h \in Blocks
  <2>1. CASE h = archive[BlockOf(r[1])]
    BY <1>6, <1>7, <2>1
  <2>2. CASE \E c \in Range(r) \ {0} :
               h = archive[BlockOf(c)] \/ h = Sized(archive[BlockOf(c)], archive[BlockOf(r[1])])
    BY <1>6, <1>7, <1>8, <2>2
  <2> QED
    BY <1>1, <1>3, <1>4, <2>1, <2>2 DEF ReadsAs
<1> QED
  BY <1>2, <1>9 DEF Blocks

(* finalize gives checksums.                                               *)
LEMMA FinalizeType ==
  ASSUME NEW n \in Nat, NEW d \in DigestObjects(0..n), NEW s \in finalize(d)
  PROVE  s \in Checksums
<1>1. d.alg \in Algorithms /\ d.seen \in Seq(0..n)
  BY DEF DigestObjects
<1>2. d.seen \in Seq(Int) /\ Len(d.seen) \in Nat
  BY <1>1, SeqDef
<1>3. <<Len(d.seen)>> \in Seq(Int) /\ Garbage \in Seq(Int)
  BY <1>2 DEF Garbage
<1>4. /\ Checksum(d.alg, d.seen) \in Checksums
      /\ [alg |-> d.alg, of |-> Garbage] \in Checksums
  BY <1>1, <1>2, <1>3 DEF Checksum, Checksums
<1> QED
  BY <1>4 DEF finalize

(* A row more, of typed parts.                                             *)
LEMMA PushRowType ==
  ASSUME inlen \in Nat, WalkOK, NEW d \in DigestObjects(0..inlen),
         NEW name \in Seq(-1..inlen), PushRow(d, name), printed' = printed
  PROVE  /\ output' \in Seq(Rows(inlen)) /\ Len(printed') <= Len(output')
         /\ pc' \in {"next", "crashed"}
<1>1. /\ output \in Seq(Rows(inlen)) /\ Len(output) \in Nat /\ Len(printed) \in Nat
      /\ Len(printed) <= Len(output)
  BY LenProperties DEF WalkOK
<1>2. CASE UNCHANGED output
  BY <1>1, <1>2 DEF PushRow
<1>3. CASE output' # output
  <2>1. PICK s \in finalize(d) : output' = Append(output, [name |-> name, sum |-> s])
    BY <1>3 DEF PushRow
  <2>2. [name |-> name, sum |-> s] \in Rows(inlen)
    BY <2>1, FinalizeType DEF Rows
  <2> QED
    BY <1>1, <2>1, <2>2, AppendProperties DEF PushRow
<1> QED
  BY <1>2, <1>3

(* What every fetch of a record gives to go by.                            *)
LEMMA FetchFacts ==
  ASSUME WalkInv, TarInv', fetch_record
  PROVE  /\ inlen \in Nat /\ inlen' = inlen /\ WalkOK
         /\ record' = << >> \/ record' \in [1..RECORD_SIZE -> 0..inlen]
  BY LenAssumption DEF WalkInv, TarInv, IInv, ReaderTypeOK, fetch_record

(* The part of a record that belongs to the member.                        *)
LEMMA RestFacts ==
  ASSUME NEW n \in Nat, size \in Nat, NEW r \in [1..RECORD_SIZE -> 0..n]
  PROVE  /\ Rest(size) \in Nat /\ size - Rest(size) \in Nat
         /\ SubSeq(r, 1, Rest(size)) \in Seq(0..n)
<1>1. Rest(size) \in Nat /\ Rest(size) <= size /\ Rest(size) <= RECORD_SIZE
  BY Sizes DEF Rest
<1>2. \A i \in 1..Rest(size) : r[i] \in 0..n
  BY <1>1, Sizes
<1>3. SubSeq(r, 1, Rest(size)) \in Seq(0..n)
  BY <1>1, <1>2, SubSeqProperties
<1> QED
  BY <1>1, <1>3

LEMMA UpdateType ==
  ASSUME NEW n \in Nat, NEW d \in DigestObjects(0..n), NEW bytes \in Seq(0..n)
  PROVE  update(d, bytes) \in DigestObjects(0..n)
<1>1. d.seen \o bytes \in Seq(0..n)
  BY ConcatProperties DEF DigestObjects
<1> QED
  BY <1>1 DEF update, DigestObjects

LEMMA ResetType ==
  ASSUME NEW n \in Nat, NEW d \in DigestObjects(0..n)
  PROVE  reset(d) \in DigestObjects(0..n)
<1>1. << >> \in Seq(0..n)
  OBVIOUS
<1>2. [d EXCEPT !.seen = << >>] \in DigestObjects(0..n)
  BY <1>1 DEF DigestObjects
<1>3. \A e \in DigestObjects(0..n) : [e EXCEPT !.ready = TRUE] \in DigestObjects(0..n)
  BY DEF DigestObjects
<1>4. reset(d) = [[d EXCEPT !.seen = << >>] EXCEPT !.ready = TRUE]
  BY DEF reset, DigestObjects
<1> QED
  BY <1>2, <1>3, <1>4

(* An action that fetches a header.                                        *)
LEMMA HeaderStep ==
  ASSUME WalkInv, TarInv', fetch_record, NEW h \in ReadsAs(record'), h.header
  PROVE  h.size \in Nat /\ Named \in Seq(-1..inlen)
<1>1. h.size \in Nat /\ record'[1] \in -1..inlen
  BY FetchFacts, HeaderFacts
<1>2. <<record'[1]>> \in Seq(-1..inlen)
  BY <1>1
<1> QED
  BY <1>1, <1>2, FetchFacts DEF Named, WalkOK

LEMMA FileHeaderTypes ==
  ASSUME WalkInv, TarInv', FileHeader
  PROVE  WalkOK'
<1>1. PICK h \in ReadsAs(record') :
        /\ h.header
        /\ size' = h.size
        /\ digest' = reset(digest)
        /\ IF h.size = 0
           THEN PushRow(digest', Named)
           ELSE pc' = "file" /\ UNCHANGED output
  BY DEF FileHeader
<1>2. /\ fetch_record /\ long_filename' = FALSE /\ filename' = Named
      /\ UNCHANGED <<archive, printed>>
  BY DEF FileHeader
<1>3. /\ inlen \in Nat /\ inlen' = inlen /\ WalkOK
      /\ h.size \in Nat /\ Named \in Seq(-1..inlen)
  BY <1>1, <1>2, FetchFacts, HeaderStep
<1>4. digest' \in DigestObjects(0..inlen)
  <2>1. digest \in DigestObjects(0..inlen)
    BY <1>3 DEF WalkOK
  <2> QED
    BY <1>1, <1>3, <2>1, ResetType
<1>5. /\ output' \in Seq(Rows(inlen)) /\ Len(printed') <= Len(output')
      /\ pc' \in {"next", "file", "crashed"}
  <2>1. CASE h.size = 0
    BY <1>1, <1>2, <1>3, <1>4, <2>1, PushRowType
  <2>2. CASE h.size # 0
    BY <1>1, <1>2, <1>3, <2>2 DEF WalkOK
  <2> QED
    BY <2>1, <2>2
<1> QED
  BY <1>1, <1>2, <1>3, <1>4, <1>5 DEF WalkOK, Ended

(* The other headers push no row and leave the digest alone.               *)
LEMMA OtherHeaderTypes ==
  ASSUME WalkInv, TarInv', MalformedHeader \/ OtherHeader \/ LongHeader
  PROVE  WalkOK'
<1>1. /\ fetch_record /\ long_filename' \in BOOLEAN
      /\ UNCHANGED <<archive, digest, output, printed>>
  BY DEF MalformedHeader, OtherHeader, LongHeader
<1>2. PICK h \in ReadsAs(record') : h.header /\ (size' = h.size \/ size' = size)
  BY DEF MalformedHeader, OtherHeader, LongHeader
<1>3. /\ inlen \in Nat /\ inlen' = inlen /\ WalkOK
      /\ h.size \in Nat /\ Named \in Seq(-1..inlen)
  BY <1>1, <1>2, FetchFacts, HeaderStep
<1>4. filename' \in {Named, << >>, BrokenName}
  BY DEF MalformedHeader, OtherHeader, LongHeader
<1>5. << >> \in Seq(-1..inlen) /\ BrokenName \in Seq(-1..inlen)
  BY <1>3 DEF BrokenName
<1>6. pc' \in {"next", "file", "long", "sort"} \cup Ended
  BY <1>3 DEF MalformedHeader, OtherHeader, LongHeader, WalkOK, Ended
<1>7. size' \in Nat
  BY <1>2, <1>3 DEF WalkOK
<1> QED
  BY <1>1, <1>3, <1>4, <1>5, <1>6, <1>7 DEF WalkOK

LEMMA FileDataTypes ==
  ASSUME WalkInv, TarInv', FileData
  PROVE  WalkOK'
<1>1. /\ fetch_record /\ size' = size - Rest(size)
      /\ UNCHANGED <<archive, filename, long_filename, printed>>
  BY DEF FileData
<1>2. /\ inlen \in Nat /\ inlen' = inlen /\ WalkOK
      /\ record' = << >> \/ record' \in [1..RECORD_SIZE -> 0..inlen]
  BY <1>1, FetchFacts
<1>3. /\ size \in Nat /\ digest \in DigestObjects(0..inlen)
      /\ filename \in Seq(-1..inlen)
  BY <1>2 DEF WalkOK
<1>4. Rest(size) \in Nat /\ size' \in Nat
  BY <1>1, <1>3, Sizes DEF Rest
<1>5. digest' \in DigestObjects(0..inlen)
  <2>1. CASE record' # << >> /\ digest' = update(digest, SubSeq(record', 1, Rest(size)))
    <3>1. SubSeq(record', 1, Rest(size)) \in Seq(0..inlen)
      BY <1>2, <1>3, <2>1, RestFacts
    <3> QED
      BY <1>2, <1>3, <2>1, <3>1, UpdateType
  <2>2. CASE digest' \in UpdatedByNull(Rest(size))
    <3>1. [i \in 1..Rest(size) |-> 0] \in Seq(0..inlen)
      BY <1>2, <1>4
    <3>2. update(digest, [i \in 1..Rest(size) |-> 0]) \in DigestObjects(0..inlen)
      BY <1>2, <1>3, <3>1, UpdateType
    <3> QED
      BY <1>3, <2>2, <3>2 DEF UpdatedByNull
  <2> QED
    BY <2>1, <2>2 DEF FileData
<1>6. \/ size' = 0 /\ PushRow(digest', filename)
      \/ pc' = "file" /\ UNCHANGED output
  BY DEF FileData
<1>7. /\ output' \in Seq(Rows(inlen)) /\ Len(printed') <= Len(output')
      /\ pc' \in {"next", "file", "crashed"}
  <2>1. CASE PushRow(digest', filename)
    BY <1>1, <1>2, <1>3, <1>5, <2>1, PushRowType
  <2>2. CASE pc' = "file" /\ UNCHANGED output
    BY <1>1, <1>2, <2>2 DEF WalkOK
  <2> QED
    BY <1>6, <2>1, <2>2
<1> QED
  BY <1>1, <1>2, <1>4, <1>5, <1>7 DEF WalkOK, Ended

LEMMA LongDataTypes ==
  ASSUME WalkInv, TarInv', LongData
  PROVE  WalkOK'
<1> DEFINE piece == SubSeq(record', 1, Rest(size))
           name  == filename \o piece
<1>1. /\ fetch_record /\ record' # << >> /\ size' = size - Rest(size)
      /\ pc' \in {"next", "long"} /\ filename' \in {name, Front(name)}
      /\ UNCHANGED <<archive, digest, long_filename, output, printed>>
  BY DEF LongData
<1>2. /\ inlen \in Nat /\ inlen' = inlen /\ WalkOK
      /\ record' \in [1..RECORD_SIZE -> 0..inlen]
  BY <1>1, FetchFacts
<1>3. size \in Nat /\ filename \in Seq(-1..inlen)
  BY <1>2 DEF WalkOK
<1>4. size' \in Nat /\ piece \in Seq(-1..inlen)
  <2>1. size' \in Nat /\ piece \in Seq(0..inlen)
    BY <1>1, <1>2, <1>3, RestFacts
  <2>2. 0..inlen \subseteq -1..inlen
    BY <1>2
  <2> HIDE DEF piece
  <2> QED
    BY <2>1, <2>2, SeqMonotonic
<1> HIDE DEF piece
<1>5. name \in Seq(-1..inlen)
  BY <1>3, <1>4, ConcatProperties
<1> HIDE DEF name
<1>6. Front(name) \in Seq(-1..inlen)
  <2>1. Len(name) \in Nat /\ name \in [1..Len(name) -> -1..inlen]
    BY <1>5, LenProperties
  <2>2. Len(name) - 1 \in Int /\ 1 \in Int
    BY <2>1
  <2>3. \A i \in 1..(Len(name) - 1) : name[i] \in -1..inlen
    BY <2>1
  <2> QED
    BY <2>2, <2>3, SubSeqProperties DEF Front
<1> QED
  BY <1>1, <1>2, <1>4, <1>5, <1>6 DEF WalkOK

(* Sorting: the rows printed are rows.                                     *)
LEMMA ReportTypes ==
  ASSUME WalkInv, Report
  PROVE  WalkOK'
<1>1. PICK f \in Orders(Len(output)) :
        printed' = [i \in 1..Len(output) |-> output[f[i]]]
  BY DEF Report
<1>2. /\ WalkOK /\ pc' = "done" /\ UNCHANGED <<readerVars, archive, walkVars>>
  BY DEF Report, WalkInv
<1>3. output \in Seq(Rows(inlen)) /\ Len(output) \in Nat
  BY <1>2, LenProperties DEF WalkOK
<1>4. \A i \in 1..Len(output) : output[f[i]] \in Rows(inlen)
  <2>1. f \in [1..Len(output) -> 1..Len(output)]
    BY DEF Orders
  <2> QED
    BY <1>3, <2>1, ElementOfSeq
<1>5. printed' \in Seq(Rows(inlen)) /\ Len(printed') = Len(output)
  BY <1>1, <1>3, <1>4
<1> QED
  BY <1>2, <1>3, <1>5 DEF WalkOK, readerVars, walkVars, Ended

(* The steps that leave the walk's variables alone but pc.                 *)
LEMMA PlainTypes ==
  ASSUME WalkOK, UNCHANGED <<inlen, archive, walkVars, printed>>,
         pc' \in {"next", "file", "long", "sort"} \cup Ended
  PROVE  WalkOK'
  BY DEF WalkOK, walkVars

LEMMA WalkNext == WalkInv /\ TarInv' /\ [Next]_vars => WalkOK'
<1> SUFFICES ASSUME WalkInv, TarInv', [Next]_vars PROVE WalkOK'
  OBVIOUS
<1>1. CASE EndOfInput
  BY <1>1, FetchFacts, PlainTypes DEF EndOfInput
<1>2. CASE IgnoreRecord
  BY <1>2, FetchFacts, PlainTypes DEF IgnoreRecord
<1>3. CASE FileHeader
  BY <1>3, FileHeaderTypes
<1>4. CASE MalformedHeader \/ OtherHeader \/ LongHeader
  BY <1>4, OtherHeaderTypes
<1>5. CASE FileData
  BY <1>5, FileDataTypes
<1>6. CASE LongData
  BY <1>6, LongDataTypes
<1>7. CASE CrashOnNull
  BY <1>7, FetchFacts, PlainTypes DEF CrashOnNull, Ended
<1>8. CASE Report
  BY <1>8, ReportTypes
<1>9. CASE BrokenPipe
  BY <1>9, PlainTypes DEF BrokenPipe, WalkInv, Ended
<1>10. CASE Stopped \/ UNCHANGED vars
  <2>1. UNCHANGED vars /\ WalkOK
    BY <1>10 DEF Stopped, WalkInv
  <2> QED
    BY <2>1, PlainTypes DEF vars, readerVars, WalkOK
<1> QED
  BY <1>1, <1>2, <1>3, <1>4, <1>5, <1>6, <1>7, <1>8, <1>9, <1>10 DEF Next, Step

LEMMA WalkInit == Init => WalkOK
<1> SUFFICES ASSUME Init PROVE WalkOK
  OBVIOUS
<1>1. PICK argv \in Argvs : digest = NewDigest(Algorithm(argv))
  BY DEF Init
<1>2. inlen \in Nat
  BY LenAssumption DEF Init, ReaderInit
<1>3. digest \in DigestObjects(0..inlen)
  <2> DEFINE name == Algorithm(argv)
  <2>1. build_digest(name) \in Algorithms
    BY DEF build_digest, Algorithms
  <2> HIDE DEF name
  <2>2. NewDigest(name) \in DigestObjects(0..inlen)
    BY <2>1 DEF NewDigest, DigestObjects
  <2> QED
    BY <1>1, <2>2 DEF name
<1>4. << >> \in Seq(-1..inlen) /\ << >> \in Seq(Rows(inlen))
  OBVIOUS
<1>5. /\ archive \in Archives /\ inlen <= Len(archive) * RECORD_SIZE
      /\ pc = "next" /\ filename = << >> /\ long_filename = FALSE /\ size = 0
      /\ output = << >> /\ printed = << >>
  BY DEF Init
<1>6. Len(printed) <= Len(output)
  BY <1>5
<1> QED
  BY <1>3, <1>4, <1>5, <1>6 DEF WalkOK

LEMMA WalkInductive == Spec => []WalkInv
<1>1. Init => WalkInv
  BY TarInitInv, WalkInit DEF WalkInv
<1>2. WalkInv /\ [Next]_vars => WalkInv'
  BY TarNextInv, WalkNext DEF WalkInv
<1> QED
  BY <1>1, <1>2, PTL DEF Spec

(* Every variable of sump-tar keeps its type, in cut archives too: no      *)
(* block is read that the archive does not have, and names and sums are    *)
(* made of bytes of the input, or of none.                                 *)
THEOREM TarTypeCorrect == Spec => []TypeOK
<1>1. WalkInv => TypeOK
  <2> SUFFICES ASSUME WalkInv PROVE TypeOK
    OBVIOUS
  <2>1. WalkOK /\ ReaderTypeOK
    BY DEF WalkInv, TarInv, IInv
  <2>2. ASSUME NEW i \in 1..Len(output)
        PROVE  output[i].name \in Seq(-1..inlen) /\ output[i].sum \in Checksums
    <3>1. output[i] \in Rows(inlen)
      BY <2>1, ElementOfSeq DEF WalkOK
    <3> QED
      BY <3>1 DEF Rows
  <2> QED
    BY <2>1, <2>2 DEF WalkOK, TypeOK
<1> QED
  BY <1>1, WalkInductive, PTL

-----------------------------------------------------------------------------
(***************************************************************************)
(* Recursion and induction over the blocks of an archive.                  *)
(***************************************************************************)

(* A set of numbers has a least one.                                       *)
LEMMA LeastNumber ==
  ASSUME NEW T, T \subseteq Nat, T # {}
  PROVE  \E x \in T : \A y \in T : ~(y < x)
<1>1. IsWellFoundedOn(OpToRel(<, Nat), Nat)
  BY NatLessThanWellFounded
<1>2. \E x \in T : \A y \in T : ~(<<y, x>> \in OpToRel(<, Nat))
  BY <1>1, WFMin
<1> QED
  BY <1>2 DEF OpToRel

(* Induction: a set of numbers closed under the successor has them all.    *)
LEMMA Induction ==
  ASSUME NEW S, 0 \in S, \A n \in Nat : n \in S => n + 1 \in S
  PROVE  Nat \subseteq S
<1> DEFINE T == Nat \ S
<1> SUFFICES ASSUME T # {} PROVE FALSE
  OBVIOUS
<1>1. PICK x \in T : \A y \in T : ~(y < x)
  <2>1. T \subseteq Nat
    OBVIOUS
  <2> HIDE DEF T
  <2> QED
    BY <2>1, LeastNumber
<1>2. x \in Nat /\ x # 0 /\ x - 1 \in Nat
  OBVIOUS
<1>3. x - 1 \notin T
  BY <1>1, <1>2
<1>4. (x - 1) + 1 = x
  BY <1>2
<1> QED
  BY <1>2, <1>3, <1>4

(* A function is defined by recursion over an interval.                    *)
Unfolds(g, c, d, L) == g[0] = c /\ \A b \in 1..L : g[b] = d[b][g[b - 1]]

LEMMA Recursion ==
  ASSUME NEW S, NEW L \in Nat, NEW c \in S, NEW d \in [1..L -> [S -> S]]
  PROVE  \E g \in [0..L -> S] : Unfolds(g, c, d, L)
<1> DEFINE Upto(g, n) == g[0] = c /\ \A b \in 1..n : g[b] = d[b][g[b - 1]]
           Good == {n \in Nat : n <= L => \E g \in [0..n -> S] : Upto(g, n)}
<1>1. 0 \in Good
  <2>1. [b \in 0..0 |-> c] \in [0..0 -> S] /\ Upto([b \in 0..0 |-> c], 0)
    OBVIOUS
  <2> QED
    BY <2>1
<1>2. ASSUME NEW n \in Nat, n \in Good
      PROVE  n + 1 \in Good
  <2> SUFFICES ASSUME n + 1 <= L
               PROVE  \E g \in [0..(n + 1) -> S] : Upto(g, n + 1)
    OBVIOUS
  <2>1. PICK g \in [0..n -> S] : Upto(g, n)
    BY <1>2
  <2> DEFINE next == d[n + 1][g[n]]
             h == [b \in 0..(n + 1) |-> IF b = n + 1 THEN next ELSE g[b]]
  <2>2. next \in S
    <3>1. g[n] \in S /\ n + 1 \in 1..L
      BY <2>1
    <3> QED
      BY <3>1
  <2>3. h \in [0..(n + 1) -> S]
    <3> HIDE DEF next
    <3> QED
      BY <2>1, <2>2
  <2>4. h[0] = c
    <3> HIDE DEF next
    <3> QED
      BY <2>1
  <2>5. ASSUME NEW b \in 1..(n + 1)
        PROVE  h[b] = d[b][h[b - 1]]
    <3>1. CASE b = n + 1
      <4>1. h[b] = next /\ h[n] = g[n] /\ b - 1 = n
        BY <3>1
      <4> QED
        BY <3>1, <4>1
    <3>2. CASE b \in 1..n
      <4>1. h[b] = g[b] /\ h[b - 1] = g[b - 1]
        BY <3>2
      <4> HIDE DEF h
      <4> QED
        BY <2>1, <3>2, <4>1
    <3> QED
      BY <3>1, <3>2
  <2> HIDE DEF h
  <2> QED
    BY <2>3, <2>4, <2>5
<1>3. Nat \subseteq Good
  <2> HIDE DEF Good
  <2> QED
    BY <1>1, <1>2, Induction
<1>4. PICK g \in [0..L -> S] : Upto(g, L)
  BY <1>3
<1> QED
  BY <1>4 DEF Unfolds

(* The last member begun by a block.                                       *)
LEMMA MemberAtFacts ==
  ASSUME NEW a \in Seq(Blocks)
  PROVE  /\ Len(a) \in Nat
         /\ MemberAt(a)[0] = 0
         /\ \A b \in 1..Len(a) : MemberAt(a)[b] = Member(a, MemberAt(a)[b - 1], b)
         /\ \A b \in 0..Len(a) : MemberAt(a)[b] \in 0..b
<1> DEFINE L == Len(a)
           E(h) == [b \in 0..L |-> IF b = 0 THEN 0 ELSE Member(a, h[b - 1], b)]
<1>1. L \in Nat
  BY LenProperties
<1>2. \E g \in [0..L -> 0..L] : g = E(g)
  <2> DEFINE d == [b \in 1..L |-> [m \in 0..L |-> Member(a, m, b)]]
  <2> HIDE DEF L
  <2>1. \A m \in 0..L, b \in 1..L : Member(a, m, b) \in 0..L
    BY <1>1 DEF Member
  <2>2. /\ d \in [1..L -> [0..L -> 0..L]]
        /\ \A m \in 0..L, b \in 1..L : d[b][m] = Member(a, m, b)
    BY <2>1
  <2> HIDE DEF d
  <2>3. PICK g \in [0..L -> 0..L] : Unfolds(g, 0, d, L)
    <3>1. 0 \in 0..L
      BY <1>1
    <3> QED
      BY <1>1, <2>2, <3>1, Recursion
  <2>4. ASSUME NEW b \in 1..L
        PROVE  g[b] = Member(a, g[b - 1], b)
    <3>1. g[b - 1] \in 0..L
      BY <1>1
    <3> QED
      BY <2>2, <2>3, <3>1 DEF Unfolds
  <2>5. g = E(g)
    BY <1>1, <2>3, <2>4 DEF Unfolds
  <2> QED
    BY <2>5
<1>3. MemberAt(a) = CHOOSE h : h = E(h)
  BY DEF MemberAt
<1>4. MemberAt(a) = E(MemberAt(a))
  <2> HIDE DEF E
  <2> QED
    BY <1>2, <1>3
<1>5. /\ MemberAt(a)[0] = 0
      /\ \A b \in 1..L : MemberAt(a)[b] = Member(a, MemberAt(a)[b - 1], b)
  <2> HIDE DEF L
  <2> QED
    BY <1>1, <1>4
<1>6. \A b \in 0..L : MemberAt(a)[b] \in 0..b
  <2> DEFINE Good == {b \in Nat : b <= L => MemberAt(a)[b] \in 0..b}
  <2>1. 0 \in Good
    BY <1>1, <1>5
  <2>2. ASSUME NEW b \in Nat, b \in Good
        PROVE  b + 1 \in Good
    <3> SUFFICES ASSUME b + 1 <= L PROVE MemberAt(a)[b + 1] \in 0..(b + 1)
      OBVIOUS
    <3> HIDE DEF L
    <3>1. MemberAt(a)[b] \in 0..b /\ b + 1 \in 1..L /\ (b + 1) - 1 = b
      BY <1>1, <2>2
    <3>2. MemberAt(a)[b + 1] = Member(a, MemberAt(a)[b], b + 1)
      BY <1>5, <3>1
    <3> QED
      BY <3>1, <3>2 DEF Member
  <2> HIDE DEF Good
  <2>3. Nat \subseteq Good
    BY <2>1, <2>2, Induction
  <2> QED
    BY <1>1, <2>3 DEF Good
<1> QED
  BY <1>1, <1>5, <1>6

(* The rows by a block; every row is that of a member.                     *)
MemberRows(a, alg) == {RowOf(a, alg, m) : m \in 1..Len(a)}

LEMMA WithRowType ==
  ASSUME NEW a \in Seq(Blocks), NEW alg, NEW b \in 1..Len(a),
         NEW rows \in Seq(MemberRows(a, alg))
  PROVE  WithRow(a, alg, rows, b) \in Seq(MemberRows(a, alg))
<1> DEFINE m == MemberAt(a)[b]
<1>1. m \in 0..Len(a) /\ Len(a) \in Nat
  BY MemberAtFacts
<1> HIDE DEF m
<1>2. CASE m # 0
  <2>1. RowOf(a, alg, m) \in MemberRows(a, alg)
    BY <1>1, <1>2 DEF MemberRows
  <2>2. Append(rows, RowOf(a, alg, m)) \in Seq(MemberRows(a, alg))
    BY <2>1, AppendProperties
  <2> QED
    BY <2>2 DEF WithRow, m
<1>3. CASE m = 0
  BY <1>3 DEF WithRow, m
<1> QED
  BY <1>2, <1>3

LEMMA RowsAtFacts ==
  ASSUME NEW a \in Seq(Blocks), NEW alg
  PROVE  /\ RowsAt(a, alg)[0] = << >>
         /\ \A b \in 1..Len(a) :
              RowsAt(a, alg)[b] = WithRow(a, alg, RowsAt(a, alg)[b - 1], b)
         /\ \A b \in 0..Len(a) : RowsAt(a, alg)[b] \in Seq(MemberRows(a, alg))
<1> DEFINE L == Len(a)
           S == Seq(MemberRows(a, alg))
           E(h) == [b \in 0..L |-> IF b = 0 THEN << >>
                                   ELSE WithRow(a, alg, h[b - 1], b)]
<1>1. L \in Nat
  BY LenProperties
<1>2. << >> \in S
  OBVIOUS
<1>3. \A rows \in S, b \in 1..L : WithRow(a, alg, rows, b) \in S
  BY WithRowType
<1> HIDE DEF L, S
<1>4. \E g \in [0..L -> S] : g = E(g)
  <2> DEFINE d == [b \in 1..L |-> [rows \in S |-> WithRow(a, alg, rows, b)]]
  <2>1. /\ d \in [1..L -> [S -> S]]
        /\ \A rows \in S, b \in 1..L : d[b][rows] = WithRow(a, alg, rows, b)
    BY <1>3
  <2> HIDE DEF d
  <2>2. PICK g \in [0..L -> S] : Unfolds(g, << >>, d, L)
    BY <1>1, <1>2, <2>1, Recursion
  <2>3. ASSUME NEW b \in 1..L
        PROVE  g[b] = WithRow(a, alg, g[b - 1], b)
    <3>1. g[b - 1] \in S
      BY <1>1
    <3> QED
      BY <2>1, <2>2, <3>1 DEF Unfolds
  <2>4. g = E(g)
    BY <1>1, <2>2, <2>3 DEF Unfolds
  <2> QED
    BY <2>4
<1>5. RowsAt(a, alg) = CHOOSE h : h = E(h)
  BY DEF RowsAt, L
<1>6. RowsAt(a, alg) = E(RowsAt(a, alg))
  <2> HIDE DEF E
  <2> QED
    BY <1>4, <1>5
<1>7. /\ RowsAt(a, alg)[0] = << >>
      /\ \A b \in 1..L :
           RowsAt(a, alg)[b] = WithRow(a, alg, RowsAt(a, alg)[b - 1], b)
  BY <1>1, <1>6
<1>8. \A b \in 0..L : RowsAt(a, alg)[b] \in S
  <2> DEFINE Good == {b \in Nat : b <= L => RowsAt(a, alg)[b] \in S}
  <2>1. 0 \in Good
    BY <1>1, <1>2, <1>7
  <2>2. ASSUME NEW b \in Nat, b \in Good
        PROVE  b + 1 \in Good
    <3> SUFFICES ASSUME b + 1 <= L PROVE RowsAt(a, alg)[b + 1] \in S
      OBVIOUS
    <3>1. RowsAt(a, alg)[b] \in S /\ b + 1 \in 1..L /\ (b + 1) - 1 = b
      BY <1>1, <2>2
    <3>2. RowsAt(a, alg)[b + 1] = WithRow(a, alg, RowsAt(a, alg)[b], b + 1)
      BY <1>7, <3>1
    <3> QED
      BY <1>3, <3>1, <3>2
  <2> HIDE DEF Good
  <2>3. Nat \subseteq Good
    BY <2>1, <2>2, Induction
  <2> QED
    BY <1>1, <2>3 DEF Good
<1> QED
  BY <1>7, <1>8 DEF L, S

(* Prefixes: a sequence is one of itself, and of what is longer.           *)
LEMMA PrefixSame ==
  ASSUME NEW s, Len(s) \in Nat
  PROVE  IsPrefix(s, s)
BY DEF IsPrefix

LEMMA PrefixAppend ==
  ASSUME NEW S, NEW s, NEW t \in Seq(S), NEW e, Len(s) \in Nat, IsPrefix(s, t)
  PROVE  IsPrefix(s, Append(t, e))
<1> DEFINE k == Len(s)
           T == S \cup {e}
           u == Append(t, e)
<1>1. k <= Len(t) /\ SubSeq(s, 1, k) = SubSeq(t, 1, k) /\ Len(t) \in Nat /\ k \in Nat
  BY LenProperties DEF IsPrefix
<1>2. t \in Seq(T) /\ e \in T
  BY SeqMonotonic
<1> HIDE DEF T
<1>3. u \in Seq(T) /\ Len(u) = Len(t) + 1 /\ \A i \in 1..Len(t) : u[i] = t[i]
  BY <1>2, AppendProperties
<1> HIDE DEF u, k
<1>4. SubSeq(u, 1, k) = SubSeq(t, 1, k)
  <2>1. SubSeq(u, 1, k) = [i \in 1..k |-> u[i]]
    BY <1>1
  <2>2. SubSeq(t, 1, k) = [i \in 1..k |-> t[i]]
    BY <1>1
  <2> QED
    BY <1>1, <1>3, <2>1, <2>2
<1> QED
  BY <1>1, <1>3, <1>4 DEF IsPrefix, k, u

(* Rows only ever get more.                                                *)
LEMMA RowsGrow ==
  ASSUME NEW a \in Seq(Blocks), NEW alg, NEW b \in 0..Len(a), NEW n \in b..Len(a)
  PROVE  IsPrefix(RowsAt(a, alg)[b], RowsAt(a, alg)[n])
<1> DEFINE rows == RowsAt(a, alg)
           S == MemberRows(a, alg)
           Good == {k \in Nat : b + k <= Len(a) => IsPrefix(rows[b], rows[b + k])}
<1>1. Len(a) \in Nat /\ b \in Nat
  BY MemberAtFacts
<1>2. /\ \A c \in 1..Len(a) : rows[c] = WithRow(a, alg, rows[c - 1], c)
      /\ \A c \in 0..Len(a) : rows[c] \in Seq(S)
  BY RowsAtFacts
<1> HIDE DEF rows
<1>3. Len(rows[b]) \in Nat
  BY <1>2, LenProperties
<1>4. 0 \in Good
  BY <1>1, <1>3, PrefixSame
<1>5. ASSUME NEW k \in Nat, k \in Good
      PROVE  k + 1 \in Good
  <2> SUFFICES ASSUME b + (k + 1) <= Len(a) PROVE IsPrefix(rows[b], rows[b + (k + 1)])
    OBVIOUS
  <2> DEFINE c == b + (k + 1)
             m == MemberAt(a)[c]
  <2>1. c \in 1..Len(a) /\ c - 1 = b + k /\ b + k \in 0..Len(a)
    BY <1>1
  <2>2. IsPrefix(rows[b], rows[b + k])
    BY <1>1, <1>5
  <2> HIDE DEF c
  <2>3. rows[c] = WithRow(a, alg, rows[b + k], c) /\ rows[b + k] \in Seq(S)
    BY <1>2, <2>1
  <2> HIDE DEF S, m
  <2>4. CASE rows[c] = Append(rows[b + k], RowOf(a, alg, m))
    <3>1. IsPrefix(rows[b], rows[c])
      BY <1>3, <2>2, <2>3, <2>4, PrefixAppend
    <3> QED
      BY <3>1 DEF c
  <2>5. CASE rows[c] = rows[b + k]
    BY <2>2, <2>5 DEF c
  <2> QED
    BY <2>3, <2>4, <2>5 DEF WithRow, m
<1> HIDE DEF Good, S
<1>6. Nat \subseteq Good
  BY <1>4, <1>5, Induction
<1>7. n - b \in Nat /\ b + (n - b) = n /\ n <= Len(a)
  BY <1>1
<1> QED
  BY <1>6, <1>7 DEF Good, rows

-----------------------------------------------------------------------------
(***************************************************************************)
(* The rows.  As long as the walk is within the whole blocks of a readable *)
(* archive it is where the format says it should be: between members, or   *)
(* in the data of one, of which it has taken just the blocks behind it.    *)
(***************************************************************************)
Whole == inlen \div RECORD_SIZE

AtMember(b)  == MemberAt(archive)[b]
RightRows(b) == RowsAt(archive, digest.alg)[b]

BetweenMembers(b) ==
  LET m == AtMember(b) IN
  /\ pc = "next"
  /\ m = 0 \/ LastBlock(archive, m) <= b \/ archive[m].type \in {"dir", "other"}
  /\ long_filename <=> m # 0 /\ archive[m].type = "long"
  /\ long_filename => filename = Front(DataOf(archive, m))

Taken(m, n) == [i \in 1..n |-> m * RECORD_SIZE + i]

InData(b, type) ==
  LET m == AtMember(b) IN
  /\ m # 0 /\ archive[m].type = type /\ b < LastBlock(archive, m)
  /\ size = archive[m].size - (b - m) * RECORD_SIZE

InFile(b) ==
  LET m == AtMember(b) IN
  /\ pc = "file" /\ InData(b, "file")
  /\ digest.ready /\ digest.seen = Taken(m, (b - m) * RECORD_SIZE)
  /\ filename = NameOf(archive, m)
  /\ ~long_filename

InName(b) ==
  LET m == AtMember(b) IN
  /\ pc = "long" /\ InData(b, "long")
  /\ filename = Taken(m, (b - m) * RECORD_SIZE)
  /\ long_filename

OnTrackAt(b) ==
  /\ Delivered = b * RECORD_SIZE
  /\ output = RightRows(b)
  /\ BetweenMembers(b) \/ InFile(b) \/ InName(b)

OnTrack == \E b \in 0..Whole : OnTrackAt(b)

(* The output broke before the input ended.                                *)
Killed == pc = "killed" /\ IsPrefix(output, RightRows(Whole))

(* At the end of an input cut between two records.  What a file still asks *)
(* for is counted, or refused; and its name is one to copy.                *)
AtEnd ==
  \/ pc = "killed"
  \/ pc = "crashed" /\ EndsInTheMiddle
  \/ pc \in {"sort", "done"} /\ ~EndsInTheMiddle
  \/ /\ pc \in {"next", "file"} /\ ~EndsInTheMiddle
     /\ Delivered = inlen
     /\ pc = "file" => digest.alg \notin OpenSSLNames /\ filename # BrokenName

(* Behind the last whole block: of a whole archive there is nothing left   *)
(* to read.                                                                *)
PastBlocks ==
  /\ IsPrefix(RightRows(Whole), output)
  /\ inlen % RECORD_SIZE = 0 => AtEnd
  /\ inlen = Len(archive) * RECORD_SIZE /\ Complete(archive) =>
       pc \in {"sort", "done"} /\ output = RightRows(Whole)

Decodable == Readable(archive) /\ digest.alg # "none"

RowsOK == Decodable => OnTrack \/ Killed \/ PastBlocks

RowsInv == WalkInv /\ RowsOK

(* Whole blocks of n bytes.                                                *)
LEMMA WholeFacts ==
  ASSUME NEW L \in Nat, inlen \in Nat, inlen <= L * RECORD_SIZE
  PROVE  /\ Whole \in 0..L
         /\ Whole * RECORD_SIZE <= inlen /\ inlen < (Whole + 1) * RECORD_SIZE
         /\ inlen = L * RECORD_SIZE => Whole = L
<1> DEFINE q == inlen \div RECORD_SIZE
<1>1. RECORD_SIZE \in Nat /\ RECORD_SIZE > 0
  BY Sizes
<1>2. q \in Nat /\ q * RECORD_SIZE <= inlen /\ inlen < q * RECORD_SIZE + RECORD_SIZE
  BY <1>1
<1> HIDE DEF q
<1>3. q * RECORD_SIZE \in Nat /\ (q + 1) * RECORD_SIZE = q * RECORD_SIZE + RECORD_SIZE
  BY <1>1, <1>2
<1>4. q <= L
  <2>1. SUFFICES ASSUME L + 1 <= q PROVE FALSE
    BY <1>2
  <2>2. (L + 1) * RECORD_SIZE <= q * RECORD_SIZE
    BY <1>1, <1>2, <2>1
  <2>3. (L + 1) * RECORD_SIZE = L * RECORD_SIZE + RECORD_SIZE /\ L * RECORD_SIZE \in Nat
    BY <1>1
  <2> QED
    BY <1>1, <1>2, <1>3, <2>2, <2>3
<1>5. inlen = L * RECORD_SIZE => q = L
  <2>1. SUFFICES ASSUME inlen = L * RECORD_SIZE, q + 1 <= L PROVE FALSE
    BY <1>2, <1>4
  <2>2. (q + 1) * RECORD_SIZE <= L * RECORD_SIZE
    BY <1>1, <1>2, <2>1
  <2> QED
    BY <1>1, <1>2, <1>3, <2>1, <2>2
<1> QED
  BY <1>2, <1>3, <1>4, <1>5 DEF Whole, q

(* A member's last block is the first that has all of its data behind it.  *)
LEMMA LastBlockFacts ==
  ASSUME NEW a \in Seq(Blocks), NEW m \in 1..Len(a)
  PROVE  /\ a[m].size \in Nat /\ LastBlock(a, m) \in Nat /\ m <= LastBlock(a, m)
         /\ \A k \in Nat : k * RECORD_SIZE < a[m].size <=> m + k < LastBlock(a, m)
<1> DEFINE n == a[m].size
           q == (n + RECORD_SIZE - 1) \div RECORD_SIZE
<1>1. RECORD_SIZE \in Nat /\ RECORD_SIZE > 0 /\ n \in Nat /\ m \in Nat
  <2>1. a[m] \in Blocks
    BY ElementOfSeq
  <2> QED
    BY <2>1, Sizes, LenProperties DEF Blocks
<1> HIDE DEF n
<1>2. /\ q \in Nat /\ q * RECORD_SIZE <= n + RECORD_SIZE - 1
      /\ n + RECORD_SIZE - 1 < q * RECORD_SIZE + RECORD_SIZE
  BY <1>1
<1> HIDE DEF q
<1>3. q * RECORD_SIZE \in Nat
  BY <1>1, <1>2
<1>4. ASSUME NEW k \in Nat
      PROVE  k * RECORD_SIZE < n <=> k < q
  <2>1. ASSUME k < q PROVE k * RECORD_SIZE < n
    <3>1. (k + 1) * RECORD_SIZE <= q * RECORD_SIZE
      BY <1>1, <1>2, <2>1
    <3>2. (k + 1) * RECORD_SIZE = k * RECORD_SIZE + RECORD_SIZE /\ k * RECORD_SIZE \in Nat
      BY <1>1
    <3> QED
      BY <1>1, <1>2, <1>3, <3>1, <3>2
  <2>2. ASSUME q <= k PROVE n <= k * RECORD_SIZE
    <3>1. q * RECORD_SIZE <= k * RECORD_SIZE /\ k * RECORD_SIZE \in Nat
      BY <1>1, <1>2, <2>2
    <3> QED
      BY <1>1, <1>2, <1>3, <3>1
  <2> QED
    <3>1. k * RECORD_SIZE \in Nat
      BY <1>1
    <3> QED
      BY <1>1, <1>2, <2>1, <2>2, <3>1
<1>5. LastBlock(a, m) = m + q
  BY DEF LastBlock, q, n
<1> QED
  BY <1>1, <1>2, <1>4, <1>5 DEF n

(* What a whole record of the archive reads as.                            *)
LEMMA ReadsBlock ==
  ASSUME NEW b \in Nat
  PROVE  /\ PositionsOf(b + 1) # << >> /\ PositionsOf(b + 1)[1] = b * RECORD_SIZE + 1
         /\ ReadsAs(PositionsOf(b + 1)) = {archive[b + 1]}
<1> DEFINE r == PositionsOf(b + 1)
           p == b * RECORD_SIZE
<1>1. RECORD_SIZE \in Nat /\ RECORD_SIZE > 0 /\ 1 \in 1..RECORD_SIZE
  BY Sizes
<1>2. p \in Nat /\ (b + 1) - 1 = b
  BY <1>1
<1>3. r = [i \in 1..RECORD_SIZE |-> p + i]
  BY <1>2 DEF PositionsOf
<1> HIDE DEF r
<1>4. r[1] = p + 1 /\ r # << >> /\ r[1] # 0
  BY <1>1, <1>2, <1>3
<1>5. BlockOf(r[1]) = b + 1
  <2>1. (r[1] - 1) = p /\ p \div RECORD_SIZE = b
    BY <1>1, <1>2, <1>4
  <2> QED
    BY <2>1 DEF BlockOf
<1>6. ReadsAs(r) = {archive[b + 1]}
  BY <1>4, <1>5 DEF ReadsAs, r
<1> QED
  BY <1>4, <1>6 DEF r

(* Within whole blocks the next record is the next block.                  *)
LEMMA FetchesBlock ==
  ASSUME TarInv, TarInv', fetch_record, NEW b \in Nat,
         Delivered = b * RECORD_SIZE, (b + 1) * RECORD_SIZE <= inlen
  PROVE  record' = PositionsOf(b + 1) /\ Delivered' = (b + 1) * RECORD_SIZE
<1>1. RS!Next
  BY RefineFilling, RefineBuffered DEF TarInv, fetch_record
<1>2. RECORD_SIZE \in Nat /\ RECORD_SIZE > 0 /\ inlen \in Nat
  BY Sizes, LenAssumption DEF TarInv, IInv, ReaderTypeOK
<1>3. /\ (b + 1) * RECORD_SIZE = Delivered + RECORD_SIZE /\ Delivered \in Nat
      /\ (b + 1) - 1 = b
  BY <1>2
<1>4. RS!Deliver
  BY <1>1, <1>2, <1>3 DEF RS!Next, RS!DeliverCut, RS!DeliverPhantom, RS!End
<1>5. Delivered' = Delivered + RECORD_SIZE /\ record' = [i \in 1..RECORD_SIZE |-> Delivered + i]
  BY <1>4 DEF RS!Deliver
<1> QED
  BY <1>3, <1>5 DEF PositionsOf

(* At the end there is no record.                                          *)
LEMMA FetchesNothing ==
  ASSUME TarInv, TarInv', fetch_record, Delivered = inlen
  PROVE  record' = << >> /\ Delivered' = inlen
<1>1. RS!Next
  BY RefineFilling, RefineBuffered DEF TarInv, fetch_record
<1>2. RECORD_SIZE \in Nat /\ RECORD_SIZE > 0 /\ inlen \in Nat
  BY Sizes, LenAssumption DEF TarInv, IInv, ReaderTypeOK
<1> QED
  BY <1>1, <1>2 DEF RS!Next, RS!Deliver, RS!DeliverCut, RS!DeliverPhantom, RS!End

(* Blocks and members where the walk is, and one block on.                 *)
LEMMA NextBlock ==
  ASSUME WalkInv, TarInv', fetch_record, NEW b \in 0..Whole,
         Delivered = b * RECORD_SIZE, b # Whole
  PROVE  /\ b \in Nat /\ b + 1 \in 0..Whole /\ b + 1 \in 1..Len(archive)
         /\ archive \in Seq(Blocks) /\ inlen' = inlen
         /\ record' = PositionsOf(b + 1) /\ record' # << >>
         /\ record'[1] = b * RECORD_SIZE + 1
         /\ ReadsAs(record') = {archive[b + 1]}
         /\ Delivered' = (b + 1) * RECORD_SIZE
         /\ AtMember(b) \in 0..b
         /\ AtMember(b + 1) = Member(archive, AtMember(b), b + 1)
         /\ RightRows(b + 1) = WithRow(archive, digest.alg, RightRows(b), b + 1)
<1>1. archive \in Seq(Blocks) /\ Len(archive) \in Nat
  BY ArchivesAssumption, LenProperties DEF WalkInv, WalkOK
<1>2. inlen \in Nat /\ inlen' = inlen /\ inlen <= Len(archive) * RECORD_SIZE
  BY FetchFacts DEF WalkOK
<1>3. Whole \in 0..Len(archive) /\ Whole * RECORD_SIZE <= inlen
  BY <1>1, <1>2, WholeFacts
<1>4. /\ b \in Nat /\ b + 1 \in 0..Whole /\ b + 1 \in 1..Len(archive)
      /\ (b + 1) - 1 = b /\ b \in 0..Len(archive)
  BY <1>1, <1>3
<1>5. (b + 1) * RECORD_SIZE <= inlen
  <2>1. (b + 1) * RECORD_SIZE <= Whole * RECORD_SIZE
    BY <1>3, <1>4, Sizes
  <2>2. (b + 1) * RECORD_SIZE \in Nat /\ Whole * RECORD_SIZE \in Nat
    BY <1>3, <1>4, Sizes
  <2> QED
    BY <1>2, <1>3, <2>1, <2>2
<1>6. record' = PositionsOf(b + 1) /\ Delivered' = (b + 1) * RECORD_SIZE
  BY <1>4, <1>5, FetchesBlock DEF WalkInv
<1>7. /\ record' # << >> /\ record'[1] = b * RECORD_SIZE + 1
      /\ ReadsAs(record') = {archive[b + 1]}
  BY <1>4, <1>6, ReadsBlock
<1>8. AtMember(b) \in 0..b /\ AtMember(b + 1) = Member(archive, AtMember(b), b + 1)
  BY <1>1, <1>4, MemberAtFacts DEF AtMember
<1>9. RightRows(b + 1) = WithRow(archive, digest.alg, RightRows(b), b + 1)
  BY <1>1, <1>4, RowsAtFacts DEF RightRows
<1> QED
  BY <1>1, <1>2, <1>4, <1>6, <1>7, <1>8, <1>9

(* What the rows ought to be does not change.                              *)
LEMMA SameRows ==
  ASSUME archive' = archive, digest'.alg = digest.alg, inlen' = inlen
  PROVE  /\ Whole' = Whole /\ Decodable' = Decodable
         /\ \A c : AtMember(c)' = AtMember(c) /\ RightRows(c)' = RightRows(c)
BY DEF Whole, Decodable, AtMember, RightRows

LEMMA AlgorithmKept ==
  ASSUME NEW n, NEW d \in DigestObjects(n), NEW bytes
  PROVE  /\ reset(d).alg = d.alg /\ reset(d).ready /\ reset(d).seen = << >>
         /\ update(d, bytes).alg = d.alg
         /\ update(d, bytes).ready = d.ready
         /\ update(d, bytes).seen = d.seen \o bytes
BY DEF reset, update, DigestObjects

(* A header behind a member begins another, which goes by its own name.    *)
LEMMA BeginsMember ==
  ASSUME WalkInv, TarInv', fetch_record, NEW b \in 0..Whole, b # Whole,
         Decodable, Delivered = b * RECORD_SIZE, BetweenMembers(b),
         archive[b + 1].header
  PROVE  /\ AtMember(b + 1) = b + 1
         /\ Named = NameOf(archive, b + 1)
         /\ archive[b + 1].sizeOK
         /\ archive[b + 1].type = "long" => archive[b + 1].size > 0
<1> DEFINE m == AtMember(b)
<1>1. /\ b \in Nat /\ b + 1 \in 1..Len(archive) /\ archive \in Seq(Blocks)
      /\ record'[1] = b * RECORD_SIZE + 1
      /\ m \in 0..b /\ AtMember(b + 1) = Member(archive, m, b + 1)
  BY NextBlock
<1>2. /\ m = 0 \/ LastBlock(archive, m) <= b \/ archive[m].type \in {"dir", "other"}
      /\ long_filename <=> m # 0 /\ archive[m].type = "long"
      /\ long_filename => filename = Front(DataOf(archive, m))
  BY DEF BetweenMembers
<1> HIDE DEF m
<1>3. \A c \in 1..Len(archive) :
        AtMember(c) # 0 =>
          /\ archive[AtMember(c)].sizeOK
          /\ archive[AtMember(c)].type = "long" => archive[AtMember(c)].size > 0
          /\ archive[AtMember(c)].type \in {"dir", "other"} /\ AtMember(c) < c
               /\ c <= LastBlock(archive, AtMember(c)) => ~archive[c].header
  BY DEF Decodable, Readable, AtMember
<1>4. m # 0 => m \in 1..Len(archive) /\ LastBlock(archive, m) \in Nat
  <2>1. m # 0 => m \in 1..Len(archive)
    BY <1>1
  <2> QED
    BY <1>1, <2>1, LastBlockFacts
<1>5. AtMember(b + 1) = b + 1
  <2>1. SUFFICES ASSUME AtMember(b + 1) = m, m # 0, ~(LastBlock(archive, m) < b + 1)
                 PROVE  FALSE
    BY <1>1 DEF Member
  <2>2. b + 1 <= LastBlock(archive, m) /\ ~(LastBlock(archive, m) <= b) /\ m < b + 1
    BY <1>1, <1>4, <2>1
  <2>3. archive[m].type \in {"dir", "other"}
    BY <1>2, <2>1, <2>2
  <2> QED
    BY <1>1, <1>3, <2>1, <2>2, <2>3
<1>6. Named = NameOf(archive, b + 1)
  <2>1. (b + 1) - 1 = b
    BY <1>1
  <2>2. NameOf(archive, b + 1) = IF m # 0 /\ archive[m].type = "long"
                                 THEN Front(DataOf(archive, m))
                                 ELSE <<b * RECORD_SIZE + 1>>
    BY <2>1 DEF NameOf, AtMember, m
  <2> QED
    BY <1>1, <1>2, <2>2 DEF Named
<1>7. b + 1 # 0
  BY <1>1
<1> QED
  BY <1>1, <1>3, <1>5, <1>6, <1>7

(* A member's data, one block on.                                          *)
LEMMA TakenMore ==
  ASSUME NEW m \in Nat, NEW j \in Nat, NEW k \in 0..RECORD_SIZE
  PROVE  Taken(m, j * RECORD_SIZE) \o SubSeq(PositionsOf(m + j + 1), 1, k)
           = Taken(m, j * RECORD_SIZE + k)
<1> DEFINE u == j * RECORD_SIZE
           v == m * RECORD_SIZE
           s == Taken(m, u)
           r == PositionsOf(m + j + 1)
           t == SubSeq(r, 1, k)
<1>1. /\ RECORD_SIZE \in Nat /\ u \in Nat /\ v \in Nat /\ k \in Nat
      /\ (m + j) * RECORD_SIZE = v + u /\ (m + j + 1) - 1 = m + j
  BY Sizes
<1> HIDE DEF u
<1>2. r = [i \in 1..RECORD_SIZE |-> (v + u) + i]
  BY <1>1 DEF PositionsOf
<1>3. s = [i \in 1..u |-> v + i]
  BY DEF Taken
<1>4. Taken(m, u + k) = [i \in 1..(u + k) |-> v + i]
  BY DEF Taken
<1> HIDE DEF v, s, r
<1>5. s \in Seq(Nat) /\ Len(s) = u
  BY <1>1, <1>3
<1>6. t \in Seq(Nat) /\ Len(t) = k /\ \A i \in 1..k : t[i] = (v + u) + i
  <2>1. \A i \in 1..k : r[i] = (v + u) + i /\ r[i] \in Nat
    BY <1>1, <1>2
  <2>2. t \in Seq(Nat) /\ Len(t) = k /\ \A i \in 1..k : t[i] = r[i]
    BY <1>1, <2>1, SubSeqProperties
  <2> QED
    BY <2>1, <2>2
<1> HIDE DEF t
<1>7. /\ s \o t \in Seq(Nat) /\ Len(s \o t) = u + k
      /\ \A i \in 1..(u + k) : (s \o t)[i] = IF i <= u THEN s[i] ELSE t[i - u]
  BY <1>5, <1>6, ConcatProperties
<1>8. \A i \in 1..(u + k) : (s \o t)[i] = v + i
  BY <1>1, <1>3, <1>6, <1>7
<1>9. s \o t = [i \in 1..(u + k) |-> v + i]
  <2> DEFINE w == s \o t
  <2>1. w \in [1..(u + k) -> Nat]
    BY <1>7, LenProperties
  <2> QED
    BY <1>8, <2>1
<1> QED
  BY <1>4, <1>9 DEF u, s, r, t

LEMMA DataStep ==
  ASSUME NEW a \in Seq(Blocks), NEW m \in 1..Len(a), NEW b \in Nat,
         m <= b, b < LastBlock(a, m),
         size = a[m].size - (b - m) * RECORD_SIZE
  PROVE  /\ Rest(size) \in 0..RECORD_SIZE
         /\ size - Rest(size) \in Nat
         /\ size - Rest(size) # 0 =>
              /\ b + 1 < LastBlock(a, m)
              /\ size - Rest(size) = a[m].size - ((b + 1) - m) * RECORD_SIZE
              /\ (b - m) * RECORD_SIZE + Rest(size) = ((b + 1) - m) * RECORD_SIZE
         /\ size - Rest(size) = 0 =>
              /\ LastBlock(a, m) = b + 1
              /\ (b - m) * RECORD_SIZE + Rest(size) = a[m].size
<1> DEFINE j == b - m
           u == j * RECORD_SIZE
           z == a[m].size
           last == LastBlock(a, m)
           k == Rest(size)
<1>1. m \in Nat /\ RECORD_SIZE \in Nat /\ RECORD_SIZE > 0
  BY Sizes, LenProperties
<1>2. /\ z \in Nat /\ last \in Nat
      /\ \A i \in Nat : i * RECORD_SIZE < z <=> m + i < last
  BY LastBlockFacts
<1>3. /\ j \in Nat /\ u \in Nat /\ m + j = b /\ m + (j + 1) = b + 1
      /\ (j + 1) * RECORD_SIZE = u + RECORD_SIZE /\ (b + 1) - m = j + 1
  BY <1>1
<1>4. b < last /\ size = z - u /\ k = IF size < RECORD_SIZE THEN size ELSE RECORD_SIZE
  BY DEF Rest
<1> HIDE DEF j, z, last, k
<1>5. u < z
  BY <1>2, <1>3, <1>4
<1>6. u + RECORD_SIZE < z <=> b + 1 < last
  <2>1. j + 1 \in Nat
    BY <1>3
  <2>2. (j + 1) * RECORD_SIZE < z <=> m + (j + 1) < last
    BY <1>2, <2>1
  <2> QED
    BY <1>3, <2>2
<1> HIDE DEF u
<1>7. size \in Nat /\ size > 0
  BY <1>2, <1>3, <1>4, <1>5
<1>8. k \in 0..RECORD_SIZE /\ size - k \in Nat
  BY <1>1, <1>4, <1>7
<1>9. ASSUME size - k # 0
      PROVE  k = RECORD_SIZE /\ b + 1 < last /\ size - k = z - (u + RECORD_SIZE)
  <2>1. k = RECORD_SIZE
    BY <1>4, <1>7, <1>9
  <2>2. size - k = z - (u + RECORD_SIZE) /\ u + RECORD_SIZE < z
    BY <1>1, <1>2, <1>3, <1>4, <1>7, <1>8, <1>9, <2>1
  <2> QED
    BY <1>6, <2>1, <2>2
<1>10. ASSUME size - k = 0
      PROVE  u + k = z /\ last = b + 1
  <2>1. u + k = z /\ ~(u + RECORD_SIZE < z)
    BY <1>1, <1>2, <1>3, <1>4, <1>7, <1>10
  <2> QED
    BY <1>2, <1>4, <1>6, <2>1
<1>11. /\ size - k # 0 => /\ b + 1 < last
                       /\ size - k = z - ((b + 1) - m) * RECORD_SIZE
                       /\ u + k = ((b + 1) - m) * RECORD_SIZE
       /\ size - k = 0 => last = b + 1 /\ u + k = z
  BY <1>3, <1>9, <1>10
<1> QED
  BY <1>8, <1>11 DEF u, j, z, last, k

(* The row pushed for a member whose data has all been taken.              *)
LEMMA RightRow ==
  ASSUME NEW n, NEW d \in DigestObjects(n), NEW a, NEW m, d.alg # "none",
         d.ready, d.seen = DataOf(a, m), NameOf(a, m) # BrokenName,
         PushRow(d, NameOf(a, m))
  PROVE  output' = Append(output, RowOf(a, d.alg, m)) /\ pc' = "next"
<1>1. finalize(d) = {Checksum(d.alg, d.seen)}
  BY DEF finalize
<1> QED
  BY <1>1 DEF PushRow, RowOf

(* No member of the archive goes by the broken name.                       *)
LEMMA NameUnbroken ==
  ASSUME NEW a \in Seq(Blocks), NEW m \in 1..Len(a)
  PROVE  NameOf(a, m) # BrokenName
<1> DEFINE k == MemberAt(a)[m - 1]
<1>1. Len(a) \in Nat /\ m - 1 \in 0..Len(a) /\ RECORD_SIZE \in Nat
  BY LenProperties, Sizes
<1>2. k \in 0..(m - 1)
  BY <1>1, MemberAtFacts
<1> HIDE DEF k
<1>3. CASE k # 0 /\ a[k].type = "long"
  <2> DEFINE s == DataOf(a, k)
  <2>1. a[k].size \in Nat /\ k * RECORD_SIZE \in Nat
    <3>1. k \in 1..Len(a) /\ k \in Nat
      BY <1>1, <1>2, <1>3
    <3>2. a[k] \in Blocks
      BY <3>1, ElementOfSeq
    <3> QED
      BY <1>1, <3>1, <3>2 DEF Blocks
  <2>2. s \in Seq(Nat) /\ Len(s) = a[k].size /\ \A i \in 1..Len(s) : s[i] > 0
    BY <2>1 DEF DataOf
  <2>3. NameOf(a, m) = SubSeq(s, 1, Len(s) - 1)
    BY <1>3 DEF NameOf, Front, k
  <2> HIDE DEF s
  <2>4. SubSeq(s, 1, Len(s) - 1) # <<-1>>
    <3>1. SUFFICES ASSUME SubSeq(s, 1, Len(s) - 1) = <<-1>> PROVE FALSE
      OBVIOUS
    <3>2. Len(s) \in Nat /\ Len(s) - 1 \in Int /\ Len(<<-1>>) = 1 /\ <<-1>>[1] = -1
      BY <2>1, <2>2
    <3>3. \A i \in 1..(Len(s) - 1) : s[i] \in Nat
      BY <2>2, <3>2, ElementOfSeq
    <3>4. /\ Len(SubSeq(s, 1, Len(s) - 1)) = IF 1 <= Len(s) - 1 THEN Len(s) - 1 ELSE 0
          /\ \A i \in 1..(Len(s) - 1) : SubSeq(s, 1, Len(s) - 1)[i] = s[i]
      BY <3>2, <3>3, SubSeqProperties
    <3>5. 1 <= Len(s) - 1
      BY <3>1, <3>2, <3>4
    <3>6. s[1] = -1
      <4>1. 1 \in 1..(Len(s) - 1)
        BY <3>2, <3>5
      <4>2. SubSeq(s, 1, Len(s) - 1)[1] = s[1]
        BY <3>4, <4>1
      <4>3. SubSeq(s, 1, Len(s) - 1)[1] = -1
        BY <3>1, <3>2, Zenon
      <4> QED
        BY <4>2, <4>3
    <3>7. 1 \in 1..Len(s)
      BY <3>2, <3>5
    <3> QED
      BY <2>2, <3>6, <3>7
  <2> QED
    BY <2>3, <2>4 DEF BrokenName
<1>4. CASE ~(k # 0 /\ a[k].type = "long")
  <2>1. NameOf(a, m) = <<(m - 1) * RECORD_SIZE + 1>>
    BY <1>4 DEF NameOf, k
  <2>2. (m - 1) * RECORD_SIZE + 1 # -1
    <3>1. m - 1 \in Nat
      BY <1>1
    <3>2. (m - 1) * RECORD_SIZE \in Nat
      BY <1>1, <3>1
    <3> QED
      BY <3>2
  <2> QED
    BY <2>1, <2>2 DEF BrokenName
<1> QED
  BY <1>3, <1>4

(***************************************************************************)
(* A step within the whole blocks stays on track: one block on, it has     *)
(* done with that block what the format says.                              *)
(***************************************************************************)
LEMMA KeepsTrack ==
  ASSUME NEW b, b + 1 \in 0..Whole, archive' = archive, inlen' = inlen,
         digest'.alg = digest.alg, OnTrackAt(b + 1)'
  PROVE  OnTrack'
BY SameRows DEF OnTrack

LEMMA FileHeaderTrack ==
  ASSUME WalkInv, TarInv', FileHeader, Decodable,
         NEW b \in 0..Whole, b # Whole, OnTrackAt(b)
  PROVE  OnTrack'
<1> DEFINE c == b + 1
           a == archive
<1>1. /\ fetch_record /\ pc = "next" /\ long_filename' = FALSE
      /\ filename' = Named /\ UNCHANGED <<archive, printed>>
  BY DEF FileHeader
<1>2. /\ Delivered = b * RECORD_SIZE /\ output = RightRows(b) /\ BetweenMembers(b)
  BY <1>1 DEF OnTrackAt, InFile, InName
<1>3. /\ b \in Nat /\ c \in 0..Whole /\ c \in 1..Len(a) /\ a \in Seq(Blocks)
      /\ inlen' = inlen /\ ReadsAs(record') = {a[c]} /\ Delivered' = c * RECORD_SIZE
      /\ RightRows(c) = WithRow(a, digest.alg, RightRows(b), c)
  BY <1>1, <1>2, NextBlock
<1>4. /\ a[c].header /\ a[c].type = "file" /\ size' = a[c].size
      /\ digest' = reset(digest)
      /\ IF a[c].size = 0
         THEN PushRow(digest', Named)
         ELSE pc' = "file" /\ UNCHANGED output
  BY <1>3 DEF FileHeader
<1>5. AtMember(c) = c /\ Named = NameOf(a, c) /\ NameOf(a, c) # BrokenName
  BY <1>1, <1>2, <1>3, <1>4, BeginsMember, NameUnbroken
<1>6. /\ digest'.alg = digest.alg /\ digest'.ready /\ digest'.seen = << >>
      /\ digest \in DigestObjects(0..inlen)
  BY <1>4, AlgorithmKept DEF WalkInv, WalkOK
<1>7. /\ AtMember(c)' = c /\ RightRows(c)' = RightRows(c)
  BY <1>1, <1>3, <1>5, <1>6, SameRows
<1>8. /\ a[c].size \in Nat /\ LastBlock(a, c) \in Nat /\ c <= LastBlock(a, c)
      /\ 0 * RECORD_SIZE < a[c].size <=> c + 0 < LastBlock(a, c)
  BY <1>3, LastBlockFacts
<1>9. c # 0 /\ c + 0 = c /\ 0 * RECORD_SIZE = 0 /\ c - c = 0 /\ c \in Nat
  BY <1>3, Sizes
<1>10. RightRows(c) = IF LastBlock(a, c) = c
                      THEN Append(RightRows(b), RowOf(a, digest.alg, c))
                      ELSE RightRows(b)
  BY <1>3, <1>4, <1>5, <1>9 DEF WithRow, AtMember
<1>11. CASE a[c].size = 0
  <2>1. LastBlock(a, c) = c
    BY <1>8, <1>9, <1>11
  <2>2. digest'.seen = DataOf(a, c)
    BY <1>6, <1>11 DEF DataOf
  <2>3. digest' \in DigestObjects(0..inlen)
    BY <1>4, <1>6, ResetType, FetchFacts, <1>1
  <2>4. output' = Append(output, RowOf(a, digest.alg, c)) /\ pc' = "next"
    BY <1>4, <1>5, <1>6, <1>11, <2>2, <2>3, RightRow DEF Decodable
  <2>5. output' = RightRows(c)'
    BY <1>2, <1>7, <1>10, <2>1, <2>4
  <2>6. BetweenMembers(c)'
    BY <1>1, <1>4, <1>7, <1>9, <1>11, <2>1, <2>4 DEF BetweenMembers
  <2> QED
    BY <1>1, <1>3, <1>6, <2>5, <2>6, KeepsTrack DEF OnTrackAt
<1>12. CASE a[c].size # 0
  <2>1. c < LastBlock(a, c) /\ LastBlock(a, c) # c
    BY <1>8, <1>9, <1>12
  <2>2. output' = RightRows(c)'
    BY <1>2, <1>4, <1>7, <1>10, <1>12, <2>1
  <2>3. InData(c, "file")'
    BY <1>1, <1>4, <1>7, <1>8, <1>9, <2>1 DEF InData
  <2>4. digest'.seen = Taken(c, 0)
    BY <1>6 DEF Taken
  <2>5. InFile(c)'
    BY <1>1, <1>4, <1>5, <1>6, <1>7, <1>9, <1>12, <2>3, <2>4 DEF InFile
  <2> QED
    BY <1>1, <1>3, <1>6, <2>2, <2>5, KeepsTrack DEF OnTrackAt
<1> QED
  BY <1>11, <1>12

(* The other headers, and a block that is none.                            *)
LEMMA OtherHeaderTrack ==
  ASSUME WalkInv, TarInv', OtherHeader \/ LongHeader, Decodable,
         NEW b \in 0..Whole, b # Whole, OnTrackAt(b)
  PROVE  OnTrack'
<1> DEFINE c == b + 1
           a == archive
<1>1. /\ fetch_record /\ pc = "next" /\ UNCHANGED <<archive, digest, output, printed>>
  BY DEF OtherHeader, LongHeader
<1>2. /\ Delivered = b * RECORD_SIZE /\ output = RightRows(b) /\ BetweenMembers(b)
  BY <1>1 DEF OnTrackAt, InFile, InName
<1>3. /\ b \in Nat /\ c \in 0..Whole /\ c \in 1..Len(a) /\ a \in Seq(Blocks)
      /\ inlen' = inlen /\ ReadsAs(record') = {a[c]} /\ Delivered' = c * RECORD_SIZE
      /\ RightRows(c) = WithRow(a, digest.alg, RightRows(b), c)
  BY <1>1, <1>2, NextBlock
<1>4. /\ a[c].header /\ a[c].type \in {"dir", "other", "long"} /\ size' = a[c].size
  BY <1>3 DEF OtherHeader, LongHeader
<1>5. AtMember(c) = c /\ (a[c].type = "long" => a[c].size > 0)
  BY <1>1, <1>2, <1>4, BeginsMember
<1>6. /\ AtMember(c)' = c /\ RightRows(c)' = RightRows(c)
  BY <1>1, <1>3, <1>5, SameRows
<1>7. output' = RightRows(c)'
  <2>1. RightRows(c) = RightRows(b)
    BY <1>3, <1>4, <1>5 DEF WithRow, AtMember
  <2> QED
    BY <1>1, <1>2, <1>6, <2>1
<1>8. /\ a[c].size \in Nat /\ LastBlock(a, c) \in Nat /\ c <= LastBlock(a, c)
      /\ 0 * RECORD_SIZE < a[c].size <=> c + 0 < LastBlock(a, c)
  BY <1>3, LastBlockFacts
<1>9. c # 0 /\ c + 0 = c /\ 0 * RECORD_SIZE = 0 /\ c - c = 0 /\ c \in Nat
  BY <1>3, Sizes
<1>10. CASE OtherHeader
  <2>1. a[c].type \in {"dir", "other"} /\ pc' = "next" /\ long_filename' = FALSE
    BY <1>1, <1>3, <1>10 DEF OtherHeader
  <2>2. BetweenMembers(c)'
    BY <1>1, <1>6, <2>1 DEF BetweenMembers
  <2> QED
    BY <1>1, <1>3, <1>7, <2>2, KeepsTrack DEF OnTrackAt
<1>11. CASE LongHeader
  <2>1. a[c].type = "long" /\ long_filename' = TRUE
    BY <1>3, <1>11 DEF LongHeader
  <2>2. a[c].size > 0 /\ a[c].size # 0
    BY <1>5, <1>8, <2>1
  <2>3. pc' = "long" /\ filename' = << >>
    BY <1>3, <1>11, <2>2 DEF LongHeader
  <2>4. InData(c, "long")'
    BY <1>1, <1>4, <1>6, <1>8, <1>9, <2>1, <2>2 DEF InData
  <2>5. Taken(c, 0) = << >>
    BY DEF Taken
  <2>6. InName(c)'
    BY <1>6, <1>9, <2>1, <2>3, <2>4, <2>5 DEF InName
  <2> QED
    BY <1>1, <1>3, <1>7, <2>6, KeepsTrack DEF OnTrackAt
<1> QED
  BY <1>10, <1>11

LEMMA IgnoreTrack ==
  ASSUME WalkInv, TarInv', IgnoreRecord, Decodable,
         NEW b \in 0..Whole, b # Whole, OnTrackAt(b)
  PROVE  OnTrack'
<1> DEFINE c == b + 1
           a == archive
           m == AtMember(b)
<1>1. /\ fetch_record /\ pc = "next" /\ UNCHANGED <<archive, pc, walkVars, printed>>
  BY DEF IgnoreRecord
<1>2. /\ Delivered = b * RECORD_SIZE /\ output = RightRows(b) /\ BetweenMembers(b)
  BY <1>1 DEF OnTrackAt, InFile, InName
<1>3. /\ b \in Nat /\ c \in 0..Whole /\ c \in 1..Len(a) /\ a \in Seq(Blocks)
      /\ inlen' = inlen /\ ReadsAs(record') = {a[c]} /\ Delivered' = c * RECORD_SIZE
      /\ RightRows(c) = WithRow(a, digest.alg, RightRows(b), c)
      /\ m \in 0..b /\ AtMember(c) = Member(a, m, c)
  BY <1>1, <1>2, NextBlock
<1>4. ~a[c].header
  BY <1>3 DEF IgnoreRecord
<1>5. AtMember(c) = m
  BY <1>3, <1>4 DEF Member
<1>6. AtMember(c)' = m /\ RightRows(c)' = RightRows(c)
  BY <1>1, <1>3, <1>5, SameRows DEF walkVars
<1>7. /\ m = 0 \/ LastBlock(a, m) <= b \/ a[m].type \in {"dir", "other"}
      /\ long_filename <=> m # 0 /\ a[m].type = "long"
      /\ long_filename => filename = Front(DataOf(a, m))
  BY <1>2 DEF BetweenMembers
<1>8. m # 0 => LastBlock(a, m) \in Nat
  <2>1. m # 0 => m \in 1..Len(a)
    BY <1>3
  <2> QED
    BY <1>3, <2>1, LastBlockFacts
<1> HIDE DEF m
<1>9. m = 0 \/ (LastBlock(a, m) <= c /\ LastBlock(a, m) # c) \/ a[m].type \in {"dir", "other"}
  BY <1>3, <1>7, <1>8
<1>10. output' = RightRows(c)'
  <2>1. RightRows(c) = RightRows(b)
    BY <1>3, <1>5, <1>9 DEF WithRow, AtMember
  <2> QED
    BY <1>1, <1>2, <1>6, <2>1 DEF walkVars
<1>11. BetweenMembers(c)'
  BY <1>1, <1>2, <1>6, <1>7, <1>9 DEF BetweenMembers, walkVars
<1> QED
  BY <1>1, <1>3, <1>10, <1>11, KeepsTrack DEF OnTrackAt, walkVars

(* The data of a member: where it is, and what a block more makes of it.   *)
LEMMA InDataStep ==
  ASSUME WalkInv, TarInv', fetch_record, NEW type, NEW b \in 0..Whole, b # Whole,
         Delivered = b * RECORD_SIZE, InData(b, type), archive' = archive,
         size' = size - Rest(size)
  PROVE  LET m == AtMember(b) IN
         /\ m \in 1..Len(archive) /\ archive[m].type = type
         /\ AtMember(b + 1) = m
         /\ Taken(m, (b - m) * RECORD_SIZE) \o SubSeq(record', 1, Rest(size))
              = Taken(m, (b - m) * RECORD_SIZE + Rest(size))
         /\ size' # 0 =>
              /\ b + 1 < LastBlock(archive, m)
              /\ size' = archive[m].size - ((b + 1) - m) * RECORD_SIZE
              /\ (b - m) * RECORD_SIZE + Rest(size) = ((b + 1) - m) * RECORD_SIZE
         /\ size' = 0 =>
              /\ LastBlock(archive, m) = b + 1
              /\ Taken(m, (b - m) * RECORD_SIZE + Rest(size)) = DataOf(archive, m)
<1> DEFINE m == AtMember(b)
           a == archive
<1>1. /\ b \in Nat /\ b + 1 \in 1..Len(a) /\ a \in Seq(Blocks)
      /\ record' = PositionsOf(b + 1) /\ m \in 0..b
      /\ AtMember(b + 1) = Member(a, m, b + 1)
  BY NextBlock
<1>2. /\ m # 0 /\ a[m].type = type /\ b < LastBlock(a, m)
      /\ size = a[m].size - (b - m) * RECORD_SIZE
  BY DEF InData
<1> HIDE DEF m
<1>3. m \in 1..Len(a) /\ m <= b /\ m \in Nat
  BY <1>1, <1>2
<1>4. LastBlock(a, m) \in Nat
  BY <1>1, <1>3, LastBlockFacts
<1>5. AtMember(b + 1) = m
  <2>1. ~(LastBlock(a, m) < b + 1)
    BY <1>1, <1>2, <1>4
  <2> QED
    BY <1>1, <1>2, <2>1 DEF Member
<1>6. /\ Rest(size) \in 0..RECORD_SIZE
      /\ size - Rest(size) # 0 =>
           /\ b + 1 < LastBlock(a, m)
           /\ size - Rest(size) = a[m].size - ((b + 1) - m) * RECORD_SIZE
           /\ (b - m) * RECORD_SIZE + Rest(size) = ((b + 1) - m) * RECORD_SIZE
      /\ size - Rest(size) = 0 =>
           /\ LastBlock(a, m) = b + 1
           /\ (b - m) * RECORD_SIZE + Rest(size) = a[m].size
  BY <1>1, <1>2, <1>3, DataStep
<1>7. Taken(m, (b - m) * RECORD_SIZE) \o SubSeq(record', 1, Rest(size))
        = Taken(m, (b - m) * RECORD_SIZE + Rest(size))
  <2>1. b - m \in Nat /\ m + (b - m) + 1 = b + 1
    BY <1>1, <1>3
  <2>2. Taken(m, (b - m) * RECORD_SIZE) \o SubSeq(PositionsOf(m + (b - m) + 1), 1, Rest(size))
          = Taken(m, (b - m) * RECORD_SIZE + Rest(size))
    BY <1>3, <1>6, <2>1, TakenMore
  <2> QED
    BY <1>1, <2>1, <2>2
<1>8. size' = 0 => Taken(m, (b - m) * RECORD_SIZE + Rest(size)) = DataOf(a, m)
  BY <1>6 DEF Taken, DataOf
<1> QED
  BY <1>2, <1>3, <1>5, <1>6, <1>7, <1>8 DEF m

LEMMA FileDataTrack ==
  ASSUME WalkInv, TarInv', FileData, Decodable,
         NEW b \in 0..Whole, b # Whole, OnTrackAt(b)
  PROVE  OnTrack'
<1> DEFINE c == b + 1
           a == archive
           m == AtMember(b)
           done == (b - m) * RECORD_SIZE
<1>1. /\ fetch_record /\ pc = "file" /\ size' = size - Rest(size)
      /\ UNCHANGED <<archive, filename, long_filename, printed>>
  BY DEF FileData
<1>2. /\ Delivered = b * RECORD_SIZE /\ output = RightRows(b) /\ InFile(b)
  BY <1>1 DEF OnTrackAt, BetweenMembers, InName
<1>3. /\ InData(b, "file") /\ digest.ready /\ digest.seen = Taken(m, done)
      /\ filename = NameOf(a, m) /\ ~long_filename
  BY <1>2 DEF InFile
<1>4. /\ b \in Nat /\ c \in 0..Whole /\ c \in 1..Len(a) /\ a \in Seq(Blocks)
      /\ inlen' = inlen /\ record' # << >> /\ Delivered' = c * RECORD_SIZE
      /\ RightRows(c) = WithRow(a, digest.alg, RightRows(b), c)
  BY <1>1, <1>2, NextBlock
<1>5. /\ m \in 1..Len(a) /\ a[m].type = "file" /\ AtMember(c) = m
      /\ Taken(m, done) \o SubSeq(record', 1, Rest(size)) = Taken(m, done + Rest(size))
      /\ size' # 0 => /\ c < LastBlock(a, m)
                      /\ size' = a[m].size - (c - m) * RECORD_SIZE
                      /\ done + Rest(size) = (c - m) * RECORD_SIZE
      /\ size' = 0 => /\ LastBlock(a, m) = c
                      /\ Taken(m, done + Rest(size)) = DataOf(a, m)
  BY <1>1, <1>2, <1>3, InDataStep
<1> HIDE DEF m, done
<1>6. digest' = update(digest, SubSeq(record', 1, Rest(size)))
  BY <1>4 DEF FileData
<1>7. /\ digest'.alg = digest.alg /\ digest'.ready
      /\ digest'.seen = Taken(m, done + Rest(size))
  <2>1. digest \in DigestObjects(0..inlen)
    BY DEF WalkInv, WalkOK
  <2> DEFINE piece == SubSeq(record', 1, Rest(size))
  <2>2. /\ update(digest, piece).alg = digest.alg
        /\ update(digest, piece).ready = digest.ready
        /\ update(digest, piece).seen = digest.seen \o piece
    BY <2>1, AlgorithmKept
  <2> HIDE DEF piece
  <2>3. digest'.alg = digest.alg /\ digest'.ready
    BY <1>3, <1>6, <2>2 DEF piece
  <2>4. digest'.seen = Taken(m, done + Rest(size))
    BY <1>3, <1>5, <1>6, <2>2 DEF piece
  <2> QED
    BY <2>3, <2>4
<1>8. AtMember(c)' = m /\ RightRows(c)' = RightRows(c)
  BY <1>1, <1>4, <1>5, <1>7, SameRows
<1>9. m # 0
  BY <1>5
<1>10. RightRows(c) = IF LastBlock(a, m) = c
                      THEN Append(RightRows(b), RowOf(a, digest.alg, m))
                      ELSE RightRows(b)
  BY <1>4, <1>5, <1>9 DEF WithRow, AtMember
<1>11. CASE size' = 0
  <2>1. PushRow(digest', filename) /\ NameOf(a, m) # BrokenName
    BY <1>4, <1>5, <1>11, NameUnbroken DEF FileData
  <2>2. digest' \in DigestObjects(0..inlen')
    BY FileDataTypes DEF WalkOK
  <2>3. output' = Append(output, RowOf(a, digest.alg, m)) /\ pc' = "next"
    BY <1>3, <1>5, <1>7, <1>11, <2>1, <2>2, RightRow DEF Decodable
  <2>4. output' = RightRows(c)'
    BY <1>2, <1>5, <1>8, <1>10, <1>11, <2>3
  <2>5. LastBlock(a, m) <= c
    BY <1>4, <1>5, <1>11
  <2>6. BetweenMembers(c)'
    BY <1>1, <1>3, <1>5, <1>8, <2>3, <2>5 DEF BetweenMembers
  <2> QED
    BY <1>1, <1>4, <1>7, <2>4, <2>6, KeepsTrack DEF OnTrackAt
<1>12. CASE size' # 0
  <2>1. pc' = "file" /\ output' = output
    BY <1>12 DEF FileData
  <2>2. LastBlock(a, m) # c
    <3>1. LastBlock(a, m) \in Nat
      BY <1>4, <1>5, LastBlockFacts
    <3> QED
      BY <1>4, <1>5, <1>12, <3>1
  <2>3. output' = RightRows(c)'
    BY <1>2, <1>8, <1>10, <2>1, <2>2
  <2>4. InData(c, "file")'
    BY <1>1, <1>5, <1>8, <1>9, <1>12 DEF InData
  <2>5. InFile(c)'
    BY <1>1, <1>3, <1>5, <1>7, <1>8, <1>12, <2>1, <2>4 DEF InFile
  <2> QED
    BY <1>1, <1>4, <1>7, <2>3, <2>5, KeepsTrack DEF OnTrackAt
<1> QED
  BY <1>11, <1>12

LEMMA LongDataTrack ==
  ASSUME WalkInv, TarInv', LongData, Decodable,
         NEW b \in 0..Whole, b # Whole, OnTrackAt(b)
  PROVE  OnTrack'
<1> DEFINE c == b + 1
           a == archive
           m == AtMember(b)
           done == (b - m) * RECORD_SIZE
           name == filename \o SubSeq(record', 1, Rest(size))
<1>1. /\ fetch_record /\ pc = "long" /\ size' = size - Rest(size)
      /\ UNCHANGED <<archive, digest, long_filename, output, printed>>
      /\ IF size' = 0
         THEN pc' = "next" /\ filename' = Front(name)
         ELSE pc' = "long" /\ filename' = name
  BY DEF LongData
<1>2. /\ Delivered = b * RECORD_SIZE /\ output = RightRows(b) /\ InName(b)
  BY <1>1 DEF OnTrackAt, BetweenMembers, InFile
<1>3. InData(b, "long") /\ filename = Taken(m, done) /\ long_filename
  BY <1>2 DEF InName
<1>4. /\ b \in Nat /\ c \in 0..Whole /\ c \in 1..Len(a) /\ a \in Seq(Blocks)
      /\ inlen' = inlen /\ Delivered' = c * RECORD_SIZE
      /\ RightRows(c) = WithRow(a, digest.alg, RightRows(b), c)
  BY <1>1, <1>2, NextBlock
<1>5. /\ m \in 1..Len(a) /\ a[m].type = "long" /\ AtMember(c) = m
      /\ Taken(m, done) \o SubSeq(record', 1, Rest(size)) = Taken(m, done + Rest(size))
      /\ size' # 0 => /\ c < LastBlock(a, m)
                      /\ size' = a[m].size - (c - m) * RECORD_SIZE
                      /\ done + Rest(size) = (c - m) * RECORD_SIZE
      /\ size' = 0 => /\ LastBlock(a, m) = c
                      /\ Taken(m, done + Rest(size)) = DataOf(a, m)
  BY <1>1, <1>2, <1>3, InDataStep
<1> HIDE DEF m, done
<1>6. name = Taken(m, done + Rest(size))
  BY <1>3, <1>5
<1> HIDE DEF name
<1>7. AtMember(c)' = m /\ RightRows(c)' = RightRows(c)
  BY <1>1, <1>4, <1>5, SameRows
<1>8. m # 0
  BY <1>5
<1>9. output' = RightRows(c)'
  <2>1. RightRows(c) = RightRows(b)
    BY <1>4, <1>5 DEF WithRow, AtMember
  <2> QED
    BY <1>1, <1>2, <1>7, <2>1
<1>10. CASE size' = 0
  <2>1. LastBlock(a, m) <= c
    BY <1>4, <1>5, <1>10
  <2>2. filename' = Front(DataOf(a, m)) /\ pc' = "next"
    BY <1>1, <1>5, <1>6, <1>10
  <2>3. BetweenMembers(c)'
    BY <1>1, <1>3, <1>5, <1>7, <1>8, <2>1, <2>2 DEF BetweenMembers
  <2> QED
    BY <1>1, <1>4, <1>9, <2>3, KeepsTrack DEF OnTrackAt
<1>11. CASE size' # 0
  <2>1. InData(c, "long")'
    BY <1>1, <1>5, <1>7, <1>8, <1>11 DEF InData
  <2>2. InName(c)'
    BY <1>1, <1>3, <1>5, <1>6, <1>7, <1>11, <2>1 DEF InName
  <2> QED
    BY <1>1, <1>4, <1>9, <2>2, KeepsTrack DEF OnTrackAt
<1> QED
  BY <1>10, <1>11

(* Steps that cannot be taken there: no size is malformed, and there is a  *)
(* record still.                                                           *)
LEMMA NoOtherStep ==
  ASSUME WalkInv, TarInv', MalformedHeader \/ EndOfInput \/ CrashOnNull, Decodable,
         NEW b \in 0..Whole, b # Whole, OnTrackAt(b)
  PROVE  FALSE
<1>1. fetch_record /\ Delivered = b * RECORD_SIZE
  BY DEF MalformedHeader, EndOfInput, CrashOnNull, OnTrackAt
<1>2. record' # << >> /\ ReadsAs(record') = {archive[b + 1]}
  BY <1>1, NextBlock
<1>3. MalformedHeader
  BY <1>2 DEF EndOfInput, CrashOnNull
<1>4. archive[b + 1].header /\ ~archive[b + 1].sizeOK /\ pc = "next"
  BY <1>2, <1>3 DEF MalformedHeader
<1>5. BetweenMembers(b)
  BY <1>4 DEF OnTrackAt, InFile, InName
<1> QED
  BY <1>1, <1>4, <1>5, BeginsMember

LEMMA StaysOnTrack ==
  ASSUME WalkInv, TarInv', Step, Decodable,
         NEW b \in 0..Whole, b # Whole, OnTrackAt(b)
  PROVE  OnTrack'
<1>1. pc \in {"next", "file", "long"}
  BY DEF OnTrackAt, BetweenMembers, InFile, InName
<1>2. ~Report
  BY <1>1 DEF Report
<1> QED
  BY <1>2, FileHeaderTrack, OtherHeaderTrack, IgnoreTrack, FileDataTrack, LongDataTrack,
     NoOtherStep DEF Step

(* A step adds a row at most, and changes neither archive nor algorithm.   *)
LEMMA OutputGrows ==
  ASSUME WalkInv, TarInv', [Next]_vars
  PROVE  /\ output' = output \/ \E e : output' = Append(output, e)
         /\ archive' = archive /\ inlen' = inlen
         /\ digest'.alg = digest.alg
<1> DEFINE Grows == output' = output \/ \E e : output' = Append(output, e)
<1>1. \A d, name : PushRow(d, name) => Grows
  BY DEF PushRow
<1>2. \A k : \A d \in UpdatedByNull(k) : d.alg = digest.alg
  <2>1. digest \in DigestObjects(0..inlen)
    BY DEF WalkInv, WalkOK
  <2>2. \A bytes : update(digest, bytes).alg = digest.alg
    BY <2>1, AlgorithmKept
  <2> QED
    BY <2>2 DEF UpdatedByNull
<1>3. /\ reset(digest).alg = digest.alg
      /\ \A bytes : update(digest, bytes).alg = digest.alg
  <2>1. digest \in DigestObjects(0..inlen)
    BY DEF WalkInv, WalkOK
  <2> QED
    BY <2>1, AlgorithmKept
<1> HIDE DEF Grows
<1>4. fetch_record => inlen' = inlen
  BY DEF fetch_record
<1>5. output' = output => Grows
  BY DEF Grows
<1>6. CASE FileHeader
  BY <1>1, <1>3, <1>4, <1>5, <1>6 DEF FileHeader, Grows
<1>7. CASE FileData
  BY <1>1, <1>2, <1>3, <1>4, <1>5, <1>7 DEF FileData, Grows
<1>8. CASE EndOfInput \/ IgnoreRecord \/ MalformedHeader \/ OtherHeader \/ LongHeader
             \/ LongData \/ CrashOnNull
  BY <1>4, <1>5, <1>8 DEF EndOfInput, IgnoreRecord, MalformedHeader, OtherHeader, LongHeader,
     LongData, CrashOnNull, walkVars, Grows
<1>9. CASE Report \/ BrokenPipe \/ Stopped \/ UNCHANGED vars
  BY <1>5, <1>9 DEF Report, BrokenPipe, Stopped, vars, walkVars, readerVars, Grows
<1> QED
  BY <1>6, <1>7, <1>8, <1>9 DEF Next, Step, Grows

(* An input cut between two records has only whole blocks.                 *)
LEMMA AlignedFacts ==
  ASSUME inlen \in Nat, inlen % RECORD_SIZE = 0
  PROVE  Whole * RECORD_SIZE = inlen
BY Sizes DEF Whole

(* The end is in the middle of a member, or it is not.                     *)
LEMMA MiddleFacts ==
  ASSUME WalkInv
  PROVE  /\ BetweenMembers(Whole) => ~EndsInTheMiddle
         /\ InData(Whole, "long") => EndsInTheMiddle
         /\ InData(Whole, "file") => (EndsInTheMiddle <=> digest.alg \in OpenSSLNames)
<1> DEFINE m == AtMember(Whole)
<1>1. /\ archive \in Seq(Blocks) /\ Len(archive) \in Nat /\ inlen \in Nat
      /\ inlen <= Len(archive) * RECORD_SIZE
  BY ArchivesAssumption, LenProperties, LenAssumption
     DEF WalkInv, WalkOK, TarInv, IInv, ReaderTypeOK
<1>2. Whole \in 0..Len(archive)
  BY <1>1, WholeFacts
<1>3. m \in 0..Whole
  BY <1>1, <1>2, MemberAtFacts DEF AtMember
<1>4. m # 0 => LastBlock(archive, m) \in Nat
  <2>1. m # 0 => m \in 1..Len(archive)
    BY <1>1, <1>2, <1>3
  <2> QED
    BY <1>1, <2>1, LastBlockFacts
<1> HIDE DEF m
<1>5. EndsInTheMiddle <=>
        /\ m # 0 /\ Whole < LastBlock(archive, m)
        /\ \/ archive[m].type = "long"
           \/ archive[m].type = "file" /\ digest.alg \in OpenSSLNames
  BY DEF EndsInTheMiddle, m, AtMember, Whole
<1>6. BetweenMembers(Whole) =>
        m = 0 \/ LastBlock(archive, m) <= Whole \/ archive[m].type \in {"dir", "other"}
  BY DEF BetweenMembers, m
<1>7. \A type : InData(Whole, type) =>
        m # 0 /\ archive[m].type = type /\ Whole < LastBlock(archive, m)
  BY DEF InData, m
<1>8. Whole \in Nat
  BY <1>1, <1>2
<1>9. BetweenMembers(Whole) => ~EndsInTheMiddle
  BY <1>4, <1>5, <1>6, <1>8
<1> QED
  BY <1>5, <1>7, <1>9

(* Whether it is does not change.                                          *)
LEMMA SameMiddle ==
  ASSUME archive' = archive, digest'.alg = digest.alg, inlen' = inlen
  PROVE  EndsInTheMiddle' = EndsInTheMiddle
BY DEF EndsInTheMiddle

(* OpenSSL's digests do not return from nullptr; the others do.            *)
LEMMA NullFacts ==
  ASSUME NEW k
  PROVE  UpdatedByNull(k) = {} <=> digest.alg \in OpenSSLNames
<1>1. CASE digest.alg \in OpenSSLNames
  <2>1. digest.alg # "count"
    BY <1>1 DEF OpenSSLNames
  <2>2. UpdatedByNull(k) = {}
    BY <1>1, <2>1 DEF UpdatedByNull
  <2> QED
    BY <1>1, <2>2
<1>2. CASE digest.alg \notin OpenSSLNames
  BY <1>2 DEF UpdatedByNull
<1> QED
  BY <1>1, <1>2

(* A file's data, past the end: counted or refused, to the last of it.     *)
LEMMA NullData ==
  ASSUME WalkInv, TarInv', FileData, Delivered = inlen, ~EndsInTheMiddle,
         filename # BrokenName
  PROVE  AtEnd'
<1>1. fetch_record /\ record' = << >> /\ Delivered' = inlen /\ inlen' = inlen
  BY FetchesNothing DEF FileData, WalkInv, fetch_record
<1>2. /\ archive' = archive /\ digest'.alg = digest.alg
  BY OutputGrows DEF Next, Step
<1>3. digest.alg \notin OpenSSLNames
  BY <1>1, NullFacts DEF FileData
<1>4. ~EndsInTheMiddle'
  BY <1>1, <1>2, SameMiddle
<1>5. pc' \in {"next", "file"} /\ filename' = filename
  BY DEF FileData, PushRow
<1> QED
  BY <1>1, <1>2, <1>3, <1>4, <1>5 DEF AtEnd

(* A step at the end of an input cut between two records.                  *)
LEMMA EndReached ==
  ASSUME WalkInv, TarInv', Step, Decodable, OnTrackAt(Whole), inlen % RECORD_SIZE = 0
  PROVE  AtEnd'
<1> DEFINE m == AtMember(Whole)
<1>1. /\ archive \in Seq(Blocks) /\ Len(archive) \in Nat /\ inlen \in Nat
      /\ inlen <= Len(archive) * RECORD_SIZE
  BY ArchivesAssumption, LenProperties, LenAssumption
     DEF WalkInv, WalkOK, TarInv, IInv, ReaderTypeOK
<1>2. Delivered = inlen
  BY <1>1, AlignedFacts DEF OnTrackAt
<1>3. /\ archive' = archive /\ inlen' = inlen /\ digest'.alg = digest.alg
  BY OutputGrows DEF Next
<1>4. EndsInTheMiddle' = EndsInTheMiddle
  BY <1>3, SameMiddle
<1>5. fetch_record => record' = << >> /\ ReadsAs(record') = {}
  <2>1. fetch_record => record' = << >>
    BY <1>2, FetchesNothing DEF WalkInv
  <2> QED
    BY <2>1 DEF ReadsAs
<1>6. EndOfInput \/ FileData \/ CrashOnNull
  <2>1. pc # "sort"
    BY DEF OnTrackAt, BetweenMembers, InFile, InName
  <2> QED
    BY <1>5, <2>1 DEF Step, IgnoreRecord, MalformedHeader, FileHeader,
       OtherHeader, LongHeader, LongData, Report
<1>7. CASE BetweenMembers(Whole)
  <2>1. EndOfInput
    BY <1>6, <1>7 DEF BetweenMembers, FileData, CrashOnNull
  <2> QED
    BY <1>4, <1>7, <2>1, MiddleFacts DEF EndOfInput, AtEnd
<1>8. CASE InFile(Whole)
  <2>1. /\ pc = "file" /\ filename = NameOf(archive, m)
        /\ EndsInTheMiddle <=> digest.alg \in OpenSSLNames
    BY <1>8, MiddleFacts DEF InFile
  <2>2. CASE FileData
    <3>1. ~EndsInTheMiddle
      BY <1>5, <2>1, <2>2, NullFacts DEF FileData
    <3>2. m \in 1..Len(archive)
      <4>1. m # 0
        BY <1>8 DEF InFile, InData
      <4>2. Whole \in 0..Len(archive)
        BY <1>1, WholeFacts
      <4>3. m \in 0..Whole
        BY <1>1, <4>2, MemberAtFacts DEF AtMember
      <4> QED
        BY <1>1, <4>1, <4>2, <4>3
    <3>3. filename # BrokenName
      BY <1>1, <2>1, <3>2, NameUnbroken
    <3> QED
      BY <1>2, <2>2, <3>1, <3>3, NullData
  <2>3. CASE CrashOnNull
    <3>1. digest.alg \in OpenSSLNames
      BY <2>1, <2>3, NullFacts DEF CrashOnNull
    <3> QED
      BY <1>4, <2>1, <2>3, <3>1 DEF CrashOnNull, AtEnd
  <2> QED
    BY <1>6, <2>1, <2>2, <2>3 DEF EndOfInput
<1>9. CASE InName(Whole)
  <2>1. pc = "long" /\ EndsInTheMiddle
    BY <1>9, MiddleFacts DEF InName
  <2>2. CrashOnNull
    BY <1>6, <2>1 DEF EndOfInput, FileData
  <2> QED
    BY <1>4, <2>1, <2>2 DEF CrashOnNull, AtEnd
<1> QED
  BY <1>7, <1>8, <1>9 DEF OnTrackAt

(* And one after that.                                                     *)
LEMMA EndKept ==
  ASSUME WalkInv, TarInv', [Next]_vars, AtEnd
  PROVE  AtEnd'
<1>1. /\ archive' = archive /\ inlen' = inlen /\ digest'.alg = digest.alg
  BY OutputGrows
<1>2. EndsInTheMiddle' = EndsInTheMiddle
  BY <1>1, SameMiddle
<1>3. CASE UNCHANGED vars \/ Stopped
  BY <1>1, <1>2, <1>3 DEF AtEnd, Stopped, vars, walkVars, readerVars, bufferVars, Delivered
<1>4. CASE BrokenPipe
  BY <1>4 DEF BrokenPipe, AtEnd
<1>5. CASE Report
  BY <1>2, <1>5 DEF Report, AtEnd
<1>6. CASE Step /\ ~Report
  <2>1. pc \in {"next", "file", "long"} /\ fetch_record
    BY <1>6 DEF Step, EndOfInput, IgnoreRecord, MalformedHeader, FileHeader,
       OtherHeader, LongHeader, FileData, LongData, CrashOnNull
  <2>2. /\ pc \in {"next", "file"} /\ ~EndsInTheMiddle /\ Delivered = inlen
        /\ pc = "file" => digest.alg \notin OpenSSLNames /\ filename # BrokenName
    BY <2>1 DEF AtEnd
  <2>3. record' = << >> /\ ReadsAs(record') = {}
    <3>1. record' = << >>
      BY <2>1, <2>2, FetchesNothing DEF WalkInv
    <3> QED
      BY <3>1 DEF ReadsAs
  <2>4. EndOfInput \/ FileData
    <3>1. ~CrashOnNull
      BY <2>2, NullFacts DEF CrashOnNull
    <3> QED
      BY <1>6, <2>2, <2>3, <3>1 DEF Step, IgnoreRecord, MalformedHeader, FileHeader,
         OtherHeader, LongHeader, LongData
  <2>5. CASE EndOfInput
    BY <1>2, <2>2, <2>5 DEF EndOfInput, AtEnd
  <2>6. CASE FileData
    <3>1. pc = "file"
      BY <2>6 DEF FileData
    <3> QED
      BY <2>2, <2>6, <3>1, NullData
  <2> QED
    BY <2>4, <2>5, <2>6
<1> QED
  BY <1>3, <1>4, <1>5, <1>6 DEF Next

(* At the last whole block: what follows comes after the right rows, and   *)
(* if nothing does the walk ends.                                          *)
LEMMA LeavesTrack ==
  ASSUME WalkInv, TarInv', Step, Decodable, OnTrackAt(Whole)
  PROVE  PastBlocks'
<1> DEFINE right == RightRows(Whole)
<1>1. /\ output' = output \/ \E e : output' = Append(output, e)
      /\ archive' = archive /\ inlen' = inlen /\ digest'.alg = digest.alg
  BY OutputGrows DEF Next
<1>2. /\ archive \in Seq(Blocks) /\ Len(archive) \in Nat /\ inlen \in Nat
      /\ inlen <= Len(archive) * RECORD_SIZE /\ output \in Seq(Rows(inlen))
      /\ Len(output) \in Nat
  BY ArchivesAssumption, LenProperties, LenAssumption
     DEF WalkInv, WalkOK, TarInv, IInv, ReaderTypeOK
<1>3. Whole' = Whole /\ RightRows(Whole)' = right
  BY <1>1, SameRows
<1>4. output = right /\ Delivered = Whole * RECORD_SIZE
  BY DEF OnTrackAt
<1>5. IsPrefix(right, output')
  BY <1>1, <1>2, <1>4, PrefixSame, PrefixAppend
<1>6. ASSUME inlen = Len(archive) * RECORD_SIZE, Complete(archive)
      PROVE  pc' = "sort" /\ output' = right
  <2>1. Whole = Len(archive) /\ Delivered = inlen
    BY <1>2, <1>4, <1>6, WholeFacts
  <2>2. BetweenMembers(Whole)
    <3> DEFINE m == AtMember(Whole)
    <3>1. m # 0 => LastBlock(archive, m) <= Whole
      BY <1>6, <2>1 DEF Complete, AtMember
    <3>2. m \in 0..Whole
      BY <1>2, <2>1, MemberAtFacts DEF AtMember
    <3>3. m # 0 => LastBlock(archive, m) \in Nat
      <4>1. m # 0 => m \in 1..Len(archive)
        BY <1>2, <2>1, <3>2
      <4> QED
        BY <1>2, <4>1, LastBlockFacts
    <3>4. ~InData(Whole, "file") /\ ~InData(Whole, "long")
      BY <1>2, <2>1, <3>1, <3>3 DEF InData
    <3> QED
      BY <3>4 DEF OnTrackAt, InFile, InName
  <2>3. pc = "next" /\ fetch_record
    BY <2>2 DEF BetweenMembers, Step, EndOfInput, IgnoreRecord, MalformedHeader, FileHeader,
       OtherHeader, LongHeader, FileData, LongData, CrashOnNull, Report
  <2>4. record' = << >>
    BY <2>1, <2>3, FetchesNothing DEF WalkInv
  <2>5. ReadsAs(record') = {}
    BY <2>4 DEF ReadsAs
  <2>6. EndOfInput
    BY <2>3, <2>5 DEF Step, IgnoreRecord, MalformedHeader, FileHeader,
       OtherHeader, LongHeader, FileData, LongData, CrashOnNull, Report
  <2> QED
    BY <1>4, <2>6 DEF EndOfInput, walkVars
<1>7. Complete(archive)' = Complete(archive)
  BY <1>1
<1>8. inlen % RECORD_SIZE = 0 => AtEnd'
  BY EndReached
<1> QED
  BY <1>1, <1>3, <1>5, <1>6, <1>7, <1>8 DEF PastBlocks

LEMMA RowsNext == RowsInv /\ TarInv' /\ [Next]_vars => RowsOK'
<1> SUFFICES ASSUME RowsInv, TarInv', [Next]_vars, Decodable'
             PROVE  (OnTrack \/ Killed \/ PastBlocks)'
  BY DEF RowsOK
<1> USE DEF RowsInv
<1>1. /\ output' = output \/ \E e : output' = Append(output, e)
      /\ archive' = archive /\ inlen' = inlen /\ digest'.alg = digest.alg
  BY OutputGrows
<1>2. /\ Whole' = Whole /\ Decodable' = Decodable
      /\ \A c : AtMember(c)' = AtMember(c) /\ RightRows(c)' = RightRows(c)
  BY <1>1, SameRows
<1>3. /\ archive \in Seq(Blocks) /\ Len(archive) \in Nat /\ inlen \in Nat
      /\ inlen <= Len(archive) * RECORD_SIZE /\ output \in Seq(Rows(inlen))
  BY ArchivesAssumption, LenProperties, LenAssumption
     DEF WalkInv, WalkOK, TarInv, IInv, ReaderTypeOK
<1>4. Whole \in 0..Len(archive)
  BY <1>3, WholeFacts
<1>5. CASE OnTrack
  <2>1. PICK b \in 0..Whole : OnTrackAt(b)
    BY <1>5 DEF OnTrack
  <2>2. CASE Step /\ b # Whole
    BY <1>2, <2>1, <2>2, StaysOnTrack
  <2>3. CASE Step /\ b = Whole
    BY <1>2, <2>1, <2>3, LeavesTrack
  <2>4. CASE BrokenPipe
    <3>1. IsPrefix(RightRows(b), RightRows(Whole))
      BY <1>3, <1>4, RowsGrow DEF RightRows
    <3>2. output' = RightRows(b) /\ pc' = "killed"
      BY <2>1, <2>4 DEF BrokenPipe, OnTrackAt, walkVars
    <3> QED
      BY <1>2, <3>1, <3>2 DEF Killed
  <2>5. CASE UNCHANGED vars
    BY <2>1, <2>5, <1>2 DEF OnTrack, OnTrackAt, BetweenMembers, InFile, InName, InData, vars,
       walkVars, readerVars, bufferVars, Delivered
  <2>6. ~Stopped
    BY <2>1 DEF OnTrackAt, BetweenMembers, InFile, InName, Stopped, Ended
  <2> QED
    BY <2>2, <2>3, <2>4, <2>5, <2>6 DEF Next
<1>6. CASE Killed
  <2>1. UNCHANGED vars
    BY <1>6 DEF Killed, Next, Step, EndOfInput, IgnoreRecord, MalformedHeader, FileHeader,
       OtherHeader, LongHeader, FileData, LongData, CrashOnNull, Report, BrokenPipe, Stopped
  <2> QED
    BY <1>2, <1>6, <2>1 DEF Killed, vars, walkVars
<1>7. CASE PastBlocks
  <2>1. Len(RightRows(Whole)) \in Nat
    BY <1>3, <1>4, RowsAtFacts, LenProperties DEF RightRows
  <2>2. IsPrefix(RightRows(Whole), output')
    BY <1>1, <1>3, <1>7, <2>1, PrefixAppend DEF PastBlocks
  <2>3. ASSUME pc \in {"sort", "done"}
        PROVE  pc' \in {"sort", "done"} /\ output' = output
    BY <2>3 DEF Next, Step, EndOfInput, IgnoreRecord, MalformedHeader, FileHeader,
       OtherHeader, LongHeader, FileData, LongData, CrashOnNull, Report, BrokenPipe, Stopped,
       vars, walkVars
  <2>4. Complete(archive)' = Complete(archive)
    BY <1>1
  <2>5. inlen % RECORD_SIZE = 0 => AtEnd'
    BY <1>7, EndKept DEF PastBlocks
  <2> QED
    BY <1>1, <1>2, <1>7, <2>2, <2>3, <2>4, <2>5 DEF PastBlocks
<1> QED
  BY <1>2, <1>5, <1>6, <1>7 DEF RowsOK

LEMMA RowsInit == Init /\ WalkInv => RowsOK
<1> SUFFICES ASSUME Init, WalkInv PROVE OnTrack
  BY DEF RowsOK
<1>1. /\ archive \in Seq(Blocks) /\ Len(archive) \in Nat /\ inlen \in Nat
      /\ inlen <= Len(archive) * RECORD_SIZE
  BY ArchivesAssumption, LenProperties, LenAssumption
     DEF WalkInv, WalkOK, TarInv, IInv, ReaderTypeOK
<1>2. 0 \in 0..Whole
  BY <1>1, WholeFacts
<1>3. AtMember(0) = 0 /\ RightRows(0) = << >>
  BY <1>1, MemberAtFacts, RowsAtFacts DEF AtMember, RightRows
<1>4. Delivered = 0 /\ 0 * RECORD_SIZE = 0
  BY Sizes DEF Init, ReaderInit, Delivered
<1>5. BetweenMembers(0) /\ output = << >>
  BY <1>3 DEF Init, BetweenMembers
<1> QED
  BY <1>2, <1>3, <1>4, <1>5 DEF OnTrack, OnTrackAt

LEMMA RowsInductive == Spec => []RowsInv
<1>1. Init => RowsInv
  BY TarInitInv, WalkInit, RowsInit DEF WalkInv, RowsInv
<1>2. RowsInv /\ [Next]_vars => RowsInv'
  BY TarNextInv, WalkNext, RowsNext DEF WalkInv, RowsInv
<1> QED
  BY <1>1, <1>2, PTL DEF Spec

(* Of a whole and readable archive, sump-tar reports the regular files,    *)
(* each under its own name and by its own data alone, in order, whatever   *)
(* the sizes of record and buffer: nothing is carried over from a member   *)
(* to a later one but the long name meant for it.                          *)
THEOREM WholeArchiveRows == Spec => []RowsOfWholeArchive
<1>1. RowsInv => RowsOfWholeArchive
  <2> SUFFICES ASSUME RowsInv, Readable(archive), Complete(archive),
                      inlen = Len(archive) * RECORD_SIZE, digest.alg # "none",
                      pc \in {"sort", "done"}
               PROVE  output = RowsAt(archive, digest.alg)[Len(archive)]
    BY DEF RowsOfWholeArchive
  <2>1. PastBlocks
    BY DEF RowsInv, RowsOK, Decodable, OnTrack, OnTrackAt, BetweenMembers, InFile, InName, Killed
  <2>2. Whole = Len(archive)
    <3>1. Len(archive) \in Nat /\ inlen \in Nat /\ inlen <= Len(archive) * RECORD_SIZE
      BY ArchivesAssumption, LenProperties, LenAssumption
         DEF RowsInv, WalkInv, WalkOK, TarInv, IInv, ReaderTypeOK
    <3> QED
      BY <3>1, WholeFacts
  <2> QED
    BY <2>1, <2>2 DEF PastBlocks, RightRows
<1> QED
  BY <1>1, RowsInductive, PTL

(* And of a cut one the files before the cut, first and as they are.       *)
THEOREM FilesBeforeCutFirst == Spec => []IntactFilesFirst
<1>1. RowsInv => IntactFilesFirst
  <2> SUFFICES ASSUME RowsInv, Decodable
               PROVE  /\ IsPrefix(output, RightRows(Whole)) \/ IsPrefix(RightRows(Whole), output)
                      /\ pc \in {"sort", "done"} => IsPrefix(RightRows(Whole), output)
    BY DEF IntactFilesFirst, Decodable, RightRows, Whole
  <2>1. OnTrack \/ Killed \/ PastBlocks
    BY DEF RowsInv, RowsOK
  <2>2. CASE OnTrack
    <3>1. PICK b \in 0..Whole : OnTrackAt(b)
      BY <2>2 DEF OnTrack
    <3>2. /\ archive \in Seq(Blocks) /\ Len(archive) \in Nat /\ inlen \in Nat
          /\ inlen <= Len(archive) * RECORD_SIZE
      BY ArchivesAssumption, LenProperties, LenAssumption
         DEF RowsInv, WalkInv, WalkOK, TarInv, IInv, ReaderTypeOK
    <3>3. Whole \in 0..Len(archive)
      BY <3>2, WholeFacts
    <3>4. IsPrefix(RightRows(b), RightRows(Whole))
      BY <3>2, <3>3, RowsGrow DEF RightRows
    <3> QED
      BY <3>1, <3>4 DEF OnTrackAt, BetweenMembers, InFile, InName
  <2>3. CASE Killed
    BY <2>3 DEF Killed
  <2>4. CASE PastBlocks
    BY <2>4 DEF PastBlocks
  <2> QED
    BY <2>1, <2>2, <2>3, <2>4
<1> QED
  BY <1>1, RowsInductive, PTL

(* Cut between two records, the archive brings the program down if the cut *)
(* lies in a long name or in a file that OpenSSL sums, and else it gets    *)
(* its rows: no other input is read through nullptr, and none is mistaken  *)
(* for a malformed one (sump-tar.cc lines 81-95 and 103-117).              *)
THEOREM CrashInTheMiddleOnly == Spec => []CrashesOnlyThus
<1>1. RowsInv => CrashesOnlyThus
  <2> SUFFICES ASSUME RowsInv, Decodable, inlen % RECORD_SIZE = 0
               PROVE  /\ pc = "crashed" => EndsInTheMiddle
                      /\ pc \in {"sort", "done"} => ~EndsInTheMiddle
                      /\ pc # "failed"
    BY DEF CrashesOnlyThus, Decodable
  <2>1. OnTrack \/ Killed \/ PastBlocks
    BY DEF RowsInv, RowsOK
  <2> QED
    BY <2>1 DEF OnTrack, OnTrackAt, BetweenMembers, InFile, InName, Killed, PastBlocks, AtEnd
<1> QED
  BY <1>1, RowsInductive, PTL

-----------------------------------------------------------------------------
(***************************************************************************)
(* The order of the rows.                                                  *)
(***************************************************************************)
LEMMA CharFacts ==
  ASSUME NEW x \in 0..255, NEW y \in 0..255
  PROVE  /\ Char(x) \in Int /\ Char(y) \in Int
         /\ Char(x) < Char(y) \/ Char(y) < Char(x) \/ x = y
BY DEF Char

LEMMA CharInt ==
  ASSUME NEW x \in 0..255
  PROVE  Char(x) \in Int
BY DEF Char

LEMMA AsciiChar ==
  ASSUME NEW x \in 0..127
  PROVE  Char(x) = x
<1>1. x < 128
  OBVIOUS
<1> QED
  BY <1>1 DEF Char

\* s comes before t for what they have at i, their first difference.
LeadsAt(s, t, i) ==
  /\ i \in 1..Len(t) /\ i <= Len(s) + 1
  /\ \A j \in 1..(i - 1) : s[j] = t[j]
  /\ i <= Len(s) => Char(s[i]) < Char(t[i])

LEMMA PrecedesBy ==
  ASSUME NEW s, NEW t
  PROVE  Precedes(s, t) <=> \E i \in 1..Len(t) : LeadsAt(s, t, i)
BY DEF Precedes, LeadsAt

LEMMA Irreflexive ==
  ASSUME NEW s \in Seq(0..255)
  PROVE  ~Precedes(s, s)
<1> SUFFICES ASSUME NEW i \in 1..Len(s), LeadsAt(s, s, i) PROVE FALSE
  BY PrecedesBy
<1>1. s[i] \in 0..255
  BY ElementOfSeq
<1>2. Char(s[i]) < Char(s[i])
  BY LenProperties DEF LeadsAt
<1>3. Char(s[i]) \in Int
  BY <1>1, CharInt
<1> QED
  BY <1>2, <1>3

LEMMA Transitive ==
  ASSUME NEW s \in Seq(0..255), NEW t \in Seq(0..255), NEW u \in Seq(0..255),
         Precedes(s, t), Precedes(t, u)
  PROVE  Precedes(s, u)
<1>1. PICK i \in 1..Len(t) : LeadsAt(s, t, i)
  BY PrecedesBy
<1>2. PICK k \in 1..Len(u) : LeadsAt(t, u, k)
  BY PrecedesBy
<1>3. Len(s) \in Nat /\ Len(t) \in Nat /\ Len(u) \in Nat
  BY LenProperties
<1>4. /\ \A j \in 1..Len(s) : Char(s[j]) \in Int
      /\ \A j \in 1..Len(t) : Char(t[j]) \in Int
      /\ \A j \in 1..Len(u) : Char(u[j]) \in Int
  <2>1. /\ \A j \in 1..Len(s) : s[j] \in 0..255
        /\ \A j \in 1..Len(t) : t[j] \in 0..255
        /\ \A j \in 1..Len(u) : u[j] \in 0..255
    BY ElementOfSeq
  <2> QED
    BY <2>1, CharInt
<1>5. CASE i < k
  <2>1. t[i] = u[i]
    BY <1>2, <1>3, <1>5 DEF LeadsAt
  <2>2. \A j \in 1..(i - 1) : s[j] = u[j]
    BY <1>1, <1>2, <1>3, <1>5 DEF LeadsAt
  <2>3. LeadsAt(s, u, i)
    BY <1>1, <1>2, <1>3, <1>5, <2>1, <2>2 DEF LeadsAt
  <2> QED
    BY <1>2, <1>3, <1>5, <2>3, PrecedesBy DEF LeadsAt
<1>6. CASE k < i
  <2>1. s[k] = t[k] /\ k <= Len(t)
    BY <1>1, <1>3, <1>6 DEF LeadsAt
  <2>2. \A j \in 1..(k - 1) : s[j] = u[j]
    BY <1>1, <1>2, <1>3, <1>6 DEF LeadsAt
  <2>3. LeadsAt(s, u, k)
    BY <1>1, <1>2, <1>3, <1>6, <2>1, <2>2 DEF LeadsAt
  <2> QED
    BY <2>3, PrecedesBy
<1>7. CASE i = k
  <2>1. \A j \in 1..(i - 1) : s[j] = u[j]
    BY <1>1, <1>2, <1>3, <1>7 DEF LeadsAt
  <2>2. i <= Len(s) => Char(s[i]) < Char(u[i])
    BY <1>1, <1>2, <1>3, <1>4, <1>7 DEF LeadsAt
  <2>3. LeadsAt(s, u, i)
    BY <1>1, <1>2, <1>3, <1>7, <2>1, <2>2 DEF LeadsAt
  <2> QED
    BY <1>2, <1>7, <2>3, PrecedesBy
<1> QED
  BY <1>3, <1>5, <1>6, <1>7

LEMMA Connected ==
  ASSUME NEW s \in Seq(0..255), NEW t \in Seq(0..255), s # t
  PROVE  Precedes(s, t) \/ Precedes(t, s)
<1> DEFINE D == {i \in Nat : /\ i \in 1..Len(s) \/ i \in 1..Len(t)
                             /\ i \notin 1..Len(s) \/ i \notin 1..Len(t) \/ s[i] # t[i]}
<1>1. Len(s) \in Nat /\ Len(t) \in Nat
  BY LenProperties
<1>2. D # {}
  <2> SUFFICES ASSUME D = {} PROVE s = t
    OBVIOUS
  <2>1. Len(s) = Len(t)
    <3>1. CASE Len(s) < Len(t)
      <4>1. Len(t) \in D
        BY <1>1, <3>1
      <4> QED
        BY <4>1
    <3>2. CASE Len(t) < Len(s)
      <4>1. Len(s) \in D
        BY <1>1, <3>2
      <4> QED
        BY <4>1
    <3> QED
      BY <1>1, <3>1, <3>2
  <2>2. \A i \in 1..Len(s) : s[i] = t[i]
    BY <1>1, <2>1
  <2> QED
    BY <2>1, <2>2, SeqEqual
<1>3. PICK i \in D : \A k \in D : ~(k < i)
  <2>1. D \subseteq Nat
    OBVIOUS
  <2> HIDE DEF D
  <2> QED
    BY <1>2, <2>1, LeastNumber
<1>4. /\ i \in Nat
      /\ i \in 1..Len(s) \/ i \in 1..Len(t)
      /\ i \notin 1..Len(s) \/ i \notin 1..Len(t) \/ s[i] # t[i]
  OBVIOUS
<1>5. \A j \in 1..(i - 1) : j \in 1..Len(s) /\ j \in 1..Len(t) /\ s[j] = t[j]
  <2> SUFFICES ASSUME NEW j \in 1..(i - 1)
               PROVE  j \in 1..Len(s) /\ j \in 1..Len(t) /\ s[j] = t[j]
    OBVIOUS
  <2>1. j \in Nat /\ j < i /\ (j \in 1..Len(s) \/ j \in 1..Len(t))
    BY <1>1, <1>4
  <2>2. j \notin D
    BY <1>3, <2>1
  <2> QED
    BY <2>1, <2>2
<1> HIDE DEF D
<1>6. i <= Len(s) + 1 /\ i <= Len(t) + 1
  <2>1. CASE i = 1
    BY <1>1, <2>1
  <2>2. CASE i # 1
    <3>1. i - 1 \in 1..(i - 1)
      BY <1>1, <1>4, <2>2
    <3>2. i - 1 \in 1..Len(s) /\ i - 1 \in 1..Len(t)
      BY <1>5, <3>1
    <3> QED
      BY <1>1, <1>4, <3>2
  <2> QED
    BY <2>1, <2>2
<1>7. CASE i \notin 1..Len(s)
  <2>1. i \in 1..Len(t) /\ ~(i <= Len(s))
    BY <1>1, <1>4, <1>7
  <2>2. LeadsAt(s, t, i)
    BY <1>5, <1>6, <2>1 DEF LeadsAt
  <2> QED
    BY <2>1, <2>2, PrecedesBy
<1>8. CASE i \notin 1..Len(t)
  <2>1. i \in 1..Len(s) /\ ~(i <= Len(t))
    BY <1>1, <1>4, <1>8
  <2>2. LeadsAt(t, s, i)
    BY <1>5, <1>6, <2>1 DEF LeadsAt
  <2> QED
    BY <2>1, <2>2, PrecedesBy
<1>9. CASE i \in 1..Len(s) /\ i \in 1..Len(t)
  <2>1. s[i] \in 0..255 /\ t[i] \in 0..255 /\ s[i] # t[i]
    BY <1>4, <1>9, ElementOfSeq
  <2>2. Char(s[i]) < Char(t[i]) \/ Char(t[i]) < Char(s[i])
    BY <2>1, CharFacts
  <2>3. LeadsAt(s, t, i) \/ LeadsAt(t, s, i)
    BY <1>5, <1>6, <1>9, <2>2 DEF LeadsAt
  <2> QED
    BY <1>9, <2>3, PrecedesBy
<1> QED
  BY <1>7, <1>8, <1>9

(* The comparison std::sort is given puts any two different names in       *)
(* order, and never both ways or round in a circle, which is what the      *)
(* algorithm asks for: sorting is defined, and its result unique but for   *)
(* rows of one name (filename_digest_comparator, sump.h lines 656-662).    *)
THEOREM ComparatorOrders ==
  ASSUME NEW s \in Seq(0..255), NEW t \in Seq(0..255), NEW u \in Seq(0..255)
  PROVE  /\ ~Precedes(s, s)
         /\ Precedes(s, t) /\ Precedes(t, u) => Precedes(s, u)
         /\ s # t => Precedes(s, t) \/ Precedes(t, s)
<1>1. ~Precedes(s, s)
  BY Irreflexive
<1>2. Precedes(s, t) /\ Precedes(t, u) => Precedes(s, u)
  BY Transitive
<1>3. s # t => Precedes(s, t) \/ Precedes(t, s)
  BY Connected
<1> QED
  BY <1>1, <1>2, <1>3

-----------------------------------------------------------------------------
(* What is printed is the output, each row once, and sorted.               *)
SortedOK ==
  IF pc = "done"
  THEN /\ \E f \in Orders(Len(output)) : printed = [i \in 1..Len(output) |-> output[f[i]]]
       /\ \A i, j \in 1..Len(printed) :
            i < j => ~Precedes(Text(printed[j].name), Text(printed[i].name))
  ELSE printed = << >>

LEMMA ReportSorts ==
  ASSUME WalkInv, Report
  PROVE  SortedOK'
<1>1. PICK f \in Orders(Len(output)) :
        /\ \A i, j \in 1..Len(output) :
             i < j => ~Precedes(Text(output[f[j]].name), Text(output[f[i]].name))
        /\ printed' = [i \in 1..Len(output) |-> output[f[i]]]
  BY DEF Report
<1>2. archive' = archive /\ output' = output /\ pc' = "done"
  BY DEF Report, walkVars
<1>3. Len(output) \in Nat
  BY LenProperties DEF WalkInv, WalkOK
<1>4. Len(printed') = Len(output)
  BY <1>1, <1>3
<1>5. \A i \in 1..Len(output) : printed'[i] = output[f[i]]
  BY <1>1
<1>6. \A name : Text(name)' = Text(name)
  BY <1>2 DEF Text, ByteAt
<1>7. \A i, j \in 1..Len(printed') :
        i < j => ~Precedes(Text(printed[j].name), Text(printed[i].name))'
  <2> SUFFICES ASSUME NEW i \in 1..Len(output), NEW j \in 1..Len(output), i < j
               PROVE  ~Precedes(Text(printed'[j].name), Text(printed'[i].name))
    BY <1>2, <1>4 DEF Text, ByteAt
  <2> QED
    BY <1>1, <1>5
<1> QED
  BY <1>1, <1>2, <1>7 DEF SortedOK

LEMMA SortedNext == WalkInv /\ SortedOK /\ [Next]_vars => SortedOK'
<1> SUFFICES ASSUME WalkInv, SortedOK, [Next]_vars PROVE SortedOK'
  OBVIOUS
<1>1. CASE Report
  BY <1>1, ReportSorts
<1>2. CASE UNCHANGED vars \/ Stopped
  <2>1. UNCHANGED <<archive, pc, output, printed>>
    BY <1>2 DEF Stopped, vars, walkVars
  <2>2. CASE pc = "done"
    <3>1. \E f \in Orders(Len(output)) : printed = [i \in 1..Len(output) |-> output[f[i]]]
      BY <2>2 DEF SortedOK
    <3>2. \A i, j \in 1..Len(printed) :
            i < j => ~Precedes(Text(printed[j].name), Text(printed[i].name))
      BY <2>2 DEF SortedOK
    <3>3. \A i, j \in 1..Len(printed') :
            i < j => ~Precedes(Text(printed[j].name), Text(printed[i].name))'
      <4> SUFFICES ASSUME NEW i \in 1..Len(printed), NEW j \in 1..Len(printed), i < j
                   PROVE  ~Precedes(Text(printed[j].name), Text(printed[i].name))
        BY <2>1 DEF Text, ByteAt
      <4> QED
        BY <3>2
    <3> QED
      BY <2>1, <2>2, <3>1, <3>3 DEF SortedOK
  <2>3. CASE pc # "done"
    BY <2>1, <2>3 DEF SortedOK
  <2> QED
    BY <2>2, <2>3
<1>3. CASE Next /\ ~Report /\ ~Stopped
  <2>1. pc # "done" /\ pc' # "done" /\ printed' = printed
    <3>1. CASE EndOfInput \/ IgnoreRecord \/ MalformedHeader \/ FileHeader \/ OtherHeader
      BY <3>1 DEF EndOfInput, IgnoreRecord, MalformedHeader, FileHeader, OtherHeader, PushRow,
         walkVars
    <3>2. CASE LongHeader \/ CrashOnNull \/ BrokenPipe
      BY <3>2 DEF LongHeader, CrashOnNull, BrokenPipe, walkVars
    <3>3. CASE FileData \/ LongData
      BY <3>3 DEF FileData, LongData, PushRow
    <3> QED
      BY <1>3, <3>1, <3>2, <3>3 DEF Next, Step
  <2> QED
    BY <2>1 DEF SortedOK
<1> QED
  BY <1>1, <1>2, <1>3

LEMMA SortedInductive == Spec => [](WalkInv /\ SortedOK)
<1>1. Init => SortedOK
  BY DEF Init, SortedOK
<1> QED
  BY <1>1, SortedNext, WalkInductive, PTL DEF Spec

LEMMA TextType ==
  ASSUME WalkInv, NEW name \in Seq(-1..inlen)
  PROVE  Text(name) \in Seq(0..255)
<1>1. Len(name) \in Nat /\ inlen \in Nat
  BY LenProperties, LenAssumption DEF WalkInv, TarInv, IInv, ReaderTypeOK
<1>2. archive \in Seq(Blocks) /\ Len(archive) \in Nat
  BY ArchivesAssumption, LenProperties DEF WalkInv, WalkOK
<1>3. \A c \in -1..inlen : ByteAt(c) \in 0..255
  <2>1. ASSUME NEW c \in -1..inlen, c <= 0
        PROVE  ByteAt(c) \in 0..255
    <3>1. ByteAt(c) = 0
      BY <2>1, Zenon DEF ByteAt
    <3> QED
      BY <3>1
  <2> SUFFICES ASSUME NEW c \in -1..inlen, ~(c <= 0) PROVE ByteAt(c) \in 0..255
    BY <2>1, Zenon
  <2>2. BlockOf(c) \in 1..Len(archive)
    <3>1. c \in Nat /\ c # 0 /\ c <= Len(archive) * RECORD_SIZE
      <4>1. Len(archive) * RECORD_SIZE \in Nat
        BY <1>2, Sizes
      <4>2. inlen <= Len(archive) * RECORD_SIZE
        BY DEF WalkInv, WalkOK
      <4> QED
        BY <1>1, <4>1, <4>2
    <3> QED
      BY <1>2, <3>1, BlockInArchive
  <2>3. archive[BlockOf(c)] \in Blocks
    BY <1>2, <2>2, ElementOfSeq
  <2>4. archive[BlockOf(c)].bytes \in [1..RECORD_SIZE -> 0..255]
    BY <2>3 DEF Blocks
  <2>5. ((c - 1) % RECORD_SIZE) + 1 \in 1..RECORD_SIZE
    BY Sizes
  <2> QED
    BY <2>4, <2>5 DEF ByteAt
<1>4. \A i \in 1..Len(name) : ByteAt(name[i]) \in 0..255
  BY <1>3, ElementOfSeq
<1> QED
  BY <1>1, <1>4 DEF Text

(* sump-tar prints each row it made, once, and of any two rows either the  *)
(* first one's name comes first or the names are the same                  *)
(* (run_normal_mode, sump-tar.cc lines 177-187).                           *)
RowsOnceInOrder ==
  pc = "done" =>
    /\ \E f \in Orders(Len(output)) : printed = [i \in 1..Len(output) |-> output[f[i]]]
    /\ \A i, j \in 1..Len(printed) :
         LET s == Text(printed[i].name)
             t == Text(printed[j].name)
         IN  i < j => s = t \/ Precedes(s, t)

THEOREM EveryRowOnceInOrder == Spec => []RowsOnceInOrder
<1>1. ASSUME WalkInv, SortedOK PROVE RowsOnceInOrder
  <2> SUFFICES ASSUME pc = "done", NEW i \in 1..Len(printed), NEW j \in 1..Len(printed), i < j
               PROVE  \/ Text(printed[i].name) = Text(printed[j].name)
                      \/ Precedes(Text(printed[i].name), Text(printed[j].name))
    BY <1>1 DEF SortedOK, RowsOnceInOrder
  <2>1. printed[i] \in Rows(inlen) /\ printed[j] \in Rows(inlen)
    BY <1>1, ElementOfSeq DEF WalkInv, WalkOK
  <2>2. printed[i].name \in Seq(-1..inlen) /\ printed[j].name \in Seq(-1..inlen)
    BY <2>1 DEF Rows
  <2>3. Text(printed[i].name) \in Seq(0..255) /\ Text(printed[j].name) \in Seq(0..255)
    BY <1>1, <2>2, TextType
  <2>4. ~Precedes(Text(printed[j].name), Text(printed[i].name))
    BY <1>1 DEF SortedOK
  <2> QED
    BY <2>3, <2>4, Connected
<1> QED
  BY <1>1, SortedInductive, PTL

(* Where no name printed has a byte beyond 127 the order is the one the    *)
(* comment at sump.h line 658 speaks of, whatever the names are: only the  *)
(* sign of a char can part the two.                                        *)
AsciiNames == \A i \in 1..Len(printed) : Text(printed[i].name) \in Seq(0..127)

THEOREM AsciiInCollationOrder == Spec => [](AsciiNames => RowsInCollationOrder)
<1>1. ASSUME WalkInv, SortedOK, AsciiNames PROVE RowsInCollationOrder
  <2>1. Len(printed) \in Nat
    BY <1>1, LenProperties DEF WalkInv, WalkOK
  <2> SUFFICES ASSUME NEW i \in 1..(Len(printed) - 1)
               PROVE  LET s == Text(printed[i].name)
                          t == Text(printed[i + 1].name)
                      IN  \A j \in 1..Len(s) :
                            j <= Len(t) /\ (\A h \in 1..(j - 1) : s[h] = t[h]) => s[j] <= t[j]
    BY DEF RowsInCollationOrder
  <2> DEFINE s == Text(printed[i].name)
             t == Text(printed[i + 1].name)
  <2>2. i \in 1..Len(printed) /\ i + 1 \in 1..Len(printed) /\ i < i + 1
    BY <2>1
  <2>3. s \in Seq(0..127) /\ t \in Seq(0..127)
    BY <1>1, <2>2 DEF AsciiNames
  <2>4. ~Precedes(t, s)
    <3>1. printed # << >>
      BY <2>2
    <3>2. pc = "done"
      BY <1>1, <3>1 DEF SortedOK
    <3>3. \A h, k \in 1..Len(printed) :
            h < k => ~Precedes(Text(printed[k].name), Text(printed[h].name))
      BY <1>1, <3>2 DEF SortedOK
    <3> QED
      BY <2>2, <3>3
  <2> HIDE DEF s, t
  <2>5. ASSUME NEW j \in 1..Len(s), j <= Len(t), \A h \in 1..(j - 1) : s[h] = t[h]
        PROVE  s[j] <= t[j]
    <3>1. j \in 1..Len(s) /\ j \in 1..Len(t) /\ j <= Len(t) + 1
      BY <2>3, <2>5, LenProperties
    <3>2. s[j] \in 0..127 /\ t[j] \in 0..127
      BY <2>3, <3>1, ElementOfSeq
    <3>3. ~(Char(t[j]) < Char(s[j]))
      <4> SUFFICES ASSUME Char(t[j]) < Char(s[j]) PROVE FALSE
        OBVIOUS
      <4>1. LeadsAt(t, s, j)
        BY <2>5, <3>1 DEF LeadsAt
      <4> QED
        BY <2>4, <3>1, <4>1, PrecedesBy
    <3>4. Char(s[j]) = s[j] /\ Char(t[j]) = t[j]
      BY <3>2, AsciiChar
    <3>5. \A x, y \in 0..127 : ~(y < x) => x <= y
      OBVIOUS
    <3>6. ~(t[j] < s[j])
      BY <3>3, <3>4
    <3> QED
      BY <3>2, <3>5, <3>6
  <2> QED
    BY <2>5 DEF s, t
<1> QED
  BY <1>1, SortedInductive, PTL
-----------------------------------------------------------------------------
(***************************************************************************)
(* No run goes on for ever.                                                *)
(***************************************************************************)
(* What fetch_record can still hand out, the phantoms of a wrapped count   *)
(* with it.                                                                *)
RecordsLeft ==
  IF inpos = inlen /\ n_bytes = 0 THEN 0 ELSE inlen + BUFFER_SIZE - Delivered + 1

InBounds(d, len) == d \in Nat /\ len \in Nat /\ d <= len + BUFFER_SIZE

LEMMA CountBound ==
  ASSUME NEW n \in 0..(Word - 1), NEW ip \in Nat, NEW len \in Nat, ip <= len,
         NEW p \in 0..BUFFER_SIZE, NEW d,
         n <= BUFFER_SIZE => n <= ip /\ d = ip - n,
         n > BUFFER_SIZE => ip = len /\ Word - n < p /\ d = ip + (Word - n)
  PROVE  InBounds(d, len)
<1> USE Sizes
<1>1. CASE n <= BUFFER_SIZE
  BY <1>1 DEF InBounds
<1>2. CASE n > BUFFER_SIZE
  BY <1>2 DEF InBounds
<1> QED
  BY <1>1, <1>2

LEMMA DeliveredBound ==
  ASSUME IInv
  PROVE  InBounds(Delivered, inlen)
<1>1. /\ n_bytes \in 0..(Word - 1) /\ inpos \in Nat /\ inlen \in Nat /\ inpos <= inlen
      /\ pos \in 0..BUFFER_SIZE
  BY LenAssumption DEF IInv, ReaderTypeOK
<1>2. /\ n_bytes <= BUFFER_SIZE => n_bytes <= inpos
      /\ n_bytes > BUFFER_SIZE => inpos = inlen /\ Word - n_bytes < pos
  BY DEF IInv, CountOK
<1>3. n_bytes <= BUFFER_SIZE => Delivered = inpos - n_bytes
  BY DEF Delivered
<1>4. n_bytes > BUFFER_SIZE => Delivered = inpos + (Word - n_bytes)
  BY <1>1, Sizes DEF Delivered
<1> QED
  BY <1>1, <1>2, <1>3, <1>4, CountBound

(* The same of the state after a step.                                     *)
LEMMA DeliveredBoundNext ==
  ASSUME IInv'
  PROVE  InBounds(Delivered', inlen')
<1>1. BUFFER_SIZE' = BUFFER_SIZE
  BY DEF BUFFER_SIZE
<1>2. /\ n_bytes' \in 0..(Word - 1) /\ inpos' \in Nat /\ inlen' \in Nat /\ inpos' <= inlen'
      /\ pos' \in 0..BUFFER_SIZE
  BY <1>1, LenAssumption DEF IInv, ReaderTypeOK
<1>3. /\ n_bytes' <= BUFFER_SIZE => n_bytes' <= inpos'
      /\ n_bytes' > BUFFER_SIZE => inpos' = inlen' /\ Word - n_bytes' < pos'
  BY <1>1 DEF IInv, CountOK
<1>4. n_bytes' <= BUFFER_SIZE => Delivered' = inpos' - n_bytes'
  BY <1>1 DEF Delivered
<1>5. n_bytes' > BUFFER_SIZE => Delivered' = inpos' + (Word - n_bytes')
  BY <1>1, <1>2, Sizes DEF Delivered
<1> QED
  BY <1>2, <1>3, <1>4, <1>5, CountBound

LEMMA RecordsLeftType ==
  ASSUME IInv
  PROVE  /\ RecordsLeft \in Nat
         /\ inpos # inlen \/ n_bytes # 0 => RecordsLeft = inlen + BUFFER_SIZE - Delivered + 1
         /\ RecordsLeft <= inlen + BUFFER_SIZE - Delivered + 1
         /\ inpos # inlen \/ n_bytes # 0 => RecordsLeft > 0
BY DeliveredBound, Sizes DEF RecordsLeft, InBounds

LEMMA FetchLess ==
  ASSUME IInv, IInv', fetch_record
  PROVE  /\ record' # << >> => RecordsLeft' < RecordsLeft
         /\ record' = << >> => RecordsLeft' <= RecordsLeft
<1> DEFINE L == RecordsLeft   LL == RecordsLeft'
           M == inlen + BUFFER_SIZE - Delivered + 1
           MM == (inlen + BUFFER_SIZE - Delivered + 1)'
<1>1. L \in Nat /\ LL \in Nat /\ L <= M /\ LL <= MM
  <2>1. L \in Nat /\ L <= M
    BY RecordsLeftType
  <2>2. BUFFER_SIZE' = BUFFER_SIZE
    BY DEF BUFFER_SIZE
  <2>3. LL = IF inpos' = inlen' /\ n_bytes' = 0 THEN 0
             ELSE inlen' + BUFFER_SIZE - Delivered' + 1
    BY <2>2 DEF RecordsLeft
  <2>4. MM = inlen' + BUFFER_SIZE - Delivered' + 1
    BY <2>2
  <2> HIDE DEF LL, MM
  <2>5. LL \in Nat /\ LL <= MM
    BY <2>3, <2>4, DeliveredBoundNext, Sizes DEF InBounds
  <2> QED
    BY <2>1, <2>5 DEF LL, MM
<1>2. inlen' = inlen
  BY DEF fetch_record
<1>3. /\ Delivered \in Nat /\ inlen \in Nat /\ BUFFER_SIZE \in Nat
      /\ RECORD_SIZE \in Nat /\ RECORD_SIZE > 0
  BY DeliveredBound, Sizes DEF InBounds
<1>4. inpos \in Nat /\ inpos <= inlen
  BY LenAssumption DEF IInv, ReaderTypeOK
<1>5. CASE ~MustFill /\ FetchBuffered
  <2>1. Delivered' = Delivered + RECORD_SIZE /\ n_bytes # 0
    BY <1>2, <1>5, BufferedCount DEF MustFill
  <2>2. L = M
    BY <2>1, RecordsLeftType
  <2>3. MM < M
    BY <1>2, <1>3, <2>1 DEF MM, M
  <2> HIDE DEF L, LL, M, MM
  <2>4. M \in Int /\ MM \in Int
    BY <1>2, <1>3, <2>1 DEF M, MM
  <2>5. LL < L
    BY <1>1, <2>2, <2>3, <2>4
  <2> QED
    BY <1>1, <2>5 DEF L, LL
<1>6. CASE MustFill /\ FetchFilling /\ Available > 0
  <2>1. Delivered' = Delivered + RECORD_SIZE
    BY <1>2, <1>6, FillingCount
  <2>2. inpos # inlen
    BY <1>4, <1>6, Sizes DEF Available
  <2>3. L = M
    BY <2>2, RecordsLeftType
  <2>4. MM < M
    BY <1>2, <1>3, <2>1 DEF MM, M
  <2> HIDE DEF L, LL, M, MM
  <2>5. M \in Int /\ MM \in Int
    BY <1>2, <1>3, <2>1 DEF M, MM
  <2>6. LL < L
    BY <1>1, <2>3, <2>4, <2>5
  <2> QED
    BY <1>1, <2>6 DEF L, LL
<1>7. CASE MustFill /\ FetchFilling /\ Available = 0
  <2>1. inpos' = inlen /\ n_bytes' = 0 /\ record' = << >>
    BY <1>2, <1>7, FillingCount DEF FetchFilling
  <2>2. LL = 0
    BY <1>2, <2>1 DEF RecordsLeft
  <2> HIDE DEF L, LL
  <2>3. LL <= L
    BY <1>1, <2>2
  <2> QED
    BY <2>1, <2>3 DEF L, LL
<1>8. Available \in Nat
  BY AvailableFacts DEF IInv
<1> QED
  BY <1>5, <1>6, <1>7, <1>8 DEF fetch_record

(* Called again and again, fetch_record comes to return nullptr: with each *)
(* record there is less left, of a cut input too, whose count never comes  *)
(* to 0 (sump.h lines 701-709).                                            *)
THEOREM ReaderProgress ==
  ReaderSpec => /\ [](RecordsLeft \in Nat)
                /\ [][record' # << >> => RecordsLeft' < RecordsLeft]_readerVars
<1>1. IInv => RecordsLeft \in Nat
  BY RecordsLeftType
<1>2. IInv /\ IInv' /\ ReaderNext => (record' # << >> => RecordsLeft' < RecordsLeft)
  BY FetchLess DEF ReaderNext
<1> QED
  BY <1>1, <1>2, Inductive, PTL DEF ReaderSpec

(* The walk loops, the sort is ahead, or the program has come to an end.   *)
WalkRank ==
  CASE pc \in {"next", "file", "long"} -> 2
    [] pc = "sort"                     -> 1
    [] OTHER                           -> 0

(* What each step leaves less of.  Past the end of the input it is the     *)
(* data the header announced: the counter and xxh are fed nullptr for it.  *)
TarProgress ==
  \/ WalkRank' < WalkRank
  \/ WalkRank' = WalkRank /\ RecordsLeft' < RecordsLeft
  \/ WalkRank' = WalkRank /\ RecordsLeft' <= RecordsLeft /\ size' < size

(* The loop over a member's data is entered with data left.                *)
DataOK == pc = "file" => size > 0

LEMMA DataNext == WalkInv /\ WalkInv' /\ DataOK /\ [Next]_vars => DataOK'
<1> SUFFICES ASSUME WalkInv, WalkInv', DataOK, [Next]_vars, pc' = "file" PROVE size' > 0
  BY DEF DataOK
<1>1. size \in Nat /\ size' \in Nat
  BY DEF WalkInv, WalkOK
<1>2. CASE FileHeader
  <2>1. size' # 0
    BY <1>2 DEF FileHeader, PushRow
  <2> QED
    BY <1>1, <2>1
<1>3. CASE FileData
  <2>1. size' # 0
    BY <1>3 DEF FileData, PushRow
  <2> QED
    BY <1>1, <2>1
<1>4. CASE IgnoreRecord \/ OtherHeader \/ LongHeader \/ LongData
  BY <1>4 DEF IgnoreRecord, OtherHeader, LongHeader, LongData
<1>5. CASE EndOfInput \/ MalformedHeader \/ CrashOnNull \/ Report \/ BrokenPipe
  BY <1>5 DEF EndOfInput, MalformedHeader, CrashOnNull, Report, BrokenPipe
<1>6. CASE Stopped \/ UNCHANGED vars
  <2>1. pc' = pc /\ size' = size
    BY <1>6 DEF Stopped, vars, walkVars
  <2> QED
    BY <2>1 DEF DataOK
<1> QED
  BY <1>2, <1>3, <1>4, <1>5, <1>6 DEF Next, Step

(* A record in hand, the walk goes on or the program stops.                *)
LEMMA RecordProgress ==
  ASSUME WalkInv, WalkInv', fetch_record, record' # << >>,
         pc \in {"next", "file", "long"},
         pc' \in {"next", "file", "long", "failed", "crashed"}
  PROVE  TarProgress
<1>1. RecordsLeft' < RecordsLeft
  BY FetchLess DEF WalkInv, TarInv
<1>2. WalkRank = 2
  BY DEF WalkRank
<1>3. WalkRank' = 2 \/ WalkRank' = 0
  BY DEF WalkRank
<1>4. WalkRank' < WalkRank \/ WalkRank' = WalkRank
  BY <1>2, <1>3
<1> QED
  BY <1>1, <1>4 DEF TarProgress

(* No record: the data announced is less by what is left of it.            *)
LEMMA NullProgress ==
  ASSUME WalkInv, WalkInv', DataOK, FileData, record' = << >>
  PROVE  TarProgress
<1>1. /\ fetch_record /\ pc = "file" /\ pc' \in {"next", "file", "crashed"}
      /\ size' = size - Rest(size)
  BY DEF FileData, PushRow
<1>2. RecordsLeft' <= RecordsLeft
  BY <1>1, FetchLess DEF WalkInv, TarInv
<1>3. size \in Nat /\ size > 0
  BY <1>1 DEF DataOK, WalkInv, WalkOK
<1>4. Rest(size) \in Nat /\ Rest(size) > 0
  BY <1>3, Sizes DEF Rest
<1>5. size' < size
  BY <1>1, <1>3, <1>4
<1>6. WalkRank' = WalkRank \/ WalkRank' < WalkRank
  BY <1>1 DEF WalkRank
<1> QED
  BY <1>2, <1>5, <1>6 DEF TarProgress

LEMMA StepProgress ==
  ASSUME WalkInv, WalkInv', DataOK, Next, ~Stopped
  PROVE  TarProgress
<1>1. ASSUME record' = << >>, NEW h \in ReadsAs(record')
      PROVE  FALSE
  BY <1>1 DEF ReadsAs
<1>2. CASE IgnoreRecord \/ FileHeader \/ OtherHeader \/ LongHeader
  <2>1. fetch_record /\ pc = "next" /\ pc' \in {"next", "file", "long", "crashed"}
    BY <1>2 DEF IgnoreRecord, FileHeader, OtherHeader, LongHeader, PushRow
  <2>2. \E h \in ReadsAs(record') : TRUE
    BY <1>2 DEF IgnoreRecord, FileHeader, OtherHeader, LongHeader
  <2>3. record' # << >>
    BY <1>1, <2>2
  <2> QED
    BY <2>1, <2>3, RecordProgress
<1>3. CASE EndOfInput \/ MalformedHeader \/ CrashOnNull \/ Report \/ BrokenPipe
  <2>1. CASE Report
    BY <2>1 DEF Report, WalkRank, TarProgress
  <2>2. CASE EndOfInput \/ MalformedHeader \/ CrashOnNull \/ BrokenPipe
    <3>1. pc \in {"next", "file", "long"} /\ pc' \in {"sort", "failed", "crashed", "killed"}
      BY <2>2 DEF EndOfInput, MalformedHeader, CrashOnNull, BrokenPipe
    <3>2. WalkRank = 2 /\ (WalkRank' = 1 \/ WalkRank' = 0)
      BY <3>1 DEF WalkRank
    <3> QED
      BY <3>2 DEF TarProgress
  <2> QED
    BY <1>3, <2>1, <2>2
<1>4. CASE FileData
  <2>1. fetch_record /\ pc = "file" /\ pc' \in {"next", "file", "crashed"}
    BY <1>4 DEF FileData, PushRow
  <2> QED
    BY <1>4, <2>1, RecordProgress, NullProgress
<1>5. CASE LongData
  BY <1>5, RecordProgress DEF LongData
<1> QED
  BY <1>2, <1>3, <1>4, <1>5 DEF Next, Step

(* The walk cannot go on for ever: with each step before the program has   *)
(* stopped it is nearer its end, or has fewer records to fetch, or, the    *)
(* input over, less left of the data the last header announced; and all    *)
(* three are numbers (tar_digest, sump-tar.cc lines 54-132).  The runs'    *)
(* Terminates adds that there is such a step.                              *)
THEOREM WalkProgress ==
  Spec => /\ [](WalkRank \in Nat /\ RecordsLeft \in Nat /\ size \in Nat)
          /\ [][TarProgress \/ Stopped]_vars
<1>1. Init => DataOK
  BY DEF Init, DataOK
<1>2. WalkInv /\ WalkInv' /\ DataOK /\ [Next]_vars => DataOK'
  BY DataNext
<1>3. WalkInv => WalkRank \in Nat /\ RecordsLeft \in Nat /\ size \in Nat
  <2> SUFFICES ASSUME WalkInv PROVE WalkRank \in Nat /\ RecordsLeft \in Nat /\ size \in Nat
    OBVIOUS
  <2>1. WalkRank \in Nat
    BY DEF WalkRank
  <2>2. RecordsLeft \in Nat /\ size \in Nat
    BY RecordsLeftType DEF WalkInv, WalkOK, TarInv
  <2> QED
    BY <2>1, <2>2
<1>4. WalkInv /\ WalkInv' /\ DataOK /\ Next => TarProgress \/ Stopped
  BY StepProgress
<1> QED
  BY <1>1, <1>2, <1>3, <1>4, WalkInductive, PTL DEF Spec
=============================================================================
