-------------------------- MODULE MultiDigestProof --------------------------
(***************************************************************************)
(* Proofs about MultiDigest, for every buffer size, input length, list of  *)
(* algorithms and number of threads.                                       *)
(***************************************************************************)
EXTENDS MultiDigest, SequenceTheorems, FiniteSetTheorems, TLAPS

(* The chunk in hand lies at the start of the buffer.                      *)
WindowOK ==
  /\ count <= pos
  /\ pc = "write" => count # 0
  /\ pc \in {"write", "update", "killed"} =>
       \A i \in 1..count : buffer[i] = pos - count + i

(* Digest k is still the object its name asked for.                        *)
KindOK ==
  \A k \in Lanes :
    /\ digests[k].alg = build_digest(Algs[k])
    /\ digests[k].ready = (build_digest(Algs[k]) # "xxh")

(* How much of the input digest k has absorbed.                            *)
Absorbed(k) ==
  IF pc \in {"write", "killed"} THEN pos - count
  ELSE IF pc = "update" THEN pos - count + idx[k]
  ELSE pos

SeenOK == \A k \in Lanes : digests[k].seen = Bytes(Absorbed(k))

(* The progress of the iterations inside the loop, and after the barrier.  *)
LoopOK ==
  /\ \A k \in Lanes : iter[k] = "running" => pc = "update"
  /\ pc = "update" =>
       \A k \in Lanes :
         /\ idx[k] <= count
         /\ iter[k] = "waiting" => idx[k] = 0
         /\ iter[k] = "done" => idx[k] = count
  /\ pc = "read" => \A k \in Lanes : idx[k] = count

(* The finalize loop: one checksum for each digest it has passed.          *)
OutputsOK ==
  /\ pc \in {"read", "write", "update", "killed"} => outputs = << >>
  /\ pc = "finalize" => Len(outputs) < Len(Algs)
  /\ pc = "done" => Len(outputs) = Len(Algs)
  /\ pc \in {"finalize", "done"} => pos = InputLen \/ inError
  /\ \A k \in 1..Len(outputs) : outputs[k] \in finalize(digests[k])

IInv == TypeOK /\ WindowOK /\ KindOK /\ SeenOK /\ LoopOK /\ OutputsOK

-----------------------------------------------------------------------------
(* The first n bytes are a sequence of n of the bytes there are.           *)
LEMMA BytesType ==
  ASSUME NEW n \in Nat, NEW m \in Nat, n <= m
  PROVE  /\ Bytes(n) \in Seq(1..m)
         /\ Len(Bytes(n)) = n
         /\ \A i \in 1..n : Bytes(n)[i] = i
  BY DEF Bytes

(* Absorbing the next byte of the input extends the prefix absorbed.       *)
LEMMA BytesExtend ==
  ASSUME NEW n \in Nat
  PROVE  Bytes(n) \o <<n + 1>> = Bytes(n + 1)
<1> DEFINE b == Bytes(n) \o <<n + 1>>
<1>1. Bytes(n) \in Seq(Nat) /\ Len(Bytes(n)) = n /\ \A i \in 1..n : Bytes(n)[i] = i
  BY DEF Bytes
<1>2. Bytes(n + 1) \in Seq(Nat) /\ Len(Bytes(n + 1)) = n + 1
      /\ \A i \in 1..(n + 1) : Bytes(n + 1)[i] = i
  BY DEF Bytes
<1>3. <<n + 1>> \in Seq(Nat) /\ Len(<<n + 1>>) = 1 /\ <<n + 1>>[1] = n + 1
  OBVIOUS
<1>4. b \in Seq(Nat) /\ Len(b) = n + 1
  BY <1>1, <1>3, ConcatProperties
<1>5. \A i \in 1..(n + 1) : b[i] = i
  BY <1>1, <1>3, ConcatProperties
<1> QED
  BY <1>2, <1>4, <1>5, SeqEqual

LEMMA BytesFromEmpty ==
  ASSUME NEW n \in Nat
  PROVE  << >> \o Bytes(n) = Bytes(n)
<1>1. Bytes(n) \in Seq(Nat)
  BY DEF Bytes
<1> QED
  BY <1>1, ConcatEmptySeq

(* Every name builds a digest of one of the known algorithms.              *)
LEMMA BuildsAlgorithm ==
  ASSUME NEW name
  PROVE  build_digest(name) \in Algorithms
  BY DEF build_digest, Algorithms, OpenSSLNames

LEMMA NewDigestType ==
  ASSUME NEW name, NEW Byte
  PROVE  NewDigest(name) \in DigestObjects(Byte)
  BY BuildsAlgorithm DEF NewDigest, DigestObjects

LEMMA UpdateType ==
  ASSUME NEW Byte, NEW d \in DigestObjects(Byte), NEW b \in Seq(Byte)
  PROVE  update(d, b) \in DigestObjects(Byte)
<1>1. d.seen \o b \in Seq(Byte)
  BY ConcatProperties DEF DigestObjects
<1> QED
  BY <1>1 DEF update, DigestObjects

LEMMA FinalizeType ==
  ASSUME NEW N \in Nat, NEW d \in DigestObjects(1..N), NEW s \in finalize(d)
  PROVE  s \in Checksums
<1>1. d.seen \in Seq(Int) /\ Len(d.seen) \in Nat /\ d.alg \in Algorithms
  <2>1. d.seen \in Seq(1..N) /\ d.alg \in Algorithms
    BY DEF DigestObjects
  <2> QED
    BY <2>1
<1>2. Checksum(d.alg, d.seen) \in Checksums
  BY <1>1 DEF Checksum, Checksums
<1>3. [alg |-> d.alg, of |-> Garbage] \in Checksums
  BY <1>1 DEF Garbage, Checksums
<1> QED
  BY <1>2, <1>3 DEF finalize

-----------------------------------------------------------------------------
USE DEF Lanes

LEMMA LanesFact == Len(Algs) \in Nat /\ Len(Algs) > 0
  BY AlgsAssumption

LEMMA InitInv == Init => IInv
<1> SUFFICES ASSUME Init PROVE IInv
  OBVIOUS
<1>1. TypeOK
  <2>1. \A k \in Lanes : NewDigest(Algs[k]) \in DigestObjects(1..InputLen)
    BY NewDigestType
  <2>2. digests \in [Lanes -> DigestObjects(1..InputLen)]
    BY <2>1 DEF Init
  <2>3. buffer \in [1..BUFFER_SIZE -> 0..InputLen]
    BY InputAssumption DEF Init
  <2>4. idx \in [Lanes -> 0..BUFFER_SIZE] /\ iter \in [Lanes -> {"waiting", "running", "done"}]
    BY BufferAssumption DEF Init
  <2>5. given \in Seq(1..InputLen) /\ outputs \in Seq(Checksums)
    BY DEF Init
  <2>6. inError \in BOOLEAN /\ outError \in BOOLEAN
    BY DEF Init
  <2> QED
    BY <2>2, <2>3, <2>4, <2>5, <2>6, BufferAssumption, InputAssumption DEF Init, TypeOK
<1>2. WindowOK
  BY DEF Init, WindowOK
<1>3. KindOK
  BY DEF Init, KindOK, NewDigest
<1>4. SeenOK
  <2>1. \A k \in Lanes : digests[k].seen = << >>
    BY DEF Init, NewDigest
  <2>2. Bytes(0) = << >>
    BY DEF Bytes
  <2> QED
    BY <2>1, <2>2 DEF Init, SeenOK, Absorbed
<1>5. LoopOK
  BY DEF Init, LoopOK
<1>6. OutputsOK
  BY LanesFact DEF Init, OutputsOK
<1> QED
  BY <1>1, <1>2, <1>3, <1>4, <1>5, <1>6 DEF IInv

(* Reading the next chunk.                                                 *)
LEMMA ReadInv == IInv /\ Read => IInv'
<1> SUFFICES ASSUME IInv, Read PROVE IInv'
  OBVIOUS
<1> USE BufferAssumption, InputAssumption, LanesFact
<1>1. PICK n \in 0..BUFFER_SIZE :
        /\ fread(n)
        /\ count' = n
        /\ pc' = IF n > 0 THEN "write" ELSE "finalize"
  BY DEF Read
<1>2. /\ pc = "read" /\ pos \in Nat /\ pos' = pos + n /\ n \in Nat
      /\ pos' <= InputLen /\ UNCHANGED <<outputVars, loopVars, outputs>>
  BY <1>1 DEF Read, fread, IInv, TypeOK
<1>3. TypeOK'
  <2>1. buffer' \in [1..BUFFER_SIZE -> 0..InputLen]
    BY <1>1, <1>2 DEF fread, IInv, TypeOK
  <2>2. inError' \in BOOLEAN
    BY <1>1 DEF fread
  <2>3. pc' \in {"write", "finalize"}
    BY <1>1
  <2> QED
    BY <1>1, <1>2, <2>1, <2>2, <2>3 DEF IInv, TypeOK, outputVars, loopVars
<1>4. WindowOK'
  <2>1. \A i \in 1..n : buffer'[i] = pos + i
    BY <1>1 DEF fread
  <2>2. \A i \in 1..count' : buffer'[i] = pos' - count' + i
    BY <1>1, <1>2, <2>1
  <2> QED
    BY <1>1, <1>2, <2>2 DEF WindowOK
<1>5. KindOK'
  BY <1>2 DEF IInv, KindOK, loopVars
<1>6. SeenOK'
  <2>1. \A k \in Lanes : Absorbed(k) = pos
    BY <1>2 DEF Absorbed
  <2>2. \A k \in Lanes : Absorbed(k)' = pos
    BY <1>1, <1>2 DEF Absorbed
  <2> QED
    BY <1>2, <2>1, <2>2 DEF IInv, SeenOK, loopVars
<1>7. LoopOK'
  BY <1>1, <1>2 DEF IInv, LoopOK, loopVars
<1>8. OutputsOK'
  <2>1. outputs = << >> /\ outputs' = << >>
    BY <1>2 DEF IInv, OutputsOK
  <2>2. n = 0 => pos' = InputLen \/ (n < BUFFER_SIZE /\ n < InputLen - pos)
    BY <1>1, <1>2 DEF fread, IInv, TypeOK
  <2>3. inError' = (inError \/ (n < BUFFER_SIZE /\ n < InputLen - pos))
    BY <1>1 DEF fread
  <2>4. n = 0 => pos' = InputLen \/ inError'
    BY <2>2, <2>3, Zenon
  <2> QED
    BY <1>1, <2>1, <2>4 DEF OutputsOK
<1> QED
  BY <1>3, <1>4, <1>5, <1>6, <1>7, <1>8 DEF IInv

(* Entering the parallel loop, whatever became of the chunk's write.       *)
LEMMA EnterInv ==
  ASSUME IInv, pc = "write", pc' = "update",
         iter' = [k \in Lanes |-> "waiting"], idx' = [k \in Lanes |-> 0],
         given' \in Seq(1..InputLen), outError' \in BOOLEAN,
         UNCHANGED <<inputVars, outfile, digests, outputs>>
  PROVE  IInv'
<1>1. TypeOK'
  BY BufferAssumption DEF IInv, TypeOK, inputVars
<1>2. WindowOK'
  BY DEF IInv, WindowOK, inputVars
<1>3. KindOK'
  BY DEF IInv, KindOK
<1>4. SeenOK'
  <2>1. \A k \in Lanes : Absorbed(k) = pos - count /\ Absorbed(k)' = pos - count + 0
    BY DEF Absorbed, inputVars
  <2>2. pos - count + 0 = pos - count
    BY DEF IInv, TypeOK
  <2> QED
    BY <2>1, <2>2 DEF IInv, SeenOK
<1>5. LoopOK'
  BY DEF IInv, TypeOK, LoopOK, inputVars
<1>6. OutputsOK'
  BY DEF IInv, OutputsOK
<1> QED
  BY <1>1, <1>2, <1>3, <1>4, <1>5, <1>6 DEF IInv

(* What fwrite accepts of a chunk are bytes of the input.                  *)
LEMMA GivenType ==
  ASSUME IInv, pc = "write", NEW m \in 0..count
  PROVE  /\ SubSeq(buffer, 1, m) = [i \in 1..m |-> pos - count + i]
         /\ given \o SubSeq(buffer, 1, m) \in Seq(1..InputLen)
<1>1. /\ buffer \in [1..BUFFER_SIZE -> 0..InputLen] /\ count \in 0..BUFFER_SIZE
      /\ pos \in 0..InputLen /\ given \in Seq(1..InputLen) /\ count <= pos
      /\ \A i \in 1..count : buffer[i] = pos - count + i
  BY DEF IInv, TypeOK, WindowOK
<1>2. buffer \in Seq(0..InputLen) /\ Len(buffer) = BUFFER_SIZE
  <2>1. BUFFER_SIZE \in Nat
    BY BufferAssumption
  <2>2. buffer \in Seq(0..InputLen)
    <3>1. Seq(0..InputLen) = UNION {[1..n -> 0..InputLen] : n \in Nat}
      BY SeqDef
    <3> QED
      BY <1>1, <2>1, <3>1
  <2>3. DOMAIN buffer = 1..BUFFER_SIZE /\ DOMAIN buffer = 1..Len(buffer) /\ Len(buffer) \in Nat
    BY <1>1, <2>2, LenProperties
  <2>4. Len(buffer) = BUFFER_SIZE
    BY <2>1, <2>3
  <2> QED
    BY <2>2, <2>4
<1>3. /\ SubSeq(buffer, 1, m) \in Seq(0..InputLen)
      /\ Len(SubSeq(buffer, 1, m)) = m
      /\ \A i \in 1..m : SubSeq(buffer, 1, m)[i] = buffer[i]
  BY <1>1, <1>2, BufferAssumption, SubSeqProperties
<1>4. \A i \in 1..m : SubSeq(buffer, 1, m)[i] = pos - count + i
  BY <1>1, <1>3
<1>5. [i \in 1..m |-> pos - count + i] \in Seq(1..InputLen)
  BY <1>1, InputAssumption, BufferAssumption
<1>6. SubSeq(buffer, 1, m) = [i \in 1..m |-> pos - count + i]
  BY <1>1, <1>3, <1>4, <1>5, SeqEqual
<1> QED
  BY <1>1, <1>5, <1>6, ConcatProperties

LEMMA WriteInv == IInv /\ Write => IInv'
<1> SUFFICES ASSUME IInv, Write PROVE IInv'
  OBVIOUS
<1>1. PICK m \in 0..count : WriteChunk(m)
  BY DEF Write
<1>2. pc = "write"
  BY DEF Write
<1>3. given' \in Seq(1..InputLen)
  BY <1>1, <1>2, GivenType DEF WriteChunk
<1>4. outError' \in BOOLEAN
  BY <1>1 DEF WriteChunk
<1> QED
  BY <1>1, <1>2, <1>3, <1>4, EnterInv DEF WriteChunk

LEMMA SkipWriteInv == IInv /\ SkipWrite => IInv'
  BY EnterInv DEF SkipWrite, outputVars, IInv, TypeOK

LEMMA BrokenPipeInv == IInv /\ BrokenPipe => IInv'
<1> SUFFICES ASSUME IInv, BrokenPipe PROVE IInv'
  OBVIOUS
<1>1. PICK m \in 0..(count - 1) : given' = given \o SubSeq(buffer, 1, m)
  BY DEF BrokenPipe
<1>2. pc = "write" /\ pc' = "killed" /\ m \in 0..count
  BY <1>1 DEF BrokenPipe, IInv, TypeOK
<1>3. given' \in Seq(1..InputLen)
  BY <1>1, <1>2, GivenType
<1>4. TypeOK'
  BY <1>2, <1>3 DEF BrokenPipe, IInv, TypeOK, inputVars, loopVars
<1>5. WindowOK' /\ KindOK' /\ LoopOK' /\ OutputsOK'
  BY <1>2 DEF BrokenPipe, IInv, WindowOK, KindOK, LoopOK, OutputsOK, inputVars, loopVars
<1>6. SeenOK'
  BY <1>2 DEF BrokenPipe, IInv, SeenOK, Absorbed, inputVars, loopVars
<1> QED
  BY <1>4, <1>5, <1>6 DEF IInv

LEMMA StartIterationInv ==
  ASSUME IInv, NEW k \in Lanes, StartIteration(k)
  PROVE  IInv'
<1>1. pc = "update" /\ pc' = "update" /\ iter[k] = "waiting"
  BY DEF StartIteration
<1>2. TypeOK'
  BY <1>1 DEF StartIteration, IInv, TypeOK, inputVars, outputVars
<1>3. WindowOK' /\ KindOK' /\ OutputsOK'
  BY <1>1 DEF StartIteration, IInv, WindowOK, KindOK, OutputsOK, inputVars, outputVars
<1>4. SeenOK'
  BY <1>1 DEF StartIteration, IInv, SeenOK, Absorbed, inputVars
<1>5. LoopOK'
  BY <1>1 DEF StartIteration, IInv, TypeOK, LoopOK, inputVars
<1> QED
  BY <1>2, <1>3, <1>4, <1>5 DEF IInv

(* The one step that reads the shared buffer: the byte it finds there is   *)
(* the one that comes next for this digest.                                *)
LEMMA UpdateByteInv ==
  ASSUME IInv, NEW k \in Lanes, UpdateByte(k)
  PROVE  IInv'
<1> DEFINE byte == buffer[idx[k] + 1]
<1> USE BufferAssumption, InputAssumption
<1>1. /\ iter[k] = "running" /\ pc = "update" /\ pc' = "update"
      /\ idx[k] < count /\ idx[k] \in Nat /\ count \in 0..BUFFER_SIZE /\ pos \in 0..InputLen
      /\ count <= pos
      /\ digests \in [Lanes -> DigestObjects(1..InputLen)]
  <2>1. iter[k] = "running" /\ idx[k] < count /\ pc = "update" /\ pc' = pc
    BY DEF UpdateByte, IInv, LoopOK
  <2>2. /\ idx[k] \in 0..BUFFER_SIZE /\ count \in 0..BUFFER_SIZE /\ pos \in 0..InputLen
        /\ digests \in [Lanes -> DigestObjects(1..InputLen)]
    BY DEF IInv, TypeOK
  <2>3. count <= pos
    BY DEF IInv, WindowOK
  <2> QED
    BY <2>1, <2>2, <2>3
<1>2. /\ byte = pos - count + idx[k] + 1
      /\ pos - count + idx[k] \in Nat
      /\ byte \in 1..InputLen
  <2>1. idx[k] + 1 \in 1..count
    BY <1>1
  <2>2. byte = pos - count + (idx[k] + 1)
    BY <1>1, <2>1 DEF IInv, WindowOK
  <2> QED
    BY <1>1, <2>2
<1>3. /\ digests[k].seen = Bytes(pos - count + idx[k])
      /\ digests[k] \in DigestObjects(1..InputLen)
  BY <1>1 DEF IInv, SeenOK, Absorbed
<1>4. /\ digests'[k] = update(digests[k], <<byte>>)
      /\ \A j \in Lanes \ {k} : digests'[j] = digests[j]
      /\ idx'[k] = idx[k] + 1
      /\ \A j \in Lanes \ {k} : idx'[j] = idx[j]
  BY <1>1 DEF UpdateByte, IInv, TypeOK
<1>5. digests'[k].seen = Bytes(pos - count + idx[k] + 1)
  <2>1. digests'[k].seen = Bytes(pos - count + idx[k]) \o <<pos - count + idx[k] + 1>>
    BY <1>2, <1>3, <1>4 DEF update, DigestObjects
  <2> QED
    BY <1>2, <2>1, BytesExtend
<1>6. digests'[k] \in DigestObjects(1..InputLen)
  <2>1. <<byte>> \in Seq(1..InputLen)
    BY <1>2
  <2> QED
    BY <1>3, <1>4, <2>1, UpdateType
<1>7. TypeOK'
  <2>1. digests' \in [Lanes -> DigestObjects(1..InputLen)]
    BY <1>1, <1>6 DEF UpdateByte
  <2>2. idx' \in [Lanes -> 0..BUFFER_SIZE]
    BY <1>1 DEF UpdateByte, IInv, TypeOK
  <2> QED
    BY <2>1, <2>2 DEF UpdateByte, IInv, TypeOK, inputVars, outputVars
<1>8. WindowOK'
  BY DEF UpdateByte, IInv, WindowOK, inputVars
<1>9. KindOK'
  <2>1. digests'[k].alg = digests[k].alg /\ digests'[k].ready = digests[k].ready
    BY <1>3, <1>4 DEF update, DigestObjects
  <2> QED
    BY <1>4, <2>1 DEF IInv, KindOK
<1>10. SeenOK'
  <2>1. \A j \in Lanes : Absorbed(j) = pos - count + idx[j]
    BY <1>1 DEF Absorbed
  <2>2. \A j \in Lanes : Absorbed(j)' = pos - count + idx'[j]
    BY <1>1 DEF Absorbed, UpdateByte, inputVars
  <2>3. ASSUME NEW j \in Lanes \ {k}
        PROVE  digests'[j].seen = Bytes(Absorbed(j)')
    BY <1>4, <2>1, <2>2 DEF IInv, SeenOK
  <2>4. digests'[k].seen = Bytes(Absorbed(k)')
    <3>1. Absorbed(k)' = pos - count + idx[k] + 1
      BY <1>1, <1>4, <2>2
    <3> QED
      BY <1>5, <3>1
  <2> QED
    BY <2>3, <2>4 DEF SeenOK
<1>11. LoopOK'
  BY <1>1, <1>4 DEF UpdateByte, IInv, TypeOK, LoopOK, inputVars
<1>12. OutputsOK'
  BY <1>1 DEF UpdateByte, IInv, OutputsOK, inputVars
<1> QED
  BY <1>7, <1>8, <1>9, <1>10, <1>11, <1>12 DEF IInv

LEMMA EndIterationInv ==
  ASSUME IInv, NEW k \in Lanes, EndIteration(k)
  PROVE  IInv'
<1>1. iter[k] = "running" /\ pc = "update" /\ pc' = "update" /\ idx[k] = count
  BY DEF EndIteration, IInv, LoopOK
<1>2. TypeOK'
  BY <1>1 DEF EndIteration, IInv, TypeOK, inputVars, outputVars
<1>3. WindowOK' /\ KindOK' /\ OutputsOK'
  BY <1>1 DEF EndIteration, IInv, WindowOK, KindOK, OutputsOK, inputVars, outputVars
<1>4. SeenOK'
  BY <1>1 DEF EndIteration, IInv, SeenOK, Absorbed, inputVars
<1>5. LoopOK'
  BY <1>1 DEF EndIteration, IInv, TypeOK, LoopOK, inputVars
<1> QED
  BY <1>2, <1>3, <1>4, <1>5 DEF IInv

(* Past the barrier every digest has absorbed the whole chunk.             *)
LEMMA BarrierInv == IInv /\ Barrier => IInv'
<1> SUFFICES ASSUME IInv, Barrier PROVE IInv'
  OBVIOUS
<1>1. pc = "update" /\ pc' = "read" /\ \A k \in Lanes : idx[k] = count
  BY DEF Barrier, IInv, LoopOK
<1>2. TypeOK'
  BY <1>1 DEF Barrier, IInv, TypeOK, inputVars, outputVars, loopVars
<1>3. WindowOK' /\ KindOK' /\ OutputsOK'
  BY <1>1 DEF Barrier, IInv, WindowOK, KindOK, OutputsOK, inputVars, loopVars
<1>4. SeenOK'
  <2>1. \A k \in Lanes : Absorbed(k) = pos - count + count
    BY <1>1 DEF Absorbed
  <2>2. pos - count + count = pos
    BY DEF IInv, TypeOK
  <2>3. \A k \in Lanes : Absorbed(k)' = pos
    BY <1>1 DEF Absorbed, Barrier, inputVars
  <2> QED
    BY <2>1, <2>2, <2>3 DEF Barrier, IInv, SeenOK, loopVars
<1>5. LoopOK'
  BY <1>1 DEF Barrier, IInv, LoopOK, inputVars, loopVars
<1> QED
  BY <1>2, <1>3, <1>4, <1>5 DEF IInv

LEMMA FinalizeInv == IInv /\ Finalize => IInv'
<1> SUFFICES ASSUME IInv, Finalize PROVE IInv'
  OBVIOUS
<1> DEFINE k == Len(outputs) + 1
<1>1. PICK s \in finalize(digests[k]) : outputs' = Append(outputs, s)
  BY DEF Finalize
<1>2. /\ pc = "finalize" /\ outputs \in Seq(Checksums) /\ Len(outputs) \in Nat
      /\ Len(outputs) < Len(Algs) /\ k \in Lanes
      /\ pc' = IF k = Len(Algs) THEN "done" ELSE "finalize"
  BY LanesFact DEF Finalize, IInv, TypeOK, OutputsOK
<1>3. s \in Checksums
  BY <1>1, <1>2, FinalizeType, InputAssumption DEF IInv, TypeOK
<1>4. /\ outputs' \in Seq(Checksums) /\ Len(outputs') = k
      /\ outputs'[k] = s
      /\ \A i \in 1..Len(outputs) : outputs'[i] = outputs[i]
  BY <1>1, <1>2, <1>3, AppendProperties
<1>5. TypeOK'
  BY <1>2, <1>4 DEF Finalize, IInv, TypeOK, inputVars, outputVars, loopVars
<1>6. WindowOK' /\ KindOK' /\ LoopOK'
  BY <1>2 DEF Finalize, IInv, WindowOK, KindOK, LoopOK, inputVars, loopVars
<1>7. SeenOK'
  BY <1>2 DEF Finalize, IInv, SeenOK, Absorbed, inputVars, loopVars
<1>8. OutputsOK'
  <2>1. \A i \in 1..Len(outputs') : outputs'[i] \in finalize(digests[i])
    BY <1>1, <1>2, <1>4 DEF IInv, OutputsOK
  <2>2. pos = InputLen \/ inError
    BY <1>2 DEF IInv, OutputsOK
  <2> QED
    BY <1>2, <1>4, <2>1, <2>2, LanesFact DEF Finalize, OutputsOK, inputVars, loopVars
<1> QED
  BY <1>5, <1>6, <1>7, <1>8 DEF IInv

LEMMA StutterInv == IInv /\ UNCHANGED vars => IInv'
  BY DEF IInv, vars, TypeOK, WindowOK, KindOK, SeenOK, Absorbed, LoopOK, OutputsOK

LEMMA NextInv == IInv /\ [Next]_vars => IInv'
<1> SUFFICES ASSUME IInv, [Next]_vars PROVE IInv'
  OBVIOUS
<1>1. CASE Read
  BY <1>1, ReadInv
<1>2. CASE Write
  BY <1>2, WriteInv
<1>3. CASE SkipWrite
  BY <1>3, SkipWriteInv
<1>4. CASE BrokenPipe
  BY <1>4, BrokenPipeInv
<1>5. CASE \E k \in Lanes : StartIteration(k) \/ UpdateByte(k) \/ EndIteration(k)
  BY <1>5, StartIterationInv, UpdateByteInv, EndIterationInv
<1>6. CASE Barrier
  BY <1>6, BarrierInv
<1>7. CASE Finalize
  BY <1>7, FinalizeInv
<1>8. CASE Stopped
  BY <1>8, StutterInv DEF Stopped
<1>9. CASE UNCHANGED vars
  BY <1>9, StutterInv
<1> QED
  BY <1>1, <1>2, <1>3, <1>4, <1>5, <1>6, <1>7, <1>8, <1>9 DEF Next

LEMMA Inductive == Spec => []IInv
  BY InitInv, NextInv, PTL DEF Spec

-----------------------------------------------------------------------------
(* Every variable keeps its type, for every buffer size, input, list of    *)
(* algorithms and team of threads.                                         *)
THEOREM TypeCorrect == Spec => []TypeOK
  BY Inductive, PTL DEF IInv

(* However the threads interleave, every digest has absorbed a gapless     *)
(* prefix of the input and lags by at most the chunk in hand.              *)
THEOREM InStep == Spec => []DigestsInStep
<1>1. IInv => DigestsInStep
  <2> SUFFICES ASSUME IInv, NEW k \in Lanes
               PROVE  /\ digests[k].seen = Bytes(Len(digests[k].seen))
                      /\ Len(digests[k].seen) \in (pos - count)..pos
    BY DEF DigestsInStep
  <2>1. /\ pos \in Nat /\ count \in Nat /\ count <= pos /\ idx[k] \in Nat
        /\ pc = "update" => idx[k] <= count
    <3>1. pos \in 0..InputLen /\ count \in 0..BUFFER_SIZE /\ idx[k] \in 0..BUFFER_SIZE
      BY DEF IInv, TypeOK
    <3>2. count <= pos /\ (pc = "update" => idx[k] <= count)
      BY DEF IInv, WindowOK, LoopOK
    <3> QED
      BY <3>1, <3>2, BufferAssumption, InputAssumption
  <2>2. Absorbed(k) \in (pos - count)..pos /\ Absorbed(k) \in Nat
    BY <2>1 DEF Absorbed
  <2>3. Len(Bytes(Absorbed(k))) = Absorbed(k)
    BY <2>2, BytesType
  <2> QED
    BY <2>2, <2>3 DEF IInv, SeenOK
<1> QED
  BY <1>1, Inductive, PTL

(* A report is of exactly the bytes taken, algorithm by algorithm, and all *)
(* the input was taken unless it failed.                                   *)
THEOREM SumsCorrect == Spec => []SumsOfInput
<1>1. IInv => SumsOfInput
  <2> SUFFICES ASSUME IInv, pc = "done"
               PROVE  /\ pos = InputLen \/ inError
                      /\ \A k \in Lanes :
                           build_digest(Algs[k]) \in OpenSSLNames \cup {"count"} =>
                             outputs[k] = Checksum(build_digest(Algs[k]), Bytes(pos))
    BY DEF SumsOfInput
  <2>1. pos = InputLen \/ inError
    BY DEF IInv, OutputsOK
  <2>2. ASSUME NEW k \in Lanes, build_digest(Algs[k]) \in OpenSSLNames \cup {"count"}
        PROVE  outputs[k] = Checksum(build_digest(Algs[k]), Bytes(pos))
    <3>1. digests[k].seen = Bytes(pos) /\ digests[k].alg = build_digest(Algs[k])
      BY DEF IInv, SeenOK, Absorbed, KindOK
    <3>2. outputs[k] \in finalize(digests[k])
      BY DEF IInv, OutputsOK
    <3>3. digests[k].alg # "none" /\ digests[k].alg # "xxh"
      BY <2>2, <3>1 DEF OpenSSLNames
    <3>4. finalize(digests[k]) = {Checksum(digests[k].alg, digests[k].seen)}
      BY <3>3 DEF finalize
    <3> QED
      BY <3>1, <3>2, <3>4
  <2> QED
    BY <2>1, <2>2
<1> QED
  BY <1>1, Inductive, PTL

(* No step overwrites a byte of the buffer that some digest has yet to     *)
(* absorb.                                                                 *)
THEOREM NoOverrun == Spec => NoReaderOverrun
<1> DEFINE Kept == \A i \in 1..BUFFER_SIZE :
                     i <= count /\ buffer'[i] # buffer[i] =>
                       \A k \in Lanes : i <= idx[k]
<1>1. IInv /\ [Next]_vars => [Kept]_vars
  <2> SUFFICES ASSUME IInv, Next, buffer' # buffer PROVE Kept
    BY DEF vars
  <2>1. Read
    BY DEF Next, Write, WriteChunk, SkipWrite, BrokenPipe, StartIteration, UpdateByte,
           EndIteration, Barrier, Finalize, Stopped, vars, inputVars
  <2>2. \A k \in Lanes : idx[k] = count
    BY <2>1 DEF Read, IInv, LoopOK
  <2> QED
    BY <2>2
<1> QED
  BY <1>1, Inductive, PTL DEF Spec, NoReaderOverrun

-----------------------------------------------------------------------------
LEMMA RefineInit == Init => PT!Init
  BY DEF Init, PT!Init

(* A chunk of n bytes of which the output accepts m.                       *)
LEMMA RefineTransfer ==
  ASSUME IInv, pc = "write", NEW m \in 0..count, pc' \in {"update", "killed"},
         given' = IF outfile THEN given \o SubSeq(buffer, 1, m) ELSE given,
         outError' = (outError \/ (outfile /\ m < count)),
         UNCHANGED <<inputVars, outfile>>
  PROVE  PT!Transfer
<1>1. /\ pos \in 0..InputLen /\ count \in 1..BUFFER_SIZE /\ count <= pos
  BY BufferAssumption, InputAssumption DEF IInv, TypeOK, WindowOK
<1>2. SubSeq(buffer, 1, m) = [i \in 1..m |-> pos - count + i]
  BY GivenType
<1>3. m \in 0..BUFFER_SIZE /\ m <= count
  BY <1>1, BufferAssumption
<1>4. (pos - count) + count <= InputLen /\ pos = (pos - count) + count
  BY <1>1, InputAssumption
<1> QED
  BY <1>1, <1>2, <1>3, <1>4 DEF PT!Transfer, inputVars

LEMMA RefineRead == IInv /\ Read => PT!InputFails \/ UNCHANGED PT!ptvars
<1> SUFFICES ASSUME IInv, Read PROVE PT!InputFails \/ UNCHANGED PT!ptvars
  OBVIOUS
<1>1. PICK n \in 0..BUFFER_SIZE :
        fread(n) /\ count' = n /\ pc' = IF n > 0 THEN "write" ELSE "finalize"
  BY DEF Read
<1>2. pc = "read" /\ pos' = pos + n /\ pos \in Nat /\ n \in Nat
  BY <1>1, BufferAssumption, InputAssumption DEF Read, fread, IInv, TypeOK
<1>3. (IF pc' = "write" THEN pos' - count' ELSE pos') = pos
  BY <1>1, <1>2
<1>4. inError' = TRUE \/ inError' = inError
  BY <1>1, Zenon DEF fread, IInv, TypeOK
<1>5. pc' # "done" /\ UNCHANGED <<outputVars, outputs>>
  BY <1>1 DEF Read
<1> QED
  BY <1>2, <1>3, <1>4, <1>5 DEF PT!InputFails, PT!ptvars, outputVars

(* The last finalize is the step that reports.                             *)
LEMMA RefineFinalize == IInv /\ Finalize => PT!Report \/ UNCHANGED PT!ptvars
<1> SUFFICES ASSUME IInv, Finalize PROVE PT!Report \/ UNCHANGED PT!ptvars
  OBVIOUS
<1>1. IInv'
  BY FinalizeInv
<1>2. pc = "finalize" /\ pc' \in {"finalize", "done"}
      /\ UNCHANGED <<inputVars, outputVars, loopVars>>
  BY DEF Finalize
<1>3. CASE pc' = "finalize"
  BY <1>2, <1>3 DEF PT!ptvars, inputVars, outputVars
<1>4. CASE pc' = "done"
  <2>1. pos = InputLen \/ inError
    BY <1>2 DEF IInv, OutputsOK
  <2>2. Len(outputs') = Len(Algs) /\ outputs' \in Seq(Checksums)
    BY <1>1, <1>4 DEF IInv, OutputsOK, TypeOK
  <2>3. ASSUME NEW k \in 1..Len(Algs)
        PROVE  outputs'[k] \in PT!SumsOf(pos, k)
    <3>1. outputs'[k] \in finalize(digests[k])
      BY <1>1, <1>2, <2>2 DEF IInv, OutputsOK, loopVars
    <3>2. /\ digests[k] \in DigestObjects(1..InputLen)
          /\ digests[k].alg = build_digest(Algs[k])
          /\ digests[k].ready = (build_digest(Algs[k]) # "xxh")
          /\ digests[k].seen = Bytes(pos)
      BY <1>2 DEF IInv, TypeOK, KindOK, SeenOK, Absorbed
    <3>3. update(NewDigest(Algs[k]), Bytes(pos)) =
            [alg |-> build_digest(Algs[k]), ready |-> (build_digest(Algs[k]) # "xxh"),
             seen |-> Bytes(pos)]
      <4>1. pos \in Nat
        BY InputAssumption DEF IInv, TypeOK
      <4>2. << >> \o Bytes(pos) = Bytes(pos)
        BY <4>1, BytesFromEmpty
      <4> QED
        BY <4>2 DEF update, NewDigest
    <3>4. digests[k] = update(NewDigest(Algs[k]), Bytes(pos))
      BY <3>2, <3>3 DEF DigestObjects
    <3> QED
      BY <3>1, <3>4 DEF PT!SumsOf, PT!finalize, PT!update, PT!NewDigest, PT!Bytes,
           PT!build_digest, PT!Checksum, PT!Garbage, PT!OpenSSLNames, finalize, update,
           NewDigest, Bytes, build_digest, Checksum, Garbage, OpenSSLNames
  <2>4. outputs' \in [1..Len(Algs) -> UNION {PT!SumsOf(pos, k) : k \in 1..Len(Algs)}]
    <3>1. outputs' \in [1..Len(Algs) -> Checksums]
      BY <2>2, LenProperties
    <3> QED
      BY <2>3, <3>1
  <2> QED
    BY <1>2, <1>4, <2>1, <2>3, <2>4 DEF PT!Report, inputVars, outputVars
<1> QED
  BY <1>2, <1>3, <1>4

LEMMA RefineNext == IInv /\ [Next]_vars => [PT!Next]_PT!ptvars
<1> SUFFICES ASSUME IInv, [Next]_vars PROVE PT!Next \/ UNCHANGED PT!ptvars
  OBVIOUS
<1>1. CASE Read
  BY <1>1, RefineRead DEF PT!Next
<1>2. CASE Write
  <2>1. PICK m \in 0..count : WriteChunk(m)
    BY <1>2 DEF Write
  <2>2. outError' = (outError \/ (outfile /\ m < count))
    BY <1>2, <2>1 DEF Write, WriteChunk
  <2> QED
    BY <1>2, <2>1, <2>2, RefineTransfer DEF Write, WriteChunk, PT!Next
<1>3. CASE SkipWrite
  <2>1. count \in 0..count /\ ~(count < count)
    BY BufferAssumption DEF IInv, TypeOK
  <2>2. outError' = (outError \/ (outfile /\ count < count))
    BY <1>3, <2>1 DEF SkipWrite, outputVars, IInv, TypeOK
  <2> QED
    BY <1>3, <2>1, <2>2, RefineTransfer DEF SkipWrite, outputVars, PT!Next
<1>4. CASE BrokenPipe
  <2>1. PICK m \in 0..(count - 1) : given' = given \o SubSeq(buffer, 1, m)
    BY <1>4 DEF BrokenPipe
  <2>2. m \in 0..count /\ m < count
    BY BufferAssumption DEF IInv, TypeOK
  <2>3. outError' = (outError \/ (outfile /\ m < count))
    BY <1>4, <2>2 DEF BrokenPipe, IInv, TypeOK
  <2> QED
    BY <1>4, <2>1, <2>2, <2>3, RefineTransfer DEF BrokenPipe, PT!Next
<1>5. CASE \E k \in Lanes : StartIteration(k) \/ UpdateByte(k) \/ EndIteration(k)
  <2>1. pc # "write" /\ pc # "done"
    BY <1>5 DEF StartIteration, UpdateByte, EndIteration, IInv, LoopOK
  <2> QED
    BY <1>5, <2>1 DEF StartIteration, UpdateByte, EndIteration, PT!ptvars, inputVars, outputVars
<1>6. CASE Barrier
  BY <1>6 DEF Barrier, PT!ptvars, inputVars, outputVars
<1>7. CASE Finalize
  BY <1>7, RefineFinalize DEF PT!Next
<1>8. CASE Stopped \/ UNCHANGED vars
  BY <1>8 DEF Stopped, PT!ptvars, vars
<1> QED
  BY <1>1, <1>2, <1>3, <1>4, <1>5, <1>6, <1>7, <1>8 DEF Next

(* multi_digest, its buffer, its threads and its barrier, implements the   *)
(* pass-through specification.                                             *)
THEOREM Refinement == Spec => RefinesPassThru
  BY RefineInit, RefineNext, Inductive, PTL DEF Spec, RefinesPassThru, PT!Spec

-----------------------------------------------------------------------------
(***************************************************************************)
(* No run goes on for ever, or comes to a halt inside the parallel loop.   *)
(***************************************************************************)
(* The chunks, the sums, the end; and the parts of a chunk's turn.         *)
Stage ==
  CASE pc \in {"read", "write", "update"} -> 2
    [] pc = "finalize"                    -> 1
    [] OTHER                              -> 0

Phase ==
  CASE pc = "write"  -> 2
    [] pc = "update" -> 1
    [] OTHER         -> 0

InputLeft == InputLen - pos

\* What iteration k has left to do: to start, its bytes, and to end.
LeftOf(k) ==
  CASE iter[k] = "waiting" -> count + 2
    [] iter[k] = "running" -> count - idx[k] + 1
    [] OTHER               -> 0

IterLeft == [k \in Lanes |-> LeftOf(k)]

SumsLeft == Len(Algs) - Len(outputs)

(* One iteration has less left, and none has more.                         *)
TeamProgress ==
  /\ \A k \in Lanes : IterLeft'[k] <= IterLeft[k]
  /\ \E k \in Lanes : IterLeft'[k] < IterLeft[k]

(* What each step leaves less of, the outermost loop first.                *)
RunProgress ==
  \/ Stage' < Stage
  \/ Stage' = Stage /\ InputLeft' < InputLeft
  \/ /\ Stage' = Stage /\ InputLeft' = InputLeft
     /\ \/ Phase' < Phase
        \/ Phase' = Phase /\ TeamProgress
        \/ Phase' = Phase /\ IterLeft' = IterLeft /\ SumsLeft' < SumsLeft

LEMMA MeasureTypes ==
  ASSUME IInv
  PROVE  /\ Stage \in Nat /\ Phase \in Nat
         /\ InputLeft \in Nat
         /\ IterLeft \in [Lanes -> Nat]
         /\ SumsLeft \in Nat
<1>1. Stage \in Nat
  BY DEF Stage
<1>2. Phase \in Nat
  BY DEF Phase
<1>3. InputLeft \in Nat
  BY InputAssumption DEF IInv, TypeOK, InputLeft
<1>4. ASSUME NEW k \in Lanes PROVE LeftOf(k) \in Nat
  <2>1. count \in Nat /\ idx[k] \in Nat
    <3>1. count \in 0..BUFFER_SIZE /\ idx[k] \in 0..BUFFER_SIZE
      BY DEF IInv, TypeOK
    <3> QED
      BY <3>1, BufferAssumption
  <2>2. iter[k] = "running" => idx[k] <= count
    BY DEF IInv, LoopOK
  <2> QED
    BY <2>1, <2>2 DEF LeftOf
<1>5. Len(outputs) \in Nat /\ Len(outputs) <= Len(Algs)
  <2>1. Len(outputs) \in Nat
    BY LenProperties DEF IInv, TypeOK
  <2>2. CASE pc \in {"read", "write", "update", "killed"}
    BY <2>2, LanesFact DEF IInv, OutputsOK
  <2>3. CASE pc \in {"finalize", "done"}
    BY <2>1, <2>3, LanesFact DEF IInv, OutputsOK
  <2> QED
    BY <2>1, <2>2, <2>3 DEF IInv, TypeOK
<1>6. SumsLeft \in Nat
  BY <1>5, LanesFact DEF SumsLeft
<1> QED
  BY <1>1, <1>2, <1>3, <1>4, <1>6 DEF IterLeft

(* One iteration's step: it has less left, and the others have no more.    *)
LEMMA IterationProgress ==
  ASSUME IInv, NEW k \in Lanes, StartIteration(k) \/ UpdateByte(k) \/ EndIteration(k)
  PROVE  RunProgress
<1>1. pc' = pc /\ pos' = pos /\ count' = count
  BY DEF StartIteration, UpdateByte, EndIteration, inputVars
<1>2. Stage' = Stage /\ Phase' = Phase /\ InputLeft' = InputLeft
  BY <1>1 DEF Stage, Phase, InputLeft
<1>3. pc = "update" /\ count \in Nat
  BY BufferAssumption DEF IInv, TypeOK, LoopOK, StartIteration, UpdateByte, EndIteration
<1>4. /\ iter \in [Lanes -> {"waiting", "running", "done"}]
      /\ idx \in [Lanes -> 0..BUFFER_SIZE]
  BY DEF IInv, TypeOK
<1>5. ASSUME NEW j \in Lanes, j # k
      PROVE  iter'[j] = iter[j] /\ idx'[j] = idx[j]
  BY <1>4, <1>5 DEF StartIteration, UpdateByte, EndIteration
<1>6. ASSUME NEW j \in Lanes
      PROVE  IterLeft[j] = LeftOf(j) /\ IterLeft'[j] = LeftOf(j)'
  BY DEF IterLeft, Lanes
<1>7. ASSUME NEW j \in Lanes, j # k
      PROVE  IterLeft'[j] = IterLeft[j]
  BY <1>1, <1>5, <1>6, <1>7 DEF LeftOf
<1>8. IterLeft'[k] < IterLeft[k]
  <2>1. idx[k] \in Nat
    BY <1>4, BufferAssumption
  <2>2. CASE StartIteration(k)
    <3>1. iter[k] = "waiting" /\ iter'[k] = "running" /\ idx'[k] = idx[k]
      BY <1>4, <2>2 DEF StartIteration
    <3>2. LeftOf(k) = count + 2 /\ LeftOf(k)' = count - idx[k] + 1
      BY <1>1, <3>1 DEF LeftOf
    <3> QED
      BY <1>3, <1>6, <2>1, <3>2
  <2>3. CASE UpdateByte(k)
    <3>1. iter[k] = "running" /\ iter'[k] = "running" /\ idx'[k] = idx[k] + 1
      BY <1>4, <2>3 DEF UpdateByte
    <3>2. LeftOf(k) = count - idx[k] + 1 /\ LeftOf(k)' = count - (idx[k] + 1) + 1
      BY <1>1, <3>1 DEF LeftOf
    <3> QED
      BY <1>3, <1>6, <2>1, <3>2
  <2>4. CASE EndIteration(k)
    <3>1. iter[k] = "running" /\ iter'[k] = "done" /\ idx[k] = count
      BY <1>4, <2>4 DEF EndIteration
    <3>2. LeftOf(k) = count - count + 1 /\ LeftOf(k)' = 0
      BY <1>1, <3>1 DEF LeftOf
    <3> QED
      BY <1>3, <1>6, <3>2
  <2> QED
    BY <2>2, <2>3, <2>4
<1>9. IterLeft \in [Lanes -> Nat]
  BY MeasureTypes
<1>10. TeamProgress
  <2> DEFINE L == IterLeft   LL == IterLeft'
  <2>1. \A j \in Lanes : j # k => LL[j] = L[j]
    BY <1>7
  <2>2. L \in [Lanes -> Nat] /\ LL[k] \in Nat /\ LL[k] < L[k]
    <3>1. LL[k] \in Nat
      <4>1. LL[k] = LeftOf(k)'
        BY <1>6
      <4>2. idx[k] \in Nat /\ idx[k] <= count
        BY <1>3, <1>4, BufferAssumption DEF IInv, LoopOK
      <4>3. LeftOf(k)' \in {count + 2, count - idx'[k] + 1, 0}
        BY <1>1 DEF LeftOf
      <4>4. idx'[k] = idx[k] \/ (idx[k] < count /\ idx'[k] = idx[k] + 1)
        BY <1>4 DEF StartIteration, UpdateByte, EndIteration
      <4> QED
        BY <1>3, <4>1, <4>2, <4>3, <4>4
    <3> QED
      BY <1>8, <1>9, <3>1
  <2> HIDE DEF L, LL
  <2>3. \A j \in Lanes : LL[j] <= L[j]
    BY <2>1, <2>2
  <2> QED
    BY <2>2, <2>3 DEF TeamProgress, L, LL
<1> QED
  BY <1>2, <1>10 DEF RunProgress

LEMMA MainProgress ==
  ASSUME IInv, Read \/ Write \/ SkipWrite \/ BrokenPipe \/ Barrier
  PROVE  RunProgress
<1>1. CASE Read
  <2>1. PICK n \in 0..BUFFER_SIZE : fread(n) /\ pc' = IF n > 0 THEN "write" ELSE "finalize"
    BY <1>1 DEF Read
  <2>2. CASE n > 0
    <3>1. Stage' = Stage
      BY <1>1, <2>1, <2>2 DEF Read, Stage
    <3>2. pos' = pos + n /\ pos \in Nat /\ n \in Nat
      BY <2>1, BufferAssumption, InputAssumption DEF fread, IInv, TypeOK
    <3>3. InputLeft' < InputLeft
      BY <2>2, <3>2, InputAssumption DEF InputLeft
    <3> QED
      BY <3>1, <3>3 DEF RunProgress
  <2>3. CASE ~(n > 0)
    <3>1. Stage' < Stage
      BY <1>1, <2>1, <2>3 DEF Read, Stage
    <3> QED
      BY <3>1 DEF RunProgress
  <2> QED
    BY <2>2, <2>3
<1>2. CASE Write \/ SkipWrite
  <2>1. pc = "write" /\ pc' = "update" /\ pos' = pos
    BY <1>2 DEF Write, WriteChunk, SkipWrite, inputVars
  <2>2. Stage' = Stage /\ InputLeft' = InputLeft /\ Phase' < Phase
    BY <2>1 DEF Stage, InputLeft, Phase
  <2> QED
    BY <2>2 DEF RunProgress
<1>3. CASE BrokenPipe
  <2>1. Stage' < Stage
    BY <1>3 DEF BrokenPipe, Stage
  <2> QED
    BY <2>1 DEF RunProgress
<1>4. CASE Barrier
  <2>1. pc = "update" /\ pc' = "read" /\ pos' = pos
    BY <1>4 DEF Barrier, inputVars
  <2>2. Stage' = Stage /\ InputLeft' = InputLeft /\ Phase' < Phase
    BY <2>1 DEF Stage, InputLeft, Phase
  <2> QED
    BY <2>2 DEF RunProgress
<1> QED
  BY <1>1, <1>2, <1>3, <1>4

LEMMA FinalizeProgress ==
  ASSUME IInv, Finalize
  PROVE  RunProgress
<1>1. pc = "finalize" /\ UNCHANGED <<pos, count, iter, idx>>
  BY DEF Finalize, inputVars, loopVars
<1>2. CASE pc' = "done"
  <2>1. Stage' < Stage
    BY <1>1, <1>2 DEF Stage
  <2> QED
    BY <2>1 DEF RunProgress
<1>3. CASE pc' = "finalize"
  <2>1. Stage' = Stage /\ InputLeft' = InputLeft /\ Phase' = Phase
    BY <1>1, <1>3 DEF Stage, InputLeft, Phase
  <2>2. IterLeft' = IterLeft
    BY <1>1 DEF IterLeft, LeftOf, Lanes
  <2>3. PICK s : outputs' = Append(outputs, s)
    BY DEF Finalize
  <2>4. Len(outputs') = Len(outputs) + 1 /\ Len(outputs) \in Nat
    BY <2>3 DEF IInv, TypeOK
  <2>5. SumsLeft' < SumsLeft
    BY <2>4, LanesFact DEF SumsLeft
  <2> QED
    BY <2>1, <2>2, <2>5 DEF RunProgress
<1> QED
  BY <1>2, <1>3 DEF Finalize

(* No run goes on for ever, whatever its sizes: with every step the        *)
(* program has less left of the input, of the chunk's turn, of some        *)
(* iteration of the parallel loop and no more of any other, or of the      *)
(* finalize loop; and what is left is a number (sump.cc lines 29-48).      *)
THEOREM MultiProgress ==
  Spec => /\ []( /\ Stage \in Nat /\ Phase \in Nat
                 /\ InputLeft \in Nat /\ IterLeft \in [Lanes -> Nat] /\ SumsLeft \in Nat)
          /\ [][RunProgress \/ Stopped]_vars
<1>1. IInv => /\ Stage \in Nat /\ Phase \in Nat
              /\ InputLeft \in Nat /\ IterLeft \in [Lanes -> Nat] /\ SumsLeft \in Nat
  BY MeasureTypes
<1>2. IInv /\ Next => RunProgress \/ Stopped
  BY IterationProgress, MainProgress, FinalizeProgress DEF Next
<1> QED
  BY <1>1, <1>2, Inductive, PTL DEF Spec

(* The parallel loop never comes to a halt, however many digests there are *)
(* for however few threads: until every iteration is done, one can start   *)
(* or go on, and no byte of the chunk is left that it cannot take          *)
(* (sump.cc lines 34-37).                                                  *)
THEOREM TeamNeverStuck ==
  Spec => [](pc = "update" =>
               \/ \E k \in Lanes : \/ iter[k] = "waiting" /\ Cardinality(Running) < Threads
                                   \/ iter[k] = "running" /\ idx[k] <= count
               \/ \A k \in Lanes : iter[k] = "done")
<1> DEFINE Going == \E k \in Lanes : \/ iter[k] = "waiting" /\ Cardinality(Running) < Threads
                                     \/ iter[k] = "running" /\ idx[k] <= count
<1>1. IInv => (pc = "update" => Going \/ \A k \in Lanes : iter[k] = "done")
  <2> SUFFICES ASSUME IInv, pc = "update", NEW k \in Lanes, iter[k] # "done"
               PROVE  Going
    OBVIOUS
  <2>1. CASE Running = {}
    <3>1. Cardinality(Running) < Threads
      BY <2>1, FS_EmptySet, TeamAssumption
    <3>2. iter[k] = "waiting"
      BY <2>1 DEF Running, IInv, TypeOK
    <3> QED
      BY <3>1, <3>2
  <2>2. CASE Running # {}
    <3>1. PICK j \in Lanes : iter[j] = "running"
      BY <2>2 DEF Running
    <3>2. idx[j] <= count
      BY DEF IInv, LoopOK
    <3> QED
      BY <3>1, <3>2
  <2> QED
    BY <2>1, <2>2
<1> QED
  BY <1>1, Inductive, PTL

-----------------------------------------------------------------------------
(***************************************************************************)
(* What reaches the output.                                                *)
(***************************************************************************)
(* The next m bytes of the input extend a prefix of it by m.               *)
LEMMA BytesExtendBy ==
  ASSUME NEW k \in Nat, NEW m \in Nat
  PROVE  Bytes(k) \o [i \in 1..m |-> k + i] = Bytes(k + m)
<1> DEFINE chunk == [i \in 1..m |-> k + i]
           b     == Bytes(k) \o chunk
<1>1. Bytes(k) \in Seq(Nat) /\ Len(Bytes(k)) = k /\ \A i \in 1..k : Bytes(k)[i] = i
  BY DEF Bytes
<1>2. /\ Bytes(k + m) \in Seq(Nat) /\ Len(Bytes(k + m)) = k + m
      /\ \A i \in 1..(k + m) : Bytes(k + m)[i] = i
  BY DEF Bytes
<1>3. chunk \in Seq(Nat) /\ Len(chunk) = m /\ \A i \in 1..m : chunk[i] = k + i
  OBVIOUS
<1> HIDE DEF chunk
<1>4. /\ b \in Seq(Nat) /\ Len(b) = k + m
      /\ \A i \in 1..(k + m) : b[i] = IF i <= k THEN Bytes(k)[i] ELSE chunk[i - k]
  <2> DEFINE a == Bytes(k)
  <2>1. a \in Seq(Nat) /\ Len(a) = k
    BY <1>1
  <2> HIDE DEF a
  <2>2. /\ a \o chunk \in Seq(Nat) /\ Len(a \o chunk) = Len(a) + Len(chunk)
        /\ \A i \in 1..(Len(a) + Len(chunk)) :
             (a \o chunk)[i] = IF i <= Len(a) THEN a[i] ELSE chunk[i - Len(a)]
    BY <1>3, <2>1, ConcatProperties
  <2> QED
    BY <1>3, <2>1, <2>2 DEF a
<1> HIDE DEF b
<1>5. ASSUME NEW i \in 1..(k + m)
      PROVE  b[i] = Bytes(k + m)[i]
  <2>1. CASE i <= k
    BY <1>1, <1>2, <1>4, <2>1
  <2>2. CASE i > k
    <3>1. i - k \in 1..m
      BY <2>2
    <3>2. chunk[i - k] = k + (i - k)
      BY <1>3, <3>1
    <3> QED
      BY <1>2, <1>4, <2>2, <3>2
  <2> QED
    BY <2>1, <2>2
<1>6. b = Bytes(k + m)
  BY <1>2, <1>4, <1>5, SeqEqual
<1> QED
  BY <1>6 DEF b, chunk

\* Bytes of the chunks that have been offered to the output.
Offered == IF pc = "write" THEN pos - count ELSE pos

GivenOK == outfile /\ ~outError => given = Bytes(Offered)

LEMMA GivenNext == IInv /\ GivenOK /\ [Next]_vars => GivenOK'
<1> SUFFICES ASSUME IInv, GivenOK, [Next]_vars, outfile', ~outError'
             PROVE  given' = Bytes(Offered)'
  BY DEF GivenOK
<1>1. pos \in Nat /\ count \in Nat /\ count <= pos
  BY BufferAssumption, InputAssumption DEF IInv, TypeOK, WindowOK
<1>2. CASE Read
  <2>1. PICK n \in 0..BUFFER_SIZE :
          fread(n) /\ count' = n /\ pc' = IF n > 0 THEN "write" ELSE "finalize"
    BY <1>2 DEF Read
  <2>2. n \in Nat /\ pos' = pos + n /\ count' = n
    BY <2>1, BufferAssumption DEF fread
  <2>3. (IF pc' = "write" THEN pos' - count' ELSE pos') = pos
    BY <1>1, <2>1, <2>2
  <2>4. Offered = pos /\ Offered' = pos
    BY <1>2, <2>3 DEF Read, Offered
  <2>5. UNCHANGED <<outfile, outError, given>>
    BY <1>2 DEF Read, outputVars
  <2> QED
    BY <2>4, <2>5 DEF GivenOK, Bytes
<1>3. CASE Write
  <2>1. PICK m \in 0..count : WriteChunk(m)
    BY <1>3 DEF Write
  <2>2. outfile /\ ~outError /\ ~(m < count)
    BY <1>3, <2>1 DEF WriteChunk
  <2>3. m = count
    BY <1>1, <2>2
  <2>4. SubSeq(buffer, 1, m) = [i \in 1..count |-> (pos - count) + i]
    BY <1>3, <2>3, GivenType DEF Write
  <2>5. given = Bytes(pos - count)
    BY <1>3, <2>2 DEF Write, GivenOK, Offered
  <2>6. given' = Bytes(pos - count) \o [i \in 1..count |-> (pos - count) + i]
    BY <2>1, <2>4, <2>5 DEF WriteChunk
  <2>7. pos - count \in Nat /\ (pos - count) + count = pos
    BY <1>1
  <2>8. given' = Bytes(pos)
    BY <1>1, <2>6, <2>7, BytesExtendBy
  <2>9. Offered' = pos
    BY <2>1 DEF WriteChunk, Offered, inputVars
  <2> QED
    BY <2>8, <2>9 DEF Bytes
<1>4. CASE SkipWrite
  BY <1>4 DEF SkipWrite, outputVars
<1>5. CASE BrokenPipe
  BY <1>5 DEF BrokenPipe
<1>6. CASE \/ \E k \in Lanes : StartIteration(k) \/ UpdateByte(k) \/ EndIteration(k)
           \/ Barrier \/ Finalize \/ Stopped \/ UNCHANGED vars
  <2>1. UNCHANGED <<outfile, outError, given, pos, count>>
    BY <1>6 DEF StartIteration, UpdateByte, EndIteration, Barrier, Finalize, Stopped,
                vars, inputVars, outputVars
  <2>2. (pc = "write") = (pc' = "write")
    BY <1>6 DEF StartIteration, UpdateByte, EndIteration, Barrier, Finalize, Stopped, vars,
                IInv, LoopOK
  <2>3. Offered' = Offered
    BY <2>1, <2>2 DEF Offered
  <2> QED
    BY <2>1, <2>3 DEF GivenOK, Bytes
<1> QED
  BY <1>2, <1>3, <1>4, <1>5, <1>6 DEF Next

(* What sump does keep of its promise to pass its input on, which the run  *)
(* multi_loss shows it breaks: a run that ends well has lost nothing       *)
(* unless the input failed or the output refused something, of which its   *)
(* status says nothing (sump.cc lines 29-31 and 120-131).                  *)
THEOREM PassedOnUnlessFailed ==
  Spec => [](~inError /\ ~outError => PassedOnWhenDone)
<1>1. Init => GivenOK
  BY DEF Init, GivenOK, Offered, Bytes
<1>2. IInv /\ GivenOK /\ [Next]_vars => GivenOK'
  BY GivenNext
<1>3. IInv /\ GivenOK => (~inError /\ ~outError => PassedOnWhenDone)
  BY DEF IInv, OutputsOK, GivenOK, Offered, PassedOnWhenDone
<1> QED
  BY <1>1, <1>2, <1>3, Inductive, PTL DEF Spec
=============================================================================
