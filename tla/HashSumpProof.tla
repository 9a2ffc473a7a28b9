--------------------------- MODULE HashSumpProof ----------------------------
(***************************************************************************)
(* Proofs about HashSump, for all six programs, every buffer size, input   *)
(* length and set of bytes a digest may be made of.                        *)
(***************************************************************************)
EXTENDS HashSump, SequenceTheorems, TLAPS

(* The chunk in hand lies at the start of the buffer.                      *)
WindowOK ==
  /\ count <= pos
  /\ pc = "write" => count # 0
  /\ pc \in {"write", "update", "killed"} =>
       \A i \in 1..count : buffer[i] = pos - count + i

(* How much of the input the hash has absorbed.                            *)
Absorbed == IF pc \in {"write", "update", "killed"} THEN pos - count ELSE pos

ContextOK ==
  /\ c.alg = program.alg
  /\ c.ready = TRUE
  /\ c.seen = Bytes(Absorbed)

EndOK == pc \in {"final", "format", "done"} => pos = InputLen \/ inError

(* The digits of the first n bytes are in place, a NUL behind them, and    *)
(* nothing behind out was touched.                                         *)
TextOK ==
  /\ pc \in {"format", "done"} => digest \in [1..program.length -> 0..255]
  /\ pc \notin {"format", "done"} => n = 0
  /\ pc = "done" => n = program.length
  /\ \A j \in 0..(n - 1) :
       out[2 * j] = digest[j + 1] \div 16 /\ out[2 * j + 1] = digest[j + 1] % 16
  /\ n > 0 => out[2 * n] = NUL
  /\ \A i \in Reach(program) : i >= program.size => out[i] = Old

IInv == TypeOK /\ WindowOK /\ ContextOK /\ EndOK /\ TextOK

-----------------------------------------------------------------------------
(* What the six programs have in common.                                   *)
LEMMA ProgramFacts ==
  ASSUME NEW p \in Programs
  PROVE  /\ p.length \in Nat /\ p.length >= 16
         /\ p.size = 2 * p.length + 1
         /\ p.alg \in OpenSSLNames /\ build_digest(p.alg) = p.alg
<1> USE DEF build_digest, OpenSSLNames
<1>1. CASE p = md5sump
  BY <1>1 DEF md5sump
<1>2. CASE p = sha1sump
  BY <1>2 DEF sha1sump
<1>3. CASE p = sha224sump
  BY <1>3 DEF sha224sump
<1>4. CASE p = sha256sump
  BY <1>4 DEF sha256sump
<1>5. CASE p = sha384sump
  BY <1>5 DEF sha384sump
<1>6. CASE p = sha512sump
  BY <1>6 DEF sha512sump
<1> QED
  BY <1>1, <1>2, <1>3, <1>4, <1>5, <1>6 DEF Programs

(* Absorbing the next m bytes of the input extends the prefix absorbed.    *)
LEMMA BytesExtend ==
  ASSUME NEW k \in Nat, NEW m \in Nat
  PROVE  Bytes(k) \o [i \in 1..m |-> k + i] = Bytes(k + m)
<1> DEFINE chunk == [i \in 1..m |-> k + i]
           b     == Bytes(k) \o chunk
<1>1. Bytes(k) \in Seq(Nat) /\ Len(Bytes(k)) = k /\ \A i \in 1..k : Bytes(k)[i] = i
  BY DEF Bytes
<1>2. /\ Bytes(k + m) \in Seq(Nat) /\ Len(Bytes(k + m)) = k + m
      /\ \A i \in 1..(k + m) : Bytes(k + m)[i] = i
  BY DEF Bytes
<1>3. chunk \in Seq(Nat) /\ Len(chunk) = m /\ \A i \in 1..m : chunk[i] = k + i
  OBVIOUS
<1> HIDE DEF chunk
<1>4. /\ b \in Seq(Nat) /\ Len(b) = k + m
      /\ \A i \in 1..(k + m) : b[i] = IF i <= k THEN Bytes(k)[i] ELSE chunk[i - k]
  <2> DEFINE a == Bytes(k)
  <2>1. a \in Seq(Nat) /\ Len(a) = k
    BY <1>1
  <2> HIDE DEF a
  <2>2. /\ a \o chunk \in Seq(Nat) /\ Len(a \o chunk) = Len(a) + Len(chunk)
        /\ \A i \in 1..(Len(a) + Len(chunk)) :
             (a \o chunk)[i] = IF i <= Len(a) THEN a[i] ELSE chunk[i - Len(a)]
    BY <1>3, <2>1, ConcatProperties
  <2> QED
    BY <1>3, <2>1, <2>2 DEF a
<1> HIDE DEF b
<1>5. ASSUME NEW i \in 1..(k + m)
      PROVE  b[i] = Bytes(k + m)[i]
  <2>1. CASE i <= k
    BY <1>1, <1>2, <1>4, <2>1
  <2>2. CASE i > k
    <3>1. i - k \in 1..m
      BY <2>2
    <3>2. chunk[i - k] = k + (i - k)
      BY <1>3, <3>1
    <3> QED
      BY <1>2, <1>4, <2>2, <3>2
  <2> QED
    BY <2>1, <2>2
<1>6. b = Bytes(k + m)
  BY <1>2, <1>4, <1>5, SeqEqual
<1> QED
  BY <1>6 DEF b, chunk

LEMMA BytesFromEmpty ==
  ASSUME NEW k \in Nat
  PROVE  << >> \o Bytes(k) = Bytes(k)
<1>1. Bytes(k) \in Seq(Nat)
  BY DEF Bytes
<1> QED
  BY <1>1, ConcatEmptySeq

(* One pair of digits is written, and the NUL behind it, and nothing else, *)
(* for the limit is never less than three.                                 *)
LEMMA SnprintfFacts ==
  ASSUME NEW at \in Nat, NEW limit \in Nat, limit >= 3, NEW b \in 0..255,
         NEW i \in DOMAIN out, i \in Nat
  PROVE  /\ i = at => snprintf(at, limit, b)[i] = Text(b)[1]
         /\ i = at + 1 => snprintf(at, limit, b)[i] = Text(b)[2]
         /\ i = at + 2 => snprintf(at, limit, b)[i] = NUL
         /\ i < at \/ i > at + 2 => snprintf(at, limit, b)[i] = out[i]
<1>1. Len(Text(b)) = 2
  BY DEF Text
<1>2. snprintf(at, limit, b)[i] =
        IF i \in at..(at + 1) THEN Text(b)[i - at + 1]
        ELSE IF i = at + 2 THEN NUL ELSE out[i]
  BY <1>1 DEF snprintf
<1>3. CASE i = at
  BY <1>2, <1>3
<1>4. CASE i = at + 1
  BY <1>2, <1>4
<1>5. CASE i # at /\ i # at + 1
  BY <1>2, <1>5
<1> QED
  BY <1>3, <1>4, <1>5

-----------------------------------------------------------------------------
LEMMA InitInv == Init => IInv
<1> SUFFICES ASSUME Init PROVE IInv
  OBVIOUS
<1> USE BufferAssumption, InputAssumption
<1>1. program \in Programs /\ program.length \in Nat
  BY ProgramFacts DEF Init
<1>2. c = [alg |-> program.alg, ready |-> TRUE, seen |-> << >>]
  <2>1. program.alg # "xxh"
    BY <1>1, ProgramFacts DEF OpenSSLNames
  <2> QED
    BY <1>1, <2>1, ProgramFacts DEF Init, NewDigest
<1>3. TypeOK
  <2>1. c \in DigestObjects(1..InputLen)
    BY <1>1, <1>2, ProgramFacts DEF DigestObjects, Algorithms
  <2>2. out \in [Reach(program) -> Cells]
    BY DEF Init, Cells
  <2>3. buffer \in [1..BUFFER_SIZE -> 0..InputLen]
    BY DEF Init
  <2>4. given \in Seq(1..InputLen)
    BY DEF Init
  <2>5. inError \in BOOLEAN /\ outError \in BOOLEAN
    BY DEF Init
  <2> QED
    BY <1>1, <2>1, <2>2, <2>3, <2>4, <2>5 DEF Init, TypeOK
<1>4. WindowOK
  BY DEF Init, WindowOK
<1>5. ContextOK
  <2>1. Bytes(0) = << >>
    BY DEF Bytes
  <2> QED
    BY <1>2, <2>1 DEF Init, ContextOK, Absorbed
<1>6. EndOK
  BY DEF Init, EndOK
<1>7. TextOK
  BY DEF Init, TextOK
<1> QED
  BY <1>3, <1>4, <1>5, <1>6, <1>7 DEF IInv

(* Reading the next chunk.                                                 *)
LEMMA ReadInv == IInv /\ Read => IInv'
<1> SUFFICES ASSUME IInv, Read PROVE IInv'
  OBVIOUS
<1> USE BufferAssumption, InputAssumption
<1>1. PICK m \in 0..BUFFER_SIZE : fread(m) /\ pc' = IF m > 0 THEN "write" ELSE "final"
  BY DEF Read
<1>2. /\ pc = "read" /\ pos \in Nat /\ pos' = pos + m /\ m \in Nat /\ count' = m
      /\ pos' <= InputLen /\ UNCHANGED <<program, outputVars, c, textVars>>
  BY <1>1 DEF Read, fread, IInv, TypeOK
<1>3. TypeOK'
  <2>1. buffer' \in [1..BUFFER_SIZE -> 0..InputLen]
    BY <1>1, <1>2 DEF fread, IInv, TypeOK
  <2>2. inError' \in BOOLEAN
    BY <1>1 DEF fread
  <2>3. pc' \in {"write", "final"}
    BY <1>1
  <2> QED
    BY <1>1, <1>2, <2>1, <2>2, <2>3 DEF IInv, TypeOK, outputVars, textVars, Reach
<1>4. WindowOK'
  <2>1. \A i \in 1..m : buffer'[i] = pos + i
    BY <1>1 DEF fread
  <2>2. \A i \in 1..count' : buffer'[i] = pos' - count' + i
    BY <1>1, <1>2, <2>1
  <2> QED
    BY <1>1, <1>2, <2>2 DEF WindowOK
<1>5. ContextOK'
  <2>1. Absorbed = pos /\ Absorbed' = pos
    BY <1>1, <1>2 DEF Absorbed
  <2> QED
    BY <1>2, <2>1 DEF IInv, ContextOK
<1>6. EndOK'
  <2>1. m = 0 => pos' = InputLen \/ (m < BUFFER_SIZE /\ m < InputLen - pos)
    BY <1>1, <1>2 DEF fread, IInv, TypeOK
  <2>2. inError' = (inError \/ (m < BUFFER_SIZE /\ m < InputLen - pos))
    BY <1>1 DEF fread
  <2>3. m = 0 => pos' = InputLen \/ inError'
    BY <2>1, <2>2, Zenon
  <2> QED
    BY <1>1, <2>3 DEF EndOK
<1>7. TextOK'
  BY <1>1, <1>2 DEF IInv, TextOK, textVars, Reach
<1> QED
  BY <1>3, <1>4, <1>5, <1>6, <1>7 DEF IInv

(* The chunk in hand, as a sequence.                                       *)
LEMMA ChunkFacts ==
  ASSUME IInv, pc \in {"write", "update"}, NEW m \in 0..count
  PROVE  /\ SubSeq(buffer, 1, m) = [i \in 1..m |-> pos - count + i]
         /\ SubSeq(buffer, 1, m) \in Seq(1..InputLen)
<1>1. /\ buffer \in [1..BUFFER_SIZE -> 0..InputLen] /\ count \in 0..BUFFER_SIZE
      /\ pos \in 0..InputLen /\ count <= pos
      /\ \A i \in 1..count : buffer[i] = pos - count + i
  BY DEF IInv, TypeOK, WindowOK
<1>2. buffer \in Seq(0..InputLen) /\ Len(buffer) = BUFFER_SIZE
  <2>1. BUFFER_SIZE \in Nat
    BY BufferAssumption
  <2>2. buffer \in Seq(0..InputLen)
    <3>1. Seq(0..InputLen) = UNION {[1..k -> 0..InputLen] : k \in Nat}
      BY SeqDef
    <3> QED
      BY <1>1, <2>1, <3>1
  <2>3. DOMAIN buffer = 1..BUFFER_SIZE /\ DOMAIN buffer = 1..Len(buffer) /\ Len(buffer) \in Nat
    BY <1>1, <2>2, LenProperties
  <2> QED
    BY <2>1, <2>2, <2>3
<1>3. /\ SubSeq(buffer, 1, m) \in Seq(0..InputLen)
      /\ Len(SubSeq(buffer, 1, m)) = m
      /\ \A i \in 1..m : SubSeq(buffer, 1, m)[i] = buffer[i]
  BY <1>1, <1>2, BufferAssumption, SubSeqProperties
<1>4. \A i \in 1..m : SubSeq(buffer, 1, m)[i] = pos - count + i
  BY <1>1, <1>3
<1>5. [i \in 1..m |-> pos - count + i] \in Seq(1..InputLen)
  BY <1>1, InputAssumption, BufferAssumption
<1>6. SubSeq(buffer, 1, m) = [i \in 1..m |-> pos - count + i]
  BY <1>1, <1>3, <1>4, <1>5, SeqEqual
<1> QED
  BY <1>5, <1>6

(* The chunk is written, whole or in part, and the program goes on or dies.*)
LEMMA WrittenInv ==
  ASSUME IInv, pc = "write", pc' \in {"update", "killed"},
         NEW m \in 0..count, given' = given \o SubSeq(buffer, 1, m),
         outError' \in BOOLEAN, UNCHANGED <<program, inputVars, c, textVars>>
  PROVE  IInv'
<1>1. given' \in Seq(1..InputLen)
  BY ChunkFacts, ConcatProperties DEF IInv, TypeOK
<1>2. TypeOK'
  BY <1>1 DEF IInv, TypeOK, inputVars, textVars, Reach
<1>3. WindowOK'
  BY DEF IInv, WindowOK, inputVars
<1>4. ContextOK'
  BY DEF IInv, ContextOK, Absorbed, inputVars
<1>5. EndOK'
  BY DEF EndOK
<1>6. TextOK'
  BY DEF IInv, TextOK, textVars, Reach
<1> QED
  BY <1>2, <1>3, <1>4, <1>5, <1>6 DEF IInv

LEMMA WriteInv == IInv /\ Write => IInv'
<1> SUFFICES ASSUME IInv, Write PROVE IInv'
  OBVIOUS
<1>1. PICK m \in 0..count : /\ given' = given \o SubSeq(buffer, 1, m)
                            /\ outError' = (outError \/ m < count)
  BY DEF Write
<1> QED
  BY <1>1, WrittenInv DEF Write

LEMMA BrokenPipeInv == IInv /\ BrokenPipe => IInv'
<1> SUFFICES ASSUME IInv, BrokenPipe PROVE IInv'
  OBVIOUS
<1>1. PICK m \in 0..(count - 1) : given' = given \o SubSeq(buffer, 1, m)
  BY DEF BrokenPipe
<1>2. m \in 0..count
  BY BufferAssumption DEF IInv, TypeOK
<1> QED
  BY <1>1, <1>2, WrittenInv DEF BrokenPipe

(* The hash absorbs the bytes that come next.                              *)
LEMMA UpdateInv == IInv /\ Update => IInv'
<1> SUFFICES ASSUME IInv, Update PROVE IInv'
  OBVIOUS
<1> USE BufferAssumption, InputAssumption
<1>1. /\ pc = "update" /\ pc' = "read" /\ c' = update(c, SubSeq(buffer, 1, count))
      /\ UNCHANGED <<program, inputVars, outputVars, textVars>>
      /\ c \in DigestObjects(1..InputLen)
      /\ pos \in Nat /\ count \in Nat /\ count <= pos
  BY DEF Update, IInv, TypeOK, WindowOK
<1>2. /\ SubSeq(buffer, 1, count) = [i \in 1..count |-> pos - count + i]
      /\ SubSeq(buffer, 1, count) \in Seq(1..InputLen)
  <2>1. count \in 0..count
    BY <1>1
  <2> QED
    BY <1>1, <2>1, ChunkFacts
<1>3. c.seen = Bytes(pos - count) /\ c.seen \in Seq(1..InputLen)
  BY <1>1 DEF IInv, ContextOK, Absorbed, DigestObjects
<1>4. c.seen \o SubSeq(buffer, 1, count) = Bytes(pos)
  <2>1. pos - count \in Nat /\ pos - count + count = pos
    BY <1>1
  <2>2. Bytes(pos - count) \o [i \in 1..count |-> pos - count + i] = Bytes(pos - count + count)
    BY <1>1, <2>1, BytesExtend
  <2> QED
    BY <1>2, <1>3, <2>1, <2>2
<1>5. c' = [c EXCEPT !.seen = c.seen \o SubSeq(buffer, 1, count)]
  BY <1>1 DEF update
<1>6. c'.seen = Bytes(pos) /\ c'.alg = c.alg /\ c'.ready = c.ready
  BY <1>1, <1>4, <1>5 DEF DigestObjects
<1>7. c' \in DigestObjects(1..InputLen)
  <2>1. c.seen \o SubSeq(buffer, 1, count) \in Seq(1..InputLen)
    BY <1>2, <1>3, ConcatProperties
  <2> QED
    BY <1>1, <1>5, <2>1 DEF DigestObjects
<1>8. TypeOK'
  BY <1>1, <1>7 DEF IInv, TypeOK, inputVars, outputVars, textVars, Reach
<1>9. WindowOK'
  BY <1>1 DEF IInv, WindowOK, inputVars
<1>10. ContextOK'
  BY <1>1, <1>6 DEF IInv, ContextOK, Absorbed, inputVars
<1>11. EndOK'
  BY <1>1 DEF EndOK
<1>12. TextOK'
  BY <1>1 DEF IInv, TextOK, textVars, Reach
<1> QED
  BY <1>8, <1>9, <1>10, <1>11, <1>12 DEF IInv

LEMMA FinalInv == IInv /\ Final => IInv'
<1> SUFFICES ASSUME IInv, Final PROVE IInv'
  OBVIOUS
<1>1. PICK b \in DigestBytes, d \in DigestBytes :
        digest' = [i \in 1..program.length |-> IF i % 2 = 1 THEN b ELSE d]
  BY DEF Final
<1>2. pc = "final" /\ pc' = "format"
      /\ UNCHANGED <<program, inputVars, outputVars, c, n, out>>
  BY DEF Final
<1>3. digest' \in [1..program.length -> 0..255]
  BY <1>1, BytesAssumption
<1>4. TypeOK'
  BY <1>2, <1>3 DEF IInv, TypeOK, inputVars, outputVars, Reach
<1>5. WindowOK' /\ EndOK'
  BY <1>2 DEF IInv, WindowOK, EndOK, inputVars
<1>6. ContextOK'
  BY <1>2 DEF IInv, ContextOK, Absorbed, inputVars
<1>7. TextOK'
  <2>1. n = 0 /\ n' = 0
    BY <1>2 DEF IInv, TextOK
  <2>2. 0..(n' - 1) = {}
    BY <2>1
  <2>3. \A i \in Reach(program') : i >= (program').size => (out')[i] = Old
    BY <1>2 DEF IInv, TextOK
  <2>4. digest' \in [1..(program').length -> 0..255]
    BY <1>2, <1>3
  <2>5. ~ (n' > 0)
    BY <2>1
  <2> QED
    BY <1>2, <2>1, <2>2, <2>3, <2>4, <2>5 DEF TextOK, Reach
<1> QED
  BY <1>4, <1>5, <1>6, <1>7 DEF IInv

(* Each pair of digits takes the place of the NUL before it, and the last  *)
(* NUL is the last cell of out.                                            *)
LEMMA FormatInv == IInv /\ Format => IInv'
<1> SUFFICES ASSUME IInv, Format PROVE IInv'
  OBVIOUS
<1> DEFINE b == digest[n + 1]
<1>1. /\ pc = "format" /\ pc' = "format" /\ n' = n + 1
      /\ out' = snprintf(n * 2, program.length * 2, b)
      /\ UNCHANGED <<program, inputVars, outputVars, c, digest>>
  BY DEF Format
<1>2. /\ program \in Programs /\ program.length \in Nat /\ program.length >= 16
      /\ program.size = 2 * program.length + 1
  BY ProgramFacts DEF IInv, TypeOK
<1>3. /\ n \in Nat /\ n < program.length
      /\ digest \in [1..program.length -> 0..255]
  <2>1. n \in 0..program.length /\ n < program.length
    BY DEF Format, IInv, TypeOK
  <2>2. digest \in [1..program.length -> 0..255]
    BY <1>1 DEF IInv, TextOK
  <2>3. n \in Nat
    BY <1>2, <2>1
  <2> QED
    BY <2>1, <2>2, <2>3
<1>4. b \in 0..255 /\ b \div 16 \in 0..15 /\ b % 16 \in 0..15
  <2>1. n + 1 \in 1..program.length
    BY <1>2, <1>3
  <2>2. b \in 0..255
    BY <1>3, <2>1
  <2> QED
    BY <2>2
<1>5. DOMAIN out = Reach(program) /\ out \in [Reach(program) -> Cells]
      /\ DOMAIN out' = Reach(program)
  BY <1>1 DEF IInv, TypeOK, snprintf
<1> HIDE DEF b
<1>6. ASSUME NEW i \in Reach(program)
      PROVE  out'[i] = IF i = 2 * n THEN b \div 16
                       ELSE IF i = 2 * n + 1 THEN b % 16
                       ELSE IF i = 2 * n + 2 THEN NUL ELSE out[i]
  <2>1. n * 2 \in Nat /\ program.length * 2 \in Nat /\ program.length * 2 >= 3 /\ n * 2 = 2 * n
    BY <1>2, <1>3
  <2>2. i \in Nat /\ i \in DOMAIN out
    BY <1>2, <1>5 DEF Reach
  <2>3. PICK at \in Nat : at = n * 2
    BY <2>1
  <2>4. PICK limit \in Nat : limit = program.length * 2 /\ limit >= 3
    BY <2>1
  <2>5. PICK byte \in 0..255 : byte = b
    BY <1>4
  <2>6. /\ i = at => snprintf(at, limit, byte)[i] = Text(byte)[1]
        /\ i = at + 1 => snprintf(at, limit, byte)[i] = Text(byte)[2]
        /\ i = at + 2 => snprintf(at, limit, byte)[i] = NUL
        /\ i < at \/ i > at + 2 => snprintf(at, limit, byte)[i] = out[i]
    <3>1. at \in Nat /\ limit \in Nat /\ limit >= 3 /\ byte \in 0..255
      BY <2>3, <2>4, <2>5
    <3>2. ASSUME NEW k \in DOMAIN out, k \in Nat
          PROVE  /\ k = at => snprintf(at, limit, byte)[k] = Text(byte)[1]
                 /\ k = at + 1 => snprintf(at, limit, byte)[k] = Text(byte)[2]
                 /\ k = at + 2 => snprintf(at, limit, byte)[k] = NUL
                 /\ k < at \/ k > at + 2 => snprintf(at, limit, byte)[k] = out[k]
      BY <3>1, <3>2, SnprintfFacts
    <3> QED
      BY <2>2, <3>2
  <2>7. out' = snprintf(at, limit, byte)
    BY <1>1, <2>3, <2>4, <2>5
  <2>8. at = 2 * n
    BY <2>1, <2>3
  <2>9. Text(byte)[1] = b \div 16 /\ Text(byte)[2] = b % 16
    BY <2>5 DEF Text
  <2> QED
    BY <2>2, <2>6, <2>7, <2>8, <2>9
<1>7. TypeOK'
  <2>1. out' \in [Reach(program) -> Cells]
    <3>1. \A i \in Reach(program) : out'[i] \in Cells
      BY <1>4, <1>5, <1>6 DEF Cells, Digits
    <3>2. out' = [i \in Reach(program) |-> out'[i]]
      BY <1>1, <1>5 DEF snprintf
    <3> QED
      BY <3>1, <3>2
  <2>2. n' \in 0..program.length
    BY <1>1, <1>2, <1>3
  <2> QED
    BY <1>1, <2>1, <2>2 DEF IInv, TypeOK, inputVars, outputVars, Reach
<1>8. WindowOK' /\ EndOK'
  BY <1>1 DEF IInv, WindowOK, EndOK, inputVars
<1>9. ContextOK'
  BY <1>1 DEF IInv, ContextOK, Absorbed, inputVars
<1>10. TextOK'
  <2>1. ASSUME NEW j \in 0..n
        PROVE  out'[2 * j] = digest[j + 1] \div 16 /\ out'[2 * j + 1] = digest[j + 1] % 16
    <3>1. 2 * j \in Reach(program) /\ 2 * j + 1 \in Reach(program)
      BY <1>2, <1>3 DEF Reach
    <3>2. CASE j = n
      BY <1>3, <1>6, <3>1, <3>2 DEF b
    <3>3. CASE j < n
      <4>1. j \in 0..(n - 1) /\ 2 * j # 2 * n /\ 2 * j # 2 * n + 1 /\ 2 * j # 2 * n + 2
            /\ 2 * j + 1 # 2 * n /\ 2 * j + 1 # 2 * n + 1 /\ 2 * j + 1 # 2 * n + 2
        BY <1>3, <3>3
      <4>2. out'[2 * j] = out[2 * j] /\ out'[2 * j + 1] = out[2 * j + 1]
        BY <1>6, <3>1, <4>1
      <4> QED
        BY <4>1, <4>2 DEF IInv, TextOK
    <3> QED
      BY <1>3, <3>2, <3>3
  <2>2. out'[2 * (n + 1)] = NUL
    <3>1. 2 * (n + 1) \in Reach(program) /\ 2 * (n + 1) = 2 * n + 2
      BY <1>2, <1>3 DEF Reach
    <3> QED
      BY <1>3, <1>6, <3>1
  <2>3. ASSUME NEW i \in Reach(program), i >= program.size
        PROVE  out'[i] = Old
    <3>1. i # 2 * n /\ i # 2 * n + 1 /\ i # 2 * n + 2
      BY <1>2, <1>3, <2>3 DEF Reach
    <3>2. out'[i] = out[i]
      BY <1>6, <3>1
    <3> QED
      BY <2>3, <3>2 DEF IInv, TextOK
  <2>4. n' - 1 = n
    BY <1>1, <1>3
  <2> QED
    BY <1>1, <1>3, <2>1, <2>2, <2>3, <2>4 DEF TextOK, Reach
<1> QED
  BY <1>7, <1>8, <1>9, <1>10 DEF IInv

LEMMA ReportInv == IInv /\ Report => IInv'
<1> SUFFICES ASSUME IInv, Report PROVE IInv'
  OBVIOUS
<1>1. /\ pc = "format" /\ n = program.length /\ pc' = "done"
      /\ UNCHANGED <<program, inputVars, outputVars, c, textVars>>
  BY DEF Report
<1>2. TypeOK'
  BY <1>1 DEF IInv, TypeOK, inputVars, outputVars, textVars, Reach
<1>3. WindowOK' /\ EndOK'
  BY <1>1 DEF IInv, WindowOK, EndOK, inputVars
<1>4. ContextOK'
  BY <1>1 DEF IInv, ContextOK, Absorbed, inputVars
<1>5. TextOK'
  BY <1>1 DEF IInv, TextOK, textVars, Reach
<1> QED
  BY <1>2, <1>3, <1>4, <1>5 DEF IInv

LEMMA StutterInv == IInv /\ UNCHANGED vars => IInv'
<1> SUFFICES ASSUME IInv, UNCHANGED vars PROVE IInv'
  OBVIOUS
<1>1. UNCHANGED <<program, pc, pos, inError, buffer, count, given, outError, c,
                  digest, n, out>>
  BY DEF vars
<1>2. TypeOK'
  BY <1>1 DEF IInv, TypeOK, Reach
<1>3. WindowOK' /\ EndOK'
  BY <1>1 DEF IInv, WindowOK, EndOK
<1>4. ContextOK'
  BY <1>1 DEF IInv, ContextOK, Absorbed
<1>5. TextOK'
  BY <1>1 DEF IInv, TextOK, Reach
<1> QED
  BY <1>2, <1>3, <1>4, <1>5 DEF IInv

LEMMA NextInv == IInv /\ [Next]_vars => IInv'
<1> SUFFICES ASSUME IInv, [Next]_vars PROVE IInv'
  OBVIOUS
<1>1. CASE Read
  BY <1>1, ReadInv
<1>2. CASE Write
  BY <1>2, WriteInv
<1>3. CASE BrokenPipe
  BY <1>3, BrokenPipeInv
<1>4. CASE Update
  BY <1>4, UpdateInv
<1>5. CASE Final
  BY <1>5, FinalInv
<1>6. CASE Format
  BY <1>6, FormatInv
<1>7. CASE Report
  BY <1>7, ReportInv
<1>8. CASE Stopped \/ UNCHANGED vars
  BY <1>8, StutterInv DEF Stopped
<1> QED
  BY <1>1, <1>2, <1>3, <1>4, <1>5, <1>6, <1>7, <1>8 DEF Next

LEMMA Inductive == Spec => []IInv
  BY InitInv, NextInv, PTL DEF Spec

-----------------------------------------------------------------------------
(* Every variable of each program keeps its type.                          *)
THEOREM HashTypeCorrect == Spec => []TypeOK
  BY Inductive, PTL DEF IInv

(* Whatever the bytes of a digest, its text is all of its digits and a     *)
(* NUL, and no snprintf writes behind out.                                 *)
THEOREM TextCorrect == Spec => []TextIsDigest
<1>1. IInv => TextIsDigest
  <2> SUFFICES ASSUME IInv PROVE TextIsDigest
    OBVIOUS
  <2>1. DOMAIN out = Reach(program) /\ program.length \in Nat /\ program.length >= 16
    BY ProgramFacts DEF IInv, TypeOK
  <2>2. \A i \in DOMAIN out : i >= program.size => out[i] = Old
    BY <2>1 DEF IInv, TextOK
  <2>3. ASSUME pc = "done"
        PROVE  /\ \A j \in 0..(program.length - 1) :
                    /\ out[2 * j] = digest[j + 1] \div 16
                    /\ out[2 * j + 1] = digest[j + 1] % 16
               /\ out[2 * program.length] = NUL
    <3>1. n = program.length
      BY <2>3 DEF IInv, TextOK
    <3> QED
      BY <2>1, <3>1 DEF IInv, TextOK
  <2> QED
    BY <2>2, <2>3 DEF TextIsDigest
<1> QED
  BY <1>1, Inductive, PTL

-----------------------------------------------------------------------------
LEMMA RefineInit == Init => PT!Init
  BY DEF Init, PT!Init

(* A chunk of which the output accepts m bytes.                            *)
LEMMA RefineTransfer ==
  ASSUME IInv, pc = "write", NEW m \in 0..count, pc' \in {"update", "killed"},
         given' = given \o SubSeq(buffer, 1, m),
         outError' = (outError \/ m < count), UNCHANGED inputVars
  PROVE  PT!Transfer
<1>1. pos \in 0..InputLen /\ count \in 1..BUFFER_SIZE /\ count <= pos
  BY BufferAssumption, InputAssumption DEF IInv, TypeOK, WindowOK
<1>2. SubSeq(buffer, 1, m) = [i \in 1..m |-> pos - count + i]
  BY ChunkFacts
<1>3. m \in 0..BUFFER_SIZE /\ m <= count
  BY <1>1, BufferAssumption
<1>4. (pos - count) + count <= InputLen /\ pos = (pos - count) + count
  BY <1>1, InputAssumption
<1> QED
  BY <1>1, <1>2, <1>3, <1>4 DEF PT!Transfer, inputVars

LEMMA RefineRead == IInv /\ Read => PT!InputFails \/ UNCHANGED PT!ptvars
<1> SUFFICES ASSUME IInv, Read PROVE PT!InputFails \/ UNCHANGED PT!ptvars
  OBVIOUS
<1>1. PICK m \in 0..BUFFER_SIZE : fread(m) /\ pc' = IF m > 0 THEN "write" ELSE "final"
  BY DEF Read
<1>2. pc = "read" /\ pos' = pos + m /\ pos \in Nat /\ m \in Nat /\ count' = m
  BY <1>1, BufferAssumption, InputAssumption DEF Read, fread, IInv, TypeOK
<1>3. (IF pc' = "write" THEN pos' - count' ELSE pos') = pos
  BY <1>1, <1>2
<1>4. inError' = TRUE \/ inError' = inError
  BY <1>1, Zenon DEF fread, IInv, TypeOK
<1>5. pc' # "done" /\ UNCHANGED <<outputVars, c>>
  BY <1>1 DEF Read
<1> QED
  BY <1>2, <1>3, <1>4, <1>5 DEF PT!InputFails, PT!ptvars, outputVars

(* The sum is reported when its text has been made.                        *)
LEMMA RefineReport == IInv /\ Report => PT!Report
<1> SUFFICES ASSUME IInv, Report PROVE PT!Report
  OBVIOUS
<1> DEFINE sum == Checksum("md5", c.seen)
<1>1. /\ pc = "format" /\ pc' = "done"
      /\ UNCHANGED <<program, inputVars, outputVars, c, textVars>>
  BY DEF Report
<1>2. pos = InputLen \/ inError
  BY <1>1 DEF IInv, EndOK
<1>3. /\ Own(c.alg) = "md5" /\ c.ready = TRUE /\ c.seen = Bytes(pos) /\ pos \in Nat
      /\ c \in DigestObjects(1..InputLen)
  BY <1>1, InputAssumption DEF IInv, ContextOK, Absorbed, TypeOK, Own
<1>4. finalize(update(NewDigest("md5"), Bytes(pos))) = {sum}
  <2> DEFINE d == NewDigest("md5")
  <2>1. d \in DigestObjects({}) /\ d.alg = "md5" /\ d.seen = << >>
    BY DEF NewDigest, build_digest, OpenSSLNames, DigestObjects, Algorithms
  <2> HIDE DEF d
  <2>2. update(d, Bytes(pos)) = [d EXCEPT !.seen = d.seen \o Bytes(pos)]
    BY DEF update
  <2>3. << >> \o Bytes(pos) = Bytes(pos)
    BY <1>3, BytesFromEmpty
  <2>4. /\ update(d, Bytes(pos)).alg = "md5"
        /\ update(d, Bytes(pos)).seen = Bytes(pos)
    BY <2>1, <2>2, <2>3 DEF DigestObjects
  <2> QED
    BY <1>3, <2>4 DEF finalize, d
<1>5. PT!SumsOf(pos, 1) = {sum}
  BY <1>4 DEF PT!SumsOf, PT!finalize, PT!update, PT!NewDigest, PT!Bytes,
       PT!build_digest, PT!Checksum, PT!Garbage, PT!OpenSSLNames, finalize, update,
       NewDigest, Bytes, build_digest, Checksum, Garbage, OpenSSLNames
<1> HIDE DEF sum
<1>5a. Checksum(Own(c.alg), c.seen)' = sum
  BY <1>1, <1>3 DEF Own, sum, inputVars, Checksum
<1>6. Len(<<"md5">>) = 1 /\ 1..1 = {1}
  OBVIOUS
<1>7. <<sum>> \in [1..1 -> {sum}] /\ <<sum>>[1] = sum
  OBVIOUS
<1>8. UNION {PT!SumsOf(pos, k) : k \in 1..1} = {sum}
  BY <1>6, <1>5
<1> QED
  BY <1>1, <1>2, <1>6, <1>5, <1>7, <1>8, <1>5a DEF PT!Report, inputVars, outputVars

LEMMA RefineNext == IInv /\ [Next]_vars => [PT!Next]_PT!ptvars
<1> SUFFICES ASSUME IInv, [Next]_vars PROVE PT!Next \/ UNCHANGED PT!ptvars
  OBVIOUS
<1>1. CASE Read
  BY <1>1, RefineRead DEF PT!Next
<1>2. CASE Write
  <2>1. PICK m \in 0..count : /\ given' = given \o SubSeq(buffer, 1, m)
                              /\ outError' = (outError \/ m < count)
    BY <1>2 DEF Write
  <2> QED
    BY <1>2, <2>1, RefineTransfer DEF Write, PT!Next
<1>3. CASE BrokenPipe
  <2>1. PICK m \in 0..(count - 1) : given' = given \o SubSeq(buffer, 1, m)
    BY <1>3 DEF BrokenPipe
  <2>2. m \in 0..count /\ m < count
    BY BufferAssumption DEF IInv, TypeOK
  <2>3. outError' = (outError \/ m < count)
    BY <1>3, <2>2 DEF BrokenPipe, IInv, TypeOK
  <2> QED
    BY <1>3, <2>1, <2>2, <2>3, RefineTransfer DEF BrokenPipe, PT!Next
<1>4. CASE Update
  BY <1>4 DEF Update, PT!ptvars, inputVars, outputVars
<1>5. CASE Final
  BY <1>5 DEF Final, PT!ptvars, inputVars, outputVars
<1>6. CASE Format
  BY <1>6 DEF Format, PT!ptvars, inputVars, outputVars
<1>7. CASE Report
  BY <1>7, RefineReport DEF PT!Next
<1>8. CASE Stopped \/ UNCHANGED vars
  BY <1>8 DEF Stopped, PT!ptvars, vars, Own
<1> QED
  BY <1>1, <1>2, <1>3, <1>4, <1>5, <1>6, <1>7, <1>8 DEF Next

(* Each of the six programs implements the pass-through specification.     *)
THEOREM HashRefinement == Spec => RefinesPassThru
  BY RefineInit, RefineNext, Inductive, PTL DEF Spec, RefinesPassThru, PT!Spec

-----------------------------------------------------------------------------
(***************************************************************************)
(* No run goes on for ever.                                                *)
(***************************************************************************)
(* The chunks, the hash, its text, the end; and the parts of a chunk's     *)
(* turn.                                                                   *)
Stage ==
  CASE pc \in {"read", "write", "update"} -> 3
    [] pc = "final"                       -> 2
    [] pc = "format"                      -> 1
    [] OTHER                              -> 0

Phase ==
  CASE pc = "write"  -> 2
    [] pc = "update" -> 1
    [] OTHER         -> 0

InputLeft == InputLen - pos

TextLeft == program.length - n

(* What each step leaves less of, the outermost loop first.                *)
RunProgress ==
  \/ Stage' < Stage
  \/ Stage' = Stage /\ InputLeft' < InputLeft
  \/ /\ Stage' = Stage /\ InputLeft' = InputLeft
     /\ Phase' < Phase \/ (Phase' = Phase /\ TextLeft' < TextLeft)

(* Each of the six programs comes to an end or is waiting for its input or *)
(* its output: every step has less left of the input, of the chunk's turn  *)
(* or of the text, and what is left is a number (md5sump.c lines 21-31 and *)
(* their copies).                                                          *)
THEOREM HashProgress ==
  Spec => /\ [](Stage \in Nat /\ Phase \in Nat /\ InputLeft \in Nat /\ TextLeft \in Nat)
          /\ [][RunProgress \/ Stopped]_vars
<1>1. ASSUME IInv
      PROVE  Stage \in Nat /\ Phase \in Nat /\ InputLeft \in Nat /\ TextLeft \in Nat
  <2>1. Stage \in Nat
    BY DEF Stage
  <2>2. Phase \in Nat
    BY DEF Phase
  <2>3. InputLeft \in Nat
    BY <1>1, InputAssumption DEF IInv, TypeOK, InputLeft
  <2>4. program \in Programs /\ n \in 0..program.length
    BY <1>1 DEF IInv, TypeOK
  <2>5. program.length \in Nat
    BY <2>4, ProgramFacts
  <2>6. TextLeft \in Nat
    BY <2>4, <2>5 DEF TextLeft
  <2> QED
    BY <2>1, <2>2, <2>3, <2>6
<1>2. ASSUME IInv, Next PROVE RunProgress \/ Stopped
  <2>1. CASE Read
    <3>1. PICK m \in 0..BUFFER_SIZE : fread(m)
      BY <2>1 DEF Read
    <3>2. pos \in Nat /\ m \in Nat /\ pos' = pos + m /\ count' = m
      BY <1>2, <3>1, BufferAssumption, InputAssumption DEF fread, IInv, TypeOK
    <3>3. CASE m > 0
      <4>1. pc' \in {"read", "write", "update", "final"}
        BY <2>1 DEF Read
      <4>2. Stage' = Stage \/ Stage' < Stage
        BY <2>1, <4>1 DEF Read, Stage
      <4>3. InputLeft' < InputLeft
        BY <3>2, <3>3, InputAssumption DEF InputLeft
      <4> QED
        BY <4>2, <4>3 DEF RunProgress
    <3>4. CASE ~(m > 0)
      <4>1. pc' = "final"
        <5>1. PICK k \in 0..BUFFER_SIZE : fread(k) /\ pc' = IF k > 0 THEN "write" ELSE "final"
          BY <2>1 DEF Read
        <5>2. k = m
          BY <3>2, <5>1 DEF fread
        <5> QED
          BY <3>4, <5>1, <5>2
      <4>2. Stage' < Stage
        BY <2>1, <4>1 DEF Read, Stage
      <4> QED
        BY <4>2 DEF RunProgress
    <3> QED
      BY <3>3, <3>4
  <2>2. CASE Write \/ Update
    <3>1. /\ pos' = pos
          /\ \/ pc = "write" /\ pc' = "update"
             \/ pc = "update" /\ pc' = "read"
      BY <2>2 DEF Write, Update, inputVars
    <3>2. Stage' = Stage /\ InputLeft' = InputLeft /\ Phase' < Phase
      BY <3>1 DEF Stage, InputLeft, Phase
    <3> QED
      BY <3>2 DEF RunProgress
  <2>3. CASE BrokenPipe \/ Final \/ Report
    <3>1. Stage' < Stage
      BY <2>3 DEF BrokenPipe, Final, Report, Stage
    <3> QED
      BY <3>1 DEF RunProgress
  <2>4. CASE Format
    <3>1. pc' = pc /\ pos' = pos /\ program' = program /\ n' = n + 1
      BY <2>4 DEF Format, inputVars
    <3>2. Stage' = Stage /\ InputLeft' = InputLeft /\ Phase' = Phase
      BY <3>1 DEF Stage, InputLeft, Phase
    <3>3. program \in Programs /\ n \in 0..program.length
      BY <1>2 DEF IInv, TypeOK
    <3>4. program.length \in Nat
      BY <3>3, ProgramFacts
    <3>5. TextLeft' < TextLeft
      BY <3>1, <3>3, <3>4 DEF TextLeft
    <3> QED
      BY <3>2, <3>5 DEF RunProgress
  <2> QED
    BY <1>2, <2>1, <2>2, <2>3, <2>4 DEF Next
<1>3. IInv => Stage \in Nat /\ Phase \in Nat /\ InputLeft \in Nat /\ TextLeft \in Nat
  BY <1>1
<1>4. IInv /\ Next => RunProgress \/ Stopped
  BY <1>2
<1> QED
  BY <1>3, <1>4, Inductive, PTL DEF Spec

-----------------------------------------------------------------------------
(***************************************************************************)
(* What reaches the output.                                                *)
(***************************************************************************)
\* Bytes of the chunks that have been offered to the output.
Offered == IF pc = "write" THEN pos - count ELSE pos

GivenOK == ~outError => given = Bytes(Offered)

LEMMA GivenNext == IInv /\ GivenOK /\ [Next]_vars => GivenOK'
<1> SUFFICES ASSUME IInv, GivenOK, [Next]_vars, ~outError'
             PROVE  given' = Bytes(Offered)'
  BY DEF GivenOK
<1>1. pos \in Nat /\ count \in Nat /\ count <= pos
  BY BufferAssumption, InputAssumption DEF IInv, TypeOK, WindowOK
<1>2. CASE Read
  <2>1. PICK m \in 0..BUFFER_SIZE : fread(m) /\ pc' = IF m > 0 THEN "write" ELSE "final"
    BY <1>2 DEF Read
  <2>2. m \in Nat /\ pos' = pos + m /\ count' = m
    BY <2>1, BufferAssumption DEF fread
  <2>3. (IF pc' = "write" THEN pos' - count' ELSE pos') = pos
    BY <1>1, <2>1, <2>2
  <2>4. Offered = pos /\ Offered' = pos
    BY <1>2, <2>3 DEF Read, Offered
  <2>5. UNCHANGED <<outError, given>>
    BY <1>2 DEF Read, outputVars
  <2> QED
    BY <2>4, <2>5 DEF GivenOK, Bytes
<1>3. CASE Write
  <2>1. PICK m \in 0..count : /\ given' = given \o SubSeq(buffer, 1, m)
                              /\ outError' = (outError \/ m < count)
    BY <1>3 DEF Write
  <2>2. ~outError /\ ~(m < count)
    BY <2>1
  <2>3. m = count
    BY <1>1, <2>2
  <2>4. SubSeq(buffer, 1, m) = [i \in 1..count |-> (pos - count) + i]
    BY <1>3, <2>3, ChunkFacts DEF Write
  <2>5. given = Bytes(pos - count)
    BY <1>3, <2>2 DEF Write, GivenOK, Offered
  <2>6. given' = Bytes(pos - count) \o [i \in 1..count |-> (pos - count) + i]
    BY <2>1, <2>4, <2>5
  <2>7. pos - count \in Nat /\ (pos - count) + count = pos
    BY <1>1
  <2>8. given' = Bytes(pos)
    BY <1>1, <2>6, <2>7, BytesExtend
  <2>9. Offered' = pos
    BY <1>3 DEF Write, Offered, inputVars
  <2> QED
    BY <2>8, <2>9 DEF Bytes
<1>4. CASE BrokenPipe
  BY <1>4 DEF BrokenPipe
<1>5. CASE Update \/ Final \/ Format \/ Report \/ Stopped \/ UNCHANGED vars
  <2>1. UNCHANGED <<outError, given, pos, count>> /\ (pc = "write") = (pc' = "write")
    BY <1>5 DEF Update, Final, Format, Report, Stopped, vars, inputVars, outputVars
  <2>2. Offered' = Offered
    BY <2>1 DEF Offered
  <2> QED
    BY <2>1, <2>2 DEF GivenOK, Bytes
<1> QED
  BY <1>2, <1>3, <1>4, <1>5 DEF Next

(* A run that reports a sum has passed on all of its input, unless the     *)
(* input failed or the output refused something (md5sump.c lines 21-24 and *)
(* their copies).                                                          *)
THEOREM HashPassesOn ==
  Spec => [](pc = "done" /\ ~inError /\ ~outError => given = Bytes(InputLen))
<1>1. Init => GivenOK
  BY DEF Init, GivenOK, Offered, Bytes
<1>2. IInv /\ GivenOK /\ [Next]_vars => GivenOK'
  BY GivenNext
<1>3. IInv /\ GivenOK => (pc = "done" /\ ~inError /\ ~outError => given = Bytes(InputLen))
  BY DEF IInv, EndOK, GivenOK, Offered
<1> QED
  BY <1>1, <1>2, <1>3, Inductive, PTL DEF Spec
=============================================================================
