------------------------------ MODULE HashSump ------------------------------
(***************************************************************************)
(* md5sump and the five sha*sump programs: one loop in six copies, which   *)
(* differ in the hash, in the length of its digest and in the array that   *)
(* holds the digest's text.                                                *)
(*                                                                         *)
(* The loop is that of sump with one digest and no threads; what it adds   *)
(* is the text, two digits at a time, each pair over the NUL that ended    *)
(* the one before.                                                         *)
(***************************************************************************)
EXTENDS Integers, Sequences, Digests

CONSTANTS
  BUFFER_SIZE,  \* bytes the buffer holds
  InputLen,     \* bytes the input holds
  DigestBytes   \* the values a byte of a digest is supposed to take, a first
                \* and an other one

ASSUME BufferAssumption == BUFFER_SIZE \in Nat \ {0}
ASSUME InputAssumption  == InputLen \in Nat
ASSUME BytesAssumption  == DigestBytes \subseteq 0..255

VARIABLES
  program,
  pc,
  pos,        \* bytes taken from stdin
  inError,    \* stdin's error indicator, which nothing reads
  buffer,
  count,      \* what the last fread returned
  given,      \* the bytes stdout accepted
  outError,   \* stdout's error indicator, which nothing reads
  c,          \* the hash context
  digest,     \* what Final wrote, << >> before it
  n,          \* the byte to be formatted next
  out         \* the text, and the memory behind it

vars == <<program, pc, pos, inError, buffer, count, given, outError, c,
          digest, n, out>>

inputVars  == <<pos, inError, buffer, count>>
outputVars == <<given, outError>>
textVars   == <<digest, n, out>>

(* length of digest and size of out, and the hash of the context           *)
md5sump    == [alg |-> "md5",    ctx |-> "MD5",    length |-> 16, size |-> 33]

sha1sump   == [alg |-> "sha1",   ctx |-> "SHA",    length |-> 20, size |-> 20 * 2 + 1]

sha224sump == [alg |-> "sha224", ctx |-> "SHA256", length |-> 28, size |-> 28 * 2 + 1]

sha256sump == [alg |-> "sha256", ctx |-> "SHA256", length |-> 32, size |-> 32 * 2 + 1]

sha384sump == [alg |-> "sha384", ctx |-> "SHA512", length |-> 48, size |-> 48 * 2 + 1]

sha512sump == [alg |-> "sha512", ctx |-> "SHA512", length |-> 64, size |-> 64 * 2 + 1]

Programs == {md5sump, sha1sump, sha224sump, sha256sump, sha384sump, sha512sump}

Digits == 0..15

\* What else a cell of out may hold: the end of the text, or what was there.
NUL == -1

Old == -2

Cells == Digits \cup {NUL, Old}

\* The cells of out, and as many behind it as one snprintf could reach.
Reach(p) == 0..(p.size + 2)

Init ==
  /\ program \in Programs
  /\ pc = "read"
  /\ pos = 0
  /\ inError = FALSE
  /\ buffer = [i \in 1..BUFFER_SIZE |-> 0]
  /\ count = 0
  /\ given = << >>
  /\ outError = FALSE
  /\ c = NewDigest(program.alg)
  /\ digest = << >>
  /\ n = 0
  /\ out = [i \in Reach(program) |-> Old]

(* fread yields m bytes: as many as fit unless stdin ends or fails first.  *)
fread(m) ==
  /\ m <= InputLen - pos
  /\ inError' = (inError \/ (m < BUFFER_SIZE /\ m < InputLen - pos))
  /\ pos' = pos + m
  /\ buffer' = [i \in 1..BUFFER_SIZE |-> IF i <= m THEN pos + i ELSE buffer[i]]
  /\ count' = m

(* Slip: an empty read is handed on like any other.                        *)
ReadForEver ==
  /\ pc = "read"
  /\ \E m \in 0..BUFFER_SIZE : fread(m)
  /\ pc' = "write"
  /\ UNCHANGED <<program, outputVars, c, textVars>>

Read ==
  /\ pc = "read"
  /\ \E m \in 0..BUFFER_SIZE :
       /\ fread(m)
       /\ pc' = IF m > 0 THEN "write" ELSE "final"
  /\ UNCHANGED <<program, outputVars, c, textVars>>

(* stdout takes m bytes of the chunk; fwrite's result is not looked at.    *)
Write ==
  /\ pc = "write"
  /\ \E m \in 0..count :
       /\ given' = given \o SubSeq(buffer, 1, m)
       /\ outError' = (outError \/ m < count)
  /\ pc' = "update"
  /\ UNCHANGED <<program, inputVars, c, textVars>>

(* The reader of the pipe stdout is goes away: SIGPIPE.                    *)
BrokenPipe ==
  /\ pc = "write"
  /\ \E m \in 0..(count - 1) : given' = given \o SubSeq(buffer, 1, m)
  /\ outError' = TRUE
  /\ pc' = "killed"
  /\ UNCHANGED <<program, inputVars, c, textVars>>

(* Slip: the hash takes the whole buffer, whatever was read.               *)
UpdateWhole ==
  /\ pc = "update"
  /\ c' = update(c, buffer)
  /\ pc' = "read"
  /\ UNCHANGED <<program, inputVars, outputVars, textVars>>

Update ==
  /\ pc = "update"
  /\ c' = update(c, SubSeq(buffer, 1, count))
  /\ pc' = "read"
  /\ UNCHANGED <<program, inputVars, outputVars, textVars>>

(* The digest's bytes may be any; here two values come to stand in it, the *)
(* one first and in every other place.                                     *)
Final ==
  /\ pc = "final"
  /\ \E b, d \in DigestBytes :
       digest' = [i \in 1..program.length |-> IF i % 2 = 1 THEN b ELSE d]
  /\ pc' = "format"
  /\ UNCHANGED <<program, inputVars, outputVars, c, n, out>>

(* Slip: "%x", which writes a byte below 16 as one digit.                  *)
TextShort(b) == IF b < 16 THEN <<b>> ELSE <<b \div 16, b % 16>>

(* "%02x"                                                                  *)
Text(b) == <<b \div 16, b % 16>>

(* snprintf(&out[at], limit, "%02x", b): as much of the text as leaves     *)
(* room for the NUL, and the NUL.                                          *)
snprintf(at, limit, b) ==
  LET text == Text(b)
      kept == IF Len(text) < limit THEN Len(text) ELSE limit - 1
  IN  [i \in DOMAIN out |->
         IF i \in at..(at + kept - 1) THEN text[i - at + 1]
         ELSE IF i = at + kept THEN NUL ELSE out[i]]

(* One turn of the loop.  The limit is that of the whole text, wherever in *)
(* out the pair goes.                                                      *)
Format ==
  /\ pc = "format"
  /\ n < program.length
  /\ out' = snprintf(n * 2, program.length * 2, digest[n + 1])
  /\ n' = n + 1
  /\ UNCHANGED <<program, pc, inputVars, outputVars, c, digest>>

Report ==
  /\ pc = "format"
  /\ n = program.length
  /\ pc' = "done"
  /\ UNCHANGED <<program, inputVars, outputVars, c, textVars>>

Stopped ==
  /\ pc \in {"done", "killed"}
  /\ UNCHANGED vars

Next ==
  \/ Read \/ Write \/ BrokenPipe \/ Update \/ Final \/ Format \/ Report
  \/ Stopped

Spec == Init /\ [][Next]_vars

(* A sequential program, whose input yields bytes, ends or fails.          *)
FairSpec == Spec /\ WF_vars(Next)

-----------------------------------------------------------------------------
TypeOK ==
  /\ program \in Programs
  /\ pc \in {"read", "write", "update", "final", "format", "done", "killed"}
  /\ pos \in 0..InputLen
  /\ inError \in BOOLEAN
  /\ buffer \in [1..BUFFER_SIZE -> 0..InputLen]
  /\ count \in 0..BUFFER_SIZE
  /\ given \in Seq(1..InputLen)
  /\ outError \in BOOLEAN
  /\ c \in DigestObjects(1..InputLen)
  /\ digest = << >> \/ digest \in [1..program.length -> 0..255]
  /\ n \in 0..program.length
  /\ out \in [Reach(program) -> Cells]

(* The text reported is the digest, two digits a byte, and ends behind the *)
(* last; every snprintf is given more room than out has left behind the    *)
(* place it writes at, and yet none writes behind out (md5sump.c lines     *)
(* 16, 28-31 and their copies).                                            *)
TextIsDigest ==
  /\ \A i \in DOMAIN out : i >= program.size => out[i] = Old
  /\ pc = "done" =>
       /\ \A j \in 0..(program.length - 1) :
            out[2 * j] = digest[j + 1] \div 16 /\ out[2 * j + 1] = digest[j + 1] % 16
       /\ out[2 * program.length] = NUL

(* Each program passes its input on and reports one sum, as sump does with *)
(* one algorithm: of exactly what it took, once that is all of the input   *)
(* or the input has failed.  For each program's own algorithm md5 stands   *)
(* here (md5sump.c lines 21-31 and their copies).                          *)
Own(alg) == IF alg = program.alg THEN "md5" ELSE alg

PT == INSTANCE PassThru WITH
        Algs    <- <<"md5">>,
        Chunk   <- BUFFER_SIZE,
        outfile <- TRUE,
        taken   <- IF pc = "write" THEN pos - count ELSE pos,
        outputs <- IF pc = "done" THEN <<Checksum(Own(c.alg), c.seen)>> ELSE << >>

RefinesPassThru == PT!Spec

(* Whatever fails, the program ends (md5sump.c lines 21-33).               *)
Terminates == <>(pc \in {"done", "killed"})
=============================================================================
