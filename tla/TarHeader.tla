----------------------------- MODULE TarHeader -----------------------------
(***************************************************************************)
(* TARFileHeader of sump.h, byte by byte: from a header an archiver wrote, *)
(* perhaps damaged since, to what tar_digest takes it for.                 *)
(*                                                                         *)
(* A header is flat: the code's strings end at the first NUL and not with  *)
(* their field, so what follows a field matters.  The fields are shorter   *)
(* than in the code; of those it does not read there are two bytes in      *)
(* front of size (mode), all of the time behind it, which a size may run   *)
(* on into, a type byte and a byte of padding.                             *)
(***************************************************************************)
EXTENDS Integers, Sequences

CONSTANTS
  NameLen, SizeLen, MtimeLen, SumLen, PrefixLen,  \* the lengths of fields
  Word,       \* values of a size_t
  Members,    \* what the archiver is asked to describe, and how it writes
  Wrong,      \* bytes a damaged byte may have become
  Junk        \* what may lie behind a copy of the checksum, up to a NUL

Byte  == 0..255
Texts == Seq(Byte \ {0})

\* Terminated by a NUL, by a blank, by nothing; padded with blanks; base 256;
\* and negative, with a first byte of 255.
SizeStyles == {"nul", "blank", "full", "padded", "base256", "minus"}
\* GNU tar's; the two in the other order; padded with blanks; no terminator.
SumStyles  == {"nul", "blank", "padded", "full"}

ASSUME LengthsAssumption ==
  /\ NameLen \in Nat \ {0} /\ SizeLen \in Nat \ {0, 1} /\ MtimeLen \in Nat \ {0}
  /\ SumLen \in Nat \ {0, 1, 2} /\ PrefixLen \in Nat \ {0}

\* n without its last k digits, for each k.
Leading(n, base, width) ==
  LET q[k \in 0..width] == IF k = 0 THEN n ELSE q[k - 1] \div base IN q

Fits(n, base, width) == Leading(n, base, width)[width] = 0

\* `mtime` is the field lastModification; `times` is what GNU tar
\* --incremental keeps where ustar has the prefix.
ASSUME MembersAssumption ==
  \A m \in Members :
    /\ m.name \in Texts /\ Len(m.name) \in 1..NameLen
    /\ m.prefix \in Texts /\ Len(m.prefix) <= PrefixLen
    /\ m.times \in Texts /\ Len(m.times) < PrefixLen
    /\ m.prefix = << >> \/ m.times = << >>
    /\ m.size \in Nat /\ m.sizeStyle \in SizeStyles
    /\ m.sizeStyle \in {"nul", "blank", "padded"} => Fits(m.size, 8, SizeLen - 1)
    /\ m.sizeStyle = "full" => Fits(m.size, 8, SizeLen)
    /\ m.sizeStyle = "base256" => Fits(m.size, 256, SizeLen - 1)
    /\ m.mtime \in [1..MtimeLen -> Byte]
    /\ m.sumStyle \in SumStyles /\ m.signed \in BOOLEAN

ASSUME DamageAssumption == Wrong \subseteq Byte /\ Junk \subseteq Seq(Byte)

VARIABLES
  member,   \* what the header was written for
  header,   \* its bytes
  damaged,  \* the byte that is no longer what was written, 0 for none
  pc,       \* how far tar_digest has come with it
  name,     \* what getFilename returned
  size      \* what getFileSize returned

vars == <<member, header, damaged, pc, name, size>>

-----------------------------------------------------------------------------
\* The fields' places: the first byte of each.
SizeAt   == NameLen + 3
MtimeAt  == SizeAt + SizeLen
SumAt    == MtimeAt + MtimeLen
PrefixAt == SumAt + SumLen + 1
Last1    == PrefixAt + PrefixLen

InSum(i) == i \in SumAt..(SumAt + SumLen - 1)

\* The powers of 8, up to the nth.
Powers(n) == LET p[k \in 0..n] == IF k = 0 THEN 1 ELSE 8 * p[k - 1] IN p

\* A size_t is wider than the octal fields, and than the sum of a header.
ASSUME WordAssumption ==
  /\ Word \in Nat
  /\ Word > Powers(SizeLen)[SizeLen]
  /\ Word > 4096 * Last1 + 4 * Powers(SumLen)[SumLen]

(* A char holds a byte as a signed number.                                 *)
Char(b) == IF b < 128 THEN b ELSE b - 256

Chars(s) == [i \in DOMAIN s |-> Char(s[i])]

\* The sums of the first i elements of s, for each i.
Sums(s) ==
  LET sum[i \in 0..Len(s)] == IF i = 0 THEN 0 ELSE sum[i - 1] + s[i] IN sum

Total(s) == Sums(s)[Len(s)]

(***************************************************************************)
(* The archiver, which is not this repository's.                           *)
(***************************************************************************)
Digits(n, base, width) ==
  [i \in 1..width |-> Leading(n, base, width)[width - i] % base]

Octal(n, width) == [i \in 1..width |-> 48 + Digits(n, 8, width)[i]]

\* The same with blanks for leading zeros.
Padded(n, width) ==
  [i \in 1..width |->
     IF i < width /\ Leading(n, 8, width)[width - i] = 0 THEN 32 ELSE Octal(n, width)[i]]

Field(text, width) == [i \in 1..width |-> IF i <= Len(text) THEN text[i] ELSE 0]

SizeField(m) ==
  CASE m.sizeStyle = "nul"     -> Octal(m.size, SizeLen - 1) \o <<0>>
    [] m.sizeStyle = "blank"   -> Octal(m.size, SizeLen - 1) \o <<32>>
    [] m.sizeStyle = "full"    -> Octal(m.size, SizeLen)
    [] m.sizeStyle = "padded"  -> Padded(m.size, SizeLen - 1) \o <<0>>
    [] m.sizeStyle = "base256" ->
         <<128>> \o Digits(m.size, 256, SizeLen - 1)
    [] m.sizeStyle = "minus"   -> [i \in 1..SizeLen |-> 255]

SumField(m, n) ==
  CASE m.sumStyle = "nul"    -> Octal(n, SumLen - 2) \o <<0, 32>>
    [] m.sumStyle = "blank"  -> Octal(n, SumLen - 2) \o <<32, 0>>
    [] m.sumStyle = "padded" -> Padded(n, SumLen - 2) \o <<0, 32>>
    [] m.sumStyle = "full"   -> Octal(n, SumLen)

\* The header with `sum` in its checksum field: "6" stands for the mode's
\* digits, "0" is the type.
With(m, sum) ==
  Field(m.name, NameLen) \o <<54, 0>> \o SizeField(m) \o m.mtime \o sum
    \o <<48>> \o Field(m.prefix \o m.times, PrefixLen) \o <<0>>

Blank == [i \in 1..SumLen |-> 32]

\* The sum an archiver makes of its bytes: as they are, or as signed chars.
SumOf(m) ==
  LET h == With(m, Blank)
  IN  IF m.signed THEN Total(Chars(h)) ELSE Total(h)

ASSUME SumAssumption ==
  \A m \in Members : SumOf(m) \in Nat /\ Fits(SumOf(m), 8, SumLen - 2)

Written(m) == With(m, SumField(m, SumOf(m)))

\* The name the archiver meant.
Meant(m) == IF m.prefix = << >> THEN m.name ELSE m.prefix \o <<47>> \o m.name

-----------------------------------------------------------------------------
(***************************************************************************)
(* The code.                                                               *)
(***************************************************************************)
(* The C string that begins at byte i of s: up to a NUL, wherever that is. *)
(* (Behind s, which is as far as a damaged header goes, a NUL is assumed.) *)
CString(s, i) ==
  LET n == CHOOSE n \in i..(Len(s) + 1) :
             /\ n <= Len(s) => s[n] = 0
             /\ \A k \in i..(n - 1) : s[k] # 0
  IN  SubSeq(s, i, n - 1)

\* The number the first i digits make in a size_t, which wraps, for each i.
Numbers(digits, radix) ==
  LET num[i \in 0..Len(digits)] ==
        IF i = 0 THEN 0 ELSE (num[i - 1] * radix + digits[i]) % Word
  IN  num

Number(digits, radix) == Numbers(digits, radix)[Len(digits)]

(* Any character is a digit.                                               *)
decode(str, radix) == Number([i \in DOMAIN str |-> Char(str[i]) - 48], radix)

(* Slip: the bytes are added with their sign.                              *)
Base256Signed(bytes) == Number(Chars(bytes), 256)

Base256(bytes) == Number(bytes, 256)

(* Slip: the last byte of the header is left out of the sums.              *)
SummedShort == [i \in 1..(Last1 - 1) |-> IF InSum(i) THEN 32 ELSE header[i]]

(* The bytes checkChecksum adds up, the checksum itself as blanks.         *)
Summed == [i \in 1..Last1 |-> IF InSum(i) THEN 32 ELSE header[i]]

(* Slip: only the sum of signed chars is tried.                            *)
AcceptedSigned(ref) == ref = Total(Chars(Summed)) % Word

(* Either of the two sums in use will do.                                  *)
Accepted(ref) ==
  \/ ref = Total(Summed) % Word
  \/ ref = Total(Chars(Summed)) % Word

Init ==
  /\ member \in Members
  /\ header = Written(member)
  /\ damaged = 0
  /\ pc = "header"
  /\ name = << >>
  /\ size = 0

(* The archive is damaged on its way: one byte outside the checksum.       *)
Damage ==
  /\ pc = "header"
  /\ damaged = 0
  /\ \E i \in 1..Last1, b \in Wrong :
       /\ ~InSum(i) /\ header[i] # b
       /\ header' = [header EXCEPT ![i] = b]
       /\ damaged' = i
  /\ UNCHANGED <<member, pc, name, size>>

(* The checksum is decoded from a copy: without a NUL of its own decode    *)
(* runs on into what lies behind it on the stack.                          *)
checkChecksum ==
  /\ pc = "header"
  /\ \E junk \in Junk :
       LET orig == SubSeq(header, SumAt, SumAt + SumLen - 1)
           ref  == decode(CString(orig \o junk, 1), 8)
       IN  pc' = IF Accepted(ref) THEN "name" ELSE "ignored"
  /\ UNCHANGED <<member, header, damaged, name, size>>

(* Slip: the field's length does not bound a name without a prefix.        *)
FilenameUnbounded ==
  LET prefix == CString(header, PrefixAt)
  IN  (IF prefix = << >> THEN << >> ELSE prefix \o <<47>>) \o CString(header, 1)

(* Slip: the whole field, sizeof(filename), is the name.                   *)
FilenameWhole ==
  LET prefix == CString(header, PrefixAt)
  IN  IF prefix = << >>
      THEN SubSeq(header, 1, NameLen)
      ELSE prefix \o <<47>> \o CString(header, 1)

(* The prefix is taken for one whether or not the header is ustar's.       *)
Filename ==
  LET text   == CString(header, 1)
      prefix == CString(header, PrefixAt)
  IN  IF prefix = << >>
      THEN IF Len(text) < NameLen THEN text ELSE SubSeq(text, 1, NameLen)
      ELSE prefix \o <<47>> \o text

getFilename ==
  /\ pc = "name"
  /\ name' = Filename
  /\ pc' = "size"
  /\ UNCHANGED <<member, header, damaged, size>>

getFileSize ==
  /\ pc = "size"
  /\ \/ /\ header[SizeAt] \in 48..57
        /\ size' = decode(CString(header, SizeAt), 8)
        /\ pc' = "read"
     \/ /\ header[SizeAt] = 128
        /\ size' = Base256(SubSeq(header, SizeAt + 1, SizeAt + SizeLen - 1))
        /\ pc' = "read"
     \/ /\ header[SizeAt] \notin (48..57) \cup {128}
        /\ pc' = "malformed"
        /\ UNCHANGED size
  /\ UNCHANGED <<member, header, damaged, name>>

Stopped ==
  /\ pc \in {"ignored", "read", "malformed"}
  /\ UNCHANGED vars

Next == Damage \/ checkChecksum \/ getFilename \/ getFileSize \/ Stopped

Spec == Init /\ [][Next]_vars

-----------------------------------------------------------------------------
TypeOK ==
  /\ member \in Members
  /\ header \in [1..Last1 -> Byte]
  /\ damaged \in 0..Last1
  /\ pc \in {"header", "name", "size", "ignored", "read", "malformed"}
  /\ name \in Texts
  /\ size \in 0..(Word - 1)

(* A header as it was written passes for one when its checksum ends in a   *)
(* NUL and holds digits only, by whichever of the two ways of summing it   *)
(* was made.  Blanks in front of the digits make the code pass over the    *)
(* member; so does one behind them, but where the bytes were summed with   *)
(* their sign it may hit upon the other sum (checkChecksum, sump.h lines   *)
(* 635-648).                                                               *)
HeadersRecognised ==
  damaged = 0 =>
    LET style   == member.sumStyle
        blanked == SumField(member, SumOf(member))[1] = 32
    IN  /\ style = "nul" \/ (style = "padded" /\ ~blanked) => pc # "ignored"
        /\ (style = "padded" /\ blanked) \/ (style = "blank" /\ ~member.signed)
             => pc \in {"header", "ignored"}

(* No header whose checksum is digits and a NUL, and of which one byte     *)
(* outside the checksum is wrong, passes for one, though either of the two *)
(* sums may match (checkChecksum, sump.h line 647).                        *)
DamageDetected ==
  damaged # 0 /\ member.sumStyle = "nul" => pc \in {"header", "ignored"}

\* What lies behind the size's field, up to a NUL.
Behind(m) == CString(Written(m), MtimeAt)

\* The number a field without a NUL makes, its last blank taken for a digit.
Unended(m) == IF m.sizeStyle = "full" THEN m.size ELSE 8 * m.size - 16

(* The size is the one written exactly when the field ends in a NUL, or is *)
(* in base 256 and fits a size_t, or when what it runs on into happens to  *)
(* make up for the places it shifts it by.  (In the code's fields of 12    *)
(* characters a size of 0 does so before the time 0, a blank-ended 2       *)
(* before the time 2, and a full 2^31 before the time 2^31, as the size_t  *)
(* wraps.)  The file is given up as malformed for a field that begins with *)
(* a blank or is negative (decode and getFileSize, sump.h lines 560-568,   *)
(* 600-622).                                                               *)
SizeAsWritten ==
  damaged = 0 =>
    /\ pc = "read" =>
         (size = member.size <=>
            \/ member.sizeStyle \in {"nul", "padded"}
            \/ member.sizeStyle = "base256" /\ member.size < Word
            \/ /\ member.sizeStyle \in {"full", "blank"}
               /\ LET more  == Behind(member)
                      shift == Powers(Len(more))[Len(more)]
                  IN  member.size = (Unended(member) * shift + decode(more, 8)) % Word)
    /\ pc \in {"read", "malformed"} =>
         (pc = "malformed" <=> \/ member.sizeStyle = "minus"
                               \/ member.sizeStyle = "padded" /\ SizeField(member)[1] = 32)

(* The name is the one written unless the name fills its field below a     *)
(* prefix, where it runs on into the next field, or GNU tar keeps times in *)
(* the prefix's place (getFilename, sump.h lines 624-633).                 *)
NameAsWritten ==
  damaged = 0 /\ pc \in {"size", "read", "malformed"} =>
    (name = Meant(member) <=>
       /\ member.times = << >>
       /\ member.prefix # << >> => Len(member.name) < NameLen)
=============================================================================
