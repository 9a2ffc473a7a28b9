------------------------------ MODULE Digests ------------------------------
(***************************************************************************)
(* The digest objects of sump.h, as values.  A byte of the input is named  *)
(* by its position in it, so what a digest has absorbed says which bytes   *)
(* it was given, in which order and how often.  The hash functions are not *)
(* computed: a checksum is the pair of its algorithm and the bytes it      *)
(* stands for, so two checksums are equal when the same algorithm absorbed *)
(* the same bytes.                                                         *)
(***************************************************************************)
LOCAL INSTANCE Integers
LOCAL INSTANCE Sequences

(* Byte i of the input is the number i; these are its first n bytes.       *)
Bytes(n) == [i \in 1..n |-> i]

(* The OpenSSL-backed algorithms: one template class, OpenSSLDigest.       *)
OpenSSLNames == {"md4", "md5", "sha1", "sha224", "sha256", "sha384",
                 "sha512", "whirlpool", "ripemd160"}

Algorithms == OpenSSLNames \cup {"count", "none", "xxh"}

(* The algorithm of the object build_digest makes.  The empty name is the  *)
(* default digest, and a name it does not know gives the digest that sums  *)
(* nothing.                                                                *)
build_digest(name) ==
  CASE name \in OpenSSLNames -> name
    [] name = "count"        -> "count"
    [] name \in {"xxh", ""}  -> "xxh"
    [] OTHER                 -> "none"

(* A digest object: its algorithm, whether its hash state has been         *)
(* initialised, and what it has absorbed since then.                       *)
DigestObjects(Byte) ==
  [alg : Algorithms, ready : BOOLEAN, seen : Seq(Byte)]

(* Construction.  Every constructor initialises the hash state but         *)
(* XXHDigest's, which leaves what XXH64_createState allocated as it was.   *)
NewDigest(name) ==
  [alg |-> build_digest(name), ready |-> build_digest(name) # "xxh",
   seen |-> << >>]

reset(d) == [d EXCEPT !.ready = TRUE, !.seen = << >>]

(* update: d absorbs bytes, in order.                                      *)
update(d, bytes) == [d EXCEPT !.seen = @ \o bytes]

(* A checksum that says nothing about any input.                           *)
Garbage == <<-1>>

Checksums == [alg : Algorithms, of : Seq(Int)]

(* The checksum of a byte string.  CountDigest keeps only its length.      *)
Checksum(alg, bytes) ==
  [alg |-> alg,
   of  |-> IF alg = "count" THEN <<Len(bytes)>> ELSE bytes]

(* The checksums finalize may return.  "none" formats a buffer that        *)
(* none_Final never writes.  An xxh state that was never reset hashes from *)
(* whatever the allocator returned: by luck (zeroed memory, a short input) *)
(* the right value, otherwise another one.  (With a garbage count of       *)
(* buffered bytes it may also copy out of bounds, which is left out.)      *)
finalize(d) ==
  LET right == Checksum(d.alg, d.seen)
      wrong == [alg |-> d.alg, of |-> Garbage]
  IN  CASE d.alg = "none" -> {wrong}
        [] d.alg = "xxh" /\ ~d.ready -> {right, wrong}
        [] OTHER -> {right}
=============================================================================
