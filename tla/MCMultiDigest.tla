--------------------------- MODULE MCMultiDigest ---------------------------
(* Instances of MultiDigest: the algorithms asked for.                     *)
EXTENDS MultiDigest

\* A hash, the byte counter and the digest of nothing, over two threads:
\* one iteration always waits for a thread.
MCThree == <<"md5", "count", "none">>

\* What `sump` alone runs: build_digest_default.
MCDefault == <<"", "sha1">>
=============================================================================
