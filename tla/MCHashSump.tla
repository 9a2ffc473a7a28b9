----------------------------- MODULE MCHashSump -----------------------------
(* HashSump with bytes of one digit and of two in the digest.              *)
EXTENDS HashSump

MCBytes == {15, 171}
=============================================================================
