------------------------------ MODULE MCXxh64 ------------------------------
(* Xxh64 with a stripe of 4 bytes and pieces of up to two stripes and one  *)
(* byte: every way a piece can begin and end inside a stripe.              *)
EXTENDS Xxh64
=============================================================================
