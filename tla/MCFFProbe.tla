----------------------------- MODULE MCFFProbe ------------------------------
(* FFProbe on three files, one longer than a pipe, one empty.              *)
EXTENDS FFProbe

MCSizes == <<3, 0, 1>>
=============================================================================
