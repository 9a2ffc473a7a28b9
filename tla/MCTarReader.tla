---------------------------- MODULE MCTarReader ----------------------------
(* TarReader on every input of up to 13 bytes: records of 2 bytes, buffers *)
(* of 3 records, so inputs end at, before and inside the last record of a  *)
(* first, a second and a third buffer.                                     *)
EXTENDS TarReader
=============================================================================
