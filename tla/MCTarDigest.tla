---------------------------- MODULE MCTarDigest ----------------------------
(***************************************************************************)
(* TarDigest on archives of blocks of 2 bytes, cut at every byte, read     *)
(* through a buffer of 2 blocks.                                           *)
(***************************************************************************)
EXTENDS TarDigest

H(type, n, name) == [header |-> TRUE, type |-> type, size |-> n, sizeOK |-> TRUE,
                     bytes |-> <<name, 0>>]
D(x, y) == [header |-> FALSE, type |-> "none", size |-> 0, sizeOK |-> TRUE,
            bytes |-> <<x, y>>]
Zero == D(0, 0)

MCArchives ==
  { \* two files, an odd size and a whole block, out of order, then padding
    <<H("file", 3, 7), D(1, 2), D(3, 0), H("file", 2, 5), D(4, 5), Zero>>,
    \* a long name of two blocks' data, a directory, an empty file
    <<H("dir", 0, 4), H("long", 3, 9), D(6, 5), Zero, H("file", 1, 8), D(1, 0)>>,
    \* names: same for two files; a file whose data is an archive
    <<H("file", 0, 5), H("file", 4, 5), H("file", 2, 6), D(1, 1), Zero>>,
    \* an extension header and its data, then a file
    <<H("other", 2, 3), D(1, 2), H("file", 2, 5), D(3, 4), Zero>>,
    \* an extension header whose data is an archive
    <<H("other", 4, 3), H("file", 2, 4), D(1, 2), H("file", 2, 5), D(3, 4)>>,
    \* a size the code does not decode, and a long name of no bytes
    <<H("file", 2, 5), D(1, 2), [H("file", 0, 6) EXCEPT !.sizeOK = FALSE], Zero>>,
    <<H("long", 0, 9), H("file", 2, 5), D(1, 2)>>,
    \* archives that end in the data of a file and of a long name
    <<H("file", 2, 5), D(1, 2), H("file", 5, 6), D(3, 4)>>,
    <<H("file", 1, 5), D(1, 0), H("long", 3, 9), D(6, 5)>> }

MCArgvs ==
  {<<"sha1">>, <<"md5", "count">>, << >>, <<"sha1", "--sumsonly">>, <<"sha3">>}

\* Two files, the second's name of a byte beyond 127.
MCNames ==
  {<<H("file", 0, 90), H("file", 0, 200)>>, <<H("file", 1, 200), D(1, 0), H("file", 0, 90)>>}
=============================================================================
