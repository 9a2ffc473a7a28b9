---------------------------- MODULE MCTarHeader ----------------------------
(* Headers with names of 3 bytes, sizes of 4, times of 2, checksums of 6   *)
(* and prefixes of 2, of members that try out one field or two at a time.  *)
EXTENDS TarHeader

M(n, p, t, s, ss, mt, cs, sg) ==
  [name |-> n, prefix |-> p, times |-> t, size |-> s, sizeStyle |-> ss,
   mtime |-> mt, sumStyle |-> cs, signed |-> sg]

\* Shorter than the field, as long, and of bytes beyond 127.
MCNames == {<<97>>, <<97, 98, 99>>, <<97, 228>>}

MCSizes ==
  {<<0, "nul">>, <<5, "nul">>, <<511, "nul">>, <<2, "blank">>, <<5, "blank">>, <<0, "full">>,
   <<8, "full">>, <<688, "full">>, <<4095, "full">>, <<5, "padded">>, <<511, "padded">>,
   <<5, "base256">>, <<33000, "base256">>, <<2097151, "base256">>, <<2097152, "base256">>,
   <<2097157, "base256">>, <<0, "minus">>}

\* The times 7, 0 and 2, one that a blank ends, and 0 in a full field: behind
\* a full 688 the checksum, 688 too, makes up for the wrap.
MCMtimes == {<<55, 0>>, <<48, 0>>, <<50, 0>>, <<55, 32>>, <<48, 48>>}

MCMembers ==
  {M(n, p, << >>, 5, "nul", <<55, 0>>, cs, sg) :
     n \in MCNames, p \in {<< >>, <<112>>, <<112, 113>>}, cs \in SumStyles, sg \in BOOLEAN}
  \cup
  {M(n, << >>, <<49>>, 5, "nul", <<55, 0>>, "nul", sg) : n \in MCNames, sg \in BOOLEAN}
  \cup
  {M(<<97>>, << >>, << >>, s[1], s[2], mt, "nul", FALSE) : s \in MCSizes, mt \in MCMtimes}
  \cup
  {M(<<255, 128, 200>>, p, << >>, 5, "nul", <<55, 0>>, cs, sg) :
     p \in {<< >>, <<200>>}, cs \in SumStyles, sg \in BOOLEAN}

MCWrong == {0, 1, 32, 48, 127, 128, 255}

MCJunk == {<<0>>, <<48, 0>>, <<127, 0>>}
=============================================================================
