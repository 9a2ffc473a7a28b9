------------------------------- MODULE MCSump -------------------------------
(* Sump on two files and on every command line of up to three of the       *)
(* groups below, and on some longer ones.                                  *)
EXTENDS Sump

Groups == {<<"-i", "a">>, <<"-o", "a">>, <<"-o", "b">>, <<"-s", "a">>, <<"-s", "b">>,
           <<"md5">>, <<"sha1">>, <<"--sumsonly">>, <<"-i">>, <<"-o">>}

MCArgvs ==
  {<< >>} \cup Groups \cup {g \o h : g, h \in Groups} \cup {g \o h \o i : g, h, i \in Groups}
    \cup {<<"md5", "-i", "a", "sha1", "-o", "b", "-s", "a">>,
          <<"-i", "a", "md5", "-s", "b", "sha1", "-o", "b">>,
          <<"-i", "a", "-o", "b", "md5", "sha1", "md5">>}
=============================================================================
