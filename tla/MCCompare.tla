----------------------------- MODULE MCCompare ------------------------------
(* Compare on two files of up to three lines: two sums of one name, a name *)
(* that begins like another one, a line that ends in blanks, one without a *)
(* name.                                                                   *)
EXTENDS Compare

MCLines == {<<"s", "a">>, <<"t", "a">>, <<"s", "b">>, <<"s", "a", "b">>, <<"t", "a", "">>,
            <<"s">>}

MCArgvs == {<<"f", "g">>, <<"f", "f">>, <<"f">>, <<"f", "missing">>}
=============================================================================
