------------------------------- MODULE MCUri -------------------------------
(***************************************************************************)
(* Texts for model checking Uri: a URI with every part, one with a query   *)
(* only, a file, URIs with a negative port, with a port behind white       *)
(* space, with a port that is too large for a long and with one that is no *)
(* number; queries of up to three characters; keys and values with and     *)
(* without separators in them.                                             *)
(***************************************************************************)
EXTENDS Uri

MCKeptTexts == {<<>>,
                <<"A", ":", "/", "/", "k", "@", "v", ":", "9", "/", "?", "k",
                  "=", "v", "#", "f">>,
                <<"?", "k", "&", "k", "=", "v">>,
                <<"f", "i", "l", "e", ":", "/", "/", "a">>,
                <<"a", ":", "/", "/", "v", ":", "-", "1">>,
                <<"a", ":", "/", "/", "v", ":", "space", "-", "1">>,
                <<"a", ":", "/", "/", "v", ":", "9", "9", "#", "f">>,
                <<"a", ":", "/", "/", "v", ":", "-">>}

MCPartTexts == {<<>>, <<"a">>}

MCQueryTexts == BoundedSeq({"k", "=", "&"}, 3)

MCKeys == {<<>>, <<"k">>, <<"v">>, <<"k", "&">>}

MCValues == {<<>>, <<"=">>, <<"&", "v">>}
=============================================================================
