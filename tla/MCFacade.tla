------------------------------ MODULE MCFacade ------------------------------
(***************************************************************************)
(* Keys and values for model checking Facade with entries of four bytes:   *)
(* pairs that fit, that fill an entry and that are too long, and keys and  *)
(* values with a = in them.                                                *)
(***************************************************************************)
EXTENDS Facade

MCKeys == {<<"k">>, <<"k", "=">>, <<"k", "l", "k", "l">>}

MCValues == {<<>>, <<"=", "v">>, <<"v", "v", "v">>}

MCHost == <<"h">>
=============================================================================
