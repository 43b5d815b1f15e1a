---------------------------- MODULE MCEnvironment ----------------------------
(***************************************************************************)
(* Three names and two values: a PATH of two directories, one of them      *)
(* twice, with an empty one between them, and one with an empty directory  *)
(* and one that is too long.  The kernel passes nothing, two variables, or *)
(* an array that has PATH twice.                                           *)
(***************************************************************************)
EXTENDS Environment

MCValue == {<<"d1", "", "d2", "d1">>, <<"", "long">>}
MCInherited ==
  LET path(value) == [name |-> "PATH", value |-> value]
      x == [name |-> "X", value |-> <<"d1", "", "d2", "d1">>]
  IN  {<<>>, <<path(<<"", "long">>), x>>, <<path(<<"", "long">>), x, path(<<"d1", "", "d2", "d1">>)>>}
=============================================================================
