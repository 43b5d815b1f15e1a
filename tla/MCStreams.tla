------------------------------ MODULE MCStreams ------------------------------
(***************************************************************************)
(* Standard input on a file of one line, one more descriptor, one FILE or  *)
(* DIR besides stdin, and a first line buffer so short that every line     *)
(* must be reallocated, and one of two characters twice.                   *)
(***************************************************************************)
EXTENDS Streams

MCContents == [path \in {"in"} |-> <<"a", "nl">>]
=============================================================================
