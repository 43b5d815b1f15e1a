------------------------------- MODULE MCHeap -------------------------------
(***************************************************************************)
(* A heap of four minimal blocks.  The requests reach: a size rounded up,  *)
(* an exact fit after two neighbours merge, a block too large for what is  *)
(* left, and the largest size that does not wrap an 8-bit size_t.          *)
(***************************************************************************)
EXTENDS Heap

MCForeign == {-40, HeapSize + 8}

(* <<16, 16>> overflows an 8-bit size_t to 0; <<2, 2>> does not. *)
MCCallocArgs == {<<2, 2>>, <<16, 16>>}
=============================================================================
