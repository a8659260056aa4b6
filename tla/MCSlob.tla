------------------------------- MODULE MCSlob -------------------------------
(* A size of each class of a 32-byte page: 1 is small, 4 medium, 12 and 16   *)
(* large; 16 + 16 and 16 + 12 + 4 fill a page.                              *)
EXTENDS Slob

MCSizes == {1, 4, 12, 16}
MCAligns == {1, 8}
Symmetric == Permutations(Callers) \cup Permutations(Handles)
=============================================================================
