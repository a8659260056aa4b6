----------------------------- MODULE MCSlobPage -----------------------------
(* A page of a few bytes, with sizes that leave gaps before aligned blocks. *)
EXTENDS SlobPage

MCSizes == {1, 2, 3}
MCAligns == {1, 2, 4}
=============================================================================
