-------------------------- MODULE MCTaskScheduler ---------------------------
(* MCTaskScheduler.cfg: one slot beside the master's, for which two        *)
(* workers compete, and two masters.  The deque starts with 2 entries in   *)
(* place of 64, so that it grows while it is stolen from.                  *)
(* MCTaskTheft.cfg: two slots for two workers, a deque that never grows.   *)
EXTENDS TaskScheduler, TLC

WorkersAreAlike == Permutations(Workers)
=============================================================================
