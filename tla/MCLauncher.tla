------------------------------ MODULE MCLauncher ------------------------------
(* The whole state space: nothing in the launcher needs a bound.           *)
EXTENDS Launcher
=============================================================================
