------------------------------ MODULE MCConsole ------------------------------
(***************************************************************************)
(* Three threads with lines: the console thread's status line and two      *)
(* workers, so that lines above, between and below others come and go      *)
(* between two drawings.                                                   *)
(***************************************************************************)
EXTENDS Console, TLC

Symmetric == Permutations(Threads)
==============================================================================
