----------------------------- MODULE MCDBWrite -----------------------------
(***************************************************************************)
(* Small instances of DBWrite.                                             *)
(***************************************************************************)
EXTENDS DBWrite, TLC

CONSTANTS t1, t2, t3

\* The threads only differ by name.
ThreadSymmetry == Permutations(Threads)
=============================================================================
