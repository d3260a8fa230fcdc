----------------------------- MODULE MCDataFile -----------------------------
(***************************************************************************)
(* Two processes and a file of two chunks, which may be there before,      *)
(* shorter, or longer by one.                                              *)
(***************************************************************************)
EXTENDS DataFile, TLC

\* Processes are interchangeable; no liveness is checked.
Symmetry == Permutations(Procs)
=============================================================================
