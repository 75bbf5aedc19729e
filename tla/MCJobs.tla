------------------------------- MODULE MCJobs -------------------------------
(***************************************************************************)
(* Small instances of Jobs for TLC.                                        *)
(***************************************************************************)
EXTENDS Jobs, TLC

Forward   == {1}
Symmetry  == Permutations(Procs)
=============================================================================
