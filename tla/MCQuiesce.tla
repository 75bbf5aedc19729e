----------------------------- MODULE MCQuiesce -----------------------------
(***************************************************************************)
(* Small instances of Quiesce for TLC.  The passing run checks liveness,   *)
(* so that none of them uses symmetry.                                     *)
(***************************************************************************)
EXTENDS Quiesce
=============================================================================
