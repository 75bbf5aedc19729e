----------------------------- MODULE MCSession -----------------------------
(***************************************************************************)
(* The instances of Session for TLC give values to its two constants.      *)
(***************************************************************************)
EXTENDS Session
=============================================================================
