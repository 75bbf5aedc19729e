----------------------------- MODULE MCDesktop -----------------------------
(***************************************************************************)
(* A small instance of Desktop for TLC: two snapshots that come and go.    *)
(***************************************************************************)
EXTENDS Desktop

CONSTANTS s1, s2

TwoSnapshots == {<<>>, <<s2, s1>>, <<s2>>}
=============================================================================
