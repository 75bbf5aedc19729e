--------------------------- MODULE MCIndexRefresh ---------------------------
(* TLC instance of IndexRefresh: a clock that may be set back. *)
EXTENDS IndexRefresh, TLC

BothWays == {1, -1}

\* Repositories and names are interchangeable; used without liveness only.
Alike == Permutations(Repos) \cup Permutations(Names)
=============================================================================
