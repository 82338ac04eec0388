--------------------------- MODULE MCReplayGuard ----------------------------
(* A small instance of ReplayGuard: the retention is exactly the window,   *)
(* the skew and the wait together, as tight as the assumption allows.      *)
EXTENDS ReplayGuard, TLC

MCSymmetry == Permutations(Requests) \cup Permutations(Copies)
=============================================================================
