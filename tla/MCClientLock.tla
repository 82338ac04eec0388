---------------------------- MODULE MCClientLock -----------------------------
(* Two daemons that host a team for each other: h is the authority of t1,   *)
(* a that of t2.                                                            *)
EXTENDS ClientLock, TLC

CONSTANTS h, a, t1, t2

Hosts == (t1 :> h) @@ (t2 :> a)
Rosters == (t1 :> {h, a}) @@ (t2 :> {h, a})
=============================================================================
