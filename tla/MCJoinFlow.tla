----------------------------- MODULE MCJoinFlow ------------------------------
(* A small instance of JoinFlow alone: two teams, one of which can block   *)
(* the other.                                                              *)
EXTENDS JoinFlow
=============================================================================
