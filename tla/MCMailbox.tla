----------------------------- MODULE MCMailbox ------------------------------
(* A small instance of Mailbox: a founds the team, b may be admitted and   *)
(* either may leave; each writes one message.                              *)
EXTENDS Mailbox, TLC

CONSTANTS a, b, m1, m2

FromBoth == (m1 :> a) @@ (m2 :> b)
=============================================================================
