---------------------------- MODULE MCMembership ----------------------------
(* A founder and a newcomer, two free names, requests that live for one    *)
(* tick, two calls under way and histories of up to five records.          *)
EXTENDS Membership, TLC
CONSTANTS f, a, nf, n1, n2
MCNames == {nf, n1, n2}
=============================================================================
