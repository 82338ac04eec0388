------------------------------ MODULE MCFiles -------------------------------
(* A small instance of Files: s shares a file of two chunks and r writes a  *)
(* message; n, whose daemon is not looked at, may join meanwhile.           *)
EXTENDS Files, TLC

CONSTANTS s, r, n, file, message

OneNewcomer == <<{s, r}, {s, r, n}>>
Senders == (file :> s) @@ (message :> r)
Sizes == (file :> 2) @@ (message :> 0)
=============================================================================
