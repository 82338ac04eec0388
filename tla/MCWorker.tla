------------------------------ MODULE MCWorker ------------------------------
(* A small instance of Worker: two people with an agent each, whose       *)
(* workers can answer each other; p also leaves a note for her own agent. *)
EXTENDS Worker, TLC

CONSTANTS p, q, a, b, here, there

HomeOfEach == (a :> p) @@ (b :> q)
TwoBindings ==
  {[at |-> here, limit |-> 1, default |-> TRUE],
   [at |-> there, limit |-> 1, default |-> FALSE]}
Letter(from, to, agent, chat) ==
  [from |-> from, to |-> to, agent |-> agent, chat |-> chat]
FourLetters ==
  {Letter(q, p, NONE, TRUE), Letter(q, p, a, FALSE), Letter(p, q, b, TRUE),
   Letter(p, p, a, TRUE)}
=============================================================================
