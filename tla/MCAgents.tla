------------------------------ MODULE MCAgents -------------------------------
(* Two teams, t bound to the repository of directory d and u to the path it *)
(* is joined from, a second directory that is bound to nothing, and two    *)
(* agents.                                                                 *)
EXTENDS Agents, TLC
CONSTANTS t, u, d, e
MCOrigin == d :> t @@ e :> NONE
=============================================================================
