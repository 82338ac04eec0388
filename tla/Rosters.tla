------------------------------ MODULE Rosters -------------------------------
(***************************************************************************)
(* What the parts that move messages rely on in membership, without saying *)
(* how it comes about: who is in a team changes by one identity at a time, *)
(* nobody is admitted twice, an empty team stays empty, and a daemon's     *)
(* copy only ever becomes what the authority has at that moment, shown to  *)
(* a member, or goes when its owner is out.                                *)
(*                                                                         *)
(* Membership implements this, and Mailbox takes its roster from it.       *)
(***************************************************************************)
CONSTANTS
  Users,    \* identities
  Founder   \* the identity that created the team

VARIABLES
  roster,    \* the members at present
  admitted,  \* those whose admission the history records: never the founder's start
  known      \* known[u]: the roster and the history on record at u's daemon

rosterVars == <<roster, admitted, known>>

(* Everyone the history has ever let in.                                   *)
Ever == admitted \cup {Founder}

Present == [roster |-> roster, ever |-> Ever]
NoCopy  == [roster |-> {}, ever |-> {}]

(* The founder was never admitted, and so may come back once.              *)
Joins(u) ==
  /\ u \notin roster \cup admitted
  /\ roster # {}
  /\ roster' = roster \cup {u}
  /\ admitted' = admitted \cup {u}

Parts(u) ==
  /\ u \in roster
  /\ roster' = roster \ {u}
  /\ admitted' = admitted

CopyFollows(u) ==
  \/ known'[u] = known[u]
  \/ u \in roster /\ known'[u] = Present'
  \/ u \notin roster' /\ known'[u] = NoCopy

(* Copies alone change, if anything.                                       *)
RosterKept ==
  /\ UNCHANGED <<roster, admitted>>
  /\ \A u \in Users : CopyFollows(u)

RosterChanges ==
  /\ \E u \in Users : Joins(u) \/ Parts(u)
  /\ \A u \in Users : CopyFollows(u)

RosterInit ==
  /\ roster \subseteq Users
  /\ Founder \in roster
  /\ admitted = roster \ {Founder}
  /\ \A u \in Users : known[u] = IF u \in roster THEN Present ELSE NoCopy

RosterSpec == RosterInit /\ [][RosterChanges \/ RosterKept]_rosterVars
=============================================================================
