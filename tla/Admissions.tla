----------------------------- MODULE Admissions -----------------------------
(***************************************************************************)
(* What a person's daemon and a team's authority share when the person     *)
(* joins a team that another founded, and leaves it: the request and the   *)
(* membership at the authority, and the row of the team at the daemon.     *)
(*                                                                         *)
(* JoinFlow is made of these steps, and Membership implements them: how    *)
(* decisions are made there, and what is lost on the way, adds no other.   *)
(***************************************************************************)
CONSTANT
  Seats     \* each a person and a team that another founded

VARIABLES
  member,   \* the seats taken: the roster has the person
  request,  \* request[s]: the state of the person's request
  mine      \* the seats whose team is on record at the person's daemon

seatVars == <<member, request, mine>>

\* Daemons do the same with an expired request and a rejected one.
RequestStates == {"none", "pending", "refused", "admitted"}

(* request_join: a request is made once, and its row is never renewed.     *)
Asks(s) ==
  /\ s \notin member
  /\ request[s] = "none"
  /\ request' = [request EXCEPT ![s] = "pending"]
  /\ UNCHANGED <<member, mine>>

(* Nobody becomes a member but by a request that waits.                    *)
Admits(s) ==
  /\ request[s] = "pending"
  /\ request' = [request EXCEPT ![s] = "admitted"]
  /\ member' = member \cup {s}
  /\ UNCHANGED mine

(* One is rejected, or a day has passed for some at once.                  *)
Refuses(some) ==
  /\ \A s \in some : request[s] = "pending"
  /\ request' = [s \in Seats |-> IF s \in some THEN "refused" ELSE request[s]]
  /\ UNCHANGED <<member, mine>>

(* A revocation, or a departure of which the daemon hears nothing.         *)
Parts(s) ==
  /\ s \in member
  /\ member' = member \ {s}
  /\ UNCHANGED <<request, mine>>

(* A departure whose answer deletes the team's row.                        *)
Leaves(s) ==
  /\ s \in member \cap mine
  /\ member' = member \ {s}
  /\ mine' = mine \ {s}
  /\ UNCHANGED request

(* Only a member is shown the team.                                        *)
Learns(s) ==
  /\ s \in member
  /\ mine' = mine \cup {s}
  /\ UNCHANGED <<member, request>>

SeatsInit ==
  /\ member = {}
  /\ request = [s \in Seats |-> "none"]
  /\ mine = {}

SeatsNext ==
  \/ \E s \in Seats : Asks(s) \/ Admits(s) \/ Parts(s) \/ Leaves(s) \/ Learns(s)
  \/ \E some \in SUBSET Seats : Refuses(some)

AdmissionsSpec == SeatsInit /\ [][SeatsNext]_seatVars
=============================================================================
