----------------------------- MODULE Membership -----------------------------
(***************************************************************************)
(* Who belongs to one team.  The founder's daemon embeds the authority     *)
(* (service.rs), which keeps the signed governance history and the join    *)
(* requests.  Every member's daemon keeps its own copy of the team         *)
(* (client.rs), refreshed over a network that delays and loses calls, and  *)
(* admins change the roster by sending a record chained to the history     *)
(* they last saw.                                                          *)
(*                                                                         *)
(* A record's "previous" digest identifies the whole history before it, so *)
(* the model carries that history itself as the call's base.  Signatures   *)
(* are taken as unforgeable: a record's signer is the client that sent it. *)
(***************************************************************************)
EXTENDS Integers, Sequences, FiniteSets

CONSTANTS
  Users,        \* identities (public keys)
  Founder,      \* the identity that created the team
  Names,        \* display names, already in the slug form they are compared in
  FounderName,  \* the founder's display name
  NONE,         \* an absent value
  RequestTTL,   \* lifetime of a join request (86400 s in the code)
  MaxPending,   \* most pending requests a team holds (100 in the code)
  MaxRevision,  \* bound: longest history an admin still extends
  MaxInFlight   \* bound: govern calls travelling at the same time

ASSUME FounderAssumption == Founder \in Users /\ FounderName \in Names
ASSUME BoundsAssumption ==
  /\ RequestTTL \in Nat \ {0}
  /\ MaxPending \in Nat \ {0}
  /\ MaxRevision \in Nat
  /\ MaxInFlight \in Nat \ {0}

VARIABLES
  team,      \* the authority's team: history, members, admins
  requests,  \* the authority's join requests, one row per identity
  joining,   \* those whose daemon has a row of a join it asked for
  saved,     \* saved[u]: the team as u's daemon stored it, or NONE
  calls,     \* govern calls sent and not yet handled or lost
  waiting    \* waiting[u]: the govern call u's daemon awaits, or NONE

vars == <<team, requests, joining, saved, calls, waiting>>

----------------------------------------------------------------------------
(* Records, teams and requests                                             *)

Member == [id : Users, name : Names]

Actions == {"create", "admit", "promote", "demote", "revoke", "leave"}

(* "target" stands for the record's target, and for the identity inside    *)
(* its "member" field in a create or an admit.                             *)
Record == [action : Actions, signer : Users, target : Users,
           name : Names \cup {NONE}]

Team == [history : Seq(Record), members : SUBSET Member,
         admins : SUBSET Users]

RequestStates == {"none", "pending", "rejected", "admitted"}

(* "left" is what remains of a pending request's life: expires - now, cut  *)
(* off at -1.  The name and the time of a decided request are never read   *)
(* again.                                                                  *)
Request == [state : RequestStates, name : Names \cup {NONE},
            left : -1..RequestTTL]

Row(state) == [state |-> state, name |-> NONE, left |-> 0]

Call == [record : Record, base : Seq(Record)]

ASSUME NoneAssumption == NONE \notin Team /\ NONE \notin Call

Ids(t) == {m.id : m \in t.members}

Creation == [action |-> "create", signer |-> Founder, target |-> Founder,
             name |-> FounderName]

NewTeam == [history |-> <<Creation>>,
            members |-> {[id |-> Founder, name |-> FounderName]},
            admins  |-> {Founder}]

----------------------------------------------------------------------------
(* governance::replay, one record at a time                                *)

(* Mutant: counts members where the rule counts admins.                    *)
MayLoseMember(t, r) ==
  r.target \notin t.admins \/ Ids(t) # {r.target} \/ r.action = "leave"

(* The last-admin rule: removing an admin leaves another one, or is the    *)
(* only member leaving.                                                    *)
MayLoseAdmin(t, r) ==
  \/ r.target \notin t.admins
  \/ t.admins # {r.target}
  \/ r.action = "leave" /\ Ids(t) = {r.target}

(* Mutant: nobody checks that the signer is an admin.                      *)
LegalForAnyone(t, r) ==
  /\ t.members # {}
  /\ r.action # "create"
  /\ r.action = "admit" => r.target \notin Ids(t)
  /\ r.action # "admit" => r.target \in Ids(t)
  /\ r.action = "leave" => r.target = r.signer
  /\ r.action = "promote" => r.target \notin t.admins
  /\ r.action \in {"demote", "revoke", "leave"} => MayLoseAdmin(t, r)

Legal(t, r) ==
  /\ t.members # {}
  /\ r.action # "create"
  /\ r.action # "leave" => r.signer \in t.admins
  /\ r.action = "admit" => r.target \notin Ids(t)
  /\ r.action # "admit" => r.target \in Ids(t)
  /\ r.action = "leave" => r.target = r.signer
  /\ r.action = "promote" => r.target \notin t.admins
  /\ r.action \in {"demote", "revoke", "leave"} => MayLoseAdmin(t, r)

Joined(r) ==
  IF r.action = "admit" THEN {[id |-> r.target, name |-> r.name]} ELSE {}
Removed(r)  == IF r.action \in {"revoke", "leave"} THEN {r.target} ELSE {}
Promoted(r) == IF r.action = "promote" THEN {r.target} ELSE {}
(* Mutant: a revoked admin stays in the list of admins.                    *)
DemotedOnly(r) == IF r.action \in {"demote", "leave"} THEN {r.target} ELSE {}

Demoted(r)  ==
  IF r.action \in {"demote", "revoke", "leave"} THEN {r.target} ELSE {}

Apply(t, r) ==
  [history |-> Append(t.history, r),
   members |-> {m \in t.members : m.id \notin Removed(r)} \cup Joined(r),
   admins  |-> (t.admins \ Demoted(r)) \cup Promoted(r)]

----------------------------------------------------------------------------
(* The authority: join requests                                            *)

(* Requests that count: pending, and expiring after the present second.    *)
Pending == {v \in Users : requests[v].state = "pending" /\ requests[v].left > 0}

(* The names a newcomer may not take.                                      *)
Taken(u) == {m.name : m \in team.members}
            \cup {requests[v].name : v \in Pending \ {u}}

(* join: a daemon that has the team on record asks for nothing.  It writes *)
(* the row of the join before the call, so the row is there when the call  *)
(* is handled, unless the call was given up and a later join deleted it.   *)
(* A row that was deleted leaves no trace, so neither case looks further.  *)
Asking(u) ==
  /\ saved[u] = NONE
  /\ joining' \in {joining, joining \cup {u}}

(* Mutant: no look at whether the team is closed.                          *)
RequestJoinClosed(u, n) ==
  /\ Asking(u)
  /\ u \notin Ids(team)
  /\ n \notin Taken(u)
  /\ requests[u].state = "none"
  /\ Cardinality(Pending) < MaxPending
  /\ requests' = [requests EXCEPT ![u] =
       [state |-> "pending", name |-> n, left |-> RequestTTL]]
  /\ UNCHANGED <<team, saved, calls, waiting>>

(* Mutant: a decided request may be made anew.                             *)
RequestJoinAgain(u, n) ==
  /\ Asking(u)
  /\ team.members # {}
  /\ u \notin Ids(team)
  /\ n \notin Taken(u)
  /\ requests[u].state # "pending"
  /\ Cardinality(Pending) < MaxPending
  /\ requests' = [requests EXCEPT ![u] =
       [state |-> "pending", name |-> n, left |-> RequestTTL]]
  /\ UNCHANGED <<team, saved, calls, waiting>>

(* request_join, called by join: a member, a taken name and an identity    *)
(* that already has a row are answered without a change.                   *)
RequestJoin(u, n) ==
  /\ Asking(u)
  /\ team.members # {}
  /\ u \notin Ids(team)
  /\ n \notin Taken(u)
  /\ requests[u].state = "none"
  /\ Cardinality(Pending) < MaxPending
  /\ requests' = [requests EXCEPT ![u] =
       [state |-> "pending", name |-> n, left |-> RequestTTL]]
  /\ UNCHANGED <<team, saved, calls, waiting>>

(* A join that changes nothing at the authority: its call is lost, or it   *)
(* is from a member or from an identity that already has a request.        *)
JoinNoted(u) ==
  /\ saved[u] = NONE
  /\ joining' = joining \cup {u}
  /\ UNCHANGED <<team, requests, saved, calls, waiting>>

(* "name-taken", before any look at an earlier request: the row goes, also *)
(* that of an earlier join under another name which still waits.           *)
JoinRefused(u, n) ==
  /\ saved[u] = NONE
  /\ team.members # {}
  /\ u \notin Ids(team)
  /\ n \in Taken(u)
  /\ joining' = joining \ {u}
  /\ UNCHANGED <<team, requests, saved, calls, waiting>>

(* Mutant: the update is not limited to pending requests.                  *)
RejectAny(a, u) ==
  /\ a \in team.admins \cap Ids(team)
  /\ requests[u].state # "none"
  /\ requests' = [requests EXCEPT ![u] = Row("rejected")]
  /\ UNCHANGED <<team, joining, saved, calls, waiting>>

(* reject: an admin's decision, without a look at the expiry.              *)
Reject(a, u) ==
  /\ a \in team.admins \cap Ids(team)
  /\ requests[u].state = "pending"
  /\ requests' = [requests EXCEPT ![u] = Row("rejected")]
  /\ UNCHANGED <<team, joining, saved, calls, waiting>>

----------------------------------------------------------------------------
(* A member's copy of the team                                             *)

(* save_team's rollback and fork checks.                                   *)
Extends(new, old) ==
  /\ Len(new) >= Len(old)
  /\ \A i \in 1..Len(old) : new[i] = old[i]

SaveTeam(old, t) == IF Extends(t.history, old.history) THEN t ELSE old

(* join_status, for a row it finds, is answered "admitted": install_team   *)
(* stores the team, over any copy, and then the row goes.  The daemon may  *)
(* stop between the two.                                                   *)
Install(u) ==
  /\ u \in joining
  /\ waiting[u] = NONE
  /\ u \in Ids(team)
  /\ saved' = [saved EXCEPT ![u] = team]
  /\ joining' \in {joining, joining \ {u}}
  /\ UNCHANGED <<team, requests, calls, waiting>>

(* refresh: the authority answers members only.                            *)
Refresh(u) ==
  /\ saved[u] # NONE
  /\ waiting[u] = NONE
  /\ u \in Ids(team)
  /\ saved' = [saved EXCEPT ![u] = SaveTeam(saved[u], team)]
  /\ UNCHANGED <<team, requests, joining, calls, waiting>>

----------------------------------------------------------------------------
(* govern: propose, then commit or refuse                                  *)

(* The client refreshes its copy; for an admission it looks the request up *)
(* at the authority, which shows it to admins and reports an expired one   *)
(* as expired; it replays the record on its copy and sends it.  While the  *)
(* call travels the authority may commit others.                           *)
Propose(u, action, target) ==
  LET record == [action |-> action, signer |-> u, target |-> target,
                 name |-> IF action = "admit" THEN requests[target].name ELSE NONE]
      copy == SaveTeam(saved[u], team)
      call == [record |-> record, base |-> copy.history]
  IN /\ saved[u] # NONE
     /\ waiting[u] = NONE
     /\ u \in Ids(team)
     /\ action = "admit" =>
          /\ u \in team.admins
          /\ requests[target].state = "pending"
          /\ requests[target].left >= 0
     /\ Legal(copy, record)
     /\ Len(copy.history) < MaxRevision
     /\ Cardinality(calls) < MaxInFlight
     /\ saved' = [saved EXCEPT ![u] = copy]
     /\ calls' = calls \cup {call}
     /\ waiting' = [waiting EXCEPT ![u] = call]
     /\ UNCHANGED <<team, requests, joining>>

(* The admission checks of the govern handler.                             *)
Admissible(r) ==
  /\ requests[r.target].state = "pending"
  /\ requests[r.target].left >= 0
  /\ requests[r.target].name = r.name

(* What the authority checks before it appends a record.  A record sent    *)
(* twice is one call: the second copy could only be refused, for its base  *)
(* is stale by then.                                                       *)
Accepts(call) ==
  /\ call.record.signer \in Ids(team)
  /\ call.record.action = "admit" => Admissible(call.record)
  /\ call.base = team.history
  /\ Legal(team, call.record)

(* What the signer's daemon stores when the answer arrives: the new team,  *)
(* or nothing any more after it left.                                      *)
Told(call, old, t) ==
  IF call.record.action = "leave" /\ Extends(t.history, old.history)
    THEN NONE ELSE SaveTeam(old, t)

(* The call's end, seen from the signer's daemon if it still waits.  An    *)
(* answer that is lost on its way back is a signer that gave up earlier;   *)
(* one that travels long is a signer that refreshes later.                 *)
Answered(call) ==
  waiting' = [waiting EXCEPT ![call.record.signer] = IF @ = call THEN NONE ELSE @]

(* Mutant: the history stored is the caller's, unchecked against ours.     *)
CommitUnchained(call) ==
  /\ call.record.signer \in Ids(team)
  /\ call.record.action = "admit" => Admissible(call.record)
  /\ Legal(team, call.record)
  /\ calls' = calls \ {call}
  /\ team' = Apply([team EXCEPT !.history = call.base], call.record)
  /\ requests' = IF call.record.action = "admit"
                   THEN [requests EXCEPT ![call.record.target] = Row("admitted")]
                   ELSE requests
  /\ saved' = [saved EXCEPT ![call.record.signer] =
       IF waiting[call.record.signer] = call THEN Told(call, @, team') ELSE @]
  /\ Answered(call)
  /\ UNCHANGED joining

Commit(call) ==
  /\ Accepts(call)
  /\ calls' = calls \ {call}
  /\ team' = Apply(team, call.record)
  /\ requests' = IF call.record.action = "admit"
                   THEN [requests EXCEPT ![call.record.target] = Row("admitted")]
                   ELSE requests
  /\ saved' = [saved EXCEPT ![call.record.signer] =
       IF waiting[call.record.signer] = call THEN Told(call, @, team') ELSE @]
  /\ Answered(call)
  /\ UNCHANGED joining

(* An error reply: nothing is saved and the client stops waiting.          *)
Refuse(call) ==
  /\ ~ Accepts(call)
  /\ calls' = calls \ {call}
  /\ Answered(call)
  /\ UNCHANGED <<team, requests, joining, saved>>

(* Mutant: a call without a time limit.                                    *)
GiveUpNever(u) == waiting[u] # NONE /\ UNCHANGED vars

(* The 45 s limit of the call passes, or the daemon restarts: the client   *)
(* no longer waits, whatever becomes of the call or of its answer.         *)
GiveUp(u) ==
  /\ waiting[u] # NONE
  /\ waiting' = [waiting EXCEPT ![u] = NONE]
  /\ UNCHANGED <<team, requests, joining, saved, calls>>

(* A call is lost on its way.                                              *)
Lose(call) ==
  /\ calls' = calls \ {call}
  /\ UNCHANGED <<team, requests, joining, saved, waiting>>

(* A second passes at the authority.                                       *)
Tick ==
  /\ requests' = [u \in Users |->
       IF requests[u].state = "pending" /\ requests[u].left >= 0
         THEN [requests[u] EXCEPT !.left = @ - 1]
         ELSE requests[u]]
  /\ UNCHANGED <<team, joining, saved, calls, waiting>>

----------------------------------------------------------------------------
Init ==
  /\ team = NewTeam
  /\ requests = [u \in Users |-> Row("none")]
  /\ joining = {}
  /\ saved = [u \in Users |-> IF u = Founder THEN NewTeam ELSE NONE]
  /\ calls = {}
  /\ waiting = [u \in Users |-> NONE]

Next ==
  \/ \E u \in Users, n \in Names : RequestJoin(u, n)
  \/ \E u \in Users : JoinNoted(u)
  \/ \E u \in Users, n \in Names : JoinRefused(u, n)
  \/ \E a, u \in Users : Reject(a, u)
  \/ \E u \in Users : Install(u)
  \/ \E u \in Users : Refresh(u)
  \/ \E u, target \in Users, action \in Actions : Propose(u, action, target)
  \/ \E call \in calls : Commit(call)
  \/ \E call \in calls : Refuse(call)
  \/ \E u \in Users : GiveUp(u)
  \/ \E call \in calls : Lose(call)
  \/ Tick

Spec == Init /\ [][Next]_vars

(* Each sync asks about every row of a join, then refreshes the team, and  *)
(* starts every two seconds; it queues for the client's lock, which tokio  *)
(* grants in order, so commands of the user cannot hold it off forever.  A *)
(* call that gets no answer ends after 45 s, and one that is made again    *)
(* and again is answered in the end.  A daemon without a row asks nothing. *)
(* Two things are assumed of what lies outside this team: no row of a      *)
(* join to another team that was since left or revoked comes before, which *)
(* would end the sync (the failing check of JoinFlow), and a member's      *)
(* daemon goes on running.                                                 *)
Fairness ==
  \A u \in Users :
    SF_vars(Install(u)) /\ SF_vars(Refresh(u)) /\ WF_vars(GiveUp(u))

FairSpec == Spec /\ Fairness

----------------------------------------------------------------------------
(* Properties                                                              *)

(* Every variable keeps its type.                                          *)
TypeOK ==
  /\ team \in Team
  /\ requests \in [Users -> Request]
  /\ joining \subseteq Users
  /\ saved \in [Users -> Team \cup {NONE}]
  /\ calls \in SUBSET Call
  /\ waiting \in [Users -> Call \cup {NONE}]

(* A team is never left without someone who can admit, promote or revoke:  *)
(* admins are members, and only a closed team has none.                    *)
Governed(t) == t.admins \subseteq Ids(t) /\ (t.members # {} => t.admins # {})

(* This holds of the authority's team and of every copy, whatever admins   *)
(* decide at the same time (the last-admin rule of governance::replay).    *)
AlwaysGoverned ==
  /\ Governed(team)
  /\ \A u \in Users : saved[u] # NONE => Governed(saved[u])

(* What a member stored is always a prefix of the authority's history, so  *)
(* save_team's rollback and fork alarms never fire against a healthy       *)
(* authority and no committed decision is ever overwritten.                *)
CopiesArePrefixes ==
  \A u \in Users : saved[u] # NONE => Extends(team.history, saved[u].history)

(* Membership after the first n records of h, read off the records alone:  *)
(* the last record that lets u in is not followed by one that puts u out.  *)
Holds(h, n, u, gains, loses) ==
  \E i \in 1..n :
    /\ h[i].target = u /\ h[i].action \in gains
    /\ \A j \in (i + 1)..n : ~ (h[j].target = u /\ h[j].action \in loses)

MemberAfter(h, n, u) == Holds(h, n, u, {"create", "admit"}, {"revoke", "leave"})
AdminAfter(h, n, u) ==
  Holds(h, n, u, {"create", "promote"}, {"demote", "revoke", "leave"})

RosterOf(h) == [ids    |-> {u \in Users : MemberAfter(h, Len(h), u)},
                admins |-> {u \in Users : AdminAfter(h, Len(h), u)}]

(* Every roster, the authority's and every copy, is exactly what its       *)
(* history says; one roster entry per identity (replay, verify_team).      *)
RosterFollowsHistory ==
  \A t \in {team} \cup {saved[u] : u \in {v \in Users : saved[v] # NONE}} :
    /\ [ids |-> Ids(t), admins |-> t.admins] = RosterOf(t.history)
    /\ \A m1, m2 \in t.members : m1.id = m2.id => m1 = m2

(* Every committed change was signed by someone who was an admin at that   *)
(* point of the history, or by the leaving member: a call that was on its  *)
(* way when its signer lost the role has no effect.                        *)
SignedWithAuthority ==
  \A i \in 2..Len(team.history) :
    LET r == team.history[i] IN
    IF r.action = "leave"
      THEN r.signer = r.target /\ MemberAfter(team.history, i - 1, r.signer)
      ELSE AdminAfter(team.history, i - 1, r.signer)

(* A request is decided once: an identity is admitted at most once in the  *)
(* life of a team, exactly when its request says so, and never once it was *)
(* rejected, whichever of two admins came first.                           *)
OneDecisionPerRequest ==
  \A u \in Users :
    LET admissions == {i \in 1..Len(team.history) :
          team.history[i].action = "admit" /\ team.history[i].target = u}
    IN /\ \A i, j \in admissions : i = j
       /\ admissions # {} <=> requests[u].state = "admitted"

(* Once the last member has left, the team never changes again and takes   *)
(* or decides no request.                                                  *)
ClosedIsFinal ==
  [][team.members = {} =>
       /\ team' = team
       /\ \A u \in Users : requests'[u].state = requests[u].state]_vars

(* The roster, the admissions and the copies as the parts that move        *)
(* messages see them.                                                      *)
AdmittedBy(h) == {h[i].target : i \in {j \in DOMAIN h : h[j].action = "admit"}}

Known(u) ==
  IF saved[u] = NONE THEN [roster |-> {}, ever |-> {}]
  ELSE [roster |-> Ids(saved[u]),
        ever   |-> AdmittedBy(saved[u].history) \cup {Founder}]

R == INSTANCE Rosters WITH
       roster <- Ids(team), admitted <- AdmittedBy(team.history),
       known <- [u \in Users |-> Known(u)]

(* Membership implements Rosters: whatever admins decide at the same time  *)
(* and whatever is lost or late, nobody is admitted twice but the founder  *)
(* comes back once at most, and a copy only becomes what the authority has *)
(* at that moment, told to a member, or goes with its owner's departure    *)
(* (the govern handler; save_team, leave).                                 *)
RostersAreKept == R!RosterSpec

(* A request as the person who made it is told: expired or rejected.       *)
Shown(u) ==
  IF requests[u].state = "rejected"
     \/ (requests[u].state = "pending" /\ requests[u].left < 0)
  THEN "refused" ELSE requests[u].state

Newcomers == Users \ {Founder}

A == INSTANCE Admissions WITH
       Seats <- Newcomers,
       member <- Ids(team) \ {Founder},
       request <- [u \in Newcomers |-> Shown(u)],
       mine <- {u \in Newcomers : saved[u] # NONE}

(* Membership implements Admissions: whoever decides and whatever is lost, *)
(* a person gets in by a request that waits and is decided once, learns of *)
(* the team as a member, and loses its row only by leaving (request_join,  *)
(* the govern handler, join_status, leave).                                *)
AdmissionsAreKept == A!AdmissionsSpec

(* What the other components take membership to be, it is: both at once.   *)
ServesAsPromised == RostersAreKept /\ AdmissionsAreKept

(* When the roster stops changing, every member's copy catches up, however *)
(* many calls and replies are lost on the way, except that of a member who *)
(* has none and no row to get one by: someone who joined again under a     *)
(* taken name while the first request waited (join, join_status).          *)
CopiesConverge ==
  <>[](\A u \in Ids(team) :
         saved[u] = team \/ (saved[u] = NONE /\ u \notin joining))
=============================================================================
