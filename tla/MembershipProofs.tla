-------------------------- MODULE MembershipProofs --------------------------
(***************************************************************************)
(* Proofs about Membership, for every set of identities and names and      *)
(* every bound.                                                            *)
(***************************************************************************)
EXTENDS Membership, TLAPS

----------------------------------------------------------------------------
(* Facts about one record applied to a team, and about prefixes            *)

(* Applying a well-formed record to a team gives a team.                   *)
LEMMA ApplyType ==
  ASSUME NEW t \in Team, NEW r \in Record, r.action = "admit" => r.name \in Names
  PROVE  Apply(t, r) \in Team
<1>1. Append(t.history, r) \in Seq(Record)
  BY DEF Team
<1>2. Joined(r) \in SUBSET Member
  BY DEF Joined, Member, Record
<1>3. Promoted(r) \in SUBSET Users
  BY DEF Promoted, Record
<1>4. QED
  BY <1>1, <1>2, <1>3 DEF Apply, Team

(* A record that replay accepts keeps a team governed: this is what the    *)
(* last-admin rule is for.                                                 *)
LEMMA ApplyGoverned ==
  ASSUME NEW t \in Team, NEW r \in Record, Governed(t), Legal(t, r)
  PROVE  Governed(Apply(t, r))
<1> DEFINE n == Apply(t, r)
<1>1. /\ n.members = {m \in t.members : m.id \notin Removed(r)} \cup Joined(r)
      /\ n.admins = (t.admins \ Demoted(r)) \cup Promoted(r)
  BY DEF Apply
<1>2. CASE r.action = "admit"
  BY <1>1, <1>2 DEF Governed, Legal, Ids, Removed, Joined, Demoted, Promoted
<1>3. CASE r.action = "promote"
  BY <1>1, <1>3 DEF Governed, Legal, Ids, Removed, Joined, Demoted, Promoted
<1>4. CASE r.action = "demote"
  BY <1>1, <1>4
     DEF Governed, Legal, MayLoseAdmin, Ids, Removed, Joined, Demoted, Promoted
<1>5. CASE r.action \in {"revoke", "leave"}
  <2>1. n.members = {m \in t.members : m.id # r.target} /\ n.admins = t.admins \ {r.target}
    BY <1>1, <1>5 DEF Removed, Joined, Demoted, Promoted
  <2>2. n.admins \subseteq Ids(n)
    BY <2>1 DEF Governed, Ids
  <2>3. n.members # {} => n.admins # {}
    BY <2>1, <1>5 DEF Governed, Legal, MayLoseAdmin, Ids
  <2>4. QED
    BY <2>2, <2>3 DEF Governed
<1>6. QED
  BY <1>2, <1>3, <1>4, <1>5 DEF Record, Actions, Legal

(* Extends is reflexive and is kept by an append to the longer history.    *)
LEMMA ExtendsSelf ==
  ASSUME NEW h \in Seq(Record)
  PROVE  Extends(h, h)
  BY DEF Extends

LEMMA ExtendsAppend ==
  ASSUME NEW h \in Seq(Record), NEW g \in Seq(Record), NEW r \in Record,
         Extends(h, g)
  PROVE  Extends(Append(h, r), g)
  BY DEF Extends

----------------------------------------------------------------------------
(* The inductive invariant                                                 *)

(* A pending request carries the name that was asked for.                  *)
PendingNamed ==
  \A u \in Users : requests[u].state = "pending" => requests[u].name \in Names

IInv == TypeOK /\ PendingNamed /\ AlwaysGoverned /\ CopiesArePrefixes

LEMMA InitInv == Init => IInv
<1> SUFFICES ASSUME Init PROVE IInv
  OBVIOUS
<1> USE FounderAssumption
<1>1. Creation \in Record
  BY DEF Creation, Record, Actions
<1>2. NewTeam \in Team
  BY <1>1 DEF NewTeam, Team, Member
<1>3. Governed(NewTeam)
  BY DEF NewTeam, Governed, Ids
<1>4. Row("none") \in Request
  BY BoundsAssumption DEF Row, Request, RequestStates
<1>5. TypeOK
  BY <1>2, <1>4 DEF Init, TypeOK
<1>6. PendingNamed
  BY DEF Init, PendingNamed, Row
<1>7. AlwaysGoverned
  BY <1>3 DEF Init, AlwaysGoverned
<1>8. CopiesArePrefixes
  BY <1>2, ExtendsSelf DEF Init, CopiesArePrefixes, Team
<1>9. QED
  BY <1>5, <1>6, <1>7, <1>8 DEF IInv

(* What a member stores when it is shown the current team is that team:    *)
(* the alarms of save_team stay silent.                                    *)
LEMMA CopyIsTeam ==
  ASSUME IInv, NEW u \in Users, saved[u] # NONE
  PROVE  /\ saved[u] \in Team
         /\ SaveTeam(saved[u], team) = team
  BY DEF IInv, TypeOK, CopiesArePrefixes, SaveTeam

(* Any step that only replaces stored copies by the current team, or drops *)
(* them, keeps the invariant.                                              *)
LEMMA CopyStep ==
  ASSUME IInv, team' = team, UNCHANGED requests,
         calls' \in SUBSET Call, joining' \subseteq Users, waiting' \in [Users -> Call \cup {NONE}],
         saved' \in [Users -> Team \cup {NONE}],
         \A u \in Users : saved'[u] \in {saved[u], team, NONE}
  PROVE  IInv'
<1>1. TypeOK' /\ PendingNamed'
  BY DEF IInv, TypeOK, PendingNamed
<1>2. Governed(team)' /\ \A u \in Users : saved'[u] # NONE => Governed(saved'[u])
  BY DEF IInv, AlwaysGoverned, Governed, Ids
<1>3. \A u \in Users : saved'[u] # NONE => Extends(team.history, saved'[u].history)
  BY ExtendsSelf DEF IInv, TypeOK, Team, CopiesArePrefixes
<1>4. QED
  BY <1>1, <1>2, <1>3 DEF IInv, AlwaysGoverned, CopiesArePrefixes

LEMMA NextInv == IInv /\ [Next]_vars => IInv'
<1> SUFFICES ASSUME IInv, [Next]_vars PROVE IInv'
  OBVIOUS
<1> USE FounderAssumption, BoundsAssumption
<1>0. TypeOK /\ PendingNamed /\ AlwaysGoverned /\ CopiesArePrefixes
  BY DEF IInv
<1>1. ASSUME NEW u \in Users, NEW n \in Names, RequestJoin(u, n)
      PROVE  IInv'
  <2>1. requests' \in [Users -> Request] /\ PendingNamed'
    BY <1>0, <1>1 DEF RequestJoin, Asking, TypeOK, Request, RequestStates, PendingNamed
  <2>2. QED
    BY <1>0, <1>1, <2>1
       DEF RequestJoin, Asking, IInv, TypeOK, AlwaysGoverned, CopiesArePrefixes, Governed, Ids
<1>13. ASSUME NEW u \in Users, JoinNoted(u) \/ \E n \in Names : JoinRefused(u, n)
       PROVE  IInv'
  BY <1>0, <1>13
     DEF JoinNoted, JoinRefused, IInv, TypeOK, PendingNamed, AlwaysGoverned,
         CopiesArePrefixes, Governed, Ids
<1>2. ASSUME NEW a \in Users, NEW u \in Users, Reject(a, u)
      PROVE  IInv'
  <2>1. requests' \in [Users -> Request] /\ PendingNamed'
    BY <1>0, <1>2 DEF Reject, Row, TypeOK, Request, RequestStates, PendingNamed
  <2>2. QED
    BY <1>0, <1>2, <2>1
       DEF Reject, IInv, TypeOK, AlwaysGoverned, CopiesArePrefixes, Governed, Ids
<1>3. ASSUME NEW u \in Users, Install(u)
      PROVE  IInv'
  BY <1>0, <1>3, CopyStep DEF Install, TypeOK
<1>4. ASSUME NEW u \in Users, Refresh(u)
      PROVE  IInv'
  BY <1>0, <1>4, CopyStep, CopyIsTeam DEF Refresh, TypeOK
<1>5. ASSUME NEW u \in Users, NEW target \in Users, NEW action \in Actions,
             Propose(u, action, target)
      PROVE  IInv'
  <2> DEFINE record == [action |-> action, signer |-> u, target |-> target,
                name |-> IF action = "admit" THEN requests[target].name ELSE NONE]
             call == [record |-> record, base |-> SaveTeam(saved[u], team).history]
  <2>1. SaveTeam(saved[u], team) = team
    BY <1>5, CopyIsTeam DEF Propose
  <2>2. call \in Call
    BY <1>0, <2>1 DEF TypeOK, Request, Record, Call, Team
  <2>3. /\ calls' = calls \cup {call}
        /\ waiting' = [waiting EXCEPT ![u] = call]
        /\ saved' = [saved EXCEPT ![u] = team]
        /\ UNCHANGED <<team, requests, joining>>
    BY <1>5, <2>1 DEF Propose
  <2>4. QED
    BY <1>0, <2>2, <2>3, CopyStep DEF TypeOK
<1>6. ASSUME NEW call \in calls, Commit(call)
      PROVE  IInv'
  <2> DEFINE r == call.record
             u == call.record.signer
  <2>1. call \in Call /\ r \in Record /\ u \in Users /\ r.target \in Users
    BY <1>0 DEF TypeOK, Call, Record
  <2>2. /\ Accepts(call)
        /\ calls' = calls \ {call}
        /\ team' = Apply(team, r)
        /\ requests' = IF r.action = "admit"
                         THEN [requests EXCEPT ![r.target] = Row("admitted")]
                         ELSE requests
        /\ saved' = [saved EXCEPT ![u] =
                       IF waiting[u] = call THEN Told(call, @, team') ELSE @]
        /\ waiting' = [waiting EXCEPT ![u] = IF @ = call THEN NONE ELSE @]
        /\ UNCHANGED joining
    BY <1>6 DEF Commit, Answered
  <2>3. r.action = "admit" => r.name \in Names
    BY <1>0, <2>1, <2>2 DEF Accepts, Admissible, PendingNamed
  <2>4. team' \in Team
    BY <1>0, <2>1, <2>2, <2>3, ApplyType DEF TypeOK
  <2>5. Governed(team')
    BY <1>0, <2>1, <2>2, ApplyGoverned DEF Accepts, AlwaysGoverned, TypeOK
  <2>6. team'.history = Append(team.history, r)
    BY <2>2 DEF Apply
  <2>7. ASSUME NEW v \in Users, saved[v] # NONE
        PROVE  Extends(team'.history, saved[v].history)
    BY <1>0, <2>1, <2>6, <2>7, ExtendsAppend DEF TypeOK, CopiesArePrefixes, Team
  <2>8. \A v \in Users : saved'[v] \in {saved[v], team', NONE}
    BY <1>0, <2>1, <2>2 DEF TypeOK, Told, SaveTeam
  <2>9. saved' \in [Users -> Team \cup {NONE}]
    BY <1>0, <2>1, <2>2, <2>4, <2>8 DEF TypeOK
  <2>10. requests' \in [Users -> Request] /\ PendingNamed'
    BY <1>0, <2>1, <2>2 DEF Row, TypeOK, Request, RequestStates, PendingNamed
  <2>11. TypeOK'
    BY <1>0, <2>2, <2>4, <2>9, <2>10 DEF TypeOK
  <2>12. AlwaysGoverned'
    BY <1>0, <2>5, <2>8 DEF AlwaysGoverned, Governed, Ids
  <2>13. CopiesArePrefixes'
    BY <2>4, <2>7, <2>8, ExtendsSelf DEF CopiesArePrefixes, Team
  <2>14. QED
    BY <2>10, <2>11, <2>12, <2>13 DEF IInv
<1>7. ASSUME NEW call \in calls, Refuse(call)
      PROVE  IInv'
  <2>1. call.record.signer \in Users
    BY <1>0 DEF TypeOK, Call, Record
  <2>2. QED
    BY <1>0, <1>7, <2>1, CopyStep DEF Refuse, Answered, TypeOK
<1>8. ASSUME NEW u \in Users, GiveUp(u)
      PROVE  IInv'
  BY <1>0, <1>8, CopyStep DEF GiveUp, TypeOK
<1>9. ASSUME NEW call \in calls, Lose(call)
      PROVE  IInv'
  BY <1>0, <1>9, CopyStep DEF Lose, TypeOK
<1>10. ASSUME Tick
       PROVE  IInv'
  <2>1. requests' \in [Users -> Request] /\ PendingNamed'
    BY <1>0, <1>10 DEF Tick, TypeOK, Request, RequestStates, PendingNamed
  <2>2. QED
    BY <1>0, <1>10, <2>1
       DEF Tick, IInv, TypeOK, AlwaysGoverned, CopiesArePrefixes, Governed, Ids
<1>11. CASE UNCHANGED vars
  BY <1>0, <1>11
     DEF vars, IInv, TypeOK, PendingNamed, AlwaysGoverned, CopiesArePrefixes, Governed, Ids
<1>12. QED
  BY <1>1, <1>2, <1>3, <1>4, <1>5, <1>6, <1>7, <1>8, <1>9, <1>10, <1>11, <1>13
     DEF Next

(* The inductive invariant holds in every reachable state.                 *)
THEOREM Invariance == Spec => []IInv
<1>1. QED
  BY InitInv, NextInv, PTL DEF Spec

(* Type correctness of the whole model.                                    *)
THEOREM TypeCorrect == Spec => []TypeOK
<1>1. IInv => TypeOK
  BY DEF IInv
<1>2. QED
  BY <1>1, Invariance, PTL

(* No interleaving of admins' decisions, delayed calls and lost answers    *)
(* leaves an open team, or a member's copy of it, without an admin.        *)
THEOREM TeamAlwaysGoverned == Spec => []AlwaysGoverned
<1>1. IInv => AlwaysGoverned
  BY DEF IInv
<1>2. QED
  BY <1>1, Invariance, PTL

(* Every member's copy is a prefix of the authority's history.             *)
THEOREM CopiesNeverFork == Spec => []CopiesArePrefixes
<1>1. IInv => CopiesArePrefixes
  BY DEF IInv
<1>2. QED
  BY <1>1, Invariance, PTL

----------------------------------------------------------------------------
(* What the history says                                                   *)

(* One more record: a gain takes effect, a loss ends what held before, and *)
(* any other record changes nothing.                                       *)
LEMMA HoldsAppend ==
  ASSUME NEW h \in Seq(Record), NEW r \in Record, NEW u \in Users,
         NEW gains, NEW loses, gains \cap loses = {}
  PROVE  Holds(Append(h, r), Len(Append(h, r)), u, gains, loses) <=>
           \/ r.target = u /\ r.action \in gains
           \/ /\ Holds(h, Len(h), u, gains, loses)
              /\ ~ (r.target = u /\ r.action \in loses)
<1> DEFINE g == Append(h, r)
           n == Len(h)
<1>1. /\ Len(g) = n + 1 /\ g[n + 1] = r /\ n \in Nat
      /\ \A i \in 1..n : g[i] = h[i]
  OBVIOUS
<1> HIDE DEF g, n
<1>2. ASSUME Holds(g, n + 1, u, gains, loses)
      PROVE  \/ r.target = u /\ r.action \in gains
             \/ /\ Holds(h, n, u, gains, loses)
                /\ ~ (r.target = u /\ r.action \in loses)
  <2>1. PICK i \in 1..(n + 1) :
          /\ g[i].target = u /\ g[i].action \in gains
          /\ \A j \in (i + 1)..(n + 1) :
               ~ (g[j].target = u /\ g[j].action \in loses)
    BY <1>2 DEF Holds
  <2>2. CASE i = n + 1
    BY <1>1, <2>1, <2>2
  <2>3. CASE i \in 1..n
    <3>1. h[i].target = u /\ h[i].action \in gains
      BY <1>1, <2>1, <2>3
    <3>2. ASSUME NEW j \in (i + 1)..n
          PROVE  ~ (h[j].target = u /\ h[j].action \in loses)
      <4>1. j \in (i + 1)..(n + 1) /\ g[j] = h[j]
        BY <1>1, <2>3
      <4> QED
        BY <2>1, <4>1
    <3>3. n + 1 \in (i + 1)..(n + 1)
      BY <1>1, <2>3
    <3>4. ~ (r.target = u /\ r.action \in loses)
      BY <1>1, <2>1, <3>3
    <3> QED
      BY <2>3, <3>1, <3>2, <3>4 DEF Holds
  <2> QED
    BY <1>1, <2>1, <2>2, <2>3
<1>3. ASSUME r.target = u /\ r.action \in gains
      PROVE  Holds(g, n + 1, u, gains, loses)
  <2>1. n + 1 \in 1..(n + 1) /\ (n + 1 + 1)..(n + 1) = {}
    BY <1>1
  <2> QED
    BY <1>1, <1>3, <2>1 DEF Holds
<1>4. ASSUME Holds(h, n, u, gains, loses),
             ~ (r.target = u /\ r.action \in loses)
      PROVE  Holds(g, n + 1, u, gains, loses)
  <2>1. PICK i \in 1..n :
          /\ h[i].target = u /\ h[i].action \in gains
          /\ \A j \in (i + 1)..n : ~ (h[j].target = u /\ h[j].action \in loses)
    BY <1>4 DEF Holds
  <2>2. i \in 1..(n + 1) /\ g[i].target = u /\ g[i].action \in gains
    BY <1>1, <2>1
  <2>3. ASSUME NEW j \in (i + 1)..(n + 1)
        PROVE  ~ (g[j].target = u /\ g[j].action \in loses)
    <3>1. CASE j = n + 1
      BY <1>1, <1>4, <3>1
    <3>2. CASE j \in (i + 1)..n
      BY <1>1, <2>1, <3>2
    <3> QED
      BY <1>1, <3>1, <3>2
  <2> QED
    BY <2>2, <2>3 DEF Holds
<1> QED
  BY <1>1, <1>2, <1>3, <1>4 DEF g, n

(* A later record does not change what held before it.                     *)
LEMMA HoldsBefore ==
  ASSUME NEW h \in Seq(Record), NEW r \in Record, NEW u \in Users,
         NEW gains, NEW loses, NEW n \in 0..Len(h)
  PROVE  Holds(Append(h, r), n, u, gains, loses) <=>
           Holds(h, n, u, gains, loses)
<1>1. \A i \in 1..n : Append(h, r)[i] = h[i]
  OBVIOUS
<1>2. \A i \in 1..n : \A j \in (i + 1)..n : j \in 1..n
  OBVIOUS
<1> QED
  BY <1>1, <1>2 DEF Holds

(* A team is what its history says, with one entry per identity.           *)
AsRecorded(t) ==
  /\ Ids(t) = {u \in Users : MemberAfter(t.history, Len(t.history), u)}
  /\ t.admins = {u \in Users : AdminAfter(t.history, Len(t.history), u)}
  /\ \A m1, m2 \in t.members : m1.id = m2.id => m1 = m2

LEMMA ApplyAsRecorded ==
  ASSUME NEW t \in Team, NEW r \in Record, AsRecorded(t), Legal(t, r)
  PROVE  AsRecorded(Apply(t, r))
<1> DEFINE g == Append(t.history, r)
           a == Apply(t, r)
<1>1. /\ a.history = g
      /\ a.members = {m \in t.members : m.id \notin Removed(r)} \cup Joined(r)
      /\ a.admins = (t.admins \ Demoted(r)) \cup Promoted(r)
  BY DEF Apply
<1>2. t.history \in Seq(Record) /\ r.target \in Users /\ r.action # "create"
  BY DEF Team, Record, Legal
<1>3. ASSUME NEW u \in Users
      PROVE  /\ MemberAfter(g, Len(g), u) <=>
                  \/ r.target = u /\ r.action = "admit"
                  \/ u \in Ids(t) /\ u \notin Removed(r)
             /\ AdminAfter(g, Len(g), u) <=>
                  \/ r.target = u /\ r.action = "promote"
                  \/ u \in t.admins /\ u \notin Demoted(r)
  <2>1. MemberAfter(g, Len(g), u) <=>
          \/ r.target = u /\ r.action \in {"create", "admit"}
          \/ /\ MemberAfter(t.history, Len(t.history), u)
             /\ ~ (r.target = u /\ r.action \in {"revoke", "leave"})
    <3>1. {"create", "admit"} \cap {"revoke", "leave"} = {}
      OBVIOUS
    <3> QED
      BY <1>2, <3>1, HoldsAppend DEF MemberAfter
  <2>2. AdminAfter(g, Len(g), u) <=>
          \/ r.target = u /\ r.action \in {"create", "promote"}
          \/ /\ AdminAfter(t.history, Len(t.history), u)
             /\ ~ (r.target = u /\ r.action \in {"demote", "revoke", "leave"})
    <3> DEFINE gains == {"create", "promote"}
               loses == {"demote", "revoke", "leave"}
    <3>1. gains \cap loses = {}
      OBVIOUS
    <3>2. /\ AdminAfter(g, Len(g), u) <=> Holds(g, Len(g), u, gains, loses)
          /\ AdminAfter(t.history, Len(t.history), u) <=>
               Holds(t.history, Len(t.history), u, gains, loses)
      BY DEF AdminAfter
    <3> HIDE DEF gains, loses
    <3>3. Holds(g, Len(g), u, gains, loses) <=>
            \/ r.target = u /\ r.action \in gains
            \/ /\ Holds(t.history, Len(t.history), u, gains, loses)
               /\ ~ (r.target = u /\ r.action \in loses)
      BY <1>2, <3>1, HoldsAppend
    <3> QED
      BY <3>2, <3>3 DEF gains, loses
  <2> QED
    BY <1>2, <2>1, <2>2 DEF AsRecorded, Removed, Demoted
<1>4. Ids(a) = {u \in Users : MemberAfter(g, Len(g), u)}
  <2>1. \A u : u \in Ids(a) <=> \/ u \in Ids(t) /\ u \notin Removed(r)
                                \/ r.target = u /\ r.action = "admit"
    <3>1. \A u : u \in Ids(a) <=>
             \/ \E m \in t.members : m.id \notin Removed(r) /\ m.id = u
             \/ \E m \in Joined(r) : m.id = u
      BY <1>1 DEF Ids
    <3>2. \A u : (\E m \in Joined(r) : m.id = u) <=>
                   r.target = u /\ r.action = "admit"
      <4>1. CASE r.action = "admit"
        BY <4>1 DEF Joined
      <4>2. CASE r.action # "admit"
        BY <4>2 DEF Joined
      <4> QED
        BY <4>1, <4>2
    <3>3. \A u : (\E m \in t.members : m.id \notin Removed(r) /\ m.id = u) <=>
                   u \in Ids(t) /\ u \notin Removed(r)
      BY DEF Ids
    <3> QED
      BY <3>1, <3>2, <3>3
  <2>2. Ids(t) \subseteq Users
    BY DEF AsRecorded
  <2> QED
    BY <1>2, <1>3, <2>1, <2>2
<1>5. a.admins = {u \in Users : AdminAfter(g, Len(g), u)}
  <2>1. t.admins \subseteq Users
    BY DEF Team
  <2> QED
    BY <1>1, <1>2, <1>3, <2>1 DEF Promoted
<1>6. ASSUME NEW m1 \in a.members, NEW m2 \in a.members, m1.id = m2.id
      PROVE  m1 = m2
  <2>1. r.action = "admit" => \A m \in t.members : m.id # r.target
    BY DEF Legal, Ids
  <2> QED
    BY <1>1, <1>6, <2>1 DEF AsRecorded, Joined
<1> QED
  BY <1>1, <1>4, <1>5, <1>6 DEF AsRecorded

----------------------------------------------------------------------------
(* Rosters, signatures and decisions                                       *)

RecordedInv ==
  /\ AsRecorded(team)
  /\ \A u \in Users : saved[u] # NONE => AsRecorded(saved[u])
  /\ SignedWithAuthority
  /\ OneDecisionPerRequest

(* A step commits a call, or leaves the team and every admission as they   *)
(* are and stores nothing but the current team.                            *)
LEMMA StepCommitsOrKeeps ==
  ASSUME IInv, [Next]_vars
  PROVE  \/ \E call \in Call : Commit(call)
         \/ /\ team' = team
            /\ \A u \in Users : saved'[u] \in {saved[u], team, NONE}
            /\ \A u \in Users : /\ requests[u].state = "admitted" <=>
                                     requests'[u].state = "admitted"
<1>0. TypeOK
  BY DEF IInv
<1>1. ASSUME NEW u \in Users, NEW n \in Names, RequestJoin(u, n)
      PROVE  /\ UNCHANGED <<team, saved>>
             /\ \A v \in Users : /\ requests[v].state = "admitted" <=>
                                      requests'[v].state = "admitted"
  BY <1>0, <1>1 DEF RequestJoin, TypeOK
<1>2. ASSUME NEW a \in Users, NEW u \in Users, Reject(a, u)
      PROVE  /\ UNCHANGED <<team, saved>>
             /\ \A v \in Users : /\ requests[v].state = "admitted" <=>
                                      requests'[v].state = "admitted"
  BY <1>0, <1>2 DEF Reject, Row, TypeOK
<1>3. CASE Tick
  BY <1>0, <1>3 DEF Tick, TypeOK, Request
<1>4. ASSUME NEW u \in Users, Install(u) \/ Refresh(u)
      PROVE  /\ UNCHANGED <<team, requests>>
             /\ \A v \in Users : saved'[v] \in {saved[v], team, NONE}
  BY <1>0, <1>4, CopyIsTeam DEF Install, Refresh, TypeOK
<1>5. ASSUME NEW u \in Users, NEW target \in Users, NEW action \in Actions,
             Propose(u, action, target)
      PROVE  /\ UNCHANGED <<team, requests>>
             /\ \A v \in Users : saved'[v] \in {saved[v], team, NONE}
  BY <1>0, <1>5, CopyIsTeam DEF Propose, TypeOK
<1>6. ASSUME NEW call \in calls, Commit(call)
      PROVE  \E c \in Call : Commit(c)
  BY <1>0, <1>6 DEF TypeOK
<1>7. ASSUME NEW call \in calls, Refuse(call) \/ Lose(call)
      PROVE  UNCHANGED <<team, saved, requests>>
  BY <1>7 DEF Refuse, Lose
<1>8. ASSUME NEW u \in Users,
             GiveUp(u) \/ JoinNoted(u) \/ \E n \in Names : JoinRefused(u, n)
      PROVE  UNCHANGED <<team, saved, requests>>
  BY <1>8 DEF GiveUp, JoinNoted, JoinRefused
<1>9. CASE UNCHANGED vars
  BY <1>9 DEF vars
<1> QED
  BY <1>1, <1>2, <1>3, <1>4, <1>5, <1>6, <1>7, <1>8, <1>9 DEF Next

LEMMA InitRecorded == Init => RecordedInv
<1> SUFFICES ASSUME Init PROVE RecordedInv
  OBVIOUS
<1>1. /\ NewTeam.history = <<Creation>> /\ Ids(NewTeam) = {Founder}
      /\ NewTeam.admins = {Founder} /\ Len(<<Creation>>) = 1
      /\ <<Creation>>[1] = Creation
  BY DEF NewTeam, Ids
<1>2. ASSUME NEW u \in Users
      PROVE  /\ MemberAfter(<<Creation>>, 1, u) <=> u = Founder
             /\ AdminAfter(<<Creation>>, 1, u) <=> u = Founder
  <2>1. 1..1 = {1} /\ (1 + 1)..1 = {}
    OBVIOUS
  <2> QED
    BY <1>1, <2>1 DEF MemberAfter, AdminAfter, Holds, Creation
<1>3. AsRecorded(NewTeam)
  <2>1. \A m1, m2 \in NewTeam.members : m1 = m2
    BY DEF NewTeam
  <2> QED
    BY <1>1, <1>2, <2>1, FounderAssumption DEF AsRecorded
<1>4. SignedWithAuthority
  BY <1>1 DEF Init, SignedWithAuthority
<1>5. OneDecisionPerRequest
  <2>1. \A i \in 1..Len(team.history) : team.history[i].action = "create"
    BY <1>1 DEF Init, Creation
  <2> QED
    BY <2>1 DEF Init, OneDecisionPerRequest, Row
<1> QED
  BY <1>3, <1>4, <1>5 DEF Init, RecordedInv

LEMMA KeepRecorded ==
  ASSUME RecordedInv, team' = team,
         \A u \in Users : saved'[u] \in {saved[u], team, NONE},
         \A u \in Users : /\ requests[u].state = "admitted" <=>
                               requests'[u].state = "admitted"
  PROVE  RecordedInv'
<1>1. AsRecorded(team)'
  BY DEF RecordedInv, AsRecorded, Ids
<1>2. \A u \in Users : saved'[u] # NONE => AsRecorded(saved'[u])
  BY DEF RecordedInv
<1>3. SignedWithAuthority'
  BY DEF RecordedInv, SignedWithAuthority
<1>4. OneDecisionPerRequest'
  BY DEF RecordedInv, OneDecisionPerRequest
<1> QED
  BY <1>1, <1>2, <1>3, <1>4 DEF RecordedInv, AsRecorded, Ids

LEMMA CommitRecorded ==
  ASSUME IInv, RecordedInv, NEW call \in Call, Commit(call)
  PROVE  RecordedInv'
<1> DEFINE r == call.record
           h == team.history
           last == Len(h) + 1
<1>1. /\ r \in Record /\ r.target \in Users /\ r.signer \in Users
      /\ team \in Team /\ h \in Seq(Record) /\ Len(h) \in Nat
  BY DEF IInv, TypeOK, Call, Record, Team
<1>2. /\ Accepts(call) /\ team' = Apply(team, r)
      /\ Legal(team, r) /\ team'.history = Append(h, r)
      /\ requests' = IF r.action = "admit"
                       THEN [requests EXCEPT ![r.target] = Row("admitted")]
                       ELSE requests
  BY DEF Commit, Accepts, Apply
<1>3. /\ Len(team'.history) = last /\ team'.history[last] = r
      /\ \A i \in 1..Len(h) : team'.history[i] = h[i]
  BY <1>1, <1>2
<1>4. AsRecorded(Apply(team, r))
  BY <1>1, <1>2, ApplyAsRecorded DEF RecordedInv
<1>5. ASSUME NEW u \in Users, saved'[u] # NONE
      PROVE  AsRecorded(saved'[u])
  <2>1. saved'[u] \in {saved[u], Apply(team, r), NONE}
    BY <1>1, <1>2 DEF Commit, IInv, TypeOK, Told, SaveTeam
  <2> QED
    BY <1>4, <1>5, <2>1 DEF RecordedInv
<1>6. SignedWithAuthority'
  <2>1. ASSUME NEW i \in 2..last
        PROVE  LET q == team'.history[i] IN
                 IF q.action = "leave"
                   THEN /\ q.signer = q.target
                        /\ MemberAfter(team'.history, i - 1, q.signer)
                   ELSE AdminAfter(team'.history, i - 1, q.signer)
    <3>1. i - 1 \in 0..Len(h)
      BY <1>1
    <3>2. \A u \in Users :
            /\ MemberAfter(team'.history, i - 1, u) <=> MemberAfter(h, i - 1, u)
            /\ AdminAfter(team'.history, i - 1, u) <=> AdminAfter(h, i - 1, u)
      BY <1>1, <1>2, <3>1, HoldsBefore DEF MemberAfter, AdminAfter
    <3>3. CASE i \in 2..Len(h)
      <4>1. team'.history[i] = h[i] /\ h[i].signer \in Users
        <5>1. i \in 1..Len(h) /\ h[i] \in Record
          BY <1>1, <3>3
        <5> QED
          BY <1>3, <5>1 DEF Record
      <4>2. IF h[i].action = "leave"
              THEN /\ h[i].signer = h[i].target
                   /\ MemberAfter(h, i - 1, h[i].signer)
              ELSE AdminAfter(h, i - 1, h[i].signer)
        BY <3>3 DEF RecordedInv, SignedWithAuthority
      <4> QED
        BY <3>2, <4>1, <4>2
    <3>4. CASE i = last
      <4>1. i - 1 = Len(h) /\ team'.history[i] = r
        BY <1>1, <1>3, <3>4
      <4>2. IF r.action = "leave"
              THEN /\ r.signer = r.target
                   /\ MemberAfter(h, Len(h), r.signer)
              ELSE AdminAfter(h, Len(h), r.signer)
        BY <1>1, <1>2 DEF Legal, RecordedInv, AsRecorded
      <4> QED
        BY <1>1, <3>2, <4>1, <4>2
    <3> QED
      BY <1>1, <3>3, <3>4
  <2> QED
    BY <1>3, <2>1 DEF SignedWithAuthority
<1>7. OneDecisionPerRequest'
  <2>1. ASSUME NEW u \in Users
        PROVE  LET admissions == {i \in 1..last :
                     /\ team'.history[i].action = "admit"
                     /\ team'.history[i].target = u}
               IN /\ \A i, j \in admissions : i = j
                  /\ admissions # {} <=> requests'[u].state = "admitted"
    <3> DEFINE before == {i \in 1..Len(h) :
                 h[i].action = "admit" /\ h[i].target = u}
               after == {i \in 1..last : /\ team'.history[i].action = "admit"
                                         /\ team'.history[i].target = u}
    <3>1. /\ \A i, j \in before : i = j
          /\ before # {} <=> requests[u].state = "admitted"
      BY DEF RecordedInv, OneDecisionPerRequest
    <3>2. after = before \cup
            (IF r.action = "admit" /\ r.target = u THEN {last} ELSE {})
      BY <1>1, <1>3
    <3>3. CASE r.action = "admit" /\ r.target = u
      <4>1. requests[u].state = "pending" /\ requests'[u].state = "admitted"
        BY <1>2, <3>3 DEF Accepts, Admissible, IInv, TypeOK, Row
      <4> QED
        BY <3>1, <3>2, <3>3, <4>1
    <3>4. CASE ~ (r.action = "admit" /\ r.target = u)
      <4>1. requests'[u] = requests[u]
        BY <1>1, <1>2, <3>4 DEF IInv, TypeOK
      <4> QED
        BY <3>1, <3>2, <3>4, <4>1
    <3> QED
      BY <3>3, <3>4
  <2> QED
    BY <1>3, <2>1 DEF OneDecisionPerRequest
<1> QED
  BY <1>2, <1>4, <1>5, <1>6, <1>7 DEF RecordedInv

(* What the history says stays true with every step.                       *)
THEOREM HistoryIsTheRecord == Spec => []RecordedInv
<1>1. IInv /\ RecordedInv /\ [Next]_vars => RecordedInv'
  BY StepCommitsOrKeeps, KeepRecorded, CommitRecorded
<1> QED
  BY <1>1, InitRecorded, Invariance, PTL DEF Spec

(* Every roster, the authority's and every stored copy, is what its        *)
(* history says (governance::replay, verify_team).                         *)
THEOREM RostersFollowHistory == Spec => []RosterFollowsHistory
<1>1. RecordedInv => RosterFollowsHistory
  BY DEF RecordedInv, AsRecorded, RosterFollowsHistory, RosterOf
<1> QED
  BY <1>1, HistoryIsTheRecord, PTL

(* No call that was on its way when its signer lost the role takes effect. *)
THEOREM ChangesAreSignedWithAuthority == Spec => []SignedWithAuthority
<1>1. RecordedInv => SignedWithAuthority
  BY DEF RecordedInv
<1> QED
  BY <1>1, HistoryIsTheRecord, PTL

(* A request is decided once, whichever of several admins comes first.     *)
THEOREM RequestsAreDecidedOnce == Spec => []OneDecisionPerRequest
<1>1. RecordedInv => OneDecisionPerRequest
  BY DEF RecordedInv
<1> QED
  BY <1>1, HistoryIsTheRecord, PTL

(* A team whose last member left stays as it is, and so do its requests.   *)
THEOREM ClosedTeamsStayClosed == Spec => ClosedIsFinal
<1>1. ASSUME IInv, Next, team.members = {}
      PROVE  /\ team' = team
             /\ \A u \in Users : requests'[u].state = requests[u].state
  <2>1. Ids(team) = {}
    BY <1>1 DEF Ids
  <2>2. ~ \E u \in Users, n \in Names : RequestJoin(u, n)
    BY <1>1 DEF RequestJoin
  <2>3. ~ \E a, u \in Users : Reject(a, u)
    BY <2>1 DEF Reject
  <2>9. CASE \E u \in Users : JoinNoted(u) \/ \E n \in Names : JoinRefused(u, n)
    BY <2>9 DEF JoinNoted, JoinRefused
  <2>4. ~ \E call \in calls : Commit(call)
    BY <1>1 DEF Commit, Accepts, Legal
  <2>5. CASE Tick
    BY <1>1, <2>5 DEF Tick, IInv, TypeOK, Request
  <2>6. CASE \E u \in Users : Install(u) \/ Refresh(u) \/ GiveUp(u)
    BY <2>6 DEF Install, Refresh, GiveUp
  <2>7. CASE \E u, target \in Users, action \in Actions :
               Propose(u, action, target)
    BY <2>7 DEF Propose
  <2>8. CASE \E call \in calls : Refuse(call) \/ Lose(call)
    BY <2>8 DEF Refuse, Lose
  <2> QED
    BY <1>1, <2>2, <2>3, <2>4, <2>5, <2>6, <2>7, <2>8, <2>9 DEF Next
<1>2. IInv /\ [Next]_vars =>
        [team.members = {} =>
           /\ team' = team
           /\ \A u \in Users : requests'[u].state = requests[u].state]_vars
  BY <1>1
<1> QED
  BY <1>2, Invariance, PTL DEF Spec, ClosedIsFinal

----------------------------------------------------------------------------
(* Membership implements Rosters                                           *)

LEMMA AdmittedAppend ==
  ASSUME NEW h \in Seq(Record), NEW r \in Record
  PROVE  AdmittedBy(Append(h, r)) =
           AdmittedBy(h) \cup (IF r.action = "admit" THEN {r.target} ELSE {})
<1> DEFINE g == Append(h, r)
           n == Len(h)
<1>1. /\ DOMAIN g = 1..(n + 1) /\ DOMAIN h = 1..n /\ n \in Nat
      /\ g[n + 1] = r /\ \A i \in 1..n : g[i] = h[i]
  OBVIOUS
<1> HIDE DEF g, n
<1>2. \A v : v \in AdmittedBy(g) <=>
        \E i \in 1..(n + 1) : g[i].action = "admit" /\ g[i].target = v
  BY <1>1 DEF AdmittedBy
<1>3. \A v : v \in AdmittedBy(h) <=>
        \E i \in 1..n : h[i].action = "admit" /\ h[i].target = v
  BY <1>1 DEF AdmittedBy
<1>4. 1..(n + 1) = 1..n \cup {n + 1}
  BY <1>1
<1>5. \A v : v \in AdmittedBy(g) <=>
        v \in AdmittedBy(h) \/ (r.action = "admit" /\ r.target = v)
  BY <1>1, <1>2, <1>3, <1>4
<1> QED
  BY <1>5 DEF g

(* A step commits a call, or shows members the team that is.               *)
LEMMA StepShowsMembers ==
  ASSUME IInv, [Next]_vars
  PROVE  \/ \E call \in Call : Commit(call)
         \/ /\ team' = team
            /\ \A u \in Users :
                 saved'[u] = saved[u] \/ (u \in Ids(team) /\ saved'[u] = team)
<1>0. TypeOK
  BY DEF IInv
<1>1. ASSUME NEW u \in Users, Install(u) \/ Refresh(u)
      PROVE  /\ team' = team
             /\ \A v \in Users :
                  saved'[v] = saved[v] \/ (v \in Ids(team) /\ saved'[v] = team)
  BY <1>0, <1>1, CopyIsTeam DEF Install, Refresh, TypeOK
<1>2. ASSUME NEW u \in Users, NEW target \in Users, NEW action \in Actions,
             Propose(u, action, target)
      PROVE  /\ team' = team
             /\ \A v \in Users :
                  saved'[v] = saved[v] \/ (v \in Ids(team) /\ saved'[v] = team)
  BY <1>0, <1>2, CopyIsTeam DEF Propose, TypeOK
<1>3. ASSUME NEW u \in Users,
             \/ \E n \in Names : RequestJoin(u, n) \/ JoinRefused(u, n)
             \/ JoinNoted(u) \/ GiveUp(u)
      PROVE  UNCHANGED <<team, saved>>
  BY <1>3 DEF RequestJoin, JoinRefused, JoinNoted, GiveUp
<1>4. ASSUME NEW a \in Users, NEW u \in Users, Reject(a, u)
      PROVE  UNCHANGED <<team, saved>>
  BY <1>4 DEF Reject
<1>5. ASSUME NEW call \in calls, Refuse(call) \/ Lose(call)
      PROVE  UNCHANGED <<team, saved>>
  BY <1>5 DEF Refuse, Lose
<1>6. ASSUME Tick \/ UNCHANGED vars
      PROVE  UNCHANGED <<team, saved>>
  BY <1>6 DEF Tick, vars
<1>7. ASSUME NEW call \in calls, Commit(call)
      PROVE  \E c \in Call : Commit(c)
  BY <1>0, <1>7 DEF TypeOK
<1> QED
  BY <1>1, <1>2, <1>3, <1>4, <1>5, <1>6, <1>7 DEF Next

(* Who is in the team after a record.                                      *)
LEMMA ApplyIds ==
  ASSUME NEW t, NEW r
  PROVE  \A u : u \in Ids(Apply(t, r)) <=>
                   \/ u \in Ids(t) /\ u \notin Removed(r)
                   \/ r.target = u /\ r.action = "admit"
<1>1. Apply(t, r).members = {m \in t.members : m.id \notin Removed(r)} \cup Joined(r)
  BY DEF Apply
<1>2. \A u : (\E m \in Joined(r) : m.id = u) <=> r.target = u /\ r.action = "admit"
  <2>1. CASE r.action = "admit"
    BY <2>1 DEF Joined
  <2>2. CASE r.action # "admit"
    BY <2>2 DEF Joined
  <2> QED
    BY <2>1, <2>2
<1> QED
  BY <1>1, <1>2 DEF Ids

(* What a commit does to the roster and to the signer's copy.              *)
LEMMA CommitMovesRoster ==
  ASSUME IInv, IInv', RecordedInv, NEW call \in Call, Commit(call)
  PROVE  \/ R!RosterChanges
         \/ R!RosterKept
<1> DEFINE r == call.record
           t == team'
<1>1. /\ r \in Record /\ r.target \in Users /\ r.signer \in Users
      /\ team \in Team /\ team.history \in Seq(Record)
  BY DEF IInv, TypeOK, Call, Record, Team
<1>2. /\ Legal(team, r) /\ t = Apply(team, r) /\ r.signer \in Ids(team)
      /\ r.action = "admit" => requests[r.target].state = "pending"
  BY DEF Commit, Accepts, Admissible
<1>3. AdmittedBy(t.history) =
        AdmittedBy(team.history) \cup (IF r.action = "admit" THEN {r.target} ELSE {})
  BY <1>1, <1>2, AdmittedAppend DEF Apply
<1>4. \A u : u \in Ids(t) <=> \/ u \in Ids(team) /\ u \notin Removed(r)
                              \/ r.target = u /\ r.action = "admit"
  BY <1>2, ApplyIds
<1>5. ASSUME NEW u \in Users PROVE R!CopyFollows(u)
  <2>1. \/ saved'[u] = saved[u]
        \/ u = r.signer /\ saved'[u] = t
        \/ u = r.signer /\ saved'[u] = NONE /\ r.action = "leave"
    BY <1>1 DEF Commit, IInv, TypeOK, Told, SaveTeam
  <2>2. CASE saved'[u] = saved[u]
    BY <2>2 DEF R!CopyFollows, Known
  <2>3. CASE u = r.signer /\ saved'[u] = t
    <3>1. t # NONE
      BY NoneAssumption DEF IInv, TypeOK
    <3>2. Known(u)' = R!Present'
      BY <2>3, <3>1 DEF R!Present, R!Ever, Known
    <3> QED
      BY <1>2, <2>3, <3>2 DEF R!CopyFollows
  <2>4. CASE u = r.signer /\ saved'[u] = NONE /\ r.action = "leave"
    <3>1. u \notin Ids(t)
      BY <1>2, <1>4, <2>4 DEF Legal, Removed
    <3> QED
      BY <2>4, <3>1 DEF R!CopyFollows, R!NoCopy, Known
  <2> QED
    BY <2>1, <2>2, <2>3, <2>4
<1>6. CASE r.action = "admit"
  <2>1. r.target \notin Ids(team) /\ Ids(team) # {}
    BY <1>2, <1>6 DEF Legal, Ids
  <2>2. r.target \notin AdmittedBy(team.history)
    <3>1. {i \in 1..Len(team.history) : /\ team.history[i].action = "admit"
                                        /\ team.history[i].target = r.target} = {}
      BY <1>1, <1>2, <1>6 DEF RecordedInv, OneDecisionPerRequest
    <3> QED
      BY <1>1, <3>1 DEF AdmittedBy
  <2>3. Ids(t) = Ids(team) \cup {r.target}
    BY <1>4, <1>6 DEF Removed
  <2>4. R!Joins(r.target)
    BY <1>3, <1>6, <2>1, <2>2, <2>3 DEF R!Joins
  <2> QED
    BY <1>1, <1>5, <2>4 DEF R!RosterChanges
<1>7. CASE r.action \in {"revoke", "leave"}
  <2>1. r.target \in Ids(team)
    BY <1>2, <1>7 DEF Legal
  <2>2. Ids(t) = Ids(team) \ {r.target}
    BY <1>4, <1>7 DEF Removed
  <2>3. R!Parts(r.target)
    BY <1>3, <1>7, <2>1, <2>2 DEF R!Parts
  <2> QED
    BY <1>1, <1>5, <2>3 DEF R!RosterChanges
<1>8. CASE r.action \notin {"admit", "revoke", "leave"}
  <2>1. Ids(t) = Ids(team)
    BY <1>4, <1>8 DEF Removed
  <2> QED
    BY <1>3, <1>5, <1>8, <2>1 DEF R!RosterKept
<1> QED
  BY <1>6, <1>7, <1>8

(* Whatever admins decide at once and whatever is lost or late, nobody is  *)
(* admitted twice, and copies become what the authority has at that        *)
(* moment: what Mailbox takes from Membership is what Membership gives.    *)
THEOREM MembershipKeepsRosters == Spec => RostersAreKept
<1>1. Init => R!RosterInit
  <2> SUFFICES ASSUME Init PROVE R!RosterInit
    OBVIOUS
  <2>1. Ids(team) = {Founder} /\ team.history = <<Creation>>
    BY DEF Init, NewTeam, Ids
  <2>2. AdmittedBy(team.history) = {}
    BY <2>1 DEF AdmittedBy, Creation
  <2>3. \A u \in Users : Known(u) = IF u = Founder THEN R!Present ELSE R!NoCopy
    <3>1. team # NONE
      BY InitInv, NoneAssumption DEF IInv, TypeOK
    <3> QED
      BY <2>1, <2>2, <3>1 DEF Init, Known, R!Present, R!Ever, R!NoCopy
  <2> QED
    BY <2>1, <2>2, <2>3, FounderAssumption DEF R!RosterInit
<1>2. IInv /\ RecordedInv /\ [Next]_vars =>
        [R!RosterChanges \/ R!RosterKept]_(R!rosterVars)
  <2> SUFFICES ASSUME IInv, RecordedInv, [Next]_vars,
                      team' = team,
                      \A u \in Users :
                        saved'[u] = saved[u] \/ (u \in Ids(team) /\ saved'[u] = team)
      PROVE R!RosterKept
    BY NextInv, StepShowsMembers, CommitMovesRoster
  <2>1. UNCHANGED <<Ids(team), AdmittedBy(team.history)>>
    BY DEF Ids, AdmittedBy
  <2>2. ASSUME NEW u \in Users PROVE R!CopyFollows(u)
    <3>1. CASE saved'[u] = saved[u]
      BY <3>1 DEF R!CopyFollows, Known
    <3>2. CASE u \in Ids(team) /\ saved'[u] = team
      <4>1. team # NONE
        BY NoneAssumption DEF IInv, TypeOK
      <4>2. Known(u)' = R!Present'
        BY <3>2, <4>1 DEF R!Present, R!Ever, Known
      <4> QED
        BY <3>2, <4>2 DEF R!CopyFollows
    <3> QED
      BY <3>1, <3>2
  <2> QED
    BY <2>1, <2>2 DEF R!RosterKept
<1> QED
  BY <1>1, <1>2, Invariance, HistoryIsTheRecord, PTL
     DEF Spec, RostersAreKept, R!RosterSpec

----------------------------------------------------------------------------
(* Membership implements Admissions                                        *)

(* Who waits for a call has the team the call was made from.               *)
CallersKeepCopies == \A u \in Users : waiting[u] # NONE => saved[u] # NONE

LEMMA TeamIsSome == IInv => team # NONE
BY NoneAssumption DEF IInv, TypeOK

(* What becomes of a copy when a call is carried out.                      *)
LEMMA CommitTells ==
  ASSUME IInv, NEW call \in Call, Commit(call), NEW u \in Users
  PROVE  \/ saved'[u] = saved[u]
         \/ u = call.record.signer /\ waiting[u] = call /\ saved'[u] = team'
         \/ /\ u = call.record.signer /\ waiting[u] = call /\ saved'[u] = NONE
            /\ call.record.action = "leave"
<1>1. call.record.signer \in Users
  BY DEF Call, Record
<1> QED
  BY <1>1 DEF Commit, IInv, TypeOK, Told, SaveTeam

LEMMA CallersStep ==
  ASSUME IInv, IInv', CallersKeepCopies, [Next]_vars
  PROVE  CallersKeepCopies'
<1>0. TypeOK /\ team # NONE /\ team' # NONE
  BY TeamIsSome, NoneAssumption DEF IInv, TypeOK
<1>1. ASSUME NEW call \in Call, Commit(call) PROVE CallersKeepCopies'
  <2>1. ASSUME NEW u \in Users, waiting'[u] # NONE PROVE saved'[u] # NONE
    <3>1. waiting'[u] = waiting[u] /\ (u = call.record.signer => waiting[u] # call)
      BY <1>0, <1>1, <2>1 DEF Commit, Answered, TypeOK
    <3> QED
      BY <1>1, <2>1, <3>1, CommitTells DEF CallersKeepCopies
  <2> QED
    BY <2>1 DEF CallersKeepCopies
<1>2. ASSUME NEW u \in Users, NEW target \in Users, NEW action \in Actions,
             Propose(u, action, target)
      PROVE  CallersKeepCopies'
  BY <1>0, <1>2, CopyIsTeam DEF Propose, TypeOK, CallersKeepCopies
<1>3. ASSUME NEW u \in Users, Install(u) \/ Refresh(u) \/ GiveUp(u)
      PROVE  CallersKeepCopies'
  BY <1>0, <1>3, CopyIsTeam DEF Install, Refresh, GiveUp, TypeOK, CallersKeepCopies
<1>4. ASSUME NEW call \in calls, Refuse(call) PROVE CallersKeepCopies'
  BY <1>0, <1>4 DEF Refuse, Answered, TypeOK, CallersKeepCopies
<1>5. ASSUME UNCHANGED <<saved, waiting>> PROVE CallersKeepCopies'
  BY <1>5 DEF CallersKeepCopies
<1>6. ASSUME NEW u \in Users,
             \/ JoinNoted(u)
             \/ \E n \in Names : RequestJoin(u, n) \/ JoinRefused(u, n)
      PROVE  CallersKeepCopies'
  BY <1>5, <1>6 DEF JoinNoted, RequestJoin, JoinRefused
<1>7. ASSUME NEW a \in Users, NEW u \in Users, Reject(a, u) PROVE CallersKeepCopies'
  BY <1>5, <1>7 DEF Reject
<1>8. ASSUME NEW call \in calls, Lose(call) PROVE CallersKeepCopies'
  BY <1>5, <1>8 DEF Lose
<1>9. ASSUME Tick \/ UNCHANGED vars PROVE CallersKeepCopies'
  BY <1>5, <1>9 DEF Tick, vars
<1> QED
  BY <1>0, <1>1, <1>2, <1>3, <1>4, <1>6, <1>7, <1>8, <1>9 DEF Next, TypeOK

THEOREM CallersAlwaysKeepCopies == Spec => []CallersKeepCopies
<1>1. Init => CallersKeepCopies
  BY DEF Init, CallersKeepCopies
<1> QED
  BY <1>1, CallersStep, Invariance, PTL DEF Spec

(* Requests alone change, and only by being refused.                       *)
LEMMA RefusedOnly ==
  ASSUME UNCHANGED <<team, saved>>,
         \A u \in Newcomers :
           Shown(u)' = Shown(u) \/ (Shown(u) = "pending" /\ Shown(u)' = "refused")
  PROVE  A!SeatsNext
<1> DEFINE some == {u \in Newcomers : Shown(u) = "pending" /\ Shown(u)' = "refused"}
<1>1. UNCHANGED <<Ids(team), {u \in Newcomers : saved[u] # NONE}>>
  BY DEF Ids
<1>2. \A u \in Newcomers : Shown(u)' = IF u \in some THEN "refused" ELSE Shown(u)
  OBVIOUS
<1>3. A!Refuses(some)
  BY <1>1, <1>2 DEF A!Refuses
<1> QED
  BY <1>3 DEF A!SeatsNext

LEMMA RequestMovesSeats ==
  ASSUME TypeOK,
         \/ \E u \in Users, n \in Names : RequestJoin(u, n)
         \/ \E a, u \in Users : Reject(a, u)
         \/ Tick
  PROVE  [A!SeatsNext]_(A!seatVars)
<1>1. ASSUME NEW u \in Users, NEW n \in Names, RequestJoin(u, n)
      PROVE  [A!SeatsNext]_(A!seatVars)
  <2>1. /\ u \notin Ids(team) /\ requests[u].state = "none"
        /\ requests' = [requests EXCEPT ![u] =
             [state |-> "pending", name |-> n, left |-> RequestTTL]]
    BY <1>1 DEF RequestJoin
  <2>2. UNCHANGED <<Ids(team), {v \in Newcomers : saved[v] # NONE}>>
    BY <1>1 DEF RequestJoin, Ids
  <2>3. \A v \in Newcomers : v # u => Shown(v)' = Shown(v)
    BY <2>1 DEF Shown, TypeOK, Newcomers
  <2>4. Shown(u) = "none" /\ Shown(u)' = "pending"
    BY <2>1, BoundsAssumption DEF Shown, TypeOK
  <2>5. CASE u \in Newcomers
    <3>1. A!Asks(u)
      BY <2>1, <2>2, <2>3, <2>4, <2>5 DEF A!Asks
    <3> QED
      BY <2>5, <3>1 DEF A!SeatsNext
  <2>6. CASE u \notin Newcomers
    BY <2>2, <2>3, <2>6 DEF A!seatVars
  <2> QED
    BY <2>5, <2>6
<1>2. ASSUME NEW a \in Users, NEW u \in Users, Reject(a, u)
      PROVE  A!SeatsNext
  BY <1>2, RefusedOnly DEF Reject, Row, Shown, TypeOK, Newcomers
<1>3. CASE Tick
  <2>1. \A u \in Newcomers :
          Shown(u)' = Shown(u) \/ (Shown(u) = "pending" /\ Shown(u)' = "refused")
    <3> SUFFICES ASSUME NEW u \in Users
        PROVE Shown(u)' = Shown(u) \/ (Shown(u) = "pending" /\ Shown(u)' = "refused")
      BY DEF Newcomers
    <3>1. requests[u] \in Request /\ requests[u].left \in Int
      BY DEF TypeOK, Request
    <3>2. requests'[u].state = requests[u].state
      BY <1>3, <3>1 DEF Tick, Request
    <3>3. requests'[u].left = requests[u].left \/ requests[u].left >= 0
      BY <1>3, <3>1 DEF Tick, Request
    <3> QED
      BY <3>1, <3>2, <3>3 DEF Shown
  <2> QED
    BY <2>1, <1>3, RefusedOnly DEF Tick
<1> QED
  BY <1>1, <1>2, <1>3

(* What is shown to members, or no longer waited for.                      *)
LEMMA CopyMovesSeats ==
  ASSUME IInv,
         \/ \E u \in Users : Install(u) \/ Refresh(u) \/ GiveUp(u) \/ JoinNoted(u)
         \/ \E u \in Users, n \in Names : JoinRefused(u, n)
         \/ \E u, target \in Users, action \in Actions : Propose(u, action, target)
         \/ \E call \in calls : Refuse(call) \/ Lose(call)
         \/ UNCHANGED vars
  PROVE  [A!SeatsNext]_(A!seatVars)
<1>0. TypeOK /\ team # NONE
  BY TeamIsSome DEF IInv
<1>1. ASSUME UNCHANGED <<team, requests>>,
             \A u \in Users : saved'[u] = NONE <=> saved[u] = NONE
      PROVE  UNCHANGED A!seatVars
  <2>1. {u \in Newcomers : saved[u] # NONE}' = {u \in Newcomers : saved[u] # NONE}
    BY <1>1 DEF Newcomers
  <2> QED
    BY <1>1, <2>1 DEF A!seatVars, Shown, Ids
<1>2. ASSUME NEW u \in Users, Install(u) PROVE [A!SeatsNext]_(A!seatVars)
  <2>1. /\ UNCHANGED <<team, requests>> /\ u \in Ids(team)
        /\ saved' = [saved EXCEPT ![u] = team]
    BY <1>2 DEF Install
  <2>2. CASE u \in Newcomers
    <3>1. {v \in Newcomers : saved[v] # NONE}' = {v \in Newcomers : saved[v] # NONE} \cup {u}
      BY <1>0, <2>1, <2>2 DEF TypeOK, Newcomers
    <3>2. UNCHANGED <<Ids(team), [v \in Newcomers |-> Shown(v)]>>
      BY <2>1 DEF Ids, Shown
    <3>3. A!Learns(u)
      BY <2>1, <2>2, <3>1, <3>2 DEF A!Learns, Newcomers
    <3> QED
      BY <2>2, <3>3 DEF A!SeatsNext
  <2>3. CASE u \notin Newcomers
    <3>1. {v \in Newcomers : saved[v] # NONE}' = {v \in Newcomers : saved[v] # NONE}
      BY <1>0, <2>1, <2>3 DEF TypeOK, Newcomers
    <3> QED
      BY <2>1, <3>1 DEF A!seatVars, Shown, Ids
  <2> QED
    BY <2>2, <2>3
<1>3. ASSUME NEW u \in Users, Refresh(u) PROVE UNCHANGED A!seatVars
  BY <1>0, <1>1, <1>3, CopyIsTeam DEF Refresh, TypeOK
<1>4. ASSUME NEW u \in Users, NEW target \in Users, NEW action \in Actions,
             Propose(u, action, target)
      PROVE  UNCHANGED A!seatVars
  BY <1>0, <1>1, <1>4, CopyIsTeam DEF Propose, TypeOK
<1>5. ASSUME NEW u \in Users, GiveUp(u) PROVE UNCHANGED A!seatVars
  BY <1>1, <1>5 DEF GiveUp
<1>6. ASSUME NEW call \in calls, Refuse(call) \/ Lose(call) PROVE UNCHANGED A!seatVars
  BY <1>1, <1>6 DEF Refuse, Lose
<1>7. ASSUME UNCHANGED vars PROVE UNCHANGED A!seatVars
  BY <1>1, <1>7 DEF vars
<1>8. ASSUME NEW u \in Users, JoinNoted(u) \/ \E n \in Names : JoinRefused(u, n)
      PROVE  UNCHANGED A!seatVars
  BY <1>1, <1>8 DEF JoinNoted, JoinRefused
<1> QED
  BY <1>2, <1>3, <1>4, <1>5, <1>6, <1>7, <1>8

(* A decision lets one in, puts one out, or changes roles alone; a copy    *)
(* goes with its owner.                                                    *)
LEMMA CommitMovesSeats ==
  ASSUME IInv, IInv', CallersKeepCopies, NEW call \in Call, Commit(call)
  PROVE  [A!SeatsNext]_(A!seatVars)
<1> DEFINE r == call.record
           kept == {u \in Newcomers : saved[u] # NONE}
<1>1. /\ r \in Record /\ r.target \in Users /\ r.signer \in Users
      /\ TypeOK /\ team' # NONE
  BY TeamIsSome, NoneAssumption DEF IInv, TypeOK, Call, Record
<1>2. /\ Legal(team, r) /\ team' = Apply(team, r)
      /\ r.action = "admit" =>
           requests[r.target].state = "pending" /\ requests[r.target].left >= 0
      /\ requests' = IF r.action = "admit"
                     THEN [requests EXCEPT ![r.target] = Row("admitted")] ELSE requests
  BY DEF Commit, Accepts, Admissible
<1>3. \A u : u \in Ids(team') <=> \/ u \in Ids(team) /\ u \notin Removed(r)
                                  \/ r.target = u /\ r.action = "admit"
  BY <1>2, ApplyIds
<1>4. /\ \A u \in Users : u # r.signer => saved'[u] = saved[u]
      /\ saved[r.signer] = NONE => saved'[r.signer] = NONE
      /\ saved'[r.signer] = NONE => saved[r.signer] = NONE \/ r.action = "leave"
  <2>1. \A u \in Users : waiting[u] = call => saved[u] # NONE
    BY NoneAssumption DEF CallersKeepCopies
  <2> QED
    BY <1>1, <2>1, CommitTells
<1> HIDE DEF r
<1>5. ASSUME r.action # "admit" PROVE UNCHANGED [u \in Newcomers |-> Shown(u)]
  BY <1>2, <1>5 DEF Shown
<1>6. CASE r.action = "admit"
  <2>1. kept' = kept
    BY <1>1, <1>4, <1>6 DEF Newcomers
  <2>2. Ids(team') = Ids(team) \cup {r.target}
    BY <1>3, <1>6 DEF Removed
  <2>3. \A u \in Newcomers : u # r.target => Shown(u)' = Shown(u)
    BY <1>1, <1>2, <1>6 DEF Shown, TypeOK, Newcomers
  <2>4. CASE r.target \in Newcomers
    <3>1. Shown(r.target) = "pending" /\ Shown(r.target)' = "admitted"
      <4>1. requests[r.target] \in Request
        BY <1>1 DEF TypeOK
      <4> QED
        BY <1>1, <1>2, <1>6, <4>1 DEF Shown, Row, TypeOK, Request
    <3>2. A!Admits(r.target)
      BY <2>1, <2>2, <2>3, <2>4, <3>1 DEF A!Admits, Ids, Newcomers
    <3> QED
      BY <2>4, <3>2 DEF A!SeatsNext
  <2>5. CASE r.target \notin Newcomers
    BY <1>1, <2>1, <2>2, <2>3, <2>5 DEF A!seatVars, Newcomers, Ids
  <2> QED
    BY <2>4, <2>5
<1>7. CASE r.action \in {"revoke", "leave"}
  <2>1. r.target \in Ids(team) /\ (r.action = "leave" => r.signer = r.target)
    BY <1>2, <1>7 DEF Legal
  <2>2. Ids(team') = Ids(team) \ {r.target}
    BY <1>3, <1>7 DEF Removed
  <2>3. kept' = kept \/ (r.target \in kept /\ kept' = kept \ {r.target})
    BY <1>1, <1>4, <2>1 DEF Newcomers
  <2>4. UNCHANGED [u \in Newcomers |-> Shown(u)]
    BY <1>5, <1>7
  <2>5. CASE r.target \in Newcomers
    <3>1. A!Parts(r.target) \/ A!Leaves(r.target)
      BY <2>1, <2>2, <2>3, <2>4, <2>5 DEF A!Parts, A!Leaves, Newcomers, Ids
    <3> QED
      BY <2>5, <3>1 DEF A!SeatsNext
  <2>6. CASE r.target \notin Newcomers
    BY <1>1, <2>2, <2>3, <2>4, <2>6 DEF A!seatVars, Newcomers, Ids
  <2> QED
    BY <2>5, <2>6
<1>8. CASE r.action \notin {"admit", "revoke", "leave"}
  <2>1. kept' = kept
    BY <1>1, <1>4, <1>8 DEF Newcomers
  <2>2. Ids(team') = Ids(team)
    BY <1>3, <1>8 DEF Removed
  <2> QED
    BY <1>5, <1>8, <2>1, <2>2 DEF A!seatVars, Ids
<1> QED
  BY <1>6, <1>7, <1>8

(* A person gets into a team by a request that waits and is decided once,  *)
(* learns of it as a member, and its daemon forgets it only by leaving:    *)
(* what JoinFlow takes from Membership is what Membership gives.           *)
THEOREM MembershipKeepsAdmissions == Spec => AdmissionsAreKept
<1>1. Init => A!SeatsInit
  <2> SUFFICES ASSUME Init PROVE A!SeatsInit
    OBVIOUS
  <2>1. Ids(team) = {Founder}
    BY DEF Init, NewTeam, Ids
  <2>2. \A u \in Newcomers : saved[u] = NONE /\ Shown(u) = "none"
    BY DEF Init, Newcomers, Shown, Row
  <2> QED
    BY <2>1, <2>2 DEF A!SeatsInit
<1>2. IInv /\ IInv' /\ CallersKeepCopies /\ [Next]_vars => [A!SeatsNext]_(A!seatVars)
  <2> SUFFICES ASSUME IInv, IInv', CallersKeepCopies, [Next]_vars
      PROVE [A!SeatsNext]_(A!seatVars)
    OBVIOUS
  <2>1. TypeOK
    BY DEF IInv
  <2>2. ASSUME NEW call \in calls, Commit(call) PROVE [A!SeatsNext]_(A!seatVars)
    BY <2>1, <2>2, CommitMovesSeats DEF TypeOK
  <2> QED
    BY <2>1, <2>2, RequestMovesSeats, CopyMovesSeats DEF Next
<1> QED
  BY <1>1, <1>2, Invariance, CallersAlwaysKeepCopies, PTL
     DEF Spec, AdmissionsAreKept, A!AdmissionsSpec

(* Membership keeps both promises the other components rest on.            *)
THEOREM MembershipServesAsPromised == Spec => ServesAsPromised
BY MembershipKeepsRosters, MembershipKeepsAdmissions, PTL DEF ServesAsPromised
=============================================================================
