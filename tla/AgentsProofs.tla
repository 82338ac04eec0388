----------------------------- MODULE AgentsProofs ----------------------------
(***************************************************************************)
(* Proofs about the agents of one person: JoinFlow and Agents, for every   *)
(* set of teams, directories and bindings, and every number of agents; and *)
(* Unread, for every number of events and of starts of the watcher.        *)
(***************************************************************************)
EXTENDS Agents, Unread, WellFoundedInduction, TLAPS

----------------------------------------------------------------------------
(* Joining                                                                 *)

(* Who is a member was admitted, and the record of that stays.             *)
MembersWereAdmitted == \A t \in member : request[t] = "admitted"

JoinInv == JoinTypeOK /\ MembersWereAdmitted /\ NobodyIsForgotten

LEMMA JoinInitInv == JoinInit => JoinInv
BY DEF JoinInit, SeatsInit, JoinInv, JoinTypeOK, MembersWereAdmitted, NobodyIsForgotten,
       RequestStates, Stages, Idle

LEMMA JoinStepInv == JoinInv /\ [JoinNext]_joinVars => JoinInv'
<1> SUFFICES ASSUME JoinInv, [JoinNext]_joinVars PROVE JoinInv'
  OBVIOUS
<1> USE DEF JoinInv, JoinTypeOK, MembersWereAdmitted, NobodyIsForgotten,
            RequestStates, Stages, Idle, authority, rows, round
<1>1. ASSUME NEW t \in Teams, Admit(t) \/ RejectOrExpire(t) PROVE JoinInv'
  BY <1>1 DEF Admit, RejectOrExpire, Admits, Refuses
<1>2. ASSUME NEW t \in Teams, Revoke(t) PROVE JoinInv'
  BY <1>2 DEF Revoke, Parts
<1>3. ASSUME NEW t \in Teams, Join(t) \/ JoinArrives(t) PROVE JoinInv'
  BY <1>3 DEF Join, JoinArrives, Asks
<1>4. ASSUME NEW t \in Teams, JoinAdmitted(t) PROVE JoinInv'
  BY <1>4 DEF JoinAdmitted
<1>5. ASSUME NEW t \in Teams, JoinUnsent(t) \/ JoinRefused(t) PROVE JoinInv'
  BY <1>5 DEF JoinUnsent, JoinRefused
<1>6. ASSUME NEW t \in Teams, Leave(t) \/ LeaveCut(t) PROVE JoinInv'
  BY <1>6 DEF Leave, LeaveCut, Leaves, Parts
<1>7. ASSUME NEW t \in Teams, CheckUnknown(t) \/ CheckWaiting(t) \/ CheckFails(t)
      PROVE JoinInv'
  BY <1>7 DEF CheckUnknown, CheckWaiting, CheckFails, Checking, Visited, Aborted
<1>8. ASSUME NEW t \in Teams, Learn(t) PROVE JoinInv'
  BY <1>8 DEF Learn, Learns, Checking, Visited
<1>9. ASSUME NEW t \in Teams, LearnCut(t) PROVE JoinInv'
  BY <1>9 DEF LearnCut, Learns, Checking, Aborted
<1>10. ASSUME NEW t \in Teams, SyncTeam(t) PROVE JoinInv'
  BY <1>10 DEF SyncTeam
<1>11. ASSUME LookupDone \/ SyncStart \/ JoinsDone \/ SyncEnd \/ Restart PROVE JoinInv'
  BY <1>11 DEF LookupDone, SyncStart, JoinsDone, SyncEnd, Restart, Aborted
<1>12. ASSUME UNCHANGED joinVars PROVE JoinInv'
  BY <1>12 DEF joinVars
<1>13. QED
  BY <1>1, <1>2, <1>3, <1>4, <1>5, <1>6, <1>7, <1>8, <1>9, <1>10, <1>11, <1>12
     DEF JoinNext, JoinStep

(* No lost answer, restart or departure makes the daemon forget a request  *)
(* the authority holds, or a membership, but a join under a taken name.    *)
THEOREM NobodyForgotten == JoinSpec => []NobodyIsForgotten
<1>1. JoinInv => NobodyIsForgotten
  BY DEF JoinInv
<1>2. QED
  BY JoinInitInv, JoinStepInv, <1>1, PTL DEF JoinSpec

----------------------------------------------------------------------------
(* Agents: the commands over agents leave the joins alone                  *)

LEMMA AgentStepJoins == Next => [JoinNext]_joinVars
<1> SUFFICES ASSUME Next PROVE [JoinNext]_joinVars
  OBVIOUS
<1>1. ASSUME NEW next, Command(next) PROVE UNCHANGED joinVars
  BY <1>1 DEF Command
<1>2. ASSUME NEW x \in Labels, Publish(x) \/ Unpublish(x) \/ Unenroll(x) \/ Retire(x)
      PROVE UNCHANGED joinVars
  BY <1>1, <1>2 DEF Publish, Unpublish, Unenroll, Retire
<1>3. ASSUME NEW x \in Labels, NEW d \in Dirs, Attach(x, d) \/ Adopt(x, d)
      PROVE UNCHANGED joinVars
  BY <1>1, <1>3 DEF Attach, Adopt
<1>4. ASSUME NEW x \in Labels, NEW t \in Teams, Enroll(x, t) PROVE UNCHANGED joinVars
  BY <1>1, <1>4 DEF Enroll
<1>5. ASSUME NEW t \in Teams, NEW d \in Dirs, JoinAgain(t, d) PROVE UNCHANGED joinVars
  BY <1>1, <1>5 DEF JoinAgain
<1>6. ASSUME NEW t \in Teams, NEW d \in Dirs, JoinFrom(t, d) PROVE JoinNext
  BY <1>6 DEF JoinFrom, JoinNext, JoinStep
<1>7. ASSUME NEW t \in Teams,
             LearnAgents(t) \/ LearnCutAgents(t) \/ LeaveAgents(t)
               \/ LeaveCutAgents(t) \/ JoinRefusedFrom(t)
      PROVE JoinNext
  BY <1>7 DEF LearnAgents, LearnCutAgents, LeaveAgents, LeaveCutAgents,
              JoinRefusedFrom, JoinNext, JoinStep
<1>8. ASSUME RoundStep \/ \E t \in Teams : Elsewhere(t) PROVE JoinNext
  BY <1>8 DEF RoundStep, Elsewhere, JoinNext, JoinStep
<1>9. QED
  BY <1>2, <1>3, <1>4, <1>5, <1>6, <1>7, <1>8 DEF Next

(* The agents are kept over the joins and change none of them: what holds  *)
(* of JoinFlow holds of Agents.                                            *)
THEOREM AgentsFollowJoins == Spec => JoinSpec
<1>1. Init => JoinInit
  BY DEF Init
<1>2. [Next]_vars => [JoinNext]_joinVars
  BY AgentStepJoins DEF vars
<1>3. QED
  BY <1>1, <1>2, PTL DEF Spec, JoinSpec

(* What JoinFlow's authorities do with the person, and what the daemon     *)
(* learns of it, are the steps that Membership implements.                 *)
THEOREM JoinsFollowAdmissions == JoinSpec => AdmissionsSpec
<1>1. JoinInit => SeatsInit
  BY DEF JoinInit
<1>2. ASSUME [JoinNext]_joinVars PROVE [SeatsNext]_seatVars
  <2>1. ASSUME NEW t \in Teams, Admit(t) \/ Revoke(t) \/ JoinArrives(t) PROVE SeatsNext
    BY <2>1 DEF Admit, Revoke, JoinArrives, SeatsNext
  <2>2. ASSUME NEW t \in Teams, RejectOrExpire(t) PROVE SeatsNext
    BY <2>2 DEF RejectOrExpire, SeatsNext
  <2>3. ASSUME NEW t \in Teams, Learn(t) \/ LearnCut(t) \/ Leave(t) \/ LeaveCut(t)
        PROVE SeatsNext
    BY <2>3 DEF Learn, LearnCut, Leave, LeaveCut, SeatsNext
  <2>4. ASSUME NEW t \in Teams, Join(t) PROVE [SeatsNext]_seatVars
    BY <2>4 DEF Join, SeatsNext, seatVars, authority
  <2>5. ASSUME NEW t \in Teams,
               JoinAdmitted(t) \/ JoinUnsent(t) \/ JoinRefused(t)
                 \/ CheckUnknown(t) \/ CheckWaiting(t) \/ CheckFails(t) \/ SyncTeam(t)
        PROVE UNCHANGED seatVars
    BY <2>5 DEF JoinAdmitted, JoinUnsent, JoinRefused, CheckUnknown, CheckWaiting,
                CheckFails, SyncTeam, seatVars, authority, rows
  <2>6. ASSUME \/ LookupDone \/ SyncStart \/ JoinsDone \/ SyncEnd \/ Restart
               \/ UNCHANGED joinVars
        PROVE UNCHANGED seatVars
    BY <2>6 DEF LookupDone, SyncStart, JoinsDone, SyncEnd, Restart, joinVars,
                seatVars, authority, rows
  <2> QED
    BY <1>2, <2>1, <2>2, <2>3, <2>4, <2>5, <2>6 DEF JoinNext, JoinStep
<1> QED
  BY <1>1, <1>2, PTL DEF JoinSpec, AdmissionsSpec

----------------------------------------------------------------------------
(* Agents: where an agent can be                                           *)

(* One agent: of a team of ms or of none, and in a team if it is seen.     *)
Settled(a, ms) ==
  a = NONE \/ (a \in Agent /\ a.team \in ms \cup {NONE}
                 /\ (a.published => a.team # NONE /\ ~a.retired))

AllSettled(as, ms) ==
  as = [x \in Labels |-> as[x]] /\ \A x \in Labels : Settled(as[x], ms)

AgentsInv ==
  /\ mine \subseteq Teams
  /\ from \in [Teams -> Dirs \cup {NONE}]
  /\ AllSettled(agents, mine)

LEMMA InSettled ==
  ASSUME NEW ms \in SUBSET Teams, NEW t \in ms, NEW a, Settled(a, ms), a # NONE
  PROVE  /\ Settled(In(t, a), ms)
         /\ ~a.retired => Settled([a EXCEPT !.team = t, !.published = TRUE], ms)
BY AgentsAssumption DEF Settled, In, Agent

LEMMA OutSettled ==
  ASSUME NEW ms \in SUBSET Teams, NEW qs \in SUBSET ms,
         NEW a, Settled(a, ms), a # NONE
  PROVE  /\ Settled(Out(a), qs)
         /\ Settled([Out(a) EXCEPT !.retired = TRUE], qs)
         /\ Settled([a EXCEPT !.published = FALSE], ms)
         /\ a.team \in qs \cup {NONE} => Settled(a, qs)
BY AgentsAssumption DEF Settled, Out, Agent

LEMMA MoreTeamsSettled ==
  ASSUME NEW ms, NEW ps, ms \subseteq ps, NEW as, AllSettled(as, ms)
  PROVE  AllSettled(as, ps)
BY DEF AllSettled, Settled

(* publish_path and enroll_path into a team of ms.                         *)
LEMMA BroughtSettled ==
  ASSUME NEW ms \in SUBSET Teams, NEW t \in ms, NEW d, AllSettled(agents, ms)
  PROVE  AllSettled(Brought(t, d), ms) /\ AllSettled(EnrolledPath(t, d), ms)
<1>1. \A x \in Labels : Active(x) =>
        /\ Settled(In(t, agents[x]), ms)
        /\ Settled([agents[x] EXCEPT !.team = t, !.published = TRUE], ms)
  BY InSettled DEF AllSettled, Active, Known
<1>2. QED
  BY <1>1 DEF AllSettled, Brought, EnrolledPath, Each

(* enroll_workspace after it.                                              *)
LEMMA EnrolledSettled ==
  ASSUME NEW ms \in SUBSET Teams, NEW t \in ms, NEW m, NEW xs, NEW next,
         AllSettled(next, ms)
  PROVE  AllSettled(Enrolled(t, m, xs, next), ms)
<1>1. \A x \in Labels : Joinable(x, next) => Settled(In(t, next[x]), ms)
  BY InSettled DEF AllSettled, Joinable
<1>2. QED
  BY <1>1 DEF AllSettled, Enrolled

LEMMA InstalledSettled ==
  ASSUME NEW t \in Teams, NEW sets, mine' \subseteq Teams, t \in mine',
         AllSettled(agents, mine'), NEW next \in Installed(t, sets)
  PROVE  AllSettled(next, mine')
<1>1. PICK m \in Matchings(mine'), xs \in sets :
        next = Enrolled(t, m, xs, Brought(t, from[t]))
  BY DEF Installed
<1>2. AllSettled(Brought(t, from[t]), mine')
  BY BroughtSettled
<1>3. QED
  BY <1>1, <1>2, EnrolledSettled

LEMMA ReleasedSettled ==
  ASSUME AgentsInv, NEW t \in Teams
  PROVE  AllSettled(Released(t), mine \ {t}) /\ AllSettled(Released(t), mine)
<1>1. \A x \in Labels : Known(x) /\ agents[x].team = t =>
        Settled(Out(agents[x]), mine \ {t})
  BY OutSettled DEF AgentsInv, AllSettled, Known
<1>2. \A x \in Labels : ~(Known(x) /\ agents[x].team = t) =>
        Settled(agents[x], mine \ {t})
  BY DEF AgentsInv, AllSettled, Settled, Known
<1>3. AllSettled(Released(t), mine \ {t})
  BY <1>1, <1>2 DEF AllSettled, Released, Each
<1>4. QED
  BY <1>3, MoreTeamsSettled

----------------------------------------------------------------------------
(* Every step keeps every agent settled                                    *)

LEMMA AgentsInit == Init => AgentsInv
BY DEF Init, JoinInit, SeatsInit, AgentsInv, AllSettled, Settled

(* A command over agents leaves the teams as they are.                     *)
LEMMA CommandInv ==
  ASSUME AgentsInv, NEW next, AllSettled(next, mine), Command(next)
  PROVE  AgentsInv'
BY DEF Command, AgentsInv, AllSettled, Settled, joinVars, rows

LEMMA ReplaceSettled ==
  ASSUME AgentsInv, NEW x \in Labels, NEW a, Settled(a, mine)
  PROVE  AllSettled([agents EXCEPT ![x] = a], mine)
BY DEF AgentsInv, AllSettled

LEMMA AttachInv ==
  ASSUME AgentsInv, NEW x \in Labels, NEW d \in Dirs, Attach(x, d)
  PROVE  AgentsInv'
<1> DEFINE b == Attached(x, d)
<1>1. Settled(b, mine) /\ b \in Agent /\ ~b.retired
  BY AgentsAssumption DEF AgentsInv, AllSettled, Settled, Attached, Known, Agent
<1> HIDE DEF b
<1>2. CASE Command([agents EXCEPT ![x] = b])
  <2>1. AllSettled([agents EXCEPT ![x] = b], mine)
    BY <1>1, ReplaceSettled
  <2>2. QED
    BY <1>2, <2>1, CommandInv
<1>3. ASSUME NEW m \in Matchings(mine), NEW publish \in BOOLEAN, m[d] # NONE,
             Command([agents EXCEPT ![x] =
               [b EXCEPT !.team = m[d], !.published = @ \/ publish]])
      PROVE AgentsInv'
  <2> DEFINE p == b.published \/ publish
             a == [b EXCEPT !.team = m[d], !.published = p]
  <2>0. p \in BOOLEAN
    OBVIOUS
  <2>1. m[d] \in mine /\ m[d] \in Teams /\ m[d] # NONE
    BY <1>3 DEF Matchings, Bound, AgentsInv
  <2> HIDE DEF p
  <2>2. Settled(a, mine)
    BY <1>1, <2>0, <2>1 DEF Settled, Agent
  <2>3. AllSettled([agents EXCEPT ![x] = a], mine)
    BY <2>2, ReplaceSettled
  <2>4. QED
    BY <1>3, <2>3, CommandInv DEF p
<1>4. QED
  BY <1>2, <1>3 DEF Attach, b

LEMMA PublishInv ==
  ASSUME AgentsInv, NEW x \in Labels, Publish(x)
  PROVE  AgentsInv'
<1>1. PICK t \in IF agents[x].team = NONE THEN Default(agents[x].at) ELSE {agents[x].team} :
        Command([agents EXCEPT ![x].team = t, ![x].published = TRUE])
  BY DEF Publish
<1>2. Settled(agents[x], mine) /\ agents[x] # NONE /\ ~agents[x].retired
  BY DEF Publish, Active, Known, AgentsInv, AllSettled
<1>3. t \in mine
  BY <1>1, <1>2 DEF Default, Bound, Settled
<1>4. Settled([agents[x] EXCEPT !.team = t, !.published = TRUE], mine)
  BY <1>2, <1>3, InSettled DEF AgentsInv
<1>5. [agents EXCEPT ![x].team = t, ![x].published = TRUE]
        = [agents EXCEPT ![x] = [agents[x] EXCEPT !.team = t, !.published = TRUE]]
  BY DEF AgentsInv, AllSettled
<1>6. AllSettled([agents EXCEPT ![x] = [agents[x] EXCEPT !.team = t, !.published = TRUE]], mine)
  BY <1>4, ReplaceSettled
<1>7. QED
  BY <1>1, <1>5, <1>6, CommandInv

LEMMA OneAgentInv ==
  ASSUME AgentsInv, NEW x \in Labels,
         Unpublish(x) \/ Unenroll(x) \/ Retire(x) \/ \E t \in Teams : Enroll(x, t)
  PROVE  AgentsInv'
<1>1. Settled(agents[x], mine) /\ agents[x] # NONE
  BY DEF Unpublish, Unenroll, Retire, Enroll, Active, Known, AgentsInv, AllSettled
<1>2. /\ Settled(Out(agents[x]), mine)
      /\ Settled([Out(agents[x]) EXCEPT !.retired = TRUE], mine)
      /\ Settled([agents[x] EXCEPT !.published = FALSE], mine)
  BY <1>1, OutSettled DEF AgentsInv
<1>3. CASE Unpublish(x)
  <2>1. AllSettled([agents EXCEPT ![x] = [agents[x] EXCEPT !.published = FALSE]], mine)
    BY <1>2, ReplaceSettled
  <2>2. [agents EXCEPT ![x].published = FALSE]
          = [agents EXCEPT ![x] = [agents[x] EXCEPT !.published = FALSE]]
    BY DEF AgentsInv, AllSettled
  <2>3. QED
    BY <1>3, <2>1, <2>2, CommandInv DEF Unpublish
<1>4. CASE Unenroll(x)
  <2>1. AllSettled(Each({x}, Out), mine)
    BY <1>2 DEF AgentsInv, AllSettled, Each
  <2>2. QED
    BY <1>4, <2>1, CommandInv DEF Unenroll
<1>5. CASE Retire(x)
  <2>1. AllSettled(Each({x}, LAMBDA a : [Out(a) EXCEPT !.retired = TRUE]), mine)
    BY <1>2 DEF AgentsInv, AllSettled, Each
  <2>2. QED
    BY <1>5, <2>1, CommandInv DEF Retire
<1>6. ASSUME NEW t \in Teams, Enroll(x, t) PROVE AgentsInv'
  <2>1. Settled(In(t, agents[x]), mine)
    BY <1>1, <1>6, InSettled DEF AgentsInv, Enroll
  <2>2. AllSettled(Each({x}, LAMBDA a : In(t, a)), mine)
    BY <2>1 DEF AgentsInv, AllSettled, Each
  <2>3. QED
    BY <1>6, <2>2, CommandInv DEF Enroll
<1>7. QED
  BY <1>3, <1>4, <1>5, <1>6

LEMMA AdoptInv ==
  ASSUME AgentsInv, NEW x \in Labels, NEW d \in Dirs, Adopt(x, d)
  PROVE  AgentsInv'
<1> DEFINE a == [agents[x] EXCEPT !.at = d, !.retired = FALSE]
           next == [y \in Labels |->
                      IF y = x THEN a ELSE IF y \in Place(d) THEN NONE ELSE agents[y]]
<1>1. Settled(a, mine)
  BY DEF Adopt, Known, AgentsInv, AllSettled, Settled, Agent
<1>2. AllSettled(next, mine)
  BY <1>1 DEF AgentsInv, AllSettled, Settled
<1>3. QED
  BY <1>2, CommandInv DEF Adopt

(* The steps of joining and leaving.                                       *)
LEMMA MembershipStepInv ==
  ASSUME AgentsInv, NEW t \in Teams,
         LearnAgents(t) \/ LearnCutAgents(t) \/ LeaveAgents(t)
           \/ LeaveCutAgents(t) \/ JoinRefusedFrom(t)
  PROVE  AgentsInv'
<1> USE DEF AgentsInv
<1>1. ASSUME mine' \subseteq Teams, AllSettled(agents', mine'),
             from' = from \/ Forgotten(t)
      PROVE  AgentsInv'
  BY <1>1 DEF Forgotten, AllSettled, Settled
<1>2. ASSUME mine' = mine \cup {t}, from' = from, agents' = agents
      PROVE AgentsInv'
  BY <1>1, <1>2, MoreTeamsSettled
<1>3. ASSUME mine' = mine \cup {t}, from' = from, NEW sets, agents' \in Installed(t, sets)
      PROVE AgentsInv'
  <2>1. AllSettled(agents, mine')
    BY <1>3, MoreTeamsSettled
  <2>2. AllSettled(agents', mine')
    BY <1>3, <2>1, InstalledSettled
  <2>3. QED
    BY <1>1, <1>3, <2>2
<1>4. CASE LearnAgents(t)
  BY <1>3, <1>4 DEF LearnAgents, Learn, Learns
<1>5. CASE LearnCutAgents(t)
  <2>1. mine' = mine \cup {t} /\ from' = from
    BY <1>5 DEF LearnCutAgents, LearnCut, Learns
  <2>2. CASE agents' = agents
    BY <1>2, <2>1, <2>2
  <2>3. CASE agents' = EnrolledPath(t, from[t])
    <3>1. AllSettled(agents, mine')
      BY <2>1, MoreTeamsSettled
    <3>2. AllSettled(EnrolledPath(t, from[t]), mine')
      BY <2>1, <3>1, BroughtSettled
    <3>3. QED
      BY <1>1, <2>1, <2>3, <3>2
  <2>4. CASE agents' \in Installed(t, SUBSET Labels)
    BY <1>3, <2>1, <2>4
  <2>5. QED
    BY <1>5, <2>2, <2>3, <2>4 DEF LearnCutAgents
<1>6. CASE LeaveAgents(t)
  <2>1. mine' = mine \ {t} /\ agents' = Released(t) /\ Forgotten(t)
    BY <1>6 DEF LeaveAgents, Leave, Leaves
  <2>2. QED
    BY <1>1, <2>1, ReleasedSettled
<1>7. CASE LeaveCutAgents(t)
  <2>1. mine' = mine /\ agents' \in {agents, Released(t)} /\ from' = from
    BY <1>7 DEF LeaveCutAgents, LeaveCut, Parts
  <2>2. QED
    BY <1>1, <2>1, ReleasedSettled
<1>8. CASE JoinRefusedFrom(t)
  BY <1>1, <1>8 DEF JoinRefusedFrom, JoinRefused
<1>9. QED
  BY <1>4, <1>5, <1>6, <1>7, <1>8

LEMMA AgentsStep == AgentsInv /\ [Next]_vars => AgentsInv'
<1> SUFFICES ASSUME AgentsInv, [Next]_vars PROVE AgentsInv'
  OBVIOUS
<1>1. ASSUME NEW t \in Teams, NEW d \in Dirs, JoinAgain(t, d) PROVE AgentsInv'
  BY <1>1, BroughtSettled, CommandInv DEF JoinAgain, AgentsInv
<1>2. ASSUME NEW t \in Teams, NEW d \in Dirs, JoinFrom(t, d) PROVE AgentsInv'
  <2>1. mine' = mine /\ agents' = agents /\ from' = [from EXCEPT ![t] = d]
    BY <1>2 DEF JoinFrom, Join, JoinAdmitted, JoinUnsent
  <2>2. QED
    BY <2>1 DEF AgentsInv, AllSettled, Settled
<1>3. ASSUME NEW t \in Teams, Elsewhere(t), UNCHANGED agentVars PROVE AgentsInv'
  <2>1. mine' = mine
    BY <1>3 DEF Elsewhere, JoinArrives, Asks, Admit, Admits, RejectOrExpire, Refuses, Revoke, Parts, CheckUnknown,
                CheckWaiting, CheckFails, SyncTeam, rows
  <2>2. QED
    BY <1>3, <2>1 DEF agentVars, AgentsInv, AllSettled, Settled
<1>4. ASSUME RoundStep, UNCHANGED agentVars PROVE AgentsInv'
  <2>1. mine' = mine
    BY <1>4 DEF RoundStep, LookupDone, SyncStart, JoinsDone, SyncEnd, Restart, rows
  <2>2. QED
    BY <1>4, <2>1 DEF agentVars, AgentsInv, AllSettled, Settled
<1>5. ASSUME UNCHANGED vars PROVE AgentsInv'
  BY <1>5 DEF vars, agentVars, joinVars, rows, AgentsInv, AllSettled, Settled
<1>6. QED
  BY <1>1, <1>2, <1>3, <1>4, <1>5, AttachInv, PublishInv, OneAgentInv, AdoptInv,
     MembershipStepInv DEF Next

LEMMA AgentsInvariance == Spec => []AgentsInv
BY AgentsInit, AgentsStep, PTL DEF Spec

(* No agent is ever in a team the daemon does not have.                    *)
THEOREM OnlyMyTeams == Spec => []OnlyInMyTeams
<1>1. AgentsInv => OnlyInMyTeams
  BY DEF AgentsInv, AllSettled, Settled, OnlyInMyTeams, Known
<1>2. QED
  BY AgentsInvariance, <1>1, PTL

(* What teammates see takes part in a team and is not retired, whatever    *)
(* commands, departures and cut-short syncs came before.                   *)
THEOREM VisibleAlwaysTakesPart == Spec => []VisibleTakesPart
<1>1. AgentsInv => VisibleTakesPart
  BY DEF AgentsInv, AllSettled, Settled, VisibleTakesPart, Known
<1>2. QED
  BY AgentsInvariance, <1>1, PTL

----------------------------------------------------------------------------
(* Who shows an agent, and what a sync leaves alone                        *)

(* install_team for t: outside the directory that asked, an agent is at    *)
(* most enrolled, and only if it took part in nothing.                     *)
LEMMA InstalledElsewhere ==
  ASSUME AllSettled(agents, mine'), NEW t \in Teams, t \in mine', NEW sets,
         NEW next \in Installed(t, sets), NEW x \in Labels
  PROVE  /\ ~Known(x) => next[x] = NONE
         /\ Known(x) => next[x].at = agents[x].at
         /\ Known(x) /\ agents[x].at # from[t] =>
              /\ next[x].published = agents[x].published
              /\ agents[x].team # NONE => next[x] = agents[x]
<1> DEFINE first == Brought(t, from[t])
<1>1. PICK m \in Matchings(mine'), xs \in sets : next = Enrolled(t, m, xs, first)
  BY DEF Installed
<1>2. first[x] = IF Active(x) /\ agents[x].at = from[t]
                   THEN [agents[x] EXCEPT !.team = t, !.published = TRUE]
                   ELSE agents[x]
  BY DEF Brought, Each, Place, Active
<1> HIDE DEF first
<1>3. next[x] = IF x \in xs /\ Joinable(x, first) /\ m[first[x].at] = t
                  THEN [first[x] EXCEPT !.team = t] ELSE first[x]
  BY <1>1 DEF Enrolled, In
<1>4. Known(x) => agents[x] \in Agent
  BY DEF AllSettled, Settled, Known
<1>5. CASE ~Known(x)
  BY <1>2, <1>3, <1>5 DEF Known, Active, Joinable
<1>6. CASE Known(x)
  BY <1>2, <1>3, <1>4, <1>6 DEF Joinable, Agent
<1>7. QED
  BY <1>5, <1>6

(* publish_path and enroll_path touch the agents of one directory.         *)
LEMMA BroughtElsewhere ==
  ASSUME AllSettled(agents, mine), NEW t \in Teams, NEW d, NEW x \in Labels
  PROVE  /\ ~(Active(x) /\ agents[x].at = d) => Brought(t, d)[x] = agents[x]
         /\ Known(x) => EnrolledPath(t, d)[x].at = agents[x].at
         /\ Known(x) => EnrolledPath(t, d)[x].published = agents[x].published
         /\ ~(Active(x) /\ agents[x].at = d) => EnrolledPath(t, d)[x] = agents[x]
<1>1. Known(x) => agents[x] \in Agent
  BY DEF AllSettled, Settled, Known
<1>2. QED
  BY <1>1 DEF Brought, EnrolledPath, Each, Place, Active, In, Agent

(* Leaving hides the agents of the team.                                   *)
LEMMA ReleasedHides ==
  ASSUME AllSettled(agents, mine), NEW t \in Teams, NEW x \in Labels, Known(x),
         Released(t)[x].published
  PROVE  Released(t)[x] = agents[x]
<1>1. agents[x] \in Agent
  BY DEF AllSettled, Settled, Known
<1>2. QED
  BY <1>1 DEF Released, Each, Out, Agent

LEMMA AttachShows ==
  ASSUME AgentsInv, NEW x \in Labels, NEW y \in Labels, NEW d \in Dirs, Attach(y, d),
         Shown(x)', ~Shown(x)
  PROVE  Related(agents'[x].at)
<1> DEFINE b == Attached(y, d)
<1>0. agents = [z \in Labels |-> agents[z]]
  BY DEF AgentsInv, AllSettled
<1>1. b.at = d /\ (Known(y) => b.published = agents[y].published) /\ b \in Agent
      /\ (~Known(y) => ~b.published)
  <2>1. CASE Known(y)
    <3>1. Place(d) # {}
      BY <2>1 DEF Attach, FreeLabel
    <3>2. agents[y].at = d /\ agents[y] \in Agent
      BY <2>1, <3>1 DEF Attach, Place, AgentsInv, AllSettled, Settled, Known
    <3>3. QED
      BY <2>1, <3>2 DEF Attached, Agent
  <2>2. CASE ~Known(y)
    BY <2>2 DEF Attached, Agent
  <2>3. QED
    BY <2>1, <2>2
<1> HIDE DEF b
<1>2. CASE Command([agents EXCEPT ![y] = b])
  <2>1. agents' = [agents EXCEPT ![y] = b]
    BY <1>2 DEF Command
  <2>2. QED
    BY <1>0, <1>1, <2>1 DEF Shown, Known
<1>3. ASSUME NEW m \in Matchings(mine), NEW publish \in BOOLEAN, m[d] # NONE,
             Command([agents EXCEPT ![y] =
               [b EXCEPT !.team = m[d], !.published = @ \/ publish]])
      PROVE Related(agents'[x].at)
  <2> DEFINE p == b.published \/ publish
  <2>1. agents' = [agents EXCEPT ![y] = [b EXCEPT !.team = m[d], !.published = p]]
    BY <1>3 DEF Command
  <2> HIDE DEF p
  <2>2. m[d] \in Bound(d, mine) /\ mine \subseteq Teams
    BY <1>3 DEF Matchings, AgentsInv
  <2>3. Related(d)
    BY <2>2 DEF Bound, Related
  <2>4. CASE x = y
    BY <1>0, <1>1, <2>1, <2>3, <2>4 DEF Agent
  <2>5. CASE x # y
    BY <1>0, <2>1, <2>5 DEF Shown, Known
  <2>6. QED
    BY <2>4, <2>5
<1>4. QED
  BY <1>2, <1>3 DEF Attach, b

(* Every other step shows an agent of the directory that asked, if any.    *)
LEMMA StepShows ==
  ASSUME AgentsInv, [Next]_vars, NEW x \in Labels
  PROVE  ShownByItsOwner(x)
<1> SUFFICES ASSUME Shown(x)', ~Shown(x)
    PROVE \/ Related(agents'[x].at) \/ Publish(x)
          \/ \E t \in Teams : JoinAgain(t, agents[x].at)
  BY DEF ShownByItsOwner
<1>0. /\ agents = [z \in Labels |-> agents[z]] /\ mine \subseteq Teams
      /\ AllSettled(agents, mine)
      /\ \A z \in Labels : Known(z) => agents[z] \in Agent
  BY DEF AgentsInv, AllSettled, Settled, Known
<1>1. agents'[x] # agents[x] /\ agents'[x] # NONE /\ agents'[x].published
      /\ (Known(x) => ~agents[x].published)
  BY DEF Shown, Known
<1>2. ASSUME NEW y \in Labels, Publish(y) PROVE y = x
  BY <1>0, <1>1, <1>2 DEF Publish, Command
<1>3. ASSUME NEW y \in Labels, Unpublish(y) \/ Unenroll(y) \/ Retire(y) PROVE FALSE
  BY <1>0, <1>1, <1>3 DEF Unpublish, Unenroll, Retire, Command, Active, Known, Each, Out, Agent
<1>4. ASSUME NEW y \in Labels, NEW d \in Dirs, Attach(y, d) PROVE Related(agents'[x].at)
  BY <1>4, AttachShows
<1>5. ASSUME NEW y \in Labels, NEW d \in Dirs, Adopt(y, d) PROVE FALSE
  BY <1>0, <1>1, <1>5 DEF Adopt, Command, Known, Agent
<1>6. ASSUME NEW y \in Labels, NEW t \in Teams, Enroll(y, t) PROVE FALSE
  BY <1>0, <1>1, <1>6 DEF Enroll, Command, Active, Known, Each, In, Agent
<1>7. ASSUME NEW t \in Teams, NEW d \in Dirs, JoinAgain(t, d)
      PROVE JoinAgain(t, agents[x].at)
  BY <1>0, <1>1, <1>7, BroughtElsewhere DEF JoinAgain, Command
<1>8. ASSUME NEW t \in Teams, mine' = mine \cup {t}, NEW sets, agents' \in Installed(t, sets)
      PROVE Related(agents'[x].at)
  <2>1. AllSettled(agents, mine')
    BY <1>0, <1>8, MoreTeamsSettled
  <2>2. /\ ~Known(x) => agents'[x] = NONE
        /\ Known(x) => agents'[x].at = agents[x].at
        /\ Known(x) /\ agents[x].at # from[t] => agents'[x].published = agents[x].published
    BY <1>8, <2>1, InstalledElsewhere
  <2>3. QED
    BY <1>1, <2>2 DEF Related
<1>9. ASSUME NEW t \in Teams, LearnAgents(t) \/ LearnCutAgents(t) PROVE Related(agents'[x].at)
  <2>1. mine' = mine \cup {t}
    BY <1>9 DEF LearnAgents, LearnCutAgents, Learn, LearnCut, Learns
  <2>2. \/ agents' = EnrolledPath(t, from[t])
        \/ agents' \in Installed(t, {{}, Labels}) \/ agents' \in Installed(t, SUBSET Labels)
    BY <1>1, <1>9 DEF LearnAgents, LearnCutAgents
  <2>3. agents' # EnrolledPath(t, from[t])
    BY <1>0, <1>1, BroughtElsewhere DEF Active
  <2>4. QED
    BY <1>8, <2>1, <2>2, <2>3
<1>10. ASSUME NEW t \in Teams, LeaveAgents(t) \/ LeaveCutAgents(t) PROVE FALSE
  <2>1. agents' = Released(t)
    BY <1>1, <1>10 DEF LeaveAgents, LeaveCutAgents
  <2>2. CASE Known(x)
    BY <1>0, <1>1, <2>1, <2>2, ReleasedHides
  <2>3. CASE ~Known(x)
    BY <1>1, <2>1, <2>3 DEF Released, Each
  <2>4. QED
    BY <2>2, <2>3
<1>11. agents' # agents
  BY <1>1
<1>12. QED
  BY <1>2, <1>3, <1>4, <1>5, <1>6, <1>7, <1>9, <1>10, <1>11
     DEF Next, JoinFrom, JoinRefusedFrom, agentVars, vars

(* Outside related directories an agent becomes visible only by a command  *)
(* of its owner over it, or over its directory (attach, join_status).      *)
THEOREM NothingPublishesItself == Spec => NeverPublishesItself
<1>1. AgentsInv /\ [Next]_vars => \A x \in Labels : ShownByItsOwner(x)
  BY StepShows
<1>2. QED
  BY AgentsInvariance, <1>1, PTL DEF Spec, NeverPublishesItself

(* A round moves no agent from team to team and shows none, but in the     *)
(* directory that asked for the team it has just learned of.               *)
LEMMA RoundLeavesInPlace ==
  ASSUME AgentsInv, [Next]_vars, NEW x \in Labels
  PROVE  LeftInPlace(x)
<1> SUFFICES ASSUME ~Idle, Known(x), \A t \in todo \ todo' : from[t] # agents[x].at
    PROVE /\ agents'[x].published = agents[x].published
          /\ agents[x].team # NONE => agents'[x] = agents[x]
  BY DEF LeftInPlace
<1>0. mine \subseteq Teams /\ AllSettled(agents, mine)
  BY DEF AgentsInv
<1>1. ASSUME NEW next, Command(next) PROVE FALSE
  BY <1>1 DEF Command
<1>2. ASSUME NEW y \in Labels, Publish(y) \/ Unpublish(y) \/ Unenroll(y) \/ Retire(y)
      PROVE FALSE
  BY <1>1, <1>2 DEF Publish, Unpublish, Unenroll, Retire
<1>3. ASSUME NEW y \in Labels, NEW d \in Dirs, Attach(y, d) \/ Adopt(y, d) PROVE FALSE
  BY <1>1, <1>3 DEF Attach, Adopt
<1>4. ASSUME NEW y \in Labels, NEW t \in Teams, Enroll(y, t) PROVE FALSE
  BY <1>1, <1>4 DEF Enroll
<1>5. ASSUME NEW t \in Teams, NEW d \in Dirs, JoinAgain(t, d) PROVE FALSE
  BY <1>1, <1>5 DEF JoinAgain
<1>6. ASSUME NEW t \in Teams, LeaveAgents(t) \/ LeaveCutAgents(t) PROVE FALSE
  BY <1>6 DEF LeaveAgents, LeaveCutAgents, Leave, LeaveCut
<1>7. ASSUME NEW t \in Teams, mine' = mine \cup {t}, agents[x].at # from[t],
             NEW sets, agents' \in Installed(t, sets)
      PROVE /\ agents'[x].published = agents[x].published
            /\ agents[x].team # NONE => agents'[x] = agents[x]
  <2>1. AllSettled(agents, mine')
    BY <1>0, <1>7, MoreTeamsSettled
  <2>2. QED
    BY <1>7, <2>1, InstalledElsewhere
<1>8. ASSUME NEW t \in Teams, LearnAgents(t) \/ LearnCutAgents(t)
      PROVE /\ agents'[x].published = agents[x].published
            /\ agents[x].team # NONE => agents'[x] = agents[x]
  <2>1. mine' = mine \cup {t} /\ t \in todo /\ t \notin todo'
    BY <1>8 DEF LearnAgents, LearnCutAgents, Learn, LearnCut, Learns, Checking, Visited, Aborted
  <2>2. agents[x].at # from[t]
    BY <2>1
  <2>3. CASE agents' = agents
    BY <2>3
  <2>4. CASE agents' = EnrolledPath(t, from[t])
    BY <1>0, <2>2, <2>4, BroughtElsewhere
  <2>5. CASE \E sets : agents' \in Installed(t, sets)
    BY <1>7, <2>1, <2>2, <2>5
  <2>6. QED
    BY <1>8, <2>3, <2>4, <2>5 DEF LearnAgents, LearnCutAgents
<1>9. QED
  BY <1>2, <1>3, <1>4, <1>5, <1>6, <1>8
     DEF Next, JoinFrom, JoinRefusedFrom, agentVars, vars

(* What a sync does to the agents of other directories: at most enroll     *)
(* them, if they take part in nothing (join_status).                       *)
THEOREM SyncsRespectOwners == Spec => SyncRespectsOwner
<1>1. AgentsInv /\ [Next]_vars => \A x \in Labels : LeftInPlace(x)
  BY RoundLeavesInPlace
<1>2. QED
  BY AgentsInvariance, <1>1, PTL DEF Spec, SyncRespectsOwner

----------------------------------------------------------------------------
(* Types, with the directory each join and team came from                  *)

PathsKept ==
  /\ joining \cup mine \subseteq Teams
  /\ \A t \in joining \cup mine : from[t] \in Dirs

LEMMA PathsStep ==
  ASSUME JoinInv, AgentsInv, PathsKept, [Next]_vars
  PROVE  PathsKept'
<1> USE DEF PathsKept, AgentsInv
<1>1. ASSUME joining' = joining, mine' = mine, from' = from PROVE PathsKept'
  BY <1>1
<1>2. ASSUME NEW next, Command(next) PROVE PathsKept'
  BY <1>1, <1>2 DEF Command, joinVars, rows
<1>3. ASSUME NEW x \in Labels, Publish(x) \/ Unpublish(x) \/ Unenroll(x) \/ Retire(x)
      PROVE PathsKept'
  BY <1>2, <1>3 DEF Publish, Unpublish, Unenroll, Retire
<1>4. ASSUME NEW x \in Labels, NEW d \in Dirs, Attach(x, d) \/ Adopt(x, d)
      PROVE PathsKept'
  BY <1>2, <1>4 DEF Attach, Adopt
<1>5. ASSUME NEW x \in Labels, NEW t \in Teams, Enroll(x, t) PROVE PathsKept'
  BY <1>2, <1>5 DEF Enroll
<1>6. ASSUME NEW t \in Teams, NEW d \in Dirs, JoinAgain(t, d) PROVE PathsKept'
  BY <1>2, <1>6 DEF JoinAgain
<1>7. ASSUME NEW t \in Teams, NEW d \in Dirs, JoinFrom(t, d) PROVE PathsKept'
  BY <1>7 DEF JoinFrom, Join, JoinAdmitted, JoinUnsent
<1>8. ASSUME NEW t \in Teams, LearnAgents(t) \/ LearnCutAgents(t) PROVE PathsKept'
  <2>1. t \in joining
    BY <1>8 DEF LearnAgents, LearnCutAgents, Learn, LearnCut, Learns, Checking, JoinInv,
                JoinTypeOK, Idle
  <2>2. from' = from /\ mine' = mine \cup {t} /\ joining' \subseteq joining
    BY <1>8 DEF LearnAgents, LearnCutAgents, Learn, LearnCut, Learns
  <2>3. QED
    BY <2>1, <2>2
<1>9. ASSUME NEW t \in Teams, LeaveAgents(t) \/ LeaveCutAgents(t) \/ JoinRefusedFrom(t)
      PROVE PathsKept'
  BY <1>9 DEF LeaveAgents, LeaveCutAgents, JoinRefusedFrom, Leave, LeaveCut, Leaves, Parts,
              JoinRefused, Forgotten, rows
<1>10. ASSUME NEW t \in Teams, Elsewhere(t), UNCHANGED agentVars PROVE PathsKept'
  BY <1>1, <1>10 DEF Elsewhere, JoinArrives, Asks, Admit, Admits, RejectOrExpire, Refuses, Revoke, Parts, CheckUnknown,
                     CheckWaiting, CheckFails, SyncTeam, rows, agentVars
<1>11. ASSUME RoundStep, UNCHANGED agentVars PROVE PathsKept'
  BY <1>1, <1>11 DEF RoundStep, LookupDone, SyncStart, JoinsDone, SyncEnd, Restart,
                     rows, agentVars
<1>12. ASSUME UNCHANGED vars PROVE PathsKept'
  BY <1>1, <1>12 DEF vars, agentVars, joinVars, rows
<1>13. QED
  BY <1>3, <1>4, <1>5, <1>6, <1>7, <1>8, <1>9, <1>10, <1>11, <1>12 DEF Next

(* Every variable keeps its type, a round visits only rows there are, and  *)
(* the directory of every join and every team joined is known.             *)
THEOREM TypeCorrect == Spec => []TypeOK
<1>1. Init => PathsKept
  BY DEF Init, JoinInit, SeatsInit, PathsKept
<1>2. [Next]_vars => [JoinNext]_joinVars
  BY AgentStepJoins DEF vars
<1>3. Init => JoinInv
  BY JoinInitInv DEF Init
<1>4. JoinInv /\ AgentsInv /\ PathsKept => TypeOK
  BY DEF JoinInv, AgentsInv, AllSettled, Settled, PathsKept, TypeOK
<1>5. JoinInv /\ AgentsInv /\ PathsKept /\ [Next]_vars => PathsKept'
  BY PathsStep
<1>6. QED
  BY <1>1, <1>2, <1>3, <1>4, <1>5, JoinStepInv, AgentsInvariance, PTL DEF Spec

----------------------------------------------------------------------------
(* Unread: the least and the greatest of a set of numbers.  The library's  *)
(* minimum of a well-founded order takes the place of an induction.        *)

LEMMA LeastOfNat ==
  ASSUME NEW T \in SUBSET Nat, T # {}
  PROVE  \E x \in T : \A y \in T : x <= y
<1> DEFINE R == OpToRel(<, Nat)
<1>1. IsWellFoundedOn(R, Nat)
  BY NatLessThanWellFounded
<1> HIDE DEF R
<1>2. PICK x \in T : \A y \in T : <<y, x>> \notin R
  BY <1>1, WFMin
<1>3. \A y \in T : ~(y < x)
  BY <1>2 DEF R, OpToRel
<1>4. \A y \in T : x <= y
  BY <1>3
<1>5. QED
  BY <1>4

LEMMA GreatestOfNat ==
  ASSUME NEW T \in SUBSET Nat, T # {}, NEW n \in Nat, \A y \in T : y <= n
  PROVE  \E x \in T : \A y \in T : y <= x
<1> DEFINE U == {n - y : y \in T}
<1>1. U \in SUBSET Nat
  OBVIOUS
<1>2. U # {}
  <2>1. PICK y \in T : TRUE
    OBVIOUS
  <2>2. n - y \in U
    OBVIOUS
  <2>3. QED
    BY <2>2
<1>3. PICK u \in U : \A v \in U : u <= v
  BY <1>1, <1>2, LeastOfNat
<1>4. PICK x \in T : u = n - x
  BY <1>3
<1>5. \A y \in T : n - x <= n - y
  BY <1>3, <1>4
<1>6. QED
  BY <1>5

(* The newest event is the last one that arrived, or 0 before any did.     *)
LEMMA NewestIsLast ==
  ASSUME NEW n \in Nat, NEW as \in SUBSET Nat, \A s \in as : s <= n
  PROVE  LET last == Max(as \cup {0}) IN
         last \in Nat /\ last \in as \cup {0} /\ \A s \in as : s <= last
<1> DEFINE T == as \cup {0}
<1>0. 0 \in Nat /\ 0 <= n
  OBVIOUS
<1>1. T \in SUBSET Nat /\ 0 \in T /\ \A y \in T : y <= n
  BY <1>0, Zenon
<1>2. \E x \in T : \A y \in T : x >= y
  <2> HIDE DEF T
  <2>1. QED
    BY <1>1, GreatestOfNat
<1>3. Max(T) \in T /\ \A y \in T : Max(T) >= y
  BY <1>2, Zenon DEF Max
<1>4. QED
  BY <1>1, <1>3

(* The next event of a pull is one that has not arrived.                   *)
LEMMA PulledIsMissing ==
  ASSUME stored \in Nat, Missing # {}
  PROVE  Min(Missing) \in Missing
<1>1. Missing \in SUBSET Nat
  BY DEF Missing
<1>2. \E x \in Missing : \A y \in Missing : x <= y
  BY <1>1, LeastOfNat
<1>3. QED
  BY <1>2, Zenon DEF Min

----------------------------------------------------------------------------
(* Unread: what the watcher's number and its answer stand for              *)

(* What was announced is passed, in this life of the watcher.              *)
AnnouncedIsPassed == \A s \in Events : announced[s] > 0 => s <= after

(* An answer in hand holds what is above the watcher's number, up to the   *)
(* newest event of its time; all of it but what was read or came late.     *)
AnswerIsNew ==
  woken # NoAnswer => \A s \in woken.new : after < s /\ s <= woken.latest

AnswerMissesOnlyLate ==
  woken # NoAnswer =>
    \A s \in arrived \cap addressed :
      s <= woken.latest =>
        s \in woken.new \/ s <= after \/ s <= cursor \/ s \in late

WatchInv ==
  /\ WatchTypeOK
  /\ AnnouncedOnce /\ AnnouncedIsPassed /\ AnswerIsNew
  /\ MissedOnlyIfLate /\ AnswerMissesOnlyLate

LEMMA WatchInitInv == WatchInit => WatchInv
<1> SUFFICES ASSUME WatchInit PROVE WatchInv
  OBVIOUS
<1> USE WatchBoundsAssumption DEF WatchInit
<1>1. stored \in Nat /\ arrived \in SUBSET Nat /\ \A s \in arrived : s <= stored
  OBVIOUS
<1>2. Newest \in Nat
  BY <1>1, NewestIsLast DEF Newest
<1>3. QED
  BY <1>2 DEF WatchInv, WatchTypeOK, AnnouncedOnce, AnnouncedIsPassed, AnswerIsNew,
     MissedOnlyIfLate, AnswerMissesOnlyLate, Events

(* What the types say of the numbers.                                      *)
LEMMA WatchNumbers ==
  ASSUME WatchTypeOK
  PROVE  /\ stored \in Nat /\ Newest \in Nat /\ cursor \in Nat /\ after \in Nat
         /\ cursor <= Newest /\ after <= Newest
         /\ Newest \in arrived \cup {0} /\ \A s \in arrived : s \in Nat /\ 1 <= s /\ s <= Newest
         /\ arrived \subseteq Events
         /\ woken # NoAnswer => woken.latest \in Nat /\ after <= woken.latest
                                  /\ woken.latest <= Newest
<1>1. stored \in Nat /\ arrived \subseteq 1..stored
  BY WatchBoundsAssumption DEF WatchTypeOK
<1>2. /\ Newest \in Nat /\ Newest \in arrived \cup {0}
      /\ \A s \in arrived : s <= Newest
  <2>1. arrived \in SUBSET Nat /\ \A s \in arrived : s <= stored
    BY <1>1
  <2>2. QED
    BY <1>1, <2>1, NewestIsLast DEF Newest
<1>3. arrived \subseteq Events /\ \A s \in arrived : s \in Nat /\ 1 <= s
  BY <1>1, WatchBoundsAssumption DEF WatchTypeOK, Events
<1>4. cursor \in Nat /\ after \in Nat /\ cursor <= Newest /\ after <= Newest
  BY <1>2 DEF WatchTypeOK
<1>5. woken # NoAnswer => woken.latest \in Nat /\ after <= woken.latest
                           /\ woken.latest <= Newest
  BY <1>2, <1>4 DEF WatchTypeOK
<1>6. QED
  BY <1>1, <1>2, <1>3, <1>4, <1>5

(* An event arrives: if it is not above all the others, it is late.        *)
LEMMA ReceiveKeeps ==
  ASSUME WatchInv, NEW s \in Missing, Receive(s)
  PROVE  WatchInv'
<1>1. /\ arrived' = arrived \cup {s}
      /\ late' = IF s < Newest THEN late \cup {s} ELSE late
      /\ UNCHANGED <<stored, addressed, cursor, after, woken, announced, lives>>
  BY DEF Receive
<1>2. WatchTypeOK
  BY DEF WatchInv
<1>3. s \in 1..stored /\ s \notin arrived
  BY DEF Missing
<1>4. /\ Newest' \in Nat /\ \A r \in arrived' : r <= Newest'
      /\ Newest' \in arrived' \cup {0}
  <2>1. stored \in Nat /\ arrived' \in SUBSET Nat /\ \A r \in arrived' : r <= stored
    BY <1>1, <1>2, <1>3, WatchBoundsAssumption DEF WatchTypeOK
  <2>2. QED
    BY <2>1, NewestIsLast DEF Newest
<1>5. Newest <= Newest'
  BY <1>1, <1>2, <1>4, WatchNumbers
<1>6. WatchTypeOK'
  BY <1>1, <1>2, <1>3, <1>4, <1>5, WatchNumbers, WatchBoundsAssumption DEF WatchTypeOK
<1>7. s <= Newest => s \in late'
  BY <1>1, <1>2, <1>3, WatchNumbers
<1>8. MissedOnlyIfLate' /\ AnswerMissesOnlyLate'
  BY <1>1, <1>2, <1>3, <1>7, WatchNumbers DEF WatchInv, MissedOnlyIfLate, AnswerMissesOnlyLate
<1>9. QED
  BY <1>1, <1>6, <1>8
     DEF WatchInv, AnnouncedOnce, AnnouncedIsPassed, AnswerIsNew

(* What does not arrive does not change what is the newest.                *)
LEMMA SameNewest == arrived' = arrived => Newest' = Newest
BY DEF Newest

LEMMA AnnounceKeeps ==
  ASSUME WatchInv, Announce
  PROVE  WatchInv'
<1>1. /\ woken # NoAnswer /\ woken' = NoAnswer /\ after' = woken.latest
      /\ announced' = [s \in Events |->
                         announced[s] + IF s \in woken.new THEN 1 ELSE 0]
      /\ UNCHANGED <<stored, addressed, arrived, cursor, late, lives>>
  BY DEF Announce, Advanced
<1>2. WatchTypeOK /\ announced \in [Events -> Nat]
  BY DEF WatchInv, WatchTypeOK
<1>3. Newest' = Newest
  BY <1>1, SameNewest
<1>4. \A s \in Events : s \in Nat
  BY WatchBoundsAssumption DEF Events
<1>5. \A s \in Events \cap woken.new : announced[s] = 0 /\ announced'[s] = 1
  BY <1>1, <1>2, <1>4, WatchNumbers DEF WatchInv, AnnouncedIsPassed, AnswerIsNew
<1>6. \A s \in Events \ woken.new : announced'[s] = announced[s]
  BY <1>1, <1>2
<1>7. WatchTypeOK'
  <2>1. announced' \in [Events -> Nat]
    BY <1>1, <1>2
  <2>2. after' \in 0..Newest
    BY <1>1, <1>2, WatchNumbers
  <2>3. QED
    BY <1>1, <1>2, <1>3, <2>1, <2>2 DEF WatchTypeOK
<1>8. AnnouncedOnce'
  BY <1>5, <1>6 DEF WatchInv, AnnouncedOnce
<1>9. AnnouncedIsPassed'
  <2> SUFFICES ASSUME NEW s \in Events, announced'[s] > 0 PROVE s <= woken.latest
    BY <1>1 DEF AnnouncedIsPassed
  <2>1. CASE s \in woken.new
    BY <1>1, <2>1 DEF WatchInv, AnswerIsNew
  <2>2. CASE s \notin woken.new
    BY <1>1, <1>2, <1>4, <1>6, <2>2, WatchNumbers DEF WatchInv, AnnouncedIsPassed
  <2>3. QED
    BY <2>1, <2>2
<1>10. MissedOnlyIfLate'
  <2> SUFFICES ASSUME NEW s \in arrived \cap addressed, s <= woken.latest
      PROVE announced'[s] = 1 \/ s <= cursor \/ s \in late
    BY <1>1 DEF MissedOnlyIfLate
  <2>1. s \in Events
    BY <1>2, WatchNumbers
  <2>2. CASE s \in woken.new
    BY <1>5, <2>1, <2>2
  <2>3. CASE s <= after /\ s \notin woken.new
    BY <1>6, <2>1, <2>3 DEF WatchInv, MissedOnlyIfLate
  <2>4. QED
    BY <1>1, <2>2, <2>3 DEF WatchInv, AnswerMissesOnlyLate
<1>11. QED
  BY <1>1, <1>7, <1>8, <1>9, <1>10 DEF WatchInv, AnswerIsNew, AnswerMissesOnlyLate

LEMMA WatchStepInv == WatchInv /\ [WatchNext]_watchVars => WatchInv'
<1> SUFFICES ASSUME WatchInv, [WatchNext]_watchVars PROVE WatchInv'
  OBVIOUS
<1>0. WatchTypeOK
  BY DEF WatchInv
<1>1. ASSUME NEW own \in BOOLEAN, Store(own) PROVE WatchInv'
  <2>1. Newest' = Newest
    BY <1>1, SameNewest DEF Store
  <2>2. stored + 1 \notin arrived
    BY <1>0, WatchBoundsAssumption DEF WatchTypeOK
  <2>3. WatchTypeOK'
    BY <1>0, <1>1, <2>1, WatchBoundsAssumption DEF Store, WatchTypeOK
  <2>4. arrived' \cap addressed' = arrived \cap addressed
    BY <1>1, <2>2 DEF Store
  <2>5. QED
    BY <1>1, <2>3, <2>4 DEF Store, WatchInv, AnnouncedOnce, AnnouncedIsPassed,
       AnswerIsNew, MissedOnlyIfLate, AnswerMissesOnlyLate
<1>2. ASSUME Pull PROVE WatchInv'
  <2>1. stored \in Nat
    BY <1>0, WatchNumbers
  <2>2. QED
    BY <1>2, <2>1, PulledIsMissing, ReceiveKeeps DEF Pull
<1>3. ASSUME NEW s \in Events, Deliver(s) PROVE WatchInv'
  BY <1>3, ReceiveKeeps DEF Deliver
<1>4. ASSUME MarkRead PROVE WatchInv'
  <2>1. Newest' = Newest
    BY <1>4, SameNewest DEF MarkRead
  <2>2. QED
    BY <1>0, <1>4, <2>1, WatchNumbers
       DEF MarkRead, WatchInv, WatchTypeOK, AnnouncedOnce, AnnouncedIsPassed,
           AnswerIsNew, MissedOnlyIfLate, AnswerMissesOnlyLate
<1>5. ASSUME Wake PROVE WatchInv'
  <2>1. Newest' = Newest
    BY <1>5, SameNewest DEF Wake
  <2>2. /\ woken'.latest = Newest
        /\ woken'.new = {s \in arrived \cap addressed : s > Larger(after, cursor)}
        /\ UNCHANGED <<stored, addressed, arrived, cursor, after, announced, late, lives>>
    BY <1>5 DEF Wake, Woken, NewSince
  <2>3. WatchTypeOK'
    BY <1>0, <2>1, <2>2, WatchNumbers DEF WatchTypeOK
  <2>4. AnswerIsNew' /\ AnswerMissesOnlyLate'
    BY <1>0, <2>1, <2>2, WatchNumbers DEF AnswerIsNew, AnswerMissesOnlyLate, Larger
  <2>5. QED
    BY <2>2, <2>3, <2>4 DEF WatchInv, AnnouncedOnce, AnnouncedIsPassed, MissedOnlyIfLate
<1>6. ASSUME TimeOut PROVE WatchInv'
  <2>1. Newest' = Newest
    BY <1>6, SameNewest DEF TimeOut
  <2>2. \A s \in arrived \cap addressed : s <= after \/ s <= cursor
    BY <1>0, <1>6, WatchNumbers DEF TimeOut, NewSince, Larger
  <2>3. WatchTypeOK'
    BY <1>0, <1>6, <2>1, WatchNumbers DEF TimeOut, WatchTypeOK
  <2>4. AnnouncedIsPassed'
    BY <1>0, <1>6, WatchNumbers, WatchBoundsAssumption
       DEF TimeOut, WatchInv, AnnouncedIsPassed, Events
  <2>5. MissedOnlyIfLate'
    BY <1>6, <2>2 DEF TimeOut, WatchInv, MissedOnlyIfLate
  <2>6. QED
    BY <1>6, <2>3, <2>4, <2>5 DEF TimeOut, WatchInv, AnnouncedOnce, AnswerIsNew,
       AnswerMissesOnlyLate
<1>7. ASSUME Announce PROVE WatchInv'
  BY <1>7, AnnounceKeeps
<1>8. ASSUME AnnounceFails \/ UNCHANGED watchVars PROVE WatchInv'
  <2>1. Newest' = Newest
    BY <1>8, SameNewest DEF AnnounceFails, watchVars
  <2>2. QED
    BY <1>8, <2>1 DEF AnnounceFails, watchVars, WatchInv, WatchTypeOK, AnnouncedOnce,
       AnnouncedIsPassed, AnswerIsNew, MissedOnlyIfLate, AnswerMissesOnlyLate
<1>9. ASSUME WatchAgain PROVE WatchInv'
  <2>1. Newest' = Newest
    BY <1>9, SameNewest DEF WatchAgain
  <2>2. /\ after' = 0 /\ woken' = NoAnswer /\ announced' = [s \in Events |-> 0]
        /\ lives' = lives + 1 /\ lives < MaxLives
        /\ UNCHANGED <<stored, addressed, arrived, cursor, late>>
    BY <1>9 DEF WatchAgain
  <2>3. WatchTypeOK'
    BY <1>0, <2>1, <2>2, WatchNumbers, WatchBoundsAssumption DEF WatchTypeOK
  <2>4. MissedOnlyIfLate'
    BY <1>0, <2>2, WatchNumbers DEF MissedOnlyIfLate
  <2>5. QED
    BY <2>2, <2>3, <2>4 DEF WatchInv, AnnouncedOnce, AnnouncedIsPassed, AnswerIsNew,
       AnswerMissesOnlyLate
<1>10. QED
  BY <1>1, <1>2, <1>3, <1>4, <1>5, <1>6, <1>7, <1>8, <1>9 DEF WatchNext

LEMMA WatchInvariance == WatchSpec => []WatchInv
BY WatchInitInv, WatchStepInv, PTL DEF WatchSpec

(* However polls, failures and mark_read interleave, and whatever arrives  *)
(* in between, a watcher announces no event twice.                         *)
THEOREM NothingAnnouncedTwice == WatchSpec => []AnnouncedOnce
<1>1. WatchInv => AnnouncedOnce
  BY DEF WatchInv
<1>2. QED
  BY WatchInvariance, <1>1, PTL

(* What the watcher passed without a word was read, or came late.          *)
THEOREM OnlyLateIsMissed == WatchSpec => []MissedOnlyIfLate
<1>1. WatchInv => MissedOnlyIfLate
  BY DEF WatchInv
<1>2. QED
  BY WatchInvariance, <1>1, PTL

(* Every variable keeps its type, and no number runs ahead of the inbox.   *)
THEOREM WatchTypeCorrect == WatchSpec => []WatchTypeOK
<1>1. WatchInv => WatchTypeOK
  BY DEF WatchInv
<1>2. QED
  BY WatchInvariance, <1>1, PTL

=============================================================================
