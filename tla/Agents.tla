------------------------------- MODULE Agents -------------------------------
(***************************************************************************)
(* The agents of one person, over the teams that JoinFlow brings the       *)
(* person into and out of.  An agent is one harness in one directory; it   *)
(* takes part in at most one team, and teammates see it once it is         *)
(* published.  A directory is matched with a team by its Git origin, or by *)
(* the path the team was joined from; matching alone lets an agent in.     *)
(*                                                                         *)
(* One harness stands for all: agents of different harnesses meet only in  *)
(* the commands over a directory, which treat them alike.  The switches    *)
(* auto_enroll and auto_publish may be turned at any time, so each use of  *)
(* one is a choice.                                                        *)
(***************************************************************************)
EXTENDS JoinFlow, Integers

CONSTANTS
  MaxAgents,  \* the labels free_label gives out: a name, numbered
  Dirs,       \* directories
  Origin,     \* Origin[d]: the team that is bound to d's repository, or NONE
  PathBound,  \* teams that are bound to a path instead
  NONE

ASSUME AgentsAssumption ==
  /\ MaxAgents \in Nat
  /\ NONE \notin Teams \cup Dirs
  /\ PathBound \subseteq Teams
  /\ Origin \in [Dirs -> (Teams \ PathBound) \cup {NONE}]

VARIABLES
  agents,  \* agents[x]: the agent with label x, or NONE
  from     \* from[t]: the directory t was joined from, or NONE

Labels == 1 .. MaxAgents

agentVars == <<agents, from>>
vars == <<joinVars, agentVars>>

Agent == [at : Dirs, team : Teams \cup {NONE}, published : BOOLEAN, retired : BOOLEAN]

Known(x) == agents[x] # NONE
Active(x) == Known(x) /\ ~agents[x].retired
Place(d) == {x \in Labels : Known(x) /\ agents[x].at = d}

(* The same command for each agent of xs.                                  *)
Each(xs, f(_)) == [x \in Labels |-> IF x \in xs THEN f(agents[x]) ELSE agents[x]]

In(t, a) == [a EXCEPT !.team = t]

(* A mutant of Out: an agent that takes part in nothing stays published.   *)
OutButShown(a) == [a EXCEPT !.team = NONE]

Out(a) == [a EXCEPT !.team = NONE, !.published = FALSE]

(* match_workspace: the first of the teams that d is bound to.  Which is   *)
(* the first is left open.                                                 *)
Bound(d, teams) ==
  {t \in teams : Origin[d] = t \/ (t \in PathBound /\ from[t] = d)}

Matchings(teams) ==
  {m \in [Dirs -> Teams \cup {NONE}] :
     \A d \in Dirs : IF Bound(d, teams) = {} THEN m[d] = NONE ELSE m[d] \in Bound(d, teams)}

----------------------------------------------------------------------------
(* Commands over one agent                                                 *)

Command(next) == Idle /\ agents' = next /\ UNCHANGED <<joinVars, from>>

Attached(x, d) ==
  IF Known(x) THEN [agents[x] EXCEPT !.retired = FALSE]
  ELSE [at |-> d, team |-> NONE, published |-> FALSE, retired |-> FALSE]

(* free_label: the first number that is free.                              *)
FreeLabel(x) == ~Known(x) /\ \A y \in Labels : y < x => Known(y)

(* attach, also one that is cut short: it then enrolls or publishes less.  *)
Attach(x, d) ==
  /\ IF Place(d) = {} THEN FreeLabel(x) ELSE x \in Place(d)
  /\ \/ Command([agents EXCEPT ![x] = Attached(x, d)])
     \/ \E m \in Matchings(mine), publish \in BOOLEAN :
          /\ m[d] # NONE
          /\ Command([agents EXCEPT ![x] =
               [Attached(x, d) EXCEPT !.team = m[d], !.published = @ \/ publish]])

(* enroll without a team: the matched one, or the only one there is.       *)
Default(d) ==
  IF Bound(d, mine) # {} THEN Bound(d, mine) ELSE {t \in mine : mine = {t}}

Publish(x) ==
  /\ Active(x)
  /\ \E t \in IF agents[x].team = NONE THEN Default(agents[x].at) ELSE {agents[x].team} :
       Command([agents EXCEPT ![x].team = t, ![x].published = TRUE])

Unpublish(x) == Active(x) /\ Command([agents EXCEPT ![x].published = FALSE])

Enroll(x, t) == Active(x) /\ t \in mine /\ Command(Each({x}, LAMBDA a : In(t, a)))

Unenroll(x) == Active(x) /\ Command(Each({x}, Out))

Retire(x) == Known(x) /\ Command(Each({x}, LAMBDA a : [Out(a) EXCEPT !.retired = TRUE]))

(* adopt: the agent that was at d is deleted.                              *)
Adopt(x, d) ==
  /\ Known(x)
  /\ Command([y \in Labels |->
       IF y = x THEN [agents[x] EXCEPT !.at = d, !.retired = FALSE]
       ELSE IF y \in Place(d) THEN NONE ELSE agents[y]])

----------------------------------------------------------------------------
(* Commands and syncs that bring a directory into a team, or a team's      *)
(* agents out of it                                                        *)

(* enroll_path and publish_path                                            *)
EnrolledPath(t, d) == Each({x \in Place(d) : Active(x)}, LAMBDA a : In(t, a))

(* A mutant of Brought: every agent of mine becomes visible.               *)
BroughtAll(t, d) ==
  Each({x \in Labels : Active(x)}, LAMBDA a : [a EXCEPT !.team = t, !.published = TRUE])

Brought(t, d) ==
  Each({x \in Place(d) : Active(x)}, LAMBDA a : [a EXCEPT !.team = t, !.published = TRUE])

(* join with the key of a team of mine.                                    *)
JoinAgain(t, d) == t \in mine /\ Command(Brought(t, d))

(* A mutant of Joinable: an agent of another team is moved.                *)
JoinableAnyway(x, next) == next[x] # NONE /\ ~next[x].retired

Joinable(x, next) == next[x] # NONE /\ ~next[x].retired /\ next[x].team = NONE

(* enroll_workspace, of the agents xs: none if auto_enroll is off, some if *)
(* it is cut short.                                                        *)
Enrolled(t, m, xs, next) ==
  [x \in Labels |->
     IF x \in xs /\ Joinable(x, next) /\ m[next[x].at] = t THEN In(t, next[x])
     ELSE next[x]]

(* publish_path for the directory that asked, enroll_workspace after it.   *)
Installed(t, sets) ==
  {Enrolled(t, m, xs, Brought(t, from[t])) : m \in Matchings(mine'), xs \in sets}

LearnAgents(t) == Learn(t) /\ agents' \in Installed(t, {{}, Labels}) /\ UNCHANGED from

(* Cut short before the row is deleted, or anywhere after.                 *)
LearnCutAgents(t) ==
  /\ LearnCut(t)
  /\ \/ agents' = agents
     \/ /\ t \notin joining'
        /\ agents' \in {EnrolledPath(t, from[t])} \cup Installed(t, SUBSET Labels)
  /\ UNCHANGED from

(* A mutant of Released: the agents are hidden and stay in the team.       *)
ReleasedHidden(t) ==
  Each({x \in Labels : Known(x) /\ agents[x].team = t},
       LAMBDA a : [a EXCEPT !.published = FALSE])

Released(t) == Each({x \in Labels : Known(x) /\ agents[x].team = t}, Out)

Forgotten(t) == from' = [from EXCEPT ![t] = IF t \in joining' THEN @ ELSE NONE]

LeaveAgents(t) == Leave(t) /\ agents' = Released(t) /\ Forgotten(t)

LeaveCutAgents(t) ==
  LeaveCut(t) /\ agents' \in {agents, Released(t)} /\ UNCHANGED from

(* The directory a join was asked from is kept with its row.               *)
JoinFrom(t, d) ==
  /\ Join(t) \/ JoinAdmitted(t) \/ JoinUnsent(t)
  /\ from' = [from EXCEPT ![t] = d]
  /\ UNCHANGED agents

JoinRefusedFrom(t) == JoinRefused(t) /\ Forgotten(t) /\ UNCHANGED agents

----------------------------------------------------------------------------
Init ==
  /\ JoinInit
  /\ agents = [x \in Labels |-> NONE]
  /\ from = [t \in Teams |-> NONE]

Elsewhere(t) ==
  \/ Admit(t) \/ RejectOrExpire(t) \/ Revoke(t) \/ JoinArrives(t)
  \/ CheckUnknown(t) \/ CheckWaiting(t) \/ CheckFails(t) \/ SyncTeam(t)

RoundStep == LookupDone \/ SyncStart \/ JoinsDone \/ SyncEnd \/ Restart

Next ==
  \/ \E x \in Labels : Publish(x) \/ Unpublish(x) \/ Unenroll(x) \/ Retire(x)
  \/ \E x \in Labels, d \in Dirs : Attach(x, d) \/ Adopt(x, d)
  \/ \E x \in Labels, t \in Teams : Enroll(x, t)
  \/ \E t \in Teams, d \in Dirs : JoinAgain(t, d) \/ JoinFrom(t, d)
  \/ \E t \in Teams : LearnAgents(t) \/ LearnCutAgents(t) \/ LeaveAgents(t)
                        \/ LeaveCutAgents(t) \/ JoinRefusedFrom(t)
  \/ (RoundStep \/ \E t \in Teams : Elsewhere(t)) /\ UNCHANGED agentVars

Spec == Init /\ [][Next]_vars /\ RoundGoesOn

----------------------------------------------------------------------------
(* Properties                                                              *)

(* Every variable keeps its type, and the directory a join was asked from  *)
(* stays known.                                                            *)
TypeOK ==
  /\ JoinTypeOK
  /\ agents \in [Labels -> Agent \cup {NONE}]
  /\ from \in [Teams -> Dirs \cup {NONE}]
  /\ \A t \in joining \cup mine : from[t] \in Dirs

(* An agent takes part in a team of mine or in none: no departure, cut     *)
(* short or not, and no sync, adoption or late answer leaves an agent in a *)
(* team the daemon does not have (leave, install_team, retire, adopt).     *)
OnlyInMyTeams ==
  \A x \in Labels : Known(x) => agents[x].team \in mine \cup {NONE}

(* What teammates can see takes part and is not retired: the two flags     *)
(* and the team are set by separate statements of many commands            *)
(* (publish, enroll, retire, leave, publish_path, adopt).                  *)
VisibleTakesPart ==
  \A x \in Labels :
    Known(x) /\ agents[x].published => agents[x].team # NONE /\ ~agents[x].retired

(* The directories that are bound to a team, or were named to join one.    *)
Related(d) == \E t \in Teams : Origin[d] = t \/ from[t] = d

Shown(x) == Known(x) /\ agents[x].published

ShownByItsOwner(x) ==
  Shown(x)' /\ ~Shown(x) =>
    Related(agents'[x].at) \/ Publish(x) \/ \E t \in Teams : JoinAgain(t, agents[x].at)

(* "Unrelated checkouts never publish themselves": outside the directories *)
(* that are bound to a team, or were named to join one, an agent becomes   *)
(* visible by the owner's own command over it only (attach, join_status).  *)
NeverPublishesItself == [][\A x \in Labels : ShownByItsOwner(x)]_vars

(* What a sync leaves of an agent outside the directories that asked.      *)
LeftInPlace(x) ==
  ~Idle /\ Known(x) /\ (\A t \in todo \ todo' : from[t] # agents[x].at) =>
    /\ agents'[x].published = agents[x].published
    /\ agents[x].team # NONE => agents'[x] = agents[x]

(* A sync may bring in agents, but it moves none from team to team and     *)
(* publishes none, except in the directory that asked to join ("other      *)
(* matching checkouts are enrolled but stay private", join_status).        *)
SyncRespectsOwner == [][\A x \in Labels : LeftInPlace(x)]_vars
=============================================================================
