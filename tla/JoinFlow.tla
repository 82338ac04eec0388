------------------------------ MODULE JoinFlow ------------------------------
(***************************************************************************)
(* How one person gets into teams that others founded, and out of them.    *)
(* The person's daemon keeps a row for every join it asked for (joining)   *)
(* and for every team it belongs to (mine), and each sync first asks the   *)
(* authorities how the joins stand, then syncs every team.  The team's     *)
(* authority keeps one request per person, for ever.  Every call can fail, *)
(* or be carried out and lose its answer, and the daemon can stop between  *)
(* any two steps.                                                          *)
(*                                                                         *)
(* A command and a sync hold the client's lock throughout, so commands     *)
(* come between two rounds.  The other members of a team stay: a team      *)
(* never closes here.                                                      *)
(* What the daemon shares with the authorities are the steps of Admissions.*)
(***************************************************************************)
EXTENDS FiniteSets

CONSTANTS
  Teams   \* teams founded by others

VARIABLES
  member,   \* authorities: the teams whose roster has the person
  request,  \* authorities: request[t], the state of the person's request
  joining,  \* the daemon's rows of joins asked for
  mine,     \* the daemon's rows of teams it belongs to
  dropped,  \* joins whose row was deleted because a name was taken
  stage,    \* where the sync is
  todo      \* the rows this stage of the sync has still to visit

authority == <<member, request>>
rows == <<joining, mine, dropped>>
round == <<stage, todo>>
joinVars == <<authority, rows, round>>

INSTANCE Admissions WITH Seats <- Teams

Stages == {"idle", "lookup", "joins", "teams"}

----------------------------------------------------------------------------
(* The authority: what admins and time do to a request and to a member     *)

Admit(t) == Admits(t) /\ UNCHANGED <<joining, dropped, round>>

(* reject, or a day has passed.                                            *)
RejectOrExpire(t) == Refuses({t}) /\ UNCHANGED <<joining, dropped, round>>

Revoke(t) == Parts(t) /\ UNCHANGED <<joining, dropped, round>>

----------------------------------------------------------------------------
(* join: the row first, then the call                                      *)

Idle == stage = "idle"

(* Pending, decided, or an answer that is lost.                            *)
Join(t) ==
  /\ Idle
  /\ t \notin mine
  /\ Asks(t) \/ ((t \in member \/ request[t] # "none") /\ UNCHANGED authority)
  /\ joining' = joining \cup {t}
  /\ dropped' = dropped \ {t}
  /\ UNCHANGED <<mine, round>>

(* The call of a join that was given up arrives after all.                 *)
JoinArrives(t) ==
  /\ t \in joining \cup dropped
  /\ Asks(t)
  /\ UNCHANGED <<joining, dropped, round>>

(* Answered "admitted": join asks how every join stands, as a sync does.   *)
JoinAdmitted(t) ==
  /\ Idle
  /\ t \notin mine
  /\ t \in member \/ request[t] = "admitted"
  /\ joining' = joining \cup {t}
  /\ dropped' = dropped \ {t}
  /\ stage' = "lookup"
  /\ todo' = joining'
  /\ UNCHANGED <<authority, mine>>

(* The call does not arrive: the row stays, the request is never made.     *)
JoinUnsent(t) ==
  /\ Idle
  /\ t \notin mine
  /\ joining' = joining \cup {t}
  /\ dropped' = dropped \ {t}
  /\ UNCHANGED <<authority, mine, round>>

(* The name is taken in that team: the row goes, also one of an earlier    *)
(* request under another name that is still pending.                       *)
JoinRefused(t) ==
  /\ Idle
  /\ t \notin mine \cup member
  /\ joining' = joining \ {t}
  /\ dropped' = dropped \cup {t}
  /\ UNCHANGED <<authority, mine, round>>

(* leave: the authority's record, then the local row.                      *)
Leave(t) ==
  /\ Idle
  /\ Leaves(t)
  /\ UNCHANGED <<joining, dropped, round>>

(* The answer is lost, or the daemon stops before the row is deleted.      *)
LeaveCut(t) ==
  /\ Idle
  /\ t \in mine
  /\ Parts(t)
  /\ UNCHANGED <<joining, dropped, round>>

----------------------------------------------------------------------------
(* sync: join_status for every join, then sync_team for every team         *)

(* A mutant of SyncStart: who is in no team has nothing to sync.           *)
SyncUnbound ==
  /\ Idle
  /\ stage' = "joins"
  /\ todo' = IF mine = {} THEN {} ELSE joining
  /\ UNCHANGED <<authority, rows>>

SyncStart ==
  /\ Idle
  /\ stage' = "joins"
  /\ todo' = joining
  /\ UNCHANGED <<authority, rows>>

Checking(t) == stage \in {"lookup", "joins"} /\ t \in todo

Visited(t) == todo' = todo \ {t} /\ UNCHANGED <<stage>>

Aborted == stage' = "idle" /\ todo' = {}

(* A mutant of CheckUnknown: an authority that is not reached is an error  *)
(* of the whole sync.                                                      *)
CheckUnreached(t) == Checking(t) /\ Aborted /\ UNCHANGED <<authority, rows>>

(* The authority is not reached, or the answer lost, or it knows no        *)
(* request: the state is unknown.                                          *)
CheckUnknown(t) ==
  /\ Checking(t)
  /\ Visited(t)
  /\ UNCHANGED <<authority, rows>>

(* A mutant of CheckWaiting: a request is asked about once.                *)
CheckDropped(t) ==
  /\ Checking(t)
  /\ t \notin member
  /\ request[t] # "admitted"
  /\ joining' = joining \ {t}
  /\ Visited(t)
  /\ UNCHANGED <<authority, mine, dropped>>

(* Pending or refused: the row stays.                                       *)
CheckWaiting(t) ==
  /\ Checking(t)
  /\ t \notin member
  /\ request[t] # "admitted"
  /\ Visited(t)
  /\ UNCHANGED <<authority, rows>>

(* install_team, and the row has done its work.                            *)
Learn(t) ==
  /\ Checking(t)
  /\ Learns(t)
  /\ joining' = joining \ {t}
  /\ Visited(t)
  /\ UNCHANGED dropped

(* The daemon stops before the row is deleted, or right after.             *)
LearnCut(t) ==
  /\ Checking(t)
  /\ Learns(t)
  /\ joining' \in {joining, joining \ {t}}
  /\ Aborted
  /\ UNCHANGED dropped

(* "admitted", but no longer a member: the answer has no team in it, which *)
(* is an error of the whole sync.                                          *)
Stale(t) == t \notin member /\ request[t] = "admitted"

CheckFails(t) ==
  /\ Checking(t)
  /\ Stale(t)
  /\ Aborted
  /\ UNCHANGED <<authority, rows>>

(* The end of a join that was answered "admitted".                         *)
LookupDone ==
  /\ stage = "lookup"
  /\ todo = {}
  /\ stage' = "idle"
  /\ UNCHANGED <<authority, rows, todo>>

JoinsDone ==
  /\ stage = "joins"
  /\ todo = {}
  /\ stage' = "teams"
  /\ todo' = mine
  /\ UNCHANGED <<authority, rows>>

(* sync_team, whatever its outcome.                                        *)
SyncTeam(t) ==
  /\ stage = "teams"
  /\ t \in todo
  /\ todo' = todo \ {t}
  /\ UNCHANGED <<authority, rows, stage>>

SyncEnd ==
  /\ stage = "teams"
  /\ todo = {}
  /\ stage' = "idle"
  /\ UNCHANGED <<authority, rows, todo>>

(* The daemon stops and is started again.                                  *)
Restart ==
  /\ ~Idle
  /\ Aborted
  /\ UNCHANGED <<authority, rows>>

----------------------------------------------------------------------------
JoinInit ==
  /\ SeatsInit
  /\ joining = {}
  /\ dropped = {}
  /\ stage = "idle"
  /\ todo = {}

(* The steps that touch no agent of the person.                            *)
JoinStep ==
  \/ \E t \in Teams :
       \/ Admit(t) \/ RejectOrExpire(t) \/ Revoke(t)
       \/ Join(t) \/ JoinArrives(t) \/ JoinAdmitted(t) \/ JoinUnsent(t) \/ JoinRefused(t)
       \/ CheckUnknown(t) \/ CheckWaiting(t) \/ CheckFails(t)
       \/ LearnCut(t) \/ SyncTeam(t)
  \/ LookupDone \/ SyncStart \/ JoinsDone \/ SyncEnd \/ Restart

JoinNext ==
  JoinStep \/ \E t \in Teams : Learn(t) \/ Leave(t) \/ LeaveCut(t)

GoOn ==
  \/ SyncStart \/ LookupDone \/ JoinsDone \/ SyncEnd
  \/ \E t \in Teams :
       CheckUnknown(t) \/ CheckWaiting(t) \/ CheckFails(t) \/ Learn(t) \/ SyncTeam(t)

\* A stop that looks like the end of a round does no harm.
Stopped == ~GoOn /\ (Restart \/ \E t \in Teams : LearnCut(t))

(* Each call ends after a bounded time, with or without an answer, so what *)
(* holds the lock goes on; the lock is handed out in turn, so the loop     *)
(* gets it, whatever commands come.  In the end the daemon stays up, and   *)
(* an authority that is asked in every round is not silent for ever.       *)
RoundGoesOn ==
  /\ WF_joinVars(GoOn)
  /\ SF_joinVars(SyncStart)
  /\ \A t \in Teams : SF_joinVars(Learn(t))
  /\ <>[][~Stopped]_joinVars

JoinSpec == JoinInit /\ [][JoinNext]_joinVars /\ RoundGoesOn

----------------------------------------------------------------------------
(* Properties                                                              *)

(* Every variable keeps its type; a round visits rows it has not visited,  *)
(* and only a stopped one leaves rows behind (Client::sync).               *)
JoinTypeOK ==
  /\ member \subseteq Teams
  /\ request \in [Teams -> RequestStates]
  /\ joining \subseteq Teams /\ mine \subseteq Teams /\ dropped \subseteq Teams
  /\ stage \in Stages
  /\ todo \subseteq (IF stage = "teams" THEN mine ELSE IF Idle THEN {} ELSE joining)

(* Whoever was admitted has a row that will tell them, or the team itself: *)
(* no lost answer, restart or departure makes the daemon forget a request  *)
(* the authority still holds, except a second join under a taken name      *)
(* (join, join_status).                                                    *)
NobodyIsForgotten ==
  \A t \in Teams :
    t \in member \/ request[t] = "pending" => t \in joining \cup mine \cup dropped

(* An admission is learned, however many calls are lost, unless the row of *)
(* a team that was left or revoked stops every round before it.            *)
AdmissionIsLearned ==
  \A t \in Teams :
    t \in member \cap joining
      ~> (t \in mine \/ t \notin member \/ \E p \in joining : Stale(p))

(* Only the row of a team that was left or revoked stands between a team   *)
(* and its sync: no lost answer and no other join does (Client::sync).     *)
(* The answers are those of honest authorities: a team that is not the     *)
(* invited one (client.rs:616) would end the round as well.                *)
OnlyStaleJoinsBlock ==
  \A t \in Teams :
    <>[](t \in mine /\ ~\E p \in joining : Stale(p)) => []<><<SyncTeam(t)>>_joinVars

(* "Sync every pending join and every team; one unreachable authority      *)
(* never blocks the rest": a team is synced again and again, whatever      *)
(* becomes of the joins and of the other teams (Client::sync).             *)
OneNeverBlocksTheRest ==
  \A t \in Teams : <>[](t \in mine \cap member) => []<><<SyncTeam(t)>>_joinVars
=============================================================================
