----------------------------- MODULE ClientLock -----------------------------
(***************************************************************************)
(* Who waits for whom.  A daemon has one client behind one mutex           *)
(* (daemon.rs).  The sync task and a user's command hold it across their   *)
(* calls to other daemons, and so do the handlers that another daemon's    *)
(* direct delivery or fetch of a chunk starts here, across their calls to  *)
(* the team's authority; and an authority's answer to any of these calls   *)
(* needs that daemon's own lock, for a moment.  What ends a circle of such *)
(* waits is the time limit of each call, 5 s between peers and 45 s to an  *)
(* authority; the handler the caller gave up lives on, for 60 s at most.   *)
(*                                                                         *)
(* What is said in the calls is in Mailbox and Files; here they only wait, *)
(* take the lock and end.                                                  *)
(***************************************************************************)
EXTENDS Naturals, FiniteSets

CONSTANTS
  Daemons,
  Teams,
  Host,     \* Host[t]: the daemon of t's founder, its authority
  Members,  \* Members[t]: the daemons of t's members
  NONE      \* an absent value

ASSUME TeamsAssumption ==
  /\ Members \in [Teams -> SUBSET Daemons]
  /\ Host \in [Teams -> Daemons]
  /\ \A t \in Teams : Host[t] \in Members[t]
VARIABLES
  holder,   \* holder[d]: the task that holds the lock of d's client, or NONE
  call,     \* call[d]: the call that this task waits for, or NONE
  direct    \* direct[d]: the direct delivery d's sync task waits for, Batch
            \* between two of them, NONE when it has none left

vars == <<holder, call, direct>>

Calls == [kind : {"rpc", "fetch_chunk", "deliver"}, to : Daemons, team : Teams]
Deliveries == {c \in Calls : c.kind = "deliver"}
Call(k, e, t) == [kind |-> k, to |-> e, team |-> t]
Batch == [kind |-> "batch", to |-> NONE, team |-> NONE]

(* What can hold the lock.  A handler serves a call of a peer; its caller  *)
(* is NONE once it has given up.                                           *)
Sync        == [kind |-> "sync", team |-> NONE, caller |-> NONE]
Download(t) == [kind |-> "download", team |-> t, caller |-> NONE]
Handler(k, t, d) == [kind |-> k, team |-> t, caller |-> d]
Abandoned(t) == Handler("abandoned", t, NONE)

Handlers == [kind : {"fetch_chunk", "deliver"}, team : Teams, caller : Daemons]
Tasks == {Sync} \cup Handlers \cup {Download(t) : t \in Teams}
         \cup {Abandoned(t) : t \in Teams}

ASSUME NoneAssumption ==
  /\ NONE \notin Teams \cup Daemons
  /\ NONE \notin Tasks \cup Calls \cup {Batch}

----------------------------------------------------------------------------
(* The lock is granted                                                     *)

Grant(d, x) ==
  /\ holder[d] = NONE
  /\ holder' = [holder EXCEPT ![d] = x]
  /\ UNCHANGED <<call, direct>>

(* The tick of the sync task, which comes to it once its deliveries are    *)
(* done, and a command of the user.                                        *)
StartSync(d) == direct[d] = NONE /\ Grant(d, Sync)
StartDownload(d, t) == d \in Members[t] /\ Grant(d, Download(t))

(* The handler of a call d makes.                                          *)
ServeFetch(d)   == /\ call[d] # NONE /\ call[d].kind = "fetch_chunk"
                   /\ Grant(call[d].to, Handler("fetch_chunk", call[d].team, d))
ServeDeliver(d) == /\ direct[d] \in Deliveries
                   /\ Grant(direct[d].to, Handler("deliver", direct[d].team, d))

(* A handler that has waited longer than its caller.                       *)
ServeNobody(d, t) == d \in Members[t] /\ Grant(d, Abandoned(t))

----------------------------------------------------------------------------
(* Calls of the task that holds the lock                                   *)

(* Mutant: the sync task delivers before it lets the lock go.              *)
CallsWithDeliveries(d, x) ==
  IF x.kind = "sync"
    THEN [kind : {"rpc", "deliver"}, to : Daemons, team : Teams]
    ELSE {Call("rpc", Host[x.team], x.team)}
         \cup {Call("fetch_chunk", e, x.team) :
               e \in IF x.kind = "download" THEN Members[x.team] ELSE {}}

(* Sync asks the authorities of d's teams; any other task that of its      *)
(* team, and a download also the file's sender.                            *)
CallsOf(d, x) ==
  IF x.kind = "sync"
    THEN {Call("rpc", Host[t], t) : t \in {s \in Teams : d \in Members[s]}}
    ELSE {Call("rpc", Host[x.team], x.team)}
         \cup {Call("fetch_chunk", e, x.team) :
               e \in IF x.kind = "download" THEN Members[x.team] ELSE {}}

(* An authority answers its own daemon without a call.                     *)
Make(d, c) ==
  /\ holder[d] # NONE
  /\ call[d] = NONE
  /\ c \in CallsOf(d, holder[d])
  /\ c.to # d
  /\ call' = [call EXCEPT ![d] = c]
  /\ UNCHANGED <<holder, direct>>

(* The rpc handler takes the lock only to find the service, which answers  *)
(* without it.                                                             *)
Answerable(d) ==
  /\ call[d] # NONE /\ call[d].kind = "rpc"
  /\ holder[call[d].to] = NONE

Answer(d) ==
  /\ Answerable(d)
  /\ call' = [call EXCEPT ![d] = NONE]
  /\ UNCHANGED <<holder, direct>>

(* The task is done, well or with an error: a handler answers its caller.  *)
Finish(d) == LET x == holder[d] IN
  /\ x # NONE
  /\ call[d] = NONE
  /\ holder' = [holder EXCEPT ![d] = NONE]
  /\ call' = IF x.kind = "fetch_chunk"
               THEN [call EXCEPT ![x.caller] = NONE] ELSE call
  /\ direct' = IF x.kind = "sync" THEN [direct EXCEPT ![d] = Batch]
               ELSE IF x.kind = "deliver"
                 THEN [direct EXCEPT ![x.caller] = Batch] ELSE direct

----------------------------------------------------------------------------
(* Direct deliveries of the sync task, without the lock                    *)

Deliver(d, e, t) ==
  /\ direct[d] = Batch
  /\ {d, e} \subseteq Members[t] /\ e # d
  /\ direct' = [direct EXCEPT ![d] = Call("deliver", e, t)]
  /\ UNCHANGED <<holder, call>>

EndBatch(d) ==
  /\ direct[d] = Batch
  /\ direct' = [direct EXCEPT ![d] = NONE]
  /\ UNCHANGED <<holder, call>>

----------------------------------------------------------------------------
(* Time limits: 5 or 45 s pass, or the call fails.  A handler that has the *)
(* lock goes on with nobody waiting for it.                                *)

Abandon(d, c) ==
  holder' = [holder EXCEPT ![c.to] =
    IF @ = Handler(c.kind, c.team, d) THEN Abandoned(c.team) ELSE @]

(* Mutant: a call without a time limit.                                    *)
GiveUpNever(d) == call[d] # NONE /\ UNCHANGED vars

GiveUp(d) ==
  /\ call[d] # NONE
  /\ Abandon(d, call[d])
  /\ call' = [call EXCEPT ![d] = NONE]
  /\ UNCHANGED direct

GiveUpDirect(d) ==
  /\ direct[d] \in Deliveries
  /\ Abandon(d, direct[d])
  /\ direct' = [direct EXCEPT ![d] = Batch]
  /\ UNCHANGED call

----------------------------------------------------------------------------
Init ==
  /\ holder = [d \in Daemons |-> NONE]
  /\ call = [d \in Daemons |-> NONE]
  /\ direct = [d \in Daemons |-> NONE]

Next ==
  \/ \E d \in Daemons : StartSync(d)
  \/ \E d \in Daemons, t \in Teams : StartDownload(d, t)
  \/ \E d \in Daemons : ServeFetch(d)
  \/ \E d \in Daemons : ServeDeliver(d)
  \/ \E d \in Daemons, t \in Teams : ServeNobody(d, t)
  \/ \E d \in Daemons, c \in Calls : Make(d, c)
  \/ \E d \in Daemons : Answer(d)
  \/ \E d \in Daemons : Finish(d)
  \/ \E d, e \in Daemons, t \in Teams : Deliver(d, e, t)
  \/ \E d \in Daemons : EndBatch(d)
  \/ \E d \in Daemons : GiveUp(d)
  \/ \E d \in Daemons : GiveUpDirect(d)

Spec == Init /\ [][Next]_vars

(* The lock goes to who asked first, and the sync task asks at every tick; *)
(* a task makes finitely many calls, a batch has finitely many deliveries, *)
(* and every call has a time limit.  Nothing is assumed of a call being    *)
(* answered, nor of a handler being started.                               *)
Fairness == \A d \in Daemons :
  /\ SF_vars(StartSync(d))
  /\ SF_vars(Finish(d))
  /\ SF_vars(EndBatch(d))
  /\ WF_vars(GiveUp(d))
  /\ WF_vars(GiveUpDirect(d))

FairSpec == Spec /\ Fairness

----------------------------------------------------------------------------
(* Properties                                                              *)

(* Every variable keeps its type.                                          *)
TypeOK ==
  /\ holder \in [Daemons -> Tasks \cup {NONE}]
  /\ call \in [Daemons -> Calls \cup {NONE}]
  /\ direct \in [Daemons -> Deliveries \cup {Batch, NONE}]

(* Daemons that wait for each other in a circle: the lock of each is held  *)
(* by a task that waits for the next one.                                  *)
Circle(S) ==
  /\ S # {}
  /\ \A d \in S : call[d] # NONE /\ call[d].to \in S
  /\ \A e \in S : \E d \in S : call[d].to = e

(* Only two kinds of circles can close, and stand still until a time limit *)
(* passes: through a download from a peer, which holds the downloader's    *)
(* lock, and between the authorities of two teams, when each is a member   *)
(* at the other (daemon.rs, the rpc, fetch_chunk and deliver handlers).    *)
(* Members of one team who chat never wait in a circle, whatever they sync *)
(* and deliver at the same time.                                           *)
KnownCircles == \A S \in SUBSET Daemons :
  Circle(S) =>
    \/ \E d \in S : holder[d].kind = "download" /\ call[d].kind = "fetch_chunk"
    \/ \E d, e \in S : call[d].team # call[e].team /\ call[d].to # call[e].to

(* When a founder downloads a file, the sender's handler asks the founder's *)
(* daemon for the roster and waits for the very lock that the download     *)
(* holds: the authority cannot answer it, nor anybody else, before the     *)
(* download has given the peer up, chunk after chunk (daemon.rs:187).      *)
FounderFetchesFromNoPeer ==
  \A e \in Daemons, t \in Teams :
    holder[e] = Handler("fetch_chunk", t, Host[t]) =>
      /\ call[Host[t]] = Call("fetch_chunk", e, t)
      /\ \A d \in Daemons :
           call[d] # NONE /\ call[d].to = Host[t] => ~ Answerable(d)

(* Every daemon syncs again and again, whoever waits for whom, with users  *)
(* who download all the time and peers that deliver to each other.         *)
SyncsGoOn == \A d \in Daemons : []<>(holder[d] = Sync)
=============================================================================
