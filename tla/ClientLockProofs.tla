-------------------------- MODULE ClientLockProofs --------------------------
(* Which circles of waiting daemons can close, for any number of daemons    *)
(* and teams.  The invariant LockInv says who waits for what: a waiting     *)
(* task holds its lock and makes one of the calls its kind makes, and       *)
(* whoever a handler serves is waiting for that very call.                  *)
EXTENDS ClientLock, TLAPS

TasksWait == \A d \in Daemons :
  call[d] # NONE => /\ holder[d] # NONE
                    /\ call[d] \in CallsOf(d, holder[d])
                    /\ call[d].to # d

CallersWait == \A d, e \in Daemons, t \in Teams :
  /\ holder[e] = Handler("fetch_chunk", t, d) =>
       call[d] = Call("fetch_chunk", e, t)
  /\ holder[e] = Handler("deliver", t, d) =>
       direct[d] = Call("deliver", e, t)

SyncAlone == \A d \in Daemons : holder[d] = Sync => direct[d] = NONE

LockInv == TypeOK /\ TasksWait /\ CallersWait /\ SyncAlone

(* The tasks, the calls and NONE are told apart.                            *)
LEMMA TasksAreTasks ==
  /\ Sync \in Tasks
  /\ \A t \in Teams : Download(t) \in Tasks /\ Abandoned(t) \in Tasks
  /\ \A t \in Teams, d \in Daemons, k \in {"fetch_chunk", "deliver"} :
       Handler(k, t, d) \in Handlers /\ Handler(k, t, d) \in Tasks
  BY DEF Tasks, Handlers, Handler, Download, Abandoned, Sync

LEMMA CallsAreCalls ==
  /\ \A d \in Daemons, t \in Teams :
       /\ Call("fetch_chunk", d, t) \in Calls
       /\ Call("rpc", d, t) \in Calls
       /\ Call("deliver", d, t) \in Calls
  /\ Batch \notin Calls
  BY NoneAssumption DEF Calls, Call, Batch

LEMMA InitLock == Init => LockInv
<1> SUFFICES ASSUME Init PROVE LockInv
  OBVIOUS
<1>1. TypeOK
  BY DEF Init, TypeOK
<1>2. TasksWait
  BY DEF Init, TasksWait
<1>3. CallersWait
  BY TasksAreTasks, NoneAssumption DEF Init, CallersWait
<1>4. SyncAlone
  BY DEF Init, SyncAlone
<1> QED
  BY <1>1, <1>2, <1>3, <1>4 DEF LockInv

(* Granting the lock, to any task.                                          *)
LEMMA GrantKeeps ==
  ASSUME LockInv, NEW d \in Daemons, NEW x \in Tasks, Grant(d, x)
  PROVE  TypeOK' /\ TasksWait'
<1>1. TypeOK'
  BY DEF LockInv, TypeOK, Grant
<1>2. TasksWait'
  BY NoneAssumption DEF LockInv, TypeOK, TasksWait, Grant, CallsOf
<1> QED
  BY <1>1, <1>2

(* To a task that serves nobody.                                            *)
LEMMA GrantToOwn ==
  ASSUME LockInv, NEW d \in Daemons, NEW x \in Tasks, Grant(d, x),
         x \notin Handlers, x = Sync => direct[d] = NONE
  PROVE  LockInv'
<1>1. CallersWait'
  BY TasksAreTasks DEF LockInv, TypeOK, CallersWait, Grant
<1>2. SyncAlone'
  BY DEF LockInv, TypeOK, SyncAlone, Grant
<1> QED
  BY <1>1, <1>2, GrantKeeps DEF LockInv

LEMMA ServeKeeps ==
  ASSUME LockInv, NEW d \in Daemons, ServeFetch(d) \/ ServeDeliver(d)
  PROVE  LockInv'
<1>1. CASE ServeFetch(d)
  <2> DEFINE e == call[d].to  t == call[d].team
             x == Handler("fetch_chunk", t, d)
  <2>1. call[d] \in Calls /\ e \in Daemons /\ t \in Teams
    BY <1>1 DEF LockInv, TypeOK, ServeFetch, Calls
  <2>2. x \in Tasks /\ Grant(e, x)
    BY <1>1, <2>1, TasksAreTasks DEF ServeFetch
  <2>3. call[d] = Call("fetch_chunk", e, t)
    BY <1>1, <2>1 DEF ServeFetch, Calls, Call
  <2>4. CallersWait'
    BY <2>1, <2>2, <2>3 DEF LockInv, TypeOK, CallersWait, Grant, Handler
  <2>5. SyncAlone'
    BY <2>1, <2>2 DEF LockInv, TypeOK, SyncAlone, Grant, Handler, Sync
  <2> QED
    BY <2>1, <2>2, <2>4, <2>5, GrantKeeps DEF LockInv
<1>2. CASE ServeDeliver(d)
  <2> DEFINE e == direct[d].to  t == direct[d].team
             x == Handler("deliver", t, d)
  <2>1. direct[d] = Call("deliver", e, t) /\ e \in Daemons /\ t \in Teams
    BY <1>2 DEF ServeDeliver, Deliveries, Calls, Call
  <2>2. x \in Tasks /\ Grant(e, x)
    BY <1>2, <2>1, TasksAreTasks DEF ServeDeliver
  <2>3. CallersWait'
    BY <2>1, <2>2 DEF LockInv, TypeOK, CallersWait, Grant, Handler
  <2>4. SyncAlone'
    BY <2>1, <2>2 DEF LockInv, TypeOK, SyncAlone, Grant, Handler, Sync
  <2> QED
    BY <2>1, <2>2, <2>3, <2>4, GrantKeeps DEF LockInv
<1> QED
  BY <1>1, <1>2

LEMMA MakeKeeps ==
  ASSUME LockInv, NEW d \in Daemons, NEW c \in Calls, Make(d, c)
  PROVE  LockInv'
<1>1. TypeOK'
  BY DEF LockInv, TypeOK, Make
<1>2. TasksWait'
  BY DEF LockInv, TypeOK, TasksWait, Make
<1>3. CallersWait'
  BY CallsAreCalls, NoneAssumption
  DEF LockInv, TypeOK, CallersWait, Make
<1>4. SyncAlone'
  BY DEF LockInv, SyncAlone, Make
<1> QED
  BY <1>1, <1>2, <1>3, <1>4 DEF LockInv

LEMMA AnswerKeeps ==
  ASSUME LockInv, NEW d \in Daemons, Answer(d)
  PROVE  LockInv'
<1> USE DEF Answer, Answerable
<1>1. TypeOK'
  BY DEF LockInv, TypeOK
<1>2. TasksWait'
  BY DEF LockInv, TypeOK, TasksWait
<1>3. CallersWait'
  BY DEF LockInv, TypeOK, CallersWait, Call
<1>4. SyncAlone'
  BY DEF LockInv, SyncAlone
<1> QED
  BY <1>1, <1>2, <1>3, <1>4 DEF LockInv

(* A task that ends waits for nothing; a handler's caller goes on.  The     *)
(* caller of another handler waits for another call.                        *)
LEMMA FinishKeeps ==
  ASSUME LockInv, NEW d \in Daemons, Finish(d)
  PROVE  LockInv'
<1> DEFINE x == holder[d]
<1>1. x \in Tasks /\ call[d] = NONE /\ holder' = [holder EXCEPT ![d] = NONE]
  BY DEF LockInv, TypeOK, Finish
<1>2. SyncAlone' \/ x.kind = "sync" \/ direct' # direct
  BY <1>1, NoneAssumption, TasksAreTasks DEF LockInv, TypeOK, SyncAlone
<1>3. CASE x.kind = "fetch_chunk"
  <2>1. /\ x = Handler("fetch_chunk", x.team, x.caller)
        /\ x.caller \in Daemons /\ x.team \in Teams
    BY <1>1, <1>3 DEF Tasks, Handlers, Handler, Sync, Download, Abandoned
  <2>2. /\ call' = [call EXCEPT ![x.caller] = NONE]
        /\ direct' = direct
    BY <1>3 DEF Finish
  <2>3. TypeOK' /\ TasksWait'
    BY <1>1, <2>1, <2>2 DEF LockInv, TypeOK, TasksWait
  <2>4. call[x.caller] = Call("fetch_chunk", d, x.team)
    BY <2>1 DEF LockInv, CallersWait
  <2>5. CallersWait'
    BY <1>1, <2>1, <2>2, <2>4, TasksAreTasks, NoneAssumption
    DEF LockInv, TypeOK, CallersWait, Call
  <2> QED
    BY <1>2, <1>3, <2>2, <2>3, <2>5 DEF LockInv
<1>4. CASE x.kind = "deliver"
  <2>1. /\ x = Handler("deliver", x.team, x.caller)
        /\ x.caller \in Daemons /\ x.team \in Teams
    BY <1>1, <1>4 DEF Tasks, Handlers, Handler, Sync, Download, Abandoned
  <2>2. /\ direct' = [direct EXCEPT ![x.caller] = Batch]
        /\ call' = call
    BY <1>4 DEF Finish
  <2>3. TypeOK' /\ TasksWait'
    BY <1>1, <2>1, <2>2 DEF LockInv, TypeOK, TasksWait
  <2>4. direct[x.caller] = Call("deliver", d, x.team)
    BY <2>1 DEF LockInv, CallersWait
  <2>5. CallersWait'
    BY <1>1, <2>1, <2>2, <2>4, TasksAreTasks, NoneAssumption
    DEF LockInv, TypeOK, CallersWait, Call
  <2>6. SyncAlone'
    BY <1>1, <2>1, <2>2, <2>4, CallsAreCalls, TasksAreTasks, NoneAssumption
    DEF LockInv, TypeOK, SyncAlone
  <2> QED
    BY <2>2, <2>3, <2>5, <2>6 DEF LockInv
<1>5. CASE x.kind = "sync"
  <2>1. x = Sync /\ direct[d] = NONE
    BY <1>1, <1>5
    DEF Tasks, Handlers, Sync, Download, Abandoned, Handler, LockInv, SyncAlone
  <2>2. call' = call /\ direct' = [direct EXCEPT ![d] = Batch]
    BY <1>5 DEF Finish
  <2>3. TypeOK' /\ TasksWait'
    BY <1>1, <2>2 DEF LockInv, TypeOK, TasksWait
  <2>4. CallersWait'
    BY <1>1, <2>1, <2>2, TasksAreTasks, CallsAreCalls, NoneAssumption
    DEF LockInv, TypeOK, CallersWait
  <2>5. SyncAlone'
    BY <1>1, <2>1, <2>2, TasksAreTasks, NoneAssumption
    DEF LockInv, TypeOK, SyncAlone
  <2> QED
    BY <2>3, <2>4, <2>5 DEF LockInv
<1>6. CASE x.kind \notin {"fetch_chunk", "deliver", "sync"}
  <2>1. call' = call /\ direct' = direct
    BY <1>6 DEF Finish
  <2>2. TypeOK' /\ TasksWait'
    BY <1>1, <2>1 DEF LockInv, TypeOK, TasksWait
  <2>3. CallersWait'
    BY <1>1, <2>1, TasksAreTasks, NoneAssumption
    DEF LockInv, TypeOK, CallersWait
  <2> QED
    BY <1>2, <1>6, <2>1, <2>2, <2>3 DEF LockInv
<1> QED
  BY <1>3, <1>4, <1>5, <1>6

LEMMA BatchKeeps ==
  ASSUME LockInv, NEW d \in Daemons,
         EndBatch(d) \/ \E e \in Daemons, t \in Teams : Deliver(d, e, t)
  PROVE  LockInv'
<1>1. direct[d] = Batch /\ UNCHANGED <<holder, call>>
  BY DEF EndBatch, Deliver
<1>2. PICK v \in Deliveries \cup {NONE} : direct' = [direct EXCEPT ![d] = v]
  BY CallsAreCalls DEF EndBatch, Deliver, Deliveries, Call
<1>3. TypeOK' /\ TasksWait'
  BY <1>1, <1>2 DEF LockInv, TypeOK, TasksWait
<1>4. CallersWait'
  BY <1>1, <1>2, CallsAreCalls DEF LockInv, TypeOK, CallersWait
<1>5. SyncAlone'
  BY <1>1, <1>2, NoneAssumption DEF LockInv, TypeOK, SyncAlone
<1> QED
  BY <1>3, <1>4, <1>5 DEF LockInv

(* A call ends whose handler, if it has begun, serves nobody any more.      *)
LEMMA AbandonKeeps ==
  ASSUME LockInv, NEW d \in Daemons, NEW c \in Calls, Abandon(d, c)
  PROVE  /\ holder' \in [Daemons -> Tasks \cup {NONE}]
         /\ \A e \in Daemons :
              /\ holder[e] # NONE => holder'[e] # NONE
              /\ CallsOf(e, holder'[e]) = CallsOf(e, holder[e])
              /\ \A k \in {"fetch_chunk", "deliver"}, t \in Teams,
                    b \in Daemons :
                  holder'[e] = Handler(k, t, b) =>
                    /\ holder[e] = Handler(k, t, b)
                    /\ b = d => Call(k, e, t) # c
              /\ holder'[e] = Sync => holder[e] = Sync
<1> DEFINE x == Handler(c.kind, c.team, d)
<1>1. /\ c = Call(c.kind, c.to, c.team) /\ c.to \in Daemons /\ c.team \in Teams
      /\ c.kind \in {"rpc", "fetch_chunk", "deliver"}
  BY DEF Calls, Call
<1>2. \A e \in Daemons :
        \/ holder'[e] = holder[e] /\ (e = c.to => holder[e] # x)
        \/ e = c.to /\ holder[e] = x /\ holder'[e] = Abandoned(c.team)
  BY <1>1 DEF Abandon, LockInv, TypeOK
<1>3. holder' \in [Daemons -> Tasks \cup {NONE}]
  BY <1>1, TasksAreTasks DEF Abandon, LockInv, TypeOK
<1>4. Abandoned(c.team) # NONE
  BY <1>1, TasksAreTasks, NoneAssumption
<1>5. \A e \in Daemons : CallsOf(e, Abandoned(c.team)) = CallsOf(e, x)
  BY <1>1 DEF CallsOf, Abandoned, Handler
<1>6. ASSUME NEW e \in Daemons, NEW k \in {"fetch_chunk", "deliver"},
             NEW t \in Teams, NEW b \in Daemons, holder'[e] = Handler(k, t, b)
      PROVE  holder[e] = Handler(k, t, b) /\ (b = d => Call(k, e, t) # c)
  <2>1. Abandoned(c.team) # Handler(k, t, b)
    BY DEF Abandoned, Handler
  <2>2. holder[e] = Handler(k, t, b) /\ (e = c.to => holder[e] # x)
    BY <1>2, <1>6, <2>1
  <2> QED
    BY <2>2 DEF Call
<1>7. Abandoned(c.team) # Sync
  BY DEF Abandoned, Handler, Sync
<1> QED
  BY <1>2, <1>3, <1>4, <1>5, <1>6, <1>7

LEMMA GiveUpKeeps ==
  ASSUME LockInv, NEW d \in Daemons, GiveUp(d) \/ GiveUpDirect(d)
  PROVE  LockInv'
<1>1. CASE GiveUp(d)
  <2>1. /\ call[d] \in Calls /\ Abandon(d, call[d])
        /\ call' = [call EXCEPT ![d] = NONE] /\ direct' = direct
    BY <1>1 DEF GiveUp, LockInv, TypeOK
  <2>2. TypeOK' /\ TasksWait' /\ SyncAlone'
    BY <2>1, AbandonKeeps DEF LockInv, TypeOK, TasksWait, SyncAlone
  <2>3. CallersWait'
    BY <2>1, AbandonKeeps DEF LockInv, TypeOK, CallersWait
  <2> QED
    BY <2>2, <2>3 DEF LockInv
<1>2. CASE GiveUpDirect(d)
  <2>1. /\ direct[d] \in Calls /\ Abandon(d, direct[d])
        /\ direct' = [direct EXCEPT ![d] = Batch] /\ call' = call
        /\ direct[d] # NONE
    BY <1>2, NoneAssumption DEF GiveUpDirect, Deliveries
  <2>2. TypeOK' /\ TasksWait'
    BY <2>1, AbandonKeeps DEF LockInv, TypeOK, TasksWait
  <2>3. CallersWait'
    BY <2>1, AbandonKeeps DEF LockInv, TypeOK, CallersWait
  <2>4. SyncAlone'
    BY <2>1, AbandonKeeps DEF LockInv, TypeOK, SyncAlone
  <2> QED
    BY <2>2, <2>3, <2>4 DEF LockInv
<1> QED
  BY <1>1, <1>2

LEMMA StepKeepsLock == LockInv /\ [Next]_vars => LockInv'
<1> SUFFICES ASSUME LockInv, [Next]_vars PROVE LockInv'
  OBVIOUS
<1>1. ASSUME NEW d \in Daemons, StartSync(d) PROVE LockInv'
  BY <1>1, TasksAreTasks, GrantToOwn DEF StartSync, Handlers, Sync
<1>2. ASSUME NEW d \in Daemons, NEW t \in Teams, StartDownload(d, t)
      PROVE  LockInv'
  <2>1. Download(t) \in Tasks \ Handlers /\ Download(t) # Sync
    BY TasksAreTasks DEF Download, Handlers, Sync
  <2> QED
    BY <1>2, <2>1, GrantToOwn DEF StartDownload
<1>3. ASSUME NEW d \in Daemons, NEW t \in Teams, ServeNobody(d, t)
      PROVE  LockInv'
  <2>1. Abandoned(t) \in Tasks \ Handlers /\ Abandoned(t) # Sync
    BY TasksAreTasks DEF Abandoned, Handler, Handlers, Sync
  <2> QED
    BY <1>3, <2>1, GrantToOwn DEF ServeNobody
<1>4. CASE UNCHANGED vars
  BY <1>4 DEF vars, LockInv, TypeOK, TasksWait, CallersWait, SyncAlone
<1> QED
  BY <1>1, <1>2, <1>3, <1>4, ServeKeeps, MakeKeeps, AnswerKeeps, FinishKeeps,
     BatchKeeps, GiveUpKeeps DEF Next

(* The variables keep their types, and tasks and callers wait as described. *)
THEOREM LockIsConsistent == Spec => []LockInv
  BY InitLock, StepKeepsLock, PTL DEF Spec

(* A circle without a download from a peer consists of calls to             *)
(* authorities, of which no daemon waits for itself: two of them go to      *)
(* different authorities, and so are of different teams.                    *)
LEMMA CirclesAreKnown == LockInv => KnownCircles
<1> SUFFICES ASSUME LockInv, NEW S \in SUBSET Daemons, Circle(S),
                    \A d \in S : ~ (/\ holder[d].kind = "download"
                                    /\ call[d].kind = "fetch_chunk")
             PROVE  \E d, e \in S : /\ call[d].team # call[e].team
                                    /\ call[d].to # call[e].to
  BY DEF KnownCircles
<1>1. ASSUME NEW d \in S PROVE /\ call[d].to \in S
                               /\ call[d].to # d
                               /\ call[d].to = Host[call[d].team]
  <2>1. /\ call[d] # NONE /\ call[d].to \in S
    BY DEF Circle
  <2>2. /\ call[d] \in CallsOf(d, holder[d]) /\ call[d].to # d
        /\ holder[d] # NONE
    BY <2>1 DEF LockInv, TasksWait
  <2>3. call[d].to = Host[call[d].team]
    BY <2>2 DEF CallsOf, Call
  <2> QED
    BY <2>1, <2>2, <2>3
<1>2. PICK d \in S : TRUE
  BY DEF Circle
<1>3. call[d].to \in S /\ call[call[d].to].to # call[d].to
  BY <1>1, <1>2
<1> QED
  BY <1>1, <1>2, <1>3

(* For any daemons and teams: only downloads from peers and authorities of  *)
(* two teams ever wait in a circle.                                         *)
THEOREM OnlyKnownCircles == Spec => []KnownCircles
  BY LockIsConsistent, CirclesAreKnown, PTL

LEMMA FounderWaits == LockInv => FounderFetchesFromNoPeer
<1> SUFFICES ASSUME LockInv, NEW e \in Daemons, NEW t \in Teams,
                    holder[e] = Handler("fetch_chunk", t, Host[t])
             PROVE  /\ call[Host[t]] = Call("fetch_chunk", e, t)
                    /\ \A d \in Daemons :
                         call[d] # NONE /\ call[d].to = Host[t] =>
                           ~ Answerable(d)
  BY DEF FounderFetchesFromNoPeer
<1>1. Host[t] \in Daemons
  BY TeamsAssumption
<1>2. call[Host[t]] = Call("fetch_chunk", e, t)
  BY <1>1 DEF LockInv, CallersWait
<1>3. holder[Host[t]] # NONE
  BY <1>1, <1>2, CallsAreCalls, NoneAssumption DEF LockInv, TasksWait
<1> QED
  BY <1>2, <1>3 DEF Answerable

(* While a peer serves the founder's download, the founder's daemon answers *)
(* nobody as an authority, that peer included.                              *)
THEOREM FounderGetsNoChunkFromAPeer == Spec => []FounderFetchesFromNoPeer
  BY LockIsConsistent, FounderWaits, PTL
=============================================================================
