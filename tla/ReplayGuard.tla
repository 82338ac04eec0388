---------------------------- MODULE ReplayGuard ----------------------------
(***************************************************************************)
(* How the authority carries a signed request out at most once.  The       *)
(* network may delay and duplicate a request; a copy is looked at if its   *)
(* timestamp is close to the authority's clock, then waits for the         *)
(* database, and there its nonce must be new.  Nonces are forgotten after  *)
(* a while, and a request that is refused takes its nonce back with it.    *)
(***************************************************************************)
EXTENDS Integers, FiniteSets

CONSTANTS
  Requests,   \* signed requests, each with its own nonce
  Copies,     \* copies of one request that may wait at the same time
  Window,     \* how far a timestamp may be from the clock (300 s)
  Retention,  \* how long a nonce is remembered (600 s)
  Skew,       \* the senders' clocks are this far from the authority's
  MaxWait,    \* the longest wait for the database
  MaxTime     \* bound: the clock

ASSUME TimesAssumption ==
  /\ Window \in Nat /\ Retention \in Nat /\ Skew \in Nat /\ MaxWait \in Nat
  /\ MaxTime \in Nat

(* What makes the nonces last: they outlive every copy that can still pass *)
(* the timestamp.  With 300 s and 600 s this leaves 300 s for the skew of  *)
(* a sender's clock and the wait for the database together.                *)
ASSUME MarginAssumption == Skew + Window + MaxWait <= Retention

VARIABLES
  now,      \* the authority's clock
  sent,     \* the requests signed so far
  stamp,    \* stamp[r]: the timestamp in r
  waiting,  \* copies past the timestamp check, waiting for the database
  nonces,   \* the nonces table
  done      \* done[r]: how often r was carried out

vars == <<now, sent, stamp, waiting, nonces, done>>

Copy == [req : Requests, copy : Copies, since : Nat]
Nonce == [req : Requests, expires : Int]

Fresh(r) == now - stamp[r] <= Window /\ stamp[r] - now <= Window

Sign(r) ==
  /\ r \notin sent
  /\ sent' = sent \cup {r}
  /\ \E d \in -Skew..Skew : stamp' = [stamp EXCEPT ![r] = now + d]
  /\ UNCHANGED <<now, waiting, nonces, done>>

(* A copy comes in and passes the timestamp check; others leave no trace.  *)
Arrive(r, c) ==
  /\ r \in sent
  /\ Fresh(r)
  /\ \A w \in waiting : w.req # r \/ w.copy # c
  /\ waiting' = waiting \cup {[req |-> r, copy |-> c, since |-> now]}
  /\ UNCHANGED <<now, sent, stamp, nonces, done>>

(* A mutant of Kept: what has expired and what is about to are mixed up.   *)
KeptTooShort == {n \in nonces : n.expires > now + Window}

(* The nonces that the purge at the start of the transaction leaves.       *)
Kept == {n \in nonces : n.expires >= now}

Replayed(w) == \E n \in Kept : n.req = w.req

(* The transaction commits: purge, nonce and effect together.              *)
CarryOut(w) ==
  /\ w \in waiting
  /\ ~Replayed(w)
  /\ waiting' = waiting \ {w}
  /\ nonces' = Kept \cup {[req |-> w.req, expires |-> now + Retention]}
  /\ done' = [done EXCEPT ![w.req] = @ + 1]
  /\ UNCHANGED <<now, sent, stamp>>

(* A mutant of Refuse: the nonce stays although the operation failed.      *)
RefuseAndRemember(w) ==
  /\ w \in waiting
  /\ waiting' = waiting \ {w}
  /\ nonces' = nonces \cup {[req |-> w.req, expires |-> now + Retention]}
  /\ UNCHANGED <<now, sent, stamp, done>>

(* A replay, or an operation that fails: everything is rolled back, the    *)
(* purge and the nonce included.                                           *)
Refuse(w) ==
  /\ w \in waiting
  /\ waiting' = waiting \ {w}
  /\ UNCHANGED <<now, sent, stamp, nonces, done>>

(* The daemon restarts: the tables stay.                                   *)
Restart ==
  /\ waiting # {}
  /\ waiting' = {}
  /\ UNCHANGED <<now, sent, stamp, nonces, done>>

Tick ==
  /\ now < MaxTime
  /\ \A w \in waiting : now < w.since + MaxWait
  /\ now' = now + 1
  /\ UNCHANGED <<sent, stamp, waiting, nonces, done>>

Init ==
  /\ now = 0
  /\ sent = {}
  /\ stamp = [r \in Requests |-> 0]
  /\ waiting = {}
  /\ nonces = {}
  /\ done = [r \in Requests |-> 0]

Next ==
  \/ \E r \in Requests : Sign(r)
  \/ \E r \in Requests, c \in Copies : Arrive(r, c)
  \/ \E w \in waiting : CarryOut(w)
  \/ \E w \in waiting : Refuse(w)
  \/ Restart
  \/ Tick

Spec == Init /\ [][Next]_vars

----------------------------------------------------------------------------
(* Properties                                                              *)

(* Every variable keeps its type; a waiting copy passed the check, and     *)
(* has not waited longer than the bound; no nonce outlives its term        *)
(* (Service::handle).                                                      *)
TypeOK ==
  /\ now \in Nat
  /\ sent \subseteq Requests
  /\ stamp \in [Requests -> Int]
  /\ waiting \subseteq Copy
  /\ nonces \subseteq Nonce
  /\ done \in [Requests -> Nat]
  /\ \A w \in waiting :
       /\ w.req \in sent
       /\ w.since <= now /\ now <= w.since + MaxWait
       /\ w.since - stamp[w.req] <= Window
  /\ \A n \in nonces : n.expires <= now + Retention

(* However often the network repeats a request, and however long a copy    *)
(* waits between the look at its timestamp and the look at its nonce, it   *)
(* is carried out at most once (Service::handle reads the clock before it  *)
(* waits for the database, and again for the purge).                       *)
AtMostOnce == \A r \in Requests : done[r] <= 1

(* Only what was carried out is refused as a replay: a request that failed *)
(* leaves no nonce, so that a copy of it still may succeed.                *)
OnlyReplaysRefused == \A n \in nonces : done[n.req] > 0
=============================================================================
