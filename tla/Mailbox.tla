------------------------------- MODULE Mailbox ------------------------------
(***************************************************************************)
(* How a message travels: it waits in its sender's outbox, is stored by    *)
(* the authority for the members it was sealed to, and reaches each of     *)
(* them by the mailbox (pull, receive, ack, advance the cursor) or         *)
(* directly from the sender's daemon.  Each daemon's sync holds the        *)
(* client's lock, so one daemon's steps do not mix, but every call to the  *)
(* authority can fail, or be carried out and lose its answer, and a daemon *)
(* can stop between any two steps; what is in its database survives.       *)
(* The roster, the history and the copies of them are those of Rosters.    *)
(***************************************************************************)
EXTENDS Integers, Sequences, FiniteSets, Rosters

CONSTANTS
  Members,   \* the identities in the roster at the start
  Messages,  \* events, known by their id
  From,      \* From[m]: the identity that writes m
  PageLimit, \* events in one pull (100 in the code)
  Running,   \* those whose daemon keeps running (for liveness only)
  MaxMishaps \* bound: roster changes, and events that expire or have no room

ASSUME MembersAssumption == Members \subseteq Users /\ Founder \in Members
ASSUME FromAssumption == From \in [Messages -> Users]
ASSUME PageAssumption == PageLimit \in Nat \ {0}
ASSUME BoundAssumption == MaxMishaps \in Nat

VARIABLES
  store,    \* authority: stored events in order of their sequence number
  expired,  \* authority: stored events past their retention
  acked,    \* authority: pairs <<m, u>> with a receipt
  noRoom,   \* authority: events too big for what is left of its quota
  sealed,   \* sealed[m]: the recipients m was encrypted to
  status,   \* status[m]: the state of m in its sender's outbox
  outbox,   \* outbox[u]: u's events in the order they were queued
  inbox,    \* inbox[u]: the messages in u's database
  cursor,   \* cursor[u]: the last sequence number u's sync has finished with
  pc,       \* pc[u]: where u's sync is
  todo,     \* todo[u]: the queued events this sync has still to put
  batch     \* batch[u]: the sequence numbers pulled and not yet finished

authority == <<roster, admitted, store, expired, acked, noRoom>>
database  == <<known, sealed, status, outbox, inbox, cursor>>
progress  == <<pc, todo, batch>>
vars == <<authority, database, progress>>

Stages == {"idle", "put", "receive", "ack"}
Statuses == {"none", "queued", "service-stored", "failed"}

Stored == {store[i].id : i \in DOMAIN store}

(* A mutant of Waiting: expired events are pulled too.                     *)
WaitingForEver(u, c) == {i \in DOMAIN store : i > c /\ u \in store[i].to}

(* Sequence numbers of the events u may pull after number c.               *)
Waiting(u, c) ==
  {i \in DOMAIN store : i > c /\ u \in store[i].to /\ store[i].id \notin expired}

(* The first PageLimit of them.                                            *)
Page(u, c) ==
  {i \in Waiting(u, c) :
     Cardinality({j \in Waiting(u, c) : j < i}) < PageLimit}

----------------------------------------------------------------------------
(* The roster changes: an admission, or a revocation or departure          *)

(* Admissions and departures so far; the founder's return leaves the       *)
(* departure before it counted, and counts for nothing itself.             *)
Changes == Cardinality(Ever \ Members) + Cardinality(Ever \ roster)
           + Cardinality(admitted \cap {Founder})
Mishaps == Changes + Cardinality(expired) + Cardinality(noRoom)

(* A client that has the team on record makes no request to join it.       *)
Admit(u) ==
  /\ known[u] = NoCopy
  /\ Joins(u)
  /\ UNCHANGED <<store, expired, acked, noRoom, database, progress>>
  /\ Mishaps' <= MaxMishaps

(* A revocation, or a departure whose answer does not reach its daemon.    *)
Depart(u) ==
  /\ roster # {u}
  /\ Parts(u)
  /\ UNCHANGED <<store, expired, acked, noRoom, database, progress>>
  /\ Mishaps' <= MaxMishaps

(* leave: told so, the daemon deletes the team's row, with its cursor.     *)
Leave(u) ==
  /\ roster # {u}
  /\ pc[u] = "idle"
  /\ known[u] # NoCopy
  /\ Parts(u)
  /\ known' = [known EXCEPT ![u] = NoCopy]
  /\ cursor' = [cursor EXCEPT ![u] = 0]
  /\ UNCHANGED <<store, expired, acked, noRoom, sealed, status, outbox, inbox,
                 progress>>
  /\ Mishaps' <= MaxMishaps

(* Seven days pass.                                                        *)
Expire(m) ==
  /\ m \in Stored \ expired
  /\ expired' = expired \cup {m}
  /\ UNCHANGED <<roster, admitted, store, acked, noRoom, database, progress>>
  /\ Mishaps' <= MaxMishaps

(* The quota is shared by all teams of the daemon.  What they store takes  *)
(* up room, for good: what has expired stays.  Only a team that closes     *)
(* gives room back.  How much an event needs depends on its size.          *)
RoomChanges(events) ==
  /\ noRoom' = events
  /\ UNCHANGED <<roster, admitted, store, expired, acked, database, progress>>
  /\ Mishaps' <= MaxMishaps

----------------------------------------------------------------------------
(* enqueue: seal to the roster on record, and wait for the next sync       *)

Enqueue(m) ==
  LET u == From[m] IN
  /\ status[m] = "none"
  /\ pc[u] = "idle"
  /\ u \in known[u].roster
  /\ sealed' = [sealed EXCEPT ![m] = known[u].roster]
  /\ status' = [status EXCEPT ![m] = "queued"]
  /\ outbox' = [outbox EXCEPT ![u] = Append(@, m)]
  /\ UNCHANGED <<authority, known, inbox, cursor, progress>>

----------------------------------------------------------------------------
(* sync_team: refresh, and put what is queued                              *)

Queued(u) == {m \in Messages : From[m] = u /\ status[m] = "queued"}

SyncStart(u) ==
  /\ pc[u] = "idle"
  /\ u \in roster
  /\ known' = [known EXCEPT ![u] = Present]
  /\ todo' = [todo EXCEPT ![u] = Queued(u)]
  /\ pc' = [pc EXCEPT ![u] = "put"]
  /\ UNCHANGED <<authority, sealed, status, outbox, inbox, cursor, batch>>

Precedes(u, m, n) == \E i, j \in DOMAIN outbox[u] :
  i <= j /\ outbox[u][i] = m /\ outbox[u][j] = n

(* m is the next event to put: they go in the order they were queued.      *)
Putting(u, m) ==
  /\ pc[u] = "put"
  /\ m \in todo[u]
  /\ \A n \in todo[u] : Precedes(u, m, n)
  /\ todo' = [todo EXCEPT ![u] = @ \ {m}]

(* Never silently re-encrypt a queued event for a changed roster.          *)
FailForRoster(u, m) ==
  /\ Putting(u, m)
  /\ sealed[m] # known[u].roster
  /\ status' = [status EXCEPT ![m] = "failed"]
  /\ UNCHANGED <<authority, known, sealed, outbox, inbox, cursor, pc, batch>>

(* A mutant of PutAccepted: the roster is not compared again.              *)
PutAcceptedStale(u, m) ==
  /\ u \in roster
  /\ m \notin expired
  /\ m \in Stored \/ m \notin noRoom

(* A mutant of PutAccepted: the quota comes before the look for the event. *)
PutAcceptedFull(u, m) ==
  /\ u \in roster
  /\ sealed[m] = roster
  /\ m \notin expired
  /\ m \notin noRoom

(* The put handler: a member's event, sealed to the current roster; one    *)
(* that is already stored is left alone unless it has expired, and a new   *)
(* one needs room.                                                         *)
PutAccepted(u, m) ==
  /\ u \in roster
  /\ sealed[m] = roster
  /\ m \notin expired
  /\ m \in Stored \/ m \notin noRoom

(* A mutant of PutStores: a retried event is stored again.                 *)
PutStoresAgain(m) ==
  store' = Append(store, [id |-> m, to |-> sealed[m], roster |-> roster])

PutStores(m) ==
  store' = IF m \in Stored THEN store
           ELSE Append(store, [id |-> m, to |-> sealed[m], roster |-> roster])

Put(u, m) ==
  /\ Putting(u, m)
  /\ sealed[m] = known[u].roster
  /\ PutAccepted(u, m)
  /\ PutStores(m)
  /\ status' = [status EXCEPT ![m] = "service-stored"]
  /\ UNCHANGED <<roster, admitted, expired, acked, noRoom, known, sealed, outbox,
                 inbox, cursor, pc, batch>>

(* The event is stored and the answer is lost: it stays queued.            *)
PutAnswerLost(u, m) ==
  /\ Putting(u, m)
  /\ sealed[m] = known[u].roster
  /\ PutAccepted(u, m)
  /\ PutStores(m)
  /\ UNCHANGED <<roster, admitted, expired, acked, noRoom, database, pc, batch>>

(* A mutant of PutFails: the error is not told from an answer.             *)
PutFailsUnnoticed(u, m) ==
  /\ Putting(u, m)
  /\ sealed[m] = known[u].roster
  /\ status' = [status EXCEPT ![m] = "service-stored"]
  /\ UNCHANGED <<authority, known, sealed, outbox, inbox, cursor, pc, batch>>

(* Refused, no room, or never arrived: it stays queued.                    *)
PutFails(u, m) ==
  /\ Putting(u, m)
  /\ sealed[m] = known[u].roster
  /\ UNCHANGED <<authority, database, pc, batch>>

----------------------------------------------------------------------------
(* sync_team: pull a page, then receive and acknowledge                     *)

Pull(u) ==
  /\ pc[u] = "put"
  /\ todo[u] = {}
  /\ u \in roster
  /\ batch' = [batch EXCEPT ![u] = Page(u, cursor[u])]
  /\ pc' = [pc EXCEPT ![u] = IF Page(u, cursor[u]) = {} THEN "idle" ELSE "receive"]
  /\ UNCHANGED <<authority, database, todo>>

(* The pulled event whose turn it is: they are handled in order.           *)
Turn(u, i) == i \in batch[u] /\ \A j \in batch[u] : i <= j

(* receive: insert unless the id is there; the sender must be in the       *)
(* history on record.                                                      *)
Receive(u) == \E i \in batch[u] : LET m == store[i].id IN
  /\ pc[u] = "receive"
  /\ Turn(u, i)
  /\ From[m] \in known[u].ever
  /\ inbox' = [inbox EXCEPT ![u] = @ \cup {m}]
  /\ pc' = [pc EXCEPT ![u] = "ack"]
  /\ UNCHANGED <<authority, known, sealed, status, outbox, cursor, todo, batch>>

Acknowledged(u, m) ==
  /\ u \in roster
  /\ m \notin expired
  /\ acked' = acked \cup {<<m, u>>}

(* A mutant of Finish: the cursor goes to the end of the page at once.     *)
FinishPage(u, i) ==
  /\ cursor' = [cursor EXCEPT ![u] = CHOOSE j \in batch[u] :
                                       \A k \in batch[u] : k <= j]
  /\ batch' = [batch EXCEPT ![u] = @ \ {i}]
  /\ pc' = [pc EXCEPT ![u] = IF batch[u] = {i} THEN "idle" ELSE "receive"]

Finish(u, i) ==
  /\ cursor' = [cursor EXCEPT ![u] = i]
  /\ batch' = [batch EXCEPT ![u] = @ \ {i}]
  /\ pc' = [pc EXCEPT ![u] = IF batch[u] = {i} THEN "idle" ELSE "receive"]

(* The receipt is recorded and answered, and the cursor moves.  An end     *)
(* between the two is AckAnswerLost: the cursor is u's own.                *)
Ack(u) == \E i \in batch[u] :
  /\ pc[u] = "ack"
  /\ Turn(u, i)
  /\ Acknowledged(u, store[i].id)
  /\ Finish(u, i)
  /\ UNCHANGED <<roster, admitted, store, expired, noRoom, known, sealed, status,
                 outbox, inbox, todo>>

Stopped(u) ==
  /\ pc' = [pc EXCEPT ![u] = "idle"]
  /\ todo' = [todo EXCEPT ![u] = {}]
  /\ batch' = [batch EXCEPT ![u] = {}]

(* The receipt is recorded, its answer is lost and the sync ends.          *)
AckAnswerLost(u) == \E i \in batch[u] :
  /\ pc[u] = "ack"
  /\ Turn(u, i)
  /\ Acknowledged(u, store[i].id)
  /\ Stopped(u)
  /\ UNCHANGED <<roster, admitted, store, expired, noRoom, database>>

(* Any other error ends the sync of this team, and so does the end of the  *)
(* daemon: a call that fails, a sender the copy does not know yet, an ack  *)
(* for an expired event.  The next sync starts over from the database.     *)
Abort(u) ==
  /\ pc[u] # "idle"
  /\ Stopped(u)
  /\ UNCHANGED <<authority, database>>

----------------------------------------------------------------------------
(* direct_batch and the deliver handler: the sender hands the stored event *)
(* to a member's daemon, which refreshes, has the authority authorize it,  *)
(* receives it and acknowledges it.  The cursor does not move.             *)

Deliver(m, u) ==
  LET v == From[m] IN
  /\ status[m] = "service-stored"
  /\ u \in known[v].roster \ {v}
  /\ pc[u] = "idle"
  /\ u \in known[u].roster
  /\ {u, v} \subseteq roster
  /\ \E i \in DOMAIN store : store[i].id = m /\ u \in store[i].to
  /\ m \notin expired
  /\ known' = [known EXCEPT ![u] = Present]
  /\ inbox' = [inbox EXCEPT ![u] = @ \cup {m}]
  /\ \/ acked' = acked \cup {<<m, u>>}
     \/ acked' = acked
  /\ UNCHANGED <<roster, admitted, store, expired, noRoom, sealed, status, outbox,
                 cursor, progress>>

----------------------------------------------------------------------------
Init ==
  /\ roster = Members
  /\ admitted = Members \ {Founder}
  /\ store = <<>>
  /\ expired = {}
  /\ acked = {}
  /\ noRoom = {}
  /\ known = [u \in Users |->
       IF u \in Members THEN [roster |-> Members, ever |-> Members] ELSE NoCopy]
  /\ sealed = [m \in Messages |-> {}]
  /\ status = [m \in Messages |-> "none"]
  /\ outbox = [u \in Users |-> <<>>]
  /\ inbox = [u \in Users |-> {}]
  /\ cursor = [u \in Users |-> 0]
  /\ pc = [u \in Users |-> "idle"]
  /\ todo = [u \in Users |-> {}]
  /\ batch = [u \in Users |-> {}]

Next ==
  \/ \E u \in Users : Admit(u)
  \/ \E u \in Users : Depart(u)
  \/ \E u \in Users : Leave(u)
  \/ \E m \in Messages : Expire(m)
  \/ \E events \in SUBSET Messages : RoomChanges(events)
  \/ \E m \in Messages : Enqueue(m)
  \/ \E u \in Users : SyncStart(u)
  \/ \E u \in Users, m \in Messages : FailForRoster(u, m)
  \/ \E u \in Users, m \in Messages : Put(u, m)
  \/ \E u \in Users, m \in Messages : PutAnswerLost(u, m)
  \/ \E u \in Users, m \in Messages : PutFails(u, m)
  \/ \E u \in Users : Pull(u)
  \/ \E u \in Users : Receive(u)
  \/ \E u \in Users : Ack(u)
  \/ \E u \in Users : AckAnswerLost(u)
  \/ \E u \in Users : Abort(u)
  \/ \E u \in Users, m \in Messages : Deliver(m, u)

Spec == Init /\ [][Next]_vars

----------------------------------------------------------------------------
(* Fairness: the daemon syncs every two seconds and gives each call up     *)
(* after a bounded time, so that a sync always starts, moves on and ends;  *)
(* and a call that is tried again and again, and each time could be        *)
(* carried out, gets through in the end.  A put could not while there is   *)
(* no room, and nothing here says that there will be.  Of the rest of a    *)
(* sync it is assumed that neither a join to another team nor a chunk that *)
(* is refused (OnlyStaleJoinsBlock of JoinFlow, OnlyChunksBlockTheInbox of *)
(* Files) ends it before the pull.  All this concerns the members in       *)
(* Running; the other daemons may stop at any moment for good.             *)

PutStep(u, m) ==
  FailForRoster(u, m) \/ Put(u, m) \/ PutAnswerLost(u, m) \/ PutFails(u, m)

SyncStep(u) ==
  \/ SyncStart(u) \/ (\E m \in Messages : PutStep(u, m))
  \/ Pull(u) \/ Receive(u) \/ Ack(u) \/ AckAnswerLost(u) \/ Abort(u)

PutSettles(u) == \E m \in Messages : FailForRoster(u, m) \/ Put(u, m)

Own(u) == {m \in Messages : From[m] = u}

SyncFairness(u) ==
  /\ WF_vars(SyncStep(u))
  /\ \A m \in Own(u) : SF_vars(PutStep(u, m))
  /\ SF_vars(PutSettles(u))
  /\ SF_vars(Pull(u))
  /\ SF_vars(Receive(u))
  /\ SF_vars(Ack(u))

FairSpec == Spec /\ \A u \in Running : SyncFairness(u)

----------------------------------------------------------------------------
(* Properties                                                              *)

Copies == [roster : SUBSET Users, ever : SUBSET Users]
Entries == [id : Messages, to : SUBSET Users, roster : SUBSET Users]

(* Every variable keeps its type, and a sync holds work exactly in the     *)
(* stage that needs it: receiving and acknowledging have a pulled event of *)
(* the store at hand (sync_team, client.rs).                               *)
TypeOK ==
  /\ roster \subseteq Ever /\ Ever \subseteq Users
  /\ store \in Seq(Entries)
  /\ expired \subseteq Stored
  /\ acked \subseteq Messages \X Users
  /\ noRoom \subseteq Messages
  /\ known \in [Users -> Copies]
  /\ sealed \in [Messages -> SUBSET Users]
  /\ status \in [Messages -> Statuses]
  /\ outbox \in [Users -> Seq(Messages)]
  /\ inbox \in [Users -> SUBSET Messages]
  /\ cursor \in [Users -> Nat]
  /\ pc \in [Users -> Stages]
  /\ todo \in [Users -> SUBSET Messages]
  /\ batch \in [Users -> SUBSET (DOMAIN store)]
  /\ \A u \in Users : pc[u] \in {"receive", "ack"} <=> batch[u] # {}

(* Nothing is lost on the way in: the cursor only ever passes an event     *)
(* that its owner has in the inbox and has confirmed, whatever was cut     *)
(* short and however direct deliveries ran ahead of it (sync_team receives *)
(* and acknowledges before it writes the cursor).  This includes an event  *)
(* a failed receive left behind.                                           *)
CursorSkipsNothing ==
  \A u \in Users : \A i \in DOMAIN store :
    i <= cursor[u] /\ u \in store[i].to =>
      \/ store[i].id \in expired
      \/ store[i].id \in inbox[u] /\ <<store[i].id, u>> \in acked

(* A receipt the sender sees ("recipient-delivered") is never ahead of the *)
(* recipient's database, over both routes (client.rs receive, then ack;    *)
(* the deliver handler of daemon.rs).                                      *)
AckedIsKept == \A p \in acked : p[1] \in inbox[p[2]]

(* What is stored is for the roster of the moment it was stored, no more   *)
(* and no less, and only that roster ever reads it: not a member admitted  *)
(* later, nor one revoked between sealing and storing (validate_envelope). *)
ReadByTheRosterOfTheTime ==
  \A i \in DOMAIN store :
    /\ store[i].to = store[i].roster
    /\ \A u \in Users : store[i].id \in inbox[u] => u \in store[i].roster

(* "service-stored" in an outbox is the truth, and stays the truth however *)
(* puts are lost and retried (sync_team).                                  *)
StoredStatusIsTrue ==
  \A m \in Messages : status[m] = "service-stored" => m \in Stored

(* The store as the abstract specification sees it.                        *)
posted ==
  [i \in DOMAIN store |-> [id |-> store[i].id, to |-> store[i].to]]

D == INSTANCE Delivery WITH received <- inbox, confirmed <- acked

(* The mailbox implements Delivery: whatever is retried, a message is      *)
(* posted once and for fixed recipients, is received by them alone, and is *)
(* confirmed only once received (put's idempotence, pull, receive, ack).   *)
DeliverySpec == D!Spec

(* Everything stored for u that has not expired is in u's inbox.           *)
HasItsMail(u) == \A i \in DOMAIN store :
  u \in store[i].to => store[i].id \in inbox[u] \cup expired

(* A member whose daemon runs, and who stays, has all its mail again and   *)
(* again: no failed step, no event ahead in the mailbox and no unknown     *)
(* sender holds an event up for ever (sync_team), and nobody else's daemon *)
(* is needed for it.  Set aside, by the fairness of Pull: a refused chunk  *)
(* and a stale join to another team, which end syncs before the pull.      *)
StoredIsDelivered == \A u \in Running : []<>(HasItsMail(u) \/ u \notin roster)

(* An event in the outbox is stored, or failed because the roster changed, *)
(* whatever is lost and whatever lies before it in the queue, unless its   *)
(* sender leaves, it expires unconfirmed, or the authority has no room for *)
(* it, which may be for ever; an event that is stored needs none (the      *)
(* outbox loop of sync_team, the quota of the put handler).                *)
OutboxDrains ==
  \A u \in Running : []<>(Queued(u) \subseteq expired \cup (noRoom \ Stored) \/ u \notin roster)

(* "Membership changed; explicitly resend with the current roster": the    *)
(* outbox says an event failed only when it was not stored, so that        *)
(* sending it again does not send it twice (sync_team, client.rs).         *)
FailedIsNotStored ==
  \A m \in Messages : status[m] = "failed" => m \notin Stored
=============================================================================
