---------------------------- MODULE MailboxProofs ---------------------------
(***************************************************************************)
(* Proofs about Mailbox, for every set of members and messages, every page *)
(* size and every bound.                                                   *)
(***************************************************************************)
EXTENDS Mailbox, FiniteSetTheorems, SequenceTheorems, TLAPS

----------------------------------------------------------------------------
(* The inductive invariant, in parts                                       *)

(* Who an entry of the store is for.                                       *)
Recipient(u, i) == i \in DOMAIN store /\ u \in store[i].to

(* An event is stored once, and for the roster of that moment.             *)
StoreOK ==
  /\ \A i, j \in DOMAIN store : store[i].id = store[j].id => i = j
  /\ \A i \in DOMAIN store : store[i].to = store[i].roster

(* Only stored events are received, and only by their recipients.          *)
InboxOK ==
  \A u \in Users : \A m \in inbox[u] :
    \E i \in DOMAIN store : store[i].id = m /\ u \in store[i].to

(* What was pulled lies ahead of the cursor and is the puller's; and       *)
(* nothing of the puller's lies in between, unless it has expired.         *)
BatchOK ==
  \A u \in Users :
    /\ cursor[u] <= Len(store)
    /\ \A i \in batch[u] : i > cursor[u] /\ u \in store[i].to
    /\ \A i \in DOMAIN store :
         u \in store[i].to /\ i > cursor[u] /\ i \notin batch[u]
           /\ (\E j \in batch[u] : i < j)
         => store[i].id \in expired

(* The event being acknowledged has been received.                         *)
TurnOK ==
  \A u \in Users : pc[u] = "ack" =>
    \A i \in batch[u] : Turn(u, i) => store[i].id \in inbox[u]

IInv ==
  /\ TypeOK /\ StoreOK /\ InboxOK /\ BatchOK /\ TurnOK
  /\ AckedIsKept /\ CursorSkipsNothing /\ StoredStatusIsTrue

LEMMA InitInv == Init => IInv
<1> SUFFICES ASSUME Init PROVE IInv
  OBVIOUS
<1> USE MembersAssumption DEF Init
<1>1. TypeOK
  BY DEF TypeOK, Ever, NoCopy, Copies, Entries, Stored, Statuses, Stages
<1>2. StoreOK /\ InboxOK /\ BatchOK /\ TurnOK
  BY DEF StoreOK, InboxOK, BatchOK, TurnOK
<1>3. AckedIsKept /\ CursorSkipsNothing /\ StoredStatusIsTrue
  BY DEF AckedIsKept, CursorSkipsNothing, StoredStatusIsTrue
<1>4. QED
  BY <1>1, <1>2, <1>3 DEF IInv

----------------------------------------------------------------------------
(* Types are kept, action by action                                        *)

LEMMA TypeStep == TypeOK /\ [Next]_vars => TypeOK'
<1> SUFFICES ASSUME TypeOK, [Next]_vars PROVE TypeOK'
  OBVIOUS
<1> USE MembersAssumption, FromAssumption DEF Ever
<1>0. ASSUME NEW u \in Users, NEW i \in batch[u]
      PROVE  store[i].id \in Messages
  <2>1. i \in DOMAIN store /\ store \in Seq(Entries)
    BY DEF TypeOK
  <2>2. store[i] \in Entries
    BY <2>1
  <2>3. QED
    BY <2>2 DEF Entries
<1>1. ASSUME NEW u \in Users, Admit(u) PROVE TypeOK'
  <2>1. roster' \subseteq Ever' /\ Ever' \subseteq Users
    BY <1>1 DEF Admit, Joins, TypeOK
  <2>2. QED
    BY <1>1, <2>1 DEF Admit, TypeOK, database, progress, Stored
<1>2. ASSUME NEW u \in Users, Depart(u) PROVE TypeOK'
  BY <1>2 DEF Depart, Parts, Ever, TypeOK, database, progress, Stored
<1>20. ASSUME NEW u \in Users, Leave(u) PROVE TypeOK'
  <2> USE <1>20 DEF Leave, Parts, progress
  <2>1. known' \in [Users -> Copies] /\ cursor' \in [Users -> Nat]
    BY DEF TypeOK, NoCopy, Copies
  <2>2. QED
    BY <2>1 DEF TypeOK, Ever, Stored
<1>3. ASSUME NEW m \in Messages, Expire(m) PROVE TypeOK'
  <2>1. /\ expired' \subseteq Stored /\ m \in Stored
        /\ UNCHANGED <<roster, admitted, store, acked, noRoom, database, progress>>
    BY <1>3 DEF Expire, TypeOK
  <2>2. QED
    BY <2>1 DEF TypeOK, database, progress, Stored
<1>21. ASSUME NEW events \in SUBSET Messages, RoomChanges(events) PROVE TypeOK'
  BY <1>21 DEF RoomChanges, TypeOK, database, progress, Stored
<1>4. ASSUME NEW m \in Messages, Enqueue(m) PROVE TypeOK'
  <2> USE <1>4 DEF Enqueue, authority, progress
  <2>1. From[m] \in Users /\ known[From[m]].roster \in SUBSET Users
    BY DEF TypeOK, Copies
  <2>2. /\ sealed' \in [Messages -> SUBSET Users]
        /\ status' \in [Messages -> Statuses]
        /\ outbox' \in [Users -> Seq(Messages)]
    BY <2>1 DEF TypeOK, Statuses
  <2>3. QED
    BY <2>2 DEF TypeOK, Stored
<1>5. ASSUME NEW u \in Users, SyncStart(u) PROVE TypeOK'
  <2>1. known' \in [Users -> Copies] /\ todo' \in [Users -> SUBSET Messages]
    BY <1>5 DEF SyncStart, TypeOK, Present, Copies, Queued
  <2>2. /\ pc' \in [Users -> Stages]
        /\ \A v \in Users : pc'[v] \in {"receive", "ack"} <=> batch'[v] # {}
    BY <1>5 DEF SyncStart, TypeOK, Stages
  <2>3. UNCHANGED <<authority, sealed, status, outbox, inbox, cursor, batch>>
    BY <1>5 DEF SyncStart
  <2>4. QED
    BY <2>1, <2>2, <2>3 DEF TypeOK, Stored, authority
<1>6. ASSUME NEW u \in Users, NEW m \in Messages, FailForRoster(u, m)
      PROVE  TypeOK'
  BY <1>6 DEF FailForRoster, Putting, authority, TypeOK, Stored, Statuses
<1>7. ASSUME NEW m \in Messages, PutStores(m), UNCHANGED <<expired, batch>>
      PROVE  /\ store' \in Seq(Entries) /\ expired' \subseteq Stored'
             /\ batch' \in [Users -> SUBSET (DOMAIN store')]
  <2>1. CASE m \in Stored
    BY <1>7, <2>1 DEF PutStores, TypeOK, Stored
  <2>2. CASE m \notin Stored
    <3> DEFINE e == [id |-> m, to |-> sealed[m], roster |-> roster]
    <3>1. e \in Entries
      BY DEF TypeOK, Entries
    <3>2. store' = Append(store, e) /\ store' \in Seq(Entries)
      BY <1>7, <2>2, <3>1 DEF PutStores, TypeOK
    <3>3. DOMAIN store \subseteq DOMAIN store'
          /\ \A i \in DOMAIN store : store'[i] = store[i]
      BY <3>1, <3>2 DEF TypeOK
    <3>4. QED
      BY <1>7, <3>2, <3>3 DEF TypeOK, Stored
  <2>3. QED
    BY <2>1, <2>2
<1>8. ASSUME NEW u \in Users, NEW m \in Messages, Put(u, m) PROVE TypeOK'
  BY <1>7, <1>8 DEF Put, Putting, TypeOK, Statuses
<1>9. ASSUME NEW u \in Users, NEW m \in Messages, PutAnswerLost(u, m)
      PROVE  TypeOK'
  BY <1>7, <1>9 DEF PutAnswerLost, Putting, database, TypeOK
<1>10. ASSUME NEW u \in Users, NEW m \in Messages, PutFails(u, m)
       PROVE  TypeOK'
  BY <1>10 DEF PutFails, Putting, authority, database, TypeOK, Stored
<1>11. ASSUME NEW u \in Users, Pull(u) PROVE TypeOK'
  <2>1. Page(u, cursor[u]) \subseteq DOMAIN store
    BY DEF Page, Waiting
  <2>2. QED
    BY <1>11, <2>1 DEF Pull, authority, database, TypeOK, Stored, Stages
<1>12. ASSUME NEW u \in Users, Receive(u) PROVE TypeOK'
  <2>1. PICK i \in batch[u] : Receive(u)!(i)
    BY <1>12 DEF Receive
  <2>2. store[i].id \in Messages
    BY <1>0
  <2>3. QED
    BY <2>1, <2>2 DEF TypeOK, authority, Stored, Stages
<1>13. ASSUME NEW u \in Users, NEW i \in batch[u], Acknowledged(u, store[i].id)
       PROVE  acked' \subseteq Messages \X Users
  BY <1>0, <1>13 DEF Acknowledged, TypeOK
<1>14. ASSUME NEW u \in Users, Ack(u) PROVE TypeOK'
  <2>1. PICK i \in batch[u] : Ack(u)!(i)
    BY <1>14 DEF Ack
  <2>2. acked' \subseteq Messages \X Users
    BY <1>13, <2>1
  <2>3. cursor' \in [Users -> Nat] /\ batch' \in [Users -> SUBSET (DOMAIN store')]
    BY <2>1 DEF Finish, TypeOK
  <2>4. /\ pc' \in [Users -> Stages]
        /\ \A v \in Users : pc'[v] \in {"receive", "ack"} <=> batch'[v] # {}
    BY <2>1 DEF Finish, TypeOK, Stages
  <2>5. QED
    BY <2>1, <2>2, <2>3, <2>4 DEF TypeOK, Stored
<1>15. ASSUME NEW u \in Users, AckAnswerLost(u) PROVE TypeOK'
  <2>1. PICK i \in batch[u] : AckAnswerLost(u)!(i)
    BY <1>15 DEF AckAnswerLost
  <2>2. acked' \subseteq Messages \X Users
    BY <1>13, <2>1
  <2>3. QED
    BY <2>1, <2>2 DEF TypeOK, Stopped, database, Stored, Stages
<1>16. ASSUME NEW u \in Users, Abort(u) PROVE TypeOK'
  BY <1>16 DEF Abort, TypeOK, Stopped, authority, database, Stored, Stages
<1>17. ASSUME NEW u \in Users, NEW m \in Messages, Deliver(m, u) PROVE TypeOK'
  <2> USE <1>17 DEF Deliver, progress
  <2>1. acked' \subseteq Messages \X Users
    BY DEF TypeOK
  <2>2. /\ known' \in [Users -> Copies]
        /\ inbox' \in [Users -> SUBSET Messages]
    BY DEF TypeOK, Present, Copies
  <2>3. QED
    BY <2>1, <2>2 DEF TypeOK, Stored
<1>18. CASE UNCHANGED vars
  BY <1>18 DEF vars, authority, database, progress, TypeOK, Stored
<1>19. QED
  BY <1>1, <1>2, <1>3, <1>4, <1>5, <1>6, <1>8, <1>9, <1>10, <1>11, <1>12,
     <1>14, <1>15, <1>16, <1>17, <1>18, <1>20, <1>21 DEF Next

----------------------------------------------------------------------------
(* The rest of the invariant                                               *)

(* A step that leaves the store, the inboxes and the receipts alone, and   *)
(* at most ends some syncs or resets a cursor, keeps the invariant.        *)
LEMMA QuietStep ==
  ASSUME IInv, TypeOK', UNCHANGED <<store, acked, inbox>>,
         expired \subseteq expired',
         \A u \in Users : cursor'[u] \in {0, cursor[u]},
         \A u \in Users :
           \/ batch'[u] = {}
           \/ batch'[u] = batch[u] /\ pc'[u] = pc[u] /\ cursor'[u] = cursor[u],
         \A m \in Messages :
           status'[m] = "service-stored" => status[m] = "service-stored" \/ m \in Stored
  PROVE  IInv'
<1> USE DEF IInv
<1>1. StoreOK' /\ InboxOK'
  BY DEF StoreOK, InboxOK
<1>2. BatchOK'
  <2>1. ASSUME NEW u \in Users PROVE cursor'[u] <= Len(store)
    <3>1. Len(store) \in Nat /\ cursor[u] \in Nat /\ cursor[u] <= Len(store)
      BY DEF BatchOK, TypeOK
    <3>2. QED
      BY <3>1
  <2>2. QED
    BY <2>1 DEF BatchOK
<1>3. TurnOK'
  BY DEF TurnOK, Turn
<1>7. AckedIsKept'
  BY DEF AckedIsKept
<1>4. CursorSkipsNothing'
  <2>1. \A i \in DOMAIN store : i \in Nat \ {0}
    BY DEF TypeOK
  <2>2. ASSUME NEW u \in Users, NEW i \in DOMAIN store, i <= cursor'[u]
        PROVE  i <= cursor[u]
    BY <2>1, <2>2 DEF TypeOK
  <2>3. QED
    BY <2>2 DEF CursorSkipsNothing
<1>5. StoredStatusIsTrue'
  BY DEF StoredStatusIsTrue, Stored
<1>6. QED
  BY <1>1, <1>2, <1>3, <1>4, <1>5, <1>7

(* What an accepted put does to the store.                                 *)
LEMMA PutAppends ==
  ASSUME IInv, NEW u \in Users, NEW m \in Messages, PutAccepted(u, m), PutStores(m)
  PROVE  \/ m \in Stored /\ store' = store
         \/ /\ m \notin Stored
            /\ DOMAIN store' = 1..(Len(store) + 1)
            /\ DOMAIN store = 1..Len(store)
            /\ Len(store') = Len(store) + 1
            /\ \A i \in DOMAIN store : store'[i] = store[i]
            /\ store'[Len(store) + 1] =
                 [id |-> m, to |-> roster, roster |-> roster]
<1>1. CASE m \in Stored
  BY <1>1 DEF PutStores
<1>2. CASE m \notin Stored
  <2> DEFINE e == [id |-> m, to |-> sealed[m], roster |-> roster]
  <2>1. e \in Entries /\ store \in Seq(Entries)
    BY DEF IInv, TypeOK, Entries
  <2>2. store' = Append(store, e)
    BY <1>2 DEF PutStores
  <2>3. sealed[m] = roster
    BY DEF PutAccepted
  <2>4. QED
    BY <1>2, <2>1, <2>2, <2>3
<1>3. QED
  BY <1>1, <1>2

(* A put keeps the invariant: the new entry lies ahead of every cursor and *)
(* of everything pulled.                                                   *)
LEMMA PutKeeps ==
  ASSUME IInv, TypeOK', NEW u \in Users, NEW m \in Messages,
         PutAccepted(u, m), PutStores(m),
         UNCHANGED <<expired, acked, inbox, cursor, pc, batch>>,
         \A n \in Messages :
           status'[n] = "service-stored" => status[n] = "service-stored" \/ n = m
  PROVE  IInv'
<1>1. CASE m \in Stored /\ store' = store
  BY <1>1, QuietStep DEF IInv, StoredStatusIsTrue
<1>2. CASE m \notin Stored
  <2> DEFINE n == Len(store) + 1
  <2>1. /\ DOMAIN store' = 1..n /\ DOMAIN store = 1..Len(store)
        /\ Len(store') = n /\ Len(store) \in Nat
        /\ \A i \in DOMAIN store : store'[i] = store[i]
        /\ store'[n] = [id |-> m, to |-> roster, roster |-> roster]
    BY <1>2, PutAppends DEF IInv, TypeOK
  <2> HIDE DEF n
  <2>2. \A i \in DOMAIN store : store[i].id # m
    BY <1>2 DEF Stored
  <2>3. \A i \in DOMAIN store' : i \in DOMAIN store \/ i = n
    BY <2>1 DEF n
  <2>4. n \notin DOMAIN store
    BY <2>1 DEF n
  <2>5. StoreOK'
    BY <2>1, <2>2, <2>3 DEF IInv, StoreOK
  <2>6. InboxOK'
    BY <2>1, <2>4 DEF IInv, InboxOK, n
  <2>7. \A v \in Users : /\ cursor[v] \in Nat /\ cursor[v] <= Len(store)
                         /\ batch[v] \subseteq DOMAIN store
    BY DEF IInv, BatchOK, TypeOK
  <2>8. BatchOK'
    <3> SUFFICES ASSUME NEW v \in Users
        PROVE /\ cursor'[v] <= Len(store')
              /\ \A i \in batch'[v] : i > cursor'[v] /\ v \in store'[i].to
              /\ \A i \in DOMAIN store' :
                   v \in store'[i].to /\ i > cursor'[v] /\ i \notin batch'[v]
                     /\ (\E j \in batch'[v] : i < j)
                   => store'[i].id \in expired'
      BY DEF BatchOK
    <3>1. cursor'[v] <= Len(store')
      BY <2>1, <2>7 DEF n
    <3>2. \A i \in batch'[v] : i > cursor'[v] /\ v \in store'[i].to
      BY <2>1, <2>7 DEF IInv, BatchOK
    <3>3. \A j \in batch'[v] : ~(n < j)
      BY <2>1, <2>7 DEF n
    <3>4. QED
      BY <2>1, <2>3, <3>1, <3>2, <3>3 DEF IInv, BatchOK
  <2>9. TurnOK'
    BY <2>1, <2>7 DEF IInv, TurnOK, Turn
  <2>10. CursorSkipsNothing'
    <3>1. \A v \in Users : ~(n <= cursor[v])
      BY <2>1, <2>7 DEF n
    <3>2. QED
      BY <2>1, <2>3, <3>1 DEF IInv, CursorSkipsNothing
  <2>11. AckedIsKept'
    BY DEF IInv, AckedIsKept
  <2>12. StoredStatusIsTrue'
    <3>1. \A i \in DOMAIN store : i \in DOMAIN store' /\ store'[i].id = store[i].id
      BY <2>1 DEF n
    <3>2. n \in DOMAIN store' /\ store'[n].id = m
      BY <2>1 DEF n
    <3>3. m \in Stored' /\ Stored \subseteq Stored'
      BY <3>1, <3>2 DEF Stored
    <3>4. QED
      BY <3>3 DEF IInv, StoredStatusIsTrue
  <2>13. QED
    BY <2>5, <2>6, <2>8, <2>9, <2>10, <2>11, <2>12 DEF IInv
<1>3. QED
  BY <1>1, <1>2, PutAppends

(* A page is taken from the front of what waits.                           *)
LEMMA PageIsFront ==
  ASSUME IInv, NEW u \in Users,
         NEW j \in Page(u, cursor[u]), NEW i \in Waiting(u, cursor[u]), i < j
  PROVE  i \in Page(u, cursor[u])
<1> DEFINE W == Waiting(u, cursor[u])
           Below(k) == {x \in W : x < k}
<1>1. W \subseteq 1..Len(store) /\ Len(store) \in Nat
  BY DEF IInv, TypeOK, Waiting
<1>2. IsFiniteSet(1..Len(store))
  BY <1>1, FS_Interval
<1>3. j \in W
  BY DEF Page
<1>4. Below(j) \in SUBSET (1..Len(store)) /\ Below(i) \in SUBSET Below(j)
  BY <1>1, <1>3
<1>5. IsFiniteSet(Below(j))
  BY <1>2, <1>4, FS_Subset
<1>6. Cardinality(Below(i)) <= Cardinality(Below(j)) /\ IsFiniteSet(Below(i))
  BY <1>4, <1>5, FS_Subset
<1>7. Cardinality(Below(i)) \in Nat /\ Cardinality(Below(j)) \in Nat
  BY <1>5, <1>6, FS_CardinalityType
<1>8. Cardinality(Below(j)) < PageLimit
  BY DEF Page
<1>9. Cardinality(Below(i)) < PageLimit
  BY <1>6, <1>7, <1>8, PageAssumption
<1>10. QED
  BY <1>9 DEF Page

LEMMA PullKeeps ==
  ASSUME IInv, TypeOK', NEW u \in Users, Pull(u)
  PROVE  IInv'
<1> USE DEF IInv
<1>1. /\ UNCHANGED <<store, expired, acked, inbox, cursor, status>>
      /\ batch' = [batch EXCEPT ![u] = Page(u, cursor[u])]
      /\ pc'[u] # "ack"
      /\ \A v \in Users \ {u} : pc'[v] = pc[v]
  BY DEF Pull, authority, database, TypeOK
<1>2. \A i \in Page(u, cursor[u]) :
        i > cursor[u] /\ u \in store[i].to /\ i \in DOMAIN store
  BY DEF Page, Waiting
<1>3. \A i \in DOMAIN store :
        u \in store[i].to /\ i > cursor[u] /\ i \notin Page(u, cursor[u])
          /\ (\E j \in Page(u, cursor[u]) : i < j)
        => store[i].id \in expired
  BY PageIsFront DEF Waiting
<1>4. StoreOK' /\ InboxOK' /\ AckedIsKept' /\ CursorSkipsNothing'
      /\ StoredStatusIsTrue'
  BY <1>1 DEF StoreOK, InboxOK, AckedIsKept, CursorSkipsNothing,
     StoredStatusIsTrue, Stored
<1>5. \A v \in Users : batch'[v] = IF v = u THEN Page(u, cursor[u]) ELSE batch[v]
  BY <1>1 DEF TypeOK
<1>6. BatchOK'
  BY <1>1, <1>2, <1>3, <1>5 DEF BatchOK
<1>7. TurnOK'
  BY <1>1, <1>5 DEF TurnOK, Turn
<1>8. QED
  BY <1>4, <1>6, <1>7

LEMMA ReceiveKeeps ==
  ASSUME IInv, TypeOK', NEW u \in Users, Receive(u)
  PROVE  IInv'
<1> USE DEF IInv
<1>1. PICK i \in batch[u] : Receive(u)!(i)
  BY DEF Receive
<1> DEFINE m == store[i].id
<1>2. /\ UNCHANGED <<store, expired, acked, cursor, status, batch>>
      /\ \A v \in Users : inbox'[v] = IF v = u THEN inbox[u] \cup {m} ELSE inbox[v]
      /\ \A v \in Users : pc'[v] = IF v = u THEN "ack" ELSE pc[v]
  BY <1>1 DEF authority, TypeOK
<1>3. i \in DOMAIN store /\ u \in store[i].to
  BY DEF BatchOK, TypeOK
<1> HIDE DEF m
<1>4. StoreOK' /\ StoredStatusIsTrue'
  BY <1>2 DEF StoreOK, StoredStatusIsTrue, Stored
<1>5. InboxOK'
  BY <1>2, <1>3 DEF InboxOK, m
<1>6. BatchOK'
  BY <1>2 DEF BatchOK
<1>7. \A j \in batch[u] : Turn(u, j) => j = i
  BY <1>1 DEF Turn, TypeOK
<1>8. TurnOK'
  BY <1>2, <1>7 DEF TurnOK, Turn, m
<1>9. AckedIsKept' /\ CursorSkipsNothing'
  BY <1>2 DEF AckedIsKept, CursorSkipsNothing, TypeOK
<1>10. QED
  BY <1>4, <1>5, <1>6, <1>8, <1>9

(* An acknowledgement that is answered: the cursor passes the event, which *)
(* is received and now confirmed, and whatever lay before it is done or    *)
(* expired.                                                                *)
LEMMA AckKeeps ==
  ASSUME IInv, TypeOK', NEW u \in Users, Ack(u)
  PROVE  IInv'
<1> USE DEF IInv
<1>1. PICK i \in batch[u] : Ack(u)!(i)
  BY DEF Ack
<1> DEFINE m == store[i].id
<1>2. /\ UNCHANGED <<store, expired, inbox, status>>
      /\ acked' = acked \cup {<<m, u>>}
      /\ \A v \in Users : cursor'[v] = IF v = u THEN i ELSE cursor[v]
      /\ \A v \in Users : batch'[v] = IF v = u THEN batch[u] \ {i} ELSE batch[v]
      /\ pc'[u] # "ack"
      /\ \A v \in Users \ {u} : pc'[v] = pc[v]
  BY <1>1 DEF Acknowledged, Finish, TypeOK
<1>3. /\ i \in DOMAIN store /\ u \in store[i].to /\ i > cursor[u]
      /\ i \in Nat /\ i <= Len(store) /\ cursor[u] \in Nat
      /\ \A j \in batch[u] : i <= j /\ j \in Nat
  <2>1. i \in DOMAIN store /\ DOMAIN store = 1..Len(store) /\ Len(store) \in Nat
        /\ batch[u] \subseteq DOMAIN store /\ cursor[u] \in Nat
    BY DEF TypeOK
  <2>2. QED
    BY <1>1, <2>1 DEF BatchOK, Turn
<1>4. m \in inbox[u]
  BY <1>1 DEF TurnOK
<1> HIDE DEF m
<1>5. StoreOK' /\ InboxOK' /\ StoredStatusIsTrue'
  BY <1>2 DEF StoreOK, InboxOK, StoredStatusIsTrue, Stored
<1>6. AckedIsKept'
  BY <1>2, <1>4 DEF AckedIsKept
<1>7. BatchOK'
  <2> SUFFICES ASSUME NEW v \in Users
      PROVE /\ cursor'[v] <= Len(store)
            /\ \A k \in batch'[v] : k > cursor'[v] /\ v \in store[k].to
            /\ \A k \in DOMAIN store :
                 v \in store[k].to /\ k > cursor'[v] /\ k \notin batch'[v]
                   /\ (\E j \in batch'[v] : k < j)
                 => store[k].id \in expired
    BY <1>2 DEF BatchOK
  <2>1. CASE v # u
    BY <2>1, <1>2 DEF BatchOK
  <2>2. CASE v = u
    <3>1. \A k \in batch'[u] : k > i /\ u \in store[k].to
      BY <1>2, <1>3 DEF BatchOK
    <3>2. ASSUME NEW k \in DOMAIN store, u \in store[k].to, k > i,
                 k \notin batch'[u], NEW j \in batch'[u], k < j
          PROVE  store[k].id \in expired
      <4>1. k \notin batch[u] /\ j \in batch[u]
        BY <1>2, <1>3, <3>2
      <4>2. k > cursor[u]
        BY <1>3, <3>2 DEF TypeOK
      <4>3. QED
        BY <3>2, <4>1, <4>2 DEF BatchOK
    <3>3. QED
      BY <1>2, <1>3, <2>2, <3>1, <3>2
  <2>3. QED
    BY <2>1, <2>2
<1>8. TurnOK'
  BY <1>2 DEF TurnOK, Turn
<1>9. CursorSkipsNothing'
  <2> SUFFICES ASSUME NEW v \in Users, NEW k \in DOMAIN store,
                      k <= cursor'[v], v \in store[k].to
      PROVE \/ store[k].id \in expired
            \/ store[k].id \in inbox[v] /\ <<store[k].id, v>> \in acked'
    BY <1>2 DEF CursorSkipsNothing
  <2>1. CASE k <= cursor[v]
    BY <2>1, <1>2 DEF CursorSkipsNothing
  <2>2. CASE ~(k <= cursor[v])
    <3>1. v = u /\ k <= i
      BY <2>2, <1>2
    <3>2. CASE k = i
      BY <3>1, <3>2, <1>2, <1>4 DEF m
    <3>3. CASE k # i
      <4>1. k < i /\ k > cursor[u]
        BY <3>1, <3>3, <2>2, <1>3 DEF TypeOK
      <4>2. k \notin batch[u]
        BY <4>1, <1>3
      <4>3. QED
        BY <3>1, <4>1, <4>2 DEF BatchOK
    <3>4. QED
      BY <3>2, <3>3
  <2>3. QED
    BY <2>1, <2>2
<1>10. QED
  BY <1>5, <1>6, <1>7, <1>8, <1>9

LEMMA AckAnswerLostKeeps ==
  ASSUME IInv, TypeOK', NEW u \in Users, AckAnswerLost(u)
  PROVE  IInv'
<1> USE DEF IInv
<1>1. PICK i \in batch[u] : AckAnswerLost(u)!(i)
  BY DEF AckAnswerLost
<1>2. /\ UNCHANGED <<store, expired, inbox, status, cursor>>
      /\ acked' = acked \cup {<<store[i].id, u>>}
      /\ \A v \in Users : \/ batch'[v] = {}
                          \/ batch'[v] = batch[v] /\ pc'[v] = pc[v]
  BY <1>1 DEF Acknowledged, Stopped, database, TypeOK
<1>3. store[i].id \in inbox[u]
  BY <1>1 DEF TurnOK
<1>4. StoreOK' /\ InboxOK' /\ StoredStatusIsTrue'
  BY <1>2 DEF StoreOK, InboxOK, StoredStatusIsTrue, Stored
<1>5. AckedIsKept' /\ CursorSkipsNothing'
  BY <1>2, <1>3 DEF AckedIsKept, CursorSkipsNothing
<1>6. BatchOK' /\ TurnOK'
  BY <1>2 DEF BatchOK, TurnOK, Turn
<1>7. QED
  BY <1>4, <1>5, <1>6

(* What a direct delivery hands over is stored, and for its receiver.      *)
LEMMA DeliverFacts ==
  ASSUME IInv, NEW u \in Users, NEW m \in Messages, Deliver(m, u)
  PROVE  /\ UNCHANGED <<store, expired, status, cursor, pc, batch>>
         /\ \A v \in Users : inbox'[v] = IF v = u THEN inbox[u] \cup {m} ELSE inbox[v]
         /\ acked' = acked \/ acked' = acked \cup {<<m, u>>}
         /\ \E i \in DOMAIN store : store[i].id = m /\ u \in store[i].to
  BY DEF Deliver, progress, IInv, TypeOK, Stored

LEMMA DeliverKeeps ==
  ASSUME IInv, TypeOK', NEW u \in Users, NEW m \in Messages, Deliver(m, u)
  PROVE  IInv'
<1> USE DEF IInv
<1>1. /\ UNCHANGED <<store, expired, status, cursor, pc, batch>>
      /\ \A v \in Users : inbox'[v] = IF v = u THEN inbox[u] \cup {m} ELSE inbox[v]
      /\ acked' = acked \/ acked' = acked \cup {<<m, u>>}
      /\ \E i \in DOMAIN store : store[i].id = m /\ u \in store[i].to
  BY DeliverFacts
<1>2. /\ acked \subseteq acked'
      /\ \A v \in Users : inbox[v] \subseteq inbox'[v]
  BY <1>1
<1>3. StoreOK' /\ StoredStatusIsTrue' /\ BatchOK'
  BY <1>1 DEF StoreOK, StoredStatusIsTrue, Stored, BatchOK
<1>4. InboxOK'
  BY <1>1 DEF InboxOK
<1>5. TurnOK'
  BY <1>1, <1>2 DEF TurnOK, Turn
<1>6. AckedIsKept'
  BY <1>1, <1>2 DEF AckedIsKept, TypeOK
<1>7. CursorSkipsNothing'
  <2> SUFFICES ASSUME NEW v \in Users, NEW i \in DOMAIN store,
                      i <= cursor[v], v \in store[i].to
      PROVE \/ store[i].id \in expired
            \/ store[i].id \in inbox'[v] /\ <<store[i].id, v>> \in acked'
    BY <1>1 DEF CursorSkipsNothing
  <2>1. QED
    BY <1>2 DEF CursorSkipsNothing
<1>8. QED
  BY <1>3, <1>4, <1>5, <1>6, <1>7

LEMMA NextInv == IInv /\ [Next]_vars => IInv'
<1> SUFFICES ASSUME IInv, [Next]_vars PROVE IInv'
  OBVIOUS
<1>0. TypeOK'
  BY TypeStep DEF IInv
<1>1. ASSUME NEW u \in Users, Admit(u) \/ Depart(u) PROVE IInv'
  <2>1. UNCHANGED <<store, expired, acked, inbox, cursor, status, pc, batch>>
    BY <1>1 DEF Admit, Depart, database, progress
  <2>2. QED
    BY <1>0, <2>1, QuietStep
<1>20. ASSUME NEW u \in Users, Leave(u) PROVE IInv'
  <2>1. /\ UNCHANGED <<store, expired, acked, inbox, status, pc, batch>>
        /\ batch[u] = {}
        /\ \A v \in Users : cursor'[v] = IF v = u THEN 0 ELSE cursor[v]
    BY <1>20 DEF Leave, progress, IInv, TypeOK
  <2>2. QED
    BY <1>0, <2>1, QuietStep
<1>2. ASSUME NEW m \in Messages, Expire(m) PROVE IInv'
  <2>1. /\ UNCHANGED <<store, acked, inbox, cursor, status, pc, batch>>
        /\ expired \subseteq expired'
    BY <1>2 DEF Expire, database, progress
  <2>2. QED
    BY <1>0, <2>1, QuietStep
<1>21. ASSUME NEW events \in SUBSET Messages, RoomChanges(events) PROVE IInv'
  <2>1. UNCHANGED <<store, expired, acked, inbox, cursor, status, pc, batch>>
    BY <1>21 DEF RoomChanges, database, progress
  <2>2. QED
    BY <1>0, <2>1, QuietStep
<1>3. ASSUME NEW m \in Messages, Enqueue(m) PROVE IInv'
  <2>1. /\ UNCHANGED <<store, expired, acked, inbox, cursor, pc, batch>>
        /\ \A n \in Messages :
             status'[n] = "service-stored" => status[n] = "service-stored"
    BY <1>3 DEF Enqueue, authority, progress, IInv, TypeOK
  <2>2. QED
    BY <1>0, <2>1, QuietStep
<1>4. ASSUME NEW u \in Users, SyncStart(u) PROVE IInv'
  <2>1. batch[u] = {}
    BY <1>4 DEF SyncStart, IInv, TypeOK
  <2>2. QED
    BY <1>0, <1>4, <2>1, QuietStep DEF SyncStart, authority, IInv, TypeOK
<1>5. ASSUME NEW u \in Users, NEW m \in Messages,
             FailForRoster(u, m) \/ PutFails(u, m)
      PROVE  IInv'
  BY <1>0, <1>5, QuietStep
     DEF FailForRoster, PutFails, authority, database, IInv, TypeOK
<1>6. ASSUME NEW u \in Users, NEW m \in Messages, Put(u, m) PROVE IInv'
  BY <1>0, <1>6, PutKeeps DEF Put, IInv, TypeOK
<1>7. ASSUME NEW u \in Users, NEW m \in Messages, PutAnswerLost(u, m)
      PROVE  IInv'
  BY <1>0, <1>7, PutKeeps DEF PutAnswerLost, database
<1>8. ASSUME NEW u \in Users, Pull(u) PROVE IInv'
  BY <1>0, <1>8, PullKeeps
<1>9. ASSUME NEW u \in Users, Receive(u) PROVE IInv'
  BY <1>0, <1>9, ReceiveKeeps
<1>10. ASSUME NEW u \in Users, Ack(u) PROVE IInv'
  BY <1>0, <1>10, AckKeeps
<1>11. ASSUME NEW u \in Users, AckAnswerLost(u) PROVE IInv'
  BY <1>0, <1>11, AckAnswerLostKeeps
<1>12. ASSUME NEW u \in Users, Abort(u) PROVE IInv'
  BY <1>0, <1>12, QuietStep DEF Abort, Stopped, authority, database, IInv, TypeOK
<1>13. ASSUME NEW u \in Users, NEW m \in Messages, Deliver(m, u) PROVE IInv'
  BY <1>0, <1>13, DeliverKeeps
<1>14. CASE UNCHANGED vars
  BY <1>0, <1>14, QuietStep DEF vars, authority, database, progress
<1>15. QED
  BY <1>1, <1>2, <1>3, <1>4, <1>5, <1>6, <1>7, <1>8, <1>9, <1>10, <1>11, <1>12,
     <1>13, <1>14, <1>20, <1>21 DEF Next

----------------------------------------------------------------------------
(* The theorems                                                            *)

(* The invariant holds in every reachable state.                           *)
THEOREM Invariance == Spec => []IInv
<1>1. QED
  BY InitInv, NextInv, PTL DEF Spec

(* Every variable keeps its type, and a sync has an event at hand exactly  *)
(* when it receives or acknowledges (sync_team).                           *)
THEOREM TypeCorrect == Spec => []TypeOK
<1>1. IInv => TypeOK
  BY DEF IInv
<1>2. QED
  BY <1>1, Invariance, PTL

(* The cursor of a mailbox passes an event only when it is in the owner's  *)
(* inbox and confirmed, or expired, wherever syncs were cut short.         *)
THEOREM NothingIsSkipped == Spec => []CursorSkipsNothing
<1>1. IInv => CursorSkipsNothing
  BY DEF IInv
<1>2. QED
  BY <1>1, Invariance, PTL

(* A recipient's receipt is never ahead of the recipient's database.       *)
THEOREM ReceiptsAreTrue == Spec => []AckedIsKept
<1>1. IInv => AckedIsKept
  BY DEF IInv
<1>2. QED
  BY <1>1, Invariance, PTL

(* A message is stored for, and read by, exactly the roster of the moment  *)
(* it was stored.                                                          *)
THEOREM ReadersAreTheRoster == Spec => []ReadByTheRosterOfTheTime
<1>1. IInv => ReadByTheRosterOfTheTime
  BY DEF IInv, StoreOK, InboxOK, ReadByTheRosterOfTheTime
<1>2. QED
  BY <1>1, Invariance, PTL

(* "service-stored" in an outbox means stored.                             *)
THEOREM StoredStatusHolds == Spec => []StoredStatusIsTrue
<1>1. IInv => StoredStatusIsTrue
  BY DEF IInv
<1>2. QED
  BY <1>1, Invariance, PTL

----------------------------------------------------------------------------
(* The mailbox implements Delivery                                         *)

(* A put appends to the abstract store, or leaves it alone.                *)
LEMMA PutPosts ==
  ASSUME IInv, IInv', NEW u \in Users, NEW m \in Messages,
         PutAccepted(u, m), PutStores(m),
         UNCHANGED <<roster, admitted, known, inbox, acked>>
  PROVE  [D!Next]_(D!vars)
<1>1. CASE store' = store
  BY <1>1 DEF posted, D!vars, D!rosterVars
<1>2. CASE m \notin Stored
  <2> DEFINE n == Len(store) + 1
             e == [id |-> m, to |-> roster]
  <2>1. /\ DOMAIN store' = 1..n /\ DOMAIN store = 1..Len(store)
        /\ Len(store) \in Nat
        /\ \A i \in DOMAIN store : store'[i] = store[i]
        /\ store'[n] = [id |-> m, to |-> roster, roster |-> roster]
    BY <1>2, PutAppends DEF IInv, TypeOK
  <2>2. posted \in Seq([id : Messages, to : SUBSET Users]) /\ Len(posted) = Len(store)
    <3>1. \A i \in DOMAIN store : store[i] \in Entries
      BY DEF IInv, TypeOK
    <3>2. posted \in [1..Len(store) -> [id : Messages, to : SUBSET Users]]
      BY <2>1, <3>1 DEF posted, Entries
    <3> DEFINE S == [id : Messages, to : SUBSET Users]
               entry(i) == [id |-> store[i].id, to |-> store[i].to]
    <3>3. posted = [i \in 1..Len(store) |-> entry(i)]
      BY <2>1 DEF posted
    <3>4. \A i \in 1..Len(store) : entry(i) \in S
      BY <2>1, <3>1 DEF Entries
    <3> HIDE DEF S, entry
    <3>5. [i \in 1..Len(store) |-> entry(i)] \in Seq(S)
      BY <2>1, <3>4
    <3>6. posted \in Seq(S)
      BY <3>3, <3>5
    <3>7. Len(posted) = Len(store)
      BY <2>1, <3>2, <3>6, LenProperties
    <3>8. QED
      BY <3>6, <3>7 DEF S
  <2>3. DOMAIN posted' = 1..n /\ \A i \in 1..n :
          posted'[i] = IF i = n THEN e ELSE posted[i]
    BY <2>1 DEF posted
  <2>4. posted' = Append(posted, e)
    <3>1. posted' = [i \in 1..n |-> posted'[i]]
      BY <2>1 DEF posted
    <3>2. QED
      BY <2>1, <2>2, <2>3, <3>1
  <2>5. \A i \in DOMAIN posted : posted[i].id # m
    BY <1>2 DEF posted, Stored
  <2>6. D!Post(m)
    BY <2>4, <2>5 DEF D!Post
  <2>7. D!RosterKept
    BY DEF D!RosterKept, D!CopyFollows
  <2>8. QED
    BY <2>6, <2>7 DEF D!Next, D!MessageMoves
<1>3. QED
  BY <1>1, <1>2, PutAppends

(* A confirmation is of something received.                                *)
LEMMA AckConfirms ==
  ASSUME IInv, NEW u \in Users, NEW i \in batch[u], pc[u] = "ack", Turn(u, i),
         Acknowledged(u, store[i].id),
         UNCHANGED <<roster, admitted, known, store, inbox>>
  PROVE  [D!Next]_(D!vars)
<1> DEFINE m == store[i].id
<1>1. m \in inbox[u]
  BY DEF IInv, TurnOK
<1>2. m \in Messages
  BY <1>1 DEF IInv, TypeOK
<1>3. posted' = posted
  BY DEF posted
<1>4. D!Confirm(m, u)
  BY <1>1, <1>3 DEF D!Confirm, Acknowledged
<1>5. D!RosterKept
  BY DEF D!RosterKept, D!CopyFollows
<1>6. QED
  BY <1>2, <1>4, <1>5 DEF D!Next, D!MessageMoves

(* What a step of membership, or a refreshed copy, is to Delivery.         *)
LEMMA RosterMoves ==
  ASSUME UNCHANGED <<store, inbox, acked>>, RosterChanges \/ RosterKept
  PROVE  D!Next
<1>1. D!RosterChanges \/ D!RosterKept
  BY DEF RosterChanges, RosterKept, Joins, Parts, CopyFollows, Present, Ever, NoCopy,
         D!RosterChanges, D!RosterKept, D!Joins, D!Parts, D!CopyFollows, D!Present,
         D!Ever, D!NoCopy
<1>2. QED
  BY <1>1 DEF D!Next, posted

LEMMA StepRefines == IInv /\ [Next]_vars => [D!Next]_(D!vars)
<1> SUFFICES ASSUME IInv, [Next]_vars PROVE [D!Next]_(D!vars)
  OBVIOUS
<1>0. IInv'
  BY NextInv
<1>1. ASSUME UNCHANGED <<roster, admitted, known, store, inbox, acked>>
      PROVE  [D!Next]_(D!vars)
  BY <1>1 DEF posted, D!vars, D!rosterVars
<1>2. ASSUME NEW u \in Users, Pull(u) \/ Abort(u)
      PROVE  [D!Next]_(D!vars)
  BY <1>1, <1>2 DEF Pull, Abort, authority, database
<1>12. ASSUME NEW u \in Users, Admit(u) \/ Depart(u) \/ Leave(u)
       PROVE  [D!Next]_(D!vars)
  <2>1. Joins(u) \/ Parts(u)
    BY <1>12 DEF Admit, Depart, Leave
  <2>2. UNCHANGED <<store, inbox, acked>>
    BY <1>12 DEF Admit, Depart, Leave, database
  <2>3. ASSUME NEW v \in Users PROVE CopyFollows(v)
    BY <1>12 DEF Admit, Depart, Leave, Parts, CopyFollows, database, IInv, TypeOK
  <2>4. QED
    BY <2>1, <2>2, <2>3, RosterMoves DEF RosterChanges
<1>13. ASSUME NEW u \in Users, SyncStart(u) PROVE [D!Next]_(D!vars)
  <2>1. UNCHANGED <<roster, admitted, store, inbox, acked>>
    BY <1>13 DEF SyncStart, authority
  <2>2. ASSUME NEW v \in Users PROVE CopyFollows(v)
    BY <1>13, <2>1 DEF SyncStart, CopyFollows, Present, Ever, IInv, TypeOK
  <2>3. QED
    BY <2>1, <2>2, RosterMoves DEF RosterKept
<1>3. ASSUME NEW m \in Messages, Expire(m) \/ Enqueue(m)
      PROVE  [D!Next]_(D!vars)
  BY <1>1, <1>3 DEF Expire, Enqueue, authority, database
<1>14. ASSUME NEW events \in SUBSET Messages, RoomChanges(events)
       PROVE  [D!Next]_(D!vars)
  BY <1>1, <1>14 DEF RoomChanges, database
<1>4. ASSUME NEW u \in Users, NEW m \in Messages,
             FailForRoster(u, m) \/ PutFails(u, m)
      PROVE  [D!Next]_(D!vars)
  BY <1>1, <1>4 DEF FailForRoster, PutFails, authority, database
<1>5. ASSUME NEW u \in Users, NEW m \in Messages,
             Put(u, m) \/ PutAnswerLost(u, m)
      PROVE  [D!Next]_(D!vars)
  BY <1>0, <1>5, PutPosts DEF Put, PutAnswerLost, database
<1>6. ASSUME NEW u \in Users, Receive(u) PROVE [D!Next]_(D!vars)
  <2>1. PICK i \in batch[u] : Receive(u)!(i)
    BY <1>6 DEF Receive
  <2> DEFINE m == store[i].id
  <2>2. i \in DOMAIN store /\ u \in store[i].to
    BY DEF IInv, BatchOK, TypeOK
  <2>3. m \in Messages
    <3>1. store[i] \in Entries
      BY <2>2 DEF IInv, TypeOK
    <3>2. QED
      BY <3>1 DEF Entries
  <2>4. posted' = posted /\ D!AddressedTo(m, u)
    BY <2>1, <2>2 DEF authority, posted, D!AddressedTo
  <2>5. D!Receive(m, u)
    BY <2>1, <2>4 DEF D!Receive, authority
  <2>6. D!RosterKept
    BY <2>1 DEF D!RosterKept, D!CopyFollows, authority
  <2>7. QED
    BY <2>3, <2>5, <2>6 DEF D!Next, D!MessageMoves
<1>7. ASSUME NEW u \in Users, Ack(u) PROVE [D!Next]_(D!vars)
  <2>1. PICK i \in batch[u] : Ack(u)!(i)
    BY <1>7 DEF Ack
  <2>2. QED
    BY <2>1, AckConfirms
<1>8. ASSUME NEW u \in Users, AckAnswerLost(u) PROVE [D!Next]_(D!vars)
  <2>1. PICK i \in batch[u] : AckAnswerLost(u)!(i)
    BY <1>8 DEF AckAnswerLost
  <2>2. QED
    BY <2>1, AckConfirms DEF database
<1>9. ASSUME NEW u \in Users, NEW m \in Messages, Deliver(m, u)
      PROVE  [D!Next]_(D!vars)
  <2>1. posted' = posted /\ D!AddressedTo(m, u)
    BY <1>9 DEF Deliver, posted, D!AddressedTo
  <2>2. D!Receive(m, u) \/ D!ReceiveAndConfirm(m, u)
    BY <1>9, <2>1 DEF Deliver, D!Receive, D!ReceiveAndConfirm
  <2>3. ASSUME NEW v \in Users PROVE D!CopyFollows(v)
    BY <1>9 DEF Deliver, Present, Ever, D!CopyFollows, D!Present, D!Ever, IInv, TypeOK
  <2>4. D!RosterKept
    BY <1>9, <2>3 DEF Deliver, D!RosterKept
  <2>5. QED
    BY <2>2, <2>4 DEF D!Next, D!MessageMoves
<1>10. CASE UNCHANGED vars
  BY <1>1, <1>10 DEF vars, authority, database
<1>11. QED
  BY <1>2, <1>3, <1>4, <1>5, <1>6, <1>7, <1>8, <1>9, <1>10, <1>12, <1>13,
     <1>14 DEF Next

(* The mailbox, with its retries, lost answers, crashes and second route,  *)
(* implements Delivery: posted once, received by recipients alone,         *)
(* confirmed after receipt.                                                *)
THEOREM ImplementsDelivery == Spec => DeliverySpec
<1>1. Init => D!Init
  <2> SUFFICES ASSUME Init PROVE D!Init
    OBVIOUS
  <2>1. D!Ever = Members
    BY MembersAssumption DEF Init, D!Ever
  <2>2. D!RosterInit
    BY <2>1, MembersAssumption
       DEF Init, NoCopy, D!RosterInit, D!Present, D!NoCopy
  <2>3. QED
    BY <2>2 DEF Init, D!Init, posted
<1>2. QED
  BY <1>1, StepRefines, Invariance, PTL DEF Spec, DeliverySpec, D!Spec
=============================================================================
