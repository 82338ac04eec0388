-------------------------------- MODULE Files -------------------------------
(***************************************************************************)
(* How a file travels.  share puts a manifest into the outbox and its      *)
(* chunks beside it, in one transaction; sync_team puts the manifest and   *)
(* then the chunks, and only then looks for mail; a recipient whose inbox  *)
(* has the manifest fetches chunk after chunk, from the sender's daemon or *)
(* from the authority, and keeps what it verified for the next attempt.    *)
(* Manifests and plain messages travel alike: a message is an item without *)
(* chunks.                                                                 *)
(*                                                                         *)
(* One team.  Mailbox has the steps of a put, a pull and a receipt, and    *)
(* Membership has how a roster comes about: here a pull is one step, and   *)
(* the rosters the team goes through are a parameter.  Content is verified *)
(* by digests, so a chunk is its number.                                   *)
(***************************************************************************)
EXTENDS Integers, Sequences, FiniteSets

CONSTANTS
  Users,      \* identities whose daemons are looked at
  Identities, \* they, and others who are only in the roster
  Rosters,    \* the rosters of the team, one after the other: it stays open
  Items,      \* events, known by their id
  From,       \* From[i]: the identity that sends i
  Chunks,     \* Chunks[i]: how many chunks i has, none for a message
  Readers,    \* bound: those whose users download
  Quota,      \* what the authority may store, an event or chunk counted as 1
  Running,    \* those whose daemon keeps running (for liveness only)
  MaxMishaps  \* bound: roster changes, items that expire, others' events

ASSUME PeopleAssumption ==
  /\ Users \subseteq Identities /\ Readers \subseteq Users
  /\ Rosters \in Seq((SUBSET Identities) \ {{}}) /\ Rosters # <<>>
ASSUME ItemsAssumption ==
  /\ From \in [Items -> Users]
  /\ Chunks \in [Items -> Nat]
  /\ IsFiniteSet(Items)
ASSUME LimitsAssumption == Quota \in Nat /\ MaxMishaps \in Nat

VARIABLES
  epoch,    \* authority: Rosters[epoch] is the current roster
  store,    \* authority: stored items in order of their sequence number
  kept,     \* authority: kept[i], the stored chunks of i
  expired,  \* authority: stored items past their retention
  others,   \* authority: what it stores for other teams
  seen,     \* seen[u]: the roster on record at u, as an epoch
  sealed,   \* sealed[i]: the roster i was encrypted to, 0 before that
  status,   \* status[i]: the state of i in its sender's outbox
  unsent,   \* unsent[i]: the chunks of i its sender has still to upload
  inbox,    \* inbox[u]: the items in u's database
  cursor,   \* cursor[u]: the last sequence number u's sync has finished with
  have,     \* have[u][i]: how many chunks of i u has fetched and verified
  placed,   \* pairs <<u, i>>: u wrote the whole file i to a directory
  pc,       \* pc[u]: what holds the lock of u's client
  todo,     \* todo[u]: the queued items this sync has still to put
  want      \* want[u]: the items u's download, if there is one, is after

authority == <<epoch, store, kept, expired, others>>
outgoing  == <<sealed, status, unsent>>
incoming  == <<inbox, cursor, have, placed>>
progress  == <<pc, todo, want>>
vars == <<authority, seen, outgoing, incoming, progress>>

Statuses == {"none", "queued", "service-stored", "failed"}
Holders  == {"nobody", "sync", "download"}

Roster == Rosters[epoch]
Stored == {store[n] : n \in DOMAIN store}
Pieces(i) == 1..Chunks[i]

(* What the authority stores, for all its teams: as long as a team is open *)
(* nothing of it is deleted, expired or not.                               *)
Used == others + Len(store) + Cardinality(UNION {{i} \X kept[i] : i \in Items})

----------------------------------------------------------------------------
(* What happens meanwhile                                                  *)

Mishaps == (epoch - 1) + Cardinality(expired) + others

Change ==
  /\ epoch < Len(Rosters)
  /\ Mishaps < MaxMishaps
  /\ epoch' = epoch + 1
  /\ UNCHANGED <<store, kept, expired, others, seen, outgoing, incoming,
                 progress>>

(* Seven days pass since the manifest, or the last of its chunks, was put. *)
Expire(i) ==
  /\ i \in Stored \ expired
  /\ Mishaps < MaxMishaps
  /\ expired' = expired \cup {i}
  /\ UNCHANGED <<epoch, store, kept, others, seen, outgoing, incoming,
                 progress>>

(* The last member of another team leaves: its events and chunks go.       *)
OtherTeamCloses ==
  /\ others > 0
  /\ others' \in 0..(others - 1)
  /\ UNCHANGED <<epoch, store, kept, expired, seen, outgoing, incoming,
                 progress>>

(* Another team's event or chunk is stored: the quota is the daemon's.     *)
OtherTeam ==
  /\ Used < Quota
  /\ Mishaps < MaxMishaps
  /\ others' = others + 1
  /\ UNCHANGED <<epoch, store, kept, expired, seen, outgoing, incoming,
                 progress>>

----------------------------------------------------------------------------
(* share, and enqueue for a plain message: sealed to the roster on record; *)
(* the manifest and its chunks are written in one transaction.             *)
Share(i) == LET u == From[i] IN
  /\ pc[u] = "nobody"
  /\ status[i] = "none"
  /\ u \in Rosters[seen[u]]
  /\ sealed' = [sealed EXCEPT ![i] = seen[u]]
  /\ status' = [status EXCEPT ![i] = "queued"]
  /\ unsent' = [unsent EXCEPT ![i] = Pieces(i)]
  /\ UNCHANGED <<authority, seen, incoming, progress>>

----------------------------------------------------------------------------
(* sync_team: refresh, and put what is queued                              *)

SyncStart(u) ==
  /\ pc[u] = "nobody"
  /\ u \in Roster
  /\ seen' = [seen EXCEPT ![u] = epoch]
  /\ todo' = [todo EXCEPT ![u] =
       {i \in Items : From[i] = u /\ status[i] = "queued"}]
  /\ pc' = [pc EXCEPT ![u] = "sync"]
  /\ UNCHANGED <<authority, outgoing, incoming, want>>

Putting(u, i) ==
  /\ i \in todo[u]
  /\ todo' = [todo EXCEPT ![u] = @ \ {i}]

(* Mutant: the item is left for a better moment.                           *)
LeaveForRoster(u, i) ==
  /\ Putting(u, i)
  /\ Rosters[sealed[i]] # Rosters[seen[u]]
  /\ UNCHANGED <<authority, seen, outgoing, incoming, pc, want>>

FailForRoster(u, i) ==
  /\ Putting(u, i)
  /\ Rosters[sealed[i]] # Rosters[seen[u]]
  /\ status' = [status EXCEPT ![i] = "failed"]
  /\ UNCHANGED <<authority, seen, sealed, unsent, incoming, pc, want>>

(* The put handler takes a new item only if it fits.                       *)
Fits(i) == IF i \in Stored THEN i \notin expired ELSE Used < Quota

PutAccepted(u, i) ==
  /\ u \in Roster
  /\ Rosters[sealed[i]] = Roster
  /\ Fits(i)

(* The manifest is stored; "told" says whether the answer arrives.         *)
Put(u, i, told) ==
  /\ Putting(u, i)
  /\ Rosters[sealed[i]] = Rosters[seen[u]]
  /\ PutAccepted(u, i)
  /\ store' = IF i \in Stored THEN store ELSE Append(store, i)
  /\ status' = [status EXCEPT ![i] = IF told THEN "service-stored" ELSE @]
  /\ UNCHANGED <<epoch, kept, expired, others, seen, sealed, unsent,
                 incoming, pc, want>>

(* Refused or not answered: it stays queued and the loop goes on.          *)
PutFails(u, i) ==
  /\ Putting(u, i)
  /\ Rosters[sealed[i]] = Rosters[seen[u]]
  /\ UNCHANGED <<authority, seen, outgoing, incoming, pc, want>>

----------------------------------------------------------------------------
(* sync_team: upload the chunks of what is stored, then pull               *)

(* The chunks the loop goes through: those of stored manifests.            *)
Due(u) ==
  LET uploading == {i \in Items : From[i] = u /\ status[i] = "service-stored"}
  IN UNION {{i} \X unsent[i] : i \in uploading}

Uploading(u) == pc[u] = "sync" /\ todo[u] = {}

(* The put_chunk handler: the item has not expired, and there is room for  *)
(* the chunk, unless it is there already.                                  *)
ChunkAccepted(u, i, c) ==
  /\ u \in Roster
  /\ i \in Stored \ expired
  /\ u \in Rosters[sealed[i]]
  /\ c \in kept[i] \/ Used < Quota

Released(u) ==
  /\ pc' = [pc EXCEPT ![u] = "nobody"]
  /\ todo' = [todo EXCEPT ![u] = {}]
  /\ want' = [want EXCEPT ![u] = {}]

(* A chunk is stored; an answer that is lost ends the sync.                *)
PutChunk(u, i, c, told) ==
  /\ Uploading(u)
  /\ <<i, c>> \in Due(u)
  /\ ChunkAccepted(u, i, c)
  /\ kept' = [kept EXCEPT ![i] = @ \cup {c}]
  /\ IF told THEN /\ unsent' = [unsent EXCEPT ![i] = @ \ {c}]
                  /\ UNCHANGED progress
             ELSE /\ Released(u)
                  /\ UNCHANGED unsent
  /\ UNCHANGED <<epoch, store, expired, others, seen, sealed, status,
                 incoming>>

(* Mutant: a chunk that could not be put is not tried again.               *)
EndForgetting(u) ==
  /\ pc[u] # "nobody"
  /\ todo[u] = {}
  /\ Released(u)
  /\ unsent' = [i \in Items |->
       IF From[i] = u /\ Uploading(u) THEN {} ELSE unsent[i]]
  /\ UNCHANGED <<authority, seen, sealed, status, incoming>>

(* Mutant: a download that ends drops what it fetched.                     *)
EndDropping(u) ==
  /\ pc[u] # "nobody"
  /\ todo[u] = {}
  /\ Released(u)
  /\ have' = [have EXCEPT ![u] = [i \in Items |-> 0]]
  /\ UNCHANGED <<authority, seen, outgoing, inbox, cursor, placed>>

(* An error ends a download, and a sync that is past its puts, and so does *)
(* the end of the daemon: a chunk that is refused or not answered, a call  *)
(* that fails, no chunk to be had, the limit of new chunks reached, a      *)
(* destination that exists.                                                *)
End(u) ==
  /\ pc[u] # "nobody"
  /\ todo[u] = {}
  /\ Released(u)
  /\ UNCHANGED <<authority, seen, outgoing, incoming>>

(* Only the end of the daemon cuts the puts short: it goes on to the next  *)
(* item when one fails.                                                    *)
Restart(u) ==
  /\ todo[u] # {}
  /\ Released(u)
  /\ UNCHANGED <<authority, seen, outgoing, incoming>>

Waiting(u) ==
  {n \in DOMAIN store : n > cursor[u] /\ store[n] \notin expired
                        /\ u \in Rosters[sealed[store[n]]]}

(* Mutant: the cursor goes to the end of the page though a call failed.    *)
PullAhead(u, n) ==
  /\ Uploading(u)
  /\ Due(u) = {}
  /\ u \in Roster
  /\ n \in Waiting(u) \cup {cursor[u]}
  /\ inbox' = [inbox EXCEPT ![u] =
       @ \cup {store[k] : k \in {j \in Waiting(u) : j <= n}}]
  /\ cursor' = [cursor EXCEPT ![u] = Len(store)]
  /\ Released(u)
  /\ UNCHANGED <<authority, seen, outgoing, have, placed>>

(* Once every chunk is up: pull, receive, acknowledge and move the cursor, *)
(* event by event, up to number n, where the page ends or a call fails.    *)
Pull(u, n) ==
  /\ Uploading(u)
  /\ Due(u) = {}
  /\ u \in Roster
  /\ n \in Waiting(u) \cup {cursor[u]}
  /\ inbox' = [inbox EXCEPT ![u] =
       @ \cup {store[k] : k \in {j \in Waiting(u) : j <= n}}]
  /\ cursor' = [cursor EXCEPT ![u] = n]
  /\ Released(u)
  /\ UNCHANGED <<authority, seen, outgoing, have, placed>>

----------------------------------------------------------------------------
(* download: at the user's request, again and again if need be             *)

Download(u, i) ==
  /\ u \in Readers
  /\ pc[u] = "nobody"
  /\ i \in inbox[u]
  /\ Chunks[i] > 0
  /\ pc' = [pc EXCEPT ![u] = "download"]
  /\ want' = [want EXCEPT ![u] = {i}]
  /\ UNCHANGED <<authority, seen, outgoing, incoming, todo>>

(* The next chunk of u's download: they are fetched in order, those        *)
(* verified earlier are skipped.                                           *)
Fetching(u, i) ==
  /\ i \in want[u]
  /\ have[u][i] < Chunks[i]
  /\ have' = [have EXCEPT ![u][i] = @ + 1]
  /\ UNCHANGED <<inbox, cursor, placed>>

(* The authority's authorize: a recipient still in the team, and an item   *)
(* stored and not expired.                                                 *)
Authorized(u, i) ==
  /\ u \in Roster
  /\ i \in Stored \ expired
  /\ u \in Rosters[sealed[i]]

(* The fetch_chunk handler of the sender's daemon, which takes its lock,   *)
(* refreshes its copy and has the authority authorize the recipient; its   *)
(* chunks are there whether uploaded or not.                               *)
FetchPeer(u, i) == LET v == From[i] IN
  /\ Fetching(u, i)
  /\ v # u /\ v \in Rosters[seen[u]]
  /\ pc[v] = "nobody"
  /\ v \in Roster
  /\ Authorized(u, i)
  /\ seen' = [seen EXCEPT ![v] = epoch]
  /\ UNCHANGED <<authority, outgoing, progress>>

(* The get_chunk handler; also tried when the sender does not answer.      *)
FetchMailbox(u, i) ==
  /\ Fetching(u, i)
  /\ Authorized(u, i)
  /\ have[u][i] + 1 \in kept[i]
  /\ UNCHANGED <<authority, seen, outgoing, progress>>

(* Every chunk is there: the file is linked into the directory.            *)
Place(u, i) ==
  /\ i \in want[u]
  /\ have[u][i] = Chunks[i]
  /\ placed' = placed \cup {<<u, i>>}
  /\ Released(u)
  /\ UNCHANGED <<authority, seen, outgoing, inbox, cursor, have>>

----------------------------------------------------------------------------
Init ==
  /\ epoch = 1
  /\ store = <<>>
  /\ kept = [i \in Items |-> {}]
  /\ expired = {}
  /\ others = 0
  /\ seen = [u \in Users |-> 1]
  /\ sealed = [i \in Items |-> 0]
  /\ status = [i \in Items |-> "none"]
  /\ unsent = [i \in Items |-> {}]
  /\ inbox = [u \in Users |-> {}]
  /\ cursor = [u \in Users |-> 0]
  /\ have = [u \in Users |-> [i \in Items |-> 0]]
  /\ placed = {}
  /\ pc = [u \in Users |-> "nobody"]
  /\ todo = [u \in Users |-> {}]
  /\ want = [u \in Users |-> {}]

PutStep(u, i) ==
  \/ FailForRoster(u, i)
  \/ \E told \in BOOLEAN : Put(u, i, told)
  \/ PutFails(u, i)

ChunkStep(u) ==
  \E i \in Items : \E c \in unsent[i], told \in BOOLEAN :
    PutChunk(u, i, c, told)

PullStep(u) == \E n \in DOMAIN store \cup {cursor[u]} : Pull(u, n)

Next ==
  \/ Change
  \/ \E i \in Items : Expire(i)
  \/ OtherTeam
  \/ OtherTeamCloses
  \/ \E i \in Items : Share(i)
  \/ \E u \in Users : SyncStart(u)
  \/ \E u \in Users, i \in Items : PutStep(u, i)
  \/ \E u \in Users : ChunkStep(u)
  \/ \E u \in Users : PullStep(u)
  \/ \E u \in Users, i \in Items : Download(u, i)
  \/ \E u \in Users, i \in Items : FetchPeer(u, i)
  \/ \E u \in Users, i \in Items : FetchMailbox(u, i)
  \/ \E u \in Users, i \in Items : Place(u, i)
  \/ \E u \in Users : End(u)
  \/ \E u \in Users : Restart(u)

Spec == Init /\ [][Next]_vars

----------------------------------------------------------------------------
(* Fairness, of the daemons in Running: the sync task asks for the lock    *)
(* every two seconds and the user asks for a download until the file is    *)
(* there; the lock is granted in the order it was asked for, and whatever  *)
(* holds it lets go of it, for every call has a time limit.  A call that   *)
(* the authority would accept and that is made again and again gets        *)
(* through in the end.  Nothing is assumed of the order of the chunks, nor *)
(* of the way to the sender's daemon.  That a sync comes to this team's    *)
(* part of it takes that no stale join to another team ends it before.     *)

(* A chunk goes up in a round of which no chunk would be refused.          *)
ChunkGoesUp(u) ==
  /\ \A d \in Due(u) : ChunkAccepted(u, d[1], d[2])
  /\ \E d \in Due(u) : PutChunk(u, d[1], d[2], TRUE)

PutSettles(u, i) == FailForRoster(u, i) \/ Put(u, i, TRUE)

MailComes(u) == \E n \in Waiting(u) : Pull(u, n)

(* What a sync gets done.  Each of it is done once, so that one condition  *)
(* over them all is as strong as one for each.                             *)
SyncGetsOn(u) ==
  (\E i \in Items : PutSettles(u, i)) \/ ChunkGoesUp(u) \/ MailComes(u)

DownloadGetsOn(u) == \E i \in Items :
  FetchMailbox(u, i) \/ (Place(u, i) /\ <<u, i>> \notin placed)

SyncFairness(u) ==
  /\ SF_vars(SyncStart(u))
  /\ SF_vars(SyncGetsOn(u))
  /\ WF_vars((\E i \in Items : PutStep(u, i)) \/ End(u))

DownloadFairness(u) ==
  /\ SF_vars(\E i \in Items : Download(u, i) /\ <<u, i>> \notin placed)
  /\ SF_vars(DownloadGetsOn(u))

FairSpec ==
  /\ Spec
  /\ <>[][\A u \in Running : ~ Restart(u)]_vars
  /\ \A u \in Running : SyncFairness(u)
  /\ \A u \in Running \cap Readers : DownloadFairness(u)

----------------------------------------------------------------------------
(* Properties                                                              *)

(* Every variable keeps its type, and a sync or a download has something   *)
(* to do only while it holds the client's lock (client.rs).                *)
AuthorityOK ==
  /\ epoch \in DOMAIN Rosters
  /\ store \in Seq(Items)
  /\ kept \in [Items -> SUBSET Nat]
  /\ expired \subseteq Stored
  /\ others \in Nat

OutgoingOK ==
  /\ seen \in [Users -> 1..epoch]
  /\ sealed \in [Items -> 0..epoch]
  /\ status \in [Items -> Statuses]
  /\ \A i \in Items : status[i] = "none" <=> sealed[i] = 0

ChunksOK ==
  /\ unsent \in [Items -> SUBSET Nat]
  /\ \A i \in Items : kept[i] \cup unsent[i] \subseteq Pieces(i)

IncomingOK ==
  /\ inbox \in [Users -> SUBSET Stored]
  /\ cursor \in [Users -> 0..Len(store)]
  /\ have \in [Users -> [Items -> Nat]]
  /\ placed \subseteq Users \X Items

ProgressOK ==
  /\ pc \in [Users -> Holders]
  /\ todo \in [Users -> SUBSET Items] /\ want \in [Users -> SUBSET Items]
  /\ \A u \in Users : /\ pc[u] # "sync" => todo[u] = {}
                      /\ pc[u] # "download" => want[u] = {}

TypeOK == AuthorityOK /\ OutgoingOK /\ ChunksOK /\ IncomingOK /\ ProgressOK

(* "A file is remotely available only after every chunk is uploaded": when *)
(* the outbox shows a file as stored rather than uploading, the authority  *)
(* has all of it, whatever was refused, cut short or lost on the way       *)
(* (sync_team's chunk loop, Client::outbox).                               *)
RemoteMeansWhole ==
  \A i \in Items : status[i] = "service-stored" /\ unsent[i] = {} =>
    i \in Stored /\ kept[i] = Pieces(i)

(* One of u's stored files has a chunk that is refused: it has expired, or *)
(* the authority is full, and stays so unless another of its teams closes. *)
Blocked(u) == \E d \in Due(u) :
  d[1] \in expired \/ (d[2] \notin kept[d[1]] /\ Used >= Quota)

(* Everything stored for u that has not expired is in u's inbox.           *)
HasItsMail(u) ==
  \A i \in Stored \ expired : u \in Rosters[sealed[i]] => i \in inbox[u]

(* A refused chunk ends sync_team before the pull, at every sync: nothing  *)
(* else within the team keeps a member who stays in it, and whose daemon   *)
(* runs, from having all its mail again and again (client.rs:896 to 911).  *)
(* From outside it, a stale join to another team ends the sync before it   *)
(* comes to this one (client.rs:615 and 838, OnlyStaleJoinsBlock of        *)
(* JoinFlow); the fairness of SyncStart sets that aside.                   *)
OnlyChunksBlockTheInbox ==
  \A u \in Running : []<>(HasItsMail(u) \/ u \notin Roster \/ Blocked(u))

(* What a member announced as shared comes to be a file in the directory   *)
(* of each recipient who keeps asking, through lost calls, ends of the     *)
(* daemon and partial downloads.  Within the team the exceptions are these *)
(* and no others: the file expires, one of the two leaves the team, the    *)
(* roster changes before the sender knows the manifest stored, the         *)
(* authority is full, or a refused chunk of either ends each of its syncs  *)
(* (share, download).  From outside it, a stale join to another team ends  *)
(* syncs too: OnlyChunksBlockTheInbox says what is assumed of it.          *)
SharedArrives ==
  \A u \in Running \cap Readers,
     i \in {x \in Items : From[x] \in Running /\ Chunks[x] > 0} :
    (status[i] # "none" /\ u \in Rosters[sealed[i]])
      ~> \/ <<u, i>> \in placed
         \/ i \in expired \/ status[i] = "failed"
         \/ ~ {u, From[i]} \subseteq Roster
         \/ i \notin Stored /\ Used >= Quota
         \/ Blocked(u) \/ Blocked(From[i])

(* "Downloads preserve verified chunks across restarts": what was fetched  *)
(* once is never fetched again, and a file is placed whole (download).     *)
FetchedOnce ==
  [][\A u \in Users, i \in Items :
       /\ have'[u][i] \in {have[u][i], have[u][i] + 1}
       /\ <<u, i>> \in placed' => have'[u][i] = Chunks[i]]_vars
=============================================================================
