---------------------------- MODULE FilesProofs -----------------------------
(* That a file shown as stored is whole, and that nothing verified is       *)
(* fetched again, for any members, rosters, files and quota.  FilesInv      *)
(* follows the chunks: what the sender no longer has to upload, the         *)
(* authority keeps, from the moment the manifest is in the outbox.          *)
EXTENDS Files, SequenceTheorems, TLAPS

(* A sync puts its own user's queued items.                                 *)
TodoIsQueued ==
  \A u \in Users : \A i \in todo[u] : From[i] = u /\ status[i] = "queued"

PiecesAreKept ==
  \A i \in Items :
    /\ status[i] # "none" => Pieces(i) \subseteq kept[i] \cup unsent[i]
    /\ status[i] = "service-stored" => i \in Stored

PlacedIsWhole ==
  \A u \in Users, i \in Items : <<u, i>> \in placed => have[u][i] = Chunks[i]

FilesInv == TypeOK /\ TodoIsQueued /\ PiecesAreKept /\ PlacedIsWhole

USE DEF authority, outgoing, incoming, progress, Statuses, Holders

LEMMA InitFiles == Init => FilesInv
<1> SUFFICES ASSUME Init PROVE FilesInv
  OBVIOUS
<1>1. AuthorityOK /\ OutgoingOK
  BY PeopleAssumption, ItemsAssumption
  DEF Init, AuthorityOK, OutgoingOK, Stored
<1>2. ChunksOK /\ IncomingOK /\ ProgressOK
  BY DEF Init, ChunksOK, IncomingOK, ProgressOK, Stored
<1>3. TodoIsQueued /\ PiecesAreKept /\ PlacedIsWhole
  BY DEF Init, TodoIsQueued, PiecesAreKept, PlacedIsWhole
<1> QED
  BY <1>1, <1>2, <1>3 DEF FilesInv, TypeOK

LEMMA EpochIsPositive == TypeOK => epoch \in Nat \ {0}
  BY PeopleAssumption DEF TypeOK, AuthorityOK

(* What happens elsewhere: the roster, the retention, other teams.          *)
LEMMA ElsewhereKeeps ==
  ASSUME FilesInv,
         \/ Change \/ OtherTeam \/ OtherTeamCloses
         \/ \E i \in Items : Expire(i)
  PROVE  FilesInv'
<1>1. /\ store' = store /\ kept' = kept
      /\ UNCHANGED <<seen, outgoing, incoming, progress>>
  BY DEF Change, OtherTeam, OtherTeamCloses, Expire
<1>2. epoch' \in DOMAIN Rosters /\ epoch' >= epoch
  BY PeopleAssumption, EpochIsPositive
  DEF Change, OtherTeam, OtherTeamCloses, Expire, FilesInv, TypeOK, AuthorityOK
<1>3. expired' \subseteq Stored /\ others' \in Nat
  BY DEF Change, OtherTeam, OtherTeamCloses, Expire, FilesInv, TypeOK,
         AuthorityOK
<1>4. AuthorityOK'
  BY <1>1, <1>2, <1>3 DEF FilesInv, TypeOK, AuthorityOK, Stored
<1>5. OutgoingOK'
  BY <1>1, <1>2, EpochIsPositive, PeopleAssumption
  DEF FilesInv, TypeOK, OutgoingOK
<1>6. ChunksOK' /\ IncomingOK' /\ ProgressOK'
  BY <1>1
  DEF FilesInv, TypeOK, ChunksOK, IncomingOK, ProgressOK, Stored, Pieces
<1>7. TodoIsQueued' /\ PiecesAreKept' /\ PlacedIsWhole'
  BY <1>1 DEF FilesInv, TodoIsQueued, PiecesAreKept, PlacedIsWhole, Stored
<1> QED
  BY <1>4, <1>5, <1>6, <1>7 DEF FilesInv, TypeOK

LEMMA ShareKeeps ==
  ASSUME FilesInv, NEW i \in Items, Share(i)
  PROVE  FilesInv'
<1>1. epoch \in Nat \ {0} /\ From[i] \in Users /\ seen[From[i]] \in 1..epoch
  BY EpochIsPositive, ItemsAssumption DEF FilesInv, TypeOK, OutgoingOK
<1>2. AuthorityOK' /\ IncomingOK' /\ ProgressOK'
  BY DEF FilesInv, TypeOK, AuthorityOK, IncomingOK, ProgressOK, Share, Stored
<1>3. OutgoingOK'
  BY <1>1 DEF FilesInv, TypeOK, OutgoingOK, Share
<1>4. ChunksOK'
  BY ItemsAssumption DEF FilesInv, TypeOK, ChunksOK, Share, Pieces
<1>5. TodoIsQueued' /\ PiecesAreKept' /\ PlacedIsWhole'
  BY DEF FilesInv, TypeOK, OutgoingOK, ChunksOK, Share, TodoIsQueued,
         PiecesAreKept, PlacedIsWhole, Stored, Pieces
<1> QED
  BY <1>2, <1>3, <1>4, <1>5 DEF FilesInv, TypeOK

LEMMA SyncStartKeeps ==
  ASSUME FilesInv, NEW u \in Users, SyncStart(u)
  PROVE  FilesInv'
<1>1. epoch \in 1..epoch
  BY EpochIsPositive DEF FilesInv
<1>2. AuthorityOK' /\ IncomingOK' /\ ChunksOK'
  BY DEF FilesInv, TypeOK, AuthorityOK, IncomingOK, ChunksOK, SyncStart,
         Stored, Pieces
<1>3. OutgoingOK'
  BY <1>1 DEF FilesInv, TypeOK, OutgoingOK, SyncStart
<1>4. ProgressOK'
  BY DEF FilesInv, TypeOK, ProgressOK, SyncStart
<1>5. TodoIsQueued' /\ PiecesAreKept' /\ PlacedIsWhole'
  BY DEF FilesInv, TypeOK, ProgressOK, SyncStart, TodoIsQueued,
         PiecesAreKept, PlacedIsWhole, Stored, Pieces
<1> QED
  BY <1>2, <1>3, <1>4, <1>5 DEF FilesInv, TypeOK

(* One item less to put, and its status what became of it.                  *)
LEMMA NoPutKeeps ==
  ASSUME FilesInv, NEW u \in Users, NEW i \in Items,
         FailForRoster(u, i) \/ PutFails(u, i)
  PROVE  FilesInv'
<1>1. /\ i \in todo[u] /\ todo' = [todo EXCEPT ![u] = @ \ {i}]
      /\ status' \in {status, [status EXCEPT ![i] = "failed"]}
      /\ UNCHANGED <<authority, seen, sealed, unsent, incoming, pc, want>>
      /\ status[i] = "queued" /\ From[i] = u
  BY DEF FailForRoster, PutFails, Putting, FilesInv, TodoIsQueued
<1>2. AuthorityOK' /\ IncomingOK' /\ ChunksOK'
  BY <1>1
  DEF FilesInv, TypeOK, AuthorityOK, IncomingOK, ChunksOK, Stored, Pieces
<1>3. OutgoingOK'
  BY <1>1 DEF FilesInv, TypeOK, OutgoingOK
<1>4. ProgressOK'
  BY <1>1 DEF FilesInv, TypeOK, ProgressOK
<1>5. TodoIsQueued'
  BY <1>1 DEF FilesInv, TypeOK, OutgoingOK, ProgressOK, TodoIsQueued
<1>6. PiecesAreKept' /\ PlacedIsWhole'
  BY <1>1 DEF FilesInv, TypeOK, OutgoingOK, PiecesAreKept, PlacedIsWhole,
              Stored, Pieces
<1> QED
  BY <1>2, <1>3, <1>4, <1>5, <1>6 DEF FilesInv, TypeOK

(* The store as it was, or with one item more.                              *)
LEMMA StoreGrows ==
  ASSUME store \in Seq(Items), NEW i \in Items,
         store' = IF i \in Stored THEN store ELSE Append(store, i)
  PROVE  /\ store' \in Seq(Items) /\ Len(store') >= Len(store)
         /\ Stored \subseteq Stored' /\ i \in Stored'
<1>1. CASE i \in Stored
  BY <1>1 DEF Stored
<1>2. CASE i \notin Stored
  <2>1. /\ store' \in Seq(Items) /\ Len(store') = Len(store) + 1
        /\ store'[Len(store) + 1] = i
        /\ \A n \in 1..Len(store) : store'[n] = store[n]
    BY <1>2
  <2> QED
    BY <2>1 DEF Stored
<1> QED
  BY <1>1, <1>2

LEMMA PutKeeps ==
  ASSUME FilesInv, NEW u \in Users, NEW i \in Items, NEW told \in BOOLEAN,
         Put(u, i, told)
  PROVE  FilesInv'
<1>1. /\ i \in todo[u] /\ todo' = [todo EXCEPT ![u] = @ \ {i}]
      /\ status' \in {status, [status EXCEPT ![i] = "service-stored"]}
      /\ UNCHANGED <<epoch, kept, expired, others, seen, sealed, unsent,
                     incoming, pc, want>>
      /\ status[i] = "queued" /\ From[i] = u
  BY DEF Put, Putting, FilesInv, TodoIsQueued, TypeOK, OutgoingOK
<1>2. /\ store' \in Seq(Items) /\ Len(store') >= Len(store)
      /\ Stored \subseteq Stored' /\ i \in Stored'
  BY StoreGrows DEF Put, FilesInv, TypeOK, AuthorityOK
<1>3. AuthorityOK' /\ ChunksOK'
  BY <1>1, <1>2 DEF FilesInv, TypeOK, AuthorityOK, ChunksOK, Pieces
<1>4. IncomingOK'
  BY <1>1, <1>2 DEF FilesInv, TypeOK, AuthorityOK, IncomingOK
<1>5. OutgoingOK'
  BY <1>1 DEF FilesInv, TypeOK, OutgoingOK
<1>6. ProgressOK'
  BY <1>1 DEF FilesInv, TypeOK, ProgressOK
<1>7. TodoIsQueued'
  BY <1>1 DEF FilesInv, TypeOK, OutgoingOK, ProgressOK, TodoIsQueued
<1>8. PiecesAreKept' /\ PlacedIsWhole'
  BY <1>1, <1>2 DEF FilesInv, TypeOK, OutgoingOK, PiecesAreKept,
                    PlacedIsWhole, Pieces
<1> QED
  BY <1>3, <1>4, <1>5, <1>6, <1>7, <1>8 DEF FilesInv, TypeOK

(* What a chunk's put stores is one of the pieces, and what was taken off   *)
(* the sender's list is kept.                                               *)
LEMMA PutChunkKeeps ==
  ASSUME FilesInv, NEW u \in Users, NEW i \in Items, NEW c \in unsent[i],
         NEW told \in BOOLEAN, PutChunk(u, i, c, told)
  PROVE  FilesInv'
<1>1. /\ kept' = [kept EXCEPT ![i] = @ \cup {c}]
      /\ unsent' \in {unsent, [unsent EXCEPT ![i] = @ \ {c}]}
      /\ progress' = progress \/ Released(u)
      /\ UNCHANGED <<epoch, store, expired, others, seen, sealed, status,
                     incoming>>
  BY DEF PutChunk
<1>2. c \in Pieces(i) /\ c \in Nat
  BY DEF FilesInv, TypeOK, ChunksOK
<1>3. AuthorityOK' /\ OutgoingOK' /\ IncomingOK'
  BY <1>1, <1>2
  DEF FilesInv, TypeOK, AuthorityOK, OutgoingOK, IncomingOK, Stored
<1>4. ChunksOK'
  BY <1>1, <1>2 DEF FilesInv, TypeOK, AuthorityOK, ChunksOK, Pieces
<1>5. ProgressOK' /\ TodoIsQueued'
  BY <1>1 DEF FilesInv, TypeOK, ProgressOK, TodoIsQueued, Released
<1>6. PiecesAreKept'
  BY <1>1
  DEF FilesInv, TypeOK, AuthorityOK, ChunksOK, PiecesAreKept, Stored, Pieces
<1>7. PlacedIsWhole'
  BY <1>1 DEF FilesInv, PlacedIsWhole
<1> QED
  BY <1>3, <1>4, <1>5, <1>6, <1>7 DEF FilesInv, TypeOK

(* The lock is let go, by an error or by the end of the daemon.             *)
LEMMA ReleaseKeeps ==
  ASSUME FilesInv, NEW u \in Users, End(u) \/ Restart(u)
  PROVE  FilesInv'
<1>1. Released(u) /\ UNCHANGED <<authority, seen, outgoing, incoming>>
  BY DEF End, Restart
<1>2. AuthorityOK' /\ OutgoingOK' /\ ChunksOK' /\ IncomingOK'
  BY <1>1 DEF FilesInv, TypeOK, AuthorityOK, OutgoingOK, ChunksOK,
              IncomingOK, Stored, Pieces
<1>3. ProgressOK' /\ TodoIsQueued'
  BY <1>1 DEF FilesInv, TypeOK, ProgressOK, TodoIsQueued, Released
<1>4. PiecesAreKept' /\ PlacedIsWhole'
  BY <1>1 DEF FilesInv, PiecesAreKept, PlacedIsWhole, Stored, Pieces
<1> QED
  BY <1>2, <1>3, <1>4 DEF FilesInv, TypeOK

LEMMA PullKeeps ==
  ASSUME FilesInv, NEW u \in Users, NEW n, Pull(u, n)
  PROVE  FilesInv'
<1>1. /\ Released(u)
      /\ UNCHANGED <<authority, seen, outgoing, have, placed>>
  BY DEF Pull
<1>2. n \in 0..Len(store)
  BY DEF Pull, Waiting, FilesInv, TypeOK, AuthorityOK, IncomingOK
<1>3. AuthorityOK' /\ OutgoingOK' /\ ChunksOK'
  BY <1>1
  DEF FilesInv, TypeOK, AuthorityOK, OutgoingOK, ChunksOK, Stored, Pieces
<1>4. IncomingOK'
  <2>1. {store[k] : k \in {j \in Waiting(u) : j <= n}} \subseteq Stored
    BY DEF Waiting, Stored
  <2>2. inbox' \in [Users -> SUBSET Stored]
    BY <2>1 DEF Pull, FilesInv, TypeOK, IncomingOK
  <2> QED
    <3>1. cursor' \in [Users -> 0..Len(store)]
      BY <1>2 DEF Pull, FilesInv, TypeOK, IncomingOK
    <3>2. Stored' = Stored /\ store' = store
      BY <1>1 DEF Stored
    <3> QED
      BY <1>1, <2>2, <3>1, <3>2 DEF FilesInv, TypeOK, IncomingOK
<1>5. ProgressOK' /\ TodoIsQueued'
  BY <1>1 DEF FilesInv, TypeOK, ProgressOK, TodoIsQueued, Released
<1>6. PiecesAreKept' /\ PlacedIsWhole'
  BY <1>1 DEF FilesInv, PiecesAreKept, PlacedIsWhole, Stored, Pieces
<1> QED
  BY <1>3, <1>4, <1>5, <1>6 DEF FilesInv, TypeOK

LEMMA DownloadKeeps ==
  ASSUME FilesInv, NEW u \in Users, NEW i \in Items, Download(u, i)
  PROVE  FilesInv'
<1>1. UNCHANGED <<authority, seen, outgoing, incoming>>
  BY DEF Download
<1>2. AuthorityOK' /\ OutgoingOK'
  BY <1>1 DEF FilesInv, TypeOK, AuthorityOK, OutgoingOK, Stored
<1>3. ChunksOK' /\ IncomingOK'
  BY <1>1 DEF FilesInv, TypeOK, ChunksOK, IncomingOK, Stored, Pieces
<1>4. ProgressOK' /\ TodoIsQueued'
  BY DEF Download, FilesInv, TypeOK, ProgressOK, TodoIsQueued
<1>5. PiecesAreKept' /\ PlacedIsWhole'
  BY <1>1 DEF FilesInv, PiecesAreKept, PlacedIsWhole, Stored, Pieces
<1> QED
  BY <1>2, <1>3, <1>4, <1>5 DEF FilesInv, TypeOK

(* One chunk more, of a file that is not whole yet.                         *)
LEMMA FetchKeeps ==
  ASSUME FilesInv, NEW u \in Users, NEW i \in Items,
         FetchPeer(u, i) \/ FetchMailbox(u, i)
  PROVE  FilesInv'
<1>1. /\ Fetching(u, i) /\ UNCHANGED <<authority, outgoing, progress>>
      /\ seen' \in {seen, [seen EXCEPT ![From[i]] = epoch]}
  BY DEF FetchPeer, FetchMailbox
<1>2. AuthorityOK' /\ ChunksOK' /\ ProgressOK' /\ TodoIsQueued'
  BY <1>1 DEF FilesInv, TypeOK, AuthorityOK, ChunksOK, ProgressOK,
              TodoIsQueued, Stored, Pieces
<1>3. OutgoingOK'
  <2>1. epoch \in 1..epoch
    BY EpochIsPositive DEF FilesInv
  <2> QED
    BY <1>1, <2>1 DEF FilesInv, TypeOK, OutgoingOK
<1>4. IncomingOK'
  BY <1>1 DEF Fetching, FilesInv, TypeOK, IncomingOK, Stored
<1>5. PiecesAreKept'
  BY <1>1 DEF FilesInv, PiecesAreKept, Stored, Pieces
<1>6. PlacedIsWhole'
  BY <1>1, ItemsAssumption
  DEF Fetching, FilesInv, TypeOK, IncomingOK, PlacedIsWhole
<1> QED
  BY <1>2, <1>3, <1>4, <1>5, <1>6 DEF FilesInv, TypeOK

LEMMA PlaceKeeps ==
  ASSUME FilesInv, NEW u \in Users, NEW i \in Items, Place(u, i)
  PROVE  FilesInv'
<1>1. AuthorityOK' /\ OutgoingOK' /\ ChunksOK' /\ IncomingOK'
  BY DEF Place, FilesInv, TypeOK, AuthorityOK, OutgoingOK, ChunksOK,
         IncomingOK, Stored, Pieces
<1>2. ProgressOK' /\ TodoIsQueued'
  BY DEF Place, Released, FilesInv, TypeOK, ProgressOK, TodoIsQueued
<1>3. PiecesAreKept' /\ PlacedIsWhole'
  BY DEF Place, FilesInv, PiecesAreKept, PlacedIsWhole, Stored, Pieces
<1> QED
  BY <1>1, <1>2, <1>3 DEF FilesInv, TypeOK

LEMMA StutterKeeps == FilesInv /\ UNCHANGED vars => FilesInv'
<1> SUFFICES ASSUME FilesInv, UNCHANGED vars PROVE FilesInv'
  OBVIOUS
<1>1. AuthorityOK' /\ OutgoingOK' /\ ChunksOK' /\ IncomingOK' /\ ProgressOK'
  BY DEF vars, FilesInv, TypeOK, AuthorityOK, OutgoingOK, ChunksOK,
         IncomingOK, ProgressOK, Stored, Pieces
<1>2. TodoIsQueued' /\ PiecesAreKept' /\ PlacedIsWhole'
  BY DEF vars, FilesInv, TodoIsQueued, PiecesAreKept, PlacedIsWhole,
         Stored, Pieces
<1> QED
  BY <1>1, <1>2 DEF FilesInv, TypeOK

LEMMA StepKeeps == FilesInv /\ [Next]_vars => FilesInv'
<1> SUFFICES ASSUME FilesInv, [Next]_vars PROVE FilesInv'
  OBVIOUS
<1>1. CASE Change \/ OtherTeam \/ OtherTeamCloses \/ \E i \in Items : Expire(i)
  BY <1>1, ElsewhereKeeps
<1>2. ASSUME NEW i \in Items, Share(i) PROVE FilesInv'
  BY <1>2, ShareKeeps
<1>3. ASSUME NEW u \in Users, SyncStart(u) PROVE FilesInv'
  BY <1>3, SyncStartKeeps
<1>4. ASSUME NEW u \in Users, NEW i \in Items, PutStep(u, i) PROVE FilesInv'
  BY <1>4, NoPutKeeps, PutKeeps DEF PutStep
<1>5. ASSUME NEW u \in Users, ChunkStep(u) PROVE FilesInv'
  BY <1>5, PutChunkKeeps DEF ChunkStep
<1>6. ASSUME NEW u \in Users, PullStep(u) PROVE FilesInv'
  BY <1>6, PullKeeps DEF PullStep
<1>7. ASSUME NEW u \in Users, NEW i \in Items,
             \/ Download(u, i) \/ FetchPeer(u, i)
             \/ FetchMailbox(u, i) \/ Place(u, i)
      PROVE  FilesInv'
  BY <1>7, DownloadKeeps, FetchKeeps, PlaceKeeps
<1>8. ASSUME NEW u \in Users, End(u) \/ Restart(u) PROVE FilesInv'
  BY <1>8, ReleaseKeeps
<1>9. CASE UNCHANGED vars
  BY <1>9, StutterKeeps
<1> QED
  BY <1>1, <1>2, <1>3, <1>4, <1>5, <1>6, <1>7, <1>8, <1>9 DEF Next

(* The chunks of a file and their whereabouts stay consistent in every      *)
(* behaviour: FilesInv, which includes the types of all the variables.      *)
THEOREM FilesAreConsistent == Spec => []FilesInv
<1> QED
  BY InitFiles, StepKeeps, PTL DEF Spec

(* A file that the outbox shows as stored is at the authority with all its  *)
(* chunks, for any files, members, rosters and quota (Client::outbox,       *)
(* sync_team).                                                              *)
THEOREM StoredFilesAreWhole == Spec => []RemoteMeansWhole
<1>1. FilesInv => RemoteMeansWhole
  BY ItemsAssumption DEF FilesInv, TypeOK, AuthorityOK, OutgoingOK, ChunksOK,
         PiecesAreKept, RemoteMeansWhole, Statuses
<1> QED
  BY <1>1, FilesAreConsistent, PTL

(* What a step does to the chunks a member has.                             *)
LEMMA StepFetchesOnce ==
  ASSUME FilesInv, FilesInv', [Next]_vars, NEW u \in Users, NEW i \in Items
  PROVE  /\ have'[u][i] \in {have[u][i], have[u][i] + 1}
         /\ <<u, i>> \in placed' => have'[u][i] = Chunks[i]
<1>1. \/ have' = have
      \/ \E v \in Users, j \in Items :
           have' = [have EXCEPT ![v][j] = @ + 1]
  <2>1. CASE \/ Change \/ OtherTeam \/ OtherTeamCloses
             \/ \E j \in Items : Expire(j) \/ Share(j)
    BY <2>1 DEF Change, OtherTeam, OtherTeamCloses, Expire, Share
  <2>2. CASE \E v \in Users : \/ SyncStart(v) \/ ChunkStep(v)
                              \/ PullStep(v) \/ End(v) \/ Restart(v)
    BY <2>2 DEF SyncStart, ChunkStep, PutChunk, PullStep, Pull, End, Restart
  <2>3. CASE \E v \in Users, j \in Items :
                PutStep(v, j) \/ Download(v, j) \/ Place(v, j)
    BY <2>3 DEF PutStep, FailForRoster, Put, PutFails, Download, Place
  <2>4. CASE \E v \in Users, j \in Items :
                FetchPeer(v, j) \/ FetchMailbox(v, j)
    BY <2>4 DEF FetchPeer, FetchMailbox, Fetching
  <2>5. CASE UNCHANGED vars
    BY <2>5 DEF vars
  <2> QED
    BY <2>1, <2>2, <2>3, <2>4, <2>5 DEF Next
<1>2. have \in [Users -> [Items -> Nat]]
  BY DEF FilesInv, TypeOK, IncomingOK
<1>3. have'[u][i] \in {have[u][i], have[u][i] + 1}
  BY <1>1, <1>2
<1>4. <<u, i>> \in placed' => have'[u][i] = Chunks[i]
  BY DEF FilesInv, PlacedIsWhole
<1> QED
  BY <1>3, <1>4

(* No chunk that was fetched and verified is lost or fetched again, and     *)
(* only a whole file is placed, through every end of a download and of the  *)
(* daemon (Client::download).                                               *)
THEOREM VerifiedChunksStay == Spec => FetchedOnce
<1>1. FilesInv /\ FilesInv' /\ [Next]_vars =>
        [\A u \in Users, i \in Items :
           /\ have'[u][i] \in {have[u][i], have[u][i] + 1}
           /\ <<u, i>> \in placed' => have'[u][i] = Chunks[i]]_vars
  BY StepFetchesOnce
<1> QED
  BY <1>1, FilesAreConsistent, PTL DEF Spec, FetchedOnce
=============================================================================
