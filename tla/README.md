# A verification project for WhatsAI

TLA+ models of WhatsAI (`src/`): what is modelled, what TLC checks on small
instances, and what TLAPS proves for every instance.

## 1. The system

Every person runs one daemon (Rust) with a SQLite database `client.db`. A team
has one *authority*: the `Service` embedded in the daemon of the person who
founded the team, with a database of its own, `service.db`. Daemons talk to
each other over QUIC (iroh): `rpc` carries a signed request to an authority,
`deliver` hands an event directly to another member, `fetch_chunk` reads a part
of a shared file. Agents (Claude Code, Codex, ...) talk to their person's
daemon through Node adapters over a local socket.

Within a daemon four kinds of tasks share one `tokio` mutex around the client:
the sync loop (every 2 s), the worker loop (every 1 s), the handlers of
connections from peers, and the handlers of the local socket. The mutex stays
locked across the network calls a handler awaits. The authority has its own
`std` mutex and handles a request in one transaction.

### Inventory

Paths are below `src/crates/whatsai-core/src/` unless given in full.

| Component | State it keeps | Operations | Hard behaviour | What makes it correct |
|---|---|---|---|---|
| Governance history, `governance.rs` | a chain of signed records | `replay` | a record is legal or not in the state the earlier ones leave | roster and admins follow from the history; the team never loses its last admin before its last member |
| Authority: admission, `service.rs` | teams, join requests | `create`, `request_join`, `join_status`, `requests`, `reject`, `govern`, `team` | two admins decide at once; requests expire; the team closes | one decision per request, every change authorised when it takes effect, closing is final |
| Member's copy, `client.rs` | teams as last verified | `refresh`, `save_team`, `govern`, `leave`, `join_status` | answers are lost or late; another admin was first | copies are prefixes of the authority's history and converge to it |
| Authority: mailbox, `service.rs` | events, receipts, chunks | `put`, `pull`, `ack`, `authorize`, `receipts` | retries; the roster changes between sealing and storing; retention | stored once, for the roster of that moment |
| Outbox, inbox and sync, `client.rs` | outbox, inbox, cursor per team | `enqueue`, `sync_team`, `receive` | every call can fail or lose its answer; the daemon can stop at any point | nothing skipped, receipts and statuses true, everything stored arrives |
| Direct delivery, `daemon.rs` | - | `deliver` handler, `direct_batch` | overtakes the pull | same guarantees as the mailbox |
| Replay protection, `service.rs` | nonces | `handle` | duplicates that wait behind the database; clock skew; failed operations | a signed request is carried out at most once |
| Workers, `worker.rs` | bindings, budgets, states of inbox messages | `worker_command` (bind, enable, pause, unbind, reset), `claim_work`, `finish_work` | the owner changes the worker during its turn; crash; two workers answering each other | bounded replies, one answer per message, no answer to oneself, no rerun |
| Unread and watchers, `agents.rs`, `daemon.rs`, `src/adapters/src/mcp.ts` | read cursor per agent, `after` per watcher | `unread_after`, `mark_read`, long poll, notification | arrivals, failures and reads between poll and notification; arrivals out of order | each arrival announced once |
| Agents and sessions, `agents.rs` | agents, enrolments, leases, published names | attach, heartbeat, detach, enroll, publish, retire, adopt | two sessions in one workspace, lease expiry, restarts | an agent is in a team of its person or in none; what is seen takes part; nothing publishes itself outside a bound directory; an expired lease is never used again |
| Joining and creating, `client.rs` | rows `joining`, `creating` | `create`, `join`, `join_status` | local row and remote request are two steps | a request made is eventually known; no row is dropped with a live request |
| Files, `client.rs`, `service.rs`, `daemon.rs` | chunks at the sender, at the authority and, verified, at the recipient; the quota | `share`, chunk loop of `sync_team`, `put_chunk`, `get_chunk`, `fetch_chunk`, `download` | every call can fail or lose its answer; a manifest is stored before its chunks; the authority fills up; the roster changes; resumption | shown as stored only when whole; nothing fetched twice; what is shared arrives |
| Client lock, `daemon.rs` | the mutex | sync, commands, `rpc`, `fetch_chunk`, `deliver` | daemons wait for each other's lock over the network | which circles can close; every wait ends; syncs go on |
| Addressing, `protocol.rs`, `client.rs`, `agents.rs` | published rows, the listing a user read | `participants`, `resolve_address`, `enqueue`, `publish`, `name_agent` | handles are derived again when they are used; ambiguous names | one recipient or an error, the person that was listed, and the session |
| Start-up and storage, `storage.rs`, `daemon.rs` | state lock, schema | open, migrate | two daemons on one directory | one owner |
| Crypto, transport, `crypto.rs`, `transport.rs` | keys, connections | sign, seal, rpc | time limits | external libraries, taken as promised |
| Git handoff `repository.rs`, tables `view.rs`, CLI and TUI `src/crates/whatsai-cli/`, plugins | - | - | - | sequential process and terminal I/O |

How they meet: *outbox, inbox and sync* calls *membership* (it refreshes the
copy an event is sealed to) and the *mailbox*; *direct delivery* shares the
inbox and the receipts with it and, because it overtakes the pull, decides what
*watchers* see; *workers* read the inbox and write to the outbox; the *replay
protection* stands before every operation of the authority.

The hazards of this code, each at its line, and the properties that cover them,
are listed in `PROJECT.json`.

## 2. The modules

| Module | Models | Implements / used by |
|---|---|---|
| `Membership` | governance history, admission, members' copies | implements `Rosters` and `Admissions`; `MCMembership`, `MembershipProofs` |
| `Rosters` | who is in a team, and what members' copies can be, abstractly | implemented by `Membership`, extended by `Delivery` and `Mailbox` |
| `Admissions` | a person's request, membership and row of a team, abstractly | implemented by `Membership`, instantiated by `JoinFlow` |
| `Delivery` | what the mailbox promises, abstractly | implemented by `Mailbox` |
| `Mailbox` | outbox, store, pull/receive/ack/cursor, direct delivery | implements `Delivery`; `MCMailbox`, `MailboxProofs` |
| `ReplayGuard` | `Service::handle` around any operation | `MCReplayGuard`, `ReplayGuardProofs` |
| `Worker` | automatic replies | `MCWorker`, `WorkerProofs` |
| `Unread` | unread counts, long poll, announcements | `MCUnread`, `AgentsProofs` |
| `JoinFlow` | joining, leaving and syncing several teams, seen from one daemon | extended by `Agents`; `MCJoinFlow`, `AgentsProofs` |
| `Agents` | the agents of one person over those teams | `MCAgents`, `AgentsProofs` |
| `Files` | files: manifest, chunks, quota, upload, download | `MCFiles`, `FilesProofs` |
| `ClientLock` | which task holds which daemon's client and waits for whom | `MCClientLock`, `ClientLockProofs` |
| `Addressing` | handles, their numbering and their resolution | `MCAddressing`, `AddressingProofs` |

`MC*` modules only give constants and symmetries. Operators introduced by a
comment "mutant" are deliberate faults, named in `PROJECT.json`: each replaces
the definition after it and must make TLC find its property violated. They are
no part of the specifications.

### Membership

`team` is the authority's row: history, members, admins. `requests` its
join requests, `saved[u]` the team in `u`'s database, `joining` whose database
has the row of a join, `calls` the `govern` requests under way, `waiting[u]` the
one `u`'s daemon awaits.

- `Legal` and `Apply` are one round of `governance::replay`. A record's
  `previous` digest stands for the whole history before it, so a call carries
  that history as its `base`; signatures are unforgeable, so a record's signer
  is its sender.
- `RequestJoin`, `Reject`, `Commit`/`Refuse` are the authority's handlers, each
  one transaction. `Propose` is `Client::govern` up to the call: refresh, look
  the request up, replay on the copy, send. Its state read before the await is
  what `Commit` compares with when the call arrives.
- A join writes its row first (`Asking`). Its call makes a request
  (`RequestJoin`), changes nothing or is lost (`JoinNoted`), or finds the name
  taken, and then the row goes, also that of an earlier join whose request still
  waits (`JoinRefused`).
- `Install`, `Refresh` are the sync loop's use of `join_status` and `team`.
  `Install` needs the row; it may stay, when the daemon stops between the two
  statements, and then installs the team again over the copy there is.
  `Told` is what a caller stores on success; `GiveUp` is the 45 s limit (or a
  restart), `Lose` a lost call. A lost answer is `GiveUp` followed by `Commit`.
- `left` is the remaining life of a request, cut off at -1, so that the second
  in which `expires = now` exists: the code treats it differently in two places.

The team exists from the start: its creation is `Init`. The requests of one
identity are one row, as in the table, and no handler deletes it.

### Rosters and Admissions: the parts fit together

Two modules say what the others take membership to be, and `Membership` is
checked and proved to implement both (`ServesAsPromised`).

- `Rosters` is for what moves messages. `roster` is the identities of the
  authority's team, `admitted` the targets of the history's admissions, `known`
  what the members' copies say. One identity joins or parts at a time, nobody
  is admitted twice, an empty team stays empty, and a copy becomes what the
  authority has at that moment, shown to a member, or goes with its owner.
  `Mailbox` extends it and moves the roster by its `Joins` and `Parts` alone.
  The founder's place comes from the record that creates the team, not from an
  admission, so that a founder who left can be admitted, once.
- `Admissions` is for who joins. A seat is a person and a team that another
  founded; `request`, `member` and `mine` are the request and the membership at
  the authority and the team's row at the person's daemon. `JoinFlow`
  instantiates it: its steps on those three are these steps. For `Membership`
  the seats are the identities but the founder; an expired request and a
  rejected one are the same to the daemon that asks.

### Mailbox and Delivery

`roster`, `admitted`, `store`, `expired`, `acked` are the authority's; `known`,
`sealed`, `status`, `outbox`, `inbox`, `cursor` the daemons' databases; `pc`,
`todo`, `batch` what a running `sync_team` holds in memory. A daemon's sync
holds the client's lock from `SyncStart` to its end, so `Enqueue` and the
recipient's part of `Deliver` need `pc = "idle"`; different daemons, the
authority and the roster interleave freely.

- `SyncStart`: refresh, then the outbox in order. Per event `FailForRoster` (the
  roster changed since it was sealed), `Put`, `PutAnswerLost`, `PutFails`
  (refused, no room, never arrived).
- `noRoom` is the events too big for what is left of the authority's quota. Room
  goes when any of the daemon's teams stores something, for good, and comes back
  only when one of them closes: `RoomChanges` makes it any set of events. An
  event that is stored already needs none.
- `Pull` one page; then `Receive` and `Ack` event by event; `Finish` moves the
  cursor. `AckAnswerLost` and `Abort` end the sync as an error or a stop of the
  daemon does: what is in memory is gone, the database stays.
- `Deliver` is the whole `deliver` handler: refresh, authorize at the authority,
  receive, acknowledge (which may fail). The cursor does not move.
- `Admit`, `Depart`, `Leave` move the roster as `Rosters` says: `Depart` is a
  revocation, or a departure whose answer is lost; `Leave` one whose answer
  deletes the team's row and with it the cursor. The roster never becomes empty
  here: `Rosters` allows it, and it is `AlwaysGoverned`'s subject. Other commands
  that refresh a copy do what `SyncStart` and `Abort` do to it.

`Delivery` has, besides the roster, `posted`, `received`, `confirmed`: a message
is posted at most once, to the roster of that moment; only they receive it; only
what was received is confirmed; meanwhile roster and copies change as `Rosters`
says. `Mailbox` implements it with `posted` = the store's ids and recipients,
`received` = `inbox`, `confirmed` = `acked`.

### ReplayGuard

A request has a timestamp that may be off by `Skew`. A copy that passes the
window (`Arrive`) waits up to `MaxWait` for the database mutex. `CarryOut` is
the transaction that commits; `Refuse` one that is rolled back with its purge
and its nonce. The clock is read twice, before and after the wait, as in the
code.

### Worker

`mail` is every message by sequence number, with its conversation (`root`),
the message it answers (`re`) and its work state; `worker[a]` the binding;
`budget` the durable counters; `turn[p]` the turn a daemon runs with the
client unlocked. `Ignore`, `Exhaust`, `Claim` are the outcomes of `claim_work`
for one agent; `Reply` and `Fail` those of `finish_work`; `Restart` the end of
the daemon and the mark "interrupted" that `Client::open` leaves at its start. `Bind`, `EnableOrPause`, `Unbind`,
`Reset`, `Enroll`, `Unenroll`, `Retire` are the owner's commands and interleave
with a running turn. `resets` and `commands` only count, for a property and a
bound. The order in which agents are looked at, and whether the daemon looks at
all after a sync with an error, are left open. The roster is one for all
daemons, where the code has each daemon's copy (`Membership`). A turn's session
is identified by the place (harness and directory) it ran in.

### Unread

The authority numbers events (`Store`); they arrive by `Pull` in order or by
`Deliver` in any order. `cursor` is the agent's, `after` the watcher's. `Wake`
and `TimeOut` are the two answers of the long poll, `Announce` and
`AnnounceFails` what the adapter does with an answer, `WatchAgain` a new session
of the watcher, which starts at 0. `announced` and `late` are history
variables. One team and one agent.

### JoinFlow

`member` and `request` are the authorities' view of one person: the teams whose
roster has the person, and the row of their request, which no handler deletes
or renews. `joining` and `mine` are the tables `joining` and `teams` of the
person's daemon; `stage` and `todo` the loops of `join_status` and `sync`.

- `Join`, `JoinAdmitted`, `JoinUnsent`, `JoinRefused` are the outcomes of
  `Client::join`: the row is written first; the call may not arrive; a taken name
  deletes the row again, also the row of an earlier request (`dropped` remembers
  that). Answered "admitted", `join` runs `join_status` (stage "lookup").
  `JoinArrives` is a call that was given up and is carried out after all.
- A round of the sync visits every join (`CheckUnknown`, `CheckWaiting`, `Learn`,
  `CheckFails`), then every team (`SyncTeam`). `CheckFails` is the deserialisation
  of a team that is not in the answer: its error ends the whole sync.
- `LearnCut`, `LeaveCut`, `Restart` are the stops between two statements.
- Commands hold the client's lock, so they come between rounds. `Revoke`,
  `Admit`, `RejectOrExpire` come at any time.

The roster is a set of teams here; how it comes about is `Membership`'s subject,
and that it moves no other way is what `Membership` implements (`Admissions`).

### Agents

`Agents` extends `JoinFlow`: `agents[x]` is the row of an agent (directory,
team, published, retired; `enrolled` is `team # NONE`), `from[t]` the directory
a team was joined from. `Attach` matches the directory as `match_workspace`
does; `Publish`, `Unpublish`, `Enroll`, `Unenroll`, `Retire`, `Adopt` are the
commands; `JoinAgain` is `join` with the key of a team one is in; `LearnAgents`,
`LeaveAgents` and their `Cut` forms add to JoinFlow's steps what `join_status`
and `leave` do to agents. One harness stands for all, and the labels are those
of directories of one name, numbered. The switches `auto_enroll` and
`auto_publish` are a choice at each use.

### Files

`Rosters[epoch]` is the roster; `store`, `kept`, `expired`, `others` are the
authority's events, chunks, expired events and what it stores for other teams
(the quota is the daemon's; nothing of an open team is deleted, and
`OtherTeamCloses` is all that gives room back). `sealed`, `status`,
`unsent` are the sender's outbox and its table of chunks; `inbox`, `cursor`,
`have` (verified chunks) and `placed` (files in a directory) the recipient's.
`pc[u]` says whether a sync or a download holds the lock of `u`'s client; `todo`
and `want` are what it has in memory.

- `Share` is `share` and, for an item without chunks, a plain message.
- A sync: `SyncStart`, then per queued item `FailForRoster`, `Put` (whose answer
  arrives or not) or `PutFails`, then `PutChunk` in any order, then `Pull`. An
  error of a chunk or of a call after it is `End`, a stop of the daemon among
  the puts `Restart`. `Pull` is here one step up to the event at which it ends:
  its own steps are Mailbox's.
- A download: `Download`, then per chunk `FetchPeer` (the sender's whole
  `fetch_chunk` handler: its lock must be free, it refreshes its copy and asks
  the authority to authorize) or `FetchMailbox`, then `Place`; `End` whenever it
  fails or its limit of chunks is reached.

Digests verify content, so a chunk is its number. How rosters come about is
Membership's subject: here they are a parameter.

### ClientLock

`holder[d]` is the task that holds the lock of `d`'s client: the sync, a
download (the one command that calls a peer; other commands call their team's
authority as a download may do), or a handler that serves a peer. `call[d]` is
what that task waits for; `direct[d]` what the sync task waits for after it let
the lock go. `Make`, `Answer`, `Finish` are a call, its answer by an authority
(whose lock must be free for a moment), and the end of a task. `GiveUp` and
`GiveUpDirect` are the limits of 45 and 5 s or a failure; the handler that
served the call then goes on as `abandoned`. What is said in the calls is left
to Mailbox and Files. Handlers of one daemon run beside each other: they are
serialised by the lock alone, and so is the model.

### Addressing

`shown[u]` is what `u`'s daemon shows of its published sessions (label and
nickname), `copy` the team and the rows on record at one daemon, `listed` a row
its user has read there together with the person's rows at that time. `Publish`,
`Unpublish`, `NameAgent` are the owners' commands, `Refresh` brings the roster
and the rows of any of the owners up to date, `Admit` and `Leave` change the
roster. `Participants`, `Session`, `FindPerson`, `ResolveAddress` and `Target`
are the operators of the code, in that order: what a listing shows, how sessions
of one name are numbered, whom an address means, and what `enqueue` makes of it.
Texts are atoms; slugs, numbered names, the order of texts and prefixes of keys
are tables, assumed to be what the code's functions give.

## 3. The runs

`tlc -config X.cfg MCModule`. Times are for two workers.

| Run | Config | Shows | Size |
|---|---|---|---|
| `membership` | `MCMembership` | rosters stay governed and follow the history; copies are prefixes of it and catch up with it, but for a member without a row to ask by; every change had authority when it took effect; one decision per request; a closed team stays closed; `Membership` implements `Rosters` and `Admissions` | 168 628 states, 60 s |
| `mailbox` | `MCMailbox` | nothing skipped, statuses true, only the roster of the time reads; `Mailbox` implements `Delivery`: posted once, confirmed only when received, under the rosters of `Rosters`; what is stored arrives, the outbox drains of all that there is room for | 260 606 states, 150 s |
| `failed_though_stored` | `MCMailboxFailed` | finding 1: "failed" although stored | violation |
| `replay_guard` | `MCReplayGuard` | at most once, only what was carried out is refused as a replay | 58 000 states |
| `worker` | `MCWorker` | bounded replies, one answer per message, none to oneself, sessions fit, verdicts are final, a turn's end switches nothing | 251 000 states |
| `unread` | `MCUnread` | announced at most once; missed only if late; announced in the end | 34 000 states |
| `arrival_never_announced` | `MCUnreadLate` | finding 2: a late arrival is never announced | violation |
| `agents` | `MCAgents` | no request is forgotten, every admission is learned, only stale joins block; agents only in one's teams, seen only where they take part, published only by their owner or in a related directory, moved by no sync | 160 183 states |
| `join_blocks_sync` | `MCJoinFlowBlocked` | finding 3: a stale admission stops every sync | violation |
| `files` | `MCFiles` | a file shown as stored is whole; nothing is fetched twice; within the team only a refused chunk keeps mail from coming; what is shared arrives, but for the exceptions named | 60 552 states, 80 s |
| `client_lock` | `MCClientLock` | only two kinds of circles of waiting daemons; every daemon syncs again and again | 1 765 states |
| `addressing` | `MCAddressing` | an address from a listing never leads to another person, and to another session only in the cases named | 110 592 states, 30 s |

### Bounds, and why they are enough

- *Membership*: a founder and a newcomer, histories of up to five records
  (`MaxRevision`): admission, promotion, two admins who demote, revoke or leave
  each other at once, the departure of either and the closing of the team. Two
  calls travel at once (`MaxInFlight`), which is what it takes to race; requests
  live for one tick, so that they run out in every history. `MaxPending` is 2
  (100 in the code): the limit is not reached, nor does a property depend on
  it. Three identities with histories of four records (230 290 states up to
  symmetry) satisfy the same safety properties, and those are proved for any
  number. Liveness is checked for two.
- *Mailbox*: two identities, the founder and one who is not yet a member, one
  message each, and two mishaps, each an admission, a departure, an expiry or an
  event for which there is no room (room that comes back counts no more). The founder's return counts for nothing, since
  the departure before it does. A page of two events (100 in the code) holds all of
  them, so that a page can be cut short after its first event; with a page of
  one, every boundary between pages occurs, and the same properties hold. Only
  `a`'s daemon is assumed to keep running. Safety is proved for any page size
  and any number of changes.
- *ReplayGuard*: window 2, retention 4, skew 1, wait 1 stand for 300 s, 600 s and
  a margin of 300 s: exactly what `MarginAssumption` allows. Two requests, two
  copies each, nine ticks: longer than two retentions. The run ends at `MaxTime`
  with every copy gone, hence no deadlock check.
- *Worker*: two people with an agent each that can answer each other, two
  letters out of four kinds (to a default worker, to a named agent, to one's own
  agent), four messages in all, limits of one reply (three in the code), one
  command of an owner; agents may enroll again at any time. With a limit of one
  the second message of a conversation meets the limit. Two owner commands were
  also run once (2.3 million states, no error).
- *Unread*: four events, two lives of the watcher: enough for an event below,
  inside and above a batch under way.
- *Agents* and *JoinFlow*: two teams, so that one can block the other and an agent
  can be moved between them; one is bound to a repository and one to a path. Two
  directories, one of them bound to nothing; two agents, so that one can be
  adopted into the other's place. Nothing else is bounded: people join, leave and
  are revoked for ever.
- *Files*: a file of two chunks from `s` to `r`, a message from `r` to `s`, a
  quota of three (the file alone fits, or the message and half of the file), and
  one mishap: another team's event, an expiry, or a newcomer in the roster. So
  the authority fills up before the manifest, between manifest and chunks, and
  between the chunks; both daemons sync and download at the same time. More
  would not add a case: chunks are independent of each other but for the quota,
  and what one recipient does leaves the others' state alone.
- *ClientLock*: two daemons, each the authority of one team and a member of the
  other: every task, every call and every circle of two occurs. Three daemons
  with two teams (118 525 states) satisfy `KnownCircles` too, which is proved
  for any number. Nothing is bounded.
- *Addressing*: two people of one name besides the one who lists, one of them a
  member at the start; sessions of one harness that get numbered, a nickname
  that equals a numbered name, and a label that is not published. Nothing is
  bounded but these sets.

### Fairness

- *Membership*: `Install` and `Refresh` are strongly fair: the sync loop comes
  back every two seconds and queues for a mutex that tokio grants in order, so
  they are tried again and again while they are enabled again and again.
  `GiveUp` is weakly fair: it is a timer. Assumed besides: a member's daemon
  goes on running, and no stale join to another team (finding 3) ends its syncs
  before they ask. Nothing is assumed of what users decide. A daemon without the
  row of its join asks nothing, so that whoever joins again under a taken name
  while the first request waits, and is admitted on it, never learns of it: that
  is the exception of `CopiesConverge`, and `dropped` of `JoinFlow`.
- *Mailbox*: for the daemons in `Running` only. A sync starts, moves and ends
  (weak); a call repeated for ever is not lost for ever, and is accepted if it
  is acceptable again and again (strong, per step of the sync). That there is
  ever room is not assumed: `OutboxDrains` excepts the events without. Set aside
  is what ends a sync before its pull: a refused chunk (`client.rs:896`, which is
  `Files`' subject) and a stale join to another team (`client.rs:838`,
  `JoinFlow`'s). Senders' direct deliveries, other daemons and roster
  changes get no fairness.
- *Agents* and *JoinFlow*: whatever holds the client's lock goes on, since each
  call ends after a bounded time (`GoOn`, weak); the loop gets the lock, which
  tokio hands out in order (`SyncStart`, strong); an authority that is asked in
  every round answers in the end (`Learn`, strong, but no other answer); and the
  daemon is not stopped in the middle of a round for ever. Nothing is assumed of
  users and admins, or of calls that are lost (`CheckUnknown` may happen or not).
- *Files*: for the daemons in `Running`, whose stops come to an end: the sync
  task comes back every two seconds and gets the lock in turn (`SyncStart`,
  strong), its puts and whatever holds the lock end (weak: each call has a time
  limit), and what the authority would accept gets through if it is tried again
  and again (`SyncGetsOn`, strong). That a sync comes to this team takes that no
  stale join to another team (finding 3) ends it before. A chunk goes up only in a round in which no
  chunk would be refused: nothing is assumed of the order, which SQL leaves
  open. The user asks for a download until the file is there. Nothing is
  assumed of the way to the sender's daemon, of users who share, or of
  mishaps.
- *ClientLock*: tokio grants the mutex in the order it was asked for
  (`StartSync`, strong); a task makes finitely many calls (`Finish`, strong), a
  batch has at most twenty events (`EndBatch`, strong), every call has a limit
  (`GiveUp`, `GiveUpDirect`, weak). No call need ever be answered.
- *Unread*: pulls go on (weak), polls go on (weak), a notification that is tried
  again and again succeeds in the end (strong).

## 4. The proofs

All checked by TLAPS, for every value of the constants that satisfies the
modules' assumptions.

| Theorem | States |
|---|---|
| `MembershipProofs!TypeCorrect` | types of every variable |
| `MembershipProofs!TeamAlwaysGoverned` | the team and every copy keep an admin until their last member leaves |
| `MembershipProofs!CopiesNeverFork` | every member's copy is a prefix of the authority's history |
| `MembershipProofs!RostersFollowHistory` | the roster of the team and of every copy is what its history says |
| `MembershipProofs!ChangesAreSignedWithAuthority` | every record was signed with authority in the state before it |
| `MembershipProofs!RequestsAreDecidedOnce` | an identity is admitted at most once, and exactly if its request says so |
| `MembershipProofs!ClosedTeamsStayClosed` | a team without members never changes again |
| `MembershipProofs!MembershipKeepsRosters` | `Membership` implements `Rosters` |
| `MembershipProofs!MembershipKeepsAdmissions` | `Membership` implements `Admissions` |
| `MembershipProofs!MembershipServesAsPromised` | both: what `Mailbox` and `JoinFlow` rest on |
| `MailboxProofs!TypeCorrect` | types, and a batch at hand exactly while receiving |
| `MailboxProofs!NothingIsSkipped` | the cursor passes only what is in the inbox and acknowledged, or has expired |
| `MailboxProofs!ReceiptsAreTrue` | an acknowledged event is in its recipient's inbox |
| `MailboxProofs!ReadersAreTheRoster` | an event is for, and read by, the roster of the moment it was stored |
| `MailboxProofs!StoredStatusHolds` | "service-stored" is true |
| `MailboxProofs!ImplementsDelivery` | `Mailbox` implements `Delivery` |
| `ReplayGuardProofs!CarriedOutAtMostOnce` | no request takes effect twice |
| `ReplayGuardProofs!FailedIsNotReplay` | only what was carried out is refused as a replay |
| `WorkerProofs!RepliesStayBounded` | replies in a conversation stay within the limit, once more per reset |
| `WorkerProofs!MessagesAreAnsweredOnce` | a message has one reply if it says so, none otherwise |
| `WorkerProofs!WorkersDoNotTalkToThemselves` | no worker answers itself or its owner's notes |
| `WorkerProofs!SessionsFitTheirBindings` | a saved session is one of the harness and directory bound now |
| `WorkerProofs!VerdictsAreFinal` | only a reset reopens what a worker has finished with |
| `WorkerProofs!TurnsLeaveTheSwitch` | a turn's end never switches a worker |
| `FilesProofs!StoredFilesAreWhole` | a file shown as stored is whole at the authority |
| `FilesProofs!VerifiedChunksStay` | no verified chunk is lost or fetched again; only whole files are placed |
| `ClientLockProofs!OnlyKnownCircles` | a circle of waiting daemons has a download from a peer, or two authorities |
| `ClientLockProofs!FounderGetsNoChunkFromAPeer` | a founder's download blocks the peer that serves it |
| `AddressingProofs!AddressesKeepTheirPerson` | an address from a listing never leads to another person |
| `AddressingProofs!AddressesKeepTheirSession` | it leads to its session but in the cases named |
| `AgentsProofs!TypeCorrect` | types, and the directory of every join and team |
| `AgentsProofs!NobodyForgotten` | every request and membership has its row at the daemon |
| `AgentsProofs!AgentsFollowJoins` | `Agents` implements `JoinFlow` |
| `AgentsProofs!OnlyMyTeams` | an agent is in a team the daemon has, or in none |
| `AgentsProofs!VisibleAlwaysTakesPart` | what teammates see takes part and is not retired |
| `AgentsProofs!NothingPublishesItself` | outside a team's directories an agent becomes visible by its owner's command only |
| `AgentsProofs!SyncsRespectOwners` | outside the directories that asked, a sync moves and publishes no agent of a team |
| `AgentsProofs!JoinsFollowAdmissions` | `JoinFlow` makes no other step on what it shares with the authorities than `Admissions` |
| `AgentsProofs!WatchTypeCorrect` | types of `Unread` |
| `AgentsProofs!NothingAnnouncedTwice` | each arrival is announced at most once |
| `AgentsProofs!OnlyLateIsMissed` | nothing is missed but what arrived below a later event |

Each module proves an inductive invariant (`Spec => []IInv`, `Invariance`) and
derives its theorems from it.

- *Membership*: `TypeOK`, `PendingNamed` (a pending request has a name, so that
  an admission adds a well-formed member), `AlwaysGoverned` and
  `CopiesArePrefixes`. The step that matters is that of one record
  (`ApplyGoverned`): the last-admin rule is what keeps an admin. From
  `CopiesArePrefixes`, a refreshed copy *is* the authority's team's history
  (`CopyIsTeam`), so save_team's alarms never fire. On top of it stands
  `RecordedInv`: rosters are folds of their histories, every record was signed
  with authority, requests agree with admissions. Its step is that of `Commit`
  (`CommitRecorded`): a call takes effect only on the history it was made from,
  so that the caller's check of authority is still true; every other step keeps
  the history (`StepCommitsOrKeeps`). `Rosters` follows from both: a copy that
  is saved is the team of that moment (`StepShowsMembers`), and an admission
  finds no earlier one in the history, since its request is still pending.
  `Admissions` needs `CallersKeepCopies` besides: who waits for a call has the
  team on record, so that only `Install` adds the team's row (a second one
  replaces it by the team of that moment). Assumptions: the founder is
  an identity and its name a name; the bounds are natural numbers; an absent
  value is no team and no call.
- *Mailbox*: `CursorSkipsNothing` is not inductive, because the cursor moves on
  the word of `pc` and `batch`. `BatchOK` says that between the cursor and an
  event of the batch nothing of the puller's is left out (`PageIsFront`: a page
  is a front of what waits); `TurnOK` that the event being acknowledged is in
  the inbox. `StoreOK` (stored once, for the roster of that moment) and `InboxOK`
  carry the readers' theorem. The refinement maps `Put` and `PutAnswerLost` to
  `Post` or a stutter, `Receive` to `Receive`, `Ack` and `AckAnswerLost` to
  `Confirm`, `Deliver` to `Receive` or `ReceiveAndConfirm` (with the copy it
  refreshes), `Admit`, `Depart`, `Leave` and `SyncStart` to the steps of
  `Rosters`, everything else to a stutter. `AckedIsKept`, which
  `Delivery`'s confirmations come to, is the theorem `ReceiptsAreTrue`. Assumptions: members and
  senders are identities, the founder is a member, a page holds at least one
  event, the bounds are naturals.
- *ReplayGuard*: `NoncesLast`: a nonce outlives every copy that may still be
  carried out. It needs `MarginAssumption`, `Skew + Window + MaxWait <= Retention`:
  a sender's clock that runs ahead of the authority's and the wait for the
  database together may use up the 300 s between the window (300 s) and the
  retention (600 s). The code does not enforce this; it holds of any deployment
  whose clocks are within the window, since a request waits for milliseconds.
- *Agents*: two invariants. `JoinInv` is types, `MembersWereAdmitted` (who is a
  member has a request that says so: needed when a member leaves, since no
  pending request can then be forgotten with the row) and `NobodyIsForgotten`; it
  is proved for `JoinFlow` and carried over by `AgentStepJoins`: every step of
  Agents is a step of JoinFlow or leaves its variables alone. `AgentsInv` says
  that each agent is `Settled` among the teams of the daemon; a lemma for each
  operator over agents (`BroughtSettled`, `EnrolledSettled`, `ReleasedSettled`)
  says it keeps them so, `MoreTeamsSettled` that a new team harms nobody. The
  two action properties are about one agent at a time: `StepShows` says which
  steps can make it visible, `RoundLeavesInPlace` what a round leaves of it; both
  rest on what `Brought`, `Enrolled` and `Installed` do to an agent elsewhere.
  Assumptions: `NONE` is no team and no directory; bindings are teams or `NONE`.

- *Worker*: three accounts of the same turns are related: what was charged
  (`Charged`: replies and a running turn are within budget and resets), what
  runs (`TurnsFit`: the turn's message is for its agent's owner and not from the
  agent itself) and what was sent (`RepliesFollow`, `AnsweredOnce`). `Charged`
  is the strengthening: the budget is charged when the turn is claimed, so a
  reply uses up what the turn was holding, and a turn that fails gives nothing
  back. Assumptions: agents have owners, bindings have limits in the naturals,
  the bounds are naturals.
- *Files*: `PiecesAreKept`: from the moment the manifest is in the outbox, the
  sender has each chunk still to upload or the authority keeps it; a row is
  marked only after the authority said yes, and the authority deletes nothing
  of a team that is open.
  `TodoIsQueued` says that a sync's list is of its own queued items, so that no
  put is carried out for a failed one. `PlacedIsWhole` carries the download.
- *ClientLock*: `TasksWait`: a waiting task holds its lock and makes one of its
  kind's calls; `CallersWait`: whom a handler serves waits for that very call.
  `CirclesAreKnown` derives the circles: without a fetch from a peer every call
  of a circle goes to an authority, and an authority does not call itself, so
  that at least two teams and two authorities take part.
- *Addressing*: the types are all the invariant it takes; the work is in lemmas
  about the operators. A fingerprint begins one key only, so `FindPerson` finds
  the listed person or nobody. If no row that may be called so came or went, the
  listed session is counted among the same rows, gets the same number, and is
  the first of those found (`TargetIsListed`).

- *Unread*: `WatchInv` relates three numbers: what a poll holds, what the
  watcher has passed, and what has arrived. An answer never reaches beyond the
  newest arrival, and whatever arrives later than it is above it or `late`. The
  largest and the smallest element of a set of numbers are obtained from the
  library's theorem that a non-empty set has a minimal element in a well-founded
  order (`LeastOfNat`, `GreatestOfNat`), where an induction would have been
  needed.

Only model-checked are the liveness properties, which are out of the prover's
reach: `AdmissionIsLearned`, `OnlyStaleJoinsBlock`, `CopiesConverge`,
`StoredIsDelivered`, `OutboxDrains`, `ArrivalsAreAnnounced`,
`OnlyChunksBlockTheInbox`, `SharedArrives`, `SyncsGoOn`. Every invariant and
every action property of a passing run is a theorem.

## 5. Findings

1. *"Failed" does not mean not sent* (`client.rs:872`). A put is stored, its
   answer lost, the roster changes: the retry is not made and the outbox says
   "failed", while the authority delivers the event. `docs/operations.md:55` asks
   the user to resend, which sends it twice.
2. *A late arrival is never announced* (`agents.rs:429`). A direct delivery puts
   a later number into the inbox before an earlier one is pulled. A watcher that
   has announced the later one counts only above it, so the earlier one is never
   announced, although `agents.rs:412` and `README.md:141` say each arrival is
   announced once. `MissedOnlyIfLate` says that nothing else is missed.
3. *A stale admission stops every sync* (`client.rs:615`, `service.rs:141`). The
   row of a request says "admitted" for ever. A person who was admitted and is
   no longer a member is answered "admitted" without a team, which
   `join_status` takes for an error, and `sync` gives up before its first team:
   nothing is sent or received in any team, and no worker runs
   (`daemon.rs:159`). It takes a revocation before the admission was polled, or a
   departure followed by another `join`. `client.rs:836` says that one authority
   never blocks the rest; that an unreachable one does not is
   `OnlyStaleJoinsBlock`. The only way out is a join under a taken name, which
   deletes the row: the authority admits no request twice. A team that is not
   the invited one (`client.rs:616`) would end the round at the same place; the
   authorities of the models are honest.

Seen while modelling, without a run of its own:

- *A name can be taken twice* (`service.rs:97` and `service.rs:196`). A name is
  held by requests with `expires > now`, and a request is admitted while
  `expires >= now`. In the second in which a request expires, another newcomer
  requests its name, and both are admitted; `service.rs:94` says a taken one is
  refused. Three identities in Membership show it.
- *A full authority, or a file that expires half uploaded, stops the sender's
  inbox* (`client.rs:896`): the refused chunk ends `sync_team` before the pull,
  at every sync. `OnlyChunksBlockTheInbox` says that nothing else within the
  team does; a stale join to another team does too (finding 3). Room comes back
  only when a team of that authority closes; until then no new event is stored
  there either (`OutboxDrains`).
- *A founder's download from a peer blocks the founder's authority*
  (`daemon.rs:187`): the peer's handler asks for the roster and waits for the
  lock the download holds; after five seconds the download turns to the
  mailbox, chunk after chunk (`FounderFetchesFromNoPeer`).
- *Addresses are unique by construction* (`README.md:147`) as far as people go.
  A nickname may equal the numbered name of another session of the same person
  (`claude-2`); sessions are renumbered when others of the name come or go; and
  a harness with an underscore is listed by a name that is never found, since
  only what the user types is turned into a slug (`AddressKeepsItsSession`).

## 6. Not modelled, and why

- *Crypto, QUIC, SQLite*: libraries. Signatures are unforgeable, an event is read
  by those it was sealed to, transactions are atomic.
- *Tables, TUI, command line, git handoff, plugins, installers, migrations*:
  sequential I/O and formatting without state the parts above share.
- *Names, keys, texts, addresses*: model values. Syntax checks are data.
- *In the modelled parts*: the receipts query and the deletion of the
  events of the very team that closes (of another it is room that comes back:
  `RoomChanges`, `OtherTeamCloses`); an agent that moves to another team and keeps
  its cursor; the order of agents in `claim_work`; leases and heartbeats;
  `create` and its row; the start of a daemon (state lock, port, socket);
  Codex's own unread bridge.

## 7. Plan

Done, in order of importance: `Membership`, `Mailbox` with `Delivery`,
`ReplayGuard`, `Worker`, `Unread`, `JoinFlow`, `Agents`, `Files`, `ClientLock`,
`Addressing`, proofs about all of them, and the interfaces `Rosters` and
`Admissions` by which membership, mailbox and joining fit together.

What could follow:

1. `Create`: the row `creating` of `client.rs` against the authority's `create`,
   with its retries, and a second daemon on one directory.
2. `Sessions`: attach, heartbeat, lease expiry, detach; the read cursor of an
   agent that moves between teams; what a session has looked at when it marks
   read.
3. A composition of `Worker` and `Mailbox`: a reply that is stored, lost, failed.
4. `Files` under the rosters of `Rosters`, which are a parameter there, and an
   abstract specification of what it promises, as `Delivery` is for `Mailbox`.
