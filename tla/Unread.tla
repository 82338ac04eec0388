------------------------------- MODULE Unread -------------------------------
(***************************************************************************)
(* What an agent has not read, and how a watcher announces it.  The        *)
(* authority numbers a team's events; they reach the inbox by pulls, in    *)
(* that order, or directly from their sender, in any order.  An agent      *)
(* keeps one number, its cursor, and a watcher (the channel of the MCP     *)
(* adapter) another, its `after`: what is above both is new.               *)
(*                                                                         *)
(* One team, one agent.  An agent that moves to another team keeps its     *)
(* cursor, although the numbers of two teams are unrelated; that is left   *)
(* out.                                                                    *)
(***************************************************************************)
EXTENDS Integers, FiniteSets, FiniteSetsExt

CONSTANTS
  NoAnswer,   \* the watcher has no answer to announce
  MaxStored,  \* bound: events
  MaxLives    \* bound: starts of the watcher

ASSUME WatchBoundsAssumption == MaxStored \in Nat /\ MaxLives \in Nat \ {0}

VARIABLES
  stored,     \* how many events the authority has numbered
  addressed,  \* the events addressed to this agent by someone else
  arrived,    \* the events in the inbox
  cursor,     \* the agent's cursor: read up to here
  after,      \* the watcher's: announced up to here
  woken,      \* the watcher's answer while it has not announced it
  announced,  \* announced[s]: how often this life of the watcher announced s
  late,       \* the events that arrived below one that was there already
  lives       \* how often the watcher was started

watchVars == <<stored, addressed, arrived, cursor, after, woken, announced,
               late, lives>>

Events == 1..MaxStored

Newest == Max(arrived \cup {0})

Larger(m, n) == IF m < n THEN n ELSE m

----------------------------------------------------------------------------
(* Events                                                                  *)

Store(mine) ==
  /\ stored < MaxStored
  /\ stored' = stored + 1
  /\ addressed' = IF mine THEN addressed \cup {stored + 1} ELSE addressed
  /\ UNCHANGED <<arrived, cursor, after, woken, announced, late, lives>>

Receive(s) ==
  /\ arrived' = arrived \cup {s}
  /\ late' = IF s < Newest THEN late \cup {s} ELSE late
  /\ UNCHANGED <<stored, addressed, cursor, after, woken, announced, lives>>

Missing == (1..stored) \ arrived

(* The next event the authority has for us.                                *)
Pull == Missing # {} /\ Receive(Min(Missing))

(* A sender is faster than the pull.                                       *)
Deliver(s) == s \in Missing /\ Receive(s)

----------------------------------------------------------------------------
(* The agent                                                               *)

(* A session says it has read what there is.                               *)
MarkRead ==
  /\ cursor' = Newest
  /\ UNCHANGED <<stored, addressed, arrived, after, woken, announced, late,
                 lives>>

(* A mutant of NewSince: an event announced before is new again.           *)
NewAgain(a) == {s \in arrived \cap addressed : s > cursor /\ s >= a}

(* What unread_after counts as new for the agent.                          *)
NewSince(a) == {s \in arrived \cap addressed : s > Larger(a, cursor)}

----------------------------------------------------------------------------
(* The watcher: a long poll, then the announcement                         *)

Woken == [latest |-> Newest, new |-> NewSince(after)]

Wake ==
  /\ woken = NoAnswer
  /\ NewSince(after) # {}
  /\ woken' = Woken
  /\ UNCHANGED <<stored, addressed, arrived, cursor, after, announced, late,
                 lives>>

(* A poll that found nothing new in its time.                              *)
TimeOut ==
  /\ woken = NoAnswer
  /\ NewSince(after) = {}
  /\ after' = Newest
  /\ UNCHANGED <<stored, addressed, arrived, cursor, woken, announced, late,
                 lives>>

(* A mutant of Advanced: past what has come in since the poll.             *)
AdvancedToNewest == Newest

Advanced == woken.latest

Announce ==
  /\ woken # NoAnswer
  /\ announced' = [s \in Events |->
                     announced[s] + IF s \in woken.new THEN 1 ELSE 0]
  /\ after' = Advanced
  /\ woken' = NoAnswer
  /\ UNCHANGED <<stored, addressed, arrived, cursor, late, lives>>

(* A mutant of AnnounceFails: the batch is given up.                       *)
AnnounceGivesUp ==
  /\ woken # NoAnswer
  /\ after' = woken.latest
  /\ woken' = NoAnswer
  /\ UNCHANGED <<stored, addressed, arrived, cursor, announced, late, lives>>

(* The inbox or the notification fails: the same batch is tried again.     *)
AnnounceFails ==
  /\ woken # NoAnswer
  /\ woken' = NoAnswer
  /\ UNCHANGED <<stored, addressed, arrived, cursor, after, announced, late,
                 lives>>

(* The session ends, and another is started.                               *)
WatchAgain ==
  /\ lives < MaxLives
  /\ lives' = lives + 1
  /\ after' = 0
  /\ woken' = NoAnswer
  /\ announced' = [s \in Events |-> 0]
  /\ UNCHANGED <<stored, addressed, arrived, cursor, late>>

----------------------------------------------------------------------------
WatchInit ==
  /\ stored = 0
  /\ addressed = {}
  /\ arrived = {}
  /\ cursor = 0
  /\ after = 0
  /\ woken = NoAnswer
  /\ announced = [s \in Events |-> 0]
  /\ late = {}
  /\ lives = 1

WatchNext ==
  \/ \E mine \in BOOLEAN : Store(mine)
  \/ Pull
  \/ \E s \in Events : Deliver(s)
  \/ MarkRead
  \/ Wake \/ TimeOut \/ Announce \/ AnnounceFails \/ WatchAgain

WatchSpec == WatchInit /\ [][WatchNext]_watchVars

(* The daemon keeps syncing and the watcher keeps polling; a notification  *)
(* does not fail for ever.                                                 *)
FairWatchSpec ==
  WatchSpec /\ WF_watchVars(Pull) /\ WF_watchVars(Wake) /\ SF_watchVars(Announce)

----------------------------------------------------------------------------
(* Properties                                                              *)

(* Every variable keeps its type, and the two cursors never run ahead of   *)
(* the inbox they were read from.                                          *)
WatchTypeOK ==
  /\ stored \in 0..MaxStored
  /\ addressed \subseteq 1..stored
  /\ arrived \subseteq 1..stored
  /\ late \subseteq arrived
  /\ cursor \in 0..Newest
  /\ after \in 0..Newest
  /\ woken = NoAnswer \/ (woken.latest \in after..Newest /\ woken.new \subseteq arrived)
  /\ announced \in [Events -> Nat]
  /\ lives \in 1..MaxLives

(* "A watcher can hand it back as `after` and be told about each arrival   *)
(* once": none twice, although polls, failures and mark_read interleave    *)
(* (unread_after counts above the larger of the two cursors).              *)
AnnouncedOnce == \A s \in Events : announced[s] <= 1

(* An addressed event at or below the watcher's `after` was announced or  *)
(* marked read, or else it came late: the only way to miss one is that a   *)
(* later one was delivered directly before it was pulled.                  *)
MissedOnlyIfLate ==
  \A s \in arrived \cap addressed :
    s <= after => announced[s] = 1 \/ s <= cursor \/ s \in late

(* "... so each arrival is announced once": without exception (README,     *)
(* operations guide, comment of unread_after).                             *)
EachArrivalIsAnnounced ==
  \A s \in arrived \cap addressed :
    s <= after => announced[s] = 1 \/ s <= cursor

(* What arrives in order is announced or marked read in the end, however   *)
(* often the announcement fails or the watcher starts again.               *)
ArrivalsAreAnnounced ==
  \A s \in Events :
    s \in arrived \cap addressed /\ s \notin late
      ~> announced[s] = 1 \/ s <= cursor
=============================================================================
