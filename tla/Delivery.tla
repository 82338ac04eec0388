------------------------------ MODULE Delivery ------------------------------
(***************************************************************************)
(* What the mailbox promises, without saying how: a message is posted at   *)
(* most once, to the roster of that moment; only those it was posted to    *)
(* ever receive it; and a receipt is only given for a message its          *)
(* recipient has.  Meanwhile the roster changes as Rosters says.  Mailbox  *)
(* is checked, and proved, to implement this.                              *)
(***************************************************************************)
EXTENDS Sequences, Rosters

CONSTANT Messages

VARIABLES
  posted,     \* the messages posted so far, each with its recipients
  received,   \* received[u]: the messages u has
  confirmed   \* pairs <<m, u>>: u's receipt for m

vars == <<rosterVars, posted, received, confirmed>>

Post(m) ==
  /\ \A i \in DOMAIN posted : posted[i].id # m
  /\ posted' = Append(posted, [id |-> m, to |-> roster])
  /\ UNCHANGED <<received, confirmed>>

AddressedTo(m, u) ==
  \E i \in DOMAIN posted : posted[i].id = m /\ u \in posted[i].to

Receive(m, u) ==
  /\ AddressedTo(m, u)
  /\ received' = [received EXCEPT ![u] = @ \cup {m}]
  /\ UNCHANGED <<posted, confirmed>>

Confirm(m, u) ==
  /\ m \in received[u]
  /\ confirmed' = confirmed \cup {<<m, u>>}
  /\ UNCHANGED <<posted, received>>

(* A direct delivery receives and confirms at once.                        *)
ReceiveAndConfirm(m, u) ==
  /\ AddressedTo(m, u)
  /\ received' = [received EXCEPT ![u] = @ \cup {m}]
  /\ confirmed' = confirmed \cup {<<m, u>>}
  /\ UNCHANGED posted

Init ==
  /\ RosterInit
  /\ posted = <<>>
  /\ received = [u \in Users |-> {}]
  /\ confirmed = {}

(* A direct delivery also brings its recipient's copy up to date.          *)
MessageMoves ==
  \/ \E m \in Messages : Post(m)
  \/ \E m \in Messages, u \in Users :
       Receive(m, u) \/ Confirm(m, u) \/ ReceiveAndConfirm(m, u)

Next ==
  \/ RosterKept /\ MessageMoves
  \/ (RosterChanges \/ RosterKept) /\ UNCHANGED <<posted, received, confirmed>>

Spec == Init /\ [][Next]_vars
=============================================================================
