----------------------------- MODULE Addressing ------------------------------
(***************************************************************************)
(* Which session a message addressed by a person reaches.  Owners publish, *)
(* name and unpublish their agents; everybody derives the same handles     *)
(* from the rows the authority shows, person@fingerprint/session, and      *)
(* numbers the sessions of one name (protocol.rs).  A user reads a handle  *)
(* in a listing and sends to it later, when the roster and the rows on     *)
(* record may be others (client.rs, resolve_address).                      *)
(*                                                                         *)
(* Texts are atoms: what the code does with their characters, the slug of  *)
(* a text, "-2" put after it, the keys it is a prefix of, comes as tables. *)
(* A fingerprint is taken as belonging to one key.                         *)
(***************************************************************************)
EXTENDS Naturals, Sequences, FiniteSets

CONSTANTS
  Users,     \* identities
  Agents,    \* Agents[u]: the labels of the agents u has enrolled
  Self,      \* the one whose daemon lists and resolves
  Founding,  \* the members at the start
  Name,      \* Name[u]: the slug of u's display name
  Texts,     \* names, session names and what users type
  Labels,    \* agent labels, harness@workspace
  Harness,   \* Harness[l]: the harness in label l
  Place,     \* Place[l]: the place of l in the order of labels
  Nicks,     \* Nicks[l]: session names that owners give to l
  Slug,      \* Slug[x]: the slug of text or label x
  Numbered,  \* Numbered[x][n]: x for n = 1, else x, a dash and n
  Sorted,    \* Sorted[x]: the place of x in the order of texts
  Begins,    \* Begins[x]: the users whose key begins with x, which has four
             \* characters at least
  Fingerprint, \* Fingerprint[u]: the first characters of u's key
  NONE       \* an absent value

ASSUME PeopleAssumption ==
  /\ Self \in Founding /\ Founding \subseteq Users
  /\ Name \in [Users -> Texts]
  /\ Agents \in [Users -> SUBSET Labels]
  /\ Begins \in [Texts -> SUBSET Users]
  /\ Fingerprint \in [Users -> Texts]
  /\ \A u \in Users : Begins[Fingerprint[u]] = {u} /\ Slug[Name[u]] = Name[u]
ASSUME TextsAssumption ==
  /\ Harness \in [Labels -> Texts] /\ Nicks \in [Labels -> SUBSET Texts]
  /\ Slug \in [Texts \cup Labels -> Texts]
  /\ Place \in [Labels -> Nat] /\ Sorted \in [Texts -> Nat]
  /\ \A l, k \in Labels : Place[l] = Place[k] => l = k
  /\ NONE \notin Users \cup Texts \cup Labels /\ Texts \cap Labels = {}
ASSUME NumbersAssumption ==
  /\ IsFiniteSet(Labels)
  /\ \A l \in Labels : \A x \in Nicks[l] \cup {Harness[l]} :
       Numbered[x] \in Seq(Texts) /\ Len(Numbered[x]) >= Cardinality(Labels)

VARIABLES
  roster,   \* roster[u]: not yet admitted, a member, or gone
  shown,    \* shown[u]: the rows u's daemon shows of its published agents
  copy,     \* the team as Self's daemon stored it
  listed    \* a row of the listing Self's user has read, or NONE

vars == <<roster, shown, copy, listed>>

Row  == [label : Labels, nick : Texts \cup {NONE}]
IsRows(rows) ==
  /\ rows \subseteq {r \in Row : r.nick \in Nicks[r.label] \cup {NONE}}
  /\ \A r, q \in rows : r.label = q.label => r = q

Members == {u \in Users : roster[u] = "in"}

----------------------------------------------------------------------------
(* The handles of a team (protocol.rs)                                     *)

(* A session's name of its own, or its harness.                            *)
Base(r) == IF r.nick # NONE THEN r.nick ELSE Harness[r.label]

(* Mutant: sessions of other names are counted too.                        *)
SessionAmongAll(rows, r) ==
  Numbered[Base(r)][Cardinality({q \in rows : Place[q.label] <= Place[r.label]})]

(* Sessions of one name are counted in the order of their labels.          *)
Session(rows, r) ==
  Numbered[Base(r)][Cardinality(
    {q \in rows : Base(q) = Base(r) /\ Place[q.label] <= Place[r.label]})]

Participant(t, u, r) ==
  [member |-> u, label |-> r.label, session |-> Session(t.rows[u], r)]

Participants(t) ==
  UNION {{Participant(t, u, r) : r \in t.rows[u]} : u \in t.members}

(* The order of the listing, among one person's sessions.                  *)
Before(p, q) ==
  \/ Sorted[p.session] < Sorted[q.session]
  \/ p.session = q.session /\ Place[p.label] <= Place[q.label]

----------------------------------------------------------------------------
(* resolve_address.  An address is a name, a fingerprint or a session or   *)
(* any of them together.                                                   *)

Address == [name : Texts \cup {NONE}, fp : Texts \cup {NONE},
            session : Texts \cup Labels \cup {NONE}]

(* Mutant: the fingerprint is not compared when a name is given.           *)
FindByName(t, a) ==
  {u \in t.members :
     IF a.name # NONE THEN Name[u] = Slug[a.name] ELSE u \in Begins[a.fp]}

FindPerson(t, a) ==
  {u \in t.members :
     \/ /\ a.name # NONE => Name[u] = Slug[a.name]
        /\ a.fp # NONE => u \in Begins[a.fp]
     \/ a.fp = NONE /\ u \in Begins[a.name]}

Called(t, x) ==
  {p \in Participants(t) : p.session = Slug[x] \/ p.label = x}

Found(p) == [member |-> p.member, label |-> p.label]

(* With a person: that person's first such session.                        *)
ResolveSession(t, a) ==
  LET people == FindPerson(t, a)
      hits == {p \in Called(t, a.session) : p.member \in people}
  IN IF Cardinality(people) # 1 THEN {}
     ELSE {Found(p) : p \in {h \in hits : \A g \in hits : Before(h, g)}}

(* Without: the only session of that name, unless a person has it.         *)
ResolveWord(t, x) ==
  LET people == IF x \in Labels THEN {} ELSE
        FindPerson(t, [name |-> x, fp |-> NONE, session |-> NONE])
      hits == Called(t, x)
  IN IF Cardinality(people) = 1
       THEN {[member |-> u, label |-> NONE] : u \in people}
     ELSE IF people = {} /\ Cardinality(hits) = 1 THEN {Found(p) : p \in hits}
     ELSE {}

ResolveAddress(t, a) ==
  IF a.name = NONE /\ a.fp = NONE THEN ResolveWord(t, a.session)
                                  ELSE ResolveSession(t, a)

(* enqueue: a label that leads nowhere may still be an agent of ours that  *)
(* is not published.  What results has one element, or none: an error.     *)
Target(t, a) ==
  LET mine == \/ a.name = NONE /\ a.fp = NONE
              \/ FindPerson(t, a) = {Self}
              \/ /\ a.fp = NONE
                 /\ {x.member : x \in ResolveWord(t, a.name)} = {Self}
  IN IF ResolveAddress(t, a) # {} THEN ResolveAddress(t, a)
     ELSE IF mine /\ a.session \in Agents[Self]
       THEN {[member |-> Self, label |-> a.session]}
     ELSE {}

----------------------------------------------------------------------------
(* What owners do (agents.rs)                                              *)

Show(u, rows) ==
  /\ shown' = [shown EXCEPT ![u] = rows]
  /\ UNCHANGED <<roster, copy, listed>>

(* Published with the name it was given before, if any.                    *)
Publish(u, l, nick) ==
  /\ l \in Agents[u] \ {r.label : r \in shown[u]}
  /\ nick \in Nicks[l] \cup {NONE}
  /\ Show(u, shown[u] \cup {[label |-> l, nick |-> nick]})

Unpublish(u, r) == Show(u, shown[u] \ {r})

(* name_agent: any name will do, the names in use are not looked at.       *)
NameAgent(u, r, nick) ==
  /\ nick \in Nicks[r.label] \cup {NONE}
  /\ Show(u, (shown[u] \ {r}) \cup {[r EXCEPT !.nick = nick]})

----------------------------------------------------------------------------
(* The roster, with the names of the members all different; Self stays     *)

Admit(u) ==
  /\ roster[u] = "out"
  /\ \A v \in Members : Name[v] # Name[u]
  /\ roster' = [roster EXCEPT ![u] = "in"]
  /\ UNCHANGED <<shown, copy, listed>>

Leave(u) ==
  /\ roster[u] = "in" /\ u # Self
  /\ roster' = [roster EXCEPT ![u] = "gone"]
  /\ UNCHANGED <<shown, copy, listed>>

----------------------------------------------------------------------------
(* Self's daemon and its user                                              *)

(* refresh: the roster, and the rows as those in "synced" last sent them.  *)
Refresh(synced) ==
  /\ copy' = [members |-> Members,
             rows |-> [u \in Users |->
               IF u \in synced THEN shown[u] ELSE copy.rows[u]]]
  /\ UNCHANGED <<roster, shown, listed>>

(* The user reads a row of the listing and will use its address.           *)
List(p) ==
  /\ p \in Participants(copy)
  /\ listed' = [participant |-> p, rows |-> copy.rows[p.member]]
  /\ UNCHANGED <<roster, shown, copy>>

----------------------------------------------------------------------------
Init ==
  /\ roster = [u \in Users |-> IF u \in Founding THEN "in" ELSE "out"]
  /\ shown = [u \in Users |-> {}]
  /\ copy = [members |-> Founding, rows |-> shown]
  /\ listed = NONE

Next ==
  \/ \E u \in Users, l \in Labels, nick \in Texts \cup {NONE} :
       Publish(u, l, nick)
  \/ \E u \in Users : \E r \in shown[u] : Unpublish(u, r)
  \/ \E u \in Users, nick \in Texts \cup {NONE} : \E r \in shown[u] :
       NameAgent(u, r, nick)
  \/ \E u \in Users : Admit(u)
  \/ \E u \in Users : Leave(u)
  \/ \E synced \in SUBSET Users : Refresh(synced)
  \/ \E p \in Participants(copy) : List(p)

Spec == Init /\ [][Next]_vars

----------------------------------------------------------------------------
(* Properties                                                              *)

(* Every variable keeps its type; a listing shows what was on record.      *)
TypeOK ==
  /\ roster \in [Users -> {"out", "in", "gone"}]
  /\ shown \in [Users -> SUBSET Row]
  /\ copy \in [members : SUBSET Users, rows : [Users -> SUBSET Row]]
  /\ \A u \in Users : IsRows(shown[u]) /\ IsRows(copy.rows[u])
  /\ listed # NONE =>
       LET p == listed.participant
       IN /\ p.member \in Users /\ IsRows(listed.rows)
          /\ \E r \in listed.rows :
               p.label = r.label /\ p.session = Session(listed.rows, r)

(* The address a listing shows, whole or with the fingerprint alone.       *)
AddressOf(p) == [name |-> Name[p.member], fp |-> Fingerprint[p.member],
                 session |-> p.session]

Shown == {AddressOf(listed.participant),
          [AddressOf(listed.participant) EXCEPT !.name = NONE]}

(* An address taken from a listing never leads to another person, whoever  *)
(* left and whoever was admitted under the same name since: the message    *)
(* reaches that person or is refused (protocol.rs, member_handles).        *)
NeverAnotherPerson ==
  listed # NONE =>
    \A a \in Shown : \A x \in Target(copy, a) :
      x.member = listed.participant.member

(* Some session of r's name may be called x.                               *)
MayBeCalled(r, x) == \E n \in DOMAIN Numbered[Base(r)] : Numbered[Base(r)][n] = x

(* Two sessions of one person had that very address when it was listed:    *)
(* one has been given the name that counting gives the other.              *)
SharedAddress ==
  \E r \in listed.rows :
    /\ r.label # listed.participant.label
    /\ Session(listed.rows, r) = listed.participant.session

(* A row that may be called so was published, hidden or named since.       *)
Renumbered ==
  LET now == copy.rows[listed.participant.member]
  IN \E r \in (now \ listed.rows) \cup (listed.rows \ now) :
       MayBeCalled(r, listed.participant.session)

(* "Addresses are unique by construction" (README.md:147), as far as it    *)
(* goes: while the person is a member, an address leads to the session it  *)
(* was listed for, whatever other people and sessions do.  It leads to     *)
(* another one, or nowhere, only if two sessions had it, if the person has *)
(* changed sessions of that name since, or if its harness is not a slug.   *)
AddressKeepsItsSession ==
  listed # NONE /\ listed.participant.member \in copy.members =>
    \A a \in Shown :
      \/ Target(copy, a) = {Found(listed.participant)}
      \/ SharedAddress \/ Renumbered
      \/ Slug[a.session] # a.session
=============================================================================
