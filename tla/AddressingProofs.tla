-------------------------- MODULE AddressingProofs ---------------------------
(* That an address taken from a listing keeps its person, and its session   *)
(* but for the three exceptions, for any people, agents and names.          *)
EXTENDS Addressing, FunctionTheorems, FiniteSetTheorems, TLAPS

----------------------------------------------------------------------------
(* The types                                                                *)

LEMMA InitTypes == Init => TypeOK
  BY PeopleAssumption DEF Init, TypeOK, IsRows

LEMMA ShowTypes ==
  ASSUME TypeOK, NEW u \in Users, NEW rows, IsRows(rows), Show(u, rows)
  PROVE  TypeOK'
<1>1. rows \in SUBSET Row
  BY DEF IsRows
<1>2. shown' \in [Users -> SUBSET Row] /\ \A v \in Users : IsRows(shown'[v])
  BY <1>1 DEF Show, TypeOK
<1> QED
  BY <1>2 DEF Show, TypeOK

LEMMA OwnerTypes ==
  ASSUME TypeOK, NEW u \in Users,
         \/ \E l \in Labels, nick \in Texts \cup {NONE} : Publish(u, l, nick)
         \/ \E r \in shown[u] : Unpublish(u, r)
         \/ \E nick \in Texts \cup {NONE}, r \in shown[u] : NameAgent(u, r, nick)
  PROVE  TypeOK'
<1>1. IsRows(shown[u])
  BY DEF TypeOK
<1>2. ASSUME NEW l \in Labels, NEW nick \in Texts \cup {NONE},
             Publish(u, l, nick)
      PROVE  TypeOK'
  <2>1. IsRows(shown[u] \cup {[label |-> l, nick |-> nick]})
    BY <1>1, <1>2 DEF Publish, IsRows, Row
  <2> QED
    BY <1>2, <2>1, ShowTypes DEF Publish
<1>3. ASSUME NEW r \in shown[u], Unpublish(u, r)
      PROVE  TypeOK'
  <2>1. IsRows(shown[u] \ {r})
    BY <1>1 DEF IsRows
  <2> QED
    BY <1>3, <2>1, ShowTypes DEF Unpublish
<1>4. ASSUME NEW nick \in Texts \cup {NONE}, NEW r \in shown[u],
             NameAgent(u, r, nick)
      PROVE  TypeOK'
  <2>1. r \in Row /\ [r EXCEPT !.nick = nick] = [label |-> r.label, nick |-> nick]
    BY <1>1 DEF IsRows, Row
  <2>2. IsRows((shown[u] \ {r}) \cup {[r EXCEPT !.nick = nick]})
    BY <1>1, <1>4, <2>1 DEF NameAgent, IsRows, Row
  <2> QED
    BY <1>4, <2>2, ShowTypes DEF NameAgent
<1> QED
  BY <1>2, <1>3, <1>4

(* A row of the listing is a participant, from a row of that person.        *)
LEMMA ParticipantsComeFromRows ==
  ASSUME NEW t, NEW p \in Participants(t)
  PROVE  \E u \in t.members : \E r \in t.rows[u] :
           /\ p = Participant(t, u, r) /\ p.member = u /\ p.label = r.label
           /\ p.session = Session(t.rows[u], r)
  BY DEF Participants, Participant

LEMMA StepTypes == TypeOK /\ [Next]_vars => TypeOK'
<1> SUFFICES ASSUME TypeOK, [Next]_vars PROVE TypeOK'
  OBVIOUS
<1>1. CASE \E u \in Users :
             \/ \E l \in Labels, nick \in Texts \cup {NONE} :
                  Publish(u, l, nick)
             \/ \E r \in shown[u] : Unpublish(u, r)
             \/ \E nick \in Texts \cup {NONE}, r \in shown[u] :
                  NameAgent(u, r, nick)
  BY <1>1, OwnerTypes
<1>2. CASE \E u \in Users : Admit(u) \/ Leave(u)
  BY <1>2 DEF Admit, Leave, TypeOK
<1>3. ASSUME NEW synced \in SUBSET Users, Refresh(synced)
      PROVE  TypeOK'
  <2> DEFINE rows == [u \in Users |->
               IF u \in synced THEN shown[u] ELSE copy.rows[u]]
  <2>1. copy' = [members |-> Members, rows |-> rows]
        /\ UNCHANGED <<roster, shown, listed>>
    BY <1>3 DEF Refresh
  <2>2. /\ rows \in [Users -> SUBSET Row]
        /\ \A u \in Users : IsRows(rows[u])
    BY DEF TypeOK
  <2> HIDE DEF rows
  <2>3. copy' \in [members : SUBSET Users, rows : [Users -> SUBSET Row]]
        /\ copy'.rows = rows
    BY <2>1, <2>2 DEF Members
  <2> QED
    BY <2>1, <2>2, <2>3 DEF TypeOK
<1>4. ASSUME NEW p \in Participants(copy), List(p)
      PROVE  TypeOK'
  <2>1. PICK u \in copy.members : \E r \in copy.rows[u] :
          /\ p.member = u /\ p.label = r.label
          /\ p.session = Session(copy.rows[u], r)
    BY ParticipantsComeFromRows
  <2>2. u \in Users /\ IsRows(copy.rows[u])
    BY DEF TypeOK
  <2>3. /\ listed'.participant = p /\ listed'.rows = copy.rows[u]
        /\ UNCHANGED <<roster, shown, copy>>
    BY <1>4, <2>1 DEF List
  <2> QED
    BY <2>1, <2>2, <2>3 DEF TypeOK
<1>5. CASE UNCHANGED vars
  BY <1>5 DEF vars, TypeOK
<1> QED
  BY <1>1, <1>2, <1>3, <1>4, <1>5 DEF Next

(* Every variable keeps its type.                                           *)
THEOREM TypesAreKept == Spec => []TypeOK
<1> QED
  BY InitTypes, StepTypes, PTL DEF Spec

----------------------------------------------------------------------------
(* The person                                                               *)

(* What an address from the listing is made of.                             *)
LEMMA ShownAddresses ==
  ASSUME TypeOK, listed # NONE, NEW a \in Shown
  PROVE  LET p == listed.participant
         IN /\ p.member \in Users
            /\ a.fp = Fingerprint[p.member] /\ a.fp # NONE
            /\ a.name \in {Name[p.member], NONE} /\ a.session = p.session
  BY PeopleAssumption, TextsAssumption DEF TypeOK, Shown, AddressOf

(* The fingerprint is one person's.                                         *)
LEMMA OnePersonIsFound ==
  ASSUME TypeOK, listed # NONE, NEW a \in Shown
  PROVE  FindPerson(copy, a) = {listed.participant.member} \cap copy.members
<1> DEFINE m == listed.participant.member
<1>1. /\ m \in Users /\ a.fp = Fingerprint[m] /\ a.fp # NONE
      /\ a.name \in {Name[m], NONE} /\ copy.members \subseteq Users
  BY ShownAddresses DEF TypeOK
<1>2. Begins[a.fp] = {m} /\ Slug[Name[m]] = Name[m]
  BY <1>1, PeopleAssumption
<1> QED
  BY <1>1, <1>2 DEF FindPerson

(* A message to an address from the listing reaches its person or none, for *)
(* any people, agents and names (resolve_address).                          *)
THEOREM AddressesKeepTheirPerson == Spec => []NeverAnotherPerson
<1>1. ASSUME TypeOK, listed # NONE, NEW a \in Shown, NEW x \in Target(copy, a)
      PROVE  x.member = listed.participant.member
  <2> DEFINE m == listed.participant.member
  <2>1. FindPerson(copy, a) \subseteq {m} /\ a.fp # NONE
    BY <1>1, OnePersonIsFound, ShownAddresses
  <2>2. CASE x \in ResolveAddress(copy, a)
    <3>1. x \in ResolveSession(copy, a)
      BY <2>1, <2>2 DEF ResolveAddress
    <3>2. PICK p : p.member \in FindPerson(copy, a) /\ x = Found(p)
      BY <3>1 DEF ResolveSession
    <3> QED
      BY <2>1, <3>2 DEF Found
  <2>3. CASE x \notin ResolveAddress(copy, a)
    <3>1. x = [member |-> Self, label |-> a.session] /\ FindPerson(copy, a) = {Self}
      BY <1>1, <2>1, <2>3 DEF Target
    <3> QED
      BY <2>1, <3>1
  <2> QED
    BY <2>2, <2>3
<1>2. TypeOK => NeverAnotherPerson
  BY <1>1 DEF NeverAnotherPerson
<1> QED
  BY <1>2, TypesAreKept, PTL

----------------------------------------------------------------------------
(* The session                                                              *)

Counted(rows, r) ==
  {q \in rows : Base(q) = Base(r) /\ Place[q.label] <= Place[r.label]}

(* There are no more rows than labels.                                      *)
LEMMA RowsAreFew ==
  ASSUME NEW rows, IsRows(rows), NEW S \in SUBSET rows
  PROVE  IsFiniteSet(S) /\ Cardinality(S) <= Cardinality(Labels)
<1> DEFINE f == [q \in S |-> q.label]
<1>1. f \in [S -> Labels]
  BY DEF IsRows, Row
<1>2. \A q, r \in S : f[q] = f[r] => q = r
  BY DEF IsRows
<1>3. f \in Injection(S, Labels)
  BY <1>1, <1>2 DEF Injection, IsInjective
<1> QED
  BY <1>3, FS_Injection, NumbersAssumption

(* A session is called its base or a numbered one.                          *)
LEMMA SessionsAreNumbered ==
  ASSUME NEW rows, IsRows(rows), NEW r \in rows
  PROVE  MayBeCalled(r, Session(rows, r)) /\ Session(rows, r) \in Texts
<1> DEFINE n == Cardinality(Counted(rows, r))
<1>1. IsFiniteSet(Counted(rows, r)) /\ n <= Cardinality(Labels)
  BY RowsAreFew DEF Counted
<1>2. n \in Nat /\ Cardinality(Labels) \in Nat
  BY <1>1, NumbersAssumption, FS_CardinalityType
<1>3. n # 0
  <2>1. r.label \in Labels /\ Place[r.label] \in Nat
    BY TextsAssumption DEF IsRows, Row
  <2>2. r \in Counted(rows, r)
    BY <2>1 DEF Counted
  <2> QED
    BY <1>1, <2>2, FS_EmptySet
<1>4. /\ Numbered[Base(r)] \in Seq(Texts)
      /\ Len(Numbered[Base(r)]) >= Cardinality(Labels)
  BY NumbersAssumption DEF IsRows, Row, Base
<1>5. n \in 1..Len(Numbered[Base(r)])
  BY <1>1, <1>2, <1>3, <1>4
<1>6. Session(rows, r) = Numbered[Base(r)][n]
  BY DEF Session, Counted
<1> QED
  BY <1>4, <1>5, <1>6 DEF MayBeCalled

(* Rows that agree on a base count its sessions alike.                      *)
LEMMA SameCount ==
  ASSUME NEW rows, NEW now, NEW r,
         \A q : Base(q) = Base(r) => (q \in rows <=> q \in now)
  PROVE  Session(now, r) = Session(rows, r)
<1>1. Counted(now, r) = Counted(rows, r)
  BY DEF Counted
<1> QED
  BY <1>1 DEF Session, Counted

(* What an address from the listing leads to, but for the exceptions.       *)
LEMMA TargetIsListed ==
  ASSUME TypeOK, listed # NONE, listed.participant.member \in copy.members,
         NEW a \in Shown,
         ~ SharedAddress, ~ Renumbered, Slug[a.session] = a.session
  PROVE  Target(copy, a) = {Found(listed.participant)}
<1> DEFINE p == listed.participant
           m == p.member
           s == p.session
           rows == listed.rows
           now == copy.rows[m]
<1>1. /\ m \in Users /\ IsRows(rows) /\ IsRows(now) /\ a.session = s
      /\ a.fp # NONE /\ FindPerson(copy, a) = {m}
  BY ShownAddresses, OnePersonIsFound DEF TypeOK
<1>2. PICK r \in rows : p.label = r.label /\ s = Session(rows, r)
  BY DEF TypeOK
<1>3. \A q : MayBeCalled(q, s) => (q \in rows <=> q \in now)
  BY DEF Renumbered
<1>4. \A q, k : Base(q) = Base(k) => (MayBeCalled(q, s) <=> MayBeCalled(k, s))
  BY DEF MayBeCalled
<1>5. s \in Texts /\ MayBeCalled(r, s) /\ r \in now
  BY <1>1, <1>2, <1>3, SessionsAreNumbered
<1>6. Session(now, r) = s
  BY <1>2, <1>3, <1>4, <1>5, SameCount
<1>7. ASSUME NEW q \in now, Session(now, q) = s
      PROVE  q = r
  <2>1. MayBeCalled(q, s)
    BY <1>1, <1>7, SessionsAreNumbered
  <2>2. q \in rows /\ Session(rows, q) = s
    BY <1>3, <1>4, <1>7, <2>1, SameCount
  <2>3. q.label = r.label
    BY <1>2, <2>2 DEF SharedAddress
  <2> QED
    BY <1>1, <2>2, <2>3 DEF IsRows
<1> DEFINE h == Participant(copy, m, r)
           hits == {x \in Called(copy, a.session) :
                      x.member \in FindPerson(copy, a)}
<1>8. h.member = m /\ h.label = r.label /\ h.session = s
  BY <1>6 DEF Participant
<1>9. h \in Participants(copy)
  BY <1>5 DEF Participants
<1>10. hits = {h}
  <2>1. h \in hits
    BY <1>1, <1>8, <1>9 DEF Called
  <2>2. ASSUME NEW x \in hits PROVE x = h
    <3>1. /\ x \in Participants(copy) /\ x.member = m
          /\ x.session = s \/ x.label = s
      BY <1>1 DEF Called
    <3>2. PICK q \in now : /\ x = Participant(copy, m, q)
                           /\ x.label = q.label /\ x.session = Session(now, q)
      BY <3>1, ParticipantsComeFromRows
    <3>3. x.label \in Labels
      BY <1>1, <3>2 DEF IsRows, Row
    <3>4. x.session = s
      BY <1>5, <3>1, <3>3, TextsAssumption
    <3> QED
      BY <1>7, <3>2, <3>4
  <2> QED
    BY <2>1, <2>2
<1> HIDE DEF h, hits
<1>11. Before(h, h)
  <2>1. h.label \in Labels /\ Place[h.label] \in Nat
    BY <1>1, <1>8, TextsAssumption DEF IsRows, Row
  <2> QED
    BY <2>1 DEF Before
<1>12. Cardinality(FindPerson(copy, a)) = 1
  BY <1>1, FS_Singleton
<1>13. ResolveSession(copy, a) = {Found(h)}
  <2>1. {x \in hits : \A g \in hits : Before(x, g)} = {h}
    BY <1>10, <1>11
  <2>2. ResolveSession(copy, a) =
          {Found(x) : x \in {y \in hits : \A g \in hits : Before(y, g)}}
    BY <1>12 DEF ResolveSession, hits
  <2> QED
    BY <2>1, <2>2
<1>14. ResolveAddress(copy, a) = {Found(h)}
  BY <1>1, <1>13 DEF ResolveAddress
<1>15. Found(h) = Found(p)
  BY <1>2, <1>8 DEF Found
<1> QED
  BY <1>14, <1>15 DEF Target

(* An address from the listing leads to the session it was listed for, but  *)
(* for a shared address, a change among the sessions of that name and a     *)
(* harness that is not a slug (participants, resolve_address).              *)
THEOREM AddressesKeepTheirSession == Spec => []AddressKeepsItsSession
<1>1. TypeOK => AddressKeepsItsSession
  BY TargetIsListed DEF AddressKeepsItsSession
<1> QED
  BY <1>1, TypesAreKept, PTL
=============================================================================
