---------------------------- MODULE WorkerProofs ----------------------------
(* What automatic replies may never do, for any people, agents, bindings   *)
(* and bounds.  WorkerInv relates three accounts of the same turns: what   *)
(* is charged, what is running and what was sent.                          *)
EXTENDS Worker, FiniteSetTheorems, SequenceTheorems, TLAPS

USE HomeAssumption, NoneAssumption, BindingsAssumption, BoundsAssumption,
    TurnAssumption

Running(a, r) ==
  LET w == turn[Home[a]] IN w # NONE /\ w.agent = a /\ mail[w.event].root = r

(* What runs may be answered by the agent it runs for.                     *)
TurnsFit ==
  \A p \in People : turn[p] # NONE =>
    LET w == turn[p]
        m == mail[w.event]
    IN /\ w.event \in DOMAIN mail
       /\ Home[w.agent] = p /\ m.to = p
       /\ m.from = p => m.by \notin {NONE, w.agent}

(* A reply is younger than what it answers.                                *)
RepliesFollow == \A i \in DOMAIN mail : mail[i].re < i

(* Every reply was charged, and so is the turn that runs.                  *)
Charged ==
  \A a \in Agents, r \in Roots :
    /\ budget[a][r] <= MaxLimit
    /\ Cardinality(Replies(a, r)) + (IF Running(a, r) THEN 1 ELSE 0)
         <= budget[a][r] + MaxLimit * resets[a][r]

WorkerInv ==
  /\ TypeOK /\ TurnsFit /\ RepliesFollow /\ Charged
  /\ AnsweredOnce /\ NeverAnswersItself /\ SessionFits

----------------------------------------------------------------------------
(* The largest limit                                                       *)

LEMMA LimitsAreBounded ==
  /\ MaxLimit \in Nat
  /\ \A b \in Binding : b.limit <= MaxLimit /\ b.limit \in Nat
<1>1. \E n \in {b.limit : b \in Bindings} : \A b \in Bindings : b.limit <= n
  OBVIOUS
<1>2. /\ MaxLimit \in {b.limit : b \in Bindings}
      /\ \A b \in Bindings : b.limit <= MaxLimit
  BY <1>1 DEF MaxLimit
<1> QED
  BY <1>2 DEF Binding

LEMMA BoundIsABinding ==
  ASSUME NEW b \in Bindings, NEW on \in BOOLEAN
  PROVE  Bound(b, on) \in Binding
  BY DEF Bound, Binding

----------------------------------------------------------------------------
(* Sets of messages                                                        *)

LEMMA MailIsFinite ==
  ASSUME TypeOK, NEW S \in SUBSET (DOMAIN mail)
  PROVE  IsFiniteSet(S) /\ Cardinality(S) \in Nat
<1>1. DOMAIN mail = 1..Len(mail) /\ Len(mail) \in Nat
  BY DEF TypeOK
<1>2. IsFiniteSet(1..Len(mail))
  <2>1. 1 \in Int /\ Len(mail) \in Int
    BY <1>1
  <2> QED
    BY <2>1, FS_Interval
<1> QED
  BY <1>1, <1>2, FS_Subset, FS_CardinalityType

LEMMA MailTypes ==
  ASSUME TypeOK
  PROVE  /\ DOMAIN mail = 1..Len(mail) /\ Len(mail) \in Nat
         /\ \A i \in DOMAIN mail :
              mail[i] \in Mail /\ mail[i].re \in Nat /\ mail[i].to \in People
<1>1. /\ DOMAIN mail = 1..Len(mail) /\ Len(mail) \in Nat
      /\ \A i \in DOMAIN mail : mail[i] \in Mail
  BY DEF TypeOK
<1> QED
  BY <1>1 DEF Mail, Roots

(* The mail as it was, but for the states.                                 *)
SameMail ==
  /\ mail' \in Seq(Mail) /\ Len(mail') = Len(mail)
  /\ \A i \in DOMAIN mail :
       LET m == mail[i]
           n == mail'[i]
       IN /\ <<n.from, n.by, n.to, n.agent>> = <<m.from, m.by, m.to, m.agent>>
          /\ <<n.root, n.re, n.chat>> = <<m.root, m.re, m.chat>>
          /\ n.state = "replied" <=> m.state = "replied"

LEMMA MarkIsSame ==
  ASSUME TypeOK, NEW i \in DOMAIN mail, NEW s \in States,
         mail' = Mark(i, s), s # "replied", mail[i].state # "replied"
  PROVE  SameMail
<1>1. mail \in Seq(Mail) /\ i \in 1..Len(mail) /\ DOMAIN mail = 1..Len(mail)
  BY DEF TypeOK
<1>2. mail' = [mail EXCEPT ![i] = [mail[i] EXCEPT !.state = s]]
  BY DEF Mark
<1>3. [mail[i] EXCEPT !.state = s] \in Mail
  <2>1. mail[i] \in Mail
    BY <1>1
  <2> QED
    BY <2>1 DEF Mail
<1>4. /\ mail' \in Seq(Mail) /\ Len(mail') = Len(mail)
      /\ \A j \in 1..Len(mail) :
           mail'[j] = IF j = i THEN [mail[i] EXCEPT !.state = s] ELSE mail[j]
  BY <1>1, <1>2, <1>3
<1>5. \A j \in 1..Len(mail) : mail[j] \in Mail
  BY <1>1
<1> QED
  BY <1>1, <1>4, <1>5 DEF SameMail, Mail

(* Several messages change their state at once.                            *)
LEMMA SomeMarkedIsSame ==
  ASSUME TypeOK, NEW S \in SUBSET (DOMAIN mail), NEW s \in States,
         mail' = [i \in DOMAIN mail |->
           IF i \in S THEN [mail[i] EXCEPT !.state = s] ELSE mail[i]],
         s # "replied", \A i \in S : mail[i].state # "replied"
  PROVE  SameMail
<1>1. /\ mail \in Seq(Mail) /\ DOMAIN mail = 1..Len(mail) /\ Len(mail) \in Nat
      /\ \A i \in 1..Len(mail) : mail[i] \in Mail
  BY DEF TypeOK
<1>2. \A i \in 1..Len(mail) : [mail[i] EXCEPT !.state = s] \in Mail
  BY <1>1 DEF Mail
<1>3. mail' \in [1..Len(mail) -> Mail]
  BY <1>1, <1>2
<1>4. mail' \in Seq(Mail) /\ Len(mail') = Len(mail)
  BY <1>1, <1>3, SeqDef
<1> QED
  BY <1>1, <1>4 DEF SameMail, Mail

(* With the same mail, what was sent in reply is the same.                 *)
LEMMA SameReplies ==
  ASSUME TypeOK, RepliesFollow, AnsweredOnce, NeverAnswersItself, SameMail
  PROVE  /\ DOMAIN mail' = DOMAIN mail
         /\ RepliesFollow' /\ AnsweredOnce' /\ NeverAnswersItself'
         /\ \A a \in Agents, r \in Roots : Replies(a, r)' = Replies(a, r)
<1>1. /\ DOMAIN mail' = DOMAIN mail
      /\ \A i \in DOMAIN mail : mail[i] \in Mail /\ mail'[i] \in Mail
  BY DEF TypeOK, SameMail
<1>2. RepliesFollow'
  BY <1>1 DEF RepliesFollow, SameMail
<1>3. AnsweredOnce'
  <2>1. ASSUME NEW i \in DOMAIN mail
        PROVE  {j \in DOMAIN mail' : mail'[j].re = i} =
                 {j \in DOMAIN mail : mail[j].re = i}
    BY <1>1 DEF SameMail
  <2> QED
    BY <1>1, <2>1 DEF AnsweredOnce, SameMail
<1>4. NeverAnswersItself'
  <2>1. ASSUME NEW i \in DOMAIN mail, mail[i].re # 0
        PROVE  mail[i].re \in DOMAIN mail
    BY <1>1, <2>1 DEF RepliesFollow, TypeOK, Mail, Roots
  <2> QED
    BY <1>1, <2>1 DEF NeverAnswersItself, SameMail
<1>5. \A a \in Agents, r \in Roots : Replies(a, r)' = Replies(a, r)
  BY <1>1 DEF Replies, SameMail
<1> QED
  BY <1>1, <1>2, <1>3, <1>4, <1>5

----------------------------------------------------------------------------
(* The steps                                                               *)

LEMMA InitWorker == Init => WorkerInv
<1> SUFFICES ASSUME Init PROVE WorkerInv
  OBVIOUS
<1>1. mail = <<>> /\ DOMAIN mail = {} /\ Len(mail) = 0 /\ mail \in Seq(Mail)
  BY DEF Init
<1>2. TypeOK
  <2>1. worker \in [Agents -> Binding \cup {NONE}]
    <3>1. {Bound(b, TRUE) : b \in Bindings} \subseteq Binding
      BY BoundIsABinding
    <3> QED
      BY <3>1 DEF Init
  <2> QED
    BY <1>1, <2>1 DEF Init, TypeOK
<1>3. TurnsFit /\ RepliesFollow /\ AnsweredOnce /\ NeverAnswersItself
  BY <1>1 DEF Init, TurnsFit, RepliesFollow, AnsweredOnce, NeverAnswersItself
<1>4. SessionFits
  BY DEF Init, SessionFits, Bound
<1>5. Charged
  <2>1. ASSUME NEW a \in Agents, NEW r \in Roots
        PROVE  Replies(a, r) = {} /\ ~ Running(a, r)
    BY <1>1 DEF Init, Replies, Running
  <2>2. Cardinality({}) = 0
    BY FS_EmptySet
  <2>3. \A a \in Agents, r \in Roots : budget[a][r] = 0 /\ resets[a][r] = 0
    BY DEF Init
  <2>4. MaxLimit \in Nat /\ MaxLimit * 0 = 0
    BY LimitsAreBounded
  <2>5. ASSUME NEW a \in Agents, NEW r \in Roots
        PROVE  /\ budget[a][r] <= MaxLimit
               /\ Cardinality(Replies(a, r)) + (IF Running(a, r) THEN 1 ELSE 0)
                    <= budget[a][r] + MaxLimit * resets[a][r]
    <3>1. Cardinality(Replies(a, r)) = 0 /\ ~ Running(a, r)
      BY <2>1, <2>2, Zenon
    <3>2. budget[a][r] = 0 /\ MaxLimit * resets[a][r] = 0
      BY <2>3, <2>4
    <3> QED
      BY <2>4, <3>1, <3>2
  <2> QED
    BY <2>5 DEF Charged
<1> QED
  BY <1>2, <1>3, <1>4, <1>5 DEF WorkerInv

(* Steps that leave mail, turns and budgets alone.                         *)
LEMMA QuietKeeps ==
  ASSUME WorkerInv, UNCHANGED <<mail, budget, turn, resets>>,
         members' \subseteq People, enrolled' \subseteq Agents,
         worker' \in [Agents -> Binding \cup {NONE}], SessionFits',
         commands' \in Nat
  PROVE  WorkerInv'
<1>1. TypeOK'
  BY DEF WorkerInv, TypeOK
<1>2. /\ TurnsFit' /\ RepliesFollow' /\ AnsweredOnce' /\ NeverAnswersItself'
  BY DEF WorkerInv, TurnsFit, RepliesFollow, AnsweredOnce, NeverAnswersItself
<1>3. Charged'
  BY DEF WorkerInv, Charged, Running, Replies
<1> QED
  BY <1>1, <1>2, <1>3 DEF WorkerInv

LEMMA OwnerKeeps ==
  ASSUME WorkerInv, NEW a \in Agents,
         \/ Bind(a) \/ EnableOrPause(a) \/ Unbind(a)
         \/ Enroll(a) \/ Unenroll(a) \/ Retire(a)
  PROVE  WorkerInv'
<1>1. /\ UNCHANGED <<members, mail, budget, turn, resets>>
      /\ enrolled' \in {enrolled, enrolled \cup {a}, enrolled \ {a}}
      /\ commands' \in {commands, commands + 1}
  BY DEF Bind, EnableOrPause, Unbind, Enroll, Unenroll, Retire, Command, Given
<1>2. worker' \in [Agents -> Binding \cup {NONE}] /\ SessionFits'
  <2>1. CASE Bind(a)
    <3>1. PICK b \in Bindings : worker' = [worker EXCEPT ![a] = Bound(b, FALSE)]
      BY <2>1 DEF Bind
    <3> QED
      BY <3>1, BoundIsABinding DEF WorkerInv, TypeOK, SessionFits, Bound
  <2>2. CASE EnableOrPause(a)
    <3>1. /\ worker[a] \in Binding
          /\ worker' = [worker EXCEPT ![a] =
                          [worker[a] EXCEPT !.on = ~ worker[a].on]]
      BY <2>2 DEF EnableOrPause, WorkerInv, TypeOK
    <3>2. [worker[a] EXCEPT !.on = ~ worker[a].on] \in Binding
      BY <3>1 DEF Binding
    <3>3. worker' \in [Agents -> Binding \cup {NONE}]
      BY <3>1, <3>2 DEF WorkerInv, TypeOK
    <3>4. ASSUME NEW c \in Agents, worker'[c] # NONE
          PROVE  worker'[c].session \in {NONE, worker'[c].at}
      <4>1. CASE c = a
        BY <2>2, <3>1, <4>1
        DEF EnableOrPause, Binding, WorkerInv, TypeOK, SessionFits
      <4>2. CASE c # a
        BY <3>1, <3>4, <4>2 DEF WorkerInv, TypeOK, SessionFits
      <4> QED
        BY <4>1, <4>2
    <3> QED
      BY <3>3, <3>4 DEF SessionFits
  <2>3. CASE Unbind(a) \/ Retire(a)
    BY <2>3 DEF Unbind, Retire, WorkerInv, TypeOK, SessionFits
  <2>4. CASE Enroll(a) \/ Unenroll(a)
    BY <2>4 DEF Enroll, Unenroll, WorkerInv, TypeOK, SessionFits
  <2> QED
    BY <2>1, <2>2, <2>3, <2>4
<1> QED
  BY <1>1, <1>2, QuietKeeps DEF WorkerInv, TypeOK

LEMMA DepartKeeps ==
  ASSUME WorkerInv, NEW p \in People, Depart(p)
  PROVE  WorkerInv'
<1>1. SessionFits'
  BY DEF Depart, WorkerInv, SessionFits
<1> QED
  BY <1>1, QuietKeeps DEF Depart, WorkerInv, TypeOK

(* Steps that mark messages.  What is charged covers what is sent and runs *)
(* if the budgets and the turns say so.                                    *)
LEMMA MarkingKeeps ==
  ASSUME WorkerInv, SameMail, TypeOK',
         UNCHANGED <<worker, members>>,
         TurnsFit',
         \A a \in Agents, r \in Roots :
           /\ budget'[a][r] <= MaxLimit
           /\ (IF Running(a, r)' THEN 1 ELSE 0) - (IF Running(a, r) THEN 1 ELSE 0)
                <= budget'[a][r] - budget[a][r]
                   + MaxLimit * resets'[a][r] - MaxLimit * resets[a][r]
  PROVE  WorkerInv'
<1>1. /\ RepliesFollow' /\ AnsweredOnce' /\ NeverAnswersItself'
      /\ \A a \in Agents, r \in Roots : Replies(a, r)' = Replies(a, r)
  BY SameReplies DEF WorkerInv
<1>2. SessionFits'
  BY DEF WorkerInv, SessionFits
<1>3. Charged'
  <2>1. ASSUME NEW a \in Agents, NEW r \in Roots
        PROVE  Cardinality(Replies(a, r)') + (IF Running(a, r)' THEN 1 ELSE 0)
                 <= budget'[a][r] + MaxLimit * resets'[a][r]
    <3>1. Cardinality(Replies(a, r)) \in Nat
      BY MailIsFinite DEF WorkerInv, Replies
    <3>2. /\ budget[a][r] \in Nat /\ budget'[a][r] \in Nat
          /\ MaxLimit * resets[a][r] \in Nat /\ MaxLimit * resets'[a][r] \in Nat
      BY LimitsAreBounded DEF WorkerInv, TypeOK
    <3>3. Cardinality(Replies(a, r)) + (IF Running(a, r) THEN 1 ELSE 0)
            <= budget[a][r] + MaxLimit * resets[a][r]
      BY DEF WorkerInv, Charged
    <3>4. (IF Running(a, r)' THEN 1 ELSE 0) - (IF Running(a, r) THEN 1 ELSE 0)
             <= budget'[a][r] - budget[a][r]
                + MaxLimit * resets'[a][r] - MaxLimit * resets[a][r]
      OBVIOUS
    <3> QED
      BY <1>1, <3>1, <3>2, <3>3, <3>4
  <2> QED
    BY <2>1 DEF Charged
<1> QED
  BY <1>1, <1>2, <1>3 DEF WorkerInv

(* One message changes its state.                                          *)
LEMMA MarkOne ==
  ASSUME TypeOK, NEW i \in DOMAIN mail, NEW s \in States, mail' = Mark(i, s)
  PROVE  /\ mail' \in Seq(Mail) /\ Len(mail') = Len(mail)
         /\ DOMAIN mail' = DOMAIN mail
         /\ \A j \in DOMAIN mail : mail[j] \in Mail /\ mail'[j] \in Mail
         /\ \A j \in DOMAIN mail :
              mail'[j] = IF j = i THEN [mail[i] EXCEPT !.state = s] ELSE mail[j]
<1>1. mail \in Seq(Mail) /\ i \in 1..Len(mail) /\ DOMAIN mail = 1..Len(mail)
  BY DEF TypeOK
<1>2. mail' = [mail EXCEPT ![i] = [mail[i] EXCEPT !.state = s]]
  BY DEF Mark
<1>3. \A j \in 1..Len(mail) : mail[j] \in Mail
  BY <1>1
<1>4. [mail[i] EXCEPT !.state = s] \in Mail
  BY <1>1, <1>3 DEF Mail
<1>5. /\ mail' \in Seq(Mail) /\ Len(mail') = Len(mail)
      /\ \A j \in 1..Len(mail) :
           mail'[j] = IF j = i THEN [mail[i] EXCEPT !.state = s] ELSE mail[j]
  BY <1>1, <1>2, <1>4
<1> QED
  BY <1>1, <1>3, <1>4, <1>5

(* What a turn is about is the same in the same mail.                      *)
LEMMA SameRunning ==
  ASSUME TypeOK, TurnsFit, SameMail, NEW a \in Agents, NEW r \in Roots,
         turn'[Home[a]] = turn[Home[a]]
  PROVE  Running(a, r)' <=> Running(a, r)
  BY DEF TypeOK, TurnsFit, SameMail, Running

LEMMA IdleMarkKeeps ==
  ASSUME WorkerInv, NEW i \in DOMAIN mail, mail[i].state \in {"sent", "pending"},
         NEW s \in {"pending", "ignored", "budget-exhausted"},
         mail' = Mark(i, s),
         UNCHANGED <<members, enrolled, worker, budget, turn, resets, commands>>
  PROVE  WorkerInv'
<1>1. s \in States /\ TypeOK /\ TurnsFit
  BY DEF WorkerInv, States, Verdicts
<1>2. /\ mail' \in Seq(Mail) /\ Len(mail') = Len(mail)
      /\ DOMAIN mail' = DOMAIN mail
      /\ \A j \in DOMAIN mail : mail[j] \in Mail
      /\ \A j \in DOMAIN mail :
           mail'[j] = IF j = i THEN [mail[i] EXCEPT !.state = s] ELSE mail[j]
  BY <1>1, MarkOne
<1>3. SameMail
  BY <1>1, MarkIsSame
<1>4. TypeOK'
  <2>1. \A j \in DOMAIN mail :
          /\ mail'[j].to = mail[j].to
          /\ mail'[j].state = "running" <=> mail[j].state = "running"
    BY <1>2 DEF Mail
  <2> QED
    BY <1>1, <1>2, <2>1 DEF TypeOK
<1>5. TurnsFit'
  BY <1>1, <1>2, <1>3 DEF TurnsFit, SameMail
<1>6. \A a \in Agents, r \in Roots : Running(a, r)' <=> Running(a, r)
  BY <1>1, <1>3, SameRunning DEF TypeOK
<1>7. ASSUME NEW a \in Agents, NEW r \in Roots
      PROVE  /\ budget'[a][r] <= MaxLimit
             /\ (IF Running(a, r)' THEN 1 ELSE 0) - (IF Running(a, r) THEN 1 ELSE 0)
                  <= budget'[a][r] - budget[a][r]
                     + MaxLimit * resets'[a][r] - MaxLimit * resets[a][r]
  <2>1. /\ budget[a][r] \in Nat /\ MaxLimit * resets[a][r] \in Nat
        /\ budget[a][r] <= MaxLimit
    BY <1>1, LimitsAreBounded DEF TypeOK, WorkerInv, Charged
  <2> QED
    BY <1>6, <2>1
<1> QED
  BY <1>3, <1>4, <1>5, <1>7, MarkingKeeps

LEMMA LookKeeps ==
  ASSUME WorkerInv,
         \/ \E i \in DOMAIN mail : Arrive(i)
         \/ \E a \in Agents, i \in DOMAIN mail : Ignore(a, i) \/ Exhaust(a, i)
  PROVE  WorkerInv'
  BY IdleMarkKeeps DEF Arrive, Ignore, Exhaust, LooksAt, Offered

LEMMA ResetKeeps ==
  ASSUME WorkerInv, NEW a \in Agents, NEW r \in Roots, Reset(a, r)
  PROVE  WorkerInv'
<1> DEFINE S == {i \in DOMAIN mail : mail[i].root = r /\ mail[i].to = Home[a]
                                     /\ mail[i].state = "budget-exhausted"}
<1>1. /\ TypeOK /\ TurnsFit /\ "pending" \in States
      /\ UNCHANGED <<members, enrolled, worker, turn>>
      /\ commands' = commands + 1
      /\ budget' = [budget EXCEPT ![a][r] = 0]
      /\ resets' = [resets EXCEPT ![a][r] = @ + 1]
  BY DEF WorkerInv, Reset, Command, Given, States
<1>2. mail' = [i \in DOMAIN mail |->
                 IF i \in S THEN [mail[i] EXCEPT !.state = "pending"] ELSE mail[i]]
  BY DEF Reset, Reopened
<1>3. SameMail
  BY <1>1, <1>2, SomeMarkedIsSame
<1>4. /\ DOMAIN mail' = DOMAIN mail
      /\ \A j \in DOMAIN mail : mail[j] \in Mail
      /\ \A j \in DOMAIN mail :
           /\ mail'[j].to = mail[j].to
           /\ mail'[j].state = "running" <=> mail[j].state = "running"
  <2>1. \A j \in DOMAIN mail : mail[j] \in Mail
    BY <1>1 DEF TypeOK
  <2> QED
    BY <1>2, <2>1 DEF Mail
<1>5. TypeOK'
  <2>1. /\ budget' \in [Agents -> [Roots -> Nat]]
        /\ resets' \in [Agents -> [Roots -> Nat]]
    BY <1>1 DEF TypeOK
  <2>2. mail' \in Seq(Mail) /\ Len(mail') <= MaxMail
    BY <1>1, <1>3 DEF TypeOK, SameMail
  <2>3. \A j \in DOMAIN mail' :
          mail'[j].state = "running" <=>
            turn'[mail'[j].to] # NONE /\ turn'[mail'[j].to].event = j
    BY <1>1, <1>4 DEF TypeOK
  <2> QED
    BY <1>1, <2>1, <2>2, <2>3 DEF TypeOK
<1>6. TurnsFit'
  BY <1>1, <1>3, <1>4 DEF TurnsFit, SameMail
<1>7. ASSUME NEW b \in Agents, NEW q \in Roots
      PROVE  /\ budget'[b][q] <= MaxLimit
             /\ (IF Running(b, q)' THEN 1 ELSE 0) - (IF Running(b, q) THEN 1 ELSE 0)
                  <= budget'[b][q] - budget[b][q]
                     + MaxLimit * resets'[b][q] - MaxLimit * resets[b][q]
  <2>1. Running(b, q)' <=> Running(b, q)
    BY <1>1, <1>3, SameRunning
  <2>2. /\ budget[b][q] \in Nat /\ resets[b][q] \in Nat
        /\ budget[b][q] <= MaxLimit /\ MaxLimit \in Nat
    BY <1>1, LimitsAreBounded DEF TypeOK, WorkerInv, Charged
  <2>3. MaxLimit * (resets[b][q] + 1) = MaxLimit * resets[b][q] + MaxLimit
    BY <2>2
  <2>4. MaxLimit * resets[b][q] \in Nat
    BY <2>2
  <2>5. CASE b = a /\ q = r
    <3>1. budget'[b][q] = 0 /\ resets'[b][q] = resets[b][q] + 1
      BY <1>1, <2>5 DEF TypeOK
    <3>2. MaxLimit * resets'[b][q] = MaxLimit * resets[b][q] + MaxLimit
      BY <2>3, <3>1
    <3>3. (IF Running(b, q)' THEN 1 ELSE 0) - (IF Running(b, q) THEN 1 ELSE 0) = 0
      BY <2>1
    <3>4. budget'[b][q] - budget[b][q]
            + MaxLimit * resets'[b][q] - MaxLimit * resets[b][q] >= 0
      <4> DEFINE x == MaxLimit * resets[b][q]
                 y == MaxLimit * resets'[b][q]
      <4>1. x \in Nat /\ y = x + MaxLimit /\ budget'[b][q] = 0
        BY <2>4, <3>1, <3>2
      <4> HIDE DEF x, y
      <4>2. budget'[b][q] - budget[b][q] + y - x >= 0
        BY <2>2, <4>1
      <4> QED
        BY <4>2 DEF x, y
    <3> QED
      BY <2>2, <3>1, <3>3, <3>4
  <2>6. CASE ~ (b = a /\ q = r)
    <3>1. budget'[b][q] = budget[b][q] /\ resets'[b][q] = resets[b][q]
      BY <1>1, <2>6 DEF TypeOK
    <3> QED
      BY <2>1, <2>2, <2>4, <3>1
  <2> QED
    BY <2>5, <2>6
<1> QED
  BY <1>1, <1>3, <1>5, <1>6, <1>7, MarkingKeeps

LEMMA ClaimKeeps ==
  ASSUME WorkerInv, NEW a \in Agents, NEW i \in DOMAIN mail, Claim(a, i)
  PROVE  WorkerInv'
<1> DEFINE p == Home[a]
           root == mail[i].root
<1>1. /\ TypeOK /\ TurnsFit /\ "running" \in States /\ p \in People
      /\ turn[p] = NONE /\ worker[a] \in Binding
      /\ mail[i].state = "pending" /\ mail[i].to = p
      /\ mail[i].from = p => mail[i].by \notin {NONE, a}
  BY DEF WorkerInv, TypeOK, Claim, LooksAt, Working, Offered, Ignored, States
<1>2. /\ mail' = Mark(i, "running")
      /\ turn' = [turn EXCEPT ![p] = Work(a, i)]
      /\ budget' = [budget EXCEPT ![a][root] = @ + 1]
      /\ UNCHANGED <<members, enrolled, worker, resets, commands>>
      /\ budget[a][root] < worker[a].limit
  BY DEF Claim, HasBudget
<1>3. /\ mail' \in Seq(Mail) /\ Len(mail') = Len(mail)
      /\ DOMAIN mail' = DOMAIN mail
      /\ \A j \in DOMAIN mail : mail[j] \in Mail
      /\ \A j \in DOMAIN mail :
           mail'[j] = IF j = i THEN [mail[i] EXCEPT !.state = "running"]
                      ELSE mail[j]
  BY <1>1, <1>2, MarkOne
<1>4. SameMail
  BY <1>1, <1>2, MarkIsSame
<1>5. i \in Roots /\ root \in Roots
  <2>1. i \in 1..Len(mail) /\ Len(mail) <= MaxMail /\ MaxMail \in Nat
    BY <1>1 DEF TypeOK
  <2>2. mail[i] \in Mail
    BY <1>3
  <2> QED
    BY <2>1, <2>2 DEF Roots, Mail
<1>6. Work(a, i) \in Turn /\ Work(a, i) # NONE
  BY <1>1, <1>5 DEF Work, Turn
<1>7. turn' \in [People -> Turn \cup {NONE}]
  BY <1>1, <1>2, <1>6 DEF TypeOK
<1>8. TypeOK'
  <2>1. ASSUME NEW j \in DOMAIN mail
        PROVE  mail'[j].state = "running" <=>
                 turn'[mail'[j].to] # NONE /\ turn'[mail'[j].to].event = j
    <3>1. mail[j].to \in People /\ mail'[j].to = mail[j].to
      BY <1>3 DEF Mail
    <3>2. CASE j = i
      <4>1. mail'[j].state = "running"
        BY <1>3, <3>2 DEF Mail
      <4> QED
        BY <1>1, <1>2, <1>6, <3>1, <3>2, <4>1 DEF TypeOK, Work
    <3>3. CASE j # i /\ mail[j].to = p
      <4>1. mail'[j].state # "running"
        BY <1>1, <1>3, <3>3 DEF TypeOK
      <4>2. turn'[mail'[j].to].event = i
        BY <1>1, <1>2, <3>1, <3>3 DEF TypeOK, Work
      <4> QED
        BY <3>3, <4>1, <4>2
    <3>4. CASE j # i /\ mail[j].to # p
      BY <1>1, <1>2, <1>3, <3>1, <3>4 DEF TypeOK
    <3> QED
      BY <3>2, <3>3, <3>4
  <2>2. budget' \in [Agents -> [Roots -> Nat]]
    BY <1>1, <1>2, <1>5 DEF TypeOK
  <2> QED
    BY <1>1, <1>2, <1>3, <1>7, <2>1, <2>2 DEF TypeOK
<1>9. TurnsFit'
  <2>1. ASSUME NEW q \in People, turn'[q] # NONE
        PROVE  LET w == turn'[q]
                   m == mail'[w.event]
               IN /\ w.event \in DOMAIN mail
                  /\ Home[w.agent] = q /\ m.to = q
                  /\ m.from = q => m.by \notin {NONE, w.agent}
    <3>1. CASE q = p
      <4>1. turn'[q].event = i /\ turn'[q].agent = a
        BY <1>1, <1>2, <3>1 DEF TypeOK, Work
      <4> QED
        BY <1>1, <1>4, <3>1, <4>1 DEF SameMail
    <3>2. CASE q # p
      <4>1. turn'[q] = turn[q]
        BY <1>1, <1>2, <3>2 DEF TypeOK
      <4> QED
        BY <1>1, <1>4, <2>1, <4>1 DEF TurnsFit, SameMail
    <3> QED
      BY <3>1, <3>2
  <2> QED
    BY <1>3, <2>1 DEF TurnsFit
<1>10. ASSUME NEW b \in Agents, NEW q \in Roots
       PROVE  /\ budget'[b][q] <= MaxLimit
              /\ (IF Running(b, q)' THEN 1 ELSE 0) - (IF Running(b, q) THEN 1 ELSE 0)
                   <= budget'[b][q] - budget[b][q]
                      + MaxLimit * resets'[b][q] - MaxLimit * resets[b][q]
  <2>1. /\ budget[b][q] \in Nat /\ MaxLimit * resets[b][q] \in Nat
        /\ budget[b][q] <= MaxLimit /\ resets'[b][q] = resets[b][q]
    BY <1>1, <1>2, LimitsAreBounded DEF TypeOK, WorkerInv, Charged
  <2>2. CASE b = a /\ q = root
    <3>1. budget'[b][q] = budget[b][q] + 1
      BY <1>1, <1>2, <1>5, <2>2 DEF TypeOK
    <3>2. budget'[b][q] <= MaxLimit
      BY <1>1, <1>2, <2>1, <2>2, <3>1, LimitsAreBounded
    <3> QED
      BY <2>1, <3>1, <3>2
  <2>3. CASE ~ (b = a /\ q = root)
    <3>1. budget'[b][q] = budget[b][q]
      BY <1>1, <1>2, <1>5, <2>3 DEF TypeOK
    <3>2. Running(b, q)' => Running(b, q)
      <4>1. CASE Home[b] = p
        <5>1. turn'[Home[b]] = Work(a, i)
          BY <1>1, <1>2, <4>1 DEF TypeOK
        <5>2. ~ Running(b, q)'
          BY <1>4, <2>3, <5>1 DEF Running, Work, SameMail
        <5> QED
          BY <5>2
      <4>2. CASE Home[b] # p
        <5>1. turn'[Home[b]] = turn[Home[b]]
          BY <1>1, <1>2, <4>2 DEF TypeOK
        <5> QED
          BY <1>1, <1>4, <5>1, SameRunning
      <4> QED
        BY <4>1, <4>2
    <3> QED
      BY <2>1, <3>1, <3>2
  <2> QED
    BY <2>2, <2>3
<1> QED
  BY <1>2, <1>4, <1>8, <1>9, <1>10, MarkingKeeps

(* The turn of p ends without a reply.                                     *)
LEMMA EndKeeps ==
  ASSUME WorkerInv, NEW p \in People, SameMail,
         turn' = [turn EXCEPT ![p] = NONE],
         UNCHANGED <<members, enrolled, worker, budget, resets, commands>>,
         \A j \in DOMAIN mail :
           mail'[j].state = "running" <=>
             mail[j].state = "running" /\ mail[j].to # p
  PROVE  WorkerInv'
<1>1. TypeOK /\ TurnsFit
  BY DEF WorkerInv
<1>2. /\ DOMAIN mail' = DOMAIN mail
      /\ \A j \in DOMAIN mail : mail'[j].to = mail[j].to /\ mail[j].to \in People
  BY <1>1, MailTypes DEF SameMail
<1>3. TypeOK'
  <2>1. \A j \in DOMAIN mail' :
          mail'[j].state = "running" <=>
            turn'[mail'[j].to] # NONE /\ turn'[mail'[j].to].event = j
    BY <1>1, <1>2 DEF TypeOK
  <2>2. turn' \in [People -> Turn \cup {NONE}]
    BY <1>1 DEF TypeOK
  <2> QED
    BY <1>1, <2>1, <2>2 DEF TypeOK, SameMail
<1>4. TurnsFit'
  <2>1. \A q \in People : turn'[q] # NONE => turn'[q] = turn[q]
    BY <1>1 DEF TypeOK
  <2> QED
    BY <1>1, <1>2, <2>1 DEF TurnsFit, SameMail
<1>5. ASSUME NEW a \in Agents, NEW r \in Roots
      PROVE  /\ budget'[a][r] <= MaxLimit
             /\ (IF Running(a, r)' THEN 1 ELSE 0) - (IF Running(a, r) THEN 1 ELSE 0)
                  <= budget'[a][r] - budget[a][r]
                     + MaxLimit * resets'[a][r] - MaxLimit * resets[a][r]
  <2>1. /\ budget[a][r] \in Nat /\ MaxLimit * resets[a][r] \in Nat
        /\ budget[a][r] <= MaxLimit
    BY <1>1, LimitsAreBounded DEF TypeOK, WorkerInv, Charged
  <2>2. Running(a, r)' => Running(a, r)
    <3>1. CASE Home[a] = p
      BY <1>1, <3>1 DEF TypeOK, Running
    <3>2. CASE Home[a] # p
      BY <1>1, <3>2, SameRunning DEF TypeOK
    <3> QED
      BY <3>1, <3>2
  <2> QED
    BY <2>1, <2>2
<1> QED
  BY <1>3, <1>4, <1>5, MarkingKeeps

LEMMA FailKeeps ==
  ASSUME WorkerInv, NEW p \in People, Fail(p)
  PROVE  WorkerInv'
<1> DEFINE e == turn[p].event
<1>1. TypeOK /\ TurnsFit /\ "failed" \in States /\ turn[p] # NONE
  BY DEF WorkerInv, Fail, States, Verdicts
<1>2. e \in DOMAIN mail /\ mail[e].to = p /\ mail[e].state = "running"
  BY <1>1 DEF TurnsFit, TypeOK
<1>3. mail' = Mark(e, "failed") /\ turn' = [turn EXCEPT ![p] = NONE]
      /\ UNCHANGED <<members, enrolled, worker, budget, resets, commands>>
  BY DEF Fail
<1>4. SameMail
  BY <1>1, <1>2, <1>3, MarkIsSame
<1>5. ASSUME NEW j \in DOMAIN mail
      PROVE  mail'[j].state = "running" <=>
               mail[j].state = "running" /\ mail[j].to # p
  <2>1. /\ mail[j] \in Mail
        /\ mail'[j] = IF j = e THEN [mail[e] EXCEPT !.state = "failed"]
                      ELSE mail[j]
    BY <1>1, <1>2, <1>3, MarkOne
  <2>2. mail[j].state = "running" /\ mail[j].to = p => j = e
    BY <1>1 DEF TypeOK
  <2> QED
    BY <1>2, <2>1, <2>2 DEF Mail
<1> QED
  BY <1>3, <1>4, <1>5, EndKeeps

LEMMA RestartKeeps ==
  ASSUME WorkerInv, NEW p \in People, Restart(p)
  PROVE  WorkerInv'
<1> DEFINE S == {i \in DOMAIN mail :
                   mail[i].state = "running" /\ mail[i].to = p}
<1>1. TypeOK /\ "interrupted" \in States
  BY DEF WorkerInv, States, Verdicts
<1>2. /\ mail' = [i \in DOMAIN mail |->
           IF i \in S THEN [mail[i] EXCEPT !.state = "interrupted"] ELSE mail[i]]
      /\ turn' = [turn EXCEPT ![p] = NONE]
      /\ UNCHANGED <<members, enrolled, worker, budget, resets, commands>>
  BY DEF Restart, Interrupted
<1>3. SameMail
  BY <1>1, <1>2, SomeMarkedIsSame
<1>4. ASSUME NEW j \in DOMAIN mail
      PROVE  mail'[j].state = "running" <=>
               mail[j].state = "running" /\ mail[j].to # p
  <2>1. mail[j] \in Mail
    BY <1>1 DEF TypeOK
  <2> QED
    BY <1>2, <2>1 DEF Mail
<1> QED
  BY <1>2, <1>3, <1>4, EndKeeps

(* A letter starts a conversation: nothing answers it, and it answers      *)
(* nothing.                                                                *)
LEMMA WriteKeeps ==
  ASSUME WorkerInv, NEW l \in Letters, Write(l)
  PROVE  WorkerInv'
<1> DEFINE n == Len(mail) + 1
           m == Message(l.from, NONE, l.to, l.agent, n, 0, l.chat)
<1>1. TypeOK /\ TurnsFit /\ RepliesFollow /\ Charged
      /\ AnsweredOnce /\ NeverAnswersItself /\ SessionFits
  BY DEF WorkerInv
<1>2. /\ mail' = Append(mail, m) /\ n <= MaxMail /\ Len(mail) \in Nat
      /\ UNCHANGED <<members, enrolled, worker, budget, turn, resets, commands>>
  BY <1>1 DEF Write, TypeOK
<1>3. m \in Mail
  <2>1. n \in Roots
    BY <1>1, <1>2 DEF TypeOK, Roots
  <2> QED
    BY <2>1, LettersAssumption DEF Message, Mail, States
<1>4. /\ DOMAIN mail = 1..Len(mail) /\ DOMAIN mail' = 1..n
      /\ mail' \in Seq(Mail) /\ Len(mail') = n
      /\ mail'[n] = m /\ \A j \in DOMAIN mail : mail'[j] = mail[j]
  BY <1>1, <1>2, <1>3 DEF TypeOK
<1>5. /\ m.re = 0 /\ m.by = NONE /\ m.state = "sent"
  BY DEF Message
<1> HIDE DEF m
<1>6. DOMAIN mail' = DOMAIN mail \cup {n} /\ n \notin DOMAIN mail
  BY <1>2, <1>4
<1>7. TypeOK'
  <2>1. ASSUME NEW j \in DOMAIN mail'
        PROVE  mail'[j].state = "running" <=>
                 turn[mail'[j].to] # NONE /\ turn[mail'[j].to].event = j
    <3>1. CASE j = n
      <4>1. mail'[j].to \in People
        BY <1>3, <1>4, <3>1 DEF Mail
      <4>2. ~ (turn[mail'[j].to] # NONE /\ turn[mail'[j].to].event = n)
        BY <1>1, <1>6, <4>1 DEF TurnsFit
      <4> QED
        BY <1>4, <1>5, <3>1, <4>2
    <3>2. CASE j \in DOMAIN mail
      BY <1>1, <1>4, <3>2 DEF TypeOK
    <3> QED
      BY <1>6, <3>1, <3>2
  <2> QED
    BY <1>1, <1>2, <1>4, <2>1 DEF TypeOK
<1>8. TurnsFit'
  BY <1>1, <1>2, <1>4, <1>6 DEF TurnsFit
<1>9. RepliesFollow'
  BY <1>1, <1>2, <1>4, <1>5, <1>6 DEF RepliesFollow
<1>10. AnsweredOnce'
  <2>1. ASSUME NEW i \in DOMAIN mail
        PROVE  {j \in DOMAIN mail' : mail'[j].re = i} =
                 {j \in DOMAIN mail : mail[j].re = i}
    BY <1>2, <1>4, <1>5, <1>6
  <2>2. {j \in DOMAIN mail' : mail'[j].re = n} = {}
    <3>1. \A j \in DOMAIN mail : mail[j].re # n
      BY <1>1, <1>4, MailTypes DEF RepliesFollow
    <3> QED
      BY <1>2, <1>4, <1>5, <1>6, <3>1
  <2>3. Cardinality({j \in DOMAIN mail' : mail'[j].re = n}) = 0
    BY <2>2, FS_EmptySet
  <2>4. ASSUME NEW i \in DOMAIN mail'
        PROVE  Cardinality({j \in DOMAIN mail' : mail'[j].re = i})
                 = IF mail'[i].state = "replied" THEN 1 ELSE 0
    <3>1. CASE i = n
      BY <1>4, <1>5, <2>3, <3>1
    <3>2. CASE i \in DOMAIN mail
      BY <1>1, <1>4, <2>1, <3>2 DEF AnsweredOnce
    <3> QED
      BY <1>6, <3>1, <3>2
  <2> QED
    BY <2>4 DEF AnsweredOnce
<1>11. NeverAnswersItself'
  <2>1. \A i \in DOMAIN mail : mail[i].re # 0 => mail[i].re \in DOMAIN mail
    BY <1>1, MailTypes DEF RepliesFollow
  <2> QED
    BY <1>1, <1>4, <1>5, <1>6, <2>1 DEF NeverAnswersItself
<1>12. Charged'
  <2>1. ASSUME NEW a \in Agents, NEW r \in Roots
        PROVE  Replies(a, r)' = Replies(a, r)
    BY <1>4, <1>5, <1>6 DEF Replies
  <2>2. ASSUME NEW a \in Agents, NEW r \in Roots
        PROVE  Running(a, r)' <=> Running(a, r)
    BY <1>1, <1>2, <1>4 DEF Running, TurnsFit
  <2> QED
    BY <1>1, <1>2, <2>1, <2>2 DEF Charged
<1>13. SessionFits'
  BY <1>1, <1>2 DEF SessionFits
<1> QED
  BY <1>7, <1>8, <1>9, <1>10, <1>11, <1>12, <1>13 DEF WorkerInv

LEMMA SessionsFit ==
  ASSUME TypeOK, SessionFits, NEW w \in Turn, worker' = SavedSession(w)
  PROVE  /\ worker' \in [Agents -> Binding \cup {NONE}] /\ SessionFits'
         /\ \A a \in Agents : worker[a] # NONE /\ worker'[a] # NONE =>
              worker'[a].on = worker[a].on
<1> DEFINE c == w.agent
<1>1. c \in Agents /\ w.binding \in Binding
  BY DEF Turn
<1>2. CASE worker[c] = NONE \/ worker[c].at # w.binding.at
  BY <1>2 DEF SavedSession, TypeOK, SessionFits
<1>3. CASE ~ (worker[c] = NONE \/ worker[c].at # w.binding.at)
  <2>1. worker[c] \in Binding /\ worker[c].at = w.binding.at
    BY <1>1, <1>3 DEF TypeOK
  <2>2. worker' = [worker EXCEPT ![c] =
                     [worker[c] EXCEPT !.session = w.binding.at]]
    BY <1>3 DEF SavedSession
  <2> DEFINE b == [worker[c] EXCEPT !.session = w.binding.at]
  <2>3. /\ b \in Binding /\ b.session = b.at /\ b.on = worker[c].on
    BY <1>1, <2>1 DEF Binding
  <2>4. \A a \in Agents : worker'[a] = IF a = c THEN b ELSE worker[a]
    BY <1>1, <2>2 DEF TypeOK
  <2> HIDE DEF b
  <2>5. worker' \in [Agents -> Binding \cup {NONE}]
    BY <2>2, <2>3 DEF TypeOK, b
  <2> QED
    BY <2>3, <2>4, <2>5 DEF SessionFits
<1> QED
  BY <1>2, <1>3

LEMMA ReplyKeeps ==
  ASSUME WorkerInv, NEW p \in People, Reply(p)
  PROVE  WorkerInv'
<1> DEFINE w == turn[p]
           e == turn[p].event
           c == turn[p].agent
           n == Len(mail) + 1
           m == Answer(turn[p])
           r0 == mail[e].root
<1>1. /\ TypeOK /\ TurnsFit /\ RepliesFollow /\ Charged
      /\ AnsweredOnce /\ NeverAnswersItself /\ SessionFits
  BY DEF WorkerInv
<1>2. /\ w # NONE /\ w \in Turn /\ Len(mail) \in Nat /\ n <= MaxMail
      /\ "replied" \in States
      /\ mail' = Append(Mark(e, "replied"), m)
      /\ worker' = SavedSession(w)
      /\ turn' = [turn EXCEPT ![p] = NONE]
      /\ UNCHANGED <<members, enrolled, budget, resets, commands>>
  BY <1>1 DEF Reply, Answered, TypeOK, States, Verdicts
<1>3. /\ e \in DOMAIN mail /\ c \in Agents /\ Home[c] = p
      /\ mail[e].to = p /\ mail[e].state = "running"
      /\ mail[e].from = p => mail[e].by \notin {NONE, c}
  BY <1>1, <1>2 DEF TurnsFit, TypeOK, Turn
<1>4. /\ DOMAIN mail = 1..Len(mail)
      /\ \A j \in DOMAIN mail :
           mail[j] \in Mail /\ mail[j].re \in Nat /\ mail[j].to \in People
  BY <1>1, MailTypes
<1>5. m \in Mail /\ n \in Roots /\ r0 \in Roots
  <2>1. n \in Roots /\ e \in Roots
    BY <1>2, <1>3, <1>4 DEF Roots
  <2> QED
    BY <1>3, <1>4, <2>1 DEF Answer, Message, Mail, States
<1>6. /\ m.re = e /\ m.by = c /\ m.state = "sent" /\ m.root = r0
      /\ m.from = p
  BY <1>3 DEF Answer, Message
<1> HIDE DEF m
<1> DEFINE base == Mark(e, "replied")
<1>7. /\ base \in Seq(Mail) /\ Len(base) = Len(mail)
      /\ \A j \in DOMAIN mail :
           base[j] = IF j = e THEN [mail[e] EXCEPT !.state = "replied"]
                     ELSE mail[j]
  <2>1. base = [mail EXCEPT ![e] = [mail[e] EXCEPT !.state = "replied"]]
    BY DEF Mark
  <2>2. [mail[e] EXCEPT !.state = "replied"] \in Mail
    BY <1>2, <1>3, <1>4 DEF Mail
  <2>3. mail \in Seq(Mail) /\ e \in 1..Len(mail)
    BY <1>1, <1>3, <1>4 DEF TypeOK
  <2> DEFINE x == [mail[e] EXCEPT !.state = "replied"]
  <2> HIDE DEF x
  <2>4. base = [mail EXCEPT ![e] = x] /\ x \in Mail
    BY <2>1, <2>2 DEF x
  <2>5. /\ base \in Seq(Mail) /\ Len(base) = Len(mail)
        /\ \A j \in 1..Len(mail) : base[j] = IF j = e THEN x ELSE mail[j]
    BY <2>3, <2>4
  <2> QED
    BY <1>4, <2>5 DEF x
<1> HIDE DEF base
<1>8. /\ DOMAIN mail' = 1..n /\ mail' \in Seq(Mail) /\ Len(mail') = n
      /\ mail'[n] = m /\ \A j \in DOMAIN mail : mail'[j] = base[j]
  BY <1>2, <1>4, <1>5, <1>7 DEF base
<1>9. DOMAIN mail' = DOMAIN mail \cup {n} /\ n \notin DOMAIN mail
  BY <1>2, <1>4, <1>8
<1>10. \A j \in DOMAIN mail :
         /\ <<mail'[j].from, mail'[j].by, mail'[j].to, mail'[j].agent>> =
              <<mail[j].from, mail[j].by, mail[j].to, mail[j].agent>>
         /\ mail'[j].root = mail[j].root /\ mail'[j].re = mail[j].re
         /\ mail'[j].state = IF j = e THEN "replied" ELSE mail[j].state
  BY <1>3, <1>4, <1>7, <1>8 DEF Mail
<1>11. \A q \in People : turn'[q] = IF q = p THEN NONE ELSE turn[q]
  BY <1>1, <1>2 DEF TypeOK
<1>12. /\ worker' \in [Agents -> Binding \cup {NONE}] /\ SessionFits'
  BY <1>1, <1>2, SessionsFit
<1>13. TypeOK'
  <2>1. ASSUME NEW j \in DOMAIN mail'
        PROVE  mail'[j].state = "running" <=>
                 turn'[mail'[j].to] # NONE /\ turn'[mail'[j].to].event = j
    <3>1. CASE j = n
      <4>1. mail'[j].to \in People
        BY <1>5, <1>8, <3>1 DEF Mail
      <4>2. ~ (turn'[mail'[j].to] # NONE /\ turn'[mail'[j].to].event = n)
        BY <1>1, <1>9, <1>11, <4>1 DEF TurnsFit
      <4> QED
        BY <1>6, <1>8, <3>1, <4>2
    <3>2. CASE j \in DOMAIN mail
      <4>1. mail'[j].to = mail[j].to /\ mail[j].to \in People
        BY <1>4, <1>10, <3>2
      <4>2. mail[j].state = "running" <=>
              turn[mail[j].to] # NONE /\ turn[mail[j].to].event = j
        BY <1>1, <3>2 DEF TypeOK
      <4>3. CASE j = e
        BY <1>3, <1>10, <1>11, <4>1, <4>3
      <4>4. CASE j # e
        BY <1>10, <1>11, <3>2, <4>1, <4>2, <4>4
      <4> QED
        BY <4>3, <4>4
    <3> QED
      BY <1>9, <3>1, <3>2
  <2>2. turn' \in [People -> Turn \cup {NONE}]
    BY <1>1, <1>2 DEF TypeOK
  <2> QED
    BY <1>1, <1>2, <1>8, <1>12, <2>1, <2>2 DEF TypeOK
<1>14. TurnsFit'
  BY <1>1, <1>9, <1>10, <1>11 DEF TurnsFit
<1>15. RepliesFollow'
  BY <1>1, <1>2, <1>3, <1>4, <1>6, <1>8, <1>9, <1>10 DEF RepliesFollow
<1>16. AnsweredOnce'
  <2>1. ASSUME NEW i \in DOMAIN mail'
        PROVE  Cardinality({j \in DOMAIN mail' : mail'[j].re = i})
                 = IF mail'[i].state = "replied" THEN 1 ELSE 0
    <3> DEFINE before == {j \in DOMAIN mail : mail[j].re = i}
               after == {j \in DOMAIN mail' : mail'[j].re = i}
    <3>1. \A j : j \in after <=> j \in before \/ (j = n /\ i = e)
      <4>1. mail'[n].re = e /\ \A j \in DOMAIN mail : mail'[j].re = mail[j].re
        BY <1>6, <1>8, <1>10
      <4> QED
        BY <1>9, <4>1
    <3>2. IsFiniteSet(before) /\ n \notin before
      BY <1>1, <1>9, MailIsFinite
    <3>3. CASE i = n
      <4>1. before = {} /\ i # e
        BY <1>1, <1>2, <1>3, <1>4, <1>9, <3>3 DEF RepliesFollow
      <4>2. Cardinality(after) = 0
        <5>1. after = {}
          BY <3>1, <4>1
        <5> QED
          BY <5>1, FS_EmptySet
      <4> QED
        BY <1>6, <1>8, <3>3, <4>2
    <3>4. CASE i = e
      <4>1. Cardinality(before) = 0
        BY <1>1, <1>3, <3>4 DEF AnsweredOnce
      <4>2. Cardinality(after) = 1
        <5>1. after = before \cup {n}
          BY <3>1, <3>4
        <5> HIDE DEF before, after
        <5>2. Cardinality(before \cup {n}) = Cardinality(before) + 1
          BY <3>2, FS_AddElement
        <5> QED
          BY <4>1, <5>1, <5>2
      <4> QED
        BY <1>3, <1>10, <3>4, <4>2
    <3>5. CASE i \in DOMAIN mail /\ i # e
      <4>1. after = before
        BY <3>1, <3>5
      <4> QED
        BY <1>1, <1>10, <3>5, <4>1 DEF AnsweredOnce
    <3> QED
      BY <1>9, <3>3, <3>4, <3>5
  <2> QED
    BY <2>1 DEF AnsweredOnce
<1>17. NeverAnswersItself'
  <2>1. \A i \in DOMAIN mail : mail[i].re # 0 => mail[i].re \in DOMAIN mail
    BY <1>1, <1>4 DEF RepliesFollow
  <2>2. ASSUME NEW i \in DOMAIN mail', mail'[i].re # 0,
               mail'[mail'[i].re].from = mail'[i].from
        PROVE  mail'[mail'[i].re].by \notin {NONE, mail'[i].by}
    <3>1. CASE i = n
      <4>1. mail'[i].re = e /\ mail'[i].from = p /\ mail'[i].by = c
        BY <1>6, <1>8, <3>1
      <4> QED
        BY <1>3, <1>10, <2>2, <4>1
    <3>2. CASE i \in DOMAIN mail
      <4>1. /\ mail'[i].re = mail[i].re /\ mail'[i].from = mail[i].from
            /\ mail'[i].by = mail[i].by /\ mail[i].re \in DOMAIN mail
        BY <1>10, <2>1, <2>2, <3>2
      <4>2. /\ mail'[mail[i].re].from = mail[mail[i].re].from
            /\ mail'[mail[i].re].by = mail[mail[i].re].by
        BY <1>10, <4>1
      <4> QED
        BY <1>1, <2>2, <3>2, <4>1, <4>2 DEF NeverAnswersItself
    <3> QED
      BY <1>9, <3>1, <3>2
  <2> QED
    BY <2>2 DEF NeverAnswersItself
<1>18. Charged'
  <2>1. ASSUME NEW a \in Agents, NEW r \in Roots
        PROVE  Cardinality(Replies(a, r)') + (IF Running(a, r)' THEN 1 ELSE 0)
                 <= budget[a][r] + MaxLimit * resets[a][r]
    <3>1. /\ Cardinality(Replies(a, r)) + (IF Running(a, r) THEN 1 ELSE 0)
               <= budget[a][r] + MaxLimit * resets[a][r]
          /\ budget[a][r] \in Nat /\ MaxLimit * resets[a][r] \in Nat
      BY <1>1, LimitsAreBounded DEF Charged, TypeOK
    <3>2. /\ IsFiniteSet(Replies(a, r)) /\ n \notin Replies(a, r)
          /\ Cardinality(Replies(a, r)) \in Nat
      BY <1>1, <1>9, MailIsFinite DEF Replies
    <3>3. \A j : j \in Replies(a, r)' <=>
                   j \in Replies(a, r) \/ (j = n /\ a = c /\ r = r0)
      <4>1. /\ mail'[n].by = c /\ mail'[n].root = r0
            /\ \A j \in DOMAIN mail : /\ mail'[j].by = mail[j].by
                                      /\ mail'[j].root = mail[j].root
        BY <1>6, <1>8, <1>10
      <4> QED
        BY <1>9, <4>1 DEF Replies
    <3>4. CASE a = c /\ r = r0
      <4>1. Cardinality(Replies(a, r)') = Cardinality(Replies(a, r)) + 1
        <5>1. Replies(a, r)' = Replies(a, r) \cup {n}
          BY <3>3, <3>4
        <5> QED
          BY <3>2, <5>1, FS_AddElement
      <4>2. Running(a, r)
        BY <1>2, <1>3, <3>4 DEF Running
      <4>3. ~ Running(a, r)'
        BY <1>3, <1>11, <3>4 DEF Running
      <4> QED
        BY <3>1, <3>2, <4>1, <4>2, <4>3
    <3>5. CASE ~ (a = c /\ r = r0)
      <4>1. Replies(a, r)' = Replies(a, r)
        BY <3>3, <3>5 DEF Replies
      <4>2. Running(a, r)' => Running(a, r)
        <5>1. Home[a] \in People
          OBVIOUS
        <5>2. CASE Home[a] = p
          BY <1>11, <5>1, <5>2 DEF Running
        <5>3. CASE Home[a] # p
          <6>1. turn'[Home[a]] = turn[Home[a]]
            BY <1>11, <5>1, <5>3
          <6>2. turn[Home[a]] # NONE => turn[Home[a]].event \in DOMAIN mail
            BY <1>1, <5>1 DEF TurnsFit
          <6> QED
            BY <1>10, <6>1, <6>2 DEF Running
        <5> QED
          BY <5>2, <5>3
      <4> QED
        BY <3>1, <3>2, <4>1, <4>2
    <3> QED
      BY <3>4, <3>5
  <2> QED
    BY <1>1, <1>2, <2>1 DEF Charged
<1> QED
  BY <1>12, <1>13, <1>14, <1>15, <1>16, <1>17, <1>18 DEF WorkerInv

LEMMA StepKeeps == WorkerInv /\ [Next]_vars => WorkerInv'
<1> SUFFICES ASSUME WorkerInv, [Next]_vars PROVE WorkerInv'
  OBVIOUS
<1>1. CASE \E l \in Letters : Write(l)
  BY <1>1, WriteKeeps
<1>2. CASE \E i \in DOMAIN mail : Arrive(i)
  BY <1>2, LookKeeps
<1>3. CASE \E p \in People : Depart(p)
  BY <1>3, DepartKeeps
<1>4. CASE \E a \in Agents : \/ Bind(a) \/ EnableOrPause(a) \/ Unbind(a)
                             \/ Enroll(a) \/ Unenroll(a) \/ Retire(a)
  BY <1>4, OwnerKeeps
<1>5. CASE \E a \in Agents, r \in Roots : Reset(a, r)
  BY <1>5, ResetKeeps
<1>6. CASE \E a \in Agents, i \in DOMAIN mail :
             Ignore(a, i) \/ Exhaust(a, i) \/ Claim(a, i)
  BY <1>6, LookKeeps, ClaimKeeps
<1>7. CASE \E p \in People : Reply(p) \/ Fail(p) \/ Restart(p)
  BY <1>7, ReplyKeeps, FailKeeps, RestartKeeps
<1>8. CASE UNCHANGED vars
  BY <1>8, QuietKeeps DEF vars, WorkerInv, TypeOK, SessionFits
<1> QED
  BY <1>1, <1>2, <1>3, <1>4, <1>5, <1>6, <1>7, <1>8 DEF Next

(* What is charged, running and sent stays consistent in every behaviour.  *)
THEOREM WorkersAreConsistent == Spec => []WorkerInv
<1> QED
  BY InitWorker, StepKeeps, PTL DEF Spec

(* An agent sends at most its limit of replies into a conversation, and as *)
(* many again after each reset, for any people, agents and bindings        *)
(* (claim_work, finish_work).                                              *)
THEOREM RepliesStayBounded == Spec => []RepliesAreBounded
<1>1. ASSUME WorkerInv, NEW a \in Agents, NEW r \in Roots
      PROVE  Cardinality(Replies(a, r)) <= MaxLimit * (1 + resets[a][r])
  <2>1. /\ budget[a][r] <= MaxLimit /\ budget[a][r] \in Nat
        /\ MaxLimit \in Nat /\ resets[a][r] \in Nat
        /\ MaxLimit * resets[a][r] \in Nat
    BY <1>1, LimitsAreBounded DEF WorkerInv, TypeOK, Charged
  <2>2. MaxLimit * (1 + resets[a][r]) = MaxLimit + MaxLimit * resets[a][r]
    BY <2>1
  <2>3. Cardinality(Replies(a, r)) \in Nat
    BY <1>1, MailIsFinite DEF WorkerInv, Replies
  <2>4. Cardinality(Replies(a, r)) <= budget[a][r] + MaxLimit * resets[a][r]
    <3>1. Cardinality(Replies(a, r)) + (IF Running(a, r) THEN 1 ELSE 0)
            <= budget[a][r] + MaxLimit * resets[a][r]
      BY <1>1 DEF WorkerInv, Charged
    <3> QED
      BY <2>1, <2>3, <3>1
  <2> DEFINE x == MaxLimit * resets[a][r]
  <2>5. x \in Nat /\ Cardinality(Replies(a, r)) <= budget[a][r] + x
    BY <2>1, <2>4
  <2> HIDE DEF x
  <2>6. Cardinality(Replies(a, r)) <= MaxLimit + x
    BY <2>1, <2>3, <2>5
  <2> QED
    BY <2>2, <2>6 DEF x
<1>2. WorkerInv => RepliesAreBounded
  BY <1>1 DEF RepliesAreBounded
<1> QED
  BY <1>2, WorkersAreConsistent, PTL

(* A message has one reply if it says "replied" and none otherwise         *)
(* (finish_work).                                                          *)
THEOREM MessagesAreAnsweredOnce == Spec => []AnsweredOnce
<1>1. WorkerInv => AnsweredOnce
  BY DEF WorkerInv
<1> QED
  BY <1>1, WorkersAreConsistent, PTL

(* No worker answers itself or its owner's own notes (claim_work).         *)
THEOREM WorkersDoNotTalkToThemselves == Spec => []NeverAnswersItself
<1>1. WorkerInv => NeverAnswersItself
  BY DEF WorkerInv
<1> QED
  BY <1>1, WorkersAreConsistent, PTL

(* A worker's session is one of the binding it has now, although bindings  *)
(* change while turns run (finish_work).                                   *)
THEOREM SessionsFitTheirBindings == Spec => []SessionFits
<1>1. WorkerInv => SessionFits
  BY DEF WorkerInv
<1> QED
  BY <1>1, WorkersAreConsistent, PTL

----------------------------------------------------------------------------
(* What no step does                                                       *)

LEMMA StepKeepsVerdicts ==
  ASSUME WorkerInv, [Next]_vars,
         NEW j \in DOMAIN mail, mail[j].state \in Verdicts
  PROVE  mail'[j].state = mail[j].state
<1>1. TypeOK /\ TurnsFit
  BY DEF WorkerInv
<1>2. /\ DOMAIN mail = 1..Len(mail) /\ Len(mail) \in Nat /\ mail \in Seq(Mail)
      /\ mail[j].state \notin {"sent", "pending", "running", "budget-exhausted"}
  BY <1>1 DEF TypeOK, Verdicts
<1>3. ASSUME NEW i \in DOMAIN mail, NEW s, mail' = Mark(i, s), i # j
      PROVE  mail'[j] = mail[j]
  BY <1>2, <1>3 DEF Mark
<1>4. CASE \E l \in Letters : Write(l)
  <2>1. PICK m : mail' = Append(mail, m)
    BY <1>4 DEF Write
  <2> QED
    BY <1>2, <2>1
<1>5. CASE \E i \in DOMAIN mail : Arrive(i)
  BY <1>2, <1>3, <1>5 DEF Arrive
<1>6. CASE \E a \in Agents, i \in DOMAIN mail :
             Ignore(a, i) \/ Exhaust(a, i) \/ Claim(a, i)
  BY <1>2, <1>3, <1>6 DEF Ignore, Exhaust, Claim, LooksAt, Offered
<1>7. CASE \E a \in Agents, r \in Roots : Reset(a, r)
  BY <1>2, <1>7 DEF Reset, Reopened
<1>8. CASE \E p \in People : Restart(p)
  BY <1>2, <1>8 DEF Restart, Interrupted
<1>9. ASSUME NEW p \in People, turn[p] # NONE
      PROVE  turn[p].event \in DOMAIN mail /\ turn[p].event # j
  <2>1. turn[p].event \in DOMAIN mail /\ mail[turn[p].event].to = p
    BY <1>1, <1>9 DEF TurnsFit
  <2>2. mail[turn[p].event].state = "running"
    BY <1>1, <1>9, <2>1 DEF TypeOK
  <2> QED
    BY <1>2, <2>1, <2>2
<1>10. ASSUME NEW p \in People, Fail(p)
       PROVE  mail'[j].state = mail[j].state
  BY <1>3, <1>9, <1>10 DEF Fail
<1>11. ASSUME NEW p \in People, Reply(p)
       PROVE  mail'[j].state = mail[j].state
  <2> DEFINE e == turn[p].event
             base == [mail EXCEPT ![e] = [mail[e] EXCEPT !.state = "replied"]]
  <2>1. mail' = Append(base, Answer(turn[p]))
    BY <1>11 DEF Reply, Answered, Mark
  <2>2. e \in 1..Len(mail) /\ e # j
    BY <1>2, <1>9, <1>11 DEF Reply
  <2>3. [mail[e] EXCEPT !.state = "replied"] \in Mail
    <3>1. mail[e] \in Mail
      BY <1>2, <2>2
    <3> QED
      BY <3>1 DEF Mail, States, Verdicts
  <2>4. base \in Seq(Mail) /\ Len(base) = Len(mail) /\ base[j] = mail[j]
    BY <1>2, <2>2, <2>3, ExceptSeq
  <2> HIDE DEF base
  <2> QED
    BY <1>2, <2>1, <2>4
<1>12. CASE \/ \E p \in People : Depart(p)
            \/ \E a \in Agents : \/ Bind(a) \/ EnableOrPause(a) \/ Unbind(a)
                                 \/ Enroll(a) \/ Unenroll(a) \/ Retire(a)
  BY <1>12 DEF Depart, Bind, EnableOrPause, Unbind, Enroll, Unenroll, Retire
<1>13. CASE UNCHANGED vars
  BY <1>13 DEF vars
<1> QED
  BY <1>4, <1>5, <1>6, <1>7, <1>8, <1>10, <1>11, <1>12, <1>13 DEF Next

(* A turn's verdict is never taken back, nor its message offered again     *)
(* (finish_work, reset, the daemon's start).                               *)
THEOREM VerdictsAreFinal == Spec => VerdictIsFinal
<1>1. WorkerInv /\ [Next]_vars =>
        [\A i \in DOMAIN mail :
           mail[i].state \in Verdicts => mail'[i].state = mail[i].state]_vars
  BY StepKeepsVerdicts
<1> QED
  BY <1>1, WorkersAreConsistent, PTL DEF Spec, VerdictIsFinal

LEMMA StepKeepsSwitches ==
  ASSUME WorkerInv, Next, turn' # turn, NEW a \in Agents,
         worker[a] # NONE, worker'[a] # NONE
  PROVE  worker'[a].on = worker[a].on
<1>1. CASE \/ \E b \in Agents, i \in DOMAIN mail : Claim(b, i)
           \/ \E p \in People : Fail(p) \/ Restart(p)
  BY <1>1 DEF Claim, Fail, Restart
<1>2. ASSUME NEW p \in People, Reply(p)
      PROVE  worker'[a].on = worker[a].on
  <2>1. turn[p] \in Turn /\ worker' = SavedSession(turn[p])
    BY <1>2 DEF Reply, WorkerInv, TypeOK
  <2> QED
    BY <2>1, SessionsFit DEF WorkerInv
<1>3. CASE \/ \E l \in Letters : Write(l)
           \/ \E i \in DOMAIN mail : Arrive(i)
           \/ \E p \in People : Depart(p)
           \/ \E b \in Agents : \/ Bind(b) \/ EnableOrPause(b) \/ Unbind(b)
                                \/ Enroll(b) \/ Unenroll(b) \/ Retire(b)
           \/ \E b \in Agents, r \in Roots : Reset(b, r)
           \/ \E b \in Agents, i \in DOMAIN mail : Ignore(b, i) \/ Exhaust(b, i)
  BY <1>3 DEF Write, Arrive, Depart, Bind, EnableOrPause, Unbind, Enroll,
              Unenroll, Retire, Reset, Ignore, Exhaust
<1> QED
  BY <1>1, <1>2, <1>3 DEF Next

(* The end of a turn leaves the owner's switch alone, whatever the owner   *)
(* did while the model ran (finish_work).                                  *)
THEOREM TurnsLeaveTheSwitch == Spec => SwitchIsTheOwners
<1>1. WorkerInv /\ [Next]_vars =>
        [turn' # turn => \A a \in Agents :
           worker[a] # NONE /\ worker'[a] # NONE =>
             worker'[a].on = worker[a].on]_vars
  BY StepKeepsSwitches
<1> QED
  BY <1>1, WorkersAreConsistent, PTL DEF Spec, SwitchIsTheOwners
=============================================================================
