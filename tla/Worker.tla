------------------------------- MODULE Worker -------------------------------
(***************************************************************************)
(* Automatic replies.  Each person's daemon runs at most one model turn at *)
(* a time: it claims a pending message addressed to one of the person's    *)
(* agents with an enabled worker, charges that agent's budget for the      *)
(* conversation, runs the model with the client unlocked, and then sends   *)
(* the reply and marks the message in one transaction.  Meanwhile the      *)
(* owner binds, pauses and resets workers, the roster changes, and the     *)
(* daemon may restart.  Replies are messages too, so that two workers can  *)
(* keep a conversation going until a budget ends it.                       *)
(***************************************************************************)
EXTENDS Integers, Sequences, FiniteSets

CONSTANTS
  People,     \* members, each with a daemon
  Agents,     \* agent labels
  Home,       \* Home[a]: the person whose agent a is
  Bindings,   \* what a worker can be bound to: records [at, limit, default]
  NONE,       \* no agent, no binding, no session, no message
  Letters,    \* what people write by hand: records [from, to, agent, chat]
  MaxMail,    \* bound: messages
  MaxWritten, \* bound: messages written by hand
  MaxOwner    \* bound: commands of the owners

ASSUME HomeAssumption == Home \in [Agents -> People]
ASSUME NoneAssumption == NONE \notin Agents
ASSUME BindingsAssumption ==
  /\ \A b \in Bindings : b.limit \in Nat /\ b.default \in BOOLEAN
  /\ \E b \in Bindings : \A c \in Bindings : c.limit <= b.limit
ASSUME LettersAssumption ==
  Letters \subseteq [from : People, to : People, agent : Agents \cup {NONE},
                    chat : BOOLEAN]
ASSUME BoundsAssumption == {MaxMail, MaxWritten, MaxOwner} \subseteq Nat

VARIABLES
  members,   \* the roster
  enrolled,  \* the agents enrolled in the team and not retired
  worker,    \* worker[a]: the agent's binding, or NONE
  mail,      \* every message, in the order of the sequence numbers
  budget,    \* budget[a][r]: turns charged to a for the conversation r
  turn,      \* turn[p]: the work p's daemon is running, or NONE
  resets,    \* resets[a][r]: how often the owner reset that budget
  commands   \* how many commands the owners have given

vars == <<members, enrolled, worker, mail, budget, turn, resets, commands>>

Roots == 1..MaxMail

Verdicts == {"replied", "failed", "ignored", "interrupted"}
States == {"sent", "pending", "running", "budget-exhausted"} \cup Verdicts

Message(from, by, to, agent, root, re, chat) ==
  [from |-> from, by |-> by, to |-> to, agent |-> agent, root |-> root,
   re |-> re, chat |-> chat, state |-> "sent"]

Mark(i, s) == [mail EXCEPT ![i].state = s]

----------------------------------------------------------------------------
(* Messages                                                                *)

(* Someone starts a conversation by hand.                                  *)
Write(l) ==
  LET root == Len(mail) + 1 IN
  /\ Cardinality({i \in DOMAIN mail : mail[i].re = 0}) < MaxWritten
  /\ Len(mail) < MaxMail
  /\ {l.from, l.to} \subseteq members
  /\ mail' = Append(mail, Message(l.from, NONE, l.to, l.agent, root, 0, l.chat))
  /\ UNCHANGED <<members, enrolled, worker, budget, turn, resets, commands>>

(* A message reaches the inbox of the person it is for.                    *)
Arrive(i) ==
  /\ mail[i].state = "sent"
  /\ mail' = Mark(i, "pending")
  /\ UNCHANGED <<members, enrolled, worker, budget, turn, resets, commands>>

(* Someone leaves, or is revoked.                                          *)
Depart(p) ==
  /\ p \in members
  /\ members' = members \ {p}
  /\ UNCHANGED <<enrolled, worker, mail, budget, turn, resets, commands>>

----------------------------------------------------------------------------
(* The owner's commands                                                    *)

Given ==
  /\ commands < MaxOwner
  /\ commands' = commands + 1

(* Every command to a worker finds the agent enrolled.                     *)
Command(a) == a \in enrolled /\ Given

(* What a worker is when it is bound.                                      *)
Bound(b, on) ==
  [at |-> b.at, limit |-> b.limit, default |-> b.default, on |-> on,
   session |-> NONE]

Bind(a) ==
  /\ Command(a)
  /\ \E b \in Bindings : worker' = [worker EXCEPT ![a] = Bound(b, FALSE)]
  /\ UNCHANGED <<members, enrolled, mail, budget, turn, resets>>

EnableOrPause(a) ==
  /\ Command(a)
  /\ worker[a] # NONE
  /\ worker' = [worker EXCEPT ![a].on = ~@]
  /\ UNCHANGED <<members, enrolled, mail, budget, turn, resets>>

Unbind(a) ==
  /\ Command(a)
  /\ worker[a] # NONE
  /\ worker' = [worker EXCEPT ![a] = NONE]
  /\ UNCHANGED <<members, enrolled, mail, budget, turn, resets>>

(* A mutant of Reopened: whatever is not replied to is tried again.        *)
ReopenedAll(a, r) ==
  [i \in DOMAIN mail |->
     IF mail[i].root = r /\ mail[i].to = Home[a]
          /\ mail[i].state \in {"budget-exhausted", "failed", "interrupted"}
     THEN [mail[i] EXCEPT !.state = "pending"] ELSE mail[i]]

(* The messages of the conversation that ran out of budget, whichever      *)
(* agent of this person they were for.                                     *)
Reopened(a, r) ==
  [i \in DOMAIN mail |->
     IF mail[i].root = r /\ mail[i].to = Home[a]
          /\ mail[i].state = "budget-exhausted"
     THEN [mail[i] EXCEPT !.state = "pending"] ELSE mail[i]]

Reset(a, r) ==
  /\ Command(a)
  /\ r \in DOMAIN mail
  /\ budget' = [budget EXCEPT ![a][r] = 0]
  /\ mail' = Reopened(a, r)
  /\ resets' = [resets EXCEPT ![a][r] = @ + 1]
  /\ UNCHANGED <<members, enrolled, worker, turn>>

(* The agent takes part in the team again: the owner enrolls it, or a      *)
(* session attaches in its workspace, which brings a retired one back.     *)
Enroll(a) ==
  /\ a \notin enrolled
  /\ enrolled' = enrolled \cup {a}
  /\ UNCHANGED <<members, worker, mail, budget, turn, resets, commands>>

(* The agent leaves the team, and keeps its worker.                        *)
Unenroll(a) ==
  /\ Given
  /\ enrolled' = enrolled \ {a}
  /\ UNCHANGED <<members, worker, mail, budget, turn, resets>>

(* The agent is retired, which drops its worker.                           *)
Retire(a) ==
  /\ Given
  /\ enrolled' = enrolled \ {a}
  /\ worker' = [worker EXCEPT ![a] = NONE]
  /\ UNCHANGED <<members, mail, budget, turn, resets>>

----------------------------------------------------------------------------
(* claim_work                                                              *)

(* The messages a's worker would take, and the one it looks at.            *)
Offered(a) ==
  {i \in DOMAIN mail :
     /\ mail[i].state = "pending"
     /\ mail[i].to = Home[a]
     /\ mail[i].agent = a \/ (worker[a].default /\ mail[i].agent = NONE)}

Working(a) ==
  /\ a \in enrolled
  /\ worker[a] # NONE
  /\ worker[a].on
  /\ Home[a] \in members

(* a's worker is looked at, while no turn runs, and i is first in line for *)
(* it.  The order of the agents is left open, and so is when the daemon    *)
(* looks: it does not after a sync with an error.                          *)
LooksAt(a, i) ==
  /\ turn[Home[a]] = NONE
  /\ Working(a)
  /\ i \in Offered(a)
  /\ \A j \in Offered(a) : i <= j

(* A mutant of Ignored: a worker may answer itself.                        *)
IgnoredIfStranger(a, m) == m.from \notin members \/ ~m.chat

(* Not for a worker: its own mail, or its owner's; a stranger's; no chat.  *)
Ignored(a, m) ==
  \/ m.from = Home[a] /\ m.by \in {NONE, a}
  \/ m.from \notin members
  \/ ~m.chat

Ignore(a, i) ==
  /\ LooksAt(a, i)
  /\ Ignored(a, mail[i])
  /\ mail' = Mark(i, "ignored")
  /\ UNCHANGED <<members, enrolled, worker, budget, turn, resets, commands>>

(* A mutant of HasBudget: one turn too many.                               *)
HasOneMore(a, r) == budget[a][r] <= worker[a].limit

HasBudget(a, r) == budget[a][r] < worker[a].limit

Exhaust(a, i) ==
  /\ LooksAt(a, i)
  /\ ~Ignored(a, mail[i])
  /\ ~HasBudget(a, mail[i].root)
  /\ mail' = Mark(i, "budget-exhausted")
  /\ UNCHANGED <<members, enrolled, worker, budget, turn, resets, commands>>

Work(a, i) == [event |-> i, agent |-> a, binding |-> worker[a]]

Claim(a, i) ==
  /\ LooksAt(a, i)
  /\ ~Ignored(a, mail[i])
  /\ HasBudget(a, mail[i].root)
  /\ budget' = [budget EXCEPT ![a][mail[i].root] = @ + 1]
  /\ mail' = Mark(i, "running")
  /\ turn' = [turn EXCEPT ![Home[a]] = Work(a, i)]
  /\ UNCHANGED <<members, enrolled, worker, resets, commands>>

----------------------------------------------------------------------------
(* finish_work, and the end of the daemon                                  *)

(* What enqueue demands of the reply.                                      *)
CanReply(w) ==
  LET m == mail[w.event] IN
  /\ {m.to, m.from} \subseteq members
  /\ w.agent \in enrolled

(* A mutant of SavedSession: the binding of the turn is written back.      *)
SavedTurn(w) ==
  IF worker[w.agent] = NONE THEN worker
  ELSE [worker EXCEPT ![w.agent] = [w.binding EXCEPT !.session = w.binding.at]]

(* A mutant of SavedSession: the binding may have changed meanwhile.       *)
SavedBlindly(w) ==
  IF worker[w.agent] = NONE THEN worker
  ELSE [worker EXCEPT ![w.agent].session = w.binding.at]

(* The session goes to the binding the turn ran under, if it is the same   *)
(* harness in the same directory; what else has changed in it stays.       *)
SavedSession(w) ==
  IF worker[w.agent] = NONE \/ worker[w.agent].at # w.binding.at THEN worker
  ELSE [worker EXCEPT ![w.agent].session = w.binding.at]

(* The reply, to whoever wrote the message, in the same conversation.      *)
Answer(w) ==
  LET m == mail[w.event] IN
  Message(m.to, w.agent, m.from, m.by, m.root, w.event, TRUE)

(* A mutant of Answered: the reply is sent before the message is marked.   *)
AnsweredFirst(w) == Append(mail, Answer(w))

Answered(w) == Append(Mark(w.event, "replied"), Answer(w))

Reply(p) ==
  /\ turn[p] # NONE
  /\ Len(mail) < MaxMail
  /\ CanReply(turn[p])
  /\ mail' = Answered(turn[p])
  /\ worker' = SavedSession(turn[p])
  /\ turn' = [turn EXCEPT ![p] = NONE]
  /\ UNCHANGED <<members, enrolled, budget, resets, commands>>

(* The model fails, times out or says too much, or enqueue refuses.        *)
Fail(p) ==
  /\ turn[p] # NONE
  /\ mail' = Mark(turn[p].event, "failed")
  /\ turn' = [turn EXCEPT ![p] = NONE]
  /\ UNCHANGED <<members, enrolled, worker, budget, resets, commands>>

Interrupted(p) ==
  [i \in DOMAIN mail |->
     IF mail[i].state = "running" /\ mail[i].to = p
     THEN [mail[i] EXCEPT !.state = "interrupted"] ELSE mail[i]]

(* The daemon ends, which kills the model, and is started again: what was  *)
(* running is interrupted.                                                 *)
Restart(p) ==
  /\ mail' = Interrupted(p)
  /\ turn' = [turn EXCEPT ![p] = NONE]
  /\ UNCHANGED <<members, enrolled, worker, budget, resets, commands>>

----------------------------------------------------------------------------
(* Every agent has a worker already; the owners unbind, rebind, pause.     *)
Init ==
  /\ members = People
  /\ enrolled = Agents
  /\ worker \in [Agents -> {Bound(b, TRUE) : b \in Bindings}]
  /\ mail = <<>>
  /\ budget = [a \in Agents |-> [r \in Roots |-> 0]]
  /\ turn = [p \in People |-> NONE]
  /\ resets = [a \in Agents |-> [r \in Roots |-> 0]]
  /\ commands = 0

Next ==
  \/ \E l \in Letters : Write(l)
  \/ \E i \in DOMAIN mail : Arrive(i)
  \/ \E p \in People : Depart(p)
  \/ \E a \in Agents :
       \/ Bind(a) \/ EnableOrPause(a) \/ Unbind(a)
       \/ Enroll(a) \/ Unenroll(a) \/ Retire(a)
  \/ \E a \in Agents, r \in Roots : Reset(a, r)
  \/ \E a \in Agents, i \in DOMAIN mail :
       Ignore(a, i) \/ Exhaust(a, i) \/ Claim(a, i)
  \/ \E p \in People : Reply(p) \/ Fail(p) \/ Restart(p)

Spec == Init /\ [][Next]_vars

----------------------------------------------------------------------------
(* Properties                                                              *)

Binding == [at : {b.at : b \in Bindings}, limit : {b.limit : b \in Bindings},
            default : BOOLEAN, on : BOOLEAN,
            session : {b.at : b \in Bindings} \cup {NONE}]
Mail == [from : People, by : Agents \cup {NONE}, to : People,
         agent : Agents \cup {NONE}, root : Roots, re : Roots \cup {0},
         chat : BOOLEAN, state : States]
Turn == [event : Roots, agent : Agents, binding : Binding]

ASSUME TurnAssumption == NONE \notin Turn

(* Every variable keeps its type, and what a daemon runs is what its       *)
(* database says is running, one turn at a time, whatever the owner does   *)
(* to the worker meanwhile ("one turn at a time", README).                 *)
TypeOK ==
  /\ members \subseteq People
  /\ enrolled \subseteq Agents
  /\ worker \in [Agents -> Binding \cup {NONE}]
  /\ mail \in Seq(Mail) /\ Len(mail) <= MaxMail
  /\ budget \in [Agents -> [Roots -> Nat]]
  /\ turn \in [People -> Turn \cup {NONE}]
  /\ resets \in [Agents -> [Roots -> Nat]]
  /\ commands \in Nat
  /\ \A i \in DOMAIN mail :
       mail[i].state = "running" <=>
         turn[mail[i].to] # NONE /\ turn[mail[i].to].event = i

Replies(a, r) ==
  {i \in DOMAIN mail : mail[i].by = a /\ mail[i].root = r}

MaxLimit == CHOOSE n \in {b.limit : b \in Bindings} :
              \A b \in Bindings : b.limit <= n

(* "Three replies per conversation root per agent, with durable counters": *)
(* however often workers answer each other, are rebound, interrupted or    *)
(* restarted, an agent sends at most its limit of replies into one         *)
(* conversation, and as many again after each reset by its owner           *)
(* (claim_work charges before the turn runs).                              *)
RepliesAreBounded ==
  \A a \in Agents, r \in Roots :
    Cardinality(Replies(a, r)) <= MaxLimit * (1 + resets[a][r])

(* A message is answered at most once, and says "replied" exactly when it  *)
(* was, across crashes, resets and other agents of the same person it was  *)
(* offered to (finish_work replies and marks in one transaction).          *)
AnsweredOnce ==
  \A i \in DOMAIN mail :
    Cardinality({j \in DOMAIN mail : mail[j].re = i})
      = IF mail[i].state = "replied" THEN 1 ELSE 0

(* A worker never answers itself, nor its owner's own notes (test "a       *)
(* worker never answers itself").                                          *)
NeverAnswersItself ==
  \A i \in DOMAIN mail : mail[i].re # 0 =>
    LET m == mail[mail[i].re] IN m.from = mail[i].from => m.by \notin {NONE, mail[i].by}

(* A session is only ever resumed by the harness and in the directory it   *)
(* comes from, although the owner may rebind the worker while its turn     *)
(* runs (finish_work compares them before it saves).                       *)
SessionFits ==
  \A a \in Agents : worker[a] # NONE => worker[a].session \in {NONE, worker[a].at}

(* "Interrupted/failed model turns remain explicit; they are not silently  *)
(* rerun": a verdict is final, for resets and restarts too (README).       *)
VerdictIsFinal ==
  [][\A i \in DOMAIN mail :
       mail[i].state \in Verdicts => mail'[i].state = mail[i].state]_vars

(* "Preserve enable/pause changes made while the model was running": the   *)
(* end of a turn does not switch a worker on or off (finish_work).         *)
SwitchIsTheOwners ==
  [][turn' # turn => \A a \in Agents :
       worker[a] # NONE /\ worker'[a] # NONE => worker'[a].on = worker[a].on]_vars
=============================================================================
