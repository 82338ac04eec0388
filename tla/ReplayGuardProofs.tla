-------------------------- MODULE ReplayGuardProofs -------------------------
(***************************************************************************)
(* Proofs about ReplayGuard: at most once, for all windows, retentions,    *)
(* skews and waits that leave the margin.                                  *)
(***************************************************************************)
EXTENDS ReplayGuard, TLAPS

(* A nonce is kept for the retention from a moment when its request had    *)
(* been signed.                                                            *)
NoncesLast ==
  \A n \in nonces : n.expires >= stamp[n.req] - Skew + Retention

(* What was carried out still has its nonce, or no copy of it can be       *)
(* waiting or come in any more.                                            *)
Remembered ==
  \A r \in Requests : done[r] > 0 =>
    /\ r \in sent
    /\ \/ \E n \in nonces : n.req = r
       \/ now > stamp[r] + Window + MaxWait

(* Nothing is signed in the future by more than the skew.                  *)
SignedByNow == \A r \in sent : stamp[r] <= now + Skew

IInv ==
  TypeOK /\ NoncesLast /\ Remembered /\ SignedByNow /\ AtMostOnce
    /\ OnlyReplaysRefused

LEMMA InitInv == Init => IInv
  BY TimesAssumption DEF Init, IInv, TypeOK, NoncesLast, Remembered, SignedByNow,
     AtMostOnce, OnlyReplaysRefused, Copy, Nonce

(* A nonce that the purge drops belongs to a request too old to wait.      *)
LEMMA PurgedIsOld ==
  ASSUME IInv, NEW n \in nonces, n \notin Kept
  PROVE  now > stamp[n.req] + Window + MaxWait
<1>1. now \in Nat /\ n.expires \in Int /\ stamp[n.req] \in Int
  BY DEF IInv, TypeOK, Nonce
<1>2. n.expires < now
  BY <1>1 DEF Kept
<1>3. n.expires >= stamp[n.req] - Skew + Retention
  BY DEF IInv, NoncesLast
<1>4. QED
  BY <1>1, <1>2, <1>3, TimesAssumption, MarginAssumption

(* A copy is only carried out if its request was not before.               *)
LEMMA CarriedOutIsNew ==
  ASSUME IInv, NEW w \in waiting, ~Replayed(w)
  PROVE  done[w.req] = 0
<1>1. /\ w.req \in Requests /\ done[w.req] \in Nat /\ now \in Nat
      /\ stamp[w.req] \in Int /\ w.since \in Nat
      /\ now <= w.since + MaxWait /\ w.since - stamp[w.req] <= Window
  BY DEF IInv, TypeOK, Copy
<1>2. SUFFICES ASSUME done[w.req] > 0 PROVE FALSE
  BY <1>1
<1>3. ~(now > stamp[w.req] + Window + MaxWait)
  BY <1>1, TimesAssumption
<1>4. PICK n \in nonces : n.req = w.req
  BY <1>1, <1>2, <1>3 DEF IInv, Remembered
<1>5. n \notin Kept
  BY <1>4 DEF Replayed
<1>6. QED
  BY <1>3, <1>4, <1>5, PurgedIsOld

LEMMA CarryOutKeeps ==
  ASSUME IInv, NEW w \in waiting, CarryOut(w)
  PROVE  IInv'
<1> DEFINE r0 == w.req
           n0 == [req |-> r0, expires |-> now + Retention]
<1> USE TimesAssumption
<1>1. /\ UNCHANGED <<now, sent, stamp>> /\ waiting' = waiting \ {w}
      /\ nonces' = Kept \cup {n0}
      /\ done' = [done EXCEPT ![r0] = @ + 1]
  BY DEF CarryOut
<1>2. r0 \in Requests /\ r0 \in sent /\ now \in Nat /\ done \in [Requests -> Nat]
      /\ stamp \in [Requests -> Int]
  BY DEF IInv, TypeOK, Copy
<1>3. done[r0] = 0
  BY CarriedOutIsNew DEF CarryOut
<1>4. Kept \subseteq nonces
  BY DEF Kept
<1>5. TypeOK'
  <2>1. nonces' \subseteq Nonce /\ \A n \in nonces' : n.expires <= now + Retention
    BY <1>1, <1>2, <1>4 DEF IInv, TypeOK, Nonce
  <2>2. QED
    BY <1>1, <1>2, <2>1 DEF IInv, TypeOK
<1>6. NoncesLast'
  <2>1. n0.expires >= stamp[r0] - Skew + Retention
    BY <1>2 DEF IInv, SignedByNow
  <2>2. QED
    BY <1>1, <1>4, <2>1 DEF IInv, NoncesLast
<1>7. Remembered'
  <2> SUFFICES ASSUME NEW r \in Requests, done'[r] > 0
      PROVE /\ r \in sent
            /\ \/ \E n \in nonces' : n.req = r
               \/ now > stamp[r] + Window + MaxWait
    BY <1>1 DEF Remembered
  <2>1. CASE r = r0
    <3>1. n0 \in nonces' /\ n0.req = r
      BY <1>1, <2>1
    <3>2. QED
      BY <1>2, <2>1, <3>1
  <2>2. CASE r # r0
    <3>1. done[r] > 0
      BY <1>1, <1>2, <2>2
    <3>2. r \in sent
      BY <3>1 DEF IInv, Remembered
    <3>3. CASE \E n \in nonces : n.req = r
      <4>1. PICK n \in nonces : n.req = r
        BY <3>3
      <4>2. CASE n \in Kept
        BY <1>1, <3>2, <4>1, <4>2
      <4>3. CASE n \notin Kept
        BY <3>2, <4>1, <4>3, PurgedIsOld
      <4>4. QED
        BY <4>2, <4>3
    <3>4. CASE now > stamp[r] + Window + MaxWait
      BY <3>2, <3>4
    <3>5. QED
      BY <3>1, <3>3, <3>4 DEF IInv, Remembered
  <2>3. QED
    BY <2>1, <2>2
<1>8. SignedByNow'
  BY <1>1 DEF IInv, SignedByNow
<1>9. AtMostOnce'
  BY <1>1, <1>2, <1>3 DEF IInv, AtMostOnce
<1>10. OnlyReplaysRefused'
  <2>1. done'[r0] > 0
    BY <1>1, <1>2, <1>3
  <2>2. \A n \in nonces : n.req \in Requests
    BY DEF IInv, TypeOK, Nonce
  <2>3. \A n \in Kept : done'[n.req] > 0
    BY <1>1, <1>2, <1>4, <2>1, <2>2 DEF IInv, OnlyReplaysRefused
  <2>4. QED
    BY <1>1, <2>1, <2>3 DEF OnlyReplaysRefused
<1>11. QED
  BY <1>5, <1>6, <1>7, <1>8, <1>9, <1>10 DEF IInv

LEMMA NextInv == IInv /\ [Next]_vars => IInv'
<1> SUFFICES ASSUME IInv, [Next]_vars PROVE IInv'
  OBVIOUS
<1> USE TimesAssumption
<1>1. ASSUME NEW r \in Requests, Sign(r) PROVE IInv'
  <2>1. /\ r \notin sent /\ sent' = sent \cup {r}
        /\ UNCHANGED <<now, waiting, nonces, done>>
    BY <1>1 DEF Sign
  <2>2. PICK d \in -Skew..Skew : stamp' = [stamp EXCEPT ![r] = now + d]
    BY <1>1 DEF Sign
  <2>3. now \in Nat /\ stamp \in [Requests -> Int] /\ d \in Int /\ d <= Skew
    BY DEF IInv, TypeOK
  <2>4. \A q \in Requests : q # r => stamp'[q] = stamp[q]
    BY <2>2, <2>3
  <2>5. done[r] = 0
    BY <2>1 DEF IInv, Remembered, TypeOK
  <2>6. \A n \in nonces : n.req \in Requests /\ n.req # r
    BY <2>5 DEF IInv, OnlyReplaysRefused, TypeOK, Nonce
  <2>7. \A w \in waiting : w.req \in Requests /\ w.req # r
    BY <2>1 DEF IInv, TypeOK, Copy
  <2>8. TypeOK'
    BY <2>1, <2>2, <2>3, <2>4, <2>7 DEF IInv, TypeOK
  <2>9. NoncesLast' /\ OnlyReplaysRefused' /\ AtMostOnce'
    BY <2>1, <2>4, <2>6 DEF IInv, NoncesLast, OnlyReplaysRefused, AtMostOnce
  <2>10. Remembered'
    BY <2>1, <2>4, <2>5 DEF IInv, Remembered
  <2>11. SignedByNow'
    BY <2>1, <2>2, <2>3, <2>4 DEF IInv, SignedByNow, TypeOK
  <2>12. QED
    BY <2>8, <2>9, <2>10, <2>11 DEF IInv
<1>2. ASSUME NEW r \in Requests, NEW c \in Copies, Arrive(r, c) PROVE IInv'
  <2>1. TypeOK'
    BY <1>2 DEF Arrive, Fresh, IInv, TypeOK, Copy
  <2>2. QED
    BY <1>2, <2>1 DEF Arrive, IInv, NoncesLast, Remembered, SignedByNow,
       AtMostOnce, OnlyReplaysRefused
<1>3. ASSUME NEW w \in waiting, CarryOut(w) PROVE IInv'
  BY <1>3, CarryOutKeeps
<1>4. ASSUME waiting' \subseteq waiting, UNCHANGED <<now, sent, stamp, nonces, done>>
      PROVE  IInv'
  BY <1>4 DEF IInv, TypeOK, NoncesLast, Remembered, SignedByNow, AtMostOnce,
     OnlyReplaysRefused
<1>5. ASSUME Tick PROVE IInv'
  <2>1. /\ now' = now + 1 /\ now \in Nat /\ stamp \in [Requests -> Int]
        /\ UNCHANGED <<sent, stamp, waiting, nonces, done>>
        /\ \A w \in waiting : now < w.since + MaxWait
    BY <1>5 DEF Tick, IInv, TypeOK
  <2>2. TypeOK'
    BY <2>1 DEF IInv, TypeOK, Copy, Nonce
  <2>3. NoncesLast' /\ AtMostOnce' /\ OnlyReplaysRefused'
    BY <2>1 DEF IInv, NoncesLast, AtMostOnce, OnlyReplaysRefused
  <2>4. Remembered'
    BY <2>1 DEF IInv, Remembered
  <2>5. SignedByNow'
    BY <2>1 DEF IInv, SignedByNow, TypeOK
  <2>6. QED
    BY <2>2, <2>3, <2>4, <2>5 DEF IInv
<1>6. CASE UNCHANGED vars
  BY <1>4, <1>6 DEF vars
<1>7. QED
  BY <1>1, <1>2, <1>3, <1>4, <1>5, <1>6 DEF Next, Refuse, Restart

(* The invariant holds in every reachable state.                           *)
THEOREM Invariance == Spec => []IInv
<1>1. QED
  BY InitInv, NextInv, PTL DEF Spec

(* No request is carried out twice, for all times that leave the margin    *)
(* (Service::handle).                                                      *)
THEOREM CarriedOutAtMostOnce == Spec => []AtMostOnce
<1>1. IInv => AtMostOnce
  BY DEF IInv
<1>2. QED
  BY <1>1, Invariance, PTL

(* A request that failed is never mistaken for a replay.                   *)
THEOREM FailedIsNotReplay == Spec => []OnlyReplaysRefused
<1>1. IInv => OnlyReplaysRefused
  BY DEF IInv
<1>2. QED
  BY <1>1, Invariance, PTL
=============================================================================
