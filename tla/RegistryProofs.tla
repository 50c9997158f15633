--------------------------- MODULE RegistryProofs ---------------------------
(***************************************************************************)
(* What every replay keeps, whatever events are in the file and whoever    *)
(* wrote them (LifecycleReplay), and what the file that the endpoints      *)
(* write keeps under every interleaving of their reads, appends and        *)
(* failures (Registry).                                                    *)
(***************************************************************************)
EXTENDS Registry, LifecycleReplay, SequenceTheorems, FiniteSetTheorems, TLAPS

(* The event that ended an intervention is the one its state tells of.     *)
EndingKnown ==
    \A i \in Interventions :
        /\ snapshots[i].state = "COMPLETED" => endedBy[i] = "complete"
        /\ snapshots[i].state = "FAILED" => endedBy[i] = "fail"

ReplayInv == ReplayTypeOK /\ AllCoherent /\ EndingKnown /\ OutcomeJustified

(* An accepted event turns a snapshot into a snapshot.                     *)
LEMMA AppliedType ==
    ASSUME NEW s \in Snapshot, NEW e \in Event, ~Rejected(s, e)
    PROVE  Applied(s, e) \in Snapshot
<1>1. CASE e.type = "define"
  BY <1>1 DEF Snapshot, Event, Applied, Defined, Undefined, States, OpenStates, Times
<1>2. CASE e.type = "checkpoint"
  BY <1>2 DEF Snapshot, Event, Applied, Times
<1>3. CASE e.type \in Transitions
  <2>1. Target(e.type) \in States
    BY <1>3 DEF Transitions, Target, States, OpenStates, ActiveStates, ExecutedStates,
                OutcomeStates, CheckpointBlocked
  <2>2. Applied(s, e) = Transitioned(s, e)
    BY <1>3 DEF Applied, Transitions
  <2>3. CASE e.type = "fail" \/ e.type = "outcome_pending"
    BY <2>1, <2>2, <2>3 DEF Transitioned, Snapshot, Event, Times
  <2>4. CASE e.type # "fail" /\ e.type # "outcome_pending"
    BY <2>1, <2>2, <2>4 DEF Transitioned, Snapshot, Event, Times
  <2>. QED  BY <2>3, <2>4
<1>. QED  BY <1>1, <1>2, <1>3 DEF Event

(* The rows of the transition table: the states an event is accepted from  *)
(* and the state it leads to.                                              *)
LEMMA TransitionTable ==
    /\ Sources("approve") = {"RECOMMENDED"} /\ Target("approve") = "APPROVED"
    /\ Sources("start") = {"APPROVED"} /\ Target("start") = "ACTIVE"
    /\ Sources("pause") = {"ACTIVE"} /\ Target("pause") = "PAUSED"
    /\ Sources("resume") = {"PAUSED"} /\ Target("resume") = "ACTIVE"
    /\ Sources("complete") = {"ACTIVE", "PAUSED"} /\ Target("complete") = "COMPLETED"
    /\ Sources("fail") = {"ACTIVE", "PAUSED"} /\ Target("fail") = "FAILED"
    /\ Sources("reject") = {"RECOMMENDED", "APPROVED"} /\ Target("reject") = "REJECTED"
    /\ Sources("expire") = {"RECOMMENDED", "APPROVED"} /\ Target("expire") = "EXPIRED"
    /\ Sources("cancel") = {"APPROVED", "ACTIVE", "PAUSED"} /\ Target("cancel") = "CANCELLED"
    /\ Sources("outcome_pending") = {"COMPLETED", "FAILED"}
    /\ Target("outcome_pending") = "OUTCOME_PENDING"
    /\ Sources("evaluate") = {"OUTCOME_PENDING"} /\ Target("evaluate") = "EVALUATED"
BY DEF Sources, Target, ActiveStates, ExecutedStates

(* An accepted event that is not earlier than the last one keeps a         *)
(* snapshot coherent.                                                      *)
LEMMA AppliedCoherent ==
    ASSUME NEW s \in Snapshot, NEW e \in Event,
           Coherent(s), s.updated <= e.at, ~Rejected(s, e)
    PROVE  Coherent(Applied(s, e)) /\ Applied(s, e).updated = e.at
<1>. DEFINE t == Applied(s, e)
<1>1. e.at \in Nat /\ e.at # 0 /\ e.key \in Keys
  BY DEF Event, Times
<1>2. CASE e.type = "define"
  <2>1. /\ t.state = "RECOMMENDED" /\ t.key = e.key /\ t.created = e.at
        /\ t.updated = e.at /\ t.started = 0 /\ t.ended = 0
    BY <1>2 DEF Applied, Defined, Undefined
  <2>. HIDE DEF t
  <2>2. Coherent(t)
    BY <1>1, <2>1 DEF Coherent, OpenStates, ActiveStates, ExecutedStates, OutcomeStates
  <2>. QED  BY <2>1, <2>2 DEF t
<1>3. /\ s.created \in Nat /\ s.updated \in Nat /\ s.started \in Nat /\ s.ended \in Nat
  BY DEF Snapshot
<1>4. s # Undefined => /\ s.state # "UNDEFINED" /\ s.key \in Keys
                       /\ 0 < s.created /\ s.created <= s.updated
  BY DEF Coherent
<1>5. CASE e.type = "checkpoint"
  <2>1. s # Undefined
    BY <1>5 DEF Rejected, Undefined
  <2>2. /\ t.state = s.state /\ t.key = s.key /\ t.created = s.created
        /\ t.updated = e.at /\ t.started = s.started /\ t.ended = s.ended
    BY <1>5 DEF Applied, Snapshot
  <2>. HIDE DEF t
  <2>3. Coherent(t)
    BY <1>1, <1>3, <2>1, <2>2 DEF Coherent
  <2>. QED  BY <2>2, <2>3 DEF t
<1>6. CASE e.type \in Transitions
  <2>1. s # Undefined /\ s.state \in Sources(e.type)
    BY <1>6 DEF Rejected, Undefined, Transitions
  <2>2. /\ t.state = Target(e.type) /\ t.updated = e.at /\ t.key = s.key
        /\ t.created = s.created
        /\ t.started = IF e.type = "start" THEN e.at ELSE s.started
        /\ t.ended = IF e.type \in EndingEvents THEN e.at ELSE s.ended
    BY <1>6 DEF Applied, Transitioned, Snapshot, Transitions
  <2>. HIDE DEF t
  <2>3. /\ s.state \in {"RECOMMENDED", "APPROVED"} => s.started = 0 /\ s.ended = 0
        /\ s.state \in {"ACTIVE", "PAUSED"} => s.started # 0 /\ s.ended = 0
        /\ s.state \in {"COMPLETED", "FAILED", "OUTCOME_PENDING"}
             => s.started # 0 /\ s.ended # 0
        /\ s.started # 0 => s.created <= s.started /\ s.started <= s.updated
        /\ s.ended # 0 => s.started <= s.ended /\ s.ended <= s.updated
    BY <2>1 DEF Coherent, OpenStates, ActiveStates, ExecutedStates, OutcomeStates
  <2>4. /\ s.state # "UNDEFINED" /\ s.key \in Keys
        /\ 0 < s.created /\ s.created <= s.updated
    BY <1>4, <2>1
  <2>5. \/ /\ t.state = "APPROVED" /\ t.started = 0 /\ t.ended = 0
        \/ /\ t.state \in {"ACTIVE", "PAUSED"} /\ t.ended = 0
           /\ \/ t.started = e.at
              \/ t.started = s.started /\ s.started # 0
        \/ /\ t.state \in {"REJECTED", "EXPIRED", "CANCELLED"} /\ t.ended = e.at
           /\ t.started = s.started
        \/ /\ t.state \in {"COMPLETED", "FAILED"} /\ t.ended = e.at
           /\ t.started = s.started /\ s.started # 0
        \/ /\ t.state \in {"OUTCOME_PENDING", "EVALUATED"} /\ t.ended = s.ended
           /\ t.started = s.started /\ s.started # 0 /\ s.ended # 0
    <3>1. CASE e.type = "approve"
      BY <3>1, <2>1, <2>2, <2>3, TransitionTable DEF EndingEvents
    <3>2. CASE e.type = "start"
      BY <3>2, <2>1, <2>2, <2>3, TransitionTable DEF EndingEvents
    <3>3. CASE e.type = "pause"
      BY <3>3, <2>1, <2>2, <2>3, TransitionTable DEF EndingEvents
    <3>4. CASE e.type = "resume"
      BY <3>4, <2>1, <2>2, <2>3, TransitionTable DEF EndingEvents
    <3>5. CASE e.type = "complete"
      BY <3>5, <2>1, <2>2, <2>3, TransitionTable DEF EndingEvents
    <3>6. CASE e.type = "fail"
      BY <3>6, <2>1, <2>2, <2>3, TransitionTable DEF EndingEvents
    <3>7. CASE e.type = "reject"
      BY <3>7, <2>1, <2>2, <2>3, TransitionTable DEF EndingEvents
    <3>8. CASE e.type = "expire"
      BY <3>8, <2>1, <2>2, <2>3, TransitionTable DEF EndingEvents
    <3>9. CASE e.type = "cancel"
      BY <3>9, <2>1, <2>2, <2>3, TransitionTable DEF EndingEvents
    <3>10. CASE e.type = "outcome_pending"
      BY <3>10, <2>1, <2>2, <2>3, TransitionTable DEF EndingEvents
    <3>11. CASE e.type = "evaluate"
      BY <3>11, <2>1, <2>2, <2>3, TransitionTable DEF EndingEvents
    <3>. QED
      BY <1>6, <3>1, <3>2, <3>3, <3>4, <3>5, <3>6, <3>7, <3>8, <3>9, <3>10, <3>11 DEF Transitions
  <2>6. Coherent(t)
    BY <1>1, <1>3, <2>2, <2>3, <2>4, <2>5
       DEF Coherent, OpenStates, ActiveStates, ExecutedStates, OutcomeStates
  <2>. QED  BY <2>2, <2>6 DEF t
<1>. QED  BY <1>2, <1>5, <1>6 DEF Event

(* The strengthened invariant holds of every replay.                       *)
THEOREM ReplayInvariance == ReplaySpec => []ReplayInv
<1>1. ReplayInit => ReplayInv
  <2>. SUFFICES ASSUME ReplayInit PROVE ReplayInv
    OBVIOUS
  <2>1. Undefined \in Snapshot
    BY DEF Undefined, Snapshot
  <2>2. ReplayTypeOK
    BY <2>1 DEF ReplayInit, ReplayTypeOK
  <2>3. \A i \in Interventions : snapshots[i] = Undefined
    BY DEF ReplayInit
  <2>. QED
    BY <2>2, <2>3 DEF ReplayInv, ReplayInit, AllCoherent, Coherent, EndingKnown, OutcomeJustified,
                      Undefined, OutcomeStates
<1>2. ReplayInv /\ [ReplayNext]_replay => ReplayInv'
  <2>. SUFFICES ASSUME ReplayInv, [ReplayNext]_replay PROVE ReplayInv'
    OBVIOUS
  <2>. USE DEF ReplayInv
  <2>1. ASSUME NEW e \in Event, Accept(e) PROVE ReplayInv'
    <3>. DEFINE s == snapshots[e.id]
                t == Applied(s, e)
    <3>1. /\ e.id \in Interventions /\ e.at \in Nat /\ lastAt \in Nat
          /\ s \in Snapshot /\ Coherent(s) /\ s.updated <= e.at /\ s.updated \in Nat
      <4>1. e.id \in Interventions /\ e.at \in Nat /\ lastAt <= e.at
        BY <2>1 DEF Event, Times, Accept
      <4>2. s \in Snapshot /\ lastAt \in Nat /\ Coherent(s) /\ s.updated <= lastAt
        BY <4>1 DEF ReplayTypeOK, AllCoherent
      <4>3. s.updated \in Nat
        BY <4>2 DEF Snapshot
      <4>. QED  BY <4>1, <4>2, <4>3
    <3>2. /\ ~Rejected(s, e) /\ lastAt <= e.at /\ lastAt' = e.at
          /\ snapshots' = [snapshots EXCEPT ![e.id] = t]
          /\ endedBy' = IF e.type \in EndingEvents THEN [endedBy EXCEPT ![e.id] = e.type]
                                                   ELSE endedBy
      BY <2>1 DEF Accept
    <3>3. t \in Snapshot
      BY <3>1, <3>2, AppliedType
    <3>4. Coherent(t) /\ t.updated = e.at
      BY <3>1, <3>2, AppliedCoherent
    <3>5. /\ snapshots'[e.id] = t
          /\ \A i \in Interventions \ {e.id} : snapshots'[i] = snapshots[i]
      BY <3>1, <3>2 DEF ReplayTypeOK
    <3>6. /\ endedBy'[e.id] = IF e.type \in EndingEvents THEN e.type ELSE endedBy[e.id]
          /\ \A i \in Interventions \ {e.id} : endedBy'[i] = endedBy[i]
      BY <3>1, <3>2 DEF ReplayTypeOK
    <3>7. ReplayTypeOK'
      BY <3>1, <3>2, <3>3 DEF ReplayTypeOK
    <3>8. AllCoherent'
      <4>1. \A i \in Interventions : snapshots[i].updated \in Nat
        BY DEF ReplayTypeOK, Snapshot
      <4>. QED  BY <3>1, <3>2, <3>4, <3>5, <4>1 DEF AllCoherent
    <3>9. e.type = "define" => t.state = "RECOMMENDED"
      BY DEF Applied, Defined, Undefined
    <3>10. e.type = "checkpoint" => t.state = s.state /\ t.evidence = s.evidence
      BY <3>1 DEF Applied, Snapshot
    <3>11. e.type \in Transitions =>
             /\ s.state \in Sources(e.type) /\ t.state = Target(e.type)
             /\ t.evidence = CASE e.type = "fail" -> e.evidence
                               [] e.type = "outcome_pending" -> s.evidence \/ e.evidence
                               [] OTHER -> s.evidence
      BY <3>1, <3>2 DEF Applied, Transitioned, Rejected, Snapshot, Transitions
    <3>12. e.type = "outcome_pending" /\ s.state = "FAILED" => s.evidence \/ e.evidence
      BY <3>2 DEF Rejected
    <3>13. e.type \in Transitions \cup {"define", "checkpoint"}
      BY DEF Event
    <3>14. EndingKnown'
      <4>1. e.type \in Transitions =>
              /\ t.state = "COMPLETED" => e.type = "complete"
              /\ t.state = "FAILED" => e.type = "fail"
        BY <3>11, TransitionTable DEF Transitions
      <4>2. /\ t.state = "COMPLETED" => endedBy'[e.id] = "complete"
            /\ t.state = "FAILED" => endedBy'[e.id] = "fail"
        BY <4>1, <3>1, <3>6, <3>9, <3>10, <3>13 DEF EndingKnown, EndingEvents
      <4>. QED  BY <4>2, <3>5, <3>6 DEF EndingKnown
    <3>15. OutcomeJustified'
      <4>1. t.state \in OutcomeStates =>
              \/ endedBy'[e.id] = "complete"
              \/ endedBy'[e.id] = "fail" /\ t.evidence
        <5>. SUFFICES ASSUME t.state \in OutcomeStates
                      PROVE  \/ endedBy'[e.id] = "complete"
                             \/ endedBy'[e.id] = "fail" /\ t.evidence
          OBVIOUS
        <5>1. CASE e.type = "checkpoint"
          BY <5>1, <3>1, <3>6, <3>10 DEF OutcomeJustified, EndingEvents
        <5>2. CASE e.type = "outcome_pending"
          <6>1. /\ s.state \in {"COMPLETED", "FAILED"}
                /\ t.evidence = (s.evidence \/ e.evidence)
            BY <5>2, <3>11, TransitionTable DEF Transitions
          <6>2. endedBy'[e.id] = endedBy[e.id]
            BY <5>2, <3>6 DEF EndingEvents
          <6>. QED  BY <5>2, <6>1, <6>2, <3>1, <3>12 DEF EndingKnown
        <5>3. CASE e.type = "evaluate"
          <6>1. s.state = "OUTCOME_PENDING" /\ t.evidence = s.evidence
            BY <5>3, <3>11, TransitionTable DEF Transitions
          <6>2. endedBy'[e.id] = endedBy[e.id]
            BY <5>3, <3>6 DEF EndingEvents
          <6>. QED  BY <6>1, <6>2, <3>1 DEF OutcomeJustified, OutcomeStates
        <5>. QED
          BY <5>1, <5>2, <5>3, <3>9, <3>11, <3>13, TransitionTable
             DEF Transitions, OutcomeStates
      <4>. QED  BY <4>1, <3>5, <3>6 DEF OutcomeJustified
    <3>. QED  BY <3>7, <3>8, <3>14, <3>15
  <2>2. ASSUME NEW e \in Event, Reject(e) PROVE ReplayInv'
    <3>1. /\ snapshots' = snapshots /\ endedBy' = endedBy /\ lastAt' = e.at
          /\ lastAt <= e.at /\ e.at \in Nat
      BY <2>2 DEF Reject, Event, Times
    <3>2. \A i \in Interventions : snapshots[i].updated \in Nat
      BY DEF ReplayTypeOK, Snapshot
    <3>. QED
      BY <3>1, <3>2 DEF ReplayTypeOK, AllCoherent, EndingKnown, OutcomeJustified
  <2>3. CASE UNCHANGED replay
    BY <2>3 DEF replay, ReplayTypeOK, AllCoherent, EndingKnown, OutcomeJustified
  <2>. QED  BY <2>1, <2>2, <2>3 DEF ReplayNext
<1>. QED  BY <1>1, <1>2, PTL DEF ReplaySpec

(* The snapshots of every replay are well typed.                           *)
THEOREM ReplayTypeCorrect == ReplaySpec => []ReplayTypeOK
BY ReplayInvariance, PTL DEF ReplayInv

(* The clocks of every replayed intervention agree with its state and with *)
(* each other, for any log at all (reconstruct_interventions).             *)
THEOREM ReplayIsCoherent == ReplaySpec => []AllCoherent
BY ReplayInvariance, PTL DEF ReplayInv

(* No replay takes an intervention to an outcome that was not completed,   *)
(* or failed with execution evidence (_validate_transition_preconditions). *)
THEOREM OutcomeIsJustified == ReplaySpec => []OutcomeJustified
BY ReplayInvariance, PTL DEF ReplayInv

(* Further events never reopen an intervention that a replay has ended.    *)
THEOREM EndIsFinal == ReplaySpec => EndedForGood
<1>1. ReplayInv /\ [ReplayNext]_replay =>
        [\A i \in Interventions : snapshots[i].ended # 0 =>
            /\ snapshots'[i].state \notin OpenStates
            /\ snapshots'[i].started = snapshots[i].started
            /\ snapshots'[i].ended = snapshots[i].ended]_replay
  <2>. SUFFICES ASSUME ReplayInv, ReplayNext, NEW i \in Interventions, snapshots[i].ended # 0
                PROVE  /\ snapshots'[i].state \notin OpenStates
                       /\ snapshots'[i].started = snapshots[i].started
                       /\ snapshots'[i].ended = snapshots[i].ended
    OBVIOUS
  <2>. DEFINE s == snapshots[i]
  <2>1. /\ s \in Snapshot /\ s.state \notin OpenStates \cup {"UNDEFINED"}
    BY DEF ReplayInv, ReplayTypeOK, AllCoherent, Coherent, Undefined, OpenStates, ActiveStates
  <2>2. CASE snapshots'[i] = s
    BY <2>1, <2>2
  <2>3. ASSUME NEW e \in Event, Accept(e), e.id = i
        PROVE  /\ snapshots'[i].state \notin OpenStates
               /\ snapshots'[i].started = s.started /\ snapshots'[i].ended = s.ended
    <3>1. ~Rejected(s, e) /\ snapshots'[i] = Applied(s, e)
      BY <2>3 DEF Accept, ReplayInv, ReplayTypeOK
    <3>2. CASE e.type = "checkpoint"
      BY <2>1, <3>1, <3>2 DEF Applied, Snapshot
    <3>3. CASE e.type \in Transitions
      <4>1. s.state \in Sources(e.type) /\ snapshots'[i] = Transitioned(s, e)
        BY <3>1, <3>3 DEF Rejected, Applied, Transitions
      <4>2. e.type \in {"outcome_pending", "evaluate"}
        BY <2>1, <3>3, <4>1 DEF Sources, Transitions, OpenStates, ActiveStates
      <4>. QED
        BY <2>1, <4>1, <4>2 DEF Transitioned, Target, EndingEvents, OpenStates,
                                ActiveStates, Snapshot
    <3>4. CASE e.type = "define"
      BY <2>1, <3>1, <3>4 DEF Rejected
    <3>. QED  BY <3>2, <3>3, <3>4 DEF Event
  <2>4. ASSUME NEW e \in Event, Accept(e), e.id # i PROVE snapshots'[i] = s
    BY <2>4 DEF Accept, ReplayInv, ReplayTypeOK
  <2>5. ASSUME NEW e \in Event, Reject(e) PROVE snapshots'[i] = s
    BY <2>5 DEF Reject
  <2>. QED  BY <2>2, <2>3, <2>4, <2>5 DEF ReplayNext
<1>. QED  BY <1>1, ReplayInvariance, PTL DEF ReplaySpec, EndedForGood

-----------------------------------------------------------------------------
(* The order of a replay.                                                  *)

(* Every set of naturals that is not empty has a least element.            *)
LEMMA LeastElement ==
    ASSUME NEW T \in SUBSET Nat, T # {}
    PROVE  \E m \in T : \A n \in T : m <= n
<1>. DEFINE R == OpToRel(<, Nat)
<1>1. IsWellFoundedOn(R, Nat)
  BY NatLessThanWellFounded
<1>2. \A m, n \in Nat : <<m, n>> \in R <=> m < n
  BY DEF OpToRel
<1>. HIDE DEF R
<1>3. PICK m \in T : \A n \in T : ~ (<<n, m>> \in R)
  BY <1>1, WFMin
<1>4. \A n \in T : ~ (n < m)
  BY <1>2, <1>3
<1>. QED  BY <1>4

(* Induction over the naturals, stated of a set.                           *)
LEMMA NatInduct ==
    ASSUME NEW S, 0 \in S, \A n \in Nat : n \in S => n + 1 \in S
    PROVE  Nat \subseteq S
<1>. SUFFICES ASSUME Nat \ S # {} PROVE FALSE
  OBVIOUS
<1>1. PICK m \in Nat \ S : \A n \in Nat \ S : m <= n
  BY LeastElement
<1>2. m # 0 /\ m - 1 \in Nat /\ m - 1 \in S
  BY <1>1
<1>. QED  BY <1>1, <1>2

(* Max of a bounded set of naturals is its greatest member.                *)
LEMMA GreatestUpTo ==
    ASSUME NEW n \in Nat, NEW T \in SUBSET (0 .. n), T # {}
    PROVE  Max(T) \in T /\ \A m \in T : m <= Max(T)
<1>. DEFINE B == {n - m : m \in T}
<1>0. \A m \in T : m \in Nat /\ n - m \in Nat
  OBVIOUS
<1>1. B \in SUBSET Nat
  BY <1>0
<1>2. B # {}
  OBVIOUS
<1>. HIDE DEF B
<1>3. PICK b \in B : \A c \in B : b <= c
  BY <1>1, <1>2, LeastElement
<1>. USE DEF B
<1>4. PICK k \in T : b = n - k
  BY <1>3
<1>5. \A m \in T : m <= k
  BY <1>0, <1>3, <1>4
<1>6. \E x \in T : \A y \in T : x >= y
  BY <1>0, <1>5
<1>. QED  BY <1>0, <1>6 DEF Max

Before(log, m, n) == log[m].at < log[n].at \/ (log[m].at = log[n].at /\ m < n)

\* The first n positions of the file in the order of a replay.
Sorted(log, order, n) ==
    /\ order \in [1 .. n -> 1 .. n]
    /\ \A k \in 1 .. n : \E m \in 1 .. n : order[m] = k
    /\ \A i, j \in 1 .. n : i < j => Before(log, order[i], order[j])

\* Where a position goes: behind what is not later, before what is.
PutAt(log, order, new, n, p) ==
    /\ p \in 1 .. n /\ new[p] = n
    /\ \A m \in 1 .. p - 1 : new[m] = order[m] /\ log[order[m]].at <= log[n].at
    /\ \A m \in p .. n - 1 : new[m + 1] = order[m] /\ log[n].at < log[order[m]].at

(* Inserted puts the next position where it keeps the order sorted, and    *)
(* shifts the later ones by one.                                           *)
LEMMA InsertedSorts ==
    ASSUME NEW n \in Nat \ {0}, NEW log, \A k \in 1 .. n : log[k].at \in Nat,
           NEW order, Sorted(log, order, n - 1)
    PROVE  /\ Sorted(log, Inserted(log, order, n), n)
           /\ \E p \in 1 .. n : PutAt(log, order, Inserted(log, order, n), n, p)
<1>. DEFINE T == {m \in DOMAIN order : log[order[m]].at <= log[n].at}
            g == Max({0} \cup T)
            p == 1 + g
            new == Inserted(log, order, n)
<1>0. n - 1 \in Nat /\ \A m \in 1 .. n - 1 : order[m] \in 1 .. n - 1 /\ log[order[m]].at \in Nat
  <2>1. n - 1 \in Nat /\ \A k \in 1 .. n - 1 : k \in 1 .. n
    OBVIOUS
  <2>2. \A m \in 1 .. n - 1 : order[m] \in 1 .. n - 1
    BY DEF Sorted
  <2>. QED  BY <2>1, <2>2
<1>1. DOMAIN order = 1 .. n - 1 /\ Len(order) = n - 1
  <2>0. \A k \in 1 .. n - 1 : k \in Nat
    OBVIOUS
  <2>1. order \in [1 .. n - 1 -> Nat]
    BY <2>0 DEF Sorted
  <2>. QED  BY <2>1, <1>0
<1>2. {0} \cup T \in SUBSET (0 .. n - 1) /\ {0} \cup T # {}
  BY <1>1
<1>3. g \in {0} \cup T /\ \A m \in {0} \cup T : m <= g
  <2>. DEFINE U == {0} \cup T
  <2>1. U \in SUBSET (0 .. n - 1) /\ U # {}
    BY <1>2
  <2>. HIDE DEF U
  <2>2. Max(U) \in U /\ \A m \in U : m <= Max(U)
    BY <1>0, <2>1, GreatestUpTo
  <2>. QED  BY <2>2 DEF U
<1>4. new = [m \in 1 .. n |-> IF m < p THEN order[m] ELSE IF m = p THEN n ELSE order[m - 1]]
  BY <1>1 DEF Inserted
<1>. HIDE DEF new, g
<1>5. g \in 0 .. n - 1 /\ p \in 1 .. n
  BY <1>2, <1>3
<1>6. \A m \in 1 .. n - 1 : m > g => log[n].at < log[order[m]].at
  <2>1. SUFFICES ASSUME NEW m \in 1 .. n - 1, m > g, log[order[m]].at <= log[n].at PROVE FALSE
    BY <1>0
  <2>2. m \in T
    BY <1>1, <2>1
  <2>. QED  BY <1>3, <1>5, <2>1, <2>2
<1>7. \A m \in 1 .. n - 1 : m <= g => log[order[m]].at <= log[n].at
  <2>1. SUFFICES ASSUME NEW m \in 1 .. n - 1, m <= g PROVE log[order[m]].at <= log[n].at
    OBVIOUS
  <2>2. g \in T /\ g \in 1 .. n - 1
    BY <1>1, <1>3, <2>1
  <2>3. log[order[g]].at <= log[n].at
    BY <2>2
  <2>4. m = g \/ log[order[m]].at <= log[order[g]].at
    <3>1. CASE m # g
      <4>1. m < g
        BY <2>1, <2>2, <3>1
      <4>2. Before(log, order[m], order[g])
        BY <2>2, <4>1 DEF Sorted
      <4>3. log[order[m]].at \in Nat /\ log[order[g]].at \in Nat
        BY <1>0, <2>2
      <4>. HIDE DEF g
      <4>. QED  BY <4>2, <4>3 DEF Before
    <3>. QED  BY <3>1
  <2>. QED  BY <1>0, <2>2, <2>3, <2>4
<1>. HIDE DEF T
<1>8. PutAt(log, order, new, n, p)
  <2>1. new[p] = n
    BY <1>4, <1>5
  <2>2. \A m \in 1 .. p - 1 : new[m] = order[m] /\ log[order[m]].at <= log[n].at
    BY <1>4, <1>5, <1>7
  <2>3. \A m \in p .. n - 1 : new[m + 1] = order[m] /\ log[n].at < log[order[m]].at
    BY <1>4, <1>5, <1>6
  <2>. QED  BY <1>5, <2>1, <2>2, <2>3 DEF PutAt
<1>9. new \in [1 .. n -> 1 .. n]
  <2>1. \A m \in 1 .. n : m < p => m \in 1 .. n - 1
    BY <1>5
  <2>2. \A m \in 1 .. n : ~ (m < p) /\ m # p => m - 1 \in 1 .. n - 1
    BY <1>5
  <2>3. \A k \in 1 .. n - 1 : k \in 1 .. n
    OBVIOUS
  <2>. QED  BY <1>0, <1>4, <2>1, <2>2, <2>3
<1>10. ASSUME NEW k \in 1 .. n PROVE \E m \in 1 .. n : new[m] = k
  <2>1. CASE k = n
    BY <1>5, <1>8, <2>1 DEF PutAt
  <2>2. CASE k # n
    <3>1. PICK m \in 1 .. n - 1 : order[m] = k
      BY <2>2 DEF Sorted
    <3>2. CASE m < p
      BY <1>4, <1>5, <3>1, <3>2
    <3>3. CASE ~ (m < p)
      <4>1. m + 1 \in 1 .. n /\ ~ (m + 1 < p) /\ m + 1 # p /\ (m + 1) - 1 = m
        BY <1>5, <3>3
      <4>. QED  BY <1>4, <3>1, <4>1
    <3>. QED  BY <3>2, <3>3
  <2>. QED  BY <2>1, <2>2
<1>11. ASSUME NEW i \in 1 .. n, NEW j \in 1 .. n, i < j
       PROVE  Before(log, new[i], new[j])
  <2>0. log[n].at \in Nat
    OBVIOUS
  <2>1. CASE j < p
    <3>1. i \in 1 .. n - 1 /\ j \in 1 .. n - 1 /\ new[i] = order[i] /\ new[j] = order[j]
      BY <1>4, <1>5, <1>11, <2>1
    <3>. QED  BY <1>11, <3>1 DEF Sorted
  <2>2. CASE j = p
    <3>1. i \in 1 .. n - 1 /\ i <= g /\ new[i] = order[i] /\ new[j] = n
      BY <1>4, <1>5, <1>11, <2>2
    <3>. QED  BY <1>0, <1>7, <2>0, <3>1 DEF Before
  <2>3. CASE j > p /\ i < p
    <3>1. i \in 1 .. n - 1 /\ j - 1 \in 1 .. n - 1 /\ i < j - 1
          /\ new[i] = order[i] /\ new[j] = order[j - 1]
      BY <1>4, <1>5, <1>11, <2>3
    <3>. QED  BY <3>1 DEF Sorted
  <2>4. CASE j > p /\ i = p
    <3>1. j - 1 \in 1 .. n - 1 /\ j - 1 > g /\ new[i] = n /\ new[j] = order[j - 1]
      BY <1>4, <1>5, <1>11, <2>4
    <3>. QED  BY <1>6, <3>1 DEF Before
  <2>5. CASE j > p /\ i > p
    <3>1. i - 1 \in 1 .. n - 1 /\ j - 1 \in 1 .. n - 1 /\ i - 1 < j - 1
          /\ new[i] = order[i - 1] /\ new[j] = order[j - 1]
      BY <1>4, <1>5, <1>11, <2>5
    <3>. QED  BY <3>1 DEF Sorted
  <2>. QED  BY <1>5, <2>1, <2>2, <2>3, <2>4, <2>5
<1>12. Sorted(log, new, n)
  BY <1>9, <1>10, <1>11 DEF Sorted
<1>. QED  BY <1>5, <1>8, <1>12 DEF new

\* The orders of the prefixes of a file.
Orders(log, n, f) ==
    f = [k \in 0 .. n |-> IF k = 0 THEN <<>> ELSE Inserted(log, f[k - 1], k)]

OrderOf(log) == CHOOSE f : Orders(log, Len(log), f)

(* The recursive function ReplayOrder is made of exists.                   *)
LEMMA OrdersExist == \A log : \A n \in Nat : \E f : Orders(log, n, f)
<1>. SUFFICES ASSUME NEW log PROVE \A n \in Nat : \E f : Orders(log, n, f)
  OBVIOUS
<1>. DEFINE Good == {n \in Nat : \E f : Orders(log, n, f)}
<1>1. 0 \in Good
  <2>. DEFINE f == [k \in 0 .. 0 |-> <<>>]
  <2>1. f = [k \in 0 .. 0 |-> IF k = 0 THEN <<>> ELSE Inserted(log, f[k - 1], k)]
    <3>1. \A k \in 0 .. 0 : k = 0
      OBVIOUS
    <3>. QED  BY <3>1
  <2>. HIDE DEF f
  <2>2. Orders(log, 0, f)
    BY <2>1 DEF Orders
  <2>. QED  BY <2>2
<1>2. ASSUME NEW n \in Nat, n \in Good
      PROVE  n + 1 \in Good
  <2>1. PICK f : Orders(log, n, f)
    BY <1>2
  <2>2. DOMAIN f = 0 .. n /\ \A k \in 0 .. n : f[k] = IF k = 0 THEN <<>> ELSE Inserted(log, f[k - 1], k)
    <3>1. f = [k \in 0 .. n |-> IF k = 0 THEN <<>> ELSE Inserted(log, f[k - 1], k)]
      BY <2>1 DEF Orders
    <3>. DEFINE h == [k \in 0 .. n |-> IF k = 0 THEN <<>> ELSE Inserted(log, f[k - 1], k)]
    <3>2. /\ DOMAIN h = 0 .. n
          /\ \A k \in 0 .. n : h[k] = IF k = 0 THEN <<>> ELSE Inserted(log, f[k - 1], k)
      OBVIOUS
    <3>3. f = h
      BY <3>1
    <3>. HIDE DEF h
    <3>. QED  BY <3>2, <3>3
  <2>. DEFINE g == [k \in 0 .. n + 1 |-> IF k <= n THEN f[k] ELSE Inserted(log, f[n], n + 1)]
  <2>3. DOMAIN g = 0 .. n + 1 /\ g[n + 1] = Inserted(log, f[n], n + 1)
        /\ \A k \in 0 .. n : g[k] = f[k]
    OBVIOUS
  <2>4. \A k \in 0 .. n + 1 : g[k] = IF k = 0 THEN <<>> ELSE Inserted(log, g[k - 1], k)
    <3>. HIDE DEF g
    <3>1. SUFFICES ASSUME NEW k \in 0 .. n + 1
          PROVE  g[k] = IF k = 0 THEN <<>> ELSE Inserted(log, g[k - 1], k)
      OBVIOUS
    <3>2. CASE k = n + 1
      <4>1. k - 1 = n /\ k # 0 /\ g[n] = f[n]
        BY <2>3, <3>2
      <4>. QED  BY <2>3, <3>2, <4>1
    <3>3. CASE k # n + 1
      <4>1. k \in 0 .. n /\ (k # 0 => k - 1 \in 0 .. n)
        BY <3>3
      <4>. QED  BY <2>2, <2>3, <4>1
    <3>. QED  BY <3>2, <3>3
  <2>5. g = [k \in 0 .. n + 1 |-> g[k]]
    OBVIOUS
  <2>. HIDE DEF g
  <2>6. g = [k \in 0 .. n + 1 |-> IF k = 0 THEN <<>> ELSE Inserted(log, g[k - 1], k)]
    BY <2>4, <2>5
  <2>7. Orders(log, n + 1, g)
    BY <2>6 DEF Orders
  <2>. QED  BY <2>7
<1>. HIDE DEF Good
<1>3. Nat \subseteq Good
  BY <1>1, <1>2, NatInduct
<1>. QED  BY <1>3 DEF Good

(* ReplayOrder, step by step.                                              *)
LEMMA OrderIs ==
    ASSUME NEW log \in Seq(Event)
    PROVE  /\ ReplayOrder(log) = OrderOf(log)[Len(log)]
           /\ OrderOf(log)[0] = <<>>
           /\ \A k \in 1 .. Len(log) : OrderOf(log)[k] = Inserted(log, OrderOf(log)[k - 1], k)
<1>. DEFINE f == OrderOf(log)
            n == Len(log)
<1>1. Orders(log, n, f)
  BY OrdersExist DEF OrderOf
<1>2. ReplayOrder(log) = f[n]
  BY DEF ReplayOrder, OrderOf, Orders
<1>3. \A k \in 0 .. n : f[k] = IF k = 0 THEN <<>> ELSE Inserted(log, f[k - 1], k)
  <2>1. f = [k \in 0 .. n |-> IF k = 0 THEN <<>> ELSE Inserted(log, f[k - 1], k)]
    BY <1>1 DEF Orders
  <2>. HIDE DEF f
  <2>. QED  BY <2>1
<1>. QED  BY <1>2, <1>3

(* What the type of an event says of its fields.                           *)
LEMMA EventTimes ==
    \A e \in Event : e.at \in Nat /\ e.at # 0 /\ e.id \in Interventions /\ e.key \in Keys
BY DEF Event, Times

(* The order of a replay holds every position of the file once, by time.   *)
LEMMA OrderSorted ==
    ASSUME NEW log \in Seq(Event)
    PROVE  \A k \in 0 .. Len(log) : Sorted(log, OrderOf(log)[k], k)
<1>. DEFINE n == Len(log)
            f == OrderOf(log)
            Good == {k \in Nat : k <= n => Sorted(log, f[k], k)}
<1>0. n \in Nat /\ \A k \in 1 .. n : log[k] \in Event /\ log[k].at \in Nat
  <2>1. n \in Nat /\ \A k \in 1 .. n : log[k] \in Event
    OBVIOUS
  <2>. QED  BY <2>1, EventTimes
<1>1. f[0] = <<>> /\ \A k \in 1 .. n : f[k] = Inserted(log, f[k - 1], k)
  BY OrderIs
<1>. HIDE DEF f
<1>2. 0 \in Good
  <2>1. 1 .. 0 = {}
    OBVIOUS
  <2>2. <<>> \in [1 .. 0 -> 1 .. 0]
    BY <2>1
  <2>3. Sorted(log, f[0], 0)
    BY <1>1, <2>1, <2>2 DEF Sorted
  <2>. QED  BY <2>3
<1>3. ASSUME NEW k \in Nat, k \in Good PROVE k + 1 \in Good
  <2>1. SUFFICES ASSUME k + 1 <= n PROVE Sorted(log, f[k + 1], k + 1)
    OBVIOUS
  <2>2. Sorted(log, f[k], k) /\ (k + 1) - 1 = k /\ k + 1 \in Nat \ {0} /\ k + 1 \in 1 .. n
    BY <1>0, <1>3, <2>1
  <2>3. \A j \in 1 .. k + 1 : log[j].at \in Nat
    BY <1>0, <2>1
  <2>4. \A o : Sorted(log, o, (k + 1) - 1) => Sorted(log, Inserted(log, o, k + 1), k + 1)
    BY <2>2, <2>3, InsertedSorts
  <2>5. f[k + 1] = Inserted(log, f[k], k + 1)
    BY <1>1, <2>2
  <2>. QED  BY <2>2, <2>4, <2>5
<1>. HIDE DEF Good
<1>4. Nat \subseteq Good
  BY <1>2, <1>3, NatInduct
<1>. QED  BY <1>0, <1>4 DEF Good, f

(* A replay takes every position of the file once, by time, and in file    *)
(* order where times are equal.                                            *)
LEMMA ReplaySorted ==
    ASSUME NEW log \in Seq(Event)
    PROVE  /\ Sorted(log, ReplayOrder(log), Len(log))
           /\ \A m \in 1 .. Len(log) : ReplayOrder(log)[m] \in 1 .. Len(log)
<1>1. Len(log) \in Nat /\ Len(log) \in 0 .. Len(log)
  OBVIOUS
<1>2. Sorted(log, ReplayOrder(log), Len(log))
  BY <1>1, OrderIs, OrderSorted
<1>. QED  BY <1>2 DEF Sorted

(* A new event goes to one place; the others keep their order.             *)
LEMMA OrderGrows ==
    ASSUME NEW log \in Seq(Event), NEW e \in Event
    PROVE  \E p \in 1 .. Len(log) + 1 :
             PutAt(Append(log, e), ReplayOrder(log), ReplayOrder(Append(log, e)), Len(log) + 1, p)
<1>. DEFINE new == Append(log, e)
            n == Len(log)
            f == OrderOf(log)
            g == OrderOf(new)
            Good == {k \in Nat : k <= n => g[k] = f[k]}
<1>0. /\ n \in Nat /\ new \in Seq(Event) /\ Len(new) = n + 1
      /\ \A k \in 1 .. n : new[k] = log[k]
      /\ \A k \in 1 .. n + 1 : new[k] \in Event /\ new[k].at \in Nat
  <2>1. new \in Seq(Event) /\ Len(new) = n + 1
    OBVIOUS
  <2>2. \A k \in 1 .. n : new[k] = log[k]
    OBVIOUS
  <2>. HIDE DEF new
  <2>3. \A k \in 1 .. n + 1 : new[k] \in Event
    BY <2>1
  <2>. QED  BY <2>1, <2>2, <2>3, EventTimes
<1>. HIDE DEF new
<1>1. f[0] = <<>> /\ \A k \in 1 .. n : f[k] = Inserted(log, f[k - 1], k)
  BY OrderIs
<1>2. g[0] = <<>> /\ \A k \in 1 .. n + 1 : g[k] = Inserted(new, g[k - 1], k)
  BY <1>0, OrderIs
<1>3. \A k \in 0 .. n : Sorted(log, f[k], k)
  BY OrderSorted
<1>4. \A k \in 0 .. n + 1 : Sorted(new, g[k], k)
  BY <1>0, OrderSorted
<1>5. ReplayOrder(log) = f[n] /\ ReplayOrder(new) = g[n + 1]
  BY <1>0, OrderIs
<1>. HIDE DEF f, g
<1>6. ASSUME NEW k \in Nat, k + 1 <= n
      PROVE  Inserted(new, f[k], k + 1) = Inserted(log, f[k], k + 1)
  <2>. DEFINE o == f[k]
  <2>1. DOMAIN o = 1 .. k /\ \A m \in 1 .. k : o[m] \in 1 .. k
    BY <1>0, <1>3, <1>6 DEF Sorted
  <2>2. \A m \in DOMAIN o : new[o[m]] = log[o[m]]
    <3>1. \A j \in 1 .. k : j \in 1 .. n
      BY <1>0, <1>6
    <3>. HIDE DEF o
    <3>. QED  BY <1>0, <2>1, <3>1
  <2>3. new[k + 1] = log[k + 1]
    BY <1>0, <1>6
  <2>. HIDE DEF o
  <2>4. {m \in DOMAIN o : new[o[m]].at <= new[k + 1].at}
          = {m \in DOMAIN o : log[o[m]].at <= log[k + 1].at}
    BY <2>2, <2>3
  <2>5. Inserted(new, o, k + 1) = Inserted(log, o, k + 1)
    BY <2>4 DEF Inserted
  <2>. QED  BY <2>5 DEF o
<1>7. 0 \in Good
  BY <1>1, <1>2
<1>8. ASSUME NEW k \in Nat, k \in Good PROVE k + 1 \in Good
  <2>1. SUFFICES ASSUME k + 1 <= n PROVE g[k + 1] = f[k + 1]
    OBVIOUS
  <2>2. g[k] = f[k] /\ (k + 1) - 1 = k /\ k + 1 \in 1 .. n /\ k + 1 \in 1 .. n + 1
    BY <1>0, <1>8, <2>1
  <2>3. g[k + 1] = Inserted(new, f[k], k + 1) /\ f[k + 1] = Inserted(log, f[k], k + 1)
    BY <1>1, <1>2, <2>2
  <2>. QED  BY <1>6, <2>1, <2>3
<1>. HIDE DEF Good
<1>9. Nat \subseteq Good
  BY <1>7, <1>8, NatInduct
<1>10. g[n] = f[n]
  BY <1>0, <1>9 DEF Good
<1>11. /\ n + 1 \in Nat \ {0} /\ (n + 1) - 1 = n /\ n \in 0 .. n + 1 /\ n + 1 \in 1 .. n + 1
       /\ Sorted(new, f[n], (n + 1) - 1)
  BY <1>0, <1>4, <1>10
<1>12. \E p \in 1 .. n + 1 : PutAt(new, f[n], Inserted(new, f[n], n + 1), n + 1, p)
  BY <1>0, <1>11, InsertedSorts
<1>13. g[n + 1] = Inserted(new, f[n], n + 1)
  BY <1>2, <1>10, <1>11
<1>. QED  BY <1>5, <1>12, <1>13 DEF new

-----------------------------------------------------------------------------
(* The replay, turn by turn.                                               *)

Replayed(log, n, r) ==
    r = [m \in 0 .. n |->
           IF m = 0 THEN NothingReplayed ELSE Turn(log, r[m - 1], ReplayOrder(log)[m])]

RunOf(log) == CHOOSE r : Replayed(log, Len(log), r)

(* The recursive function Reconstruct is made of exists.                   *)
LEMMA ReplaysExist == \A log : \A n \in Nat : \E r : Replayed(log, n, r)
<1>. SUFFICES ASSUME NEW log PROVE \A n \in Nat : \E r : Replayed(log, n, r)
  OBVIOUS
<1>. DEFINE Good == {n \in Nat : \E r : Replayed(log, n, r)}
            order == ReplayOrder(log)
<1>. HIDE DEF order
<1>1. 0 \in Good
  <2>. DEFINE f == [k \in 0 .. 0 |-> NothingReplayed]
  <2>1. f = [k \in 0 .. 0 |-> IF k = 0 THEN NothingReplayed ELSE Turn(log, f[k - 1], order[k])]
    <3>1. \A k \in 0 .. 0 : k = 0
      OBVIOUS
    <3>. QED  BY <3>1
  <2>. HIDE DEF f
  <2>2. Replayed(log, 0, f)
    BY <2>1 DEF Replayed, order
  <2>. QED  BY <2>2
<1>2. ASSUME NEW n \in Nat, n \in Good
      PROVE  n + 1 \in Good
  <2>1. PICK f : Replayed(log, n, f)
    BY <1>2
  <2>2. /\ DOMAIN f = 0 .. n
        /\ \A k \in 0 .. n : f[k] = IF k = 0 THEN NothingReplayed ELSE Turn(log, f[k - 1], order[k])
    <3>. DEFINE h == [k \in 0 .. n |-> IF k = 0 THEN NothingReplayed ELSE Turn(log, f[k - 1], order[k])]
    <3>1. f = h
      BY <2>1 DEF Replayed, order
    <3>2. /\ DOMAIN h = 0 .. n
          /\ \A k \in 0 .. n : h[k] = IF k = 0 THEN NothingReplayed ELSE Turn(log, f[k - 1], order[k])
      OBVIOUS
    <3>. HIDE DEF h
    <3>. QED  BY <3>1, <3>2
  <2>. DEFINE g == [k \in 0 .. n + 1 |-> IF k <= n THEN f[k] ELSE Turn(log, f[n], order[n + 1])]
  <2>3. DOMAIN g = 0 .. n + 1 /\ g[n + 1] = Turn(log, f[n], order[n + 1])
        /\ \A k \in 0 .. n : g[k] = f[k]
    OBVIOUS
  <2>4. \A k \in 0 .. n + 1 : g[k] = IF k = 0 THEN NothingReplayed ELSE Turn(log, g[k - 1], order[k])
    <3>. HIDE DEF g
    <3>1. SUFFICES ASSUME NEW k \in 0 .. n + 1
          PROVE  g[k] = IF k = 0 THEN NothingReplayed ELSE Turn(log, g[k - 1], order[k])
      OBVIOUS
    <3>2. CASE k = n + 1
      <4>1. k - 1 = n /\ k # 0 /\ g[n] = f[n]
        BY <2>3, <3>2
      <4>. QED  BY <2>3, <3>2, <4>1
    <3>3. CASE k # n + 1
      <4>1. k \in 0 .. n /\ (k # 0 => k - 1 \in 0 .. n)
        BY <3>3
      <4>. QED  BY <2>2, <2>3, <4>1
    <3>. QED  BY <3>2, <3>3
  <2>5. g = [k \in 0 .. n + 1 |-> g[k]]
    OBVIOUS
  <2>. HIDE DEF g
  <2>6. g = [k \in 0 .. n + 1 |-> IF k = 0 THEN NothingReplayed ELSE Turn(log, g[k - 1], order[k])]
    BY <2>4, <2>5
  <2>7. Replayed(log, n + 1, g)
    BY <2>6 DEF Replayed, order
  <2>. QED  BY <2>7
<1>. HIDE DEF Good
<1>3. Nat \subseteq Good
  BY <1>1, <1>2, NatInduct
<1>. QED  BY <1>3 DEF Good

(* Reconstruct, turn by turn.                                              *)
LEMMA RunIs ==
    ASSUME NEW log \in Seq(Event)
    PROVE  /\ Reconstruct(log) = RunOf(log)[Len(log)]
           /\ RunOf(log)[0] = NothingReplayed
           /\ \A k \in 1 .. Len(log) :
                RunOf(log)[k] = Turn(log, RunOf(log)[k - 1], ReplayOrder(log)[k])
<1>. DEFINE f == RunOf(log)
            n == Len(log)
            order == ReplayOrder(log)
<1>1. Replayed(log, n, f)
  BY ReplaysExist DEF RunOf
<1>. HIDE DEF order
<1>2. Reconstruct(log) = f[n]
  BY DEF Reconstruct, RunOf, Replayed, order
<1>3. \A k \in 0 .. n : f[k] = IF k = 0 THEN NothingReplayed ELSE Turn(log, f[k - 1], order[k])
  <2>1. f = [k \in 0 .. n |-> IF k = 0 THEN NothingReplayed ELSE Turn(log, f[k - 1], order[k])]
    BY <1>1 DEF Replayed, order
  <2>. HIDE DEF f
  <2>. QED  BY <2>1
<1>. HIDE DEF f
<1>4. n \in Nat
  OBVIOUS
<1>. QED  BY <1>2, <1>3, <1>4 DEF f, order

-----------------------------------------------------------------------------
(* How far an intervention has come: no event takes it back.               *)

Level(s) ==
    IF s.state = "UNDEFINED" THEN 0
    ELSE IF s.state = "RECOMMENDED" THEN 1
    ELSE IF s.state = "APPROVED" THEN 2
    ELSE IF s.state \in {"ACTIVE", "PAUSED"} THEN 3 ELSE 4

\* What an event leaves of a snapshot, accepted or not.
After(s, e) == IF Rejected(s, e) THEN s ELSE Applied(s, e)

\* From which level an event is accepted, and the level it leads to.
Moves(type, from, to) ==
    /\ type = "define" => from = 0 /\ to = 1
    /\ type = "checkpoint" => from = to /\ from # 0
    /\ type = "approve" => from = 1 /\ to = 2
    /\ type = "start" => from = 2 /\ to = 3
    /\ type \in {"pause", "resume"} => from = 3 /\ to = 3
    /\ type \in {"complete", "fail"} => from = 3 /\ to = 4
    /\ type \in {"reject", "expire"} => from \in {1, 2} /\ to = 4
    /\ type = "cancel" => from \in {2, 3} /\ to = 4
    /\ type \in {"outcome_pending", "evaluate"} => from = 4 /\ to = 4

(* An accepted event moves the level as Moves has it.                      *)
LEMMA AcceptedMoves ==
    ASSUME NEW s \in Snapshot, NEW e \in Event, ~Rejected(s, e)
    PROVE  /\ Moves(e.type, Level(s), Level(Applied(s, e)))
           /\ Applied(s, e).key = e.key /\ Applied(s, e).updated = e.at
           /\ Level(s) # 0 => s.key = e.key
<1>. DEFINE t == Applied(s, e)
<1>0. e.type \in Transitions \cup {"define", "checkpoint"}
  BY DEF Event
<1>1. CASE e.type = "define"
  <2>1. t.state = "RECOMMENDED" /\ t.key = e.key /\ t.updated = e.at
    BY <1>1 DEF Applied, Defined, Undefined
  <2>2. s.state = "UNDEFINED"
    BY <1>1 DEF Rejected
  <2>. HIDE DEF t
  <2>3. Moves(e.type, Level(s), Level(t))
    BY <1>1, <2>1, <2>2 DEF Moves, Level
  <2>. QED  BY <2>1, <2>2, <2>3 DEF Level, t
<1>2. CASE e.type = "checkpoint"
  <2>1. t.state = s.state /\ t.key = s.key /\ t.updated = e.at
    BY <1>2 DEF Applied, Snapshot
  <2>2. s.state # "UNDEFINED" /\ s.key = e.key
    BY <1>2 DEF Rejected
  <2>. HIDE DEF t
  <2>3. Moves(e.type, Level(s), Level(t))
    BY <1>2, <2>1, <2>2 DEF Moves, Level
  <2>. QED  BY <2>1, <2>2, <2>3 DEF t
<1>3. CASE e.type \in Transitions
  <2>1. t.state = Target(e.type) /\ t.key = s.key /\ t.updated = e.at
    BY <1>3 DEF Applied, Transitioned, Snapshot, Transitions
  <2>2. s.state \in Sources(e.type) /\ s.key = e.key
    BY <1>3 DEF Rejected, Transitions
  <2>. HIDE DEF t
  <2>3. Moves(e.type, Level(s), Level(t))
    <3>1. CASE e.type \in {"approve", "start", "pause", "resume", "complete", "fail"}
      BY <3>1, <2>1, <2>2, TransitionTable DEF Moves, Level
    <3>2. CASE e.type \in {"reject", "expire", "cancel", "outcome_pending", "evaluate"}
      BY <3>2, <2>1, <2>2, TransitionTable DEF Moves, Level
    <3>. QED  BY <1>3, <3>1, <3>2 DEF Transitions
  <2>. QED  BY <2>1, <2>2, <2>3 DEF t
<1>. QED  BY <1>0, <1>1, <1>2, <1>3

(* The levels, and the states they stand for.                              *)
LEMMA LevelRange ==
    \A s : /\ Level(s) \in 0 .. 4
           /\ Level(s) = 0 <=> s.state = "UNDEFINED"
           /\ Level(s) = 1 <=> s.state = "RECOMMENDED"
           /\ Level(s) = 2 <=> s.state = "APPROVED"
           /\ Level(s) = 3 <=> s.state \in {"ACTIVE", "PAUSED"}
BY DEF Level

(* No event takes an intervention to a lower level.                        *)
LEMMA NoWayBack ==
    ASSUME NEW s \in Snapshot, NEW e \in Event
    PROVE  Level(s) <= Level(After(s, e))
<1>1. CASE Rejected(s, e)
  BY <1>1, LevelRange DEF After
<1>2. CASE ~Rejected(s, e)
  <2>. DEFINE l == Level(s)
              m == Level(Applied(s, e))
  <2>1. Moves(e.type, l, m) /\ l \in 0 .. 4 /\ m \in 0 .. 4
    BY <1>2, AcceptedMoves, LevelRange
  <2>. HIDE DEF l, m
  <2>2. l <= m
    BY <2>1 DEF Moves, Event, Transitions
  <2>. QED  BY <1>2, <2>2 DEF After, l, m
<1>. QED  BY <1>1, <1>2

(* A snapshot that is ahead of another one stays ahead of it, whatever     *)
(* event both are given, but for the two events that end an approval.      *)
LEMMA StaysAhead ==
    ASSUME NEW s \in Snapshot, NEW t \in Snapshot, NEW e \in Event,
           Level(s) <= Level(t), Level(s) # 0 => t.key = s.key,
           e.type \notin {"reject", "expire"}
    PROVE  Level(After(s, e)) <= Level(After(t, e))
<1>0. /\ Level(s) \in 0 .. 4 /\ Level(t) \in 0 .. 4
      /\ Level(After(s, e)) \in 0 .. 4 /\ Level(After(t, e)) \in 0 .. 4
  BY LevelRange
<1>1. Level(t) <= Level(After(t, e))
  BY NoWayBack
<1>2. CASE Rejected(s, e)
  BY <1>0, <1>1, <1>2 DEF After
<1>3. CASE ~Rejected(s, e) /\ Level(After(s, e)) <= Level(t)
  BY <1>0, <1>1, <1>3
<1>4. CASE ~Rejected(s, e) /\ ~(Level(After(s, e)) <= Level(t))
  <2>. DEFINE l == Level(s)
              m == Level(Applied(s, e))
              k == Level(t)
  <2>1. /\ Moves(e.type, l, m) /\ (l # 0 => s.key = e.key)
        /\ l \in 0 .. 4 /\ m \in 0 .. 4 /\ k \in 0 .. 4 /\ l <= k /\ k < m
    BY <1>0, <1>4, AcceptedMoves, LevelRange DEF After
  <2>2. ~Rejected(t, e)
    <3>1. k = 0 <=> t.state = "UNDEFINED"
      BY LevelRange
    <3>2. k = 1 <=> t.state = "RECOMMENDED"
      BY LevelRange
    <3>3. k = 2 <=> t.state = "APPROVED"
      BY LevelRange
    <3>4. k = 3 <=> t.state \in {"ACTIVE", "PAUSED"}
      BY LevelRange
    <3>5. l # 0 => t.key = e.key
      BY <2>1
    <3>6. e.type # "define" => e.agrees
      BY <1>4 DEF Rejected
    <3>. HIDE DEF l, m, k
    <3>7. \/ e.type = "define" /\ k = 0
          \/ e.type = "approve" /\ k = 1 /\ l # 0
          \/ e.type = "start" /\ k = 2 /\ l # 0
          \/ e.type \in {"complete", "fail"} /\ k = 3 /\ l # 0
          \/ e.type = "cancel" /\ k \in {2, 3} /\ l # 0
      BY <2>1 DEF Moves, Event, Transitions
    <3>8. CASE e.type = "define"
      BY <3>1, <3>7, <3>8 DEF Rejected, Transitions
    <3>9. CASE e.type = "approve"
      BY <3>2, <3>5, <3>6, <3>7, <3>9, TransitionTable DEF Rejected, Transitions
    <3>10. CASE e.type = "start"
      BY <3>3, <3>5, <3>6, <3>7, <3>10, TransitionTable DEF Rejected, Transitions
    <3>11. CASE e.type \in {"complete", "fail"}
      BY <3>4, <3>5, <3>6, <3>7, <3>11, TransitionTable DEF Rejected, Transitions
    <3>12. CASE e.type = "cancel"
      BY <3>3, <3>4, <3>5, <3>6, <3>7, <3>12, TransitionTable DEF Rejected, Transitions
    <3>. QED  BY <3>7, <3>8, <3>9, <3>10, <3>11, <3>12
  <2>. DEFINE j == Level(Applied(t, e))
  <2>3. Moves(e.type, k, j)
    BY <2>2, AcceptedMoves
  <2>4. m <= j
    <3>. HIDE DEF l, m, k, j
    <3>. QED  BY <2>1, <2>3 DEF Moves, Event, Transitions
  <2>. QED  BY <1>4, <2>2, <2>4 DEF After
<1>. QED  BY <1>2, <1>3, <1>4

\* What a turn with the event e at position n does to a replay.
TurnsTo(e, n, r, t) ==
    /\ t.snapshots[e.id] = After(r.snapshots[e.id], e)
    /\ \A i \in Interventions \ {e.id} : t.snapshots[i] = r.snapshots[i]
    /\ t.snapshots \in [Interventions -> Snapshot]
    /\ t.accepted = IF Rejected(r.snapshots[e.id], e) THEN r.accepted ELSE r.accepted \cup {n}

(* A turn changes the snapshot of the intervention of its event and        *)
(* nothing else.                                                           *)
LEMMA TurnIs ==
    ASSUME NEW log, NEW n, log[n] \in Event,
           NEW r, r.snapshots \in [Interventions -> Snapshot]
    PROVE  TurnsTo(log[n], n, r, Turn(log, r, n))
<1>. DEFINE e == log[n]
            s == r.snapshots[e.id]
            t == Turn(log, r, n)
<1>1. e \in Event /\ e.id \in Interventions /\ s \in Snapshot
  BY EventTimes
<1>2. After(s, e) \in Snapshot
  BY <1>1, AppliedType DEF After
<1>3. t.snapshots = [r.snapshots EXCEPT ![e.id] = After(@, e)]
  <2>1. CASE Rejected(s, e)
    BY <1>1, <2>1 DEF Turn, After
  <2>2. CASE ~Rejected(s, e)
    BY <1>1, <2>2 DEF Turn, After
  <2>. QED  BY <2>1, <2>2
<1>4. t.accepted = IF Rejected(s, e) THEN r.accepted ELSE r.accepted \cup {n}
  BY DEF Turn
<1>. HIDE DEF t, e
<1>5. t.snapshots[e.id] = After(s, e) /\ t.snapshots \in [Interventions -> Snapshot]
  BY <1>1, <1>2, <1>3
<1>6. \A i \in Interventions \ {e.id} : t.snapshots[i] = r.snapshots[i]
  BY <1>1, <1>3
<1>. QED  BY <1>4, <1>5, <1>6 DEF t, e, TurnsTo

-----------------------------------------------------------------------------
(* What the turns of a replay keep.                                        *)

Snaps(log, m) == RunOf(log)[m].snapshots
EventOf(log, m) == log[ReplayOrder(log)[m]]

SnapshotsSound(log, m) ==
    /\ Snaps(log, m) \in [Interventions -> Snapshot]
    /\ \A i \in Interventions :
         /\ Coherent(Snaps(log, m)[i])
         /\ \A k \in m + 1 .. Len(log) : Snaps(log, m)[i].updated <= EventOf(log, k).at

(* The events of the turns are events, by time.                            *)
LEMMA TurnEvents ==
    ASSUME NEW log \in Seq(Event)
    PROVE  /\ Len(log) \in Nat
           /\ \A k \in 1 .. Len(log) : log[k] \in Event /\ EventOf(log, k) \in Event
           /\ \A j, k \in 1 .. Len(log) : j < k => EventOf(log, j).at <= EventOf(log, k).at
<1>1. \A k \in 1 .. Len(log) : log[k] \in Event
  OBVIOUS
<1>2. \A k \in 1 .. Len(log) : EventOf(log, k) \in Event
  BY <1>1, ReplaySorted DEF EventOf
<1>3. ASSUME NEW j \in 1 .. Len(log), NEW k \in 1 .. Len(log), j < k
      PROVE  EventOf(log, j).at <= EventOf(log, k).at
  <2>1. Before(log, ReplayOrder(log)[j], ReplayOrder(log)[k])
    BY <1>3, ReplaySorted DEF Sorted
  <2>2. EventOf(log, j).at \in Nat /\ EventOf(log, k).at \in Nat
    BY <1>2, EventTimes
  <2>. QED  BY <2>1, <2>2 DEF Before, EventOf
<1>. QED  BY <1>1, <1>2, <1>3

(* A turn of Reconstruct changes what TurnIs says.                         *)
LEMMA TurnOf ==
    ASSUME NEW log \in Seq(Event), NEW k \in 1 .. Len(log),
           Snaps(log, k - 1) \in [Interventions -> Snapshot]
    PROVE  TurnsTo(EventOf(log, k), ReplayOrder(log)[k], RunOf(log)[k - 1], RunOf(log)[k])
<1>1. RunOf(log)[k] = Turn(log, RunOf(log)[k - 1], ReplayOrder(log)[k])
  BY RunIs
<1>2. log[ReplayOrder(log)[k]] \in Event
  BY TurnEvents DEF EventOf
<1>3. TurnsTo(log[ReplayOrder(log)[k]], ReplayOrder(log)[k], RunOf(log)[k - 1],
              Turn(log, RunOf(log)[k - 1], ReplayOrder(log)[k]))
  BY <1>2, TurnIs DEF Snaps
<1>. QED  BY <1>1, <1>3 DEF EventOf

(* The same with the turns counted from 0.                                 *)
LEMMA NextTurn ==
    ASSUME NEW log \in Seq(Event), NEW k \in Nat, k + 1 <= Len(log),
           Snaps(log, k) \in [Interventions -> Snapshot]
    PROVE  LET e == EventOf(log, k + 1) IN
           /\ Snaps(log, k + 1)[e.id] = After(Snaps(log, k)[e.id], e)
           /\ \A i \in Interventions \ {e.id} : Snaps(log, k + 1)[i] = Snaps(log, k)[i]
           /\ Snaps(log, k + 1) \in [Interventions -> Snapshot]
           /\ RunOf(log)[k + 1].accepted =
                IF Rejected(Snaps(log, k)[e.id], e) THEN RunOf(log)[k].accepted
                ELSE RunOf(log)[k].accepted \cup {ReplayOrder(log)[k + 1]}
<1>. DEFINE j == k + 1
<1>1. j \in 1 .. Len(log) /\ j - 1 = k
  OBVIOUS
<1>. HIDE DEF j
<1>2. Snaps(log, j - 1) \in [Interventions -> Snapshot]
  BY <1>1
<1>3. TurnsTo(EventOf(log, j), ReplayOrder(log)[j], RunOf(log)[j - 1], RunOf(log)[j])
  BY <1>1, <1>2, TurnOf
<1>4. TurnsTo(EventOf(log, j), ReplayOrder(log)[j], RunOf(log)[k], RunOf(log)[j])
  BY <1>1, <1>3
<1>. QED  BY <1>4 DEF j, TurnsTo, Snaps

(* After every turn the snapshots are typed and coherent, and none is      *)
(* later than the events to come.                                          *)
LEMMA RunIsSound ==
    ASSUME NEW log \in Seq(Event)
    PROVE  \A m \in 0 .. Len(log) : SnapshotsSound(log, m)
<1>. DEFINE n == Len(log)
            Good == {m \in Nat : m <= n => SnapshotsSound(log, m)}
<1>0. n \in Nat
  OBVIOUS
<1>1. 0 \in Good
  <2>1. Snaps(log, 0) = [i \in Interventions |-> Undefined]
    BY RunIs DEF Snaps, NothingReplayed
  <2>2. Undefined \in Snapshot /\ Coherent(Undefined) /\ Undefined.updated = 0
    BY DEF Undefined, Snapshot, Coherent
  <2>3. \A k \in 0 + 1 .. n : EventOf(log, k).at \in Nat
    BY TurnEvents, EventTimes
  <2>4. SnapshotsSound(log, 0)
    BY <2>1, <2>2, <2>3 DEF SnapshotsSound
  <2>. QED  BY <2>4
<1>2. ASSUME NEW k \in Nat, k \in Good PROVE k + 1 \in Good
  <2>1. SUFFICES ASSUME k + 1 <= n PROVE SnapshotsSound(log, k + 1)
    OBVIOUS
  <2>. DEFINE e == EventOf(log, k + 1)
              old == Snaps(log, k)
              new == Snaps(log, k + 1)
  <2>2. k + 1 \in 1 .. n /\ (k + 1) - 1 = k /\ SnapshotsSound(log, k)
    BY <1>0, <1>2, <2>1
  <2>3. e \in Event /\ e.id \in Interventions /\ e.at \in Nat
    BY <2>2, TurnEvents, EventTimes
  <2>4. old \in [Interventions -> Snapshot]
    BY <2>2 DEF SnapshotsSound
  <2>5. /\ new[e.id] = After(old[e.id], e)
        /\ \A i \in Interventions \ {e.id} : new[i] = old[i]
        /\ new \in [Interventions -> Snapshot]
    BY <2>1, <2>4, NextTurn
  <2>6. old[e.id].updated <= e.at /\ Coherent(old[e.id])
    BY <2>2, <2>3 DEF SnapshotsSound
  <2>7. \A i \in Interventions : \A j \in k + 2 .. n : old[i].updated <= EventOf(log, j).at
    BY <1>0, <2>1, <2>2 DEF SnapshotsSound
  <2>8. \A j \in k + 2 .. n : e.at <= EventOf(log, j).at
    BY <1>0, <2>2, TurnEvents
  <2>. HIDE DEF e, old, new
  <2>9. Coherent(new[e.id]) /\ \A j \in k + 2 .. n : new[e.id].updated <= EventOf(log, j).at
    <3>1. old[e.id] \in Snapshot
      BY <2>3, <2>4
    <3>2. CASE Rejected(old[e.id], e)
      BY <2>3, <2>5, <2>6, <2>7, <3>2 DEF After
    <3>3. CASE ~Rejected(old[e.id], e)
      <4>1. Coherent(new[e.id]) /\ new[e.id].updated = e.at
        BY <2>3, <2>5, <2>6, <3>1, <3>3, AppliedCoherent DEF After
      <4>. QED  BY <2>8, <4>1
    <3>. QED  BY <3>2, <3>3
  <2>10. \A i \in Interventions :
           Coherent(new[i]) /\ \A j \in k + 2 .. n : new[i].updated <= EventOf(log, j).at
    <3>1. \A i \in Interventions : Coherent(old[i])
      BY <2>2 DEF SnapshotsSound, old
    <3>. QED  BY <2>5, <2>7, <2>9, <3>1
  <2>11. (k + 1) + 1 = k + 2
    OBVIOUS
  <2>. QED  BY <2>5, <2>10, <2>11 DEF SnapshotsSound, new
<1>. HIDE DEF Good
<1>3. Nat \subseteq Good
  BY <1>1, <1>2, NatInduct
<1>. QED  BY <1>0, <1>3 DEF Good

(* The snapshots of a replay are typed and coherent, those of SnapshotOf   *)
(* among them.                                                             *)
LEMMA RunIsTyped ==
    ASSUME NEW log \in Seq(Event)
    PROVE  /\ \A m \in 0 .. Len(log) : Snaps(log, m) \in [Interventions -> Snapshot]
           /\ \A i \in Interventions : SnapshotOf(log, i) = Snaps(log, Len(log))[i]
           /\ \A i \in Interventions : SnapshotOf(log, i) \in Snapshot
           /\ \A i \in Interventions : Coherent(SnapshotOf(log, i))
<1>1. Len(log) \in 0 .. Len(log)
  OBVIOUS
<1>2. Reconstruct(log).snapshots = Snaps(log, Len(log))
  BY RunIs DEF Snaps
<1>3. \A m \in 0 .. Len(log) : Snaps(log, m) \in [Interventions -> Snapshot]
  BY RunIsSound DEF SnapshotsSound
<1>4. SnapshotsSound(log, Len(log))
  BY <1>1, RunIsSound
<1>. QED  BY <1>1, <1>2, <1>3, <1>4 DEF SnapshotOf, SnapshotsSound

-----------------------------------------------------------------------------
(* What is behind a snapshot: the events that created the intervention.    *)

Holds(log, n, type, i) == n \in 1 .. Len(log) /\ log[n].type = type /\ log[n].id = i

SnapshotsFounded(log, m) ==
    \A i \in Interventions :
        /\ Level(Snaps(log, m)[i]) # 0 =>
             \E n \in 1 .. Len(log) : Holds(log, n, "define", i) /\ log[n].key = Snaps(log, m)[i].key
        /\ Level(Snaps(log, m)[i]) \in {2, 3} => \E n \in 1 .. Len(log) : Holds(log, n, "approve", i)

(* A defined snapshot has its define event in the file, an active one its  *)
(* approve event.                                                          *)
LEMMA RunIsFounded ==
    ASSUME NEW log \in Seq(Event)
    PROVE  \A m \in 0 .. Len(log) : SnapshotsFounded(log, m)
<1>. DEFINE n == Len(log)
            Good == {m \in Nat : m <= n => SnapshotsFounded(log, m)}
<1>0. n \in Nat
  OBVIOUS
<1>1. 0 \in Good
  <2>1. Snaps(log, 0) = [i \in Interventions |-> Undefined]
    BY RunIs DEF Snaps, NothingReplayed
  <2>2. Level(Undefined) = 0 /\ ~ (0 \in {2, 3})
    BY DEF Undefined, Level
  <2>3. ASSUME NEW i \in Interventions PROVE Level(Snaps(log, 0)[i]) = 0
    <3>1. Snaps(log, 0)[i] = Undefined
      BY <2>1
    <3>. QED  BY <2>2, <3>1
  <2>4. SnapshotsFounded(log, 0)
    BY <2>2, <2>3 DEF SnapshotsFounded
  <2>. QED  BY <2>4
<1>2. ASSUME NEW k \in Nat, k \in Good PROVE k + 1 \in Good
  <2>1. SUFFICES ASSUME k + 1 <= n PROVE SnapshotsFounded(log, k + 1)
    OBVIOUS
  <2>. DEFINE e == EventOf(log, k + 1)
              old == Snaps(log, k)
              new == Snaps(log, k + 1)
              p == ReplayOrder(log)[k + 1]
  <2>2. k + 1 \in 1 .. n /\ (k + 1) - 1 = k /\ k \in 0 .. n /\ SnapshotsFounded(log, k)
    BY <1>0, <1>2, <2>1
  <2>3. e \in Event /\ e.id \in Interventions /\ p \in 1 .. n /\ e = log[p]
    BY <2>2, TurnEvents, EventTimes, ReplaySorted DEF EventOf
  <2>4. old \in [Interventions -> Snapshot]
    BY <2>2, RunIsTyped
  <2>5. /\ new[e.id] = After(old[e.id], e)
        /\ \A i \in Interventions \ {e.id} : new[i] = old[i]
    BY <2>1, <2>4, NextTurn
  <2>6. \A i \in Interventions :
        /\ Level(old[i]) # 0 =>
             \E q \in 1 .. n : Holds(log, q, "define", i) /\ log[q].key = old[i].key
        /\ Level(old[i]) \in {2, 3} => \E q \in 1 .. n : Holds(log, q, "approve", i)
    BY <2>2 DEF SnapshotsFounded
  <2>7. old[e.id] \in Snapshot
    BY <2>3, <2>4
  <2>. HIDE DEF e, old, new, p
  <2>. DEFINE s == old[e.id]
              t == new[e.id]
  <2>8. /\ Level(t) # 0 =>
             \E q \in 1 .. n : Holds(log, q, "define", e.id) /\ log[q].key = t.key
        /\ Level(t) \in {2, 3} => \E q \in 1 .. n : Holds(log, q, "approve", e.id)
    <3>1. CASE Rejected(s, e)
      BY <2>3, <2>5, <2>6, <3>1 DEF After
    <3>2. CASE ~Rejected(s, e)
      <4>1. /\ Moves(e.type, Level(s), Level(t)) /\ t.key = e.key
            /\ Level(s) # 0 => s.key = e.key
        BY <2>3, <2>5, <2>7, <3>2, AcceptedMoves DEF After
      <4>2. e.type = "define" \/ Level(s) # 0
        BY <2>3, <4>1 DEF Moves, Event, Transitions
      <4>3. Level(t) \in {2, 3} => Level(s) \in {2, 3} \/ e.type = "approve"
        BY <2>3, <4>1 DEF Moves, Event, Transitions
      <4>4. e.type = "define" => Holds(log, p, "define", e.id) /\ log[p].key = t.key
        BY <2>3, <4>1 DEF Holds
      <4>5. e.type = "approve" => Holds(log, p, "approve", e.id)
        BY <2>3 DEF Holds
      <4>6. Level(s) # 0 => t.key = s.key
        BY <4>1
      <4>. HIDE DEF s, t
      <4>7. \E q \in 1 .. n : Holds(log, q, "define", e.id) /\ log[q].key = t.key
        <5>1. CASE e.type = "define"
          BY <2>3, <4>4, <5>1
        <5>2. CASE Level(s) # 0
          BY <2>3, <2>6, <4>6, <5>2 DEF s
        <5>. QED  BY <4>2, <5>1, <5>2
      <4>8. Level(t) \in {2, 3} => \E q \in 1 .. n : Holds(log, q, "approve", e.id)
        BY <2>3, <2>6, <4>3, <4>5 DEF s
      <4>. QED  BY <4>7, <4>8
    <3>. QED  BY <3>1, <3>2
  <2>9. \A i \in Interventions :
        /\ Level(new[i]) # 0 =>
             \E q \in 1 .. n : Holds(log, q, "define", i) /\ log[q].key = new[i].key
        /\ Level(new[i]) \in {2, 3} => \E q \in 1 .. n : Holds(log, q, "approve", i)
    BY <2>5, <2>6, <2>8
  <2>. QED  BY <2>9 DEF SnapshotsFounded, new
<1>. HIDE DEF Good
<1>3. Nat \subseteq Good
  BY <1>1, <1>2, NatInduct
<1>. QED  BY <1>0, <1>3 DEF Good

\* A file whose interventions were each created by one definition and at
\* most one approval, of one time, and never rejected or expired.
FileSound(log) ==
    /\ \A n \in 1 .. Len(log) : log[n].type \notin {"reject", "expire"}
    /\ \A type \in {"define", "approve"}, i \in Interventions, m, n \in 1 .. Len(log) :
         Holds(log, m, type, i) /\ Holds(log, n, type, i) => m = n
    /\ \A i \in Interventions, n \in 1 .. Len(log) : Holds(log, n, "approve", i) =>
         /\ log[n].agrees
         /\ \E d \in 1 .. Len(log) : /\ d < n /\ Holds(log, d, "define", i)
                                     /\ log[d].at = log[n].at /\ log[d].key = log[n].key

\* The creation events among the first m turns show in the snapshots.
CreationsShow(log, m) ==
    \A q \in 1 .. m : LET e == EventOf(log, q) IN
        /\ e.type = "define" => 1 <= Level(Snaps(log, m)[e.id])
        /\ e.type = "approve" => 2 <= Level(Snaps(log, m)[e.id])

(* The approval of a sound file is accepted when its turn comes: its       *)
(* definition has had its turn, and nothing but the approval leads out of  *)
(* RECOMMENDED.                                                            *)
LEMMA ApprovalAccepted ==
    ASSUME NEW log \in Seq(Event), FileSound(log), NEW k \in Nat, k + 1 <= Len(log),
           CreationsShow(log, k), EventOf(log, k + 1).type = "approve"
    PROVE  2 <= Level(Snaps(log, k + 1)[EventOf(log, k + 1).id])
<1>. DEFINE e == EventOf(log, k + 1)
            n == ReplayOrder(log)[k + 1]
            s == Snaps(log, k)[e.id]
            N == Len(log)
<1>0. /\ N \in Nat /\ k + 1 \in 1 .. N /\ k \in 0 .. N /\ n \in 1 .. N /\ e = log[n]
      /\ e \in Event /\ e.id \in Interventions
  <2>1. N \in Nat /\ k + 1 \in 1 .. N /\ k \in 0 .. N
    OBVIOUS
  <2>2. n \in 1 .. N /\ e \in Event
    BY <2>1, ReplaySorted, TurnEvents
  <2>. QED  BY <2>1, <2>2, EventTimes DEF EventOf
<1>1. Snaps(log, k) \in [Interventions -> Snapshot]
  BY <1>0, RunIsTyped
<1>2. s \in Snapshot /\ Snaps(log, k + 1)[e.id] = After(s, e)
  BY <1>0, <1>1, NextTurn
<1>. HIDE DEF e, n, s, N
<1>3. Holds(log, n, "approve", e.id)
  BY <1>0 DEF Holds, N, e
<1>4. PICK d \in 1 .. N : /\ d < n /\ Holds(log, d, "define", e.id)
                          /\ log[d].at = log[n].at /\ log[d].key = log[n].key
  BY <1>0, <1>3 DEF FileSound, N
<1>5. PICK q \in 1 .. N : ReplayOrder(log)[q] = d
  BY ReplaySorted DEF Sorted, N
<1>6. q < k + 1
  <2>1. q # k + 1
    BY <1>0, <1>4, <1>5 DEF n
  <2>2. ASSUME k + 1 < q PROVE FALSE
    <3>1. Before(log, n, d)
      BY <1>0, <1>5, <2>2, ReplaySorted DEF Sorted, N, n
    <3>2. log[n].at \in Nat /\ n \in Nat /\ d \in Nat
      BY <1>0, <1>4, EventTimes
    <3>. QED  BY <1>4, <3>1, <3>2 DEF Before
  <2>. QED  BY <1>0, <1>5, <2>1, <2>2
<1>7. EventOf(log, q) = log[d] /\ log[d].type = "define" /\ log[d].id = e.id
  BY <1>4, <1>5 DEF EventOf, Holds
<1>8. 1 <= Level(s)
  <2>1. q \in 1 .. k
    BY <1>0, <1>6
  <2>. QED  BY <1>7, <2>1 DEF CreationsShow, s
<1>9. s.key = e.key
  <2>1. SnapshotsFounded(log, k)
    BY <1>0, RunIsFounded
  <2>2. Level(s) # 0
    BY <1>8
  <2>3. PICK m \in 1 .. N : Holds(log, m, "define", e.id) /\ log[m].key = s.key
    BY <1>0, <2>1, <2>2 DEF SnapshotsFounded, s, N
  <2>4. m = d
    BY <1>0, <1>4, <2>3 DEF FileSound, N
  <2>. QED  BY <1>0, <1>4, <2>3, <2>4
<1>10. e.type = "approve" /\ e.agrees
  BY <1>0, <1>3 DEF FileSound, Holds, N
<1>11. Level(s) \in 0 .. 4 /\ Level(After(s, e)) \in 0 .. 4 /\ Level(s) <= Level(After(s, e))
  BY <1>0, <1>2, LevelRange, NoWayBack
<1>12. CASE Level(s) = 1
  <2>1. s.state = "RECOMMENDED"
    BY <1>12, LevelRange
  <2>2. ~Rejected(s, e)
    BY <1>9, <1>10, <2>1, TransitionTable DEF Rejected, Transitions
  <2>3. Moves("approve", Level(s), Level(After(s, e)))
    BY <1>0, <1>2, <1>10, <2>2, AcceptedMoves DEF After
  <2>4. Level(After(s, e)) = 2
    BY <2>3 DEF Moves
  <2>. QED  BY <1>2, <2>4 DEF e
<1>13. CASE Level(s) # 1
  <2>1. 2 <= Level(After(s, e))
    BY <1>8, <1>11, <1>13
  <2>. QED  BY <1>2, <2>1 DEF e
<1>. QED  BY <1>12, <1>13

(* After every turn the creation events so far show.                       *)
LEMMA CreationsShown ==
    ASSUME NEW log \in Seq(Event), FileSound(log)
    PROVE  \A m \in 0 .. Len(log) : CreationsShow(log, m)
<1>. DEFINE n == Len(log)
            Good == {m \in Nat : m <= n => CreationsShow(log, m)}
<1>0. n \in Nat
  OBVIOUS
<1>1. 0 \in Good
  BY DEF CreationsShow
<1>2. ASSUME NEW k \in Nat, k \in Good PROVE k + 1 \in Good
  <2>1. SUFFICES ASSUME k + 1 <= n PROVE CreationsShow(log, k + 1)
    OBVIOUS
  <2>. DEFINE e == EventOf(log, k + 1)
              old == Snaps(log, k)
              new == Snaps(log, k + 1)
  <2>2. CreationsShow(log, k) /\ k \in 0 .. n /\ k + 1 \in 1 .. n
    BY <1>0, <1>2, <2>1
  <2>3. e \in Event /\ e.id \in Interventions
    BY <2>2, TurnEvents, EventTimes
  <2>4. old \in [Interventions -> Snapshot]
    BY <2>2, RunIsTyped
  <2>5. /\ new[e.id] = After(old[e.id], e)
        /\ \A i \in Interventions \ {e.id} : new[i] = old[i]
    BY <2>1, <2>4, NextTurn
  <2>6. \A i \in Interventions : Level(old[i]) <= Level(new[i])
    <3>1. Level(old[e.id]) <= Level(new[e.id])
      BY <2>3, <2>4, <2>5, NoWayBack
    <3>2. ASSUME NEW i \in Interventions, i # e.id PROVE Level(old[i]) <= Level(new[i])
      <4>1. new[i] = old[i]
        BY <2>5, <3>2
      <4>2. Level(old[i]) \in Nat
        BY LevelRange
      <4>. QED  BY <4>1, <4>2
    <3>. QED  BY <3>1, <3>2
  <2>7. e.type = "define" => 1 <= Level(new[e.id])
    <3>1. SUFFICES ASSUME e.type = "define" PROVE 1 <= Level(new[e.id])
      OBVIOUS
    <3>. DEFINE s == old[e.id]
    <3>2. s \in Snapshot
      BY <2>3, <2>4
    <3>. HIDE DEF e, s
    <3>3. CASE Rejected(s, e)
      <4>1. s.state # "UNDEFINED"
        BY <3>1, <3>3 DEF Rejected, Transitions
      <4>2. Level(s) # 0 /\ Level(s) \in Nat /\ After(s, e) = s
        BY <3>3, <4>1, LevelRange DEF After
      <4>. QED  BY <2>5, <4>2 DEF s
    <3>4. CASE ~Rejected(s, e)
      <4>1. Moves("define", Level(s), Level(After(s, e)))
        BY <2>3, <3>1, <3>2, <3>4, AcceptedMoves DEF After
      <4>2. Level(After(s, e)) = 1
        BY <4>1 DEF Moves
      <4>. QED  BY <2>5, <4>2 DEF s
    <3>. QED  BY <3>3, <3>4
  <2>8. e.type = "approve" => 2 <= Level(new[e.id])
    BY <2>1, <2>2, ApprovalAccepted
  <2>9. ASSUME NEW q \in 1 .. k + 1
        PROVE  LET f == EventOf(log, q) IN
               /\ f.type = "define" => 1 <= Level(new[f.id])
               /\ f.type = "approve" => 2 <= Level(new[f.id])
    <3>1. CASE q = k + 1
      BY <2>7, <2>8, <3>1
    <3>2. CASE q # k + 1
      <4>. DEFINE f == EventOf(log, q)
      <4>1. q \in 1 .. k /\ q \in 1 .. n
        BY <1>0, <2>1, <3>2
      <4>2. f \in Event /\ f.id \in Interventions
        BY <4>1, TurnEvents, EventTimes
      <4>3. /\ f.type = "define" => 1 <= Level(old[f.id])
            /\ f.type = "approve" => 2 <= Level(old[f.id])
        BY <2>2, <4>1 DEF CreationsShow
      <4>4. Level(old[f.id]) <= Level(new[f.id]) /\ Level(old[f.id]) \in Nat /\ Level(new[f.id]) \in Nat
        BY <2>6, <4>2, LevelRange
      <4>. HIDE DEF f, old, new
      <4>. QED  BY <4>3, <4>4 DEF f
    <3>. QED  BY <3>1, <3>2
  <2>. QED  BY <2>9 DEF CreationsShow
<1>. HIDE DEF Good
<1>3. Nat \subseteq Good
  BY <1>1, <1>2, NatInduct
<1>. QED  BY <1>0, <1>3 DEF Good

(* A definition in a file is in its replay, under the key it gives; with   *)
(* the approval the intervention is approved or beyond.                    *)
LEMMA CreationHolds ==
    ASSUME NEW log \in Seq(Event), FileSound(log), NEW i \in Interventions,
           NEW n \in 1 .. Len(log)
    PROVE  /\ Holds(log, n, "define", i) =>
                1 <= Level(SnapshotOf(log, i)) /\ SnapshotOf(log, i).key = log[n].key
           /\ Holds(log, n, "approve", i) =>
                2 <= Level(SnapshotOf(log, i)) /\ SnapshotOf(log, i).key = log[n].key
<1>. DEFINE N == Len(log)
            s == SnapshotOf(log, i)
<1>0. N \in Nat /\ N \in 0 .. N
  OBVIOUS
<1>1. s = Snaps(log, N)[i]
  BY RunIsTyped
<1>2. PICK q \in 1 .. N : ReplayOrder(log)[q] = n
  BY ReplaySorted DEF Sorted
<1>3. CreationsShow(log, N) /\ SnapshotsFounded(log, N) /\ EventOf(log, q) = log[n]
  BY <1>0, <1>2, CreationsShown, RunIsFounded DEF EventOf
<1>. HIDE DEF N, s
<1>4. /\ Holds(log, n, "define", i) => 1 <= Level(s)
      /\ Holds(log, n, "approve", i) => 2 <= Level(s)
  BY <1>1, <1>3 DEF CreationsShow, Holds
<1>5. ASSUME NEW d \in 1 .. N, Holds(log, d, "define", i), Level(s) # 0 PROVE s.key = log[d].key
  <2>1. PICK m \in 1 .. N : Holds(log, m, "define", i) /\ log[m].key = s.key
    BY <1>1, <1>3, <1>5 DEF SnapshotsFounded, N
  <2>2. m = d
    BY <1>5, <2>1 DEF FileSound, N
  <2>. QED  BY <2>1, <2>2
<1>6. Holds(log, n, "approve", i) => s.key = log[n].key
  <2>1. SUFFICES ASSUME Holds(log, n, "approve", i) PROVE s.key = log[n].key
    OBVIOUS
  <2>2. PICK d \in 1 .. N : Holds(log, d, "define", i) /\ log[d].key = log[n].key
    BY <2>1 DEF FileSound, N
  <2>3. Level(s) # 0
    BY <1>4, <2>1
  <2>. QED  BY <1>5, <2>2, <2>3
<1>7. Holds(log, n, "define", i) => s.key = log[n].key
  <2>1. SUFFICES ASSUME Holds(log, n, "define", i) PROVE s.key = log[n].key
    OBVIOUS
  <2>2. n \in 1 .. N /\ Level(s) # 0
    BY <1>4, <2>1 DEF N
  <2>. QED  BY <1>5, <2>1, <2>2
<1>. QED  BY <1>4, <1>6, <1>7 DEF s

-----------------------------------------------------------------------------
(* What a new event changes of a replay: it takes its turn at p, after the *)
(* turns of everything that is not later.                                  *)

GrowsAt(log, e, p) ==
    LET new == Append(log, e) IN
    /\ p \in 1 .. Len(log) + 1
    /\ \A m \in 0 .. p - 1 : RunOf(new)[m] = RunOf(log)[m]
    /\ ReplayOrder(new)[p] = Len(log) + 1 /\ EventOf(new, p) = e
    /\ \A m \in 1 .. p - 1 : EventOf(new, m) = EventOf(log, m)
    /\ \A m \in p .. Len(log) : EventOf(new, m + 1) = EventOf(log, m) /\ e.at < EventOf(log, m).at

(* A file with one event more.                                             *)
LEMMA Appended ==
    ASSUME NEW log \in Seq(Event), NEW e \in Event
    PROVE  /\ Append(log, e) \in Seq(Event) /\ Len(Append(log, e)) = Len(log) + 1
           /\ Len(log) \in Nat /\ Append(log, e)[Len(log) + 1] = e
           /\ \A k \in 1 .. Len(log) : Append(log, e)[k] = log[k]
OBVIOUS

(* Appending an event gives it one turn, somewhere among the others.       *)
LEMMA ReplayGrows ==
    ASSUME NEW log \in Seq(Event), NEW e \in Event
    PROVE  \E p : GrowsAt(log, e, p)
<1>. DEFINE new == Append(log, e)
            n == Len(log)
<1>0. /\ n \in Nat /\ new \in Seq(Event) /\ Len(new) = n + 1 /\ new[n + 1] = e
      /\ \A k \in 1 .. n : new[k] = log[k]
  BY Appended
<1>1. PICK p \in 1 .. n + 1 : PutAt(new, ReplayOrder(log), ReplayOrder(new), n + 1, p)
  BY OrderGrows
<1>. HIDE DEF new, n
<1>2. /\ \A m \in 1 .. p - 1 : ReplayOrder(new)[m] = ReplayOrder(log)[m]
      /\ ReplayOrder(new)[p] = n + 1
  BY <1>1 DEF PutAt
<1>3. \A m \in p .. n : /\ ReplayOrder(new)[m + 1] = ReplayOrder(log)[m]
                        /\ new[n + 1].at < new[ReplayOrder(log)[m]].at
  BY <1>0, <1>1 DEF PutAt
<1>4. \A m \in 1 .. n : ReplayOrder(log)[m] \in 1 .. n
  BY ReplaySorted DEF n
<1>5. \A m \in 1 .. p - 1 : m \in 1 .. n /\ m \in 1 .. n + 1
  BY <1>0, <1>1
<1>6. \A m \in p .. n : m \in 1 .. n
  BY <1>0, <1>1
<1>7. \A m \in 1 .. p - 1 : EventOf(new, m) = EventOf(log, m)
  BY <1>0, <1>2, <1>4, <1>5 DEF EventOf
<1>8. \A m \in p .. n : EventOf(new, m + 1) = EventOf(log, m) /\ e.at < EventOf(log, m).at
  BY <1>0, <1>3, <1>4, <1>6 DEF EventOf
<1>9. EventOf(new, p) = e
  BY <1>0, <1>2 DEF EventOf
<1>10. \A m \in 0 .. p - 1 : RunOf(new)[m] = RunOf(log)[m]
  <2>. DEFINE Good == {m \in Nat : m <= p - 1 => RunOf(new)[m] = RunOf(log)[m]}
  <2>1. 0 \in Good
    BY <1>0, RunIs
  <2>2. ASSUME NEW k \in Nat, k \in Good PROVE k + 1 \in Good
    <3>1. SUFFICES ASSUME k + 1 <= p - 1 PROVE RunOf(new)[k + 1] = RunOf(log)[k + 1]
      OBVIOUS
    <3>. DEFINE j == k + 1
    <3>2. j \in 1 .. p - 1 /\ j - 1 = k /\ RunOf(new)[k] = RunOf(log)[k]
      BY <1>1, <2>2, <3>1
    <3>. HIDE DEF j
    <3>3. j \in 1 .. n /\ j \in 1 .. n + 1
      BY <1>5, <3>2
    <3>4. RunOf(new)[j] = Turn(new, RunOf(log)[k], ReplayOrder(log)[j])
      BY <1>0, <1>2, <3>2, <3>3, RunIs
    <3>5. RunOf(log)[j] = Turn(log, RunOf(log)[k], ReplayOrder(log)[j])
      BY <3>2, <3>3, RunIs DEF n
    <3>6. new[ReplayOrder(log)[j]] = log[ReplayOrder(log)[j]]
      BY <1>0, <1>4, <3>3
    <3>7. RunOf(new)[j] = RunOf(log)[j]
      BY <3>4, <3>5, <3>6 DEF Turn
    <3>. QED  BY <3>7 DEF j
  <2>. HIDE DEF Good
  <2>3. Nat \subseteq Good
    BY <2>1, <2>2, NatInduct
  <2>4. \A m \in 0 .. p - 1 : m \in Nat /\ m <= p - 1
    OBVIOUS
  <2>. QED  BY <2>3, <2>4 DEF Good
<1>. QED  BY <1>1, <1>2, <1>7, <1>8, <1>9, <1>10 DEF GrowsAt, new, n

\* After m of the old turns, p or more, and one more of the new ones.
Shifted(log, e, m) ==
    LET new == Append(log, e) IN
    /\ \A i \in Interventions \ {e.id} : Snaps(new, m + 1)[i] = Snaps(log, m)[i]
    /\ FileSound(new) => Level(Snaps(log, m)[e.id]) <= Level(Snaps(new, m + 1)[e.id])

(* In a sound file the key of an intervention is the one it was defined    *)
(* with, before and after the append.                                      *)
LEMMA SameKey ==
    ASSUME NEW log \in Seq(Event), NEW e \in Event, FileSound(Append(log, e)),
           NEW i \in Interventions,
           NEW k \in 0 .. Len(log), NEW m \in 0 .. Len(log) + 1,
           Level(Snaps(log, k)[i]) # 0, Level(Snaps(Append(log, e), m)[i]) # 0
    PROVE  Snaps(Append(log, e), m)[i].key = Snaps(log, k)[i].key
<1>. DEFINE new == Append(log, e)
            n == Len(log)
<1>0. /\ n \in Nat /\ new \in Seq(Event) /\ Len(new) = n + 1
      /\ \A j \in 1 .. n : new[j] = log[j] /\ j \in 1 .. n + 1
  BY Appended
<1>. HIDE DEF new, n
<1>1. PICK a \in 1 .. n : Holds(log, a, "define", i) /\ log[a].key = Snaps(log, k)[i].key
  BY RunIsFounded DEF SnapshotsFounded, n
<1>2. m \in 0 .. Len(new)
  BY <1>0 DEF n
<1>3. SnapshotsFounded(new, m)
  BY <1>0, <1>2, RunIsFounded
<1>4. PICK b \in 1 .. n + 1 : Holds(new, b, "define", i) /\ new[b].key = Snaps(new, m)[i].key
  BY <1>0, <1>3 DEF SnapshotsFounded, new
<1>5. Holds(new, a, "define", i)
  BY <1>0, <1>1 DEF Holds, n
<1>6. a = b
  BY <1>0, <1>1, <1>4, <1>5 DEF FileSound, new
<1>. QED  BY <1>0, <1>1, <1>4, <1>6 DEF new

(* From the turn of the new event on, the old replay lags one turn behind: *)
(* equal for other interventions, never ahead for its own.                 *)
LEMMA RunsShifted ==
    ASSUME NEW log \in Seq(Event), NEW e \in Event, NEW p, GrowsAt(log, e, p)
    PROVE  \A m \in p - 1 .. Len(log) : Shifted(log, e, m)
<1>. DEFINE new == Append(log, e)
            n == Len(log)
            Good == {m \in Nat : m \in p - 1 .. n => Shifted(log, e, m)}
<1>0. /\ n \in Nat /\ new \in Seq(Event) /\ Len(new) = n + 1 /\ p \in 1 .. n + 1
      /\ e.id \in Interventions
  BY Appended, EventTimes DEF GrowsAt
<1>. HIDE DEF new, n
<1>1. \A m \in 0 .. n : Snaps(log, m) \in [Interventions -> Snapshot]
  BY RunIsTyped DEF n
<1>2. \A m \in 0 .. n + 1 : Snaps(new, m) \in [Interventions -> Snapshot]
  BY <1>0, RunIsTyped
<1>3. Shifted(log, e, p - 1)
  <2>. DEFINE j == p - 1
  <2>1. /\ j \in Nat /\ j + 1 = p /\ j + 1 <= Len(new)
        /\ j \in 0 .. n /\ j \in 0 .. n + 1 /\ j \in 0 .. p - 1
    BY <1>0
  <2>. HIDE DEF j
  <2>2. Snaps(new, j) = Snaps(log, j)
    BY <2>1 DEF GrowsAt, Snaps, new
  <2>3. EventOf(new, j + 1) = e
    BY <2>1 DEF GrowsAt, new
  <2>4. /\ Snaps(new, j + 1)[e.id] = After(Snaps(new, j)[e.id], e)
        /\ \A i \in Interventions \ {e.id} : Snaps(new, j + 1)[i] = Snaps(new, j)[i]
    <3>1. Snaps(new, j) \in [Interventions -> Snapshot]
      BY <1>2, <2>1
    <3>. QED  BY <1>0, <2>1, <2>3, <3>1, NextTurn
  <2>5. Level(Snaps(log, j)[e.id]) <= Level(Snaps(new, j + 1)[e.id])
    <3>1. Snaps(log, j)[e.id] \in Snapshot
      BY <1>0, <1>1, <2>1
    <3>. QED  BY <2>2, <2>4, <3>1, NoWayBack
  <2>6. Shifted(log, e, j)
    BY <2>2, <2>4, <2>5 DEF Shifted, new
  <2>. QED  BY <2>6 DEF j
<1>4. 0 \in Good
  <2>1. 0 \in p - 1 .. n => p - 1 = 0
    BY <1>0
  <2>. QED  BY <1>3, <2>1
<1>5. ASSUME NEW k \in Nat, k \in Good PROVE k + 1 \in Good
  <2>1. SUFFICES ASSUME k + 1 \in p - 1 .. n PROVE Shifted(log, e, k + 1)
    OBVIOUS
  <2>2. CASE k + 1 = p - 1
    BY <1>3, <2>2
  <2>3. CASE k + 1 # p - 1
    <3>. DEFINE f == EventOf(log, k + 1)
                j == k + 1
    <3>1. /\ Shifted(log, e, k) /\ k + 1 \in p .. n /\ k + 1 \in 1 .. n /\ k \in 0 .. n
          /\ k + 1 \in 0 .. n + 1 /\ k + 1 <= n /\ j + 1 <= n + 1 /\ j \in Nat
      BY <1>0, <1>5, <2>1, <2>3
    <3>2. f \in Event /\ f.id \in Interventions /\ EventOf(new, j + 1) = f
      <4>1. f \in Event
        BY <3>1, TurnEvents DEF n
      <4>2. EventOf(new, j + 1) = f
        BY <3>1 DEF GrowsAt, new, n
      <4>. QED  BY <4>1, <4>2, EventTimes
    <3>3. /\ Snaps(log, k + 1)[f.id] = After(Snaps(log, k)[f.id], f)
          /\ \A i \in Interventions \ {f.id} : Snaps(log, k + 1)[i] = Snaps(log, k)[i]
      <4>1. Snaps(log, k) \in [Interventions -> Snapshot] /\ k + 1 <= Len(log)
        BY <1>1, <3>1 DEF n
      <4>. QED  BY <4>1, NextTurn
    <3>4. /\ Snaps(new, j + 1)[f.id] = After(Snaps(new, j)[f.id], f)
          /\ \A i \in Interventions \ {f.id} : Snaps(new, j + 1)[i] = Snaps(new, j)[i]
      <4>1. Snaps(new, j) \in [Interventions -> Snapshot] /\ j + 1 <= Len(new)
        BY <1>0, <1>2, <3>1
      <4>. DEFINE g == EventOf(new, j + 1)
      <4>2. j \in Nat /\ new \in Seq(Event)
        BY <1>0, <3>1
      <4>. HIDE DEF j
      <4>3. /\ Snaps(new, j + 1)[g.id] = After(Snaps(new, j)[g.id], g)
            /\ \A i \in Interventions \ {g.id} : Snaps(new, j + 1)[i] = Snaps(new, j)[i]
        BY <4>1, <4>2, NextTurn
      <4>4. g = f
        BY <3>2
      <4>. HIDE DEF f, g
      <4>. QED  BY <4>3, <4>4
    <3>5. /\ \A i \in Interventions \ {e.id} : Snaps(new, k + 1)[i] = Snaps(log, k)[i]
          /\ FileSound(new) => Level(Snaps(log, k)[e.id]) <= Level(Snaps(new, k + 1)[e.id])
      BY <3>1 DEF Shifted, new
    <3>. HIDE DEF f
    <3>6. \A i \in Interventions \ {e.id} : Snaps(new, j + 1)[i] = Snaps(log, k + 1)[i]
      BY <3>2, <3>3, <3>4, <3>5
    <3>7. ASSUME FileSound(new)
          PROVE  Level(Snaps(log, k + 1)[e.id]) <= Level(Snaps(new, j + 1)[e.id])
      <4>1. Level(Snaps(log, k)[e.id]) <= Level(Snaps(new, k + 1)[e.id])
        BY <3>5, <3>7
      <4>2. CASE f.id # e.id
        BY <1>0, <3>3, <3>4, <4>1, <4>2
      <4>3. CASE f.id = e.id
        <5>. DEFINE s == Snaps(log, k)[e.id]
                    t == Snaps(new, k + 1)[e.id]
        <5>1. s \in Snapshot /\ t \in Snapshot
          BY <1>0, <1>1, <1>2, <3>1
        <5>2. Level(s) \in Nat /\ Level(t) \in Nat
          BY LevelRange
        <5>3. Level(s) # 0 => t.key = s.key
          <6>1. SUFFICES ASSUME Level(s) # 0 PROVE t.key = s.key
            OBVIOUS
          <6>2. Level(t) # 0
            BY <4>1, <5>2, <6>1
          <6>3. k \in 0 .. Len(log) /\ k + 1 \in 0 .. Len(log) + 1
            BY <3>1 DEF n
          <6>. QED  BY <1>0, <3>7, <6>1, <6>2, <6>3, SameKey DEF new
        <5>4. f.type \notin {"reject", "expire"}
          <6>1. PICK q \in 1 .. n + 1 : f = new[q]
            <7>1. j + 1 \in 1 .. n + 1
              BY <1>0, <3>1
            <7>2. ReplayOrder(new)[j + 1] \in 1 .. n + 1
              BY <1>0, <7>1, ReplaySorted
            <7>. QED  BY <3>2, <7>2 DEF EventOf
          <6>. QED  BY <1>0, <3>7, <6>1 DEF FileSound
        <5>. HIDE DEF s, t
        <5>5. Level(After(s, f)) <= Level(After(t, f))
          BY <3>2, <4>1, <5>1, <5>3, <5>4, StaysAhead DEF s, t
        <5>. QED  BY <3>3, <3>4, <4>3, <5>5 DEF s, t
      <4>. QED  BY <4>2, <4>3
    <3>8. Shifted(log, e, j)
      BY <3>6, <3>7 DEF Shifted, new
    <3>. QED  BY <3>8
  <2>. QED  BY <2>2, <2>3
<1>. HIDE DEF Good
<1>6. Nat \subseteq Good
  BY <1>4, <1>5, NatInduct
<1>7. \A m \in p - 1 .. n : m \in Nat
  BY <1>0
<1>. QED  BY <1>6, <1>7 DEF Good, n

(* A new event touches no other intervention, and leaves its own as far    *)
(* along as it was.                                                        *)
LEMMA AppendMoves ==
    ASSUME NEW log \in Seq(Event), NEW e \in Event
    PROVE  /\ \A i \in Interventions \ {e.id} : SnapshotOf(Append(log, e), i) = SnapshotOf(log, i)
           /\ FileSound(Append(log, e)) =>
                \A i \in Interventions : Level(SnapshotOf(log, i)) <= Level(SnapshotOf(Append(log, e), i))
<1>. DEFINE new == Append(log, e)
            n == Len(log)
<1>0. n \in Nat /\ new \in Seq(Event) /\ Len(new) = n + 1 /\ e.id \in Interventions
  BY Appended, EventTimes
<1>. HIDE DEF new, n
<1>1. PICK p : GrowsAt(log, e, p)
  BY ReplayGrows
<1>2. n \in p - 1 .. n
  BY <1>0, <1>1 DEF GrowsAt, n
<1>3. Shifted(log, e, n)
  BY <1>1, <1>2, RunsShifted DEF n
<1>4. \A i \in Interventions : /\ SnapshotOf(log, i) = Snaps(log, n)[i]
                               /\ SnapshotOf(new, i) = Snaps(new, n + 1)[i]
  BY <1>0, RunIsTyped DEF n
<1>5. \A i \in Interventions \ {e.id} : SnapshotOf(new, i) = SnapshotOf(log, i)
  BY <1>3, <1>4 DEF Shifted, new
<1>6. ASSUME FileSound(new), NEW i \in Interventions
      PROVE  Level(SnapshotOf(log, i)) <= Level(SnapshotOf(new, i))
  <2>1. CASE i = e.id
    BY <1>0, <1>3, <1>4, <1>6, <2>1 DEF Shifted, new
  <2>2. CASE i # e.id
    <3>1. SnapshotOf(new, i) = SnapshotOf(log, i) /\ Level(SnapshotOf(log, i)) \in Nat
      BY <1>5, <2>2, LevelRange
    <3>. QED  BY <3>1
  <2>. QED  BY <2>1, <2>2
<1>. QED  BY <1>5, <1>6 DEF new

(* An event that is legal in the last snapshot of its intervention, and    *)
(* not older than that snapshot, is accepted when its turn comes.          *)
LEMMA LegalAppend ==
    ASSUME NEW log \in Seq(Event), NEW e \in Event,
           ~Rejected(SnapshotOf(log, e.id), e), SnapshotOf(log, e.id).updated <= e.at
    PROVE  Len(log) + 1 \in Reconstruct(Append(log, e)).accepted
<1>. DEFINE new == Append(log, e)
            n == Len(log)
            s == SnapshotOf(log, e.id)
<1>0. /\ n \in Nat /\ new \in Seq(Event) /\ Len(new) = n + 1
      /\ e.id \in Interventions /\ e.at \in Nat
  BY Appended, EventTimes
<1>. HIDE DEF new, n, s
<1>1. PICK p : GrowsAt(log, e, p)
  BY ReplayGrows
<1>. DEFINE j == p - 1
<1>2. p \in 1 .. n + 1 /\ j \in Nat /\ j + 1 = p /\ j \in 0 .. n /\ j \in 0 .. n + 1 /\ j + 1 <= Len(new)
      /\ j \in 0 .. p - 1
  BY <1>0, <1>1 DEF GrowsAt, n
<1>. DEFINE old == Snaps(log, j)[e.id]
<1>. HIDE DEF j
<1>3. \A m \in 0 .. n : Snaps(log, m) \in [Interventions -> Snapshot]
  BY RunIsTyped DEF n
<1>4. \A m \in 0 .. n + 1 : Snaps(new, m) \in [Interventions -> Snapshot]
  BY <1>0, RunIsTyped
<1>5. s = Snaps(log, n)[e.id]
  BY <1>0, RunIsTyped DEF n, s
<1>6. s = old
  <2>. DEFINE Good == {m \in Nat : m \in j .. n =>
                         Snaps(log, m)[e.id] = old \/ e.at < Snaps(log, m)[e.id].updated}
  <2>1. j \in Good
    BY <1>2
  <2>2. 0 \in Good
    <3>1. 0 \in j .. n => j = 0
      BY <1>2
    <3>. QED  BY <2>1, <3>1
  <2>3. ASSUME NEW k \in Nat, k \in Good PROVE k + 1 \in Good
    <3>1. SUFFICES ASSUME k + 1 \in j .. n
          PROVE Snaps(log, k + 1)[e.id] = old \/ e.at < Snaps(log, k + 1)[e.id].updated
      OBVIOUS
    <3>2. CASE k + 1 = j
      BY <3>2
    <3>3. CASE k + 1 # j
      <4>. DEFINE f == EventOf(log, k + 1)
      <4>1. k \in j .. n /\ k \in 0 .. n /\ k + 1 \in 1 .. n /\ k + 1 <= Len(log) /\ k + 1 \in p .. n
        BY <1>0, <1>2, <3>1, <3>3 DEF n
      <4>2. Snaps(log, k)[e.id] = old \/ e.at < Snaps(log, k)[e.id].updated
        BY <2>3, <4>1
      <4>3. f \in Event /\ f.id \in Interventions /\ f.at \in Nat
        <5>1. f \in Event
          BY <4>1, TurnEvents DEF n
        <5>. QED  BY <5>1, EventTimes
      <4>4. e.at < f.at
        BY <1>1, <4>1 DEF GrowsAt, n
      <4>5. /\ Snaps(log, k + 1)[f.id] = After(Snaps(log, k)[f.id], f)
            /\ \A i \in Interventions \ {f.id} : Snaps(log, k + 1)[i] = Snaps(log, k)[i]
        <5>1. Snaps(log, k) \in [Interventions -> Snapshot]
          BY <1>3, <4>1
        <5>. QED  BY <4>1, <5>1, NextTurn
      <4>. HIDE DEF f, old
      <4>6. CASE f.id # e.id
        BY <1>0, <4>2, <4>5, <4>6
      <4>7. CASE f.id = e.id
        <5>. DEFINE t == Snaps(log, k)[e.id]
        <5>1. t \in Snapshot /\ Snaps(log, k + 1)[e.id] = After(t, f)
          BY <1>0, <1>3, <4>1, <4>5, <4>7
        <5>. HIDE DEF t
        <5>2. CASE Rejected(t, f)
          <6>1. After(t, f) = t
            BY <5>2 DEF After
          <6>. QED  BY <4>2, <5>1, <6>1 DEF t
        <5>3. CASE ~Rejected(t, f)
          <6>1. After(t, f).updated = f.at
            BY <4>3, <5>1, <5>3, AcceptedMoves DEF After
          <6>. QED  BY <4>4, <5>1, <6>1
        <5>. QED  BY <5>2, <5>3
      <4>. QED  BY <4>6, <4>7
    <3>. QED  BY <3>2, <3>3
  <2>. HIDE DEF Good
  <2>4. Nat \subseteq Good
    BY <2>2, <2>3, NatInduct
  <2>5. n \in Nat /\ n \in j .. n
    BY <1>0, <1>2
  <2>6. s = old \/ e.at < s.updated
    BY <1>5, <2>4, <2>5 DEF Good
  <2>7. s.updated \in Nat
    <3>1. s \in Snapshot
      BY <1>0, <1>3, <1>5
    <3>. QED  BY <3>1 DEF Snapshot
  <2>8. ~ (e.at < s.updated)
    BY <1>0, <2>7 DEF s
  <2>. QED  BY <2>6, <2>8
<1>7. n + 1 \in RunOf(new)[p].accepted
  <2>. DEFINE g == EventOf(new, j + 1)
  <2>1. g = e /\ ReplayOrder(new)[j + 1] = n + 1
    BY <1>1, <1>2 DEF GrowsAt, new, n
  <2>2. Snaps(new, j) = Snaps(log, j)
    BY <1>1, <1>2 DEF GrowsAt, Snaps, new
  <2>3. Snaps(new, j) \in [Interventions -> Snapshot]
    BY <1>2, <1>4
  <2>4. RunOf(new)[j + 1].accepted =
          IF Rejected(Snaps(new, j)[g.id], g) THEN RunOf(new)[j].accepted
          ELSE RunOf(new)[j].accepted \cup {ReplayOrder(new)[j + 1]}
    BY <1>0, <1>2, <2>3, NextTurn
  <2>. HIDE DEF g
  <2>5. ~Rejected(Snaps(new, j)[g.id], g)
    BY <1>6, <2>1, <2>2 DEF s
  <2>6. n + 1 \in RunOf(new)[j + 1].accepted
    BY <2>1, <2>4, <2>5
  <2>. QED  BY <1>2, <2>6
<1>8. n + 1 \in RunOf(new)[n + 1].accepted
  <2>. DEFINE Good == {m \in Nat : m \in p .. n + 1 => n + 1 \in RunOf(new)[m].accepted}
  <2>1. 0 \in Good
    BY <1>2
  <2>2. ASSUME NEW k \in Nat, k \in Good PROVE k + 1 \in Good
    <3>1. SUFFICES ASSUME k + 1 \in p .. n + 1 PROVE n + 1 \in RunOf(new)[k + 1].accepted
      OBVIOUS
    <3>2. CASE k + 1 = p
      BY <1>7, <3>2
    <3>3. CASE k + 1 # p
      <4>1. k \in p .. n + 1 /\ k \in 0 .. n + 1 /\ k + 1 <= Len(new)
        BY <1>0, <1>2, <3>1, <3>3
      <4>2. n + 1 \in RunOf(new)[k].accepted
        BY <2>2, <4>1
      <4>3. Snaps(new, k) \in [Interventions -> Snapshot]
        BY <1>4, <4>1
      <4>. DEFINE g == EventOf(new, k + 1)
                  q == ReplayOrder(new)[k + 1]
      <4>4. RunOf(new)[k + 1].accepted =
              IF Rejected(Snaps(new, k)[g.id], g) THEN RunOf(new)[k].accepted
              ELSE RunOf(new)[k].accepted \cup {q}
        BY <1>0, <4>1, <4>3, NextTurn
      <4>. HIDE DEF g, q
      <4>. QED  BY <4>2, <4>4
    <3>. QED  BY <3>2, <3>3
  <2>. HIDE DEF Good
  <2>3. Nat \subseteq Good
    BY <2>1, <2>2, NatInduct
  <2>4. n + 1 \in Nat /\ n + 1 \in p .. n + 1
    BY <1>0, <1>2
  <2>. QED  BY <2>3, <2>4 DEF Good
<1>9. Reconstruct(new) = RunOf(new)[n + 1]
  BY <1>0, RunIs
<1>. QED  BY <1>8, <1>9 DEF new, n

-----------------------------------------------------------------------------
(* The inductive invariant of the registry.                                *)

\* The creation of c has appended nothing yet.
Pending(c) ==
    /\ calls[c].kind = "create" /\ calls[c].queue # <<>>
    /\ Head(calls[c].queue).type = "define"

\* What a request still has to append is of one intervention, and only a
\* creation defines or approves it.
CallSound(c) ==
    LET call == calls[c]
        next == Head(call.queue)
    IN /\ call.read <= Len(file)
       /\ call.kind # "idle" => call.id \in Interventions
       /\ call.kind = "idle" => call.queue = <<>>
       /\ call.kind = "create" =>
            /\ call.queue # <<>>
            /\ \A n \in 1 .. Len(file) : ~Holds(file, n, "approve", call.id)
            /\ \/ /\ call.queue = CreationEvents(call.id, next.key, next.at)
                  /\ \A n \in 1 .. Len(file) : file[n].id # call.id
               \/ /\ call.queue = <<Message("approve", call.id, next.at, next.key)>>
                  /\ \E d \in 1 .. Len(file) : /\ Holds(file, d, "define", call.id)
                                               /\ file[d].at = next.at /\ file[d].key = next.key
       /\ call.kind # "create" =>
            \A n \in 1 .. Len(call.queue) :
               /\ call.queue[n].id = call.id
               /\ call.queue[n].type \notin {"define", "approve", "reject", "expire"}

\* Nobody else writes about an intervention that is being created.
CreationsApart ==
    \A c, d \in Calls :
        (/\ c # d /\ calls[c].id = calls[d].id
         /\ calls[c].kind = "create" /\ calls[d].kind # "idle")
            => calls[d].kind # "create" /\ ~Pending(c)

\* A lifecycle event is not older than what its intervention says of itself.
EventsTimely ==
    \A c \in Calls : (calls[c].kind = "event" /\ Undisturbed(c)) =>
        /\ Len(calls[c].queue) = 1
        /\ SnapshotOf(file, calls[c].id).updated <= Head(calls[c].queue).at

HistorySound ==
    /\ \A i \in Interventions : seen[i] <= Len(file)
    /\ \A i \in acked : \E n \in 1 .. Len(file) : Holds(file, n, "approve", i)

\* Whoever was approved in the store when the guards of a creation read the
\* file has ended, in the replay they read and in every later one.
StoreWasFree ==
    \A j \in Interventions, n \in 1 .. Len(file) : Holds(file, n, "approve", j) =>
        /\ \A i \in Interventions \ {j}, d \in 1 .. Len(file) :
             (Holds(file, d, "define", i) /\ file[d].key.store = file[n].key.store
                /\ n <= seen[i]) => Level(SnapshotOf(file, j)) = 4
        /\ \A c \in Calls :
             (Pending(c) /\ Head(calls[c].queue).key.store = file[n].key.store
                /\ n <= calls[c].read) => Level(SnapshotOf(file, j)) = 4

\* Nobody had used the key when the guards of a creation read the file.
KeyWasFree ==
    \A j \in Interventions, n \in 1 .. Len(file) : Holds(file, n, "define", j) =>
        /\ \A i \in Interventions \ {j}, d \in 1 .. Len(file) :
             (Holds(file, d, "define", i) /\ file[d].key = file[n].key) => seen[i] < n
        /\ \A c \in Calls :
             (Pending(c) /\ Head(calls[c].queue).key = file[n].key) => calls[c].read < n

RegistryInv ==
    /\ TypeOK /\ FileSound(file) /\ \A c \in Calls : CallSound(c)
    /\ CreationsApart /\ EventsTimely /\ HistorySound /\ StoreWasFree /\ KeyWasFree

Kinds == {"idle", "create", "event", "checkpoints", "outcome", "evaluate"}
CallType == [kind : Kinds, id : Interventions \cup {0}, read : Nat, asOf : Nat, queue : Seq(Event)]

(* The empty registry satisfies the invariant.                             *)
LEMMA InitHolds == Init => RegistryInv
<1>. SUFFICES ASSUME Init PROVE RegistryInv
  OBVIOUS
<1>1. /\ file = <<>> /\ Len(file) = 0 /\ clock = 1 /\ acked = {}
      /\ \A c \in Calls : calls[c] = Idle
      /\ seen = [i \in Interventions |-> 0]
  BY DEF Init
<1>2. Idle.kind = "idle" /\ Idle.queue = <<>> /\ Idle.read = 0
  BY DEF Idle
<1>3. TypeOK
  <2>1. Idle \in CallType
    <3>1. <<>> \in Seq(Event)
      OBVIOUS
    <3>. QED  BY <3>1 DEF Idle, CallType, Kinds
  <2>2. calls \in [Calls -> CallType]
    BY <2>1 DEF Init
  <2>3. clock \in 1 .. MaxClock
    BY <1>1, RegistryAssumption
  <2>4. file \in Seq(Event) /\ approvals \in [Stores -> SUBSET (1 .. MaxClock)]
    BY DEF Init
  <2>5. seen \in [Interventions -> Nat] /\ acked \subseteq Interventions
    BY <1>1
  <2>. QED  BY <2>2, <2>3, <2>4, <2>5 DEF TypeOK, CallType, Kinds
<1>4. \A n \in 1 .. Len(file) : FALSE
  BY <1>1
<1>5. FileSound(file)
  BY <1>4 DEF FileSound
<1>6. \A c \in Calls : CallSound(c)
  BY <1>1, <1>2 DEF CallSound
<1>7. CreationsApart /\ EventsTimely
  BY <1>1, <1>2 DEF CreationsApart, EventsTimely
<1>8. HistorySound /\ StoreWasFree /\ KeyWasFree
  BY <1>1, <1>4 DEF HistorySound, StoreWasFree, KeyWasFree
<1>. QED  BY <1>3, <1>5, <1>6, <1>7, <1>8 DEF RegistryInv

-----------------------------------------------------------------------------
(* Requests that read.                                                     *)

(* TypeOK, field by field.                                                 *)
LEMMA TypesOf ==
    ASSUME TypeOK
    PROVE  /\ file \in Seq(Event) /\ Len(file) \in Nat
           /\ \A n \in 1 .. Len(file) : file[n] \in Event
           /\ DOMAIN file = 1 .. Len(file)
           /\ calls \in [Calls -> CallType]
           /\ \A c \in Calls : calls[c] \in CallType
           /\ clock \in Times
<1>1. calls \in [Calls -> CallType]
  BY DEF TypeOK, CallType, Kinds
<1>2. clock \in Times
  BY DEF TypeOK, Times
<1>. QED  BY <1>1, <1>2 DEF TypeOK

(* What is known of the snapshot of an intervention.                       *)
LEMMA SnapshotFacts ==
    ASSUME TypeOK, NEW i \in Interventions
    PROVE  LET s == SnapshotOf(file, i) IN
           /\ s \in Snapshot /\ Coherent(s)
           /\ s.started # 0 => s.state # "UNDEFINED"
           /\ s.state # "UNDEFINED" =>
                s.key \in Keys /\ \E n \in 1 .. Len(file) : file[n].id = i
<1>. DEFINE s == SnapshotOf(file, i)
<1>1. file \in Seq(Event) /\ Len(file) \in 0 .. Len(file)
  BY TypesOf
<1>2. s \in Snapshot /\ Coherent(s) /\ s = Snaps(file, Len(file))[i]
  BY <1>1, RunIsTyped
<1>3. SnapshotsFounded(file, Len(file))
  BY <1>1, RunIsFounded
<1>. HIDE DEF s
<1>4. s.started # 0 => s.state # "UNDEFINED"
  BY <1>2 DEF Coherent, Undefined
<1>5. s.state # "UNDEFINED" => s.key \in Keys
  BY <1>2 DEF Coherent, Undefined
<1>6. s.state # "UNDEFINED" => \E n \in 1 .. Len(file) : file[n].id = i
  BY <1>2, <1>3, LevelRange DEF SnapshotsFounded, Holds
<1>. QED  BY <1>2, <1>4, <1>5, <1>6 DEF s

(* A request that does not create anything begins, goes on or ends.        *)
LEMMA CallChanges ==
    ASSUME RegistryInv, NEW c \in Calls, NEW call \in CallType,
           calls' = [calls EXCEPT ![c] = call],
           UNCHANGED <<file, clock, approvals, seen, acked>>,
           call.kind # "create", call.read <= Len(file),
           call.kind # "idle" => /\ call.id \in Interventions
                                 /\ \A d \in Calls : Pending(d) => calls[d].id # call.id,
           call.kind = "idle" => call.queue = <<>>,
           \A n \in 1 .. Len(call.queue) :
               /\ call.queue[n].id = call.id
               /\ call.queue[n].type \notin {"define", "approve", "reject", "expire"},
           call.kind = "event" => /\ Len(call.queue) = 1
                                  /\ SnapshotOf(file, call.id).updated <= Head(call.queue).at
    PROVE  RegistryInv'
<1>1. /\ file \in Seq(Event) /\ calls \in [Calls -> CallType]
      /\ TypeOK /\ FileSound(file) /\ CreationsApart /\ EventsTimely /\ HistorySound
      /\ StoreWasFree /\ KeyWasFree /\ \A d \in Calls : CallSound(d)
  BY TypesOf DEF RegistryInv
<1>2. /\ file' = file /\ seen' = seen /\ acked' = acked
      /\ calls'[c] = call /\ \A d \in Calls \ {c} : calls'[d] = calls[d]
  BY <1>1
<1>3. TypeOK'
  <2>1. calls' \in [Calls -> CallType]
    BY <1>1
  <2>. QED  BY <1>1, <2>1 DEF TypeOK, CallType, Kinds
<1>4. FileSound(file)' /\ HistorySound'
  BY <1>1, <1>2 DEF HistorySound
<1>5. \A d \in Calls : CallSound(d)'
  <2>1. CallSound(c)'
    BY <1>2 DEF CallSound
  <2>2. ASSUME NEW d \in Calls \ {c} PROVE CallSound(d)'
    <3>1. calls'[d] = calls[d] /\ CallSound(d)
      BY <1>1, <1>2
    <3>. QED  BY <1>2, <3>1 DEF CallSound
  <2>. QED  BY <2>1, <2>2
<1>6. ~Pending(c)' /\ \A d \in Calls \ {c} : Pending(d)' <=> Pending(d)
  BY <1>2 DEF Pending
<1>7. CreationsApart'
  <2>1. SUFFICES ASSUME NEW a \in Calls, NEW b \in Calls, a # b, calls'[a].kind = "create",
                        calls'[a].id = calls'[b].id, calls'[b].kind # "idle"
                 PROVE  calls'[b].kind # "create" /\ ~Pending(a)'
    BY DEF CreationsApart
  <2>2. a # c /\ calls'[a] = calls[a] /\ (Pending(a)' <=> Pending(a))
    BY <1>2, <1>6, <2>1
  <2>3. CASE b = c
    BY <1>2, <2>1, <2>2, <2>3
  <2>4. CASE b # c
    BY <1>1, <1>2, <2>1, <2>2, <2>4 DEF CreationsApart
  <2>. QED  BY <2>3, <2>4
<1>8. EventsTimely'
  <2>1. \A d \in Calls \ {c} : Undisturbed(d)' <=> Undisturbed(d)
    BY <1>2 DEF Undisturbed
  <2>. QED  BY <1>1, <1>2, <2>1 DEF EventsTimely
<1>9. StoreWasFree'
  BY <1>1, <1>2, <1>6 DEF StoreWasFree
<1>10. KeyWasFree'
  BY <1>1, <1>2, <1>6 DEF KeyWasFree
<1>. QED  BY <1>3, <1>4, <1>5, <1>7, <1>8, <1>9, <1>10 DEF RegistryInv

\* The event is of this type and intervention, and of this time.
IsOf(e, type, i, at, k) ==
    e \in Event /\ e.type = type /\ e.id = i /\ e.at = at /\ e.key = k /\ e.agrees \in BOOLEAN

(* Message makes events of the type, intervention, time and key asked for. *)
LEMMA MadeMessage ==
    ASSUME NEW type \in Transitions \cup {"define", "checkpoint"}, NEW i \in Interventions,
           NEW at \in Times, NEW k \in Keys, NEW v \in BOOLEAN
    PROVE  /\ IsOf(Message(type, i, at, k), type, i, at, k) /\ Message(type, i, at, k).agrees
           /\ IsOf([Message(type, i, at, k) EXCEPT !.evidence = v], type, i, at, k)
           /\ IsOf([Message(type, i, at, k) EXCEPT !.agrees = v], type, i, at, k)
<1>. DEFINE All == Transitions \cup {"define", "checkpoint"}
            d == Message(type, i, at, k)
            e == [Message(type, i, at, k) EXCEPT !.evidence = v]
            f == [Message(type, i, at, k) EXCEPT !.agrees = v]
<1>. HIDE DEF All
<1>1. type \in All /\ Event = [type : All, id : Interventions, at : Times, key : Keys,
                               evidence : BOOLEAN, agrees : BOOLEAN]
  BY DEF All, Event
<1>2. d \in Event
  BY <1>1 DEF Message
<1>3. e \in Event
  BY <1>1 DEF Message
<1>4. f \in Event
  BY <1>1 DEF Message
<1>5. d.type = type /\ d.id = i /\ d.at = at /\ d.key = k /\ d.agrees
  BY DEF Message
<1>6. e.type = type /\ e.id = i /\ e.at = at /\ e.key = k
  BY <1>1 DEF Message
<1>7. f.type = type /\ f.id = i /\ f.at = at /\ f.key = k
  BY <1>1 DEF Message
<1>. HIDE DEF d, e, f
<1>8. d.agrees \in BOOLEAN /\ e.agrees \in BOOLEAN /\ f.agrees \in BOOLEAN
  BY <1>2, <1>3, <1>4 DEF Event
<1>9. IsOf(d, type, i, at, k) /\ d.agrees /\ IsOf(e, type, i, at, k) /\ IsOf(f, type, i, at, k)
  BY <1>2, <1>3, <1>4, <1>5, <1>6, <1>7, <1>8 DEF IsOf
<1>. QED  BY <1>9 DEF d, e, f

\* An event that no request but a creation can append.
Ordinary(e, i) == e \in Event /\ e.id = i /\ e.type \notin {"define", "approve", "reject", "expire"}

(* A queue of one ordinary event.                                          *)
LEMMA OneEvent ==
    ASSUME NEW e, NEW i \in Interventions, Ordinary(e, i)
    PROVE  /\ <<e>> \in Seq(Event) /\ Len(<<e>>) = 1 /\ Head(<<e>>) = e
           /\ \A n \in 1 .. Len(<<e>>) : /\ <<e>>[n].id = i
                                         /\ <<e>>[n].type \notin {"define", "approve", "reject", "expire"}
<1>1. Len(<<e>>) = 1 /\ Head(<<e>>) = e /\ <<e>>[1] = e
  OBVIOUS
<1>2. <<e>> \in Seq(Event)
  BY DEF Ordinary
<1>. QED  BY <1>1, <1>2 DEF Ordinary

\* A request about a defined intervention has the id of no pending creation.
LEMMA NotOfPending ==
    ASSUME RegistryInv, NEW i \in Interventions, \E n \in 1 .. Len(file) : file[n].id = i
    PROVE  \A d \in Calls : Pending(d) => calls[d].id # i
<1>. SUFFICES ASSUME NEW d \in Calls, Pending(d), calls[d].id = i PROVE FALSE
  OBVIOUS
<1>1. CallSound(d)
  BY DEF RegistryInv
<1>2. calls[d].kind = "create" /\ Head(calls[d].queue).type = "define"
  BY DEF Pending
<1>3. \A q, j, at, k : q = <<Message("approve", j, at, k)>> => Head(q).type = "approve"
  BY DEF Message
<1>4. \A n \in 1 .. Len(file) : file[n].id # i
  BY <1>1, <1>2, <1>3 DEF CallSound
<1>. QED  BY <1>4

(* A request about a defined intervention, with the events it will append. *)
LEMMA CallBegins ==
    ASSUME RegistryInv, NEW c \in Calls, NEW i \in Interventions,
           SnapshotOf(file, i).state # "UNDEFINED",
           NEW call \in CallType, call.kind \notin {"idle", "create"}, call.id = i,
           call.read = Len(file), calls' = [calls EXCEPT ![c] = call],
           UNCHANGED <<file, clock, approvals, seen, acked>>,
           \A n \in 1 .. Len(call.queue) :
               /\ call.queue[n].id = i
               /\ call.queue[n].type \notin {"define", "approve", "reject", "expire"},
           call.kind = "event" =>
               Len(call.queue) = 1 /\ SnapshotOf(file, i).updated <= Head(call.queue).at
    PROVE  RegistryInv'
<1>1. TypeOK /\ Len(file) \in Nat
  BY TypesOf DEF RegistryInv
<1>3. \E n \in 1 .. Len(file) : file[n].id = i
  BY <1>1, SnapshotFacts
<1>4. \A d \in Calls : Pending(d) => calls[d].id # i
  BY <1>3, NotOfPending
<1>6. /\ call.kind # "create" /\ call.read <= Len(file)
      /\ call.kind # "idle" => /\ call.id \in Interventions
                               /\ \A d \in Calls : Pending(d) => calls[d].id # call.id
      /\ call.kind = "idle" => call.queue = <<>>
      /\ \A n \in 1 .. Len(call.queue) :
               /\ call.queue[n].id = call.id
               /\ call.queue[n].type \notin {"define", "approve", "reject", "expire"}
      /\ call.kind = "event" => /\ Len(call.queue) = 1
                                /\ SnapshotOf(file, call.id).updated <= Head(call.queue).at
  BY <1>1, <1>4
<1>. QED  BY <1>6, CallChanges

(* A lifecycle request that reads keeps the invariant.                     *)
LEMMA EventReadKeeps ==
    ASSUME RegistryInv, NEW c \in Calls, NEW i \in Interventions, EventRead(c, i)
    PROVE  RegistryInv'
<1>. DEFINE s == SnapshotOf(file, i)
<1>1. s.state # "UNDEFINED" /\ UNCHANGED <<file, clock, approvals, seen, acked>>
  BY DEF EventRead, world
<1>2. PICK at \in ClientTimes, type \in PublicEvents, v \in BOOLEAN :
        /\ ValidOccurredAt(s, at)
        /\ calls' = [calls EXCEPT ![c] =
              [Idle EXCEPT !.kind = "event", !.id = i, !.read = Len(file),
                 !.queue = <<[Message(type, i, at, s.key) EXCEPT !.evidence = v]>>]]
  BY DEF EventRead
<1>3. s.key \in Keys
  BY <1>1, SnapshotFacts DEF RegistryInv
<1>. HIDE DEF s
<1>. DEFINE e == [Message(type, i, at, s.key) EXCEPT !.evidence = v]
<1>4. /\ at \in Times /\ type \in Transitions
      /\ type \notin {"define", "approve", "reject", "expire"}
  BY RegistryAssumption DEF ClientTimes, Times, PublicEvents, Transitions
<1>5. IsOf(e, type, i, at, s.key)
  BY <1>3, <1>4, MadeMessage
<1>6. Ordinary(e, i) /\ e.at = at
  BY <1>4, <1>5 DEF Ordinary, IsOf
<1>7. <<e>> \in Seq(Event) /\ Len(<<e>>) = 1 /\ Head(<<e>>) = e /\ \A n \in 1 .. Len(<<e>>) :
         <<e>>[n].id = i /\ <<e>>[n].type \notin {"define", "approve", "reject", "expire"}
  <2>. HIDE DEF e
  <2>. QED  BY <1>6, OneEvent
<1>. DEFINE call == [Idle EXCEPT !.kind = "event", !.id = i, !.read = Len(file), !.queue = <<e>>]
<1>8. calls' = [calls EXCEPT ![c] = call]
  BY <1>2
<1>. HIDE DEF e
<1>9. "event" \in Kinds /\ Len(file) \in Nat
  BY TypesOf DEF Kinds, RegistryInv
<1>10. call \in CallType
  BY <1>7, <1>9 DEF Idle, CallType
<1>11. call.kind = "event" /\ call.id = i /\ call.read = Len(file) /\ call.queue = <<e>>
  BY DEF Idle
<1>12. s.updated <= Head(<<e>>).at
  BY <1>2, <1>6, <1>7 DEF ValidOccurredAt
<1>. DEFINE q == <<e>>
<1>. HIDE DEF call, q
<1>13. /\ call.queue = q /\ Len(q) = 1 /\ s.updated <= Head(q).at
       /\ \A n \in 1 .. Len(q) :
            q[n].id = i /\ q[n].type \notin {"define", "approve", "reject", "expire"}
  BY <1>7, <1>11, <1>12 DEF q
<1>14. /\ \A n \in 1 .. Len(call.queue) :
            /\ call.queue[n].id = i
            /\ call.queue[n].type \notin {"define", "approve", "reject", "expire"}
       /\ Len(call.queue) = 1 /\ s.updated <= Head(call.queue).at
       /\ call.kind \notin {"idle", "create"} /\ call.id = i /\ call.read = Len(file)
  BY <1>11, <1>13
<1>. QED  BY <1>1, <1>8, <1>10, <1>14, CallBegins DEF s

(* A checkpoint is due at a time.                                          *)
LEMMA DueTyped ==
    ASSUME NEW s \in Nat, s # 0, NEW w \in Nat
    PROVE  s + Week * w \in Times
<1>1. Week * w \in Nat
  BY RegistryAssumption
<1>. QED  BY <1>1 DEF Times

(* A checkpoint request that reads keeps the invariant.                    *)
LEMMA CheckpointReadKeeps ==
    ASSUME RegistryInv, NEW c \in Calls, NEW i \in Interventions, CheckpointRead(c, i)
    PROVE  RegistryInv'
<1>. DEFINE s == SnapshotOf(file, i)
<1>1. s.started # 0 /\ UNCHANGED <<file, clock, approvals, seen, acked>>
  BY DEF CheckpointRead, world
<1>2a. PICK weeks \in 1 .. MaxWeeks :
        \E observed \in [1 .. weeks -> {0} \cup ClientTimes] : \E agrees \in BOOLEAN :
        calls' = [calls EXCEPT ![c] =
             [Idle EXCEPT !.kind = "checkpoints", !.id = i, !.read = Len(file),
                          !.queue = CheckpointEvents(i, s, observed, agrees)]]
  BY DEF CheckpointRead
<1>2. PICK observed \in [1 .. weeks -> {0} \cup ClientTimes], agrees \in BOOLEAN :
        calls' = [calls EXCEPT ![c] =
             [Idle EXCEPT !.kind = "checkpoints", !.id = i, !.read = Len(file),
                          !.queue = CheckpointEvents(i, s, observed, agrees)]]
  BY <1>2a
<1>3. /\ s.state # "UNDEFINED" /\ s.key \in Keys /\ s.started \in Nat
  BY <1>1, SnapshotFacts DEF RegistryInv, Snapshot
<1>. HIDE DEF s
<1>. DEFINE q == CheckpointEvents(i, s, observed, agrees)
            At(w) == IF observed[w] # 0 THEN observed[w] ELSE s.started + Week * w
            e(w) == [Message("checkpoint", i, At(w), s.key) EXCEPT !.agrees = agrees \/ observed[w] = 0]
<1>4. q = [w \in 1 .. weeks |-> e(w)]
  BY DEF CheckpointEvents, WeeklyCheckpoints
<1>5. weeks \in Nat
  BY RegistryAssumption
<1>6. ASSUME NEW w \in 1 .. weeks PROVE Ordinary(e(w), i)
  <2>1. At(w) \in Times
    <3>1. s.started + Week * w \in Times
      BY <1>1, <1>3, DueTyped DEF s
    <3>2. observed[w] \in {0} \cup ClientTimes
      OBVIOUS
    <3>3. \A t \in ClientTimes : t \in Times
      BY RegistryAssumption DEF ClientTimes, Times
    <3>. QED  BY <3>1, <3>2, <3>3
  <2>. HIDE DEF At
  <2>. DEFINE b == agrees \/ observed[w] = 0
  <2>2. b \in BOOLEAN /\ "checkpoint" \in Transitions \cup {"define", "checkpoint"}
    OBVIOUS
  <2>. HIDE DEF b
  <2>. DEFINE f == [Message("checkpoint", i, At(w), s.key) EXCEPT !.agrees = b]
  <2>3. IsOf(f, "checkpoint", i, At(w), s.key)
    BY <1>3, <2>1, <2>2, MadeMessage
  <2>4. f.type = "checkpoint" /\ f.id = i /\ f \in Event
    BY <2>3 DEF IsOf
  <2>. HIDE DEF f
  <2>5. Ordinary(f, i)
    BY <2>4 DEF Ordinary
  <2>. QED  BY <2>5 DEF f, b
<1>. DEFINE call == [Idle EXCEPT !.kind = "checkpoints", !.id = i, !.read = Len(file), !.queue = q]
<1>9. calls' = [calls EXCEPT ![c] = call]
  BY <1>2
<1>. HIDE DEF e, At, q
<1>7. q \in Seq(Event) /\ Len(q) = weeks /\ \A w \in 1 .. weeks : q[w] = e(w)
  <2>1. \A w \in 1 .. weeks : e(w) \in Event
    BY <1>6 DEF Ordinary
  <2>2. q \in [1 .. weeks -> Event]
    BY <1>4, <2>1
  <2>. QED  BY <1>4, <1>5, <2>2
<1>8. \A n \in 1 .. Len(q) : q[n].id = i /\ q[n].type \notin {"define", "approve", "reject", "expire"}
  BY <1>6, <1>7 DEF Ordinary
<1>10. "checkpoints" \in Kinds /\ Len(file) \in Nat
  BY TypesOf DEF Kinds, RegistryInv
<1>11. call \in CallType
  BY <1>7, <1>10 DEF Idle, CallType
<1>12. call.kind = "checkpoints" /\ call.id = i /\ call.read = Len(file) /\ call.queue = q
  BY DEF Idle
<1>. HIDE DEF call
<1>. QED  BY <1>1, <1>3, <1>8, <1>9, <1>11, <1>12, CallBegins DEF s

(* as_of is a time.                                                        *)
LEMMA AsOfTyped ==
    ASSUME TypeOK, NEW a \in Nat
    PROVE  AsOf(a) \in Times
BY TypesOf DEF AsOf, Times

(* An evaluation appends ordinary events of its intervention.              *)
LEMMA EvaluationTyped ==
    ASSUME TypeOK, NEW i \in Interventions, NEW a \in Nat, SnapshotOf(file, i).state # "UNDEFINED"
    PROVE  LET q == EvaluateEvents(i, SnapshotOf(file, i), a) IN
           /\ q \in Seq(Event)
           /\ \A n \in 1 .. Len(q) : /\ q[n].id = i
                                     /\ q[n].type \notin {"define", "approve", "reject", "expire"}
<1>. DEFINE s == SnapshotOf(file, i)
            e == Message("evaluate", i, AsOf(a), s.key)
<1>1. s.key \in Keys
  BY SnapshotFacts
<1>. HIDE DEF s
<1>2. e \in Event
  <2>1. "evaluate" \in Transitions \cup {"define", "checkpoint"} /\ AsOf(a) \in Times
    BY AsOfTyped DEF Transitions
  <2>2. IsOf(e, "evaluate", i, AsOf(a), s.key)
    BY <1>1, <2>1, MadeMessage
  <2>. QED  BY <2>2 DEF IsOf
<1>3. e.id = i /\ e.type = "evaluate"
  BY DEF Message
<1>. HIDE DEF e
<1>4. Ordinary(e, i)
  BY <1>2, <1>3 DEF Ordinary
<1>5. CASE s.state = "EVALUATED"
  <2>1. <<>> \in Seq(Event) /\ \A n \in 1 .. Len(<<>>) : FALSE
    OBVIOUS
  <2>2. EvaluateEvents(i, s, a) = <<>>
    BY <1>5 DEF EvaluateEvents
  <2>. QED  BY <2>1, <2>2 DEF s
<1>6. CASE s.state # "EVALUATED"
  <2>1. EvaluateEvents(i, s, a) = <<e>>
    BY <1>6 DEF EvaluateEvents, e
  <2>. QED  BY <1>4, <2>1, OneEvent DEF s
<1>. QED  BY <1>5, <1>6

(* An outcome request that reads keeps the invariant.                      *)
LEMMA OutcomeReadKeeps ==
    ASSUME RegistryInv, NEW c \in Calls, NEW i \in Interventions, OutcomeRead(c, i)
    PROVE  RegistryInv'
<1>. DEFINE s == SnapshotOf(file, i)
<1>0. TypeOK /\ UNCHANGED <<file, clock, approvals, seen, acked>>
  BY DEF OutcomeRead, world, RegistryInv
<1>1. PICK a \in {0} \cup ClientTimes :
         \/ /\ s.state \in ExecutedStates
            /\ calls' = [calls EXCEPT ![c] =
                 [Idle EXCEPT !.kind = "outcome", !.id = i, !.read = Len(file), !.asOf = a,
                    !.queue = <<[Message("outcome_pending", i, AsOf(a), s.key)
                                 EXCEPT !.evidence = s.evidence]>>]]
         \/ /\ s.state = "OUTCOME_PENDING"
            /\ calls' = [calls EXCEPT ![c] =
                 [Idle EXCEPT !.kind = "evaluate", !.id = i, !.read = Len(file),
                    !.queue = EvaluateEvents(i, s, a)]]
  BY DEF OutcomeRead
<1>2. a \in Nat /\ 0 \in Nat
  BY RegistryAssumption DEF ClientTimes
<1>3. s.state # "UNDEFINED" /\ s.key \in Keys /\ s.evidence \in BOOLEAN
  <2>1. s.state # "UNDEFINED"
    BY <1>1 DEF ExecutedStates
  <2>. QED  BY <1>0, <2>1, SnapshotFacts DEF Snapshot
<1>4. CASE calls' = [calls EXCEPT ![c] =
                 [Idle EXCEPT !.kind = "outcome", !.id = i, !.read = Len(file), !.asOf = a,
                    !.queue = <<[Message("outcome_pending", i, AsOf(a), s.key)
                                 EXCEPT !.evidence = s.evidence]>>]]
  <2>. DEFINE v == s.evidence
              at == AsOf(a)
              k == s.key
              e == [Message("outcome_pending", i, at, k) EXCEPT !.evidence = v]
  <2>0. v \in BOOLEAN /\ at \in Times /\ k \in Keys
    BY <1>0, <1>2, <1>3, AsOfTyped
  <2>. HIDE DEF s, v, at, k
  <2>1. IsOf(e, "outcome_pending", i, at, k)
    <3>1. "outcome_pending" \in Transitions \cup {"define", "checkpoint"}
      BY DEF Transitions
    <3>. QED  BY <2>0, <3>1, MadeMessage
  <2>2. e \in Event /\ e.type = "outcome_pending" /\ e.id = i
    BY <2>1 DEF IsOf
  <2>3. Ordinary(e, i)
    BY <2>2 DEF Ordinary
  <2>. DEFINE call == [Idle EXCEPT !.kind = "outcome", !.id = i, !.read = Len(file), !.asOf = a,
                                   !.queue = <<e>>]
  <2>4. calls' = [calls EXCEPT ![c] = call]
    BY <1>4 DEF v, at, k
  <2>. HIDE DEF e
  <2>5. "outcome" \in Kinds /\ Len(file) \in Nat
    BY <1>0, TypesOf DEF Kinds
  <2>6. <<e>> \in Seq(Event) /\ \A n \in 1 .. Len(<<e>>) :
           <<e>>[n].id = i /\ <<e>>[n].type \notin {"define", "approve", "reject", "expire"}
    BY <2>3, OneEvent
  <2>7. call \in CallType
    BY <1>2, <2>5, <2>6 DEF Idle, CallType
  <2>8. call.kind = "outcome" /\ call.id = i /\ call.read = Len(file) /\ call.queue = <<e>>
    BY DEF Idle
  <2>. DEFINE q == <<e>>
  <2>. HIDE DEF call, q
  <2>9. call.queue = q /\ \A n \in 1 .. Len(q) :
           q[n].id = i /\ q[n].type \notin {"define", "approve", "reject", "expire"}
    BY <2>6, <2>8 DEF q
  <2>10. s.state # "UNDEFINED" /\ call.kind \notin {"idle", "create"} /\ call.kind # "event"
    BY <1>3, <2>8
  <2>11. /\ \A n \in 1 .. Len(call.queue) :
              /\ call.queue[n].id = i
              /\ call.queue[n].type \notin {"define", "approve", "reject", "expire"}
         /\ call.id = i /\ call.read = Len(file)
    BY <2>8, <2>9
  <2>. QED  BY <1>0, <2>4, <2>7, <2>10, <2>11, CallBegins DEF s
<1>5. CASE calls' = [calls EXCEPT ![c] =
                 [Idle EXCEPT !.kind = "evaluate", !.id = i, !.read = Len(file),
                    !.queue = EvaluateEvents(i, s, a)]]
  <2>. DEFINE q == EvaluateEvents(i, s, a)
  <2>1. /\ q \in Seq(Event)
        /\ \A n \in 1 .. Len(q) : /\ q[n].id = i
                                  /\ q[n].type \notin {"define", "approve", "reject", "expire"}
    BY <1>0, <1>2, <1>3, EvaluationTyped
  <2>. DEFINE call == [Idle EXCEPT !.kind = "evaluate", !.id = i, !.read = Len(file), !.queue = q]
  <2>2. calls' = [calls EXCEPT ![c] = call]
    BY <1>5
  <2>. HIDE DEF q
  <2>3. "evaluate" \in Kinds /\ Len(file) \in Nat
    BY <1>0, TypesOf DEF Kinds
  <2>4. call \in CallType
    BY <2>1, <2>3 DEF Idle, CallType
  <2>5. call.kind = "evaluate" /\ call.id = i /\ call.read = Len(file) /\ call.queue = q
    BY DEF Idle
  <2>. HIDE DEF s, call
  <2>. QED  BY <1>0, <1>3, <2>1, <2>2, <2>4, <2>5, CallBegins DEF s
<1>. QED  BY <1>1, <1>4, <1>5

(* An outcome request that reads again keeps the invariant.                *)
LEMMA OutcomeEvaluateKeeps ==
    ASSUME RegistryInv, NEW c \in Calls, OutcomeEvaluate(c)
    PROVE  RegistryInv'
<1>. DEFINE i == calls[c].id
            s == SnapshotOf(file, i)
            a == calls[c].asOf
            q == EvaluateEvents(i, s, a)
<1>0. TypeOK /\ UNCHANGED <<file, clock, approvals, seen, acked>> /\ calls[c] \in CallType
  BY TypesOf DEF OutcomeEvaluate, world, RegistryInv
<1>1. /\ calls[c].kind = "outcome" /\ MayBeSufficient(s, a)
      /\ calls' = [calls EXCEPT ![c] = [@ EXCEPT !.kind = "evaluate", !.read = Len(file), !.queue = q]]
  BY DEF OutcomeEvaluate
<1>2. i \in Interventions /\ a \in Nat
  BY <1>0, <1>1 DEF CallType, RegistryInv, CallSound
<1>3. s.state # "UNDEFINED"
  BY <1>0, <1>1, <1>2, SnapshotFacts DEF MayBeSufficient
<1>4. /\ q \in Seq(Event)
      /\ \A n \in 1 .. Len(q) : /\ q[n].id = i
                                /\ q[n].type \notin {"define", "approve", "reject", "expire"}
  BY <1>0, <1>2, <1>3, EvaluationTyped
<1>. DEFINE old == calls[c]
            call == [old EXCEPT !.kind = "evaluate", !.read = Len(file), !.queue = q]
<1>5. calls' = [calls EXCEPT ![c] = call]
  BY <1>1
<1>6. old \in CallType /\ "evaluate" \in Kinds /\ Len(file) \in Nat /\ old.id = i
  BY <1>0, TypesOf DEF Kinds
<1>. HIDE DEF q, old
<1>7. call \in CallType
  BY <1>4, <1>6 DEF CallType
<1>8. call.kind = "evaluate" /\ call.id = i /\ call.read = Len(file) /\ call.queue = q
  BY <1>4, <1>6 DEF CallType
<1>. HIDE DEF s, i, a, call
<1>. QED  BY <1>0, <1>2, <1>3, <1>4, <1>5, <1>7, <1>8, CallBegins DEF s

(* A request that dies keeps the invariant.                                *)
LEMMA FailCallKeeps ==
    ASSUME RegistryInv, NEW c \in Calls, FailCall(c)
    PROVE  RegistryInv'
<1>1. /\ calls' = [calls EXCEPT ![c] = Idle]
      /\ UNCHANGED <<file, clock, approvals, seen, acked>>
  BY DEF FailCall, world
<1>2. Idle \in CallType /\ Idle.kind = "idle" /\ Idle.read = 0 /\ Idle.queue = <<>>
  BY DEF Idle, CallType, Kinds
<1>3. \A n \in 1 .. Len(Idle.queue) : FALSE
  BY <1>2
<1>4. Idle.kind # "create" /\ Idle.kind # "event" /\ Idle.read <= Len(file)
  BY <1>2, TypesOf DEF RegistryInv
<1>. QED  BY <1>1, <1>2, <1>3, <1>4, CallChanges

(* A step of the world around the registry keeps the invariant.            *)
LEMMA WorldKeeps ==
    ASSUME RegistryInv, UNCHANGED <<file, calls, seen, acked>>,
           clock' \in 1 .. MaxClock, approvals' \in [Stores -> SUBSET (1 .. MaxClock)]
    PROVE  RegistryInv'
<1>1. TypeOK'
  BY DEF RegistryInv, TypeOK
<1>2. FileSound(file)' /\ HistorySound' /\ CreationsApart'
  BY DEF RegistryInv, HistorySound, CreationsApart, Pending
<1>3. \A c \in Calls : CallSound(c)'
  BY DEF RegistryInv, CallSound
<1>4. EventsTimely'
  BY DEF RegistryInv, EventsTimely, Undisturbed
<1>5. StoreWasFree' /\ KeyWasFree'
  BY DEF RegistryInv, StoreWasFree, KeyWasFree, Pending
<1>. QED  BY <1>1, <1>2, <1>3, <1>4, <1>5 DEF RegistryInv

(* An approval keeps the invariant.                                        *)
LEMMA ApproveKeeps ==
    ASSUME RegistryInv, NEW s \in Stores, Approve(s)
    PROVE  RegistryInv'
<1>1. approvals' \in [Stores -> SUBSET (1 .. MaxClock)] /\ clock' \in 1 .. MaxClock
  BY DEF Approve, RegistryInv, TypeOK
<1>. QED  BY <1>1, WorldKeeps DEF Approve

(* The clock keeps the invariant.                                          *)
LEMMA TickKeeps ==
    ASSUME RegistryInv, Tick
    PROVE  RegistryInv'
<1>1. approvals' \in [Stores -> SUBSET (1 .. MaxClock)] /\ clock' \in 1 .. MaxClock
  BY RegistryAssumption DEF Tick, RegistryInv, TypeOK
<1>. QED  BY <1>1, WorldKeeps DEF Tick

(* What a creation will append, as it reads.                               *)
LEMMA CreationMade ==
    ASSUME NEW i \in Interventions, NEW k \in Keys, NEW at \in Times
    PROVE  LET q == CreationEvents(i, k, at) IN
           /\ q \in Seq(Event) /\ q # <<>> /\ Len(q) = 2
           /\ Head(q) = Message("define", i, at, k) /\ Tail(q) = <<Message("approve", i, at, k)>>
           /\ IsOf(Head(q), "define", i, at, k)
           /\ IsOf(Message("approve", i, at, k), "approve", i, at, k)
           /\ Message("approve", i, at, k).agrees
<1>. DEFINE d == Message("define", i, at, k)
            a == Message("approve", i, at, k)
<1>1. IsOf(d, "define", i, at, k)
  BY MadeMessage
<1>2. IsOf(a, "approve", i, at, k) /\ a.agrees
  BY MadeMessage DEF Transitions
<1>3. CreationEvents(i, k, at) = <<d, a>>
  BY DEF CreationEvents
<1>. HIDE DEF d, a
<1>4. d \in Event /\ a \in Event
  BY <1>1, <1>2 DEF IsOf
<1>5. <<d, a>> \in Seq(Event) /\ <<d, a>> # <<>> /\ Len(<<d, a>>) = 2 /\ Head(<<d, a>>) = d
  BY <1>4
<1>6. Tail(<<d, a>>) = <<a>>
  BY <1>4
<1>. QED  BY <1>1, <1>2, <1>3, <1>5, <1>6 DEF d, a

(* A fresh id is in no event and in no request.                            *)
LEMMA FreshId ==
    ASSUME TypeOK, FreshIds # {}
    PROVE  /\ Min(FreshIds) \in Interventions
           /\ \A n \in 1 .. Len(file) : file[n].id # Min(FreshIds)
           /\ \A c \in Calls : calls[c].id # Min(FreshIds)
<1>1. DOMAIN file = 1 .. Len(file)
  BY TypesOf
<1>2. FreshIds \in SUBSET Nat
  BY RegistryAssumption DEF FreshIds
<1>3. \E m \in FreshIds : \A n \in FreshIds : m <= n
  BY <1>2, LeastElement
<1>4. Min(FreshIds) \in FreshIds
  BY <1>3 DEF Min
<1>. QED  BY <1>1, <1>4 DEF FreshIds

(* A creation that reads and passes its guards keeps the invariant: its    *)
(* store was free and its key new in the file as it is.                    *)
LEMMA CreateReadKeeps ==
    ASSUME RegistryInv, NEW c \in Calls, NEW k \in Keys, CreateRead(c, k)
    PROVE  RegistryInv'
<1>. DEFINE i == Min(FreshIds)
<1>1. /\ TypeOK /\ FileSound(file) /\ file \in Seq(Event) /\ Len(file) \in Nat
      /\ calls \in [Calls -> CallType] /\ calls[c].kind = "idle"
      /\ ~ActiveGuardBlocks(file, k.store) /\ ~RepetitionGuardBlocks(file, k)
      /\ UNCHANGED <<file, clock, approvals, seen, acked>>
  BY TypesOf DEF RegistryInv, CreateRead, world, MayBegin, Idle
<1>2. /\ i \in Interventions /\ \A n \in 1 .. Len(file) : file[n].id # i
      /\ \A d \in Calls : calls[d].id # i
  BY <1>1, FreshId DEF CreateRead
<1>3. PICK at \in approvals[k.store] :
         calls' = [calls EXCEPT ![c] =
           [Idle EXCEPT !.kind = "create", !.id = i, !.read = Len(file),
                        !.queue = CreationEvents(i, k, at)]]
  BY DEF CreateRead
<1>. HIDE DEF i
<1>4. at \in Times
  <2>1. k.store \in Stores
    BY RegistryAssumption
  <2>2. at \in 1 .. MaxClock
    BY <1>1, <2>1 DEF TypeOK
  <2>. QED  BY <2>2 DEF Times
<1>. DEFINE q == CreationEvents(i, k, at)
            call == [Idle EXCEPT !.kind = "create", !.id = i, !.read = Len(file), !.queue = q]
<1>5. /\ q \in Seq(Event) /\ q # <<>> /\ Head(q).type = "define" /\ Head(q).key = k
      /\ Head(q).at = at
  BY <1>2, <1>4, CreationMade DEF IsOf
<1>6. calls' = [calls EXCEPT ![c] = call]
  BY <1>3
<1>. HIDE DEF q
<1>7. call \in CallType
  BY <1>1, <1>2, <1>5 DEF Idle, CallType, Kinds
<1>8. call.kind = "create" /\ call.id = i /\ call.read = Len(file) /\ call.queue = q
  BY DEF Idle
<1>. HIDE DEF call
<1>9. calls'[c] = call /\ \A d \in Calls \ {c} : calls'[d] = calls[d]
  BY <1>1, <1>6
<1>10. TypeOK'
  <2>1. calls' \in [Calls -> CallType]
    BY <1>1, <1>6, <1>7
  <2>. QED  BY <1>1, <2>1 DEF TypeOK, CallType, Kinds
<1>11. FileSound(file)' /\ HistorySound'
  BY <1>1 DEF RegistryInv, HistorySound
<1>12. \A d \in Calls : CallSound(d)'
  <2>1. CallSound(c)'
    <3>1. \A n \in 1 .. Len(file) : ~Holds(file, n, "approve", i)
      BY <1>2 DEF Holds
    <3>2. q = CreationEvents(i, Head(q).key, Head(q).at)
      BY <1>5 DEF q
    <3>. QED  BY <1>1, <1>2, <1>5, <1>8, <1>9, <3>1, <3>2 DEF CallSound
  <2>2. ASSUME NEW d \in Calls \ {c} PROVE CallSound(d)'
    <3>1. calls'[d] = calls[d] /\ CallSound(d)
      BY <1>9 DEF RegistryInv
    <3>. QED  BY <1>1, <3>1 DEF CallSound
  <2>. QED  BY <2>1, <2>2
<1>13. \A d \in Calls \ {c} : (Pending(d)' <=> Pending(d)) /\ (Undisturbed(d)' <=> Undisturbed(d))
  BY <1>1, <1>9 DEF Pending, Undisturbed
<1>14. CreationsApart'
  BY <1>2, <1>8, <1>9, <1>13 DEF RegistryInv, CreationsApart
<1>15. EventsTimely'
  BY <1>1, <1>8, <1>9, <1>13 DEF RegistryInv, EventsTimely
<1>16. ASSUME NEW j \in Interventions, NEW n \in 1 .. Len(file), Holds(file, n, "approve", j),
              k.store = file[n].key.store
       PROVE  Level(SnapshotOf(file, j)) = 4
  <2>. DEFINE s == SnapshotOf(file, j)
  <2>1. 2 <= Level(s) /\ s.key = file[n].key /\ Coherent(s)
    BY <1>1, <1>16, CreationHolds, SnapshotFacts
  <2>2. ~IsActive(s)
    BY <1>1, <1>16, <2>1 DEF ActiveGuardBlocks
  <2>. HIDE DEF s
  <2>3. s.state \notin {"APPROVED", "ACTIVE", "PAUSED"}
    BY <2>1, <2>2 DEF IsActive, ActiveStates, Coherent, Undefined
  <2>4. Level(s) # 2 /\ Level(s) # 3 /\ Level(s) \in 0 .. 4
    BY <2>3, LevelRange
  <2>. QED  BY <2>1, <2>4 DEF s
<1>17. ASSUME NEW j \in Interventions, NEW n \in 1 .. Len(file), Holds(file, n, "define", j),
              file[n].key = k
       PROVE  FALSE
  <2>1. SnapshotOf(file, j).key = k
    BY <1>1, <1>17, CreationHolds
  <2>. QED  BY <1>1, <2>1 DEF RepetitionGuardBlocks
<1>18. Head(calls'[c].queue) = Head(q)
  BY <1>8, <1>9
<1>19. StoreWasFree'
  <2>1. SUFFICES ASSUME NEW j \in Interventions, NEW n \in 1 .. Len(file), Holds(file, n, "approve", j)
        PROVE
        /\ \A l \in Interventions \ {j}, d \in 1 .. Len(file) :
             (Holds(file, d, "define", l) /\ file[d].key.store = file[n].key.store
                /\ n <= seen[l]) => Level(SnapshotOf(file, j)) = 4
        /\ \A d \in Calls :
             (Pending(d)' /\ Head(calls'[d].queue).key.store = file[n].key.store
                /\ n <= calls'[d].read) => Level(SnapshotOf(file, j)) = 4
    BY <1>1 DEF StoreWasFree
  <2>2. /\ \A l \in Interventions \ {j}, d \in 1 .. Len(file) :
             (Holds(file, d, "define", l) /\ file[d].key.store = file[n].key.store
                /\ n <= seen[l]) => Level(SnapshotOf(file, j)) = 4
        /\ \A d \in Calls :
             (Pending(d) /\ Head(calls[d].queue).key.store = file[n].key.store
                /\ n <= calls[d].read) => Level(SnapshotOf(file, j)) = 4
    BY <2>1 DEF RegistryInv, StoreWasFree
  <2>3. ASSUME NEW d \in Calls, Pending(d)', Head(calls'[d].queue).key.store = file[n].key.store,
               n <= calls'[d].read
        PROVE  Level(SnapshotOf(file, j)) = 4
    <3>1. CASE d = c
      BY <1>5, <1>16, <1>18, <2>1, <2>3, <3>1
    <3>2. CASE d # c
      BY <1>9, <1>13, <2>2, <2>3, <3>2
    <3>. QED  BY <3>1, <3>2
  <2>. QED  BY <2>2, <2>3
<1>20. KeyWasFree'
  <2>1. SUFFICES ASSUME NEW j \in Interventions, NEW n \in 1 .. Len(file), Holds(file, n, "define", j)
        PROVE
        /\ \A l \in Interventions \ {j}, d \in 1 .. Len(file) :
             (Holds(file, d, "define", l) /\ file[d].key = file[n].key) => seen[l] < n
        /\ \A d \in Calls :
             (Pending(d)' /\ Head(calls'[d].queue).key = file[n].key) => calls'[d].read < n
    BY <1>1 DEF KeyWasFree
  <2>2. /\ \A l \in Interventions \ {j}, d \in 1 .. Len(file) :
             (Holds(file, d, "define", l) /\ file[d].key = file[n].key) => seen[l] < n
        /\ \A d \in Calls :
             (Pending(d) /\ Head(calls[d].queue).key = file[n].key) => calls[d].read < n
    BY <2>1 DEF RegistryInv, KeyWasFree
  <2>3. ASSUME NEW d \in Calls, Pending(d)', Head(calls'[d].queue).key = file[n].key
        PROVE  calls'[d].read < n
    <3>1. CASE d = c
      BY <1>5, <1>17, <1>18, <2>1, <2>3, <3>1
    <3>2. CASE d # c
      BY <1>9, <1>13, <2>2, <2>3, <3>2
    <3>. QED  BY <3>1, <3>2
  <2>. QED  BY <2>2, <2>3
<1>. QED  BY <1>10, <1>11, <1>12, <1>14, <1>15, <1>19, <1>20 DEF RegistryInv

-----------------------------------------------------------------------------
(* Requests that append.                                                   *)

\* What a step that appends the next event of c does, whatever the request.
Appends(c) ==
    LET e == Head(calls[c].queue) IN
    /\ e \in Event /\ e.id = calls[c].id /\ e.type \notin {"reject", "expire"}
    /\ calls[c].kind # "idle" /\ file' = Append(file, e)
    /\ \A d \in Calls \ {c} : calls'[d] = calls[d]
    /\ calls'[c].kind # "idle" =>
         calls'[c].kind = calls[c].kind /\ calls'[c].id = calls[c].id /\ calls'[c].read = calls[c].read
    /\ e.type = "define" => Pending(c)
    /\ e.type = "approve" => /\ calls[c].kind = "create" /\ e.agrees
                             /\ \E d \in 1 .. Len(file) :
                                  /\ Holds(file, d, "define", calls[c].id)
                                  /\ file[d].at = e.at /\ file[d].key = e.key
    /\ \A i \in Interventions :
         seen'[i] = IF e.type = "define" /\ i = calls[c].id THEN calls[c].read ELSE seen[i]
    /\ acked' \subseteq acked \cup (IF e.type = "approve" THEN {e.id} ELSE {})
    /\ TypeOK' /\ CallSound(c)' /\ ~Pending(c)'

(* The first event of a queue, and the rest.                               *)
LEMMA NextOf ==
    ASSUME NEW q \in Seq(Event), q # <<>>
    PROVE  /\ Head(q) \in Event /\ Tail(q) \in Seq(Event) /\ Len(q) \in Nat /\ Len(q) >= 1
           /\ Head(q) = q[1] /\ Len(Tail(q)) = Len(q) - 1
           /\ \A n \in 1 .. Len(Tail(q)) : n + 1 \in 1 .. Len(q) /\ Tail(q)[n] = q[n + 1]
OBVIOUS

(* AppendEvent is an append step whatever the request is: a definition or  *)
(* an approval comes from a creation only.                                 *)
LEMMA AppendsOf ==
    ASSUME RegistryInv, NEW c \in Calls, AppendEvent(c)
    PROVE  Appends(c)
<1>. DEFINE call == calls[c]
            e == Head(call.queue)
            last == Len(call.queue) = 1
            new == [call EXCEPT !.queue = Tail(@)]
<1>1. /\ TypeOK /\ file \in Seq(Event) /\ Len(file) \in Nat /\ calls \in [Calls -> CallType]
      /\ call \in CallType /\ CallSound(c)
  BY TypesOf DEF RegistryInv
<1>2. /\ call.queue # <<>> /\ file' = Append(file, e)
      /\ calls' = [calls EXCEPT ![c] = IF last /\ call.kind # "outcome" THEN Idle ELSE new]
      /\ seen' = IF e.type = "define" THEN [seen EXCEPT ![call.id] = call.read] ELSE seen
      /\ acked' = IF last /\ call.kind = "create" THEN acked \cup {call.id} ELSE acked
      /\ clock' = clock /\ approvals' = approvals
  BY DEF AppendEvent, world
<1>3. /\ call.queue \in Seq(Event) /\ call.read \in Nat /\ call.kind \in Kinds
      /\ call.kind # "idle" /\ call.id \in Interventions
  <2>1. call.queue \in Seq(Event) /\ call.read \in Nat /\ call.kind \in Kinds
    BY <1>1 DEF CallType
  <2>. QED  BY <1>1, <1>2, <2>1 DEF CallSound
<1>4. /\ e \in Event /\ Tail(call.queue) \in Seq(Event) /\ Len(call.queue) >= 1 /\ e = call.queue[1]
      /\ Len(call.queue) \in Nat /\ Len(Tail(call.queue)) = Len(call.queue) - 1
  BY <1>2, <1>3, NextOf
<1>5. /\ new \in CallType /\ new.kind = call.kind /\ new.id = call.id /\ new.read = call.read
      /\ new.queue = Tail(call.queue)
  <2>. HIDE DEF call
  <2>1. Tail(call.queue) \in Seq(Event)
    BY <1>4
  <2>. QED  BY <1>1, <2>1 DEF CallType
<1>6. Idle \in CallType /\ Idle.kind = "idle" /\ Idle.read = 0 /\ Idle.queue = <<>>
  BY DEF Idle, CallType, Kinds
<1>. HIDE DEF new, e, last
<1>7. /\ calls'[c] = IF last /\ call.kind # "outcome" THEN Idle ELSE new
      /\ calls' \in [Calls -> CallType]
      /\ \A d \in Calls \ {c} : calls'[d] = calls[d]
  BY <1>1, <1>2, <1>5, <1>6
<1>8. TypeOK'
  <2>1. file' \in Seq(Event)
    BY <1>1, <1>2, <1>4
  <2>2. seen' \in [Interventions -> Nat] /\ acked' \subseteq Interventions
    BY <1>1, <1>2, <1>3 DEF TypeOK
  <2>. HIDE DEF call
  <2>. QED  BY <1>1, <1>2, <1>7, <2>1, <2>2 DEF TypeOK, CallType, Kinds
<1>9. \A i \in Interventions :
         seen'[i] = IF e.type = "define" /\ i = call.id THEN call.read ELSE seen[i]
  BY <1>1, <1>2, <1>3 DEF TypeOK
<1>10. /\ calls'[c].kind # "idle" =>
            calls'[c].kind = call.kind /\ calls'[c].id = call.id /\ calls'[c].read = call.read
       /\ calls'[c].kind = "idle" => calls'[c].queue = <<>>
  BY <1>3, <1>5, <1>6, <1>7
<1>11. file' \in Seq(Event) /\ Len(file') = Len(file) + 1 /\ file'[Len(file) + 1] = e
       /\ \A n \in 1 .. Len(file) : file'[n] = file[n] /\ n \in 1 .. Len(file')
  BY <1>1, <1>2, <1>4, Appended
<1>12. calls'[c].read <= Len(file') /\ (calls'[c].kind # "idle" => calls'[c].id \in Interventions)
  <2>1. call.read <= Len(file)
    BY <1>1 DEF CallSound
  <2>2. calls'[c].read = call.read \/ calls'[c].read = 0
    BY <1>5, <1>6, <1>7
  <2>. HIDE DEF call
  <2>. QED  BY <1>1, <1>3, <1>10, <1>11, <2>1, <2>2
<1>13. CASE call.kind # "create"
  <2>1. \A n \in 1 .. Len(call.queue) :
               /\ call.queue[n].id = call.id
               /\ call.queue[n].type \notin {"define", "approve", "reject", "expire"}
    BY <1>1, <1>13 DEF CallSound
  <2>2. e.id = call.id /\ e.type \notin {"define", "approve", "reject", "expire"}
    BY <1>4, <2>1
  <2>3. calls'[c].kind # "create"
    BY <1>6, <1>10, <1>13
  <2>4. \A n \in 1 .. Len(calls'[c].queue) :
               /\ calls'[c].queue[n].id = calls'[c].id
               /\ calls'[c].queue[n].type \notin {"define", "approve", "reject", "expire"}
    <3>1. CASE calls'[c] = Idle
      <4>1. \A n \in 1 .. Len(<<>>) : FALSE
        OBVIOUS
      <4>. QED  BY <1>6, <3>1, <4>1
    <3>2. CASE calls'[c] = new
      <4>. DEFINE q == call.queue
      <4>1. \A n \in 1 .. Len(Tail(q)) : n + 1 \in 1 .. Len(q) /\ Tail(q)[n] = q[n + 1]
        BY <1>2, <1>3, NextOf
      <4>2. calls'[c].queue = Tail(q) /\ calls'[c].id = call.id
        BY <1>5, <3>2
      <4>. HIDE DEF call
      <4>. QED  BY <2>1, <4>1, <4>2
    <3>. QED  BY <1>7, <3>1, <3>2
  <2>5. CallSound(c)'
    BY <1>10, <1>12, <2>3, <2>4 DEF CallSound
  <2>6. ~Pending(c)'
    BY <2>3 DEF Pending
  <2>7. acked' = acked
    BY <1>2, <1>13
  <2>. QED  BY <1>2, <1>3, <1>4, <1>7, <1>8, <1>9, <1>10, <2>2, <2>5, <2>6, <2>7 DEF Appends, e, call
<1>14. CASE call.kind = "create" /\ Pending(c)
  <2>. DEFINE k == e.key
              at == e.at
              a == Message("approve", call.id, at, k)
  <2>1. e.type = "define" /\ k \in Keys /\ at \in Times
    BY <1>4, <1>14 DEF Pending, Event, e
  <2>. HIDE DEF k, at
  <2>2. /\ call.queue = CreationEvents(call.id, k, at)
        /\ \A n \in 1 .. Len(file) : file[n].id # call.id
    <3>1. \A q, i, t, l : q = <<Message("approve", i, t, l)>> => Head(q).type = "approve"
      BY DEF Message
    <3>. QED  BY <1>1, <1>14, <2>1, <3>1 DEF CallSound, e, k, at
  <2>3. /\ Len(call.queue) = 2 /\ Tail(call.queue) = <<a>> /\ e = Message("define", call.id, at, k)
        /\ IsOf(e, "define", call.id, at, k)
        /\ IsOf(a, "approve", call.id, at, k) /\ a.agrees
    <3>. HIDE DEF call
    <3>. QED  BY <1>3, <2>1, <2>2, CreationMade DEF e
  <2>4. ~last
    BY <2>3 DEF last
  <2>5. calls'[c] = new /\ acked' = acked
    BY <1>2, <1>7, <2>4
  <2>6. calls'[c].queue = <<a>> /\ calls'[c].kind = "create" /\ calls'[c].id = call.id
    BY <1>5, <1>14, <2>3, <2>5
  <2>7. <<a>> # <<>> /\ Head(<<a>>) = a
    OBVIOUS
  <2>. HIDE DEF a
  <2>8. a.type = "approve" /\ a.id = call.id /\ a.at = at /\ a.key = k
        /\ e.type = "define" /\ e.id = call.id /\ e.at = at /\ e.key = k
    BY <2>3 DEF IsOf
  <2>9. ~Pending(c)'
    BY <2>6, <2>7, <2>8 DEF Pending
  <2>10. \A n \in 1 .. Len(file') : ~Holds(file', n, "approve", call.id)
    <3>1. SUFFICES ASSUME NEW n \in 1 .. Len(file'), Holds(file', n, "approve", call.id) PROVE FALSE
      OBVIOUS
    <3>2. n \in 1 .. Len(file) \/ n = Len(file) + 1
      BY <1>1, <1>11
    <3>3. CASE n \in 1 .. Len(file)
      BY <1>11, <2>2, <3>1, <3>3 DEF Holds
    <3>4. CASE n = Len(file) + 1
      BY <1>11, <2>1, <3>1, <3>4 DEF Holds
    <3>. QED  BY <3>2, <3>3, <3>4
  <2>11. \E d \in 1 .. Len(file') : /\ Holds(file', d, "define", call.id)
                                    /\ file'[d].at = at /\ file'[d].key = k
    <3>1. Len(file) + 1 \in 1 .. Len(file')
      BY <1>1, <1>11
    <3>. QED  BY <1>11, <2>8, <3>1 DEF Holds
  <2>12. calls'[c].queue =
            <<Message("approve", calls'[c].id, Head(calls'[c].queue).at, Head(calls'[c].queue).key)>>
    BY <2>6, <2>7, <2>8 DEF a
  <2>13. /\ Head(calls'[c].queue).at = at /\ Head(calls'[c].queue).key = k /\ calls'[c].queue # <<>>
    BY <2>6, <2>7, <2>8
  <2>14. CallSound(c)'
    BY <1>12, <2>6, <2>10, <2>11, <2>12, <2>13 DEF CallSound
  <2>. QED  BY <1>2, <1>3, <1>4, <1>7, <1>8, <1>9, <1>10, <1>14,
               <2>5, <2>8, <2>9, <2>14 DEF Appends, e, call
<1>15. CASE call.kind = "create" /\ ~Pending(c)
  <2>1. /\ call.queue = <<Message("approve", call.id, e.at, e.key)>>
        /\ \E d \in 1 .. Len(file) : /\ Holds(file, d, "define", call.id)
                                     /\ file[d].at = e.at /\ file[d].key = e.key
    <3>1. ~(e.type = "define")
      BY <1>2, <1>15 DEF Pending, e
    <3>2. e.key \in Keys /\ e.at \in Times
      BY <1>4 DEF Event
    <3>3. call.queue # CreationEvents(call.id, e.key, e.at)
      <4>1. Head(CreationEvents(call.id, e.key, e.at)).type = "define"
        BY <1>3, <3>2, CreationMade DEF IsOf
      <4>. QED  BY <3>1, <4>1 DEF e
    <3>. QED  BY <1>1, <1>15, <3>3 DEF CallSound, e
  <2>. DEFINE a == Message("approve", call.id, e.at, e.key)
  <2>2. e = a
    <3>. HIDE DEF a
    <3>1. Head(<<a>>) = a
      OBVIOUS
    <3>. QED  BY <2>1, <3>1 DEF e, a
  <2>3. e.type = "approve" /\ e.id = call.id /\ e.agrees
    <3>1. a.type = "approve" /\ a.id = call.id /\ a.agrees
      BY DEF Message
    <3>. HIDE DEF a
    <3>. QED  BY <2>2, <3>1
  <2>4. last /\ calls'[c] = Idle
    <3>. HIDE DEF a
    <3>1. Len(<<a>>) = 1
      OBVIOUS
    <3>2. last
      BY <2>1, <3>1 DEF last, a
    <3>. QED  BY <1>7, <1>15, <3>2
  <2>5. acked' \subseteq acked \cup {e.id}
    BY <1>2, <1>15, <2>3, <2>4
  <2>6. CallSound(c)' /\ ~Pending(c)'
    <3>1. \A n \in 1 .. Len(<<>>) : FALSE
      OBVIOUS
    <3>2. calls'[c].kind = "idle" /\ calls'[c].queue = <<>>
      BY <1>6, <2>4
    <3>. QED  BY <1>12, <3>1, <3>2 DEF CallSound, Pending
  <2>. QED  BY <1>2, <1>3, <1>4, <1>7, <1>8, <1>9, <1>10, <1>15,
               <2>1, <2>3, <2>5, <2>6 DEF Appends, e, call
<1>. QED  BY <1>13, <1>14, <1>15

\* The file with one event more.
Grown(e) ==
    /\ e \in Event /\ Len(file) \in Nat /\ Len(file') = Len(file) + 1
    /\ file'[Len(file) + 1] = e
    /\ \A n \in 1 .. Len(file) : file'[n] = file[n]
    /\ \A n : n \in 1 .. Len(file') <=> (n \in 1 .. Len(file) \/ n = Len(file) + 1)
    /\ \A n, type, i : Holds(file', n, type, i) <=>
         \/ Holds(file, n, type, i)
         \/ n = Len(file) + 1 /\ e.type = type /\ e.id = i

(* An append step makes the file one event longer.                         *)
LEMMA AppendGrows ==
    ASSUME TypeOK, NEW e \in Event, file' = Append(file, e)
    PROVE  Grown(e)
<1>1. /\ file \in Seq(Event) /\ Len(file) \in Nat /\ Len(file') = Len(file) + 1
      /\ file'[Len(file) + 1] = e
      /\ \A n \in 1 .. Len(file) : file'[n] = file[n]
  BY TypesOf, Appended
<1>2. \A n : n \in 1 .. Len(file') <=> (n \in 1 .. Len(file) \/ n = Len(file) + 1)
  BY <1>1
<1>3. ASSUME NEW n, NEW type, NEW i
      PROVE  Holds(file', n, type, i) <=>
                 \/ Holds(file, n, type, i)
                 \/ n = Len(file) + 1 /\ e.type = type /\ e.id = i
  <2>1. CASE n \in 1 .. Len(file)
    <3>1. n # Len(file) + 1 /\ file'[n] = file[n] /\ n \in 1 .. Len(file')
      BY <1>1, <1>2, <2>1
    <3>. QED  BY <2>1, <3>1 DEF Holds
  <2>2. CASE n = Len(file) + 1
    <3>1. n \notin 1 .. Len(file) /\ file'[n] = e /\ n \in 1 .. Len(file')
      BY <1>1, <1>2, <2>2
    <3>. QED  BY <2>2, <3>1 DEF Holds
  <2>3. CASE n \notin 1 .. Len(file) /\ n # Len(file) + 1
    BY <1>2, <2>3 DEF Holds
  <2>. QED  BY <2>1, <2>2, <2>3
<1>. QED  BY <1>1, <1>2, <1>3 DEF Grown

\* What the other lemmas on an append step start from.
LEMMA AppendFacts ==
    ASSUME RegistryInv, NEW c \in Calls, Appends(c)
    PROVE  LET e == Head(calls[c].queue) IN
           /\ TypeOK /\ Grown(e) /\ file' = Append(file, e) /\ e.id = calls[c].id
           /\ \A d \in Calls : CallSound(d) /\ calls[d].read \in Nat /\ calls[d].read <= Len(file)
           /\ \A d \in Calls : d # c => calls'[d] = calls[d] /\ (Pending(d)' <=> Pending(d))
           /\ ~Pending(c)'
           /\ e.type = "define" => \A n \in 1 .. Len(file) : file[n].id # calls[c].id
           /\ \A i \in Interventions : seen[i] \in Nat /\ seen'[i] \in Nat /\ seen'[i] <= Len(file)
<1>. DEFINE e == Head(calls[c].queue)
<1>1. e \in Event /\ file' = Append(file, e) /\ e.id = calls[c].id /\ e.id \in Interventions
  BY DEF Appends, Event
<1>2. TypeOK /\ Grown(e)
  BY <1>1, AppendGrows DEF RegistryInv
<1>3. \A d \in Calls : CallSound(d) /\ calls[d].read \in Nat /\ calls[d].read <= Len(file)
  BY <1>2, TypesOf DEF RegistryInv, CallSound, CallType
<1>4. \A d \in Calls : d # c => calls'[d] = calls[d] /\ (Pending(d)' <=> Pending(d))
  BY DEF Appends, Pending
<1>5. e.type = "define" => \A n \in 1 .. Len(file) : file[n].id # calls[c].id
  <2>1. SUFFICES ASSUME e.type = "define", \E n \in 1 .. Len(file) : file[n].id = calls[c].id
                 PROVE  FALSE
    OBVIOUS
  <2>2. Pending(c) /\ calls[c].id \in Interventions
    BY <1>1, <2>1 DEF Appends
  <2>. QED  BY <2>1, <2>2, NotOfPending
<1>6. ASSUME NEW i \in Interventions
      PROVE  seen[i] \in Nat /\ seen'[i] \in Nat /\ seen'[i] <= Len(file)
  <2>1. seen[i] \in Nat /\ seen[i] <= Len(file)
    BY <1>2 DEF RegistryInv, TypeOK, HistorySound
  <2>2. seen'[i] = seen[i] \/ seen'[i] = calls[c].read
    BY DEF Appends
  <2>. QED  BY <1>3, <2>1, <2>2
<1>7. ~Pending(c)'
  BY DEF Appends
<1>. HIDE DEF e
<1>. QED  BY <1>1, <1>2, <1>3, <1>4, <1>5, <1>6, <1>7 DEF e

(* The file stays sound: an id is fresh when it is defined, and approved   *)
(* after that, once.                                                       *)
LEMMA FileStaysSound ==
    ASSUME RegistryInv, NEW c \in Calls, Appends(c)
    PROVE  FileSound(file')
<1>. DEFINE e == Head(calls[c].queue)
            N == Len(file)
<1>1. /\ Grown(e) /\ e.id = calls[c].id /\ CallSound(c) /\ FileSound(file)
      /\ e.type = "define" => \A n \in 1 .. N : file[n].id # calls[c].id
  BY AppendFacts DEF RegistryInv
<1>2. /\ e.type \notin {"reject", "expire"}
      /\ e.type = "approve" => /\ calls[c].kind = "create" /\ e.agrees
                               /\ \E d \in 1 .. N : /\ Holds(file, d, "define", calls[c].id)
                                                    /\ file[d].at = e.at /\ file[d].key = e.key
  BY DEF Appends
<1>3. \A n \in 1 .. N : ~Holds(file, n, "define", e.id) \/ e.type # "define"
  BY <1>1 DEF Holds
<1>4. \A n \in 1 .. N : ~Holds(file, n, "approve", e.id) \/ e.type # "approve"
  BY <1>1, <1>2 DEF CallSound
<1>. HIDE DEF e, N
<1>5. \A n \in 1 .. Len(file') : file'[n].type \notin {"reject", "expire"}
  BY <1>1, <1>2 DEF Grown, FileSound
<1>6. ASSUME NEW type \in {"define", "approve"}, NEW i \in Interventions,
             NEW m \in 1 .. Len(file'), NEW n \in 1 .. Len(file'),
             Holds(file', m, type, i), Holds(file', n, type, i)
      PROVE  m = n
  <2>1. \A k : Holds(file, k, type, i) => k \in 1 .. N
    BY DEF Holds, N
  <2>2. /\ Holds(file, m, type, i) \/ (m = N + 1 /\ e.type = type /\ e.id = i)
        /\ Holds(file, n, type, i) \/ (n = N + 1 /\ e.type = type /\ e.id = i)
    BY <1>1, <1>6 DEF Grown, N
  <2>3. CASE e.type = type /\ e.id = i
    BY <1>3, <1>4, <2>1, <2>2, <2>3
  <2>4. CASE ~(e.type = type /\ e.id = i)
    BY <1>1, <2>1, <2>2, <2>4 DEF FileSound, N
  <2>. QED  BY <2>3, <2>4
<1>7. ASSUME NEW i \in Interventions, NEW n \in 1 .. Len(file'), Holds(file', n, "approve", i)
      PROVE  /\ file'[n].agrees
             /\ \E d \in 1 .. Len(file') : /\ d < n /\ Holds(file', d, "define", i)
                                           /\ file'[d].at = file'[n].at /\ file'[d].key = file'[n].key
  <2>0. N \in Nat /\ \A k \in 1 .. N : file'[k] = file[k] /\ k \in 1 .. Len(file') /\ k < N + 1
    BY <1>1 DEF Grown, N
  <2>1. CASE Holds(file, n, "approve", i)
    <3>1. n \in 1 .. N
      BY <2>1 DEF Holds, N
    <3>2. PICK d \in 1 .. N : /\ d < n /\ Holds(file, d, "define", i)
                              /\ file[d].at = file[n].at /\ file[d].key = file[n].key
      BY <1>1, <2>1, <3>1 DEF FileSound, N
    <3>3. file[n].agrees /\ Holds(file', d, "define", i)
      BY <1>1, <2>1, <3>1, <3>2 DEF FileSound, N, Grown
    <3>. QED  BY <2>0, <3>1, <3>2, <3>3
  <2>2. CASE n = N + 1 /\ e.type = "approve" /\ e.id = i
    <3>1. PICK d \in 1 .. N : /\ Holds(file, d, "define", i)
                              /\ file[d].at = e.at /\ file[d].key = e.key
      BY <1>1, <1>2, <2>2
    <3>2. Holds(file', d, "define", i) /\ file'[n] = e
      BY <1>1, <2>2, <3>1 DEF Grown, N
    <3>. QED  BY <1>2, <2>0, <2>2, <3>1, <3>2
  <2>. QED  BY <1>1, <1>7, <2>1, <2>2 DEF Grown, N
<1>. QED  BY <1>5, <1>6, <1>7 DEF FileSound

\* In the file that has grown an intervention has come at least as far.
LEMMA LevelsGrow ==
    ASSUME RegistryInv, NEW c \in Calls, Appends(c)
    PROVE  \A j \in Interventions :
             /\ Level(SnapshotOf(file, j)) <= Level(SnapshotOf(file', j))
             /\ Level(SnapshotOf(file, j)) = 4 => Level(SnapshotOf(file', j)) = 4
             /\ j # calls[c].id => SnapshotOf(file', j) = SnapshotOf(file, j)
<1>. DEFINE e == Head(calls[c].queue)
<1>1. TypeOK /\ e \in Event /\ file' = Append(file, e) /\ e.id = calls[c].id
  BY AppendFacts DEF Grown
<1>2. file \in Seq(Event)
  BY <1>1, TypesOf
<1>3. FileSound(Append(file, e))
  BY <1>1, FileStaysSound
<1>. HIDE DEF e
<1>4. /\ \A i \in Interventions \ {e.id} : SnapshotOf(Append(file, e), i) = SnapshotOf(file, i)
      /\ \A i \in Interventions :
           Level(SnapshotOf(file, i)) <= Level(SnapshotOf(Append(file, e), i))
  BY <1>1, <1>2, <1>3, AppendMoves
<1>5. /\ \A i \in Interventions \ {e.id} : SnapshotOf(file', i) = SnapshotOf(file, i)
      /\ \A i \in Interventions : Level(SnapshotOf(file, i)) <= Level(SnapshotOf(file', i))
  BY <1>1, <1>4
<1>6. \A j \in Interventions : /\ Level(SnapshotOf(file, j)) \in 0 .. 4
                               /\ Level(SnapshotOf(file', j)) \in 0 .. 4
  BY LevelRange
<1>. QED  BY <1>1, <1>5, <1>6

(* The requests on their way stay sound: nobody else writes about the      *)
(* intervention of a pending creation.                                     *)
LEMMA CallsStaySound ==
    ASSUME RegistryInv, NEW c \in Calls, Appends(c)
    PROVE  (\A d \in Calls : CallSound(d)')  /\ CreationsApart'
<1>. DEFINE e == Head(calls[c].queue)
            N == Len(file)
<1>1. /\ Grown(e) /\ e.id = calls[c].id /\ CreationsApart
      /\ \A d \in Calls : CallSound(d) /\ calls[d].read \in Nat /\ calls[d].read <= N
      /\ \A d \in Calls : d # c => calls'[d] = calls[d] /\ (Pending(d)' <=> Pending(d))
      /\ ~Pending(c)'
  BY AppendFacts DEF RegistryInv
<1>2. /\ calls[c].kind # "idle" /\ CallSound(c)'
      /\ e.type = "approve" => calls[c].kind = "create"
      /\ calls'[c].kind # "idle" => calls'[c].kind = calls[c].kind /\ calls'[c].id = calls[c].id
  BY DEF Appends
<1>. HIDE DEF e, N
<1>3. ASSUME NEW d \in Calls, d # c PROVE CallSound(d)'
  <2>. DEFINE q == calls[d].queue
              i == calls[d].id
              next == Head(q)
  <2>0. /\ calls'[d] = calls[d] /\ CallSound(d) /\ N \in Nat /\ Len(file') = N + 1
        /\ \A n \in 1 .. Len(file') :
             (n \in 1 .. N /\ file'[n] = file[n]) \/ (n = N + 1 /\ file'[n] = e)
        /\ \A n \in 1 .. N : n \in 1 .. Len(file') /\ file'[n] = file[n]
    BY <1>1, <1>3 DEF Grown, N
  <2>1. calls[d].read <= Len(file')
    BY <1>1, <2>0
  <2>2. ASSUME calls[d].kind = "create"
        PROVE  /\ q # <<>>
               /\ \A n \in 1 .. Len(file') : ~Holds(file', n, "approve", i)
               /\ \/ /\ q = CreationEvents(i, next.key, next.at)
                     /\ \A n \in 1 .. Len(file') : file'[n].id # i
                  \/ /\ q = <<Message("approve", i, next.at, next.key)>>
                     /\ \E m \in 1 .. Len(file') : /\ Holds(file', m, "define", i)
                                                   /\ file'[m].at = next.at /\ file'[m].key = next.key
    <3>1. e.type = "approve" => e.id # i
      BY <1>1, <1>2, <1>3, <2>2 DEF CreationsApart
    <3>2. q # <<>> /\ \A n \in 1 .. N : ~Holds(file, n, "approve", i)
      BY <2>0, <2>2 DEF CallSound, N
    <3>3. \A n \in 1 .. Len(file') : ~Holds(file', n, "approve", i)
      <4>1. \A n : Holds(file, n, "approve", i) => n \in 1 .. N
        BY DEF Holds, N
      <4>. QED  BY <1>1, <3>1, <3>2, <4>1 DEF Grown
    <3>4. CASE /\ q = CreationEvents(i, next.key, next.at)
               /\ \A n \in 1 .. N : file[n].id # i
      <4>1. Head(q).type = "define"
        <5>1. \A p, j, k, at : p = CreationEvents(j, k, at) => Head(p).type = "define"
          BY DEF CreationEvents, Message
        <5>. QED  BY <3>4, <5>1
      <4>2. Pending(d)
        BY <2>2, <3>2, <4>1 DEF Pending
      <4>3. e.id # i
        BY <1>1, <1>2, <1>3, <2>2, <4>2 DEF CreationsApart
      <4>4. \A n \in 1 .. Len(file') : file'[n].id # i
        BY <2>0, <3>4, <4>3
      <4>. QED  BY <3>2, <3>3, <3>4, <4>4
    <3>5. CASE /\ q = <<Message("approve", i, next.at, next.key)>>
               /\ \E m \in 1 .. N : /\ Holds(file, m, "define", i)
                                    /\ file[m].at = next.at /\ file[m].key = next.key
      <4>1. PICK m \in 1 .. N : /\ Holds(file, m, "define", i)
                                /\ file[m].at = next.at /\ file[m].key = next.key
        BY <3>5
      <4>2. Holds(file', m, "define", i) /\ m \in 1 .. Len(file') /\ file'[m] = file[m]
        BY <1>1, <2>0, <4>1 DEF Grown
      <4>. HIDE DEF q, i, next
      <4>. QED  BY <3>2, <3>3, <3>5, <4>1, <4>2
    <3>. QED  BY <2>0, <2>2, <3>4, <3>5 DEF CallSound, N
  <2>3. calls[d].kind # "create" => \A n \in 1 .. Len(q) :
               /\ q[n].id = i
               /\ q[n].type \notin {"define", "approve", "reject", "expire"}
    BY <2>0 DEF CallSound
  <2>4. /\ calls[d].kind # "idle" => i \in Interventions
        /\ calls[d].kind = "idle" => q = <<>>
    BY <2>0 DEF CallSound
  <2>. QED  BY <2>0, <2>1, <2>2, <2>3, <2>4 DEF CallSound
<1>4. ASSUME NEW a \in Calls, NEW b \in Calls, a # b, calls'[a].kind = "create",
             calls'[a].id = calls'[b].id, calls'[b].kind # "idle"
      PROVE  calls'[b].kind # "create" /\ ~Pending(a)'
  <2>1. \A d \in Calls : calls'[d].kind # "idle" =>
           calls'[d].kind = calls[d].kind /\ calls'[d].id = calls[d].id
    BY <1>1, <1>2
  <2>2. calls[b].kind # "create" /\ ~Pending(a)
    BY <1>1, <1>4, <2>1 DEF CreationsApart
  <2>. QED  BY <1>1, <1>4, <2>1, <2>2
<1>5. CreationsApart'
  BY <1>4 DEF CreationsApart
<1>. QED  BY <1>2, <1>3, <1>5

(* An event to come stays timely unless its intervention is written about. *)
LEMMA EventsStayTimely ==
    ASSUME RegistryInv, NEW c \in Calls, Appends(c)
    PROVE  EventsTimely'
<1>. DEFINE e == Head(calls[c].queue)
            N == Len(file)
<1>1. /\ TypeOK /\ Grown(e) /\ e.id = calls[c].id
      /\ \A d \in Calls : CallSound(d) /\ calls[d].read \in Nat /\ calls[d].read <= N
      /\ \A d \in Calls : d # c => calls'[d] = calls[d]
  BY AppendFacts
<1>2. /\ calls'[c].kind # "idle" => calls'[c].id = calls[c].id /\ calls'[c].read = calls[c].read
      /\ TypeOK'
  BY DEF Appends
<1>3. DOMAIN file = 1 .. N /\ DOMAIN file' = 1 .. Len(file')
  BY <1>1, <1>2 DEF TypeOK
<1>4. ASSUME NEW d \in Calls, calls'[d].kind = "event", Undisturbed(d)'
      PROVE  /\ Len(calls'[d].queue) = 1
             /\ SnapshotOf(file', calls'[d].id).updated <= Head(calls'[d].queue).at
  <2>1. N + 1 \in DOMAIN file' /\ N + 1 > calls[d].read /\ file'[N + 1] = e
    BY <1>1, <1>3 DEF Grown
  <2>2. calls'[d].id = calls[d].id /\ calls'[d].read = calls[d].read
    BY <1>1, <1>2, <1>4
  <2>3. e.id # calls[d].id
    BY <1>4, <2>1, <2>2 DEF Undisturbed
  <2>4. d # c /\ calls'[d] = calls[d]
    BY <1>1, <2>3
  <2>5. Undisturbed(d)
    <3>1. \A n \in DOMAIN file : n \in DOMAIN file' /\ file'[n] = file[n]
      BY <1>1, <1>3 DEF Grown
    <3>. QED  BY <1>4, <2>2, <3>1 DEF Undisturbed
  <2>6. calls[d].id \in Interventions
    BY <1>1, <1>4, <2>4 DEF CallSound
  <2>7. SnapshotOf(file', calls[d].id) = SnapshotOf(file, calls[d].id)
    BY <1>1, <2>3, <2>6, LevelsGrow
  <2>. QED  BY <1>4, <2>4, <2>5, <2>7 DEF RegistryInv, EventsTimely
<1>. QED  BY <1>4 DEF EventsTimely

(* Answered creations stay in the file.                                    *)
LEMMA HistoryStaysSound ==
    ASSUME RegistryInv, NEW c \in Calls, Appends(c)
    PROVE  HistorySound'
<1>. DEFINE e == Head(calls[c].queue)
<1>1. /\ Grown(e) /\ HistorySound
      /\ \A i \in Interventions : seen'[i] \in Nat /\ seen'[i] <= Len(file)
  BY AppendFacts DEF RegistryInv
<1>2. acked' \subseteq acked \cup (IF e.type = "approve" THEN {e.id} ELSE {})
  BY DEF Appends
<1>. HIDE DEF e
<1>3. \A i \in Interventions : seen'[i] <= Len(file')
  BY <1>1 DEF Grown
<1>4. ASSUME NEW i \in acked' PROVE \E n \in 1 .. Len(file') : Holds(file', n, "approve", i)
  <2>1. CASE i \in acked
    <3>1. PICK n \in 1 .. Len(file) : Holds(file, n, "approve", i)
      BY <1>1, <2>1 DEF HistorySound
    <3>. QED  BY <1>1, <3>1 DEF Grown
  <2>2. CASE e.type = "approve" /\ i = e.id
    BY <1>1, <2>2 DEF Grown
  <2>. QED  BY <1>2, <2>1, <2>2
<1>. QED  BY <1>3, <1>4 DEF HistorySound

\* Whose definition is in the file: its guards read what they are said to have read.
LEMMA SeenOf ==
    ASSUME RegistryInv, NEW c \in Calls, Appends(c), NEW i \in Interventions,
           NEW d \in 1 .. Len(file'), Holds(file', d, "define", i)
    PROVE  \/ Holds(file, d, "define", i) /\ seen'[i] = seen[i] /\ file'[d] = file[d]
           \/ /\ Pending(c) /\ seen'[i] = calls[c].read /\ i = calls[c].id
              /\ file'[d] = Head(calls[c].queue)
<1>. DEFINE e == Head(calls[c].queue)
<1>1. /\ Grown(e) /\ e.id = calls[c].id
      /\ e.type = "define" => \A n \in 1 .. Len(file) : file[n].id # calls[c].id
  BY AppendFacts
<1>2. /\ e.type = "define" => Pending(c)
      /\ seen'[i] = IF e.type = "define" /\ i = calls[c].id THEN calls[c].read ELSE seen[i]
  BY DEF Appends
<1>. HIDE DEF e
<1>3. CASE Holds(file, d, "define", i)
  <2>1. d \in 1 .. Len(file) /\ file[d].id = i
    BY <1>3 DEF Holds
  <2>. QED  BY <1>1, <1>2, <1>3, <2>1 DEF Grown
<1>4. CASE d = Len(file) + 1 /\ e.type = "define" /\ e.id = i
  BY <1>1, <1>2, <1>4 DEF Grown, e
<1>. QED  BY <1>1, <1>3, <1>4 DEF Grown

(* Who has ended when a creation reads stays ended as the file grows.      *)
LEMMA StoreStaysFree ==
    ASSUME RegistryInv, NEW c \in Calls, Appends(c)
    PROVE  StoreWasFree'
<1>. DEFINE e == Head(calls[c].queue)
            N == Len(file)
<1>1. /\ Grown(e) /\ StoreWasFree
      /\ \A d \in Calls : calls[d].read \in Nat /\ calls[d].read <= N
      /\ \A d \in Calls : d # c => calls'[d] = calls[d] /\ (Pending(d)' <=> Pending(d))
      /\ ~Pending(c)'
      /\ \A i \in Interventions : seen'[i] \in Nat /\ seen'[i] <= N
  BY AppendFacts DEF RegistryInv
<1>2. SUFFICES ASSUME NEW j \in Interventions, NEW n \in 1 .. Len(file'),
                      Holds(file', n, "approve", j)
               PROVE  /\ \A i \in Interventions \ {j}, d \in 1 .. Len(file') :
                           (Holds(file', d, "define", i) /\ file'[d].key.store = file'[n].key.store
                              /\ n <= seen'[i]) => Level(SnapshotOf(file', j)) = 4
                      /\ \A b \in Calls :
                           (Pending(b)' /\ Head(calls'[b].queue).key.store = file'[n].key.store
                              /\ n <= calls'[b].read) => Level(SnapshotOf(file', j)) = 4
  BY DEF StoreWasFree
<1>3. Level(SnapshotOf(file, j)) = 4 => Level(SnapshotOf(file', j)) = 4
  BY LevelsGrow
<1>. HIDE DEF e
<1>4. \A r \in Nat : r <= N /\ n <= r =>
         n \in 1 .. N /\ Holds(file, n, "approve", j) /\ file'[n] = file[n]
  <2>1. N \in Nat /\ Len(file') = N + 1
    BY <1>1 DEF Grown
  <2>2. n \in 1 .. N => Holds(file, n, "approve", j) /\ file'[n] = file[n]
    BY <1>1, <1>2, <2>1 DEF Grown, N
  <2>. HIDE DEF N
  <2>. QED  BY <2>1, <2>2
<1>5. ASSUME NEW i \in Interventions \ {j}, NEW d \in 1 .. Len(file'), Holds(file', d, "define", i),
             file'[d].key.store = file'[n].key.store, n <= seen'[i]
      PROVE  Level(SnapshotOf(file, j)) = 4
  <2>1. n \in 1 .. N /\ Holds(file, n, "approve", j) /\ file'[n] = file[n]
    BY <1>1, <1>4, <1>5
  <2>2. CASE Holds(file, d, "define", i) /\ seen'[i] = seen[i] /\ file'[d] = file[d]
    <3>1. d \in 1 .. Len(file)
      BY <2>2 DEF Holds
    <3>. QED  BY <1>1, <1>5, <2>1, <2>2, <3>1 DEF StoreWasFree
  <2>3. CASE Pending(c) /\ seen'[i] = calls[c].read /\ file'[d] = e
    BY <1>1, <1>5, <2>1, <2>3 DEF StoreWasFree, e
  <2>. QED  BY <1>5, <2>2, <2>3, SeenOf DEF e
<1>6. ASSUME NEW b \in Calls, Pending(b)', Head(calls'[b].queue).key.store = file'[n].key.store,
             n <= calls'[b].read
      PROVE  Level(SnapshotOf(file, j)) = 4
  <2>1. b # c /\ calls'[b] = calls[b] /\ Pending(b)
    BY <1>1, <1>6
  <2>2. n \in 1 .. N /\ Holds(file, n, "approve", j) /\ file'[n] = file[n]
    BY <1>1, <1>4, <1>6, <2>1
  <2>. QED  BY <1>1, <1>6, <2>1, <2>2 DEF StoreWasFree
<1>. QED  BY <1>3, <1>5, <1>6

(* A key defined after the guards read stands behind what they read.       *)
LEMMA KeyStaysFree ==
    ASSUME RegistryInv, NEW c \in Calls, Appends(c)
    PROVE  KeyWasFree'
<1>. DEFINE e == Head(calls[c].queue)
            N == Len(file)
<1>1. /\ Grown(e) /\ KeyWasFree /\ N \in Nat
      /\ \A d \in Calls : calls[d].read \in Nat /\ calls[d].read <= N
      /\ \A d \in Calls : d # c => calls'[d] = calls[d] /\ (Pending(d)' <=> Pending(d))
      /\ ~Pending(c)'
      /\ \A i \in Interventions : seen'[i] \in Nat /\ seen'[i] <= N
  BY AppendFacts DEF RegistryInv, Grown
<1>2. SUFFICES ASSUME NEW j \in Interventions, NEW n \in 1 .. Len(file'),
                      Holds(file', n, "define", j)
               PROVE  /\ \A i \in Interventions \ {j}, d \in 1 .. Len(file') :
                           (Holds(file', d, "define", i) /\ file'[d].key = file'[n].key)
                               => seen'[i] < n
                      /\ \A b \in Calls :
                           (Pending(b)' /\ Head(calls'[b].queue).key = file'[n].key)
                               => calls'[b].read < n
  BY DEF KeyWasFree
<1>. HIDE DEF e
<1>3. \/ n = N + 1
      \/ n \in 1 .. N /\ Holds(file, n, "define", j) /\ file'[n] = file[n]
  BY <1>1, <1>2 DEF Grown, N
<1>4. CASE n = N + 1
  <2>1. \A b \in Calls : Pending(b)' => calls'[b].read < n
    BY <1>1, <1>4
  <2>2. \A i \in Interventions : seen'[i] < n
    BY <1>1, <1>4
  <2>. QED  BY <2>1, <2>2
<1>5. CASE n \in 1 .. N /\ Holds(file, n, "define", j) /\ file'[n] = file[n]
  <2>1. ASSUME NEW i \in Interventions \ {j}, NEW d \in 1 .. Len(file'),
               Holds(file', d, "define", i), file'[d].key = file'[n].key
        PROVE  seen'[i] < n
    <3>1. CASE Holds(file, d, "define", i) /\ seen'[i] = seen[i] /\ file'[d] = file[d]
      <4>1. d \in 1 .. Len(file)
        BY <3>1 DEF Holds
      <4>. QED  BY <1>1, <1>5, <2>1, <3>1, <4>1 DEF KeyWasFree
    <3>2. CASE Pending(c) /\ seen'[i] = calls[c].read /\ file'[d] = e
      BY <1>1, <1>5, <2>1, <3>2 DEF KeyWasFree, e
    <3>. QED  BY <2>1, <3>1, <3>2, SeenOf DEF e
  <2>2. ASSUME NEW b \in Calls, Pending(b)', Head(calls'[b].queue).key = file'[n].key
        PROVE  calls'[b].read < n
    <3>1. b # c /\ calls'[b] = calls[b] /\ Pending(b)
      BY <1>1, <2>2
    <3>. QED  BY <1>1, <1>5, <2>2, <3>1 DEF KeyWasFree
  <2>. QED  BY <2>1, <2>2
<1>. QED  BY <1>3, <1>4, <1>5

(* An append step keeps the invariant.                                     *)
LEMMA AppendKeeps ==
    ASSUME RegistryInv, NEW c \in Calls, Appends(c)
    PROVE  RegistryInv'
<1>1. TypeOK'
  BY DEF Appends
<1>. QED  BY <1>1, FileStaysSound, CallsStaySound, EventsStayTimely, HistoryStaysSound,
             StoreStaysFree, KeyStaysFree DEF RegistryInv

(* Every step of the registry keeps the invariant.                         *)
LEMMA RegistryStep == RegistryInv /\ [Next]_vars => RegistryInv'
<1>. SUFFICES ASSUME RegistryInv, [Next]_vars PROVE RegistryInv'
  OBVIOUS
<1>1. ASSUME NEW c \in Calls, NEW k \in Keys, CreateRead(c, k) PROVE RegistryInv'
  BY <1>1, CreateReadKeeps
<1>2. ASSUME NEW c \in Calls, NEW i \in Interventions, EventRead(c, i) PROVE RegistryInv'
  BY <1>2, EventReadKeeps
<1>3. ASSUME NEW c \in Calls, NEW i \in Interventions, CheckpointRead(c, i) PROVE RegistryInv'
  BY <1>3, CheckpointReadKeeps
<1>4. ASSUME NEW c \in Calls, NEW i \in Interventions, OutcomeRead(c, i) PROVE RegistryInv'
  BY <1>4, OutcomeReadKeeps
<1>5. ASSUME NEW c \in Calls, OutcomeEvaluate(c) PROVE RegistryInv'
  BY <1>5, OutcomeEvaluateKeeps
<1>6. ASSUME NEW c \in Calls, AppendEvent(c) PROVE RegistryInv'
  <2>1. Appends(c)
    BY <1>6, AppendsOf
  <2>. QED  BY <2>1, AppendKeeps
<1>7. ASSUME NEW c \in Calls, FailCall(c) PROVE RegistryInv'
  BY <1>7, FailCallKeeps
<1>8. ASSUME NEW s \in Stores, Approve(s) PROVE RegistryInv'
  BY <1>8, ApproveKeeps
<1>9. CASE Tick
  BY <1>9, TickKeeps
<1>10. CASE UNCHANGED vars
  <2>1. UNCHANGED <<file, calls, seen, acked>> /\ clock' = clock /\ approvals' = approvals
    BY <1>10 DEF vars
  <2>2. clock' \in 1 .. MaxClock /\ approvals' \in [Stores -> SUBSET (1 .. MaxClock)]
    BY <2>1 DEF RegistryInv, TypeOK
  <2>. QED  BY <2>1, <2>2, WorldKeeps
<1>. QED  BY <1>1, <1>2, <1>3, <1>4, <1>5, <1>6, <1>7, <1>8, <1>9, <1>10 DEF Next

(* The file stays sound, and what every request on its way holds agrees    *)
(* with it, through every interleaving of reads, appends and failures.     *)
THEOREM RegistryInvariance == Spec => []RegistryInv
BY InitHolds, RegistryStep, PTL DEF Spec

(* The file, the requests and the histories are well typed.                *)
THEOREM RegistryTypeCorrect == Spec => []TypeOK
<1>1. RegistryInv => TypeOK
  BY DEF RegistryInv
<1>. QED  BY <1>1, RegistryInvariance, PTL

(* Whatever times clients supplied and in whatever order the events        *)
(* landed, what the replay of the file says of an intervention is coherent *)
(* (reconstruct_interventions).                                            *)
THEOREM FileReplaysCoherently == Spec => []ReplayCoherent
<1>1. RegistryInv => ReplayCoherent
  <2>. SUFFICES ASSUME RegistryInv, NEW i \in Interventions
                PROVE  Coherent(SnapshotOf(file, i))
    BY DEF ReplayCoherent, SnapshotOf
  <2>1. TypeOK
    BY DEF RegistryInv
  <2>. QED  BY <2>1, SnapshotFacts
<1>. QED  BY <1>1, RegistryInvariance, PTL

\* The event of this type that created j is where the file has it.
LEMMA CreatedWhere ==
    ASSUME RegistryInv, NEW type \in {"define", "approve"}, NEW j \in Interventions,
           NEW n \in 1 .. Len(file), Holds(file, n, type, j)
    PROVE  CreatedAt(type, j) = n
<1>. DEFINE at == {m \in DOMAIN file : file[m].type = type /\ file[m].id = j}
<1>1. DOMAIN file = 1 .. Len(file) /\ FileSound(file)
  BY TypesOf DEF RegistryInv
<1>2. n \in at /\ \A m \in at : Holds(file, m, type, j) /\ m \in 1 .. Len(file)
  BY <1>1 DEF Holds
<1>3. \A m \in at : m = n
  BY <1>1, <1>2 DEF FileSound
<1>4. CreatedAt(type, j) = IF at = {} THEN 0 ELSE CHOOSE m \in at : TRUE
  BY DEF CreatedAt
<1>. HIDE DEF at
<1>. QED  BY <1>2, <1>3, <1>4

\* What is behind the snapshot of an intervention that is defined.
LEMMA SnapshotFounded ==
    ASSUME RegistryInv, NEW i \in Interventions
    PROVE  LET s == SnapshotOf(file, i) IN
           /\ s.state # "UNDEFINED" =>
                \E d \in 1 .. Len(file) : Holds(file, d, "define", i) /\ file[d].key = s.key
           /\ s.state \in ActiveStates =>
                \E n \in 1 .. Len(file) : Holds(file, n, "approve", i) /\ file[n].key = s.key
<1>. DEFINE s == SnapshotOf(file, i)
<1>1. file \in Seq(Event) /\ Len(file) \in 0 .. Len(file) /\ FileSound(file)
  BY TypesOf DEF RegistryInv
<1>2. s = Snaps(file, Len(file))[i] /\ SnapshotsFounded(file, Len(file))
  BY <1>1, RunIsTyped, RunIsFounded
<1>. HIDE DEF s
<1>3. /\ Level(s) # 0 =>
           \E d \in 1 .. Len(file) : Holds(file, d, "define", i) /\ file[d].key = s.key
      /\ Level(s) \in {2, 3} => \E n \in 1 .. Len(file) : Holds(file, n, "approve", i)
  BY <1>2 DEF SnapshotsFounded
<1>4. s.state # "UNDEFINED" => Level(s) # 0
  BY LevelRange
<1>5. s.state \in ActiveStates => Level(s) \in {2, 3}
  BY LevelRange DEF ActiveStates
<1>6. \A n \in 1 .. Len(file) : Holds(file, n, "approve", i) => file[n].key = s.key
  BY <1>1, CreationHolds DEF s
<1>. QED  BY <1>3, <1>4, <1>5, <1>6 DEF s

(* The two guards of a creation are passed by two requests only when each  *)
(* had read the registry before the other's events were in the file        *)
(* (active_intervention_guard, exact_key_repetition_guard).                *)
THEOREM CreationGuardsAreKept == Spec => []CreationGuardsHold
<1>1. RegistryInv => CreationGuardsHold
  <2>. SUFFICES ASSUME RegistryInv PROVE CreationGuardsHold
    OBVIOUS
  <2>0. TypeOK /\ \A i \in Interventions : seen[i] \in Nat
    BY DEF RegistryInv, TypeOK
  <2>1. ASSUME NEW i \in Interventions, NEW j \in Interventions, i # j,
               IsActive(SnapshotOf(file, i)), IsActive(SnapshotOf(file, j)),
               SnapshotOf(file, i).key.store = SnapshotOf(file, j).key.store
        PROVE  seen[i] < CreatedAt("approve", j)
    <3>1. /\ SnapshotOf(file, i).state \in ActiveStates /\ SnapshotOf(file, j).state \in ActiveStates
          /\ SnapshotOf(file, i).state # "UNDEFINED"
      BY <2>1 DEF IsActive, ActiveStates
    <3>2. PICK d \in 1 .. Len(file) : /\ Holds(file, d, "define", i)
                                      /\ file[d].key = SnapshotOf(file, i).key
      BY <3>1, SnapshotFounded
    <3>3. PICK n \in 1 .. Len(file) : /\ Holds(file, n, "approve", j)
                                      /\ file[n].key = SnapshotOf(file, j).key
      BY <3>1, SnapshotFounded
    <3>4. Level(SnapshotOf(file, j)) # 4
      BY <3>1, LevelRange DEF ActiveStates
    <3>5. ~(n <= seen[i])
      BY <2>1, <3>2, <3>3, <3>4 DEF RegistryInv, StoreWasFree
    <3>6. CreatedAt("approve", j) = n
      BY <3>3, CreatedWhere
    <3>. QED  BY <2>0, <3>5, <3>6
  <2>2. ASSUME NEW i \in Interventions, NEW j \in Interventions, i # j,
               SnapshotOf(file, i).key = SnapshotOf(file, j).key, SnapshotOf(file, i).key # NoKey
        PROVE  seen[i] < CreatedAt("define", j)
    <3>1. \A k \in Interventions :
             SnapshotOf(file, k).key # NoKey => SnapshotOf(file, k).state # "UNDEFINED"
      BY <2>0, SnapshotFacts DEF Coherent, Undefined
    <3>2. PICK d \in 1 .. Len(file) : /\ Holds(file, d, "define", i)
                                      /\ file[d].key = SnapshotOf(file, i).key
      BY <2>2, <3>1, SnapshotFounded
    <3>3. PICK n \in 1 .. Len(file) : /\ Holds(file, n, "define", j)
                                      /\ file[n].key = SnapshotOf(file, j).key
      BY <2>2, <3>1, SnapshotFounded
    <3>4. seen[i] < n
      BY <2>2, <3>2, <3>3 DEF RegistryInv, KeyWasFree
    <3>5. CreatedAt("define", j) = n
      BY <3>3, CreatedWhere
    <3>. QED  BY <3>4, <3>5
  <2>3. GuardSeesActive
    BY <2>1 DEF GuardSeesActive, SnapshotOf
  <2>4. KeyNotRepeated
    BY <2>2 DEF KeyNotRepeated, SnapshotOf
  <2>. QED  BY <2>3, <2>4 DEF CreationGuardsHold
<1>. QED  BY <1>1, RegistryInvariance, PTL

(* An intervention whose creation was answered is APPROVED or beyond in    *)
(* every replay from then on: no event that lands later, whatever its      *)
(* time, comes between its definition and its approval                     *)
(* (create_phase2_intervention).                                           *)
THEOREM AckedIsApproved == Spec => []AckedStaysApproved
<1>1. RegistryInv => AckedStaysApproved
  <2>. SUFFICES ASSUME RegistryInv, NEW i \in acked
                PROVE  SnapshotOf(file, i).state \notin {"UNDEFINED", "RECOMMENDED"}
    BY DEF AckedStaysApproved
  <2>1. file \in Seq(Event) /\ FileSound(file) /\ i \in Interventions
    BY TypesOf DEF RegistryInv, TypeOK
  <2>2. PICK n \in 1 .. Len(file) : Holds(file, n, "approve", i)
    BY DEF RegistryInv, HistorySound
  <2>3. 2 <= Level(SnapshotOf(file, i))
    BY <2>1, <2>2, CreationHolds
  <2>. QED  BY <2>3, LevelRange
<1>. QED  BY <1>1, RegistryInvariance, PTL

\* Only an append changes the file.
LEMMA WhoAppends ==
    ASSUME RegistryInv, [Next]_vars, file' # file
    PROVE  \E c \in Calls : Appends(c)
<1>1. \E c \in Calls : AppendEvent(c)
  BY DEF Next, vars, CreateRead, EventRead, CheckpointRead, OutcomeRead, OutcomeEvaluate,
         FailCall, Approve, Tick
<1>. QED  BY <1>1, AppendsOf

(* An intervention that a replay has shown ended is ended in every later   *)
(* replay, although an event that lands late is replayed where its time    *)
(* puts it (reconstruct_interventions).                                    *)
THEOREM EndedIsForEver == Spec => EndedStaysEnded
<1>1. RegistryInv /\ [Next]_vars => [Ended(file) \subseteq Ended(file')]_file
  <2>. SUFFICES ASSUME RegistryInv, [Next]_vars, file' # file,
                       NEW i \in Ended(file)
                PROVE  i \in Ended(file')
    OBVIOUS
  <2>1. \A log, j : j \in Ended(log) <=>
            j \in Interventions /\ SnapshotOf(log, j).state \notin OpenStates \cup {"UNDEFINED"}
    BY DEF Ended, SnapshotOf
  <2>2. \A s : s.state \notin OpenStates \cup {"UNDEFINED"} <=> Level(s) = 4
    BY DEF Level, OpenStates, ActiveStates
  <2>3. PICK c \in Calls : Appends(c)
    BY WhoAppends
  <2>. QED  BY <2>1, <2>2, <2>3, LevelsGrow
<1>. QED  BY <1>1, RegistryInvariance, PTL DEF Spec, EndedStaysEnded

(* An event the table allows in the state its request read is accepted by  *)
(* the replay when nobody else wrote about that intervention in between    *)
(* (append_phase2_lifecycle_event, _validate_lifecycle_occurred_at).       *)
THEOREM LegalIsAccepted == Spec => LegalEventsAccepted
<1>1. RegistryInv /\ [Next]_vars =>
        [\A c \in Calls :
          (/\ calls[c].kind = "event" /\ calls'[c] # calls[c]
           /\ Undisturbed(c)
           /\ ~Rejected(SnapshotOf(file, calls[c].id), Head(calls[c].queue)))
              => Len(file') \in Reconstruct(file').accepted]_file
  <2>. SUFFICES ASSUME RegistryInv, [Next]_vars, file' # file, NEW c \in Calls,
                       calls[c].kind = "event", calls'[c] # calls[c], Undisturbed(c),
                       ~Rejected(SnapshotOf(file, calls[c].id), Head(calls[c].queue))
                PROVE  Len(file') \in Reconstruct(file').accepted
    OBVIOUS
  <2>. DEFINE e == Head(calls[c].queue)
  <2>1. PICK b \in Calls : Appends(b)
    BY WhoAppends
  <2>2. b = c
    BY <2>1 DEF Appends
  <2>3. /\ file' = Append(file, e) /\ e \in Event /\ e.id = calls[c].id
        /\ Len(file') = Len(file) + 1 /\ file \in Seq(Event)
    BY <2>1, <2>2, AppendFacts, TypesOf DEF Grown
  <2>4. SnapshotOf(file, e.id).updated <= e.at
    BY <2>3 DEF RegistryInv, EventsTimely
  <2>5. ~Rejected(SnapshotOf(file, e.id), e)
    BY <2>3
  <2>. HIDE DEF e
  <2>6. Len(file) + 1 \in Reconstruct(Append(file, e)).accepted
    BY <2>3, <2>4, <2>5, LegalAppend
  <2>. QED  BY <2>3, <2>6
<1>. QED  BY <1>1, RegistryInvariance, PTL DEF Spec, LegalEventsAccepted

=============================================================================
