------------------------------ MODULE Registry ------------------------------
(***************************************************************************)
(* The intervention registry: an append-only file of events, and the       *)
(* endpoints that read it, decide, and append (phase2/registry.py and      *)
(* app/main.py, /phase2/interventions).  Handlers run in threads and lock  *)
(* the file for one append only: whatever a handler decided on may have    *)
(* changed by the time its events land, and an event lands in the replay   *)
(* where its time puts it, not where the file has it.                      *)
(***************************************************************************)
EXTENDS Lifecycle, Sequences, FiniteSets, SequencesExt

CONSTANTS
    Stores, Strategies,   \* what tells the keys apart
    Calls,                \* POST requests
    Skew,                 \* _OCCURRED_AT_MAX_SKEW
    Week,                 \* between checkpoints
    Window,               \* EVALUATION_WINDOW_DAYS
    MaxWeeks,             \* bound on the weeks a client asks checkpoints for
    MaxClock,             \* bound on the clock
    MaxTime,              \* bound on the times clients supply
    MaxApprovals,         \* bound on the approved records of a store
    MaxEvents,            \* bound on the events in the file
    MaxStrays             \* bound on those the replay rejects

ASSUME RegistryAssumption ==
    /\ {Skew, Week, Window, MaxWeeks, MaxClock, MaxTime, MaxApprovals, MaxEvents, MaxStrays}
         \subseteq Nat
    /\ MaxClock # 0
    /\ Keys = [store : Stores, strategy : Strategies]
    /\ Interventions \subseteq Nat

VARIABLES
    file,        \* the registry file
    clock,
    approvals,   \* decided_at of the approved records of each store
    calls,       \* per request: what it is doing and the events it will append
    seen,        \* history: length of the file when the guards of a creation read it
    acked        \* history: interventions whose creation was answered 200

vars == <<file, clock, approvals, calls, seen, acked>>
world == <<clock, approvals>>

ClientTimes == 1 .. MaxTime
PublicEvents == {"start", "pause", "resume", "complete", "fail", "cancel"}

Idle == [kind |-> "idle", id |-> 0, read |-> 0, asOf |-> 0, queue |-> <<>>]

Message(type, i, at, k) ==
    [type |-> type, id |-> i, at |-> at, key |-> k, evidence |-> FALSE, agrees |-> TRUE]

-----------------------------------------------------------------------------
(* Reading.                                                                *)

\* The position n of the file goes behind those in the order that are not later.
Inserted(log, order, n) ==
    LET place == 1 + Max({0} \cup {m \in DOMAIN order : log[order[m]].at <= log[n].at})
    IN [m \in 1 .. Len(order) + 1 |->
          IF m < place THEN order[m] ELSE IF m = place THEN n ELSE order[m - 1]]

\* File positions by time, file order breaking ties.
ReplayOrder(log) ==
    LET orders[n \in 0 .. Len(log)] ==
            IF n = 0 THEN <<>> ELSE Inserted(log, orders[n - 1], n)
    IN orders[Len(log)]

\* One turn of the replay: the snapshots, and the positions of the accepted events.
Turn(log, r, n) ==
    LET e == log[n] IN
    IF Rejected(r.snapshots[e.id], e) THEN r
    ELSE [snapshots |-> [r.snapshots EXCEPT ![e.id] = Applied(@, e)],
          accepted |-> r.accepted \cup {n}]

NothingReplayed == [snapshots |-> [i \in Interventions |-> Undefined], accepted |-> {}]

Reconstruct(log) ==
    LET order == ReplayOrder(log)
        replayed[m \in 0 .. Len(log)] ==
            IF m = 0 THEN NothingReplayed ELSE Turn(log, replayed[m - 1], order[m])
    IN replayed[Len(log)]

\* The bounds: they hold back requests that begin, not those on their way.
MayBegin(c) ==
    /\ calls[c] = Idle
    /\ Len(file) + Cardinality({d \in Calls : calls[d] # Idle}) < MaxEvents
    /\ Len(file) <= Cardinality(Reconstruct(file).accepted) + MaxStrays

SnapshotOf(log, i) == Reconstruct(log).snapshots[i]

\* Approved and not yet started does not count.
GuardOnceStarted(log, s) ==
    \E i \in Interventions : LET snap == SnapshotOf(log, i) IN
        IsActive(snap) /\ snap.key.store = s /\ snap.started # 0

\* active_intervention_guard
ActiveGuardBlocks(log, s) ==
    \E i \in Interventions : LET snap == SnapshotOf(log, i) IN
        IsActive(snap) /\ snap.key.store = s

\* exact_key_repetition_guard: in any state, for ever.
RepetitionGuardBlocks(log, k) ==
    \E i \in Interventions : SnapshotOf(log, i).key = k

-----------------------------------------------------------------------------
(* POST /phase2/interventions/{store}                                      *)

\* The definition is stamped when it is made, the approval when it was given.
CreationStampedNow(i, k, at) ==
    <<Message("define", i, clock, k), Message("approve", i, at, k)>>

\* Both events carry the time of the approval.
CreationEvents(i, k, at) ==
    <<Message("define", i, at, k), Message("approve", i, at, k)>>

\* A uuid never repeats: an id nobody has.
FreshIds ==
    Interventions \ ({file[n].id : n \in DOMAIN file} \cup {calls[c].id : c \in Calls})

CreateRead(c, k) ==
    /\ MayBegin(c)
    /\ ~ActiveGuardBlocks(file, k.store)
    /\ ~RepetitionGuardBlocks(file, k)
    /\ FreshIds # {}
    /\ LET i == Min(FreshIds) IN
       \E at \in approvals[k.store] :
         calls' = [calls EXCEPT ![c] =
           [Idle EXCEPT !.kind = "create", !.id = i, !.read = Len(file),
                        !.queue = CreationEvents(i, k, at)]]
    /\ UNCHANGED <<file, world, seen, acked>>

-----------------------------------------------------------------------------
(* POST /phase2/interventions/{id}/events                                  *)

\* Nothing is compared with the previous event.
NotInFuture(snap, at) == at <= clock + Skew

\* _validate_lifecycle_occurred_at
ValidOccurredAt(snap, at) == at <= clock + Skew /\ snap.updated <= at

\* Refused with 404 or 400, or else appended, legal from the state or not.
EventRead(c, i) ==
    LET snap == SnapshotOf(file, i) IN
    /\ MayBegin(c)
    /\ snap.state # "UNDEFINED"
    /\ \E at \in ClientTimes : \E type \in PublicEvents : \E evidence \in BOOLEAN :
         /\ ValidOccurredAt(snap, at)
         /\ evidence => type = "fail"
         /\ calls' = [calls EXCEPT ![c] =
              [Idle EXCEPT !.kind = "event", !.id = i, !.read = Len(file),
                 !.queue = <<[Message(type, i, at, snap.key) EXCEPT !.evidence = evidence]>>]]
    /\ UNCHANGED <<file, world, seen, acked>>

-----------------------------------------------------------------------------
(* POST /phase2/interventions/{id}/checkpoints                             *)

\* build_weekly_checkpoints: per week when it is due, or when the client
\* says it was observed (0: not observed).
WeeklyCheckpoints(started, observed) ==
    [w \in DOMAIN observed |-> [due |-> started + Week * w, observed |-> observed[w]]]

\* An event is stamped when the checkpoint was observed, else when it is
\* due, ahead of the clock or not; an observed one names the client's campaign.
CheckpointEvents(i, snap, observed, agrees) ==
    LET checkpoints == WeeklyCheckpoints(snap.started, observed) IN
    [w \in DOMAIN checkpoints |->
       LET seenAt == checkpoints[w].observed IN
       [Message("checkpoint", i, IF seenAt # 0 THEN seenAt ELSE checkpoints[w].due, snap.key)
        EXCEPT !.agrees = agrees \/ seenAt = 0]]

CheckpointRead(c, i) ==
    LET snap == SnapshotOf(file, i) IN
    /\ MayBegin(c)
    /\ snap.started # 0
    /\ \E weeks \in 1 .. MaxWeeks : \E observed \in [1 .. weeks -> {0} \cup ClientTimes] :
         \E agrees \in BOOLEAN :
           calls' = [calls EXCEPT ![c] =
             [Idle EXCEPT !.kind = "checkpoints", !.id = i, !.read = Len(file),
                          !.queue = CheckpointEvents(i, snap, observed, agrees)]]
    /\ UNCHANGED <<file, world, seen, acked>>

-----------------------------------------------------------------------------
(* POST /phase2/interventions/{id}/outcome                                 *)

\* An absent as_of is passed on as it is.
AsOfUnset(asOf) == asOf

\* _phase2_as_of_or_now: the client's time is taken as it is.
AsOf(asOf) == IF asOf # 0 THEN asOf ELSE clock

\* evaluate_outcome and the join come out SUFFICIENT: the window is over at
\* as_of, and the observations, which are the client's, cover both windows.
MayBeSufficient(snap, asOf) ==
    /\ snap.state \in ActiveStates \cup ExecutedStates \cup OutcomeStates
    /\ snap.started # 0
    /\ snap.started + Window <= AsOf(asOf)

EvaluateEvents(i, snap, asOf) ==
    IF snap.state = "EVALUATED" THEN <<>>
    ELSE <<Message("evaluate", i, AsOf(asOf), snap.key)>>

\* With an outcome already pending, the snapshot decides at once.
OutcomeRead(c, i) ==
    LET snap == SnapshotOf(file, i) IN
    /\ MayBegin(c)
    /\ \E asOf \in {0} \cup ClientTimes :
         \/ /\ snap.state \in ExecutedStates
            /\ calls' = [calls EXCEPT ![c] =
                 [Idle EXCEPT !.kind = "outcome", !.id = i, !.read = Len(file), !.asOf = asOf,
                    !.queue = <<[Message("outcome_pending", i, AsOf(asOf), snap.key)
                                 EXCEPT !.evidence = snap.evidence]>>]]
         \/ /\ snap.state = "OUTCOME_PENDING"
            /\ MayBeSufficient(snap, asOf)
            /\ calls' = [calls EXCEPT ![c] =
                 [Idle EXCEPT !.kind = "evaluate", !.id = i, !.read = Len(file),
                    !.queue = EvaluateEvents(i, snap, asOf)]]
    /\ UNCHANGED <<file, world, seen, acked>>

\* The pending event is in the file: read the registry again and evaluate.
OutcomeEvaluate(c) ==
    LET i == calls[c].id
        snap == SnapshotOf(file, i)
    IN /\ calls[c].kind = "outcome" /\ calls[c].queue = <<>>
       /\ MayBeSufficient(snap, calls[c].asOf)
       /\ calls' = [calls EXCEPT ![c] =
            [@ EXCEPT !.kind = "evaluate", !.read = Len(file),
                      !.queue = EvaluateEvents(i, snap, calls[c].asOf)]]
       /\ UNCHANGED <<file, world, seen, acked>>

-----------------------------------------------------------------------------
(* append_event: one event under the lock of the file.  After its last one *)
(* a request only reads and answers, except an outcome, which goes on.     *)
AppendEvent(c) ==
    LET call == calls[c]
        last == Len(call.queue) = 1
    IN /\ call.queue # <<>>
       /\ file' = Append(file, Head(call.queue))
       /\ calls' = [calls EXCEPT ![c] =
            IF last /\ call.kind # "outcome" THEN Idle ELSE [call EXCEPT !.queue = Tail(@)]]
       /\ seen' = IF Head(call.queue).type = "define"
                  THEN [seen EXCEPT ![call.id] = call.read] ELSE seen
       /\ acked' = IF last /\ call.kind = "create" THEN acked \cup {call.id} ELSE acked
       /\ UNCHANGED world

\* The process dies or an append raises: what was not appended never is.
\* An outcome whose evidence is not sufficient ends here too.
FailCall(c) ==
    /\ calls[c].kind # "idle"
    /\ calls' = [calls EXCEPT ![c] = Idle]
    /\ UNCHANGED <<file, world, seen, acked>>

-----------------------------------------------------------------------------
\* A manager approves a recommendation of the store.
Approve(s) ==
    /\ Cardinality(approvals[s]) < MaxApprovals
    /\ approvals' = [approvals EXCEPT ![s] = @ \cup {clock}]
    /\ UNCHANGED <<file, clock, calls, seen, acked>>

Tick ==
    /\ clock < MaxClock
    /\ clock' = clock + 1
    /\ UNCHANGED <<file, approvals, calls, seen, acked>>

Init ==
    /\ file = <<>>
    /\ clock = 1
    /\ approvals = [s \in Stores |-> {}]
    /\ calls = [c \in Calls |-> Idle]
    /\ seen = [i \in Interventions |-> 0]
    /\ acked = {}

Next ==
    \/ \E c \in Calls :
         \/ \E k \in Keys : CreateRead(c, k)
         \/ \E i \in Interventions :
              EventRead(c, i) \/ CheckpointRead(c, i) \/ OutcomeRead(c, i)
         \/ OutcomeEvaluate(c) \/ AppendEvent(c) \/ FailCall(c)
    \/ \E s \in Stores : Approve(s)
    \/ Tick

Spec == Init /\ [][Next]_vars

-----------------------------------------------------------------------------
TypeOK ==
    /\ file \in Seq(Event)
    /\ clock \in 1 .. MaxClock
    /\ approvals \in [Stores -> SUBSET (1 .. MaxClock)]
    /\ calls \in [Calls -> [kind : {"idle", "create", "event", "checkpoints", "outcome",
                                    "evaluate"},
                            id : Interventions \cup {0}, read : Nat, asOf : Nat,
                            queue : Seq(Event)]]
    /\ seen \in [Interventions -> Nat]
    /\ acked \subseteq Interventions

\* Position of the event of this type that created i; 0 while there is none.
CreatedAt(type, i) ==
    LET at == {n \in DOMAIN file : file[n].type = type /\ file[n].id = i}
    IN IF at = {} THEN 0 ELSE CHOOSE n \in at : TRUE

(* What the replay of the file says of an intervention is always coherent, *)
(* whatever times clients supplied and whatever order events landed in     *)
(* (reconstruct_interventions).                                            *)
ReplayCoherent ==
    LET snap == Reconstruct(file).snapshots
    IN \A i \in Interventions : Coherent(snap[i])

(* Two interventions of a store are active together only when both         *)
(* creations overlapped: each read the registry before the other's         *)
(* approve event was in the file (active_intervention_guard).              *)
GuardSeesActive ==
    LET snap == Reconstruct(file).snapshots IN
    \A i, j \in Interventions :
        (i # j /\ IsActive(snap[i]) /\ IsActive(snap[j]) /\ snap[i].key.store = snap[j].key.store)
            => seen[i] < CreatedAt("approve", j) /\ seen[j] < CreatedAt("approve", i)

(* A canonical key is used for one intervention, whatever became of it,    *)
(* unless two creations overlapped: each read the registry before the      *)
(* other's definition was in the file (exact_key_repetition_guard).        *)
KeyNotRepeated ==
    LET snap == Reconstruct(file).snapshots IN
    \A i, j \in Interventions :
        (i # j /\ snap[i].key = snap[j].key /\ snap[i].key # NoKey)
            => seen[i] < CreatedAt("define", j) /\ seen[j] < CreatedAt("define", i)

\* The two creation guards are passed by two only when neither could see the other.
CreationGuardsHold == GuardSeesActive /\ KeyNotRepeated

(* An intervention whose creation was answered is APPROVED or beyond in    *)
(* every replay from then on: nothing that lands in the file later sorts   *)
(* between its definition and its approval (create_phase2_intervention).   *)
AckedStaysApproved ==
    \A i \in acked : SnapshotOf(file, i).state \notin {"UNDEFINED", "RECOMMENDED"}

Ended(log) ==
    LET snap == Reconstruct(log).snapshots
    IN {i \in Interventions : snap[i].state \notin OpenStates \cup {"UNDEFINED"}}

(* An intervention that a replay has shown ended is ended in every later   *)
(* replay, even when a slower request lands an event before the end: the   *)
(* store stays free for the next intervention.                             *)
EndedStaysEnded ==
    [][Ended(file) \subseteq Ended(file')]_file

\* Nobody wrote about the intervention of c since c read the registry.
Undisturbed(c) ==
    \A n \in DOMAIN file : n > calls[c].read => file[n].id # calls[c].id

(* A lifecycle event that the table allows in the state its request read,  *)
(* appended before anyone else wrote about that intervention, is accepted  *)
(* by the replay (append_phase2_lifecycle_event).                          *)
LegalEventsAccepted ==
    [][\A c \in Calls :
          (/\ calls[c].kind = "event" /\ calls'[c] # calls[c]
           /\ Undisturbed(c)
           /\ ~Rejected(SnapshotOf(file, calls[c].id), Head(calls[c].queue)))
              => Len(file') \in Reconstruct(file').accepted]_file

\* _outcome_evidence_by_store: the last evaluate event in the file.
EvidenceOf(s) ==
    LET evaluated == {n \in DOMAIN file : file[n].type = "evaluate" /\ file[n].key.store = s}
    IN {n \in evaluated : \A m \in evaluated : m <= n}

(* PHASE_2_SPEC.md: "FAILED reaches outcome evaluation only when valid     *)
(* execution evidence exists; otherwise it has no outcome window."  So the *)
(* outcome the decision engine is given for a store is of an intervention  *)
(* that is not merely failed in the replay.                                *)
FailedHasNoOutcome ==
    \A s \in Stores : \A n \in EvidenceOf(s) :
        LET snap == SnapshotOf(file, file[n].id)
        IN ~(snap.state = "FAILED" /\ ~snap.evidence)
=============================================================================
