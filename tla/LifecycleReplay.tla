--------------------------- MODULE LifecycleReplay --------------------------
(***************************************************************************)
(* The loop of reconstruct_interventions over an arbitrary log: any events *)
(* whatever, of any interventions, in the order of their time.  What holds *)
(* here holds of every log that can ever be in the file, whoever wrote it. *)
(***************************************************************************)
EXTENDS Lifecycle

VARIABLES
    snapshots,   \* one per intervention
    lastAt,      \* time of the last event replayed
    endedBy      \* history: the event that ended each intervention

replay == <<snapshots, lastAt, endedBy>>

ReplayInit ==
    /\ snapshots = [i \in Interventions |-> Undefined]
    /\ lastAt = 0
    /\ endedBy = [i \in Interventions |-> "none"]

\* One turn of the loop with an event that is accepted.
Accept(e) ==
    /\ lastAt <= e.at
    /\ ~Rejected(snapshots[e.id], e)
    /\ snapshots' = [snapshots EXCEPT ![e.id] = Applied(@, e)]
    /\ lastAt' = e.at
    /\ endedBy' = IF e.type \in EndingEvents THEN [endedBy EXCEPT ![e.id] = e.type]
                                             ELSE endedBy

\* One turn with an event that becomes a diagnostic.
Reject(e) ==
    /\ lastAt <= e.at
    /\ Rejected(snapshots[e.id], e)
    /\ lastAt' = e.at
    /\ UNCHANGED <<snapshots, endedBy>>

ReplayNext == \E e \in Event : Accept(e) \/ Reject(e)

ReplaySpec == ReplayInit /\ [][ReplayNext]_replay

-----------------------------------------------------------------------------
ReplayTypeOK ==
    /\ snapshots \in [Interventions -> Snapshot]
    /\ lastAt \in Nat
    /\ endedBy \in [Interventions -> EndingEvents \cup {"none"}]

(* Every snapshot is coherent, and none was updated after the last event.  *)
AllCoherent ==
    \A i \in Interventions : Coherent(snapshots[i]) /\ snapshots[i].updated <= lastAt

(* An outcome is only reached by an intervention that was completed, or    *)
(* that failed and has execution evidence (PHASE_2_SPEC.md, section 3).    *)
OutcomeJustified ==
    \A i \in Interventions : snapshots[i].state \in OutcomeStates =>
        \/ endedBy[i] = "complete"
        \/ endedBy[i] = "fail" /\ snapshots[i].evidence

(* An intervention that has ended never runs again: its state stays out of *)
(* the open ones and its start and end are never stamped anew.             *)
EndedForGood ==
    [][\A i \in Interventions : snapshots[i].ended # 0 =>
          /\ snapshots'[i].state \notin OpenStates
          /\ snapshots'[i].started = snapshots[i].started
          /\ snapshots'[i].ended = snapshots[i].ended]_replay
=============================================================================
