------------------------------ MODULE Lifecycle -----------------------------
(***************************************************************************)
(* The lifecycle of one intervention as phase2/registry.py folds it from   *)
(* events: when an event is rejected, and what an accepted event makes of  *)
(* the snapshot.  No state of its own; LifecycleReplay runs it over any    *)
(* ordered log, Registry over the log that the endpoints write.            *)
(***************************************************************************)
EXTENDS Naturals

CONSTANTS
    Interventions,   \* intervention ids
    Keys,            \* canonical InterventionKeys
    NoKey            \* the key of an intervention nobody defined

ASSUME KeyAssumption == NoKey \notin Keys

\* Times are 1, 2, ...; 0 is a timestamp that is not set.
Times == Nat \ {0}

ActiveStates == {"APPROVED", "ACTIVE", "PAUSED"}
OpenStates == {"RECOMMENDED"} \cup ActiveStates
ExecutedStates == {"COMPLETED", "FAILED"}
OutcomeStates == {"OUTCOME_PENDING", "EVALUATED"}
CheckpointBlocked == {"REJECTED", "EXPIRED", "CANCELLED", "EVALUATED"}
States == OpenStates \cup ExecutedStates \cup OutcomeStates \cup CheckpointBlocked

\* Of the states complete is accepted from, PAUSED is forgotten.
CompleteFromActive(type) ==
    IF type = "complete" THEN {"ACTIVE"}
    ELSE CASE type = "approve" -> {"RECOMMENDED"}
           [] type = "start" -> {"APPROVED"}
           [] type = "pause" -> {"ACTIVE"}
           [] type = "resume" -> {"PAUSED"}
           [] type = "fail" -> {"ACTIVE", "PAUSED"}
           [] type \in {"reject", "expire"} -> {"RECOMMENDED", "APPROVED"}
           [] type = "cancel" -> ActiveStates
           [] type = "outcome_pending" -> ExecutedStates
           [] type = "evaluate" -> {"OUTCOME_PENDING"}

\* _TRANSITION_SOURCES
Sources(type) ==
    CASE type = "approve" -> {"RECOMMENDED"}
      [] type = "start" -> {"APPROVED"}
      [] type = "pause" -> {"ACTIVE"}
      [] type = "resume" -> {"PAUSED"}
      [] type \in {"complete", "fail"} -> {"ACTIVE", "PAUSED"}
      [] type \in {"reject", "expire"} -> {"RECOMMENDED", "APPROVED"}
      [] type = "cancel" -> ActiveStates
      [] type = "outcome_pending" -> ExecutedStates
      [] type = "evaluate" -> {"OUTCOME_PENDING"}

\* _TRANSITION_TARGET
Target(type) ==
    CASE type = "approve" -> "APPROVED"
      [] type \in {"start", "resume"} -> "ACTIVE"
      [] type = "pause" -> "PAUSED"
      [] type = "complete" -> "COMPLETED"
      [] type = "fail" -> "FAILED"
      [] type = "reject" -> "REJECTED"
      [] type = "expire" -> "EXPIRED"
      [] type = "cancel" -> "CANCELLED"
      [] type = "outcome_pending" -> "OUTCOME_PENDING"
      [] type = "evaluate" -> "EVALUATED"

Transitions == {"approve", "start", "pause", "resume", "complete", "fail", "reject",
                "expire", "cancel", "outcome_pending", "evaluate"}
EndingEvents == {"complete", "fail", "reject", "expire", "cancel"}

\* evidence: the payload holds execution evidence; agrees: campaign and
\* timing do not contradict those of the intervention.
Event == [type : Transitions \cup {"define", "checkpoint"}, id : Interventions,
          at : Times, key : Keys, evidence : BOOLEAN, agrees : BOOLEAN]

Snapshot == [state : States \cup {"UNDEFINED"}, key : Keys \cup {NoKey}, created : Nat,
             updated : Nat, started : Nat, ended : Nat, evidence : BOOLEAN]

Undefined == [state |-> "UNDEFINED", key |-> NoKey, created |-> 0, updated |-> 0,
              started |-> 0, ended |-> 0, evidence |-> FALSE]

IsActive(s) == s.state \in ActiveStates /\ s.ended = 0

\* _apply_event returns a reason instead of changing the snapshot.
Rejected(s, e) ==
    \/ e.type = "define" /\ s.state # "UNDEFINED"
    \/ e.type # "define" /\ \/ s.state = "UNDEFINED"
                            \/ e.key # s.key \/ ~e.agrees
    \/ e.type = "checkpoint" /\ s.state \in CheckpointBlocked
    \/ e.type \in Transitions /\ s.state \notin Sources(e.type)
    \/ e.type = "outcome_pending" /\ s.state = "FAILED" /\ ~s.evidence /\ ~e.evidence

Defined(e) ==
    [Undefined EXCEPT !.state = "RECOMMENDED", !.key = e.key,
                      !.created = e.at, !.updated = e.at]

\* The intervention clock is left running when a cancel ends it.
CancelNotEnded(s, e) ==
    [s EXCEPT !.state = Target(e.type), !.updated = e.at,
              !.started = IF e.type = "start" THEN e.at ELSE @,
              !.ended = IF e.type \in EndingEvents \ {"cancel"} THEN e.at ELSE @,
              !.evidence = CASE e.type = "fail" -> e.evidence
                             [] e.type = "outcome_pending" -> @ \/ e.evidence
                             [] OTHER -> @]

Transitioned(s, e) ==
    [s EXCEPT !.state = Target(e.type), !.updated = e.at,
              !.started = IF e.type = "start" THEN e.at ELSE @,
              !.ended = IF e.type \in EndingEvents THEN e.at ELSE @,
              !.evidence = CASE e.type = "fail" -> e.evidence
                             [] e.type = "outcome_pending" -> @ \/ e.evidence
                             [] OTHER -> @]

\* The snapshot after an accepted event.
Applied(s, e) ==
    CASE e.type = "define" -> Defined(e)
      [] e.type = "checkpoint" -> [s EXCEPT !.updated = e.at]
      [] OTHER -> Transitioned(s, e)

-----------------------------------------------------------------------------
(* The clocks of a snapshot agree with its state and with each other:      *)
(* RECOMMENDED and APPROVED have none running, ACTIVE and PAUSED have      *)
(* started and not ended, every other state has ended, those that reach an *)
(* outcome have also started, and created <= started <= ended <= updated.  *)
Coherent(s) ==
    \/ s = Undefined
    \/ /\ s.state # "UNDEFINED" /\ s.key \in Keys
       /\ 0 < s.created /\ s.created <= s.updated
       /\ s.state \in {"RECOMMENDED", "APPROVED"} => s.started = 0 /\ s.ended = 0
       /\ s.state \in {"ACTIVE", "PAUSED"} => s.started # 0 /\ s.ended = 0
       /\ s.state \notin OpenStates => s.ended # 0
       /\ s.state \in ExecutedStates \cup OutcomeStates => s.started # 0
       /\ s.started # 0 => s.created <= s.started /\ s.started <= s.updated
       /\ s.ended # 0 => s.started <= s.ended /\ s.ended <= s.updated
=============================================================================
