----------------------------- MODULE OutcomeRules ----------------------------
(***************************************************************************)
(* What an intervention achieved, from daily sales: the two windows, their  *)
(* evidence state and the lift (evaluate_outcome), and the join that lets   *)
(* an outcome speak for the recommendation it came from                     *)
(* (build_intervention_outcome_join, phase2/evaluator.py).                  *)
(*                                                                         *)
(* Times are in ticks, DayLength to a UTC day.  A lift is in tenths of a    *)
(* percent, rounded down.                                                   *)
(***************************************************************************)
EXTENDS DecisionRules, Provenance, Sequences, FiniteSets, FiniteSetsExt

CONSTANTS DayLength,
          BaselineDays, RecentDays, EvaluationDays,     \* 56, 14 and 60 in the code
          MinBaselineDays, MinRecentDays,               \* 28 and 7
          WeekDays                                      \* 7

ASSUME OutcomeAssumption ==
    /\ DayLength \in Nat \ {0}
    /\ BaselineDays \in Nat /\ RecentDays \in Nat /\ EvaluationDays \in Nat
    /\ RecentDays <= EvaluationDays
    /\ MinBaselineDays \in Nat /\ MinRecentDays \in Nat
    /\ WeekDays \in Nat \ {0}
    /\ Missing \notin CampaignEighteen \cup Afternoon

Observation == [at : Int, value : Int]

-----------------------------------------------------------------------------
(* The windows, both half open.                                            *)

DueAt(started) == started + EvaluationDays * DayLength
RecentFrom(started) == DueAt(started) - RecentDays * DayLength

BaselineWindow(observations, started) ==
    {o \in observations : started - BaselineDays * DayLength <= o.at /\ o.at < started}

RecentWindow(observations, started) ==
    {o \in observations : RecentFrom(started) <= o.at /\ o.at < DueAt(started)}

Contradicts(window) == \E a, b \in window : a.at = b.at /\ a.value # b.value
CoveredDays(window) == Cardinality({o.at \div DayLength : o \in window})
SalesOf(window) == SumFunction([o \in window |-> o.value])

\* Contradictory data outranks everything; sparse windows are no evidence.
EvidenceState(observations, started, asOf) ==
    LET base == BaselineWindow(observations, started)
        recent == RecentWindow(observations, started)
    IN  IF Contradicts(base) \/ Contradicts(recent) THEN "CONTRADICTORY"
        ELSE IF asOf < DueAt(started) THEN "NOT_DUE"
        ELSE IF base = {} /\ recent = {} THEN "INSUFFICIENT"
        ELSE IF base = {} \/ recent = {} THEN "PARTIAL"
        ELSE IF \/ CoveredDays(base) < MinBaselineDays
                \/ CoveredDays(recent) < MinRecentDays THEN "INSUFFICIENT"
        ELSE IF SalesOf(base) <= 0 THEN "INVALID"
        ELSE "SUFFICIENT"

\* A ratio of two means, over the sums and the counts they are taken from.
LiftOver(sales, count, against, over) ==
    ((sales * over - against * count) * 1000) \div (against * count)

Lift(observations, started) ==
    LET base == BaselineWindow(observations, started)
        recent == RecentWindow(observations, started)
    IN LiftOver(SalesOf(recent), Cardinality(recent), SalesOf(base), Cardinality(base))

Assessment(lift) == IF lift >= TargetUplift THEN "MEETS_TARGET"
                    ELSE IF lift >= 0 THEN "REVIEW_ZONE" ELSE "NEGATIVE"

CausalRecord == [state : STRING, did : Int \cup {Missing}, low : Int \cup {Missing},
                 mde : Int \cup {Missing}]
NoCausal == [state |-> "none", did |-> Missing, low |-> Missing, mde |-> Missing]

\* evaluate_outcome; causal evidence is laid beside it by its caller.
OutcomeOf(observations, started, asOf) ==
    LET state == EvidenceState(observations, started, asOf)
        lift == IF state = "SUFFICIENT" THEN Lift(observations, started) ELSE Missing
    IN [state |-> state, lift |-> lift,
        assessment |-> IF lift = Missing THEN "none" ELSE Assessment(lift), causal |-> NoCausal]

-----------------------------------------------------------------------------
(* Weekly checkpoints: per week what the client provided, or a placeholder. *)

CheckpointStatuses == {"DUE", "OBSERVED", "MISSED", "INVALID"}

Awaited(due, asOf) == IF asOf < due THEN "DUE" ELSE "MISSED"

\* What a client may provide for a week; each label it may leave out.
Label == STRING \cup {Missing}
Provision == [due : Int, observed : Int \cup {Missing}, key : Label, campaign : Label, timing : Label]

Unlabelled(due, status) ==
    [due |-> due, observed |-> Missing, status |-> status, key |-> Missing, campaign |-> Missing,
     timing |-> Missing]

\* A week provided for twice is of no use, but keeps the labels it was first given.
WeeklyCheckpoint(due, asOf, provided) ==
    LET own == {i \in DOMAIN provided : provided[i].due = due}
        first == provided[Min(own)]
        seen == IF Cardinality(own) > 1 THEN Missing ELSE first.observed
    IN  IF own = {} THEN Unlabelled(due, Awaited(due, asOf))
        ELSE [due |-> due, observed |-> seen,
              status |-> IF Cardinality(own) > 1 THEN "INVALID"
                         ELSE IF seen = Missing THEN Awaited(due, asOf) ELSE "OBSERVED",
              key |-> first.key, campaign |-> first.campaign, timing |-> first.timing]

Checkpoints(started, asOf, weeks, provided) ==
    [w \in 1 .. weeks |-> WeeklyCheckpoint(started + WeekDays * DayLength * w, asOf, provided)]

-----------------------------------------------------------------------------
(* The join.  Ids name their record; a campaign or a timing window may be    *)
(* Missing.                                                                *)

EvaluableStates == {"APPROVED", "ACTIVE", "PAUSED", "COMPLETED", "FAILED", "OUTCOME_PENDING",
                    "EVALUATED"}

Referenced(rec, approval, run, outcome) ==
    /\ approval.rec = rec.id /\ approval.approved
    /\ run.approval = approval.id /\ run.rec = rec.id
    /\ outcome.run = run.id
    /\ run.state \in EvaluableStates /\ run.started # Missing

Campaigns(labels) == {CanonicalCampaign(label) : label \in labels \ {Missing}}
Timings(labels) == {CanonicalTiming(label) : label \in labels \ {Missing}}

\* The fields in which two records differ; "key" is for the store too.
JoinConflicts(rec, run, outcome) ==
    {field \in {"key", "campaign", "timing"} :
        \/ field = "key" /\ (rec.key # run.key \/ run.key # outcome.key)
        \/ /\ field = "campaign"
           /\ Cardinality(Campaigns({rec.campaign, run.campaign, outcome.campaign})) > 1
        \/ /\ field = "timing"
           /\ Cardinality(Timings({rec.timing, run.timing, outcome.timing})) > 1}

\* A label of the checkpoint's that nobody else has is a conflict too.
CheckpointConflicts(checkpoint, rec, run, outcome) ==
    {field \in {"key", "campaign", "timing"} :
        \/ field = "key" /\ checkpoint.key # Missing /\ checkpoint.key # run.key
        \/ /\ field = "campaign" /\ checkpoint.campaign # Missing
           /\ Campaigns({rec.campaign, run.campaign, outcome.campaign})
                 # {CanonicalCampaign(checkpoint.campaign)}
        \/ /\ field = "timing" /\ checkpoint.timing # Missing
           /\ Timings({rec.timing, run.timing, outcome.timing}) # {CanonicalTiming(checkpoint.timing)}}

\* A label that differs contradicts; a key that differs is no join at all.
ConflictState(conflicts) ==
    IF "campaign" \in conflicts \/ "timing" \in conflicts THEN "CONTRADICTORY" ELSE "INVALID"

InOrder(rec, approval, run, checkpoints, outcome) ==
    /\ rec.generated <= approval.decided /\ approval.decided <= run.started
    /\ outcome.started <= run.started
    /\ DueAt(outcome.started) >= run.started
    /\ RecentFrom(outcome.started) >= outcome.started
    /\ \A i \in DOMAIN checkpoints :
          /\ checkpoints[i].due >= run.started
          /\ checkpoints[i].observed # Missing => checkpoints[i].observed >= checkpoints[i].due

CheckpointState(checkpoint, rec, run, outcome) ==
    LET conflicts == CheckpointConflicts(checkpoint, rec, run, outcome)
    IN  IF checkpoint.status \notin CheckpointStatuses \ {"INVALID"} THEN "INVALID"
        ELSE IF conflicts # {} THEN ConflictState(conflicts)
        ELSE "SUFFICIENT"

JoinState(rec, approval, run, checkpoints, outcome) ==
    LET conflicts == JoinConflicts(rec, run, outcome)
        refused == {i \in DOMAIN checkpoints :
                      CheckpointState(checkpoints[i], rec, run, outcome) # "SUFFICIENT"}
    IN  IF ~Referenced(rec, approval, run, outcome) THEN "INVALID"
        ELSE IF outcome.state # "SUFFICIENT" THEN outcome.state
        ELSE IF conflicts # {} THEN ConflictState(conflicts)
        ELSE IF ~InOrder(rec, approval, run, checkpoints, outcome) THEN "INVALID"
        ELSE IF refused # {} THEN CheckpointState(checkpoints[Min(refused)], rec, run, outcome)
        ELSE "SUFFICIENT"
=============================================================================
