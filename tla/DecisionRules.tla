---------------------------- MODULE DecisionRules ---------------------------
(***************************************************************************)
(* The deterministic rules a store's record is made with: health and       *)
(* confidence (decision_engine/scorer.py), the causal guardrail            *)
(* (decision_engine/causality.py), the approval policy                     *)
(* (guardrails/__init__.py), the board's buckets (presentation/board.py)   *)
(* and the attention queue's order (app/monitor.py).                       *)
(*                                                                         *)
(* Units: percentages in tenths of a percent, health in tenths of a point, *)
(* confidence in hundredths.  A value the code rounds is rounded to the    *)
(* nearest unit here, halves upwards.                                      *)
(***************************************************************************)
EXTENDS Integers

CONSTANT Missing   \* None where a number may stand

ASSUME MissingAssumption == Missing \notin Int

-----------------------------------------------------------------------------
Lesser(a, b) == IF a <= b THEN a ELSE b
Greater(a, b) == IF a >= b THEN a ELSE b
Clamp(x, low, high) == Lesser(Greater(x, low), high)
Distance(a, b) == IF a <= b THEN b - a ELSE a - b
Rounded(n, d) == (2 * n + d) \div (2 * d)

TargetUplift == 30
HealthLow == 400
HealthHigh == 700
DeadlineDays == 14
StalledDays == 30
RecoveryWindow == 60

-----------------------------------------------------------------------------
(* Signals and health.                                                     *)

Signal == [available : BOOLEAN, status : {"AVAILABLE", "NO_DATA", "ERROR"},
           baseline : Int, current : Int, elapsed : Nat, remaining : Nat]

RecoveryPct(sig) ==
    IF sig.baseline <= 0 THEN 0
    ELSE ((sig.current - sig.baseline) * 1000) \div sig.baseline

\* The velocity has the sign of the recovery, and none on the first day.
Stalled(sig) == sig.elapsed <= 0 \/ RecoveryPct(sig) <= 0

RecoveryPart(r) == Clamp(r, 0, TargetUplift)

\* recovery / elapsed, against the target spread over the window.
VelocityPart(r, elapsed) == IF elapsed <= 0 THEN 0 ELSE Clamp(2 * r, 0, elapsed)

HealthScore(sig) ==
    LET r == RecoveryPct(sig)
        days == Greater(sig.elapsed, 1)
    IN 200 + Rounded(50 * RecoveryPart(r) * days + 900 * VelocityPart(r, sig.elapsed),
                     3 * days)

BoundaryConfidence(health) ==
    Lesser(50 + Rounded(Lesser(Distance(health, HealthLow), Distance(health, HealthHigh)), 4),
           100)

\* First match wins.
HealthRecommendation(sig, health) ==
    IF health >= HealthHigh THEN "CONTINUE"
    ELSE IF health < HealthLow /\ sig.remaining < DeadlineDays THEN "ESCALATE"
    ELSE IF health < HealthLow THEN "EXTEND_INTERVENTION"
    ELSE IF Stalled(sig) /\ sig.remaining < StalledDays THEN "ESCALATE"
    ELSE "MONITOR"

Route(sig) ==
    IF ~sig.available THEN "no_data"
    ELSE IF sig.remaining < DeadlineDays THEN "near_deadline" ELSE "standard"

Plan(route) == IF route = "no_data" THEN "flag_for_review" ELSE "score_and_recommend"

-----------------------------------------------------------------------------
(* The causal guardrail: what matched controls say of a lift.  low is the  *)
(* lower bound of the interval.                                            *)

Uncertain(c) == \/ c.low # Missing /\ c.low < 0
                \/ c.mde # Missing /\ c.did < c.mde

\* Faulty variant: the interval and the detectable effect are not looked at.
CausalPoint(c) ==
    IF c.state # "SUFFICIENT" \/ c.did = Missing THEN "UNAVAILABLE"
    ELSE IF c.did < 0 THEN "REFUTED"
    ELSE IF c.did < TargetUplift THEN "REVIEW_ZONE" ELSE "CONFIRMED"

CausalState(c) ==
    IF c.state # "SUFFICIENT" \/ c.did = Missing THEN "UNAVAILABLE"
    ELSE IF c.did < 0 THEN "REFUTED"
    ELSE IF c.did < TargetUplift \/ Uncertain(c) THEN "REVIEW_ZONE"
    ELSE "CONFIRMED"

-----------------------------------------------------------------------------
(* The approval policy.                                                    *)

SpendMoves == {"RETARGET_SEGMENT", "TIMING_SHIFT", "REALLOCATE_BUDGET"}
Gated == {"ESCALATE", "EXTEND_INTERVENTION", "NEEDS_REVIEW", "PAUSE_INTERVENTION"} \cup SpendMoves
ValidRecommendations == Gated \cup {"CONTINUE", "MONITOR"}

RiskOf(action) ==
    CASE action \in {"EXTEND_INTERVENTION", "RETARGET_SEGMENT"} -> "cautious"
      [] action \in {"PAUSE_INTERVENTION", "TIMING_SHIFT", "NEEDS_REVIEW", "MONITOR", "CONTINUE"}
           -> "reversible"
      [] OTHER -> "irreversible"

\* What the human may choose instead.
Fallback(action) ==
    CASE action \in {"PAUSE_INTERVENTION", "EXTEND_INTERVENTION", "NEEDS_REVIEW"} -> "MONITOR"
      [] action = "ESCALATE" -> "NEEDS_REVIEW"
      [] action \in SpendMoves -> "EXTEND_INTERVENTION"
      [] OTHER -> "none"

-----------------------------------------------------------------------------
(* The attention queue.  Urgency in units of 1/4200, the common            *)
(* denominator of 700 tenths of health, 60 days and 100 hundredths.        *)

Tier(rec) == CASE rec.action \in {"ESCALATE", "PAUSE_INTERVENTION"} -> 0
               [] rec.action \in Gated \ {"ESCALATE", "PAUSE_INTERVENTION"} -> 1
               [] OTHER -> 2

Urgency(rec) ==
    LET health == Clamp(rec.health, 0, 1000)
        days == Clamp(rec.remaining, 0, 60)
        confidence == Clamp(rec.confidence, 0, 100)
    IN 6 * (700 - health) + 70 * (60 - days) + 42 * (100 - confidence)
       + (IF rec.assessment = "NEGATIVE" THEN 8400 ELSE 0)
       + (CASE rec.causal = "REFUTED" -> 4200
            [] rec.causal = "REVIEW_ZONE" -> 1260
            [] OTHER -> 0)

\* a is served before b.
Before(a, b) ==
    \/ Tier(a) < Tier(b)
    \/ Tier(a) = Tier(b) /\ Urgency(a) > Urgency(b)
    \/ Tier(a) = Tier(b) /\ Urgency(a) = Urgency(b) /\ a.store < b.store

\* is_campaign_working: TRUE and proven, TRUE and not, FALSE, or undecided.
CampaignWorking(rec) ==
    IF rec.evidence # "SUFFICIENT" THEN "unknown"
    ELSE IF rec.assessment = "MEETS_TARGET" /\ rec.causal = "CONFIRMED" THEN "proven"
    ELSE IF rec.assessment = "MEETS_TARGET" THEN "raw"
    ELSE IF rec.assessment = "NEGATIVE" THEN "failing" ELSE "unknown"

-----------------------------------------------------------------------------
(* The board.                                                              *)

NoSignal(rec) ==
    /\ rec.action = "NEEDS_REVIEW"
    /\ rec.health = 0
    /\ ~rec.signal
    /\ rec.status \in {"NO_DATA", "ERROR"}

OutcomeWorking(rec) ==
    IF rec.assessment # "MEETS_TARGET" THEN "none"
    ELSE IF rec.causal = "CONFIRMED" THEN "causal" ELSE "raw"

Bucket(rec) ==
    IF NoSignal(rec) THEN "insufficient_data"
    ELSE IF rec.gated THEN "needs_intervention"
    ELSE IF OutcomeWorking(rec) = "causal" \/ rec.health >= HealthHigh THEN "working_well"
    ELSE IF rec.recovery > 0 \/ rec.assessment = "REVIEW_ZONE" THEN "recovering"
    ELSE "watch"
=============================================================================
