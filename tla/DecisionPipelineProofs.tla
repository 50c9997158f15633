----------------------- MODULE DecisionPipelineProofs -----------------------
(***************************************************************************)
(* What a record keeps on its way through the pipeline, for any signals,   *)
(* outcomes and store contexts.  Each step overwrites what an earlier one  *)
(* decided; the invariant ties the record to the outcome it was fed, and   *)
(* the promises follow from that link.                                     *)
(***************************************************************************)
EXTENDS DecisionPipeline, TLAPS

CausalWords == {"none", "UNAVAILABLE", "REFUTED", "REVIEW_ZONE", "CONFIRMED"}

Statuses == {"AVAILABLE", "NO_DATA", "ERROR"}
Bases == {"no_signal", "forecast_health", "outcome_evidence"}
States == {"none"} \cup {o.state : o \in Outcomes}

Rec == [store : Int, action : ValidRecommendations, confidence : 0 .. 100, health : Int,
        recovery : Int, remaining : Nat, signal : BOOLEAN, status : Statuses, basis : Bases,
        evidence : States, assessment : Assessments, causal : CausalWords,
        scaleUp : BOOLEAN, gated : BOOLEAN, verified : BOOLEAN]

Typed ==
    /\ stage \in Stages /\ sig \in Signals /\ outcome \in Outcomes \cup {NoOutcome}
    /\ rec \in Rec

Credited(o) == o.state = "SUFFICIENT" /\ o.assessment = "MEETS_TARGET"

\* What the record says of the outcome is what the outcome says.
Faithful ==
    /\ rec.evidence = outcome.state
    /\ rec.assessment = IF outcome.state = "SUFFICIENT" THEN outcome.assessment ELSE "none"
    /\ rec.causal = IF Credited(outcome) THEN CausalState(outcome.causal) ELSE "none"
    /\ rec.scaleUp = (rec.causal = "CONFIRMED")

\* An outcome is looked at once there is a signal, and not before the record is scored.
Fed ==
    /\ rec.signal = sig.available
    /\ stage = "scored" => outcome = NoOutcome
    /\ stage \in {"scored", "fed", "diversified"} => sig.available
    /\ ~sig.available => outcome = NoOutcome

SpendIsConfirmed == rec.action \in SpendMoves => rec.causal = "CONFIRMED"
HarmPauses == outcome.state = "SUFFICIENT" /\ Harmful(outcome) => rec.action = "PAUSE_INTERVENTION"
DeclineStaysGated == sig.available /\ RecoveryPct(sig) <= 0 => rec.action \in Gated

FlagsFollow ==
    /\ stage \in {"annotated", "verified", "done"} => rec.gated = (rec.action \in Gated)
    /\ stage \in {"verified", "done"} => rec.verified

\* The decision, without the flags derived from it.
Decision == /\ SpendIsConfirmed /\ HarmPauses /\ DeclineStaysGated
            /\ BoostNeedsProof /\ EscalationMeansLowHealth

Inv == Typed /\ Faithful /\ Fed /\ Decision /\ FlagsFollow

-----------------------------------------------------------------------------
(* The arithmetic of the rules.                                            *)

LEMMA RoundedShrinks ==
    ASSUME NEW c \in 0 .. 100
    PROVE  /\ Rounded(c * 8, 10) \in 0 .. 100 /\ Rounded(c * 8, 10) <= c
           /\ Rounded(c * 9, 10) \in 0 .. 100 /\ Rounded(c * 9, 10) <= c
BY DEF Rounded

LEMMA BoundaryInRange ==
    ASSUME NEW h \in Int
    PROVE  BoundaryConfidence(h) \in 50 .. 100
<1>. DEFINE near == Lesser(Distance(h, HealthLow), Distance(h, HealthHigh))
<1>1. near \in Nat
  BY DEF Lesser, Distance, HealthLow, HealthHigh
<1>2. Rounded(near, 4) \in Nat
  <2>. HIDE DEF near
  <2>. QED  BY <1>1 DEF Rounded
<1>. QED  BY <1>2 DEF BoundaryConfidence, Lesser

LEMMA RecoveryInt ==
    ASSUME NEW s \in Signal
    PROVE  RecoveryPct(s) \in Int
BY DEF RecoveryPct, Signal

LEMMA HealthInt ==
    ASSUME NEW s \in Signal
    PROVE  HealthScore(s) \in Int
<1>. DEFINE r == RecoveryPct(s)
            days == Greater(s.elapsed, 1)
            sum == 50 * RecoveryPart(r) * days + 900 * VelocityPart(r, s.elapsed)
<1>1. r \in Int /\ s.elapsed \in Nat
  BY RecoveryInt DEF Signal
<1>2. days \in Nat /\ 3 * days > 0
  BY <1>1 DEF Greater
<1>3. RecoveryPart(r) \in Int /\ VelocityPart(r, s.elapsed) \in Int
  <2>. HIDE DEF r
  <2>. QED  BY <1>1 DEF RecoveryPart, VelocityPart, Clamp, Lesser, Greater, TargetUplift
<1>4. sum \in Int
  <2>. HIDE DEF r, days
  <2>. QED  BY <1>2, <1>3
<1>5. Rounded(sum, 3 * days) \in Int
  <2>. HIDE DEF sum, days
  <2>. QED  BY <1>2, <1>4 DEF Rounded
<1>. QED  BY <1>5 DEF HealthScore

\* A store that did not rise has the health of one that stood still.
LEMMA HealthOfDecline ==
    ASSUME NEW s \in Signal, RecoveryPct(s) <= 0
    PROVE  HealthScore(s) = 200
<1>. DEFINE r == RecoveryPct(s)
            days == Greater(s.elapsed, 1)
<1>1. r \in Int /\ r <= 0 /\ s.elapsed \in Nat
  BY RecoveryInt DEF Signal
<1>2. days \in Nat /\ days > 0
  BY <1>1 DEF Greater
<1>3. RecoveryPart(r) = 0 /\ VelocityPart(r, s.elapsed) = 0
  <2>. HIDE DEF r
  <2>. QED  BY <1>1 DEF RecoveryPart, VelocityPart, Clamp, Lesser, Greater, TargetUplift
<1>4. 50 * RecoveryPart(r) * days + 900 * VelocityPart(r, s.elapsed) = 0
  <2>. HIDE DEF r, days
  <2>. QED  BY <1>2, <1>3
<1>5. Rounded(0, 3 * days) = 0
  <2>. HIDE DEF days
  <2>. QED  BY <1>2 DEF Rounded
<1>. QED  BY <1>4, <1>5 DEF HealthScore

LEMMA SignalsAreSignals ==
    ASSUME NEW s \in Signals
    PROVE  /\ s \in Signal /\ s.elapsed + s.remaining >= 60
           /\ s.available <=> s.status = "AVAILABLE"
BY PipelineAssumption DEF RecoveryWindow

\* The health rules choose no spend, gate a decline, and escalate a store of middling
\* health never: only one that stood still is stalled, or one on its first day.
LEMMA HealthRules ==
    ASSUME NEW s \in Signals
    PROVE  LET action == HealthRecommendation(s, HealthScore(s))
           IN /\ action \in ValidRecommendations \ SpendMoves
              /\ action # "PAUSE_INTERVENTION"
              /\ RecoveryPct(s) <= 0 => action \in Gated
              /\ action = "ESCALATE" => HealthScore(s) < HealthLow /\ s.remaining < DeadlineDays
<1>1. s \in Signal /\ s.elapsed \in Nat /\ s.remaining \in Nat /\ s.elapsed + s.remaining >= 60
  BY SignalsAreSignals DEF Signal
<1>2. HealthScore(s) \in Int /\ RecoveryPct(s) \in Int
  BY <1>1, HealthInt, RecoveryInt
<1>3. RecoveryPct(s) <= 0 => HealthScore(s) = 200
  BY <1>1, HealthOfDecline
<1>4. Stalled(s) /\ s.remaining < StalledDays => HealthScore(s) = 200
  BY <1>1, <1>2, <1>3 DEF Stalled, StalledDays
<1>. QED  BY <1>1, <1>2, <1>3, <1>4
       DEF HealthRecommendation, ValidRecommendations, SpendMoves, Gated, HealthLow, HealthHigh

-----------------------------------------------------------------------------
(* The outcome.                                                            *)

LEMMA OutcomesTyped ==
    ASSUME NEW o \in Outcomes \cup {NoOutcome}
    PROVE  /\ o.assessment \in Assessments
           /\ o.lift \in Int \cup {Missing}
           /\ o.causal.did \in Int \cup {Missing} /\ o.causal.low \in Int \cup {Missing}
           /\ o.causal.mde \in Int \cup {Missing}
           /\ o.assessment # "none" => o.lift # Missing
           /\ CausalState(o.causal) \in CausalWords \ {"none"}
<1>1. CausalState(o.causal) \in CausalWords \ {"none"}
  BY DEF CausalState, CausalWords
<1>2. CASE o \in Outcomes
  <2>1. o \in Outcome
    BY <1>2, PipelineAssumption
  <2>2. o.assessment # "none" => o.lift # Missing
    BY <1>2, PipelineAssumption
  <2>3. o.causal \in [state : STRING, did : Percent, low : Percent, mde : Percent]
    BY <2>1 DEF Outcome
  <2>4. o.assessment \in Assessments /\ o.lift \in Percent
    BY <2>1 DEF Outcome
  <2>5. o.causal.did \in Percent /\ o.causal.low \in Percent /\ o.causal.mde \in Percent
    BY <2>3
  <2>6. Percent = Int \cup {Missing}
    BY DEF Percent
  <2>. QED  BY <1>1, <2>2, <2>4, <2>5, <2>6
<1>3. CASE o = NoOutcome
  <2>1. o.state = "none" /\ o.assessment = "none" /\ o.lift = Missing
    BY <1>3 DEF NoOutcome
  <2>2. o.causal.did = Missing /\ o.causal.low = Missing /\ o.causal.mde = Missing
    BY <1>3 DEF NoOutcome
  <2>3. "none" \in Assessments
    BY DEF Assessments
  <2>5. o.assessment \in Assessments
    BY <2>1, <2>3
  <2>6. o.assessment # "none" => o.lift # Missing
    BY <2>1
  <2>7. o.lift \in Int \cup {Missing}
    BY <2>1
  <2>8. /\ o.causal.did \in Int \cup {Missing} /\ o.causal.low \in Int \cup {Missing}
        /\ o.causal.mde \in Int \cup {Missing}
    BY <2>2
  <2>. QED  BY <1>1, <2>5, <2>6, <2>7, <2>8
<1>. QED  BY <1>2, <1>3

\* A confirmed lift is one the controls measured at the target, detectably and without
\* a loss in its interval.
LEMMA ConfirmedMeans ==
    ASSUME NEW o \in Outcomes \cup {NoOutcome}, CausalState(o.causal) = "CONFIRMED"
    PROVE  /\ o.causal.state = "SUFFICIENT" /\ o.causal.did # Missing
           /\ o.causal.did >= TargetUplift
           /\ o.causal.low # Missing => o.causal.low >= 0
           /\ o.causal.mde # Missing => o.causal.did >= o.causal.mde
BY OutcomesTyped DEF CausalState, Uncertain, TargetUplift

\* The feedback, branch by branch.
LEMMA FedBackHarm ==
    ASSUME NEW r \in Rec, NEW o \in Outcomes, Harmful(o)
    PROVE  FedBack(r, o) = [[r EXCEPT !.assessment = o.assessment]
                EXCEPT !.action = "PAUSE_INTERVENTION", !.confidence = Greater(r.confidence, 70)]
<1>1. o.assessment = "NEGATIVE"
  BY DEF Harmful
<1>2. o.assessment # "REVIEW_ZONE" /\ o.assessment # "MEETS_TARGET"
  BY <1>1
<1>. QED  BY <1>1, <1>2 DEF FedBack

LEMMA FedBackReview ==
    ASSUME NEW r \in Rec, NEW o \in Outcomes, o.assessment = "REVIEW_ZONE"
    PROVE  FedBack(r, o) = [[r EXCEPT !.assessment = o.assessment]
                EXCEPT !.confidence = Rounded(r.confidence * 8, 10)]
BY OutcomesTyped DEF FedBack, Harmful

LEMMA FedBackTarget ==
    ASSUME NEW r \in Rec, NEW o \in Outcomes, o.assessment = "MEETS_TARGET"
    PROVE  FedBack(r, o) = [[r EXCEPT !.assessment = o.assessment]
                EXCEPT !.confidence = GuardedConfidence(r.confidence, CausalState(o.causal)),
                       !.causal = CausalState(o.causal),
                       !.scaleUp = (CausalState(o.causal) = "CONFIRMED")]
BY OutcomesTyped DEF FedBack, Harmful

LEMMA FedBackOther ==
    ASSUME NEW r \in Rec, NEW o \in Outcomes, ~Harmful(o),
           o.assessment \notin {"REVIEW_ZONE", "MEETS_TARGET"}
    PROVE  FedBack(r, o) = [r EXCEPT !.assessment = o.assessment]
BY DEF FedBack

LEMMA GuardedInRange ==
    ASSUME NEW c \in 0 .. 100, NEW state \in CausalWords
    PROVE  /\ GuardedConfidence(c, state) \in 0 .. 100
           /\ state # "CONFIRMED" => GuardedConfidence(c, state) <= c
BY RoundedShrinks DEF GuardedConfidence, Lesser, CausalWords

\* What the feedback leaves alone, and what it sets.
LEMMA FeedbackFields ==
    ASSUME NEW r \in Rec, NEW o \in Outcomes
    PROVE  /\ FedBack(r, o) \in Rec
           /\ FedBack(r, o).assessment = o.assessment
           /\ FedBack(r, o).evidence = r.evidence
           /\ FedBack(r, o).health = r.health
           /\ FedBack(r, o).remaining = r.remaining
           /\ FedBack(r, o).signal = r.signal
           /\ FedBack(r, o).action = IF Harmful(o) THEN "PAUSE_INTERVENTION" ELSE r.action
           /\ \/ FedBack(r, o).confidence <= r.confidence
              \/ Harmful(o) /\ FedBack(r, o).confidence <= 70
              \/ FedBack(r, o).causal = "CONFIRMED"
           /\ FedBack(r, o).causal = IF o.assessment = "MEETS_TARGET"
                                     THEN CausalState(o.causal) ELSE r.causal
           /\ FedBack(r, o).scaleUp = IF o.assessment = "MEETS_TARGET"
                                      THEN CausalState(o.causal) = "CONFIRMED" ELSE r.scaleUp
<1>1. /\ r.confidence \in 0 .. 100 /\ o.assessment \in Assessments
      /\ CausalState(o.causal) \in CausalWords
  BY OutcomesTyped DEF Rec
<1>2. CASE Harmful(o)
  <2>1. o.assessment = "NEGATIVE"
    BY <1>2 DEF Harmful
  <2>2. /\ Greater(r.confidence, 70) \in 0 .. 100
        /\ Greater(r.confidence, 70) <= r.confidence \/ Greater(r.confidence, 70) <= 70
    BY <1>1 DEF Greater
  <2>3. "PAUSE_INTERVENTION" \in ValidRecommendations
    BY DEF ValidRecommendations, Gated
  <2>. DEFINE raised == Greater(r.confidence, 70)
  <2>4. FedBack(r, o) = [[r EXCEPT !.assessment = o.assessment]
                EXCEPT !.action = "PAUSE_INTERVENTION", !.confidence = raised]
    BY <1>2, FedBackHarm
  <2>5. raised \in 0 .. 100 /\ (raised <= r.confidence \/ raised <= 70)
    BY <2>2
  <2>. HIDE DEF raised
  <2>6. FedBack(r, o) \in Rec
    BY <1>1, <2>3, <2>4, <2>5 DEF Rec
  <2>. QED  BY <1>1, <1>2, <2>1, <2>4, <2>5, <2>6 DEF Rec
<1>3. CASE o.assessment = "REVIEW_ZONE"
  <2>1. ~Harmful(o)
    BY <1>3 DEF Harmful
  <2>. DEFINE lowered == Rounded(r.confidence * 8, 10)
  <2>2. lowered \in 0 .. 100 /\ lowered <= r.confidence
    BY <1>1, RoundedShrinks
  <2>3. FedBack(r, o) = [[r EXCEPT !.assessment = o.assessment] EXCEPT !.confidence = lowered]
    BY <1>3, FedBackReview
  <2>. HIDE DEF lowered
  <2>4. FedBack(r, o) \in Rec
    BY <1>1, <2>2, <2>3 DEF Rec
  <2>. QED  BY <1>1, <1>3, <2>1, <2>2, <2>3, <2>4 DEF Rec
<1>4. CASE o.assessment = "MEETS_TARGET"
  <2>1. ~Harmful(o)
    BY <1>4 DEF Harmful
  <2>. DEFINE state == CausalState(o.causal)
              guarded == GuardedConfidence(r.confidence, state)
  <2>2. guarded \in 0 .. 100 /\ (state # "CONFIRMED" => guarded <= r.confidence)
    BY <1>1, GuardedInRange
  <2>3. FedBack(r, o) = [[r EXCEPT !.assessment = o.assessment]
                EXCEPT !.confidence = guarded, !.causal = state, !.scaleUp = (state = "CONFIRMED")]
    BY <1>4, FedBackTarget
  <2>4. state \in CausalWords
    BY <1>1
  <2>. HIDE DEF guarded, state
  <2>5. FedBack(r, o) \in Rec
    BY <1>1, <2>2, <2>3, <2>4 DEF Rec
  <2>6. /\ FedBack(r, o).confidence = guarded /\ FedBack(r, o).causal = state
        /\ FedBack(r, o).scaleUp = (state = "CONFIRMED")
    BY <1>1, <2>3 DEF Rec
  <2>7. /\ FedBack(r, o).assessment = o.assessment /\ FedBack(r, o).evidence = r.evidence
        /\ FedBack(r, o).health = r.health /\ FedBack(r, o).remaining = r.remaining
        /\ FedBack(r, o).signal = r.signal /\ FedBack(r, o).action = r.action
    BY <1>1, <2>3 DEF Rec
  <2>8. FedBack(r, o).confidence <= r.confidence \/ FedBack(r, o).causal = "CONFIRMED"
    BY <2>2, <2>6
  <2>9. FedBack(r, o).scaleUp = IF o.assessment = "MEETS_TARGET"
                                THEN CausalState(o.causal) = "CONFIRMED" ELSE r.scaleUp
    BY <1>4, <2>6 DEF state
  <2>10. FedBack(r, o).causal = IF o.assessment = "MEETS_TARGET"
                                THEN CausalState(o.causal) ELSE r.causal
    BY <1>4, <2>6 DEF state
  <2>11. FedBack(r, o).action = IF Harmful(o) THEN "PAUSE_INTERVENTION" ELSE r.action
    BY <2>1, <2>7
  <2>. QED  BY <2>5, <2>7, <2>8, <2>9, <2>10, <2>11
<1>5. CASE ~Harmful(o) /\ o.assessment \notin {"REVIEW_ZONE", "MEETS_TARGET"}
  BY <1>1, <1>5, FedBackOther DEF Rec
<1>6. Harmful(o) \/ o.assessment \in {"REVIEW_ZONE", "MEETS_TARGET"}
        \/ (~Harmful(o) /\ o.assessment \notin {"REVIEW_ZONE", "MEETS_TARGET"})
  OBVIOUS
<1>. QED  BY <1>2, <1>3, <1>4, <1>5, <1>6

-----------------------------------------------------------------------------
(* The steps.                                                              *)

LEMMA InitInv == PipelineInit => Inv
<1>. SUFFICES ASSUME PipelineInit PROVE Inv
  OBVIOUS
<1>1. /\ sig \in Signals /\ sig \in Signal /\ outcome = NoOutcome
      /\ (sig.available <=> sig.status = "AVAILABLE")
  BY SignalsAreSignals DEF PipelineInit
<1>2. /\ sig.available \in BOOLEAN /\ sig.remaining \in Nat /\ sig.status \in Statuses
      /\ RecoveryPct(sig) \in Int
  BY <1>1, RecoveryInt DEF Signal, Statuses
<1>3. /\ outcome.state = "none" /\ outcome.assessment = "none" /\ ~Credited(outcome)
      /\ outcome.lift = Missing
  BY <1>1 DEF NoOutcome, Credited
<1>4. CASE ~sig.available
  <2>1. rec = NoDataRecord(sig) /\ stage = "annotated"
    BY <1>4 DEF PipelineInit, Plan, Route
  <2>2. rec = Draft(sig, "NEEDS_REVIEW", 100, 0, "no_signal")
    BY <2>1 DEF NoDataRecord
  <2>3. "NEEDS_REVIEW" \in ValidRecommendations \cap Gated /\ "NEEDS_REVIEW" \notin SpendMoves
    BY DEF ValidRecommendations, Gated, SpendMoves
  <2>4. Typed
    BY <1>1, <1>2, <1>4, <2>1, <2>2, <2>3
       DEF Typed, Rec, Bases, States, Assessments, CausalWords, Stages, Draft
  <2>5. Faithful /\ Fed /\ FlagsFollow
    <3>1. /\ rec.evidence = "none" /\ rec.assessment = "none" /\ rec.causal = "none"
          /\ rec.scaleUp = FALSE /\ rec.signal = sig.available
          /\ rec.action = "NEEDS_REVIEW" /\ rec.gated = ("NEEDS_REVIEW" \in Gated)
      BY <2>2 DEF Draft
    <3>2. Faithful
      BY <1>3, <3>1 DEF Faithful
    <3>3. Fed
      BY <1>1, <1>4, <2>1, <3>1 DEF Fed
    <3>4. FlagsFollow
      BY <2>1, <3>1 DEF FlagsFollow
    <3>. QED  BY <3>2, <3>3, <3>4
  <2>6. Decision
    BY <1>3, <1>4, <2>2, <2>3
       DEF Decision, SpendIsConfirmed, HarmPauses, DeclineStaysGated, BoostNeedsProof,
           EscalationMeansLowHealth, Draft
  <2>. QED  BY <2>4, <2>5, <2>6 DEF Inv
<1>5. CASE sig.available
  <2>. DEFINE health == HealthScore(sig)
              action == HealthRecommendation(sig, health)
              boundary == BoundaryConfidence(health)
  <2>1. rec = Draft(sig, action, boundary, health, "forecast_health") /\ stage = "scored"
    BY <1>5 DEF PipelineInit, Plan, Route, ScoredRecord
  <2>2. /\ action \in ValidRecommendations \ SpendMoves
        /\ RecoveryPct(sig) <= 0 => action \in Gated
        /\ action = "ESCALATE" => health < HealthLow /\ sig.remaining < DeadlineDays
    BY <1>1, HealthRules
  <2>3. health \in Int
    BY <1>1, HealthInt
  <2>4. boundary \in 0 .. 100
    BY <2>3, BoundaryInRange
  <2>5. rec.confidence = BoundaryConfidence(rec.health)
    BY <2>1 DEF Draft
  <2>. HIDE DEF health, action, boundary
  <2>6. Typed
    BY <1>1, <1>2, <1>5, <2>1, <2>2, <2>3, <2>4
       DEF Typed, Rec, Bases, States, Assessments, CausalWords, Stages, Draft
  <2>7. Faithful /\ Fed /\ FlagsFollow
    BY <1>1, <1>3, <1>5, <2>1 DEF Faithful, Fed, FlagsFollow, Draft
  <2>8. SpendIsConfirmed /\ HarmPauses /\ DeclineStaysGated /\ EscalationMeansLowHealth
    BY <1>3, <2>1, <2>2
       DEF SpendIsConfirmed, HarmPauses, DeclineStaysGated, EscalationMeansLowHealth, Draft
  <2>9. BoostNeedsProof
    BY <2>4, <2>5, <2>6 DEF BoostNeedsProof, Typed, Rec
  <2>. QED  BY <2>6, <2>7, <2>8, <2>9 DEF Inv, Decision
<1>. QED  BY <1>2, <1>4, <1>5

\* The outcome is read, and its evidence cited, before it says anything.
LEMMA ApplyOutcomeInv == Inv /\ ApplyOutcome => Inv'
<1>. SUFFICES ASSUME Inv, ApplyOutcome PROVE Inv'
  OBVIOUS
<1>1. PICK o \in Outcomes \cup {NoOutcome} :
          LET cited == [rec EXCEPT !.evidence = o.state,
                                   !.basis = IF o.state = "none" THEN @ ELSE "outcome_evidence"]
          IN /\ outcome' = o
             /\ rec' = IF o.state = "SUFFICIENT" THEN FedBack(cited, o) ELSE cited
  BY DEF ApplyOutcome
<1>. DEFINE cited == [rec EXCEPT !.evidence = o.state,
                                 !.basis = IF o.state = "none" THEN @ ELSE "outcome_evidence"]
<1>2. /\ stage = "scored" /\ stage' = "fed" /\ sig' = sig /\ outcome' = o
      /\ rec' = IF o.state = "SUFFICIENT" THEN FedBack(cited, o) ELSE cited
  BY <1>1 DEF ApplyOutcome
<1>3. /\ rec \in Rec /\ outcome = NoOutcome /\ sig \in Signals /\ sig.available
      /\ rec.signal = sig.available
  BY <1>2 DEF Inv, Typed, Fed
<1>4. rec.causal = "none" /\ rec.assessment = "none" /\ rec.scaleUp = FALSE
  BY <1>3 DEF Inv, Faithful, NoOutcome, Credited
<1>5. o.state \in States
  BY DEF States, NoOutcome
<1>6. /\ cited \in Rec /\ cited.evidence = o.state /\ cited.action = rec.action
      /\ cited.confidence = rec.confidence /\ cited.health = rec.health
      /\ cited.remaining = rec.remaining /\ cited.signal = rec.signal
      /\ cited.causal = "none" /\ cited.assessment = "none" /\ cited.scaleUp = FALSE
  BY <1>3, <1>4, <1>5 DEF Rec, Bases
<1>. HIDE DEF cited
<1>7. o.state = "SUFFICIENT" => o \in Outcomes
  BY DEF NoOutcome
<1>8. /\ rec' \in Rec /\ rec'.evidence = o.state /\ rec'.health = rec.health
      /\ rec'.remaining = rec.remaining /\ rec'.signal = rec.signal
  BY <1>2, <1>6, <1>7, FeedbackFields
<1>9. rec'.assessment = IF o.state = "SUFFICIENT" THEN o.assessment ELSE "none"
  BY <1>2, <1>6, <1>7, FeedbackFields
<1>10. /\ rec'.causal = IF Credited(o) THEN CausalState(o.causal) ELSE "none"
       /\ rec'.scaleUp = (rec'.causal = "CONFIRMED")
  <2>1. CASE o.state = "SUFFICIENT" /\ o.assessment = "MEETS_TARGET"
    BY <1>2, <1>6, <1>7, <2>1, FeedbackFields DEF Credited
  <2>2. CASE o.state = "SUFFICIENT" /\ o.assessment # "MEETS_TARGET"
    BY <1>2, <1>6, <1>7, <2>2, FeedbackFields DEF Credited
  <2>3. CASE o.state # "SUFFICIENT"
    BY <1>2, <1>6, <2>3 DEF Credited
  <2>. QED  BY <2>1, <2>2, <2>3
<1>11. rec'.action = IF o.state = "SUFFICIENT" /\ Harmful(o) THEN "PAUSE_INTERVENTION" ELSE rec.action
  BY <1>2, <1>6, <1>7, FeedbackFields
<1>12. \/ rec'.confidence <= rec.confidence
       \/ rec'.action = "PAUSE_INTERVENTION" /\ rec'.confidence <= 70
       \/ rec'.causal = "CONFIRMED"
  <2>1. CASE o.state = "SUFFICIENT"
    BY <1>2, <1>6, <1>7, <1>11, <2>1, FeedbackFields
  <2>2. CASE o.state # "SUFFICIENT"
    BY <1>2, <1>3, <1>6, <2>2 DEF Rec
  <2>. QED  BY <2>1, <2>2
<1>13. rec.action \notin SpendMoves /\ (RecoveryPct(sig) <= 0 => rec.action \in Gated)
  BY <1>3, <1>4 DEF Inv, Decision, SpendIsConfirmed, DeclineStaysGated
<1>14. "PAUSE_INTERVENTION" \in Gated \ SpendMoves
  BY DEF Gated, SpendMoves
<1>15. Typed'
  BY <1>2, <1>3, <1>8 DEF Typed, Stages
<1>16. Faithful' /\ Fed' /\ FlagsFollow'
  BY <1>2, <1>3, <1>8, <1>9, <1>10 DEF Faithful, Fed, FlagsFollow
<1>17. SpendIsConfirmed' /\ HarmPauses' /\ DeclineStaysGated'
  BY <1>2, <1>11, <1>13, <1>14 DEF SpendIsConfirmed, HarmPauses, DeclineStaysGated
<1>18. BoostNeedsProof'
  <2>1. /\ rec.confidence \in Int /\ rec'.confidence \in Int /\ rec.health \in Int
        /\ BoundaryConfidence(rec.health) \in Int
    BY <1>3, <1>8, BoundaryInRange DEF Rec
  <2>2. \/ rec.confidence <= BoundaryConfidence(rec.health)
        \/ rec.action = "PAUSE_INTERVENTION" /\ rec.confidence <= 70
    BY <1>3, <1>4, <2>1 DEF Inv, Decision, BoostNeedsProof
  <2>. QED  BY <1>8, <1>11, <1>12, <2>1, <2>2 DEF BoostNeedsProof
<1>19. EscalationMeansLowHealth'
  BY <1>8, <1>11 DEF Inv, Decision, EscalationMeansLowHealth
<1>. QED  BY <1>15, <1>16, <1>17, <1>18, <1>19 DEF Inv, Decision

\* A spend is chosen on a confirmed lift alone.
LEMMA DiversifyInv == Inv /\ Diversify => Inv'
<1>. SUFFICES ASSUME Inv, Diversify PROVE Inv'
  OBVIOUS
<1>1. PICK ctx \in Contexts :
          LET action == DiversifiedAction(ctx, rec.health)
          IN rec' = IF DiversificationDue(outcome, ctx) /\ action # "none"
                    THEN [rec EXCEPT !.action = action,
                              !.confidence = Greater(BoundaryConfidence(rec.health), 70)]
                    ELSE rec
  BY DEF Diversify
<1>. DEFINE action == DiversifiedAction(ctx, rec.health)
            sure == Greater(BoundaryConfidence(rec.health), 70)
<1>2. stage = "fed" /\ stage' = "diversified" /\ sig' = sig /\ outcome' = outcome
  BY DEF Diversify
<1>3. rec \in Rec
  BY DEF Inv, Typed
<1>4. CASE DiversificationDue(outcome, ctx) /\ action # "none"
  <2>1. rec' = [rec EXCEPT !.action = action, !.confidence = sure]
    BY <1>1, <1>4
  <2>2. action \in SpendMoves
    BY <1>4 DEF DiversifiedAction, SpendMoves
  <2>3. sure \in 0 .. 100
    BY <1>3, BoundaryInRange DEF Rec, Greater
  <2>4. rec.causal = "CONFIRMED" /\ ~Harmful(outcome)
    BY <1>4 DEF Inv, Faithful, DiversificationDue, Credited, Harmful
  <2>. HIDE DEF action, sure
  <2>5. action \in ValidRecommendations \cap Gated /\ action # "ESCALATE"
    BY <2>2 DEF ValidRecommendations, Gated, SpendMoves
  <2>6. /\ rec' \in Rec /\ rec'.action = action /\ rec'.causal = "CONFIRMED"
        /\ rec'.evidence = rec.evidence /\ rec'.assessment = rec.assessment
        /\ rec'.causal = rec.causal /\ rec'.scaleUp = rec.scaleUp /\ rec'.signal = rec.signal
    BY <1>3, <2>1, <2>3, <2>4, <2>5 DEF Rec
  <2>7. Typed' /\ Faithful' /\ Fed' /\ FlagsFollow'
    BY <1>2, <2>6 DEF Inv, Typed, Stages, Faithful, Fed, FlagsFollow
  <2>8. Decision'
    BY <1>2, <2>2, <2>4, <2>5, <2>6
       DEF Decision, SpendIsConfirmed, HarmPauses, DeclineStaysGated, BoostNeedsProof,
           EscalationMeansLowHealth
  <2>. QED  BY <2>7, <2>8 DEF Inv
<1>5. CASE ~(DiversificationDue(outcome, ctx) /\ action # "none")
  <2>1. rec' = rec
    BY <1>1, <1>5
  <2>. QED  BY <1>2, <2>1
         DEF Inv, Typed, Stages, Faithful, Fed, Decision, FlagsFollow, SpendIsConfirmed,
             HarmPauses, DeclineStaysGated, BoostNeedsProof, EscalationMeansLowHealth
<1>. QED  BY <1>4, <1>5

\* The later steps change the confidence downwards, and flags.
LEMMA LaterInv ==
    ASSUME Inv, sig' = sig, outcome' = outcome, stage' \in {"annotated", "verified", "done"},
           stage \in {"scored", "fed", "diversified"} => sig.available,
           NEW confidence \in 0 .. 100, confidence <= rec.confidence,
           NEW flag \in BOOLEAN, flag = (rec.action \in Gated),
           NEW checked \in BOOLEAN, stage' \in {"verified", "done"} => checked,
           NEW status \in Statuses,
           rec' = [rec EXCEPT !.confidence = confidence, !.gated = flag, !.verified = checked,
                              !.status = status]
    PROVE  Inv'
<1>1. rec \in Rec /\ rec.health \in Int /\ rec.confidence \in Int
  BY DEF Inv, Typed, Rec
<1>2. rec' \in Rec
  BY <1>1 DEF Rec
<1>3. /\ rec'.action = rec.action /\ rec'.health = rec.health /\ rec'.remaining = rec.remaining
      /\ rec'.evidence = rec.evidence /\ rec'.assessment = rec.assessment
      /\ rec'.causal = rec.causal /\ rec'.scaleUp = rec.scaleUp /\ rec'.signal = rec.signal
      /\ rec'.confidence = confidence /\ rec'.gated = flag /\ rec'.verified = checked
  BY <1>1 DEF Rec
<1>4. Typed' /\ Faithful' /\ Fed' /\ FlagsFollow'
  BY <1>2, <1>3 DEF Inv, Typed, Stages, Faithful, Fed, FlagsFollow
<1>5. SpendIsConfirmed' /\ HarmPauses' /\ DeclineStaysGated' /\ EscalationMeansLowHealth'
  BY <1>3 DEF Inv, Decision, SpendIsConfirmed, HarmPauses, DeclineStaysGated,
              EscalationMeansLowHealth
<1>6. BoostNeedsProof'
  BY <1>1, <1>3, BoundaryInRange DEF Inv, Decision, BoostNeedsProof
<1>. QED  BY <1>4, <1>5, <1>6 DEF Inv, Decision

LEMMA AnnotateRetailInv == Inv /\ AnnotateRetail => Inv'
<1>. SUFFICES ASSUME Inv, AnnotateRetail PROVE Inv'
  OBVIOUS
<1>1. PICK verdict \in RetailVerdicts :
          rec' = [rec EXCEPT !.confidence = IF verdict = "POSSIBLE_SUPPLY_GAP"
                                            THEN Rounded(@ * 9, 10) ELSE @,
                             !.gated = rec.action \in Gated]
  BY DEF AnnotateRetail
<1>. DEFINE confidence == IF verdict = "POSSIBLE_SUPPLY_GAP"
                          THEN Rounded(rec.confidence * 9, 10) ELSE rec.confidence
            flag == rec.action \in Gated
<1>2. /\ stage = "diversified" /\ stage' = "annotated" /\ sig' = sig /\ outcome' = outcome
  BY DEF AnnotateRetail
<1>3. rec \in Rec /\ sig.available
  BY <1>2 DEF Inv, Typed, Fed
<1>4. confidence \in 0 .. 100 /\ confidence <= rec.confidence
  BY <1>3, RoundedShrinks DEF Rec
<1>5. rec' = [rec EXCEPT !.confidence = confidence, !.gated = flag]
  BY <1>1
<1>6. flag \in BOOLEAN /\ rec.verified \in BOOLEAN /\ rec.status \in Statuses
  BY <1>3 DEF Rec
<1>. HIDE DEF confidence
<1>7. rec' = [rec EXCEPT !.confidence = confidence, !.gated = flag,
                         !.verified = rec.verified, !.status = rec.status]
  BY <1>3, <1>5 DEF Rec
<1>. QED  BY <1>2, <1>3, <1>4, <1>6, <1>7, LaterInv

LEMMA VerifyInv == Inv /\ Verify => Inv'
<1>. SUFFICES ASSUME Inv, Verify PROVE Inv'
  OBVIOUS
<1>1. /\ stage = "annotated" /\ stage' = "verified" /\ sig' = sig /\ outcome' = outcome
      /\ rec' = [rec EXCEPT !.verified = /\ rec.action \in ValidRecommendations
                                         /\ rec.confidence \in 0 .. 100
                                         /\ rec.gated = (rec.action \in Gated)]
  BY DEF Verify
<1>2. rec \in Rec /\ rec.gated = (rec.action \in Gated)
  BY <1>1 DEF Inv, Typed, FlagsFollow
<1>3. rec' = [rec EXCEPT !.verified = TRUE]
  BY <1>1, <1>2 DEF Rec
<1>4. /\ rec' \in Rec /\ rec'.verified
      /\ rec'.action = rec.action /\ rec'.health = rec.health /\ rec'.remaining = rec.remaining
      /\ rec'.evidence = rec.evidence /\ rec'.assessment = rec.assessment
      /\ rec'.causal = rec.causal /\ rec'.scaleUp = rec.scaleUp /\ rec'.signal = rec.signal
      /\ rec'.confidence = rec.confidence /\ rec'.gated = rec.gated
  BY <1>2, <1>3 DEF Rec
<1>5. stage = "annotated" /\ stage' = "verified" /\ sig' = sig /\ outcome' = outcome
  BY <1>1
<1>6. Typed' /\ Faithful' /\ Fed' /\ FlagsFollow'
  BY <1>2, <1>4, <1>5 DEF Inv, Typed, Stages, Faithful, Fed, FlagsFollow
<1>7. SpendIsConfirmed' /\ HarmPauses' /\ DeclineStaysGated' /\ EscalationMeansLowHealth'
  BY <1>4, <1>5 DEF Inv, Decision, SpendIsConfirmed, HarmPauses, DeclineStaysGated,
                    EscalationMeansLowHealth
<1>8. BoostNeedsProof'
  BY <1>4, <1>5 DEF Inv, Decision, BoostNeedsProof
<1>. QED  BY <1>6, <1>7, <1>8 DEF Inv, Decision

LEMMA GateInv == Inv /\ Gate => Inv'
<1>. SUFFICES ASSUME Inv, Gate PROVE Inv'
  OBVIOUS
<1>. DEFINE flag == rec.action \in Gated
<1>1. /\ stage = "verified" /\ stage' = "done" /\ sig' = sig /\ outcome' = outcome
      /\ rec' = [rec EXCEPT !.gated = flag, !.status = sig.status]
  BY DEF Gate
<1>2. rec \in Rec /\ rec.verified /\ sig \in Signals
  BY <1>1 DEF Inv, Typed, FlagsFollow
<1>3. /\ rec.confidence \in 0 .. 100 /\ rec.confidence <= rec.confidence
      /\ flag \in BOOLEAN /\ sig.status \in Statuses
      /\ rec.verified \in BOOLEAN
  BY <1>2, SignalsAreSignals DEF Rec, Signal, Statuses
<1>4. rec' = [rec EXCEPT !.confidence = rec.confidence, !.gated = flag,
                         !.verified = rec.verified, !.status = sig.status]
  BY <1>1, <1>2 DEF Rec
<1>. QED  BY <1>1, <1>2, <1>3, <1>4, LaterInv

LEMMA Invariance == PipelineSpec => []Inv
<1>1. Inv /\ [PipelineNext]_pipeline => Inv'
  <2>. SUFFICES ASSUME Inv, [PipelineNext]_pipeline PROVE Inv'
    OBVIOUS
  <2>1. CASE UNCHANGED pipeline
    BY <2>1
       DEF pipeline, Inv, Typed, Faithful, Fed, Decision, FlagsFollow, SpendIsConfirmed,
           HarmPauses, DeclineStaysGated, BoostNeedsProof, EscalationMeansLowHealth
  <2>. QED  BY <2>1, ApplyOutcomeInv, DiversifyInv, AnnotateRetailInv, VerifyInv, GateInv
         DEF PipelineNext
<1>. QED  BY InitInv, <1>1, PTL DEF PipelineSpec

-----------------------------------------------------------------------------
(* The theorems.                                                           *)

\* What is confirmed was measured by matched controls.
LEMMA ProvenSpend == Inv => SpendNeedsProof
<1>. SUFFICES ASSUME Inv, rec.action \in SpendMoves \/ rec.scaleUp
              PROVE  /\ outcome.state = "SUFFICIENT" /\ outcome.causal.state = "SUFFICIENT"
                     /\ outcome.causal.did # Missing /\ outcome.causal.did >= TargetUplift
                     /\ (outcome.causal.low # Missing => outcome.causal.low >= 0)
                     /\ (outcome.causal.mde # Missing => outcome.causal.did >= outcome.causal.mde)
  BY DEF SpendNeedsProof
<1>1. rec.causal = "CONFIRMED"
  BY DEF Inv, Faithful, Decision, SpendIsConfirmed
<1>2. Credited(outcome) /\ CausalState(outcome.causal) = "CONFIRMED"
  BY <1>1 DEF Inv, Faithful
<1>3. outcome \in Outcomes \cup {NoOutcome}
  BY DEF Inv, Typed
<1>. QED  BY <1>2, <1>3, ConfirmedMeans DEF Credited

LEMMA HarmShows == Inv => HarmSurfaces
<1>. SUFFICES ASSUME Inv, Done, sig.available, outcome.state = "SUFFICIENT", Harmful(outcome)
              PROVE  rec.gated /\ Tier(rec) = 0 /\ Bucket(rec) = "needs_intervention"
                     /\ CampaignWorking(rec) = "failing"
  BY DEF HarmSurfaces
<1>1. rec.action = "PAUSE_INTERVENTION"
  BY DEF Inv, Decision, HarmPauses
<1>2. rec.gated
  BY <1>1 DEF Inv, FlagsFollow, Done, Gated
<1>3. rec.evidence = "SUFFICIENT" /\ rec.assessment = "NEGATIVE"
  BY DEF Inv, Faithful, Harmful
<1>. QED  BY <1>1, <1>2, <1>3 DEF Tier, Bucket, NoSignal, CampaignWorking

LEMMA ProofShows == Inv => ProofReadsTheSame
<1>. SUFFICES ASSUME Inv, Done
              PROVE  /\ (CampaignWorking(rec) = "proven") = rec.scaleUp
                     /\ (OutcomeWorking(rec) = "causal") = rec.scaleUp
                     /\ rec.scaleUp => Bucket(rec) \in {"working_well", "needs_intervention"}
  BY DEF ProofReadsTheSame
<1>1. rec \in Rec /\ rec.scaleUp = (rec.causal = "CONFIRMED")
  BY DEF Inv, Typed, Faithful
<1>2. rec.causal = "CONFIRMED" => /\ Credited(outcome) /\ rec.evidence = "SUFFICIENT"
                                  /\ rec.assessment = "MEETS_TARGET"
  BY DEF Inv, Faithful, Credited
<1>3. rec.causal = "CONFIRMED" => rec.signal
  BY <1>2 DEF Inv, Fed, NoOutcome, Credited
<1>4. (CampaignWorking(rec) = "proven") = rec.scaleUp
  BY <1>1, <1>2 DEF CampaignWorking
<1>5. (OutcomeWorking(rec) = "causal") = rec.scaleUp
  BY <1>1, <1>2 DEF OutcomeWorking
<1>6. rec.scaleUp => Bucket(rec) \in {"working_well", "needs_intervention"}
  BY <1>1, <1>2, <1>3 DEF Bucket, NoSignal, OutcomeWorking
<1>. QED  BY <1>4, <1>5, <1>6

LEMMA DeclineShows == Inv => DeclineIsGated
BY DEF Inv, Decision, DeclineStaysGated, FlagsFollow, DeclineIsGated, Done

\* For any signals, outcomes and contexts, money moves, a lift scales and confidence
\* rises only on what matched controls confirmed (the causal guardrail through every
\* later step of the pipeline).
THEOREM ProofBeforeMoney == PipelineSpec => []ProofComesFirst
<1>1. Inv => ProofComesFirst
  BY ProvenSpend DEF Inv, Decision, ProofComesFirst
<1>. QED  BY <1>1, Invariance, PTL

\* Whatever is laid over a record, decline and harm reach a human, proof reads the
\* same on every surface, and the verifier agrees with the steps before it.
THEOREM TruthReachesReaders == PipelineSpec => []RecordReadsTrue
<1>1. Inv => RecordReadsTrue
  BY HarmShows, ProofShows, DeclineShows
     DEF Inv, Decision, FlagsFollow, VerifierAgrees, Done, RecordReadsTrue
<1>. QED  BY <1>1, Invariance, PTL

\* Every record is well typed at every stage: no step leaves a label the verifier
\* does not know, or a confidence that is not a number.
THEOREM TypeCorrect == PipelineSpec => []PipelineTypeOK
<1>1. Inv => PipelineTypeOK
  BY DEF Inv, Typed, Rec, PipelineTypeOK
<1>. QED  BY <1>1, Invariance, PTL
=============================================================================
