-------------------------- MODULE DecisionPipeline --------------------------
(***************************************************************************)
(* One store's record being made: route, plan, score, outcome feedback,    *)
(* diversification, retail context, verification, approval gate            *)
(* (decision_engine/engine.py, evaluate; decision_engine/scorer.py,        *)
(* score_and_recommend).  Each step reads inputs another service produced, *)
(* and may replace what an earlier step decided.                           *)
(***************************************************************************)
EXTENDS DecisionRules

CONSTANTS Signals,      \* what build_store_signal may return
          Outcomes,     \* the outcome evidence of a store
          Contexts      \* explicit store contexts

RetailVerdicts == {"none", "UNKNOWN", "DEMAND", "POSSIBLE_SUPPLY_GAP"}
Assessments == {"none", "MEETS_TARGET", "REVIEW_ZONE", "NEGATIVE"}
Percent == Int \cup {Missing}

Outcome == [state : STRING, assessment : Assessments, lift : Percent,
            causal : [state : STRING, did : Percent, low : Percent, mde : Percent]]
Context == [given : BOOLEAN, share : Int, peak : Int, constrained : BOOLEAN, candidate : Int]

ASSUME PipelineAssumption ==
    /\ Signals \subseteq {s \in Signal : s.available <=> s.status = "AVAILABLE"}
    /\ \A s \in Signals : s.elapsed + s.remaining >= RecoveryWindow
    /\ Outcomes \subseteq Outcome
    /\ \A o \in Outcomes : o.assessment # "none" => o.lift # Missing
    /\ Contexts \subseteq Context

VARIABLES stage, sig, rec, outcome

pipeline == <<stage, sig, rec, outcome>>

NoOutcome == [state |-> "none", assessment |-> "none", lift |-> Missing,
              causal |-> [state |-> "none", did |-> Missing, low |-> Missing, mde |-> Missing]]

Stages == {"scored", "fed", "diversified", "annotated", "verified", "done"}

-----------------------------------------------------------------------------
\* _build_output, of what the signal says alone.
Draft(s, action, confidence, health, basis) ==
    [store |-> 1, action |-> action, confidence |-> confidence, health |-> health,
     recovery |-> IF s.available THEN RecoveryPct(s) ELSE 0, remaining |-> s.remaining,
     signal |-> s.available, status |-> s.status, basis |-> basis,
     evidence |-> "none", assessment |-> "none", causal |-> "none", scaleUp |-> FALSE,
     gated |-> action \in Gated, verified |-> FALSE]

NoDataRecord(s) == Draft(s, "NEEDS_REVIEW", 100, 0, "no_signal")

ScoredRecord(s) ==
    LET health == HealthScore(s)
    IN Draft(s, HealthRecommendation(s, health), BoundaryConfidence(health), health,
             "forecast_health")

\* score_and_recommend, up to the decision of the health rules.
PipelineInit ==
    /\ sig \in Signals
    /\ outcome = NoOutcome
    /\ IF Plan(Route(sig)) = "flag_for_review"
       THEN rec = NoDataRecord(sig) /\ stage = "annotated"
       ELSE rec = ScoredRecord(sig) /\ stage = "scored"

-----------------------------------------------------------------------------
(* Measured outcomes modulate the decision.                                *)

Harmful(o) == o.assessment = "NEGATIVE" /\ o.lift # Missing /\ o.lift < 0

GuardedConfidence(confidence, state) ==
    CASE state = "CONFIRMED" -> Lesser(confidence + 20, 100)
      [] state = "REFUTED" -> Rounded(confidence * 8, 10)
      [] OTHER -> confidence

\* _apply_outcome_feedback and _apply_causal_guardrail.
FedBack(r, o) ==
    LET measured == [r EXCEPT !.assessment = o.assessment]
        state == CausalState(o.causal)
    IN  CASE Harmful(o) ->
               [measured EXCEPT !.action = "PAUSE_INTERVENTION",
                                !.confidence = Greater(r.confidence, 70)]
          [] o.assessment = "REVIEW_ZONE" /\ o.lift # Missing ->
               [measured EXCEPT !.confidence = Rounded(r.confidence * 8, 10)]
          [] o.assessment = "MEETS_TARGET" /\ o.lift # Missing ->
               [measured EXCEPT !.confidence = GuardedConfidence(r.confidence, state),
                                !.causal = state, !.scaleUp = (state = "CONFIRMED")]
          [] OTHER -> measured

ApplyOutcome ==
    /\ stage = "scored"
    /\ stage' = "fed"
    /\ \E o \in Outcomes \cup {NoOutcome} :
          LET cited == [rec EXCEPT !.evidence = o.state,
                                   !.basis = IF o.state = "none" THEN @ ELSE "outcome_evidence"]
          IN /\ outcome' = o
             /\ rec' = IF o.state = "SUFFICIENT" THEN FedBack(cited, o) ELSE cited
    /\ UNCHANGED sig

-----------------------------------------------------------------------------
(* A proven play is the moment to diversify: only on explicit context, and *)
(* only on matched controls.                                               *)

\* Faulty variant: the raw outcome is not looked at.
DueOnControlsAlone(o, ctx) == ctx.given /\ CausalState(o.causal) = "CONFIRMED"

DiversificationDue(o, ctx) ==
    /\ ctx.given
    /\ o.state = "SUFFICIENT" /\ o.assessment = "MEETS_TARGET"
    /\ CausalState(o.causal) = "CONFIRMED"

\* _diversified_action: shares in percent; first match wins.
DiversifiedAction(ctx, health) ==
    IF ctx.share >= 50 THEN "RETARGET_SEGMENT"
    ELSE IF ctx.peak >= 40 THEN "TIMING_SHIFT"
    ELSE IF ctx.constrained /\ ctx.candidate > 0 /\ BoundaryConfidence(health) >= 70
         THEN "REALLOCATE_BUDGET"
    ELSE "none"

Diversify ==
    /\ stage = "fed"
    /\ stage' = "diversified"
    /\ \E ctx \in Contexts :
          LET action == DiversifiedAction(ctx, rec.health)
          IN rec' = IF DiversificationDue(outcome, ctx) /\ action # "none"
                    THEN [rec EXCEPT !.action = action,
                              !.confidence = Greater(BoundaryConfidence(rec.health), 70)]
                    ELSE rec
    /\ UNCHANGED <<sig, outcome>>

\* _apply_retail_context; then _build_output sets the flag of the final action.
AnnotateRetail ==
    /\ stage = "diversified"
    /\ stage' = "annotated"
    /\ \E verdict \in RetailVerdicts :
          rec' = [rec EXCEPT
                    !.confidence = IF verdict = "POSSIBLE_SUPPLY_GAP"
                                   THEN Rounded(@ * 9, 10) ELSE @,
                    !.gated = rec.action \in Gated]
    /\ UNCHANGED <<sig, outcome>>

\* verify_recommendation; a record always has a reason.
Verify ==
    /\ stage = "annotated"
    /\ stage' = "verified"
    /\ rec' = [rec EXCEPT !.verified = /\ rec.action \in ValidRecommendations
                                       /\ rec.confidence \in 0 .. 100
                                       /\ rec.gated = (rec.action \in Gated)]
    /\ UNCHANGED <<sig, outcome>>

\* The approval gate has the last word on the flag.
Gate ==
    /\ stage = "verified"
    /\ stage' = "done"
    /\ rec' = [rec EXCEPT !.gated = rec.action \in Gated, !.status = sig.status]
    /\ UNCHANGED <<sig, outcome>>

PipelineNext == ApplyOutcome \/ Diversify \/ AnnotateRetail \/ Verify \/ Gate

PipelineSpec == PipelineInit /\ [][PipelineNext]_pipeline

-----------------------------------------------------------------------------
Done == stage = "done"

PipelineTypeOK ==
    /\ stage \in Stages
    /\ sig \in Signals
    /\ outcome \in Outcomes \cup {NoOutcome}
    /\ rec.action \in ValidRecommendations
    /\ rec.confidence \in Int /\ rec.health \in Int

\* Money moves or spend scales only on a lift that matched controls confirmed:
\* at the target or above, detectable, and with an interval that excludes a loss
\* (the causal guardrail, across the feedback, the guardrail and the diversifier).
SpendNeedsProof ==
    (rec.action \in SpendMoves \/ rec.scaleUp) =>
        /\ outcome.state = "SUFFICIENT" /\ outcome.causal.state = "SUFFICIENT"
        /\ outcome.causal.did # Missing /\ outcome.causal.did >= TargetUplift
        /\ (outcome.causal.low # Missing => outcome.causal.low >= 0)
        /\ (outcome.causal.mde # Missing => outcome.causal.did >= outcome.causal.mde)

\* A store that declined or stood still goes to a human, whatever evidence and
\* context are laid over it (the clamped score never lifts it over the boundary).
DeclineIsGated ==
    Done /\ sig.available /\ RecoveryPct(sig) <= 0 => rec.gated

\* Nothing the steps compute makes the verifier warn: the label sets, the range
\* of the confidence and the flag agree across scorer, guardrails and verifier.
VerifierAgrees == Done => rec.verified

\* Only confirmed controls make a record more confident than its distance from
\* the decision boundaries; a pause is the exception, at 0.7.
BoostNeedsProof ==
    rec.signal /\ rec.confidence > BoundaryConfidence(rec.health)
        => \/ rec.causal = "CONFIRMED"
           \/ rec.action = "PAUSE_INTERVENTION" /\ rec.confidence <= 70

\* Measured harm surfaces wherever a human looks: gated, in the first tier of the
\* queue, never in a bucket of the board that reads as success.
HarmSurfaces ==
    Done /\ sig.available /\ outcome.state = "SUFFICIENT" /\ Harmful(outcome)
        => rec.gated /\ Tier(rec) = 0 /\ Bucket(rec) = "needs_intervention"
           /\ CampaignWorking(rec) = "failing"

\* The board and the monitor call the same campaigns proven, and both agree with
\* what the record lets the stakeholder scale up.
ProofReadsTheSame ==
    Done => /\ (CampaignWorking(rec) = "proven") = rec.scaleUp
            /\ (OutcomeWorking(rec) = "causal") = rec.scaleUp
            /\ rec.scaleUp => Bucket(rec) \in {"working_well", "needs_intervention"}

\* The rule that escalates a stalled store of middling health never fires: within
\* the recovery window such a store has more days left than the rule asks for.
EscalationMeansLowHealth ==
    rec.action = "ESCALATE" => rec.health < HealthLow /\ rec.remaining < DeadlineDays

\* Proof comes first: before money moves, before a lift scales spend, before a record
\* grows more confident than its health makes it.
ProofComesFirst == SpendNeedsProof /\ BoostNeedsProof

\* What a record tells its readers is what was measured: decline and harm ask for a
\* human, proof is called proof on every surface, the verifier has nothing to warn of.
RecordReadsTrue ==
    /\ DeclineIsGated /\ HarmSurfaces /\ ProofReadsTheSame /\ VerifierAgrees
    /\ EscalationMeansLowHealth
=============================================================================
