-------------------------- MODULE OutcomeMeasurement -------------------------
(***************************************************************************)
(* One executed intervention being measured (app/main.py, the checkpoints   *)
(* and outcome endpoints): clients post checkpoints, which are recorded and *)
(* never withdrawn, and ask for the outcome, over observations of their own *)
(* or over replayed actuals, as of a time of their choice.  Registry has    *)
(* the events these endpoints write; here it is what the evaluation makes   *)
(* of their contents.  The days of a replay are moved to the start.  Events *)
(* are stamped with the client's time, and the replay orders them by it     *)
(* (phase2/registry.py): one stamped too early is written and rejected.  A   *)
(* FAILED intervention here is one that has evidence of its execution.      *)
(***************************************************************************)
EXTENDS OutcomeRules

CONSTANTS StartedAt,        \* the intervention's start
          EndedAt,          \* and its end, completed or failed
          RunCampaign,      \* its campaign
          RunTiming,        \* and its timing window
          Provided,         \* sequences of checkpoints a client may post
          MaxWeeks,
          Posted,           \* sets of observations a client may post
          Replays,          \* sets of [day, value] the actuals feed may answer
          Controls,         \* causal evidence the controls service may answer
          AsOfs,
          MaxPosts

ASSUME MeasurementAssumption ==
    /\ {StartedAt, EndedAt} \subseteq Int /\ MaxWeeks \in Nat /\ MaxPosts \in Nat
    /\ \A set \in Posted : IsFiniteSet(set) /\ set \subseteq Observation
    /\ \A rows \in Replays : IsFiniteSet(rows) /\ rows \subseteq [day : Int, value : Int]
    /\ Controls \subseteq CausalRecord
    /\ Provided \subseteq Seq(Provision) /\ RunCampaign \in Label /\ RunTiming \in Label
    /\ AsOfs \subseteq Int

VARIABLES lifecycle,    \* as replayed from the events
          awaited,      \* the time its outcome is pending from, once it is
          recorded,     \* checkpoints, as recorded
          posts,        \* times checkpoints were posted
          latest,       \* latest approval on the log of the recommendation it executes
          answer,       \* evidence state the last outcome request was told
          stored        \* the outcome the intervention was evaluated with

measurement == <<lifecycle, awaited, recorded, posts, latest, answer, stored>>

NothingStored == [state |-> "none", lift |-> Missing, assessment |-> "none", causal |-> NoCausal]

\* _phase2_join_records: the chain the registry's own guards let come about, but the
\* approval is the latest the log has of the recommendation, the run's own or not.
Recommended == [id |-> "rec", key |-> "key", generated |-> StartedAt - 2, campaign |-> RunCampaign,
                timing |-> RunTiming]
Approval == [id |-> latest, rec |-> "rec", approved |-> TRUE, decided |-> StartedAt - 1]
Intervention(state) == [id |-> "run", approval |-> "approval", rec |-> "rec", state |-> state,
                        started |-> StartedAt, campaign |-> RunCampaign, timing |-> RunTiming,
                        key |-> "key"]

Joinable(outcome) == [run |-> "run", key |-> "key", campaign |-> RunCampaign, timing |-> RunTiming,
                      started |-> StartedAt, state |-> outcome.state]

\* Every checkpoint ever recorded joins, whatever the replay of events made of it.
Joined(outcome) ==
    JoinState(Recommended, Approval, Intervention(lifecycle), recorded, Joinable(outcome))

-----------------------------------------------------------------------------
MeasurementInit ==
    /\ lifecycle \in {"COMPLETED", "FAILED"}
    /\ awaited = Missing
    /\ recorded = <<>> /\ posts = 0 /\ latest = "approval"
    /\ answer = "none" /\ stored = NothingStored

\* Faulty variant: a later post replaces the earlier ones.
RepostCheckpoints ==
    /\ posts < MaxPosts
    /\ posts' = posts + 1
    /\ \E items \in Provided, weeks \in 1 .. MaxWeeks, asOf \in AsOfs :
          recorded' = Checkpoints(StartedAt, asOf, weeks, items)
    /\ UNCHANGED <<lifecycle, awaited, latest, answer, stored>>

PostCheckpoints ==
    /\ posts < MaxPosts
    /\ posts' = posts + 1
    /\ \E items \in Provided, weeks \in 1 .. MaxWeeks, asOf \in AsOfs :
          recorded' = recorded \o Checkpoints(StartedAt, asOf, weeks, items)
    /\ UNCHANGED <<lifecycle, awaited, latest, answer, stored>>

\* The recommendation, back in the approvals' table, is approved again.
ApproveAgain ==
    /\ latest = "approval"
    /\ latest' = "again"
    /\ UNCHANGED <<lifecycle, awaited, recorded, posts, answer, stored>>

HasEnded == lifecycle \in {"COMPLETED", "FAILED"}

\* A request that finds the intervention ended writes outcome_pending before it looks
\* at anything else, so that a refused one has moved the lifecycle too; stamped
\* before the end, it moves nothing.
Await(asOf) ==
    IF HasEnded /\ asOf >= EndedAt
    THEN lifecycle' = "OUTCOME_PENDING" /\ awaited' = asOf
    ELSE UNCHANGED <<lifecycle, awaited>>

\* The replay takes an evaluation that is not stamped before its outcome_pending.
Accepted(asOf) == IF HasEnded THEN asOf >= EndedAt ELSE asOf >= awaited

Evaluate(asOf) ==
    /\ lifecycle' = "EVALUATED"
    /\ awaited' = IF HasEnded THEN asOf ELSE awaited

\* The input is invalid, the feed does not answer, or the log has no approval left.
RefuseOutcome ==
    /\ \E asOf \in AsOfs : Await(asOf)
    /\ answer' = "refused"
    /\ UNCHANGED <<recorded, posts, latest, stored>>

ReplayedDays(rows) == {[at |-> StartedAt + row.day * DayLength, value |-> row.value] : row \in rows}

\* Controls that do not answer, or know no store to compare with, are evidence
\* that is missing.
CausalEvidence(controls) ==
    [controls EXCEPT !.state = IF controls.did = Missing THEN "INSUFFICIENT" ELSE "SUFFICIENT"]

\* Faulty variant: the evaluation is written without its place in the lifecycle.
MeasuredUnplaced(observations, asOf, causal) ==
    LET outcome == OutcomeOf(observations, StartedAt, asOf)
        joined == Joined(outcome)
        fresh == joined = "SUFFICIENT" /\ lifecycle # "EVALUATED"
    IN  /\ answer' = joined
        /\ Await(asOf)
        /\ stored' = IF fresh THEN [outcome EXCEPT !.causal = causal] ELSE stored
        /\ UNCHANGED <<recorded, posts, latest>>

\* Joined, the outcome is written with its causal evidence, unless the replay shows
\* one already.  What is written is the store's evidence (_outcome_evidence_by_store
\* reads every event, the last one wins), whether the replay takes it or not.
Measured(observations, asOf, causal) ==
    LET outcome == OutcomeOf(observations, StartedAt, asOf)
        joined == Joined(outcome)
        fresh == joined = "SUFFICIENT" /\ lifecycle # "EVALUATED"
    IN  /\ answer' = joined
        /\ IF fresh /\ Accepted(asOf) THEN Evaluate(asOf) ELSE Await(asOf)
        /\ stored' = IF fresh THEN [outcome EXCEPT !.causal = causal] ELSE stored
        /\ UNCHANGED <<recorded, posts, latest>>

MeasurePosted ==
    \E observations \in Posted, asOf \in AsOfs : Measured(observations, asOf, NoCausal)

MeasureReplay ==
    \E rows \in Replays, asOf \in AsOfs, controls \in Controls :
        Measured(ReplayedDays(rows), asOf, CausalEvidence(controls))

MeasurementNext ==
    PostCheckpoints \/ ApproveAgain \/ RefuseOutcome \/ MeasurePosted \/ MeasureReplay

MeasurementSpec == MeasurementInit /\ [][MeasurementNext]_measurement

-----------------------------------------------------------------------------
MeasurementTypeOK ==
    /\ lifecycle \in {"COMPLETED", "FAILED", "OUTCOME_PENDING", "EVALUATED"}
    /\ \A i \in DOMAIN recorded : recorded[i].status \in CheckpointStatuses
    /\ awaited = Missing \/ awaited \in AsOfs
    /\ posts \in 0 .. MaxPosts /\ latest \in {"approval", "again"}

\* Of another key, campaign or timing window, observed before its week was over, or posted twice.
Faulty(checkpoint) ==
    \/ checkpoint.status = "INVALID"
    \/ checkpoint.observed # Missing /\ checkpoint.observed < checkpoint.due
    \/ checkpoint.key # Missing /\ checkpoint.key # "key"
    \/ /\ checkpoint.campaign # Missing
       /\ CanonicalCampaign(checkpoint.campaign) # CanonicalCampaign(RunCampaign)
    \/ /\ checkpoint.timing # Missing
       /\ CanonicalTiming(checkpoint.timing) # CanonicalTiming(RunTiming)

\* One faulty checkpoint is for ever: nothing withdraws it, and no request that
\* follows can store an outcome, nor is any told that its evidence is sufficient
\* (record_phase2_checkpoints against the join of every later outcome).
FaultyCheckpointIsForever ==
    [][(\E i \in DOMAIN recorded : Faulty(recorded[i])) =>
          /\ stored' = stored
          /\ answer' # answer => answer' # "SUFFICIENT"
          /\ \E i \in DOMAIN recorded' : Faulty(recorded'[i])]_measurement

\* A second approval of the recommendation does what a faulty checkpoint does: the
\* intervention names the first one, and no outcome of it joins from then on
\* (_latest_approved_record against _reference_validation_result).
SecondApprovalBlocks ==
    [][latest # "approval" =>
          /\ latest' = latest /\ stored' = stored
          /\ answer' # answer => answer' # "SUFFICIENT"]_measurement

\* Clean checkpoints never stand in the way: what a request is told is what its
\* observations are worth, whatever was posted how often and in what order, as long
\* as the recommendation was not approved a second time.
CleanCheckpointsJoin ==
    (latest = "approval" /\ posts > 0 /\ \A i \in DOMAIN recorded : ~Faulty(recorded[i])) =>
        \A observations \in Posted, asOf \in AsOfs :
            LET outcome == OutcomeOf(observations, StartedAt, asOf)
            IN Joined(outcome) = outcome.state

\* A stored outcome is what the decision pipeline takes for granted: sufficient, an
\* assessment with a lift of its sign, and causal evidence only with a comparison.
StoredFitsPipeline ==
    stored # NothingStored =>
        /\ stored.state = "SUFFICIENT" /\ stored.assessment # "none" /\ stored.lift # Missing
        /\ (stored.assessment = "NEGATIVE") = (stored.lift < 0)
        /\ stored.causal.state = "SUFFICIENT" => stored.causal.did # Missing

\* An evaluated intervention stays evaluated, with the outcome it was evaluated with:
\* later requests may be told something else, and the record does not follow.
StoredOnce ==
    [][lifecycle = "EVALUATED" => lifecycle' = "EVALUATED" /\ stored' = stored]_measurement

\* The decisions build on an outcome the registry has not evaluated only when a
\* request was made as of a time before the end, or before the outcome was pending:
\* its evaluation was written, and the replay rejects it (evaluate_phase2_outcome
\* against _outcome_evidence_by_store, which reads the events without replaying them).
StoredMeansEvaluated ==
    (stored # NothingStored /\ lifecycle # "EVALUATED") =>
        IF HasEnded THEN EndedAt > DueAt(StartedAt) ELSE awaited > DueAt(StartedAt)

\* What was recorded binds every request that follows: a fault, a second approval, and
\* an evaluation.
OutcomesStay == FaultyCheckpointIsForever /\ SecondApprovalBlocks /\ StoredOnce

\* An outcome the decisions build on was evaluated, is complete, and was not held up by
\* clean checkpoints.
OutcomeIsSound == StoredMeansEvaluated /\ StoredFitsPipeline /\ CleanCheckpointsJoin
=============================================================================
