# TLA+ models of the retail decision intelligence agent

The agent evaluates the stores of a retailer against a sales forecast, recommends
what to do with the campaign each store runs, has a person decide the
recommendations that matter, and executes the approved ones. This directory models
the parts of it that keep state and can be interleaved, interrupted or retried,
checks them with TLC and proves their main invariants with TLAPS.

## 1. The system

| Component | State | Operations | Talks to |
| --- | --- | --- | --- |
| Decision loop (`app/main.py`, `app/state.py`, `approvals/ledger.py`, `memory/history.py`) | recommendation log (append-only file), decision ledger (append-only file), pending table (SQLite or Postgres, one row per store) | approve, reject, sweep, start-up backfill | upstream clients, decision engine, guardrails |
| Execution layer (`execution/`) | execution journal (append-only file), a cross-process lock | execute, reverse | the log (reads approvals), a dry-run or webhook connector |
| Intervention registry (`phase2/registry.py`, its endpoints in `app/main.py`) | append-only event file, folded into snapshots on every read | create, lifecycle events, checkpoints, outcome | the log (reads approvals), outcome evaluator |
| Outcome evaluation and portfolio (`phase2/evaluator.py`, `exposure.py`, `portfolio.py`, endpoints in `app/main.py`) | what the registry's events say: checkpoints, the pending date, the stored outcome | post checkpoints, ask for an outcome, report a portfolio | registry, upstream clients, decision engine |
| Budget allocator (`phase2/budget_allocator.py`) | none | score, split under a cap, round, trim | nobody: only its tests call it |
| Sweep scheduler (`app/scheduler.py`) | a thread, a stop event, failure counters | start, stop, the loop | decision loop |
| Board self-refresh (`app/main.py`) | time of the last attempt, a lock | refresh on `GET /board` | decision loop, log and table |
| LLM spend guard (`rag/llm_budget.py`, `/why` and `/advisory`) | one day's counter, stamps per client, one lock | admission of a call | explanation layers |
| Decision engine (`decision_engine/`, `guardrails/`) | none; a record rewritten step by step | score, feed outcomes back, diversify, annotate, verify, gate; simulate, compare | outcome evidence, retail context |
| Board, cards, monitor (`presentation/`, `app/monitor.py`) | none | read log and table, classify, count, order | decision loop |
| Upstream clients (`tools/forecast_tool.py`, `tools/campaign_tool.py`) | none; a thread pool per window | fetch audit, store table, predictions, with retries | the forecast and campaign services |
| Retrieval, explanation prose, analytics, identity, database set-up, scripts, site pages, front end | none that decides anything | reads | |

What interacts: every sweep, request and start-up shares the log, the ledger and
the table, and no lock spans two of them; execution and the registry read the
log; the scheduler and the board's self-refresh start sweeps that overlap those
started over HTTP; the registry's evaluated outcomes feed the next sweep.

What is hard about it:

- handlers are sequences of accesses to separate durable objects. Other requests and
  sweeps run between two accesses, and so does a crash;
- `approve` takes the row out of the table first and puts it back last, so for the time
  in between the store looks as if it had no recommendation;
- sweeps take snapshots ("which stores are decided") and use them later;
- an external call may be acted on although it raised;
- a redeploy may keep or lose the disk, the table, or neither, and may bring another
  connector or another set of gated actions;
- several "last record wins" readers disagree about what the last record is;
- a clock, a day or a flag is read before the lock that protects what it is compared with;
- threads outlive whoever waited for them: a sweep longer than the join of `stop`, the
  retries of a window that has already failed;
- a record is rewritten by six steps in a row, and read again by surfaces that each derive
  for themselves what it means.

`PROJECT.json` lists the hazards one by one, at the line where each bites, with the
properties that would catch it.

### What makes each component correct

- *Decision loop*: a decision is logged, then audited, then acknowledged, once; a ledger
  entry never lacks its log record; an acknowledged decision is not overwritten; one
  offer is decided by one person; a decision passes the gate in force when it is made.
- *Execution*: one live execution per recommendation; every external effect has a witness
  in the journal; an execution is reversed at most once; the journal is the truth
  about the world when nothing fails; nobody waits for the lock for ever.
- *Registry*: the fold of the events is a path through the lifecycle for each intervention;
  one active intervention per store; an accepted event takes effect.
- *Scheduler and refresh*: every loop accounted for, a bounded retry cadence, one refresh
  at a time and not more often than the cooldown allows, a campaign start that stays put.
- *Spend guard*: no day and no client window exceeds its limit by more than its stragglers.
- *Decision engine*: no step of the pipeline turns an unproven lift into spend or loses a
  measured harm; board, monitor and verifier read the record the way it was made.
- *Board*: no store drops off, no row says what the log does not, one count of open work.
- *Clients*: "no data" and "could not be read" stay apart; a window's mean has all its days.
- *Outcomes, portfolio, allocator, simulator*: what is stored was evaluated; totals add up;
  money follows proof and keeps the budget to the cent it is rounded to; advice is never a loss.

## 2. Modules

| Module | What it is |
| --- | --- |
| `DecisionLoop` | approve/reject requests, three kinds of sweep, start-up backfill, over log, ledger and table |
| `DecisionAudit` | abstract: decisions are recorded, then audited, then acknowledged |
| `MCDecisionLoop` | contents, rule sets and symmetry for the runs of `DecisionLoop` |
| `DecisionLoopProofs` | theorems about `DecisionLoop` |
| `Execution` | execute and reverse calls, the lock, the journal, the connectors and the world outside |
| `ExecutionRecord` | abstract: one live execution per key, reversed at most once |
| `MCExecution` | symmetry for the runs of `Execution` |
| `ExecutionProofs` | theorems about `Execution` |
| `Lifecycle` | operators: the snapshot of an intervention, when an event is rejected, what an accepted one does |
| `LifecycleReplay` | the replay loop over any time-ordered log, whoever wrote it |
| `Registry` | create, lifecycle, checkpoint and outcome requests over the registry file |
| `RegistryProofs` | theorems about `LifecycleReplay` and `Registry` |
| `MCRegistry` | keys and symmetry for the runs of `Registry` |
| `DecisionRules` | operators: health, confidence, causal state, gate, buckets and order of the board |
| `DecisionPipeline` | one record on its way through the evaluation, any evidence and context laid over it |
| `DecisionPipelineProofs` | theorems about `DecisionPipeline` |
| `Board` | sweeps and decisions writing log and rows, and what every read surface says of them |
| `BoardProofs` | theorems about `Board` |
| `RetryingCall` | operators: one upstream request with retries, as both clients have it |
| `Provenance` | operators: spellings of one campaign and one timing window |
| `SignalFetch` | audit feed or file, store table, two predictions: a store's signal |
| `WindowFetch` | the evaluation window's days on a pool of workers |
| `BudgetAllocator` | the allocation of a budget, round by round |
| `SpendGuard` | requests charging the account's day and their client's hour, the clock, restarts |
| `SweepScheduler` | start, stop and the loop threads |
| `LimitsProofs` | theorems about `SpendGuard`, `SweepScheduler`, `WindowFetch` and `SignalFetch` |
| `BoardRefresh` | readers of a stale board, the lock, the rebuilt campaign start |
| `OutcomeRules` | operators: windows, evidence states, lift, provenance join |
| `OutcomeMeasurement` | checkpoints and outcome requests of one executed intervention |
| `ServicesProofs` | theorems about `OutcomeMeasurement`, `BudgetAllocator` and `BoardRefresh` |
| `Portfolio` | a portfolio report, store by store, and its pooled totals |
| `Simulator` | simulation and comparison of actions for a store |
| `ReportProofs` | theorems about `Simulator` and `Portfolio` |
| `MCServices` | the last eleven systems side by side, with instances for their inputs |

An operator whose comment begins with "Faulty variant" is not part of its model: no action
uses it. It is the definition next to it with a plausible mistake, and exists so that the
properties can be seen to notice the mistake (`PROJECT.json`, "mutants").

### DecisionLoop and the code

A handler is one action per access to a durable object; whatever the code computes
between two accesses belongs to the earlier action.

| Code | Actions |
| --- | --- |
| module start-up, `_rebuild_pending_approvals`, `seed_from` | `BootCheck` (is the table empty?), `BootRead` (last log record of each store), `BootSeed` (bulk upsert without the decided guard) |
| `approve_recommendation`, `reject_recommendation` | `PopMissing`, `PopRefused` or `PopPending` (the pop is one transaction), then `LookLog` and `LookTable`, or `PutBack`, or `AppendLog`, `AppendDecision`, `WriteBack` |
| `_fetch_audit_store_ids` / `_persisted_audit_runs` and the evaluations | `FeedSweep`; `BoardSweep` (log), `BoardTable` (table) |
| `_evaluate_and_persist_stores` | `SnapshotLog`, `SnapshotTable` (outage guard), then per record `LogFresh`, `Recheck`, `UpsertFresh`; `SweepEnds` |
| an exception or a killed process | `FailRequest`, `FailSweep` |
| a redeploy | `Redeploy(lost)`, `lost` being any subset of `Wipes` |

A record is its store, its content (recommended action and forecast status), the
approval flag written with it, and the decision with the request that made it.
`recommendation_id` is a hash of decision content, so store and content stand for it;
`approval_id` is fresh per request, so the request stands for it. Evaluating a store is
the choice of a content: the engine behind it is a pure function of upstream answers.

### Execution and the code

`execute_recommendation` is `ExecuteAsked` (the approved record and the connector are
resolved before the lock), `Acquire`, `CheckActive`, `WitnessApply`, `Apply`,
`RecordExecution`; `reverse_execution` is `ReverseAsked`, `Acquire`, `CheckReversible`,
`WitnessReverse`, `Undo`, `RecordReversal`. The journal is the sequence of its events and
`Executed`, `Reversed`, `Active` fold it as `execution_state` does. The world outside is
the set of deliveries that were acted on and those of them that were cancelled:
`TimeoutAfterApply` and `TimeoutAfterUndo` are calls that raise after the endpoint
acted. The endpoint is not in the repository. It is taken at its answer: it acts on every
delivery, answers with an id or without, and cancels what a handle of its own names.

### Registry and the code

The registry keeps one thing, the sequence of its events; every request replays it. So
`Reconstruct(file)` is an operator: `ReplayOrder` sorts by time with file order as the tie-break
and the fold applies `Rejected` and `Applied` of `Lifecycle`, which are `_apply_event` and
what it calls. An event keeps its type, intervention, time, key, whether its payload holds
execution evidence and whether its campaign and timing agree with the intervention's.

| Code | Actions |
| --- | --- |
| `create_phase2_intervention` | `CreateRead` (approved record, both guards), then `AppendEvent` twice |
| `append_phase2_lifecycle_event` | `EventRead` (snapshot, `_validate_lifecycle_occurred_at`), `AppendEvent` |
| `record_phase2_checkpoints` | `CheckpointRead`, then `AppendEvent` per week |
| `evaluate_phase2_outcome` | `OutcomeRead`, `AppendEvent` of the pending event, `OutcomeEvaluate`, `AppendEvent` |
| an append that raises, a killed process | `FailCall` |

A request carries the queue of events it has still to append; the file lock covers one append.
An outcome may be sufficient when its window is over at `as_of` (`MayBeSufficient`); the
observations come from the client, so whether they suffice is a choice. The answer of a
request only reads and is part of its last append.

### The services and the code

| Code | Actions |
| --- | --- |
| `score_and_recommend`, then `evaluate` of `engine.py` | `PipelineInit`, `ApplyOutcome` (feedback and causal guardrail), `Diversify`, `AnnotateRetail`, `Verify`, `Gate` |
| `_evaluate_and_persist_stores`, approve, reject, redeploy, as a reader sees them | `StartSweep`, `LogRecord`, `StoreRow`; `PopRow`, `LogDecision`, `PutBack`, `FailDecision`; `Redeploy` |
| `fetch_audit_results` (API, then file), `build_store_signal` | `RequestAudit`, `ReadFile`, `TakeAudit`, `PickStore`, `TakeTable`, `TakeBaseline`, `TakeCurrent`, with `Attempt` and `WakeUp` of the request under way |
| `get_evaluation_window_forecast` | `DayNext`: a day begins on a free worker, tries, sleeps, ends, is collected |
| `allocate_budget` | `ScoreCandidates`, `CapRound`, `RoundShares`, `ShareMissing` (the `KeyError`), `Shave`, `DropSmallest`, `Publish` |
| `daily_allowance`, `ip_allowance` and the endpoints before them | `Arrive`, `ChargeDay`, `ReadClock`, `ChargeClient`; `Tick`, `Restart` |
| `start`, `stop`, `_loop` | `Start`; `RequestStop`, `FinishStop`; `LoopStep` (`Check`, `Succeed`, `Fail`, `Arm`, `Wake`) |
| `_refresh_stale_board`, `_persisted_audit_runs` | `Read`, `Acquire`, `GiveUp`, `RebuildRuns`, `Persist`; `Decide`, `LoseLog`, `ClockTick` |
| checkpoints and outcome endpoints | `PostCheckpoints`; `ApproveAgain` (of approve, seen from here); `RefuseOutcome`, `MeasurePosted`, `MeasureReplay` |
| the portfolio endpoint, `build_portfolio_report` | `AdmitPortfolio`, `FetchStoreTable`, `EvaluateStore`, `Report` |
| `simulate_store_intervention`, `compare_store_actions` | `AskSimulation`, `FetchActuals`, `FindMargin`, `Project` |

Numbers are integers in the unit a module's head names, rounded where the code rounds. A
budget is in parts of a cent, because any positive number is accepted and only what is paid out
is in cents; sales are whole dollars of either sign, a negative one being a return. The floats
that are no number (NaN, the infinities) are left out.
`Board` sees one redeploy, enough to separate what it loses from what it keeps, and
`redeploys > 0` is excused in `RowsFollowLog` because a redeploy without a disk leaves
nothing to compare a row with. `/cards/{id}` reads the log alone, while the board falls back
to the rows. `OutcomeMeasurement` starts where `Registry` has an executed intervention: an
event is stamped with a time the client chose, so an outcome may be stamped before the end
it belongs to; it is then written and rejected by the replay, and the next decision, which
reads the events without replaying them, builds on it all the same.
`StoredMeansEvaluated` says that this is the only way for the two to differ. The join takes the
latest approval the log has of the recommendation (`latest`), while the intervention keeps the
one it was created from: `ApproveAgain` is the second approval the decision loop can let happen
(`decided_twice`, or a sweep that offers the recommendation anew), and after it no outcome joins.
Checkpoints carry the key, the campaign and the timing window the client gave, or none.

What the pipeline assumes of its inputs, the services establish: `SignalFitsPipeline` is
`PipelineAssumption` about a signal, and `StoredFitsPipeline` is it about an outcome.

## 3. Runs

`CHECK_DEADLOCK FALSE` is in every configuration because each request, sweep, call
and redeploy of the decision loop and the execution layer happens at most once per model
value, and the registry's requests stop at the bound on its file: when all are spent the
system stops. Of the services, a record, a fetch, an allocation or a report ends when it is
done, and the others stop at their bounds.

| Run | Instance | Shows |
| --- | --- | --- |
| `loop_crash` | 1 store, 1 content, 2 requests, 2 sweeps, 2 workers, 1 redeploy that may lose the table and changes the rules | types, ledger backed by the log, decided rows on record, one decision per offer, a decided row replaced by nothing but the backfill of a worker that starts beside another (`DecidedRowNeverReplaced`), the first worker up restores the log's rows (`StartUpRestores`), decisions pass the current gate; the loop implements `DecisionAudit` |
| `loop_steady` | 1 store, 2 requests, 2 sweeps, 3 contents, no failure, fair steps | an acknowledged decision is held and settles in the table; "already decided" is true, and a store the log has decided is answered 404 only while another call holds the decision (`LateCallsHearTruth`) |
| `exec_crash` | 3 calls, a gated and an ungated action, 2 approvals, 1 redeploy | types, every delivery witnessed, reversed once; the journal implements `ExecutionRecord` |
| `exec_steady` | 3 calls, 2 gated actions, no failure, fair steps | journal and world agree; every call is answered |
| `registry` | 2 requests at a time, 2 interventions of a store, 2 keys, clock and client times 1..2 with a skew of 1, requests begin on files of up to 4 events | types; every replay coherent; two active interventions or a repeated key only from overlapping creations (`CreationGuardsHold`); an acknowledged creation stays approved; an ended intervention stays ended; an undisturbed legal event is accepted |
| `services` | eleven parts in turn, see below | what each part promises, and that whatever it is asked is answered in the end |

One store suffices where a property is about one store: stores share the sweep's snapshots
and the emptiness test of the table and nothing else, and the theorems hold for any number.
Two requests and two sweeps are what a race takes; the hard case of `AckedDecisionSettles`
is a repeated call that pops the decided row while a second sweep inserts. One redeploy
separates a before from an after, and two workers are what a start-up beside another takes.
`loop_crash` has one recommendation, whose repetition is the hard case; of the three contents
of `loop_steady` two distinguish the same recommendation from another one, and the third
(`Broken`) is the outage.

In `registry` two times and a skew of one are what it takes to stamp an event before, at
and after another and ahead of the clock. A creation is two events, a start and an end one
each, and the late event the fifth: `MaxEvents` bounds where requests begin, and those
on their way still land. `MaxStrays = 0` lets requests begin only while the replay rejects
nothing; rejected events then come from requests that overlap, which is the case of interest.

`services` holds the parts that share no state. A behaviour picks one of them (`scope`), which
moves freely while the others rest in a state they can be in; interleaving them would
multiply their states and could show nothing, since no step of one reads another's
variables. The run checks each part's `Next` and weak fairness as its module has them. A
property is a conjunction of named parts, each with its own comment:

| Property | Its parts | Instance |
| --- | --- | --- |
| `ProofComesFirst`, `RecordReadsTrue` | `SpendNeedsProof`, `BoostNeedsProof`; `DeclineIsGated`, `HarmSurfaces`, `ProofReadsTheSame`, `VerifierAgrees`, `EscalationMeansLowHealth` | forecasts on both sides of each boundary at five ages of the campaign, every combination of assessment and causal evidence, contexts at and below each threshold |
| `BoardFollowsLog`, `SurfacesAgree` | `EveryStoreReadable`, `RowsFollowLog`; `CountMeansWork`, `ShownAsQueued` | 2 stores, three batches, a legacy row without a flag, logs of up to 3 records, 1 redeploy |
| `SignalIsTrue` | `NoDataIsAnAnswer`, `WindowFromFirstRun`, `SignalFitsPipeline`, `FeedLosesNoStore`, `CallsDisciplined` | seven feeds, two files, five tables, 2 retries, any reply to each attempt |
| `WindowIsWhole` | `MeanCoversWindow`, `PoolIsBounded` | 3 days, 2 workers, 2 retries |
| `AllocationIsSound` | `BudgetKept`, `CapAndFloorKept`, `MoneyNeedsProof`, `BetterScoreNotPaidLess`, `FailsOnZeroConfidence` | up to 5 candidates out of four offers, a repeated store, budgets in quarters of a cent, with and without a fraction, where rounding overshoots |
| `CeilingsHold` | `StraddlersResetTheDay`, `CounterIsCharges`, `HourlyCeiling` | 3 requests of a client, limits of 1, a midnight, a restart |
| `LoopsKeepPace` | `LoopsPerOverrun`, `SingleLoop`, `RunningIsTrue`, `RetryThenRest` | 3 starts, 4 sweeps, 2 failures in a row |
| `RefreshIsCoherent`, `RefreshesAreSpaced` | `OneRefresher`, `StartSlipsByLosses`; `CooldownKept`, `RefreshOnceADay`, `StartIsStable` | 1 store, 2 readers, days of two ticks, 1 loss of the log |
| `OutcomesStay`, `OutcomeIsSound` | `FaultyCheckpointIsForever`, `SecondApprovalBlocks`, `StoredOnce`; `StoredMeansEvaluated`, `StoredFitsPipeline`, `CleanCheckpointsJoin` | 2 postings of checkpoints with any, another or no key, campaign and timing window, a second approval, six sets of observations, two replays, three `as_of` |
| `PortfolioAddsUp` | `PooledWithinStores`, `PooledOverstatesGaps`, `JoinAddsNothing`, `EligibilityGrowsWithMailing` | 2 stores, three ledgers with gaps, malformed lines and returns, households mailed or not |
| `AdviceIsSound` | `ShiftOrContinue`, `LossIsNeverAdvised`, `CheaperStaysWorthIt` | seven series of actuals, margins around zero and one, five costs, five calibrations |
| `ServicesProgress` | `FetchEnds`, `WindowEnds`, `AllocationEnds`, `EveryRequestAnswered`, `ReadersServed`, `EveryStoreReported`, `KeepsSweeping`, `StopEndsLoops` | all of the above |

The windows of the code (56, 14 and 60 days) are 4, 2 and 5 here, still longer than the two
weeks of checkpoints and with room for a missing day and for a day outside; days are of two
ticks, so that a time can lie on a boundary or within a day. Retries and failures are 2, the
smallest number with a first, a last and a next one. Two readers and two workers are what a
race takes, three requests what a ceiling of one and its overrun take.

The runs expected to be violated each show that a sentence of the code's own comments is
not what the code does; the line and the sentence are quoted in `PROJECT.json`:

| Run | The sentence does not hold because |
| --- | --- |
| `looks_undecided` | a sweep logs its fresh record before it looks whether the store is decided |
| `decided_twice` | a sweep inserts its stale record while the row is popped, and a second request decides it |
| `double_apply` | a webhook call that timed out after delivery is retried |
| `failed_outcome` | the evaluate event of an intervention that failed without evidence is rejected by the replay and read as evidence all the same |
| `reversal_lost` | a reversal uses the connector configured now, not the one that applied |
| `board_behind` | a store evaluated as A, then B, then A again has B as the log's last record and A as its row: the third record repeats an id and is not logged |

What else the models say, without a run of its own. The properties of the loop are as wide as
the code allows, and less than its comments promise:

- A racing caller can be told 404 for a store whose decision is in the log, which the docstring
  of `_latest_decided_record` (`src/app/main.py:918-920`) rules out: the look-up reads the log
  and then the table, and the decision moves from the popped row to the log and back to the
  table. `NotFoundOnlyInTheGap` says that this is the only such 404.
- A call that dies between `pop` and `append_log` leaves its store without a row, and "a restart
  never loses an undecided approval" (`src/app/main.py:223-225`) holds only if no other store has
  a row, since the backfill is of an empty table (line 228). `StartUpRestores` says so for every
  store of the log; until a sweep evaluates the store again the approval is off the table.
- Of two workers that find the table empty, the second to finish can write the record it read
  over a decision the first has served: `seed_from`, "Safe to call repeatedly"
  (`src/app/state.py:238`), has no decided guard. `DecidedRowNeverReplaced` says that
  nothing else replaces a decided row, and that the backfill of the first worker up does not.
- The plan of a budget with a fraction of a cent can exceed it: 400.0375 over four equal stores
  pays 400.04, the 0.0025 over it rounds to 0.00 (`src/phase2/budget_allocator.py:241`) and
  nothing is trimmed, where the docstring (lines 236-237) says the total "always holds".
  `BudgetKept` says that it is never half a cent, and nothing for a budget of whole cents.
- The last record of a decided store may be a sweep's, so a backfill of an empty table can forget
  a decision (`BootRead`); and on a deploy that lost its disk a repeated call that dies between
  pop and put-back loses the last copy of a decision.

In the registry: two overlapping creations leave two active interventions, the precise
condition being `CreationGuardsHold`; checkpoints that are not yet due move `updated_at` ahead of
the clock, and lifecycle events are refused until then; a creation that dies between its two
events leaves an intervention nobody can approve, whose key is refused for ever.

Of the services, the properties state what is true of the code, where it is less than one
would wish. A request that reads its day before midnight and is charged after it throws the
new day's counter away, and a caller turned away by its hourly limit has used up a call of
everybody's day. A sweep longer than the five seconds of `stop` goes on beside the
loop of the next `start`. A board whose record of today repeats an older one keeps that
one's stamp and is refreshed again after every cooldown; each redeploy that loses the log
moves the rebuilt start of a campaign by up to two days. One faulty checkpoint, of
another key, campaign or timing window, or early, or given twice, blocks an intervention's outcome
for good, and so does a second approval of its recommendation. A plan may exceed a budget that is not
in whole cents by less than half a cent. A day without sales counts as an average day in the pooled
total, and pooled sales and forecasts may come from different stores. With no household
recorded every store is eligible. The allocator raises `KeyError` when a competing store has
no confidence and at most three others have some; a store listed twice passes the cap. The
threads of a failed window go on retrying. The simulator's spend moves share lift and cost,
so its endpoint can recommend a timing shift or going on, and nothing else. The rule that
escalates a stalled store of middling health can never fire, and the diversifier never runs
in serving, because the endpoint passes no store context.

### Fairness

`SteadySpec` of both systems contains only steps that succeed and asks that a
started thread takes its next step (weak fairness per worker, request, sweep and call).
Nothing asks a request to arrive or a person to approve. Weak fairness is enough in the
decision loop because no step waits for another. In the execution layer `Acquire`
waits for the lock; there a call arrives once, so the lock is contended finitely often and
`WF` is enough: every holder releases it and the waiters are finitely many.

In `services` each thread takes its next step (`WF` per day of a window, per request past its
arrival, per loop, per reader) and so does a sequential computation (`FetchNext`,
`AllocatorNext`, `PortfolioNext`). What an upstream answers, when a client arrives, when the
clock moves and whether anyone calls `stop` is not assumed; a sleeping retry or loop wakes up,
because `time.sleep` and `Event.wait` do. No step waits for a lock: the refresh tries it and
leaves, and the guard's critical sections are single steps.

## 4. Proofs

The theorems of the eight proof modules hold for every value of the constants, under the
assumptions the modules name (`NoRow`, `NoOne` and the like are not records or requests;
the bounds are natural numbers, the registry's clock has a first tick).

*Decision loop.* `TypeOK` is not inductive: what a request holds and where a sweep stands
depend on its phase, which `Typed` adds. `AuditInv` carries the argument of the two audit
theorems: a request before its log append has no entry of its own in either file; one past it
has its decided record in the log unless the disk was lost with it; so a ledger entry has its
log record (`LedgerIsBacked`), and every step maps to a step of `DecisionAudit` or to none
(`LoopImplementsAudit`). `RowInv` adds that, while the disk is kept, every decided record that
is in the table, in a request's hands or in a backfill is in the log (`DecidedRowsAreOnRecord`).
`QuietInv` says that until some worker is up nothing is in flight, whoever backfills found the
table empty, and what it holds are the last records of the log as it is. From it follow, for any
number of workers, `RestartRestoresRows` and `DecidedRowsStay`: a backfill that is written
before anyone serves restores the log's rows and replaces none. `AloneInv` adds that with one
worker no other backfill is left; the theorems below that assume one worker need it.

`AlreadyIsTrue`, of executions without a failure, needs `SteadyInv`: every row and every record
in hand is in its own store's place, so a decided row a caller pops is a logged decision of that
store. `HeldInv` adds to `SteadyInv` and `AloneInv` that a decision acknowledged
(`AckedDecisionHeld`) or in the log (`LoggedHeld`) is in the table or in some call's hands: the
row a request pops while a decision is safe elsewhere is either that decision, which it then
holds, or an undecided row a sweep slipped in, and neither a sweep nor a decision replaces a
decided row. `NotFoundIsInTheGap` reads it at the look-up: where the row is not decided, someone
holds it; `LateCallsAreToldTruth` is both. `OneDecisionForEachOffer` is an argument by counting,
`OfferInv`: the decisions of a store, and the chances of another one (its undecided row,
requests that popped one, sweeps and a backfill that may still write one), never outnumber the
offers made (`CountedAt`), because a pop moves a chance from the table to one pair of hands and
a logged decision uses it up. Both need one worker: the start-up backfill of a second one offers
rows the first has in hand.

*Execution.* `IInv` adds to the types that whoever is inside the critical section is the
lock's holder, that execution ids are unique in the journal, that a call past its check still
sees what it checked (nobody else can append an execution or a reversal), that at most
one execution per key is active, and that a call about to apply has its witness. From it follow
`DeliveriesAreWitnessed`, `ReversedAtMostOnce` and the refinement `ExecutionImplementsRecord`.
`JournalIsTheWorld` needs `MirrorInv`: with one deployment every handle names a delivery of the
connector that made it (`HandlesOwn`), and what is in effect outside is what the journal holds
live, give or take the one call between its external call and its record (`Mirrored`).

*Lifecycle.* `LifecycleReplay` accepts any event whose time is not before the last one's, so its
theorems hold of every log in time order, forged or not. `Coherent` is nearly inductive
as it stands; it needs that no snapshot was updated after the last event replayed, which
`AllCoherent` adds. `OutcomeIsJustified` needs `EndingKnown`: the state tells which event ended
the intervention. `EndIsFinal` reads the transition table: from a state that is not open only
outcome_pending and evaluate are accepted, and neither touches a clock.

*Registry.* Its properties compare replays: of the file a request read, and of the file after
later events, sorted among the earlier ones. `ReplayOrder` is written as a stable insertion, which
is what the sort by time and file position is, because the provers know nothing of a sort; that it
takes every position once, in time order, is `ReplaySorted`, and that an append puts one turn
somewhere among the others is `ReplayGrows`. The argument goes in four steps. (1) Turn by turn,
every snapshot is typed, coherent and founded on events in the file (`RunIsSound`,
`RunIsFounded`). (2) Each state has a `Level`, undefined, recommended, approved, running,
ended, and no event lowers it (`NoWayBack`). Of two snapshots of one intervention, the one that
is ahead stays ahead whatever event both are given (`StaysAhead`), for every event but reject and
expire, which no endpoint writes: a reject would end a snapshot that lags at APPROVED and bounce
off one that is ACTIVE. (3) So the replay with one event more is at no turn behind the one
without (`RunsShifted`), and other interventions' snapshots are equal (`AppendMoves`); an event
legal in the last snapshot and not older is accepted at its turn (`LegalAppend`). (4)
`RegistryInv` says what the endpoints keep so that this applies: in the file each intervention
has one definition and at most one approval, of one time and the definition first
(`FileSound`, hence `CreationHolds`: both are accepted in every replay); nobody else writes about
a creation that has appended nothing; a lifecycle event still to come is timely unless its
intervention was written about; and at the length the guards of a creation read, whoever held its
store had ended (`StoreWasFree`) and its key was unused (`KeyWasFree`), which stays true because an
end stays an end. `EndedIsForEver` is then `AppendMoves`, `AckedIsApproved` is `CreationHolds`,
`CreationGuardsAreKept` is `StoreWasFree` and `KeyWasFree` read backwards, and `LegalIsAccepted` is
`LegalAppend` for the request that moved.

*Decision pipeline.* What the promises say of a finished record has to be carried through
six rewrites. `Inv` ties the record to the outcome it was fed: `Faithful` (evidence,
assessment, causal state and scale-up flag are the outcome's), `Fed` (no outcome without a
signal), `Decision` (spend only if confirmed, harm pauses, a decline is gated, the two
promises that need no more) and `FlagsFollow` (flags derived from the final action). The
arithmetic lemmas bound what the rounding and clamping can produce; `HealthRules` needs that
elapsed and remaining days fill the window, which the assumption on signals says and
`SignalFitsPipeline` checks where signals are made.

*Scheduler.* A count of loops is not inductive: a stop that gives up leaves a loop, a start
makes one. The invariant counts orphans, the loops other than the thread the scheduler
knows, and bounds them by the joins that gave up; the counter the loops share equals the
streak of failures since a success of any of them.

*Window.* `CollectedUsable` (every collected day of a window not failed is usable) makes a mean
cover the window, since it is taken when all are collected; the pool's bound follows from a day
beginning only while fewer than `Workers` are under way.

*Spend guard.* The ceiling is broken only by straddlers, so the invariant gives each of them a
budget of its own (`Extra`): what a day has cost is at most `Extra` plus the running counter
while it is that day's, plus one budget when the day is over (`Ceilings`). A charge that
resets the counter while the day lasts is a straddler's; after it, whoever starts it anew is one.
`HourIsCapped` counts the entries of a client's deque. Stamps may be out of order, but one is
dropped only under a clock it is a window older than, so the stamps of the window that ends now
cover the calls let through in it at the time they were charged (`StampsCover`), and every window
was once the one that ended now (`WindowsHold`).

*Signals.* A signal is judged when the fetch is over, but what makes it true happens call by
call. `FetchInv` has, for each stage, what the calls before it told (`WindowTold`, `ChainTold`):
the elapsed days are those since the earliest run, whatever order the feed has (`FirstRunIsFirst`,
since a non-empty set of dates has a least), the table was usable when a prediction is asked for.
`CallOK` bounds a request's attempts and says what it slept before each of them is the backoff of
the attempt before (`SleptBeforeIs`). Feeds, tables and faults are any the assumptions admit.

*Board.* `RowsFollowLog` speaks of undecided rows, but a row may be decided, popped, put back or
carried by a sweep before it is one. Until the log is lost, every row and every popped record is
in it (`RowsLogged`), as is what a sweep is about to store or has seen in the log
(`SnapshotsHold`); the last record of the store is then that one or a later one.
`EverKept` and `EverFound` carry the stores once evaluated: each has a row, a record in the log,
or is in flight or gone. A redeploy empties the log and leaves the table, a second one may come
before any sweep has written the log again and take the store whose row a request held; so
`BoardStaysWithLog` says `redeploys <= 1`, the run's bound, inside its property and holds for any
number of other steps. `SurfacesStayAgreed` has no such bound. It takes the surfaces' conditions
apart (`CountsMeanWork`, `QueueIsShown`); the order of the board is a comparison of tiers first
(`GraverRanksFirst`), and a cost of inaction has a sign exactly with a forecast because a record
without one is never scored (`Unscored`, `no_data_recommendation`).

*Simulator.* The comparison sorts by gain, risk and name. `Champion` turns the sort into one
number, fifteen times the gain less the rank of ties, so that there is a single best action for
any gains. A lower cost raises the gains of the three spend moves by the same amount and no
other's, so a spend that won still wins; on the prior alone the three share one lift, and only
the timing shift survives the ties.

*Portfolio.* Sums over the ledger are sums over a finite set of positions (`SumOn`), proved to
be additive, monotone and termwise comparable by induction on the size of the set. `Scale` is
the product of all counts of days of the window; that every count divides it (`ScaleDivides`) is
an induction over subsets, and makes a store's extrapolation, sales by days, exact. A lift is a
floor; `Mediant` shows that the floor of a quotient of sums still lies between the least and the
greatest floor of the parts: the sum of `f` is at most `c` parts of the sum of `h` if each term
is. The pooled sales are compared term by term with what was sold: a store's term moves exactly
when a day is missing and its sales are not nil, up or down with their sign (`GapUp`,
`GapDown`). With returns a sum over more households is not a larger one, so
`EligibilityGrowsWithMailing` splits the sum (`SumAtSplits`) and excuses what the added
households bought only where it comes to less than nothing. A store's join repeats its evidence
because each link of the chain the report makes up is in order (`JoinIsState`), and daily totals
cannot contradict each other, one a day (`DaysObserved`).

*Outcomes, allocator, refresh.* `OutcomeInv` ties a stored outcome to sufficient evidence and to
the time it was awaited from; what `OutcomeOf` and the join say of any observations are lemmas
about their chains of conditions, written IF rather than CASE where TLAPS has to take them
apart. That clean checkpoints join is `RunReferenced` (the chain holds exactly with the run's
own approval), `RunAgrees` (its labels cannot conflict) and `CleanCheckpoint`; that nothing
joins after a second approval is `SupersededJoin`. `AllocInv` follows the rounds: nobody is
capped but by a score above the others', and the last quarter is never taken (`Scores`); shares
add up to the budget when they are split, over finite sets of any size; rounding loses or gains
at most half a cent each; the trim works off what the total is over the budget, itself to the
nearest cent, so it ends less than half a cent over and, on whole cents, not over at all; it
goes through the stores smallest first (`Trim`). `RefreshInv` bounds every date on record by the
redeploys that lost the log so far (`HistoryBounded`), and keeps what a reader rebuilt equal to
what the records say until it evaluates (`RebuiltHolds`).

Two properties were corrected by their proofs, since TLC's instances are too small to show the
case. That a better score is never paid less does not hold once the trim has everybody at the
minimum: from there it drops by store number (`BetterScoreNotPaidLess`). And a board refreshed
today may ask again because of a decision that was made between the rebuild of its runs and
their persisting: the decision is logged, the refresh's undecided record after it, and the store
looks undecided although every later refresh leaves it out as decided (`Undone`,
`RefreshOnceADay`). That is the race `looks_undecided` shows, met here through another sweep.

Sums and recursive functions over data of any size are proved by induction over the naturals in
first-order form (`NatInduct`), since the library's induction theorems take an operator and
cannot be instantiated.

Every component's type invariant is a theorem, the eleven of the services included
(`BoardTypeCorrect`, `FetchTypeCorrect`, `GuardTypeCorrect` and so on), and so is every safety
invariant and every action property a passing run checks. Two types were too loose to be true of
any constants and had to be said otherwise: the refresh's last attempt is bounded by the clock it
was read from, and the portfolio's ledgers and requests are sequences of transactions and
numbers. `ServicesTypeOK` is the conjunction of the eleven types over the composition of
`MCServices`, which exists for TLC; the conjunction is model-checked, its conjuncts are proved of
their own specifications. Only model-checked, too: everything under fairness
(`AckedDecisionSettles`, `CallsAnswered`, `ServicesProgress`), which the prover cannot reach, and
the properties runs expect to be violated.

## 5. Not modelled

- Of the decision engine, `policy_v2.py` and `trajectory.py`, which only the evaluation
  harness uses; the weekly series of a projection; the matched-control comparison, which a
  service computes and `get_control_comparison` fetches, is an input (`Controls`).
  `experiment.py` labels stores by a hash and only tests call it.
- The prose and telemetry behind the spend guard, the fire-and-forget warm-up pings, the
  texts and figures of board and cards, the pages of the site: they render what the models
  have and change nothing.
- Retail context beyond the margin and the availability verdict, SKU tables: look-ups.
- Retrieval and precedents, reliability and decision-quality analytics: reads and statistics
  nothing decides on. Read while modelling the journal, checked by no run: `_execution_stats`
  counts execution events that have a `reversed_at`, its two callers (`app/main.py:1079` and
  `2550`) give it `read_events()`, and there that field is always null, as the time is in the
  reversal event and only `execution_state` folds it in; so the reversal rate is 0 whatever
  was reversed, where the docstring (`analytics/decision_quality.py:13`) says reversed /
  executed.
- Identity and tokens (a request of the models has passed them), database set-up (I/O below
  the table of `DecisionLoop`), scripts, demo, evaluation harness and web front end.
- Hazards that the models show and no property excludes, because the code does not: an
  intervention whose creation died between its two events stays RECOMMENDED; a checkpoint
  that is not observed is stamped with its due date; `execute` reads its approval before it
  takes the lock, so a decision made in between is not seen.
- The recovery loop as one model (sweeps, execution, registry and outcome over one log): its
  parts meet in the log alone, which each models as the others may leave it; the product
  of their states is beyond TLC.
