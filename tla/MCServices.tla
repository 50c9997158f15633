------------------------------ MODULE MCServices -----------------------------
(***************************************************************************)
(* The parts around the decision loop, checked in one run.  They share no   *)
(* state, so a behaviour moves one of them (scope) while the others rest    *)
(* in a state they can be in: interleaving them would multiply states and   *)
(* show nothing.  Each part's own Next and fairness are used as they are.   *)
(***************************************************************************)
EXTENDS DecisionPipeline, Board, SignalFetch, WindowFetch, BudgetAllocator, SpendGuard,
        SweepScheduler, BoardRefresh, OutcomeMeasurement, Portfolio, Simulator, TLC

CONSTANT Parts      \* the parts a behaviour may move

CONSTANTS r1, r2, r3   \* requests

VARIABLE scope

-----------------------------------------------------------------------------
(* Rest states.                                                            *)

PipelineRest == /\ sig = CHOOSE s \in Signals : s.available
                /\ stage = "scored" /\ rec = ScoredRecord(sig) /\ outcome = NoOutcome

BoardRest == /\ log = <<>> /\ rows = {} /\ sweep = NoSweep /\ popped = NoRecord
             /\ redeploys = 0 /\ ever = {} /\ gone = {}

WindowRest == /\ future = [d \in TargetDays |-> Answered(Fresh, "ok")]
              /\ collected = TargetDays /\ window = "mean"

AllocatorRest == /\ phase = "rejected" /\ total = 0 /\ list = <<>>
                 /\ scored = {} /\ left = {} /\ amounts = <<>> /\ served = {}
                 /\ rounded = <<>> /\ todo = {} /\ overflow = 0

RefreshRest == RefreshInit /\ clock = CampaignStart

MeasurementRest == /\ lifecycle = "COMPLETED" /\ awaited = Missing /\ recorded = <<>> /\ posts = 0
                   /\ latest = "approval" /\ answer = "none" /\ stored = NothingStored

PortfolioRest == /\ progress = "asked" /\ asked = <<>> /\ ledger = <<>> /\ mailed = {}
                 /\ auto = FALSE /\ known = Missing /\ results = <<>>

-----------------------------------------------------------------------------
MCInit ==
    /\ scope \in Parts
    /\ IF scope = "pipeline" THEN PipelineInit ELSE PipelineRest
    /\ IF scope = "board" THEN BoardInit ELSE BoardRest
    /\ FetchInit
    /\ IF scope = "window" THEN WindowInit ELSE WindowRest
    /\ IF scope = "allocator" THEN AllocatorInit ELSE AllocatorRest
    /\ GuardInit
    /\ SchedulerInit
    /\ IF scope = "refresh" THEN RefreshInit ELSE RefreshRest
    /\ IF scope = "measurement" THEN MeasurementInit ELSE MeasurementRest
    /\ IF scope = "portfolio" THEN PortfolioInit ELSE PortfolioRest
    /\ SimulatorInit

MCNext ==
    /\ UNCHANGED scope
    /\ \/ /\ scope = "pipeline" /\ PipelineNext
          /\ UNCHANGED <<board, fetch, windowVars, allocator, guard, scheduler, refresh, measurement,
                      portfolio, simulation>>
       \/ /\ scope = "board" /\ BoardNext
          /\ UNCHANGED <<pipeline, fetch, windowVars, allocator, guard, scheduler, refresh, measurement,
                      portfolio, simulation>>
       \/ /\ scope = "fetch" /\ FetchNext
          /\ UNCHANGED <<pipeline, board, windowVars, allocator, guard, scheduler, refresh, measurement,
                      portfolio, simulation>>
       \/ /\ scope = "window" /\ WindowNext
          /\ UNCHANGED <<pipeline, board, fetch, allocator, guard, scheduler, refresh, measurement,
                      portfolio, simulation>>
       \/ /\ scope = "allocator" /\ AllocatorNext
          /\ UNCHANGED <<pipeline, board, fetch, windowVars, guard, scheduler, refresh, measurement,
                      portfolio, simulation>>
       \/ /\ scope = "guard" /\ GuardNext
          /\ UNCHANGED <<pipeline, board, fetch, windowVars, allocator, scheduler, refresh, measurement,
                      portfolio, simulation>>
       \/ /\ scope = "scheduler" /\ SchedulerNext
          /\ UNCHANGED <<pipeline, board, fetch, windowVars, allocator, guard, refresh, measurement,
                      portfolio, simulation>>
       \/ /\ scope = "refresh" /\ RefreshNext
          /\ UNCHANGED <<pipeline, board, fetch, windowVars, allocator, guard, scheduler, measurement,
                      portfolio, simulation>>
       \/ /\ scope = "measurement" /\ MeasurementNext
          /\ UNCHANGED <<pipeline, board, fetch, windowVars, allocator, guard, scheduler, refresh, portfolio, simulation>>
       \/ /\ scope = "portfolio" /\ PortfolioNext
          /\ UNCHANGED <<pipeline, board, fetch, windowVars, allocator, guard, scheduler, refresh,
                      measurement, simulation>>
       \/ /\ scope = "simulator" /\ SimulatorNext
          /\ UNCHANGED <<pipeline, board, fetch, windowVars, allocator, guard, scheduler, refresh, measurement,
                      portfolio>>

MCSpec ==
    /\ MCInit /\ [][MCNext]_<<scope, pipeline, board, fetch, windowVars, allocator, guard,
                           scheduler, refresh, measurement, portfolio, simulation>>
    /\ WF_fetch(scope = "fetch" /\ FetchNext)
    /\ \A d \in TargetDays : WF_windowVars(scope = "window" /\ DayNext(d))
    /\ WF_allocator(scope = "allocator" /\ AllocatorNext)
    /\ \A r \in Requests :
          WF_guard(scope = "guard" /\ (ChargeDay(r) \/ ReadClock(r) \/ ChargeClient(r)))
    /\ \A l \in Loops : WF_scheduler(scope = "scheduler" /\ LoopStep(l))
    /\ WF_scheduler(scope = "scheduler" /\ FinishStop)
    /\ \A r \in Readers : WF_refresh(scope = "refresh" /\ ReaderStep(r))
    /\ WF_portfolio(scope = "portfolio" /\ PortfolioNext)

-----------------------------------------------------------------------------
(* Instances.  The windows of the code (56, 14 and 60 days, at least 28 and *)
(* 7 of them with sales) are 4, 2 and 5, at least 2 and 1, of two ticks.    *)

\* The boundaries of the health rules, on both sides of the deadline.
SignalAt(current, elapsed) ==
    [available |-> TRUE, status |-> "AVAILABLE", baseline |-> 1000, current |-> current,
     elapsed |-> elapsed, remaining |-> Greater(RecoveryWindow - elapsed, 0)]
MCSignals ==
    {SignalAt(c, e) : c \in {985, 1000, 1003, 1012, 1020, 1030, 1045}, e \in {0, 5, 31, 47, 75}}
      \cup {[SignalAt(0, e) EXCEPT !.available = FALSE, !.status = s, !.baseline = 0] :
              s \in {"NO_DATA", "ERROR"}, e \in {0, 50}}

Causal(s, d, l, m) == [state |-> s, did |-> d, low |-> l, mde |-> m]
MCCausal ==
    {Causal("SUFFICIENT", d, l, m) : d \in {-5, 12, 31}, l \in {-3, 2, Missing}, m \in {20, 40, Missing}}
      \cup {Causal("INSUFFICIENT", 45, 2, 20), Causal("SUFFICIENT", Missing, Missing, Missing), NoCausal}
MCOutcomes ==
    {[state |-> "SUFFICIENT", assessment |-> a[1], lift |-> a[2], causal |-> c] :
       a \in {<<"MEETS_TARGET", 35>>, <<"REVIEW_ZONE", 12>>, <<"NEGATIVE", -20>>}, c \in MCCausal}
      \cup {[state |-> s, assessment |-> "none", lift |-> Missing, causal |-> Causal("SUFFICIENT", 45, 2, 20)] :
              s \in {"PARTIAL", "NOT_DUE"}}
ContextOf(g, s, p, k, n) == [given |-> g, share |-> s, peak |-> p, constrained |-> k, candidate |-> n]
MCContexts == {ContextOf(FALSE, 60, 50, TRUE, 10), ContextOf(TRUE, 49, 39, FALSE, 0),
               ContextOf(TRUE, 50, 39, FALSE, 0), ContextOf(TRUE, 49, 40, FALSE, 0),
               ContextOf(TRUE, 49, 39, TRUE, 10)}

\* What a sweep can say of a store.
Saying(a, h, r, sg, st, ev, as) ==
    [action |-> a, health |-> h, recovery |-> r, remaining |-> 30, confidence |-> 60, signal |-> sg,
     status |-> st, evidence |-> ev, assessment |-> as, causal |-> "none"]
Going == Saying("MONITOR", 450, 12, TRUE, "AVAILABLE", "none", "none")
Extend == Saying("EXTEND_INTERVENTION", 200, -5, TRUE, "AVAILABLE", "none", "none")
Failing == Saying("NEEDS_REVIEW", 0, 0, FALSE, "ERROR", "none", "none")
Harmed == Saying("PAUSE_INTERVENTION", 700, 30, TRUE, "AVAILABLE", "SUFFICIENT", "NEGATIVE")
MCStores == {1, 2}
MCBatches == {<<Harmed, Failing>>, <<Going, Failing>>, <<Harmed, Extend>>}
MCLegacy == {Extend}

\* Feeds: good, a store listed twice or not dated, a wrong total, nobody named.
AuditRun(ok, l, t, ids) == [complete |-> ok, label |-> l, timing |-> "12-18", time |-> t, stores |-> ids]
MCFeeds == {[total |-> 2, runs |-> <<AuditRun(TRUE, "numbered", 50, <<1, 2>>), AuditRun(TRUE, "free", 40, <<2>>)>>],
            [total |-> 2, runs |-> <<AuditRun(TRUE, "numbered", 120, <<1>>), AuditRun(TRUE, "numbered", 120, <<1>>)>>],
            [total |-> 3, runs |-> <<AuditRun(TRUE, "numbered", 50, <<1>>)>>],
            [total |-> 1, runs |-> <<AuditRun(TRUE, "numbered", 50, <<1, 1>>)>>],
            [total |-> 2, runs |-> <<AuditRun(TRUE, "numbered", Missing, <<2>>), AuditRun(TRUE, "blank", 50, <<1>>)>>],
            [total |-> 1, runs |-> <<AuditRun(TRUE, "numbered", Missing, <<2>>)>>],
            [total |-> 0, runs |-> <<>>]}
FileLine(object, run) == [object |-> object, run |-> run]
MCFiles == {<<FileLine(FALSE, AuditRun(TRUE, "free", 1, <<3>>)), FileLine(TRUE, AuditRun(FALSE, "blank", 30, <<1, 1>>)),
              FileLine(TRUE, AuditRun(TRUE, "free", Missing, <<1, 2>>))>>, <<>>}
TableRow(o, s, l) == [object |-> o, store |-> s, last |-> l]
MCTables == {<<TableRow(TRUE, 1, 5), TableRow(TRUE, Missing, Missing), TableRow(TRUE, 1, 6)>>,
             <<TableRow(TRUE, 2, 5)>>, <<TableRow(TRUE, 2, Missing), TableRow(TRUE, 1, 5)>>,
             <<TableRow(FALSE, Missing, Missing)>>, <<>>}
MCBackoffs == <<2, 4>>

\* Allocation: scores that tie, outdo the cap, round to nothing, or are zero.
Offer(s, b, l, c) == [sid |-> s, eligible |-> TRUE, evidence |-> "SUFFICIENT", lift |-> l, baseline |-> b,
                      rate |-> 5, cost |-> 10, confidence |-> c]
OffersOf(s) == {Offer(s, 1, 4, 2), Offer(s, 1, 2, 2), Offer(s, 2, 5, 0), Offer(s, 3, 5, 2)}
MCLists ==
    {<<a, b, c, d>> : a \in OffersOf(1), b \in OffersOf(2), c \in OffersOf(3), d \in OffersOf(4)}
      \cup {<<a, b, c, Offer(4, 1, 4, 2), e>> : a \in OffersOf(1), b \in OffersOf(2), c \in OffersOf(3), e \in OffersOf(5)}
      \cup {<<a, b, [b EXCEPT !.confidence = c], b>> : a \in OffersOf(1), b \in OffersOf(2), c \in {2, 1}}
      \cup {<<Offer(1, 1, 4, 2)>>, <<>>, <<[Offer(1, 1, 4, 2) EXCEPT !.eligible = FALSE], Offer(2, 1, 4, 2)>>,
            <<[Offer(1, 1, 4, 2) EXCEPT !.evidence = "PARTIAL"], Offer(2, 1, -4, 2),
              [Offer(3, 1, 4, 2) EXCEPT !.cost = 100]>>, <<Offer(1, 0, 4, 2)>>}

\* Checkpoints in time, too early, of another key, campaign or timing, posted twice,
\* not observed.
Posting(d, o, k, c, t) == [due |-> d, observed |-> o, key |-> k, campaign |-> c, timing |-> t]
MCProvided == {<<Posting(104, 105, "key", "Campaign 18", "12pm-6pm"), Posting(108, 109, "other", "18", Missing)>>,
               <<Posting(104, 103, Missing, "18", Missing), Posting(108, Missing, Missing, "19", Missing)>>,
               <<Posting(108, 109, Missing, Missing, "evening")>>,
               <<Posting(108, 109, Missing, "18", Missing), Posting(108, 109, Missing, "18", Missing)>>}
SalesAt(a, v) == [at |-> a, value |-> v]
BaselineOf(v) == {SalesAt(93, v), SalesAt(95, v), SalesAt(96, v)}
MCPosted == {{}, BaselineOf(100), BaselineOf(100) \cup {SalesAt(106, 104), SalesAt(110, 500)},
             BaselineOf(100) \cup {SalesAt(96, 101), SalesAt(109, 96)}, BaselineOf(0) \cup {SalesAt(106, 100)},
             {SalesAt(91, 100), SalesAt(92, 100), SalesAt(106, 100)}}
SalesOn(days, v) == {[day |-> d, value |-> v] : d \in days}
MCReplays == {SalesOn(-4 .. 5, 100), SalesOn(-4 .. 2, 100) \cup SalesOn({3}, 110) \cup SalesOn({4, 5}, 900)}
MCControls == {Causal("none", d, Missing, Missing) : d \in {Missing, 40}}

\* Portfolios of transactions: gaps, malformed lines, days outside the windows, and
\* one with returns, by a household and over a store's window.
Sale(s, d, v, h) == [store |-> s, day |-> d, sales |-> v, household |-> h]
MCLedgers ==
    {<<Sale(1, -4, 10, "h"), Sale(1, -1, 10, "h"), Sale(1, 0, 50, "k"), Sale(1, 1, 5, "g"), Sale(1, 2, 5, "h"),
       Sale(1, 4, 13, "h"), Sale(2, -3, 10, "h"), Sale(2, -2, 10, "h"), Sale(2, 3, 12, "h"), Sale(2, 4, 5, "g"),
       Sale(2, 4, 5, "h"), Sale(2, Missing, 50, "h"), Sale(Missing, 3, 9, "h"), Sale(2, 3, 5, "h"), Sale(2, 5, 70, "h")>>,
     <<Sale(1, -2, 5, "h"), Sale(1, 0, 5, "none"), Sale(1, 2, 6, "g"), Sale(1, 3, 6, "h"), Sale(2, 0, 9, "h")>>,
     <<Sale(1, -2, 9, "h"), Sale(1, 0, 60, "h"), Sale(1, 1, 60, "g"), Sale(1, 2, -20, "k"), Sale(1, 3, 30, "h"),
       Sale(1, 4, -5, "g"), Sale(2, 0, 5, "h"), Sale(2, 0, 5, "g"), Sale(2, 1, 5, "k"), Sale(2, 2, 50, "none"),
       Sale(2, 3, -7, "h")>>}
MCRequested == {<<>>, <<2, 1>>, <<1, 1, 2, 2>>}
MCHouseholds == {{}, {"h"}, {"h", "k"}, {"h", "g", "k"}}
MCStoreTables == {{1}, {1, 2}}

\* Baselines well covered, by repeated days only, with returns, worth nothing.
Seen(d, v) == [day |-> d, sales |-> v]
MCFeedbacks ==
    {<<Seen(6, 10), Seen(7, 10), Seen(8, 20)>>,
     <<Seen(6, 100), Seen(7, 100), Seen(8, 200), Seen(8, 300), Seen(9, 100), Seen(3, 900)>>,
     <<Seen(8, 10), Seen(8, 10), Seen(9, 10)>>, <<Seen(6, 10), Seen(7, -10), Seen(8, 0)>>,
     <<Seen(6, 0), Seen(7, 0), Seen(8, 1)>>, <<Seen(Missing, 10)>>, <<>>}
TotalsRow(s, q, d) == [sales |-> s, quantity |-> q, discount |-> d]
MCStoreRows == {TotalsRow(100, 10, -10), TotalsRow(100, 10, -90), TotalsRow(0, 10, 0), TotalsRow(100, 5, 5)}
MCCosts == {-1, 0, 1, 2, 6}
MCRates == {0, 1, 25, 100, Missing}
MCKnownLifts == {<<>>, "CONTINUE" :> -20, [a \in DoNothing |-> -30], "EXTEND_INTERVENTION" :> 60,
                 "RETARGET_SEGMENT" :> 28, [a \in Comparable |-> -10]}

-----------------------------------------------------------------------------
\* Each part's state is of its type.
ServicesTypeOK ==
    /\ PipelineTypeOK /\ BoardTypeOK /\ FetchTypeOK /\ WindowTypeOK /\ AllocatorTypeOK
    /\ GuardTypeOK /\ SchedulerTypeOK /\ RefreshTypeOK /\ MeasurementTypeOK
    /\ PortfolioTypeOK /\ SimulatorTypeOK

\* Whatever a part was asked is answered in the end: fetches, windows, allocations,
\* requests, readers and portfolios; the scheduler sweeps until it is stopped, and a
\* stop nobody revokes ends its loops.
ServicesProgress ==
    /\ FetchEnds /\ WindowEnds /\ AllocationEnds /\ EveryRequestAnswered /\ ReadersServed
    /\ EveryStoreReported /\ KeepsSweeping /\ StopEndsLoops
=============================================================================
