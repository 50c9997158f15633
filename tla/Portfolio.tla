------------------------------ MODULE Portfolio ------------------------------
(***************************************************************************)
(* The portfolio report (phase2/portfolio.py, phase2/exposure.py and its    *)
(* endpoint in app/main.py): store by store, the eligibility of a campaign, *)
(* the two windows out of raw transactions, a forecast reference from a     *)
(* service that may fail, the outcome and its join; then the pooled totals. *)
(* Campaign days are counted from the campaign's start, sales in dollars.   *)
(***************************************************************************)
EXTENDS OutcomeRules

CONSTANTS Requested,        \* sequences of store ids a client may ask for
          Ledgers,          \* per request: a sequence of transactions
          Households,       \* sets of campaign households
          StoreTables,      \* sets of store ids the forecast service may know
          References,       \* daily means it may predict
          CampaignEnd,      \* 55 in the code
          MinHouseholds,    \* 10
          MaxStores

\* A sale, or what a return took back.
Transaction == [store : Int \cup {Missing}, day : Int \cup {Missing}, sales : Int, household : STRING]

ASSUME PortfolioAssumption ==
    /\ Requested \subseteq Seq(Int) /\ Ledgers \subseteq Seq(Transaction)
    /\ References \subseteq Int /\ MaxStores \in Nat /\ MinHouseholds \in Nat /\ CampaignEnd \in Int

VARIABLES progress,     \* "asked", "table", "stores", "reported" or "turned_away"
          asked, ledger, mailed, auto,      \* the request
          known,        \* the store table, once for all; Missing when it failed
          results

portfolio == <<progress, asked, ledger, mailed, auto, known, results>>

-----------------------------------------------------------------------------
(* Transactions of a store.  A malformed one is skipped where it is met.   *)

Places(s) == {i \in DOMAIN ledger : s > 0 /\ ledger[i].store = s}
Dated(s) == {i \in Places(s) : ledger[i].day # Missing}
SumAt(places) == SumFunction([i \in places |-> ledger[i].sales])

InCampaign(s) == {i \in Dated(s) : ledger[i].day \in 0 .. CampaignEnd}
Exposed(s, households) == {i \in InCampaign(s) : ledger[i].household \in households}

\* Without households or transactions, nothing is checked and the store counts;
\* an empty campaign window cannot be computed over, and it does not.
Eligible(s, households) ==
    \/ households = {} \/ Places(s) = {}
    \/ /\ CampaignEnd >= 0
       /\ \/ SumAt(InCampaign(s)) > 0
             /\ 2 * SumAt(Exposed(s, households)) >= SumAt(InCampaign(s))
          \/ Cardinality({ledger[i].household : i \in Exposed(s, households)}) >= MinHouseholds

\* A day without a transaction has no observation.
DailySales(s) ==
    {[at |-> day * DayLength, value |-> SumAt({i \in Dated(s) : ledger[i].day = day})] :
        day \in {ledger[i].day : i \in Dated(s)}}

Sold(s) == RecentWindow(DailySales(s), 0)

-----------------------------------------------------------------------------
\* _provenance_join_state: a chain of a minute per step, and a run that completed.
JoinOf(s, outcome) ==
    JoinState([id |-> "rec", key |-> s, generated |-> 0, campaign |-> "18", timing |-> "12-18"],
              [id |-> "approval", rec |-> "rec", approved |-> TRUE, decided |-> 0],
              [id |-> "run", approval |-> "approval", rec |-> "rec", state |-> "COMPLETED",
               started |-> 0, campaign |-> "18", timing |-> "12-18", key |-> s],
              Checkpoints(0, DueAt(0), EvaluationDays \div WeekDays, <<>>),
              [run |-> "run", key |-> s, campaign |-> "18", timing |-> "12-18", started |-> 0,
               state |-> outcome.state])

StoreResult(s, reference, status) ==
    LET outcome == OutcomeOf(DailySales(s), 0, DueAt(0))
    IN [store |-> s, eligible |-> Eligible(s, mailed), status |-> status, reference |-> reference,
        outcome |-> outcome, join |-> JoinOf(s, outcome), sold |-> SalesOf(Sold(s)),
        days |-> Cardinality(Sold(s))]

PortfolioInit ==
    /\ progress = "asked"
    /\ asked \in Requested /\ ledger \in Ledgers /\ mailed \in Households /\ auto \in BOOLEAN
    /\ known = Missing /\ results = <<>>

\* An empty list, or one over the cap, is turned away whole.
AdmitPortfolio ==
    /\ progress = "asked"
    /\ progress' = IF Len(asked) \in 1 .. MaxStores THEN "table" ELSE "turned_away"
    /\ UNCHANGED <<asked, ledger, mailed, auto, known, results>>

\* One lookup for all stores, if forecasts are asked for; it may fail.
FetchStoreTable ==
    /\ progress = "table"
    /\ progress' = "stores"
    /\ known' \in IF auto THEN StoreTables \cup {Missing} ELSE {Missing}
    /\ UNCHANGED <<asked, ledger, mailed, auto, results>>

NextStore == asked[Len(results) + 1]

\* Without the table, the store is looked up by itself.
ForecastAnswers(s) ==
    IF ~auto THEN {[status |-> "NO_DATA", reference |-> Missing]}
    ELSE (UNION {IF s \in table
                 THEN {[status |-> "AVAILABLE", reference |-> r] : r \in References}
                          \cup {[status |-> "ERROR", reference |-> Missing]}
                 ELSE {[status |-> "NO_DATA", reference |-> Missing]} :
                   table \in IF known = Missing THEN StoreTables ELSE {known}})
         \cup (IF known = Missing THEN {[status |-> "ERROR", reference |-> Missing]} ELSE {})

EvaluateStore ==
    /\ progress = "stores" /\ Len(results) < Len(asked)
    /\ \E answer \in ForecastAnswers(NextStore) :
          results' = Append(results, StoreResult(NextStore, answer.reference, answer.status))
    /\ UNCHANGED <<progress, asked, ledger, mailed, auto, known>>

Report ==
    /\ progress = "stores" /\ Len(results) = Len(asked)
    /\ progress' = "reported"
    /\ UNCHANGED <<asked, ledger, mailed, auto, known, results>>

PortfolioNext == AdmitPortfolio \/ FetchStoreTable \/ EvaluateStore \/ Report

PortfolioSpec == PortfolioInit /\ [][PortfolioNext]_portfolio /\ WF_portfolio(PortfolioNext)

-----------------------------------------------------------------------------
(* The report.  Means are kept as sums over days; pooled sales are per      *)
(* RecentDays, in units of a dollar over Scale.                             *)

Scale == FoldSet(LAMBDA n, product : n * product, 1, 1 .. RecentDays)

Selling == {i \in DOMAIN results : results[i].days > 0}
Referred == {i \in DOMAIN results : results[i].reference # Missing}

\* Faulty variant: a day without sales sold nothing.
AsSold(result) == result.sold * Scale

Extrapolated(result) == result.sold * RecentDays * (Scale \div result.days)
Predicted(result) == result.reference * RecentDays * Scale

\* _pooled_sums: every store that sold, and every store with a reference.
PooledActual == SumFunction([i \in Selling |-> Extrapolated(results[i])])
PooledForecast == SumFunction([i \in Referred |-> Predicted(results[i])])

CounterfactualOf(result) == LiftOver(result.sold, result.days, result.reference, 1)
PooledUplift == LiftOver(PooledActual, 1, PooledForecast, 1)

-----------------------------------------------------------------------------
Reported == progress = "reported"

PortfolioTypeOK ==
    /\ progress \in {"asked", "table", "stores", "reported", "turned_away"}
    /\ Len(results) <= Len(asked)
    /\ \A i \in DOMAIN results : /\ results[i].store = asked[i]
                                 /\ results[i].status \in {"AVAILABLE", "NO_DATA", "ERROR"}

\* When the stores that sold are the stores with a reference, the pooled uplift lies
\* between their own; one forecast that failed, or one store that sold nothing, and
\* it compares the sales of some stores with the forecasts of others
\* (_pooled_sums picks its two populations one by one).
PooledWithinStores ==
    (Reported /\ Selling = Referred /\ Selling # {}
        /\ \A i \in Referred : results[i].reference > 0) =>
            /\ \E i \in Selling : CounterfactualOf(results[i]) <= PooledUplift
            /\ \E i \in Selling : PooledUplift <= CounterfactualOf(results[i])

\* Pooling moves what was sold in the window by the gaps alone, a day without a
\* transaction being taken to have sold like the others: where no such store took back
\* more than it sold, the pooled sales are never below it, and above it exactly when
\* there is such a store that sold something; and the other way round for returns.
PooledOverstatesGaps ==
    Reported =>
        LET sold == SumFunction([i \in Selling |-> results[i].sold * Scale])
            up == {i \in Selling : results[i].sold > 0 /\ results[i].days < RecentDays}
            down == {i \in Selling : results[i].sold < 0 /\ results[i].days < RecentDays}
        IN /\ down = {} => PooledActual >= sold /\ (PooledActual > sold <=> up # {})
           /\ up = {} => PooledActual <= sold /\ (PooledActual < sold <=> down # {})

\* A portfolio's outcomes are decided ones, and the provenance join of a store says
\* nothing but what its evidence is worth: daily totals cannot contradict each other,
\* the evaluation is due, and the chain it makes up is in order.
JoinAddsNothing ==
    \A i \in DOMAIN results :
        /\ results[i].join = results[i].outcome.state
        /\ results[i].join \in {"SUFFICIENT", "PARTIAL", "INSUFFICIENT", "INVALID"}

\* Mailing to more households costs a store its eligibility only where they returned
\* more than they bought, but for the first ones: with none, nothing is checked and
\* every store is eligible (compute_store_campaign_eligibility against
\* _assess_eligibility).
EligibilityGrowsWithMailing ==
    Reported => \A i \in DOMAIN results, fewer \in (SUBSET mailed) \ {{}} :
        Eligible(results[i].store, fewer) =>
            results[i].eligible \/ SumAt(Exposed(results[i].store, mailed \ fewer)) < 0

\* Every admitted request is reported, with a result for every store of it, whatever
\* the forecast service does.
EveryStoreReported ==
    <>[](\/ progress \in {"asked", "turned_away"}
         \/ progress = "reported" /\ Len(results) = Len(asked))

\* A portfolio's report adds up: the pooled lift to its stores, the joins to their
\* evidence, the eligible stores to the households mailed.
PortfolioAddsUp ==
    /\ PooledWithinStores /\ PooledOverstatesGaps /\ JoinAddsNothing
    /\ EligibilityGrowsWithMailing
=============================================================================
