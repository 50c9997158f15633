------------------------------ MODULE Simulator ------------------------------
(***************************************************************************)
(* The backtest a human may ask for before an approval: what the            *)
(* calibrated lift would bring on the store's own baseline, and which       *)
(* action is worth most (decision_engine/simulator.py,                      *)
(* tools/retail_context.py and the two endpoints of app/main.py).           *)
(*                                                                         *)
(* Sales and costs are in dollars, margins in cents, rates in hundredths,   *)
(* lifts in tenths of a percent.  The own-baseline momentum is reported     *)
(* and read by nothing; it is left out.                                     *)
(***************************************************************************)
EXTENDS OutcomeRules

CONSTANTS StartDays,        \* start days a client may ask for
          Feedbacks,        \* actuals: sequences of [day, sales], day Missing if it is no integer
          StoreRows,        \* rows of the store totals
          Costs,            \* campaign costs a client may name
          Rates,            \* margin rates a client may name, or Missing
          KnownLifts        \* lifts a caller knows better than the prior, per action

ASSUME SimulatorAssumption ==
    /\ StartDays \subseteq Int /\ Costs \subseteq Int /\ Rates \subseteq Int \cup {Missing}
    /\ Feedbacks \subseteq Seq([day : Int \cup {Missing}, sales : Int])
    /\ \A row \in StoreRows : {row.sales, row.quantity, row.discount} \subseteq Int
    /\ \A lifts \in KnownLifts : \A action \in DOMAIN lifts : lifts[action] \in Int

PriorPoint == 28
DefaultMargin == 25
BaseMargin == 35
MinMargin == 5

DoNothing == {"CONTINUE", "PAUSE_INTERVENTION"}
Comparable == DoNothing \cup {"EXTEND_INTERVENTION", "RETARGET_SEGMENT", "TIMING_SHIFT"}

VARIABLES inquiry,      \* what is asked, and how far it has come
          actuals,       \* the actuals it is answered from
          margin,       \* the store's margin rate
          advice        \* the recommended action

simulation == <<inquiry, actuals, margin, advice>>

NoInquiry == [phase |-> "idle", kind |-> "none", start |-> 0, cost |-> 0, rate |-> Missing,
              lifts |-> <<>>]

-----------------------------------------------------------------------------
(* The baseline.                                                           *)

BaselinePlaces(rows, start) ==
    {i \in DOMAIN rows : rows[i].day \in start - BaselineDays .. start - 1}

BaselineSum(rows, start) ==
    SumFunction([i \in BaselinePlaces(rows, start) |-> rows[i].sales])

\* Three quarters of the days seen; a day listed twice counts once here, and twice
\* in the mean.
Covered(rows, start) ==
    /\ 4 * Cardinality({rows[i].day : i \in BaselinePlaces(rows, start)}) >= 3 * BaselineDays
    /\ BaselineSum(rows, start) > 0

\* derive_store_margin.
MarginOf(row) ==
    IF row.sales <= 0 \/ row.quantity <= 0 THEN Missing
    ELSE Clamp(BaseMargin - Greater(Rounded(-100 * row.discount, row.sales), 0), MinMargin, BaseMargin)

-----------------------------------------------------------------------------
(* The comparison.                                                         *)

LiftOf(action, lifts) ==
    IF action \in DOMAIN lifts THEN lifts[action]
    ELSE IF action \in DoNothing THEN 0 ELSE PriorPoint

CostOf(action, cost) == IF action \in DoNothing THEN 0 ELSE cost

\* _score_action, rounded to cents.
ExpectedGain(action, rows, start, rate, cost, lifts) ==
    Rounded(BaselineSum(rows, start) * EvaluationDays * LiftOf(action, lifts) * rate,
            1000 * Cardinality(BaselinePlaces(rows, start)))
      - 100 * CostOf(action, cost)

\* Faulty variant: how easily a move is undone does not count.
RiskIgnored(action) == 0

RiskRank(action) == CASE RiskOf(action) = "reversible" -> 0
                      [] RiskOf(action) = "cautious" -> 1
                      [] OTHER -> 2

Alphabetical(action) == CASE action = "CONTINUE" -> 0
                          [] action = "EXTEND_INTERVENTION" -> 1
                          [] action = "PAUSE_INTERVENTION" -> 2
                          [] action = "RETARGET_SEGMENT" -> 3
                          [] OTHER -> 4

\* Worth more first, then easier to undo, then by name.
Best(rows, start, rate, cost, lifts) ==
    LET gain(a) == ExpectedGain(a, rows, start, rate, cost, lifts)
    IN CHOOSE best \in Comparable :
         \A a \in Comparable \ {best} :
            \/ gain(best) > gain(a)
            \/ /\ gain(best) = gain(a)
               /\ \/ RiskRank(best) < RiskRank(a)
                  \/ RiskRank(best) = RiskRank(a) /\ Alphabetical(best) < Alphabetical(a)

\* The verdict on a lift nobody measured: the point alone, without its interval.
ProjectedState(lift) ==
    CausalState([state |-> "SUFFICIENT", did |-> lift, low |-> Missing, mde |-> Missing])

-----------------------------------------------------------------------------
SimulatorInit ==
    /\ inquiry = NoInquiry /\ actuals = <<>> /\ margin = Missing /\ advice = "none"

\* GET /simulate and /simulate/compare; a library caller may name lifts too.
AskSimulation ==
    /\ inquiry.phase = "idle"
    /\ \E kind \in {"simulate", "compare"}, start \in StartDays, cost \in Costs,
          rate \in Rates, lifts \in KnownLifts :
          LET refused == \/ start <= BaselineDays
                         \/ kind = "compare" /\ cost < 0
                         \/ kind = "compare" /\ rate # Missing /\ rate \notin 1 .. 100
          IN inquiry' = [phase |-> IF refused THEN "refused" ELSE "asked", kind |-> kind,
                         start |-> start, cost |-> cost, rate |-> rate, lifts |-> lifts]
    /\ UNCHANGED <<actuals, margin, advice>>

Arrived(phase) == inquiry' = [inquiry EXCEPT !.phase = phase]

\* An unreachable feed is a 502; the content of a row is looked at later.
FetchActuals ==
    /\ inquiry.phase = "asked"
    /\ \/ Arrived("unavailable") /\ UNCHANGED actuals
       \/ \E rows \in Feedbacks :
             /\ actuals' = rows
             /\ Arrived(IF inquiry.kind = "compare" THEN "margin" ELSE "project")
    /\ UNCHANGED <<margin, advice>>

\* The client's rate, the store's own, or the default when there is no usable row.
FindMargin ==
    /\ inquiry.phase = "margin"
    /\ IF inquiry.rate # Missing THEN margin' = inquiry.rate
       ELSE \/ margin' = DefaultMargin
            \/ \E row \in StoreRows :
                  margin' = IF MarginOf(row) = Missing THEN DefaultMargin ELSE MarginOf(row)
    /\ Arrived("project")
    /\ UNCHANGED <<actuals, advice>>

\* A day that is no integer raises, outside of what the endpoint catches.
Project ==
    /\ inquiry.phase = "project"
    /\ IF \E i \in DOMAIN actuals : actuals[i].day = Missing THEN Arrived("failed") /\ UNCHANGED advice
       ELSE IF ~Covered(actuals, inquiry.start) THEN Arrived("insufficient") /\ UNCHANGED advice
       ELSE /\ Arrived("projected")
            /\ advice' = IF inquiry.kind = "simulate" THEN ProjectedState(PriorPoint)
                         ELSE Best(actuals, inquiry.start, margin, inquiry.cost, inquiry.lifts)
    /\ UNCHANGED <<actuals, margin>>

SimulatorNext == AskSimulation \/ FetchActuals \/ FindMargin \/ Project

SimulatorSpec == SimulatorInit /\ [][SimulatorNext]_simulation

-----------------------------------------------------------------------------
Compared == inquiry.phase = "projected" /\ inquiry.kind = "compare"

GainAt(action, cost) ==
    ExpectedGain(action, actuals, inquiry.start, margin, cost, inquiry.lifts)

SimulatorTypeOK ==
    /\ inquiry.phase \in {"idle", "refused", "asked", "unavailable", "margin", "project",
                          "failed", "insufficient", "projected"}
    /\ margin = Missing \/ margin \in 1 .. 100
    /\ advice \in Comparable \cup {"none", "REFUTED", "REVIEW_ZONE", "CONFIRMED", "UNAVAILABLE"}

\* The three spend moves share one lift and one cost, so the tie-break alone chooses
\* among them: what the endpoint compares, it can only recommend a timing shift or to
\* go on as before, and the shift exactly when it gains a cent
\* (_score_action and the sort, under compare_store_actions).
ShiftOrContinue ==
    Compared /\ inquiry.lifts = <<>> =>
        advice = IF GainAt("TIMING_SHIFT", inquiry.cost) > 0 THEN "TIMING_SHIFT" ELSE "CONTINUE"

\* The comparison never talks anybody into a loss: as long as one of the do-nothing
\* actions keeps its lift, the recommended action gains as much as it.
LossIsNeverAdvised ==
    Compared /\ ~(DoNothing \subseteq DOMAIN inquiry.lifts) => GainAt(advice, inquiry.cost) >= 0

\* A move that is worth its cost is worth it at any lower one: a cheaper campaign
\* never turns a recommended spend into doing nothing.
CheaperStaysWorthIt ==
    Compared /\ advice \notin DoNothing =>
        \A cost \in {c \in Costs : 0 <= c /\ c <= inquiry.cost} :
            Best(actuals, inquiry.start, margin, cost, inquiry.lifts) = advice

\* A comparison advises what gains most, and goes on advising it when it costs less.
AdviceIsSound == ShiftOrContinue /\ LossIsNeverAdvised /\ CheaperStaysWorthIt
=============================================================================
