----------------------------- MODULE ReportProofs -----------------------------
(***************************************************************************)
(* Proofs about what is reported of money: the simulator's comparison of    *)
(* actions and the portfolio's pooled totals.                               *)
(***************************************************************************)
EXTENDS Portfolio, Simulator, ServicesProofs

-----------------------------------------------------------------------------
(* The simulator: which action gains most.                                 *)

\* The order of a comparison, over gains g: what Best maximises.
Outdoes(g, b, a) ==
    \/ g[b] > g[a]
    \/ /\ g[b] = g[a]
       /\ \/ RiskRank(b) < RiskRank(a)
          \/ RiskRank(b) = RiskRank(a) /\ Alphabetical(b) < Alphabetical(a)

\* The tie-break as one number.
Tie(a) == 5 * RiskRank(a) + Alphabetical(a)

\* What an action weighs when gains are equal: its risk first, then its name.
LEMMA Ties ==
    /\ Tie("CONTINUE") = 0 /\ Tie("PAUSE_INTERVENTION") = 2 /\ Tie("TIMING_SHIFT") = 4
    /\ Tie("EXTEND_INTERVENTION") = 6 /\ Tie("RETARGET_SEGMENT") = 8
    /\ \A a \in Comparable : RiskRank(a) \in 0 .. 1 /\ Alphabetical(a) \in 0 .. 4
<1>1. /\ RiskRank("CONTINUE") = 0 /\ RiskRank("PAUSE_INTERVENTION") = 0
      /\ RiskRank("TIMING_SHIFT") = 0
      /\ RiskRank("EXTEND_INTERVENTION") = 1 /\ RiskRank("RETARGET_SEGMENT") = 1
  BY DEF RiskRank, RiskOf
<1>2. /\ Alphabetical("CONTINUE") = 0 /\ Alphabetical("PAUSE_INTERVENTION") = 2
      /\ Alphabetical("TIMING_SHIFT") = 4
      /\ Alphabetical("EXTEND_INTERVENTION") = 1 /\ Alphabetical("RETARGET_SEGMENT") = 3
  BY DEF Alphabetical
<1>. QED  BY <1>1, <1>2 DEF Tie, Comparable, DoNothing

\* Whatever the gains, one action outdoes the others.
LEMMA Champion ==
    ASSUME NEW g \in [Comparable -> Int]
    PROVE  \E b \in Comparable : \A a \in Comparable \ {b} : Outdoes(g, b, a)
<1>. DEFINE w(a) == 15 * g[a] - Tie(a)
<1>1. /\ w("CONTINUE") = 15 * g["CONTINUE"]
      /\ w("PAUSE_INTERVENTION") = 15 * g["PAUSE_INTERVENTION"] - 2
      /\ w("TIMING_SHIFT") = 15 * g["TIMING_SHIFT"] - 4
      /\ w("EXTEND_INTERVENTION") = 15 * g["EXTEND_INTERVENTION"] - 6
      /\ w("RETARGET_SEGMENT") = 15 * g["RETARGET_SEGMENT"] - 8
      /\ g["CONTINUE"] \in Int /\ g["PAUSE_INTERVENTION"] \in Int /\ g["TIMING_SHIFT"] \in Int
      /\ g["EXTEND_INTERVENTION"] \in Int /\ g["RETARGET_SEGMENT"] \in Int
  BY Ties DEF Comparable, DoNothing
<1>2. \A a \in Comparable : w(a) \in Int /\ g[a] \in Int
  BY <1>1 DEF Comparable, DoNothing
<1>. HIDE DEF w
<1>3. \E b \in Comparable : \A a \in Comparable \ {b} : w(b) >= w(a)
  <2>. DEFINE c == w("CONTINUE") p == w("PAUSE_INTERVENTION") t == w("TIMING_SHIFT")
              e == w("EXTEND_INTERVENTION") r == w("RETARGET_SEGMENT")
  <2>1. c \in Int /\ p \in Int /\ t \in Int /\ e \in Int /\ r \in Int
    BY <1>2 DEF Comparable, DoNothing
  <2>. HIDE DEF c, p, t, e, r
  <2>2. \/ c >= p /\ c >= t /\ c >= e /\ c >= r
        \/ p >= c /\ p >= t /\ p >= e /\ p >= r
        \/ t >= c /\ t >= p /\ t >= e /\ t >= r
        \/ e >= c /\ e >= p /\ e >= t /\ e >= r
        \/ r >= c /\ r >= p /\ r >= t /\ r >= e
    BY <2>1
  <2>. QED  BY <2>2 DEF c, p, t, e, r, Comparable, DoNothing
<1>4. PICK b \in Comparable : \A a \in Comparable \ {b} : w(b) >= w(a)
  BY <1>3
<1>5. ASSUME NEW a \in Comparable \ {b} PROVE Outdoes(g, b, a)
  <2>1. 15 * g[b] - Tie(b) >= 15 * g[a] - Tie(a)
    BY <1>4 DEF w
  <2>2. Tie(b) # Tie(a) /\ Tie(a) \in 0 .. 8 /\ Tie(b) \in 0 .. 8
    BY Ties DEF Comparable, DoNothing
  <2>3. g[a] \in Int /\ g[b] \in Int
    BY <1>2
  <2>4. g[b] > g[a] \/ (g[b] = g[a] /\ Tie(b) < Tie(a))
    BY <2>1, <2>2, <2>3
  <2>5. Tie(b) < Tie(a) => \/ RiskRank(b) < RiskRank(a)
                           \/ RiskRank(b) = RiskRank(a) /\ Alphabetical(b) < Alphabetical(a)
    BY Ties DEF Tie
  <2>. QED  BY <2>4, <2>5 DEF Outdoes
<1>. QED  BY <1>5

\* What the comparison recommends outdoes the others.
LEMMA BestOutdoes ==
    ASSUME NEW g \in [Comparable -> Int], NEW rows, NEW start, NEW rate, NEW cost, NEW lifts,
           \A a \in Comparable : ExpectedGain(a, rows, start, rate, cost, lifts) = g[a]
    PROVE  /\ Best(rows, start, rate, cost, lifts) \in Comparable
           /\ \A a \in Comparable \ {Best(rows, start, rate, cost, lifts)} :
                 Outdoes(g, Best(rows, start, rate, cost, lifts), a)
<1>. DEFINE gain(a) == ExpectedGain(a, rows, start, rate, cost, lifts)
            Tops(b) == \A a \in Comparable \ {b} :
                          \/ gain(b) > gain(a)
                          \/ /\ gain(b) = gain(a)
                             /\ \/ RiskRank(b) < RiskRank(a)
                                \/ RiskRank(b) = RiskRank(a) /\ Alphabetical(b) < Alphabetical(a)
<1>1. \A b \in Comparable : Tops(b) <=> \A a \in Comparable \ {b} : Outdoes(g, b, a)
  BY DEF Outdoes
<1>2. Best(rows, start, rate, cost, lifts) = CHOOSE b \in Comparable : Tops(b)
  BY DEF Best
<1>3. \E b \in Comparable : Tops(b)
  BY <1>1, Champion
<1>. HIDE DEF Tops
<1>. QED  BY <1>1, <1>2, <1>3

\* Nobody else could be recommended.
LEMMA OneChampion ==
    ASSUME NEW g \in [Comparable -> Int], NEW b \in Comparable, NEW c \in Comparable,
           \A a \in Comparable \ {b} : Outdoes(g, b, a),
           \A a \in Comparable \ {c} : Outdoes(g, c, a)
    PROVE  b = c
<1>. SUFFICES ASSUME b # c PROVE FALSE
  OBVIOUS
<1>1. Outdoes(g, b, c) /\ Outdoes(g, c, b)
  OBVIOUS
<1>2. /\ g[b] \in Int /\ g[c] \in Int /\ RiskRank(b) \in Int /\ RiskRank(c) \in Int
      /\ Alphabetical(b) \in Int /\ Alphabetical(c) \in Int
  BY Ties
<1>. QED  BY <1>1, <1>2 DEF Outdoes

ActualRow == [day : Int \cup {Missing}, sales : Int]

\* The days a comparison stands on are finitely many, and their sales a number.
LEMMA BaselineInt ==
    ASSUME NEW rows \in Seq(ActualRow), NEW start \in Int
    PROVE  /\ IsFiniteSet(BaselinePlaces(rows, start))
           /\ Cardinality(BaselinePlaces(rows, start)) \in Nat
           /\ BaselineSum(rows, start) \in Int
<1>. DEFINE places == BaselinePlaces(rows, start)
            val == [i \in DOMAIN rows |-> rows[i].sales]
<1>1. /\ DOMAIN rows = 1 .. Len(rows) /\ Len(rows) \in Nat
      /\ \A i \in DOMAIN rows : rows[i] \in ActualRow
  BY LenProperties, ElementOfSeq
<1>2. IsFiniteSet(DOMAIN rows)
  BY <1>1, FS_Interval
<1>3. places \in SUBSET DOMAIN rows
  BY DEF BaselinePlaces
<1>4. val \in [DOMAIN rows -> Int]
  BY <1>1 DEF ActualRow
<1>5. BaselineSum(rows, start) = SumOn(val, places)
  <2>1. [i \in places |-> rows[i].sales] = [i \in places |-> val[i]]
    BY <1>3
  <2>. QED  BY <2>1 DEF BaselineSum, SumOn
<1>. HIDE DEF val, places
<1>6. SumOn(val, places) \in Int
  BY <1>2, <1>3, <1>4, SumOnInt
<1>. QED  BY <1>2, <1>3, <1>5, <1>6, FS_Subset, FS_CardinalityType DEF places

\* Sales to speak of were made on some day.
LEMMA CoveredPlaces ==
    ASSUME NEW rows, NEW start, Covered(rows, start)
    PROVE  BaselinePlaces(rows, start) # {}
<1>. SUFFICES ASSUME BaselinePlaces(rows, start) = {} PROVE FALSE
  OBVIOUS
<1>. DEFINE f == [i \in {} |-> rows[i].sales]
<1>1. SumOn(f, {}) = 0
  BY SumOnEmpty
<1>2. [i \in {} |-> f[i]] = [i \in {} |-> rows[i].sales]
  OBVIOUS
<1>3. BaselineSum(rows, start) = 0
  BY <1>1, <1>2 DEF BaselineSum, SumOn
<1>. QED  BY <1>3 DEF Covered

\* What a move brings before its cost.
Brings(rows, start, rate, lift) ==
    Rounded(BaselineSum(rows, start) * EvaluationDays * lift * rate,
            1000 * Cardinality(BaselinePlaces(rows, start)))

\* What an action brings in is a whole number of cents, and none without a lift.
LEMMA BringsInt ==
    ASSUME NEW rows \in Seq(ActualRow), NEW start \in Int, Covered(rows, start),
           NEW rate \in Int, NEW lift \in Int
    PROVE  /\ Brings(rows, start, rate, lift) \in Int
           /\ lift = 0 => Brings(rows, start, rate, lift) = 0
<1>. DEFINE b == BaselineSum(rows, start)
            n == Cardinality(BaselinePlaces(rows, start))
            d == 1000 * n
            worth == b * EvaluationDays * lift * rate
<1>1. b \in Int /\ n \in Nat /\ EvaluationDays \in Nat
  BY BaselineInt, OutcomeAssumption
<1>2. n # 0
  BY CoveredPlaces, BaselineInt, FS_EmptySet
<1>3. d \in Nat \ {0}
  BY <1>1, <1>2
<1>. HIDE DEF b, n
<1>4. worth \in Int /\ (lift = 0 => worth = 0)
  <2>1. b * EvaluationDays \in Int
    BY <1>1
  <2>2. (b * EvaluationDays) * lift \in Int /\ (lift = 0 => (b * EvaluationDays) * lift = 0)
    BY <2>1
  <2>. DEFINE x == (b * EvaluationDays) * lift
  <2>3. x \in Int /\ (lift = 0 => x = 0) /\ worth = x * rate
    BY <2>2
  <2>. HIDE DEF x
  <2>. QED  BY <2>3
<1>5. Brings(rows, start, rate, lift) = (2 * worth + d) \div (2 * d)
  BY DEF Brings, Rounded, b, n
<1>. HIDE DEF worth, d
<1>6. (2 * worth + d) \div (2 * d) \in Int
  BY <1>3, <1>4, Quotient
<1>7. worth = 0 => (2 * worth + d) \div (2 * d) = 0
  BY <1>3
<1>. QED  BY <1>4, <1>5, <1>6, <1>7

GainsOf(rows, start, rate, cost, lifts) ==
    [a \in Comparable |-> ExpectedGain(a, rows, start, rate, cost, lifts)]

\* A gain is what the action brings less what it costs.
LEMMA GainIs ==
    ASSUME NEW rows, NEW start, NEW rate, NEW cost, NEW lifts, NEW a
    PROVE  ExpectedGain(a, rows, start, rate, cost, lifts)
             = Brings(rows, start, rate, LiftOf(a, lifts)) - 100 * CostOf(a, cost)
BY DEF ExpectedGain, Brings

\* Every action of a comparison has a gain.
LEMMA GainsInt ==
    ASSUME NEW rows \in Seq(ActualRow), NEW start \in Int, Covered(rows, start),
           NEW rate \in Int, NEW cost \in Int,
           NEW lifts, \A a \in DOMAIN lifts : lifts[a] \in Int
    PROVE  GainsOf(rows, start, rate, cost, lifts) \in [Comparable -> Int]
<1>. SUFFICES ASSUME NEW a \in Comparable
              PROVE  ExpectedGain(a, rows, start, rate, cost, lifts) \in Int
  BY DEF GainsOf
<1>1. LiftOf(a, lifts) \in Int
  BY DEF LiftOf, PriorPoint
<1>2. Brings(rows, start, rate, LiftOf(a, lifts)) \in Int
  BY <1>1, BringsInt
<1>3. CostOf(a, cost) \in Int
  BY DEF CostOf
<1>. QED  BY <1>2, <1>3, GainIs

\* A do-nothing action nobody claims a lift for gains nothing.
LEMMA RestGainsNothing ==
    ASSUME NEW rows \in Seq(ActualRow), NEW start \in Int, Covered(rows, start),
           NEW rate \in Int, NEW cost, NEW lifts, NEW a \in DoNothing \ DOMAIN lifts
    PROVE  ExpectedGain(a, rows, start, rate, cost, lifts) = 0
<1>1. LiftOf(a, lifts) = 0 /\ CostOf(a, cost) = 0
  BY DEF LiftOf, CostOf
<1>2. Brings(rows, start, rate, 0) = 0
  BY BringsInt
<1>. QED  BY <1>1, <1>2, GainIs

\* A move gains as much more as it costs less.
LEMMA CheaperGains ==
    ASSUME NEW rows \in Seq(ActualRow), NEW start \in Int, Covered(rows, start),
           NEW rate \in Int, NEW cost \in Int, NEW less \in Int,
           NEW lifts, \A a \in DOMAIN lifts : lifts[a] \in Int,
           NEW a \in Comparable
    PROVE  ExpectedGain(a, rows, start, rate, less, lifts)
             = ExpectedGain(a, rows, start, rate, cost, lifts)
                 + (IF a \in DoNothing THEN 0 ELSE 100 * (cost - less))
<1>1. LiftOf(a, lifts) \in Int
  BY DEF LiftOf, PriorPoint
<1>2. Brings(rows, start, rate, LiftOf(a, lifts)) \in Int
  BY <1>1, BringsInt
<1>. DEFINE x == Brings(rows, start, rate, LiftOf(a, lifts))
<1>3. /\ ExpectedGain(a, rows, start, rate, less, lifts) = x - 100 * CostOf(a, less)
      /\ ExpectedGain(a, rows, start, rate, cost, lifts) = x - 100 * CostOf(a, cost)
  BY GainIs
<1>4. x \in Int
  BY <1>2
<1>. HIDE DEF x
<1>. QED  BY <1>3, <1>4 DEF CostOf

\* A recommended move stays recommended when it costs less.
LEMMA CheaperIsStillBest ==
    ASSUME NEW rows \in Seq(ActualRow), NEW start \in Int, Covered(rows, start),
           NEW rate \in Int, NEW cost \in Int, NEW less \in Int, less <= cost,
           NEW lifts, \A a \in DOMAIN lifts : lifts[a] \in Int,
           Best(rows, start, rate, cost, lifts) \notin DoNothing
    PROVE  Best(rows, start, rate, less, lifts) = Best(rows, start, rate, cost, lifts)
<1>. DEFINE g == GainsOf(rows, start, rate, cost, lifts)
            h == GainsOf(rows, start, rate, less, lifts)
            b == Best(rows, start, rate, cost, lifts)
            c == Best(rows, start, rate, less, lifts)
<1>1. g \in [Comparable -> Int] /\ h \in [Comparable -> Int]
  BY GainsInt
<1>2. /\ \A a \in Comparable : ExpectedGain(a, rows, start, rate, cost, lifts) = g[a]
      /\ \A a \in Comparable : ExpectedGain(a, rows, start, rate, less, lifts) = h[a]
  BY DEF GainsOf
<1>3. b \in Comparable /\ \A a \in Comparable \ {b} : Outdoes(g, b, a)
  <2>. HIDE DEF g
  <2>. QED  BY <1>1, <1>2, BestOutdoes
<1>4. c \in Comparable /\ \A a \in Comparable \ {c} : Outdoes(h, c, a)
  <2>. HIDE DEF h
  <2>. QED  BY <1>1, <1>2, BestOutdoes
<1>5. \A a \in Comparable : h[a] = g[a] + (IF a \in DoNothing THEN 0 ELSE 100 * (cost - less))
  <2>. SUFFICES ASSUME NEW a \in Comparable
                PROVE  h[a] = g[a] + (IF a \in DoNothing THEN 0 ELSE 100 * (cost - less))
    OBVIOUS
  <2>1. ExpectedGain(a, rows, start, rate, less, lifts)
          = ExpectedGain(a, rows, start, rate, cost, lifts)
              + (IF a \in DoNothing THEN 0 ELSE 100 * (cost - less))
    BY CheaperGains
  <2>. HIDE DEF g, h
  <2>. QED  BY <1>2, <2>1
<1>6. b \notin DoNothing
  OBVIOUS
<1>. HIDE DEF g, h, b, c
<1>7. ASSUME NEW a \in Comparable \ {b} PROVE Outdoes(h, b, a)
  <2>1. /\ g[a] \in Int /\ g[b] \in Int /\ h[b] = g[b] + 100 * (cost - less)
        /\ h[a] = g[a] \/ h[a] = g[a] + 100 * (cost - less)
    BY <1>1, <1>3, <1>5, <1>6
  <2>2. Outdoes(g, b, a)
    BY <1>3
  <2>3. h[b] - h[a] >= g[b] - g[a] /\ h[a] \in Int /\ h[b] \in Int
    BY <2>1
  <2>4. h[b] > h[a] \/ (h[b] = h[a] /\ g[b] = g[a])
    BY <2>1, <2>2, <2>3 DEF Outdoes
  <2>. QED  BY <2>1, <2>2, <2>4 DEF Outdoes
<1>8. b = c
  BY <1>1, <1>3, <1>4, <1>7, OneChampion
<1>. QED  BY <1>8 DEF b, c

\* With the prior alone, the shift is what spends, and only if it gains.
LEMMA PriorsShiftOrContinue ==
    ASSUME NEW rows \in Seq(ActualRow), NEW start \in Int, Covered(rows, start),
           NEW rate \in Int, NEW cost \in Int
    PROVE  Best(rows, start, rate, cost, <<>>)
             = IF ExpectedGain("TIMING_SHIFT", rows, start, rate, cost, <<>>) > 0
               THEN "TIMING_SHIFT" ELSE "CONTINUE"
<1>. DEFINE g == GainsOf(rows, start, rate, cost, <<>>)
            b == Best(rows, start, rate, cost, <<>>)
<1>0. DOMAIN <<>> = {}
  OBVIOUS
<1>1. g \in [Comparable -> Int]
  BY <1>0, GainsInt
<1>2. \A a \in Comparable : ExpectedGain(a, rows, start, rate, cost, <<>>) = g[a]
  BY DEF GainsOf
<1>3. g["CONTINUE"] = 0 /\ g["PAUSE_INTERVENTION"] = 0
  BY <1>0, <1>2, RestGainsNothing DEF DoNothing, Comparable
<1>4. \A a \in Comparable \ DoNothing : LiftOf(a, <<>>) = PriorPoint /\ CostOf(a, cost) = cost
  BY <1>0 DEF LiftOf, CostOf
<1>5. /\ g["EXTEND_INTERVENTION"] = g["TIMING_SHIFT"] /\ g["RETARGET_SEGMENT"] = g["TIMING_SHIFT"]
  BY <1>2, <1>4, GainIs DEF Comparable, DoNothing
<1>6. b \in Comparable /\ \A a \in Comparable \ {b} : Outdoes(g, b, a)
  <2>. HIDE DEF g
  <2>. QED  BY <1>1, <1>2, BestOutdoes
<1>. HIDE DEF g
<1>7. g["TIMING_SHIFT"] \in Int
  BY <1>1 DEF Comparable
<1>8. /\ RiskRank("CONTINUE") = 0 /\ RiskRank("PAUSE_INTERVENTION") = 0
      /\ RiskRank("TIMING_SHIFT") = 0
      /\ RiskRank("EXTEND_INTERVENTION") = 1 /\ RiskRank("RETARGET_SEGMENT") = 1
      /\ Alphabetical("CONTINUE") = 0 /\ Alphabetical("PAUSE_INTERVENTION") = 2
      /\ Alphabetical("TIMING_SHIFT") = 4
  BY DEF RiskRank, RiskOf, Alphabetical
<1>. DEFINE best == IF g["TIMING_SHIFT"] > 0 THEN "TIMING_SHIFT" ELSE "CONTINUE"
<1>9. best \in Comparable /\ \A a \in Comparable \ {best} : Outdoes(g, best, a)
  BY <1>3, <1>5, <1>7, <1>8 DEF Comparable, DoNothing, Outdoes
<1>10. b = best
  <2>. HIDE DEF b, best
  <2>. QED  BY <1>1, <1>6, <1>9, OneChampion
<1>11. ExpectedGain("TIMING_SHIFT", rows, start, rate, cost, <<>>) = g["TIMING_SHIFT"]
  BY <1>2 DEF Comparable
<1>. QED  BY <1>10, <1>11

Asked == inquiry.phase \notin {"idle", "refused"}

Phases == {"idle", "refused", "asked", "unavailable", "margin", "project", "failed",
           "insufficient", "projected"}
Inquiry == [phase : Phases, kind : {"none", "simulate", "compare"}, start : Int, cost : Int,
            rate : Int \cup {Missing}, lifts : KnownLifts \cup {<<>>}]

\* What an inquiry carries from its question to its answer.
SimulatorInv ==
    /\ SimulatorTypeOK
    /\ inquiry \in Inquiry
    /\ actuals \in Seq(ActualRow)
    /\ Asked /\ inquiry.kind = "compare" /\ inquiry.rate # Missing => inquiry.rate \in 1 .. 100
    /\ inquiry.kind = "compare" /\ inquiry.phase \in {"project", "projected"} => margin # Missing
    /\ inquiry.phase = "margin" => inquiry.kind = "compare"
    /\ Asked => inquiry.kind # "none"
    /\ Compared =>
          /\ Covered(actuals, inquiry.start)
          /\ advice = Best(actuals, inquiry.start, margin, inquiry.cost, inquiry.lifts)

\* The feedback a store may have is a table of sales rows.
LEMMA FeedbackRows == Feedbacks \subseteq Seq(ActualRow) /\ <<>> \in Seq(ActualRow)
<1>1. Feedbacks \subseteq Seq(ActualRow)
  BY SimulatorAssumption DEF ActualRow
<1>2. <<>> \in Seq(ActualRow)
  OBVIOUS
<1>. QED  BY <1>1, <1>2

\* A margin the code finds is between a hundredth and the whole.
LEMMA MarginInRange ==
    ASSUME NEW row \in StoreRows, MarginOf(row) # Missing
    PROVE  MarginOf(row) \in 1 .. 100
<1>1. row.sales \in Int /\ row.discount \in Int
  BY SimulatorAssumption
<1>2. ~(row.sales <= 0 \/ row.quantity <= 0)
  BY DEF MarginOf
<1>3. MarginOf(row) = Clamp(BaseMargin - Greater(Rounded(-100 * row.discount, row.sales), 0),
                            MinMargin, BaseMargin)
  BY <1>2 DEF MarginOf
<1>. DEFINE cut == Rounded(-100 * row.discount, row.sales)
<1>4. cut \in Int
  <2>1. row.sales \in Nat \ {0} /\ 2 * (-100 * row.discount) + row.sales \in Int
    BY <1>1, <1>2
  <2>. QED  BY <2>1, Quotient DEF Rounded
<1>. HIDE DEF cut
<1>. QED  BY <1>3, <1>4 DEF cut, Clamp, Greater, Lesser, BaseMargin, MinMargin

\* What a simulation keeps, step by step.
LEMMA SimulatorInitInv == SimulatorInit => SimulatorInv
<1>. SUFFICES ASSUME SimulatorInit PROVE SimulatorInv
  OBVIOUS
<1>1. inquiry \in Inquiry
  BY DEF SimulatorInit, NoInquiry, Inquiry, Phases
<1>2. inquiry.phase = "idle" /\ inquiry.kind = "none"
  BY DEF SimulatorInit, NoInquiry
<1>3. actuals \in Seq(ActualRow)
  BY FeedbackRows DEF SimulatorInit
<1>. QED  BY <1>1, <1>2, <1>3 DEF SimulatorInit, SimulatorInv, SimulatorTypeOK, Asked, Compared

LEMMA AskKeeps == SimulatorInv /\ AskSimulation => SimulatorInv'
<1>. SUFFICES ASSUME SimulatorInv, AskSimulation PROVE SimulatorInv'
  OBVIOUS
<1>1. PICK kind \in {"simulate", "compare"}, start \in StartDays, cost \in Costs,
           rate \in Rates, lifts \in KnownLifts :
        inquiry' = [phase |-> IF \/ start <= BaselineDays
                                 \/ kind = "compare" /\ cost < 0
                                 \/ kind = "compare" /\ rate # Missing /\ rate \notin 1 .. 100
                              THEN "refused" ELSE "asked",
                    kind |-> kind, start |-> start, cost |-> cost, rate |-> rate, lifts |-> lifts]
  BY DEF AskSimulation
<1>2. UNCHANGED <<actuals, margin, advice>>
  BY DEF AskSimulation
<1>3. inquiry'.phase \in {"refused", "asked"}
  BY <1>1
<1>4. /\ inquiry'.kind = kind /\ inquiry'.rate = rate
      /\ inquiry'.phase = "asked" /\ kind = "compare" /\ rate # Missing => rate \in 1 .. 100
  BY <1>1
<1>5. inquiry' \in Inquiry
  BY <1>1, SimulatorAssumption DEF Inquiry, Phases
<1>. QED  BY <1>2, <1>3, <1>4, <1>5 DEF SimulatorInv, SimulatorTypeOK, Asked, Compared

\* A step that only moves the inquiry on.
LEMMA MovedOn ==
    ASSUME NEW next \in Phases, Arrived(next), inquiry \in Inquiry
    PROVE  /\ inquiry' \in Inquiry
           /\ inquiry'.phase = next /\ inquiry'.kind = inquiry.kind
           /\ inquiry'.start = inquiry.start /\ inquiry'.cost = inquiry.cost
           /\ inquiry'.rate = inquiry.rate /\ inquiry'.lifts = inquiry.lifts
BY DEF Arrived, Inquiry

LEMMA FetchKeeps == SimulatorInv /\ FetchActuals => SimulatorInv'
<1>. SUFFICES ASSUME SimulatorInv, FetchActuals PROVE SimulatorInv'
  OBVIOUS
<1>0. inquiry.phase = "asked" /\ inquiry \in Inquiry /\ UNCHANGED <<margin, advice>>
  BY DEF FetchActuals, SimulatorInv
<1>1. CASE Arrived("unavailable") /\ UNCHANGED actuals
  <2>1. /\ inquiry' \in Inquiry /\ inquiry'.phase = "unavailable"
        /\ inquiry'.kind = inquiry.kind /\ inquiry'.rate = inquiry.rate
    BY <1>0, <1>1, MovedOn DEF Phases
  <2>. QED  BY <1>0, <1>1, <2>1 DEF SimulatorInv, SimulatorTypeOK, Asked, Compared
<1>2. CASE ~(Arrived("unavailable") /\ UNCHANGED actuals)
  <2>1. PICK rows \in Feedbacks :
           actuals' = rows /\ Arrived(IF inquiry.kind = "compare" THEN "margin" ELSE "project")
    BY <1>2 DEF FetchActuals
  <2>2. /\ inquiry' \in Inquiry /\ inquiry'.phase = IF inquiry.kind = "compare" THEN "margin" ELSE "project"
        /\ inquiry'.kind = inquiry.kind /\ inquiry'.rate = inquiry.rate
    BY <1>0, <2>1, MovedOn DEF Phases
  <2>3. actuals' \in Seq(ActualRow)
    BY <2>1, FeedbackRows
  <2>. QED  BY <1>0, <2>2, <2>3 DEF SimulatorInv, SimulatorTypeOK, Asked, Compared
<1>. QED  BY <1>1, <1>2

LEMMA FindMarginKeeps == SimulatorInv /\ FindMargin => SimulatorInv'
<1>. SUFFICES ASSUME SimulatorInv, FindMargin PROVE SimulatorInv'
  OBVIOUS
<1>0. /\ inquiry.phase = "margin" /\ inquiry \in Inquiry /\ UNCHANGED <<actuals, advice>>
      /\ inquiry.kind = "compare"
  BY DEF FindMargin, SimulatorInv
<1>1. /\ inquiry' \in Inquiry /\ inquiry'.phase = "project"
      /\ inquiry'.kind = inquiry.kind /\ inquiry'.rate = inquiry.rate
  BY <1>0, MovedOn DEF FindMargin, Phases
<1>2. margin' \in 1 .. 100
  <2>1. CASE inquiry.rate # Missing
    BY <1>0, <2>1 DEF FindMargin, SimulatorInv, Asked
  <2>2. CASE inquiry.rate = Missing
    <3>1. \/ margin' = DefaultMargin
          \/ \E row \in StoreRows :
                margin' = IF MarginOf(row) = Missing THEN DefaultMargin ELSE MarginOf(row)
      BY <2>2 DEF FindMargin
    <3>2. DefaultMargin \in 1 .. 100
      BY DEF DefaultMargin
    <3>. QED  BY <3>1, <3>2, MarginInRange
  <2>. QED  BY <2>1, <2>2
<1>3. margin' # Missing
  BY <1>2, MissingAssumption
<1>. QED  BY <1>0, <1>1, <1>2, <1>3 DEF SimulatorInv, SimulatorTypeOK, Asked, Compared

\* A comparison's inputs are numbers.
LEMMA ComparedOver ==
    ASSUME SimulatorInv, inquiry.kind = "compare", inquiry.phase \in {"project", "projected"}
    PROVE  /\ actuals \in Seq(ActualRow) /\ inquiry.start \in Int /\ inquiry.cost \in Int
           /\ margin \in Int /\ \A a \in DOMAIN inquiry.lifts : inquiry.lifts[a] \in Int
<1>1. inquiry.lifts \in KnownLifts \cup {<<>>} /\ inquiry.start \in Int /\ inquiry.cost \in Int
  BY DEF SimulatorInv, Inquiry
<1>0. DOMAIN <<>> = {}
  OBVIOUS
<1>2. \A a \in DOMAIN inquiry.lifts : inquiry.lifts[a] \in Int
  BY <1>0, <1>1, SimulatorAssumption
<1>3. margin # Missing /\ (margin = Missing \/ margin \in 1 .. 100)
  BY DEF SimulatorInv, SimulatorTypeOK
<1>4. actuals \in Seq(ActualRow)
  BY DEF SimulatorInv
<1>5. margin \in Int
  BY <1>3
<1>6. inquiry.start \in Int /\ inquiry.cost \in Int
  BY <1>1
<1>. HIDE DEF ActualRow
<1>. QED  BY ONLY <1>2, <1>4, <1>5, <1>6

LEMMA ProjectKeeps == SimulatorInv /\ Project => SimulatorInv'
<1>. SUFFICES ASSUME SimulatorInv, Project PROVE SimulatorInv'
  OBVIOUS
<1>0. inquiry.phase = "project" /\ inquiry \in Inquiry /\ UNCHANGED <<actuals, margin>>
  BY DEF Project, SimulatorInv
<1>1. ASSUME NEW next \in {"failed", "insufficient"}, Arrived(next), UNCHANGED advice
      PROVE  SimulatorInv'
  <2>1. /\ inquiry' \in Inquiry /\ inquiry'.phase = next
        /\ inquiry'.kind = inquiry.kind /\ inquiry'.rate = inquiry.rate
    BY <1>0, <1>1, MovedOn DEF Phases
  <2>. QED  BY <1>0, <1>1, <2>1 DEF SimulatorInv, SimulatorTypeOK, Asked, Compared
<1>2. CASE \/ \E i \in DOMAIN actuals : actuals[i].day = Missing
           \/ ~Covered(actuals, inquiry.start)
  BY <1>1, <1>2 DEF Project
<1>3. CASE /\ ~\E i \in DOMAIN actuals : actuals[i].day = Missing
           /\ Covered(actuals, inquiry.start)
  <2>1. /\ Arrived("projected")
        /\ advice' = IF inquiry.kind = "simulate" THEN ProjectedState(PriorPoint)
                     ELSE Best(actuals, inquiry.start, margin, inquiry.cost, inquiry.lifts)
    BY <1>3 DEF Project
  <2>2. /\ inquiry' \in Inquiry /\ inquiry'.phase = "projected"
        /\ inquiry'.kind = inquiry.kind /\ inquiry'.rate = inquiry.rate
        /\ inquiry'.start = inquiry.start /\ inquiry'.cost = inquiry.cost
        /\ inquiry'.lifts = inquiry.lifts
    BY <1>0, <2>1, MovedOn DEF Phases
  <2>3. inquiry.kind = "compare" => /\ advice' \in Comparable
                                    /\ Covered(actuals', inquiry'.start)
                                    /\ advice' = Best(actuals', inquiry'.start, margin',
                                                      inquiry'.cost, inquiry'.lifts)
    <3>. SUFFICES ASSUME inquiry.kind = "compare"
                  PROVE  /\ advice' \in Comparable
                         /\ Covered(actuals', inquiry'.start)
                         /\ advice' = Best(actuals', inquiry'.start, margin',
                                           inquiry'.cost, inquiry'.lifts)
      OBVIOUS
    <3>. DEFINE g == GainsOf(actuals, inquiry.start, margin, inquiry.cost, inquiry.lifts)
    <3>1. g \in [Comparable -> Int]
      BY <1>0, <1>3, ComparedOver, GainsInt
    <3>2. \A a \in Comparable :
             ExpectedGain(a, actuals, inquiry.start, margin, inquiry.cost, inquiry.lifts) = g[a]
      BY DEF GainsOf
    <3>. HIDE DEF g
    <3>3. Best(actuals, inquiry.start, margin, inquiry.cost, inquiry.lifts) \in Comparable
      BY <3>1, <3>2, BestOutdoes
    <3>. QED  BY <1>0, <1>3, <2>1, <2>2, <3>3
  <2>4. /\ Compared' => inquiry.kind = "compare"
        /\ (Asked /\ inquiry.kind = "compare" /\ inquiry.rate # Missing => inquiry.rate \in 1 .. 100)'
        /\ (inquiry.kind = "compare" /\ inquiry.phase \in {"project", "projected"} => margin # Missing)'
        /\ (inquiry.phase = "margin" => inquiry.kind = "compare")'
        /\ (Asked => inquiry.kind # "none")'
    BY <1>0, <2>2 DEF SimulatorInv, Compared, Asked
  <2>5. SimulatorTypeOK'
    <3>1. inquiry.kind = "none" \/ inquiry.kind = "simulate" \/ inquiry.kind = "compare"
      BY <1>0 DEF Inquiry
    <3>2. CASE inquiry.kind = "simulate"
      <4>1. advice' \in {"REFUTED", "REVIEW_ZONE", "CONFIRMED", "UNAVAILABLE"}
        BY <2>1, <3>2 DEF ProjectedState, CausalState
      <4>. QED  BY <1>0, <2>2, <4>1 DEF SimulatorInv, SimulatorTypeOK
    <3>3. CASE inquiry.kind = "compare"
      BY <1>0, <2>2, <2>3, <3>3 DEF SimulatorInv, SimulatorTypeOK
    <3>4. CASE inquiry.kind = "none"
      BY <1>0, <3>4 DEF SimulatorInv, Asked
    <3>. QED  BY <3>1, <3>2, <3>3, <3>4
  <2>. QED  BY <1>0, <2>2, <2>3, <2>4, <2>5 DEF SimulatorInv, Compared
<1>. QED  BY <1>2, <1>3

LEMMA SimulatorInvariance == SimulatorSpec => []SimulatorInv
<1>1. SimulatorInv /\ [SimulatorNext]_simulation => SimulatorInv'
  <2>. SUFFICES ASSUME SimulatorInv, [SimulatorNext]_simulation PROVE SimulatorInv'
    OBVIOUS
  <2>1. CASE UNCHANGED simulation
    BY <2>1 DEF simulation, SimulatorInv, SimulatorTypeOK, Asked, Compared
  <2>. QED  BY <2>1, AskKeeps, FetchKeeps, FindMarginKeeps, ProjectKeeps DEF SimulatorNext
<1>. QED  BY <1>1, SimulatorInitInv, PTL DEF SimulatorSpec

\* The three promises about a comparison, from what it keeps.
LEMMA SoundAdvice == SimulatorInv => AdviceIsSound
<1>. SUFFICES ASSUME SimulatorInv, Compared PROVE AdviceIsSound
  BY DEF AdviceIsSound, ShiftOrContinue, LossIsNeverAdvised, CheaperStaysWorthIt
<1>1. /\ inquiry.kind = "compare" /\ inquiry.phase \in {"project", "projected"}
      /\ Covered(actuals, inquiry.start)
      /\ advice = Best(actuals, inquiry.start, margin, inquiry.cost, inquiry.lifts)
  BY DEF Compared, SimulatorInv
<1>2. /\ actuals \in Seq(ActualRow) /\ inquiry.start \in Int /\ inquiry.cost \in Int
      /\ margin \in Int /\ \A a \in DOMAIN inquiry.lifts : inquiry.lifts[a] \in Int
  BY <1>1, ComparedOver
<1>3. ShiftOrContinue
  BY <1>1, <1>2, PriorsShiftOrContinue DEF ShiftOrContinue, GainAt
<1>4. LossIsNeverAdvised
  <2>. SUFFICES ASSUME ~(DoNothing \subseteq DOMAIN inquiry.lifts)
                PROVE  GainAt(advice, inquiry.cost) >= 0
    BY DEF LossIsNeverAdvised
  <2>. DEFINE g == GainsOf(actuals, inquiry.start, margin, inquiry.cost, inquiry.lifts)
  <2>1. PICK a \in DoNothing : a \notin DOMAIN inquiry.lifts
    OBVIOUS
  <2>2. g \in [Comparable -> Int]
    BY <1>1, <1>2, GainsInt
  <2>3. \A x \in Comparable :
           ExpectedGain(x, actuals, inquiry.start, margin, inquiry.cost, inquiry.lifts) = g[x]
    BY DEF GainsOf
  <2>4. a \in Comparable /\ g[a] = 0
    BY <1>1, <1>2, <2>1, <2>3, RestGainsNothing DEF Comparable
  <2>. HIDE DEF g
  <2>5. advice \in Comparable /\ \A x \in Comparable \ {advice} : Outdoes(g, advice, x)
    BY <1>1, <2>2, <2>3, BestOutdoes
  <2>6. g[advice] >= g[a]
    BY <2>2, <2>4, <2>5 DEF Outdoes
  <2>. QED  BY <2>3, <2>4, <2>5, <2>6 DEF GainAt
<1>5. CheaperStaysWorthIt
  <2>. SUFFICES ASSUME advice \notin DoNothing, NEW cost \in Costs, cost <= inquiry.cost
                PROVE  Best(actuals, inquiry.start, margin, cost, inquiry.lifts) = advice
    BY DEF CheaperStaysWorthIt
  <2>1. cost \in Int
    BY SimulatorAssumption
  <2>. QED  BY <1>1, <1>2, <2>1, CheaperIsStillBest
<1>. QED  BY <1>3, <1>4, <1>5 DEF AdviceIsSound

-----------------------------------------------------------------------------
\* A comparison never recommends a loss, spends on a timing shift and nothing else while
\* the prior is all that is known, and goes on recommending what it does when it costs
\* less: whatever the sales, the margins, the costs and the lifts.
THEOREM AdviceStaysSound == SimulatorSpec => []AdviceIsSound
BY SimulatorInvariance, SoundAdvice, PTL

\* An inquiry is answered by one of the words it can be answered with, at a margin
\* between a hundredth and the whole.
THEOREM SimulatorTypeCorrect == SimulatorSpec => []SimulatorTypeOK
<1>1. SimulatorInv => SimulatorTypeOK
  BY DEF SimulatorInv
<1>. QED  BY <1>1, SimulatorInvariance, PTL

-----------------------------------------------------------------------------
(* The portfolio: a unit every number of days divides.                     *)

\* g multiplies the elements of the sets of ss.
Products(g, ss) ==
    g = [s \in ss |-> IF s = {} THEN 1 ELSE Pick(s) * g[s \ {Pick(s)}]]

\* A product of positive numbers is one, over any finite set.
LEMMA ProductsExist ==
    ASSUME NEW S, IsFiniteSet(S), S \subseteq Nat \ {0}
    PROVE  \E g \in [SUBSET S -> Nat] : Products(g, SUBSET S)
<1>. DEFINE Level(n) == {s \in SUBSET S : Cardinality(s) <= n}
            Good == {n \in Nat : \E g \in [Level(n) -> Nat] : Products(g, Level(n))}
<1>0. \A s \in SUBSET S : IsFiniteSet(s) /\ Cardinality(s) \in Nat /\ Cardinality(s) <= Cardinality(S)
  BY FS_Subset, FS_CardinalityType
<1>00. \A s \in SUBSET S : s # {} =>
          /\ Pick(s) \in s /\ Pick(s) \in S /\ s \ {Pick(s)} \in SUBSET S
          /\ Cardinality(s \ {Pick(s)}) = Cardinality(s) - 1
  BY <1>0, FS_RemoveElement DEF Pick
<1>1. 0 \in Good
  <2>. DEFINE g == [s \in Level(0) |-> 1]
  <2>1. \A s \in Level(0) : s = {}
    BY <1>0, FS_EmptySet
  <2>2. g \in [Level(0) -> Nat]
    OBVIOUS
  <2>3. Products(g, Level(0))
    BY <2>1 DEF Products
  <2>. QED  BY <2>2, <2>3
<1>2. ASSUME NEW n \in Nat, n \in Good
      PROVE  n + 1 \in Good
  <2>1. PICK h \in [Level(n) -> Nat] : Products(h, Level(n))
    BY <1>2
  <2>. DEFINE g == [s \in Level(n + 1) |-> IF s = {} THEN 1 ELSE Pick(s) * h[s \ {Pick(s)}]]
  <2>2. \A s \in Level(n + 1) : s # {} => s \ {Pick(s)} \in Level(n) /\ s \ {Pick(s)} \in Level(n + 1)
    BY <1>0, <1>00
  <2>3. g \in [Level(n + 1) -> Nat]
    <3>1. \A s \in Level(n + 1) : s # {} => Pick(s) \in Nat /\ h[s \ {Pick(s)}] \in Nat
      BY <1>00, <2>1, <2>2
    <3>2. \A a, b \in Nat : a * b \in Nat
      OBVIOUS
    <3>3. \A s \in Level(n + 1) : s # {} => Pick(s) * h[s \ {Pick(s)}] \in Nat
      BY <3>1, <3>2
    <3>. QED  BY <3>3
  <2>4. \A s \in Level(n) : g[s] = h[s]
    <3>1. \A s \in Level(n) : s \in Level(n + 1)
      BY <1>0
    <3>2. \A s \in Level(n) : h[s] = IF s = {} THEN 1 ELSE Pick(s) * h[s \ {Pick(s)}]
      BY <2>1 DEF Products
    <3>. QED  BY <3>1, <3>2
  <2>5. \A s \in Level(n + 1) : g[s] = IF s = {} THEN 1 ELSE Pick(s) * g[s \ {Pick(s)}]
    BY <2>2, <2>4
  <2>6. Products(g, Level(n + 1))
    BY <2>5 DEF Products
  <2>. HIDE DEF g, Level
  <2>7. \E f \in [Level(n + 1) -> Nat] : Products(f, Level(n + 1))
    BY <2>3, <2>6
  <2>. QED  BY <2>7
<1>3. Cardinality(S) \in Good
  <2>. HIDE DEF Good
  <2>1. Nat \subseteq Good
    BY <1>1, <1>2, NatInduct
  <2>. QED  BY <1>0, <2>1
<1>4. Level(Cardinality(S)) = SUBSET S
  BY <1>0
<1>5. \E g \in [Level(Cardinality(S)) -> Nat] : Products(g, Level(Cardinality(S)))
  BY <1>3
<1>. HIDE DEF Level, Good
<1>. QED  BY <1>4, <1>5

\* There is one such function.
LEMMA ProductsAgree ==
    ASSUME NEW S, IsFiniteSet(S), NEW g, Products(g, SUBSET S), NEW h, Products(h, SUBSET S)
    PROVE  g = h
<1>. DEFINE Agree == {n \in Nat : \A s \in SUBSET S : Cardinality(s) <= n => g[s] = h[s]}
<1>0. \A s \in SUBSET S : IsFiniteSet(s) /\ Cardinality(s) \in Nat /\ Cardinality(s) <= Cardinality(S)
  BY FS_Subset, FS_CardinalityType
<1>1. \A s \in SUBSET S : s # {} =>
          s \ {Pick(s)} \in SUBSET S /\ Cardinality(s \ {Pick(s)}) = Cardinality(s) - 1
  BY <1>0, FS_RemoveElement DEF Pick
<1>2. \A s \in SUBSET S : /\ g[s] = IF s = {} THEN 1 ELSE Pick(s) * g[s \ {Pick(s)}]
                         /\ h[s] = IF s = {} THEN 1 ELSE Pick(s) * h[s \ {Pick(s)}]
  BY DEF Products
<1>3. 0 \in Agree
  <2>1. \A s \in SUBSET S : Cardinality(s) <= 0 => s = {}
    BY <1>0, FS_EmptySet
  <2>. QED  BY <1>2, <2>1
<1>4. ASSUME NEW n \in Nat, n \in Agree PROVE n + 1 \in Agree
  <2>1. \A s \in SUBSET S : Cardinality(s) <= n + 1 /\ s # {} => g[s \ {Pick(s)}] = h[s \ {Pick(s)}]
    BY <1>0, <1>1, <1>4
  <2>2. ASSUME NEW s \in SUBSET S, Cardinality(s) <= n + 1 PROVE g[s] = h[s]
    <3>1. CASE s = {}
      BY <1>2, <3>1
    <3>2. CASE s # {}
      <4>1. g[s \ {Pick(s)}] = h[s \ {Pick(s)}]
        BY <2>1, <2>2, <3>2
      <4>. QED  BY <1>2, <3>2, <4>1
    <3>. QED  BY <3>1, <3>2
  <2>. QED  BY <2>2
<1>5. Cardinality(S) \in Agree
  <2>. HIDE DEF Agree
  <2>1. Nat \subseteq Agree
    BY <1>3, <1>4, NatInduct
  <2>. QED  BY <1>0, <2>1
<1>6. \A s \in SUBSET S : g[s] = h[s]
  BY <1>0, <1>5
<1>. QED  BY <1>6 DEF Products

\* It is positive, and every element divides it.
LEMMA ProductsDivide ==
    ASSUME NEW S, IsFiniteSet(S), S \subseteq Nat \ {0}, NEW g \in [SUBSET S -> Nat],
           Products(g, SUBSET S)
    PROVE  g[S] # 0 /\ \A d \in S : \E q \in Nat : q * d = g[S]
<1>. DEFINE Divides(s) == g[s] # 0 /\ \A d \in s : \E q \in Nat : q * d = g[s]
            Good == {n \in Nat : \A s \in SUBSET S : Cardinality(s) <= n => Divides(s)}
<1>0. \A s \in SUBSET S : IsFiniteSet(s) /\ Cardinality(s) \in Nat /\ Cardinality(s) <= Cardinality(S)
  BY FS_Subset, FS_CardinalityType
<1>1. \A s \in SUBSET S : s # {} =>
          /\ Pick(s) \in s /\ Pick(s) \in Nat \ {0} /\ s \ {Pick(s)} \in SUBSET S
          /\ Cardinality(s \ {Pick(s)}) = Cardinality(s) - 1
  BY <1>0, FS_RemoveElement DEF Pick
<1>2. \A s \in SUBSET S : g[s] \in Nat /\ g[s] = IF s = {} THEN 1 ELSE Pick(s) * g[s \ {Pick(s)}]
  BY DEF Products
<1>20. Divides({})
  <2>1. {} \in SUBSET S
    OBVIOUS
  <2>2. g[{}] = 1
    BY <1>2, <2>1
  <2>. QED  BY <2>2
<1>3. 0 \in Good
  <2>1. \A s \in SUBSET S : Cardinality(s) <= 0 => s = {}
    BY <1>0, FS_EmptySet
  <2>. HIDE DEF Divides
  <2>. QED  BY <1>20, <2>1
<1>4. ASSUME NEW n \in Nat, n \in Good PROVE n + 1 \in Good
  <2>1. ASSUME NEW s \in SUBSET S, Cardinality(s) <= n + 1 PROVE Divides(s)
    <3>1. CASE s = {}
      BY <1>20, <3>1
    <3>2. CASE s # {}
      <4>. DEFINE p == Pick(s) r == s \ {Pick(s)} m == g[r]
      <4>1. p \in s /\ p \in Nat \ {0} /\ r \in SUBSET S /\ Cardinality(r) = Cardinality(s) - 1
        BY <1>1, <3>2
      <4>2. Divides(r)
        <5>1. \A t \in SUBSET S : Cardinality(t) <= n => Divides(t)
          BY <1>4
        <5>2. Cardinality(r) <= n /\ r \in SUBSET S
          BY <1>0, <2>1, <4>1
        <5>. HIDE DEF Divides, r
        <5>. QED  BY <5>1, <5>2
      <4>3. m \in Nat \ {0} /\ g[s] = p * m
        BY <1>2, <3>2, <4>1, <4>2
      <4>4. g[s] # 0
        <5>. HIDE DEF p, m
        <5>1. p * m # 0
          BY <4>1, <4>3
        <5>. QED  BY <4>3, <5>1
      <4>5. ASSUME NEW d \in s PROVE \E q \in Nat : q * d = g[s]
        <5>1. CASE d = p
          <6>. HIDE DEF p, m
          <6>1. m * d = g[s]
            BY <4>1, <4>3, <5>1
          <6>. QED  BY <4>3, <6>1
        <5>2. CASE d # p
          <6>1. d \in r
            BY <5>2
          <6>2. PICK q \in Nat : q * d = m
            BY <4>2, <6>1
          <6>3. d \in Nat
            OBVIOUS
          <6>. HIDE DEF p, m
          <6>4. (p * q) * d = p * (q * d) /\ p * q \in Nat
            BY <4>1, <6>2, <6>3
          <6>5. (p * q) * d = g[s]
            BY <4>3, <6>2, <6>4
          <6>. QED  BY <6>4, <6>5
        <5>. QED  BY <5>1, <5>2
      <4>. HIDE DEF p, r, m
      <4>. QED  BY <4>4, <4>5
    <3>. QED  BY <3>1, <3>2
  <2>. HIDE DEF Divides
  <2>. QED  BY <2>1
<1>5. Cardinality(S) \in Good
  <2>. HIDE DEF Good
  <2>1. Nat \subseteq Good
    BY <1>3, <1>4, NatInduct
  <2>. QED  BY <1>0, <2>1
<1>6. S \in SUBSET S
  OBVIOUS
<1>. HIDE DEF Divides
<1>7. Divides(S)
  BY <1>0, <1>5, <1>6
<1>. QED  BY <1>7 DEF Divides

\* Every count of days up to the window's length divides the scale.
LEMMA ScaleDivides ==
    /\ Scale \in Nat \ {0}
    /\ \A d \in 1 .. RecentDays : Scale \div d \in Nat /\ (Scale \div d) * d = Scale
<1>. DEFINE S == 1 .. RecentDays
            it == CHOOSE iter : iter = [s \in SUBSET S |->
                     IF s = {} THEN 1
                     ELSE (CHOOSE x \in s : TRUE) * iter[s \ {CHOOSE x \in s : TRUE}]]
<1>0. RecentDays \in Nat /\ IsFiniteSet(S) /\ S \subseteq Nat \ {0}
  BY OutcomeAssumption, FS_Interval
<1>1. Scale = it[S]
  BY DEF Scale, FoldSet, MapThenFoldSet
<1>2. PICK g \in [SUBSET S -> Nat] : Products(g, SUBSET S)
  BY <1>0, ProductsExist
<1>3. g = [s \in SUBSET S |->
             IF s = {} THEN 1 ELSE (CHOOSE x \in s : TRUE) * g[s \ {CHOOSE x \in s : TRUE}]]
  BY <1>2 DEF Products, Pick
<1>4. it = [s \in SUBSET S |->
             IF s = {} THEN 1 ELSE (CHOOSE x \in s : TRUE) * it[s \ {CHOOSE x \in s : TRUE}]]
  BY <1>3
<1>. HIDE DEF it
<1>5. Products(it, SUBSET S)
  BY <1>4 DEF Products, Pick
<1>. HIDE DEF S
<1>6. it = g
  BY <1>0, <1>2, <1>5, ProductsAgree
<1>7. it[S] \in Nat /\ it[S] # 0 /\ \A d \in S : \E q \in Nat : q * d = it[S]
  <2>1. S \in SUBSET S
    OBVIOUS
  <2>2. g[S] \in Nat
    BY <1>2, <2>1
  <2>3. g[S] # 0 /\ \A d \in S : \E q \in Nat : q * d = g[S]
    BY <1>0, <1>2, ProductsDivide
  <2>. QED  BY <1>6, <2>2, <2>3
<1>8. ASSUME NEW d \in S PROVE Scale \div d \in Nat /\ (Scale \div d) * d = Scale
  <2>1. PICK q \in Nat : q * d = Scale
    BY <1>1, <1>7
  <2>2. d \in Nat \ {0} /\ Scale \in Nat
    BY <1>0, <1>1, <1>7
  <2>3. q <= Scale \div d /\ (Scale \div d) * d <= Scale /\ Scale \div d \in Int
    BY <2>1, <2>2, Quotient, QuotientIsGreatest
  <2>4. (Scale \div d) * d <= q * d
    BY <2>1, <2>3
  <2>5. Scale \div d <= q
    BY <2>2, <2>3, <2>4, TimesCancels
  <2>6. Scale \div d = q
    BY <2>3, <2>5
  <2>. QED  BY <2>1, <2>6
<1>. QED  BY <1>1, <1>7, <1>8 DEF S

-----------------------------------------------------------------------------
(* A ratio of sums lies between the ratios.                                *)

\* A multiple of a function sums to the multiple of its sum.
LEMMA SumOnTimes ==
    ASSUME NEW S, IsFiniteSet(S), NEW f \in [S -> Int], NEW c \in Int,
           NEW h \in [S -> Int], \A y \in S : h[y] = c * f[y]
    PROVE  SumOn(h, S) = c * SumOn(f, S)
<1>8. \A T \in SUBSET S : \A x \in S \ T :
          /\ SumOn(f, T) \in Int /\ SumOn(f, T \cup {x}) \in Int
          /\ SumOn(f, T \cup {x}) = f[x] + SumOn(f, T)
  BY SumOnAdds
<1>9. \A T \in SUBSET S : \A x \in S \ T :
          /\ SumOn(h, T) \in Int /\ SumOn(h, T \cup {x}) \in Int
          /\ SumOn(h, T \cup {x}) = h[x] + SumOn(h, T)
  BY SumOnAdds
<1>. DEFINE Good == {T \in SUBSET S : SumOn(h, T) = c * SumOn(f, T)}
<1>1. {} \in Good
  BY SumOnEmpty
<1>2. ASSUME NEW T \in SUBSET S, NEW x \in S \ T, T \in Good PROVE T \cup {x} \in Good
  <2>1. /\ SumOn(f, T) \in Int /\ SumOn(f, T \cup {x}) = f[x] + SumOn(f, T)
        /\ SumOn(h, T \cup {x}) = h[x] + SumOn(h, T)
    BY <1>8, <1>9
  <2>2. f[x] \in Int /\ h[x] = c * f[x] /\ SumOn(h, T) = c * SumOn(f, T)
    BY <1>2
  <2>3. c * (f[x] + SumOn(f, T)) = c * f[x] + c * SumOn(f, T)
    BY <2>1, <2>2, Distributes
  <2>4. SumOn(h, T \cup {x}) = c * SumOn(f, T \cup {x})
    BY <2>1, <2>2, <2>3
  <2>. QED  BY <2>4
<1>. HIDE DEF Good
<1>3. S \in Good
  BY <1>1, <1>2, SetInduct
<1>. QED  BY <1>3 DEF Good

\* A sum of positive numbers is positive.
LEMMA SumOnPositive ==
    ASSUME NEW S, IsFiniteSet(S), S # {}, NEW f \in [S -> Int], \A y \in S : f[y] > 0
    PROVE  SumOn(f, S) > 0
<1>1. SumOn(f, S) \in Int
  BY SumOnInt
<1>2. PICK y \in S : TRUE
  OBVIOUS
<1>3. f[y] \in Int /\ f[y] > 0 /\ \A z \in S : f[z] >= 0
  OBVIOUS
<1>. SUFFICES ASSUME SumOn(f, S) <= 0 PROVE FALSE
  BY <1>1
<1>4. \A z \in S : f[z] = 0
  BY <1>3, SumOnZero
<1>. QED  BY <1>3, <1>4

\* c is the ratio of a to b, in thousandths rounded down.
IsLift(c, a, b) == c * b <= 1000 * (a - b) /\ 1000 * (a - b) < (c + 1) * b

\* The quotient the code computes is the one IsLift names.
LEMMA LiftIs ==
    ASSUME NEW a \in Int, NEW b \in Nat \ {0}
    PROVE  ((a - b) * 1000) \div b \in Int /\ IsLift(((a - b) * 1000) \div b, a, b)
<1>. DEFINE n == (a - b) * 1000
            c == n \div b
<1>1. n \in Int /\ n = 1000 * (a - b)
  OBVIOUS
<1>. HIDE DEF n
<1>2. c \in Int /\ c * b <= n /\ n < c * b + b
  BY <1>1, Quotient
<1>. HIDE DEF c
<1>3. (c + 1) * b = c * b + b
  BY <1>2
<1>. QED  BY <1>1, <1>2, <1>3 DEF IsLift, c, n

\* The lift of the sums lies between the lifts of the parts.
LEMMA Mediant ==
    ASSUME NEW S, IsFiniteSet(S), S # {}, NEW f \in [S -> Int], NEW h \in [S -> Int],
           \A y \in S : h[y] > 0,
           NEW c \in [S -> Int], \A y \in S : IsLift(c[y], f[y], h[y]),
           NEW u \in Int, IsLift(u, SumOn(f, S), SumOn(h, S))
    PROVE  (\E y \in S : c[y] <= u) /\ (\E y \in S : u <= c[y])
<1>. DEFINE F == SumOn(f, S)
            H == SumOn(h, S)
            kf == [y \in S |-> 1000 * f[y]]
<1>1. F \in Int /\ H \in Int
  BY SumOnInt
<1>2. kf \in [S -> Int] /\ \A y \in S : kf[y] = 1000 * f[y] /\ f[y] \in Int /\ h[y] \in Int /\ c[y] \in Int
  OBVIOUS
<1>. HIDE DEF kf
<1>3. SumOn(kf, S) = 1000 * F
  BY <1>2, SumOnTimes
<1>. HIDE DEF F, H
<1>4. u * H <= 1000 * (F - H) /\ 1000 * (F - H) < (u + 1) * H
  BY DEF IsLift, F, H
<1>5. \A y \in S : c[y] * h[y] <= 1000 * (f[y] - h[y]) /\ 1000 * (f[y] - h[y]) < (c[y] + 1) * h[y]
  BY DEF IsLift
<1>6. \E y \in S : c[y] <= u
  <2>. SUFFICES ASSUME \A y \in S : c[y] >= u + 1 PROVE FALSE
    BY <1>2
  <2>. DEFINE w == u + 1001
              wh == [y \in S |-> w * h[y]]
  <2>1. w \in Int /\ wh \in [S -> Int] /\ \A y \in S : wh[y] = w * h[y]
    BY <1>2
  <2>. HIDE DEF wh
  <2>2. SumOn(wh, S) = w * H
    BY <2>1, SumOnTimes DEF H
  <2>3. ASSUME NEW y \in S PROVE wh[y] <= kf[y]
    <3>. DEFINE a == f[y] b == h[y] r == c[y]
    <3>1. a \in Int /\ b \in Nat /\ r \in Int /\ r >= u + 1 /\ r * b <= 1000 * (a - b)
      BY <1>2, <1>5
    <3>2. wh[y] = w * b /\ kf[y] = 1000 * a
      BY <1>2, <2>1
    <3>. HIDE DEF a, b, r
    <3>3. (u + 1) * b <= r * b
      BY <3>1, TimesGrows
    <3>4. (u + 1001) * b = (u + 1) * b + 1000 * b
      BY <3>1
    <3>5. 1000 * (a - b) = 1000 * a - 1000 * b
      BY <3>1
    <3>. DEFINE ub == (u + 1) * b rb == r * b
    <3>6. ub \in Int /\ rb \in Int
      BY <3>1
    <3>. HIDE DEF ub, rb
    <3>. QED  BY <3>1, <3>2, <3>3, <3>4, <3>5, <3>6 DEF ub, rb
  <2>4. SumOn(wh, S) <= SumOn(kf, S)
    BY <1>2, <2>1, <2>3, SumOnMono
  <2>5. w * H = (u + 1) * H + 1000 * H
    BY <1>1
  <2>. DEFINE uH == (u + 1) * H
  <2>6. uH \in Int
    BY <1>1
  <2>7. 1000 * (F - H) = 1000 * F - 1000 * H
    BY <1>1
  <2>. HIDE DEF uH, w
  <2>8. uH + 1000 * H <= 1000 * F /\ 1000 * F - 1000 * H < uH
    BY <1>3, <1>4, <2>2, <2>4, <2>5, <2>7 DEF uH
  <2>. QED  BY <1>1, <2>6, <2>8
<1>7. \E y \in S : u <= c[y]
  <2>. SUFFICES ASSUME \A y \in S : c[y] + 1 <= u PROVE FALSE
    BY <1>2
  <2>. DEFINE w == u + 1000
              wh == [y \in S |-> w * h[y]]
  <2>1. w \in Int /\ wh \in [S -> Int] /\ \A y \in S : wh[y] = w * h[y]
    BY <1>2
  <2>. HIDE DEF wh
  <2>2. SumOn(wh, S) = w * H
    BY <2>1, SumOnTimes DEF H
  <2>3. ASSUME NEW y \in S PROVE kf[y] <= wh[y] - 1
    <3>. DEFINE a == f[y] b == h[y] r == c[y]
    <3>1. a \in Int /\ b \in Nat /\ r \in Int /\ r + 1 <= u /\ 1000 * (a - b) < (r + 1) * b
      BY <1>2, <1>5
    <3>2. wh[y] = w * b /\ kf[y] = 1000 * a
      BY <1>2, <2>1
    <3>. HIDE DEF a, b, r
    <3>3. (r + 1) * b <= u * b
      BY <3>1, TimesGrows
    <3>4. (u + 1000) * b = u * b + 1000 * b
      BY <3>1
    <3>5. 1000 * (a - b) = 1000 * a - 1000 * b
      BY <3>1
    <3>. DEFINE ub == u * b rb == (r + 1) * b
    <3>6. ub \in Int /\ rb \in Int
      BY <3>1
    <3>. HIDE DEF ub, rb
    <3>. QED  BY <3>1, <3>2, <3>3, <3>4, <3>5, <3>6 DEF ub, rb
  <2>4. SumOn(kf, S) <= SumOn(wh, S) - 1
    <3>1. PICK y \in S : TRUE
      OBVIOUS
    <3>2. \A z \in S : kf[z] \in Int /\ wh[z] \in Int /\ kf[z] <= wh[z] - 1
      BY <1>2, <2>1, <2>3
    <3>3. \A z \in S : kf[z] <= wh[z]
      BY <3>2
    <3>4. PICK d \in Int : d = 1
      OBVIOUS
    <3>5. kf[y] <= wh[y] - d
      BY <3>1, <3>2, <3>4
    <3>6. SumOn(kf, S) <= SumOn(wh, S) - d
      BY <1>2, <2>1, <3>1, <3>3, <3>5, SumOnShift
    <3>. QED  BY <3>4, <3>6
  <2>5. w * H = u * H + 1000 * H
    BY <1>1
  <2>. DEFINE uH == u * H
  <2>6. uH \in Int
    BY <1>1
  <2>7. 1000 * (F - H) = 1000 * F - 1000 * H
    BY <1>1
  <2>. HIDE DEF uH, w
  <2>8. 1000 * F <= uH + 1000 * H - 1 /\ uH <= 1000 * F - 1000 * H
    <3>1. u * H <= 1000 * (F - H)
      BY <1>4
    <3>2. 1000 * F <= w * H - 1
      BY <1>3, <2>2, <2>4
    <3>. QED  BY <1>1, <2>5, <2>6, <2>7, <3>1, <3>2 DEF uH
  <2>. QED  BY <1>1, <2>6, <2>8
<1>. QED  BY <1>6, <1>7

\* A ratio does not change with the unit both are measured in.
LEMMA LiftScales ==
    ASSUME NEW c \in Int, NEW a \in Int, NEW b \in Nat, NEW k \in Nat \ {0}, IsLift(c, a, b)
    PROVE  IsLift(c, k * a, k * b)
<1>1. c * b <= 1000 * (a - b) /\ 1000 * (a - b) < (c + 1) * b
  BY DEF IsLift
<1>. DEFINE x == c * b
            y == 1000 * (a - b)
            z == (c + 1) * b
<1>2. x \in Int /\ y \in Int /\ z \in Int /\ x <= y /\ y < z
  BY <1>1
<1>3. c * (k * b) = k * x /\ 1000 * (k * a - k * b) = k * y /\ (c + 1) * (k * b) = k * z
  OBVIOUS
<1>. HIDE DEF x, y, z
<1>4. k * x <= k * y
  BY <1>2, TimesGrows
<1>5. k * y < k * z
  <2>1. k * (y + 1) <= k * z
    BY <1>2, TimesGrows
  <2>2. k * (y + 1) = k * y + k
    BY <1>2, Distributes
  <2>3. k * y \in Int /\ k * z \in Int
    BY <1>2
  <2>. QED  BY <2>1, <2>2, <2>3
<1>. QED  BY <1>3, <1>4, <1>5 DEF IsLift

-----------------------------------------------------------------------------
(* The ledger: sums over its transactions, and eligibility.                *)

LedgerOK == ledger \in Seq(Transaction)

SalesAt == [i \in DOMAIN ledger |-> ledger[i].sales]

\* What the rows of a ledger are.
LEMMA LedgerElements ==
    ASSUME LedgerOK
    PROVE  /\ IsFiniteSet(DOMAIN ledger)
           /\ \A i \in DOMAIN ledger : /\ ledger[i].store \in Int \cup {Missing}
                                       /\ ledger[i].day \in Int \cup {Missing}
                                       /\ ledger[i].sales \in Int
           /\ SalesAt \in [DOMAIN ledger -> Int]
<1>1. DOMAIN ledger = 1 .. Len(ledger) /\ Len(ledger) \in Nat
      /\ \A i \in DOMAIN ledger : ledger[i] \in Transaction
  BY DEF LedgerOK
<1>2. IsFiniteSet(DOMAIN ledger)
  BY <1>1, FS_Interval
<1>3. \A i \in DOMAIN ledger : /\ ledger[i].store \in Int \cup {Missing}
                               /\ ledger[i].day \in Int \cup {Missing}
                               /\ ledger[i].sales \in Int
  BY <1>1 DEF Transaction
<1>. QED  BY <1>2, <1>3 DEF SalesAt

\* A sum over a set is the sum over a part of it and over the rest.
LEMMA SumOnSplits ==
    ASSUME NEW S, IsFiniteSet(S), NEW f \in [S -> Int], NEW Q \in SUBSET S
    PROVE  SumOn(f, S) = SumOn(f, Q) + SumOn(f, S \ Q)
<1>1. ASSUME NEW T \in SUBSET S, NEW x \in S \ T
      PROVE  /\ SumOn(f, T) \in Int /\ SumOn(f, T \cup {x}) \in Int
             /\ SumOn(f, T \cup {x}) = f[x] + SumOn(f, T)
  BY SumOnAdd
<1>2. SumOn(f, Q) \in Int
  BY SumOnInt
<1>. DEFINE rest == S \ Q
            Good == {T \in SUBSET rest : SumOn(f, Q \cup T) = SumOn(f, Q) + SumOn(f, T)}
<1>3. {} \in Good
  <2>1. Q \cup {} = Q /\ SumOn(f, {}) = 0
    BY SumOnEmpty
  <2>. QED  BY <1>2, <2>1
<1>4. ASSUME NEW T \in SUBSET rest, NEW x \in rest \ T, T \in Good PROVE T \cup {x} \in Good
  <2>1. /\ SumOn(f, T) \in Int /\ SumOn(f, T \cup {x}) = f[x] + SumOn(f, T)
    BY <1>1
  <2>2. /\ Q \cup T \in SUBSET S /\ x \in S \ (Q \cup T)
        /\ Q \cup (T \cup {x}) = (Q \cup T) \cup {x}
    OBVIOUS
  <2>3. SumOn(f, Q \cup (T \cup {x})) = f[x] + SumOn(f, Q \cup T)
    BY <1>1, <2>2
  <2>4. SumOn(f, Q \cup T) = SumOn(f, Q) + SumOn(f, T) /\ f[x] \in Int
    BY <1>4
  <2>5. SumOn(f, Q \cup (T \cup {x})) = SumOn(f, Q) + SumOn(f, T \cup {x})
    BY <1>2, <2>1, <2>3, <2>4
  <2>. QED  BY <2>5
<1>5. IsFiniteSet(rest) /\ Q \cup rest = S
  BY FS_Subset
<1>. HIDE DEF Good, rest
<1>6. rest \in Good
  BY <1>3, <1>4, <1>5, SetInduct
<1>. QED  BY <1>5, <1>6 DEF Good, rest

\* Transactions sell what a part of them and the rest of them sell.
LEMMA SumAtSplits ==
    ASSUME LedgerOK
    PROVE  \A P \in SUBSET DOMAIN ledger :
              /\ SumAt(P) \in Int
              /\ \A Q \in SUBSET P : SumAt(P) = SumAt(Q) + SumAt(P \ Q)
<1>1. IsFiniteSet(DOMAIN ledger) /\ SalesAt \in [DOMAIN ledger -> Int]
  BY LedgerElements
<1>2. ASSUME NEW P \in SUBSET DOMAIN ledger PROVE SumAt(P) = SumOn(SalesAt, P)
  <2>1. [i \in P |-> ledger[i].sales] = [i \in P |-> SalesAt[i]]
    BY DEF SalesAt
  <2>. QED  BY <2>1 DEF SumAt, SumOn
<1>3. ASSUME NEW P \in SUBSET DOMAIN ledger, NEW Q \in SUBSET P
      PROVE  SumOn(SalesAt, P) = SumOn(SalesAt, Q) + SumOn(SalesAt, P \ Q)
  <2>. DEFINE f == [i \in P |-> SalesAt[i]]
  <2>1. f \in [P -> Int] /\ IsFiniteSet(P)
    BY <1>1, FS_Subset
  <2>2. \A R \in SUBSET P : SumOn(f, R) = SumOn(SalesAt, R)
    <3>. SUFFICES ASSUME NEW R \in SUBSET P PROVE SumOn(f, R) = SumOn(SalesAt, R)
      OBVIOUS
    <3>1. [i \in R |-> f[i]] = [i \in R |-> SalesAt[i]]
      OBVIOUS
    <3>. QED  BY <3>1 DEF SumOn
  <2>. HIDE DEF f
  <2>3. SumOn(f, P) = SumOn(f, Q) + SumOn(f, P \ Q)
    BY <2>1, SumOnSplits
  <2>. QED  BY <2>2, <2>3
<1>4. ASSUME NEW P \in SUBSET DOMAIN ledger PROVE SumAt(P) \in Int
  BY <1>1, <1>2, SumOnInt
<1>5. ASSUME NEW P \in SUBSET DOMAIN ledger, NEW Q \in SUBSET P
      PROVE  SumAt(P) = SumAt(Q) + SumAt(P \ Q)
  <2>1. Q \in SUBSET DOMAIN ledger /\ P \ Q \in SUBSET DOMAIN ledger
    OBVIOUS
  <2>. QED  BY <1>2, <1>3, <2>1
<1>. QED  BY <1>4, <1>5

\* Every selection of transactions is one from the ledger.
LEMMA PlacesInLedger ==
    \A s : /\ Places(s) \subseteq DOMAIN ledger /\ Dated(s) \subseteq DOMAIN ledger
           /\ InCampaign(s) \subseteq DOMAIN ledger
           /\ \A households : Exposed(s, households) \subseteq InCampaign(s)
BY DEF Places, Dated, InCampaign, Exposed

\* Mailing to more households keeps a store eligible, unless they returned more than
\* they bought.
LEMMA EligibilityGrows ==
    ASSUME LedgerOK, NEW s, NEW more, NEW fewer \in SUBSET more, fewer # {}, Eligible(s, fewer),
           ~(SumAt(Exposed(s, more \ fewer)) < 0)
    PROVE  Eligible(s, more)
<1>. DEFINE few == Exposed(s, fewer)
            many == Exposed(s, more)
            all == InCampaign(s)
<1>1. few \subseteq many /\ many \subseteq all /\ all \subseteq DOMAIN ledger
  <2>1. many \subseteq all /\ all \subseteq DOMAIN ledger
    BY PlacesInLedger
  <2>2. few \subseteq many
    BY DEF Exposed
  <2>. QED  BY <2>1, <2>2
<1>2. CASE Places(s) = {}
  BY <1>2 DEF Eligible
<1>3. CASE Places(s) # {} /\ SumAt(all) > 0 /\ 2 * SumAt(few) >= SumAt(all)
  <2>1. /\ SumAt(few) \in Int /\ SumAt(many) \in Int /\ SumAt(all) \in Int
        /\ SumAt(many \ few) \in Int /\ SumAt(many) = SumAt(few) + SumAt(many \ few)
    <3>1. /\ few \in SUBSET DOMAIN ledger /\ many \in SUBSET DOMAIN ledger
          /\ all \in SUBSET DOMAIN ledger /\ many \ few \in SUBSET DOMAIN ledger
          /\ few \in SUBSET many
      BY <1>1
    <3>. HIDE DEF few, many, all
    <3>. QED  BY <3>1, SumAtSplits
  <2>4. many \ few = Exposed(s, more \ fewer)
    <3>1. \A i : i \in many \ few <=> i \in Exposed(s, more \ fewer)
      BY DEF Exposed
    <3>. QED  BY <3>1
  <2>. HIDE DEF few, many, all
  <2>2. 2 * SumAt(many) >= SumAt(all)
    <3>. DEFINE a == SumAt(few) b == SumAt(many) c == SumAt(many \ few) d == SumAt(all)
    <3>1. ~(c < 0)
      BY <2>4
    <3>2. a \in Int /\ b \in Int /\ c \in Int /\ d \in Int /\ b = a + c /\ 2 * a >= d
      BY <1>3, <2>1
    <3>. HIDE DEF a, b, c, d
    <3>3. 2 * b >= d
      BY <3>1, <3>2
    <3>. QED  BY <3>3 DEF b, d
  <2>3. CampaignEnd >= 0
    BY <1>3 DEF Eligible
  <2>. QED  BY <1>3, <2>2, <2>3 DEF Eligible, many, all
<1>4. CASE Places(s) # {} /\ Cardinality({ledger[i].household : i \in few}) >= MinHouseholds
  <2>. DEFINE of == [i \in DOMAIN ledger |-> ledger[i].household]
              F == {ledger[i].household : i \in few}
              M == {ledger[i].household : i \in many}
  <2>1. IsFiniteSet(many)
    BY <1>1, LedgerElements, FS_Subset
  <2>2. M = {of[i] : i \in many} /\ F \subseteq M
    BY <1>1
  <2>. HIDE DEF of, few, many, F, M
  <2>3. IsFiniteSet(M)
    BY <2>1, <2>2, FiniteImage
  <2>4. Cardinality(F) <= Cardinality(M) /\ Cardinality(M) \in Nat /\ Cardinality(F) \in Nat
    BY <2>2, <2>3, FS_Subset, FS_CardinalityType
  <2>5. Cardinality(M) >= MinHouseholds
    <3>1. MinHouseholds \in Nat
      BY PortfolioAssumption
    <3>. QED  BY <1>4, <2>4, <3>1 DEF F
  <2>6. CampaignEnd >= 0
    BY <1>4 DEF Eligible
  <2>. QED  BY <1>4, <2>5, <2>6 DEF Eligible, M, many
<1>. QED  BY <1>2, <1>3, <1>4 DEF Eligible

-----------------------------------------------------------------------------
(* A store's days.                                                         *)

\* Daily sales are observations, one for each day that has any.
LEMMA DaysObserved ==
    ASSUME LedgerOK, NEW s
    PROVE  /\ IsFiniteSet(DailySales(s)) /\ DailySales(s) \subseteq Observation
           /\ \A a, b \in DailySales(s) : a.at = b.at => a = b
           /\ \A o \in DailySales(s) : \E day \in Int : o.at = day * DayLength
<1>. DEFINE Total(day) == SumAt({i \in Dated(s) : ledger[i].day = day})
            days == {ledger[i].day : i \in Dated(s)}
            dayOf == [i \in DOMAIN ledger |-> ledger[i].day]
            seen == [day \in days |-> [at |-> day * DayLength, value |-> Total(day)]]
<1>0. DayLength \in Nat \ {0}
  BY OutcomeAssumption
<1>1. Dated(s) \subseteq DOMAIN ledger
  BY PlacesInLedger
<1>2. days \subseteq Int
  BY <1>1, LedgerElements DEF Dated
<1>3. IsFiniteSet(days)
  <2>1. days = {dayOf[i] : i \in Dated(s)}
    BY <1>1
  <2>2. IsFiniteSet(Dated(s))
    BY <1>1, LedgerElements, FS_Subset
  <2>. HIDE DEF dayOf, days
  <2>. QED  BY <2>1, <2>2, FiniteImage
<1>4. \A day \in days : Total(day) \in Int
  <2>1. \A day : {i \in Dated(s) : ledger[i].day = day} \in SUBSET DOMAIN ledger
    BY <1>1
  <2>. QED  BY <2>1, SumAtSplits
<1>5. DailySales(s) = {seen[day] : day \in days}
  BY DEF DailySales
<1>6. \A day \in days : /\ seen[day].at = day * DayLength /\ seen[day].value = Total(day)
                        /\ seen[day] \in Observation
  <2>. SUFFICES ASSUME NEW day \in days
                PROVE  /\ seen[day].at = day * DayLength /\ seen[day].value = Total(day)
                       /\ seen[day] \in Observation
    OBVIOUS
  <2>1. day \in Int /\ Total(day) \in Int
    <3>. HIDE DEF Total, days
    <3>1. Total(day) \in Int
      BY <1>4
    <3>. QED  BY <1>2, <3>1
  <2>2. day * DayLength \in Int
    BY <1>0, <2>1
  <2>3. seen[day] = [at |-> day * DayLength, value |-> Total(day)]
    OBVIOUS
  <2>. HIDE DEF seen, Total, days
  <2>. QED  BY <2>1, <2>2, <2>3 DEF Observation
<1>. HIDE DEF seen, Total, days
<1>7. IsFiniteSet(DailySales(s))
  BY <1>3, <1>5, FiniteImage
<1>8. ASSUME NEW a \in DailySales(s), NEW b \in DailySales(s), a.at = b.at PROVE a = b
  <2>1. PICK d \in days : a = seen[d]
    BY <1>5
  <2>2. PICK e \in days : b = seen[e]
    BY <1>5
  <2>3. d * DayLength = e * DayLength /\ d \in Int /\ e \in Int
    BY <1>2, <1>6, <1>8, <2>1, <2>2
  <2>4. d <= e /\ e <= d
    <3>1. d * DayLength \in Int /\ e * DayLength \in Int
      BY <1>0, <2>3
    <3>2. d * DayLength <= e * DayLength /\ e * DayLength <= d * DayLength
      BY <2>3, <3>1
    <3>. QED  BY <1>0, <2>3, <3>2, TimesCancels
  <2>5. d = e
    BY <2>3, <2>4
  <2>. QED  BY <2>1, <2>2, <2>5
<1>9. \A o \in DailySales(s) : /\ o \in Observation
                               /\ \E day \in Int : o.at = day * DayLength
  BY <1>2, <1>4, <1>5, <1>6
<1>. QED  BY <1>7, <1>8, <1>9

\* No more days fall in the recent window than it is long.
LEMMA SoldDays ==
    ASSUME LedgerOK, NEW s
    PROVE  /\ IsFiniteSet(Sold(s)) /\ Cardinality(Sold(s)) \in 0 .. RecentDays
           /\ SalesOf(Sold(s)) \in Int
<1>0. /\ DayLength \in Nat \ {0} /\ RecentDays \in Nat /\ EvaluationDays \in Nat
  BY OutcomeAssumption
<1>1. /\ IsFiniteSet(DailySales(s)) /\ DailySales(s) \subseteq Observation
      /\ \A a, b \in DailySales(s) : a.at = b.at => a = b
      /\ \A o \in DailySales(s) : \E day \in Int : o.at = day * DayLength
  BY DaysObserved
<1>2. Sold(s) \subseteq DailySales(s)
  BY DEF Sold, RecentWindow
<1>3. IsFiniteSet(Sold(s)) /\ Cardinality(Sold(s)) \in Nat
  BY <1>1, <1>2, FS_Subset, FS_CardinalityType
<1>4. Cardinality(Sold(s)) <= RecentDays
  <2>. DEFINE first == EvaluationDays - RecentDays
              last == EvaluationDays - 1
              slots == first .. last
              at == [day \in slots |-> CHOOSE o \in Sold(s) : o.at = day * DayLength]
  <2>1. first \in Int /\ last \in Int /\ last - first + 1 = RecentDays
    BY <1>0
  <2>2. IsFiniteSet(slots) /\ Cardinality(slots) <= RecentDays
    <3>. HIDE DEF first, last
    <3>1. IsFiniteSet(first .. last)
          /\ Cardinality(first .. last) = IF first > last THEN 0 ELSE last - first + 1
      BY <2>1, FS_Interval
    <3>. QED  BY <1>0, <2>1, <3>1
  <2>3. ASSUME NEW o \in Sold(s) PROVE o \in {at[day] : day \in slots}
    <3>1. PICK day \in Int : o.at = day * DayLength
      BY <1>1, <1>2
    <3>2. RecentFrom(0) <= o.at /\ o.at < DueAt(0)
      BY DEF Sold, RecentWindow
    <3>3. DueAt(0) = EvaluationDays * DayLength /\ RecentFrom(0) = first * DayLength
      BY <1>0 DEF DueAt, RecentFrom
    <3>4. first <= day
      <4>. HIDE DEF first
      <4>. QED  BY <1>0, <2>1, <3>1, <3>2, <3>3, TimesCancels
    <3>5. day <= last
      <4>. SUFFICES ASSUME EvaluationDays <= day PROVE FALSE
        BY <1>0
      <4>1. EvaluationDays * DayLength <= day * DayLength
        BY <1>0, TimesGrows
      <4>2. EvaluationDays * DayLength \in Int /\ day * DayLength \in Int
        BY <1>0
      <4>. QED  BY <3>1, <3>2, <3>3, <4>1, <4>2
    <3>6. day \in slots
      BY <2>1, <3>4, <3>5
    <3>. HIDE DEF slots
    <3>7. at[day] = CHOOSE p \in Sold(s) : p.at = day * DayLength
      BY <3>6
    <3>. HIDE DEF at
    <3>8. at[day] \in Sold(s) /\ at[day].at = o.at
      BY <3>1, <3>7
    <3>9. at[day] = o
      BY <1>1, <1>2, <3>8
    <3>. QED  BY <3>6, <3>9
  <2>. HIDE DEF slots, at
  <2>4. /\ IsFiniteSet({at[day] : day \in slots})
        /\ Cardinality({at[day] : day \in slots}) <= Cardinality(slots)
    BY <2>2, ValuesFinite
  <2>5. /\ Cardinality(Sold(s)) <= Cardinality({at[day] : day \in slots})
        /\ Cardinality({at[day] : day \in slots}) \in Nat /\ Cardinality(slots) \in Nat
    BY <2>2, <2>3, <2>4, FS_Subset, FS_CardinalityType
  <2>. QED  BY <1>0, <1>3, <2>2, <2>4, <2>5
<1>5. SalesOf(Sold(s)) \in Int
  BY <1>1, <1>2, <1>3, SalesInt
<1>. QED  BY <1>0, <1>3, <1>4, <1>5

-----------------------------------------------------------------------------
(* A store's outcome, and the chain made up for it.                        *)

Decided == {"SUFFICIENT", "PARTIAL", "INSUFFICIENT", "INVALID"}

\* Daily totals do not contradict each other, and are evaluated when they are due.
LEMMA OutcomeDecided ==
    ASSUME LedgerOK, NEW s
    PROVE  OutcomeOf(DailySales(s), 0, DueAt(0)).state \in Decided
<1>1. \A a, b \in DailySales(s) : a.at = b.at => a = b
  BY DaysObserved
<1>2. ~Contradicts(BaselineWindow(DailySales(s), 0)) /\ ~Contradicts(RecentWindow(DailySales(s), 0))
  BY <1>1 DEF Contradicts, BaselineWindow, RecentWindow
<1>3. ~(DueAt(0) < DueAt(0))
  <2>1. DueAt(0) \in Int
    BY OutcomeAssumption DEF DueAt
  <2>. QED  BY <2>1
<1>4. EvidenceState(DailySales(s), 0, DueAt(0)) \in Decided
  BY <1>2, <1>3 DEF EvidenceState, Decided
<1>. QED  BY <1>4 DEF OutcomeOf

\* The made-up chain says nothing of its own.
LEMMA JoinIsState ==
    ASSUME NEW s, NEW outcome
    PROVE  JoinOf(s, outcome) = outcome.state
<1>. DEFINE rec == [id |-> "rec", key |-> s, generated |-> 0, campaign |-> "18",
                    timing |-> "12-18"]
            approval == [id |-> "approval", rec |-> "rec", approved |-> TRUE, decided |-> 0]
            run == [id |-> "run", approval |-> "approval", rec |-> "rec", state |-> "COMPLETED",
                    started |-> 0, campaign |-> "18", timing |-> "12-18", key |-> s]
            said == [run |-> "run", key |-> s, campaign |-> "18", timing |-> "12-18", started |-> 0,
                     state |-> outcome.state]
            weekly == Checkpoints(0, DueAt(0), EvaluationDays \div WeekDays, <<>>)
            labels == {rec.campaign, run.campaign, said.campaign}
            windows == {rec.timing, run.timing, said.timing}
<1>0. /\ DayLength \in Nat \ {0} /\ RecentDays \in Nat /\ EvaluationDays \in Nat
      /\ WeekDays \in Nat \ {0} /\ RecentDays <= EvaluationDays
  BY OutcomeAssumption
<1>1. JoinOf(s, outcome) = JoinState(rec, approval, run, weekly, said)
  BY DEF JoinOf
<1>2. Referenced(rec, approval, run, said)
  BY MissingAssumption DEF Referenced, EvaluableStates
<1>3. said.state = outcome.state
  OBVIOUS
<1>4. labels = {"18"} /\ windows = {"12-18"} /\ rec.key = run.key /\ run.key = said.key
  OBVIOUS
<1>5. JoinConflicts(rec, run, said) = {}
  <2>1. (\E x : Campaigns(labels) \subseteq {x}) /\ (\E x : Timings(windows) \subseteq {x})
    BY <1>4 DEF Campaigns, Timings
  <2>2. ASSUME NEW told, NEW x, told \subseteq {x} PROVE ~(Cardinality(told) > 1)
    <3>. DEFINE one == {x}
    <3>1. IsFiniteSet(one) /\ Cardinality(one) = 1
      BY FS_Singleton
    <3>2. told \subseteq one
      BY <2>2
    <3>. HIDE DEF one
    <3>3. Cardinality(told) <= Cardinality(one) /\ Cardinality(told) \in Nat
      BY <3>1, <3>2, FS_Subset, FS_CardinalityType
    <3>. QED  BY <3>1, <3>3
  <2>3. ~(Cardinality(Campaigns(labels)) > 1) /\ ~(Cardinality(Timings(windows)) > 1)
    BY <2>1, <2>2
  <2>. QED  BY <1>4, <2>3 DEF JoinConflicts
<1>6. \A i \in DOMAIN weekly :
         /\ weekly[i].due \in Nat /\ weekly[i].observed = Missing
         /\ weekly[i].key = Missing /\ weekly[i].campaign = Missing /\ weekly[i].timing = Missing
         /\ weekly[i].status \in {"DUE", "MISSED"}
  <2>1. DOMAIN weekly = 1 .. (EvaluationDays \div WeekDays)
        /\ \A i \in DOMAIN weekly :
              weekly[i] = WeeklyCheckpoint(0 + WeekDays * DayLength * i, DueAt(0), <<>>)
    BY DEF Checkpoints
  <2>2. \A i \in DOMAIN weekly : i \in Nat
    <3>1. EvaluationDays \div WeekDays \in Int
      BY <1>0, Quotient
    <3>. QED  BY <2>1, <3>1
  <2>3. \A i \in Nat : 0 + WeekDays * DayLength * i \in Nat
    <3>1. \A a, b, c \in Nat : 0 + a * b * c \in Nat
      OBVIOUS
    <3>. QED  BY <1>0, <3>1
  <2>4. \A due : WeeklyCheckpoint(due, DueAt(0), <<>>)
                   = Unlabelled(due, Awaited(due, DueAt(0)))
    <3>1. DOMAIN <<>> = {}
      OBVIOUS
    <3>. QED  BY <3>1 DEF WeeklyCheckpoint
  <2>5. \A due : Awaited(due, DueAt(0)) \in {"DUE", "MISSED"}
    BY DEF Awaited
  <2>. HIDE DEF weekly
  <2>. SUFFICES ASSUME NEW i \in DOMAIN weekly
                PROVE  /\ weekly[i].due \in Nat /\ weekly[i].observed = Missing
                       /\ weekly[i].key = Missing /\ weekly[i].campaign = Missing
                       /\ weekly[i].timing = Missing
                       /\ weekly[i].status \in {"DUE", "MISSED"}
    OBVIOUS
  <2>. DEFINE due == 0 + WeekDays * DayLength * i
  <2>6. due \in Nat
    BY <2>2, <2>3
  <2>7. weekly[i] = WeeklyCheckpoint(due, DueAt(0), <<>>)
    BY <2>1
  <2>. HIDE DEF due
  <2>8. weekly[i] = Unlabelled(due, Awaited(due, DueAt(0)))
    BY <2>4, <2>7
  <2>. QED  BY <2>5, <2>6, <2>8 DEF Unlabelled
<1>. HIDE DEF weekly
<1>7. InOrder(rec, approval, run, weekly, said)
  <2>1. DueAt(0) >= 0 /\ RecentFrom(0) >= 0
    <3>1. DueAt(0) = EvaluationDays * DayLength
          /\ RecentFrom(0) = EvaluationDays * DayLength - RecentDays * DayLength
      BY <1>0 DEF DueAt, RecentFrom
    <3>2. EvaluationDays * DayLength \in Nat /\ RecentDays * DayLength \in Nat
      BY <1>0
    <3>3. RecentDays * DayLength <= EvaluationDays * DayLength
      BY <1>0, TimesGrows
    <3>. QED  BY <3>1, <3>2, <3>3
  <2>2. \A i \in DOMAIN weekly : weekly[i].due >= 0
    BY <1>6
  <2>. QED  BY <1>6, <2>1, <2>2 DEF InOrder
<1>8. \A i \in DOMAIN weekly : CheckpointState(weekly[i], rec, run, said) = "SUFFICIENT"
  <2>1. \A i \in DOMAIN weekly : CheckpointConflicts(weekly[i], rec, run, said) = {}
    BY <1>6 DEF CheckpointConflicts
  <2>. QED  BY <1>6, <2>1 DEF CheckpointState, CheckpointStatuses
<1>. HIDE DEF rec, approval, run, said
<1>9. JoinState(rec, approval, run, weekly, said) = said.state
  <2>1. {i \in DOMAIN weekly : CheckpointState(weekly[i], rec, run, said) # "SUFFICIENT"} = {}
    BY <1>8
  <2>. QED  BY <1>2, <1>5, <1>7, <2>1 DEF JoinState
<1>. QED  BY <1>1, <1>3, <1>9

-----------------------------------------------------------------------------
(* The portfolio's invariant: each result is the store's, out of the       *)
(* request's ledger.                                                       *)

StoreResults ==
    {StoreResult(s, reference, status) :
        s \in Int, reference \in References \cup {Missing},
        status \in {"AVAILABLE", "NO_DATA", "ERROR"}}

PortfolioInv ==
    /\ progress \in {"asked", "table", "stores", "reported", "turned_away"}
    /\ asked \in Seq(Int) /\ LedgerOK
    /\ results \in Seq(StoreResults) /\ Len(results) <= Len(asked)
    /\ \A i \in DOMAIN results : results[i].store = asked[i]

\* What a report keeps, step by step.
LEMMA PortfolioInitInv == PortfolioInit => PortfolioInv
<1>. SUFFICES ASSUME PortfolioInit PROVE PortfolioInv
  OBVIOUS
<1>1. asked \in Seq(Int) /\ ledger \in Seq(Transaction)
  BY PortfolioAssumption DEF PortfolioInit
<1>2. results = <<>> /\ Len(results) = 0 /\ DOMAIN results = {} /\ results \in Seq(StoreResults)
  BY DEF PortfolioInit
<1>3. Len(asked) \in Nat
  BY <1>1
<1>4. Len(results) <= Len(asked)
  BY <1>2, <1>3
<1>. QED  BY <1>1, <1>2, <1>4 DEF PortfolioInit, PortfolioInv, LedgerOK

\* What a forecast service answers.
LEMMA AnswersAre ==
    \A s : \A told \in ForecastAnswers(s) :
        /\ told.reference \in References \cup {Missing}
        /\ told.status \in {"AVAILABLE", "NO_DATA", "ERROR"}
<1>. SUFFICES ASSUME NEW s, NEW told \in ForecastAnswers(s)
              PROVE  /\ told.reference \in References \cup {Missing}
                     /\ told.status \in {"AVAILABLE", "NO_DATA", "ERROR"}
  OBVIOUS
<1>. DEFINE none == [status |-> "NO_DATA", reference |-> Missing]
            failed == [status |-> "ERROR", reference |-> Missing]
            means == {[status |-> "AVAILABLE", reference |-> r] : r \in References}
            Looked(table) == IF s \in table THEN means \cup {failed} ELSE {none}
            tables == IF known = Missing THEN StoreTables ELSE {known}
            all == UNION {Looked(table) : table \in tables}
            rest == IF known = Missing THEN {failed} ELSE {}
<1>1. told \in IF ~auto THEN {none} ELSE all \cup rest
  <2>1. ForecastAnswers(s) = IF ~auto THEN {none} ELSE all \cup rest
    BY Zenon DEF ForecastAnswers
  <2>. QED  BY <2>1
<1>2. all \subseteq means \cup {failed, none}
  <2>1. \A table : Looked(table) \subseteq means \cup {failed, none}
    OBVIOUS
  <2>. HIDE DEF none, failed, means, Looked, tables
  <2>. QED  BY <2>1
<1>3. rest \subseteq {failed}
  OBVIOUS
<1>4. told \in means \cup {failed, none}
  <2>. HIDE DEF none, failed, means, Looked, tables, all, rest
  <2>. QED  BY <1>1, <1>2, <1>3
<1>. QED  BY <1>4

\* The request does not change, and with it what a store's result is.
LEMMA SameRequest ==
    ASSUME ledger' = ledger, mailed' = mailed
    PROVE  StoreResults' = StoreResults
BY DEF StoreResults, StoreResult, Eligible, DailySales, Sold, Places, Dated, InCampaign, Exposed, SumAt

LEMMA EvaluateKeeps == PortfolioInv /\ EvaluateStore => PortfolioInv'
<1>. SUFFICES ASSUME PortfolioInv, EvaluateStore PROVE PortfolioInv'
  OBVIOUS
<1>1. /\ progress' = progress /\ asked' = asked /\ ledger' = ledger /\ mailed' = mailed
      /\ Len(results) < Len(asked)
  BY DEF EvaluateStore
<1>2. PICK told \in ForecastAnswers(NextStore) :
         results' = Append(results, StoreResult(NextStore, told.reference, told.status))
  BY DEF EvaluateStore
<1>. DEFINE n == Len(results)
            new == StoreResult(NextStore, told.reference, told.status)
<1>3. n \in Nat /\ n < Len(asked) /\ Len(asked) \in Nat /\ DOMAIN asked = 1 .. Len(asked)
      /\ DOMAIN results = 1 .. n /\ asked \in Seq(Int) /\ results \in Seq(StoreResults)
  BY <1>1 DEF PortfolioInv
<1>4. NextStore = asked[n + 1] /\ NextStore \in Int
  BY <1>3 DEF NextStore
<1>5. new \in StoreResults /\ new.store = NextStore
  <2>1. told.reference \in References \cup {Missing}
        /\ told.status \in {"AVAILABLE", "NO_DATA", "ERROR"}
    BY AnswersAre
  <2>2. new \in StoreResults
    BY <1>4, <2>1 DEF StoreResults
  <2>3. new.store = NextStore
    BY DEF StoreResult
  <2>. QED  BY <2>2, <2>3
<1>. HIDE DEF new
<1>6. /\ results' \in Seq(StoreResults) /\ Len(results') = n + 1 /\ DOMAIN results' = 1 .. n + 1
      /\ results'[n + 1] = new /\ \A i \in 1 .. n : results'[i] = results[i]
  <2>. DEFINE R == StoreResults
  <2>1. results' = Append(results, new) /\ results \in Seq(R) /\ new \in R
    BY <1>2, <1>3, <1>5 DEF new
  <2>. HIDE DEF R
  <2>2. results' \in Seq(R) /\ Len(results') = n + 1
    BY <2>1
  <2>3. DOMAIN results' = 1 .. n + 1
    BY <2>2
  <2>4. results'[n + 1] = new /\ \A i \in 1 .. n : results'[i] = results[i]
    BY <2>1
  <2>. QED  BY <2>2, <2>3, <2>4 DEF R
<1>7. StoreResults' = StoreResults
  BY <1>1, SameRequest
<1>8. \A i \in DOMAIN results' : results'[i].store = asked'[i]
  <2>1. \A i \in 1 .. n : results[i].store = asked[i]
    BY <1>3 DEF PortfolioInv
  <2>2. \A i \in 1 .. n + 1 : i \in 1 .. n \/ i = n + 1
    BY <1>3
  <2>. QED  BY <1>1, <1>4, <1>5, <1>6, <2>1, <2>2
<1>9. Len(results') <= Len(asked')
  BY <1>1, <1>3, <1>6
<1>10. results' \in Seq(StoreResults')
  BY <1>6, <1>7
<1>11. progress' \in {"asked", "table", "stores", "reported", "turned_away"} /\ asked' \in Seq(Int)
       /\ LedgerOK'
  BY <1>1 DEF PortfolioInv, LedgerOK
<1>. QED  BY <1>8, <1>9, <1>10, <1>11 DEF PortfolioInv

\* A step that adds no result.
LEMMA OtherStepsKeep ==
    ASSUME PortfolioInv,
           progress' \in {"asked", "table", "stores", "reported", "turned_away"},
           UNCHANGED <<asked, ledger, mailed, results>>
    PROVE  PortfolioInv'
<1>1. StoreResults' = StoreResults
  BY SameRequest
<1>. QED  BY <1>1 DEF PortfolioInv, LedgerOK

LEMMA PortfolioInvariance == PortfolioSpec => []PortfolioInv
<1>1. ASSUME PortfolioInv, [PortfolioNext]_portfolio PROVE PortfolioInv'
  <2>. USE <1>1
  <2>1. CASE AdmitPortfolio
    BY <2>1, OtherStepsKeep DEF AdmitPortfolio
  <2>2. CASE FetchStoreTable
    BY <2>2, OtherStepsKeep DEF FetchStoreTable
  <2>3. CASE EvaluateStore
    BY <2>3, EvaluateKeeps
  <2>4. CASE Report
    BY <2>4, OtherStepsKeep DEF Report
  <2>5. CASE UNCHANGED portfolio
    <3>1. progress' \in {"asked", "table", "stores", "reported", "turned_away"}
      BY <2>5 DEF portfolio, PortfolioInv
    <3>. QED  BY <2>5, <3>1, OtherStepsKeep DEF portfolio
  <2>. QED  BY <2>1, <2>2, <2>3, <2>4, <2>5 DEF PortfolioNext
<1>. QED  BY <1>1, PortfolioInitInv, PTL DEF PortfolioSpec

\* What a result says.
LEMMA ResultsAre ==
    ASSUME PortfolioInv, NEW i \in DOMAIN results
    PROVE  LET r == results[i]
           IN /\ i \in Nat
              /\ r.store = asked[i] /\ r.status \in {"AVAILABLE", "NO_DATA", "ERROR"}
              /\ r.eligible = Eligible(r.store, mailed)
              /\ r.reference \in Int \cup {Missing}
              /\ r.outcome.state \in Decided /\ r.join = r.outcome.state
              /\ r.sold \in Int /\ r.days \in 0 .. RecentDays
<1>1. DOMAIN results = 1 .. Len(results) /\ Len(results) \in Nat
      /\ results[i] \in StoreResults /\ results[i].store = asked[i] /\ LedgerOK
  BY DEF PortfolioInv
<1>2. PICK s \in Int, reference \in References \cup {Missing},
           status \in {"AVAILABLE", "NO_DATA", "ERROR"} :
               results[i] = StoreResult(s, reference, status)
  <2>. DEFINE r == results[i]
  <2>1. r \in StoreResults
    BY <1>1
  <2>. HIDE DEF r
  <2>3. \A x : x \in StoreResults => \E s \in Int, reference \in References \cup {Missing},
           status \in {"AVAILABLE", "NO_DATA", "ERROR"} : x = StoreResult(s, reference, status)
    BY DEF StoreResults
  <2>2. \E s \in Int, reference \in References \cup {Missing},
           status \in {"AVAILABLE", "NO_DATA", "ERROR"} : r = StoreResult(s, reference, status)
    BY <2>1, <2>3
  <2>. QED  BY <2>2 DEF r
<1>. DEFINE r == results[i]
            outcome == OutcomeOf(DailySales(s), 0, DueAt(0))
<1>3. /\ r.store = s /\ r.status = status /\ r.eligible = Eligible(s, mailed)
      /\ r.reference = reference /\ r.outcome = outcome /\ r.join = JoinOf(s, outcome)
      /\ r.sold = SalesOf(Sold(s)) /\ r.days = Cardinality(Sold(s))
  BY <1>2 DEF StoreResult
<1>. HIDE DEF outcome, r
<1>4. outcome.state \in Decided /\ JoinOf(s, outcome) = outcome.state
  BY <1>1, OutcomeDecided, JoinIsState DEF outcome
<1>5. SalesOf(Sold(s)) \in Int /\ Cardinality(Sold(s)) \in 0 .. RecentDays
  BY <1>1, SoldDays
<1>6. References \subseteq Int
  BY PortfolioAssumption
<1>7. i \in Nat /\ r.store = asked[i]
  BY <1>1 DEF r
<1>. QED  BY <1>3, <1>4, <1>5, <1>6, <1>7 DEF r

-----------------------------------------------------------------------------
(* The report adds up.                                                     *)

SellingFunction == [i \in Selling |-> Extrapolated(results[i])]
ReferredFunction == [i \in Referred |-> Predicted(results[i])]
SoldFunction == [i \in Selling |-> results[i].sold * Scale]

\* The pooled totals are sums over the stores that sold and those with a reference.
LEMMA PooledAre ==
    ASSUME PortfolioInv
    PROVE  /\ IsFiniteSet(Selling) /\ IsFiniteSet(Referred)
           /\ PooledActual = SumOn(SellingFunction, Selling)
           /\ PooledForecast = SumOn(ReferredFunction, Referred)
           /\ SumFunction(SoldFunction) = SumOn(SoldFunction, Selling)
<1>1. DOMAIN results = 1 .. Len(results) /\ Len(results) \in Nat
  BY DEF PortfolioInv
<1>2. IsFiniteSet(DOMAIN results)
  BY <1>1, FS_Interval
<1>3. IsFiniteSet(Selling) /\ IsFiniteSet(Referred)
  BY <1>2, FS_Subset DEF Selling, Referred
<1>4. SellingFunction = [i \in Selling |-> SellingFunction[i]]
      /\ ReferredFunction = [i \in Referred |-> ReferredFunction[i]]
      /\ SoldFunction = [i \in Selling |-> SoldFunction[i]]
  BY DEF SellingFunction, ReferredFunction, SoldFunction
<1>5. PooledActual = SumFunction(SellingFunction) /\ PooledForecast = SumFunction(ReferredFunction)
  BY DEF PooledActual, PooledForecast, SellingFunction, ReferredFunction
<1>. QED  BY <1>3, <1>4, <1>5 DEF SumOn

\* A store that sold on some of its days: what one of them stands for.
LEMMA SellingStore ==
    ASSUME PortfolioInv, NEW i \in Selling
    PROVE  LET r == results[i]
               unit == Scale \div r.days
           IN /\ r.sold \in Int /\ r.days \in Nat \ {0} /\ r.days <= RecentDays
              /\ r.reference \in Int \cup {Missing}
              /\ RecentDays \in Nat \ {0} /\ unit \in Nat \ {0} /\ unit * r.days = Scale
              /\ Scale \in Nat \ {0}
<1>. DEFINE r == results[i]
            unit == Scale \div r.days
<1>1. i \in DOMAIN results /\ r.days > 0
  BY DEF Selling
<1>2. r.sold \in Int /\ r.days \in 0 .. RecentDays /\ r.reference \in Int \cup {Missing}
  BY <1>1, ResultsAre
<1>3. RecentDays \in Nat
  BY OutcomeAssumption
<1>. HIDE DEF r
<1>4. r.days \in Nat \ {0} /\ r.days <= RecentDays /\ RecentDays \in Nat \ {0}
      /\ r.days \in 1 .. RecentDays
  BY <1>1, <1>2, <1>3
<1>5. Scale \in Nat \ {0} /\ unit \in Nat /\ unit * r.days = Scale
  BY <1>4, ScaleDivides
<1>6. unit # 0
  <2>. HIDE DEF unit
  <2>. SUFFICES ASSUME unit = 0 PROVE FALSE
    OBVIOUS
  <2>1. 0 * r.days = 0
    BY <1>4
  <2>. QED  BY <1>5, <2>1
<1>. QED  BY <1>2, <1>4, <1>5, <1>6 DEF r, unit

\* A store's own lift, over the pool's units.
LEMMA StoreLift ==
    ASSUME PortfolioInv, NEW i \in Selling, results[i].reference \in Int, results[i].reference > 0
    PROVE  LET r == results[i]
           IN /\ CounterfactualOf(r) \in Int /\ Extrapolated(r) \in Int
              /\ Predicted(r) \in Int /\ Predicted(r) > 0
              /\ IsLift(CounterfactualOf(r), Extrapolated(r), Predicted(r))
<1>. DEFINE sold == results[i].sold
            n == results[i].days
            ref == results[i].reference
            unit == Scale \div n
            k == RecentDays * unit
            c == ((sold - ref * n) * 1000) \div (ref * n)
<1>1. /\ sold \in Int /\ n \in Nat \ {0} /\ ref \in Nat \ {0} /\ RecentDays \in Nat \ {0}
      /\ unit \in Nat \ {0} /\ unit * n = Scale
  BY SellingStore
<1>2. Extrapolated(results[i]) = sold * RecentDays * unit
      /\ Predicted(results[i]) = ref * RecentDays * Scale
      /\ CounterfactualOf(results[i]) = ((sold * 1 - ref * n) * 1000) \div (ref * n)
  BY DEF Extrapolated, Predicted, CounterfactualOf, LiftOver
<1>. HIDE DEF sold, n, ref, unit
<1>3. sold * 1 = sold
  BY <1>1
<1>4. CounterfactualOf(results[i]) = c
  BY <1>2, <1>3
<1>5. \A a, b \in Nat \ {0} : a * b \in Nat \ {0}
  OBVIOUS
<1>6. ref * n \in Nat \ {0} /\ k \in Nat \ {0}
  BY <1>1, <1>5
<1>7. c \in Int /\ IsLift(c, sold, ref * n)
  BY <1>1, <1>6, LiftIs
<1>. HIDE DEF c
<1>8. IsLift(c, k * sold, k * (ref * n))
  <2>. DEFINE m == ref * n
  <2>1. sold \in Int /\ m \in Nat /\ IsLift(c, sold, m)
    BY <1>1, <1>6, <1>7
  <2>. HIDE DEF m, k
  <2>2. IsLift(c, k * sold, k * m)
    BY <1>6, <1>7, <2>1, LiftScales
  <2>. QED  BY <2>2 DEF m
<1>9. k * sold = sold * RecentDays * unit
  BY <1>1
<1>10. k * (ref * n) = ref * RecentDays * Scale
  <2>1. \A a, b, d, e \in Int : (a * b) * (d * e) = d * a * (b * e)
    OBVIOUS
  <2>. QED  BY <1>1, <2>1
<1>11. k * (ref * n) \in Nat \ {0} /\ k * sold \in Int
  BY <1>1, <1>5, <1>6
<1>. QED  BY <1>2, <1>4, <1>7, <1>8, <1>9, <1>10, <1>11

\* The pooled lift lies between those of its stores.
LEMMA WithinStores == PortfolioInv => PooledWithinStores
<1>. SUFFICES ASSUME PortfolioInv, Reported, Selling = Referred, Selling # {},
                     \A i \in Referred : results[i].reference > 0
              PROVE  /\ \E i \in Selling : CounterfactualOf(results[i]) <= PooledUplift
                     /\ \E i \in Selling : PooledUplift <= CounterfactualOf(results[i])
  BY DEF PooledWithinStores
<1>. DEFINE S == Selling
            f == SellingFunction
            h == ReferredFunction
            c == [i \in S |-> CounterfactualOf(results[i])]
<1>1. ASSUME NEW i \in S
      PROVE  /\ f[i] \in Int /\ h[i] \in Int /\ h[i] > 0 /\ c[i] \in Int /\ IsLift(c[i], f[i], h[i])
             /\ c[i] = CounterfactualOf(results[i])
  <2>1. results[i].reference > 0 /\ results[i].reference # Missing
    BY DEF Referred
  <2>2. results[i].reference \in Int
    BY <2>1, SellingStore
  <2>3. /\ f[i] = Extrapolated(results[i]) /\ h[i] = Predicted(results[i])
        /\ c[i] = CounterfactualOf(results[i])
    BY DEF SellingFunction, ReferredFunction
  <2>4. /\ CounterfactualOf(results[i]) \in Int /\ Extrapolated(results[i]) \in Int
        /\ Predicted(results[i]) \in Int /\ Predicted(results[i]) > 0
        /\ IsLift(CounterfactualOf(results[i]), Extrapolated(results[i]), Predicted(results[i]))
    BY <2>1, <2>2, StoreLift
  <2>. HIDE DEF c, f, h
  <2>. QED  BY <2>3, <2>4
<1>2. DOMAIN f = S /\ DOMAIN h = S /\ f = [i \in S |-> f[i]] /\ h = [i \in S |-> h[i]]
      /\ DOMAIN c = S /\ c = [i \in S |-> c[i]]
  BY DEF SellingFunction, ReferredFunction
<1>3. IsFiniteSet(S) /\ S # {} /\ PooledActual = SumOn(f, S) /\ PooledForecast = SumOn(h, S)
  BY PooledAre
<1>. HIDE DEF S, f, h, c
<1>4. f \in [S -> Int] /\ h \in [S -> Int] /\ c \in [S -> Int]
      /\ (\A i \in S : h[i] > 0) /\ (\A i \in S : IsLift(c[i], f[i], h[i]))
  BY <1>1, <1>2
<1>5. PooledActual \in Int /\ PooledForecast \in Nat \ {0}
  <2>1. SumOn(f, S) \in Int /\ SumOn(h, S) \in Int
    BY <1>3, <1>4, SumOnInt
  <2>2. SumOn(h, S) > 0
    BY <1>3, <1>4, SumOnPositive
  <2>. QED  BY <1>3, <2>1, <2>2
<1>6. PooledUplift \in Int /\ IsLift(PooledUplift, PooledActual, PooledForecast)
  <2>1. PooledUplift
          = ((PooledActual * 1 - PooledForecast * 1) * 1000) \div (PooledForecast * 1)
    BY DEF PooledUplift, LiftOver
  <2>2. PooledActual * 1 = PooledActual /\ PooledForecast * 1 = PooledForecast
    BY <1>5
  <2>. DEFINE a == PooledActual b == PooledForecast
  <2>3. PooledUplift = ((a - b) * 1000) \div b
    BY <2>1, <2>2
  <2>4. a \in Int /\ b \in Nat \ {0}
    BY <1>5
  <2>. HIDE DEF a, b
  <2>5. PooledUplift \in Int /\ IsLift(PooledUplift, a, b)
    BY <2>3, <2>4, LiftIs
  <2>. QED  BY <2>5 DEF a, b
<1>. DEFINE u == PooledUplift
<1>7. u \in Int /\ IsLift(u, SumOn(f, S), SumOn(h, S))
  BY <1>3, <1>6
<1>. HIDE DEF u
<1>8. (\E i \in S : c[i] <= u) /\ (\E i \in S : u <= c[i])
  BY <1>3, <1>4, <1>7, Mediant
<1>9. (\E i \in S : CounterfactualOf(results[i]) <= u) /\ (\E i \in S : u <= CounterfactualOf(results[i]))
  BY <1>1, <1>8
<1>. QED  BY <1>9 DEF S, u

\* A multiple of more is more, or the same when there is nothing to multiply.
LEMMA MoreDays ==
    ASSUME NEW k \in Nat, NEW n \in Nat \ {0}, NEW all \in Nat \ {0}, n <= all
    PROVE  /\ k * n \in Int /\ k * all \in Int /\ k * n <= k * all
           /\ k > 0 /\ n < all => k * n <= k * all - 1
           /\ ~(k > 0 /\ n < all) => k * n = k * all
<1>1. k * n \in Int /\ k * all \in Int /\ k * n <= k * all
  BY TimesGrows
<1>2. ASSUME k > 0, n < all PROVE k * n <= k * all - 1
  <2>1. k * (n + 1) <= k * all
    BY <1>2, TimesGrows
  <2>2. k * (n + 1) = k * n + k
    OBVIOUS
  <2>. QED  BY <1>1, <1>2, <2>1, <2>2
<1>3. ASSUME ~(k > 0 /\ n < all) PROVE k * n = k * all
  <2>1. CASE k = 0
    <3>1. 0 * n = 0 /\ 0 * all = 0
      OBVIOUS
    <3>. QED  BY <2>1, <3>1
  <2>2. CASE n = all
    BY <2>2
  <2>. QED  BY <1>3, <2>1, <2>2
<1>. QED  BY <1>1, <1>2, <1>3

\* A store with days off whose other days sold, or whose other days took back.
GapUp(i) == results[i].sold > 0 /\ results[i].days < RecentDays
GapDown(i) == results[i].sold < 0 /\ results[i].days < RecentDays

\* A store's days off are taken to have sold like the others.
LEMMA StoreExtrapolates ==
    ASSUME PortfolioInv, NEW i \in Selling
    PROVE  /\ SellingFunction[i] \in Int /\ SoldFunction[i] \in Int
           /\ ~GapDown(i) => SoldFunction[i] <= SellingFunction[i]
           /\ ~GapUp(i) => SellingFunction[i] <= SoldFunction[i]
           /\ GapUp(i) => SoldFunction[i] <= SellingFunction[i] - 1
           /\ GapDown(i) => SellingFunction[i] <= SoldFunction[i] - 1
<1>. DEFINE sold == results[i].sold
            n == results[i].days
            unit == Scale \div n
            k == sold * unit
<1>1. /\ sold \in Int /\ n \in Nat \ {0} /\ n <= RecentDays /\ RecentDays \in Nat \ {0}
      /\ unit \in Nat \ {0} /\ unit * n = Scale
  BY SellingStore
<1>2. SellingFunction[i] = sold * RecentDays * unit /\ SoldFunction[i] = sold * Scale
  BY DEF SellingFunction, SoldFunction, Extrapolated
<1>. HIDE DEF sold, n, unit
<1>3. \A a, b, d \in Int : a * b * d = (a * d) * b /\ a * (b * d) = (a * b) * d /\ a * b \in Int
  OBVIOUS
<1>4. SellingFunction[i] = k * RecentDays /\ SoldFunction[i] = k * n /\ k \in Int
  <2>1. sold * RecentDays * unit = k * RecentDays /\ sold * (unit * n) = k * n
    BY <1>1, <1>3
  <2>2. k \in Int
    BY <1>1
  <2>. HIDE DEF k
  <2>. QED  BY <1>1, <1>2, <2>1, <2>2
<1>5. /\ sold > 0 => k > 0
      /\ sold = 0 => k = 0
      /\ sold < 0 => k < 0
  <2>1. \A a, b \in Nat \ {0} : a * b > 0
    OBVIOUS
  <2>2. (-sold) * unit = -k
    BY <1>1
  <2>. QED  BY <1>1, <1>4, <2>1, <2>2
<1>. HIDE DEF k
<1>6. CASE k >= 0
  <2>1. /\ k * n \in Int /\ k * RecentDays \in Int /\ k * n <= k * RecentDays
        /\ k > 0 /\ n < RecentDays => k * n <= k * RecentDays - 1
        /\ ~(k > 0 /\ n < RecentDays) => k * n = k * RecentDays
    BY <1>1, <1>4, <1>6, MoreDays
  <2>. QED  BY <1>1, <1>4, <1>5, <1>6, <2>1 DEF GapUp, GapDown, sold, n
<1>7. CASE k < 0
  <2>. DEFINE m == -k
  <2>1. m \in Nat /\ m > 0 /\ k = -m
    BY <1>4, <1>7
  <2>2. k * n = -(m * n) /\ k * RecentDays = -(m * RecentDays)
    BY <1>1, <1>4
  <2>. HIDE DEF m
  <2>3. /\ m * n \in Int /\ m * RecentDays \in Int /\ m * n <= m * RecentDays
        /\ m > 0 /\ n < RecentDays => m * n <= m * RecentDays - 1
        /\ ~(m > 0 /\ n < RecentDays) => m * n = m * RecentDays
    BY <1>1, <2>1, MoreDays
  <2>. QED  BY <1>1, <1>4, <1>5, <1>7, <2>1, <2>2, <2>3 DEF GapUp, GapDown, sold, n
<1>. QED  BY <1>4, <1>6, <1>7

\* A function that is nowhere above another, and below it exactly where Gap says.
LEMMA SumOnGaps ==
    ASSUME NEW S, IsFiniteSet(S), NEW f \in [S -> Int], NEW h \in [S -> Int], NEW Gaps \in SUBSET S,
           \A y \in S : f[y] <= h[y],
           \A y \in Gaps : f[y] <= h[y] - 1,
           \A y \in S \ Gaps : h[y] <= f[y]
    PROVE  /\ SumOn(f, S) \in Int /\ SumOn(h, S) \in Int /\ SumOn(f, S) <= SumOn(h, S)
           /\ SumOn(f, S) < SumOn(h, S) <=> Gaps # {}
<1>1. SumOn(f, S) \in Int /\ SumOn(h, S) \in Int
  BY SumOnInt
<1>2. SumOn(f, S) <= SumOn(h, S)
  BY SumOnMono
<1>3. ASSUME NEW x \in Gaps PROVE SumOn(f, S) < SumOn(h, S)
  <2>1. PICK d \in Int : d = 1
    OBVIOUS
  <2>2. f[x] <= h[x] - d /\ x \in S
    BY <2>1
  <2>3. SumOn(f, S) <= SumOn(h, S) - d
    BY <2>2, SumOnShift
  <2>. QED  BY <1>1, <2>1, <2>3
<1>4. ASSUME Gaps = {} PROVE ~(SumOn(f, S) < SumOn(h, S))
  <2>1. SumOn(h, S) <= SumOn(f, S)
    BY <1>4, SumOnMono
  <2>. QED  BY <1>1, <2>1
<1>. QED  BY <1>1, <1>2, <1>3, <1>4

\* The pooled sales differ from what was sold by the days off alone.
LEMMA OverstatesGaps == PortfolioInv => PooledOverstatesGaps
<1>. SUFFICES ASSUME PortfolioInv PROVE PooledOverstatesGaps
  OBVIOUS
<1>. DEFINE S == Selling
            f == SoldFunction
            h == SellingFunction
            up == {i \in S : GapUp(i)}
            down == {i \in S : GapDown(i)}
            sold == SumOn(f, S)
            pooled == SumOn(h, S)
<1>1. \A i \in S : /\ f[i] \in Int /\ h[i] \in Int
                   /\ ~GapDown(i) => f[i] <= h[i]
                   /\ ~GapUp(i) => h[i] <= f[i]
                   /\ GapUp(i) => f[i] <= h[i] - 1
                   /\ GapDown(i) => h[i] <= f[i] - 1
  BY StoreExtrapolates
<1>2. DOMAIN f = S /\ DOMAIN h = S /\ f = [i \in S |-> f[i]] /\ h = [i \in S |-> h[i]]
  BY DEF SellingFunction, SoldFunction
<1>3. IsFiniteSet(S) /\ PooledActual = pooled /\ SumFunction(SoldFunction) = sold
  BY PooledAre
<1>. HIDE DEF S, f, h
<1>4. f \in [S -> Int] /\ h \in [S -> Int]
  BY <1>1, <1>2
<1>5. ASSUME down = {} PROVE sold \in Int /\ pooled \in Int /\ sold <= pooled /\ (sold < pooled <=> up # {})
  <2>1. (\A y \in S : f[y] <= h[y]) /\ (\A y \in up : f[y] <= h[y] - 1) /\ (\A y \in S \ up : h[y] <= f[y])
    BY <1>1, <1>5
  <2>2. up \in SUBSET S
    OBVIOUS
  <2>. HIDE DEF up
  <2>. QED  BY <1>3, <1>4, <2>1, <2>2, SumOnGaps
<1>6. ASSUME up = {} PROVE sold \in Int /\ pooled \in Int /\ pooled <= sold /\ (pooled < sold <=> down # {})
  <2>1. (\A y \in S : h[y] <= f[y]) /\ (\A y \in down : h[y] <= f[y] - 1) /\ (\A y \in S \ down : f[y] <= h[y])
    BY <1>1, <1>6
  <2>2. down \in SUBSET S
    OBVIOUS
  <2>. HIDE DEF down
  <2>. QED  BY <1>3, <1>4, <2>1, <2>2, SumOnGaps
<1>7. SumFunction([i \in Selling |-> results[i].sold * Scale]) = sold
  BY <1>3 DEF SoldFunction
<1>8. /\ up = {i \in Selling : results[i].sold > 0 /\ results[i].days < RecentDays}
      /\ down = {i \in Selling : results[i].sold < 0 /\ results[i].days < RecentDays}
  BY DEF S, GapUp, GapDown
<1>. HIDE DEF up, down, sold, pooled
<1>9. /\ down = {} => PooledActual >= sold /\ (PooledActual > sold <=> up # {})
      /\ up = {} => PooledActual <= sold /\ (PooledActual < sold <=> down # {})
  BY <1>3, <1>5, <1>6
<1>. QED  BY <1>7, <1>8, <1>9 DEF PooledOverstatesGaps

\* The four promises about a report, from what it keeps.
LEMMA AddsUp == PortfolioInv => PortfolioAddsUp
<1>. SUFFICES ASSUME PortfolioInv PROVE PortfolioAddsUp
  OBVIOUS
<1>1. JoinAddsNothing
  BY ResultsAre DEF JoinAddsNothing, Decided
<1>2. EligibilityGrowsWithMailing
  <2>. SUFFICES ASSUME NEW i \in DOMAIN results, NEW fewer \in (SUBSET mailed) \ {{}},
                       Eligible(results[i].store, fewer),
                       ~(SumAt(Exposed(results[i].store, mailed \ fewer)) < 0)
                PROVE  results[i].eligible
    BY DEF EligibilityGrowsWithMailing
  <2>1. Eligible(results[i].store, mailed)
    <3>1. LedgerOK /\ fewer \in SUBSET mailed /\ fewer # {}
      BY DEF PortfolioInv
    <3>. QED  BY <3>1, EligibilityGrows
  <2>. QED  BY <2>1, ResultsAre
<1>. QED  BY <1>1, <1>2, WithinStores, OverstatesGaps DEF PortfolioAddsUp

\* The pooled lift of a portfolio lies between its stores', it differs from the sales by
\* the days off and nothing else, the joins repeat their evidence, and a store keeps its
\* eligibility when more households are mailed that did not return more than they
\* bought: for any stores, references and ledger, returns included.
THEOREM PortfolioAlwaysAddsUp == PortfolioSpec => []PortfolioAddsUp
BY PortfolioInvariance, AddsUp, PTL

\* Every store of the request has its own result, in the order asked.
THEOREM PortfolioTypeCorrect == PortfolioSpec => []PortfolioTypeOK
<1>1. PortfolioInv => PortfolioTypeOK
  BY ResultsAre DEF PortfolioInv, PortfolioTypeOK
<1>. QED  BY <1>1, PortfolioInvariance, PTL

=============================================================================
