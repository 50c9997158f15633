--------------------------- MODULE ServicesProofs ---------------------------
(***************************************************************************)
(* What is proved of the services around the decision loop, for every value *)
(* of their constants: sums over finite sets, the measurement of an         *)
(* intervention's outcome, the split of a budget, and the board's refresh.  *)
(***************************************************************************)
EXTENDS OutcomeMeasurement, BudgetAllocator, BoardRefresh, SequenceTheorems, FiniteSetTheorems, TLAPS

-----------------------------------------------------------------------------
(* Sums over a finite set.  The community modules' FoldSet takes elements   *)
(* one at a time, as CHOOSE gives them; the function it recurs with exists, *)
(* because one exists on the subsets of each size.                          *)

LEMMA LeastElement ==
    ASSUME NEW T \in SUBSET Nat, T # {}
    PROVE  \E m \in T : \A n \in T : m <= n
<1>. DEFINE R == OpToRel(<, Nat)
<1>1. IsWellFoundedOn(R, Nat)
  BY NatLessThanWellFounded
<1>2. \A m, n \in Nat : <<m, n>> \in R <=> m < n
  BY DEF OpToRel
<1>. HIDE DEF R
<1>3. PICK m \in T : \A n \in T : ~ (<<n, m>> \in R)
  BY <1>1, WFMin
<1>4. \A n \in T : ~ (n < m)
  BY <1>2, <1>3
<1>. QED  BY <1>4

LEMMA NatInduct ==
    ASSUME NEW S, 0 \in S, \A n \in Nat : n \in S => n + 1 \in S
    PROVE  Nat \subseteq S
<1>. SUFFICES ASSUME Nat \ S # {} PROVE FALSE
  OBVIOUS
<1>1. PICK m \in Nat \ S : \A n \in Nat \ S : m <= n
  BY LeastElement
<1>2. m # 0 /\ m - 1 \in Nat /\ m - 1 \in S
  BY <1>1
<1>. QED  BY <1>1, <1>2

Pick(s) == CHOOSE x \in s : TRUE

\* g sums val over the sets of ss.
Sums(g, ss, val) ==
    g = [s \in ss |-> IF s = {} THEN 0 ELSE val[Pick(s)] + g[s \ {Pick(s)}]]

LEMMA SumsExist ==
    ASSUME NEW S, IsFiniteSet(S), NEW val \in [S -> Int]
    PROVE  \E g \in [SUBSET S -> Int] : Sums(g, SUBSET S, val)
<1>. DEFINE Level(n) == {s \in SUBSET S : Cardinality(s) <= n}
            Good == {n \in Nat : \E g \in [Level(n) -> Int] : Sums(g, Level(n), val)}
<1>0. \A s \in SUBSET S : IsFiniteSet(s) /\ Cardinality(s) \in Nat /\ Cardinality(s) <= Cardinality(S)
  BY FS_Subset, FS_CardinalityType
<1>00. \A s \in SUBSET S : s # {} =>
          /\ Pick(s) \in s /\ Pick(s) \in S /\ s \ {Pick(s)} \in SUBSET S
          /\ Cardinality(s \ {Pick(s)}) = Cardinality(s) - 1
  BY <1>0, FS_RemoveElement DEF Pick
<1>1. 0 \in Good
  <2>. DEFINE g == [s \in Level(0) |-> 0]
  <2>1. \A s \in Level(0) : s = {}
    BY <1>0, FS_EmptySet
  <2>2. g \in [Level(0) -> Int]
    OBVIOUS
  <2>3. Sums(g, Level(0), val)
    BY <2>1 DEF Sums
  <2>. QED  BY <2>2, <2>3
<1>2. ASSUME NEW n \in Nat, n \in Good
      PROVE  n + 1 \in Good
  <2>1. PICK h \in [Level(n) -> Int] : Sums(h, Level(n), val)
    BY <1>2
  <2>. DEFINE g == [s \in Level(n + 1) |-> IF s = {} THEN 0 ELSE val[Pick(s)] + h[s \ {Pick(s)}]]
  <2>2. \A s \in Level(n + 1) : s # {} => s \ {Pick(s)} \in Level(n) /\ s \ {Pick(s)} \in Level(n + 1)
    BY <1>0, <1>00
  <2>3. g \in [Level(n + 1) -> Int]
    <3>1. \A s \in Level(n + 1) : s # {} => val[Pick(s)] \in Int /\ h[s \ {Pick(s)}] \in Int
      BY <1>00, <2>1, <2>2
    <3>. QED  BY <3>1
  <2>4. \A s \in Level(n) : g[s] = h[s]
    <3>1. \A s \in Level(n) : s \in Level(n + 1)
      BY <1>0
    <3>2. \A s \in Level(n) : h[s] = IF s = {} THEN 0 ELSE val[Pick(s)] + h[s \ {Pick(s)}]
      BY <2>1 DEF Sums
    <3>. QED  BY <3>1, <3>2
  <2>5. \A s \in Level(n + 1) : g[s] = IF s = {} THEN 0 ELSE val[Pick(s)] + g[s \ {Pick(s)}]
    BY <2>2, <2>4
  <2>6. Sums(g, Level(n + 1), val)
    BY <2>5 DEF Sums
  <2>. HIDE DEF g, Level
  <2>7. \E f \in [Level(n + 1) -> Int] : Sums(f, Level(n + 1), val)
    BY <2>3, <2>6
  <2>. QED  BY <2>7
<1>3. Cardinality(S) \in Good
  <2>. HIDE DEF Good
  <2>1. Nat \subseteq Good
    BY <1>1, <1>2, NatInduct
  <2>. QED  BY <1>0, <2>1
<1>4. Level(Cardinality(S)) = SUBSET S
  BY <1>0
<1>. QED  BY <1>3, <1>4

LEMMA SumsUnique ==
    ASSUME NEW S, IsFiniteSet(S), NEW val \in [S -> Int],
           NEW g, Sums(g, SUBSET S, val), NEW h, Sums(h, SUBSET S, val)
    PROVE  g = h
<1>. DEFINE Agree == {n \in Nat : \A s \in SUBSET S : Cardinality(s) <= n => g[s] = h[s]}
<1>0. \A s \in SUBSET S : IsFiniteSet(s) /\ Cardinality(s) \in Nat /\ Cardinality(s) <= Cardinality(S)
  BY FS_Subset, FS_CardinalityType
<1>1. \A s \in SUBSET S : s # {} =>
          s \ {Pick(s)} \in SUBSET S /\ Cardinality(s \ {Pick(s)}) = Cardinality(s) - 1
  BY <1>0, FS_RemoveElement DEF Pick
<1>2. \A s \in SUBSET S : /\ g[s] = IF s = {} THEN 0 ELSE val[Pick(s)] + g[s \ {Pick(s)}]
                         /\ h[s] = IF s = {} THEN 0 ELSE val[Pick(s)] + h[s \ {Pick(s)}]
  BY DEF Sums
<1>3. 0 \in Agree
  <2>1. \A s \in SUBSET S : Cardinality(s) <= 0 => s = {}
    BY <1>0, FS_EmptySet
  <2>. QED  BY <1>2, <2>1
<1>4. ASSUME NEW n \in Nat, n \in Agree PROVE n + 1 \in Agree
  <2>1. \A s \in SUBSET S : Cardinality(s) <= n + 1 /\ s # {} => g[s \ {Pick(s)}] = h[s \ {Pick(s)}]
    BY <1>0, <1>1, <1>4
  <2>2. ASSUME NEW s \in SUBSET S, Cardinality(s) <= n + 1 PROVE g[s] = h[s]
    <3>1. CASE s = {}
      BY <1>2, <3>1
    <3>2. CASE s # {}
      <4>1. g[s \ {Pick(s)}] = h[s \ {Pick(s)}]
        BY <2>1, <2>2, <3>2
      <4>. QED  BY <1>2, <3>2, <4>1
    <3>. QED  BY <3>1, <3>2
  <2>. QED  BY <2>2
<1>5. Cardinality(S) \in Agree
  <2>. HIDE DEF Agree
  <2>1. Nat \subseteq Agree
    BY <1>3, <1>4, NatInduct
  <2>. QED  BY <1>0, <2>1
<1>6. \A s \in SUBSET S : g[s] = h[s]
  BY <1>0, <1>5
<1>. QED  BY <1>6 DEF Sums

\* SumFunction is such a sum.
LEMMA SumIs ==
    ASSUME NEW S, IsFiniteSet(S), NEW val \in [S -> Int]
    PROVE  \E g \in [SUBSET S -> Int] : Sums(g, SUBSET S, val) /\ SumFunction(val) = g[S]
<1>. DEFINE it == CHOOSE iter : iter = [s \in SUBSET S |->
                     IF s = {} THEN 0
                     ELSE val[CHOOSE x \in s : TRUE] + iter[s \ {CHOOSE x \in s : TRUE}]]
<1>0. DOMAIN val = S
  OBVIOUS
<1>2. SumFunctionOnSet(val, S) = it[S]
  BY DEF SumFunctionOnSet, FoldFunctionOnSet, MapThenFoldSet
<1>22. SumFunction(val) = it[S]
  BY <1>0, <1>2 DEF SumFunction
<1>3. PICK g \in [SUBSET S -> Int] : Sums(g, SUBSET S, val)
  BY SumsExist
<1>4. g = [s \in SUBSET S |->
             IF s = {} THEN 0 ELSE val[CHOOSE x \in s : TRUE] + g[s \ {CHOOSE x \in s : TRUE}]]
  BY <1>3 DEF Sums, Pick
<1>5. it = [s \in SUBSET S |->
             IF s = {} THEN 0 ELSE val[CHOOSE x \in s : TRUE] + it[s \ {CHOOSE x \in s : TRUE}]]
  BY <1>4
<1>. HIDE DEF it
<1>7. Sums(it, SUBSET S, val)
  BY <1>5 DEF Sums, Pick
<1>8. it = g
  BY <1>3, <1>7, SumsUnique
<1>. QED  BY <1>22, <1>3, <1>8

\* The sum over a set takes any one element and the rest.
LEMMA SumAnyElement ==
    ASSUME NEW S, IsFiniteSet(S), NEW val \in [S -> Int],
           NEW g \in [SUBSET S -> Int], Sums(g, SUBSET S, val),
           NEW s \in SUBSET S, NEW x \in s
    PROVE  g[s] = val[x] + g[s \ {x}]
<1>. DEFINE Good == {n \in Nat : \A r \in SUBSET S : Cardinality(r) <= n =>
                         \A y \in r : g[r] = val[y] + g[r \ {y}]}
<1>0. \A r \in SUBSET S : IsFiniteSet(r) /\ Cardinality(r) \in Nat
  BY FS_Subset, FS_CardinalityType
<1>1. \A r \in SUBSET S : \A y \in r :
          r \ {y} \in SUBSET S /\ Cardinality(r \ {y}) = Cardinality(r) - 1
  BY <1>0, FS_RemoveElement
<1>2. \A r \in SUBSET S : r # {} => /\ Pick(r) \in r /\ g[r] = val[Pick(r)] + g[r \ {Pick(r)}]
  BY DEF Sums, Pick
<1>3. 0 \in Good
  BY <1>0, FS_EmptySet
<1>4. ASSUME NEW n \in Nat, n \in Good PROVE n + 1 \in Good
  <2>1. ASSUME NEW r \in SUBSET S, Cardinality(r) <= n + 1, NEW y \in r
        PROVE  g[r] = val[y] + g[r \ {y}]
    <3>. DEFINE p == Pick(r)
    <3>1. p \in r /\ g[r] = val[p] + g[r \ {p}]
      BY <1>2
    <3>. HIDE DEF p
    <3>2. CASE p = y
      BY <3>1, <3>2
    <3>3. CASE p # y
      <4>1. /\ r \ {p} \in SUBSET S /\ r \ {y} \in SUBSET S
            /\ Cardinality(r \ {p}) <= n /\ Cardinality(r \ {y}) <= n
            /\ y \in r \ {p} /\ p \in r \ {y}
        BY <1>0, <1>1, <2>1, <3>1, <3>3
      <4>2. g[r \ {p}] = val[y] + g[(r \ {p}) \ {y}] /\ g[r \ {y}] = val[p] + g[(r \ {y}) \ {p}]
        BY <1>4, <4>1
      <4>3. (r \ {p}) \ {y} = (r \ {y}) \ {p} /\ (r \ {y}) \ {p} \in SUBSET S
        OBVIOUS
      <4>4. /\ val[y] \in Int /\ val[p] \in Int /\ g[r] \in Int /\ g[r \ {p}] \in Int
            /\ g[r \ {y}] \in Int /\ g[(r \ {y}) \ {p}] \in Int
        BY <3>1, <4>1, <4>3
      <4>. DEFINE rest == g[(r \ {y}) \ {p}]
      <4>5. g[(r \ {p}) \ {y}] = rest
        BY <4>3
      <4>6. g[r] = val[p] + g[r \ {p}] /\ g[r \ {p}] = val[y] + rest /\ g[r \ {y}] = val[p] + rest
        BY <3>1, <4>2, <4>5
      <4>7. rest \in Int
        BY <4>4
      <4>. HIDE DEF rest
      <4>. QED  BY <4>4, <4>6, <4>7
    <3>. QED  BY <3>2, <3>3
  <2>. QED  BY <2>1
<1>5. Cardinality(s) \in Good
  <2>. HIDE DEF Good
  <2>1. Nat \subseteq Good
    BY <1>3, <1>4, NatInduct
  <2>. QED  BY <1>0, <2>1
<1>. QED  BY <1>0, <1>5

-----------------------------------------------------------------------------
(* The rules of an outcome and of its join.                                *)

\* The sales of a set of observations are a number.
LEMMA SalesInt ==
    ASSUME NEW S, IsFiniteSet(S), S \subseteq Observation
    PROVE  SalesOf(S) \in Int
<1>. DEFINE val == [o \in S |-> o.value]
<1>1. val \in [S -> Int]
  BY DEF Observation
<1>2. SalesOf(S) = SumFunction(val)
  BY DEF SalesOf
<1>. HIDE DEF val
<1>3. PICK g \in [SUBSET S -> Int] : SumFunction(val) = g[S]
  BY <1>1, SumIs
<1>. QED  BY <1>2, <1>3

LEMMA MinOfNats ==
    ASSUME NEW T \in SUBSET Nat, T # {}
    PROVE  Min(T) \in T /\ \A n \in T : Min(T) <= n
BY LeastElement DEF Min

LEMMA WindowsFinite ==
    ASSUME NEW S, IsFiniteSet(S), S \subseteq Observation, NEW started
    PROVE  /\ IsFiniteSet(BaselineWindow(S, started)) /\ BaselineWindow(S, started) \subseteq Observation
           /\ IsFiniteSet(RecentWindow(S, started)) /\ RecentWindow(S, started) \subseteq Observation
<1>1. BaselineWindow(S, started) \in SUBSET S /\ RecentWindow(S, started) \in SUBSET S
  BY DEF BaselineWindow, RecentWindow
<1>. QED  BY <1>1, FS_Subset

\* What sufficient evidence is worth: it is due, and it has a lift.
LEMMA SufficientOutcome ==
    ASSUME NEW S, IsFiniteSet(S), S \subseteq Observation, NEW asOf \in Int,
           OutcomeOf(S, StartedAt, asOf).state = "SUFFICIENT"
    PROVE  /\ asOf >= DueAt(StartedAt)
           /\ OutcomeOf(S, StartedAt, asOf).lift \in Int
           /\ OutcomeOf(S, StartedAt, asOf).assessment # "none"
           /\ (OutcomeOf(S, StartedAt, asOf).assessment = "NEGATIVE")
                 = (OutcomeOf(S, StartedAt, asOf).lift < 0)
<1>. DEFINE base == BaselineWindow(S, StartedAt)
            recent == RecentWindow(S, StartedAt)
            lift == Lift(S, StartedAt)
<1>1. EvidenceState(S, StartedAt, asOf) = "SUFFICIENT"
  BY DEF OutcomeOf
<1>2. ~(asOf < DueAt(StartedAt)) /\ base # {} /\ recent # {} /\ ~(SalesOf(base) <= 0)
  BY <1>1 DEF EvidenceState
<1>3. DueAt(StartedAt) \in Int
  BY OutcomeAssumption, MeasurementAssumption DEF DueAt
<1>4. /\ IsFiniteSet(base) /\ base \subseteq Observation
      /\ IsFiniteSet(recent) /\ recent \subseteq Observation
  BY WindowsFinite
<1>5. /\ SalesOf(base) \in Int /\ SalesOf(recent) \in Int
      /\ Cardinality(base) \in Nat /\ Cardinality(recent) \in Nat /\ Cardinality(recent) # 0
  BY <1>2, <1>4, SalesInt, FS_CardinalityType, FS_EmptySet
<1>6. lift \in Int
  <2>. DEFINE a == SalesOf(recent) b == Cardinality(base)
              c == SalesOf(base)   d == Cardinality(recent)
  <2>1. lift = ((a * b - c * d) * 1000) \div (c * d)
    BY DEF Lift, LiftOver
  <2>2. a \in Int /\ b \in Int /\ c \in Int /\ d \in Int /\ c > 0 /\ d > 0
    BY <1>2, <1>5
  <2>. HIDE DEF a, b, c, d, lift
  <2>3. c * d \in Int /\ c * d > 0 /\ (a * b - c * d) * 1000 \in Int
    BY <2>2
  <2>. QED  BY <2>1, <2>3
<1>7. /\ OutcomeOf(S, StartedAt, asOf).lift = lift
      /\ OutcomeOf(S, StartedAt, asOf).assessment = IF lift = Missing THEN "none" ELSE Assessment(lift)
  BY <1>1 DEF OutcomeOf
<1>. HIDE DEF lift
<1>8. lift # Missing
  BY <1>6, MissingAssumption
<1>9. Assessment(lift) # "none" /\ (Assessment(lift) = "NEGATIVE") = (lift < 0)
  BY <1>6 DEF Assessment, TargetUplift
<1>. QED  BY <1>2, <1>3, <1>6, <1>7, <1>8, <1>9

\* A join says sufficient only of sufficient evidence.
LEMMA JoinNeedsEvidence ==
    ASSUME NEW outcome, Joined(outcome) = "SUFFICIENT"
    PROVE  outcome.state = "SUFFICIENT"
<1>1. Joinable(outcome).state = outcome.state
  BY DEF Joinable
<1>2. ASSUME NEW rec, NEW approval, NEW run, NEW checkpoints, NEW joinable,
             joinable.state # "SUFFICIENT"
      PROVE  JoinState(rec, approval, run, checkpoints, joinable) # "SUFFICIENT"
  <2>1. CASE ~Referenced(rec, approval, run, joinable)
    BY <2>1 DEF JoinState
  <2>2. CASE Referenced(rec, approval, run, joinable)
    BY <1>2, <2>2 DEF JoinState
  <2>. QED  BY <2>1, <2>2
<1>. QED  BY <1>1, <1>2 DEF Joined

\* What can be recorded for a week.
Recordable == [due : Int, observed : Int \cup {Missing}, status : CheckpointStatuses,
               key : Label, campaign : Label, timing : Label]

LEMMA WeekRecordable ==
    ASSUME NEW due \in Int, NEW asOf \in Int, NEW provided \in Seq(Provision)
    PROVE  /\ WeeklyCheckpoint(due, asOf, provided) \in Recordable
           /\ WeeklyCheckpoint(due, asOf, provided).due = due
<1>. DEFINE own == {i \in DOMAIN provided : provided[i].due = due}
            first == provided[Min(own)]
<1>1. DOMAIN provided = 1 .. Len(provided) /\ Len(provided) \in Nat
      /\ \A i \in 1 .. Len(provided) : provided[i] \in Provision
  BY LenProperties, ElementOfSeq
<1>2. own # {} => first \in Provision
  <2>1. own \in SUBSET Nat
    BY <1>1
  <2>2. own # {} => Min(own) \in own
    BY <2>1, MinOfNats
  <2>. QED  BY <1>1, <2>2
<1>3. Awaited(due, asOf) \in CheckpointStatuses
  BY DEF Awaited, CheckpointStatuses
<1>4. "INVALID" \in CheckpointStatuses /\ "OBSERVED" \in CheckpointStatuses
  BY DEF CheckpointStatuses
<1>. DEFINE seen == IF Cardinality(own) > 1 THEN Missing ELSE first.observed
            status == IF Cardinality(own) > 1 THEN "INVALID"
                      ELSE IF seen = Missing THEN Awaited(due, asOf) ELSE "OBSERVED"
<1>5. WeeklyCheckpoint(due, asOf, provided) =
         IF own = {} THEN Unlabelled(due, Awaited(due, asOf))
         ELSE [due |-> due, observed |-> seen, status |-> status,
               key |-> first.key, campaign |-> first.campaign, timing |-> first.timing]
  BY DEF WeeklyCheckpoint
<1>. HIDE DEF own, first
<1>6. CASE own = {}
  <2>1. Missing \in Label
    BY DEF Label
  <2>. QED  BY <1>3, <1>5, <1>6, <2>1 DEF Recordable, Unlabelled
<1>7. CASE own # {}
  <2>1. /\ first.key \in Label /\ first.campaign \in Label /\ first.timing \in Label
        /\ first.observed \in Int \cup {Missing}
    BY <1>2, <1>7 DEF Provision
  <2>2. seen \in Int \cup {Missing}
    BY <2>1
  <2>3. status \in CheckpointStatuses
    BY <1>3, <1>4
  <2>. HIDE DEF seen, status
  <2>. QED  BY <1>5, <1>7, <2>1, <2>2, <2>3 DEF Recordable
<1>. QED  BY <1>6, <1>7

LEMMA PostingRecordable ==
    ASSUME NEW items \in Provided, NEW weeks \in 1 .. MaxWeeks, NEW asOf \in AsOfs
    PROVE  /\ Checkpoints(StartedAt, asOf, weeks, items) \in Seq(Recordable)
           /\ \A i \in DOMAIN Checkpoints(StartedAt, asOf, weeks, items) :
                 Checkpoints(StartedAt, asOf, weeks, items)[i].due >= StartedAt
<1>. DEFINE Week(w) == WeeklyCheckpoint(StartedAt + WeekDays * DayLength * w, asOf, items)
<1>1. /\ weeks \in Nat /\ items \in Seq(Provision) /\ asOf \in Int /\ StartedAt \in Int
      /\ WeekDays \in Nat /\ DayLength \in Nat
  BY OutcomeAssumption, MeasurementAssumption
<1>2. \A w \in 1 .. weeks : /\ StartedAt + WeekDays * DayLength * w \in Int
                            /\ StartedAt + WeekDays * DayLength * w >= StartedAt
  <2>. SUFFICES ASSUME NEW w \in 1 .. weeks
                PROVE  /\ StartedAt + WeekDays * DayLength * w \in Int
                       /\ StartedAt + WeekDays * DayLength * w >= StartedAt
    OBVIOUS
  <2>1. WeekDays * DayLength \in Nat
    BY <1>1
  <2>2. WeekDays * DayLength * w \in Nat
    BY <1>1, <2>1
  <2>. QED  BY <1>1, <2>2
<1>3. \A w \in 1 .. weeks : Week(w) \in Recordable /\ Week(w).due >= StartedAt
  <2>. SUFFICES ASSUME NEW w \in 1 .. weeks PROVE Week(w) \in Recordable /\ Week(w).due >= StartedAt
    OBVIOUS
  <2>. QED  BY <1>1, <1>2, WeekRecordable
<1>. HIDE DEF Week
<1>4. Checkpoints(StartedAt, asOf, weeks, items) = [w \in 1 .. weeks |-> Week(w)]
  BY DEF Checkpoints, Week
<1>5. [w \in 1 .. weeks |-> Week(w)] \in Seq(Recordable)
  BY <1>1, <1>3
<1>. QED  BY <1>3, <1>4, <1>5

-----------------------------------------------------------------------------
(* Measurements: what is recorded is well formed, what is awaited has a     *)
(* time, and what is stored came from sufficient evidence.                  *)

RecordedOK ==
    /\ recorded \in Seq(Recordable)
    /\ \A i \in DOMAIN recorded : recorded[i].due >= StartedAt

AwaitedOK ==
    /\ lifecycle \in {"COMPLETED", "FAILED", "OUTCOME_PENDING", "EVALUATED"}
    /\ awaited = Missing \/ awaited \in AsOfs
    /\ lifecycle = "OUTCOME_PENDING" => awaited \in AsOfs
    /\ posts \in 0 .. MaxPosts /\ latest \in {"approval", "again"}

OutcomeInv == RecordedOK /\ AwaitedOK /\ StoredMeansEvaluated /\ StoredFitsPipeline

LEMMA TimesInt ==
    /\ StartedAt \in Int /\ EndedAt \in Int /\ DueAt(StartedAt) \in Int
    /\ \A asOf \in AsOfs : asOf \in Int
BY OutcomeAssumption, MeasurementAssumption DEF DueAt

LEMMA InitOutcomeInv == MeasurementInit => OutcomeInv
<1>. SUFFICES ASSUME MeasurementInit PROVE OutcomeInv
  OBVIOUS
<1>1. RecordedOK
  BY EmptySeq DEF MeasurementInit, RecordedOK
<1>2. AwaitedOK
  BY MeasurementAssumption DEF MeasurementInit, AwaitedOK
<1>. QED  BY <1>1, <1>2 DEF MeasurementInit, OutcomeInv, StoredMeansEvaluated, StoredFitsPipeline

LEMMA PostKeepsOutcomes ==
    ASSUME OutcomeInv, PostCheckpoints
    PROVE  OutcomeInv'
<1>1. PICK items \in Provided, weeks \in 1 .. MaxWeeks, asOf \in AsOfs :
         recorded' = recorded \o Checkpoints(StartedAt, asOf, weeks, items)
  BY DEF PostCheckpoints
<1>. DEFINE new == Checkpoints(StartedAt, asOf, weeks, items)
<1>2. new \in Seq(Recordable) /\ \A i \in DOMAIN new : new[i].due >= StartedAt
  BY PostingRecordable
<1>. HIDE DEF new
<1>3. recorded \in Seq(Recordable) /\ \A i \in DOMAIN recorded : recorded[i].due >= StartedAt
  BY DEF OutcomeInv, RecordedOK
<1>4. /\ recorded' \in Seq(Recordable) /\ Len(recorded') = Len(recorded) + Len(new)
      /\ \A i \in 1 .. Len(recorded) + Len(new) :
            recorded'[i] = IF i <= Len(recorded) THEN recorded[i] ELSE new[i - Len(recorded)]
  BY <1>1, <1>2, <1>3, ConcatProperties DEF new
<1>5. /\ DOMAIN recorded = 1 .. Len(recorded) /\ Len(recorded) \in Nat
      /\ DOMAIN new = 1 .. Len(new) /\ Len(new) \in Nat
      /\ DOMAIN recorded' = 1 .. Len(recorded')
  BY <1>2, <1>3, <1>4, LenProperties
<1>6. ASSUME NEW i \in DOMAIN recorded'
      PROVE  recorded'[i].due >= StartedAt
  <2>1. CASE i <= Len(recorded)
    BY <1>3, <1>4, <1>5, <2>1
  <2>2. CASE ~(i <= Len(recorded))
    <3>1. i - Len(recorded) \in DOMAIN new /\ recorded'[i] = new[i - Len(recorded)]
      BY <1>4, <1>5, <2>2
    <3>. QED  BY <1>2, <3>1
  <2>. QED  BY <2>1, <2>2
<1>7. RecordedOK'
  BY <1>4, <1>6 DEF RecordedOK
<1>8. /\ lifecycle' = lifecycle /\ awaited' = awaited /\ stored' = stored
      /\ posts' = posts + 1 /\ posts < MaxPosts /\ posts \in 0 .. MaxPosts /\ latest' = latest
  BY DEF PostCheckpoints, OutcomeInv, AwaitedOK
<1>9. AwaitedOK'
  BY <1>8, MeasurementAssumption DEF OutcomeInv, AwaitedOK
<1>10. StoredMeansEvaluated' /\ StoredFitsPipeline'
  BY <1>8 DEF OutcomeInv, StoredMeansEvaluated, StoredFitsPipeline, HasEnded
<1>. QED  BY <1>7, <1>9, <1>10 DEF OutcomeInv

\* A wait moves the lifecycle on, never past an evaluation, and is from the end on.
LEMMA AwaitMoves ==
    ASSUME AwaitedOK, NEW asOf \in AsOfs, Await(asOf), posts' = posts, latest' = latest
    PROVE  /\ AwaitedOK'
           /\ \/ UNCHANGED <<lifecycle, awaited>>
              \/ HasEnded /\ ~HasEnded' /\ lifecycle' = "OUTCOME_PENDING"
                   /\ awaited' = asOf /\ asOf >= EndedAt
BY DEF Await, AwaitedOK, HasEnded

LEMMA AwaitKeepsStored ==
    ASSUME OutcomeInv, NEW asOf \in AsOfs, Await(asOf), posts' = posts, latest' = latest,
           stored' = stored
    PROVE  AwaitedOK' /\ StoredMeansEvaluated' /\ StoredFitsPipeline'
<1>1. AwaitedOK' /\ StoredFitsPipeline'
  BY AwaitMoves DEF OutcomeInv, StoredFitsPipeline
<1>2. CASE UNCHANGED <<lifecycle, awaited>>
  BY <1>1, <1>2 DEF OutcomeInv, StoredMeansEvaluated, HasEnded
<1>3. CASE /\ HasEnded /\ ~HasEnded' /\ lifecycle' = "OUTCOME_PENDING"
           /\ awaited' = asOf /\ asOf >= EndedAt
  <2>1. lifecycle # "EVALUATED"
    BY <1>3 DEF HasEnded
  <2>2. stored # NothingStored => EndedAt > DueAt(StartedAt)
    BY <1>3, <2>1 DEF OutcomeInv, StoredMeansEvaluated
  <2>3. asOf \in Int /\ EndedAt \in Int /\ DueAt(StartedAt) \in Int
    BY TimesInt
  <2>4. stored # NothingStored => asOf > DueAt(StartedAt)
    BY <1>3, <2>2, <2>3
  <2>. QED  BY <1>1, <1>3, <2>4 DEF StoredMeansEvaluated
<1>4. AwaitedOK
  BY DEF OutcomeInv
<1>. QED  BY <1>2, <1>3, <1>4, AwaitMoves

LEMMA MeasuredKeepsOutcomes ==
    ASSUME OutcomeInv, NEW S, IsFiniteSet(S), S \subseteq Observation, NEW asOf \in AsOfs,
           NEW causal, causal.state = "SUFFICIENT" => causal.did # Missing,
           Measured(S, asOf, causal)
    PROVE  OutcomeInv'
<1>. DEFINE measured == OutcomeOf(S, StartedAt, asOf)
            fresh == Joined(measured) = "SUFFICIENT" /\ lifecycle # "EVALUATED"
<1>1. /\ IF fresh /\ Accepted(asOf) THEN Evaluate(asOf) ELSE Await(asOf)
      /\ stored' = IF fresh THEN [measured EXCEPT !.causal = causal] ELSE stored
      /\ recorded' = recorded /\ posts' = posts /\ latest' = latest
  BY DEF Measured
<1>2. RecordedOK'
  BY <1>1 DEF OutcomeInv, RecordedOK
<1>3. AwaitedOK /\ asOf \in Int /\ EndedAt \in Int /\ DueAt(StartedAt) \in Int
  BY TimesInt DEF OutcomeInv
<1>4. CASE ~fresh
  <2>1. Await(asOf) /\ stored' = stored
    BY <1>1, <1>4
  <2>. QED  BY <1>1, <1>2, <2>1, AwaitKeepsStored DEF OutcomeInv
<1>5. CASE fresh
  <2>1. measured.state = "SUFFICIENT"
    BY <1>5, JoinNeedsEvidence
  <2>2. /\ asOf >= DueAt(StartedAt) /\ measured.lift \in Int /\ measured.assessment # "none"
        /\ (measured.assessment = "NEGATIVE") = (measured.lift < 0)
    BY <1>3, <2>1, SufficientOutcome
  <2>3. measured = [state |-> measured.state, lift |-> measured.lift,
                    assessment |-> measured.assessment, causal |-> measured.causal]
    BY DEF OutcomeOf
  <2>. HIDE DEF measured
  <2>4. stored' = [state |-> "SUFFICIENT", lift |-> measured.lift,
                   assessment |-> measured.assessment, causal |-> causal]
    BY <1>1, <1>5, <2>1, <2>3
  <2>5. StoredFitsPipeline'
    BY <2>2, <2>4, MissingAssumption DEF StoredFitsPipeline
  <2>6. CASE Accepted(asOf)
    <3>1. Evaluate(asOf)
      BY <1>1, <1>5, <2>6
    <3>2. lifecycle' = "EVALUATED" /\ (awaited' = asOf \/ awaited' = awaited)
      BY <3>1 DEF Evaluate
    <3>3. AwaitedOK' /\ StoredMeansEvaluated'
      BY <1>1, <1>3, <3>2 DEF AwaitedOK, StoredMeansEvaluated
    <3>. QED  BY <1>2, <2>5, <3>3 DEF OutcomeInv
  <2>7. CASE ~Accepted(asOf)
    <3>1. Await(asOf)
      BY <1>1, <2>7
    <3>2. AwaitedOK'
      BY <1>1, <1>3, <3>1, AwaitMoves
    <3>3. CASE HasEnded
      <4>1. asOf < EndedAt /\ EndedAt > DueAt(StartedAt)
        BY <1>3, <2>2, <2>7, <3>3 DEF Accepted
      <4>2. UNCHANGED <<lifecycle, awaited>>
        BY <1>3, <3>1, <4>1 DEF Await
      <4>3. HasEnded'
        BY <3>3, <4>2 DEF HasEnded
      <4>. QED  BY <1>2, <2>5, <3>2, <4>1, <4>3 DEF OutcomeInv, StoredMeansEvaluated
    <3>4. CASE ~HasEnded
      <4>1. lifecycle = "OUTCOME_PENDING" /\ awaited \in Int
        BY <1>3, <1>5, <3>4, TimesInt DEF AwaitedOK, HasEnded
      <4>2. asOf < awaited /\ awaited > DueAt(StartedAt)
        BY <1>3, <2>2, <2>7, <3>4, <4>1 DEF Accepted
      <4>3. UNCHANGED <<lifecycle, awaited>>
        BY <3>1, <3>4 DEF Await
      <4>4. ~HasEnded'
        BY <3>4, <4>3 DEF HasEnded
      <4>. QED  BY <1>2, <2>5, <3>2, <4>2, <4>3, <4>4 DEF OutcomeInv, StoredMeansEvaluated
    <3>. QED  BY <3>3, <3>4
  <2>. QED  BY <2>6, <2>7
<1>. QED  BY <1>4, <1>5

\* A replay of the feed is a set of observations too.
LEMMA ReplayIsObserved ==
    ASSUME NEW rows \in Replays
    PROVE  IsFiniteSet(ReplayedDays(rows)) /\ ReplayedDays(rows) \subseteq Observation
<1>1. IsFiniteSet(rows) /\ \A row \in rows : row.day \in Int /\ row.value \in Int
  BY MeasurementAssumption
<1>2. StartedAt \in Int /\ DayLength \in Int
  BY OutcomeAssumption, MeasurementAssumption
<1>3. ReplayedDays(rows) \subseteq Observation
  <2>1. \A row \in rows : StartedAt + row.day * DayLength \in Int
    BY <1>1, <1>2
  <2>. QED  BY <1>1, <2>1 DEF ReplayedDays, Observation
<1>. DEFINE f == [row \in rows |-> [at |-> StartedAt + row.day * DayLength, value |-> row.value]]
<1>4. f \in Surjection(rows, ReplayedDays(rows))
  BY DEF Surjection, ReplayedDays
<1>. QED  BY <1>1, <1>3, <1>4, FS_Surjection

LEMMA OutcomeInvariance == MeasurementSpec => []OutcomeInv
<1>1. OutcomeInv /\ [MeasurementNext]_measurement => OutcomeInv'
  <2>. SUFFICES ASSUME OutcomeInv, [MeasurementNext]_measurement PROVE OutcomeInv'
    OBVIOUS
  <2>1. CASE PostCheckpoints
    BY <2>1, PostKeepsOutcomes
  <2>6. CASE ApproveAgain
    BY <2>6 DEF ApproveAgain, OutcomeInv, RecordedOK, AwaitedOK, StoredMeansEvaluated,
                StoredFitsPipeline, HasEnded
  <2>2. CASE RefuseOutcome
    <3>1. PICK asOf \in AsOfs : Await(asOf)
      BY <2>2 DEF RefuseOutcome
    <3>2. recorded' = recorded /\ posts' = posts /\ latest' = latest /\ stored' = stored
      BY <2>2 DEF RefuseOutcome
    <3>3. RecordedOK'
      BY <3>2 DEF OutcomeInv, RecordedOK
    <3>. QED  BY <3>1, <3>2, <3>3, AwaitKeepsStored DEF OutcomeInv
  <2>3. CASE MeasurePosted
    <3>1. PICK S \in Posted, asOf \in AsOfs : Measured(S, asOf, NoCausal)
      BY <2>3 DEF MeasurePosted
    <3>2. IsFiniteSet(S) /\ S \subseteq Observation
      BY MeasurementAssumption
    <3>3. NoCausal.state # "SUFFICIENT"
      BY DEF NoCausal
    <3>. QED  BY <3>1, <3>2, <3>3, MeasuredKeepsOutcomes
  <2>4. CASE MeasureReplay
    <3>1. PICK rows \in Replays, asOf \in AsOfs, controls \in Controls :
             Measured(ReplayedDays(rows), asOf, CausalEvidence(controls))
      BY <2>4 DEF MeasureReplay
    <3>2. controls \in CausalRecord
      BY MeasurementAssumption
    <3>3. CausalEvidence(controls).state = "SUFFICIENT" => CausalEvidence(controls).did # Missing
      BY <3>2 DEF CausalEvidence, CausalRecord
    <3>. QED  BY <3>1, <3>3, ReplayIsObserved, MeasuredKeepsOutcomes
  <2>5. CASE UNCHANGED measurement
    BY <2>5 DEF measurement, OutcomeInv, RecordedOK, AwaitedOK, StoredMeansEvaluated,
                StoredFitsPipeline, HasEnded
  <2>. QED  BY <2>1, <2>2, <2>3, <2>4, <2>5, <2>6 DEF MeasurementNext
<1>. QED  BY <1>1, InitOutcomeInv, PTL DEF MeasurementSpec

-----------------------------------------------------------------------------
(* Checkpoints and the join.                                               *)

LEMMA RunReferenced ==
    ASSUME AwaitedOK, NEW outcome
    PROVE  Referenced(Recommended, Approval, Intervention(lifecycle), Joinable(outcome))
             <=> latest = "approval"
<1>1. lifecycle \in EvaluableStates
  BY DEF AwaitedOK, EvaluableStates
<1>2. StartedAt # Missing
  BY TimesInt, MissingAssumption
<1>. QED  BY <1>1, <1>2 DEF Referenced, Recommended, Approval, Intervention, Joinable

\* The chain names one store, one campaign and one timing window.
LEMMA RunAgrees ==
    ASSUME NEW outcome
    PROVE  /\ JoinConflicts(Recommended, Intervention(lifecycle), Joinable(outcome)) = {}
           /\ Campaigns({Recommended.campaign, Intervention(lifecycle).campaign,
                         Joinable(outcome).campaign})
                = IF RunCampaign = Missing THEN {} ELSE {CanonicalCampaign(RunCampaign)}
           /\ Timings({Recommended.timing, Intervention(lifecycle).timing,
                       Joinable(outcome).timing})
                = IF RunTiming = Missing THEN {} ELSE {CanonicalTiming(RunTiming)}
<1>. DEFINE labels == {Recommended.campaign, Intervention(lifecycle).campaign, Joinable(outcome).campaign}
            windows == {Recommended.timing, Intervention(lifecycle).timing, Joinable(outcome).timing}
<1>1. labels = {RunCampaign} /\ windows = {RunTiming}
  BY DEF Recommended, Intervention, Joinable
<1>2. /\ Campaigns(labels) = IF RunCampaign = Missing THEN {} ELSE {CanonicalCampaign(RunCampaign)}
      /\ Timings(windows) = IF RunTiming = Missing THEN {} ELSE {CanonicalTiming(RunTiming)}
  <2>1. Campaigns(labels) = IF RunCampaign = Missing THEN {} ELSE {CanonicalCampaign(RunCampaign)}
    BY <1>1 DEF Campaigns
  <2>2. Timings(windows) = IF RunTiming = Missing THEN {} ELSE {CanonicalTiming(RunTiming)}
    BY <1>1 DEF Timings
  <2>. QED  BY <2>1, <2>2
<1>. HIDE DEF labels, windows
<1>3. Cardinality(Campaigns(labels)) \in {0, 1} /\ Cardinality(Timings(windows)) \in {0, 1}
  BY <1>2, FS_EmptySet, FS_Singleton
<1>4. ~(Cardinality(Campaigns(labels)) > 1) /\ ~(Cardinality(Timings(windows)) > 1)
  BY <1>3
<1>5. Recommended.key = Intervention(lifecycle).key /\ Intervention(lifecycle).key = Joinable(outcome).key
  BY DEF Recommended, Intervention, Joinable
<1>. QED  BY <1>2, <1>4, <1>5 DEF JoinConflicts, labels, windows

LEMMA RunInOrder ==
    ASSUME NEW outcome, RecordedOK
    PROVE  InOrder(Recommended, Approval, Intervention(lifecycle), recorded, Joinable(outcome))
             <=> \A i \in DOMAIN recorded :
                    recorded[i].observed # Missing => recorded[i].observed >= recorded[i].due
<1>1. /\ StartedAt \in Int /\ EvaluationDays \in Nat /\ RecentDays \in Nat /\ DayLength \in Nat
      /\ RecentDays <= EvaluationDays
  BY OutcomeAssumption, MeasurementAssumption
<1>2. DueAt(StartedAt) >= StartedAt
  <2>1. EvaluationDays * DayLength \in Nat
    BY <1>1
  <2>. QED  BY <1>1, <2>1 DEF DueAt
<1>3. RecentFrom(StartedAt) >= StartedAt
  <2>1. (EvaluationDays - RecentDays) * DayLength >= 0
    <3>1. EvaluationDays - RecentDays \in Nat
      BY <1>1
    <3>. QED  BY <1>1, <3>1
  <2>2. (EvaluationDays - RecentDays) * DayLength = EvaluationDays * DayLength - RecentDays * DayLength
    BY <1>1
  <2>3. EvaluationDays * DayLength \in Int /\ RecentDays * DayLength \in Int
    BY <1>1
  <2>. QED  BY <1>1, <2>1, <2>2, <2>3 DEF RecentFrom, DueAt
<1>4. \A i \in DOMAIN recorded : recorded[i].due >= StartedAt
  BY DEF RecordedOK
<1>. QED  BY <1>1, <1>2, <1>3, <1>4
          DEF InOrder, Recommended, Approval, Intervention, Joinable

LEMMA RecordedElements ==
    ASSUME RecordedOK
    PROVE  /\ DOMAIN recorded \in SUBSET Nat
           /\ \A i \in DOMAIN recorded : recorded[i] \in Recordable
BY LenProperties, ElementOfSeq DEF RecordedOK

\* A checkpoint that is at fault with nothing is no reason to refuse.
LEMMA CleanCheckpoint ==
    ASSUME NEW c \in Recordable, ~Faulty(c), NEW outcome
    PROVE  /\ CheckpointState(c, Recommended, Intervention(lifecycle), Joinable(outcome)) = "SUFFICIENT"
           /\ c.observed # Missing => c.observed >= c.due
<1>0. Missing \notin CampaignEighteen /\ Missing \notin Afternoon
  <2>1. Missing \notin CampaignEighteen \cup Afternoon
    BY OutcomeAssumption
  <2>. QED  BY <2>1
<1>1. c.status # "INVALID" /\ c.status \in CheckpointStatuses
  BY DEF Faulty, Recordable
<1>2. c.observed # Missing => c.observed >= c.due
  BY DEF Faulty, Recordable
<1>3. c.campaign # Missing => /\ RunCampaign # Missing
                              /\ CanonicalCampaign(c.campaign) = CanonicalCampaign(RunCampaign)
  <2>. SUFFICES ASSUME c.campaign # Missing
                PROVE  /\ RunCampaign # Missing
                       /\ CanonicalCampaign(c.campaign) = CanonicalCampaign(RunCampaign)
    OBVIOUS
  <2>1. CanonicalCampaign(c.campaign) = CanonicalCampaign(RunCampaign)
    BY DEF Faulty
  <2>2. CanonicalCampaign(c.campaign) # Missing
    BY <1>0, Zenon DEF CanonicalCampaign, CampaignEighteen
  <2>3. RunCampaign = Missing => CanonicalCampaign(RunCampaign) = Missing
    BY <1>0 DEF CanonicalCampaign
  <2>. QED  BY <2>1, <2>2, <2>3
<1>4. c.timing # Missing => /\ RunTiming # Missing
                            /\ CanonicalTiming(c.timing) = CanonicalTiming(RunTiming)
  <2>. SUFFICES ASSUME c.timing # Missing
                PROVE  /\ RunTiming # Missing
                       /\ CanonicalTiming(c.timing) = CanonicalTiming(RunTiming)
    OBVIOUS
  <2>1. CanonicalTiming(c.timing) = CanonicalTiming(RunTiming)
    BY DEF Faulty
  <2>2. CanonicalTiming(c.timing) # Missing
    BY <1>0, Zenon DEF CanonicalTiming, Afternoon
  <2>3. RunTiming = Missing => CanonicalTiming(RunTiming) = Missing
    BY <1>0 DEF CanonicalTiming
  <2>. QED  BY <2>1, <2>2, <2>3
<1>5. c.key # Missing => c.key = Intervention(lifecycle).key
  BY DEF Faulty, Intervention
<1>6. CheckpointConflicts(c, Recommended, Intervention(lifecycle), Joinable(outcome)) = {}
  BY <1>3, <1>4, <1>5, RunAgrees DEF CheckpointConflicts
<1>. QED  BY <1>1, <1>2, <1>6 DEF CheckpointState

LEMMA CleanJoin ==
    ASSUME OutcomeInv, latest = "approval", \A i \in DOMAIN recorded : ~Faulty(recorded[i]),
           NEW outcome
    PROVE  Joined(outcome) = outcome.state
<1>. DEFINE run == Intervention(lifecycle)
            spoken == Joinable(outcome)
            refused == {i \in DOMAIN recorded :
                          CheckpointState(recorded[i], Recommended, run, spoken) # "SUFFICIENT"}
<1>1. \A i \in DOMAIN recorded :
         /\ CheckpointState(recorded[i], Recommended, run, spoken) = "SUFFICIENT"
         /\ recorded[i].observed # Missing => recorded[i].observed >= recorded[i].due
  BY RecordedElements, CleanCheckpoint DEF OutcomeInv
<1>2. refused = {}
  BY <1>1
<1>3. InOrder(Recommended, Approval, run, recorded, spoken)
  BY <1>1, RunInOrder DEF OutcomeInv
<1>4. JoinConflicts(Recommended, run, spoken) = {}
  BY RunAgrees
<1>5. Referenced(Recommended, Approval, run, spoken)
  BY RunReferenced DEF OutcomeInv
<1>6. spoken.state = outcome.state
  BY DEF Joinable
<1>. HIDE DEF run, spoken
<1>7. JoinState(Recommended, Approval, run, recorded, spoken) = spoken.state
  BY <1>2, <1>3, <1>4, <1>5 DEF JoinState
<1>. QED  BY <1>6, <1>7 DEF Joined, run, spoken

LEMMA FaultyJoin ==
    ASSUME OutcomeInv, NEW k \in DOMAIN recorded, Faulty(recorded[k]), NEW outcome
    PROVE  Joined(outcome) # "SUFFICIENT"
<1>. DEFINE run == Intervention(lifecycle)
            spoken == Joinable(outcome)
            State(i) == CheckpointState(recorded[i], Recommended, run, spoken)
            refused == {i \in DOMAIN recorded : State(i) # "SUFFICIENT"}
<1>. SUFFICES ASSUME Joined(outcome) = "SUFFICIENT" PROVE FALSE
  OBVIOUS
<1>1. JoinState(Recommended, Approval, run, recorded, spoken) = "SUFFICIENT"
  BY DEF Joined
<1>2. refused # {} => Min(refused) \in refused
  BY RecordedElements, MinOfNats DEF OutcomeInv
<1>3. refused = {} /\ InOrder(Recommended, Approval, run, recorded, spoken)
  <2>. HIDE DEF run, spoken
  <2>. DEFINE conflicts == JoinConflicts(Recommended, run, spoken)
  <2>1. JoinState(Recommended, Approval, run, recorded, spoken) =
           IF ~Referenced(Recommended, Approval, run, spoken) THEN "INVALID"
           ELSE IF spoken.state # "SUFFICIENT" THEN spoken.state
           ELSE IF conflicts # {} THEN ConflictState(conflicts)
           ELSE IF ~InOrder(Recommended, Approval, run, recorded, spoken) THEN "INVALID"
           ELSE IF refused # {} THEN State(Min(refused))
           ELSE "SUFFICIENT"
    BY DEF JoinState
  <2>3. ConflictState(conflicts) # "SUFFICIENT"
    BY DEF ConflictState
  <2>. HIDE DEF conflicts
  <2>2. refused # {} => State(Min(refused)) # "SUFFICIENT"
    BY <1>2
  <2>. HIDE DEF refused, State
  <2>. QED  BY <1>1, <2>1, <2>2, <2>3
<1>4. recorded[k] \in Recordable
  BY RecordedElements DEF OutcomeInv
<1>5. State(k) = "SUFFICIENT"
  BY <1>3
<1>6. recorded[k].observed # Missing => recorded[k].observed >= recorded[k].due
  BY <1>3, RunInOrder DEF OutcomeInv
<1>7. /\ recorded[k].status # "INVALID"
      /\ CheckpointConflicts(recorded[k], Recommended, run, spoken) = {}
  <2>. HIDE DEF run, spoken
  <2>. DEFINE conflicts == CheckpointConflicts(recorded[k], Recommended, run, spoken)
  <2>1. ConflictState(conflicts) # "SUFFICIENT"
    BY DEF ConflictState
  <2>2. State(k) = IF recorded[k].status \notin CheckpointStatuses \ {"INVALID"} THEN "INVALID"
                   ELSE IF conflicts # {} THEN ConflictState(conflicts)
                   ELSE "SUFFICIENT"
    BY DEF CheckpointState
  <2>. HIDE DEF conflicts
  <2>3. recorded[k].status \in CheckpointStatuses \ {"INVALID"} /\ conflicts = {}
    BY <1>5, <2>1, <2>2
  <2>. QED  BY <2>3 DEF conflicts
<1>8. /\ ~("key" \in CheckpointConflicts(recorded[k], Recommended, run, spoken))
      /\ ~("campaign" \in CheckpointConflicts(recorded[k], Recommended, run, spoken))
      /\ ~("timing" \in CheckpointConflicts(recorded[k], Recommended, run, spoken))
  BY <1>7
<1>9. recorded[k].key # Missing => recorded[k].key = "key"
  BY <1>8 DEF CheckpointConflicts, Intervention
<1>10. recorded[k].campaign # Missing =>
          CanonicalCampaign(recorded[k].campaign) = CanonicalCampaign(RunCampaign)
  BY <1>8, RunAgrees DEF CheckpointConflicts
<1>11. recorded[k].timing # Missing =>
          CanonicalTiming(recorded[k].timing) = CanonicalTiming(RunTiming)
  BY <1>8, RunAgrees DEF CheckpointConflicts
<1>. QED  BY <1>4, <1>6, <1>7, <1>9, <1>10, <1>11 DEF Faulty, Recordable

\* Nothing joins that names another approval than the log's latest.
LEMMA SupersededJoin ==
    ASSUME OutcomeInv, latest # "approval", NEW outcome
    PROVE  Joined(outcome) = "INVALID"
<1>1. ~Referenced(Recommended, Approval, Intervention(lifecycle), Joinable(outcome))
  BY RunReferenced DEF OutcomeInv
<1>. QED  BY <1>1 DEF Joined, JoinState

-----------------------------------------------------------------------------
\* Checkpoints are well formed, and an outcome is awaited from a time that was given.
THEOREM MeasurementTypeCorrect == MeasurementSpec => []MeasurementTypeOK
<1>1. OutcomeInv => MeasurementTypeOK
  <2>. SUFFICES ASSUME OutcomeInv PROVE MeasurementTypeOK
    OBVIOUS
  <2>1. \A i \in DOMAIN recorded : recorded[i].status \in CheckpointStatuses
    BY RecordedElements DEF OutcomeInv, Recordable
  <2>. QED  BY <2>1 DEF OutcomeInv, AwaitedOK, MeasurementTypeOK
<1>. QED  BY <1>1, OutcomeInvariance, PTL

\* An outcome the decisions build on is complete, was evaluated unless a request was
\* made too early, and was never held up by clean checkpoints.
THEOREM OutcomesAreSound == MeasurementSpec => []OutcomeIsSound
<1>1. OutcomeInv => OutcomeIsSound
  <2>. SUFFICES ASSUME OutcomeInv PROVE OutcomeIsSound
    OBVIOUS
  <2>1. CleanCheckpointsJoin
    BY CleanJoin DEF CleanCheckpointsJoin
  <2>. QED  BY <2>1 DEF OutcomeInv, OutcomeIsSound
<1>. QED  BY <1>1, OutcomeInvariance, PTL

\* What was recorded binds every request that follows: a faulty checkpoint is for ever,
\* so is a second approval, and an evaluation is final.
THEOREM RecordedOutcomesStay == MeasurementSpec => OutcomesStay
<1>1. OutcomeInv /\ [MeasurementNext]_measurement =>
         [lifecycle = "EVALUATED" => lifecycle' = "EVALUATED" /\ stored' = stored]_measurement
  <2>. SUFFICES ASSUME OutcomeInv, MeasurementNext, lifecycle = "EVALUATED"
                PROVE  lifecycle' = "EVALUATED" /\ stored' = stored
    OBVIOUS
  <2>1. \A asOf : Await(asOf) => lifecycle' = lifecycle
    BY DEF Await, HasEnded
  <2>2. CASE PostCheckpoints \/ ApproveAgain \/ RefuseOutcome
    BY <2>1, <2>2 DEF PostCheckpoints, ApproveAgain, RefuseOutcome
  <2>3. ASSUME NEW S, NEW asOf, NEW causal, Measured(S, asOf, causal)
        PROVE  lifecycle' = "EVALUATED" /\ stored' = stored
    BY <2>1, <2>3 DEF Measured
  <2>. QED  BY <2>2, <2>3 DEF MeasurementNext, MeasurePosted, MeasureReplay
<1>2. OutcomeInv /\ [MeasurementNext]_measurement =>
         [(\E i \in DOMAIN recorded : Faulty(recorded[i])) =>
             /\ stored' = stored
             /\ answer' # answer => answer' # "SUFFICIENT"
             /\ \E i \in DOMAIN recorded' : Faulty(recorded'[i])]_measurement
  <2>. SUFFICES ASSUME OutcomeInv, MeasurementNext, NEW k \in DOMAIN recorded, Faulty(recorded[k])
                PROVE  /\ stored' = stored
                       /\ answer' # answer => answer' # "SUFFICIENT"
                       /\ \E i \in DOMAIN recorded' : Faulty(recorded'[i])
    OBVIOUS
  <2>1. CASE PostCheckpoints
    <3>1. PICK items \in Provided, weeks \in 1 .. MaxWeeks, asOf \in AsOfs :
             recorded' = recorded \o Checkpoints(StartedAt, asOf, weeks, items)
      BY <2>1 DEF PostCheckpoints
    <3>. DEFINE new == Checkpoints(StartedAt, asOf, weeks, items)
    <3>2. recorded \in Seq(Recordable) /\ new \in Seq(Recordable)
      BY PostingRecordable DEF OutcomeInv, RecordedOK
    <3>. HIDE DEF new
    <3>3. k \in DOMAIN recorded' /\ recorded'[k] = recorded[k]
      BY <3>1, <3>2, ConcatProperties, LenProperties DEF new
    <3>. QED  BY <2>1, <3>3 DEF PostCheckpoints
  <2>2. CASE ApproveAgain \/ RefuseOutcome
    BY <2>2 DEF ApproveAgain, RefuseOutcome
  <2>3. ASSUME NEW S, NEW asOf, NEW causal, Measured(S, asOf, causal)
        PROVE  /\ stored' = stored
               /\ answer' # answer => answer' # "SUFFICIENT"
               /\ \E i \in DOMAIN recorded' : Faulty(recorded'[i])
    <3>1. Joined(OutcomeOf(S, StartedAt, asOf)) # "SUFFICIENT"
      BY FaultyJoin
    <3>. QED  BY <2>3, <3>1 DEF Measured
  <2>. QED  BY <2>1, <2>2, <2>3 DEF MeasurementNext, MeasurePosted, MeasureReplay
<1>3. MeasurementSpec => StoredOnce
  BY <1>1, OutcomeInvariance, PTL DEF StoredOnce, MeasurementSpec
<1>4. MeasurementSpec => FaultyCheckpointIsForever
  BY <1>2, OutcomeInvariance, PTL DEF FaultyCheckpointIsForever, MeasurementSpec
<1>5. OutcomeInv /\ [MeasurementNext]_measurement =>
         [latest # "approval" =>
             /\ latest' = latest /\ stored' = stored
             /\ answer' # answer => answer' # "SUFFICIENT"]_measurement
  <2>. SUFFICES ASSUME OutcomeInv, MeasurementNext, latest # "approval"
                PROVE  /\ latest' = latest /\ stored' = stored
                       /\ answer' # answer => answer' # "SUFFICIENT"
    OBVIOUS
  <2>1. CASE PostCheckpoints \/ ApproveAgain \/ RefuseOutcome
    BY <2>1 DEF PostCheckpoints, ApproveAgain, RefuseOutcome
  <2>2. ASSUME NEW S, NEW asOf, NEW causal, Measured(S, asOf, causal)
        PROVE  /\ latest' = latest /\ stored' = stored
               /\ answer' # answer => answer' # "SUFFICIENT"
    <3>1. Joined(OutcomeOf(S, StartedAt, asOf)) = "INVALID"
      BY SupersededJoin
    <3>. QED  BY <2>2, <3>1 DEF Measured
  <2>. QED  BY <2>1, <2>2 DEF MeasurementNext, MeasurePosted, MeasureReplay
<1>6. MeasurementSpec => SecondApprovalBlocks
  BY <1>5, OutcomeInvariance, PTL DEF SecondApprovalBlocks, MeasurementSpec
<1>. QED  BY <1>3, <1>4, <1>6 DEF OutcomesStay

\* A property of the empty set that adding an element keeps holds of a finite set.
LEMMA SetInduct ==
    ASSUME NEW S, IsFiniteSet(S), NEW Good, {} \in Good,
           \A T \in SUBSET S : \A x \in S \ T : T \in Good => T \cup {x} \in Good
    PROVE  S \in Good
<1>. DEFINE Size == {n \in Nat : \A T \in SUBSET S : Cardinality(T) = n => T \in Good}
<1>0. \A T \in SUBSET S : IsFiniteSet(T) /\ Cardinality(T) \in Nat
  BY FS_Subset, FS_CardinalityType
<1>1. 0 \in Size
  BY <1>0, FS_EmptySet
<1>2. ASSUME NEW n \in Nat, n \in Size PROVE n + 1 \in Size
  <2>1. ASSUME NEW T \in SUBSET S, Cardinality(T) = n + 1 PROVE T \in Good
    <3>0. Cardinality({}) = 0
      BY FS_EmptySet
    <3>1. T # {}
      BY <2>1, <3>0
    <3>2. PICK x \in T : TRUE
      BY <3>1
    <3>3. Cardinality(T \ {x}) = n /\ T \ {x} \in SUBSET S /\ x \in S \ (T \ {x})
      BY <1>0, <2>1, FS_RemoveElement
    <3>4. T \ {x} \in Good
      BY <1>2, <3>3
    <3>5. (T \ {x}) \cup {x} \in Good
      BY <3>3, <3>4
    <3>6. (T \ {x}) \cup {x} = T
      OBVIOUS
    <3>. QED  BY <3>5, <3>6
  <2>. QED  BY <2>1
<1>3. Cardinality(S) \in Size
  <2>. HIDE DEF Size
  <2>1. Nat \subseteq Size
    BY <1>1, <1>2, NatInduct
  <2>. QED  BY <1>0, <2>1
<1>. QED  BY <1>0, <1>3

\* The values of a function are finitely many, and no more than its arguments.
LEMMA ValuesFinite ==
    ASSUME NEW S, IsFiniteSet(S), NEW f
    PROVE  IsFiniteSet({f[x] : x \in S}) /\ Cardinality({f[x] : x \in S}) <= Cardinality(S)
<1>. DEFINE T == {f[x] : x \in S}
            g == [x \in S |-> f[x]]
<1>1. g \in Surjection(S, T)
  <2>1. g \in [S -> T]
    OBVIOUS
  <2>2. \A y \in T : \E x \in S : g[x] = y
    OBVIOUS
  <2>. QED  BY <2>1, <2>2 DEF Surjection
<1>. QED  BY <1>1, FS_Surjection

LEMMA SumWhole ==
    ASSUME NEW S, IsFiniteSet(S), NEW val \in [S -> Int],
           NEW g \in [SUBSET S -> Int], Sums(g, SUBSET S, val), NEW x \in S
    PROVE  g[S] = val[x] + g[S \ {x}]
<1>1. \A s \in SUBSET S : x \in s => g[s] = val[x] + g[s \ {x}]
  BY SumAnyElement
<1>2. S \in SUBSET S
  OBVIOUS
<1>. QED  BY <1>1, <1>2

\* The sum of f over T.
SumOn(f, T) == SumFunction([y \in T |-> f[y]])

LEMMA SumOnEmpty == ASSUME NEW f PROVE SumOn(f, {}) = 0
<1>. DEFINE val == [y \in {} |-> f[y]]
<1>1. val \in [{} -> Int] /\ IsFiniteSet({})
  BY FS_EmptySet
<1>2. SumOn(f, {}) = SumFunction(val)
  BY DEF SumOn
<1>. HIDE DEF val
<1>3. PICK g \in [SUBSET {} -> Int] : Sums(g, SUBSET {}, val) /\ SumFunction(val) = g[{}]
  BY <1>1, SumIs
<1>4. g[{}] = 0
  BY <1>3 DEF Sums
<1>. QED  BY <1>2, <1>3, <1>4

LEMMA SumOnAdd ==
    ASSUME NEW S, IsFiniteSet(S), NEW f \in [S -> Int], NEW T \in SUBSET S, NEW x \in S \ T
    PROVE  /\ SumOn(f, T) \in Int /\ SumOn(f, T \cup {x}) \in Int
           /\ SumOn(f, T \cup {x}) = f[x] + SumOn(f, T)
<1>. DEFINE U == T \cup {x}
            big == [y \in U |-> f[y]]
            small == [y \in T |-> f[y]]
<1>1. /\ IsFiniteSet(U) /\ IsFiniteSet(T) /\ big \in [U -> Int] /\ small \in [T -> Int]
      /\ big[x] = f[x] /\ U \ {x} = T /\ x \in U /\ U \in SUBSET U /\ SUBSET T \subseteq SUBSET U
  BY FS_Subset
<1>2. SumOn(f, U) = SumFunction(big) /\ SumOn(f, T) = SumFunction(small)
  BY DEF SumOn
<1>3. \A y \in T : big[y] = small[y]
  OBVIOUS
<1>. HIDE DEF big, small, U
<1>4. PICK g \in [SUBSET U -> Int] : Sums(g, SUBSET U, big) /\ SumFunction(big) = g[U]
  BY <1>1, SumIs
<1>5. PICK h \in [SUBSET T -> Int] : Sums(h, SUBSET T, small) /\ SumFunction(small) = h[T]
  BY <1>1, SumIs
<1>6. g[U] = big[x] + g[U \ {x}]
  BY <1>1, <1>4, SumWhole
<1>. DEFINE r == [s \in SUBSET T |-> g[s]]
<1>7. \A s \in SUBSET T : r[s] = IF s = {} THEN 0 ELSE small[Pick(s)] + r[s \ {Pick(s)}]
  <2>1. \A s \in SUBSET U : g[s] = IF s = {} THEN 0 ELSE big[Pick(s)] + g[s \ {Pick(s)}]
    BY <1>4 DEF Sums
  <2>2. SUFFICES ASSUME NEW s \in SUBSET T
                 PROVE  g[s] = IF s = {} THEN 0 ELSE small[Pick(s)] + r[s \ {Pick(s)}]
    OBVIOUS
  <2>3. g[s] = IF s = {} THEN 0 ELSE big[Pick(s)] + g[s \ {Pick(s)}]
    BY <1>1, <2>1
  <2>4. CASE s = {}
    BY <2>3, <2>4
  <2>5. CASE s # {}
    <3>1. Pick(s) \in T /\ s \ {Pick(s)} \in SUBSET T
      BY <2>5 DEF Pick
    <3>2. big[Pick(s)] = small[Pick(s)] /\ r[s \ {Pick(s)}] = g[s \ {Pick(s)}]
      BY <1>3, <3>1
    <3>. QED  BY <2>3, <2>5, <3>2
  <2>. QED  BY <2>4, <2>5
<1>8. Sums(r, SUBSET T, small)
  BY <1>7 DEF Sums
<1>9. r[T] = g[T]
  OBVIOUS
<1>. HIDE DEF r
<1>10. r = h
  BY <1>1, <1>5, <1>8, SumsUnique
<1>11. g[U \ {x}] = SumFunction(small)
  BY <1>1, <1>5, <1>9, <1>10
<1>12. h[T] \in Int /\ g[U] \in Int
  BY <1>1
<1>13. SumFunction(small) \in Int /\ SumFunction(big) \in Int
  BY <1>4, <1>5, <1>12
<1>. QED  BY <1>1, <1>2, <1>4, <1>6, <1>11, <1>13 DEF U

LEMMA SumOnAdds ==
    ASSUME NEW S, IsFiniteSet(S), NEW f \in [S -> Int]
    PROVE  \A T \in SUBSET S : \A x \in S \ T :
              /\ SumOn(f, T) \in Int /\ SumOn(f, T \cup {x}) \in Int
              /\ SumOn(f, T \cup {x}) = f[x] + SumOn(f, T)
BY SumOnAdd

LEMMA SumOnInt ==
    ASSUME NEW S, IsFiniteSet(S), NEW f \in [S -> Int]
    PROVE  \A T \in SUBSET S : SumOn(f, T) \in Int
<1>1. SUFFICES ASSUME NEW T \in SUBSET S, T # {} PROVE SumOn(f, T) \in Int
  BY SumOnEmpty
<1>2. PICK y \in T : TRUE
  BY <1>1
<1>3. (T \ {y}) \cup {y} = T /\ T \ {y} \in SUBSET S /\ y \in S \ (T \ {y})
  BY <1>2
<1>4. SumOn(f, (T \ {y}) \cup {y}) \in Int
  BY <1>3, SumOnAdds
<1>. QED  BY <1>3, <1>4

\* A smaller function has a smaller sum.
LEMMA SumOnMono ==
    ASSUME NEW S, IsFiniteSet(S), NEW f \in [S -> Int], NEW h \in [S -> Int]
    PROVE  \A P \in SUBSET S : (\A y \in P : f[y] <= h[y]) => SumOn(f, P) <= SumOn(h, P)
<1>8. \A T \in SUBSET S : \A x \in S \ T :
          /\ SumOn(f, T) \in Int /\ SumOn(f, T \cup {x}) \in Int
          /\ SumOn(f, T \cup {x}) = f[x] + SumOn(f, T)
  BY SumOnAdds
<1>9. \A T \in SUBSET S : \A x \in S \ T :
          /\ SumOn(h, T) \in Int /\ SumOn(h, T \cup {x}) \in Int
          /\ SumOn(h, T \cup {x}) = h[x] + SumOn(h, T)
  BY SumOnAdds
<1>. SUFFICES ASSUME NEW P \in SUBSET S, \A y \in P : f[y] <= h[y]
              PROVE  SumOn(f, P) <= SumOn(h, P)
  OBVIOUS
<1>. DEFINE Good == {T \in SUBSET P : SumOn(f, T) <= SumOn(h, T)}
<1>0. IsFiniteSet(P)
  BY FS_Subset
<1>1. {} \in Good
  BY SumOnEmpty
<1>2. ASSUME NEW T \in SUBSET P, NEW x \in P \ T, T \in Good PROVE T \cup {x} \in Good
  <2>0. T \in SUBSET S /\ x \in S \ T
    OBVIOUS
  <2>1. /\ SumOn(f, T) \in Int /\ SumOn(f, T \cup {x}) = f[x] + SumOn(f, T)
        /\ SumOn(h, T) \in Int /\ SumOn(h, T \cup {x}) = h[x] + SumOn(h, T)
    BY <1>8, <1>9, <2>0
  <2>2. f[x] \in Int /\ h[x] \in Int /\ f[x] <= h[x]
    OBVIOUS
  <2>3. SumOn(f, T \cup {x}) <= SumOn(h, T \cup {x})
    BY <1>2, <2>1, <2>2
  <2>. QED  BY <2>3
<1>. HIDE DEF Good
<1>3. P \in Good
  BY <1>0, <1>1, <1>2, SetInduct
<1>. QED  BY <1>3 DEF Good

\* What one element gains, the sum gains at least.
LEMMA SumOnShift ==
    ASSUME NEW S, IsFiniteSet(S), NEW f \in [S -> Int], NEW h \in [S -> Int],
           \A y \in S : f[y] <= h[y],
           NEW x \in S, NEW d \in Int, f[x] <= h[x] - d
    PROVE  SumOn(f, S) <= SumOn(h, S) - d
<1>. DEFINE R == S \ {x}
<1>1. R \in SUBSET S /\ x \in S \ R /\ R \cup {x} = S /\ f[x] \in Int /\ h[x] \in Int
  OBVIOUS
<1>. HIDE DEF R
<1>2. /\ SumOn(f, R) \in Int /\ SumOn(f, R \cup {x}) = f[x] + SumOn(f, R)
      /\ SumOn(h, R) \in Int /\ SumOn(h, R \cup {x}) = h[x] + SumOn(h, R)
  BY <1>1, SumOnAdds
<1>3. SumOn(f, R) <= SumOn(h, R)
  BY <1>1, SumOnMono
<1>4. SumOn(f, S) = f[x] + SumOn(f, R) /\ SumOn(h, S) = h[x] + SumOn(h, R)
  BY <1>1, <1>2
<1>. QED  BY <1>1, <1>2, <1>3, <1>4

LEMMA Distributes == \A a, b, c \in Int : a * (b + c) = a * b + a * c /\ (b + c) * a = b * a + c * a
OBVIOUS

\* Values that reach a bound, or stay under it, sum to as many times the bound.
LEMMA SumAtLeast ==
    ASSUME NEW S, IsFiniteSet(S), NEW f \in [S -> Int], NEW q \in Int, NEW c \in Int
    PROVE  \A P \in SUBSET S :
              (\A y \in P : q * f[y] >= c) => q * SumOn(f, P) >= Cardinality(P) * c
<1>8. \A T \in SUBSET S : \A x \in S \ T :
          /\ SumOn(f, T) \in Int /\ SumOn(f, T \cup {x}) \in Int
          /\ SumOn(f, T \cup {x}) = f[x] + SumOn(f, T)
  BY SumOnAdds
<1>. SUFFICES ASSUME NEW P \in SUBSET S, \A y \in P : q * f[y] >= c
              PROVE  q * SumOn(f, P) >= Cardinality(P) * c
  OBVIOUS
<1>. DEFINE Good == {T \in SUBSET P : q * SumOn(f, T) >= Cardinality(T) * c}
<1>0. IsFiniteSet(P) /\ \A T \in SUBSET P : IsFiniteSet(T) /\ Cardinality(T) \in Nat
  BY FS_Subset, FS_CardinalityType
<1>1. {} \in Good
  BY SumOnEmpty, FS_EmptySet
<1>2. ASSUME NEW T \in SUBSET P, NEW x \in P \ T, T \in Good PROVE T \cup {x} \in Good
  <2>. DEFINE s == SumOn(f, T)
              n == Cardinality(T)
  <2>0. T \in SUBSET S /\ x \in S \ T
    OBVIOUS
  <2>1. s \in Int /\ SumOn(f, T \cup {x}) = f[x] + s
    BY <1>8, <2>0
  <2>2. n \in Nat /\ Cardinality(T \cup {x}) = n + 1
    BY <1>0, FS_AddElement
  <2>3. f[x] \in Int /\ q * f[x] >= c /\ q * s >= n * c
    BY <1>2
  <2>. HIDE DEF s, n
  <2>4. q * (f[x] + s) = q * f[x] + q * s /\ (n + 1) * c = n * c + c
    BY <2>1, <2>2, <2>3, Distributes
  <2>. DEFINE qf == q * f[x] qs == q * s nc == n * c
  <2>5. qf \in Int /\ qs \in Int /\ nc \in Int
    BY <2>1, <2>2, <2>3
  <2>6. qf >= c /\ qs >= nc /\ q * (f[x] + s) = qf + qs /\ (n + 1) * c = nc + c
    BY <2>3, <2>4
  <2>. HIDE DEF qf, qs, nc
  <2>7. q * (f[x] + s) >= (n + 1) * c
    BY <2>5, <2>6
  <2>. QED  BY <2>1, <2>2, <2>7
<1>. HIDE DEF Good
<1>3. P \in Good
  BY <1>0, <1>1, <1>2, SetInduct
<1>. QED  BY <1>3 DEF Good

LEMMA SumAtMost ==
    ASSUME NEW S, IsFiniteSet(S), NEW f \in [S -> Int], NEW q \in Int, NEW c \in Int
    PROVE  \A P \in SUBSET S :
              (\A y \in P : q * f[y] <= c) => q * SumOn(f, P) <= Cardinality(P) * c
<1>. SUFFICES ASSUME NEW P \in SUBSET S, \A y \in P : q * f[y] <= c
              PROVE  q * SumOn(f, P) <= Cardinality(P) * c
  OBVIOUS
<1>. DEFINE r == -q
            e == -c
<1>1. r \in Int /\ e \in Int
  OBVIOUS
<1>2. \A y \in P : r * f[y] >= e
  <2>1. SUFFICES ASSUME NEW y \in P PROVE r * f[y] >= e
    OBVIOUS
  <2>2. f[y] \in Int /\ q * f[y] <= c /\ q * f[y] \in Int /\ r * f[y] = -(q * f[y])
    OBVIOUS
  <2>. QED  BY <2>2
<1>3. SumOn(f, P) \in Int /\ Cardinality(P) \in Nat
  BY SumOnInt, FS_Subset, FS_CardinalityType
<1>. HIDE DEF r, e
<1>4. r * SumOn(f, P) >= Cardinality(P) * e
  BY <1>1, <1>2, SumAtLeast
<1>. DEFINE s == SumOn(f, P)
            n == Cardinality(P)
<1>5. s \in Int /\ n \in Int /\ r * s >= n * e
  BY <1>3, <1>4
<1>. HIDE DEF s, n
<1>6. r * s = -(q * s) /\ n * e = -(n * c) /\ q * s \in Int /\ n * c \in Int
  BY <1>5 DEF r, e
<1>7. q * s <= n * c
  <2>. DEFINE a == q * s b == n * c
  <2>1. a \in Int /\ b \in Int /\ -a >= -b
    BY <1>5, <1>6
  <2>. HIDE DEF a, b
  <2>2. a <= b
    BY <2>1
  <2>. QED  BY <2>2 DEF a, b
<1>. QED  BY <1>7 DEF s, n

\* A sum of naturals over a part is no more than the sum over the whole.
LEMMA SumOnPart ==
    ASSUME NEW S, IsFiniteSet(S), NEW f \in [S -> Int], NEW T \in SUBSET S,
           \A y \in S \ T : f[y] >= 0
    PROVE  SumOn(f, T) <= SumOn(f, S)
<1>. DEFINE Good == {U \in SUBSET S : SumOn(f, T) <= SumOn(f, T \cup U)}
<1>1. {} \in Good
  <2>1. T \cup {} = T
    OBVIOUS
  <2>3. SumOn(f, T) \in Int
    BY SumOnInt
  <2>. QED  BY <2>1, <2>3
<1>2. ASSUME NEW U \in SUBSET S, NEW x \in S \ U, U \in Good PROVE U \cup {x} \in Good
  <2>1. CASE x \in T
    <3>1. T \cup (U \cup {x}) = T \cup U
      BY <2>1
    <3>. QED  BY <1>2, <3>1
  <2>2. CASE x \notin T
    <3>. DEFINE V == T \cup U
    <3>1. T \cup (U \cup {x}) = V \cup {x} /\ V \in SUBSET S /\ x \in S \ V
      BY <2>2
    <3>3. f[x] \in Int /\ f[x] >= 0 /\ SumOn(f, T) <= SumOn(f, V)
      BY <1>2, <2>2
    <3>. HIDE DEF V
    <3>2. SumOn(f, V) \in Int /\ SumOn(f, V \cup {x}) = f[x] + SumOn(f, V)
      BY <3>1, SumOnAdds
    <3>4. SumOn(f, T) \in Int
      BY SumOnInt
    <3>5. SumOn(f, T) <= SumOn(f, V \cup {x})
      BY <3>2, <3>3, <3>4
    <3>. QED  BY <3>1, <3>5
  <2>. QED  BY <2>1, <2>2
<1>. HIDE DEF Good
<1>3. S \in Good
  BY <1>1, <1>2, SetInduct
<1>4. T \cup S = S
  OBVIOUS
<1>. QED  BY <1>3, <1>4 DEF Good

\* What has no value outside a part sums to the part's sum.
LEMMA SumOnSupport ==
    ASSUME NEW S, IsFiniteSet(S), NEW f \in [S -> Int], NEW T \in SUBSET S,
           \A y \in S \ T : f[y] = 0
    PROVE  SumOn(f, T) = SumOn(f, S)
<1>8. \A V \in SUBSET S : \A x \in S \ V :
          /\ SumOn(f, V) \in Int /\ SumOn(f, V \cup {x}) \in Int
          /\ SumOn(f, V \cup {x}) = f[x] + SumOn(f, V)
  BY SumOnAdds
<1>. DEFINE Good == {U \in SUBSET S : SumOn(f, T) = SumOn(f, T \cup U)}
<1>1. {} \in Good
  <2>1. T \cup {} = T
    OBVIOUS
  <2>. QED  BY <2>1
<1>2. ASSUME NEW U \in SUBSET S, NEW x \in S \ U, U \in Good PROVE U \cup {x} \in Good
  <2>1. CASE x \in T
    <3>1. T \cup (U \cup {x}) = T \cup U
      BY <2>1
    <3>. QED  BY <1>2, <3>1
  <2>2. CASE x \notin T
    <3>. DEFINE V == T \cup U
    <3>1. T \cup (U \cup {x}) = V \cup {x} /\ V \in SUBSET S /\ x \in S \ V
      BY <2>2
    <3>3. f[x] = 0 /\ SumOn(f, T) = SumOn(f, V)
      BY <1>2, <2>2
    <3>. HIDE DEF V
    <3>2. SumOn(f, V) \in Int /\ SumOn(f, V \cup {x}) = f[x] + SumOn(f, V)
      BY <1>8, <3>1
    <3>5. SumOn(f, T) = SumOn(f, V \cup {x})
      BY <3>2, <3>3
    <3>. QED  BY <3>1, <3>5
  <2>. QED  BY <2>1, <2>2
<1>. HIDE DEF Good
<1>3. S \in Good
  BY <1>1, <1>2, SetInduct
<1>4. T \cup S = S
  OBVIOUS
<1>. QED  BY <1>3, <1>4 DEF Good

\* Naturals that sum to nothing are nothing.
LEMMA SumOnZero ==
    ASSUME NEW S, IsFiniteSet(S), NEW f \in [S -> Int], \A y \in S : f[y] >= 0,
           SumOn(f, S) <= 0
    PROVE  \A y \in S : f[y] = 0
<1>. SUFFICES ASSUME NEW y \in S PROVE f[y] <= 0
  OBVIOUS
<1>1. {} \cup {y} = {y} /\ y \in S \ {} /\ {} \in SUBSET S /\ {y} \in SUBSET S
  OBVIOUS
<1>2. \A V \in SUBSET S : \A x \in S \ V :
          /\ SumOn(f, V) \in Int /\ SumOn(f, V \cup {x}) \in Int
          /\ SumOn(f, V \cup {x}) = f[x] + SumOn(f, V)
  BY SumOnAdds
<1>3. SumOn(f, {} \cup {y}) = f[y] + SumOn(f, {})
  BY <1>1, <1>2
<1>4. SumOn(f, {y}) = f[y]
  BY <1>1, <1>3, SumOnEmpty
<1>5. SumOn(f, {y}) <= SumOn(f, S)
  BY <1>1, SumOnPart
<1>6. f[y] \in Int /\ SumOn(f, S) \in Int
  BY SumOnInt
<1>. QED  BY <1>4, <1>5, <1>6

LEMMA FiniteImage ==
    ASSUME NEW S, IsFiniteSet(S), NEW f
    PROVE  IsFiniteSet({f[x] : x \in S})
<1>. DEFINE Image(T) == {f[x] : x \in T}
            Good == {T \in SUBSET S : IsFiniteSet(Image(T))}
<1>1. {} \in Good
  <2>1. Image({}) = {}
    OBVIOUS
  <2>. QED  BY <2>1, FS_EmptySet
<1>2. ASSUME NEW T \in SUBSET S, NEW x \in S \ T, T \in Good PROVE T \cup {x} \in Good
  <2>1. Image(T \cup {x}) = Image(T) \cup {f[x]}
    OBVIOUS
  <2>2. IsFiniteSet(Image(T))
    BY <1>2
  <2>3. T \cup {x} \in SUBSET S
    OBVIOUS
  <2>. DEFINE J == Image(T)
  <2>4. IsFiniteSet(J)
    BY <2>2
  <2>. HIDE DEF J
  <2>5. IsFiniteSet(J \cup {f[x]})
    BY <2>4, FS_AddElement
  <2>6. IsFiniteSet(Image(T \cup {x}))
    BY <2>1, <2>5 DEF J
  <2>. QED  BY <2>3, <2>6
<1>. HIDE DEF Good
<1>3. S \in Good
  BY <1>1, <1>2, SetInduct
<1>. QED  BY <1>3 DEF Good

-----------------------------------------------------------------------------
(* Products and quotients.                                                 *)

LEMMA TimesGrows ==
    \A a, b \in Int : \A c \in Nat : a <= b => a * c <= b * c /\ c * a <= c * b
OBVIOUS

LEMMA TimesCancels ==
    ASSUME NEW a \in Int, NEW b \in Int, NEW c \in Nat \ {0}, a * c <= b * c
    PROVE  a <= b
<1>. SUFFICES ASSUME b + 1 <= a PROVE FALSE
  OBVIOUS
<1>1. (b + 1) * c <= a * c
  BY TimesGrows
<1>2. (b + 1) * c = b * c + c
  BY Distributes
<1>. DEFINE bc == b * c ac == a * c
<1>3. bc \in Int /\ ac \in Int /\ ac <= bc /\ bc + c <= ac
  BY <1>1, <1>2
<1>. HIDE DEF bc, ac
<1>. QED  BY <1>3

LEMMA Quotient ==
    ASSUME NEW a \in Int, NEW b \in Nat \ {0}
    PROVE  /\ a \div b \in Int
           /\ (a \div b) * b <= a /\ a < (a \div b) * b + b
OBVIOUS

\* A quotient is the greatest number that, times the divisor, stays within it.
LEMMA QuotientIsGreatest ==
    ASSUME NEW a \in Int, NEW b \in Nat \ {0}, NEW y \in Int, y * b <= a
    PROVE  y <= a \div b
<1>. DEFINE q == a \div b
<1>1. q \in Int /\ a < q * b + b
  BY Quotient
<1>. HIDE DEF q
<1>2. (q + 1) * b = q * b + b
  BY <1>1, Distributes
<1>. DEFINE qb == q * b yb == y * b
<1>3. qb \in Int /\ yb \in Int /\ yb <= a /\ a < qb + b
  BY <1>1
<1>. SUFFICES ASSUME q + 1 <= y PROVE FALSE
  BY <1>1 DEF q
<1>4. (q + 1) * b <= y * b
  BY <1>1, TimesGrows
<1>. HIDE DEF qb, yb
<1>5. qb + b <= yb
  BY <1>2, <1>4 DEF qb, yb
<1>. QED  BY <1>3, <1>5

LEMMA QuotientGrows ==
    ASSUME NEW a \in Int, NEW c \in Int, NEW b \in Nat \ {0}, a <= c
    PROVE  a \div b <= c \div b
<1>. DEFINE q == a \div b
<1>1. q \in Int /\ q * b <= a
  BY Quotient
<1>. HIDE DEF q
<1>2. q * b \in Int
  BY <1>1
<1>3. q * b <= c
  BY <1>1, <1>2
<1>4. q <= c \div b
  BY <1>1, <1>3, QuotientIsGreatest
<1>. QED  BY <1>4 DEF q

-----------------------------------------------------------------------------
(* The scores of an allocation, and the rounds that cap them.              *)

Competing == {i \in DOMAIN list : Competes(list[i])}
ScoreFunction == [sid \in Sids |-> Score(sid)]

\* What scoring leaves, and every round keeps: a store is only ever capped by a
\* score above the others', and never the last quarter is taken.
Scores ==
    /\ list \in Seq(Candidate) /\ total \in Int /\ total > 0
    /\ \A i \in DOMAIN list : ValidCandidate(list[i])
    /\ scored = {[at |-> i, sid |-> list[i].sid,
                  score |-> ExpectedMargin(list[i]) * list[i].confidence] : i \in Competing}
    /\ left \subseteq Sids
    /\ Quarters >= 1
    /\ \A c \in Sids \ left : Score(c) > 0 /\ \A l \in left : Score(c) >= Score(l)

LEMMA CompetingFinite == list \in Seq(Candidate) => IsFiniteSet(Competing)
<1>1. SUFFICES ASSUME list \in Seq(Candidate) PROVE IsFiniteSet(Competing)
  OBVIOUS
<1>2. DOMAIN list = 1 .. Len(list) /\ Len(list) \in Int /\ 1 \in Int
  BY <1>1
<1>3. IsFiniteSet(1 .. Len(list))
  BY <1>2, FS_Interval
<1>. QED  BY <1>2, <1>3, FS_Subset DEF Competing

\* A competing candidate's score is a natural, positive with its confidence.
LEMMA ScoreOf ==
    ASSUME NEW c \in Candidate, ValidCandidate(c), Competes(c)
    PROVE  /\ ExpectedMargin(c) * c.confidence \in Nat
           /\ ExpectedMargin(c) * c.confidence > 0 <=> c.confidence > 0
<1>1. ExpectedMargin(c) > 0 /\ c.confidence \in Nat
  BY DEF ValidCandidate, Competes
<1>2. ExpectedMargin(c) \in Int
  <2>. DEFINE m == 3 * c.baseline * c.lift * c.rate
  <2>1. c.baseline \in Int /\ c.lift \in Int /\ c.rate \in Int /\ c.cost \in Int
    BY DEF Candidate
  <2>2. m \in Int
    BY <2>1
  <2>. HIDE DEF m
  <2>3. m - c.cost \in Int
    BY <2>1, <2>2
  <2>. QED  BY <2>3 DEF ExpectedMargin, m
<1>. DEFINE a == ExpectedMargin(c) b == c.confidence
<1>3. a \in Nat /\ a > 0 /\ b \in Nat
  BY <1>1, <1>2
<1>. HIDE DEF a, b
<1>4. a * b \in Nat /\ (a * b > 0 <=> b > 0)
  <2>1. CASE b = 0
    BY <1>3, <2>1
  <2>2. CASE b # 0
    <3>1. 1 <= b /\ b \in Int
      BY <1>3, <2>2
    <3>2. a * 1 <= a * b
      BY <1>3, <3>1, TimesGrows
    <3>. DEFINE p == a * b
    <3>3. p \in Int /\ a <= p
      BY <1>3, <3>2
    <3>. HIDE DEF p
    <3>4. p \in Nat /\ p > 0
      BY <1>3, <3>3
    <3>. QED  BY <1>3, <3>1, <3>4 DEF p
  <2>. QED  BY <2>1, <2>2
<1>. QED  BY <1>4 DEF a, b

LEMMA ScoredItems ==
    Scores => /\ IsFiniteSet(scored) /\ IsFiniteSet(Sids)
              /\ \A item \in scored : /\ item.score \in Nat
                                      /\ item.at \in Competing
                                      /\ item.sid = list[item.at].sid
                                      /\ item.score > 0 => list[item.at].confidence > 0
              /\ \A i \in Competing : \E item \in scored : item.at = i /\ item.sid = list[i].sid
<1>1. SUFFICES ASSUME Scores
               PROVE  /\ IsFiniteSet(scored) /\ IsFiniteSet(Sids)
                      /\ \A item \in scored : /\ item.score \in Nat
                                              /\ item.at \in Competing
                                              /\ item.sid = list[item.at].sid
                                              /\ item.score > 0 => list[item.at].confidence > 0
                      /\ \A i \in Competing : \E item \in scored : item.at = i /\ item.sid = list[i].sid
  OBVIOUS
<1>. DEFINE entry == [i \in Competing |-> [at |-> i, sid |-> list[i].sid,
                        score |-> ExpectedMargin(list[i]) * list[i].confidence]]
<1>2. scored = {entry[i] : i \in Competing}
  BY <1>1 DEF Scores
<1>3. IsFiniteSet(Competing)
  BY <1>1, CompetingFinite DEF Scores
<1>4. \A i \in Competing : /\ list[i] \in Candidate /\ ValidCandidate(list[i]) /\ Competes(list[i])
  BY <1>1 DEF Scores, Competing
<1>5. \A i \in Competing : /\ entry[i].at = i /\ entry[i].sid = list[i].sid
                           /\ entry[i].score \in Nat
                           /\ entry[i].score > 0 => list[i].confidence > 0
  BY <1>4, ScoreOf
<1>. HIDE DEF entry
<1>6. IsFiniteSet(scored)
  BY <1>2, <1>3, FiniteImage
<1>7. IsFiniteSet(Sids)
  <2>. DEFINE name == [item \in scored |-> item.sid]
  <2>1. Sids = {name[item] : item \in scored}
    BY DEF Sids
  <2>. HIDE DEF name
  <2>. QED  BY <1>6, <2>1, FiniteImage
<1>8. \A item \in scored : /\ item.score \in Nat
                           /\ item.at \in Competing
                           /\ item.sid = list[item.at].sid
                           /\ item.score > 0 => list[item.at].confidence > 0
  BY <1>2, <1>5
<1>9. \A i \in Competing : \E item \in scored : item.at = i /\ item.sid = list[i].sid
  BY <1>2, <1>5
<1>. QED  BY <1>6, <1>7, <1>8, <1>9

\* A store's score is the least of its candidates'.
LEMMA ScoreIsLeast ==
    Scores => \A sid \in Sids :
        /\ Score(sid) \in Nat
        /\ \A item \in scored : item.sid = sid => Score(sid) <= item.score
        /\ \E item \in scored : item.sid = sid /\ Score(sid) = item.score
<1>1. SUFFICES ASSUME Scores, NEW sid \in Sids
               PROVE  /\ Score(sid) \in Nat
                      /\ \A item \in scored : item.sid = sid => Score(sid) <= item.score
                      /\ \E item \in scored : item.sid = sid /\ Score(sid) = item.score
  OBVIOUS
<1>. DEFINE own == {item.score : item \in {i \in scored : i.sid = sid}}
<1>2. own \in SUBSET Nat /\ own # {}
  BY <1>1, ScoredItems DEF Sids
<1>3. Score(sid) = Min(own)
  BY DEF Score
<1>. HIDE DEF own
<1>4. Min(own) \in own /\ \A n \in own : Min(own) <= n
  BY <1>2, MinOfNats
<1>. QED  BY <1>2, <1>3, <1>4 DEF own

LEMMA ScoreSumOf ==
    Scores => /\ ScoreFunction \in [Sids -> Int] /\ IsFiniteSet(Sids)
              /\ \A sid \in Sids : ScoreFunction[sid] = Score(sid) /\ ScoreFunction[sid] >= 0
              /\ \A T \in SUBSET Sids : ScoreSum(T) = SumOn(ScoreFunction, T)
              /\ \A T \in SUBSET Sids : ScoreSum(T) \in Int
<1>1. SUFFICES ASSUME Scores
               PROVE  /\ ScoreFunction \in [Sids -> Int] /\ IsFiniteSet(Sids)
                      /\ \A sid \in Sids : ScoreFunction[sid] = Score(sid) /\ ScoreFunction[sid] >= 0
                      /\ \A T \in SUBSET Sids : ScoreSum(T) = SumOn(ScoreFunction, T)
                      /\ \A T \in SUBSET Sids : ScoreSum(T) \in Int
  OBVIOUS
<1>2. IsFiniteSet(Sids) /\ \A sid \in Sids : Score(sid) \in Nat
  BY <1>1, ScoredItems, ScoreIsLeast
<1>3. ScoreFunction \in [Sids -> Int]
  BY <1>2 DEF ScoreFunction
<1>4. \A sid \in Sids : ScoreFunction[sid] = Score(sid) /\ ScoreFunction[sid] >= 0
  BY <1>2 DEF ScoreFunction
<1>5. ASSUME NEW T \in SUBSET Sids PROVE ScoreSum(T) = SumOn(ScoreFunction, T)
  <2>1. [sid \in T |-> Score(sid)] = [y \in T |-> ScoreFunction[y]]
    BY <1>4
  <2>. QED  BY <2>1 DEF ScoreSum, SumOn
<1>6. \A T \in SUBSET Sids : SumOn(ScoreFunction, T) \in Int
  BY <1>2, <1>3, SumOnInt
<1>. QED  BY <1>2, <1>3, <1>4, <1>5, <1>6

\* Where the rounds end: nobody competes, everybody is capped, or the rest shares
\* what is left with nobody above the cap.
RoundsEnd ==
    \/ scored = {}
    \/ left = {}
    \/ PlacedSum > 0 /\ ScoreSum(left) > 0 /\ AboveCap = {}

LEMMA CountsOf ==
    Scores => /\ Cardinality(Sids \ left) \in Nat /\ Quarters \in Nat /\ Quarters >= 1
              /\ Quarters = 4 - Cardinality(Sids \ left)
BY ScoredItems, FS_Subset, FS_CardinalityType DEF Scores, Quarters, ShareCap

\* What is nearest: half up, so never half a unit and more below.
LEMMA NearestOver ==
    ASSUME NEW n \in Int, NEW d \in Nat \ {0}
    PROVE  Nearest(n, d) \in Int /\ 2 * n < 2 * (Nearest(n, d) * d) + d
<1>. DEFINE x == 2 * n + d
            y == 2 * d
            q == x \div y
<1>1. x \in Int /\ y \in Nat \ {0}
  OBVIOUS
<1>. HIDE DEF x, y
<1>2. q \in Int /\ x < q * y + y
  BY <1>1, Quotient
<1>. HIDE DEF q
<1>3. q * y + y = 2 * (q * d) + 2 * d
  BY <1>2 DEF y
<1>. DEFINE qd == q * d
<1>4. qd \in Int /\ x < 2 * qd + 2 * d
  BY <1>2, <1>3
<1>. HIDE DEF qd
<1>5. 2 * n < 2 * qd + d
  BY <1>4 DEF x
<1>. QED  BY <1>2, <1>5 DEF qd, q, x, y, Nearest

LEMMA CapPartsNat == CapParts \in Nat \ {0}
BY AllocatorAssumption DEF CapParts, ShareCap

\* The share of a store that shares what is left, in terms of naturals.
LEMMA ShareBounds ==
    ASSUME NEW T \in Nat \ {0}, NEW D \in Nat \ {0}, NEW m \in Nat, m <= D, NEW K \in Nat \ {0}
    PROVE  /\ Nearest(T * m, K * D) \in Int
           /\ 2 * (K * Nearest(T * m, K * D)) <= 2 * T + K
           /\ m = 0 => Nearest(T * m, K * D) <= 0
<1>. DEFINE Tm == T * m
            TD == T * D
            KD == K * D
            X == (2 * Tm + KD) \div (2 * KD)
<1>1. Tm \in Int /\ TD \in Int /\ Tm <= TD /\ (m = 0 => Tm = 0)
  BY TimesGrows
<1>2. KD \in Nat \ {0}
  <2>1. 1 <= K /\ K \in Int /\ D \in Int /\ D >= 0
    OBVIOUS
  <2>2. KD \in Int
    OBVIOUS
  <2>3. 1 * D <= K * D
    BY <2>1, TimesGrows
  <2>. HIDE DEF KD
  <2>4. 1 * D <= KD
    BY <2>3 DEF KD
  <2>. QED  BY <2>2, <2>4
<1>. HIDE DEF Tm, KD
<1>3. X \in Int /\ X * (2 * KD) <= 2 * Tm + KD
  <2>1. 2 * KD \in Nat \ {0} /\ 2 * Tm + KD \in Int
    BY <1>1, <1>2
  <2>. QED  BY <2>1, Quotient
<1>4. X = Nearest(T * m, K * D)
  BY DEF X, Tm, KD, Nearest
<1>. HIDE DEF X
<1>. DEFINE XK == 2 * (K * X)
<1>5. XK \in Int /\ X * (2 * KD) = XK * D
  BY <1>3 DEF KD
<1>6. (2 * T + K) * D = 2 * TD + KD
  BY DEF KD
<1>. HIDE DEF TD, XK
<1>7. XK * D <= (2 * T + K) * D
  <2>. DEFINE l == XK * D
  <2>1. l \in Int /\ l <= 2 * Tm + KD
    BY <1>3, <1>5
  <2>. HIDE DEF l
  <2>2. l <= 2 * TD + KD
    BY <1>1, <1>2, <2>1
  <2>. QED  BY <1>6, <2>2 DEF l
<1>8. XK <= 2 * T + K
  <2>1. XK \in Int /\ 2 * T + K \in Int
    BY <1>5
  <2>. QED  BY <1>7, <2>1, TimesCancels
<1>9. m = 0 => X <= 0
  <2>1. SUFFICES ASSUME m = 0, 1 <= X PROVE FALSE
    BY <1>3
  <2>2. 1 * (2 * KD) <= X * (2 * KD)
    <3>. DEFINE k == 2 * KD
    <3>1. k \in Int /\ k >= 0
      BY <1>2
    <3>. HIDE DEF k
    <3>2. 1 * k <= X * k
      BY <1>3, <2>1, <3>1, TimesGrows
    <3>. QED  BY <3>2 DEF k
  <2>. DEFINE l == X * (2 * KD)
  <2>3. l \in Int /\ l <= KD /\ 2 * KD <= l
    BY <1>1, <1>2, <1>3, <2>1, <2>2
  <2>. HIDE DEF l
  <2>. QED  BY <1>2, <2>3
<1>. QED  BY <1>3, <1>4, <1>8, <1>9 DEF XK

\* What a share is: bounded by the cap, nothing without a score, more for more.
LEMMA ShareFacts ==
    Scores /\ RoundsEnd =>
        /\ \A sid \in Sids : /\ Share(sid) \in Int /\ 2 * (CapParts * Share(sid)) <= 2 * total + CapParts
                             /\ Share(sid) >= MinAllocation => Score(sid) > 0
        /\ \A a, b \in Sids : Score(a) > Score(b) => Share(a) >= Share(b)
<1>1. SUFFICES ASSUME Scores, RoundsEnd
               PROVE  /\ \A sid \in Sids : /\ Share(sid) \in Int /\ 2 * (CapParts * Share(sid)) <= 2 * total + CapParts
                                           /\ Share(sid) >= MinAllocation => Score(sid) > 0
                      /\ \A a, b \in Sids : Score(a) > Score(b) => Share(a) >= Share(b)
  OBVIOUS
<1>2. /\ left \subseteq Sids /\ total \in Nat \ {0} /\ Quarters \in Nat /\ Quarters >= 1
      /\ \A sid \in Sids : Score(sid) \in Nat
      /\ ScoreSum(left) \in Int
  BY <1>1, CountsOf, ScoreIsLeast, ScoreSumOf DEF Scores
<1>. DEFINE D == ScoreSum(left)
            m(sid) == Quarters * Score(sid)
<1>3. \A sid \in left : D \in Nat \ {0} /\ m(sid) \in Nat /\ m(sid) <= D
  <2>1. ASSUME NEW sid \in left PROVE D \in Nat \ {0} /\ m(sid) \in Nat /\ m(sid) <= D
    <3>1. scored # {} /\ left # {}
      BY <1>2 DEF Sids
    <3>2. D > 0 /\ ~(m(sid) > D)
      BY <1>1, <3>1 DEF RoundsEnd, AboveCap
    <3>3. m(sid) \in Nat
      BY <1>2
    <3>. QED  BY <1>2, <3>2, <3>3
  <2>. QED  BY <2>1
<1>. DEFINE K == CapParts
            whole == Nearest(total, K)
            part(sid) == Nearest(total * m(sid), K * D)
<1>4. /\ \A sid \in Sids \ left : Share(sid) = whole
      /\ \A sid \in left : Share(sid) = part(sid)
  BY DEF Share
<1>. HIDE DEF K, D, m
<1>5. /\ whole \in Int /\ 2 * (K * whole) <= 2 * total + K
      /\ \A x \in Int : 2 * (K * x) <= 2 * total + K => x <= whole
  <2>1. K \in Nat \ {0}
    BY CapPartsNat DEF K
  <2>. DEFINE n == 2 * total + K
              k == 2 * K
              w == n \div k
  <2>2. n \in Int /\ k \in Nat \ {0} /\ whole = w
    BY <1>2, <2>1 DEF Nearest
  <2>. HIDE DEF n, k
  <2>3. w \in Int /\ w * k <= n
    BY <2>2, Quotient
  <2>4. ASSUME NEW x \in Int PROVE x * k = 2 * (K * x)
    BY <2>1 DEF k
  <2>5. \A x \in Int : x * k <= n => x <= w
    BY <2>2, QuotientIsGreatest
  <2>. HIDE DEF w
  <2>6. w * k = 2 * (K * w)
    BY <2>3, <2>4
  <2>7. 2 * (K * w) <= n
    BY <2>3, <2>6
  <2>8. \A x \in Int : 2 * (K * x) <= n => x <= w
    BY <2>4, <2>5
  <2>. HIDE DEF whole
  <2>. QED  BY <2>2, <2>3, <2>7, <2>8 DEF n
<1>. HIDE DEF whole
<1>6. \A sid \in left : /\ Share(sid) \in Int /\ 2 * (CapParts * Share(sid)) <= 2 * total + CapParts
                        /\ m(sid) = 0 => Share(sid) <= 0
  <2>1. SUFFICES ASSUME NEW sid \in left
                 PROVE  /\ Share(sid) \in Int /\ 2 * (K * Share(sid)) <= 2 * total + K
                        /\ m(sid) = 0 => Share(sid) <= 0
    BY DEF K
  <2>2. /\ D \in Nat \ {0} /\ m(sid) \in Nat /\ m(sid) <= D
        /\ K \in Nat \ {0} /\ total \in Nat \ {0}
    BY <1>2, <1>3, CapPartsNat DEF K
  <2>3. /\ part(sid) \in Int /\ 2 * (K * part(sid)) <= 2 * total + K
        /\ m(sid) = 0 => part(sid) <= 0
    BY <2>2, ShareBounds
  <2>4. Share(sid) = part(sid)
    BY <1>4
  <2>. QED  BY <2>3, <2>4
<1>7. \A a, b \in left : m(b) <= m(a) => part(b) <= part(a)
  <2>1. SUFFICES ASSUME NEW a \in left, NEW b \in left, m(b) <= m(a) PROVE part(b) <= part(a)
    OBVIOUS
  <2>2. D \in Nat \ {0} /\ m(a) \in Nat /\ m(b) \in Nat
    BY <1>3
  <2>3. total * m(b) <= total * m(a) /\ total * m(a) \in Int /\ total * m(b) \in Int
    BY <1>2, <2>1, <2>2, TimesGrows
  <2>4. K * D \in Nat \ {0}
    <3>1. K \in Nat \ {0}
      BY CapPartsNat DEF K
    <3>2. 1 * D <= K * D /\ K * D \in Int
      BY <2>2, <3>1, TimesGrows
    <3>. QED  BY <2>2, <3>2
  <2>. DEFINE KD == K * D
              na == 2 * (total * m(a)) + KD
              nb == 2 * (total * m(b)) + KD
  <2>. HIDE DEF KD
  <2>5. na \in Int /\ nb \in Int /\ nb <= na /\ 2 * KD \in Nat \ {0}
    BY <2>2, <2>3, <2>4 DEF KD
  <2>. HIDE DEF na, nb
  <2>6. nb \div (2 * KD) <= na \div (2 * KD)
    BY <2>5, QuotientGrows
  <2>. QED  BY <2>6 DEF na, nb, KD, Nearest
<1>. HIDE DEF part
<1>8. \A sid \in Sids : /\ Share(sid) \in Int /\ 2 * (CapParts * Share(sid)) <= 2 * total + CapParts
                        /\ Share(sid) >= MinAllocation => Score(sid) > 0
  <2>1. ASSUME NEW sid \in Sids \ left
        PROVE  /\ Share(sid) \in Int /\ 2 * (CapParts * Share(sid)) <= 2 * total + CapParts
               /\ Score(sid) > 0
    BY <1>1, <1>4, <1>5 DEF Scores, K
  <2>2. ASSUME NEW sid \in left
        PROVE  /\ Share(sid) \in Int /\ 2 * (CapParts * Share(sid)) <= 2 * total + CapParts
               /\ Share(sid) >= MinAllocation => Score(sid) > 0
    <3>1. Share(sid) \in Int /\ 2 * (CapParts * Share(sid)) <= 2 * total + CapParts
      BY <1>6
    <3>2. Score(sid) = 0 => m(sid) = 0
      BY <1>2 DEF m
    <3>3. m(sid) = 0 => Share(sid) <= 0
      BY <1>6
    <3>4. Score(sid) \in Nat
      BY <1>2
    <3>. QED  BY <3>1, <3>2, <3>3, <3>4 DEF MinAllocation
  <2>. QED  BY <2>1, <2>2
<1>9. ASSUME NEW a \in Sids, NEW b \in Sids, Score(a) > Score(b)
      PROVE  Share(a) >= Share(b)
  <2>1. CASE a \in left /\ b \in left
    <3>1. m(b) <= m(a)
      BY <1>2, <1>9, TimesGrows DEF m
    <3>. QED  BY <1>4, <1>6, <1>7, <2>1, <3>1
  <2>2. CASE a \notin left
    <3>1. Share(a) = whole
      BY <1>4, <2>2
    <3>2. Share(b) \in Int /\ 2 * (K * Share(b)) <= 2 * total + K
      BY <1>8 DEF K
    <3>. QED  BY <1>5, <3>1, <3>2
  <2>3. CASE a \in left /\ b \notin left
    <3>1. Score(b) >= Score(a) /\ Score(a) \in Nat /\ Score(b) \in Nat
      BY <1>1, <1>2, <2>3 DEF Scores
    <3>. QED  BY <1>9, <3>1
  <2>. QED  BY <2>1, <2>2, <2>3
<1>. QED  BY <1>8, <1>9

\* A round caps fewer stores than there are quarters left, and the best ones.
LEMMA CapRoundKeeps ==
    Scores /\ left # {} /\ ScoreSum(left) > 0 /\ AboveCap # {} =>
        /\ 4 - Cardinality(Sids \ (left \ AboveCap)) >= 1
        /\ \A c \in Sids \ (left \ AboveCap) :
              Score(c) > 0 /\ \A l \in left \ AboveCap : Score(c) >= Score(l)
<1>1. SUFFICES ASSUME Scores, left # {}, ScoreSum(left) > 0, AboveCap # {}
               PROVE  /\ 4 - Cardinality(Sids \ (left \ AboveCap)) >= 1
                      /\ \A c \in Sids \ (left \ AboveCap) :
                            Score(c) > 0 /\ \A l \in left \ AboveCap : Score(c) >= Score(l)
  OBVIOUS
<1>2. /\ left \subseteq Sids /\ Quarters \in Nat
      /\ Quarters = 4 - Cardinality(Sids \ left) /\ Cardinality(Sids \ left) \in Nat
      /\ \A sid \in Sids : Score(sid) \in Nat
      /\ ScoreSum(left) \in Int
  BY <1>1, CountsOf, ScoreIsLeast, ScoreSumOf DEF Scores
<1>3. AboveCap \subseteq left /\ \A sid \in left : sid \in AboveCap <=> Quarters * Score(sid) > ScoreSum(left)
  BY DEF AboveCap
<1>. DEFINE A == AboveCap
            SS == ScoreSum(left)
            f == ScoreFunction
            k == Cardinality(A)
<1>4. /\ f \in [Sids -> Int] /\ IsFiniteSet(Sids)
      /\ \A sid \in Sids : f[sid] = Score(sid) /\ f[sid] >= 0
      /\ SS = SumOn(f, left) /\ SumOn(f, A) = ScoreSum(A) /\ ScoreSum(A) \in Int
      /\ A \in SUBSET Sids
  <2>1. left \in SUBSET Sids /\ A \in SUBSET Sids
    BY <1>2, <1>3
  <2>. QED  BY <1>1, <2>1, ScoreSumOf
<1>5. IsFiniteSet(A) /\ IsFiniteSet(left) /\ k \in Nat /\ k # 0
  BY <1>1, <1>2, <1>4, FS_Subset, FS_CardinalityType, FS_EmptySet
<1>6. \A y \in A : Quarters * f[y] >= SS + 1
  <2>1. SUFFICES ASSUME NEW y \in A PROVE Quarters * f[y] >= SS + 1
    OBVIOUS
  <2>2. f[y] = Score(y) /\ Score(y) \in Nat /\ Quarters * Score(y) > SS
    BY <1>2, <1>3, <1>4
  <2>3. Quarters * Score(y) \in Int
    BY <1>2, <2>2
  <2>. QED  BY <1>2, <2>2, <2>3
<1>. HIDE DEF A, SS, f, k
<1>7. Quarters * SumOn(f, A) >= k * (SS + 1)
  <2>1. Quarters \in Int /\ SS + 1 \in Int
    BY <1>2 DEF SS
  <2>2. Quarters * SumOn(f, A) >= Cardinality(A) * (SS + 1)
    BY <1>4, <1>6, <2>1, SumAtLeast
  <2>. QED  BY <2>2 DEF k
<1>8. SumOn(f, A) <= SS
  <2>. DEFINE h == [y \in left |-> f[y]]
  <2>1. h \in [left -> Int] /\ A \in SUBSET left /\ \A y \in left \ A : h[y] >= 0
    BY <1>2, <1>3, <1>4 DEF A
  <2>2. SumOn(h, A) = SumOn(f, A) /\ SumOn(h, left) = SumOn(f, left)
    <3>1. [y \in A |-> h[y]] = [y \in A |-> f[y]] /\ [y \in left |-> h[y]] = [y \in left |-> f[y]]
      BY <2>1
    <3>. QED  BY <3>1 DEF SumOn
  <2>. HIDE DEF h
  <2>3. SumOn(h, A) <= SumOn(h, left)
    BY <1>5, <2>1, SumOnPart
  <2>. QED  BY <1>4, <2>2, <2>3
<1>9. k < Quarters
  <2>. DEFINE a == SumOn(f, A)
  <2>1. a \in Int /\ SS \in Nat \ {0} /\ Quarters \in Nat /\ a <= SS /\ Quarters * a >= k * (SS + 1)
    BY <1>1, <1>2, <1>4, <1>7, <1>8 DEF SS
  <2>. HIDE DEF a
  <2>2. Quarters * a <= Quarters * SS
    BY <2>1, TimesGrows
  <2>3. k * (SS + 1) = k * SS + k
    BY <1>5, <2>1
  <2>. DEFINE qa == Quarters * a qs == Quarters * SS ks == k * SS
  <2>4. qa \in Int /\ qs \in Int /\ ks \in Int /\ qa <= qs /\ qa >= ks + k
    BY <1>5, <2>1, <2>2, <2>3
  <2>. HIDE DEF qa, qs, ks
  <2>5. qs > ks
    BY <1>5, <2>4
  <2>6. Quarters <= k => qs <= ks
    BY <1>5, <2>1, TimesGrows DEF qs, ks
  <2>. QED  BY <1>5, <2>1, <2>4, <2>5, <2>6
<1>10. Cardinality(Sids \ (left \ A)) = Cardinality(Sids \ left) + k
  <2>1. Sids \ (left \ A) = (Sids \ left) \cup A /\ (Sids \ left) \cap A = {}
    BY <1>2, <1>3 DEF A
  <2>2. IsFiniteSet(Sids \ left)
    BY <1>4, FS_Subset
  <2>3. Cardinality((Sids \ left) \cup A) = Cardinality(Sids \ left) + Cardinality(A) - Cardinality((Sids \ left) \cap A)
    BY <1>5, <2>2, FS_Union
  <2>4. Cardinality({}) = 0
    BY FS_EmptySet
  <2>5. Cardinality((Sids \ left) \cap A) = 0
    BY <2>1, <2>4
  <2>6. Cardinality(Sids \ (left \ A)) = Cardinality((Sids \ left) \cup A)
    BY <2>1
  <2>7. Cardinality(A) = k
    BY DEF k
  <2>. DEFINE c == Cardinality(Sids \ left)
  <2>8. c \in Nat /\ Cardinality(Sids \ (left \ A)) = c + k - 0
    BY <1>2, <2>3, <2>5, <2>6, <2>7
  <2>. HIDE DEF c
  <2>9. c + k - 0 = c + k
    BY <1>5, <2>8
  <2>. QED  BY <2>8, <2>9 DEF c
<1>11. 4 - Cardinality(Sids \ (left \ A)) >= 1
  BY <1>2, <1>5, <1>9, <1>10
<1>12. ASSUME NEW c \in Sids \ (left \ A)
       PROVE  Score(c) > 0 /\ \A l \in left \ A : Score(c) >= Score(l)
  <2>1. CASE c \notin left
    BY <1>1, <1>12, <2>1 DEF Scores
  <2>2. CASE c \in left
    <3>1. Quarters * Score(c) > SS /\ Score(c) \in Nat
      BY <1>2, <1>3, <1>12, <2>2 DEF A, SS
    <3>. DEFINE qc == Quarters * Score(c)
    <3>2. qc \in Int /\ qc > SS /\ SS \in Int /\ SS > 0 /\ (Score(c) = 0 => qc = 0)
      BY <1>1, <1>2, <3>1 DEF SS
    <3>. HIDE DEF qc
    <3>3. Score(c) > 0
      BY <3>1, <3>2
    <3>4. ASSUME NEW l \in left \ A PROVE Score(c) >= Score(l)
      <4>1. ~(Quarters * Score(l) > SS) /\ Score(l) \in Nat
        BY <1>2, <1>3 DEF A, SS
      <4>. DEFINE ql == Quarters * Score(l)
      <4>2. ql \in Int /\ ql <= SS
        BY <1>2, <3>2, <4>1
      <4>3. Score(c) <= Score(l) => qc <= ql
        BY <1>2, <3>1, <4>1, TimesGrows DEF qc
      <4>. HIDE DEF ql
      <4>. QED  BY <3>1, <3>2, <4>1, <4>2, <4>3
    <3>. QED  BY <3>3, <3>4
  <2>. QED  BY <2>1, <2>2
<1>. QED  BY <1>11, <1>12 DEF A

\* Where the rounds end, every competing store has confidence, or four have.
LEMMA EnoughPositive ==
    Scores /\ RoundsEnd => Positive = Sids \/ Cardinality(Positive) >= 4
<1>1. SUFFICES ASSUME Scores, RoundsEnd, Sids # {}, left # {}
               PROVE  Cardinality(Positive) >= 4
  <2>. SUFFICES ASSUME Scores, Sids = {} \/ left = {} PROVE Positive = Sids
    OBVIOUS
  <2>1. \A sid \in Sids \ left : Score(sid) > 0
    BY DEF Scores
  <2>. QED  BY <2>1 DEF Positive, Scores
<1>2. /\ left \subseteq Sids /\ Quarters \in Nat
      /\ Quarters = 4 - Cardinality(Sids \ left) /\ Cardinality(Sids \ left) \in Nat
      /\ \A sid \in Sids : Score(sid) \in Nat
      /\ ScoreSum(left) \in Int
  BY <1>1, CountsOf, ScoreIsLeast, ScoreSumOf DEF Scores
<1>3. ScoreSum(left) > 0 /\ AboveCap = {}
  BY <1>1 DEF RoundsEnd, Sids
<1>. DEFINE P == Positive \cap left
            SS == ScoreSum(left)
            h == [y \in left |-> Score(y)]
<1>4. IsFiniteSet(Sids) /\ IsFiniteSet(left) /\ IsFiniteSet(P) /\ Cardinality(P) \in Nat
      /\ IsFiniteSet(Sids \ left)
  BY <1>1, <1>2, ScoredItems, FS_Subset, FS_CardinalityType
<1>5. /\ h \in [left -> Int] /\ P \in SUBSET left
      /\ \A y \in left \ P : h[y] = 0
      /\ \A y \in P : Quarters * h[y] <= SS
  <2>1. h \in [left -> Int] /\ P \in SUBSET left
    BY <1>2
  <2>2. \A y \in left \ P : h[y] = 0
    BY <1>2 DEF Positive
  <2>3. ASSUME NEW y \in P PROVE Quarters * h[y] <= SS
    <3>1. ~(Quarters * Score(y) > SS) /\ Score(y) \in Nat
      BY <1>2, <1>3 DEF AboveCap
    <3>2. Quarters * Score(y) \in Int
      BY <1>2, <3>1
    <3>. QED  BY <1>2, <3>1, <3>2
  <2>. QED  BY <2>1, <2>2, <2>3
<1>6. SumOn(h, left) = SS
  BY DEF SumOn, ScoreSum
<1>. HIDE DEF h, P, SS
<1>7. SumOn(h, P) = SS
  BY <1>4, <1>5, <1>6, SumOnSupport
<1>8. Quarters * SumOn(h, P) <= Cardinality(P) * SS
  <2>1. Quarters \in Int /\ SS \in Int
    BY <1>2 DEF SS
  <2>. QED  BY <1>4, <1>5, <2>1, SumAtMost
<1>9. Quarters <= Cardinality(P)
  <2>1. SS \in Nat \ {0} /\ Quarters * SS <= Cardinality(P) * SS
    BY <1>2, <1>3, <1>7, <1>8 DEF SS
  <2>. QED  BY <1>2, <1>4, <2>1, TimesCancels
<1>10. Positive = (Sids \ left) \cup P /\ (Sids \ left) \cap P = {}
  <2>1. \A sid \in Sids \ left : Score(sid) > 0
    BY <1>1 DEF Scores
  <2>. QED  BY <1>2, <2>1 DEF Positive, P
<1>11. Cardinality((Sids \ left) \cup P) = Cardinality(Sids \ left) + Cardinality(P) - Cardinality((Sids \ left) \cap P)
  BY <1>4, FS_Union
<1>12. Cardinality((Sids \ left) \cap P) = 0
  BY <1>10, FS_EmptySet
<1>. QED  BY <1>2, <1>4, <1>9, <1>10, <1>11, <1>12

\* Where a share is missing, some store has no confidence and fewer than four have.
LEMMA MissingMeansZero ==
    (Scores /\ scored # {} /\ (PlacedSum <= 0 \/ (left # {} /\ ScoreSum(left) <= 0)))
        => Positive # Sids /\ Cardinality(Positive) < 4
<1>1. SUFFICES ASSUME Scores, scored # {},
                      PlacedSum <= 0 \/ (left # {} /\ ScoreSum(left) <= 0)
               PROVE  Positive # Sids /\ Cardinality(Positive) < 4
  OBVIOUS
<1>2. /\ left \subseteq Sids /\ Quarters \in Nat /\ Quarters >= 1
      /\ Quarters = 4 - Cardinality(Sids \ left) /\ Cardinality(Sids \ left) \in Nat
      /\ \A sid \in Sids : Score(sid) \in Nat
      /\ Sids # {}
  BY <1>1, CountsOf, ScoreIsLeast DEF Scores, Sids
<1>3. CASE PlacedSum <= 0
  <2>. DEFINE v == [item \in scored |-> item.score]
  <2>1. v \in [scored -> Int] /\ IsFiniteSet(scored) /\ \A item \in scored : v[item] >= 0
    BY <1>1, ScoredItems
  <2>2. SumOn(v, scored) <= 0
    <3>1. [item \in scored |-> v[item]] = v
      OBVIOUS
    <3>. QED  BY <1>3, <3>1 DEF SumOn, PlacedSum
  <2>3. \A item \in scored : v[item] = 0
    <3>. HIDE DEF v
    <3>. QED  BY <2>1, <2>2, SumOnZero
  <2>4. \A sid \in Sids : Score(sid) = 0
    BY <1>1, <2>3, ScoreIsLeast
  <2>5. Positive = {}
    BY <2>4 DEF Positive
  <2>6. Cardinality({}) = 0
    BY FS_EmptySet
  <2>. QED  BY <1>2, <2>5, <2>6
<1>4. CASE left # {} /\ ScoreSum(left) <= 0
  <2>. DEFINE h == [y \in left |-> Score(y)]
  <2>1. h \in [left -> Int] /\ IsFiniteSet(left) /\ \A y \in left : h[y] >= 0
    BY <1>1, <1>2, ScoredItems, FS_Subset
  <2>2. SumOn(h, left) <= 0
    BY <1>4 DEF SumOn, ScoreSum
  <2>3. \A y \in left : h[y] = 0
    <3>. HIDE DEF h
    <3>. QED  BY <2>1, <2>2, SumOnZero
  <2>4. \A y \in left : Score(y) = 0
    BY <2>3
  <2>5. Positive \subseteq Sids \ left /\ Positive # Sids
    BY <1>2, <1>4, <2>4 DEF Positive
  <2>6. IsFiniteSet(Sids \ left)
    BY <1>1, ScoredItems, FS_Subset
  <2>7. Cardinality(Positive) <= Cardinality(Sids \ left) /\ Cardinality(Positive) \in Nat
    BY <2>5, <2>6, FS_Subset, FS_CardinalityType
  <2>. QED  BY <1>2, <2>5, <2>7
<1>. QED  BY <1>1, <1>3, <1>4

-----------------------------------------------------------------------------
(* What is paid out, and the trim.                                         *)

\* Paying less everywhere, and by d at one place, pays out d less.
LEMMA ShaveSum ==
    ASSUME list \in Seq(Candidate), NEW D, NEW pay \in [D -> Int], NEW less \in [D -> Int],
           \A s \in D : less[s] <= pay[s],
           NEW places \in SUBSET Competing, \A i \in places : list[i].sid \in D,
           NEW j \in places, NEW d \in Int, less[list[j].sid] <= pay[list[j].sid] - d
    PROVE  SumOf(less, places) <= SumOf(pay, places) - d
<1>. DEFINE f == [i \in places |-> less[list[i].sid]]
            h == [i \in places |-> pay[list[i].sid]]
<1>1. IsFiniteSet(places)
  BY CompetingFinite, FS_Subset
<1>2. /\ f \in [places -> Int] /\ h \in [places -> Int]
      /\ \A i \in places : f[i] <= h[i]
      /\ f[j] <= h[j] - d
  OBVIOUS
<1>3. SumOf(less, places) = SumOn(f, places) /\ SumOf(pay, places) = SumOn(h, places)
  <2>1. [i \in places |-> f[i]] = f /\ [i \in places |-> h[i]] = h
    OBVIOUS
  <2>. QED  BY <2>1 DEF SumOf, SumOn
<1>. HIDE DEF f, h
<1>. QED  BY <1>1, <1>2, <1>3, SumOnShift

LEMMA PaySumInt ==
    ASSUME list \in Seq(Candidate), NEW D, NEW pay \in [D -> Int],
           NEW places \in SUBSET Competing, \A i \in places : list[i].sid \in D
    PROVE  SumOf(pay, places) \in Int
<1>. DEFINE h == [i \in places |-> pay[list[i].sid]]
<1>1. IsFiniteSet(places) /\ h \in [places -> Int]
  BY CompetingFinite, FS_Subset
<1>2. SumOf(pay, places) = SumOn(h, places)
  <2>1. [i \in places |-> h[i]] = h
    OBVIOUS
  <2>. QED  BY <2>1 DEF SumOf, SumOn
<1>. HIDE DEF h
<1>3. places \in SUBSET places
  OBVIOUS
<1>4. \A T \in SUBSET places : SumOn(h, T) \in Int
  BY <1>1, SumOnInt
<1>. QED  BY <1>2, <1>3, <1>4

\* Dropping a store that has a place saves its amount at least.
LEMMA DropSum ==
    ASSUME list \in Seq(Candidate), NEW D, NEW pay \in [D -> Int], \A s \in D : pay[s] >= 0,
           NEW places \in SUBSET Competing, \A i \in places : list[i].sid \in D,
           NEW j \in places
    PROVE  SumOf(pay, {i \in places : list[i].sid # list[j].sid})
              <= SumOf(pay, places) - pay[list[j].sid]
<1>. DEFINE fewer == {i \in places : list[i].sid # list[j].sid}
            f == [i \in places |-> IF i \in fewer THEN pay[list[i].sid] ELSE 0]
            h == [i \in places |-> pay[list[i].sid]]
<1>1. IsFiniteSet(places)
  BY CompetingFinite, FS_Subset
<1>2. /\ f \in [places -> Int] /\ h \in [places -> Int] /\ fewer \in SUBSET places
      /\ \A i \in places : f[i] <= h[i]
      /\ f[j] <= h[j] - pay[list[j].sid] /\ pay[list[j].sid] \in Int
      /\ \A i \in places \ fewer : f[i] = 0
  OBVIOUS
<1>3. SumOf(pay, fewer) = SumOn(f, fewer) /\ SumOf(pay, places) = SumOn(h, places)
  <2>1. [i \in fewer |-> f[i]] = [i \in fewer |-> pay[list[i].sid]] /\ [i \in places |-> h[i]] = h
    OBVIOUS
  <2>. HIDE DEF f, fewer
  <2>. QED  BY <2>1 DEF SumOf, SumOn
<1>. HIDE DEF f, h, fewer
<1>4. SumOn(f, fewer) = SumOn(f, places)
  BY <1>1, <1>2, SumOnSupport
<1>5. SumOn(f, places) <= SumOn(h, places) - pay[list[j].sid]
  BY <1>1, <1>2, SumOnShift
<1>6. SumOf(pay, fewer) <= SumOf(pay, places) - pay[list[j].sid]
  BY <1>3, <1>4, <1>5
<1>. QED  BY <1>6 DEF fewer

LEMMA MaxOfTwo ==
    ASSUME NEW a \in Int, NEW b \in Int
    PROVE  /\ Max({a, b}) \in Int /\ Max({a, b}) >= a /\ Max({a, b}) >= b
           /\ Max({a, b}) = a \/ Max({a, b}) = b
<1>1. \E x \in {a, b} : \A y \in {a, b} : x >= y
  OBVIOUS
<1>2. Max({a, b}) \in {a, b} /\ \A y \in {a, b} : Max({a, b}) >= y
  BY <1>1 DEF Max
<1>. QED  BY <1>2

Fixed ==
    /\ rounded = [sid \in {s \in Sids : Share(s) >= MinAllocation} |-> Share(sid)]
    /\ served \subseteq {i \in Competing : list[i].sid \in DOMAIN rounded}

\* Twice what is paid out over the budget, in parts of a cent.
Over == 2 * (PaidOut * CentParts - total)

\* The trim comes to the stores smallest first, and goes on only where the ones
\* behind it are at the minimum.
Trim ==
    /\ amounts \in [DOMAIN rounded -> Int]
    /\ todo \subseteq DOMAIN rounded /\ overflow \in Int
    /\ \A s \in DOMAIN rounded : MinAllocation <= amounts[s] /\ amounts[s] <= rounded[s]
    /\ todo # {} => DOMAIN rounded \subseteq Paid
    /\ \A s \in todo : amounts[s] = rounded[s]
    /\ \A p \in DOMAIN rounded \ todo : \A t \in todo : rounded[p] <= rounded[t]
    /\ overflow > 0 => \A p \in DOMAIN rounded \ todo : amounts[p] = MinAllocation
    /\ \A a, b \in DOMAIN rounded : rounded[a] > rounded[b] => amounts[a] >= amounts[b]
    /\ \A a \in DOMAIN rounded \ Paid : amounts[a] = MinAllocation
    /\ Over < 2 * (overflow * CentParts) + CentParts

AllocInv ==
    /\ phase \in {"score", "fill", "trim", "done", "rejected", "failed"}
    /\ list \in Seq(Candidate) /\ total \in Int
    /\ phase \in {"score", "rejected"} => left = {}
    /\ phase \notin {"trim", "done"} => served = {}
    /\ phase \in {"fill", "trim", "done", "failed"} => Scores
    /\ phase \in {"trim", "done"} => RoundsEnd /\ Fixed /\ Trim
    /\ phase = "done" => Over < CentParts
    /\ phase = "failed" => Positive # Sids /\ Cardinality(Positive) < 4

LEMMA RoundedInt == Scores /\ RoundsEnd /\ Fixed => rounded \in [DOMAIN rounded -> Int]
BY ShareFacts DEF Fixed

LEMMA AllocInit == AllocatorInit => AllocInv
BY AllocatorAssumption DEF AllocatorInit, AllocInv

\* The scores, the shares and the places of an allocation are its own while nothing
\* they are made of changes.
LEMMA ScoresKept ==
    AllocInv /\ UNCHANGED <<list, total, scored, left>> =>
        /\ Scores' = Scores /\ RoundsEnd' = RoundsEnd
        /\ Sids' = Sids /\ Competing' = Competing /\ Positive' = Positive
        /\ \A s : Score(s)' = Score(s) /\ Share(s)' = Share(s)
<1>1. SUFFICES ASSUME AllocInv, UNCHANGED <<list, total, scored, left>>
               PROVE  /\ Scores' = Scores /\ RoundsEnd' = RoundsEnd
                      /\ Sids' = Sids /\ Competing' = Competing /\ Positive' = Positive
                      /\ \A s : Score(s)' = Score(s) /\ Share(s)' = Share(s)
  OBVIOUS
<1>2. Sids' = Sids /\ Competing' = Competing /\ \A s : Score(s)' = Score(s)
  BY <1>1 DEF Sids, Competing, Score
<1>3. Quarters' = Quarters /\ PlacedSum' = PlacedSum
  BY <1>1, <1>2 DEF Quarters, PlacedSum
<1>4. ScoreSum(left)' = ScoreSum(left)
  BY <1>1, <1>2 DEF ScoreSum
<1>5. AboveCap' = AboveCap
  BY <1>1, <1>2, <1>3, <1>4 DEF AboveCap
<1>6. RoundsEnd' = RoundsEnd
  BY <1>1, <1>3, <1>4, <1>5 DEF RoundsEnd
<1>7. \A s : Share(s)' = Share(s)
  BY <1>1, <1>2, <1>3, <1>4 DEF Share
<1>8. Scores' = Scores
  BY <1>1, <1>2, <1>3 DEF Scores
<1>9. Positive' = Positive
  BY <1>2 DEF Positive
<1>. QED  BY <1>2, <1>6, <1>7, <1>8, <1>9

LEMMA FixedKept ==
    AllocInv /\ Fixed /\ UNCHANGED <<list, total, scored, left, rounded>> /\ served' \subseteq served => Fixed'
<1>1. SUFFICES ASSUME AllocInv, Fixed, UNCHANGED <<list, total, scored, left, rounded>>, served' \subseteq served
               PROVE  Fixed'
  OBVIOUS
<1>2. Sids' = Sids /\ Competing' = Competing /\ \A s : Share(s)' = Share(s)
  BY <1>1, ScoresKept
<1>. QED  BY <1>1, <1>2 DEF Fixed

LEMMA AllocScore == AllocInv /\ ScoreCandidates => AllocInv'
<1>1. SUFFICES ASSUME AllocInv, ScoreCandidates PROVE AllocInv'
  OBVIOUS
<1>2. /\ phase = "score" /\ list' = list /\ total' = total /\ served' = served /\ served = {}
      /\ list \in Seq(Candidate) /\ total \in Int
  BY <1>1 DEF AllocInv, ScoreCandidates
<1>3. CASE total <= 0 \/ \E i \in DOMAIN list : ~ValidCandidate(list[i])
  <2>1. phase' = "rejected" /\ left' = left /\ left = {}
    BY <1>1, <1>2, <1>3 DEF AllocInv, ScoreCandidates
  <2>. QED  BY <1>2, <2>1 DEF AllocInv
<1>4. CASE ~(total <= 0 \/ \E i \in DOMAIN list : ~ValidCandidate(list[i]))
  <2>1. /\ phase' = "fill"
        /\ scored' = {[at |-> i, sid |-> list[i].sid,
                       score |-> ExpectedMargin(list[i]) * list[i].confidence] : i \in Competing}
        /\ left' = {list[i].sid : i \in Competing}
    BY <1>1, <1>4 DEF ScoreCandidates, Competing
  <2>2. Competing' = Competing
    BY <1>2 DEF Competing
  <2>3. Sids' = left'
    <3>. DEFINE entry == [i \in Competing |-> [at |-> i, sid |-> list[i].sid,
                            score |-> ExpectedMargin(list[i]) * list[i].confidence]]
    <3>1. scored' = {entry[i] : i \in Competing} /\ \A i \in Competing : entry[i].sid = list[i].sid
      BY <2>1
    <3>. HIDE DEF entry
    <3>. QED  BY <2>1, <3>1 DEF Sids
  <2>4. Quarters' = 4
    <3>1. Sids' \ left' = {}
      BY <2>3
    <3>2. Cardinality({}) = 0
      BY FS_EmptySet
    <3>3. Cardinality((Sids \ left)') = 0
      BY <3>1, <3>2
    <3>. QED  BY <3>3 DEF Quarters, ShareCap
  <2>5. Scores'
    BY <1>2, <1>4, <2>1, <2>2, <2>3, <2>4 DEF Scores
  <2>. QED  BY <1>2, <2>1, <2>5 DEF AllocInv
<1>. QED  BY <1>3, <1>4

LEMMA AllocCap == AllocInv /\ CapRound => AllocInv'
<1>1. SUFFICES ASSUME AllocInv, CapRound PROVE AllocInv'
  OBVIOUS
<1>2. /\ phase = "fill" /\ phase' = "fill" /\ left' = left \ AboveCap /\ served' = {}
      /\ UNCHANGED <<list, total, scored>> /\ Scores
      /\ left # {} /\ ScoreSum(left) > 0 /\ AboveCap # {}
      /\ list \in Seq(Candidate) /\ total \in Int
  BY <1>1 DEF AllocInv, CapRound
<1>3. Sids' = Sids /\ Competing' = Competing /\ \A s : Score(s)' = Score(s)
  BY <1>2 DEF Sids, Competing, Score
<1>4. /\ 4 - Cardinality(Sids \ (left \ AboveCap)) >= 1
      /\ \A c \in Sids \ (left \ AboveCap) :
            Score(c) > 0 /\ \A l \in left \ AboveCap : Score(c) >= Score(l)
  BY <1>2, CapRoundKeeps
<1>5. Quarters' >= 1
  BY <1>2, <1>3, <1>4 DEF Quarters, ShareCap
<1>6. left' \subseteq Sids'
  BY <1>2, <1>3 DEF Scores
<1>7. \A c \in (Sids \ left)' : Score(c)' > 0 /\ \A l \in left' : Score(c)' >= Score(l)'
  BY <1>2, <1>3, <1>4
<1>8. Scores'
  BY <1>2, <1>3, <1>5, <1>6, <1>7 DEF Scores
<1>. QED  BY <1>2, <1>8 DEF AllocInv

LEMMA AllocRound == AllocInv /\ RoundShares => AllocInv'
<1>1. SUFFICES ASSUME AllocInv, RoundShares PROVE AllocInv'
  OBVIOUS
<1>2. /\ phase = "fill" /\ phase' = "trim" /\ UNCHANGED <<list, total, scored, left>>
      /\ Scores /\ RoundsEnd
      /\ amounts' = [sid \in {s \in Sids : Share(s) >= MinAllocation} |-> Share(sid)]
      /\ served' = {i \in Competing : list[i].sid \in DOMAIN amounts'}
      /\ rounded' = amounts' /\ todo' = DOMAIN amounts'
      /\ overflow' = Nearest(SumOf(amounts', served') * CentParts - total, CentParts)
      /\ list \in Seq(Candidate) /\ total \in Int
  BY <1>1 DEF AllocInv, RoundShares, RoundsEnd, Competing
<1>3. /\ Scores' /\ RoundsEnd' /\ Sids' = Sids /\ Competing' = Competing
      /\ \A s : Share(s)' = Share(s)
  BY <1>1, <1>2, ScoresKept
<1>4. /\ DOMAIN amounts' = {s \in Sids : Share(s) >= MinAllocation}
      /\ amounts' \in [DOMAIN amounts' -> Int]
      /\ \A s \in DOMAIN amounts' : amounts'[s] >= MinAllocation
  BY <1>2, ShareFacts
<1>5. Fixed'
  BY <1>2, <1>3 DEF Fixed
<1>6. DOMAIN amounts' \subseteq Paid'
  <2>1. SUFFICES ASSUME NEW s \in DOMAIN amounts' PROVE \E i \in served' : list'[i].sid = s
    BY DEF Paid
  <2>2. PICK item \in scored : item.sid = s
    BY <1>4, <2>1 DEF Sids
  <2>3. item.at \in Competing /\ list[item.at].sid = s
    BY <1>2, <2>2, ScoredItems
  <2>. QED  BY <1>2, <2>1, <2>3
<1>7. PaidOut' = SumOf(amounts', served')
  BY <1>2 DEF PaidOut, SumOf
<1>8. SumOf(amounts', served') \in Int
  <2>1. served' \in SUBSET Competing /\ \A i \in served' : list[i].sid \in DOMAIN amounts'
    BY <1>2
  <2>. QED  BY <1>2, <1>4, <2>1, PaySumInt
<1>9. Trim'
  <2>1. Over' < 2 * (overflow' * CentParts) + CentParts /\ overflow' \in Int
    <3>. DEFINE n == SumOf(amounts', served') * CentParts - total
    <3>1. n \in Int /\ CentParts \in Nat \ {0}
      BY <1>2, <1>8, AllocatorAssumption
    <3>2. Over' = 2 * n /\ overflow' = Nearest(n, CentParts)
      BY <1>2, <1>7 DEF Over
    <3>. HIDE DEF n
    <3>. QED  BY <3>1, <3>2, NearestOver
  <2>2. \A s \in DOMAIN amounts' : amounts'[s] \in Int /\ amounts'[s] <= amounts'[s]
    BY <1>4
  <2>3. \A a, b \in DOMAIN amounts' : amounts'[a] > amounts'[b] => amounts'[a] >= amounts'[b]
    BY <1>4
  <2>. QED  BY <1>2, <1>4, <1>6, <2>1, <2>2, <2>3 DEF Trim
<1>. QED  BY <1>2, <1>3, <1>5, <1>9 DEF AllocInv

LEMMA AllocMissing == AllocInv /\ ShareMissing => AllocInv'
<1>1. SUFFICES ASSUME AllocInv, ShareMissing PROVE AllocInv'
  OBVIOUS
<1>2. /\ phase = "fill" /\ phase' = "failed" /\ UNCHANGED <<list, total, scored, left, served>>
      /\ Scores /\ served = {} /\ list \in Seq(Candidate) /\ total \in Int
      /\ Positive # Sids /\ Cardinality(Positive) < 4
  BY <1>1, MissingMeansZero DEF AllocInv, ShareMissing
<1>3. Scores' /\ Sids' = Sids /\ Positive' = Positive
  BY <1>1, <1>2, ScoresKept
<1>. QED  BY <1>2, <1>3 DEF AllocInv

LEMMA AllocPublish == AllocInv /\ Publish => AllocInv'
<1>1. SUFFICES ASSUME AllocInv, Publish PROVE AllocInv'
  OBVIOUS
<1>2. /\ phase = "trim" /\ phase' = "done"
      /\ UNCHANGED <<total, list, scored, left, amounts, served, rounded, todo, overflow>>
      /\ Scores /\ RoundsEnd /\ Fixed /\ Trim /\ list \in Seq(Candidate) /\ total \in Int /\ total > 0
      /\ overflow <= 0 \/ Paid = {}
  BY <1>1 DEF AllocInv, Publish, Scores
<1>3. Scores' /\ RoundsEnd' /\ Sids' = Sids /\ Competing' = Competing
  BY <1>1, <1>2, ScoresKept
<1>4. Fixed'
  BY <1>1, <1>2, FixedKept
<1>5. PaidOut' = PaidOut /\ Paid' = Paid /\ Over' = Over
  BY <1>2 DEF PaidOut, Paid, SumOf, Over
<1>6. Trim'
  BY <1>2, <1>5 DEF Trim
<1>7. PaidOut \in Int
  BY <1>2, PaySumInt DEF Fixed, Trim, PaidOut
<1>8. Over < CentParts /\ Over' = Over
  <2>. DEFINE oc == overflow * CentParts pc == PaidOut * CentParts
  <2>1. /\ CentParts \in Nat \ {0} /\ overflow \in Int /\ oc \in Int /\ pc \in Int
        /\ Over = 2 * (pc - total) /\ Over < 2 * oc + CentParts
    BY <1>2, <1>7, AllocatorAssumption DEF Trim, Over
  <2>2. CASE overflow <= 0
    <3>1. overflow * CentParts <= 0 * CentParts
      BY <2>1, <2>2, TimesGrows
    <3>2. oc <= 0
      BY <2>1, <3>1
    <3>. HIDE DEF oc, pc
    <3>. QED  BY <1>2, <1>5, <2>1, <3>2 DEF Over
  <2>3. CASE Paid = {}
    <3>1. served = {}
      BY <2>3 DEF Paid
    <3>2. PaidOut = SumOn([i \in {} |-> 0], {})
      <4>1. [i \in served |-> amounts[list[i].sid]] = [i \in {} |-> [k \in {} |-> 0][i]]
        BY <3>1
      <4>. QED  BY <4>1 DEF PaidOut, SumOf, SumOn
    <3>3. PaidOut = 0
      BY <3>2, SumOnEmpty
    <3>4. pc = 0
      BY <2>1, <3>3
    <3>. HIDE DEF oc, pc
    <3>. QED  BY <1>2, <1>5, <2>1, <3>4 DEF Over
  <2>. QED  BY <1>2, <2>2, <2>3
<1>. QED  BY <1>2, <1>3, <1>4, <1>5, <1>6, <1>8 DEF AllocInv

\* What is paid less is over the budget less, whatever the unit.
LEMMA OverShrinks ==
    ASSUME NEW paid \in Int, NEW less \in Int, NEW over \in Int, NEW d \in Int, total \in Int,
           less <= paid - d, 2 * (paid * CentParts - total) < 2 * (over * CentParts) + CentParts
    PROVE  2 * (less * CentParts - total) < 2 * ((over - d) * CentParts) + CentParts
<1>1. CentParts \in Nat
  BY AllocatorAssumption
<1>. DEFINE c == CentParts
<1>2. less * c <= (paid - d) * c
  BY <1>1, TimesGrows
<1>3. (paid - d) * c = paid * c - d * c /\ (over - d) * c = over * c - d * c
  BY <1>1
<1>. DEFINE pc == paid * c lc == less * c oc == over * c dc == d * c
<1>4. pc \in Int /\ lc \in Int /\ oc \in Int /\ dc \in Int /\ c \in Nat
  BY <1>1
<1>5. lc <= pc - dc /\ (over - d) * c = oc - dc
  BY <1>2, <1>3
<1>6. 2 * (pc - total) < 2 * oc + c
  OBVIOUS
<1>. HIDE DEF pc, lc, oc, dc, c
<1>7. 2 * (lc - total) < 2 * (oc - dc) + c
  BY <1>4, <1>5, <1>6
<1>. QED  BY <1>5, <1>7 DEF lc, c

LEMMA AllocShave == AllocInv /\ Shave => AllocInv'
<1>1. SUFFICES ASSUME AllocInv, Shave PROVE AllocInv'
  OBVIOUS
<1>2. /\ phase = "trim" /\ phase' = "trim" /\ UNCHANGED <<total, list, scored, left, served, rounded>>
      /\ Scores /\ RoundsEnd /\ Fixed /\ Trim /\ list \in Seq(Candidate) /\ total \in Int
      /\ overflow > 0
  BY <1>1 DEF AllocInv, Shave
<1>3. PICK sid \in todo :
          /\ \A other \in todo : Smaller(sid, other)
          /\ amounts' = [amounts EXCEPT ![sid] = Max({amounts[sid] - overflow, MinAllocation})]
          /\ overflow' = overflow - (amounts[sid] - amounts'[sid])
          /\ todo' = todo \ {sid}
  BY <1>1 DEF Shave
<1>. DEFINE R == DOMAIN rounded
<1>4. /\ amounts \in [R -> Int] /\ todo \subseteq R /\ overflow \in Int /\ sid \in R
      /\ rounded \in [R -> Int] /\ MinAllocation \in Int
      /\ \A s \in R : amounts[s] \in Int /\ rounded[s] \in Int
      /\ \A s \in R : MinAllocation <= amounts[s] /\ amounts[s] <= rounded[s]
      /\ amounts[sid] = rounded[sid]
  BY <1>2, <1>3, RoundedInt DEF Trim, MinAllocation
<1>5. /\ amounts' \in [R -> Int] /\ \A s \in R : s # sid => amounts'[s] = amounts[s]
      /\ amounts'[sid] \in Int /\ amounts'[sid] <= amounts[sid] /\ MinAllocation <= amounts'[sid]
      /\ amounts'[sid] >= amounts[sid] - overflow
      /\ amounts'[sid] = amounts[sid] - overflow \/ amounts'[sid] = MinAllocation
  <2>. DEFINE m == Max({amounts[sid] - overflow, MinAllocation})
  <2>1. /\ m \in Int /\ m >= amounts[sid] - overflow /\ m >= MinAllocation
        /\ m = amounts[sid] - overflow \/ m = MinAllocation
    <3>. DEFINE x == amounts[sid] - overflow
    <3>1. x \in Int /\ MinAllocation \in Int
      BY <1>4
    <3>. HIDE DEF x
    <3>2. /\ Max({x, MinAllocation}) \in Int /\ Max({x, MinAllocation}) >= x
          /\ Max({x, MinAllocation}) >= MinAllocation
          /\ Max({x, MinAllocation}) = x \/ Max({x, MinAllocation}) = MinAllocation
      BY <3>1, MaxOfTwo
    <3>. QED  BY <3>2 DEF x
  <2>2. amounts' = [amounts EXCEPT ![sid] = m]
    BY <1>3
  <2>. HIDE DEF m
  <2>3. m <= amounts[sid]
    BY <1>2, <1>4, <2>1
  <2>. QED  BY <1>4, <2>1, <2>2, <2>3
<1>6. /\ Scores' /\ RoundsEnd' /\ Fixed'
  BY <1>1, <1>2, ScoresKept, FixedKept
<1>7. Paid' = Paid /\ R \subseteq Paid
  BY <1>2, <1>3 DEF Paid, Trim
<1>8. \A p \in R \ todo' : \A t \in todo' : rounded[p] <= rounded[t]
  <2>1. ASSUME NEW p \in R \ todo', NEW t \in todo' PROVE rounded[p] <= rounded[t]
    <3>1. t \in todo /\ t \in R /\ amounts[t] = rounded[t]
      BY <1>2, <1>3, <1>4, <2>1 DEF Trim
    <3>2. CASE p = sid
      <4>1. amounts[sid] <= amounts[t]
        BY <1>3, <1>4, <3>1 DEF Smaller
      <4>. QED  BY <1>4, <3>1, <3>2, <4>1
    <3>3. CASE p # sid
      BY <1>2, <1>3, <2>1, <3>1, <3>3 DEF Trim
    <3>. QED  BY <3>2, <3>3
  <2>. QED  BY <2>1
<1>9. overflow' \in Int /\ (overflow' > 0 => \A p \in R \ todo' : amounts'[p] = MinAllocation)
  <2>1. overflow' \in Int
    BY <1>3, <1>4, <1>5
  <2>2. overflow' > 0 => amounts'[sid] = MinAllocation
    BY <1>3, <1>4, <1>5
  <2>3. \A p \in R \ todo : amounts[p] = MinAllocation
    BY <1>2 DEF Trim
  <2>. QED  BY <1>3, <1>5, <2>1, <2>2, <2>3
<1>10. \A a, b \in R : rounded[a] > rounded[b] => amounts'[a] >= amounts'[b]
  <2>1. SUFFICES ASSUME NEW a \in R, NEW b \in R, rounded[a] > rounded[b]
                 PROVE  amounts'[a] >= amounts'[b]
    OBVIOUS
  <2>2. amounts[a] >= amounts[b] /\ a # b
    BY <1>2, <1>4, <2>1 DEF Trim
  <2>3. CASE a = sid
    <3>1. b \notin todo
      <4>1. SUFFICES ASSUME b \in todo PROVE FALSE
        OBVIOUS
      <4>2. amounts[sid] <= amounts[b] /\ amounts[b] = rounded[b]
        BY <1>2, <1>3, <1>4, <4>1 DEF Smaller, Trim
      <4>. QED  BY <1>4, <2>1, <2>3, <4>2
    <3>2. amounts[b] = MinAllocation /\ amounts'[b] = amounts[b]
      BY <1>2, <1>5, <2>2, <2>3, <3>1 DEF Trim
    <3>. QED  BY <1>5, <2>3, <3>2
  <2>4. CASE b = sid
    BY <1>4, <1>5, <2>2, <2>4
  <2>5. CASE a # sid /\ b # sid
    BY <1>5, <2>2, <2>5
  <2>. QED  BY <2>3, <2>4, <2>5
<1>11. Over' < 2 * (overflow' * CentParts) + CentParts
  <2>. DEFINE d == amounts[sid] - amounts'[sid]
  <2>1. PICK j \in served : list[j].sid = sid
    BY <1>3, <1>4, <1>7 DEF Paid
  <2>2. served \in SUBSET Competing /\ \A i \in served : list[i].sid \in R
    BY <1>2 DEF Fixed
  <2>3. d \in Int /\ amounts'[list[j].sid] <= amounts[list[j].sid] - d /\ \A s \in R : amounts'[s] <= amounts[s]
    BY <1>4, <1>5, <2>1
  <2>4. SumOf(amounts, served) \in Int /\ SumOf(amounts', served) \in Int
    BY <1>2, <1>4, <1>5, <2>2, PaySumInt
  <2>5. overflow' = overflow - d
    BY <1>3
  <2>. HIDE DEF d
  <2>6. SumOf(amounts', served) <= SumOf(amounts, served) - d
    BY <1>2, <1>4, <1>5, <2>2, <2>3, ShaveSum
  <2>7. PaidOut' = SumOf(amounts', served) /\ PaidOut = SumOf(amounts, served)
    BY <1>2 DEF PaidOut, SumOf
  <2>8. Over < 2 * (overflow * CentParts) + CentParts
    BY <1>2 DEF Trim
  <2>. QED  BY <1>2, <1>4, <2>3, <2>4, <2>5, <2>6, <2>7, <2>8, OverShrinks DEF Over
<1>12. Trim'
  <2>1. \A s \in todo' : amounts'[s] = rounded[s]
    BY <1>2, <1>3, <1>4, <1>5 DEF Trim
  <2>2. \A s \in R : MinAllocation <= amounts'[s] /\ amounts'[s] <= rounded[s]
    BY <1>4, <1>5
  <2>3. todo' \subseteq R
    BY <1>3, <1>4
  <2>4. rounded' = rounded /\ total' = total
    BY <1>2
  <2>. QED  BY <1>5, <1>7, <1>8, <1>9, <1>10, <1>11, <2>1, <2>2, <2>3, <2>4 DEF Trim
<1>. QED  BY <1>2, <1>6, <1>12 DEF AllocInv

LEMMA AllocDrop == AllocInv /\ DropSmallest => AllocInv'
<1>1. SUFFICES ASSUME AllocInv, DropSmallest PROVE AllocInv'
  OBVIOUS
<1>2. /\ phase = "trim" /\ phase' = "trim"
      /\ UNCHANGED <<total, list, scored, left, amounts, rounded, todo>>
      /\ Scores /\ RoundsEnd /\ Fixed /\ Trim /\ list \in Seq(Candidate) /\ total \in Int
      /\ overflow > 0 /\ todo = {}
  BY <1>1 DEF AllocInv, DropSmallest
<1>3. PICK sid \in Paid : /\ served' = {i \in served : list[i].sid # sid}
                          /\ overflow' = overflow - amounts[sid]
  BY <1>1 DEF DropSmallest
<1>. DEFINE R == DOMAIN rounded
<1>4. PICK j \in served : list[j].sid = sid
  BY DEF Paid
<1>5. /\ served \in SUBSET Competing /\ \A i \in served : list[i].sid \in R
      /\ sid \in R /\ amounts \in [R -> Int] /\ overflow \in Int
      /\ \A s \in R : amounts[s] \in Int /\ amounts[s] >= 0
      /\ amounts[sid] \in Int
  BY <1>2, <1>4 DEF Fixed, Trim, MinAllocation
<1>6. Scores' /\ RoundsEnd' /\ Fixed'
  BY <1>1, <1>2, <1>3, ScoresKept, FixedKept
<1>7. SumOf(amounts, served') <= SumOf(amounts, served) - amounts[sid]
  BY <1>2, <1>3, <1>4, <1>5, DropSum
<1>8. SumOf(amounts, served') \in Int /\ SumOf(amounts, served) \in Int
  <2>1. served' \in SUBSET Competing /\ \A i \in served' : list[i].sid \in R
    BY <1>3, <1>5
  <2>. QED  BY <1>2, <1>5, <2>1, PaySumInt
<1>9. PaidOut' = SumOf(amounts, served') /\ PaidOut = SumOf(amounts, served)
  BY <1>2 DEF PaidOut, SumOf
<1>10. Over' < 2 * (overflow' * CentParts) + CentParts /\ overflow' \in Int
  <2>1. Over < 2 * (overflow * CentParts) + CentParts
    BY <1>2 DEF Trim
  <2>2. overflow' \in Int
    BY <1>3, <1>5
  <2>3. Over' < 2 * (overflow' * CentParts) + CentParts
    BY <1>2, <1>3, <1>5, <1>7, <1>8, <1>9, <2>1, OverShrinks DEF Over
  <2>. QED  BY <2>2, <2>3
<1>11. \A p \in R : amounts[p] = MinAllocation
  BY <1>2 DEF Trim
<1>12. Trim'
  BY <1>2, <1>10, <1>11 DEF Trim
<1>. QED  BY <1>2, <1>6, <1>12 DEF AllocInv

LEMMA AllocInvariance == AllocatorSpec => []AllocInv
<1>1. AllocInv /\ [AllocatorNext]_allocator => AllocInv'
  <2>1. SUFFICES ASSUME AllocInv, [AllocatorNext]_allocator PROVE AllocInv'
    OBVIOUS
  <2>2. CASE UNCHANGED allocator
    <3>1. /\ UNCHANGED <<phase, total, list, scored, left, amounts, served, rounded, todo, overflow>>
      BY <2>2 DEF allocator
    <3>2. /\ Scores' = Scores /\ RoundsEnd' = RoundsEnd /\ Positive' = Positive /\ Sids' = Sids
          /\ Competing' = Competing
      BY <2>1, <3>1, ScoresKept
    <3>3. PaidOut' = PaidOut /\ Paid' = Paid /\ Over' = Over
      BY <3>1 DEF PaidOut, Paid, SumOf, Over
    <3>4. Trim' = Trim
      BY <3>1, <3>3 DEF Trim
    <3>5. Fixed => Fixed'
      BY <2>1, <3>1, FixedKept
    <3>. QED  BY <2>1, <3>1, <3>2, <3>3, <3>4, <3>5 DEF AllocInv
  <2>. QED  BY <2>1, <2>2, AllocScore, AllocCap, AllocRound, AllocMissing, AllocShave,
               AllocDrop, AllocPublish DEF AllocatorNext
<1>. QED  BY <1>1, AllocInit, PTL DEF AllocatorSpec

\* The plan is sound, for every budget and every list of candidates.
THEOREM AllocationsAreSound == AllocatorSpec => []AllocationIsSound
<1>1. AllocInv => AllocationIsSound
  <2>1. SUFFICES ASSUME AllocInv PROVE AllocationIsSound
    OBVIOUS
  <2>2. BudgetKept
    <3>. SUFFICES ASSUME phase = "done"
                  PROVE  Over < CentParts /\ (total % CentParts = 0 => PaidOut * CentParts <= total)
      BY DEF BudgetKept, Allocated, Over
    <3>1. /\ Over < CentParts /\ CentParts \in Nat \ {0} /\ total \in Int /\ PaidOut \in Int
      BY <2>1, AllocatorAssumption, PaySumInt DEF AllocInv, Scores, Fixed, Trim, PaidOut
    <3>2. ASSUME total % CentParts = 0 PROVE PaidOut * CentParts <= total
      <4>. DEFINE q == total \div CentParts
      <4>1. q \in Int /\ total = CentParts * q
        BY <3>1, <3>2
      <4>. HIDE DEF q
      <4>2. SUFFICES ASSUME q + 1 <= PaidOut PROVE FALSE
        <5>1. PaidOut <= q => PaidOut * CentParts <= q * CentParts
          BY <3>1, <4>1, TimesGrows
        <5>. QED  BY <3>1, <4>1, <5>1
      <4>3. (q + 1) * CentParts <= PaidOut * CentParts
        BY <3>1, <4>1, <4>2, TimesGrows
      <4>4. (q + 1) * CentParts = total + CentParts
        BY <3>1, <4>1
      <4>. DEFINE pc == PaidOut * CentParts
      <4>5. pc \in Int /\ total + CentParts <= pc /\ 2 * (pc - total) < CentParts
        BY <3>1, <4>3, <4>4 DEF Over
      <4>. HIDE DEF pc
      <4>. QED  BY <3>1, <4>5
    <3>. QED  BY <3>1, <3>2
  <2>3. FailsOnZeroConfidence
    BY <2>1, EnoughPositive DEF AllocInv, FailsOnZeroConfidence, ShareCap
  <2>. SUFFICES ASSUME phase = "done"
                PROVE  CapAndFloorKept /\ MoneyNeedsProof /\ BetterScoreNotPaidLess
    BY <2>2, <2>3 DEF AllocationIsSound, CapAndFloorKept, MoneyNeedsProof,
                      BetterScoreNotPaidLess, Allocated
  <2>4. Scores /\ RoundsEnd /\ Fixed /\ Trim
    BY <2>1 DEF AllocInv
  <2>. DEFINE R == DOMAIN rounded
  <2>5. /\ amounts \in [R -> Int] /\ rounded \in [R -> Int] /\ total \in Int
        /\ \A s \in R : amounts[s] \in Int /\ rounded[s] \in Int
        /\ \A s \in R : MinAllocation <= amounts[s] /\ amounts[s] <= rounded[s]
        /\ R = {s \in Sids : Share(s) >= MinAllocation}
        /\ \A s \in R : rounded[s] = Share(s)
    BY <2>4, RoundedInt DEF Scores, Fixed, Trim
  <2>6. /\ \A sid \in Sids : /\ Share(sid) \in Int /\ 2 * (CapParts * Share(sid)) <= 2 * total + CapParts
                             /\ Share(sid) >= MinAllocation => Score(sid) > 0
        /\ \A a, b \in Sids : Score(a) > Score(b) => Share(a) >= Share(b)
    BY <2>4, ShareFacts
  <2>7. \A i \in served : i \in Competing /\ list[i].sid \in R
    BY <2>4 DEF Fixed
  <2>8. CapAndFloorKept
    <3>1. ASSUME NEW i \in served
          PROVE  /\ 2 * (CapParts * amounts[list[i].sid]) <= 2 * total + CapParts
                 /\ amounts[list[i].sid] >= MinAllocation
      <4>. DEFINE s == list[i].sid
      <4>1. s \in R /\ s \in Sids
        BY <2>5, <2>7
      <4>. HIDE DEF s
      <4>2. amounts[s] >= MinAllocation /\ amounts[s] <= Share(s)
        BY <2>5, <4>1
      <4>3. CapParts * amounts[s] <= CapParts * Share(s)
        BY <2>5, <2>6, <4>1, <4>2, CapPartsNat, TimesGrows
      <4>. DEFINE ca == CapParts * amounts[s] cs == CapParts * Share(s)
      <4>4. ca \in Int /\ cs \in Int /\ ca <= cs /\ 2 * cs <= 2 * total + CapParts /\ CapParts \in Int
        BY <2>5, <2>6, <4>1, <4>3, CapPartsNat
      <4>. HIDE DEF ca, cs
      <4>5. 2 * ca <= 2 * total + CapParts
        BY <2>5, <4>4
      <4>. QED  BY <4>2, <4>5 DEF s, ca
    <3>2. ASSUME NEW i \in served, ListedOnce(list[i].sid)
          PROVE  Cardinality({j \in served : list[j].sid = list[i].sid}) = 1
      <4>. DEFINE same == {j \in served : list[j].sid = list[i].sid}
                  items == {item \in scored : item.sid = list[i].sid}
      <4>1. IsFiniteSet(items) /\ Cardinality(items) = 1
        BY <2>4, <3>2, ScoredItems, FS_Subset DEF ListedOnce
      <4>2. PICK only : items = {only}
        BY <4>1, FS_Singleton
      <4>3. \A j \in same : j = only.at
        <5>1. ASSUME NEW j \in same PROVE j = only.at
          <6>1. j \in Competing /\ list[j].sid = list[i].sid
            BY <2>7
          <6>2. PICK item \in scored : item.at = j /\ item.sid = list[j].sid
            BY <2>4, <6>1, ScoredItems
          <6>3. item \in items
            BY <6>1, <6>2
          <6>. QED  BY <4>2, <6>2, <6>3
        <5>. QED  BY <5>1
      <4>4. i \in same
        OBVIOUS
      <4>5. same = {i}
        BY <4>3, <4>4
      <4>. QED  BY <4>5, FS_Singleton
    <3>. QED  BY <3>1, <3>2 DEF CapAndFloorKept
  <2>9. MoneyNeedsProof
    <3>1. ASSUME NEW i \in served PROVE Competes(list[i]) /\ list[i].confidence > 0
      <4>1. i \in Competing /\ list[i].sid \in R
        BY <2>7
      <4>2. PICK item \in scored : item.at = i /\ item.sid = list[i].sid
        BY <2>4, <4>1, ScoredItems
      <4>3. Score(list[i].sid) > 0 /\ list[i].sid \in Sids
        BY <2>5, <2>6, <4>1
      <4>4. Score(list[i].sid) \in Nat /\ Score(list[i].sid) <= item.score /\ item.score \in Nat
        BY <2>4, <4>2, <4>3, ScoreIsLeast, ScoredItems
      <4>5. item.score > 0
        BY <4>3, <4>4
      <4>6. list[i].confidence > 0
        BY <2>4, <4>2, <4>5, ScoredItems
      <4>. QED  BY <4>1, <4>6 DEF Competing
    <3>. QED  BY <3>1 DEF MoneyNeedsProof
  <2>10. BetterScoreNotPaidLess
    <3>1. ASSUME NEW a \in Sids, NEW b \in Paid, Score(a) > Score(b)
          PROVE  /\ a \in DOMAIN amounts /\ rounded[a] >= rounded[b]
                 /\ rounded[a] > rounded[b] =>
                       /\ amounts[a] >= amounts[b]
                       /\ a \in Paid \/ amounts[a] = MinAllocation
      <4>1. b \in R /\ b \in Sids
        BY <2>5, <2>7 DEF Paid
      <4>2. Share(a) >= Share(b) /\ Share(a) \in Int /\ Share(b) \in Int
        BY <2>6, <3>1, <4>1
      <4>3. a \in R
        BY <2>5, <4>1, <4>2 DEF MinAllocation
      <4>4. rounded[a] >= rounded[b]
        BY <2>5, <4>1, <4>2, <4>3
      <4>. QED  BY <2>4, <2>5, <4>1, <4>3, <4>4 DEF Trim
    <3>. QED  BY <3>1 DEF BetterScoreNotPaidLess
  <2>. QED  BY <2>8, <2>9, <2>10
<1>. QED  BY <1>1, AllocInvariance, PTL

-----------------------------------------------------------------------------
(* The board that refreshes itself.                                         *)

BoardRecord == [store : CohortStores, stamp : Nat, elapsed : Nat, remaining : Int,
                status : {"AVAILABLE", "NO_DATA", "ERROR"}, decided : BOOLEAN]

Refresher == [pc : {"idle", "due", "warming", "evaluating"}, now : Int, overtaken : BOOLEAN,
              starts : UNION {[S -> Int] : S \in SUBSET CohortStores}]

RefreshTyped ==
    /\ clock \in Nat /\ losses \in Nat /\ lastAttempt \in Int
    /\ recordLog \in Seq(BoardRecord) /\ latestRows \in SUBSET BoardRecord
    /\ reader \in [Readers -> Refresher]

\* The start a record implies, and a record whose start has slipped by less than n days.
StartOf(rec) == rec.stamp - rec.elapsed * TicksPerDay
Within(rec, n) == /\ rec.stamp <= clock /\ CampaignStart <= StartOf(rec)
                  /\ StartOf(rec) < CampaignStart + TicksPerDay * n

OneRow ==
    \A s \in CohortStores :
        \E rec \in latestRows : rec.store = s /\ \A row \in latestRows : row.store = s => row = rec

\* Every redeploy costs two days: one for the row that becomes the whole history, which
\* was evaluated from a start already late, and one for the evaluation made from it.
HistoryBounded ==
    /\ \A i \in DOMAIN recordLog : Within(recordLog[i], 2 + 2 * losses)
    /\ \A row \in latestRows : Within(row, 2 + 2 * losses)
    /\ \A s \in CohortStores :
          IF InLog(s) # {} THEN \E i \in InLog(s) : Within(recordLog[i], 1 + 2 * losses)
          ELSE \A row \in latestRows : row.store = s => Within(row, 2 * losses)

\* What a reader rebuilt is still what the records say when it evaluates, and a store it
\* left out is a decided one.
RebuiltHolds ==
    \A r \in Readers : reader[r].pc = "evaluating" =>
        /\ \A s \in DOMAIN reader[r].starts : reader[r].starts[s] = RebuiltStart(s)
        /\ \A s \in CohortStores \ DOMAIN reader[r].starts : s \in DecidedStores

CooldownLooked ==
    \A r \in Readers : (reader[r].pc = "due" /\ ~reader[r].overtaken /\ lastAttempt # Never)
        => reader[r].now - lastAttempt >= Cooldown

RefreshInv == /\ RefreshTyped /\ OneRow /\ HistoryBounded /\ OneRefresher
              /\ RebuiltHolds /\ CooldownLooked

LEMMA StartsAreNumbers ==
    RefreshTyped => /\ \A rec \in BoardRecord : StartOf(rec) \in Int
                    /\ CampaignStart \in Nat /\ clock \in Nat /\ losses \in Nat
                    /\ \A n \in Nat : TicksPerDay * n \in Nat
                    /\ \A n \in Nat : TicksPerDay * (n + 1) = TicksPerDay * n + TicksPerDay
BY RefreshAssumption, Distributes DEF RefreshTyped, BoardRecord, StartOf

\* The last record of a store.
LEMMA LastInLog ==
    RefreshTyped => \A s \in CohortStores :
        /\ InLog(s) \in SUBSET Nat
        /\ InLog(s) # {} => /\ Max(InLog(s)) \in InLog(s)
                            /\ \A i \in InLog(s) : i <= Max(InLog(s))
<1>. SUFFICES ASSUME RefreshTyped, NEW s \in CohortStores
              PROVE  /\ InLog(s) \in SUBSET Nat
                     /\ InLog(s) # {} => /\ Max(InLog(s)) \in InLog(s)
                                         /\ \A i \in InLog(s) : i <= Max(InLog(s))
  OBVIOUS
<1>. DEFINE n == Len(recordLog)
            L == InLog(s)
<1>1. n \in Nat /\ L \in SUBSET Nat /\ \A i \in L : i <= n
  BY DEF RefreshTyped, InLog
<1>. HIDE DEF n, L
<1>2. ASSUME L # {}
      PROVE  Max(L) \in L /\ \A i \in L : i <= Max(L)
  <2>. DEFINE B == {n - i : i \in L}
  <2>0. \A i \in L : i \in Nat /\ n - i \in Nat
    BY <1>1
  <2>00. \A b \in B : b \in Nat
    BY <2>0
  <2>1. B \in SUBSET Nat /\ B # {}
    <3>1. PICK i \in L : TRUE
      BY <1>2
    <3>2. n - i \in B
      BY <3>1
    <3>. HIDE DEF B
    <3>. QED  BY <3>2, <2>00
  <2>. HIDE DEF B
  <2>2. PICK b \in B : \A c \in B : b <= c
    BY <2>1, LeastElement
  <2>. USE DEF B
  <2>3. PICK i \in L : b = n - i
    BY <2>2
  <2>4. \A j \in L : j <= i
    BY <2>2, <2>3, <1>1
  <2>5. \E x \in L : \A y \in L : x >= y
    BY <2>4, <1>1
  <2>. QED  BY <2>5, <1>1 DEF Max
<1>. QED  BY <1>1, <1>2 DEF L

LEMMA RecordsKnown ==
    (RefreshTyped /\ OneRow) => \A s \in CohortStores :
        /\ RecordsOf(s) \in SUBSET BoardRecord /\ RecordsOf(s) # {}
        /\ Latest(s) \in RecordsOf(s)
        /\ \A rec \in RecordsOf(s) : rec.store = s
        /\ InLog(s) # {} => RecordsOf(s) = {recordLog[i] : i \in InLog(s)}
        /\ InLog(s) = {} => RecordsOf(s) = {Latest(s)} /\ Latest(s) \in latestRows
<1>. SUFFICES ASSUME RefreshTyped, OneRow, NEW s \in CohortStores
     PROVE  /\ RecordsOf(s) \in SUBSET BoardRecord /\ RecordsOf(s) # {}
            /\ Latest(s) \in RecordsOf(s)
            /\ \A rec \in RecordsOf(s) : rec.store = s
            /\ InLog(s) # {} => RecordsOf(s) = {recordLog[i] : i \in InLog(s)}
            /\ InLog(s) = {} => RecordsOf(s) = {Latest(s)} /\ Latest(s) \in latestRows
  OBVIOUS
<1>1. PICK one \in latestRows : one.store = s /\ \A row \in latestRows : row.store = s => row = one
  BY DEF OneRow
<1>2. CASE InLog(s) = {}
  <2>1. RecordsOf(s) = {one}
    BY <1>1, <1>2 DEF RecordsOf
  <2>2. Latest(s) = one
    BY <1>1, <1>2 DEF Latest
  <2>. QED  BY <1>1, <1>2, <2>1, <2>2 DEF RefreshTyped
<1>3. CASE InLog(s) # {}
  <2>1. Max(InLog(s)) \in InLog(s)
    BY <1>3, LastInLog
  <2>2. \A i \in InLog(s) : recordLog[i] \in BoardRecord /\ recordLog[i].store = s
    BY DEF InLog, RefreshTyped
  <2>3. RecordsOf(s) = {recordLog[i] : i \in InLog(s)}
    BY <1>3 DEF RecordsOf
  <2>4. Latest(s) = recordLog[Max(InLog(s))]
    BY <1>3 DEF Latest
  <2>. QED  BY <1>3, <2>1, <2>2, <2>3, <2>4
<1>. QED  BY <1>2, <1>3

\* The start rebuilt for a store is the least one its records imply.
LEMMA RebuiltIsLeast ==
    (RefreshTyped /\ OneRow /\ HistoryBounded) => \A s \in CohortStores :
        /\ RebuiltStart(s) \in Nat /\ RebuiltStart(s) >= CampaignStart /\ RebuiltStart(s) <= clock
        /\ \E rec \in RecordsOf(s) : RebuiltStart(s) = StartOf(rec)
        /\ \A rec \in RecordsOf(s) : RebuiltStart(s) <= StartOf(rec)
        /\ RebuiltStart(s) < CampaignStart + TicksPerDay * (1 + 2 * losses)
        /\ InLog(s) = {} => RebuiltStart(s) < CampaignStart + TicksPerDay * (2 * losses)
<1>. SUFFICES ASSUME RefreshTyped, OneRow, HistoryBounded, NEW s \in CohortStores
     PROVE
        /\ RebuiltStart(s) \in Nat /\ RebuiltStart(s) >= CampaignStart /\ RebuiltStart(s) <= clock
        /\ \E rec \in RecordsOf(s) : RebuiltStart(s) = StartOf(rec)
        /\ \A rec \in RecordsOf(s) : RebuiltStart(s) <= StartOf(rec)
        /\ RebuiltStart(s) < CampaignStart + TicksPerDay * (1 + 2 * losses)
        /\ InLog(s) = {} => RebuiltStart(s) < CampaignStart + TicksPerDay * (2 * losses)
  OBVIOUS
<1>. DEFINE T == {rec.stamp - rec.elapsed * TicksPerDay : rec \in RecordsOf(s)}
            m == RebuiltStart(s)
<1>1. T = {StartOf(rec) : rec \in RecordsOf(s)}
  BY DEF StartOf
<1>2. RecordsOf(s) \in SUBSET BoardRecord /\ RecordsOf(s) # {}
  BY RecordsKnown
<1>3. \A rec \in RecordsOf(s) : StartOf(rec) \in Int /\ StartOf(rec) >= CampaignStart /\ rec.stamp <= clock
  <2>1. \A rec \in BoardRecord : StartOf(rec) \in Int
    BY StartsAreNumbers
  <2>2. CASE InLog(s) = {}
    BY <2>2, <2>1, <1>2, RecordsKnown DEF HistoryBounded, Within
  <2>3. CASE InLog(s) # {}
    <3>1. RecordsOf(s) = {recordLog[i] : i \in InLog(s)}
      BY <2>3, RecordsKnown
    <3>. QED  BY <3>1, <2>1, <1>2 DEF HistoryBounded, Within, InLog
  <2>. QED  BY <2>2, <2>3
<1>4. T \in SUBSET Nat /\ T # {}
  BY <1>1, <1>2, <1>3, RefreshAssumption
<1>5. m = Min(T)
  BY DEF RebuiltStart
<1>. HIDE DEF T, m
<1>6. m \in T /\ \A x \in T : m <= x
  BY <1>4, <1>5, MinOfNats
<1>7. PICK rec \in RecordsOf(s) : m = StartOf(rec)
  BY <1>6, <1>1
<1>8. StartOf(rec) <= rec.stamp
  <2>1. rec.elapsed \in Nat /\ rec.stamp \in Nat
    BY <1>2 DEF BoardRecord
  <2>2. rec.elapsed * TicksPerDay \in Nat
    BY <2>1, RefreshAssumption
  <2>. QED  BY <2>1, <2>2 DEF StartOf
<1>9. m \in Nat /\ m >= CampaignStart /\ m <= clock
  <2>1. rec.stamp \in Nat /\ clock \in Nat
    BY <1>2 DEF BoardRecord, RefreshTyped
  <2>. QED  BY <1>3, <1>4, <1>6, <1>7, <1>8, <2>1
<1>10. \A r \in RecordsOf(s) : m <= StartOf(r)
  BY <1>1, <1>6
<1>11. ASSUME InLog(s) = {}
       PROVE  m < CampaignStart + TicksPerDay * (2 * losses)
  <2>1. rec \in latestRows /\ rec.store = s
    BY <1>11, <1>7, RecordsKnown
  <2>2. Within(rec, 2 * losses)
    BY <1>11, <2>1 DEF HistoryBounded
  <2>. QED  BY <2>2, <1>7 DEF Within
<1>12. m < CampaignStart + TicksPerDay * (1 + 2 * losses)
  <2>0. 2 * losses \in Nat /\ losses \in Nat
    BY StartsAreNumbers
  <2>1. /\ TicksPerDay * (2 * losses) \in Nat
        /\ TicksPerDay * (1 + 2 * losses) = TicksPerDay * (2 * losses) + TicksPerDay
        /\ TicksPerDay * (1 + 2 * losses) \in Nat
    <3>1. 1 + 2 * losses = 2 * losses + 1 /\ 1 + 2 * losses \in Nat
      BY <2>0
    <3>. QED  BY <2>0, <3>1, StartsAreNumbers
  <2>2. CASE InLog(s) = {}
    <3>. HIDE DEF T, m
    <3>1. m < CampaignStart + TicksPerDay * (2 * losses)
      BY <2>2, <1>11
    <3>. QED  BY <3>1, <2>1, <1>9, RefreshAssumption
  <2>3. CASE InLog(s) # {}
    <3>1. PICK i \in InLog(s) : Within(recordLog[i], 1 + 2 * losses)
      BY <2>3 DEF HistoryBounded
    <3>2. recordLog[i] \in RecordsOf(s)
      BY <2>3, RecordsKnown
    <3>3. m <= StartOf(recordLog[i]) /\ StartOf(recordLog[i]) \in Int
      BY <3>2, <1>10, <1>3
    <3>4. StartOf(recordLog[i]) < CampaignStart + TicksPerDay * (1 + 2 * losses)
      BY <3>1 DEF Within
    <3>. QED  BY <3>3, <3>4, <2>1, <1>9, RefreshAssumption
  <2>. QED  BY <2>2, <2>3
<1>. QED  BY <1>7, <1>9, <1>10, <1>11, <1>12 DEF m

\* An evaluation dates the start it is given back by less than a day.
LEMMA EvaluationDates ==
    ASSUME NEW s \in CohortStores, NEW now \in Nat, NEW start \in Nat, start <= now,
           NEW status \in {"AVAILABLE", "NO_DATA", "ERROR"}
    PROVE  LET rec == Evaluation(s, now, start, status) IN
           /\ rec \in BoardRecord
           /\ rec.store = s /\ rec.stamp = now /\ rec.status = status /\ ~rec.decided
           /\ start <= StartOf(rec) /\ StartOf(rec) < start + TicksPerDay
<1>. DEFINE q == (now - start) \div TicksPerDay
            e == DaysElapsed(now, start)
            w == Max({0, WindowDays - e})
<1>0. now - start \in Int /\ TicksPerDay \in Nat \ {0} /\ WindowDays \in Int
  BY RefreshAssumption
<1>1. q \in Int /\ q * TicksPerDay <= now - start /\ now - start < q * TicksPerDay + TicksPerDay
  BY <1>0, Quotient
<1>2. 0 <= q
  <2>1. 0 * TicksPerDay <= now - start
    BY <1>0
  <2>. HIDE DEF q
  <2>. QED  BY <2>1, <1>0, QuotientIsGreatest DEF q
<1>3. e = q
  <2>1. e = Max({0, q})
    BY DEF DaysElapsed
  <2>. HIDE DEF e, q
  <2>2. 0 \in Int /\ q \in Int
    BY <1>1
  <2>3. Max({0, q}) >= q /\ Max({0, q}) >= 0
    BY <2>2, MaxOfTwo
  <2>4. Max({0, q}) = 0 \/ Max({0, q}) = q
    BY <2>2, MaxOfTwo
  <2>. QED  BY <2>2, <1>2, <2>1, <2>3, <2>4
<1>4. w \in Int
  <2>1. e \in Int
    BY <1>1, <1>3
  <2>. HIDE DEF e
  <2>. DEFINE d == WindowDays - e
  <2>2. d \in Int /\ 0 \in Int
    BY <2>1, <1>0
  <2>. HIDE DEF d
  <2>3. Max({0, d}) \in Int
    BY <2>2, MaxOfTwo
  <2>. QED  BY <2>3 DEF d
<1>. DEFINE rec == Evaluation(s, now, start, status)
<1>5. rec = [store |-> s, stamp |-> now, elapsed |-> e, remaining |-> w, status |-> status,
             decided |-> FALSE]
  BY DEF Evaluation
<1>. HIDE DEF q, e, w, rec
<1>6. rec \in BoardRecord
  BY <1>1, <1>2, <1>3, <1>4, <1>5 DEF BoardRecord
<1>7. StartOf(rec) = now - q * TicksPerDay
  BY <1>3, <1>5 DEF StartOf
<1>. DEFINE p == q * TicksPerDay
<1>8. p \in Int /\ p <= now - start /\ now - start < p + TicksPerDay
  BY <1>1, <1>0
<1>. HIDE DEF p
<1>9. start <= now - p /\ now - p < start + TicksPerDay
  BY <1>8, <1>0
<1>. QED  BY <1>5, <1>6, <1>7, <1>9 DEF p, rec

LEMMA WithinMore ==
    ASSUME RefreshTyped, NEW rec \in BoardRecord, NEW n \in Nat, NEW m \in Nat, n <= m, Within(rec, n)
    PROVE  Within(rec, m)
<1>1. TicksPerDay * n <= TicksPerDay * m /\ TicksPerDay * n \in Nat /\ TicksPerDay * m \in Nat
  BY TimesGrows, RefreshAssumption
<1>2. StartOf(rec) \in Int /\ CampaignStart \in Nat
  BY StartsAreNumbers
<1>. DEFINE a == TicksPerDay * n
            b == TicksPerDay * m
<1>. HIDE DEF a, b
<1>3. a <= b /\ a \in Nat /\ b \in Nat
  BY <1>1 DEF a, b
<1>4. StartOf(rec) < CampaignStart + a
  BY DEF Within, a
<1>5. StartOf(rec) < CampaignStart + b
  BY <1>2, <1>3, <1>4
<1>. QED  BY <1>5 DEF Within, b

LEMMA LogGrows ==
    ASSUME RefreshTyped, NEW order \in Seq(BoardRecord), recordLog' = recordLog \o order
    PROVE  /\ recordLog' \in Seq(BoardRecord)
           /\ \A i \in DOMAIN recordLog : i \in DOMAIN recordLog' /\ recordLog'[i] = recordLog[i]
           /\ \A i \in DOMAIN recordLog' :
                 i \notin DOMAIN recordLog =>
                    /\ \E j \in DOMAIN order : recordLog'[i] = order[j]
                    /\ \A k \in DOMAIN recordLog : k < i
           /\ \A j \in DOMAIN order :
                 \E i \in DOMAIN recordLog' : i \notin DOMAIN recordLog /\ recordLog'[i] = order[j]
<1>. DEFINE n == Len(recordLog)
<1>1. recordLog \in Seq(BoardRecord) /\ n \in Nat /\ Len(order) \in Nat
  BY DEF RefreshTyped
<1>2. /\ DOMAIN recordLog = 1 .. n /\ DOMAIN order = 1 .. Len(order)
      /\ DOMAIN recordLog' = 1 .. n + Len(order)
      /\ recordLog' \in Seq(BoardRecord)
  BY <1>1
<1>3. \A i \in 1 .. n + Len(order) :
         recordLog'[i] = IF i <= n THEN recordLog[i] ELSE order[i - n]
  BY <1>1
<1>4. \A i \in DOMAIN recordLog : i \in DOMAIN recordLog' /\ recordLog'[i] = recordLog[i]
  BY <1>1, <1>2, <1>3
<1>5. ASSUME NEW i \in DOMAIN recordLog', i \notin DOMAIN recordLog
      PROVE  /\ \E j \in DOMAIN order : recordLog'[i] = order[j]
             /\ \A k \in DOMAIN recordLog : k < i
  <2>1. i \in Nat /\ i > n /\ i - n \in DOMAIN order /\ recordLog'[i] = order[i - n]
    BY <1>1, <1>2, <1>3, <1>5
  <2>. QED  BY <2>1, <1>1, <1>2
<1>6. ASSUME NEW j \in DOMAIN order
      PROVE  \E i \in DOMAIN recordLog' : i \notin DOMAIN recordLog /\ recordLog'[i] = order[j]
  <2>1. /\ n + j \in DOMAIN recordLog' /\ n + j \notin DOMAIN recordLog
        /\ ~(n + j <= n) /\ (n + j) - n = j
    BY <1>1, <1>2
  <2>2. recordLog'[n + j] = order[j]
    BY <1>2, <1>3, <2>1
  <2>. QED  BY <2>1, <2>2
<1>. QED  BY <1>2, <1>4, <1>5, <1>6

\* What a step that leaves the records alone leaves alone.
LEMMA RecordsKept ==
    ASSUME recordLog' = recordLog, latestRows' = latestRows
    PROVE  /\ \A s : InLog(s)' = InLog(s) /\ RecordsOf(s)' = RecordsOf(s)
                     /\ Latest(s)' = Latest(s) /\ RebuiltStart(s)' = RebuiltStart(s)
           /\ Cohort' = Cohort /\ DecidedStores' = DecidedStores
<1>1. \A s : InLog(s)' = InLog(s)
  BY DEF InLog
<1>2. \A s : RecordsOf(s)' = RecordsOf(s)
  BY <1>1 DEF RecordsOf
<1>3. \A s : Latest(s)' = Latest(s)
  BY <1>1 DEF Latest
<1>4. \A s : RebuiltStart(s)' = RebuiltStart(s)
  BY <1>2 DEF RebuiltStart
<1>5. Cohort' = Cohort
  BY <1>2 DEF Cohort
<1>6. DecidedStores' = DecidedStores
  BY <1>2, <1>5 DEF DecidedStores
<1>. QED  BY <1>1, <1>2, <1>3, <1>4, <1>5, <1>6

LEMMA AsleepTyped == Asleep \in Refresher
<1>1. <<>> \in [{} -> Int] /\ {} \in SUBSET CohortStores
  OBVIOUS
<1>. DEFINE Starts == UNION {[S -> Int] : S \in SUBSET CohortStores}
            start == <<>>
<1>2. start \in Starts
  BY <1>1
<1>. HIDE DEF Starts, start
<1>3. [pc |-> "idle", now |-> 0, overtaken |-> FALSE, starts |-> start]
         \in [pc : {"idle", "due", "warming", "evaluating"}, now : Int, overtaken : BOOLEAN,
             starts : Starts]
  BY <1>2
<1>. QED  BY <1>3 DEF Asleep, Refresher, Starts, start

LEMMA RefreshInitInv == RefreshInit => RefreshInv
<1>. SUFFICES ASSUME RefreshInit PROVE RefreshInv
  OBVIOUS
<1>. DEFINE first == [s \in CohortStores |-> Evaluation(s, clock, CampaignStart, "AVAILABLE")]
<1>0. clock \in Nat /\ CampaignStart \in Nat /\ CampaignStart <= clock /\ clock < CampaignStart + TicksPerDay
      /\ TicksPerDay \in Nat \ {0} /\ losses = 0
  BY RefreshAssumption DEF RefreshInit
<1>1. \A s \in CohortStores : /\ first[s] \in BoardRecord /\ first[s].store = s
                              /\ first[s].stamp = clock /\ CampaignStart <= StartOf(first[s])
                              /\ StartOf(first[s]) < CampaignStart + TicksPerDay
  BY <1>0, EvaluationDates
<1>2. latestRows = {first[s] : s \in CohortStores}
  BY DEF RefreshInit
<1>. HIDE DEF first
<1>3. Cardinality(CohortStores) \in Nat
  BY RefreshAssumption, FS_CardinalityType
<1>4. PICK order \in [1 .. Cardinality(CohortStores) -> latestRows] :
         {order[i] : i \in DOMAIN order} = latestRows /\ recordLog = order
  BY DEF RefreshInit
<1>5. latestRows \in SUBSET BoardRecord
  BY <1>1, <1>2
<1>6. recordLog \in Seq(BoardRecord) /\ {recordLog[i] : i \in DOMAIN recordLog} = latestRows
  BY <1>3, <1>4, <1>5
<1>7. RefreshTyped
  <2>1. lastAttempt \in Int
    BY DEF RefreshInit, Never
  <2>2. reader \in [Readers -> Refresher]
    BY AsleepTyped DEF RefreshInit
  <2>. QED  BY <1>0, <1>5, <1>6, <2>1, <2>2 DEF RefreshTyped
<1>8. OneRow
  BY <1>1, <1>2 DEF OneRow
<1>9. HistoryBounded
  <2>1. TicksPerDay * 1 = TicksPerDay /\ 1 + 2 * losses = 1 /\ 2 + 2 * losses = 2
    BY <1>0
  <2>2. \A row \in latestRows : Within(row, 1)
    BY <1>0, <1>1, <1>2, <2>1 DEF Within
  <2>3. \A row \in latestRows : Within(row, 2)
    BY <1>5, <1>7, <2>2, WithinMore
  <2>4. \A i \in DOMAIN recordLog : recordLog[i] \in latestRows
    BY <1>6
  <2>5. ASSUME NEW s \in CohortStores
        PROVE  \E i \in InLog(s) : Within(recordLog[i], 1 + 2 * losses)
    <3>1. first[s] \in latestRows /\ first[s].store = s
      BY <1>1, <1>2
    <3>2. PICK i \in DOMAIN recordLog : recordLog[i] = first[s]
      BY <1>6, <3>1
    <3>3. i \in InLog(s)
      BY <3>1, <3>2 DEF InLog
    <3>. QED  BY <2>1, <2>2, <3>1, <3>2, <3>3
  <2>6. \A s \in CohortStores : InLog(s) # {}
    BY <2>5
  <2>. QED  BY <2>1, <2>3, <2>4, <2>5, <2>6 DEF HistoryBounded
<1>10. \A r \in Readers : reader[r].pc = "idle"
  BY DEF RefreshInit, Asleep
<1>11. OneRefresher
  BY <1>10, RefreshAssumption DEF RefreshInit, OneRefresher
<1>12. RebuiltHolds /\ CooldownLooked
  BY <1>10 DEF RebuiltHolds, CooldownLooked
<1>. QED  BY <1>7, <1>8, <1>9, <1>11, <1>12 DEF RefreshInv

\* What a refresh that is persisted does to the records.
Refreshed(D, F, order, replaced) ==
    /\ D \in SUBSET CohortStores /\ F \in [D -> BoardRecord]
    /\ \A s \in D :
          /\ \E status \in {"AVAILABLE", "NO_DATA", "ERROR"} :
                F[s] = Evaluation(s, clock, RebuiltStart(s), status) /\ F[s].status = status
          /\ F[s].store = s /\ F[s].stamp = clock /\ ~F[s].decided
          /\ RebuiltStart(s) <= StartOf(F[s]) /\ StartOf(F[s]) < RebuiltStart(s) + TicksPerDay
    /\ order \in Seq(BoardRecord) /\ recordLog' = recordLog \o order
    /\ {order[i] : i \in DOMAIN order}
          = {F[s] : s \in {t \in D : \A i \in DOMAIN recordLog : Said(recordLog[i]) # Said(F[t])}}
    /\ replaced \in SUBSET D
    /\ latestRows' = {rec \in latestRows : rec.store \notin replaced} \cup {F[s] : s \in replaced}

LEMMA PersistRefreshes ==
    ASSUME RefreshInv, NEW r \in Readers, Persist(r)
    PROVE  /\ DOMAIN reader[r].starts \in SUBSET CohortStores
           /\ \/ recordLog' = recordLog /\ latestRows' = latestRows
              \/ \E F, order, replaced : Refreshed(DOMAIN reader[r].starts, F, order, replaced)
<1>. DEFINE D == DOMAIN reader[r].starts
            starts == reader[r].starts
<1>1. RefreshTyped /\ OneRow /\ HistoryBounded /\ reader[r].pc = "evaluating"
  BY DEF RefreshInv, Persist
<1>2. D \in SUBSET CohortStores
  <2>1. reader[r] \in Refresher
    BY <1>1 DEF RefreshTyped
  <2>. QED  BY <2>1 DEF Refresher
<1>3. \A s \in D : starts[s] = RebuiltStart(s)
  BY <1>1 DEF RefreshInv, RebuiltHolds
<1>4. PICK status \in [D -> {"AVAILABLE", "NO_DATA", "ERROR"}] :
          LET fresh == {Evaluation(s, clock, starts[s], status[s]) : s \in D}
              outage == /\ \E rec \in fresh : rec.status = "ERROR"
                        /\ \A rec \in fresh : rec.status # "AVAILABLE"
              unknown == {rec \in fresh : \A i \in DOMAIN recordLog : Said(recordLog[i]) # Said(rec)}
              decided == {rec.store : rec \in {x \in latestRows : x.decided}}
                           \cup {recordLog[i].store : i \in {j \in DOMAIN recordLog : recordLog[j].decided}}
              replaced == {rec.store : rec \in fresh} \ decided
          IN IF outage THEN UNCHANGED <<recordLog, latestRows>>
             ELSE /\ Len(recordLog) + Cardinality(unknown) <= MaxLog
                  /\ \E order \in [1 .. Cardinality(unknown) -> unknown] :
                        /\ {order[i] : i \in DOMAIN order} = unknown
                        /\ recordLog' = recordLog \o order
                  /\ latestRows' = {rec \in latestRows : rec.store \notin replaced}
                               \cup {rec \in fresh : rec.store \in replaced}
  BY DEF Persist
<1>. DEFINE F == [s \in D |-> Evaluation(s, clock, starts[s], status[s])]
            fresh == {Evaluation(s, clock, starts[s], status[s]) : s \in D}
            outage == /\ \E rec \in fresh : rec.status = "ERROR"
                      /\ \A rec \in fresh : rec.status # "AVAILABLE"
            unknown == {rec \in fresh : \A i \in DOMAIN recordLog : Said(recordLog[i]) # Said(rec)}
            decided == {rec.store : rec \in {x \in latestRows : x.decided}}
                         \cup {recordLog[i].store : i \in {j \in DOMAIN recordLog : recordLog[j].decided}}
            replaced == {rec.store : rec \in fresh} \ decided
<1>5. fresh = {F[s] : s \in D}
  OBVIOUS
<1>6. ASSUME NEW s \in D
      PROVE  /\ F[s] \in BoardRecord
             /\ F[s] = Evaluation(s, clock, RebuiltStart(s), status[s]) /\ F[s].status = status[s]
             /\ F[s].store = s /\ F[s].stamp = clock /\ ~F[s].decided
             /\ RebuiltStart(s) <= StartOf(F[s]) /\ StartOf(F[s]) < RebuiltStart(s) + TicksPerDay
  <2>1. s \in CohortStores /\ status[s] \in {"AVAILABLE", "NO_DATA", "ERROR"}
    BY <1>2, <1>4
  <2>2. RebuiltStart(s) \in Nat /\ RebuiltStart(s) <= clock /\ clock \in Nat
    BY <1>1, <2>1, RebuiltIsLeast DEF RefreshTyped
  <2>3. F[s] = Evaluation(s, clock, RebuiltStart(s), status[s])
    BY <1>3
  <2>. HIDE DEF F
  <2>. QED  BY <2>1, <2>2, <2>3, EvaluationDates
<1>7. CASE outage
  <2>1. recordLog' = recordLog /\ latestRows' = latestRows
    BY <1>4, <1>7
  <2>. QED  BY <1>2, <2>1
<1>8. CASE ~outage
  <2>1. PICK order \in [1 .. Cardinality(unknown) -> unknown] :
           {order[i] : i \in DOMAIN order} = unknown /\ recordLog' = recordLog \o order
    BY <1>4, <1>8
  <2>2. latestRows' = {rec \in latestRows : rec.store \notin replaced}
                        \cup {rec \in fresh : rec.store \in replaced}
    BY <1>4, <1>8
  <2>. HIDE DEF F, decided, fresh, outage
  <2>3. unknown = {F[s] : s \in {t \in D : \A i \in DOMAIN recordLog : Said(recordLog[i]) # Said(F[t])}}
    BY <1>5
  <2>4. replaced \in SUBSET D
    BY <1>5, <1>6
  <2>. HIDE DEF replaced
  <2>5. {rec \in fresh : rec.store \in replaced} = {F[s] : s \in replaced}
    BY <1>5, <1>6, <2>4
  <2>6. order \in Seq(BoardRecord)
    <3>1. IsFiniteSet(D)
      BY <1>2, RefreshAssumption, FS_Subset
    <3>2. IsFiniteSet({F[s] : s \in D})
      BY <3>1, FiniteImage
    <3>3. IsFiniteSet(unknown)
      BY <3>2, <1>5, FS_Subset
    <3>. HIDE DEF unknown
    <3>4. Cardinality(unknown) \in Nat
      BY <3>3, FS_CardinalityType
    <3>5. unknown \subseteq BoardRecord
      BY <2>3, <1>6
    <3>. QED  BY <2>1, <3>4, <3>5
  <2>7. F \in [D -> BoardRecord]
    <3>1. F = [s \in D |-> F[s]]
      BY DEF F
    <3>. QED  BY <3>1, <1>6
  <2>8. \A s \in D : \E st \in {"AVAILABLE", "NO_DATA", "ERROR"} :
           F[s] = Evaluation(s, clock, RebuiltStart(s), st) /\ F[s].status = st
    BY <1>4, <1>6
  <2>9. {order[i] : i \in DOMAIN order}
           = {F[s] : s \in {t \in D : \A i \in DOMAIN recordLog : Said(recordLog[i]) # Said(F[t])}}
    BY <2>1, <2>3
  <2>10. latestRows' = {rec \in latestRows : rec.store \notin replaced} \cup {F[s] : s \in replaced}
    BY <2>2, <2>5
  <2>. HIDE DEF unknown
  <2>11. Refreshed(D, F, order, replaced)
    BY <1>2, <1>6, <2>1, <2>4, <2>6, <2>7, <2>8, <2>9, <2>10 DEF Refreshed
  <2>. QED  BY <1>2, <2>11
<1>. QED  BY <1>7, <1>8

\* The bounds of a history are a day apart.
LEMMA BoundsApart ==
    RefreshTyped =>
       /\ 2 * losses \in Nat /\ 1 + 2 * losses \in Nat /\ 2 + 2 * losses \in Nat
       /\ TicksPerDay * (2 * losses) \in Nat /\ TicksPerDay * (1 + 2 * losses) \in Nat
       /\ TicksPerDay * (2 + 2 * losses) \in Nat
       /\ TicksPerDay * (1 + 2 * losses) = TicksPerDay * (2 * losses) + TicksPerDay
       /\ TicksPerDay * (2 + 2 * losses) = TicksPerDay * (1 + 2 * losses) + TicksPerDay
<1>. SUFFICES ASSUME RefreshTyped
     PROVE
       /\ 2 * losses \in Nat /\ 1 + 2 * losses \in Nat /\ 2 + 2 * losses \in Nat
       /\ TicksPerDay * (2 * losses) \in Nat /\ TicksPerDay * (1 + 2 * losses) \in Nat
       /\ TicksPerDay * (2 + 2 * losses) \in Nat
       /\ TicksPerDay * (1 + 2 * losses) = TicksPerDay * (2 * losses) + TicksPerDay
       /\ TicksPerDay * (2 + 2 * losses) = TicksPerDay * (1 + 2 * losses) + TicksPerDay
  OBVIOUS
<1>1. losses \in Nat
  BY DEF RefreshTyped
<1>2. /\ 2 * losses \in Nat /\ 1 + 2 * losses \in Nat /\ 2 + 2 * losses \in Nat
      /\ 1 + 2 * losses = 2 * losses + 1 /\ 2 + 2 * losses = (1 + 2 * losses) + 1
  BY <1>1
<1>. QED  BY <1>2, StartsAreNumbers

\* A step that leaves the records alone keeps what is known of them.
LEMMA HistoryKept ==
    ASSUME RefreshTyped, OneRow, HistoryBounded,
           recordLog' = recordLog, latestRows' = latestRows, losses' = losses,
           clock' \in Nat, clock' >= clock
    PROVE  OneRow' /\ HistoryBounded'
<1>1. \A s : InLog(s)' = InLog(s)
  BY RecordsKept
<1>2. \A n : \A rec \in BoardRecord : Within(rec, n) => Within(rec, n)'
  <2>1. \A rec \in BoardRecord : rec.stamp \in Nat
    BY DEF BoardRecord
  <2>2. \A rec : StartOf(rec)' = StartOf(rec)
    BY DEF StartOf
  <2>3. clock \in Nat
    BY DEF RefreshTyped
  <2>. QED  BY <2>1, <2>2, <2>3 DEF Within
<1>3. \A i \in DOMAIN recordLog : recordLog[i] \in BoardRecord
  BY DEF RefreshTyped
<1>4. \A row \in latestRows : row \in BoardRecord
  BY DEF RefreshTyped
<1>5. OneRow'
  BY DEF OneRow
<1>6. \A s : InLog(s) \subseteq DOMAIN recordLog
  BY DEF InLog
<1>. QED  BY <1>1, <1>2, <1>3, <1>4, <1>5, <1>6 DEF HistoryBounded

LEMMA RefreshedKeeps ==
    ASSUME RefreshTyped, OneRow, HistoryBounded, losses' = losses, clock' = clock,
           NEW D, NEW F, NEW order, NEW replaced, Refreshed(D, F, order, replaced)
    PROVE  /\ recordLog' \in Seq(BoardRecord) /\ latestRows' \in SUBSET BoardRecord
           /\ OneRow' /\ HistoryBounded'
           /\ \A s \in CohortStores \ D : s \in DecidedStores => s \in DecidedStores'
           /\ \A i \in DOMAIN recordLog' :
                 i \notin DOMAIN recordLog => \E s \in D : recordLog'[i] = F[s]
<1>0. /\ D \in SUBSET CohortStores /\ F \in [D -> BoardRecord]
      /\ order \in Seq(BoardRecord) /\ recordLog' = recordLog \o order
      /\ replaced \in SUBSET D
      /\ latestRows' = {rec \in latestRows : rec.store \notin replaced} \cup {F[s] : s \in replaced}
      /\ \A s \in D : /\ F[s].store = s /\ F[s].stamp = clock /\ ~F[s].decided
                      /\ RebuiltStart(s) <= StartOf(F[s])
                      /\ StartOf(F[s]) < RebuiltStart(s) + TicksPerDay
  BY DEF Refreshed
<1>1. {order[i] : i \in DOMAIN order}
         = {F[s] : s \in {t \in D : \A i \in DOMAIN recordLog : Said(recordLog[i]) # Said(F[t])}}
  BY DEF Refreshed
<1>2. /\ recordLog' \in Seq(BoardRecord)
      /\ \A i \in DOMAIN recordLog : i \in DOMAIN recordLog' /\ recordLog'[i] = recordLog[i]
      /\ \A i \in DOMAIN recordLog' : i \notin DOMAIN recordLog => \E j \in DOMAIN order : recordLog'[i] = order[j]
      /\ \A j \in DOMAIN order :
            \E i \in DOMAIN recordLog' : i \notin DOMAIN recordLog /\ recordLog'[i] = order[j]
  BY <1>0, LogGrows
<1>3. \A i \in DOMAIN recordLog' : i \notin DOMAIN recordLog => \E s \in D : recordLog'[i] = F[s]
  <2>1. ASSUME NEW i \in DOMAIN recordLog', i \notin DOMAIN recordLog
        PROVE  \E s \in D : recordLog'[i] = F[s]
    <3>1. PICK j \in DOMAIN order : recordLog'[i] = order[j]
      BY <1>2, <2>1
    <3>2. order[j] \in {order[k] : k \in DOMAIN order}
      OBVIOUS
    <3>. QED  BY <1>1, <3>1, <3>2
  <2>. QED  BY <2>1
<1>4. \A s \in D : (\A i \in DOMAIN recordLog : Said(recordLog[i]) # Said(F[s]))
                      => \E i \in DOMAIN recordLog' : recordLog'[i] = F[s]
  <2>1. ASSUME NEW s \in D, \A i \in DOMAIN recordLog : Said(recordLog[i]) # Said(F[s])
        PROVE  \E i \in DOMAIN recordLog' : recordLog'[i] = F[s]
    <3>1. PICK j \in DOMAIN order : order[j] = F[s]
      BY <1>1, <2>1
    <3>. QED  BY <1>2, <3>1
  <2>. QED  BY <2>1
<1>5. latestRows' \in SUBSET BoardRecord
  BY <1>0 DEF RefreshTyped
<1>6. OneRow'
  <2>1. SUFFICES ASSUME NEW s \in CohortStores
        PROVE  \E rec \in latestRows' :
                  rec.store = s /\ \A row \in latestRows' : row.store = s => row = rec
    BY DEF OneRow
  <2>2. CASE s \in replaced
    BY <1>0, <2>2
  <2>3. CASE s \notin replaced
    <3>1. PICK rec \in latestRows : rec.store = s /\ \A row \in latestRows : row.store = s => row = rec
      BY DEF OneRow
    <3>. QED  BY <1>0, <2>3, <3>1
  <2>. QED  BY <2>2, <2>3
<1>7. \A s : InLog(s) \subseteq InLog(s)'
  BY <1>2 DEF InLog
<1>8. \A s \in CohortStores : InLog(s)' = {} => s \notin D /\ InLog(s) = {}
  <2>1. SUFFICES ASSUME NEW s \in CohortStores, InLog(s)' = {}, s \in D PROVE FALSE
    BY <1>7
  <2>2. \A i \in DOMAIN recordLog : recordLog[i].store # s
    BY <1>7, <2>1 DEF InLog
  <2>3. \A i \in DOMAIN recordLog : Said(recordLog[i]) # Said(F[s])
    BY <1>0, <2>1, <2>2 DEF Said
  <2>4. PICK i \in DOMAIN recordLog' : recordLog'[i] = F[s]
    BY <1>4, <2>1, <2>3
  <2>. QED  BY <1>0, <2>1, <2>4 DEF InLog
<1>9. \A rec, n : Within(rec, n)' = Within(rec, n)
  BY DEF Within, StartOf
<1>10. ASSUME NEW s \in D
       PROVE  /\ Within(F[s], 2 + 2 * losses)
              /\ InLog(s) = {} => Within(F[s], 1 + 2 * losses)
  <2>1. s \in CohortStores /\ F[s] \in BoardRecord
    BY <1>0
  <2>2. /\ RebuiltStart(s) \in Nat /\ RebuiltStart(s) >= CampaignStart
        /\ RebuiltStart(s) < CampaignStart + TicksPerDay * (1 + 2 * losses)
        /\ InLog(s) = {} => RebuiltStart(s) < CampaignStart + TicksPerDay * (2 * losses)
    BY <2>1, RebuiltIsLeast
  <2>3. /\ StartOf(F[s]) \in Int /\ F[s].stamp <= clock
        /\ RebuiltStart(s) <= StartOf(F[s]) /\ StartOf(F[s]) < RebuiltStart(s) + TicksPerDay
    <3>1. clock \in Nat /\ F[s].stamp = clock
      BY <1>0 DEF RefreshTyped
    <3>. QED  BY <1>0, <2>1, <3>1, StartsAreNumbers
  <2>. DEFINE a == TicksPerDay * (2 * losses)
              b == TicksPerDay * (1 + 2 * losses)
              c == TicksPerDay * (2 + 2 * losses)
              x == StartOf(F[s])
              m == RebuiltStart(s)
  <2>4. /\ a \in Nat /\ b \in Nat /\ c \in Nat /\ b = a + TicksPerDay /\ c = b + TicksPerDay
        /\ CampaignStart \in Nat /\ TicksPerDay \in Nat
    BY BoundsApart, RefreshAssumption
  <2>5. m \in Nat /\ x \in Int /\ m >= CampaignStart /\ m <= x /\ x < m + TicksPerDay
        /\ m < CampaignStart + b /\ (InLog(s) = {} => m < CampaignStart + a)
    BY <2>2, <2>3
  <2>. HIDE DEF a, b, c, x, m
  <2>6. CampaignStart <= x /\ x < CampaignStart + c /\ (InLog(s) = {} => x < CampaignStart + b)
    BY <2>4, <2>5
  <2>. USE DEF x, a, b, c
  <2>. QED  BY <2>6, <2>3 DEF Within
<1>11. HistoryBounded'
  <2>1. \A i \in DOMAIN recordLog' : Within(recordLog'[i], 2 + 2 * losses)
    BY <1>2, <1>3, <1>10 DEF HistoryBounded
  <2>2. \A row \in latestRows' : Within(row, 2 + 2 * losses)
    BY <1>0, <1>10 DEF HistoryBounded
  <2>3. ASSUME NEW s \in CohortStores, InLog(s)' # {}
        PROVE  \E i \in InLog(s)' : Within(recordLog'[i], 1 + 2 * losses)
    <3>1. CASE InLog(s) # {}
      <4>1. PICK i \in InLog(s) : Within(recordLog[i], 1 + 2 * losses)
        BY <3>1 DEF HistoryBounded
      <4>2. i \in InLog(s)' /\ recordLog'[i] = recordLog[i]
        BY <1>2, <1>7 DEF InLog
      <4>. QED  BY <4>1, <4>2
    <3>2. CASE InLog(s) = {}
      <4>1. PICK i \in DOMAIN recordLog' : recordLog'[i].store = s
        BY <2>3 DEF InLog
      <4>2. i \notin DOMAIN recordLog
        BY <1>2, <3>2, <4>1 DEF InLog
      <4>3. PICK t \in D : recordLog'[i] = F[t]
        BY <1>3, <4>2
      <4>4. t = s /\ i \in InLog(s)'
        BY <1>0, <4>1, <4>3 DEF InLog
      <4>. QED  BY <1>10, <3>2, <4>3, <4>4
    <3>. QED  BY <3>1, <3>2
  <2>4. ASSUME NEW s \in CohortStores, InLog(s)' = {}
        PROVE  \A row \in latestRows' : row.store = s => Within(row, 2 * losses)
    <3>1. s \notin D /\ InLog(s) = {}
      BY <1>8, <2>4
    <3>2. \A row \in latestRows' : row.store = s => row \in latestRows
      BY <1>0, <3>1
    <3>. QED  BY <3>1, <3>2 DEF HistoryBounded
  <2>. QED  BY <2>1, <2>2, <2>3, <2>4, <1>9 DEF HistoryBounded
<1>12. ASSUME NEW s \in CohortStores \ D, s \in DecidedStores
       PROVE  s \in DecidedStores'
  <2>1. PICK rec \in RecordsOf(s) : rec.decided
    BY <1>12 DEF DecidedStores
  <2>2. rec \in RecordsOf(s)'
    <3>1. CASE InLog(s) # {}
      <4>1. PICK i \in InLog(s) : rec = recordLog[i]
        BY <2>1, <3>1 DEF RecordsOf
      <4>2. i \in InLog(s)' /\ recordLog'[i] = recordLog[i]
        BY <1>2, <1>7 DEF InLog
      <4>3. RecordsOf(s)' = {recordLog'[k] : k \in InLog(s)'}
        BY <4>2 DEF RecordsOf
      <4>. QED  BY <4>1, <4>2, <4>3
    <3>2. CASE InLog(s) = {}
      <4>1. InLog(s)' = {}
        <5>1. SUFFICES ASSUME NEW i \in InLog(s)' PROVE FALSE
          OBVIOUS
        <5>2. i \in DOMAIN recordLog' /\ recordLog'[i].store = s
          BY DEF InLog
        <5>3. i \notin DOMAIN recordLog
          BY <1>2, <3>2, <5>2 DEF InLog
        <5>4. PICK t \in D : recordLog'[i] = F[t]
          BY <1>3, <5>2, <5>3
        <5>. QED  BY <1>0, <1>12, <5>2, <5>4
      <4>2. rec \in latestRows /\ rec.store = s
        BY <2>1, <3>2 DEF RecordsOf
      <4>3. rec \in latestRows'
        BY <1>0, <1>12, <4>2
      <4>. QED  BY <4>1, <4>2, <4>3 DEF RecordsOf
    <3>. QED  BY <3>1, <3>2
  <2>3. s \in Cohort'
    BY <2>2 DEF Cohort
  <2>. QED  BY <2>1, <2>2, <2>3 DEF DecidedStores
<1>. QED  BY <1>2, <1>3, <1>5, <1>6, <1>11, <1>12

\* A decision repeats the latest record, so that the start the records imply stays.
LEMMA DecideKeeps ==
    ASSUME RefreshTyped, OneRow, HistoryBounded, NEW s \in CohortStores, Decide(s)
    PROVE  /\ recordLog' \in Seq(BoardRecord) /\ latestRows' \in SUBSET BoardRecord
           /\ OneRow' /\ HistoryBounded'
           /\ \A t \in CohortStores : RebuiltStart(t)' = RebuiltStart(t)
           /\ \A t \in CohortStores : t \in DecidedStores => t \in DecidedStores'
           /\ \A t \in CohortStores : InLog(t) # {} => RecordsOf(t) \subseteq RecordsOf(t)'
<1>. DEFINE rec == [Latest(s) EXCEPT !.decided = TRUE]
            n == Len(recordLog)
<1>0. /\ s \notin DecidedStores /\ losses' = losses /\ clock' = clock
      /\ recordLog' = Append(recordLog, rec)
      /\ latestRows' = {row \in latestRows : row.store # s} \cup {rec}
  BY DEF Decide
<1>1. Latest(s) \in RecordsOf(s) /\ Latest(s) \in BoardRecord /\ Latest(s).store = s
  BY RecordsKnown
<1>2. rec \in BoardRecord /\ rec.store = s /\ StartOf(rec) = StartOf(Latest(s)) /\ rec.stamp = Latest(s).stamp
  BY <1>1 DEF BoardRecord, StartOf
<1>. HIDE DEF rec
<1>3. /\ recordLog \in Seq(BoardRecord) /\ n \in Nat /\ DOMAIN recordLog = 1 .. n
      /\ DOMAIN recordLog' = 1 .. n + 1
      /\ recordLog' \in Seq(BoardRecord) /\ recordLog'[n + 1] = rec
      /\ \A i \in 1 .. n : recordLog'[i] = recordLog[i]
  BY <1>0, <1>2 DEF RefreshTyped
<1>. HIDE DEF n
<1>4. InLog(s)' = InLog(s) \cup {n + 1}
  BY <1>2, <1>3 DEF InLog
<1>5. \A t \in CohortStores \ {s} : InLog(t)' = InLog(t)
  BY <1>2, <1>3 DEF InLog
<1>6. \A t : \A i \in InLog(t) : i \in 1 .. n /\ recordLog'[i] = recordLog[i]
  BY <1>3 DEF InLog
<1>7. ASSUME NEW t \in CohortStores \ {s}
      PROVE  RecordsOf(t)' = RecordsOf(t)
  <2>1. CASE InLog(t) = {}
    <3>1. {row \in latestRows' : row.store = t} = {row \in latestRows : row.store = t}
      BY <1>0, <1>2, <1>7
    <3>. QED  BY <1>5, <2>1, <3>1 DEF RecordsOf
  <2>2. CASE InLog(t) # {}
    <3>1. {recordLog'[i] : i \in InLog(t)} = {recordLog[i] : i \in InLog(t)}
      BY <1>6
    <3>. QED  BY <1>5, <2>2, <3>1 DEF RecordsOf
  <2>. QED  BY <2>1, <2>2
<1>8. RecordsOf(s)' = (IF InLog(s) = {} THEN {} ELSE RecordsOf(s)) \cup {rec}
  <2>1. RecordsOf(s)' = {recordLog'[i] : i \in InLog(s) \cup {n + 1}}
    BY <1>4 DEF RecordsOf
  <2>2. {recordLog'[i] : i \in InLog(s) \cup {n + 1}} = {recordLog[i] : i \in InLog(s)} \cup {rec}
    BY <1>3, <1>6
  <2>3. InLog(s) # {} => RecordsOf(s) = {recordLog[i] : i \in InLog(s)}
    BY RecordsKnown
  <2>. QED  BY <2>1, <2>2, <2>3
<1>9. {StartOf(x) : x \in RecordsOf(s)'} = {StartOf(x) : x \in RecordsOf(s)}
  <2>1. CASE InLog(s) = {}
    <3>1. RecordsOf(s) = {Latest(s)}
      BY <2>1, RecordsKnown
    <3>. QED  BY <2>1, <3>1, <1>8, <1>2
  <2>2. CASE InLog(s) # {}
    BY <2>2, <1>8, <1>1, <1>2
  <2>. QED  BY <2>1, <2>2
<1>10. \A t \in CohortStores : RebuiltStart(t)' = RebuiltStart(t)
  <2>1. \A t \in CohortStores \ {s} : RebuiltStart(t)' = RebuiltStart(t)
    BY <1>7 DEF RebuiltStart
  <2>2. RebuiltStart(s) = Min({StartOf(x) : x \in RecordsOf(s)})
    BY DEF RebuiltStart, StartOf
  <2>3. RebuiltStart(s)' = Min({StartOf(x) : x \in RecordsOf(s)'})
    BY DEF RebuiltStart, StartOf
  <2>. QED  BY <2>1, <2>2, <2>3, <1>9
<1>11. latestRows' \in SUBSET BoardRecord
  BY <1>0, <1>2 DEF RefreshTyped
<1>12. OneRow'
  <2>1. SUFFICES ASSUME NEW t \in CohortStores
        PROVE  \E row \in latestRows' :
                  row.store = t /\ \A other \in latestRows' : other.store = t => other = row
    BY DEF OneRow
  <2>2. CASE t = s
    BY <1>0, <1>2, <2>2
  <2>3. CASE t # s
    <3>1. PICK row \in latestRows : row.store = t /\ \A other \in latestRows : other.store = t => other = row
      BY DEF OneRow
    <3>. QED  BY <1>0, <1>2, <2>3, <3>1
  <2>. QED  BY <2>2, <2>3
<1>13. \A x, k : Within(x, k)' = Within(x, k)
  BY <1>0 DEF Within, StartOf
<1>14. \A k : Within(Latest(s), k) => Within(rec, k)
  BY <1>2 DEF Within
<1>15. Within(Latest(s), 2 + 2 * losses)
  <2>1. CASE InLog(s) = {}
    BY <2>1, RecordsKnown DEF HistoryBounded
  <2>2. CASE InLog(s) # {}
    <3>1. PICK i \in InLog(s) : Latest(s) = recordLog[i]
      BY <1>1, <2>2, RecordsKnown
    <3>. QED  BY <3>1 DEF HistoryBounded, InLog
  <2>. QED  BY <2>1, <2>2
<1>16. HistoryBounded'
  <2>1. \A i \in DOMAIN recordLog' : Within(recordLog'[i], 2 + 2 * losses)
    <3>1. \A i \in DOMAIN recordLog' : i \in DOMAIN recordLog \/ i = n + 1
      BY <1>3
    <3>. QED  BY <3>1, <1>3, <1>14, <1>15 DEF HistoryBounded
  <2>2. \A row \in latestRows' : Within(row, 2 + 2 * losses)
    BY <1>0, <1>14, <1>15 DEF HistoryBounded
  <2>3. \E i \in InLog(s)' : Within(recordLog'[i], 1 + 2 * losses)
    <3>1. CASE InLog(s) = {}
      <4>1. Latest(s) \in latestRows /\ Latest(s).store = s
        BY <3>1, <1>1, RecordsKnown
      <4>2. Within(rec, 2 * losses)
        BY <3>1, <4>1, <1>14 DEF HistoryBounded
      <4>3. 2 * losses \in Nat /\ 1 + 2 * losses \in Nat /\ 2 * losses <= 1 + 2 * losses
        BY DEF RefreshTyped
      <4>4. Within(rec, 1 + 2 * losses)
        BY <4>2, <4>3, <1>2, WithinMore
      <4>. QED  BY <4>4, <1>3, <1>4
    <3>2. CASE InLog(s) # {}
      <4>1. PICK i \in InLog(s) : Within(recordLog[i], 1 + 2 * losses)
        BY <3>2 DEF HistoryBounded
      <4>. QED  BY <4>1, <1>4, <1>6
    <3>. QED  BY <3>1, <3>2
  <2>4. ASSUME NEW t \in CohortStores \ {s}, InLog(t)' # {}
        PROVE  \E i \in InLog(t)' : Within(recordLog'[i], 1 + 2 * losses)
    <3>1. PICK i \in InLog(t) : Within(recordLog[i], 1 + 2 * losses)
      BY <1>5, <2>4 DEF HistoryBounded
    <3>. QED  BY <3>1, <1>5, <1>6
  <2>5. ASSUME NEW t \in CohortStores, InLog(t)' = {}
        PROVE  \A row \in latestRows' : row.store = t => Within(row, 2 * losses)
    <3>1. t # s /\ InLog(t) = {}
      BY <1>4, <1>5, <2>5
    <3>2. \A row \in latestRows' : row.store = t => row \in latestRows
      BY <1>0, <1>2, <3>1
    <3>. QED  BY <3>1, <3>2 DEF HistoryBounded
  <2>. QED  BY <1>0, <1>13, <2>1, <2>2, <2>3, <2>4, <2>5 DEF HistoryBounded
<1>17. ASSUME NEW t \in CohortStores, t \in DecidedStores
       PROVE  t \in DecidedStores'
  <2>1. RecordsOf(t)' = RecordsOf(t)
    BY <1>0, <1>7, <1>17
  <2>. QED  BY <1>17, <2>1 DEF DecidedStores, Cohort
<1>18. \A t \in CohortStores : InLog(t) # {} => RecordsOf(t) \subseteq RecordsOf(t)'
  BY <1>7, <1>8
<1>. QED  BY <1>3, <1>10, <1>11, <1>12, <1>16, <1>17, <1>18

LEMMA LoseLogKeeps ==
    ASSUME RefreshTyped, OneRow, HistoryBounded, LoseLog
    PROVE  recordLog' \in Seq(BoardRecord) /\ OneRow' /\ HistoryBounded'
<1>1. recordLog' = <<>> /\ losses' = losses + 1 /\ latestRows' = latestRows /\ clock' = clock
  BY DEF LoseLog
<1>2. \A s : InLog(s)' = {}
  BY <1>1 DEF InLog
<1>3. 2 * (losses + 1) = 2 + 2 * losses /\ 2 + 2 * losses \in Nat /\ 2 + 2 * (losses + 1) \in Nat
      /\ 2 + 2 * losses <= 2 + 2 * (losses + 1)
  BY DEF RefreshTyped
<1>4. \A rec, n : Within(rec, n)' = Within(rec, n)
  BY <1>1 DEF Within, StartOf
<1>5. \A row \in latestRows : Within(row, 2 + 2 * losses) /\ row \in BoardRecord
  BY DEF HistoryBounded, RefreshTyped
<1>6. \A row \in latestRows : Within(row, 2 + 2 * (losses + 1))
  BY <1>3, <1>5, WithinMore
<1>7. OneRow'
  BY <1>1 DEF OneRow
<1>8. HistoryBounded'
  BY <1>1, <1>2, <1>3, <1>4, <1>5, <1>6 DEF HistoryBounded
<1>. QED  BY <1>1, <1>7, <1>8

\* A step that leaves alone the records and every reader that evaluates.
LEMMA RebuiltKept ==
    ASSUME RebuiltHolds, recordLog' = recordLog, latestRows' = latestRows,
           \A r \in Readers : reader'[r].pc = "evaluating" => reader'[r] = reader[r]
    PROVE  RebuiltHolds'
<1>1. (\A s : RebuiltStart(s)' = RebuiltStart(s)) /\ DecidedStores' = DecidedStores
  BY RecordsKept
<1>2. ASSUME NEW r \in Readers, reader'[r].pc = "evaluating"
      PROVE  /\ \A s \in DOMAIN reader'[r].starts : reader'[r].starts[s] = RebuiltStart(s)'
             /\ \A s \in CohortStores \ DOMAIN reader'[r].starts : s \in DecidedStores'
  BY <1>1, <1>2 DEF RebuiltHolds
<1>. QED  BY <1>2 DEF RebuiltHolds

\* What becomes of a reader that looked at the clock, and of one that rebuilt the runs.
FoundDue(x, t) == [x EXCEPT !.pc = "due", !.now = t]
BusyWith(x, f) == [x EXCEPT !.pc = "evaluating", !.now = 0, !.starts = f]

LEMMA RefresherMoves ==
    ASSUME NEW x \in Refresher
    PROVE  /\ \A t \in Int : FoundDue(x, t) \in Refresher /\ FoundDue(x, t).pc = "due" /\ FoundDue(x, t).now = t
           /\ \A f \in UNION {[S -> Int] : S \in SUBSET CohortStores} :
                 /\ BusyWith(x, f) \in Refresher
                 /\ BusyWith(x, f).pc = "evaluating" /\ BusyWith(x, f).starts = f
<1>. DEFINE Starts == UNION {[S -> Int] : S \in SUBSET CohortStores}
<1>1. Refresher = [pc : {"idle", "due", "warming", "evaluating"}, now : Int,
                   overtaken : BOOLEAN, starts : Starts]
  BY DEF Refresher
<1>. HIDE DEF Starts
<1>2. \A t \in Int : FoundDue(x, t) \in Refresher /\ FoundDue(x, t).pc = "due" /\ FoundDue(x, t).now = t
  BY <1>1 DEF FoundDue
<1>3. ASSUME NEW f \in Starts
      PROVE  /\ BusyWith(x, f) \in Refresher
             /\ BusyWith(x, f).pc = "evaluating" /\ BusyWith(x, f).starts = f
  <2>0. x = [pc |-> x.pc, now |-> x.now, overtaken |-> x.overtaken, starts |-> x.starts]
    BY <1>1
  <2>. DEFINE c == x.pc
              n == x.now
              o == x.overtaken
              g == x.starts
  <2>. HIDE DEF c, n, o, g
  <2>00. x = [pc |-> c, now |-> n, overtaken |-> o, starts |-> g]
    BY <2>0 DEF c, n, o, g
  <2>1. BusyWith(x, f) = [pc |-> "evaluating", now |-> 0, overtaken |-> o, starts |-> f]
    <3>1. BusyWith(x, f) = [[pc |-> c, now |-> n, overtaken |-> o, starts |-> g]
                               EXCEPT !.pc = "evaluating", !.now = 0, !.starts = f]
      BY <2>00 DEF BusyWith
    <3>. QED  BY <3>1
  <2>2. o \in BOOLEAN
    BY <1>1 DEF o
  <2>. QED  BY <1>1, <2>1, <2>2
<1>. QED  BY <1>2, <1>3 DEF Starts

LEMMA ClockTickKeeps == (RefreshInv /\ ClockTick) => RefreshInv'
<1>. SUFFICES ASSUME RefreshInv, ClockTick PROVE RefreshInv'
  OBVIOUS
<1>1. /\ recordLog' = recordLog /\ latestRows' = latestRows /\ losses' = losses
      /\ lastAttempt' = lastAttempt /\ holder' = holder /\ reader' = reader
      /\ clock \in Nat /\ clock' = clock + 1
  BY DEF RefreshInv, RefreshTyped, ClockTick
<1>2. RefreshTyped'
  BY <1>1 DEF RefreshInv, RefreshTyped
<1>3. OneRow' /\ HistoryBounded'
  BY <1>1, HistoryKept DEF RefreshInv
<1>4. OneRefresher' /\ CooldownLooked'
  BY <1>1 DEF RefreshInv, OneRefresher, CooldownLooked
<1>5. RebuiltHolds'
  BY <1>1, RebuiltKept DEF RefreshInv
<1>. QED  BY <1>2, <1>3, <1>4, <1>5 DEF RefreshInv

LEMMA RefreshStutters == (RefreshInv /\ UNCHANGED refresh) => RefreshInv'
<1>. SUFFICES ASSUME RefreshInv, UNCHANGED refresh PROVE RefreshInv'
  OBVIOUS
<1>1. /\ recordLog' = recordLog /\ latestRows' = latestRows /\ losses' = losses
      /\ lastAttempt' = lastAttempt /\ holder' = holder /\ reader' = reader
      /\ clock \in Nat /\ clock' = clock
  BY DEF RefreshInv, RefreshTyped, refresh
<1>2. RefreshTyped'
  BY <1>1 DEF RefreshInv, RefreshTyped
<1>3. OneRow' /\ HistoryBounded'
  BY <1>1, HistoryKept DEF RefreshInv
<1>4. OneRefresher' /\ CooldownLooked'
  BY <1>1 DEF RefreshInv, OneRefresher, CooldownLooked
<1>5. RebuiltHolds'
  BY <1>1, RebuiltKept DEF RefreshInv
<1>. QED  BY <1>2, <1>3, <1>4, <1>5 DEF RefreshInv

LEMMA ReadKeeps == ASSUME RefreshInv, NEW r \in Readers, Read(r) PROVE RefreshInv'
<1>1. /\ recordLog' = recordLog /\ latestRows' = latestRows /\ losses' = losses
      /\ lastAttempt' = lastAttempt /\ holder' = holder /\ clock \in Nat /\ clock' = clock
      /\ reader \in [Readers -> Refresher]
  BY DEF RefreshInv, RefreshTyped, Read
<1>. DEFINE due == FoundDue(Asleep, clock)
<1>2. due \in Refresher /\ due.pc = "due" /\ due.now = clock
  <2>1. clock \in Int
    BY <1>1
  <2>. QED  BY <2>1, AsleepTyped, RefresherMoves
<1>3. reader' = [reader EXCEPT ![r] = due] /\ reader[r].pc = "idle"
      /\ (lastAttempt = Never \/ clock - lastAttempt >= Cooldown)
  BY DEF Read, FoundDue
<1>. HIDE DEF due
<1>4. RefreshTyped'
  BY <1>1, <1>2, <1>3 DEF RefreshInv, RefreshTyped
<1>5. OneRow' /\ HistoryBounded'
  BY <1>1, HistoryKept DEF RefreshInv
<1>6. OneRefresher'
  BY <1>1, <1>2, <1>3 DEF RefreshInv, OneRefresher
<1>7. CooldownLooked'
  BY <1>1, <1>2, <1>3 DEF RefreshInv, CooldownLooked
<1>8. RebuiltHolds'
  <2>1. \A q \in Readers : reader'[q].pc = "evaluating" => reader'[q] = reader[q]
    BY <1>1, <1>2, <1>3
  <2>. QED  BY <1>1, <2>1, RebuiltKept DEF RefreshInv
<1>. QED  BY <1>4, <1>5, <1>6, <1>7, <1>8 DEF RefreshInv

LEMMA AcquireKeeps == ASSUME RefreshInv, NEW r \in Readers, Acquire(r) PROVE RefreshInv'
<1>1. /\ recordLog' = recordLog /\ latestRows' = latestRows /\ losses' = losses
      /\ clock \in Nat /\ clock' = clock
      /\ reader \in [Readers -> Refresher] /\ reader[r].pc = "due"
  BY DEF RefreshInv, RefreshTyped, Acquire
<1>2. OneRow' /\ HistoryBounded'
  BY <1>1, HistoryKept DEF RefreshInv
<1>3. CASE holder = Nobody
  <2>. DEFINE warm == [reader[r] EXCEPT !.pc = "warming"]
              late(q) == [reader[q] EXCEPT !.overtaken = TRUE]
  <2>1. /\ holder' = r /\ lastAttempt' = reader[r].now
        /\ reader' = [q \in Readers |-> IF q = r THEN warm
                                        ELSE IF reader[q].pc = "due" THEN late(q) ELSE reader[q]]
    BY <1>3 DEF Acquire
  <2>2. warm \in Refresher /\ warm.pc = "warming"
    BY <1>1 DEF Refresher
  <2>3. \A q \in Readers : late(q) \in Refresher /\ late(q).pc = reader[q].pc /\ late(q).overtaken
    BY <1>1 DEF Refresher
  <2>4. r # Nobody /\ reader[r].now \in Int
    BY <1>1, RefreshAssumption DEF Refresher
  <2>. HIDE DEF warm, late
  <2>5. RefreshTyped'
    BY <1>1, <2>1, <2>2, <2>3, <2>4 DEF RefreshInv, RefreshTyped
  <2>6. OneRefresher'
    <3>1. \A q \in Readers : reader[q].pc \notin {"warming", "evaluating"}
      BY <1>3, RefreshAssumption DEF RefreshInv, OneRefresher
    <3>. QED  BY <2>1, <2>2, <2>3, <3>1 DEF OneRefresher
  <2>7. CooldownLooked'
    BY <2>1, <2>2, <2>3 DEF CooldownLooked
  <2>8. RebuiltHolds'
    <3>1. \A q \in Readers : reader'[q].pc = "evaluating" => reader'[q] = reader[q]
      BY <2>1, <2>2, <2>3
    <3>. QED  BY <1>1, <3>1, RebuiltKept DEF RefreshInv
  <2>. QED  BY <1>2, <2>5, <2>6, <2>7, <2>8 DEF RefreshInv
<1>4. CASE holder # Nobody
  <2>1. reader' = [reader EXCEPT ![r] = Asleep] /\ holder' = holder /\ lastAttempt' = lastAttempt
    BY <1>4 DEF Acquire
  <2>2. Asleep \in Refresher /\ Asleep.pc = "idle"
    BY AsleepTyped DEF Asleep
  <2>3. RefreshTyped'
    BY <1>1, <2>1, <2>2 DEF RefreshInv, RefreshTyped
  <2>4. OneRefresher'
    BY <1>1, <2>1, <2>2 DEF RefreshInv, OneRefresher
  <2>5. CooldownLooked'
    BY <1>1, <2>1, <2>2 DEF RefreshInv, CooldownLooked
  <2>6. RebuiltHolds'
    <3>1. \A q \in Readers : reader'[q].pc = "evaluating" => reader'[q] = reader[q]
      BY <1>1, <2>1, <2>2
    <3>. QED  BY <1>1, <3>1, RebuiltKept DEF RefreshInv
  <2>. QED  BY <1>2, <2>3, <2>4, <2>5, <2>6 DEF RefreshInv
<1>. QED  BY <1>3, <1>4

\* A reader that ends, whatever became of the records, gives the lock back.
LEMMA EndsRefresh ==
    ASSUME OneRefresher, RebuiltHolds, CooldownLooked, reader \in [Readers -> Refresher],
           NEW r \in Readers, reader[r].pc \in {"warming", "evaluating"},
           holder' = Nobody, lastAttempt' = lastAttempt, reader' = [reader EXCEPT ![r] = Asleep]
    PROVE  /\ reader' \in [Readers -> Refresher]
           /\ OneRefresher' /\ CooldownLooked' /\ RebuiltHolds'
<1>1. Asleep \in Refresher /\ Asleep.pc = "idle"
  BY AsleepTyped DEF Asleep
<1>2. holder = r
  BY DEF OneRefresher
<1>3. \A q \in Readers : reader'[q].pc \notin {"warming", "evaluating"}
  BY <1>1, <1>2 DEF OneRefresher
<1>4. OneRefresher'
  BY <1>3, RefreshAssumption DEF OneRefresher
<1>5. RebuiltHolds'
  BY <1>3 DEF RebuiltHolds
<1>6. CooldownLooked'
  BY <1>1 DEF CooldownLooked
<1>. QED  BY <1>1, <1>4, <1>5, <1>6

LEMMA GiveUpKeeps == ASSUME RefreshInv, NEW r \in Readers, GiveUp(r) PROVE RefreshInv'
<1>1. /\ recordLog' = recordLog /\ latestRows' = latestRows /\ losses' = losses
      /\ lastAttempt' = lastAttempt /\ clock \in Nat /\ clock' = clock
      /\ reader \in [Readers -> Refresher] /\ reader[r].pc = "warming"
      /\ holder' = Nobody /\ reader' = [reader EXCEPT ![r] = Asleep]
  BY DEF RefreshInv, RefreshTyped, GiveUp
<1>2. OneRow' /\ HistoryBounded'
  BY <1>1, HistoryKept DEF RefreshInv
<1>3. reader' \in [Readers -> Refresher] /\ OneRefresher' /\ CooldownLooked' /\ RebuiltHolds'
  BY <1>1, EndsRefresh DEF RefreshInv
<1>4. RefreshTyped'
  BY <1>1, <1>3 DEF RefreshInv, RefreshTyped
<1>. QED  BY <1>2, <1>3, <1>4 DEF RefreshInv

LEMMA RebuildRunsKeeps == ASSUME RefreshInv, NEW r \in Readers, RebuildRuns(r) PROVE RefreshInv'
<1>. DEFINE D == Cohort \ DecidedStores
            f == [s \in D |-> RebuiltStart(s)]
            busy == BusyWith(reader[r], f)
<1>1. /\ recordLog' = recordLog /\ latestRows' = latestRows /\ losses' = losses
      /\ lastAttempt' = lastAttempt /\ clock \in Nat /\ clock' = clock
      /\ reader \in [Readers -> Refresher] /\ reader[r].pc = "warming" /\ holder' = holder
  BY DEF RefreshInv, RefreshTyped, RebuildRuns
<1>2. reader' = [reader EXCEPT ![r] = busy]
  BY <1>1 DEF RebuildRuns, BusyWith
<1>3. D \in SUBSET CohortStores /\ \A s \in CohortStores \ D : s \in DecidedStores
  <2>1. \A s \in CohortStores : RecordsOf(s) # {}
    BY RecordsKnown DEF RefreshInv
  <2>. QED  BY <2>1 DEF Cohort
<1>4. f \in [D -> Int]
  <2>1. \A s \in CohortStores : RebuiltStart(s) \in Int
    BY RebuiltIsLeast DEF RefreshInv
  <2>. QED  BY <1>3, <2>1
<1>5. DOMAIN f = D /\ \A s \in D : f[s] = RebuiltStart(s)
  OBVIOUS
<1>. HIDE DEF f, D
<1>6. f \in UNION {[S -> Int] : S \in SUBSET CohortStores}
  BY <1>3, <1>4
<1>7. busy \in Refresher /\ busy.pc = "evaluating" /\ busy.starts = f
  <2>1. reader[r] \in Refresher
    BY <1>1
  <2>. QED  BY <2>1, <1>6, RefresherMoves
<1>. HIDE DEF busy
<1>8. RefreshTyped'
  BY <1>1, <1>2, <1>7 DEF RefreshInv, RefreshTyped
<1>9. OneRow' /\ HistoryBounded'
  BY <1>1, HistoryKept DEF RefreshInv
<1>10. OneRefresher'
  BY <1>1, <1>2, <1>7 DEF RefreshInv, OneRefresher
<1>11. CooldownLooked'
  BY <1>1, <1>2, <1>7 DEF RefreshInv, CooldownLooked
<1>12. RebuiltHolds'
  <2>1. (\A s : RebuiltStart(s)' = RebuiltStart(s)) /\ DecidedStores' = DecidedStores
    BY <1>1, RecordsKept
  <2>2. SUFFICES ASSUME NEW q \in Readers, reader'[q].pc = "evaluating"
        PROVE  /\ \A s \in DOMAIN reader'[q].starts : reader'[q].starts[s] = RebuiltStart(s)'
               /\ \A s \in CohortStores \ DOMAIN reader'[q].starts : s \in DecidedStores'
    BY DEF RebuiltHolds
  <2>3. CASE q = r
    BY <2>1, <2>3, <1>1, <1>2, <1>3, <1>5, <1>7
  <2>4. CASE q # r
    <3>1. reader'[q] = reader[q]
      BY <1>1, <1>2, <2>4
    <3>. QED  BY <2>1, <2>2, <3>1 DEF RefreshInv, RebuiltHolds
  <2>. QED  BY <2>3, <2>4
<1>. QED  BY <1>8, <1>9, <1>10, <1>11, <1>12 DEF RefreshInv

LEMMA PersistKeeps == ASSUME RefreshInv, NEW r \in Readers, Persist(r) PROVE RefreshInv'
<1>1. /\ losses' = losses /\ lastAttempt' = lastAttempt /\ clock \in Nat /\ clock' = clock
      /\ reader \in [Readers -> Refresher] /\ reader[r].pc = "evaluating"
      /\ holder' = Nobody /\ reader' = [reader EXCEPT ![r] = Asleep]
      /\ RefreshTyped /\ OneRow /\ HistoryBounded
  BY DEF RefreshInv, RefreshTyped, Persist
<1>2. recordLog' \in Seq(BoardRecord) /\ latestRows' \in SUBSET BoardRecord /\ OneRow' /\ HistoryBounded'
  <2>1. CASE recordLog' = recordLog /\ latestRows' = latestRows
    <3>1. OneRow' /\ HistoryBounded'
      BY <1>1, <2>1, HistoryKept
    <3>. QED  BY <1>1, <2>1, <3>1 DEF RefreshTyped
  <2>2. CASE \E F, order, replaced : Refreshed(DOMAIN reader[r].starts, F, order, replaced)
    <3>1. PICK F, order, replaced : Refreshed(DOMAIN reader[r].starts, F, order, replaced)
      BY <2>2
    <3>. QED  BY <1>1, <3>1, RefreshedKeeps
  <2>. QED  BY <2>1, <2>2, PersistRefreshes
<1>3. reader' \in [Readers -> Refresher] /\ OneRefresher' /\ CooldownLooked' /\ RebuiltHolds'
  BY <1>1, EndsRefresh DEF RefreshInv
<1>4. RefreshTyped'
  BY <1>1, <1>2, <1>3 DEF RefreshTyped
<1>. QED  BY <1>2, <1>3, <1>4 DEF RefreshInv

LEMMA DecideStepKeeps == ASSUME RefreshInv, NEW s \in CohortStores, Decide(s) PROVE RefreshInv'
<1>1. /\ losses' = losses /\ lastAttempt' = lastAttempt /\ clock \in Nat /\ clock' = clock
      /\ holder' = holder /\ reader' = reader
      /\ RefreshTyped /\ OneRow /\ HistoryBounded /\ RebuiltHolds
  BY DEF RefreshInv, RefreshTyped, Decide
<1>2. /\ recordLog' \in Seq(BoardRecord) /\ latestRows' \in SUBSET BoardRecord
      /\ OneRow' /\ HistoryBounded'
      /\ \A t \in CohortStores : RebuiltStart(t)' = RebuiltStart(t)
      /\ \A t \in CohortStores : t \in DecidedStores => t \in DecidedStores'
  BY <1>1, DecideKeeps
<1>3. RefreshTyped'
  BY <1>1, <1>2 DEF RefreshTyped
<1>4. OneRefresher' /\ CooldownLooked'
  BY <1>1 DEF RefreshInv, OneRefresher, CooldownLooked
<1>5. RebuiltHolds'
  <2>1. SUFFICES ASSUME NEW q \in Readers, reader[q].pc = "evaluating"
        PROVE  /\ \A t \in DOMAIN reader[q].starts : reader[q].starts[t] = RebuiltStart(t)'
               /\ \A t \in CohortStores \ DOMAIN reader[q].starts : t \in DecidedStores'
    BY <1>1 DEF RebuiltHolds
  <2>2. DOMAIN reader[q].starts \subseteq CohortStores
    <3>1. reader[q] \in Refresher
      BY <1>1 DEF RefreshTyped
    <3>. QED  BY <3>1 DEF Refresher
  <2>. QED  BY <1>1, <1>2, <2>1, <2>2 DEF RebuiltHolds
<1>. QED  BY <1>2, <1>3, <1>4, <1>5 DEF RefreshInv

LEMMA LoseLogStepKeeps == (RefreshInv /\ LoseLog) => RefreshInv'
<1>. SUFFICES ASSUME RefreshInv, LoseLog PROVE RefreshInv'
  OBVIOUS
<1>1. /\ losses \in Nat /\ losses' = losses + 1 /\ clock' = clock /\ lastAttempt' = Never
      /\ holder' = Nobody /\ reader' = [r \in Readers |-> Asleep] /\ latestRows' = latestRows
      /\ RefreshTyped /\ OneRow /\ HistoryBounded
  BY DEF RefreshInv, RefreshTyped, LoseLog
<1>2. recordLog' \in Seq(BoardRecord) /\ OneRow' /\ HistoryBounded'
  BY <1>1, LoseLogKeeps
<1>3. Asleep \in Refresher /\ \A r \in Readers : reader'[r].pc = "idle"
  BY <1>1, AsleepTyped DEF Asleep
<1>4. RefreshTyped'
  BY <1>1, <1>2, <1>3 DEF RefreshTyped, Never
<1>5. OneRefresher' /\ CooldownLooked' /\ RebuiltHolds'
  BY <1>1, <1>3, RefreshAssumption DEF OneRefresher, CooldownLooked, RebuiltHolds
<1>. QED  BY <1>2, <1>4, <1>5 DEF RefreshInv

LEMMA RefreshStepKeeps == (RefreshInv /\ [RefreshNext]_refresh) => RefreshInv'
<1>. SUFFICES ASSUME RefreshInv, [RefreshNext]_refresh PROVE RefreshInv'
  OBVIOUS
<1>1. CASE UNCHANGED refresh
  BY <1>1, RefreshStutters
<1>2. CASE ClockTick
  BY <1>2, ClockTickKeeps
<1>3. CASE LoseLog
  BY <1>3, LoseLogStepKeeps
<1>4. ASSUME NEW s \in CohortStores, Decide(s) PROVE RefreshInv'
  BY <1>4, DecideStepKeeps
<1>5. ASSUME NEW r \in Readers, Read(r) \/ ReaderStep(r) PROVE RefreshInv'
  <2>1. CASE Read(r)
    BY <2>1, ReadKeeps
  <2>2. CASE Acquire(r)
    BY <2>2, AcquireKeeps
  <2>3. CASE GiveUp(r)
    BY <2>3, GiveUpKeeps
  <2>4. CASE RebuildRuns(r)
    BY <2>4, RebuildRunsKeeps
  <2>5. CASE Persist(r)
    BY <2>5, PersistKeeps
  <2>. QED  BY <1>5, <2>1, <2>2, <2>3, <2>4, <2>5 DEF ReaderStep
<1>. QED  BY <1>1, <1>2, <1>3, <1>4, <1>5 DEF RefreshNext

LEMMA RefreshInvHolds == RefreshSpec => []RefreshInv
BY RefreshInitInv, RefreshStepKeeps, PTL DEF RefreshSpec

\* One reader at a time works on the board, and the start of a campaign that
\* _persisted_audit_runs rebuilds is never before the truth and late by less than a day,
\* and two more for each redeploy that lost the log, for any number of stores, readers,
\* ticks in a day and redeploys.
THEOREM RefreshStaysCoherent == RefreshSpec => []RefreshIsCoherent
<1>1. RefreshInv => RefreshIsCoherent
  <2>. SUFFICES ASSUME RefreshInv PROVE RefreshIsCoherent
    OBVIOUS
  <2>1. ASSUME NEW s \in Cohort
        PROVE  /\ RebuiltStart(s) >= CampaignStart
               /\ RebuiltStart(s) - CampaignStart < TicksPerDay * (1 + 2 * losses)
    <3>1. s \in CohortStores
      BY DEF Cohort
    <3>2. /\ RebuiltStart(s) \in Nat /\ RebuiltStart(s) >= CampaignStart
          /\ RebuiltStart(s) < CampaignStart + TicksPerDay * (1 + 2 * losses)
      BY <3>1, RebuiltIsLeast DEF RefreshInv
    <3>. DEFINE m == RebuiltStart(s)
                b == TicksPerDay * (1 + 2 * losses)
    <3>3. b \in Nat /\ CampaignStart \in Nat
      BY BoundsApart, RefreshAssumption DEF RefreshInv
    <3>4. m \in Nat /\ m < CampaignStart + b
      BY <3>2
    <3>. HIDE DEF m, b
    <3>5. m - CampaignStart < b
      BY <3>3, <3>4
    <3>. QED  BY <3>2, <3>5 DEF m, b
  <2>. QED  BY <2>1 DEF RefreshInv, RefreshIsCoherent, StartSlipsByLosses
<1>. QED  BY <1>1, RefreshInvHolds, PTL

LEMMA RebuiltIsLeastNext ==
    (RefreshTyped /\ OneRow /\ HistoryBounded)' =>
        (\A s \in CohortStores :
            /\ \E rec \in RecordsOf(s) : RebuiltStart(s) = StartOf(rec)
            /\ \A rec \in RecordsOf(s) : RebuiltStart(s) <= StartOf(rec)
            /\ RebuiltStart(s) \in Nat)'
<1>1. (RefreshTyped /\ OneRow /\ HistoryBounded) =>
        (\A s \in CohortStores :
            /\ \E rec \in RecordsOf(s) : RebuiltStart(s) = StartOf(rec)
            /\ \A rec \in RecordsOf(s) : RebuiltStart(s) <= StartOf(rec)
            /\ RebuiltStart(s) \in Nat)
  BY RebuiltIsLeast
<1>. QED  BY <1>1, PTL

LEMMA LastInLogNext ==
    RefreshTyped' =>
        (\A s \in CohortStores :
            /\ InLog(s) \in SUBSET Nat
            /\ InLog(s) # {} => /\ Max(InLog(s)) \in InLog(s)
                                /\ \A i \in InLog(s) : i <= Max(InLog(s)))'
BY LastInLog, PTL

\* The records of a log that is not lost stay.
LEMMA LogStays ==
    ASSUME RefreshTyped, NEW D, NEW F, NEW order, NEW replaced, Refreshed(D, F, order, replaced),
           NEW s \in CohortStores, InLog(s) # {}
    PROVE  RecordsOf(s) \subseteq RecordsOf(s)'
<1>1. \A i \in DOMAIN recordLog : i \in DOMAIN recordLog' /\ recordLog'[i] = recordLog[i]
  BY LogGrows DEF Refreshed
<1>2. \A i \in InLog(s) : i \in InLog(s)' /\ recordLog'[i] = recordLog[i]
  BY <1>1 DEF InLog
<1>3. RecordsOf(s) = {recordLog[i] : i \in InLog(s)} /\ RecordsOf(s)' = {recordLog'[i] : i \in InLog(s)'}
  BY <1>2 DEF RecordsOf
<1>. QED  BY <1>2, <1>3

LEMMA StartStays ==
    ASSUME RefreshInv, RefreshInv', [RefreshNext]_refresh,
           NEW s \in Cohort, losses' = losses, InLog(s) # {}
    PROVE  RebuiltStart(s)' <= RebuiltStart(s)
<1>0. s \in CohortStores /\ RefreshTyped /\ OneRow /\ HistoryBounded
      /\ RefreshTyped' /\ OneRow' /\ HistoryBounded'
  BY DEF Cohort, RefreshInv
<1>1. /\ RebuiltStart(s) \in Nat /\ RebuiltStart(s)' \in Nat
      /\ \E rec \in RecordsOf(s) : RebuiltStart(s) = StartOf(rec)
      /\ \A rec \in RecordsOf(s)' : RebuiltStart(s)' <= StartOf(rec)'
  BY <1>0, RebuiltIsLeast, RebuiltIsLeastNext
<1>2. CASE recordLog' = recordLog /\ latestRows' = latestRows
  <2>1. RebuiltStart(s)' = RebuiltStart(s)
    BY <1>2, RecordsKept
  <2>. QED  BY <1>1, <2>1
<1>3. ASSUME RecordsOf(s) \subseteq RecordsOf(s)'
      PROVE  RebuiltStart(s)' <= RebuiltStart(s)
  <2>1. PICK rec \in RecordsOf(s) : RebuiltStart(s) = StartOf(rec)
    BY <1>1
  <2>2. StartOf(rec)' = StartOf(rec)
    BY DEF StartOf
  <2>. QED  BY <1>1, <1>3, <2>1, <2>2
<1>4. ASSUME NEW t \in CohortStores, Decide(t)
      PROVE  RebuiltStart(s)' <= RebuiltStart(s)
  <2>1. RecordsOf(s) \subseteq RecordsOf(s)'
    BY <1>0, <1>4, DecideKeeps
  <2>. QED  BY <1>3, <2>1
<1>5. ASSUME NEW r \in Readers, Persist(r)
      PROVE  RebuiltStart(s)' <= RebuiltStart(s)
  <2>1. CASE recordLog' = recordLog /\ latestRows' = latestRows
    BY <1>2, <2>1
  <2>2. CASE \E F, order, replaced : Refreshed(DOMAIN reader[r].starts, F, order, replaced)
    <3>1. PICK F, order, replaced : Refreshed(DOMAIN reader[r].starts, F, order, replaced)
      BY <2>2
    <3>2. RecordsOf(s) \subseteq RecordsOf(s)'
      BY <1>0, <3>1, LogStays
    <3>. QED  BY <1>3, <3>2
  <2>. QED  BY <1>5, <2>1, <2>2, PersistRefreshes
<1>6. CASE LoseLog
  <2>1. losses' = losses + 1 /\ losses \in Nat
    BY <1>0, <1>6 DEF LoseLog, RefreshTyped
  <2>. QED  BY <2>1
<1>7. CASE \E r \in Readers : Read(r) \/ Acquire(r) \/ GiveUp(r) \/ RebuildRuns(r)
  <2>1. recordLog' = recordLog /\ latestRows' = latestRows
    BY <1>7 DEF Read, Acquire, GiveUp, RebuildRuns
  <2>. QED  BY <1>2, <2>1
<1>8. CASE ClockTick \/ UNCHANGED refresh
  <2>1. recordLog' = recordLog /\ latestRows' = latestRows
    BY <1>8 DEF ClockTick, refresh
  <2>. QED  BY <1>2, <2>1
<1>. QED  BY <1>4, <1>5, <1>6, <1>7, <1>8 DEF RefreshNext, ReaderStep

\* Only a refresh changes the log and a reader at once without a loss.
LEMMA RefreshIsPersist ==
    ASSUME RefreshInv, [RefreshNext]_refresh, losses' = losses, recordLog' # recordLog,
           NEW q \in Readers, reader[q] # reader'[q]
    PROVE  \E r \in Readers : Persist(r)
<1>1. ~ LoseLog
  BY DEF LoseLog, RefreshInv, RefreshTyped
<1>2. ~ ClockTick /\ ~ UNCHANGED refresh
  BY DEF ClockTick, refresh
<1>3. \A s \in CohortStores : ~ Decide(s)
  BY DEF Decide
<1>4. \A r \in Readers : ~ Read(r) /\ ~ Acquire(r) /\ ~ GiveUp(r) /\ ~ RebuildRuns(r)
  BY DEF Read, Acquire, GiveUp, RebuildRuns
<1>. QED  BY <1>1, <1>2, <1>3, <1>4 DEF RefreshNext, ReaderStep

LEMMA OnceADay ==
    ASSUME RefreshInv, RefreshInv', NEW r \in Readers, Persist(r), recordLog' # recordLog,
           NeedsRefresh', ~ OnlyErrors'
    PROVE  Undone' # {} \/ \E s \in Cohort : SaidBefore(s)
<1>. DEFINE D == DOMAIN reader[r].starts
<1>0. /\ RefreshTyped /\ OneRow /\ HistoryBounded /\ RebuiltHolds
      /\ RefreshTyped' /\ OneRow' /\ reader[r].pc = "evaluating"
      /\ clock' = clock /\ losses' = losses
  BY DEF RefreshInv, Persist
<1>1. PICK F, order, replaced : Refreshed(D, F, order, replaced)
  BY PersistRefreshes
<1>2. PICK rec \in Undecided' : DayOf(rec.stamp) < DayOf(clock)
  <2>1. \E x \in Undecided' : DayOf(x.stamp)' < DayOf(clock)'
    BY DEF NeedsRefresh
  <2>. QED  BY <1>0, <2>1 DEF DayOf
<1>3. PICK s \in Cohort' : rec = Latest(s)' /\ ~ Latest(s)'.decided
  BY <1>2 DEF Undecided
<1>4. s \in CohortStores
  BY <1>3 DEF Cohort
<1>5. CASE s \notin D
  <2>1. s \in DecidedStores
    BY <1>0, <1>4, <1>5 DEF RebuiltHolds
  <2>2. s \in DecidedStores'
    BY <1>0, <1>1, <1>4, <1>5, <2>1, RefreshedKeeps
  <2>3. s \in Undone'
    BY <1>3, <2>2 DEF Undone
  <2>. QED  BY <2>3
<1>6. CASE s \in D
  <2>0. /\ F[s].store = s /\ \A t \in D : F[t].store = t /\ F[t].stamp = clock
        /\ order \in Seq(BoardRecord) /\ recordLog' = recordLog \o order
        /\ \E status \in {"AVAILABLE", "NO_DATA", "ERROR"} :
              F[s] = Evaluation(s, clock, RebuiltStart(s), status) /\ F[s].status = status
    BY <1>1, <1>6 DEF Refreshed
  <2>1. CASE \E i \in DOMAIN recordLog : Said(recordLog[i]) = Said(F[s])
    <3>1. PICK i \in DOMAIN recordLog : Said(recordLog[i]) = Said(F[s])
      BY <2>1
    <3>2. recordLog[i].store = s
      BY <2>0, <3>1 DEF Said
    <3>3. SaidBefore(s)
      BY <2>0, <3>1, <3>2 DEF SaidBefore, InLog
    <3>4. s \in Cohort
      BY <1>0, <1>4, RecordsKnown DEF Cohort
    <3>. QED  BY <3>3, <3>4
  <2>2. CASE \A i \in DOMAIN recordLog : Said(recordLog[i]) # Said(F[s])
    <3>1. F[s] \in {order[j] : j \in DOMAIN order}
      BY <1>1, <1>6, <2>2 DEF Refreshed
    <3>2. PICK j \in DOMAIN order : order[j] = F[s]
      BY <3>1
    <3>3. PICK i \in DOMAIN recordLog' : i \notin DOMAIN recordLog /\ recordLog'[i] = F[s]
      <4>1. \A k \in DOMAIN order :
               \E i \in DOMAIN recordLog' : i \notin DOMAIN recordLog /\ recordLog'[i] = order[k]
        BY <1>0, <2>0, LogGrows
      <4>. QED  BY <4>1, <3>2
    <3>4. i \in InLog(s)'
      BY <2>0, <3>3 DEF InLog
    <3>. DEFINE m == Max(InLog(s)')
    <3>5. m \in InLog(s)' /\ i <= m /\ m \in Nat /\ i \in Nat
      BY <1>0, <1>4, <3>4, LastInLogNext
    <3>6. Latest(s)' = recordLog'[m]
      BY <3>4 DEF Latest
    <3>. HIDE DEF m
    <3>7. m \notin DOMAIN recordLog
      <4>1. \A k \in DOMAIN recordLog : k < i
        BY <1>0, <2>0, <3>3, LogGrows
      <4>2. ~ (m < i)
        BY <3>5
      <4>. QED  BY <4>1, <4>2
    <3>8. m \in DOMAIN recordLog'
      BY <3>5 DEF InLog
    <3>9. PICK t \in D : recordLog'[m] = F[t]
      BY <1>0, <1>1, <3>7, <3>8, RefreshedKeeps
    <3>10. Latest(s)'.stamp = clock
      BY <2>0, <3>6, <3>9
    <3>11. DayOf(clock) < DayOf(clock)
      BY <1>2, <1>3, <3>10
    <3>12. DayOf(clock) \in Int
      <4>1. clock \in Int
        BY <1>0 DEF RefreshTyped
      <4>. QED  BY <4>1, RefreshAssumption, Quotient DEF DayOf
    <3>. QED  BY <3>11, <3>12
  <2>. QED  BY <2>1, <2>2
<1>. QED  BY <1>5, <1>6

\* A refresh begins within the cooldown of another only if its reader was overtaken, a
\* refreshed board asks for no other the same day but for the two reasons named, and the
\* start of a campaign never moves on while its log is there.
THEOREM RefreshesStaySpaced == RefreshSpec => RefreshesAreSpaced
<1>1. (RefreshInv /\ RefreshInv' /\ [RefreshNext]_refresh)
         => [\A r \in Readers :
                (reader[r].pc = "due" /\ holder' = r /\ holder # r /\ lastAttempt # Never)
                   => reader[r].now - lastAttempt >= Cooldown \/ reader[r].overtaken]_holder
  <2>. SUFFICES ASSUME RefreshInv, NEW r \in Readers, reader[r].pc = "due", lastAttempt # Never
                PROVE  reader[r].now - lastAttempt >= Cooldown \/ reader[r].overtaken
    OBVIOUS
  <2>. QED  BY DEF RefreshInv, CooldownLooked
<1>2. (RefreshInv /\ RefreshInv' /\ [RefreshNext]_refresh)
         => [(losses' = losses /\ recordLog' # recordLog /\ \E r \in Readers : reader[r] # reader'[r])
               => (NeedsRefresh' => OnlyErrors' \/ Undone' # {}
                                      \/ \E s \in Cohort : SaidBefore(s))]_<<reader, recordLog>>
  <2>. SUFFICES ASSUME RefreshInv, RefreshInv', [RefreshNext]_refresh,
                       losses' = losses, recordLog' # recordLog,
                       NEW q \in Readers, reader[q] # reader'[q], NeedsRefresh', ~ OnlyErrors'
                PROVE  Undone' # {} \/ \E s \in Cohort : SaidBefore(s)
    OBVIOUS
  <2>1. PICK r \in Readers : Persist(r)
    BY RefreshIsPersist
  <2>. QED  BY <2>1, OnceADay
<1>3. (RefreshInv /\ RefreshInv' /\ [RefreshNext]_refresh)
         => [\A s \in Cohort : (losses' = losses /\ InLog(s) # {})
                => RebuiltStart(s)' <= RebuiltStart(s)]_<<recordLog, latestRows>>
  BY StartStays
<1>. QED  BY <1>1, <1>2, <1>3, RefreshInvHolds, PTL
          DEF RefreshSpec, RefreshesAreSpaced, CooldownKept, RefreshOnceADay, StartIsStable

\* The phase of an allocation is one of its words, and whoever it pays has an amount.
THEOREM AllocatorTypeCorrect == AllocatorSpec => []AllocatorTypeOK
<1>1. AllocInv => AllocatorTypeOK
  <2>. SUFFICES ASSUME AllocInv PROVE AllocatorTypeOK
    OBVIOUS
  <2>1. left \subseteq Sids
    <3>1. left = {} \/ Scores
      BY DEF AllocInv
    <3>. QED  BY <3>1 DEF Scores
  <2>2. served \subseteq DOMAIN list /\ Paid \subseteq DOMAIN amounts
    <3>1. CASE served = {}
      BY <3>1 DEF Paid
    <3>2. CASE served # {}
      <4>1. Fixed /\ Trim
        BY <3>2 DEF AllocInv
      <4>2. DOMAIN amounts = DOMAIN rounded
        BY <4>1 DEF Trim
      <4>3. served \subseteq {i \in Competing : list[i].sid \in DOMAIN rounded}
        BY <4>1 DEF Fixed
      <4>. QED  BY <4>2, <4>3 DEF Paid, Competing
    <3>. QED  BY <3>1, <3>2
  <2>. QED  BY <2>1, <2>2 DEF AllocInv, AllocatorTypeOK
<1>. QED  BY <1>1, AllocInvariance, PTL

\* No instant the refresh keeps is in the future, and only a reader holds its lock.
RefreshMarks ==
    /\ holder \in Readers \cup {Nobody}
    /\ lastAttempt \in {Never} \cup 0 .. clock
    /\ \A r \in Readers : reader[r].now \in 0 .. clock

LEMMA RefreshMarksHold == RefreshSpec => []RefreshMarks
<1>1. RefreshInit => RefreshMarks
  <2>. SUFFICES ASSUME RefreshInit PROVE RefreshMarks
    OBVIOUS
  <2>1. clock \in Nat
    BY RefreshAssumption DEF RefreshInit
  <2>2. \A r \in Readers : reader[r].now = 0
    BY DEF RefreshInit, Asleep
  <2>. QED  BY <2>1, <2>2 DEF RefreshInit, RefreshMarks
<1>2. RefreshInv /\ RefreshMarks /\ [RefreshNext]_refresh => RefreshMarks'
  <2>. SUFFICES ASSUME RefreshInv, RefreshMarks, [RefreshNext]_refresh PROVE RefreshMarks'
    OBVIOUS
  <2>0. /\ clock \in Nat /\ lastAttempt \in Int /\ reader \in [Readers -> Refresher]
        /\ Asleep.now = 0
    BY DEF RefreshInv, RefreshTyped, Asleep
  <2>1. CASE UNCHANGED refresh
    BY <2>1 DEF refresh, RefreshMarks
  <2>2. CASE ClockTick
    <3>1. clock' = clock + 1 /\ 0 .. clock \subseteq 0 .. clock'
      BY <2>0, <2>2 DEF ClockTick
    <3>. QED  BY <2>2, <3>1 DEF ClockTick, RefreshMarks
  <2>3. CASE LoseLog
    BY <2>0, <2>3 DEF LoseLog, RefreshMarks
  <2>4. ASSUME NEW s \in CohortStores, Decide(s) PROVE RefreshMarks'
    BY <2>4 DEF Decide, RefreshMarks
  <2>5. ASSUME NEW r \in Readers, Read(r) \/ ReaderStep(r) PROVE RefreshMarks'
    <3>1. CASE Read(r)
      <4>1. \A q \in Readers : reader'[q].now = reader[q].now \/ reader'[q].now = clock
        BY <2>0, <3>1 DEF Read, Asleep
      <4>. QED  BY <2>0, <3>1, <4>1 DEF Read, RefreshMarks
    <3>2. CASE Acquire(r)
      <4>1. \A q \in Readers : reader'[q].now = reader[q].now \/ reader'[q].now = 0
        <5>1. CASE holder = Nobody
          <6>1. reader' = [q \in Readers |->
                            IF q = r THEN [reader[r] EXCEPT !.pc = "warming"]
                            ELSE IF reader[q].pc = "due" THEN [reader[q] EXCEPT !.overtaken = TRUE]
                            ELSE reader[q]]
            BY <3>2, <5>1 DEF Acquire
          <6>2. \A q \in Readers : reader[q] \in Refresher
            BY <2>0
          <6>3. \A f \in Refresher : /\ [f EXCEPT !.pc = "warming"].now = f.now
                                     /\ [f EXCEPT !.overtaken = TRUE].now = f.now
            BY DEF Refresher
          <6>. QED  BY <6>1, <6>2, <6>3
        <5>2. CASE holder # Nobody
          <6>1. reader' = [reader EXCEPT ![r] = Asleep]
            BY <3>2, <5>2 DEF Acquire
          <6>. QED  BY <2>0, <6>1
        <5>. QED  BY <5>1, <5>2
      <4>2. holder' \in Readers \cup {Nobody} /\ lastAttempt' \in {Never} \cup 0 .. clock
            /\ clock' = clock
        BY <3>2 DEF Acquire, RefreshMarks
      <4>. QED  BY <2>0, <4>1, <4>2 DEF RefreshMarks
    <3>3. CASE GiveUp(r)
      <4>1. \A q \in Readers : reader'[q].now = reader[q].now \/ reader'[q].now = 0
        BY <2>0, <3>3 DEF GiveUp, Asleep
      <4>. QED  BY <2>0, <3>3, <4>1 DEF GiveUp, RefreshMarks
    <3>4. CASE RebuildRuns(r)
      <4>1. \A q \in Readers : reader'[q].now = reader[q].now \/ reader'[q].now = 0
        BY <2>0, <3>4 DEF RebuildRuns, Refresher
      <4>. QED  BY <2>0, <3>4, <4>1 DEF RebuildRuns, RefreshMarks
    <3>5. CASE Persist(r)
      <4>0. /\ reader' = [reader EXCEPT ![r] = Asleep] /\ holder' = Nobody
            /\ clock' = clock /\ lastAttempt' = lastAttempt
        BY <3>5 DEF Persist
      <4>1. \A q \in Readers : reader'[q].now = reader[q].now \/ reader'[q].now = 0
        BY <2>0, <4>0
      <4>. QED  BY <2>0, <4>0, <4>1 DEF RefreshMarks
    <3>. QED  BY <2>5, <3>1, <3>2, <3>3, <3>4, <3>5 DEF ReaderStep
  <2>. QED  BY <2>1, <2>2, <2>3, <2>4, <2>5 DEF RefreshNext
<1>. QED  BY <1>1, <1>2, RefreshInvHolds, PTL DEF RefreshSpec

\* The refresh never dates anything in the future, and keeps the cohort's own rows.
THEOREM RefreshTypeCorrect == RefreshSpec => []RefreshTypeOK
<1>1. RefreshInv /\ RefreshMarks => RefreshTypeOK
  <2>. SUFFICES ASSUME RefreshInv, RefreshMarks PROVE RefreshTypeOK
    OBVIOUS
  <2>1. \A row \in latestRows : row.store \in CohortStores /\ row.stamp <= clock
    BY DEF RefreshInv, RefreshTyped, BoardRecord, HistoryBounded, Within
  <2>2. \A r \in Readers : reader[r].pc \in {"idle", "due", "warming", "evaluating"}
    BY DEF RefreshInv, RefreshTyped, Refresher
  <2>3. clock \in Nat
    BY DEF RefreshInv, RefreshTyped
  <2>. QED  BY <2>1, <2>2, <2>3 DEF RefreshMarks, RefreshTypeOK
<1>. QED  BY <1>1, RefreshInvHolds, RefreshMarksHold, PTL

=============================================================================
