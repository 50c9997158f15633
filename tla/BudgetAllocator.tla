--------------------------- MODULE BudgetAllocator --------------------------
(***************************************************************************)
(* The portfolio's budget allocator (phase2/budget_allocator.py): score,    *)
(* split in proportion under a cap per store, round to cents, drop what is  *)
(* not worth paying out, shave what rounding put over the budget.           *)
(*                                                                         *)
(* A budget is any positive number, here in parts of a cent; amounts paid   *)
(* out are in cents.  A baseline is in hundreds of dollars a day, a lift in *)
(* percent, a margin rate in twentieths, a confidence in tenths and a       *)
(* campaign's cost in dollars, so a score is in tenths of a dollar.         *)
(***************************************************************************)
EXTENDS Integers, Sequences, FiniteSets, FiniteSetsExt

CONSTANTS CentParts,        \* parts a cent is counted in
          Budgets,          \* budgets asked for, in parts of a cent
          CandidateLists    \* sequences of candidates

Candidate == [sid : Int, eligible : BOOLEAN, evidence : STRING, lift : Int,
              baseline : Int, rate : Int, cost : Int, confidence : Int]

ASSUME AllocatorAssumption ==
    /\ CentParts \in Nat \ {0}
    /\ Budgets \subseteq Int
    /\ CandidateLists \subseteq Seq(Candidate)

MinAllocation == 10000
ShareCap == 4               \* no store takes more than a quarter
CapParts == ShareCap * CentParts

VARIABLES phase, total, list,
          scored,           \* [at, sid, score] of the candidates that compete
          left,             \* stores not capped yet
          amounts,          \* per store, in cents, once rounded
          served,           \* positions in list that hold an allocation
          rounded,          \* history: the amounts before the trim
          todo,             \* stores the trim has not come to
          overflow          \* cents still to be trimmed

allocator == <<phase, total, list, scored, left, amounts, served, rounded, todo, overflow>>

-----------------------------------------------------------------------------
ValidCandidate(c) ==
    /\ c.baseline > 0 /\ c.cost >= 0
    /\ c.confidence \in 0 .. 10 /\ c.rate \in 1 .. 20

\* 60 days of baseline * lift * rate, less the cost, in dollars.
ExpectedMargin(c) == 3 * c.baseline * c.lift * c.rate - c.cost

Competes(c) ==
    c.eligible /\ c.evidence = "SUFFICIENT" /\ c.lift > 0 /\ ExpectedMargin(c) > 0

Sids == {item.sid : item \in scored}

\* A store listed twice competes once, with the lower of its scores, and is paid
\* out at each of its places.
Score(sid) == Min({item.score : item \in {i \in scored : i.sid = sid}})
ScoreSum(sids) == SumFunction([sid \in sids |-> Score(sid)])
PlacedSum == SumFunction([item \in scored |-> item.score])

\* What is left to split, in quarters of the budget.
Quarters == ShareCap - Cardinality(Sids \ left)
AboveCap == {sid \in left : Quarters * Score(sid) > ScoreSum(left)}

\* n / d to the nearest whole number, a half up.
Nearest(n, d) == (2 * n + d) \div (2 * d)

Share(sid) ==
    IF sid \notin left THEN Nearest(total, CapParts)
    ELSE Nearest(total * (Quarters * Score(sid)), CapParts * ScoreSum(left))

SumOf(pay, places) == SumFunction([i \in places |-> pay[list[i].sid]])
PaidOut == SumOf(amounts, served)
Paid == {list[i].sid : i \in served}

AllocatorInit ==
    /\ phase = "score" /\ total \in Budgets /\ list \in CandidateLists
    /\ scored = {} /\ left = {} /\ amounts = <<>> /\ served = {}
    /\ rounded = <<>> /\ todo = {} /\ overflow = 0

ScoreCandidates ==
    /\ phase = "score"
    /\ IF total <= 0 \/ \E i \in DOMAIN list : ~ValidCandidate(list[i])
       THEN phase' = "rejected" /\ UNCHANGED <<scored, left>>
       ELSE /\ scored' = {[at |-> i, sid |-> list[i].sid,
                           score |-> ExpectedMargin(list[i]) * list[i].confidence] :
                            i \in {j \in DOMAIN list : Competes(list[j])}}
            /\ left' = {list[i].sid : i \in {j \in DOMAIN list : Competes(list[j])}}
            /\ phase' = "fill"
    /\ UNCHANGED <<total, list, amounts, served, rounded, todo, overflow>>

\* A round that caps every store above the cap; the others share what is left.
CapRound ==
    /\ phase = "fill"
    /\ PlacedSum > 0 /\ left # {} /\ ScoreSum(left) > 0 /\ AboveCap # {}
    /\ left' = left \ AboveCap
    /\ UNCHANGED <<phase, total, list, scored, amounts, served, rounded, todo, overflow>>

\* Nobody is above the cap: to cents, and no allocation below the minimum.  What the
\* amounts are over the budget is rounded to cents too: less than half a cent is nothing.
RoundShares ==
    /\ phase = "fill"
    /\ \/ scored = {}
       \/ left = {}
       \/ PlacedSum > 0 /\ ScoreSum(left) > 0 /\ AboveCap = {}
    /\ amounts' = [sid \in {s \in Sids : Share(s) >= MinAllocation} |-> Share(sid)]
    /\ served' = {i \in DOMAIN list : Competes(list[i]) /\ list[i].sid \in DOMAIN amounts'}
    /\ rounded' = amounts'
    /\ overflow' = Nearest(SumOf(amounts', served') * CentParts - total, CentParts)
    /\ todo' = DOMAIN amounts'
    /\ phase' = "trim"
    /\ UNCHANGED <<total, list, scored, left>>

\* Stores are left that score nothing: no share was computed for them, and
\* looking one up raises KeyError.
ShareMissing ==
    /\ phase = "fill" /\ scored # {}
    /\ PlacedSum <= 0 \/ (left # {} /\ ScoreSum(left) <= 0)
    /\ phase' = "failed"
    /\ UNCHANGED <<total, list, scored, left, amounts, served, rounded, todo, overflow>>

Smaller(a, b) == amounts[a] < amounts[b] \/ (amounts[a] = amounts[b] /\ a <= b)

\* Smallest first, down to the minimum.
Shave ==
    /\ phase = "trim" /\ overflow > 0 /\ todo # {}
    /\ \E sid \in todo :
          /\ \A other \in todo : Smaller(sid, other)
          /\ amounts' = [amounts EXCEPT ![sid] = Max({@ - overflow, MinAllocation})]
          /\ overflow' = overflow - (amounts[sid] - amounts'[sid])
          /\ todo' = todo \ {sid}
    /\ UNCHANGED <<phase, total, list, scored, left, served, rounded>>

DropSmallest ==
    /\ phase = "trim" /\ overflow > 0 /\ todo = {} /\ Paid # {}
    /\ \E sid \in Paid :
          /\ \A other \in Paid : Smaller(sid, other)
          /\ served' = {i \in served : list[i].sid # sid}
          /\ overflow' = overflow - amounts[sid]
    /\ UNCHANGED <<phase, total, list, scored, left, amounts, rounded, todo>>

\* Faulty variant: nobody is dropped for what shaving left over.
PublishShaved ==
    /\ phase = "trim"
    /\ overflow <= 0 \/ todo = {}
    /\ phase' = "done"
    /\ UNCHANGED <<total, list, scored, left, amounts, served, rounded, todo, overflow>>

Publish ==
    /\ phase = "trim"
    /\ overflow <= 0 \/ Paid = {}
    /\ phase' = "done"
    /\ UNCHANGED <<total, list, scored, left, amounts, served, rounded, todo, overflow>>

AllocatorNext == ScoreCandidates \/ CapRound \/ RoundShares \/ ShareMissing
                    \/ Shave \/ DropSmallest \/ Publish

AllocatorSpec == AllocatorInit /\ [][AllocatorNext]_allocator /\ WF_allocator(AllocatorNext)

-----------------------------------------------------------------------------
Allocated == phase = "done"
ListedOnce(sid) == Cardinality({item \in scored : item.sid = sid}) = 1

AllocatorTypeOK ==
    /\ phase \in {"score", "fill", "trim", "done", "rejected", "failed"}
    /\ left \subseteq Sids
    /\ served \subseteq DOMAIN list
    /\ Paid \subseteq DOMAIN amounts

\* Whatever the rounding of the shares added up to, the plan is over the budget by less
\* than half a cent: never over a budget of whole cents, however the shares, the floor
\* and the stores listed twice fell.  (The
\* docstring of _trim_overflow promises more: "allocated_budget <= total_budget".)
BudgetKept ==
    Allocated =>
        /\ 2 * (PaidOut * CentParts - total) < CentParts
        /\ total % CentParts = 0 => PaidOut * CentParts <= total

\* No allocation is above a quarter of the budget, to the cent it is rounded to, and
\* none below the minimum; a store takes more only if it is listed more than once,
\* which nothing refuses.
CapAndFloorKept ==
    Allocated => \A i \in served :
        /\ 2 * (CapParts * amounts[list[i].sid]) <= 2 * total + CapParts
        /\ amounts[list[i].sid] >= MinAllocation
        /\ \/ Cardinality({j \in served : list[j].sid = list[i].sid}) = 1
           \/ ~ListedOnce(list[i].sid)

\* Money goes to proven lift only: no paid store lacks eligibility, sufficient
\* evidence, a lift and a margin above zero, or any confidence at all.
MoneyNeedsProof ==
    Allocated => \A i \in served : Competes(list[i]) /\ list[i].confidence > 0

Positive == {sid \in Sids : Score(sid) > 0}

\* The allocator fails on valid input exactly when a competing store has no
\* confidence and at most three others have some: those are all capped, and the
\* rest divide nothing (the two early ends of _water_fill_proportions).
FailsOnZeroConfidence ==
    /\ phase = "failed" => Positive # Sids /\ Cardinality(Positive) < ShareCap
    /\ phase \in {"trim", "done"} => Positive = Sids \/ Cardinality(Positive) >= ShareCap

\* A better score never earns a smaller share, and is never paid less than a worse one
\* unless the two rounded to the same amount, or the trim shaved both to the minimum:
\* it then drops by store number (the capped split against _trim_overflow).
BetterScoreNotPaidLess ==
    Allocated => \A a \in Sids, b \in Paid :
        Score(a) > Score(b) =>
            /\ a \in DOMAIN amounts /\ rounded[a] >= rounded[b]
            /\ rounded[a] > rounded[b] =>
                  /\ amounts[a] >= amounts[b]
                  /\ a \in Paid \/ amounts[a] = MinAllocation

\* Every allocation run ends.
AllocationEnds == <>[](phase \in {"done", "rejected", "failed"})

\* A plan keeps the budget, the cap and the floor, pays proven lift only and better
\* scores first, and is refused exactly for want of confidence.
AllocationIsSound ==
    /\ BudgetKept /\ CapAndFloorKept /\ MoneyNeedsProof /\ BetterScoreNotPaidLess
    /\ FailsOnZeroConfidence
=============================================================================
