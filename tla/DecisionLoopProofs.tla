------------------------- MODULE DecisionLoopProofs -------------------------
(***************************************************************************)
(* Theorems about DecisionLoop, for any stores, contents, requests, sweeps,*)
(* workers, rule sets, losses of disk and number of restarts.              *)
(***************************************************************************)
EXTENDS DecisionLoop, Integers, SequenceTheorems, FiniteSetTheorems,
        WellFoundedInduction, TLAPS

-----------------------------------------------------------------------------
(* Sequences and the last record of a store.                               *)

\* A non-empty set of positions has a last one.
LEMMA LastPosition ==
  ASSUME NEW n \in Nat, NEW S, S \subseteq 1 .. n, S # {}
  PROVE  \E i \in S : \A j \in S : j <= i
<1> DEFINE T == {m \in Nat : n - m \in S}
<1>1. PICK i0 \in S : TRUE
  OBVIOUS
<1>2. n - i0 \in Nat /\ n - (n - i0) = i0
  OBVIOUS
<1>3. T \subseteq Nat
  OBVIOUS
<1>4. T # {}
  BY <1>2
<1> HIDE DEF T
<1>5. PICK x \in T : \A y \in T : ~ (<<y, x>> \in OpToRel(<, Nat))
  BY <1>3, <1>4, WFMin, NatLessThanWellFounded
<1>6. \A y \in T : ~ (y < x)
  BY <1>3, <1>5, Zenon DEF OpToRel
<1>7. ASSUME NEW j \in S PROVE j <= n - x
  <2>1. n - j \in Nat /\ n - (n - j) = j
    OBVIOUS
  <2>2. n - j \in T
    BY <2>1 DEF T
  <2>3. ~ (n - j < x)
    BY <1>6, <2>2
  <2>4. QED
    BY <2>1, <2>3, <1>3
<1>8. n - x \in S
  BY DEF T
<1>9. QED
  BY <1>7, <1>8

\* The last record of a store is a record of the log, or there is none.
LEMMA LastRecordInLog ==
  ASSUME log \in Seq(Record), NEW s \in Stores
  PROVE  /\ LastRecord(s) = NoRow \/ (/\ LastRecord(s) \in Record
                                      /\ InSeq(LastRecord(s), log))
         /\ RecordsOf(s) # {} => LastRecord(s) \in Record
<1>1. CASE RecordsOf(s) = {}
  BY <1>1 DEF LastRecord
<1>2. CASE RecordsOf(s) # {}
  <2>1. RecordsOf(s) \subseteq 1 .. Len(log) /\ Len(log) \in Nat
    BY DEF RecordsOf
  <2>2. \E i \in RecordsOf(s) : \A j \in RecordsOf(s) : j <= i
    BY <1>2, <2>1, LastPosition
  <2> DEFINE m == CHOOSE i \in RecordsOf(s) : \A j \in RecordsOf(s) : j <= i
  <2>3. m \in RecordsOf(s)
    BY <2>2
  <2>4. m \in DOMAIN log /\ LastRecord(s) = log[m]
    BY <1>2, <2>3 DEF LastRecord, RecordsOf
  <2> HIDE DEF m
  <2>5. log[m] \in Record
    BY <2>4
  <2>6. QED
    BY <2>4, <2>5 DEF InSeq
<1>3. QED
  BY <1>1, <1>2

\* Appending keeps what a sequence has and adds the new element.
LEMMA AppendKeeps ==
  ASSUME NEW q \in Seq(Record), NEW e \in Record
  PROVE  /\ Append(q, e) \in Seq(Record)
         /\ InSeq(e, Append(q, e))
         /\ \A x : InSeq(x, q) => InSeq(x, Append(q, e))
         /\ \A i \in DOMAIN Append(q, e) :
               \/ i \in DOMAIN q /\ Append(q, e)[i] = q[i]
               \/ i = Len(q) + 1 /\ Append(q, e)[i] = e
<1> DEFINE a == Append(q, e)
<1>1. /\ a \in Seq(Record) /\ Len(a) = Len(q) + 1 /\ Len(q) \in Nat
      /\ \A i \in 1 .. Len(q) : a[i] = q[i]
      /\ a[Len(q) + 1] = e
  BY AppendProperties
<1>2. DOMAIN a = 1 .. (Len(q) + 1) /\ DOMAIN q = 1 .. Len(q)
  BY <1>1
<1> HIDE DEF a
<1>3. InSeq(e, a)
  BY <1>1, <1>2 DEF InSeq
<1>4. \A x : InSeq(x, q) => InSeq(x, a)
  BY <1>1, <1>2 DEF InSeq
<1>5. \A i \in DOMAIN a :
         \/ i \in DOMAIN q /\ a[i] = q[i]
         \/ i = Len(q) + 1 /\ a[i] = e
  BY <1>1, <1>2
<1>6. QED
  BY <1>1, <1>3, <1>4, <1>5 DEF a

-----------------------------------------------------------------------------
(* Type correctness.                                                       *)

\* What a request holds has the right type while it is needed.
HandsTyped ==
    \A r \in Requests :
       /\ RequestInFlight(r) => target[r] \in Stores
       /\ pc[r] \in {"putback", "log", "ledger", "writeback"} => held[r] \in Record

Typed == TypeOK /\ HandsTyped

LEMMA EmptyTableTyped == EmptyTable \in [Stores -> Record \cup {NoRow}]
BY DEF EmptyTable

LEMMA SweepAtTyped ==
  ASSUME NEW phase \in SweepPhases
  PROVE  SweepAt(phase) \in Cohort
BY DEF SweepAt, Cohort

LEMMA SnapshotTyped ==
  ASSUME NEW c \in Cohort, NEW seen \in SUBSET (Stores \X Contents),
         NEW decided \in SUBSET Stores, NEW history \in BOOLEAN
  PROVE  [c EXCEPT !.pc = "snapshot", !.seen = seen, !.decided = decided,
                   !.history = history] \in Cohort
BY DEF Cohort, SweepPhases

LEMMA UpsertTyped ==
  ASSUME table \in [Stores -> Record \cup {NoRow}], NEW s,
         NEW rec \in Record \cup {NoRow}
  PROVE  Upsert(s, rec) \in [Stores -> Record \cup {NoRow}]
BY DEF Upsert

LEMMA FreshRecordTyped ==
  ASSUME NEW s \in Stores, NEW c \in Contents
  PROVE  FreshRecord(s, c) \in Record /\ ~ Decided(FreshRecord(s, c))
BY DEF FreshRecord, Record, RequiresHumanApproval, Decided, Verbs

LEMMA DecidingTyped ==
  ASSUME NEW rec \in Record, NEW v \in Verbs, NEW r \in Requests
  PROVE  /\ [rec EXCEPT !.decision = v, !.by = r] \in Record
         /\ Decided([rec EXCEPT !.decision = v, !.by = r])
         /\ [rec EXCEPT !.decision = v, !.by = r].by = r
BY DEF Record, Decided, Verbs

LEMMA TypedInit == Init => Typed
<1> SUFFICES ASSUME Init PROVE Typed
  OBVIOUS
<1>1. log \in Seq(Record) /\ ledger \in Seq(Record)
  BY DEF Init
<1>2. table \in [Stores -> Record \cup {NoRow}]
      /\ seed \in [Workers -> [Stores -> Record \cup {NoRow}]]
  BY EmptyTableTyped DEF Init
<1>3. sweep \in [Sweeps -> Cohort]
  BY SweepAtTyped DEF Init, SweepPhases
<1>4. QED
  BY <1>1, <1>2, <1>3, ConstantsAssumption
     DEF Init, Typed, TypeOK, HandsTyped, RequestInFlight, Phases, Answers

LEMMA BootKeepsTypes ==
  ASSUME Typed, NEW k \in Workers, BootStep(k)
  PROVE  Typed'
<1> USE DEF Typed, TypeOK, HandsTyped, RequestInFlight
<1>1. CASE BootCheck(k)
  BY <1>1 DEF BootCheck, durable, requestVars
<1>2. CASE BootRead(k)
  <2>1. [s \in Stores |-> LastRecord(s)] \in [Stores -> Record \cup {NoRow}]
    BY LastRecordInLog
  <2>2. QED
    BY <1>2, <2>1 DEF BootRead, durable, requestVars
<1>3. CASE BootSeed(k)
  BY <1>3, EmptyTableTyped DEF BootSeed, durable, requestVars
<1>4. QED
  BY <1>1, <1>2, <1>3 DEF BootStep

LEMMA ArrivalKeepsTypes ==
  ASSUME Typed, NEW r \in Requests, Arrive(r)
  PROVE  Typed'
<1> USE DEF Typed, TypeOK, HandsTyped, RequestInFlight, Pop, bootVars, Phases,
            Answers
<1>1. ASSUME NEW s \in Stores, PopMissing(r, s) PROVE Typed'
  BY <1>1 DEF PopMissing
<1>2. ASSUME NEW s \in Stores, PopRefused(r, s) PROVE Typed'
  <2>1. Refusal(table[s]) \in Answers /\ table[s] \in Record
    BY <1>2 DEF PopRefused, Refusal
  <2>2. QED
    BY <1>2, <2>1 DEF PopRefused
<1>3. ASSUME NEW s \in Stores, NEW v \in Verbs, PopPending(r, s, v) PROVE Typed'
  <2>0. table[s] \in Record
    BY <1>3 DEF PopPending
  <2>1. [table[s] EXCEPT !.decision = v, !.by = r] \in Record
    BY <2>0, DecidingTyped
  <2>2. QED
    BY <1>3, <2>1 DEF PopPending
<1>4. QED
  BY <1>1, <1>2, <1>3 DEF Arrive

LEMMA RequestKeepsTypes ==
  ASSUME Typed, NEW r \in Requests, RequestStep(r)
  PROVE  Typed'
<1> USE DEF Typed, TypeOK, HandsTyped, RequestInFlight, bootVars, durable,
            Phases, Answers
<1>1. CASE PutBack(r)
  BY <1>1, UpsertTyped DEF PutBack
<1>2. CASE LookLog(r)
  BY <1>2 DEF LookLog
<1>3. CASE LookTable(r)
  BY <1>3 DEF LookTable
<1>4. CASE AppendLog(r)
  BY <1>4, AppendProperties DEF AppendLog
<1>5. CASE AppendDecision(r)
  BY <1>5, AppendProperties DEF AppendDecision
<1>6. CASE WriteBack(r)
  BY <1>6, UpsertTyped DEF WriteBack
<1>7. QED
  BY <1>1, <1>2, <1>3, <1>4, <1>5, <1>6 DEF RequestStep

\* A step that only moves one sweep's local record keeps the types.
LEMMA LocalSweepTyped ==
  ASSUME Typed, NEW w \in Sweeps, NEW c \in Cohort,
         sweep' = [sweep EXCEPT ![w] = c],
         UNCHANGED <<bootVars, requestVars>>,
         log' \in Seq(Record), ledger' = ledger,
         table' \in [Stores -> Record \cup {NoRow}]
  PROVE  Typed'
BY DEF Typed, TypeOK, HandsTyped, RequestInFlight, bootVars, requestVars

LEMMA EvaluationsTyped ==
  ASSUME NEW U \in SUBSET Stores, NEW batch \in Evaluations(U)
  PROVE  /\ batch \subseteq Record
         /\ \A rec \in batch : ~ Decided(rec)
<1>1. PICK targets \in SUBSET U :
         batch \in {{FreshRecord(s, content[s]) : s \in targets} :
                      content \in [targets -> Contents]}
  BY DEF Evaluations
<1>2. PICK content \in [targets -> Contents] :
         batch = {FreshRecord(s, content[s]) : s \in targets}
  BY <1>1
<1>3. QED
  BY <1>2, FreshRecordTyped

\* The steps that choose what a sweep evaluates touch only its local record.
LEMMA EvaluationStep ==
  ASSUME Typed, NEW w \in Sweeps, FeedSweep(w) \/ BoardSweep(w) \/ BoardTable(w)
  PROVE  /\ UNCHANGED <<durable, bootVars, requestVars>>
         /\ \E c \in Cohort :
               /\ sweep' = [sweep EXCEPT ![w] = c]
               /\ \A rec \in c.todo : rec \in sweep[w].todo \/ ~ Decided(rec)
               /\ c.cur \in {sweep[w].cur, NoRow}
<1>0. sweep[w] \in Cohort /\ sweep \in [Sweeps -> Cohort]
  BY DEF Typed, TypeOK
<1>1. CASE FeedSweep(w)
  <2>1. PICK batch \in Evaluations(Stores) :
           sweep' = [sweep EXCEPT ![w].pc = "evaluated", ![w].todo = batch]
    BY <1>1 DEF FeedSweep
  <2> DEFINE c == [sweep[w] EXCEPT !.pc = "evaluated", !.todo = batch]
  <2>2. batch \subseteq Record /\ \A rec \in batch : ~ Decided(rec)
    BY EvaluationsTyped
  <2>3. c \in Cohort /\ c.todo = batch /\ c.cur = sweep[w].cur
    BY <1>0, <2>2 DEF Cohort, SweepPhases
  <2>4. sweep' = [sweep EXCEPT ![w] = c]
    BY <1>0, <2>1
  <2> HIDE DEF c
  <2>5. QED
    BY <1>1, <2>2, <2>3, <2>4 DEF FeedSweep
<1>2. CASE BoardSweep(w)
  <2> DEFINE logged == {s \in Stores : RecordsOf(s) # {}}
  <2>1. PICK batch \in Evaluations(logged \ DecidedInLog) :
           sweep' = [sweep EXCEPT ![w].pc = "board", ![w].todo = batch,
                                  ![w].decided = logged]
    BY <1>2 DEF BoardSweep
  <2> DEFINE c == [sweep[w] EXCEPT !.pc = "board", !.todo = batch, !.decided = logged]
  <2>2. batch \subseteq Record /\ \A rec \in batch : ~ Decided(rec)
    <3>1. logged \ DecidedInLog \in SUBSET Stores
      OBVIOUS
    <3> HIDE DEF logged
    <3>2. QED
      BY <3>1, EvaluationsTyped
  <2>3. logged \in SUBSET Stores
    OBVIOUS
  <2> HIDE DEF logged
  <2>4. c \in Cohort /\ c.todo = batch /\ c.cur = sweep[w].cur
    BY <1>0, <2>2, <2>3 DEF Cohort, SweepPhases
  <2>5. sweep' = [sweep EXCEPT ![w] = c]
    BY <1>0, <2>1
  <2> HIDE DEF c
  <2>6. QED
    BY <1>2, <2>2, <2>4, <2>5 DEF BoardSweep
<1>3. CASE BoardTable(w)
  <2> DEFINE U == {s \in Stores \ sweep[w].decided :
                     table[s] # NoRow /\ ~ RowDecided(s)}
  <2>1. PICK batch \in Evaluations(U) :
           sweep' = [sweep EXCEPT
                      ![w] = IF sweep[w].todo \cup batch = {} THEN SweepAt("done")
                             ELSE [SweepAt("evaluated") EXCEPT
                                      !.todo = sweep[w].todo \cup batch]]
    BY <1>3 DEF BoardTable
  <2>2. U \in SUBSET Stores
    OBVIOUS
  <2> HIDE DEF U
  <2>3. batch \subseteq Record /\ \A rec \in batch : ~ Decided(rec)
    BY <2>2, EvaluationsTyped
  <2> DEFINE d == [SweepAt("evaluated") EXCEPT !.todo = sweep[w].todo \cup batch]
  <2>4. /\ d \in Cohort /\ d.todo = sweep[w].todo \cup batch /\ d.cur = NoRow
    BY <1>0, <2>3 DEF Cohort, SweepPhases, SweepAt
  <2>5. /\ SweepAt("done") \in Cohort /\ SweepAt("done").todo = {}
        /\ SweepAt("done").cur = NoRow
    BY SweepAtTyped DEF SweepPhases, SweepAt
  <2>6. sweep' = [sweep EXCEPT ![w] = SweepAt("done")]
           \/ sweep' = [sweep EXCEPT ![w] = d]
    BY <2>1
  <2> HIDE DEF d
  <2>7. QED
    BY <1>3, <2>3, <2>4, <2>5, <2>6 DEF BoardTable
<1>4. QED
  BY <1>1, <1>2, <1>3

LEMMA SweepKeepsTypes ==
  ASSUME Typed, NEW w \in Sweeps,
         FeedSweep(w) \/ BoardSweep(w) \/ SweepStep(w)
  PROVE  Typed'
<1> USE DEF durable
<1>0. /\ sweep[w] \in Cohort /\ log \in Seq(Record) /\ sweep \in [Sweeps -> Cohort]
      /\ table \in [Stores -> Record \cup {NoRow}]
  BY DEF Typed, TypeOK
<1>1. CASE FeedSweep(w) \/ BoardSweep(w) \/ BoardTable(w)
  BY <1>0, <1>1, EvaluationStep, LocalSweepTyped DEF Typed, TypeOK
<1>2. CASE SnapshotLog(w)
  <2> DEFINE c == [sweep[w] EXCEPT
                   !.pc = "snapshot",
                   !.seen = {RecommendationId(log[i]) : i \in DOMAIN log},
                   !.decided = DecidedInLog,
                   !.history = log # <<>>]
  <2>1. \A i \in DOMAIN log : RecommendationId(log[i]) \in Stores \X Contents
    <3>1. \A i \in DOMAIN log : log[i] \in Record
      BY <1>0
    <3>2. QED
      BY <3>1 DEF RecommendationId, Record
  <2>2. c \in Cohort
    <3>1. {RecommendationId(log[i]) : i \in DOMAIN log} \subseteq Stores \X Contents
      BY <2>1
    <3>2. DecidedInLog \subseteq Stores /\ (log # <<>>) \in BOOLEAN
      BY DEF DecidedInLog
    <3>3. QED
      BY <1>0, <3>1, <3>2, SnapshotTyped
  <2>3. sweep' = [sweep EXCEPT ![w] = c]
    BY <1>0, <1>2 DEF SnapshotLog
  <2> HIDE DEF c
  <2>4. QED
    BY <1>0, <1>2, <2>2, <2>3, LocalSweepTyped DEF SnapshotLog
<1>3. CASE SnapshotTable(w)
  <2> DEFINE c == [sweep[w] EXCEPT !.pc = "loop",
                      !.decided = sweep[w].decided \cup {s \in Stores : RowDecided(s)}]
  <2>1. c \in Cohort /\ SweepAt("done") \in Cohort
    BY <1>0, SweepAtTyped DEF Cohort, SweepPhases
  <2>2. \/ sweep' = [sweep EXCEPT ![w] = c]
        \/ sweep' = [sweep EXCEPT ![w] = SweepAt("done")]
    BY <1>0, <1>3 DEF SnapshotTable
  <2> HIDE DEF c
  <2>3. QED
    BY <1>0, <1>3, <2>1, <2>2, LocalSweepTyped DEF SnapshotTable
<1>4. ASSUME NEW rec \in sweep[w].todo, LogFresh(w, rec) PROVE Typed'
  <2> DEFINE c == [sweep[w] EXCEPT !.todo = sweep[w].todo \ {rec}]
             d == [sweep[w] EXCEPT !.todo = sweep[w].todo \ {rec}, !.cur = rec, !.pc = "recheck"]
  <2>1. rec \in Record
    BY <1>0 DEF Cohort
  <2>2. c \in Cohort /\ d \in Cohort
    BY <1>0, <2>1 DEF Cohort, SweepPhases
  <2>3. sweep' = [sweep EXCEPT ![w] = c] \/ sweep' = [sweep EXCEPT ![w] = d]
    BY <1>0, <1>4 DEF LogFresh
  <2>4. log' \in Seq(Record)
    BY <1>0, <1>4, <2>1, AppendProperties DEF LogFresh
  <2> HIDE DEF c, d
  <2>5. QED
    BY <1>0, <1>4, <2>2, <2>3, <2>4, LocalSweepTyped DEF LogFresh
<1>5. CASE Recheck(w)
  <2> DEFINE c == [sweep[w] EXCEPT !.pc = IF RowDecided(sweep[w].cur.store)
                                            THEN "loop" ELSE "upsert"]
  <2>1. c \in Cohort
    BY <1>0 DEF Cohort, SweepPhases
  <2>2. sweep' = [sweep EXCEPT ![w] = c]
    BY <1>0, <1>5 DEF Recheck
  <2> HIDE DEF c
  <2>3. QED
    BY <1>0, <1>5, <2>1, <2>2, LocalSweepTyped DEF Recheck
<1>6. CASE UpsertFresh(w)
  <2> DEFINE c == [sweep[w] EXCEPT !.pc = "loop", !.cur = NoRow]
  <2>1. c \in Cohort
    BY <1>0 DEF Cohort, SweepPhases
  <2>2. sweep' = [sweep EXCEPT ![w] = c]
    BY <1>0, <1>6 DEF UpsertFresh
  <2>3. table' \in [Stores -> Record \cup {NoRow}]
    BY <1>0, <1>6, UpsertTyped DEF UpsertFresh, Cohort
  <2> HIDE DEF c
  <2>4. QED
    BY <1>0, <1>6, <2>1, <2>2, <2>3, LocalSweepTyped DEF UpsertFresh
<1>7. CASE SweepEnds(w)
  BY <1>0, <1>7, SweepAtTyped, LocalSweepTyped DEF SweepEnds, SweepPhases
<1>8. QED
  BY <1>1, <1>2, <1>3, <1>4, <1>5, <1>6, <1>7 DEF SweepStep

LEMMA FailureKeepsTypes ==
  ASSUME Typed, Failure
  PROVE  Typed'
<1>1. ASSUME NEW r \in Requests, FailRequest(r) PROVE Typed'
  BY <1>1 DEF FailRequest, durable, bootVars, Typed, TypeOK, HandsTyped,
              RequestInFlight, Phases
<1>2. ASSUME NEW w \in Sweeps, FailSweep(w) PROVE Typed'
  <2>1. SweepAt("failed") \in Cohort
    BY SweepAtTyped DEF SweepPhases
  <2>2. QED
    BY <1>2, <2>1, LocalSweepTyped DEF FailSweep, durable, Typed, TypeOK
<1>3. ASSUME NEW lost \in SUBSET Wipes, Redeploy(lost) PROVE Typed'
  <2>1. sweep' \in [Sweeps -> Cohort]
    BY <1>3, SweepAtTyped DEF Redeploy, Typed, TypeOK, SweepPhases
  <2>2. /\ log' \in Seq(Record) /\ ledger' \in Seq(Record)
        /\ table' \in [Stores -> Record \cup {NoRow}]
        /\ seed' \in [Workers -> [Stores -> Record \cup {NoRow}]]
    <3>1. log' \in Seq(Record) /\ ledger' \in Seq(Record)
      <4>1. log \in Seq(Record) /\ ledger \in Seq(Record)
        BY DEF Typed, TypeOK
      <4>2. (log' = <<>> /\ ledger' = <<>>) \/ (log' = log /\ ledger' = ledger)
        BY <1>3 DEF Redeploy
      <4>3. QED
        BY <4>1, <4>2, EmptySeq
    <3>2. table' \in [Stores -> Record \cup {NoRow}]
      BY <1>3, EmptyTableTyped DEF Redeploy, Typed, TypeOK
    <3>3. seed' \in [Workers -> [Stores -> Record \cup {NoRow}]]
      BY <1>3, EmptyTableTyped DEF Redeploy
    <3>4. QED
      BY <3>1, <3>2, <3>3
  <2>3. restarts' \in 0 .. MaxRestarts
    BY <1>3, ConstantsAssumption DEF Redeploy, Typed, TypeOK
  <2>4. pc' \in [Requests -> Phases] /\ HandsTyped'
    BY <1>3 DEF Redeploy, Typed, TypeOK, HandsTyped, RequestInFlight, Phases
  <2>5. QED
    BY <1>3, <2>1, <2>2, <2>3, <2>4 DEF Redeploy, Typed, TypeOK
<1>4. QED
  BY <1>1, <1>2, <1>3 DEF Failure

LEMMA NextKeepsTypes == Typed /\ [Next]_vars => Typed'
<1> SUFFICES ASSUME Typed, [Next]_vars PROVE Typed'
  OBVIOUS
<1>1. CASE Next
  BY <1>1, BootKeepsTypes, ArrivalKeepsTypes, RequestKeepsTypes,
     SweepKeepsTypes, FailureKeepsTypes DEF Next, Steady
<1>2. CASE UNCHANGED vars
  BY <1>2 DEF vars, durable, bootVars, requestVars, Typed, TypeOK, HandsTyped,
              RequestInFlight
<1>3. QED
  BY <1>1, <1>2

\* Type correctness of the decision loop under every failure: no step hands a
\* missing row to the log, the ledger or the table (app/main.py's handlers).
THEOREM TypeCorrect == Spec => []TypeOK
<1>1. Typed => TypeOK
  BY DEF Typed
<1>2. QED
  BY <1>1, TypedInit, NextKeepsTypes, PTL DEF Spec

-----------------------------------------------------------------------------
(* The audit invariant.  LedgerBackedByLog alone is not inductive: the     *)
(* ledger append needs to know that the record in the request's hand was   *)
(* logged by the step before.  LogOwned says a decided log record belongs  *)
(* to a request past its log append, which makes every decision fresh.     *)

HandsAudited ==
    \A r \in Requests :
       /\ Deciding(r) => Decided(held[r]) /\ held[r].by = r
       /\ pc[r] = "log" => DecisionGate(held[r])
       /\ pc[r] \in {"ledger", "writeback"} => InSeq(held[r], log)
       /\ pc[r] = "writeback" => InSeq(held[r], ledger)
       /\ answer[r] = "decided" => pc[r] = "done"

SweepsUndecided ==
    \A w \in Sweeps :
       /\ \A rec \in sweep[w].todo : ~ Decided(rec)
       /\ sweep[w].cur # NoRow => ~ Decided(sweep[w].cur)

LogOwned ==
    \A i \in DOMAIN log : Decided(log[i]) =>
       \E r \in Requests : /\ log[i].by = r
                           /\ pc[r] \in {"ledger", "writeback", "done", "failed"}

AuditInv == /\ Typed /\ HandsAudited /\ SweepsUndecided /\ LogOwned
            /\ LedgerBackedByLog

LEMMA AuditInit == Init => AuditInv
<1> SUFFICES ASSUME Init PROVE AuditInv
  OBVIOUS
<1>1. Typed
  BY TypedInit
<1>2. HandsAudited
  BY DEF Init, HandsAudited, Deciding
<1>3. SweepsUndecided
  BY DEF Init, SweepsUndecided, SweepAt
<1>4. LogOwned /\ LedgerBackedByLog
  BY DEF Init, LogOwned, LedgerBackedByLog
<1>5. QED
  BY <1>1, <1>2, <1>3, <1>4 DEF AuditInv

\* Steps that leave log, ledger, rules and the requests alone.
LEMMA AuditIdleRequests ==
  ASSUME AuditInv, Typed', SweepsUndecided',
         UNCHANGED <<log, ledger, rules, requestVars>>
  PROVE  AuditInv'
BY DEF AuditInv, HandsAudited, LogOwned, LedgerBackedByLog, Deciding, InSeq,
       requestVars, DecisionGate, VerifyRecommendation, RequiresHumanApproval

LEMMA AuditBoot ==
  ASSUME AuditInv, NEW k \in Workers, BootStep(k)
  PROVE  AuditInv'
<1>1. Typed'
  BY BootKeepsTypes DEF AuditInv
<1>2. SweepsUndecided' /\ UNCHANGED <<log, ledger, rules, requestVars>>
  BY DEF AuditInv, SweepsUndecided, BootStep, BootCheck, BootRead, BootSeed,
         durable
<1>3. QED
  BY <1>1, <1>2, AuditIdleRequests

LEMMA AuditArrival ==
  ASSUME AuditInv, NEW r \in Requests, Arrive(r)
  PROVE  AuditInv'
<1>1. Typed'
  BY ArrivalKeepsTypes DEF AuditInv
<1>2. /\ pc[r] = "idle" /\ answer[r] # "decided"
      /\ UNCHANGED <<log, ledger, bootVars, sweep>>
  BY DEF Arrive, PopMissing, PopRefused, PopPending, Pop, AuditInv, HandsAudited
<1>3. SweepsUndecided'
  BY <1>2 DEF AuditInv, SweepsUndecided
<1>4. LedgerBackedByLog'
  BY <1>2 DEF AuditInv, LedgerBackedByLog, InSeq
<1>5. /\ pc' = [pc EXCEPT ![r] = pc'[r]]
      /\ pc'[r] \in {"look_log", "putback", "log"}
      /\ held' = [held EXCEPT ![r] = held'[r]]
      /\ answer' = [answer EXCEPT ![r] = answer'[r]]
      /\ answer'[r] # "decided"
      /\ pc'[r] = "log" => /\ Decided(held'[r]) /\ held'[r].by = r
                           /\ DecisionGate(held'[r])
  <2>0. /\ table \in [Stores -> Record \cup {NoRow}] /\ pc \in [Requests -> Phases]
        /\ held \in [Requests -> Record \cup {NoRow}]
        /\ answer \in [Requests -> Answers]
    BY DEF AuditInv, Typed, TypeOK
  <2>1. CASE \E s \in Stores : PopMissing(r, s)
    BY <2>0, <2>1, <1>2 DEF PopMissing
  <2>2. CASE \E s \in Stores : PopRefused(r, s)
    BY <2>0, <2>2, <1>2 DEF PopRefused, Refusal
  <2>3. ASSUME NEW s \in Stores, NEW v \in Verbs, PopPending(r, s, v)
        PROVE  /\ pc' = [pc EXCEPT ![r] = "log"] /\ answer' = answer
               /\ held' = [held EXCEPT ![r] = held'[r]]
               /\ Decided(held'[r]) /\ held'[r].by = r /\ DecisionGate(held'[r])
    <3>1. table[s] \in Record /\ Refusal(table[s]) = "none"
      BY <2>0, <2>3 DEF PopPending
    <3>2. DecisionGate(table[s])
      BY <3>1 DEF Refusal
    <3>3. held'[r] = [table[s] EXCEPT !.decision = v, !.by = r]
      BY <2>0, <2>3 DEF PopPending
    <3>4. held'[r].content = table[s].content /\ held'[r].gated = table[s].gated
      BY <3>1, <3>3 DEF Record
    <3>5. DecisionGate(held'[r])
      BY <3>2, <3>4 DEF DecisionGate, VerifyRecommendation, RequiresHumanApproval
    <3>6. Decided(held'[r]) /\ held'[r].by = r
      BY <3>1, <3>3 DEF Record, Decided, Verbs
    <3>7. /\ pc' = [pc EXCEPT ![r] = "log"] /\ answer' = answer
          /\ held' = [held EXCEPT ![r] = held'[r]]
      BY <2>0, <2>3 DEF PopPending
    <3>8. QED
      BY <3>5, <3>6, <3>7
  <2>4. QED
    BY <2>0, <2>1, <2>2, <2>3, <1>2 DEF Arrive
<1>6. HandsAudited'
  <2> SUFFICES ASSUME NEW q \in Requests
               PROVE  /\ Deciding(q)' => Decided(held'[q]) /\ held'[q].by = q
                      /\ pc'[q] = "log" => DecisionGate(held[q])'
                      /\ pc'[q] \in {"ledger", "writeback"} => InSeq(held'[q], log')
                      /\ pc'[q] = "writeback" => InSeq(held'[q], ledger')
                      /\ answer'[q] = "decided" => pc'[q] = "done"
    BY DEF HandsAudited
  <2>1. rules' = rules /\ log' = log /\ ledger' = ledger
    BY <1>2 DEF bootVars
  <2>2. CASE q = r
    BY <1>5, <2>1, <2>2 DEF Deciding, AuditInv, Typed, TypeOK, DecisionGate,
       VerifyRecommendation, RequiresHumanApproval
  <2>3. CASE q # r
    BY <1>5, <2>1, <2>3 DEF Deciding, AuditInv, Typed, TypeOK, HandsAudited,
       DecisionGate, VerifyRecommendation, RequiresHumanApproval
  <2>4. QED
    BY <2>2, <2>3
<1>7. LogOwned'
  BY <1>2, <1>5 DEF AuditInv, Typed, TypeOK, LogOwned
<1>8. QED
  BY <1>1, <1>3, <1>4, <1>6, <1>7 DEF AuditInv

\* Once a request holds a decision, its steps keep holding it.
LEMMA AuditRequest ==
  ASSUME AuditInv, NEW r \in Requests, RequestStep(r)
  PROVE  AuditInv'
<1>0. Typed'
  BY RequestKeepsTypes DEF AuditInv
<1>1. /\ sweep' = sweep /\ rules' = rules /\ held' = held /\ target' = target
      /\ pc \in [Requests -> Phases] /\ answer \in [Requests -> Answers]
      /\ log \in Seq(Record) /\ ledger \in Seq(Record)
      /\ RequestInFlight(r)
  BY DEF RequestStep, PutBack, LookLog, LookTable, AppendLog, AppendDecision,
         WriteBack, bootVars, AuditInv, Typed, TypeOK, RequestInFlight
<1>2. SweepsUndecided'
  BY <1>1 DEF AuditInv, SweepsUndecided
<1>3. answer[r] # "decided"
  BY <1>1 DEF AuditInv, HandsAudited, RequestInFlight
<1>4. CASE AppendLog(r)
  <2>1. /\ held[r] \in Record /\ Decided(held[r]) /\ held[r].by = r
        /\ log' = Append(log, held[r]) /\ ledger' = ledger /\ answer' = answer
        /\ pc[r] = "log" /\ pc' = [pc EXCEPT ![r] = "ledger"]
    BY <1>4 DEF AppendLog, AuditInv, Typed, HandsTyped, HandsAudited, Deciding
  <2>2. /\ InSeq(held[r], log')
        /\ \A x : InSeq(x, log) => InSeq(x, log')
        /\ \A i \in DOMAIN log' : \/ i \in DOMAIN log /\ log'[i] = log[i]
                                  \/ log'[i] = held[r]
    BY <1>1, <2>1, AppendKeeps
  <2>3. HandsAudited'
    BY <1>1, <1>3, <2>1, <2>2 DEF AuditInv, HandsAudited, Deciding, DecisionGate,
       VerifyRecommendation, RequiresHumanApproval
  <2>4. LogOwned'
    BY <1>1, <2>1, <2>2 DEF AuditInv, LogOwned
  <2>5. LedgerBackedByLog'
    BY <2>1, <2>2 DEF AuditInv, LedgerBackedByLog
  <2>6. QED
    BY <1>0, <1>2, <2>3, <2>4, <2>5 DEF AuditInv
<1>5. CASE AppendDecision(r)
  <2>1. /\ held[r] \in Record /\ InSeq(held[r], log)
        /\ Decided(held[r]) /\ held[r].by = r
        /\ ledger' = Append(ledger, held[r]) /\ log' = log /\ answer' = answer
        /\ pc[r] = "ledger" /\ pc' = [pc EXCEPT ![r] = "writeback"]
    BY <1>5 DEF AppendDecision, AuditInv, Typed, HandsTyped, HandsAudited, Deciding
  <2>2. /\ InSeq(held[r], ledger')
        /\ \A x : InSeq(x, ledger) => InSeq(x, ledger')
        /\ \A i \in DOMAIN ledger' : \/ i \in DOMAIN ledger /\ ledger'[i] = ledger[i]
                                     \/ ledger'[i] = held[r]
    BY <1>1, <2>1, AppendKeeps
  <2>3. HandsAudited'
    BY <1>1, <1>3, <2>1, <2>2 DEF AuditInv, HandsAudited, Deciding, DecisionGate,
       VerifyRecommendation, RequiresHumanApproval
  <2>4. LogOwned'
    BY <1>1, <2>1 DEF AuditInv, LogOwned
  <2>5. LedgerBackedByLog'
    BY <2>1, <2>2 DEF AuditInv, LedgerBackedByLog
  <2>6. QED
    BY <1>0, <1>2, <2>3, <2>4, <2>5 DEF AuditInv
<1>6. CASE PutBack(r) \/ LookLog(r) \/ LookTable(r) \/ WriteBack(r)
  <2>1. /\ log' = log /\ ledger' = ledger
        /\ pc' = [pc EXCEPT ![r] = pc'[r]] /\ pc'[r] \in {"done", "look_table"}
        /\ answer' = [answer EXCEPT ![r] = answer'[r]]
        /\ answer'[r] = "decided" => pc'[r] = "done"
    BY <1>1, <1>3, <1>6 DEF PutBack, LookLog, LookTable, WriteBack, durable
  <2>2. HandsAudited'
    BY <1>1, <2>1 DEF AuditInv, HandsAudited, Deciding, DecisionGate,
       VerifyRecommendation, RequiresHumanApproval
  <2>3. LogOwned'
    <3>1. pc[r] \in {"ledger", "writeback", "done", "failed"} => pc'[r] = "done"
      BY <1>1, <1>6, <2>1 DEF PutBack, LookLog, LookTable, WriteBack
    <3>2. QED
      BY <1>1, <2>1, <3>1 DEF AuditInv, LogOwned
  <2>4. LedgerBackedByLog'
    BY <2>1 DEF AuditInv, LedgerBackedByLog
  <2>5. QED
    BY <1>0, <1>2, <2>2, <2>3, <2>4 DEF AuditInv
<1>7. QED
  BY <1>4, <1>5, <1>6 DEF RequestStep

LEMMA AuditSweep ==
  ASSUME AuditInv, NEW w \in Sweeps,
         FeedSweep(w) \/ BoardSweep(w) \/ SweepStep(w)
  PROVE  AuditInv'
<1>0. Typed'
  BY SweepKeepsTypes DEF AuditInv
<1>1. sweep \in [Sweeps -> Cohort] /\ log \in Seq(Record) /\ sweep[w] \in Cohort
  BY DEF AuditInv, Typed, TypeOK
<1>2. CASE \E rec \in sweep[w].todo : LogFresh(w, rec)
  <2>1. PICK rec \in sweep[w].todo : LogFresh(w, rec)
    BY <1>2
  <2>2. /\ rec \in Record /\ ~ Decided(rec)
        /\ log' = log \/ log' = Append(log, rec)
        /\ UNCHANGED <<ledger, rules, requestVars>>
    BY <1>1, <2>1 DEF LogFresh, Cohort, AuditInv, SweepsUndecided, bootVars
  <2>3. /\ \A x : InSeq(x, log) => InSeq(x, log')
        /\ \A i \in DOMAIN log' : \/ i \in DOMAIN log /\ log'[i] = log[i]
                                  \/ log'[i] = rec
    <3>1. CASE log' = log
      BY <3>1 DEF InSeq
    <3>2. CASE log' = Append(log, rec)
      BY <1>1, <2>2, <3>2, AppendKeeps
    <3>3. QED
      BY <2>2, <3>1, <3>2
  <2>4. SweepsUndecided'
    BY <1>1, <2>1, <2>2 DEF LogFresh, AuditInv, SweepsUndecided, Cohort
  <2>5. HandsAudited'
    BY <2>2, <2>3 DEF AuditInv, HandsAudited, Deciding, requestVars, DecisionGate,
       VerifyRecommendation, RequiresHumanApproval
  <2>6. LogOwned'
    BY <2>2, <2>3 DEF AuditInv, LogOwned, requestVars
  <2>7. LedgerBackedByLog'
    BY <2>2, <2>3 DEF AuditInv, LedgerBackedByLog
  <2>8. QED
    BY <1>0, <2>4, <2>5, <2>6, <2>7 DEF AuditInv
<1>3. CASE FeedSweep(w) \/ BoardSweep(w) \/ BoardTable(w)
  <2>1. PICK c \in Cohort :
           /\ sweep' = [sweep EXCEPT ![w] = c]
           /\ \A rec \in c.todo : rec \in sweep[w].todo \/ ~ Decided(rec)
           /\ c.cur \in {sweep[w].cur, NoRow}
    BY <1>3, EvaluationStep DEF AuditInv
  <2>2. SweepsUndecided'
    BY <1>1, <2>1 DEF AuditInv, SweepsUndecided
  <2>3. UNCHANGED <<log, ledger, rules, requestVars>>
    BY <1>3, EvaluationStep DEF AuditInv, durable, bootVars
  <2>4. QED
    BY <1>0, <2>2, <2>3, AuditIdleRequests
<1>4. CASE SnapshotLog(w) \/ SnapshotTable(w) \/ Recheck(w) \/ UpsertFresh(w)
           \/ SweepEnds(w)
  <2>1. UNCHANGED <<log, ledger, rules, requestVars>>
    BY <1>4 DEF SnapshotLog, SnapshotTable, Recheck, UpsertFresh, SweepEnds,
                durable, bootVars
  <2>2. /\ \A v \in Sweeps \ {w} : sweep'[v] = sweep[v]
        /\ sweep'[w].todo \subseteq sweep[w].todo
        /\ sweep'[w].cur \in {sweep[w].cur, NoRow}
    <3>1. CASE Recheck(w) \/ UpsertFresh(w)
      BY <1>1, <3>1 DEF Recheck, UpsertFresh, Cohort
    <3>0. ASSUME NEW seen, NEW decided, NEW history,
                 sweep' = [sweep EXCEPT ![w].pc = "snapshot", ![w].seen = seen,
                             ![w].decided = decided, ![w].history = history]
          PROVE  /\ \A v \in Sweeps \ {w} : sweep'[v] = sweep[v]
                 /\ sweep'[w].todo = sweep[w].todo
                 /\ sweep'[w].cur = sweep[w].cur
      BY <1>1, <3>0 DEF Cohort
    <3>5. CASE SnapshotLog(w)
      BY <3>0, <3>5 DEF SnapshotLog
    <3>2. CASE SweepEnds(w)
      BY <1>1, <3>2 DEF SweepEnds, SweepAt, Cohort
    <3>3. CASE SnapshotTable(w)
      <4>1. \/ sweep' = [sweep EXCEPT ![w] = SweepAt("done")]
            \/ sweep' = [sweep EXCEPT ![w].pc = "loop",
                           ![w].decided = @ \cup {s \in Stores : RowDecided(s)}]
        BY <3>3 DEF SnapshotTable
      <4>2. CASE sweep' = [sweep EXCEPT ![w] = SweepAt("done")]
        BY <1>1, <4>2 DEF SweepAt, Cohort
      <4>3. CASE sweep' = [sweep EXCEPT ![w].pc = "loop",
                           ![w].decided = @ \cup {s \in Stores : RowDecided(s)}]
        BY <1>1, <4>3 DEF Cohort
      <4>4. QED
        BY <4>1, <4>2, <4>3
    <3>4. QED
      BY <1>4, <3>1, <3>2, <3>3, <3>5
  <2>3. SweepsUndecided'
    BY <2>2 DEF AuditInv, SweepsUndecided
  <2>4. QED
    BY <1>0, <2>1, <2>3, AuditIdleRequests
<1>5. QED
  BY <1>2, <1>3, <1>4 DEF SweepStep

LEMMA AuditFailure ==
  ASSUME AuditInv, Failure
  PROVE  AuditInv'
<1>0. Typed'
  BY FailureKeepsTypes DEF AuditInv
<1>1. ASSUME NEW r \in Requests, FailRequest(r) PROVE AuditInv'
  <2>1. /\ pc \in [Requests -> Phases] /\ pc' = [pc EXCEPT ![r] = "failed"]
        /\ RequestInFlight(r)
        /\ UNCHANGED <<log, ledger, rules, held, answer, sweep>>
    BY <1>1 DEF FailRequest, durable, bootVars, AuditInv, Typed, TypeOK
  <2>2. SweepsUndecided' /\ LedgerBackedByLog' /\ LogOwned'
    BY <2>1 DEF AuditInv, SweepsUndecided, LedgerBackedByLog, InSeq, LogOwned
  <2>3. HandsAudited'
    BY <2>1 DEF AuditInv, HandsAudited, Deciding, RequestInFlight, DecisionGate,
       VerifyRecommendation, RequiresHumanApproval
  <2>4. QED
    BY <1>0, <2>2, <2>3 DEF AuditInv
<1>2. ASSUME NEW w \in Sweeps, FailSweep(w) PROVE AuditInv'
  <2>1. SweepsUndecided'
    BY <1>2 DEF FailSweep, AuditInv, Typed, TypeOK, SweepsUndecided, SweepAt
  <2>2. QED
    BY <1>0, <1>2, <2>1, AuditIdleRequests DEF FailSweep, durable, bootVars
<1>3. ASSUME NEW lost \in SUBSET Wipes, Redeploy(lost) PROVE AuditInv'
  <2>1. /\ \A r \in Requests : pc'[r] = IF RequestInFlight(r) THEN "failed" ELSE pc[r]
        /\ held' = held /\ answer' = answer
        /\ \/ log' = log /\ ledger' = ledger
           \/ log' = <<>> /\ ledger' = <<>>
    BY <1>3 DEF Redeploy
  <2>2. \A r \in Requests : pc'[r] \in {"idle", "done", "failed"}
    BY <2>1 DEF RequestInFlight
  <2>3. HandsAudited'
    BY <2>1, <2>2 DEF AuditInv, HandsAudited, Deciding, RequestInFlight
  <2>4. SweepsUndecided'
    BY <1>3 DEF Redeploy, AuditInv, SweepsUndecided, SweepAt
  <2>5. LogOwned' /\ LedgerBackedByLog'
    <3>1. CASE log' = log /\ ledger' = ledger
      BY <2>1, <3>1 DEF AuditInv, LogOwned, LedgerBackedByLog, InSeq, RequestInFlight
    <3>2. CASE log' = <<>> /\ ledger' = <<>>
      BY <3>2 DEF LogOwned, LedgerBackedByLog
    <3>3. QED
      BY <2>1, <3>1, <3>2
  <2>6. QED
    BY <1>0, <2>3, <2>4, <2>5 DEF AuditInv
<1>4. QED
  BY <1>1, <1>2, <1>3 DEF Failure

LEMMA AuditNext == AuditInv /\ [Next]_vars => AuditInv'
<1> SUFFICES ASSUME AuditInv, [Next]_vars PROVE AuditInv'
  OBVIOUS
<1>1. CASE Next
  BY <1>1, AuditBoot, AuditArrival, AuditRequest, AuditSweep, AuditFailure
     DEF Next, Steady
<1>2. CASE UNCHANGED vars
  <2>1. Typed'
    BY <1>2, NextKeepsTypes DEF AuditInv
  <2>2. SweepsUndecided'
    BY <1>2 DEF vars, AuditInv, SweepsUndecided
  <2>3. QED
    BY <1>2, <2>1, <2>2, AuditIdleRequests DEF vars, durable, bootVars
<1>3. QED
  BY <1>1, <1>2

\* The ledger's rebuild invariant (approvals/ledger.py): no failure, race or
\* loss of disk leaves a ledger entry without its decided log record.
THEOREM LedgerIsBacked == Spec => []LedgerBackedByLog
<1>1. AuditInv => LedgerBackedByLog
  BY DEF AuditInv
<1>2. QED
  BY <1>1, AuditInit, AuditNext, PTL DEF Spec

-----------------------------------------------------------------------------
(* The refinement: each step of the loop is a step of DecisionAudit.       *)

LEMMA AppendToDecided ==
  ASSUME NEW q \in Seq(Record), NEW e \in Record
  PROVE  /\ Decided(e) => DecidedIn(Append(q, e)) = DecidedIn(q) \cup {e}
         /\ ~ Decided(e) => DecidedIn(Append(q, e)) = DecidedIn(q)
<1> DEFINE a == Append(q, e)
<1>1. /\ \A i \in 1 .. Len(q) : a[i] = q[i]
      /\ a[Len(q) + 1] = e
      /\ Len(q) \in Nat
      /\ DOMAIN q = 1 .. Len(q) /\ DOMAIN a = 1 .. (Len(q) + 1)
  BY AppendProperties
<1> HIDE DEF a
<1>2. {a[i] : i \in DOMAIN a} = {q[i] : i \in DOMAIN q} \cup {e}
  BY <1>1
<1>3. QED
  BY <1>2 DEF DecidedIn, a

LEMMA InDecided ==
  ASSUME NEW rec, NEW q, InSeq(rec, q), Decided(rec)
  PROVE  rec \in DecidedIn(q)
BY DEF InSeq, DecidedIn

AuditVars == <<DecidedIn(log), DecidedIn(ledger), {held[r] : r \in AckedRequests}>>

LEMMA AuditInitRefines == Init => Audit!Init
BY DEF Init, Audit!Init, DecidedIn, AckedRequests

\* Steps that neither append nor acknowledge stutter.
LEMMA AuditStutters ==
  ASSUME UNCHANGED <<log, ledger>>, AckedRequests' = AckedRequests,
         \A r \in AckedRequests : held'[r] = held[r]
  PROVE  UNCHANGED Audit!vars
BY DEF Audit!vars, DecidedIn, AckedRequests

LEMMA RequestRefines ==
  ASSUME AuditInv, NEW r \in Requests, Arrive(r) \/ RequestStep(r)
  PROVE  [Audit!Next]_(Audit!vars)
<1>1. /\ pc \in [Requests -> Phases] /\ answer \in [Requests -> Answers]
      /\ held \in [Requests -> Record \cup {NoRow}]
      /\ log \in Seq(Record) /\ ledger \in Seq(Record)
      /\ pc[r] # "done" => answer[r] # "decided"
  BY DEF AuditInv, Typed, TypeOK, HandsAudited
<1>2. CASE Arrive(r)
  <2>1. /\ UNCHANGED <<log, ledger>> /\ pc[r] = "idle"
        /\ \A q \in Requests \ {r} : /\ pc'[q] = pc[q] /\ answer'[q] = answer[q]
                                     /\ held'[q] = held[q]
        /\ pc'[r] # "done"
    BY <1>1, <1>2 DEF Arrive, PopMissing, PopRefused, PopPending, Pop
  <2>2. QED
    BY <2>1, AuditStutters DEF AckedRequests
<1>3. CASE PutBack(r) \/ LookLog(r) \/ LookTable(r)
  <2>1. /\ UNCHANGED <<log, ledger, held>>
        /\ \A q \in Requests \ {r} : pc'[q] = pc[q] /\ answer'[q] = answer[q]
        /\ pc[r] # "done" /\ answer'[r] # "decided"
    BY <1>1, <1>3 DEF PutBack, LookLog, LookTable, durable
  <2>2. QED
    BY <2>1, AuditStutters DEF AckedRequests
<1>4. CASE AppendLog(r)
  <2>1. /\ held[r] \in Record /\ Decided(held[r]) /\ held[r].by = r
        /\ log' = Append(log, held[r])
        /\ UNCHANGED <<ledger, held, answer>>
        /\ pc[r] = "log" /\ pc' = [pc EXCEPT ![r] = "ledger"]
    BY <1>4 DEF AppendLog, AuditInv, Typed, HandsTyped, HandsAudited, Deciding
  <2>2. DecidedIn(log') = DecidedIn(log) \cup {held[r]}
    BY <1>1, <2>1, AppendToDecided
  <2>3. held[r] \notin DecidedIn(log)
    BY <1>1, <2>1 DEF DecidedIn, AuditInv, LogOwned
  <2>4. AckedRequests' = AckedRequests /\ DecidedIn(ledger)' = DecidedIn(ledger)
    BY <1>1, <2>1 DEF AckedRequests, DecidedIn
  <2>5. Audit!Record(held[r])
    BY <2>1, <2>2, <2>3, <2>4 DEF Audit!Record, DecidedIn
  <2>6. QED
    BY <2>1, <2>5 DEF Audit!Next
<1>5. CASE AppendDecision(r)
  <2>1. /\ held[r] \in Record /\ Decided(held[r]) /\ InSeq(held[r], log)
        /\ ledger' = Append(ledger, held[r])
        /\ UNCHANGED <<log, held, answer>>
        /\ pc[r] = "ledger" /\ pc' = [pc EXCEPT ![r] = "writeback"]
    BY <1>5 DEF AppendDecision, AuditInv, Typed, HandsTyped, HandsAudited, Deciding
  <2>2. DecidedIn(ledger') = DecidedIn(ledger) \cup {held[r]}
    BY <1>1, <2>1, AppendToDecided
  <2>3. held[r] \in DecidedIn(log)
    BY <2>1, InDecided
  <2>4. AckedRequests' = AckedRequests /\ DecidedIn(log)' = DecidedIn(log)
    BY <1>1, <2>1 DEF AckedRequests, DecidedIn
  <2>5. Audit!Audit(held[r])
    BY <2>1, <2>2, <2>3, <2>4 DEF Audit!Audit, DecidedIn
  <2>6. QED
    BY <2>1, <2>5 DEF Audit!Next
<1>6. CASE WriteBack(r)
  <2>1. /\ held[r] \in Record /\ Decided(held[r]) /\ InSeq(held[r], ledger)
        /\ UNCHANGED <<log, ledger, held>>
        /\ pc' = [pc EXCEPT ![r] = "done"]
        /\ answer' = [answer EXCEPT ![r] = "decided"]
    BY <1>6 DEF WriteBack, AuditInv, Typed, HandsTyped, HandsAudited, Deciding
  <2>2. AckedRequests' = AckedRequests \cup {r}
    BY <1>1, <2>1 DEF AckedRequests
  <2>3. held[r] \in DecidedIn(ledger)
    BY <2>1, InDecided
  <2>4. {held[q] : q \in AckedRequests}' = {held[q] : q \in AckedRequests} \cup {held[r]}
    BY <2>1, <2>2
  <2>5. PICK d \in {rec \in Record : Decided(rec)} : d = held[r]
    BY <2>1
  <2>6. Audit!Acknowledge(d)
    BY <2>1, <2>3, <2>4, <2>5 DEF Audit!Acknowledge, DecidedIn
  <2>7. QED
    BY <2>6 DEF Audit!Next
<1>7. QED
  BY <1>2, <1>3, <1>4, <1>5, <1>6 DEF RequestStep

LEMMA SweepRefines ==
  ASSUME AuditInv, NEW w \in Sweeps,
         FeedSweep(w) \/ BoardSweep(w) \/ SweepStep(w)
  PROVE  UNCHANGED Audit!vars
<1>1. /\ UNCHANGED <<ledger, held, pc, answer>>
      /\ log' = log \/ \E rec \in sweep[w].todo : log' = Append(log, rec)
  BY DEF FeedSweep, BoardSweep, BoardTable, SweepStep, SnapshotLog, SnapshotTable,
         LogFresh, Recheck, UpsertFresh, SweepEnds, durable, requestVars
<1>2. DecidedIn(log') = DecidedIn(log)
  <2>1. CASE log' = log
    BY <2>1
  <2>2. ASSUME NEW rec \in sweep[w].todo, log' = Append(log, rec)
        PROVE  DecidedIn(log') = DecidedIn(log)
    BY <2>2, AppendToDecided DEF AuditInv, Typed, TypeOK, Cohort, SweepsUndecided
  <2>3. QED
    BY <1>1, <2>1, <2>2
<1>3. QED
  BY <1>1, <1>2 DEF Audit!vars, DecidedIn, AckedRequests

LEMMA FailureRefines ==
  ASSUME AuditInv, Failure
  PROVE  [Audit!Next]_(Audit!vars)
<1>1. ASSUME NEW r \in Requests, FailRequest(r) PROVE UNCHANGED Audit!vars
  <2>1. /\ UNCHANGED <<log, ledger, held, answer>> /\ pc \in [Requests -> Phases]
        /\ pc' = [pc EXCEPT ![r] = "failed"] /\ pc[r] # "done"
    BY <1>1 DEF FailRequest, durable, RequestInFlight, AuditInv, Typed, TypeOK
  <2>2. QED
    BY <2>1, AuditStutters DEF AckedRequests
<1>2. ASSUME NEW w \in Sweeps, FailSweep(w) PROVE UNCHANGED Audit!vars
  BY <1>2, AuditStutters DEF FailSweep, durable, requestVars, AckedRequests
<1>3. ASSUME NEW lost \in SUBSET Wipes, Redeploy(lost)
      PROVE  Audit!LoseDisk \/ UNCHANGED Audit!vars
  <2>1. /\ UNCHANGED <<held, answer>> /\ AckedRequests' = AckedRequests
        /\ \/ log' = log /\ ledger' = ledger
           \/ log' = <<>> /\ ledger' = <<>>
    BY <1>3 DEF Redeploy, RequestInFlight, AckedRequests
  <2>2. CASE log' = log /\ ledger' = ledger
    BY <2>1, <2>2, AuditStutters
  <2>3. CASE log' = <<>> /\ ledger' = <<>>
    <3>1. DecidedIn(log') = {} /\ DecidedIn(ledger') = {}
      BY <2>3 DEF DecidedIn
    <3>2. {held[r] : r \in AckedRequests}' = {held[r] : r \in AckedRequests}
      BY <2>1
    <3>3. QED
      BY <3>1, <3>2 DEF Audit!LoseDisk, DecidedIn
  <2>4. QED
    BY <2>1, <2>2, <2>3
<1>4. QED
  BY <1>1, <1>2, <1>3 DEF Failure, Audit!Next

LEMMA NextRefines == AuditInv /\ [Next]_vars => [Audit!Next]_(Audit!vars)
<1> SUFFICES ASSUME AuditInv, [Next]_vars PROVE [Audit!Next]_(Audit!vars)
  OBVIOUS
<1>1. ASSUME NEW k \in Workers, BootStep(k) PROVE UNCHANGED Audit!vars
  BY <1>1, AuditStutters DEF BootStep, BootCheck, BootRead, BootSeed, durable,
     requestVars, AckedRequests
<1>2. CASE UNCHANGED vars
  BY <1>2, AuditStutters DEF vars, durable, requestVars, AckedRequests
<1>3. QED
  BY <1>1, <1>2, RequestRefines, SweepRefines, FailureRefines DEF Next, Steady

\* The loop implements the abstract audit trail: a decision is recorded once,
\* audited after it is recorded and acknowledged after it is audited, whatever
\* races, dies or is redeployed (app/main.py, approve_recommendation).
THEOREM LoopImplementsAudit == Spec => ImplementsAudit
<1>1. AuditInv /\ [Next]_vars => [Audit!Next]_(Audit!vars)
  BY NextRefines
<1>2. QED
  BY <1>1, AuditInit, AuditNext, AuditInitRefines, PTL
     DEF Spec, ImplementsAudit, Audit!Spec

-----------------------------------------------------------------------------
(* Every decision the log receives passed the gate of the rules in force.  *)

\* The only records a step that does not fail can add to the log.
LEMMA SteadyGrowth ==
  ASSUME AuditInv, Steady
  PROVE  \/ log' = log
         \/ \E e \in Record : /\ log' = Append(log, e)
                              /\ Decided(e) => DecisionGate(e)
<1>1. ASSUME NEW r \in Requests, RequestStep(r)
      PROVE  log' = log \/ (/\ log' = Append(log, held[r]) /\ held[r] \in Record
                            /\ DecisionGate(held[r]))
  BY <1>1 DEF RequestStep, PutBack, LookLog, LookTable, AppendLog, AppendDecision,
              WriteBack, durable, AuditInv, Typed, HandsTyped, HandsAudited
<1>2. ASSUME NEW w \in Sweeps, SweepStep(w)
      PROVE  log' = log \/ \E e \in Record : log' = Append(log, e) /\ ~ Decided(e)
  BY <1>2 DEF SweepStep, BoardTable, SnapshotLog, SnapshotTable, LogFresh, Recheck, UpsertFresh,
              SweepEnds, durable, AuditInv, Typed, TypeOK, Cohort, SweepsUndecided
<1>3. ASSUME NEW k \in Workers, BootStep(k) PROVE log' = log
  BY <1>3 DEF BootStep, BootCheck, BootRead, BootSeed, durable
<1>4. ASSUME NEW r \in Requests, Arrive(r) PROVE log' = log
  BY <1>4 DEF Arrive, PopMissing, PopRefused, PopPending, Pop
<1>5. ASSUME NEW w \in Sweeps, FeedSweep(w) \/ BoardSweep(w) PROVE log' = log
  BY <1>5 DEF FeedSweep, BoardSweep, BoardTable, durable
<1>6. QED
  BY <1>1, <1>2, <1>3, <1>4, <1>5 DEF Steady

\* A failure keeps the log, or a redeploy loses all of it.
LEMMA LogGrowth ==
  ASSUME AuditInv, [Next]_vars
  PROVE  \/ log' = log \/ ("log" \in Wipes /\ log' = <<>>)
         \/ \E e \in Record : /\ log' = Append(log, e)
                              /\ Decided(e) => DecisionGate(e)
<1>1. ASSUME Failure PROVE log' = log \/ ("log" \in Wipes /\ log' = <<>>)
  BY <1>1 DEF Failure, FailRequest, FailSweep, Redeploy, durable
<1>2. UNCHANGED vars => log' = log
  BY DEF vars, durable
<1>3. QED
  BY <1>1, <1>2, SteadyGrowth DEF Next

LEMMA GateStep ==
  ASSUME AuditInv, [Next]_vars, NEW i \in DOMAIN log' \ DOMAIN log
  PROVE  Decided(log'[i]) => DecisionGate(log'[i])
<1>1. log \in Seq(Record)
  BY DEF AuditInv, Typed, TypeOK
<1>2. ASSUME NEW e \in Record, log' = Append(log, e), Decided(e) => DecisionGate(e)
      PROVE  Decided(log'[i]) => DecisionGate(log'[i])
  <2>1. log'[i] = e
    BY <1>1, <1>2, AppendKeeps
  <2>2. QED
    BY <1>2, <2>1
<1>3. QED
  BY <1>2, LogGrowth

\* decision_gate (approvals/ledger.py): a rule-set change between a
\* recommendation and its decision never legitimises an ungated action.
THEOREM DecisionsAreGated == Spec => DecisionsPassCurrentGate
<1>1. AuditInv /\ [Next]_vars
         => [\A i \in DOMAIN log' \ DOMAIN log :
                Decided(log'[i]) => DecisionGate(log'[i])]_vars
  BY GateStep
<1>2. QED
  BY <1>1, AuditInit, AuditNext, PTL DEF Spec, DecisionsPassCurrentGate

-----------------------------------------------------------------------------
(* Decided rows of the table are decisions the log has, as long as the log *)
(* is never lost.  The rows a request will put back and the backfill in a  *)
(* worker's hand must be on record too.                                    *)

OnRecord(rec) == (rec # NoRow /\ Decided(rec)) => InSeq(rec, log)

RowsOnRecord ==
    /\ \A s \in Stores : OnRecord(table[s])
    /\ \A k \in Workers, s \in Stores : OnRecord(seed[k][s])
    /\ \A r \in Requests : pc[r] = "putback" => OnRecord(held[r])

RowInv == AuditInv /\ ("log" \notin Wipes => RowsOnRecord)

\* The log only grows while it cannot be lost.
LEMMA RecordsStay ==
  ASSUME AuditInv, [Next]_vars, "log" \notin Wipes, NEW x, InSeq(x, log)
  PROVE  InSeq(x, log')
<1>1. log \in Seq(Record)
  BY DEF AuditInv, Typed, TypeOK
<1>2. CASE log' = log
  BY <1>2 DEF InSeq
<1>3. CASE \E e \in Record : log' = Append(log, e)
  BY <1>1, <1>3, AppendKeeps
<1>4. QED
  BY <1>2, <1>3, LogGrowth

LEMMA RowInit == Init => RowInv
BY AuditInit DEF Init, RowInv, RowsOnRecord, OnRecord, EmptyTable

\* What the next table, seeds and put-backs may contain, in a step that loses
\* no record of the log.
LEMMA RowSources ==
  ASSUME AuditInv, [Next]_vars, RowsOnRecord,
         \A x : InSeq(x, log) => InSeq(x, log')
  PROVE  RowsOnRecord'
<1>0. /\ AuditInv /\ log \in Seq(Record)
      /\ table \in [Stores -> Record \cup {NoRow}]
      /\ seed \in [Workers -> [Stores -> Record \cup {NoRow}]]
      /\ pc \in [Requests -> Phases] /\ held \in [Requests -> Record \cup {NoRow}]
      /\ sweep \in [Sweeps -> Cohort]
  BY DEF AuditInv, Typed, TypeOK
<1>1. \A x : OnRecord(x) => OnRecord(x)'
  BY DEF OnRecord
<1>2. ASSUME NEW k \in Workers, BootStep(k) PROVE RowsOnRecord'
  <2>1. pc' = pc /\ held' = held
    BY <1>2 DEF BootStep, BootCheck, BootRead, BootSeed, requestVars
  <2>2. \A s \in Stores : table'[s] \in {table[s], seed[k][s]}
    BY <1>0, <1>2 DEF BootStep, BootCheck, BootRead, BootSeed, durable
  <2>3. \A j \in Workers, s \in Stores :
           seed'[j][s] \in {seed[j][s], LastRecord(s), NoRow}
    BY <1>0, <1>2 DEF BootStep, BootCheck, BootRead, BootSeed, EmptyTable
  <2>4. \A s \in Stores : OnRecord(LastRecord(s)) /\ OnRecord(NoRow)
    BY <1>0, LastRecordInLog DEF OnRecord
  <2>5. QED
    BY <1>1, <2>1, <2>2, <2>3, <2>4 DEF RowsOnRecord
<1>3. ASSUME NEW r \in Requests, Arrive(r) PROVE RowsOnRecord'
  <2>1. /\ seed' = seed
        /\ \A s \in Stores : table'[s] \in {table[s], NoRow}
        /\ \A q \in Requests : pc'[q] = "putback" =>
              \/ pc[q] = "putback" /\ held'[q] = held[q]
              \/ \E s \in Stores : held'[q] = table[s]
    BY <1>0, <1>3 DEF Arrive, PopMissing, PopRefused, PopPending, Pop, bootVars
  <2>2. OnRecord(NoRow)
    BY DEF OnRecord
  <2>3. QED
    BY <1>1, <2>1, <2>2 DEF RowsOnRecord
<1>4. ASSUME NEW r \in Requests, RequestStep(r) PROVE RowsOnRecord'
  <2>1. /\ seed' = seed /\ held' = held
        /\ \A q \in Requests : pc'[q] = "putback" => pc[q] = "putback"
    BY <1>0, <1>4 DEF RequestStep, PutBack, LookLog, LookTable, AppendLog,
       AppendDecision, WriteBack, bootVars
  <2>2. \A s \in Stores :
           \/ table'[s] = table[s]
           \/ (pc[r] \in {"putback", "writeback"} /\ table'[s] = held[r])
    BY <1>0, <1>4 DEF RequestStep, PutBack, LookLog, LookTable, AppendLog,
       AppendDecision, WriteBack, durable, Upsert
  <2>3. pc[r] \in {"putback", "writeback"} => OnRecord(held[r])
    BY <1>0 DEF RowsOnRecord, OnRecord, AuditInv, HandsAudited
  <2>4. QED
    BY <1>1, <2>1, <2>2, <2>3 DEF RowsOnRecord
<1>5. ASSUME NEW w \in Sweeps, FeedSweep(w) \/ BoardSweep(w) \/ SweepStep(w)
      PROVE  RowsOnRecord'
  <2>1. seed' = seed /\ held' = held /\ pc' = pc
    BY <1>5 DEF FeedSweep, BoardSweep, BoardTable, SweepStep, SnapshotLog,
       SnapshotTable, LogFresh, Recheck, UpsertFresh, SweepEnds, bootVars, requestVars
  <2>2. \A s \in Stores : table'[s] \in {table[s], sweep[w].cur}
    BY <1>0, <1>5 DEF FeedSweep, BoardSweep, BoardTable, SweepStep, SnapshotLog,
       SnapshotTable, LogFresh, Recheck, UpsertFresh, SweepEnds, durable, Upsert
  <2>3. OnRecord(sweep[w].cur)
    BY <1>0 DEF AuditInv, SweepsUndecided, OnRecord
  <2>4. QED
    BY <1>1, <2>1, <2>2, <2>3 DEF RowsOnRecord
<1>6. ASSUME Failure PROVE RowsOnRecord'
  <2>1. /\ held' = held
        /\ \A q \in Requests : pc'[q] = "putback" => pc[q] = "putback"
        /\ \A s \in Stores : table'[s] \in {table[s], NoRow}
        /\ \A k \in Workers, s \in Stores : seed'[k][s] \in {seed[k][s], NoRow}
    BY <1>0, <1>6 DEF Failure, FailRequest, FailSweep, Redeploy, durable, bootVars,
       requestVars, EmptyTable, RequestInFlight
  <2>2. OnRecord(NoRow)
    BY DEF OnRecord
  <2>3. QED
    BY <1>1, <2>1, <2>2 DEF RowsOnRecord
<1>7. UNCHANGED vars => RowsOnRecord'
  BY DEF vars, durable, bootVars, requestVars, RowsOnRecord, OnRecord, InSeq
<1>8. QED
  BY <1>2, <1>3, <1>4, <1>5, <1>6, <1>7 DEF Next, Steady

LEMMA RowNext == RowInv /\ [Next]_vars => RowInv'
BY AuditNext, RowSources, RecordsStay DEF RowInv

\* The table never shows a decision the system of record lacks (app/state.py:
\* "System of record stays the append-only recommendation log").
THEOREM DecidedRowsAreOnRecord == Spec => []DecidedRowOnRecord
<1>1. RowInv => DecidedRowOnRecord
  BY DEF RowInv, RowsOnRecord, OnRecord, DecidedRowOnRecord, RowDecided
<1>2. QED
  BY <1>1, RowInit, RowNext, PTL DEF Spec

-----------------------------------------------------------------------------
(* The start-up.  Until a worker is up nothing is in flight, and whoever    *)
(* backfills found the table empty and holds the last records of a log     *)
(* that nobody appends to.  So the backfill of a worker that is first up   *)
(* restores the log's rows and replaces none.                              *)

NothingInFlight ==
    /\ \A r \in Requests : ~ RequestInFlight(r)
    /\ \A w \in Sweeps : ~ SweepInFlight(w)

SeedsInHand ==
    \A k \in Workers : boot[k] = "seed" =>
       \A s \in Stores : seed[k][s] = LastRecord(s)

QuietStart ==
    ~ Serving =>
       /\ \A k \in Workers : boot[k] \in {"read", "seed"} => table = EmptyTable
       /\ SeedsInHand
       /\ NothingInFlight

QuietInv == AuditInv /\ QuietStart

LEMMA QuietInit == Init => QuietInv
BY AuditInit DEF Init, QuietInv, QuietStart, SeedsInHand, NothingInFlight,
   RequestInFlight, SweepInFlight, SweepAt

\* A step taken before any worker is up is a start-up step or a failure.
LEMMA NothingRunsUnlessUp ==
  ASSUME QuietInv, ~ Serving
  PROVE  /\ \A r \in Requests : ~ Arrive(r) /\ ~ RequestStep(r)
         /\ \A w \in Sweeps : ~ FeedSweep(w) /\ ~ BoardSweep(w) /\ ~ SweepStep(w)
<1>1. NothingInFlight
  BY DEF QuietInv, QuietStart
<1>2. \A r \in Requests : ~ Arrive(r)
  BY DEF Arrive, PopMissing, PopRefused, PopPending, Pop
<1>3. \A w \in Sweeps : ~ FeedSweep(w) /\ ~ BoardSweep(w)
  BY DEF FeedSweep, BoardSweep
<1>4. \A r \in Requests : ~ RequestStep(r)
  BY <1>1 DEF NothingInFlight, RequestInFlight, RequestStep, PutBack, LookLog,
         LookTable, AppendLog, AppendDecision, WriteBack
<1>5. \A w \in Sweeps : ~ SweepStep(w)
  BY <1>1 DEF NothingInFlight, SweepInFlight, SweepStep, BoardTable, SnapshotLog,
         SnapshotTable, LogFresh, Recheck, UpsertFresh, SweepEnds
<1>6. QED
  BY <1>2, <1>3, <1>4, <1>5

\* The steps of a start-up, seen from outside: BootSeed ends in "up".
LEMMA BootEffect ==
  ASSUME Typed, NEW k \in Workers, BootStep(k)
  PROVE  /\ boot[k] # "up" /\ log' = log /\ pc' = pc /\ sweep' = sweep
         /\ \A j \in Workers \ {k} : boot'[j] = boot[j] /\ seed'[j] = seed[j]
         /\ \/ /\ boot'[k] = "read" /\ table' = table /\ table = EmptyTable
            \/ /\ boot'[k] = "up" /\ table' = table /\ table # EmptyTable
            \/ /\ boot[k] = "read" /\ boot'[k] = "seed" /\ table' = table
               /\ \A s \in Stores : seed'[k][s] = LastRecord(s)
            \/ /\ boot[k] = "seed" /\ boot'[k] = "up"
               /\ \A s \in Stores : table'[s] = IF seed[k][s] = NoRow THEN table[s]
                                                                      ELSE seed[k][s]
<1>0. /\ boot \in [Workers -> {"down", "read", "seed", "up"}]
      /\ seed \in [Workers -> [Stores -> Record \cup {NoRow}]]
  BY DEF Typed, TypeOK
<1>1. CASE BootCheck(k)
  BY <1>0, <1>1 DEF BootCheck, durable, requestVars
<1>2. CASE BootRead(k)
  BY <1>0, <1>2 DEF BootRead, durable, requestVars
<1>3. CASE BootSeed(k)
  BY <1>0, <1>3 DEF BootSeed, requestVars
<1>4. QED
  BY <1>1, <1>2, <1>3 DEF BootStep

\* A failure before any worker is up is a redeploy.
LEMMA QuietFailure ==
  ASSUME QuietInv, Failure PROVE QuietStart'
<1>0. pc \in [Requests -> Phases] /\ sweep \in [Sweeps -> Cohort]
  BY DEF QuietInv, AuditInv, Typed, TypeOK
<1>1. ASSUME NEW lost \in SUBSET Wipes, Redeploy(lost) PROVE QuietStart'
  <2>1. NothingInFlight'
    BY <1>0, <1>1 DEF Redeploy, NothingInFlight, RequestInFlight, SweepInFlight, SweepAt
  <2>2. \A k \in Workers : boot'[k] = "down"
    BY <1>1 DEF Redeploy
  <2>3. QED
    BY <2>1, <2>2 DEF QuietStart, SeedsInHand
<1>2. ASSUME NEW r \in Requests, FailRequest(r) PROVE QuietStart'
  <2>1. Serving /\ boot' = boot
    BY <1>2 DEF FailRequest, QuietInv, QuietStart, NothingInFlight, bootVars
  <2>2. QED
    BY <2>1 DEF QuietStart, Serving
<1>3. ASSUME NEW w \in Sweeps, FailSweep(w) PROVE QuietStart'
  <2>1. Serving /\ boot' = boot
    BY <1>3 DEF FailSweep, QuietInv, QuietStart, NothingInFlight, bootVars
  <2>2. QED
    BY <2>1 DEF QuietStart, Serving
<1>4. QED
  BY <1>1, <1>2, <1>3 DEF Failure

LEMMA QuietBoot ==
  ASSUME QuietInv, NEW k \in Workers, BootStep(k) PROVE QuietStart'
<1> SUFFICES ASSUME ~ Serving' PROVE QuietStart'
  BY DEF QuietStart
<1>0. Typed
  BY DEF QuietInv, AuditInv
<1>1. boot'[k] # "up"
  BY DEF Serving
<1>2. ~ Serving
  BY <1>0, <1>1, BootEffect DEF Serving
<1>3. /\ \A j \in Workers : boot[j] \in {"read", "seed"} => table = EmptyTable
      /\ SeedsInHand /\ NothingInFlight
  BY <1>2 DEF QuietInv, QuietStart
<1>4. NothingInFlight'
  BY <1>0, <1>3, BootEffect DEF NothingInFlight, RequestInFlight, SweepInFlight
<1>5. \A s \in Stores : LastRecord(s)' = LastRecord(s)
  <2>1. log' = log
    BY <1>0, BootEffect
  <2>2. QED
    BY <2>1 DEF LastRecord, RecordsOf
<1>6. SeedsInHand'
  BY <1>0, <1>1, <1>3, <1>5, BootEffect DEF SeedsInHand
<1>7. \A j \in Workers : boot'[j] \in {"read", "seed"} => table' = EmptyTable
  BY <1>0, <1>1, <1>3, BootEffect
<1>8. EmptyTable' = EmptyTable
  BY DEF EmptyTable
<1>9. QED
  BY <1>4, <1>6, <1>7, <1>8 DEF QuietStart

LEMMA QuietNext ==
  ASSUME QuietInv, [Next]_vars PROVE QuietInv'
<1> SUFFICES QuietStart'
  BY AuditNext DEF QuietInv
<1>1. CASE \E k \in Workers : BootStep(k)
  BY <1>1, QuietBoot
<1>2. CASE /\ boot' = boot
           /\ \/ \E r \in Requests : Arrive(r) \/ RequestStep(r)
              \/ \E w \in Sweeps : FeedSweep(w) \/ BoardSweep(w) \/ SweepStep(w)
  <2>1. Serving
    BY <1>2, NothingRunsUnlessUp
  <2>2. QED
    BY <1>2, <2>1 DEF QuietStart, Serving
<1>3. ASSUME NEW r \in Requests, Arrive(r) \/ RequestStep(r)
      PROVE  boot' = boot
  BY <1>3 DEF Arrive, PopMissing, PopRefused, PopPending, Pop, RequestStep, PutBack,
     LookLog, LookTable, AppendLog, AppendDecision, WriteBack, bootVars
<1>4. ASSUME NEW w \in Sweeps, FeedSweep(w) \/ BoardSweep(w) \/ SweepStep(w)
      PROVE  boot' = boot
  BY <1>4 DEF FeedSweep, BoardSweep, BoardTable, SweepStep, SnapshotLog,
     SnapshotTable, LogFresh, Recheck, UpsertFresh, SweepEnds, bootVars
<1>5. CASE UNCHANGED vars
  BY <1>5 DEF vars, durable, bootVars, requestVars, QuietInv, QuietStart, Serving,
     EmptyTable, SeedsInHand, LastRecord, RecordsOf, NothingInFlight,
     RequestInFlight, SweepInFlight
<1>6. QED
  BY <1>1, <1>2, <1>3, <1>4, <1>5, QuietFailure DEF Next, Steady

\* A step other than a redeploy that changes a decided row in place is the
\* backfill of a worker that starts up when another is up already.
LEMMA DecidedRowStays ==
  ASSUME QuietInv, [Next]_vars, NEW s \in Stores, RowDecided(s)
  PROVE  \/ table'[s] \in {table[s], NoRow}
         \/ \E k, j \in Workers : /\ k # j /\ Up(j)
                                  /\ boot[k] = "seed" /\ Up(k)'
                                  /\ table'[s] = seed[k][s]
<1>0. table \in [Stores -> Record \cup {NoRow}] /\ table # EmptyTable /\ Typed
  BY DEF QuietInv, AuditInv, Typed, TypeOK, RowDecided, EmptyTable
<1>1. ASSUME NEW k \in Workers, BootStep(k), table'[s] # table[s]
      PROVE  \E j \in Workers : /\ k # j /\ Up(j)
                                /\ boot[k] = "seed" /\ Up(k)'
                                /\ table'[s] = seed[k][s]
  <2>1. boot[k] = "seed" /\ boot'[k] = "up" /\ table'[s] = seed[k][s]
    BY <1>0, <1>1, BootEffect
  <2>2. Serving
    BY <1>0, <2>1 DEF QuietInv, QuietStart
  <2>3. QED
    BY <2>1, <2>2 DEF Serving, Up
<1>2. ASSUME NEW r \in Requests, Arrive(r) PROVE table'[s] \in {table[s], NoRow}
  BY <1>0, <1>2 DEF Arrive, PopMissing, PopRefused, PopPending, Pop
<1>3. ASSUME NEW t, NEW rec, table' = Upsert(t, rec)
      PROVE  table'[s] = table[s]
  BY <1>0, <1>3 DEF Upsert, RowDecided
<1>4. ASSUME NEW r \in Requests, RequestStep(r)
      PROVE  table' = table \/ table' = Upsert(target[r], held[r])
  BY <1>4 DEF RequestStep, PutBack, LookLog, LookTable, AppendLog, AppendDecision,
     WriteBack, durable
<1>5. ASSUME NEW w \in Sweeps, FeedSweep(w) \/ BoardSweep(w) \/ SweepStep(w)
      PROVE  table' = table \/ table' = Upsert(sweep[w].cur.store, sweep[w].cur)
  BY <1>5 DEF FeedSweep, BoardSweep, BoardTable, SweepStep, SnapshotLog,
     SnapshotTable, LogFresh, Recheck, UpsertFresh, SweepEnds, durable
<1>6. ASSUME Failure PROVE table'[s] \in {table[s], NoRow}
  BY <1>6 DEF Failure, FailRequest, FailSweep, Redeploy, durable, EmptyTable
<1>7. UNCHANGED vars => table' = table
  BY DEF vars, durable
<1>8. QED
  BY <1>1, <1>2, <1>3, <1>4, <1>5, <1>6, <1>7 DEF Next, Steady

\* A decided row is overwritten by one thing alone, for any number of workers:
\* the unguarded backfill of a worker that starts beside one already up
\* (app/state.py, seed_from against __setitem__'s WHERE clause).
THEOREM DecidedRowsStay == Spec => DecidedRowNeverReplaced
<1>1. QuietInv /\ [Next]_vars
         => [\A s \in Stores : RowDecided(s) =>
               \/ table'[s] \in {table[s], NoRow}
               \/ \E k, j \in Workers : /\ k # j /\ Up(j)
                                        /\ boot[k] = "seed" /\ Up(k)'
                                        /\ table'[s] = seed[k][s]]_vars
  BY DecidedRowStays
<1>2. QED
  BY <1>1, QuietInit, QuietNext, PTL DEF Spec, DecidedRowNeverReplaced

\* The first worker up finds rows in the table, or leaves there the log's last
\* record of every store.
LEMMA FirstUpRestores ==
  ASSUME QuietInv, [Next]_vars, NEW k \in Workers,
         \A j \in Workers : ~ Up(j), Up(k)',
         NEW s \in Stores, RecordsOf(s) # {}, table'[s] = NoRow
  PROVE  \E t \in Stores \ {s} : table[t] # NoRow
<1>0. /\ table \in [Stores -> Record \cup {NoRow}] /\ log \in Seq(Record) /\ Typed
  BY DEF QuietInv, AuditInv, Typed, TypeOK
<1>1. ~ Serving
  BY DEF Serving, Up
<1>2. boot'[k] # boot[k]
  BY DEF Up
<1>3. BootStep(k)
  <2>1. ASSUME Failure PROVE FALSE
    BY <1>1, <1>2, <2>1 DEF Failure, FailRequest, FailSweep, Redeploy, bootVars, Up
  <2>2. ASSUME NEW j \in Workers \ {k}, BootStep(j) PROVE FALSE
    BY <1>0, <1>2, <2>2, BootEffect
  <2>3. ~ UNCHANGED vars
    BY <1>2 DEF vars, bootVars
  <2>4. QED
    BY <1>1, <2>1, <2>2, <2>3, NothingRunsUnlessUp DEF Next, Steady
<1>4. LastRecord(s) \in Record
  BY <1>0, LastRecordInLog
<1>5. CASE boot[k] = "seed"
  <2>1. seed[k][s] = LastRecord(s) /\ seed[k][s] # NoRow
    BY <1>1, <1>4, <1>5, NoRowAssumption DEF QuietInv, QuietStart, SeedsInHand
  <2>2. boot'[k] = "up" /\ table'[s] = seed[k][s]
    BY <1>0, <1>3, <1>5, <2>1 DEF BootStep, BootCheck, BootRead, BootSeed, Up
  <2>3. QED
    BY <2>1, <2>2
<1>6. CASE boot[k] # "seed"
  <2>1. table' = table /\ table # EmptyTable
    BY <1>0, <1>3, <1>6, BootEffect DEF Up
  <2>2. QED
    BY <1>0, <2>1 DEF EmptyTable
<1>7. QED
  BY <1>5, <1>6

\* What a restart brings back (app/main.py, module start-up): every store of
\* the log has its row again, unless another store's row was there to stop the
\* backfill.
THEOREM RestartRestoresRows == Spec => StartUpRestores
<1>1. QuietInv /\ [Next]_vars
         => [\A k \in Workers :
               ((\A j \in Workers : ~ Up(j)) /\ Up(k)') =>
                  \A s \in Stores :
                     (RecordsOf(s) # {} /\ table'[s] = NoRow) =>
                        \E t \in Stores \ {s} : table[t] # NoRow]_vars
  BY FirstUpRestores
<1>2. QED
  BY <1>1, QuietInit, QuietNext, PTL DEF Spec, StartUpRestores

\* With one worker, whoever is not up yet is alone.
OneWorker == \A a, b \in Workers : a = b

BootAlone ==
    /\ \A k \in Workers : boot[k] \in {"read", "seed"} => table = EmptyTable
    /\ \A k \in Workers : boot[k] # "up" =>
          /\ \A r \in Requests : ~ RequestInFlight(r)
          /\ \A w \in Sweeps : ~ SweepInFlight(w)

AloneInv == QuietInv /\ AuditInv /\ BootAlone

LEMMA AloneInit == Init => AloneInv
BY QuietInit DEF Init, AloneInv, QuietInv, BootAlone, RequestInFlight, SweepInFlight,
   SweepAt

LEMMA AloneNext ==
  ASSUME AloneInv, OneWorker, [Next]_vars PROVE AloneInv'
<1>1. QuietInv'
  BY QuietNext DEF AloneInv
<1>2. QED
  BY <1>1 DEF OneWorker, AloneInv, BootAlone, QuietInv, QuietStart, NothingInFlight,
     Serving

-----------------------------------------------------------------------------
(* The steady loop.  When nothing fails the log is never lost, whatever    *)
(* Wipes says, so the rows stay on record; a row lies at its own store and *)
(* a request holds a record of the store it asked for.                     *)

InPlace(rec, s) == rec # NoRow => rec.store = s

Holding(r) == pc[r] \in {"putback", "log", "ledger", "writeback"}

RowsInPlace ==
    /\ \A s \in Stores : InPlace(table[s], s)
    /\ \A k \in Workers, s \in Stores : InPlace(seed[k][s], s)
    /\ \A r \in Requests :
          /\ pc[r] # "idle" => target[r] \in Stores
          /\ Holding(r) => InPlace(held[r], target[r])

\* The answer is settled in the steps that give it, and is then true.
AnswersTrue ==
    \A r \in Requests :
       /\ pc[r] = "idle" => answer[r] = "none"
       /\ answer[r] = "already" => target[r] \in DecidedInLog

SteadyInv == AuditInv /\ RowsOnRecord /\ RowsInPlace /\ AnswersTrue

LEMMA SteadyInit == Init => SteadyInv
BY AuditInit DEF Init, SteadyInv, RowsOnRecord, OnRecord, RowsInPlace, InPlace,
   Holding, AnswersTrue, EmptyTable

\* The last record of a store is that store's.
LEMMA LastRecordInPlace ==
  ASSUME log \in Seq(Record), NEW s \in Stores
  PROVE  InPlace(LastRecord(s), s)
<1>1. CASE RecordsOf(s) = {}
  BY <1>1 DEF LastRecord, InPlace
<1>2. CASE RecordsOf(s) # {}
  <2>1. RecordsOf(s) \subseteq 1 .. Len(log) /\ Len(log) \in Nat
    BY DEF RecordsOf
  <2>2. \E i \in RecordsOf(s) : \A j \in RecordsOf(s) : j <= i
    BY <1>2, <2>1, LastPosition
  <2> DEFINE m == CHOOSE i \in RecordsOf(s) : \A j \in RecordsOf(s) : j <= i
  <2>3. m \in RecordsOf(s)
    BY <2>2
  <2>4. LastRecord(s) = log[m]
    BY <1>2 DEF LastRecord
  <2> HIDE DEF m
  <2>5. QED
    BY <2>3, <2>4 DEF RecordsOf, InPlace
<1>3. QED
  BY <1>1, <1>2

\* With nothing failing, the log keeps every record and every decided store.
LEMMA SteadyKeepsLog ==
  ASSUME AuditInv, Steady
  PROVE  /\ \A x : InSeq(x, log) => InSeq(x, log')
         /\ DecidedInLog \subseteq DecidedInLog'
<1>0. log \in Seq(Record)
  BY DEF AuditInv, Typed, TypeOK
<1>1. log' = log \/ \E e \in Record : log' = Append(log, e)
  BY SteadyGrowth
<1>2. \A x : InSeq(x, log) => InSeq(x, log')
  <2>1. CASE log' = log
    BY <2>1 DEF InSeq
  <2>2. CASE \E e \in Record : log' = Append(log, e)
    BY <1>0, <2>2, AppendKeeps
  <2>3. QED
    BY <1>1, <2>1, <2>2
<1>3. ASSUME NEW s \in DecidedInLog PROVE s \in DecidedInLog'
  <2>1. PICK i \in DOMAIN log : log[i].store = s /\ Decided(log[i])
    BY DEF DecidedInLog, RecordsOf
  <2>2. InSeq(log[i], log')
    BY <1>2 DEF InSeq
  <2>3. QED
    BY <2>1, <2>2 DEF InSeq, DecidedInLog, RecordsOf
<1>4. QED
  BY <1>2, <1>3

\* A decided record of a store that is on record puts the store on record.
LEMMA OnRecordDecides ==
  ASSUME NEW s \in Stores, NEW rec, rec # NoRow, Decided(rec), rec.store = s,
         OnRecord(rec)
  PROVE  s \in DecidedInLog
BY DEF OnRecord, InSeq, DecidedInLog, RecordsOf

LEMMA InPlaceNext ==
  ASSUME AuditInv, RowsInPlace, [Next]_vars PROVE RowsInPlace'
<1>0. /\ AuditInv /\ log \in Seq(Record)
      /\ table \in [Stores -> Record \cup {NoRow}]
      /\ seed \in [Workers -> [Stores -> Record \cup {NoRow}]]
      /\ pc \in [Requests -> Phases] /\ held \in [Requests -> Record \cup {NoRow}]
      /\ target \in [Requests -> Stores \cup {NoRow}]
      /\ sweep \in [Sweeps -> Cohort]
  BY DEF AuditInv, Typed, TypeOK
<1>1. \A s : InPlace(NoRow, s)
  BY DEF InPlace
<1>2. ASSUME NEW k \in Workers, BootStep(k) PROVE RowsInPlace'
  <2>1. pc' = pc /\ held' = held /\ target' = target
    BY <1>2 DEF BootStep, BootCheck, BootRead, BootSeed, requestVars
  <2>2. \A s \in Stores : table'[s] \in {table[s], seed[k][s]}
    BY <1>0, <1>2 DEF BootStep, BootCheck, BootRead, BootSeed, durable
  <2>3. \A j \in Workers, s \in Stores :
           seed'[j][s] \in {seed[j][s], LastRecord(s), NoRow}
    BY <1>0, <1>2 DEF BootStep, BootCheck, BootRead, BootSeed, EmptyTable
  <2>4. \A s \in Stores : InPlace(LastRecord(s), s)
    BY <1>0, LastRecordInPlace
  <2>5. QED
    BY <1>1, <2>1, <2>2, <2>3, <2>4 DEF RowsInPlace, Holding
<1>3. ASSUME NEW r \in Requests, NEW s \in Stores,
             PopMissing(r, s) \/ PopRefused(r, s)
                \/ \E v \in Verbs : PopPending(r, s, v)
      PROVE  RowsInPlace'
  <2>1. /\ seed' = seed
        /\ \A t \in Stores : table'[t] \in {table[t], NoRow}
        /\ \A q \in Requests \ {r} : /\ pc'[q] = pc[q] /\ held'[q] = held[q]
                                     /\ target'[q] = target[q]
        /\ target'[r] = s
    BY <1>0, <1>3 DEF PopMissing, PopRefused, PopPending, Pop, bootVars
  <2>2. Holding(r)' => held'[r].store = s
    <3>1. PopMissing(r, s) => ~ Holding(r)'
      BY <1>0 DEF PopMissing, Holding
    <3>2. PopRefused(r, s) => held'[r] = table[s] /\ table[s] # NoRow
      BY <1>0 DEF PopRefused
    <3>3. ASSUME NEW v \in Verbs, PopPending(r, s, v)
          PROVE  held'[r].store = table[s].store /\ table[s] # NoRow
      <4>1. table[s] \in Record
        BY <1>0, <3>3 DEF PopPending
      <4>2. held'[r] = [table[s] EXCEPT !.decision = v, !.by = r]
        BY <1>0, <3>3 DEF PopPending
      <4>3. held'[r].store = table[s].store
        BY <4>1, <4>2 DEF Record
      <4>4. QED
        BY <3>3, <4>3 DEF PopPending
    <3>4. QED
      BY <1>3, <3>1, <3>2, <3>3 DEF RowsInPlace, InPlace
  <2>3. QED
    BY <1>1, <2>1, <2>2 DEF RowsInPlace, Holding, InPlace
<1>4. ASSUME NEW r \in Requests, RequestStep(r) PROVE RowsInPlace'
  <2>1. /\ seed' = seed /\ held' = held /\ target' = target
        /\ \A q \in Requests : /\ Holding(q)' => Holding(q)
                               /\ pc'[q] # "idle" => pc[q] # "idle"
    BY <1>0, <1>4 DEF RequestStep, PutBack, LookLog, LookTable, AppendLog,
       AppendDecision, WriteBack, bootVars, Holding
  <2>2. \A s \in Stores :
           \/ table'[s] = table[s]
           \/ Holding(r) /\ s = target[r] /\ table'[s] = held[r]
    BY <1>0, <1>4 DEF RequestStep, PutBack, LookLog, LookTable, AppendLog,
       AppendDecision, WriteBack, durable, Upsert, Holding
  <2>3. QED
    BY <2>1, <2>2 DEF RowsInPlace, InPlace
<1>5. ASSUME NEW w \in Sweeps, FeedSweep(w) \/ BoardSweep(w) \/ SweepStep(w)
      PROVE  RowsInPlace'
  <2>1. seed' = seed /\ held' = held /\ pc' = pc /\ target' = target
    BY <1>5 DEF FeedSweep, BoardSweep, BoardTable, SweepStep, SnapshotLog,
       SnapshotTable, LogFresh, Recheck, UpsertFresh, SweepEnds, bootVars, requestVars
  <2>2. \A s \in Stores : \/ table'[s] = table[s]
                          \/ s = sweep[w].cur.store /\ table'[s] = sweep[w].cur
    BY <1>0, <1>5 DEF FeedSweep, BoardSweep, BoardTable, SweepStep, SnapshotLog,
       SnapshotTable, LogFresh, Recheck, UpsertFresh, SweepEnds, durable, Upsert
  <2>3. QED
    BY <2>1, <2>2 DEF RowsInPlace, Holding, InPlace
<1>6. ASSUME Failure PROVE RowsInPlace'
  <2>1. /\ held' = held /\ target' = target
        /\ \A q \in Requests : /\ Holding(q)' => Holding(q)
                               /\ pc'[q] # "idle" => pc[q] # "idle"
        /\ \A s \in Stores : table'[s] \in {table[s], NoRow}
        /\ \A k \in Workers, s \in Stores : seed'[k][s] \in {seed[k][s], NoRow}
    BY <1>0, <1>6 DEF Failure, FailRequest, FailSweep, Redeploy, durable, bootVars,
       requestVars, EmptyTable, RequestInFlight, Holding
  <2>2. QED
    BY <2>1 DEF RowsInPlace, InPlace
<1>7. UNCHANGED vars => RowsInPlace'
  BY DEF vars, durable, bootVars, requestVars, RowsInPlace, InPlace, Holding
<1>8. QED
  BY <1>2, <1>3, <1>4, <1>5, <1>6, <1>7 DEF Next, Steady, Arrive

LEMMA AnswersNext ==
  ASSUME SteadyInv, Steady PROVE AnswersTrue'
<1>0. /\ AuditInv /\ table \in [Stores -> Record \cup {NoRow}]
      /\ pc \in [Requests -> Phases] /\ answer \in [Requests -> Answers]
      /\ target \in [Requests -> Stores \cup {NoRow}]
  BY DEF SteadyInv, AuditInv, Typed, TypeOK
<1>1. DecidedInLog \subseteq DecidedInLog'
  BY <1>0, SteadyKeepsLog
<1>2. \A s \in Stores : RowDecided(s) => s \in DecidedInLog
  BY <1>0, OnRecordDecides DEF SteadyInv, RowsOnRecord, RowsInPlace, InPlace, RowDecided
<1>3. CASE UNCHANGED requestVars
  BY <1>1, <1>3 DEF SteadyInv, AnswersTrue, requestVars
<1>4. ASSUME NEW r \in Requests, NEW s \in Stores,
             PopMissing(r, s) \/ PopRefused(r, s)
                \/ \E v \in Verbs : PopPending(r, s, v)
      PROVE  AnswersTrue'
  <2>1. /\ pc[r] = "idle" /\ answer[r] = "none" /\ target'[r] = s
        /\ pc'[r] # "idle"
        /\ \A q \in Requests \ {r} : /\ pc'[q] = pc[q] /\ answer'[q] = answer[q]
                                     /\ target'[q] = target[q]
    BY <1>0, <1>4 DEF PopMissing, PopRefused, PopPending, Pop, SteadyInv, AnswersTrue
  <2>2. answer'[r] = "already" => RowDecided(s)
    BY <1>0, <1>4, <2>1 DEF PopMissing, PopRefused, PopPending, Refusal, RowDecided
  <2>3. QED
    BY <1>1, <1>2, <2>1, <2>2 DEF SteadyInv, AnswersTrue
<1>5. ASSUME NEW r \in Requests, RequestStep(r) PROVE AnswersTrue'
  <2>1. /\ target' = target /\ target[r] \in Stores /\ pc'[r] # "idle"
        /\ \A q \in Requests \ {r} : pc'[q] = pc[q] /\ answer'[q] = answer[q]
    BY <1>0, <1>5 DEF RequestStep, PutBack, LookLog, LookTable, AppendLog,
       AppendDecision, WriteBack, AuditInv, Typed, HandsTyped, RequestInFlight
  <2>2. answer'[r] = "already" =>
           answer[r] = "already" \/ target[r] \in DecidedInLog \/ RowDecided(target[r])
    BY <1>0, <1>5 DEF RequestStep, PutBack, LookLog, LookTable, AppendLog,
       AppendDecision, WriteBack
  <2>3. QED
    BY <1>1, <1>2, <2>1, <2>2 DEF SteadyInv, AnswersTrue
<1>6. ASSUME NEW k \in Workers, BootStep(k) PROVE UNCHANGED requestVars
  BY <1>6 DEF BootStep, BootCheck, BootRead, BootSeed
<1>7. ASSUME NEW w \in Sweeps, FeedSweep(w) \/ BoardSweep(w) \/ SweepStep(w)
      PROVE  UNCHANGED requestVars
  BY <1>7 DEF FeedSweep, BoardSweep, BoardTable, SweepStep, SnapshotLog,
     SnapshotTable, LogFresh, Recheck, UpsertFresh, SweepEnds
<1>8. QED
  BY <1>3, <1>4, <1>5, <1>6, <1>7 DEF Steady, Arrive

LEMMA SteadyNext == SteadyInv /\ [Steady]_vars => SteadyInv'
<1> SUFFICES ASSUME SteadyInv, [Steady]_vars PROVE SteadyInv'
  OBVIOUS
<1>1. AuditInv /\ AuditInv'
  BY AuditNext DEF SteadyInv, Next
<1>2. CASE Steady
  <2>1. RowsOnRecord'
    BY <1>1, <1>2, RowSources, SteadyKeepsLog DEF SteadyInv, Next
  <2>2. QED
    BY <1>1, <1>2, <2>1, InPlaceNext, AnswersNext DEF SteadyInv, Next
<1>3. CASE UNCHANGED vars
  BY <1>1, <1>3 DEF vars, durable, bootVars, requestVars, SteadyInv, RowsOnRecord,
     OnRecord, RowsInPlace, InPlace, Holding, AnswersTrue, DecidedInLog, RecordsOf
<1>4. QED
  BY <1>2, <1>3

\* "already_decided" answers (app/main.py, _latest_decided_record and the
\* popped row) are true: with nothing failing, a call is told a decision
\* exists only for a store whose decision the log has, for any number of
\* workers, sweeps and racing calls.
THEOREM AlreadyIsTrue == SteadySpec => []AlreadyMeansLogged
<1>1. SteadyInv => AlreadyMeansLogged
  BY DEF SteadyInv, AnswersTrue, AlreadyMeansLogged
<1>2. QED
  BY <1>1, SteadyInit, SteadyNext, PTL DEF SteadySpec

-----------------------------------------------------------------------------
(* An acknowledged decision is held.  The only write that could replace a  *)
(* decided row is a backfill's, so the argument needs that a worker starts *)
(* up alone; a decided row popped by a call is in that call's hands until  *)
(* it is put back.                                                         *)

HolderOf(q, s) == target[q] = s /\ Holding(q) /\ Decided(held[q])

DecisionSafe(s) == RowDecided(s) \/ \E q \in Requests : HolderOf(q, s)

\* A decision the log has is in the table or in some call's hands.
LoggedHeld == \A s \in DecidedInLog : DecisionSafe(s)

BothHeld == AckedDecisionHeld /\ LoggedHeld

HeldInv == AloneInv /\ SteadyInv /\ BothHeld

LEMMA HandsHold ==
  \A s \in Stores : DecisionInHands(s) <=> \E q \in Requests : HolderOf(q, s)
BY DEF DecisionInHands, HolderOf, Holding

LEMMA HeldMeans ==
  AckedDecisionHeld <=> \A r \in Requests : Acked(r) => DecisionSafe(target[r])
BY DEF AckedDecisionHeld, DecisionInHands, DecisionSafe, HolderOf, Holding

LEMMA HeldInit == Init => HeldInv
BY AloneInit, SteadyInit DEF Init, HeldInv, BothHeld, AckedDecisionHeld, LoggedHeld,
   DecidedInLog, RecordsOf, Acked, AckedRequests

\* What a step owes: decisions stay safe, and a decision newly logged or newly
\* acknowledged is safe.
LEMMA HeldKept ==
  ASSUME HeldInv,
         \A s \in Stores : DecisionSafe(s) => DecisionSafe(s)',
         \A s \in DecidedInLog' : s \in DecidedInLog \/ DecisionSafe(s)',
         \A r \in Requests : Acked(r)' =>
            /\ target'[r] = target[r] /\ target[r] \in Stores
            /\ Acked(r) \/ DecisionSafe(target[r])'
  PROVE  BothHeld'
<1>1. ASSUME NEW r \in Requests, NEW s \in Stores, Acked(r)', s = target[r],
             target'[r] = s
      PROVE  DecisionSafe(s)'
  <2>1. Acked(r) => DecisionSafe(s)
    BY <1>1, HeldMeans DEF HeldInv, BothHeld
  <2>2. Acked(r) \/ DecisionSafe(s)'
    BY <1>1 DEF DecisionSafe, HolderOf, RowDecided, Holding
  <2>3. QED
    BY <2>1, <2>2
<1>2. AckedDecisionHeld'
  BY <1>1 DEF AckedDecisionHeld, DecisionInHands, DecisionSafe, HolderOf, Holding
<1>3. LoggedHeld'
  BY DEF HeldInv, BothHeld, LoggedHeld, DecidedInLog
<1>4. QED
  BY <1>2, <1>3 DEF BothHeld

LEMMA HeldBoot ==
  ASSUME HeldInv, OneWorker, NEW k \in Workers, BootStep(k)
  PROVE  BothHeld'
<1>0. table \in [Stores -> Record \cup {NoRow}]
  BY DEF HeldInv, AloneInv, AuditInv, Typed, TypeOK
<1>1. boot[k] # "up" /\ UNCHANGED requestVars
  BY DEF BootStep, BootCheck, BootRead, BootSeed
<1>2. \A q \in Requests : ~ Holding(q)
  BY <1>1 DEF HeldInv, AloneInv, BootAlone, RequestInFlight, Holding
<1>3. ASSUME NEW s \in Stores, DecisionSafe(s) PROVE DecisionSafe(s)'
  <2>1. RowDecided(s)
    BY <1>2, <1>3 DEF DecisionSafe, HolderOf
  <2>2. table # EmptyTable
    BY <2>1 DEF RowDecided, EmptyTable
  <2>3. table' = table
    BY <2>2 DEF HeldInv, AloneInv, BootAlone, BootStep, BootCheck, BootRead,
       BootSeed, durable
  <2>4. QED
    BY <2>1, <2>3 DEF DecisionSafe, RowDecided
<1>4. \A r \in Requests : Acked(r)' => Acked(r) /\ target'[r] = target[r]
                                              /\ target[r] \in Stores
  BY <1>1 DEF Acked, AckedRequests, requestVars, HeldInv, SteadyInv, RowsInPlace
<1>5. DecidedInLog' = DecidedInLog
  BY DEF BootStep, BootCheck, BootRead, BootSeed, durable, DecidedInLog, RecordsOf
<1>6. QED
  BY <1>3, <1>4, <1>5, HeldKept

LEMMA HeldArrival ==
  ASSUME HeldInv, NEW r \in Requests, NEW s \in Stores,
         PopMissing(r, s) \/ PopRefused(r, s) \/ \E v \in Verbs : PopPending(r, s, v)
  PROVE  BothHeld'
<1>0. /\ table \in [Stores -> Record \cup {NoRow}] /\ pc \in [Requests -> Phases]
      /\ held \in [Requests -> Record \cup {NoRow}]
      /\ target \in [Requests -> Stores \cup {NoRow}]
      /\ answer \in [Requests -> Answers]
  BY DEF HeldInv, AloneInv, AuditInv, Typed, TypeOK
<1>1. /\ pc[r] = "idle" /\ pc'[r] # "done" /\ target'[r] = s
      /\ \A t \in Stores \ {s} : table'[t] = table[t]
      /\ \A q \in Requests \ {r} : /\ pc'[q] = pc[q] /\ held'[q] = held[q]
                                   /\ target'[q] = target[q] /\ answer'[q] = answer[q]
  BY <1>0 DEF PopMissing, PopRefused, PopPending, Pop
<1>2. RowDecided(s) => HolderOf(r, s)'
  <2>1. ASSUME RowDecided(s) PROVE PopRefused(r, s)
    BY <2>1 DEF RowDecided, PopMissing, PopPending, Refusal
  <2>2. PopRefused(r, s) => held'[r] = table[s] /\ pc'[r] = "putback"
    BY <1>0 DEF PopRefused
  <2>3. QED
    BY <1>1, <2>1, <2>2 DEF RowDecided, HolderOf, Holding
<1>3. ASSUME NEW t \in Stores, DecisionSafe(t) PROVE DecisionSafe(t)'
  <2>1. ASSUME NEW q \in Requests, HolderOf(q, t) PROVE HolderOf(q, t)'
    BY <1>1, <2>1 DEF HolderOf, Holding
  <2>2. CASE RowDecided(t) /\ t # s
    BY <1>1, <2>2 DEF DecisionSafe, RowDecided
  <2>3. QED
    BY <1>2, <1>3, <2>1, <2>2 DEF DecisionSafe
<1>4. \A q \in Requests : Acked(q)' => Acked(q) /\ target'[q] = target[q]
                                              /\ target[q] \in Stores
  BY <1>1 DEF Acked, AckedRequests, HeldInv, SteadyInv, RowsInPlace
<1>5. DecidedInLog' = DecidedInLog
  BY DEF PopMissing, PopRefused, PopPending, Pop, DecidedInLog, RecordsOf
<1>6. QED
  BY <1>3, <1>4, <1>5, HeldKept

\* The guarded upsert keeps every decided row, and the record it is given
\* leaves the store's row decided when that record is.
LEMMA UpsertSafe ==
  ASSUME table \in [Stores -> Record \cup {NoRow}], NEW s \in Stores,
         NEW rec \in Record, table' = Upsert(s, rec)
  PROVE  /\ \A t \in Stores : RowDecided(t) => RowDecided(t)'
         /\ Decided(rec) => RowDecided(s)'
BY NoRowAssumption DEF Upsert, RowDecided

\* An append to the log decides no store but that of a decided record.
LEMMA AppendDecides ==
  ASSUME log \in Seq(Record), NEW rec \in Record, log' = Append(log, rec),
         NEW s \in DecidedInLog'
  PROVE  s \in DecidedInLog \/ (Decided(rec) /\ rec.store = s)
<1>1. PICK i \in DOMAIN log' : log'[i].store = s /\ Decided(log'[i])
  BY DEF DecidedInLog, RecordsOf
<1>2. CASE i \in DOMAIN log
  <2>1. log'[i] = log[i]
    BY <1>2
  <2>2. QED
    BY <1>1, <1>2, <2>1 DEF DecidedInLog, RecordsOf
<1>3. CASE i \notin DOMAIN log
  <2>1. log'[i] = rec
    BY <1>3
  <2>2. QED
    BY <1>1, <2>1
<1>4. QED
  BY <1>2, <1>3

LEMMA HeldRequest ==
  ASSUME HeldInv, NEW r \in Requests, RequestStep(r)
  PROVE  BothHeld'
<1>0. /\ table \in [Stores -> Record \cup {NoRow}] /\ pc \in [Requests -> Phases]
      /\ answer \in [Requests -> Answers] /\ target[r] \in Stores
      /\ Holding(r) => held[r] \in Record
      /\ pc[r] = "writeback" => Decided(held[r])
      /\ answer[r] = "decided" => pc[r] = "done"
  BY DEF HeldInv, AloneInv, AuditInv, Typed, TypeOK, HandsTyped, HandsAudited,
     Deciding, Holding, RequestStep, PutBack, LookLog, LookTable, AppendLog,
     AppendDecision, WriteBack, RequestInFlight
<1>1. /\ held' = held /\ target' = target
      /\ \A q \in Requests \ {r} : pc'[q] = pc[q] /\ answer'[q] = answer[q]
      /\ \A q \in Requests : Acked(q) => target[q] \in Stores
  BY <1>0 DEF RequestStep, PutBack, LookLog, LookTable, AppendLog, AppendDecision,
     WriteBack, Acked, AckedRequests, HeldInv, SteadyInv, RowsInPlace
<1>2. \/ /\ table' = table
         /\ Holding(r) => Holding(r)'
         /\ ~ Acked(r)'
      \/ /\ table' = Upsert(target[r], held[r]) /\ Holding(r)
         /\ Acked(r)' => Decided(held[r])
  BY <1>0 DEF RequestStep, PutBack, LookLog, LookTable, AppendLog, AppendDecision,
     WriteBack, durable, Holding, Acked, AckedRequests
<1>3. ASSUME NEW t \in Stores, t = target[r]
      PROVE  /\ \A s \in Stores : RowDecided(s) => RowDecided(s)'
             /\ HolderOf(r, t) => HolderOf(r, t)' \/ RowDecided(t)'
             /\ Acked(r)' => RowDecided(t)'
  <2>1. CASE table' = table /\ (Holding(r) => Holding(r)') /\ ~ Acked(r)'
    BY <1>1, <1>3, <2>1 DEF RowDecided, HolderOf
  <2>2. CASE /\ table' = Upsert(target[r], held[r]) /\ Holding(r)
             /\ Acked(r)' => Decided(held[r])
    BY <1>0, <1>3, <2>2, UpsertSafe DEF HolderOf
  <2>3. QED
    BY <1>2, <2>1, <2>2
<1>4. ASSUME NEW s \in Stores, DecisionSafe(s) PROVE DecisionSafe(s)'
  <2>1. ASSUME NEW q \in Requests \ {r}, HolderOf(q, s) PROVE HolderOf(q, s)'
    BY <1>1, <2>1 DEF HolderOf, Holding
  <2>2. QED
    BY <1>0, <1>3, <1>4, <2>1 DEF DecisionSafe, HolderOf
<1>5. \A q \in Requests : Acked(q)' =>
         /\ target'[q] = target[q] /\ target[q] \in Stores
         /\ Acked(q) \/ DecisionSafe(target[q])'
  BY <1>0, <1>1, <1>3 DEF Acked, AckedRequests, DecisionSafe
<1>6. ASSUME NEW s \in DecidedInLog' PROVE s \in DecidedInLog \/ DecisionSafe(s)'
  <2>1. CASE log' = log
    BY <1>6, <2>1 DEF DecidedInLog, RecordsOf
  <2>2. CASE log' # log
    <3>1. pc[r] = "log" /\ log' = Append(log, held[r]) /\ pc'[r] = "ledger"
      BY <1>0, <2>2 DEF RequestStep, PutBack, LookLog, LookTable, AppendLog,
         AppendDecision, WriteBack, durable
    <3>2. held[r] \in Record /\ log \in Seq(Record) /\ held[r].store = target[r]
      BY <1>0, <3>1, NoRowAssumption DEF HeldInv, AloneInv, AuditInv, Typed, TypeOK,
         Holding, SteadyInv, RowsInPlace, InPlace
    <3>3. s \in DecidedInLog \/ (Decided(held[r]) /\ held[r].store = s)
      BY <1>6, <3>1, <3>2, AppendDecides
    <3>4. QED
      BY <1>1, <3>1, <3>2, <3>3 DEF DecisionSafe, HolderOf, Holding
  <2>3. QED
    BY <2>1, <2>2
<1>7. QED
  BY <1>4, <1>5, <1>6, HeldKept

LEMMA HeldSweep ==
  ASSUME HeldInv, NEW w \in Sweeps, FeedSweep(w) \/ BoardSweep(w) \/ SweepStep(w)
  PROVE  BothHeld'
<1>0. table \in [Stores -> Record \cup {NoRow}]
  BY DEF HeldInv, AloneInv, AuditInv, Typed, TypeOK
<1>1. UNCHANGED requestVars
  BY DEF FeedSweep, BoardSweep, BoardTable, SweepStep, SnapshotLog, SnapshotTable,
     LogFresh, Recheck, UpsertFresh, SweepEnds
<1>2. table' = table \/ table' = Upsert(sweep[w].cur.store, sweep[w].cur)
  BY DEF FeedSweep, BoardSweep, BoardTable, SweepStep, SnapshotLog, SnapshotTable,
     LogFresh, Recheck, UpsertFresh, SweepEnds, durable
<1>3. \A s \in Stores : RowDecided(s) => RowDecided(s)'
  BY <1>0, <1>2 DEF Upsert, RowDecided
<1>4. \A s \in Stores : DecisionSafe(s) => DecisionSafe(s)'
  BY <1>1, <1>3 DEF DecisionSafe, HolderOf, Holding, requestVars
<1>5. \A r \in Requests : Acked(r)' => Acked(r) /\ target'[r] = target[r]
                                              /\ target[r] \in Stores
  BY <1>1 DEF Acked, AckedRequests, requestVars, HeldInv, SteadyInv, RowsInPlace
<1>6. ASSUME NEW s \in DecidedInLog' PROVE s \in DecidedInLog
  <2>1. CASE log' = log
    BY <1>6, <2>1 DEF DecidedInLog, RecordsOf
  <2>2. CASE \E rec \in sweep[w].todo : LogFresh(w, rec) /\ log' = Append(log, rec)
    <3>1. PICK rec \in sweep[w].todo : LogFresh(w, rec) /\ log' = Append(log, rec)
      BY <2>2
    <3>2. rec \in Record /\ ~ Decided(rec) /\ log \in Seq(Record)
      BY <3>1 DEF HeldInv, AloneInv, AuditInv, Typed, TypeOK, Cohort, SweepsUndecided
    <3>3. QED
      BY <1>6, <3>1, <3>2, AppendDecides
  <2>3. QED
    BY <2>1, <2>2 DEF FeedSweep, BoardSweep, BoardTable, SweepStep, SnapshotLog,
       SnapshotTable, LogFresh, Recheck, UpsertFresh, SweepEnds, durable
<1>7. QED
  BY <1>4, <1>5, <1>6, HeldKept

LEMMA HeldNext ==
  ASSUME OneWorker, HeldInv, [Steady]_vars PROVE HeldInv'
<1>1. AloneInv'
  BY AloneNext DEF HeldInv, Next
<1>2. SteadyInv'
  BY SteadyNext DEF HeldInv
<1>3. CASE Steady
  <2>1. BothHeld'
    BY <1>3, HeldBoot, HeldArrival, HeldRequest, HeldSweep DEF Steady, Arrive
  <2>2. QED
    BY <1>1, <1>2, <2>1 DEF HeldInv
<1>4. CASE UNCHANGED vars
  <2>1. BothHeld'
    BY <1>4 DEF vars, durable, requestVars, HeldInv, BothHeld, AckedDecisionHeld,
       LoggedHeld, DecisionSafe, HolderOf, Holding, DecisionInHands, DecidedInLog,
       RecordsOf, Acked, AckedRequests, RowDecided
  <2>2. QED
    BY <1>1, <1>2, <2>1 DEF HeldInv
<1>5. QED
  BY <1>3, <1>4

\* An acknowledged decision is not lost while nothing fails and one worker
\* serves the table: the row is decided, or a call holds it and writes it back
\* (app/main.py, the pop and write-back of approve and reject).  Two workers
\* can lose it: the second's backfill writes over the row without a guard.
THEOREM AckedDecisionIsHeld ==
  ASSUME OneWorker PROVE SteadySpec => []AckedDecisionHeld
<1>1. HeldInv /\ [Steady]_vars => HeldInv'
  BY HeldNext
<1>2. HeldInv => AckedDecisionHeld
  BY DEF HeldInv, BothHeld
<1>3. QED
  BY <1>1, <1>2, HeldInit, PTL DEF SteadySpec

\* A 404 of approve or reject is given by the table look-up, and only where
\* the row is not decided.
LEMMA NotFoundHere ==
  ASSUME AuditInv, Steady, NEW r \in Requests, NotFoundNow(r)
  PROVE  LookTable(r) /\ ~ RowDecided(target[r])
<1>0. pc \in [Requests -> Phases] /\ answer \in [Requests -> Answers]
  BY DEF AuditInv, Typed, TypeOK
<1>1. ASSUME NEW q \in Requests, NEW s \in Stores,
             PopMissing(q, s) \/ PopRefused(q, s)
                \/ \E v \in Verbs : PopPending(q, s, v)
      PROVE  FALSE
  BY <1>0, <1>1 DEF PopMissing, PopRefused, PopPending, Refusal, NotFoundNow
<1>2. ASSUME NEW q \in Requests, RequestStep(q)
      PROVE  LookTable(r) /\ ~ RowDecided(target[r])
  BY <1>0, <1>2 DEF RequestStep, PutBack, LookLog, LookTable, AppendLog,
     AppendDecision, WriteBack, NotFoundNow
<1>3. ASSUME NEW k \in Workers, BootStep(k) PROVE FALSE
  BY <1>3 DEF BootStep, BootCheck, BootRead, BootSeed, requestVars, NotFoundNow
<1>4. ASSUME NEW w \in Sweeps, FeedSweep(w) \/ BoardSweep(w) \/ SweepStep(w)
      PROVE  FALSE
  BY <1>4 DEF FeedSweep, BoardSweep, BoardTable, SweepStep, SnapshotLog,
     SnapshotTable, LogFresh, Recheck, UpsertFresh, SweepEnds, requestVars,
     NotFoundNow
<1>5. QED
  BY <1>1, <1>2, <1>3, <1>4 DEF Steady, Arrive

\* A store the log has decided is reported 404 only while another call holds
\* its decision (approve_recommendation, _latest_decided_record): outside that
\* window the log or the table has the answer.
THEOREM NotFoundIsInTheGap ==
  ASSUME OneWorker PROVE SteadySpec => NotFoundOnlyInTheGap
<1>1. HeldInv /\ [Steady]_vars => HeldInv'
  BY HeldNext
<1>2. HeldInv /\ [Steady]_vars
         => [\A r \in Requests : (NotFoundNow(r) /\ target[r] \in DecidedInLog)
                                   => DecisionInHands(target[r])]_vars
  <2> SUFFICES ASSUME HeldInv, Steady, NEW r \in Requests, NotFoundNow(r),
                      target[r] \in DecidedInLog
               PROVE  DecisionInHands(target[r])
    OBVIOUS
  <2>1. ~ RowDecided(target[r])
    BY NotFoundHere DEF HeldInv, AloneInv
  <2>2. DecisionSafe(target[r])
    BY DEF HeldInv, BothHeld, LoggedHeld
  <2>3. QED
    BY <2>1, <2>2, HandsHold DEF DecisionSafe, DecidedInLog
<1>3. QED
  BY <1>1, <1>2, HeldInit, PTL DEF SteadySpec, NotFoundOnlyInTheGap

\* What a repeated or racing call is answered is true: "already decided", and
\* 404 outside the window in which another call holds the decision.
THEOREM LateCallsAreToldTruth ==
  ASSUME OneWorker PROVE SteadySpec => LateCallsHearTruth
BY AlreadyIsTrue, NotFoundIsInTheGap DEF LateCallsHearTruth

-----------------------------------------------------------------------------
(* One decision per offer.  An offer of a store is a chance to decide it:  *)
(* an undecided row, a call that popped one and has not logged its answer, *)
(* a sweep that may still upsert one, a backfill to come.  No step makes   *)
(* an offer out of nothing: a sweep brings one when it starts, a redeploy  *)
(* one per store, and a logged decision uses one up.                       *)

UndecidedRow(s) == table[s] # NoRow /\ ~ Decided(table[s])

Carriers(s) == {r \in Requests : /\ target[r] = s
                                 /\ \/ pc[r] = "log"
                                    \/ pc[r] = "putback" /\ ~ Decided(held[r])}

Carries(w, s) == \E rec \in sweep[w].todo : rec.store = s

Upserting(w) == sweep[w].pc \in {"recheck", "upsert"}

Offering(s) == {w \in Sweeps :
                  \/ sweep[w].pc \in {"board", "evaluated", "snapshot"}
                  \/ (sweep[w].pc = "loop" \/ Upserting(w)) /\ Carries(w, s)
                  \/ Upserting(w) /\ sweep[w].cur.store = s}

Started == {w \in Sweeps : sweep[w].pc # "idle"}

BackfillComing == restarts # 0 /\ \E k \in Workers : boot[k] # "up"

One(b) == IF b THEN 1 ELSE 0

Chances(s) == Cardinality(DecidedRecords(s)) + Cardinality(Carriers(s))
                + Cardinality(Offering(s)) + One(UndecidedRow(s))
                + One(BackfillComing)

Allowed == Cardinality(Started) + restarts * Cardinality(Workers)

\* A sweep writes one record per store; the first start finds no log.
OffersOrderly ==
    /\ \A w \in Sweeps :
          sweep[w].pc \in {"snapshot", "loop", "recheck", "upsert"} =>
             \A a, b \in sweep[w].todo : a.store = b.store => a = b
    /\ \A w \in Sweeps : Upserting(w) =>
          /\ sweep[w].cur \in Record /\ ~ Carries(w, sweep[w].cur.store)
    /\ \A k \in Workers : boot[k] # "up" /\ restarts = 0 =>
          log = <<>> /\ seed[k] = EmptyTable

CountedAt(s) ==
    /\ IsFiniteSet(Started) /\ IsFiniteSet(Carriers(s)) /\ IsFiniteSet(Offering(s))
    /\ Chances(s) <= Allowed

OfferInv == /\ AloneInv /\ RowsInPlace /\ OffersOrderly
            /\ \A s \in Stores : CountedAt(s)

LEMMA Keep ==
  ASSUME NEW S, NEW T, IsFiniteSet(S), T \subseteq S
  PROVE  /\ IsFiniteSet(T) /\ Cardinality(S) \in Nat /\ Cardinality(T) \in Nat
         /\ Cardinality(T) <= Cardinality(S)
BY FS_Subset, FS_CardinalityType

LEMMA Gain ==
  ASSUME NEW S, NEW T, NEW x, IsFiniteSet(S), T \subseteq S \cup {x}
  PROVE  /\ IsFiniteSet(T) /\ Cardinality(S) \in Nat /\ Cardinality(T) \in Nat
         /\ Cardinality(T) <= Cardinality(S) + 1
<1>1. IsFiniteSet(S \cup {x}) /\ Cardinality(S \cup {x}) <= Cardinality(S) + 1
      /\ Cardinality(S) \in Nat
  BY FS_AddElement, FS_CardinalityType
<1>2. /\ IsFiniteSet(T) /\ Cardinality(T) \in Nat /\ Cardinality(S \cup {x}) \in Nat
      /\ Cardinality(T) <= Cardinality(S \cup {x})
  BY <1>1, Keep
<1>3. QED
  BY <1>1, <1>2

LEMMA Lose ==
  ASSUME NEW S, NEW T, NEW x \in S, IsFiniteSet(S), T \subseteq S \ {x}
  PROVE  /\ IsFiniteSet(T) /\ Cardinality(S) \in Nat /\ Cardinality(T) \in Nat
         /\ Cardinality(T) + 1 <= Cardinality(S)
<1>1. /\ IsFiniteSet(S \ {x}) /\ Cardinality(S \ {x}) = Cardinality(S) - 1
      /\ Cardinality(S) \in Nat
  BY FS_RemoveElement, FS_CardinalityType
<1>2. /\ IsFiniteSet(T) /\ Cardinality(T) \in Nat
      /\ Cardinality(T) <= Cardinality(S \ {x})
  BY <1>1, Keep
<1>3. QED
  BY <1>1, <1>2

LEMMA OneValue == ASSUME NEW b \in BOOLEAN PROVE One(b) \in {0, 1} /\ (One(b) = 1 <=> b)
BY DEF One

\* One of at most one worker: the right-hand side is a natural number.
LEMMA WorkersCount ==
  ASSUME OneWorker
  PROVE  /\ IsFiniteSet(Workers) /\ Cardinality(Workers) \in {0, 1}
         /\ Workers # {} => Cardinality(Workers) = 1
<1>1. CASE Workers = {}
  BY <1>1, FS_EmptySet
<1>2. ASSUME NEW k \in Workers PROVE Workers = {k}
  BY <1>2 DEF OneWorker
<1>3. QED
  BY <1>1, <1>2, FS_Singleton

LEMMA DecidedRecordsFinite ==
  ASSUME log \in Seq(Record), NEW s \in Stores
  PROVE  IsFiniteSet(DecidedRecords(s))
<1>1. DecidedRecords(s) \subseteq 1 .. Len(log) /\ Len(log) \in Nat
  BY DEF DecidedRecords, RecordsOf
<1>2. IsFiniteSet(1 .. Len(log))
  BY <1>1, FS_Interval
<1>3. QED
  BY <1>1, <1>2, Keep

LEMMA ChancesNat ==
  ASSUME OfferInv, NEW s \in Stores
  PROVE  /\ Cardinality(DecidedRecords(s)) \in Nat
         /\ Cardinality(Carriers(s)) \in Nat
         /\ Cardinality(Offering(s)) \in Nat
         /\ One(UndecidedRow(s)) \in {0, 1} /\ One(BackfillComing) \in {0, 1}
         /\ Cardinality(Started) \in Nat /\ restarts \in Nat
         /\ Chances(s) \in Nat
<1>1. /\ Cardinality(DecidedRecords(s)) \in Nat
      /\ Cardinality(Carriers(s)) \in Nat
      /\ Cardinality(Offering(s)) \in Nat
      /\ One(UndecidedRow(s)) \in {0, 1} /\ One(BackfillComing) \in {0, 1}
      /\ Cardinality(Started) \in Nat /\ restarts \in Nat
  BY DecidedRecordsFinite, FS_CardinalityType, ConstantsAssumption
     DEF OfferInv, CountedAt, AloneInv, AuditInv, Typed, TypeOK, One
<1>2. QED
  BY <1>1 DEF Chances

LEMMA AllowedNat ==
  ASSUME OfferInv, OneWorker, NEW s \in Stores
  PROVE  Allowed \in Nat /\ restarts * Cardinality(Workers) \in Nat
<1>1. /\ Cardinality(Workers) \in Nat /\ Cardinality(Started) \in Nat
      /\ restarts \in Nat
  BY ChancesNat, WorkersCount
<1>2. QED
  BY <1>1 DEF Allowed

LEMMA BootCounts ==
  ASSUME OfferInv, OneWorker, NEW k \in Workers, BootStep(k), NEW s \in Stores
  PROVE  CountedAt(s)'
<1>0. /\ boot \in [Workers -> {"down", "read", "seed", "up"}]
      /\ table \in [Stores -> Record \cup {NoRow}] /\ CountedAt(s)
  BY DEF OfferInv, AloneInv, AuditInv, Typed, TypeOK
<1>1. /\ UNCHANGED <<log, requestVars, sweep, restarts>> /\ boot[k] # "up"
  BY DEF BootStep, BootCheck, BootRead, BootSeed, durable
<1>2. /\ Carriers(s)' = Carriers(s) /\ Offering(s)' = Offering(s)
      /\ DecidedRecords(s)' = DecidedRecords(s) /\ Started' = Started /\ Allowed' = Allowed
  BY <1>1 DEF Carriers, Offering, DecidedRecords, RecordsOf, Started, Carries,
     Upserting, Allowed, requestVars
<1>3. BackfillComing' => BackfillComing
  BY <1>1 DEF BackfillComing, OneWorker
<1>4. \/ table' = table
      \/ ~ UndecidedRow(s) /\ ~ BackfillComing' /\ (BackfillComing \/ ~ UndecidedRow(s)')
  <2>1. CASE BootSeed(k)
    <3>1. table = EmptyTable /\ ~ UndecidedRow(s)
      BY <2>1 DEF BootSeed, OfferInv, AloneInv, BootAlone, UndecidedRow, EmptyTable
    <3>2. boot'[k] = "up" /\ ~ BackfillComing'
      BY <1>0, <2>1 DEF BootSeed, BackfillComing, OneWorker
    <3>3. restarts = 0 => table' = table
      BY <1>0, <1>1, <2>1 DEF BootSeed, OfferInv, OffersOrderly, EmptyTable
    <3>4. restarts # 0 => BackfillComing
      BY <1>1 DEF BackfillComing
    <3>5. QED
      BY <3>1, <3>2, <3>3, <3>4
  <2>2. CASE BootCheck(k) \/ BootRead(k)
    BY <2>2 DEF BootCheck, BootRead, durable
  <2>3. QED
    BY <2>1, <2>2 DEF BootStep
<1>5. One(UndecidedRow(s))' + One(BackfillComing)'
         <= One(UndecidedRow(s)) + One(BackfillComing)
  BY <1>3, <1>4 DEF One, UndecidedRow
<1>6. Chances(s)' <= Chances(s) /\ Chances(s)' \in Nat
  BY <1>2, <1>5, ChancesNat DEF Chances, One
<1>7. QED
  BY <1>0, <1>2, <1>6, ChancesNat, AllowedNat DEF CountedAt

LEMMA ArrivalCounts ==
  ASSUME OfferInv, OneWorker, NEW r \in Requests, NEW t \in Stores, NEW s \in Stores,
         PopMissing(r, t) \/ PopRefused(r, t) \/ \E v \in Verbs : PopPending(r, t, v)
  PROVE  CountedAt(s)'
<1>0. /\ pc \in [Requests -> Phases] /\ held \in [Requests -> Record \cup {NoRow}]
      /\ target \in [Requests -> Stores \cup {NoRow}]
      /\ table \in [Stores -> Record \cup {NoRow}] /\ CountedAt(s)
  BY DEF OfferInv, AloneInv, AuditInv, Typed, TypeOK
<1>1. /\ UNCHANGED <<log, bootVars, sweep>> /\ pc[r] = "idle" /\ target'[r] = t
      /\ table' = [table EXCEPT ![t] = NoRow]
      /\ \A q \in Requests \ {r} : /\ pc'[q] = pc[q] /\ held'[q] = held[q]
                                   /\ target'[q] = target[q]
  BY <1>0 DEF PopMissing, PopRefused, PopPending, Pop
<1>2. /\ Offering(s)' = Offering(s) /\ DecidedRecords(s)' = DecidedRecords(s)
      /\ Started' = Started /\ Allowed' = Allowed /\ BackfillComing' = BackfillComing
  BY <1>1 DEF Offering, DecidedRecords, RecordsOf, Started, Carries, Upserting,
     Allowed, BackfillComing, bootVars
<1>3. /\ Carriers(s)' \subseteq Carriers(s) \cup {r}
      /\ r \in Carriers(s)' => s = t /\ UndecidedRow(t)
  <2>1. \A q \in Requests \ {r} : q \in Carriers(s)' => q \in Carriers(s)
    BY <1>1 DEF Carriers
  <2>2. r \in Carriers(s)' => s = t
    BY <1>1 DEF Carriers
  <2>3. r \in Carriers(s)' => UndecidedRow(t)
    BY <1>0 DEF Carriers, PopMissing, PopRefused, PopPending, UndecidedRow, Refusal
  <2>4. QED
    BY <2>1, <2>2, <2>3 DEF Carriers
<1>4. UndecidedRow(s)' => UndecidedRow(s) /\ s # t
  BY <1>0, <1>1 DEF UndecidedRow
<1>5. /\ IsFiniteSet(Carriers(s)')
      /\ Cardinality(Carriers(s)') \in Nat
      /\ Cardinality(Carriers(s)') + One(UndecidedRow(s)')
            <= Cardinality(Carriers(s)) + One(UndecidedRow(s))
  <2>1. CASE r \in Carriers(s)'
    <3>1. UndecidedRow(s) /\ ~ UndecidedRow(s)'
      BY <1>3, <1>4, <2>1
    <3>2. /\ IsFiniteSet(Carriers(s)') /\ Cardinality(Carriers(s)') \in Nat
          /\ Cardinality(Carriers(s)') <= Cardinality(Carriers(s)) + 1
          /\ Cardinality(Carriers(s)) \in Nat
      BY <1>0, <1>3, Gain DEF CountedAt
    <3>3. QED
      BY <3>1, <3>2 DEF One
  <2>2. CASE r \notin Carriers(s)'
    <3>1. Carriers(s)' \subseteq Carriers(s)
      BY <1>3, <2>2
    <3>2. QED
      BY <1>0, <1>4, <3>1, Keep DEF CountedAt, One
  <2>3. QED
    BY <2>1, <2>2
<1>6. Chances(s)' <= Chances(s) /\ Chances(s)' \in Nat
  BY <1>2, <1>5, ChancesNat DEF Chances, One
<1>7. QED
  BY <1>0, <1>2, <1>5, <1>6, ChancesNat, AllowedNat DEF CountedAt

\* A request's step uses an offer up or passes it on.
LEMMA RequestCounts ==
  ASSUME OfferInv, OneWorker, NEW r \in Requests, NEW s \in Stores, RequestStep(r)
  PROVE  CountedAt(s)'
<1>0. /\ pc \in [Requests -> Phases] /\ log \in Seq(Record)
      /\ table \in [Stores -> Record \cup {NoRow}] /\ CountedAt(s)
      /\ pc[r] \in {"putback", "log", "ledger", "writeback"} =>
            held[r] \in Record /\ target[r] \in Stores /\ held[r].store = target[r]
      /\ pc[r] \in {"log", "ledger", "writeback"} => Decided(held[r])
  BY NoRowAssumption DEF OfferInv, AloneInv, AuditInv, Typed, TypeOK, HandsTyped,
     HandsAudited, Deciding, RowsInPlace, Holding, InPlace, RequestInFlight
<1>1. /\ UNCHANGED <<held, target, bootVars, sweep>>
      /\ \A q \in Requests \ {r} : pc'[q] = pc[q]
  BY <1>0 DEF RequestStep, PutBack, LookLog, LookTable, AppendLog, AppendDecision,
     WriteBack
<1>2. /\ Offering(s)' = Offering(s) /\ Started' = Started /\ Allowed' = Allowed
      /\ BackfillComing' = BackfillComing
  BY <1>1 DEF Offering, Started, Carries, Upserting, Allowed, BackfillComing, bootVars
<1>3. /\ \A q \in Requests \ {r} : q \in Carriers(s)' <=> q \in Carriers(s)
      /\ r \notin Carriers(s)'
  BY <1>0, <1>1 DEF Carriers, RequestStep, PutBack, LookLog, LookTable, AppendLog,
     AppendDecision, WriteBack
<1>4. Carriers(s)' \subseteq Carriers(s) \ {r} /\ Carriers(s)' \subseteq Carriers(s)
  BY <1>3 DEF Carriers
<1>5. /\ IsFiniteSet(Carriers(s)') /\ Cardinality(Carriers(s)') \in Nat
      /\ Cardinality(Carriers(s)') <= Cardinality(Carriers(s))
      /\ r \in Carriers(s) => Cardinality(Carriers(s)') + 1 <= Cardinality(Carriers(s))
  BY <1>0, <1>4, Keep, Lose DEF CountedAt
<1>6. /\ Cardinality(DecidedRecords(s)') \in Nat
      /\ \/ Cardinality(DecidedRecords(s)') <= Cardinality(DecidedRecords(s))
         \/ /\ Cardinality(DecidedRecords(s)') <= Cardinality(DecidedRecords(s)) + 1
            /\ table' = table /\ r \in Carriers(s)
  <2>0. IsFiniteSet(DecidedRecords(s))
    BY <1>0, DecidedRecordsFinite
  <2>1. CASE AppendLog(r)
    <3>1. log' = Append(log, held[r]) /\ pc[r] = "log" /\ table' = table
      BY <2>1 DEF AppendLog
    <3>2. \A i \in DOMAIN log' : \/ i \in DOMAIN log /\ log'[i] = log[i]
                                 \/ i = Len(log) + 1 /\ log'[i] = held[r]
      BY <1>0, <3>1, AppendKeeps
    <3>3. CASE target[r] = s
      <4>1. DecidedRecords(s)' \subseteq DecidedRecords(s) \cup {Len(log) + 1}
        BY <3>2 DEF DecidedRecords, RecordsOf
      <4>2. QED
        BY <2>0, <3>1, <3>3, <4>1, Gain DEF Carriers
    <3>4. CASE target[r] # s
      <4>1. DecidedRecords(s)' \subseteq DecidedRecords(s)
        BY <1>0, <3>1, <3>2, <3>4 DEF DecidedRecords, RecordsOf
      <4>2. QED
        BY <2>0, <4>1, Keep
    <3>5. QED
      BY <3>3, <3>4
  <2>2. CASE ~ AppendLog(r)
    <3>1. log' = log
      BY <2>2 DEF RequestStep, PutBack, LookLog, LookTable, AppendDecision, WriteBack,
         durable
    <3>2. DecidedRecords(s)' = DecidedRecords(s)
      BY <3>1 DEF DecidedRecords, RecordsOf
    <3>3. QED
      BY <2>0, <3>2, FS_CardinalityType
  <2>3. QED
    BY <2>1, <2>2
<1>7. \/ UndecidedRow(s)' => UndecidedRow(s)
      \/ log' = log /\ r \in Carriers(s)
  <2>1. CASE table' = table
    BY <2>1 DEF UndecidedRow
  <2>2. CASE PutBack(r) \/ WriteBack(r)
    <3>1. /\ table' = Upsert(target[r], held[r]) /\ log' = log
          /\ pc[r] \in {"putback", "writeback"}
      BY <2>2 DEF PutBack, WriteBack
    <3>2. CASE target[r] = s /\ ~ Decided(held[r])
      BY <1>0, <3>1, <3>2 DEF Carriers
    <3>3. CASE target[r] # s \/ Decided(held[r])
      BY <1>0, <3>1, <3>3 DEF Upsert, UndecidedRow
    <3>4. QED
      BY <3>2, <3>3
  <2>3. QED
    BY <2>1, <2>2 DEF RequestStep, LookLog, LookTable, AppendLog, AppendDecision, durable
<1>8. Chances(s)' <= Chances(s) /\ Chances(s)' \in Nat
  <2>1. log' = log => DecidedRecords(s)' = DecidedRecords(s)
    BY DEF DecidedRecords, RecordsOf
  <2>2. table' = table => UndecidedRow(s)' = UndecidedRow(s)
    BY DEF UndecidedRow
  <2>3. /\ Cardinality(DecidedRecords(s)') + Cardinality(Carriers(s)')
             + One(UndecidedRow(s)')
           <= Cardinality(DecidedRecords(s)) + Cardinality(Carriers(s))
                + One(UndecidedRow(s))
        /\ One(UndecidedRow(s)') \in {0, 1}
    BY <1>5, <1>6, <1>7, <2>1, <2>2, ChancesNat DEF One
  <2>4. QED
    BY <1>2, <1>5, <1>6, <2>3, ChancesNat DEF Chances
<1>9. QED
  BY <1>0, <1>2, <1>5, <1>8, ChancesNat, AllowedNat DEF CountedAt

\* A sweep brings one offer of a store when it starts and uses it when it
\* writes the row; its log lines are undecided.
LEMMA SweepLocal ==
  ASSUME OfferInv, NEW w \in Sweeps, FeedSweep(w) \/ BoardSweep(w) \/ SweepStep(w)
  PROVE  /\ UNCHANGED <<bootVars, requestVars>>
         /\ \A v \in Sweeps \ {w} : sweep'[v] = sweep[v]
         /\ sweep'[w].pc # "idle"
         /\ sweep[w].pc = "idle" => UNCHANGED durable
         /\ \/ log' = log
            \/ \E rec \in Record : ~ Decided(rec) /\ log' = Append(log, rec)
<1>1. sweep \in [Sweeps -> Cohort] /\ SweepsUndecided
  BY DEF OfferInv, AloneInv, AuditInv, Typed, TypeOK
<1>2. UNCHANGED <<bootVars, requestVars>>
  BY DEF FeedSweep, BoardSweep, SweepStep, BoardTable, SnapshotLog, SnapshotTable,
     LogFresh, Recheck, UpsertFresh, SweepEnds
<1>3. CASE FeedSweep(w) \/ BoardSweep(w)
  BY <1>1, <1>2, <1>3 DEF FeedSweep, BoardSweep, durable, Cohort
<1>4. CASE SweepStep(w)
  <2>1. sweep[w].pc # "idle"
    BY <1>4 DEF SweepStep, BoardTable, SnapshotLog, SnapshotTable, LogFresh, Recheck,
       UpsertFresh, SweepEnds
  <2>2. CASE BoardTable(w)
    <3>1. PICK batch :
             sweep' = [sweep EXCEPT
                        ![w] = IF sweep[w].todo \cup batch = {} THEN SweepAt("done")
                               ELSE [SweepAt("evaluated") EXCEPT
                                        !.todo = sweep[w].todo \cup batch]]
      BY <2>2 DEF BoardTable
    <3>2. \A v \in Sweeps \ {w} : sweep'[v] = sweep[v]
      BY <1>1, <3>1
    <3>3. sweep'[w].pc # "idle"
      BY <1>1, <3>1 DEF SweepAt
    <3>4. QED
      BY <1>2, <2>1, <2>2, <3>2, <3>3 DEF BoardTable, durable
  <2>3. CASE SnapshotLog(w) \/ SnapshotTable(w)
    <3>1. log' = log
      BY <2>3 DEF SnapshotLog, SnapshotTable, durable
    <3>2. sweep'[w].pc # "idle" /\ \A v \in Sweeps \ {w} : sweep'[v] = sweep[v]
      <4>1. CASE SnapshotLog(w)
        <5>1. sweep' = [sweep EXCEPT ![w] = sweep'[w]] /\ sweep'[w].pc = "snapshot"
          BY <1>1, <4>1 DEF SnapshotLog, Cohort
        <5>2. QED
          BY <1>1, <5>1
      <4>2. CASE SnapshotTable(w)
        BY <1>1, <4>2 DEF SnapshotTable, SweepAt, Cohort
      <4>3. QED
        BY <2>3, <4>1, <4>2
    <3>3. QED
      BY <1>2, <2>1, <3>1, <3>2
  <2>4. ASSUME NEW rec \in sweep[w].todo, LogFresh(w, rec)
        PROVE  /\ \A v \in Sweeps \ {w} : sweep'[v] = sweep[v]
               /\ sweep'[w].pc # "idle"
               /\ log' = log \/ (~ Decided(rec) /\ rec \in Record /\ log' = Append(log, rec))
    BY <1>1, <2>1, <2>4 DEF LogFresh, Cohort, SweepsUndecided
  <2>5. CASE Recheck(w) \/ UpsertFresh(w) \/ SweepEnds(w)
    BY <1>1, <1>2, <2>1, <2>5 DEF Recheck, UpsertFresh, SweepEnds, SweepAt, durable, Cohort
  <2>6. QED
    BY <1>2, <1>4, <2>1, <2>2, <2>3, <2>4, <2>5 DEF SweepStep
<1>5. QED
  BY <1>3, <1>4

LEMMA OfferOfSweep ==
  ASSUME OfferInv, NEW w \in Sweeps, NEW s \in Stores, SweepStep(w)
  PROVE  /\ w \in Offering(s)' => w \in Offering(s)
         /\ UndecidedRow(s)' => \/ UndecidedRow(s)
                                \/ w \in Offering(s) /\ w \notin Offering(s)'
<1>1. /\ sweep \in [Sweeps -> Cohort] /\ table \in [Stores -> Record \cup {NoRow}]
      /\ sweep[w] \in Cohort
  BY DEF OfferInv, AloneInv, AuditInv, Typed, TypeOK
<1>2. CASE BoardTable(w) \/ SnapshotLog(w) \/ SnapshotTable(w) \/ SweepEnds(w)
  <2>1. UndecidedRow(s)' => UndecidedRow(s)
    BY <1>2 DEF BoardTable, SnapshotLog, SnapshotTable, SweepEnds, UndecidedRow, durable
  <2>2. CASE BoardTable(w)
    BY <2>1, <2>2 DEF BoardTable, Offering
  <2>3. CASE SnapshotLog(w)
    BY <2>1, <2>3 DEF SnapshotLog, Offering
  <2>4. CASE SnapshotTable(w)
    BY <2>1, <2>4 DEF SnapshotTable, Offering
  <2>5. CASE SweepEnds(w)
    BY <1>1, <2>1, <2>5 DEF SweepEnds, SweepAt, Offering, Upserting, Carries
  <2>6. QED
    BY <1>2, <2>1, <2>2, <2>3, <2>4, <2>5
<1>3. ASSUME NEW rec \in sweep[w].todo, LogFresh(w, rec)
      PROVE  /\ w \in Offering(s)' => w \in Offering(s)
             /\ UndecidedRow(s)' => UndecidedRow(s)
  BY <1>1, <1>3 DEF LogFresh, Offering, Upserting, Carries, UndecidedRow, Cohort
<1>4. CASE Recheck(w)
  BY <1>1, <1>4 DEF Recheck, Offering, Upserting, Carries, UndecidedRow, durable
<1>5. CASE UpsertFresh(w)
  <2>1. /\ sweep[w].pc = "upsert" /\ sweep[w].cur \in Record
        /\ table' = Upsert(sweep[w].cur.store, sweep[w].cur)
        /\ sweep'[w] = [sweep[w] EXCEPT !.pc = "loop", !.cur = NoRow]
        /\ ~ Carries(w, sweep[w].cur.store)
    BY <1>1, <1>5 DEF UpsertFresh, OfferInv, OffersOrderly, Upserting
  <2>2. sweep'[w].pc = "loop" /\ sweep'[w].todo = sweep[w].todo
    BY <1>1, <2>1 DEF Cohort
  <2>3. w \in Offering(s)' <=> Carries(w, s)
    BY <2>2 DEF Offering, Upserting, Carries
  <2>4. w \in Offering(s) <=> Carries(w, s) \/ sweep[w].cur.store = s
    BY <2>1 DEF Offering, Upserting
  <2>5. sweep[w].cur.store # s => table'[s] = table[s]
    BY <1>1, <2>1 DEF Upsert
  <2>6. QED
    BY <2>1, <2>3, <2>4, <2>5 DEF UndecidedRow
<1>6. QED
  BY <1>2, <1>3, <1>4, <1>5 DEF SweepStep

LEMMA SweepCounts ==
  ASSUME OfferInv, OneWorker, NEW w \in Sweeps, NEW s \in Stores,
         FeedSweep(w) \/ BoardSweep(w) \/ SweepStep(w)
  PROVE  CountedAt(s)'
<1>0. CountedAt(s) /\ log \in Seq(Record) /\ sweep \in [Sweeps -> Cohort]
  BY DEF OfferInv, AloneInv, AuditInv, Typed, TypeOK
<1>1. /\ UNCHANGED <<bootVars, requestVars>>
      /\ \A v \in Sweeps \ {w} : sweep'[v] = sweep[v]
      /\ sweep'[w].pc # "idle"
      /\ sweep[w].pc = "idle" => UNCHANGED durable
  BY SweepLocal
<1>2. Carriers(s)' = Carriers(s) /\ BackfillComing' = BackfillComing
      /\ restarts' = restarts
  BY <1>1 DEF Carriers, BackfillComing, requestVars, bootVars
<1>3. DecidedRecords(s)' = DecidedRecords(s)
  <2>1. CASE log' = log
    BY <2>1 DEF DecidedRecords, RecordsOf
  <2>2. ASSUME NEW rec \in Record, ~ Decided(rec), log' = Append(log, rec)
        PROVE  DecidedRecords(s)' = DecidedRecords(s)
    <3>1. /\ \A i \in DOMAIN log' : \/ i \in DOMAIN log /\ log'[i] = log[i]
                                    \/ log'[i] = rec
      BY <1>0, <2>2, AppendKeeps
    <3>2. \A i \in DOMAIN log : i \in DOMAIN log' /\ log'[i] = log[i]
      BY <1>0, <2>2, AppendProperties
    <3>3. QED
      BY <2>2, <3>1, <3>2 DEF DecidedRecords, RecordsOf
  <2>3. QED
    BY <2>1, <2>2, SweepLocal
<1>4. \A v \in Sweeps \ {w} : /\ v \in Offering(s)' <=> v \in Offering(s)
                              /\ v \in Started' <=> v \in Started
  BY <1>1 DEF Offering, Started, Upserting, Carries
<1>5. CASE sweep[w].pc = "idle"
  <2>1. w \notin Started /\ Started' = Started \cup {w}
    BY <1>1, <1>4, <1>5 DEF Started
  <2>2. Offering(s)' \subseteq Offering(s) \cup {w}
    BY <1>4 DEF Offering
  <2>3. /\ IsFiniteSet(Started') /\ Cardinality(Started') = Cardinality(Started) + 1
    BY <1>0, <2>1, FS_AddElement DEF CountedAt
  <2>4. /\ IsFiniteSet(Offering(s)') /\ Cardinality(Offering(s)') \in Nat
        /\ Cardinality(Offering(s)') <= Cardinality(Offering(s)) + 1
    BY <1>0, <2>2, Gain DEF CountedAt
  <2>5. UndecidedRow(s)' = UndecidedRow(s)
    BY <1>1, <1>5 DEF UndecidedRow, durable
  <2>6. /\ Chances(s)' <= Chances(s) + 1 /\ Chances(s)' \in Nat
        /\ Allowed' = Allowed + 1
    BY <1>2, <1>3, <2>3, <2>4, <2>5, ChancesNat, AllowedNat DEF Chances, Allowed
  <2>7. QED
    BY <1>0, <1>2, <2>3, <2>4, <2>6, ChancesNat, AllowedNat DEF CountedAt
<1>6. CASE sweep[w].pc # "idle"
  <2>1. Started' = Started /\ Allowed' = Allowed
    <3>1. Started' = Started
      BY <1>1, <1>4, <1>6 DEF Started
    <3>2. QED
      BY <1>2, <3>1 DEF Allowed
  <2>2. SweepStep(w)
    BY <1>6 DEF FeedSweep, BoardSweep
  <2>3. Offering(s)' \subseteq Offering(s)
    BY <1>4, <2>2, OfferOfSweep DEF Offering
  <2>4. w \in Offering(s) /\ w \notin Offering(s)' => Offering(s)' \subseteq Offering(s) \ {w}
    BY <2>3
  <2>5. /\ IsFiniteSet(Offering(s)') /\ Cardinality(Offering(s)') \in Nat
        /\ Cardinality(Offering(s)') <= Cardinality(Offering(s))
        /\ w \in Offering(s) /\ w \notin Offering(s)' =>
              Cardinality(Offering(s)') + 1 <= Cardinality(Offering(s))
    BY <1>0, <2>3, <2>4, Keep, Lose DEF CountedAt
  <2>6. Cardinality(Offering(s)') + One(UndecidedRow(s)')
           <= Cardinality(Offering(s)) + One(UndecidedRow(s))
    BY <2>2, <2>5, OfferOfSweep, ChancesNat DEF One
  <2>7. Chances(s)' <= Chances(s) /\ Chances(s)' \in Nat
    BY <1>2, <1>3, <2>5, <2>6, ChancesNat DEF Chances, One
  <2>8. QED
    BY <1>0, <1>2, <2>1, <2>5, <2>7, ChancesNat, AllowedNat DEF CountedAt
<1>7. QED
  BY <1>5, <1>6

LEMMA FailureCounts ==
  ASSUME OfferInv, OneWorker, Failure, NEW s \in Stores
  PROVE  CountedAt(s)'
<1>0. /\ sweep \in [Sweeps -> Cohort] /\ pc \in [Requests -> Phases] /\ CountedAt(s)
      /\ restarts \in Nat /\ IsFiniteSet(DecidedRecords(s))
  BY DecidedRecordsFinite, ConstantsAssumption
     DEF OfferInv, AloneInv, AuditInv, Typed, TypeOK
<1>1. /\ held' = held /\ target' = target
      /\ log' \in {log, <<>>} /\ table' \in {table, EmptyTable}
      /\ \A q \in Requests : pc'[q] \in {pc[q], "failed"}
      /\ \A w \in Sweeps :
            \/ sweep'[w] = sweep[w]
            \/ sweep[w].pc # "idle" /\ sweep'[w] = SweepAt("failed")
  BY <1>0 DEF Failure, FailRequest, FailSweep, Redeploy, durable, requestVars,
     SweepInFlight
<1>2. Carriers(s)' \subseteq Carriers(s)
  BY <1>1 DEF Carriers
<1>3. Offering(s)' \subseteq Offering(s) /\ Started' = Started
  BY <1>1 DEF Offering, Started, Upserting, Carries, SweepAt
<1>4. DecidedRecords(s)' \subseteq DecidedRecords(s)
  BY <1>1 DEF DecidedRecords, RecordsOf
<1>5. UndecidedRow(s)' => UndecidedRow(s)
  BY <1>1 DEF UndecidedRow, EmptyTable
<1>6. \/ restarts' = restarts /\ BackfillComing' = BackfillComing
      \/ restarts' = restarts + 1 /\ (BackfillComing' => Workers # {})
  BY DEF Failure, FailRequest, FailSweep, Redeploy, bootVars, BackfillComing
<1>7. /\ IsFiniteSet(Carriers(s)') /\ Cardinality(Carriers(s)') \in Nat
      /\ Cardinality(Carriers(s)') <= Cardinality(Carriers(s))
      /\ IsFiniteSet(Offering(s)') /\ Cardinality(Offering(s)') \in Nat
      /\ Cardinality(Offering(s)') <= Cardinality(Offering(s))
      /\ Cardinality(DecidedRecords(s)') \in Nat
      /\ Cardinality(DecidedRecords(s)') <= Cardinality(DecidedRecords(s))
  BY <1>0, <1>2, <1>3, <1>4, Keep DEF CountedAt
<1>8. /\ Chances(s)' \in Nat
      /\ Chances(s)' <= Chances(s) - One(BackfillComing) + One(BackfillComing)'
  BY <1>5, <1>7, ChancesNat DEF Chances, One
<1>9. /\ Allowed' \in Nat
      /\ One(BackfillComing)' + Allowed <= One(BackfillComing) + Allowed'
  <2>1. CASE restarts' = restarts /\ BackfillComing' = BackfillComing
    BY <1>3, <2>1, AllowedNat DEF Allowed, One
  <2>2. CASE restarts' = restarts + 1 /\ (BackfillComing' => Workers # {})
    <3>1. /\ Allowed = Cardinality(Started) + restarts * Cardinality(Workers)
          /\ Allowed' = Cardinality(Started) + (restarts + 1) * Cardinality(Workers)
      BY <1>3, <2>2 DEF Allowed
    <3>2. CASE Workers = {}
      BY <1>0, <2>2, <3>1, <3>2, FS_EmptySet, ChancesNat DEF One
    <3>3. CASE Workers # {}
      <4>1. Allowed = Cardinality(Started) + restarts /\ Allowed' = Allowed + 1
        BY <1>0, <3>1, <3>3, WorkersCount, ChancesNat
      <4>2. QED
        BY <4>1, AllowedNat DEF One
    <3>4. QED
      BY <3>2, <3>3
  <2>3. QED
    BY <1>6, <2>1, <2>2
<1>10. Chances(s)' <= Allowed'
  BY <1>0, <1>8, <1>9, ChancesNat, AllowedNat DEF CountedAt, One
<1>11. QED
  BY <1>0, <1>3, <1>7, <1>10 DEF CountedAt

\* A batch holds one record per store from the batch check on.
LEMMA OrderlySweep ==
  ASSUME OfferInv, OneWorker, NEW w \in Sweeps, FeedSweep(w) \/ BoardSweep(w) \/ SweepStep(w)
  PROVE  OffersOrderly'
<1>1. /\ sweep \in [Sweeps -> Cohort] /\ sweep[w] \in Cohort /\ OffersOrderly
      /\ \A v \in Sweeps \ {w} : sweep'[v] = sweep[v]
      /\ UNCHANGED bootVars
  BY SweepLocal DEF OfferInv, AloneInv, AuditInv, Typed, TypeOK
<1>2. \A k \in Workers : boot[k] = "up"
  BY NothingRunsUnlessUp DEF OfferInv, AloneInv, Serving, OneWorker
<1>3. /\ sweep'[w].pc \in {"snapshot", "loop", "recheck", "upsert"} =>
            \A a, b \in sweep'[w].todo : a.store = b.store => a = b
      /\ sweep'[w].pc \in {"recheck", "upsert"} =>
            /\ sweep'[w].cur \in Record
            /\ \A rec \in sweep'[w].todo : rec.store # sweep'[w].cur.store
  <2>1. CASE FeedSweep(w) \/ BoardSweep(w)
    <3>1. CASE FeedSweep(w)
      <4>1. sweep'[w].pc = "evaluated"
        <5>1. PICK batch : sweep' = [sweep EXCEPT ![w].pc = "evaluated", ![w].todo = batch]
          BY <3>1 DEF FeedSweep
        <5>2. QED
          BY <1>1, <5>1 DEF Cohort
      <4>2. QED
        BY <4>1
    <3>2. CASE BoardSweep(w)
      <4>1. sweep'[w].pc = "board"
        <5>1. PICK batch, stores :
                 sweep' = [sweep EXCEPT ![w].pc = "board", ![w].todo = batch,
                                        ![w].decided = stores]
          BY <3>2 DEF BoardSweep
        <5>2. QED
          BY <1>1, <5>1 DEF Cohort
      <4>2. QED
        BY <4>1
    <3>3. QED
      BY <2>1, <3>1, <3>2
  <2>2. CASE BoardTable(w)
    <3>1. PICK batch :
             sweep' = [sweep EXCEPT
                        ![w] = IF sweep[w].todo \cup batch = {} THEN SweepAt("done")
                               ELSE [SweepAt("evaluated") EXCEPT
                                        !.todo = sweep[w].todo \cup batch]]
      BY <2>2 DEF BoardTable
    <3>2. sweep'[w].pc \in {"done", "evaluated"}
      BY <1>1, <3>1 DEF SweepAt
    <3>3. QED
      BY <3>2
  <2>3. CASE SnapshotLog(w)
    BY <1>1, <2>3 DEF SnapshotLog, VerifyBatch, Cohort
  <2>4. CASE SnapshotTable(w)
    <3>1. \/ sweep' = [sweep EXCEPT ![w] = SweepAt("done")]
          \/ /\ sweep'[w].pc = "loop" /\ sweep'[w].todo = sweep[w].todo
             /\ sweep[w].pc = "snapshot"
      BY <1>1, <2>4 DEF SnapshotTable, Cohort
    <3>2. CASE sweep' = [sweep EXCEPT ![w] = SweepAt("done")]
      BY <1>1, <3>2 DEF SweepAt
    <3>3. CASE /\ sweep'[w].pc = "loop" /\ sweep'[w].todo = sweep[w].todo
               /\ sweep[w].pc = "snapshot"
      BY <1>1, <3>3 DEF OffersOrderly
    <3>4. QED
      BY <3>1, <3>2, <3>3
  <2>5. ASSUME NEW rec \in sweep[w].todo, LogFresh(w, rec)
        PROVE  /\ sweep'[w].todo = sweep[w].todo \ {rec}
               /\ sweep'[w].pc = "loop"
                    \/ (sweep'[w].pc = "recheck" /\ sweep'[w].cur = rec)
               /\ sweep[w].pc = "loop" /\ rec \in Record
    BY <1>1, <2>5 DEF LogFresh, Cohort
  <2>6. CASE Recheck(w)
    BY <1>1, <2>6 DEF Recheck, Cohort, OffersOrderly, Upserting, Carries
  <2>7. CASE UpsertFresh(w)
    BY <1>1, <2>7 DEF UpsertFresh, Cohort, OffersOrderly
  <2>8. CASE SweepEnds(w)
    BY <1>1, <2>8 DEF SweepEnds, SweepAt
  <2>9. CASE \E rec \in sweep[w].todo : LogFresh(w, rec)
    BY <1>1, <2>5, <2>9 DEF OffersOrderly
  <2>10. QED
    BY <2>1, <2>2, <2>3, <2>4, <2>6, <2>7, <2>8, <2>9 DEF SweepStep
<1>4. QED
  BY <1>1, <1>2, <1>3 DEF OffersOrderly, Upserting, Carries, bootVars

LEMMA OrderlyNext ==
  ASSUME OfferInv, OneWorker, [Next]_vars PROVE OffersOrderly'
<1>0. /\ boot \in [Workers -> {"down", "read", "seed", "up"}] /\ OffersOrderly
      /\ sweep \in [Sweeps -> Cohort] /\ restarts \in Nat
  BY ConstantsAssumption DEF OfferInv, AloneInv, AuditInv, Typed, TypeOK
<1>1. ASSUME NEW k \in Workers, BootStep(k) PROVE OffersOrderly'
  <2>1. UNCHANGED <<log, restarts, sweep>> /\ boot[k] # "up"
    BY <1>1 DEF BootStep, BootCheck, BootRead, BootSeed, durable
  <2>2. log = <<>> /\ restarts = 0 => seed'[k] = EmptyTable \/ boot'[k] = "up"
    <3>1. log = <<>> => \A s \in Stores : LastRecord(s) = NoRow
      BY DEF LastRecord, RecordsOf
    <3>2. seed \in [Workers -> [Stores -> Record \cup {NoRow}]]
      BY DEF OfferInv, AloneInv, AuditInv, Typed, TypeOK
    <3>3. QED
      BY <1>0, <1>1, <2>1, <3>1, <3>2
         DEF BootStep, BootCheck, BootRead, BootSeed, EmptyTable, OffersOrderly
  <2>3. QED
    BY <1>0, <2>1, <2>2 DEF OffersOrderly, Upserting, Carries, OneWorker
<1>2. ASSUME NEW r \in Requests, Arrive(r) \/ RequestStep(r) PROVE OffersOrderly'
  <2>1. \A k \in Workers : boot[k] = "up"
    BY <1>2, NothingRunsUnlessUp DEF OfferInv, AloneInv, Serving, OneWorker
  <2>2. UNCHANGED <<bootVars, sweep>>
    BY <1>2 DEF Arrive, PopMissing, PopRefused, PopPending, Pop, RequestStep, PutBack,
       LookLog, LookTable, AppendLog, AppendDecision, WriteBack
  <2>3. QED
    BY <1>0, <2>1, <2>2 DEF OffersOrderly, Upserting, Carries, bootVars
<1>3. ASSUME Failure PROVE OffersOrderly'
  <2>1. /\ \A w \in Sweeps : sweep'[w] = sweep[w] \/ sweep'[w].pc = "failed"
        /\ restarts' # 0 \/ UNCHANGED <<log, boot, seed, restarts>>
    BY <1>0, <1>3 DEF Failure, FailRequest, FailSweep, Redeploy, durable, bootVars,
       SweepAt
  <2>2. QED
    BY <1>0, <2>1 DEF OffersOrderly, Upserting, Carries
<1>4. UNCHANGED vars => OffersOrderly'
  BY <1>0 DEF vars, durable, bootVars, OffersOrderly, Upserting, Carries
<1>5. QED
  BY <1>1, <1>2, <1>3, <1>4, OrderlySweep DEF Next, Steady

LEMMA OfferInit == ASSUME OneWorker, Init PROVE OfferInv
<1>1. AloneInv /\ RowsInPlace
  BY AloneInit, SteadyInit DEF SteadyInv
<1>2. OffersOrderly
  BY DEF Init, OffersOrderly, Upserting, SweepAt
<1>3. ASSUME NEW s \in Stores PROVE CountedAt(s)
  <2>1. /\ Started = {} /\ Carriers(s) = {} /\ Offering(s) = {}
        /\ DecidedRecords(s) = {} /\ ~ UndecidedRow(s) /\ ~ BackfillComing
        /\ restarts = 0
    BY <1>3 DEF Init, Started, Carriers, Offering, Upserting, DecidedRecords, RecordsOf,
       UndecidedRow, BackfillComing, EmptyTable, SweepAt
  <2>2. QED
    <3>1. 0 * Cardinality(Workers) = 0
      BY WorkersCount
    <3>2. Chances(s) = 0 /\ Allowed = 0
      BY <2>1, <3>1, FS_EmptySet DEF Chances, Allowed, One
    <3>3. QED
      BY <2>1, <3>2, FS_EmptySet DEF CountedAt
<1>4. QED
  BY <1>1, <1>2, <1>3 DEF OfferInv

LEMMA OfferNext == ASSUME OneWorker, OfferInv, [Next]_vars PROVE OfferInv'
<1>1. AloneInv' /\ RowsInPlace' /\ OffersOrderly'
  BY AloneNext, InPlaceNext, OrderlyNext DEF OfferInv, AloneInv
<1>2. ASSUME NEW s \in Stores PROVE CountedAt(s)'
  <2>1. CASE UNCHANGED vars
    BY <1>2, <2>1 DEF vars, durable, bootVars, requestVars, OfferInv, CountedAt, Chances,
       Allowed, Started, Carriers, Offering, Upserting, Carries, DecidedRecords,
       RecordsOf, UndecidedRow, BackfillComing
  <2>2. QED
    BY <1>2, <2>1, BootCounts, ArrivalCounts, RequestCounts, SweepCounts, FailureCounts
       DEF Next, Steady, Arrive
<1>3. QED
  BY <1>1, <1>2 DEF OfferInv

\* With one worker per table, a store is decided at most once for each sweep
\* that ran and each redeploy's backfill, whatever races or dies: pop is one
\* transaction (app/state.py), so of any number of calls on one offered row
\* only one decides it.
THEOREM OneDecisionForEachOffer ==
  ASSUME OneWorker PROVE Spec => []OneDecisionPerOffer
<1>1. OfferInv => OneDecisionPerOffer
  <2> SUFFICES ASSUME OfferInv PROVE OneDecisionPerOffer
    OBVIOUS
  <2>1. restarts + 0 = restarts
    BY ConstantsAssumption DEF OfferInv, AloneInv, AuditInv, Typed, TypeOK
  <2>2. ~ \E k, j \in Workers : k # j /\ Up(k) /\ Up(j)
    BY DEF OneWorker
  <2>3. Backfills = restarts * Cardinality(Workers)
    BY <2>1, <2>2 DEF Backfills
  <2>4. ASSUME NEW s \in Stores PROVE Cardinality(DecidedRecords(s)) <= Allowed
    <3>1. Chances(s) <= Allowed
      BY <2>4 DEF OfferInv, CountedAt
    <3>2. QED
      BY <2>4, <3>1, ChancesNat, AllowedNat DEF Chances
  <2>5. QED
    BY <2>3, <2>4 DEF OneDecisionPerOffer, Allowed, Started
<1>2. OfferInv /\ [Next]_vars => OfferInv'
  BY OfferNext
<1>3. QED
  BY <1>1, <1>2, OfferInit, PTL DEF Spec

=============================================================================
