-------------------------------- MODULE Board -------------------------------
(***************************************************************************)
(* The status board and the cards: what a stakeholder is told about every  *)
(* store while sweeps and decisions go on (presentation/board.py,          *)
(* presentation/cards.py, app/monitor.py, the read endpoints of            *)
(* app/main.py).                                                           *)
(*                                                                         *)
(* A board is put together from the approval queue, out of the latest      *)
(* record store (rows), and the records, out of the log, rows filling in   *)
(* the stores the log lacks.  A sweep writes the log and then the row,     *)
(* store by store; a decision pops the row and puts it back decided.       *)
(* DecisionLoop has those writers in full; here they are as far as a       *)
(* reader can tell their steps apart.  Both reads see one state here; of a *)
(* board a write came between nothing is claimed.                          *)
(***************************************************************************)
EXTENDS DecisionRules, Sequences, FiniteSets

CONSTANTS Stores,       \* a set of integers
          Batches,      \* what one sweep can say of the stores
          Legacy,       \* contents logged before the approval flag existed
          MaxRecords, MaxRedeploys,
          NoRecord

Content == [action : ValidRecommendations, health : Int, recovery : Int, remaining : Int,
            confidence : Int, signal : BOOLEAN, status : {"AVAILABLE", "NO_DATA", "ERROR"},
            evidence : STRING, assessment : STRING, causal : STRING]

Verdicts == {"none", "approve", "reject"}

BoardRec == [store : Int, action : ValidRecommendations, health : Int, recovery : Int,
             remaining : Int, confidence : Int, signal : BOOLEAN,
             status : {"AVAILABLE", "NO_DATA", "ERROR"}, evidence : STRING, assessment : STRING,
             causal : STRING, gated : BOOLEAN, decision : Verdicts]

\* no_data_recommendation: without a forecast nothing is scored.
Unscored(c) == c.health = 0 /\ c.status # "AVAILABLE"

ASSUME BoardAssumption ==
    /\ Stores \subseteq Int /\ IsFiniteSet(Stores) /\ Stores # {}
    /\ Batches \subseteq [Stores -> Content] /\ Legacy \subseteq Content
    /\ \A c \in Legacy \cup UNION {{batch[s] : s \in Stores} : batch \in Batches} :
          c.signal \/ Unscored(c)
    /\ MaxRecords \in Nat /\ MaxRedeploys \in Nat
    /\ NoRecord \notin BoardRec

Record(s, c, flag, verdict) ==
    [store |-> s, action |-> c.action, health |-> c.health, recovery |-> c.recovery,
     remaining |-> c.remaining, confidence |-> c.confidence, signal |-> c.signal,
     status |-> c.status, evidence |-> c.evidence, assessment |-> c.assessment,
     causal |-> c.causal, gated |-> flag, decision |-> verdict]

Evaluated(s, c) == Record(s, c, c.action \in Gated, "none")

\* The deterministic id: decision content, without clock, flag and verdict.
RecommendationId(rec) == [rec EXCEPT !.gated = FALSE, !.decision = "none"]

VARIABLES
    log, rows,          \* the durable objects
    sweep,              \* the sweep going on
    popped,             \* the request being answered, its row popped
    redeploys,
    ever, gone          \* history: stores a sweep has stored a row of; stores
                        \* whose popped row died with its request, until the
                        \* next sweep stores one

board == <<log, rows, sweep, popped, redeploys, ever, gone>>

NoSweep == [phase |-> "idle", todo |-> {}]

-----------------------------------------------------------------------------
(* The durable objects.                                                    *)

Of(set, s) == {rec \in set : rec.store = s}
LogSet == {log[i] : i \in DOMAIN log}

\* latest_by_store: the last record of the log wins.
LastLogged(s) ==
    LET at == {i \in DOMAIN log : log[i].store = s}
    IN IF at = {} THEN NoRecord ELSE log[CHOOSE i \in at : \A j \in at : j <= i]

\* Rows as they are kept: at most one per store.
RowOf(s) == IF Of(rows, s) = {} THEN NoRecord ELSE CHOOSE rec \in Of(rows, s) : TRUE
Decided(rec) == rec # NoRecord /\ rec.decision # "none"

\* Faulty variant: the row of the store is not replaced.
InsertRow(rec) == IF Decided(RowOf(rec.store)) THEN rows ELSE rows \cup {rec}

\* __setitem__: never an undecided record over a decided row.
Upsert(rec) == IF Decided(RowOf(rec.store)) THEN rows
               ELSE (rows \ Of(rows, rec.store)) \cup {rec}

\* _gated_pending_records.
ApprovalQueue == {rec \in rows : rec.gated /\ rec.decision = "none"}

\* Faulty variant: the rows stand in only for an empty log.
ReadableAllOrNothing ==
    {rec \in {IF log # <<>> THEN LastLogged(s) ELSE RowOf(s) : s \in Stores} : rec # NoRecord}

\* _readable_records, the latest per store: log wins, rows fill the gaps.
Readable == {rec \in {IF LastLogged(s) # NoRecord THEN LastLogged(s) ELSE RowOf(s) :
                        s \in Stores} : rec # NoRecord}

BackfilledRows == {rec \in {LastLogged(s) : s \in Stores} : rec # NoRecord}

-----------------------------------------------------------------------------
(* The writers.                                                            *)

\* _no_usable_forecast.
Outage(results) == LET statuses == {rec.status : rec \in results}
                   IN "ERROR" \in statuses /\ "AVAILABLE" \notin statuses

\* _evaluate_and_persist_stores, up to its snapshots: what is to be written, and
\* what the log and the rows said of it.
StartSweep ==
    /\ sweep = NoSweep
    /\ \E result \in Batches :
          LET records == {Evaluated(s, result[s]) : s \in Stores}
              logged == {RecommendationId(rec) : rec \in LogSet}
          IN /\ Len(log) + Cardinality({rec \in records : RecommendationId(rec) \notin logged})
                    <= MaxRecords
             /\ ~(Outage(records) /\ (log # <<>> \/ rows # {}))
             /\ sweep' = [phase |-> "log",
                          todo |-> {[rec |-> rec, logged |-> RecommendationId(rec) \in logged,
                                     decided |-> \E r \in Of(LogSet \cup rows, rec.store) : Decided(r)] :
                                      rec \in records}]
    /\ UNCHANGED <<log, rows, popped, redeploys, ever, gone>>

Item == CHOOSE item \in sweep.todo : \A other \in sweep.todo : item.rec.store <= other.rec.store

LogRecord ==
    /\ sweep.phase = "log"
    /\ log' = IF Item.logged THEN log ELSE Append(log, Item.rec)
    /\ sweep' = [sweep EXCEPT !.phase = "row"]
    /\ UNCHANGED <<rows, popped, redeploys, ever, gone>>

StoreRow ==
    /\ sweep.phase = "row"
    /\ rows' = IF Item.decided THEN rows ELSE Upsert(Item.rec)
    /\ sweep' = IF sweep.todo = {Item} THEN NoSweep ELSE [phase |-> "log", todo |-> sweep.todo \ {Item}]
    /\ ever' = ever \cup {Item.rec.store}
    /\ gone' = gone \ {row.store : row \in rows'}
    /\ UNCHANGED <<log, popped, redeploys>>

\* approve and reject: the row, whatever it says, is gone until the decision is
\* written or the row put back.
PopRow(s) ==
    /\ popped = NoRecord /\ RowOf(s) # NoRecord
    /\ Len(log) < MaxRecords
    /\ popped' = RowOf(s)
    /\ rows' = rows \ {RowOf(s)}
    /\ UNCHANGED <<log, sweep, redeploys, ever, gone>>

LogDecision ==
    /\ popped # NoRecord
    /\ popped.gated /\ ~Decided(popped)
    /\ \E verdict \in Verdicts \ {"none"} : popped' = [popped EXCEPT !.decision = verdict]
    /\ log' = Append(log, popped')
    /\ UNCHANGED <<rows, sweep, redeploys, ever, gone>>

\* The decided record, or the record there was nothing to decide about.  (The
\* decision-time gate only refuses what another version's policy made.)
PutBack ==
    /\ popped # NoRecord
    /\ ~popped.gated \/ Decided(popped)
    /\ rows' = Upsert(popped)
    /\ popped' = NoRecord
    /\ UNCHANGED <<log, sweep, redeploys, ever, gone>>

\* A request that raises on the way takes the row along.
FailDecision ==
    /\ popped # NoRecord
    /\ popped' = NoRecord
    /\ gone' = gone \cup {popped.store}
    /\ UNCHANGED <<log, rows, sweep, redeploys, ever>>

\* A redeploy kills what runs; a diskless one loses the log, a new database the
\* rows, and an empty table is filled from the log.  (Losing the log and then the
\* rows loses everything: with one redeploy the copies are lost one at most.)
Redeploy ==
    /\ redeploys < MaxRedeploys
    /\ redeploys' = redeploys + 1
    /\ \/ log' = <<>> /\ rows' = rows
       \/ log' = log /\ rows' = BackfilledRows
       \/ log' = log /\ rows' = IF rows = {} THEN BackfilledRows ELSE rows
    /\ sweep' = NoSweep /\ popped' = NoRecord
    /\ gone' = IF popped = NoRecord THEN gone ELSE gone \cup {popped.store}
    /\ UNCHANGED ever

BoardInit ==
    /\ log = <<>> \/ \E s \in Stores, c \in Legacy : log = <<Record(s, c, FALSE, "none")>>
    /\ rows = BackfilledRows
    /\ sweep = NoSweep /\ popped = NoRecord /\ redeploys = 0
    /\ ever = {rec.store : rec \in rows} /\ gone = {}

BoardNext ==
    \/ StartSweep \/ LogRecord \/ StoreRow
    \/ \E s \in Stores : PopRow(s)
    \/ LogDecision \/ PutBack \/ FailDecision \/ Redeploy

BoardSpec == BoardInit /\ [][BoardNext]_board

-----------------------------------------------------------------------------
(* What the served board says of a shown record.                           *)

\* Faulty variant: a store without a forecast is not counted.
NeedsForecast(rec) == rec.signal /\ (rec.gated \/ rec.action \in Gated)

\* _gated: the policy, or the flag.
NeedsDecision(rec) == rec.gated \/ rec.action \in Gated

\* _decision_status.
Status(rec) == IF \E q \in ApprovalQueue : q.store = rec.store THEN "awaiting_decision"
               ELSE IF rec.decision = "approve" THEN "approved"
               ELSE IF rec.decision = "reject" THEN "rejected" ELSE "none"

\* rank_attention: 1 for the store served first, 0 for a store not in the queue.
Rank(s) == LET own == Of(ApprovalQueue, s)
           IN IF own = {} THEN 0
              ELSE 1 + Cardinality({q \in ApprovalQueue : \E o \in own : Before(q, o)})

\* _sort_buckets, the intervention bucket: ranked stores by rank, the others last.
ListedBefore(a, b) ==
    IF (Rank(a.store) = 0) # (Rank(b.store) = 0) THEN Rank(b.store) = 0
    ELSE IF Rank(a.store) # Rank(b.store) THEN Rank(a.store) < Rank(b.store)
    ELSE a.store < b.store

InBucket(name) == {rec \in Readable : Bucket(rec) = name}

\* cost_of_inaction.
Inaction(rec) == IF rec.action \notin Gated THEN "none"
                 ELSE IF ~rec.signal /\ rec.status \in {"NO_DATA", "ERROR"} /\ rec.health = 0
                 THEN "unknown"
                 ELSE IF rec.recovery < 0 THEN "negative" ELSE "flat_to_positive"

\* build_approval_preview.
Preview(rec) ==
    IF rec.action \in Gated
    THEN [class |-> "approval_required", choices |-> <<rec.action, Fallback(rec.action)>>,
          risk |-> RiskOf(rec.action), inaction |-> Inaction(rec)]
    ELSE [class |-> "informational", choices |-> <<>>, risk |-> "none", inaction |-> "none"]

-----------------------------------------------------------------------------
BoardTypeOK ==
    /\ \A rec \in LogSet \cup rows : rec.store \in Stores /\ rec.decision \in Verdicts
    /\ \A s \in Stores : Cardinality(Of(rows, s)) <= 1
    /\ \A item \in sweep.todo : item.rec.store \in Stores
    /\ redeploys \in 0 .. MaxRedeploys

\* A store that was once evaluated stays on every read surface, whatever a
\* redeploy loses; it is missing while a request holds its popped row, and, when
\* that request dies, until the next sweep (_readable_records and the start-up backfill,
\* against approve/reject).
EveryStoreReadable ==
    \A s \in ever \ gone : \/ \E rec \in Readable : rec.store = s
                           \/ popped # NoRecord /\ popped.store = s

InFlight(s) == \/ popped # NoRecord /\ popped.store = s
               \/ sweep.phase = "row" /\ Item.rec.store = s

LoggedBefore(old, new) ==
    \E i, j \in DOMAIN log : /\ i < j
                             /\ RecommendationId(log[i]) = RecommendationId(old)
                             /\ RecommendationId(log[j]) = RecommendationId(new)

\* The rows are a projection of the log: an undecided row that is not the store's
\* last record was logged before it and deduplicated since, or is all that a
\* redeploy left (the sweep's two writes, against the readers that let the log win,
\* and against /cards/{id}, which reads the log alone).
RowsFollowLog ==
    \A row \in rows :
        \/ Decided(row) \/ InFlight(row.store)
        \/ redeploys > 0
        \/ /\ LastLogged(row.store) # NoRecord
           /\ \/ RecommendationId(LastLogged(row.store)) = RecommendationId(row)
              \/ LoggedBefore(row, LastLogged(row.store))

\* What the docs promise of the rows: one that awaits a decision is its store's
\* last record, so board and approval queue cannot disagree.
RowIsLastRecord ==
    \A row \in ApprovalQueue :
        (redeploys = 0 /\ ~InFlight(row.store))
            => RecommendationId(LastLogged(row.store)) = RecommendationId(row)

\* Nothing is being written.
Quiet == popped = NoRecord /\ sweep.phase # "row"

\* Why a record that needs a decision may have nobody to ask for it.
Undecidable(rec) == LET row == RowOf(rec.store)
                    IN \/ row = NoRecord \/ Decided(row) \/ ~rec.gated \/ ~row.gated
                       \/ RecommendationId(row) # RecommendationId(rec)

\* A board read while nothing is being written counts as needing a decision the
\* stores of the approval queue; it counts another only when its row was lost or
\* decided, its record or row predates the flag (an answered request can put such a
\* row back over a fresh one), or the row is not the log's last word.
CountMeansWork ==
    Quiet => \A rec \in Readable :
        \/ NeedsDecision(rec) = \E q \in ApprovalQueue : q.store = rec.store
        \/ Undecidable(rec)

\* A queued record that is the one shown is counted, previewed with two choices
\* and a cost of inaction that only a forecast can put a sign to, and listed in
\* the monitor's order (board, cards and monitor agree on the queue).
ShownAsQueued ==
    Quiet => \A rec \in Readable \cap ApprovalQueue :
        /\ Preview(rec).class = "approval_required"
        /\ Preview(rec).choices[1] # Preview(rec).choices[2]
        /\ (Preview(rec).inaction \in {"negative", "flat_to_positive"}) = rec.signal
        /\ Status(rec) = "awaiting_decision"
        /\ \A other \in InBucket("needs_intervention") \cap ApprovalQueue :
              (rec \in InBucket("needs_intervention") /\ Tier(rec) < Tier(other))
                  => ListedBefore(rec, other)

\* No store drops off the surfaces, and no row says what the log does not.
BoardFollowsLog == EveryStoreReadable /\ RowsFollowLog

\* Board, cards, approval queue and monitor agree on what waits for a human.
SurfacesAgree == CountMeansWork /\ ShownAsQueued
=============================================================================
