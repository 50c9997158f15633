---------------------------- MODULE DecisionLoop ----------------------------
(***************************************************************************)
(* The human decision loop of the retail agent: sweeps that evaluate       *)
(* stores and persist recommendations, approve/reject requests that decide *)
(* them, and the start-up backfill of the pending store.                   *)
(*                                                                         *)
(* Three durable objects are shared by every actor:                        *)
(*   log     the append-only recommendation log (memory/history.py)        *)
(*   ledger  the append-only decision ledger (approvals/ledger.py)         *)
(*   table   the latest-record store, one row per store (app/state.py)     *)
(*                                                                         *)
(* No lock spans two of them, so a handler is a sequence of steps, one per *)
(* access to a durable object; everything between two accesses is local    *)
(* and belongs to the earlier step.                                        *)
(***************************************************************************)
EXTENDS Naturals, Sequences, FiniteSets

CONSTANTS
    Stores,         \* store ids
    Contents,       \* what an evaluation of a store can say: [action, status]
    Requests,       \* approve/reject calls, each one HTTP request
    Sweeps,         \* sweep executions: POST, scheduler tick or board refresh
    Workers,        \* server processes sharing the files and the table
    RuleSets,       \* the guardrail rule sets deployments may carry
    Wipes,          \* what a redeploy may lose: subset of {"log", "table"}
    MaxRestarts,    \* bound on redeployments
    NoRow, NoOne    \* absent row; "not decided by any request"

ASSUME ConstantsAssumption ==
    /\ \A c \in Contents :
          c.status \in {"AVAILABLE", "NO_DATA", "ERROR"}
    /\ NoOne \notin Requests
    /\ MaxRestarts \in Nat

Verbs == {"approve", "reject"}

(***************************************************************************)
(* A recommendation record.  Its recommendation_id is a hash of decision   *)
(* content, so store and content together stand for it; approval_id is     *)
(* fresh per request, so the deciding request stands for it.               *)
(***************************************************************************)
Record == [store : Stores, content : Contents, gated : BOOLEAN,
           decision : Verbs \cup {"none"}, by : Requests \cup {NoOne}]

ASSUME NoRowAssumption == NoRow \notin Record

RecommendationId(rec) == <<rec.store, rec.content>>
Decided(rec) == rec.decision # "none"

VARIABLES
    log, ledger, table,   \* the durable objects
    rules,                \* APPROVAL_REQUIRED_RECOMMENDATIONS of this deploy
    boot, seed,           \* per worker: start-up phase, backfill in hand
    pc, target, held, answer,   \* per request
    sweep,                \* per sweep
    restarts

durable == <<log, ledger, table>>
bootVars == <<rules, boot, seed, restarts>>
requestVars == <<pc, target, held, answer>>
vars == <<durable, bootVars, requestVars, sweep>>

Phases == {"idle", "putback", "look_log", "look_table", "log", "ledger",
           "writeback", "done", "failed"}
Answers == {"none", "decided", "already", "not_found", "not_gated",
            "gate_refused"}
SweepPhases == {"idle", "board", "evaluated", "snapshot", "loop", "recheck", "upsert",
                "done", "failed"}
Cohort == [pc : SweepPhases,
           todo : SUBSET Record,       \* evaluated records left to persist
           cur : Record \cup {NoRow},  \* the one being persisted
           seen : SUBSET (Stores \X Contents),   \* existing_ids
           decided : SUBSET Stores,              \* decided_store_ids
           history : BOOLEAN]                    \* the log was not empty

TypeOK ==
    /\ log \in Seq(Record) /\ ledger \in Seq(Record)
    /\ table \in [Stores -> Record \cup {NoRow}]
    /\ rules \in RuleSets
    /\ boot \in [Workers -> {"down", "read", "seed", "up"}]
    /\ seed \in [Workers -> [Stores -> Record \cup {NoRow}]]
    /\ pc \in [Requests -> Phases]
    /\ target \in [Requests -> Stores \cup {NoRow}]
    /\ held \in [Requests -> Record \cup {NoRow}]
    /\ answer \in [Requests -> Answers]
    /\ sweep \in [Sweeps -> Cohort]
    /\ restarts \in 0 .. MaxRestarts

EmptyTable == [s \in Stores |-> NoRow]
SweepAt(phase) == [pc |-> phase, todo |-> {}, cur |-> NoRow, seen |-> {},
                   decided |-> {}, history |-> FALSE]

Init ==
    /\ log = <<>> /\ ledger = <<>> /\ table = EmptyTable
    /\ rules \in RuleSets
    /\ boot = [k \in Workers |-> "down"]
    /\ seed = [k \in Workers |-> EmptyTable]
    /\ pc = [r \in Requests |-> "idle"]
    /\ target = [r \in Requests |-> NoRow]
    /\ held = [r \in Requests |-> NoRow]
    /\ answer = [r \in Requests |-> "none"]
    /\ sweep = [w \in Sweeps |-> SweepAt("idle")]
    /\ restarts = 0

-----------------------------------------------------------------------------
(* Reads and writes of the durable objects.                                *)

InSeq(rec, q) == \E i \in DOMAIN q : q[i] = rec

RecordsOf(s) == {i \in DOMAIN log : log[i].store = s}

\* The last log record of a store, NoRow when it has none.
LastRecord(s) ==
    IF RecordsOf(s) = {} THEN NoRow
    ELSE log[CHOOSE i \in RecordsOf(s) : \A j \in RecordsOf(s) : j <= i]

DecidedInLog == {s \in Stores : \E i \in RecordsOf(s) : Decided(log[i])}

RowDecided(s) == table[s] # NoRow /\ Decided(table[s])

\* Faulty variant: an upsert without the WHERE clause.
BlindUpsert(s, rec) == [table EXCEPT ![s] = rec]

\* __setitem__: one SQL statement, refused over a decided row.
Upsert(s, rec) == IF RowDecided(s) THEN table ELSE [table EXCEPT ![s] = rec]

RequiresHumanApproval(action) == action \in rules

VerifyRecommendation(rec) == rec.gated = RequiresHumanApproval(rec.content.action)

DecisionGate(rec) ==
    RequiresHumanApproval(rec.content.action) /\ VerifyRecommendation(rec)

Serving == \E k \in Workers : boot[k] = "up"

-----------------------------------------------------------------------------
(* Start-up: the module body of app/main.py, once per worker.              *)

\* `if not _pending_approvals`: a row count of zero asks for a backfill.
BootCheck(k) ==
    /\ boot[k] = "down"
    /\ boot' = [boot EXCEPT ![k] = IF table = EmptyTable THEN "read" ELSE "up"]
    /\ UNCHANGED <<durable, rules, seed, restarts, requestVars, sweep>>

\* Faulty variant: only the stores the log has no decision of are rebuilt.
BootReadUndecided(k) ==
    /\ boot[k] = "read"
    /\ seed' = [seed EXCEPT ![k] = [s \in Stores |->
                   IF s \in DecidedInLog THEN NoRow ELSE LastRecord(s)]]
    /\ boot' = [boot EXCEPT ![k] = "seed"]
    /\ UNCHANGED <<durable, rules, restarts, requestVars, sweep>>

\* _rebuild_pending_approvals: the last log record of each store.
BootRead(k) ==
    /\ boot[k] = "read"
    /\ seed' = [seed EXCEPT ![k] = [s \in Stores |-> LastRecord(s)]]
    /\ boot' = [boot EXCEPT ![k] = "seed"]
    /\ UNCHANGED <<durable, rules, restarts, requestVars, sweep>>

\* seed_from: a bulk upsert with no decided guard.
BootSeed(k) ==
    /\ boot[k] = "seed"
    /\ table' = [s \in Stores |-> IF seed[k][s] = NoRow THEN table[s]
                                                        ELSE seed[k][s]]
    /\ boot' = [boot EXCEPT ![k] = "up"]
    /\ seed' = [seed EXCEPT ![k] = EmptyTable]
    /\ UNCHANGED <<log, ledger, rules, restarts, requestVars, sweep>>

-----------------------------------------------------------------------------
(* approve_recommendation / reject_recommendation.  The row is popped      *)
(* first; which of the three pops applies depends on the row alone.        *)

Pop(r, s) ==
    /\ pc[r] = "idle" /\ Serving
    /\ target' = [target EXCEPT ![r] = s]
    /\ table' = [table EXCEPT ![s] = NoRow]
    /\ UNCHANGED <<log, ledger, bootVars, sweep>>

\* Faulty variant: a missing row falls through to the decision.
PopMissingDecides(r, s) ==
    /\ table[s] = NoRow
    /\ Pop(r, s)
    /\ pc' = [pc EXCEPT ![r] = "log"]
    /\ UNCHANGED <<held, answer>>

PopMissing(r, s) ==
    /\ table[s] = NoRow
    /\ Pop(r, s)
    /\ pc' = [pc EXCEPT ![r] = "look_log"]
    /\ UNCHANGED <<held, answer>>

\* Faulty variant: the decision-time gate is not re-run.
RefusalWithoutGate(row) ==
    CASE Decided(row) -> "already"
      [] ~ Decided(row) /\ ~ row.gated -> "not_gated"
      [] OTHER -> "none"

Refusal(row) ==
    CASE Decided(row)       -> "already"
      [] ~ Decided(row) /\ ~ row.gated -> "not_gated"
      [] ~ Decided(row) /\ row.gated /\ ~ DecisionGate(row) -> "gate_refused"
      [] OTHER              -> "none"

PopRefused(r, s) ==
    /\ table[s] # NoRow /\ Refusal(table[s]) # "none"
    /\ Pop(r, s)
    /\ pc' = [pc EXCEPT ![r] = "putback"]
    /\ held' = [held EXCEPT ![r] = table[s]]
    /\ answer' = [answer EXCEPT ![r] = Refusal(table[s])]

\* Faulty variant: the row is read and left in the table.
PeekPending(r, s, v) ==
    /\ pc[r] = "idle" /\ Serving
    /\ table[s] # NoRow /\ Refusal(table[s]) = "none"
    /\ target' = [target EXCEPT ![r] = s]
    /\ pc' = [pc EXCEPT ![r] = "log"]
    /\ held' = [held EXCEPT ![r] = [table[s] EXCEPT !.decision = v, !.by = r]]
    /\ UNCHANGED <<durable, bootVars, answer, sweep>>

\* Faulty variant: the decision is written over the row before it is logged.
DecideInPlace(r, s, v) ==
    /\ pc[r] = "idle" /\ Serving
    /\ table[s] # NoRow /\ Refusal(table[s]) = "none"
    /\ target' = [target EXCEPT ![r] = s]
    /\ pc' = [pc EXCEPT ![r] = "log"]
    /\ held' = [held EXCEPT ![r] = [table[s] EXCEPT !.decision = v, !.by = r]]
    /\ table' = [table EXCEPT ![s] = held'[r]]
    /\ UNCHANGED <<log, ledger, bootVars, answer, sweep>>

PopPending(r, s, v) ==
    /\ table[s] # NoRow /\ Refusal(table[s]) = "none"
    /\ Pop(r, s)
    /\ pc' = [pc EXCEPT ![r] = "log"]
    /\ held' = [held EXCEPT ![r] = [table[s] EXCEPT !.decision = v, !.by = r]]
    /\ UNCHANGED answer

\* A refused row goes back through the guarded upsert.
PutBack(r) ==
    /\ pc[r] = "putback"
    /\ table' = Upsert(target[r], held[r])
    /\ pc' = [pc EXCEPT ![r] = "done"]
    /\ UNCHANGED <<log, ledger, bootVars, target, held, answer, sweep>>

\* _latest_decided_record, first half: the log.
LookLog(r) ==
    /\ pc[r] = "look_log"
    /\ IF target[r] \in DecidedInLog
         THEN /\ pc' = [pc EXCEPT ![r] = "done"]
              /\ answer' = [answer EXCEPT ![r] = "already"]
         ELSE /\ pc' = [pc EXCEPT ![r] = "look_table"]
              /\ UNCHANGED answer
    /\ UNCHANGED <<durable, bootVars, target, held, sweep>>

\* Faulty variant: the look-up stops at the log.
LookLogAlone(r) ==
    /\ pc[r] = "look_table"
    /\ answer' = [answer EXCEPT ![r] = "not_found"]
    /\ pc' = [pc EXCEPT ![r] = "done"]
    /\ UNCHANGED <<durable, bootVars, target, held, sweep>>

\* _latest_decided_record, second half: the table; else 404.
LookTable(r) ==
    /\ pc[r] = "look_table"
    /\ answer' = [answer EXCEPT ![r] =
                     IF RowDecided(target[r]) THEN "already" ELSE "not_found"]
    /\ pc' = [pc EXCEPT ![r] = "done"]
    /\ UNCHANGED <<durable, bootVars, target, held, sweep>>

\* Faulty variant: the ledger entry is written ahead of the log line.
LedgerFirst(r) ==
    /\ pc[r] = "log"
    /\ ledger' = Append(ledger, held[r])
    /\ pc' = [pc EXCEPT ![r] = "ledger"]
    /\ UNCHANGED <<log, table, bootVars, target, held, answer, sweep>>

\* Faulty variant: the ledger append is skipped.
AppendLogOnly(r) ==
    /\ pc[r] = "log"
    /\ log' = Append(log, held[r])
    /\ pc' = [pc EXCEPT ![r] = "writeback"]
    /\ UNCHANGED <<ledger, table, bootVars, target, held, answer, sweep>>

AppendLog(r) ==
    /\ pc[r] = "log"
    /\ log' = Append(log, held[r])
    /\ pc' = [pc EXCEPT ![r] = "ledger"]
    /\ UNCHANGED <<ledger, table, bootVars, target, held, answer, sweep>>

AppendDecision(r) ==
    /\ pc[r] = "ledger"
    /\ ledger' = Append(ledger, held[r])
    /\ pc' = [pc EXCEPT ![r] = "writeback"]
    /\ UNCHANGED <<log, table, bootVars, target, held, answer, sweep>>

WriteBack(r) ==
    /\ pc[r] = "writeback"
    /\ table' = Upsert(target[r], held[r])
    /\ pc' = [pc EXCEPT ![r] = "done"]
    /\ answer' = [answer EXCEPT ![r] = "decided"]
    /\ UNCHANGED <<log, ledger, bootVars, target, held, sweep>>

-----------------------------------------------------------------------------
(* _evaluate_and_persist_stores.                                           *)

FreshRecord(s, c) ==
    [store |-> s, content |-> c, gated |-> RequiresHumanApproval(c.action),
     decision |-> "none", by |-> NoOne]

\* What evaluating some of the given stores can produce.
Evaluations(universe) ==
    UNION {{{FreshRecord(s, content[s]) : s \in targets} :
               content \in [targets -> Contents]} : targets \in SUBSET universe}

\* POST /recommendations/run, /monitor/sweep and the scheduler: the audit
\* feed names the stores.
FeedSweep(w) ==
    /\ sweep[w].pc = "idle" /\ Serving
    /\ \E batch \in Evaluations(Stores) \ {{}} :
          sweep' = [sweep EXCEPT ![w].pc = "evaluated", ![w].todo = batch]
    /\ UNCHANGED <<durable, bootVars, requestVars>>

\* GET /board: the persisted records do (_persisted_audit_runs).  A store with
\* log records counts if none of them is decided; ![w].decided remembers for
\* the next step which stores the log had.
BoardSweep(w) ==
    /\ sweep[w].pc = "idle" /\ Serving
    /\ \E batch \in Evaluations({s \in Stores : RecordsOf(s) # {}} \ DecidedInLog) :
          sweep' = [sweep EXCEPT
                      ![w].pc = "board", ![w].todo = batch,
                      ![w].decided = {s \in Stores : RecordsOf(s) # {}}]
    /\ UNCHANGED <<durable, bootVars, requestVars>>

\* A store the log did not have counts if its row is there and undecided.
BoardTable(w) ==
    /\ sweep[w].pc = "board"
    /\ \E batch \in Evaluations({s \in Stores \ sweep[w].decided :
                                  table[s] # NoRow /\ ~ RowDecided(s)}) :
          sweep' = [sweep EXCEPT
                      ![w] = IF sweep[w].todo \cup batch = {} THEN SweepAt("done")
                             ELSE [SweepAt("evaluated") EXCEPT
                                      !.todo = sweep[w].todo \cup batch]]
    /\ UNCHANGED <<durable, bootVars, requestVars>>

VerifyBatch(recs) ==
    /\ \A rec \in recs : VerifyRecommendation(rec)
    /\ \A a, b \in recs : a.store = b.store => a = b

SnapshotLog(w) ==
    /\ sweep[w].pc = "evaluated" /\ VerifyBatch(sweep[w].todo)
    /\ sweep' = [sweep EXCEPT
                   ![w].pc = "snapshot",
                   ![w].seen = {RecommendationId(log[i]) : i \in DOMAIN log},
                   ![w].decided = DecidedInLog,
                   ![w].history = log # <<>>]
    /\ UNCHANGED <<durable, bootVars, requestVars>>

NoUsableForecast(recs) ==
    /\ \E rec \in recs : rec.content.status = "ERROR"
    /\ \A rec \in recs : rec.content.status # "AVAILABLE"

\* A total outage with anything to keep persists nothing.
SnapshotTable(w) ==
    /\ sweep[w].pc = "snapshot"
    /\ IF /\ NoUsableForecast(sweep[w].todo)
          /\ sweep[w].history \/ table # EmptyTable
         THEN sweep' = [sweep EXCEPT ![w] = SweepAt("done")]
         ELSE sweep' = [sweep EXCEPT
                          ![w].pc = "loop",
                          ![w].decided = @ \cup {s \in Stores : RowDecided(s)}]
    /\ UNCHANGED <<durable, bootVars, requestVars>>

\* The log line is written before the decided snapshot is consulted.
LogFresh(w, rec) ==
    /\ sweep[w].pc = "loop" /\ rec \in sweep[w].todo
    /\ log' = IF RecommendationId(rec) \in sweep[w].seen
                THEN log ELSE Append(log, rec)
    /\ IF rec.store \in sweep[w].decided
         THEN sweep' = [sweep EXCEPT ![w].todo = @ \ {rec}]
         ELSE sweep' = [sweep EXCEPT ![w].todo = @ \ {rec}, ![w].cur = rec,
                                     ![w].pc = "recheck"]
    /\ UNCHANGED <<ledger, table, bootVars, requestVars>>

\* The write-time re-check of the row.
Recheck(w) ==
    /\ sweep[w].pc = "recheck"
    /\ sweep' = [sweep EXCEPT ![w].pc = IF RowDecided(sweep[w].cur.store)
                                          THEN "loop" ELSE "upsert"]
    /\ UNCHANGED <<durable, bootVars, requestVars>>

UpsertFresh(w) ==
    /\ sweep[w].pc = "upsert"
    /\ table' = Upsert(sweep[w].cur.store, sweep[w].cur)
    /\ sweep' = [sweep EXCEPT ![w].pc = "loop", ![w].cur = NoRow]
    /\ UNCHANGED <<log, ledger, bootVars, requestVars>>

SweepEnds(w) ==
    /\ sweep[w].pc = "loop" /\ sweep[w].todo = {}
    /\ sweep' = [sweep EXCEPT ![w] = SweepAt("done")]
    /\ UNCHANGED <<durable, bootVars, requestVars>>

-----------------------------------------------------------------------------
(* Failures.  A handler dies between two accesses when an access raises or *)
(* its process is killed.  A redeploy stops everything, keeps or loses the *)
(* disk (log and ledger are files; the table is a file or Postgres) and    *)
(* may bring another guardrail rule set.                                   *)

RequestInFlight(r) == pc[r] \notin {"idle", "done", "failed"}
SweepInFlight(w) == sweep[w].pc \notin {"idle", "done", "failed"}

FailRequest(r) ==
    /\ RequestInFlight(r)
    /\ pc' = [pc EXCEPT ![r] = "failed"]
    /\ UNCHANGED <<durable, bootVars, target, held, answer, sweep>>

FailSweep(w) ==
    /\ SweepInFlight(w)
    /\ sweep' = [sweep EXCEPT ![w] = SweepAt("failed")]
    /\ UNCHANGED <<durable, bootVars, requestVars>>

Redeploy(lost) ==
    /\ restarts < MaxRestarts
    /\ restarts' = restarts + 1
    /\ rules' \in RuleSets
    /\ boot' = [k \in Workers |-> "down"]
    /\ seed' = [k \in Workers |-> EmptyTable]
    /\ IF "log" \in lost THEN log' = <<>> /\ ledger' = <<>>
                         ELSE UNCHANGED <<log, ledger>>
    /\ table' = IF "table" \in lost THEN EmptyTable ELSE table
    /\ pc' = [r \in Requests |-> IF RequestInFlight(r) THEN "failed" ELSE pc[r]]
    /\ sweep' = [w \in Sweeps |-> IF SweepInFlight(w) THEN SweepAt("failed")
                                                        ELSE sweep[w]]
    /\ UNCHANGED <<target, held, answer>>

-----------------------------------------------------------------------------
BootStep(k) == BootCheck(k) \/ BootRead(k) \/ BootSeed(k)

Arrive(r) == \E s \in Stores : \/ PopMissing(r, s)
                               \/ PopRefused(r, s)
                               \/ \E v \in Verbs : PopPending(r, s, v)

RequestStep(r) == \/ PutBack(r) \/ LookLog(r) \/ LookTable(r)
                  \/ AppendLog(r) \/ AppendDecision(r) \/ WriteBack(r)

SweepStep(w) == \/ BoardTable(w) \/ SnapshotLog(w) \/ SnapshotTable(w)
                \/ \E rec \in sweep[w].todo : LogFresh(w, rec)
                \/ Recheck(w) \/ UpsertFresh(w) \/ SweepEnds(w)

Steady == \/ \E k \in Workers : BootStep(k)
          \/ \E r \in Requests : Arrive(r) \/ RequestStep(r)
          \/ \E w \in Sweeps : FeedSweep(w) \/ BoardSweep(w) \/ SweepStep(w)

Failure == \/ \E r \in Requests : FailRequest(r)
           \/ \E w \in Sweeps : FailSweep(w)
           \/ \E lost \in SUBSET Wipes : Redeploy(lost)

Next == Steady \/ Failure

Spec == Init /\ [][Next]_vars

\* Nothing fails: a started thread keeps running (the code holds no lock
\* across steps, so the scheduler of the host is the only fairness needed).
SteadySpec ==
    /\ Init /\ [][Steady]_vars
    /\ \A k \in Workers : WF_vars(BootStep(k))
    /\ \A r \in Requests : WF_vars(RequestStep(r))
    /\ \A w \in Sweeps : WF_vars(SweepStep(w))

-----------------------------------------------------------------------------
(* The abstract audit trail this loop implements (module DecisionAudit):   *)
(* decisions on the log, in the ledger, and acknowledged to a caller.      *)

DecidedIn(q) == {rec \in {q[i] : i \in DOMAIN q} : Decided(rec)}
AckedRequests == {r \in Requests : pc[r] = "done" /\ answer[r] = "decided"}

Audit == INSTANCE DecisionAudit WITH
            Decisions <- {rec \in Record : Decided(rec)},
            recorded <- DecidedIn(log),
            audited <- DecidedIn(ledger),
            acked <- {held[r] : r \in AckedRequests}

\* Every step of every handler, sweep, start-up, failure and redeploy is a
\* step of the audit trail or leaves it alone: a decision is logged once, then
\* audited, and only then acknowledged.
ImplementsAudit == Audit!Spec

-----------------------------------------------------------------------------
(* Properties.                                                             *)

Acked(r) == r \in AckedRequests
Deciding(r) == pc[r] \in {"log", "ledger", "writeback"}
DecidedRecords(s) == {i \in RecordsOf(s) : Decided(log[i])}

\* A ledger entry is always accompanied by its decided log record, whatever
\* fails or is redeployed: append_log comes before append_decision, and the
\* two files share a disk (approvals/ledger.py, "Rebuild invariant").
LedgerBackedByLog == \A i \in DOMAIN ledger : InSeq(ledger[i], log)

\* While the disk is kept, a decided row of the table is a decision the log
\* has: the write-back comes last, and neither a sweep nor the backfill can
\* make a decision up (app/state.py, "System of record stays the log").
DecidedRowOnRecord ==
    "log" \notin Wipes => \A s \in Stores : RowDecided(s) => InSeq(table[s], log)

Up(k) == boot[k] = "up"

\* Workers that may have offered rows from the log: those of every earlier
\* deployment, and this one's as soon as a second worker is up.  (The first
\* worker of all finds an empty log.)
Backfills ==
    (restarts + (IF \E k, j \in Workers : k # j /\ Up(k) /\ Up(j) THEN 1 ELSE 0))
       * Cardinality(Workers)

\* Each time a sweep or a backfill offers a row, at most one request decides
\* it: pop is one transaction, so two approvers of one offer never both win.
OneDecisionPerOffer ==
    \A s \in Stores :
       Cardinality(DecidedRecords(s))
          <= Cardinality({w \in Sweeps : sweep[w].pc # "idle"}) + Backfills

\* A decided row is popped by a request or lost with the table, and otherwise
\* changes in one way only: a worker that starts up beside one already up
\* writes the record it read of the log, which may be older than the decision
\* (seed_from has no guard; __setitem__'s WHERE clause is what stops sweeps).
DecidedRowNeverReplaced ==
    [][\A s \in Stores : RowDecided(s) =>
          \/ table'[s] \in {table[s], NoRow}
          \/ \E k, j \in Workers : /\ k # j /\ Up(j)
                                   /\ boot[k] = "seed" /\ Up(k)'
                                   /\ table'[s] = seed[k][s]]_vars

\* The first worker up has put back every store the log knows, decided or not,
\* unless the table still had a row: the backfill is of an empty table only,
\* so an approval lost in the hands of a call that died comes back at a
\* restart exactly when no other store has kept its row.
StartUpRestores ==
    [][\A k \in Workers :
          ((\A j \in Workers : ~ Up(j)) /\ Up(k)') =>
             \A s \in Stores :
                (RecordsOf(s) # {} /\ table'[s] = NoRow) =>
                   \E t \in Stores \ {s} : table[t] # NoRow]_vars

\* Whatever a row said when it was written, a decision reaches the log only
\* if the rules in force now still gate its action and its approval flag
\* agrees with them (decision_gate, re-run at decision time).
DecisionsPassCurrentGate ==
    [][\A i \in DOMAIN log' \ DOMAIN log :
          Decided(log'[i]) => DecisionGate(log'[i])]_vars

\* A decision of the store that some request has popped, or made and not yet
\* written back.
DecisionInHands(s) ==
    \E q \in Requests : /\ target[q] = s
                        /\ pc[q] \in {"putback", "log", "ledger", "writeback"}
                        /\ Decided(held[q])

\* With nothing failing, an acknowledged decision is never lost from the
\* table: a decided row of the store is there, or is in the hands of a
\* request that will write it back.  Sweeps may slip an undecided row into
\* the gap, but not over the decision.
AckedDecisionHeld ==
    \A r \in Requests : Acked(r) =>
       RowDecided(target[r]) \/ DecisionInHands(target[r])

\* With nothing failing, once a decision is acknowledged the store's row ends
\* up decided for good, however sweeps and repeated calls interleave.
AckedDecisionSettles ==
    \A r \in Requests, s \in Stores :
       (Acked(r) /\ target[r] = s) ~> [] RowDecided(s)

\* With nothing failing, a call told "already decided" is told the truth: the
\* log has a decision for that store.
AlreadyMeansLogged ==
    \A r \in Requests :
       answer[r] = "already" => target[r] \in DecidedInLog

NotFoundNow(r) == answer[r] # "not_found" /\ answer'[r] = "not_found"

\* With nothing failing, a call on a store the log has decided is told 404
\* (approve_recommendation, line 943) only while another call holds the
\* decision between its pop and its write-back: _latest_decided_record reads
\* the log and then the table, and outside that window one of them answers.
NotFoundOnlyInTheGap ==
    [][\A r \in Requests :
          (NotFoundNow(r) /\ target[r] \in DecidedInLog)
             => DecisionInHands(target[r])]_vars

\* With nothing failing, a repeated or racing call hears the truth: "already
\* decided" only of a decision the log has, and 404 of a decided store only
\* while another call has the decision in hand (_latest_decided_record).
LateCallsHearTruth == []AlreadyMeansLogged /\ NotFoundOnlyInTheGap

\* _readable_records: the log wins, the table fills the gaps.
Readable(s) == IF RecordsOf(s) # {} THEN LastRecord(s) ELSE table[s]

\* "a fresh recommendation must never append over a human's approval and make
\* a decided store look undecided again" (_persisted_audit_runs): once a
\* decision is acknowledged, the record the read surfaces show is decided.
DecidedStoreLooksDecided ==
    \A r \in Requests : Acked(r) => Decided(Readable(target[r]))

\* "the two layers close the same race from both sides" (the sweep's
\* write-time re-check and __setitem__'s guard): one recommendation is
\* decided once.
OneDecisionPerRecommendation ==
    \A i, j \in DOMAIN log :
       (Decided(log[i]) /\ Decided(log[j])
          /\ RecommendationId(log[i]) = RecommendationId(log[j]))
       => log[i] = log[j]
=============================================================================
