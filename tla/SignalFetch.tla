----------------------------- MODULE SignalFetch ----------------------------
(***************************************************************************)
(* How a store's forecast signal is fetched: the campaign audit feed        *)
(* (tools/campaign_tool.py), then the store table and two predictions      *)
(* (tools/forecast_tool.py), under build_store_signal (app/main.py).  The   *)
(* stores of a batch are fetched on threads that share nothing but the      *)
(* audit runs, so one store is followed.  Days are whole numbers.           *)
(***************************************************************************)
EXTENDS RetryingCall, DecisionRules, Provenance, FiniteSets

CONSTANTS Feeds,        \* payloads GET /audit may answer with
          Files,        \* audit files: sequences of lines, each an object or not
          Tables,       \* payloads GET /stores may answer with
          Forecasts,    \* what POST /predict may answer
          Today

Run == [complete : BOOLEAN, label : {"numbered", "free", "blank"}, timing : STRING,
        time : Int \cup {Missing}, stores : Seq(Int)]
Row == [object : BOOLEAN, store : Int \cup {Missing}, last : Int \cup {Missing}]

ASSUME FetchAssumption ==
    /\ \A feed \in Feeds : feed.total \in Int \cup {Missing} /\ feed.runs \in Seq(Run)
    /\ Files \subseteq Seq([object : BOOLEAN, run : Run])
    /\ Tables \subseteq Seq(Row)
    /\ Forecasts \subseteq Int /\ Today \in Int

VARIABLES step, call, feed, store, table, signal

fetch == <<step, call, feed, store, table, signal>>

NoFeed == [source |-> "none", runs |-> <<>>]
NoSignalYet == [available |-> FALSE, status |-> "NONE"]

-----------------------------------------------------------------------------
(* The audit feed.                                                         *)

Elements(s) == {s[i] : i \in DOMAIN s}

ProvenanceOf(label) == IF label = "numbered" THEN "NORMALIZED" ELSE "MISSING_STABLE_CAMPAIGN_ID"

ValidStores(ids) ==
    /\ ids # <<>>
    /\ \A i \in DOMAIN ids : ids[i] > 0
    /\ Cardinality(Elements(ids)) = Len(ids)

\* A run of the API: one bad run rejects the feed.
ValidRun(run) ==
    /\ run.complete
    /\ run.label # "blank" /\ run.timing # ""
    /\ run.time # Missing
    /\ ValidStores(run.stores)

AcceptedFeed(payload) ==
    /\ payload.total = Len(payload.runs)
    /\ \A i \in DOMAIN payload.runs : ValidRun(payload.runs[i])

ReadModel(run) == [provenance |-> ProvenanceOf(run.label), timing |-> CanonicalTiming(run.timing),
                   time |-> run.time, stores |-> run.stores]

\* The local file: lines that are not objects are skipped, objects are taken as
\* they are, under the number of their line.
FileRuns(lines) ==
    [i \in {n \in DOMAIN lines : lines[n].object} |->
        [provenance |-> "file", timing |-> lines[i].run.timing,
         time |-> lines[i].run.time, stores |-> lines[i].run.stores]]

StoreIds(runs) == UNION {Elements(runs[i].stores) : i \in DOMAIN runs}

Candidates(s, runs) == {i \in DOMAIN runs : s \in Elements(runs[i].stores) /\ runs[i].time # Missing}

\* The earliest, the first listed of a tie.
FirstRun(s, runs) ==
    CHOOSE i \in Candidates(s, runs) :
        \A j \in Candidates(s, runs) :
            runs[i].time < runs[j].time \/ (runs[i].time = runs[j].time /\ i <= j)

-----------------------------------------------------------------------------
(* The store table: one malformed row makes it unusable; a row without an   *)
(* integer id is skipped; the last row of a store wins.                    *)

ReadableTable(rows) ==
    \A i \in DOMAIN rows : rows[i].object /\ (rows[i].store # Missing => rows[i].last # Missing)

RowsOf(s, rows) == {i \in DOMAIN rows : rows[i].store = s}

-----------------------------------------------------------------------------
(* The signal.                                                             *)

Elapsed == Greater(Today - feed.runs[FirstRun(store, feed.runs)].time, 0)

SignalOf(status, baseline, current) ==
    [available |-> status = "AVAILABLE", status |-> status,
     baseline |-> baseline, current |-> current, elapsed |-> Elapsed,
     remaining |-> Greater(RecoveryWindow - Elapsed, 0)]

Finish(status, baseline, current) ==
    /\ step' = "done"
    /\ signal' = SignalOf(status, baseline, current)

FetchInit ==
    /\ step = "idle" /\ call = Fresh /\ feed = NoFeed
    /\ store = 0 /\ table = <<>> /\ signal = NoSignalYet

\* A feed nobody is named in is refused, like one that cannot be read.
Listed(source, runs) ==
    /\ feed' = [source |-> source, runs |-> runs]
    /\ step' = IF StoreIds(runs) = {} THEN "refused" ELSE "listed"

ReadFile ==
    /\ step = "idle"
    /\ \E lines \in Files : Listed("file", FileRuns(lines))
    /\ UNCHANGED <<call, store, table, signal>>

RequestAudit ==
    /\ step = "idle"
    /\ step' = "audit"
    /\ UNCHANGED <<call, feed, store, table, signal>>

\* One attempt of the call that is out, and the wait before the next.
Attempt ==
    /\ step \in {"audit", "stores", "baseline", "current"}
    /\ call.state = "busy"
    /\ \E reply \in Replies : call' = Answered(call, reply)
    /\ UNCHANGED <<step, feed, store, table, signal>>

WakeUp ==
    /\ call.state = "asleep"
    /\ call' = Awake(call)
    /\ UNCHANGED <<step, feed, store, table, signal>>

TakeAudit ==
    /\ step = "audit" /\ Ended(call)
    /\ \/ ~Usable(call) /\ step' = "refused" /\ UNCHANGED feed
       \/ /\ Usable(call)
          /\ \E payload \in Feeds :
                IF AcceptedFeed(payload)
                THEN Listed("api", [i \in DOMAIN payload.runs |-> ReadModel(payload.runs[i])])
                ELSE step' = "refused" /\ UNCHANGED feed
    /\ UNCHANGED <<call, store, table, signal>>

\* A store without a dated run is left out of the batch.
PickStore ==
    /\ step = "listed"
    /\ \E s \in StoreIds(feed.runs) :
          /\ store' = s
          /\ step' = IF Candidates(s, feed.runs) = {} THEN "skipped" ELSE "stores"
    /\ call' = Fresh
    /\ UNCHANGED <<feed, table, signal>>

\* Faulty variant: an upstream that fails is no data.
TakeTableSilently ==
    /\ step = "stores" /\ Ended(call)
    /\ \/ ~Usable(call) /\ Finish("NO_DATA", 0, 0) /\ UNCHANGED <<call, table>>
       \/ /\ Usable(call)
          /\ \E rows \in Tables :
                /\ table' = rows
                /\ IF ~ReadableTable(rows) \/ RowsOf(store, rows) = {}
                   THEN Finish("NO_DATA", 0, 0) /\ UNCHANGED call
                   ELSE step' = "baseline" /\ call' = Fresh /\ UNCHANGED signal
    /\ UNCHANGED <<feed, store>>

TakeTable ==
    /\ step = "stores" /\ Ended(call)
    /\ \/ ~Usable(call) /\ Finish("ERROR", 0, 0) /\ UNCHANGED <<call, table>>
       \/ /\ Usable(call)
          /\ \E rows \in Tables :
                /\ table' = rows
                /\ IF ~ReadableTable(rows) THEN Finish("ERROR", 0, 0) /\ UNCHANGED call
                   ELSE IF RowsOf(store, rows) = {} THEN Finish("NO_DATA", 0, 0) /\ UNCHANGED call
                   ELSE step' = "baseline" /\ call' = Fresh /\ UNCHANGED signal
    /\ UNCHANGED <<feed, store>>

\* The first of the two predictions; until the second has come, a failure is what
\* the signal would be.
TakeBaseline ==
    /\ step = "baseline" /\ Ended(call)
    /\ \/ ~Usable(call) /\ Finish("ERROR", 0, 0) /\ UNCHANGED call
       \/ /\ Usable(call)
          /\ \E value \in Forecasts : signal' = SignalOf("ERROR", value, 0)
          /\ step' = "current" /\ call' = Fresh
    /\ UNCHANGED <<feed, store, table>>

TakeCurrent ==
    /\ step = "current" /\ Ended(call)
    /\ \/ ~Usable(call) /\ Finish("ERROR", 0, 0)
       \/ Usable(call) /\ \E value \in Forecasts : Finish("AVAILABLE", signal.baseline, value)
    /\ UNCHANGED <<call, feed, store, table>>

FetchNext == \/ ReadFile \/ RequestAudit \/ Attempt \/ WakeUp \/ TakeAudit
             \/ PickStore \/ TakeTable \/ TakeBaseline \/ TakeCurrent

FetchSpec == FetchInit /\ [][FetchNext]_fetch /\ WF_fetch(FetchNext)

-----------------------------------------------------------------------------
FetchTypeOK ==
    /\ step \in {"idle", "audit", "listed", "stores", "baseline", "current",
                 "done", "skipped", "refused"}
    /\ call \in Call
    /\ store \in Int

Ready == step = "done"

\* Retries are bounded and their waits are the backoffs, for every request of the
\* chain (_request_with_retry of both clients).
CallsDisciplined == Disciplined(call)

\* NO_DATA is an answer: the table was read and does not name the store.  Whatever
\* cannot be reached or read is an ERROR, and a signal is available only when the
\* store is named and the last prediction arrived (build_store_signal's three
\* exits, which the outage check and the board depend on).
NoDataIsAnAnswer ==
    Ready => /\ (signal.status = "NO_DATA")
                    = (Usable(call) /\ ReadableTable(table) /\ RowsOf(store, table) = {})
             /\ signal.status = "AVAILABLE" => Usable(call) /\ RowsOf(store, table) # {}
             /\ signal.status = "ERROR" => ~Usable(call) \/ ~ReadableTable(table)
             /\ signal.status # "AVAILABLE" => signal.baseline = 0 /\ signal.current = 0

\* The recovery window starts at the store's earliest dated run, wherever the feed
\* lists it.
WindowFromFirstRun ==
    Ready => /\ \A i \in Candidates(store, feed.runs) :
                    signal.elapsed >= Today - feed.runs[i].time
             /\ signal.elapsed > 0 =>
                    \E i \in Candidates(store, feed.runs) : signal.elapsed = Today - feed.runs[i].time

\* What the pipeline takes for granted of a signal: no elapsed and remaining days
\* that do not fill the window (so its stalled rule is dead), no forecast without
\* an AVAILABLE status.
SignalFitsPipeline ==
    Ready => /\ signal \in Signal
             /\ signal.available <=> signal.status = "AVAILABLE"
             /\ signal.elapsed + signal.remaining >= RecoveryWindow

\* A feed the API check accepts loses no store: every one of its stores has a run
\* to date its window by.  Only the local file can list a store and skip it.
FeedLosesNoStore == step = "skipped" => feed.source = "file"

\* Every fetch ends, whatever the upstreams answer.
FetchEnds == <>[](step \in {"idle", "done", "skipped", "refused"})

\* A signal says what the upstreams said: the status of the chain, the days since the
\* first run, nothing the pipeline could not take; and no request is retried without end.
SignalIsTrue ==
    /\ NoDataIsAnAnswer /\ WindowFromFirstRun /\ SignalFitsPipeline /\ FeedLosesNoStore
    /\ CallsDisciplined
=============================================================================
