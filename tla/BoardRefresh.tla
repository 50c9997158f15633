----------------------------- MODULE BoardRefresh ---------------------------
(***************************************************************************)
(* The board that refreshes itself (app/main.py, _refresh_stale_board): the *)
(* first reader of a day who finds it stale re-evaluates the stores it      *)
(* shows, from the records it shows, while others are served what there     *)
(* is.  The campaign's first run is no longer known and is rebuilt from the *)
(* records.  Time is in ticks; a record's stamp is the tick of its           *)
(* evaluation.                                                              *)
(***************************************************************************)
EXTENDS Integers, Sequences, FiniteSets, FiniteSetsExt

CONSTANTS CohortStores, Readers,
          CampaignStart,         \* the campaign's true first run
          TicksPerDay, Cooldown,
          WindowDays,       \* the recovery window, 60 in the code
          MaxClock, MaxLog, MaxLosses

Nobody == "nobody"

ASSUME RefreshAssumption ==
    /\ Nobody \notin Readers
    /\ IsFiniteSet(CohortStores) /\ IsFiniteSet(Readers)
    /\ CampaignStart \in Nat /\ TicksPerDay \in Nat \ {0} /\ Cooldown \in Nat
    /\ WindowDays \in Nat /\ MaxClock \in Nat /\ MaxLog \in Nat /\ MaxLosses \in Nat

VARIABLES clock,
          recordLog, latestRows,    \* records of the cohort, and the latest per store
          lastAttempt,      \* _board_refresh_last_attempt
          holder,           \* _BOARD_REFRESH_LOCK
          reader,
          losses            \* history: redeploys that lost the log

refresh == <<clock, recordLog, latestRows, lastAttempt, holder, reader, losses>>

Never == -1
DayOf(t) == t \div TicksPerDay

\* An evaluation at a tick, for a first run believed to be at start.
DaysElapsed(now, start) == Max({0, (now - start) \div TicksPerDay})
Evaluation(s, now, start, status) ==
    [store |-> s, stamp |-> now, elapsed |-> DaysElapsed(now, start),
     remaining |-> Max({0, WindowDays - DaysElapsed(now, start)}), status |-> status,
     decided |-> FALSE]

\* What the id hashes of it; the forecast is taken to say the same every day.
Said(rec) == <<rec.store, rec.remaining, rec.status>>

InLog(s) == {i \in DOMAIN recordLog : recordLog[i].store = s}
RecordsOf(s) == IF InLog(s) # {} THEN {recordLog[i] : i \in InLog(s)}
               ELSE {rec \in latestRows : rec.store = s}
Latest(s) == IF InLog(s) # {} THEN recordLog[Max(InLog(s))]
             ELSE CHOOSE rec \in latestRows : rec.store = s
Cohort == {s \in CohortStores : RecordsOf(s) # {}}
DecidedStores == {s \in Cohort : \E rec \in RecordsOf(s) : rec.decided}

\* _board_needs_refresh.
Undecided == {Latest(s) : s \in {t \in Cohort : ~Latest(t).decided}}
OnlyErrors == /\ \E rec \in Undecided : rec.status = "ERROR"
              /\ \A rec \in Undecided : rec.status # "AVAILABLE"
\* Faulty variant: a record of today is stale.
NeedsRefreshToday == (\E rec \in Undecided : DayOf(rec.stamp) <= DayOf(clock)) \/ OnlyErrors

NeedsRefresh == (\E rec \in Undecided : DayOf(rec.stamp) < DayOf(clock)) \/ OnlyErrors

\* Faulty variant: the latest record alone is asked.
StartOfLatest(s) == Latest(s).stamp - Latest(s).elapsed * TicksPerDay

\* _persisted_audit_runs: the earliest start any record of the store implies.
RebuiltStart(s) == Min({rec.stamp - rec.elapsed * TicksPerDay : rec \in RecordsOf(s)})

Asleep == [pc |-> "idle", now |-> 0, overtaken |-> FALSE, starts |-> <<>>]

RefreshInit ==
    /\ clock \in CampaignStart .. CampaignStart + TicksPerDay - 1
    /\ latestRows = {Evaluation(s, clock, CampaignStart, "AVAILABLE") : s \in CohortStores}
    /\ \E order \in [1 .. Cardinality(CohortStores) -> latestRows] :
          /\ {order[i] : i \in DOMAIN order} = latestRows
          /\ recordLog = order
    /\ lastAttempt = Never /\ holder = Nobody /\ losses = 0
    /\ reader = [r \in Readers |-> Asleep]

ClockTick ==
    /\ clock < MaxClock
    /\ clock' = clock + 1
    /\ UNCHANGED <<recordLog, latestRows, lastAttempt, holder, reader, losses>>

\* GET /board: is it stale, and has the cooldown passed?  No lock is held.
Read(r) ==
    /\ reader[r].pc = "idle"
    /\ NeedsRefresh
    /\ lastAttempt = Never \/ clock - lastAttempt >= Cooldown
    /\ reader' = [reader EXCEPT ![r] = [Asleep EXCEPT !.pc = "due", !.now = clock]]
    /\ UNCHANGED <<clock, recordLog, latestRows, lastAttempt, holder, losses>>

\* The lock is tried, never waited for; who gets it records the time it read.
Acquire(r) ==
    /\ reader[r].pc = "due"
    /\ IF holder = Nobody
       THEN /\ holder' = r /\ lastAttempt' = reader[r].now
            /\ reader' = [q \in Readers |->
                            IF q = r THEN [reader[r] EXCEPT !.pc = "warming"]
                            ELSE IF reader[q].pc = "due" THEN [reader[q] EXCEPT !.overtaken = TRUE]
                            ELSE reader[q]]
       ELSE /\ reader' = [reader EXCEPT ![r] = Asleep]
            /\ UNCHANGED <<holder, lastAttempt>>
    /\ UNCHANGED <<clock, recordLog, latestRows, losses>>

\* A cold upstream, an unreadable store table or an empty cohort end it here.
GiveUp(r) ==
    /\ reader[r].pc = "warming"
    /\ holder' = Nobody
    /\ reader' = [reader EXCEPT ![r] = Asleep]
    /\ UNCHANGED <<clock, recordLog, latestRows, lastAttempt, losses>>

\* The cohort to evaluate and where each store's campaign is taken to start.
RebuildRuns(r) ==
    /\ reader[r].pc = "warming"
    /\ Cohort \ DecidedStores # {}
    /\ reader' = [reader EXCEPT ![r].pc = "evaluating", ![r].now = 0,
                                ![r].starts = [s \in Cohort \ DecidedStores |-> RebuiltStart(s)]]
    /\ UNCHANGED <<clock, recordLog, latestRows, lastAttempt, holder, losses>>

\* Evaluated one by one, new contents appended, undecided rows replaced.
Persist(r) ==
    /\ reader[r].pc = "evaluating"
    /\ \E status \in [DOMAIN reader[r].starts -> {"AVAILABLE", "NO_DATA", "ERROR"}] :
          LET fresh == {Evaluation(s, clock, reader[r].starts[s], status[s]) :
                          s \in DOMAIN reader[r].starts}
              outage == /\ \E rec \in fresh : rec.status = "ERROR"
                        /\ \A rec \in fresh : rec.status # "AVAILABLE"
              unknown == {rec \in fresh : \A i \in DOMAIN recordLog : Said(recordLog[i]) # Said(rec)}
              decided == {rec.store : rec \in {x \in latestRows : x.decided}}
                           \cup {recordLog[i].store : i \in {j \in DOMAIN recordLog : recordLog[j].decided}}
              replaced == {rec.store : rec \in fresh} \ decided
          IN IF outage THEN UNCHANGED <<recordLog, latestRows>>
             ELSE /\ Len(recordLog) + Cardinality(unknown) <= MaxLog
                  /\ \E order \in [1 .. Cardinality(unknown) -> unknown] :
                        /\ {order[i] : i \in DOMAIN order} = unknown
                        /\ recordLog' = recordLog \o order
                  /\ latestRows' = {rec \in latestRows : rec.store \notin replaced}
                               \cup {rec \in fresh : rec.store \in replaced}
    /\ holder' = Nobody
    /\ reader' = [reader EXCEPT ![r] = Asleep]
    /\ UNCHANGED <<clock, lastAttempt, losses>>

\* approve or reject of a store, as far as the refresh sees it.
Decide(s) ==
    /\ s \in Cohort \ DecidedStores
    /\ Len(recordLog) < MaxLog
    /\ LET rec == [Latest(s) EXCEPT !.decided = TRUE]
       IN /\ recordLog' = Append(recordLog, rec)
          /\ latestRows' = {row \in latestRows : row.store # s} \cup {rec}
    /\ UNCHANGED <<clock, lastAttempt, holder, reader, losses>>

\* A diskless redeploy: the process and its log are gone, the rows are kept.
LoseLog ==
    /\ losses < MaxLosses
    /\ losses' = losses + 1
    /\ recordLog' = <<>> /\ lastAttempt' = Never /\ holder' = Nobody
    /\ reader' = [r \in Readers |-> Asleep]
    /\ UNCHANGED <<clock, latestRows>>

ReaderStep(r) == Acquire(r) \/ GiveUp(r) \/ RebuildRuns(r) \/ Persist(r)

RefreshNext == ClockTick \/ LoseLog \/ (\E s \in CohortStores : Decide(s))
                  \/ \E r \in Readers : Read(r) \/ ReaderStep(r)

RefreshSpec == /\ RefreshInit /\ [][RefreshNext]_refresh
               /\ \A r \in Readers : WF_refresh(ReaderStep(r))

-----------------------------------------------------------------------------
RefreshTypeOK ==
    /\ clock \in Nat /\ lastAttempt \in {Never} \cup 0 .. clock
    /\ holder \in Readers \cup {Nobody}
    /\ \A rec \in latestRows : rec.store \in CohortStores /\ rec.stamp <= clock
    /\ \A r \in Readers : reader[r].pc \in {"idle", "due", "warming", "evaluating"}

\* Only the holder of the lock works on the board, so two readers never evaluate the
\* cohort at the same time.
OneRefresher ==
    \A r \in Readers : reader[r].pc \in {"warming", "evaluating"} <=> holder = r

\* The start of a campaign is rebuilt within a day of the truth, and slips by less
\* than two days more for every redeploy that lost the log: the history in which
\* _persisted_audit_runs looks for the minimum is then the last row alone, and the
\* next evaluation dates from it.
StartSlipsByLosses ==
    \A s \in Cohort : /\ RebuiltStart(s) >= CampaignStart
                      /\ RebuiltStart(s) - CampaignStart < TicksPerDay * (1 + 2 * losses)

\* While its log is there, the start a board rebuilt never moves on, however often it
\* is evaluated anew.
StartIsStable ==
    [][\A s \in Cohort : (losses' = losses /\ InLog(s) # {})
          => RebuiltStart(s)' <= RebuiltStart(s)]_<<recordLog, latestRows>>

\* A refresh begins within the cooldown of another only if its reader had looked at
\* the clock before that one was recorded (the check runs before the lock).
CooldownKept ==
    [][\A r \in Readers :
          (reader[r].pc = "due" /\ holder' = r /\ holder # r /\ lastAttempt # Never)
             => reader[r].now - lastAttempt >= Cooldown \/ reader[r].overtaken]_holder

\* What an evaluation of the store would say today, the log has said before.
SaidBefore(s) ==
    \E i \in InLog(s), status \in {"AVAILABLE", "NO_DATA", "ERROR"} :
        Said(recordLog[i]) = Said(Evaluation(s, clock, RebuiltStart(s), status))

\* A decided store whose latest record is an undecided one: a refresh that had begun
\* before the decision appended its evaluation after it.
Undone == {s \in DecidedStores : ~Latest(s).decided}

\* A board of today is left alone until tomorrow: after a refresh with a forecast, it
\* asks for another the same day only for a store whose record of today repeats an
\* earlier one, because an unchanged record keeps its old stamp in the log, or for an
\* undone one, which no later refresh evaluates.
RefreshOnceADay ==
    [][(losses' = losses /\ recordLog' # recordLog /\ \E r \in Readers : reader[r] # reader'[r])
          => (NeedsRefresh' => OnlyErrors' \/ Undone' # {}
                                 \/ \E s \in Cohort : SaidBefore(s))]_<<reader, recordLog>>

\* A reader is never held up: it is served once its refresh, or the attempt, ended.
ReadersServed == \A r \in Readers : []<>(reader[r].pc = "idle")

\* One reader at a time works on the board, from a start that slips with losses only.
RefreshIsCoherent == OneRefresher /\ StartSlipsByLosses

\* Evaluations are a cooldown apart and one a day, and do not move the start.
RefreshesAreSpaced == CooldownKept /\ RefreshOnceADay /\ StartIsStable
=============================================================================
