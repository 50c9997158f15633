----------------------------- MODULE WindowFetch ----------------------------
(***************************************************************************)
(* get_evaluation_window_forecast (tools/forecast_tool.py): the daily       *)
(* predictions of the evaluation window, fetched by a pool of workers,      *)
(* each with its own retries, and collected as they complete.  One failed   *)
(* day fails the window and cancels the days that wait; days under way go   *)
(* on in threads nobody joins.                                              *)
(***************************************************************************)
EXTENDS RetryingCall, FiniteSets

CONSTANTS StartDay, FirstOffset, LastOffset,    \* 46 and 59 in the code
          MaxWorkers

ASSUME WindowAssumption ==
    /\ StartDay \in Int /\ FirstOffset \in Int /\ LastOffset \in Int
    /\ FirstOffset <= LastOffset
    /\ MaxWorkers \in Int

TargetDays == {StartDay + offset : offset \in FirstOffset .. LastOffset}

\* max(1, min(max_workers, days)).
Workers == IF MaxWorkers < 1 THEN 1
           ELSE IF MaxWorkers <= Cardinality(TargetDays) THEN MaxWorkers
           ELSE Cardinality(TargetDays)

VARIABLES future,       \* per day: its request, or why there is none
          collected,    \* days whose prediction was taken
          window        \* "collecting", "mean" or "failed"

windowVars == <<future, collected, window>>

Pending == [Fresh EXCEPT !.state = "pending"]
Cancelled == [Fresh EXCEPT !.state = "cancelled"]

InState(states) == {d \in TargetDays : future[d].state \in states}
Running == InState({"busy", "asleep"})

WindowInit ==
    /\ future = [d \in TargetDays |-> Pending]
    /\ collected = {}
    /\ window = "collecting"

\* A free worker takes the day submitted first.
Begin(d) ==
    /\ d \in InState({"pending"})
    /\ \A other \in InState({"pending"}) : d <= other
    /\ Cardinality(Running) < Workers
    /\ future' = [future EXCEPT ![d] = Fresh]
    /\ UNCHANGED <<collected, window>>

Reply(d) ==
    /\ future[d].state = "busy"
    /\ \E reply \in Replies : future' = [future EXCEPT ![d] = Answered(@, reply)]
    /\ UNCHANGED <<collected, window>>

Resume(d) ==
    /\ future[d].state = "asleep"
    /\ future' = [future EXCEPT ![d] = Awake(@)]
    /\ UNCHANGED <<collected, window>>

\* Faulty variant: a day that failed is passed over.
CollectAnything(d) ==
    /\ window = "collecting"
    /\ Ended(future[d]) /\ d \notin collected
    /\ collected' = collected \cup {d}
    /\ window' = IF collected' = TargetDays THEN "mean" ELSE window
    /\ UNCHANGED future

\* as_completed hands over a day that ended; its result is a number or raises.
Collect(d) ==
    /\ window = "collecting"
    /\ Ended(future[d]) /\ d \notin collected
    /\ IF Usable(future[d])
       THEN /\ collected' = collected \cup {d}
            /\ window' = IF collected' = TargetDays THEN "mean" ELSE window
            /\ UNCHANGED future
       ELSE /\ window' = "failed"
            /\ future' = [e \in TargetDays |->
                            IF future[e].state = "pending" THEN Cancelled ELSE future[e]]
            /\ UNCHANGED collected

DayNext(d) == Begin(d) \/ Reply(d) \/ Resume(d) \/ Collect(d)

WindowNext == \E d \in TargetDays : DayNext(d)

WindowSpec ==
    /\ WindowInit /\ [][WindowNext]_windowVars
    /\ \A d \in TargetDays : WF_windowVars(DayNext(d))

-----------------------------------------------------------------------------
WindowTypeOK ==
    /\ future \in [TargetDays -> [state : CallStates \cup {"pending", "cancelled"},
                                  attempts : Nat, slept : Nat, last : Replies \cup {"none"}]]
    /\ collected \subseteq TargetDays
    /\ window \in {"collecting", "mean", "failed"}

\* A mean is never taken over part of the window: every day answered with a number;
\* and a window fails only for a day that failed, with none left waiting.
MeanCoversWindow ==
    /\ window = "mean" => \A d \in TargetDays : Usable(future[d])
    /\ window = "failed" => /\ \E d \in TargetDays : Ended(future[d]) /\ ~Usable(future[d])
                            /\ InState({"pending"}) = {}
    /\ \A d \in InState({"cancelled"}) : window = "failed"

\* The upstream never sees more requests at once than the pool has workers, also
\* while the threads of a failed window are still retrying.
PoolIsBounded == Cardinality(Running) <= Workers

\* The window is decided, and every thread it started ends, whatever is answered.
WindowEnds == <>[](window # "collecting" /\ Running = {})

\* A window is the mean of all its days, fetched within the bound of the pool.
WindowIsWhole == MeanCoversWindow /\ PoolIsBounded
=============================================================================
