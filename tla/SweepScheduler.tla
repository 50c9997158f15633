---------------------------- MODULE SweepScheduler --------------------------
(***************************************************************************)
(* The background scheduler of the sweeps (app/scheduler.py): start and     *)
(* stop from the application's thread, a loop per start on a thread of its  *)
(* own, one event and one set of counters between them.  What a sweep does  *)
(* is DecisionLoop's; here it succeeds, fails, or takes longer than stop    *)
(* waits for it.                                                            *)
(***************************************************************************)
EXTENDS Integers, FiniteSets

CONSTANTS MaxFailures,      \* MAX_CONSECUTIVE_FAILURES, 8 in the code
          RetryDelay,       \* the lesser of the retry and the sweep interval
          Interval,
          MaxStarts, MaxSweeps

ASSUME SchedulerAssumption ==
    /\ MaxFailures \in Nat \ {0}
    /\ RetryDelay \in Nat /\ Interval \in Nat /\ RetryDelay <= Interval
    /\ MaxStarts \in Nat /\ MaxSweeps \in Nat

Loops == 1 .. MaxStarts

VARIABLES loop,             \* per loop: where its thread is
          stopEvent, thread, starts,
          stopper,          \* the application's thread inside stop()
          failures,         \* _consecutive_failures
          running,          \* _status["running"]
          armed,            \* the delay the loop that waits last armed
          sweeps,           \* history: sweeps begun
          streak,           \* history: failed sweeps since the last success
          overrun           \* history: joins that gave up

scheduler == <<loop, stopEvent, thread, starts, stopper, failures, running, armed,
               sweeps, streak, overrun>>

NoThread == 0
Alive == {l \in Loops : loop[l] \notin {"new", "ended"}}

SchedulerInit ==
    /\ loop = [l \in Loops |-> "new"]
    /\ stopEvent = FALSE /\ thread = NoThread /\ starts = 0
    /\ stopper = "idle" /\ failures = 0 /\ running = FALSE /\ armed = 0
    /\ sweeps = 0 /\ streak = 0 /\ overrun = 0

\* start(), all of it under the lock.
Start ==
    /\ stopper = "idle"
    /\ starts < MaxStarts
    /\ thread \notin Alive
    /\ starts' = starts + 1
    /\ thread' = starts'
    /\ loop' = [loop EXCEPT ![starts'] = "check"]
    /\ stopEvent' = FALSE /\ running' = TRUE
    /\ UNCHANGED <<stopper, failures, armed, sweeps, streak, overrun>>

\* stop(): the event under the lock, the join outside of it.
RequestStop ==
    /\ stopper = "idle" /\ thread # NoThread
    /\ stopEvent' = TRUE /\ running' = FALSE
    /\ stopper' = "joining"
    /\ UNCHANGED <<loop, thread, starts, failures, armed, sweeps, streak, overrun>>

\* The join ends with the thread, or after five seconds without it.
FinishStop ==
    /\ stopper = "joining"
    /\ thread \in Alive => loop[thread] = "sweep"
    /\ overrun' = IF thread \in Alive THEN overrun + 1 ELSE overrun
    /\ stopper' = "idle" /\ thread' = NoThread
    /\ UNCHANGED <<loop, stopEvent, starts, failures, running, armed, sweeps, streak>>

Check(l) ==
    /\ loop[l] = "check"
    /\ sweeps < MaxSweeps \/ stopEvent
    /\ loop' = [loop EXCEPT ![l] = IF stopEvent THEN "ended" ELSE "sweep"]
    /\ sweeps' = IF stopEvent THEN sweeps ELSE sweeps + 1
    /\ UNCHANGED <<stopEvent, thread, starts, stopper, failures, running, armed, streak, overrun>>

\* Faulty variant: a success leaves the failures counted.
SucceedUncleared(l) ==
    /\ loop[l] = "sweep"
    /\ streak' = 0
    /\ loop' = [loop EXCEPT ![l] = "succeeded"]
    /\ UNCHANGED <<stopEvent, thread, starts, stopper, failures, running, armed, sweeps, overrun>>

\* _tick: an exception is counted, never let out.
Succeed(l) ==
    /\ loop[l] = "sweep"
    /\ failures' = 0 /\ streak' = 0
    /\ loop' = [loop EXCEPT ![l] = "succeeded"]
    /\ UNCHANGED <<stopEvent, thread, starts, stopper, running, armed, sweeps, overrun>>

\* Faulty variant: the exception gets out of the loop.
FailFatally(l) ==
    /\ loop[l] = "sweep"
    /\ failures' = failures + 1 /\ streak' = streak + 1
    /\ loop' = [loop EXCEPT ![l] = "ended"]
    /\ UNCHANGED <<stopEvent, thread, starts, stopper, running, armed, sweeps, overrun>>

Fail(l) ==
    /\ loop[l] = "sweep"
    /\ failures' = failures + 1 /\ streak' = streak + 1
    /\ loop' = [loop EXCEPT ![l] = "failed"]
    /\ UNCHANGED <<stopEvent, thread, starts, stopper, running, armed, sweeps, overrun>>

\* The delay is chosen from the counter as it is by now, armed and waited for.
Arm(l) ==
    /\ loop[l] \in {"succeeded", "failed"}
    /\ armed' = IF loop[l] = "failed" /\ failures < MaxFailures THEN RetryDelay ELSE Interval
    /\ loop' = [loop EXCEPT ![l] = "waiting"]
    /\ UNCHANGED <<stopEvent, thread, starts, stopper, failures, running, sweeps, streak, overrun>>

\* The wait ends with the delay or with the event.
Wake(l) ==
    /\ loop[l] = "waiting"
    /\ loop' = [loop EXCEPT ![l] = "check"]
    /\ UNCHANGED <<stopEvent, thread, starts, stopper, failures, running, armed, sweeps,
                   streak, overrun>>

LoopStep(l) == Check(l) \/ Succeed(l) \/ Fail(l) \/ Arm(l) \/ Wake(l)

SchedulerNext == Start \/ RequestStop \/ FinishStop \/ \E l \in Loops : LoopStep(l)

SchedulerSpec ==
    /\ SchedulerInit /\ [][SchedulerNext]_scheduler
    /\ \A l \in Loops : WF_scheduler(LoopStep(l))
    /\ WF_scheduler(FinishStop)

-----------------------------------------------------------------------------
SchedulerTypeOK ==
    /\ loop \in [Loops -> {"new", "check", "sweep", "succeeded", "failed", "waiting", "ended"}]
    /\ stopEvent \in BOOLEAN /\ running \in BOOLEAN
    /\ starts \in 0 .. MaxStarts /\ thread \in 0 .. starts
    /\ stopper \in {"idle", "joining"}
    /\ failures \in Nat /\ armed \in Nat /\ sweeps \in Nat /\ streak \in Nat /\ overrun \in Nat
    /\ \A l \in Loops : l > starts => loop[l] = "new"

\* One loop sweeps, and one more for each stop that returned before its loop had
\* ended: a later start clears the event such a loop was to see (start and stop).
LoopsPerOverrun == Cardinality(Alive) <= 1 + overrun

\* Two loops never come from the scheduler alone: with every join awaited, the only
\* loop alive is the one a stop would wait for.
SingleLoop == overrun = 0 => Alive \subseteq {thread}

\* The health status says running exactly while the last start was not stopped, and
\* then there is a loop to run.
RunningIsTrue == running => ~stopEvent /\ thread \in Alive

\* A failed sweep is tried again soon until it has failed MaxFailures times in a row,
\* by then the upstream is left alone for a whole interval; a success always goes
\* back to the interval.  Two loops share the counter, and each success resets it.
RetryThenRest ==
    [][\A l \in Loops : loop[l] = "failed" /\ loop'[l] = "waiting"
          => armed' = (IF streak < MaxFailures THEN RetryDelay ELSE Interval)]_scheduler

\* A stop nobody revokes ends every loop, also one that outlasted its join.
StopEndsLoops == []<>(stopEvent => Alive = {}) \/ <>[]~stopEvent

\* The loop never dies of a failing sweep: unstopped, it keeps coming back to sweep.
KeepsSweeping == []<>(~running \/ sweeps = MaxSweeps)

\* Every loop is accounted for: the one the scheduler knows, and one for each stop that
\* gave up waiting; and the status tells whether there is one.
LoopsAccountedFor == LoopsPerOverrun /\ SingleLoop /\ RunningIsTrue

\* However often stop gives up and start runs again, the loops are accounted for, and
\* each of them waits after a failed sweep as the streak they share asks.
LoopsKeepPace == []LoopsAccountedFor /\ RetryThenRest
=============================================================================
