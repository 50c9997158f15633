----------------------------- MODULE RetryingCall ---------------------------
(***************************************************************************)
(* One upstream request with retries: _request_with_retry, which            *)
(* tools/forecast_tool.py and tools/campaign_tool.py both have.  A call is  *)
(* a record; a module that makes calls keeps them in its own variables.     *)
(***************************************************************************)
EXTENDS Integers, Sequences

CONSTANTS Retries,      \* 3 in the code
          Backoffs      \* <<2, 4, 8>> in the code, in seconds

ASSUME RetryAssumption ==
    /\ Retries \in Nat
    /\ Backoffs \in Seq(Nat) /\ Len(Backoffs) > 0

\* What an attempt may bring: a payload (well-formed or not), a 429 or 5xx, a
\* transport error or timeout, any other 4xx.
Payloads == {"ok", "bad"}
Transient == {"unavailable", "timeout"}
Replies == Payloads \cup Transient \cup {"client_error"}

CallStates == {"busy", "asleep", "answered", "failed"}
Call == [state : CallStates, attempts : Nat, slept : Nat, last : Replies \cup {"none"}]

Fresh == [state |-> "busy", attempts |-> 0, slept |-> 0, last |-> "none"]

Backoff(attempt) == Backoffs[IF attempt <= Len(Backoffs) THEN attempt ELSE Len(Backoffs)]

\* One attempt, and what the loop makes of it.  The body of a 2xx is read after
\* the loop: a malformed one is never asked for again.
Answered(call, reply) ==
    LET attempts == call.attempts + 1
        again == reply \in Transient /\ attempts <= Retries
    IN [state |-> IF reply \in Payloads THEN "answered" ELSE IF again THEN "asleep" ELSE "failed",
        attempts |-> attempts,
        slept |-> IF again THEN call.slept + Backoff(attempts) ELSE call.slept,
        last |-> reply]

Awake(call) == [call EXCEPT !.state = "busy"]

Ended(call) == call.state \in {"answered", "failed"}
Usable(call) == call.state = "answered" /\ call.last = "ok"

\* The seconds slept before the given attempt.
SleptBefore[attempt \in Nat] ==
    IF attempt <= 1 THEN 0 ELSE SleptBefore[attempt - 1] + Backoff(attempt - 1)

\* A call never outlasts its attempts, sleeps exactly its backoffs, and ends in
\* failure only on an error it may not retry or after the last attempt.
Disciplined(call) ==
    /\ call.attempts <= Retries + 1
    /\ call.slept = SleptBefore[IF call.state = "asleep" THEN call.attempts + 1
                                ELSE IF call.state = "busy" THEN call.attempts + 1
                                ELSE call.attempts]
    /\ call.state = "failed" =>
          call.last = "client_error" \/ (call.last \in Transient /\ call.attempts = Retries + 1)
    /\ call.state = "busy" /\ call.attempts > 0 => call.last \in Transient
=============================================================================
