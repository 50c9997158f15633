------------------------------ MODULE SpendGuard ----------------------------
(***************************************************************************)
(* The guard on LLM spend (rag/llm_budget.py) and the two endpoints that    *)
(* ask it (/why and /advisory, app/main.py).  A request reads the clock,    *)
(* then takes the lock and charges: first the account's day, then its       *)
(* client's rolling hour.  Requests run on a thread pool, and the clock     *)
(* may move between the two.  The counters live in memory.                  *)
(***************************************************************************)
EXTENDS Integers, Sequences, FiniteSets

CONSTANTS Requests, Clients,
          Budget,       \* calls a day for all clients; 0 is no ceiling
          Limit,        \* calls an hour for a client; 0 is no ceiling
          Window,       \* ticks in an hour
          DayTicks,     \* ticks in a day
          MaxTick, MaxRestarts

ASSUME GuardAssumption ==
    /\ Budget \in Nat /\ Limit \in Nat
    /\ Window \in Nat \ {0} /\ DayTicks \in Nat \ {0}
    /\ MaxTick \in Nat /\ MaxRestarts \in Nat
    /\ IsFiniteSet(Requests)

VARIABLES tick, life,
          daily,        \* _daily_calls: one key wide
          calls,        \* _ip_calls: stamps per client
          req

guard == <<tick, life, daily, calls, req>>

Day(t) == t \div DayTicks

NoDay == [day |-> -1, used |-> 0]
Idle == [pc |-> "idle", client |-> "none", day |-> 0, charged |-> -1,
         now |-> 0, at |-> -1, life |-> 0]

GuardInit ==
    /\ tick = 0 /\ life = 0
    /\ daily = NoDay
    /\ calls = [c \in Clients |-> <<>>]
    /\ req = [r \in Requests |-> Idle]

UsedOn(day) == IF daily.day = day THEN daily.used ELSE 0

\* The endpoint's own checks come first: the layer may be off, the question too
\* long, the LLM off, the store without a record; none of them costs anything.
Arrive(r) ==
    /\ req[r].pc = "idle"
    /\ \E c \in Clients, admitted \in BOOLEAN :
          req' = [req EXCEPT ![r] = [Idle EXCEPT !.client = c, !.life = life, !.day = Day(tick),
                                                 !.pc = IF admitted THEN "day" ELSE "template"]]
    /\ UNCHANGED <<tick, life, daily, calls>>

\* daily_allowance, under its lock: the day is the one read on arrival, and every
\* other day's counter goes.
ChargeDay(r) ==
    /\ req[r].pc = "day"
    /\ IF Budget > 0 /\ UsedOn(req[r].day) >= Budget
       THEN req' = [req EXCEPT ![r].pc = "template"] /\ UNCHANGED daily
       ELSE /\ req' = [req EXCEPT ![r].pc = "hour", ![r].charged = tick]
            /\ daily' = IF Budget = 0 THEN daily
                        ELSE [day |-> req[r].day, used |-> UsedOn(req[r].day) + 1]
    /\ UNCHANGED <<tick, life, calls>>

ReadClock(r) ==
    /\ req[r].pc = "hour"
    /\ req' = [req EXCEPT ![r].pc = "client", ![r].now = tick]
    /\ UNCHANGED <<tick, life, daily, calls>>

\* The stamps from the first one inside the window on: the code drops from the
\* left until it meets it.
Kept(stamps, now) ==
    LET inside == {i \in DOMAIN stamps : stamps[i] > now - Window}
    IN IF inside = {} THEN <<>>
       ELSE SubSeq(stamps, CHOOSE i \in inside : \A j \in inside : i <= j, Len(stamps))

\* Faulty variant: a refused caller gives its slot of the day back.
ChargeClientRefunding(r) ==
    /\ req[r].pc = "client"
    /\ LET kept == Kept(calls[req[r].client], req[r].now)
           refused == Limit > 0 /\ Len(kept) >= Limit
       IN /\ calls' = [calls EXCEPT ![req[r].client] = IF refused THEN kept ELSE Append(kept, req[r].now)]
          /\ daily' = IF refused THEN [daily EXCEPT !.used = @ - 1] ELSE daily
          /\ req' = [req EXCEPT ![r].pc = IF refused THEN "limited" ELSE "llm", ![r].at = tick]
    /\ UNCHANGED <<tick, life>>

\* ip_allowance, under its lock; a refusal is a 429 and consumes nothing here.
ChargeClient(r) ==
    /\ req[r].pc = "client"
    /\ LET kept == Kept(calls[req[r].client], req[r].now)
           refused == Limit > 0 /\ Len(kept) >= Limit
       IN /\ calls' = IF Limit = 0 THEN calls
                      ELSE [calls EXCEPT ![req[r].client] =
                              IF refused THEN kept ELSE Append(kept, req[r].now)]
          /\ req' = [req EXCEPT ![r].pc = IF refused THEN "limited" ELSE "llm", ![r].at = tick]
    /\ UNCHANGED <<tick, life, daily>>

Tick ==
    /\ tick < MaxTick
    /\ tick' = tick + 1
    /\ UNCHANGED <<life, daily, calls, req>>

\* A redeploy forgets the counters and the requests under way.
Restart ==
    /\ life < MaxRestarts
    /\ life' = life + 1
    /\ daily' = NoDay
    /\ calls' = [c \in Clients |-> <<>>]
    /\ req' = [r \in Requests |->
                 IF req[r].pc \in {"day", "hour", "client"} THEN [req[r] EXCEPT !.pc = "lost"]
                 ELSE req[r]]
    /\ UNCHANGED tick

GuardStep(r) == Arrive(r) \/ ChargeDay(r) \/ ReadClock(r) \/ ChargeClient(r)

GuardNext == (\E r \in Requests : GuardStep(r)) \/ Tick \/ Restart

GuardSpec ==
    /\ GuardInit /\ [][GuardNext]_guard
    /\ \A r \in Requests : WF_guard(ChargeDay(r) \/ ReadClock(r) \/ ChargeClient(r))

-----------------------------------------------------------------------------
ChargedPcs == {"hour", "client", "llm", "limited"}

\* Requests of this process that a day was charged for.
ChargedOn(day) == {r \in Requests : /\ req[r].life = life
                                    /\ req[r].pc \in ChargedPcs /\ req[r].day = day}

\* The day was read on one side of midnight and charged on the other.
Straddled(r) == req[r].charged >= 0 /\ Day(req[r].charged) # req[r].day

Straddlers == {r \in Requests : req[r].life = life /\ req[r].pc \in ChargedPcs /\ Straddled(r)}

GuardTypeOK ==
    /\ tick \in 0 .. MaxTick /\ life \in 0 .. MaxRestarts
    /\ daily.day \in Int /\ daily.used \in Nat
    /\ \A c \in Clients : \A i \in DOMAIN calls[c] : calls[c][i] \in 0 .. MaxTick
    /\ \A r \in Requests : req[r].pc \in ChargedPcs \cup {"idle", "day", "template", "lost"}

\* One process never spends more than the day's budget on a day; but a request that
\* is charged to a day that is over throws the new day's counter away, and each one
\* may cost the account a budget more, and no more than that (daily_allowance).
StraddlersResetTheDay ==
    Budget > 0 => \A r \in Requests :
        Cardinality(ChargedOn(req[r].day)) <= Budget * (1 + Cardinality(Straddlers))

\* The counter is what was charged: a caller turned away by its hourly limit has
\* already taken its slot of the day.
CounterIsCharges ==
    (Budget > 0 /\ Straddlers = {} /\ daily.day >= 0)
        => daily.used = Cardinality(ChargedOn(daily.day))

LetThrough(c, t) == {r \in Requests : /\ req[r].life = life /\ req[r].pc = "llm" /\ req[r].client = c
                                  /\ req[r].at > t - Window /\ req[r].at <= t}

\* In any window, a client gets at most its hourly calls, and one more for each that
\* was charged with an older clock than it was let through at (ip_allowance).
HourlyCeiling ==
    Limit > 0 => \A c \in Clients, t \in 0 .. MaxTick :
        Cardinality(LetThrough(c, t)) <= Limit + Cardinality({r \in LetThrough(c, t) : req[r].now < req[r].at})

\* Every request that arrives is answered or lost to a restart.
EveryRequestAnswered == <>[](\A r \in Requests : req[r].pc \notin {"day", "hour", "client"})

\* Both ceilings hold but for the calls that straddle their boundary, and the counter
\* is what was charged.
CeilingsHold == StraddlersResetTheDay /\ CounterIsCharges /\ HourlyCeiling
=============================================================================
