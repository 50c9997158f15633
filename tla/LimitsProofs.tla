----------------------------- MODULE LimitsProofs ---------------------------
(***************************************************************************)
(* What bounds the program's use of others: the day's ceiling of the spend  *)
(* guard, the loops of the sweep scheduler, the pool that fetches a window, *)
(* and the retries of a store's signal, for any number of requests,         *)
(* restarts, loops and workers, and any retry policy.                       *)
(***************************************************************************)
EXTENDS SpendGuard, SweepScheduler, WindowFetch, SignalFetch,
        FiniteSetTheorems, SequenceTheorems, TLAPS

-----------------------------------------------------------------------------
(***************************************************************************)
(* What the day's ceiling is worth, for any number of requests and         *)
(* restarts.  The counter of a day is thrown away by a charge to another   *)
(* day.  While the day lasts, such a charge is a straddler's; once it is   *)
(* over, whoever starts the counter again is one.  So every budget spent   *)
(* on a day beyond the first has a straddler of its own to answer for it.  *)
(***************************************************************************)

Pcs == ChargedPcs \cup {"idle", "day", "template", "lost"}

Req == [pc : Pcs, client : Clients \cup {"none"}, day : Nat, charged : Nat \cup {-1},
        now : Nat, at : Nat \cup {-1}, life : Nat]

CountersOK ==
    /\ tick \in Nat /\ life \in Nat
    /\ daily \in [day : Nat \cup {-1}, used : Nat]
    /\ req \in [Requests -> Req]

\* A request under way is of this process, and arrived on a day that has begun.
Timely ==
    \A r \in Requests :
        /\ req[r].life <= life /\ req[r].day <= Day(tick)
        /\ req[r].pc \in {"day", "hour", "client"} => req[r].life = life

Spent(day) == Cardinality(ChargedOn(day))
Extra == Budget * Cardinality(Straddlers)

\* What a day may have cost by now: the running counter on top of the straddlers'
\* budgets, or a full budget once the day is over.
Ceilings ==
    Budget > 0 =>
        /\ daily.used <= Budget
        /\ \A day \in Nat :
              Spent(day) <= Extra + (IF daily.day = day THEN daily.used
                                     ELSE IF Day(tick) > day THEN Budget ELSE 0)

\* Without straddlers the counter is exact, and a day without a counter cost nothing.
ExactCounter ==
    (Budget > 0 /\ Straddlers = {}) =>
        /\ daily.day >= 0 => daily.used = Spent(daily.day)
        /\ daily.day # Day(tick) => ChargedOn(Day(tick)) = {}

GuardInv == CountersOK /\ Timely /\ Ceilings /\ ExactCounter

-----------------------------------------------------------------------------
(* Days and sets of requests.                                              *)

LEMMA DayNat ==
    ASSUME NEW t \in Nat
    PROVE  Day(t) \in Nat
BY GuardAssumption DEF Day

LEMMA DayGrows ==
    ASSUME NEW t \in Nat
    PROVE  Day(t) <= Day(t + 1)
BY GuardAssumption DEF Day

LEMMA RequestsCounted ==
    ASSUME NEW S, S \subseteq Requests
    PROVE  IsFiniteSet(S) /\ Cardinality(S) \in Nat
<1>1. IsFiniteSet(S)
  BY GuardAssumption, FS_Subset
<1>. QED  BY <1>1, FS_CardinalityType

LEMMA OneMore ==
    ASSUME NEW S, S \subseteq Requests, NEW r \in Requests, r \notin S
    PROVE  Cardinality(S \cup {r}) = Cardinality(S) + 1
BY RequestsCounted, FS_AddElement

LEMMA SpentNat ==
    /\ \A day : ChargedOn(day) \subseteq Requests /\ Spent(day) \in Nat
    /\ Straddlers \subseteq Requests /\ Cardinality(Straddlers) \in Nat
    /\ Extra \in Nat
<1>1. \A day : ChargedOn(day) \subseteq Requests
  BY DEF ChargedOn
<1>2. Straddlers \subseteq Requests
  BY DEF Straddlers
<1>3. \A day : Spent(day) \in Nat
  BY <1>1, RequestsCounted DEF Spent
<1>4. Cardinality(Straddlers) \in Nat
  BY <1>2, RequestsCounted
<1>5. Extra \in Nat
  BY <1>4, GuardAssumption DEF Extra
<1>. QED  BY <1>1, <1>2, <1>3, <1>4, <1>5

LEMMA GuardInitInv == GuardInit => GuardInv
<1>. SUFFICES ASSUME GuardInit PROVE GuardInv
  OBVIOUS
<1>. USE DEF GuardInit
<1>1. Idle \in Req /\ Idle.pc = "idle" /\ Idle.day = 0 /\ Idle.life = 0
  BY DEF Idle, Req, Pcs
<1>2. CountersOK
  BY <1>1 DEF CountersOK, NoDay
<1>3. Timely
  BY <1>1, DayNat DEF Timely
<1>4. (\A day : ChargedOn(day) = {}) /\ Straddlers = {}
  BY <1>1 DEF ChargedOn, Straddlers, ChargedPcs
<1>5. \A day : Spent(day) = 0
  BY <1>4, FS_EmptySet DEF Spent
<1>6. Ceilings
  BY <1>2, <1>5, SpentNat, DayNat, GuardAssumption DEF Ceilings, NoDay, CountersOK
<1>7. ExactCounter
  BY <1>4, <1>5 DEF ExactCounter, NoDay
<1>. QED  BY <1>2, <1>3, <1>6, <1>7 DEF GuardInv

-----------------------------------------------------------------------------
(* The step that charges.                                                  *)

LEMMA ChargeDayKeepsInv ==
    ASSUME GuardInv, NEW r \in Requests, ChargeDay(r)
    PROVE  GuardInv'
<1>. DEFINE d == req[r].day
            turnedAway == Budget > 0 /\ UsedOn(d) >= Budget
<1>0. /\ req[r] \in Req /\ req[r].pc = "day" /\ d \in Nat /\ req[r].life = life
      /\ d <= Day(tick) /\ tick' = tick /\ life' = life
      /\ tick \in Nat /\ Day(tick) \in Nat
      /\ UsedOn(d) \in Nat /\ daily.used \in Nat /\ daily.day \in Nat \cup {-1}
      /\ \A s : s # r => req'[s] = req[s] \/ s \notin Requests
  BY DayNat DEF ChargeDay, GuardInv, CountersOK, Timely, Req, UsedOn
<1>1. \A day : r \notin ChargedOn(day)
  BY <1>0 DEF ChargedOn, ChargedPcs
<1>2. r \notin Straddlers
  BY <1>0 DEF Straddlers, ChargedPcs
<1>3. CASE turnedAway
  <2>1. daily' = daily /\ req' = [req EXCEPT ![r].pc = "template"]
    BY <1>3 DEF ChargeDay
  <2>2. CountersOK' /\ Timely'
    BY <1>0, <2>1 DEF GuardInv, CountersOK, Timely, Req, Pcs, Day
  <2>3. r \notin Straddlers' /\ \A day : r \notin ChargedOn(day)'
    BY <1>0, <2>1 DEF ChargedOn, Straddlers, ChargedPcs, GuardInv, CountersOK
  <2>4. Straddlers' = Straddlers /\ \A day : ChargedOn(day)' = ChargedOn(day)
    BY <1>0, <1>1, <1>2, <2>3 DEF ChargedOn, Straddlers, Straddled, GuardInv, CountersOK, Day
  <2>5. Ceilings' /\ ExactCounter'
    BY <1>0, <2>1, <2>4 DEF GuardInv, Ceilings, ExactCounter, Spent, Extra, Day
  <2>. QED  BY <2>2, <2>5 DEF GuardInv
<1>4. CASE ~turnedAway
  <2>1. /\ req' = [req EXCEPT ![r].pc = "hour", ![r].charged = tick]
        /\ daily' = IF Budget = 0 THEN daily ELSE [day |-> d, used |-> UsedOn(d) + 1]
    BY <1>4 DEF ChargeDay
  <2>2. /\ req'[r].pc = "hour" /\ req'[r].charged = tick
        /\ req'[r].day = d /\ req'[r].life = life /\ req'[r] \in Req
    BY <1>0, <2>1 DEF GuardInv, CountersOK, Req, Pcs, ChargedPcs
  <2>3. CountersOK'
    <3>1. req' \in [Requests -> Req]
      BY <2>1, <2>2, <1>0 DEF GuardInv, CountersOK
    <3>. QED  BY <1>0, <2>1, <3>1 DEF GuardInv, CountersOK
  <2>4. Timely'
    BY <1>0, <2>2 DEF GuardInv, Timely, Day
  <2>5. \A day : day = d => ChargedOn(day)' = ChargedOn(day) \cup {r}
    BY <1>0, <2>2 DEF ChargedOn, ChargedPcs
  <2>6. \A day : day # d => ChargedOn(day)' = ChargedOn(day)
    BY <1>0, <1>1, <2>2 DEF ChargedOn
  <2>7. Straddlers' = IF Day(tick) = d THEN Straddlers ELSE Straddlers \cup {r}
    BY <1>0, <1>2, <2>2 DEF Straddlers, Straddled, ChargedPcs, Day
  <2>8. \A day : Spent(day)' = IF day = d THEN Spent(day) + 1 ELSE Spent(day)
    BY <1>1, <2>5, <2>6, SpentNat, OneMore DEF Spent
  <2>9. Extra' = IF Day(tick) = d THEN Extra ELSE Extra + Budget
    <3>1. Budget \in Nat
      BY GuardAssumption
    <3>2. CASE Day(tick) = d
      BY <2>7, <3>2 DEF Extra
    <3>3. CASE Day(tick) # d
      <4>1. Cardinality(Straddlers)' = Cardinality(Straddlers) + 1
        BY <1>2, <2>7, <3>3, SpentNat, OneMore
      <4>2. Cardinality(Straddlers) \in Nat
        BY SpentNat
      <4>. QED  BY <3>1, <3>3, <4>1, <4>2 DEF Extra
    <3>. QED  BY <3>2, <3>3
  <2>10. Ceilings'
    <3>. SUFFICES ASSUME Budget > 0 PROVE Ceilings'
      BY DEF Ceilings
    <3>1. daily'.day = d /\ daily'.used = UsedOn(d) + 1 /\ UsedOn(d) < Budget
      BY <1>0, <1>4, <2>1, GuardAssumption
    <3>2. daily.used <= Budget /\ Budget \in Nat /\ Extra \in Nat
      BY GuardAssumption, SpentNat DEF GuardInv, Ceilings
    <3>. SUFFICES ASSUME NEW day \in Nat
                  PROVE  Spent(day)' <= Extra' + (IF daily'.day = day THEN daily'.used
                            ELSE IF Day(tick) > day THEN Budget ELSE 0)
      BY <1>0, <3>1, <3>2 DEF Ceilings, Day
    <3>3. Spent(day) <= Extra + (IF daily.day = day THEN daily.used
                                 ELSE IF Day(tick) > day THEN Budget ELSE 0)
      BY DEF GuardInv, Ceilings
    <3>4. Spent(day) \in Nat
      BY SpentNat
    <3>5. Day(tick) < day => Spent(day) = 0
      <4>. SUFFICES ASSUME Day(tick) < day PROVE Spent(day) = 0
        OBVIOUS
      <4>1. ChargedOn(day) = {}
        BY <1>0 DEF ChargedOn, GuardInv, Timely, CountersOK, Req
      <4>. QED  BY <4>1, FS_EmptySet DEF Spent
    <3>6. CASE day = d
      <4>1. Spent(day)' = Spent(day) + 1
        BY <2>8, <3>6
      <4>2. CASE daily.day = d
        BY <1>0, <2>9, <3>1, <3>2, <3>3, <3>4, <3>6, <4>1, <4>2 DEF UsedOn
      <4>3. CASE daily.day # d
        <5>1. UsedOn(d) = 0
          BY <4>3 DEF UsedOn
        <5>2. CASE Day(tick) = d
          BY <1>0, <2>9, <3>1, <3>2, <3>3, <3>4, <3>6, <4>1, <4>3, <5>1, <5>2
        <5>3. CASE Day(tick) > d
          BY <1>0, <2>9, <3>1, <3>2, <3>3, <3>4, <3>6, <4>1, <4>3, <5>1, <5>3
        <5>. QED  BY <1>0, <5>2, <5>3
      <4>. QED  BY <4>2, <4>3
    <3>7. CASE day # d
      BY <1>0, <2>8, <2>9, <3>1, <3>2, <3>3, <3>4, <3>5, <3>7
    <3>. QED  BY <3>6, <3>7
  <2>11. ExactCounter'
    <3>. SUFFICES ASSUME Budget > 0, Straddlers' = {} PROVE ExactCounter'
      BY DEF ExactCounter
    <3>1. Day(tick) = d /\ Straddlers = {}
      BY <2>7
    <3>2. daily'.day = d /\ daily'.used = UsedOn(d) + 1
      BY <1>0, <2>1, GuardAssumption
    <3>3. UsedOn(d) = Spent(d)
      <4>1. CASE daily.day = d
        BY <1>0, <3>1, <4>1 DEF GuardInv, ExactCounter, UsedOn
      <4>2. CASE daily.day # d
        BY <3>1, <4>2, FS_EmptySet DEF GuardInv, ExactCounter, UsedOn, Spent
      <4>. QED  BY <4>1, <4>2
    <3>4. PICK day : day = d
      OBVIOUS
    <3>5. daily'.day = day /\ daily'.used = Spent(day)' /\ Day(tick)' = daily'.day
      BY <1>0, <2>8, <3>1, <3>2, <3>3, <3>4 DEF Day
    <3>6. Spent(daily.day)' = Spent(day)'
      BY <3>5 DEF Spent, ChargedOn
    <3>. QED  BY <3>5, <3>6 DEF ExactCounter
  <2>. QED  BY <2>3, <2>4, <2>10, <2>11 DEF GuardInv
<1>. QED  BY <1>3, <1>4

-----------------------------------------------------------------------------
(* The steps that charge nothing.                                          *)

\* A request that moves and was, and is, charged to the same day or to none.
LEMMA MovesKeepInv ==
    ASSUME GuardInv, NEW r \in Requests, NEW q \in Req,
           req' = [req EXCEPT ![r] = q], tick' = tick, life' = life, daily' = daily,
           q.life <= life, q.day <= Day(tick),
           q.pc \in {"day", "hour", "client"} => q.life = life,
           \/ req[r].pc \notin ChargedPcs /\ q.pc \notin ChargedPcs
           \/ /\ req[r].pc \in ChargedPcs /\ q.pc \in ChargedPcs
              /\ q.day = req[r].day /\ q.charged = req[r].charged /\ q.life = req[r].life
    PROVE  GuardInv'
<1>1. CountersOK'
  BY DEF GuardInv, CountersOK
<1>2. Timely'
  BY DEF GuardInv, Timely, CountersOK, Day
<1>3. Straddlers' = Straddlers /\ \A day : ChargedOn(day)' = ChargedOn(day)
  BY DEF Straddlers, Straddled, ChargedOn, GuardInv, CountersOK, Day
<1>4. Ceilings' /\ ExactCounter'
  BY <1>3 DEF GuardInv, Ceilings, ExactCounter, Spent, Extra, Day
<1>. QED  BY <1>1, <1>2, <1>4 DEF GuardInv

LEMMA ArriveKeepsInv ==
    ASSUME GuardInv, NEW r \in Requests, Arrive(r)
    PROVE  GuardInv'
<1>1. PICK c \in Clients, admitted \in BOOLEAN :
         req' = [req EXCEPT ![r] = [Idle EXCEPT !.client = c, !.life = life, !.day = Day(tick),
                                                !.pc = IF admitted THEN "day" ELSE "template"]]
  BY DEF Arrive
<1>. DEFINE q == [Idle EXCEPT !.client = c, !.life = life, !.day = Day(tick),
                              !.pc = IF admitted THEN "day" ELSE "template"]
<1>2. tick \in Nat /\ Day(tick) \in Nat /\ life \in Nat
  BY DayNat DEF GuardInv, CountersOK
<1>3. /\ q \in Req /\ q.life = life /\ q.day = Day(tick) /\ q.pc \in {"day", "template"}
  BY <1>2 DEF Idle, Req, Pcs
<1>4. req[r].pc = "idle" /\ tick' = tick /\ life' = life /\ daily' = daily
  BY DEF Arrive
<1>5. req' = [req EXCEPT ![r] = q]
  BY <1>1
<1>. HIDE DEF q
<1>6. /\ q.life <= life /\ q.day <= Day(tick)
      /\ req[r].pc \notin ChargedPcs /\ q.pc \notin ChargedPcs
  BY <1>2, <1>3, <1>4 DEF ChargedPcs
<1>. QED  BY <1>3, <1>4, <1>5, <1>6, MovesKeepInv

LEMMA HourKeepsInv ==
    ASSUME GuardInv, NEW r \in Requests, ReadClock(r) \/ ChargeClient(r)
    PROVE  GuardInv'
<1>1. req[r] \in Req /\ req[r].pc \in {"hour", "client"}
      /\ tick' = tick /\ life' = life /\ daily' = daily
  BY DEF ReadClock, ChargeClient, GuardInv, CountersOK
<1>2. tick \in Nat /\ req[r].life = life /\ req[r].day <= Day(tick) /\ life \in Nat
  BY <1>1 DEF GuardInv, CountersOK, Timely
<1>3. PICK q \in Req :
         /\ req' = [req EXCEPT ![r] = q]
         /\ q.pc \in {"client", "limited", "llm"}
         /\ q.day = req[r].day /\ q.charged = req[r].charged /\ q.life = req[r].life
  <2>1. CASE ReadClock(r)
    <3>. DEFINE p == [req[r] EXCEPT !.pc = "client", !.now = tick]
    <3>1. p \in Req /\ p.pc = "client" /\ p.day = req[r].day /\ p.charged = req[r].charged
             /\ p.life = req[r].life
      BY <1>1, <1>2 DEF Req, Pcs, ChargedPcs
    <3>2. req' = [req EXCEPT ![r] = p]
      BY <2>1 DEF ReadClock, GuardInv, CountersOK
    <3>. QED  BY <3>1, <3>2
  <2>2. CASE ChargeClient(r)
    <3>1. PICK pc \in {"limited", "llm"} : req' = [req EXCEPT ![r].pc = pc, ![r].at = tick]
      BY <2>2 DEF ChargeClient
    <3>. DEFINE p == [req[r] EXCEPT !.pc = pc, !.at = tick]
    <3>2. p \in Req /\ p.pc = pc /\ p.day = req[r].day /\ p.charged = req[r].charged
             /\ p.life = req[r].life
      BY <1>1, <1>2 DEF Req, Pcs, ChargedPcs
    <3>3. req' = [req EXCEPT ![r] = p]
      BY <3>1 DEF GuardInv, CountersOK
    <3>. QED  BY <3>2, <3>3
  <2>. QED  BY <2>1, <2>2
<1>4. /\ q.life <= life /\ q.day <= Day(tick) /\ q.life = life
      /\ req[r].pc \in ChargedPcs /\ q.pc \in ChargedPcs
  BY <1>1, <1>2, <1>3 DEF ChargedPcs
<1>. QED  BY <1>1, <1>3, <1>4, MovesKeepInv

\* A day that ends leaves the budget it may have cost.
LEMMA TickKeepsInv ==
    ASSUME GuardInv, Tick
    PROVE  GuardInv'
<1>1. /\ tick' = tick + 1 /\ tick \in Nat /\ UNCHANGED <<life, daily, calls, req>>
      /\ Day(tick) \in Nat /\ Day(tick)' \in Nat /\ Day(tick) <= Day(tick)'
  BY DayNat, DayGrows DEF Tick, GuardInv, CountersOK
<1>2. CountersOK'
  BY <1>1 DEF GuardInv, CountersOK
<1>3. Timely'
  BY <1>1 DEF GuardInv, Timely, CountersOK, Req
<1>4. Straddlers' = Straddlers /\ \A day : ChargedOn(day)' = ChargedOn(day)
  BY <1>1 DEF Straddlers, Straddled, ChargedOn, Day
<1>5. Extra' = Extra /\ \A day : Spent(day)' = Spent(day)
  BY <1>4 DEF Extra, Spent
<1>6. Ceilings'
  BY <1>1, <1>5, SpentNat, GuardAssumption DEF GuardInv, Ceilings, CountersOK
<1>7. ExactCounter'
  <2>. SUFFICES ASSUME Budget > 0, Straddlers = {} PROVE ExactCounter'
    BY <1>4 DEF ExactCounter
  <2>1. daily.day >= 0 => (daily.used = Spent(daily.day))'
    BY <1>1, <1>5 DEF GuardInv, ExactCounter
  <2>2. CASE Day(tick)' = Day(tick)
    BY <1>1, <1>4, <2>1, <2>2 DEF GuardInv, ExactCounter
  <2>3. CASE Day(tick)' > Day(tick)
    <3>1. ChargedOn(Day(tick)') = {}
      BY <1>1, <2>3 DEF ChargedOn, GuardInv, Timely, CountersOK, Req
    <3>2. ChargedOn(Day(tick))' = {}
      BY <1>1, <3>1 DEF ChargedOn
    <3>. QED  BY <1>1, <2>1, <3>2 DEF ExactCounter
  <2>. QED  BY <1>1, <2>2, <2>3
<1>. QED  BY <1>2, <1>3, <1>6, <1>7 DEF GuardInv

\* Nothing was charged in the process that starts.
LEMMA RestartKeepsInv ==
    ASSUME GuardInv, Restart
    PROVE  GuardInv'
<1>1. /\ life' = life + 1 /\ life \in Nat /\ tick' = tick /\ tick \in Nat /\ daily' = NoDay
      /\ Day(tick) \in Nat
  BY DayNat DEF Restart, GuardInv, CountersOK
<1>2. \A r \in Requests :
         /\ req'[r] \in Req /\ req'[r].life = req[r].life /\ req'[r].day = req[r].day
         /\ req'[r].pc \notin {"day", "hour", "client"}
  BY DEF Restart, GuardInv, CountersOK, Req, Pcs, ChargedPcs
<1>3. CountersOK'
  BY <1>1, <1>2 DEF CountersOK, Restart, NoDay
<1>4. Timely'
  BY <1>1, <1>2 DEF GuardInv, Timely, CountersOK, Req, Day
<1>5. \A r \in Requests : req'[r].life # life'
  BY <1>1, <1>2 DEF GuardInv, Timely, CountersOK, Req
<1>6. Straddlers' = {} /\ \A day : ChargedOn(day)' = {}
  BY <1>5 DEF Straddlers, ChargedOn
<1>7. Extra' = 0 /\ \A day : Spent(day)' = 0
  BY <1>6, FS_EmptySet, GuardAssumption DEF Extra, Spent
<1>8. Ceilings'
  BY <1>1, <1>7, GuardAssumption DEF Ceilings, NoDay, Day
<1>9. ExactCounter'
  BY <1>1, <1>6 DEF ExactCounter, NoDay
<1>. QED  BY <1>3, <1>4, <1>8, <1>9 DEF GuardInv

LEMMA GuardInvariance == GuardSpec => []GuardInv
<1>1. GuardInv /\ [GuardNext]_guard => GuardInv'
  <2>. SUFFICES ASSUME GuardInv, [GuardNext]_guard PROVE GuardInv'
    OBVIOUS
  <2>1. CASE GuardNext
    BY <2>1, ArriveKeepsInv, ChargeDayKeepsInv, HourKeepsInv, TickKeepsInv, RestartKeepsInv
       DEF GuardNext, GuardStep
  <2>2. CASE UNCHANGED guard
    BY <2>2 DEF guard, GuardInv, CountersOK, Timely, Ceilings, ExactCounter, Spent, Extra,
                ChargedOn, Straddlers, Straddled, Day
  <2>. QED  BY <2>1, <2>2
<1>. QED  BY <1>1, GuardInitInv, PTL DEF GuardSpec

-----------------------------------------------------------------------------
\* The account pays at most one budget more per request that straddled midnight.
THEOREM OverrunIsStraddlers == GuardSpec => []StraddlersResetTheDay
<1>1. GuardInv => StraddlersResetTheDay
  <2>. SUFFICES ASSUME GuardInv, Budget > 0, NEW r \in Requests
                PROVE  Cardinality(ChargedOn(req[r].day)) <= Budget * (1 + Cardinality(Straddlers))
    BY DEF StraddlersResetTheDay
  <2>. DEFINE n == Cardinality(Straddlers)
  <2>1. req[r].day \in Nat /\ daily.used \in Nat /\ Budget \in Nat /\ n \in Nat
           /\ Spent(req[r].day) \in Nat
    BY GuardAssumption, SpentNat DEF GuardInv, CountersOK, Req
  <2>2. Spent(req[r].day) <= Budget * n + Budget
    BY <2>1 DEF GuardInv, Ceilings, Extra
  <2>3. Budget * (1 + n) = Budget * n + Budget
    BY <2>1
  <2>. QED  BY <2>2, <2>3 DEF Spent
<1>. QED  BY <1>1, GuardInvariance, PTL

\* As long as nobody straddled midnight, the counter is what was charged.
THEOREM CounterIsExact == GuardSpec => []CounterIsCharges
<1>1. GuardInv => CounterIsCharges
  BY DEF GuardInv, ExactCounter, CounterIsCharges, Spent
<1>. QED  BY <1>1, GuardInvariance, PTL

-----------------------------------------------------------------------------
(* The hour.  Stamps may be out of order, since a request reads the clock   *)
(* before it takes the lock; but a stamp is dropped only under a clock it   *)
(* is a window older than.  So the calls let through on time in the window  *)
(* that ends now all have their stamps kept, and of those there are at most *)
(* Limit: every window was the running one when it ended.                   *)

Since(stamps, m) == {i \in DOMAIN stamps : stamps[i] > m}

\* Calls of this process let through at the time their clock read.
OnTime(c, m) == {r \in Requests : /\ req[r].life = life /\ req[r].pc = "llm" /\ req[r].client = c
                                  /\ req[r].now = req[r].at /\ req[r].at > m}

OnTimeIn(c, t) == {r \in OnTime(c, t - Window) : req[r].at <= t}

StampsOK ==
    /\ calls \in [Clients -> Seq(Nat)]
    /\ Limit > 0 => \A c \in Clients : Len(calls[c]) <= Limit

Clocked ==
    \A r \in Requests :
        /\ req[r].now <= tick /\ req[r].at <= tick
        /\ req[r].pc \in {"day", "hour", "client"} => req[r].client \in Clients
        /\ req[r].pc = "llm" => req[r].now <= req[r].at

StampsCover ==
    Limit > 0 => \A c \in Clients, m \in Int :
        m >= tick - Window => Cardinality(OnTime(c, m)) <= Cardinality(Since(calls[c], m))

WindowsHold ==
    Limit > 0 => \A c \in Clients, t \in Nat :
        t <= tick => Cardinality(OnTimeIn(c, t)) <= Limit

HourInv == GuardInv /\ StampsOK /\ Clocked /\ StampsCover /\ WindowsHold

-----------------------------------------------------------------------------
(* What pruning and appending do to the stamps after an instant.            *)

\* A set of naturals has a least element: < is well founded on them.
LEMMA LeastStamp ==
    ASSUME NEW T \in SUBSET Nat, T # {}
    PROVE  \E m \in T : \A n \in T : m <= n
<1>. DEFINE R == OpToRel(<, Nat)
<1>1. IsWellFoundedOn(R, Nat)
  BY NatLessThanWellFounded
<1>2. \A m, n \in Nat : <<m, n>> \in R <=> m < n
  BY DEF OpToRel
<1>. HIDE DEF R
<1>3. PICK m \in T : \A n \in T : ~ (<<n, m>> \in R)
  BY <1>1, WFMin
<1>4. \A n \in T : ~ (n < m)
  BY <1>2, <1>3
<1>. QED  BY <1>4

LEMMA SinceFinite ==
    ASSUME NEW s \in Seq(Nat), NEW m \in Int
    PROVE  /\ IsFiniteSet(Since(s, m)) /\ Cardinality(Since(s, m)) \in Nat
           /\ Cardinality(Since(s, m)) <= Len(s)
<1>1. DOMAIN s = 1 .. Len(s) /\ Len(s) \in Nat
  BY LenProperties
<1>2. IsFiniteSet(1 .. Len(s)) /\ Cardinality(1 .. Len(s)) = Len(s)
  <2>. DEFINE n == Len(s)
  <2>1. n \in Nat
    BY <1>1
  <2>. HIDE DEF n
  <2>2. /\ IsFiniteSet(1 .. n)
        /\ Cardinality(1 .. n) = IF 1 > n THEN 0 ELSE n - 1 + 1
    BY <2>1, FS_Interval
  <2>3. Cardinality(1 .. n) = n
    BY <2>1, <2>2
  <2>. QED  BY <2>2, <2>3 DEF n
<1>3. Since(s, m) \in SUBSET (1 .. Len(s))
  BY <1>1 DEF Since
<1>4. IsFiniteSet(Since(s, m)) /\ Cardinality(Since(s, m)) <= Cardinality(1 .. Len(s))
  BY <1>2, <1>3, FS_Subset
<1>. QED  BY <1>2, <1>4, FS_CardinalityType

\* Whatever is inside the window stays, and keeps its number.
LEMMA PruningKeepsTheWindow ==
    ASSUME NEW s \in Seq(Nat), NEW now \in Nat
    PROVE  /\ Kept(s, now) \in Seq(Nat) /\ Len(Kept(s, now)) <= Len(s)
           /\ \A m \in Int : m >= now - Window =>
                 Cardinality(Since(s, m)) <= Cardinality(Since(Kept(s, now), m))
<1>. DEFINE inside == {i \in DOMAIN s : s[i] > now - Window}
            k == CHOOSE i \in inside : \A j \in inside : i <= j
            rest == SubSeq(s, k, Len(s))
<1>1. DOMAIN s = 1 .. Len(s) /\ Len(s) \in Nat /\ \A i \in 1 .. Len(s) : s[i] \in Nat
  BY LenProperties, ElementOfSeq
<1>w. Window \in Nat
  BY GuardAssumption
<1>2. CASE inside = {}
  <2>1. Kept(s, now) = <<>>
    BY <1>2 DEF Kept
  <2>2. \A m \in Int : m >= now - Window => Since(s, m) = {}
    BY <1>1, <1>2, <1>w DEF Since
  <2>3. \A m \in Int : m >= now - Window => Cardinality(Since(s, m)) = 0
    BY <2>2, FS_EmptySet
  <2>4. <<>> \in Seq(Nat) /\ Len(<<>>) <= Len(s)
    BY <1>1, EmptySeq
  <2>5. \A m \in Int : Cardinality(Since(<<>>, m)) \in Nat
    BY <2>4, SinceFinite
  <2>6. \A m \in Int : m >= now - Window =>
           Cardinality(Since(s, m)) <= Cardinality(Since(<<>>, m))
    BY <2>3, <2>5
  <2>. QED  BY <2>1, <2>4, <2>6
<1>3. CASE inside # {}
  <2>1. inside \in SUBSET Nat
    BY <1>1
  <2>2. \E i \in inside : \A j \in inside : i <= j
    BY <1>3, <2>1, LeastStamp
  <2>3. k \in inside /\ \A j \in inside : k <= j
    BY <2>2
  <2>. HIDE DEF k
  <2>4. k \in 1 .. Len(s) /\ \A i \in 1 .. Len(s) : s[i] > now - Window => k <= i
    BY <1>1, <2>3
  <2>5. /\ rest \in Seq(Nat) /\ Len(rest) = Len(s) - k + 1
        /\ \A i \in 1 .. Len(s) - k + 1 : rest[i] = s[k + i - 1]
    BY <1>1, <2>4, SubSeqProperties
  <2>6. Kept(s, now) = rest
    BY <1>3 DEF Kept, k
  <2>. HIDE DEF rest, inside
  <2>7. ASSUME NEW m \in Int, m >= now - Window
        PROVE  Cardinality(Since(s, m)) <= Cardinality(Since(rest, m))
    <3>. DEFINE f == [i \in Since(s, m) |-> i - k + 1]
    <3>1. DOMAIN rest = 1 .. Len(s) - k + 1
      BY <2>5, LenProperties
    <3>2. \A i \in Since(s, m) : i \in 1 .. Len(s) /\ s[i] > m /\ k <= i
      BY <1>1, <1>w, <2>4, <2>7 DEF Since
    <3>3. \A i \in Since(s, m) : i - k + 1 \in Since(rest, m)
      <4>. SUFFICES ASSUME NEW i \in Since(s, m) PROVE i - k + 1 \in Since(rest, m)
        OBVIOUS
      <4>1. i - k + 1 \in 1 .. Len(s) - k + 1 /\ k + (i - k + 1) - 1 = i
        BY <1>1, <2>4, <3>2
      <4>2. rest[i - k + 1] = s[i]
        BY <2>5, <4>1
      <4>. QED  BY <3>1, <3>2, <4>1, <4>2 DEF Since
    <3>4. f \in [Since(s, m) -> Since(rest, m)]
      BY <3>3
    <3>5. \A i, j \in Since(s, m) : f[i] = f[j] => i = j
      BY <1>1, <2>4, <3>2
    <3>6. f \in Injection(Since(s, m), Since(rest, m))
      BY <3>4, <3>5 DEF Injection, IsInjective
    <3>7. IsFiniteSet(Since(rest, m))
      BY <2>5, SinceFinite
    <3>. QED  BY <3>6, <3>7, FS_Injection
  <2>. QED  BY <1>1, <2>4, <2>5, <2>6, <2>7
<1>. QED  BY <1>2, <1>3

LEMMA AppendingCounts ==
    ASSUME NEW s \in Seq(Nat), NEW now \in Nat, NEW m \in Int
    PROVE  /\ Append(s, now) \in Seq(Nat) /\ Len(Append(s, now)) = Len(s) + 1
           /\ Cardinality(Since(s, m)) <= Cardinality(Since(Append(s, now), m))
           /\ now > m => Cardinality(Since(Append(s, now), m)) = Cardinality(Since(s, m)) + 1
<1>. DEFINE t == Append(s, now)
<1>1. /\ t \in Seq(Nat) /\ Len(t) = Len(s) + 1 /\ t[Len(s) + 1] = now
      /\ \A i \in 1 .. Len(s) : t[i] = s[i]
  BY AppendProperties
<1>2. DOMAIN s = 1 .. Len(s) /\ DOMAIN t = 1 .. Len(s) + 1 /\ Len(s) \in Nat
  BY <1>1, LenProperties
<1>. HIDE DEF t
<1>3. Since(t, m) = Since(s, m) \cup (IF now > m THEN {Len(s) + 1} ELSE {})
  BY <1>1, <1>2 DEF Since
<1>4. Len(s) + 1 \notin Since(s, m)
  BY <1>2 DEF Since
<1>5. IsFiniteSet(Since(s, m)) /\ Cardinality(Since(s, m)) \in Nat
  BY SinceFinite
<1>6. CASE now > m
  <2>1. Cardinality(Since(t, m)) = Cardinality(Since(s, m)) + 1
    BY <1>3, <1>4, <1>5, <1>6, FS_AddElement
  <2>. QED  BY <1>1, <1>5, <1>6, <2>1 DEF t
<1>7. CASE ~(now > m)
  <2>1. Since(t, m) = Since(s, m)
    BY <1>3, <1>7
  <2>. QED  BY <1>1, <1>5, <1>7, <2>1 DEF t
<1>. QED  BY <1>6, <1>7

-----------------------------------------------------------------------------
(* The windows, step by step.                                              *)

LEMMA OnTimeFinite ==
    /\ \A c, m : OnTime(c, m) \subseteq Requests /\ Cardinality(OnTime(c, m)) \in Nat
    /\ \A c, t : OnTimeIn(c, t) \subseteq Requests /\ Cardinality(OnTimeIn(c, t)) \in Nat
<1>1. \A c, m : OnTime(c, m) \subseteq Requests
  BY DEF OnTime
<1>2. \A c, t : OnTimeIn(c, t) \subseteq Requests
  BY <1>1 DEF OnTimeIn
<1>. QED  BY <1>1, <1>2, RequestsCounted

LEMMA FewerOf ==
    ASSUME NEW S, NEW T, T \subseteq Requests, S \subseteq T
    PROVE  Cardinality(S) <= Cardinality(T)
BY RequestsCounted, FS_Subset

\* The window that ends now, or is still to end, is held by the stamps.
RunningHold ==
    Limit > 0 => \A c \in Clients, t \in Nat :
        t >= tick => Cardinality(OnTimeIn(c, t)) <= Limit

LEMMA RunningWindowHolds == CountersOK /\ StampsOK /\ StampsCover => RunningHold
<1>. SUFFICES ASSUME CountersOK, StampsOK, StampsCover, Limit > 0,
                     NEW c \in Clients, NEW t \in Nat, t >= tick
              PROVE  Cardinality(OnTimeIn(c, t)) <= Limit
  BY DEF RunningHold
<1>1. tick \in Nat /\ Window \in Nat /\ Limit \in Nat
  BY GuardAssumption DEF CountersOK
<1>. DEFINE m == t - Window
<1>2. m \in Int /\ m >= tick - Window
  BY <1>1
<1>6. OnTimeIn(c, t) \subseteq OnTime(c, m)
  BY DEF OnTimeIn
<1>. HIDE DEF m
<1>3. Cardinality(OnTime(c, m)) <= Cardinality(Since(calls[c], m))
  BY <1>2 DEF StampsCover
<1>4. calls[c] \in Seq(Nat) /\ Len(calls[c]) <= Limit /\ Len(calls[c]) \in Nat
  BY LenProperties DEF StampsOK
<1>5. Cardinality(Since(calls[c], m)) <= Len(calls[c]) /\ Cardinality(Since(calls[c], m)) \in Nat
  BY <1>2, <1>4, SinceFinite
<1>7. Cardinality(OnTimeIn(c, t)) <= Cardinality(OnTime(c, m))
  BY <1>6, OnTimeFinite, FewerOf
<1>. QED  BY <1>1, <1>3, <1>4, <1>5, <1>7, OnTimeFinite

LEMMA RunningWindowStillHolds == CountersOK' /\ StampsOK' /\ StampsCover' => RunningHold'
BY RunningWindowHolds, PTL

LEMMA InitHourInv == GuardInit => HourInv
<1>. SUFFICES ASSUME GuardInit PROVE HourInv
  OBVIOUS
<1>. USE DEF GuardInit
<1>1. GuardInv
  BY GuardInitInv
<1>2. \A r \in Requests : req[r].pc = "idle" /\ req[r].now = 0 /\ req[r].at = -1
  BY DEF Idle
<1>3. StampsOK
  BY EmptySeq, GuardAssumption DEF StampsOK
<1>4. Clocked
  BY <1>2 DEF Clocked
<1>5. (\A c, m : OnTime(c, m) = {}) /\ (\A c, t : OnTimeIn(c, t) = {})
  BY <1>2 DEF OnTime, OnTimeIn
<1>6. \A c \in Clients, m \in Int : Since(calls[c], m) = {}
  BY DEF Since
<1>7. Cardinality({}) = 0 /\ Limit \in Nat
  BY FS_EmptySet, GuardAssumption
<1>8. StampsCover
  <2>1. ASSUME NEW c \in Clients, NEW m \in Int
        PROVE  Cardinality(OnTime(c, m)) <= Cardinality(Since(calls[c], m))
    <3>1. OnTime(c, m) = {} /\ Since(calls[c], m) = {}
      BY <1>5, <1>6
    <3>. QED  BY <1>7, <3>1
  <2>. QED  BY <2>1 DEF StampsCover
<1>9. WindowsHold
  <2>1. ASSUME NEW c \in Clients, NEW t \in Nat
        PROVE  Cardinality(OnTimeIn(c, t)) = 0
    <3>1. OnTimeIn(c, t) = {}
      BY <1>5
    <3>. QED  BY <1>7, <3>1
  <2>. QED  BY <1>7, <2>1 DEF WindowsHold
<1>. QED  BY <1>1, <1>3, <1>4, <1>8, <1>9 DEF HourInv

\* A step that lets nobody through and touches no stamps.
LEMMA QuietStepKeepsHour ==
    ASSUME HourInv, tick' = tick, life' = life, calls' = calls, CountersOK',
           NEW r \in Requests, \A s \in Requests : s # r => req'[s] = req[s],
           req[r].pc # "llm", req'[r].pc # "llm",
           req'[r].now <= tick, req'[r].at <= tick,
           req'[r].pc \in {"day", "hour", "client"} => req'[r].client \in Clients
    PROVE  (StampsOK /\ Clocked /\ StampsCover /\ WindowsHold)'
<1>1. StampsOK' /\ Clocked'
  BY DEF HourInv, StampsOK, Clocked
<1>2. (\A c, m : OnTime(c, m)' = OnTime(c, m)) /\ (\A c, t : OnTimeIn(c, t)' = OnTimeIn(c, t))
  BY DEF OnTime, OnTimeIn
<1>3. StampsCover' /\ WindowsHold'
  BY <1>2 DEF HourInv, StampsCover, WindowsHold
<1>. QED  BY <1>1, <1>3

LEMMA ChargeClientKeepsHour ==
    ASSUME HourInv, GuardInv', NEW r \in Requests, ChargeClient(r)
    PROVE  (StampsOK /\ Clocked /\ StampsCover /\ WindowsHold)'
<1>. DEFINE c == req[r].client
            now == req[r].now
            kept == Kept(calls[c], now)
            refused == Limit > 0 /\ Len(kept) >= Limit
<1>0. /\ tick \in Nat /\ Window \in Nat /\ Limit \in Nat /\ tick' = tick /\ life' = life
      /\ req \in [Requests -> Req] /\ req[r].pc = "client" /\ c \in Clients
      /\ now \in Nat /\ now <= tick /\ req[r].life = life
      /\ calls \in [Clients -> Seq(Nat)]
  BY GuardAssumption DEF HourInv, GuardInv, CountersOK, Timely, Clocked, ChargeClient, Req, StampsOK
<1>1. /\ calls' = IF Limit = 0 THEN calls
                  ELSE [calls EXCEPT ![c] = IF refused THEN kept ELSE Append(kept, now)]
      /\ req' = [req EXCEPT ![r].pc = IF refused THEN "limited" ELSE "llm", ![r].at = tick]
  BY DEF ChargeClient
<1>2. /\ req'[r].pc = (IF refused THEN "limited" ELSE "llm") /\ req'[r].at = tick
      /\ req'[r].now = now /\ req'[r].client = c /\ req'[r].life = life
      /\ \A s \in Requests : s # r => req'[s] = req[s]
  BY <1>0, <1>1 DEF Req
<1>3. Clocked'
  BY <1>0, <1>2 DEF HourInv, Clocked
<1>4. /\ kept \in Seq(Nat) /\ Len(kept) <= Len(calls[c]) /\ Len(kept) \in Nat
      /\ \A m \in Int : m >= now - Window =>
            Cardinality(Since(calls[c], m)) <= Cardinality(Since(kept, m))
  BY <1>0, PruningKeepsTheWindow, LenProperties
<1>. HIDE DEF kept
<1>5. /\ Append(kept, now) \in Seq(Nat) /\ Len(Append(kept, now)) = Len(kept) + 1
      /\ \A m \in Int :
            /\ Cardinality(Since(kept, m)) <= Cardinality(Since(Append(kept, now), m))
            /\ now > m => Cardinality(Since(Append(kept, now), m)) = Cardinality(Since(kept, m)) + 1
  BY <1>0, <1>4, AppendingCounts
<1>6. StampsOK'
  <2>1. calls' \in [Clients -> Seq(Nat)]
    BY <1>0, <1>1, <1>4, <1>5
  <2>2. ASSUME Limit > 0, NEW d \in Clients
        PROVE  Len(calls'[d]) <= Limit
    <3>1. Len(calls[d]) <= Limit /\ Len(calls[d]) \in Nat
      BY <1>0, <2>2, LenProperties DEF HourInv, StampsOK
    <3>2. CASE d = c
      BY <1>0, <1>1, <1>4, <1>5, <2>2, <3>1, <3>2
    <3>3. CASE d # c
      BY <1>0, <1>1, <2>2, <3>1, <3>3
    <3>. QED  BY <3>2, <3>3
  <2>. QED  BY <2>1, <2>2 DEF StampsOK
<1>7. StampsCover'
  <2>. SUFFICES ASSUME Limit > 0, NEW d \in Clients, NEW m \in Int, m >= tick - Window
                PROVE  Cardinality(OnTime(d, m))' <= Cardinality(Since(calls'[d], m))
    BY <1>0 DEF StampsCover, Since
  <2>1. /\ Cardinality(OnTime(d, m)) <= Cardinality(Since(calls[d], m))
        /\ OnTime(d, m) \subseteq Requests /\ Cardinality(OnTime(d, m)) \in Nat
    BY OnTimeFinite DEF HourInv, StampsCover
  <2>2. r \notin OnTime(d, m)
    BY <1>0 DEF OnTime
  <2>3. calls[d] \in Seq(Nat) /\ Cardinality(Since(calls[d], m)) \in Nat
           /\ Cardinality(Since(kept, m)) \in Nat
    BY <1>0, <1>4, SinceFinite
  <2>4. CASE d = c /\ ~refused /\ now = tick /\ tick > m
    <3>1. OnTime(d, m)' = OnTime(d, m) \cup {r}
      BY <1>0, <1>2, <2>4 DEF OnTime
    <3>2. Cardinality(OnTime(d, m))' = Cardinality(OnTime(d, m)) + 1
      BY <2>1, <2>2, <3>1, OneMore
    <3>3. Cardinality(Since(calls'[d], m)) = Cardinality(Since(kept, m)) + 1
      BY <1>0, <1>1, <1>5, <2>4
    <3>4. Cardinality(Since(calls[d], m)) <= Cardinality(Since(kept, m))
      BY <1>0, <1>4, <2>4
    <3>. QED  BY <2>1, <2>3, <3>2, <3>3, <3>4
  <2>5. CASE ~(d = c /\ ~refused /\ now = tick /\ tick > m)
    <3>1. OnTime(d, m)' = OnTime(d, m)
      BY <1>0, <1>2, <2>2, <2>5 DEF OnTime
    <3>2. Cardinality(Since(calls[d], m)) <= Cardinality(Since(calls'[d], m))
      <4>1. CASE d # c
        BY <1>0, <1>1, <2>3, <4>1
      <4>2. CASE d = c
        <5>1. m >= now - Window
          BY <1>0
        <5>2. Cardinality(Since(calls[d], m)) <= Cardinality(Since(kept, m))
          BY <1>4, <4>2, <5>1
        <5>3. Cardinality(Since(kept, m)) <= Cardinality(Since(Append(kept, now), m))
          BY <1>5
        <5>4. Cardinality(Since(Append(kept, now), m)) \in Nat
          BY <1>5, SinceFinite
        <5>5. calls'[d] = kept \/ calls'[d] = Append(kept, now)
          BY <1>0, <1>1, <4>2
        <5>6. Cardinality(Since(calls[d], m)) <= Cardinality(Since(Append(kept, now), m))
          BY <2>3, <5>2, <5>3, <5>4
        <5>. QED  BY <5>2, <5>5, <5>6
      <4>. QED  BY <4>1, <4>2
    <3>3. Cardinality(Since(calls'[d], m)) \in Nat
      BY <1>6, SinceFinite DEF StampsOK
    <3>. QED  BY <2>1, <2>3, <3>1, <3>2, <3>3
  <2>. QED  BY <2>4, <2>5
<1>8. WindowsHold'
  <2>. SUFFICES ASSUME Limit > 0, NEW d \in Clients, NEW t \in Nat, t <= tick
                PROVE  Cardinality(OnTimeIn(d, t))' <= Limit
    BY <1>0 DEF WindowsHold
  <2>1. CASE t = tick
    <3>1. CountersOK'
      BY DEF GuardInv
    <3>2. RunningHold'
      BY <1>6, <1>7, <3>1, RunningWindowStillHolds
    <3>. QED  BY <1>0, <2>1, <3>2 DEF RunningHold
  <2>2. CASE t < tick
    <3>1. OnTimeIn(d, t)' = OnTimeIn(d, t)
      <4>1. \A s \in Requests : s \in OnTimeIn(d, t)' <=> s \in OnTimeIn(d, t)
        <5>. SUFFICES ASSUME NEW s \in Requests
                      PROVE  s \in OnTimeIn(d, t)' <=> s \in OnTimeIn(d, t)
          OBVIOUS
        <5>1. CASE s = r
          BY <1>0, <1>2, <2>2, <5>1 DEF OnTimeIn, OnTime
        <5>2. CASE s # r
          BY <1>0, <1>2, <5>2 DEF OnTimeIn, OnTime
        <5>. QED  BY <5>1, <5>2
      <4>2. OnTimeIn(d, t) \subseteq Requests /\ OnTimeIn(d, t)' \subseteq Requests
        BY DEF OnTimeIn, OnTime
      <4>. QED  BY <4>1, <4>2
    <3>2. Cardinality(OnTimeIn(d, t)) <= Limit
      BY DEF HourInv, WindowsHold
    <3>. QED  BY <3>1, <3>2
  <2>. QED  BY <1>0, <2>1, <2>2
<1>. QED  BY <1>3, <1>6, <1>7, <1>8

LEMMA ArriveOrWaitKeepsHour ==
    ASSUME HourInv, GuardInv', NEW r \in Requests, Arrive(r) \/ ChargeDay(r) \/ ReadClock(r)
    PROVE  (StampsOK /\ Clocked /\ StampsCover /\ WindowsHold)'
<1>1. /\ tick \in Nat /\ tick' = tick /\ life' = life /\ calls' = calls
      /\ req \in [Requests -> Req] /\ req[r] \in Req /\ CountersOK'
  BY DEF Arrive, ChargeDay, ReadClock, HourInv, GuardInv, CountersOK
<1>2. \A s \in Requests : s # r => req'[s] = req[s]
  BY <1>1 DEF Arrive, ChargeDay, ReadClock
<1>3. req[r].pc # "llm" /\ req[r].now <= tick /\ req[r].at <= tick
  BY DEF Arrive, ChargeDay, ReadClock, HourInv, Clocked
<1>4. /\ req'[r].pc # "llm" /\ req'[r].now <= tick /\ req'[r].at <= tick
      /\ req'[r].pc \in {"day", "hour", "client"} => req'[r].client \in Clients
  <2>1. CASE Arrive(r)
    <3>1. PICK c \in Clients, admitted \in BOOLEAN :
             req' = [req EXCEPT ![r] = [Idle EXCEPT !.client = c, !.life = life, !.day = Day(tick),
                                                    !.pc = IF admitted THEN "day" ELSE "template"]]
      BY <2>1 DEF Arrive
    <3>. QED  BY <1>1, <3>1 DEF Idle
  <2>2. CASE ChargeDay(r)
    <3>1. req[r].pc = "day" /\ req[r].client \in Clients
      BY <2>2 DEF ChargeDay, HourInv, Clocked
    <3>2. \/ req' = [req EXCEPT ![r].pc = "template"]
          \/ req' = [req EXCEPT ![r].pc = "hour", ![r].charged = tick]
      BY <2>2 DEF ChargeDay
    <3>. QED  BY <1>1, <1>3, <3>1, <3>2 DEF Req
  <2>3. CASE ReadClock(r)
    <3>1. req[r].client \in Clients
      BY <2>3 DEF ReadClock, HourInv, Clocked
    <3>2. req' = [req EXCEPT ![r].pc = "client", ![r].now = tick]
      BY <2>3 DEF ReadClock
    <3>. QED  BY <1>1, <1>3, <3>1, <3>2 DEF Req
  <2>. QED  BY <2>1, <2>2, <2>3
<1>. QED  BY <1>1, <1>2, <1>3, <1>4, QuietStepKeepsHour

\* The clock moves into a window that the stamps already hold.
LEMMA TickKeepsHour ==
    ASSUME HourInv, GuardInv', Tick
    PROVE  (StampsOK /\ Clocked /\ StampsCover /\ WindowsHold)'
<1>1. /\ tick' = tick + 1 /\ tick \in Nat /\ UNCHANGED <<life, daily, calls, req>>
      /\ req \in [Requests -> Req] /\ Window \in Nat
  BY GuardAssumption DEF Tick, HourInv, GuardInv, CountersOK
<1>2. StampsOK'
  BY <1>1 DEF HourInv, StampsOK
<1>3. Clocked'
  BY <1>1 DEF HourInv, Clocked, Req
<1>4. /\ \A c, m : OnTime(c, m)' = OnTime(c, m)
      /\ \A c, t : OnTimeIn(c, t)' = OnTimeIn(c, t)
  BY <1>1 DEF OnTime, OnTimeIn
<1>5. StampsCover'
  BY <1>1, <1>4 DEF HourInv, StampsCover, Since
<1>6. WindowsHold'
  <2>. SUFFICES ASSUME Limit > 0, NEW c \in Clients, NEW t \in Nat, t <= tick + 1
                PROVE  Cardinality(OnTimeIn(c, t)) <= Limit
    BY <1>1, <1>4 DEF WindowsHold
  <2>1. RunningHold
    BY RunningWindowHolds DEF HourInv, GuardInv
  <2>2. CASE t <= tick
    BY <2>2 DEF HourInv, WindowsHold
  <2>3. CASE t > tick
    BY <1>1, <2>1, <2>3 DEF RunningHold
  <2>. QED  BY <1>1, <2>2, <2>3
<1>. QED  BY <1>2, <1>3, <1>5, <1>6

\* Nobody was let through by the process that starts.
LEMMA RestartKeepsHour ==
    ASSUME HourInv, GuardInv', Restart
    PROVE  (StampsOK /\ Clocked /\ StampsCover /\ WindowsHold)'
<1>1. /\ life' = life + 1 /\ life \in Nat /\ tick' = tick /\ tick \in Nat
      /\ calls' = [c \in Clients |-> <<>>] /\ Limit \in Nat
  BY GuardAssumption DEF Restart, HourInv, GuardInv, CountersOK
<1>2. \A r \in Requests :
         /\ req[r] \in Req /\ req'[r].life = req[r].life /\ req'[r].now = req[r].now
         /\ req'[r].at = req[r].at /\ req'[r].pc \notin {"day", "hour", "client"}
         /\ req'[r].pc = "llm" => req[r].pc = "llm"
  BY DEF Restart, HourInv, GuardInv, CountersOK, Req
<1>3. StampsOK'
  BY <1>1, EmptySeq DEF StampsOK
<1>4. Clocked'
  BY <1>1, <1>2 DEF HourInv, Clocked
<1>5. \A r \in Requests : req'[r].life # life'
  BY <1>1, <1>2 DEF HourInv, GuardInv, Timely, Req
<1>6. (\A c, m : OnTime(c, m)' = {}) /\ (\A c, t : OnTimeIn(c, t)' = {})
  BY <1>5 DEF OnTime, OnTimeIn
<1>7. \A c \in Clients, m \in Int : Since(calls[c], m)' = {}
  BY <1>1 DEF Since
<1>8. Cardinality({}) = 0
  BY FS_EmptySet
<1>9. StampsCover'
  BY <1>6, <1>7, <1>8 DEF StampsCover
<1>10. WindowsHold'
  <2>1. ASSUME NEW c \in Clients, NEW t \in Nat
        PROVE  Cardinality(OnTimeIn(c, t))' = 0
    <3>1. OnTimeIn(c, t)' = {}
      BY <1>6
    <3>. QED  BY <1>8, <3>1
  <2>. QED  BY <1>1, <2>1 DEF WindowsHold
<1>. QED  BY <1>3, <1>4, <1>9, <1>10

LEMMA HourInvariance == GuardSpec => []HourInv
<1>1. HourInv /\ GuardInv' /\ [GuardNext]_guard => HourInv'
  <2>. SUFFICES ASSUME HourInv, GuardInv', [GuardNext]_guard PROVE HourInv'
    OBVIOUS
  <2>1. CASE GuardNext
    BY <2>1, ArriveOrWaitKeepsHour, ChargeClientKeepsHour, TickKeepsHour, RestartKeepsHour
       DEF GuardNext, GuardStep, HourInv
  <2>2. CASE UNCHANGED guard
    <3>1. UNCHANGED <<tick, life, calls, req>>
      BY <2>2 DEF guard
    <3>2. StampsOK' /\ Clocked'
      BY <3>1 DEF HourInv, StampsOK, Clocked
    <3>3. StampsCover' /\ WindowsHold'
      BY <3>1 DEF HourInv, StampsCover, WindowsHold, OnTimeIn, OnTime, Since
    <3>. QED  BY <3>2, <3>3 DEF HourInv
  <2>. QED  BY <2>1, <2>2
<1>. QED  BY <1>1, InitHourInv, GuardInvariance, PTL DEF GuardSpec

-----------------------------------------------------------------------------
\* In any window a client gets its hourly calls, and one more for each that was
\* charged under an older clock than it was let through at (ip_allowance).
THEOREM HourIsCapped == GuardSpec => []HourlyCeiling
<1>1. HourInv => HourlyCeiling
  <2>. SUFFICES ASSUME HourInv, Limit > 0, NEW c \in Clients, NEW t \in 0 .. MaxTick
                PROVE  Cardinality(LetThrough(c, t))
                         <= Limit + Cardinality({r \in LetThrough(c, t) : req[r].now < req[r].at})
    BY DEF HourlyCeiling
  <2>. DEFINE late == {r \in LetThrough(c, t) : req[r].now < req[r].at}
  <2>1. t \in Nat /\ tick \in Nat /\ Limit \in Nat
    BY GuardAssumption DEF HourInv, GuardInv, CountersOK
  <2>2. Cardinality(OnTimeIn(c, t)) <= Limit
    <3>1. RunningHold
      BY RunningWindowHolds DEF HourInv, GuardInv
    <3>. QED  BY <2>1, <3>1 DEF HourInv, WindowsHold, RunningHold
  <2>3. LetThrough(c, t) \subseteq OnTimeIn(c, t) \cup late
    <3>1. \A r \in LetThrough(c, t) : req[r].now = req[r].at \/ req[r].now < req[r].at
      BY DEF LetThrough, HourInv, Clocked, GuardInv, CountersOK, Req
    <3>. QED  BY <3>1 DEF LetThrough, OnTimeIn, OnTime
  <2>4. late \subseteq Requests /\ LetThrough(c, t) \subseteq Requests
           /\ OnTimeIn(c, t) \subseteq Requests
    BY OnTimeFinite DEF LetThrough
  <2>. HIDE DEF late
  <2>5. Cardinality(OnTimeIn(c, t) \cup late) <= Cardinality(OnTimeIn(c, t)) + Cardinality(late)
    <3>1. IsFiniteSet(OnTimeIn(c, t)) /\ IsFiniteSet(late)
             /\ Cardinality(OnTimeIn(c, t) \cap late) \in Nat
             /\ Cardinality(OnTimeIn(c, t)) \in Nat /\ Cardinality(late) \in Nat
      BY <2>4, RequestsCounted
    <3>2. Cardinality(OnTimeIn(c, t) \cup late) = Cardinality(OnTimeIn(c, t)) + Cardinality(late)
                                                  - Cardinality(OnTimeIn(c, t) \cap late)
      BY <3>1, FS_Union
    <3>. QED  BY <3>1, <3>2
  <2>6. Cardinality(LetThrough(c, t)) <= Cardinality(OnTimeIn(c, t) \cup late)
    BY <2>3, <2>4, FewerOf
  <2>7. /\ Cardinality(LetThrough(c, t)) \in Nat /\ Cardinality(OnTimeIn(c, t)) \in Nat
        /\ Cardinality(late) \in Nat /\ Cardinality(OnTimeIn(c, t) \cup late) \in Nat
    BY <2>4, RequestsCounted
  <2>. QED  BY <2>1, <2>2, <2>5, <2>6, <2>7 DEF late
<1>. QED  BY <1>1, HourInvariance, PTL

\* Both ceilings hold but for the calls that straddle their boundary, and the day's
\* counter is what was charged (llm_budget.py).
THEOREM SpendIsCapped == GuardSpec => []CeilingsHold
<1>1. StraddlersResetTheDay /\ CounterIsCharges /\ HourlyCeiling => CeilingsHold
  BY DEF CeilingsHold
<1>. QED  BY <1>1, OverrunIsStraddlers, CounterIsExact, HourIsCapped, PTL

-----------------------------------------------------------------------------
(***************************************************************************)
(* What the scheduler keeps for any number of starts, stops, sweeps and    *)
(* failures.  Alive loops are followed through the one that thread names:  *)
(* each join that gives up leaves at most one that it no longer names.     *)
(***************************************************************************)

Orphans == Alive \ {thread}

OrphansPerOverrun == Cardinality(Orphans) <= overrun

StopRequested == stopper = "joining" => ~running

\* The counter the delay is chosen by is the length of the current streak.
CounterIsStreak == failures = streak

LoopInv == SchedulerTypeOK /\ OrphansPerOverrun /\ SingleLoop /\ StopRequested /\ RunningIsTrue
         /\ CounterIsStreak

LEMMA LoopsFinite == IsFiniteSet(Loops)
<1>1. 1 \in Int /\ MaxStarts \in Int
  BY SchedulerAssumption
<1>. QED  BY <1>1, FS_Interval DEF Loops

LEMMA AliveFinite ==
    ASSUME NEW S, S \subseteq Loops
    PROVE  IsFiniteSet(S) /\ Cardinality(S) \in Nat
<1>1. IsFiniteSet(S)
  BY LoopsFinite, FS_Subset
<1>. QED  BY <1>1, FS_CardinalityType

\* Fewer orphans are not more than the joins that gave up.
LEMMA FewerOrphans ==
    ASSUME NEW S, NEW T, T \subseteq Loops, S \subseteq T, NEW n \in Nat, Cardinality(T) <= n
    PROVE  Cardinality(S) <= n
<1>1. Cardinality(S) <= Cardinality(T)
  BY LoopsFinite, FS_Subset
<1>. QED  BY <1>1, AliveFinite

LEMMA LoopInitInv == SchedulerInit => LoopInv
<1>. SUFFICES ASSUME SchedulerInit PROVE LoopInv
  OBVIOUS
<1>. USE DEF SchedulerInit
<1>1. SchedulerTypeOK
  <2>1. loop \in [Loops -> {"new", "check", "sweep", "succeeded", "failed", "waiting", "ended"}]
    OBVIOUS
  <2>2. starts \in 0 .. MaxStarts /\ thread \in 0 .. starts
    BY SchedulerAssumption DEF NoThread
  <2>3. \A l \in Loops : loop[l] = "new"
    OBVIOUS
  <2>. QED  BY <2>1, <2>2, <2>3 DEF SchedulerTypeOK
<1>2. Alive = {} /\ Orphans = {}
  BY DEF Alive, Orphans
<1>3. OrphansPerOverrun
  BY <1>2, FS_EmptySet DEF OrphansPerOverrun
<1>. QED  BY <1>1, <1>2, <1>3 DEF LoopInv, SingleLoop, StopRequested, RunningIsTrue, CounterIsStreak

-----------------------------------------------------------------------------
LEMMA StartKeepsInv ==
    ASSUME LoopInv, Start
    PROVE  LoopInv'
<1>. USE DEF LoopInv, Start
<1>. DEFINE s == starts + 1
<1>0. /\ starts \in Nat /\ s \in Loops /\ s > starts /\ loop[s] = "new"
      /\ starts' = s /\ thread' = s /\ loop' = [loop EXCEPT ![s] = "check"]
  BY SchedulerAssumption DEF SchedulerTypeOK, Loops
<1>. HIDE DEF s
<1>1. SchedulerTypeOK'
  <2>1. loop' \in [Loops -> {"new", "check", "sweep", "succeeded", "failed", "waiting", "ended"}]
    BY <1>0 DEF SchedulerTypeOK
  <2>2. starts' \in 0 .. MaxStarts /\ thread' \in 0 .. starts'
    BY <1>0, SchedulerAssumption DEF Loops
  <2>3. \A l \in Loops : l > starts' => loop'[l] = "new"
    BY <1>0 DEF SchedulerTypeOK, Loops
  <2>. QED  BY <2>1, <2>2, <2>3 DEF SchedulerTypeOK
<1>2. /\ starts' \in Loops /\ thread' = starts' /\ starts' \notin Alive
      /\ Alive' = Alive \cup {starts'}
  BY <1>0 DEF SchedulerTypeOK, Alive
<1>3. Orphans' = Orphans
  BY <1>2 DEF Orphans
<1>4. OrphansPerOverrun'
  BY <1>3 DEF OrphansPerOverrun
<1>5. SingleLoop'
  BY <1>2 DEF SingleLoop
<1>6. StopRequested' /\ RunningIsTrue' /\ CounterIsStreak'
  BY <1>2 DEF StopRequested, RunningIsTrue, CounterIsStreak
<1>. QED  BY <1>1, <1>4, <1>5, <1>6

LEMMA RequestStopKeepsInv ==
    ASSUME LoopInv, RequestStop
    PROVE  LoopInv'
<1>. USE DEF LoopInv, RequestStop
<1>1. SchedulerTypeOK'
  BY DEF SchedulerTypeOK
<1>2. Alive' = Alive /\ Orphans' = Orphans
  BY DEF Alive, Orphans
<1>. QED  BY <1>1, <1>2 DEF OrphansPerOverrun, SingleLoop, StopRequested, RunningIsTrue,
             CounterIsStreak

LEMMA FinishStopKeepsInv ==
    ASSUME LoopInv, FinishStop
    PROVE  LoopInv'
<1>. USE DEF LoopInv, FinishStop
<1>1. SchedulerTypeOK'
  BY DEF SchedulerTypeOK, NoThread
<1>2. Alive' = Alive /\ Orphans' = Alive /\ Alive \subseteq Loops
  BY DEF Alive, Orphans, NoThread, Loops
<1>3. OrphansPerOverrun' /\ SingleLoop'
  <2>1. CASE thread \notin Alive
    <3>1. Orphans = Alive
      BY <2>1 DEF Orphans
    <3>2. overrun = 0 => Alive = {}
      BY <2>1 DEF SingleLoop
    <3>. QED  BY <1>2, <2>1, <3>1, <3>2 DEF OrphansPerOverrun, SingleLoop
  <2>2. CASE thread \in Alive
    <3>1. IsFiniteSet(Orphans) /\ Cardinality(Orphans) \in Nat
      BY <1>2, AliveFinite DEF Orphans
    <3>2. Alive = Orphans \cup {thread} /\ thread \notin Orphans
      BY <2>2 DEF Orphans
    <3>3. Cardinality(Alive) = Cardinality(Orphans) + 1
      BY <3>1, <3>2, FS_AddElement
    <3>4. overrun' = overrun + 1 /\ overrun \in Nat
      BY <2>2 DEF SchedulerTypeOK
    <3>. QED  BY <1>2, <3>1, <3>3, <3>4 DEF OrphansPerOverrun, SingleLoop
  <2>. QED  BY <2>1, <2>2
<1>4. StopRequested' /\ CounterIsStreak'
  BY DEF StopRequested, CounterIsStreak
<1>5. RunningIsTrue'
  BY DEF RunningIsTrue, StopRequested
<1>. QED  BY <1>1, <1>3, <1>4, <1>5

\* A loop that moves starts no other; it ends only when a stop was requested.
LEMMA LoopStepKeepsInv ==
    ASSUME LoopInv, NEW l \in Loops, LoopStep(l)
    PROVE  LoopInv'
<1>. USE DEF LoopInv
<1>1. SchedulerTypeOK'
  <2>1. CASE Check(l)
    BY <2>1 DEF SchedulerTypeOK, Check
  <2>2. CASE Succeed(l)
    BY <2>2 DEF SchedulerTypeOK, Succeed
  <2>3. CASE Fail(l)
    BY <2>3 DEF SchedulerTypeOK, Fail
  <2>4. CASE Arm(l)
    BY <2>4, SchedulerAssumption DEF SchedulerTypeOK, Arm
  <2>5. CASE Wake(l)
    BY <2>5 DEF SchedulerTypeOK, Wake
  <2>. QED  BY <2>1, <2>2, <2>3, <2>4, <2>5 DEF LoopStep
<1>2. /\ Alive' \subseteq Alive /\ Alive \subseteq Loops
      /\ thread' = thread /\ overrun' = overrun /\ stopper' = stopper
      /\ running' = running /\ stopEvent' = stopEvent
  BY DEF LoopStep, Check, Succeed, Fail, Arm, Wake, Alive, SchedulerTypeOK
<1>3. Orphans' \subseteq Orphans /\ Orphans \subseteq Loops
  BY <1>2 DEF Orphans
<1>4. OrphansPerOverrun'
  <2>1. overrun \in Nat /\ Cardinality(Orphans) <= overrun
    BY DEF SchedulerTypeOK, OrphansPerOverrun
  <2>2. Cardinality(Orphans') <= overrun
    BY <1>3, <2>1, FewerOrphans
  <2>. QED  BY <1>2, <2>2 DEF OrphansPerOverrun
<1>5. SingleLoop' /\ StopRequested'
  BY <1>2 DEF SingleLoop, StopRequested
<1>6. ~stopEvent => Alive' = Alive
  BY DEF LoopStep, Check, Succeed, Fail, Arm, Wake, Alive, SchedulerTypeOK
<1>7. RunningIsTrue'
  BY <1>2, <1>6 DEF RunningIsTrue
<1>8. CounterIsStreak'
  BY DEF LoopStep, Check, Succeed, Fail, Arm, Wake, CounterIsStreak
<1>. QED  BY <1>1, <1>4, <1>5, <1>7, <1>8

LEMMA LoopNextInv == LoopInv /\ [SchedulerNext]_scheduler => LoopInv'
<1>. SUFFICES ASSUME LoopInv, [SchedulerNext]_scheduler PROVE LoopInv'
  OBVIOUS
<1>1. CASE SchedulerNext
  BY <1>1, StartKeepsInv, RequestStopKeepsInv, FinishStopKeepsInv, LoopStepKeepsInv
     DEF SchedulerNext
<1>2. CASE UNCHANGED scheduler
  BY <1>2 DEF scheduler, LoopInv, SchedulerTypeOK, OrphansPerOverrun, Orphans, SingleLoop, Alive,
              StopRequested, RunningIsTrue, CounterIsStreak
<1>. QED  BY <1>1, <1>2

LEMMA LoopInvariance == SchedulerSpec => []LoopInv
BY LoopInitInv, LoopNextInv, PTL DEF SchedulerSpec

-----------------------------------------------------------------------------
\* Every variable of the scheduler keeps its type.
THEOREM SchedulerTypeCorrect == SchedulerSpec => []SchedulerTypeOK
<1>1. LoopInv => SchedulerTypeOK
  BY DEF LoopInv
<1>. QED  BY <1>1, LoopInvariance, PTL

\* One loop, and at most one more per join that gave up.
THEOREM LoopsAreCounted == SchedulerSpec => []LoopsPerOverrun
<1>1. LoopInv => LoopsPerOverrun
  <2>. SUFFICES ASSUME LoopInv PROVE LoopsPerOverrun
    OBVIOUS
  <2>1. Alive \subseteq Loops /\ Orphans \subseteq Loops
    BY DEF Alive, Orphans
  <2>2. /\ IsFiniteSet(Orphans) /\ Cardinality(Orphans) \in Nat
        /\ Cardinality(Alive) \in Nat /\ overrun \in Nat
    BY <2>1, AliveFinite DEF LoopInv, SchedulerTypeOK
  <2>3. CASE thread \in Alive
    <3>1. Alive = Orphans \cup {thread} /\ thread \notin Orphans
      BY <2>3 DEF Orphans
    <3>2. Cardinality(Alive) = Cardinality(Orphans) + 1
      BY <2>2, <3>1, FS_AddElement
    <3>. QED  BY <2>2, <3>2 DEF LoopsPerOverrun, LoopInv, OrphansPerOverrun
  <2>4. CASE thread \notin Alive
    <3>1. Orphans = Alive
      BY <2>4 DEF Orphans
    <3>. QED  BY <2>2, <3>1 DEF LoopsPerOverrun, LoopInv, OrphansPerOverrun
  <2>. QED  BY <2>3, <2>4
<1>. QED  BY <1>1, LoopInvariance, PTL

\* Without such a join, the only loop is the one a stop waits for.
THEOREM LoopIsSingle == SchedulerSpec => []SingleLoop
<1>1. LoopInv => SingleLoop
  BY DEF LoopInv
<1>. QED  BY <1>1, LoopInvariance, PTL

\* A scheduler that reports running has a loop that was not told to stop.
THEOREM StatusIsTrue == SchedulerSpec => []RunningIsTrue
<1>1. LoopInv => RunningIsTrue
  BY DEF LoopInv
<1>. QED  BY <1>1, LoopInvariance, PTL

\* The delay armed after a failure depends on the current streak alone.
THEOREM FailuresAreRetried == SchedulerSpec => RetryThenRest
<1>. DEFINE Armed == \A l \in Loops : loop[l] = "failed" /\ loop'[l] = "waiting"
                        => armed' = (IF streak < MaxFailures THEN RetryDelay ELSE Interval)
<1>1. LoopInv /\ [SchedulerNext]_scheduler => [Armed]_scheduler
  <2>. SUFFICES ASSUME LoopInv, SchedulerNext, NEW l \in Loops,
                       loop[l] = "failed", loop'[l] = "waiting"
                PROVE  armed' = (IF streak < MaxFailures THEN RetryDelay ELSE Interval)
    OBVIOUS
  <2>1. PICK k \in Loops : LoopStep(k)
    BY DEF SchedulerNext, Start, RequestStop, FinishStop, LoopInv, SchedulerTypeOK, Loops
  <2>2. k = l /\ Arm(l)
    BY <2>1 DEF LoopStep, Check, Succeed, Fail, Arm, Wake, LoopInv, SchedulerTypeOK
  <2>. QED  BY <2>2 DEF Arm, LoopInv, CounterIsStreak
<1>. QED  BY <1>1, LoopInvariance, PTL DEF SchedulerSpec, RetryThenRest

\* Starts, stops and joins in any order: every loop is the one expected or an orphan of
\* a join that gave up, and the status the health endpoint shows is true of one of them.
THEOREM LoopsAreAccountedFor == SchedulerSpec => []LoopsAccountedFor
BY LoopsAreCounted, LoopIsSingle, StatusIsTrue, PTL DEF LoopsAccountedFor

\* And each loop waits after a failure as the streak they share asks.
THEOREM LoopsStayInPace == SchedulerSpec => LoopsKeepPace
BY LoopsAreAccountedFor, FailuresAreRetried DEF LoopsKeepPace

-----------------------------------------------------------------------------
(***************************************************************************)
(* What the parallel fetch of a window keeps for windows of any length,    *)
(* any number of workers and any retry policy.  A day that ended never     *)
(* moves again, so what was collected stays what the mean is taken over.   *)
(***************************************************************************)

CollectedUsable ==
    /\ \A d \in collected : Usable(future[d])
    /\ window = "mean" => collected = TargetDays

PoolInv == WindowTypeOK /\ CollectedUsable /\ MeanCoversWindow /\ PoolIsBounded

Future == [state : CallStates \cup {"pending", "cancelled"},
           attempts : Nat, slept : Nat, last : Replies \cup {"none"}]

-----------------------------------------------------------------------------
(* The days and the pool.                                                  *)

LEMMA DaysFinite == IsFiniteSet(TargetDays)
<1>1. TargetDays \subseteq StartDay + FirstOffset .. StartDay + LastOffset
  BY WindowAssumption DEF TargetDays
<1>2. IsFiniteSet(StartDay + FirstOffset .. StartDay + LastOffset)
  BY WindowAssumption, FS_Interval
<1>. QED  BY <1>1, <1>2, FS_Subset

LEMMA DaysCounted ==
    ASSUME NEW S, S \subseteq TargetDays
    PROVE  IsFiniteSet(S) /\ Cardinality(S) \in Nat
<1>1. IsFiniteSet(S)
  BY DaysFinite, FS_Subset
<1>. QED  BY <1>1, FS_CardinalityType

LEMMA FewerDays ==
    ASSUME NEW T, T \subseteq TargetDays, NEW S, S \subseteq T
    PROVE  Cardinality(S) <= Cardinality(T)
BY DaysCounted, FS_Subset

LEMMA WorkersNat == Workers \in Nat
<1>1. Cardinality(TargetDays) \in Nat
  BY DaysCounted
<1>. QED  BY <1>1, WindowAssumption DEF Workers

-----------------------------------------------------------------------------
(* One request.                                                            *)

\* What every wait of the policy is.
LEMMA BackoffNat ==
    ASSUME NEW n \in Nat \ {0}
    PROVE  Backoff(n) \in Nat
<1>. DEFINE i == IF n <= Len(Backoffs) THEN n ELSE Len(Backoffs)
<1>1. i \in 1 .. Len(Backoffs)
  BY RetryAssumption
<1>. QED  BY <1>1, RetryAssumption DEF Backoff

LEMMA AnsweredFuture ==
    ASSUME NEW c \in Future, NEW reply \in Replies
    PROVE  /\ Answered(c, reply) \in Future
           /\ Answered(c, reply).state \in {"answered", "asleep", "failed"}
<1>1. c.attempts + 1 \in Nat \ {0} /\ c.slept \in Nat
  BY DEF Future
<1>2. Backoff(c.attempts + 1) \in Nat
  BY <1>1, BackoffNat
<1>3. c.slept + Backoff(c.attempts + 1) \in Nat
  BY <1>1, <1>2
<1>. QED  BY <1>1, <1>3 DEF Answered, Future, CallStates

LEMMA PoolInitInv == WindowInit => PoolInv
<1>. SUFFICES ASSUME WindowInit PROVE PoolInv
  OBVIOUS
<1>1. \A d \in TargetDays : future[d] = Pending
  BY DEF WindowInit
<1>2. Pending \in Future /\ Pending.state = "pending"
  BY DEF Pending, Fresh, Future, CallStates
<1>3. WindowTypeOK
  BY <1>2 DEF WindowTypeOK, WindowInit, Future
<1>4. Running = {}
  BY <1>1, <1>2 DEF Running, InState
<1>5. PoolIsBounded
  BY <1>4, FS_EmptySet, WorkersNat DEF PoolIsBounded
<1>. QED  BY <1>1, <1>2, <1>3, <1>5
       DEF PoolInv, CollectedUsable, MeanCoversWindow, InState, WindowInit

-----------------------------------------------------------------------------
\* A step of one day that had not ended keeps what was collected and why the
\* window failed.
LEMMA DayMovesKeepMean ==
    ASSUME PoolInv, NEW d \in TargetDays, NEW c \in Future,
           future[d].state \in {"pending", "busy", "asleep"},
           c.state \notin {"pending", "cancelled"},
           future' = [future EXCEPT ![d] = c], UNCHANGED <<collected, window>>
    PROVE  WindowTypeOK' /\ CollectedUsable' /\ MeanCoversWindow'
<1>1. WindowTypeOK'
  BY DEF PoolInv, WindowTypeOK, Future
<1>2. \A e \in TargetDays : Ended(future[e]) => future'[e] = future[e]
  BY DEF Ended, PoolInv, WindowTypeOK
<1>3. \A e \in TargetDays : Usable(future[e]) => Ended(future[e])
  BY DEF Usable, Ended
<1>4. CollectedUsable'
  BY <1>2, <1>3 DEF CollectedUsable, PoolInv, WindowTypeOK
<1>5. (\A e \in TargetDays : Usable(future[e])) => \A e \in TargetDays : Usable(future[e])'
  BY <1>2, <1>3
<1>6. (\E e \in TargetDays : Ended(future[e]) /\ ~Usable(future[e]))
         => \E e \in TargetDays : (Ended(future[e]) /\ ~Usable(future[e]))'
  BY <1>2
<1>7. /\ InState({"pending"})' \subseteq InState({"pending"})
      /\ InState({"cancelled"})' \subseteq InState({"cancelled"})
  BY DEF InState, PoolInv, WindowTypeOK
<1>. QED  BY <1>1, <1>4, <1>5, <1>6, <1>7 DEF MeanCoversWindow, PoolInv

LEMMA BeginKeepsInv ==
    ASSUME PoolInv, NEW d \in TargetDays, Begin(d)
    PROVE  PoolInv'
<1>1. Fresh \in Future /\ Fresh.state = "busy"
  BY DEF Fresh, Future, CallStates
<1>2. future[d].state = "pending"
  BY DEF Begin, InState
<1>3. WindowTypeOK' /\ CollectedUsable' /\ MeanCoversWindow'
  BY <1>1, <1>2, DayMovesKeepMean DEF Begin
<1>4. PoolIsBounded'
  <2>1. Running \subseteq TargetDays /\ d \notin Running
    BY <1>2 DEF Running, InState
  <2>2. Running' = Running \cup {d}
    BY <1>1, <1>2 DEF Begin, Running, InState, PoolInv, WindowTypeOK
  <2>3. Cardinality(Running') = Cardinality(Running) + 1
    BY <2>1, <2>2, DaysCounted, FS_AddElement
  <2>4. Cardinality(Running) \in Nat
    BY <2>1, DaysCounted
  <2>. QED  BY <2>3, <2>4, WorkersNat DEF PoolIsBounded, Begin
<1>. QED  BY <1>3, <1>4 DEF PoolInv

\* A day under way that moves takes no worker.
LEMMA RunningDayKeepsInv ==
    ASSUME PoolInv, NEW d \in TargetDays, Reply(d) \/ Resume(d)
    PROVE  PoolInv'
<1>1. future[d] \in Future /\ future[d].state \in {"busy", "asleep"}
  BY DEF Reply, Resume, PoolInv, WindowTypeOK, Future
<1>2. PICK c \in Future : /\ c.state \in {"busy", "answered", "asleep", "failed"}
                          /\ future' = [future EXCEPT ![d] = c]
  <2>1. CASE Reply(d)
    <3>1. PICK reply \in Replies : future' = [future EXCEPT ![d] = Answered(future[d], reply)]
      BY <2>1 DEF Reply
    <3>. QED  BY <1>1, <3>1, AnsweredFuture
  <2>2. CASE Resume(d)
    <3>1. Awake(future[d]) \in Future /\ Awake(future[d]).state = "busy"
      BY <1>1 DEF Awake, Future, CallStates
    <3>2. future' = [future EXCEPT ![d] = Awake(future[d])]
      BY <2>2 DEF Resume
    <3>. QED  BY <3>1, <3>2
  <2>. QED  BY <2>1, <2>2
<1>3. UNCHANGED <<collected, window>>
  BY DEF Reply, Resume
<1>4. WindowTypeOK' /\ CollectedUsable' /\ MeanCoversWindow'
  BY <1>1, <1>2, <1>3, DayMovesKeepMean
<1>5. PoolIsBounded'
  <2>1. Running' \subseteq Running /\ Running \subseteq TargetDays
    BY <1>1, <1>2 DEF Running, InState, PoolInv, WindowTypeOK
  <2>2. Cardinality(Running') <= Cardinality(Running)
    BY <2>1, FewerDays
  <2>3. Cardinality(Running') \in Nat /\ Cardinality(Running) \in Nat
    BY <2>1, DaysCounted
  <2>. QED  BY <2>2, <2>3, WorkersNat DEF PoolIsBounded, PoolInv
<1>. QED  BY <1>4, <1>5 DEF PoolInv

LEMMA CollectKeepsInv ==
    ASSUME PoolInv, NEW d \in TargetDays, Collect(d)
    PROVE  PoolInv'
<1>1. CASE Usable(future[d])
  <2>1. /\ future' = future /\ collected' = collected \cup {d}
        /\ window' = IF collected' = TargetDays THEN "mean" ELSE window
        /\ window = "collecting"
    BY <1>1 DEF Collect
  <2>2. WindowTypeOK' /\ CollectedUsable'
    BY <1>1, <2>1 DEF PoolInv, WindowTypeOK, CollectedUsable
  <2>3. InState({"cancelled"})' = {}
    BY <2>1 DEF InState, PoolInv, MeanCoversWindow
  <2>4. MeanCoversWindow'
    BY <2>1, <2>2, <2>3 DEF MeanCoversWindow, CollectedUsable
  <2>5. PoolIsBounded'
    BY <2>1 DEF PoolIsBounded, Running, InState, PoolInv
  <2>. QED  BY <2>2, <2>4, <2>5 DEF PoolInv
<1>2. CASE ~Usable(future[d])
  <2>1. /\ window' = "failed" /\ collected' = collected /\ window = "collecting"
        /\ Ended(future[d])
        /\ future' = [e \in TargetDays |->
                        IF future[e].state = "pending" THEN Cancelled ELSE future[e]]
    BY <1>2 DEF Collect
  <2>2. Cancelled \in Future /\ Cancelled.state = "cancelled"
    BY DEF Cancelled, Fresh, Future, CallStates
  <2>3. WindowTypeOK'
    BY <2>1, <2>2 DEF PoolInv, WindowTypeOK, Future
  <2>4. \A e \in TargetDays : future[e].state # "pending" => future'[e] = future[e]
    BY <2>1
  <2>5. CollectedUsable'
    BY <2>1, <2>4 DEF PoolInv, CollectedUsable, Usable, WindowTypeOK
  <2>6. InState({"pending"})' = {} /\ Running' = Running
    BY <2>1, <2>2 DEF InState, Running
  <2>7. (Ended(future[d]) /\ ~Usable(future[d]))'
    BY <1>2, <2>1, <2>4 DEF Ended
  <2>8. MeanCoversWindow'
    BY <2>1, <2>6, <2>7 DEF MeanCoversWindow
  <2>9. PoolIsBounded'
    BY <2>6 DEF PoolIsBounded, PoolInv, Workers
  <2>. QED  BY <2>3, <2>5, <2>8, <2>9 DEF PoolInv
<1>. QED  BY <1>1, <1>2

LEMMA PoolInvariance == WindowSpec => []PoolInv
<1>1. PoolInv /\ [WindowNext]_windowVars => PoolInv'
  <2>. SUFFICES ASSUME PoolInv, [WindowNext]_windowVars PROVE PoolInv'
    OBVIOUS
  <2>1. CASE WindowNext
    BY <2>1, BeginKeepsInv, RunningDayKeepsInv, CollectKeepsInv DEF WindowNext, DayNext
  <2>2. CASE UNCHANGED windowVars
    BY <2>2 DEF windowVars, PoolInv, WindowTypeOK, CollectedUsable, MeanCoversWindow, PoolIsBounded,
                Running, InState
  <2>. QED  BY <2>1, <2>2
<1>. QED  BY <1>1, PoolInitInv, PTL DEF WindowSpec

-----------------------------------------------------------------------------
\* Every request of the window keeps its type.
THEOREM WindowTypeCorrect == WindowSpec => []WindowTypeOK
<1>1. PoolInv => WindowTypeOK
  BY DEF PoolInv
<1>. QED  BY <1>1, PoolInvariance, PTL

\* The mean of a window is one of all its days, and a failed window has a failed day.
THEOREM MeansAreWhole == WindowSpec => []MeanCoversWindow
<1>1. PoolInv => MeanCoversWindow
  BY DEF PoolInv
<1>. QED  BY <1>1, PoolInvariance, PTL

\* The pool bounds the days under way, asleep in a backoff or not.
THEOREM PoolHolds == WindowSpec => []PoolIsBounded
<1>1. PoolInv => PoolIsBounded
  BY DEF PoolInv
<1>. QED  BY <1>1, PoolInvariance, PTL

\* A window is answered whole or not at all, out of a pool that stays within its size.
THEOREM WindowsAreWhole == WindowSpec => []WindowIsWhole
BY MeansAreWhole, PoolHolds, PTL DEF WindowIsWhole

-----------------------------------------------------------------------------
(***************************************************************************)
(* What the fetch of a store's signal keeps for any feeds, tables and       *)
(* answers: each step of the chain finds what the one before it left, and   *)
(* the call that is out is a disciplined one.                               *)
(***************************************************************************)

LEMMA Induct ==
    ASSUME NEW S, 0 \in S, \A n \in Nat : n \in S => n + 1 \in S
    PROVE  Nat \subseteq S
<1>. SUFFICES ASSUME Nat \ S # {} PROVE FALSE
  OBVIOUS
<1>1. PICK m \in Nat \ S : \A n \in Nat \ S : m <= n
  BY LeastStamp
<1>2. m # 0 /\ m - 1 \in Nat /\ m - 1 \in S
  BY <1>1
<1>. QED  BY <1>1, <1>2

\* f sums the backoffs before each attempt up to n.
SumsBackoffs(f, n) ==
    f = [a \in 0 .. n |-> IF a <= 1 THEN 0 ELSE f[a - 1] + Backoff(a - 1)]

LEMMA BackoffsUpTo ==
    \A n \in Nat : \E f \in [0 .. n -> Nat] : SumsBackoffs(f, n)
<1>. DEFINE Good == {n \in Nat : \E f \in [0 .. n -> Nat] : SumsBackoffs(f, n)}
<1>1. 0 \in Good
  <2>. DEFINE f == [a \in 0 .. 0 |-> 0]
  <2>1. SumsBackoffs(f, 0) /\ f \in [0 .. 0 -> Nat]
    BY DEF SumsBackoffs
  <2>. QED  BY <2>1
<1>2. ASSUME NEW n \in Nat, n \in Good PROVE n + 1 \in Good
  <2>1. PICK f \in [0 .. n -> Nat] : SumsBackoffs(f, n)
    BY <1>2
  <2>. DEFINE g == [a \in 0 .. n + 1 |->
                      IF a <= 1 THEN 0 ELSE f[a - 1] + Backoff(a - 1)]
  <2>2. \A a \in 0 .. n : f[a] = IF a <= 1 THEN 0 ELSE f[a - 1] + Backoff(a - 1)
    BY <2>1 DEF SumsBackoffs
  <2>3. \A a \in 0 .. n : g[a] = f[a]
    BY <2>2
  <2>4. g \in [0 .. n + 1 -> Nat]
    <3>1. SUFFICES ASSUME NEW a \in 0 .. n + 1, a > 1
                   PROVE  f[a - 1] + Backoff(a - 1) \in Nat
      OBVIOUS
    <3>2. a - 1 \in 0 .. n /\ a - 1 \in Nat \ {0}
      BY <3>1
    <3>3. f[a - 1] \in Nat /\ Backoff(a - 1) \in Nat
      BY <3>2, BackoffNat
    <3>. QED  BY <3>3
  <2>5. \A a \in 0 .. n + 1 : g[a] = IF a <= 1 THEN 0 ELSE g[a - 1] + Backoff(a - 1)
    <3>0. \A a \in 0 .. n + 1 : g[a] = IF a <= 1 THEN 0 ELSE f[a - 1] + Backoff(a - 1)
      OBVIOUS
    <3>. HIDE DEF g
    <3>. SUFFICES ASSUME NEW a \in 0 .. n + 1
                  PROVE  g[a] = IF a <= 1 THEN 0 ELSE g[a - 1] + Backoff(a - 1)
      OBVIOUS
    <3>1. a > 1 => a - 1 \in 0 .. n
      OBVIOUS
    <3>2. a > 1 => g[a - 1] = f[a - 1]
      BY <2>3, <3>1
    <3>. QED  BY <3>0, <3>2
  <2>6. SumsBackoffs(g, n + 1)
    <3>1. g = [a \in 0 .. n + 1 |-> g[a]]
      OBVIOUS
    <3>. HIDE DEF g
    <3>. QED  BY <2>5, <3>1 DEF SumsBackoffs
  <2>. HIDE DEF g
  <2>. QED  BY <2>4, <2>6
<1>. HIDE DEF Good
<1>3. Nat \subseteq Good
  BY <1>1, <1>2, Induct
<1>. QED  BY <1>3 DEF Good

LEMMA BackoffSumsAgree ==
    ASSUME NEW m \in Nat, NEW n \in Nat, NEW f, SumsBackoffs(f, m), NEW g, SumsBackoffs(g, n)
    PROVE  \A a \in Nat : a <= m /\ a <= n => f[a] = g[a]
<1>. DEFINE Good == {a \in Nat : a <= m /\ a <= n => f[a] = g[a]}
<1>1. /\ \A a \in 0 .. m : f[a] = IF a <= 1 THEN 0 ELSE f[a - 1] + Backoff(a - 1)
      /\ \A a \in 0 .. n : g[a] = IF a <= 1 THEN 0 ELSE g[a - 1] + Backoff(a - 1)
  BY DEF SumsBackoffs
<1>2. 0 \in Good
  BY <1>1
<1>3. ASSUME NEW a \in Nat, a \in Good PROVE a + 1 \in Good
  <2>. SUFFICES ASSUME a + 1 <= m, a + 1 <= n PROVE f[a + 1] = g[a + 1]
    OBVIOUS
  <2>1. f[a] = g[a]
    BY <1>3
  <2>2. a + 1 \in 0 .. m /\ a + 1 \in 0 .. n /\ (a + 1) - 1 = a
    OBVIOUS
  <2>. QED  BY <1>1, <2>1, <2>2
<1>. HIDE DEF Good
<1>4. Nat \subseteq Good
  BY <1>2, <1>3, Induct
<1>. QED  BY <1>4 DEF Good

\* The seconds slept before an attempt are what the recursion says.
LEMMA SleptBeforeIs ==
    \A a \in Nat : /\ SleptBefore[a] \in Nat
                   /\ SleptBefore[a] = IF a <= 1 THEN 0 ELSE SleptBefore[a - 1] + Backoff(a - 1)
<1>. DEFINE part(n) == CHOOSE f \in [0 .. n -> Nat] : SumsBackoffs(f, n)
            whole == [n \in Nat |-> part(n)[n]]
<1>1. \A n \in Nat : part(n) \in [0 .. n -> Nat] /\ SumsBackoffs(part(n), n)
  BY BackoffsUpTo
<1>. HIDE DEF part
<1>2. \A n \in Nat : whole[n] = IF n <= 1 THEN 0 ELSE whole[n - 1] + Backoff(n - 1)
  <2>. SUFFICES ASSUME NEW n \in Nat
                PROVE  part(n)[n] = IF n <= 1 THEN 0 ELSE whole[n - 1] + Backoff(n - 1)
    OBVIOUS
  <2>1. n \in 0 .. n
    OBVIOUS
  <2>2. part(n)[n] = IF n <= 1 THEN 0 ELSE part(n)[n - 1] + Backoff(n - 1)
    <3>1. part(n) = [a \in 0 .. n |-> IF a <= 1 THEN 0 ELSE part(n)[a - 1] + Backoff(a - 1)]
      BY <1>1 DEF SumsBackoffs
    <3>. QED  BY <2>1, <3>1
  <2>3. n > 1 => part(n)[n - 1] = whole[n - 1]
    <3>. SUFFICES ASSUME n > 1 PROVE part(n)[n - 1] = part(n - 1)[n - 1]
      OBVIOUS
    <3>1. n - 1 \in Nat /\ n - 1 <= n - 1 /\ n - 1 <= n
      OBVIOUS
    <3>2. SumsBackoffs(part(n), n) /\ SumsBackoffs(part(n - 1), n - 1)
      BY <1>1, <3>1
    <3>. QED  BY <3>1, <3>2, BackoffSumsAgree
  <2>. QED  BY <2>2, <2>3
<1>3. whole = [n \in Nat |-> IF n <= 1 THEN 0 ELSE whole[n - 1] + Backoff(n - 1)]
  <2>1. whole = [n \in Nat |-> whole[n]]
    OBVIOUS
  <2>. HIDE DEF whole
  <2>. QED  BY <1>2, <2>1
<1>. HIDE DEF whole
<1>4. SleptBefore = CHOOSE f : f = [n \in Nat |-> IF n <= 1 THEN 0 ELSE f[n - 1] + Backoff(n - 1)]
  BY DEF SleptBefore
<1>5. SleptBefore = [n \in Nat |-> IF n <= 1 THEN 0 ELSE SleptBefore[n - 1] + Backoff(n - 1)]
  BY <1>3, <1>4
<1>6. \A a \in Nat : SleptBefore[a] = IF a <= 1 THEN 0 ELSE SleptBefore[a - 1] + Backoff(a - 1)
  BY <1>5
<1>. DEFINE Good == {n \in Nat : SleptBefore[n] \in Nat}
<1>7. 0 \in Good
  BY <1>6
<1>8. ASSUME NEW n \in Nat, n \in Good PROVE n + 1 \in Good
  <2>1. n + 1 \in Nat /\ (n + 1) - 1 = n
    OBVIOUS
  <2>2. SleptBefore[n + 1] = IF n + 1 <= 1 THEN 0 ELSE SleptBefore[n] + Backoff(n)
    BY <1>6, <2>1
  <2>3. SleptBefore[n] \in Nat /\ (n + 1 > 1 => Backoff(n) \in Nat)
    BY <1>8, BackoffNat
  <2>. QED  BY <2>1, <2>2, <2>3
<1>. HIDE DEF Good
<1>9. Nat \subseteq Good
  BY <1>7, <1>8, Induct
<1>. QED  BY <1>6, <1>9 DEF Good

-----------------------------------------------------------------------------
(* One call.                                                               *)

\* A call that is out has an attempt left, and waits only for what may be retried.
CallOK(c) ==
    /\ c \in Call /\ Disciplined(c)
    /\ c.state \in {"busy", "asleep"} => c.attempts <= Retries
    /\ c.state = "asleep" => c.last \in Transient

LEMMA FreshOK == CallOK(Fresh)
<1>1. SleptBefore[1] = 0
  BY SleptBeforeIs
<1>. QED  BY <1>1, RetryAssumption DEF Fresh, Call, CallStates, Disciplined, CallOK

LEMMA AnsweredOK ==
    ASSUME NEW c, CallOK(c), c.state = "busy", NEW reply \in Replies
    PROVE  CallOK(Answered(c, reply))
<1>. DEFINE n == c.attempts + 1
            again == reply \in Transient /\ n <= Retries
            d == Answered(c, reply)
<1>0. c \in Call
  BY DEF CallOK
<1>1. c.attempts \in Nat /\ c.slept \in Nat /\ n \in Nat \ {0} /\ Backoff(n) \in Nat /\ Retries \in Nat
  BY <1>0, BackoffNat, RetryAssumption DEF Call
<1>2. n <= Retries + 1 /\ c.slept = SleptBefore[n]
  BY <1>1 DEF CallOK, Disciplined
<1>3. SleptBefore[n + 1] = SleptBefore[n] + Backoff(n)
  BY <1>1, SleptBeforeIs
<1>4. /\ d.state = IF reply \in Payloads THEN "answered" ELSE IF again THEN "asleep" ELSE "failed"
      /\ d.attempts = n /\ d.last = reply
      /\ d.slept = IF again THEN c.slept + Backoff(n) ELSE c.slept
  BY DEF Answered
<1>5. d \in Call
  BY <1>1 DEF Answered, Call, CallStates
<1>6. ~(reply \in Payloads /\ reply \in Transient)
  BY DEF Payloads, Transient
<1>. HIDE DEF d
<1>7. reply \in Payloads \/ reply \in Transient \/ reply = "client_error"
  BY DEF Replies
<1>8. CallOK(d)
  <2>1. CASE reply \in Payloads
    BY <1>1, <1>2, <1>4, <1>5, <1>6, <2>1 DEF Disciplined, CallOK
  <2>2. CASE reply \notin Payloads /\ again
    BY <1>1, <1>2, <1>3, <1>4, <1>5, <2>2 DEF Disciplined, CallOK
  <2>3. CASE reply \notin Payloads /\ ~again
    BY <1>1, <1>2, <1>4, <1>5, <1>7, <2>3 DEF Disciplined, CallOK
  <2>. QED  BY <2>1, <2>2, <2>3
<1>. QED  BY <1>8 DEF d

LEMMA AwakeOK ==
    ASSUME NEW c, CallOK(c), c.state = "asleep"
    PROVE  CallOK(Awake(c)) /\ Awake(c).state = "busy"
<1>. DEFINE d == Awake(c)
<1>1. c \in Call
  BY DEF CallOK
<1>2. /\ d.state = "busy" /\ d.attempts = c.attempts /\ d.slept = c.slept /\ d.last = c.last
      /\ d \in Call
  BY <1>1 DEF Awake, Call, CallStates
<1>. HIDE DEF d
<1>3. /\ c.attempts <= Retries + 1 /\ c.slept = SleptBefore[c.attempts + 1]
      /\ c.attempts <= Retries /\ c.last \in Transient
  BY DEF CallOK, Disciplined
<1>4. Disciplined(d)
  BY <1>2, <1>3 DEF Disciplined
<1>5. CallOK(d)
  BY <1>2, <1>3, <1>4 DEF CallOK
<1>. QED  BY <1>2, <1>5 DEF d

-----------------------------------------------------------------------------
(* The first of a store's dated runs.                                      *)

\* Of finitely many dated items one comes first.
LEMMA FirstExists ==
    ASSUME NEW n \in Nat, NEW C \in SUBSET (0 .. n), C # {}, NEW t \in [C -> Int]
    PROVE  \E i \in C : \A j \in C : t[i] < t[j] \/ (t[i] = t[j] /\ i <= j)
<1>. DEFINE Upto(k) == {i \in C : i <= k}
            Good == {k \in Nat : Upto(k) = {} \/
                       \E i \in Upto(k) : \A j \in Upto(k) :
                           t[i] < t[j] \/ (t[i] = t[j] /\ i <= j)}
<1>0. \A i \in C : i \in Nat /\ i <= n
  OBVIOUS
<1>1. 0 \in Good
  <2>1. \A i \in Upto(0) : i = 0
    BY <1>0
  <2>2. \A i, j \in Upto(0) : t[i] = t[j] /\ i <= j
    BY <2>1
  <2>. QED  BY <2>2
<1>2. ASSUME NEW k \in Nat, k \in Good PROVE k + 1 \in Good
  <2>1. CASE k + 1 \notin C
    <3>1. Upto(k + 1) = Upto(k)
      <4>1. \A i \in C : i <= k + 1 <=> i <= k
        <5>. SUFFICES ASSUME NEW i \in C PROVE i <= k + 1 <=> i <= k
          OBVIOUS
        <5>1. i \in Nat /\ i # k + 1
          BY <1>0, <2>1
        <5>. QED  BY <5>1
      <4>. QED  BY <4>1
    <3>. QED  BY <1>2, <3>1
  <2>2. CASE k + 1 \in C
    <3>1. Upto(k + 1) = Upto(k) \cup {k + 1}
      <4>1. \A i \in C : i <= k + 1 <=> (i <= k \/ i = k + 1)
        <5>. SUFFICES ASSUME NEW i \in C PROVE i <= k + 1 <=> (i <= k \/ i = k + 1)
          OBVIOUS
        <5>1. i \in Nat
          BY <1>0
        <5>. QED  BY <5>1
      <4>. QED  BY <2>2, <4>1
    <3>2. CASE Upto(k) = {}
      BY <2>2, <3>1, <3>2
    <3>3. CASE Upto(k) # {}
      <4>1. PICK i \in Upto(k) : \A j \in Upto(k) : t[i] < t[j] \/ (t[i] = t[j] /\ i <= j)
        BY <1>2, <3>3
      <4>2. t[i] \in Int /\ t[k + 1] \in Int /\ i <= k + 1 /\ \A j \in Upto(k) : t[j] \in Int
        BY <2>2
      <4>3. CASE t[i] <= t[k + 1]
        <5>1. \A j \in Upto(k + 1) : t[i] < t[j] \/ (t[i] = t[j] /\ i <= j)
          BY <3>1, <4>1, <4>2, <4>3
        <5>. QED  BY <3>1, <5>1
      <4>4. CASE t[k + 1] < t[i]
        <5>1. \A j \in Upto(k) : t[k + 1] < t[j]
          BY <4>1, <4>2, <4>4
        <5>2. \A j \in Upto(k + 1) : t[k + 1] < t[j] \/ (t[k + 1] = t[j] /\ k + 1 <= j)
          BY <3>1, <5>1
        <5>. QED  BY <3>1, <5>2
      <4>. QED  BY <4>2, <4>3, <4>4
    <3>. QED  BY <3>2, <3>3
  <2>. QED  BY <2>1, <2>2
<1>3. Upto(n) = C
  BY <1>0
<1>. HIDE DEF Good
<1>4. n \in Good
  BY <1>1, <1>2, Induct
<1>. QED  BY <1>3, <1>4 DEF Good

\* The runs that were read: dated or not, at most finitely many, all dated but in the
\* local file.
FeedOK ==
    /\ \A i \in DOMAIN feed.runs : feed.runs[i].time \in Int \cup {Missing}
                                   /\ feed.runs[i].stores \in Seq(Int)
    /\ \E n \in Nat : DOMAIN feed.runs \subseteq 0 .. n
    /\ feed.source # "file" => \A i \in DOMAIN feed.runs : feed.runs[i].time # Missing

LEMMA FirstRunIsFirst ==
    ASSUME FeedOK, Candidates(store, feed.runs) # {}
    PROVE  /\ FirstRun(store, feed.runs) \in Candidates(store, feed.runs)
           /\ \A i \in Candidates(store, feed.runs) :
                 /\ feed.runs[i].time \in Int
                 /\ feed.runs[FirstRun(store, feed.runs)].time <= feed.runs[i].time
<1>. DEFINE C == Candidates(store, feed.runs)
            t == [i \in C |-> feed.runs[i].time]
<1>1. C \subseteq DOMAIN feed.runs /\ \A i \in C : feed.runs[i].time \in Int
  BY DEF FeedOK, Candidates
<1>2. PICK n \in Nat : C \subseteq 0 .. n
  BY <1>1 DEF FeedOK
<1>3. C # {} /\ t \in [C -> Int] /\ \A i \in C : t[i] = feed.runs[i].time
  BY <1>1
<1>5. FirstRun(store, feed.runs) =
          CHOOSE i \in C : \A j \in C : t[i] < t[j] \/ (t[i] = t[j] /\ i <= j)
  BY <1>3 DEF FirstRun
<1>. HIDE DEF C
<1>. HIDE DEF t
<1>4. \E i \in C : \A j \in C : t[i] < t[j] \/ (t[i] = t[j] /\ i <= j)
  BY <1>2, <1>3, FirstExists
<1>6. /\ FirstRun(store, feed.runs) \in C
      /\ \A j \in C : t[FirstRun(store, feed.runs)] < t[j]
                      \/ (t[FirstRun(store, feed.runs)] = t[j] /\ FirstRun(store, feed.runs) <= j)
  BY <1>4, <1>5
<1>7. \A j \in C : t[FirstRun(store, feed.runs)] <= t[j]
  BY <1>3, <1>6
<1>. QED  BY <1>1, <1>3, <1>6, <1>7 DEF C

-----------------------------------------------------------------------------
(* The chain of the fetch.                                                 *)

Dated == Candidates(store, feed.runs) # {}
Named == ReadableTable(table) /\ RowsOf(store, table) # {}

\* What a signal tells of the window, whatever became of its requests.
WindowTold ==
    /\ \A i \in Candidates(store, feed.runs) : signal.elapsed >= Today - feed.runs[i].time
    /\ signal.elapsed > 0 =>
           \E i \in Candidates(store, feed.runs) : signal.elapsed = Today - feed.runs[i].time
    /\ signal \in Signal
    /\ signal.available <=> signal.status = "AVAILABLE"
    /\ signal.elapsed + signal.remaining >= RecoveryWindow

\* What it tells of its requests, once it is final.
ChainTold ==
    /\ Ended(call)
    /\ (signal.status = "NO_DATA") = (Usable(call) /\ ReadableTable(table) /\ RowsOf(store, table) = {})
    /\ signal.status = "AVAILABLE" => Usable(call) /\ RowsOf(store, table) # {}
    /\ signal.status = "ERROR" => ~Usable(call) \/ ~ReadableTable(table)
    /\ signal.status # "AVAILABLE" => signal.baseline = 0 /\ signal.current = 0

FetchInv ==
    /\ FetchTypeOK /\ CallOK(call) /\ FeedOK
    /\ step \in {"stores", "baseline", "current", "done"} => Dated
    /\ step \in {"baseline", "current"} => Named
    /\ step = "current" => signal.baseline \in Int
    /\ step = "done" => WindowTold /\ ChainTold
    /\ step = "skipped" => feed.source = "file"

LEMMA FetchInitInv == FetchInit => FetchInv
<1>. SUFFICES ASSUME FetchInit PROVE FetchInv
  OBVIOUS
<1>1. CallOK(call)
  BY FreshOK DEF FetchInit
<1>2. FeedOK
  <2>1. DOMAIN feed.runs = {} /\ feed.source = "none"
    BY DEF FetchInit, NoFeed
  <2>. QED  BY <2>1 DEF FeedOK
<1>3. FetchTypeOK
  BY <1>1 DEF FetchInit, FetchTypeOK, CallOK
<1>. QED  BY <1>1, <1>2, <1>3 DEF FetchInit, FetchInv

\* Every signal the fetch makes tells the window truly.
LEMMA SignalTellsWindow ==
    ASSUME FeedOK, Dated, UNCHANGED <<feed, store>>,
           NEW status \in {"AVAILABLE", "NO_DATA", "ERROR"}, NEW b \in Int, NEW v \in Int,
           signal' = SignalOf(status, b, v)
    PROVE  /\ WindowTold'
           /\ signal'.status = status /\ signal'.baseline = b /\ signal'.current = v
<1>. DEFINE first == feed.runs[FirstRun(store, feed.runs)].time
            C == Candidates(store, feed.runs)
<1>1. /\ FirstRun(store, feed.runs) \in C
      /\ \A i \in C : feed.runs[i].time \in Int /\ first <= feed.runs[i].time
  BY FirstRunIsFirst DEF Dated
<1>2. first \in Int /\ Today \in Int
  BY <1>1, FetchAssumption
<1>3. Elapsed \in Nat /\ Elapsed >= Today - first /\ (Elapsed > 0 => Elapsed = Today - first)
  BY <1>2 DEF Elapsed, Greater
<1>4. /\ Greater(RecoveryWindow - Elapsed, 0) \in Nat
      /\ Elapsed + Greater(RecoveryWindow - Elapsed, 0) >= RecoveryWindow
  BY <1>3 DEF Greater, RecoveryWindow
<1>5. /\ signal'.status = status /\ signal'.baseline = b /\ signal'.current = v
      /\ signal'.elapsed = Elapsed /\ signal'.available = (status = "AVAILABLE")
      /\ signal'.remaining = Greater(RecoveryWindow - Elapsed, 0)
      /\ signal' \in Signal
  BY <1>3, <1>4 DEF SignalOf, Signal
<1>6. Candidates(store, feed.runs)' = C /\ \A i \in C : feed'.runs[i] = feed.runs[i]
  BY DEF Candidates
<1>7. \A i \in C : signal'.elapsed >= Today - feed.runs[i].time
  BY <1>1, <1>2, <1>3, <1>5
<1>8. signal'.elapsed > 0 => \E i \in C : signal'.elapsed = Today - feed.runs[i].time
  BY <1>1, <1>3, <1>5
<1>. HIDE DEF C
<1>. QED  BY <1>4, <1>5, <1>6, <1>7, <1>8 DEF WindowTold

LEMMA FetchListKeepsInv ==
    ASSUME FetchInv, ReadFile \/ RequestAudit \/ TakeAudit
    PROVE  FetchInv'
<1>1. CallOK(call)' /\ store' \in Int /\ call' \in Call
  BY DEF FetchInv, FetchTypeOK, CallOK, ReadFile, RequestAudit, TakeAudit
<1>2. step' \in {"audit", "refused", "listed"} /\ FeedOK'
  <2>1. CASE ReadFile
    <3>1. PICK lines \in Files : Listed("file", FileRuns(lines))
      BY <2>1 DEF ReadFile
    <3>. DEFINE runs == FileRuns(lines)
    <3>2. lines \in Seq([object : BOOLEAN, run : Run])
      BY FetchAssumption
    <3>. DEFINE Line == [object : BOOLEAN, run : Run]
    <3>21. \A i \in DOMAIN lines : lines[i] \in Line
      <4>1. lines \in Seq(Line)
        BY <3>2
      <4>. HIDE DEF Line
      <4>. QED  BY <4>1
    <3>3. DOMAIN runs \subseteq DOMAIN lines /\ DOMAIN lines \subseteq 0 .. Len(lines) /\ Len(lines) \in Nat
      BY <3>2 DEF FileRuns
    <3>4. \A i \in DOMAIN runs : runs[i].time \in Int \cup {Missing} /\ runs[i].stores \in Seq(Int)
      <4>. SUFFICES ASSUME NEW i \in DOMAIN runs
                    PROVE  runs[i].time \in Int \cup {Missing} /\ runs[i].stores \in Seq(Int)
        OBVIOUS
      <4>1. runs[i].time = lines[i].run.time /\ runs[i].stores = lines[i].run.stores /\ i \in DOMAIN lines
        BY DEF FileRuns
      <4>2. lines[i].run \in Run
        BY <3>21, <4>1
      <4>. QED  BY <4>1, <4>2 DEF Run
    <3>. HIDE DEF runs
    <3>5. feed'.runs = runs /\ feed'.source = "file" /\ step' \in {"refused", "listed"}
      BY <3>1 DEF Listed, runs
    <3>6. FeedOK'
      BY <3>3, <3>4, <3>5 DEF FeedOK
    <3>. QED  BY <3>5, <3>6
  <2>2. CASE RequestAudit
    BY <2>2 DEF RequestAudit, FetchInv, FeedOK
  <2>3. CASE TakeAudit
    <3>1. CASE step' = "refused" /\ UNCHANGED feed
      BY <3>1 DEF FetchInv, FeedOK
    <3>2. CASE ~(step' = "refused" /\ UNCHANGED feed)
      <4>1. PICK payload \in Feeds :
                /\ AcceptedFeed(payload)
                /\ Listed("api", [i \in DOMAIN payload.runs |-> ReadModel(payload.runs[i])])
        BY <2>3, <3>2 DEF TakeAudit
      <4>. DEFINE runs == [i \in DOMAIN payload.runs |-> ReadModel(payload.runs[i])]
      <4>2. payload.runs \in Seq(Run)
        BY FetchAssumption
      <4>3. DOMAIN runs = DOMAIN payload.runs /\ DOMAIN payload.runs \subseteq 0 .. Len(payload.runs)
            /\ Len(payload.runs) \in Nat
        BY <4>2
      <4>4. \A i \in DOMAIN runs : /\ runs[i].time \in Int \cup {Missing}
                                   /\ runs[i].stores \in Seq(Int) /\ runs[i].time # Missing
        <5>. SUFFICES ASSUME NEW i \in DOMAIN payload.runs
                      PROVE  LET m == ReadModel(payload.runs[i])
                             IN  m.time \in Int \cup {Missing} /\ m.stores \in Seq(Int) /\ m.time # Missing
          OBVIOUS
        <5>1. payload.runs[i] \in Run
          BY <4>2
        <5>2. payload.runs[i].time # Missing
          BY <4>1 DEF AcceptedFeed, ValidRun
        <5>. QED  BY <5>1, <5>2 DEF ReadModel, Run
      <4>5. feed'.runs = runs /\ feed'.source = "api" /\ step' \in {"refused", "listed"}
        BY <4>1 DEF Listed
      <4>. HIDE DEF runs
      <4>6. FeedOK'
        BY <4>3, <4>4, <4>5 DEF FeedOK
      <4>. QED  BY <4>5, <4>6
    <3>. QED  BY <3>1, <3>2
  <2>. QED  BY <2>1, <2>2, <2>3
<1>3. FetchTypeOK'
  BY <1>1, <1>2 DEF FetchTypeOK
<1>. QED  BY <1>1, <1>2, <1>3 DEF FetchInv

LEMMA FetchCallKeepsInv ==
    ASSUME FetchInv, Attempt \/ WakeUp
    PROVE  FetchInv'
<1>1. CallOK(call)'
  <2>1. CASE Attempt
    <3>1. PICK reply \in Replies : call' = Answered(call, reply)
      BY <2>1 DEF Attempt
    <3>. QED  BY <2>1, <3>1, AnsweredOK DEF Attempt, FetchInv
  <2>2. CASE WakeUp
    BY <2>2, AwakeOK DEF WakeUp, FetchInv
  <2>. QED  BY <2>1, <2>2
<1>2. UNCHANGED <<step, feed, store, table, signal>>
  BY DEF Attempt, WakeUp
<1>3. step # "done"
  BY DEF Attempt, WakeUp, FetchInv, ChainTold, Ended
<1>4. FetchTypeOK'
  BY <1>1, <1>2 DEF FetchInv, FetchTypeOK, CallOK
<1>5. FeedOK' = FeedOK /\ Dated' = Dated /\ Named' = Named
  BY <1>2 DEF FeedOK, Dated, Candidates, Named, ReadableTable, RowsOf
<1>. QED  BY <1>1, <1>2, <1>3, <1>4, <1>5 DEF FetchInv

LEMMA PickStoreKeepsInv ==
    ASSUME FetchInv, PickStore
    PROVE  FetchInv'
<1>1. PICK s \in StoreIds(feed.runs) :
          /\ store' = s
          /\ step' = IF Candidates(s, feed.runs) = {} THEN "skipped" ELSE "stores"
  BY DEF PickStore
<1>2. call' = Fresh /\ UNCHANGED <<feed, table, signal>>
  BY DEF PickStore
<1>3. CallOK(call)'
  BY <1>2, FreshOK
<1>4. PICK i \in DOMAIN feed.runs : s \in Elements(feed.runs[i].stores)
  BY DEF StoreIds
<1>5. s \in Int
  BY <1>4 DEF FetchInv, FeedOK, Elements
<1>6. FeedOK'
  BY <1>2 DEF FetchInv, FeedOK
<1>7. FetchTypeOK'
  BY <1>1, <1>3, <1>5 DEF FetchTypeOK, CallOK
<1>8. step' = "stores" => Dated'
  BY <1>1, <1>2 DEF Dated
<1>9. step' = "skipped" => feed'.source = "file"
  <2>. SUFFICES ASSUME Candidates(s, feed.runs) = {} PROVE feed.source = "file"
    BY <1>1, <1>2
  <2>1. feed.runs[i].time = Missing
    BY <1>4 DEF Candidates
  <2>. QED  BY <1>4, <2>1 DEF FetchInv, FeedOK
<1>. QED  BY <1>1, <1>3, <1>6, <1>7, <1>8, <1>9 DEF FetchInv

LEMMA TakeTableKeepsInv ==
    ASSUME FetchInv, TakeTable
    PROVE  FetchInv'
<1>1. /\ step = "stores" /\ Ended(call) /\ UNCHANGED <<feed, store>>
      /\ Dated /\ FeedOK /\ CallOK(call)
  BY DEF TakeTable, FetchInv
<1>2. FeedOK' /\ Dated' /\ store' \in Int
  BY <1>1 DEF FetchInv, FetchTypeOK, FeedOK, Dated
<1>3. CASE step' = "baseline"
  <2>1. /\ call' = Fresh
        /\ ReadableTable(table') /\ RowsOf(store, table') # {}
    BY <1>3 DEF TakeTable, Finish
  <2>2. CallOK(call)' /\ Named'
    BY <1>1, <2>1, FreshOK DEF Named
  <2>. QED  BY <1>2, <1>3, <2>2 DEF FetchInv, FetchTypeOK, CallOK
<1>4. CASE step' # "baseline"
  <2>1. PICK status \in {"NO_DATA", "ERROR"} :
          /\ Finish(status, 0, 0) /\ UNCHANGED call
          /\ status = "NO_DATA" <=> (Usable(call) /\ ReadableTable(table') /\ RowsOf(store, table') = {})
          /\ status = "ERROR" => ~Usable(call) \/ ~ReadableTable(table')
    BY <1>4 DEF TakeTable
  <2>2. step' = "done" /\ signal' = SignalOf(status, 0, 0)
    BY <2>1 DEF Finish
  <2>3. /\ WindowTold' /\ signal'.status = status /\ signal'.baseline = 0 /\ signal'.current = 0
    BY <1>1, <2>2, SignalTellsWindow
  <2>4. ChainTold'
    BY <1>1, <2>1, <2>3 DEF ChainTold
  <2>. QED  BY <1>1, <1>2, <2>1, <2>2, <2>3, <2>4 DEF FetchInv, FetchTypeOK, CallOK
<1>. QED  BY <1>3, <1>4

LEMMA ForecastKeepsInv ==
    ASSUME FetchInv, TakeBaseline \/ TakeCurrent
    PROVE  FetchInv'
<1>1. /\ step \in {"baseline", "current"} /\ Ended(call) /\ UNCHANGED <<feed, store, table>>
      /\ Dated /\ FeedOK /\ CallOK(call) /\ Named
  BY DEF TakeBaseline, TakeCurrent, FetchInv
<1>2. FeedOK' /\ Dated' /\ store' \in Int /\ Named'
  BY <1>1 DEF FetchInv, FetchTypeOK, FeedOK, Dated, Named
<1>3. CASE step' = "current"
  <2>1. PICK value \in Forecasts : call' = Fresh /\ signal' = SignalOf("ERROR", value, 0)
    BY <1>3 DEF TakeBaseline, TakeCurrent, Finish
  <2>2. CallOK(call)'
    BY <2>1, FreshOK
  <2>3. signal'.baseline \in Int
    BY <2>1, FetchAssumption DEF SignalOf
  <2>. QED  BY <1>2, <1>3, <2>2, <2>3 DEF FetchInv, FetchTypeOK, CallOK
<1>4. CASE step' # "current"
  <2>1. PICK status \in {"AVAILABLE", "ERROR"}, b \in Int, v \in Int :
          /\ Finish(status, b, v) /\ UNCHANGED call
          /\ status = "AVAILABLE" <=> Usable(call)
          /\ status = "ERROR" => b = 0 /\ v = 0
    <3>1. CASE ~Usable(call)
      BY <1>4, <3>1 DEF TakeBaseline, TakeCurrent
    <3>2. CASE Usable(call)
      <4>1. TakeCurrent /\ step = "current" /\ call' = call
        BY <1>4, <3>2 DEF TakeBaseline, TakeCurrent
      <4>2. PICK value \in Forecasts : Finish("AVAILABLE", signal.baseline, value)
        BY <3>2, <4>1 DEF TakeCurrent
      <4>3. signal.baseline \in Int /\ value \in Int
        BY <4>1, FetchAssumption DEF FetchInv
      <4>. QED  BY <3>2, <4>1, <4>2, <4>3
    <3>. QED  BY <3>1, <3>2
  <2>2. step' = "done" /\ signal' = SignalOf(status, b, v)
    BY <2>1 DEF Finish
  <2>3. /\ WindowTold' /\ signal'.status = status /\ signal'.baseline = b /\ signal'.current = v
    BY <1>1, <2>2, SignalTellsWindow
  <2>4. ChainTold'
    BY <1>1, <1>2, <2>1, <2>3 DEF ChainTold, Named
  <2>. QED  BY <1>1, <1>2, <2>1, <2>2, <2>3, <2>4 DEF FetchInv, FetchTypeOK, CallOK
<1>. QED  BY <1>3, <1>4

LEMMA FetchInvariance == FetchSpec => []FetchInv
<1>1. FetchInv /\ [FetchNext]_fetch => FetchInv'
  <2>. SUFFICES ASSUME FetchInv, [FetchNext]_fetch PROVE FetchInv'
    OBVIOUS
  <2>1. CASE FetchNext
    BY <2>1, FetchListKeepsInv, FetchCallKeepsInv, PickStoreKeepsInv, TakeTableKeepsInv,
       ForecastKeepsInv DEF FetchNext
  <2>2. CASE UNCHANGED fetch
    <3>1. UNCHANGED <<step, call, feed, store, table, signal>>
      BY <2>2 DEF fetch
    <3>2. FeedOK' = FeedOK /\ Dated' = Dated /\ Named' = Named /\ FetchTypeOK' = FetchTypeOK
      BY <3>1 DEF FeedOK, Dated, Candidates, Named, ReadableTable, RowsOf, FetchTypeOK
    <3>3. WindowTold' = WindowTold /\ ChainTold' = ChainTold
      BY <3>1 DEF WindowTold, Candidates, ChainTold, ReadableTable, RowsOf
    <3>. QED  BY <3>1, <3>2, <3>3 DEF FetchInv
  <2>. QED  BY <2>1, <2>2
<1>. QED  BY <1>1, FetchInitInv, PTL DEF FetchSpec

\* The fetch's variables keep their types, for any feeds, tables and answers
\* (FetchTypeOK).
THEOREM FetchTypeCorrect == FetchSpec => []FetchTypeOK
<1>1. FetchInv => FetchTypeOK
  BY DEF FetchInv
<1>. QED  BY <1>1, FetchInvariance, PTL

\* Whatever the upstreams answer and however often they are asked again, a signal is
\* true: NO_DATA is an answer and never a failure, the window is counted from the
\* store's earliest dated run, the pipeline can take it, no store of an accepted feed
\* is lost, and every request keeps to its retries (build_store_signal with both
\* clients' _request_with_retry).
THEOREM SignalsAreTrue == FetchSpec => []SignalIsTrue
<1>1. FetchInv => SignalIsTrue
  BY DEF FetchInv, SignalIsTrue, NoDataIsAnAnswer, WindowFromFirstRun, SignalFitsPipeline,
         FeedLosesNoStore, CallsDisciplined, Ready, WindowTold, ChainTold, CallOK
<1>. QED  BY <1>1, FetchInvariance, PTL

\* What a pruning keeps are stamps the client had.
LEMMA PruningInventsNothing ==
    ASSUME NEW S \in SUBSET Nat, NEW s \in Seq(S), NEW now \in Nat
    PROVE  Kept(s, now) \in Seq(S)
<1>. DEFINE inside == {i \in DOMAIN s : s[i] > now - Window}
            k == CHOOSE i \in inside : \A j \in inside : i <= j
<1>1. DOMAIN s = 1 .. Len(s) /\ Len(s) \in Nat
  BY LenProperties
<1>2. CASE inside = {}
  <2>1. Kept(s, now) = <<>>
    BY <1>2 DEF Kept
  <2>. QED  BY <2>1, EmptySeq
<1>3. CASE inside # {}
  <2>1. inside \in SUBSET Nat
    BY <1>1
  <2>2. \E i \in inside : \A j \in inside : i <= j
    BY <1>3, <2>1, LeastStamp
  <2>3. k \in inside
    BY <2>2
  <2>4. Kept(s, now) = SubSeq(s, k, Len(s))
    BY <1>3 DEF Kept
  <2>. HIDE DEF k
  <2>5. k \in 1 .. Len(s)
    BY <1>1, <2>3
  <2>. QED  BY <1>1, <2>4, <2>5, SubSeqProperties
<1>. QED  BY <1>2, <1>3

\* Neither the clock nor the count of redeploys runs over, and a stamp is an instant of
\* the clock.
Stamped ==
    /\ tick <= MaxTick /\ life <= MaxRestarts
    /\ calls \in [Clients -> Seq(0 .. MaxTick)]

LEMMA StampedHolds == GuardSpec => []Stamped
<1>1. GuardInit => Stamped
  BY GuardAssumption, EmptySeq DEF GuardInit, Stamped
<1>2. HourInv /\ Stamped /\ [GuardNext]_guard => Stamped'
  <2>. SUFFICES ASSUME HourInv, Stamped, [GuardNext]_guard PROVE Stamped'
    OBVIOUS
  <2>0. tick \in Nat /\ life \in Nat /\ MaxTick \in Nat /\ MaxRestarts \in Nat
    BY GuardAssumption DEF HourInv, GuardInv, CountersOK
  <2>1. ASSUME NEW r \in Requests, ChargeClient(r) PROVE Stamped'
    <3>. DEFINE c == req[r].client
                now == req[r].now
                kept == Kept(calls[c], now)
    <3>1. c \in Clients /\ now \in Nat /\ now <= tick
      <4>1. req[r] \in Req /\ req[r].pc = "client"
        BY <2>1 DEF HourInv, GuardInv, CountersOK, ChargeClient
      <4>. QED  BY <4>1 DEF HourInv, Clocked, Req
    <3>2. calls[c] \in Seq(0 .. MaxTick) /\ now \in 0 .. MaxTick
      BY <2>0, <3>1 DEF Stamped
    <3>3. kept \in Seq(0 .. MaxTick)
      <4>1. 0 .. MaxTick \in SUBSET Nat
        OBVIOUS
      <4>. DEFINE s == calls[c]
      <4>. HIDE DEF now, s
      <4>2. Kept(s, now) \in Seq(0 .. MaxTick)
        BY <3>1, <3>2, <4>1, PruningInventsNothing DEF s
      <4>. QED  BY <4>2 DEF s
    <3>4. Append(kept, now) \in Seq(0 .. MaxTick)
      BY <3>2, <3>3, AppendProperties
    <3>5. calls' = calls \/ calls' = [calls EXCEPT ![c] = kept]
            \/ calls' = [calls EXCEPT ![c] = Append(kept, now)]
      BY <2>1 DEF ChargeClient
    <3>6. tick' = tick /\ life' = life
      BY <2>1 DEF ChargeClient
    <3>. HIDE DEF kept, now
    <3>. QED  BY <3>1, <3>3, <3>4, <3>5, <3>6 DEF Stamped
  <2>2. ASSUME NEW r \in Requests, Arrive(r) \/ ChargeDay(r) \/ ReadClock(r) PROVE Stamped'
    BY <2>2 DEF Arrive, ChargeDay, ReadClock, Stamped
  <2>3. CASE Tick
    BY <2>0, <2>3 DEF Tick, Stamped
  <2>4. CASE Restart
    BY <2>0, <2>4, EmptySeq DEF Restart, Stamped
  <2>5. CASE UNCHANGED guard
    BY <2>5 DEF guard, Stamped
  <2>. QED  BY <2>1, <2>2, <2>3, <2>4, <2>5 DEF GuardNext, GuardStep
<1>. QED  BY <1>1, <1>2, HourInvariance, PTL DEF GuardSpec

\* Every stamp the guard keeps is an instant of the clock, and a request is somewhere
\* on its way through the two ceilings.
THEOREM GuardTypeCorrect == GuardSpec => []GuardTypeOK
<1>1. HourInv /\ Stamped => GuardTypeOK
  <2>. SUFFICES ASSUME HourInv, Stamped PROVE GuardTypeOK
    OBVIOUS
  <2>1. /\ tick \in Nat /\ life \in Nat /\ MaxTick \in Nat /\ MaxRestarts \in Nat
        /\ daily \in [day : Nat \cup {-1}, used : Nat] /\ req \in [Requests -> Req]
    BY GuardAssumption DEF HourInv, GuardInv, CountersOK
  <2>2. ASSUME NEW c \in Clients PROVE \A i \in DOMAIN calls[c] : calls[c][i] \in 0 .. MaxTick
    <3>1. calls[c] \in Seq(0 .. MaxTick)
      BY DEF Stamped
    <3>. QED  BY <3>1, LenProperties, ElementOfSeq
  <2>3. \A r \in Requests : req[r].pc \in ChargedPcs \cup {"idle", "day", "template", "lost"}
    BY <2>1 DEF Req, Pcs, ChargedPcs
  <2>4. daily.day \in Int /\ daily.used \in Nat
    BY <2>1
  <2>5. tick \in 0 .. MaxTick /\ life \in 0 .. MaxRestarts
    BY <2>1 DEF Stamped
  <2>. QED  BY <2>2, <2>3, <2>4, <2>5 DEF GuardTypeOK
<1>. QED  BY <1>1, HourInvariance, StampedHolds, PTL

=============================================================================
