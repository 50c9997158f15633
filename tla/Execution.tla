----------------------------- MODULE Execution ------------------------------
(***************************************************************************)
(* The execution layer: POST /execute/{store} and POST                     *)
(* /executions/{id}/reverse over the append-only execution journal         *)
(* (execution/connector.py, execution/journal.py) and the connector that   *)
(* performs the action outside the process.                                *)
(*                                                                         *)
(* A call holds the execution lock across its read of the journal, the     *)
(* external call and its appends; the connector is resolved from the       *)
(* environment before the lock is taken.                                   *)
(***************************************************************************)
EXTENDS Naturals, Sequences, FiniteSets

CONSTANTS
    Stores, Actions,   \* an action stands for one recommendation of a store
    GatedActions,      \* those APPROVAL_REQUIRED_RECOMMENDATIONS contains
    Calls,             \* execute and reverse calls, each one HTTP request
    MaxApprovals,      \* bound on human approvals
    MaxRestarts,       \* bound on redeployments
    NoRec, NoHandle, NoOne

ASSUME BoundsAssumption == MaxApprovals \in Nat /\ MaxRestarts \in Nat

Connectors == {"dry-run", "webhook"}
Environments == Connectors \cup {"misconfigured"}

\* idempotency_key: the approval_id is not part of it.
Keys == Stores \X Actions
Record == [store : Stores, action : Actions, approval : 1 .. MaxApprovals]
IdempotencyKey(rec) == <<rec.store, rec.action>>

\* A handle names the connector and what it cancels: the remote id of one
\* delivery, or the idempotency key when the endpoint gave no id.
Handle == [connector : Connectors, cancels : Calls \cup Keys]

\* The execution id is fresh per call, so the call stands for it.
Event == [event : {"applying", "execution", "reversing", "reversal"},
          id : Calls, key : Keys, connector : Connectors,
          handle : Handle \cup {NoHandle}]

ASSUME NothingAssumption ==
    /\ NoRec \notin Record /\ NoHandle \notin Handle /\ NoOne \notin Calls
    /\ Calls \cap Keys = {}

VARIABLES
    approved,      \* latest approved, decided record of each store
    issued,        \* approvals so far
    environment,   \* EXECUTION_CONNECTOR and its settings
    journal, lock,
    pc, rec, connector, target, handle, answer,   \* per call
    effects,       \* deliveries of apply the outside world acted on
    cancelled,     \* of those, the ones it has cancelled
    restarts

local == <<rec, connector, target, handle>>
world == <<effects, cancelled>>
deploy == <<approved, issued, environment, restarts>>
vars == <<deploy, journal, lock, pc, local, answer, world>>

Unlocked == {"idle", "wait", "rwait", "done", "failed"}
Locked == {"check", "witness", "apply", "record",
           "rcheck", "rwitness", "undo", "rrecord"}
Answers == {"none", "created", "existing", "refused", "no_approval",
            "misconfigured", "reversed", "not_found", "already_reversed"}

TypeOK ==
    /\ approved \in [Stores -> Record \cup {NoRec}]
    /\ issued \in 0 .. MaxApprovals
    /\ environment \in Environments
    /\ journal \in Seq(Event)
    /\ lock \in Calls \cup {NoOne}
    /\ pc \in [Calls -> Unlocked \cup Locked]
    /\ rec \in [Calls -> Record \cup {NoRec}]
    /\ connector \in [Calls -> Connectors \cup {"none"}]
    /\ target \in [Calls -> Calls \cup {NoOne}]
    /\ handle \in [Calls -> Handle \cup {NoHandle}]
    /\ answer \in [Calls -> Answers]
    /\ effects \subseteq [id : Calls, key : Keys]
    /\ cancelled \subseteq effects
    /\ restarts \in 0 .. MaxRestarts

Init ==
    /\ approved = [s \in Stores |-> NoRec] /\ issued = 0
    /\ environment \in Environments
    /\ journal = <<>> /\ lock = NoOne
    /\ pc = [c \in Calls |-> "idle"]
    /\ rec = [c \in Calls |-> NoRec]
    /\ connector = [c \in Calls |-> "none"]
    /\ target = [c \in Calls |-> NoOne]
    /\ handle = [c \in Calls |-> NoHandle]
    /\ answer = [c \in Calls |-> "none"]
    /\ effects = {} /\ cancelled = {}
    /\ restarts = 0

-----------------------------------------------------------------------------
(* execution_state: the fold of the journal.                               *)

ExecutionAt(i, x) == journal[i].event = "execution" /\ journal[i].id = x
ReversalAt(j, x) == journal[j].event = "reversal" /\ journal[j].id = x

Executed(x) == \E i \in DOMAIN journal : ExecutionAt(i, x)

\* A reversal counts only after its execution.
Reversed(x) == \E i, j \in DOMAIN journal :
                  i < j /\ ExecutionAt(i, x) /\ ReversalAt(j, x)

\* The event of a known execution.
ExecutionOf(x) == journal[CHOOSE i \in DOMAIN journal : ExecutionAt(i, x)]

Active(k) == {x \in Calls : /\ Executed(x) /\ ~ Reversed(x)
                            /\ ExecutionOf(x).key = k}

Log(event) == journal' = Append(journal, event)

-----------------------------------------------------------------------------
(* A human approves: the log gains an approved, decided record.            *)
Approve(s, a) ==
    /\ issued < MaxApprovals
    /\ issued' = issued + 1
    /\ approved' = [approved EXCEPT
                      ![s] = [store |-> s, action |-> a, approval |-> issued']]
    /\ UNCHANGED <<environment, restarts, journal, lock, pc, local, answer, world>>

Answer(c, what) ==
    /\ answer' = [answer EXCEPT ![c] = what]
    /\ pc' = [pc EXCEPT ![c] = "done"]

-----------------------------------------------------------------------------
(* execute_store_recommendation and execute_recommendation.                *)

\* What the endpoint refuses before it touches the journal.
ExecuteRefused(c, s) ==
    /\ pc[c] = "idle"
    /\ \/ approved[s] = NoRec /\ Answer(c, "no_approval")
       \/ /\ approved[s] # NoRec /\ environment = "misconfigured"
          /\ Answer(c, "misconfigured")
       \/ /\ approved[s] # NoRec /\ environment # "misconfigured"
          /\ approved[s].action \notin GatedActions
          /\ Answer(c, "refused")
    /\ UNCHANGED <<deploy, journal, lock, local, world>>

ExecuteAsked(c, s) ==
    /\ pc[c] = "idle"
    /\ approved[s] # NoRec /\ environment # "misconfigured"
    /\ approved[s].action \in GatedActions
    /\ rec' = [rec EXCEPT ![c] = approved[s]]
    /\ connector' = [connector EXCEPT ![c] = environment]
    /\ pc' = [pc EXCEPT ![c] = "wait"]
    /\ UNCHANGED <<deploy, journal, lock, target, handle, answer, world>>

\* Faulty variant: the lock does not exclude other callers.
AcquireNothing(c) ==
    /\ pc[c] \in {"wait", "rwait"}
    /\ lock' = c
    /\ pc' = [pc EXCEPT ![c] = IF pc[c] = "wait" THEN "check" ELSE "rcheck"]
    /\ UNCHANGED <<deploy, journal, local, answer, world>>

Acquire(c) ==
    /\ pc[c] \in {"wait", "rwait"} /\ lock = NoOne
    /\ lock' = c
    /\ pc' = [pc EXCEPT ![c] = IF pc[c] = "wait" THEN "check" ELSE "rcheck"]
    /\ UNCHANGED <<deploy, journal, local, answer, world>>

\* Faulty variant: the idempotent path returns without releasing the lock.
CheckKeepsLock(c) ==
    /\ pc[c] = "check"
    /\ IF Active(IdempotencyKey(rec[c])) # {}
         THEN pc' = [pc EXCEPT ![c] = "done"] /\ UNCHANGED answer
         ELSE pc' = [pc EXCEPT ![c] = "witness"] /\ UNCHANGED answer
    /\ UNCHANGED <<deploy, journal, lock, local, world>>

CheckActive(c) ==
    /\ pc[c] = "check"
    /\ IF Active(IdempotencyKey(rec[c])) # {}
         THEN Answer(c, "existing") /\ lock' = NoOne
         ELSE /\ pc' = [pc EXCEPT ![c] = "witness"]
              /\ UNCHANGED <<answer, lock>>
    /\ UNCHANGED <<deploy, journal, local, world>>

ExecutionEvent(c, kind, h) ==
    [event |-> kind, id |-> c, key |-> IdempotencyKey(rec[c]),
     connector |-> connector[c], handle |-> h]

\* Faulty variant: the crash witness is left out.
SkipWitness(c) ==
    /\ pc[c] = "witness"
    /\ pc' = [pc EXCEPT ![c] = "apply"]
    /\ UNCHANGED <<deploy, journal, lock, local, answer, world>>

WitnessApply(c) ==
    /\ pc[c] = "witness"
    /\ Log(ExecutionEvent(c, "applying", NoHandle))
    /\ pc' = [pc EXCEPT ![c] = "apply"]
    /\ UNCHANGED <<deploy, lock, local, answer, world>>

\* The webhook delivers and answers with an id of its own or with none; the
\* dry run does nothing.
Delivers(c) ==
    IF connector[c] = "webhook"
      THEN effects' = effects \cup {[id |-> c, key |-> IdempotencyKey(rec[c])]}
      ELSE UNCHANGED effects

HandlesFor(c) ==
    {[connector |-> connector[c], cancels |-> x] :
       x \in {IdempotencyKey(rec[c])}
             \cup (IF connector[c] = "webhook" THEN {c} ELSE {})}

Apply(c) ==
    /\ pc[c] = "apply"
    /\ Delivers(c)
    /\ \E h \in HandlesFor(c) : handle' = [handle EXCEPT ![c] = h]
    /\ pc' = [pc EXCEPT ![c] = "record"]
    /\ UNCHANGED <<deploy, journal, lock, rec, connector, target, answer, cancelled>>

\* Faulty variant: the completion is journaled as a status of its own.
RecordStatus(c) ==
    /\ pc[c] = "record"
    /\ Log(ExecutionEvent(c, "applied", handle[c]))
    /\ Answer(c, "created") /\ lock' = NoOne
    /\ UNCHANGED <<deploy, local, world>>

RecordExecution(c) ==
    /\ pc[c] = "record"
    /\ Log(ExecutionEvent(c, "execution", handle[c]))
    /\ Answer(c, "created") /\ lock' = NoOne
    /\ UNCHANGED <<deploy, local, world>>

-----------------------------------------------------------------------------
(* reverse_store_execution and reverse_execution.                          *)

ReverseAsked(c, x) ==
    /\ pc[c] = "idle"
    /\ IF environment = "misconfigured"
         THEN Answer(c, "misconfigured") /\ UNCHANGED <<target, connector>>
         ELSE /\ target' = [target EXCEPT ![c] = x]
              /\ connector' = [connector EXCEPT ![c] = environment]
              /\ pc' = [pc EXCEPT ![c] = "rwait"]
              /\ UNCHANGED answer
    /\ UNCHANGED <<deploy, journal, lock, rec, handle, world>>

\* Faulty variant: an already reversed execution is reversed again.
CheckKnown(c) ==
    /\ pc[c] = "rcheck"
    /\ IF ~ Executed(target[c])
         THEN Answer(c, "not_found") /\ lock' = NoOne
         ELSE /\ pc' = [pc EXCEPT ![c] = "rwitness"]
              /\ UNCHANGED <<answer, lock>>
    /\ UNCHANGED <<deploy, journal, local, world>>

CheckReversible(c) ==
    /\ pc[c] = "rcheck"
    /\ \/ /\ ~ Executed(target[c])
          /\ Answer(c, "not_found") /\ lock' = NoOne
       \/ /\ Executed(target[c]) /\ Reversed(target[c])
          /\ Answer(c, "already_reversed") /\ lock' = NoOne
       \/ /\ Executed(target[c]) /\ ~ Reversed(target[c])
          /\ pc' = [pc EXCEPT ![c] = "rwitness"]
          /\ UNCHANGED <<answer, lock>>
    /\ UNCHANGED <<deploy, journal, local, world>>

\* Both events carry the connector of the execution, whichever one is used.
ReversalEvent(c, kind) ==
    [ExecutionOf(target[c]) EXCEPT !.event = kind, !.handle = NoHandle]

WitnessReverse(c) ==
    /\ pc[c] = "rwitness"
    /\ Log(ReversalEvent(c, "reversing"))
    /\ pc' = [pc EXCEPT ![c] = "undo"]
    /\ UNCHANGED <<deploy, lock, local, answer, world>>

\* The webhook is sent the journaled handle; it can cancel what that handle
\* names if the handle is one of its own.
CancelledBy(h) == {e \in effects : /\ h.connector = "webhook"
                                   /\ h.cancels \in {e.id, e.key}}

Undoes(c) ==
    IF connector[c] = "webhook"
      THEN cancelled' = cancelled \cup CancelledBy(ExecutionOf(target[c]).handle)
      ELSE UNCHANGED cancelled

\* Faulty variant: the external cancellation is not sent.
UndoNothing(c) ==
    /\ pc[c] = "undo"
    /\ pc' = [pc EXCEPT ![c] = "rrecord"]
    /\ UNCHANGED <<deploy, journal, lock, local, answer, world>>

Undo(c) ==
    /\ pc[c] = "undo"
    /\ Undoes(c)
    /\ pc' = [pc EXCEPT ![c] = "rrecord"]
    /\ UNCHANGED <<deploy, journal, lock, local, answer, effects>>

RecordReversal(c) ==
    /\ pc[c] = "rrecord"
    /\ Log(ReversalEvent(c, "reversal"))
    /\ Answer(c, "reversed") /\ lock' = NoOne
    /\ UNCHANGED <<deploy, local, world>>

-----------------------------------------------------------------------------
(* Failures.  An exception or a killed process releases the lock; the      *)
(* external call may have been acted on although it raised.                *)

Release(c) == lock' = IF lock = c THEN NoOne ELSE lock

FailCall(c) ==
    /\ pc[c] \notin {"idle", "done", "failed"}
    /\ pc' = [pc EXCEPT ![c] = "failed"] /\ Release(c)
    /\ UNCHANGED <<deploy, journal, local, answer, world>>

TimeoutAfterApply(c) ==
    /\ pc[c] = "apply" /\ connector[c] = "webhook"
    /\ Delivers(c)
    /\ pc' = [pc EXCEPT ![c] = "failed"] /\ Release(c)
    /\ UNCHANGED <<deploy, journal, local, answer, cancelled>>

TimeoutAfterUndo(c) ==
    /\ pc[c] = "undo" /\ connector[c] = "webhook"
    /\ Undoes(c)
    /\ pc' = [pc EXCEPT ![c] = "failed"] /\ Release(c)
    /\ UNCHANGED <<deploy, journal, local, answer, effects>>

\* A redeploy kills every call and may select another connector.
Redeploy ==
    /\ restarts < MaxRestarts
    /\ restarts' = restarts + 1
    /\ environment' \in Environments
    /\ pc' = [c \in Calls |-> IF pc[c] \in {"idle", "done"} THEN pc[c]
                                                           ELSE "failed"]
    /\ lock' = NoOne
    /\ UNCHANGED <<approved, issued, journal, local, answer, world>>

-----------------------------------------------------------------------------
Ask(c) == \/ \E s \in Stores : ExecuteRefused(c, s) \/ ExecuteAsked(c, s)
          \/ \E x \in Calls : ReverseAsked(c, x)

Step(c) == \/ Acquire(c)
           \/ CheckActive(c) \/ WitnessApply(c) \/ Apply(c) \/ RecordExecution(c)
           \/ CheckReversible(c) \/ WitnessReverse(c) \/ Undo(c) \/ RecordReversal(c)

Steady == \/ \E s \in Stores, a \in Actions : Approve(s, a)
          \/ \E c \in Calls : Ask(c) \/ Step(c)

Failure == \/ \E c \in Calls : FailCall(c) \/ TimeoutAfterApply(c) \/ TimeoutAfterUndo(c)
           \/ Redeploy

Next == Steady \/ Failure

Spec == Init /\ [][Next]_vars

\* Nothing fails and the deployment stays: the thread that holds the lock
\* runs, and so does one that waits for a lock nobody holds.
SteadySpec == Init /\ [][Steady]_vars /\ \A c \in Calls : WF_vars(Step(c))

-----------------------------------------------------------------------------
(* The abstract record of executions (module ExecutionRecord).             *)

LivePairs == {p \in Keys \X Calls : p[2] \in Active(p[1])}

Promise == INSTANCE ExecutionRecord WITH
              Executions <- Calls, Keys <- Keys,
              live <- LivePairs, retired <- {x \in Calls : Reversed(x)}

\* Whatever races, fails, times out or is redeployed, the journal read as
\* execution_state reads it is a history of executions live one at a time per
\* key, each reversed at most once and never live again.
ImplementsRecord == Promise!Spec

-----------------------------------------------------------------------------
(* Properties.                                                             *)

LiveEffects(k) == {e \in effects \ cancelled : e.key = k}
ActiveVia(con) == {x \in Calls : /\ Executed(x) /\ ~ Reversed(x)
                                 /\ ExecutionOf(x).connector = con}

\* "a failed attempt leaves an applying line" (execute_recommendation): every
\* delivery the outside world acted on has its intent in the journal, and one
\* with no completed execution belongs to a call that is about to record it or
\* has failed.
EffectsWitnessed ==
    \A e \in effects :
       /\ \E i \in DOMAIN journal : /\ journal[i].event = "applying"
                                    /\ journal[i].id = e.id /\ journal[i].key = e.key
       /\ ~ Executed(e.id) => pc[e.id] \in {"record", "failed"}

\* Every reversal in the journal undoes one earlier execution, and no
\* execution is reversed twice.
ReversedOnce ==
    \A j \in DOMAIN journal : journal[j].event = "reversal" =>
       /\ \E i \in 1 .. (j - 1) : ExecutionAt(i, journal[j].id)
       /\ \A l \in DOMAIN journal : ReversalAt(l, journal[j].id) => l = j

\* With nothing failing and one connector, the journal is the truth about the
\* outside world whenever nobody holds the lock: what is live out there is
\* what the journal says is active through the webhook.
JournalMatchesWorld ==
    lock = NoOne => {e.id : e \in effects \ cancelled} = ActiveVia("webhook")

\* With nothing failing, every call that reached the execution layer gets an
\* answer: nobody waits for the lock forever.
CallsAnswered == \A c \in Calls : (pc[c] # "idle") ~> (answer[c] # "none")

(* What the comments claim and failures refute.                            *)

\* "retries, double-clicks and worker races cannot double-apply an action"
\* (module docstring): one idempotency key never has two deliveries in effect.
NeverDoubleApplied == \A k \in Keys : Cardinality(LiveEffects(k)) <= 1

\* "Every execution can be undone ... recorded as a reversal event" (module
\* docstring): an execution journaled as reversed is no longer in effect.
ReversalUndoes ==
    \A e \in effects : Reversed(e.id) => e \in cancelled
=============================================================================
