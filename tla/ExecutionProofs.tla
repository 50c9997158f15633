--------------------------- MODULE ExecutionProofs ---------------------------
(***************************************************************************)
(* Proofs about the execution layer, for any number of stores, calls and   *)
(* approvals and any history of failures and redeploys.                    *)
(*                                                                         *)
(* The argument: a call that passed its check under the lock keeps the     *)
(* lock until it writes, so what it read of the journal is still true when *)
(* it writes (Checked); an execution id is written once (Single) and a     *)
(* reversal only of a live execution (Reversals).                          *)
(***************************************************************************)
EXTENDS Execution, Integers, SequenceTheorems, TLAPS

Executing == {"wait", "check", "witness", "apply", "record"}
Reversing == {"rwait", "rcheck", "rwitness", "undo", "rrecord"}

HandsTyped ==
    \A c \in Calls :
       /\ pc[c] \in Executing => rec[c] \in Record /\ connector[c] \in Connectors
       /\ pc[c] = "record" => handle[c] \in Handle
       /\ pc[c] \in Reversing => target[c] \in Calls /\ connector[c] \in Connectors

LockHeld == \A c \in Calls : pc[c] \in Locked => lock = c

\* One execution event per id, written by the call's last step.
Single ==
    /\ \A i \in DOMAIN journal :
          journal[i].event = "execution" => pc[journal[i].id] = "done"
    /\ \A i, j \in DOMAIN journal :
          (journal[i].event = "execution" /\ ExecutionAt(j, journal[i].id)) => i = j

Reversals ==
    \A j \in DOMAIN journal : journal[j].event = "reversal" =>
       /\ \E i \in DOMAIN journal : i < j /\ ExecutionAt(i, journal[j].id)
       /\ \A l \in DOMAIN journal : ReversalAt(l, journal[j].id) => l = j

Checked ==
    \A c \in Calls :
       /\ pc[c] \in {"witness", "apply", "record"} => Active(IdempotencyKey(rec[c])) = {}
       /\ pc[c] \in {"rwitness", "undo", "rrecord"} =>
             Executed(target[c]) /\ ~ Reversed(target[c])

OneActive == \A k \in Keys : \A x, y \in Active(k) : x = y

Witnessed ==
    \A c \in Calls : pc[c] \in {"apply", "record"} =>
       \E i \in DOMAIN journal : /\ journal[i].event = "applying"
                                 /\ journal[i].id = c
                                 /\ journal[i].key = IdempotencyKey(rec[c])

JournalInv == journal \in Seq(Event) /\ Single /\ Reversals

IInv == /\ TypeOK /\ HandsTyped /\ LockHeld /\ JournalInv /\ Checked /\ OneActive
        /\ Witnessed /\ EffectsWitnessed

-----------------------------------------------------------------------------
(* The fold of the journal.                                                *)

LEMMA Positions ==
  ASSUME journal \in Seq(Event), NEW e \in Event, journal' = Append(journal, e)
  PROVE  /\ journal' \in Seq(Event)
         /\ Len(journal) + 1 \in DOMAIN journal'
         /\ journal'[Len(journal) + 1] = e
         /\ \A i \in DOMAIN journal :
               /\ i \in DOMAIN journal' /\ journal'[i] = journal[i]
               /\ i \in Nat /\ i < Len(journal) + 1
         /\ \A i \in DOMAIN journal' : i \in DOMAIN journal \/ i = Len(journal) + 1
BY AppendProperties

LEMMA JournalEntries ==
  ASSUME journal \in Seq(Event), NEW i \in DOMAIN journal
  PROVE  journal[i] \in Event /\ journal[i].id \in Calls
<1>1. journal[i] \in Event
  OBVIOUS
<1>2. QED
  BY <1>1 DEF Event

LEMMA FoldUnchanged ==
  ASSUME journal' = journal
  PROVE  /\ \A x : /\ Executed(x)' <=> Executed(x)
                   /\ Reversed(x)' <=> Reversed(x)
                   /\ ExecutionOf(x)' = ExecutionOf(x)
         /\ \A k : Active(k)' = Active(k)
BY DEF Executed, Reversed, ExecutionOf, Active, ExecutionAt, ReversalAt

\* The event execution_state keeps for an id is the only one of that id.
LEMMA ExecutionEventOf ==
  ASSUME JournalInv, NEW i \in DOMAIN journal, NEW x, ExecutionAt(i, x)
  PROVE  ExecutionOf(x) = journal[i]
BY DEF ExecutionOf, JournalInv, Single, ExecutionAt

LEMMA ExecutedInJournal ==
  ASSUME JournalInv, NEW x, Executed(x)
  PROVE  \E i \in DOMAIN journal : ExecutionAt(i, x) /\ ExecutionOf(x) = journal[i]
BY ExecutionEventOf DEF Executed

\* A status event changes nothing the fold looks at.
LEMMA FoldStatus ==
  ASSUME journal \in Seq(Event), NEW e \in Event, journal' = Append(journal, e),
         e.event \in {"applying", "reversing"}, JournalInv
  PROVE  /\ \A x : /\ Executed(x)' <=> Executed(x)
                   /\ Reversed(x)' <=> Reversed(x)
                   /\ Executed(x) => ExecutionOf(x)' = ExecutionOf(x)
         /\ \A k : Active(k)' = Active(k)
         /\ \A i \in DOMAIN journal' : \A x :
               /\ ExecutionAt(i, x)' => i \in DOMAIN journal /\ ExecutionAt(i, x)
               /\ ReversalAt(i, x)' => i \in DOMAIN journal /\ ReversalAt(i, x)
<1>1. \A i \in DOMAIN journal' : \A x :
        /\ ExecutionAt(i, x)' <=> i \in DOMAIN journal /\ ExecutionAt(i, x)
        /\ ReversalAt(i, x)' <=> i \in DOMAIN journal /\ ReversalAt(i, x)
  BY Positions DEF ExecutionAt, ReversalAt
<1>2. \A i \in DOMAIN journal : i \in DOMAIN journal' /\ journal'[i] = journal[i]
  BY Positions
<1>3. \A x : (Executed(x)' <=> Executed(x)) /\ (Reversed(x)' <=> Reversed(x))
  BY <1>1, <1>2 DEF Executed, Reversed
<1>4. ASSUME NEW x, Executed(x) PROVE ExecutionOf(x)' = ExecutionOf(x)
  <2>1. PICK i \in DOMAIN journal : ExecutionAt(i, x) /\ ExecutionOf(x) = journal[i]
    BY <1>4, ExecutedInJournal
  <2>2. \A j \in DOMAIN journal' : ExecutionAt(j, x)' <=> j = i
    BY <1>1, <1>2, <2>1 DEF JournalInv, Single, ExecutionAt
  <2>3. QED
    BY <1>2, <2>1, <2>2 DEF ExecutionOf
<1>5. \A k : Active(k)' = Active(k)
  BY <1>3, <1>4 DEF Active
<1>6. QED
  BY <1>1, <1>3, <1>4, <1>5

\* Recording an execution under a new id makes it, and nothing else, active.
LEMMA FoldExecution ==
  ASSUME JournalInv, NEW c \in Calls, ~ Executed(c), NEW e \in Event,
         e.event = "execution", e.id = c, journal' = Append(journal, e)
  PROVE  /\ \A x : /\ Executed(x)' <=> (Executed(x) \/ x = c)
                   /\ Reversed(x)' <=> Reversed(x)
                   /\ Executed(x) => ExecutionOf(x)' = ExecutionOf(x)
         /\ ~ Reversed(c) /\ ExecutionOf(c)' = e
         /\ \A k : Active(k)' = Active(k) \cup (IF e.key = k THEN {c} ELSE {})
         /\ Single' => JournalInv'
<1>0. journal \in Seq(Event)
  BY DEF JournalInv
<1>1. \A i \in DOMAIN journal' : \A x :
        /\ ExecutionAt(i, x)' <=> \/ i \in DOMAIN journal /\ ExecutionAt(i, x)
                                  \/ i = Len(journal) + 1 /\ x = c
        /\ ReversalAt(i, x)' <=> i \in DOMAIN journal /\ ReversalAt(i, x)
  BY <1>0, Positions DEF ExecutionAt, ReversalAt
<1>2. \A i \in DOMAIN journal :
        i \in DOMAIN journal' /\ journal'[i] = journal[i] /\ i \in Nat
          /\ i < Len(journal) + 1
  BY <1>0, Positions
<1>3. /\ Len(journal) + 1 \in DOMAIN journal' /\ journal'[Len(journal) + 1] = e
      /\ Len(journal) \in Nat /\ journal' \in Seq(Event)
      /\ \A i \in DOMAIN journal' : i \in DOMAIN journal \/ i = Len(journal) + 1
  BY <1>0, Positions, LenProperties
<1>4. \A x : /\ Executed(x)' <=> (Executed(x) \/ x = c)
             /\ Reversed(x)' <=> Reversed(x)
  BY <1>1, <1>2, <1>3 DEF Executed, Reversed
<1>5. ~ Reversed(c)
  BY DEF Executed, Reversed
<1>6. ASSUME NEW x, Executed(x) PROVE ExecutionOf(x)' = ExecutionOf(x)
  <2>1. PICK i \in DOMAIN journal : ExecutionAt(i, x) /\ ExecutionOf(x) = journal[i]
    BY <1>6, ExecutedInJournal
  <2>2. x # c
    BY <1>6
  <2>3. \A j \in DOMAIN journal' : ExecutionAt(j, x)' <=> j = i
    BY <1>1, <1>2, <2>1, <2>2 DEF JournalInv, Single, ExecutionAt
  <2>4. QED
    BY <1>2, <2>1, <2>3 DEF ExecutionOf
<1>7. ExecutionOf(c)' = e
  <2>1. \A j \in DOMAIN journal' : ExecutionAt(j, c)' <=> j = Len(journal) + 1
    BY <1>1, <1>3 DEF Executed
  <2>2. QED
    BY <1>3, <2>1 DEF ExecutionOf
<1>8. \A k : Active(k)' = Active(k) \cup (IF e.key = k THEN {c} ELSE {})
  BY <1>4, <1>5, <1>6, <1>7 DEF Active
<1>9. Reversals'
  <2>1. ASSUME NEW j \in DOMAIN journal', journal'[j].event = "reversal"
        PROVE  /\ \E i \in DOMAIN journal' : i < j /\ ExecutionAt(i, journal[j].id)'
               /\ j \in DOMAIN journal /\ journal'[j] = journal[j]
               /\ \A l \in DOMAIN journal' : ReversalAt(l, journal[j].id)' => l = j
    <3>1. j \in DOMAIN journal /\ journal'[j] = journal[j]
      BY <1>2, <1>3, <2>1
    <3>2. PICK i \in DOMAIN journal : i < j /\ ExecutionAt(i, journal[j].id)
      BY <2>1, <3>1 DEF JournalInv, Reversals
    <3>3. QED
      BY <1>1, <1>2, <2>1, <3>1, <3>2 DEF JournalInv, Reversals
  <2>2. QED
    BY <2>1 DEF Reversals, ExecutionAt, ReversalAt
<1>10. QED
  BY <1>3, <1>4, <1>5, <1>6, <1>7, <1>8, <1>9 DEF JournalInv

\* Recording a reversal of a live execution retires it, and nothing else.
LEMMA FoldReversal ==
  ASSUME JournalInv, NEW t \in Calls, Executed(t), ~ Reversed(t), NEW e \in Event,
         e.event = "reversal", e.id = t, journal' = Append(journal, e)
  PROVE  /\ \A x : /\ Executed(x)' <=> Executed(x)
                   /\ Reversed(x)' <=> (Reversed(x) \/ x = t)
                   /\ Executed(x) => ExecutionOf(x)' = ExecutionOf(x)
         /\ \A k : Active(k)' = Active(k) \ {t}
         /\ JournalInv' <=> Single'
<1>0. journal \in Seq(Event)
  BY DEF JournalInv
<1>1. \A i \in DOMAIN journal' : \A x :
        /\ ExecutionAt(i, x)' <=> i \in DOMAIN journal /\ ExecutionAt(i, x)
        /\ ReversalAt(i, x)' <=> \/ i \in DOMAIN journal /\ ReversalAt(i, x)
                                 \/ i = Len(journal) + 1 /\ x = t
  BY <1>0, Positions DEF ExecutionAt, ReversalAt
<1>2. \A i \in DOMAIN journal :
        i \in DOMAIN journal' /\ journal'[i] = journal[i] /\ i \in Nat
          /\ i < Len(journal) + 1
  BY <1>0, Positions
<1>3. /\ Len(journal) + 1 \in DOMAIN journal' /\ journal'[Len(journal) + 1] = e
      /\ Len(journal) \in Nat /\ journal' \in Seq(Event)
      /\ \A i \in DOMAIN journal' : i \in DOMAIN journal \/ i = Len(journal) + 1
  BY <1>0, Positions, LenProperties
<1>4. \A x : Executed(x)' <=> Executed(x)
  BY <1>1, <1>2 DEF Executed
<1>5. \A x : Reversed(x)' <=> (Reversed(x) \/ x = t)
  <2>1. PICK i \in DOMAIN journal : ExecutionAt(i, t)
    BY DEF Executed
  <2>2. Reversed(t)'
    BY <1>1, <1>2, <1>3, <2>1 DEF Reversed
  <2>3. \A x : Reversed(x)' => (Reversed(x) \/ x = t)
    BY <1>1 DEF Reversed
  <2>4. \A x : Reversed(x) => Reversed(x)'
    BY <1>1, <1>2 DEF Reversed
  <2>5. QED
    BY <2>2, <2>3, <2>4
<1>6. ASSUME NEW x, Executed(x) PROVE ExecutionOf(x)' = ExecutionOf(x)
  <2>1. PICK i \in DOMAIN journal : ExecutionAt(i, x) /\ ExecutionOf(x) = journal[i]
    BY <1>6, ExecutedInJournal
  <2>2. \A j \in DOMAIN journal' : ExecutionAt(j, x)' <=> j = i
    BY <1>1, <1>2, <2>1 DEF JournalInv, Single, ExecutionAt
  <2>3. QED
    BY <1>2, <2>1, <2>2 DEF ExecutionOf
<1>7. \A k : Active(k)' = Active(k) \ {t}
  BY <1>4, <1>5, <1>6 DEF Active
<1>8. \A i \in DOMAIN journal : ~ ReversalAt(i, t)
  BY DEF JournalInv, Reversals, Reversed, ReversalAt
<1>9. Reversals'
  <2>1. ASSUME NEW j \in DOMAIN journal', NEW x, ReversalAt(j, x)'
        PROVE  /\ \E i \in DOMAIN journal' : i < j /\ ExecutionAt(i, x)'
               /\ \A l \in DOMAIN journal' : ReversalAt(l, x)' => l = j
    <3>1. CASE j \in DOMAIN journal
      <4>1. ReversalAt(j, x) /\ x # t
        BY <1>1, <1>2, <1>8, <2>1, <3>1
      <4>2. /\ \E i \in DOMAIN journal : i < j /\ ExecutionAt(i, x)
            /\ \A l \in DOMAIN journal : ReversalAt(l, x) => l = j
        BY <3>1, <4>1 DEF JournalInv, Reversals, ReversalAt
      <4>3. QED
        BY <1>1, <1>2, <4>1, <4>2
    <3>2. CASE j = Len(journal) + 1
      <4>1. x = t
        BY <1>1, <1>2, <1>3, <2>1, <3>2
      <4>2. PICK i \in DOMAIN journal : ExecutionAt(i, t)
        BY DEF Executed
      <4>3. QED
        BY <1>1, <1>2, <1>8, <3>2, <4>1, <4>2
    <3>3. QED
      BY <1>3, <3>1, <3>2
  <2>2. QED
    BY <2>1 DEF Reversals, ExecutionAt, ReversalAt
<1>10. QED
  BY <1>3, <1>4, <1>5, <1>6, <1>7, <1>9 DEF JournalInv

-----------------------------------------------------------------------------
(* The invariant is inductive.                                             *)

LEMMA IInit == Init => IInv
<1> SUFFICES ASSUME Init PROVE IInv
  OBVIOUS
<1>1. TypeOK
  BY BoundsAssumption DEF Init, TypeOK, Answers, Unlocked
<1>2. HandsTyped /\ LockHeld /\ Checked /\ Witnessed
  BY DEF Init, HandsTyped, LockHeld, Checked, Witnessed, Executing, Reversing, Locked
<1>3. journal = <<>> /\ effects = {}
  BY DEF Init
<1>4. JournalInv
  BY <1>3 DEF JournalInv, Single, Reversals
<1>5. OneActive
  BY <1>3 DEF OneActive, Active, Executed
<1>6. QED
  BY <1>1, <1>2, <1>3, <1>4, <1>5 DEF IInv, EffectsWitnessed

\* Steps that leave the journal and the outside world alone.  What is left to
\* show of them is about the calls.
LEMMA QuietStep ==
  ASSUME IInv, TypeOK', HandsTyped', LockHeld', journal' = journal, effects' = effects,
         \A c \in Calls :
            /\ rec'[c] = rec[c] \/ pc'[c] \notin {"witness", "apply", "record"}
            /\ target'[c] = target[c] \/ pc'[c] \notin {"rwitness", "undo", "rrecord"}
            /\ pc'[c] \in {"apply", "record"} => pc[c] \in {"apply", "record"}
            /\ pc[c] \in {"record", "failed"} => pc'[c] \in {"record", "failed"}
            /\ pc[c] = "done" => pc'[c] = "done"
            /\ pc'[c] \in {"witness", "apply", "record"} =>
                  \/ pc[c] \in {"witness", "apply", "record"}
                  \/ Active(IdempotencyKey(rec[c])) = {}
            /\ pc'[c] \in {"rwitness", "undo", "rrecord"} =>
                  \/ pc[c] \in {"rwitness", "undo", "rrecord"}
                  \/ Executed(target[c]) /\ ~ Reversed(target[c])
  PROVE  IInv'
<1>1. JournalInv'
  <2>1. \A i \in DOMAIN journal : journal[i].id \in Calls
    BY JournalEntries DEF IInv, JournalInv
  <2>2. QED
    BY <2>1 DEF IInv, JournalInv, Single, Reversals, ExecutionAt, ReversalAt
<1>2. Checked'
  <2>1. ASSUME NEW c \in Calls, pc'[c] \in {"witness", "apply", "record"}
        PROVE  Active(IdempotencyKey(rec[c]))' = {}
    <3>1. rec'[c] = rec[c] /\ Active(IdempotencyKey(rec[c])) = {}
      BY <2>1 DEF IInv, Checked
    <3>2. IdempotencyKey(rec[c])' = IdempotencyKey(rec[c])
      BY <3>1 DEF IdempotencyKey
    <3>3. QED
      BY <3>1, <3>2 DEF Active, Executed, Reversed, ExecutionOf, ExecutionAt, ReversalAt
  <2>2. ASSUME NEW c \in Calls, pc'[c] \in {"rwitness", "undo", "rrecord"}
        PROVE  Executed(target[c])' /\ ~ Reversed(target[c])'
    BY <2>2 DEF IInv, Checked, Executed, Reversed, ExecutionAt, ReversalAt
  <2>3. QED
    BY <2>1, <2>2 DEF Checked
<1>3. OneActive'
  BY FoldUnchanged DEF IInv, OneActive
<1>4. Witnessed'
  <2>1. ASSUME NEW c \in Calls, pc'[c] \in {"apply", "record"}
        PROVE  \E i \in DOMAIN journal' :
                  /\ journal'[i].event = "applying" /\ journal'[i].id = c
                  /\ journal'[i].key = IdempotencyKey(rec'[c])
    BY <2>1 DEF IInv, Witnessed
  <2>2. QED
    BY <2>1 DEF Witnessed, IdempotencyKey
<1>5. EffectsWitnessed'
  <2>1. \A e \in effects : e.id \in Calls
    BY DEF IInv, TypeOK
  <2>2. QED
    BY <2>1, FoldUnchanged DEF IInv, EffectsWitnessed
<1>6. QED
  BY <1>1, <1>2, <1>3, <1>4, <1>5 DEF IInv

LEMMA CallsArrive ==
  ASSUME IInv, NEW c \in Calls, Ask(c) PROVE IInv'
<1>1. ASSUME NEW s \in Stores, ExecuteRefused(c, s) PROVE IInv'
  <2>1. TypeOK' /\ HandsTyped' /\ LockHeld'
    BY <1>1 DEF IInv, TypeOK, HandsTyped, LockHeld, ExecuteRefused, Answer, Answers,
       Unlocked, Locked, Executing, Reversing, deploy, local, world
  <2>2. QED
    BY <1>1, <2>1, QuietStep DEF IInv, TypeOK, ExecuteRefused, Answer, local, world
<1>2. ASSUME NEW s \in Stores, ExecuteAsked(c, s) PROVE IInv'
  <2>1. TypeOK' /\ HandsTyped' /\ LockHeld'
    BY <1>2 DEF IInv, TypeOK, HandsTyped, LockHeld, ExecuteAsked, Environments,
       Unlocked, Locked, Executing, Reversing, deploy, world
  <2>2. QED
    BY <1>2, <2>1, QuietStep DEF IInv, TypeOK, ExecuteAsked, world
<1>3. ASSUME NEW x \in Calls, ReverseAsked(c, x) PROVE IInv'
  <2>1. TypeOK' /\ HandsTyped' /\ LockHeld'
    <3>1. CASE environment = "misconfigured"
      BY <1>3, <3>1 DEF IInv, TypeOK, HandsTyped, LockHeld, ReverseAsked, Answer,
         Answers, Unlocked, Locked, Executing, Reversing, deploy, world
    <3>2. CASE environment # "misconfigured"
      <4>1. environment \in Connectors /\ pc[c] = "idle"
        BY <1>3, <3>2 DEF IInv, TypeOK, Environments, ReverseAsked
      <4>2. TypeOK'
        BY <1>3, <3>2, <4>1 DEF IInv, TypeOK, ReverseAsked, Unlocked, deploy, world
      <4>3. HandsTyped' /\ LockHeld'
        BY <1>3, <3>2, <4>1 DEF IInv, TypeOK, HandsTyped, LockHeld, ReverseAsked,
           Locked, Executing, Reversing
      <4>4. QED
        BY <4>2, <4>3
    <3>3. QED
      BY <3>1, <3>2
  <2>2. QED
    BY <1>3, <2>1, QuietStep DEF IInv, TypeOK, ReverseAsked, Answer, world
<1>4. QED
  BY <1>1, <1>2, <1>3 DEF Ask

LEMMA QuietCallSteps ==
  ASSUME IInv, NEW c \in Calls,
         \/ Acquire(c) \/ CheckActive(c) \/ CheckReversible(c) \/ Undo(c)
         \/ FailCall(c) \/ TimeoutAfterUndo(c)
  PROVE  IInv'
<1> USE DEF deploy, local, world
<1>1. CASE Acquire(c)
  <2>1. TypeOK' /\ HandsTyped' /\ LockHeld'
    BY <1>1, NothingAssumption DEF IInv, TypeOK, HandsTyped, LockHeld, Acquire,
       Unlocked, Locked, Executing, Reversing
  <2>2. QED
    BY <1>1, <2>1, QuietStep DEF IInv, TypeOK, Acquire
<1>2. CASE CheckActive(c)
  <2>1. TypeOK' /\ HandsTyped' /\ LockHeld'
    BY <1>2 DEF IInv, TypeOK, HandsTyped, LockHeld, CheckActive, Answer, Answers,
       Unlocked, Locked, Executing, Reversing
  <2>2. QED
    BY <1>2, <2>1, QuietStep DEF IInv, TypeOK, CheckActive, Answer
<1>3. CASE CheckReversible(c)
  <2>1. TypeOK' /\ HandsTyped' /\ LockHeld'
    BY <1>3 DEF IInv, TypeOK, HandsTyped, LockHeld, CheckReversible, Answer, Answers,
       Unlocked, Locked, Executing, Reversing
  <2>2. QED
    BY <1>3, <2>1, QuietStep DEF IInv, TypeOK, CheckReversible, Answer
<1>4. CASE Undo(c) \/ TimeoutAfterUndo(c)
  <2>1. cancelled' \subseteq effects
    BY <1>4 DEF IInv, TypeOK, Undo, TimeoutAfterUndo, Undoes, CancelledBy
  <2>2. TypeOK' /\ HandsTyped' /\ LockHeld'
    <3>1. TypeOK'
      BY <1>4, <2>1 DEF IInv, TypeOK, Undo, TimeoutAfterUndo, Release, Unlocked, Locked
    <3>2. HandsTyped' /\ LockHeld'
      BY <1>4 DEF IInv, TypeOK, HandsTyped, LockHeld, Undo, TimeoutAfterUndo,
         Release, Locked, Executing, Reversing
    <3>3. QED
      BY <3>1, <3>2
  <2>3. QED
    BY <1>4, <2>2, QuietStep DEF IInv, TypeOK, Undo, TimeoutAfterUndo
<1>5. CASE FailCall(c)
  <2>1. TypeOK' /\ HandsTyped' /\ LockHeld'
    BY <1>5 DEF IInv, TypeOK, HandsTyped, LockHeld, FailCall, Release, Unlocked,
       Locked, Executing, Reversing
  <2>2. QED
    BY <1>5, <2>1, QuietStep DEF IInv, TypeOK, FailCall
<1>6. QED
  BY <1>1, <1>2, <1>3, <1>4, <1>5

\* The external call: the delivery is witnessed, and its call has it in hand
\* or has failed.
LEMMA ApplyStep ==
  ASSUME IInv, NEW c \in Calls, Apply(c) \/ TimeoutAfterApply(c)
  PROVE  IInv'
<1> USE DEF deploy, local, world
<1>1. /\ pc[c] = "apply" /\ rec[c] \in Record /\ connector[c] \in Connectors
      /\ IdempotencyKey(rec[c]) \in Keys
      /\ lock = c
  BY DEF Apply, TimeoutAfterApply, IInv, HandsTyped, Executing, IdempotencyKey, Keys,
         Record, LockHeld, Locked
<1>2. /\ journal' = journal /\ rec' = rec /\ target' = target
      /\ pc' = [pc EXCEPT ![c] = pc'[c]] /\ pc'[c] \in {"record", "failed"}
  BY DEF Apply, TimeoutAfterApply, IInv, TypeOK
<1>3. effects' \in {effects, effects \cup {[id |-> c, key |-> IdempotencyKey(rec[c])]}}
  BY DEF Apply, TimeoutAfterApply, Delivers
<1>4. Apply(c) => \E h \in Handle : handle' = [handle EXCEPT ![c] = h]
  <2>1. HandlesFor(c) \subseteq Handle
    BY <1>1 DEF HandlesFor, Handle
  <2>2. QED
    BY <2>1 DEF Apply
<1>5. TypeOK'
  BY <1>1, <1>2, <1>3, <1>4 DEF IInv, TypeOK, Apply, TimeoutAfterApply, Release,
     Unlocked, Locked
<1>6. HandsTyped' /\ LockHeld'
  BY <1>1, <1>2, <1>4 DEF IInv, TypeOK, HandsTyped, LockHeld, Apply,
     TimeoutAfterApply, Release, Executing, Reversing, Locked
<1>7. JournalInv' /\ OneActive'
  <2>1. \A i \in DOMAIN journal : journal[i].event = "execution" => pc'[journal[i].id] = "done"
    BY <1>1, <1>2, JournalEntries DEF IInv, JournalInv, Single, TypeOK
  <2>2. QED
    BY <1>2, <2>1, FoldUnchanged
       DEF IInv, JournalInv, Single, Reversals, ExecutionAt, ReversalAt, OneActive
<1>8. Checked'
  BY <1>1, <1>2, FoldUnchanged DEF IInv, TypeOK, Checked, IdempotencyKey
<1>9. Witnessed'
  <2>1. ASSUME NEW d \in Calls, pc'[d] \in {"apply", "record"}
        PROVE  \E i \in DOMAIN journal : /\ journal[i].event = "applying"
                 /\ journal[i].id = d /\ journal[i].key = IdempotencyKey(rec[d])
    BY <1>1, <1>2, <2>1 DEF IInv, TypeOK, Witnessed
  <2>2. QED
    BY <1>2, <2>1 DEF Witnessed, IdempotencyKey
<1>10. EffectsWitnessed'
  <2>1. PICK i \in DOMAIN journal : /\ journal[i].event = "applying"
           /\ journal[i].id = c /\ journal[i].key = IdempotencyKey(rec[c])
    BY <1>1 DEF IInv, Witnessed
  <2>2. ASSUME NEW e \in effects'
        PROVE  /\ \E j \in DOMAIN journal : /\ journal[j].event = "applying"
                     /\ journal[j].id = e.id /\ journal[j].key = e.key
               /\ ~ Executed(e.id) => pc'[e.id] \in {"record", "failed"}
    <3>1. CASE e \in effects
      BY <1>1, <1>2, <3>1 DEF IInv, TypeOK, EffectsWitnessed
    <3>2. CASE e = [id |-> c, key |-> IdempotencyKey(rec[c])]
      BY <1>2, <2>1, <3>2
    <3>3. QED
      BY <1>3, <3>1, <3>2
  <2>3. QED
    BY <1>2, <2>2, FoldUnchanged DEF EffectsWitnessed
<1>11. QED
  BY <1>5, <1>6, <1>7, <1>8, <1>9, <1>10 DEF IInv

\* A status event, under the lock.
LEMMA WitnessStep ==
  ASSUME IInv, NEW c \in Calls, WitnessApply(c) \/ WitnessReverse(c)
  PROVE  IInv'
<1> USE DEF deploy, local, world
<1>0. JournalInv /\ journal \in Seq(Event) /\ pc \in [Calls -> Unlocked \cup Locked]
  BY DEF IInv, JournalInv, TypeOK
<1>1. PICK e \in Event :
        /\ journal' = Append(journal, e)
        /\ \/ e.event = "applying" /\ e.id = c /\ e.key = IdempotencyKey(rec[c])
              /\ pc[c] = "witness" /\ pc' = [pc EXCEPT ![c] = "apply"]
           \/ e.event = "reversing"
              /\ pc[c] = "rwitness" /\ pc' = [pc EXCEPT ![c] = "undo"]
  <2>1. CASE WitnessApply(c)
    <3>1. ExecutionEvent(c, "applying", NoHandle) \in Event
      BY <2>1 DEF IInv, HandsTyped, WitnessApply, Executing, ExecutionEvent, Event,
         IdempotencyKey, Keys, Record
    <3>2. QED
      BY <2>1, <3>1 DEF WitnessApply, Log, ExecutionEvent
  <2>2. CASE WitnessReverse(c)
    <3>1. PICK i \in DOMAIN journal : ExecutionOf(target[c]) = journal[i]
      BY <1>0, <2>2, ExecutedInJournal DEF IInv, Checked, WitnessReverse
    <3>2. ExecutionOf(target[c]) \in Event
      BY <1>0, <3>1
    <3>3. /\ ReversalEvent(c, "reversing") \in Event
          /\ ReversalEvent(c, "reversing").event = "reversing"
      BY <3>2 DEF ReversalEvent, Event
    <3>4. QED
      BY <2>2, <3>3 DEF WitnessReverse, Log
  <2>3. QED
    BY <2>1, <2>2
<1>2. /\ UNCHANGED <<approved, issued, environment, restarts, lock, rec, connector>>
      /\ UNCHANGED <<target, handle, answer, effects, cancelled>>
  BY DEF WitnessApply, WitnessReverse
<1>3. /\ \A x : /\ Executed(x)' <=> Executed(x)
                /\ Reversed(x)' <=> Reversed(x)
      /\ \A k : Active(k)' = Active(k)
  BY <1>0, <1>1, FoldStatus
<1>4. /\ journal' \in Seq(Event)
      /\ Len(journal) + 1 \in DOMAIN journal'
      /\ journal'[Len(journal) + 1] = e
      /\ \A i \in DOMAIN journal : i \in DOMAIN journal' /\ journal'[i] = journal[i]
      /\ \A i \in DOMAIN journal' : i \in DOMAIN journal \/ i = Len(journal) + 1
  BY <1>0, <1>1, Positions
<1>5. TypeOK'
  BY <1>0, <1>1, <1>2, <1>4 DEF IInv, TypeOK, Unlocked, Locked
<1>6. HandsTyped' /\ LockHeld'
  BY <1>0, <1>1, <1>2 DEF IInv, HandsTyped, LockHeld, Executing, Reversing, Locked
<1>7. JournalInv'
  <2>1. \A i \in DOMAIN journal' : journal'[i].event \in {"execution", "reversal"}
          => i \in DOMAIN journal /\ journal'[i] = journal[i]
    BY <1>1, <1>4
  <2>2. \A i \in DOMAIN journal : journal[i].event = "execution" => pc'[journal[i].id] = "done"
    BY <1>0, <1>1, JournalEntries DEF IInv, JournalInv, Single
  <2>3. Single'
    BY <2>1, <2>2 DEF IInv, JournalInv, Single, ExecutionAt
  <2>4. Reversals'
    BY <1>4, <2>1 DEF IInv, JournalInv, Reversals, ExecutionAt, ReversalAt
  <2>5. QED
    BY <1>4, <2>3, <2>4 DEF JournalInv
<1>8. Checked'
  BY <1>0, <1>1, <1>2, <1>3 DEF IInv, Checked, IdempotencyKey
<1>9. OneActive'
  BY <1>3 DEF IInv, OneActive
<1>10. Witnessed'
  <2>1. ASSUME NEW d \in Calls, pc'[d] \in {"apply", "record"}
        PROVE  \E i \in DOMAIN journal' : /\ journal'[i].event = "applying"
                 /\ journal'[i].id = d /\ journal'[i].key = IdempotencyKey(rec[d])
    <3>1. CASE pc[d] \in {"apply", "record"}
      BY <1>4, <3>1 DEF IInv, Witnessed
    <3>2. CASE pc[d] \notin {"apply", "record"}
      <4>1. d = c /\ e.event = "applying"
        BY <1>0, <1>1, <2>1, <3>2
      <4>2. QED
        BY <1>1, <1>4, <4>1
    <3>3. QED
      BY <3>1, <3>2
  <2>2. QED
    BY <1>2, <2>1 DEF Witnessed, IdempotencyKey
<1>11. EffectsWitnessed'
  <2>1. \A f \in effects : f.id \in Calls
    BY DEF IInv, TypeOK
  <2>2. \A f \in effects : ~ Executed(f.id) => pc'[f.id] \in {"record", "failed"}
    BY <1>0, <1>1, <2>1 DEF IInv, EffectsWitnessed
  <2>3. QED
    BY <1>2, <1>3, <1>4, <2>2 DEF IInv, EffectsWitnessed
<1>12. QED
  BY <1>5, <1>6, <1>7, <1>8, <1>9, <1>10, <1>11 DEF IInv

LEMMA RecordExecutionStep ==
  ASSUME IInv, NEW c \in Calls, RecordExecution(c) PROVE IInv'
<1> USE DEF deploy, local, world
<1>0. /\ JournalInv /\ journal \in Seq(Event) /\ pc \in [Calls -> Unlocked \cup Locked]
      /\ pc[c] = "record" /\ lock = c /\ lock' = NoOne
      /\ pc' = [pc EXCEPT ![c] = "done"]
  BY DEF IInv, JournalInv, TypeOK, LockHeld, Locked, RecordExecution, Answer
<1> DEFINE e == ExecutionEvent(c, "execution", handle[c])
<1>1. /\ e \in Event /\ e.event = "execution" /\ e.id = c
      /\ e.key = IdempotencyKey(rec[c])
  BY <1>0 DEF IInv, HandsTyped, Executing, ExecutionEvent, Event, IdempotencyKey,
     Keys, Record
<1>2. /\ journal' = Append(journal, e)
      /\ UNCHANGED <<approved, issued, environment, restarts, rec, connector>>
      /\ UNCHANGED <<target, handle, effects, cancelled>>
      /\ answer' = [answer EXCEPT ![c] = "created"]
  BY DEF RecordExecution, Log, Answer
<1> HIDE DEF e
<1>3. ~ Executed(c)
  <2>1. \A i \in DOMAIN journal : ExecutionAt(i, c) => pc[c] = "done"
    BY DEF IInv, JournalInv, Single, ExecutionAt
  <2>2. QED
    BY <1>0, <2>1 DEF Executed
<1>4. /\ \A x : /\ Executed(x)' <=> (Executed(x) \/ x = c)
                /\ Reversed(x)' <=> Reversed(x)
      /\ \A k : Active(k)' = Active(k) \cup (IF e.key = k THEN {c} ELSE {})
      /\ Single' => JournalInv'
  BY <1>0, <1>1, <1>2, <1>3, FoldExecution
<1>5. /\ Len(journal) + 1 \in DOMAIN journal'
      /\ journal'[Len(journal) + 1] = e
      /\ \A i \in DOMAIN journal : i \in DOMAIN journal' /\ journal'[i] = journal[i]
      /\ \A i \in DOMAIN journal' : i \in DOMAIN journal \/ i = Len(journal) + 1
      /\ journal' \in Seq(Event)
  BY <1>0, <1>1, <1>2, Positions
<1>6. TypeOK'
  BY <1>0, <1>2, <1>5 DEF IInv, TypeOK, Answers, Unlocked, Locked
<1>7. HandsTyped'
  BY <1>0, <1>2 DEF IInv, HandsTyped, Executing, Reversing
<1>8. \A d \in Calls : pc'[d] \in Locked => FALSE
  BY <1>0 DEF IInv, LockHeld, Locked
<1>9. Single'
  <2>1. \A i \in DOMAIN journal : journal[i].event = "execution" =>
           pc'[journal[i].id] = "done" /\ journal[i].id # c
    BY <1>0, <1>3, JournalEntries DEF IInv, JournalInv, Single, Executed, ExecutionAt
  <2>2. \A i \in DOMAIN journal' : journal'[i].event = "execution" =>
           /\ pc'[journal'[i].id] = "done"
           /\ i \in DOMAIN journal <=> journal'[i].id # c
    BY <1>0, <1>1, <1>5, <2>1
  <2>3. ASSUME NEW i \in DOMAIN journal', NEW j \in DOMAIN journal',
               journal'[i].event = "execution", journal'[j].event = "execution",
               journal'[i].id = journal'[j].id
        PROVE  i = j
    <3>1. CASE journal'[i].id = c
      BY <1>5, <2>2, <2>3, <3>1
    <3>2. CASE journal'[i].id # c
      <4>1. i \in DOMAIN journal /\ j \in DOMAIN journal
        BY <2>2, <2>3, <3>2
      <4>2. QED
        BY <1>5, <2>3, <4>1 DEF IInv, JournalInv, Single, ExecutionAt
    <3>3. QED
      BY <3>1, <3>2
  <2>4. QED
    BY <2>2, <2>3 DEF Single, ExecutionAt
<1>10. LockHeld' /\ Checked' /\ Witnessed'
  BY <1>8 DEF LockHeld, Checked, Witnessed, Locked
<1>11. OneActive'
  <2>1. Active(e.key) = {}
    BY <1>0, <1>1 DEF IInv, Checked
  <2>2. QED
    BY <1>4, <2>1 DEF IInv, OneActive
<1>12. EffectsWitnessed'
  <2>1. \A f \in effects : f.id \in Calls
    BY DEF IInv, TypeOK
  <2>2. \A f \in effects : ~ Executed(f.id) /\ f.id # c => pc'[f.id] \in {"record", "failed"}
    BY <1>0, <2>1 DEF IInv, EffectsWitnessed
  <2>3. QED
    BY <1>2, <1>4, <1>5, <2>2 DEF IInv, EffectsWitnessed
<1>13. QED
  BY <1>4, <1>6, <1>7, <1>9, <1>10, <1>11, <1>12 DEF IInv

LEMMA RecordReversalStep ==
  ASSUME IInv, NEW c \in Calls, RecordReversal(c) PROVE IInv'
<1> USE DEF deploy, local, world
<1>0. /\ JournalInv /\ journal \in Seq(Event) /\ pc \in [Calls -> Unlocked \cup Locked]
      /\ pc[c] = "rrecord" /\ lock = c /\ lock' = NoOne
      /\ pc' = [pc EXCEPT ![c] = "done"]
      /\ target[c] \in Calls /\ Executed(target[c]) /\ ~ Reversed(target[c])
  BY DEF IInv, JournalInv, TypeOK, LockHeld, Locked, RecordReversal, Answer,
         HandsTyped, Reversing, Checked
<1> DEFINE e == ReversalEvent(c, "reversal")
<1>1. e \in Event /\ e.event = "reversal" /\ e.id = target[c]
  <2>1. PICK i \in DOMAIN journal : ExecutionAt(i, target[c])
                                    /\ ExecutionOf(target[c]) = journal[i]
    BY <1>0, ExecutedInJournal
  <2>2. ExecutionOf(target[c]) \in Event /\ ExecutionOf(target[c]).id = target[c]
    BY <1>0, <2>1, JournalEntries DEF ExecutionAt
  <2>3. QED
    BY <2>2 DEF ReversalEvent, Event
<1>2. /\ journal' = Append(journal, e)
      /\ UNCHANGED <<approved, issued, environment, restarts, rec, connector>>
      /\ UNCHANGED <<target, handle, effects, cancelled>>
      /\ answer' = [answer EXCEPT ![c] = "reversed"]
  BY DEF RecordReversal, Log, Answer
<1> HIDE DEF e
<1>3. /\ \A x : /\ Executed(x)' <=> Executed(x)
                /\ Reversed(x)' <=> (Reversed(x) \/ x = target[c])
      /\ \A k : Active(k)' = Active(k) \ {target[c]}
      /\ JournalInv' <=> Single'
  BY <1>0, <1>1, <1>2, FoldReversal
<1>4. /\ \A i \in DOMAIN journal : i \in DOMAIN journal' /\ journal'[i] = journal[i]
      /\ \A i \in DOMAIN journal' : \/ i \in DOMAIN journal
                                     \/ journal'[i] = e
      /\ journal' \in Seq(Event)
  BY <1>0, <1>1, <1>2, Positions
<1>5. TypeOK'
  BY <1>0, <1>2, <1>4 DEF IInv, TypeOK, Answers, Unlocked, Locked
<1>6. HandsTyped'
  BY <1>0, <1>2 DEF IInv, HandsTyped, Executing, Reversing
<1>7. \A d \in Calls : pc'[d] \in Locked => FALSE
  BY <1>0 DEF IInv, LockHeld, Locked
<1>8. Single'
  <2>1. \A i \in DOMAIN journal : journal[i].event = "execution" =>
           pc'[journal[i].id] = "done"
    BY <1>0, JournalEntries DEF IInv, JournalInv, Single
  <2>2. \A i \in DOMAIN journal' : journal'[i].event = "execution" =>
           i \in DOMAIN journal /\ journal'[i] = journal[i]
    BY <1>1, <1>4
  <2>3. QED
    BY <2>1, <2>2 DEF IInv, JournalInv, Single, ExecutionAt
<1>9. LockHeld' /\ Checked' /\ Witnessed'
  BY <1>7 DEF LockHeld, Checked, Witnessed, Locked
<1>10. OneActive'
  BY <1>3 DEF IInv, OneActive
<1>11. EffectsWitnessed'
  <2>1. \A f \in effects : f.id \in Calls
    BY DEF IInv, TypeOK
  <2>2. \A f \in effects : ~ Executed(f.id) => pc'[f.id] \in {"record", "failed"}
    BY <1>0, <2>1 DEF IInv, EffectsWitnessed
  <2>3. QED
    BY <1>2, <1>3, <1>4, <2>2 DEF IInv, EffectsWitnessed
<1>12. QED
  BY <1>3, <1>5, <1>6, <1>8, <1>9, <1>10, <1>11 DEF IInv

LEMMA INext == IInv /\ [Next]_vars => IInv'
<1> SUFFICES ASSUME IInv, [Next]_vars PROVE IInv'
  OBVIOUS
<1>1. ASSUME NEW s \in Stores, NEW a \in Actions, Approve(s, a) PROVE IInv'
  <2>1. issued' \in 1 .. MaxApprovals
    BY <1>1, BoundsAssumption DEF Approve, IInv, TypeOK
  <2>2. TypeOK' /\ HandsTyped' /\ LockHeld'
    BY <1>1, <2>1 DEF IInv, TypeOK, HandsTyped, LockHeld, Approve, Record, local, world
  <2>3. QED
    BY <1>1, <2>2, QuietStep DEF Approve, local, world
<1>2. ASSUME Redeploy PROVE IInv'
  <2>1. TypeOK' /\ HandsTyped' /\ LockHeld'
    BY <1>2, BoundsAssumption DEF IInv, TypeOK, HandsTyped, LockHeld, Redeploy,
       local, world, Unlocked, Locked, Executing, Reversing
  <2>2. QED
    BY <1>2, <2>1, QuietStep DEF IInv, TypeOK, Redeploy, local, world
<1>3. ASSUME UNCHANGED vars PROVE IInv'
  <2>1. TypeOK' /\ HandsTyped' /\ LockHeld'
    BY <1>3 DEF IInv, TypeOK, HandsTyped, LockHeld, vars, deploy, local, world
  <2>2. QED
    BY <1>3, <2>1, QuietStep DEF vars, local, world
<1>4. QED
  BY <1>1, <1>2, <1>3, CallsArrive, QuietCallSteps, ApplyStep, WitnessStep,
     RecordExecutionStep, RecordReversalStep DEF Next, Steady, Failure, Step

-----------------------------------------------------------------------------
(* Theorems.                                                               *)

LEMMA Invariance == Spec => []IInv
BY IInit, INext, PTL DEF Spec

\* Every variable of the execution layer keeps its type.
THEOREM TypeCorrect == Spec => []TypeOK
<1>1. IInv => TypeOK
  BY DEF IInv
<1>2. QED
  BY <1>1, Invariance, PTL

\* The crash witness (execute_recommendation): every delivery has its intent
\* in the journal, and one with no completed execution belongs to a call that
\* is about to record it or has failed.
THEOREM DeliveriesAreWitnessed == Spec => []EffectsWitnessed
<1>1. IInv => EffectsWitnessed
  BY DEF IInv
<1>2. QED
  BY <1>1, Invariance, PTL

\* reverse_execution: a reversal follows its execution and is never repeated.
THEOREM ReversedAtMostOnce == Spec => []ReversedOnce
<1>1. IInv => ReversedOnce
  <2> SUFFICES ASSUME IInv, NEW j \in DOMAIN journal, journal[j].event = "reversal"
               PROVE  /\ \E i \in 1 .. (j - 1) : ExecutionAt(i, journal[j].id)
                      /\ \A l \in DOMAIN journal : ReversalAt(l, journal[j].id) => l = j
    BY DEF ReversedOnce
  <2>1. PICK i \in DOMAIN journal : i < j /\ ExecutionAt(i, journal[j].id)
    BY DEF IInv, JournalInv, Reversals
  <2>2. journal \in Seq(Event)
    BY DEF IInv, JournalInv
  <2>3. i \in 1 .. (j - 1)
    BY <2>1, <2>2
  <2>4. QED
    BY <2>1, <2>3 DEF IInv, JournalInv, Reversals
<1>2. QED
  BY <1>1, Invariance, PTL

-----------------------------------------------------------------------------
(* The journal implements the abstract record of executions.               *)

LEMMA SameFoldSameRecord ==
  ASSUME \A x : Reversed(x)' <=> Reversed(x),
         \A k : Active(k)' = Active(k)
  PROVE  UNCHANGED Promise!vars
BY DEF Promise!vars, LivePairs

LEMMA ExecutionIsExecute ==
  ASSUME IInv, NEW c \in Calls, RecordExecution(c)
  PROVE  Promise!Execute(IdempotencyKey(rec[c]), c)
<1> DEFINE e == ExecutionEvent(c, "execution", handle[c])
           k == IdempotencyKey(rec[c])
<1>1. JournalInv /\ pc[c] = "record" /\ rec[c] \in Record
  BY DEF IInv, RecordExecution, HandsTyped, Executing
<1>2. k \in Keys
  BY <1>1 DEF IdempotencyKey, Keys, Record
<1>3. e \in Event /\ e.event = "execution" /\ e.id = c /\ e.key = k
  BY <1>1, <1>2 DEF IInv, HandsTyped, Executing, ExecutionEvent, Event
<1>4. journal' = Append(journal, e)
  BY DEF RecordExecution, Log
<1> HIDE DEF e, k
<1>5. ~ Executed(c)
  <2>1. \A i \in DOMAIN journal : ExecutionAt(i, c) => pc[c] = "done"
    BY DEF IInv, JournalInv, Single, ExecutionAt
  <2>2. QED
    BY <1>1, <2>1 DEF Executed
<1>6. /\ \A x : Reversed(x)' <=> Reversed(x)
      /\ \A l : Active(l)' = Active(l) \cup (IF e.key = l THEN {c} ELSE {})
      /\ ~ Reversed(c)
  BY <1>1, <1>3, <1>4, <1>5, FoldExecution
<1>7. Active(k) = {}
  BY <1>1 DEF IInv, Checked, k
<1>8. \A p \in LivePairs : p[1] # k /\ p[2] # c
  BY <1>5, <1>7 DEF LivePairs, Active
<1>9. LivePairs' = LivePairs \cup {<<k, c>>}
  BY <1>2, <1>3, <1>6 DEF LivePairs
<1>10. {x \in Calls : Reversed(x)}' = {x \in Calls : Reversed(x)}
  BY <1>6
<1>11. Promise!Execute(k, c)
  BY <1>6, <1>8, <1>9, <1>10 DEF Promise!Execute
<1>12. QED
  BY <1>11 DEF k

LEMMA ReversalIsReverse ==
  ASSUME IInv, NEW c \in Calls, RecordReversal(c)
  PROVE  \E k \in Keys : Promise!Reverse(k, target[c])
<1> DEFINE e == ReversalEvent(c, "reversal")
           x == target[c]
<1>1. JournalInv /\ x \in Calls /\ Executed(x) /\ ~ Reversed(x)
  BY DEF IInv, RecordReversal, HandsTyped, Reversing, Checked
<1>2. PICK i \in DOMAIN journal : ExecutionAt(i, x) /\ ExecutionOf(x) = journal[i]
  BY <1>1, ExecutedInJournal
<1>3. ExecutionOf(x) \in Event /\ ExecutionOf(x).id = x
  BY <1>1, <1>2, JournalEntries DEF ExecutionAt, JournalInv
<1>4. e \in Event /\ e.event = "reversal" /\ e.id = x
  BY <1>3 DEF ReversalEvent, Event
<1>5. journal' = Append(journal, e)
  BY DEF RecordReversal, Log
<1> DEFINE k == ExecutionOf(x).key
<1>6. k \in Keys
  BY <1>3 DEF Event
<1> HIDE DEF e
<1>7. /\ \A y : Reversed(y)' <=> (Reversed(y) \/ y = x)
      /\ \A l : Active(l)' = Active(l) \ {x}
  BY <1>1, <1>4, <1>5, FoldReversal
<1>8. \A l : x \in Active(l) <=> l = k
  BY <1>1 DEF Active
<1> HIDE DEF k
<1>9. <<k, x>> \in LivePairs
  BY <1>1, <1>6, <1>8 DEF LivePairs
<1>10. LivePairs' = LivePairs \ {<<k, x>>}
  <2>1. \A l \in Keys, y \in Calls : y \in Active(l)' <=> (y \in Active(l) /\ <<l, y>> # <<k, x>>)
    BY <1>7, <1>8
  <2>2. QED
    BY <2>1 DEF LivePairs
<1>11. {y \in Calls : Reversed(y)}' = {y \in Calls : Reversed(y)} \cup {x}
  BY <1>1, <1>7
<1>12. Promise!Reverse(k, x)
  BY <1>9, <1>10, <1>11 DEF Promise!Reverse
<1>13. QED
  BY <1>6, <1>12

LEMMA NextKeepsPromise ==
  ASSUME IInv, [Next]_vars PROVE [Promise!Next]_(Promise!vars)
<1>1. ASSUME NEW c \in Calls, RecordExecution(c) PROVE Promise!Next
  <2>1. IdempotencyKey(rec[c]) \in Keys
    BY <1>1 DEF IInv, RecordExecution, HandsTyped, Executing, IdempotencyKey, Keys, Record
  <2>2. QED
    BY <1>1, <2>1, ExecutionIsExecute DEF Promise!Next
<1>2. ASSUME NEW c \in Calls, RecordReversal(c) PROVE Promise!Next
  <2>1. target[c] \in Calls
    BY <1>2 DEF IInv, RecordReversal, HandsTyped, Reversing
  <2>2. QED
    BY <1>2, <2>1, ReversalIsReverse DEF Promise!Next
<1>3. ASSUME journal' = journal PROVE UNCHANGED Promise!vars
  BY <1>3, FoldUnchanged, SameFoldSameRecord
<1>4. ASSUME NEW c \in Calls, WitnessApply(c) \/ WitnessReverse(c)
      PROVE  UNCHANGED Promise!vars
  <2>1. JournalInv /\ journal \in Seq(Event)
    BY DEF IInv, JournalInv
  <2>2. PICK e \in Event : /\ journal' = Append(journal, e)
                           /\ e.event \in {"applying", "reversing"}
    <3>1. CASE WitnessApply(c)
      <4>1. ExecutionEvent(c, "applying", NoHandle) \in Event
        BY <3>1 DEF IInv, HandsTyped, WitnessApply, Executing, ExecutionEvent, Event,
           IdempotencyKey, Keys, Record
      <4>2. QED
        BY <3>1, <4>1 DEF WitnessApply, Log, ExecutionEvent
    <3>2. CASE WitnessReverse(c)
      <4>1. PICK i \in DOMAIN journal : ExecutionOf(target[c]) = journal[i]
        BY <2>1, <3>2, ExecutedInJournal DEF IInv, Checked, WitnessReverse
      <4>2. ExecutionOf(target[c]) \in Event
        BY <2>1, <4>1
      <4>3. /\ ReversalEvent(c, "reversing") \in Event
            /\ ReversalEvent(c, "reversing").event = "reversing"
        BY <4>2 DEF ReversalEvent, Event
      <4>4. QED
        BY <3>2, <4>3 DEF WitnessReverse, Log
    <3>3. QED
      BY <1>4, <3>1, <3>2
  <2>3. QED
    BY <2>1, <2>2, FoldStatus, SameFoldSameRecord
<1>5. ASSUME Next PROVE
        \/ journal' = journal
        \/ \E c \in Calls : \/ WitnessApply(c) \/ WitnessReverse(c)
                            \/ RecordExecution(c) \/ RecordReversal(c)
  BY <1>5 DEF Next, Steady, Failure, Ask, Step, Approve, ExecuteRefused, ExecuteAsked,
     ReverseAsked, Acquire, CheckActive, Apply, CheckReversible, Undo, FailCall,
     TimeoutAfterApply, TimeoutAfterUndo, Redeploy
<1>6. QED
  BY <1>1, <1>2, <1>3, <1>4, <1>5 DEF vars

\* The execution layer implements the abstract record: executions of a key are
\* live one at a time, each is reversed at most once and never live again,
\* whatever races, fails, times out or is redeployed.
THEOREM ExecutionImplementsRecord == Spec => ImplementsRecord
<1>1. Init => Promise!Init
  BY DEF Init, Promise!Init, LivePairs, Active, Executed, Reversed
<1>2. IInv /\ [Next]_vars => [Promise!Next]_(Promise!vars)
  BY NextKeepsPromise
<1>3. QED
  BY <1>1, <1>2, Invariance, PTL DEF Spec, ImplementsRecord, Promise!Spec

-----------------------------------------------------------------------------
(* The journal mirrors the outside world while nothing fails.  The         *)
(* deployment stays, so every call and every journaled execution uses the  *)
(* same connector; a delivery not cancelled is that of a live execution or *)
(* of the call about to record it, and a live execution is missing out     *)
(* there only while a call is about to record its reversal.  A handle that *)
(* names the idempotency key cancels nothing else: one execution is live   *)
(* per key and the call that holds the lock records none.                  *)

Delivery(x, k) == [id |-> x, key |-> k]
InEffect == effects \ cancelled
LiveExecution(x) == Executed(x) /\ ~ Reversed(x)

\* The handle of a delivery is the webhook's and names the delivery or its key.
OwnHandle(h, x, k) == h.connector = "webhook" /\ h.cancels \in {x, k}

OneDeployment ==
    /\ \A c \in Calls : /\ pc[c] # "failed"
                        /\ pc[c] \in Executing \cup Reversing => connector[c] = environment
    /\ \A i \in DOMAIN journal : journal[i].event = "execution" =>
          journal[i].connector = environment
    /\ environment # "webhook" => effects = {}

HandlesOwn ==
    environment = "webhook" =>
       /\ \A c \in Calls : pc[c] = "record" =>
             OwnHandle(handle[c], c, IdempotencyKey(rec[c]))
       /\ \A i \in DOMAIN journal : journal[i].event = "execution" =>
             OwnHandle(journal[i].handle, journal[i].id, journal[i].key)

Mirrored ==
    /\ \A e \in InEffect :
          \/ pc[e.id] = "record" /\ e.key = IdempotencyKey(rec[e.id])
          \/ LiveExecution(e.id) /\ e.key = ExecutionOf(e.id).key
    /\ environment = "webhook" =>
          /\ \A c \in Calls : pc[c] = "record" =>
                Delivery(c, IdempotencyKey(rec[c])) \in InEffect
          /\ \A x \in Calls : LiveExecution(x) =>
                \/ Delivery(x, ExecutionOf(x).key) \in InEffect
                \/ \E c \in Calls : pc[c] = "rrecord" /\ target[c] = x
    /\ \A c \in Calls : pc[c] = "rrecord" => \A e \in InEffect : e.id # target[c]

MirrorInv == IInv /\ OneDeployment /\ HandlesOwn /\ Mirrored

LEMMA MirrorInit == Init => MirrorInv
BY IInit DEF Init, MirrorInv, OneDeployment, HandlesOwn, Mirrored, InEffect,
   LiveExecution, Executed, Executing, Reversing

\* Steps of a call that touch neither the journal nor the outside world.
LEMMA MirrorQuiet ==
  ASSUME MirrorInv, IInv', UNCHANGED <<environment, journal, world>>,
         \A c \in Calls :
            /\ pc'[c] # "failed"
            /\ pc[c] = "record" <=> pc'[c] = "record"
            /\ pc[c] = "rrecord" <=> pc'[c] = "rrecord"
            /\ pc[c] = "record" => rec'[c] = rec[c] /\ handle'[c] = handle[c]
            /\ pc[c] = "rrecord" => target'[c] = target[c]
            /\ pc'[c] \in Executing \cup Reversing => connector'[c] = environment
  PROVE  MirrorInv'
<1>1. effects \in SUBSET [id : Calls, key : Keys]
  BY DEF MirrorInv, IInv, TypeOK
<1>2. \A e \in effects : e.id \in Calls
  BY <1>1
<1>3. OneDeployment'
  BY DEF MirrorInv, OneDeployment, world
<1>4. HandlesOwn'
  BY DEF MirrorInv, HandlesOwn, IdempotencyKey
<1>5. InEffect' = InEffect /\ InEffect \subseteq effects
  BY DEF InEffect, world
<1>6. \A x : /\ LiveExecution(x)' <=> LiveExecution(x)
             /\ ExecutionOf(x)' = ExecutionOf(x)
  BY FoldUnchanged DEF LiveExecution
<1>7. \A c \in Calls : pc[c] = "record" => IdempotencyKey(rec[c])' = IdempotencyKey(rec[c])
  BY DEF IdempotencyKey
<1>8. Mirrored'
  BY <1>2, <1>5, <1>6, <1>7 DEF MirrorInv, Mirrored
<1>9. QED
  BY <1>3, <1>4, <1>8 DEF MirrorInv

\* A call that only moves on, asks or is answered.
LEMMA MirrorMoves ==
  ASSUME MirrorInv, IInv', NEW c \in Calls,
         Ask(c) \/ Acquire(c) \/ CheckActive(c) \/ CheckReversible(c)
  PROVE  MirrorInv'
<1>0. /\ pc \in [Calls -> Unlocked \cup Locked] /\ rec \in [Calls -> Record \cup {NoRec}]
      /\ connector \in [Calls -> Connectors \cup {"none"}]
      /\ target \in [Calls -> Calls \cup {NoOne}] /\ environment \in Environments
      /\ \A d \in Calls : /\ pc[d] # "failed"
                          /\ pc[d] \in Executing \cup Reversing => connector[d] = environment
  BY DEF MirrorInv, IInv, TypeOK, OneDeployment
<1>1. /\ UNCHANGED <<environment, journal, world>>
      /\ handle' = handle
      /\ pc[c] \notin {"record", "rrecord"} /\ pc'[c] \notin {"record", "rrecord", "failed"}
      /\ pc'[c] \in Executing \cup Reversing => connector'[c] = environment
      /\ \A d \in Calls \ {c} : /\ pc'[d] = pc[d] /\ rec'[d] = rec[d]
                                /\ connector'[d] = connector[d] /\ target'[d] = target[d]
  <2>1. CASE Ask(c)
    BY <1>0, <2>1 DEF Ask, ExecuteRefused, ExecuteAsked, ReverseAsked, Answer, deploy,
       local, world, Executing, Reversing
  <2>2. CASE Acquire(c)
    BY <1>0, <2>2 DEF Acquire, deploy, local, world, Executing, Reversing
  <2>3. CASE CheckActive(c) \/ CheckReversible(c)
    BY <1>0, <2>3 DEF CheckActive, CheckReversible, Answer, deploy, local, world,
       Executing, Reversing
  <2>4. QED
    BY <2>1, <2>2, <2>3
<1>2. QED
  BY <1>0, <1>1, MirrorQuiet

\* A status line changes nothing the mirror looks at.
LEMMA MirrorWitness ==
  ASSUME MirrorInv, IInv', NEW c \in Calls, WitnessApply(c) \/ WitnessReverse(c)
  PROVE  MirrorInv'
<1>0. /\ pc \in [Calls -> Unlocked \cup Locked] /\ JournalInv /\ journal \in Seq(Event)
      /\ effects \in SUBSET [id : Calls, key : Keys]
  BY DEF MirrorInv, IInv, TypeOK, JournalInv
<1>1. PICK e \in Event : /\ journal' = Append(journal, e)
                         /\ e.event \in {"applying", "reversing"}
  <2>1. CASE WitnessApply(c)
    <3>1. ExecutionEvent(c, "applying", NoHandle) \in Event
      BY <2>1 DEF MirrorInv, IInv, HandsTyped, WitnessApply, Executing, ExecutionEvent,
         Event, IdempotencyKey, Keys, Record
    <3>2. QED
      BY <2>1, <3>1 DEF WitnessApply, Log, ExecutionEvent
  <2>2. CASE WitnessReverse(c)
    <3>1. PICK i \in DOMAIN journal : ExecutionOf(target[c]) = journal[i]
      BY <1>0, <2>2, ExecutedInJournal DEF MirrorInv, IInv, Checked, WitnessReverse
    <3>2. ExecutionOf(target[c]) \in Event
      BY <1>0, <3>1
    <3>3. /\ ReversalEvent(c, "reversing") \in Event
          /\ ReversalEvent(c, "reversing").event = "reversing"
      BY <3>2 DEF ReversalEvent, Event
    <3>4. QED
      BY <2>2, <3>3 DEF WitnessReverse, Log
  <2>3. QED
    BY <2>1, <2>2
<1>2. /\ UNCHANGED <<environment, local, world>>
      /\ pc' = [pc EXCEPT ![c] = pc'[c]]
      /\ \/ pc[c] = "witness" /\ pc'[c] = "apply"
         \/ pc[c] = "rwitness" /\ pc'[c] = "undo"
  BY <1>0 DEF WitnessApply, WitnessReverse, deploy
<1>3. /\ \A x \in Calls : LiveExecution(x)' <=> LiveExecution(x)
      /\ \A x \in Calls : LiveExecution(x) => ExecutionOf(x)' = ExecutionOf(x)
  BY <1>0, <1>1, FoldStatus DEF LiveExecution
<1>4. \A i \in DOMAIN journal' : journal'[i].event = "execution" =>
         i \in DOMAIN journal /\ journal'[i] = journal[i]
  <2>1. \A i \in DOMAIN journal' : \/ i \in DOMAIN journal /\ journal'[i] = journal[i]
                                   \/ journal'[i] = e
    BY <1>0, <1>1, Positions
  <2>2. QED
    BY <1>1, <2>1
<1>5. \A d \in Calls : /\ pc'[d] = "record" <=> pc[d] = "record"
                       /\ pc'[d] = "rrecord" <=> pc[d] = "rrecord"
                       /\ pc'[d] # "failed"
                       /\ pc'[d] \in Executing \cup Reversing =>
                             pc[d] \in Executing \cup Reversing
  BY <1>0, <1>2 DEF MirrorInv, OneDeployment, Executing, Reversing
<1>6. OneDeployment' /\ HandlesOwn'
  BY <1>2, <1>4, <1>5 DEF MirrorInv, OneDeployment, HandlesOwn, IdempotencyKey, local, world
<1>7. InEffect' = InEffect /\ \A e1 \in InEffect : e1.id \in Calls
  BY <1>0, <1>2 DEF InEffect, world
<1>8. Mirrored'
  BY <1>2, <1>3, <1>5, <1>7 DEF MirrorInv, Mirrored, IdempotencyKey, local
<1>9. QED
  BY <1>6, <1>8 DEF MirrorInv

\* A delivery by the call that will record it.
LEMMA MirrorApply ==
  ASSUME MirrorInv, IInv', NEW c \in Calls, Apply(c)
  PROVE  MirrorInv'
<1>0. /\ pc \in [Calls -> Unlocked \cup Locked] /\ JournalInv
      /\ effects \in SUBSET [id : Calls, key : Keys] /\ cancelled \subseteq effects
      /\ handle \in [Calls -> Handle \cup {NoHandle}]
      /\ pc[c] = "apply" /\ connector[c] = environment /\ lock = c
  BY DEF MirrorInv, IInv, TypeOK, Apply, OneDeployment, Executing, LockHeld, Locked
<1>1. /\ UNCHANGED <<environment, journal, rec, connector, target, cancelled>>
      /\ pc' = [pc EXCEPT ![c] = "record"]
      /\ \A d \in Calls \ {c} : handle'[d] = handle[d]
  BY <1>0 DEF Apply, deploy
<1> DEFINE k == IdempotencyKey(rec[c])
           new == Delivery(c, k)
<1>2. environment = "webhook" => /\ effects' = effects \cup {new}
                                 /\ OwnHandle(handle'[c], c, k)
  BY <1>0 DEF Apply, Delivers, HandlesFor, OwnHandle, Delivery
<1>3. environment # "webhook" => effects' = effects
  BY <1>0 DEF Apply, Delivers
<1>4. \A x \in Calls : /\ LiveExecution(x)' <=> LiveExecution(x)
                       /\ ExecutionOf(x)' = ExecutionOf(x)
  BY <1>1, FoldUnchanged DEF LiveExecution
<1>5. \A e \in effects : e.id \in Calls /\ e.id # c
  <2>1. ~ Executed(c)
    BY <1>0 DEF JournalInv, Single, Executed, ExecutionAt
  <2>2. QED
    BY <1>0, <2>1 DEF MirrorInv, IInv, EffectsWitnessed
<1>6. new.id = c /\ new.key = k
  BY DEF Delivery
<1>7. \A d \in Calls : IdempotencyKey(rec[d])' = IdempotencyKey(rec[d])
  BY <1>1 DEF IdempotencyKey
<1> HIDE DEF new, k
<1>8. IF environment = "webhook" THEN InEffect' = InEffect \cup {new}
                                 ELSE InEffect' = InEffect
  BY <1>0, <1>1, <1>2, <1>3, <1>5, <1>6 DEF InEffect
<1>9. OneDeployment'
  BY <1>0, <1>1, <1>3 DEF MirrorInv, OneDeployment, Executing, Reversing
<1>10. HandlesOwn'
  <2>1. ASSUME environment = "webhook", NEW d \in Calls, pc'[d] = "record"
        PROVE  OwnHandle(handle'[d], d, IdempotencyKey(rec[d]))
    BY <1>0, <1>1, <1>2, <2>1 DEF MirrorInv, HandlesOwn, k
  <2>2. QED
    BY <1>1, <1>7, <2>1 DEF MirrorInv, HandlesOwn
<1>11. Mirrored'
  <2>1. \A d \in Calls : pc'[d] # "rrecord"
    BY <1>0, <1>1 DEF MirrorInv, IInv, LockHeld, Locked
  <2>2. \A d \in Calls \ {c} : pc'[d] # "record"
    BY <1>0, <1>1 DEF MirrorInv, IInv, LockHeld, Locked
  <2>3. pc'[c] = "record" /\ \A d \in Calls : pc[d] \notin {"record", "rrecord"}
    BY <1>0, <1>1 DEF MirrorInv, IInv, LockHeld, Locked
  <2>4. \A e \in InEffect' : \/ e = new /\ environment = "webhook"
                             \/ e \in InEffect
    BY <1>8
  <2>5. \A e \in InEffect : e.id \in Calls
    BY <1>5 DEF InEffect
  <2>6. \A e \in InEffect' :
          \/ pc'[e.id] = "record" /\ e.key = IdempotencyKey(rec[e.id])
          \/ LiveExecution(e.id) /\ e.key = ExecutionOf(e.id).key
    BY <1>6, <2>3, <2>4, <2>5 DEF MirrorInv, Mirrored, k
  <2>7. \A x \in Calls : environment = "webhook" /\ LiveExecution(x) =>
           Delivery(x, ExecutionOf(x).key) \in InEffect'
    BY <1>8, <2>3 DEF MirrorInv, Mirrored
  <2>8. environment = "webhook" => Delivery(c, IdempotencyKey(rec[c])) \in InEffect'
    BY <1>8 DEF new, k
  <2>9. \A e \in InEffect' : e.id \in Calls
    BY <1>6, <2>4, <2>5
  <2>10. QED
    BY <1>1, <1>4, <1>7, <2>1, <2>2, <2>6, <2>7, <2>8, <2>9 DEF Mirrored
<1>12. QED
  BY <1>9, <1>10, <1>11 DEF MirrorInv

\* The completion of the call's delivery makes it the live execution's.
LEMMA MirrorExecution ==
  ASSUME MirrorInv, IInv', NEW c \in Calls, RecordExecution(c)
  PROVE  MirrorInv'
<1> DEFINE e == ExecutionEvent(c, "execution", handle[c])
<1>0. /\ pc \in [Calls -> Unlocked \cup Locked] /\ JournalInv /\ journal \in Seq(Event)
      /\ effects \in SUBSET [id : Calls, key : Keys]
      /\ pc[c] = "record" /\ connector[c] = environment /\ lock = c
      /\ rec[c] \in Record /\ handle[c] \in Handle /\ environment \in Connectors
  BY DEF MirrorInv, IInv, TypeOK, JournalInv, RecordExecution, OneDeployment,
     Executing, LockHeld, Locked, HandsTyped
<1>1. /\ e \in Event /\ e.event = "execution" /\ e.id = c
      /\ e.key = IdempotencyKey(rec[c]) /\ e.connector = environment
      /\ e.handle = handle[c]
  BY <1>0 DEF ExecutionEvent, Event, IdempotencyKey, Keys, Record
<1>2. /\ journal' = Append(journal, e) /\ UNCHANGED <<environment, local, world>>
      /\ pc' = [pc EXCEPT ![c] = "done"]
  BY DEF RecordExecution, Log, Answer, deploy
<1> HIDE DEF e
<1>3. ~ Executed(c)
  BY <1>0 DEF JournalInv, Single, Executed, ExecutionAt
<1>4. /\ \A x : /\ Executed(x)' <=> (Executed(x) \/ x = c)
                /\ Reversed(x)' <=> Reversed(x)
                /\ Executed(x) => ExecutionOf(x)' = ExecutionOf(x)
      /\ ~ Reversed(c) /\ ExecutionOf(c)' = e
  BY <1>0, <1>1, <1>2, <1>3, FoldExecution
<1>5. /\ \A x : LiveExecution(x)' <=> (LiveExecution(x) \/ x = c)
      /\ \A x : LiveExecution(x) => ExecutionOf(x)' = ExecutionOf(x)
      /\ ExecutionOf(c)'.key = IdempotencyKey(rec[c])
  BY <1>1, <1>4 DEF LiveExecution
<1>6. /\ \A d \in Calls : pc'[d] \notin {"record", "rrecord", "failed"}
      /\ \A d \in Calls \ {c} : pc[d] \notin {"record", "rrecord"}
  BY <1>0, <1>2 DEF MirrorInv, IInv, LockHeld, Locked, OneDeployment
<1>7. \A i \in DOMAIN journal' : \/ i \in DOMAIN journal /\ journal'[i] = journal[i]
                                 \/ journal'[i] = e
  BY <1>0, <1>1, <1>2, Positions
<1>8. OneDeployment'
  BY <1>0, <1>1, <1>2, <1>6, <1>7 DEF MirrorInv, OneDeployment, Executing, Reversing,
     local, world
<1>9. HandlesOwn'
  BY <1>0, <1>1, <1>2, <1>6, <1>7 DEF MirrorInv, HandlesOwn
<1>10. InEffect' = InEffect /\ \A f \in InEffect : f.id \in Calls
  BY <1>0, <1>2 DEF InEffect, world
<1>11. Mirrored'
  <2>1. ASSUME NEW f \in InEffect
        PROVE  LiveExecution(f.id)' /\ f.key = ExecutionOf(f.id)'.key
    BY <1>5, <1>6, <1>10, <2>1 DEF MirrorInv, Mirrored
  <2>2. ASSUME NEW x \in Calls, LiveExecution(x)', environment = "webhook"
        PROVE  Delivery(x, ExecutionOf(x)'.key) \in InEffect
    <3>1. CASE x = c
      BY <1>0, <1>5, <2>2, <3>1 DEF MirrorInv, Mirrored
    <3>2. CASE x # c
      BY <1>0, <1>5, <1>6, <2>2, <3>2 DEF MirrorInv, Mirrored
    <3>3. QED
      BY <3>1, <3>2
  <2>3. QED
    BY <1>2, <1>6, <1>10, <2>1, <2>2 DEF Mirrored
<1>12. QED
  BY <1>8, <1>9, <1>11 DEF MirrorInv

\* The cancellation takes away the deliveries of the execution being reversed
\* and no other: whatever the handle names, they are all this execution's.
LEMMA MirrorUndo ==
  ASSUME MirrorInv, IInv', NEW c \in Calls, Undo(c)
  PROVE  MirrorInv'
<1> DEFINE t == target[c]
           h == ExecutionOf(t).handle
<1>0. /\ pc \in [Calls -> Unlocked \cup Locked] /\ JournalInv /\ journal \in Seq(Event)
      /\ effects \in SUBSET [id : Calls, key : Keys] /\ cancelled \subseteq effects
      /\ pc[c] = "undo" /\ connector[c] = environment /\ lock = c
      /\ target[c] \in Calls /\ Executed(t) /\ ~ Reversed(t)
  BY DEF MirrorInv, IInv, TypeOK, JournalInv, Undo, OneDeployment, Reversing,
     LockHeld, Locked, HandsTyped, Checked
<1>1. /\ UNCHANGED <<environment, journal, local, effects>>
      /\ pc' = [pc EXCEPT ![c] = "rrecord"]
  BY DEF Undo, deploy
<1>2. PICK i \in DOMAIN journal : ExecutionAt(i, t) /\ ExecutionOf(t) = journal[i]
  BY <1>0, ExecutedInJournal
<1>3. ExecutionOf(t).id = t /\ ExecutionOf(t).event = "execution"
  BY <1>2 DEF ExecutionAt
<1>4. environment = "webhook" => OwnHandle(h, t, ExecutionOf(t).key)
  BY <1>2, <1>3 DEF MirrorInv, HandlesOwn
<1>5. \A d \in Calls : pc[d] \notin {"record", "rrecord"}
  BY <1>0 DEF MirrorInv, IInv, LockHeld, Locked
<1>6. LiveExecution(t) /\ t \in Calls
  BY <1>0 DEF LiveExecution
<1>7. \A e \in InEffect :
         e.id \in Calls /\ LiveExecution(e.id) /\ e.key = ExecutionOf(e.id).key
  BY <1>0, <1>5 DEF MirrorInv, Mirrored, InEffect
<1>8. \A e \in InEffect : e.key = ExecutionOf(t).key => e.id = t
  <2> SUFFICES ASSUME NEW e \in InEffect, e.key = ExecutionOf(t).key PROVE e.id = t
    OBVIOUS
  <2>1. e.key \in Keys
    BY <1>0 DEF InEffect
  <2>2. e.id \in Active(e.key) /\ t \in Active(e.key)
    BY <1>6, <1>7 DEF Active, LiveExecution
  <2>3. QED
    BY <2>1, <2>2 DEF MirrorInv, IInv, OneActive
<1>9. environment = "webhook" => cancelled' = cancelled \cup CancelledBy(h)
  BY <1>0 DEF Undo, Undoes
<1> HIDE DEF t, h
<1>10. environment = "webhook" =>
          \A e \in InEffect : e \in CancelledBy(h) <=> e.id = t
  <2> SUFFICES ASSUME environment = "webhook", NEW e \in InEffect
               PROVE  e \in CancelledBy(h) <=> e.id = t
    OBVIOUS
  <2>1. e \in effects /\ h.connector = "webhook" /\ h.cancels \in {t, ExecutionOf(t).key}
    BY <1>4 DEF OwnHandle, InEffect
  <2>2. e \in CancelledBy(h) <=> h.cancels \in {e.id, e.key}
    BY <2>1 DEF CancelledBy
  <2>3. e.id \in Calls /\ e.key \in Keys /\ t \in Calls /\ ExecutionOf(t).key \in Keys
    <3>1. ExecutionOf(t) \in Event
      BY <1>0, <1>2
    <3>2. QED
      BY <1>0, <1>6, <2>1, <3>1 DEF Event
  <2>4. e.id # ExecutionOf(t).key /\ e.key # t
    BY <2>3, NothingAssumption
  <2>5. e.id = t => e.key = ExecutionOf(t).key
    BY <1>7
  <2>6. QED
    BY <1>8, <2>1, <2>2, <2>4, <2>5
<1>11. environment # "webhook" => effects = {} /\ cancelled' = cancelled
  BY <1>0 DEF Undo, Undoes, MirrorInv, OneDeployment
<1>12. InEffect' = {e \in InEffect : e.id # t}
  <2>1. CASE environment = "webhook"
    BY <1>1, <1>9, <1>10, <2>1 DEF InEffect
  <2>2. CASE environment # "webhook"
    BY <1>1, <1>11, <2>2 DEF InEffect
  <2>3. QED
    BY <2>1, <2>2
<1>13. \A x \in Calls : /\ LiveExecution(x)' <=> LiveExecution(x)
                        /\ ExecutionOf(x)' = ExecutionOf(x)
  BY <1>1, FoldUnchanged DEF LiveExecution
<1>14. OneDeployment' /\ HandlesOwn'
  BY <1>0, <1>1, <1>5 DEF MirrorInv, OneDeployment, HandlesOwn, Executing, Reversing, local
<1>15. Mirrored'
  <2>1. \A d \in Calls : /\ pc'[d] # "record"
                         /\ pc'[d] = "rrecord" <=> d = c
    BY <1>0, <1>1, <1>5
  <2>2. target'[c] = t
    BY <1>1 DEF local, t
  <2>3. \A x \in Calls : Delivery(x, ExecutionOf(x).key).id = x
    BY DEF Delivery
  <2>4. \A e \in InEffect' : e \in InEffect /\ e.id \in Calls
    BY <1>7, <1>12
  <2>5. \A x \in Calls : environment = "webhook" /\ LiveExecution(x) =>
           Delivery(x, ExecutionOf(x).key) \in InEffect' \/ x = t
    BY <1>5, <1>12, <2>3 DEF MirrorInv, Mirrored
  <2>6. \A e \in InEffect' : e.id # t
    BY <1>12
  <2>7. QED
    BY <1>1, <1>7, <1>13, <2>1, <2>2, <2>4, <2>5, <2>6 DEF Mirrored
<1>16. QED
  BY <1>14, <1>15 DEF MirrorInv

\* The reversal is journaled once the delivery is gone.
LEMMA MirrorReversal ==
  ASSUME MirrorInv, IInv', NEW c \in Calls, RecordReversal(c)
  PROVE  MirrorInv'
<1> DEFINE e == ReversalEvent(c, "reversal")
           t == target[c]
<1>0. /\ pc \in [Calls -> Unlocked \cup Locked] /\ JournalInv /\ journal \in Seq(Event)
      /\ effects \in SUBSET [id : Calls, key : Keys]
      /\ pc[c] = "rrecord" /\ lock = c
      /\ t \in Calls /\ Executed(t) /\ ~ Reversed(t)
  BY DEF MirrorInv, IInv, TypeOK, JournalInv, RecordReversal, Reversing, LockHeld,
     Locked, HandsTyped, Checked
<1>1. e \in Event /\ e.event = "reversal" /\ e.id = t
  <2>1. PICK i \in DOMAIN journal : ExecutionAt(i, t) /\ ExecutionOf(t) = journal[i]
    BY <1>0, ExecutedInJournal
  <2>2. ExecutionOf(t) \in Event /\ ExecutionOf(t).id = t
    BY <1>0, <2>1 DEF ExecutionAt
  <2>3. QED
    BY <2>2 DEF ReversalEvent, Event
<1>2. /\ journal' = Append(journal, e) /\ UNCHANGED <<environment, local, world>>
      /\ pc' = [pc EXCEPT ![c] = "done"]
  BY DEF RecordReversal, Log, Answer, deploy
<1>3. \A f \in InEffect : f.id # t
  BY <1>0 DEF MirrorInv, Mirrored
<1> HIDE DEF e, t
<1>4. /\ \A x : LiveExecution(x)' <=> (LiveExecution(x) /\ x # t)
      /\ \A x : LiveExecution(x) => ExecutionOf(x)' = ExecutionOf(x)
  BY <1>0, <1>1, <1>2, FoldReversal DEF LiveExecution
<1>5. /\ \A d \in Calls : pc'[d] \notin {"record", "rrecord", "failed"}
      /\ \A d \in Calls : pc[d] # "record" /\ (pc[d] = "rrecord" => d = c)
  BY <1>0, <1>2 DEF MirrorInv, IInv, LockHeld, Locked, OneDeployment
<1>6. \A i \in DOMAIN journal' : \/ i \in DOMAIN journal /\ journal'[i] = journal[i]
                                 \/ journal'[i].event = "reversal"
  BY <1>0, <1>1, <1>2, Positions
<1>7. OneDeployment' /\ HandlesOwn'
  BY <1>0, <1>2, <1>5, <1>6 DEF MirrorInv, OneDeployment, HandlesOwn, Executing,
     Reversing, local, world
<1>8. InEffect' = InEffect /\ \A f \in InEffect : f.id \in Calls
  BY <1>0, <1>2 DEF InEffect, world
<1>9. Mirrored'
  <2>1. ASSUME NEW f \in InEffect
        PROVE  LiveExecution(f.id)' /\ f.key = ExecutionOf(f.id)'.key
    BY <1>3, <1>4, <1>5, <1>8, <2>1 DEF MirrorInv, Mirrored
  <2>2. ASSUME NEW x \in Calls, LiveExecution(x)', environment = "webhook"
        PROVE  Delivery(x, ExecutionOf(x)'.key) \in InEffect
    BY <1>4, <1>5, <2>2 DEF MirrorInv, Mirrored, t
  <2>3. QED
    BY <1>2, <1>5, <1>8, <2>1, <2>2 DEF Mirrored
<1>10. QED
  BY <1>7, <1>9 DEF MirrorInv

LEMMA MirrorNext == MirrorInv /\ [Steady]_vars => MirrorInv'
<1> SUFFICES ASSUME MirrorInv, [Steady]_vars PROVE MirrorInv'
  OBVIOUS
<1>1. IInv'
  BY INext DEF MirrorInv, Next
<1>2. ASSUME NEW s \in Stores, NEW a \in Actions, Approve(s, a) PROVE MirrorInv'
  BY <1>1, <1>2, MirrorQuiet DEF Approve, local, world, MirrorInv, OneDeployment
<1>3. ASSUME UNCHANGED vars PROVE MirrorInv'
  BY <1>1, <1>3, MirrorQuiet DEF vars, deploy, local, world, MirrorInv, OneDeployment
<1>4. QED
  BY <1>1, <1>2, <1>3, MirrorMoves, MirrorWitness, MirrorApply, MirrorExecution,
     MirrorUndo, MirrorReversal DEF Steady, Step

\* With nothing failing, what is in effect outside is what the journal says is
\* active through the webhook whenever no call holds the execution lock
\* (execution/connector.py, execute_recommendation and reverse_execution), for
\* any number of calls and approvals and either handle an endpoint may give.
THEOREM JournalIsTheWorld == SteadySpec => []JournalMatchesWorld
<1>1. MirrorInv => JournalMatchesWorld
  <2> SUFFICES ASSUME MirrorInv, lock = NoOne
               PROVE  {e.id : e \in InEffect} = ActiveVia("webhook")
    BY DEF JournalMatchesWorld, InEffect
  <2>1. \A c \in Calls : pc[c] \notin {"record", "rrecord"}
    BY NothingAssumption DEF MirrorInv, IInv, LockHeld, Locked
  <2>2. effects \in SUBSET [id : Calls, key : Keys] /\ JournalInv
    BY DEF MirrorInv, IInv, TypeOK
  <2>3. ASSUME NEW x \in Calls, LiveExecution(x)
        PROVE  ExecutionOf(x).connector = environment
    <3>1. PICK i \in DOMAIN journal : ExecutionAt(i, x) /\ ExecutionOf(x) = journal[i]
      BY <2>2, <2>3, ExecutedInJournal DEF LiveExecution
    <3>2. QED
      BY <3>1 DEF MirrorInv, OneDeployment, ExecutionAt
  <2>4. \A e \in InEffect : e.id \in Calls /\ LiveExecution(e.id) /\ environment = "webhook"
    BY <2>1, <2>2 DEF MirrorInv, Mirrored, OneDeployment, InEffect
  <2>5. ASSUME NEW x \in ActiveVia("webhook")
        PROVE  \E e \in InEffect : e.id = x
    <3>1. x \in Calls /\ LiveExecution(x) /\ environment = "webhook"
      BY <2>3, <2>5 DEF ActiveVia, LiveExecution
    <3>2. Delivery(x, ExecutionOf(x).key) \in InEffect
      BY <2>1, <3>1 DEF MirrorInv, Mirrored
    <3>3. QED
      BY <3>2 DEF Delivery
  <2>6. \A e \in InEffect : e.id \in ActiveVia("webhook")
    BY <2>3, <2>4 DEF ActiveVia, LiveExecution
  <2>7. QED
    BY <2>5, <2>6
<1>2. QED
  BY <1>1, MirrorInit, MirrorNext, PTL DEF SteadySpec

=============================================================================
