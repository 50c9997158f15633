----------------------------- MODULE BoardProofs ----------------------------
(***************************************************************************)
(* The board, for any stores, sweeps, decisions and redeploys: what its     *)
(* rows and its log say of each other, and what it shows of them.           *)
(***************************************************************************)
EXTENDS Board, ServicesProofs

-----------------------------------------------------------------------------
(* Greatest and least.                                                     *)

\* A finite set of integers has a least element, if any.
LEMMA FiniteLeast ==
    ASSUME NEW S, IsFiniteSet(S), S \subseteq Int, S # {}
    PROVE  \E m \in S : \A n \in S : m <= n
<1>. DEFINE Good == {T \in SUBSET S : T = {} \/ \E m \in T : \A n \in T : m <= n}
<1>1. {} \in Good
  OBVIOUS
<1>2. ASSUME NEW T \in SUBSET S, NEW x \in S \ T, T \in Good PROVE T \cup {x} \in Good
  <2>0. \A n \in T : n \in Int
    OBVIOUS
  <2>1. CASE T = {}
    BY <2>1
  <2>2. CASE T # {}
    <3>1. PICK m \in T : \A n \in T : m <= n
      BY <1>2, <2>2
    <3>2. m \in Int /\ x \in Int
      OBVIOUS
    <3>3. CASE m <= x
      BY <3>1, <3>2, <3>3
    <3>4. CASE x < m
      <4>1. \A n \in T \cup {x} : x <= n
        BY <2>0, <3>1, <3>2, <3>4
      <4>. QED  BY <4>1
    <3>. QED  BY <3>2, <3>3, <3>4
  <2>. QED  BY <2>1, <2>2
<1>. HIDE DEF Good
<1>3. S \in Good
  BY <1>1, <1>2, SetInduct
<1>. QED  BY <1>3 DEF Good

\* A set of positions of a sequence has a last one.
LEMMA LastPosition ==
    ASSUME NEW n \in Nat, NEW T \in SUBSET (1 .. n), T # {}
    PROVE  \E m \in T : \A k \in T : k <= m
<1>. DEFINE U == {n - k : k \in T}
<1>1. U \in SUBSET Nat /\ U # {}
  <2>1. ASSUME NEW k \in T PROVE n - k \in Nat
    OBVIOUS
  <2>. QED  BY <2>1
<1>2. PICK u \in U : \A v \in U : u <= v
  BY <1>1, LeastElement
<1>3. PICK m \in T : u = n - m
  OBVIOUS
<1>4. \A k \in T : n - m <= n - k
  BY <1>2, <1>3
<1>. QED  BY <1>4

-----------------------------------------------------------------------------
(***************************************************************************)
(* What the board's durable objects keep through any sweeps, decisions and  *)
(* redeploys.  Whatever is a row, or was popped, was logged before, as the  *)
(* sweep's snapshots say; a store has at most one row.                     *)
(***************************************************************************)

Kept == {r \in BoardRec : /\ r.store \in Stores
                          /\ r.gated => r.action \in Gated
                          /\ r.signal \/ Unscored(r)}

\* The log has the record, but for flag and verdict; it has one of the store.
Logged(r) == \E i \in DOMAIN log : RecommendationId(log[i]) = RecommendationId(r)
LogHas(s) == \E i \in DOMAIN log : log[i].store = s
HasRow(s) == \E r \in rows : r.store = s
IsPopped(s) == popped # NoRecord /\ popped.store = s

ItemRec == [rec : Kept, logged : BOOLEAN, decided : BOOLEAN]

ObjectsTyped ==
    /\ log \in Seq(Kept)
    /\ rows \subseteq Kept /\ IsFiniteSet(rows)
    /\ \A a, b \in rows : a.store = b.store => a = b
    /\ popped \in Kept \cup {NoRecord}
    /\ redeploys \in 0 .. MaxRedeploys
    /\ ever \subseteq Stores

SweepTyped ==
    \/ sweep = NoSweep
    \/ /\ sweep \in [phase : {"log", "row"}, todo : SUBSET ItemRec]
       /\ IsFiniteSet(sweep.todo) /\ sweep.todo # {}
       /\ \A a, b \in sweep.todo : a.rec.store = b.rec.store => a = b
       /\ \A a \in sweep.todo : a.rec.decision = "none"

SnapshotsHold ==
    /\ \A a \in sweep.todo : a.logged => Logged(a.rec)
    /\ sweep.phase = "row" => Logged(Item.rec)

RowsLogged ==
    redeploys = 0 => /\ \A r \in rows : Logged(r)
                     /\ popped # NoRecord => Logged(popped)

\* Until a redeploy, a store that was evaluated is in the log, and has its row unless
\* a request took it.
EverKept ==
    redeploys = 0 =>
        /\ \A r \in rows : r.store \in ever
        /\ \A s \in Stores : IsPopped(s) => s \in ever
        /\ \A i \in DOMAIN log : Decided(log[i]) => log[i].store \in ever
        /\ \A a \in sweep.todo : a.decided => a.rec.store \in ever
        /\ \A s \in ever : LogHas(s) /\ (s \in gone \/ HasRow(s) \/ IsPopped(s))

\* One redeploy loses one copy at most.
EverFound == redeploys <= 1 => \A s \in ever \ gone : LogHas(s) \/ HasRow(s) \/ IsPopped(s)

BoardInv == /\ ObjectsTyped /\ SweepTyped /\ SnapshotsHold
            /\ RowsLogged /\ EverKept /\ EverFound

LEMMA LogPositions ==
    ASSUME NEW lg \in Seq(Kept)
    PROVE  /\ DOMAIN lg = 1 .. Len(lg) /\ Len(lg) \in Nat
           /\ \A i \in DOMAIN lg : lg[i] \in Kept
<1>. HIDE DEF Kept
<1>. QED  OBVIOUS

LEMMA LogGrowsByOne ==
    ASSUME NEW lg \in Seq(Kept), NEW r \in Kept
    PROVE  /\ Append(lg, r) \in Seq(Kept)
           /\ DOMAIN Append(lg, r) = DOMAIN lg \cup {Len(lg) + 1}
           /\ Append(lg, r)[Len(lg) + 1] = r
           /\ \A i \in DOMAIN lg : Append(lg, r)[i] = lg[i]
<1>. HIDE DEF Kept
<1>. QED  OBVIOUS

LEMMA NotARecord == NoRecord \notin Kept
BY BoardAssumption DEF Kept

\* latest_by_store finds the last record of a store, if it has one.
LEMMA LastLoggedIs ==
    ASSUME log \in Seq(Kept), NEW s
    PROVE  /\ ~LogHas(s) => LastLogged(s) = NoRecord
           /\ LogHas(s) => \E i \in DOMAIN log : /\ LastLogged(s) = log[i] /\ log[i].store = s
                                                /\ \A j \in DOMAIN log : log[j].store = s => j <= i
<1>. DEFINE at == {i \in DOMAIN log : log[i].store = s}
<1>1. LastLogged(s) = IF at = {} THEN NoRecord ELSE log[CHOOSE i \in at : \A j \in at : j <= i]
  BY DEF LastLogged
<1>2. at = {} <=> ~LogHas(s)
  BY DEF LogHas
<1>3. ASSUME at # {}
      PROVE  \E i \in at : \A j \in at : j <= i
  <2>1. at \in SUBSET (1 .. Len(log)) /\ Len(log) \in Nat
    BY LogPositions
  <2>. QED  BY <1>3, <2>1, LastPosition
<1>4. at # {} => (CHOOSE i \in at : \A j \in at : j <= i) \in at
                 /\ \A j \in at : j <= (CHOOSE i \in at : \A j2 \in at : j2 <= i)
  BY <1>3
<1>. QED  BY <1>1, <1>2, <1>4

LEMMA LastLoggedFound ==
    ASSUME log \in Seq(Kept), NEW s
    PROVE  LastLogged(s) # NoRecord <=> LogHas(s)
<1>1. \A i \in DOMAIN log : log[i] # NoRecord
  BY LogPositions, NotARecord
<1>. QED  BY <1>1, LastLoggedIs

LEMMA RowOfIs ==
    ASSUME rows \subseteq Kept, NEW s
    PROVE  /\ ~HasRow(s) => RowOf(s) = NoRecord
           /\ HasRow(s) => RowOf(s) \in rows /\ RowOf(s).store = s /\ RowOf(s) # NoRecord
<1>1. Of(rows, s) = {} <=> ~HasRow(s)
  BY DEF Of, HasRow
<1>2. Of(rows, s) # {} => RowOf(s) \in Of(rows, s)
  BY DEF RowOf
<1>. QED  BY <1>1, <1>2, NotARecord DEF RowOf, Of

LEMMA SameIdSameStore ==
    ASSUME NEW a \in Kept, NEW b \in Kept, RecommendationId(a) = RecommendationId(b)
    PROVE  a.store = b.store
<1>1. RecommendationId(a).store = a.store /\ RecommendationId(b).store = b.store
  BY DEF RecommendationId, Kept, BoardRec
<1>. QED  BY <1>1

\* The item a sweep works on is one of those that remain.
LEMMA ItemIsTodo ==
    ASSUME SweepTyped, sweep # NoSweep
    PROVE  Item \in sweep.todo
<1>1. /\ sweep.todo \subseteq ItemRec /\ IsFiniteSet(sweep.todo) /\ sweep.todo # {}
  BY DEF SweepTyped
<1>. DEFINE numbers == {a.rec.store : a \in sweep.todo}
<1>2. IsFiniteSet(numbers)
  <2>. DEFINE f == [a \in sweep.todo |-> a.rec.store]
  <2>1. numbers = {f[a] : a \in sweep.todo}
    OBVIOUS
  <2>. HIDE DEF f, numbers
  <2>. QED  BY <1>1, <2>1, ValuesFinite
<1>3. numbers \subseteq Int /\ numbers # {}
  <2>1. \A a \in sweep.todo : a.rec \in Kept
    BY <1>1 DEF ItemRec
  <2>. QED  BY <1>1, <2>1 DEF Kept, BoardRec
<1>4. PICK m \in numbers : \A n \in numbers : m <= n
  BY <1>2, <1>3, FiniteLeast
<1>5. \E a \in sweep.todo : \A other \in sweep.todo : a.rec.store <= other.rec.store
  BY <1>4
<1>. QED  BY <1>5 DEF Item

\* What a record of a sweep, or of the old log, is.
LEMMA RecordKept ==
    ASSUME NEW s \in Stores, NEW c \in Content, c.signal \/ Unscored(c),
           NEW flag \in BOOLEAN, flag => c.action \in Gated
    PROVE  /\ Record(s, c, flag, "none") \in Kept
           /\ Record(s, c, flag, "none").store = s /\ Record(s, c, flag, "none").decision = "none"
<1>1. s \in Int /\ "none" \in Verdicts
  BY BoardAssumption DEF Verdicts
<1>2. Record(s, c, flag, "none") \in BoardRec
  BY <1>1 DEF Record, BoardRec, Content
<1>. QED  BY <1>2 DEF Record, Kept, Unscored

\* The rows a start-up makes of the log.
LEMMA BackfillKept ==
    ASSUME log \in Seq(Kept)
    PROVE  /\ BackfilledRows \subseteq Kept /\ IsFiniteSet(BackfilledRows)
           /\ \A a, b \in BackfilledRows : a.store = b.store => a = b
           /\ \A r \in BackfilledRows : Logged(r) /\ r \in LogSet
           /\ \A i \in DOMAIN log : \E r \in BackfilledRows : r.store = log[i].store
<1>1. \A r \in BackfilledRows : \E s \in Stores : r = LastLogged(s) /\ r # NoRecord
  BY DEF BackfilledRows
<1>2. \A s : LastLogged(s) # NoRecord =>
         \E i \in DOMAIN log : LastLogged(s) = log[i] /\ log[i].store = s
  BY LastLoggedIs
<1>3. \A i \in DOMAIN log : log[i] \in Kept
  BY LogPositions
<1>4. IsFiniteSet(BackfilledRows)
  <2>. DEFINE lasts == {LastLogged(s) : s \in Stores}
  <2>1. IsFiniteSet(lasts)
    <3>. DEFINE f == [s \in Stores |-> LastLogged(s)]
    <3>1. lasts = {f[s] : s \in Stores}
      OBVIOUS
    <3>. HIDE DEF f, lasts
    <3>. QED  BY <3>1, BoardAssumption, ValuesFinite
  <2>2. BackfilledRows \subseteq lasts
    BY DEF BackfilledRows
  <2>. QED  BY <2>1, <2>2, FS_Subset
<1>5. ASSUME NEW i \in DOMAIN log
      PROVE  \E r \in BackfilledRows : r.store = log[i].store
  <2>1. log[i].store \in Stores /\ LogHas(log[i].store)
    BY <1>3 DEF Kept, LogHas
  <2>2. LastLogged(log[i].store) # NoRecord
    BY <2>1, LastLoggedFound
  <2>3. LastLogged(log[i].store) \in BackfilledRows
    BY <2>1, <2>2 DEF BackfilledRows
  <2>. QED  BY <1>2, <2>2, <2>3
<1>6. \A r \in BackfilledRows : \E s \in Stores : r = LastLogged(s) /\ r.store = s
                                    /\ \E i \in DOMAIN log : r = log[i]
  BY <1>1, <1>2
<1>. HIDE DEF Kept
<1>. QED  BY <1>3, <1>4, <1>5, <1>6 DEF Logged, LogSet

\* What putting a record back makes of the rows.
LEMMA UpsertKept ==
    ASSUME ObjectsTyped, NEW r \in Kept
    PROVE  /\ Upsert(r) \subseteq Kept /\ IsFiniteSet(Upsert(r))
           /\ \A a, b \in Upsert(r) : a.store = b.store => a = b
           /\ \A a \in Upsert(r) : a = r \/ a \in rows
           /\ \A s : HasRow(s) \/ s = r.store => \E a \in Upsert(r) : a.store = s
<1>1. CASE Decided(RowOf(r.store))
  <2>1. Upsert(r) = rows
    BY <1>1 DEF Upsert
  <2>2. HasRow(r.store)
    BY <1>1, RowOfIs DEF ObjectsTyped, Decided
  <2>. QED  BY <2>1, <2>2 DEF ObjectsTyped, HasRow
<1>2. CASE ~Decided(RowOf(r.store))
  <2>1. Upsert(r) = (rows \ Of(rows, r.store)) \cup {r}
    BY <1>2 DEF Upsert
  <2>2. \A a \in Upsert(r) : a = r \/ (a \in rows /\ a.store # r.store)
    BY <2>1 DEF Of
  <2>3. IsFiniteSet(rows \ Of(rows, r.store))
    BY FS_Subset DEF ObjectsTyped
  <2>4. IsFiniteSet(Upsert(r))
    BY <2>1, <2>3, FS_AddElement
  <2>5. \A s : HasRow(s) \/ s = r.store => \E a \in Upsert(r) : a.store = s
    BY <2>1 DEF HasRow, Of
  <2>. QED  BY <2>2, <2>4, <2>5 DEF ObjectsTyped
<1>. QED  BY <1>1, <1>2

-----------------------------------------------------------------------------
(* The steps.                                                              *)

LEMMA BoardInitInv == BoardInit => BoardInv
<1>. SUFFICES ASSUME BoardInit PROVE BoardInv
  OBVIOUS
<1>1. log \in Seq(Kept) /\ \A i \in DOMAIN log : log[i].decision = "none"
  <2>1. CASE log = <<>>
    BY <2>1
  <2>2. CASE log # <<>>
    <3>1. PICK s \in Stores, c \in Legacy : log = <<Record(s, c, FALSE, "none")>>
      BY <2>2 DEF BoardInit
    <3>2. c \in Content /\ (c.signal \/ Unscored(c))
      BY BoardAssumption
    <3>3. Record(s, c, FALSE, "none") \in Kept /\ Record(s, c, FALSE, "none").decision = "none"
      BY <3>2, RecordKept
    <3>4. \A x : x \in Kept => /\ <<x>> \in Seq(Kept) /\ \A i \in DOMAIN <<x>> : <<x>>[i] = x
      <4>. HIDE DEF Kept
      <4>. QED  OBVIOUS
    <3>. QED  BY ONLY <3>1, <3>3, <3>4
  <2>. QED  BY <2>1, <2>2
<1>2. /\ rows \subseteq Kept /\ IsFiniteSet(rows)
      /\ \A a, b \in rows : a.store = b.store => a = b
      /\ \A r \in rows : Logged(r) /\ r \in LogSet
      /\ \A i \in DOMAIN log : \E r \in rows : r.store = log[i].store
  BY <1>1, BackfillKept DEF BoardInit
<1>3. sweep = NoSweep /\ popped = NoRecord /\ redeploys = 0 /\ gone = {}
      /\ ever = {r.store : r \in rows}
  BY DEF BoardInit
<1>4. ObjectsTyped
  <2>1. ever \subseteq Stores
    BY <1>2, <1>3 DEF Kept
  <2>2. redeploys \in 0 .. MaxRedeploys
    BY <1>3, BoardAssumption
  <2>. QED  BY <1>1, <1>2, <1>3, <2>1, <2>2 DEF ObjectsTyped
<1>5. sweep.todo = {} /\ sweep.phase = "idle"
  BY <1>3 DEF NoSweep
<1>6. \A i \in DOMAIN log : ~Decided(log[i])
  BY <1>1 DEF Decided
<1>7. \A s \in ever : LogHas(s) /\ HasRow(s)
  BY <1>2, <1>3 DEF LogHas, HasRow, LogSet
<1>8. \A s \in Stores : ~IsPopped(s)
  BY <1>3 DEF IsPopped
<1>. QED  BY <1>2, <1>3, <1>4, <1>5, <1>6, <1>7, <1>8
          DEF BoardInv, SweepTyped, SnapshotsHold, RowsLogged, EverKept, EverFound

\* A step that leaves the log and the sweep alone leaves the sweep's snapshots true.
LEMMA QuietSweep ==
    ASSUME SweepTyped, SnapshotsHold, UNCHANGED <<log, sweep>>
    PROVE  SweepTyped' /\ SnapshotsHold'
<1>1. \A a : Logged(a)' <=> Logged(a)
  BY DEF Logged
<1>2. Item' = Item
  BY DEF Item
<1>. QED  BY <1>1, <1>2 DEF SweepTyped, SnapshotsHold, NoSweep

\* What a log that grows still has.
LEMMA GrownLog ==
    ASSUME log \in Seq(Kept), NEW r \in Kept, log' = Append(log, r)
    PROVE  /\ log' \in Seq(Kept)
           /\ Logged(r)'
           /\ \A a : Logged(a) => Logged(a)'
           /\ \A s : LogHas(s) => LogHas(s)'
           /\ \A i \in DOMAIN log' : log'[i] = r \/ \E j \in DOMAIN log : log'[i] = log[j]
<1>1. /\ Append(log, r) \in Seq(Kept)
      /\ DOMAIN log' = DOMAIN log \cup {Len(log) + 1}
      /\ log'[Len(log) + 1] = r
      /\ \A i \in DOMAIN log : log'[i] = log[i]
  BY LogGrowsByOne
<1>2. Logged(r)'
  BY <1>1 DEF Logged
<1>3. \A a : Logged(a) => Logged(a)'
  BY <1>1 DEF Logged
<1>4. \A s : LogHas(s) => LogHas(s)'
  BY <1>1 DEF LogHas
<1>. HIDE DEF Kept
<1>. QED  BY <1>1, <1>2, <1>3, <1>4

LEMMA StartSweepKeepsInv ==
    ASSUME BoardInv, StartSweep
    PROVE  BoardInv'
<1>1. UNCHANGED <<log, rows, popped, redeploys, ever, gone>>
  BY DEF StartSweep
<1>2. PICK result \in Batches :
        LET records == {Evaluated(s, result[s]) : s \in Stores}
            logged == {RecommendationId(rec) : rec \in LogSet}
        IN sweep' = [phase |-> "log",
                     todo |-> {[rec |-> rec, logged |-> RecommendationId(rec) \in logged,
                                decided |-> \E r \in Of(LogSet \cup rows, rec.store) : Decided(r)] :
                                 rec \in records}]
  BY DEF StartSweep
<1>. DEFINE records == {Evaluated(s, result[s]) : s \in Stores}
            logged == {RecommendationId(rec) : rec \in LogSet}
            ItemOf(rec) == [rec |-> rec, logged |-> RecommendationId(rec) \in logged,
                            decided |-> \E r \in Of(LogSet \cup rows, rec.store) : Decided(r)]
            todos == {ItemOf(rec) : rec \in records}
<1>3. \A s \in Stores : /\ Evaluated(s, result[s]) \in Kept
                        /\ Evaluated(s, result[s]).store = s
                        /\ Evaluated(s, result[s]).decision = "none"
  <2>. SUFFICES ASSUME NEW s \in Stores
                PROVE  /\ Evaluated(s, result[s]) \in Kept
                       /\ Evaluated(s, result[s]).store = s
                       /\ Evaluated(s, result[s]).decision = "none"
    OBVIOUS
  <2>1. result[s] \in Content /\ (result[s].signal \/ Unscored(result[s]))
    BY BoardAssumption
  <2>2. (result[s].action \in Gated) \in BOOLEAN
    OBVIOUS
  <2>. QED  BY <2>1, <2>2, RecordKept DEF Evaluated
<1>4. sweep' = [phase |-> "log", todo |-> todos]
  BY <1>2
<1>5. IsFiniteSet(todos)
  <2>. DEFINE f == [s \in Stores |-> ItemOf(Evaluated(s, result[s]))]
  <2>1. todos = {f[s] : s \in Stores}
    OBVIOUS
  <2>. HIDE DEF f, todos
  <2>. QED  BY <2>1, BoardAssumption, ValuesFinite
<1>6. \A a \in todos : \E s \in Stores : a = ItemOf(Evaluated(s, result[s])) /\ a.rec = Evaluated(s, result[s])
  OBVIOUS
<1>7. \A a \in todos : /\ a.rec \in Kept /\ a.logged \in BOOLEAN /\ a.decided \in BOOLEAN
                       /\ a \in ItemRec /\ a.rec.decision = "none"
                       /\ a = ItemOf(a.rec)
  <2>1. \A rec \in records : rec \in Kept /\ rec.decision = "none"
    BY <1>3
  <2>. HIDE DEF records
  <2>2. ASSUME NEW rec \in records
        PROVE  /\ ItemOf(rec).rec = rec /\ ItemOf(rec).logged \in BOOLEAN
               /\ ItemOf(rec).decided \in BOOLEAN /\ ItemOf(rec) \in ItemRec
    BY <2>1 DEF ItemRec
  <2>3. \A a \in todos : \E rec \in records : a = ItemOf(rec)
    OBVIOUS
  <2>. HIDE DEF ItemOf
  <2>. QED  BY <2>1, <2>2, <2>3
<1>8. \A a, b \in todos : a.rec.store = b.rec.store => a = b
  <2>. SUFFICES ASSUME NEW a \in todos, NEW b \in todos, a.rec.store = b.rec.store
                PROVE  a = b
    OBVIOUS
  <2>1. PICK s1 \in Stores : a = ItemOf(Evaluated(s1, result[s1])) /\ a.rec = Evaluated(s1, result[s1])
    BY <1>6
  <2>2. PICK s2 \in Stores : b = ItemOf(Evaluated(s2, result[s2])) /\ b.rec = Evaluated(s2, result[s2])
    BY <1>6
  <2>3. s1 = s2
    BY <1>3, <2>1, <2>2
  <2>. QED  BY <2>1, <2>2, <2>3
<1>9. \A a \in todos : a.logged => Logged(a.rec)
  <2>. SUFFICES ASSUME NEW a \in todos, a.logged PROVE Logged(a.rec)
    OBVIOUS
  <2>1. RecommendationId(a.rec) \in logged
    BY <1>7
  <2>. QED  BY <2>1 DEF LogSet, Logged
<1>10. \A a \in todos : a.decided => \E r \in LogSet \cup rows : r.store = a.rec.store /\ Decided(r)
  BY <1>7 DEF Of
<1>. HIDE DEF todos
<1>11. sweep'.phase = "log" /\ sweep'.todo = todos
  BY <1>4
<1>12. ObjectsTyped'
  BY <1>1 DEF BoardInv, ObjectsTyped
<1>13. SnapshotsHold'
  <2>1. \A a : Logged(a)' <=> Logged(a)
    BY <1>1 DEF Logged
  <2>. QED  BY <1>9, <1>11, <2>1 DEF SnapshotsHold
<1>14. RowsLogged' /\ EverFound'
  BY <1>1 DEF BoardInv, RowsLogged, EverFound, Logged, LogHas, HasRow, IsPopped
<1>15. EverKept'
  <2>. SUFFICES ASSUME redeploys = 0 PROVE EverKept'
    BY <1>1 DEF EverKept
  <2>1. \A a \in todos : a.decided => a.rec.store \in ever
    <3>1. \A r \in LogSet : Decided(r) => r.store \in ever
      BY DEF LogSet, BoardInv, EverKept
    <3>. QED  BY <1>10, <3>1 DEF BoardInv, EverKept
  <2>. QED  BY <1>1, <1>11, <2>1 DEF BoardInv, EverKept, LogHas, HasRow, IsPopped
<1>16. todos # {}
  <2>1. PICK s \in Stores : TRUE
    BY BoardAssumption
  <2>2. Evaluated(s, result[s]) \in records
    OBVIOUS
  <2>. HIDE DEF records
  <2>3. ItemOf(Evaluated(s, result[s])) \in todos
    BY <2>2 DEF todos
  <2>. QED  BY <2>3
<1>17. SweepTyped'
  BY <1>4, <1>5, <1>7, <1>8, <1>11, <1>16 DEF SweepTyped
<1>. QED  BY <1>12, <1>13, <1>14, <1>15, <1>17 DEF BoardInv

LEMMA LogRecordKeepsInv ==
    ASSUME BoardInv, LogRecord
    PROVE  BoardInv'
<1>1. /\ sweep.phase = "log" /\ sweep' = [sweep EXCEPT !.phase = "row"]
      /\ log' = IF Item.logged THEN log ELSE Append(log, Item.rec)
      /\ UNCHANGED <<rows, popped, redeploys, ever, gone>>
  BY DEF LogRecord
<1>2. sweep # NoSweep
  BY <1>1 DEF NoSweep
<1>3. /\ sweep \in [phase : {"log", "row"}, todo : SUBSET ItemRec]
      /\ sweep'.phase = "row" /\ sweep'.todo = sweep.todo
      /\ sweep' \in [phase : {"log", "row"}, todo : SUBSET ItemRec]
  BY <1>1, <1>2 DEF BoardInv, SweepTyped
<1>4. SweepTyped'
  BY <1>2, <1>3 DEF BoardInv, SweepTyped
<1>5. Item \in sweep.todo /\ Item' = Item
  BY <1>2, <1>3, ItemIsTodo DEF BoardInv, Item
<1>6. Item \in ItemRec /\ Item.rec \in Kept /\ Item.rec.decision = "none"
  <2>1. Item \in ItemRec
    BY <1>3, <1>5
  <2>. QED  BY <1>2, <1>5, <2>1 DEF BoardInv, SweepTyped, ItemRec
<1>61. PICK new \in Kept : new = Item.rec
  BY <1>6
<1>7. /\ log' \in Seq(Kept)
      /\ Logged(new)'
      /\ \A a : Logged(a) => Logged(a)'
      /\ \A s : LogHas(s) => LogHas(s)'
      /\ \A i \in DOMAIN log' : log'[i] = new \/ \E j \in DOMAIN log : log'[i] = log[j]
  <2>0. log \in Seq(Kept)
    BY DEF BoardInv, ObjectsTyped
  <2>1. CASE Item.logged
    <3>1. log' = log /\ Logged(new)
      BY <1>1, <1>5, <1>61, <2>1 DEF BoardInv, SnapshotsHold
    <3>. QED  BY <2>0, <3>1 DEF Logged, LogHas
  <2>2. CASE ~Item.logged
    BY <1>1, <1>61, <2>0, <2>2, GrownLog
  <2>. QED  BY <2>1, <2>2
<1>8. ObjectsTyped'
  BY <1>1, <1>7 DEF BoardInv, ObjectsTyped
<1>9. SnapshotsHold'
  BY <1>3, <1>5, <1>61, <1>7 DEF BoardInv, SnapshotsHold
<1>10. RowsLogged'
  BY <1>1, <1>7 DEF BoardInv, RowsLogged
<1>11. EverFound'
  BY <1>1, <1>7 DEF BoardInv, EverFound, HasRow, IsPopped
<1>12. EverKept'
  <2>. SUFFICES ASSUME redeploys = 0 PROVE EverKept'
    BY <1>1 DEF EverKept
  <2>1. ~Decided(new)
    BY <1>6, <1>61 DEF Decided
  <2>2. \A i \in DOMAIN log' : Decided(log'[i]) => log'[i].store \in ever
    BY <1>7, <2>1 DEF BoardInv, EverKept, Decided
  <2>. QED  BY <1>1, <1>3, <1>7, <2>2 DEF BoardInv, EverKept, HasRow, IsPopped, Decided
<1>. QED  BY <1>4, <1>8, <1>9, <1>10, <1>11, <1>12 DEF BoardInv

LEMMA StoreRowKeepsInv ==
    ASSUME BoardInv, StoreRow
    PROVE  BoardInv'
<1>. DEFINE it == Item
<1>1. /\ sweep.phase = "row"
      /\ rows' = IF it.decided THEN rows ELSE Upsert(it.rec)
      /\ sweep' = IF sweep.todo = {it} THEN NoSweep ELSE [phase |-> "log", todo |-> sweep.todo \ {it}]
      /\ ever' = ever \cup {it.rec.store}
      /\ gone' = gone \ {r.store : r \in rows'}
      /\ UNCHANGED <<log, popped, redeploys>>
  BY DEF StoreRow
<1>2. sweep # NoSweep
  BY <1>1 DEF NoSweep
<1>3. /\ sweep.todo \subseteq ItemRec /\ IsFiniteSet(sweep.todo)
      /\ \A a, b \in sweep.todo : a.rec.store = b.rec.store => a = b
      /\ \A a \in sweep.todo : a.rec.decision = "none"
  BY <1>2 DEF BoardInv, SweepTyped
<1>4. it \in sweep.todo
  BY <1>2, ItemIsTodo DEF BoardInv
<1>5. /\ it.rec \in Kept /\ it.rec.store \in Stores /\ it.decided \in BOOLEAN
      /\ it.rec.decision = "none" /\ Logged(it.rec)
  <2>1. it \in ItemRec
    BY <1>3, <1>4
  <2>. QED  BY <1>1, <1>3, <1>4, <2>1 DEF BoardInv, SnapshotsHold, ItemRec, Kept
<1>. HIDE DEF it
<1>6. /\ rows' \subseteq Kept /\ IsFiniteSet(rows')
      /\ \A a, b \in rows' : a.store = b.store => a = b
      /\ \A a \in rows' : a = it.rec \/ a \in rows
      /\ \A s : HasRow(s) => HasRow(s)'
      /\ ~it.decided => \E a \in rows' : a.store = it.rec.store
  <2>1. CASE it.decided
    BY <1>1, <2>1 DEF BoardInv, ObjectsTyped, HasRow
  <2>2. CASE ~it.decided
    <3>1. rows' = Upsert(it.rec)
      BY <1>1, <2>2
    <3>2. \A s : HasRow(s) \/ s = it.rec.store => \E a \in rows' : a.store = s
      BY <1>5, <3>1, UpsertKept DEF BoardInv
    <3>3. /\ rows' \subseteq Kept /\ IsFiniteSet(rows')
          /\ \A a, b \in rows' : a.store = b.store => a = b
          /\ \A a \in rows' : a = it.rec \/ a \in rows
      BY <1>5, <3>1, UpsertKept DEF BoardInv
    <3>. QED  BY <3>2, <3>3 DEF HasRow
  <2>. QED  BY <2>1, <2>2
<1>7. /\ \A a : Logged(a)' <=> Logged(a)
      /\ \A s : LogHas(s)' <=> LogHas(s)
      /\ \A s : IsPopped(s)' <=> IsPopped(s)
  BY <1>1 DEF Logged, LogHas, IsPopped
<1>8. LogHas(it.rec.store)
  <2>1. PICK i \in DOMAIN log : RecommendationId(log[i]) = RecommendationId(it.rec)
    BY <1>5 DEF Logged
  <2>2. log[i] \in Kept
    BY <2>1, LogPositions DEF BoardInv, ObjectsTyped
  <2>. QED  BY <1>5, <2>1, <2>2, SameIdSameStore DEF LogHas
<1>9. \A s \in gone : s \in gone' \/ HasRow(s)'
  BY <1>1 DEF HasRow
<1>10. ObjectsTyped'
  BY <1>1, <1>5, <1>6 DEF BoardInv, ObjectsTyped
<1>11. /\ SweepTyped' /\ SnapshotsHold'
       /\ \A a \in sweep'.todo : a \in sweep.todo
  <2>1. CASE sweep.todo = {it}
    <3>1. sweep' = NoSweep /\ sweep'.phase = "idle" /\ sweep'.todo = {}
      BY <1>1, <2>1 DEF NoSweep
    <3>. QED  BY <3>1 DEF SweepTyped, SnapshotsHold
  <2>2. CASE sweep.todo # {it}
    <3>. DEFINE rest == sweep.todo \ {it}
    <3>1. sweep' = [phase |-> "log", todo |-> rest] /\ sweep'.phase = "log" /\ sweep'.todo = rest
      BY <1>1, <2>2
    <3>2. IsFiniteSet(rest) /\ rest # {} /\ rest \subseteq ItemRec
      BY <1>3, <1>4, <2>2, FS_Subset
    <3>3. SweepTyped'
      BY <1>3, <3>1, <3>2 DEF SweepTyped
    <3>4. SnapshotsHold'
      BY <1>7, <3>1 DEF BoardInv, SnapshotsHold
    <3>. QED  BY <3>1, <3>3, <3>4
  <2>. QED  BY <2>1, <2>2
<1>12. RowsLogged'
  BY <1>1, <1>5, <1>6, <1>7 DEF BoardInv, RowsLogged
<1>13. EverFound'
  <2>. SUFFICES ASSUME redeploys <= 1, NEW s \in ever' \ gone'
                PROVE  LogHas(s)' \/ HasRow(s)' \/ IsPopped(s)'
    BY <1>1 DEF EverFound
  <2>1. CASE s = it.rec.store
    BY <1>7, <1>8, <2>1
  <2>2. CASE s # it.rec.store
    <3>1. s \in ever
      BY <1>1, <2>2
    <3>2. CASE s \in gone
      BY <1>9, <3>2
    <3>3. CASE s \notin gone
      BY <1>6, <1>7, <3>1, <3>3 DEF BoardInv, EverFound
    <3>. QED  BY <3>2, <3>3
  <2>. QED  BY <2>1, <2>2
<1>14. EverKept'
  <2>. SUFFICES ASSUME redeploys = 0 PROVE EverKept'
    BY <1>1 DEF EverKept
  <2>1. it.decided => it.rec.store \in ever
    BY <1>4 DEF BoardInv, EverKept
  <2>2. \A r \in rows' : r.store \in ever'
    BY <1>1, <1>6 DEF BoardInv, EverKept
  <2>3. \A s \in Stores : IsPopped(s)' => s \in ever'
    BY <1>1, <1>7 DEF BoardInv, EverKept
  <2>4. \A i \in DOMAIN log' : Decided(log'[i]) => log'[i].store \in ever'
    BY <1>1 DEF BoardInv, EverKept, Decided
  <2>5. \A a \in sweep'.todo : a.decided => a.rec.store \in ever'
    BY <1>1, <1>11 DEF BoardInv, EverKept
  <2>6. ASSUME NEW s \in ever'
        PROVE  LogHas(s)' /\ (s \in gone' \/ HasRow(s)' \/ IsPopped(s)')
    <3>1. CASE s \in ever
      BY <1>6, <1>7, <1>9, <3>1 DEF BoardInv, EverKept
    <3>2. CASE s \notin ever
      <4>1. s = it.rec.store /\ ~it.decided
        BY <1>1, <2>1, <3>2
      <4>. QED  BY <1>6, <1>7, <1>8, <4>1 DEF HasRow
    <3>. QED  BY <3>1, <3>2
  <2>7. \A r : Decided(r)' <=> Decided(r)
    BY DEF Decided
  <2>. QED  BY <2>2, <2>3, <2>4, <2>5, <2>6, <2>7 DEF EverKept
<1>. QED  BY <1>10, <1>11, <1>12, <1>13, <1>14 DEF BoardInv

LEMMA PopRowKeepsInv ==
    ASSUME BoardInv, NEW s \in Stores, PopRow(s)
    PROVE  BoardInv'
<1>1. /\ popped = NoRecord /\ RowOf(s) # NoRecord
      /\ popped' = RowOf(s) /\ rows' = rows \ {RowOf(s)}
      /\ UNCHANGED <<log, sweep, redeploys, ever, gone>>
  BY DEF PopRow
<1>2. /\ RowOf(s) \in rows /\ RowOf(s).store = s
      /\ \A r \in rows : r.store = s => r = RowOf(s)
  BY <1>1, RowOfIs DEF BoardInv, ObjectsTyped
<1>3. IsFiniteSet(rows')
  BY <1>1, FS_Subset DEF BoardInv, ObjectsTyped
<1>4. ObjectsTyped'
  BY <1>1, <1>2, <1>3 DEF BoardInv, ObjectsTyped
<1>5. SweepTyped' /\ SnapshotsHold'
  BY <1>1, QuietSweep DEF BoardInv
<1>6. /\ \A a : Logged(a)' <=> Logged(a)
      /\ \A t : LogHas(t)' <=> LogHas(t)
      /\ \A t : IsPopped(t)' <=> t = s
      /\ \A t : HasRow(t) => HasRow(t)' \/ t = s
  BY <1>1, <1>2 DEF Logged, LogHas, IsPopped, HasRow
<1>7. RowsLogged'
  BY <1>1, <1>2, <1>6 DEF BoardInv, RowsLogged
<1>8. EverFound'
  BY <1>1, <1>6 DEF BoardInv, EverFound, IsPopped
<1>9. EverKept'
  BY <1>1, <1>2, <1>6 DEF BoardInv, EverKept, IsPopped, Decided
<1>. QED  BY <1>4, <1>5, <1>7, <1>8, <1>9 DEF BoardInv

LEMMA LogDecisionKeepsInv ==
    ASSUME BoardInv, LogDecision
    PROVE  BoardInv'
<1>1. PICK verdict \in Verdicts \ {"none"} : popped' = [popped EXCEPT !.decision = verdict]
  BY DEF LogDecision
<1>2. /\ popped # NoRecord /\ log' = Append(log, popped')
      /\ UNCHANGED <<rows, sweep, redeploys, ever, gone>>
  BY DEF LogDecision
<1>3. popped \in Kept /\ log \in Seq(Kept)
  BY <1>2 DEF BoardInv, ObjectsTyped
<1>4. /\ popped' \in Kept /\ popped'.store = popped.store
      /\ RecommendationId(popped') = RecommendationId(popped)
  <2>1. /\ popped' \in BoardRec /\ popped'.store = popped.store /\ popped'.gated = popped.gated
        /\ popped'.action = popped.action /\ popped'.signal = popped.signal
        /\ popped'.health = popped.health /\ popped'.status = popped.status
    BY <1>1, <1>3 DEF Kept, BoardRec
  <2>2. popped' \in Kept
    BY <1>3, <2>1 DEF Kept, Unscored
  <2>3. RecommendationId(popped') = RecommendationId(popped)
    BY <1>1, <1>3 DEF RecommendationId, Kept, BoardRec
  <2>. QED  BY <2>1, <2>2, <2>3
<1>41. PICK new \in Kept : new = popped'
  BY <1>4
<1>5. /\ log' \in Seq(Kept)
      /\ Logged(new)'
      /\ \A a : Logged(a) => Logged(a)'
      /\ \A s : LogHas(s) => LogHas(s)'
      /\ \A i \in DOMAIN log' : log'[i] = new \/ \E j \in DOMAIN log : log'[i] = log[j]
  BY <1>2, <1>3, <1>41, GrownLog
<1>6. popped' # NoRecord /\ popped.store \in Stores
  BY <1>3, <1>4, NotARecord DEF Kept
<1>7. \A s : (IsPopped(s)' <=> IsPopped(s)) /\ (HasRow(s)' <=> HasRow(s))
  BY <1>2, <1>4, <1>6 DEF IsPopped, HasRow
<1>8. ObjectsTyped'
  BY <1>2, <1>4, <1>5 DEF BoardInv, ObjectsTyped
<1>9. SweepTyped' /\ SnapshotsHold'
  <2>1. Item' = Item
    BY <1>2 DEF Item
  <2>. QED  BY <1>2, <1>5, <2>1 DEF BoardInv, SweepTyped, SnapshotsHold, NoSweep
<1>10. RowsLogged'
  BY <1>2, <1>41, <1>5 DEF BoardInv, RowsLogged, Logged
<1>11. EverFound'
  BY <1>2, <1>5, <1>7 DEF BoardInv, EverFound
<1>12. EverKept'
  <2>. SUFFICES ASSUME redeploys = 0 PROVE EverKept'
    BY <1>2 DEF EverKept
  <2>1. popped.store \in ever
    BY <1>2, <1>6 DEF BoardInv, EverKept, IsPopped
  <2>2. \A i \in DOMAIN log' : Decided(log'[i]) => log'[i].store \in ever
    BY <1>4, <1>41, <1>5, <2>1 DEF BoardInv, EverKept
  <2>. QED  BY <1>2, <1>5, <1>7, <2>2 DEF BoardInv, EverKept, Decided
<1>. QED  BY <1>8, <1>9, <1>10, <1>11, <1>12 DEF BoardInv

LEMMA PutBackKeepsInv ==
    ASSUME BoardInv, PutBack
    PROVE  BoardInv'
<1>1. /\ popped # NoRecord /\ rows' = Upsert(popped) /\ popped' = NoRecord
      /\ UNCHANGED <<log, sweep, redeploys, ever, gone>>
  BY DEF PutBack
<1>2. popped \in Kept /\ popped.store \in Stores
  BY <1>1 DEF BoardInv, ObjectsTyped, Kept
<1>3. /\ rows' \subseteq Kept /\ IsFiniteSet(rows')
      /\ \A a, b \in rows' : a.store = b.store => a = b
      /\ \A a \in rows' : a = popped \/ a \in rows
      /\ \A s : HasRow(s) \/ s = popped.store => \E a \in rows' : a.store = s
  BY <1>1, <1>2, UpsertKept DEF BoardInv
<1>4. ObjectsTyped'
  BY <1>1, <1>3 DEF BoardInv, ObjectsTyped
<1>5. SweepTyped' /\ SnapshotsHold'
  BY <1>1, QuietSweep DEF BoardInv
<1>6. /\ \A a : Logged(a)' <=> Logged(a)
      /\ \A s : LogHas(s)' <=> LogHas(s)
      /\ \A s : ~IsPopped(s)'
      /\ \A s : HasRow(s) \/ IsPopped(s) => HasRow(s)'
  BY <1>1, <1>3 DEF Logged, LogHas, IsPopped, HasRow
<1>7. RowsLogged'
  BY <1>1, <1>3, <1>6 DEF BoardInv, RowsLogged
<1>8. EverFound'
  BY <1>1, <1>6 DEF BoardInv, EverFound
<1>9. EverKept'
  <2>1. redeploys = 0 => popped.store \in ever
    BY <1>1, <1>2 DEF BoardInv, EverKept, IsPopped
  <2>. QED  BY <1>1, <1>3, <1>6, <2>1 DEF BoardInv, EverKept, Decided
<1>. QED  BY <1>4, <1>5, <1>7, <1>8, <1>9 DEF BoardInv

LEMMA FailDecisionKeepsInv ==
    ASSUME BoardInv, FailDecision
    PROVE  BoardInv'
<1>1. /\ popped # NoRecord /\ popped' = NoRecord /\ gone' = gone \cup {popped.store}
      /\ UNCHANGED <<log, rows, sweep, redeploys, ever>>
  BY DEF FailDecision
<1>2. ObjectsTyped'
  BY <1>1 DEF BoardInv, ObjectsTyped
<1>3. SweepTyped' /\ SnapshotsHold'
  BY <1>1, QuietSweep DEF BoardInv
<1>4. /\ \A a : Logged(a)' <=> Logged(a)
      /\ \A s : LogHas(s)' <=> LogHas(s)
      /\ \A s : ~IsPopped(s)' /\ (IsPopped(s) => s \in gone')
      /\ \A s : HasRow(s)' <=> HasRow(s)
  BY <1>1 DEF Logged, LogHas, IsPopped, HasRow
<1>5. RowsLogged' /\ EverFound'
  BY <1>1, <1>4 DEF BoardInv, RowsLogged, EverFound
<1>6. EverKept'
  BY <1>1, <1>4 DEF BoardInv, EverKept, Decided
<1>. QED  BY <1>2, <1>3, <1>5, <1>6 DEF BoardInv

LEMMA RedeployKeepsInv ==
    ASSUME BoardInv, Redeploy
    PROVE  BoardInv'
<1>1. /\ redeploys < MaxRedeploys /\ redeploys' = redeploys + 1
      /\ sweep' = NoSweep /\ popped' = NoRecord /\ ever' = ever
      /\ gone' = IF popped = NoRecord THEN gone ELSE gone \cup {popped.store}
  BY DEF Redeploy
<1>2. \/ log' = <<>> /\ rows' = rows
      \/ log' = log /\ (rows' = BackfilledRows \/ rows' = rows)
  BY DEF Redeploy
<1>3. redeploys \in Nat /\ redeploys' \in 1 .. MaxRedeploys
  BY <1>1, BoardAssumption DEF BoardInv, ObjectsTyped
<1>4. /\ rows' \subseteq Kept /\ IsFiniteSet(rows') /\ log' \in Seq(Kept)
      /\ \A a, b \in rows' : a.store = b.store => a = b
  <2>1. log \in Seq(Kept) /\ <<>> \in Seq(Kept)
    BY DEF BoardInv, ObjectsTyped
  <2>2. CASE rows' = BackfilledRows
    BY <1>2, <2>1, <2>2, BackfillKept
  <2>3. CASE rows' = rows
    BY <1>2, <2>1, <2>3 DEF BoardInv, ObjectsTyped
  <2>. QED  BY <1>2, <2>2, <2>3
<1>5. ObjectsTyped'
  BY <1>1, <1>3, <1>4 DEF BoardInv, ObjectsTyped
<1>6. SweepTyped' /\ SnapshotsHold'
  BY <1>1 DEF SweepTyped, SnapshotsHold, NoSweep
<1>7. RowsLogged' /\ EverKept'
  BY <1>3 DEF RowsLogged, EverKept
<1>8. EverFound'
  <2>. SUFFICES ASSUME redeploys = 0, NEW s \in ever, s \notin gone' PROVE LogHas(s)' \/ HasRow(s)'
    BY <1>1, <1>3 DEF EverFound
  <2>1. LogHas(s) /\ (s \in gone \/ HasRow(s) \/ IsPopped(s))
    BY DEF BoardInv, EverKept
  <2>2. HasRow(s)
    BY <1>1, <2>1 DEF IsPopped
  <2>. QED  BY <1>2, <2>1, <2>2 DEF LogHas, HasRow
<1>. QED  BY <1>5, <1>6, <1>7, <1>8 DEF BoardInv

LEMMA BoardInvariance == BoardSpec => []BoardInv
<1>1. BoardInv /\ [BoardNext]_board => BoardInv'
  <2>. SUFFICES ASSUME BoardInv, [BoardNext]_board PROVE BoardInv'
    OBVIOUS
  <2>1. CASE BoardNext
    BY <2>1, StartSweepKeepsInv, LogRecordKeepsInv, StoreRowKeepsInv, PopRowKeepsInv,
       LogDecisionKeepsInv, PutBackKeepsInv, FailDecisionKeepsInv, RedeployKeepsInv DEF BoardNext
  <2>2. CASE UNCHANGED board
    <3>1. UNCHANGED <<log, rows, sweep, popped, redeploys, ever, gone>>
      BY <2>2 DEF board
    <3>2. SweepTyped' /\ SnapshotsHold'
      BY <3>1, QuietSweep DEF BoardInv
    <3>. QED  BY <3>1, <3>2 DEF BoardInv, ObjectsTyped, RowsLogged, EverKept, EverFound, Logged,
                               LogHas, HasRow, IsPopped, Decided
  <2>. QED  BY <2>1, <2>2
<1>. QED  BY <1>1, BoardInitInv, PTL DEF BoardSpec

-----------------------------------------------------------------------------
(* What is read.                                                           *)

LEMMA KeptTyped ==
    ASSUME NEW r \in Kept
    PROVE  /\ Tier(r) \in 0 .. 2 /\ Urgency(r) \in Int /\ r.store \in Int
           /\ r.action \in Gated => Fallback(r.action) # r.action
<1>1. /\ r.action \in ValidRecommendations /\ r.health \in Int /\ r.remaining \in Int
      /\ r.confidence \in Int /\ r.store \in Int
  BY DEF Kept, BoardRec
<1>2. Tier(r) \in 0 .. 2
  BY <1>1 DEF Tier
<1>3. Urgency(r) \in Int
  <2>1. \A x \in Int : Clamp(x, 0, 1000) \in Int /\ Clamp(x, 0, 60) \in Int /\ Clamp(x, 0, 100) \in Int
    BY DEF Clamp, Greater, Lesser
  <2>. DEFINE harm == IF r.assessment = "NEGATIVE" THEN 8400 ELSE 0
              doubt == CASE r.causal = "REFUTED" -> 4200
                         [] r.causal = "REVIEW_ZONE" -> 1260
                         [] OTHER -> 0
  <2>2. harm \in Int /\ doubt \in Int
    OBVIOUS
  <2>3. /\ Clamp(r.health, 0, 1000) \in Int /\ Clamp(r.remaining, 0, 60) \in Int
        /\ Clamp(r.confidence, 0, 100) \in Int
    BY <1>1, <2>1
  <2>4. Urgency(r) = 6 * (700 - Clamp(r.health, 0, 1000)) + 70 * (60 - Clamp(r.remaining, 0, 60))
                       + 42 * (100 - Clamp(r.confidence, 0, 100)) + harm + doubt
    BY DEF Urgency
  <2>. HIDE DEF harm, doubt
  <2>. QED  BY <2>2, <2>3, <2>4
<1>4. r.action \in Gated => Fallback(r.action) # r.action
  BY DEF Fallback, Gated, SpendMoves
<1>. QED  BY <1>1, <1>2, <1>3, <1>4

\* The queue serves the graver tier first.
LEMMA GraverRanksFirst ==
    ASSUME ObjectsTyped, NEW a \in ApprovalQueue, NEW b \in ApprovalQueue, Tier(a) < Tier(b)
    PROVE  ListedBefore(a, b)
<1>1. /\ ApprovalQueue \subseteq rows /\ ApprovalQueue \subseteq Kept /\ IsFiniteSet(ApprovalQueue)
  BY FS_Subset DEF ApprovalQueue, ObjectsTyped
<1>2. Of(ApprovalQueue, a.store) = {a} /\ Of(ApprovalQueue, b.store) = {b}
  BY <1>1 DEF Of, ObjectsTyped
<1>. DEFINE A == {q \in ApprovalQueue : Before(q, a)}
            B == {q \in ApprovalQueue : Before(q, b)}
<1>3. Rank(a.store) = 1 + Cardinality(A) /\ Rank(b.store) = 1 + Cardinality(B)
  <2>1. /\ {q \in ApprovalQueue : \E o \in {a} : Before(q, o)} = A
        /\ {q \in ApprovalQueue : \E o \in {b} : Before(q, o)} = B
    OBVIOUS
  <2>. HIDE DEF A, B
  <2>. QED  BY <1>2, <2>1 DEF Rank
<1>4. \A q \in ApprovalQueue : Tier(q) \in 0 .. 2 /\ Urgency(q) \in Int /\ q.store \in Int
  BY <1>1, KeptTyped
<1>5. A \subseteq B
  BY <1>4 DEF Before
<1>6. a \in B /\ a \notin A
  BY <1>4 DEF Before
<1>7. /\ IsFiniteSet(A) /\ IsFiniteSet(B)
      /\ Cardinality(A) \in Nat /\ Cardinality(B) \in Nat /\ Cardinality(A) < Cardinality(B)
  <2>0. A \in SUBSET ApprovalQueue /\ B \in SUBSET ApprovalQueue
    OBVIOUS
  <2>. HIDE DEF A, B
  <2>1. IsFiniteSet(A) /\ IsFiniteSet(B)
    BY <1>1, <2>0, FS_Subset
  <2>2. Cardinality(A) \in Nat /\ Cardinality(B) \in Nat
    BY <2>1, FS_CardinalityType
  <2>3. Cardinality(A) <= Cardinality(B) /\ (Cardinality(A) = Cardinality(B) => A = B)
    BY <1>5, <2>1, FS_Subset
  <2>. QED  BY <1>6, <2>1, <2>2, <2>3
<1>. HIDE DEF A, B
<1>8. Rank(a.store) # 0 /\ Rank(b.store) # 0 /\ Rank(a.store) < Rank(b.store)
  BY <1>3, <1>7
<1>. QED  BY <1>3, <1>7, <1>8 DEF ListedBefore

LEMMA CountsMeanWork == BoardInv => CountMeansWork
<1>. SUFFICES ASSUME BoardInv, NEW r \in Readable, ~Undecidable(r)
              PROVE  NeedsDecision(r) = \E q \in ApprovalQueue : q.store = r.store
  BY DEF CountMeansWork
<1>. DEFINE row == RowOf(r.store)
<1>1. row # NoRecord /\ ~Decided(row) /\ r.gated /\ row.gated
  BY DEF Undecidable
<1>2. row \in rows /\ row.store = r.store
  BY <1>1, RowOfIs DEF BoardInv, ObjectsTyped
<1>. HIDE DEF row
<1>3. row \in ApprovalQueue
  BY <1>1, <1>2 DEF ApprovalQueue, Decided
<1>. QED  BY <1>1, <1>2, <1>3 DEF NeedsDecision

LEMMA QueueIsShown == BoardInv => ShownAsQueued
<1>. SUFFICES ASSUME BoardInv, NEW r \in Readable \cap ApprovalQueue
              PROVE  /\ Preview(r).class = "approval_required"
                     /\ Preview(r).choices[1] # Preview(r).choices[2]
                     /\ (Preview(r).inaction \in {"negative", "flat_to_positive"}) = r.signal
                     /\ Status(r) = "awaiting_decision"
                     /\ \A other \in InBucket("needs_intervention") \cap ApprovalQueue :
                           (r \in InBucket("needs_intervention") /\ Tier(r) < Tier(other))
                               => ListedBefore(r, other)
  BY DEF ShownAsQueued
<1>1. r \in rows /\ r.gated
  BY DEF ApprovalQueue
<1>2. r \in Kept
  BY <1>1 DEF BoardInv, ObjectsTyped
<1>3. /\ r.action \in Gated /\ r.signal \in BOOLEAN
      /\ r.signal \/ (r.health = 0 /\ r.status \in {"NO_DATA", "ERROR"})
  BY <1>1, <1>2 DEF Kept, BoardRec, Unscored
<1>4. Preview(r) = [class |-> "approval_required", choices |-> <<r.action, Fallback(r.action)>>,
                    risk |-> RiskOf(r.action), inaction |-> Inaction(r)]
  BY <1>3 DEF Preview
<1>5. Fallback(r.action) # r.action
  BY <1>2, <1>3, KeptTyped
<1>6. (Inaction(r) \in {"negative", "flat_to_positive"}) = r.signal
  BY <1>3 DEF Inaction
<1>7. Status(r) = "awaiting_decision"
  BY DEF Status
<1>8. \A other \in ApprovalQueue : Tier(r) < Tier(other) => ListedBefore(r, other)
  BY GraverRanksFirst DEF BoardInv
<1>9. Preview(r).class = "approval_required" /\ Preview(r).inaction = Inaction(r)
      /\ Preview(r).choices[1] # Preview(r).choices[2]
  BY <1>4, <1>5
<1>. QED  BY <1>6, <1>7, <1>8, <1>9

\* The board's objects keep their types, and a store has at most one row
\* (BoardTypeOK).
THEOREM BoardTypeCorrect == BoardSpec => []BoardTypeOK
<1>1. BoardInv => BoardTypeOK
  <2>. SUFFICES ASSUME BoardInv PROVE BoardTypeOK
    OBVIOUS
  <2>1. \A r \in Kept : r.store \in Stores /\ r.decision \in Verdicts
    BY DEF Kept, BoardRec
  <2>2. LogSet \subseteq Kept /\ rows \subseteq Kept
    BY LogPositions DEF BoardInv, ObjectsTyped, LogSet
  <2>3. \A s \in Stores : Cardinality(Of(rows, s)) <= 1
    <3>. SUFFICES ASSUME NEW s \in Stores PROVE Cardinality(Of(rows, s)) <= 1
      OBVIOUS
    <3>1. CASE Of(rows, s) = {}
      <4>1. Cardinality({}) = 0
        BY FS_EmptySet
      <4>. QED  BY <3>1, <4>1
    <3>2. CASE Of(rows, s) # {}
      <4>1. PICK r \in Of(rows, s) : TRUE
        BY <3>2
      <4>2. Of(rows, s) = {r}
        BY <4>1 DEF Of, BoardInv, ObjectsTyped
      <4>3. Cardinality({r}) = 1
        BY FS_Singleton
      <4>. QED  BY <4>2, <4>3
    <3>. QED  BY <3>1, <3>2
  <2>4. \A a \in sweep.todo : a.rec.store \in Stores
    <3>1. CASE sweep = NoSweep
      BY <3>1 DEF NoSweep
    <3>2. CASE sweep # NoSweep
      <4>1. \A a \in sweep.todo : a.rec \in Kept
        BY <3>2 DEF BoardInv, SweepTyped, ItemRec
      <4>. QED  BY <2>1, <4>1
    <3>. QED  BY <3>1, <3>2
  <2>. QED  BY <2>1, <2>2, <2>3, <2>4 DEF BoardTypeOK, BoardInv, ObjectsTyped
<1>. QED  BY <1>1, BoardInvariance, PTL

\* Through any sweeps, decisions and failed requests, an undecided row is the store's
\* last record or was logged before it; and up to one redeploy no store that was
\* evaluated drops off the surfaces while its row is not held by a request or gone with
\* one.  (The second redeploy may lose the copy the first one left.)
THEOREM BoardStaysWithLog == BoardSpec => [](redeploys <= 1 => BoardFollowsLog)
<1>1. ASSUME BoardInv PROVE RowsFollowLog
  <2>. USE <1>1
  <2>. SUFFICES ASSUME NEW r \in rows, redeploys = 0
                PROVE  /\ LastLogged(r.store) # NoRecord
                       /\ \/ RecommendationId(LastLogged(r.store)) = RecommendationId(r)
                          \/ LoggedBefore(r, LastLogged(r.store))
    <3>1. redeploys \in Nat
      BY BoardAssumption DEF BoardInv, ObjectsTyped
    <3>. QED  BY <3>1 DEF RowsFollowLog
  <2>0. log \in Seq(Kept) /\ r \in Kept
    BY DEF BoardInv, ObjectsTyped
  <2>1. PICK i \in DOMAIN log : RecommendationId(log[i]) = RecommendationId(r)
    BY DEF BoardInv, RowsLogged, Logged
  <2>2. log[i].store = r.store
    BY <2>0, <2>1, LogPositions, SameIdSameStore
  <2>3. LogHas(r.store)
    BY <2>2 DEF LogHas
  <2>4. PICK k \in DOMAIN log : /\ LastLogged(r.store) = log[k]
                                /\ \A j \in DOMAIN log : log[j].store = r.store => j <= k
    BY <2>0, <2>3, LastLoggedIs
  <2>5. i <= k /\ i \in Nat /\ k \in Nat
    BY <2>0, <2>2, <2>4, LogPositions
  <2>6. CASE i = k
    BY <2>0, <2>1, <2>3, <2>4, <2>6, LastLoggedFound
  <2>7. CASE i < k
    BY <2>0, <2>1, <2>3, <2>4, <2>7, LastLoggedFound DEF LoggedBefore
  <2>. QED  BY <2>5, <2>6, <2>7
<1>2. BoardInv /\ redeploys <= 1 => EveryStoreReadable
  <2>. SUFFICES ASSUME BoardInv, redeploys <= 1, NEW s \in ever \ gone, ~IsPopped(s)
                PROVE  \E r \in Readable : r.store = s
    BY DEF EveryStoreReadable, IsPopped
  <2>0. log \in Seq(Kept) /\ rows \subseteq Kept /\ s \in Stores
    BY DEF BoardInv, ObjectsTyped
  <2>1. LogHas(s) \/ HasRow(s)
    BY DEF BoardInv, EverFound
  <2>. DEFINE r == IF LastLogged(s) # NoRecord THEN LastLogged(s) ELSE RowOf(s)
  <2>2. r # NoRecord /\ r.store = s
    <3>1. CASE LogHas(s)
      BY <2>0, <3>1, LastLoggedIs, LastLoggedFound
    <3>2. CASE ~LogHas(s)
      BY <2>0, <2>1, <3>2, LastLoggedIs, RowOfIs
    <3>. QED  BY <3>1, <3>2
  <2>3. r \in Readable
    BY <2>0, <2>2 DEF Readable
  <2>. QED  BY <2>2, <2>3
<1>. QED  BY <1>1, <1>2, BoardInvariance, PTL DEF BoardFollowsLog

\* Whatever was written, a board read while nothing is being written counts as work what
\* the approval queue holds, but for the stores named by Undecidable, and shows a queued
\* record the way the queue means it, graver tiers first (_decision_status, rank_attention
\* and build_approval_preview against the policy's set).
THEOREM SurfacesStayAgreed == BoardSpec => []SurfacesAgree
<1>1. BoardInv => SurfacesAgree
  BY CountsMeanWork, QueueIsShown DEF SurfacesAgree
<1>. QED  BY <1>1, BoardInvariance, PTL

=============================================================================
