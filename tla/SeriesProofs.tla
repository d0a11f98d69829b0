----------------------------- MODULE SeriesProofs ------------------------------
(***************************************************************************)
(* What TLAPS proves about Series, for any numbers of tasks, requests and   *)
(* periods.                                                                 *)
(***************************************************************************)
EXTENDS Series, WellFoundedInduction, TLAPS

-------------------------------------------------------------------------------
(* Latest.                                                                  *)

\* A set of periods that is not empty has a greatest member.
LEMMA GreatestPeriod ==
    ASSUME NEW T \in SUBSET Period, T # {}
    PROVE  \E p \in T : \A q \in T : q <= p
<1> DEFINE Less == {ss \in Nat \X Nat : ss[1] < ss[2]}
           D == {n \in Nat : \E p \in T : n = MaxPeriod - p}
<1>1. IsWellFoundedOn(OpToRel(<, Nat), Nat)
  BY NatLessThanWellFounded
<1>2. IsWellFoundedOn(Less, Nat)
  BY <1>1 DEF OpToRel
<1>3. D \subseteq Nat
  OBVIOUS
<1>4. \A p \in T : MaxPeriod - p \in D
  BY CalendarAssumption DEF Period
<1>5. D # {}
  BY <1>4
<1> HIDE DEF Less
<1>6. PICK n \in D : \A m \in D : ~ (<<m, n>> \in Less)
  <2> HIDE DEF D
  <2> QED BY <1>2, <1>3, <1>5, WFMin
<1>7. PICK p \in T : n = MaxPeriod - p
  BY <1>6
<1>8. ASSUME NEW q \in T PROVE q <= p
  <2>1. ~ (<<MaxPeriod - q, n>> \in Less)
    BY <1>4, <1>6
  <2>2. MaxPeriod - q \in Nat /\ n \in Nat
    BY <1>4
  <2>3. ~ (MaxPeriod - q < n)
    BY <2>1, <2>2 DEF Less
  <2> QED BY <1>7, <2>3, CalendarAssumption DEF Period
<1> QED BY <1>8

\* The latest instance of a series is one of its rows, and none is later.
LEMMA LatestIs ==
    ASSUME TypeOK, NEW s \in Id, Instances(s) # {}
    PROVE  \E i \in Instances(s) :
              /\ Latest(s) = inst[i]
              /\ \A j \in Instances(s) : inst[j].period <= inst[i].period
<1> DEFINE T == {p \in Period : \E i \in Instances(s) : inst[i].period = p}
           Top(i) == \A j \in Instances(s) : inst[i].period >= inst[j].period
<1>1. \A i \in Instances(s) : inst[i] \in Row /\ inst[i].period \in Period
  BY DEF TypeOK, Instances, Exists, Row
<1>2. \A i \in Instances(s) : inst[i].period \in T
  BY <1>1
<1>3. T \in SUBSET Period /\ T # {}
  BY <1>2
<1>4. PICK p \in T : \A q \in T : q <= p
  <2> HIDE DEF T
  <2> QED BY <1>3, GreatestPeriod
<1>5. PICK i \in Instances(s) : inst[i].period = p
  BY <1>4
<1>6. Top(i)
  BY <1>1, <1>2, <1>4, <1>5 DEF Period
<1>7. (CHOOSE k \in Instances(s) : Top(k)) \in Instances(s) /\ Top(CHOOSE k \in Instances(s) : Top(k))
  <2> HIDE DEF Top
  <2> QED BY <1>6
<1>8. Latest(s) = inst[CHOOSE k \in Instances(s) : Top(k)]
  BY DEF Latest
<1>9. PICK k \in Instances(s) : k = (CHOOSE k2 \in Instances(s) : Top(k2)) /\ Top(k)
  <2> HIDE DEF Top
  <2> QED BY <1>7
<1>10. \A j \in Instances(s) : inst[j].period <= inst[k].period
  BY <1>1, <1>9 DEF Period
<1> QED BY <1>8, <1>9, <1>10

-------------------------------------------------------------------------------
(* The inductive invariant.                                                 *)

LEMMA NoContextType == NoContext \in Context
BY CalendarAssumption DEF NoContext, Context, Period

LEMMA InitInv == ASSUME Init PROVE IInv
<1>1. TypeOK
  BY NoContextType, CalendarAssumption DEF Init, TypeOK, PC
<1>2. OnePerPeriod /\ TableInv /\ UndoInv
  BY DEF Init, OnePerPeriod, TableInv, UndoInv, Exists
<1>3. ASSUME NEW r \in Request PROVE ContextInv(r)
  <2>1. ctx[r] = NoContext /\ pc[r] = "idle"
    BY DEF Init
  <2> QED BY <2>1 DEF ContextInv, NoContext, Live
<1> QED BY <1>1, <1>2, <1>3 DEF IInv

\* A step of request r that writes nothing but its locals.
Local(r, q, c) ==
    /\ UNCHANGED <<now, inst, used, undo>>
    /\ pc' = [pc EXCEPT ![r] = q]
    /\ ctx' = [ctx EXCEPT ![r] = c]

\* What ContextInv asks of the locals c of a request that stands at q.
LocalsFit(q, c) ==
    /\ q \in PC /\ c \in Context
    /\ \A row \in c.todo : row.series \in used
    /\ \A s \in Id : Live(c.latest[s]) => s \in used /\ c.latest[s].series = s
    /\ q = "reschedule" => c.id \in Id

LEMMA LocalsChange ==
    ASSUME TypeOK, NEW r \in Request, NEW q, NEW c, LocalsFit(q, c),
           pc' = [pc EXCEPT ![r] = q], ctx' = [ctx EXCEPT ![r] = c],
           used \subseteq used', \A x \in Request : ContextInv(x)
    PROVE  /\ pc' \in [Request -> PC] /\ ctx' \in [Request -> Context]
           /\ \A x \in Request : ContextInv(x)'
<1>1. pc' \in [Request -> PC] /\ ctx' \in [Request -> Context]
  BY DEF TypeOK, LocalsFit
<1>2. ASSUME NEW x \in Request PROVE ContextInv(x)'
  <2>1. CASE x = r
    <3>1. ctx'[x] = c /\ pc'[x] = q
      BY <2>1 DEF TypeOK
    <3> QED BY <3>1 DEF LocalsFit, ContextInv, Live
  <2>2. CASE x # r
    <3>1. ctx'[x] = ctx[x] /\ pc'[x] = pc[x]
      BY <2>2 DEF TypeOK
    <3> QED BY <3>1 DEF ContextInv, Live
  <2> QED BY <2>1, <2>2
<1> QED BY <1>1, <1>2

LEMMA LocalPreserves ==
    ASSUME IInv, NEW r \in Request, NEW q, NEW c, LocalsFit(q, c), Local(r, q, c)
    PROVE  IInv'
<1>1. /\ pc' \in [Request -> PC] /\ ctx' \in [Request -> Context]
      /\ \A x \in Request : ContextInv(x)'
  BY LocalsChange DEF IInv, Local
<1>2. TypeOK'
  BY <1>1 DEF IInv, TypeOK, Local
<1>3. OnePerPeriod' /\ TableInv' /\ UndoInv'
  BY DEF IInv, Local, OnePerPeriod, TableInv, UndoInv, Exists, SeriesUsed
<1> QED BY <1>1, <1>2, <1>3 DEF IInv

LEMMA FinishLocals == LocalsFit("idle", NoContext)
BY NoContextType DEF LocalsFit, NoContext, PC, Live

\* Writing one row that fits keeps the table in order.
LEMMA WritePreserves ==
    ASSUME TypeOK, OnePerPeriod, TableInv,
           NEW i \in Id, NEW row \in Row, SlotFree(i, row),
           inst' = [inst EXCEPT ![i] = row],
           used \subseteq used', used' \subseteq Id, i \in used',
           row.series \in used' \cup {None}
    PROVE  inst' \in [Id -> Row \cup {NoRow}] /\ OnePerPeriod' /\ TableInv'
<1>1. inst' \in [Id -> Row \cup {NoRow}]
  BY DEF TypeOK
<1>2. inst'[i] = row /\ \A j \in Id \ {i} : inst'[j] = inst[j]
  BY DEF TypeOK
<1>3. TableInv'
  BY <1>2 DEF TableInv, Exists, SeriesUsed
<1>4. ASSUME NEW j \in Id, NEW k \in Id, Exists(j)', Exists(k)', j # k,
             inst'[j].series # None, inst'[j].series = inst'[k].series
      PROVE  inst'[j].period # inst'[k].period
  <2>1. CASE j # i /\ k # i
    BY <1>2, <1>4, <2>1 DEF OnePerPeriod, Exists
  <2>2. CASE j = i
    <3>1. k \in Instances(row.series)
      BY <1>2, <1>4, <2>2 DEF Instances, Exists
    <3> QED BY <1>2, <1>4, <2>2, <3>1 DEF SlotFree
  <2>3. CASE k = i
    <3>1. j \in Instances(row.series)
      BY <1>2, <1>4, <2>3 DEF Instances, Exists
    <3> QED BY <1>2, <1>4, <2>3, <3>1 DEF SlotFree
  <2> QED BY <2>1, <2>2, <2>3
<1> QED BY <1>1, <1>3, <1>4 DEF OnePerPeriod

-------------------------------------------------------------------------------
(* Materialize preserves the invariant.                                     *)

LEMMA ReadPreserves ==
    ASSUME IInv, NEW r \in Request, MaterializeRead(r) PROVE IInv'
<1> DEFINE c == [latest |-> [s \in Id |-> Latest(s)], at |-> 0, todo |-> {},
                 cur |-> None, id |-> None]
<1>1. ASSUME NEW s \in Id
      PROVE  /\ Latest(s) \in Row \cup {NoRow}
             /\ Live(Latest(s)) => s \in used /\ Latest(s).series = s
  <2>1. CASE Instances(s) = {}
    BY <2>1 DEF Latest, Live
  <2>2. CASE Instances(s) # {}
    <3>1. PICK i \in Instances(s) : Latest(s) = inst[i]
      BY <2>2, LatestIs DEF IInv
    <3>2. i \in Id /\ inst[i] \in Row /\ inst[i].series = s /\ Exists(i)
      BY <3>1 DEF IInv, TypeOK, Instances, Exists
    <3> QED BY <3>1, <3>2, SeriesAssumption DEF IInv, TableInv, SeriesUsed, Exists
  <2> QED BY <2>1, <2>2
<1>2. c \in Context
  <2>1. [s \in Id |-> Latest(s)] \in [Id -> Row \cup {NoRow}]
    BY <1>1
  <2> QED BY <2>1, CalendarAssumption DEF Context, Period
<1>3. LocalsFit("clock", c)
  BY <1>1, <1>2 DEF LocalsFit, PC
<1>4. Local(r, "clock", c)
  BY DEF MaterializeRead, Local
<1> HIDE DEF c
<1> QED BY <1>3, <1>4, LocalPreserves

\* The rows Materialize is about to insert.
LEMMA MissingRows ==
    ASSUME NEW s \in Id, NEW row \in Row, Live(row), row.series = s,
           NEW at \in 1..MaxPeriod, NEW x \in Missing(row, at)
    PROVE  /\ x \in Row /\ x.series = s /\ x.rec = row.rec
           /\ x.period \in row.period + 1 .. at
           /\ IsOccurrence(row.rec, x.period)
<1>1. PICK p \in MissingPeriods(row.rec, row.period, at) :
         x = [series |-> row.series, period |-> p, rec |-> row.rec]
  BY DEF Missing
<1>2. p \in row.period + 1 .. at /\ IsOccurrence(row.rec, p)
  BY <1>1 DEF MissingPeriods
<1>3. row.period \in Period /\ row.rec \in Recurring
  BY DEF Row, Live
<1>4. p \in Period
  BY <1>2, <1>3, CalendarAssumption DEF Period
<1>5. x \in Row
  BY <1>1, <1>3, <1>4 DEF Row
<1> QED BY <1>1, <1>2, <1>5

LEMMA ClockPreserves ==
    ASSUME IInv, NEW r \in Request, MaterializeClock(r) PROVE IInv'
<1> DEFINE latest == ctx[r].latest
           todo == UNION {Missing(latest[s], now) : s \in {x \in Id : Live(latest[x])}}
           c == [latest |-> latest, at |-> now, todo |-> todo, cur |-> None, id |-> None]
<1>1. latest \in [Id -> Row \cup {NoRow}] /\ now \in 1..MaxPeriod
  BY DEF IInv, TypeOK, Context
<1>2. \A s \in Id : Live(latest[s]) =>
         latest[s] \in Row /\ s \in used /\ latest[s].series = s
  BY <1>1 DEF IInv, ContextInv, Live
<1>3. ASSUME NEW row \in todo PROVE row \in Row /\ row.series \in used
  <2>1. PICK s \in Id : Live(latest[s]) /\ row \in Missing(latest[s], now)
    BY <1>3
  <2> HIDE DEF latest
  <2> QED BY <1>1, <1>2, <2>1, MissingRows
<1>4. c \in Context
  <2> HIDE DEF todo, latest
  <2> QED BY <1>1, <1>3, CalendarAssumption DEF Context, Period
<1>5. LocalsFit("spawn", c)
  <2> HIDE DEF todo, latest
  <2> QED BY <1>2, <1>3, <1>4 DEF LocalsFit, PC
<1>6. Local(r, "spawn", c)
  BY DEF MaterializeClock, Local
<1> HIDE DEF c
<1> QED BY <1>5, <1>6, LocalPreserves

LEMMA SpawnPreserves ==
    ASSUME IInv, NEW r \in Request, Spawn(r) PROVE IInv'
<1>1. PICK row \in ctx[r].todo :
         /\ IF SlotFree(None, row)
            THEN \E i \in Id \ used : /\ inst' = [inst EXCEPT ![i] = row]
                                     /\ used' = used \cup {i}
            ELSE UNCHANGED <<inst, used>>
         /\ ctx' = [ctx EXCEPT ![r] =
               [latest |-> ctx[r].latest, at |-> ctx[r].at,
                todo |-> ctx[r].todo \ {row}, cur |-> row.series, id |-> None]]
  BY DEF Spawn
<1> DEFINE c == [latest |-> ctx[r].latest, at |-> ctx[r].at,
                 todo |-> ctx[r].todo \ {row}, cur |-> row.series, id |-> None]
<1>2. /\ ctx[r].latest \in [Id -> Row \cup {NoRow}] /\ ctx[r].at \in Period
      /\ ctx[r].todo \subseteq Row /\ row \in Row /\ row.series \in used
      /\ used \subseteq Id
  BY DEF IInv, TypeOK, Context, ContextInv
<1>3. LocalsFit("spawn", c)
  <2>1. row.series \in Id
    BY <1>2
  <2>2. c \in Context
    BY <1>2, <2>1 DEF Context
  <2>3. /\ \A x \in c.todo : x.series \in used
        /\ \A s \in Id : Live(c.latest[s]) => s \in used /\ c.latest[s].series = s
    BY DEF IInv, ContextInv
  <2> HIDE DEF c
  <2> QED BY <2>2, <2>3 DEF LocalsFit, PC
<1>4. pc' = [pc EXCEPT ![r] = "spawn"] /\ ctx' = [ctx EXCEPT ![r] = c]
  BY <1>1 DEF Spawn, IInv, TypeOK
<1>5. /\ inst' \in [Id -> Row \cup {NoRow}] /\ OnePerPeriod' /\ TableInv'
      /\ used \subseteq used' /\ used' \subseteq Id
  <2>1. CASE SlotFree(None, row)
    <3>1. PICK i \in Id \ used : inst' = [inst EXCEPT ![i] = row] /\ used' = used \cup {i}
      BY <1>1, <2>1
    <3>2. SlotFree(i, row)
      BY <2>1, SeriesAssumption DEF SlotFree, Instances
    <3>3. used \subseteq used' /\ used' \subseteq Id /\ i \in used'
      BY <1>2, <3>1
    <3> QED BY <1>2, <3>1, <3>2, <3>3, WritePreserves DEF IInv
  <2>2. CASE ~SlotFree(None, row)
    <3>1. UNCHANGED <<inst, used>>
      BY <1>1, <2>2
    <3> QED BY <1>2, <3>1 DEF IInv, TypeOK, OnePerPeriod, TableInv, Exists, SeriesUsed
  <2> QED BY <2>1, <2>2
<1> HIDE DEF c
<1>6. /\ pc' \in [Request -> PC] /\ ctx' \in [Request -> Context]
      /\ \A x \in Request : ContextInv(x)'
  BY <1>3, <1>4, <1>5, LocalsChange DEF IInv
<1>7. TypeOK'
  BY <1>5, <1>6 DEF IInv, TypeOK, Spawn
<1>8. UndoInv'
  BY <1>5 DEF IInv, UndoInv, SeriesUsed, Spawn
<1> QED BY <1>5, <1>6, <1>7, <1>8 DEF IInv

LEMMA EndPreserves ==
    ASSUME IInv, NEW r \in Request, MaterializeEnd(r) PROVE IInv'
<1>1. Local(r, "idle", NoContext)
  BY DEF MaterializeEnd, Finish, Local
<1> QED BY <1>1, FinishLocals, LocalPreserves

-------------------------------------------------------------------------------
(* The other requests preserve the invariant.                               *)

LEMMA AnchoredType ==
    ASSUME NEW rule \in Rule, NEW p \in Period
    PROVE  Anchored(rule, p) \in Recurring
<1>1. p \div DaysInWeek \in Nat
  BY CalendarAssumption DEF Period
<1> QED BY <1>1 DEF Anchored, ComputeAnchor, Week, Rule, Recurring, Period

\* A step that leaves the requests and the clock alone.
LEMMA TableStep ==
    ASSUME IInv, inst' \in [Id -> Row \cup {NoRow}], OnePerPeriod', TableInv',
           used \subseteq used', used' \subseteq Id,
           undo' \in [id : Id \cup {None}, row : Row \cup {NoRow}], UndoInv',
           UNCHANGED <<now, pc, ctx>>
    PROVE  IInv'
<1>1. TypeOK'
  BY DEF IInv, TypeOK
<1>2. \A r \in Request : ContextInv(r)'
  BY DEF IInv, ContextInv, Live
<1> QED BY <1>1, <1>2 DEF IInv

LEMMA CreatePreserves == ASSUME IInv, CreateTask PROVE IInv'
<1>1. PICK i \in Id \ used, p \in StartPeriods, rule \in Rules :
         /\ inst' = [inst EXCEPT ![i] =
               [series |-> IF rule = None THEN None ELSE i, period |-> p,
                rec |-> IF rule = None THEN None ELSE Anchored(rule, p)]]
         /\ used' = used \cup {i}
         /\ UNCHANGED <<now, undo, pc, ctx>>
  BY DEF CreateTask
<1> DEFINE row == [series |-> IF rule = None THEN None ELSE i, period |-> p,
                   rec |-> IF rule = None THEN None ELSE Anchored(rule, p)]
<1>2. p \in Period /\ (rule # None => rule \in Rule)
  BY SeriesAssumption DEF Period
<1>3. row \in Row
  BY <1>2, AnchoredType DEF Row
<1>4. SlotFree(i, row)
  <2>1. Instances(i) = {}
    BY <1>1, SeriesAssumption DEF IInv, TableInv, Instances, SeriesUsed, Exists
  <2> QED BY <2>1 DEF SlotFree
<1>5. used \subseteq used' /\ used' \subseteq Id /\ i \in used'
      /\ row.series \in used' \cup {None}
  BY <1>1 DEF IInv, TypeOK
<1>6. inst' = [inst EXCEPT ![i] = row]
  BY <1>1
<1>7. inst' \in [Id -> Row \cup {NoRow}] /\ OnePerPeriod' /\ TableInv'
  <2> HIDE DEF row
  <2> QED BY <1>3, <1>4, <1>5, <1>6, WritePreserves DEF IInv
<1>8. UndoInv'
  BY <1>1, <1>5 DEF IInv, UndoInv, SeriesUsed
<1>9. undo' \in [id : Id \cup {None}, row : Row \cup {NoRow}]
  BY <1>1 DEF IInv, TypeOK
<1> HIDE DEF row
<1> QED BY <1>1, <1>5, <1>7, <1>8, <1>9, TableStep

LEMMA MergedRuleType ==
    ASSUME NEW o \in Recurring \cup {None}, NEW rule \in RulePatch
    PROVE  MergedRule(o, rule) \in Rule
<1>0. /\ rule.interval \in Nat
      /\ rule.weekdays = Keep \/ rule.weekdays \in SUBSET (1..DaysInWeek)
  BY DEF RulePatch
<1>1. CASE o = None
  BY <1>0, <1>1 DEF MergedRule, Rule
<1>2. CASE o # None /\ o \in Recurring
  BY <1>0, <1>2 DEF MergedRule, Rule, Recurring
<1> QED BY <1>1, <1>2

LEMMA PatchedRecType ==
    ASSUME NEW o \in Recurring \cup {None}, NEW rule \in RulePatch \cup {None, Keep},
           NEW p \in Period
    PROVE  PatchedRec(o, rule, p) \in Recurring \cup {None}
<1> DEFINE m == MergedRule(o, rule)
<1>1. CASE rule = Keep
  BY <1>1 DEF PatchedRec
<1>2. CASE rule # Keep /\ rule = None
  BY <1>2 DEF PatchedRec
<1>3. CASE rule \in RulePatch /\ rule # Keep /\ rule # None /\ SameFreq(o, m)
  <2>1. o \in Recurring
    BY <1>3 DEF SameFreq
  <2>2. m \in Rule
    BY <1>3, MergedRuleType
  <2>3. PatchedRec(o, rule, p) =
          [weekdays |-> m.weekdays, interval |-> m.interval, anchor |-> o.anchor]
    BY <1>3 DEF PatchedRec
  <2> HIDE DEF m
  <2> QED BY <2>1, <2>2, <2>3 DEF Rule, Recurring
<1>4. CASE rule \in RulePatch /\ rule # Keep /\ rule # None /\ ~SameFreq(o, m)
  <2>1. m \in Rule
    BY <1>4, MergedRuleType
  <2>2. PatchedRec(o, rule, p) = Anchored(m, p)
    BY <1>4 DEF PatchedRec
  <2> HIDE DEF m
  <2> QED BY <2>1, <2>2, AnchoredType
<1> QED BY <1>1, <1>2, <1>3, <1>4

LEMMA PatchPreserves == ASSUME IInv, PatchTask PROVE IInv'
<1>1. PICK i \in Id, patch \in Patches :
         LET o == inst[i]
             p == IF patch.period = Keep THEN o.period ELSE patch.period
             n == [series |-> o.series, period |-> p,
                   rec |-> PatchedRec(o.rec, patch.rule, p)]
         IN /\ Exists(i) /\ SlotFree(i, n)
            /\ inst' = [inst EXCEPT ![i] = n]
            /\ UNCHANGED <<now, used, undo, pc, ctx>>
  BY DEF PatchTask
<1> DEFINE p == IF patch.period = Keep THEN inst[i].period ELSE patch.period
           n == [series |-> inst[i].series, period |-> p,
                 rec |-> PatchedRec(inst[i].rec, patch.rule, p)]
<1>2. inst[i] \in Row /\ i \in used /\ inst[i].series \in used \cup {None}
  BY <1>1 DEF IInv, TypeOK, TableInv, SeriesUsed, Exists
<1>3. patch.period \in Period \cup {Keep} /\ patch.rule \in RulePatch \cup {None, Keep}
  BY SeriesAssumption DEF Patch
<1>4. inst[i].period \in Period /\ inst[i].rec \in Recurring \cup {None}
      /\ inst[i].series \in Id \cup {None}
  BY <1>2 DEF Row
<1>5. p \in Period
  BY <1>3, <1>4
<1>6. n \in Row
  <2>1. PatchedRec(inst[i].rec, patch.rule, p) \in Recurring \cup {None}
    BY <1>3, <1>4, <1>5, PatchedRecType
  <2> HIDE DEF p
  <2> QED BY <1>4, <1>5, <2>1 DEF Row
<1>7. SlotFree(i, n) /\ inst' = [inst EXCEPT ![i] = n] /\ n.series \in used \cup {None}
  BY <1>1, <1>2
<1>8. inst' \in [Id -> Row \cup {NoRow}] /\ OnePerPeriod' /\ TableInv'
  <2> HIDE DEF n
  <2>1. used' = used /\ used \subseteq Id
    BY <1>1 DEF IInv, TypeOK
  <2> QED BY <1>2, <1>6, <1>7, <2>1, WritePreserves DEF IInv
<1>9. UNCHANGED <<now, used, undo, pc, ctx>>
  BY <1>1
<1>10. UndoInv' /\ undo' \in [id : Id \cup {None}, row : Row \cup {NoRow}]
       /\ used \subseteq used' /\ used' \subseteq Id
  BY <1>9 DEF IInv, TypeOK, UndoInv, SeriesUsed
<1> HIDE DEF n
<1> QED BY <1>8, <1>9, <1>10, TableStep

LEMMA RescheduleReadPreserves ==
    ASSUME IInv, NEW r \in Request, RescheduleRead(r) PROVE IInv'
<1>1. PICK i \in Id : ctx' = [ctx EXCEPT ![r] =
         [latest |-> [s \in Id |-> NoRow], at |-> now, todo |-> {},
          cur |-> None, id |-> i]]
  BY DEF RescheduleRead
<1> DEFINE c == [latest |-> [s \in Id |-> NoRow], at |-> now, todo |-> {},
                 cur |-> None, id |-> i]
<1>2. LocalsFit("reschedule", c)
  BY CalendarAssumption DEF LocalsFit, PC, Context, Live, IInv, TypeOK, Period
<1>3. Local(r, "reschedule", c)
  BY <1>1 DEF RescheduleRead, Local
<1> HIDE DEF c
<1> QED BY <1>2, <1>3, LocalPreserves

LEMMA RescheduleWritePreserves ==
    ASSUME IInv, NEW r \in Request, RescheduleWrite(r) PROVE IInv'
<1> DEFINE i == ctx[r].id
           n == [series |-> inst[i].series, period |-> ctx[r].at, rec |-> inst[i].rec]
<1>1. i \in Id /\ ctx[r].at \in Period /\ used \subseteq Id
  BY DEF RescheduleWrite, IInv, ContextInv, TypeOK, Context
<1>2. UNCHANGED <<now, used, undo>>
  BY DEF RescheduleWrite
<1>3. inst' \in [Id -> Row \cup {NoRow}] /\ OnePerPeriod' /\ TableInv'
  <2>1. CASE Exists(i) /\ SlotFree(i, n)
    <3>1. inst' = [inst EXCEPT ![i] = n]
      BY <2>1 DEF RescheduleWrite
    <3>2. inst[i] \in Row /\ i \in used /\ inst[i].series \in used \cup {None}
      BY <1>1, <2>1 DEF IInv, TypeOK, TableInv, SeriesUsed, Exists
    <3>3. n \in Row /\ n.series \in used \cup {None}
      BY <1>1, <3>2 DEF Row
    <3> HIDE DEF n, i
    <3> QED BY <1>1, <1>2, <2>1, <3>1, <3>2, <3>3, WritePreserves DEF IInv
  <2>2. CASE ~(Exists(i) /\ SlotFree(i, n))
    <3>1. inst' = inst
      BY <2>2 DEF RescheduleWrite
    <3> QED BY <1>2, <3>1 DEF IInv, TypeOK, OnePerPeriod, TableInv, Exists, SeriesUsed
  <2> QED BY <2>1, <2>2
<1>4. pc' = [pc EXCEPT ![r] = "idle"] /\ ctx' = [ctx EXCEPT ![r] = NoContext]
  BY DEF RescheduleWrite, Finish
<1>5. LocalsFit("idle", NoContext)
  BY FinishLocals
<1>6. /\ pc' \in [Request -> PC] /\ ctx' \in [Request -> Context]
      /\ \A x \in Request : ContextInv(x)'
  BY <1>2, <1>4, <1>5, LocalsChange DEF IInv
<1>7. TypeOK' /\ UndoInv'
  BY <1>2, <1>3, <1>6 DEF IInv, TypeOK, UndoInv, SeriesUsed
<1> QED BY <1>3, <1>6, <1>7 DEF IInv

LEMMA DeletePreserves == ASSUME IInv, DeleteTask PROVE IInv'
<1>1. PICK i \in Id : /\ Exists(i)
                      /\ inst' = [inst EXCEPT ![i] = NoRow]
                      /\ undo' = [id |-> i, row |-> inst[i]]
                      /\ UNCHANGED <<now, used, pc, ctx>>
  BY DEF DeleteTask
<1>2. inst' \in [Id -> Row \cup {NoRow}] /\ inst'[i] = NoRow
      /\ \A j \in Id \ {i} : inst'[j] = inst[j]
  BY <1>1 DEF IInv, TypeOK
<1>3. OnePerPeriod' /\ TableInv'
  BY <1>1, <1>2 DEF IInv, OnePerPeriod, TableInv, Exists, SeriesUsed
<1>4. undo' \in [id : Id \cup {None}, row : Row \cup {NoRow}] /\ UndoInv'
  <2>1. i \in used /\ inst[i] \in Row /\ inst[i] # NoRow
        /\ inst[i].series \in used \cup {None}
    BY <1>1 DEF IInv, TypeOK, TableInv, SeriesUsed, Exists
  <2> QED BY <1>1, <2>1 DEF UndoInv, SeriesUsed
<1>5. used \subseteq used' /\ used' \subseteq Id
  BY <1>1 DEF IInv, TypeOK
<1> QED BY <1>1, <1>2, <1>3, <1>4, <1>5, TableStep

LEMMA RestorePreserves == ASSUME IInv, RestoreTask PROVE IInv'
<1>1. /\ undo.id \in used /\ undo.row \in Row /\ undo.row.series \in used \cup {None}
      /\ used \subseteq Id
  BY DEF RestoreTask, IInv, TypeOK, UndoInv, SeriesUsed
<1>2. inst' \in [Id -> Row \cup {NoRow}] /\ OnePerPeriod' /\ TableInv'
  BY <1>1, WritePreserves DEF RestoreTask, IInv
<1>3. UndoInv' /\ undo' \in [id : Id \cup {None}, row : Row \cup {NoRow}]
  BY DEF RestoreTask, IInv, TypeOK, UndoInv, SeriesUsed
<1> QED BY <1>1, <1>2, <1>3, TableStep DEF RestoreTask

LEMMA TickPreserves == ASSUME IInv, Tick PROVE IInv'
<1>1. now' \in 1..MaxPeriod
  BY CalendarAssumption DEF Tick, IInv, TypeOK
<1>2. TypeOK'
  BY <1>1 DEF Tick, IInv, TypeOK
<1>3. OnePerPeriod' /\ TableInv' /\ UndoInv'
  BY DEF Tick, IInv, OnePerPeriod, TableInv, UndoInv, Exists, SeriesUsed
<1>4. \A r \in Request : ContextInv(r)'
  BY DEF Tick, IInv, ContextInv, Live
<1> QED BY <1>2, <1>3, <1>4 DEF IInv

-------------------------------------------------------------------------------
(* The theorems about every behaviour.                                      *)

LEMMA InvStep == ASSUME IInv, [Next]_vars PROVE IInv'
<1>1. ASSUME Next PROVE IInv'
  BY <1>1, ReadPreserves, ClockPreserves, SpawnPreserves, EndPreserves,
     CreatePreserves, PatchPreserves, RescheduleReadPreserves,
     RescheduleWritePreserves, DeletePreserves, RestorePreserves, TickPreserves
     DEF Next
<1>2. ASSUME UNCHANGED vars PROVE IInv'
  BY <1>2 DEF vars, IInv, TypeOK, OnePerPeriod, TableInv, UndoInv, ContextInv,
     Instances, Exists, SeriesUsed, Live
<1> QED BY <1>1, <1>2

\* The inductive invariant holds whatever clients send: series ids belong to
\* tasks that existed, and the locals of a running Materialize or Reschedule
\* name rows and series of the table (tasks.go, task_views.go).
THEOREM Invariance == Spec => []IInv
<1>1. Init => IInv
  BY InitInv
<1>2. IInv /\ [Next]_vars => IInv'
  BY InvStep
<1> QED BY <1>1, <1>2, PTL DEF Spec

\* The table of instances, the undo snapshot and the locals of every request
\* keep their types, whatever clients send.
THEOREM TypeCorrect == Spec => []TypeOK
<1>1. IInv => TypeOK
  BY DEF IInv
<1> QED BY <1>1, Invariance, PTL

\* Whatever interleaving of reads, moves, deletes and undos: never two
\* instances of a series in one period (the unique index of 0001_init.up.sql,
\* ON CONFLICT DO NOTHING in Materialize and RestoreTasks).
THEOREM NoDuplicateInstance == Spec => []OnePerPeriod
<1>1. IInv => OnePerPeriod
  BY DEF IInv
<1> QED BY <1>1, Invariance, PTL

-------------------------------------------------------------------------------
(* Series nobody edits.                                                     *)

\* Rows are added, none is changed or removed.
Grows == \A j \in Id : Exists(j) => inst'[j] = inst[j]

LEMMA GrowsKeeps ==
    ASSUME Grows, NEW s \in Id
    PROVE  /\ Instances(s) \subseteq Instances(s)'
           /\ \A j \in Instances(s) : inst'[j] = inst[j]
           /\ \A p \in Period : Spawned(s, p) => Spawned(s, p)'
<1>1. \A j \in Instances(s) : j \in Instances(s)' /\ inst'[j] = inst[j]
  BY DEF Grows, Instances, Exists
<1> QED BY <1>1 DEF Spawned

\* What the head of a live series, as read, says about the table.
LEMMA HeadOf ==
    ASSUME TypeOK, CalendarInv, NEW r \in Request, NEW s \in Id, Live(ctx[r].latest[s])
    PROVE  /\ s \in Instances(s) /\ inst[s] \in Row /\ inst[s].rec \in Recurring
           /\ inst[s].period \in Period
           /\ ctx[r].latest[s].rec = inst[s].rec
           /\ \E i \in Instances(s) : inst[i] = ctx[r].latest[s]
<1>1. PICK i \in Instances(s) : inst[i] = ctx[r].latest[s]
  BY DEF CalendarInv, ReadInv
<1>2. Exists(s) /\ inst[s].series = s /\ inst[s].rec # None /\ inst[i].rec = inst[s].rec
  BY <1>1 DEF CalendarInv, HeadRules
<1>3. inst[s] \in Row
  BY <1>2 DEF TypeOK, Exists
<1> QED BY <1>1, <1>2, <1>3 DEF Instances, Row

LEMMA OthersRead ==
    ASSUME TypeOK, CalendarInv, Grows, NEW x \in Request,
           ctx'[x] = ctx[x], pc'[x] = pc[x]
    PROVE  ReadInv(x)'
<1>1. \A s \in Id : Live(ctx[x].latest[s]) =>
         /\ inst'[s] = inst[s]
         /\ \E i \in Instances(s)' : inst'[i] = ctx[x].latest[s]
  BY HeadOf, GrowsKeeps
<1>2. ASSUME pc[x] = "spawn"
      PROVE  /\ \A row \in ctx[x].todo :
                   /\ row.series \in Id
                   /\ Live(ctx[x].latest[row.series])
                   /\ row.rec = inst'[row.series].rec
                   /\ row.period \in inst'[row.series].period + 1 .. ctx[x].at
                   /\ IsOccurrence(row.rec, row.period)
             /\ \A s \in Id : Live(ctx[x].latest[s]) =>
                   \A p \in inst'[s].period + 1 .. ctx[x].at :
                      IsOccurrence(inst'[s].rec, p) =>
                         Spawned(s, p)' \/ \E row \in ctx[x].todo :
                                              row.series = s /\ row.period = p
  <2>1. ReadInv(x)
    BY DEF CalendarInv
  <2>2. \A row \in ctx[x].todo :
           /\ row.series \in Id
           /\ Live(ctx[x].latest[row.series])
           /\ row.rec = inst'[row.series].rec
           /\ row.period \in inst'[row.series].period + 1 .. ctx[x].at
           /\ IsOccurrence(row.rec, row.period)
    BY <1>1, <1>2, <2>1 DEF ReadInv
  <2>3. ASSUME NEW s \in Id, Live(ctx[x].latest[s]),
               NEW p \in inst'[s].period + 1 .. ctx[x].at, IsOccurrence(inst'[s].rec, p)
        PROVE  Spawned(s, p)' \/ \E row \in ctx[x].todo : row.series = s /\ row.period = p
    <3>1. inst'[s] = inst[s] /\ inst[s].period \in Period /\ ctx[x].at \in Period
      BY <1>1, <2>3, HeadOf DEF TypeOK, Context
    <3>2. p \in Period
      BY <3>1, CalendarAssumption DEF Period
    <3>3. Spawned(s, p) \/ \E row \in ctx[x].todo : row.series = s /\ row.period = p
      BY <1>2, <2>1, <2>3, <3>1 DEF ReadInv
    <3> QED BY <3>2, <3>3, GrowsKeeps
  <2> QED BY <2>2, <2>3
<1> QED BY <1>1, <1>2 DEF ReadInv, Live

\* A request that writes nothing: what its new locals owe.
LEMMA LocalCalendar ==
    ASSUME TypeOK, CalendarInv, NEW r \in Request, NEW q \in PC \ {"reschedule"}, NEW c,
           Local(r, q, c), ReadInv(r)'
    PROVE  CalendarInv'
<1>1. Grows /\ inst' = inst
  BY DEF Local, Grows
<1>2. FollowsCalendar' /\ \A s \in Id : HeadRules(s)'
  BY <1>1 DEF CalendarInv, FollowsCalendar, HeadRules, Instances, Exists
<1>3. \A x \in Request : pc'[x] # "reschedule"
  BY DEF Local, TypeOK, CalendarInv
<1>4. ASSUME NEW x \in Request \ {r} PROVE ReadInv(x)'
  <2>1. ctx'[x] = ctx[x] /\ pc'[x] = pc[x]
    BY DEF Local, TypeOK
  <2> QED BY <1>1, <2>1, OthersRead
<1> QED BY <1>2, <1>3, <1>4 DEF CalendarInv

LEMMA ReadCalendar ==
    ASSUME TypeOK, CalendarInv, NEW r \in Request, MaterializeRead(r) PROVE CalendarInv'
<1> DEFINE c == [latest |-> [s \in Id |-> Latest(s)], at |-> 0, todo |-> {},
                 cur |-> None, id |-> None]
<1>1. Local(r, "clock", c)
  BY DEF MaterializeRead, Local
<1>2. ctx'[r] = c /\ pc'[r] = "clock" /\ inst' = inst
  BY <1>1 DEF Local, TypeOK
<1>3. ASSUME NEW s \in Id, Live(Latest(s)) PROVE \E i \in Instances(s)' : inst'[i] = Latest(s)
  <2>1. Instances(s) # {}
    BY <1>3 DEF Latest, Live
  <2> QED BY <1>2, <2>1, LatestIs DEF Instances, Exists
<1>4. ReadInv(r)'
  <2>1. \A s \in Id : ctx'[r].latest[s] = Latest(s)
    BY <1>2
  <2> HIDE DEF c
  <2> QED BY <1>2, <1>3, <2>1 DEF ReadInv, Live
<1> HIDE DEF c
<1> QED BY <1>1, <1>4, LocalCalendar DEF PC

LEMMA EndCalendar ==
    ASSUME TypeOK, CalendarInv, NEW r \in Request, MaterializeEnd(r) PROVE CalendarInv'
<1>1. Local(r, "idle", NoContext)
  BY DEF MaterializeEnd, Finish, Local
<1>2. ctx'[r] = NoContext /\ pc'[r] = "idle"
  BY <1>1 DEF Local, TypeOK
<1>3. ReadInv(r)'
  BY <1>2 DEF ReadInv, NoContext, Live
<1> QED BY <1>1, <1>3, LocalCalendar DEF PC

LEMMA ClockCalendar ==
    ASSUME IInv, CalendarInv, NEW r \in Request, MaterializeClock(r) PROVE CalendarInv'
<1> DEFINE latest == ctx[r].latest
           todo == UNION {Missing(latest[s], now) : s \in {x \in Id : Live(latest[x])}}
           c == [latest |-> latest, at |-> now, todo |-> todo, cur |-> None, id |-> None]
<1>1. Local(r, "spawn", c)
  BY DEF MaterializeClock, Local
<1>2. ctx'[r] = c /\ pc'[r] = "spawn" /\ inst' = inst /\ now \in 1..MaxPeriod
  BY <1>1 DEF Local, IInv, TypeOK
<1>3. latest \in [Id -> Row \cup {NoRow}] /\ TypeOK
  BY DEF IInv, TypeOK, Context
<1>4. ASSUME NEW s \in Id, Live(latest[s])
      PROVE  /\ latest[s] \in Row /\ latest[s].series = s
             /\ s \in Instances(s) /\ inst[s].rec \in Recurring /\ inst[s].period \in Period
             /\ latest[s].rec = inst[s].rec
             /\ \E i \in Instances(s) : inst[i] = latest[s]
             /\ latest[s].period \in Period /\ latest[s].period >= inst[s].period
  <2>1. PICK i \in Instances(s) : inst[i] = latest[s]
    BY <1>3, <1>4, HeadOf
  <2>2. latest[s] \in Row /\ latest[s].period \in Period /\ latest[s].series = s
    BY <1>3, <1>4 DEF Live, Row, IInv, ContextInv
  <2>3. i # s => inst[s].period < inst[i].period
    BY <2>1 DEF CalendarInv, FollowsCalendar
  <2> QED BY <1>3, <1>4, <2>1, <2>2, <2>3, HeadOf DEF Period
<1>5. ASSUME NEW s \in Id, Live(latest[s]),
             NEW p \in inst[s].period + 1 .. now, IsOccurrence(inst[s].rec, p)
      PROVE  Spawned(s, p) \/ \E row \in todo : row.series = s /\ row.period = p
  <2>1. PICK i \in Instances(s) : inst[i] = latest[s]
    BY <1>4, <1>5
  <2>2. p \in Nat /\ inst[s].period \in Nat /\ latest[s].period \in Nat
    BY <1>2, <1>4, <1>5 DEF Period
  <2>3. CASE p < latest[s].period
    <3>1. i # s
      BY <1>5, <2>1, <2>2, <2>3
    <3>2. p \in inst[s].period + 1 .. inst[i].period - 1
      BY <1>5, <2>1, <2>2, <2>3
    <3> QED BY <1>5, <3>1, <3>2 DEF CalendarInv, FollowsCalendar, Spawned
  <2>4. CASE p = latest[s].period
    BY <2>1, <2>4 DEF Spawned
  <2>5. CASE p > latest[s].period
    <3>1. p \in MissingPeriods(latest[s].rec, latest[s].period, now)
      BY <1>2, <1>4, <1>5, <2>2, <2>5 DEF MissingPeriods
    <3>2. [series |-> latest[s].series, period |-> p, rec |-> latest[s].rec] \in Missing(latest[s], now)
      BY <3>1 DEF Missing
    <3>3. [series |-> latest[s].series, period |-> p, rec |-> latest[s].rec] \in todo
      BY <1>5, <3>2
    <3> QED BY <1>4, <1>5, <3>3
  <2> QED BY <2>2, <2>3, <2>4, <2>5
<1>6. ASSUME NEW row \in todo
      PROVE  /\ row.series \in Id /\ Live(latest[row.series])
             /\ row.rec = inst[row.series].rec
             /\ row.period \in inst[row.series].period + 1 .. now
             /\ IsOccurrence(row.rec, row.period)
  <2>1. PICK s \in Id : Live(latest[s]) /\ row \in Missing(latest[s], now)
    BY <1>6
  <2>2. /\ row.series = s /\ row.rec = latest[s].rec
        /\ row.period \in latest[s].period + 1 .. now
        /\ IsOccurrence(latest[s].rec, row.period)
    <3> HIDE DEF latest
    <3> QED BY <1>2, <1>4, <2>1, MissingRows
  <2>3. row.period \in inst[s].period + 1 .. now
    BY <1>2, <1>4, <2>1, <2>2 DEF Period
  <2> QED BY <1>4, <2>1, <2>2, <2>3
<1>7. \A s \in Id : \A p : Spawned(s, p)' = Spawned(s, p)
  BY <1>2 DEF Spawned, Instances, Exists
<1>8. \A s \in Id : Live(latest[s]) => \E i \in Instances(s)' : inst'[i] = latest[s]
  BY <1>2, <1>4 DEF Instances, Exists
<1>9. ReadInv(r)'
  <2>1. ctx'[r].latest = latest /\ ctx'[r].at = now /\ ctx'[r].todo = todo
    BY <1>2
  <2>2. \A row \in todo : row.series \in Id /\ Live(latest[row.series])
    BY <1>6
  <2> HIDE DEF todo, latest, c
  <2>3. ASSUME NEW s \in Id, Live(latest[s]),
               NEW p \in inst[s].period + 1 .. now, IsOccurrence(inst[s].rec, p)
        PROVE  Spawned(s, p)' \/ \E row \in todo : row.series = s /\ row.period = p
    BY <1>5, <1>7, <2>3
  <2> QED BY <1>2, <1>6, <1>8, <2>1, <2>3 DEF ReadInv, Live
<1> HIDE DEF c
<1> QED BY <1>1, <1>3, <1>9, LocalCalendar DEF PC

\* A row that is the next occurrence of its series, at a fresh id.
LEMMA AppendCalendar ==
    ASSUME IInv, CalendarInv, NEW i \in Id \ used, NEW row \in Row,
           inst' = [inst EXCEPT ![i] = row],
           row.series # None => row.rec # None,
           row.series \notin {None, i} =>
              /\ row.series \in Instances(row.series)
              /\ row.rec = inst[row.series].rec
              /\ inst[row.series].period < row.period
              /\ IsOccurrence(row.rec, row.period)
              /\ \A p \in inst[row.series].period + 1 .. row.period - 1 :
                    IsOccurrence(row.rec, p) => Spawned(row.series, p)
    PROVE  Grows /\ FollowsCalendar' /\ \A s \in Id : HeadRules(s)'
<1>1. ~Exists(i) /\ inst'[i] = row /\ row # NoRow /\ \A j \in Id \ {i} : inst'[j] = inst[j]
  BY SeriesAssumption DEF IInv, TypeOK, TableInv, Exists
<1>2. Grows
  BY <1>1 DEF Grows
<1>3. Instances(i) = {}
  BY <1>1, SeriesAssumption DEF IInv, TableInv, SeriesUsed, Instances, Exists
<1>4. \A s \in Id : Instances(s)' = Instances(s) \cup (IF row.series = s THEN {i} ELSE {})
  BY <1>1 DEF Instances, Exists
<1>5. \A s \in Id \ {i} : Instances(s)' # {} => s \in Instances(s) /\ inst'[s] = inst[s]
  BY <1>1, <1>4, SeriesAssumption DEF CalendarInv, HeadRules, Instances, Exists
<1>6. ASSUME NEW s \in Id PROVE HeadRules(s)'
  <2>1. CASE s = i
    BY <1>1, <1>3, <1>4, <2>1, SeriesAssumption DEF HeadRules, Exists
  <2>2. CASE s # i /\ Instances(s)' # {}
    <3>1. HeadRules(s)
      BY DEF CalendarInv
    <3>2. ASSUME NEW j \in Instances(s)'
          PROVE  /\ Exists(s)' /\ inst'[s].series = s /\ inst'[s].rec # None
                 /\ inst'[j].rec = inst'[s].rec
      <4>1. CASE j = i
        BY <1>1, <1>4, <1>5, <2>2, <3>1, <3>2, <4>1, SeriesAssumption DEF HeadRules, Instances, Exists
      <4>2. CASE j # i
        BY <1>1, <1>4, <1>5, <2>2, <3>1, <3>2, <4>2 DEF HeadRules, Instances, Exists
      <4> QED BY <4>1, <4>2
    <3> QED BY <3>2 DEF HeadRules
  <2>3. CASE s # i /\ Instances(s)' = {}
    BY <2>3 DEF HeadRules
  <2> QED BY <2>1, <2>2, <2>3
<1>7. ASSUME NEW s \in Id, NEW j \in Instances(s)' \ {s}
      PROVE  /\ Exists(s)' /\ inst'[s].rec # None
             /\ inst'[s].period < inst'[j].period
             /\ IsOccurrence(inst'[s].rec, inst'[j].period)
             /\ \A p \in inst'[s].period + 1 .. inst'[j].period - 1 :
                   IsOccurrence(inst'[s].rec, p) =>
                      \E k \in Instances(s)' : inst'[k].period = p
  <2>1. s # i
    BY <1>3, <1>4, <1>7
  <2>2. s \in Instances(s) /\ inst'[s] = inst[s]
    BY <1>5, <1>7, <2>1
  <2>3. Exists(s)' /\ inst'[s].rec # None
    BY <1>6, <1>7 DEF HeadRules
  <2>4. \A p : Spawned(s, p) => \E k \in Instances(s)' : inst'[k].period = p
    BY <1>1, <1>4 DEF Spawned, Instances, Exists
  <2>5. CASE j = i
    <3>1. row.series = s
      BY <1>1, <1>4, <1>7, <2>5 DEF Instances, Exists
    <3> QED BY <1>1, <2>1, <2>2, <2>3, <2>4, <2>5, <3>1, SeriesAssumption
  <2>6. CASE j # i
    <3>1. j \in Instances(s) \ {s} /\ inst'[j] = inst[j]
      BY <1>1, <1>4, <1>7, <2>6
    <3> QED BY <2>2, <2>3, <2>4, <3>1 DEF CalendarInv, FollowsCalendar, Spawned
  <2> QED BY <2>5, <2>6
<1>8. FollowsCalendar'
  BY <1>7 DEF FollowsCalendar
<1> QED BY <1>2, <1>6, <1>8

LEMMA SpawnCalendar ==
    ASSUME IInv, CalendarInv, NEW r \in Request, Spawn(r) PROVE CalendarInv'
<1>1. PICK row \in ctx[r].todo :
         /\ NextUp(r, row)
         /\ IF SlotFree(None, row)
            THEN \E i \in Id \ used : /\ inst' = [inst EXCEPT ![i] = row]
                                     /\ used' = used \cup {i}
            ELSE UNCHANGED <<inst, used>>
         /\ ctx' = [ctx EXCEPT ![r] =
               [latest |-> ctx[r].latest, at |-> ctx[r].at,
                todo |-> ctx[r].todo \ {row}, cur |-> row.series, id |-> None]]
  BY DEF Spawn
<1> DEFINE s0 == row.series
           latest == ctx[r].latest
           at == ctx[r].at
           todo == ctx[r].todo
<1>2. /\ pc[r] = "spawn" /\ pc' = pc /\ ReadInv(r) /\ TypeOK
      /\ at \in Period /\ row \in Row /\ todo \subseteq Row
  BY DEF Spawn, CalendarInv, IInv, TypeOK, Context
<1>3. /\ ctx'[r].latest = latest /\ ctx'[r].at = at /\ ctx'[r].todo = todo \ {row}
      /\ \A x \in Request \ {r} : ctx'[x] = ctx[x]
  BY <1>1 DEF IInv, TypeOK
<1>4. /\ s0 \in Id /\ Live(latest[s0]) /\ row.rec = inst[s0].rec
      /\ row.period \in inst[s0].period + 1 .. at
      /\ IsOccurrence(row.rec, row.period)
  BY <1>1, <1>2 DEF ReadInv
<1>5. /\ s0 \in Instances(s0) /\ inst[s0].rec \in Recurring /\ inst[s0].period \in Period
      /\ s0 # None /\ row.rec # None
  BY <1>2, <1>4, HeadOf, SeriesAssumption
<1>6. \A p \in inst[s0].period + 1 .. row.period - 1 :
         IsOccurrence(row.rec, p) => Spawned(s0, p)
  <2>1. ASSUME NEW p \in inst[s0].period + 1 .. row.period - 1, IsOccurrence(row.rec, p)
        PROVE  Spawned(s0, p)
    <3>1. p \in inst[s0].period + 1 .. at /\ p < row.period
      BY <1>2, <1>4, <1>5, <2>1 DEF Period
    <3>2. Spawned(s0, p) \/ \E y \in todo : y.series = s0 /\ y.period = p
      BY <1>2, <1>4, <2>1, <3>1 DEF ReadInv
    <3>3. \A y \in todo : y.series = s0 => y.period >= row.period
      BY <1>1 DEF NextUp
    <3>4. row.period \in Period /\ p \in Nat
      BY <1>2, <1>5, <3>1 DEF Row, Period
    <3> QED BY <3>1, <3>2, <3>3, <3>4 DEF Period
  <2> QED BY <2>1
<1>7. /\ Grows /\ FollowsCalendar' /\ \A s \in Id : HeadRules(s)'
      /\ Spawned(s0, row.period)'
  <2>1. CASE SlotFree(None, row)
    <3>1. PICK i \in Id \ used : inst' = [inst EXCEPT ![i] = row]
      BY <1>1, <2>1
    <3>2. inst[s0].period < row.period
      BY <1>2, <1>4, <1>5 DEF Period
    <3>3. Grows /\ FollowsCalendar' /\ \A s \in Id : HeadRules(s)'
      BY <1>2, <1>4, <1>5, <1>6, <3>1, <3>2, AppendCalendar
    <3>4. inst'[i] = row /\ row # NoRow
      BY <1>2, <3>1, SeriesAssumption DEF TypeOK
    <3>5. Spawned(s0, row.period)'
      BY <3>4 DEF Spawned, Instances, Exists
    <3> QED BY <3>3, <3>5
  <2>2. CASE ~SlotFree(None, row)
    <3>1. inst' = inst
      BY <1>1, <2>2
    <3>2. Spawned(s0, row.period)
      BY <2>2 DEF SlotFree, Spawned
    <3> QED BY <3>1, <3>2 DEF Grows, CalendarInv, FollowsCalendar, HeadRules,
                              Spawned, Instances, Exists
  <2> QED BY <2>1, <2>2
<1>8. \A x \in Request \ {r} : ReadInv(x)'
  BY <1>2, <1>3, <1>7, OthersRead
<1>9. ReadInv(r)'
  <2>1. \A s \in Id : Live(latest[s]) =>
           /\ inst'[s] = inst[s] /\ inst[s].period \in Period
           /\ \E i \in Instances(s)' : inst'[i] = latest[s]
    BY <1>2, <1>7, HeadOf, GrowsKeeps
  <2>2. \A y \in todo \ {row} :
           /\ y.series \in Id /\ Live(latest[y.series])
           /\ y.rec = inst'[y.series].rec
           /\ y.period \in inst'[y.series].period + 1 .. at
           /\ IsOccurrence(y.rec, y.period)
    BY <1>2, <2>1 DEF ReadInv
  <2>3. ASSUME NEW s \in Id, Live(latest[s]),
               NEW p \in inst'[s].period + 1 .. at, IsOccurrence(inst'[s].rec, p)
        PROVE  Spawned(s, p)' \/ \E y \in todo \ {row} : y.series = s /\ y.period = p
    <3>1. p \in inst[s].period + 1 .. at /\ IsOccurrence(inst[s].rec, p)
      BY <2>1, <2>3
    <3>2. p \in Period
      BY <1>2, <2>1, <2>3, <3>1, CalendarAssumption DEF Period
    <3>3. Spawned(s, p) \/ \E y \in todo : y.series = s /\ y.period = p
      BY <1>2, <2>3, <3>1 DEF ReadInv
    <3>4. CASE Spawned(s, p)
      BY <1>7, <3>2, <3>4, GrowsKeeps
    <3>5. CASE \E y \in todo : y.series = s /\ y.period = p
      BY <1>7, <3>5
    <3> QED BY <3>3, <3>4, <3>5
  <2> HIDE DEF latest, at, todo
  <2> QED BY <1>2, <1>3, <2>1, <2>2, <2>3 DEF ReadInv, Live
<1>10. \A x \in Request : pc'[x] # "reschedule"
  BY <1>2 DEF CalendarInv
<1> QED BY <1>7, <1>8, <1>9, <1>10 DEF CalendarInv

LEMMA CreateCalendar == ASSUME IInv, CalendarInv, CreateTask PROVE CalendarInv'
<1>1. PICK i \in Id \ used, p \in StartPeriods, rule \in Rules :
         /\ inst' = [inst EXCEPT ![i] =
               [series |-> IF rule = None THEN None ELSE i, period |-> p,
                rec |-> IF rule = None THEN None ELSE Anchored(rule, p)]]
         /\ UNCHANGED <<now, undo, pc, ctx>>
  BY DEF CreateTask
<1> DEFINE row == [series |-> IF rule = None THEN None ELSE i, period |-> p,
                   rec |-> IF rule = None THEN None ELSE Anchored(rule, p)]
<1>2. p \in Period /\ (rule # None => rule \in Rule)
  BY SeriesAssumption DEF Period
<1>3. row \in Row /\ (row.series # None => row.rec # None) /\ row.series \in {None, i}
  <2>1. rule # None => Anchored(rule, p) \in Recurring
    BY <1>2, AnchoredType
  <2> QED BY <1>2, <2>1, SeriesAssumption DEF Row
<1>4. inst' = [inst EXCEPT ![i] = row]
  BY <1>1
<1>5. Grows /\ FollowsCalendar' /\ \A s \in Id : HeadRules(s)'
  <2> HIDE DEF row
  <2> QED BY <1>3, <1>4, AppendCalendar
<1>6. \A x \in Request : ReadInv(x)'
  BY <1>1, <1>5, OthersRead DEF IInv
<1> QED BY <1>1, <1>5, <1>6 DEF CalendarInv

LEMMA CalendarInductive ==
    ASSUME Unedited, IInv, CalendarInv, [Next]_vars PROVE CalendarInv'
<1>1. ~PatchTask /\ ~DeleteTask /\ ~RestoreTask
  BY DEF Unedited, PatchTask, DeleteTask, RestoreTask
<1>2. \A r \in Request : ~RescheduleRead(r) /\ ~RescheduleWrite(r)
  BY DEF Unedited, RescheduleRead, RescheduleWrite, CalendarInv
<1>3. ASSUME UNCHANGED <<inst, pc, ctx>> PROVE CalendarInv'
  <2>1. Grows
    BY <1>3 DEF Grows
  <2>2. \A x \in Request : ReadInv(x)'
    BY <1>3, <2>1, OthersRead DEF IInv
  <2> QED BY <1>3, <2>2 DEF CalendarInv, FollowsCalendar, HeadRules, Instances, Exists
<1>4. CASE Tick
  BY <1>3, <1>4 DEF Tick
<1>5. CASE UNCHANGED vars
  BY <1>3, <1>5 DEF vars
<1> QED BY <1>1, <1>2, <1>4, <1>5, ReadCalendar, ClockCalendar, SpawnCalendar,
           EndCalendar, CreateCalendar DEF Next, IInv

LEMMA CalendarInit == ASSUME Init PROVE CalendarInv
BY DEF Init, CalendarInv, FollowsCalendar, HeadRules, Instances, Exists,
       ReadInv, NoContext, Live

\* As long as tasks are only created and read, every series follows its
\* calendar, for any number of reads that spawn it at once and are cut off
\* anywhere: Materialize leaves no hole, no extra and no early instance.
THEOREM SeriesFollowsCalendar == ASSUME Unedited PROVE Spec => []FollowsCalendar
<1>1. Init => IInv /\ CalendarInv
  BY InitInv, CalendarInit
<1>2. IInv /\ CalendarInv /\ [Next]_vars => CalendarInv'
  BY CalendarInductive
<1>3. CalendarInv => FollowsCalendar
  BY DEF CalendarInv
<1> QED BY <1>1, <1>2, <1>3, Invariance, PTL DEF Spec

\* As long as tasks are only created and read, a read that ran Materialize to
\* its end finds every instance up to its own clock.
THEOREM ReadsAreCaughtUp == ASSUME Unedited PROVE Spec => []CaughtUp
<1>1. Init => IInv /\ CalendarInv
  BY InitInv, CalendarInit
<1>2. IInv /\ CalendarInv /\ [Next]_vars => CalendarInv'
  BY CalendarInductive
<1>3. CalendarInv => CaughtUp
  <2>1. ASSUME CalendarInv, NEW r \in Request, pc[r] = "spawn", ctx[r].todo = {},
               NEW s \in Id, Live(ctx[r].latest[s]),
               NEW p \in inst[s].period + 1 .. ctx[r].at, IsOccurrence(inst[s].rec, p)
        PROVE  \E j \in Instances(s) : inst[j].period = p
    BY <2>1 DEF CalendarInv, ReadInv, Spawned
  <2> QED BY <2>1 DEF CaughtUp
<1> QED BY <1>1, <1>2, <1>3, Invariance, PTL DEF Spec

-------------------------------------------------------------------------------
(* A series that ended stays ended, while requests do not overlap.          *)

\* Outside these steps a request that reads or reschedules is alone, and every
\* other step waits until none is under way.
LEMMA OthersIdle ==
    ASSUME SerialInv, NEW r \in Request, pc[r] # "idle"
    PROVE  \A x \in Request \ {r} : pc[x] = "idle"
BY DEF SerialInv

\* A step of one request that leaves the others idle.
LEMMA AloneStep ==
    ASSUME TypeOK, NEW r \in Request, NEW q, NEW c,
           \A x \in Request \ {r} : pc[x] = "idle",
           pc' = [pc EXCEPT ![r] = q], ctx' = [ctx EXCEPT ![r] = c],
           q = "clock" => \A s \in Id : Live(c.latest[s]) => Open(s)',
           q = "spawn" => \A row \in c.todo :
                             row.series \in Id /\ row.rec # None /\ Open(row.series)'
    PROVE  SerialInv'
<1>1. pc'[r] = q /\ ctx'[r] = c /\ \A x \in Request \ {r} : pc'[x] = "idle"
  BY DEF TypeOK
<1> QED BY <1>1 DEF SerialInv, Live

\* At rest no request holds anything, so a step that starts none keeps that.
LEMMA RestStep ==
    ASSUME Rest, UNCHANGED <<pc, ctx>> PROVE SerialInv'
BY DEF Rest, SerialInv

\* A row inserted for an open series leaves every series open that was.
LEMMA AppendKeepsOpen ==
    ASSUME TypeOK, TableInv, NEW i \in Id \ used, NEW row \in Row,
           row.rec # None, inst' = [inst EXCEPT ![i] = row],
           NEW s \in Id, Open(s)
    PROVE  Open(s)'
<1>1. /\ inst[i] = NoRow /\ inst'[i] = row /\ \A j \in Id \ {i} : inst'[j] = inst[j]
      /\ row # NoRow
  BY SeriesAssumption DEF TypeOK, TableInv, Exists
<1>2. PICK k \in Instances(s) :
         inst[k].rec # None /\ \A j \in Instances(s) : inst[j].period <= inst[k].period
  BY DEF Open
<1>3. k \in Id /\ k # i /\ inst'[k] = inst[k] /\ k \in Instances(s)'
  BY <1>1, <1>2 DEF Instances, Exists
<1>4. \A j \in Instances(s)' : j # i => j \in Instances(s) /\ inst'[j] = inst[j]
  BY <1>1 DEF Instances, Exists
<1>5. row.period \in Period /\ inst[k].period \in Period
  BY <1>2, <1>3 DEF Row, TypeOK, Instances, Exists
<1>6. CASE row.series = s /\ row.period >= inst[k].period
  <2>1. i \in Instances(s)'
    BY <1>1, <1>6 DEF Instances, Exists
  <2>2. \A j \in Instances(s) : inst[j].period \in Period
    BY DEF Row, TypeOK, Instances, Exists
  <2>3. \A j \in Instances(s)' : inst'[j].period <= inst'[i].period
    BY <1>1, <1>2, <1>4, <1>5, <1>6, <2>2 DEF Period
  <2> QED BY <1>1, <2>1, <2>3 DEF Open
<1>7. CASE ~(row.series = s /\ row.period >= inst[k].period)
  <2>1. \A j \in Instances(s)' : inst'[j].period <= inst'[k].period
    <3>1. i \in Instances(s)' => row.series = s
      BY <1>1 DEF Instances
    <3> QED BY <1>1, <1>2, <1>3, <1>4, <1>5, <1>7, <3>1 DEF Period
  <2> QED BY <1>2, <1>3, <2>1 DEF Open
<1> QED BY <1>6, <1>7

LEMMA ReadSerial ==
    ASSUME IInv, Rest, NEW r \in Request, MaterializeRead(r) PROVE SerialInv'
<1> DEFINE c == [latest |-> [s \in Id |-> Latest(s)], at |-> 0, todo |-> {},
                 cur |-> None, id |-> None]
<1>1. ASSUME NEW s \in Id, Live(Latest(s)) PROVE Open(s)'
  <2>1. Instances(s) # {}
    BY <1>1 DEF Latest, Live
  <2>2. Open(s)
    BY <1>1, <2>1, LatestIs DEF IInv, Open, Live
  <2> QED BY <2>2 DEF Open, Instances, Exists, MaterializeRead
<1>2. \A x \in Request \ {r} : pc[x] = "idle"
  BY DEF Rest
<1>3. \A s \in Id : Live(c.latest[s]) => Open(s)'
  BY <1>1
<1>4. pc' = [pc EXCEPT ![r] = "clock"] /\ ctx' = [ctx EXCEPT ![r] = c]
  BY DEF MaterializeRead
<1> HIDE DEF c
<1> QED BY <1>2, <1>3, <1>4, AloneStep DEF IInv

LEMMA ClockSerial ==
    ASSUME IInv, SerialInv, NEW r \in Request, MaterializeClock(r) PROVE SerialInv'
<1> DEFINE latest == ctx[r].latest
           todo == UNION {Missing(latest[s], now) : s \in {x \in Id : Live(latest[x])}}
           c == [latest |-> latest, at |-> now, todo |-> todo, cur |-> None, id |-> None]
<1>1. latest \in [Id -> Row \cup {NoRow}] /\ now \in 1..MaxPeriod
  BY DEF IInv, TypeOK, Context
<1>2. \A s \in Id : Live(latest[s]) =>
         latest[s] \in Row /\ latest[s].series = s /\ latest[s].rec # None /\ Open(s)
  BY <1>1 DEF IInv, ContextInv, Live, SerialInv, MaterializeClock
<1>3. ASSUME NEW row \in todo
      PROVE  row.series \in Id /\ row.rec # None /\ Open(row.series)'
  <2>1. PICK s \in Id : Live(latest[s]) /\ row \in Missing(latest[s], now)
    BY <1>3
  <2>2. row.series = s /\ row.rec = latest[s].rec
    <3> HIDE DEF latest
    <3> QED BY <1>1, <1>2, <2>1, MissingRows
  <2>3. Open(s)'
    BY <1>2, <2>1 DEF Open, Instances, Exists, MaterializeClock
  <2> QED BY <1>2, <2>1, <2>2, <2>3
<1>4. pc' = [pc EXCEPT ![r] = "spawn"] /\ ctx' = [ctx EXCEPT ![r] = c]
  BY DEF MaterializeClock
<1>5. \A x \in Request \ {r} : pc[x] = "idle"
  BY OthersIdle DEF MaterializeClock
<1>6. c.todo = todo
  OBVIOUS
<1> HIDE DEF c, todo
<1> QED BY <1>3, <1>4, <1>5, <1>6, AloneStep DEF IInv

\* What a read inserts is for a series that is open.
LEMMA SpawnIsOpen ==
    ASSUME IInv, SerialInv, NEW r \in Request, Spawn(r)
    PROVE  \E row \in ctx[r].todo :
              /\ row \in Row /\ row.rec # None /\ row.series \in Id /\ Open(row.series)
              /\ \/ \E i \in Id \ used : /\ inst' = [inst EXCEPT ![i] = row]
                                         /\ used' = used \cup {i}
                 \/ UNCHANGED <<inst, used>>
              /\ ctx' = [ctx EXCEPT ![r] =
                    [latest |-> ctx[r].latest, at |-> ctx[r].at,
                     todo |-> ctx[r].todo \ {row}, cur |-> row.series, id |-> None]]
<1>1. pc[r] = "spawn" /\ ctx[r].todo \subseteq Row
  BY DEF Spawn, IInv, TypeOK, Context
<1>2. \A row \in ctx[r].todo : row.series \in Id /\ row.rec # None /\ Open(row.series)
  BY <1>1 DEF SerialInv
<1> QED BY <1>1, <1>2 DEF Spawn

LEMMA SpawnSerial ==
    ASSUME IInv, SerialInv, NEW r \in Request, Spawn(r) PROVE SerialInv'
<1>1. PICK row \in ctx[r].todo :
         /\ row \in Row /\ row.rec # None /\ row.series \in Id /\ Open(row.series)
         /\ \/ \E i \in Id \ used : /\ inst' = [inst EXCEPT ![i] = row]
                                    /\ used' = used \cup {i}
            \/ UNCHANGED <<inst, used>>
         /\ ctx' = [ctx EXCEPT ![r] =
               [latest |-> ctx[r].latest, at |-> ctx[r].at,
                todo |-> ctx[r].todo \ {row}, cur |-> row.series, id |-> None]]
  BY SpawnIsOpen
<1> DEFINE c == [latest |-> ctx[r].latest, at |-> ctx[r].at,
                 todo |-> ctx[r].todo \ {row}, cur |-> row.series, id |-> None]
<1>2. ASSUME NEW s \in Id, Open(s) PROVE Open(s)'
  <2>1. CASE UNCHANGED <<inst, used>>
    BY <1>2, <2>1 DEF Open, Instances, Exists
  <2>2. ASSUME NEW i \in Id \ used, inst' = [inst EXCEPT ![i] = row] PROVE Open(s)'
    BY <1>1, <1>2, <2>2, AppendKeepsOpen DEF IInv
  <2> QED BY <1>1, <2>1, <2>2
<1>3. \A x \in c.todo : x.series \in Id /\ x.rec # None /\ Open(x.series)
  BY DEF SerialInv, Spawn
<1>4. \A x \in c.todo : x.series \in Id /\ x.rec # None /\ Open(x.series)'
  <2> HIDE DEF c
  <2> QED BY <1>2, <1>3
<1>5. pc' = [pc EXCEPT ![r] = "spawn"] /\ ctx' = [ctx EXCEPT ![r] = c]
  BY <1>1 DEF Spawn, IInv, TypeOK
<1>6. \A x \in Request \ {r} : pc[x] = "idle"
  BY OthersIdle DEF Spawn
<1> HIDE DEF c
<1> QED BY <1>4, <1>5, <1>6, AloneStep DEF IInv

\* A request that starts a reschedule, or ends, holds no series.
LEMMA OtherSerial ==
    ASSUME IInv, SerialInv, NEW r \in Request,
           MaterializeEnd(r) \/ RescheduleWrite(r) \/ (Rest /\ RescheduleRead(r))
    PROVE  SerialInv'
<1>1. \A x \in Request \ {r} : pc[x] = "idle"
  BY OthersIdle DEF MaterializeEnd, RescheduleWrite, Rest
<1>2. ASSUME Finish(r) PROVE SerialInv'
  BY <1>1, <1>2, AloneStep DEF Finish, IInv
<1>3. ASSUME RescheduleRead(r) PROVE SerialInv'
  <2>1. PICK i \in Id : ctx' = [ctx EXCEPT ![r] =
                [latest |-> [s \in Id |-> NoRow], at |-> now, todo |-> {},
                 cur |-> None, id |-> i]]
    BY <1>3 DEF RescheduleRead
  <2> QED BY <1>1, <1>3, <2>1, AloneStep DEF RescheduleRead, IInv
<1> QED BY <1>2, <1>3 DEF MaterializeEnd, RescheduleWrite

LEMMA SerialInductive ==
    ASSUME IInv, SerialInv, [SerialNext]_vars PROVE SerialInv'
<1>1. CASE UNCHANGED vars \/ Tick
  BY <1>1 DEF vars, Tick, SerialInv, Live, Open, Instances, Exists
<1>2. CASE Rest /\ (CreateTask \/ PatchTask \/ DeleteTask \/ RestoreTask)
  BY <1>2, RestStep DEF CreateTask, PatchTask, DeleteTask, RestoreTask
<1>3. ASSUME NEW r \in Request,
             \/ Rest /\ MaterializeRead(r)
             \/ MaterializeClock(r) \/ Spawn(r) \/ MaterializeEnd(r)
             \/ Rest /\ RescheduleRead(r)
             \/ RescheduleWrite(r)
      PROVE  SerialInv'
  BY <1>3, ReadSerial, ClockSerial, SpawnSerial, OtherSerial
<1> QED BY <1>1, <1>2, <1>3 DEF SerialNext

\* Only a create and a read insert rows: a create starts a series of its own.
LEMMA EndedStep ==
    ASSUME IInv, SerialInv, [SerialNext]_vars
    PROVE  \A i \in used' \ used : ~Ended(inst'[i].series)
<1>1. ASSUME used' = used PROVE \A i \in used' \ used : ~Ended(inst'[i].series)
  BY <1>1
<1>2. ASSUME CreateTask PROVE \A i \in used' \ used : ~Ended(inst'[i].series)
  <2>1. PICK i \in Id \ used, p \in StartPeriods, rule \in Rules :
           /\ inst' = [inst EXCEPT ![i] =
                 [series |-> IF rule = None THEN None ELSE i, period |-> p,
                  rec |-> IF rule = None THEN None ELSE Anchored(rule, p)]]
           /\ used' = used \cup {i}
    BY <1>2 DEF CreateTask
  <2>2. inst'[i].series \in {None, i}
    BY <2>1 DEF IInv, TypeOK
  <2>3. None \notin used
    BY SeriesAssumption DEF IInv, TypeOK
  <2> QED BY <2>1, <2>2, <2>3 DEF Ended
<1>3. ASSUME NEW r \in Request, Spawn(r)
      PROVE  \A i \in used' \ used : ~Ended(inst'[i].series)
  <2>1. PICK row \in ctx[r].todo :
           /\ Open(row.series)
           /\ \/ \E i \in Id \ used : /\ inst' = [inst EXCEPT ![i] = row]
                                      /\ used' = used \cup {i}
              \/ UNCHANGED <<inst, used>>
    BY <1>3, SpawnIsOpen
  <2>2. ASSUME NEW i \in Id \ used, inst' = [inst EXCEPT ![i] = row]
        PROVE  inst'[i].series = row.series
    BY <2>2 DEF IInv, TypeOK
  <2> QED BY <2>1, <2>2, <1>1 DEF Ended
<1> QED BY <1>1, <1>2, <1>3
        DEF SerialNext, vars, MaterializeRead, MaterializeClock, MaterializeEnd,
            RescheduleRead, RescheduleWrite, PatchTask, DeleteTask, RestoreTask, Tick

\* While requests do not overlap, a series whose latest instance does not recur,
\* or that has no instance left, gets no further one (tasks.go, Materialize).
THEOREM EndedStaysEnded == SerialSpec => EndedSpawnsNothing
<1>1. Init => IInv /\ SerialInv
  <2>1. Init => SerialInv
    BY DEF Init, SerialInv
  <2> QED BY <2>1, InitInv
<1>2. IInv /\ [SerialNext]_vars => IInv'
  <2>1. [SerialNext]_vars => [Next]_vars
    BY DEF SerialNext, Next
  <2> QED BY <2>1, InvStep
<1>3. IInv /\ SerialInv /\ [SerialNext]_vars => SerialInv'
  BY SerialInductive
<1>4. IInv /\ SerialInv /\ [SerialNext]_vars =>
         [\A i \in used' \ used : ~Ended(inst'[i].series)]_vars
  BY EndedStep
<1> QED BY <1>1, <1>2, <1>3, <1>4, PTL DEF SerialSpec, EndedSpawnsNothing

===============================================================================
