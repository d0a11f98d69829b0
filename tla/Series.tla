-------------------------------- MODULE Series ---------------------------------
(***************************************************************************)
(* The instances of recurring tasks: Materialize, which every read of tasks *)
(* runs first, interleaved with itself and with the requests that edit,     *)
(* move, delete and restore instances.                                      *)
(*                                                                         *)
(* Materialize runs outside a transaction: one SELECT of every instance,    *)
(* the clock, then one INSERT per missing period.  The other requests read  *)
(* and write one row under its lock (TaskStore), hence are one step each    *)
(* here, except Reschedule, whose read takes no lock.                       *)
(* Of a task's columns only those of its series are kept.                   *)
(***************************************************************************)
EXTENDS Recurrence, FiniteSets

CONSTANTS
    Id,             \* ids of table tasks
    Request,        \* concurrent HTTP requests
    Rules,          \* recurrences clients ask for
    StartPeriods,   \* periods clients create tasks in
    Patches,        \* bodies clients send to PATCH /api/tasks/{id}
    AllowDelete,    \* whether clients send DELETE and restore
    AllowReschedule,\* whether clients send POST /api/tasks/reschedule
    None,           \* SQL NULL
    Keep,           \* a field the JSON patch does not mention
    NoRow           \* no task

Row == [series : Id \cup {None}, period : Period, rec : Recurring \cup {None}]

\* A recurrence in a patch: its freq is "weekdays" or not; Keep for the days, or
\* interval 0, where the body leaves them out (an interval of 0 is refused).
RulePatch == [listed : BOOLEAN, weekdays : {Keep} \cup SUBSET (1..DaysInWeek),
              interval : Nat]

Patch == [period : Period \cup {Keep}, rule : RulePatch \cup {None, Keep}]

ASSUME SeriesAssumption ==
    /\ Rules \subseteq Rule \cup {None}
    /\ StartPeriods \subseteq 1..MaxPeriod
    /\ Patches \subseteq Patch
    /\ AllowDelete \in BOOLEAN /\ AllowReschedule \in BOOLEAN
    /\ None \notin Id \cup Rule \cup RulePatch \cup Recurring
    /\ NoRow \notin Row
    /\ Keep \notin Period \cup RulePatch \cup {None}

VARIABLES
    now,    \* the current period
    inst,   \* table tasks: [Id -> Row \cup {NoRow}]
    used,   \* ids handed out so far
    undo,   \* the last deleted row and its id, held by the client's undo toast
    pc,     \* where each request stands
    ctx     \* its locals

vars == <<now, inst, used, undo, pc, ctx>>

-------------------------------------------------------------------------------

\* latest: the newest instance of each series, as read; at: the clock as read;
\* todo: the rows still to insert; cur: the series being spawned; id: the row
\* being rescheduled.
Context == [latest : [Id -> Row \cup {NoRow}], at : Period, todo : SUBSET Row,
            cur : Id \cup {None}, id : Id \cup {None}]

NoContext == [latest |-> [s \in Id |-> NoRow], at |-> 0, todo |-> {},
              cur |-> None, id |-> None]

PC == {"idle", "clock", "spawn", "reschedule"}

TypeOK ==
    /\ now \in 1..MaxPeriod
    /\ inst \in [Id -> Row \cup {NoRow}]
    /\ used \subseteq Id
    /\ undo \in [id : Id \cup {None}, row : Row \cup {NoRow}]
    /\ pc \in [Request -> PC]
    /\ ctx \in [Request -> Context]

Init ==
    /\ now = 1
    /\ inst = [i \in Id |-> NoRow]
    /\ used = {}
    /\ undo = [id |-> None, row |-> NoRow]
    /\ pc = [r \in Request |-> "idle"]
    /\ ctx = [r \in Request |-> NoContext]

-------------------------------------------------------------------------------

Exists(i) == inst[i] # NoRow

Instances(s) == {i \in Id : Exists(i) /\ inst[i].series = s}

\* Mutant: no unique index.
SlotFreeAlways(i, row) == TRUE

\* The unique index (series_id, period), partial: only where a series is set.
SlotFree(i, row) ==
    row.series # None =>
       \A j \in Instances(row.series) : inst[j].period = row.period => j = i

\* Mutant: the oldest instance speaks for the series.
LatestFirst(s) ==
    IF Instances(s) = {} THEN NoRow
    ELSE inst[CHOOSE i \in Instances(s) :
                 \A j \in Instances(s) : inst[i].period <= inst[j].period]

\* The instance with the greatest period, whatever its status.
Latest(s) ==
    IF Instances(s) = {} THEN NoRow
    ELSE inst[CHOOSE i \in Instances(s) :
                 \A j \in Instances(s) : inst[i].period >= inst[j].period]

Finish(r) ==
    /\ pc' = [pc EXCEPT ![r] = "idle"]
    /\ ctx' = [ctx EXCEPT ![r] = NoContext]

-------------------------------------------------------------------------------
(* Materialize.                                                             *)

MaterializeRead(r) ==
    /\ pc[r] = "idle"
    /\ pc' = [pc EXCEPT ![r] = "clock"]
    /\ ctx' = [ctx EXCEPT ![r] =
          [latest |-> [s \in Id |-> Latest(s)], at |-> 0, todo |-> {},
           cur |-> None, id |-> None]]
    /\ UNCHANGED <<now, inst, used, undo>>

\* An ended series is one whose latest instance does not recur.
Live(row) == row # NoRow /\ row.rec # None

Missing(row, at) ==
    {[series |-> row.series, period |-> p, rec |-> row.rec] :
        p \in MissingPeriods(row.rec, row.period, at)}

MaterializeClock(r) ==
    LET latest == ctx[r].latest IN
    /\ pc[r] = "clock"
    /\ pc' = [pc EXCEPT ![r] = "spawn"]
    /\ ctx' = [ctx EXCEPT ![r] =
          [latest |-> latest, at |-> now,
           todo |-> UNION {Missing(latest[s], now) : s \in {x \in Id : Live(latest[x])}},
           cur |-> None, id |-> None]]
    /\ UNCHANGED <<now, inst, used, undo>>

\* Mutant: the periods of a series are spawned in any order.
NextUpAny(r, row) ==
    \A y \in ctx[r].todo : y.series = ctx[r].cur => row.series = ctx[r].cur

\* One series after the other (in the order of a Go map: any), and the
\* periods of a series in calendar order.
NextUp(r, row) ==
    \A y \in ctx[r].todo :
       /\ y.series = ctx[r].cur => row.series = ctx[r].cur
       /\ y.series = row.series => y.period >= row.period

\* INSERT .. ON CONFLICT (series_id, period) DO NOTHING, committed at once.
Spawn(r) ==
    /\ pc[r] = "spawn"
    /\ \E row \in ctx[r].todo :
          /\ NextUp(r, row)
          /\ IF SlotFree(None, row)
             THEN \E i \in Id \ used : /\ inst' = [inst EXCEPT ![i] = row]
                                      /\ used' = used \cup {i}
             ELSE UNCHANGED <<inst, used>>
          /\ ctx' = [ctx EXCEPT ![r] =
                [latest |-> ctx[r].latest, at |-> ctx[r].at,
                 todo |-> ctx[r].todo \ {row}, cur |-> row.series, id |-> None]]
    /\ UNCHANGED <<now, undo, pc>>

\* All inserted; or the client went away, which cancels the statement that
\* runs and ends the request between two inserts.
MaterializeEnd(r) ==
    /\ pc[r] \in {"clock", "spawn"}
    /\ Finish(r)
    /\ UNCHANGED <<now, inst, used, undo>>

-------------------------------------------------------------------------------
(* The requests that edit instances.                                        *)

\* CreateTask: a task created with a recurrence is the first of its series.
CreateTask ==
    \E i \in Id \ used, p \in StartPeriods, rule \in Rules :
       /\ inst' = [inst EXCEPT ![i] =
             [series |-> IF rule = None THEN None ELSE i, period |-> p,
              rec |-> IF rule = None THEN None ELSE Anchored(rule, p)]]
       /\ used' = used \cup {i}
       /\ UNCHANGED <<now, undo, pc, ctx>>

\* json.Unmarshal decodes into the row's recurrence: what the patch leaves out
\* stays.  A new recurrence has interval 1.
MergedRule(o, rule) ==
    [weekdays |-> IF rule.weekdays # Keep THEN rule.weekdays
                  ELSE IF o = None THEN {} ELSE o.weekdays,
     interval |-> IF rule.interval # 0 THEN rule.interval
                  ELSE IF o = None THEN 1 ELSE o.interval]

\* patchTaskTx re-anchors only when the freq or the interval changes.
SameFreq(o, rule) ==
    /\ o # None
    /\ (o.weekdays = {}) = (rule.weekdays = {})
    /\ o.interval = rule.interval

PatchedRec(o, rule, p) ==
    LET m == MergedRule(o, rule) IN
    IF rule = Keep THEN o
    ELSE IF rule = None THEN None
    ELSE IF SameFreq(o, m)
    THEN [weekdays |-> m.weekdays, interval |-> m.interval, anchor |-> o.anchor]
    ELSE Anchored(m, p)

\* Days go with the freq "weekdays" and no other, so a patch back to "daily"
\* that leaves the days out is refused, one that empties them is not.  A backlog
\* task does not recur.
PatchAccepted(o, rule, p) ==
    /\ rule \notin {Keep, None} => rule.listed = (MergedRule(o, rule).weekdays # {})
    /\ p = Parked => PatchedRec(o, rule, p) = None

\* Two instances of a series in one period: the index refuses the UPDATE, and
\* the request fails.
PatchTask ==
    \E i \in Id, patch \in Patches :
       LET o == inst[i]
           p == IF patch.period = Keep THEN o.period ELSE patch.period
           n == [series |-> o.series, period |-> p,
                 rec |-> PatchedRec(o.rec, patch.rule, p)]
       IN
       /\ Exists(i)
       /\ PatchAccepted(o.rec, patch.rule, p)
       /\ SlotFree(i, n)
       /\ inst' = [inst EXCEPT ![i] = n]
       /\ UNCHANGED <<now, used, undo, pc, ctx>>

\* The read of Reschedule, and the period it will write.
RescheduleRead(r) ==
    /\ AllowReschedule
    /\ pc[r] = "idle"
    /\ \E i \in Id :
          /\ Exists(i)
          /\ inst[i].period # Parked
          /\ ctx' = [ctx EXCEPT ![r] =
                [latest |-> [s \in Id |-> NoRow], at |-> now, todo |-> {},
                 cur |-> None, id |-> i]]
    /\ pc' = [pc EXCEPT ![r] = "reschedule"]
    /\ UNCHANGED <<now, inst, used, undo>>

\* A raw write of the period: the recurrence keeps its anchor.  The row may be
\* gone (not counted), the period taken (the request fails).
RescheduleWrite(r) ==
    LET i == ctx[r].id
        n == [series |-> inst[i].series, period |-> ctx[r].at, rec |-> inst[i].rec]
    IN
    /\ pc[r] = "reschedule"
    /\ inst' = IF Exists(i) /\ SlotFree(i, n) THEN [inst EXCEPT ![i] = n] ELSE inst
    /\ Finish(r)
    /\ UNCHANGED <<now, used, undo>>

DeleteTask ==
    /\ AllowDelete
    /\ \E i \in Id :
          /\ Exists(i)
          /\ inst' = [inst EXCEPT ![i] = NoRow]
          /\ undo' = [id |-> i, row |-> inst[i]]
    /\ UNCHANGED <<now, used, pc, ctx>>

\* ON CONFLICT DO NOTHING: skipped when the id or the series' period is taken.
RestoreTask ==
    /\ AllowDelete
    /\ undo.id # None
    /\ ~Exists(undo.id)
    /\ SlotFree(undo.id, undo.row)
    /\ inst' = [inst EXCEPT ![undo.id] = undo.row]
    /\ UNCHANGED <<now, used, undo, pc, ctx>>

Tick == now < MaxPeriod /\ now' = now + 1 /\ UNCHANGED <<inst, used, undo, pc, ctx>>

Next ==
    \/ \E r \in Request :
          \/ MaterializeRead(r) \/ MaterializeClock(r) \/ Spawn(r) \/ MaterializeEnd(r)
          \/ RescheduleRead(r) \/ RescheduleWrite(r)
    \/ CreateTask \/ PatchTask \/ DeleteTask \/ RestoreTask \/ Tick

Spec == Init /\ [][Next]_vars

\* One request at a time: while one is under way nothing else but the clock
\* moves.
Rest == \A r \in Request : pc[r] = "idle"

SerialNext ==
    \/ \E r \in Request :
          \/ Rest /\ MaterializeRead(r)
          \/ MaterializeClock(r) \/ Spawn(r) \/ MaterializeEnd(r)
          \/ Rest /\ RescheduleRead(r)
          \/ RescheduleWrite(r)
    \/ Rest /\ CreateTask
    \/ Rest /\ PatchTask
    \/ Rest /\ DeleteTask
    \/ Rest /\ RestoreTask
    \/ Tick

SerialSpec == Init /\ [][SerialNext]_vars

-------------------------------------------------------------------------------
(* Properties.                                                              *)

\* Concurrent reads, moves and undos never leave two instances of a series in
\* one period.
OnePerPeriod ==
    \A i, j \in Id :
       Exists(i) /\ Exists(j) /\ i # j /\ inst[i].series # None
       /\ inst[i].series = inst[j].series => inst[i].period # inst[j].period

\* Nobody edits: instances are created and read only.
Unedited == Patches = {} /\ ~AllowDelete /\ ~AllowReschedule

\* As long as nobody edits it, a series follows its calendar: every instance
\* but the first is an occurrence, and no occurrence before an instance is
\* missing, however many reads spawned it at once and were cut off midway (a
\* hole would never be filled: MissingPeriods looks after the latest only).
FollowsCalendar ==
    \A s \in Id : \A i \in Instances(s) \ {s} :
       /\ Exists(s) /\ inst[s].rec # None
       /\ inst[s].period < inst[i].period
       /\ IsOccurrence(inst[s].rec, inst[i].period)
       /\ \A p \in inst[s].period + 1 .. inst[i].period - 1 :
             IsOccurrence(inst[s].rec, p) => \E j \in Instances(s) : inst[j].period = p

\* A read that ran to its end has every instance up to the period it ran in,
\* of every series it saw.
CaughtUp ==
    \A r \in Request : pc[r] = "spawn" /\ ctx[r].todo = {} =>
       \A s \in Id : Live(ctx[r].latest[s]) =>
          \A p \in inst[s].period + 1 .. ctx[r].at :
             IsOccurrence(inst[s].rec, p) => \E j \in Instances(s) : inst[j].period = p

\* The latest instance of s recurs: a read may spawn for it.
Open(s) ==
    \E i \in Instances(s) :
       /\ inst[i].rec # None
       /\ \A j \in Instances(s) : inst[j].period <= inst[i].period

\* Removing the recurrence of its latest instance ends a series, and so does
\* deleting all its instances: nothing is spawned for it from then on
\* (Materialize: "A series ends ONLY when its latest instance's recurrence is
\* nil"; DESIGN.md: "Removing recurrence ends the series").
Ended(s) == s \in used /\ ~Open(s)

EndedSpawnsNothing ==
    [][\A i \in used' \ used : ~Ended(inst'[i].series)]_vars

-------------------------------------------------------------------------------
(* The inductive invariants.                                                *)

\* A row's series is that of a task that existed: a new task's is its own.
SeriesUsed(row) == row # NoRow => row.series \in used \cup {None}

TableInv == \A i \in Id : Exists(i) => i \in used /\ SeriesUsed(inst[i])

UndoInv ==
    undo.id # None => undo.id \in used /\ undo.row # NoRow /\ SeriesUsed(undo.row)

ContextInv(r) ==
    /\ \A row \in ctx[r].todo : row.series \in used
    /\ \A s \in Id : Live(ctx[r].latest[s]) =>
          s \in used /\ ctx[r].latest[s].series = s
    /\ pc[r] = "reschedule" => ctx[r].id \in Id

\* True whatever clients send.
IInv ==
    /\ TypeOK /\ OnePerPeriod /\ TableInv /\ UndoInv
    /\ \A r \in Request : ContextInv(r)

\* p was spawned for series s already.
Spawned(s, p) == \E j \in Instances(s) : inst[j].period = p

\* Every instance carries the recurrence of the first.
HeadRules(s) ==
    \A i \in Instances(s) :
       /\ Exists(s) /\ inst[s].series = s /\ inst[s].rec # None
       /\ inst[i].rec = inst[s].rec

\* What a read holds: the instances it saw are still there, and each period up
\* to its clock is spawned or still to spawn.
ReadInv(r) ==
    /\ \A s \in Id : Live(ctx[r].latest[s]) =>
          \E i \in Instances(s) : inst[i] = ctx[r].latest[s]
    /\ pc[r] = "spawn" =>
          /\ \A row \in ctx[r].todo :
                /\ row.series \in Id
                /\ Live(ctx[r].latest[row.series])
                /\ row.rec = inst[row.series].rec
                /\ row.period \in inst[row.series].period + 1 .. ctx[r].at
                /\ IsOccurrence(row.rec, row.period)
          /\ \A s \in Id : Live(ctx[r].latest[s]) =>
                \A p \in inst[s].period + 1 .. ctx[r].at :
                   IsOccurrence(inst[s].rec, p) =>
                      Spawned(s, p) \/ \E row \in ctx[r].todo :
                                           row.series = s /\ row.period = p

\* True as long as nobody edits.
CalendarInv ==
    /\ FollowsCalendar
    /\ \A s \in Id : HeadRules(s)
    /\ \A r \in Request : pc[r] # "reschedule" /\ ReadInv(r)

\* True while requests do not overlap: what a read found live is still open
\* when it spawns.
SerialInv ==
    /\ \A r, x \in Request : r # x => pc[r] = "idle" \/ pc[x] = "idle"
    /\ \A r \in Request :
          /\ pc[r] = "clock" => \A s \in Id : Live(ctx[r].latest[s]) => Open(s)
          /\ pc[r] = "spawn" => \A row \in ctx[r].todo :
                                  row.series \in Id /\ row.rec # None /\ Open(row.series)

===============================================================================
