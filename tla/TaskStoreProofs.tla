---------------------------- MODULE TaskStoreProofs ----------------------------
(***************************************************************************)
(* Theorems about TaskStore, for any number of tasks, users, teams and      *)
(* concurrent requests, and any request bodies.                             *)
(***************************************************************************)
EXTENDS TaskStore, FiniteSetTheorems, SequenceTheorems, TLAPS

-------------------------------------------------------------------------------
(* The rules of TaskData.                                                   *)

\* What CreateTask inserts has the columns of a row, and they agree.
LEMMA CreateRowCoherent ==
    ASSUME NEW u \in User, NEW in \in NewTask, NEW now \in Week,
           FieldsValid(CreateRow(u, in, now))
    PROVE  CreateRow(u, in, now) \in Row /\ RowCoherent(CreateRow(u, in, now))
<1> DEFINE n == CreateRow(u, in, now)
<1>1. n \in Row
  BY DEF NewTask, Row, CreateRow
<1>2. n.team = None <=> n.owner # None
  BY DataAssumption DEF DataAssumption, CreateRow
<1>3. n.team # None <=> n.weekOf # None
  BY DataAssumption DEF DataAssumption, CreateRow
<1>4. n.status = "done" <=> n.doneIn # None
  BY DataAssumption DEF DataAssumption, CreateRow
<1>5. QED
  BY <1>1, <1>2, <1>3, <1>4 DEF RowCoherent, FieldsValid

\* What patchTaskTx writes over a coherent row has the columns of a row, and
\* they agree.
LEMMA PatchRowCoherent ==
    ASSUME NEW u \in User, NEW o \in Row, NEW p \in Patch, NEW now \in Week,
           RowCoherent(o), PatchAllowed(u, o, p),
           FieldsValid(PatchRow(u, o, p, now))
    PROVE  PatchRow(u, o, p, now) \in Row /\ RowCoherent(PatchRow(u, o, p, now))
<1> DEFINE team   == Merged(p.team, o.team)
           status == Merged(p.status, o.status)
           n      == PatchRow(u, o, p, now)
<1>1. /\ Merged(p.horizon, o.horizon) \in Horizon
      /\ Merged(p.period, o.period) \in Period
      /\ Merged(p.due, o.due) \in BOOLEAN
      /\ status \in Status
      /\ Merged(p.parent, o.parent) \in Task \cup {None}
      /\ team \in Team \cup {None}
      /\ Merged(p.assignee, o.assignee) \in User \cup {None}
  BY DEF Patch, Row, Merged
<1>2. PatchedOwner(u, o, team) \in User \cup {None}
  BY DEF PatchedOwner, Row
<1>3. PatchedWeekOf(o, p, team, status, now) \in Week \cup {None}
  BY DEF PatchedWeekOf, Row, Patch
<1>4. PatchedDoneIn(o, status, now) \in Week \cup {None}
  BY DEF PatchedDoneIn, Row
<1>5. n \in Row
  BY <1>1, <1>2, <1>3, <1>4 DEF Row, PatchRow
<1>6. team = None <=> PatchedOwner(u, o, team) # None
  BY DataAssumption DEF DataAssumption, PatchedOwner, RowCoherent
<1>7. team # None <=> PatchedWeekOf(o, p, team, status, now) # None
  BY DataAssumption DEF DataAssumption, PatchedWeekOf, RowCoherent, PatchAllowed,
                        Patch
<1>8. status = "done" <=> PatchedDoneIn(o, status, now) # None
  BY DataAssumption DEF DataAssumption, PatchedDoneIn, RowCoherent
<1>9. QED
  BY <1>5, <1>6, <1>7, <1>8 DEF RowCoherent, FieldsValid, PatchRow

-------------------------------------------------------------------------------
(* How a step disturbs the invariant: a step that ends its request, and one *)
(* that does not.                                                           *)

\* When r's request ends its locals and its locks are gone, and nothing of
\* anybody else's changes.
LEMMA FinishFrame ==
    ASSUME TypeOK, NEW r \in Request, Finish(r)
    PROVE  /\ pc' \in [Request -> PC] /\ ctx' \in [Request -> Context]
           /\ dtx' \in [Request -> DeleteContext]
           /\ lock' \in [Task -> Request \cup {None}]
           /\ \A x \in Request : dtx'[x].left <= Len(dtx'[x].order)
           /\ pc'[r] = "idle" /\ dtx'[r] = NoDelete
           /\ \A x \in Request \ {r} :
                 pc'[x] = pc[x] /\ ctx'[x] = ctx[x] /\ dtx'[x] = dtx[x]
           /\ \A x \in Request \ {r}, t \in Task : lock'[t] = x <=> lock[t] = x
           /\ Gone(r)' = {}
           /\ \A x \in Request \ {r} : Gone(x)' = Gone(x)
<1>1. NoContext \in Context
  BY DEF NoContext, Context
<1>2. NoSnapshot \in Snapshot
  BY DEF NoSnapshot, Snapshot
<1>3. NoDelete \in DeleteContext /\ NoDelete.left <= Len(NoDelete.order)
  BY <1>2 DEF NoDelete, DeleteContext
<1>4. pc' \in [Request -> PC] /\ pc'[r] = "idle"
  BY DEF TypeOK, Finish, PC
<1>5. ctx' \in [Request -> Context]
  BY <1>1 DEF TypeOK, Finish
<1>6. dtx' \in [Request -> DeleteContext] /\ dtx'[r] = NoDelete
  BY <1>3 DEF TypeOK, Finish
<1>7. \A x \in Request \ {r} :
         pc'[x] = pc[x] /\ ctx'[x] = ctx[x] /\ dtx'[x] = dtx[x]
  BY DEF TypeOK, Finish
<1>8. lock' \in [Task -> Request \cup {None}]
  BY DEF TypeOK, Finish
<1>9. \A x \in Request \ {r}, t \in Task : lock'[t] = x <=> lock[t] = x
  BY StoreAssumption DEF StoreAssumption, TypeOK, Finish
<1>10. \A x \in Request : dtx'[x].left <= Len(dtx'[x].order)
  BY <1>3, <1>6, <1>7 DEF TypeOK
<1>11. Gone(r)' = {}
  BY <1>4 DEF Gone
<1>12. \A x \in Request \ {r} : Gone(x)' = Gone(x)
  BY <1>7, <1>9 DEF Gone
<1>13. QED
  BY <1>4, <1>5, <1>6, <1>7, <1>8, <1>9, <1>10, <1>11, <1>12

\* A step that ends r's request keeps the invariant if it leaves the rows that
\* others hold, and their children, alone, and writes only what it should.
LEMMA FinishPreserves ==
    ASSUME IInv, NEW r \in Request, Finish(r),
           week' \in Week,
           tasks' \in [Task -> Row \cup {NoRow}],
           log' \in [Task -> Seq(Entry)],
           undo' \in Snapshot,
           used \subseteq used', used' \subseteq Task,
           \A t \in Task : lock[t] \notin {None, r} =>
              /\ tasks[t] # NoRow => tasks'[t] = tasks[t] /\ log'[t] = log[t]
              /\ Children(t)' \subseteq Children(t),
           UndoInv', RowsCoherent', ParentExists'
    PROVE  IInv'
<1>1. TypeOK
  BY DEF IInv
<1>2. TypeOK'
  BY <1>1, FinishFrame DEF TypeOK
<1>3. /\ pc'[r] = "idle" /\ dtx'[r] = NoDelete
      /\ \A x \in Request \ {r} :
            pc'[x] = pc[x] /\ ctx'[x] = ctx[x] /\ dtx'[x] = dtx[x]
      /\ \A x \in Request \ {r}, t \in Task : lock'[t] = x <=> lock[t] = x
      /\ Gone(r)' = {}
      /\ \A x \in Request \ {r} : Gone(x)' = Gone(x)
  BY <1>1, FinishFrame
<1>4. SnapshotInv(r)' /\ ContextInv(r)' /\ DeleteInv(r)'
  BY <1>3 DEF SnapshotInv, ContextInv, DeleteInv, NoDelete, NoSnapshot, PatchPC,
              DeletePC
<1>5. ASSUME NEW x \in Request \ {r}
      PROVE  SnapshotInv(x)' /\ ContextInv(x)' /\ DeleteInv(x)'
  <2>1. SnapshotInv(x) /\ ContextInv(x) /\ DeleteInv(x)
    BY DEF IInv
  <2>2. /\ pc'[x] = pc[x] /\ ctx'[x] = ctx[x] /\ dtx'[x] = dtx[x]
        /\ \A t \in Task : lock'[t] = x <=> lock[t] = x
        /\ Gone(x)' = Gone(x)
    BY <1>3
  <2>3. \A t \in Task : lock[t] = x =>
           /\ Children(t)' \subseteq Children(t)
           /\ tasks[t] # NoRow => tasks'[t] = tasks[t] /\ log'[t] = log[t]
    BY StoreAssumption DEF StoreAssumption
  <2>4. SnapshotInv(x)'
    BY <2>1, <2>2 DEF SnapshotInv
  <2>5. ContextInv(x)'
    <3>1. CASE pc[x] \in PatchPC
      <4>1. ctx[x].id \in Task /\ lock[ctx[x].id] = x /\ tasks[ctx[x].id] # NoRow
        BY <2>1, <3>1, DataAssumption DEF ContextInv, DataAssumption
      <4>2. QED
        BY <2>1, <2>2, <2>3, <3>1, <4>1 DEF ContextInv, PatchPC
    <3>2. CASE pc[x] \notin PatchPC
      BY <2>1, <2>2, <3>2 DEF ContextInv
    <3>3. QED
      BY <3>1, <3>2
  <2>6. pc[x] \in DeletePC => dtx[x].order[1] \in Task
    BY <2>1, <1>1 DEF DeleteInv, TypeOK, DeleteContext
  <2>7. \A t \in Gone(x) : Children(t)' \subseteq Gone(x)
    BY <2>1, <2>3 DEF DeleteInv, Gone
  <2>8. DeleteInv(x)'
    BY <2>1, <2>2, <2>3, <2>6, <2>7 DEF DeleteInv, Exists
  <2>9. QED
    BY <2>4, <2>5, <2>8
<1>6. QED
  BY <1>2, <1>4, <1>5 DEF IInv

\* r works on, writes no table and at most takes a lock that was free.
LocalStep(r) ==
    /\ UNCHANGED <<tasks, log, used, undo>>
    /\ \A x \in Request \ {r} :
          pc'[x] = pc[x] /\ ctx'[x] = ctx[x] /\ dtx'[x] = dtx[x]
    /\ \A t \in Task : lock'[t] # lock[t] => lock[t] = None /\ lock'[t] = r

\* Such a step keeps the invariant if it keeps r's part.
LEMMA LocalPreserves ==
    ASSUME IInv, NEW r \in Request, LocalStep(r),
           TypeOK', SnapshotInv(r)', ContextInv(r)', DeleteInv(r)'
    PROVE  IInv'
<1> USE DEF LocalStep
<1>1. ASSUME NEW x \in Request \ {r}
      PROVE  SnapshotInv(x)' /\ ContextInv(x)' /\ DeleteInv(x)'
  <2>1. SnapshotInv(x) /\ ContextInv(x) /\ DeleteInv(x)
    BY DEF IInv
  <2>2. \A t \in Task : lock'[t] = x <=> lock[t] = x
    BY StoreAssumption DEF StoreAssumption
  <2>3. SnapshotInv(x)' /\ ContextInv(x)'
    BY <2>1, <2>2 DEF SnapshotInv, ContextInv
  <2>4. Gone(x)' = Gone(x) /\ \A t : Children(t)' = Children(t)
    BY <2>2 DEF Gone, Children, Exists
  <2>5. pc[x] \in DeletePC => dtx[x].order[1] \in Task
    BY <2>1 DEF DeleteInv, IInv, TypeOK, DeleteContext
  <2>6. DeleteInv(x)'
    BY <2>1, <2>2, <2>4, <2>5 DEF DeleteInv, Exists
  <2>7. QED
    BY <2>3, <2>6
<1>2. UndoInv' /\ RowsCoherent' /\ ParentExists'
  BY DEF IInv, UndoInv, RowsCoherent, ParentExists, Exists
<1>3. QED
  BY <1>1, <1>2 DEF IInv

-------------------------------------------------------------------------------
(* Each action keeps the invariant.                                         *)

LEMMA InitInv == Init => IInv
<1> SUFFICES ASSUME Init PROVE IInv
  OBVIOUS
<1>1. tasks \in InitTables /\ tasks \in [Task -> Row \cup {NoRow}]
  BY StoreAssumption DEF StoreAssumption, Init
<1>2. NoContext \in Context
  BY DEF NoContext, Context
<1>3. NoSnapshot \in Snapshot /\ \A t \in Task : NoSnapshot.rows[t] = NoRow
  BY DEF NoSnapshot, Snapshot
<1>4. /\ NoDelete \in DeleteContext /\ NoDelete.left <= Len(NoDelete.order)
      /\ NoDelete.snap = NoSnapshot
  BY <1>3 DEF NoDelete, DeleteContext
<1>5. TypeOK
  BY <1>1, <1>2, <1>3, <1>4, DataAssumption
     DEF DataAssumption, TypeOK, Init, PC, Week
<1>6. UndoInv /\ \A r \in Request : SnapshotInv(r)
  BY <1>3, <1>4 DEF Init, UndoInv, SnapshotInv, Exists
<1>7. \A r \in Request : ContextInv(r) /\ DeleteInv(r)
  BY DEF Init, ContextInv, DeleteInv, Gone, PatchPC, DeletePC
<1>8. RowsCoherent /\ ParentExists
  BY <1>1, StoreAssumption DEF StoreAssumption, RowsCoherent, ParentExists, Exists
<1>9. QED
  BY <1>5, <1>6, <1>7, <1>8 DEF IInv

LEMMA RefusePreserves ==
    ASSUME IInv, NEW r \in Request, Refuse(r)
    PROVE  IInv'
<1>1. Finish(r) /\ UNCHANGED <<week, tasks, log, used, undo>>
  BY DEF Refuse
<1>2. UndoInv' /\ RowsCoherent' /\ ParentExists'
  BY <1>1 DEF IInv, UndoInv, RowsCoherent, ParentExists, Exists
<1>3. \A t \in Task : Children(t)' = Children(t)
  BY <1>1 DEF Children, Exists
<1>4. QED
  BY <1>1, <1>2, <1>3, FinishPreserves DEF IInv, TypeOK

LEMMA CreateCheckPreserves ==
    ASSUME IInv, NEW r \in Request, CreateCheck(r)
    PROVE  IInv'
<1>1. PICK u \in User, in \in NewTasks :
         /\ FieldsValid(CreateRow(u, in, week))
         /\ ctx' = [ctx EXCEPT ![r] =
                       [NoContext EXCEPT !.user = u,
                                         !.new = CreateRow(u, in, week)]]
  BY DEF CreateCheck
<1> DEFINE row == CreateRow(u, in, week)
           c   == [NoContext EXCEPT !.user = u, !.new = row]
<1>2. row \in Row /\ RowCoherent(row)
  BY <1>1, CreateRowCoherent, StoreAssumption DEF StoreAssumption, IInv, TypeOK
<1>3. c \in Context /\ c.new = row
  BY <1>2 DEF NoContext, Context
<1> HIDE DEF row, c
<1>4. ctx' \in [Request -> Context] /\ ctx'[r].new = row
  BY <1>1, <1>3 DEF IInv, TypeOK, row, c
<1>5. pc' = [pc EXCEPT ![r] = "insert"]
  BY DEF CreateCheck
<1>6. UNCHANGED <<week, tasks, log, used, lock, dtx, undo>>
  BY DEF CreateCheck
<1>7. TypeOK'
  BY <1>4, <1>5, <1>6 DEF IInv, TypeOK, PC
<1>8. pc'[r] = "insert" /\ dtx'[r] = dtx[r]
  BY <1>5, <1>6 DEF IInv, TypeOK
<1>9. LocalStep(r)
  <2>1. UNCHANGED <<tasks, log, used, undo>>
    BY <1>6
  <2>2. \A x \in Request \ {r} :
           pc'[x] = pc[x] /\ ctx'[x] = ctx[x] /\ dtx'[x] = dtx[x]
    BY <1>1, <1>5, <1>6 DEF IInv, TypeOK
  <2>3. \A t \in Task : lock'[t] = lock[t]
    BY <1>6
  <2>4. QED
    BY <2>1, <2>2, <2>3 DEF LocalStep
<1>10. SnapshotInv(r)'
  BY <1>6, <1>8 DEF IInv, SnapshotInv
<1>11. ContextInv(r)' /\ DeleteInv(r)'
  BY <1>2, <1>4, <1>8 DEF ContextInv, DeleteInv, Gone, PatchPC, DeletePC
<1>12. QED
  BY <1>7, <1>9, <1>10, <1>11, LocalPreserves

LEMMA CreateInsertPreserves ==
    ASSUME IInv, NEW r \in Request, CreateInsert(r)
    PROVE  IInv'
<1> DEFINE row == ctx[r].new
<1>1. row \in Row /\ RowCoherent(row)
  BY DEF CreateInsert, IInv, ContextInv
<1>2. PICK t \in Task \ used : /\ tasks' = [tasks EXCEPT ![t] = row]
                               /\ used' = used \cup {t}
  BY DEF CreateInsert
<1>3. tasks[t] = NoRow /\ tasks \in [Task -> Row \cup {NoRow}] /\ row # NoRow
  BY <1>1, <1>2, DataAssumption DEF DataAssumption, IInv, UndoInv, TypeOK, Exists
<1>4. Finish(r) /\ UNCHANGED <<week, log, undo>>
  BY DEF CreateInsert
<1>5. row.parent # None =>
         /\ row.parent \in Task /\ tasks[row.parent] # NoRow
         /\ lock[row.parent] \in {None, r}
  BY <1>1 DEF CreateInsert, KeyShare, Held, Exists, Row
<1> HIDE DEF row
<1>6. /\ tasks' \in [Task -> Row \cup {NoRow}]
      /\ tasks'[t] = row
      /\ \A k \in Task \ {t} : tasks'[k] = tasks[k]
  BY <1>1, <1>2, <1>3
<1>7. RowsCoherent'
  BY <1>1, <1>6 DEF IInv, RowsCoherent, Exists
<1>8. ParentExists'
  <2>1. ASSUME NEW k \in Task, tasks'[k] # NoRow, tasks'[k].parent # None
        PROVE  tasks'[tasks'[k].parent] # NoRow
    <3>1. CASE k = t
      BY <1>3, <1>5, <1>6, <2>1, <3>1
    <3>2. CASE k # t
      <4>1. tasks'[k] = tasks[k] /\ tasks[k] \in Row
        BY <1>3, <1>6, <2>1, <3>2
      <4>2. tasks[k].parent \in Task /\ tasks[tasks[k].parent] # NoRow
        BY <2>1, <4>1 DEF IInv, ParentExists, Exists, Row
      <4> QED BY <1>3, <1>6, <4>1, <4>2
    <3> QED BY <3>1, <3>2
  <2> QED BY <2>1 DEF ParentExists, Exists
<1>9. ASSUME NEW k \in Task, lock[k] \notin {None, r}
      PROVE  Children(k)' \subseteq Children(k)
  <2>1. row.parent # k
    BY <1>5, <1>9, DataAssumption DEF DataAssumption
  <2>2. QED
    BY <2>1, <1>6 DEF Children, Exists
<1>10. \A k \in Task : tasks[k] # NoRow => tasks'[k] = tasks[k]
  BY <1>3, <1>6
<1>11. UndoInv'
  BY <1>2, <1>4, <1>6 DEF IInv, UndoInv, Exists
<1>12. QED
  BY <1>2, <1>4, <1>6, <1>7, <1>8, <1>9, <1>10, <1>11, FinishPreserves
     DEF IInv, TypeOK

LEMMA PatchLockPreserves ==
    ASSUME IInv, NEW r \in Request, PatchLock(r)
    PROVE  IInv'
<1>1. PICK u \in User, t \in Task, p \in Patches :
         LET o == tasks[t]
             n == PatchRow(u, o, p, week)
         IN
         /\ Exists(t)
         /\ CanLock(t)
         /\ PatchAllowed(u, o, p)
         /\ FieldsValid(n)
         /\ n.parent # t
         /\ n.status # o.status => Len(log[t]) < MaxLog
         /\ TakeLock(r, t)
         /\ ctx' = [ctx EXCEPT ![r] = [user |-> u, id |-> t, orig |-> o,
                                       new |-> n, cur |-> n.parent,
                                       seen |-> {}]]
         /\ pc' = [pc EXCEPT ![r] = IF n.parent # None THEN "walk"
                                    ELSE AfterParent(o, n)]
  BY DEF PatchLock
<1> DEFINE o == tasks[t]
           n == PatchRow(u, o, p, week)
           c == [user |-> u, id |-> t, orig |-> o, new |-> n, cur |-> n.parent,
                 seen |-> {}]
<1>2. /\ CanLock(t) /\ PatchAllowed(u, o, p) /\ FieldsValid(n)
      /\ TakeLock(r, t)
      /\ ctx' = [ctx EXCEPT ![r] = c]
      /\ pc' = [pc EXCEPT ![r] = IF n.parent # None THEN "walk"
                                 ELSE AfterParent(o, n)]
  BY <1>1
<1>3. o \in Row /\ RowCoherent(o)
  BY <1>1 DEF IInv, TypeOK, RowsCoherent, Exists
<1>4. n \in Row /\ RowCoherent(n)
  BY <1>2, <1>3, PatchRowCoherent, StoreAssumption DEF StoreAssumption, IInv, TypeOK
<1>5. n.parent \in Task \cup {None}
  BY <1>4 DEF Row
<1>6. c \in Context
  BY <1>3, <1>4, <1>5 DEF Context
<1>7. /\ c.id = t /\ c.user = u /\ c.orig = o /\ c.new = n /\ c.cur = n.parent
  OBVIOUS
<1> HIDE DEF n, c
<1>8. ctx' \in [Request -> Context] /\ ctx'[r] = c
  BY <1>2, <1>6 DEF IInv, TypeOK
<1>9. /\ pc' \in [Request -> PC]
      /\ pc'[r] \in PatchPC
      /\ pc'[r] = "walk" => n.parent # None
  BY <1>2 DEF IInv, TypeOK, PC, PatchPC, AfterParent
<1>10. UNCHANGED <<week, tasks, log, used, dtx, undo>>
  BY DEF PatchLock
<1>11. /\ lock' \in [Task -> Request \cup {None}] /\ lock'[t] = r
       /\ \A k \in Task : lock'[k] # lock[k] => lock[k] = None /\ lock'[k] = r
  BY <1>2 DEF IInv, TypeOK, TakeLock, CanLock
<1>12. TypeOK'
  BY <1>8, <1>9, <1>10, <1>11 DEF IInv, TypeOK
<1>13. LocalStep(r)
  <2>1. UNCHANGED <<tasks, log, used, undo>>
    BY <1>10
  <2>2. \A x \in Request \ {r} :
           pc'[x] = pc[x] /\ ctx'[x] = ctx[x] /\ dtx'[x] = dtx[x]
    BY <1>2, <1>10 DEF IInv, TypeOK
  <2>3. QED
    BY <1>11, <2>1, <2>2 DEF LocalStep
<1>14. SnapshotInv(r)'
  BY <1>10 DEF IInv, SnapshotInv
<1>15. ContextInv(r)'
  BY <1>3, <1>4, <1>5, <1>7, <1>8, <1>9, <1>10, <1>11 DEF ContextInv, PatchPC
<1>16. DeleteInv(r)'
  BY <1>9 DEF DeleteInv, Gone, PatchPC, DeletePC
<1>17. QED
  BY <1>12, <1>13, <1>14, <1>15, <1>16, LocalPreserves

LEMMA WalkUpPreserves ==
    ASSUME IInv, NEW r \in Request, WalkUp(r)
    PROVE  IInv'
<1> DEFINE c == ctx[r].cur
<1>1. /\ pc[r] = "walk" /\ ContextInv(r) /\ TypeOK /\ ctx[r] \in Context
  BY DEF WalkUp, IInv, TypeOK
<1>2. c \in Task /\ Exists(c) /\ tasks[c].parent # None
  BY <1>1 DEF WalkUp, WalkEnds, ContextInv
<1>3. tasks[c].parent \in Task
  BY <1>1, <1>2 DEF TypeOK, Exists, Row
<1>4. ctx' = [ctx EXCEPT ![r].cur = tasks[c].parent, ![r].seen = @ \cup {c}]
  BY DEF WalkUp
<1>5. UNCHANGED <<week, tasks, log, used, lock, pc, dtx, undo>>
  BY DEF WalkUp
<1>6. /\ ctx' \in [Request -> Context]
      /\ ctx'[r].cur = tasks[c].parent
      /\ ctx'[r].id = ctx[r].id /\ ctx'[r].user = ctx[r].user
      /\ ctx'[r].orig = ctx[r].orig /\ ctx'[r].new = ctx[r].new
      /\ \A x \in Request \ {r} : ctx'[x] = ctx[x]
  BY <1>1, <1>2, <1>3, <1>4 DEF TypeOK, Context
<1>7. TypeOK'
  BY <1>1, <1>5, <1>6 DEF TypeOK
<1>8. LocalStep(r)
  BY <1>5, <1>6 DEF LocalStep
<1>9. SnapshotInv(r)'
  BY <1>5 DEF IInv, SnapshotInv
<1>10. ContextInv(r)'
  BY <1>1, <1>3, <1>5, <1>6 DEF ContextInv, PatchPC
<1>11. DeleteInv(r)'
  BY <1>1, <1>5 DEF DeleteInv, Gone, DeletePC
<1>12. QED
  BY <1>7, <1>8, <1>9, <1>10, <1>11, LocalPreserves

\* A validation that goes on: WalkEnd, and ChildrenCheck when it accepts.
LEMMA ValidatedPreserves ==
    ASSUME IInv, NEW r \in Request, pc[r] \in PatchPC,
           NEW next \in {"children", "write"}, pc' = [pc EXCEPT ![r] = next],
           UNCHANGED <<week, tasks, log, used, lock, ctx, dtx, undo>>
    PROVE  IInv'
<1>1. pc' \in [Request -> PC] /\ pc'[r] = next
  BY DEF IInv, TypeOK, PC
<1>2. TypeOK'
  BY <1>1 DEF IInv, TypeOK
<1>3. LocalStep(r)
  BY DEF IInv, TypeOK, LocalStep
<1>4. SnapshotInv(r)'
  BY DEF IInv, SnapshotInv
<1>5. ContextInv(r)'
  BY <1>1 DEF IInv, ContextInv, PatchPC
<1>6. DeleteInv(r)'
  BY <1>1 DEF DeleteInv, Gone, DeletePC
<1>7. QED
  BY <1>2, <1>3, <1>4, <1>5, <1>6, LocalPreserves

LEMMA WalkEndPreserves ==
    ASSUME IInv, NEW r \in Request, WalkEnd(r)
    PROVE  IInv'
<1> DEFINE next == AfterParent(ctx[r].orig, ctx[r].new)
<1>1. next \in {"children", "write"} /\ pc[r] \in PatchPC
  BY DEF AfterParent, WalkEnd, PatchPC
<1>2. /\ pc' = [pc EXCEPT ![r] = next]
      /\ UNCHANGED <<week, tasks, log, used, lock, ctx, dtx, undo>>
  BY DEF WalkEnd
<1> HIDE DEF next
<1>3. QED
  BY <1>1, <1>2, ValidatedPreserves

LEMMA ChildrenCheckPreserves ==
    ASSUME IInv, NEW r \in Request, ChildrenCheck(r)
    PROVE  IInv'
<1>1. CASE Refuse(r)
  BY <1>1, RefusePreserves
<1>2. CASE /\ pc' = [pc EXCEPT ![r] = "write"]
           /\ UNCHANGED <<week, tasks, log, used, lock, ctx, dtx, undo>>
  <2>1. pc[r] \in PatchPC
    BY DEF ChildrenCheck, PatchPC
  <2>2. QED
    BY <1>2, <2>1, ValidatedPreserves
<1>3. QED
  BY <1>1, <1>2 DEF ChildrenCheck

LEMMA PatchWritePreserves ==
    ASSUME IInv, NEW r \in Request, PatchWrite(r)
    PROVE  IInv'
<1> DEFINE t == ctx[r].id
           o == ctx[r].orig
           n == ctx[r].new
           u == ctx[r].user
<1>1. /\ t \in Task /\ u \in User /\ n \in Row /\ RowCoherent(n)
      /\ o \in Row /\ tasks[t] = o
  BY DEF PatchWrite, IInv, ContextInv, PatchPC
<1>2. /\ tasks' = [tasks EXCEPT ![t] = n]
      /\ log' = [log EXCEPT ![t] = StatusEntries(@, u, o, n)]
      /\ Finish(r)
      /\ UNCHANGED <<week, used, undo>>
  BY DEF PatchWrite
<1>3. /\ n.parent \in Task \cup {None} /\ o.parent \in Task \cup {None}
      /\ n.status \in Status /\ o.status \in Status
  BY <1>1 DEF Row
<1>4. \/ n.parent = None
      \/ n.parent = o.parent
      \/ tasks[n.parent] # NoRow /\ lock[n.parent] \in {None, r}
  BY DEF PatchWrite, ChecksParent, KeyShare, Held, Exists
<1>5. n # NoRow /\ o # NoRow
  BY <1>1, DataAssumption DEF DataAssumption
<1> HIDE DEF t, o, n, u
<1>6. /\ tasks' \in [Task -> Row \cup {NoRow}]
      /\ tasks'[t] = n
      /\ \A k \in Task \ {t} : tasks'[k] = tasks[k]
  BY <1>1, <1>2 DEF IInv, TypeOK
<1>7. /\ log' \in [Task -> Seq(Entry)]
      /\ \A k \in Task \ {t} : log'[k] = log[k]
  <2>1. [from |-> o.status, to |-> n.status, by |-> u] \in Entry
    BY <1>1, <1>3 DEF Entry
  <2>2. log[t] \in Seq(Entry) /\ log \in [Task -> Seq(Entry)]
    BY <1>1 DEF IInv, TypeOK
  <2>3. StatusEntries(log[t], u, o, n) \in Seq(Entry)
    BY <2>1, <2>2 DEF StatusEntries
  <2>4. QED
    BY <1>1, <1>2, <2>2, <2>3
<1>8. UndoInv' /\ RowsCoherent'
  BY <1>1, <1>2, <1>5, <1>6 DEF IInv, UndoInv, RowsCoherent, Exists
<1>9. ParentExists'
  <2>1. n.parent # None => tasks[n.parent] # NoRow
    BY <1>1, <1>4, <1>5 DEF IInv, ParentExists, Exists
  <2>2. QED
    <3>1. ASSUME NEW k \in Task, tasks'[k] # NoRow, tasks'[k].parent # None
          PROVE  tasks'[tasks'[k].parent] # NoRow
      <4>1. CASE k = t
        BY <1>1, <1>3, <1>5, <1>6, <2>1, <3>1, <4>1
      <4>2. CASE k # t
        <5>1. tasks'[k] = tasks[k] /\ tasks[k] \in Row
          BY <1>6, <3>1, <4>2 DEF IInv, TypeOK
        <5>2. tasks[k].parent \in Task /\ tasks[tasks[k].parent] # NoRow
          BY <3>1, <5>1 DEF IInv, ParentExists, Exists, Row
        <5> QED BY <1>5, <1>6, <5>1, <5>2
      <4> QED BY <4>1, <4>2
    <3> QED BY <3>1 DEF ParentExists, Exists
<1>10. \A k \in Task : lock[k] \notin {None, r} =>
          Children(k)' \subseteq Children(k)
  BY <1>1, <1>4, <1>5, <1>6, DataAssumption DEF DataAssumption, Children, Exists
<1>11. lock[t] = r
  BY DEF PatchWrite, IInv, ContextInv, PatchPC, t
<1>12. \A k \in Task : lock[k] \notin {None, r} =>
          tasks'[k] = tasks[k] /\ log'[k] = log[k]
  BY <1>6, <1>7, <1>11
<1>13. QED
  BY <1>2, <1>6, <1>7, <1>8, <1>9, <1>10, <1>12, FinishPreserves DEF IInv, TypeOK

LEMMA RescheduleReadPreserves ==
    ASSUME IInv, NEW r \in Request, RescheduleRead(r)
    PROVE  IInv'
<1>1. PICK u \in User, t \in Task :
         /\ tasks[t] # NoRow /\ tasks[t].horizon # "backlog"
         /\ ctx' = [ctx EXCEPT ![r] =
               [NoContext EXCEPT !.user = u, !.id = t, !.orig = tasks[t],
                   !.new = [tasks[t] EXCEPT !.period =
                               CurrentPeriod(tasks[t].horizon, week)]]]
  BY DEF RescheduleRead, Exists
<1> DEFINE o == tasks[t]
           n == [o EXCEPT !.period = CurrentPeriod(o.horizon, week)]
           c == [NoContext EXCEPT !.user = u, !.id = t, !.orig = o, !.new = n]
<1>2. o \in Row
  BY <1>1 DEF IInv, TypeOK
<1>3. CurrentPeriod(o.horizon, week) \in Period
  BY <1>1, <1>2 DEF CurrentPeriod, Period, Row, IInv, TypeOK
<1>4. n \in Row
  BY <1>2, <1>3 DEF Row
<1>5. c \in Context /\ c.id = t /\ c.orig = o /\ c.new = n
  BY <1>2, <1>4 DEF Context, NoContext
<1>6. ctx' = [ctx EXCEPT ![r] = c]
  BY <1>1
<1> HIDE DEF o, n, c
<1>7. ctx' \in [Request -> Context] /\ ctx'[r] = c
  BY <1>5, <1>6 DEF IInv, TypeOK
<1>8. /\ pc' = [pc EXCEPT ![r] = "reschedule"]
      /\ UNCHANGED <<week, tasks, log, used, lock, dtx, undo>>
  BY DEF RescheduleRead
<1>9. pc' \in [Request -> PC] /\ pc'[r] = "reschedule"
  BY <1>8 DEF IInv, TypeOK, PC
<1>10. TypeOK'
  BY <1>7, <1>8, <1>9 DEF IInv, TypeOK
<1>11. LocalStep(r)
  BY <1>6, <1>8 DEF IInv, TypeOK, LocalStep
<1>12. SnapshotInv(r)'
  BY <1>8 DEF IInv, SnapshotInv
<1>13. ContextInv(r)' /\ DeleteInv(r)'
  BY <1>2, <1>4, <1>5, <1>7, <1>9
     DEF ContextInv, DeleteInv, Gone, PatchPC, DeletePC
<1>14. QED
  BY <1>10, <1>11, <1>12, <1>13, LocalPreserves

\* The columns RowCoherent speaks of are the ones Reschedule leaves alone.
LEMMA RescheduleWritePreserves ==
    ASSUME IInv, NEW r \in Request, RescheduleWrite(r)
    PROVE  IInv'
<1> DEFINE t == ctx[r].id
           o == ctx[r].orig
           n == ctx[r].new
           w == [tasks[t] EXCEPT !.period = n.period, !.due = @ \/ o.due]
<1>1. t \in Task /\ o \in Row /\ n \in Row
  BY DEF RescheduleWrite, IInv, ContextInv
<1>2. /\ tasks' = IF ~Exists(t) THEN tasks ELSE [tasks EXCEPT ![t] = w]
      /\ lock[t] \in {None, r}
      /\ Finish(r)
      /\ UNCHANGED <<week, log, used, undo>>
  <2>1. [tasks EXCEPT ![t].period = n.period, ![t].due = @ \/ o.due] =
           [tasks EXCEPT ![t] = w]
    BY <1>1 DEF IInv, TypeOK
  <2>2. QED
    BY <2>1 DEF RescheduleWrite, Held
<1>3. CASE ~Exists(t)
  <2>1. UNCHANGED <<tasks, log, used, undo, week>>
    BY <1>2, <1>3
  <2>2. Refuse(r)
    BY <1>2, <2>1 DEF Refuse
  <2>3. QED
    BY <2>2, RefusePreserves
<1>4. CASE Exists(t)
  <2>1. tasks[t] \in Row /\ RowCoherent(tasks[t]) /\ tasks[t] # NoRow
    BY <1>1, <1>4 DEF IInv, TypeOK, RowsCoherent, Exists
  <2>2. n.period \in Period /\ (tasks[t].due \/ o.due) \in BOOLEAN
    BY <1>1 DEF Row
  <2>3. w \in Row
    BY <2>1, <2>2 DEF Row
  <2>4. /\ w.horizon = tasks[t].horizon /\ w.status = tasks[t].status
        /\ w.parent = tasks[t].parent /\ w.team = tasks[t].team
        /\ w.owner = tasks[t].owner /\ w.assignee = tasks[t].assignee
        /\ w.weekOf = tasks[t].weekOf /\ w.doneIn = tasks[t].doneIn
    BY <2>1 DEF Row
  <2>5. RowCoherent(w) /\ w # NoRow
    BY <2>1, <2>3, <2>4, DataAssumption DEF DataAssumption, RowCoherent
  <2> HIDE DEF t, o, n, w
  <2>6. tasks' = [tasks EXCEPT ![t] = w]
    BY <1>2, <1>4
  <2>7. /\ tasks' \in [Task -> Row \cup {NoRow}]
        /\ tasks'[t] = w
        /\ \A k \in Task \ {t} : tasks'[k] = tasks[k]
    BY <1>1, <2>3, <2>6 DEF IInv, TypeOK
  <2>8. UndoInv' /\ RowsCoherent'
    BY <1>1, <1>2, <2>1, <2>5, <2>7 DEF IInv, UndoInv, RowsCoherent, Exists
  <2>9. ParentExists'
    <3>1. \A k \in Task : /\ tasks'[k] # NoRow <=> tasks[k] # NoRow
                          /\ tasks'[k].parent = tasks[k].parent
      BY <2>1, <2>4, <2>5, <2>7
    <3>2. \A k \in Task : tasks[k] # NoRow => tasks[k].parent \in Task \cup {None}
      BY DEF IInv, TypeOK, Row
    <3>3. QED
      BY <3>1, <3>2 DEF IInv, ParentExists, Exists
  <2>10. \A k \in Task : Children(k)' \subseteq Children(k)
    BY <1>1, <2>1, <2>4, <2>7 DEF Children, Exists
  <2>11. \A k \in Task : lock[k] \notin {None, r} => tasks'[k] = tasks[k]
    BY <1>2, <2>7
  <2>12. QED
    BY <1>2, <2>7, <2>8, <2>9, <2>10, <2>11, FinishPreserves DEF IInv, TypeOK
<1>5. QED
  BY <1>3, <1>4

LEMMA DeleteLockPreserves ==
    ASSUME IInv, NEW r \in Request, DeleteLock(r)
    PROVE  IInv'
<1>1. PICK t \in Task :
         /\ Exists(t) /\ CanLock(t) /\ TakeLock(r, t)
         /\ dtx' = [dtx EXCEPT ![r] =
               [order |-> <<t>>, next |-> 1, left |-> 0,
                snap |-> [NoSnapshot EXCEPT !.rows[t] = tasks[t]]]]
  BY DEF DeleteLock
<1> DEFINE snap == [NoSnapshot EXCEPT !.rows[t] = tasks[t]]
           d    == [order |-> <<t>>, next |-> 1, left |-> 0, snap |-> snap]
<1>3. tasks[t] \in Row
  BY <1>1 DEF IInv, TypeOK, Exists
<1>4. snap = [rows |-> [k \in Task |-> IF k = t THEN tasks[t] ELSE NoRow],
              logs |-> [k \in Task |-> <<>>]]
  BY DEF NoSnapshot
<1>5. /\ snap \in Snapshot
      /\ snap.rows[t] = tasks[t]
      /\ \A k \in Task \ {t} : snap.rows[k] = NoRow
  <2>1. <<>> \in Seq(Entry)
    OBVIOUS
  <2>2. /\ [k \in Task |-> IF k = t THEN tasks[t] ELSE NoRow]
              \in [Task -> Row \cup {NoRow}]
        /\ [k \in Task |-> <<>>] \in [Task -> Seq(Entry)]
    BY <1>3, <2>1
  <2>3. QED
    BY <1>4, <2>2 DEF Snapshot
<1> HIDE DEF snap
<1>6. /\ d \in DeleteContext /\ d.left <= Len(d.order)
      /\ d.order # <<>> /\ d.order[1] = t /\ d.snap = snap
  <2>1. <<t>> \in Seq(Task) /\ Len(<<t>>) = 1 /\ <<t>> # <<>> /\ <<t>>[1] = t
    OBVIOUS
  <2>2. d.order = <<t>> /\ d.left = 0 /\ d.snap = snap
    OBVIOUS
  <2>3. d \in DeleteContext
    BY <1>5, <2>1 DEF DeleteContext
  <2>4. QED
    BY <2>1, <2>2, <2>3
<1> HIDE DEF d
<1>7. /\ dtx' \in [Request -> DeleteContext] /\ dtx'[r] = d
      /\ \A x \in Request \ {r} : dtx'[x] = dtx[x]
  BY <1>1, <1>6 DEF IInv, TypeOK, d, snap
<1>8. /\ pc' = [pc EXCEPT ![r] = "scan"]
      /\ UNCHANGED <<week, tasks, log, used, ctx, undo>>
  BY DEF DeleteLock
<1>9. /\ pc' \in [Request -> PC] /\ pc'[r] = "scan"
      /\ \A x \in Request \ {r} : pc'[x] = pc[x]
  BY <1>8 DEF IInv, TypeOK, PC
<1>10. /\ lock' \in [Task -> Request \cup {None}] /\ lock'[t] = r
       /\ \A k \in Task : lock'[k] # lock[k] => lock[k] = None /\ lock'[k] = r
  BY <1>1 DEF IInv, TypeOK, TakeLock, CanLock
<1>11. TypeOK'
  BY <1>6, <1>7, <1>8, <1>9, <1>10 DEF IInv, TypeOK
<1>12. LocalStep(r)
  BY <1>7, <1>8, <1>9, <1>10 DEF LocalStep
<1>13. SnapshotInv(r)'
  <2>1. t \in used /\ RowCoherent(tasks[t])
    BY <1>1 DEF IInv, UndoInv, RowsCoherent
  <2>2. \A k \in Task : dtx'[r].snap.rows[k] # NoRow =>
           k = t /\ dtx'[r].snap.rows[k] = tasks[t]
    BY <1>5, <1>6, <1>7
  <2>3. QED
    BY <1>8, <2>1, <2>2 DEF SnapshotInv
<1>14. ContextInv(r)'
  BY <1>9 DEF ContextInv, PatchPC
<1>15. DeleteInv(r)'
  BY <1>1, <1>5, <1>6, <1>7, <1>8, <1>9, <1>10 DEF DeleteInv, Gone, Exists
<1>16. QED
  BY <1>11, <1>12, <1>13, <1>14, <1>15, LocalPreserves

\* Task is finite, so the children of a row can be put in a sequence.
LEMMA OrderingsType ==
    ASSUME NEW S \in SUBSET Task, NEW s \in Orderings(S)
    PROVE  s \in Seq(Task)
<1>1. IsFiniteSet(S)
  BY StoreAssumption, FS_Subset DEF StoreAssumption
<1>2. Cardinality(S) \in Nat
  BY <1>1, FS_CardinalityType
<1>3. s \in [1..Cardinality(S) -> Task]
  BY DEF Orderings
<1>4. QED
  BY <1>2, <1>3, SeqDef

LEMMA DeleteScanPreserves ==
    ASSUME IInv, NEW r \in Request, DeleteScan(r)
    PROVE  IInv'
<1> DEFINE d    == dtx[r]
           kids == Children(d.order[d.next]) \ ToSet(d.order)
           rows == [t \in Task |-> IF t \in kids THEN tasks[t] ELSE d.snap.rows[t]]
<1>1. PICK s \in Orderings(kids) :
         /\ dtx' = [dtx EXCEPT ![r] =
               [order |-> d.order \o s, next |-> d.next + 1, left |-> d.left,
                snap |-> [rows |-> rows, logs |-> d.snap.logs]]]
         /\ pc' = IF d.next = Len(d.order) + Len(s)
                  THEN [pc EXCEPT ![r] = "timeline"] ELSE pc
  BY DEF DeleteScan
<1> DEFINE snap == [rows |-> rows, logs |-> d.snap.logs]
           e    == [order |-> d.order \o s, next |-> d.next + 1, left |-> d.left,
                    snap |-> snap]
<1>2. /\ d \in DeleteContext /\ d.snap \in Snapshot /\ d.order \in Seq(Task)
      /\ d.next \in Nat /\ d.left \in Nat /\ d.left <= Len(d.order)
      /\ pc[r] = "scan" /\ DeleteInv(r)
  BY DEF IInv, TypeOK, DeleteContext, DeleteScan
<1>3. s \in Seq(Task) /\ kids \subseteq Task
  BY OrderingsType DEF Children
<1>4. rows \in [Task -> Row \cup {NoRow}]
  BY <1>2 DEF Snapshot, IInv, TypeOK
<1>5. dtx' = [dtx EXCEPT ![r] = e]
  BY <1>1 DEF snap
<1>6. snap \in Snapshot /\ snap.rows = rows
  BY <1>2, <1>4 DEF Snapshot
<1> HIDE DEF snap
<1>7. /\ e.order = d.order \o s /\ e.next = d.next + 1 /\ e.left = d.left
      /\ e.snap = snap
  OBVIOUS
<1>8. /\ e.order \in Seq(Task) /\ Len(e.order) = Len(d.order) + Len(s)
      /\ Len(s) \in Nat /\ Len(d.order) \in Nat
  BY <1>2, <1>3, <1>7
<1>9. e \in DeleteContext /\ e.left <= Len(e.order)
  <2>1. e \in DeleteContext
    BY <1>2, <1>6, <1>8 DEF DeleteContext
  <2>2. QED
    BY <1>2, <1>7, <1>8, <2>1
<1>10. /\ d.order # <<>> /\ d.order[1] \in Task
       /\ d.order[1] = e.order[1] /\ e.order # <<>> /\ d.order[1] \notin kids
  BY <1>2, <1>3, <1>7, <1>8 DEF DeleteInv, DeletePC, ToSet
<1>11. \A t \in Task : rows[t] = IF t \in kids THEN tasks[t] ELSE d.snap.rows[t]
  OBVIOUS
<1> HIDE DEF rows, kids
<1>12. /\ dtx' \in [Request -> DeleteContext] /\ dtx'[r] = e
       /\ \A x \in Request \ {r} : dtx'[x] = dtx[x]
  <2>1. dtx \in [Request -> DeleteContext]
    BY DEF IInv, TypeOK
  <2> HIDE DEF e
  <2>2. QED
    BY <1>5, <1>9, <2>1
<1>13. UNCHANGED <<week, tasks, log, used, lock, ctx, undo>>
  BY DEF DeleteScan
<1>14. /\ pc' \in [Request -> PC] /\ pc'[r] \in {"scan", "timeline"}
       /\ \A x \in Request \ {r} : pc'[x] = pc[x]
  BY <1>1, <1>2 DEF IInv, TypeOK, PC
<1>15. TypeOK'
  BY <1>9, <1>12, <1>13, <1>14 DEF IInv, TypeOK
<1>16. LocalStep(r)
  BY <1>12, <1>13, <1>14 DEF LocalStep
<1>17. SnapshotInv(r)'
  BY <1>6, <1>7, <1>11, <1>12, <1>13
     DEF IInv, UndoInv, RowsCoherent, SnapshotInv, Exists
<1>18. ContextInv(r)'
  BY <1>14 DEF ContextInv, PatchPC
<1>19. DeleteInv(r)'
  <2>1. Gone(r)' = {}
    BY <1>14 DEF Gone
  <2>2. PICK root \in Task : root = d.order[1]
    BY <1>10
  <2>3. lock[root] = r /\ Exists(root) /\ d.snap.rows[root] = tasks[root]
    BY <1>2, <2>2 DEF DeleteInv, DeletePC
  <2>4. rows[root] = d.snap.rows[root]
    BY <1>10, <1>11, <2>2
  <2> HIDE DEF e, d
  <2>5. /\ dtx'[r].order # <<>> /\ dtx'[r].order[1] = root
        /\ dtx'[r].snap.rows[root] = tasks[root]
    BY <1>6, <1>7, <1>10, <1>12, <2>2, <2>3, <2>4
  <2>6. QED
    BY <1>13, <1>14, <2>1, <2>3, <2>5 DEF DeleteInv, Exists
<1>20. QED
  BY <1>15, <1>16, <1>17, <1>18, <1>19, LocalPreserves

LEMMA DeleteTimelinePreserves ==
    ASSUME IInv, NEW r \in Request, DeleteTimeline(r)
    PROVE  IInv'
<1> DEFINE d    == dtx[r]
           logs == TimelinesOf(ToSet(d.order))
           snap == [rows |-> d.snap.rows, logs |-> logs]
           e    == [order |-> d.order, next |-> d.next, left |-> Len(d.order),
                    snap |-> snap]
<1>1. /\ dtx' = [dtx EXCEPT ![r] = e]
      /\ pc' = [pc EXCEPT ![r] = "delete"]
      /\ UNCHANGED <<week, tasks, log, used, lock, ctx, undo>>
  BY DEF DeleteTimeline
<1>2. /\ d \in DeleteContext /\ d.snap \in Snapshot /\ d.order \in Seq(Task)
      /\ d.next \in Nat /\ pc[r] = "timeline" /\ DeleteInv(r)
  BY DEF IInv, TypeOK, DeleteContext, DeleteTimeline
<1>3. logs \in [Task -> Seq(Entry)]
  <2>1. <<>> \in Seq(Entry) /\ log \in [Task -> Seq(Entry)]
    BY DEF IInv, TypeOK
  <2>2. QED
    BY <2>1 DEF TimelinesOf
<1>4. /\ d.order # <<>> /\ d.order[1] \in Task /\ Len(d.order) \in Nat
      /\ d.order[1] \in ToSet(d.order)
  BY <1>2 DEF DeleteInv, DeletePC, ToSet
<1>5. logs[d.order[1]] = log[d.order[1]]
  BY <1>4 DEF TimelinesOf
<1> HIDE DEF logs
<1>6. snap \in Snapshot /\ snap.rows = d.snap.rows /\ snap.logs = logs
  BY <1>2, <1>3 DEF Snapshot
<1> HIDE DEF snap
<1>7. /\ e.order = d.order /\ e.left = Len(d.order) /\ e.snap = snap
      /\ e \in DeleteContext
  BY <1>2, <1>4, <1>6 DEF DeleteContext
<1> HIDE DEF e
<1>8. /\ dtx' \in [Request -> DeleteContext] /\ dtx'[r] = e
      /\ \A x \in Request \ {r} : dtx'[x] = dtx[x]
  BY <1>1, <1>7 DEF IInv, TypeOK
<1>9. /\ pc' \in [Request -> PC] /\ pc'[r] = "delete"
      /\ \A x \in Request \ {r} : pc'[x] = pc[x]
  BY <1>1 DEF IInv, TypeOK, PC
<1>10. TypeOK'
  BY <1>1, <1>4, <1>7, <1>8, <1>9 DEF IInv, TypeOK
<1>11. LocalStep(r)
  BY <1>1, <1>8, <1>9 DEF LocalStep
<1>12. SnapshotInv(r)'
  BY <1>1, <1>6, <1>7, <1>8 DEF IInv, SnapshotInv
<1>13. ContextInv(r)'
  BY <1>9 DEF ContextInv, PatchPC
<1>14. Gone(r)' = {}
  BY <1>4, <1>7, <1>8 DEF Gone
<1>15. DeleteInv(r)'
  BY <1>1, <1>2, <1>4, <1>5, <1>6, <1>7, <1>8, <1>9, <1>14
     DEF DeleteInv, Exists, DeletePC
<1>16. QED
  BY <1>10, <1>11, <1>12, <1>13, <1>15, LocalPreserves

LEMMA DeleteRowPreserves ==
    ASSUME IInv, NEW r \in Request, DeleteRow(r)
    PROVE  IInv'
<1> DEFINE d    == dtx[r]
           head == DeleteHead(r)
<1>1. /\ d \in DeleteContext /\ d.order \in Seq(Task) /\ d.left \in Nat
      /\ d.left > 0 /\ d.left <= Len(d.order) /\ Len(d.order) \in Nat
      /\ pc[r] = "delete" /\ DeleteInv(r)
  BY DEF IInv, TypeOK, DeleteContext, DeleteRow
<1>2. head \in Task /\ head = d.order[d.left]
  BY <1>1 DEF DeleteHead
<1>3. /\ dtx' = [dtx EXCEPT ![r].left = @ - 1]
      /\ lock[head] \in {None, r}
      /\ lock' = IF Exists(head) THEN [lock EXCEPT ![head] = r] ELSE lock
      /\ Children(head) \ Gone(r) = {}
      /\ UNCHANGED <<week, tasks, log, used, pc, ctx, undo>>
  BY DEF DeleteRow, Held, TakeLock, Referencing
<1> HIDE DEF head
<1>4. /\ dtx' \in [Request -> DeleteContext]
      /\ dtx'[r].order = d.order /\ dtx'[r].left = d.left - 1
      /\ dtx'[r].snap = d.snap
      /\ \A x \in Request \ {r} : dtx'[x] = dtx[x]
  <2> DEFINE e == [d EXCEPT !.left = @ - 1]
  <2>1. dtx' = [dtx EXCEPT ![r] = e] /\ dtx \in [Request -> DeleteContext]
    BY <1>3 DEF IInv, TypeOK
  <2>2. e.order = d.order /\ e.left = d.left - 1 /\ e.snap = d.snap
    BY <1>1 DEF DeleteContext
  <2>3. e \in DeleteContext
    BY <1>1 DEF DeleteContext
  <2> HIDE DEF e
  <2>4. QED
    BY <2>1, <2>2, <2>3
<1>5. /\ lock' \in [Task -> Request \cup {None}]
      /\ \A t \in Task : lock'[t] # lock[t] => lock[t] = None /\ lock'[t] = r
      /\ \A t \in Task : lock[t] = r => lock'[t] = r
      /\ \A t \in Task : t # head => lock'[t] = lock[t]
  BY <1>2, <1>3 DEF IInv, TypeOK
<1>6. TypeOK'
  BY <1>1, <1>3, <1>4, <1>5 DEF IInv, TypeOK
<1>7. LocalStep(r)
  BY <1>3, <1>4, <1>5 DEF LocalStep
<1>8. SnapshotInv(r)'
  BY <1>3, <1>4 DEF IInv, SnapshotInv
<1>9. ContextInv(r)'
  BY <1>1, <1>3 DEF ContextInv, PatchPC
<1>10. d.order # <<>> /\ d.order[1] \in Task
  BY <1>1 DEF DeleteInv, DeletePC
<1>11. Gone(r) \subseteq Gone(r)'
  <2> SUFFICES ASSUME NEW t \in Gone(r) PROVE t \in Gone(r)'
    OBVIOUS
  <2>1. PICK i \in d.left + 1 .. Len(d.order) : d.order[i] = t
    BY DEF Gone
  <2>2. i \in dtx'[r].left + 1 .. Len(dtx'[r].order) /\ dtx'[r].order[i] = t
    BY <1>1, <1>4, <2>1
  <2>3. t \in Task /\ lock'[t] = r /\ pc'[r] = "delete"
    BY <1>1, <1>3, <1>5 DEF Gone
  <2>4. QED
    BY <2>2, <2>3 DEF Gone
<1>12. Gone(r)' \subseteq Gone(r) \cup {head}
  <2> SUFFICES ASSUME NEW t \in Gone(r)', t # head PROVE t \in Gone(r)
    OBVIOUS
  <2>1. PICK i \in dtx'[r].left + 1 .. Len(dtx'[r].order) : dtx'[r].order[i] = t
    BY DEF Gone
  <2>2. i \in d.left + 1 .. Len(d.order) /\ d.order[i] = t
    BY <1>1, <1>2, <1>4, <2>1
  <2>3. t \in Task /\ lock[t] = r /\ pc[r] = "delete"
    BY <1>1, <1>5 DEF Gone
  <2>4. QED
    BY <2>2, <2>3 DEF Gone
<1>13. \A t \in Gone(r)' : Children(t)' \subseteq Gone(r)'
  <2>1. \A t : Children(t)' = Children(t)
    BY <1>3 DEF Children, Exists
  <2>2. \A t \in Gone(r) : Children(t) \subseteq Gone(r)
    BY <1>1 DEF DeleteInv
  <2>3. QED
    BY <1>3, <1>11, <1>12, <2>1, <2>2
<1>14. DeleteInv(r)'
  BY <1>1, <1>3, <1>4, <1>5, <1>10, <1>13 DEF DeleteInv, Exists, DeletePC
<1>15. QED
  BY <1>6, <1>7, <1>8, <1>9, <1>14, LocalPreserves

\* The children of a row go before it, and nobody could attach one since.
LEMMA DeleteCommitPreserves ==
    ASSUME IInv, NEW r \in Request, DeleteCommit(r)
    PROVE  IInv'
<1> DEFINE gone == Gone(r)
<1>1. /\ tasks' = [t \in Task |-> IF t \in gone THEN NoRow ELSE tasks[t]]
      /\ log' = [t \in Task |-> IF t \in gone THEN <<>> ELSE log[t]]
      /\ undo' = dtx[r].snap
      /\ Finish(r)
      /\ UNCHANGED <<week, used>>
  BY DEF DeleteCommit
<1>2. /\ \A t \in gone : lock[t] = r
      /\ \A t \in gone : Children(t) \subseteq gone
  BY DEF IInv, DeleteInv, Gone
<1> HIDE DEF gone
<1>3. tasks' \in [Task -> Row \cup {NoRow}]
  BY <1>1 DEF IInv, TypeOK
<1>4. log' \in [Task -> Seq(Entry)]
  <2>1. <<>> \in Seq(Entry) /\ log \in [Task -> Seq(Entry)]
    BY DEF IInv, TypeOK
  <2>2. QED
    BY <1>1, <2>1
<1>5. undo' \in Snapshot
  BY <1>1 DEF IInv, TypeOK, DeleteContext
<1>6. \A t \in Task : tasks'[t] # NoRow => t \notin gone /\ tasks'[t] = tasks[t]
  BY <1>1
<1>7. UndoInv'
  BY <1>1, <1>6 DEF IInv, UndoInv, SnapshotInv, Exists
<1>8. RowsCoherent'
  BY <1>6 DEF IInv, RowsCoherent, Exists
<1>9. ParentExists'
  <2> SUFFICES ASSUME NEW t \in Task, tasks'[t] # NoRow, tasks'[t].parent # None
               PROVE  tasks'[tasks'[t].parent] # NoRow
    BY DEF ParentExists, Exists
  <2> DEFINE p == tasks[t].parent
  <2>1. t \notin gone /\ tasks'[t] = tasks[t]
    BY <1>6
  <2>2. p \in Task /\ tasks[p] # NoRow
    BY <2>1 DEF IInv, TypeOK, ParentExists, Exists, Row
  <2>3. t \in Children(p)
    BY <2>1 DEF Children, Exists
  <2>4. p \notin gone
    BY <1>2, <2>1, <2>3
  <2>5. QED
    BY <1>1, <2>1, <2>2, <2>4
<1>10. \A t \in Task : lock[t] \notin {None, r} =>
          tasks'[t] = tasks[t] /\ log'[t] = log[t]
  BY <1>1, <1>2
<1>11. \A t \in Task : Children(t)' \subseteq Children(t)
  BY <1>6 DEF Children, Exists
<1>12. QED
  BY <1>1, <1>3, <1>4, <1>5, <1>7, <1>8, <1>9, <1>10, <1>11, FinishPreserves
     DEF IInv, TypeOK

\* What is restored was used, is coherent, and hangs under rows that are there
\* and that nobody is deleting.
LEMMA RestorePreserves ==
    ASSUME IInv, RestoreTasks
    PROVE  IInv'
<1> DEFINE new == {t \in Payload : ~Exists(t)}
<1>1. /\ tasks' = [t \in Task |-> IF t \in new THEN undo.rows[t] ELSE tasks[t]]
      /\ log' = [t \in Task |-> IF t \in new THEN undo.logs[t] ELSE log[t]]
      /\ UNCHANGED <<week, used, lock, pc, ctx, dtx, undo>>
      /\ \A k \in new :
            undo.rows[k].parent \notin new \cup {None} =>
               lock[undo.rows[k].parent] = None
      /\ \A k \in Payload, r \in Request : k \notin Gone(r)
      /\ \A k \in Payload :
            undo.rows[k].parent # None =>
               undo.rows[k].parent \in Payload \/ Exists(undo.rows[k].parent)
  BY DEF RestoreTasks, Restorable
<1>2. /\ new \subseteq Task /\ new \subseteq Payload
      /\ \A t \in Task : t \in new <=> undo.rows[t] # NoRow /\ tasks[t] = NoRow
  BY DEF Payload, Exists
<1> HIDE DEF new
<1>3. undo \in Snapshot /\ undo.rows \in [Task -> Row \cup {NoRow}]
      /\ undo.logs \in [Task -> Seq(Entry)]
  BY DEF IInv, TypeOK, Snapshot
<1>4. TypeOK'
  <2>1. tasks' \in [Task -> Row \cup {NoRow}]
    BY <1>1, <1>2, <1>3 DEF IInv, TypeOK
  <2>2. log' \in [Task -> Seq(Entry)]
    BY <1>1, <1>2, <1>3 DEF IInv, TypeOK
  <2>3. QED
    BY <1>1, <2>1, <2>2 DEF IInv, TypeOK
<1>5. /\ \A t \in Task : tasks[t] # NoRow => tasks'[t] = tasks[t] /\ log'[t] = log[t]
      /\ \A t \in Task : tasks'[t] # tasks[t] =>
            t \in new /\ tasks'[t] = undo.rows[t]
  BY <1>1, <1>2
<1>6. UndoInv'
  BY <1>1, <1>2, <1>5 DEF IInv, UndoInv, Exists
<1>7. RowsCoherent'
  BY <1>2, <1>5 DEF IInv, UndoInv, RowsCoherent, Exists
<1>8. ParentExists'
  <2> SUFFICES ASSUME NEW t \in Task, tasks'[t] # NoRow, tasks'[t].parent # None
               PROVE  tasks'[tasks'[t].parent] # NoRow
    BY DEF ParentExists, Exists
  <2>1. CASE tasks'[t] = tasks[t]
    <3>1. tasks[t].parent \in Task /\ tasks[tasks[t].parent] # NoRow
      BY <2>1 DEF IInv, TypeOK, ParentExists, Exists, Row
    <3>2. QED
      BY <1>5, <2>1, <3>1
  <2>2. CASE t \in new /\ tasks'[t] = undo.rows[t]
    <3> DEFINE p == undo.rows[t].parent
    <3>1. p \in Task
      BY <1>3, <2>2 DEF Row
    <3>2. p \in Payload \/ tasks[p] # NoRow
      BY <1>1, <1>2, <2>2 DEF Exists
    <3>3. p \in new \/ tasks[p] # NoRow
      BY <1>2, <3>1, <3>2 DEF Payload
    <3>4. QED
      BY <1>1, <1>2, <1>5, <2>2, <3>1, <3>3
  <2>3. QED
    BY <1>5, <2>1, <2>2
<1>9. ASSUME NEW r \in Request
      PROVE  SnapshotInv(r)' /\ ContextInv(r)' /\ DeleteInv(r)'
  <2>1. SnapshotInv(r) /\ ContextInv(r) /\ DeleteInv(r)
    BY DEF IInv
  <2>2. SnapshotInv(r)'
    BY <1>1, <2>1 DEF SnapshotInv
  <2>3. ContextInv(r)'
    <3>1. pc[r] \in PatchPC => ctx[r].id \in Task /\ tasks[ctx[r].id] # NoRow
      BY <2>1, DataAssumption DEF ContextInv, DataAssumption
    <3>2. QED
      BY <1>1, <1>5, <2>1, <3>1 DEF ContextInv
  <2>4. Gone(r)' = Gone(r)
    BY <1>1 DEF Gone
  <2>5. ASSUME NEW t \in Gone(r)
        PROVE  Children(t)' \subseteq Gone(r)
    <3> SUFFICES ASSUME NEW k \in Children(t)' PROVE k \in Gone(r)
      OBVIOUS
    <3>1. k \in Task /\ tasks'[k] # NoRow /\ tasks'[k].parent = t
      BY DEF Children, Exists
    <3>2. t \in Task /\ lock[t] # None /\ t # None /\ t \notin new
      BY <1>1, <1>2, StoreAssumption, DataAssumption
         DEF StoreAssumption, DataAssumption, Gone
    <3>3. k \notin new
      BY <1>1, <1>5, <3>1, <3>2
    <3>4. k \in Children(t)
      BY <1>5, <3>1, <3>3 DEF Children, Exists
    <3>5. QED
      BY <2>1, <3>4 DEF DeleteInv
  <2>6. pc[r] \in DeletePC => dtx[r].order[1] \in Task
    BY <2>1 DEF DeleteInv, IInv, TypeOK, DeleteContext
  <2>7. DeleteInv(r)'
    BY <1>1, <1>5, <2>1, <2>4, <2>5, <2>6 DEF DeleteInv, Exists
  <2>8. QED
    BY <2>2, <2>3, <2>7
<1>10. QED
  BY <1>4, <1>6, <1>7, <1>8, <1>9 DEF IInv

LEMMA TickPreserves ==
    ASSUME IInv, Tick
    PROVE  IInv'
<1>1. /\ week' \in Week
      /\ UNCHANGED <<tasks, log, used, lock, pc, ctx, dtx, undo>>
  BY DataAssumption DEF DataAssumption, Tick, IInv, TypeOK, Week
<1>2. TypeOK'
  BY <1>1 DEF IInv, TypeOK
<1>3. UndoInv' /\ RowsCoherent' /\ ParentExists'
  BY <1>1 DEF IInv, UndoInv, RowsCoherent, ParentExists, Exists
<1>4. \A r \in Request : SnapshotInv(r)' /\ ContextInv(r)' /\ DeleteInv(r)'
  BY <1>1 DEF IInv, SnapshotInv, ContextInv, DeleteInv, Gone, Children, Exists
<1>5. QED
  BY <1>2, <1>3, <1>4 DEF IInv

LEMMA StutterPreserves ==
    ASSUME IInv, UNCHANGED vars
    PROVE  IInv'
<1>1. UNCHANGED <<week, tasks, log, used, lock, pc, ctx, dtx, undo>>
  BY DEF vars
<1>2. TypeOK'
  BY <1>1 DEF IInv, TypeOK
<1>3. UndoInv' /\ RowsCoherent' /\ ParentExists'
  BY <1>1 DEF IInv, UndoInv, RowsCoherent, ParentExists, Exists
<1>4. \A r \in Request : SnapshotInv(r)' /\ ContextInv(r)' /\ DeleteInv(r)'
  BY <1>1 DEF IInv, SnapshotInv, ContextInv, DeleteInv, Gone, Children, Exists
<1>5. QED
  BY <1>2, <1>3, <1>4 DEF IInv

-------------------------------------------------------------------------------
(* The theorems.                                                            *)

LEMMA ProceedPreserves ==
    ASSUME IInv, NEW r \in Request, Proceed(r)
    PROVE  IInv'
<1>1. CASE CreateInsert(r)
  BY <1>1, CreateInsertPreserves
<1>2. CASE WalkUp(r)
  BY <1>2, WalkUpPreserves
<1>3. CASE WalkEnd(r)
  BY <1>3, WalkEndPreserves
<1>4. CASE ChildrenCheck(r)
  BY <1>4, ChildrenCheckPreserves
<1>5. CASE PatchWrite(r)
  BY <1>5, PatchWritePreserves
<1>6. CASE RescheduleWrite(r)
  BY <1>6, RescheduleWritePreserves
<1>7. CASE DeleteScan(r)
  BY <1>7, DeleteScanPreserves
<1>8. CASE DeleteTimeline(r)
  BY <1>8, DeleteTimelinePreserves
<1>9. CASE DeleteRow(r)
  BY <1>9, DeleteRowPreserves
<1>10. CASE DeleteCommit(r)
  BY <1>10, DeleteCommitPreserves
<1>11. CASE \/ CreateFail(r) \/ WalkRefuse(r) \/ PatchFail(r)
            \/ DeleteConflict(r) \/ DeadlockAbort(r)
  BY <1>11, RefusePreserves
     DEF CreateFail, WalkRefuse, PatchFail, DeleteConflict, DeadlockAbort
<1>12. QED
  BY <1>1, <1>2, <1>3, <1>4, <1>5, <1>6, <1>7, <1>8, <1>9, <1>10, <1>11 DEF Proceed

\* IInv holds in every reachable state, whatever the requests do.
THEOREM Invariance == Spec => []IInv
<1>1. Init => IInv
  BY InitInv
<1>2. IInv /\ [Next]_vars => IInv'
  <2> SUFFICES ASSUME IInv, [Next]_vars PROVE IInv'
    OBVIOUS
  <2>1. ASSUME NEW r \in Request, Arrive(r) PROVE IInv'
    BY <2>1, CreateCheckPreserves, PatchLockPreserves, RescheduleReadPreserves,
       DeleteLockPreserves DEF Arrive
  <2>2. ASSUME NEW r \in Request, Proceed(r) PROVE IInv'
    BY <2>2, ProceedPreserves
  <2>3. CASE RestoreTasks
    BY <2>3, RestorePreserves
  <2>4. CASE Tick
    BY <2>4, TickPreserves
  <2>5. CASE UNCHANGED vars
    BY <2>5, StutterPreserves
  <2>6. QED
    BY <2>1, <2>2, <2>3, <2>4, <2>5 DEF Next
<1>3. QED
  BY <1>1, <1>2, PTL DEF Spec

\* Every variable keeps its type; in particular a delete never indexes past the
\* subtree it read.
THEOREM TypeCorrect == Spec => []TypeOK
<1>1. IInv => TypeOK
  BY DEF IInv
<1>2. QED
  BY <1>1, Invariance, PTL

\* However patches, reschedules, deletes and undos interleave, ownership, board
\* week, completion and assignee of every stored row agree with its team and its
\* status (patchTaskTx derives them from a row it read earlier).
THEOREM RowsStayCoherent == Spec => []RowsCoherent
<1>1. IInv => RowsCoherent
  BY DEF IInv
<1>2. QED
  BY <1>1, Invariance, PTL

\* No patch overwrites an update it has not seen (the FOR UPDATE of getTaskRow
\* replaces the compare-and-set on updatedAt).
THEOREM NoLostUpdate == Spec => []PatchSeesCurrentRow
<1>1. IInv => PatchSeesCurrentRow
  BY DEF IInv, ContextInv, PatchSeesCurrentRow, Patching
<1>2. QED
  BY <1>1, Invariance, PTL

\* No interleaving of creates, moves, deletes and undos leaves a task under a
\* parent that is gone.
THEOREM NoDanglingParent == Spec => []ParentExists
<1>1. IInv => ParentExists
  BY DEF IInv
<1>2. QED
  BY <1>1, Invariance, PTL

\* The root of a delete is restored exactly as it was removed.
THEOREM RootUndo == Spec => []RootUndoIsExact
<1>1. IInv => RootUndoIsExact
  BY DEF IInv, DeleteInv, RootUndoIsExact, DeletePC
<1>2. QED
  BY <1>1, Invariance, PTL

-------------------------------------------------------------------------------
(* No two tasks are each other's parent.  TreeInv rests on IInv: a patch that *)
(* passed the new parent's row holds its own until it writes, and who puts a  *)
(* row under that one has to share it.                                        *)

\* Nothing comes under a row that x holds.
NothingComesUnder(x) ==
    \A k \in used, t \in Task :
       lock[t] = x /\ tasks'[k] # NoRow /\ tasks'[k].parent = t =>
          tasks[k] # NoRow /\ tasks[k].parent = t

\* What x's patch knows of its new parent stays true.
LEMMA WalkFrame ==
    ASSUME IInv, TreeInv, NEW x \in Request, pc'[x] = pc[x], ctx'[x] = ctx[x],
           used \subseteq used', NothingComesUnder(x)
    PROVE  WalkInv(x)'
<1>1. WalkInv(x) /\ ContextInv(x)
  BY DEF IInv, TreeInv
<1>2. pc[x] \in PatchPC => ctx[x].id \in Task /\ lock[ctx[x].id] = x
  BY <1>1 DEF ContextInv
<1>3. QED
  BY <1>1, <1>2 DEF WalkInv, ParentRead, NothingComesUnder, Exists

\* Every row that is there was there, under the same parent.
RowsStayPut ==
    /\ used \subseteq used'
    /\ \A t \in Task : tasks'[t] # NoRow =>
          tasks[t] # NoRow /\ tasks'[t].parent = tasks[t].parent

LEMMA PutFrame ==
    ASSUME IInv, TreeInv, RowsStayPut
    PROVE  /\ NoMutualParents'
           /\ \A x \in Request :
                 pc'[x] = pc[x] /\ ctx'[x] = ctx[x] => WalkInv(x)'
<1>1. NoMutualParents'
  BY DEF TreeInv, NoMutualParents, RowsStayPut, Exists
<1>2. \A x \in Request : NothingComesUnder(x)
  BY DEF NothingComesUnder, RowsStayPut, IInv, TypeOK
<1>3. QED
  BY <1>1, <1>2, WalkFrame DEF RowsStayPut

\* A request that ends owes nothing; those that go on are framed.
LEMMA FinishTree ==
    ASSUME IInv, NEW r \in Request, Finish(r), NoMutualParents',
           \A x \in Request \ {r} :
              pc'[x] = pc[x] /\ ctx'[x] = ctx[x] => WalkInv(x)'
    PROVE  TreeInv'
<1>1. /\ pc'[r] = "idle"
      /\ \A x \in Request \ {r} : pc'[x] = pc[x] /\ ctx'[x] = ctx[x]
  BY FinishFrame DEF IInv
<1>2. WalkInv(r)'
  BY <1>1 DEF WalkInv, PatchPC
<1>3. QED
  BY <1>1, <1>2 DEF TreeInv

\* Steps of r that move no row and end no request.
LEMMA LocalTree ==
    ASSUME IInv, TreeInv, NEW r \in Request, RowsStayPut, WalkInv(r)',
           \A x \in Request \ {r} : pc'[x] = pc[x] /\ ctx'[x] = ctx[x]
    PROVE  TreeInv'
  BY PutFrame DEF TreeInv

LEMMA ArriveTree ==
    ASSUME IInv, TreeInv, NEW r \in Request, Arrive(r)
    PROVE  TreeInv'
<1>1. pc \in [Request -> PC] /\ ctx \in [Request -> Context]
  BY DEF IInv, TypeOK
<1>2. CASE CreateCheck(r)
  <2>1. RowsStayPut /\ pc'[r] = "insert"
        /\ \A x \in Request \ {r} : pc'[x] = pc[x] /\ ctx'[x] = ctx[x]
    BY <1>1, <1>2 DEF CreateCheck, RowsStayPut
  <2>2. QED
    BY <2>1, LocalTree DEF WalkInv, PatchPC
<1>3. CASE RescheduleRead(r)
  <2>1. RowsStayPut /\ pc'[r] = "reschedule"
        /\ \A x \in Request \ {r} : pc'[x] = pc[x] /\ ctx'[x] = ctx[x]
    BY <1>1, <1>3 DEF RescheduleRead, RowsStayPut
  <2>2. QED
    BY <2>1, LocalTree DEF WalkInv, PatchPC
<1>4. CASE DeleteLock(r)
  <2>1. RowsStayPut /\ pc'[r] = "scan"
        /\ \A x \in Request \ {r} : pc'[x] = pc[x] /\ ctx'[x] = ctx[x]
    BY <1>1, <1>4 DEF DeleteLock, RowsStayPut
  <2>2. QED
    BY <2>1, LocalTree DEF WalkInv, PatchPC
<1>5. CASE PatchLock(r)
  <2>0. PICK u \in User, t \in Task, p \in Patches :
           LET o == tasks[t]
               n == PatchRow(u, o, p, week)
           IN
           /\ Exists(t)
           /\ CanLock(t)
           /\ PatchAllowed(u, o, p)
           /\ FieldsValid(n)
           /\ n.parent # t
           /\ n.status # o.status => Len(log[t]) < MaxLog
           /\ TakeLock(r, t)
           /\ ctx' = [ctx EXCEPT ![r] = [user |-> u, id |-> t, orig |-> o,
                                         new |-> n, cur |-> n.parent,
                                         seen |-> {}]]
           /\ pc' = [pc EXCEPT ![r] = IF n.parent # None THEN "walk"
                                      ELSE AfterParent(o, n)]
    BY <1>5 DEF PatchLock
  <2> DEFINE n == PatchRow(u, tasks[t], p, week)
  <2>1. /\ n.parent # t
        /\ ctx' = [ctx EXCEPT ![r] = [user |-> u, id |-> t, orig |-> tasks[t],
                                      new |-> n, cur |-> n.parent, seen |-> {}]]
        /\ pc' = [pc EXCEPT ![r] = IF n.parent # None THEN "walk"
                                   ELSE AfterParent(tasks[t], n)]
    BY <2>0
  <2>2. /\ ctx'[r].id = t /\ ctx'[r].new = n /\ ctx'[r].cur = n.parent
        /\ ctx'[r].seen = {}
        /\ pc'[r] = IF n.parent # None THEN "walk" ELSE AfterParent(tasks[t], n)
    BY <1>1, <2>1
  <2>3. RowsStayPut
        /\ \A x \in Request \ {r} : pc'[x] = pc[x] /\ ctx'[x] = ctx[x]
    BY <1>1, <1>5, <2>1 DEF PatchLock, RowsStayPut
  <2>4. AfterParent(tasks[t], n) # "walk"
    BY DEF AfterParent
  <2>5. WalkInv(r)'
    BY <2>1, <2>2, <2>4 DEF WalkInv, ParentRead
  <2>6. QED
    BY <2>3, <2>5, LocalTree
<1>6. QED
  BY <1>2, <1>3, <1>4, <1>5 DEF Arrive

\* The walk reads the new parent's row first, and refuses if it finds the row
\* there.
LEMMA WalkTree ==
    ASSUME IInv, TreeInv, NEW r \in Request,
           WalkUp(r) \/ WalkEnd(r) \/ ChildrenCheck(r)
    PROVE  TreeInv'
<1>1. pc \in [Request -> PC] /\ ctx \in [Request -> Context]
  BY DEF IInv, TypeOK
<1>2. WalkInv(r) /\ ContextInv(r)
  BY DEF IInv, TreeInv
<1> DEFINE t == ctx[r].id
           p == ctx[r].new.parent
<1>3. pc[r] = "walk" /\ ctx[r].seen = {} /\ ~WalkRefused(r) =>
         ctx[r].cur = p /\ p \in used /\ tasks[p] # NoRow
  BY <1>2 DEF WalkInv, WalkRefused, ParentValid, ContextInv, IInv, UndoInv, Exists,
              PatchPC
<1>4. CASE WalkUp(r)
  <2>1. /\ pc[r] = "walk" /\ pc'[r] = "walk"
        /\ ctx'[r].id = t /\ ctx'[r].new = ctx[r].new
        /\ ctx'[r].cur = tasks[ctx[r].cur].parent
        /\ ctx'[r].seen = ctx[r].seen \cup {ctx[r].cur}
        /\ ~WalkRefused(r)
        /\ RowsStayPut /\ tasks' = tasks /\ used' = used
        /\ \A x \in Request \ {r} : pc'[x] = pc[x] /\ ctx'[x] = ctx[x]
    BY <1>1, <1>4 DEF WalkUp, RowsStayPut, Context
  <2>2. p # t /\ p # None /\ ctx'[r].seen # {}
    BY <1>2, <2>1 DEF WalkInv, PatchPC
  <2>3. ASSUME ctx'[r].cur # t
        PROVE  p \in used /\ (tasks[p] # NoRow => tasks[p].parent # t)
    <3>1. CASE ctx[r].seen = {}
      BY <1>3, <2>1, <2>3, <3>1
    <3>2. CASE ctx[r].seen # {}
      BY <1>2, <2>1, <2>2, <3>2 DEF WalkInv, ParentRead, WalkRefused, PatchPC, Exists
    <3>3. QED
      BY <3>1, <3>2
  <2>4. WalkInv(r)'
    BY <2>1, <2>2, <2>3 DEF WalkInv, ParentRead, Exists
  <2>5. QED
    BY <2>1, <2>4, LocalTree
<1>5. CASE WalkEnd(r)
  <2>1. /\ pc[r] = "walk" /\ pc'[r] # "walk" /\ ctx' = ctx
        /\ ~WalkRefused(r) /\ WalkEnds(r)
        /\ RowsStayPut /\ tasks' = tasks /\ used' = used
        /\ \A x \in Request \ {r} : pc'[x] = pc[x] /\ ctx'[x] = ctx[x]
    BY <1>1, <1>5 DEF WalkEnd, RowsStayPut, AfterParent
  <2>2. p # t /\ p # None /\ t \in Task
    BY <1>2, <2>1 DEF WalkInv, ContextInv, PatchPC
  <2>3. p \in used /\ (tasks[p] # NoRow => tasks[p].parent # t)
    <3>1. CASE ctx[r].seen = {}
      BY <1>3, <2>1, <2>2, <3>1, DataAssumption DEF WalkEnds, Exists, DataAssumption
    <3>2. CASE ctx[r].seen # {}
      BY <1>2, <2>1, <2>2, <3>2 DEF WalkInv, ParentRead, WalkRefused, PatchPC, Exists
    <3>3. QED
      BY <3>1, <3>2
  <2>4. WalkInv(r)'
    BY <2>1, <2>2, <2>3 DEF WalkInv, ParentRead, Exists
  <2>5. QED
    BY <2>1, <2>4, LocalTree
<1>6. CASE ChildrenCheck(r)
  <2>1. CASE Refuse(r)
    <3>1. Finish(r) /\ RowsStayPut
      BY <2>1 DEF Refuse, RowsStayPut
    <3>2. QED
      BY <3>1, PutFrame, FinishTree
  <2>2. CASE ~Refuse(r)
    <3>1. /\ pc[r] = "children" /\ pc'[r] = "write" /\ ctx' = ctx
          /\ RowsStayPut /\ tasks' = tasks /\ used' = used
          /\ \A x \in Request \ {r} : pc'[x] = pc[x] /\ ctx'[x] = ctx[x]
      BY <1>1, <1>6, <2>2 DEF ChildrenCheck, RowsStayPut
    <3>2. WalkInv(r)'
      BY <1>2, <3>1 DEF WalkInv, ParentRead, Exists, PatchPC
    <3>3. QED
      BY <3>1, <3>2, LocalTree
  <2>3. QED
    BY <2>1, <2>2
<1>7. QED
  BY <1>4, <1>5, <1>6

\* An id never used has no children, and no patch waits to be put under it.
LEMMA CreateInsertTree ==
    ASSUME IInv, TreeInv, NEW r \in Request, CreateInsert(r)
    PROVE  TreeInv'
<1> DEFINE n == ctx[r].new
<1>1. PICK t \in Task \ used :
           /\ tasks' = [tasks EXCEPT ![t] = n]
           /\ used' = used \cup {t}
  BY DEF CreateInsert
<1>2. /\ Finish(r) /\ n \in Row
      /\ n.parent # None => tasks[n.parent] # NoRow /\ lock[n.parent] \in {None, r}
  BY DEF CreateInsert, KeyShare, Exists, Held, IInv, ContextInv
<1>3. tasks[t] = NoRow /\ tasks \in [Task -> Row \cup {NoRow}]
  BY DEF IInv, UndoInv, TypeOK, Exists
<1>4. \A k \in Task : tasks[k] # NoRow => tasks[k].parent # t
  BY <1>3, DataAssumption DEF IInv, ParentExists, Exists, DataAssumption
<1>5. n.parent # t
  BY <1>2, <1>3, DataAssumption DEF DataAssumption
<1>6. NoMutualParents'
  BY <1>1, <1>3, <1>4, <1>5 DEF TreeInv, NoMutualParents, Exists
<1>7. \A x \in Request : NothingComesUnder(x)
  BY <1>1, <1>3 DEF NothingComesUnder, IInv, TypeOK
<1>8. \A x \in Request : pc'[x] = pc[x] /\ ctx'[x] = ctx[x] => WalkInv(x)'
  BY <1>1, <1>7, WalkFrame
<1>9. QED
  BY <1>2, <1>6, <1>8, FinishTree

\* Of a patch that moves its row the new parent is still not under the row, and
\* no row that another patch holds is the new parent.
LEMMA PatchWriteTree ==
    ASSUME IInv, TreeInv, NEW r \in Request, PatchWrite(r)
    PROVE  TreeInv'
<1> DEFINE t == ctx[r].id
           n == ctx[r].new
<1>1. /\ pc[r] = "write" /\ Finish(r) /\ tasks' = [tasks EXCEPT ![t] = n]
      /\ used' = used
      /\ n.parent \notin {None, ctx[r].orig.parent} => lock[n.parent] \in {None, r}
  BY DEF PatchWrite, ChecksParent, KeyShare, Held
<1>2. /\ t \in Task /\ n \in Row /\ ctx[r].orig = tasks[t] /\ tasks[t] \in Row
      /\ tasks \in [Task -> Row \cup {NoRow}]
  BY <1>1 DEF IInv, ContextInv, PatchPC, TypeOK
<1>3. n.parent # t /\ (n.parent # None /\ tasks[n.parent] # NoRow =>
                           tasks[n.parent].parent # t)
  BY <1>1 DEF TreeInv, WalkInv, ParentRead, PatchPC, Exists
<1>4. NoMutualParents'
  BY <1>1, <1>2, <1>3, DataAssumption
     DEF TreeInv, NoMutualParents, Exists, DataAssumption
<1>5. ASSUME NEW x \in Request \ {r}
      PROVE  NothingComesUnder(x)
  <2>1. x # None
    BY StoreAssumption DEF StoreAssumption
  <2>2. SUFFICES ASSUME NEW k \in used, NEW i \in Task, lock[i] = x,
                        tasks'[k] # NoRow, tasks'[k].parent = i
                 PROVE  tasks[k] # NoRow /\ tasks[k].parent = i
    BY DEF NothingComesUnder
  <2>3. k \in Task /\ i # None
    BY DataAssumption DEF DataAssumption, IInv, TypeOK
  <2>4. CASE k = t
    BY <1>1, <1>2, <2>1, <2>2, <2>3, <2>4, DataAssumption DEF DataAssumption
  <2>5. CASE k # t
    BY <1>1, <1>2, <2>2, <2>3, <2>5
  <2>6. QED
    BY <2>4, <2>5
<1>6. \A x \in Request \ {r} : pc'[x] = pc[x] /\ ctx'[x] = ctx[x] => WalkInv(x)'
  BY <1>1, <1>5, WalkFrame
<1>7. QED
  BY <1>1, <1>4, <1>6, FinishTree

\* A row that is restored has no children yet, and hangs under no row that is
\* held.
LEMMA RestoreTree ==
    ASSUME IInv, TreeInv, RestoreTasks
    PROVE  TreeInv'
<1> DEFINE new == {t \in Payload : ~Exists(t)}
<1>1. /\ tasks' = [t \in Task |-> IF t \in new THEN undo.rows[t] ELSE tasks[t]]
      /\ UNCHANGED <<used, pc, ctx>>
      /\ \A k \in new :
            undo.rows[k].parent \notin new \cup {None} =>
               lock[undo.rows[k].parent] = None
      /\ \A C \in SUBSET Payload :
            C # {} => \E k \in C : undo.rows[k].parent \notin C
  BY DEF RestoreTasks, Restorable
<1>2. /\ new \subseteq Task /\ new \subseteq Payload
      /\ \A t \in Task : t \in new => undo.rows[t] # NoRow /\ tasks[t] = NoRow
  BY DEF Payload, Exists
<1> HIDE DEF new
<1>3. tasks \in [Task -> Row \cup {NoRow}]
  BY DEF IInv, TypeOK
<1>4. \A t \in Task : tasks[t] # NoRow => tasks[t].parent \notin new
  BY <1>2, DataAssumption DEF IInv, ParentExists, Exists, DataAssumption
<1>5. ASSUME NEW t \in new, NEW k \in new, undo.rows[t].parent = k
      PROVE  undo.rows[k].parent # t
  <2>1. {t, k} \subseteq Payload /\ {t, k} # {}
    BY <1>2
  <2>2. PICK i \in {t, k} : undo.rows[i].parent \notin {t, k}
    BY <1>1, <2>1
  <2>3. QED
    BY <1>5, <2>2
<1>6. NoMutualParents'
  <2> SUFFICES ASSUME NEW t \in Task, NEW k \in Task, tasks'[t] # NoRow,
                      tasks'[k] # NoRow, tasks'[t].parent = k, tasks'[k].parent = t
               PROVE  FALSE
    BY DEF NoMutualParents, Exists
  <2>1. CASE t \in new /\ k \in new
    BY <1>1, <1>5, <2>1
  <2>2. CASE t \in new /\ k \notin new
    BY <1>1, <1>4, <2>2
  <2>3. CASE t \notin new /\ k \in new
    BY <1>1, <1>4, <2>3
  <2>4. CASE t \notin new /\ k \notin new
    BY <1>1, <2>4 DEF TreeInv, NoMutualParents, Exists
  <2>5. QED
    BY <2>1, <2>2, <2>3, <2>4
<1>7. ASSUME NEW x \in Request
      PROVE  WalkInv(x)'
  <2>1. WalkInv(x) /\ ContextInv(x)
    BY DEF IInv, TreeInv
  <2>2. pc[x] \in PatchPC =>
           /\ ctx[x].id \in Task /\ lock[ctx[x].id] = x /\ x # None
           /\ tasks[ctx[x].id] # NoRow /\ ctx[x].id # None
    BY <2>1, DataAssumption, StoreAssumption
       DEF ContextInv, DataAssumption, StoreAssumption
  <2>3. \A k \in Task : pc[x] \in PatchPC /\ tasks'[k] # NoRow
                            /\ tasks'[k].parent = ctx[x].id =>
           tasks[k] # NoRow /\ tasks[k].parent = ctx[x].id
    BY <1>1, <1>2, <2>2
  <2>4. used \subseteq Task
    BY DEF IInv, TypeOK
  <2>5. QED
    BY <1>1, <2>1, <2>3, <2>4 DEF WalkInv, ParentRead, Exists
<1>8. QED
  BY <1>6, <1>7 DEF TreeInv

LEMMA ProceedTree ==
    ASSUME IInv, TreeInv, NEW r \in Request, Proceed(r)
    PROVE  TreeInv'
<1>1. CASE CreateInsert(r)
  BY <1>1, CreateInsertTree
<1>2. CASE WalkUp(r) \/ WalkEnd(r) \/ ChildrenCheck(r)
  BY <1>2, WalkTree
<1>3. CASE PatchWrite(r)
  BY <1>3, PatchWriteTree
<1>4. CASE RescheduleWrite(r)
  <2>1. Finish(r) /\ RowsStayPut
    <3>1. tasks \in [Task -> Row \cup {NoRow}]
      BY DEF IInv, TypeOK
    <3>2. \A t \in Task : tasks'[t] = tasks[t] \/
             (tasks[t] # NoRow /\ tasks'[t].parent = tasks[t].parent)
      BY <1>4, <3>1 DEF RescheduleWrite, Exists, Row
    <3>3. QED
      BY <1>4, <3>2 DEF RescheduleWrite, RowsStayPut
  <2>2. QED
    BY <2>1, PutFrame, FinishTree
<1>5. CASE DeleteScan(r) \/ DeleteTimeline(r) \/ DeleteRow(r)
  <2>1. RowsStayPut /\ ctx' = ctx /\ pc \in [Request -> PC]
    BY <1>5 DEF DeleteScan, DeleteTimeline, DeleteRow, RowsStayPut, IInv, TypeOK
  <2>2. /\ \A x \in Request \ {r} : pc'[x] = pc[x]
        /\ pc'[r] \notin PatchPC
    BY <1>5, <2>1 DEF DeleteScan, DeleteTimeline, DeleteRow, PatchPC
  <2>3. WalkInv(r)'
    BY <2>2 DEF WalkInv
  <2>4. QED
    BY <2>1, <2>2, <2>3, LocalTree
<1>6. CASE DeleteCommit(r)
  <2>1. Finish(r) /\ RowsStayPut
    BY <1>6 DEF DeleteCommit, RowsStayPut
  <2>2. QED
    BY <2>1, PutFrame, FinishTree
<1>7. CASE \/ CreateFail(r) \/ WalkRefuse(r) \/ PatchFail(r)
           \/ DeleteConflict(r) \/ DeadlockAbort(r)
  <2>1. Finish(r) /\ RowsStayPut
    BY <1>7 DEF CreateFail, WalkRefuse, PatchFail, DeleteConflict, DeadlockAbort,
                Refuse, RowsStayPut
  <2>2. QED
    BY <2>1, PutFrame, FinishTree
<1>8. QED
  BY <1>1, <1>2, <1>3, <1>4, <1>5, <1>6, <1>7 DEF Proceed

LEMMA TreeInvNext == IInv /\ TreeInv /\ [Next]_vars => TreeInv'
<1> SUFFICES ASSUME IInv, TreeInv, [Next]_vars PROVE TreeInv'
  OBVIOUS
<1>1. ASSUME NEW r \in Request, Arrive(r) \/ Proceed(r) PROVE TreeInv'
  BY <1>1, ArriveTree, ProceedTree
<1>2. CASE RestoreTasks
  BY <1>2, RestoreTree
<1>3. CASE Tick \/ UNCHANGED vars
  <2>1. UNCHANGED <<tasks, used, pc, ctx>>
    BY <1>3 DEF Tick, vars
  <2>2. QED
    BY <2>1 DEF TreeInv, NoMutualParents, WalkInv, ParentRead, Exists
<1>4. QED
  BY <1>1, <1>2, <1>3 DEF Next

\* No two tasks are ever each other's parent, and none is its own, although
\* validateTaskFields walks the ancestors without locking them.
THEOREM NoTwoParents == Spec => []NoMutualParents
<1>1. Init => TreeInv
  <2> SUFFICES ASSUME Init PROVE TreeInv
    OBVIOUS
  <2>1. NoMutualParents
    <3> SUFFICES ASSUME NEW t \in Task, NEW k \in Task, tasks[t] # NoRow,
                        tasks[t].parent = k
                 PROVE  tasks[k].parent # t
      BY DEF NoMutualParents, Exists
    <3>1. tasks \in InitTables
      BY DEF Init
    <3>2. k # None
      BY DataAssumption DEF DataAssumption
    <3>3. QED
      BY <3>1, <3>2, StoreAssumption DEF StoreAssumption
  <2>2. \A r \in Request : WalkInv(r)
    BY DEF Init, WalkInv, PatchPC
  <2>3. QED
    BY <2>1, <2>2 DEF TreeInv
<1>2. TreeInv => NoMutualParents
  BY DEF TreeInv
<1>3. QED
  BY <1>1, <1>2, TreeInvNext, Invariance, PTL DEF Spec

-------------------------------------------------------------------------------
(* The timeline explains the status, where no subtask is deleted: either     *)
(* nobody deletes, or no task has a parent.                                  *)

NoSubtasks ==
    /\ \A T \in InitTables, t \in Task : T[t] # NoRow => T[t].parent = None
    /\ \A in \in NewTasks : in.parent = None
    /\ \A p \in Patches : p.parent \in {None, Keep}

Explains(entries, row) ==
    entries # <<>> =>
       /\ row # NoRow
       /\ entries[Len(entries)].to = row.status
       /\ \A i \in 1 .. Len(entries) - 1 : entries[i].to = entries[i + 1].from

\* With NoSubtasks, no row has a parent and none is about to get one.
FlatInv ==
    NoSubtasks =>
       /\ \A t \in Task : tasks[t] # NoRow => tasks[t].parent = None
       /\ \A t \in Task : undo.rows[t] # NoRow => undo.rows[t].parent = None
       /\ \A r \in Request :
             pc[r] \in PatchPC \cup {"insert"} => ctx[r].new.parent = None

\* The snapshot of a delete is its root, which RootUndoIsExact speaks of; the
\* scan looks at an id it queued.
RootOnly(r) ==
    /\ ~AllowDelete => pc[r] \notin DeletePC
    /\ pc[r] = "scan" => dtx[r].next \in 1 .. Len(dtx[r].order)
    /\ \A t \in Task : dtx[r].snap.rows[t] # NoRow =>
          pc[r] \in DeletePC /\ t = dtx[r].order[1]

LogInv ==
    /\ \A t \in Task : Explains(log[t], tasks[t])
    /\ \A t \in Task : undo.rows[t] # NoRow => Explains(undo.logs[t], undo.rows[t])
    /\ FlatInv
    /\ \A r \in Request : RootOnly(r)

\* WriteAudit goes on where the timeline ended.
LEMMA StatusEntriesExplain ==
    ASSUME NEW s \in Seq(Entry), NEW u \in User, NEW o \in Row, NEW n \in Row,
           Explains(s, o)
    PROVE  Explains(StatusEntries(s, u, o, n), n)
<1>0. n # NoRow
  BY DataAssumption DEF DataAssumption
<1>1. CASE n.status = o.status
  BY <1>0, <1>1 DEF Explains, StatusEntries
<1>2. CASE n.status # o.status
  <2> DEFINE e == [from |-> o.status, to |-> n.status, by |-> u]
             z == Append(s, e)
  <2>1. StatusEntries(s, u, o, n) = z
    BY <1>2 DEF StatusEntries
  <2>2. e \in Entry /\ e.from = o.status /\ e.to = n.status
    BY DEF Entry, Row
  <2> HIDE DEF e
  <2>3. Len(z) = Len(s) + 1 /\ z[Len(s) + 1] = e /\ Len(s) \in Nat
        /\ \A i \in 1 .. Len(s) : z[i] = s[i]
    BY <2>2
  <2>4. s = <<>> \/ (s # <<>> /\ Len(s) \in 1 .. Len(s))
    OBVIOUS
  <2> HIDE DEF z
  <2>5. ASSUME NEW i \in 1 .. Len(s) PROVE z[i].to = z[i + 1].from
    <3>1. s # <<>>
      BY <2>4
    <3>2. CASE i = Len(s)
      BY <2>2, <2>3, <3>1, <3>2 DEF Explains
    <3>3. CASE i # Len(s)
      BY <2>3, <3>1, <3>3 DEF Explains
    <3>4. QED
      BY <3>2, <3>3
  <2>6. Explains(z, n)
    BY <1>0, <2>2, <2>3, <2>5 DEF Explains
  <2>7. QED
    BY <2>1, <2>6
<1>3. QED
  BY <1>1, <1>2

\* A step of r that touches no table and gives no row a parent.
LEMMA LocalLog ==
    ASSUME IInv, LogInv, NEW r \in Request, UNCHANGED <<tasks, log, undo>>,
           \A x \in Request \ {r} :
              pc'[x] = pc[x] /\ ctx'[x] = ctx[x] /\ dtx'[x] = dtx[x],
           NoSubtasks /\ pc'[r] \in PatchPC \cup {"insert"} =>
              ctx'[r].new.parent = None,
           RootOnly(r)'
    PROVE  LogInv'
<1>1. FlatInv'
  BY DEF LogInv, FlatInv
<1>2. \A x \in Request \ {r} : RootOnly(x)'
  BY DEF LogInv, RootOnly
<1>3. QED
  BY <1>1, <1>2 DEF LogInv

\* A step that ends r's request.
LEMMA FinishLog ==
    ASSUME IInv, LogInv, NEW r \in Request, Finish(r),
           \A t \in Task : Explains(log'[t], tasks'[t]),
           \A t \in Task : undo'.rows[t] # NoRow =>
              Explains(undo'.logs[t], undo'.rows[t]),
           NoSubtasks => \A t \in Task :
              /\ tasks'[t] # NoRow => tasks'[t].parent = None
              /\ undo'.rows[t] # NoRow => undo'.rows[t].parent = None
    PROVE  LogInv'
<1>1. /\ pc'[r] = "idle" /\ dtx'[r] = NoDelete
      /\ \A x \in Request \ {r} :
            pc'[x] = pc[x] /\ ctx'[x] = ctx[x] /\ dtx'[x] = dtx[x]
  BY FinishFrame DEF IInv
<1>2. FlatInv'
  BY <1>1 DEF LogInv, FlatInv, PatchPC
<1>3. \A x \in Request : RootOnly(x)'
  BY <1>1 DEF LogInv, RootOnly, NoDelete, NoSnapshot, DeletePC
<1>4. QED
  BY <1>2, <1>3 DEF LogInv

\* One that writes nothing, too.
LEMMA RefuseLog ==
    ASSUME IInv, LogInv, NEW r \in Request, Finish(r), UNCHANGED <<tasks, log, undo>>
    PROVE  LogInv'
  BY FinishLog DEF LogInv, FlatInv

LEMMA ArriveLog ==
    ASSUME IInv, LogInv, NEW r \in Request, Arrive(r)
    PROVE  LogInv'
<1>1. pc \in [Request -> PC] /\ ctx \in [Request -> Context]
      /\ dtx \in [Request -> DeleteContext]
  BY DEF IInv, TypeOK
<1>2. pc[r] = "idle" => \A t \in Task : dtx[r].snap.rows[t] = NoRow
  BY DEF LogInv, RootOnly, DeletePC
<1>3. CASE CreateCheck(r)
  <2>1. PICK u \in User, in \in NewTasks :
           ctx' = [ctx EXCEPT ![r] = [NoContext EXCEPT !.user = u,
                                         !.new = CreateRow(u, in, week)]]
    BY <1>3 DEF CreateCheck
  <2>2. ctx'[r].new.parent = in.parent
    BY <1>1, <2>1 DEF NoContext, CreateRow
  <2>3. /\ pc'[r] = "insert" /\ UNCHANGED <<tasks, log, undo, dtx>> /\ pc[r] = "idle"
        /\ \A x \in Request \ {r} : pc'[x] = pc[x] /\ ctx'[x] = ctx[x]
    BY <1>1, <1>3 DEF CreateCheck
  <2>4. RootOnly(r)'
    BY <1>2, <2>3 DEF RootOnly, DeletePC
  <2>5. QED
    BY <2>2, <2>3, <2>4, LocalLog DEF NoSubtasks
<1>4. CASE PatchLock(r)
  <2>1. PICK u \in User, t \in Task, p \in Patches :
           LET o == tasks[t]
               n == PatchRow(u, o, p, week)
           IN
           /\ Exists(t)
           /\ CanLock(t)
           /\ PatchAllowed(u, o, p)
           /\ FieldsValid(n)
           /\ n.parent # t
           /\ n.status # o.status => Len(log[t]) < MaxLog
           /\ TakeLock(r, t)
           /\ ctx' = [ctx EXCEPT ![r] = [user |-> u, id |-> t, orig |-> o,
                                         new |-> n, cur |-> n.parent,
                                         seen |-> {}]]
           /\ pc' = [pc EXCEPT ![r] = IF n.parent # None THEN "walk"
                                      ELSE AfterParent(o, n)]
    BY <1>4 DEF PatchLock
  <2> DEFINE n == PatchRow(u, tasks[t], p, week)
  <2>2. /\ tasks[t] # NoRow
        /\ ctx' = [ctx EXCEPT ![r] = [user |-> u, id |-> t, orig |-> tasks[t],
                                      new |-> n, cur |-> n.parent, seen |-> {}]]
        /\ pc' = [pc EXCEPT ![r] = IF n.parent # None THEN "walk"
                                   ELSE AfterParent(tasks[t], n)]
    BY <2>1 DEF Exists
  <2>3. n.parent = Merged(p.parent, tasks[t].parent)
    BY DEF PatchRow
  <2> HIDE DEF n
  <2>4. ctx'[r].new = n /\ pc'[r] \in PatchPC /\ pc[r] = "idle"
        /\ UNCHANGED <<tasks, log, undo, dtx>>
        /\ \A x \in Request \ {r} : pc'[x] = pc[x] /\ ctx'[x] = ctx[x]
    BY <1>1, <1>4, <2>2 DEF PatchLock, AfterParent, PatchPC
  <2>5. NoSubtasks => n.parent = None
    BY <2>2, <2>3 DEF LogInv, FlatInv, NoSubtasks, Merged
  <2>6. RootOnly(r)'
    BY <1>2, <2>4 DEF RootOnly, DeletePC, PatchPC
  <2>7. QED
    BY <2>4, <2>5, <2>6, LocalLog
<1>5. CASE RescheduleRead(r)
  <2>1. /\ pc'[r] = "reschedule" /\ UNCHANGED <<tasks, log, undo, dtx>>
        /\ pc[r] = "idle"
        /\ \A x \in Request \ {r} : pc'[x] = pc[x] /\ ctx'[x] = ctx[x]
    BY <1>1, <1>5 DEF RescheduleRead
  <2>2. RootOnly(r)'
    BY <1>2, <2>1 DEF RootOnly, DeletePC
  <2>3. QED
    BY <2>1, <2>2, LocalLog DEF PatchPC
<1>6. CASE DeleteLock(r)
  <2>1. PICK t \in Task :
           dtx' = [dtx EXCEPT ![r] =
              [order |-> <<t>>, next |-> 1, left |-> 0,
               snap |-> [NoSnapshot EXCEPT !.rows[t] = tasks[t]]]]
    BY <1>6 DEF DeleteLock
  <2>2. /\ dtx'[r].order = <<t>> /\ dtx'[r].next = 1
        /\ dtx'[r].snap.rows = [NoSnapshot.rows EXCEPT ![t] = tasks[t]]
    BY <1>1, <2>1 DEF NoSnapshot
  <2>3. /\ AllowDelete /\ pc'[r] = "scan" /\ UNCHANGED <<tasks, log, undo, ctx>>
        /\ \A x \in Request \ {r} : pc'[x] = pc[x] /\ dtx'[x] = dtx[x]
    BY <1>1, <1>6, <2>1 DEF DeleteLock
  <2>4. RootOnly(r)'
    BY <2>2, <2>3 DEF RootOnly, DeletePC, NoSnapshot
  <2>5. QED
    BY <2>3, <2>4, LocalLog DEF PatchPC
<1>7. QED
  BY <1>3, <1>4, <1>5, <1>6 DEF Arrive

\* Without subtasks the scan finds no children.
LEMMA DeleteLog ==
    ASSUME IInv, LogInv, NoSubtasks \/ ~AllowDelete, NEW r \in Request,
           DeleteScan(r) \/ DeleteTimeline(r) \/ DeleteRow(r)
    PROVE  LogInv'
<1>1. /\ pc \in [Request -> PC] /\ dtx \in [Request -> DeleteContext]
      /\ DeleteInv(r) /\ RootOnly(r)
  BY DEF IInv, TypeOK, LogInv
<1>2. /\ UNCHANGED <<tasks, log, undo, ctx>> /\ pc[r] \in DeletePC
      /\ pc'[r] \in DeletePC
      /\ \A x \in Request \ {r} : pc'[x] = pc[x] /\ dtx'[x] = dtx[x]
  BY <1>1 DEF DeleteScan, DeleteTimeline, DeleteRow, DeletePC
<1>3. AllowDelete /\ NoSubtasks
  BY <1>1, <1>2 DEF RootOnly
<1>4. /\ dtx'[r].order[1] = dtx[r].order[1] /\ dtx'[r].snap.rows = dtx[r].snap.rows
      /\ pc'[r] = "scan" => dtx'[r].next \in 1 .. Len(dtx'[r].order)
  <2>1. CASE DeleteScan(r)
    <3> DEFINE d    == dtx[r]
               kids == Children(d.order[d.next]) \ ToSet(d.order)
               rows == [t \in Task |-> IF t \in kids THEN tasks[t] ELSE d.snap.rows[t]]
               snap == [rows |-> rows, logs |-> d.snap.logs]
    <3>1. PICK s \in Orderings(kids) :
             /\ dtx' = [dtx EXCEPT ![r] =
                   [order |-> d.order \o s, next |-> d.next + 1, left |-> d.left,
                    snap |-> [rows |-> rows, logs |-> d.snap.logs]]]
             /\ pc' = IF d.next = Len(d.order) + Len(s)
                      THEN [pc EXCEPT ![r] = "timeline"] ELSE pc
      BY <2>1 DEF DeleteScan
    <3>2. /\ d.order \in Seq(Task) /\ d.order # <<>>
          /\ d.snap.rows \in [Task -> Row \cup {NoRow}]
          /\ d.next \in 1 .. Len(d.order)
      BY <1>1, <1>2, <2>1 DEF DeleteContext, Snapshot, DeleteInv, RootOnly, DeleteScan
    <3>3. d.order[d.next] \in Task
      BY <3>2
    <3>4. kids = {}
      BY <1>3, <3>3, DataAssumption
         DEF LogInv, FlatInv, Children, Exists, DataAssumption
    <3>5. snap.rows = d.snap.rows
      BY <3>2, <3>4
    <3>6. s \in Seq(Task)
      BY <3>4, OrderingsType
    <3> HIDE DEF kids, rows, snap
    <3>7. /\ dtx'[r].order = d.order \o s /\ dtx'[r].next = d.next + 1
          /\ dtx'[r].snap = snap
      BY <1>1, <3>1 DEF snap
    <3>8. dtx'[r].order[1] = d.order[1]
      BY <3>2, <3>6, <3>7
    <3>9. pc'[r] = "scan" => d.next # Len(d.order) + Len(s)
      BY <1>1, <3>1
    <3>10. Len(dtx'[r].order) = Len(d.order) + Len(s) /\ Len(s) \in Nat
           /\ Len(d.order) \in Nat
      BY <3>2, <3>6, <3>7
    <3>11. QED
      BY <3>2, <3>5, <3>7, <3>8, <3>9, <3>10
  <2>2. CASE DeleteTimeline(r)
    BY <1>1, <2>2 DEF DeleteTimeline
  <2>3. CASE DeleteRow(r)
    BY <1>1, <2>3 DEF DeleteRow, DeleteContext
  <2>4. QED
    BY <2>1, <2>2, <2>3
<1>5. RootOnly(r)'
  BY <1>1, <1>2, <1>3, <1>4 DEF RootOnly
<1>6. QED
  BY <1>2, <1>5, LocalLog DEF PatchPC, DeletePC

LEMMA PatchWriteLog ==
    ASSUME IInv, LogInv, NEW r \in Request, PatchWrite(r)
    PROVE  LogInv'
<1> DEFINE t == ctx[r].id
           o == ctx[r].orig
           n == ctx[r].new
<1>1. /\ pc[r] = "write" /\ Finish(r) /\ tasks' = [tasks EXCEPT ![t] = n]
      /\ log' = [log EXCEPT ![t] = StatusEntries(@, ctx[r].user, o, n)]
      /\ undo' = undo
  BY DEF PatchWrite
<1>2. /\ t \in Task /\ n \in Row /\ o = tasks[t] /\ o \in Row /\ ctx[r].user \in User
      /\ tasks \in [Task -> Row \cup {NoRow}] /\ log \in [Task -> Seq(Entry)]
  BY <1>1 DEF IInv, ContextInv, PatchPC, TypeOK
<1>3. Explains(StatusEntries(log[t], ctx[r].user, o, n), n)
  BY <1>2, StatusEntriesExplain DEF LogInv
<1>4. \A k \in Task : Explains(log'[k], tasks'[k])
  BY <1>1, <1>2, <1>3 DEF LogInv
<1>5. NoSubtasks => n.parent = None
  BY <1>1 DEF LogInv, FlatInv, PatchPC
<1>6. QED
  BY <1>1, <1>2, <1>4, <1>5, FinishLog DEF LogInv, FlatInv

\* What is restored is explained, as it was deleted.
LEMMA RestoreLog ==
    ASSUME IInv, LogInv, RestoreTasks
    PROVE  LogInv'
<1> DEFINE new == {t \in Payload : ~Exists(t)}
<1>1. /\ tasks' = [t \in Task |-> IF t \in new THEN undo.rows[t] ELSE tasks[t]]
      /\ log' = [t \in Task |-> IF t \in new THEN undo.logs[t] ELSE log[t]]
      /\ UNCHANGED <<pc, ctx, dtx, undo>>
      /\ \A t \in new : undo.rows[t] # NoRow
  BY DEF RestoreTasks, Payload
<1> HIDE DEF new
<1>2. \A t \in Task : Explains(log'[t], tasks'[t])
  BY <1>1 DEF LogInv
<1>3. FlatInv'
  BY <1>1 DEF LogInv, FlatInv
<1>4. \A r \in Request : RootOnly(r)'
  BY <1>1 DEF LogInv, RootOnly
<1>5. QED
  BY <1>1, <1>2, <1>3, <1>4 DEF LogInv

LEMMA ProceedLog ==
    ASSUME IInv, LogInv, NoSubtasks \/ ~AllowDelete, NEW r \in Request, Proceed(r)
    PROVE  LogInv'
<1>1. /\ tasks \in [Task -> Row \cup {NoRow}] /\ log \in [Task -> Seq(Entry)]
      /\ pc \in [Request -> PC]
  BY DEF IInv, TypeOK
<1>2. CASE CreateInsert(r)
  <2>1. PICK t \in Task \ used :
           /\ tasks' = [tasks EXCEPT ![t] = ctx[r].new] /\ pc[r] = "insert"
           /\ Finish(r) /\ UNCHANGED <<log, undo>>
    BY <1>2 DEF CreateInsert
  <2>2. log[t] = <<>>
    BY <2>1 DEF LogInv, Explains, IInv, UndoInv, Exists
  <2>3. \A k \in Task : Explains(log'[k], tasks'[k])
    BY <1>1, <2>1, <2>2 DEF LogInv, Explains
  <2>4. NoSubtasks => ctx[r].new.parent = None
    BY <2>1 DEF LogInv, FlatInv
  <2>5. QED
    BY <1>1, <2>1, <2>3, <2>4, FinishLog DEF LogInv, FlatInv
<1>3. CASE WalkUp(r) \/ WalkEnd(r)
  <2>1. /\ UNCHANGED <<tasks, log, undo, dtx>> /\ pc'[r] \in PatchPC
        /\ pc[r] \in PatchPC /\ ctx'[r].new = ctx[r].new
        /\ \A x \in Request \ {r} : pc'[x] = pc[x] /\ ctx'[x] = ctx[x]
    BY <1>1, <1>3 DEF WalkUp, WalkEnd, AfterParent, PatchPC, IInv, TypeOK, Context
  <2>2. RootOnly(r)'
    BY <2>1 DEF LogInv, RootOnly, PatchPC, DeletePC
  <2>3. NoSubtasks => ctx[r].new.parent = None
    BY <2>1 DEF LogInv, FlatInv
  <2>4. QED
    BY <2>1, <2>2, <2>3, LocalLog
<1>4. CASE ChildrenCheck(r)
  <2>1. CASE Refuse(r)
    BY <2>1, RefuseLog DEF Refuse
  <2>2. CASE ~Refuse(r)
    <3>1. /\ UNCHANGED <<tasks, log, undo, dtx, ctx>> /\ pc'[r] = "write"
          /\ pc[r] = "children"
          /\ \A x \in Request \ {r} : pc'[x] = pc[x]
      BY <1>1, <1>4, <2>2 DEF ChildrenCheck
    <3>2. RootOnly(r)'
      BY <3>1 DEF LogInv, RootOnly, DeletePC
    <3>3. NoSubtasks => ctx[r].new.parent = None
      BY <3>1 DEF LogInv, FlatInv, PatchPC
    <3>4. QED
      BY <3>1, <3>2, <3>3, LocalLog
  <2>3. QED
    BY <2>1, <2>2
<1>5. CASE PatchWrite(r)
  BY <1>5, PatchWriteLog
<1>6. CASE RescheduleWrite(r)
  <2>1. Finish(r) /\ UNCHANGED <<log, undo>>
    BY <1>6 DEF RescheduleWrite
  <2>2. \A t \in Task : \/ tasks'[t] = tasks[t]
                        \/ /\ tasks[t] # NoRow /\ tasks'[t] # NoRow
                           /\ tasks'[t].parent = tasks[t].parent
                           /\ tasks'[t].status = tasks[t].status
    <3>1. CASE ~Exists(ctx[r].id)
      BY <1>6, <3>1 DEF RescheduleWrite
    <3>2. CASE Exists(ctx[r].id)
      <4> DEFINE k == ctx[r].id
                 w == [tasks[k] EXCEPT !.period = ctx[r].new.period,
                                       !.due = @ \/ ctx[r].orig.due]
      <4>1. k \in Task /\ ctx[r].orig \in Row /\ ctx[r].new \in Row
        BY <1>6 DEF RescheduleWrite, IInv, ContextInv
      <4>2. tasks[k] \in Row
        BY <1>1, <3>2, <4>1 DEF Exists
      <4>3. [tasks EXCEPT ![k].period = ctx[r].new.period,
                          ![k].due = @ \/ ctx[r].orig.due] = [tasks EXCEPT ![k] = w]
        BY <1>1, <4>1
      <4>4. tasks' = [tasks EXCEPT ![k] = w]
        BY <1>6, <3>2, <4>3 DEF RescheduleWrite
      <4>5. ctx[r].new.period \in Period /\ (tasks[k].due \/ ctx[r].orig.due) \in BOOLEAN
        BY <4>1, <4>2 DEF Row
      <4>6. w \in Row
        BY <4>2, <4>5 DEF Row
      <4>7. w.parent = tasks[k].parent /\ w.status = tasks[k].status
        BY <4>2 DEF Row
      <4> HIDE DEF w
      <4>8. QED
        BY <1>1, <4>1, <4>2, <4>4, <4>6, <4>7, DataAssumption DEF DataAssumption
    <3>3. QED
      BY <3>1, <3>2
  <2>3. \A t \in Task : Explains(log'[t], tasks'[t])
    BY <2>1, <2>2 DEF LogInv, Explains
  <2>4. QED
    BY <2>1, <2>2, <2>3, FinishLog DEF LogInv, FlatInv
<1>7. CASE DeleteScan(r) \/ DeleteTimeline(r) \/ DeleteRow(r)
  BY <1>7, DeleteLog
<1>8. CASE DeleteCommit(r)
  <2>1. /\ pc[r] = "delete" /\ Finish(r) /\ undo' = dtx[r].snap
        /\ tasks' = [t \in Task |-> IF t \in Gone(r) THEN NoRow ELSE tasks[t]]
        /\ log' = [t \in Task |-> IF t \in Gone(r) THEN <<>> ELSE log[t]]
    BY <1>8 DEF DeleteCommit
  <2>2. \A t \in Task : Explains(log'[t], tasks'[t])
    BY <2>1 DEF LogInv, Explains
  <2>3. \A t \in Task : undo'.rows[t] # NoRow =>
           undo'.rows[t] = tasks[t] /\ undo'.logs[t] = log[t]
    BY <2>1 DEF LogInv, RootOnly, IInv, DeleteInv, DeletePC
  <2>4. QED
    BY <2>1, <2>2, <2>3, FinishLog DEF LogInv, FlatInv
<1>9. CASE \/ CreateFail(r) \/ WalkRefuse(r) \/ PatchFail(r)
           \/ DeleteConflict(r) \/ DeadlockAbort(r)
  BY <1>9, RefuseLog
     DEF CreateFail, WalkRefuse, PatchFail, DeleteConflict, DeadlockAbort, Refuse
<1>10. QED
  BY <1>2, <1>3, <1>4, <1>5, <1>6, <1>7, <1>8, <1>9 DEF Proceed

\* The timeline of a task explains its status, through every interleaving of
\* patches, reschedules, deletes and undos, in a system without subtasks; and
\* with subtasks as long as nobody deletes.
THEOREM TimelineExplains ==
    ASSUME NoSubtasks \/ ~AllowDelete
    PROVE  Spec => []LogExplainsStatus
<1>1. Init => LogInv
  <2> SUFFICES ASSUME Init PROVE LogInv
    OBVIOUS
  <2>1. /\ \A t \in Task : Explains(log[t], tasks[t]) /\ undo.rows[t] = NoRow
        /\ \A r \in Request : RootOnly(r)
    BY DEF Init, Explains, RootOnly, NoDelete, NoSnapshot, DeletePC
  <2>2. FlatInv
    BY <2>1 DEF Init, FlatInv, NoSubtasks, PatchPC
  <2>3. QED
    BY <2>1, <2>2 DEF LogInv
<1>2. IInv /\ LogInv /\ [Next]_vars => LogInv'
  <2> SUFFICES ASSUME IInv, LogInv, [Next]_vars PROVE LogInv'
    OBVIOUS
  <2>1. ASSUME NEW r \in Request, Arrive(r) \/ Proceed(r) PROVE LogInv'
    BY <2>1, ArriveLog, ProceedLog
  <2>2. CASE RestoreTasks
    BY <2>2, RestoreLog
  <2>3. CASE Tick \/ UNCHANGED vars
    <3>1. UNCHANGED <<tasks, log, undo, pc, ctx, dtx>>
      BY <2>3 DEF Tick, vars
    <3>2. QED
      BY <3>1 DEF LogInv, FlatInv, RootOnly
  <2>4. QED
    BY <2>1, <2>2, <2>3 DEF Next
<1>3. LogInv => LogExplainsStatus
  BY DEF LogInv, LogExplainsStatus, Explains, Exists
<1>4. QED
  BY <1>1, <1>2, <1>3, Invariance, PTL DEF Spec

===============================================================================
