------------------------------- MODULE TaskStore ------------------------------
(***************************************************************************)
(* internal/service/tasks.go over PostgreSQL: the requests that write table *)
(* tasks, one statement at a time, interleaved under READ COMMITTED.        *)
(*                                                                         *)
(* Variables tasks and log hold what is committed.  A transaction's own     *)
(* writes become visible at its commit, so a handler's last writes and its  *)
(* commit are one action unless it waits for a lock between them.  Lock     *)
(* modes are PostgreSQL's (external):                                       *)
(*   - SELECT .. FOR UPDATE and DELETE take the row exclusively;            *)
(*   - an INSERT or an UPDATE that sets parent_id shares the parent row     *)
(*     (FOR KEY SHARE), hence waits for whoever holds it exclusively;       *)
(*   - a plain UPDATE waits for whoever holds the row exclusively;          *)
(*   - a plain SELECT waits for nobody;                                     *)
(*   - a cycle of waiting transactions is broken by aborting one of them.   *)
(* Shared locks live inside one action and need no variable.                *)
(* A request refused before it takes a lock or writes leaves no trace: it   *)
(* is not a step.                                                           *)
(***************************************************************************)
EXTENDS TaskData, Sequences, FiniteSets

CONSTANTS
    Request,        \* concurrent HTTP requests
    InitTables,     \* contents table tasks may start with
    NewTasks,       \* bodies clients send to POST /api/tasks
    Patches,        \* bodies clients send to PATCH /api/tasks/{id}
    MaxLog,         \* bound on the status entries of one task
    AllowDelete,    \* whether clients send DELETE and restore
    AllowReschedule \* whether clients send POST /api/tasks/reschedule

ASSUME StoreAssumption ==
    /\ InitTables \subseteq [Task -> Row \cup {NoRow}]
    /\ \A T \in InitTables, t \in Task : T[t] # NoRow =>
          /\ RowCoherent(T[t])
          /\ T[t].parent # None =>
                T[T[t].parent] # NoRow /\ T[T[t].parent].parent # t
    /\ NewTasks \subseteq NewTask
    /\ Patches \subseteq Patch
    /\ MaxLog \in Nat
    /\ AllowDelete \in BOOLEAN /\ AllowReschedule \in BOOLEAN
    /\ None \notin Request
    /\ IsFiniteSet(Task)

VARIABLES
    week,   \* the wall clock
    tasks,  \* table tasks: [Task -> Row \cup {NoRow}]
    log,    \* the status entries of table task_activity, by task, in seq order
    used,   \* ids handed out so far (they are UUIDs: never handed out again)
    lock,   \* which transaction holds a row exclusively
    pc,     \* where each request stands
    ctx,    \* the locals of a create, patch or reschedule
    dtx,    \* the locals of a cascading delete
    undo    \* the response of the last delete, held by the client's undo toast

vars == <<week, tasks, log, used, lock, pc, ctx, dtx, undo>>

-------------------------------------------------------------------------------

Entry == [from : Status, to : Status, by : User]

\* Task rows with their timelines: the shape of a DELETE response.
Snapshot == [rows : [Task -> Row \cup {NoRow}], logs : [Task -> Seq(Entry)]]

NoSnapshot == [rows |-> [t \in Task |-> NoRow], logs |-> [t \in Task |-> <<>>]]

PC == {"idle", "insert", "walk", "children", "write", "reschedule",
       "scan", "timeline", "delete"}

PatchPC == {"walk", "children", "write"}

DeletePC == {"scan", "timeline", "delete"}

\* user: the caller; id: the row; orig: the row as read; new: the row to
\* write; cur: the next ancestor to read; seen: validateTaskFields's visited.
Context == [user : User \cup {None}, id : Task \cup {None},
            orig : Row \cup {NoRow}, new : Row \cup {NoRow},
            cur  : Task \cup {None}, seen : SUBSET Task]

NoContext == [user |-> None, id |-> None, orig |-> NoRow, new |-> NoRow,
              cur |-> None, seen |-> {}]

\* order: the subtree in BFS order; next: the head of the queue, an index of
\* order; left: how many rows of it are still to delete; snap: the views.
DeleteContext == [order : Seq(Task), next : Nat, left : Nat, snap : Snapshot]

NoDelete == [order |-> <<>>, next |-> 1, left |-> 0, snap |-> NoSnapshot]

TypeOK ==
    /\ week \in Week
    /\ tasks \in [Task -> Row \cup {NoRow}]
    /\ log \in [Task -> Seq(Entry)]
    /\ used \subseteq Task
    /\ lock \in [Task -> Request \cup {None}]
    /\ pc \in [Request -> PC]
    /\ ctx \in [Request -> Context]
    /\ dtx \in [Request -> DeleteContext]
    /\ undo \in Snapshot
    /\ \A r \in Request : dtx[r].left <= Len(dtx[r].order)

Init ==
    /\ week = 1
    /\ tasks \in InitTables
    /\ log = [t \in Task |-> <<>>]
    /\ used = {t \in Task : tasks[t] # NoRow}
    /\ lock = [t \in Task |-> None]
    /\ pc = [r \in Request |-> "idle"]
    /\ ctx = [r \in Request |-> NoContext]
    /\ dtx = [r \in Request |-> NoDelete]
    /\ undo = NoSnapshot

-------------------------------------------------------------------------------

Exists(t) == tasks[t] # NoRow

Children(t) == {k \in Task : Exists(k) /\ tasks[k].parent = t}

\* Some other transaction holds t exclusively.
Held(r, t) == lock[t] \notin {None, r}

\* A foreign key finds the row it references and shares it.
KeyShare(r, t) == Exists(t) /\ ~Held(r, t)

\* SELECT .. FOR UPDATE gets the row; it waits otherwise.
CanLock(t) == lock[t] = None

\* Mutant: SELECT without FOR UPDATE (getTaskRow with lock = false).
TakeLockNot(r, t) == UNCHANGED lock

TakeLock(r, t) == lock' = [lock EXCEPT ![t] = r]

\* Mutant: the transaction is left open.
FinishHolding(r) ==
    /\ pc' = [pc EXCEPT ![r] = "idle"]
    /\ ctx' = [ctx EXCEPT ![r] = NoContext]
    /\ dtx' = [dtx EXCEPT ![r] = NoDelete]
    /\ UNCHANGED lock

\* The end of a request, committed or rolled back: locks go, locals go.
Finish(r) ==
    /\ pc' = [pc EXCEPT ![r] = "idle"]
    /\ ctx' = [ctx EXCEPT ![r] = NoContext]
    /\ dtx' = [dtx EXCEPT ![r] = NoDelete]
    /\ lock' = [t \in Task |-> IF lock[t] = r THEN None ELSE lock[t]]

\* A 4xx or 5xx answer: nothing written, the transaction rolled back.
Refuse(r) == Finish(r) /\ UNCHANGED <<week, tasks, log, used, undo>>

-------------------------------------------------------------------------------
(* CreateTask: validated, then inserted, with no transaction around both.   *)

CreateCheck(r) ==
    /\ pc[r] = "idle"
    /\ Cardinality({x \in Request : pc[x] = "insert"})
          < Cardinality(Task \ used)       \* bound: an id for each create
    /\ \E u \in User, in \in NewTasks :
          LET row == CreateRow(u, in, week) IN
          /\ CreateAllowed(u, in)
          /\ FieldsValid(row)
          /\ row.parent # None => ParentValid(u, row, tasks[row.parent])
          /\ ctx' = [ctx EXCEPT ![r] = [NoContext EXCEPT !.user = u,
                                                         !.new = row]]
    /\ pc' = [pc EXCEPT ![r] = "insert"]
    /\ UNCHANGED <<week, tasks, log, used, lock, dtx, undo>>

CreateInsert(r) ==
    LET parent == ctx[r].new.parent IN
    /\ pc[r] = "insert"
    /\ parent # None => KeyShare(r, parent)
    /\ \E t \in Task \ used :
          /\ tasks' = [tasks EXCEPT ![t] = ctx[r].new]
          /\ used' = used \cup {t}
    /\ Finish(r)
    /\ UNCHANGED <<week, log, undo>>

\* The parent is gone: the foreign key refuses the row.
CreateFail(r) ==
    /\ pc[r] = "insert"
    /\ ctx[r].new.parent # None /\ ~Exists(ctx[r].new.parent)
    /\ Refuse(r)

-------------------------------------------------------------------------------
(* PatchTask: one transaction under the row's exclusive lock.               *)

\* Where the validation of a merged row goes once its parent is accepted.
AfterParent(o, n) == IF n.horizon # o.horizon THEN "children" ELSE "write"

\* getTaskFull(tx, id, lock), the merge, and every check that reads no other
\* row.
PatchLock(r) ==
    /\ pc[r] = "idle"
    /\ \E u \in User, t \in Task, p \in Patches :
          LET o == tasks[t]
              n == PatchRow(u, o, p, week)
          IN
          /\ Exists(t)
          /\ CanLock(t)
          /\ PatchAllowed(u, o, p)
          /\ FieldsValid(n)
          /\ n.parent # t
          /\ n.status # o.status => Len(log[t]) < MaxLog    \* bound
          /\ TakeLock(r, t)
          /\ ctx' = [ctx EXCEPT ![r] = [user |-> u, id |-> t, orig |-> o,
                                        new |-> n, cur |-> n.parent,
                                        seen |-> {}]]
          /\ pc' = [pc EXCEPT ![r] = IF n.parent # None THEN "walk"
                                     ELSE AfterParent(o, n)]
    /\ UNCHANGED <<week, tasks, log, used, dtx, undo>>

\* The walk up the ancestor chain reads one row per statement, locking none.
\* Its first row is the parent itself and must qualify as one.
WalkRefused(r) ==
    LET anc == ctx[r].cur IN
    \/ anc = ctx[r].id
    \/ ctx[r].seen = {} /\ ~ParentValid(ctx[r].user, ctx[r].new, tasks[anc])

WalkEnds(r) ==
    LET anc == ctx[r].cur IN
    Exists(anc) => anc \in ctx[r].seen \/ tasks[anc].parent = None

WalkRefuse(r) == pc[r] = "walk" /\ WalkRefused(r) /\ Refuse(r)

WalkUp(r) ==
    /\ pc[r] = "walk"
    /\ ~WalkRefused(r) /\ ~WalkEnds(r)
    /\ ctx' = [ctx EXCEPT ![r].cur = tasks[ctx[r].cur].parent,
                          ![r].seen = @ \cup {ctx[r].cur}]
    /\ UNCHANGED <<week, tasks, log, used, lock, pc, dtx, undo>>

WalkEnd(r) ==
    /\ pc[r] = "walk"
    /\ ~WalkRefused(r) /\ WalkEnds(r)
    /\ pc' = [pc EXCEPT ![r] = AfterParent(ctx[r].orig, ctx[r].new)]
    /\ UNCHANGED <<week, tasks, log, used, lock, ctx, dtx, undo>>

\* validateChildrenHorizon
ChildrenCheck(r) ==
    LET rank == HorizonRank(ctx[r].new.horizon) IN
    /\ pc[r] = "children"
    /\ IF \E k \in Children(ctx[r].id) : HorizonRank(tasks[k].horizon) > rank
       THEN Refuse(r)
       ELSE /\ pc' = [pc EXCEPT ![r] = "write"]
            /\ UNCHANGED <<week, tasks, log, used, lock, ctx, dtx, undo>>

\* The foreign key is checked only when the UPDATE changes parent_id.
ChecksParent(r) == ctx[r].new.parent \notin {None, ctx[r].orig.parent}

ParentStands(r) == ChecksParent(r) => Exists(ctx[r].new.parent)

\* ApplyStateChange: UPDATE .. WHERE id = ? AND status = from
StatusUnmoved(r) ==
    ctx[r].new.status # ctx[r].orig.status =>
       /\ Exists(ctx[r].id)
       /\ tasks[ctx[r].id].status = ctx[r].orig.status

\* Mutant: leaving a terminal status is not logged.
StatusEntriesForward(entries, u, o, n) ==
    IF n.status = o.status \/ o.status \in Terminal THEN entries
    ELSE Append(entries, [from |-> o.status, to |-> n.status, by |-> u])

\* WriteAudit: one entry per status change, none when the status stays.
StatusEntries(entries, u, o, n) ==
    IF n.status = o.status THEN entries
    ELSE Append(entries, [from |-> o.status, to |-> n.status, by |-> u])

\* The UPDATE; on a status change the transition of transitionTaskStatus
\* (compare-and-set on the old status, the other columns, the status entry);
\* the commit.
PatchWrite(r) ==
    LET t == ctx[r].id
        o == ctx[r].orig
        n == ctx[r].new
    IN
    /\ pc[r] = "write"
    /\ ChecksParent(r) => KeyShare(r, n.parent)
    /\ StatusUnmoved(r)
    /\ tasks' = [tasks EXCEPT ![t] = n]
    /\ log' = [log EXCEPT ![t] = StatusEntries(@, ctx[r].user, o, n)]
    /\ Finish(r)
    /\ UNCHANGED <<week, used, undo>>

\* The new parent is gone, or the compare-and-set missed.
PatchFail(r) ==
    /\ pc[r] = "write"
    /\ ~(ParentStands(r) /\ StatusUnmoved(r))
    /\ Refuse(r)

-------------------------------------------------------------------------------
(* Reschedule: per id, an unlocked read and a later UPDATE of what it saw.  *)

RescheduleRead(r) ==
    /\ AllowReschedule
    /\ pc[r] = "idle"
    /\ \E u \in User, t \in Task :
          LET o == tasks[t] IN
          /\ Exists(t)
          /\ CanAccess(u, o)
          /\ o.horizon # "backlog"
          /\ ctx' = [ctx EXCEPT ![r] =
                [NoContext EXCEPT !.user = u, !.id = t, !.orig = o,
                    !.new = [o EXCEPT !.period =
                                CurrentPeriod(o.horizon, week)]]]
    /\ pc' = [pc EXCEPT ![r] = "reschedule"]
    /\ UNCHANGED <<week, tasks, log, used, lock, dtx, undo>>

\* A row deleted meanwhile is not counted, and that is all.
RescheduleWrite(r) ==
    LET t == ctx[r].id IN
    /\ pc[r] = "reschedule"
    /\ ~Held(r, t)
    /\ tasks' = IF ~Exists(t) THEN tasks
                ELSE [tasks EXCEPT ![t].period = ctx[r].new.period,
                                   ![t].due = @ \/ ctx[r].orig.due]
    /\ Finish(r)
    /\ UNCHANGED <<week, log, used, undo>>

-------------------------------------------------------------------------------
(* DeleteTaskCascade: one transaction; only the root is locked up front.    *)

ToSet(s) == {s[i] : i \in DOMAIN s}

\* created_at order: any, as far as this model knows.
Orderings(S) ==
    {s \in [1..Cardinality(S) -> S] : \A i, j \in DOMAIN s : s[i] = s[j] => i = j}

\* Route-gated to ADMIN, deliberately with no canAccessTask.
DeleteLock(r) ==
    /\ AllowDelete /\ Admin # {}
    /\ pc[r] = "idle"
    /\ \E t \in Task :
          /\ Exists(t)
          /\ CanLock(t)
          /\ TakeLock(r, t)
          /\ dtx' = [dtx EXCEPT ![r] =
                [order |-> <<t>>, next |-> 1, left |-> 0,
                 snap |-> [NoSnapshot EXCEPT !.rows[t] = tasks[t]]]]
    /\ pc' = [pc EXCEPT ![r] = "scan"]
    /\ UNCHANGED <<week, tasks, log, used, ctx, undo>>

\* One turn of the BFS loop: the head's children, as they are now.
DeleteScan(r) ==
    LET d    == dtx[r]
        kids == Children(d.order[d.next]) \ ToSet(d.order)
        rows == [t \in Task |-> IF t \in kids THEN tasks[t] ELSE d.snap.rows[t]]
    IN
    /\ pc[r] = "scan"
    /\ \E s \in Orderings(kids) :
          /\ dtx' = [dtx EXCEPT ![r] =
                [order |-> d.order \o s, next |-> d.next + 1, left |-> d.left,
                 snap |-> [rows |-> rows, logs |-> d.snap.logs]]]
          /\ pc' = IF d.next = Len(d.order) + Len(s)
                   THEN [pc EXCEPT ![r] = "timeline"] ELSE pc
    /\ UNCHANGED <<week, tasks, log, used, lock, ctx, undo>>

\* Mutant: the views are built without their timelines.
NoTimelines(ids) == NoSnapshot.logs

TimelinesOf(ids) == [t \in Task |-> IF t \in ids THEN log[t] ELSE <<>>]

\* loadActivityFor, and the views built from it.
DeleteTimeline(r) ==
    LET d == dtx[r] IN
    /\ pc[r] = "timeline"
    /\ dtx' = [dtx EXCEPT ![r] =
          [order |-> d.order, next |-> d.next, left |-> Len(d.order),
           snap |-> [rows |-> d.snap.rows, logs |-> TimelinesOf(ToSet(d.order))]]]
    /\ pc' = [pc EXCEPT ![r] = "delete"]
    /\ UNCHANGED <<week, tasks, log, used, lock, ctx, undo>>

\* Rows go in reverse BFS order.
DeleteHead(r) == dtx[r].order[dtx[r].left]

\* The rows r deleted and did not commit yet.
Gone(r) ==
    {t \in Task : /\ pc[r] = "delete" /\ lock[t] = r
                  /\ \E i \in dtx[r].left + 1 .. Len(dtx[r].order) :
                        dtx[r].order[i] = t}

\* Mutant: tasks.parent_id without ON DELETE RESTRICT.
ReferencingNone(r) == {}

\* Rows that still reference the one to delete (ON DELETE RESTRICT).
Referencing(r) == Children(DeleteHead(r)) \ Gone(r)

\* A DELETE of a row that somebody else removed finds nothing, and goes on.
DeleteRow(r) ==
    /\ pc[r] = "delete" /\ dtx[r].left > 0
    /\ ~Held(r, DeleteHead(r))
    /\ Referencing(r) = {}
    /\ dtx' = [dtx EXCEPT ![r].left = @ - 1]
    /\ IF Exists(DeleteHead(r)) THEN TakeLock(r, DeleteHead(r)) ELSE UNCHANGED lock
    /\ UNCHANGED <<week, tasks, log, used, pc, ctx, undo>>

\* A child the BFS did not see: 409, nothing deleted.
DeleteConflict(r) ==
    /\ pc[r] = "delete" /\ dtx[r].left > 0
    /\ ~Held(r, DeleteHead(r))
    /\ \E k \in Referencing(r) : ~Held(r, k)
    /\ Refuse(r)

\* Timelines go with their rows (ON DELETE CASCADE).
DeleteCommit(r) ==
    LET gone == Gone(r) IN
    /\ pc[r] = "delete" /\ dtx[r].left = 0
    /\ tasks' = [t \in Task |-> IF t \in gone THEN NoRow ELSE tasks[t]]
    /\ log' = [t \in Task |-> IF t \in gone THEN <<>> ELSE log[t]]
    /\ undo' = dtx[r].snap
    /\ Finish(r)
    /\ UNCHANGED <<week, used>>

-------------------------------------------------------------------------------
(* RestoreTasks, fed by the undo toast with a delete's response.  Its one    *)
(* transaction reads and inserts; every lock it may wait for is waited for  *)
(* before its first insert, so it is one step.                              *)

Payload == {t \in Task : undo.rows[t] # NoRow}

\* restoreOrder: some order puts every parent of the payload before its kids.
Restorable ==
    /\ \A C \in SUBSET Payload :
          C # {} => \E k \in C : undo.rows[k].parent \notin C
    /\ \A k \in Payload :
          LET p == undo.rows[k].parent IN
          p # None => p \in Payload \/ Exists(p)

\* Rows already there are skipped (ON CONFLICT DO NOTHING), timeline and all.
RestoreTasks ==
    LET new == {t \in Payload : ~Exists(t)} IN
    /\ AllowDelete /\ Admin # {}
    /\ Restorable
    /\ new # {}
    /\ \A k \in new :
          LET p == undo.rows[k].parent IN p \notin new \cup {None} => lock[p] = None
    /\ \A k \in Payload, r \in Request : k \notin Gone(r)
    /\ tasks' = [t \in Task |-> IF t \in new THEN undo.rows[t] ELSE tasks[t]]
    /\ log' = [t \in Task |-> IF t \in new THEN undo.logs[t] ELSE log[t]]
    /\ UNCHANGED <<week, used, lock, pc, ctx, dtx, undo>>

-------------------------------------------------------------------------------
(* PostgreSQL's deadlock detector.                                          *)

WaitsFor(r) ==
    CASE pc[r] = "write" /\ ChecksParent(r) ->
            {lock[ctx[r].new.parent]} \ {None, r}
      [] pc[r] = "delete" /\ dtx[r].left > 0 ->
            (IF Held(r, DeleteHead(r)) THEN {lock[DeleteHead(r)]}
             ELSE {lock[k] : k \in Referencing(r)}) \ {None, r}
      [] OTHER -> {}

InDeadlock(r) ==
    \E C \in SUBSET Request :
       /\ r \in C
       /\ \A x \in C : /\ WaitsFor(x) \cap C # {}
                       /\ \E y \in C : x \in WaitsFor(y)

DeadlockAbort(r) == InDeadlock(r) /\ Refuse(r)

Tick == week < MaxWeek /\ week' = week + 1
        /\ UNCHANGED <<tasks, log, used, lock, pc, ctx, dtx, undo>>

-------------------------------------------------------------------------------

Arrive(r) == CreateCheck(r) \/ PatchLock(r) \/ RescheduleRead(r) \/ DeleteLock(r)

Proceed(r) ==
    \/ CreateInsert(r) \/ CreateFail(r)
    \/ WalkRefuse(r) \/ WalkUp(r) \/ WalkEnd(r) \/ ChildrenCheck(r)
    \/ PatchWrite(r) \/ PatchFail(r)
    \/ RescheduleWrite(r)
    \/ DeleteScan(r) \/ DeleteTimeline(r) \/ DeleteRow(r)
    \/ DeleteConflict(r) \/ DeleteCommit(r)
    \/ DeadlockAbort(r)

Next == (\E r \in Request : Arrive(r) \/ Proceed(r)) \/ RestoreTasks \/ Tick

Spec == Init /\ [][Next]_vars

\* A handler that started runs on; one that waits for a row gets its turn,
\* as lock waiters queue.  Nobody has to send a request.
FairSpec == Spec /\ \A r \in Request : SF_vars(Proceed(r))

-------------------------------------------------------------------------------
(* Properties.                                                              *)

Patching(r) == pc[r] \in PatchPC

\* No interleaving of patches, rescheduling, deletes and undos writes a row
\* whose derived columns contradict each other: the columns are derived from a
\* row read earlier, and replayed from snapshots taken earlier.
RowsCoherent == \A t \in Task : Exists(t) => RowCoherent(tasks[t])

\* No lost update: until it commits, the row a patch merged its fields into
\* and validated is still the row in the table (patchTaskTx writes back every
\* column of what it read).
PatchSeesCurrentRow ==
    \A r \in Request : Patching(r) => ctx[r].orig = tasks[ctx[r].id]

\* The timeline tells how the task came to its status: every status entry
\* starts where the one before it ended, and the last one ends at the row's
\* status (WriteAudit in the transaction of the status write; the timeline
\* replayed by an undo).  Of subtasks deleted and restored it is not true: a
\* delete reads a child's row first and its timeline later, and a patch may
\* come between them.
LogExplainsStatus ==
    \A t \in Task : log[t] # <<>> =>
       /\ Exists(t)
       /\ log[t][Len(log[t])].to = tasks[t].status
       /\ \A i \in 1 .. Len(log[t]) - 1 : log[t][i].to = log[t][i + 1].from

\* The row a delete was asked for is locked from its read on: its snapshot is
\* the row and the timeline that the commit removes.
RootUndoIsExact ==
    \A r \in Request : pc[r] = "delete" =>
       LET root == dtx[r].order[1] IN
       /\ dtx[r].snap.rows[root] = tasks[root]
       /\ dtx[r].snap.logs[root] = log[root]

\* No task is ever left pointing at a parent that is gone, whatever was
\* attached, moved or restored while its subtree was being deleted.
ParentExists ==
    \A t \in Task : Exists(t) /\ tasks[t].parent # None => Exists(tasks[t].parent)

\* Two tasks are never each other's parent: of two patches that each read the
\* other task as free, one waits for the other's row and is aborted.
NoMutualParents ==
    \A t, k \in Task :
       Exists(t) /\ Exists(k) /\ tasks[t].parent = k => tasks[k].parent # t

\* The parent relation has no cycle (validateTaskFields: "parentId would
\* create a cycle").
Acyclic ==
    \A C \in SUBSET Task :
       C # {} => \E t \in C : Exists(t) => tasks[t].parent \notin C

\* Every request is answered: no wait for a row lasts, not even the waits of
\* two transactions for each other.
EveryRequestReturns == \A r \in Request : pc[r] # "idle" ~> pc[r] = "idle"

-------------------------------------------------------------------------------
(* The inductive invariant: what the properties above rest on.              *)

\* Ids in use are never handed out again, and the rows an undo would put back
\* owe what the stored ones do.
UndoInv ==
    \A t \in Task :
       /\ Exists(t) => t \in used
       /\ undo.rows[t] # NoRow => t \in used /\ RowCoherent(undo.rows[t])

SnapshotInv(r) ==
    \A t \in Task : dtx[r].snap.rows[t] # NoRow =>
       t \in used /\ RowCoherent(dtx[r].snap.rows[t])

\* A patch holds its row, which is as it was read; what any handler is about
\* to write is a coherent row.
ContextInv(r) ==
    /\ pc[r] = "insert" => ctx[r].new \in Row /\ RowCoherent(ctx[r].new)
    /\ pc[r] \in PatchPC =>
          /\ ctx[r].id \in Task /\ ctx[r].user \in User
          /\ ctx[r].new \in Row /\ RowCoherent(ctx[r].new)
          /\ ctx[r].orig \in Row /\ ctx[r].orig = tasks[ctx[r].id]
          /\ lock[ctx[r].id] = r
    /\ pc[r] = "walk" => ctx[r].cur \in Task
    /\ pc[r] = "reschedule" =>
          ctx[r].id \in Task /\ ctx[r].orig \in Row /\ ctx[r].new \in Row

\* A delete holds its root, which is as it was read, and removed the children
\* of every row it removed.
DeleteInv(r) ==
    /\ pc[r] \in DeletePC =>
          LET root == dtx[r].order[1] IN
          /\ dtx[r].order # <<>>
          /\ lock[root] = r
          /\ Exists(root)
          /\ dtx[r].snap.rows[root] = tasks[root]
          /\ pc[r] = "delete" => dtx[r].snap.logs[root] = log[root]
    /\ \A t \in Gone(r) : Children(t) \subseteq Gone(r)

\* All that the theorems need of a state, true of every reachable one.
IInv ==
    /\ TypeOK /\ UndoInv /\ RowsCoherent /\ ParentExists
    /\ \A r \in Request : SnapshotInv(r) /\ ContextInv(r) /\ DeleteInv(r)

\* The walk of r has read the new parent's row and will not refuse it.
ParentRead(r) ==
    /\ ctx[r].new.parent # None
    /\ pc[r] = "walk" => ctx[r].seen # {} /\ ctx[r].cur # ctx[r].id

\* The new parent was not under the row when it was read, and who would put it
\* there now needs the row that r holds.
WalkInv(r) ==
    LET t == ctx[r].id
        p == ctx[r].new.parent
    IN pc[r] \in PatchPC =>
          /\ p # t
          /\ pc[r] = "walk" => p # None /\ (ctx[r].seen = {} => ctx[r].cur = p)
          /\ ParentRead(r) => p \in used /\ (Exists(p) => tasks[p].parent # t)

\* What NoMutualParents rests on, besides IInv.
TreeInv == NoMutualParents /\ \A r \in Request : WalkInv(r)

===============================================================================
