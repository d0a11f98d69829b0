----------------------------- MODULE BulkActions -----------------------------
(***************************************************************************)
(* The four lists that act on many tasks at once: a team's board            *)
(* (ui/src/views/TeamPage.tsx), its rollover queue (TeamRollover.tsx), the  *)
(* attention list (AttentionView.tsx) and the backlog (BacklogView.tsx),    *)
(* with the rows' own actions (TaskRow.tsx, StatusControl.tsx) and the undo *)
(* toast they share (Toast.tsx).                                            *)
(*                                                                          *)
(* A bulk action sends one request per task and does not wait between them; *)
(* the server serves them in any order, one of several may fail, and other  *)
(* clients write in between.  `week' stands for a task's weekOf; `period'   *)
(* counts from the period under way: 0 is the current one.  Of a series'    *)
(* instances that are not among Task only the periods they fill are known.  *)
(***************************************************************************)
EXTENDS Integers, Sequences, FiniteSets

CONSTANTS
    None,        \* nothing
    Task,        \* the tasks
    Member,      \* the members of the team
    Series,      \* the recurring series
    Occurs,      \* [Series -> SUBSET Int]: the periods a series falls on
    Starts,      \* a set of Start: what the page may open with
    MaxActs,     \* how often users act on the tasks (a bound)
    MaxReloads   \* how many reloads are under way at a time (a bound)

VARIABLES
    view,        \* the page: a team's board, its rollover, attention, backlog
    role,        \* user.systemRole
    parent,      \* the tasks' parents
    series,      \* the tasks' series
    srv,         \* the server's rows
    others,      \* the periods the series' other instances fill
    inTeam,      \* the members who are in the team
    rows,        \* the rows the page shows
    kids,        \* the tasks the page shows subtasks of
    selected,    \* selected
    busy,        \* busy
    rowBusy,     \* the rows that are busy
    ops,         \* what is under way
    reloads,     \* the reloads under way: asked, or their answer
    toast,       \* the undo toast
    mounted,     \* the page is open
    acts         \* how often users acted

place == <<view, role, parent, series>>
page == <<rows, kids, selected>>
world == <<srv, others, inTeam>>
vars == <<place, page, world, busy, rowBusy, ops, reloads, toast, mounted, acts>>

-------------------------------------------------------------------------------
(* The server.                                                              *)

View == {"team", "rollover", "attention", "backlog"}
Status == {"todo", "in_progress", "done", "cancelled"}
Cycle == [todo |-> "in_progress", in_progress |-> "done", done |-> "cancelled",
          cancelled |-> "todo"]
Field == {"home", "status", "week", "due", "period", "who"}
Row == [home : {"team", "personal", "pool"}, status : Status,
        week : {"past", "now", None}, due : {"past", "today", "later", None},
        period : Int \cup {None}, who : Member \cup {None}]

\* What the checks of a row's own columns let it be: an assignee and a week come
\* with a team, and a backlog task has no due date and no period.
Sound(row) ==
    /\ row.home # "team" => row.who = None
    /\ (row.home = "team") = (row.week # None)
    /\ row.home = "pool" => row.due = None
    /\ (row.home = "pool") = (row.period = None)

\* The tasks with their parents and series, the other instances of the series and who
\* is in the team.
Start == [srv : [Task -> Row], parent : [Task -> Task \cup {None}],
          series : [Task -> Series \cup {None}], others : [Series -> SUBSET Int],
          inTeam : SUBSET Member]

ASSUME BulkAssumption ==
    /\ Starts \subseteq Start
    /\ \A start \in Starts : \A t \in Task : Sound(start.srv[t]) /\ start.parent[t] # t
    /\ Occurs \in [Series -> SUBSET Int]
    /\ None \notin Series \cup Int /\ None \notin Row \cup {"past", "now", "today", "later"}
    /\ MaxActs \in Nat /\ MaxReloads \in Nat

Open(row) == row.status \in {"todo", "in_progress"}

\* The lists' conditions.
OnBoard(row) == row.home = "team" /\ (row.week = "now" \/ (Open(row) /\ row.due # None))
Stale(row) == row.home = "team" /\ Open(row) /\ row.due = None /\ row.week = "past"
Slipped(row) == Open(row) /\ row.home # "pool"
                /\ (row.due = "past" \/ (row.due = None /\ row.period < 0))

Listed(row) ==
    CASE view = "team" -> OnBoard(row)
      [] view = "rollover" -> Stale(row)
      [] view = "attention" -> Slipped(row)
      [] view = "backlog" -> row.home = "pool"

Exists(t) == srv[t] # None
Children(t) == {c \in Task : parent[c] = t /\ Exists(c)}

\* The instances of a series: no two fill one period, a unique index sees to it.
Filled(s) ==
    others[s] \cup {srv[t].period : t \in {x \in Task : Exists(x) /\ series[x] = s}}

SlotHeld(t, p) ==
    /\ series[t] # None
    /\ \/ p \in others[series[t]]
       \/ \E x \in Task \ {t} : Exists(x) /\ series[x] = series[t] /\ srv[x].period = p

\* Materialize, before a read: a series with instances has those that fall after its
\* latest one.
Spawned ==
    [s \in Series |->
        others[s] \cup {p \in Occurs[s] : /\ p <= 0 /\ Filled(s) # {}
                                         /\ \A q \in Filled(s) : q < p}]

\* What a list request answers; a board has no group for those who left the team.
Snapshot ==
    LET listed == {t \in Task : /\ Exists(t) /\ Listed(srv[t])
                                /\ view = "team" => srv[t].who \in inTeam \cup {None}}
    IN  [rows |-> [t \in listed |-> srv[t]],
         kids |-> {t \in listed : Children(t) # {}}]

With(row, patch) ==
    [f \in Field |-> IF f \in DOMAIN patch THEN patch[f] ELSE row[f]]

\* PATCH /api/tasks/:id: who may, and what fits.
Refused(t, patch) ==
    \/ ~Exists(t)
    \/ LET row == srv[t]
           new == With(row, patch)
       IN  \/ role = "USER" /\ (row.home = "team") # (new.home = "team")
           \/ role = "USER" /\ "week" \in DOMAIN patch
           \/ "week" \in DOMAIN patch /\ (new.home # "team" \/ new.week = None)
           \/ new.home = "pool" /\ (new.due # None \/ series[t] # None)
           \/ (new.home = "pool") # (new.period = None)
           \/ new.who # None /\ (new.home # "team" \/ new.who \notin inTeam)
           \/ new.home = "pool" /\ parent[t] # None /\ srv[parent[t]].home # "pool"
           \/ (new.home = "pool") # (row.home = "pool")
              /\ \E c \in Children(t) : srv[c].home = "pool" /\ new.home # "pool"
           \/ new.period # row.period /\ SlotHeld(t, new.period)

\* The team's week follows the task in and out of the team and to its end.
Patched(row, patch) ==
    LET new == With(row, patch)
    IN  [new EXCEPT !.week =
           IF new.home # "team" THEN None
           ELSE IF Open(row) /\ ~Open(new) THEN "now"
           ELSE IF "week" \in DOMAIN patch THEN new.week
           ELSE IF row.home # "team" THEN "now"
           ELSE row.week]

\* A task is deleted with its subtasks.
Family(t) == {t} \cup Children(t)

-------------------------------------------------------------------------------
(* The page.                                                                *)

\* The rows of the board an avatar chip leaves; a selection may hold others.
Visible(chip) ==
    {t \in DOMAIN rows : \/ chip \in {None, rows[t].who}
                         \/ chip = "unassigned" /\ rows[t].who = None}

\* The rows with a checkbox: on the board under any chip, of the backlog only the
\* active ones.
BoardRows == UNION {Visible(chip) : chip \in Member \cup {None, "unassigned"}}
QueueRows == DOMAIN rows
AttentionRows == DOMAIN rows
ActiveRows == {t \in DOMAIN rows : Open(rows[t])}

Selectable ==
    CASE view = "team" -> BoardRows
      [] view = "rollover" -> QueueRows
      [] view = "attention" -> AttentionRows
      [] view = "backlog" -> ActiveRows

Init ==
    /\ view \in View
    /\ role \in IF view \in {"rollover", "backlog"} THEN {"ADMIN"} ELSE {"ADMIN", "USER"}
    /\ \E start \in Starts :
          /\ srv = start.srv /\ parent = start.parent /\ series = start.series
          /\ others = start.others /\ inTeam = start.inTeam
    /\ \A t \in Task :
          /\ Listed(srv[t]) /\ ~SlotHeld(t, srv[t].period)
          /\ srv[t].home = "pool" => series[t] = None
          /\ view = "team" => srv[t].who \in inTeam \cup {None}
    /\ Spawned = others
    /\ rows = srv /\ kids = {t \in Task : Children(t) # {}}
    /\ selected = {} /\ busy = FALSE /\ rowBusy = {}
    /\ ops = <<>> /\ reloads = <<>> /\ toast = None /\ mounted = TRUE /\ acts = 0

Act == mounted /\ acts < MaxActs /\ acts' = acts + 1

\* The first checkbox dismisses the toast.
Toggle(t) ==
    /\ mounted /\ t \in Selectable
    /\ selected' = IF t \in selected THEN selected \ {t} ELSE selected \cup {t}
    /\ toast' = IF selected = {} THEN None ELSE toast
    /\ UNCHANGED <<place, rows, kids, world, busy, rowBusy, ops, reloads, mounted, acts>>

Select(ids) ==
    /\ mounted /\ selected' = ids
    /\ UNCHANGED <<place, rows, kids, world, busy, rowBusy, ops, reloads, toast, mounted, acts>>

\* All on, or all off when they are.
AllOrNone(ids) == IF ids \subseteq selected THEN selected \ ids ELSE selected \cup ids

\* A week of the queue.
ToggleWeek(week) ==
    view = "rollover" /\ Select(AllOrNone({t \in QueueRows : rows[t].week = week}))

\* A section of the attention list: past due dates, past periods.
ToggleSection(ids) == view = "attention" /\ Select(AllOrNone(ids))

ToggleAll ==
    view \in {"rollover", "attention"}
    /\ Select(IF DOMAIN rows # {} /\ DOMAIN rows \subseteq selected THEN {} ELSE DOMAIN rows)

\* The bar's cross.
Clear == Select({})

\* The page is left; the attention list leaves the toast there.
Leave ==
    /\ mounted /\ mounted' = FALSE
    /\ rows' = [t \in {} |-> None] /\ kids' = {}  /\ selected' = {}
    /\ busy' = FALSE /\ rowBusy' = {} /\ reloads' = <<>>
    /\ toast' = IF view = "attention" THEN toast ELSE None
    /\ UNCHANGED <<place, world, ops, acts>>

\* Reloads: the tag filter changes, a task's panel saves, the board comes back.
Refresh ==
    /\ Act /\ Len(reloads) < MaxReloads
    /\ reloads' = Append(reloads, None)
    /\ UNCHANGED <<place, page, world, busy, rowBusy, ops, toast, mounted>>

Without(s, i) == SubSeq(s, 1, i - 1) \o SubSeq(s, i + 1, Len(s))

ReloadServe(j) ==
    /\ reloads[j] = None
    /\ reloads' = [reloads EXCEPT ![j] = Snapshot]
    /\ others' = IF view = "backlog" THEN others ELSE Spawned
    /\ UNCHANGED <<place, page, srv, inTeam, busy, rowBusy, ops, toast, mounted, acts>>

\* Mutant: the selection keeps rows that are gone.
ReloadOnly(j) ==
    /\ reloads[j] # None
    /\ rows' = reloads[j].rows /\ kids' = reloads[j].kids
    /\ rowBusy' = rowBusy \cap DOMAIN rows'
    /\ reloads' = Without(reloads, j)
    /\ UNCHANGED <<place, selected, world, busy, ops, toast, mounted, acts>>

\* The answers are shown as they come, whatever was asked last; a row that goes
\* takes its busy state along.
ReloadAnswer(j) ==
    /\ reloads[j] # None
    /\ rows' = reloads[j].rows /\ kids' = reloads[j].kids
    /\ selected' = selected \cap DOMAIN rows'
    /\ rowBusy' = rowBusy \cap DOMAIN rows'
    /\ reloads' = Without(reloads, j)
    /\ UNCHANGED <<place, world, busy, ops, toast, mounted, acts>>

ReloadFail(j) ==
    /\ reloads' = Without(reloads, j)
    /\ UNCHANGED <<place, page, world, busy, rowBusy, ops, toast, mounted, acts>>

-------------------------------------------------------------------------------
(* What is sent.  A request patches or deletes one task, moves one to today, *)
(* or restores all the tasks a delete took away.                             *)

Patch(set) == [do |-> "patch", set |-> set]
Simply(do) == [do |-> do, set |-> <<>>]

\* What a handler closes over: its requests, the rows it saw and how to undo it.
Op(by, kind, reqs, undo) ==
    [by |-> by, kind |-> kind, reqs |-> reqs, undo |-> undo,
     seen |-> [t \in DOMAIN reqs |-> rows[t]],
     was |-> [t \in {} |-> None], left |-> [t \in {} |-> None],
     out |-> "running", told |-> FALSE]

\* The rows of the selection the page knows.
Found == selected \cap DOMAIN rows

\* The bars; all but the board's go dead while busy.
BoardBar == view = "team" /\ selected # {}
QueueBar == view = "rollover" /\ selected # {} /\ ~busy
AttentionBar == view = "attention" /\ selected # {} /\ ~busy
BacklogBar == view = "backlog" /\ selected # {} /\ ~busy

\* Only the board does without a busy flag; only the attention list keeps the
\* selection until the answer.
Bulk(kind, reqs, undo) ==
    /\ Act /\ Len(ops) < 2
    /\ ops' = Append(ops, Op("bulk", kind, reqs, undo))
    /\ busy' = (view # "team")
    /\ selected' = IF view = "attention" THEN selected ELSE {}
    /\ UNCHANGED <<place, rows, kids, world, rowBusy, reloads, toast, mounted>>

BulkReassign(m) ==
    /\ BoardBar
    /\ Bulk("reassign", [t \in Found |-> Patch([who |-> m])],
                        [t \in Found |-> [who |-> rows[t].who]])

BulkUnassign ==
    /\ BoardBar
    /\ Bulk("unassign", [t \in Found |-> Patch([who |-> None])],
                        [t \in Found |-> [who |-> rows[t].who]])

BulkSetDue ==
    /\ BoardBar
    /\ Bulk("due", [t \in Found |-> Patch([due |-> "later"])],
                   [t \in Found |-> [due |-> rows[t].due]])

\* Mutant: the undo brings back the status alone.
BulkMarkDoneOnly ==
    /\ BoardBar
    /\ Bulk("done", [t \in Found |-> Patch([status |-> "done"])],
                    [t \in Found |-> [status |-> rows[t].status]])

\* A task that ends moves to this week: the undo moves it back.
BulkMarkDone ==
    /\ BoardBar
    /\ Bulk("done", [t \in Found |-> Patch([status |-> "done"])],
                    [t \in Found |-> [status |-> rows[t].status, week |-> rows[t].week]])

Deletion == Bulk("delete", [t \in Found |-> Simply("delete")], <<>>)

BulkDelete == BoardBar /\ role = "ADMIN" /\ Deletion

\* Rollover: a recurring task's week is its series'.
BulkMove ==
    LET ids == {t \in Found : series[t] = None}
    IN  /\ QueueBar
        /\ Bulk("move", [t \in ids |-> Patch([week |-> "now"])],
                        [t \in ids |-> [week |-> rows[t].week]])

BulkStatus(s) ==
    /\ QueueBar
    /\ Bulk("status", [t \in Found |-> Patch([status |-> s])],
                      [t \in Found |-> [status |-> rows[t].status, week |-> rows[t].week]])

\* Attention: one request for all.
RunReschedule ==
    /\ AttentionBar
    /\ Bulk("today", [t \in Found |-> Simply("today")],
                     [t \in Found |-> [period |-> rows[t].period, due |-> rows[t].due]])

\* The day is of this period or the next, as the task's horizon has it; a task
\* without a due date does not get one.
RunScheduleFor ==
    \E at \in [Found -> {0, 1}] :
        /\ AttentionBar
        /\ \A t, x \in Found : series[t] = series[x] /\ series[t] # None => at[t] = at[x]
        /\ Bulk("later",
                [t \in Found |-> Patch(IF rows[t].due = None THEN [period |-> at[t]]
                                       ELSE [period |-> at[t], due |-> "later"])],
                [t \in Found |-> [period |-> rows[t].period, due |-> rows[t].due]])

RunMarkDone ==
    /\ AttentionBar
    /\ Bulk("done", [t \in Found |-> Patch([status |-> "done"])],
                    [t \in Found |-> [status |-> rows[t].status]])

RunDelete == AttentionBar /\ role = "ADMIN" /\ Deletion

\* Mutant: recurring tasks are not left out.
EligibleToo(t) == t \notin kids /\ (rows[t].home = "team" => role = "ADMIN")

\* What the move to the backlog does not leave out.
Eligible(t) ==
    series[t] = None /\ t \notin kids /\ (rows[t].home = "team" => role = "ADMIN")

\* A team's task leaves its team and its assignee, and has them back on undo.
RunMoveToBacklog ==
    LET ids == {t \in Found : Eligible(t)}
        Park(t) == IF rows[t].home = "team"
                   THEN [home |-> "pool", who |-> None, due |-> None, period |-> None]
                   ELSE [home |-> "pool", due |-> None, period |-> None]
        Back(t) == IF rows[t].home = "team"
                   THEN [home |-> "team", who |-> rows[t].who, due |-> rows[t].due,
                         period |-> rows[t].period, week |-> rows[t].week]
                   ELSE [home |-> rows[t].home, due |-> rows[t].due,
                         period |-> rows[t].period]
    IN  /\ AttentionBar
        /\ Bulk("backlog", [t \in ids |-> Patch(Park(t))], [t \in ids |-> Back(t)])

BacklogDelete == BacklogBar /\ Deletion

\* The backlog's assign popover; the undo parks the tasks again.
AssignTasks(ids, set) ==
    /\ view = "backlog" /\ ids # {} /\ Act /\ ~busy /\ Len(ops) < 2
    /\ ops' = Append(ops, Op("bulk", "assign", [t \in ids |-> Patch(set)],
                         [t \in ids |-> [home |-> "pool", who |-> None, due |-> None,
                                         period |-> None]]))
    /\ busy' = TRUE /\ selected' = {}
    /\ UNCHANGED <<place, rows, kids, world, rowBusy, reloads, toast, mounted>>

Assign(m) ==
    LET set == IF m = None THEN [home |-> "team", due |-> "today", period |-> 0]
               ELSE [home |-> "team", due |-> "today", period |-> 0, who |-> m]
    IN  AssignTasks(Found, set) \/ \E t \in ActiveRows : AssignTasks({t}, set)

\* One row's own actions; a board's row is busy meanwhile.
RowOp(t, kind, req) ==
    /\ Act /\ Len(ops) < 2
    /\ ops' = Append(ops, Op("row", kind, [x \in {t} |-> req], <<>>))
    /\ rowBusy' = IF view = "team" THEN rowBusy \cup {t} ELSE rowBusy
    /\ UNCHANGED <<place, page, world, busy, reloads, toast, mounted>>

TaskRow(t) == view = "team" /\ t \notin rowBusy

SetStatus(t, s) == RowOp(t, "status", Patch([status |-> s]))

\* Its status control goes round, its tick marks it done.
CycleStatus(t) == TaskRow(t) /\ SetStatus(t, Cycle[rows[t].status])
MarkDone(t) == TaskRow(t) /\ rows[t].status # "done" /\ SetStatus(t, "done")
RescheduleToday(t) == TaskRow(t) /\ RowOp(t, "today", Simply("today"))
HandleDelete(t) == TaskRow(t) /\ role = "ADMIN" /\ RowOp(t, "delete", Simply("delete"))

\* The queue's and the backlog's rows are never busy.
SetRowStatus(t) ==
    view \in {"rollover", "backlog"} /\ SetStatus(t, Cycle[rows[t].status])
DeleteOne(t) == view = "backlog" /\ RowOp(t, "delete", Simply("delete"))

\* Another client writes.
Elsewhere(t) ==
    /\ acts < MaxActs /\ acts' = acts + 1 /\ Exists(t)
    /\ \/ \E p \in {[status |-> "done"]} :
             ~Refused(t, p) /\ srv' = [srv EXCEPT ![t] = Patched(srv[t], p)]
       \/ srv' = [x \in Task |-> IF x \in Family(t) THEN None ELSE srv[x]]
    /\ UNCHANGED <<place, page, others, inTeam, busy, rowBusy, ops, reloads, toast, mounted>>

\* Another client reads a list.
ReadElsewhere ==
    /\ Spawned # others /\ others' = Spawned
    /\ UNCHANGED <<place, page, srv, inTeam, busy, rowBusy, ops, reloads, toast, mounted, acts>>

\* Another client deletes another instance.
OtherDeleted(s, p) ==
    /\ acts < MaxActs /\ acts' = acts + 1
    /\ others' = [others EXCEPT ![s] = @ \ {p}]
    /\ UNCHANGED <<place, page, srv, inTeam, busy, rowBusy, ops, reloads, toast, mounted>>

\* An admin takes a member out of the team, or in; their tasks stay as they are.
MemberMoves(m) ==
    /\ acts < MaxActs /\ acts' = acts + 1
    /\ inTeam' = IF m \in inTeam THEN inTeam \ {m} ELSE inTeam \cup {m}
    /\ UNCHANGED <<place, page, srv, others, busy, rowBusy, ops, reloads, toast, mounted>>

-------------------------------------------------------------------------------
(* The requests are served, in any order.                                   *)

\* The tasks of a restore that are inserted: those that are gone and whose period no
\* instance fills; of two for one period the first.
Revived(back) ==
    LET Rivals(x) == {y \in DOMAIN back :
                        /\ ~Exists(y)
                        /\ y = x \/ (/\ series[x] # None /\ series[y] = series[x]
                                     /\ back[y].period = back[x].period)}
    IN  {x \in DOMAIN back : /\ ~Exists(x) /\ ~SlotHeld(x, back[x].period)
                             /\ x = CHOOSE y \in Rivals(x) : TRUE}

\* The rows a request changes, and what it makes of them.
Effect(i, t) ==
    LET q == ops[i].reqs[t]
    IN  CASE q.do = "patch" -> [x \in {t} |-> Patched(srv[t], q.set)]
          [] q.do = "delete" -> [x \in Family(t) |-> None]
          [] q.do = "today" ->
               IF Exists(t) /\ srv[t].home # "pool"
               THEN [x \in {t} |-> [srv[t] EXCEPT !.period = 0,
                                                  !.due = IF @ = None THEN None ELSE "today"]]
               ELSE <<>>
          [] q.do = "restore" -> [x \in Revived(ops[i].undo) |-> ops[i].undo[x]]

\* A restore needs every parent, there or inserted; a reschedule skips what is not
\* there, and fails where another instance fills the period.
Rejects(i, t) ==
    LET q == ops[i].reqs[t]
    IN  CASE q.do = "patch" -> Refused(t, q.set)
          [] q.do = "delete" -> ~Exists(t)
          [] q.do = "today" -> /\ Exists(t) /\ srv[t].home # "pool"
                               /\ srv[t].period # 0 /\ SlotHeld(t, 0)
          [] q.do = "restore" ->
               LET back == ops[i].undo
               IN  \E x \in DOMAIN back :
                      /\ parent[x] # None /\ ~Exists(parent[x])
                      /\ \/ parent[x] \notin DOMAIN back
                         \/ x \in Revived(back) /\ parent[x] \notin Revived(back)

\* A reschedule is one loop: where it stops the rest is left.
Halted(i, t) == IF ops[i].reqs[t].do = "today" THEN DOMAIN ops[i].reqs ELSE {t}

\* A function with another's values where it has some.
Over(f, g) == [x \in DOMAIN f \cup DOMAIN g |-> IF x \in DOMAIN f THEN f[x] ELSE g[x]]

\* The requests of some tasks are answered, with the outcome the client will hear.
Answered(op, ids, out) ==
    [op EXCEPT !.reqs = [x \in DOMAIN @ \ ids |-> @[x]], !.out = out]

\* What an operation did, while anyone waits for it.
Noted(op, e) ==
    IF op.told THEN op
    ELSE [op EXCEPT !.was = Over(@, [x \in DOMAIN e |-> srv[x]]), !.left = Over(e, @)]

\* It is served.
Applied(i, t, out) ==
    LET e == Effect(i, t)
    IN  /\ srv' = Over(e, srv)
        /\ ops' = [ops EXCEPT ![i] = Answered(Noted(ops[i], e), {t}, out)]

\* It is not.
Lost(i, t, out) ==
    /\ ops' = [ops EXCEPT ![i] = Answered(ops[i], Halted(i, t), out)]
    /\ UNCHANGED srv

\* Promise.all hears the first failure only.
Worse(i, out) == IF ops[i].out = "running" THEN out ELSE ops[i].out

Serve(i, t) ==
    /\ IF Rejects(i, t) THEN Lost(i, t, Worse(i, "refused"))
                        ELSE Applied(i, t, ops[i].out)
    /\ UNCHANGED <<place, page, others, inTeam, busy, rowBusy, reloads, toast, mounted, acts>>

\* The network fails, before or after the server served it; a failure after the
\* first is not heard.
Fail(i, t) ==
    /\ ops[i].out = "running"
    /\ \/ Lost(i, t, Worse(i, "failed"))
       \/ ~Rejects(i, t) /\ Applied(i, t, Worse(i, "failed"))
    /\ UNCHANGED <<place, page, others, inTeam, busy, rowBusy, reloads, toast, mounted, acts>>

\* What a toast keeps of the operation it undoes; a delete's answers are the
\* rows it took away.
Undoable(op) ==
    [kind |-> op.kind, seen |-> op.seen, was |-> op.was, left |-> op.left,
     undo |-> IF op.kind = "delete" THEN op.was ELSE op.undo]

\* All is well: reload, and offer the undo.
Succeed(i) ==
    LET op == ops[i]
    IN  /\ op.out = "running" /\ op.reqs = <<>>
        /\ ops' = Without(ops, i)
        /\ busy' = (busy /\ op.by # "bulk")
        /\ selected' = IF op.by = "bulk" /\ view = "attention" THEN {} ELSE selected
        /\ rowBusy' = IF op.by = "row" /\ op.kind # "delete"
                      THEN rowBusy \ DOMAIN op.seen ELSE rowBusy
        /\ IF mounted THEN Len(reloads) < MaxReloads /\ reloads' = Append(reloads, None)
           ELSE UNCHANGED reloads
        /\ toast' = IF op.by = "bulk" \/ (op.by = "row" /\ op.kind = "delete")
                    THEN Undoable(op) ELSE toast
        /\ UNCHANGED <<place, rows, kids, world, mounted, acts>>

\* What is left of an operation after that.
Unheard(op) == [op EXCEPT !.told = TRUE, !.seen = <<>>, !.was = <<>>, !.left = <<>>]

\* Mutant: a failure leaves the page busy.
TellOnly(i) ==
    LET op == ops[i]
    IN  /\ op.out # "running" /\ ~op.told
        /\ ops' = [ops EXCEPT ![i] = Unheard(op)]
        /\ rowBusy' = IF op.by = "row" THEN rowBusy \ DOMAIN op.seen ELSE rowBusy
        /\ UNCHANGED <<place, page, world, busy, reloads, toast, mounted, acts>>

\* The first failure is told at once; the other requests go on unheard.
Tell(i) ==
    LET op == ops[i]
    IN  /\ op.out # "running" /\ ~op.told
        /\ ops' = [ops EXCEPT ![i] = Unheard(op)]
        /\ busy' = (busy /\ op.by # "bulk")
        /\ rowBusy' = IF op.by = "row" THEN rowBusy \ DOMAIN op.seen ELSE rowBusy
        /\ UNCHANGED <<place, page, world, reloads, toast, mounted, acts>>

\* Requests nobody waits for may be lost unheard.
Forgotten(i) ==
    /\ ops[i].told
    /\ ops' = Without(ops, i)
    /\ UNCHANGED <<place, page, world, busy, rowBusy, reloads, toast, mounted, acts>>

\* The toast's Undo.
Undo ==
    /\ toast # None /\ Len(ops) < 2
    /\ acts < MaxActs /\ acts' = acts + 1
    /\ ops' = Append(ops,
         [by |-> "undo", kind |-> toast.kind, undo |-> toast.undo,
          seen |-> toast.seen, was |-> toast.was, left |-> toast.left,
          reqs |-> IF toast.kind = "delete"
                   THEN [t \in {CHOOSE x \in DOMAIN toast.undo : TRUE} |-> Simply("restore")]
                   ELSE [t \in DOMAIN toast.undo |-> Patch(toast.undo[t])],
          out |-> "running", told |-> FALSE])
    /\ toast' = None
    /\ UNCHANGED <<place, page, world, busy, rowBusy, reloads, mounted>>

\* Six seconds pass.
Dismiss ==
    /\ toast # None /\ toast' = None
    /\ UNCHANGED <<place, page, world, busy, rowBusy, ops, reloads, mounted, acts>>

User ==
    \/ \E t \in Task : Toggle(t) \/ Elsewhere(t)
    \/ \E t \in DOMAIN rows : \/ CycleStatus(t) \/ MarkDone(t) \/ RescheduleToday(t)
                              \/ HandleDelete(t) \/ SetRowStatus(t) \/ DeleteOne(t)
    \/ \E ids \in SUBSET DOMAIN rows : ToggleSection(ids)
    \/ ToggleWeek("past") \/ ToggleAll
    \/ Clear \/ Leave \/ Refresh \/ Undo \/ Dismiss
    \/ ReadElsewhere \/ \E s \in Series : \E p \in others[s] : OtherDeleted(s, p)
    \/ \E m \in Member : BulkReassign(m) \/ MemberMoves(m)
    \/ \E m \in Member \cup {None} : Assign(m)
    \/ BulkUnassign \/ BulkSetDue \/ BulkMarkDone \/ BulkDelete \/ BacklogDelete \/ BulkMove
    \/ \E s \in {"done", "cancelled"} : BulkStatus(s)
    \/ RunReschedule \/ RunScheduleFor \/ RunMarkDone \/ RunDelete \/ RunMoveToBacklog

Answers ==
    \/ \E i \in 1..Len(ops) : \/ \E t \in DOMAIN ops[i].reqs : Serve(i, t) \/ Fail(i, t)
                              \/ Succeed(i) \/ Tell(i) \/ Forgotten(i)
    \/ \E j \in 1..Len(reloads) : ReloadServe(j) \/ ReloadAnswer(j) \/ ReloadFail(j)

Next == User \/ Answers

Spec == Init /\ [][Next]_vars

-------------------------------------------------------------------------------
(* Properties.                                                              *)

\* Whatever is selected is on the page: a handler that looks a selected task up
\* finds it (the attention list's reschedule does so without a check).
SelectionShown == selected \subseteq DOMAIN rows

\* Where the page has a busy flag it is up exactly while one bulk action is
\* unanswered: two never overlap, and no failure leaves the bar dead.
BusyIsLive ==
    (mounted /\ view # "team") =>
        Cardinality({i \in 1..Len(ops) : ops[i].by = "bulk" /\ ~ops[i].told})
            = IF busy THEN 1 ELSE 0

\* The request of t in ops[i] is served in this step, and nothing was lost.
ServedNow(i, t) ==
    /\ Len(ops') = Len(ops) /\ t \in DOMAIN ops[i].reqs
    /\ t \notin DOMAIN ops'[i].reqs
    /\ ops[i].out = "running" /\ ops'[i].out # "failed"

\* Undone by a member who is no admin, or by the attention list, the end of a
\* team's task does not give its week back.
WeekIsKept(i) ==
    \A t \in DOMAIN ops[i].was :
        ~ /\ ops[i].kind = "done" /\ ops[i].was[t].home = "team"
          /\ (view = "attention" \/ role = "USER")

\* The patch is refused for what no page shows: the assignee has left the team, or
\* another instance of the series fills the period.
Blocked(t, patch) ==
    LET new == With(srv[t], patch)
    IN  \/ new.who # None /\ new.who \notin inTeam
        \/ new.period # srv[t].period /\ SlotHeld(t, new.period)

\* The tasks of a delete whose period another instance fills by now.
Ousted(back) ==
    {x \in DOMAIN back :
        \/ SlotHeld(x, back[x].period)
        \/ \E y \in DOMAIN back \ {x} : /\ series[x] # None /\ series[y] = series[x]
                                        /\ back[y].period = back[x].period}

\* An undo's request of t, served now, gives back what it undoes, where the page
\* showed it as it was and nobody touched it since.  A patch may be blocked; of a
\* delete those stay away that are ousted, and all if one of them has a subtask here.
Restored(i, t) ==
    (ops[i].by = "undo" /\ ServedNow(i, t) /\ WeekIsKept(i)) =>
      LET did == IF ops[i].kind = "delete" THEN DOMAIN ops[i].was ELSE {t}
          clean == \A x \in did : /\ x \in DOMAIN ops[i].was
                                  /\ srv[x] = ops[i].left[x]
                                  /\ x \in DOMAIN ops[i].seen => ops[i].seen[x] = ops[i].was[x]
                                  /\ parent[x] \in did \cup {None}
                                  /\ Children(x) \subseteq did
          ousted == Ousted(ops[i].was)
          stay == IF ops[i].kind # "delete"
                  THEN {x \in did : Blocked(x, ops[i].reqs[t].set)}
                  ELSE IF \E x \in did : parent[x] \in ousted THEN did ELSE ousted
      IN  clean => \A x \in did \ stay : srv'[x] = ops[i].was[x]

\* A bulk action's request of t, served now, is not refused, where t has no
\* relatives and is as the page showed it, unless it is blocked; a reschedule that
\* is leaves the rest unserved.
Accepted(i, t) ==
    (/\ ops[i].by = "bulk" /\ ServedNow(i, t)
     /\ srv[t] = ops[i].seen[t] /\ parent[t] = None /\ Children(t) = {}) =>
        \/ ops'[i].out = "running"
        \/ \E x \in DOMAIN ops[i].reqs \ DOMAIN ops'[i].reqs :
              LET q == ops[i].reqs[x]
              IN  \/ q.do = "patch" /\ Blocked(x, q.set)
                  \/ q.do = "today" /\ SlotHeld(x, 0)

\* The undo of a bulk action is accepted and gives every task back as it was, if
\* the page showed the task as it was and nobody touched it since.
UndoRestores ==
    [][\A i \in 1..Len(ops) : \A t \in DOMAIN ops[i].reqs : Restored(i, t)]_vars

\* What a page offers, the server takes: a bulk request for a task without
\* relatives that is as the page shows it is never refused.
OffersAreAccepted ==
    [][\A i \in 1..Len(ops) : \A t \in DOMAIN ops[i].reqs : Accepted(i, t)]_vars

===============================================================================
