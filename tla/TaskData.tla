------------------------------- MODULE TaskData -------------------------------
(***************************************************************************)
(* The columns of table `tasks`, and the pure rules of                     *)
(* internal/service/tasks.go that read and derive them: who may touch a    *)
(* task, what a create or a patch makes of the client's fields, and which  *)
(* merged rows the validation refuses.                                     *)
(*                                                                         *)
(* Text columns (title, notes, tags, priority) carry no control and are    *)
(* left out; recurrence and series_id are NULL here.  Time is counted in   *)
(* ISO weeks: the period of a task is the pair of its granularity and the  *)
(* week it falls in, and completed_at the week it was stamped.             *)
(***************************************************************************)
EXTENDS Integers

CONSTANTS
    Task,       \* ids of table tasks
    User,       \* login-enabled members
    Admin,      \* those with system_role ADMIN
    Team,       \* ids of table teams
    TeamsOf,    \* [User -> SUBSET Team], table member_teams
    MaxWeek,    \* the model's last ISO week
    None,       \* SQL NULL (and period '')
    NoRow,      \* what reading an absent task id finds
    Keep        \* a field the JSON patch does not mention

Week == 1..MaxWeek

Horizon == {"backlog", "daily", "weekly", "monthly"}

Status == {"todo", "in_progress", "done", "cancelled"}

Period == {None} \cup ((Horizon \ {"backlog"}) \X Week)

Row == [horizon  : Horizon,
        period   : Period,
        due      : BOOLEAN,             \* due_date IS NOT NULL
        status   : Status,
        parent   : Task \cup {None},
        team     : Team \cup {None},
        owner    : User \cup {None},
        assignee : User \cup {None},
        weekOf   : Week \cup {None},
        doneIn   : Week \cup {None}]    \* completed_at

\* The client's half of a row: what POST /api/tasks may set.
NewTask == [horizon  : Horizon,
            period   : Period,
            due      : BOOLEAN,
            status   : Status,
            parent   : Task \cup {None},
            team     : Team \cup {None},
            assignee : User \cup {None}]

\* The fields PATCH /api/tasks/{id} may mention.
Patch == [horizon  : Horizon \cup {Keep},
          period   : Period \cup {Keep},
          due      : BOOLEAN \cup {Keep},
          status   : Status \cup {Keep},
          parent   : Task \cup {None, Keep},
          team     : Team \cup {None, Keep},
          assignee : User \cup {None, Keep},
          weekOf   : Week \cup {Keep}]

ASSUME DataAssumption ==
    /\ MaxWeek \in Nat \ {0}
    /\ Admin \subseteq User
    /\ TeamsOf \in [User -> SUBSET Team]
    /\ None \notin Task \cup Team \cup User \cup Week \cup (Horizon \X Week)
    /\ NoRow \notin Row
    /\ Keep \notin Horizon \cup Period \cup BOOLEAN \cup Status \cup Task
                   \cup Team \cup User \cup Week \cup {None}

-------------------------------------------------------------------------------

Terminal == {"done", "cancelled"}

\* model.HorizonRank: an unranked horizon reads as the zero value.
HorizonRank(h) ==
    CASE h = "daily"   -> 1
      [] h = "weekly"  -> 2
      [] h = "monthly" -> 3
      [] OTHER         -> 0

\* model.ValidatePeriod
ValidPeriod(h, p) ==
    IF h = "backlog" THEN p = None ELSE p \in {h} \X Week

\* model.CurrentPeriodAt, for a horizon that has periods
CurrentPeriod(h, w) == <<h, w>>

\* canAccessTask: a personal task is its owner's alone, a team task its
\* members' and every admin's.
CanAccess(u, row) ==
    IF row.team = None
    THEN row.owner = u
    ELSE u \in Admin \/ row.team \in TeamsOf[u]

\* The part of validateTaskFields that looks at the merged row alone (and at
\* teams and member_teams, which are fixed here).
FieldsValid(row) ==
    /\ ValidPeriod(row.horizon, row.period)
    /\ row.horizon = "backlog" => row.team = None /\ ~row.due
    /\ row.assignee # None =>
          row.team # None /\ row.team \in TeamsOf[row.assignee]

\* The part of validateTaskFields that looks at the new parent's row.
ParentValid(u, row, parentRow) ==
    /\ parentRow # NoRow
    /\ CanAccess(u, parentRow)
    /\ HorizonRank(row.horizon) <= HorizonRank(parentRow.horizon)

-------------------------------------------------------------------------------
(* CreateTask: ownerId, weekOf and completedAt are derived, never taken     *)
(* from the client.                                                         *)

CreateAllowed(u, in) ==
    in.team # None => u \in Admin \/ in.team \in TeamsOf[u]

CreateRow(u, in, now) ==
    [horizon  |-> in.horizon,
     period   |-> in.period,
     due      |-> in.due,
     status   |-> in.status,
     parent   |-> in.parent,
     team     |-> in.team,
     owner    |-> IF in.team = None THEN u ELSE None,
     assignee |-> in.assignee,
     weekOf   |-> IF in.team = None THEN None ELSE now,
     doneIn   |-> IF in.status = "done" THEN now ELSE None]

-------------------------------------------------------------------------------
(* patchTaskTx: the merged row and the columns derived from the transition. *)

Merged(field, old) == IF field = Keep THEN old ELSE field

PatchAllowed(u, o, p) ==
    LET team == Merged(p.team, o.team) IN
    /\ CanAccess(u, o)
    /\ u \notin Admin => /\ team = o.team
                         /\ team # None => team \in TeamsOf[u]
                         /\ p.weekOf = Keep
    /\ p.weekOf # Keep => team # None

\* Mutant: a task that becomes a team's keeps its owner.
PatchedOwnerKept(u, o, team) ==
    IF o.team # None /\ team = None THEN u ELSE o.owner

PatchedOwner(u, o, team) ==
    CASE o.team = None /\ team # None -> None
      [] o.team # None /\ team = None -> u
      [] OTHER                        -> o.owner

PatchedWeekOf(o, p, team, status, now) ==
    CASE o.status \notin Terminal /\ status \in Terminal /\ team # None -> now
      [] p.weekOf # Keep              -> p.weekOf
      [] o.team = None /\ team # None -> now
      [] o.team # None /\ team = None -> None
      [] OTHER                        -> o.weekOf

PatchedDoneIn(o, status, now) ==
    CASE o.status # "done" /\ status = "done" -> now
      [] o.status = "done" /\ status # "done" -> None
      [] OTHER                                -> o.doneIn

PatchRow(u, o, p, now) ==
    LET team   == Merged(p.team, o.team)
        status == Merged(p.status, o.status)
    IN [horizon  |-> Merged(p.horizon, o.horizon),
        period   |-> Merged(p.period, o.period),
        due      |-> Merged(p.due, o.due),
        status   |-> status,
        parent   |-> Merged(p.parent, o.parent),
        team     |-> team,
        owner    |-> PatchedOwner(u, o, team),
        assignee |-> Merged(p.assignee, o.assignee),
        weekOf   |-> PatchedWeekOf(o, p, team, status, now),
        doneIn   |-> PatchedDoneIn(o, status, now)]

-------------------------------------------------------------------------------
(* What the columns of one row owe each other, whoever wrote it.            *)

\* A task is personal (owned, off the boards) or a team's (on a week's
\* board), never both, never neither; completed_at is set exactly on done
\* tasks; only members of the team are assigned its tasks; and the backlog
\* holds only personal tasks.
RowCoherent(row) ==
    /\ row.team = None <=> row.owner # None
    /\ row.team # None <=> row.weekOf # None
    /\ row.status = "done" <=> row.doneIn # None
    /\ row.assignee # None =>
          row.team # None /\ row.team \in TeamsOf[row.assignee]
    /\ row.horizon = "backlog" => row.team = None

===============================================================================
