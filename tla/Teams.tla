--------------------------------- MODULE Teams ---------------------------------
(***************************************************************************)
(* internal/service/teams.go and members.go over PostgreSQL, with what      *)
(* tasks.go checks of a task's team and assignee: statement by statement,   *)
(* interleaved under READ COMMITTED.                                        *)
(*                                                                         *)
(* Who holds a row follows from the requests under way: a member patch or   *)
(* delete holds its member FOR UPDATE, a task patch its task, and a member  *)
(* write shares (FOR KEY SHARE) every team it has validated, all until they *)
(* end.  A statement that waits for several rows takes them at once.  The   *)
(* foreign keys and their actions (external) are those of 0001_init.up.sql. *)
(* Callers are admins: who may call what is TaskStore's.                    *)
(***************************************************************************)
EXTENDS TeamTables   \* undo: the last task deleted

CONSTANT Login   \* the members who may sign in: they are disabled, not deleted

tables == <<teams, members, teamIDs, tasks, used>>
vars == <<tables, req, undo, left>>

-------------------------------------------------------------------------------

\* A task's team and assignee; an assignee needs a team.
Row == {row \in [team : Team \cup {None}, assignee : Member \cup {None}] :
            row.assignee # None => row.team # None}

\* A write of a task, of a member and its teams, the delete of either's.
TaskWrite == [op : {"createTask", "patchTask"}, task : Task,
              orig : Row \cup {None}, new : Row]
MemberWrite == [op : {"createMember", "patchMember"}, member : Member,
                had : SUBSET Team, want : SUBSET Team, todo : SUBSET Team]
Removal == [op : {"deleteMember"}, member : Member]
           \cup [op : {"deleteTeam"}, team : Team]

ASSUME TeamsAssumption ==
    None \notin Team \cup Member \cup Row \cup TaskWrite \cup MemberWrite \cup Removal

WritesMember(r) == Does(r, "createMember") \/ Does(r, "patchMember")
WritesTask(r) == Does(r, "createTask") \/ Does(r, "patchTask")

\* Mutant: members are read without FOR UPDATE.
LockedNot(m) == FALSE

MemberLocked(m) ==
    \E r \in Request : /\ Does(r, "patchMember") \/ Does(r, "deleteMember")
                       /\ req[r].member = m

TaskLocked(t) == \E r \in Request : Does(r, "patchTask") /\ req[r].task = t

TeamShared(x) ==
    \E r \in Request : WritesMember(r) /\ x \in req[r].want \ req[r].todo

Init ==
    /\ teams \in SUBSET Team
    /\ members \in SUBSET Member
    /\ teamIDs \in [Member -> SUBSET teams]
    /\ \A m \in Member \ members : teamIDs[m] = {}
    /\ tasks = [t \in Task |-> None]
    /\ used = teams \cup members
    /\ req = [r \in Request |-> None]
    /\ undo = None
    /\ left = {}

-------------------------------------------------------------------------------
(* Tasks.                                                                   *)

\* The unlocked reads of validateTaskFields, as of the last of them: a
\* membership implies the rows the earlier ones looked for.
Checks(row) ==
    /\ row.team # None => row.team \in teams
    /\ row.assignee # None => row.team # None /\ row.assignee \in members
    /\ row.assignee # None => row.team \in teamIDs[row.assignee]

\* Mutant: only a new assignee is checked, not the old one in a new team.
ChecksChange(old, row) ==
    /\ row.team # None => row.team \in teams
    /\ row.assignee \notin {None, old.assignee} =>
          row.assignee \in members /\ row.team \in teamIDs[row.assignee]

ChecksPatch(old, row) == Checks(row)

CreateTask(r, t) ==
    /\ t \notin used
    /\ \E row \in [team : Team \cup {None}, assignee : Member \cup {None}] :
         /\ Checks(row)
         /\ Begin(r, [op |-> "createTask", task |-> t, orig |-> None, new |-> row])
    /\ used' = used \cup {t}
    /\ UNCHANGED <<teams, members, teamIDs, tasks, undo, left>>

\* SELECT .. FOR UPDATE, merge, validate.
PatchTask(r, t) ==
    /\ tasks[t] # None /\ ~TaskLocked(t)
    /\ \E row \in [team : Team \cup {None}, assignee : Member \cup {None}] :
         /\ ChecksPatch(tasks[t], row)
         /\ Begin(r, [op |-> "patchTask", task |-> t, orig |-> tasks[t], new |-> row])
    /\ UNCHANGED <<tables, undo, left>>

\* A foreign key finds the row a new value refers to, and waits for whoever
\* holds it.
Refers(old, row) ==
    /\ row.team \notin {None, old.team} => row.team \in teams
    /\ row.assignee \notin {None, old.assignee} =>
          row.assignee \in members /\ ~MemberLocked(row.assignee)

Nothing == [team |-> None, assignee |-> None]

\* The INSERT or the UPDATE, and the commit.
WriteTask(r) ==
    /\ WritesTask(r)
    /\ LET q == req[r] IN
       /\ Refers(IF q.orig = None THEN Nothing ELSE q.orig, q.new)
       /\ tasks' = [tasks EXCEPT ![q.task] = q.new]
    /\ End(r)
    /\ UNCHANGED <<teams, members, teamIDs, used, undo, left>>

\* A cascade of one row.
DeleteTask(t) ==
    /\ tasks[t] # None /\ ~TaskLocked(t)
    /\ undo' = [task |-> t, row |-> tasks[t]]
    /\ tasks' = [tasks EXCEPT ![t] = None]
    /\ UNCHANGED <<teams, members, teamIDs, used, req, left>>

\* Restore checks that team and assignee exist, not that they fit.
RestoreTask ==
    /\ undo # None /\ tasks[undo.task] = None
    /\ Refers(Nothing, undo.row)
    /\ tasks' = [tasks EXCEPT ![undo.task] = undo.row]
    /\ UNCHANGED <<teams, members, teamIDs, used, req, undo, left>>

-------------------------------------------------------------------------------
(* Members and their teams.                                                 *)

CreateMember(r, m) ==
    /\ m \notin used
    /\ used' = used \cup {m}
    /\ \E want \in SUBSET Team :
         Begin(r, [op |-> "createMember", member |-> m, had |-> {}, want |-> want,
                   todo |-> want])
    /\ UNCHANGED <<teams, members, teamIDs, tasks, undo, left>>

\* SELECT .. FOR UPDATE and the memberships; a patch that does not name teams
\* wants those it read.
PatchMember(r, m) ==
    /\ m \in members /\ ~MemberLocked(m)
    /\ \E want \in SUBSET Team :
         Begin(r, [op |-> "patchMember", member |-> m, had |-> teamIDs[m],
                   want |-> want, todo |-> want])
    /\ UNCHANGED <<tables, undo, left>>

\* validateTeamIDs, team by team.
ValidateTeam(r) ==
    /\ WritesMember(r)
    /\ \E x \in req[r].todo \cap teams : req' = [req EXCEPT ![r].todo = @ \ {x}]
    /\ UNCHANGED <<tables, undo, left>>

\* The member's row, its memberships deleted and written again, the commit.
WriteMember(r) ==
    /\ WritesMember(r) /\ req[r].todo = {}
    /\ LET m == req[r].member
           want == req[r].want
       IN /\ members' = members \cup {m}
          /\ teamIDs' = [teamIDs EXCEPT ![m] = want]
          /\ left' = left \cup ({m} \X (teamIDs[m] \ want))
    /\ End(r)
    /\ UNCHANGED <<teams, tasks, used, undo>>

DeleteMember(r, m) ==
    /\ m \in members \ Login /\ ~MemberLocked(m)
    /\ Begin(r, [op |-> "deleteMember", member |-> m])
    /\ UNCHANGED <<tables, undo, left>>

\* ON DELETE SET NULL
Unassigned(m) ==
    [t \in Task |-> IF tasks[t] # None /\ tasks[t].assignee = m
                    THEN [tasks[t] EXCEPT !.assignee = None] ELSE tasks[t]]

RemoveMember(r) ==
    /\ Does(r, "deleteMember")
    /\ LET m == req[r].member IN
       /\ \A t \in Task : tasks[t] # None /\ tasks[t].assignee = m => ~TaskLocked(t)
       /\ members' = members \ {m}
       /\ teamIDs' = [teamIDs EXCEPT ![m] = {}]
       /\ tasks' = Unassigned(m)
       /\ left' = left \cup ({m} \X teamIDs[m])
    /\ End(r)
    /\ UNCHANGED <<teams, used, undo>>

-------------------------------------------------------------------------------
(* Teams.                                                                   *)

CreateTeam(x) ==
    /\ x \notin used
    /\ used' = used \cup {x}
    /\ teams' = teams \cup {x}
    /\ UNCHANGED <<members, teamIDs, tasks, req, undo, left>>

Empty(x) == \A t \in Task : tasks[t] # None => tasks[t].team # x

DeleteTeam(r, x) ==
    /\ x \in teams /\ Empty(x)
    /\ Begin(r, [op |-> "deleteTeam", team |-> x])
    /\ UNCHANGED <<tables, undo, left>>

\* Mutant: the count is trusted.
RemoveTeamCounted(r) ==
    /\ Does(r, "deleteTeam")
    /\ LET x == req[r].team IN
       /\ ~TeamShared(x)
       /\ teams' = teams \ {x}
       /\ teamIDs' = [m \in Member |-> teamIDs[m] \ {x}]
       /\ left' = left \cup {<<m, x>> : m \in {n \in Member : x \in teamIDs[n]}}
    /\ End(r)
    /\ UNCHANGED <<members, tasks, used, undo>>

\* ON DELETE RESTRICT for tasks, CASCADE for memberships.
RemoveTeam(r) ==
    /\ Does(r, "deleteTeam")
    /\ LET x == req[r].team IN
       /\ ~TeamShared(x) /\ Empty(x)
       /\ teams' = teams \ {x}
       /\ teamIDs' = [m \in Member |-> teamIDs[m] \ {x}]
       /\ left' = left \cup {<<m, x>> : m \in {n \in Member : x \in teamIDs[n]}}
    /\ End(r)
    /\ UNCHANGED <<members, tasks, used, undo>>

\* A check that fails, a foreign key that finds nothing, a deadlock, a client
\* that hangs up: the request is rolled back.
Abort(r) == req[r] # None /\ End(r) /\ UNCHANGED <<tables, undo, left>>

Next ==
    \/ \E r \in Request :
         \/ \E t \in Task : CreateTask(r, t) \/ PatchTask(r, t)
         \/ \E m \in Member : CreateMember(r, m) \/ PatchMember(r, m) \/ DeleteMember(r, m)
         \/ \E x \in Team : DeleteTeam(r, x)
         \/ WriteTask(r) \/ ValidateTeam(r) \/ WriteMember(r)
         \/ RemoveMember(r) \/ RemoveTeam(r) \/ Abort(r)
    \/ \E t \in Task : DeleteTask(t)
    \/ \E x \in Team : CreateTeam(x)
    \/ RestoreTask

Spec == Init /\ [][Next]_vars

\* Types, and that nobody has a task without its team (validateTaskFields).
TypeOK ==
    /\ teams \subseteq Team /\ members \subseteq Member
    /\ teamIDs \in [Member -> SUBSET Team]
    /\ tasks \in [Task -> Row \cup {None}]
    /\ used \subseteq Team \cup Member \cup Task
    /\ req \in [Request -> TaskWrite \cup MemberWrite \cup Removal \cup {None}]
    /\ undo \in [task : Task, row : Row] \cup {None}
    /\ left \subseteq Member \X Team
===============================================================================
