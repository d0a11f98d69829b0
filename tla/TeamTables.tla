------------------------------- MODULE TeamTables -------------------------------
(***************************************************************************)
(* The tables teams, members, member_teams and tasks of 0001_init.up.sql    *)
(* (a task's team and assignee only), and what must hold of them however    *)
(* the requests of Teams interleave.                                        *)
(***************************************************************************)
EXTENDS Requests

CONSTANTS Team, Member, Task

VARIABLES
    teams,       \* table teams
    members,     \* table members
    teamIDs,     \* table member_teams: [Member -> SUBSET Team]
    tasks,       \* table tasks: [Task -> team and assignee, or None]
    left         \* history: who was in which team once and left it

\* However a team's or a member's delete falls between the checks and the writes
\* of the others, no row refers to one that is gone.
RefsStand ==
    /\ \A t \in Task : tasks[t] # None =>
          /\ tasks[t].team # None => tasks[t].team \in teams
          /\ tasks[t].assignee # None => tasks[t].assignee \in members
    /\ \A m \in Member : /\ teamIDs[m] \subseteq teams
                         /\ teamIDs[m] # {} => m \in members

\* Memberships are written back whole.  Between the read and the write of a patch
\* nobody else writes them: what it overwrites is what it read, but for teams
\* deleted in between.
MembershipsAsRead ==
    \A r \in Request : Does(r, "patchMember") =>
        req[r].had \cap teams = teamIDs[req[r].member]

\* An assignee who is not in the task's team was in it once and left: no order of
\* creates, patches, moves between teams and undos assigns to anybody else.
OutsidersHaveLeft ==
    \A t \in Task : tasks[t] # None /\ tasks[t].assignee # None =>
        \/ tasks[t].team \in teamIDs[tasks[t].assignee]
        \/ <<tasks[t].assignee, tasks[t].team>> \in left
===============================================================================
