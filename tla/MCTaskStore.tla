----------------------------- MODULE MCTaskStore ------------------------------
(***************************************************************************)
(* Small instances of TaskStore: one admin (alice), one member of the only  *)
(* team (bob), two or three tasks, and for each question the request bodies *)
(* that bear on it.                                                         *)
(***************************************************************************)
EXTENDS TaskStore, TLC

CONSTANTS alice, bob, ops, a, b, c

MCTeamsOf == (alice :> {}) @@ (bob :> {ops})

Unchanged == [horizon |-> Keep, period |-> Keep, due |-> Keep, status |-> Keep,
              parent |-> Keep, team |-> Keep, assignee |-> Keep, weekOf |-> Keep]

Personal(u, h) ==
    [horizon |-> h, period |-> CurrentPeriod(h, 1), due |-> FALSE,
     status |-> "todo", parent |-> None, team |-> None, owner |-> u,
     assignee |-> None, weekOf |-> None, doneIn |-> None]

Shared(h) == [Personal(alice, h) EXCEPT !.team = ops, !.owner = None, !.weekOf = 1]

Under(row, p) == [row EXCEPT !.parent = p]

NoTasks == [t \in Task |-> NoRow]

-------------------------------------------------------------------------------
(* Columns: every derivation of a patch, no tree.                           *)

ColumnTables == {NoTasks}

NewColumns(s, m) ==
    [horizon |-> "daily", period |-> CurrentPeriod("daily", 1), due |-> FALSE,
     status |-> s, parent |-> None, team |-> m, assignee |-> None]

ColumnNewTasks == {NewColumns("todo", None), NewColumns("done", ops)}

ColumnPatches ==
    {[Unchanged EXCEPT !.status = "todo"],
     [Unchanged EXCEPT !.status = "done"],
     [Unchanged EXCEPT !.team = None, !.assignee = None],
     [Unchanged EXCEPT !.team = ops, !.assignee = bob, !.status = "cancelled",
                       !.weekOf = 1]}

-------------------------------------------------------------------------------
(* Tree: three loose tasks of one owner moved under one another; or two of    *)
(* them, or a parent and its child, while a child of the first is created.   *)

Loose == [t \in Task |-> Personal(alice, "weekly")]

LooseTables == {Loose}

Two == [Loose EXCEPT ![c] = NoRow]

TreeTables == {Two, [Two EXCEPT ![b] = Under(@, a)]}

NoNewTasks == {}

NewChildren ==
    {[horizon |-> "weekly", period |-> CurrentPeriod("weekly", 1), due |-> FALSE,
      status |-> "todo", parent |-> a, team |-> None, assignee |-> None]}

Moves == {[Unchanged EXCEPT !.parent = p] : p \in Task \cup {None}}

\* Under either task, and under the first as a daily task: a new horizon is
\* checked against the children.
TreeMoves ==
    {[Unchanged EXCEPT !.parent = p] : p \in {a, b}} \cup
    {[Unchanged EXCEPT !.parent = a, !.horizon = "daily",
                       !.period = CurrentPeriod("daily", 1)]}

===============================================================================
