---------------------------- MODULE MCBulkActions ----------------------------
(* Two tasks that may be parent and child, each page's own kinds of rows, a    *)
(* daily series and one that skipped the last two periods, and an assignee who *)
(* may have left the team.                                                     *)
EXTENDS BulkActions

CONSTANTS a, b, ann, daily, other

Pair(x, y) == [t \in {a, b} |-> IF t = a THEN x ELSE y]
Flat == Pair(None, None)
Child == Pair(None, a)
Parent == Pair(b, None)

MCOccurs == [s \in {daily, other} |-> IF s = daily THEN {-3, -2, -1, 0} ELSE {-2}]
Alone == [s \in {daily, other} |-> {}]
Yesterday == [Alone EXCEPT ![daily] = {-1}]
Today == [Alone EXCEPT ![daily] = {0}]

R(home, week, due, period, who) ==
    [home |-> home, status |-> "in_progress", week |-> week, due |-> due,
     period |-> period, who |-> who]
Dated == R("team", "past", "past", -2, ann)
Undated == R("team", "past", None, 0, ann)
Board == Pair(Dated, R("team", "now", None, 0, None))
Queue == Pair(Undated, [Undated EXCEPT !.period = -1])
Attention == Pair(Dated, R("personal", None, None, -1, None))
Backlog == Pair(R("pool", None, None, None, None), R("pool", None, None, None, None))

Opens(page_rows, families, series_of, filled, team) ==
    {[srv |-> r, parent |-> f, series |-> series_of, others |-> filled, inTeam |-> team] :
        r \in page_rows, f \in families}

MCStarts ==
    UNION {Opens({Board, Queue, Attention, Backlog}, {Flat, Child}, Flat, Alone, {ann}),
           Opens({Queue, Attention, Backlog}, {Flat}, Flat, Alone, {}),
           Opens({Board}, {Flat, Parent}, Pair(None, daily), Yesterday, {ann}),
           Opens({Queue, Attention}, {Flat}, Pair(None, daily), Today, {ann}),
           Opens({Board, Attention}, {Child}, Pair(other, other), Alone, {ann})}
===============================================================================
