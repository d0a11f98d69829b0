------------------------------ MODULE Recurrence ------------------------------
(***************************************************************************)
(* internal/model/recur.go: which periods a recurring task falls on.        *)
(*                                                                         *)
(* The periods of one horizon are numbered in calendar order, which is also *)
(* the order of their strings; 0 is '', the period of the backlog.  With    *)
(* the daily horizon a period is a day and belongs to a week.               *)
(***************************************************************************)
EXTENDS Integers

CONSTANTS
    DaysInWeek, \* 7 in the code; small instances scale the week down
    MaxPeriod   \* the model's last period

ASSUME CalendarAssumption ==
    DaysInWeek \in Nat \ {0} /\ MaxPeriod \in Nat \ {0}

Parked == 0

Period == 0..MaxPeriod

\* The client's half of a recurrence.  Days are listed exactly for the freq
\* "weekdays"; the other freqs differ in the horizon they count in only.
Rule == [weekdays : SUBSET (1..DaysInWeek), interval : Nat \ {0}]

\* The anchor, a period or the number of a week, is the server's.
Recurring == [weekdays : SUBSET (1..DaysInWeek), interval : Nat \ {0}, anchor : Nat]

Week(p) == p \div DaysInWeek

Weekday(p) == (p % DaysInWeek) + 1

ComputeAnchor(rule, p) == IF rule.weekdays = {} THEN p ELSE Week(p)

Anchored(rule, p) ==
    [weekdays |-> rule.weekdays, interval |-> rule.interval,
     anchor |-> ComputeAnchor(rule, p)]

IsOccurrence(rec, p) ==
    IF rec.weekdays = {}
    THEN (p - rec.anchor) % rec.interval = 0
    ELSE /\ Weekday(p) \in rec.weekdays
         /\ (Week(p) - rec.anchor) % rec.interval = 0

\* Mutant: the current period is left for the next read.
MissingPeriodsBefore(rec, latest, current) ==
    {p \in latest + 1 .. current - 1 : IsOccurrence(rec, p)}

\* After the latest instance's period, up to the current one.
MissingPeriods(rec, latest, current) ==
    {p \in latest + 1 .. current : IsOccurrence(rec, p)}

===============================================================================
