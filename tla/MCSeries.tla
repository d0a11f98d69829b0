------------------------------- MODULE MCSeries --------------------------------
(***************************************************************************)
(* Small instances of Series: a week of two days, so that a series on      *)
(* listed weekdays of every other week skips days and weeks.                *)
(***************************************************************************)
EXTENDS Series, TLC

Symmetry == Permutations(Id) \cup Permutations(Request)

EveryDay == [weekdays |-> {}, interval |-> 1]

EverySecondDay == [weekdays |-> {}, interval |-> 2]

SecondDaysOfEveryWeek == [weekdays |-> {2}, interval |-> 1]

FirstDaysOfSecondWeeks == [weekdays |-> {1}, interval |-> 2]

-------------------------------------------------------------------------------
(* Created and read, never edited.                                          *)

CalendarRules == {EveryDay, EverySecondDay, SecondDaysOfEveryWeek, FirstDaysOfSecondWeeks}

FirstPeriods == {1, 2}

NoPatches == {}

ReadNext ==
    \/ \E r \in Request :
          MaterializeRead(r) \/ MaterializeClock(r) \/ Spawn(r) \/ MaterializeEnd(r)
    \/ CreateTask \/ Tick

ReadSpec == Init /\ [][ReadNext]_vars

-------------------------------------------------------------------------------
(* Edited: the recurrence removed, changed and put back, instances moved     *)
(* and parked on the backlog.                                               *)

EditRules == {EveryDay}

OnFirstDays == [listed |-> TRUE, weekdays |-> {1}, interval |-> 0]

NoDays == [listed |-> FALSE, weekdays |-> {}, interval |-> 0]

FirstPeriod == {1}

Edits == {[period |-> Keep, rule |-> None],
          [period |-> Keep, rule |-> OnFirstDays],
          [period |-> Keep, rule |-> NoDays],
          [period |-> Parked, rule |-> None],
          [period |-> 2, rule |-> Keep]}

===============================================================================
