--------------------------- MODULE MCDetailPanel ---------------------------
(* A daily task with one note and its subtask, which recurs.                *)
EXTENDS DetailPanel

CONSTANTS top, sub, memo, jot

MCParent == [t \in Task |-> IF t = sub THEN top ELSE None]
MCHorizon == [t \in Task |-> "daily"]
MCBorn == [n \in Note |-> IF n = memo THEN top ELSE sub]
MCDay == {1, 2}
MCTables ==
    {[t \in Task |->
        [title |-> <<t, 0>>,
         rule |-> IF t = sub THEN [freq |-> "weekdays", days |-> {1}] ELSE None,
         notes |-> IF t = top THEN {memo} ELSE {}]]}
MCSlot == 1..2
===============================================================================
