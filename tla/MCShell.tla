-------------------------------- MODULE MCShell --------------------------------
(* Two planning tabs, two weeks, one tag, two teams, a history of three     *)
(* tasks of which the tag is on two, in pages of one.                          *)
EXTENDS Shell

CONSTANTS home

MCTagsOf == [t \in 1 .. MaxTask |-> IF t = 2 THEN {} ELSE {home}]
MCMaxPeriod == [day |-> 0, week |-> 1]
MCWeekRange == [p \in 0 .. 1 |-> [from |-> 1 + p, to |-> 2]]
===============================================================================
