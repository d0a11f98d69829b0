------------------------------ MODULE MCComposer ------------------------------
(* Texts with every kind of token, and two members who share a first letter. *)
EXTENDS Composer

CONSTANTS sam, sue

MCMeans == [n \in {"sam", "s"} |-> IF n = "sam" THEN {sam} ELSE {sam, sue}]
MCDay == {1, 2}
Word(k, v) == [kind |-> k, val |-> v]
Call == Word("plain", "call")
MCTexts ==
    {<<Call>>,
     <<Call, Word("recur", "monthly"), Word("assignee", "sam")>>,
     <<Call, Word("horizon", "weekly"), Word("assignee", "s"), Word("due", "may")>>,
     <<Word("tag", "work"), Word("priority", "high")>>,
     <<Call, Word("recur", "weekdays"), Word("horizon", "monthly")>>}
MCLegend == {Word("priority", "high"), Word("horizon", "monthly")}
===============================================================================
