----------------------------- MODULE LatestAnswer -----------------------------
(***************************************************************************)
(* What a panel that loads an answer for the question it is set to should   *)
(* promise: the answer on screen is the one to the question it was last     *)
(* asked, or there is none, except while that answer is on its way.         *)
(***************************************************************************)
CONSTANTS Question, None

VARIABLES asked, shown, loading

vars == <<asked, shown, loading>>

Init == asked \in Question \cup {None} /\ shown = None /\ loading = (asked # None)

\* A new question: what is on screen stays until the answer comes.
Ask(q) == asked' = q /\ loading' = TRUE /\ UNCHANGED shown

\* No question any more, and no answer to one.
Withdraw == asked' = None /\ shown' = None /\ loading' = FALSE

Answer ==
    /\ loading
    /\ shown' = asked
    /\ loading' = FALSE
    /\ UNCHANGED asked

Fail ==
    /\ loading
    /\ shown' = None
    /\ loading' = FALSE
    /\ UNCHANGED asked

Next == (\E q \in Question : Ask(q)) \/ Withdraw \/ Answer \/ Fail

Spec == Init /\ [][Next]_vars

===============================================================================
