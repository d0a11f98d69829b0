--------------------------------- MODULE Assign ---------------------------------
(***************************************************************************)
(* ui/src/components/AssignPopover.tsx: pick a team, then one of its         *)
(* members, then assign.                                                     *)
(*                                                                          *)
(* A pick of a team fetches its board for the member options and cancels     *)
(* the fetch before; the options of the team before stay until the answer    *)
(* comes, behind a disabled select.  A member is known by the team whose     *)
(* board listed it.                                                          *)
(***************************************************************************)
CONSTANTS None, Team

VARIABLES
    popover,        \* the popover is open
    teamId,         \* the team picked, or None
    members,        \* the team whose members are the options, or None
    assigneeId,     \* the team of the member picked, or None
    loadingMembers,
    boards,         \* board requests in flight: [team, cancelled]
    noBoard         \* an error is on screen

avars == <<popover, teamId, members, assigneeId, loadingMembers, boards, noBoard>>

Shut ==
    /\ popover = FALSE /\ teamId = None /\ members = None /\ assigneeId = None
    /\ loadingMembers = FALSE /\ boards = {} /\ noBoard = FALSE

Open ==
    /\ ~popover
    /\ popover' = TRUE
    /\ UNCHANGED <<teamId, members, assigneeId, loadingMembers, boards, noBoard>>

Close ==
    /\ popover' = FALSE /\ teamId' = None /\ members' = None /\ assigneeId' = None
    /\ loadingMembers' = FALSE /\ boards' = {} /\ noBoard' = FALSE

-------------------------------------------------------------------------------
\* Mutant: the member picked for the team before stays picked.
KeepMember == assigneeId

NoMember == None

PickTeam(t) ==
    /\ popover /\ t # teamId
    /\ teamId' = t
    /\ assigneeId' = NoMember
    /\ LET before == {[b EXCEPT !.cancelled = TRUE] : b \in boards}
       IN  IF t = None
           THEN members' = None /\ boards' = before /\ UNCHANGED loadingMembers
           ELSE /\ boards' = before \cup {[team |-> t, cancelled |-> FALSE]}
                /\ loadingMembers' = TRUE
                /\ UNCHANGED members
    /\ UNCHANGED <<popover, noBoard>>

BoardAnswer(b) ==
    /\ b \in boards
    /\ boards' = boards \ {b}
    /\ IF b.cancelled THEN UNCHANGED <<members, loadingMembers>>
       ELSE members' = b.team /\ loadingMembers' = FALSE
    /\ UNCHANGED <<popover, teamId, assigneeId, noBoard>>

\* The options stay what they were.
BoardFail(b) ==
    /\ b \in boards
    /\ boards' = boards \ {b}
    /\ IF b.cancelled THEN UNCHANGED <<loadingMembers, noBoard>>
       ELSE loadingMembers' = FALSE /\ noBoard' = TRUE
    /\ UNCHANGED <<popover, teamId, members, assigneeId>>

PickMember(m) ==
    /\ popover /\ teamId # None /\ ~loadingMembers
    /\ m \in {members, None} /\ m # assigneeId
    /\ assigneeId' = m
    /\ UNCHANGED <<popover, teamId, members, loadingMembers, boards, noBoard>>

\* What "Assign" hands to the caller, which PATCHes the tasks with it.
CanAssign == popover /\ teamId # None
Picks == [team |-> teamId, assignee |-> assigneeId]

-------------------------------------------------------------------------------
\* AssignPopover.tsx:54-56 calls the options "sourced fresh per team-pick": a
\* member handed over is one of the team handed over.
AssigneeIsOfTheTeam == CanAssign /\ Picks.assignee # None => Picks.assignee = Picks.team

\* The same, unless a board failed to load in this popover: teams picked one
\* after the other, and their boards answered in any order, never offer one
\* team's member for another team (AssignPopover.tsx:57-87).
AssigneeIsOfTheTeamLoaded == noBoard \/ AssigneeIsOfTheTeam
===============================================================================
