--------------------------------- MODULE Shell ---------------------------------
(***************************************************************************)
(* ui/src/App.tsx: the app shell and the views it mounts.                    *)
(*                                                                          *)
(* The shell owns the tab, the period of each planning tab, whether the      *)
(* summary panel is open and which team page is; the tag filter is one for   *)
(* every view.  What a tab mounts starts afresh and is forgotten when the    *)
(* tab is left; what the shell owns stays.  The views are the modules Lists, *)
(* History, Assign and Summary; the other tabs are in modules of their own.  *)
(***************************************************************************)
EXTENDS Integers, FiniteSets, Sequences

CONSTANTS None, Role, Tag, Team, PeriodTab, MaxPeriod, MaxAsks, MaxOps,
          MaxTask, TagsOf, PAGE, MAX_LIMIT, MaxPages, Date, WeekRange, MaxFetches

\* The planning tabs are numbered from today on.  Dates are numbers but 0, the
\* dates of a week are two of them in order, and None is neither a range nor a
\* team.
ASSUME ShellAssumption ==
    /\ {"day", "week"} \subseteq PeriodTab /\ \A t \in PeriodTab : MaxPeriod[t] \in Nat
    /\ Date \subseteq Nat \ {0}
    /\ \A p \in 0 .. MaxPeriod["week"] :
          WeekRange[p] \in [from : Date, to : Date] /\ WeekRange[p].from <= WeekRange[p].to
    /\ None \notin [from : Date, to : Date] \cup Team
    /\ {MaxFetches, MaxTask, PAGE, MAX_LIMIT} \subseteq Nat

VARIABLES
    tab, at, tags,
    summaryOpen, \* the shell mounts the summary panel on the week tab
    closeTimer,  \* the closing panel's timer
    query, timer, newest, calls, shown, error, ops,
    history, closed, rows, hasMore, loadingMore, pages, asked, crossed, edits,
    popover, teamId, members, assigneeId, loadingMembers, boards, noBoard,
    open, from, to, data, loading, failed, closing, fetches, sent

L == INSTANCE Lists
H == INSTANCE History
A == INSTANCE Assign
S == INSTANCE Summary

shell == <<tab, at, tags, summaryOpen, closeTimer>>
lists == <<query, timer, newest, calls, shown, error, ops>>
team == <<history, closed, rows, hasMore, loadingMore, pages, asked, crossed, edits>>
assign == <<popover, teamId, members, assigneeId, loadingMembers, boards, noBoard>>
summary == <<open, from, to, data, loading, failed, closing, fetches, sent>>
vars == <<shell, lists, team, assign, summary>>

Tabs == PeriodTab \cup {"all", "search", "backlog", "teams"}
Today == 0

-------------------------------------------------------------------------------
\* The day tab, whose view has just sent its first request.
Init ==
    /\ tab = "day" /\ at = [t \in PeriodTab |-> Today]
    /\ tags \in SUBSET Tag
    /\ summaryOpen = FALSE /\ closeTimer = FALSE
    /\ query = 0 /\ timer = FALSE /\ shown = None /\ error = FALSE /\ ops = {}
    /\ newest = [n |-> 1, q |-> L!Viewed, by |-> "view"] /\ calls = {newest}
    /\ history = FALSE /\ H!Blank
    /\ A!Shut
    /\ S!Closed

\* The rows of NAV_GROUPS a role sees.
NavItems == IF Role = "ADMIN" THEN Tabs ELSE Tabs \ {"backlog"}

OpensAt(week) == S!OpenAt(WeekRange[week].from, WeekRange[week].to)

\* The summary panel is mounted by the week tab while the shell has it open.
SummaryFollows(t) ==
    IF summaryOpen /\ t = "week" THEN OpensAt(at["week"])
    ELSE IF open THEN S!Unmount ELSE UNCHANGED summary

SetTab(t) ==
    /\ t \in NavItems /\ t # tab
    /\ tab' = t
    /\ UNCHANGED <<at, tags, summaryOpen, closeTimer>>
    /\ query' = 0 /\ L!Remount
    /\ history' = FALSE /\ H!Reset
    /\ A!Close
    /\ SummaryFollows(t)

\* The header's previous, Today and next.
PeriodNav(p) ==
    /\ tab \in PeriodTab /\ ~open
    /\ p # at[tab] /\ p \in {at[tab] - 1, Today, at[tab] + 1} \cap (0 .. MaxPeriod[tab])
    /\ at' = [at EXCEPT ![tab] = p]
    /\ UNCHANGED <<tab, tags, summaryOpen, closeTimer, query,
                   team, assign, summary>>
    /\ L!Refetch

\* The composer created a task: the reload token is a dependency too.
Created ==
    /\ tab \in PeriodTab /\ ~open
    /\ L!Ask(L!Viewed, "view")
    /\ UNCHANGED <<shell, query, timer, ops, team, assign, summary>>

\* A pill, or "clear": every mounted view that filters by tag fetches again.
SetTags(new) ==
    /\ ~open /\ new # tags
    /\ tab \in L!ListTab \cup {"backlog"} \/ history
    /\ tags' = new
    /\ UNCHANGED <<tab, at, summaryOpen, closeTimer, query, assign, summary>>
    /\ IF tab \in L!ListTab THEN L!Refetch
       ELSE UNCHANGED <<timer, newest, calls, shown, error, ops>>
    /\ IF history THEN H!Restart(new) /\ UNCHANGED history ELSE UNCHANGED team

Toggle(tag) == SetTags(IF tag \in tags THEN tags \ {tag} ELSE tags \cup {tag})

-------------------------------------------------------------------------------
\* The panel and the list under it share nothing: the panel is opened over a
\* list at rest, which leaves out no behaviour of either.
OpenSummary ==
    /\ tab = "week" /\ ~open /\ calls = {} /\ ops = {}
    /\ summaryOpen' = TRUE
    /\ OpensAt(at["week"])
    /\ UNCHANGED <<tab, at, tags, closeTimer, lists, team, assign>>

RequestClose ==
    /\ S!RequestClose
    /\ closeTimer' = TRUE
    /\ UNCHANGED <<tab, at, tags, summaryOpen, lists, team, assign>>

\* The timer belongs to the shell: it also closes a panel mounted since.
CloseSummary ==
    /\ closeTimer
    /\ closeTimer' = FALSE /\ summaryOpen' = FALSE
    /\ IF open THEN S!Unmount ELSE UNCHANGED summary
    /\ UNCHANGED <<tab, at, tags, lists, team, assign>>

ViewOlder ==
    /\ tab = "teams" /\ ~history
    /\ history' = TRUE
    /\ H!Restart(tags)
    /\ UNCHANGED <<shell, lists, assign, summary>>

BackToBoard ==
    /\ history
    /\ history' = FALSE /\ H!Reset
    /\ UNCHANGED <<shell, lists, assign, summary>>

-------------------------------------------------------------------------------
ListSteps ==
    /\ \/ \E q \in L!Field : L!Type(q)
       \/ L!Enter
       \/ L!StartOp
    /\ ~open
    /\ UNCHANGED <<shell, team, assign, summary>>

SearchDue == L!Debounced /\ UNCHANGED <<shell, team, assign, summary>>

ListAnswers ==
    /\ \/ \E c \in calls : L!Answer(c) \/ L!Fail(c)
       \/ \E q \in ops : L!OpDone(q) \/ L!OpFailed(q)
    /\ UNCHANGED <<shell, team, assign, summary>>

HistorySteps ==
    /\ \/ H!LoadMore
       \/ H!StartEdit
       \/ \E p \in pages : H!PageAnswer(p) \/ H!PageFail(p)
       \/ \E e \in edits : H!EditFails(e) \/ \E gone \in H!Leaving : H!EditDone(e, gone)
       \/ \E t \in closed : H!TaskLeaves(t)
    /\ UNCHANGED <<shell, lists, history, assign, summary>>

AssignSteps ==
    /\ \/ tab = "backlog" /\ A!Open
       \/ popover /\ A!Close
       \/ \E t \in Team \cup {None} : A!PickTeam(t)
       \/ \E b \in boards : A!BoardAnswer(b) \/ A!BoardFail(b)
       \/ \E m \in Team \cup {None} : A!PickMember(m)
    /\ UNCHANGED <<shell, lists, team, summary>>

SummarySteps ==
    /\ S!Edit \/ S!Answers
    /\ UNCHANGED <<shell, lists, team, assign>>

Next ==
    \/ \E t \in Tabs : SetTab(t)
    \/ \E p \in L!Period : PeriodNav(p)
    \/ \E tag \in Tag : Toggle(tag)
    \/ SetTags({}) \/ Created
    \/ OpenSummary \/ RequestClose \/ CloseSummary
    \/ ViewOlder \/ BackToBoard
    \/ ListSteps \/ SearchDue \/ ListAnswers
    \/ HistorySteps \/ AssignSteps \/ SummarySteps

\* Timers fire, and a request that was sent is answered or fails.
Fairness ==
    /\ WF_vars(SearchDue)
    /\ WF_vars(\E c \in calls : (L!Answer(c) \/ L!Fail(c)) /\ UNCHANGED <<shell, team, assign, summary>>)

Spec == Init /\ [][Next]_vars

FairSpec == Spec /\ Fairness

-------------------------------------------------------------------------------
\* Lists.AsksForWhatIsViewed, of the mounted view.
ViewsAskForWhatIsViewed == L!AsksForWhatIsViewed

\* Lists.SearchAnswered, of the mounted view.
SearchesAreAnswered == L!SearchAnswered

\* History.ShowsNewestRows, of the mounted team page.
HistoryShowsNewestRows == H!ShowsNewestRows

\* Assign.AssigneeIsOfTheTeamLoaded, of the open popover.
AssigneeIsOfTheTeam == A!AssigneeIsOfTheTeamLoaded

\* Summary.ShowsLatestAnswer: the panel, mounted and unmounted by the shell,
\* implements LatestAnswer.
SummaryShowsLatestAnswer == S!ShowsLatestAnswer

===============================================================================
