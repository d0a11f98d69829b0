--------------------------------- MODULE Lists ---------------------------------
(***************************************************************************)
(* The list views of ui/src/views (Day, Week, Month, All tasks, Search),    *)
(* of which the app shell mounts the one its tab names.                     *)
(*                                                                          *)
(* A view fetches again whenever what it is a view of changes; none of its  *)
(* fetches is cancelled, and each answer, to whichever question, replaces   *)
(* what is on screen.  An operation started from a row (TaskRow, TaskDetail) *)
(* ends with the reload of the render it was started from: it asks the      *)
(* question that was current then.  Search waits for a pause in the typing.  *)
(***************************************************************************)
EXTENDS Naturals, FiniteSets

CONSTANTS None, Tag, PeriodTab, MaxPeriod, MaxAsks, MaxOps

VARIABLES
    tab,      \* App: what is mounted
    at,       \* App: the period each planning tab is on
    tags,     \* the tag filter, shared by every view
    query,    \* Search: what its fields hold
    timer,    \* Search: a run is due
    newest,   \* the last request sent by this view, or None
    calls,    \* its requests in flight
    shown,    \* the request whose rows are on screen, or None
    error,    \* an error is on screen
    ops       \* operations under way: the question their reload will ask

lvars == <<timer, newest, calls, shown, error, ops>>

Period == UNION {0 .. MaxPeriod[t] : t \in PeriodTab}
ListTab == PeriodTab \cup {"all", "search"}
Field == {0, 1}
Key == {<<p>> : p \in Period} \cup {<<>>} \cup {<<f>> : f \in Field}
Question == [view : ListTab, key : Key, tags : SUBSET Tag]
Call == [n : 1 .. MaxAsks, q : Question, by : {"view", "row"}]

\* What the mounted view is a view of: the dependencies of its effect.
Viewed ==
    [view |-> tab, tags |-> tags,
     key |-> IF tab \in PeriodTab THEN <<at[tab]>>
             ELSE IF tab = "search" THEN <<query>> ELSE <<>>]

Blank ==
    /\ newest = None /\ shown = None
    /\ calls = {} /\ ops = {}
    /\ error = FALSE /\ timer = FALSE

-------------------------------------------------------------------------------
Send(sent, n, q, by) ==
    /\ n <= MaxAsks
    /\ newest' = [n |-> n, q |-> q, by |-> by]
    /\ calls' = sent \cup {newest'}
    /\ error' = FALSE

Number == IF newest = None THEN 1 ELSE newest.n + 1

Ask(q, by) == Send(calls, Number, q, by) /\ UNCHANGED shown

\* Mutant: the tag filter is missing from the dependencies of the effects.
RefetchUnlessTags ==
    IF tags' # tags THEN UNCHANGED lvars
    ELSE IF tab = "search" THEN timer' = TRUE /\ UNCHANGED <<newest, calls, shown, error, ops>>
    ELSE tab \in ListTab /\ Ask(Viewed', "view") /\ UNCHANGED <<timer, ops>>

\* The effect of a mounted view whose dependencies changed.
Refetch ==
    IF tab = "search" THEN timer' = TRUE /\ UNCHANGED <<newest, calls, shown, error, ops>>
    ELSE tab \in ListTab /\ Ask(Viewed', "view") /\ UNCHANGED <<timer, ops>>

\* Another view is mounted in place of this one, and starts afresh.
Remount ==
    /\ shown' = None /\ ops' = {}
    /\ timer' = (tab' = "search")
    /\ IF tab' \in ListTab \ {"search"} THEN Send({}, 1, Viewed', "view")
       ELSE newest' = None /\ calls' = {} /\ error' = FALSE

\* A key typed or a select changed.
Type(q) ==
    /\ tab = "search" /\ q # query
    /\ query' = q /\ timer' = TRUE
    /\ UNCHANGED <<newest, calls, shown, error, ops>>

RunSearch == Ask(Viewed, "view") /\ UNCHANGED <<query, ops>>

Debounced == tab = "search" /\ timer /\ timer' = FALSE /\ RunSearch

\* Enter runs at once, and leaves the run that is due where it is.
Enter == tab = "search" /\ UNCHANGED timer /\ RunSearch

-------------------------------------------------------------------------------
Landed(c) == c \in calls /\ calls' = calls \ {c} /\ UNCHANGED <<query, timer, newest, ops>>

\* Mutant: only the answer to the last request is shown.
AnswerNewestOnly(c) ==
    /\ Landed(c)
    /\ shown' = IF c = newest THEN c ELSE shown
    /\ UNCHANGED error

Answer(c) ==
    /\ Landed(c)
    /\ shown' = c
    /\ UNCHANGED error

Fail(c) ==
    /\ Landed(c)
    /\ error' = TRUE
    /\ UNCHANGED shown

\* A row's status, completion, reschedule or delete, or an edit in the panel.
StartOp ==
    /\ shown # None
    /\ Cardinality(ops) < MaxOps
    /\ ops' = ops \cup {Viewed}
    /\ UNCHANGED <<query, timer, newest, calls, shown, error>>

OpDone(q) ==
    /\ q \in ops
    /\ ops' = ops \ {q}
    /\ Ask(q, "row")
    /\ UNCHANGED <<query, timer>>

OpFailed(q) ==
    /\ q \in ops
    /\ ops' = ops \ {q}
    /\ UNCHANGED <<query, timer, newest, calls, shown, error>>

-------------------------------------------------------------------------------
\* The view never rests on another question than the one it is a view of,
\* but for a reload that a row's operation asked when it ended: the last
\* request asks what the shell's period, the tag filter and the search fields
\* say now, or a search is about to be sent (DayView.tsx:40, WeekView.tsx:47,
\* MonthView.tsx:46, AllTasksView.tsx:110, SearchView.tsx:47-51).
AsksForWhatIsViewed ==
    tab \in ListTab =>
       \/ timer
       \/ newest.q = Viewed
       \/ newest.by = "row"

\* What was typed is searched: unless the user goes on typing, filters or
\* leaves, the rows for it (or an error) come on screen, whatever Enter, row
\* operations and answers to earlier searches come in between (an earlier
\* answer may then replace them).  MaxAsks stops the model, not the program.
SearchAnswered ==
    \A s \in {q \in Question : q.view = "search"} :
       (tab = "search" /\ timer /\ Viewed = s)
          ~> \/ Viewed # s
             \/ error
             \/ shown # None /\ shown.q = s
             \/ timer /\ newest # None /\ newest.n = MaxAsks
===============================================================================
