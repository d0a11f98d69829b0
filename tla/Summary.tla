-------------------------------- MODULE Summary --------------------------------
(***************************************************************************)
(* ui/src/components/SummaryPanel.tsx: the summary of a range of dates.     *)
(*                                                                          *)
(* The panel refetches on every change of its two date inputs and cancels   *)
(* the fetch it had in flight.  Dates are numbers; 0 is a cleared input.    *)
(* Answers arrive in any order, or fail.  The component around it decides   *)
(* when it is mounted (OpenAt) and unmounted (Unmount).                     *)
(***************************************************************************)
EXTENDS Naturals

CONSTANTS Date, None, MaxFetches

VARIABLES
    open,     \* the panel is mounted
    from, to, \* its inputs
    data,     \* the range whose summary is on screen, or None
    loading,
    failed,   \* an error is on screen
    closing,  \* the closing animation runs
    fetches,  \* requests in flight: the range, and whether it was cancelled
    sent      \* how many were sent since the panel opened

vars == <<open, from, to, data, loading, failed, closing, fetches, sent>>

Input == Date \cup {0}
Range == [from : Date, to : Date]
Fetch == [no : 1 .. MaxFetches, range : Range, cancelled : BOOLEAN]

rangeError == from # 0 /\ to # 0 /\ from > to

\* The question the inputs put, if they put one.
Asked == IF open /\ from # 0 /\ to # 0 /\ ~rangeError THEN [from |-> from, to |-> to] ELSE None

-------------------------------------------------------------------------------
Closed ==
    /\ open = FALSE /\ from = 0 /\ to = 0
    /\ data = None /\ loading = FALSE /\ failed = FALSE /\ closing = FALSE
    /\ fetches = {} /\ sent = 0

Init == Closed

\* Mutant: the answer to an earlier range is not turned away.
CancelNone == fetches

\* The effect's cleanup, run before the effect of the next range.
Cancelled == {[f EXCEPT !.cancelled = TRUE] : f \in fetches}

FetchOf(range) == [no |-> sent + 1, range |-> range, cancelled |-> FALSE]

Refetch(range) ==
    /\ sent < MaxFetches
    /\ sent' = sent + 1
    /\ fetches' = Cancelled \cup {FetchOf(range)}
    /\ loading' = TRUE /\ failed' = FALSE
    /\ UNCHANGED data

ShowNothing ==
    /\ fetches' = Cancelled
    /\ loading' = FALSE /\ failed' = FALSE
    /\ data' = None
    /\ UNCHANGED sent

\* The effect of an input that changed.
Effect == IF Asked' = None THEN ShowNothing ELSE Refetch(Asked')

OpenAt(first, last) ==
    /\ ~open
    /\ open' = TRUE
    /\ from' = first /\ to' = last
    /\ closing' = FALSE
    /\ Refetch([from |-> first, to |-> last])

SetFrom(d) ==
    /\ open
    /\ d # from /\ from' = d
    /\ UNCHANGED <<open, to, closing>>
    /\ Effect

SetTo(d) ==
    /\ open
    /\ d # to /\ to' = d
    /\ UNCHANGED <<open, from, closing>>
    /\ Effect

Landed(f) == f \in fetches /\ fetches' = fetches \ {f} /\ UNCHANGED <<open, from, to, closing, sent>>

Answer(f) ==
    /\ Landed(f)
    /\ IF f.cancelled THEN UNCHANGED <<data, loading>>
       ELSE data' = f.range /\ loading' = FALSE
    /\ UNCHANGED failed

Fail(f) ==
    /\ Landed(f)
    /\ IF f.cancelled THEN UNCHANGED <<data, loading, failed>>
       ELSE data' = None /\ loading' = FALSE /\ failed' = TRUE

RequestClose ==
    /\ open /\ ~closing
    /\ closing' = TRUE
    /\ UNCHANGED <<open, from, to, data, loading, failed, fetches, sent>>

\* Closed by its timer or left with its tab: late answers reach nobody.
Unmount ==
    /\ open' = FALSE /\ from' = 0 /\ to' = 0
    /\ data' = None /\ loading' = FALSE /\ failed' = FALSE /\ closing' = FALSE
    /\ fetches' = {} /\ sent' = 0

Edit == \E d \in Input : SetFrom(d) \/ SetTo(d)

Answers == \E f \in fetches : Answer(f) \/ Fail(f)

Next ==
    \/ \E first, last \in Date : first <= last /\ OpenAt(first, last)
    \/ Edit
    \/ Answers
    \/ RequestClose
    \/ open /\ Unmount

Spec == Init /\ [][Next]_vars

-------------------------------------------------------------------------------
TypeOK ==
    /\ open \in BOOLEAN /\ loading \in BOOLEAN /\ failed \in BOOLEAN /\ closing \in BOOLEAN
    /\ from \in Input /\ to \in Input
    /\ data \in Range \cup {None}
    /\ sent \in 0 .. MaxFetches
    /\ fetches \in SUBSET Fetch

\* Only the last request sent may be live, it asks for the range the inputs
\* show, and it is live exactly while the panel says it is loading.
LiveFetch ==
    /\ \A f \in fetches : f.no <= sent
    /\ \A f, g \in fetches : f.no = g.no => f = g
    /\ \A f \in fetches : ~f.cancelled => f.no = sent /\ f.range = Asked
    /\ loading <=> \E f \in fetches : ~f.cancelled
    /\ loading => Asked # None

\* The summary on screen is that of the range its inputs show, or it is
\* loading: no answer to an earlier range is ever left (or put) there
\* (SummaryPanel.tsx:49-77).
Latest == INSTANCE LatestAnswer
              WITH Question <- Range, asked <- Asked, shown <- data

ShowsLatestAnswer == Latest!Spec

===============================================================================
