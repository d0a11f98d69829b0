-------------------------------- MODULE History --------------------------------
(***************************************************************************)
(* ui/src/views/TeamHistory.tsx: a team's closed tasks of past weeks, newest *)
(* first, a page at a time.                                                  *)
(*                                                                          *)
(* "Load more" asks for the page after the rows on screen and appends it; a  *)
(* change of the tag filter starts over; an edit in the task panel asks      *)
(* again for as many rows as the render it was started from had.  Nothing    *)
(* is cancelled and any answer ends the "loading more" state.  Tasks are     *)
(* numbers, a newer task a greater one; a task may leave the history (it is  *)
(* reopened or deleted) between two pages.                                   *)
(***************************************************************************)
EXTENDS Integers, Sequences, FiniteSets

CONSTANTS None, Tag, MaxTask, TagsOf, PAGE, MAX_LIMIT, MaxPages

VARIABLES
    history,  \* the view is mounted
    tags,     \* the tag filter
    closed,   \* the server's closed tasks
    rows,     \* the rows on screen, or None
    hasMore, loadingMore,
    pages,    \* requests in flight
    asked,    \* how many were sent since the view was mounted
    crossed,  \* requests crossed, a reload was lost, or the history changed
    edits     \* edits under way in the panel: the reload each ends with

hvars == <<closed, rows, hasMore, loadingMore, pages, asked, crossed, edits>>

Task == 1 .. MaxTask
Page == [n : 1 .. MaxPages, tags : SUBSET Tag, offset : 0 .. MaxTask * MaxPages,
         limit : 1 .. MAX_LIMIT, replace : BOOLEAN]

\* The server's list for a filter: every tag of it, newest first.
Matches(filter) == {t \in closed : filter \subseteq TagsOf[t]}
Ranked(S, i) == CHOOSE t \in S : Cardinality({u \in S : u > t}) = i - 1
Listed(filter) ==
    LET S == Matches(filter) IN [i \in 1 .. Cardinality(S) |-> Ranked(S, i)]

Smaller(a, b) == IF a < b THEN a ELSE b
Larger(a, b) == IF a > b THEN a ELSE b

Served(p) ==
    LET list == Listed(p.tags)
    IN  [tasks |-> SubSeq(list, p.offset + 1, Smaller(p.offset + p.limit, Len(list))),
         hasMore |-> p.offset + p.limit < Len(list)]

-------------------------------------------------------------------------------
Blank ==
    /\ closed = Task
    /\ rows = None /\ hasMore = FALSE /\ loadingMore = FALSE
    /\ pages = {} /\ asked = 0 /\ crossed = FALSE /\ edits = {}

FetchPage(offset, limit, replace, filter) ==
    /\ asked < MaxPages
    /\ asked' = asked + 1
    /\ pages' = pages \cup {[n |-> asked + 1, tags |-> filter, offset |-> offset,
                             limit |-> limit, replace |-> replace]}

\* Mounted, or the filter changed: start over.
Restart(filter) ==
    /\ rows' = None /\ hasMore' = FALSE
    /\ FetchPage(0, PAGE, TRUE, filter)
    /\ crossed' = (pages # {})
    /\ UNCHANGED <<closed, loadingMore, edits>>

\* Unmounted: nothing of the view is left, and the next one starts afresh.
Reset ==
    /\ closed' = Task
    /\ rows' = None /\ hasMore' = FALSE /\ loadingMore' = FALSE
    /\ pages' = {} /\ crossed' = FALSE /\ edits' = {}
    /\ asked' = 0

\* Mutant: "Load more" asks for the second page every time.
LoadSecondPage ==
    /\ history /\ rows # None /\ Len(rows) > 0 /\ hasMore /\ ~loadingMore
    /\ loadingMore' = TRUE
    /\ FetchPage(PAGE, PAGE, FALSE, tags)
    /\ crossed' = (crossed \/ pages # {})
    /\ UNCHANGED <<closed, rows, hasMore, edits>>

LoadMore ==
    /\ history /\ rows # None /\ Len(rows) > 0 /\ hasMore /\ ~loadingMore
    /\ loadingMore' = TRUE
    /\ FetchPage(Len(rows), PAGE, FALSE, tags)
    /\ crossed' = (crossed \/ pages # {})
    /\ UNCHANGED <<closed, rows, hasMore, edits>>

\* An answer, served as the history is now.
PageAnswer(p) ==
    /\ p \in pages
    /\ pages' = pages \ {p}
    /\ rows' = IF p.replace \/ rows = None THEN Served(p).tasks ELSE rows \o Served(p).tasks
    /\ hasMore' = Served(p).hasMore
    /\ loadingMore' = FALSE
    /\ UNCHANGED <<closed, asked, crossed, edits>>

PageFail(p) ==
    /\ p \in pages
    /\ pages' = pages \ {p}
    /\ loadingMore' = FALSE
    /\ crossed' = (crossed \/ p.replace)
    /\ UNCHANGED <<closed, rows, hasMore, asked, edits>>

-------------------------------------------------------------------------------
\* The panel of one row is open while an edit of it is started.
StartEdit ==
    /\ history /\ rows # None /\ Len(rows) > 0
    /\ edits = {}
    /\ edits' = {[tags |-> tags, limit |-> Smaller(MAX_LIMIT, Larger(PAGE, Len(rows)))]}
    /\ UNCHANGED <<closed, rows, hasMore, loadingMore, pages, asked, crossed>>

\* The edit lands: the task may leave the history, and the view reloads.
EditDone(e, gone) ==
    /\ e \in edits
    /\ edits' = {}
    /\ closed' = closed \ gone
    /\ FetchPage(0, e.limit, TRUE, e.tags)
    /\ crossed' = (crossed \/ pages # {} \/ e.tags # tags)
    /\ UNCHANGED <<rows, hasMore, loadingMore>>

\* The edited task leaves the history, or not.
Leaving == {{}} \cup {{t} : t \in closed}

EditFails(e) ==
    /\ e \in edits
    /\ edits' = {}
    /\ UNCHANGED <<closed, rows, hasMore, loadingMore, pages, asked, crossed>>

\* Another client reopens or deletes a closed task.
TaskLeaves(t) ==
    /\ history
    /\ closed' = closed \ {t}
    /\ t \in closed
    /\ crossed' = TRUE
    /\ UNCHANGED <<rows, hasMore, loadingMore, pages, asked, edits>>

-------------------------------------------------------------------------------
\* The rows are the newest ones of the list the filter asks for, with no row
\* twice and none left out, and "Load more" is offered exactly when the list
\* goes on, however pages, edits, failures and filter changes follow one
\* another: unless requests crossed, the filter was changed during an edit, a
\* reload was lost or another client changed the history (TeamHistory.tsx:74-105).
ShowsNewestRows ==
    history /\ rows # None /\ ~crossed /\ pages = {} =>
       LET list == Listed(tags)
       IN  /\ Len(rows) <= Len(list)
           /\ rows = SubSeq(list, 1, Len(rows))
           /\ hasMore = (Len(rows) < Len(list))
===============================================================================
