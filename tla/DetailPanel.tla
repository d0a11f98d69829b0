----------------------------- MODULE DetailPanel -----------------------------
(***************************************************************************)
(* The task panel (ui/src/components/TaskDetail.tsx): one mount of it, the  *)
(* async handlers it has running, and the server that answers them in any   *)
(* order.                                                                   *)
(*                                                                          *)
(* A handler occupies a slot of `running' from the request it starts with   *)
(* to the answer it ends with; a follow-up request reuses the slot.  The    *)
(* server serves a request in one step; the answer arrives in a later one.  *)
(* A text is known by the task it was typed for: <<t, 0>> is the title t    *)
(* came with, <<t, 1>> one typed while t was on screen.                     *)
(***************************************************************************)
EXTENDS Integers, FiniteSets

CONSTANTS
    Task,        \* the tasks the panel may show
    None,        \* nothing
    Parent,      \* [Task -> Task \cup {None}]: the tree they form
    Horizon,     \* [Task -> horizon]
    Note,        \* the notes that may be written
    Born,        \* [Note -> Task]: the task a note is first written on
    Day,         \* the weekdays (seven in the code)
    Tables,      \* the documents the server may start with
    Slot,        \* handlers that may run at once (a bound)
    MaxWrites    \* writes the user starts in all (a bound)

VARIABLES
    id,          \* id: the task the view asks for
    page,        \* currentId: the task navigated to
    shown,       \* detail: the document on screen, or None
    loading,     \* loading
    titleDraft,  \* titleDraft
    noteDraft,   \* noteText: None or the task it was typed for
    editor,      \* editingNoteId: None or the note being edited
    noteBusy,    \* noteBusy
    deleting,    \* deletingTask
    open,        \* "open", "closing" (the 260 ms animation) or "closed"
    toast,       \* None or what its Undo button does
    srv,         \* the server: [Task -> document without its id and kids]
    alive,       \* the tasks the server has
    running,     \* [Slot -> handler or None]
    writes       \* how many writes the user has started

drafts == <<titleDraft, noteDraft, editor>>
flags == <<noteBusy, deleting, open>>
server == <<srv, alive>>
vars == <<id, page, shown, loading, drafts, flags, toast, server, running, writes>>

-------------------------------------------------------------------------------
(* Data.                                                                    *)

Text == Task \X {0, 1}

Freq == {"daily", "weekly", "monthly", "weekdays"}

\* A recurrence: its frequency and its weekdays ({} when it has none).
Rule == [freq : Freq, days : SUBSET Day]

\* freq -> horizon of the tasks it spawns.
PresetHorizon ==
    [f \in Freq |-> IF f = "weekdays" THEN "daily" ELSE f]

Record == [title : Text, rule : Rule \cup {None}, notes : SUBSET Note]

Doc == [id : Task, kids : SUBSET Task,
        title : Text, rule : Rule \cup {None}, notes : SUBSET Note]

\* deleteTask takes the subtasks along.
Cascade(t) == {k \in alive : k = t \/ Parent[k] = t}

NoteOps == {"addNote", "editNote", "deleteNote"}
Op == NoteOps \cup {"load", "title", "rule", "field", "reload", "refresh",
                    "reNote", "subtask", "deleteSubtask", "delete", "restore",
                    "restoreSubtask"}

\* Where a request is: with the server, or answered one way or another.
Progress == {"asked", "ok", "failed", "refused"}

\* The server's check of a recurrence patch: it decodes into the one stored, so
\* weekdays that are not sent stay.
MergedDays(t, r) ==
    IF r.days = {} /\ srv[t].rule # None THEN srv[t].rule.days ELSE r.days

RuleAccepted(t, r) ==
    \/ r = None
    \/ /\ r # None
       /\ (r.freq = "weekdays") <=> (MergedDays(t, r) # {})
       /\ PresetHorizon[r.freq] = Horizon[t]

\* A handler that is running, and what a toast's Undo button starts.
Handler == [op : Op, task : Task, page : Task, text : Text \cup {None},
            note : Note \cup {None}, rule : Rule \cup {None}, gone : SUBSET Task,
            holds : BOOLEAN, live : BOOLEAN, at : Progress,
            reply : Doc \cup {None}]

Undoing == [undo : {"reNote", "restore", "restoreSubtask"}, task : Task,
            note : Note \cup {None}, gone : SUBSET Task, page : Task]

ASSUME TreeAssumption ==
    /\ None \notin Task \cup Note \cup Doc \cup Handler
    /\ Parent \in [Task -> Task \cup {None}]
    /\ Born \in [Note -> Task]
    /\ Day # {}
    /\ Tables \subseteq [Task -> Record]
    /\ \A f \in Tables : \A t \in Task : \A n \in f[t].notes : Born[n] = t
    /\ Slot \subseteq Nat /\ MaxWrites \in Nat

-------------------------------------------------------------------------------
(* Handlers.                                                                *)

\* A handler as it starts: what it asks, and the render it closed over.
Asking(op, t) ==
    [op |-> op, task |-> t, page |-> page, text |-> None, note |-> None,
     rule |-> None, gone |-> {}, holds |-> op \in NoteOps, live |-> TRUE,
     at |-> "asked", reply |-> None]

Free(s) == running[s] = None
Busy(s) == running[s] # None
NextFree(s) == Free(s) /\ \A r \in Slot : r < s => Busy(r)
Start(s, h) == /\ NextFree(s) /\ writes < MaxWrites
               /\ running' = [running EXCEPT ![s] = h]
               /\ writes' = writes + 1
End(s) == running' = [running EXCEPT ![s] = None]

\* The handler's next request.
Then(s, op, t) ==
    running' = [running EXCEPT ![s] = [@ EXCEPT !.op = op, !.task = t, !.at = "asked",
                                               !.reply = None]]

Answered(s, op) == Busy(s) /\ running[s].op = op /\ running[s].at # "asked"
Succeeded(s, op) == Answered(s, op) /\ running[s].at = "ok"
Erred(s, op) == Answered(s, op) /\ running[s].at # "ok"

\* Mutant: earlier loads are not cancelled.
CancelledNever(rs) == rs

\* The loads of earlier pages are told to ignore their answers.
Cancelled(rs) ==
    [s \in Slot |-> IF rs[s] # None /\ rs[s].op = "load"
                    THEN [rs[s] EXCEPT !.live = FALSE] ELSE rs[s]]

Init ==
    /\ id \in Task /\ page = id
    /\ shown = None /\ loading = TRUE
    /\ titleDraft = None /\ noteDraft = None /\ editor = None
    /\ noteBusy = FALSE /\ deleting = FALSE /\ open = "open"
    /\ toast = None
    /\ alive = Task
    /\ srv \in Tables
    /\ \E s \in Slot :
         /\ \A r \in Slot : s <= r
         /\ running = [r \in Slot |-> IF r = s THEN Asking("load", page) ELSE None]
    /\ writes = 0

\* Setting the document of an unmounted panel does nothing.
Show(d) == shown' = IF open = "closed" THEN None ELSE d

\* The panel's header works once a task is shown, its body when none is loading.
Header == open # "closed" /\ shown # None
Body == Header /\ ~loading

-------------------------------------------------------------------------------
(* Moving between tasks.                                                    *)

Links == (shown.kids \cup {Parent[shown.id]}) \ {None, page}

\* The two effects on currentId.
Goto(s, t) ==
    /\ page' = t /\ loading' = TRUE
    /\ noteDraft' = None /\ editor' = None
    /\ NextFree(s)
    /\ running' = [Cancelled(running) EXCEPT
                     ![s] = [Asking("load", t) EXCEPT !.page = t]]
    /\ UNCHANGED <<shown, titleDraft, flags, toast, server, writes>>

\* A parent link or a subtask.
Navigate(s, t) ==
    /\ Body /\ t \in Links
    /\ Goto(s, t)
    /\ UNCHANGED id

\* The view behind the panel asks for another task.
Select(s, t) ==
    /\ open # "closed" /\ t # id
    /\ id' = t
    /\ IF t = page THEN UNCHANGED <<page, shown, loading, drafts, flags, toast,
                                   server, running, writes>>
                   ELSE Goto(s, t)

LoadAnswer(s) ==
    /\ Answered(s, "load") /\ running[s].live
    /\ loading' = FALSE
    /\ IF Succeeded(s, "load")
       THEN shown' = running[s].reply /\ titleDraft' = running[s].reply.title
       ELSE UNCHANGED <<shown, titleDraft>>
    /\ End(s)
    /\ UNCHANGED <<id, page, noteDraft, editor, flags, toast, server, writes>>

StaleLoadAnswer(s) ==
    /\ Answered(s, "load") /\ ~running[s].live
    /\ End(s)
    /\ UNCHANGED <<id, page, shown, loading, drafts, flags, toast, server, writes>>

RequestClose ==
    /\ open = "open"
    /\ open' = "closing"
    /\ UNCHANGED <<id, page, shown, loading, drafts, noteBusy, deleting, toast,
                   server, running, writes>>

\* The timer fires: onClose unmounts the panel, its state is gone.
Unmount ==
    /\ open = "closing"
    /\ open' = "closed"
    /\ shown' = None /\ titleDraft' = None /\ noteDraft' = None /\ editor' = None
    /\ loading' = FALSE /\ noteBusy' = FALSE /\ deleting' = FALSE
    /\ running' = Cancelled(running)
    /\ UNCHANGED <<id, page, toast, server, writes>>

-------------------------------------------------------------------------------
(* Edits that save themselves: each is a PATCH of the task on screen.       *)

Patch(s, op, text, rule) ==
    Start(s, [Asking(op, shown.id) EXCEPT !.text = text, !.rule = rule])

\* Leaving the title (or, with no reset, the description), typed into or not,
\* saves what differs from the document.
SaveTitle(s) ==
    /\ Body
    /\ titleDraft' \in {titleDraft, <<shown.id, 1>>} \ {shown.title}
    /\ Patch(s, "title", titleDraft', None)
    /\ UNCHANGED <<id, page, shown, loading, noteDraft, editor, flags, toast,
                   server>>

\* Priority, due date, assignee, and while the task is not being deleted its status.
SaveField(s) ==
    /\ Body \/ (Header /\ ~deleting)
    /\ Patch(s, "field", None, None)
    /\ UNCHANGED <<id, page, shown, loading, drafts, flags, toast, server>>

SaveRule(s, r) ==
    /\ Body
    /\ Patch(s, "rule", None, r)
    /\ UNCHANGED <<id, page, shown, loading, drafts, flags, toast, server>>

ToggleRecurOn(s) ==
    SaveRule(s, IF shown.rule # None THEN None
                ELSE [freq |-> "weekly", days |-> {}])

\* The presets on offer are those of the task's horizon.
Presets(t) == {f \in Freq : PresetHorizon[f] = Horizon[t]}

DefaultWeekdays == Day

SetFreq(s, f) ==
    /\ Body /\ shown.rule # None /\ f \in Presets(shown.id)
    /\ LET prior == IF shown.rule.freq = "weekdays" THEN shown.rule.days ELSE {}
       IN SaveRule(s, [freq |-> f,
                       days |-> IF f # "weekdays" THEN {}
                                ELSE IF prior # {} THEN prior
                                ELSE DefaultWeekdays])

\* The last weekday cannot be taken off.
ToggleWeekday(s, d) ==
    /\ Body /\ shown.rule # None /\ shown.rule.freq = "weekdays"
    /\ shown.rule.days # {d}
    /\ SaveRule(s, [freq |-> "weekdays",
                    days |-> IF d \in shown.rule.days THEN shown.rule.days \ {d}
                             ELSE shown.rule.days \cup {d}])

\* The interval and the day of the month go out with the rest of the rule.
ResendRule(s) ==
    /\ Body /\ shown.rule # None
    /\ SaveRule(s, shown.rule)

\* The answer becomes the document, whichever task is on screen by now.
PatchAnswer(s) ==
    /\ \E op \in {"title", "rule", "field"} :
         \/ /\ Succeeded(s, op)
            /\ Show([running[s].reply EXCEPT !.kids = shown.kids])
         \/ Erred(s, op) /\ UNCHANGED shown
    /\ End(s)
    /\ UNCHANGED <<id, page, loading, drafts, flags, toast, server, writes>>

-------------------------------------------------------------------------------
(* Daily notes: writes are serialised by noteBusy, the undo of a delete is  *)
(* not one of them.                                                         *)

TypeNote ==
    /\ Body
    /\ noteDraft' = shown.id
    /\ UNCHANGED <<id, page, shown, loading, titleDraft, editor, flags, toast,
                   server, running, writes>>

AddNote(s) ==
    /\ Body /\ noteDraft # None /\ ~noteBusy
    /\ noteBusy' = TRUE
    /\ Start(s, [Asking("addNote", shown.id) EXCEPT !.text = <<noteDraft, 1>>])
    /\ UNCHANGED <<id, page, shown, loading, drafts, deleting, open, toast, server>>

\* The note being edited is shown as an editor, if it is shown at all; the
\* others carry an Edit and a Delete button.
EditorOpen == Body /\ editor \in shown.notes
NotesListed == IF Body THEN shown.notes \ {editor} ELSE {}

StartEdit(n) ==
    /\ n \in NotesListed
    /\ editor' = n
    /\ UNCHANGED <<id, page, shown, loading, titleDraft, noteDraft, flags, toast,
                   server, running, writes>>

CancelEdit ==
    /\ EditorOpen
    /\ editor' = None
    /\ UNCHANGED <<id, page, shown, loading, titleDraft, noteDraft, flags, toast,
                   server, running, writes>>

SaveEdit(s) ==
    /\ EditorOpen /\ ~noteBusy
    /\ noteBusy' = TRUE
    /\ Start(s, [Asking("editNote", shown.id) EXCEPT !.note = editor])
    /\ UNCHANGED <<id, page, shown, loading, drafts, deleting, open, toast, server>>

\* Mutant: the delete button ignores noteBusy.
DeleteNoteAnyTime(s, n) ==
    /\ n \in NotesListed
    /\ noteBusy' = TRUE
    /\ Start(s, [Asking("deleteNote", shown.id) EXCEPT !.note = n])
    /\ UNCHANGED <<id, page, shown, loading, drafts, deleting, open, toast, server>>

DeleteNote(s, n) ==
    /\ n \in NotesListed /\ ~noteBusy
    /\ noteBusy' = TRUE
    /\ Start(s, [Asking("deleteNote", shown.id) EXCEPT !.note = n])
    /\ UNCHANGED <<id, page, shown, loading, drafts, deleting, open, toast, server>>

\* A write that succeeded closes its draft or its editor and refetches.
NoteWritten(s) ==
    /\ \E op \in NoteOps \cup {"reNote"} :
         /\ Succeeded(s, op)
         /\ noteDraft' = IF op = "addNote" THEN None ELSE noteDraft
         /\ editor' = IF op = "editNote" THEN None ELSE editor
         /\ running' = [running EXCEPT ![s] =
               [@ EXCEPT !.op = "refresh", !.at = "asked",
                         !.note = IF op = "deleteNote" THEN running[s].note ELSE None]]
    /\ UNCHANGED <<id, page, shown, loading, titleDraft, flags, toast, server, writes>>

NoteFailed(s) ==
    /\ \E op \in NoteOps \cup {"reNote", "refresh"} : Erred(s, op)
    /\ toast' = None                      \* an error message, without Undo
    /\ noteBusy' = (noteBusy /\ ~running[s].holds)
    /\ End(s)
    /\ UNCHANGED <<id, page, shown, loading, drafts, deleting, open, server, writes>>

\* Mutant: the undo goes to the task on screen.
UndoNoteHere(t, n) == [undo |-> "reNote", task |-> page, note |-> n,
                       gone |-> {}, page |-> t]

UndoNote(t, n) == [undo |-> "reNote", task |-> t, note |-> n, gone |-> {}, page |-> t]

\* Mutant: without the identity check.
RefreshedAny(s) ==
    /\ Succeeded(s, "refresh")
    /\ LET h == running[s] IN
       /\ Show(h.reply)
       /\ toast' = IF h.note # None THEN UndoNote(h.task, h.note) ELSE toast
       /\ noteBusy' = (noteBusy /\ ~h.holds)
    /\ End(s)
    /\ UNCHANGED <<id, page, loading, drafts, deleting, open, server, writes>>

\* refreshDetail: the document is replaced only if it is still this task's.
Refreshed(s) ==
    /\ Succeeded(s, "refresh")
    /\ LET h == running[s] IN
       /\ Show(IF shown.id = h.task THEN h.reply ELSE shown)
       /\ toast' = IF h.note # None THEN UndoNote(h.task, h.note) ELSE toast
       /\ noteBusy' = (noteBusy /\ ~h.holds)
    /\ End(s)
    /\ UNCHANGED <<id, page, loading, drafts, deleting, open, server, writes>>

-------------------------------------------------------------------------------
(* Subtasks, and deleting the task itself.                                  *)

\* toggleSubtask and addSubtask: one write, then reloadCurrent.
WriteSubtask(s, k) ==
    /\ Body /\ k \in shown.kids \cup {shown.id}
    /\ Start(s, Asking("subtask", k))
    /\ UNCHANGED <<id, page, shown, loading, drafts, flags, toast, server>>

DeleteSubtask(s, k) ==
    /\ Body /\ k \in shown.kids
    /\ Start(s, Asking("deleteSubtask", k))
    /\ UNCHANGED <<id, page, shown, loading, drafts, flags, toast, server>>

Restoring(op, h) == [undo |-> op, task |-> h.task, note |-> None,
                         gone |-> h.gone, page |-> h.page]

\* reloadCurrent asks for the page of the render the handler was started from.
SubtaskWritten(s) ==
    /\ \/ Succeeded(s, "subtask") /\ UNCHANGED toast
       \/ /\ Succeeded(s, "deleteSubtask")
          /\ toast' = Restoring("restoreSubtask", running[s])
       \/ Succeeded(s, "restoreSubtask") /\ UNCHANGED toast
    /\ Then(s, "reload", running[s].page)
    /\ UNCHANGED <<id, page, shown, loading, drafts, flags, server, writes>>

\* ... and shows what it gets.
Reloaded(s) ==
    /\ Succeeded(s, "reload")
    /\ Show(running[s].reply)
    /\ End(s)
    /\ UNCHANGED <<id, page, loading, drafts, flags, toast, server, writes>>

\* Mutant: the delete button stays enabled.
DeleteTaskAgain(s) ==
    /\ Header
    /\ deleting' = TRUE
    /\ Start(s, Asking("delete", shown.id))
    /\ UNCHANGED <<id, page, shown, loading, drafts, noteBusy, open, toast, server>>

DeleteTask(s) ==
    /\ Header /\ ~deleting
    /\ deleting' = TRUE
    /\ Start(s, Asking("delete", shown.id))
    /\ UNCHANGED <<id, page, shown, loading, drafts, noteBusy, open, toast, server>>

TaskDeleted(s) ==
    /\ Succeeded(s, "delete")
    /\ toast' = Restoring("restore", running[s])
    /\ open' = IF open = "open" THEN "closing" ELSE open
    /\ End(s)
    /\ UNCHANGED <<id, page, shown, loading, drafts, noteBusy, deleting, server, writes>>

DeleteFailed(s) ==
    /\ Erred(s, "delete")
    /\ deleting' = FALSE
    /\ End(s)
    /\ UNCHANGED <<id, page, shown, loading, drafts, noteBusy, open, toast, server, writes>>

\* The failures that only alert, and the end of a plain restore.
Ended(s) ==
    /\ \/ \E op \in {"subtask", "deleteSubtask", "reload", "restore",
                    "restoreSubtask"} : Erred(s, op)
       \/ Succeeded(s, "restore")
    /\ End(s)
    /\ UNCHANGED <<id, page, shown, loading, drafts, flags, toast, server, writes>>

\* The toast's button: fires its undo once and hides it.
Undo(s) ==
    /\ toast # None
    /\ toast' = None
    /\ Start(s, [Asking(toast.undo, toast.task) EXCEPT
                    !.note = toast.note, !.gone = toast.gone, !.page = toast.page])
    /\ UNCHANGED <<id, page, shown, loading, drafts, flags, server>>

Dismiss ==
    /\ toast # None
    /\ toast' = None
    /\ UNCHANGED <<id, page, shown, loading, drafts, flags, server, running, writes>>

-------------------------------------------------------------------------------
(* The server.                                                              *)

Answer(s, how, reply) ==
    running' = [running EXCEPT ![s] = [@ EXCEPT !.at = how, !.reply = reply]]

\* What getTask and updateTask answer with: the document as it stands once this
\* step is done.
DocAfter(t) == [id |-> t, kids |-> {k \in alive' : Parent[k] = t},
                title |-> srv'[t].title, rule |-> srv'[t].rule,
                notes |-> srv'[t].notes]

Serve(s) ==
    /\ Busy(s) /\ running[s].at = "asked"
    /\ running[s].task \in alive \cup running[s].gone
    /\ LET h == running[s]
           t == h.task
           old == srv[t]
           Becomes(new) == srv' = [srv EXCEPT ![t] = new] /\ UNCHANGED alive
       IN \/ /\ h.op \in {"load", "reload", "refresh", "field", "subtask"}
             /\ UNCHANGED server /\ Answer(s, "ok", DocAfter(t))
          \/ /\ h.op = "title"
             /\ Becomes([old EXCEPT !.title = h.text]) /\ Answer(s, "ok", DocAfter(t))
          \/ /\ h.op = "rule" /\ RuleAccepted(t, h.rule)
             /\ Becomes([old EXCEPT !.rule =
                   IF h.rule = None THEN None
                   ELSE [h.rule EXCEPT !.days = MergedDays(t, h.rule)]])
             /\ Answer(s, "ok", DocAfter(t))
          \/ /\ h.op = "addNote"
             /\ \E n \in Note : /\ Born[n] = t /\ n \notin old.notes
                                 /\ Becomes([old EXCEPT !.notes = @ \cup {n}])
             /\ Answer(s, "ok", None)
          \/ /\ h.op = "reNote"
             /\ Becomes([old EXCEPT !.notes = @ \cup {h.note}]) /\ Answer(s, "ok", None)
          \/ /\ h.op = "editNote" /\ h.note \in old.notes
             /\ UNCHANGED server /\ Answer(s, "ok", None)
          \/ /\ h.op = "deleteNote" /\ h.note \in old.notes
             /\ Becomes([old EXCEPT !.notes = @ \ {h.note}]) /\ Answer(s, "ok", None)
          \/ /\ h.op \in {"delete", "deleteSubtask"}
             /\ alive' = alive \ Cascade(t) /\ UNCHANGED srv
             /\ running' = [running EXCEPT ![s] = [@ EXCEPT !.at = "ok", !.gone = Cascade(t)]]
          \/ /\ h.op \in {"restore", "restoreSubtask"}
             /\ alive' = alive \cup h.gone /\ UNCHANGED srv /\ Answer(s, "ok", None)
    /\ UNCHANGED <<id, page, shown, loading, drafts, flags, toast, writes>>

\* A recurrence the validation refuses (400).
Refuse(s) ==
    /\ Busy(s) /\ running[s].op = "rule" /\ running[s].at = "asked"
    /\ running[s].task \in alive
    /\ ~RuleAccepted(running[s].task, running[s].rule)
    /\ Answer(s, "refused", None)
    /\ UNCHANGED <<id, page, shown, loading, drafts, flags, toast, server, writes>>

\* The task is gone, or the request or its answer was lost on the way.
Fail(s) ==
    /\ Busy(s) /\ running[s].at \in {"asked", "ok"}
    /\ Answer(s, "failed", None)
    /\ UNCHANGED <<id, page, shown, loading, drafts, flags, toast, server, writes>>

-------------------------------------------------------------------------------
(* The specification.                                                       *)

User ==
    \/ TypeNote \/ CancelEdit \/ RequestClose \/ Dismiss
    \/ \E n \in Note : StartEdit(n)
    \/ \E s \in Slot :
         \/ \E t \in Task : Navigate(s, t) \/ Select(s, t) \/ WriteSubtask(s, t) \/ DeleteSubtask(s, t)
         \/ \E f \in Freq : SetFreq(s, f)
         \/ \E d \in Day : ToggleWeekday(s, d)
         \/ \E n \in Note : DeleteNote(s, n)
         \/ SaveTitle(s) \/ SaveField(s) \/ ToggleRecurOn(s) \/ ResendRule(s)
         \/ AddNote(s) \/ SaveEdit(s) \/ DeleteTask(s) \/ Undo(s)

\* The answers a handler waits for, each of which it takes exactly once.
Resume(s) ==
    \/ LoadAnswer(s) \/ StaleLoadAnswer(s) \/ PatchAnswer(s)
    \/ NoteWritten(s) \/ NoteFailed(s) \/ Refreshed(s)
    \/ SubtaskWritten(s) \/ Reloaded(s)
    \/ TaskDeleted(s) \/ DeleteFailed(s) \/ Ended(s)

Network(s) == Serve(s) \/ Refuse(s) \/ Fail(s)

Next == User \/ Unmount \/ \E s \in Slot : Resume(s) \/ Network(s)

Spec == Init /\ [][Next]_vars

-------------------------------------------------------------------------------
(* Properties.                                                              *)

\* Types of the panel's state and of the requests in flight.
TypeOK ==
    /\ id \in Task /\ page \in Task /\ shown \in Doc \cup {None} /\ loading \in BOOLEAN
    /\ titleDraft \in Text \cup {None} /\ noteDraft \in Task \cup {None}
    /\ editor \in Note \cup {None}
    /\ noteBusy \in BOOLEAN /\ deleting \in BOOLEAN
    /\ open \in {"open", "closing", "closed"}
    /\ toast \in Undoing \cup {None}
    /\ srv \in [Task -> Record] /\ alive \subseteq Task
    /\ writes \in 0..MaxWrites
    /\ \A s \in Slot : Busy(s) => running[s] \in Handler

\* The spinner is up exactly while the load of the page asked for last is under
\* way, however many earlier loads are still to be answered.
LoadingIsLive ==
    open # "closed" =>
       (loading <=> \E s \in Slot : /\ Busy(s) /\ running[s].op = "load"
                                   /\ running[s].live /\ running[s].page = page)

Holders == {s \in Slot : Busy(s) /\ running[s].holds}

\* No two writes of notes (each with the refetch that follows it) overlap, even
\* across tasks, and the buttons come back when the last one is over.
OneNoteWrite ==
    /\ Cardinality(Holders) <= 1
    /\ open # "closed" => (noteBusy <=> Holders # {})

\* A deleted note that is undone comes back on the task it was deleted from,
\* whatever the panel shows when Undo is pressed; no edit or delete goes astray.
NotesStayHome ==
    /\ \A t \in Task : \A n \in srv[t].notes : Born[n] = t
    /\ \A s \in Slot : Busy(s) /\ running[s].note # None
          => running[s].task = Born[running[s].note]

\* The panel never has two deletes of its task under way, nor starts another
\* once one succeeded.
OneDelete ==
    LET Deletes == {s \in Slot : Busy(s) /\ running[s].op = "delete"} IN
    /\ Cardinality(Deletes) <= 1
    /\ Deletes # {} => deleting \/ open = "closed"
    /\ deleting /\ Deletes = {} => open # "open"

\* The refetch after a note write or its undo may come late; it never changes
\* which task is on screen.
NotesNeverMoveThePanel ==
    [][\A s \in Slot : Busy(s) /\ running[s].op = "refresh" /\ running'[s] = None
                         /\ open # "closed"
                      => shown'.id = shown.id]_vars

===============================================================================
